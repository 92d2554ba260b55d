------------------------ MODULE DocumentSession_proofs ------------------------
(***************************************************************************)
(* Proofs about DocumentSession, for every set of contents, sketches and   *)
(* identifier kinds, every bound on identifiers and revisions and a        *)
(* history of any length, and about ProviderCalls, which extends it (the   *)
(* second part).                                                           *)
(*                                                                         *)
(* The argument: HistoryConsistent is inductive.  The properties a user    *)
(* sees (HistoryIsUsable, CursorsCoverHistory, the refinement of UndoRedo) *)
(* follow from it and are not inductive by themselves: that Undo finds the *)
(* state it expects needs every recorded state to lie below the session's  *)
(* cursors and the entries to meet at the cursor.                          *)
(***************************************************************************)
EXTENDS ProviderCalls, SequenceTheorems, TLAPS

USE ContentsAssumption, BoundsAssumption DEF Ids, Revisions

Inv == TypeOK /\ HistoryConsistent

-----------------------------------------------------------------------------
(* The cursor helpers *)

LEMMA ApplyCountedFacts ==
    ASSUME NEW s \in Authored, NEW ids \in [Counted -> Ids]
    PROVE  /\ ApplyCounted(s, ids) \in Authored
           /\ ApplyCounted(s, ids).content = s.content
           /\ ApplyCounted(s, ids).local = s.local
           /\ \A k \in Counted :
                  ApplyCounted(s, ids).next[k] = Larger(s.next[k], ids[k])
BY DEF ApplyCounted, Authored, Larger

LEMMA ApplyLocalFacts ==
    ASSUME NEW s \in Authored,
           NEW locals \in [LocalKinds -> [Sketches -> {Absent} \cup Ids]]
    PROVE  /\ ApplyLocal(s, locals) \in Authored
           /\ ApplyLocal(s, locals).content = s.content
           /\ ApplyLocal(s, locals).next = s.next
           /\ \A k \in LocalKinds : \A h \in Hosted(s.content) :
                  ApplyLocal(s, locals).local[k][h]
                      = Larger(s.local[k][h], locals[k][h])
<1> DEFINE L(k, h) == IF h \in Hosted(s.content)
                      THEN Larger(s.local[k][h], locals[k][h])
                      ELSE s.local[k][h]
           M == [k \in LocalKinds |-> [h \in Sketches |-> L(k, h)]]
<1>1. \A k \in LocalKinds, h \in Sketches : L(k, h) \in Ids
  BY DEF Authored, Larger, Absent
<1>2. M \in [LocalKinds -> [Sketches -> Ids]]
  BY <1>1
<1>3. \A k \in LocalKinds : \A h \in Hosted(s.content) :
          M[k][h] = Larger(s.local[k][h], locals[k][h])
  BY DEF Authored
<1>4. ApplyLocal(s, locals) = [s EXCEPT !.local = M]
  BY DEF ApplyLocal
<1> QED
  BY <1>2, <1>3, <1>4 DEF Authored

LEMMA AdjustedFacts ==
    ASSUME TypeOK, NEW s \in Authored
    PROVE  /\ Adjusted(s) \in Authored
           /\ Adjusted(s).content = s.content
           /\ \A k \in Counted :
                  Adjusted(s).next[k] = Larger(s.next[k], idCursor[k])
           /\ \A k \in LocalKinds : \A h \in Hosted(s.content) :
                  Adjusted(s).local[k][h]
                      = Larger(s.local[k][h], localCursor[k][h])
<1> DEFINE c == ApplyCounted(s, idCursor)
<1>1. /\ c \in Authored
      /\ c.content = s.content
      /\ c.local = s.local
      /\ \A k \in Counted : c.next[k] = Larger(s.next[k], idCursor[k])
  BY ApplyCountedFacts DEF TypeOK
<1>2. localCursor \in [LocalKinds -> [Sketches -> {Absent} \cup Ids]]
  BY DEF TypeOK
<1>3. Adjusted(s) = ApplyLocal(c, localCursor)
  BY DEF Adjusted
<1> HIDE DEF c
<1>4. /\ Adjusted(s) \in Authored
      /\ Adjusted(s).content = c.content
      /\ Adjusted(s).next = c.next
      /\ \A k \in LocalKinds : \A h \in Hosted(c.content) :
             Adjusted(s).local[k][h] = Larger(c.local[k][h], localCursor[k][h])
  BY <1>1, <1>2, <1>3, ApplyLocalFacts
<1> QED
  BY <1>1, <1>4

\* A state below the session's cursors leaves the adjustment with the
\* session's own counted cursors.
LEMMA AdjustedBelow ==
    ASSUME TypeOK, NEW s \in Authored,
           \A k \in Counted : s.next[k] <= idCursor[k]
    PROVE  Adjusted(s).next = idCursor
<1>1. /\ Adjusted(s) \in Authored
      /\ \A k \in Counted : Adjusted(s).next[k] = Larger(s.next[k], idCursor[k])
  BY AdjustedFacts
<1>2. Adjusted(s).next \in [Counted -> Ids] /\ idCursor \in [Counted -> Ids]
  BY <1>1 DEF Authored, TypeOK
<1>3. \A k \in Counted : s.next[k] \in Nat /\ idCursor[k] \in Nat
  BY DEF TypeOK, Authored
<1>4. \A k \in Counted : Adjusted(s).next[k] = idCursor[k]
  BY <1>1, <1>3 DEF Larger
<1> QED
  BY <1>2, <1>4

LEMMA ExpectationFacts ==
    ASSUME TypeOK, NEW s \in Authored,
           \A k \in Counted : s.next[k] <= idCursor[k]
    PROVE  /\ AdjustedExpectation(s).content = s.content
           /\ AdjustedExpectation(s).next = idCursor
<1> DEFINE locals == [k \in LocalKinds |-> IF k = "entity"
                                           THEN NoLocalCursors[k]
                                           ELSE localCursor[k]]
           c == ApplyCounted(s, idCursor)
<1>1. locals \in [LocalKinds -> [Sketches -> {Absent} \cup Ids]]
  BY DEF TypeOK, NoLocalCursors, Absent
<1>2. /\ c \in Authored
      /\ c.content = s.content
      /\ \A k \in Counted : c.next[k] = Larger(s.next[k], idCursor[k])
  BY ApplyCountedFacts DEF TypeOK
<1>3. c.next = idCursor
  <2>1. c.next \in [Counted -> Ids] /\ idCursor \in [Counted -> Ids]
    BY <1>2 DEF Authored, TypeOK
  <2>2. \A k \in Counted : c.next[k] = idCursor[k]
    BY <1>2 DEF TypeOK, Authored, Larger
  <2> QED
    BY <2>1, <2>2
<1>4. AdjustedExpectation(s) = ApplyLocal(c, locals)
  BY DEF AdjustedExpectation
<1> QED
  BY <1>1, <1>2, <1>3, <1>4, ApplyLocalFacts

\* What a changing commit of a staged state does.
LEMMA CommitFacts ==
    ASSUME NEW state \in Authored, NEW rev \in Revisions,
           NEW staged \in Authored
    PROVE  LET c == CommitState(state, rev, rev, staged)
           IN  /\ c.changed \in BOOLEAN
               /\ c.changed => /\ c.state = staged
                               /\ c.revision = rev + 1
                               /\ rev + 1 \in Revisions
                               /\ staged.content \in ValidContents
                               /\ ~SameState(staged, state)
               /\ ~c.changed => \/ staged.content \notin ValidContents
                                \/ SameState(staged, state)
                                \/ rev = MaxRevision
               /\ (c.code = "none" /\ ~SameState(staged, state)) => c.changed
BY DEF CommitState, Kept

-----------------------------------------------------------------------------
(* Initial states *)

LEMMA InitInv == Init => Inv
<1> SUFFICES ASSUME Init PROVE Inv
  OBVIOUS
<1>1. document \in Authored /\ document.content \in ValidContents
  BY DEF Init
<1>2. /\ localCursor \in [LocalKinds -> [Sketches -> {Absent} \cup Ids]]
      /\ \A k \in LocalKinds : \A h \in Hosted(document.content) :
             localCursor[k][h] = document.local[k][h]
  <2> DEFINE L(k, h) == IF h \in Hosted(document.content)
                        THEN Larger(NoLocalCursors[k][h], document.local[k][h])
                        ELSE NoLocalCursors[k][h]
  <2>1. localCursor = [k \in LocalKinds |-> [h \in Sketches |-> L(k, h)]]
    BY DEF Init, AbsorbLocal
  <2>2. \A k \in LocalKinds, h \in Sketches :
            /\ L(k, h) \in {Absent} \cup Ids
            /\ h \in Hosted(document.content) => L(k, h) = document.local[k][h]
    BY <1>1 DEF Authored, NoLocalCursors, Absent, Larger
  <2>3. Hosted(document.content) \subseteq Sketches
    BY <1>1 DEF Authored
  <2> QED
    BY <2>1, <2>2, <2>3
<1>3. TypeOK
  BY <1>1, <1>2 DEF Init, TypeOK, Authored, Outcome
<1>4. HistoryConsistent
  <2>1. CursorsAgree
    BY <1>2 DEF Init, CursorsAgree
  <2>2. Remembered(document) /\ saved = document /\ history = <<>> /\ cursor = 0
    BY <1>1, <1>2 DEF Init, Remembered, Authored
  <2> QED
    BY <2>1, <2>2 DEF Init, HistoryConsistent, RevisionAgrees,
       HistoryRemembered, HistoryChained, DocumentAtCursor
<1> QED
  BY <1>3, <1>4 DEF Inv

-----------------------------------------------------------------------------
(* Steps that change nothing but the answer *)

LEMMA ReturnedInv ==
    ASSUME Inv, NEW op, NEW code, Returned(op, code),
           op \in {"execute", "undo", "redo", "save"},
           code \in {"changed", "unchanged", "revision_diverged",
                     "history_diverged", "transaction_failure",
                     "invalid_command", "save_conflict", "persistence_failure"}
    PROVE  Inv'
<1>1. TypeOK'
  BY DEF Inv, TypeOK, Returned, Outcome
<1>2. HistoryConsistent'
  BY DEF Inv, Returned, HistoryConsistent, RevisionAgrees, CursorsAgree,
     HistoryRemembered, Remembered, HistoryChained, DocumentAtCursor
<1> QED
  BY <1>1, <1>2 DEF Inv

-----------------------------------------------------------------------------
(* Steps that replace the live document *)

(***************************************************************************)
(* The cursors after the session committed a state it had adjusted: the    *)
(* counted ones are the state's, the local ones agree with the state on    *)
(* the sketches it hosts, and none has gone back.                          *)
(***************************************************************************)
LEMMA AbsorbFacts ==
    ASSUME TypeOK, NEW s \in Authored,
           \A k \in Counted : s.next[k] >= idCursor[k],
           \A k \in LocalKinds : \A h \in Hosted(s.content) :
               s.local[k][h] >= localCursor[k][h]
    PROVE  /\ PreserveCounted(idCursor, s) = s.next
           /\ AbsorbLocal(localCursor, s)
                  \in [LocalKinds -> [Sketches -> {Absent} \cup Ids]]
           /\ \A k \in LocalKinds : \A h \in Hosted(s.content) :
                  AbsorbLocal(localCursor, s)[k][h] = s.local[k][h]
           /\ \A k \in LocalKinds : \A h \in Sketches :
                  AbsorbLocal(localCursor, s)[k][h] >= localCursor[k][h]
<1>1. PreserveCounted(idCursor, s) = s.next
  <2>1. s.next \in [Counted -> Ids] /\ idCursor \in [Counted -> Ids]
    BY DEF TypeOK, Authored
  <2>2. \A k \in Counted : Larger(idCursor[k], s.next[k]) = s.next[k]
    BY <2>1 DEF Larger
  <2> QED
    BY <2>1, <2>2 DEF PreserveCounted
<1> DEFINE L(k, h) == IF h \in Hosted(s.content)
                      THEN Larger(localCursor[k][h], s.local[k][h])
                      ELSE localCursor[k][h]
<1>2. AbsorbLocal(localCursor, s)
          = [k \in LocalKinds |-> [h \in Sketches |-> L(k, h)]]
  BY DEF AbsorbLocal
<1>3. \A k \in LocalKinds, h \in Sketches :
          /\ L(k, h) \in {Absent} \cup Ids
          /\ L(k, h) >= localCursor[k][h]
          /\ h \in Hosted(s.content) => L(k, h) = s.local[k][h]
  BY DEF TypeOK, Authored, Absent, Larger
<1>4. Hosted(s.content) \subseteq Sketches
  BY DEF Authored
<1> QED
  BY <1>1, <1>2, <1>3, <1>4

\* Remembered, by the cursors of the next state.
RememberedNext(s) ==
    /\ s.content \in ValidContents
    /\ \A k \in Counted : s.next[k] <= idCursor'[k]
    /\ \A k \in LocalKinds : \A h \in Hosted(s.content) :
           s.local[k][h] <= localCursor'[k][h]

\* Raising the cursors keeps every remembered state remembered.
LEMMA RememberedGrows ==
    ASSUME TypeOK, TypeOK', NEW s \in Authored, Remembered(s),
           \A k \in Counted : idCursor'[k] >= idCursor[k],
           \A k \in LocalKinds : \A h \in Sketches :
               localCursor'[k][h] >= localCursor[k][h]
    PROVE  RememberedNext(s)
<1>1. Hosted(s.content) \subseteq Sketches
  BY DEF Authored
<1>2. \A k \in Counted : /\ s.next[k] \in Nat /\ idCursor[k] \in Nat
                         /\ idCursor'[k] \in Nat
  BY DEF TypeOK, Authored
<1>3. \A k \in LocalKinds : \A h \in Sketches :
          /\ s.local[k][h] \in Nat /\ localCursor[k][h] \in Nat
          /\ localCursor'[k][h] \in Nat
  BY DEF TypeOK, Authored, Absent
<1> QED
  BY <1>1, <1>2, <1>3 DEF Remembered, RememberedNext

\* What the session keeps after it replaced the live state by an adjusted one.
LEMMA ReplaceFacts ==
    ASSUME Inv, NEW t \in Authored, NEW s, s = Adjusted(t),
           document' = s,
           idCursor' = PreserveCounted(idCursor, s),
           localCursor' = AbsorbLocal(localCursor, s)
    PROVE  /\ s \in Authored
           /\ idCursor' \in [Counted -> Ids]
           /\ localCursor' \in [LocalKinds -> [Sketches -> {Absent} \cup Ids]]
           /\ CursorsAgree'
           /\ \A k \in Counted : /\ idCursor'[k] >= idCursor[k]
                                 /\ s.next[k] <= idCursor'[k]
           /\ \A k \in LocalKinds : \A h \in Sketches :
                  localCursor'[k][h] >= localCursor[k][h]
           /\ \A k \in LocalKinds : \A h \in Hosted(s.content) :
                  s.local[k][h] <= localCursor'[k][h]
<1>1. TypeOK
  BY DEF Inv
<1>2. /\ s \in Authored
      /\ s.content = t.content
      /\ \A k \in Counted : s.next[k] = Larger(t.next[k], idCursor[k])
      /\ \A k \in LocalKinds : \A h \in Hosted(t.content) :
             s.local[k][h] = Larger(t.local[k][h], localCursor[k][h])
  BY <1>1, AdjustedFacts
<1>3. \A k \in Counted : s.next[k] >= idCursor[k]
  <2>1. \A k \in Counted : t.next[k] \in Nat /\ idCursor[k] \in Nat
    BY <1>1 DEF TypeOK, Authored
  <2> QED
    BY <1>2, <2>1 DEF Larger
<1>4. \A k \in LocalKinds : \A h \in Hosted(s.content) :
          s.local[k][h] >= localCursor[k][h]
  <2>1. \A k \in LocalKinds : \A h \in Sketches :
            t.local[k][h] \in Nat /\ localCursor[k][h] \in Nat
    BY <1>1 DEF TypeOK, Authored, Absent
  <2>2. Hosted(s.content) \subseteq Sketches
    BY <1>2 DEF Authored
  <2> QED
    BY <1>2, <2>1, <2>2 DEF Larger
<1>5. /\ idCursor' = s.next
      /\ localCursor' \in [LocalKinds -> [Sketches -> {Absent} \cup Ids]]
      /\ \A k \in LocalKinds : \A h \in Hosted(s.content) :
             localCursor'[k][h] = s.local[k][h]
      /\ \A k \in LocalKinds : \A h \in Sketches :
             localCursor'[k][h] >= localCursor[k][h]
  BY <1>1, <1>2, <1>3, <1>4, AbsorbFacts
<1>6. CursorsAgree'
  BY <1>5 DEF CursorsAgree
<1>7. s.next \in [Counted -> Ids]
  BY <1>2 DEF Authored
<1>8. \A k \in LocalKinds : \A h \in Hosted(s.content) :
          s.local[k][h] \in Nat
  BY <1>2 DEF Authored
<1>9. \A k \in Counted : s.next[k] \in Nat
  BY <1>7
<1> QED
  BY <1>2, <1>3, <1>5, <1>6, <1>7, <1>8, <1>9

\* The entries of a well-typed history.
LEMMA EntryFacts ==
    ASSUME TypeOK
    PROVE  \A i \in 1..Len(history) :
               /\ history[i] \in [before : Authored, after : Authored]
               /\ history[i].before \in Authored
               /\ history[i].after \in Authored
<1>1. history \in Seq([before : Authored, after : Authored])
  BY DEF TypeOK
<1>2. \A i \in 1..Len(history) :
          history[i] \in [before : Authored, after : Authored]
  BY <1>1, ElementOfSeq
<1> QED
  BY <1>2

\* The history after a commit, entry by entry.
LEMMA CommittedFacts ==
    ASSUME TypeOK, NEW e \in [before : Authored, after : Authored]
    PROVE  /\ Committed(e) \in Seq([before : Authored, after : Authored])
           /\ Len(Committed(e)) = cursor + 1
           /\ \A i \in 1..cursor : Committed(e)[i] = history[i]
           /\ Committed(e)[cursor + 1] = e
<1>1. /\ history \in Seq([before : Authored, after : Authored])
      /\ cursor \in 0..Len(history)
  BY DEF TypeOK
<1> DEFINE E == [before : Authored, after : Authored]
           kept == SubSeq(history, 1, cursor)
<1>2. \A i \in 1..cursor : history[i] \in E
  <2>1. \A i \in 1..cursor : i \in 1..Len(history)
    BY <1>1
  <2> QED
    BY <2>1, EntryFacts
<1> HIDE DEF E
<1>3. /\ kept \in Seq(E)
      /\ Len(kept) = cursor
      /\ \A i \in 1..cursor : kept[i] = history[i]
  <2>1. cursor \in Int /\ 1 \in Int /\ cursor \in Nat
    BY <1>1
  <2>2. /\ kept \in Seq(E)
        /\ Len(kept) = IF 1 <= cursor THEN cursor - 1 + 1 ELSE 0
        /\ \A i \in 1..(cursor - 1 + 1) : kept[i] = history[1 + i - 1]
    BY <1>2, <2>1, SubSeqProperties
  <2> HIDE DEF kept
  <2> QED
    BY <2>1, <2>2
<1>4. Committed(e) = Append(kept, e) /\ e \in E
  BY DEF Committed, E
<1> HIDE DEF kept
<1>5. /\ Committed(e) \in Seq(E)
      /\ Len(Committed(e)) = cursor + 1
      /\ \A i \in 1..cursor : Committed(e)[i] = kept[i]
      /\ Committed(e)[cursor + 1] = e
  BY <1>1, <1>3, <1>4
<1> QED
  BY <1>3, <1>5 DEF E

(***************************************************************************)
(* Any state may be committed, staged from the live one or not, as long as *)
(* it changes the content whenever its cursors are above the session's.    *)
(***************************************************************************)
LEMMA CommitInv ==
    ASSUME Inv, NEW after \in Authored, CommitCommandState(after),
           after.content = document.content =>
               \A k \in Counted : after.next[k] <= idCursor[k]
    PROVE  Inv'
<1> DEFINE adjusted == Adjusted(after)
           commit   == CommitState(document, revision, revision, adjusted)
           entry    == [before |-> document, after |-> adjusted]
           answer   == IF ~RevisionAgrees THEN "revision_diverged"
                       ELSE IF SameState(adjusted, document) THEN "unchanged"
                       ELSE IF commit.code # "none" THEN "transaction_failure"
                       ELSE "changed"
<1>1. TypeOK /\ HistoryConsistent
  BY DEF Inv
<1>2. CASE answer # "changed"
  <2>1. Returned("execute", answer)
    BY <1>2 DEF CommitCommandState
  <2>2. answer \in {"revision_diverged", "unchanged", "transaction_failure"}
    BY <1>2
  <2> QED
    BY <2>1, <2>2, ReturnedInv
<1>3. CASE answer = "changed"
  <2>1. /\ document' = commit.state
        /\ revision' = commit.revision
        /\ expected' = commit.revision
        /\ history' = Committed(entry)
        /\ cursor' = Len(history')
        /\ idCursor' = PreserveCounted(idCursor, adjusted)
        /\ localCursor' = AbsorbLocal(localCursor, adjusted)
        /\ result' = Outcome("execute", "changed")
        /\ UNCHANGED <<saved, hasCheckpoint>>
    BY <1>3 DEF CommitCommandState
  <2>2. adjusted \in Authored /\ adjusted.content = after.content
    BY <1>1, AdjustedFacts
  <2>3. ~SameState(adjusted, document) /\ commit.code = "none"
    BY <1>3
  <2>4. /\ commit.state = adjusted
        /\ commit.revision \in Revisions
        /\ adjusted.content \in ValidContents
    <3>1. document \in Authored /\ revision \in Revisions
      BY <1>1 DEF TypeOK
    <3> HIDE DEF adjusted
    <3> QED
      BY <2>2, <2>3, <3>1, CommitFacts
  <2> HIDE DEF adjusted, commit
  <2>5. document' = adjusted
    BY <2>1, <2>4
  <2>6. /\ idCursor' \in [Counted -> Ids]
        /\ localCursor' \in [LocalKinds -> [Sketches -> {Absent} \cup Ids]]
        /\ CursorsAgree'
        /\ \A k \in Counted : /\ idCursor'[k] >= idCursor[k]
                              /\ adjusted.next[k] <= idCursor'[k]
        /\ \A k \in LocalKinds : \A h \in Sketches :
               localCursor'[k][h] >= localCursor[k][h]
        /\ \A k \in LocalKinds : \A h \in Hosted(adjusted.content) :
               adjusted.local[k][h] <= localCursor'[k][h]
    BY <2>1, <2>5, ReplaceFacts DEF adjusted
  <2>7. entry \in [before : Authored, after : Authored]
    BY <1>1, <2>2 DEF TypeOK
  <2>8. /\ history' \in Seq([before : Authored, after : Authored])
        /\ Len(history') = cursor + 1
        /\ \A i \in 1..cursor : history'[i] = history[i]
        /\ history'[cursor + 1] = entry
    <3> HIDE DEF entry
    <3> QED
      BY <1>1, <2>1, <2>7, CommittedFacts
  <2>9. cursor \in 0..Len(history) /\ cursor' = cursor + 1
    BY <1>1, <2>1, <2>8 DEF TypeOK
  <2>10. TypeOK'
    BY <1>1, <2>1, <2>2, <2>4, <2>5, <2>6, <2>8, <2>9 DEF TypeOK, Outcome
  <2>11. \A x \in Authored : Remembered(x) => RememberedNext(x)
    BY <1>1, <2>6, <2>10, RememberedGrows
  <2>12. RememberedNext(adjusted)
    BY <2>4, <2>6 DEF RememberedNext
  <2>13. HistoryRemembered'
    <3>1. Remembered(document)' /\ Remembered(saved)'
      <4>1. saved \in Authored /\ Remembered(saved)
        BY <1>1 DEF TypeOK, HistoryConsistent, HistoryRemembered
      <4>2. RememberedNext(saved')
        BY <2>1, <2>11, <4>1
      <4> QED
        BY <2>5, <2>12, <4>2 DEF Remembered, RememberedNext
    <3>2. ASSUME NEW i \in 1..Len(history')
          PROVE  Remembered(history[i].before)' /\ Remembered(history[i].after)'
      <4>1. CASE i \in 1..cursor
        <5>1. history'[i] = history[i] /\ i \in 1..Len(history)
          BY <2>8, <2>9, <4>1
        <5>2. history[i].before \in Authored /\ history[i].after \in Authored
          BY <1>1, <5>1, EntryFacts
        <5>3. Remembered(history[i].before) /\ Remembered(history[i].after)
          BY <1>1, <5>1 DEF HistoryConsistent, HistoryRemembered
        <5> QED
          BY <2>11, <5>1, <5>2, <5>3 DEF Remembered, RememberedNext
      <4>2. CASE i = cursor + 1
        <5>1. history'[i].before = document /\ history'[i].after = adjusted
          BY <2>8, <4>2
        <5>2. Remembered(document) /\ document \in Authored
          BY <1>1 DEF HistoryConsistent, HistoryRemembered, TypeOK
        <5> QED
          BY <2>11, <2>12, <5>1, <5>2 DEF Remembered, RememberedNext
      <4> QED
        BY <2>8, <2>9, <4>1, <4>2
    <3> QED
      BY <3>1, <3>2 DEF HistoryRemembered
  <2>14. adjusted.content # document.content
    <3>1. idCursor = document.next
      BY <1>1 DEF HistoryConsistent, CursorsAgree
    <3>2. after.content = document.content => adjusted.next = idCursor
      BY <1>1, AdjustedBelow DEF adjusted
    <3> QED
      BY <2>2, <2>3, <3>1, <3>2 DEF SameState
  <2>15. HistoryChained'
    <3>1. \A i \in 1..Len(history') :
              history'[i].before.content # history'[i].after.content
      <4> TAKE i \in 1..Len(history')
      <4>1. CASE i \in 1..cursor
        BY <1>1, <2>8, <2>9, <4>1 DEF HistoryConsistent, HistoryChained
      <4>2. CASE i = cursor + 1
        BY <2>8, <2>14, <4>2
      <4> QED
        BY <2>8, <2>9, <4>1, <4>2
    <3>2. ASSUME NEW i \in 1..Len(history'), NEW j \in 1..Len(history'),
                 j = i + 1
          PROVE  history'[i].after.content = history'[j].before.content
      <4>1. i \in 1..cursor /\ i \in 1..Len(history) /\ history'[i] = history[i]
        BY <2>8, <2>9, <3>2
      <4>2. CASE j \in 1..cursor
        BY <1>1, <2>8, <2>9, <3>2, <4>1, <4>2 DEF HistoryConsistent, HistoryChained
      <4>3. CASE j = cursor + 1
        <5>1. i = cursor /\ cursor > 0
          BY <2>9, <3>2, <4>1, <4>3
        <5>2. document.content = history[cursor].after.content
          BY <1>1, <5>1 DEF HistoryConsistent, DocumentAtCursor
        <5> QED
          BY <2>8, <4>1, <4>3, <5>1, <5>2
      <4> QED
        BY <2>8, <2>9, <4>2, <4>3
    <3> QED
      BY <3>1, <3>2 DEF HistoryChained
  <2>16. DocumentAtCursor'
    BY <2>5, <2>8, <2>9 DEF DocumentAtCursor
  <2>17. RevisionAgrees'
    BY <2>1 DEF RevisionAgrees
  <2> QED
    BY <2>6, <2>10, <2>13, <2>15, <2>16, <2>17 DEF Inv, HistoryConsistent
<1> QED
  BY <1>2, <1>3

LEMMA ExecuteInv ==
    ASSUME Inv, NEW after \in Authored, Execute(after)
    PROVE  Inv'
<1>1. /\ CommitCommandState(after)
      /\ after.content = document.content => after.next = document.next
  BY DEF Execute, CommandResult
<1>2. idCursor = document.next /\ \A k \in Counted : idCursor[k] \in Nat
  BY DEF Inv, TypeOK, HistoryConsistent, CursorsAgree
<1>3. after.content = document.content =>
          \A k \in Counted : after.next[k] <= idCursor[k]
  BY <1>1, <1>2
<1> QED
  BY <1>1, <1>3, CommitInv

(***************************************************************************)
(* Undo and Redo share one argument: at a consistent history the state     *)
(* they expect is the live one, and the state they restore differs from it.*)
(***************************************************************************)
LEMMA HistoricalChanges ==
    ASSUME Inv, NEW e \in Authored, NEW t \in Authored,
           Remembered(e), Remembered(t),
           document.content = e.content, t.content # e.content
    PROVE  /\ SameState(document, AdjustedExpectation(e))
           /\ CommitState(document, revision, revision, Adjusted(t)).changed
                  \/ revision = MaxRevision
<1>1. TypeOK /\ idCursor = document.next /\ RevisionAgrees
  BY DEF Inv, HistoryConsistent, CursorsAgree
<1>2. /\ AdjustedExpectation(e).content = e.content
      /\ AdjustedExpectation(e).next = idCursor
  BY <1>1, ExpectationFacts DEF Remembered
<1>3. SameState(document, AdjustedExpectation(e))
  BY <1>1, <1>2 DEF SameState
<1> DEFINE s == Adjusted(t)
<1>4. s \in Authored /\ s.content = t.content
  BY <1>1, AdjustedFacts
<1>5. s.content \in ValidContents /\ ~SameState(s, document)
  BY <1>4 DEF Remembered, SameState
<1>6. document \in Authored /\ revision \in Revisions
  BY <1>1 DEF TypeOK
<1> HIDE DEF s
<1>7. \/ CommitState(document, revision, revision, s).changed
      \/ revision = MaxRevision
  BY <1>4, <1>5, <1>6, CommitFacts
<1> QED
  BY <1>3, <1>7 DEF s

LEMMA HistoricalInv ==
    ASSUME Inv,
           NEW op \in {"undo", "redo"},
           NEW e \in Authored, NEW t \in Authored, NEW p \in 0..Len(history),
           Remembered(t),
           p > 0 => history[p].after.content = t.content,
           p < Len(history) => history[p + 1].before.content = t.content,
           ApplyHistoricalState(op, e, t, p)
    PROVE  Inv'
<1> DEFINE adjusted == Adjusted(t)
           commit == CommitState(document, revision, revision, adjusted)
           answer == IF ~RevisionAgrees THEN "revision_diverged"
                     ELSE IF ~SameState(document, AdjustedExpectation(e))
                          THEN "history_diverged"
                     ELSE IF ~commit.changed THEN "transaction_failure"
                     ELSE "changed"
<1>1. TypeOK /\ HistoryConsistent
  BY DEF Inv
<1>2. CASE answer # "changed"
  <2>1. Returned(op, answer)
    BY <1>2 DEF ApplyHistoricalState
  <2>2. answer \in {"revision_diverged", "history_diverged", "transaction_failure"}
    BY <1>2
  <2> QED
    BY <2>1, <2>2, ReturnedInv
<1>3. CASE answer = "changed"
  <2>1. /\ document' = commit.state
        /\ revision' = commit.revision
        /\ expected' = commit.revision
        /\ idCursor' = PreserveCounted(idCursor, commit.state)
        /\ localCursor' = AbsorbLocal(localCursor, commit.state)
        /\ cursor' = p
        /\ result' = Outcome(op, "changed")
        /\ UNCHANGED <<history, saved, hasCheckpoint>>
    BY <1>3 DEF ApplyHistoricalState
  <2>2. commit.changed
    BY <1>3
  <2>3. adjusted \in Authored /\ adjusted.content = t.content
    BY <1>1, AdjustedFacts
  <2>4. commit.state = adjusted /\ commit.revision \in Revisions
    <3>1. document \in Authored /\ revision \in Revisions
      BY <1>1 DEF TypeOK
    <3> HIDE DEF adjusted
    <3> QED
      BY <2>2, <2>3, <3>1, CommitFacts
  <2> HIDE DEF adjusted, commit
  <2>5. document' = adjusted
    BY <2>1, <2>4
  <2>6. /\ idCursor' \in [Counted -> Ids]
        /\ localCursor' \in [LocalKinds -> [Sketches -> {Absent} \cup Ids]]
        /\ CursorsAgree'
        /\ \A k \in Counted : /\ idCursor'[k] >= idCursor[k]
                              /\ adjusted.next[k] <= idCursor'[k]
        /\ \A k \in LocalKinds : \A h \in Sketches :
               localCursor'[k][h] >= localCursor[k][h]
        /\ \A k \in LocalKinds : \A h \in Hosted(adjusted.content) :
               adjusted.local[k][h] <= localCursor'[k][h]
    BY <2>1, <2>4, <2>5, ReplaceFacts DEF adjusted
  <2>7. TypeOK'
    BY <1>1, <2>1, <2>3, <2>4, <2>5, <2>6 DEF TypeOK, Outcome
  <2>8. \A x \in Authored : Remembered(x) => RememberedNext(x)
    BY <1>1, <2>6, <2>7, RememberedGrows
  <2>9. RememberedNext(adjusted)
    BY <2>3, <2>6 DEF Remembered, RememberedNext
  <2>10. HistoryRemembered'
    <3>1. Remembered(document)' /\ Remembered(saved)'
      <4>1. saved \in Authored /\ Remembered(saved)
        BY <1>1 DEF TypeOK, HistoryConsistent, HistoryRemembered
      <4>2. RememberedNext(saved')
        BY <2>1, <2>8, <4>1
      <4> QED
        BY <2>5, <2>9, <4>2 DEF Remembered, RememberedNext
    <3>2. ASSUME NEW i \in 1..Len(history')
          PROVE  Remembered(history[i].before)' /\ Remembered(history[i].after)'
      <4>1. history'[i] = history[i] /\ i \in 1..Len(history)
        BY <2>1
      <4>2. history[i].before \in Authored /\ history[i].after \in Authored
        BY <1>1, <4>1, EntryFacts
      <4>3. Remembered(history[i].before) /\ Remembered(history[i].after)
        BY <1>1, <4>1 DEF HistoryConsistent, HistoryRemembered
      <4> QED
        BY <2>8, <4>1, <4>2, <4>3 DEF Remembered, RememberedNext
    <3> QED
      BY <3>1, <3>2 DEF HistoryRemembered
  <2>11. HistoryChained'
    BY <1>1, <2>1 DEF HistoryConsistent, HistoryChained
  <2>12. DocumentAtCursor'
    BY <2>1, <2>3, <2>5 DEF DocumentAtCursor
  <2>13. RevisionAgrees'
    BY <2>1 DEF RevisionAgrees
  <2> QED
    BY <2>6, <2>7, <2>10, <2>11, <2>12, <2>13 DEF Inv, HistoryConsistent
<1> QED
  BY <1>2, <1>3

\* The two states Undo hands over, and the two Redo hands over.
LEMMA AtCursor ==
    ASSUME Inv
    PROVE  /\ CanUndo =>
                /\ history[cursor].after \in Authored
                /\ history[cursor].before \in Authored
                /\ Remembered(history[cursor].after)
                /\ Remembered(history[cursor].before)
                /\ document.content = history[cursor].after.content
                /\ history[cursor].before.content # history[cursor].after.content
                /\ cursor - 1 \in 0..Len(history)
                /\ cursor - 1 < Len(history)
                /\ cursor - 1 > 0 => history[cursor - 1].after.content
                                         = history[cursor].before.content
           /\ CanRedo =>
                /\ history[cursor + 1].after \in Authored
                /\ history[cursor + 1].before \in Authored
                /\ Remembered(history[cursor + 1].after)
                /\ Remembered(history[cursor + 1].before)
                /\ document.content = history[cursor + 1].before.content
                /\ history[cursor + 1].before.content
                       # history[cursor + 1].after.content
                /\ cursor + 1 \in 0..Len(history)
                /\ cursor + 1 < Len(history) =>
                       history[cursor + 1 + 1].before.content
                           = history[cursor + 1].after.content
<1>1. /\ TypeOK /\ HistoryRemembered /\ HistoryChained /\ DocumentAtCursor
      /\ cursor \in 0..Len(history) /\ Len(history) \in Nat
  BY DEF Inv, HistoryConsistent, TypeOK
<1>2. ASSUME CanUndo
      PROVE  /\ cursor \in 1..Len(history)
             /\ cursor - 1 > 0 => /\ cursor - 1 \in 1..Len(history)
                                  /\ cursor = (cursor - 1) + 1
  BY <1>1, <1>2 DEF CanUndo
<1>3. ASSUME CanRedo
      PROVE  /\ cursor + 1 \in 1..Len(history)
             /\ cursor + 1 < Len(history) => cursor + 1 + 1 \in 1..Len(history)
  BY <1>1, <1>3 DEF CanRedo
<1>4. CanUndo => cursor > 0
  BY DEF CanUndo
<1>5. CanRedo => cursor < Len(history)
  BY DEF CanRedo
<1> QED
  BY <1>1, <1>2, <1>3, <1>4, <1>5, EntryFacts
     DEF HistoryRemembered, HistoryChained, DocumentAtCursor

LEMMA UndoInv == Inv /\ Undo => Inv'
<1> SUFFICES ASSUME Inv, Undo PROVE Inv'
  OBVIOUS
<1>1. CASE CanUndo
  <2>1. ApplyHistoricalState("undo", history[cursor].after,
                             history[cursor].before, cursor - 1)
    BY <1>1 DEF Undo
  <2>2. (cursor - 1) + 1 = cursor
    BY DEF Inv, TypeOK
  <2> QED
    BY <1>1, <2>1, <2>2, AtCursor, HistoricalInv
<1>2. CASE ~CanUndo
  BY <1>2, ReturnedInv DEF Undo
<1> QED
  BY <1>1, <1>2

LEMMA RedoInv == Inv /\ Redo => Inv'
<1> SUFFICES ASSUME Inv, Redo PROVE Inv'
  OBVIOUS
<1>1. CASE CanRedo
  <2>1. ApplyHistoricalState("redo", history[cursor + 1].before,
                             history[cursor + 1].after, cursor + 1)
    BY <1>1 DEF Redo
  <2>2. cursor + 1 > 0
    BY DEF Inv, TypeOK
  <2> QED
    BY <1>1, <2>1, <2>2, AtCursor, HistoricalInv
<1>2. CASE ~CanRedo
  BY <1>2, ReturnedInv DEF Redo
<1> QED
  BY <1>1, <1>2

LEMMA SaveInv == Inv /\ Save => Inv'
<1> SUFFICES ASSUME Inv, Save PROVE Inv'
  OBVIOUS
<1>1. CASE SaveRefused
  <2>1. PICK code \in {"revision_diverged", "persistence_failure",
                       "save_conflict"} : Returned("save", code)
    BY <1>1 DEF SaveRefused
  <2> QED
    BY <2>1, ReturnedInv
<1>2. CASE SaveSucceeds
  <2>1. TypeOK'
    BY <1>2 DEF Inv, TypeOK, SaveSucceeds, Outcome
  <2>2. HistoryConsistent'
    BY <1>2 DEF SaveSucceeds, Inv, HistoryConsistent, RevisionAgrees,
       CursorsAgree, HistoryRemembered, Remembered, HistoryChained,
       DocumentAtCursor
  <2> QED
    BY <2>1, <2>2 DEF Inv
<1> QED
  BY <1>1, <1>2 DEF Save

LEMMA StutterInv == Inv /\ UNCHANGED vars => Inv'
BY DEF vars, Inv, TypeOK, HistoryConsistent, RevisionAgrees, CursorsAgree,
   HistoryRemembered, Remembered, HistoryChained, DocumentAtCursor

LEMMA NextInv == Inv /\ [Next]_vars => Inv'
<1> SUFFICES ASSUME Inv, [Next]_vars PROVE Inv'
  OBVIOUS
<1>1. ASSUME NEW after \in Authored, Execute(after) PROVE Inv'
  BY <1>1, ExecuteInv
<1>2. CASE Undo
  BY <1>2, UndoInv
<1>3. CASE Redo
  BY <1>3, RedoInv
<1>4. CASE Save
  BY <1>4, SaveInv
<1>5. CASE UNCHANGED vars
  BY <1>5, StutterInv
<1> QED
  BY <1>1, <1>2, <1>3, <1>4, <1>5 DEF Next

LEMMA InvAlways == Spec => []Inv
BY InitInv, NextInv, PTL DEF Spec

-----------------------------------------------------------------------------
(* Theorems *)

\* The session's state keeps its shape; in particular the undo cursor stays
\* within the history (the code indexes history_ with it unchecked).
THEOREM SessionTypeOK == Spec => []TypeOK
BY InvAlways, PTL DEF Inv

\* The live document and the history never drift apart (commitCommandState,
\* applyHistoricalState): entries chain, the live content is the one at the
\* cursor, and no recorded state outruns the session's cursors.
THEOREM SessionHistoryConsistent == Spec => []HistoryConsistent
BY InvAlways, PTL DEF Inv

-----------------------------------------------------------------------------
(* Undo and Redo are never refused *)

LEMMA HistoricalAnswer ==
    ASSUME Inv,
           NEW op \in {"undo", "redo"},
           NEW e \in Authored, NEW t \in Authored, NEW p,
           Remembered(e), Remembered(t),
           document.content = e.content, t.content # e.content,
           ApplyHistoricalState(op, e, t, p)
    PROVE  HistoryIsUsable'
<1> DEFINE commit == CommitState(document, revision, revision, Adjusted(t))
           answer == IF ~RevisionAgrees THEN "revision_diverged"
                     ELSE IF ~SameState(document, AdjustedExpectation(e))
                          THEN "history_diverged"
                     ELSE IF ~commit.changed THEN "transaction_failure"
                     ELSE "changed"
<1>1. /\ RevisionAgrees
      /\ SameState(document, AdjustedExpectation(e))
      /\ commit.changed \/ revision = MaxRevision
  BY HistoricalChanges DEF Inv, HistoryConsistent
<1>2. CASE answer # "changed"
  <2>1. answer = "transaction_failure" /\ revision = MaxRevision
    BY <1>1, <1>2
  <2>2. Returned(op, answer)
    BY <1>2 DEF ApplyHistoricalState
  <2>3. result'.code = "transaction_failure" /\ revision' = MaxRevision
    BY <2>1, <2>2 DEF Returned, Outcome
  <2> QED
    BY <2>3 DEF HistoryIsUsable
<1>3. CASE answer = "changed"
  <2>1. result' = Outcome(op, "changed")
    BY <1>3 DEF ApplyHistoricalState
  <2> QED
    BY <2>1 DEF HistoryIsUsable, Outcome
<1> QED
  BY <1>2, <1>3

LEMMA UsableStep == Inv /\ HistoryIsUsable /\ [Next]_vars => HistoryIsUsable'
<1> SUFFICES ASSUME Inv, HistoryIsUsable, [Next]_vars PROVE HistoryIsUsable'
  OBVIOUS
<1>1. ASSUME NEW after \in Authored, Execute(after) PROVE HistoryIsUsable'
  <2>1. result'.op = "execute"
    BY <1>1 DEF Execute, CommitCommandState, Returned, Outcome
  <2> QED
    BY <2>1 DEF HistoryIsUsable
<1>2. CASE Undo
  <2>1. CASE CanUndo
    <3>1. ApplyHistoricalState("undo", history[cursor].after,
                               history[cursor].before, cursor - 1)
      BY <1>2, <2>1 DEF Undo
    <3> QED
      BY <2>1, <3>1, AtCursor, HistoricalAnswer
  <2>2. CASE ~CanUndo
    BY <1>2, <2>2 DEF Undo, Returned, Outcome, HistoryIsUsable
  <2> QED
    BY <2>1, <2>2
<1>3. CASE Redo
  <2>1. CASE CanRedo
    <3>1. ApplyHistoricalState("redo", history[cursor + 1].before,
                               history[cursor + 1].after, cursor + 1)
      BY <1>3, <2>1 DEF Redo
    <3> QED
      BY <2>1, <3>1, AtCursor, HistoricalAnswer
  <2>2. CASE ~CanRedo
    BY <1>3, <2>2 DEF Redo, Returned, Outcome, HistoryIsUsable
  <2> QED
    BY <2>1, <2>2
<1>4. CASE Save
  <2>1. result'.op = "save"
    BY <1>4 DEF Save, SaveRefused, SaveSucceeds, Returned, Outcome
  <2> QED
    BY <2>1 DEF HistoryIsUsable
<1>5. CASE UNCHANGED vars
  BY <1>5 DEF vars, HistoryIsUsable
<1> QED
  BY <1>1, <1>2, <1>3, <1>4, <1>5 DEF Next

\* undo() and redo() never answer history_diverged, revision_diverged or, until
\* the revision is exhausted, transaction_failure: a user can always walk back
\* and forth through the history, whatever the cursors were raised to.
THEOREM SessionHistoryIsUsable == Spec => []HistoryIsUsable
<1>1. Init => HistoryIsUsable
  BY DEF Init, Outcome, HistoryIsUsable
<1> QED
  BY <1>1, InvAlways, UsableStep, PTL DEF Spec

-----------------------------------------------------------------------------
(* Identifiers *)

LEMMA InvCovers == Inv => CursorsCoverHistory
<1> SUFFICES ASSUME Inv PROVE CursorsCoverHistory
  OBVIOUS
<1>1. /\ TypeOK /\ HistoryRemembered /\ CursorsAgree
      /\ DOMAIN history = 1..Len(history)
  BY DEF Inv, HistoryConsistent, TypeOK
<1> SUFFICES ASSUME NEW s \in {history[i].before : i \in DOMAIN history}
                              \cup {history[i].after : i \in DOMAIN history}
                              \cup {saved}
             PROVE  /\ \A k \in Counted : s.next[k] <= document.next[k]
                    /\ \A k \in LocalKinds,
                          h \in Hosted(s.content) \cap Hosted(document.content) :
                           s.local[k][h] <= document.local[k][h]
  BY DEF CursorsCoverHistory
<1>2. Remembered(s)
  BY <1>1 DEF HistoryRemembered
<1> QED
  BY <1>1, <1>2 DEF Remembered, CursorsAgree

\* No state Undo, Redo or the saved file can bring back holds an identifier
\* that the live cursors could still give out.
THEOREM SessionCursorsCoverHistory == Spec => []CursorsCoverHistory
BY InvAlways, InvCovers, PTL

\* The session's cursors only grow.
CursorsGrow ==
    /\ \A k \in Counted : idCursor'[k] >= idCursor[k]
    /\ \A k \in LocalKinds : \A h \in Sketches :
           localCursor'[k][h] >= localCursor[k][h]

LEMMA UnchangedCursorsGrow ==
    ASSUME Inv, UNCHANGED <<idCursor, localCursor>> PROVE CursorsGrow
<1>1. /\ \A k \in Counted : idCursor[k] \in Nat
      /\ \A k \in LocalKinds : \A h \in Sketches : localCursor[k][h] \in Nat
  BY DEF Inv, TypeOK, Absent
<1> QED
  BY <1>1 DEF CursorsGrow

LEMMA AdjustedCommitGrows ==
    ASSUME Inv, NEW t \in Authored,
           CommitState(document, revision, revision, Adjusted(t)).changed,
           document' = CommitState(document, revision, revision, Adjusted(t)).state,
           idCursor' = PreserveCounted(idCursor, document'),
           localCursor' = AbsorbLocal(localCursor, document')
    PROVE  CursorsGrow
<1>1. Adjusted(t) \in Authored /\ document \in Authored /\ revision \in Revisions
  BY AdjustedFacts DEF Inv, TypeOK
<1>2. document' = Adjusted(t)
  BY <1>1, CommitFacts
<1> QED
  BY <1>2, ReplaceFacts DEF CursorsGrow

LEMMA StepGrows == Inv /\ [Next]_vars => CursorsGrow
<1> SUFFICES ASSUME Inv, [Next]_vars PROVE CursorsGrow
  OBVIOUS
<1>1. ASSUME NEW after \in Authored, Execute(after) PROVE CursorsGrow
  <2> DEFINE adjusted == Adjusted(after)
             commit   == CommitState(document, revision, revision, adjusted)
  <2>1. \/ UNCHANGED <<idCursor, localCursor>>
        \/ /\ ~SameState(adjusted, document) /\ commit.code = "none"
           /\ document' = commit.state
           /\ idCursor' = PreserveCounted(idCursor, adjusted)
           /\ localCursor' = AbsorbLocal(localCursor, adjusted)
    BY <1>1 DEF Execute, CommitCommandState, Returned
  <2>2. adjusted \in Authored /\ document \in Authored /\ revision \in Revisions
    BY AdjustedFacts DEF Inv, TypeOK
  <2>3. commit.code = "none" /\ ~SameState(adjusted, document)
            => commit.changed /\ commit.state = adjusted
    <3> HIDE DEF adjusted
    <3> QED
      BY <2>2, CommitFacts
  <2> QED
    BY <2>1, <2>3, UnchangedCursorsGrow, AdjustedCommitGrows
<1>2. ASSUME NEW op, NEW e, NEW t \in Authored, NEW p,
             ApplyHistoricalState(op, e, t, p)
      PROVE  CursorsGrow
  <2> DEFINE commit == CommitState(document, revision, revision, Adjusted(t))
  <2>1. \/ UNCHANGED <<idCursor, localCursor>>
        \/ /\ commit.changed
           /\ document' = commit.state
           /\ idCursor' = PreserveCounted(idCursor, commit.state)
           /\ localCursor' = AbsorbLocal(localCursor, commit.state)
    BY <1>2 DEF ApplyHistoricalState, Returned
  <2> QED
    BY <2>1, UnchangedCursorsGrow, AdjustedCommitGrows
<1>3. CASE Undo
  <2>1. CASE CanUndo
    BY <1>2, <1>3, <2>1, AtCursor DEF Undo
  <2>2. CASE ~CanUndo
    BY <1>3, <2>2, UnchangedCursorsGrow DEF Undo, Returned
  <2> QED
    BY <2>1, <2>2
<1>4. CASE Redo
  <2>1. CASE CanRedo
    BY <1>2, <1>4, <2>1, AtCursor DEF Redo
  <2>2. CASE ~CanRedo
    BY <1>4, <2>2, UnchangedCursorsGrow DEF Redo, Returned
  <2> QED
    BY <2>1, <2>2
<1>5. CASE Save
  BY <1>5, UnchangedCursorsGrow DEF Save, SaveRefused, SaveSucceeds, Returned
<1>6. CASE UNCHANGED vars
  BY <1>6, UnchangedCursorsGrow DEF vars
<1> QED
  BY <1>1, <1>3, <1>4, <1>5, <1>6 DEF Next

LEMMA GrowthCovers ==
    ASSUME Inv, Inv', CursorsGrow
    PROVE  /\ \A k \in Counted : document'.next[k] >= document.next[k]
           /\ \A k \in LocalKinds,
                 h \in Hosted(document.content) \cap Hosted(document'.content) :
                  document'.local[k][h] >= document.local[k][h]
<1>1. CursorsAgree /\ CursorsAgree' /\ document \in Authored
  BY DEF Inv, HistoryConsistent, TypeOK
<1>2. Hosted(document.content) \subseteq Sketches
  BY <1>1 DEF Authored
<1> QED
  BY <1>1, <1>2 DEF CursorsAgree, CursorsGrow

\* No command, Undo, Redo or Save moves an allocation cursor of the live
\* document back, for any number of commands and branches of history.
THEOREM SessionIdsNeverReissued == Spec => IdsNeverReissued
<1>1. Inv /\ Inv' /\ [Next]_vars =>
          [/\ \A k \in Counted : document'.next[k] >= document.next[k]
           /\ \A k \in LocalKinds,
                 h \in Hosted(document.content) \cap Hosted(document'.content) :
                  document'.local[k][h] >= document.local[k][h]]_vars
  BY StepGrows, GrowthCovers
<1> QED
  BY <1>1, InvAlways, PTL DEF Spec, IdsNeverReissued

-----------------------------------------------------------------------------
(* The session implements the timeline of UndoRedo *)

TimelineShape ==
    /\ Timeline \in Seq(Contents)
    /\ Len(Timeline) = Len(history) + 1
    /\ history # <<>> => Timeline[1] = history[1].before.content
    /\ \A i \in 1..Len(history) : Timeline[i + 1] = history[i].after.content
    /\ Timeline[cursor + 1] = document.content

LEMMA TimelineFacts == Inv => TimelineShape
<1> SUFFICES ASSUME Inv PROVE TimelineShape
  OBVIOUS
<1>1. /\ TypeOK /\ HistoryChained /\ DocumentAtCursor
      /\ cursor \in 0..Len(history) /\ Len(history) \in Nat
      /\ document.content \in Contents
  BY DEF Inv, HistoryConsistent, TypeOK, Authored
<1>2. \A i \in 1..Len(history) : /\ history[i].before.content \in Contents
                                 /\ history[i].after.content \in Contents
  BY <1>1, EntryFacts DEF Authored
<1>3. CASE history = <<>>
  <2>1. Timeline = <<document.content>> /\ Len(history) = 0 /\ cursor = 0
    BY <1>1, <1>3 DEF Timeline
  <2> QED
    BY <1>1, <1>3, <2>1 DEF TimelineShape
<1>4. CASE history # <<>>
  <2> DEFINE C(i) == IF i = 1 THEN history[1].before.content
                     ELSE history[i - 1].after.content
  <2>1. Timeline = [i \in 1..(Len(history) + 1) |-> C(i)]
    BY <1>4 DEF Timeline
  <2>2. Len(history) > 0
    BY <1>1, <1>4 DEF TypeOK
  <2>3. \A i \in 1..(Len(history) + 1) : C(i) \in Contents
    <3> TAKE i \in 1..(Len(history) + 1)
    <3>1. CASE i = 1
      BY <1>1, <1>2, <2>2, <3>1
    <3>2. CASE i # 1
      <4>1. i - 1 \in 1..Len(history)
        BY <1>1, <3>2
      <4> QED
        BY <1>2, <3>2, <4>1
    <3> QED
      BY <3>1, <3>2
  <2>4. /\ C(1) = history[1].before.content
        /\ \A i \in 1..Len(history) : C(i + 1) = history[i].after.content
    BY <1>1
  <2>5. C(cursor + 1) = document.content
    <3>1. CASE cursor = 0
      BY <1>1, <2>2, <3>1 DEF DocumentAtCursor
    <3>2. CASE cursor > 0
      BY <1>1, <2>4, <3>2 DEF DocumentAtCursor
    <3> QED
      BY <1>1, <3>1, <3>2
  <2> HIDE DEF C
  <2>6. Timeline \in Seq(Contents) /\ Len(Timeline) = Len(history) + 1
    BY <1>1, <2>1, <2>3
  <2>7. \A i \in 1..(Len(history) + 1) : Timeline[i] = C(i)
    BY <2>1
  <2>8. /\ 1 \in 1..(Len(history) + 1)
        /\ cursor + 1 \in 1..(Len(history) + 1)
        /\ \A i \in 1..Len(history) : i + 1 \in 1..(Len(history) + 1)
    BY <1>1
  <2> QED
    BY <2>4, <2>5, <2>6, <2>7, <2>8 DEF TimelineShape
<1> QED
  BY <1>3, <1>4

LEMMA StutterRefines ==
    ASSUME UNCHANGED <<history, cursor>>,
           history = <<>> => document'.content = document.content
    PROVE  UNCHANGED <<Timeline, cursor + 1>>
BY DEF Timeline

\* A changing command appends its content to the timeline up to the cursor.
LEMMA ExecuteRefines ==
    ASSUME Inv, Inv', NEW after \in Authored, Execute(after)
    PROVE  Abstract!Edit \/ UNCHANGED <<Timeline, cursor + 1>>
<1> DEFINE adjusted == Adjusted(after)
           commit   == CommitState(document, revision, revision, adjusted)
           entry    == [before |-> document, after |-> adjusted]
<1>1. CASE UNCHANGED <<document, history, cursor>>
  BY <1>1, StutterRefines
<1>2. CASE /\ ~SameState(adjusted, document) /\ commit.code = "none"
           /\ document' = commit.state
           /\ history' = Committed(entry)
           /\ cursor' = Len(history')
  <2>1. /\ adjusted \in Authored /\ document \in Authored
        /\ revision \in Revisions /\ TypeOK
    BY AdjustedFacts DEF Inv, TypeOK
  <2>2. commit.changed /\ commit.state = adjusted
    <3> HIDE DEF adjusted
    <3> QED
      BY <1>2, <2>1, CommitFacts
  <2>3. entry \in [before : Authored, after : Authored]
    BY <2>1
  <2> HIDE DEF entry
  <2>4. /\ Len(history') = cursor + 1
        /\ \A i \in 1..cursor : history'[i] = history[i]
        /\ history'[cursor + 1] = entry
    BY <1>2, <2>1, <2>3, CommittedFacts
  <2>5. cursor \in 0..Len(history) /\ Len(history) \in Nat
    BY <2>1 DEF TypeOK
  <2> DEFINE c == adjusted.content
             T == Timeline
             U == Timeline'
  <2>6. c \in Contents /\ document'.content = c /\ entry.after.content = c
    BY <1>2, <2>1, <2>2 DEF Authored, entry
  <2>7. /\ T \in Seq(Contents) /\ Len(T) = Len(history) + 1
        /\ history # <<>> => T[1] = history[1].before.content
        /\ \A i \in 1..Len(history) : T[i + 1] = history[i].after.content
        /\ T[cursor + 1] = document.content
    BY TimelineFacts DEF TimelineShape
  <2>8. /\ U \in Seq(Contents) /\ Len(U) = cursor + 2
        /\ U[1] = history'[1].before.content
        /\ \A i \in 1..(cursor + 1) : U[i + 1] = history'[i].after.content
    <3>1. TimelineShape'
      BY TimelineFacts, PTL
    <3>2. history' # <<>>
      BY <2>4, <2>5
    <3> QED
      BY <2>4, <2>5, <3>1, <3>2 DEF TimelineShape
  <2>9. c # T[cursor + 1]
    <3>1. history'[cursor + 1].before.content # history'[cursor + 1].after.content
      BY <2>4, <2>5 DEF Inv, HistoryConsistent, HistoryChained
    <3> QED
      BY <2>4, <2>6, <2>7, <3>1 DEF entry
  <2> HIDE DEF c, T, U
  <2>10. /\ SubSeq(T, 1, cursor + 1) \in Seq(Contents)
         /\ Len(SubSeq(T, 1, cursor + 1)) = cursor + 1
         /\ \A i \in 1..(cursor + 1) : SubSeq(T, 1, cursor + 1)[i] = T[i]
    <3>1. \A i \in 1..(cursor + 1) : T[i] \in Contents
      BY <2>5, <2>7
    <3>2. /\ SubSeq(T, 1, cursor + 1) \in Seq(Contents)
          /\ Len(SubSeq(T, 1, cursor + 1))
                 = IF 1 <= cursor + 1 THEN (cursor + 1) - 1 + 1 ELSE 0
          /\ \A i \in 1..((cursor + 1) - 1 + 1) :
                 SubSeq(T, 1, cursor + 1)[i] = T[1 + i - 1]
      BY <2>5, <3>1, SubSeqProperties
    <3> QED
      BY <2>5, <3>2
  <2>11. \A i \in 1..(cursor + 1) : U[i] = T[i]
    <3> TAKE i \in 1..(cursor + 1)
    <3>1. CASE i = 1
      <4>1. CASE cursor = 0
        BY <2>4, <2>7, <2>8, <3>1, <4>1 DEF entry
      <4>2. CASE cursor > 0
        BY <2>4, <2>5, <2>7, <2>8, <3>1, <4>2
      <4> QED
        BY <2>5, <4>1, <4>2
    <3>2. CASE i # 1
      <4>1. i - 1 \in 1..cursor /\ (i - 1) + 1 = i
        BY <2>5, <3>2
      <4>2. U[(i - 1) + 1] = history'[i - 1].after.content
        BY <2>5, <2>8, <4>1
      <4>3. T[(i - 1) + 1] = history[i - 1].after.content
        BY <2>5, <2>7, <4>1
      <4> QED
        BY <2>4, <4>1, <4>2, <4>3
    <3> QED
      BY <3>1, <3>2
  <2>12. U[cursor + 2] = c
    BY <2>4, <2>5, <2>6, <2>8
  <2>13. U = Append(SubSeq(T, 1, cursor + 1), c)
    <3> DEFINE V == Append(SubSeq(T, 1, cursor + 1), c)
    <3>1. /\ V \in Seq(Contents) /\ Len(V) = cursor + 2
          /\ \A i \in 1..(cursor + 1) : V[i] = SubSeq(T, 1, cursor + 1)[i]
          /\ V[cursor + 2] = c
      BY <2>5, <2>6, <2>10 DEF c
    <3> HIDE DEF V
    <3>2. \A i \in 1..(cursor + 2) : U[i] = V[i]
      BY <2>5, <2>10, <2>11, <2>12, <3>1
    <3>3. U = V
      BY <2>5, <2>8, <3>1, <3>2, SeqEqual
    <3> QED
      BY <3>3 DEF V
  <2>14. cursor' + 1 = (cursor + 1) + 1
    BY <1>2, <2>4, <2>5
  <2> QED
    BY <2>6, <2>9, <2>13, <2>14 DEF Abstract!Edit, Abstract!Current, T, U
<1> QED
  BY <1>1, <1>2 DEF Execute, CommitCommandState, Returned

\* Undo and Redo leave the timeline alone and move along it.
LEMMA HistoricalRefines ==
    ASSUME Inv, Inv', NEW op, NEW e, NEW t, NEW p,
           history # <<>>, ApplyHistoricalState(op, e, t, p)
    PROVE  /\ Timeline' = Timeline
           /\ cursor' = p \/ cursor' = cursor
<1>1. history' = history /\ (cursor' = p \/ cursor' = cursor)
  BY DEF ApplyHistoricalState, Returned
<1> QED
  BY <1>1 DEF Timeline

LEMMA StepRefines ==
    Inv /\ Inv' /\ [Next]_vars =>
        [Abstract!Next]_(Abstract!timelineVars)
<1> SUFFICES ASSUME Inv, Inv', [Next]_vars
             PROVE  Abstract!Next \/ UNCHANGED <<Timeline, cursor + 1>>
  BY DEF Abstract!timelineVars
<1>1. ASSUME NEW after \in Authored, Execute(after)
      PROVE  Abstract!Next \/ UNCHANGED <<Timeline, cursor + 1>>
  BY <1>1, ExecuteRefines DEF Abstract!Next
<1>2. CASE Undo
  <2>1. CASE CanUndo
    <3>1. cursor \in 0..Len(history) /\ cursor > 0 /\ history # <<>>
      BY <2>1 DEF Inv, TypeOK, CanUndo
    <3>2. /\ Timeline' = Timeline
          /\ cursor' = cursor - 1 \/ cursor' = cursor
      BY <1>2, <2>1, <3>1, HistoricalRefines DEF Undo
    <3>3. cursor + 1 > 1
      BY <3>1
    <3>4. cursor' = cursor - 1 => cursor' + 1 = (cursor + 1) - 1
      BY <3>1
    <3> QED
      BY <3>2, <3>3, <3>4 DEF Abstract!Next, Abstract!Undo
  <2>2. CASE ~CanUndo
    BY <1>2, <2>2, StutterRefines DEF Undo, Returned
  <2> QED
    BY <2>1, <2>2
<1>3. CASE Redo
  <2>1. CASE CanRedo
    <3>1. cursor \in 0..Len(history) /\ cursor < Len(history) /\ history # <<>>
      BY <2>1 DEF Inv, TypeOK, CanRedo
    <3>2. /\ Timeline' = Timeline
          /\ cursor' = cursor + 1 \/ cursor' = cursor
      BY <1>3, <2>1, <3>1, HistoricalRefines DEF Redo
    <3>3. Len(Timeline) = Len(history) + 1
      BY TimelineFacts DEF TimelineShape
    <3>4. cursor + 1 < Len(Timeline)
      BY <3>1, <3>3
    <3> QED
      BY <3>2, <3>4 DEF Abstract!Next, Abstract!Redo
  <2>2. CASE ~CanRedo
    BY <1>3, <2>2, StutterRefines DEF Redo, Returned
  <2> QED
    BY <2>1, <2>2
<1>4. CASE Save
  BY <1>4, StutterRefines DEF Save, SaveRefused, SaveSucceeds, Returned
<1>5. CASE UNCHANGED vars
  BY <1>5, StutterRefines DEF vars
<1> QED
  BY <1>1, <1>2, <1>3, <1>4, <1>5 DEF Next

\* What Undo and Redo restore is exactly what the document contained, in
\* order, and only a command that changed the content forgets Redo entries.
THEOREM SessionImplementsUndoRedo == Spec => ImplementsUndoRedo
<1>1. Init => Abstract!Init
  BY DEF Init, Abstract!Init, Timeline, Authored
<1> QED
  BY <1>1, InvAlways, StepRefines, PTL
     DEF Spec, ImplementsUndoRedo, Abstract!Spec

-----------------------------------------------------------------------------
(***************************************************************************)
(* Proofs about ProviderCalls, for any nesting of commands and provider    *)
(* calls, any number of objects, identifiers and revisions.                *)
(*                                                                         *)
(* The argument rests on Inv of the first part.  What a command            *)
(* staged before its provider called back may be of any age when it is     *)
(* committed; the history survives because the one identifier it allocated *)
(* lies below the session's cursors as soon as anybody has committed it.   *)
(* That no nested command is lost needs what is true of a call whose       *)
(* revision is still the present one: nothing was committed since.         *)
(***************************************************************************)

\* The record of a command inside a provider call.
CallRecord == [kind : Kinds, base : Revisions, object : Objects, staged : Authored]

\* Every object that was ever committed was numbered below the cursor.
MadeBelow ==
    /\ made \subseteq Objects
    /\ \A o \in made : o.id < idCursor[Kind]

\* Nothing the session can come back to is unknown to made.
HistoryMade ==
    /\ document.content \subseteq made
    /\ \A i \in 1..Len(history) : /\ history[i].before.content \subseteq made
                                  /\ history[i].after.content \subseteq made

\* What a creating command staged: the document of then, with its object.
StagedWell(c) ==
    c.kind # "evidence" =>
        /\ c.object \in c.staged.content
        /\ c.staged.content \ {c.object} \subseteq made
        /\ c.staged.next[Kind] = c.object.id + 1
        /\ \A k \in Counted \ {Kind} : c.staged.next[k] <= idCursor[k]

\* While no command was committed, the document of then is that of now.
StagedHere(c) ==
    c.kind # "evidence" /\ c.base = revision =>
        /\ c.staged.content = document.content \cup {c.object}
        /\ c.object.id = idCursor[Kind]

CallWell(c) == c.base <= revision /\ StagedWell(c) /\ StagedHere(c)

CallsWell ==
    /\ calls \in Seq(CallRecord)
    /\ \A i \in 1..Len(calls) : CallWell(calls[i])

CallsInv == Inv /\ MadeBelow /\ HistoryMade /\ CallsWell

USE ProviderAssumption DEF Kinds, Ids, Revisions

-----------------------------------------------------------------------------
(* What a commit does to the session *)

\* A commit leaves the session alone, or replaces the live state by the
\* adjusted one, at the next revision, after a new history entry.
LEMMA CommitOutcome ==
    ASSUME TypeOK, NEW after \in Authored, CommitCommandState(after)
    PROVE  \/ UNCHANGED <<document, revision, expected, history, cursor, saved,
                          idCursor, localCursor, hasCheckpoint>>
           \/ /\ document' = Adjusted(after)
              /\ ~SameState(Adjusted(after), document)
              /\ CommitState(document, revision, revision, Adjusted(after)).changed
              /\ revision' = revision + 1
              /\ history' = Committed([before |-> document,
                                       after  |-> Adjusted(after)])
              /\ cursor' = Len(history')
              /\ idCursor' = PreserveCounted(idCursor, Adjusted(after))
              /\ localCursor' = AbsorbLocal(localCursor, Adjusted(after))
<1> DEFINE adjusted == Adjusted(after)
           commit   == CommitState(document, revision, revision, adjusted)
<1>1. adjusted \in Authored /\ document \in Authored /\ revision \in Revisions
  BY AdjustedFacts DEF TypeOK
<1>2. commit.code = "none" /\ ~SameState(adjusted, document)
          => /\ commit.changed /\ commit.state = adjusted
             /\ commit.revision = revision + 1
  <2> HIDE DEF adjusted
  <2> QED
    BY <1>1, CommitFacts
<1> QED
  BY <1>2 DEF CommitCommandState, Returned

LEMMA CommitGrows ==
    ASSUME Inv, NEW after \in Authored, CommitCommandState(after)
    PROVE  /\ CursorsGrow
           /\ \/ UNCHANGED <<document, revision, idCursor>>
              \/ revision' = revision + 1
<1>1. TypeOK
  BY DEF Inv
<1>2. CASE UNCHANGED <<document, revision, expected, history, cursor, saved,
                       idCursor, localCursor, hasCheckpoint>>
  BY <1>2, UnchangedCursorsGrow
<1>3. CASE /\ document' = Adjusted(after)
           /\ CommitState(document, revision, revision, Adjusted(after)).changed
           /\ revision' = revision + 1
           /\ idCursor' = PreserveCounted(idCursor, Adjusted(after))
           /\ localCursor' = AbsorbLocal(localCursor, Adjusted(after))
  <2>1. /\ Adjusted(after) \in Authored /\ document \in Authored
        /\ revision \in Revisions
    BY <1>1, AdjustedFacts DEF TypeOK
  <2>2. CommitState(document, revision, revision, Adjusted(after)).state
            = Adjusted(after)
    BY <1>3, <2>1, CommitFacts
  <2> QED
    BY <1>3, <2>2, AdjustedCommitGrows
<1> QED
  BY <1>1, <1>2, <1>3, CommitOutcome

\* A commit of a state whose objects are numbered below its own cursor or the
\* session's keeps every object ever made below the session's cursor.
LEMMA CommitMade ==
    ASSUME CallsInv, Inv', NEW after \in Authored, CommitCommandState(after),
           Record,
           \A o \in after.content :
               o.id < after.next[Kind] \/ o.id < idCursor[Kind]
    PROVE  MadeBelow' /\ HistoryMade' /\ made \subseteq made'
<1>1. TypeOK /\ TypeOK' /\ MadeBelow /\ HistoryMade
  BY DEF CallsInv, Inv
<1>2. made' = made \cup document'.content
  BY DEF Record
<1>3. CASE UNCHANGED <<document, revision, expected, history, cursor, saved,
                       idCursor, localCursor, hasCheckpoint>>
  <2>1. made' = made
    BY <1>1, <1>2, <1>3 DEF HistoryMade
  <2> QED
    BY <1>1, <1>3, <2>1 DEF MadeBelow, HistoryMade
<1>4. CASE /\ document' = Adjusted(after)
           /\ history' = Committed([before |-> document, after |-> Adjusted(after)])
           /\ cursor' = Len(history')
           /\ idCursor' = PreserveCounted(idCursor, Adjusted(after))
  <2> DEFINE entry == [before |-> document, after |-> Adjusted(after)]
  <2>1. /\ Adjusted(after) \in Authored
        /\ Adjusted(after).content = after.content
        /\ Adjusted(after).next[Kind] = Larger(after.next[Kind], idCursor[Kind])
    BY <1>1, AdjustedFacts
  <2>2. after.content \subseteq Objects
    BY DEF Authored
  <2>3. /\ idCursor'[Kind] = Larger(idCursor[Kind], Adjusted(after).next[Kind])
        /\ after.next[Kind] \in Nat /\ idCursor[Kind] \in Nat
    BY <1>1, <1>4 DEF PreserveCounted, TypeOK, Authored
  <2>4. /\ idCursor'[Kind] >= idCursor[Kind]
        /\ idCursor'[Kind] >= after.next[Kind]
    BY <2>1, <2>3 DEF Larger
  <2>5. /\ idCursor'[Kind] \in Nat
        /\ \A o \in Objects : o.id \in Nat
    BY <1>1 DEF Objects, TypeOK
  <2>6. \A o \in made' : o \in Objects /\ o.id < idCursor'[Kind]
    <3>1. \A o \in made : o \in Objects /\ o.id < idCursor'[Kind]
      BY <1>1, <2>3, <2>4, <2>5 DEF MadeBelow
    <3>2. \A o \in after.content : o \in Objects /\ o.id < idCursor'[Kind]
      BY <2>2, <2>3, <2>4, <2>5
    <3> QED
      BY <1>2, <1>4, <2>1, <3>1, <3>2
  <2>7. MadeBelow'
    BY <2>6 DEF MadeBelow
  <2>8. entry \in [before : Authored, after : Authored]
    BY <1>1, <2>1 DEF TypeOK
  <2>9. /\ Len(history') = cursor + 1
        /\ \A i \in 1..cursor : history'[i] = history[i]
        /\ history'[cursor + 1].before = document
        /\ history'[cursor + 1].after = Adjusted(after)
    <3>1. history' = Committed(entry) /\ entry.before = document
          /\ entry.after = Adjusted(after)
      BY <1>4
    <3> HIDE DEF entry
    <3> QED
      BY <1>1, <2>8, <3>1, CommittedFacts
  <2>10. cursor \in Nat /\ cursor <= Len(history) /\ Len(history) \in Nat
    BY <1>1 DEF TypeOK
  <2>11. HistoryMade'
    <3>1. document'.content \subseteq made' /\ document.content \subseteq made'
      BY <1>1, <1>2 DEF HistoryMade
    <3>2. ASSUME NEW i \in 1..Len(history')
          PROVE  /\ history'[i].before.content \subseteq made'
                 /\ history'[i].after.content \subseteq made'
      <4>1. CASE i = cursor + 1
        BY <1>4, <2>9, <3>1, <4>1
      <4>2. CASE i \in 1..cursor
        <5>1. i \in 1..Len(history)
          BY <2>10, <4>2
        <5> QED
          BY <1>1, <1>2, <2>9, <4>2, <5>1 DEF HistoryMade
      <4> QED
        BY <2>9, <2>10, <4>1, <4>2
    <3> QED
      BY <3>1, <3>2 DEF HistoryMade
  <2> QED
    BY <1>2, <2>7, <2>11
<1> QED
  BY <1>1, <1>3, <1>4, CommitOutcome

-----------------------------------------------------------------------------
(* The calls that are under way *)

\* What a step of the session or of a nested command may do to a call that
\* waits: revisions and cursors only grow, and nothing changes without a new
\* revision.
Outlives ==
    /\ CursorsGrow
    /\ made \subseteq made'
    /\ \/ UNCHANGED <<document, revision, idCursor>>
       \/ revision' = revision + 1

LEMMA CallKept ==
    ASSUME TypeOK, TypeOK', Outlives, NEW c \in CallRecord, CallWell(c)
    PROVE  CallWell(c)'
<1>1. /\ c.base \in Nat /\ revision \in Nat /\ revision' \in Nat
      /\ c.base <= revision
  BY DEF TypeOK, CallRecord, CallWell
<1>2. c.base <= revision'
  BY <1>1 DEF Outlives
<1>3. \A k \in Counted : /\ c.staged.next[k] \in Nat /\ idCursor[k] \in Nat
                         /\ idCursor'[k] \in Nat /\ idCursor'[k] >= idCursor[k]
  <2>1. /\ c.staged.next \in [Counted -> Ids] /\ idCursor \in [Counted -> Ids]
        /\ idCursor' \in [Counted -> Ids]
    BY DEF TypeOK, CallRecord, Authored
  <2>2. \A k \in Counted : idCursor'[k] >= idCursor[k]
    BY DEF Outlives, CursorsGrow
  <2> QED
    BY <2>1, <2>2
<1>4. StagedWell(c)'
  BY <1>3 DEF CallWell, StagedWell, Outlives
<1>5. StagedHere(c)'
  <2>1. CASE UNCHANGED <<document, revision, idCursor>>
    BY <2>1 DEF CallWell, StagedHere
  <2>2. CASE revision' = revision + 1
    BY <1>1, <2>2 DEF StagedHere
  <2> QED
    BY <2>1, <2>2 DEF Outlives
<1> QED
  BY <1>2, <1>4, <1>5 DEF CallWell

\* The innermost call, and the calls around it.
LEMMA InnermostFacts ==
    ASSUME CallsWell, calls # <<>>
    PROVE  /\ Innermost \in CallRecord /\ CallWell(Innermost)
           /\ Front(calls) \in Seq(CallRecord)
           /\ \A i \in 1..Len(Front(calls)) :
                  i \in 1..Len(calls) /\ Front(calls)[i] = calls[i]
           /\ Len(Front(calls)) < Len(calls)
<1>1. calls \in Seq(CallRecord) /\ Len(calls) \in Nat /\ Len(calls) # 0
  BY EmptySeq DEF CallsWell
<1>2. Len(calls) \in 1..Len(calls)
  BY <1>1
<1>3. Innermost \in CallRecord /\ CallWell(Innermost)
  BY <1>1, <1>2, ElementOfSeq DEF Innermost, CallsWell
<1>4. Front(calls) = SubSeq(calls, 1, Len(calls) - 1)
  BY DEF Front
<1>5. \A i \in 1..(Len(calls) - 1) : calls[i] \in CallRecord
  BY <1>1, ElementOfSeq
<1>6. /\ Front(calls) \in Seq(CallRecord)
      /\ Len(Front(calls)) = Len(calls) - 1
      /\ \A i \in 1..(Len(calls) - 1) : Front(calls)[i] = calls[i]
  <2> DEFINE n == Len(calls) - 1
  <2>1. n \in Nat /\ n \in Int /\ 1 \in Int
    BY <1>1
  <2>2. \A i \in 1..n : calls[i] \in CallRecord
    BY <1>5
  <2> HIDE DEF CallRecord, n
  <2>3. /\ SubSeq(calls, 1, n) \in Seq(CallRecord)
        /\ Len(SubSeq(calls, 1, n)) = IF 1 <= n THEN n - 1 + 1 ELSE 0
        /\ \A i \in 1..(n - 1 + 1) : SubSeq(calls, 1, n)[i] = calls[1 + i - 1]
    BY <2>1, <2>2, SubSeqProperties
  <2>4. /\ SubSeq(calls, 1, n) \in Seq(CallRecord)
        /\ Len(SubSeq(calls, 1, n)) = n
        /\ \A i \in 1..n : SubSeq(calls, 1, n)[i] = calls[i]
    BY <2>1, <2>3
  <2> QED
    BY <1>4, <2>4 DEF n
<1> QED
  BY <1>1, <1>3, <1>6

LEMMA CallsKept ==
    ASSUME CallsInv, TypeOK', Outlives,
           \/ calls' = calls
           \/ calls # <<>> /\ calls' = Front(calls)
    PROVE  CallsWell'
<1>1. TypeOK /\ CallsWell
  BY DEF CallsInv, Inv
<1>2. CASE calls' = calls
  BY <1>1, <1>2, CallKept, ElementOfSeq DEF CallsWell
<1>3. CASE calls # <<>> /\ calls' = Front(calls)
  <2>1. /\ calls' \in Seq(CallRecord)
        /\ \A i \in 1..Len(calls') : i \in 1..Len(calls) /\ calls'[i] = calls[i]
    BY <1>1, <1>3, InnermostFacts
  <2>2. \A i \in 1..Len(calls') : calls'[i] \in CallRecord /\ CallWell(calls'[i])
    BY <1>1, <2>1, ElementOfSeq DEF CallsWell
  <2> QED
    BY <1>1, <2>1, <2>2, CallKept DEF CallsWell
<1> QED
  BY <1>2, <1>3

-----------------------------------------------------------------------------
(* Staging *)

\* With the live cursors the session's own, a copy is the document.
LEMMA CopyFacts ==
    ASSUME Inv
    PROVE  /\ Copy \in Authored
           /\ Copy.content = document.content
           /\ Copy.next = idCursor
<1>1. document \in Authored /\ idCursor \in [Counted -> Ids] /\ idCursor = document.next
  BY DEF Inv, TypeOK, HistoryConsistent, CursorsAgree
<1>2. /\ Copy \in Authored /\ Copy.content = document.content
      /\ \A k \in Counted : Copy.next[k] = Larger(document.next[k], idCursor[k])
  BY <1>1, ApplyCountedFacts DEF Copy
<1>3. Copy.next \in [Counted -> Ids]
  BY <1>2 DEF Authored
<1>4. \A k \in Counted : Copy.next[k] = idCursor[k]
  BY <1>1, <1>2 DEF Larger
<1> QED
  BY <1>1, <1>2, <1>3, <1>4

\* The contents are the sets of objects with distinct identifiers.
LEMMA ContentFacts ==
    ASSUME NEW c \in Contents
    PROVE  /\ c \subseteq Objects
           /\ \A o \in Objects : (\A p \in c : p.id # o.id)
                  => c \cup {o} \in Contents
           /\ \A o \in Objects :
                  /\ {p \in c : p.id # o.id} \cup {o} \in Contents
                  /\ c \ {o} \in Contents
<1>1. c \subseteq Objects /\ \A a, b \in c : a.id = b.id => a = b
  OBVIOUS
<1>2. ASSUME NEW o \in Objects, \A p \in c : p.id # o.id
      PROVE  c \cup {o} \in Contents
  <2>1. c \cup {o} \subseteq Objects
    BY <1>1
  <2>2. \A a, b \in c \cup {o} : a.id = b.id => a = b
    BY <1>1, <1>2
  <2> QED
    BY <2>1, <2>2
<1>3. ASSUME NEW o \in Objects
      PROVE  /\ {p \in c : p.id # o.id} \cup {o} \in Contents
             /\ c \ {o} \in Contents
  <2> DEFINE r == {p \in c : p.id # o.id} \cup {o}
  <2>1. r \subseteq Objects /\ \A a, b \in r : a.id = b.id => a = b
    BY <1>1
  <2>2. c \ {o} \subseteq Objects /\ \A a, b \in c \ {o} : a.id = b.id => a = b
    BY <1>1
  <2> HIDE DEF r
  <2>3. r \in Contents /\ c \ {o} \in Contents
    BY <2>1, <2>2
  <2> QED
    BY <2>3 DEF r
<1> QED
  BY <1>1, <1>2, <1>3

LEMMA StagedWithFacts ==
    ASSUME Inv, MadeBelow, HistoryMade, ~Exhausted, NEW maker \in Makers
    PROVE  LET object == [id |-> Copy.next[Kind], maker |-> maker]
               staged == StagedWith(object)
           IN  /\ object \in Objects
               /\ staged \in Authored
               /\ staged.content = document.content \cup {object}
               /\ staged.next[Kind] = object.id + 1
               /\ \A k \in Counted \ {Kind} : staged.next[k] = idCursor[k]
               /\ object.id = idCursor[Kind]
<1> DEFINE object == [id |-> Copy.next[Kind], maker |-> maker]
           staged == StagedWith(object)
           next   == [Copy.next EXCEPT ![Kind] = object.id + 1]
<1>1. /\ Copy \in Authored /\ Copy.content = document.content
      /\ Copy.next = idCursor /\ idCursor \in [Counted -> Ids]
  BY CopyFacts DEF Inv, TypeOK
<1>2. object \in Objects /\ object.id = idCursor[Kind]
  BY <1>1 DEF Objects
<1>3. \A p \in document.content : p.id # object.id
  <2>1. \A p \in document.content : p.id < idCursor[Kind] /\ p.id \in Nat
    BY DEF MadeBelow, HistoryMade, Objects
  <2> QED
    BY <1>2, <2>1
<1>4. document.content \cup {object} \in Contents
  <2>1. document.content \in Contents
    BY DEF Inv, TypeOK, Authored
  <2> HIDE DEF object
  <2> QED
    BY <1>2, <1>3, <2>1, ContentFacts
<1>5. /\ next \in [Counted -> Ids] /\ next[Kind] = object.id + 1
      /\ \A k \in Counted \ {Kind} : next[k] = idCursor[k]
  <2>1. idCursor[Kind] \in Ids /\ idCursor[Kind] # MaxId
    BY <1>1 DEF Exhausted
  <2> HIDE DEF object
  <2>2. object.id + 1 \in Ids
    <3>1. \A n \in Ids : n # MaxId => n + 1 \in Ids
      BY BoundsAssumption
    <3>2. object.id \in Ids /\ object.id # MaxId
      BY <1>2, <2>1
    <3> QED
      BY <3>1, <3>2
  <2> QED
    BY <1>1, <2>2
<1>6. staged = [Copy EXCEPT !.content = document.content \cup {object},
                            !.next = next]
  BY <1>1 DEF StagedWith, Authored
<1> HIDE DEF next, object
<1>7. /\ staged \in Authored /\ staged.next = next
      /\ staged.content = document.content \cup {object}
  BY <1>1, <1>4, <1>5, <1>6 DEF Authored
<1> QED
  BY <1>2, <1>5, <1>7 DEF object

\* Deleting and redefining keep the cursors of the live state.
LEMMA EditedFacts ==
    ASSUME Inv, NEW object \in Objects
    PROVE  /\ StagedWithout(object) \in Authored
           /\ StagedWithout(object).content = document.content \ {object}
           /\ StagedWithout(object).next = idCursor
           /\ Redefined(object) \in Authored
           /\ Redefined(object).content =
                  {o \in document.content : o.id # object.id} \cup {object}
           /\ Redefined(object).next = idCursor
<1>1. document \in Authored /\ idCursor = document.next
  BY DEF Inv, TypeOK, HistoryConsistent, CursorsAgree
<1>2. /\ document.content \ {object} \in Contents
      /\ {o \in document.content : o.id # object.id} \cup {object} \in Contents
  BY <1>1, ContentFacts DEF Authored
<1> DEFINE without == document.content \ {object}
           redefined == {o \in document.content : o.id # object.id} \cup {object}
<1>3. /\ StagedWithout(object) = [document EXCEPT !.content = without]
      /\ Redefined(object) = [document EXCEPT !.content = redefined]
  BY DEF StagedWithout, Redefined
<1>4. without \in Contents /\ redefined \in Contents
  BY <1>2
<1> HIDE DEF without, redefined
<1>5. /\ StagedWithout(object) \in Authored /\ StagedWithout(object).content = without
      /\ StagedWithout(object).next = idCursor
  BY <1>1, <1>3, <1>4 DEF Authored
<1>6. /\ Redefined(object) \in Authored /\ Redefined(object).content = redefined
      /\ Redefined(object).next = idCursor
  BY <1>1, <1>3, <1>4 DEF Authored
<1> QED
  BY <1>5, <1>6 DEF without, redefined

-----------------------------------------------------------------------------
(* The invariant is kept by every step *)

\* Everything but the calls, after a commit.
PublishKeeps == Inv' /\ MadeBelow' /\ HistoryMade' /\ Outlives

LEMMA PublishInv ==
    ASSUME CallsInv, NEW after \in Authored, Publish(after),
           \A o \in after.content : o.id < after.next[Kind] \/ o.id < idCursor[Kind],
           after.content = document.content =>
               \A k \in Counted : after.next[k] <= idCursor[k]
    PROVE  PublishKeeps
<1>1. Inv /\ CommitCommandState(after) /\ Record
  BY DEF CallsInv, Publish
<1>2. Inv'
  BY <1>1, CommitInv
<1>3. MadeBelow' /\ HistoryMade' /\ made \subseteq made'
  BY <1>1, <1>2, CommitMade
<1> QED
  BY <1>1, <1>2, <1>3, CommitGrows DEF PublishKeeps, Outlives

LEMMA RejectedInv ==
    ASSUME CallsInv, NEW code, Rejected(code),
           code \in {"revision_diverged", "transaction_failure",
                     "invalid_command", "unchanged"}
    PROVE  PublishKeeps
<1>1. Inv /\ Returned("execute", code) /\ UNCHANGED made
  BY DEF CallsInv, Rejected
<1>2. Inv'
  BY <1>1, ReturnedInv
<1>3. UNCHANGED <<document, revision, idCursor, localCursor, history>>
  BY <1>1 DEF Returned
<1>4. CursorsGrow
  BY <1>1, <1>3, UnchangedCursorsGrow
<1>5. MadeBelow' /\ HistoryMade'
  BY <1>1, <1>3 DEF CallsInv, MadeBelow, HistoryMade
<1> QED
  BY <1>1, <1>2, <1>3, <1>4, <1>5 DEF PublishKeeps, Outlives

\* What a creating command staged may be committed at any later time.
LEMMA StagedInv ==
    ASSUME CallsInv, NEW c \in CallRecord, CallWell(c), c.kind # "evidence",
           Publish(c.staged)
    PROVE  PublishKeeps
<1> DEFINE staged == c.staged
<1>1. /\ c.object \in staged.content
      /\ staged.content \ {c.object} \subseteq made
      /\ staged.next[Kind] = c.object.id + 1
      /\ \A k \in Counted \ {Kind} : staged.next[k] <= idCursor[k]
  BY DEF CallWell, StagedWell
<1>2. staged \in Authored /\ c.object \in Objects /\ c.object.id \in Nat
  BY DEF CallRecord, Objects
<1>3. MadeBelow /\ HistoryMade /\ idCursor[Kind] \in Nat
  BY DEF CallsInv, Inv, TypeOK
<1>4. \A o \in staged.content : o.id < staged.next[Kind] \/ o.id < idCursor[Kind]
  <2>1. c.object.id < staged.next[Kind]
    BY <1>1, <1>2
  <2> QED
    BY <1>1, <1>3, <2>1 DEF MadeBelow
<1>5. staged.content = document.content =>
          \A k \in Counted : staged.next[k] <= idCursor[k]
  <2> SUFFICES ASSUME staged.content = document.content
               PROVE  \A k \in Counted : staged.next[k] <= idCursor[k]
    OBVIOUS
  <2>1. c.object.id < idCursor[Kind]
    BY <1>1, <1>3 DEF MadeBelow, HistoryMade
  <2>2. staged.next[Kind] <= idCursor[Kind]
    BY <1>1, <1>2, <1>3, <2>1
  <2> QED
    BY <1>1, <2>2
<1> QED
  BY <1>2, <1>4, <1>5, PublishInv

\* A command that stages from the present document may be committed.
LEMMA EditInv ==
    ASSUME CallsInv, NEW object \in Objects,
           \/ Publish(StagedWithout(object))
           \/ /\ \E o \in document.content : o.id = object.id
              /\ Publish(Redefined(object))
    PROVE  PublishKeeps
<1>1. Inv /\ \A o \in document.content : o.id < idCursor[Kind]
  BY DEF CallsInv, MadeBelow, HistoryMade
<1>2. \A k \in Counted : idCursor[k] <= idCursor[k]
  BY <1>1 DEF Inv, TypeOK
<1>3. CASE Publish(StagedWithout(object))
  BY <1>1, <1>2, <1>3, EditedFacts, PublishInv
<1>4. CASE /\ \E o \in document.content : o.id = object.id
           /\ Publish(Redefined(object))
  <2>1. \A o \in Redefined(object).content : o.id < idCursor[Kind]
    BY <1>1, <1>4, EditedFacts
  <2> QED
    BY <1>1, <1>2, <1>4, <2>1, EditedFacts, PublishInv
<1> QED
  BY <1>3, <1>4

LEMMA AnswerInv == CallsInv /\ Answer => PublishKeeps
<1> SUFFICES ASSUME CallsInv, Answer PROVE PublishKeeps
  OBVIOUS
<1>1. calls # <<>> /\ CallsWell
  BY DEF Answer, CallsInv
<1>2. Innermost \in CallRecord /\ CallWell(Innermost)
  BY <1>1, InnermostFacts
<1>3. CASE Innermost.kind = "guarded" /\ AnswerGuarded
  BY <1>2, <1>3, StagedInv, RejectedInv DEF AnswerGuarded
<1>4. CASE Innermost.kind = "candidate" /\ AnswerCandidate
  BY <1>2, <1>4, StagedInv DEF AnswerCandidate
<1>5. CASE Innermost.kind = "evidence" /\ AnswerEvidence
  <2>1. Innermost.object \in Objects
    BY <1>2 DEF CallRecord
  <2> QED
    BY <1>5, <2>1, EditInv, RejectedInv DEF AnswerEvidence
<1> QED
  BY <1>3, <1>4, <1>5 DEF Answer

\* A command that starts to wait for its provider changes nothing, and what
\* it takes along is right at the present revision.
LEMMA CallInv ==
    ASSUME CallsInv, NEW kind \in Kinds, NEW object \in Objects,
           NEW staged \in Authored, Call(kind, object, staged),
           kind # "evidence" =>
               /\ staged.content = document.content \cup {object}
               /\ object.id = idCursor[Kind]
               /\ staged.next[Kind] = object.id + 1
               /\ \A k \in Counted \ {Kind} : staged.next[k] = idCursor[k]
    PROVE  CallsInv'
<1> DEFINE c == [kind |-> kind, base |-> revision, object |-> object,
                 staged |-> staged]
<1>1. /\ UNCHANGED <<vars, made>> /\ calls' = Append(calls, c)
      /\ TypeOK /\ HistoryMade
  BY DEF Call, CallsInv, Inv
<1>2. Inv' /\ MadeBelow' /\ HistoryMade'
  BY <1>1, StutterInv DEF CallsInv, MadeBelow, HistoryMade, vars
<1>3. UNCHANGED <<document, revision, idCursor, localCursor, made>>
  BY <1>1 DEF vars
<1>4. Outlives
  BY <1>3, UnchangedCursorsGrow DEF CallsInv, Outlives
<1>5. c \in CallRecord /\ c.kind = kind /\ c.base = revision
      /\ c.object = object /\ c.staged = staged
  BY <1>1 DEF CallRecord, TypeOK
<1>6. \A k \in Counted : idCursor[k] \in Nat
  BY <1>1 DEF TypeOK
<1> HIDE DEF c
<1>7. CallWell(c)
  <2>1. c.base <= revision
    BY <1>1, <1>5 DEF TypeOK
  <2>2. StagedWell(c)
    BY <1>1, <1>5, <1>6 DEF StagedWell, HistoryMade
  <2>3. StagedHere(c)
    BY <1>5 DEF StagedHere
  <2> QED
    BY <2>1, <2>2, <2>3 DEF CallWell
<1>8. CallsWell'
  <2>1. calls \in Seq(CallRecord) /\ \A i \in 1..Len(calls) : CallWell(calls[i])
    BY DEF CallsInv, CallsWell
  <2>2. /\ calls' \in Seq(CallRecord) /\ Len(calls') = Len(calls) + 1
        /\ \A i \in 1..Len(calls) : calls'[i] = calls[i]
        /\ calls'[Len(calls) + 1] = c
    <3> HIDE DEF CallRecord
    <3> QED
      BY <1>1, <1>5, <2>1
  <2>3. \A i \in 1..Len(calls') : calls'[i] \in CallRecord /\ CallWell(calls'[i])
    <3> TAKE i \in 1..Len(calls')
    <3>1. CASE i = Len(calls) + 1
      BY <1>5, <1>7, <2>2, <3>1
    <3>2. CASE i \in 1..Len(calls)
      BY <2>1, <2>2, <3>2, ElementOfSeq
    <3> QED
      BY <2>1, <2>2, <3>1, <3>2
  <2>4. TypeOK'
    BY <1>2 DEF Inv
  <2> QED
    BY <1>1, <1>4, <2>2, <2>3, <2>4, CallKept DEF CallsWell
<1> QED
  BY <1>2, <1>8 DEF CallsInv

LEMMA CreateInv ==
    ASSUME CallsInv, NEW kind \in {"guarded", "candidate"},
           NEW maker \in Makers, Create(kind, maker)
    PROVE  CallsInv' \/ (PublishKeeps /\ UNCHANGED calls)
<1> DEFINE object == [id |-> Copy.next[Kind], maker |-> maker]
<1>1. CASE Exhausted /\ Rejected("transaction_failure") /\ UNCHANGED calls
  BY <1>1, RejectedInv
<1>2. CASE ~Exhausted /\ Call(kind, object, StagedWith(object))
  <2>1. Inv /\ MadeBelow /\ HistoryMade
    BY DEF CallsInv
  <2>2. /\ object \in Objects /\ StagedWith(object) \in Authored
        /\ StagedWith(object).content = document.content \cup {object}
        /\ StagedWith(object).next[Kind] = object.id + 1
        /\ \A k \in Counted \ {Kind} : StagedWith(object).next[k] = idCursor[k]
        /\ object.id = idCursor[Kind]
    BY <1>2, <2>1, StagedWithFacts
  <2> HIDE DEF object
  <2>3. CallsInv'
    BY <1>2, <2>2, CallInv
  <2> QED
    BY <2>3
<1> QED
  BY <1>1, <1>2 DEF Create

LEMMA ResupportInv ==
    ASSUME CallsInv, NEW target \in document.content, NEW maker \in Makers,
           Resupport(target, maker)
    PROVE  CallsInv'
<1>1. document \in Authored /\ document.content \in Contents
  BY DEF CallsInv, Inv, TypeOK, Authored
<1>2. [target EXCEPT !.maker = maker] \in Objects
  BY <1>1 DEF Objects
<1>3. Call("evidence", [target EXCEPT !.maker = maker], document)
  BY DEF Resupport
<1> HIDE DEF CallsInv
<1> QED
  BY <1>1, <1>2, <1>3, CallInv

\* Undo and Redo restore nothing that was not committed before.
LEMMA TravelInv == CallsInv /\ Travel => PublishKeeps
<1> SUFFICES ASSUME CallsInv, Travel PROVE PublishKeeps
  OBVIOUS
<1>1. Inv /\ TypeOK /\ MadeBelow /\ HistoryMade /\ (Undo \/ Redo) /\ UNCHANGED made
  BY DEF CallsInv, Inv, Travel, callVars
<1>2. Inv' /\ CursorsGrow
  BY <1>1, UndoInv, RedoInv, StepGrows DEF Next
<1>3. ASSUME NEW op, NEW e, NEW t \in Authored, NEW p,
             t.content \subseteq made, ApplyHistoricalState(op, e, t, p)
      PROVE  /\ UNCHANGED history
             /\ document'.content \subseteq made
             /\ \/ UNCHANGED <<document, revision, idCursor>>
                \/ revision' = revision + 1
  <2> DEFINE adjusted == Adjusted(t)
             commit == CommitState(document, revision, revision, adjusted)
  <2>1. \/ UNCHANGED <<document, revision, idCursor, history>>
        \/ /\ commit.changed /\ document' = commit.state
           /\ revision' = commit.revision /\ UNCHANGED history
    BY <1>3 DEF ApplyHistoricalState, Returned
  <2>2. /\ adjusted \in Authored /\ adjusted.content = t.content
        /\ document \in Authored /\ revision \in Revisions
    BY <1>1, AdjustedFacts DEF TypeOK
  <2>3. commit.changed => commit.state = adjusted /\ commit.revision = revision + 1
    <3> HIDE DEF adjusted
    <3> QED
      BY <2>2, CommitFacts
  <2> QED
    BY <1>1, <1>3, <2>1, <2>2, <2>3 DEF HistoryMade
<1>4. /\ UNCHANGED history
      /\ document'.content \subseteq made
      /\ \/ UNCHANGED <<document, revision, idCursor>>
         \/ revision' = revision + 1
  <2>1. CASE Undo /\ CanUndo
    <3>1. /\ cursor \in 1..Len(history) /\ history[cursor].before \in Authored
          /\ history[cursor].before.content \subseteq made
      BY <1>1, <2>1, AtCursor, EntryFacts DEF HistoryMade, TypeOK, CanUndo
    <3> QED
      BY <1>3, <2>1, <3>1 DEF Undo
  <2>2. CASE Redo /\ CanRedo
    <3>1. /\ cursor + 1 \in 1..Len(history) /\ history[cursor + 1].after \in Authored
          /\ history[cursor + 1].after.content \subseteq made
      BY <1>1, <2>2, AtCursor, EntryFacts DEF HistoryMade, TypeOK, CanRedo
    <3> QED
      BY <1>3, <2>2, <3>1 DEF Redo
  <2>3. CASE UNCHANGED <<document, revision, idCursor, history>>
    BY <1>1, <2>3 DEF HistoryMade
  <2> QED
    BY <1>1, <2>1, <2>2, <2>3 DEF Undo, Redo, Returned
<1>5. MadeBelow'
  <2>1. \A o \in made : o.id \in Nat /\ o.id < idCursor[Kind]
    BY <1>1 DEF MadeBelow, Objects
  <2>2. /\ idCursor[Kind] \in Nat /\ idCursor'[Kind] \in Nat
        /\ idCursor'[Kind] >= idCursor[Kind]
    BY <1>1, <1>2 DEF Inv, TypeOK, CursorsGrow
  <2> QED
    BY <1>1, <2>1, <2>2 DEF MadeBelow
<1>6. HistoryMade'
  BY <1>1, <1>4 DEF HistoryMade
<1> QED
  BY <1>1, <1>2, <1>4, <1>5, <1>6 DEF PublishKeeps, Outlives

LEMMA StoreInv == CallsInv /\ Store => PublishKeeps
<1> SUFFICES ASSUME CallsInv, Store PROVE PublishKeeps
  OBVIOUS
<1>1. Inv /\ Save /\ UNCHANGED made
  BY DEF CallsInv, Store, callVars
<1>2. UNCHANGED <<document, revision, idCursor, localCursor, history>>
  BY <1>1 DEF Save, SaveRefused, SaveSucceeds, Returned
<1>3. Inv' /\ CursorsGrow
  BY <1>1, <1>2, SaveInv, UnchangedCursorsGrow
<1>4. MadeBelow' /\ HistoryMade'
  BY <1>1, <1>2 DEF CallsInv, MadeBelow, HistoryMade
<1> QED
  BY <1>1, <1>2, <1>3, <1>4 DEF PublishKeeps, Outlives

LEMMA CallsStutterInv == CallsInv /\ UNCHANGED allVars => CallsInv'
<1> SUFFICES ASSUME CallsInv, UNCHANGED allVars PROVE CallsInv'
  OBVIOUS
<1>1. UNCHANGED vars /\ UNCHANGED <<calls, made>>
  BY DEF allVars, callVars
<1>2. UNCHANGED <<document, revision, history, idCursor, localCursor>>
  BY <1>1 DEF vars
<1>3. Inv' /\ CursorsGrow
  BY <1>1, <1>2, StutterInv, UnchangedCursorsGrow DEF CallsInv
<1>4. MadeBelow' /\ HistoryMade'
  BY <1>1, <1>2 DEF CallsInv, MadeBelow, HistoryMade
<1>5. Outlives
  BY <1>1, <1>2, <1>3 DEF Outlives
<1> QED
  BY <1>1, <1>3, <1>4, <1>5, CallsKept DEF CallsInv, Inv

LEMMA CallsNextInv == CallsInv /\ [CallsNext]_allVars => CallsInv'
<1> SUFFICES ASSUME CallsInv, [CallsNext]_allVars PROVE CallsInv'
  OBVIOUS
<1>1. ASSUME PublishKeeps, UNCHANGED calls \/ (calls # <<>> /\ calls' = Front(calls))
      PROVE  CallsInv'
  BY <1>1, CallsKept DEF PublishKeeps, CallsInv, Inv
<1>2. ASSUME NEW base \in Revisions, Stale(base) PROVE CallsInv'
  BY <1>1, <1>2, RejectedInv DEF Stale
<1>3. ASSUME NEW kind \in {"guarded", "candidate"}, NEW maker \in Makers,
             Create(kind, maker)
      PROVE  CallsInv'
  BY <1>1, <1>3, CreateInv
<1>4. ASSUME NEW target \in document.content, NEW maker \in Makers,
             Resupport(target, maker)
      PROVE  CallsInv'
  BY <1>4, ResupportInv
<1>5. CASE Uncertified
  BY <1>1, <1>5, RejectedInv DEF Uncertified
<1>6. CASE Answer
  BY <1>1, <1>6, AnswerInv DEF Answer
<1>7. ASSUME NEW object \in document.content, Delete(object) PROVE CallsInv'
  <2>1. object \in Objects
    BY DEF CallsInv, Inv, TypeOK, Authored
  <2> QED
    BY <1>1, <1>7, <2>1, EditInv DEF Delete
<1>8. CASE Travel
  BY <1>1, <1>8, TravelInv DEF Travel, callVars
<1>9. CASE Store
  BY <1>1, <1>9, StoreInv DEF Store, callVars
<1> QED
  BY <1>2, <1>3, <1>4, <1>5, <1>6, <1>7, <1>8, <1>9, CallsStutterInv
     DEF CallsNext

LEMMA CallsInitInv == CallsInit => CallsInv
<1> SUFFICES ASSUME CallsInit PROVE CallsInv
  OBVIOUS
<1>1. Inv /\ document \in Authored
  BY InitInv DEF CallsInit, Inv, TypeOK
<1>2. history = <<>> /\ idCursor = document.next
  BY DEF CallsInit, Init
<1>3. MadeBelow
  BY <1>1, <1>2 DEF CallsInit, MadeBelow, Authored
<1>4. HistoryMade
  BY <1>2 DEF CallsInit, HistoryMade
<1>5. CallsWell
  BY DEF CallsInit, CallsWell
<1> QED
  BY <1>1, <1>3, <1>4, <1>5 DEF CallsInv

\* The inductive invariant holds of the specification.
THEOREM CallsInvAlways == CallsSpec => []CallsInv
BY CallsInitInv, CallsNextInv, PTL DEF CallsSpec

-----------------------------------------------------------------------------
(* The history survives the callbacks *)

LEMMA UsableAfter ==
    ASSUME CallsInv, HistoryIsUsable, [CallsNext]_allVars
    PROVE  HistoryIsUsable'
<1>1. CASE result'.op \notin {"undo", "redo"}
  BY <1>1 DEF HistoryIsUsable
<1>2. CASE UNCHANGED vars
  BY <1>2 DEF vars, HistoryIsUsable
<1>3. CASE Travel
  BY <1>3, UsableStep DEF Travel, Next, CallsInv
<1>4. ASSUME NEW code, Rejected(code) PROVE result'.op = "execute"
  BY <1>4 DEF Rejected, Returned, Outcome
<1>5. ASSUME NEW after, Publish(after) PROVE result'.op = "execute"
  BY <1>5 DEF Publish, CommitCommandState, Returned, Outcome
<1>6. CASE Store
  <2>1. result'.op = "save"
    BY <1>6 DEF Store, Save, SaveRefused, SaveSucceeds, Returned, Outcome
  <2> QED
    BY <1>1, <2>1
<1>7. CASE Answer
  <2>1. result'.op = "execute"
    BY <1>4, <1>5, <1>7 DEF Answer, AnswerGuarded, AnswerCandidate, AnswerEvidence
  <2> QED
    BY <1>1, <2>1
<1>8. ASSUME NEW base \in Revisions, Stale(base) PROVE HistoryIsUsable'
  BY <1>1, <1>4, <1>8 DEF Stale
<1>9. ASSUME NEW kind, NEW maker, Create(kind, maker) PROVE HistoryIsUsable'
  BY <1>1, <1>2, <1>4, <1>9 DEF Create, Call
<1>10. ASSUME NEW target, NEW maker, Resupport(target, maker)
       PROVE  HistoryIsUsable'
  BY <1>2, <1>10 DEF Resupport, Call
<1>11. CASE Uncertified
  BY <1>1, <1>4, <1>11 DEF Uncertified
<1>12. ASSUME NEW object, Delete(object) PROVE HistoryIsUsable'
  BY <1>1, <1>5, <1>12 DEF Delete
<1>13. CASE UNCHANGED allVars
  BY <1>2, <1>13 DEF allVars
<1> QED
  BY <1>3, <1>6, <1>7, <1>8, <1>9, <1>10, <1>11, <1>12, <1>13 DEF CallsNext

\* Whatever the modelling provider calls back and however old the staged copy
\* is that a candidate command commits afterwards, the history stays chained
\* below the session's cursors and Undo and Redo never answer history_diverged.
THEOREM CallbacksKeepHistory == CallsSpec => []HistorySurvivesCallbacks
<1>1. CallsInit => HistoryIsUsable
  BY DEF CallsInit, Init, Outcome, HistoryIsUsable
<1>2. CallsInv /\ HistoryIsUsable /\ [CallsNext]_allVars => HistoryIsUsable'
  BY UsableAfter
<1>3. CallsInv /\ HistoryIsUsable => HistorySurvivesCallbacks
  BY DEF CallsInv, Inv, HistorySurvivesCallbacks
<1> QED
  BY <1>1, <1>2, <1>3, CallsInvAlways, PTL DEF CallsSpec

-----------------------------------------------------------------------------
(* No nested command is lost *)

\* A commit that changes the document leaves the content it was handed.
LEMMA PublishedContent ==
    ASSUME TypeOK, NEW after \in Authored, Publish(after), document' # document
    PROVE  document'.content = after.content
<1>1. CommitCommandState(after)
  BY DEF Publish
<1>2. Adjusted(after).content = after.content
  BY AdjustedFacts
<1> QED
  BY <1>1, <1>2, CommitOutcome

\* What NestedIsKept says of one step.
KeepsNested ==
    Publishes =>
        CASE Innermost.kind = "guarded" ->
               \E object \in document'.content :
                   /\ document'.content = document.content \cup {object}
                   /\ \A other \in made : other.id # object.id
          [] Innermost.kind = "evidence" ->
               document'.content = Redefined(Innermost.object).content
          [] OTHER -> TRUE

LEMMA GuardedKeeps ==
    ASSUME CallsInv, calls # <<>>, Innermost.kind = "guarded", AnswerGuarded,
           document' # document
    PROVE  \E object \in document'.content :
               /\ document'.content = document.content \cup {object}
               /\ \A other \in made : other.id # object.id
<1> DEFINE c == Innermost
<1>1. c \in CallRecord /\ CallWell(c)
  BY InnermostFacts DEF CallsInv
<1>2. c.base = revision /\ Publish(c.staged)
  BY DEF AnswerGuarded, Rejected, Returned
<1>3. /\ c.staged.content = document.content \cup {c.object}
      /\ c.object.id = idCursor[Kind]
  BY <1>1, <1>2 DEF CallWell, StagedHere
<1>4. document'.content = c.staged.content
  BY <1>1, <1>2, PublishedContent DEF CallRecord, CallsInv, Inv
<1>5. \A other \in made : other.id < idCursor[Kind] /\ other.id \in Nat
  BY DEF CallsInv, MadeBelow, Objects
<1>6. idCursor[Kind] \in Nat
  BY DEF CallsInv, Inv, TypeOK
<1>7. \A other \in made : other.id # c.object.id
  BY <1>3, <1>5, <1>6
<1> QED
  BY <1>3, <1>4, <1>7

LEMMA EvidenceKeeps ==
    ASSUME CallsInv, calls # <<>>, Innermost.kind = "evidence", AnswerEvidence,
           document' # document
    PROVE  document'.content = Redefined(Innermost.object).content
<1>1. Innermost.object \in Objects
  BY InnermostFacts DEF CallsInv, CallRecord
<1>2. Publish(Redefined(Innermost.object))
  BY DEF AnswerEvidence, Rejected, Returned
<1>3. Redefined(Innermost.object) \in Authored
  BY <1>1, EditedFacts DEF CallsInv
<1> QED
  BY <1>2, <1>3, PublishedContent DEF CallsInv, Inv

\* Only an answer takes a call away and changes the document.
LEMMA OnlyAnswersPublish ==
    ASSUME CallsInv, [CallsNext]_allVars, Publishes
    PROVE  Answer
<1>1. Len(calls) \in Nat
  BY DEF CallsInv, CallsWell
<1>2. calls' # calls /\ document' # document
  BY <1>1 DEF Publishes
<1>3. ASSUME NEW kind, NEW object, NEW staged, Call(kind, object, staged)
      PROVE  FALSE
  BY <1>2, <1>3 DEF Call, vars
<1>4. CASE Uncertified
  BY <1>2, <1>4 DEF Uncertified, Rejected, Returned
<1>5. ~(UNCHANGED allVars) /\ ~Travel /\ ~Store
  BY <1>2 DEF allVars, callVars, Travel, Store
<1> QED
  BY <1>2, <1>3, <1>4, <1>5 DEF CallsNext, Stale, Create, Resupport, Delete

LEMMA StepKeepsNested ==
    ASSUME CallsInv, [CallsNext]_allVars
    PROVE  KeepsNested
<1> SUFFICES ASSUME Publishes PROVE KeepsNested
  BY DEF KeepsNested
<1>1. Answer /\ calls # <<>> /\ document' # document
  BY OnlyAnswersPublish DEF Answer, Publishes
<1>2. CASE Innermost.kind = "guarded" /\ AnswerGuarded
  BY <1>1, <1>2, GuardedKeeps DEF KeepsNested
<1>3. CASE Innermost.kind = "evidence" /\ AnswerEvidence
  BY <1>1, <1>3, EvidenceKeeps DEF KeepsNested
<1>4. CASE Innermost.kind = "candidate"
  BY <1>4 DEF KeepsNested
<1> QED
  BY <1>1, <1>2, <1>3, <1>4 DEF Answer

\* A guarded command that publishes after its provider answered adds exactly
\* its own object to the document that is live then, under an identifier that
\* was never committed; a re-support redefines its sketch in that document.
THEOREM NestedCommandsAreKept == CallsSpec => NestedIsKept
<1>1. CallsInv /\ [CallsNext]_allVars => [KeepsNested]_allVars
  BY StepKeepsNested
<1> QED
  BY <1>1, CallsInvAlways, PTL DEF CallsSpec, NestedIsKept, KeepsNested
=============================================================================
