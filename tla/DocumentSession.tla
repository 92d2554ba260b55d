--------------------------- MODULE DocumentSession ---------------------------
(***************************************************************************)
(* application::DocumentSession: the command/history authority of one open *)
(* Part document.                                                          *)
(*                                                                         *)
(* Every command copies the live state, edits the copy and hands it to     *)
(* commitCommandState; Undo and Redo hand a state kept in the history to   *)
(* applyHistoricalState.  Both raise the allocation cursors of what they   *)
(* commit to the session's high-water cursors first, so that an identifier *)
(* given out once in a session is not given out again after Undo.  That    *)
(* rewriting is also the danger: the state Undo finds is not the state the *)
(* history entry recorded, and Undo refuses to work when the two cannot be *)
(* reconciled.                                                             *)
(*                                                                         *)
(* The handlers run on one thread, to completion, so each is one action.   *)
(***************************************************************************)
EXTENDS PartDocument, Sequences

VARIABLES
    document,      \* the live authored state
    revision,      \* its revision
    expected,      \* expected_revision_
    history,       \* history_: records [before, after] of authored states
    cursor,        \* cursor_: how many entries of history are done
    saved,         \* saved_state_
    idCursor,      \* axis_/datum_/profile_/body_/feature_id_cursor_
    localCursor,   \* sketch_entity_/sketch_constraint_id_cursors_
    hasCheckpoint, \* whether file_checkpoint_ holds a value
    result         \* what the last operation returned

vars == <<document, revision, expected, history, cursor, saved,
          idCursor, localCursor, hasCheckpoint, result>>

-----------------------------------------------------------------------------
(* Cursors *)

Larger(a, b) == IF a >= b THEN a ELSE b

\* A sketch the session has no cursor for, an absent key of the map.
Absent == 0

\* apply{Axis,Datum,Profile,BodyFeature}IdCursor
ApplyCounted(s, ids) ==
    [s EXCEPT !.next = [k \in Counted |-> Larger(s.next[k], ids[k])]]

\* applySketchEntityIdCursors, applySketchConstraintIdCursors: the sketches
\* the state hosts take over the session's cursor, if it is the larger one.
ApplyLocal(s, locals) ==
    [s EXCEPT !.local =
        [k \in LocalKinds |-> [h \in Sketches |->
            IF h \in Hosted(s.content)
            THEN Larger(s.local[k][h], locals[k][h])
            ELSE s.local[k][h]]]]

\* Mutant: the sketch cursors are forgotten.
AdjustedCountedOnly(s) == ApplyCounted(s, idCursor)

Adjusted(s) == ApplyLocal(ApplyCounted(s, idCursor), localCursor)

\* {axis,...}_id_cursor_.preserve(s.next_..._id)
PreserveCounted(ids, s) == [k \in Counted |-> Larger(ids[k], s.next[k])]

\* absorbSketchEntityIdCursors, absorbSketchConstraintIdCursors: a key is
\* added for every hosted sketch that has none.
AbsorbLocal(locals, s) ==
    [k \in LocalKinds |-> [h \in Sketches |->
        IF h \in Hosted(s.content)
        THEN Larger(locals[k][h], s.local[k][h])
        ELSE locals[k][h]]]

NoLocalCursors == [k \in LocalKinds |-> [h \in Sketches |-> Absent]]

-----------------------------------------------------------------------------
CanUndo == cursor > 0

CanRedo == cursor < Len(history)

NeedsSave == ~SameState(document, saved)

RevisionAgrees == revision = expected

Outcome(op, code) == [op |-> op, code |-> code]

\* The operation returned without touching the session.
Returned(op, code) ==
    /\ result' = Outcome(op, code)
    /\ UNCHANGED <<document, revision, expected, history, cursor, saved,
                   idCursor, localCursor, hasCheckpoint>>

-----------------------------------------------------------------------------
(* Commands *)

(***************************************************************************)
(* What a command may hand to commitCommandState: the live state with its  *)
(* content edited.  A command allocates identifiers with the cursors of    *)
(* the copy, so they never go back, and a counted cursor advances only     *)
(* together with the object that received the identifier.                  *)
(***************************************************************************)
CommandResult(after) ==
    /\ \A k \in Counted : after.next[k] >= document.next[k]
    /\ \A k \in LocalKinds, h \in Hosted(document.content) :
           after.local[k][h] >= document.local[k][h]
    /\ after.content = document.content => after.next = document.next

\* Mutant: the redo entries are not erased.
CommittedKeepingRedo(entry) == Append(history, entry)

\* The history after a commit: the entries Redo could use are erased first.
Committed(entry) == Append(SubSeq(history, 1, cursor), entry)

(***************************************************************************)
(* commitCommandState.  The cursors are adjusted before the comparison     *)
(* with the live state; the redo entries go only after the transaction     *)
(* changed the document.                                                   *)
(***************************************************************************)
CommitCommandState(after) ==
    LET adjusted == Adjusted(after)
        commit   == CommitState(document, revision, revision, adjusted)
        answer   == IF ~RevisionAgrees THEN "revision_diverged"
                    ELSE IF SameState(adjusted, document) THEN "unchanged"
                    ELSE IF commit.code # "none" THEN "transaction_failure"
                    ELSE "changed"
    IN  \/ /\ answer # "changed"
           /\ Returned("execute", answer)
        \/ /\ answer = "changed"
           /\ document' = commit.state
           /\ revision' = commit.revision
           /\ expected' = commit.revision
           /\ history' = Committed([before |-> document, after |-> adjusted])
           /\ cursor' = Len(history')
           /\ idCursor' = PreserveCounted(idCursor, adjusted)
           /\ localCursor' = AbsorbLocal(localCursor, adjusted)
           /\ result' = Outcome("execute", answer)
           /\ UNCHANGED <<saved, hasCheckpoint>>

Execute(after) == CommandResult(after) /\ CommitCommandState(after)

-----------------------------------------------------------------------------
(* Undo and Redo *)

\* Mutant: the recorded state is compared as it was recorded.
RecordedExpectation(s) == s

(***************************************************************************)
(* The state Undo or Redo expects to find: applyHistoricalState raises the *)
(* counted and the constraint cursors of the recorded state.  The entity   *)
(* cursors it leaves alone, and the comparison does not read them.         *)
(***************************************************************************)
AdjustedExpectation(s) ==
    ApplyLocal(ApplyCounted(s, idCursor),
               [k \in LocalKinds |-> IF k = "entity"
                                     THEN NoLocalCursors[k]
                                     ELSE localCursor[k]])

ApplyHistoricalState(op, expectation, target, position) ==
    LET commit == CommitState(document, revision, revision, Adjusted(target))
        answer == IF ~RevisionAgrees THEN "revision_diverged"
                  ELSE IF ~SameState(document, AdjustedExpectation(expectation))
                       THEN "history_diverged"
                  ELSE IF ~commit.changed THEN "transaction_failure"
                  ELSE "changed"
    IN  \/ /\ answer # "changed"
           /\ Returned(op, answer)
        \/ /\ answer = "changed"
           /\ document' = commit.state
           /\ revision' = commit.revision
           /\ expected' = commit.revision
           /\ idCursor' = PreserveCounted(idCursor, commit.state)
           /\ localCursor' = AbsorbLocal(localCursor, commit.state)
           /\ cursor' = position
           /\ result' = Outcome(op, answer)
           /\ UNCHANGED <<history, saved, hasCheckpoint>>

Undo ==
    \/ /\ CanUndo
       /\ ApplyHistoricalState("undo", history[cursor].after,
                               history[cursor].before, cursor - 1)
    \/ /\ ~CanUndo
       /\ Returned("undo", "unchanged")

Redo ==
    \/ /\ CanRedo
       /\ ApplyHistoricalState("redo", history[cursor + 1].before,
                               history[cursor + 1].after, cursor + 1)
    \/ /\ ~CanRedo
       /\ Returned("redo", "unchanged")

-----------------------------------------------------------------------------
(* Save *)

(***************************************************************************)
(* save: what the native store answers is the environment's choice here;   *)
(* SaveProtocol models it.  The dirty baseline moves only on success, and  *)
(* the history is untouched either way.                                    *)
(***************************************************************************)
SaveRefused ==
    LET answers == IF ~RevisionAgrees THEN {"revision_diverged"}
                   ELSE IF ~hasCheckpoint THEN {"persistence_failure"}
                   ELSE {"save_conflict", "persistence_failure"}
    IN  \E code \in answers : Returned("save", code)

SaveSucceeds ==
    /\ RevisionAgrees
    /\ hasCheckpoint
    /\ saved' = document
    /\ result' = Outcome("save", "unchanged")
    /\ UNCHANGED <<document, revision, expected, history, cursor,
                   idCursor, localCursor, hasCheckpoint>>

Save == SaveRefused \/ SaveSucceeds

-----------------------------------------------------------------------------
(***************************************************************************)
(* A session opens on the state its store loaded or created, with empty    *)
(* history; the constructors absorb the cursors of that state.             *)
(***************************************************************************)
Init ==
    /\ document \in {s \in Authored : s.content \in ValidContents}
    /\ revision \in Revisions
    /\ expected = revision
    /\ history = <<>>
    /\ cursor = 0
    /\ saved = document
    /\ idCursor = document.next
    /\ localCursor = AbsorbLocal(NoLocalCursors, document)
    /\ hasCheckpoint \in BOOLEAN
    /\ result = Outcome("open", "unchanged")

Next ==
    \/ \E after \in Authored : Execute(after)
    \/ Undo
    \/ Redo
    \/ Save

Spec == Init /\ [][Next]_vars

-----------------------------------------------------------------------------
(* Properties *)

\* The shape of the session's state; the cursor stays inside the history.
TypeOK ==
    /\ document \in Authored
    /\ revision \in Revisions
    /\ expected \in Revisions
    /\ history \in Seq([before : Authored, after : Authored])
    /\ cursor \in 0..Len(history)
    /\ saved \in Authored
    /\ idCursor \in [Counted -> Ids]
    /\ localCursor \in [LocalKinds -> [Sketches -> {Absent} \cup Ids]]
    /\ hasCheckpoint \in BOOLEAN
    /\ result \in [op   : {"open", "execute", "undo", "redo", "save"},
                   code : {"changed", "unchanged", "revision_diverged",
                           "history_diverged", "transaction_failure",
                           "invalid_command", "save_conflict",
                           "persistence_failure"}]

\* Undo and Redo of a session nobody else edits never answer history_diverged,
\* revision_diverged or transaction_failure, however commands, Undo, Redo and
\* Save alternate: the rewritten live state is always the recorded one again
\* once the recorded one is rewritten too.  Only an exhausted revision stops them.
HistoryIsUsable ==
    result.op \in {"undo", "redo"} =>
        \/ result.code \in {"changed", "unchanged"}
        \/ result.code = "transaction_failure" /\ revision = MaxRevision

\* No state the session can still come back to, on either side of the cursor
\* or in the file it saved, holds an identifier the live cursors could give
\* out a second time; a sketch that Redo brings back included.
CursorsCoverHistory ==
    \A s \in {history[i].before : i \in DOMAIN history}
            \cup {history[i].after : i \in DOMAIN history}
            \cup {saved} :
        /\ \A k \in Counted : s.next[k] <= document.next[k]
        /\ \A k \in LocalKinds,
              h \in Hosted(s.content) \cap Hosted(document.content) :
               s.local[k][h] <= document.local[k][h]

\* No operation moves an allocation cursor of the live document back, so what
\* a command allocates was never allocated before in this session.
IdsNeverReissued ==
    [][/\ \A k \in Counted : document'.next[k] >= document.next[k]
       /\ \A k \in LocalKinds,
             h \in Hosted(document.content) \cap Hosted(document'.content) :
              document'.local[k][h] >= document.local[k][h]]_vars

-----------------------------------------------------------------------------
(***************************************************************************)
(* Why the history stays usable.  The live cursors are the session's; a    *)
(* recorded state lies below them; neighbouring entries meet; the live     *)
(* content is the one both entries at the cursor agree on.                 *)
(***************************************************************************)
CursorsAgree ==
    /\ idCursor = document.next
    /\ \A k \in LocalKinds : \A h \in Hosted(document.content) :
           localCursor[k][h] = document.local[k][h]

\* A state the session may come back to: valid, and below the cursors.
Remembered(s) ==
    /\ s.content \in ValidContents
    /\ \A k \in Counted : s.next[k] <= idCursor[k]
    /\ \A k \in LocalKinds : \A h \in Hosted(s.content) :
           s.local[k][h] <= localCursor[k][h]

HistoryRemembered ==
    /\ Remembered(document)
    /\ Remembered(saved)
    /\ \A i \in 1..Len(history) :
           /\ Remembered(history[i].before)
           /\ Remembered(history[i].after)

\* Each entry changed the content, and starts from what the one before left.
HistoryChained ==
    /\ \A i \in 1..Len(history) :
           history[i].before.content # history[i].after.content
    /\ \A i \in 1..Len(history) : \A j \in 1..Len(history) :
           j = i + 1 => history[i].after.content = history[j].before.content

DocumentAtCursor ==
    /\ cursor > 0 => document.content = history[cursor].after.content
    /\ cursor < Len(history) =>
           document.content = history[cursor + 1].before.content

\* The inductive invariant behind the properties above: the live state and
\* the history never drift apart, whatever the cursors were raised to.
HistoryConsistent ==
    /\ RevisionAgrees
    /\ CursorsAgree
    /\ HistoryRemembered
    /\ HistoryChained
    /\ DocumentAtCursor

\* The contents Undo and Redo can reach, read off the history entries.
Timeline ==
    IF history = <<>> THEN <<document.content>>
    ELSE [i \in 1..(Len(history) + 1) |->
             IF i = 1 THEN history[1].before.content
             ELSE history[i - 1].after.content]

Abstract == INSTANCE UndoRedo WITH timeline <- Timeline, position <- cursor + 1

\* The session implements the timeline of UndoRedo: what Undo and Redo restore
\* is exactly what was there, and only a successful command drops Redo.
ImplementsUndoRedo == Abstract!Spec
=============================================================================
