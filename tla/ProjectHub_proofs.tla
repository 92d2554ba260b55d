-------------------------- MODULE ProjectHub_proofs --------------------------
(***************************************************************************)
(* Proofs about ProjectHub, for any number of processes, folders,          *)
(* projects and requests, and any number of failing calls, crashes and     *)
(* changes the user makes by other means.                                  *)
(*                                                                         *)
(* The argument has three inductive invariants on top of the types.  Every *)
(* list that is the catalog, its backup or about to be written can be read *)
(* back.  As long as operations do not overlap, the list an operation      *)
(* edits is the one the catalog still has, or that the backup holds while  *)
(* there is no catalog.  And the ProjectId of a creation is its own: what  *)
(* carries it is what the creation published.                              *)
(***************************************************************************)
EXTENDS ProjectHub, SequenceTheorems, TLAPS

(* Types, and which operations hold a session *)

Writing == {"temp", "dropped", "inspected", "fresh", "previous", "cleanup", "restoring"}

Creating == {"staged", "checked", "published", "rollback", "removing"}

\* Where a process is, in which operation, with which session and lists.
Fits(place, o, s, t) ==
    /\ place \in {"opened", "active"} => s # None
    /\ place \in Writing \cup {"locating"} => t # NoFile
    /\ place \in Creating \cup {"idle", "located", "locating", "relocated"} => s = None
    /\ place \in Writing /\ o.kind \notin {"remove", "relocate"} => s # None
    /\ place \in {"locating", "relocated"} => o.kind = "relocate"
    /\ place = "located" => o.kind \in {"recent", "relocate"}
    /\ place \in Creating => o.kind = "create"
    /\ o.kind = "remove" => place \in Writing \cup {"idle"}
    /\ place # "idle" /\ o.kind \in {"create", "relocate"} => o.id # None
    /\ o.kind \in {"recent", "relocate"} => s \in {None, o.id}

SessionsFit == \A p \in Processes : Fits(pc[p], op[p], session[p], temp[p])

Typed == TypeOK /\ SessionsFit

(* The catalog can be read *)

\* It can, and all it lists are projects that exist or existed.
Good(list) == Readable(list) /\ IdsIn(list) \subseteq issued

ListsGood ==
    /\ \A c \in {catalog, backup} : c # NoFile => Good(c)
    /\ \A p \in Processes :
            temp[p] # NoFile => Good(temp[p].base) /\ Good(temp[p].list)

(* The catalog remembers *)

Exact(list) == \A d \in ProjectIds : remembered[d] # None => Remembered(list, d)

OneAtATime == \A p, q \in Processes : ~Resting(p) /\ ~Resting(q) => p = q

\* What an operation is about to write, next to what it has read.
Edited(p) ==
    LET base == temp[p].base
        list == temp[p].list
    IN  CASE op[p].kind = "remove" ->
                op[p].id \in IdsIn(base) /\ list = Without(base, op[p].id)
          [] op[p].kind = "relocate" /\ session[p] = None ->
                /\ op[p].id \in IdsIn(base)
                /\ list = Relocated(base, [id |-> op[p].id, path |-> op[p].path])
          [] OTHER ->
                /\ session[p] \in IdsIn(base) => PathIn(base, session[p]) = op[p].path
                /\ list = Recorded(base, [id |-> session[p], path |-> op[p].path])

\* Where p is in a write whose outcome is not known yet.
Replacing(p) == pc[p] \in {"previous", "restoring", "cleanup"}

\* What nobody else can have changed while p is the only one at work.
Undivided(p) ==
    /\ pc[p] = "inspected" => catalog # NoFile
    /\ pc[p] = "fresh" => catalog = NoFile
    /\ pc[p] = "restoring" => faults > 0

AloneFollows == alone => OneAtATime /\ \A p \in Processes : Undivided(p)

\* The list p has read is the catalog, until p itself replaces it.
Follows(p) ==
    /\ pc[p] \in {"locating", "temp", "dropped", "inspected", "fresh"}
          => temp[p].base = Listed
    /\ pc[p] = "locating" => op[p].id \in IdsIn(Listed)
    /\ pc[p] \in {"previous", "restoring"} => catalog = NoFile /\ backup = temp[p].base
    /\ pc[p] = "cleanup" => catalog = temp[p].list
    /\ pc[p] \in Writing => Edited(p)
    /\ Replacing(p) => Exact(temp[p].base)

CatalogFollows ==
    Undisturbed =>
        /\ \A p \in Processes : Follows(p)
        /\ (\A p \in Processes : ~Replacing(p)) => Exact(Listed)

(* Creations *)

Creation(p) == op[p].kind = "create" /\ op[p].id # None

FolderIds == {folder[f].id : f \in {g \in Folders : folder[g] # None}}

\* Whatever names a project names one that was issued, and every creation has
\* an id of its own.
IdsIssued ==
    /\ FolderIds \subseteq issued \cup {None}
    /\ \A p \in Processes :
          /\ session[p] \in issued \cup {None}
          /\ Creation(p) => op[p].id \in issued
    /\ \A p, q \in Processes :
          Creation(p) /\ Creation(q) /\ op[p].id = op[q].id => p = q

\* Between the look at its folder and the removal the folder is p's own.
RemovesOwn ==
    \A p \in Processes :
        pc[p] = "removing" /\ p \notin disturbed =>
            folder[op[p].path] # None /\ folder[op[p].path].id = op[p].id

\* Nobody but its creation makes a folder with a new ProjectId, as long as
\* the user keeps away.
PublishesOwn ==
    externals = 0 =>
        /\ disturbed = {}
        /\ \A p \in Processes : Creation(p) =>
              \A f \in Folders : folder[f] # None /\ folder[f].id = op[p].id =>
                    f = op[p].path /\ pc[p] \notin {"staged", "checked"}

\* And if no other operation gets in its way either and no call fails, it is
\* not taken back.
SucceedsAt(p) ==
    /\ pc[p] \notin {"rollback", "removing"}
    /\ pc[p] = "published" => IsProject(op[p].path) /\ folder[op[p].path].id = op[p].id
    /\ pc[p] = "opened" /\ Creation(p) => session[p] = op[p].id
    /\ pc[p] \in {"staged", "checked", "published", "opened"} /\ Creation(p)
            => op[p].id \notin IdsIn(Listed)

Succeeds ==
    externals = 0 /\ alone /\ faults = 0 => \A p \in Processes : SucceedsAt(p)

USE HubAssumption

-----------------------------------------------------------------------------
(* Lists *)

LEMMA ListFacts ==
    ASSUME NEW list \in Seq(Entry)
    PROVE  /\ Len(list) \in Nat /\ DOMAIN list = 1..Len(list)
           /\ \A i \in DOMAIN list : list[i] \in Entry
           /\ IdsIn(list) \subseteq ProjectIds
           /\ list # NoFile
<1>1. /\ Len(list) \in Nat /\ DOMAIN list = 1..Len(list)
      /\ \A i \in DOMAIN list : list[i] \in Entry
  BY LenProperties
<1>2. IdsIn(list) \subseteq ProjectIds
  BY <1>1 DEF IdsIn, Entry
<1> QED
  BY <1>1, <1>2, NoFolderAssumption

LEMMA PositionFacts ==
    ASSUME NEW list \in Seq(Entry), NEW d \in IdsIn(list)
    PROVE  /\ Position(list, d) \in DOMAIN list /\ list[Position(list, d)].id = d
           /\ PathIn(list, d) \in Folders
<1>1. \E i \in DOMAIN list : list[i].id = d
  BY DEF IdsIn
<1>2. Position(list, d) \in DOMAIN list /\ list[Position(list, d)].id = d
  BY <1>1 DEF Position
<1> QED
  BY <1>2, ListFacts DEF PathIn, Entry

\* In a list that can be read an entry is the only one of its project.
LEMMA OnlyEntry ==
    ASSUME NEW list \in Seq(Entry), Readable(list), NEW i \in DOMAIN list
    PROVE  /\ list[i].id \in IdsIn(list)
           /\ Position(list, list[i].id) = i
           /\ PathIn(list, list[i].id) = list[i].path
<1>1. list[i].id \in IdsIn(list)
  BY DEF IdsIn
<1>2. Position(list, list[i].id) = i
  BY <1>1, PositionFacts DEF Readable
<1> QED
  BY <1>1, <1>2 DEF PathIn

LEMMA RemoveAtFacts ==
    ASSUME NEW list \in Seq(Entry), NEW k \in DOMAIN list
    PROVE  /\ RemoveAt(list, k) \in Seq(Entry)
           /\ Len(RemoveAt(list, k)) = Len(list) - 1
           /\ \A i \in 1..(Len(list) - 1) :
                  RemoveAt(list, k)[i] = IF i < k THEN list[i] ELSE list[i + 1]
<1> DEFINE n == Len(list)
           a == SubSeq(list, 1, k - 1)
           b == SubSeq(list, k + 1, n)
<1>0. n \in Nat /\ k \in 1..n /\ \A i \in 1..n : list[i] \in Entry
  BY ListFacts
<1>1. a \in Seq(Entry) /\ Len(a) = k - 1 /\ \A i \in 1..(k - 1) : a[i] = list[i]
  BY <1>0, SubSeqProperties
<1>2. b \in Seq(Entry) /\ Len(b) = n - k /\ \A i \in 1..(n - k) : b[i] = list[k + i]
  BY <1>0, SubSeqProperties
<1>3. RemoveAt(list, k) = a \o b
  BY DEF RemoveAt
<1> HIDE DEF a, b, n
<1>4. /\ a \o b \in Seq(Entry) /\ Len(a \o b) = Len(a) + Len(b)
      /\ \A i \in 1..(Len(a) + Len(b)) :
            (a \o b)[i] = IF i <= Len(a) THEN a[i] ELSE b[i - Len(a)]
  BY <1>1, <1>2, ConcatProperties
<1>6. Len(a \o b) = n - 1
  BY <1>0, <1>1, <1>2, <1>4
<1>5. ASSUME NEW i \in 1..(n - 1)
      PROVE  (a \o b)[i] = IF i < k THEN list[i] ELSE list[i + 1]
  <2>1. CASE i < k
    <3>1. i \in 1..(k - 1) /\ a[i] = list[i]
      BY <1>0, <1>1, <2>1
    <3>2. i \in 1..(Len(a) + Len(b)) /\ i <= Len(a)
      BY <1>0, <1>1, <1>2, <2>1
    <3>3. (a \o b)[i] = a[i]
      BY <1>4, <3>2
    <3> QED
      BY <2>1, <3>1, <3>3
  <2>2. CASE ~(i < k)
    <3>0. i - (k - 1) \in 1..(n - k)
      BY <1>0, <2>2
    <3>1. b[i - (k - 1)] = list[k + (i - (k - 1))]
      BY <1>2, <3>0
    <3>2. (a \o b)[i] = b[i - (k - 1)]
      <4>1. i \in 1..(Len(a) + Len(b)) /\ ~(i <= Len(a)) /\ Len(a) = k - 1
        BY <1>0, <1>1, <1>2, <2>2
      <4> QED
        BY <1>4, <4>1
    <3>3. k + (i - (k - 1)) = i + 1
      BY <1>0
    <3> QED
      BY <2>2, <3>1, <3>2, <3>3
  <2> QED
    BY <2>1, <2>2
<1> QED
  BY <1>3, <1>4, <1>5, <1>6 DEF n

\* remove() takes out the entry it found and keeps all others.
LEMMA WithoutFacts ==
    ASSUME NEW list \in Seq(Entry), Readable(list), NEW d
    PROVE  /\ Without(list, d) \in Seq(Entry) /\ Readable(Without(list, d))
           /\ Len(Without(list, d)) <= Len(list)
           /\ IdsIn(Without(list, d)) = IdsIn(list) \ {d}
           /\ \A e \in IdsIn(list) \ {d} : PathIn(Without(list, d), e) = PathIn(list, e)
<1>1. CASE d \notin IdsIn(list)
  BY <1>1, ListFacts DEF Without
<1>2. CASE d \in IdsIn(list)
  <2> DEFINE k == Position(list, d)
             w == Without(list, d)
             n == Len(list)
  <2>0. n \in Nat /\ DOMAIN list = 1..n
    BY ListFacts
  <2>1. k \in 1..n /\ list[k].id = d
    BY <1>2, <2>0, PositionFacts
  <2>2. w = RemoveAt(list, k)
    BY <1>2 DEF Without
  <2>3. /\ w \in Seq(Entry) /\ Len(w) = n - 1
        /\ \A i \in 1..(n - 1) : w[i] = IF i < k THEN list[i] ELSE list[i + 1]
    <3> HIDE DEF k, w
    <3>1. k \in DOMAIN list
      BY <2>0, <2>1
    <3> QED
      BY <2>2, <3>1, RemoveAtFacts
  <2> HIDE DEF k, w, n
  <2>4. DOMAIN w = 1..(n - 1)
    BY <2>3, ListFacts
  <2>5. \A i, j \in 1..n : list[i].id = list[j].id => i = j
    BY <2>0 DEF Readable
  <2>6. \A i, j \in 1..(n - 1) : w[i].id = w[j].id => i = j
    <3> SUFFICES ASSUME NEW i \in 1..(n - 1), NEW j \in 1..(n - 1), w[i].id = w[j].id
                 PROVE  i = j
      OBVIOUS
    <3>1. CASE i < k /\ j < k
      BY <2>0, <2>1, <2>3, <2>5, <3>1
    <3>2. CASE ~(i < k) /\ ~(j < k)
      BY <2>0, <2>1, <2>3, <2>5, <3>2
    <3>3. CASE i < k /\ ~(j < k)
      BY <2>0, <2>1, <2>3, <2>5, <3>3
    <3>4. CASE ~(i < k) /\ j < k
      BY <2>0, <2>1, <2>3, <2>5, <3>4
    <3> QED
      BY <3>1, <3>2, <3>3, <3>4
  <2>7. Readable(w)
    BY <2>0, <2>3, <2>4, <2>6 DEF Readable, n
  <2>8. ASSUME NEW i \in 1..(n - 1)
        PROVE  w[i].id \in IdsIn(list) \ {d}
    <3>1. \E j \in 1..n : j # k /\ w[i] = list[j]
      <4>1. CASE i < k
        BY <2>0, <2>1, <2>3, <4>1
      <4>2. CASE ~(i < k)
        <5>1. w[i] = list[i + 1] /\ i + 1 \in 1..n /\ i + 1 # k
          BY <2>0, <2>1, <2>3, <4>2
        <5> QED
          BY <5>1
      <4> QED
        BY <4>1, <4>2
    <3> QED
      BY <2>0, <2>1, <2>5, <3>1 DEF IdsIn
  <2>9. ASSUME NEW e \in IdsIn(list) \ {d}
        PROVE  e \in IdsIn(w) /\ PathIn(w, e) = PathIn(list, e)
    <3>1. PICK j \in 1..n : list[j].id = e
      BY <2>0 DEF IdsIn
    <3>2. j # k
      BY <2>1, <3>1
    <3>3. \E i \in 1..(n - 1) : w[i] = list[j]
      <4>1. CASE j < k
        <5>1. j \in 1..(n - 1) /\ w[j] = list[j]
          BY <2>0, <2>1, <2>3, <4>1
        <5> QED
          BY <5>1
      <4>2. CASE ~(j < k)
        <5>1. j - 1 \in 1..(n - 1) /\ ~(j - 1 < k) /\ (j - 1) + 1 = j
          BY <2>0, <2>1, <3>2, <4>2
        <5>2. w[j - 1] = list[j]
          BY <2>3, <5>1
        <5> QED
          BY <5>1, <5>2
      <4> QED
        BY <4>1, <4>2
    <3>4. PICK i \in 1..(n - 1) : w[i] = list[j]
      BY <3>3
    <3>5. e \in IdsIn(w) /\ PathIn(w, e) = w[i].path
      BY <2>3, <2>4, <2>7, <3>1, <3>4, OnlyEntry
    <3>6. PathIn(list, e) = list[j].path
      BY <2>0, <3>1, OnlyEntry
    <3> QED
      BY <3>4, <3>5, <3>6
  <2>10. IdsIn(w) = IdsIn(list) \ {d}
    <3>1. IdsIn(w) \subseteq IdsIn(list) \ {d}
      BY <2>4, <2>8 DEF IdsIn
    <3> QED
      BY <2>9, <3>1
  <2>11. Len(w) <= Len(list)
    BY <2>0, <2>3 DEF n
  <2> QED
    BY <2>3, <2>7, <2>9, <2>10, <2>11 DEF w
<1> QED
  BY <1>1, <1>2

\* recordOpened puts its entry first, and what it keeps of the others it keeps
\* as it is.
LEMMA RecordedFacts ==
    ASSUME NEW list \in Seq(Entry), Readable(list), NEW e \in Entry
    PROVE  /\ Recorded(list, e) \in Seq(Entry) /\ Readable(Recorded(list, e))
           /\ e.id \in IdsIn(Recorded(list, e)) /\ PathIn(Recorded(list, e), e.id) = e.path
           /\ \A d \in IdsIn(Recorded(list, e)) \ {e.id} :
                 d \in IdsIn(list) /\ PathIn(Recorded(list, e), d) = PathIn(list, d)
<1> DEFINE w == Without(list, e.id)
           v == <<e>> \o w
           m == Shortest(MaxEntries, Len(v))
           r == SubSeq(v, 1, m)
<1>1. /\ w \in Seq(Entry) /\ Readable(w) /\ IdsIn(w) = IdsIn(list) \ {e.id}
      /\ \A d \in IdsIn(list) \ {e.id} : PathIn(w, d) = PathIn(list, d)
  BY WithoutFacts
<1>2. Recorded(list, e) = r
  BY DEF Recorded
<1>3. e.id \notin IdsIn(w)
  BY <1>1
<1> HIDE DEF w
<1>4. Len(w) \in Nat /\ DOMAIN w = 1..Len(w) /\ \A i \in 1..Len(w) : w[i] \in Entry
  BY <1>1, ListFacts
<1>5. <<e>> \in Seq(Entry) /\ Len(<<e>>) = 1 /\ <<e>>[1] = e
  OBVIOUS
<1>6. /\ v \in Seq(Entry) /\ Len(v) = 1 + Len(w)
      /\ \A i \in 1..(1 + Len(w)) : v[i] = IF i <= 1 THEN <<e>>[i] ELSE w[i - 1]
  <2>1. /\ v \in Seq(Entry) /\ Len(v) = Len(<<e>>) + Len(w)
        /\ \A i \in 1..(Len(<<e>>) + Len(w)) :
              v[i] = IF i <= Len(<<e>>) THEN <<e>>[i] ELSE w[i - Len(<<e>>)]
    BY <1>1, <1>5, ConcatProperties
  <2> QED
    BY <1>5, <2>1
<1> HIDE DEF v
<1>7. /\ m \in Nat \ {0} /\ m <= MaxEntries /\ m <= 1 + Len(w)
  BY <1>4, <1>6 DEF Shortest
<1> HIDE DEF m
<1>8. r \in Seq(Entry) /\ Len(r) = m /\ \A i \in 1..m : r[i] = v[i]
  <2>1. \A i \in 1..m : v[i] \in Entry
    <3>1. DOMAIN v = 1..(1 + Len(w)) /\ \A i \in DOMAIN v : v[i] \in Entry
      BY <1>6, ListFacts
    <3> QED
      BY <1>4, <1>7, <3>1
  <2>2. r \in Seq(Entry) /\ Len(r) = (IF 1 <= m THEN m - 1 + 1 ELSE 0)
        /\ \A i \in 1..(m - 1 + 1) : r[i] = v[1 + i - 1]
    BY <1>7, <2>1, SubSeqProperties
  <2>3. ASSUME NEW i \in 1..m PROVE r[i] = v[i]
    <3>1. i \in 1..(m - 1 + 1) /\ 1 + i - 1 = i
      BY <1>7
    <3> QED
      BY <2>2, <3>1
  <2>4. Len(r) = m
    BY <1>7, <2>2
  <2> QED
    BY <2>2, <2>3, <2>4
<1> HIDE DEF r
<1>9. DOMAIN r = 1..m
  BY <1>8, ListFacts
<1>10. 1 \in 1..m /\ r[1] = e
  <2>1. 1 \in 1..m /\ 1 \in 1..(1 + Len(w))
    BY <1>4, <1>7
  <2> QED
    BY <1>5, <1>6, <1>8, <2>1
<1>11. ASSUME NEW i \in 1..m, i # 1
       PROVE  i - 1 \in 1..Len(w) /\ r[i] = w[i - 1]
  <2>1. i \in 1..(1 + Len(w)) /\ ~(i <= 1) /\ i - 1 \in 1..Len(w)
    BY <1>4, <1>7, <1>11
  <2> QED
    BY <1>6, <1>8, <2>1
<1>12. \A i \in 1..Len(w) : w[i].id # e.id
  BY <1>3, <1>4 DEF IdsIn
<1>13. Readable(r)
  <2>1. ASSUME NEW i \in 1..m, NEW j \in 1..m, r[i].id = r[j].id
        PROVE  i = j
    <3>1. CASE i = 1 \/ j = 1
      BY <1>10, <1>11, <1>12, <2>1, <3>1
    <3>2. CASE i # 1 /\ j # 1
      <4>1. i - 1 = j - 1
        BY <1>1, <1>4, <1>11, <2>1, <3>2 DEF Readable
      <4> QED
        BY <1>7, <4>1
    <3> QED
      BY <3>1, <3>2
  <2> QED
    BY <1>7, <1>8, <1>9, <2>1 DEF Readable
<1>14. e.id \in IdsIn(r) /\ PathIn(r, e.id) = e.path
  BY <1>8, <1>9, <1>10, <1>13, OnlyEntry
<1>15. ASSUME NEW d \in IdsIn(r) \ {e.id}
       PROVE  d \in IdsIn(list) /\ PathIn(r, d) = PathIn(list, d)
  <2>1. PICK i \in 1..m : r[i].id = d
    BY <1>9 DEF IdsIn
  <2>2. i - 1 \in 1..Len(w) /\ r[i] = w[i - 1]
    BY <1>10, <1>11, <2>1
  <2>3. d \in IdsIn(w) /\ PathIn(w, d) = w[i - 1].path
    BY <1>1, <1>4, <2>1, <2>2, OnlyEntry
  <2>4. PathIn(r, d) = r[i].path
    BY <1>8, <1>9, <1>13, <2>1, OnlyEntry
  <2> QED
    BY <1>1, <2>2, <2>3, <2>4
<1> QED
  BY <1>2, <1>8, <1>13, <1>14, <1>15

LEMMA RelocatedShape ==
    ASSUME NEW list \in Seq(Entry), NEW e \in Entry
    PROVE  Relocated(list, e) \in Seq(Entry)
<1>1. /\ Len(list) \in Nat /\ DOMAIN list = 1..Len(list)
      /\ \A i \in 1..Len(list) : (IF list[i].id = e.id THEN e ELSE list[i]) \in Entry
  BY ListFacts
<1> QED
  BY <1>1, IsASeq DEF Relocated

\* relocate() changes the one entry it found.
LEMMA RelocatedFacts ==
    ASSUME NEW list \in Seq(Entry), Readable(list), NEW e \in Entry, e.id \in IdsIn(list)
    PROVE  /\ Relocated(list, e) \in Seq(Entry) /\ Readable(Relocated(list, e))
           /\ IdsIn(Relocated(list, e)) = IdsIn(list)
           /\ PathIn(Relocated(list, e), e.id) = e.path
           /\ \A d \in IdsIn(list) \ {e.id} :
                 PathIn(Relocated(list, e), d) = PathIn(list, d)
<1> DEFINE n == Len(list)
           r == Relocated(list, e)
<1>1. n \in Nat /\ DOMAIN list = 1..n /\ \A i \in 1..n : list[i] \in Entry
  BY ListFacts
<1>2. r = [i \in 1..n |-> IF list[i].id = e.id THEN e ELSE list[i]]
  BY <1>1 DEF Relocated
<1> HIDE DEF n, r
<1>3. /\ r \in Seq(Entry) /\ DOMAIN r = 1..n
      /\ \A i \in 1..n : r[i] = IF list[i].id = e.id THEN e ELSE list[i]
  <2>1. r \in Seq(Entry)
    BY RelocatedShape DEF r
  <2> QED
    BY <1>2, <2>1
<1>4. Len(r) = n
  BY <1>1, <1>3
<1>5. \A i \in 1..n : r[i].id = list[i].id
  BY <1>3
<1>6. Readable(r) /\ IdsIn(r) = IdsIn(list)
  BY <1>1, <1>3, <1>4, <1>5 DEF Readable, IdsIn, n
<1>7. ASSUME NEW i \in 1..n
      PROVE  PathIn(r, list[i].id) = r[i].path /\ PathIn(list, list[i].id) = list[i].path
  BY <1>1, <1>3, <1>5, <1>6, OnlyEntry
<1>8. PathIn(r, e.id) = e.path
  BY <1>1, <1>3, <1>7 DEF IdsIn
<1>9. \A d \in IdsIn(list) \ {e.id} : PathIn(r, d) = PathIn(list, d)
  BY <1>1, <1>3, <1>7 DEF IdsIn
<1> QED
  BY <1>3, <1>6, <1>8, <1>9 DEF r

-----------------------------------------------------------------------------
(* Types: one process moves, the shared state keeps its shape *)

Lists == Edit \cup {NoFile}

SharedOK ==
    /\ folder \in [Folders -> Folder \cup {None}]
    /\ catalog \in Seq(Entry) \cup {NoFile}
    /\ backup \in Seq(Entry) \cup {NoFile}
    /\ issued \subseteq ProjectIds
    /\ remembered \in [ProjectIds -> Folders \cup {None}]
    /\ disturbed \subseteq Processes
    /\ alone \in BOOLEAN
    /\ requests \in 0..MaxRequests
    /\ faults \in 0..MaxFaults
    /\ crashes \in 0..MaxCrashes
    /\ externals \in 0..MaxExternal

LocalOK ==
    /\ pc \in [Processes -> Places]
    /\ op \in [Processes -> Operation]
    /\ session \in [Processes -> ProjectIds \cup {None}]
    /\ temp \in [Processes -> Lists]
    /\ answer \in [Processes -> Codes]

LEMMA TypedSplit == Typed <=> LocalOK /\ SharedOK /\ SessionsFit
BY DEF Typed, TypeOK, LocalOK, SharedOK, SessionsFit, Fits, Lists

\* Of all processes only p goes on.
Moves(p, x, o, s, t, c) ==
    /\ pc' = [pc EXCEPT ![p] = x]
    /\ op' = [op EXCEPT ![p] = o]
    /\ session' = [session EXCEPT ![p] = s]
    /\ temp' = [temp EXCEPT ![p] = t]
    /\ answer' = [answer EXCEPT ![p] = c]

LEMMA Same ==
    ASSUME LocalOK, NEW p \in Processes
    PROVE  /\ pc = [pc EXCEPT ![p] = pc[p]]
           /\ op = [op EXCEPT ![p] = op[p]]
           /\ session = [session EXCEPT ![p] = session[p]]
           /\ temp = [temp EXCEPT ![p] = temp[p]]
           /\ answer = [answer EXCEPT ![p] = answer[p]]
BY DEF LocalOK

LEMMA MovesTyped ==
    ASSUME Typed, NEW p \in Processes, NEW x \in Places, NEW o \in Operation,
           NEW s \in ProjectIds \cup {None}, NEW t \in Lists, NEW c \in Codes,
           Moves(p, x, o, s, t, c), Fits(x, o, s, t), SharedOK'
    PROVE  Typed'
<1>1. LocalOK /\ SessionsFit
  BY TypedSplit
<1>2. LocalOK'
  BY <1>1 DEF LocalOK, Moves
<1>3. ASSUME NEW q \in Processes
      PROVE  Fits(pc[q], op[q], session[q], temp[q])'
  <2>1. CASE q = p
    BY <1>1, <2>1 DEF Fits, Moves, LocalOK
  <2>2. CASE q # p
    <3>1. /\ pc'[q] = pc[q] /\ op'[q] = op[q]
          /\ session'[q] = session[q] /\ temp'[q] = temp[q]
      BY <1>1, <2>2 DEF Moves, LocalOK
    <3> QED
      BY <1>1, <3>1 DEF SessionsFit, Fits
  <2> QED
    BY <2>1, <2>2
<1>4. SessionsFit'
  BY <1>3 DEF SessionsFit
<1> QED
  BY <1>2, <1>4 DEF Typed, TypeOK, LocalOK, SharedOK, SessionsFit, Fits, Lists

LEMMA SharedKept ==
    ASSUME SharedOK, UNCHANGED <<shared, issued, remembered, disturbed, counted>>
    PROVE  SharedOK'
BY DEF SharedOK, shared, counted

LEMMA RequestedOK ==
    ASSUME SharedOK, NEW p \in Processes, Requested(p), issued' \subseteq ProjectIds,
           UNCHANGED <<shared, remembered, disturbed>>
    PROVE  SharedOK'
BY DEF SharedOK, Requested, shared

LEMMA EndsTyped ==
    ASSUME Typed, NEW p \in Processes, NEW o \in Operation, op' = [op EXCEPT ![p] = o],
           NEW c \in Codes, Ends(p, c), SharedOK'
    PROVE  Typed'
<1>1. Moves(p, "idle", o, None, NoFile, c)
  BY DEF Ends, Goes, Moves
<1>2. Fits("idle", o, None, NoFile)
  BY DEF Fits, Writing, Creating
<1> QED
  BY <1>1, <1>2, MovesTyped DEF Places, Lists

\* An operation that fails is over, or a creation is to be taken back.
LEMMA FailsMoves ==
    ASSUME Typed, NEW p \in Processes, ~Idle(p), UNCHANGED op,
           NEW c \in Codes, Fails(p, c)
    PROVE  \E x \in {"idle", "rollback"} :
              /\ Moves(p, x, op[p], None, NoFile, c)
              /\ Fits(x, op[p], None, NoFile)
              /\ x = "rollback" <=>
                    /\ op[p].kind = "create"
                    /\ pc[p] \notin {"staged", "checked", "rollback", "removing"}
<1>1. LocalOK /\ Fits(pc[p], op[p], session[p], temp[p])
  BY TypedSplit DEF SessionsFit
<1>2. op' = [op EXCEPT ![p] = op[p]]
  BY <1>1, Same
<1>3. op[p].kind = "create" => op[p].id # None
  BY <1>1 DEF Fits, Idle
<1>4. CASE op[p].kind = "create" /\ pc[p] \notin {"staged", "checked", "rollback", "removing"}
  BY <1>2, <1>3, <1>4 DEF Fails, Goes, Moves, Fits, Writing, Creating
<1>5. CASE ~(op[p].kind = "create" /\ pc[p] \notin {"staged", "checked", "rollback", "removing"})
  BY <1>2, <1>5 DEF Fails, Ends, Goes, Moves, Fits, Writing, Creating
<1> QED
  BY <1>4, <1>5

LEMMA FailsTyped ==
    ASSUME Typed, NEW p \in Processes, ~Idle(p), UNCHANGED op,
           NEW c \in Codes, Fails(p, c), SharedOK'
    PROVE  Typed'
<1>1. PICK x \in {"idle", "rollback"} :
         Moves(p, x, op[p], None, NoFile, c) /\ Fits(x, op[p], None, NoFile)
  BY FailsMoves
<1>2. op[p] \in Operation
  BY TypedSplit DEF LocalOK
<1> QED
  BY <1>1, <1>2, MovesTyped DEF Places, Lists

\* The operation goes on and keeps its arguments, its session and its lists.
LEMMA GoesTyped ==
    ASSUME Typed, NEW p \in Processes, NEW x \in Places, Goes(p, x), UNCHANGED <<op, local>>,
           Fits(x, op[p], session[p], temp[p]), SharedOK'
    PROVE  Typed'
<1>1. /\ LocalOK /\ op[p] \in Operation /\ session[p] \in ProjectIds \cup {None}
      /\ temp[p] \in Lists /\ answer[p] \in Codes
  BY TypedSplit DEF LocalOK
<1>2. Moves(p, x, op[p], session[p], temp[p], answer[p])
  BY <1>1, Same DEF Moves, Goes, local
<1> QED
  BY <1>1, <1>2, MovesTyped

\* It has opened a project.
LEMMA OpensTyped ==
    ASSUME Typed, NEW p \in Processes, NEW o \in Operation, op' = [op EXCEPT ![p] = o],
           NEW d \in ProjectIds, session' = [session EXCEPT ![p] = d],
           o.kind # "remove", o.kind \in {"recent", "relocate"} => d = o.id,
           o.kind \in {"create", "relocate"} => o.id # None,
           Goes(p, "opened"), UNCHANGED <<answer, temp>>, SharedOK'
    PROVE  Typed'
<1>1. LocalOK /\ temp[p] \in Lists /\ answer[p] \in Codes
  BY TypedSplit DEF LocalOK
<1>2. Moves(p, "opened", o, d, temp[p], answer[p])
  BY <1>1, Same DEF Moves, Goes
<1>3. Fits("opened", o, d, temp[p])
  BY DEF Fits, Writing, Creating
<1> QED
  BY <1>1, <1>2, <1>3, MovesTyped DEF Places

LEMMA OperationFacts ==
    ASSUME NEW kind \in {"create", "open", "recent", "relocate", "remove"},
           NEW f \in Folders, NEW d \in ProjectIds \cup {None}
    PROVE  [kind |-> kind, path |-> f, id |-> d] \in Operation
BY DEF Operation

LEMMA FolderFacts ==
    ASSUME SharedOK, NEW f \in Folders
    PROVE  /\ folder[f] \in Folder \cup {None}
           /\ IsProject(f) => folder[f].id \in ProjectIds
BY DEF SharedOK, IsProject, Folder

LEMMA ListedFacts ==
    ASSUME SharedOK
    PROVE  Listed \in Seq(Entry)
BY EmptySeq DEF SharedOK, Listed

LEMMA TypedCreates ==
    ASSUME Typed, NEW p \in Processes,
           \/ \E f \in Folders, d \in ProjectIds : BeginCreate(p, f, d)
           \/ RecheckTarget(p) \/ PublishFolder(p) \/ Rollback(p) \/ RemoveTree(p)
           \/ OpenCreated(p)
    PROVE  Typed'
<1>1. LocalOK /\ SharedOK /\ Fits(pc[p], op[p], session[p], temp[p])
  BY TypedSplit DEF SessionsFit
<1>2. op[p] \in Operation /\ op[p].path \in Folders /\ op[p].id \in ProjectIds \cup {None}
  BY <1>1 DEF LocalOK, Operation
<1>3. ASSUME NEW f \in Folders, NEW d \in ProjectIds, BeginCreate(p, f, d)
      PROVE  Typed'
  <2>1. Requested(p) /\ issued' \subseteq ProjectIds /\ UNCHANGED <<shared, remembered, disturbed>>
    BY <1>1, <1>3 DEF BeginCreate, SharedOK
  <2>2. SharedOK'
    BY <1>1, <2>1, RequestedOK
  <2>3. CASE folder[f] # None
    <3>1. op' = [op EXCEPT ![p] = [kind |-> "create", path |-> f, id |-> None]]
          /\ Ends(p, "folder_exists")
      BY <1>3, <2>3 DEF BeginCreate, Begins
    <3> QED
      BY <2>2, <3>1, EndsTyped, OperationFacts DEF Codes
  <2>4. CASE folder[f] = None
    <3> DEFINE o == [kind |-> "create", path |-> f, id |-> d]
    <3>1. op' = [op EXCEPT ![p] = o] /\ Goes(p, "staged") /\ UNCHANGED local
      BY <1>3, <2>4 DEF BeginCreate, Begins
    <3>2. o \in Operation
      BY OperationFacts
    <3>3. session[p] = None
      BY <1>1, <2>1 DEF Requested, Idle, Fits
    <3>4. Fits("staged", o, session[p], temp[p])
      BY <3>3 DEF Fits, Writing, Creating
    <3> HIDE DEF o
    <3>5. Moves(p, "staged", o, session[p], temp[p], answer[p])
      BY <1>1, <3>1, Same DEF Moves, Goes, local
    <3>6. session[p] \in ProjectIds \cup {None} /\ temp[p] \in Lists /\ answer[p] \in Codes
      BY <1>1 DEF LocalOK
    <3> QED
      BY <2>2, <3>2, <3>4, <3>5, <3>6, MovesTyped DEF Places
  <2> QED
    BY <2>3, <2>4
<1>4. CASE RecheckTarget(p)
  <2>1. SharedOK'
    BY <1>1, <1>4, SharedKept DEF RecheckTarget
  <2>2. CASE folder[op[p].path] # None
    BY <1>4, <2>1, <2>2, FailsTyped DEF RecheckTarget, Idle, Codes
  <2>3. CASE folder[op[p].path] = None
    <3>1. pc[p] = "staged" /\ Goes(p, "checked") /\ UNCHANGED <<op, local>>
      BY <1>4, <2>3 DEF RecheckTarget
    <3>2. Fits("checked", op[p], session[p], temp[p])
      BY <1>1, <3>1 DEF Fits, Creating, Writing
    <3> QED
      BY <2>1, <3>1, <3>2, GoesTyped DEF Places
  <2> QED
    BY <2>2, <2>3
<1>5. CASE PublishFolder(p)
  <2>1. pc[p] = "checked" /\ UNCHANGED op
    BY <1>5 DEF PublishFolder
  <2>2. CASE /\ folder' = [folder EXCEPT ![op[p].path] = [id |-> op[p].id, work |-> FALSE]]
             /\ Goes(p, "published") /\ UNCHANGED local
    <3>1. SharedOK'
      BY <1>1, <1>2, <1>5, <2>2 DEF PublishFolder, SharedOK, Folder, counted
    <3>2. Fits("published", op[p], session[p], temp[p])
      BY <1>1, <2>1 DEF Fits, Creating, Writing
    <3> QED
      BY <2>1, <2>2, <3>1, <3>2, GoesTyped DEF Places
  <2>3. CASE Fails(p, "creation_failure") /\ UNCHANGED folder
    <3>1. SharedOK'
      BY <1>1, <1>5, <2>3 DEF PublishFolder, SharedOK, counted
    <3> QED
      BY <2>1, <2>3, <3>1, FailsTyped DEF Idle, Codes
  <2> QED
    BY <1>5, <2>2, <2>3 DEF PublishFolder
<1>6. CASE Rollback(p)
  <2>1. SharedOK'
    BY <1>1, <1>6 DEF Rollback, SharedOK, shared, counted
  <2>2. PICK x \in {"removing", "idle"} : Goes(p, x)
    BY <1>6 DEF Rollback
  <2>3. Fits(x, op[p], session[p], temp[p])
    BY <1>1, <1>6 DEF Rollback, Fits, Creating, Writing
  <2> QED
    BY <1>6, <2>1, <2>2, <2>3, GoesTyped DEF Rollback, Places
<1>7. CASE RemoveTree(p)
  <2>1. SharedOK'
    BY <1>1, <1>2, <1>7 DEF RemoveTree, SharedOK, counted, Removing
  <2>2. Fits("idle", op[p], session[p], temp[p])
    BY <1>1, <1>7 DEF RemoveTree, Fits, Creating, Writing
  <2> QED
    BY <1>7, <2>1, <2>2, GoesTyped DEF RemoveTree, Places
<1>8. CASE OpenCreated(p)
  <2>1. SharedOK'
    BY <1>1, <1>8, SharedKept DEF OpenCreated
  <2>2. CASE IsProject(op[p].path)
    <3>1. folder[op[p].path].id \in ProjectIds
      BY <1>1, <1>2, <2>2, FolderFacts
    <3>2. op' = [op EXCEPT ![p] = op[p]]
      BY <1>1, <1>8, Same DEF OpenCreated
    <3>3. op[p].kind = "create" /\ op[p].id # None
      BY <1>1, <1>8 DEF OpenCreated, Fits, Creating
    <3> QED
      BY <1>2, <1>8, <2>1, <2>2, <3>1, <3>2, <3>3, OpensTyped DEF OpenCreated
  <2>3. CASE ~IsProject(op[p].path)
    BY <1>8, <2>1, <2>3, FailsTyped DEF OpenCreated, Idle, Codes
  <2> QED
    BY <2>2, <2>3
<1> QED
  BY <1>3, <1>4, <1>5, <1>6, <1>7, <1>8

LEMMA TypedLocates ==
    ASSUME Typed, NEW p \in Processes, NEW d \in ProjectIds, pc[p] \in {"idle", "relocated"},
           NEW kind \in {"recent", "relocate"}, Locates(p, kind, d), SharedOK'
    PROVE  Typed'
<1>1. LocalOK /\ SharedOK /\ Fits(pc[p], op[p], session[p], temp[p])
  BY TypedSplit DEF SessionsFit
<1>2. op[p].path \in Folders
  BY <1>1 DEF LocalOK, Operation
<1>3. CASE d \in IdsIn(Listed)
  <2> DEFINE f == PathIn(Listed, d)
             o == [kind |-> kind, path |-> f, id |-> d]
  <2>1. op' = [op EXCEPT ![p] = o] /\ Goes(p, "located") /\ UNCHANGED local
    BY <1>3 DEF Locates, Begins
  <2>2. f \in Folders
    BY <1>1, <1>3, ListedFacts, PositionFacts
  <2> HIDE DEF f
  <2>3. o \in Operation
    BY <2>2, OperationFacts
  <2>4. session[p] = None
    BY <1>1 DEF Fits
  <2>5. Fits("located", o, session[p], temp[p])
    BY <2>4 DEF Fits, Writing, Creating
  <2> HIDE DEF o
  <2>6. Moves(p, "located", o, session[p], temp[p], answer[p])
    BY <1>1, <2>1, Same DEF Moves, Goes, local
  <2>7. session[p] \in ProjectIds \cup {None} /\ temp[p] \in Lists /\ answer[p] \in Codes
    BY <1>1 DEF LocalOK
  <2> QED
    BY <2>3, <2>5, <2>6, <2>7, MovesTyped DEF Places
<1>4. CASE d \notin IdsIn(Listed)
  <2>1. op' = [op EXCEPT ![p] = [kind |-> kind, path |-> op[p].path, id |-> d]]
        /\ Ends(p, "recent_entry_not_found")
    BY <1>4 DEF Locates, Begins
  <2> QED
    BY <1>2, <2>1, EndsTyped, OperationFacts DEF Codes
<1> QED
  BY <1>3, <1>4

LEMMA TypedOpens ==
    ASSUME Typed, NEW p \in Processes,
           \/ \E f \in Folders : OpenFolder(p, f)
           \/ \E d \in ProjectIds : OpenRecent(p, d)
           \/ OpenLocated(p) \/ OpenRelocated(p)
    PROVE  Typed'
<1>1. LocalOK /\ SharedOK /\ Fits(pc[p], op[p], session[p], temp[p])
  BY TypedSplit DEF SessionsFit
<1>2. op[p] \in Operation /\ op[p].path \in Folders /\ op[p].id \in ProjectIds \cup {None}
  BY <1>1 DEF LocalOK, Operation
<1>3. ASSUME NEW f \in Folders, OpenFolder(p, f)
      PROVE  Typed'
  <2>1. SharedOK'
    <3>1. issued' \subseteq ProjectIds
      BY <1>1, <1>3 DEF OpenFolder, SharedOK
    <3> QED
      BY <1>1, <1>3, <3>1, RequestedOK DEF OpenFolder
  <2>2. CASE IsProject(f)
    <3> DEFINE d == folder[f].id
               o == [kind |-> "open", path |-> f, id |-> d]
    <3>1. d \in ProjectIds
      BY <1>1, <2>2, FolderFacts
    <3>2. /\ op' = [op EXCEPT ![p] = o] /\ session' = [session EXCEPT ![p] = d]
          /\ Goes(p, "opened") /\ UNCHANGED <<answer, temp>>
      BY <1>3, <2>2 DEF OpenFolder, Begins
    <3> HIDE DEF d
    <3>3. o \in Operation /\ o.kind = "open"
      BY <3>1, OperationFacts
    <3> HIDE DEF o
    <3> QED
      BY <2>1, <3>1, <3>2, <3>3, OpensTyped
  <2>3. CASE ~IsProject(f)
    <3>1. op' = [op EXCEPT ![p] = [kind |-> "open", path |-> f, id |-> None]]
          /\ Ends(p, "session_failure")
      BY <1>3, <2>3 DEF OpenFolder, Begins
    <3> QED
      BY <2>1, <3>1, EndsTyped, OperationFacts DEF Codes
  <2> QED
    BY <2>2, <2>3
<1>4. ASSUME NEW d \in ProjectIds, OpenRecent(p, d)
      PROVE  Typed'
  <2>1. issued' \subseteq ProjectIds
    BY <1>1, <1>4 DEF OpenRecent, SharedOK
  <2>2. SharedOK'
    BY <1>1, <1>4, <2>1, RequestedOK DEF OpenRecent
  <2>3. pc[p] = "idle" /\ Locates(p, "recent", d)
    BY <1>4 DEF OpenRecent, Requested, Idle
  <2> QED
    BY <2>2, <2>3, TypedLocates
<1>5. CASE OpenLocated(p)
  <2>1. SharedOK'
    BY <1>1, <1>5, SharedKept DEF OpenLocated
  <2>2. op' = [op EXCEPT ![p] = op[p]]
    BY <1>1, <1>5, Same DEF OpenLocated
  <2>3. ASSUME NEW c \in Codes, Ends(p, c) PROVE Typed'
    BY <1>2, <2>1, <2>2, <2>3, EndsTyped
  <2>4. CASE IsProject(op[p].path) /\ folder[op[p].path].id = op[p].id
    <3>1. op[p].id \in ProjectIds
      BY <1>1, <1>2, <2>4, FolderFacts
    <3>2. session' = [session EXCEPT ![p] = op[p].id] /\ Goes(p, "opened") /\ UNCHANGED <<answer, temp>>
      BY <1>5, <2>4 DEF OpenLocated
    <3>3. /\ op[p].kind \in {"create", "relocate"} => op[p].id # None
          /\ op[p].kind # "remove"
      BY <1>1, <1>5, <3>1 DEF OpenLocated, Fits, Writing
    <3> QED
      BY <1>2, <2>1, <2>2, <3>1, <3>2, <3>3, OpensTyped
  <2>5. CASE ~(IsProject(op[p].path) /\ folder[op[p].path].id = op[p].id)
    <3>1. \E c \in Codes : Ends(p, c)
      BY <1>5, <2>5 DEF OpenLocated, Codes
    <3> QED
      BY <2>3, <3>1
  <2> QED
    BY <2>4, <2>5
<1>6. CASE OpenRelocated(p)
  <2>1. SharedOK'
    BY <1>1, <1>6, SharedKept DEF OpenRelocated
  <2>2. pc[p] = "relocated" /\ Locates(p, "relocate", op[p].id) /\ op[p].id \in ProjectIds
    BY <1>1, <1>2, <1>6 DEF OpenRelocated, Fits
  <2> QED
    BY <2>1, <2>2, TypedLocates
<1> QED
  BY <1>3, <1>4, <1>5, <1>6

LEMMA EditFacts ==
    ASSUME NEW base \in Seq(Entry), NEW list \in Seq(Entry)
    PROVE  /\ [base |-> base, list |-> list] \in Lists
           /\ [base |-> base, list |-> list] # NoFile
BY NoFolderAssumption DEF Lists, Edit

\* What Edits writes into the state of p, by the operation it belongs to.
LEMMA EditsTyped ==
    ASSUME Typed, NEW p \in Processes, NEW o \in Operation, op' = [op EXCEPT ![p] = o],
           NEW base \in Seq(Entry), NEW list \in Seq(Entry), Edits(p, base, list),
           o.kind \notin {"remove", "relocate"} => session[p] # None,
           o.kind = "relocate" => session[p] \in {None, o.id},
           o.kind = "recent" => session[p] = o.id,
           o.kind \in {"create", "relocate"} => o.id # None, SharedOK'
    PROVE  Typed'
<1>1. LocalOK /\ session[p] \in ProjectIds \cup {None} /\ answer[p] \in Codes
  BY TypedSplit DEF LocalOK
<1> DEFINE t == [base |-> base, list |-> list]
<1>2. t \in Lists /\ t # NoFile
  BY EditFacts
<1>3. temp' = [temp EXCEPT ![p] = t] /\ Goes(p, "temp") /\ UNCHANGED <<session, answer>>
  BY DEF Edits
<1> HIDE DEF t
<1>4. Moves(p, "temp", o, session[p], t, answer[p])
  BY <1>1, <1>3, Same DEF Moves, Goes
<1>5. Fits("temp", o, session[p], t)
  BY <1>2 DEF Fits, Writing, Creating
<1> QED
  BY <1>1, <1>2, <1>4, <1>5, MovesTyped DEF Places

LEMMA TypedEdits ==
    ASSUME Typed, ListsGood, NEW p \in Processes,
           \/ RecordOpened(p) \/ Relocate(p)
           \/ \E d \in ProjectIds : RemoveRecent(p, d)
           \/ \E f \in Folders, d \in ProjectIds : BeginRelocate(p, d, f)
    PROVE  Typed'
<1>1. LocalOK /\ SharedOK /\ Fits(pc[p], op[p], session[p], temp[p])
  BY TypedSplit DEF SessionsFit
<1>2. op[p] \in Operation /\ op[p].path \in Folders /\ op[p].id \in ProjectIds \cup {None}
  BY <1>1 DEF LocalOK, Operation
<1>3. Listed \in Seq(Entry) /\ Readable(Listed)
  <2>1. Readable(<<>>)
    BY DEF Readable
  <2> QED
    BY <1>1, <2>1, ListedFacts DEF ListsGood, Good, Listed
<1>4. op = [op EXCEPT ![p] = op[p]]
  BY <1>1, Same
<1>5. CASE RecordOpened(p)
  <2>1. SharedOK' /\ UNCHANGED op /\ pc[p] = "opened"
    BY <1>1, <1>5, SharedKept DEF RecordOpened
  <2> DEFINE e == [id |-> session[p], path |-> op[p].path]
  <2>2. session[p] # None
    BY <1>1, <2>1 DEF Fits
  <2>3. e \in Entry
    BY <1>1, <1>2, <2>2 DEF LocalOK, Entry
  <2>4. CASE Fails(p, "identity_conflict")
    BY <2>1, <2>4, FailsTyped DEF Idle, Codes
  <2>5. CASE Edits(p, Listed, Recorded(Listed, e))
    <3> HIDE DEF e
    <3>1. Recorded(Listed, e) \in Seq(Entry)
      BY <1>3, <2>3, RecordedFacts
    <3>2. /\ op[p].kind = "relocate" => session[p] \in {None, op[p].id}
          /\ op[p].kind = "recent" => session[p] = op[p].id
          /\ op[p].kind \in {"create", "relocate"} => op[p].id # None
      BY <1>1, <2>1, <2>2 DEF Fits
    <3> QED
      BY <1>2, <1>3, <1>4, <2>1, <2>2, <2>5, <3>1, <3>2, EditsTyped
  <2> QED
    BY <1>5, <2>4, <2>5 DEF RecordOpened
<1>6. CASE Relocate(p)
  <2>1. SharedOK' /\ UNCHANGED op /\ pc[p] = "locating"
    BY <1>1, <1>6, SharedKept DEF Relocate
  <2>2. temp[p] \in Edit /\ Readable(temp[p].base) /\ session[p] = None
        /\ op[p].kind = "relocate" /\ op[p].id # None
    BY <1>1, <2>1 DEF LocalOK, Lists, Fits, ListsGood, Good
  <2>3. ASSUME NEW c \in Codes, Ends(p, c) PROVE Typed'
    BY <1>2, <1>4, <2>1, <2>3, EndsTyped
  <2> DEFINE e == [id |-> op[p].id, path |-> op[p].path]
             base == temp[p].base
  <2>4. CASE IsProject(op[p].path) /\ folder[op[p].path].id = op[p].id
    <3>1. e \in Entry
      BY <1>1, <1>2, <2>4, FolderFacts DEF Entry
    <3>2. Edits(p, base, Relocated(base, e))
      BY <1>6, <2>4 DEF Relocate
    <3>3. base \in Seq(Entry)
      BY <2>2 DEF Edit
    <3> HIDE DEF e, base
    <3>4. Relocated(base, e) \in Seq(Entry)
      BY <3>1, <3>3, RelocatedShape
    <3> QED
      BY <1>2, <1>4, <2>1, <2>2, <3>2, <3>3, <3>4, EditsTyped
  <2>5. CASE ~(IsProject(op[p].path) /\ folder[op[p].path].id = op[p].id)
    <3>1. \E c \in Codes : Ends(p, c)
      BY <1>6, <2>5 DEF Relocate, Codes
    <3> QED
      BY <2>3, <3>1
  <2> QED
    BY <2>4, <2>5
<1>7. ASSUME NEW d \in ProjectIds, RemoveRecent(p, d)
      PROVE  Typed'
  <2>1. Idle(p) /\ SharedOK'
    <3>1. issued' \subseteq ProjectIds
      BY <1>1, <1>7 DEF RemoveRecent, SharedOK
    <3> QED
      BY <1>1, <1>7, <3>1, RequestedOK DEF RemoveRecent, Requested
  <2>2. CASE d \in IdsIn(Listed)
    <3> DEFINE o == [kind |-> "remove", path |-> PathIn(Listed, d), id |-> d]
    <3>1. op' = [op EXCEPT ![p] = o] /\ Edits(p, Listed, Without(Listed, d))
      BY <1>7, <2>2 DEF RemoveRecent, Begins
    <3>2. o \in Operation /\ o.kind = "remove"
      BY <1>3, <2>2, PositionFacts, OperationFacts
    <3> HIDE DEF o
    <3>3. Without(Listed, d) \in Seq(Entry)
      BY <1>3, WithoutFacts
    <3> QED
      BY <1>3, <2>1, <3>1, <3>2, <3>3, EditsTyped
  <2>3. CASE d \notin IdsIn(Listed)
    <3>1. op' = [op EXCEPT ![p] = [kind |-> "remove", path |-> op[p].path, id |-> d]]
          /\ Ends(p, "removed")
      BY <1>7, <2>3 DEF RemoveRecent, Begins
    <3> QED
      BY <1>2, <2>1, <3>1, EndsTyped, OperationFacts DEF Codes
  <2> QED
    BY <2>2, <2>3
<1>8. ASSUME NEW f \in Folders, NEW d \in ProjectIds, BeginRelocate(p, d, f)
      PROVE  Typed'
  <2>1. Idle(p) /\ SharedOK'
    <3>1. issued' \subseteq ProjectIds
      BY <1>1, <1>8 DEF BeginRelocate, SharedOK
    <3> QED
      BY <1>1, <1>8, <3>1, RequestedOK DEF BeginRelocate, Requested
  <2> DEFINE o == [kind |-> "relocate", path |-> f, id |-> d]
             t == [base |-> Listed, list |-> <<>>]
  <2>2. op' = [op EXCEPT ![p] = o] /\ o \in Operation
    BY <1>8, OperationFacts DEF BeginRelocate, Begins
  <2>3. CASE d \in IdsIn(Listed)
    <3>1. Goes(p, "locating") /\ temp' = [temp EXCEPT ![p] = t] /\ UNCHANGED <<session, answer>>
      BY <1>8, <2>3 DEF BeginRelocate
    <3>2. t \in Lists /\ t # NoFile
      <4>1. <<>> \in Seq(Entry)
        BY EmptySeq
      <4> QED
        BY <1>3, <4>1, EditFacts
    <3>3. session[p] = None /\ answer[p] \in Codes
      BY <1>1, <2>1 DEF Idle, Fits, LocalOK
    <3>4. Fits("locating", o, None, t)
      BY <3>2, HubAssumption DEF Fits, Writing, Creating
    <3> HIDE DEF o, t
    <3>5. Moves(p, "locating", o, None, t, answer[p])
      BY <1>1, <2>2, <3>1, <3>3, Same DEF Moves, Goes
    <3> QED
      BY <2>1, <2>2, <3>2, <3>3, <3>4, <3>5, MovesTyped DEF Places
  <2>4. CASE d \notin IdsIn(Listed)
    <3>1. Ends(p, "entry_not_found")
      BY <1>8, <2>4 DEF BeginRelocate
    <3> HIDE DEF o
    <3> QED
      BY <2>1, <2>2, <3>1, EndsTyped DEF Codes
  <2> QED
    BY <2>3, <2>4
<1> QED
  BY <1>5, <1>6, <1>7, <1>8

\* The catalog is written; all that Remembers says of the shape is a place or None.
LEMMA WrittenTyped ==
    ASSUME Typed, NEW p \in Processes, pc[p] \in {"fresh", "cleanup"}, UNCHANGED op, Written(p),
           remembered' \in [ProjectIds -> Folders \cup {None}] => SharedOK'
    PROVE  Typed'
<1>1. LocalOK /\ SharedOK /\ Fits(pc[p], op[p], session[p], temp[p])
  BY TypedSplit DEF SessionsFit
<1>2. /\ op[p] \in Operation /\ op[p].path \in Folders
      /\ op[p].kind \in {"create", "open", "recent", "relocate", "remove"}
  BY <1>1 DEF LocalOK, Operation
<1>3. SharedOK'
  BY <1>1, <1>2 DEF Written, Remembers, SharedOK
<1>4. op' = [op EXCEPT ![p] = op[p]]
  BY <1>1, Same
<1>5. CASE op[p].kind = "remove"
  <2>1. Ends(p, "removed")
    BY <1>5 DEF Written
  <2> QED
    BY <1>2, <1>3, <1>4, <2>1, EndsTyped DEF Codes
<1>6. CASE op[p].kind = "relocate" /\ session[p] = None
  <2>1. Goes(p, "relocated") /\ temp' = [temp EXCEPT ![p] = NoFile] /\ UNCHANGED <<answer, session>>
    BY <1>6 DEF Written
  <2>2. Moves(p, "relocated", op[p], session[p], NoFile, answer[p])
    BY <1>1, <1>4, <2>1, Same DEF Moves, Goes
  <2>3. Fits("relocated", op[p], session[p], NoFile)
    <3>1. op[p].id # None
      BY <1>1, <1>6 DEF Fits
    <3> QED
      BY <1>6, <3>1 DEF Fits, Writing, Creating
  <2>4. session[p] \in ProjectIds \cup {None} /\ answer[p] \in Codes
    BY <1>1 DEF LocalOK
  <2> QED
    BY <1>2, <1>3, <2>2, <2>3, <2>4, MovesTyped DEF Places, Lists
<1>7. CASE op[p].kind # "remove" /\ ~(op[p].kind = "relocate" /\ session[p] = None)
  <2>1. Goes(p, "active") /\ temp' = [temp EXCEPT ![p] = NoFile]
        /\ answer' = [answer EXCEPT ![p] = "opened"] /\ UNCHANGED session
    BY <1>7 DEF Written
  <2>2. Moves(p, "active", op[p], session[p], NoFile, "opened")
    BY <1>1, <1>4, <2>1, Same DEF Moves, Goes
  <2>3. Fits("active", op[p], session[p], NoFile)
    BY <1>1, <1>7 DEF Fits, Writing, Creating
  <2>4. session[p] \in ProjectIds \cup {None}
    BY <1>1 DEF LocalOK
  <2> QED
    BY <1>2, <1>3, <2>2, <2>3, <2>4, MovesTyped DEF Places, Lists, Codes
<1> QED
  BY <1>5, <1>6, <1>7

LEMMA TypedWrites ==
    ASSUME Typed, NEW p \in Processes,
           \/ DropBackup(p) \/ InspectCatalog(p) \/ StagePrevious(p)
           \/ PublishCatalog(p) \/ CleanBackup(p) \/ RestorePrevious(p)
    PROVE  Typed'
<1>1. LocalOK /\ SharedOK /\ Fits(pc[p], op[p], session[p], temp[p])
  BY TypedSplit DEF SessionsFit
\* Within a write the place does not matter to what is held.
<1>2. ASSUME NEW x \in Writing, pc[p] \in Writing PROVE x \in Places /\ Fits(x, op[p], session[p], temp[p])
  BY <1>1, <1>2 DEF Fits, Writing, Creating, Places
<1>3. CASE DropBackup(p)
  <2>1. SharedOK'
    BY <1>1, <1>3 DEF DropBackup, SharedOK, counted
  <2>2. "dropped" \in Writing /\ pc[p] \in Writing
    BY <1>3 DEF DropBackup, Writing
  <2> QED
    BY <1>2, <1>3, <2>1, <2>2, GoesTyped DEF DropBackup
<1>4. CASE InspectCatalog(p)
  <2>1. SharedOK'
    BY <1>1, <1>4, SharedKept DEF InspectCatalog
  <2>2. PICK x \in {"fresh", "inspected"} : Goes(p, x)
    BY <1>4 DEF InspectCatalog
  <2>3. x \in Writing /\ pc[p] \in Writing
    BY <1>4 DEF InspectCatalog, Writing
  <2> QED
    BY <1>2, <1>4, <2>1, <2>2, <2>3, GoesTyped DEF InspectCatalog
<1>5. CASE StagePrevious(p)
  <2>1. SharedOK'
    BY <1>1, <1>5 DEF StagePrevious, SharedOK, counted
  <2>2. pc[p] = "inspected" /\ UNCHANGED op
    BY <1>5 DEF StagePrevious
  <2>3. CASE catalog = NoFile
    BY <1>5, <2>1, <2>2, <2>3, FailsTyped DEF StagePrevious, Idle, Codes
  <2>4. CASE catalog # NoFile
    <3>1. Goes(p, "previous") /\ UNCHANGED local
      BY <1>5, <2>4 DEF StagePrevious
    <3>2. "previous" \in Writing /\ pc[p] \in Writing
      BY <2>2 DEF Writing
    <3> QED
      BY <1>2, <2>1, <2>2, <3>1, <3>2, GoesTyped
  <2> QED
    BY <2>3, <2>4
<1>6. CASE PublishCatalog(p)
  <2>1. pc[p] \in {"fresh", "previous"} /\ UNCHANGED op
    BY <1>6 DEF PublishCatalog
  <2>2. temp[p].list \in Seq(Entry)
    BY <1>1, <2>1 DEF Fits, Writing, LocalOK, Lists, Edit
  <2>3. remembered' \in [ProjectIds -> Folders \cup {None}] => SharedOK'
    BY <1>1, <1>6, <2>2 DEF PublishCatalog, SharedOK, counted
  <2>4. CASE pc[p] = "fresh"
    <3>1. Written(p)
      BY <1>6, <2>4 DEF PublishCatalog
    <3> QED
      BY <2>1, <2>3, <2>4, <3>1, WrittenTyped
  <2>5. CASE pc[p] = "previous"
    <3>1. Goes(p, "cleanup") /\ UNCHANGED <<local, remembered>>
      BY <1>6, <2>5 DEF PublishCatalog
    <3>2. "cleanup" \in Writing /\ pc[p] \in Writing
      BY <2>1 DEF Writing
    <3>3. SharedOK'
      BY <1>1, <2>3, <3>1 DEF SharedOK
    <3> QED
      BY <1>2, <2>1, <3>1, <3>2, <3>3, GoesTyped
  <2> QED
    BY <2>1, <2>4, <2>5
<1>7. CASE CleanBackup(p)
  <2>1. remembered' \in [ProjectIds -> Folders \cup {None}] => SharedOK'
    BY <1>1, <1>7 DEF CleanBackup, SharedOK, counted
  <2> QED
    BY <1>7, <2>1, WrittenTyped DEF CleanBackup
<1>8. CASE RestorePrevious(p)
  <2>1. SharedOK'
    BY <1>1, <1>8 DEF RestorePrevious, SharedOK, counted
  <2> QED
    BY <1>8, <2>1, FailsTyped DEF RestorePrevious, Idle, Codes
<1> QED
  BY <1>3, <1>4, <1>5, <1>6, <1>7, <1>8

LEMMA TypedTroubles ==
    ASSUME Typed, NEW p \in Processes, IoFails(p) \/ CloseProject(p) \/ Crash(p)
    PROVE  Typed'
<1>1. LocalOK /\ SharedOK /\ Fits(pc[p], op[p], session[p], temp[p])
  BY TypedSplit DEF SessionsFit
<1>2. op[p] \in Operation
  BY <1>1 DEF LocalOK
<1>3. op = [op EXCEPT ![p] = op[p]]
  BY <1>1, Same
<1>4. CASE IoFails(p)
  <2>1. remembered' \in [ProjectIds -> Folders \cup {None}] => SharedOK'
    <3>1. /\ faults < MaxFaults /\ faults' = faults + 1
          /\ UNCHANGED <<shared, issued, disturbed, alone, requests, crashes, externals>>
      BY <1>4 DEF IoFails
    <3>2. faults' \in 0..MaxFaults
      BY <1>1, <3>1 DEF SharedOK
    <3> QED
      BY <1>1, <3>1, <3>2 DEF SharedOK, shared
  <2>2. UNCHANGED op
    BY <1>4 DEF IoFails
  <2>3. UNCHANGED remembered => SharedOK'
    BY <1>1, <2>1 DEF SharedOK
  <2>4. ASSUME ~Idle(p), Fails(p, "io_failure"), UNCHANGED remembered
        PROVE  Typed'
    BY <2>2, <2>3, <2>4, FailsTyped DEF Codes
  <2>5. ASSUME NEW x \in {"dropped", "restoring", "idle"}, Goes(p, x), UNCHANGED <<local, remembered>>,
               Fits(x, op[p], session[p], temp[p])
        PROVE  Typed'
    BY <2>2, <2>3, <2>5, GoesTyped DEF Places
  <2>6. CASE pc[p] = "temp" /\ Goes(p, "dropped") /\ UNCHANGED <<local, remembered>>
    <3>1. Fits("dropped", op[p], session[p], temp[p])
      BY <1>1, <2>6 DEF Fits, Writing, Creating
    <3> QED
      BY <2>5, <2>6, <3>1
  <2>7. CASE pc[p] = "previous" /\ Goes(p, "restoring") /\ UNCHANGED <<local, remembered>>
    <3>1. Fits("restoring", op[p], session[p], temp[p])
      BY <1>1, <2>7 DEF Fits, Writing, Creating
    <3> QED
      BY <2>5, <2>7, <3>1
  <2>8. CASE pc[p] = "cleanup" /\ Written(p)
    BY <2>1, <2>2, <2>8, WrittenTyped
  <2>9. CASE pc[p] \in {"rollback", "removing"} /\ Goes(p, "idle") /\ UNCHANGED <<local, remembered>>
    <3>1. Fits("idle", op[p], session[p], temp[p])
      BY <1>1, <2>9 DEF Fits, Writing, Creating
    <3> QED
      BY <2>5, <2>9, <3>1
  <2>10. CASE ~Idle(p) /\ Fails(p, "io_failure") /\ UNCHANGED remembered
    BY <2>4, <2>10
  <2> QED
    BY <1>4, <2>6, <2>7, <2>8, <2>9, <2>10 DEF IoFails, Idle
<1>5. CASE CloseProject(p)
  <2>1. SharedOK'
    BY <1>1, <1>5, SharedKept DEF CloseProject
  <2> QED
    BY <1>2, <1>3, <1>5, <2>1, EndsTyped DEF CloseProject, Codes
<1>6. CASE Crash(p)
  <2>1. /\ crashes < MaxCrashes /\ crashes' = crashes + 1
        /\ UNCHANGED <<shared, op, issued, remembered, disturbed, alone, requests, faults, externals>>
    BY <1>6 DEF Crash
  <2>2. crashes' \in 0..MaxCrashes
    BY <1>1, <2>1 DEF SharedOK
  <2>3. SharedOK'
    BY <1>1, <2>1, <2>2 DEF SharedOK, shared
  <2> QED
    BY <1>2, <1>3, <1>6, <2>3, EndsTyped DEF Crash, Codes
<1> QED
  BY <1>4, <1>5, <1>6

LEMMA TypedExternal ==
    ASSUME Typed, External PROVE Typed'
<1>1. LocalOK /\ SharedOK /\ SessionsFit
  BY TypedSplit
<1>2. UNCHANGED <<catalog, backup, pc, op, local, issued, remembered, alone, requests, faults, crashes>>
  BY DEF External
<1>3. externals' \in 0..MaxExternal
  BY <1>1 DEF External, SharedOK
<1>4. folder' \in [Folders -> Folder \cup {None}] /\ disturbed' \subseteq Processes
  <2>1. PICK f \in Folders, g \in Folders :
          /\ \/ /\ folder[f] = None
                /\ folder' = [folder EXCEPT ![f] = [id |-> None, work |-> FALSE]]
             \/ /\ folder[f] # None
                /\ folder' = [folder EXCEPT ![f].work = TRUE]
             \/ /\ folder[f] # None
                /\ folder' = [folder EXCEPT ![f] = None]
             \/ /\ folder[f] # None /\ folder[g] = None
                /\ folder' = [folder EXCEPT ![g] = folder[f]]
             \/ /\ folder[f] # None /\ folder[g] = None
                /\ folder' = [folder EXCEPT ![g] = folder[f], ![f] = None]
          /\ disturbed' = disturbed \cup Removing(f) \cup Removing(g)
    BY DEF External
  <2>2. disturbed' \subseteq Processes
    BY <1>1, <2>1 DEF SharedOK, Removing
  <2>3. folder[f] \in Folder \cup {None} /\ [id |-> None, work |-> FALSE] \in Folder
    BY <1>1 DEF SharedOK, Folder
  <2>4. folder[f] # None => [folder[f] EXCEPT !.work = TRUE] \in Folder
    BY <2>3 DEF Folder
  <2>5. folder \in [Folders -> Folder \cup {None}]
    BY <1>1 DEF SharedOK
  <2> QED
    BY <2>1, <2>2, <2>3, <2>4, <2>5
<1>5. LocalOK' /\ SharedOK' /\ SessionsFit'
  BY <1>1, <1>2, <1>3, <1>4 DEF LocalOK, SharedOK, SessionsFit, Fits, local
<1> QED
  BY <1>5 DEF Typed, TypeOK, LocalOK, SharedOK, SessionsFit, Fits, Lists

-----------------------------------------------------------------------------
(* What a step may put into the lists, the sessions and the folders *)

ListFlow ==
    /\ \/ catalog' \in {catalog, NoFile, backup}
       \/ \E p \in Processes : temp[p] # NoFile /\ catalog' = temp[p].list
    /\ backup' \in {backup, NoFile, catalog}
    /\ \A q \in Processes :
          \/ temp'[q] \in {temp[q], NoFile}
          \/ \E base, list \in Seq(Entry) :
                /\ Good(base) /\ Good(list)
                /\ temp'[q] = [base |-> base, list |-> list]

IdFlow ==
    /\ issued \subseteq issued'
    /\ \A q \in Processes : session'[q] \in {session[q], None} \cup FolderIds
    /\ FolderIds' \subseteq
          FolderIds \cup {None} \cup {op[p].id : p \in {q \in Processes : Creation(q)}}
    /\ \/ \A q \in Processes : Creation(q)' => op'[q] = op[q]
       \/ \E p \in Processes, f \in Folders, d \in ProjectIds :
             /\ d \notin issued /\ d \in issued'
             /\ op' = [op EXCEPT ![p] = [kind |-> "create", path |-> f, id |-> d]]

\* p keeps or drops its lists, and it opens no project but one that is there.
KeepsLists(p) == temp' = temp \/ temp' = [temp EXCEPT ![p] = NoFile]

Opening(p) ==
    \/ session' = session
    \/ session' = [session EXCEPT ![p] = None]
    \/ \E f \in Folders : IsProject(f) /\ session' = [session EXCEPT ![p] = folder[f].id]

\* p creates nothing that it was not creating already.
NoCreation(p) ==
    \/ op' = op
    \/ \E o \in Operation : op' = [op EXCEPT ![p] = o] /\ ~(o.kind = "create" /\ o.id # None)

LEMMA BeginsNothing ==
    ASSUME NEW p \in Processes, NEW o \in Operation, op' = [op EXCEPT ![p] = o],
           o.kind # "create" \/ o.id = None
    PROVE  NoCreation(p)
BY DEF NoCreation

LEMMA EndsKeeps ==
    ASSUME NEW p \in Processes, NEW c,
           Ends(p, c) \/ Fails(p, c) \/ Written(p) \/ UNCHANGED local
    PROVE  KeepsLists(p) /\ Opening(p)
BY DEF Ends, Fails, Written, KeepsLists, Opening, local

LEMMA ListsKept ==
    ASSUME Typed, NEW p \in Processes, KeepsLists(p),
           \/ catalog' \in {catalog, NoFile, backup}
           \/ temp[p] # NoFile /\ catalog' = temp[p].list,
           backup' \in {backup, NoFile, catalog}
    PROVE  ListFlow
<1>1. \A q \in Processes : temp'[q] \in {temp[q], NoFile}
  BY TypedSplit DEF KeepsLists, LocalOK
<1> QED
  BY <1>1 DEF ListFlow

LEMMA IdsKept ==
    ASSUME Typed, NEW p \in Processes, Opening(p), NoCreation(p), issued \subseteq issued',
           FolderIds' \subseteq
              FolderIds \cup {None} \cup {op[q].id : q \in {r \in Processes : Creation(r)}}
    PROVE  IdFlow
<1>1. LocalOK
  BY TypedSplit
<1>2. ASSUME NEW q \in Processes
      PROVE  session'[q] \in {session[q], None} \cup FolderIds
  <2>1. CASE \E f \in Folders : IsProject(f) /\ session' = [session EXCEPT ![p] = folder[f].id]
    BY <1>1, <2>1 DEF LocalOK, FolderIds, IsProject
  <2>2. CASE session' = session \/ session' = [session EXCEPT ![p] = None]
    BY <1>1, <2>2 DEF LocalOK
  <2> QED
    BY <2>1, <2>2 DEF Opening
<1>3. ASSUME NEW q \in Processes, Creation(q)'
      PROVE  op'[q] = op[q]
  BY <1>1, <1>3 DEF NoCreation, Creation, LocalOK
<1> QED
  BY <1>2, <1>3 DEF IdFlow

LEMMA SameFolders ==
    ASSUME UNCHANGED folder PROVE FolderIds' = FolderIds
BY DEF FolderIds

LEMMA LocatesKeeps ==
    ASSUME SharedOK, LocalOK, NEW p \in Processes, NEW d \in ProjectIds,
           NEW kind \in {"recent", "relocate"}, Locates(p, kind, d)
    PROVE  KeepsLists(p) /\ Opening(p) /\ NoCreation(p)
<1>1. op[p].path \in Folders
  BY DEF LocalOK, Operation
<1>2. CASE d \in IdsIn(Listed)
  <2>1. PathIn(Listed, d) \in Folders
    BY <1>2, ListedFacts, PositionFacts
  <2>2. [kind |-> kind, path |-> PathIn(Listed, d), id |-> d] \in Operation
    BY <2>1, OperationFacts
  <2>3. NoCreation(p)
    BY <1>2, <2>2 DEF Locates, Begins, NoCreation
  <2> QED
    BY <1>2, <2>3, EndsKeeps DEF Locates
<1>3. CASE d \notin IdsIn(Listed)
  <2>1. [kind |-> kind, path |-> op[p].path, id |-> d] \in Operation
    BY <1>1, OperationFacts
  <2>2. NoCreation(p)
    BY <1>3, <2>1 DEF Locates, Begins, NoCreation
  <2> QED
    BY <1>3, <2>2, EndsKeeps DEF Locates
<1> QED
  BY <1>2, <1>3

LEMMA FlowCreates ==
    ASSUME Typed, NEW p \in Processes,
           \/ \E f \in Folders, d \in ProjectIds : BeginCreate(p, f, d)
           \/ RecheckTarget(p) \/ PublishFolder(p) \/ Rollback(p) \/ RemoveTree(p)
           \/ OpenCreated(p)
    PROVE  ListFlow /\ IdFlow
<1>1. LocalOK /\ SharedOK /\ Fits(pc[p], op[p], session[p], temp[p])
  BY TypedSplit DEF SessionsFit
<1>2. op[p] \in Operation /\ op[p].path \in Folders
  BY <1>1 DEF LocalOK, Operation
<1>3. ASSUME NEW f \in Folders, NEW d \in ProjectIds, BeginCreate(p, f, d)
      PROVE  ListFlow /\ IdFlow
  <2>1. UNCHANGED <<folder, catalog, backup>>
    BY <1>3 DEF BeginCreate, shared
  <2>2. CASE folder[f] # None
    <3>1. op' = [op EXCEPT ![p] = [kind |-> "create", path |-> f, id |-> None]]
          /\ Ends(p, "folder_exists") /\ UNCHANGED issued
      BY <1>3, <2>2 DEF BeginCreate, Begins
    <3>2. NoCreation(p)
      BY <3>1, OperationFacts, BeginsNothing
    <3> QED
      BY <2>1, <3>1, <3>2, EndsKeeps, ListsKept, IdsKept, SameFolders
  <2>3. CASE folder[f] = None
    <3>1. /\ op' = [op EXCEPT ![p] = [kind |-> "create", path |-> f, id |-> d]]
          /\ d \notin issued /\ issued' = issued \cup {d} /\ UNCHANGED local
      BY <1>3, <2>3 DEF BeginCreate, Begins
    <3>2. ListFlow
      BY <2>1, <3>1, EndsKeeps, ListsKept
    <3>3. \A q \in Processes : session'[q] = session[q]
      BY <3>1 DEF local
    <3>4. d \in issued' /\ issued \subseteq issued'
      BY <3>1
    <3> QED
      BY <2>1, <3>1, <3>2, <3>3, <3>4, SameFolders DEF IdFlow
  <2> QED
    BY <2>2, <2>3
<1>4. CASE RecheckTarget(p)
  <2>1. KeepsLists(p) /\ Opening(p)
    BY <1>4, EndsKeeps DEF RecheckTarget
  <2>2. NoCreation(p) /\ UNCHANGED <<folder, catalog, backup, issued>>
    BY <1>4 DEF RecheckTarget, shared, NoCreation
  <2> QED
    BY <2>1, <2>2, ListsKept, IdsKept, SameFolders
<1>5. CASE PublishFolder(p)
  <2>1. KeepsLists(p) /\ Opening(p)
    BY <1>5, EndsKeeps DEF PublishFolder
  <2>2. NoCreation(p) /\ UNCHANGED <<catalog, backup, issued>>
    BY <1>5 DEF PublishFolder, NoCreation
  <2>3. Creation(p)
    BY <1>1, <1>5 DEF PublishFolder, Fits, Creating, Creation
  <2>4. FolderIds' \subseteq FolderIds \cup {None} \cup {op[q].id : q \in {r \in Processes : Creation(r)}}
    <3>1. CASE UNCHANGED folder
      BY <3>1, SameFolders
    <3>2. CASE folder' = [folder EXCEPT ![op[p].path] = [id |-> op[p].id, work |-> FALSE]]
      <4>1. ASSUME NEW f \in Folders, folder'[f] # None
            PROVE  folder'[f].id \in FolderIds \cup {op[p].id}
        BY <1>1, <1>2, <3>2, <4>1 DEF SharedOK, FolderIds
      <4> QED
        BY <2>3, <4>1 DEF FolderIds
    <3> QED
      BY <1>5, <3>1, <3>2 DEF PublishFolder
  <2> QED
    BY <2>1, <2>2, <2>4, ListsKept, IdsKept
<1>6. CASE Rollback(p)
  <2>1. KeepsLists(p) /\ Opening(p)
    BY <1>6, EndsKeeps DEF Rollback
  <2>2. NoCreation(p) /\ UNCHANGED <<folder, catalog, backup, issued>>
    BY <1>6 DEF Rollback, shared, NoCreation
  <2> QED
    BY <2>1, <2>2, ListsKept, IdsKept, SameFolders
<1>7. CASE RemoveTree(p)
  <2>1. KeepsLists(p) /\ Opening(p)
    BY <1>7, EndsKeeps DEF RemoveTree
  <2>2. NoCreation(p) /\ UNCHANGED <<catalog, backup, issued>>
    BY <1>7 DEF RemoveTree, NoCreation
  <2>3. FolderIds' \subseteq FolderIds
    <3>1. ASSUME NEW f \in Folders, folder'[f] # None
          PROVE  folder'[f] = folder[f]
      BY <1>1, <1>2, <1>7, <3>1 DEF RemoveTree, SharedOK
    <3> QED
      BY <3>1 DEF FolderIds
  <2> QED
    BY <2>1, <2>2, <2>3, ListsKept, IdsKept
<1>8. CASE OpenCreated(p)
  <2>1. KeepsLists(p) /\ Opening(p)
    <3>1. CASE IsProject(op[p].path)
      BY <1>2, <1>8, <3>1 DEF OpenCreated, KeepsLists, Opening
    <3>2. CASE ~IsProject(op[p].path)
      BY <1>8, <3>2, EndsKeeps DEF OpenCreated
    <3> QED
      BY <3>1, <3>2
  <2>2. NoCreation(p) /\ UNCHANGED <<folder, catalog, backup, issued>>
    BY <1>8 DEF OpenCreated, shared, NoCreation
  <2> QED
    BY <2>1, <2>2, ListsKept, IdsKept, SameFolders
<1> QED
  BY <1>3, <1>4, <1>5, <1>6, <1>7, <1>8

LEMMA FlowOpens ==
    ASSUME Typed, NEW p \in Processes,
           \/ \E f \in Folders : OpenFolder(p, f)
           \/ \E d \in ProjectIds : OpenRecent(p, d)
           \/ OpenLocated(p) \/ OpenRelocated(p)
    PROVE  ListFlow /\ IdFlow
<1>1. LocalOK /\ SharedOK /\ Fits(pc[p], op[p], session[p], temp[p])
  BY TypedSplit DEF SessionsFit
<1>2. op[p] \in Operation /\ op[p].path \in Folders /\ op[p].id \in ProjectIds \cup {None}
  BY <1>1 DEF LocalOK, Operation
<1>3. UNCHANGED <<folder, catalog, backup, issued>>
  BY DEF OpenFolder, OpenRecent, OpenLocated, OpenRelocated, shared
<1>4. KeepsLists(p) /\ Opening(p) /\ NoCreation(p)
  <2>1. ASSUME NEW f \in Folders, OpenFolder(p, f)
        PROVE  KeepsLists(p) /\ Opening(p) /\ NoCreation(p)
    <3>1. CASE IsProject(f)
      <4>1. op' = [op EXCEPT ![p] = [kind |-> "open", path |-> f, id |-> folder[f].id]]
        BY <2>1, <3>1 DEF OpenFolder, Begins
      <4>2. [kind |-> "open", path |-> f, id |-> folder[f].id] \in Operation
        BY <1>1, <3>1, FolderFacts, OperationFacts
      <4>3. NoCreation(p)
        BY <4>1, <4>2, BeginsNothing
      <4> QED
        BY <2>1, <3>1, <4>3 DEF OpenFolder, KeepsLists, Opening
    <3>2. CASE ~IsProject(f)
      <4>1. op' = [op EXCEPT ![p] = [kind |-> "open", path |-> f, id |-> None]]
            /\ Ends(p, "session_failure")
        BY <2>1, <3>2 DEF OpenFolder, Begins
      <4>2. NoCreation(p)
        BY <4>1, OperationFacts, BeginsNothing
      <4> QED
        BY <4>1, <4>2, EndsKeeps
    <3> QED
      BY <3>1, <3>2
  <2>2. ASSUME NEW d \in ProjectIds, OpenRecent(p, d)
        PROVE  KeepsLists(p) /\ Opening(p) /\ NoCreation(p)
    BY <1>1, <2>2, LocatesKeeps DEF OpenRecent
  <2>3. CASE OpenLocated(p)
    <3>1. CASE IsProject(op[p].path) /\ folder[op[p].path].id = op[p].id
      BY <1>2, <2>3, <3>1 DEF OpenLocated, KeepsLists, Opening, NoCreation
    <3>2. CASE ~(IsProject(op[p].path) /\ folder[op[p].path].id = op[p].id)
      <4>1. (\E c \in Codes : Ends(p, c)) /\ UNCHANGED op
        BY <2>3, <3>2 DEF OpenLocated, Codes
      <4> QED
        BY <4>1, EndsKeeps DEF NoCreation
    <3> QED
      BY <3>1, <3>2
  <2>4. CASE OpenRelocated(p)
    <3>1. op[p].id \in ProjectIds
      BY <1>1, <1>2, <2>4 DEF OpenRelocated, Fits
    <3> QED
      BY <1>1, <2>4, <3>1, LocatesKeeps DEF OpenRelocated
  <2> QED
    BY <2>1, <2>2, <2>3, <2>4
<1> QED
  BY <1>3, <1>4, ListsKept, IdsKept, SameFolders

LEMMA FlowWrites ==
    ASSUME Typed, NEW p \in Processes,
           \/ DropBackup(p) \/ InspectCatalog(p) \/ StagePrevious(p)
           \/ PublishCatalog(p) \/ CleanBackup(p) \/ RestorePrevious(p)
           \/ IoFails(p) \/ CloseProject(p) \/ Crash(p)
    PROVE  ListFlow /\ IdFlow
<1>1. LocalOK /\ SharedOK /\ Fits(pc[p], op[p], session[p], temp[p])
  BY TypedSplit DEF SessionsFit
<1>2. UNCHANGED <<folder, issued, op>>
  BY DEF DropBackup, InspectCatalog, StagePrevious, PublishCatalog, CleanBackup,
         RestorePrevious, IoFails, CloseProject, Crash, shared
<1>3. KeepsLists(p) /\ Opening(p)
  <2>1. \/ UNCHANGED local \/ Written(p) \/ \E c \in Codes : Ends(p, c) \/ Fails(p, c)
    BY DEF DropBackup, InspectCatalog, StagePrevious, PublishCatalog, CleanBackup,
           RestorePrevious, IoFails, CloseProject, Crash, Codes, local
  <2> QED
    BY <2>1, EndsKeeps
<1>4. \/ catalog' \in {catalog, NoFile, backup}
      \/ temp[p] # NoFile /\ catalog' = temp[p].list
  <2>1. CASE PublishCatalog(p)
    BY <1>1, <2>1 DEF PublishCatalog, Fits, Writing
  <2>2. CASE ~PublishCatalog(p)
    BY <2>2 DEF DropBackup, InspectCatalog, StagePrevious, CleanBackup,
                RestorePrevious, IoFails, CloseProject, Crash, shared
  <2> QED
    BY <2>1, <2>2
<1>5. backup' \in {backup, NoFile, catalog}
  BY DEF DropBackup, InspectCatalog, StagePrevious, PublishCatalog, CleanBackup,
         RestorePrevious, IoFails, CloseProject, Crash, shared
<1> QED
  BY <1>2, <1>3, <1>4, <1>5, ListsKept, IdsKept, SameFolders DEF NoCreation

LEMMA FlowExternal ==
    ASSUME Typed, External PROVE ListFlow /\ IdFlow
<1>1. UNCHANGED <<catalog, backup, op, temp, session, issued>>
  BY DEF External, local
<1>2. ASSUME NEW f \in Folders, folder'[f] # None
      PROVE  folder'[f].id \in FolderIds \cup {None}
  <2>1. folder \in [Folders -> Folder \cup {None}]
    BY TypedSplit DEF SharedOK
  <2>2. PICK a \in Folders, b \in Folders :
          \/ /\ folder[a] = None
             /\ folder' = [folder EXCEPT ![a] = [id |-> None, work |-> FALSE]]
          \/ /\ folder[a] # None
             /\ folder' = [folder EXCEPT ![a].work = TRUE]
          \/ /\ folder[a] # None
             /\ folder' = [folder EXCEPT ![a] = None]
          \/ /\ folder[a] # None /\ folder[b] = None
             /\ folder' = [folder EXCEPT ![b] = folder[a]]
          \/ /\ folder[a] # None /\ folder[b] = None
             /\ folder' = [folder EXCEPT ![b] = folder[a], ![a] = None]
    BY DEF External
  <2>3. CASE folder' = [folder EXCEPT ![a].work = TRUE] /\ folder[a] # None
    <3>1. folder[a] \in Folder
      BY <2>1, <2>3
    <3>2. [folder[a] EXCEPT !.work = TRUE].id = folder[a].id
      BY <3>1 DEF Folder
    <3> QED
      BY <1>2, <2>1, <2>3, <3>2 DEF FolderIds
  <2>4. CASE ~(folder' = [folder EXCEPT ![a].work = TRUE] /\ folder[a] # None)
    <3>1. folder'[f] \in {folder[f], folder[a], [id |-> None, work |-> FALSE], None}
      BY <2>1, <2>2, <2>4
    <3>2. CASE folder'[f] = folder[f]
      BY <1>2, <3>2 DEF FolderIds
    <3>3. CASE folder'[f] = folder[a]
      BY <1>2, <3>3 DEF FolderIds
    <3>4. CASE folder'[f] = [id |-> None, work |-> FALSE]
      BY <3>4
    <3> QED
      BY <1>2, <3>1, <3>2, <3>3, <3>4
  <2> QED
    BY <2>3, <2>4
<1>3. FolderIds' \subseteq FolderIds \cup {None}
  BY <1>2 DEF FolderIds
<1>4. ListFlow
  BY <1>1 DEF ListFlow
<1>5. IdFlow
  BY <1>1, <1>3 DEF IdFlow, Creation
<1> QED
  BY <1>4, <1>5

LEMMA EditFlow ==
    ASSUME Typed, NEW p \in Processes, NEW base \in Seq(Entry), NEW list \in Seq(Entry),
           Good(base), Good(list), temp' = [temp EXCEPT ![p] = [base |-> base, list |-> list]],
           UNCHANGED <<catalog, backup>>
    PROVE  ListFlow
<1> DEFINE t == [base |-> base, list |-> list]
<1>1. \E b, l \in Seq(Entry) : Good(b) /\ Good(l) /\ t = [base |-> b, list |-> l]
  OBVIOUS
<1> HIDE DEF t
<1>2. temp' = [temp EXCEPT ![p] = t]
  BY DEF t
<1>3. \A q \in Processes : temp'[q] = IF q = p THEN t ELSE temp[q]
  BY <1>2, TypedSplit DEF LocalOK
<1>4. catalog' \in {catalog, NoFile, backup} /\ backup' \in {backup, NoFile, catalog}
  OBVIOUS
<1> QED
  BY <1>1, <1>3, <1>4 DEF ListFlow

LEMMA FlowEdits ==
    ASSUME Typed, ListsGood, IdsIssued, NEW p \in Processes,
           \/ RecordOpened(p) \/ Relocate(p)
           \/ \E d \in ProjectIds : RemoveRecent(p, d)
           \/ \E f \in Folders, d \in ProjectIds : BeginRelocate(p, d, f)
    PROVE  ListFlow /\ IdFlow
<1>1. LocalOK /\ SharedOK /\ Fits(pc[p], op[p], session[p], temp[p])
  BY TypedSplit DEF SessionsFit
<1>2. op[p] \in Operation /\ op[p].path \in Folders /\ op[p].id \in ProjectIds \cup {None}
  BY <1>1 DEF LocalOK, Operation
<1>3. Listed \in Seq(Entry) /\ Good(Listed)
  <2>1. Good(<<>>)
    BY DEF Good, Readable, IdsIn
  <2> QED
    BY <1>1, <2>1, ListedFacts DEF ListsGood, Listed
<1>4. UNCHANGED <<folder, catalog, backup, issued>>
  BY DEF RecordOpened, Relocate, RemoveRecent, BeginRelocate, shared
<1>5. CASE RecordOpened(p)
  <2> DEFINE e == [id |-> session[p], path |-> op[p].path]
  <2>1. session[p] \in ProjectIds /\ session[p] \in issued
    BY <1>1, <1>5 DEF RecordOpened, Fits, LocalOK, IdsIssued
  <2>2. e \in Entry /\ e.id \in issued
    BY <1>2, <2>1 DEF Entry
  <2>3. CASE Fails(p, "identity_conflict")
    BY <1>4, <1>5, <2>3, EndsKeeps, ListsKept, IdsKept, SameFolders DEF RecordOpened, NoCreation
  <2>4. CASE Edits(p, Listed, Recorded(Listed, e))
    <3>1. UNCHANGED <<op, session>>
      BY <1>5, <2>4 DEF RecordOpened, Edits
    <3>2. temp' = [temp EXCEPT ![p] = [base |-> Listed, list |-> Recorded(Listed, e)]]
      BY <2>4 DEF Edits
    <3> HIDE DEF e
    <3>3. Recorded(Listed, e) \in Seq(Entry) /\ Good(Recorded(Listed, e))
      BY <1>3, <2>2, RecordedFacts DEF Good
    <3>4. ListFlow
      BY <1>3, <1>4, <3>2, <3>3, EditFlow
    <3> QED
      BY <1>4, <3>1, <3>4, IdsKept, SameFolders DEF Opening, NoCreation
  <2> QED
    BY <1>5, <2>3, <2>4 DEF RecordOpened
<1>6. CASE Relocate(p)
  <2> DEFINE e == [id |-> op[p].id, path |-> op[p].path]
             base == temp[p].base
  <2>1. temp[p] \in Edit /\ Good(base) /\ base \in Seq(Entry)
    BY <1>1, <1>6 DEF Relocate, LocalOK, Lists, Fits, ListsGood, Edit
  <2>2. CASE IsProject(op[p].path) /\ folder[op[p].path].id = op[p].id
    <3>1. e \in Entry /\ e.id \in issued
      <4>1. op[p].id \in ProjectIds /\ op[p].id \in FolderIds
        BY <1>1, <1>2, <2>2, FolderFacts DEF FolderIds, IsProject
      <4> QED
        BY <1>2, <4>1, HubAssumption DEF Entry, IdsIssued
    <3>2. /\ temp' = [temp EXCEPT ![p] = [base |-> base, list |-> Relocated(base, e)]]
          /\ UNCHANGED <<op, session>>
      BY <1>6, <2>2 DEF Relocate, Edits
    <3> HIDE DEF e, base
    <3>3. Relocated(base, e) \in Seq(Entry) /\ Good(Relocated(base, e))
      <4>1. Relocated(base, e) \in Seq(Entry)
        BY <2>1, <3>1, RelocatedShape
      <4>2. CASE e.id \in IdsIn(base)
        BY <2>1, <3>1, <4>2, RelocatedFacts DEF Good
      <4>3. CASE e.id \notin IdsIn(base)
        <5>1. Relocated(base, e) = base
          BY <2>1, <4>3 DEF Relocated, IdsIn
        <5> QED
          BY <2>1, <5>1
      <4> QED
        BY <4>1, <4>2, <4>3
    <3>4. ListFlow
      BY <1>4, <2>1, <3>2, <3>3, EditFlow
    <3> QED
      BY <1>4, <3>2, <3>4, IdsKept, SameFolders DEF Opening, NoCreation
  <2>3. CASE ~(IsProject(op[p].path) /\ folder[op[p].path].id = op[p].id)
    <3>1. (\E c \in Codes : Ends(p, c)) /\ UNCHANGED op
      BY <1>6, <2>3 DEF Relocate, Codes
    <3> QED
      BY <1>4, <3>1, EndsKeeps, ListsKept, IdsKept, SameFolders DEF NoCreation
  <2> QED
    BY <2>2, <2>3
<1>7. ASSUME NEW d \in ProjectIds, RemoveRecent(p, d)
      PROVE  ListFlow /\ IdFlow
  <2>1. CASE d \in IdsIn(Listed)
    <3>1. /\ op' = [op EXCEPT ![p] = [kind |-> "remove", path |-> PathIn(Listed, d), id |-> d]]
          /\ temp' = [temp EXCEPT ![p] = [base |-> Listed, list |-> Without(Listed, d)]]
          /\ UNCHANGED session
      BY <1>7, <2>1 DEF RemoveRecent, Begins, Edits
    <3>2. NoCreation(p)
      BY <1>3, <2>1, <3>1, PositionFacts, OperationFacts, BeginsNothing
    <3>3. Without(Listed, d) \in Seq(Entry) /\ Good(Without(Listed, d))
      BY <1>3, WithoutFacts DEF Good
    <3>4. ListFlow
      BY <1>3, <1>4, <3>1, <3>3, EditFlow
    <3> QED
      BY <1>4, <3>1, <3>2, <3>4, IdsKept, SameFolders DEF Opening
  <2>2. CASE d \notin IdsIn(Listed)
    <3>1. op' = [op EXCEPT ![p] = [kind |-> "remove", path |-> op[p].path, id |-> d]]
          /\ Ends(p, "removed")
      BY <1>7, <2>2 DEF RemoveRecent, Begins
    <3>2. NoCreation(p)
      BY <1>2, <3>1, OperationFacts, BeginsNothing
    <3> QED
      BY <1>4, <3>1, <3>2, EndsKeeps, ListsKept, IdsKept, SameFolders
  <2> QED
    BY <2>1, <2>2
<1>8. ASSUME NEW f \in Folders, NEW d \in ProjectIds, BeginRelocate(p, d, f)
      PROVE  ListFlow /\ IdFlow
  <2>1. op' = [op EXCEPT ![p] = [kind |-> "relocate", path |-> f, id |-> d]]
    BY <1>8 DEF BeginRelocate, Begins
  <2>2. NoCreation(p)
    BY <2>1, OperationFacts, BeginsNothing
  <2>3. CASE d \in IdsIn(Listed)
    <3>1. /\ temp' = [temp EXCEPT ![p] = [base |-> Listed, list |-> <<>>]]
          /\ UNCHANGED session
      BY <1>8, <2>3 DEF BeginRelocate
    <3>2. <<>> \in Seq(Entry) /\ Good(<<>>)
      BY EmptySeq DEF Good, Readable, IdsIn
    <3>3. ListFlow
      BY <1>3, <1>4, <3>1, <3>2, EditFlow
    <3> QED
      BY <1>4, <2>2, <3>1, <3>3, IdsKept, SameFolders DEF Opening
  <2>4. CASE d \notin IdsIn(Listed)
    <3>1. Ends(p, "entry_not_found")
      BY <1>8, <2>4 DEF BeginRelocate
    <3> QED
      BY <1>4, <2>2, <3>1, EndsKeeps, ListsKept, IdsKept, SameFolders
  <2> QED
    BY <2>3, <2>4
<1> QED
  BY <1>5, <1>6, <1>7, <1>8

LEMMA NextFlow ==
    ASSUME Typed, ListsGood, IdsIssued, Next
    PROVE  ListFlow /\ IdFlow
<1>1. ASSUME NEW p \in Processes, Request(p) \/ Continue(p) \/ IoFails(p) \/ Crash(p)
      PROVE  ListFlow /\ IdFlow
  BY <1>1, FlowCreates, FlowOpens, FlowEdits, FlowWrites DEF Request, Continue
<1>2. CASE Rest
  <2>1. UNCHANGED vars
    BY <1>2 DEF Rest
  <2> QED
    BY <2>1 DEF ListFlow, IdFlow, vars, shared, local, counted, FolderIds, Creation
<1> QED
  BY <1>1, <1>2, FlowExternal DEF Next

LEMMA TypedNext ==
    ASSUME Typed, ListsGood, [Next]_vars
    PROVE  Typed'
<1>1. ASSUME NEW p \in Processes, Request(p) \/ Continue(p) \/ IoFails(p) \/ Crash(p)
      PROVE  Typed'
  BY <1>1, TypedCreates, TypedOpens, TypedEdits, TypedWrites, TypedTroubles
     DEF Request, Continue
<1>2. CASE UNCHANGED vars
  BY <1>2 DEF vars, shared, local, counted, Typed, TypeOK, SessionsFit, Fits
<1> QED
  BY <1>1, <1>2, TypedExternal DEF Next, Rest

LEMMA ListsNext ==
    ASSUME Typed, ListsGood, IdsIssued, [Next]_vars
    PROVE  ListsGood'
<1>1. CASE Next
  <2>1. ListFlow /\ issued \subseteq issued'
    BY <1>1, NextFlow DEF IdFlow
  <2>2. ASSUME NEW list, Good(list) PROVE Readable(list) /\ IdsIn(list) \subseteq issued'
    BY <2>1, <2>2 DEF Good
  <2>3. ASSUME NEW c \in {catalog', backup'}, c # NoFile
        PROVE  Readable(c) /\ IdsIn(c) \subseteq issued'
    BY <2>1, <2>2, <2>3 DEF ListFlow, ListsGood
  <2>4. ASSUME NEW q \in Processes, temp'[q] # NoFile
        PROVE  /\ Readable(temp'[q].base) /\ IdsIn(temp'[q].base) \subseteq issued'
               /\ Readable(temp'[q].list) /\ IdsIn(temp'[q].list) \subseteq issued'
    <3>1. CASE temp'[q] = temp[q]
      BY <2>2, <2>4, <3>1 DEF ListsGood
    <3>2. CASE \E base, list \in Seq(Entry) :
                 Good(base) /\ Good(list) /\ temp'[q] = [base |-> base, list |-> list]
      BY <2>2, <3>2
    <3> QED
      BY <2>1, <2>4, <3>1, <3>2 DEF ListFlow
  <2> QED
    BY <2>3, <2>4 DEF ListsGood, Good, Readable, IdsIn
<1>2. CASE UNCHANGED vars
  BY <1>2 DEF vars, shared, local, ListsGood, Good, Readable, IdsIn
<1> QED
  BY <1>1, <1>2

LEMMA IdsNext ==
    ASSUME Typed, ListsGood, IdsIssued, [Next]_vars
    PROVE  IdsIssued'
<1>1. CASE Next
  <2>1. IdFlow /\ LocalOK
    BY <1>1, NextFlow, TypedSplit
  <2>2. FolderIds' \subseteq issued' \cup {None}
    BY <2>1 DEF IdFlow, IdsIssued
  <2>3. \A q \in Processes : session'[q] \in issued' \cup {None}
    BY <2>1 DEF IdFlow, IdsIssued
  <2>4. /\ \A q \in Processes : Creation(q)' => op'[q].id \in issued'
        /\ \A q, r \in Processes :
              Creation(q)' /\ Creation(r)' /\ op'[q].id = op'[r].id => q = r
    <3>1. CASE \A q \in Processes : Creation(q)' => op'[q] = op[q]
      <4>1. \A q \in Processes : Creation(q)' => Creation(q)
        BY <3>1 DEF Creation
      <4> QED
        BY <2>1, <3>1, <4>1 DEF IdFlow, IdsIssued
    <3>2. ASSUME NEW p \in Processes, NEW f \in Folders, NEW d \in ProjectIds,
                 d \notin issued, d \in issued',
                 op' = [op EXCEPT ![p] = [kind |-> "create", path |-> f, id |-> d]]
          PROVE  /\ \A q \in Processes : Creation(q)' => op'[q].id \in issued'
                 /\ \A q, r \in Processes :
                       Creation(q)' /\ Creation(r)' /\ op'[q].id = op'[r].id => q = r
      <4>1. op'[p].id = d /\ \A q \in Processes \ {p} : op'[q] = op[q]
        BY <2>1, <3>2 DEF LocalOK
      <4>2. \A q \in Processes \ {p} : Creation(q)' => Creation(q) /\ op'[q].id \in issued
        BY <4>1 DEF Creation, IdsIssued
      <4> QED
        BY <2>1, <3>2, <4>1, <4>2 DEF IdFlow, IdsIssued
    <3> QED
      BY <2>1, <3>1, <3>2 DEF IdFlow
  <2> QED
    BY <2>2, <2>3, <2>4 DEF IdsIssued
<1>2. CASE UNCHANGED vars
  BY <1>2 DEF vars, shared, local, IdsIssued, FolderIds, Creation
<1> QED
  BY <1>1, <1>2

HubInv == Typed /\ ListsGood /\ IdsIssued

LEMMA InitHubInv == Init => HubInv
<1> SUFFICES ASSUME Init PROVE HubInv
  OBVIOUS
<1>1. PICK f \in Folders : op = [p \in Processes |-> [kind |-> "open", path |-> f, id |-> None]]
  BY DEF Init
<1>2. \A p \in Processes : /\ pc[p] = "idle" /\ op[p] = [kind |-> "open", path |-> f, id |-> None]
                           /\ session[p] = None /\ temp[p] = NoFile
  BY <1>1 DEF Init
<1>3. op \in [Processes -> Operation]
  BY <1>1, OperationFacts
<1>4. LocalOK
  BY <1>3 DEF Init, LocalOK, Places, Lists, Codes
<1>5. issued \subseteq ProjectIds /\ FolderIds \subseteq issued \cup {None}
  BY DEF Init, Folder, FolderIds
<1>6. SharedOK
  BY <1>5 DEF Init, SharedOK
<1>7. SessionsFit
  BY <1>2 DEF SessionsFit, Fits, Writing, Creating
<1>8. ListsGood
  BY <1>2 DEF Init, ListsGood
<1>9. IdsIssued
  <2>1. \A p \in Processes : session[p] \in issued \cup {None} /\ ~Creation(p)
    BY <1>2 DEF Creation
  <2> QED
    BY <1>5, <2>1 DEF IdsIssued
<1> QED
  BY <1>4, <1>6, <1>7, <1>8, <1>9, TypedSplit DEF HubInv

THEOREM HubInvAlways == Spec => []HubInv
<1>1. HubInv /\ [Next]_vars => HubInv'
  BY TypedNext, ListsNext, IdsNext DEF HubInv
<1> QED
  BY <1>1, InitHubInv, PTL DEF Spec

\* Whatever other processes do to the catalog and the user to the folders, a
\* project that is opened from the list of recent ones is the one that was picked.
THEOREM PickedProjectOpens == Spec => []OpensWhatWasAsked
<1>1. HubInv => OpensWhatWasAsked
  BY DEF HubInv, Typed, SessionsFit, Fits, OpensWhatWasAsked
<1> QED
  BY <1>1, HubInvAlways, PTL

\* No interleaving of writes, failures and crashes leaves a catalog or a backup
\* that list() refuses.
THEOREM CatalogStaysReadable == Spec => []CatalogReadable
<1>1. HubInv => CatalogReadable
  BY DEF HubInv, ListsGood, Good, CatalogReadable
<1> QED
  BY <1>1, HubInvAlways, PTL

-----------------------------------------------------------------------------
(* One operation at a time *)

LEMMA OthersRest ==
    ASSUME Typed, NEW p \in Processes, Request(p) \/ Continue(p) \/ IoFails(p) \/ Crash(p)
    PROVE  \A q \in Processes \ {p} :
              /\ pc'[q] = pc[q] /\ op'[q] = op[q] /\ session'[q] = session[q]
              /\ temp'[q] = temp[q] /\ answer'[q] = answer[q]
<1>1. LocalOK
  BY TypedSplit
<1> DEFINE Quiet == \A q \in Processes \ {p} :
                       /\ pc'[q] = pc[q] /\ op'[q] = op[q] /\ session'[q] = session[q]
                       /\ temp'[q] = temp[q] /\ answer'[q] = answer[q]
<1>2. ASSUME NEW x, Goes(p, x) PROVE \A q \in Processes \ {p} : pc'[q] = pc[q]
  BY <1>1, <1>2 DEF Goes, LocalOK
<1>3. ASSUME NEW c, Ends(p, c) \/ Fails(p, c) \/ Written(p)
      PROVE  \A q \in Processes \ {p} : /\ pc'[q] = pc[q] /\ session'[q] = session[q]
                                        /\ temp'[q] = temp[q] /\ answer'[q] = answer[q]
  BY <1>1, <1>3 DEF Ends, Fails, Written, Goes, LocalOK
<1>4. ASSUME NEW kind, NEW f, NEW d, Begins(p, kind, f, d)
      PROVE  \A q \in Processes \ {p} : op'[q] = op[q]
  BY <1>1, <1>4 DEF Begins, LocalOK
<1>5. ASSUME NEW base, NEW list, Edits(p, base, list)
      PROVE  \A q \in Processes \ {p} : /\ pc'[q] = pc[q] /\ session'[q] = session[q]
                                        /\ temp'[q] = temp[q] /\ answer'[q] = answer[q]
  BY <1>1, <1>5 DEF Edits, Goes, LocalOK
<1>6. ASSUME NEW kind, NEW d, Locates(p, kind, d)
      PROVE  Quiet
  BY <1>2, <1>3, <1>4, <1>6 DEF Locates, local
<1>7. ASSUME NEW f \in Folders, NEW d \in ProjectIds, BeginCreate(p, f, d) PROVE Quiet
  BY <1>2, <1>3, <1>4, <1>7 DEF BeginCreate, local
<1>8. CASE RecheckTarget(p) \/ Rollback(p) \/ RemoveTree(p)
  BY <1>2, <1>3, <1>8 DEF RecheckTarget, Rollback, RemoveTree, local
<1>9. CASE PublishFolder(p)
  BY <1>2, <1>3, <1>9 DEF PublishFolder, local
<1>10. CASE OpenCreated(p) \/ OpenLocated(p)
  BY <1>1, <1>2, <1>3, <1>10 DEF OpenCreated, OpenLocated, LocalOK
<1>11. ASSUME NEW f \in Folders, OpenFolder(p, f) PROVE Quiet
  BY <1>1, <1>2, <1>3, <1>4, <1>11 DEF OpenFolder, LocalOK
<1>12. ASSUME NEW d \in ProjectIds, OpenRecent(p, d) \/ RemoveRecent(p, d) PROVE Quiet
  BY <1>3, <1>4, <1>5, <1>6, <1>12 DEF OpenRecent, RemoveRecent
<1>13. ASSUME NEW f \in Folders, NEW d \in ProjectIds, BeginRelocate(p, d, f) PROVE Quiet
  BY <1>1, <1>2, <1>3, <1>4, <1>13 DEF BeginRelocate, LocalOK
<1>14. CASE RecordOpened(p) \/ Relocate(p) \/ OpenRelocated(p)
  BY <1>3, <1>5, <1>6, <1>14 DEF RecordOpened, Relocate, OpenRelocated
<1>15. CASE DropBackup(p) \/ InspectCatalog(p) \/ StagePrevious(p) \/ RestorePrevious(p)
  BY <1>2, <1>3, <1>15 DEF DropBackup, InspectCatalog, StagePrevious, RestorePrevious, local
<1>16. CASE PublishCatalog(p) \/ CleanBackup(p)
  BY <1>2, <1>3, <1>16 DEF PublishCatalog, CleanBackup, local
<1>17. CASE CloseProject(p) \/ Crash(p)
  BY <1>3, <1>17 DEF CloseProject, Crash
<1>18. CASE IoFails(p)
  BY <1>2, <1>3, <1>18 DEF IoFails, local
<1> QED
  BY <1>7, <1>8, <1>9, <1>10, <1>11, <1>12, <1>13, <1>14, <1>15, <1>16, <1>17, <1>18
     DEF Request, Continue

LEMMA AsksOrCloses ==
    ASSUME NEW p \in Processes, Request(p)
    PROVE  Requested(p) \/ CloseProject(p)
BY DEF Request, BeginCreate, BeginRelocate, OpenFolder, OpenRecent, RemoveRecent

\* An operation that begins overlaps with none if the observer says so; a
\* process that rests can but end what it did.
LEMMA AtWork ==
    ASSUME Typed, NEW p \in Processes, Request(p) \/ Continue(p) \/ IoFails(p) \/ Crash(p)
    PROVE  /\ alone' => alone
           /\ Idle(p) /\ alone' => \A q \in Processes : Resting(q)
           /\ pc[p] = "active" => pc'[p] = "idle" /\ UNCHANGED <<shared, remembered, op>>
<1>1. LocalOK
  BY TypedSplit
<1>2. CASE Requested(p)
  BY <1>2 DEF Requested, Idle
<1>3. CASE Continue(p)
  BY <1>3 DEF Continue, Idle, RecheckTarget, PublishFolder, Rollback, RemoveTree, OpenCreated,
              OpenLocated, RecordOpened, Relocate, OpenRelocated, DropBackup, InspectCatalog,
              StagePrevious, PublishCatalog, CleanBackup, RestorePrevious, counted
<1>4. CASE CloseProject(p) \/ Crash(p)
  BY <1>1, <1>4 DEF CloseProject, Crash, Ends, Goes, LocalOK, counted, Idle
<1>5. CASE IoFails(p)
  BY <1>5 DEF IoFails, Idle
<1>6. Request(p) => Requested(p) \/ CloseProject(p)
  BY AsksOrCloses
<1> QED
  BY <1>2, <1>3, <1>4, <1>5, <1>6

\* Where an operation gets with one step that is not of its write.
LEMMA Arrives ==
    ASSUME Typed, NEW p \in Processes,
           \/ Request(p) \/ Continue(p) \/ IoFails(p) \/ Crash(p)
    PROVE  /\ pc'[p] \in {"inspected", "fresh"} => InspectCatalog(p)
           /\ pc'[p] = "restoring" => pc[p] = "previous" /\ IoFails(p)
           /\ pc'[p] \in {"temp", "locating"} =>
                 \/ RecordOpened(p) \/ Relocate(p)
                 \/ \E d \in ProjectIds : RemoveRecent(p, d)
                 \/ \E f \in Folders, d \in ProjectIds : BeginRelocate(p, d, f)
           /\ pc'[p] = "dropped" => DropBackup(p) \/ (pc[p] = "temp" /\ IoFails(p))
           /\ pc'[p] = "previous" => StagePrevious(p)
           /\ pc'[p] = "cleanup" => PublishCatalog(p)
<1> DEFINE Ways == {"inspected", "fresh", "restoring", "temp", "locating", "dropped",
                    "previous", "cleanup"}
<1>1. LocalOK
  BY TypedSplit
<1>2. ASSUME NEW x, Goes(p, x) PROVE pc'[p] = x
  BY <1>1, <1>2 DEF Goes, LocalOK
<1>3. ASSUME NEW c, Ends(p, c) \/ Fails(p, c) \/ Written(p)
      PROVE  pc'[p] \notin Ways
  BY <1>2, <1>3 DEF Ends, Fails, Written
<1>4. ASSUME NEW kind, NEW d, Locates(p, kind, d)
      PROVE  pc'[p] \notin Ways
  BY <1>2, <1>3, <1>4 DEF Locates
<1>5. ASSUME NEW f \in Folders, NEW d \in ProjectIds, BeginCreate(p, f, d)
      PROVE  pc'[p] \notin Ways
  BY <1>2, <1>3, <1>5 DEF BeginCreate
<1>6. ASSUME RecheckTarget(p) \/ PublishFolder(p) \/ Rollback(p) \/ RemoveTree(p) \/ OpenCreated(p)
             \/ OpenLocated(p)
      PROVE  pc'[p] \notin Ways
  BY <1>2, <1>3, <1>6 DEF RecheckTarget, PublishFolder, Rollback, RemoveTree, OpenCreated, OpenLocated
<1>7. ASSUME NEW f \in Folders, OpenFolder(p, f)
      PROVE  pc'[p] \notin Ways
  BY <1>2, <1>3, <1>7 DEF OpenFolder
<1>8. ASSUME OpenRelocated(p) \/ \E d \in ProjectIds : OpenRecent(p, d)
      PROVE  pc'[p] \notin Ways
  BY <1>4, <1>8 DEF OpenRelocated, OpenRecent
<1>9. ASSUME CleanBackup(p) \/ RestorePrevious(p) \/ CloseProject(p) \/ Crash(p)
      PROVE  pc'[p] \notin Ways
  BY <1>3, <1>9 DEF CleanBackup, RestorePrevious, CloseProject, Crash
<1>10. CASE \/ RecordOpened(p) \/ Relocate(p)
            \/ \E d \in ProjectIds : RemoveRecent(p, d)
            \/ \E f \in Folders, d \in ProjectIds : BeginRelocate(p, d, f)
  <2>1. pc'[p] \in {"temp", "locating"} \/ pc'[p] \notin Ways
    BY <1>2, <1>3, <1>10 DEF RecordOpened, Relocate, RemoveRecent, BeginRelocate, Edits
  <2> QED
    BY <1>10, <2>1
<1>11. CASE DropBackup(p)
  <2>1. pc'[p] = "dropped"
    BY <1>2, <1>11 DEF DropBackup
  <2> QED
    BY <1>11, <2>1
<1>12. CASE InspectCatalog(p)
  <2>1. pc'[p] \in {"inspected", "fresh"}
    BY <1>2, <1>12 DEF InspectCatalog
  <2> QED
    BY <1>12, <2>1
<1>13. CASE StagePrevious(p)
  <2>1. pc'[p] = "previous" \/ pc'[p] \notin Ways
    BY <1>2, <1>3, <1>13 DEF StagePrevious
  <2> QED
    BY <1>13, <2>1
<1>14. CASE PublishCatalog(p)
  <2>1. pc'[p] = "cleanup" \/ pc'[p] \notin Ways
    BY <1>2, <1>3, <1>14 DEF PublishCatalog
  <2> QED
    BY <1>14, <2>1
<1>15. CASE IoFails(p)
  <2>1. \/ pc'[p] = "restoring" /\ pc[p] = "previous"
        \/ pc'[p] = "dropped" /\ pc[p] = "temp"
        \/ pc'[p] \notin Ways
    BY <1>2, <1>3, <1>15 DEF IoFails
  <2> QED
    BY <1>15, <2>1
<1> HIDE DEF Ways
<1>16. \/ pc'[p] \notin Ways
       \/ RecordOpened(p) \/ Relocate(p)
       \/ \E d \in ProjectIds : RemoveRecent(p, d)
       \/ \E f \in Folders, d \in ProjectIds : BeginRelocate(p, d, f)
       \/ DropBackup(p) \/ InspectCatalog(p) \/ StagePrevious(p) \/ PublishCatalog(p) \/ IoFails(p)
  BY <1>5, <1>6, <1>7, <1>8, <1>9 DEF Request, Continue
<1>17. CASE pc'[p] \notin Ways
  BY <1>17 DEF Ways
<1> QED
  BY <1>10, <1>11, <1>12, <1>13, <1>14, <1>15, <1>16, <1>17

LEMMA AloneNext ==
    ASSUME Typed, AloneFollows, [Next]_vars
    PROVE  AloneFollows'
<1> SUFFICES ASSUME alone' PROVE (OneAtATime /\ \A p \in Processes : Undivided(p))'
  BY DEF AloneFollows
<1>1. ASSUME NEW p \in Processes, Request(p) \/ Continue(p) \/ IoFails(p) \/ Crash(p)
      PROVE  (OneAtATime /\ \A q \in Processes : Undivided(q))'
  <2>1. OneAtATime /\ \A q \in Processes : Undivided(q)
    BY <1>1, AtWork DEF AloneFollows
  <2>2. \A q \in Processes \ {p} : pc'[q] = pc[q]
    BY <1>1, OthersRest
  <2>3. CASE Idle(p) \/ ~Resting(p)
    <3>1. \A q \in Processes \ {p} : Resting(q)
      BY <1>1, <2>1, <2>3, AtWork DEF OneAtATime, Resting, Idle
    <3>2. \A q \in Processes \ {p} : pc'[q] \in {"idle", "active"}
      BY <2>2, <3>1 DEF Resting
    <3>3. OneAtATime'
      BY <3>2 DEF OneAtATime, Resting
    <3>4. Undivided(p)'
      <4>1. CASE InspectCatalog(p)
        <5>1. pc'[p] = IF catalog = NoFile THEN "fresh" ELSE "inspected"
          BY <4>1, TypedSplit DEF InspectCatalog, Goes, LocalOK
        <5> QED
          BY <4>1, <5>1 DEF InspectCatalog, Undivided, shared
      <4>2. CASE ~InspectCatalog(p)
        <5>1. pc'[p] \notin {"inspected", "fresh"} /\ (pc'[p] = "restoring" => IoFails(p))
          BY <1>1, <4>2, Arrives
        <5>2. IoFails(p) => faults' > 0
          BY TypedSplit DEF IoFails, SharedOK
        <5> QED
          BY <5>1, <5>2 DEF Undivided
      <4> QED
        BY <4>1, <4>2
    <3> QED
      BY <3>2, <3>3, <3>4 DEF Undivided
  <2>4. CASE ~(Idle(p) \/ ~Resting(p))
    <3>1. pc'[p] = "idle" /\ UNCHANGED catalog
      BY <1>1, <2>4, AtWork DEF shared, Resting, Idle
    <3>2. faults' >= faults /\ faults \in Nat /\ faults' \in Nat
      <4>1. faults' = faults \/ faults' = faults + 1
        BY <1>1, <2>4 DEF Idle, Resting, Request, Continue, IoFails, Crash, CloseProject, Requested,
           BeginCreate, BeginRelocate, OpenFolder, OpenRecent, RemoveRecent, counted,
           RecheckTarget, PublishFolder, Rollback, RemoveTree, OpenCreated, OpenLocated,
           RecordOpened, Relocate, OpenRelocated, DropBackup, InspectCatalog, StagePrevious,
           PublishCatalog, CleanBackup, RestorePrevious
      <4> QED
        BY <4>1, TypedSplit DEF SharedOK
    <3>3. OneAtATime'
      BY <2>1, <2>2, <3>1 DEF OneAtATime, Resting
    <3>4. ASSUME NEW q \in Processes PROVE Undivided(q)'
      <4>1. CASE q = p
        BY <3>1, <4>1 DEF Undivided
      <4>2. CASE q # p
        <5>1. pc'[q] = pc[q] /\ catalog' = catalog
          BY <2>2, <3>1, <4>2
        <5>2. faults > 0 => faults' > 0
          BY <3>2
        <5> QED
          BY <2>1, <5>1, <5>2 DEF Undivided
      <4> QED
        BY <4>1, <4>2
    <3> QED
      BY <3>3, <3>4
  <2> QED
    BY <2>3, <2>4
<1>2. CASE External \/ UNCHANGED vars
  BY <1>2 DEF External, vars, shared, counted, AloneFollows, OneAtATime, Resting, Undivided
<1> QED
  BY <1>1, <1>2 DEF Next, Rest

-----------------------------------------------------------------------------
(* What the catalog remembers *)

\* What an edit does to the entry it is about, and that it leaves the others alone.
LEMMA EditedFacts ==
    ASSUME HubInv, NEW p \in Processes, pc[p] \in Writing, Edited(p)
    PROVE  /\ op[p].kind # "remove" =>
                 /\ Concerned(p) \in IdsIn(temp[p].list)
                 /\ PathIn(temp[p].list, Concerned(p)) = op[p].path
           /\ \A d \in IdsIn(temp[p].list) :
                 op[p].kind = "remove" \/ d # Concerned(p) =>
                    /\ d \in IdsIn(temp[p].base)
                    /\ PathIn(temp[p].list, d) = PathIn(temp[p].base, d)
<1>1. LocalOK /\ Fits(pc[p], op[p], session[p], temp[p])
  BY TypedSplit DEF HubInv, SessionsFit
<1>2. op[p].path \in Folders /\ op[p].id \in ProjectIds \cup {None}
  BY <1>1 DEF LocalOK, Operation
<1> DEFINE base == temp[p].base
           list == temp[p].list
<1>3. /\ base \in Seq(Entry) /\ Readable(base) /\ list \in Seq(Entry) /\ Readable(list)
  BY <1>1 DEF Fits, LocalOK, Lists, Edit, HubInv, ListsGood, Good
<1>4. CASE op[p].kind = "remove"
  <2>1. list = Without(base, op[p].id)
    BY <1>4 DEF Edited
  <2> HIDE DEF base, list
  <2>2. /\ IdsIn(list) = IdsIn(base) \ {op[p].id}
        /\ \A d \in IdsIn(base) \ {op[p].id} : PathIn(list, d) = PathIn(base, d)
    BY <1>3, <2>1, WithoutFacts
  <2> QED
    BY <1>4, <2>2 DEF base, list
<1>5. CASE op[p].kind = "relocate" /\ session[p] = None
  <2> DEFINE e == [id |-> op[p].id, path |-> op[p].path]
  <2>1. list = Relocated(base, e) /\ op[p].id \in IdsIn(base)
    BY <1>5 DEF Edited
  <2>2. Concerned(p) = op[p].id
    BY <1>5 DEF Concerned
  <2>3. e \in Entry /\ e.id = op[p].id /\ e.path = op[p].path
    BY <1>2, <1>3, <2>1, ListFacts DEF Entry
  <2> HIDE DEF base, list, e
  <2>4. /\ IdsIn(list) = IdsIn(base) /\ PathIn(list, e.id) = e.path
        /\ \A d \in IdsIn(base) \ {e.id} : PathIn(list, d) = PathIn(base, d)
    BY <1>3, <2>1, <2>3, RelocatedFacts
  <2> QED
    BY <1>5, <2>1, <2>2, <2>3, <2>4 DEF base, list
<1>6. CASE op[p].kind # "remove" /\ ~(op[p].kind = "relocate" /\ session[p] = None)
  <2> DEFINE e == [id |-> session[p], path |-> op[p].path]
  <2>1. list = Recorded(base, e)
    BY <1>6 DEF Edited
  <2>2. session[p] \in ProjectIds /\ session[p] # None
    BY <1>1, <1>6 DEF Fits, LocalOK
  <2>3. Concerned(p) = session[p]
    BY <2>2 DEF Concerned
  <2>4. e \in Entry /\ e.id = session[p] /\ e.path = op[p].path
    BY <1>2, <2>2 DEF Entry
  <2> HIDE DEF base, list, e
  <2>5. /\ e.id \in IdsIn(list) /\ PathIn(list, e.id) = e.path
        /\ \A d \in IdsIn(list) \ {e.id} : d \in IdsIn(base) /\ PathIn(list, d) = PathIn(base, d)
    BY <1>3, <2>1, <2>4, RecordedFacts
  <2> QED
    BY <1>6, <2>3, <2>4, <2>5 DEF base, list
<1> QED
  BY <1>4, <1>5, <1>6

\* If the list that was read is what is remembered, so is the one written.
LEMMA WrittenExact ==
    ASSUME HubInv, NEW p \in Processes, pc[p] \in {"fresh", "cleanup"}, Edited(p),
           Exact(temp[p].base), Written(p), catalog' = temp[p].list
    PROVE  Exact(Listed)' /\ pc'[p] \in {"idle", "relocated", "active"}
<1>1. LocalOK /\ SharedOK /\ Fits(pc[p], op[p], session[p], temp[p])
  BY TypedSplit DEF HubInv, SessionsFit
<1>2. pc[p] \in Writing
  BY DEF Writing
<1>3. pc'[p] \in {"idle", "relocated", "active"}
  BY <1>1 DEF Written, Ends, Goes, LocalOK
<1> DEFINE base == temp[p].base
           list == temp[p].list
<1>4. list \in Seq(Entry)
  BY <1>1, <1>2 DEF Fits, LocalOK, Lists, Edit
<1>5. Listed' = list
  BY <1>4, ListFacts DEF Listed
<1>6. remembered' = [d \in ProjectIds |->
        IF d = Concerned(p) /\ op[p].kind # "remove" THEN op[p].path
        ELSE IF d \in IdsIn(base) \ IdsIn(list) THEN None
        ELSE remembered[d]]
  BY DEF Written, Remembers
<1>7. ASSUME NEW d \in ProjectIds, remembered'[d] # None
      PROVE  d \in IdsIn(list) /\ PathIn(list, d) = remembered'[d]
  <2>1. CASE d = Concerned(p) /\ op[p].kind # "remove"
    BY <1>2, <1>6, <2>1, EditedFacts
  <2>2. CASE ~(d = Concerned(p) /\ op[p].kind # "remove")
    <3>1. d \notin IdsIn(base) \ IdsIn(list) /\ remembered'[d] = remembered[d]
      BY <1>6, <1>7, <2>2
    <3>2. d \in IdsIn(base) /\ PathIn(base, d) = remembered[d]
      BY <1>7, <3>1 DEF Exact, Remembered
    <3> QED
      BY <1>2, <2>2, <3>1, <3>2, EditedFacts
  <2> QED
    BY <2>1, <2>2
<1> HIDE DEF list
<1>8. Exact(Listed)'
  BY <1>5, <1>7 DEF Exact, Remembered
<1> QED
  BY <1>3, <1>8

\* What is known while p is the only one at work.
KnownAt(p) == Follows(p) /\ (~Replacing(p) => Exact(Listed))

LEMMA KnownElsewhere ==
    ASSUME NEW p \in Processes, Exact(Listed), UNCHANGED <<catalog, remembered>>,
           pc'[p] \notin Writing \cup {"locating"}
    PROVE  KnownAt(p)'
BY DEF KnownAt, Follows, Replacing, Writing, Exact, Remembered, Listed

LEMMA KnownEdited ==
    ASSUME NEW p \in Processes, Exact(Listed), UNCHANGED <<catalog, remembered>>,
           pc'[p] = "temp", temp'[p].base = Listed, Edited(p)'
    PROVE  KnownAt(p)'
<1>1. Listed' = Listed /\ Exact(Listed)'
  BY DEF Listed, Exact, Remembered
<1>2. ~Replacing(p)' /\ Follows(p)'
  BY <1>1 DEF Follows, Replacing
<1> QED
  BY <1>1, <1>2 DEF KnownAt

LEMMA KnownOpens ==
    ASSUME HubInv, NEW p \in Processes, KnownAt(p),
           \/ \E f \in Folders, d \in ProjectIds : BeginCreate(p, f, d)
           \/ RecheckTarget(p) \/ PublishFolder(p) \/ Rollback(p) \/ RemoveTree(p)
           \/ OpenCreated(p)
           \/ \E f \in Folders : OpenFolder(p, f)
           \/ \E d \in ProjectIds : OpenRecent(p, d)
           \/ OpenLocated(p) \/ OpenRelocated(p) \/ CloseProject(p)
    PROVE  KnownAt(p)'
<1>1. pc[p] \notin Writing /\ UNCHANGED <<catalog, remembered>>
  BY DEF BeginCreate, RecheckTarget, PublishFolder, Rollback, RemoveTree, OpenCreated, OpenFolder,
         OpenRecent, OpenLocated, OpenRelocated, CloseProject, Requested, Idle, shared, Writing
<1>2. pc'[p] \notin Writing \cup {"locating"}
  <2>1. LocalOK
    BY TypedSplit DEF HubInv
  <2>2. ASSUME NEW x, Goes(p, x) PROVE pc'[p] = x
    BY <2>1, <2>2 DEF Goes, LocalOK
  <2>3. ASSUME NEW c, Ends(p, c) \/ Fails(p, c) PROVE pc'[p] \in {"idle", "rollback"}
    BY <2>2, <2>3 DEF Ends, Fails
  <2>4. ASSUME NEW kind, NEW d, Locates(p, kind, d) PROVE pc'[p] \in {"idle", "rollback", "located"}
    BY <2>2, <2>3, <2>4 DEF Locates
  <2>5. ASSUME NEW f \in Folders, NEW d \in ProjectIds, BeginCreate(p, f, d)
        PROVE  pc'[p] \in {"idle", "rollback", "staged"}
    BY <2>2, <2>3, <2>5 DEF BeginCreate
  <2>6. ASSUME NEW f \in Folders, OpenFolder(p, f) PROVE pc'[p] \in {"idle", "rollback", "opened"}
    BY <2>2, <2>3, <2>6 DEF OpenFolder
  <2>7. ASSUME \/ RecheckTarget(p) \/ PublishFolder(p) \/ Rollback(p) \/ RemoveTree(p)
               \/ OpenCreated(p) \/ OpenLocated(p) \/ CloseProject(p)
        PROVE  pc'[p] \in {"idle", "rollback", "checked", "published", "removing", "opened"}
    <3>1. CASE RecheckTarget(p)
      BY <2>2, <2>3, <3>1 DEF RecheckTarget
    <3>2. CASE PublishFolder(p)
      BY <2>2, <2>3, <3>2 DEF PublishFolder
    <3>3. CASE Rollback(p) \/ RemoveTree(p) \/ CloseProject(p)
      BY <2>2, <2>3, <3>3 DEF Rollback, RemoveTree, CloseProject
    <3>4. CASE OpenCreated(p) \/ OpenLocated(p)
      BY <2>2, <2>3, <3>4 DEF OpenCreated, OpenLocated
    <3> QED
      BY <2>7, <3>1, <3>2, <3>3, <3>4
  <2>8. ASSUME OpenRelocated(p) \/ \E d \in ProjectIds : OpenRecent(p, d)
        PROVE  pc'[p] \in {"idle", "rollback", "located"}
    BY <2>4, <2>8 DEF OpenRelocated, OpenRecent
  <2> QED
    BY <2>5, <2>6, <2>7, <2>8 DEF Writing
<1>3. Exact(Listed)
  BY <1>1 DEF KnownAt, Replacing, Writing
<1> QED
  BY <1>1, <1>2, <1>3, KnownElsewhere

LEMMA KnownEdits ==
    ASSUME HubInv, NEW p \in Processes, KnownAt(p),
           \/ RecordOpened(p) \/ Relocate(p)
           \/ \E d \in ProjectIds : RemoveRecent(p, d)
           \/ \E f \in Folders, d \in ProjectIds : BeginRelocate(p, d, f)
    PROVE  KnownAt(p)'
<1>1. LocalOK /\ SharedOK /\ Fits(pc[p], op[p], session[p], temp[p])
  BY TypedSplit DEF HubInv, SessionsFit
<1>2. pc[p] \notin Writing /\ UNCHANGED <<catalog, remembered>>
  BY DEF RecordOpened, Relocate, RemoveRecent, BeginRelocate, Requested, Idle, shared, Writing
<1>3. Exact(Listed)
  BY <1>2 DEF KnownAt, Replacing, Writing
<1>4. ASSUME NEW x, Goes(p, x) PROVE pc'[p] = x
  BY <1>1, <1>4 DEF Goes, LocalOK
<1>5. ASSUME NEW c, Ends(p, c) \/ Fails(p, c) PROVE KnownAt(p)'
  <2>1. pc'[p] \in {"idle", "rollback"}
    BY <1>4, <1>5 DEF Ends, Fails
  <2> QED
    BY <1>2, <1>3, <2>1, KnownElsewhere DEF Writing
<1>6. ASSUME NEW base, NEW list, Edits(p, base, list)
      PROVE  /\ pc'[p] = "temp" /\ temp'[p] = [base |-> base, list |-> list]
             /\ session'[p] = session[p]
  BY <1>1, <1>4, <1>6 DEF Edits, LocalOK
<1>7. CASE RecordOpened(p)
  <2>1. CASE Fails(p, "identity_conflict")
    BY <1>5, <2>1
  <2>2. CASE ~Fails(p, "identity_conflict")
    <3> DEFINE e == [id |-> session[p], path |-> op[p].path]
    <3>1. /\ Edits(p, Listed, Recorded(Listed, e)) /\ UNCHANGED op
          /\ session[p] \in IdsIn(Listed) => PathIn(Listed, session[p]) = op[p].path
      BY <1>7, <2>2 DEF RecordOpened
    <3>2. pc'[p] = "temp" /\ temp'[p] = [base |-> Listed, list |-> Recorded(Listed, e)]
          /\ session'[p] = session[p] /\ op'[p] = op[p]
      BY <1>6, <3>1
    <3>3. op[p].kind # "remove" /\ session[p] # None
      <4>1. session[p] # None
        BY <1>1, <1>7 DEF RecordOpened, Fits
      <4>2. op[p].kind # "remove"
        BY <1>1, <1>7 DEF RecordOpened, Fits, Writing
      <4> QED
        BY <4>1, <4>2
    <3>4. temp'[p].base = Listed /\ temp'[p].list = Recorded(Listed, e)
      BY <3>2
    <3>5. Edited(p)'
      BY <3>1, <3>2, <3>3, <3>4 DEF Edited
    <3> QED
      BY <1>2, <1>3, <3>2, <3>5, KnownEdited
  <2> QED
    BY <2>1, <2>2
<1>8. CASE Relocate(p)
  <2> DEFINE e == [id |-> op[p].id, path |-> op[p].path]
             base == temp[p].base
  <2>1. base = Listed /\ op[p].id \in IdsIn(Listed)
    BY <1>8 DEF KnownAt, Follows, Relocate
  <2>2. op[p].kind = "relocate" /\ session[p] = None
    BY <1>1, <1>8 DEF Relocate, Fits
  <2>3. CASE Edits(p, base, Relocated(base, e)) /\ UNCHANGED op
    <3>1. pc'[p] = "temp" /\ temp'[p] = [base |-> Listed, list |-> Relocated(Listed, e)]
          /\ session'[p] = session[p] /\ op'[p] = op[p]
      BY <1>6, <2>1, <2>3
    <3>2. Edited(p)'
      BY <2>1, <2>2, <3>1 DEF Edited
    <3> QED
      BY <1>2, <1>3, <3>1, <3>2, KnownEdited
  <2>4. CASE \E c \in Codes : Ends(p, c)
    BY <1>5, <2>4
  <2> QED
    BY <1>8, <2>3, <2>4 DEF Relocate, Codes
<1>9. ASSUME NEW d \in ProjectIds, RemoveRecent(p, d)
      PROVE  KnownAt(p)'
  <2>1. CASE d \in IdsIn(Listed)
    <3>1. /\ op' = [op EXCEPT ![p] = [kind |-> "remove", path |-> PathIn(Listed, d), id |-> d]]
          /\ Edits(p, Listed, Without(Listed, d))
      BY <1>9, <2>1 DEF RemoveRecent, Begins
    <3>2. /\ op'[p].kind = "remove" /\ op'[p].id = d
          /\ pc'[p] = "temp" /\ temp'[p] = [base |-> Listed, list |-> Without(Listed, d)]
      BY <1>1, <1>6, <3>1 DEF LocalOK
    <3>3. Edited(p)'
      BY <2>1, <3>2 DEF Edited
    <3> QED
      BY <1>2, <1>3, <3>2, <3>3, KnownEdited
  <2>2. CASE d \notin IdsIn(Listed)
    BY <1>5, <1>9, <2>2 DEF RemoveRecent
  <2> QED
    BY <2>1, <2>2
<1>10. ASSUME NEW f \in Folders, NEW d \in ProjectIds, BeginRelocate(p, d, f)
       PROVE  KnownAt(p)'
  <2>1. CASE d \in IdsIn(Listed)
    <3>1. /\ pc'[p] = "locating" /\ temp'[p].base = Listed /\ op'[p].id = d
      BY <1>1, <1>4, <1>10, <2>1 DEF BeginRelocate, Begins, LocalOK
    <3>2. Listed' = Listed /\ Exact(Listed)'
      BY <1>2, <1>3 DEF Listed, Exact, Remembered
    <3> QED
      BY <2>1, <3>1, <3>2 DEF KnownAt, Follows, Replacing, Writing
  <2>2. CASE d \notin IdsIn(Listed)
    BY <1>5, <1>10, <2>2 DEF BeginRelocate
  <2> QED
    BY <2>1, <2>2
<1> QED
  BY <1>7, <1>8, <1>9, <1>10

\* From one place of a write to the next, with nothing done to the catalog.
LEMMA KnownOnwards ==
    ASSUME HubInv, NEW p \in Processes, KnownAt(p),
           pc[p] \in {"temp", "dropped"}, NEW x \in {"dropped", "inspected", "fresh"}, Goes(p, x),
           UNCHANGED <<catalog, remembered, op, local>>
    PROVE  KnownAt(p)'
<1>1. pc'[p] = x
  BY TypedSplit DEF HubInv, Goes, LocalOK
<1>2. Edited(p) /\ temp[p].base = Listed /\ Exact(Listed)
  BY DEF KnownAt, Follows, Replacing, Writing
<1>3. Listed' = Listed /\ Exact(Listed)' /\ temp' = temp /\ Edited(p)'
  BY <1>2 DEF Listed, Exact, Remembered, Edited, local
<1> QED
  BY <1>1, <1>2, <1>3 DEF KnownAt, Follows, Replacing, Writing

LEMMA KnownWrites ==
    ASSUME HubInv, NEW p \in Processes, KnownAt(p), Undivided(p),
           \/ DropBackup(p) \/ InspectCatalog(p) \/ StagePrevious(p)
           \/ PublishCatalog(p) \/ CleanBackup(p) \/ RestorePrevious(p)
    PROVE  KnownAt(p)'
<1>1. LocalOK /\ SharedOK /\ Fits(pc[p], op[p], session[p], temp[p])
  BY TypedSplit DEF HubInv, SessionsFit
<1>2. ASSUME NEW x, Goes(p, x) PROVE pc'[p] = x
  BY <1>1, <1>2 DEF Goes, LocalOK
<1>3. pc[p] \in Writing => temp[p].base \in Seq(Entry) /\ temp[p].list \in Seq(Entry)
  BY <1>1 DEF Fits, LocalOK, Lists, Edit
<1>4. CASE DropBackup(p)
  BY <1>4, KnownOnwards DEF DropBackup
<1>5. CASE InspectCatalog(p)
  <2>1. \E x \in {"inspected", "fresh"} : Goes(p, x)
    BY <1>5 DEF InspectCatalog
  <2> QED
    BY <1>5, <2>1, KnownOnwards DEF InspectCatalog, shared
<1>6. CASE StagePrevious(p)
  <2>1. pc[p] = "inspected" /\ catalog # NoFile /\ UNCHANGED <<op, remembered>>
    BY <1>6 DEF StagePrevious, Undivided
  <2>2. backup' = catalog /\ catalog' = NoFile /\ pc'[p] = "previous" /\ UNCHANGED local
    BY <1>2, <1>6, <2>1 DEF StagePrevious
  <2>3. Edited(p) /\ temp[p].base = catalog /\ Exact(temp[p].base)
    BY <2>1 DEF KnownAt, Follows, Replacing, Writing, Listed
  <2>4. temp' = temp /\ Edited(p)' /\ Exact(temp[p].base)'
    BY <2>1, <2>2, <2>3 DEF Edited, Exact, Remembered, local
  <2> QED
    BY <2>2, <2>3, <2>4 DEF KnownAt, Follows, Replacing, Writing
<1>7. CASE PublishCatalog(p)
  <2>1. catalog' = temp[p].list /\ UNCHANGED op
    BY <1>7 DEF PublishCatalog
  <2>2. CASE pc[p] = "fresh"
    <3>1. Edited(p) /\ Exact(temp[p].base)
      BY <2>2 DEF KnownAt, Follows, Replacing, Writing
    <3>2. Written(p)
      BY <1>7, <2>2 DEF PublishCatalog
    <3>3. Exact(Listed)' /\ pc'[p] \in {"idle", "relocated", "active"}
      BY <2>1, <2>2, <3>1, <3>2, WrittenExact
    <3> QED
      BY <3>3 DEF KnownAt, Follows, Replacing, Writing
  <2>3. CASE pc[p] = "previous"
    <3>1. pc'[p] = "cleanup" /\ UNCHANGED <<local, remembered>>
      BY <1>2, <1>7, <2>3 DEF PublishCatalog
    <3>2. Edited(p) /\ Exact(temp[p].base)
      BY <2>3 DEF KnownAt, Follows, Replacing, Writing
    <3>3. temp' = temp /\ Edited(p)' /\ Exact(temp[p].base)'
      BY <2>1, <3>1, <3>2 DEF Edited, Exact, Remembered, local
    <3> QED
      BY <2>1, <3>1, <3>3 DEF KnownAt, Follows, Replacing, Writing
  <2> QED
    BY <1>7, <2>2, <2>3 DEF PublishCatalog
<1>8. CASE CleanBackup(p)
  <2>1. Edited(p) /\ Exact(temp[p].base) /\ catalog = temp[p].list
    BY <1>8 DEF CleanBackup, KnownAt, Follows, Replacing, Writing
  <2>2. Exact(Listed)' /\ pc'[p] \in {"idle", "relocated", "active"}
    BY <1>8, <2>1, WrittenExact DEF CleanBackup
  <2> QED
    BY <2>2 DEF KnownAt, Follows, Replacing, Writing
<1>9. CASE RestorePrevious(p)
  <2>1. catalog = NoFile /\ backup = temp[p].base /\ Exact(temp[p].base)
    BY <1>9 DEF RestorePrevious, KnownAt, Follows, Replacing
  <2>2. backup # NoFile
    BY <1>3, <1>9, <2>1, ListFacts DEF RestorePrevious, Writing
  <2>3. catalog' = temp[p].base /\ pc'[p] \in {"idle", "rollback"} /\ UNCHANGED remembered
    BY <1>2, <1>9, <2>1, <2>2 DEF RestorePrevious, Fails, Ends
  <2>4. Listed' = temp[p].base
    BY <2>1, <2>2, <2>3 DEF Listed
  <2>5. Exact(Listed)'
    BY <2>1, <2>3, <2>4 DEF Exact, Remembered
  <2> QED
    BY <2>3, <2>5 DEF KnownAt, Follows, Replacing, Writing
<1> QED
  BY <1>4, <1>5, <1>6, <1>7, <1>8, <1>9

LEMMA KnownFaults ==
    ASSUME HubInv, NEW p \in Processes, KnownAt(p), Undivided(p), faults' <= 1, IoFails(p)
    PROVE  KnownAt(p)'
<1>1. LocalOK /\ SharedOK /\ Fits(pc[p], op[p], session[p], temp[p])
  BY TypedSplit DEF HubInv, SessionsFit
<1>2. ASSUME NEW x, Goes(p, x) PROVE pc'[p] = x
  BY <1>1, <1>2 DEF Goes, LocalOK
<1>3. pc[p] # "restoring" /\ UNCHANGED <<shared, op>>
  <2>1. faults' = faults + 1 /\ faults \in Nat
    BY <1>1 DEF IoFails, SharedOK
  <2> QED
    BY <2>1 DEF Undivided, IoFails
<1>4. CASE pc[p] = "temp" /\ Goes(p, "dropped") /\ UNCHANGED <<local, remembered>>
  BY <1>3, <1>4, KnownOnwards DEF shared
<1>5. CASE pc[p] = "previous" /\ Goes(p, "restoring") /\ UNCHANGED <<local, remembered>>
  <2>1. pc'[p] = "restoring" /\ temp' = temp /\ UNCHANGED <<catalog, backup>>
    BY <1>2, <1>3, <1>5 DEF local, shared
  <2>2. Edited(p)' /\ Exact(temp[p].base)' /\ catalog = NoFile /\ backup = temp[p].base
    BY <1>3, <1>5 DEF KnownAt, Follows, Replacing, Writing, Edited, Exact, Remembered, local
  <2> QED
    BY <2>1, <2>2 DEF KnownAt, Follows, Replacing, Writing
<1>6. CASE pc[p] = "cleanup" /\ Written(p)
  <2>1. Edited(p) /\ Exact(temp[p].base) /\ catalog' = temp[p].list
    BY <1>3, <1>6 DEF KnownAt, Follows, Replacing, Writing, shared
  <2>2. Exact(Listed)' /\ pc'[p] \in {"idle", "relocated", "active"}
    BY <1>6, <2>1, WrittenExact
  <2> QED
    BY <2>2 DEF KnownAt, Follows, Replacing, Writing
<1>7. CASE ~Replacing(p) /\ UNCHANGED remembered /\ pc'[p] \in {"idle", "rollback"}
  BY <1>3, <1>7, KnownElsewhere DEF KnownAt, Writing, shared
<1>8. CASE /\ pc[p] \in {"staged", "checked", "published", "located", "locating",
                       "relocated", "opened", "temp", "dropped", "inspected", "fresh"}
           /\ Fails(p, "io_failure") /\ UNCHANGED remembered
  <2>1. pc'[p] \in {"idle", "rollback"}
    BY <1>2, <1>8 DEF Fails, Ends
  <2> QED
    BY <1>7, <1>8, <2>1 DEF Replacing
<1>9. CASE pc[p] \in {"rollback", "removing"} /\ Goes(p, "idle") /\ UNCHANGED <<local, remembered>>
  BY <1>2, <1>7, <1>9 DEF Replacing
<1> QED
  BY <1>3, <1>4, <1>5, <1>6, <1>8, <1>9 DEF IoFails

LEMMA FaultsGrow ==
    ASSUME Typed, [Next]_vars
    PROVE  /\ faults \in Nat /\ faults' \in Nat /\ faults <= faults'
           /\ crashes \in Nat /\ crashes' \in Nat /\ crashes <= crashes'
           /\ externals \in Nat /\ externals' \in Nat /\ externals <= externals'
           /\ (\E p \in Processes : Crash(p)) => crashes' > 0
           /\ alone' => alone
<1>1. SharedOK
  BY TypedSplit
<1>2. /\ faults' = faults \/ faults' = faults + 1
      /\ crashes' = crashes \/ crashes' = crashes + 1
      /\ externals' = externals \/ externals' = externals + 1
      /\ alone' => alone
  <2>1. ASSUME NEW p \in Processes, Request(p)
        PROVE  UNCHANGED <<faults, crashes, externals>> /\ (alone' => alone)
    <3>1. Requested(p) \/ CloseProject(p)
      BY <2>1, AsksOrCloses
    <3>2. CASE Requested(p)
      BY <3>2 DEF Requested
    <3>3. CASE CloseProject(p)
      BY <3>3 DEF CloseProject, counted
    <3> QED
      BY <3>1, <3>2, <3>3
  <2>2. ASSUME NEW p \in Processes, Continue(p)
        PROVE  UNCHANGED <<faults, crashes, externals, alone>>
    BY <2>2 DEF Continue, RecheckTarget, PublishFolder, Rollback, RemoveTree, OpenCreated,
           OpenLocated, RecordOpened, Relocate, OpenRelocated, DropBackup, InspectCatalog,
           StagePrevious, PublishCatalog, CleanBackup, RestorePrevious, counted
  <2>3. CASE External \/ UNCHANGED vars \/ \E p \in Processes : IoFails(p)
    <3>1. CASE External
      BY <3>1 DEF External
    <3>2. CASE UNCHANGED vars
      BY <3>2 DEF vars, counted
    <3>3. CASE \E p \in Processes : IoFails(p)
      BY <3>3 DEF IoFails
    <3> QED
      BY <2>3, <3>1, <3>2, <3>3
  <2>4. CASE \E p \in Processes : Crash(p)
    BY <2>4 DEF Crash
  <2> QED
    BY <2>1, <2>2, <2>3, <2>4 DEF Next, Rest
<1>3. (\E p \in Processes : Crash(p)) => crashes' = crashes + 1
  BY DEF Crash
<1> QED
  BY <1>1, <1>2, <1>3 DEF SharedOK

\* A step of p while it is the only one at work.
LEMMA KnownStep ==
    ASSUME HubInv, NEW p \in Processes, KnownAt(p), Undivided(p), Undisturbed',
           Request(p) \/ Continue(p) \/ IoFails(p) \/ Crash(p)
    PROVE  KnownAt(p)'
<1>1. Next /\ Typed
  BY DEF Next, HubInv
<1>2. ~Crash(p) /\ faults' <= 1
  BY <1>1, FaultsGrow DEF Undisturbed
<1> QED
  BY <1>2, KnownOpens, KnownEdits, KnownWrites, KnownFaults DEF Request, Continue

LEMMA CatalogNext ==
    ASSUME HubInv, AloneFollows, CatalogFollows, [Next]_vars
    PROVE  CatalogFollows'
<1> SUFFICES ASSUME Undisturbed'
             PROVE  (/\ \A p \in Processes : Follows(p)
                     /\ (\A p \in Processes : ~Replacing(p)) => Exact(Listed))'
  BY DEF CatalogFollows
<1>1. Typed
  BY DEF HubInv
<1>2. Undisturbed
  BY <1>1, FaultsGrow DEF Undisturbed
<1>3. /\ OneAtATime /\ \A p \in Processes : Undivided(p) /\ Follows(p)
      /\ (\A p \in Processes : ~Replacing(p)) => Exact(Listed)
  BY <1>2 DEF CatalogFollows, AloneFollows, Undisturbed
<1>4. ASSUME NEW p \in Processes, Request(p) \/ Continue(p) \/ IoFails(p) \/ Crash(p)
      PROVE  (/\ \A q \in Processes : Follows(q)
              /\ (\A q \in Processes : ~Replacing(q)) => Exact(Listed))'
  <2>1. \A q \in Processes \ {p} :
           pc'[q] = pc[q] /\ op'[q] = op[q] /\ session'[q] = session[q] /\ temp'[q] = temp[q]
    BY <1>1, <1>4, OthersRest
  <2>2. CASE pc[p] # "active"
    <3>1. \A q \in Processes \ {p} : pc[q] \in {"idle", "active"}
      <4>1. alone'
        BY DEF Undisturbed
      <4>2. CASE Idle(p)
        BY <1>1, <1>4, <4>1, <4>2, AtWork DEF Resting
      <4>3. CASE ~Idle(p)
        BY <1>3, <2>2, <4>3 DEF OneAtATime, Resting, Idle
      <4> QED
        BY <4>2, <4>3
    <3>2. \A q \in Processes \ {p} : ~Replacing(q) /\ ~Replacing(q)' /\ Follows(q)'
      BY <2>1, <3>1 DEF Replacing, Follows, Writing
    <3>3. KnownAt(p)
      BY <1>3, <3>2 DEF KnownAt
    <3>4. KnownAt(p)'
      BY <1>3, <1>4, <3>3, KnownStep
    <3> QED
      BY <3>2, <3>4 DEF KnownAt
  <2>3. CASE pc[p] = "active"
    <3>1. pc'[p] = "idle" /\ UNCHANGED <<shared, remembered, op>>
      BY <1>1, <1>4, <2>3, AtWork
    <3>2. \A q \in Processes : Replacing(q)' <=> Replacing(q)
      BY <2>1, <2>3, <3>1 DEF Replacing
    <3>3. Listed' = Listed /\ (Exact(Listed) => Exact(Listed)')
      BY <3>1 DEF Listed, Exact, Remembered, shared
    <3>4. ASSUME NEW q \in Processes PROVE Follows(q)'
      <4>1. CASE q = p
        BY <3>1, <4>1 DEF Follows, Replacing, Writing
      <4>2. CASE q # p
        <5>1. Edited(q) => Edited(q)'
          BY <2>1, <4>2 DEF Edited
        <5>2. Exact(temp[q].base) => Exact(temp[q].base)'
          BY <2>1, <3>1, <4>2 DEF Exact, Remembered
        <5> QED
          BY <1>3, <2>1, <3>1, <3>3, <4>2, <5>1, <5>2 DEF Follows, Replacing, shared
      <4> QED
        BY <4>1, <4>2
    <3> QED
      BY <1>3, <3>2, <3>3, <3>4
  <2> QED
    BY <2>2, <2>3
<1>5. CASE External \/ UNCHANGED vars
  <2>1. UNCHANGED <<pc, op, session, temp, catalog, backup, remembered>>
    BY <1>5 DEF External, vars, shared, local
  <2>2. \A p \in Processes : Follows(p)'
    BY <1>3, <2>1 DEF Follows, Replacing, Edited, Exact, Remembered, Listed
  <2> QED
    BY <1>3, <2>1, <2>2 DEF Replacing, Exact, Remembered, Listed
<1> QED
  BY <1>4, <1>5 DEF Next, Rest

CatalogInv == HubInv /\ AloneFollows /\ CatalogFollows

LEMMA InitCatalogInv == Init => CatalogInv
<1> SUFFICES ASSUME Init PROVE CatalogInv
  OBVIOUS
<1>1. HubInv
  BY InitHubInv
<1>2. \A p \in Processes : pc[p] = "idle"
  BY DEF Init
<1>3. AloneFollows
  BY <1>2 DEF AloneFollows, OneAtATime, Resting, Undivided
<1>4. \A d \in ProjectIds : remembered[d] = None
  BY DEF Init
<1>5. CatalogFollows
  BY <1>2, <1>4 DEF CatalogFollows, Follows, Replacing, Exact, Writing
<1> QED
  BY <1>1, <1>3, <1>5 DEF CatalogInv

LEMMA NextCatalogInv ==
    ASSUME CatalogInv, [Next]_vars PROVE CatalogInv'
<1>1. HubInv'
  BY TypedNext, ListsNext, IdsNext DEF HubInv, CatalogInv
<1> QED
  BY <1>1, AloneNext, CatalogNext DEF CatalogInv, HubInv

THEOREM CatalogInvAlways == Spec => []CatalogInv
<1>1. CatalogInv /\ [Next]_vars => CatalogInv'
  BY NextCatalogInv
<1> QED
  BY <1>1, InitCatalogInv, PTL DEF Spec

\* The catalog can always be read; and while operations do not overlap, nothing
\* dies and at most one call fails, it has every project that was recorded and
\* not removed, where it was recorded.
THEOREM CatalogIsKept == Spec => []CatalogRemembers
<1>1. CatalogInv => CatalogRemembers
  <2> SUFFICES ASSUME CatalogInv PROVE CatalogRemembers
    OBVIOUS
  <2>1. CatalogReadable
    BY DEF CatalogInv, HubInv, ListsGood, Good, CatalogReadable
  <2>2. ASSUME Undisturbed, \A p \in Processes : Resting(p)
        PROVE  \A d \in ProjectIds : remembered[d] # None => Remembered(Listed, d)
    <3>1. \A p \in Processes : ~Replacing(p)
      BY <2>2 DEF Resting, Replacing
    <3> QED
      BY <2>2, <3>1 DEF CatalogInv, CatalogFollows, Exact
  <2> QED
    BY <2>1, <2>2 DEF CatalogRemembers, RememberedWhenIdle
<1> QED
  BY <1>1, CatalogInvAlways, PTL

\* Only a write that succeeds changes what is remembered.
LEMMA RemembersWhenWritten ==
    ASSUME [Next]_vars, remembered' # remembered
    PROVE  \E p \in Processes : pc[p] \in {"fresh", "cleanup"} /\ Written(p)
<1>1. ASSUME NEW p \in Processes, Request(p)
      PROVE  remembered' = remembered
  BY <1>1 DEF Request, BeginCreate, BeginRelocate, OpenFolder, OpenRecent, RemoveRecent, CloseProject
<1>2. ASSUME NEW p \in Processes, Continue(p)
      PROVE  remembered' = remembered \/ (pc[p] \in {"fresh", "cleanup"} /\ Written(p))
  <2>1. CASE PublishCatalog(p)
    BY <2>1 DEF PublishCatalog
  <2>2. CASE CleanBackup(p)
    BY <2>2 DEF CleanBackup
  <2>3. CASE ~PublishCatalog(p) /\ ~CleanBackup(p)
    BY <1>2, <2>3 DEF Continue, RecheckTarget, PublishFolder, Rollback, RemoveTree, OpenCreated,
         OpenLocated, RecordOpened, Relocate, OpenRelocated, DropBackup, InspectCatalog,
         StagePrevious, RestorePrevious
  <2> QED
    BY <2>1, <2>2, <2>3
<1>3. ASSUME NEW p \in Processes, IoFails(p)
      PROVE  remembered' = remembered \/ (pc[p] \in {"fresh", "cleanup"} /\ Written(p))
  BY <1>3 DEF IoFails
<1>4. ASSUME NEW p \in Processes, Crash(p)
      PROVE  remembered' = remembered
  BY <1>4 DEF Crash
<1>5. CASE External \/ UNCHANGED vars
  BY <1>5 DEF External, vars
<1> QED
  BY <1>1, <1>2, <1>3, <1>4, <1>5 DEF Next, Rest

MovesOnlyWhenRelocated ==
    \A d \in ProjectIds :
        /\ Undisturbed /\ remembered[d] # None
        /\ remembered'[d] \notin {None, remembered[d]}
        => \E p \in Processes : op[p].kind = "relocate" /\ op[p].id = d /\ pc'[p] # pc[p]

\* The place the catalog has for a project changes by a relocation only, as long
\* as operations do not overlap, nothing dies and at most one call fails.
THEOREM PlacesMoveByRelocation == Spec => NoSilentPathUpdate
<1>1. CatalogInv /\ [Next]_vars => [MovesOnlyWhenRelocated]_vars
  <2> SUFFICES ASSUME CatalogInv, [Next]_vars, NEW d \in ProjectIds,
                      Undisturbed, remembered[d] # None,
                      remembered'[d] \notin {None, remembered[d]}
               PROVE  \E p \in Processes :
                         op[p].kind = "relocate" /\ op[p].id = d /\ pc'[p] # pc[p]
    BY DEF MovesOnlyWhenRelocated
  <2>1. PICK p \in Processes : pc[p] \in {"fresh", "cleanup"} /\ Written(p)
    BY RemembersWhenWritten
  <2>2. LocalOK /\ Fits(pc[p], op[p], session[p], temp[p])
    BY TypedSplit DEF CatalogInv, HubInv, SessionsFit
  <2>3. Follows(p) /\ \A q \in Processes : ~Resting(q) => q = p
    BY <2>1 DEF CatalogInv, CatalogFollows, AloneFollows, Undisturbed, OneAtATime, Resting
  <2>4. Edited(p) /\ Exact(temp[p].base)
    <3>1. CASE pc[p] = "cleanup"
      BY <2>3, <3>1 DEF Follows, Replacing, Writing
    <3>2. CASE pc[p] = "fresh"
      <4>1. \A q \in Processes : ~Replacing(q)
        BY <2>3, <3>2 DEF Replacing, Resting
      <4>2. Exact(Listed)
        BY <4>1 DEF CatalogInv, CatalogFollows
      <4> QED
        BY <2>3, <3>2, <4>2 DEF Follows, Writing
    <3> QED
      BY <2>1, <3>1, <3>2
  <2>5. remembered' = [e \in ProjectIds |->
          IF e = Concerned(p) /\ op[p].kind # "remove" THEN op[p].path
          ELSE IF e \in IdsIn(temp[p].base) \ IdsIn(temp[p].list) THEN None
          ELSE remembered[e]]
    BY <2>1 DEF Written, Remembers
  <2>6. d = Concerned(p) /\ op[p].kind # "remove" /\ op[p].path # remembered[d]
    BY <2>5
  <2>7. d \in IdsIn(temp[p].base) /\ PathIn(temp[p].base, d) = remembered[d]
    BY <2>4 DEF Exact, Remembered
  <2>8. op[p].kind = "relocate"
    <3> SUFFICES ASSUME op[p].kind # "relocate" PROVE FALSE
      OBVIOUS
    <3>1. session[p] # None
      BY <2>1, <2>2, <2>6 DEF Fits, Writing
    <3>2. session[p] = d
      BY <2>6, <3>1 DEF Concerned
    <3>3. session[p] \in IdsIn(temp[p].base) => PathIn(temp[p].base, session[p]) = op[p].path
      BY <2>4, <2>6 DEF Edited
    <3> QED
      BY <2>6, <2>7, <3>2, <3>3
  <2>9. op[p].id = d
    BY <2>2, <2>6, <2>8 DEF Fits, Concerned
  <2>10. pc'[p] # pc[p]
    BY <2>1, <2>2 DEF Written, Ends, Goes, LocalOK
  <2> QED
    BY <2>8, <2>9, <2>10
<1>2. NoSilentPathUpdate <=> [][MovesOnlyWhenRelocated]_vars
  BY DEF NoSilentPathUpdate, MovesOnlyWhenRelocated
<1> QED
  BY <1>1, <1>2, CatalogInvAlways, PTL DEF Spec

-----------------------------------------------------------------------------
(* Creations *)

LEMMA Touches ==
    ASSUME [Next]_vars
    PROVE  \/ UNCHANGED <<folder, disturbed>>
           \/ External
           \/ \E p \in Processes : PublishFolder(p) \/ Rollback(p) \/ RemoveTree(p)
<1>1. ASSUME NEW p \in Processes, Request(p)
      PROVE  UNCHANGED <<folder, disturbed>>
  BY <1>1 DEF Request, BeginCreate, BeginRelocate, OpenFolder, OpenRecent, RemoveRecent,
              CloseProject, shared
<1>2. ASSUME NEW p \in Processes, Continue(p)
      PROVE  \/ UNCHANGED <<folder, disturbed>>
             \/ PublishFolder(p) \/ Rollback(p) \/ RemoveTree(p)
  BY <1>2 DEF Continue, RecheckTarget, OpenCreated, OpenLocated, RecordOpened, Relocate,
              OpenRelocated, DropBackup, InspectCatalog, StagePrevious, PublishCatalog,
              CleanBackup, RestorePrevious, shared
<1>3. ASSUME NEW p \in Processes, IoFails(p) \/ Crash(p)
      PROVE  UNCHANGED <<folder, disturbed>>
  BY <1>3 DEF IoFails, Crash, shared
<1>4. CASE UNCHANGED vars
  BY <1>4 DEF vars, shared
<1> QED
  BY <1>1, <1>2, <1>3, <1>4 DEF Next, Rest

\* How a process gets to the steps of a creation.
LEMMA Reaches ==
    ASSUME Typed, NEW p \in Processes, Request(p) \/ Continue(p) \/ IoFails(p) \/ Crash(p)
    PROVE  /\ pc'[p] = "staged" => \E f \in Folders, d \in ProjectIds : BeginCreate(p, f, d)
           /\ pc'[p] = "checked" => RecheckTarget(p)
           /\ pc'[p] = "published" => PublishFolder(p)
           /\ pc'[p] = "opened" =>
                 OpenCreated(p) \/ OpenLocated(p) \/ \E f \in Folders : OpenFolder(p, f)
           /\ pc'[p] = "removing" => Rollback(p)
           /\ pc'[p] = "rollback" =>
                 \/ OpenCreated(p) \/ RecordOpened(p) \/ StagePrevious(p)
                 \/ RestorePrevious(p) \/ IoFails(p)
<1> DEFINE Ways == {"staged", "checked", "published", "opened", "removing", "rollback"}
<1>1. LocalOK /\ Fits(pc[p], op[p], session[p], temp[p])
  BY TypedSplit DEF SessionsFit
<1>2. ASSUME NEW x, Goes(p, x) PROVE pc'[p] = x
  BY <1>1, <1>2 DEF Goes, LocalOK
<1>3. ASSUME NEW c, Ends(p, c) \/ Written(p)
      PROVE  pc'[p] \notin Ways
  BY <1>2, <1>3 DEF Ends, Written
<1>4. ASSUME NEW c, Fails(p, c)
      PROVE  /\ pc'[p] \in Ways => pc'[p] = "rollback"
             /\ pc[p] \in {"staged", "checked"} \/ op[p].kind # "create" => pc'[p] \notin Ways
  BY <1>2, <1>3, <1>4 DEF Fails
<1>5. ASSUME NEW kind, NEW d, Locates(p, kind, d)
      PROVE  pc'[p] \notin Ways
  BY <1>2, <1>3, <1>5 DEF Locates
<1>6. ASSUME NEW f \in Folders, NEW d \in ProjectIds, BeginCreate(p, f, d)
      PROVE  pc'[p] = "staged" \/ pc'[p] \notin Ways
  BY <1>2, <1>3, <1>6 DEF BeginCreate
<1>7. CASE RecheckTarget(p)
  <2>1. pc'[p] = "checked" \/ pc'[p] \notin Ways
    BY <1>2, <1>4, <1>7 DEF RecheckTarget
  <2> QED
    BY <1>7, <2>1
<1>8. CASE PublishFolder(p)
  <2>1. pc'[p] = "published" \/ pc'[p] \notin Ways
    BY <1>2, <1>4, <1>8 DEF PublishFolder
  <2> QED
    BY <1>8, <2>1
<1>9. CASE Rollback(p)
  <2>1. pc'[p] = "removing" \/ pc'[p] \notin Ways
    BY <1>2, <1>9 DEF Rollback
  <2> QED
    BY <1>9, <2>1
<1>10. CASE OpenCreated(p) \/ OpenLocated(p)
  <2>1. pc'[p] = "opened" \/ (pc'[p] = "rollback" /\ OpenCreated(p)) \/ pc'[p] \notin Ways
    BY <1>2, <1>3, <1>4, <1>10 DEF OpenCreated, OpenLocated
  <2> QED
    BY <1>10, <2>1
<1>11. ASSUME NEW f \in Folders, OpenFolder(p, f)
       PROVE  pc'[p] = "opened" \/ pc'[p] \notin Ways
  BY <1>2, <1>3, <1>11 DEF OpenFolder
<1>12. CASE RecordOpened(p) \/ StagePrevious(p) \/ RestorePrevious(p) \/ IoFails(p)
  <2>1. pc'[p] = "rollback" \/ pc'[p] \notin Ways
    BY <1>2, <1>3, <1>4, <1>12 DEF RecordOpened, StagePrevious, RestorePrevious, IoFails, Edits
  <2> QED
    BY <1>12, <2>1
<1>13. ASSUME RemoveTree(p) \/ Relocate(p) \/ OpenRelocated(p) \/ DropBackup(p)
              \/ InspectCatalog(p) \/ PublishCatalog(p) \/ CleanBackup(p)
              \/ CloseProject(p) \/ Crash(p)
       PROVE  pc'[p] \notin Ways
  BY <1>2, <1>3, <1>5, <1>13 DEF RemoveTree, Relocate, OpenRelocated, DropBackup,
     InspectCatalog, PublishCatalog, CleanBackup, CloseProject, Crash, Edits
<1>14. ASSUME NEW f \in Folders, NEW d \in ProjectIds, BeginRelocate(p, d, f)
       PROVE  pc'[p] \notin Ways
  BY <1>2, <1>3, <1>14 DEF BeginRelocate
<1>15. ASSUME NEW d \in ProjectIds, OpenRecent(p, d) \/ RemoveRecent(p, d)
       PROVE  pc'[p] \notin Ways
  BY <1>2, <1>3, <1>5, <1>15 DEF OpenRecent, RemoveRecent, Edits
<1> HIDE DEF Ways
<1>16. CASE pc'[p] \notin Ways
  BY <1>16 DEF Ways
<1>17. CASE \E f \in Folders, d \in ProjectIds : BeginCreate(p, f, d)
  <2>1. pc'[p] = "staged" \/ pc'[p] \notin Ways
    BY <1>6, <1>17
  <2> QED
    BY <1>16, <1>17, <2>1
<1>18. CASE \E f \in Folders : OpenFolder(p, f)
  <2>1. pc'[p] = "opened" \/ pc'[p] \notin Ways
    BY <1>11, <1>18
  <2> QED
    BY <1>16, <1>18, <2>1
<1> QED
  BY <1>7, <1>8, <1>9, <1>10, <1>12, <1>13, <1>14, <1>15, <1>16, <1>17, <1>18
     DEF Request, Continue

\* How the operation of a creation comes to an end that is not a death or the
\* end of the session.
LEMMA Finishes ==
    ASSUME Typed, NEW p \in Processes, Request(p) \/ Continue(p) \/ IoFails(p) \/ Crash(p),
           pc'[p] = "idle", Creation(p)', answer'[p] \notin {"none", "closed"}
    PROVE  /\ UNCHANGED op
           /\ \/ pc[p] \in {"staged", "checked"} /\ UNCHANGED folder
              \/ Rollback(p)
              \/ RemoveTree(p)
              \/ IoFails(p) /\ pc[p] \in {"rollback", "removing"}
<1>1. LocalOK /\ Fits(pc[p], op[p], session[p], temp[p])
  BY TypedSplit DEF SessionsFit
<1>2. ASSUME NEW x, Goes(p, x) PROVE pc'[p] = x
  BY <1>1, <1>2 DEF Goes, LocalOK
<1>3. ASSUME NEW kind, NEW f, NEW d, Begins(p, kind, f, d)
      PROVE  kind = "create" /\ d # None
  BY <1>1, <1>3 DEF Begins, Creation, LocalOK
<1>4. ~\E f \in Folders, d \in ProjectIds : BeginCreate(p, f, d) \/ BeginRelocate(p, d, f)
  <2> SUFFICES ASSUME NEW f \in Folders, NEW d \in ProjectIds,
                      BeginCreate(p, f, d) \/ BeginRelocate(p, d, f)
               PROVE  FALSE
    OBVIOUS
  <2> QED
    BY <1>2, <1>3 DEF BeginCreate, BeginRelocate
<1>5. ~\E f \in Folders : OpenFolder(p, f)
  BY <1>3 DEF OpenFolder
<1>6. ~\E d \in ProjectIds : OpenRecent(p, d) \/ RemoveRecent(p, d)
  BY <1>3 DEF OpenRecent, RemoveRecent, Locates
<1>7. ~CloseProject(p) /\ ~Crash(p)
  BY <1>1 DEF CloseProject, Crash, Ends, LocalOK
<1>8. ~OpenRelocated(p)
  BY <1>3 DEF OpenRelocated, Locates
<1>9. ASSUME NEW c, Fails(p, c), UNCHANGED op
      PROVE  pc[p] \in {"staged", "checked", "rollback", "removing"}
  <2>1. op[p].kind = "create"
    BY <1>9 DEF Creation
  <2> QED
    BY <1>2, <1>9, <2>1 DEF Fails
<1>10. ASSUME Written(p), UNCHANGED op PROVE FALSE
  <2>1. op[p].kind = "create"
    BY <1>10 DEF Creation
  <2> QED
    BY <1>2, <1>10, <2>1 DEF Written
<1>11. CASE RecheckTarget(p)
  BY <1>11 DEF RecheckTarget, shared
<1>12. CASE PublishFolder(p)
  BY <1>2, <1>12 DEF PublishFolder
<1>13. CASE Rollback(p) \/ RemoveTree(p)
  BY <1>13 DEF Rollback, RemoveTree
<1>14. CASE OpenCreated(p) \/ RecordOpened(p) \/ StagePrevious(p) \/ RestorePrevious(p)
  BY <1>2, <1>9, <1>14 DEF OpenCreated, RecordOpened, StagePrevious, RestorePrevious, Edits
<1>15. CASE OpenLocated(p) \/ Relocate(p)
  <2>1. op[p].kind # "create" /\ UNCHANGED op
    BY <1>1, <1>15 DEF OpenLocated, Relocate, Fits
  <2> QED
    BY <2>1 DEF Creation
<1>16. CASE DropBackup(p) \/ InspectCatalog(p) \/ PublishCatalog(p) \/ CleanBackup(p)
  BY <1>2, <1>10, <1>16 DEF DropBackup, InspectCatalog, PublishCatalog, CleanBackup
<1>17. CASE IoFails(p)
  <2>1. UNCHANGED op /\ UNCHANGED folder
    BY <1>17 DEF IoFails, shared
  <2> QED
    BY <1>2, <1>9, <1>10, <1>17, <2>1 DEF IoFails
<1> QED
  BY <1>4, <1>5, <1>6, <1>7, <1>8, <1>11, <1>12, <1>13, <1>14, <1>15, <1>16, <1>17
     DEF Request, Continue

\* An operation that creates keeps its ProjectId and its place.
LEMMA CreationKept ==
    ASSUME Typed, NEW p \in Processes, Request(p) \/ Continue(p) \/ IoFails(p) \/ Crash(p),
           ~\E f \in Folders, d \in ProjectIds : BeginCreate(p, f, d),
           Creation(p)'
    PROVE  op'[p] = op[p]
<1>1. LocalOK
  BY TypedSplit
<1>2. ASSUME NEW kind, NEW f, NEW d, Begins(p, kind, f, d)
      PROVE  kind = "create"
  BY <1>1, <1>2 DEF Begins, Creation, LocalOK
<1>3. Request(p) => CloseProject(p)
  BY <1>2 DEF Request, BeginRelocate, OpenFolder, OpenRecent, RemoveRecent, Locates
<1>4. CASE Continue(p)
  <2>1. ~OpenRelocated(p)
    BY <1>2 DEF OpenRelocated, Locates
  <2> QED
    BY <1>4, <2>1 DEF Continue, RecheckTarget, PublishFolder, Rollback, RemoveTree, OpenCreated,
       OpenLocated, RecordOpened, Relocate, DropBackup, InspectCatalog, StagePrevious,
       PublishCatalog, CleanBackup, RestorePrevious
<1>5. CASE CloseProject(p) \/ IoFails(p) \/ Crash(p)
  BY <1>5 DEF CloseProject, IoFails, Crash
<1> QED
  BY <1>3, <1>4, <1>5

\* A folder that a creation is about to remove changes only by the hand of the
\* user, whom the observer sees.
LEMMA RemovesNext ==
    ASSUME HubInv, RemovesOwn, [Next]_vars
    PROVE  RemovesOwn'
<1>1. Typed /\ LocalOK /\ SharedOK /\ SessionsFit /\ IdsIssued
  BY TypedSplit DEF HubInv
<1> SUFFICES ASSUME NEW q \in Processes, pc'[q] = "removing", q \notin disturbed'
             PROVE  folder'[op'[q].path] # None /\ folder'[op'[q].path].id = op'[q].id
  BY DEF RemovesOwn
<1>2. CASE Rollback(q)
  BY <1>1, <1>2 DEF Rollback, Goes, LocalOK, shared
<1>3. CASE ~Rollback(q)
  <2>1. pc[q] = "removing" /\ op'[q] = op[q]
    <3>1. ASSUME NEW p \in Processes, Request(p) \/ Continue(p) \/ IoFails(p) \/ Crash(p)
          PROVE  pc[q] = "removing" /\ op'[q] = op[q]
      <4>1. q # p
        BY <1>1, <1>3, <3>1, Reaches
      <4> QED
        BY <1>1, <3>1, <4>1, OthersRest
    <3>2. CASE External \/ UNCHANGED vars
      BY <3>2 DEF External, vars
    <3> QED
      BY <3>1, <3>2 DEF Next, Rest
  <2> DEFINE at == op[q].path
  <2>2. at \in Folders /\ op[q].id # None /\ Creation(q)
    BY <1>1, <2>1 DEF SessionsFit, Fits, Creating, LocalOK, Operation, Creation
  <2>3. q \notin disturbed => folder[at] # None /\ folder[at].id = op[q].id
    BY <2>1 DEF RemovesOwn
  <2> SUFFICES q \notin disturbed /\ folder'[at] = folder[at]
    BY <2>1, <2>3
  <2> HIDE DEF at
  <2>4. CASE UNCHANGED <<folder, disturbed>>
    BY <2>4
  <2>5. ASSUME NEW p \in Processes, PublishFolder(p)
        PROVE  q \notin disturbed /\ folder'[at] = folder[at]
    <3>1. q \notin disturbed
      BY <2>5 DEF PublishFolder
    <3>2. folder[at] \notin {None, [id |-> None, work |-> FALSE]}
      BY <2>2, <2>3, <3>1
    <3>3. folder' = folder \/ (at # op[p].path /\ folder' = [folder EXCEPT ![op[p].path] = [id |-> op[p].id, work |-> FALSE]])
      BY <2>5, <3>2 DEF PublishFolder
    <3> QED
      BY <1>1, <2>2, <3>1, <3>3 DEF SharedOK
  <2>6. ASSUME NEW p \in Processes, Rollback(p)
        PROVE  q \notin disturbed /\ folder'[at] = folder[at]
    <3>1. p # q
      BY <1>3, <2>6
    <3> QED
      BY <2>6, <3>1 DEF Rollback, shared
  <2>7. ASSUME NEW p \in Processes, RemoveTree(p)
        PROVE  q \notin disturbed /\ folder'[at] = folder[at]
    <3>1. q \notin disturbed
      BY <2>7 DEF RemoveTree
    <3>2. pc[p] = "removing" /\ Creation(p)
      BY <1>1, <2>7 DEF RemoveTree, SessionsFit, Fits, Creating, Creation
    <3>3. op[p].path # at
      <4> SUFFICES ASSUME op[p].path = at PROVE FALSE
        OBVIOUS
      <4>1. p \notin disturbed
        BY <2>1, <2>7 DEF RemoveTree, Removing, at
      <4>2. folder[at].id = op[p].id
        BY <3>2, <4>1 DEF RemovesOwn
      <4>3. p = q
        BY <1>1, <2>2, <2>3, <3>1, <3>2, <4>2 DEF IdsIssued
      <4>4. pc'[p] = "idle"
        BY <1>1, <2>7 DEF RemoveTree, Goes, LocalOK
      <4> QED
        BY <4>3, <4>4
    <3> QED
      BY <1>1, <2>2, <2>7, <3>1, <3>3 DEF RemoveTree, SharedOK
  <2>8. CASE External
    <3>1. PICK f \in Folders, g \in Folders :
             /\ \/ /\ folder[f] = None
                   /\ folder' = [folder EXCEPT ![f] = [id |-> None, work |-> FALSE]]
                \/ /\ folder[f] # None
                   /\ folder' = [folder EXCEPT ![f].work = TRUE]
                \/ /\ folder[f] # None
                   /\ folder' = [folder EXCEPT ![f] = None]
                \/ /\ folder[f] # None /\ folder[g] = None
                   /\ folder' = [folder EXCEPT ![g] = folder[f]]
                \/ /\ folder[f] # None /\ folder[g] = None
                   /\ folder' = [folder EXCEPT ![g] = folder[f], ![f] = None]
             /\ disturbed' = disturbed \cup Removing(f) \cup Removing(g)
      BY <2>8 DEF External
    <3>2. q \notin disturbed /\ at # f /\ at # g
      BY <2>1, <3>1 DEF Removing, at
    <3> QED
      BY <1>1, <2>2, <3>1, <3>2 DEF SharedOK
  <2> QED
    BY <2>4, <2>5, <2>6, <2>7, <2>8, Touches
<1> QED
  BY <1>2, <1>3

\* A new ProjectId is in no folder until its creation publishes it there.
LEMMA PublishesNext ==
    ASSUME HubInv, PublishesOwn, [Next]_vars
    PROVE  PublishesOwn'
<1>1. Typed /\ LocalOK /\ SharedOK /\ SessionsFit /\ IdsIssued
  BY TypedSplit DEF HubInv
<1> SUFFICES ASSUME externals' = 0
             PROVE  (/\ disturbed = {}
                     /\ \A p \in Processes : Creation(p) =>
                          \A f \in Folders : folder[f] # None /\ folder[f].id = op[p].id =>
                                f = op[p].path /\ pc[p] \notin {"staged", "checked"})'
  BY DEF PublishesOwn
<1>2. externals = 0 /\ ~External
  <2>1. externals \in Nat /\ externals' \in Nat /\ externals <= externals'
    BY <1>1, FaultsGrow
  <2>2. External => externals' = externals + 1
    BY DEF External
  <2> QED
    BY <2>1, <2>2
<1>3. disturbed = {} /\ \A p \in Processes : Creation(p) =>
        \A f \in Folders : folder[f] # None /\ folder[f].id = op[p].id =>
              f = op[p].path /\ pc[p] \notin {"staged", "checked"}
  BY <1>2 DEF PublishesOwn
<1>4. disturbed' = {}
  BY <1>2, <1>3, Touches DEF PublishFolder, Rollback, RemoveTree
<1>5. ASSUME NEW f \in Folders, folder'[f] # None
      PROVE  \/ folder'[f] = folder[f]
             \/ \E p \in Processes : /\ PublishFolder(p) /\ Creation(p) /\ f = op[p].path
                                     /\ folder'[f].id = op[p].id /\ pc'[p] = "published"
  <2>1. ASSUME NEW p \in Processes, PublishFolder(p), folder' # folder
        PROVE  \/ folder'[f] = folder[f]
               \/ /\ PublishFolder(p) /\ Creation(p) /\ f = op[p].path
                  /\ folder'[f].id = op[p].id /\ pc'[p] = "published"
    <3>1. Creation(p) /\ op[p].path \in Folders
      BY <1>1, <2>1 DEF PublishFolder, SessionsFit, Fits, Creating, Creation, LocalOK, Operation
    <3>2. /\ folder' = [folder EXCEPT ![op[p].path] = [id |-> op[p].id, work |-> FALSE]]
          /\ pc'[p] = "published"
      BY <1>1, <2>1 DEF PublishFolder, Goes, LocalOK
    <3> QED
      BY <1>1, <2>1, <3>1, <3>2 DEF SharedOK
  <2>2. ASSUME NEW p \in Processes, RemoveTree(p)
        PROVE  folder'[f] = folder[f]
    BY <1>1, <1>5, <2>2 DEF RemoveTree, SharedOK
  <2>3. ASSUME NEW p \in Processes, Rollback(p)
        PROVE  folder' = folder
    BY <2>3 DEF Rollback, shared
  <2> QED
    BY <1>2, <2>1, <2>2, <2>3, Touches
<1>6. ASSUME NEW q \in Processes, Creation(q)', NEW f \in Folders, folder'[f] # None,
             folder'[f].id = op'[q].id
      PROVE  f = op'[q].path /\ pc'[q] \notin {"staged", "checked"}
  <2>1. CASE \E g \in Folders, d \in ProjectIds : BeginCreate(q, g, d)
    <3>1. PICK g \in Folders, d \in ProjectIds : BeginCreate(q, g, d)
      BY <2>1
    <3>2. folder' = folder /\ op'[q].id = d /\ d \notin issued /\ d # None
      <4>1. op'[q].id \in {None, d}
        BY <1>1, <3>1 DEF BeginCreate, Begins, LocalOK
      <4> QED
        BY <1>6, <3>1, <4>1 DEF BeginCreate, shared, Creation
    <3>3. folder[f].id \in issued \cup {None}
      BY <1>1, <1>6, <3>2 DEF IdsIssued, FolderIds
    <3> QED
      BY <1>6, <3>2, <3>3
  <2>2. CASE ~\E g \in Folders, d \in ProjectIds : BeginCreate(q, g, d)
    <3>1. op'[q] = op[q] /\ (pc'[q] \in {"staged", "checked"} => pc[q] \in {"staged", "checked"})
      <4>1. ASSUME NEW p \in Processes, Request(p) \/ Continue(p) \/ IoFails(p) \/ Crash(p)
            PROVE  op'[q] = op[q] /\ (pc'[q] \in {"staged", "checked"} => pc[q] \in {"staged", "checked"})
        <5>1. CASE p # q
          BY <1>1, <4>1, <5>1, OthersRest
        <5>2. CASE p = q
          <6>1. op'[q] = op[q]
            BY <1>1, <1>6, <2>2, <4>1, <5>2, CreationKept
          <6>2. pc'[q] # "staged" /\ (pc'[q] = "checked" => pc[q] = "staged")
            BY <1>1, <2>2, <4>1, <5>2, Reaches DEF RecheckTarget
          <6> QED
            BY <6>1, <6>2
        <5> QED
          BY <5>1, <5>2
      <4>2. CASE UNCHANGED vars
        BY <4>2 DEF vars
      <4> QED
        BY <1>2, <4>1, <4>2 DEF Next, Rest
    <3>2. Creation(q)
      BY <1>6, <3>1 DEF Creation
    <3>3. CASE folder'[f] = folder[f]
      BY <1>3, <1>6, <3>1, <3>2, <3>3
    <3>4. CASE folder'[f] # folder[f]
      <4>1. PICK p \in Processes : /\ Creation(p) /\ f = op[p].path
                                   /\ folder'[f].id = op[p].id /\ pc'[p] = "published"
        BY <1>5, <1>6, <3>4
      <4>2. p = q
        BY <1>1, <1>6, <3>1, <3>2, <4>1 DEF IdsIssued
      <4> QED
        BY <3>1, <4>1, <4>2
    <3> QED
      BY <3>3, <3>4
  <2> QED
    BY <2>1, <2>2
<1> QED
  BY <1>4, <1>6

\* With nobody in its way a creation finds everything as it left it.
LEMMA SucceedsNext ==
    ASSUME HubInv, AloneFollows, Succeeds, [Next]_vars
    PROVE  Succeeds'
<1>1. Typed /\ LocalOK /\ SharedOK /\ SessionsFit
  BY TypedSplit DEF HubInv
<1> SUFFICES ASSUME externals' = 0, alone', faults' = 0, NEW q \in Processes
             PROVE  SucceedsAt(q)'
  BY DEF Succeeds
<1>2. externals = 0 /\ alone /\ faults = 0 /\ ~External /\ \A p \in Processes : ~IoFails(p)
  <2>1. /\ externals \in Nat /\ externals' \in Nat /\ externals <= externals'
        /\ faults \in Nat /\ faults' \in Nat /\ faults <= faults'
        /\ alone' => alone
    BY <1>1, FaultsGrow
  <2>2. /\ External => externals' = externals + 1
        /\ \A p \in Processes : IoFails(p) => faults' = faults + 1
    BY DEF External, IoFails
  <2>3. alone
    BY <2>1
  <2> QED
    BY <2>1, <2>2, <2>3
<1>3. /\ \A p \in Processes : SucceedsAt(p)
      /\ OneAtATime
      /\ \A p \in Processes : Undivided(p)
  BY <1>2 DEF Succeeds, AloneFollows
<1>4. ASSUME NEW p \in Processes, Request(p) \/ Continue(p) \/ Crash(p), p # q
      PROVE  SucceedsAt(q)'
  <2>1. pc'[q] = pc[q] /\ op'[q] = op[q] /\ session'[q] = session[q]
    BY <1>1, <1>4, OthersRest
  <2>2. CASE Resting(q)
    BY <2>1, <2>2 DEF Resting, SucceedsAt
  <2>3. CASE ~Resting(q)
    <3>1. pc[p] = "active"
      <4>1. ~Idle(p)
        BY <1>1, <1>4, <2>3, AtWork
      <4>2. Resting(p)
        BY <1>3, <1>4, <2>3 DEF OneAtATime
      <4> QED
        BY <4>1, <4>2 DEF Resting, Idle
    <3>2. UNCHANGED shared
      BY <1>1, <1>4, <3>1, AtWork
    <3> QED
      BY <1>3, <2>1, <3>2 DEF SucceedsAt, IsProject, Creation, Listed, shared
  <2> QED
    BY <2>2, <2>3
<1>5. ASSUME Request(q) \/ Continue(q) \/ Crash(q)
      PROVE  SucceedsAt(q)'
  <2>1. Fits(pc[q], op[q], session[q], temp[q]) /\ SucceedsAt(q) /\ Undivided(q) /\ ~IoFails(q)
    BY <1>1, <1>2, <1>3 DEF SessionsFit
  <2>2. ASSUME NEW x, Goes(q, x) PROVE pc'[q] = x
    BY <1>1, <2>2 DEF Goes, LocalOK
  <2>3. pc'[q] # "rollback"
    <3> SUFFICES ASSUME pc'[q] = "rollback" PROVE FALSE
      OBVIOUS
    <3>1. ~OpenCreated(q)
      BY <2>1, <2>2 DEF OpenCreated, SucceedsAt
    <3>2. ~RecordOpened(q)
      <4> SUFFICES ASSUME RecordOpened(q) PROVE FALSE
        OBVIOUS
      <4>1. pc[q] = "opened" /\ (op[q].kind = "create" => Creation(q))
        BY <2>1 DEF RecordOpened, Fits, Creation
      <4>2. CASE op[q].kind = "create"
        <5>1. session[q] \notin IdsIn(Listed)
          BY <2>1, <4>1, <4>2 DEF SucceedsAt
        <5> QED
          BY <2>2, <5>1 DEF RecordOpened, Edits
      <4>3. CASE op[q].kind # "create"
        BY <2>2, <4>3 DEF RecordOpened, Fails, Ends, Edits
      <4> QED
        BY <4>2, <4>3
    <3>3. ~StagePrevious(q)
      BY <2>1, <2>2 DEF StagePrevious, Undivided
    <3>4. ~RestorePrevious(q)
      BY <1>2, <2>1 DEF RestorePrevious, Undivided
    <3> QED
      BY <1>1, <1>5, <2>1, <3>1, <3>2, <3>3, <3>4, Reaches
  <2>4. pc'[q] # "removing"
    BY <1>1, <1>5, <2>1, Reaches DEF Rollback, SucceedsAt
  <2>5. CASE pc'[q] = "staged"
    <3>1. PICK f \in Folders, d \in ProjectIds : BeginCreate(q, f, d)
      BY <1>1, <1>5, <2>5, Reaches
    <3>2. op'[q].id = d /\ d \notin issued /\ catalog' = catalog
      BY <1>1, <2>2, <2>5, <3>1 DEF BeginCreate, Begins, Ends, LocalOK, shared
    <3>3. IdsIn(Listed) \subseteq issued
      BY DEF HubInv, ListsGood, Good, Listed, IdsIn
    <3> QED
      BY <2>5, <3>2, <3>3 DEF SucceedsAt, Listed
  <2>6. CASE pc'[q] = "checked"
    <3>1. RecheckTarget(q)
      BY <1>1, <1>5, <2>6, Reaches
    <3> QED
      BY <2>1, <2>6, <3>1 DEF RecheckTarget, SucceedsAt, shared, Listed, Creation
  <2>7. CASE pc'[q] = "published"
    <3>1. PublishFolder(q)
      BY <1>1, <1>5, <2>7, Reaches
    <3>2. /\ folder' = [folder EXCEPT ![op[q].path] = [id |-> op[q].id, work |-> FALSE]]
          /\ UNCHANGED <<op, catalog>> /\ pc[q] = "checked"
      BY <2>2, <2>7, <3>1 DEF PublishFolder, Fails, Ends
    <3>3. op[q].path \in Folders /\ op[q].id \in ProjectIds /\ Creation(q)
      BY <1>1, <2>1, <3>2 DEF Fits, Creating, Creation, LocalOK, Operation
    <3> DEFINE made == [id |-> op[q].id, work |-> FALSE]
    <3>4. folder'[op[q].path] = made
      BY <1>1, <3>2, <3>3 DEF SharedOK
    <3>5. made.id = op[q].id /\ made # None
      <4>1. made \in Folder
        BY <3>3 DEF Folder
      <4> QED
        BY <4>1, NoFolderAssumption
    <3>6. (IsProject(op[q].path) /\ folder[op[q].path].id = op[q].id)'
      BY <3>2, <3>3, <3>4, <3>5 DEF IsProject
    <3>7. (op[q].id \notin IdsIn(Listed))'
      BY <2>1, <3>2, <3>3 DEF SucceedsAt, Listed
    <3> QED
      BY <2>7, <3>6, <3>7 DEF SucceedsAt
  <2>8. CASE pc'[q] = "opened"
    <3> SUFFICES ASSUME Creation(q)'
                 PROVE  session'[q] = op'[q].id /\ op'[q].id \notin IdsIn(Listed)'
      BY <2>8 DEF SucceedsAt
    <3>1. ~OpenLocated(q)
      BY <2>1 DEF OpenLocated, Fits, Creation
    <3>2. ~\E f \in Folders : OpenFolder(q, f)
      BY <1>1 DEF OpenFolder, Begins, LocalOK, Creation
    <3>3. OpenCreated(q)
      BY <1>1, <1>5, <2>8, <3>1, <3>2, Reaches
    <3>4. /\ session' = [session EXCEPT ![q] = folder[op[q].path].id]
          /\ folder[op[q].path].id = op[q].id /\ UNCHANGED <<op, shared>>
          /\ pc[q] = "published"
      BY <2>1, <3>3 DEF OpenCreated, SucceedsAt
    <3>5. session'[q] = op'[q].id
      BY <1>1, <3>4 DEF LocalOK
    <3>6. op[q].id \notin IdsIn(Listed)
      BY <2>1, <3>4 DEF SucceedsAt, Creation
    <3> QED
      BY <3>4, <3>5, <3>6 DEF Listed, shared
  <2>9. CASE pc'[q] \notin {"staged", "checked", "published", "opened", "rollback", "removing"}
    BY <2>9 DEF SucceedsAt
  <2> QED
    BY <2>3, <2>4, <2>5, <2>6, <2>7, <2>8, <2>9
<1>6. CASE UNCHANGED vars
  BY <1>3, <1>6 DEF vars, shared, local, SucceedsAt, IsProject, Creation, Listed
<1> QED
  BY <1>2, <1>4, <1>5, <1>6 DEF Next, Rest

LEMMA NothingLeftNext ==
    ASSUME HubInv, AloneFollows, PublishesOwn, Succeeds, NothingLeftBehind, [Next]_vars
    PROVE  NothingLeftBehind'
<1>1. Typed /\ LocalOK /\ SharedOK /\ SessionsFit /\ IdsIssued
  BY TypedSplit DEF HubInv
<1> SUFFICES ASSUME NEW q \in Processes, pc'[q] = "idle", Creation(q)', externals' = 0,
                    faults' = 0 \/ (alone' /\ faults' <= 1),
                    answer'[q] \notin {"none", "closed"},
                    NEW f \in Folders, folder'[f] # None
             PROVE  folder'[f].id # op'[q].id
  BY DEF NothingLeftBehind, Creation
<1>2. /\ externals = 0 /\ ~External
      /\ faults = 0 \/ (alone /\ faults <= 1)
      /\ \A p \in Processes : IoFails(p) => faults = 0 /\ alone
  <2>1. /\ externals \in Nat /\ externals' \in Nat /\ externals <= externals'
        /\ faults \in Nat /\ faults' \in Nat /\ faults <= faults'
        /\ alone' => alone
    BY <1>1, FaultsGrow
  <2>2. /\ External => externals' = externals + 1
        /\ \A p \in Processes : IoFails(p) => faults' = faults + 1
    BY DEF External, IoFails
  <2>3. externals = 0 /\ ~External
    BY <2>1, <2>2
  <2>4. faults = 0 \/ (alone /\ faults <= 1)
    <3>1. CASE faults' = 0
      BY <2>1, <3>1
    <3>2. CASE alone' /\ faults' <= 1
      <4>1. alone
        BY <2>1, <3>2
      <4>2. faults <= 1
        BY <2>1, <3>2
      <4> QED
        BY <4>1, <4>2
    <3> QED
      BY <3>1, <3>2
  <2>5. ASSUME NEW p \in Processes, IoFails(p)
        PROVE  faults = 0 /\ alone
    <3>1. faults' # 0 /\ (faults' <= 1 => faults = 0)
      BY <2>1, <2>2, <2>5
    <3>2. alone' /\ faults' <= 1
      BY <3>1
    <3> QED
      BY <2>1, <3>1, <3>2
  <2> QED
    BY <2>3, <2>4, <2>5
<1>3. \A p \in Processes : Creation(p) =>
        \A g \in Folders : folder[g] # None /\ folder[g].id = op[p].id =>
              g = op[p].path /\ pc[p] \notin {"staged", "checked"}
  BY <1>2 DEF PublishesOwn
<1>4. ASSUME Request(q) \/ Continue(q) \/ IoFails(q) \/ Crash(q)
      PROVE  folder'[f].id # op'[q].id
  <2>1. UNCHANGED op /\ Creation(q)
    BY <1>1, <1>4, Finishes DEF Creation
  <2>2. CASE pc[q] \in {"staged", "checked"} /\ UNCHANGED folder
    BY <1>3, <2>1, <2>2
  <2>3. CASE Rollback(q)
    <3>1. UNCHANGED folder /\ ~(folder[op[q].path] # None /\ folder[op[q].path].id = op[q].id)
      BY <1>1, <2>3 DEF Rollback, Goes, LocalOK, shared
    <3> QED
      BY <1>3, <2>1, <3>1
  <2>4. CASE RemoveTree(q)
    <3>1. op[q].path \in Folders /\ folder' = [folder EXCEPT ![op[q].path] = None]
      BY <1>1, <2>4 DEF RemoveTree, LocalOK, Operation
    <3>2. f # op[q].path /\ folder'[f] = folder[f]
      BY <1>1, <3>1 DEF SharedOK
    <3> QED
      BY <1>3, <2>1, <3>2
  <2>5. CASE IoFails(q) /\ pc[q] \in {"rollback", "removing"}
    BY <1>2, <2>5 DEF Succeeds, SucceedsAt
  <2> QED
    BY <1>1, <1>4, <2>2, <2>3, <2>4, <2>5, Finishes
<1>5. ASSUME pc'[q] = pc[q], op'[q] = op[q], answer'[q] = answer[q],
             \A p \in Processes : PublishFolder(p) => p # q
      PROVE  folder'[f].id # op'[q].id
  <2>1. /\ Creation(q)
        /\ \A g \in Folders : folder[g] # None => folder[g].id # op[q].id
    <3>1. Creation(q)
      BY <1>5 DEF Creation
    <3> QED
      BY <1>2, <1>5, <3>1 DEF NothingLeftBehind, Creation
  <2>2. CASE folder'[f] = folder[f]
    BY <1>5, <2>1, <2>2
  <2>3. CASE folder'[f] # folder[f]
    <3>1. PICK p \in Processes : PublishFolder(p) \/ Rollback(p) \/ RemoveTree(p)
      BY <1>2, <2>3, Touches
    <3>2. ~Rollback(p)
      BY <2>3 DEF Rollback, shared
    <3>3. ~RemoveTree(p)
      BY <1>1, <2>3 DEF RemoveTree, SharedOK
    <3>4. Creation(p) /\ p # q
      BY <1>1, <1>5, <3>1, <3>2, <3>3 DEF PublishFolder, SessionsFit, Fits, Creating, Creation
    <3>5. folder' = [folder EXCEPT ![op[p].path] = [id |-> op[p].id, work |-> FALSE]]
      BY <2>3, <3>1, <3>2, <3>3 DEF PublishFolder
    <3>6. folder'[f].id = op[p].id
      BY <1>1, <2>3, <3>5 DEF SharedOK
    <3> QED
      BY <1>1, <1>5, <2>1, <3>4, <3>6 DEF IdsIssued
  <2> QED
    BY <2>2, <2>3
<1>6. ASSUME NEW p \in Processes, Request(p) \/ Continue(p) \/ IoFails(p) \/ Crash(p), p # q
      PROVE  folder'[f].id # op'[q].id
  <2>1. pc'[q] = pc[q] /\ op'[q] = op[q] /\ answer'[q] = answer[q]
    BY <1>1, <1>6, OthersRest
  <2>2. ~PublishFolder(q)
    <3>1. ASSUME PublishFolder(q) PROVE pc'[q] # pc[q]
      BY <1>1, <3>1 DEF PublishFolder, Fails, Ends, Goes, LocalOK
    <3> QED
      BY <2>1, <3>1
  <2> QED
    BY <1>5, <2>1, <2>2
<1>7. CASE UNCHANGED vars
  <2>1. pc'[q] = pc[q] /\ op'[q] = op[q] /\ answer'[q] = answer[q]
    BY <1>7 DEF vars, local
  <2>2. ~PublishFolder(q)
    <3>1. ASSUME PublishFolder(q) PROVE pc'[q] # pc[q]
      BY <1>1, <3>1 DEF PublishFolder, Fails, Ends, Goes, LocalOK
    <3> QED
      BY <2>1, <3>1
  <2> QED
    BY <1>5, <2>1, <2>2
<1> QED
  BY <1>2, <1>4, <1>6, <1>7 DEF Next, Rest

CreationInv ==
    HubInv /\ AloneFollows /\ RemovesOwn /\ PublishesOwn /\ Succeeds /\ NothingLeftBehind

LEMMA InitCreationInv == Init => CreationInv
<1> SUFFICES ASSUME Init PROVE CreationInv
  OBVIOUS
<1>1. HubInv /\ AloneFollows
  BY InitCatalogInv DEF CatalogInv
<1>2. \A p \in Processes : pc[p] = "idle" /\ ~Creation(p)
  BY DEF Init, Creation
<1>3. disturbed = {}
  BY DEF Init
<1> QED
  BY <1>1, <1>2, <1>3
     DEF CreationInv, RemovesOwn, PublishesOwn, Succeeds, SucceedsAt, NothingLeftBehind, Creation

LEMMA NextCreationInv ==
    ASSUME CreationInv, [Next]_vars PROVE CreationInv'
<1>1. HubInv'
  BY TypedNext, ListsNext, IdsNext DEF HubInv, CreationInv
<1>2. AloneFollows'
  BY AloneNext DEF HubInv, CreationInv
<1> QED
  BY <1>1, <1>2, RemovesNext, PublishesNext, SucceedsNext, NothingLeftNext DEF CreationInv

THEOREM CreationInvAlways == Spec => []CreationInv
<1>1. CreationInv /\ [Next]_vars => CreationInv'
  BY NextCreationInv
<1> QED
  BY <1>1, InitCreationInv, PTL DEF Spec

\* A folder that goes by the program's hand is the one its creation published,
\* or one the user put in its place.
LEMMA RemovalIsOwn ==
    ASSUME CreationInv, [Next]_vars
    PROVE  OwnFolderRemoved
<1>1. SharedOK
  BY TypedSplit DEF CreationInv, HubInv
<1> SUFFICES ASSUME NEW f \in Folders, folder[f] # None, folder'[f] = None, externals' = externals
             PROVE  \E p \in Processes :
                       /\ pc[p] = "removing" /\ op[p].path = f
                       /\ folder[f].id = op[p].id \/ p \in disturbed
  BY DEF OwnFolderRemoved
<1>2. ~External
  <2>1. External => externals' = externals + 1
    BY DEF External
  <2> QED
    BY <1>1, <2>1 DEF SharedOK
<1>3. PICK p \in Processes : PublishFolder(p) \/ Rollback(p) \/ RemoveTree(p)
  BY <1>2, Touches
<1>4. ~Rollback(p)
  BY DEF Rollback, shared
<1>5. ~PublishFolder(p)
  <2> SUFFICES ASSUME PublishFolder(p) PROVE FALSE
    OBVIOUS
  <2>1. pc[p] = "checked" /\ op[p].path \in Folders /\ op[p].id \in ProjectIds
    BY TypedSplit DEF PublishFolder, CreationInv, HubInv, LocalOK, SessionsFit, Fits, Creating,
                      Operation
  <2>2. folder' = [folder EXCEPT ![op[p].path] = [id |-> op[p].id, work |-> FALSE]]
    BY DEF PublishFolder
  <2>3. [id |-> op[p].id, work |-> FALSE] \in Folder
    BY <2>1 DEF Folder
  <2>4. folder'[f] = folder[f] \/ folder'[f] \in Folder
    BY <1>1, <2>1, <2>2, <2>3 DEF SharedOK
  <2> QED
    BY <2>4, NoFolderAssumption
<1>6. RemoveTree(p)
  BY <1>3, <1>4, <1>5
<1>7. pc[p] = "removing" /\ op[p].path = f
  BY <1>1, <1>6 DEF RemoveTree, SharedOK
<1>8. p \notin disturbed => folder[f].id = op[p].id
  BY <1>7 DEF CreationInv, RemovesOwn
<1> QED
  BY <1>7, <1>8

\* A creation that fails takes back what it made and only that.
THEOREM FailedCreationsVanish == Spec => CreationTakesBackItsOwn
<1>1. CreationInv /\ [Next]_vars => [OwnFolderRemoved /\ NothingLeftBehind']_vars
  BY RemovalIsOwn, NextCreationInv DEF CreationInv
<1> QED
  BY <1>1, CreationInvAlways, PTL DEF Spec, CreationTakesBackItsOwn
=============================================================================
