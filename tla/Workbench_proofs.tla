-------------------------- MODULE Workbench_proofs --------------------------
(***************************************************************************)
(* Proofs about Workbench, for any documents, values, identifiers and      *)
(* bounds.                                                                 *)
(*                                                                         *)
(* The invariant says of the desk what each of its parts is there for: a   *)
(* slot's evaluation is of the draft it has (Judged below calls it that    *)
(* draft's), a view shows a live draft, a pick mode has an owner, and no   *)
(* solid feature is drafted while a sketch is open or waits for its        *)
(* support.  The last is what keeps OfferedIsCurrent: drawing is the one   *)
(* thing that changes the document without evaluating the drafts again.    *)
(***************************************************************************)
EXTENDS Workbench, SequenceTheorems, FiniteSetTheorems, TLAPS

\* A draft is of document a and in the slot of its kind.
DraftsOwned(k, a) ==
    \A s \in Slots : Live(k, s) => /\ k.draft[s].doc = a
                                   /\ k.draft[s].kind \in KindsOf[s]

ModesOwned(k) ==
    /\ k.edges => \/ Live(k, "axis")
                  \/ Live(k, "edge")
                  \/ k.project # None
    /\ k.faces => \/ Live(k, "axis")
                  \/ Live(k, "datum") /\ k.draft["datum"].kind = "offset"
                  \/ k.support # None
                  \/ k.project # None

\* Sketches and solid features keep each other out.
SketchesAlone(k) ==
    /\ k.project # None => k.sketch # None
    /\ (k.sketch # None \/ k.support # None) =>
          \A s \in SolidSlots : ~Live(k, s)

\* An evaluation is of the draft as it is; it failed only if the draft
\* cannot be evaluated or is not of revision r.
JudgedRight(d, e, r, s) ==
    /\ e.revision = d.revision
    /\ e.generation = d.generation
    /\ e.ok => d.value \in Computable
    /\ d.value \in Computable /\ d.revision = r => e.ok
    /\ s \in SolidSlots /\ e.ok => d.revision = r

\* The evaluation of a slot while the document is at revision r: there is
\* one unless the timer runs, the input is unusable or there is no source.
SlotRight(k, r, s) ==
    IF Live(k, s)
    THEN /\ k.draft[s].revision <= r
         /\ IF k.eval[s] = None
            THEN s \in k.armed \/ ~k.fits[s] \/ k.draft[s].value = None
            ELSE JudgedRight(k.draft[s], k.eval[s], r, s)
    ELSE k.eval[s] = None /\ s \notin k.armed

ViewRight(k, w) ==
    k.shown[w] # None =>
        LET s == k.shown[w].slot
        IN  /\ ViewOf(s) = w
            /\ Live(k, s)
            /\ s \in k.armed
                 \/ k.shown[w].generation = k.draft[s].generation

\* What does not depend on evaluations, and the whole.
Owned(k, a) ==
    k \in Desks /\ DraftsOwned(k, a) /\ ModesOwned(k) /\ SketchesAlone(k)

Right(k, a, r) ==
    /\ Owned(k, a)
    /\ \A s \in Slots : SlotRight(k, r, s)
    /\ \A w \in Views : ViewRight(k, w)

\* A document d can be in state p.
PartRight(p, d) ==
    p \in Parts /\ p.revision <= MaxRevision[d] /\ p.position \in DOMAIN p.timeline

PartsRight ==
    part \in [Docs -> Parts] /\ \A d \in Docs : PartRight(part[d], d)

DeskRight ==
    IF active = None THEN desk = Empty
    ELSE active \in Docs /\ Right(desk, active, Part.revision)

WorkbenchInv == PartsRight /\ DeskRight


-----------------------------------------------------------------------------
(* Slots, kinds and views *)

LEMMA KindFacts ==
    /\ \A s \in Slots : KindsOf[s] \subseteq Kinds
    /\ \A s, t \in Slots : \A kind \in KindsOf[s] :
          kind \in KindsOf[t] => s = t
    /\ \A s \in Slots : \A kind \in KindsOf[s] : SlotOf(kind) = s
    /\ \A s \in Slots : ViewOf(s) \in Views
<1>1. \A s \in Slots : KindsOf[s] \subseteq Kinds
  BY DEF Kinds
<1>2. \A s, t \in Slots : \A kind \in KindsOf[s] :
          kind \in KindsOf[t] => s = t
  BY DEF Slots, KindsOf
<1>3. ASSUME NEW s \in Slots, NEW kind \in KindsOf[s]
      PROVE  SlotOf(kind) = s
  BY <1>2 DEF SlotOf
<1>4. \A s \in Slots : ViewOf(s) \in Views
  BY DEF Views
<1> QED
  BY <1>1, <1>2, <1>3, <1>4

\* A slot whose kinds are among the blockers is empty when nothing blocks.
LEMMA FreeFacts ==
    ASSUME NEW k, NEW a, DraftsOwned(k, a), NEW S, Open(k) \cap S = {}
    PROVE  /\ \A s \in Slots : KindsOf[s] \subseteq S => ~Live(k, s)
           /\ \A s \in Slots : Live(k, s) => k.draft[s].kind \notin S
           /\ "profilePick" \in S => ~k.picking
           /\ "support" \in S => k.support = None
           /\ "sketch" \in S => k.sketch = None
           /\ "project" \in S => k.project = None
<1>1. \A s \in Slots : Live(k, s) => k.draft[s].kind \in Open(k)
  BY DEF Open
<1> QED
  BY <1>1 DEF DraftsOwned, Open

\* What an open kind says of the slots.
LEMMA OpenFacts ==
    ASSUME NEW k, NEW a, DraftsOwned(k, a), NEW s \in Slots,
           NEW kind \in KindsOf[s], kind \in Open(k)
    PROVE  Live(k, s) /\ k.draft[s].kind = kind
<1>1. kind \notin {"profilePick", "support", "sketch", "project"}
  BY DEF KindsOf, Slots
<1>2. PICK t \in Slots : Live(k, t) /\ k.draft[t].kind = kind
  BY <1>1 DEF Open
<1> QED
  BY <1>2, KindFacts DEF DraftsOwned

-----------------------------------------------------------------------------
(* Evaluating a draft *)

\* The fields of a desk, and those of the one that shows an evaluation.
LEMMA DeskFacts ==
    ASSUME NEW k \in Desks
    PROVE  /\ k.draft \in [Slots -> Drafts \cup {None}]
           /\ k.eval \in [Slots -> Evaluations \cup {None}]
           /\ k.fits \in [Slots -> BOOLEAN]
           /\ k.armed \in SUBSET TypedSlots
           /\ k.shown \in [Views -> Previews \cup {None}]
           /\ k.edges \in BOOLEAN /\ k.faces \in BOOLEAN
           /\ k.picking \in BOOLEAN
           /\ k.support \in Supports \cup {None}
           /\ k.sketch \in Ids \cup {None}
           /\ k.project \in Projections \cup {None}
BY DEF Desks

LEMMA PresentedFacts ==
    ASSUME NEW k \in Desks, NEW s \in Slots, NEW e \in Evaluations \cup {None},
           NEW visible \in BOOLEAN
    PROVE  LET l == Presented(k, s, e, visible)
           IN  /\ l \in Desks
               /\ l.draft = k.draft /\ l.fits = k.fits
               /\ l.eval = [k.eval EXCEPT ![s] = e]
               /\ l.armed = k.armed \ {s}
               /\ \A w \in Views \ {ViewOf(s)} : l.shown[w] = k.shown[w]
               /\ l.shown[ViewOf(s)] # None =>
                    /\ e # None
                    /\ l.shown[ViewOf(s)].slot = s
                    /\ l.shown[ViewOf(s)].generation = e.generation
               /\ l.edges = k.edges /\ l.faces = k.faces
               /\ l.picking = k.picking /\ l.support = k.support
               /\ l.sketch = k.sketch /\ l.project = k.project
<1> DEFINE x == IF visible /\ e # None
                THEN IF e.ok THEN [slot |-> s, generation |-> e.generation]
                     ELSE None
                ELSE None
           l == Presented(k, s, e, visible)
<1>1. x \in Previews \cup {None}
  BY DEF Evaluations, Previews
<1>2. x # None => /\ e # None /\ x.slot = s /\ x.generation = e.generation
  OBVIOUS
<1>3. l = [k EXCEPT !.eval[s] = e, !.armed = @ \ {s}, !.shown[ViewOf(s)] = x]
  BY DEF Presented
<1> HIDE DEF x, l
<1>4. ViewOf(s) \in Views
  BY KindFacts
<1>5. /\ l = [k EXCEPT !.eval = [k.eval EXCEPT ![s] = e],
                       !.armed = k.armed \ {s},
                       !.shown = [k.shown EXCEPT ![ViewOf(s)] = x]]
  BY <1>3
<1>6. /\ [k.eval EXCEPT ![s] = e] \in [Slots -> Evaluations \cup {None}]
      /\ k.armed \ {s} \in SUBSET TypedSlots
      /\ [k.shown EXCEPT ![ViewOf(s)] = x] \in [Views -> Previews \cup {None}]
  BY <1>1, <1>4, DeskFacts
<1>7. /\ l \in Desks
      /\ l.draft = k.draft /\ l.fits = k.fits
      /\ l.eval = [k.eval EXCEPT ![s] = e]
      /\ l.armed = k.armed \ {s}
      /\ l.shown = [k.shown EXCEPT ![ViewOf(s)] = x]
      /\ l.edges = k.edges /\ l.faces = k.faces
      /\ l.picking = k.picking /\ l.support = k.support
      /\ l.sketch = k.sketch /\ l.project = k.project
  BY <1>5, <1>6 DEF Desks
<1>8. /\ \A w \in Views \ {ViewOf(s)} : l.shown[w] = k.shown[w]
      /\ l.shown[ViewOf(s)] = x
  BY <1>4, <1>7, DeskFacts
<1> QED
  BY <1>2, <1>7, <1>8 DEF l

\* What a tool does to evaluate a live draft.
LEMMA RefreshedFacts ==
    ASSUME NEW k \in Desks, NEW s \in Slots, Live(k, s),
           NEW p, p.revision \in Nat
    PROVE  \E e \in Evaluations \cup {None}, visible \in BOOLEAN :
             /\ Refreshed(k, p, s) = Presented(k, s, e, visible)
             /\ IF e = None THEN ~k.fits[s] \/ k.draft[s].value = None
                ELSE JudgedRight(k.draft[s], e, p.revision, s)
<1> DEFINE d == k.draft[s]
           e == Evaluate(p, d)
<1>1. d \in Drafts /\ k.fits \in [Slots -> BOOLEAN]
  BY DeskFacts DEF Live
<1>2. /\ e \in Evaluations /\ JudgedRight(d, e, p.revision, s)
  <2> HIDE DEF d
  <2> QED
    BY <1>1 DEF Evaluate, Drafts, Evaluations, JudgedRight
<1>3. CASE s = "axis"
  <2>1. Refreshed(k, p, s) = RefreshAxis(k, p)
    BY <1>3 DEF Refreshed
  <2>2. d = k.draft.axis /\ k.fits.axis = k.fits[s] /\ d # None
    BY <1>3 DEF Live
  <2>3. RefreshAxis(k, p) = Presented(k, s, e, d.kind \in BodyAxes /\ k.fits[s])
    <3> HIDE DEF d
    <3> QED
      BY <1>3, <2>2 DEF RefreshAxis, e
  <2> QED
    BY NoneAssumption, <1>1, <1>2, <2>1, <2>3
<1>4. CASE s = "datum"
  <2>1. Refreshed(k, p, s) = RefreshDatumPlane(k, p)
    BY <1>4 DEF Refreshed
  <2>2. d = k.draft.datum /\ k.fits.datum = k.fits[s] /\ d # None
    BY <1>4 DEF Live
  <2>3. RefreshDatumPlane(k, p)
           = Presented(k, s, IF ~k.fits[s] \/ d.value = None THEN None ELSE e, TRUE)
    <3> HIDE DEF d
    <3> QED
      BY <1>4, <2>2 DEF RefreshDatumPlane, e
  <2> QED
    BY NoneAssumption, <1>1, <1>2, <2>1, <2>3
<1>5. CASE s \in SolidSlots
  <2>1. Refreshed(k, p, s) = RefreshSolid(k, p, s)
    <3>1. CASE s = "extrude"
      BY <3>1 DEF Refreshed, RefreshExtrude
    <3>2. CASE s = "revolve"
      BY <3>2 DEF Refreshed, RefreshRevolve
    <3>3. CASE s = "edge"
      BY <3>3 DEF Refreshed, RefreshEdgeFeature
    <3> QED
      BY <1>5, <3>1, <3>2, <3>3 DEF SolidSlots
  <2>2. RefreshSolid(k, p, s)
           = Presented(k, s, IF ~k.fits[s] THEN None ELSE e, TRUE)
    BY DEF RefreshSolid, Live
  <2> QED
    BY NoneAssumption, <1>1, <1>2, <2>1, <2>2
<1> QED
  BY <1>3, <1>4, <1>5 DEF Slots, SolidSlots

\* The tools' fields that an evaluation leaves alone.
SameTools(l, k) ==
    /\ l.draft = k.draft /\ l.fits = k.fits
    /\ l.edges = k.edges /\ l.faces = k.faces /\ l.picking = k.picking
    /\ l.support = k.support /\ l.sketch = k.sketch /\ l.project = k.project

LEMMA SameToolsOwned ==
    ASSUME NEW k, NEW a, Owned(k, a), NEW l \in Desks, SameTools(l, k)
    PROVE  Owned(l, a)
BY DEF Owned, SameTools, DraftsOwned, ModesOwned, SketchesAlone, Live

\* After an evaluation the slot is right, and so is the view; the other
\* slots, and the other views, are what they were.
LEMMA RefreshedRight ==
    ASSUME NEW k, NEW a, Owned(k, a), NEW s \in Slots, Live(k, s),
           NEW p, p.revision \in Nat, k.draft[s].revision <= p.revision,
           NEW T \in SUBSET Slots,
           \A t \in T \ {s} : SlotRight(k, p.revision, t),
           \A w \in Views \ {ViewOf(s)} : ViewRight(k, w)
    PROVE  LET l == Refreshed(k, p, s)
           IN  /\ Owned(l, a) /\ SameTools(l, k)
               /\ \A t \in T \cup {s} : SlotRight(l, p.revision, t)
               /\ \A t \in Slots : Live(l, t) <=> Live(k, t)
               /\ \A t \in Slots \ {s} :
                    SlotRight(k, p.revision, t) => SlotRight(l, p.revision, t)
               /\ \A w \in Views : ViewRight(l, w)
<1> DEFINE r == p.revision
           l == Refreshed(k, p, s)
<1>0. k \in Desks
  BY DEF Owned
<1>1. PICK e \in Evaluations \cup {None}, visible \in BOOLEAN :
         /\ l = Presented(k, s, e, visible)
         /\ IF e = None THEN ~k.fits[s] \/ k.draft[s].value = None
            ELSE JudgedRight(k.draft[s], e, r, s)
  BY <1>0, RefreshedFacts
<1> HIDE DEF l
<1>2. /\ l \in Desks /\ SameTools(l, k)
      /\ l.eval = [k.eval EXCEPT ![s] = e]
      /\ l.armed = k.armed \ {s}
      /\ \A w \in Views \ {ViewOf(s)} : l.shown[w] = k.shown[w]
      /\ l.shown[ViewOf(s)] # None =>
           /\ e # None
           /\ l.shown[ViewOf(s)].slot = s
           /\ l.shown[ViewOf(s)].generation = e.generation
  BY <1>0, <1>1, PresentedFacts DEF SameTools
<1>3. k.eval \in [Slots -> Evaluations \cup {None}]
  BY <1>0, DeskFacts
<1>4. \A t \in Slots : Live(l, t) <=> Live(k, t)
  BY <1>2 DEF Live, SameTools
<1>5. ASSUME NEW t \in Slots \ {s}, SlotRight(k, r, t)
      PROVE  SlotRight(l, r, t)
  <2>1. l.eval[t] = k.eval[t] /\ (t \in l.armed <=> t \in k.armed)
    BY <1>2, <1>3
  <2> QED
    BY <1>2, <1>4, <1>5, <2>1 DEF SlotRight, SameTools
<1>6. SlotRight(l, r, s)
  <2>1. l.eval[s] = e /\ l.draft[s] = k.draft[s] /\ l.fits[s] = k.fits[s]
    BY <1>2, <1>3 DEF SameTools
  <2> QED
    BY <1>1, <1>4, <2>1 DEF SlotRight
<1>7. ASSUME NEW w \in Views
      PROVE  ViewRight(l, w)
  <2>1. CASE w = ViewOf(s)
    <3>1. e # None => e.generation = k.draft[s].generation
      BY <1>1 DEF JudgedRight
    <3> QED
      BY <1>2, <1>4, <2>1, <3>1 DEF ViewRight, SameTools
  <2>2. CASE w # ViewOf(s)
    <3>1. l.shown[w] = k.shown[w] /\ ViewRight(k, w)
      BY <1>2, <2>2
    <3>2. l.armed = k.armed \ {s} /\ l.draft = k.draft
      BY <1>2 DEF SameTools
    <3>3. k.shown[w] # None => k.shown[w].slot \in Slots
      BY <1>0, DeskFacts DEF Previews
    <3> QED
      BY <1>4, <2>2, <3>1, <3>2, <3>3 DEF ViewRight
  <2> QED
    BY <2>1, <2>2
<1>8. Owned(l, a)
  BY <1>2, SameToolsOwned
<1>9. \A t \in T \cup {s} : SlotRight(l, r, t)
  BY <1>5, <1>6
<1> QED
  BY <1>2, <1>4, <1>5, <1>7, <1>8, <1>9 DEF l

\* So a desk whose only slot out of date is evaluated again is right.
LEMMA OneRefreshed ==
    ASSUME NEW k, NEW a, Owned(k, a), NEW s \in Slots, Live(k, s),
           NEW p, p.revision \in Nat, k.draft[s].revision <= p.revision,
           \A t \in Slots \ {s} : SlotRight(k, p.revision, t),
           \A w \in Views \ {ViewOf(s)} : ViewRight(k, w)
    PROVE  /\ Right(Refreshed(k, p, s), a, p.revision)
           /\ SameTools(Refreshed(k, p, s), k)
<1> DEFINE l == Refreshed(k, p, s)
<1>1. /\ Owned(l, a) /\ SameTools(l, k)
      /\ \A t \in Slots \cup {s} : SlotRight(l, p.revision, t)
      /\ \A w \in Views : ViewRight(l, w)
  <2>1. Slots \in SUBSET Slots
    OBVIOUS
  <2> HIDE DEF l
  <2> QED
    BY <2>1, RefreshedRight DEF l
<1> QED
  BY <1>1 DEF Right

LEMMA Disarmed ==
    ASSUME NEW k \in Desks, NEW s \in Slots, Live(k, s),
           NEW p, p.revision \in Nat
    PROVE  s \notin Refreshed(k, p, s).armed
<1> DEFINE l == Refreshed(k, p, s)
<1>1. PICK e \in Evaluations \cup {None}, visible \in BOOLEAN :
         l = Presented(k, s, e, visible)
  BY RefreshedFacts
<1> HIDE DEF l
<1>2. l.armed = k.armed \ {s}
  BY <1>1 DEF Presented, Desks
<1> QED
  BY <1>2 DEF l

\* Evaluating any live draft anew changes nothing that was right.
LEMMA AnyRefreshed ==
    ASSUME NEW k, NEW a, NEW p, p.revision \in Nat, Right(k, a, p.revision),
           NEW s \in Slots, Live(k, s)
    PROVE  /\ Right(Refreshed(k, p, s), a, p.revision)
           /\ SameTools(Refreshed(k, p, s), k)
<1>1. Owned(k, a) /\ k.draft[s].revision <= p.revision
  BY DEF Right, SlotRight
<1> QED
  BY <1>1, OneRefreshed DEF Right

-----------------------------------------------------------------------------
(* Closing a tool *)

\* The tool of slot s is closed; pick modes can have been left with it.
ClosedTo(l, k, s) ==
    /\ l.draft = [k.draft EXCEPT ![s] = None]
    /\ l.eval = [k.eval EXCEPT ![s] = None]
    /\ l.fits = [k.fits EXCEPT ![s] = TRUE]
    /\ l.armed = k.armed \ {s}
    /\ l.shown = [k.shown EXCEPT ![ViewOf(s)] = None]
    /\ l.edges \in {k.edges, FALSE} /\ l.faces \in {k.faces, FALSE}
    /\ l.picking \in {k.picking, FALSE}
    /\ l.support = k.support /\ l.sketch = k.sketch /\ l.project = k.project

LEMMA ClosedFacts ==
    ASSUME NEW k \in Desks, NEW s \in Slots
    PROVE  LET l == Closed(k, s)
           IN  /\ l \in Desks /\ ClosedTo(l, k, s)
               /\ l.edges = k.edges /\ l.faces = k.faces
               /\ l.picking = k.picking
<1> DEFINE l == Closed(k, s)
<1>1. /\ [k.draft EXCEPT ![s] = None] \in [Slots -> Drafts \cup {None}]
      /\ [k.eval EXCEPT ![s] = None] \in [Slots -> Evaluations \cup {None}]
      /\ [k.fits EXCEPT ![s] = TRUE] \in [Slots -> BOOLEAN]
      /\ k.armed \ {s} \in SUBSET TypedSlots
      /\ [k.shown EXCEPT ![ViewOf(s)] = None] \in [Views -> Previews \cup {None}]
  BY DeskFacts
<1>2. l = [k EXCEPT !.draft = [k.draft EXCEPT ![s] = None],
                    !.eval = [k.eval EXCEPT ![s] = None],
                    !.fits = [k.fits EXCEPT ![s] = TRUE],
                    !.armed = k.armed \ {s},
                    !.shown = [k.shown EXCEPT ![ViewOf(s)] = None]]
  BY DEF Closed
<1> HIDE DEF l
<1>3. /\ l \in Desks
      /\ l.draft = [k.draft EXCEPT ![s] = None]
      /\ l.eval = [k.eval EXCEPT ![s] = None]
      /\ l.fits = [k.fits EXCEPT ![s] = TRUE]
      /\ l.armed = k.armed \ {s}
      /\ l.shown = [k.shown EXCEPT ![ViewOf(s)] = None]
      /\ l.edges = k.edges /\ l.faces = k.faces /\ l.picking = k.picking
      /\ l.support = k.support /\ l.sketch = k.sketch /\ l.project = k.project
  BY <1>1, <1>2 DEF Desks
<1> QED
  BY <1>3 DEF ClosedTo, l

\* The drafts that a closed tool leaves.
LEMMA ClosedLive ==
    ASSUME NEW k \in Desks, NEW s \in Slots, NEW l, ClosedTo(l, k, s)
    PROVE  /\ ~Live(l, s)
           /\ \A t \in Slots \ {s} : /\ Live(l, t) <=> Live(k, t)
                                     /\ l.draft[t] = k.draft[t]
           /\ \A t \in Slots : Live(l, t) => Live(k, t)
BY DeskFacts DEF ClosedTo, Live

\* Modes that are kept still have their owner.
LEMMA ModesKept ==
    ASSUME NEW k \in Desks, ModesOwned(k), NEW s \in Slots, NEW l,
           ClosedTo(l, k, s),
           l.edges => k.edges /\ s \notin {"axis", "edge"},
           l.faces => k.faces /\ s \notin {"axis", "datum"}
    PROVE  ModesOwned(l)
<1>1. \A t \in Slots \ {s} : /\ Live(l, t) <=> Live(k, t)
                            /\ l.draft[t] = k.draft[t]
  BY ClosedLive
<1>2. l.support = k.support /\ l.project = k.project
  BY DEF ClosedTo
<1>3. /\ s \notin {"axis", "edge"} => "axis" \in Slots \ {s} /\ "edge" \in Slots \ {s}
      /\ s \notin {"axis", "datum"} => "axis" \in Slots \ {s} /\ "datum" \in Slots \ {s}
  BY DEF Slots
<1> QED
  BY <1>1, <1>2, <1>3 DEF ModesOwned

LEMMA ClosedRight ==
    ASSUME NEW k, NEW a, NEW r \in Nat, Right(k, a, r), NEW s \in Slots,
           NEW l \in Desks, ClosedTo(l, k, s), ModesOwned(l)
    PROVE  Right(l, a, r)
<1>0. k \in Desks /\ Owned(k, a)
  BY DEF Right, Owned
<1>1. /\ ~Live(l, s)
      /\ \A t \in Slots \ {s} : /\ Live(l, t) <=> Live(k, t)
                                /\ l.draft[t] = k.draft[t]
      /\ \A t \in Slots : Live(l, t) => Live(k, t)
  BY <1>0, ClosedLive
<1>2. DraftsOwned(l, a)
  BY <1>0, <1>1 DEF Owned, DraftsOwned
<1>3. SketchesAlone(l)
  BY <1>0, <1>1 DEF Owned, SketchesAlone, ClosedTo, SolidSlots, Slots
<1>4. ASSUME NEW t \in Slots
      PROVE  SlotRight(l, r, t)
  <2>1. CASE t = s
    BY <1>0, <1>1, <2>1, DeskFacts DEF SlotRight, ClosedTo
  <2>2. CASE t # s
    <3>1. l.eval[t] = k.eval[t] /\ l.fits[t] = k.fits[t]
          /\ (t \in l.armed <=> t \in k.armed) /\ SlotRight(k, r, t)
      BY <1>0, <2>2, DeskFacts DEF ClosedTo, Right
    <3> QED
      BY <1>1, <2>2, <3>1 DEF SlotRight
  <2> QED
    BY <2>1, <2>2
<1>5. ASSUME NEW w \in Views
      PROVE  ViewRight(l, w)
  <2>1. CASE w = ViewOf(s)
    BY <1>0, <2>1, DeskFacts DEF ViewRight, ClosedTo
  <2>2. CASE w # ViewOf(s)
    <3>1. l.shown[w] = k.shown[w] /\ ViewRight(k, w) /\ l.armed = k.armed \ {s}
      BY <1>0, <2>2, DeskFacts DEF ClosedTo, Right
    <3>2. k.shown[w] # None => k.shown[w].slot \in Slots
      BY <1>0, DeskFacts DEF Previews
    <3> QED
      BY <1>1, <2>2, <3>1, <3>2 DEF ViewRight
  <2> QED
    BY <2>1, <2>2
<1> QED
  BY <1>2, <1>3, <1>4, <1>5 DEF Right, Owned

\* Each of the workbench's functions that closes a tool.
LEMMA ClearRight ==
    ASSUME NEW k, NEW a, NEW r \in Nat, Right(k, a, r)
    PROVE  /\ Right(ClearAxis(k), a, r) /\ ClosedTo(ClearAxis(k), k, "axis")
           /\ Right(ClearDatumPlane(k), a, r)
           /\ ClosedTo(ClearDatumPlane(k), k, "datum")
           /\ Right(ClearExtrude(k), a, r)
           /\ ClosedTo(ClearExtrude(k), k, "extrude")
           /\ Right(Closed(k, "extrude"), a, r)
           /\ ClosedTo(Closed(k, "extrude"), k, "extrude")
           /\ Right(ClearRevolve(k), a, r)
           /\ ClosedTo(ClearRevolve(k), k, "revolve")
           /\ Right(ClearEdgeFeature(k), a, r)
           /\ ClosedTo(ClearEdgeFeature(k), k, "edge")
<1>0. k \in Desks /\ ModesOwned(k) /\ DraftsOwned(k, a)
  BY DEF Right, Owned
<1>s. {"axis", "datum", "extrude", "revolve", "edge"} = Slots
  BY DEF Slots
<1>1. Right(ClearAxis(k), a, r) /\ ClosedTo(ClearAxis(k), k, "axis")
  <2> DEFINE c == Closed(k, "axis")
             l == ClearAxis(k)
  <2>1. c \in Desks /\ ClosedTo(c, k, "axis")
    BY <1>0, <1>s, ClosedFacts
  <2>2. l = [c EXCEPT !.edges = FALSE, !.faces = FALSE]
    BY DEF ClearAxis
  <2> HIDE DEF c, l
  <2>3. l \in Desks /\ ClosedTo(l, k, "axis") /\ ~l.edges /\ ~l.faces
    BY <2>1, <2>2 DEF Desks, ClosedTo
  <2>4. ModesOwned(l)
    BY <2>3 DEF ModesOwned
  <2> QED
    BY <1>s, <2>3, <2>4, ClosedRight DEF l
<1>2. Right(ClearDatumPlane(k), a, r) /\ ClosedTo(ClearDatumPlane(k), k, "datum")
  <2> DEFINE c == Closed(k, "datum")
             l == ClearDatumPlane(k)
  <2>1. c \in Desks /\ ClosedTo(c, k, "datum") /\ c.edges = k.edges
    BY <1>0, <1>s, ClosedFacts
  <2>2. l = [c EXCEPT !.faces = FALSE]
    BY DEF ClearDatumPlane
  <2> HIDE DEF c, l
  <2>3. /\ l \in Desks /\ ClosedTo(l, k, "datum") /\ l.edges = k.edges
        /\ ~l.faces
    BY <2>1, <2>2 DEF Desks, ClosedTo
  <2>4. ModesOwned(l)
    BY <1>0, <1>s, <2>3, ModesKept
  <2> QED
    BY <1>s, <2>3, <2>4, ClosedRight DEF l
<1>3. ASSUME NEW s \in {"extrude", "revolve"}
      PROVE  Right(Closed(k, s), a, r) /\ ClosedTo(Closed(k, s), k, s)
  <2> DEFINE l == Closed(k, s)
  <2>1. /\ l \in Desks /\ ClosedTo(l, k, s) /\ l.edges = k.edges
        /\ l.faces = k.faces
    BY <1>0, <1>s, ClosedFacts
  <2> HIDE DEF l
  <2>2. ModesOwned(l)
    BY <1>0, <1>s, <2>1, ModesKept
  <2> QED
    BY <1>s, <2>1, <2>2, ClosedRight DEF l
<1>4. Right(ClearExtrude(k), a, r) /\ ClosedTo(ClearExtrude(k), k, "extrude")
  <2> DEFINE c == Closed(k, "extrude")
             l == ClearExtrude(k)
  <2>1. /\ c \in Desks /\ ClosedTo(c, k, "extrude") /\ c.edges = k.edges
        /\ c.faces = k.faces
    BY <1>0, <1>s, ClosedFacts
  <2>2. l = [c EXCEPT !.picking = FALSE]
    BY DEF ClearExtrude
  <2> HIDE DEF c, l
  <2>3. /\ l \in Desks /\ ClosedTo(l, k, "extrude") /\ l.edges = k.edges
        /\ l.faces = k.faces
    BY <2>1, <2>2 DEF Desks, ClosedTo
  <2>4. ModesOwned(l)
    BY <1>0, <1>s, <2>3, ModesKept
  <2> QED
    BY <1>s, <2>3, <2>4, ClosedRight DEF l
<1>5. Right(ClearEdgeFeature(k), a, r) /\ ClosedTo(ClearEdgeFeature(k), k, "edge")
  <2> DEFINE c == Closed(k, "edge")
             l == ClearEdgeFeature(k)
  <2>1. c \in Desks /\ ClosedTo(c, k, "edge") /\ c.faces = k.faces
    BY <1>0, <1>s, ClosedFacts
  <2>2. l = [c EXCEPT !.edges = FALSE]
    BY DEF ClearEdgeFeature
  <2> HIDE DEF c, l
  <2>3. /\ l \in Desks /\ ClosedTo(l, k, "edge") /\ ~l.edges
        /\ l.faces = k.faces
    BY <2>1, <2>2 DEF Desks, ClosedTo
  <2>4. ModesOwned(l)
    BY <1>0, <1>s, <2>3, ModesKept
  <2> QED
    BY <1>s, <2>3, <2>4, ClosedRight DEF l
<1> QED
  BY <1>1, <1>2, <1>3, <1>4, <1>5 DEF ClearRevolve

-----------------------------------------------------------------------------
(* Sketches, and the change of documents *)

\* The drafts of two desks are the same, and what was made of them.
SameDrafts(l, k) ==
    /\ l.draft = k.draft /\ l.eval = k.eval /\ l.fits = k.fits
    /\ l.armed = k.armed /\ l.shown = k.shown

LEMMA SameDraftsRight ==
    ASSUME NEW k, NEW a, NEW r, Right(k, a, r), NEW l \in Desks,
           SameDrafts(l, k), ModesOwned(l), SketchesAlone(l)
    PROVE  Right(l, a, r)
<1>1. \A s \in Slots : Live(l, s) <=> Live(k, s)
  BY DEF Live, SameDrafts
<1>2. DraftsOwned(l, a)
  BY <1>1 DEF Right, Owned, DraftsOwned, SameDrafts
<1>3. \A s \in Slots : SlotRight(l, r, s)
  BY <1>1 DEF Right, SlotRight, SameDrafts
<1>4. \A w \in Views : ViewRight(l, w)
  <2> SUFFICES ASSUME NEW w \in Views PROVE ViewRight(l, w)
    OBVIOUS
  <2>1. ViewRight(k, w)
    BY DEF Right
  <2> QED
    BY <2>1 DEF ViewRight, SameDrafts, Live
<1> QED
  BY <1>2, <1>3, <1>4 DEF Right, Owned

LEMMA ClearProjectRight ==
    ASSUME NEW k, NEW a, NEW r, Right(k, a, r)
    PROVE  LET l == ClearProject(k)
           IN  /\ Right(l, a, r) /\ SameDrafts(l, k)
               /\ l.project = None /\ l.picking = k.picking
               /\ l.support = k.support /\ l.sketch = k.sketch
               /\ l.edges => k.edges
<1>0. k \in Desks /\ ModesOwned(k) /\ SketchesAlone(k)
  BY DEF Right, Owned
<1>1. CASE k.project = None
  BY <1>0, <1>1 DEF ClearProject, SameDrafts
<1>2. CASE k.project # None
  <2> DEFINE l == ClearProject(k)
  <2>1. l = [k EXCEPT !.project = None, !.edges = FALSE, !.faces = FALSE]
    BY <1>2 DEF ClearProject
  <2> HIDE DEF l
  <2>2. /\ l \in Desks /\ SameDrafts(l, k) /\ ~l.edges /\ ~l.faces
        /\ l.project = None /\ l.picking = k.picking
        /\ l.support = k.support /\ l.sketch = k.sketch
    BY <1>0, <2>1 DEF Desks, SameDrafts
  <2>3. ModesOwned(l) /\ SketchesAlone(l)
    BY <1>0, <2>2 DEF ModesOwned, SketchesAlone, SameDrafts, Live
  <2> QED
    BY <2>2, <2>3, SameDraftsRight DEF l
<1> QED
  BY <1>1, <1>2

LEMMA ClearSketchRight ==
    ASSUME NEW k, NEW a, NEW r, Right(k, a, r)
    PROVE  LET l == ClearSketch(k)
           IN  /\ Right(l, a, r) /\ SameDrafts(l, k)
               /\ l.project = None /\ l.picking = k.picking
               /\ l.support = None /\ l.sketch = None
               /\ l.edges => k.edges
               /\ ~l.faces
<1> DEFINE c == ClearProject(k)
           l == ClearSketch(k)
<1>1. /\ Right(c, a, r) /\ SameDrafts(c, k)
      /\ c.project = None /\ c.picking = k.picking /\ (c.edges => k.edges)
  BY ClearProjectRight
<1>2. l = [c EXCEPT !.support = None, !.sketch = None, !.faces = FALSE]
  BY DEF ClearSketch
<1> HIDE DEF c, l
<1>3. c \in Desks /\ ModesOwned(c)
  BY <1>1 DEF Right, Owned
<1>4. /\ l \in Desks /\ SameDrafts(l, c) /\ ~l.faces /\ l.edges = c.edges
      /\ l.project = c.project /\ l.picking = c.picking
      /\ l.support = None /\ l.sketch = None
  BY <1>2, <1>3 DEF Desks, SameDrafts
<1>5. ModesOwned(l) /\ SketchesAlone(l)
  BY <1>1, <1>3, <1>4 DEF ModesOwned, SketchesAlone, SameDrafts, Live
<1>6. Right(l, a, r)
  BY <1>1, <1>4, <1>5, SameDraftsRight
<1> QED
  BY <1>1, <1>4, <1>6 DEF SameDrafts, l

\* The empty desk, whatever is in front.
LEMMA EmptyRight ==
    ASSUME NEW a, NEW r
    PROVE  Right(Empty, a, r)
<1>1. Empty \in Desks
  BY DEF Empty, Desks
<1>2. /\ \A s \in Slots : ~Live(Empty, s) /\ Empty.eval[s] = None
                          /\ s \notin Empty.armed
      /\ \A w \in Views : Empty.shown[w] = None
      /\ ~Empty.edges /\ ~Empty.faces
      /\ Empty.project = None /\ Empty.support = None /\ Empty.sketch = None
  BY DEF Empty, Live
<1> QED
  BY <1>1, <1>2 DEF Right, Owned, DraftsOwned, ModesOwned, SketchesAlone,
                    SlotRight, ViewRight, SolidSlots, Slots

\* The slots in S are closed.
Cleared(k, S) ==
    \A s \in S : /\ k.draft[s] = None /\ k.eval[s] = None /\ k.fits[s]
                 /\ s \notin k.armed /\ k.shown[ViewOf(s)] = None

LEMMA ClosedCleared ==
    ASSUME NEW k \in Desks, NEW S \in SUBSET Slots, Cleared(k, S),
           NEW s \in Slots, NEW l, ClosedTo(l, k, s)
    PROVE  Cleared(l, S \cup {s})
<1>1. ASSUME NEW t \in S \cup {s}
      PROVE  /\ l.draft[t] = None /\ l.eval[t] = None /\ l.fits[t]
             /\ t \notin l.armed /\ l.shown[ViewOf(t)] = None
  <2>1. ViewOf(t) \in Views /\ ViewOf(s) \in Views
    BY KindFacts
  <2>2. l.shown[ViewOf(t)] = None
    BY <2>1, DeskFacts DEF ClosedTo, Cleared
  <2> QED
    BY <2>2, DeskFacts DEF ClosedTo, Cleared
<1> QED
  BY <1>1 DEF Cleared

\* Nothing is forgotten when another document comes to the front.
LEMMA ClearAllIsEmpty ==
    ASSUME NEW k, NEW a, NEW r \in Nat, Right(k, a, r)
    PROVE  ClearAll(k) = Empty
<1> DEFINE k1 == ClearAxis(k)
           k2 == ClearDatumPlane(k1)
           k3 == ClearExtrude(k2)
           k4 == ClearRevolve(k3)
           k5 == ClearEdgeFeature(k4)
           k6 == ClearProject(k5)
           k7 == ClearSketch(k6)
<1>0. \A l : Right(l, a, r) => l \in Desks
  BY DEF Right, Owned
<1>1. Right(k1, a, r) /\ Cleared(k1, {"axis"}) /\ ~k1.edges /\ ~k1.faces
  <2>1. Right(k1, a, r) /\ ClosedTo(k1, k, "axis") /\ k \in Desks
    BY <1>0, ClearRight
  <2>2. Cleared(k1, {} \cup {"axis"})
    <3>1. Cleared(k, {})
      BY DEF Cleared
    <3> HIDE DEF k1
    <3> QED
      BY <2>1, <3>1, ClosedCleared DEF Slots
  <2>3. Closed(k, "axis") \in Desks
    BY <2>1, ClosedFacts DEF Slots
  <2>4. ~k1.edges /\ ~k1.faces
    BY <2>3 DEF ClearAxis, Desks
  <2> QED
    BY <2>1, <2>2, <2>4
<1> HIDE DEF k1
<1>2. /\ Right(k2, a, r) /\ Cleared(k2, {"axis", "datum"}) /\ ~k2.edges /\ ~k2.faces
  <2>1. Right(k2, a, r) /\ ClosedTo(k2, k1, "datum") /\ k1 \in Desks
    BY <1>0, <1>1, ClearRight
  <2> HIDE DEF k2
  <2>2. Cleared(k2, {"axis"} \cup {"datum"})
    BY <1>1, <2>1, ClosedCleared DEF Slots
  <2>3. {"axis"} \cup {"datum"} = {"axis", "datum"}
    OBVIOUS
  <2> QED
    BY <1>1, <2>1, <2>2, <2>3 DEF ClosedTo
<1> HIDE DEF k2
<1>3. /\ Right(k3, a, r) /\ Cleared(k3, {"axis", "datum", "extrude"})
      /\ ~k3.edges /\ ~k3.faces /\ ~k3.picking
  <2>1. Right(k3, a, r) /\ ClosedTo(k3, k2, "extrude") /\ k2 \in Desks
    BY <1>0, <1>2, ClearRight
  <2>2. ~k3.picking
    <3>1. Closed(k2, "extrude") \in Desks
      BY <2>1, ClosedFacts DEF Slots
    <3> QED
      BY <3>1 DEF ClearExtrude, Desks
  <2> HIDE DEF k3
  <2>3. Cleared(k3, {"axis", "datum"} \cup {"extrude"})
    BY <1>2, <2>1, ClosedCleared DEF Slots
  <2>4. {"axis", "datum"} \cup {"extrude"} = {"axis", "datum", "extrude"}
    OBVIOUS
  <2> QED
    BY <1>2, <2>1, <2>2, <2>3, <2>4 DEF ClosedTo
<1> HIDE DEF k3
<1>4. /\ Right(k4, a, r) /\ Cleared(k4, Slots \ {"edge"})
      /\ ~k4.edges /\ ~k4.faces /\ ~k4.picking
  <2>1. Right(k4, a, r) /\ ClosedTo(k4, k3, "revolve") /\ k3 \in Desks
    BY <1>0, <1>3, ClearRight
  <2> HIDE DEF k4
  <2>2. Cleared(k4, {"axis", "datum", "extrude"} \cup {"revolve"})
    BY <1>3, <2>1, ClosedCleared DEF Slots
  <2>3. {"axis", "datum", "extrude"} \cup {"revolve"} = Slots \ {"edge"}
    BY DEF Slots
  <2> QED
    BY <1>3, <2>1, <2>2, <2>3 DEF ClosedTo
<1> HIDE DEF k4
<1>5. /\ Right(k5, a, r) /\ Cleared(k5, Slots)
      /\ ~k5.edges /\ ~k5.faces /\ ~k5.picking
  <2>1. Right(k5, a, r) /\ ClosedTo(k5, k4, "edge") /\ k4 \in Desks
    BY <1>0, <1>4, ClearRight
  <2> HIDE DEF k5
  <2>2. Cleared(k5, (Slots \ {"edge"}) \cup {"edge"})
    BY <1>4, <2>1, ClosedCleared DEF Slots
  <2>3. (Slots \ {"edge"}) \cup {"edge"} = Slots
    BY DEF Slots
  <2> QED
    BY <1>4, <2>1, <2>2, <2>3 DEF ClosedTo
<1> HIDE DEF k5
<1>6. /\ Right(k6, a, r) /\ SameDrafts(k6, k5) /\ ~k6.edges /\ ~k6.picking
  BY <1>5, ClearProjectRight
<1> HIDE DEF k6
<1>7. /\ Right(k7, a, r) /\ SameDrafts(k7, k6) /\ ~k7.edges /\ ~k7.picking
      /\ k7.project = None /\ k7.support = None /\ k7.sketch = None /\ ~k7.faces
  BY <1>6, ClearSketchRight
<1>8. ClearAll(k) = k7
  BY DEF ClearAll, k1, k2, k3, k4, k5, k6
<1> HIDE DEF k7
<1>9. k7 \in Desks /\ Cleared(k7, Slots)
  BY <1>0, <1>5, <1>6, <1>7 DEF SameDrafts, Cleared
<1>10. /\ k7.draft = [s \in Slots |-> None] /\ k7.eval = [s \in Slots |-> None]
       /\ k7.fits = [s \in Slots |-> TRUE]
  <2>1. k7.draft = [s \in Slots |-> None] /\ k7.eval = [s \in Slots |-> None]
    BY <1>9, DeskFacts DEF Cleared
  <2>2. k7.fits \in [Slots -> BOOLEAN]
    BY <1>9, DeskFacts
  <2>3. \A s \in Slots : k7.fits[s]
    BY <1>9 DEF Cleared
  <2>4. k7.fits = [s \in Slots |-> k7.fits[s]]
    BY <2>2
  <2>5. \A s \in Slots : k7.fits[s] = TRUE
    BY <2>2, <2>3
  <2> QED
    BY <2>1, <2>4, <2>5
<1>11. k7.armed = {}
  BY <1>9, DeskFacts DEF Cleared, TypedSlots
<1>12. k7.shown = [w \in Views |-> None]
  <2>1. \A w \in Views : \E s \in Slots : w = ViewOf(s)
    BY DEF Views
  <2>2. \A w \in Views : k7.shown[w] = None
    BY <1>9, <2>1 DEF Cleared
  <2> QED
    BY <1>9, <2>2, DeskFacts
<1>13. k7 = Empty
  <2>1. k7.edges = FALSE /\ k7.faces = FALSE /\ k7.picking = FALSE
    BY <1>7, <1>9, DeskFacts
  <2> QED
    BY <1>7, <1>9, <1>10, <1>11, <1>12, <2>1 DEF Desks, Empty
<1> QED
  BY <1>8, <1>13

\* On the way through the slots: those in T are right at revision r.
Pending(k, a, r, T) ==
    /\ Owned(k, a)
    /\ \A t \in T : SlotRight(k, r, t)
    /\ \A t \in Slots : Live(k, t) => k.draft[t].revision <= r
    /\ \A t \in Slots : ~Live(k, t) => SlotRight(k, r, t)
    /\ \A w \in Views : ViewRight(k, w)

EvaluatedAnew(k, p, s) == IF Live(k, s) THEN Refreshed(k, p, s) ELSE k

LEMMA PendingStep ==
    ASSUME NEW k, NEW a, NEW p, p.revision \in Nat, NEW T \in SUBSET Slots,
           Pending(k, a, p.revision, T), NEW s \in Slots,
           NEW U, U = T \cup {s}, NEW m, m = EvaluatedAnew(k, p, s)
    PROVE  Pending(m, a, p.revision, U) /\ m.draft = k.draft
<1> DEFINE r == p.revision
           l == Refreshed(k, p, s)
<1>1. CASE ~Live(k, s)
  BY <1>1 DEF Pending, EvaluatedAnew
<1>2. CASE Live(k, s)
  <2>0. /\ Owned(k, a) /\ k.draft[s].revision <= p.revision
        /\ \A t \in T \ {s} : SlotRight(k, p.revision, t)
        /\ \A w \in Views \ {ViewOf(s)} : ViewRight(k, w)
    BY <1>2 DEF Pending
  <2>1. /\ Owned(l, a) /\ SameTools(l, k)
        /\ \A t \in T \cup {s} : SlotRight(l, r, t)
        /\ \A t \in Slots : Live(l, t) <=> Live(k, t)
        /\ \A t \in Slots \ {s} : SlotRight(k, r, t) => SlotRight(l, r, t)
        /\ \A w \in Views : ViewRight(l, w)
    BY <1>2, <2>0, RefreshedRight
  <2> HIDE DEF r, l
  <2>2. l.draft = k.draft
    BY <2>1 DEF SameTools
  <2>3. Pending(l, a, r, U)
    BY <1>2, <2>1, <2>2 DEF Pending, r
  <2> QED
    BY <1>2, <2>2, <2>3 DEF r, l, EvaluatedAnew
<1> QED
  BY <1>1, <1>2

LEMMA ReconciledRight ==
    ASSUME NEW k, NEW a, NEW r, Right(k, a, r), NEW p
    PROVE  Right(Reconciled(k, p), a, r) /\ SameDrafts(Reconciled(k, p), k)
BY ClearSketchRight DEF Reconciled, SameDrafts

\* After any change of the document every evaluation is of its revision.
LEMMA ActiveContextRight ==
    ASSUME NEW k, NEW a, NEW r \in Nat, Right(k, a, r),
           NEW p, p.revision \in Nat, r <= p.revision
    PROVE  /\ Right(ActiveContext(k, p), a, p.revision)
           /\ ActiveContext(k, p).draft = k.draft

<1> DEFINE n == p.revision
           k0 == Reconciled(k, p)
           k1 == EvaluatedAnew(k0, p, "axis")
           k2 == EvaluatedAnew(k1, p, "datum")
           k3 == EvaluatedAnew(k2, p, "extrude")
           k4 == EvaluatedAnew(k3, p, "revolve")
           k5 == EvaluatedAnew(k4, p, "edge")
           s0 == {}
           s1 == {"axis"}
           s2 == {"axis", "datum"}
           s3 == {"axis", "datum", "extrude"}
           s4 == {"axis", "datum", "extrude", "revolve"}
<1>1. ActiveContext(k, p) = k5
  BY DEF ActiveContext, EvaluatedAnew
<1>2. Right(k0, a, r) /\ k0.draft = k.draft
  BY ReconciledRight DEF SameDrafts
<1>s. /\ "axis" \in Slots /\ "datum" \in Slots /\ "extrude" \in Slots
      /\ "revolve" \in Slots /\ "edge" \in Slots
  BY DEF Slots
<1>t. /\ s0 \in SUBSET Slots /\ s1 = s0 \cup {"axis"}
      /\ s1 \in SUBSET Slots /\ s2 = s1 \cup {"datum"}
      /\ s2 \in SUBSET Slots /\ s3 = s2 \cup {"extrude"}
      /\ s3 \in SUBSET Slots /\ s4 = s3 \cup {"revolve"}
      /\ s4 \in SUBSET Slots /\ Slots = s4 \cup {"edge"}
  BY DEF Slots
<1>3. Pending(k0, a, p.revision, s0)
  <2> HIDE DEF n
  <2>0. n \in Nat /\ r <= n
    BY DEF n
  <2>1. k0.draft \in [Slots -> Drafts \cup {None}]
    BY <1>2, DeskFacts DEF Right, Owned
  <2>2. \A t \in Slots : Live(k0, t) => k0.draft[t].revision \in Nat
    BY <2>1 DEF Drafts, Live
  <2>3. \A t \in Slots : Live(k0, t) => k0.draft[t].revision <= n
    BY <1>2, <2>0, <2>2 DEF Right, SlotRight
  <2>4. \A t \in Slots : ~Live(k0, t) => SlotRight(k0, n, t)
    BY <1>2 DEF Right, SlotRight
  <2> QED
    BY <1>2, <2>3, <2>4 DEF Right, Pending, n
<1>k. /\ k1 = EvaluatedAnew(k0, p, "axis")
      /\ k2 = EvaluatedAnew(k1, p, "datum")
      /\ k3 = EvaluatedAnew(k2, p, "extrude")
      /\ k4 = EvaluatedAnew(k3, p, "revolve")
      /\ k5 = EvaluatedAnew(k4, p, "edge")
  OBVIOUS
<1> HIDE DEF s0, s1, s2, s3, s4, k1, k2, k3, k4, k5
<1>p. ASSUME NEW i, NEW T \in SUBSET Slots, Pending(i, a, p.revision, T),
             NEW s \in Slots, NEW j, j = EvaluatedAnew(i, p, s)
      PROVE  Pending(j, a, p.revision, T \cup {s}) /\ j.draft = i.draft
  BY <1>p, PendingStep
<1>4. Pending(k1, a, p.revision, s1) /\ k1.draft = k0.draft
  <2>1. /\ s0 \in SUBSET Slots /\ s1 = s0 \cup {"axis"} /\ "axis" \in Slots
        /\ k1 = EvaluatedAnew(k0, p, "axis")
    BY <1>s, <1>t, <1>k
  <2> QED
    BY <1>3, <2>1, <1>p
<1>5. Pending(k2, a, p.revision, s2) /\ k2.draft = k1.draft
  <2>1. /\ s1 \in SUBSET Slots /\ s2 = s1 \cup {"datum"} /\ "datum" \in Slots
        /\ k2 = EvaluatedAnew(k1, p, "datum")
    BY <1>s, <1>t, <1>k
  <2> QED
    BY <1>4, <2>1, <1>p
<1>6. Pending(k3, a, p.revision, s3) /\ k3.draft = k2.draft
  <2>1. /\ s2 \in SUBSET Slots /\ s3 = s2 \cup {"extrude"} /\ "extrude" \in Slots
        /\ k3 = EvaluatedAnew(k2, p, "extrude")
    BY <1>s, <1>t, <1>k
  <2> QED
    BY <1>5, <2>1, <1>p
<1>7. Pending(k4, a, p.revision, s4) /\ k4.draft = k3.draft
  <2>1. /\ s3 \in SUBSET Slots /\ s4 = s3 \cup {"revolve"} /\ "revolve" \in Slots
        /\ k4 = EvaluatedAnew(k3, p, "revolve")
    BY <1>s, <1>t, <1>k
  <2> QED
    BY <1>6, <2>1, <1>p
<1>8. Pending(k5, a, p.revision, Slots) /\ k5.draft = k4.draft
  <2>1. /\ s4 \in SUBSET Slots /\ Slots = s4 \cup {"edge"} /\ "edge" \in Slots
        /\ k5 = EvaluatedAnew(k4, p, "edge")
    BY <1>s, <1>t, <1>k
  <2> QED
    BY <1>7, <2>1, <1>p
<1>9. Right(k5, a, p.revision)
  BY <1>8 DEF Pending, Right
<1> QED
  BY <1>1, <1>2, <1>4, <1>5, <1>6, <1>7, <1>8, <1>9

-----------------------------------------------------------------------------
(* The document *)

\* A command that leaves the document with another content.
LEMMA RecordedFacts ==
    ASSUME NEW d, NEW p, PartRight(p, d), MaxRevision[d] \in Nat,
           p.revision # MaxRevision[d], NEW content \in SUBSET Objects
    PROVE  LET q == [p EXCEPT
                       !.revision = @ + 1,
                       !.timeline = Append(SubSeq(@, 1, p.position), content),
                       !.position = @ + 1]
           IN  /\ PartRight(q, d) /\ q.revision = p.revision + 1
               /\ q.next = p.next /\ Content(q) = content
<1> DEFINE t == Append(SubSeq(p.timeline, 1, p.position), content)
           q == [p EXCEPT
                       !.revision = @ + 1,
                       !.timeline = Append(SubSeq(@, 1, p.position), content),
                       !.position = @ + 1]
<1>1. /\ p.revision \in Nat \ {0} /\ p.timeline \in Seq(SUBSET Objects)
      /\ p.position \in Nat /\ p.next \in Ids /\ p \in Parts
      /\ p.position \in 1..Len(p.timeline) /\ p.revision <= MaxRevision[d]
  BY LenProperties DEF PartRight, Parts
<1>2. /\ SubSeq(p.timeline, 1, p.position) \in Seq(SUBSET Objects)
      /\ Len(SubSeq(p.timeline, 1, p.position)) = p.position
  <2>1. /\ \A i \in 1..p.position : i \in 1..Len(p.timeline)
        /\ Len(p.timeline) \in Nat
    BY <1>1, LenProperties
  <2>2. \A i \in 1..p.position : p.timeline[i] \in SUBSET Objects
    BY <1>1, <2>1, ElementOfSeq
  <2> QED
    BY <1>1, <2>1, <2>2, SubSeqProperties
<1>3. /\ t \in Seq(SUBSET Objects) /\ Len(t) = p.position + 1
      /\ t[p.position + 1] = content
  <2> DEFINE u == SubSeq(p.timeline, 1, p.position)
  <2>1. u \in Seq(SUBSET Objects) /\ Len(u) = p.position
    BY <1>2
  <2>2. t = Append(u, content)
    OBVIOUS
  <2> HIDE DEF u, t
  <2> QED
    BY <2>1, <2>2, AppendProperties
<1>4. q = [p EXCEPT !.revision = p.revision + 1, !.timeline = t,
                    !.position = p.position + 1]
  OBVIOUS
<1> HIDE DEF q, t
<1>5. /\ q \in Parts /\ q.revision = p.revision + 1 /\ q.timeline = t
      /\ q.position = p.position + 1 /\ q.next = p.next
  <2>1. p.revision + 1 \in Nat \ {0} /\ p.position + 1 \in Nat
    BY <1>1
  <2> DEFINE r == p.revision + 1
             i == p.position + 1
  <2>2. /\ p \in Parts /\ t \in Seq(SUBSET Objects) /\ r \in Nat \ {0} /\ i \in Nat
        /\ q = [p EXCEPT !.revision = r, !.timeline = t, !.position = i]
    BY <1>1, <1>3, <1>4, <2>1
  <2> HIDE DEF r, i
  <2>3. /\ q \in Parts /\ q.revision = r /\ q.timeline = t
        /\ q.position = i /\ q.next = p.next
    BY <2>2 DEF Parts
  <2> QED
    BY <2>3 DEF r, i
<1>6. q.position \in DOMAIN q.timeline
  <2>1. DOMAIN t = 1..Len(t)
    BY <1>3, LenProperties
  <2> QED
    BY <1>1, <1>3, <1>5, <2>1
<1>7. PartRight(q, d)
  BY <1>1, <1>5, <1>6 DEF PartRight
<1> QED
  BY <1>3, <1>5, <1>7 DEF q, Content

LEMMA CommittedFacts ==
    ASSUME NEW d, NEW p, PartRight(p, d), MaxRevision[d] \in Nat,
           p.revision # MaxRevision[d], NEW content \in SUBSET Objects
    PROVE  LET q == Committed(p, content)
           IN  /\ PartRight(q, d) /\ p.revision <= q.revision
               /\ q.next = p.next /\ Content(q) = content
<1>1. CASE content = Content(p)
  BY <1>1 DEF Committed, PartRight, Parts
<1>2. CASE content # Content(p)
  <2>1. p.revision <= p.revision + 1
    BY DEF PartRight, Parts
  <2> QED
    BY <1>2, <2>1, RecordedFacts DEF Committed
<1> QED
  BY <1>1, <1>2

\* The other changes of a document.
LEMMA PartFacts ==
    ASSUME NEW d, NEW p, PartRight(p, d)
    PROVE  /\ Content(p) \in SUBSET Objects
           /\ p.next \in Ids
           /\ p.revision \in Nat \ {0} /\ p.revision <= MaxRevision[d]
           /\ PartRight([p EXCEPT !.next = @ + 1], d)
           /\ [p EXCEPT !.next = @ + 1].revision = p.revision
           /\ Content([p EXCEPT !.next = @ + 1]) = Content(p)
           /\ \A i \in DOMAIN p.timeline :
                MaxRevision[d] \in Nat /\ p.revision # MaxRevision[d] =>
                  /\ PartRight(Moved(p, i), d)
                  /\ Moved(p, i).revision = p.revision + 1
<1>1. /\ p.revision \in Nat \ {0} /\ p.timeline \in Seq(SUBSET Objects)
      /\ p.position \in Nat /\ p.next \in Ids /\ p \in Parts
      /\ DOMAIN p.timeline = 1..Len(p.timeline) /\ Len(p.timeline) \in Nat
      /\ p.position \in 1..Len(p.timeline) /\ p.revision <= MaxRevision[d]
  BY LenProperties DEF PartRight, Parts
<1>2. Content(p) \in SUBSET Objects
  BY <1>1, ElementOfSeq DEF Content
<1>3. /\ [p EXCEPT !.next = @ + 1] \in Parts
      /\ [p EXCEPT !.next = @ + 1].revision = p.revision
      /\ [p EXCEPT !.next = @ + 1].timeline = p.timeline
      /\ [p EXCEPT !.next = @ + 1].position = p.position
  BY <1>1 DEF Parts, Ids
<1>4. ASSUME NEW i \in DOMAIN p.timeline, MaxRevision[d] \in Nat,
             p.revision # MaxRevision[d]
      PROVE  PartRight(Moved(p, i), d) /\ Moved(p, i).revision = p.revision + 1
  <2> DEFINE q == Moved(p, i)
  <2>1. q = [p EXCEPT !.revision = p.revision + 1, !.timeline = p.timeline,
                      !.position = i]
    <3>1. p = [p EXCEPT !.timeline = p.timeline]
      BY <1>1 DEF Parts
    <3> QED
      BY <1>1 DEF Moved, Parts
  <2>2. p.revision + 1 \in Nat \ {0} /\ i \in Nat
    BY <1>1
  <2> HIDE DEF q
  <2>4. /\ q \in Parts /\ q.revision = p.revision + 1 /\ q.position = i
        /\ q.timeline = p.timeline
    <3> DEFINE r == p.revision + 1
               t == p.timeline
    <3>1. /\ p \in Parts /\ t \in Seq(SUBSET Objects) /\ r \in Nat \ {0}
          /\ q = [p EXCEPT !.revision = r, !.timeline = t, !.position = i]
      BY <1>1, <2>1, <2>2
    <3> HIDE DEF r, t
    <3>2. /\ q \in Parts /\ q.revision = r /\ q.position = i /\ q.timeline = t
      BY <2>2, <3>1 DEF Parts
    <3> QED
      BY <3>2 DEF r, t
  <2>3. q.revision <= MaxRevision[d]
    BY <1>1, <1>4, <2>4
  <2> QED
    BY <1>4, <2>3, <2>4 DEF PartRight, q
<1> QED
  BY <1>1, <1>2, <1>3, <1>4 DEF PartRight, Content

-----------------------------------------------------------------------------
(* Changing one slot *)

\* The slots other than s, and their views, are as they were.
OthersAs(l, k, s) ==
    /\ \A t \in Slots \ {s} : /\ l.draft[t] = k.draft[t]
                              /\ l.eval[t] = k.eval[t]
                              /\ l.fits[t] = k.fits[t]
                              /\ t \in l.armed <=> t \in k.armed
    /\ \A w \in Views \ {ViewOf(s)} : l.shown[w] = k.shown[w]

LEMMA OthersRight ==
    ASSUME NEW k, NEW a, NEW r, Right(k, a, r), NEW s \in Slots,
           NEW l, OthersAs(l, k, s)
    PROVE  /\ \A t \in Slots \ {s} : SlotRight(l, r, t) /\ (Live(l, t) <=> Live(k, t))
           /\ \A w \in Views \ {ViewOf(s)} : ViewRight(l, w)
<1>1. \A t \in Slots \ {s} : SlotRight(l, r, t) /\ (Live(l, t) <=> Live(k, t))
  BY DEF OthersAs, SlotRight, Right, Live
<1>2. ASSUME NEW w \in Views \ {ViewOf(s)}
      PROVE  ViewRight(l, w)
  <2>1. l.shown[w] = k.shown[w] /\ ViewRight(k, w)
    BY DEF OthersAs, Right
  <2>2. k.shown[w] # None => k.shown[w].slot \in Slots
    BY DeskFacts DEF Right, Owned, Previews
  <2> QED
    BY <1>1, <2>1, <2>2 DEF ViewRight, OthersAs
<1> QED
  BY <1>1, <1>2

LEMMA ChangedOwned ==
    ASSUME NEW k, NEW a, NEW r, Right(k, a, r), NEW s \in Slots,
           NEW l \in Desks, OthersAs(l, k, s),
           l.draft[s].doc = a, l.draft[s].kind \in KindsOf[s],
           ModesOwned(l), SketchesAlone(l)
    PROVE  Owned(l, a)
BY DEF Owned, Right, DraftsOwned, OthersAs, Live

\* A draft is changed or replaced, and evaluated at once.
LEMMA ChangedRefreshed ==
    ASSUME NEW k, NEW a, NEW p, p.revision \in Nat, Right(k, a, p.revision),
           NEW s \in Slots, NEW l, Owned(l, a), OthersAs(l, k, s), Live(l, s),
           l.draft[s].revision <= p.revision
    PROVE  /\ Right(Refreshed(l, p, s), a, p.revision)
           /\ SameTools(Refreshed(l, p, s), l)
<1>1. /\ \A t \in Slots \ {s} : SlotRight(l, p.revision, t)
      /\ \A w \in Views \ {ViewOf(s)} : ViewRight(l, w)
  BY OthersRight
<1> QED
  BY <1>1, OneRefreshed

\* It is changed, and its evaluation is dropped until later.
LEMMA ChangedRight ==
    ASSUME NEW k, NEW a, NEW r, Right(k, a, r),
           NEW s \in Slots, NEW l, Owned(l, a), OthersAs(l, k, s),
           SlotRight(l, r, s), ViewRight(l, ViewOf(s))
    PROVE  Right(l, a, r)
<1>1. /\ \A t \in Slots \ {s} : SlotRight(l, r, t)
      /\ \A w \in Views \ {ViewOf(s)} : ViewRight(l, w)
  BY OthersRight
<1> QED
  BY <1>1 DEF Right

-----------------------------------------------------------------------------
(* The active document and its desk *)

Here == WorkbenchInv /\ active # None

LEMMA HereFacts ==
    ASSUME Here
    PROVE  /\ active \in Docs /\ Right(desk, active, Part.revision)
           /\ desk \in Desks /\ Owned(desk, active)
           /\ PartRight(Part, active) /\ Part.revision \in Nat \ {0}
           /\ Part.next \in Ids /\ Content(Part) \in SUBSET Objects
           /\ MaxRevision[active] \in Nat
<1>1. active \in Docs /\ Right(desk, active, Part.revision)
  BY DEF Here, WorkbenchInv, DeskRight
<1>2. PartRight(Part, active)
  BY <1>1 DEF Here, WorkbenchInv, PartsRight, Part
<1>3. MaxRevision[active] \in Nat
  BY <1>1, WorkbenchAssumption
<1> QED
  BY <1>1, <1>2, <1>3, PartFacts DEF Right, Owned

\* A step that asks nothing of the document, and one that commits.
LEMMA DeskStep ==
    ASSUME Here, NEW k, Right(k, active, Part.revision), Desk(k)
    PROVE  WorkbenchInv'
<1>1. active' = active /\ part' = part /\ desk' = k
  BY DEF Desk
<1>2. PartsRight'
  BY <1>1 DEF Here, WorkbenchInv, PartsRight
<1>3. DeskRight'
  BY <1>1, HereFacts DEF DeskRight, Part, Here
<1> QED
  BY <1>2, <1>3 DEF WorkbenchInv

LEMMA AuthorStep ==
    ASSUME Here, NEW p, PartRight(p, active), NEW k,
           Right(k, active, p.revision), Author(p, k)
    PROVE  WorkbenchInv'
<1>0. active \in Docs /\ part \in [Docs -> Parts] /\ p \in Parts
  BY HereFacts DEF Here, WorkbenchInv, PartsRight, PartRight
<1>1. /\ active' = active /\ desk' = k
      /\ part' = [part EXCEPT ![active] = p]
  BY DEF Author
<1>2. /\ part' \in [Docs -> Parts] /\ part'[active] = p
      /\ \A d \in Docs \ {active} : part'[d] = part[d]
  BY <1>0, <1>1
<1>3. PartsRight'
  BY <1>2 DEF Here, WorkbenchInv, PartsRight
<1>4. DeskRight'
  BY <1>0, <1>1, <1>2 DEF DeskRight, Part, Here
<1> QED
  BY <1>3, <1>4 DEF WorkbenchInv

\* After a commit the contexts that stay are evaluated again.
LEMMA CommitStep ==
    ASSUME Here, NEW p, PartRight(p, active), Part.revision <= p.revision,
           NEW k, Right(k, active, Part.revision),
           Author(p, ActiveContext(k, p))
    PROVE  WorkbenchInv'
<1>1. Part.revision \in Nat /\ p.revision \in Nat
  BY HereFacts, PartFacts
<1>2. Right(ActiveContext(k, p), active, p.revision)
  BY <1>1, ActiveContextRight
<1> QED
  BY <1>2, AuthorStep

-----------------------------------------------------------------------------
(* Drafts *)

LEMMA NewDraftFacts ==
    ASSUME Here, NEW kind \in Kinds, NEW target \in Ids \cup {None},
           NEW value \in Values \cup {None}
    PROVE  LET d == NewDraft(kind, target, value)
           IN  /\ d \in Drafts /\ d.doc = active /\ d.kind = kind
               /\ d.target = target /\ d.value = value
               /\ d.revision = Part.revision /\ d.generation = 1
BY HereFacts, WorkbenchAssumption DEF NewDraft, Drafts

LEMMA SetFacts ==
    ASSUME NEW d \in Drafts, NEW value \in Values \cup {None}, Settable(d, value)
    PROVE  LET c == Set(d, value)
           IN  /\ c \in Drafts /\ c.doc = d.doc /\ c.kind = d.kind
               /\ c.target = d.target /\ c.value = value
               /\ c.revision = d.revision
<1>1. CASE d.value = value
  BY <1>1 DEF Set
<1>2. CASE d.value # value
  <2> DEFINE g == d.generation + 1
             c == Set(d, value)
  <2>1. g \in 1..MaxGeneration
    BY <1>2, WorkbenchAssumption DEF Settable, Drafts
  <2>2. c = [d EXCEPT !.value = value, !.generation = g]
    BY <1>2 DEF Set
  <2> HIDE DEF g, c
  <2>3. /\ c \in Drafts /\ c.doc = d.doc /\ c.kind = d.kind
        /\ c.target = d.target /\ c.value = value
        /\ c.revision = d.revision
    BY <2>1, <2>2 DEF Drafts
  <2> QED
    BY <2>3 DEF c
<1> QED
  BY <1>1, <1>2

\* What a tool starts with, with or without a preselected value.
LEMMA CreatedDraft ==
    ASSUME Here, NEW kind \in Kinds, NEW value \in Values \cup {None}
    PROVE  LET d == Set(NewDraft(kind, None, None), value)
           IN  /\ d \in Drafts /\ d.doc = active /\ d.kind = kind
               /\ d.revision = Part.revision
<1> DEFINE n == NewDraft(kind, None, None)
<1>1. /\ n \in Drafts /\ n.doc = active /\ n.kind = kind
      /\ n.revision = Part.revision /\ n.generation = 1
  BY NewDraftFacts
<1> HIDE DEF n
<1>2. Settable(n, value)
  BY <1>1, WorkbenchAssumption DEF Settable
<1> QED
  BY <1>1, <1>2, SetFacts DEF n

\* The parts of a desk that drafts do not reach.
SameContexts(l, k) ==
    /\ l.picking = k.picking /\ l.support = k.support
    /\ l.sketch = k.sketch /\ l.project = k.project

LEMMA PickModesFacts ==
    ASSUME NEW k \in Desks, NEW kind
    PROVE  LET l == PickModes(k, kind)
           IN  /\ l \in Desks /\ SameContexts(l, k) /\ SameDrafts(l, k)
               /\ l.edges => k.edges \/ kind \in BodyAxes \cup EdgeKinds
               /\ l.faces => \/ kind \in {"faceAxis", "offset"}
                             \/ k.faces /\ kind \notin KindsOf["datum"]
<1> DEFINE l == PickModes(k, kind)
           e == EdgeMode(k)
<1>0. SameContexts(k, k) /\ SameDrafts(k, k)
  BY DEF SameContexts, SameDrafts
<1>1. /\ e \in Desks /\ SameContexts(e, k) /\ SameDrafts(e, k)
      /\ e.faces => k.faces
  BY <1>0 DEF EdgeMode, Desks, SameContexts, SameDrafts
<1>2. ASSUME NEW on \in BOOLEAN, NEW j \in Desks
      PROVE  LET m == PickFaces(j, on)
             IN  /\ m \in Desks /\ SameContexts(m, j) /\ SameDrafts(m, j)
                 /\ m.edges = j.edges /\ m.faces = on
  BY DEF PickFaces, Desks, SameContexts, SameDrafts
<1>3. CASE kind \in BodyAxes
  <2>0. kind \notin KindsOf.datum /\ kind \notin EdgeKinds
    BY <1>3 DEF KindsOf, BodyAxes, EdgeKinds
  <2>1. l = PickFaces(e, kind = "faceAxis")
    BY <1>3, <2>0, Zenon DEF PickModes
  <2> HIDE DEF e
  <2> DEFINE on == kind = "faceAxis"
  <2>2. on \in BOOLEAN
    OBVIOUS
  <2> HIDE DEF on
  <2>3. LET m == PickFaces(e, on)
        IN  /\ m \in Desks /\ SameContexts(m, e) /\ SameDrafts(m, e)
            /\ m.faces = on
    BY <1>1, <1>2, <2>2
  <2> QED
    BY <1>1, <1>3, <2>1, <2>3 DEF on, SameContexts, SameDrafts
<1>4. CASE kind \in KindsOf["datum"]
  <2>0. kind \notin BodyAxes /\ kind \notin EdgeKinds /\ kind \in KindsOf.datum
    BY <1>4 DEF KindsOf, BodyAxes, EdgeKinds
  <2>1. l = PickFaces(k, kind = "offset")
    BY <1>4, <2>0, Zenon DEF PickModes
  <2> DEFINE on == kind = "offset"
  <2>2. on \in BOOLEAN
    OBVIOUS
  <2> HIDE DEF on
  <2>3. LET m == PickFaces(k, on)
        IN  /\ m \in Desks /\ SameContexts(m, k) /\ SameDrafts(m, k)
            /\ m.edges = k.edges /\ m.faces = on
    BY <1>2, <2>2
  <2> QED
    BY <1>4, <2>1, <2>3 DEF on
<1>5. CASE kind \in EdgeKinds
  <2>0. kind \notin BodyAxes /\ kind \notin KindsOf["datum"]
    BY <1>5 DEF KindsOf, BodyAxes, EdgeKinds
  <2>1. l = e
    BY <1>5, <2>0 DEF PickModes
  <2> HIDE DEF e
  <2> QED
    BY <1>1, <1>5, <2>0, <2>1
<1>6. CASE kind \notin BodyAxes \cup KindsOf["datum"] \cup EdgeKinds
  <2>1. l = k
    BY <1>6 DEF PickModes
  <2> QED
    BY <1>0, <1>6, <2>1
<1> QED
  BY <1>3, <1>4, <1>5, <1>6

\* A tool takes up draft d; the blockers of solid tools are the sketches.
LEMMA BegunRight ==
    ASSUME Here, NEW k, Right(k, active, Part.revision), NEW s \in Slots,
           NEW d \in Drafts, d.doc = active, d.kind \in KindsOf[s],
           d.revision = Part.revision,
           s \in SolidSlots => k.sketch = None /\ k.support = None
    PROVE  LET l == Begun(k, d)
           IN  /\ Right(l, active, Part.revision) /\ SameContexts(l, k)
               /\ l.draft = [k.draft EXCEPT ![s] = d]
<1> DEFINE b == [k EXCEPT !.draft[s] = d, !.fits[s] = TRUE]
           m == PickModes(b, d.kind)
           l == Begun(k, d)
<1>0. k \in Desks /\ ModesOwned(k) /\ SketchesAlone(k)
  BY DEF Right, Owned
<1>1. SlotOf(d.kind) = s
  BY KindFacts
<1>2. /\ b \in Desks /\ SameContexts(b, k) /\ b.edges = k.edges
      /\ b.faces = k.faces /\ b.draft = [k.draft EXCEPT ![s] = d]
      /\ b.fits = [k.fits EXCEPT ![s] = TRUE]
      /\ b.eval = k.eval /\ b.armed = k.armed /\ b.shown = k.shown
  <2> DEFINE dr == [k.draft EXCEPT ![s] = d]
             ft == [k.fits EXCEPT ![s] = TRUE]
  <2>1. dr \in [Slots -> Drafts \cup {None}] /\ ft \in [Slots -> BOOLEAN]
    BY <1>0, DeskFacts
  <2>2. b = [k EXCEPT !.draft = dr, !.fits = ft]
    OBVIOUS
  <2> HIDE DEF dr, ft, b
  <2>3. /\ b \in Desks /\ SameContexts(b, k) /\ b.edges = k.edges
        /\ b.faces = k.faces /\ b.draft = dr /\ b.fits = ft
        /\ b.eval = k.eval /\ b.armed = k.armed /\ b.shown = k.shown
    BY <1>0, <2>1, <2>2 DEF Desks, SameContexts
  <2> QED
    BY <2>3 DEF dr, ft
<1>3. l = Refreshed(m, Part, s)
  BY <1>1 DEF Begun
<1> HIDE DEF b, l
<1>4. /\ m \in Desks /\ SameContexts(m, b) /\ SameDrafts(m, b)
      /\ m.edges => b.edges \/ d.kind \in BodyAxes \cup EdgeKinds
      /\ m.faces => \/ d.kind \in {"faceAxis", "offset"}
                    \/ b.faces /\ d.kind \notin KindsOf["datum"]
  BY <1>2, PickModesFacts
<1> HIDE DEF m
<1>5. /\ m.draft = [k.draft EXCEPT ![s] = d]
      /\ m.fits = [k.fits EXCEPT ![s] = TRUE]
      /\ m.eval = k.eval /\ m.armed = k.armed /\ m.shown = k.shown
      /\ SameContexts(m, k)
      /\ m.edges => k.edges \/ d.kind \in BodyAxes \cup EdgeKinds
      /\ m.faces => \/ d.kind \in {"faceAxis", "offset"}
                    \/ k.faces /\ d.kind \notin KindsOf["datum"]
  BY <1>2, <1>4 DEF SameDrafts, SameContexts
<1>6. /\ m.draft[s] = d /\ Live(m, s)
      /\ \A t \in Slots \ {s} : /\ m.draft[t] = k.draft[t]
                                /\ m.fits[t] = k.fits[t]
                                /\ Live(m, t) <=> Live(k, t)
      /\ \A t \in Slots : Live(k, t) => Live(m, t)
  BY <1>0, <1>5, DeskFacts, NoneAssumption DEF Live
<1>7. OthersAs(m, k, s)
  BY <1>5, <1>6 DEF OthersAs
<1>8. ModesOwned(m)
  <2>1. /\ d.kind \in BodyAxes => s = "axis"
        /\ d.kind \in EdgeKinds => s = "edge"
        /\ d.kind = "offset" => s = "datum"
        /\ d.kind = "faceAxis" => s = "axis"
        /\ "axis" \in Slots /\ "edge" \in Slots /\ "datum" \in Slots
    BY DEF BodyAxes, EdgeKinds, KindsOf, Slots
  <2>2. m.edges => \/ Live(m, "axis") \/ Live(m, "edge") \/ m.project # None
    BY <1>0, <1>5, <1>6, <2>1 DEF ModesOwned, SameContexts
  <2>3. m.faces => \/ Live(m, "axis")
                   \/ Live(m, "datum") /\ m.draft["datum"].kind = "offset"
                   \/ m.support # None
                   \/ m.project # None
    <3>1. CASE d.kind \in {"faceAxis", "offset"}
      BY <1>6, <2>1, <3>1
    <3>2. CASE k.faces /\ d.kind \notin KindsOf["datum"]
      <4>1. s # "datum"
        BY <3>2
      <4>2. /\ Live(k, "axis") => Live(m, "axis")
            /\ Live(k, "datum") => Live(m, "datum")
            /\ m.draft["datum"] = k.draft["datum"]
            /\ m.support = k.support /\ m.project = k.project
        BY <1>5, <1>6, <2>1, <4>1 DEF SameContexts
      <4> QED
        BY <1>0, <3>2, <4>2 DEF ModesOwned
    <3> QED
      BY <1>5, <3>1, <3>2
  <2> QED
    BY <2>2, <2>3 DEF ModesOwned
<1>9. SketchesAlone(m)
  BY <1>0, <1>5, <1>6 DEF SketchesAlone, SameContexts, SolidSlots, Slots
<1>10. Owned(m, active)
  BY <1>4, <1>6, <1>7, <1>8, <1>9, ChangedOwned
<1>11. Part.revision \in Nat /\ m.draft[s].revision <= Part.revision
  BY <1>6, HereFacts
<1>12. Right(l, active, Part.revision) /\ SameTools(l, m)
  <2> HIDE DEF Here
  <2> QED
    BY <1>3, <1>6, <1>7, <1>10, <1>11, ChangedRefreshed
<1> QED
  BY <1>5, <1>12 DEF SameTools, SameContexts, l

-----------------------------------------------------------------------------
(* Starting a tool *)

LEMMA CreatedStep ==
    ASSUME Here, NEW k, Right(k, active, Part.revision), NEW s \in Slots,
           NEW kind \in KindsOf[s], NEW value \in Values \cup {None},
           s \in SolidSlots => k.sketch = None /\ k.support = None,
           Desk(Created(k, kind, value))
    PROVE  WorkbenchInv'
<1> DEFINE d == Set(NewDraft(kind, None, None), value)
<1>1. kind \in Kinds
  BY KindFacts
<1>2. /\ d \in Drafts /\ d.doc = active /\ d.kind = kind
      /\ d.revision = Part.revision
  BY <1>1, CreatedDraft
<1>3. Created(k, kind, value) = Begun(k, d)
  BY DEF Created
<1> HIDE DEF d
<1>4. Right(Begun(k, d), active, Part.revision)
  BY <1>2, BegunRight
<1> QED
  BY <1>3, <1>4, DeskStep

LEMMA EditedRight ==
    ASSUME Here, NEW k, Right(k, active, Part.revision), NEW s \in Slots,
           NEW o \in Content(Part), o.kind \in KindsOf[s],
           s \in SolidSlots => k.sketch = None /\ k.support = None
    PROVE  /\ Right(Edited(k, o), active, Part.revision)
           /\ SameContexts(Edited(k, o), k)
           /\ \A t \in Slots \ {s} : Live(Edited(k, o), t) <=> Live(k, t)
<1> DEFINE d == NewDraft(o.kind, o.id, o.value)
<1>1. o.id \in Ids /\ o.value \in Values /\ o.kind \in Kinds
  BY HereFacts, KindFacts DEF Objects
<1>2. /\ d \in Drafts /\ d.doc = active /\ d.kind = o.kind
      /\ d.revision = Part.revision
  BY <1>1, NewDraftFacts
<1>3. Edited(k, o) = Begun(k, d)
  BY DEF Edited
<1> HIDE DEF d
<1>4. /\ Right(Begun(k, d), active, Part.revision) /\ SameContexts(Begun(k, d), k)
      /\ Begun(k, d).draft = [k.draft EXCEPT ![s] = d]
  BY <1>2, BegunRight
<1>5. k.draft \in [Slots -> Drafts \cup {None}]
  BY DeskFacts DEF Right, Owned
<1> QED
  BY <1>3, <1>4, <1>5 DEF Live

LEMMA PickingRight ==
    ASSUME Here, NEW on \in BOOLEAN
    PROVE  LET l == [desk EXCEPT !.picking = on]
           IN  /\ Right(l, active, Part.revision)
               /\ l.sketch = desk.sketch /\ l.support = desk.support
<1> DEFINE l == [desk EXCEPT !.picking = on]
<1>1. Right(desk, active, Part.revision) /\ desk \in Desks
      /\ ModesOwned(desk) /\ SketchesAlone(desk)
  BY HereFacts DEF Owned
<1>2. /\ l \in Desks /\ SameDrafts(l, desk) /\ l.edges = desk.edges
      /\ l.faces = desk.faces /\ l.support = desk.support
      /\ l.sketch = desk.sketch /\ l.project = desk.project
  BY <1>1 DEF Desks, SameDrafts
<1> HIDE DEF l
<1>3. ModesOwned(l) /\ SketchesAlone(l)
  BY <1>1, <1>2 DEF ModesOwned, SketchesAlone, SameDrafts, Live
<1>4. Right(l, active, Part.revision)
  BY <1>1, <1>2, <1>3, SameDraftsRight
<1> QED
  BY <1>2, <1>4 DEF l

\* Free says of the desk here what it says of any.
LEMMA HereFree ==
    ASSUME Here, NEW S, Free(S)
    PROVE  /\ \A s \in Slots : KindsOf[s] \subseteq S => ~Live(desk, s)
           /\ "support" \in S => desk.support = None
           /\ "sketch" \in S => desk.sketch = None
           /\ "project" \in S => desk.project = None
BY HereFacts, FreeFacts DEF Free, Owned

\* The sketch that is edited can be another one if no feature is drafted.
LEMMA SketchRight ==
    ASSUME NEW k, NEW a, NEW r, Right(k, a, r), NEW id \in Ids \cup {None},
           id # k.sketch => /\ k.project = None \/ id # None
                            /\ \A s \in SolidSlots : ~Live(k, s)
    PROVE  Right([k EXCEPT !.sketch = id], a, r)
<1> DEFINE l == [k EXCEPT !.sketch = id]
<1>0. k \in Desks /\ ModesOwned(k) /\ SketchesAlone(k)
  BY DEF Right, Owned
<1>1. /\ l \in Desks /\ SameDrafts(l, k) /\ l.edges = k.edges
      /\ l.faces = k.faces /\ l.support = k.support
      /\ l.sketch = id /\ l.project = k.project
  BY <1>0 DEF Desks, SameDrafts
<1> HIDE DEF l
<1>2. ModesOwned(l) /\ SketchesAlone(l)
  BY <1>0, <1>1 DEF ModesOwned, SketchesAlone, SameDrafts, Live
<1>3. Right(l, a, r)
  BY <1>1, <1>2, SameDraftsRight
<1> QED
  BY <1>3 DEF l

LEMMA AxisStarts ==
    ASSUME Here
    PROVE  /\ \A value \in Values \cup {None} :
                StartAxisTool(value) => WorkbenchInv'
           /\ \A o \in Content(Part) : StartAxisEdit(o) => WorkbenchInv'
<1>0. "axis" \in Slots \ SolidSlots /\ Right(desk, active, Part.revision)
  BY HereFacts DEF Slots, SolidSlots
<1>1. ASSUME NEW value \in Values \cup {None}, StartAxisTool(value)
      PROVE  WorkbenchInv'
  <2> DEFINE kind == IF desk.sketch = None THEN "edgeAxis" ELSE "lineAxis"
  <2>1. kind \in KindsOf["axis"] /\ Desk(Created(desk, kind, value))
    BY <1>1 DEF StartAxisTool, KindsOf
  <2> HIDE DEF kind
  <2> QED
    BY <1>0, <2>1, CreatedStep
<1>2. ASSUME NEW o \in Content(Part), StartAxisEdit(o)
      PROVE  WorkbenchInv'
  <2> DEFINE k == Edited(desk, o)
  <2>1. o.kind \in KindsOf["axis"]
    BY <1>2 DEF StartAxisEdit
  <2>2. /\ Right(k, active, Part.revision) /\ SameContexts(k, desk)
        /\ \A t \in Slots \ {"axis"} : Live(k, t) <=> Live(desk, t)
    BY <1>0, <2>1, EditedRight
  <2>3. PICK id : /\ id \in IF o.kind = "lineAxis" /\ desk.sketch = None
                                 /\ Free(EdgeKinds)
                            THEN Sketches(Part) \cup {None} ELSE {desk.sketch}
                  /\ Desk([k EXCEPT !.sketch = id])
    BY <1>2 DEF StartAxisEdit
  <2> HIDE DEF k
  <2>4. id \in Ids \cup {None}
    BY <2>3, HereFacts, DeskFacts DEF Sketches, Objects
  <2>5. ASSUME id # k.sketch
        PROVE  k.project = None /\ \A s \in SolidSlots : ~Live(k, s)
    <3>1. desk.sketch = None /\ Free(EdgeKinds) /\ k.project = desk.project
      BY <2>2, <2>3, <2>5 DEF SameContexts
    <3>2. Free(Drafting \cup Waiting \cup {"offset"})
      BY <1>2 DEF StartAxisEdit
    <3>3. desk.project = None
      BY <3>1, HereFacts DEF Owned, SketchesAlone
    <3>4. ~Live(desk, "extrude") /\ ~Live(desk, "revolve")
      BY <3>2, HereFree DEF KindsOf, Slots, Drafting
    <3>5. ~Live(desk, "edge")
      BY <3>1, HereFree DEF KindsOf, Slots, EdgeKinds
    <3> QED
      BY <2>2, <3>1, <3>3, <3>4, <3>5 DEF SolidSlots, Slots
  <2>6. Right([k EXCEPT !.sketch = id], active, Part.revision)
    BY <2>2, <2>4, <2>5, SketchRight
  <2> QED
    BY <2>3, <2>6, DeskStep
<1> QED
  BY <1>1, <1>2

LEMMA DatumStarts ==
    ASSUME Here
    PROVE  /\ \A value \in Values \cup {None} :
                StartDatumPlaneTool(value) => WorkbenchInv'
           /\ \A o \in Content(Part) : StartDatumPlaneEdit(o) => WorkbenchInv'
<1>0. "datum" \in Slots \ SolidSlots /\ Right(desk, active, Part.revision)
  BY HereFacts DEF Slots, SolidSlots
<1>1. ASSUME NEW value \in Values \cup {None}, StartDatumPlaneTool(value)
      PROVE  WorkbenchInv'
  <2>1. "offset" \in KindsOf["datum"] /\ Desk(Created(desk, "offset", value))
    BY <1>1 DEF StartDatumPlaneTool, KindsOf
  <2> QED
    BY <1>0, <2>1, CreatedStep
<1>2. ASSUME NEW o \in Content(Part), StartDatumPlaneEdit(o)
      PROVE  WorkbenchInv'
  <2>1. o.kind \in KindsOf["datum"] /\ Desk(Edited(desk, o))
    BY <1>2 DEF StartDatumPlaneEdit
  <2>2. Right(Edited(desk, o), active, Part.revision)
    BY <1>0, <2>1, EditedRight
  <2> QED
    BY <2>1, <2>2, DeskStep
<1> QED
  BY <1>1, <1>2

\* What keeps the sketches away from a new solid feature.
LEMMA NoSketchHere ==
    ASSUME Here, NEW S, Free(S), {"sketch", "support"} \subseteq S
    PROVE  desk.sketch = None /\ desk.support = None
BY HereFree

LEMMA ExtrudeStarts ==
    ASSUME Here
    PROVE  /\ StartExtrudeTool => WorkbenchInv'
           /\ \A value \in Values : TryCompleteExtrudeProfilePick(value) => WorkbenchInv'
           /\ CancelExtrudeProfilePick => WorkbenchInv'
           /\ \A o \in Content(Part) : StartExtrudeEdit(o) => WorkbenchInv'
<1>0. "extrude" \in Slots /\ Right(desk, active, Part.revision)
      /\ "extrude" \in KindsOf["extrude"]
  BY HereFacts DEF Slots, KindsOf
<1>1. ASSUME NEW value \in Values, StartExtrudeFromSelectedProfile(value)
      PROVE  WorkbenchInv'
  <2> DEFINE k == [desk EXCEPT !.picking = FALSE]
  <2>1. desk.sketch = None /\ desk.support = None
    BY <1>1, NoSketchHere DEF StartExtrudeFromSelectedProfile
  <2>2. Right(k, active, Part.revision) /\ k.sketch = None /\ k.support = None
    BY <2>1, PickingRight
  <2>3. Desk(Created(k, "extrude", value))
    BY <1>1 DEF StartExtrudeFromSelectedProfile
  <2> HIDE DEF k
  <2> QED
    BY <1>0, <2>2, <2>3, CreatedStep
<1>2. ASSUME NEW on \in BOOLEAN, Desk([desk EXCEPT !.picking = on])
      PROVE  WorkbenchInv'
  BY <1>2, PickingRight, DeskStep
<1>3. StartExtrudeTool => WorkbenchInv'
  BY <1>1, <1>2 DEF StartExtrudeTool
<1>4. \A value \in Values : TryCompleteExtrudeProfilePick(value) => WorkbenchInv'
  BY <1>1 DEF TryCompleteExtrudeProfilePick
<1>5. CancelExtrudeProfilePick => WorkbenchInv'
  BY <1>2 DEF CancelExtrudeProfilePick
<1>6. ASSUME NEW o \in Content(Part), StartExtrudeEdit(o)
      PROVE  WorkbenchInv'
  <2>1. desk.sketch = None /\ desk.support = None
    BY <1>6, NoSketchHere DEF StartExtrudeEdit, Busy, Waiting
  <2>2. o.kind \in KindsOf["extrude"] /\ Desk(Edited(desk, o))
    BY <1>6 DEF StartExtrudeEdit, KindsOf
  <2>3. Right(Edited(desk, o), active, Part.revision)
    BY <1>0, <2>1, <2>2, EditedRight
  <2> QED
    BY <2>2, <2>3, DeskStep
<1> QED
  BY <1>3, <1>4, <1>5, <1>6

LEMMA RevolveStarts ==
    ASSUME Here
    PROVE  /\ \A value \in Values \cup {None} :
                StartRevolveTool(value) => WorkbenchInv'
           /\ \A o \in Content(Part) : StartRevolveEdit(o) => WorkbenchInv'
<1>0. "revolve" \in Slots /\ Right(desk, active, Part.revision)
  BY HereFacts DEF Slots
<1>1. ASSUME NEW value \in Values \cup {None}, StartRevolveTool(value)
      PROVE  WorkbenchInv'
  <2>1. "revolve" \in KindsOf["revolve"] /\ Desk(Created(desk, "revolve", value))
    BY <1>1 DEF StartRevolveTool, KindsOf
  <2>2. desk.sketch = None /\ desk.support = None
    BY <1>1, NoSketchHere DEF StartRevolveTool, Busy, Waiting
  <2> QED
    BY <1>0, <2>1, <2>2, CreatedStep
<1>2. ASSUME NEW o \in Content(Part), StartRevolveEdit(o)
      PROVE  WorkbenchInv'
  <2>1. o.kind \in KindsOf["revolve"] /\ Desk(Edited(desk, o))
    BY <1>2 DEF StartRevolveEdit, KindsOf
  <2>2. desk.sketch = None /\ desk.support = None
    BY <1>2, NoSketchHere DEF StartRevolveEdit, Busy, Waiting
  <2>3. Right(Edited(desk, o), active, Part.revision)
    BY <1>0, <2>1, <2>2, EditedRight
  <2> QED
    BY <2>1, <2>3, DeskStep
<1> QED
  BY <1>1, <1>2

LEMMA EdgeFeatureStarts ==
    ASSUME Here
    PROVE  /\ StartFilletTool \/ StartChamferTool => WorkbenchInv'
           /\ \A o \in Content(Part) : StartEdgeFeatureEdit(o) => WorkbenchInv'
<1>0. "edge" \in Slots /\ Right(desk, active, Part.revision)
      /\ EdgeKinds = KindsOf["edge"] /\ Part.revision \in Nat
  BY HereFacts DEF Slots, EdgeKinds, KindsOf
<1>1. ASSUME NEW kind \in EdgeKinds, Free(Busy \cup EdgeKinds),
             Desk(Created(desk, kind, None))
      PROVE  WorkbenchInv'
  <2>1. desk.sketch = None /\ desk.support = None
    BY <1>1, NoSketchHere DEF Busy, Waiting
  <2> QED
    BY <1>0, <1>1, <2>1, CreatedStep
<1>2. StartFilletTool \/ StartChamferTool => WorkbenchInv'
  BY <1>1 DEF StartFilletTool, StartChamferTool, EdgeKinds
<1>3. ASSUME NEW o \in Content(Part), StartEdgeFeatureEdit(o)
      PROVE  WorkbenchInv'
  <2>1. CASE Desk(Edited(desk, o))
    <3>1. desk.sketch = None /\ desk.support = None
      BY <1>3, NoSketchHere DEF StartEdgeFeatureEdit, Busy, Waiting
    <3>2. o.kind \in KindsOf["edge"]
      BY <1>0, <1>3 DEF StartEdgeFeatureEdit
    <3>3. Right(Edited(desk, o), active, Part.revision)
      BY <1>0, <3>1, <3>2, EditedRight
    <3> QED
      BY <2>1, <3>3, DeskStep
  <2>2. CASE Desk(ClearEdgeFeature(desk))
    BY <1>0, <2>2, ClearRight, DeskStep
  <2> QED
    BY <1>3, <2>1, <2>2 DEF StartEdgeFeatureEdit
<1> QED
  BY <1>2, <1>3

LEMMA StartStepInv ==
    ASSUME Here, StartStep
    PROVE  WorkbenchInv'
<1>1. ASSUME NEW value \in Values \cup {None},
             \/ StartAxisTool(value)
             \/ StartDatumPlaneTool(value)
             \/ StartRevolveTool(value)
      PROVE  WorkbenchInv'
  BY <1>1, AxisStarts, DatumStarts, RevolveStarts
<1>2. ASSUME \/ StartExtrudeTool
             \/ \E value \in Values : TryCompleteExtrudeProfilePick(value)
             \/ CancelExtrudeProfilePick
      PROVE  WorkbenchInv'
  BY <1>2, ExtrudeStarts
<1>3. ASSUME StartFilletTool \/ StartChamferTool
      PROVE  WorkbenchInv'
  BY <1>3, EdgeFeatureStarts
<1>4. ASSUME NEW o \in Content(Part),
             \/ StartAxisEdit(o)
             \/ StartDatumPlaneEdit(o)
             \/ StartExtrudeEdit(o)
             \/ StartRevolveEdit(o)
             \/ StartEdgeFeatureEdit(o)
      PROVE  WorkbenchInv'
  BY <1>4, AxisStarts, DatumStarts, ExtrudeStarts, RevolveStarts,
     EdgeFeatureStarts
<1> QED
  BY <1>1, <1>2, <1>3, <1>4 DEF StartStep

-----------------------------------------------------------------------------
(* Changing a draft *)

\* The draft of one live tool is another, and nothing else that owns a mode.
LEMMA RestagedOwned ==
    ASSUME Here, NEW s \in Slots, Live(desk, s), NEW l \in Desks,
           OthersAs(l, desk, s), SameContexts(l, desk), l.edges = desk.edges,
           l.draft[s] \in Drafts, l.draft[s].doc = active,
           l.draft[s].kind \in KindsOf[s],
           l.faces => desk.faces \/ s = "axis",
           s = "datum" => l.draft[s].kind = desk.draft[s].kind
    PROVE  Owned(l, active) /\ Live(l, s)
<1>1. Live(l, s) /\ \A t \in Slots : Live(l, t) <=> Live(desk, t)
  BY NoneAssumption DEF OthersAs, Live
<1>2. /\ Right(desk, active, Part.revision) /\ ModesOwned(desk)
      /\ SketchesAlone(desk)
  BY HereFacts DEF Owned
<1>3. "axis" \in Slots /\ "datum" \in Slots /\ "edge" \in Slots
      /\ SolidSlots \subseteq Slots
  BY DEF Slots, SolidSlots
<1>4. l.draft["datum"].kind = desk.draft["datum"].kind
  BY <1>3 DEF OthersAs
<1>5. ModesOwned(l)
  BY <1>1, <1>2, <1>3, <1>4 DEF ModesOwned, SameContexts
<1>6. SketchesAlone(l)
  BY <1>1, <1>2, <1>3 DEF SketchesAlone, SameContexts
<1> QED
  BY <1>1, <1>2, <1>5, <1>6, ChangedOwned

\* The draft of a live tool, with a value that can be set.
LEMMA ChangeFacts ==
    ASSUME Here, NEW s \in Slots, Live(desk, s), NEW value \in Values,
           Settable(desk.draft[s], value)
    PROVE  LET d == desk.draft[s]
               c == Set(d, value)
           IN  /\ d \in Drafts /\ d.doc = active /\ d.kind \in KindsOf[s]
               /\ d.revision <= Part.revision
               /\ c \in Drafts /\ c.doc = active /\ c.kind = d.kind
               /\ c.target = d.target /\ c.revision = d.revision
<1>1. /\ desk.draft[s] \in Drafts
      /\ desk.draft[s].doc = active /\ desk.draft[s].kind \in KindsOf[s]
      /\ desk.draft[s].revision <= Part.revision
  BY HereFacts, DeskFacts DEF Live, Owned, DraftsOwned, Right, SlotRight
<1> QED
  BY <1>1, SetFacts

\* A draft that was changed is evaluated at once.
LEMMA StagedRefreshed ==
    ASSUME Here, NEW s \in Slots, Live(desk, s), NEW l \in Desks,
           OthersAs(l, desk, s), SameContexts(l, desk), l.edges = desk.edges,
           l.draft[s] \in Drafts, l.draft[s].doc = active,
           l.draft[s].kind \in KindsOf[s], l.draft[s].revision <= Part.revision,
           l.faces => desk.faces \/ s = "axis",
           s = "datum" => l.draft[s].kind = desk.draft[s].kind,
           Desk(Refreshed(l, Part, s))
    PROVE  WorkbenchInv'
<1>1. Owned(l, active) /\ Live(l, s)
  BY RestagedOwned
<1>2. Right(desk, active, Part.revision) /\ Part.revision \in Nat
  BY HereFacts
<1>3. Right(Refreshed(l, Part, s), active, Part.revision)
  BY <1>1, <1>2, ChangedRefreshed
<1> QED
  BY <1>3, DeskStep

LEMMA PickInv ==
    ASSUME Here, NEW s \in Slots, Live(desk, s), NEW value \in Values,
           Pick(s, value)
    PROVE  WorkbenchInv'
<1> DEFINE c == Set(desk.draft[s], value)
           l == Change(s, value)
<1>1. /\ desk.draft[s].doc = active /\ desk.draft[s].kind \in KindsOf[s]
      /\ desk.draft[s].revision <= Part.revision
      /\ c \in Drafts /\ c.doc = active /\ c.kind = desk.draft[s].kind
      /\ c.revision = desk.draft[s].revision
  BY ChangeFacts DEF Pick
<1>2. desk \in Desks
  BY HereFacts
<1>4. Desk(Refreshed(l, Part, s))
  BY DEF Pick
<1>5. /\ l \in Desks /\ OthersAs(l, desk, s) /\ SameContexts(l, desk)
      /\ l.edges = desk.edges /\ l.faces = desk.faces /\ l.draft[s] = c
  <2> DEFINE dr == [desk.draft EXCEPT ![s] = c]
  <2>1. l = [desk EXCEPT !.draft = dr]
    BY DEF Change
  <2> HIDE DEF c
  <2>2. /\ dr \in [Slots -> Drafts \cup {None}] /\ dr[s] = c
        /\ \A t \in Slots \ {s} : dr[t] = desk.draft[t]
    BY <1>1, <1>2, DeskFacts
  <2> HIDE DEF dr, l
  <2>3. /\ l \in Desks /\ SameContexts(l, desk) /\ l.edges = desk.edges
        /\ l.faces = desk.faces /\ l.draft = dr /\ l.fits = desk.fits
        /\ l.eval = desk.eval /\ l.armed = desk.armed /\ l.shown = desk.shown
    BY <1>2, <2>1, <2>2 DEF Desks, SameContexts
  <2> QED
    BY <2>2, <2>3 DEF OthersAs
<1> HIDE DEF c, l
<1> QED
  BY <1>1, <1>4, <1>5, StagedRefreshed

LEMMA BodyTopologyInv ==
    ASSUME Here, NEW value \in Values, StageAxisFromBodyTopology(value)
    PROVE  WorkbenchInv'
<1> DEFINE d == desk.draft.axis
<1>0. /\ "axis" \in Slots /\ Live(desk, "axis") /\ d = desk.draft["axis"]
      /\ desk \in Desks /\ DraftsOwned(desk, active)
  <2>1. BodyAxes \subseteq KindsOf["axis"]
    BY DEF BodyAxes, KindsOf
  <2>2. PICK kind \in BodyAxes : kind \in Open(desk)
    BY DEF StageAxisFromBodyTopology
  <2>3. "axis" \in Slots
    BY DEF Slots
  <2> QED
    BY <2>1, <2>2, <2>3, HereFacts, OpenFacts DEF Owned
<1>1. /\ d \in Drafts /\ d.doc = active /\ d.kind \in KindsOf["axis"]
      /\ d.revision <= Part.revision
  BY <1>0, HereFacts, DeskFacts DEF Live, Owned, DraftsOwned, Right, SlotRight
<1>2. CASE /\ Settable(d, value)
           /\ Desk(RefreshAxis([desk EXCEPT !.draft.axis = Set(d, value),
                                            !.fits.axis = TRUE], Part))
  <2> DEFINE c == Set(d, value)
             l == [desk EXCEPT !.draft.axis = c, !.fits.axis = TRUE]
             dr == [desk.draft EXCEPT !["axis"] = c]
             ft == [desk.fits EXCEPT !["axis"] = TRUE]
  <2>1. /\ c \in Drafts /\ c.doc = active /\ c.kind = d.kind
        /\ c.revision = d.revision
    BY <1>1, <1>2, SetFacts
  <2>2. Desk(Refreshed(l, Part, "axis"))
    BY <1>2 DEF Refreshed
  <2>3. l = [desk EXCEPT !.draft = dr, !.fits = ft]
    OBVIOUS
  <2> HIDE DEF c, l
  <2>4. /\ dr \in [Slots -> Drafts \cup {None}] /\ dr["axis"] = c
        /\ ft \in [Slots -> BOOLEAN]
        /\ \A t \in Slots \ {"axis"} : dr[t] = desk.draft[t] /\ ft[t] = desk.fits[t]
    BY <1>0, <2>1, DeskFacts
  <2> HIDE DEF dr, ft
  <2>5. /\ l \in Desks /\ SameContexts(l, desk) /\ l.edges = desk.edges
        /\ l.faces = desk.faces /\ l.draft = dr /\ l.fits = ft
        /\ l.eval = desk.eval /\ l.armed = desk.armed /\ l.shown = desk.shown
    BY <1>0, <2>3, <2>4 DEF Desks, SameContexts
  <2>6. OthersAs(l, desk, "axis") /\ l.draft["axis"] = c
    BY <2>4, <2>5 DEF OthersAs
  <2> QED
    BY <1>0, <1>1, <2>1, <2>2, <2>5, <2>6, StagedRefreshed
<1>3. CASE Desk(RefreshAxis([desk EXCEPT !.fits.axis = FALSE], Part))
  <2> DEFINE l == [desk EXCEPT !.fits.axis = FALSE]
             ft == [desk.fits EXCEPT !["axis"] = FALSE]
  <2>2. Desk(Refreshed(l, Part, "axis"))
    BY <1>3 DEF Refreshed
  <2>3. l = [desk EXCEPT !.fits = ft]
    OBVIOUS
  <2> HIDE DEF l
  <2>4. /\ ft \in [Slots -> BOOLEAN]
        /\ \A t \in Slots \ {"axis"} : ft[t] = desk.fits[t]
    BY <1>0, DeskFacts
  <2> HIDE DEF ft
  <2>5. /\ l \in Desks /\ SameContexts(l, desk) /\ l.edges = desk.edges
        /\ l.faces = desk.faces /\ l.draft = desk.draft /\ l.fits = ft
        /\ l.eval = desk.eval /\ l.armed = desk.armed /\ l.shown = desk.shown
    BY <1>0, <2>3, <2>4 DEF Desks, SameContexts
  <2>6. OthersAs(l, desk, "axis") /\ l.draft["axis"] = d
    BY <1>0, <2>4, <2>5 DEF OthersAs
  <2> QED
    BY <1>0, <1>1, <2>2, <2>5, <2>6, StagedRefreshed
<1> QED
  BY <1>2, <1>3 DEF StageAxisFromBodyTopology

\* A view that is not drawn anew stays right while its tool's timer runs.
LEMMA ShownRight ==
    ASSUME NEW k, NEW a, NEW r, Right(k, a, r), NEW s \in Slots, NEW l,
           OthersAs(l, k, s), l.shown = k.shown, s \in l.armed, Live(l, s)
    PROVE  ViewRight(l, ViewOf(s))
<1>1. ViewRight(k, ViewOf(s)) /\ k \in Desks /\ ViewOf(s) \in Views
  BY KindFacts DEF Right, Owned
<1>2. k.shown[ViewOf(s)] # None => k.shown[ViewOf(s)].slot \in Slots
  BY <1>1, DeskFacts DEF Previews
<1> QED
  BY <1>1, <1>2 DEF ViewRight, OthersAs, Live

LEMMA SetParameterInv ==
    ASSUME Here, NEW s \in TypedSlots, NEW value \in Values, NEW now \in BOOLEAN,
           SetParameter(s, value, now)
    PROVE  WorkbenchInv'
<1> DEFINE d == desk.draft[s]
           c == Set(d, value)
           k == [Change(s, value) EXCEPT !.fits[s] = TRUE, !.eval[s] = None]
<1>0. s \in Slots /\ Live(desk, s) /\ Settable(d, value)
      /\ Right(desk, active, Part.revision) /\ desk \in Desks
  BY HereFacts DEF TypedSlots, SetParameter
<1>1. /\ d.doc = active /\ d.kind \in KindsOf[s] /\ d.revision <= Part.revision
      /\ c \in Drafts /\ c.doc = active /\ c.kind = d.kind
      /\ c.revision = d.revision
  BY <1>0, ChangeFacts
<1>2. Desk(IF now THEN Refreshed(k, Part, s) ELSE [k EXCEPT !.armed = @ \cup {s}])
  BY DEF SetParameter
<1>3. k = [desk EXCEPT !.draft[s] = c, !.fits[s] = TRUE, !.eval[s] = None]
  BY DEF Change
<1> DEFINE dr == [desk.draft EXCEPT ![s] = c]
           ft == [desk.fits EXCEPT ![s] = TRUE]
           ev == [desk.eval EXCEPT ![s] = None]
           m == [k EXCEPT !.armed = @ \cup {s}]
<1>4. k = [desk EXCEPT !.draft = dr, !.fits = ft, !.eval = ev]
  BY <1>3
<1> HIDE DEF c, k
<1>5. /\ dr \in [Slots -> Drafts \cup {None}] /\ dr[s] = c
      /\ ft \in [Slots -> BOOLEAN]
      /\ ev \in [Slots -> Evaluations \cup {None}] /\ ev[s] = None
      /\ \A t \in Slots \ {s} : /\ dr[t] = desk.draft[t] /\ ft[t] = desk.fits[t]
                                /\ ev[t] = desk.eval[t]
  BY <1>0, <1>1, DeskFacts
<1> HIDE DEF dr, ft, ev
<1>6. /\ k \in Desks /\ SameContexts(k, desk) /\ k.edges = desk.edges
      /\ k.faces = desk.faces /\ k.draft = dr /\ k.fits = ft /\ k.eval = ev
      /\ k.armed = desk.armed /\ k.shown = desk.shown
  BY <1>0, <1>4, <1>5 DEF Desks, SameContexts
<1>7. OthersAs(k, desk, s) /\ k.draft[s] = c
  BY <1>5, <1>6 DEF OthersAs
<1>8. CASE now
  <2>1. Desk(Refreshed(k, Part, s))
    BY <1>2, <1>8
  <2> QED
    BY <1>0, <1>1, <1>6, <1>7, <2>1, StagedRefreshed
<1>9. CASE ~now
  <2>0. desk.armed \cup {s} \in SUBSET TypedSlots
    BY <1>0, DeskFacts
  <2>1. m = [k EXCEPT !.armed = desk.armed \cup {s}] /\ Desk(m)
    BY <1>2, <1>6, <1>9
  <2> HIDE DEF m
  <2>2. /\ m \in Desks /\ SameContexts(m, desk) /\ m.edges = desk.edges
        /\ m.faces = desk.faces /\ m.draft = dr /\ m.fits = ft /\ m.eval = ev
        /\ m.armed = desk.armed \cup {s} /\ m.shown = desk.shown
    BY <1>6, <2>0, <2>1 DEF Desks, SameContexts
  <2>3. OthersAs(m, desk, s) /\ m.draft[s] = c /\ m.eval[s] = None /\ s \in m.armed
    BY <1>5, <2>2 DEF OthersAs
  <2>4. Owned(m, active) /\ Live(m, s)
    BY <1>0, <1>1, <2>2, <2>3, RestagedOwned
  <2>5. SlotRight(m, Part.revision, s)
    BY <1>1, <2>3, <2>4 DEF SlotRight
  <2>6. ViewRight(m, ViewOf(s))
    BY <1>0, <2>2, <2>3, <2>4, ShownRight
  <2>7. Right(m, active, Part.revision)
    BY <1>0, <2>3, <2>4, <2>5, <2>6, ChangedRight
  <2> QED
    BY <2>1, <2>7, DeskStep
<1> QED
  BY <1>8, <1>9

LEMMA MisfitInv ==
    ASSUME Here, NEW s \in Slots, Misfit(s)
    PROVE  WorkbenchInv'
<1> DEFINE l == [desk EXCEPT !.fits[s] = FALSE, !.eval[s] = None,
                             !.armed = @ \ {s}, !.shown[ViewOf(s)] = None]
           ft == [desk.fits EXCEPT ![s] = FALSE]
           ev == [desk.eval EXCEPT ![s] = None]
           sh == [desk.shown EXCEPT ![ViewOf(s)] = None]
           ar == desk.armed \ {s}
<1>0. /\ Live(desk, s) /\ Desk(l) /\ desk \in Desks
      /\ Right(desk, active, Part.revision) /\ Owned(desk, active)
      /\ ViewOf(s) \in Views
  BY HereFacts, KindFacts DEF Misfit
<1>1. /\ desk.draft[s] \in Drafts
      /\ desk.draft[s].doc = active /\ desk.draft[s].kind \in KindsOf[s]
      /\ desk.draft[s].revision <= Part.revision
  BY <1>0, DeskFacts DEF Live, Owned, DraftsOwned, Right, SlotRight
<1>2. l = [desk EXCEPT !.fits = ft, !.eval = ev, !.armed = ar, !.shown = sh]
  OBVIOUS
<1> HIDE DEF l
<1>3. /\ ft \in [Slots -> BOOLEAN] /\ ~ft[s]
      /\ ev \in [Slots -> Evaluations \cup {None}] /\ ev[s] = None
      /\ sh \in [Views -> Previews \cup {None}] /\ sh[ViewOf(s)] = None
      /\ ar \in SUBSET TypedSlots
      /\ \A t \in Slots \ {s} : /\ ft[t] = desk.fits[t] /\ ev[t] = desk.eval[t]
                                /\ t \in ar <=> t \in desk.armed
      /\ \A w \in Views \ {ViewOf(s)} : sh[w] = desk.shown[w]
  BY <1>0, DeskFacts
<1> HIDE DEF ft, ev, sh, ar
<1>4. /\ l \in Desks /\ SameContexts(l, desk) /\ l.edges = desk.edges
      /\ l.faces = desk.faces /\ l.draft = desk.draft /\ l.fits = ft
      /\ l.eval = ev /\ l.armed = ar /\ l.shown = sh
  BY <1>0, <1>2, <1>3 DEF Desks, SameContexts
<1>5. OthersAs(l, desk, s)
  BY <1>3, <1>4 DEF OthersAs
<1>6. Owned(l, active) /\ Live(l, s)
  BY <1>0, <1>1, <1>4, <1>5, RestagedOwned
<1>7. SlotRight(l, Part.revision, s) /\ ViewRight(l, ViewOf(s))
  BY <1>1, <1>3, <1>4, <1>6 DEF SlotRight, ViewRight
<1>8. Right(l, active, Part.revision)
  BY <1>0, <1>5, <1>6, <1>7, ChangedRight
<1> QED
  BY <1>0, <1>8, DeskStep

LEMMA SettleInv ==
    ASSUME Here, NEW s \in TypedSlots, Settle(s)
    PROVE  WorkbenchInv'
<1>1. /\ s \in Slots /\ Right(desk, active, Part.revision)
      /\ Part.revision \in Nat /\ s \in desk.armed
  BY HereFacts DEF TypedSlots, Settle
<1>2. Live(desk, s)
  BY <1>1 DEF Right, SlotRight
<1>3. Right(Refreshed(desk, Part, s), active, Part.revision)
  BY <1>1, <1>2, AnyRefreshed
<1> QED
  BY <1>3, DeskStep DEF Settle

LEMMA AxisConstructorInv ==
    ASSUME Here, SelectAxisConstructor
    PROVE  WorkbenchInv'
<1> DEFINE d == desk.draft.axis
           other == CHOOSE kind \in BodyAxes : kind # d.kind
           c == IF d.target = None THEN NewDraft(other, None, None)
                ELSE [d EXCEPT !.kind = other]
           fit == d.target = None
           face == other = "faceAxis"
           l == [desk EXCEPT !.draft.axis = c, !.fits.axis = fit, !.faces = face]
           dr == [desk.draft EXCEPT !["axis"] = c]
           ft == [desk.fits EXCEPT !["axis"] = fit]
<1>b. BodyAxes \subseteq KindsOf["axis"]
  BY DEF BodyAxes, KindsOf
<1>0. /\ "axis" \in Slots /\ Live(desk, "axis") /\ d = desk.draft["axis"]
      /\ desk \in Desks /\ DraftsOwned(desk, active)
      /\ Right(desk, active, Part.revision) /\ Part.revision \in Nat
  <2>1. PICK kind \in BodyAxes : kind \in Open(desk)
    BY DEF SelectAxisConstructor
  <2>2. "axis" \in Slots
    BY DEF Slots
  <2> QED
    BY <1>b, <2>1, <2>2, HereFacts, OpenFacts DEF Owned
<1>1. /\ d \in Drafts /\ d.doc = active
      /\ d.revision <= Part.revision
  BY <1>0, DeskFacts DEF Live, DraftsOwned, Right, SlotRight
<1>2. other \in BodyAxes /\ other \in Kinds /\ other \in KindsOf["axis"]
  <2>1. \E kind \in BodyAxes : kind # d.kind
    BY DEF BodyAxes
  <2> QED
    BY <1>0, <1>b, <2>1, KindFacts
<1> HIDE DEF other
<1>3. /\ c \in Drafts /\ c.doc = active /\ c.kind = other
      /\ c.revision <= Part.revision
  <2>1. CASE d.target = None
    <3> DEFINE n == NewDraft(other, None, None)
    <3>1. n \in Drafts /\ n.doc = active /\ n.kind = other /\ n.revision = Part.revision
      BY <1>2, NewDraftFacts
    <3>2. c = n
      BY <2>1
    <3> HIDE DEF n, c
    <3> QED
      BY <1>0, <3>1, <3>2
  <2>2. CASE d.target # None
    <3> DEFINE n == [d EXCEPT !.kind = other]
    <3> HIDE DEF d
    <3>1. n \in Drafts /\ n.doc = d.doc /\ n.kind = other /\ n.revision = d.revision
      BY <1>1, <1>2 DEF Drafts
    <3>2. c = n
      BY <2>2
    <3> HIDE DEF n, c
    <3> QED
      BY <1>1, <3>1, <3>2
  <2> QED
    BY <2>1, <2>2
<1>4. fit \in BOOLEAN /\ face \in BOOLEAN
  OBVIOUS
<1>5. Desk(RefreshAxis(l, Part))
  BY DEF SelectAxisConstructor, other
<1>6. l = [desk EXCEPT !.draft = dr, !.fits = ft, !.faces = face]
  <2> HIDE DEF c, fit, face
  <2> QED
    OBVIOUS
<1> HIDE DEF c, fit, face, l
<1>7. /\ dr \in [Slots -> Drafts \cup {None}] /\ dr["axis"] = c
      /\ ft \in [Slots -> BOOLEAN]
      /\ \A t \in Slots \ {"axis"} : dr[t] = desk.draft[t] /\ ft[t] = desk.fits[t]
  BY <1>0, <1>3, <1>4, DeskFacts
<1> HIDE DEF dr, ft
<1>8. /\ l \in Desks /\ SameContexts(l, desk) /\ l.edges = desk.edges
      /\ l.draft = dr /\ l.fits = ft
      /\ l.eval = desk.eval /\ l.armed = desk.armed /\ l.shown = desk.shown
  BY <1>0, <1>4, <1>6, <1>7 DEF Desks, SameContexts
<1>9. OthersAs(l, desk, "axis") /\ l.draft["axis"] = c
  BY <1>7, <1>8 DEF OthersAs
<1>10. Desk(Refreshed(l, Part, "axis"))
  BY <1>5 DEF Refreshed
<1> QED
  BY <1>0, <1>2, <1>3, <1>8, <1>9, <1>10, StagedRefreshed

LEMMA DatumConstructorInv ==
    ASSUME Here, NEW kind \in KindsOf["datum"], SelectDatumPlaneConstructor(kind)
    PROVE  WorkbenchInv'
<1>1. "datum" \in Slots \ SolidSlots /\ Right(desk, active, Part.revision)
  BY HereFacts DEF Slots, SolidSlots
<1>2. Desk(Created(desk, kind, None))
  BY DEF SelectDatumPlaneConstructor
<1> QED
  BY <1>1, <1>2, CreatedStep

LEMMA ChangeStepInv ==
    ASSUME Here, ChangeStep
    PROVE  WorkbenchInv'
<1>0. /\ DraftsOwned(desk, active)
      /\ "axis" \in Slots /\ "datum" \in TypedSlots /\ "extrude" \in TypedSlots
      /\ "revolve" \in TypedSlots /\ "edge" \in TypedSlots
      /\ TypedSlots \subseteq Slots /\ SolidSlots \subseteq Slots
  BY HereFacts DEF Owned, Slots, TypedSlots, SolidSlots
<1>1. /\ "lineAxis" \in Open(desk) => Live(desk, "axis")
      /\ \A kind \in KindsOf["datum"] : kind \in Open(desk) => Live(desk, "datum")
  <2>1. "lineAxis" \in KindsOf["axis"]
    BY DEF KindsOf
  <2> QED
    BY <1>0, <2>1, OpenFacts
<1>k. {"offset", "edgePoint", "threePoint"} = KindsOf["datum"]
  BY DEF KindsOf
<1>2. ASSUME NEW value \in Values,
             \/ StageAxisSource(value)
             \/ StageAxisFromBodyTopology(value)
             \/ StageDatumPlaneSource(value)
             \/ StageEdgeDatum(value)
             \/ StageThreePointDatum(value)
             \/ SetExtrudeOption(value)
             \/ StageRevolveSource(value)
             \/ StageEdgeFeatureSelection(value)
      PROVE  WorkbenchInv'
  <2>1. \/ StageAxisFromBodyTopology(value)
        \/ \E s \in Slots : Live(desk, s) /\ Pick(s, value)
    BY <1>0, <1>1, <1>k, <1>2 DEF StageAxisSource, StageDatumPlaneSource,
       StageEdgeDatum, StageThreePointDatum, SetExtrudeOption,
       StageRevolveSource, StageEdgeFeatureSelection
  <2> QED
    BY <2>1, BodyTopologyInv, PickInv
<1>3. ASSUME NEW value \in Values, NEW now \in BOOLEAN,
             \/ SetDatumPlaneOffset(value, now)
             \/ SetExtrudeDistance(value, now)
             \/ SetRevolveAngle(value, now)
             \/ SetEdgeFeatureParameter(value, now)
      PROVE  WorkbenchInv'
  <2>1. \E s \in TypedSlots : SetParameter(s, value, now)
    BY <1>0, <1>3 DEF SetDatumPlaneOffset, SetExtrudeDistance,
                      SetRevolveAngle, SetEdgeFeatureParameter
  <2> QED
    BY <2>1, SetParameterInv
<1>4. ASSUME MisfitDatumPlaneOffset \/ \E s \in SolidSlots : Misfit(s)
      PROVE  WorkbenchInv'
  BY <1>0, <1>4, MisfitInv DEF MisfitDatumPlaneOffset
<1>5. ASSUME NEW s \in TypedSlots, Settle(s)
      PROVE  WorkbenchInv'
  BY <1>5, SettleInv
<1>6. ASSUME \/ SelectAxisConstructor
             \/ \E kind \in KindsOf.datum : SelectDatumPlaneConstructor(kind)
      PROVE  WorkbenchInv'
  BY <1>6, AxisConstructorInv, DatumConstructorInv
<1> QED
  BY <1>2, <1>3, <1>4, <1>5, <1>6 DEF ChangeStep

-----------------------------------------------------------------------------
(* Finishing and cancelling *)

LEMMA PreparedRight ==
    ASSUME Here, NEW s \in Slots, Live(desk, s)
    PROVE  /\ Right(Prepared(s), active, Part.revision)
           /\ SameTools(Prepared(s), desk)
           /\ s = "axis" \/ s \in desk.armed =>
                Prepared(s) = Refreshed(desk, Part, s)
           /\ s \notin Prepared(s).armed
<1>1. Right(desk, active, Part.revision) /\ Part.revision \in Nat
  BY HereFacts
<1>2. /\ Right(Refreshed(desk, Part, s), active, Part.revision)
      /\ SameTools(Refreshed(desk, Part, s), desk)
  BY <1>1, AnyRefreshed
<1>3. /\ s = "axis" \/ s \in desk.armed => Prepared(s) = Refreshed(desk, Part, s)
      /\ s # "axis" /\ s \notin desk.armed => Prepared(s) = desk
  BY DEF Prepared, Flushed, Refreshed
<1>4. SameTools(desk, desk)
  BY DEF SameTools
<1>5. s \notin Refreshed(desk, Part, s).armed
  BY <1>1, HereFacts, Disarmed
<1> QED
  BY <1>1, <1>2, <1>3, <1>4, <1>5

\* The document after the command of a draft that has a value.
LEMMA ExecutedFacts ==
    ASSUME Here, NEW d \in Drafts, d.value # None, Executable(d)
    PROVE  LET p == Executed(Part, d)
               id == IF d.target = None THEN Part.next ELSE d.target
               o == [id |-> id, kind |-> d.kind, value |-> d.value]
           IN  /\ PartRight(p, active) /\ Part.revision <= p.revision
               /\ id \in Ids
               /\ Content(p) = (Content(Part) \ Find(Part, id)) \cup {o}
<1> DEFINE id == IF d.target = None THEN Part.next ELSE d.target
           o == [id |-> id, kind |-> d.kind, value |-> d.value]
           content == (Content(Part) \ Find(Part, id)) \cup {o}
           q == Committed(Part, content)
           p == Executed(Part, d)
<1>1. /\ PartRight(Part, active) /\ MaxRevision[active] \in Nat
      /\ Part.revision # MaxRevision[active] /\ Content(Part) \in SUBSET Objects
      /\ Part.next \in Ids
  BY HereFacts DEF Executable, Full
<1>2. id \in Ids /\ d.kind \in Kinds /\ d.value \in Values
  BY <1>1 DEF Drafts
<1> HIDE DEF id
<1>3. o \in Objects
  BY <1>2 DEF Objects
<1>4. content \in SUBSET Objects
  BY <1>1, <1>3
<1>5. p = [q EXCEPT !.next = IF d.target = None THEN @ + 1 ELSE @]
  BY DEF Executed, id
<1> HIDE DEF o, content, p
<1>6. /\ PartRight(q, active) /\ Part.revision <= q.revision
      /\ Content(q) = content
  BY <1>1, <1>4, CommittedFacts
<1> HIDE DEF q
<1>7. /\ PartRight(p, active) /\ p.revision = q.revision /\ Content(p) = content
  <2>1. CASE d.target = None
    <3>1. p = [q EXCEPT !.next = @ + 1]
      BY <1>5, <2>1
    <3> QED
      BY <1>6, <3>1, PartFacts
  <2>2. CASE d.target # None
    <3>1. p = [q EXCEPT !.next = @]
      BY <1>5, <2>2
    <3>2. p = q
      BY <1>6, <3>1 DEF PartRight, Parts
    <3> QED
      BY <1>6, <3>2
  <2> QED
    BY <2>1, <2>2
<1> QED
  BY <1>2, <1>6, <1>7 DEF p, content, o, id

\* Finish accepts what deserves it, whatever evaluation was pending.
LEMMA DeservingAccepted ==
    ASSUME Here, NEW s \in Slots, Deserving(s)
    PROVE  LET k == Prepared(s)
           IN  k.fits[s] /\ Acceptable(Part, k.draft[s], k.eval[s])
<1> DEFINE k == Prepared(s)
           d == desk.draft[s]
           e == k.eval[s]
<1>1. /\ Live(desk, s) /\ desk.fits[s] /\ d.value \in Computable
      /\ d.revision = Part.revision
  BY DEF Deserving
<1>2. /\ Right(k, active, Part.revision) /\ SameTools(k, desk)
      /\ s \notin k.armed
  BY <1>1, PreparedRight
<1>3. d.doc = active
  BY <1>1, HereFacts DEF Owned, DraftsOwned
<1>4. d.value # None
  BY <1>1, WorkbenchAssumption
<1> HIDE DEF k
<1>5. SlotRight(k, Part.revision, s) /\ Live(k, s) /\ k.fits[s] /\ k.draft[s] = d
  BY <1>1, <1>2 DEF Right, SameTools, Live
<1>6. e # None /\ JudgedRight(d, e, Part.revision, s)
  BY <1>1, <1>2, <1>4, <1>5 DEF SlotRight
<1>7. Acceptable(Part, k.draft[s], e)
  BY <1>1, <1>3, <1>4, <1>5, <1>6 DEF JudgedRight, Acceptable
<1> QED
  BY <1>5, <1>7 DEF k

\* What Finish comes to, closed being the desk without the tool.
Finished(s, closed) ==
    LET k == Prepared(s)
        d == k.draft[s]
        p == Executed(Part, d)
        accepted == Acceptable(Part, d, k.eval[s]) /\ Executable(d)
    IN  \/ ~Deserving(s) /\ Desk(k)
        \/ ~accepted /\ Desk(Refreshed(k, Part, s))
        \/ accepted /\ k.fits[s] /\ Author(p, ActiveContext(closed, p))

LEMMA FinishedInv ==
    ASSUME Here, NEW s \in Slots, Live(desk, s), NEW closed,
           Right(closed, active, Part.revision), Finished(s, closed)
    PROVE  WorkbenchInv'
<1> DEFINE k == Prepared(s)
           d == k.draft[s]
           p == Executed(Part, d)
<1>1. Right(k, active, Part.revision) /\ k.draft = desk.draft /\ k \in Desks
  BY PreparedRight DEF SameTools, Right, Owned
<1>2. Part.revision \in Nat
  BY HereFacts
<1>3. Live(k, s)
  BY <1>1 DEF Live
<1>4. d \in Drafts
  BY <1>1, <1>3, DeskFacts DEF Live
<1> HIDE DEF k
<1>5. CASE Desk(k)
  BY <1>1, <1>5, DeskStep
<1>6. CASE Desk(Refreshed(k, Part, s))
  BY <1>1, <1>2, <1>3, <1>6, AnyRefreshed, DeskStep
<1>7. CASE /\ Acceptable(Part, d, k.eval[s]) /\ Executable(d)
           /\ Author(p, ActiveContext(closed, p))
  <2>1. d.value # None
    BY <1>7 DEF Acceptable
  <2>2. PartRight(p, active) /\ Part.revision <= p.revision
    BY <1>4, <1>7, <2>1, ExecutedFacts
  <2> HIDE DEF p
  <2> QED
    BY <1>7, <2>2, CommitStep
<1> QED
  BY <1>5, <1>6, <1>7 DEF Finished, k

\* What a tool requires beyond acceptance holds of a deserving draft.
LEMMA DeservingReady ==
    ASSUME Here, NEW s \in Slots, Deserving(s)
    PROVE  LET k == Prepared(s)
           IN  /\ Ready(k, s) /\ k.fits[s] /\ k.eval[s] # None
               /\ desk.draft[s].revision = Part.revision
<1>1. /\ Prepared(s).fits[s]
      /\ Acceptable(Part, Prepared(s).draft[s], Prepared(s).eval[s])
  BY DeservingAccepted
<1> QED
  BY <1>1 DEF Ready, Acceptable, Deserving

LEMMA FinishOutcome ==
    ASSUME Here
    PROVE  /\ FinishAxis =>
                /\ Live(desk, "axis")
                /\ Finished("axis", ClearAxis(Prepared("axis")))
           /\ FinishDatumPlane =>
                /\ Live(desk, "datum")
                /\ Finished("datum", ClearDatumPlane(Prepared("datum")))
           /\ FinishExtrude =>
                /\ Live(desk, "extrude")
                /\ Finished("extrude", Closed(Prepared("extrude"), "extrude"))
           /\ FinishRevolve =>
                /\ Live(desk, "revolve")
                /\ Finished("revolve", ClearRevolve(Prepared("revolve")))
           /\ FinishEdgeFeature =>
                /\ Live(desk, "edge")
                /\ Finished("edge", ClearEdgeFeature(Prepared("edge")))
<1>0. /\ "axis" \in Slots /\ "datum" \in Slots /\ "extrude" \in Slots
      /\ "revolve" \in Slots /\ "edge" \in Slots
  BY DEF Slots
<1>1. FinishAxis => /\ Live(desk, "axis")
                    /\ Finished("axis", ClearAxis(Prepared("axis")))
  BY <1>0, DeservingReady DEF FinishAxis, FinishWith, Finished, Ready
<1>2. FinishDatumPlane =>
         /\ Live(desk, "datum")
         /\ Finished("datum", ClearDatumPlane(Prepared("datum")))
  BY <1>0, DeservingReady DEF FinishDatumPlane, FinishWith, Finished, Ready
<1>3. FinishExtrude =>
         /\ Live(desk, "extrude")
         /\ Finished("extrude", Closed(Prepared("extrude"), "extrude"))
  BY <1>0, DeservingReady DEF FinishExtrude, FinishWith, Finished
<1>4. FinishRevolve =>
         /\ Live(desk, "revolve")
         /\ Finished("revolve", ClearRevolve(Prepared("revolve")))
  BY <1>0, DeservingReady DEF FinishRevolve, FinishWith, Finished, Ready
<1>5. FinishEdgeFeature =>
         /\ Live(desk, "edge")
         /\ Finished("edge", ClearEdgeFeature(Prepared("edge")))
  BY <1>0, DeservingReady DEF FinishEdgeFeature, FinishWith, Finished, Ready
<1> QED
  BY <1>1, <1>2, <1>3, <1>4, <1>5

LEMMA FinishAs ==
    ASSUME Here, NEW s \in Slots, Finish(s)
    PROVE  /\ Live(desk, s)
           /\ \E closed : /\ Finished(s, closed)
                          /\ ClosedTo(closed, Prepared(s), s)
                          /\ Right(closed, active, Part.revision)
<1> DEFINE k == Prepared(s)
<1>1. Live(desk, s)
  BY DEF Finish, FinishAxis, FinishDatumPlane, FinishExtrude, FinishRevolve,
     FinishEdgeFeature
<1>2. Right(k, active, Part.revision) /\ Part.revision \in Nat
  BY <1>1, PreparedRight, HereFacts
<1>3. \E closed : /\ Finished(s, closed)
                  /\ ClosedTo(closed, k, s)
                  /\ Right(closed, active, Part.revision)
  <2>1. CASE s = "axis" /\ FinishAxis
    BY <1>2, <2>1, FinishOutcome, ClearRight
  <2>2. CASE s = "datum" /\ FinishDatumPlane
    BY <1>2, <2>2, FinishOutcome, ClearRight
  <2>3. CASE s = "extrude" /\ FinishExtrude
    BY <1>2, <2>3, FinishOutcome, ClearRight
  <2>4. CASE s = "revolve" /\ FinishRevolve
    BY <1>2, <2>4, FinishOutcome, ClearRight
  <2>5. CASE s = "edge" /\ FinishEdgeFeature
    BY <1>2, <2>5, FinishOutcome, ClearRight
  <2> QED
    BY <2>1, <2>2, <2>3, <2>4, <2>5 DEF Finish
<1> QED
  BY <1>1, <1>3

LEMMA CloseStepInv ==
    ASSUME Here, CloseStep
    PROVE  WorkbenchInv'
<1>1. Right(desk, active, Part.revision) /\ Part.revision \in Nat
  BY HereFacts
<1>2. ASSUME NEW s \in Slots, Finish(s)
      PROVE  WorkbenchInv'
  <2>1. Live(desk, s)
    BY <1>2, FinishAs
  <2>2. PICK closed : /\ Finished(s, closed)
                      /\ Right(closed, active, Part.revision)
    BY <1>2, FinishAs
  <2> QED
    BY <2>1, <2>2, FinishedInv
<1>3. CASE \/ CancelAxis \/ CancelDatumPlane \/ CancelExtrude \/ CancelRevolve
           \/ CancelEdgeFeature
  BY <1>1, <1>3, ClearRight, DeskStep DEF CancelAxis, CancelDatumPlane,
     CancelExtrude, CancelRevolve, CancelEdgeFeature
<1> QED
  BY <1>2, <1>3 DEF CloseStep

-----------------------------------------------------------------------------
(* The document's own steps *)

\* The document as it stands goes through a commit, or does not.
LEMMA SavedStep ==
    ASSUME Here, NEW k, Right(k, active, Part.revision)
    PROVE  Right(ActiveContext(k, Part), active, Part.revision)
<1>1. Part.revision \in Nat /\ Part.revision <= Part.revision
  BY HereFacts
<1> QED
  BY <1>1, ActiveContextRight

LEMMA RecordedStep ==
    ASSUME Here, ~Full
    PROVE  /\ PartRight(Recorded(Part), active)
           /\ Recorded(Part).revision = Part.revision + 1
           /\ Part.revision <= Recorded(Part).revision
<1>1. /\ PartRight(Part, active) /\ MaxRevision[active] \in Nat
      /\ Part.revision # MaxRevision[active] /\ Content(Part) \in SUBSET Objects
      /\ Part.revision \in Nat
  BY HereFacts DEF Full
<1>2. /\ PartRight(Recorded(Part), active)
      /\ Recorded(Part).revision = Part.revision + 1
  BY <1>1, RecordedFacts DEF Recorded
<1> QED
  BY <1>1, <1>2

LEMMA RemovedInv ==
    ASSUME Here, NEW o, NEW k, Right(k, active, Part.revision), Removed(o, k)
    PROVE  WorkbenchInv'
<1> DEFINE p == Committed(Part, Content(Part) \ {o})
<1>1. /\ PartRight(Part, active) /\ MaxRevision[active] \in Nat
      /\ Part.revision # MaxRevision[active]
      /\ Content(Part) \ {o} \in SUBSET Objects
  BY HereFacts DEF Full, Removed
<1>2. PartRight(p, active) /\ Part.revision <= p.revision
  BY <1>1, CommittedFacts
<1>3. Author(p, ActiveContext(k, p))
  BY DEF Removed
<1> HIDE DEF p
<1> QED
  BY <1>2, <1>3, CommitStep

LEMMA TravelInv ==
    ASSUME Here, NEW i, Travel(i)
    PROVE  WorkbenchInv'
<1> DEFINE k == ClearProject(desk)
           p == IF i \in DOMAIN Part.timeline THEN Moved(Part, i) ELSE Part
<1>1. /\ PartRight(Part, active) /\ MaxRevision[active] \in Nat
      /\ Part.revision # MaxRevision[active] /\ Part.revision \in Nat
      /\ Right(k, active, Part.revision)
  BY HereFacts, ClearProjectRight DEF Full, Travel
<1>2. PartRight(p, active) /\ Part.revision <= p.revision
  <2>1. CASE i \in DOMAIN Part.timeline
    <3>1. PartRight(Moved(Part, i), active)
          /\ Moved(Part, i).revision = Part.revision + 1
      BY <1>1, <2>1, PartFacts
    <3> QED
      BY <1>1, <2>1, <3>1
  <2>2. CASE i \notin DOMAIN Part.timeline
    BY <1>1, <2>2
  <2> QED
    BY <2>1, <2>2
<1>3. Author(p, ActiveContext(k, p))
  BY DEF Travel
<1> HIDE DEF p, k
<1> QED
  BY <1>1, <1>2, <1>3, CommitStep

LEMMA DocumentStepInv ==
    ASSUME Here, DocumentStep
    PROVE  WorkbenchInv'
<1>0. Right(desk, active, Part.revision) /\ Part.revision \in Nat
  BY HereFacts
<1>1. ASSUME ~Full, Author(Recorded(Part), ActiveContext(desk, Recorded(Part)))
      PROVE  WorkbenchInv'
  <2> DEFINE p == Recorded(Part)
  <2>1. PartRight(p, active) /\ Part.revision <= p.revision
    BY <1>1, RecordedStep
  <2>2. Author(p, ActiveContext(desk, p))
    BY <1>1
  <2> HIDE DEF p
  <2> QED
    BY <1>0, <2>1, <2>2, CommitStep
<1>2. ASSUME Desk(ActiveContext(desk, Part))
      PROVE  WorkbenchInv'
  BY <1>0, <1>2, SavedStep, DeskStep
<1>3. CASE ApplyProperties
  BY <1>1, <1>3 DEF ApplyProperties
<1>4. CASE Save
  BY <1>2, <1>4 DEF Save
<1>5. CASE Undo \/ Redo
  BY <1>5, TravelInv DEF Undo, Redo
<1>6. ASSUME NEW o \in Content(Part), DeleteAxis(o)
      PROVE  WorkbenchInv'
  <2> DEFINE k == IF Live(desk, "axis") THEN ClearAxis(desk) ELSE desk
  <2>1. Right(k, active, Part.revision)
    BY <1>0, ClearRight
  <2>2. Removed(o, k) \/ Desk(k)
    BY <1>6 DEF DeleteAxis
  <2> HIDE DEF k
  <2> QED
    BY <2>1, <2>2, RemovedInv, DeskStep
<1>7. ASSUME NEW o \in Content(Part), DeleteDatumPlane(o) \/ DeleteFeature(o)
      PROVE  WorkbenchInv'
  BY <1>0, <1>2, <1>7, RemovedInv DEF DeleteDatumPlane, DeleteFeature
<1>8. ASSUME NEW o \in Content(Part), SetFeatureSuppressed(o)
      PROVE  WorkbenchInv'
  BY <1>1, <1>8 DEF SetFeatureSuppressed
<1> QED
  BY <1>3, <1>4, <1>5, <1>6, <1>7, <1>8 DEF DocumentStep

-----------------------------------------------------------------------------
(* The steps of sketches *)

\* Another context of sketches, on a desk without solid features if one
\* opens, and with modes it owns.
LEMMA ContextRight ==
    ASSUME Here, NEW l \in Desks, SameDrafts(l, desk),
           l.edges => desk.edges \/ l.project # None,
           l.faces => desk.faces \/ l.support # None \/ l.project # None,
           desk.project # None => l.project # None,
           desk.support # None => l.support # None \/ ~l.faces,
           l.project # None => l.sketch # None,
           l.sketch # None \/ l.support # None =>
              \A s \in SolidSlots : ~Live(desk, s)
    PROVE  Right(l, active, Part.revision)
<1>1. Right(desk, active, Part.revision) /\ ModesOwned(desk)
  BY HereFacts DEF Owned
<1>2. ModesOwned(l) /\ SketchesAlone(l)
  BY <1>1 DEF ModesOwned, SketchesAlone, SameDrafts, Live
<1> QED
  BY <1>1, <1>2, SameDraftsRight

LEMMA NoSolidHere ==
    ASSUME Here, NEW S, Free(S), Drafting \cup EdgeKinds \subseteq S
    PROVE  \A s \in SolidSlots : ~Live(desk, s)
<1>1. \A s \in SolidSlots : s \in Slots /\ KindsOf[s] \subseteq Drafting \cup EdgeKinds
  BY DEF SolidSlots, Slots, KindsOf, Drafting, EdgeKinds
<1> QED
  BY <1>1, HereFree

LEMMA SupportInv ==
    ASSUME Here
    PROVE  /\ \A target \in Sketches(Part) \cup {None} :
                StartSupport(target) => WorkbenchInv'
           /\ StageSupport => WorkbenchInv'
           /\ CancelSupport => WorkbenchInv'
<1>0. /\ desk \in Desks /\ Part.revision \in Nat /\ SketchesAlone(desk)
      /\ desk.support \in Supports \cup {None}
      /\ None \notin Supports
  BY HereFacts, DeskFacts, NoneAssumption DEF Owned
<1>1. ASSUME NEW target \in Sketches(Part) \cup {None}, StartSupport(target)
      PROVE  WorkbenchInv'
  <2> DEFINE u == [target |-> target, revision |-> None]
             l == [desk EXCEPT !.support = u, !.faces = TRUE]
  <2>1. target \in Ids \cup {None}
    BY HereFacts DEF Sketches, Objects
  <2>2. u \in Supports
    BY <2>1 DEF Supports
  <2>3. Desk(l) /\ Free(Busy \cup EdgeKinds)
    BY <1>1 DEF StartSupport
  <2> HIDE DEF u
  <2>4. /\ l \in Desks /\ SameDrafts(l, desk) /\ l.edges = desk.edges
        /\ l.support = u /\ l.project = desk.project /\ l.sketch = desk.sketch
    BY <1>0, <2>2 DEF Desks, SameDrafts
  <2> HIDE DEF l
  <2>5. \A s \in SolidSlots : ~Live(desk, s)
    BY <2>3, NoSolidHere DEF Busy
  <2>6. Right(l, active, Part.revision)
    BY <1>0, <2>2, <2>4, <2>5, ContextRight DEF SketchesAlone
  <2> QED
    BY <2>3, <2>6, DeskStep
<1>2. ASSUME StageSupport
      PROVE  WorkbenchInv'
  <2> DEFINE u == [desk.support EXCEPT !.revision = Part.revision]
             l == [desk EXCEPT !.support = u]
  <2>1. desk.support # None /\ Desk(l)
    BY <1>2 DEF StageSupport
  <2>2. u \in Supports
    BY <1>0, <2>1 DEF Supports
  <2> HIDE DEF u
  <2>3. /\ l \in Desks /\ SameDrafts(l, desk) /\ l.edges = desk.edges
        /\ l.faces = desk.faces
        /\ l.support = u /\ l.project = desk.project /\ l.sketch = desk.sketch
    BY <1>0, <2>2 DEF Desks, SameDrafts
  <2> HIDE DEF l
  <2>4. Right(l, active, Part.revision)
    BY <1>0, <2>1, <2>2, <2>3, ContextRight DEF SketchesAlone
  <2> QED
    BY <2>1, <2>4, DeskStep
<1>3. ASSUME CancelSupport
      PROVE  WorkbenchInv'
  <2> DEFINE l == [desk EXCEPT !.support = None, !.faces = FALSE]
  <2>1. Desk(l)
    BY <1>3 DEF CancelSupport
  <2>2. /\ l \in Desks /\ SameDrafts(l, desk) /\ l.edges = desk.edges
        /\ ~l.faces
        /\ l.support = None /\ l.project = desk.project /\ l.sketch = desk.sketch
    BY <1>0 DEF Desks, SameDrafts
  <2> HIDE DEF l
  <2>3. Right(l, active, Part.revision)
    BY <1>0, <2>2, ContextRight DEF SketchesAlone
  <2> QED
    BY <2>1, <2>3, DeskStep
<1> QED
  BY <1>1, <1>2, <1>3

LEMMA FinishSupportInv ==
    ASSUME Here, NEW value \in Values, FinishSupport(value)
    PROVE  WorkbenchInv'
<1> DEFINE target == desk.support.target
           id == IF target = None THEN Part.next ELSE target
           o == [id |-> id, kind |-> "sketch", value |-> value]
           content == (Content(Part) \ Find(Part, id)) \cup {o}
           q == Committed(Part, content)
           p == [q EXCEPT !.next = IF target = None THEN @ + 1 ELSE @]
           k == [desk EXCEPT !.support = None, !.faces = FALSE]
           u == [desk.support EXCEPT !.revision = None]
           j == [desk EXCEPT !.support = u]
           l == [ActiveContext(k, p) EXCEPT !.sketch = id]
<1>0. /\ desk \in Desks /\ Part.revision \in Nat /\ SketchesAlone(desk)
      /\ desk.support \in Supports \cup {None} /\ desk.support # None
      /\ None \notin Supports
  BY HereFacts, DeskFacts, NoneAssumption DEF Owned, FinishSupport
<1>1. \/ Desk(j)
      \/ ~Full /\ (target = None \/ target \in Sketches(Part)) /\ Author(p, l)
  BY DEF FinishSupport
<1>2. CASE Desk(j)
  <2>2. u \in Supports
    BY <1>0 DEF Supports
  <2> HIDE DEF u
  <2>3. /\ j \in Desks /\ SameDrafts(j, desk) /\ j.edges = desk.edges
        /\ j.faces = desk.faces
        /\ j.support = u /\ j.project = desk.project /\ j.sketch = desk.sketch
    BY <1>0, <2>2 DEF Desks, SameDrafts
  <2> HIDE DEF j
  <2>4. Right(j, active, Part.revision)
    BY <1>0, <2>2, <2>3, ContextRight DEF SketchesAlone
  <2> QED
    BY <1>2, <2>4, DeskStep
<1>3. CASE ~Full /\ (target = None \/ target \in Sketches(Part)) /\ Author(p, l)
  <2> HIDE DEF target
  <2>1. /\ PartRight(Part, active) /\ MaxRevision[active] \in Nat
        /\ Part.revision # MaxRevision[active] /\ Content(Part) \in SUBSET Objects
        /\ Part.next \in Ids
    BY <1>3, HereFacts DEF Full
  <2>2. id \in Ids
    BY <1>3, <2>1 DEF Sketches, Objects
  <2> HIDE DEF id
  <2>3. content \in SUBSET Objects
    BY <2>1, <2>2 DEF Objects
  <2> HIDE DEF content
  <2>4. PartRight(q, active) /\ Part.revision <= q.revision
    BY <2>1, <2>3, CommittedFacts
  <2>5. PartRight(p, active) /\ p.revision = q.revision
    <3> HIDE DEF q
    <3>1. CASE target = None
      <4>1. p = [q EXCEPT !.next = @ + 1]
        BY <3>1
      <4> QED
        BY <2>4, <4>1, PartFacts
    <3>2. CASE target # None
      <4>1. p = [q EXCEPT !.next = @]
        BY <3>2
      <4>2. p = q
        BY <2>4, <4>1 DEF PartRight, Parts
      <4> QED
        BY <2>4, <4>2
    <3> QED
      BY <3>1, <3>2
  <2> HIDE DEF q
  <2>6. p.revision \in Nat /\ Part.revision <= p.revision
    BY <2>4, <2>5, PartFacts
  <2>7. Author(p, l)
    BY <1>3
  <2> HIDE DEF p
  <2>8. Right(k, active, Part.revision) /\ k.draft = desk.draft
    <3>1. /\ k \in Desks /\ SameDrafts(k, desk) /\ k.edges = desk.edges
          /\ ~k.faces
          /\ k.support = None /\ k.project = desk.project /\ k.sketch = desk.sketch
      BY <1>0 DEF Desks, SameDrafts
    <3> HIDE DEF k
    <3> QED
      BY <1>0, <3>1, ContextRight DEF SketchesAlone, SameDrafts
  <2> HIDE DEF k
  <2> DEFINE m == ActiveContext(k, p)
  <2>9. Right(m, active, p.revision) /\ m.draft = k.draft
    BY <1>0, <2>6, <2>8, ActiveContextRight
  <2>10. l = [m EXCEPT !.sketch = id]
    OBVIOUS
  <2> HIDE DEF m, l
  <2>11. \A s \in SolidSlots : ~Live(m, s)
    BY <1>0, <2>8, <2>9 DEF SketchesAlone, Live
  <2>12. id # None
    BY <2>2, NoneAssumption DEF Ids
  <2>13. Right(l, active, p.revision)
    BY <2>2, <2>9, <2>10, <2>11, <2>12, SketchRight
  <2> QED
    BY <2>5, <2>7, <2>13, AuthorStep
<1> QED
  BY <1>1, <1>2, <1>3

LEMMA EditSketchInv ==
    ASSUME Here
    PROVE  /\ \A id \in Sketches(Part) : EditSketch(id) => WorkbenchInv'
           /\ FinishSketch => WorkbenchInv'
<1>0. /\ desk \in Desks /\ SketchesAlone(desk)
      /\ Right(desk, active, Part.revision)
  BY HereFacts DEF Owned
<1>1. ASSUME NEW id \in Sketches(Part), EditSketch(id)
      PROVE  WorkbenchInv'
  <2> DEFINE f == IF desk.support = None THEN desk.faces ELSE FALSE
             l == [desk EXCEPT !.sketch = id, !.support = None, !.faces = f]
  <2>1. /\ Desk(l)
        /\ Free(Drafting \cup EdgeKinds \cup {"profilePick", "sketch"})
    BY <1>1 DEF EditSketch
  <2>2. id \in Ids
    BY HereFacts DEF Sketches, Objects
  <2>3. id # None
    BY <2>2, NoneAssumption DEF Ids
  <2>4. f \in BOOLEAN
    BY <1>0, DeskFacts
  <2>5. (f => desk.faces) /\ (desk.support # None => ~f)
    BY <1>0, DeskFacts
  <2> HIDE DEF f
  <2>6. /\ l \in Desks /\ SameDrafts(l, desk) /\ l.edges = desk.edges
        /\ l.support = None /\ l.project = desk.project /\ l.sketch = id
    BY <1>0, <2>2, <2>4 DEF Desks, SameDrafts
  <2>7. l.faces = f
    BY <1>0 DEF Desks
  <2> HIDE DEF l
  <2>8. \A s \in SolidSlots : ~Live(desk, s)
    BY <2>1, NoSolidHere
  <2>9. Right(l, active, Part.revision)
    BY <2>3, <2>5, <2>6, <2>7, <2>8, ContextRight
  <2> QED
    BY <2>1, <2>9, DeskStep
<1>2. ASSUME FinishSketch
      PROVE  WorkbenchInv'
  BY <1>0, <1>2, ClearSketchRight, DeskStep DEF FinishSketch
<1> QED
  BY <1>1, <1>2

\* Drawing changes the document without a word to the drafts: no draft was
\* begun at the revision it comes to, and no solid feature is drafted.
LEMMA DrawInv ==
    ASSUME Here, Draw
    PROVE  WorkbenchInv'
<1> DEFINE r == Part.revision
<1>1. /\ desk.sketch # None /\ ~Full /\ Author(Recorded(Part), desk)
  BY DEF Draw
<1>2. /\ Right(desk, active, r) /\ Owned(desk, active) /\ SketchesAlone(desk)
      /\ desk.draft \in [Slots -> Drafts \cup {None}] /\ r \in Nat
  BY HereFacts, DeskFacts DEF Owned
<1>3. \A s \in SolidSlots : ~Live(desk, s)
  BY <1>1, <1>2 DEF SketchesAlone
<1>4. ASSUME NEW s \in Slots
      PROVE  SlotRight(desk, r + 1, s)
  <2>1. SlotRight(desk, r, s)
    BY <1>2 DEF Right
  <2>2. Live(desk, s) => desk.draft[s].revision \in Nat
    BY <1>2 DEF Live, Drafts
  <2> HIDE DEF r
  <2> QED
    BY <1>2, <1>3, <2>1, <2>2 DEF SlotRight, JudgedRight
<1>5. Right(desk, active, r + 1)
  BY <1>2, <1>4 DEF Right
<1> QED
  BY <1>1, <1>5, RecordedStep, AuthorStep

LEMMA ProjectInv ==
    ASSUME Here
    PROVE  /\ StartProject => WorkbenchInv'
           /\ \A ready, byFace \in BOOLEAN :
                StageProject(ready, byFace) => WorkbenchInv'
           /\ FinishProject => WorkbenchInv'
           /\ CancelProject => WorkbenchInv'
<1>0. /\ desk \in Desks /\ Part.revision \in Nat /\ SketchesAlone(desk)
      /\ Right(desk, active, Part.revision)
      /\ desk.project \in Projections \cup {None}
      /\ None \notin Projections
  BY HereFacts, DeskFacts, NoneAssumption DEF Owned
<1>1. ASSUME StartProject
      PROVE  WorkbenchInv'
  <2> DEFINE u == [revision |-> Part.revision, ready |-> FALSE]
             k == EdgeMode(desk)
             l == [k EXCEPT !.project = u]
  <2>1. Desk(l) /\ desk.sketch # None
    BY <1>1 DEF StartProject
  <2>2. u \in Projections
    BY <1>0 DEF Projections
  <2> HIDE DEF u
  <2>3. /\ k \in Desks /\ SameDrafts(k, desk)
        /\ k.support = desk.support /\ k.sketch = desk.sketch
        /\ k.faces => desk.faces
    BY <1>0 DEF EdgeMode, Desks, SameDrafts
  <2> HIDE DEF k
  <2>4. /\ l \in Desks /\ SameDrafts(l, desk)
        /\ l.support = desk.support /\ l.sketch = desk.sketch
        /\ l.project = u /\ (l.faces => desk.faces)
    BY <2>2, <2>3 DEF Desks, SameDrafts
  <2> HIDE DEF l
  <2>5. Right(l, active, Part.revision)
    BY <1>0, <2>1, <2>2, <2>4, ContextRight DEF SketchesAlone
  <2> QED
    BY <2>1, <2>5, DeskStep
<1>2. ASSUME NEW ready \in BOOLEAN, NEW byFace \in BOOLEAN,
             StageProject(ready, byFace)
      PROVE  WorkbenchInv'
  <2> DEFINE u == [desk.project EXCEPT !.ready = ready]
             l == [desk EXCEPT !.project = u, !.faces = byFace]
  <2>1. Desk(l) /\ desk.project # None
    BY <1>2 DEF StageProject
  <2>2. u \in Projections
    BY <1>0, <2>1 DEF Projections
  <2> HIDE DEF u
  <2>3. /\ l \in Desks /\ SameDrafts(l, desk) /\ l.edges = desk.edges
        /\ l.support = desk.support /\ l.sketch = desk.sketch
        /\ l.project = u
    BY <1>0, <2>2 DEF Desks, SameDrafts
  <2> HIDE DEF l
  <2>4. Right(l, active, Part.revision)
    BY <1>0, <2>1, <2>2, <2>3, ContextRight DEF SketchesAlone
  <2> QED
    BY <2>1, <2>4, DeskStep
<1>3. ASSUME FinishProject
      PROVE  WorkbenchInv'
  <2>1. ~Full /\ Author(Recorded(Part), ActiveContext(ClearProject(desk), Recorded(Part)))
    BY <1>3 DEF FinishProject
  <2>2. Right(ClearProject(desk), active, Part.revision)
    BY <1>0, ClearProjectRight
  <2> QED
    BY <2>1, <2>2, RecordedStep, CommitStep
<1>4. ASSUME CancelProject
      PROVE  WorkbenchInv'
  BY <1>0, <1>4, ClearProjectRight, DeskStep DEF CancelProject
<1> QED
  BY <1>1, <1>2, <1>3, <1>4

LEMMA SketchStepInv ==
    ASSUME Here, SketchStep
    PROVE  WorkbenchInv'
BY SupportInv, FinishSupportInv, EditSketchInv, DrawInv, ProjectInv DEF SketchStep

-----------------------------------------------------------------------------
(* Other documents, and the invariant *)

LEMMA ActivateInv ==
    ASSUME WorkbenchInv, NEW d \in Docs, ActivateDocument(d)
    PROVE  WorkbenchInv'
<1> DEFINE r == part[d].revision
<1>1. /\ PartsRight' /\ active' = d /\ part' = part /\ r \in Nat
  BY DEF WorkbenchInv, PartsRight, PartRight, Parts, ActivateDocument
<1>2. None \notin Docs
  BY WorkbenchAssumption
<1>3. Right(desk', d, r)
  <2>1. CASE d = active
    <3>1. Right(desk, d, r) /\ desk' = ActiveContext(desk, part[d])
      BY <1>2, <2>1 DEF WorkbenchInv, DeskRight, Part, ActivateDocument
    <3> QED
      BY <1>1, <3>1, ActiveContextRight
  <2>2. CASE d # active
    <3>1. ClearAll(desk) = Empty
      <4>1. CASE active = None
        <5>1. desk = Empty
          BY <4>1 DEF WorkbenchInv, DeskRight
        <5>2. Right(desk, d, r)
          BY <5>1, EmptyRight
        <5> QED
          BY <1>1, <5>2, ClearAllIsEmpty
      <4>2. CASE active # None
        BY <4>2, HereFacts, ClearAllIsEmpty DEF Here
      <4> QED
        BY <4>1, <4>2
    <3>2. desk' = ActiveContext(Empty, part[d])
      BY <2>2, <3>1 DEF ActivateDocument
    <3> QED
      BY <1>1, <3>2, EmptyRight, ActiveContextRight
  <2> QED
    BY <2>1, <2>2
<1> QED
  BY <1>1, <1>2, <1>3 DEF WorkbenchInv, DeskRight, Part

LEMMA DeactivateInv ==
    ASSUME WorkbenchInv, DeactivateDocument
    PROVE  WorkbenchInv'
<1>1. PartsRight' /\ active' = None /\ desk' = ClearAll(desk)
  BY DEF WorkbenchInv, PartsRight, PartRight, DeactivateDocument
<1>2. ClearAll(desk) = Empty
  <2>1. CASE active = None
    <3>1. desk = Empty
      BY <2>1 DEF WorkbenchInv, DeskRight
    <3>2. Right(desk, None, 0)
      BY <3>1, EmptyRight
    <3> QED
      BY <3>2, ClearAllIsEmpty
  <2>2. CASE active # None
    BY <2>2, HereFacts, ClearAllIsEmpty DEF Here
  <2> QED
    BY <2>1, <2>2
<1> QED
  BY <1>1, <1>2 DEF WorkbenchInv, DeskRight

LEMMA InitInv ==
    ASSUME Init
    PROVE  WorkbenchInv
<1>1. ASSUME NEW d \in Docs
      PROVE  PartRight(part[d], d)
  <2> DEFINE p == [revision |-> 1, timeline |-> <<Seed[d]>>, position |-> 1,
                   next |-> Cardinality(Seed[d]) + 1]
  <2>1. part[d] = p
    BY DEF Init
  <2>2. Seed[d] \in SUBSET Objects /\ IsFiniteSet(Seed[d]) /\ MaxRevision[d] \in Nat \ {0}
    BY WorkbenchAssumption
  <2>3. Cardinality(Seed[d]) + 1 \in Ids
    BY <2>2, FS_CardinalityType DEF Ids
  <2>4. <<Seed[d]>> \in Seq(SUBSET Objects) /\ 1 \in DOMAIN <<Seed[d]>>
    BY <2>2
  <2> QED
    BY <2>1, <2>2, <2>3, <2>4 DEF PartRight, Parts
<1>2. part \in [Docs -> Parts]
  BY <1>1 DEF Init, PartRight
<1> QED
  BY <1>1, <1>2 DEF Init, WorkbenchInv, PartsRight, DeskRight

LEMMA NextInv ==
    ASSUME WorkbenchInv, [Next]_vars
    PROVE  WorkbenchInv'
<1>1. CASE UNCHANGED vars
  BY <1>1 DEF vars, WorkbenchInv, PartsRight, PartRight, DeskRight, Part
<1>2. CASE Next
  <2>1. CASE \E d \in Docs : ActivateDocument(d)
    BY <2>1, ActivateInv
  <2>2. CASE DeactivateDocument
    BY <2>2, DeactivateInv
  <2>3. CASE active # None /\ (DocumentStep \/ StartStep \/ ChangeStep
                                 \/ CloseStep \/ SketchStep)
    BY <2>3, DocumentStepInv, StartStepInv, ChangeStepInv, CloseStepInv,
       SketchStepInv DEF Here
  <2> QED
    BY <1>2, <2>1, <2>2, <2>3 DEF Next
<1> QED
  BY <1>1, <1>2

\* In every behaviour the documents are whole, and the desk holds nothing but
\* right evaluations, views and modes of the active document's drafts
\* (cad_workbench.cpp, with all its tools).
THEOREM WorkbenchInvAlways == Spec => []WorkbenchInv
<1>1. Init => WorkbenchInv
  BY InitInv
<1>2. WorkbenchInv /\ [Next]_vars => WorkbenchInv'
  BY NextInv
<1> QED
  BY <1>1, <1>2, PTL DEF Spec

-----------------------------------------------------------------------------
(* What the properties say *)

LEMMA NoneActive ==
    ASSUME WorkbenchInv, active = None
    PROVE  /\ desk = Empty
           /\ \A s \in Slots : ~Live(desk, s) /\ desk.eval[s] = None
           /\ \A w \in Views : desk.shown[w] = None
           /\ ~desk.edges /\ ~desk.faces /\ desk.armed = {}
           /\ desk.project = None
<1>1. desk = Empty
  BY DEF WorkbenchInv, DeskRight
<1> QED
  BY <1>1 DEF Empty, Live

LEMMA OutlivesNothing ==
    ASSUME WorkbenchInv
    PROVE  NothingOutlivesDocument
<1>1. CASE active = None
  BY <1>1, NoneActive DEF NothingOutlivesDocument, Empty
<1>2. CASE Here
  <2>1. /\ desk \in Desks /\ DraftsOwned(desk, active) /\ ModesOwned(desk)
        /\ SketchesAlone(desk) /\ \A w \in Views : ViewRight(desk, w)
    BY <1>2, HereFacts DEF Owned, Right
  <2>2. ASSUME Open(desk) = {}
        PROVE  desk.shown = Empty.shown /\ ~desk.edges /\ ~desk.faces
    <3>1. /\ \A s \in Slots : ~Live(desk, s)
          /\ desk.support = None /\ desk.sketch = None /\ desk.project = None
      BY <2>2 DEF Open
    <3>2. \A w \in Views : desk.shown[w] = None
      <4> SUFFICES ASSUME NEW w \in Views, desk.shown[w] # None
                   PROVE  FALSE
        OBVIOUS
      <4>1. desk.shown[w].slot \in Slots
        BY <2>1, DeskFacts DEF Previews
      <4> QED
        BY <2>1, <3>1, <4>1 DEF ViewRight
    <3>3. desk.shown = [w \in Views |-> None]
      BY <2>1, <3>2, DeskFacts
    <3>4. Empty.shown = [w \in Views |-> None]
      BY DEF Empty
    <3>5. "axis" \in Slots /\ "datum" \in Slots /\ "edge" \in Slots
      BY DEF Slots
    <3>6. ~desk.edges /\ ~desk.faces
      BY <2>1, <3>1, <3>5 DEF ModesOwned
    <3> QED
      BY <3>3, <3>4, <3>6
  <2> QED
    BY <1>2, <2>1, <2>2 DEF Here, DraftsOwned, SketchesAlone, NothingOutlivesDocument
<1> QED
  BY <1>1, <1>2 DEF Here

LEMMA TypeRight ==
    ASSUME WorkbenchInv
    PROVE  TypeOK
<1>1. /\ part \in [Docs -> Parts]
      /\ \A d \in Docs : /\ part[d].revision <= MaxRevision[d]
                         /\ part[d].position \in DOMAIN part[d].timeline
  BY DEF WorkbenchInv, PartsRight, PartRight
<1>2. CASE active = None
  <2>1. desk \in Desks
    BY <1>2, NoneActive, EmptyRight DEF Right, Owned
  <2> QED
    BY <1>1, <1>2, <2>1, NoneActive DEF TypeOK
<1>3. CASE Here
  <2>1. active \in Docs /\ desk \in Desks /\ DraftsOwned(desk, active)
    BY <1>3, HereFacts DEF Owned
  <2>2. \A s \in Slots : ~Live(desk, s) => desk.eval[s] = None /\ s \notin desk.armed
    BY <1>3, HereFacts DEF Right, SlotRight
  <2> QED
    BY <1>1, <2>1, <2>2 DEF TypeOK, DraftsOwned
<1> QED
  BY <1>2, <1>3 DEF Here

LEMMA ServesLiveTools ==
    ASSUME WorkbenchInv
    PROVE  ViewportServesLiveTools
<1>1. CASE active = None
  <2>1. PreviewIsOfLiveDraft
    BY <1>1, NoneActive DEF PreviewIsOfLiveDraft
  <2>2. PickModesAreOwned
    BY <1>1, NoneActive DEF PickModesAreOwned
  <2> QED
    BY <2>1, <2>2, TypeRight DEF ViewportServesLiveTools
<1>2. CASE Here
  <2>1. /\ ModesOwned(desk) /\ \A w \in Views : ViewRight(desk, w)
    BY <1>2, HereFacts DEF Owned, Right
  <2>2. PreviewIsOfLiveDraft
    BY <2>1 DEF ViewRight, PreviewIsOfLiveDraft
  <2>3. Live(desk, "datum") /\ desk.draft["datum"].kind = "offset"
           => "offset" \in Open(desk)
    BY DEF Open, Slots
  <2>4. PickModesAreOwned
    BY <2>1, <2>3 DEF ModesOwned, PickModesAreOwned
  <2> QED
    BY <2>2, <2>4, TypeRight DEF ViewportServesLiveTools
<1> QED
  BY <1>1, <1>2 DEF Here

LEMMA CurrentOffers ==
    ASSUME WorkbenchInv
    PROVE  OfferedIsCurrent
<1>0. SolidSlots \subseteq Slots
  BY DEF SolidSlots, Slots
<1>1. CASE active = None
  BY <1>0, <1>1, NoneActive DEF OfferedIsCurrent
<1>2. CASE Here
  <2> SUFFICES ASSUME NEW s \in SolidSlots,
                      desk.eval[s] # None, desk.eval[s].ok
               PROVE  /\ desk.eval[s].generation = desk.draft[s].generation
                      /\ desk.draft[s].revision = Part.revision
    BY DEF OfferedIsCurrent
  <2>1. SlotRight(desk, Part.revision, s)
    BY <1>0, <1>2, HereFacts DEF Right
  <2> QED
    BY <2>1 DEF SlotRight, JudgedRight
<1> QED
  BY <1>1, <1>2 DEF Here

LEMMA Accepted ==
    ASSUME WorkbenchInv
    PROVE  \A s \in Slots : TypedIsAccepted(s)
BY DeservingAccepted DEF TypedIsAccepted, Here

\* The command of an accepted draft leaves its object, and all others.
LEMMA CommittedObject ==
    ASSUME Here, NEW d \in Drafts, d.value # None, Executable(d),
           NEW k, Author(Executed(Part, d), k)
    PROVE  \E o \in Content(Part)' :
             /\ o.kind = d.kind /\ o.value = d.value
             /\ o.id = IF d.target = None THEN Part.next ELSE d.target
             /\ \A q \in Content(Part) :
                  q.id # o.id => q \in Content(Part)'
<1> DEFINE p == Executed(Part, d)
           id == IF d.target = None THEN Part.next ELSE d.target
           o == [id |-> id, kind |-> d.kind, value |-> d.value]
<1>1. Content(p) = (Content(Part) \ Find(Part, id)) \cup {o}
  BY ExecutedFacts
<1>2. active' = active /\ part' = [part EXCEPT ![active] = p]
  BY DEF Author
<1> HIDE DEF p
<1>3. Content(Part)' = Content(p)
  BY <1>2, HereFacts DEF Here, WorkbenchInv, PartsRight, Part, Content
<1>4. o.id = id /\ o.kind = d.kind /\ o.value = d.value
  OBVIOUS
<1> HIDE DEF id, o
<1>5. \A q \in Content(Part) : q.id # id => q \in Content(Part)'
  BY <1>1, <1>3 DEF Find
<1> QED
  BY <1>1, <1>3, <1>4, <1>5 DEF id

LEMMA Commits ==
    ASSUME WorkbenchInv
    PROVE  FinishCommits
<1> SUFFICES ASSUME NEW s \in Slots, active # None, Finish(s)
             PROVE  IF Deserving(s)
                    THEN LET d == desk.draft[s]
                         IN  /\ ~Live(desk', s)
                             /\ \E o \in Content(Part)' :
                                  /\ o.kind = d.kind /\ o.value = d.value
                                  /\ o.id = IF d.target = None THEN Part.next
                                            ELSE d.target
                                  /\ \A q \in Content(Part) :
                                       q.id # o.id => q \in Content(Part)'
                    ELSE UNCHANGED part /\ Live(desk', s)
  BY DEF FinishCommits
<1> DEFINE k == Prepared(s)
           d == desk.draft[s]
           e == k.eval[s]
           p == Executed(Part, d)
<1>1. Here
  BY DEF Here
<1>2. Live(desk, s)
  BY <1>1, FinishAs
<1>3. PICK closed : /\ Finished(s, closed)
                    /\ ClosedTo(closed, k, s)
                    /\ Right(closed, active, Part.revision)
  BY <1>1, FinishAs
<1>4. /\ Right(k, active, Part.revision) /\ k.draft = desk.draft
      /\ k.fits = desk.fits /\ k \in Desks
  BY <1>1, <1>2, PreparedRight DEF SameTools, Right, Owned
<1>5. Live(k, s) /\ d \in Drafts /\ Part.revision \in Nat /\ desk \in Desks
  BY <1>1, <1>2, <1>4, HereFacts, DeskFacts DEF Live
<1>6. Live(Refreshed(k, Part, s), s)
  <2> HIDE DEF k
  <2>1. SameTools(Refreshed(k, Part, s), k)
    BY <1>4, <1>5, AnyRefreshed
  <2> QED
    BY <1>5, <2>1 DEF SameTools, Live
<1>7. Deserving(s) => k.fits[s] /\ Acceptable(Part, d, e) /\ Executable(d)
  BY <1>1, <1>4, DeservingAccepted DEF Deserving
<1>8. Acceptable(Part, d, e) /\ Executable(d) /\ k.fits[s] => Deserving(s)
  <2>1. ASSUME Acceptable(Part, d, e)
        PROVE  d.value \in Computable /\ d.revision = Part.revision
    <3>1. SlotRight(k, Part.revision, s)
      BY <1>4 DEF Right
    <3> HIDE DEF k
    <3> QED
      BY <1>4, <1>5, <2>1, <3>1 DEF SlotRight, JudgedRight, Acceptable
  <2> QED
    BY <1>2, <1>4, <2>1 DEF Deserving
<1>9. \/ ~Deserving(s) /\ Desk(k)
      \/ /\ ~(Acceptable(Part, d, e) /\ Executable(d))
         /\ Desk(Refreshed(k, Part, s))
      \/ /\ Acceptable(Part, d, e) /\ Executable(d) /\ k.fits[s]
         /\ Author(p, ActiveContext(closed, p))
  BY <1>3, <1>4 DEF Finished
<1> HIDE DEF k
<1>10. CASE ~Deserving(s) /\ Desk(k)
  BY <1>5, <1>10 DEF Desk, Live
<1>11. CASE /\ ~(Acceptable(Part, d, e) /\ Executable(d))
            /\ Desk(Refreshed(k, Part, s))
  BY <1>6, <1>7, <1>11 DEF Desk, Live
<1>12. CASE /\ Acceptable(Part, d, e) /\ Executable(d) /\ k.fits[s]
            /\ Author(p, ActiveContext(closed, p))
  <2>1. Deserving(s) /\ d.value # None
    BY <1>8, <1>12 DEF Acceptable
  <2>2. ~Live(desk', s)
    <3>1. PartRight(p, active) /\ Part.revision <= p.revision
      BY <1>1, <1>5, <1>12, <2>1, ExecutedFacts
    <3> HIDE DEF p
    <3>2. p.revision \in Nat
      BY <3>1, PartFacts
    <3>3. ActiveContext(closed, p).draft = closed.draft
      BY <1>3, <1>5, <3>1, <3>2, ActiveContextRight
    <3>4. closed.draft[s] = None
      BY <1>3, <1>4, DeskFacts DEF ClosedTo
    <3> QED
      BY <1>12, <3>3, <3>4 DEF Author, Live
  <2> QED
    BY <1>1, <1>5, <1>12, <2>1, <2>2, CommittedObject
<1> QED
  BY <1>9, <1>10, <1>11, <1>12

-----------------------------------------------------------------------------
(* The theorems *)

\* Whatever tools were opened in whatever order, none of their drafts, picks,
\* previews or pick modes survives the change to another document or to none
\* (cad_workbench.cpp, activateDocument).
THEOREM NothingOutlives == Spec => []NothingOutlivesDocument
BY WorkbenchInvAlways, OutlivesNothing, PTL

\* The preview and the pick mode of the viewport belong to a live tool, and
\* the preview is of its draft as it is unless a timer is still to fire.
THEOREM ViewportIsServed == Spec => []ViewportServesLiveTools
BY WorkbenchInvAlways, ServesLiveTools, PTL

\* A solid feature is offered only as evaluated in its last state and at the
\* current revision, although drawing does not evaluate it again.
THEOREM OfferedStaysCurrent == Spec => []OfferedIsCurrent
BY WorkbenchInvAlways, CurrentOffers, PTL

\* Finish accepts a draft that deserves it with the evaluation it owes, commits
\* exactly its object and closes the tool; any other changes nothing.
THEOREM FinishTakesTyped == Spec => FinishTakesWhatWasTyped
<1>1. WorkbenchInv => \A s \in Slots : TypedIsAccepted(s)
  BY Accepted
<1>2. WorkbenchInv /\ [Next]_vars => [FinishCommits]_vars
  BY Commits
<1> QED
  BY <1>1, <1>2, WorkbenchInvAlways, PTL DEF Spec, FinishTakesWhatWasTyped
=============================================================================
