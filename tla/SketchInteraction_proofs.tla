---------------------- MODULE SketchInteraction_proofs ----------------------
(***************************************************************************)
(* Proofs about SketchInteraction, for any shapes, tools, identifiers and  *)
(* bounds.                                                                 *)
(*                                                                         *)
(* The invariant has two halves. Sketching says of the interaction state,  *)
(* the controller and the document that they go together: what is set goes *)
(* with the tool and its stage (Coherent), nothing that is held is gone    *)
(* (Holds), a revision that is remembered is the present one, and then     *)
(* what was captured under it is still so (Remembers). Telling says that   *)
(* the controller has told of the question it asks, but for a request that *)
(* a handler has left unanswered, and that a typed text answers it.        *)
(*                                                                         *)
(* There is one lemma for each handler. Most of them say nothing but that  *)
(* the handler leads from a Sketching state to another; BecomeKeeps then   *)
(* gives the invariant. Sound says what a commit may do to the document.   *)
(***************************************************************************)
EXTENDS SketchInteraction, FiniteSetTheorems, SequenceTheorems, TLAPS

Sketches == UNION {[ids -> Shapes] : ids \in SUBSET Ids}
Revisions == 1..MaxRevision
Grips == [id : Ids, center : BOOLEAN, copy : BOOLEAN, mode : Modes]
Profiles == [kind : {"create", "edit"}, draft : BOOLEAN, revision : Revisions]

-----------------------------------------------------------------------------
(* The inductive invariant *)

Document(p) ==
    /\ p \in [revision : Revisions, timeline : Seq(Sketches),
              position : Nat, next : 1..(MaxId + 1)]
    /\ p.position \in 1..Len(p.timeline)
    /\ \A i \in 1..Len(p.timeline) : DOMAIN p.timeline[i] \subseteq 1..(p.next - 1)

Interactions ==
    [tool : AllTools, stage : Stages, pending : BOOLEAN, candidate : BOOLEAN,
     locks : SUBSET {"field", "size"}, aids : SUBSET {"override", "tracking"},
     selected : SUBSET Ids, captured : Sketches,
     preview : Motions \cup {None}, explicit : Motions \cup {None},
     boundaries : SUBSET Ids, target : Ids \cup {None}, grip : Grips \cup {None}]

StagesOf(tool) ==
    CASE tool = "line" -> {"first_point", "next_point"}
      [] tool = "circle" -> {"center", "radius"}
      [] tool = "arc" -> {"start", "end", "arc_point"}
      [] tool = "rectangle" -> {"first_corner", "opposite_corner"}
      [] tool \in {"move", "copy"} -> {"objects", "base_point", "destination"}
      [] tool \in {"rotate", "scale"} ->
            {"objects", "base_point", "reference_point", "destination"}
      [] tool = "mirror" -> {"objects", "axis_start", "axis_end"}
      [] tool = "measure" -> {"single", "between"}
      [] OTHER -> {"none"}

\* What is set goes with the tool and its stage.
Coherent(s) ==
    /\ s.stage \in StagesOf(s.tool)
    /\ s.grip # None => s.tool = "select" /\ s.grip.id \in DOMAIN s.captured
    /\ s.pending => s.stage \in {"radius", "opposite_corner"}
    /\ s.captured # NoShapes =>
         s.grip # None \/ (s.tool \in TransformTools /\ s.stage # "objects")
    /\ s.boundaries # {} =>
         s.tool \in {"trim", "extend"} /\ s.selected \subseteq s.boundaries
    /\ s.target # None => s.tool \in {"measure", "extend_both"}

\* Nothing that is held is gone.
Holds(s, p) ==
    /\ s.selected \subseteq Live(p)
    /\ s.boundaries \subseteq Live(p)
    /\ s.target # None => s.target \in Live(p)
    /\ DOMAIN s.captured \subseteq Live(p)

Controller(c) ==
    c = [on |-> c.on, transform |-> c.transform, grip |-> c.grip,
         rectangle |-> c.rectangle, structural |-> c.structural,
         keep |-> c.keep, profile |-> c.profile, told |-> c.told]

\* What is remembered is remembered for the edit under way, at the present
\* revision, and then what was captured is still so.
Remembers(s, c, p) ==
    /\ c.transform # None => c.transform = p.revision /\ s.tool \in TransformTools
    /\ c.grip # None => c.grip = p.revision /\ s.grip # None
    /\ c.structural # None => c.structural = p.revision /\ s.tool \in StructuralTools
    /\ c.rectangle \in Revisions \cup {None}
    /\ s.tool = "rectangle" => c.rectangle \in {p.revision, None}
    /\ c.profile # None => /\ s.tool = "select" /\ s.grip = None
                           /\ c.profile \in Profiles
    /\ Revision(s, c) # None =>
         \A id \in DOMAIN s.captured : s.captured[id] = Content(p)[id]

\* A closed sketch is not edited.
Rests(s, c) ==
    ~c.on => /\ s = Fresh("select", {})
             /\ c.transform = None /\ c.grip = None /\ c.rectangle = None
             /\ c.structural = None /\ c.profile = None

Sketching(s, c, p) ==
    /\ Document(p) /\ s \in Interactions /\ Coherent(s) /\ Controller(c)
    /\ Holds(s, p) /\ Remembers(s, c, p) /\ Rests(s, c)

\* What was last told is so, but for a request since left unanswered; and a
\* text answers the question that is asked.
Telling ==
    /\ ctl.on => \/ ctl.told = Fingerprint(edit, ctl, part)
                 \/ edit.pending /\ ctl.told =
                        Fingerprint([edit EXCEPT !.pending = FALSE], ctl, part)
    /\ buffer # None => ctl.on /\ buffer = Asked(edit, ctl)

SketchInv == Sketching(edit, ctl, part) /\ Telling
-----------------------------------------------------------------------------
(* The document *)

LEMMA SketchIs ==
    \A f : f \in Sketches <=> DOMAIN f \subseteq Ids /\ f \in [DOMAIN f -> Shapes]
<1> QED
  BY DEF Sketches

LEMMA ContentIs ==
    ASSUME NEW p, Document(p)
    PROVE  /\ Content(p) \in Sketches /\ Live(p) \subseteq Ids
           /\ Live(p) \subseteq 1..(p.next - 1)
           /\ \A id \in Live(p) : Content(p)[id] \in Shapes
           /\ p.revision \in Revisions /\ p.next \in 1..(MaxId + 1)
<1>1. Content(p) \in Sketches
  BY ElementOfSeq DEF Document, Content
<1>2. Live(p) \subseteq 1..(p.next - 1)
  BY DEF Document, Content, Live
<1>3. Content(p) \in [Live(p) -> Shapes] /\ Live(p) \subseteq Ids
  BY <1>1, SketchIs DEF Live
<1> QED
  BY <1>1, <1>2, <1>3 DEF Document

\* The document that a commit leaves.
After(p, content, next) ==
    [revision |-> p.revision + 1,
     timeline |-> Append(SubSeq(p.timeline, 1, p.position), content),
     position |-> p.position + 1,
     next |-> next]

LEMMA CommittedRecord ==
    ASSUME NEW p, Document(p), NEW content
    PROVE  Committed(p, content) = After(p, content, p.next)
<1> DEFINE timeline == Append(SubSeq(p.timeline, 1, p.position), content)
           a == [p EXCEPT !.revision = p.revision + 1]
           b == [a EXCEPT !.timeline = timeline]
<1>1. p = [revision |-> p.revision, timeline |-> p.timeline,
           position |-> p.position, next |-> p.next]
  BY DEF Document
<1>2. a = [revision |-> p.revision + 1, timeline |-> p.timeline,
           position |-> p.position, next |-> p.next]
  BY <1>1
<1>3. Committed(p, content) = [b EXCEPT !.position = p.position + 1]
  BY <1>2 DEF Committed
<1> HIDE DEF a, timeline
<1>4. b = [revision |-> p.revision + 1, timeline |-> timeline,
           position |-> p.position, next |-> p.next]
  BY <1>2
<1> HIDE DEF b
<1>5. Committed(p, content) =
        [revision |-> p.revision + 1, timeline |-> timeline,
         position |-> p.position + 1, next |-> p.next]
  BY <1>3, <1>4
<1> QED
  BY <1>5 DEF After, timeline

LEMMA CommittedIs ==
    ASSUME NEW p, Document(p), Editable(p), NEW content \in Sketches,
           NEW next \in p.next..(MaxId + 1), DOMAIN content \subseteq 1..(next - 1),
           NEW q, q = After(p, content, next)
    PROVE  /\ Document(q) /\ Content(q) = content /\ Live(q) = DOMAIN content
           /\ q.revision = p.revision + 1 /\ q.revision # p.revision /\ q.next = next
<1> DEFINE kept == SubSeq(p.timeline, 1, p.position)
           timeline == Append(kept, content)
<1>1. /\ p.timeline \in Seq(Sketches) /\ p.position \in 1..Len(p.timeline)
      /\ p.revision \in Revisions /\ p.next \in 1..(MaxId + 1) /\ p.position \in Nat
      /\ Len(p.timeline) \in Nat
  BY LenProperties DEF Document
<1>2. /\ kept \in Seq(Sketches) /\ Len(kept) = p.position
      /\ \A i \in 1..p.position : kept[i] = p.timeline[i]
  <2>1. \A i \in 1..p.position : p.timeline[i] \in Sketches
    BY <1>1, ElementOfSeq
  <2>2. /\ kept \in Seq(Sketches)
        /\ Len(kept) = IF 1 <= p.position THEN p.position - 1 + 1 ELSE 0
        /\ \A i \in 1..(p.position - 1 + 1) : kept[i] = p.timeline[1 + i - 1]
    BY <1>1, <2>1, SubSeqProperties
  <2> QED
    BY <1>1, <2>2
<1>3. /\ timeline \in Seq(Sketches) /\ Len(timeline) = p.position + 1
      /\ timeline[p.position + 1] = content
      /\ \A i \in 1..p.position : timeline[i] = p.timeline[i]
  BY <1>1, <1>2
<1>4. MaxId \in Nat /\ MaxRevision \in Nat /\ next \in 1..(MaxId + 1) /\ p.next <= next
  BY <1>1, SketchAssumption
<1> HIDE DEF kept, timeline
<1>5. /\ q \in [revision : Nat, timeline : Seq(Sketches), position : Nat,
                next : 1..(MaxId + 1)]
      /\ q.revision = p.revision + 1 /\ q.timeline = timeline
      /\ q.position = p.position + 1 /\ q.next = next
  <2>6. q = [revision |-> p.revision + 1, timeline |-> timeline,
             position |-> p.position + 1, next |-> next]
    BY DEF After, timeline, kept
  <2>7. p.revision + 1 \in Nat /\ p.position + 1 \in Nat
    BY <1>1 DEF Revisions
  <2>8. timeline \in Seq(Sketches) /\ next \in 1..(MaxId + 1)
    BY <1>3, <1>4
  <2> QED
    BY ONLY <2>6, <2>7, <2>8
<1>6. q.revision \in Revisions
  BY <1>1, <1>4, <1>5 DEF Editable, Revisions
<1>7. \A i \in 1..Len(q.timeline) : DOMAIN q.timeline[i] \subseteq 1..(q.next - 1)
  <2>1. \A i \in 1..p.position : DOMAIN p.timeline[i] \subseteq 1..(p.next - 1)
    BY <1>1 DEF Document
  <2>2. 1..(p.next - 1) \subseteq 1..(next - 1)
    BY <1>1, <1>4
  <2>3. \A i \in 1..(p.position + 1) : i = p.position + 1 \/ i \in 1..p.position
    BY <1>1
  <2> QED
    BY <1>3, <1>5, <2>1, <2>2, <2>3
<1>8. Content(q) = content
  BY <1>1, <1>3, <1>5 DEF Content
<1>9. q \in [revision : Revisions, timeline : Seq(Sketches), position : Nat,
             next : 1..(MaxId + 1)]
  BY <1>5, <1>6
<1>10. Document(q)
  BY <1>1, <1>3, <1>5, <1>7, <1>9 DEF Document
<1>11. q.revision # p.revision
  BY <1>1, <1>4, <1>5 DEF Revisions
<1> QED
  BY <1>5, <1>8, <1>10, <1>11 DEF Live

LEMMA CommittedSketch ==
    ASSUME NEW p, Document(p), Editable(p), NEW content \in Sketches,
           DOMAIN content \subseteq 1..(p.next - 1)
    PROVE  LET q == Committed(p, content)
           IN  /\ Document(q) /\ Content(q) = content /\ Live(q) = DOMAIN content
               /\ q.revision = p.revision + 1 /\ q.revision # p.revision
<1> DEFINE q == Committed(p, content)
<1>1. p.next \in p.next..(MaxId + 1) /\ MaxId \in Nat
  BY SketchAssumption DEF Document
<1>2. q = After(p, content, p.next)
  BY CommittedRecord
<1> HIDE DEF q
<1> QED
  BY <1>1, <1>2, CommittedIs DEF q

LEMMA OverIs ==
    ASSUME NEW f, NEW g
    PROVE  /\ DOMAIN Over(f, g) = DOMAIN f \cup DOMAIN g
           /\ \A id \in DOMAIN f : Over(f, g)[id] = f[id]
           /\ \A id \in DOMAIN g \ DOMAIN f : Over(f, g)[id] = g[id]
           /\ f \in Sketches /\ g \in Sketches => Over(f, g) \in Sketches
<1>1. /\ DOMAIN Over(f, g) = DOMAIN f \cup DOMAIN g
      /\ \A id \in DOMAIN f : Over(f, g)[id] = f[id]
      /\ \A id \in DOMAIN g \ DOMAIN f : Over(f, g)[id] = g[id]
      /\ Over(f, g) = [id \in DOMAIN Over(f, g) |-> Over(f, g)[id]]
  BY DEF Over
<1>2. f \in Sketches /\ g \in Sketches => Over(f, g) \in Sketches
  <2> SUFFICES ASSUME f \in Sketches, g \in Sketches PROVE Over(f, g) \in Sketches
    OBVIOUS
  <2>1. /\ DOMAIN f \subseteq Ids /\ DOMAIN g \subseteq Ids
        /\ \A id \in DOMAIN f : f[id] \in Shapes
        /\ \A id \in DOMAIN g : g[id] \in Shapes
    BY SketchIs
  <2>2. \A id \in DOMAIN Over(f, g) : Over(f, g)[id] \in Shapes
    BY <1>1, <2>1
  <2> DEFINE h == Over(f, g)
  <2>3. DOMAIN h \subseteq Ids /\ h = [id \in DOMAIN h |-> h[id]]
    BY <1>1, <2>1
  <2> HIDE DEF h
  <2>4. h \in [DOMAIN h -> Shapes]
    BY <2>2, <2>3 DEF h
  <2> QED
    BY <2>3, <2>4, SketchIs DEF h
<1> QED
  BY <1>1, <1>2

\* The entities of a finite set of numbers can be counted off.
LEMMA EveryRankIsTaken ==
    ASSUME NEW D, D \subseteq Ids
    PROVE  /\ IsFiniteSet(D) /\ Cardinality(D) \in Nat
           /\ \A i \in 0..(Cardinality(D) - 1) :
                \E j \in D : Cardinality({k \in D : k < j}) = i
<1> DEFINE n == Cardinality(D)
           Below(j) == {k \in D : k < j}
           rank == [j \in D |-> Cardinality(Below(j))]
<1>1. MaxId \in Nat /\ D \subseteq Nat
  BY SketchAssumption DEF Ids
<1>2. IsFiniteSet(D) /\ n \in Nat
  <2>1. IsFiniteSet(Ids)
    BY <1>1, FS_Interval DEF Ids
  <2>2. IsFiniteSet(D)
    BY <2>1, FS_Subset
  <2> QED
    BY <2>2, FS_CardinalityType
<1>3. \A j \in D : /\ IsFiniteSet(Below(j)) /\ Cardinality(Below(j)) \in Nat
                   /\ Cardinality(Below(j)) < n
  <2> SUFFICES ASSUME NEW j \in D
               PROVE  /\ IsFiniteSet(Below(j)) /\ Cardinality(Below(j)) \in Nat
                      /\ Cardinality(Below(j)) < n
    OBVIOUS
  <2>1. Below(j) \in SUBSET D /\ j \notin Below(j)
    BY <1>1
  <2> HIDE DEF Below
  <2>2. /\ IsFiniteSet(Below(j)) /\ Cardinality(Below(j)) <= n
        /\ n = Cardinality(Below(j)) => D = Below(j)
    BY <1>2, <2>1, FS_Subset
  <2>3. Cardinality(Below(j)) \in Nat
    BY <2>2, FS_CardinalityType
  <2> QED
    BY <1>2, <2>1, <2>2, <2>3
<1>4. \A i, j \in D : i < j => Cardinality(Below(i)) < Cardinality(Below(j))
  <2> SUFFICES ASSUME NEW i \in D, NEW j \in D, i < j
               PROVE  Cardinality(Below(i)) < Cardinality(Below(j))
    OBVIOUS
  <2>0. \A k \in D : k < i => k < j
    BY <1>1
  <2>1. Below(i) \in SUBSET Below(j) /\ i \in Below(j) /\ i \notin Below(i)
    <3>1. ~(i < i)
      BY <1>1
    <3> QED
      BY <2>0, <3>1
  <2>2. /\ IsFiniteSet(Below(j)) /\ Cardinality(Below(j)) \in Nat
        /\ Cardinality(Below(i)) \in Nat
    BY <1>3
  <2> HIDE DEF Below
  <2>3. /\ Cardinality(Below(i)) <= Cardinality(Below(j))
        /\ Cardinality(Below(j)) = Cardinality(Below(i)) => Below(j) = Below(i)
    BY <2>1, <2>2, FS_Subset
  <2> QED
    BY <2>1, <2>2, <2>3
<1>5. rank \in [D -> 0..(n - 1)]
  <2>1. \A j \in D : Cardinality(Below(j)) \in 0..(n - 1)
    <3> HIDE DEF Below, n
    <3> QED
      BY <1>2, <1>3
  <2> QED
    BY <2>1
<1>6. \A i, j \in D : rank[i] = rank[j] => i = j
  <2> SUFFICES ASSUME NEW i \in D, NEW j \in D, rank[i] = rank[j] PROVE i = j
    OBVIOUS
  <2>1. Cardinality(Below(i)) = Cardinality(Below(j)) /\ Cardinality(Below(i)) \in Nat
    BY <1>3
  <2> HIDE DEF Below, rank
  <2>2. ~(i < j) /\ ~(j < i)
    BY <1>4, <2>1
  <2> QED
    BY <1>1, <2>2
<1>7. rank \in Injection(D, 0..(n - 1))
  BY <1>5, <1>6 DEF Injection, IsInjective
<1>8. IsFiniteSet(0..(n - 1)) /\ Cardinality(0..(n - 1)) = n
  BY <1>2, FS_Interval
<1>9. rank \in Surjection(D, 0..(n - 1))
  <2> HIDE DEF rank
  <2> QED
    BY <1>7, <1>8, FS_Injection
<1>10. \A i \in 0..(n - 1) : \E j \in D : rank[j] = i
  BY <1>9 DEF Surjection
<1> QED
  BY <1>2, <1>10

\* New entities come beside the others.
LEMMA WithNewIs ==
    ASSUME NEW p, Document(p), NEW content \in Sketches,
           DOMAIN content \subseteq 1..(p.next - 1),
           NEW shapes \in Sketches, Room(p, Cardinality(DOMAIN shapes))
    PROVE  LET q == WithNew(p, content, shapes)
           IN  /\ Document(q) /\ DOMAIN content \subseteq Live(q)
               /\ \A id \in DOMAIN content : Content(q)[id] = content[id]
               /\ q.revision = p.revision + 1 /\ q.revision # p.revision
<1> DEFINE D == DOMAIN shapes
           n == Cardinality(D)
           Nth(i) == CHOOSE j \in D : Cardinality({k \in D : k < j}) = i
           ids == p.next..(p.next + n - 1)
           new == [i \in ids |-> shapes[Nth(i - p.next)]]
           after == Over(new, content)
           q == WithNew(p, content, shapes)
<1>1. D \subseteq Ids /\ \A j \in D : shapes[j] \in Shapes
  BY SketchIs
<1>2. /\ n \in Nat
      /\ \A i \in 0..(n - 1) : \E j \in D : Cardinality({k \in D : k < j}) = i
  BY <1>1, EveryRankIsTaken
<1>3. /\ p.next \in 1..(MaxId + 1) /\ MaxId \in Nat /\ Editable(p)
      /\ p.next + n <= MaxId + 1
  BY SketchAssumption DEF Document, Room
<1>4. \A i \in 0..(n - 1) : Nth(i) \in D
  BY <1>2
<1>5. \A i \in ids : i - p.next \in 0..(n - 1)
  BY <1>2, <1>3
<1>6. new \in Sketches
  <2>1. \A i \in ids : shapes[Nth(i - p.next)] \in Shapes
    BY <1>1, <1>4, <1>5
  <2>2. ids \subseteq Ids
    BY <1>2, <1>3 DEF Ids
  <2> HIDE DEF Nth, ids
  <2>3. new \in [ids -> Shapes] /\ DOMAIN new = ids
    BY <2>1
  <2> HIDE DEF new
  <2> QED
    BY <2>2, <2>3, SketchIs
<1>7. /\ after \in Sketches /\ DOMAIN after = ids \cup DOMAIN content
      /\ \A id \in DOMAIN content \ ids : after[id] = content[id]
  <2>1. DOMAIN new = ids
    OBVIOUS
  <2> HIDE DEF new, ids
  <2>2. /\ DOMAIN Over(new, content) = DOMAIN new \cup DOMAIN content
        /\ \A id \in DOMAIN content \ DOMAIN new : Over(new, content)[id] = content[id]
        /\ Over(new, content) \in Sketches
    BY <1>6, OverIs
  <2> QED
    BY <2>1, <2>2
<1>8. DOMAIN content \cap ids = {}
  BY <1>2, <1>3
<1>9. /\ p.next + n \in p.next..(MaxId + 1)
      /\ DOMAIN after \subseteq 1..(p.next + n - 1)
  <2>1. 1..(p.next - 1) \subseteq 1..(p.next + n - 1) /\ ids \subseteq 1..(p.next + n - 1)
    BY <1>2, <1>3
  <2>2. p.next + n \in p.next..(MaxId + 1)
    BY <1>2, <1>3
  <2> HIDE DEF after, ids, n
  <2> QED
    BY <1>7, <2>1, <2>2
<1>10. q = After(p, after, p.next + n)
  <2> DEFINE c == Committed(p, after)
  <2>1. c = After(p, after, p.next)
    BY CommittedRecord
  <2>2. q = [c EXCEPT !.next = c.next + n]
    BY DEF WithNew
  <2> HIDE DEF c, after, q, n
  <2> QED
    BY <2>1, <2>2 DEF After
<1> HIDE DEF after, q, ids, n
<1>11. /\ Document(q) /\ Content(q) = after /\ Live(q) = DOMAIN after
       /\ q.revision = p.revision + 1 /\ q.revision # p.revision
  <2>0. PICK next : next = p.next + n
    OBVIOUS
  <2>1. /\ next \in p.next..(MaxId + 1) /\ DOMAIN after \subseteq 1..(next - 1)
        /\ q = After(p, after, next)
    <3>1. next \in p.next..(MaxId + 1)
      BY <2>0, <1>9
    <3>2. q = After(p, after, next)
      BY <2>0, <1>10
    <3>3. DOMAIN after \subseteq 1..(next - 1)
      <4>1. 1..(p.next + n - 1) = 1..(next - 1)
        BY <2>0, <1>2, <1>3
      <4> QED
        BY <4>1, <1>9
    <3> QED
      BY <3>1, <3>2, <3>3
  <2> QED
    BY <1>3, <1>7, <2>1, CommittedIs
<1> QED
  BY <1>7, <1>8, <1>11 DEF q

-----------------------------------------------------------------------------
(* The interaction state *)

LEMMA FirstStageIs ==
    ASSUME NEW tool \in AllTools
    PROVE  /\ FirstStage[tool] \in Stages /\ FirstStage[tool] \in StagesOf(tool)
           /\ FirstStage[tool] \notin CreationStages \cup FinalStages
           /\ FirstStage[tool] \notin {"end", "objects", "between", "radius", "arc_point"}
           /\ tool = "select" => FirstStage[tool] = "none"
           /\ tool = "measure" => FirstStage[tool] = "single"
           /\ tool \in TransformTools => FirstStage[tool] \in ReferenceStages
<1>1. FirstStage[tool] =
        CASE tool = "line" -> "first_point"
          [] tool = "circle" -> "center"
          [] tool = "arc" -> "start"
          [] tool = "rectangle" -> "first_corner"
          [] tool = "mirror" -> "axis_start"
          [] tool \in TransformTools \ {"mirror"} -> "base_point"
          [] tool = "measure" -> "single"
          [] OTHER -> "none"
  BY DEF FirstStage
<1>2. FirstStage[tool] \in Stages
  BY DEF Stages
<1>3. tool \in {"select", "measure", "line", "circle", "arc", "rectangle", "trim",
                "extend", "extend_both", "move", "copy", "rotate", "scale", "mirror"}
  BY DEF AllTools, CreationTools, StructuralTools, TransformTools
<1>4. /\ FirstStage[tool] \in StagesOf(tool)
      /\ FirstStage[tool] \notin {"next_point", "radius", "arc_point", "opposite_corner",
                                  "destination", "axis_end", "end", "objects", "between"}
      /\ tool = "select" => FirstStage[tool] = "none"
      /\ tool = "measure" => FirstStage[tool] = "single"
      /\ tool \in TransformTools => FirstStage[tool] \in ReferenceStages
  BY <1>1, <1>3 DEF StagesOf, TransformTools, ReferenceStages
<1> QED
  BY <1>2, <1>4 DEF CreationStages, FinalStages

LEMMA NoShapesIs == NoShapes \in Sketches /\ DOMAIN NoShapes = {}
BY SketchIs DEF NoShapes

LEMMA FreshIs ==
    ASSUME NEW tool \in AllTools, NEW selected \in SUBSET Ids,
           NEW s, s = Fresh(tool, selected)
    PROVE  /\ s \in Interactions /\ Coherent(s)
           /\ s.tool = tool /\ s.stage = FirstStage[tool] /\ ~s.pending
           /\ s.locks = {} /\ s.aids = {} /\ s.selected = selected
           /\ s.captured = NoShapes /\ s.preview = None /\ s.explicit = None
           /\ s.boundaries = {} /\ s.target = None /\ s.grip = None
<1>1. /\ s.tool = tool /\ s.stage = FirstStage[tool] /\ ~s.pending
      /\ s.locks = {} /\ s.aids = {} /\ s.selected = selected
      /\ s.captured = NoShapes /\ s.preview = None /\ s.explicit = None
      /\ s.boundaries = {} /\ s.target = None /\ s.grip = None
  BY DEF Fresh
<1>2. s \in Interactions
  BY FirstStageIs, NoShapesIs DEF Fresh, Interactions
<1>3. Coherent(s)
  BY <1>1, FirstStageIs DEF Coherent
<1> QED
  BY <1>1, <1>2, <1>3

\* What the controller d remembers, as far as it bears on an edit.
Remembering(d, on, transform, grip, rectangle, structural, profile) ==
    /\ Controller(d) /\ (d.on <=> on)
    /\ d.transform = transform /\ d.grip = grip /\ d.rectangle = rectangle
    /\ d.structural = structural /\ d.profile = profile

LEMMA ConfiguredIs ==
    ASSUME NEW s, NEW c, Controller(c),
           NEW d, d = Configured(s, c)
    PROVE  Remembering(d, c.on, c.transform, c.grip, c.rectangle,
                IF s.tool \in StructuralTools THEN c.structural ELSE None, c.profile)
BY DEF Configured, Controller, Remembering

LEMMA ActivatedIs ==
    ASSUME NEW s, NEW c, Controller(c), NEW p,
           NEW d, d = Activated(c, s, p)
    PROVE  Remembering(d, c.on,
                IF s.tool \in TransformTools /\ s.stage # "objects"
                THEN p.revision ELSE None,
                None, None,
                IF s.tool \in StructuralTools /\ s.boundaries # {}
                THEN p.revision ELSE None,
                None)
<1> DEFINE transform == IF s.tool \in TransformTools /\ s.stage # "objects"
                        THEN p.revision ELSE None
           structural == IF s.boundaries # {} THEN p.revision ELSE None
           configured == IF s.tool \in StructuralTools THEN structural ELSE None
           keep == s.tool = "mirror"
           e == [on |-> c.on, transform |-> transform, grip |-> None,
                 rectangle |-> None, structural |-> structural, keep |-> keep,
                 profile |-> None, told |-> c.told]
<1>1. d = Configured(s, e)
  BY DEF Activated
<1> HIDE DEF transform, structural, keep
<1>2. /\ Controller(e) /\ (e.on <=> c.on) /\ e.grip = None /\ e.rectangle = None
      /\ e.profile = None /\ e.transform = transform /\ e.structural = structural
  BY DEF Controller
<1> HIDE DEF e
<1>3. Remembering(d, e.on, e.transform, e.grip, e.rectangle,
            IF s.tool \in StructuralTools THEN e.structural ELSE None, e.profile)
  BY <1>1, <1>2, ConfiguredIs
<1>4. Remembering(d, c.on, transform, None, None, configured, None)
  <2> HIDE DEF configured
  <2>1. configured = IF s.tool \in StructuralTools THEN e.structural ELSE None
    BY <1>2 DEF configured
  <2> QED
    BY <1>2, <1>3, <2>1 DEF Remembering
<1>5. configured = IF s.tool \in StructuralTools /\ s.boundaries # {}
                   THEN p.revision ELSE None
  BY DEF structural
<1> HIDE DEF configured
<1> QED
  BY <1>4, <1>5 DEF transform

LEMMA ForgettingIs ==
    ASSUME NEW c, NEW d, d = Forgetting(c)
    PROVE  Remembering(d, c.on, None, None, None, c.structural, None)
BY DEF Forgetting, Controller, Remembering

LEMMA WithProfileIs ==
    ASSUME NEW c, Controller(c), NEW profile, NEW d, d = [c EXCEPT !.profile = profile]
    PROVE  Remembering(d, c.on, c.transform, c.grip, c.rectangle, c.structural, profile)
BY DEF Controller, Remembering

LEMMA WithToldIs ==
    ASSUME NEW c, Controller(c), NEW told, NEW d, d = [c EXCEPT !.told = told]
    PROVE  /\ Remembering(d, c.on, c.transform, c.grip, c.rectangle, c.structural, c.profile)
           /\ d.told = told
BY DEF Controller, Remembering

LEMMA WithRevisionIs ==
    ASSUME NEW s, NEW c, Controller(c), NEW revision, NEW d, d = WithRevision(s, c, revision)
    PROVE  Remembering(d, c.on,
                IF s.grip # None THEN c.transform ELSE revision,
                IF s.grip # None THEN revision ELSE c.grip,
                c.rectangle, c.structural, c.profile)
BY DEF WithRevision, Controller, Remembering

LEMMA WithKeepIs ==
    ASSUME NEW c, Controller(c), NEW keep, NEW d, d = [c EXCEPT !.keep = keep]
    PROVE  Remembering(d, c.on, c.transform, c.grip, c.rectangle, c.structural, c.profile)
BY DEF Controller, Remembering

-----------------------------------------------------------------------------
(* Sketches under edit: what a handler leaves fits together *)

LEMMA TakingUp ==
    ASSUME NEW s, NEW c, NEW p, Sketching(s, c, p)
    PROVE  /\ Document(p) /\ s \in Interactions /\ Coherent(s) /\ Controller(c)
           /\ Holds(s, p) /\ Remembers(s, c, p) /\ Rests(s, c)
           /\ p.revision \in Revisions /\ Live(p) \subseteq Ids
           /\ s.selected \subseteq Live(p) /\ s.tool \in AllTools
BY ContentIs DEF Sketching, Holds, Interactions

\* What it remembers is told by the fields that count.
LEMMA FreshSketching ==
    ASSUME NEW p, Document(p), NEW c, Controller(c), c.on,
           NEW tool \in AllTools, NEW selected \in SUBSET Live(p),
           c.transform \in {None, p.revision}, c.grip = None,
           c.transform # None => tool \in TransformTools,
           c.structural # None => c.structural = p.revision /\ tool \in StructuralTools,
           c.rectangle \in Revisions \cup {None},
           tool = "rectangle" => c.rectangle \in {p.revision, None},
           c.profile # None =>
                tool = "select" /\ c.profile \in Profiles
    PROVE  Sketching(Fresh(tool, selected), c, p)
<1> DEFINE s == Fresh(tool, selected)
<1>1. selected \in SUBSET Ids
  BY ContentIs
<1>2. /\ s \in Interactions /\ Coherent(s) /\ s.tool = tool /\ s.selected = selected
      /\ s.captured = NoShapes /\ s.boundaries = {} /\ s.target = None /\ s.grip = None
  <2> HIDE DEF s
  <2> QED
    BY <1>1, FreshIs DEF s
<1> HIDE DEF s
<1>3. Holds(s, p)
  BY <1>2, NoShapesIs DEF Holds
<1>4. Remembers(s, c, p)
  BY <1>2, NoShapesIs DEF Remembers
<1>5. Rests(s, c)
  BY DEF Rests
<1> QED
  BY <1>2, <1>3, <1>4, <1>5 DEF Sketching, s

LEMMA CapturedIs ==
    ASSUME NEW p, Document(p), NEW ids, ids \subseteq Live(p)
    PROVE  LET captured == Capture(Content(p), ids)
           IN  /\ captured \in Sketches /\ DOMAIN captured = ids
               /\ \A id \in ids : captured[id] = Content(p)[id]
<1> DEFINE captured == Capture(Content(p), ids)
<1>1. DOMAIN captured = ids /\ \A id \in ids : captured[id] = Content(p)[id]
  BY DEF Capture
<1>2. ids \subseteq Ids /\ \A id \in ids : Content(p)[id] \in Shapes
  BY ContentIs
<1>3. captured \in [ids -> Shapes]
  BY <1>2 DEF Capture
<1> HIDE DEF captured
<1>4. captured \in Sketches
  BY <1>1, <1>2, <1>3, SketchIs
<1> QED
  BY <1>1, <1>4 DEF captured

LEMMA TransformTaken ==
    ASSUME NEW s, NEW c, NEW p, Sketching(s, c, p), c.on,
           NEW tool \in TransformTools,
           NEW t, t = ActivateTransform(s, tool, Content(p)),
           NEW d, d = Activated(c, t, p)
    PROVE  Sketching(t, d, p)
<1> DEFINE f == Fresh(tool, s.selected)
<1>0. /\ Document(p) /\ Controller(c) /\ s.selected \in SUBSET Live(p)
      /\ s.selected \in SUBSET Ids /\ tool \in AllTools /\ "select" \in AllTools
      /\ tool \notin StructuralTools /\ tool # "select" /\ tool # "rectangle"
  BY TakingUp DEF AllTools, TransformTools, StructuralTools
<1>1. /\ Controller(d) /\ (d.on <=> c.on) /\ d.grip = None /\ d.rectangle = None
      /\ d.profile = None
      /\ d.transform # None =>
           d.transform = p.revision /\ t.tool \in TransformTools /\ t.stage # "objects"
      /\ d.structural # None => d.structural = p.revision /\ t.tool \in StructuralTools
  <2>1. Remembering(d, c.on,
            IF t.tool \in TransformTools /\ t.stage # "objects" THEN p.revision ELSE None,
            None, None,
            IF t.tool \in StructuralTools /\ t.boundaries # {} THEN p.revision ELSE None,
            None)
    BY <1>0, ActivatedIs
  <2> QED
    BY <2>1 DEF Remembering
<1>2. /\ f \in Interactions /\ Coherent(f) /\ f.tool = tool
      /\ f.stage = FirstStage[tool] /\ ~f.pending
      /\ f.selected = s.selected /\ f.captured = NoShapes
      /\ f.boundaries = {} /\ f.target = None /\ f.grip = None
  <2> HIDE DEF f
  <2> QED
    BY <1>0, FreshIs DEF f
<1> HIDE DEF f
<1>3. CASE s.selected = {}
  <2>1. t = [f EXCEPT !.stage = "objects"]
    BY <1>3 DEF ActivateTransform, Activate, Capturable, f
  <2>2. t \in Interactions /\ t.tool = tool /\ t.stage = "objects" /\ ~t.pending
        /\ t.selected = s.selected /\ t.captured = NoShapes
        /\ t.boundaries = {} /\ t.target = None /\ t.grip = None
    BY <1>2, <2>1 DEF Interactions, Stages
  <2>3. Coherent(t)
    BY <1>0, <2>2 DEF Coherent, StagesOf, TransformTools
  <2>4. Holds(t, p)
    BY <1>0, <2>2, NoShapesIs DEF Holds
  <2>6. Remembers(t, d, p)
    BY <1>0, <1>1, <2>2 DEF Remembers, Revision
  <2>7. Rests(t, d)
    BY <1>1 DEF Rests
  <2> QED
    BY <1>0, <1>1, <2>2, <2>3, <2>4, <2>6, <2>7 DEF Sketching
<1>4. CASE s.selected # {}
  <2>1. t = [f EXCEPT !.captured = Capture(Content(p), s.selected)]
    BY <1>0, <1>4 DEF ActivateTransform, Activate, Capturable, f, Live
  <2> DEFINE captured == Capture(Content(p), s.selected)
  <2>2. /\ captured \in Sketches /\ DOMAIN captured = s.selected
        /\ \A id \in s.selected : captured[id] = Content(p)[id]
    BY <1>0, CapturedIs
  <2> HIDE DEF captured
  <2>3. t \in Interactions /\ t.tool = tool /\ t.stage = f.stage /\ ~t.pending
        /\ t.selected = s.selected /\ t.captured = captured
        /\ t.boundaries = {} /\ t.target = None /\ t.grip = None
    BY <1>2, <2>1, <2>2 DEF Interactions, captured
  <2>4. f.stage # "objects"
    BY <1>0, <1>2, FirstStageIs
  <2>5. Coherent(t)
    BY <1>0, <1>2, <2>3, <2>4 DEF Coherent
  <2>6. Holds(t, p)
    BY <1>0, <2>2, <2>3 DEF Holds
  <2>8. Remembers(t, d, p)
    BY <1>0, <1>1, <2>2, <2>3 DEF Remembers
  <2>9. Rests(t, d)
    BY <1>1 DEF Rests
  <2> QED
    BY <1>0, <1>1, <2>3, <2>5, <2>6, <2>8, <2>9 DEF Sketching
<1> QED
  BY <1>3, <1>4

LEMMA StructuralTaken ==
    ASSUME NEW s, NEW c, NEW p, Sketching(s, c, p), c.on,
           NEW tool \in StructuralTools,
           NEW t, t = ActivateStructural(s, tool),
           NEW d, d = Activated(c, t, p)
    PROVE  Sketching(t, d, p)
<1> DEFINE f == Fresh(tool, s.selected)
<1>0. /\ Document(p) /\ Controller(c) /\ s.selected \in SUBSET Live(p)
      /\ s.selected \in SUBSET Ids /\ tool \in AllTools
      /\ {} \in SUBSET Live(p) /\ {} \in SUBSET Ids
      /\ tool \notin TransformTools /\ tool # "select" /\ tool # "rectangle"
      /\ tool \in {"trim", "extend", "extend_both"}
  BY TakingUp DEF AllTools, TransformTools, StructuralTools
<1>1. Remembering(d, c.on,
          IF t.tool \in TransformTools /\ t.stage # "objects" THEN p.revision ELSE None,
          None, None,
          IF t.tool \in StructuralTools /\ t.boundaries # {} THEN p.revision ELSE None,
          None)
  BY <1>0, ActivatedIs
<1>2. CASE tool = "extend_both"
  <2>1. t = Fresh(tool, {})
    BY <1>2 DEF ActivateStructural
  <2>2. t.tool = tool /\ t.boundaries = {}
    BY <1>0, <2>1, FreshIs
  <2>3. /\ Controller(d) /\ d.on /\ d.transform = None /\ d.grip = None
        /\ d.rectangle = None /\ d.structural = None /\ d.profile = None
    BY <1>0, <1>1, <2>2 DEF Remembering
  <2> QED
    BY <1>0, <2>1, <2>3, FreshSketching
<1>3. CASE tool # "extend_both"
  <2>1. /\ f \in Interactions /\ Coherent(f) /\ f.tool = tool /\ ~f.pending
        /\ f.selected = s.selected /\ f.captured = NoShapes
        /\ f.target = None /\ f.grip = None
    <3> HIDE DEF f
    <3> QED
      BY <1>0, FreshIs DEF f
  <2>2. t = [f EXCEPT !.boundaries = s.selected]
    BY <1>3 DEF ActivateStructural, Activate
  <2> HIDE DEF f
  <2>3. t \in Interactions /\ t.tool = tool /\ t.stage = f.stage /\ ~t.pending
        /\ t.selected = s.selected /\ t.captured = NoShapes
        /\ t.boundaries = s.selected /\ t.target = None /\ t.grip = None
    BY <1>0, <2>1, <2>2 DEF Interactions
  <2>4. Coherent(t)
    BY <1>0, <1>3, <2>1, <2>3 DEF Coherent
  <2>5. Holds(t, p)
    BY <1>0, <2>3, NoShapesIs DEF Holds
  <2>6. /\ Controller(d) /\ d.on /\ d.transform = None /\ d.grip = None
        /\ d.rectangle = None /\ d.structural \in {None, p.revision} /\ d.profile = None
    BY <1>0, <1>1, <2>3 DEF Remembering
  <2>7. Remembers(t, d, p)
    BY <1>0, <2>3, <2>6 DEF Remembers, Revision
  <2>8. Rests(t, d)
    BY <2>6 DEF Rests
  <2> QED
    BY <1>0, <2>3, <2>4, <2>5, <2>6, <2>7, <2>8 DEF Sketching
<1> QED
  BY <1>2, <1>3

LEMMA MeasureTaken ==
    ASSUME NEW s, NEW c, NEW p, Sketching(s, c, p), c.on,
           NEW t, t = ActivateMeasure(s, Content(p)),
           NEW d, d = Activated(c, t, p)
    PROVE  Sketching(t, d, p)
<1> DEFINE f == Fresh("measure", s.selected)
           target == IF Cardinality(s.selected) = 1 /\ s.selected \subseteq DOMAIN Content(p)
                     THEN CHOOSE id \in s.selected : TRUE ELSE None
<1>0. /\ Document(p) /\ Controller(c) /\ s.selected \in SUBSET Live(p)
      /\ s.selected \in SUBSET Ids /\ "measure" \in AllTools
      /\ "measure" \notin TransformTools /\ "measure" \notin StructuralTools
  BY TakingUp DEF AllTools, TransformTools, StructuralTools
<1>1. Remembering(d, c.on,
          IF t.tool \in TransformTools /\ t.stage # "objects" THEN p.revision ELSE None,
          None, None,
          IF t.tool \in StructuralTools /\ t.boundaries # {} THEN p.revision ELSE None,
          None)
  BY <1>0, ActivatedIs
<1>2. /\ f \in Interactions /\ Coherent(f) /\ f.tool = "measure" /\ ~f.pending
      /\ f.selected = s.selected /\ f.captured = NoShapes
      /\ f.boundaries = {} /\ f.grip = None
  <2> HIDE DEF f
  <2> QED
    BY <1>0, FreshIs DEF f
<1>3. t = [f EXCEPT !.target = target]
  BY DEF ActivateMeasure, Activate
<1>4. target \in s.selected \cup {None}
  <2>1. CASE Cardinality(s.selected) = 1
    <3>1. s.selected # {}
      BY <2>1, FS_EmptySet
    <3> QED
      BY <3>1
  <2> QED
    BY <2>1
<1> HIDE DEF f, target
<1>5. t \in Interactions /\ t.tool = "measure" /\ t.stage = f.stage /\ ~t.pending
      /\ t.selected = s.selected /\ t.captured = NoShapes
      /\ t.boundaries = {} /\ t.target = target /\ t.grip = None
  BY <1>0, <1>2, <1>3, <1>4 DEF Interactions
<1>6. Coherent(t)
  BY <1>2, <1>5 DEF Coherent
<1>7. Holds(t, p)
  BY <1>0, <1>4, <1>5, NoShapesIs DEF Holds
<1>8. /\ Controller(d) /\ d.on /\ d.transform = None /\ d.grip = None
      /\ d.rectangle = None /\ d.structural = None /\ d.profile = None
  BY <1>0, <1>1, <1>5 DEF Remembering
<1>9. Remembers(t, d, p)
  BY <1>5, <1>8 DEF Remembers, Revision
<1>10. Rests(t, d)
  BY <1>8 DEF Rests
<1> QED
  BY <1>0, <1>5, <1>6, <1>7, <1>8, <1>9, <1>10 DEF Sketching

LEMMA ToolTaken ==
    ASSUME NEW s, NEW c, NEW p, Sketching(s, c, p), c.on, NEW tool \in AllTools,
           NEW t, t = ToolState(s, tool, p),
           NEW d, d = Activated(c, t, p)
    PROVE  Sketching(t, d, p)
<1>1. CASE tool \in TransformTools
  <2>1. t = ActivateTransform(s, tool, Content(p))
    BY <1>1 DEF ToolState, TransformTools, StructuralTools
  <2> QED
    BY <1>1, <2>1, TransformTaken
<1>2. CASE tool \in StructuralTools
  <2>1. t = ActivateStructural(s, tool)
    BY <1>2 DEF ToolState, TransformTools, StructuralTools
  <2> QED
    BY <1>2, <2>1, StructuralTaken
<1>3. CASE tool = "measure"
  <2>1. t = ActivateMeasure(s, Content(p))
    BY <1>3 DEF ToolState, TransformTools, StructuralTools
  <2> QED
    BY <2>1, MeasureTaken
<1>4. CASE tool \notin TransformTools \cup StructuralTools \cup {"measure"}
  <2>0. /\ Document(p) /\ Controller(c) /\ s.selected \in SUBSET Live(p)
        /\ s.selected \in SUBSET Ids
    BY TakingUp
  <2>1. t = Fresh(tool, s.selected)
    BY <1>4 DEF ToolState, Activate
  <2>2. t.tool = tool
    BY <2>0, <2>1, FreshIs
  <2>3. Remembering(d, c.on,
            IF t.tool \in TransformTools /\ t.stage # "objects" THEN p.revision ELSE None,
            None, None,
            IF t.tool \in StructuralTools /\ t.boundaries # {} THEN p.revision ELSE None,
            None)
    BY <2>0, ActivatedIs
  <2>4. /\ Controller(d) /\ d.on /\ d.transform = None /\ d.grip = None
        /\ d.rectangle = None /\ d.structural = None /\ d.profile = None
    BY <1>4, <2>2, <2>3 DEF Remembering
  <2> QED
    BY <2>0, <2>1, <2>4, FreshSketching
<1> QED
  BY <1>1, <1>2, <1>3, <1>4

LEMMA SelectedLess ==
    ASSUME NEW s \in Interactions, NEW ids \in SUBSET s.selected,
           NEW t, t = [s EXCEPT !.selected = ids]
    PROVE  /\ t \in Interactions /\ t.selected = ids
           /\ Coherent(s) => Coherent(t)
           /\ t.tool = s.tool /\ t.stage = s.stage /\ t.pending = s.pending
           /\ t.captured = s.captured /\ t.boundaries = s.boundaries
           /\ t.target = s.target /\ t.grip = s.grip
<1>1. /\ t \in Interactions /\ t.selected = ids
      /\ t.tool = s.tool /\ t.stage = s.stage /\ t.pending = s.pending
      /\ t.captured = s.captured /\ t.boundaries = s.boundaries
      /\ t.target = s.target /\ t.grip = s.grip
  BY DEF Interactions
<1> QED
  BY <1>1 DEF Coherent

LEMMA FreshReconciled ==
    ASSUME NEW p, NEW selected,
           NEW t, t = ReconcileSelection(Fresh("select", selected), Content(p))
    PROVE  t = Fresh("select", selected \cap Live(p))
<1> DEFINE f == Fresh("select", selected)
<1>1. f.grip = None /\ f.tool = "select" /\ f.selected = selected
  BY DEF Fresh
<1>2. t = [f EXCEPT !.selected = selected \cap Live(p)]
  <2> HIDE DEF f
  <2> QED
    BY <1>1 DEF ReconcileSelection, SelectionMutable, TransformTools, Live, f
<1> QED
  BY <1>2 DEF Fresh

LEMMA SelectSketching ==
    ASSUME NEW p, Document(p), NEW c, Controller(c), c.on,
           c.transform = None, c.grip = None, c.structural = None,
           c.rectangle \in Revisions \cup {None},
           c.profile # None => c.profile \in Profiles,
           NEW selected \in SUBSET Live(p)
    PROVE  Sketching(Fresh("select", selected), c, p)
<1>1. "select" \in AllTools
  BY DEF AllTools
<1> QED
  BY <1>1, FreshSketching

\* The edit is put down and Select taken, over a document that has changed.
LEMMA PutDown ==
    ASSUME NEW p, Document(p), NEW c, Controller(c), c.on, NEW s,
           NEW r, r = Reconciled(ToSelect(s), c, p)
    PROVE  Sketching(r.s, r.c, r.p) /\ r.c.on /\ r.p = p /\ r.s.tool = "select"
<1> DEFINE f == Forgetting(c)
           t == ReconcileSelection(ToSelect(s), Content(p))
           v == ToSelect(s)
           d == Configured(v, f)
<1>1. r = Result(t, d, p)
  BY DEF Reconciled
<1>2. t = Fresh("select", s.selected \cap Live(p))
  BY FreshReconciled DEF ToSelect, Activate
<1>3. Remembering(f, c.on, None, None, None, c.structural, None)
  BY ForgettingIs
<1>4. Controller(f) /\ f.on /\ f.transform = None /\ f.grip = None
      /\ f.rectangle = None /\ f.profile = None
  BY <1>3 DEF Remembering
<1>5. v.tool \notin StructuralTools
  BY DEF ToSelect, Activate, Fresh, StructuralTools
<1> HIDE DEF f, t, v
<1>6. Remembering(d, f.on, f.transform, f.grip, f.rectangle, None, f.profile)
  BY <1>4, <1>5, ConfiguredIs
<1> HIDE DEF d
<1>7. /\ Controller(d) /\ d.on /\ d.transform = None /\ d.grip = None
      /\ d.rectangle = None /\ d.structural = None /\ d.profile = None
  BY <1>4, <1>6 DEF Remembering
<1>8. Sketching(t, d, p)
  BY <1>2, <1>7, SelectSketching
<1>9. t.tool = "select"
  BY <1>2 DEF Fresh
<1> QED
  BY <1>1, <1>7, <1>8, <1>9 DEF Result

\* What it holds is still there: the edit goes on, without its revision.
LEMMA KeptInSketch ==
    ASSUME NEW s, NEW c, NEW p, Sketching(s, c, p), c.on,
           NEW r, r = Reconciled(s, c, p)
    PROVE  /\ Sketching(r.s, r.c, r.p) /\ r.c.on /\ r.p = p
           /\ r.s.pending = s.pending
<1> DEFINE f == Forgetting(c)
           t == ReconcileSelection(s, Content(p))
           d == Configured(s, f)
<1>0. /\ Document(p) /\ s \in Interactions /\ Coherent(s) /\ Controller(c)
      /\ Holds(s, p) /\ Remembers(s, c, p) /\ s.selected \subseteq Live(p)
  BY TakingUp
<1>1. r = Result(t, d, p)
  BY DEF Reconciled
<1>2. /\ t \in Interactions /\ Coherent(t) /\ Holds(t, p)
      /\ t.tool = s.tool /\ t.grip = s.grip /\ t.pending = s.pending
  <2> DEFINE u == [s EXCEPT !.selected = s.selected \cap Live(p)]
  <2>1. s.selected \cap Live(p) \in SUBSET s.selected
    OBVIOUS
  <2>2. /\ u \in Interactions /\ u.selected = s.selected \cap Live(p)
        /\ Coherent(u) /\ u.tool = s.tool /\ u.grip = s.grip /\ u.pending = s.pending
        /\ u.captured = s.captured /\ u.boundaries = s.boundaries /\ u.target = s.target
    BY <1>0, <2>1, SelectedLess
  <2>3. t \in {u, s}
    BY DEF ReconcileSelection, Live
  <2> HIDE DEF u, t
  <2>4. Holds(u, p)
    BY <1>0, <2>2 DEF Holds
  <2> QED
    BY <1>0, <2>2, <2>3, <2>4
<1>3. Remembering(f, c.on, None, None, None, c.structural, None)
  BY ForgettingIs
<1>4. Controller(f) /\ f.on /\ f.transform = None /\ f.grip = None
      /\ f.rectangle = None /\ f.profile = None /\ f.structural = c.structural
  BY <1>3 DEF Remembering
<1> HIDE DEF f, t
<1>6. Remembering(d, f.on, f.transform, f.grip, f.rectangle,
          IF s.tool \in StructuralTools THEN f.structural ELSE None, f.profile)
  BY <1>4, ConfiguredIs
<1> HIDE DEF d
<1>7. /\ Controller(d) /\ d.on /\ d.transform = None /\ d.grip = None
      /\ d.rectangle = None /\ d.profile = None
      /\ d.structural # None => d.structural = c.structural /\ t.tool \in StructuralTools
  BY <1>2, <1>4, <1>6 DEF Remembering
<1>8. Remembers(t, d, p)
  BY <1>0, <1>2, <1>7 DEF Remembers, Revision
<1>9. Rests(t, d)
  BY <1>7 DEF Rests
<1>10. Sketching(t, d, p)
  BY <1>0, <1>2, <1>7, <1>8, <1>9 DEF Sketching
<1> QED
  BY <1>1, <1>2, <1>7, <1>10 DEF Result

\* Select is taken after a change of the document that takes nothing away.
LEMMA Projected ==
    ASSUME NEW s, NEW c, NEW p, Sketching(s, c, p), c.on,
           NEW q, Document(q), Live(p) \subseteq Live(q),
           NEW r, r = Reconciled(s, c, q),
           NEW t, t = Activate(r.s, "select"),
           NEW d, d = Activated(r.c, t, q)
    PROVE  Sketching(t, d, q) /\ d.on
<1> DEFINE f == Forgetting(c)
           u == ReconcileSelection(s, Content(q))
           e == Configured(s, f)
<1>0. s \in Interactions /\ s.selected \subseteq Live(p) /\ Controller(c)
  BY TakingUp
<1>1. r.s = u /\ r.c = e
  BY DEF Reconciled, Result
<1>2. u.selected \in SUBSET Live(q)
  <2>1. u \in {s, [s EXCEPT !.selected = s.selected \cap Live(q)]}
    BY DEF ReconcileSelection, Live
  <2> QED
    BY <1>0, <2>1 DEF Interactions
<1>3. t = Fresh("select", u.selected)
  BY <1>1 DEF Activate
<1>4. t.tool = "select"
  BY <1>3 DEF Fresh
<1>5. Remembering(f, c.on, None, None, None, c.structural, None)
  BY ForgettingIs
<1>6. Controller(f) /\ f.on
  BY <1>5 DEF Remembering
<1> HIDE DEF f, u
<1>7. Remembering(e, f.on, f.transform, f.grip, f.rectangle,
          IF s.tool \in StructuralTools THEN f.structural ELSE None, f.profile)
  BY <1>6, ConfiguredIs
<1>8. Controller(e) /\ e.on
  BY <1>6, <1>7 DEF Remembering
<1> HIDE DEF e
<1>9. Remembering(d, e.on,
          IF t.tool \in TransformTools /\ t.stage # "objects" THEN q.revision ELSE None,
          None, None,
          IF t.tool \in StructuralTools /\ t.boundaries # {} THEN q.revision ELSE None,
          None)
  BY <1>1, <1>8, ActivatedIs
<1>10. t.tool \notin TransformTools /\ t.tool \notin StructuralTools
  BY <1>4 DEF TransformTools, StructuralTools
<1>11. /\ Controller(d) /\ d.on /\ d.transform = None /\ d.grip = None
       /\ d.rectangle = None /\ d.structural = None /\ d.profile = None
  BY <1>8, <1>9, <1>10 DEF Remembering
<1> QED
  BY <1>2, <1>3, <1>11, SelectSketching

\* A step of a tool that leaves what is held alone.
LEMMA SameEdit ==
    ASSUME NEW s, NEW c, NEW p, Sketching(s, c, p), c.on,
           NEW t \in Interactions, Coherent(t), t.tool = s.tool,
           t.selected = s.selected, t.captured = s.captured,
           t.boundaries = s.boundaries, t.target = s.target,
           t.grip = None <=> s.grip = None
    PROVE  Sketching(t, c, p)
<1>1. Holds(t, p)
  BY DEF Holds, Sketching
<1>2. Remembers(t, c, p)
  BY DEF Remembers, Revision, Sketching
<1>3. Rests(t, c)
  BY DEF Rests
<1> QED
  BY <1>1, <1>2, <1>3 DEF Sketching

LEMMA IdentityIs == Identity \in Motions
<1> DEFINE f == [a \in Shapes |-> a]
<1>1. f \in [Shapes -> Shapes] /\ \A a \in Shapes : f[a] = a
  OBVIOUS
<1> HIDE DEF f
<1>2. f \in Motions
  BY <1>1 DEF Motions
<1> QED
  BY <1>1, <1>2 DEF Identity

-----------------------------------------------------------------------------
(* The commands an edit ends with *)

LEMMA EndedIs ==
    ASSUME NEW s, NEW c, NEW p, Sketching(s, c, p), c.on,
           NEW q, Document(q), NEW r, r = Ended(s, c, q)
    PROVE  Sketching(r.s, r.c, r.p) /\ r.c.on /\ r.p = q
<1> DEFINE t == ToSelect(s)
           u == ReconcileSelection(t, Content(q))
           e == WithRevision(s, c, None)
           f == [e EXCEPT !.keep = FALSE]
           d == Configured(t, f)
<1>0. Controller(c) /\ Remembers(s, c, p) /\ Coherent(s)
  BY TakingUp
<1>1. r = Result(u, d, q)
  BY DEF Ended, FinishGrip
<1>2. u = Fresh("select", s.selected \cap Live(q))
  BY FreshReconciled DEF ToSelect, Activate
<1>3. t.tool \notin StructuralTools
  BY DEF ToSelect, Activate, Fresh, StructuralTools
<1> HIDE DEF t, u
<1>4. Remembering(e, c.on,
          IF s.grip # None THEN c.transform ELSE None,
          IF s.grip # None THEN None ELSE c.grip,
          c.rectangle, c.structural, c.profile)
  BY <1>0, WithRevisionIs
<1>5. s.grip # None => c.transform = None
  BY <1>0 DEF Remembers, Coherent, TransformTools
<1>6. s.grip = None => c.grip = None
  BY <1>0 DEF Remembers
<1>7. /\ Controller(e) /\ e.on /\ e.transform = None /\ e.grip = None
      /\ e.rectangle = c.rectangle /\ e.profile = c.profile
  BY <1>4, <1>5, <1>6 DEF Remembering
<1> HIDE DEF e
<1>8. Remembering(f, e.on, e.transform, e.grip, e.rectangle, e.structural, e.profile)
  BY <1>7, WithKeepIs
<1>9. /\ Controller(f) /\ f.on /\ f.transform = None /\ f.grip = None
      /\ f.rectangle = c.rectangle /\ f.profile = c.profile
  BY <1>7, <1>8 DEF Remembering
<1> HIDE DEF f
<1>10. Remembering(d, f.on, f.transform, f.grip, f.rectangle, None, f.profile)
  BY <1>3, <1>9, ConfiguredIs
<1> HIDE DEF d
<1>11. /\ Controller(d) /\ d.on /\ d.transform = None /\ d.grip = None
       /\ d.rectangle = c.rectangle /\ d.structural = None /\ d.profile = c.profile
  BY <1>9, <1>10 DEF Remembering
<1>12. Sketching(u, d, q)
  <2>1. d.rectangle \in Revisions \cup {None}
    BY <1>0, <1>11 DEF Remembers
  <2>2. d.profile # None => d.profile \in Profiles
    BY <1>0, <1>11 DEF Remembers
  <2> QED
    BY <1>2, <1>11, <2>1, <2>2, SelectSketching
<1> QED
  BY <1>1, <1>11, <1>12 DEF Result

LEMMA RefusedIs ==
    ASSUME NEW s, NEW c, Sketching(s, c, part), c.on,
           NEW r, r = Refused(s, c)
    PROVE  Sketching(r.s, r.c, r.p) /\ r.c.on /\ r.p = part
<1> DEFINE t == ToSelect(s)
           u == IF s.grip # None THEN CancelGrip(s) ELSE t
           e == WithRevision(s, c, None)
           f == [e EXCEPT !.keep = FALSE]
           d == Configured(u, f)
<1>0. /\ Controller(c) /\ Remembers(s, c, part) /\ Coherent(s) /\ Document(part)
      /\ s \in Interactions /\ s.selected \subseteq Live(part)
      /\ s.selected \in SUBSET Ids /\ "select" \in AllTools
  BY TakingUp DEF AllTools
<1>1. r = Result(u, d, part)
  BY DEF Refused
<1>2. t = Fresh("select", s.selected)
  BY DEF ToSelect, Activate
<1>3. /\ t \in Interactions /\ Coherent(t) /\ t.tool = "select"
  BY <1>0, <1>2, FreshIs
<1>4. u = t \/ u = [t EXCEPT !.aids = s.aids \ {"override"}]
  BY DEF CancelGrip
<1> HIDE DEF t, u
<1>5. /\ u \in Interactions /\ u.tool = t.tool /\ u.stage = t.stage
      /\ u.selected = t.selected /\ u.captured = t.captured
      /\ u.boundaries = t.boundaries /\ u.target = t.target /\ u.grip = t.grip
      /\ u.pending = t.pending
  BY <1>0, <1>3, <1>4 DEF Interactions
<1>6. Coherent(u) /\ u.tool \notin StructuralTools
  BY <1>3, <1>5 DEF Coherent, StructuralTools
<1>7. Remembering(e, c.on,
          IF s.grip # None THEN c.transform ELSE None,
          IF s.grip # None THEN None ELSE c.grip,
          c.rectangle, c.structural, c.profile)
  BY <1>0, WithRevisionIs
<1>8. s.grip # None => c.transform = None
  BY <1>0 DEF Remembers, Coherent, TransformTools
<1>9. s.grip = None => c.grip = None
  BY <1>0 DEF Remembers
<1>10. /\ Controller(e) /\ e.on /\ e.transform = None /\ e.grip = None
       /\ e.rectangle = c.rectangle /\ e.profile = c.profile
  BY <1>7, <1>8, <1>9 DEF Remembering
<1> HIDE DEF e
<1>11. Remembering(f, e.on, e.transform, e.grip, e.rectangle, e.structural, e.profile)
  BY <1>10, WithKeepIs
<1>12. /\ Controller(f) /\ f.on /\ f.transform = None /\ f.grip = None
       /\ f.rectangle = c.rectangle /\ f.profile = c.profile
  BY <1>10, <1>11 DEF Remembering
<1> HIDE DEF f
<1>13. Remembering(d, f.on, f.transform, f.grip, f.rectangle, None, f.profile)
  BY <1>6, <1>12, ConfiguredIs
<1> HIDE DEF d
<1>14. /\ Controller(d) /\ d.on /\ d.transform = None /\ d.grip = None
       /\ d.rectangle = c.rectangle /\ d.structural = None /\ d.profile = c.profile
  BY <1>12, <1>13 DEF Remembering
<1>15. Sketching(t, d, part)
  <2>1. d.rectangle \in Revisions \cup {None}
    BY <1>0, <1>14 DEF Remembers
  <2>2. d.profile # None => d.profile \in Profiles
    BY <1>0, <1>14 DEF Remembers
  <2> QED
    BY <1>0, <1>2, <1>14, <2>1, <2>2, SelectSketching
<1>16. Sketching(u, d, part)
  BY <1>5, <1>6, <1>14, <1>15, SameEdit
<1> QED
  BY <1>1, <1>14, <1>16 DEF Result

LEMMA MovedIs ==
    ASSUME NEW s \in Interactions, Coherent(s), NEW p, Holds(s, p), Document(p),
           Motion(s) # None
    PROVE  /\ Affected(s) \subseteq DOMAIN s.captured
           /\ Affected(s) \subseteq Live(p)
           /\ Moved(s) \in Sketches /\ DOMAIN Moved(s) = Affected(s)
<1>1. Affected(s) \subseteq DOMAIN s.captured
  BY DEF Affected, Coherent
<1>2. s.captured \in Sketches /\ DOMAIN s.captured \subseteq Live(p)
  BY DEF Interactions, Holds
<1>3. /\ DOMAIN s.captured \subseteq Ids
      /\ \A id \in DOMAIN s.captured : s.captured[id] \in Shapes
  BY <1>2, SketchIs
<1>4. Motion(s) \in [Shapes -> Shapes]
  BY DEF Motion, Interactions, Motions
<1>5. DOMAIN Moved(s) = Affected(s)
  BY DEF Moved
<1>6. Moved(s) \in [Affected(s) -> Shapes]
  BY <1>1, <1>3, <1>4 DEF Moved
<1> QED
  BY <1>1, <1>2, <1>3, <1>5, <1>6, SketchIs

\* A copy that can be placed again.
LEMMA ContinueCopyIs ==
    ASSUME NEW s \in Interactions, Coherent(s), NEW t, t = ContinueCopy(s)
    PROVE  /\ t \in Interactions /\ Coherent(t) /\ t.tool = s.tool
           /\ t.selected = s.selected /\ t.captured = s.captured
           /\ t.boundaries = s.boundaries /\ t.target = s.target /\ t.grip = s.grip
<1> DEFINE preview == IF s.grip # None /\ s.grip.mode \in {"reshape", "move"}
                      THEN Identity ELSE None
           locks == IF s.grip # None THEN {} ELSE s.locks
<1>1. preview \in Motions \cup {None} /\ locks \in SUBSET {"field", "size"}
  BY IdentityIs DEF Interactions
<1>2. \/ t = [s EXCEPT !.preview = preview, !.candidate = FALSE, !.locks = {}, !.aids = {}]
      \/ t = [s EXCEPT !.preview = preview, !.candidate = FALSE, !.aids = {}]
  BY DEF ContinueCopy
<1> HIDE DEF preview, locks
<1>3. /\ t \in Interactions /\ t.tool = s.tool /\ t.stage = s.stage
      /\ t.pending = s.pending
      /\ t.selected = s.selected /\ t.captured = s.captured
      /\ t.boundaries = s.boundaries /\ t.target = s.target /\ t.grip = s.grip
  BY <1>1, <1>2 DEF Interactions
<1> QED
  BY <1>3 DEF Coherent

\* What a commit does: nothing, or it takes the captured geometry as it
\* still is and leaves the rest of the sketch alone.
Sound(s, c, p, q) ==
    \/ q = p
    \/ /\ Revision(s, c) = p.revision /\ Revision(s, c) # None
       /\ q.revision # p.revision
       /\ \A id \in Live(p) \ DOMAIN s.captured :
            id \in Live(q) /\ Content(q)[id] = Content(p)[id]

LEMMA CommitCopyIs ==
    ASSUME NEW s, NEW c, Sketching(s, c, part), c.on, Revision(s, c) # None,
           Motion(s) # None, Editing(s),
           NEW r, r = CommitCopy(s, c)
    PROVE  Sketching(r.s, r.c, r.p) /\ r.c.on /\ Sound(s, c, part, r.p)
<1> DEFINE q == WithNew(part, Content(part), Moved(s))
           ok == /\ Revision(s, c) = part.revision
                 /\ Room(part, Cardinality(Affected(s)))
           e == WithRevision(s, c, q.revision)
           t == ContinueCopy(s)
<1>0. /\ Controller(c) /\ Remembers(s, c, part) /\ Coherent(s) /\ Document(part)
      /\ s \in Interactions /\ Holds(s, part)
  BY TakingUp
<1>1. \/ r = Refused(s, c) \/ r = Result(s, c, part)
      \/ ok /\ r = Ended(s, c, q)
      \/ ok /\ s.tool # "mirror" /\ r = Result(t, e, q)
  BY DEF CommitCopy
<1>2. CASE r = Refused(s, c)
  BY <1>2, RefusedIs DEF Sound
<1>3. CASE r = Result(s, c, part)
  BY <1>3 DEF Result, Sound
<1>4. CASE ok /\ r \in {Ended(s, c, q), Result(t, e, q)}
  <2>1. /\ Moved(s) \in Sketches /\ Affected(s) \subseteq Live(part)
        /\ DOMAIN Moved(s) = Affected(s)
    BY <1>0, MovedIs
  <2>2. Content(part) \in Sketches /\ DOMAIN Content(part) \subseteq 1..(part.next - 1)
    BY <1>0, ContentIs DEF Live
  <2>3. /\ Document(q) /\ Live(part) \subseteq Live(q)
        /\ \A id \in Live(part) : Content(q)[id] = Content(part)[id]
        /\ q.revision # part.revision
    <3>1. Room(part, Cardinality(DOMAIN Moved(s)))
      BY <1>4, <2>1
    <3> QED
      BY <1>0, <2>1, <2>2, <3>1, WithNewIs DEF Live
  <2> HIDE DEF q
  <2>4. Sound(s, c, part, q)
    BY <1>4, <2>3 DEF Sound
  <2>5. CASE r = Ended(s, c, q)
    BY <2>3, <2>4, <2>5, EndedIs
  <2>6. CASE r = Result(t, e, q)
    <3>1. /\ t \in Interactions /\ Coherent(t) /\ t.tool = s.tool
          /\ t.selected = s.selected /\ t.captured = s.captured
          /\ t.boundaries = s.boundaries /\ t.target = s.target /\ t.grip = s.grip
      BY <1>0, ContinueCopyIs
    <3> HIDE DEF t
    <3>2. Holds(t, q)
      BY <1>0, <2>3, <3>1 DEF Holds
    <3>3. Remembering(e, c.on,
              IF s.grip # None THEN c.transform ELSE q.revision,
              IF s.grip # None THEN q.revision ELSE c.grip,
              c.rectangle, c.structural, c.profile)
      BY <1>0, WithRevisionIs
    <3> HIDE DEF e
    <3>4. /\ s.grip # None => s.tool = "select"
          /\ s.grip = None => s.tool \in TransformTools
          /\ s.tool \notin StructuralTools /\ s.tool # "rectangle"
      <4>1. s.grip # None => s.tool = "select"
        BY <1>0 DEF Coherent
      <4>2. s.grip = None => s.stage \in {"destination", "axis_end"}
        BY DEF Editing, FinalStages
      <4>3. /\ s.stage \in StagesOf(s.tool)
            /\ s.tool \in AllTools
        BY <1>0 DEF Coherent, Interactions
      <4>4. s.grip = None => s.tool \in TransformTools
        BY <4>2, <4>3 DEF StagesOf, TransformTools, AllTools, CreationTools,
           StructuralTools
      <4> QED
        BY <4>1, <4>4 DEF TransformTools, StructuralTools
    <3>5. /\ s.grip # None => c.transform = None /\ c.profile = None
          /\ s.grip = None => c.grip = None /\ c.profile = None
          /\ c.structural = None /\ c.rectangle \in Revisions \cup {None}
      BY <1>0, <3>4 DEF Remembers, TransformTools
    <3>6. /\ Controller(e) /\ e.on /\ e.structural = None /\ e.profile = None
          /\ e.rectangle = c.rectangle
          /\ s.grip # None => e.transform = None /\ e.grip = q.revision
          /\ s.grip = None => e.transform = q.revision /\ e.grip = None
      BY <3>3, <3>5 DEF Remembering
    <3>7. \A id \in DOMAIN s.captured : s.captured[id] = Content(q)[id]
      <4>1. \A id \in DOMAIN s.captured : s.captured[id] = Content(part)[id]
        BY <1>0 DEF Remembers
      <4>2. DOMAIN s.captured \subseteq Live(part)
        BY <1>0 DEF Holds
      <4> QED
        BY <2>3, <4>1, <4>2
    <3>8. Remembers(t, e, q)
      BY <3>1, <3>4, <3>5, <3>6, <3>7 DEF Remembers
    <3>9. Rests(t, e)
      BY <3>6 DEF Rests
    <3>10. Sketching(t, e, q)
      BY <2>3, <3>1, <3>2, <3>6, <3>8, <3>9 DEF Sketching
    <3> QED
      BY <2>4, <2>6, <3>6, <3>10 DEF Result
  <2> QED
    BY <1>4, <2>5, <2>6
<1> QED
  BY <1>1, <1>2, <1>3, <1>4

LEMMA CommitUpdateIs ==
    ASSUME NEW s, NEW c, Sketching(s, c, part), c.on, Revision(s, c) # None,
           Motion(s) # None,
           NEW r \in CommitUpdate(s, c)
    PROVE  Sketching(r.s, r.c, r.p) /\ r.c.on /\ Sound(s, c, part, r.p)
<1> DEFINE content == Over(Moved(s), Content(part))
           q == Committed(part, content)
           ok == Revision(s, c) = part.revision /\ Editable(part)
<1>0. /\ Coherent(s) /\ Document(part) /\ s \in Interactions /\ Holds(s, part)
  BY TakingUp
<1>1. r = Ended(s, c, part) \/ (ok /\ r = Ended(s, c, q))
  BY DEF CommitUpdate
<1>2. CASE r = Ended(s, c, part)
  BY <1>0, <1>2, EndedIs DEF Sound
<1>3. CASE ok /\ r = Ended(s, c, q)
  <2>1. /\ Moved(s) \in Sketches /\ Affected(s) \subseteq Live(part)
        /\ Affected(s) \subseteq DOMAIN s.captured
        /\ DOMAIN Moved(s) = Affected(s)
    BY <1>0, MovedIs
  <2>2. Content(part) \in Sketches /\ DOMAIN Content(part) \subseteq 1..(part.next - 1)
    BY <1>0, ContentIs DEF Live
  <2>3. /\ content \in Sketches /\ DOMAIN content = Live(part)
        /\ \A id \in Live(part) \ DOMAIN s.captured : content[id] = Content(part)[id]
    <3>0. PICK f, g : f = Moved(s) /\ g = Content(part)
      OBVIOUS
    <3>1. /\ DOMAIN content = Affected(s) \cup DOMAIN Content(part)
          /\ \A id \in DOMAIN Content(part) \ Affected(s) : content[id] = Content(part)[id]
          /\ content \in Sketches
      <4>1. f \in Sketches /\ g \in Sketches /\ DOMAIN f = Affected(s)
        BY <2>1, <2>2, <3>0
      <4>2. /\ DOMAIN Over(f, g) = DOMAIN f \cup DOMAIN g
            /\ \A id \in DOMAIN g \ DOMAIN f : Over(f, g)[id] = g[id]
            /\ Over(f, g) \in Sketches
        BY <4>1, OverIs
      <4>3. content = Over(f, g)
        BY <3>0
      <4> HIDE DEF content
      <4> QED
        BY <3>0, <4>1, <4>2, <4>3
    <3> HIDE DEF content
    <3> QED
      BY <2>1, <3>1 DEF Live
  <2> HIDE DEF content
  <2>4. /\ Document(q) /\ Content(q) = content /\ Live(q) = DOMAIN content
        /\ q.revision # part.revision
    BY <1>0, <1>3, <2>2, <2>3, CommittedSketch DEF Live
  <2> HIDE DEF q
  <2>5. Sound(s, c, part, q)
    BY <1>3, <2>3, <2>4 DEF Sound
  <2> QED
    BY <1>3, <2>4, <2>5, EndedIs
<1> QED
  BY <1>1, <1>2, <1>3

LEMMA CommitEditIs ==
    ASSUME NEW s, NEW c, Sketching(s, c, part), c.on,
           NEW r \in CommitEdit(s, c)
    PROVE  Sketching(r.s, r.c, r.p) /\ r.c.on /\ Sound(s, c, part, r.p)
<1> DEFINE stays == \/ Revision(s, c) = None
                    \/ s.grip = None /\ s.stage \notin FinalStages
                    \/ Motion(s) = None
<1>1. CASE stays
  <2>1. r = Result(s, c, part)
    BY <1>1 DEF CommitEdit
  <2> QED
    BY <2>1 DEF Result, Sound
<1>2. CASE ~stays /\ Copying(s, c)
  <2>1. r = CommitCopy(s, c)
    BY <1>2 DEF CommitEdit
  <2>2. Revision(s, c) # None /\ Motion(s) # None /\ Editing(s)
    BY <1>2 DEF Editing
  <2> QED
    BY <2>1, <2>2, CommitCopyIs
<1>3. CASE ~stays /\ ~Copying(s, c)
  <2>1. r \in CommitUpdate(s, c)
    BY <1>3 DEF CommitEdit
  <2>2. Revision(s, c) # None /\ Motion(s) # None
    BY <1>3
  <2> QED
    BY <2>1, <2>2, CommitUpdateIs
<1> QED
  BY <1>1, <1>2, <1>3

-----------------------------------------------------------------------------
(* Steps of the tools *)

\* Nothing that is held, and no question, has changed.
Alike(s, t) ==
    /\ t.tool = s.tool /\ t.stage = s.stage /\ (t.pending <=> s.pending)
    /\ t.selected = s.selected /\ t.captured = s.captured
    /\ t.boundaries = s.boundaries /\ t.target = s.target /\ t.grip = s.grip

LEMMA AlikeIs ==
    ASSUME NEW s, NEW c, NEW p, Sketching(s, c, p), c.on,
           NEW t \in Interactions, Alike(s, t)
    PROVE  Sketching(t, c, p)
<1>1. Coherent(t)
  BY DEF Alike, Coherent, Sketching
<1> QED
  BY <1>1, SameEdit DEF Alike

LEMMA PointedIs ==
    ASSUME NEW s \in Interactions, NEW t \in Pointed(s)
    PROVE  t \in Interactions /\ Alike(s, t)
<1>1. \/ t = s
      \/ \E m \in Motions \cup {None} : t = [s EXCEPT !.candidate = TRUE, !.preview = m]
  BY DEF Pointed
<1>2. ASSUME NEW m \in Motions \cup {None},
             t = [s EXCEPT !.candidate = TRUE, !.preview = m]
      PROVE  t \in Interactions /\ Alike(s, t)
  BY <1>2 DEF Interactions, Alike
<1>3. CASE t = s
  BY <1>3 DEF Alike
<1> QED
  BY <1>1, <1>2, <1>3

LEMMA ShownIs ==
    ASSUME NEW s \in Interactions, NEW m \in Motions \cup {None}, NEW t,
           t \in {[s EXCEPT !.preview = m], [s EXCEPT !.candidate = TRUE]}
    PROVE  t \in Interactions /\ Alike(s, t)
BY DEF Interactions, Alike

LEMMA LockedIs ==
    ASSUME NEW s \in Interactions, NEW t,
           t \in {LockSize(s), LockField(s), SetAside(s)}
    PROVE  t \in Interactions /\ Alike(s, t)
BY DEF Interactions, Alike, LockSize, LockField, SetAside

LEMMA TypeValueIs ==
    ASSUME NEW s \in Interactions, NEW m \in Motions, NEW t, t = TypeValue(s, m)
    PROVE  t \in Interactions /\ Alike(s, t)
BY DEF Interactions, Alike, TypeValue

LEMMA AidedIs ==
    ASSUME NEW s \in Interactions, NEW aids \in SUBSET {"override", "tracking"}, NEW t,
           t = [s EXCEPT !.aids = aids]
    PROVE  t \in Interactions /\ Alike(s, t)
BY DEF Interactions, Alike

\* The stages in which a point is taken, and those that follow them.
LEMMA NextStageIs ==
    ASSUME NEW s \in Interactions, Coherent(s),
           s.tool \in CreationTools \cup TransformTools, s.stage # "objects",
           s.stage \notin CreationStages \cup FinalStages
    PROVE  /\ NextStage(s) \in StagesOf(s.tool) /\ NextStage(s) \in Stages
           /\ NextStage(s) # s.stage /\ NextStage(s) # "objects"
<1>1. s.tool \in {"line", "circle", "arc", "rectangle", "move", "copy", "rotate",
                  "scale", "mirror"}
  BY DEF CreationTools, TransformTools
<1>2. s.stage \in StagesOf(s.tool)
  BY DEF Coherent
<1>3. s.stage \in {"first_point", "center", "start", "end", "first_corner",
                   "base_point", "reference_point", "axis_start"}
  BY <1>1, <1>2 DEF StagesOf, CreationStages, FinalStages, TransformTools
<1>4. /\ s.stage = "first_point" => s.tool = "line"
      /\ s.stage = "center" => s.tool = "circle"
      /\ s.stage \in {"start", "end"} => s.tool = "arc"
      /\ s.stage = "first_corner" => s.tool = "rectangle"
      /\ s.stage = "base_point" => s.tool \in {"move", "copy", "rotate", "scale"}
      /\ s.stage = "reference_point" => s.tool \in {"rotate", "scale"}
      /\ s.stage = "axis_start" => s.tool = "mirror"
  BY <1>1, <1>2 DEF StagesOf, TransformTools
<1>5. /\ s.stage = "first_point" => NextStage(s) = "next_point"
      /\ s.stage = "center" => NextStage(s) = "radius"
      /\ s.stage = "start" => NextStage(s) = "end"
      /\ s.stage = "end" => NextStage(s) = "arc_point"
      /\ s.stage = "first_corner" => NextStage(s) = "opposite_corner"
      /\ s.stage = "base_point" =>
            NextStage(s) = IF s.tool \in {"move", "copy"} THEN "destination"
                           ELSE "reference_point"
      /\ s.stage = "reference_point" => NextStage(s) = "destination"
      /\ s.stage = "axis_start" => NextStage(s) = "axis_end"
  BY DEF NextStage
<1>6. NextStage(s) \in StagesOf(s.tool)
  BY <1>3, <1>4, <1>5 DEF StagesOf
<1>7. NextStage(s) # s.stage /\ NextStage(s) # "objects"
  BY <1>3, <1>4, <1>5
<1>8. NextStage(s) \in Stages
  BY <1>3, <1>4, <1>5 DEF Stages, CreationStages, FinalStages, ReferenceStages
<1> QED
  BY <1>6, <1>7, <1>8

\* A point leaves what is held alone and moves on to another stage.
MovedOn(s, t) ==
    /\ t \in Interactions /\ Coherent(t)
    /\ t.tool = s.tool /\ t.stage # s.stage /\ ~t.pending
    /\ t.selected = s.selected /\ t.captured = s.captured
    /\ t.boundaries = s.boundaries /\ t.target = s.target /\ t.grip = s.grip

LEMMA TakePointIs ==
    ASSUME NEW s \in Interactions, Coherent(s),
           s.tool \in CreationTools \cup TransformTools, s.stage # "objects",
           s.stage \notin CreationStages \cup FinalStages,
           NEW t, t = TakePoint(s)
    PROVE  MovedOn(s, t)
<1>1. /\ NextStage(s) \in StagesOf(s.tool) /\ NextStage(s) \in Stages
      /\ NextStage(s) # s.stage /\ NextStage(s) # "objects"
  BY NextStageIs
<1>2. ~s.pending /\ s.pending \in BOOLEAN
  BY DEF Coherent, CreationStages, Interactions
<1> DEFINE stage == NextStage(s)
           candidate == IF s.tool = "circle" THEN s.candidate ELSE TRUE
<1>3. stage \in Stages /\ candidate \in BOOLEAN
  BY <1>1 DEF Interactions
<1>4. t = [s EXCEPT !.stage = stage, !.candidate = candidate,
                    !.locks = {}, !.aids = {}, !.explicit = None]
  BY DEF TakePoint
<1> HIDE DEF stage, candidate
<1>5. /\ t \in Interactions /\ t.stage = stage /\ t.tool = s.tool
      /\ (t.pending <=> s.pending)
      /\ t.selected = s.selected /\ t.captured = s.captured
      /\ t.boundaries = s.boundaries /\ t.target = s.target /\ t.grip = s.grip
  BY <1>3, <1>4 DEF Interactions
<1>6. t.stage \in StagesOf(s.tool) /\ t.stage # s.stage /\ t.stage # "objects"
  BY <1>1, <1>5 DEF stage
<1>7. Coherent(t)
  BY <1>2, <1>5, <1>6 DEF Coherent
<1> QED
  BY <1>2, <1>5, <1>6, <1>7 DEF MovedOn

LEMMA TakeTransformPointIs ==
    ASSUME NEW s \in Interactions, Coherent(s), s.stage \in ReferenceStages,
           NEW t, t = TakeTransformPoint(s)
    PROVE  MovedOn(s, t) /\ s.tool \in TransformTools
<1> DEFINE u == TakePoint(s)
           preview == IF NextStage(s) = "destination" THEN Identity ELSE None
<1>1. s.tool \in TransformTools
  <2>1. s.stage \in StagesOf(s.tool) /\ s.tool \in AllTools
    BY DEF Coherent, Interactions
  <2> QED
    BY <2>1 DEF ReferenceStages, StagesOf, TransformTools, AllTools, CreationTools,
       StructuralTools
<1>2. s.stage # "objects" /\ s.stage \notin CreationStages \cup FinalStages
  BY DEF ReferenceStages, CreationStages, FinalStages
<1>3. MovedOn(s, u)
  BY <1>1, <1>2, TakePointIs
<1>4. preview \in Motions \cup {None} /\ t = [u EXCEPT !.preview = preview]
  BY IdentityIs DEF TakeTransformPoint
<1> HIDE DEF u, preview
<1>5. /\ t \in Interactions /\ t.stage = u.stage /\ t.tool = u.tool
      /\ (t.pending <=> u.pending)
      /\ t.selected = u.selected /\ t.captured = u.captured
      /\ t.boundaries = u.boundaries /\ t.target = u.target /\ t.grip = u.grip
  BY <1>3, <1>4 DEF Interactions, MovedOn
<1>6. Coherent(t)
  BY <1>3, <1>5 DEF Coherent, MovedOn
<1> QED
  BY <1>1, <1>3, <1>5, <1>6 DEF MovedOn

LEMMA MovedOnIs ==
    ASSUME NEW s, NEW c, NEW p, Sketching(s, c, p), c.on, NEW t, MovedOn(s, t)
    PROVE  Sketching(t, c, p)
BY SameEdit DEF MovedOn

\* Nothing is held but the selection.
Cleared(s) ==
    /\ s \in Interactions /\ Coherent(s) /\ ~s.pending
    /\ s.captured = NoShapes /\ s.boundaries = {} /\ s.target = None /\ s.grip = None

LEMMA ClearedSketching ==
    ASSUME NEW p, Document(p), NEW c, Controller(c), c.on,
           NEW s, Cleared(s), s.selected \subseteq Live(p),
           s.tool \notin StructuralTools,
           c.transform = None, c.grip = None, c.structural = None,
           c.rectangle \in Revisions \cup {None},
           s.tool = "rectangle" => c.rectangle \in {p.revision, None},
           c.profile # None =>
                s.tool = "select" /\ c.profile \in Profiles
    PROVE  Sketching(s, c, p)
<1>1. Holds(s, p)
  BY NoShapesIs DEF Holds, Cleared
<1>2. Remembers(s, c, p)
  BY NoShapesIs DEF Remembers, Revision, Cleared
<1>3. Rests(s, c)
  BY DEF Rests
<1> QED
  BY <1>1, <1>2, <1>3 DEF Sketching, Cleared

LEMMA FreshCleared ==
    ASSUME NEW s \in Interactions, NEW tool \in AllTools,
           NEW t, t = Fresh(tool, s.selected)
    PROVE  /\ Cleared(t) /\ t.tool = tool /\ t.selected = s.selected
           /\ t.stage = FirstStage[tool]
<1>1. s.selected \in SUBSET Ids
  BY DEF Interactions
<1> QED
  BY <1>1, FreshIs DEF Cleared

\* Something is remembered no longer.
LEMMA LessRemembered ==
    ASSUME NEW s, NEW c, NEW p, Sketching(s, c, p), c.on,
           NEW d, Controller(d), d.on,
           d.transform \in {c.transform, None}, d.grip \in {c.grip, None},
           d.rectangle \in {c.rectangle, None},
           d.structural \in {c.structural, None}, d.profile \in {c.profile, None}
    PROVE  Sketching(s, d, p)
<1>1. Remembers(s, c, p)
  BY TakingUp
<1>2. Revision(s, d) # None => Revision(s, c) # None
  BY DEF Revision
<1>3. Remembers(s, d, p)
  BY <1>1, <1>2 DEF Remembers
<1>4. Rests(s, d)
  BY DEF Rests
<1> QED
  BY <1>3, <1>4 DEF Sketching

\* What Escape leaves: the edit under way, the tool at its first stage, or
\* Select.
LEMMA EscapedIs ==
    ASSUME NEW s \in Interactions, Coherent(s), NEW t, t = Escaped(s)
    PROVE  /\ t \in Interactions /\ t.selected \subseteq s.selected
           /\ \/ Alike(s, t)
              \/ MovedOn(s, t)
              \/ Cleared(t) /\ t.tool = "select"
              \/ /\ Cleared(t) /\ t.tool = s.tool /\ s.tool \in CreationTools
                 /\ t.stage # s.stage
<1>0. /\ s.tool \in AllTools /\ "select" \in AllTools /\ s.selected \in SUBSET Ids
      /\ s.aids \in SUBSET {"override", "tracking"} /\ s.selected \subseteq s.selected
  BY DEF Interactions, AllTools
<1>1. \/ t = [s EXCEPT !.aids = {}]
      \/ t = [s EXCEPT !.locks = {}, !.explicit = None]
      \/ t = CancelGrip(s)
      \/ s.tool \in CreationTools /\ s.stage # FirstStage[s.tool] /\ t = Activate(s, s.tool)
      \/ s.stage = "between" /\ t = [s EXCEPT !.stage = "single"]
      \/ s.tool = "select" /\ s.grip = None /\ t = [s EXCEPT !.selected = {}]
      \/ t = ToSelect(s)
  BY DEF Escaped
<1>2. CASE t = [s EXCEPT !.aids = {}]
  BY <1>0, <1>2 DEF Interactions, Alike
<1>3. CASE t = [s EXCEPT !.locks = {}, !.explicit = None]
  BY <1>0, <1>3 DEF Interactions, Alike
<1>4. CASE t = CancelGrip(s)
  <2> DEFINE f == Fresh("select", s.selected)
  <2>1. t = [f EXCEPT !.aids = s.aids \ {"override"}]
    BY <1>4 DEF CancelGrip, ToSelect, Activate
  <2>2. Cleared(f) /\ f.tool = "select" /\ f.selected = s.selected
    BY <1>0, FreshCleared
  <2> HIDE DEF f
  <2>3. t \in Interactions /\ Alike(f, t)
    <3>1. f \in Interactions
      BY <2>2 DEF Cleared
    <3>2. s.aids \ {"override"} \in SUBSET {"override", "tracking"}
      BY <1>0
    <3> QED
      BY <2>1, <3>1, <3>2, AidedIs
  <2>4. Coherent(t)
    BY <2>2, <2>3 DEF Alike, Coherent, Cleared
  <2>5. Cleared(t) /\ t.tool = "select" /\ t.selected = s.selected
    BY <2>2, <2>3, <2>4 DEF Alike, Cleared
  <2> QED
    BY <1>0, <2>3, <2>5
<1>5. CASE s.tool \in CreationTools /\ s.stage # FirstStage[s.tool]
           /\ t = Activate(s, s.tool)
  <2>1. Cleared(t) /\ t.tool = s.tool /\ t.selected = s.selected /\ t.stage # s.stage
    BY <1>0, <1>5, FreshCleared DEF Activate
  <2> QED
    BY <1>5, <2>1 DEF Cleared
<1>6. CASE s.stage = "between" /\ t = [s EXCEPT !.stage = "single"]
  <2>1. "single" \in Stages
    BY FirstStageIs DEF AllTools, Stages
  <2>2. /\ t \in Interactions /\ t.stage = "single" /\ t.tool = s.tool
        /\ (t.pending <=> s.pending)
        /\ t.selected = s.selected /\ t.captured = s.captured
        /\ t.boundaries = s.boundaries /\ t.target = s.target /\ t.grip = s.grip
    BY <1>6, <2>1 DEF Interactions
  <2>3. s.tool = "measure" /\ ~s.pending
    BY <1>0, <1>6 DEF Coherent, StagesOf, AllTools, TransformTools, CreationTools,
       StructuralTools
  <2>4. "single" \in StagesOf(s.tool)
    BY <2>3 DEF StagesOf, TransformTools
  <2>5. Coherent(t)
    BY <1>6, <2>2, <2>3, <2>4 DEF Coherent
  <2> QED
    BY <1>0, <1>6, <2>2, <2>3, <2>5 DEF MovedOn
<1>7. CASE s.tool = "select" /\ s.grip = None /\ t = [s EXCEPT !.selected = {}]
  <2>1. {} \in SUBSET s.selected
    OBVIOUS
  <2>2. /\ t \in Interactions /\ t.selected = {} /\ Coherent(t)
        /\ t.tool = s.tool /\ t.stage = s.stage /\ t.pending = s.pending
        /\ t.captured = s.captured /\ t.boundaries = s.boundaries
        /\ t.target = s.target /\ t.grip = s.grip
    BY <1>7, <2>1, SelectedLess
  <2>3. /\ s.captured = NoShapes /\ s.boundaries = {} /\ s.target = None
        /\ s.stage = "none"
    BY <1>7 DEF Coherent, StagesOf, TransformTools
  <2>4. ~t.pending
    BY <2>2, <2>3 DEF Coherent
  <2> QED
    BY <1>7, <2>2, <2>3, <2>4 DEF Cleared
<1>8. CASE t = ToSelect(s)
  <2>1. Cleared(t) /\ t.tool = "select" /\ t.selected = s.selected
    BY <1>0, <1>8, FreshCleared DEF ToSelect, Activate
  <2> QED
    BY <2>1 DEF Cleared
<1> QED
  BY <1>1, <1>2, <1>3, <1>4, <1>5, <1>6, <1>7, <1>8

LEMMA UncoveredIs ==
    ASSUME NEW before, NEW s \in Interactions, NEW t \in Uncovered(before, s)
    PROVE  t \in Interactions /\ Alike(s, t)
<1>1. t = s \/ \E m \in Motions \cup {None} : t = [s EXCEPT !.preview = m]
  BY DEF Uncovered
<1>2. CASE t = s
  BY <1>2 DEF Alike
<1>3. ASSUME NEW m \in Motions \cup {None}, t = [s EXCEPT !.preview = m]
      PROVE  t \in Interactions /\ Alike(s, t)
  BY <1>3, ShownIs
<1> QED
  BY <1>1, <1>2, <1>3

LEMMA EscapedCtlIs ==
    ASSUME Controller(ctl), NEW t, NEW d, d = EscapedCtl(t)
    PROVE  Remembering(d, ctl.on,
               IF t.tool \in TransformTools THEN ctl.transform ELSE None,
               IF t.grip = None THEN None ELSE ctl.grip,
               IF edit.tool = "rectangle" /\ t.stage # edit.stage
               THEN None ELSE ctl.rectangle,
               IF t.tool \in StructuralTools THEN ctl.structural ELSE None,
               ctl.profile)
<1> DEFINE grip == IF t.grip = None THEN None ELSE ctl.grip
           transform == IF t.tool \in TransformTools THEN ctl.transform ELSE None
           keep == t.tool = "mirror" /\ ctl.keep
           rectangle == IF edit.tool = "rectangle" /\ t.stage # edit.stage
                        THEN None ELSE ctl.rectangle
           structural == IF t.tool \in StructuralTools THEN ctl.structural ELSE None
           e1 == [ctl EXCEPT !.grip = grip]
           e2 == [e1 EXCEPT !.transform = transform]
           e3 == [e2 EXCEPT !.keep = keep]
           e4 == [e3 EXCEPT !.rectangle = rectangle]
<1>1. e1 = [on |-> ctl.on, transform |-> ctl.transform, grip |-> grip,
            rectangle |-> ctl.rectangle, structural |-> ctl.structural,
            keep |-> ctl.keep, profile |-> ctl.profile, told |-> ctl.told]
  <2> HIDE DEF grip
  <2> QED
    BY DEF Controller
<1>2. d = Configured(t, e4)
  <2>1. /\ e1.transform = ctl.transform /\ e2.keep = ctl.keep
        /\ e3.rectangle = ctl.rectangle
    BY <1>1
  <2> QED
    BY <1>1, <2>1 DEF EscapedCtl
<1> HIDE DEF grip, transform, keep, rectangle, e1
<1>3. e2 = [on |-> ctl.on, transform |-> transform, grip |-> grip,
            rectangle |-> ctl.rectangle, structural |-> ctl.structural,
            keep |-> ctl.keep, profile |-> ctl.profile, told |-> ctl.told]
  BY <1>1
<1> HIDE DEF e2
<1>4. e3 = [on |-> ctl.on, transform |-> transform, grip |-> grip,
            rectangle |-> ctl.rectangle, structural |-> ctl.structural,
            keep |-> keep, profile |-> ctl.profile, told |-> ctl.told]
  BY <1>3
<1> HIDE DEF e3
<1>5. e4 = [on |-> ctl.on, transform |-> transform, grip |-> grip,
            rectangle |-> rectangle, structural |-> ctl.structural,
            keep |-> keep, profile |-> ctl.profile, told |-> ctl.told]
  BY <1>4
<1> HIDE DEF e4
<1>6. /\ Controller(e4) /\ (e4.on <=> ctl.on) /\ e4.transform = transform
      /\ e4.grip = grip /\ e4.rectangle = rectangle /\ e4.structural = ctl.structural
      /\ e4.profile = ctl.profile
  BY <1>5 DEF Controller
<1>7. Remembering(d, e4.on, e4.transform, e4.grip, e4.rectangle,
          IF t.tool \in StructuralTools THEN e4.structural ELSE None, e4.profile)
  BY <1>2, <1>6, ConfiguredIs
<1>8. Remembering(d, ctl.on, transform, grip, rectangle, structural, ctl.profile)
  <2> HIDE DEF structural
  <2>1. structural = IF t.tool \in StructuralTools THEN e4.structural ELSE None
    BY <1>6 DEF structural
  <2> QED
    BY <1>6, <1>7, <2>1 DEF Remembering
<1> QED
  BY <1>8 DEF transform, grip, rectangle

LEMMA EscapeSketching ==
    ASSUME Sketching(edit, ctl, part), ctl.on, ctl.profile = None,
           NEW t \in Uncovered(edit, Escaped(edit)),
           NEW d, d = EscapedCtl(t)
    PROVE  /\ Sketching(t, d, part) /\ d.on
           /\ (t.pending <=> edit.pending) \/ t.tool # edit.tool \/ t.stage # edit.stage
<1> DEFINE u == Escaped(edit)
<1>0. /\ edit \in Interactions /\ Coherent(edit) /\ Document(part) /\ Controller(ctl)
      /\ edit.selected \subseteq Live(part) /\ Remembers(edit, ctl, part)
  BY TakingUp
<1>1. /\ u \in Interactions /\ u.selected \subseteq edit.selected
      /\ \/ Alike(edit, u)
         \/ MovedOn(edit, u)
         \/ Cleared(u) /\ u.tool = "select"
         \/ /\ Cleared(u) /\ u.tool = edit.tool /\ edit.tool \in CreationTools
            /\ u.stage # edit.stage
  BY <1>0, EscapedIs
<1> HIDE DEF u
<1>2. t \in Interactions /\ Alike(u, t)
  BY <1>1, UncoveredIs DEF u
<1>3. Remembering(d, ctl.on,
          IF t.tool \in TransformTools THEN ctl.transform ELSE None,
          IF t.grip = None THEN None ELSE ctl.grip,
          IF edit.tool = "rectangle" /\ t.stage # edit.stage
          THEN None ELSE ctl.rectangle,
          IF t.tool \in StructuralTools THEN ctl.structural ELSE None,
          ctl.profile)
  BY <1>0, EscapedCtlIs
<1>4. /\ Controller(d) /\ d.on /\ d.transform \in {ctl.transform, None}
      /\ d.grip \in {ctl.grip, None} /\ d.rectangle \in {ctl.rectangle, None}
      /\ d.structural \in {ctl.structural, None} /\ d.profile = None
      /\ t.tool \notin TransformTools => d.transform = None
      /\ t.tool \notin StructuralTools => d.structural = None
      /\ t.grip = None => d.grip = None
      /\ edit.tool = "rectangle" /\ t.stage # edit.stage => d.rectangle = None
  BY <1>3 DEF Remembering
<1>5. CASE Alike(edit, u)
  <2>1. Alike(edit, t)
    BY <1>2, <1>5 DEF Alike
  <2>2. Sketching(t, ctl, part)
    BY <1>2, <2>1, AlikeIs
  <2>3. Sketching(t, d, part)
    BY <1>4, <2>2, LessRemembered
  <2> QED
    BY <1>4, <2>1, <2>3 DEF Alike
<1>6. CASE MovedOn(edit, u)
  <2>0. u \in Interactions /\ Coherent(u)
    BY <1>6 DEF MovedOn
  <2>1. Coherent(t)
    BY <1>2, <2>0 DEF Alike, Coherent
  <2>2. MovedOn(edit, t)
    BY <1>2, <1>6, <2>1 DEF Alike, MovedOn
  <2>3. Sketching(t, ctl, part)
    BY <2>2, MovedOnIs
  <2>4. Sketching(t, d, part)
    BY <1>4, <2>3, LessRemembered
  <2> QED
    BY <1>4, <2>2, <2>4 DEF MovedOn
<1>7. ASSUME Cleared(u), u.tool = "select" \/ (u.tool = edit.tool
                /\ edit.tool \in CreationTools /\ u.stage # edit.stage)
      PROVE  Sketching(t, d, part) /\ d.on
             /\ (t.tool = edit.tool => (t.pending <=> edit.pending) \/ t.stage # edit.stage)
  <2>0. Coherent(u)
    BY <1>7 DEF Cleared
  <2>1. Coherent(t)
    BY <1>2, <2>0 DEF Alike, Coherent
  <2>2. Cleared(t) /\ t.selected \subseteq Live(part) /\ t.tool = u.tool /\ t.stage = u.stage
    BY <1>0, <1>1, <1>2, <1>7, <2>1 DEF Alike, Cleared
  <2>3. /\ t.tool \notin StructuralTools /\ t.tool \notin TransformTools
        /\ t.tool = "rectangle" => edit.tool = "rectangle" /\ t.stage # edit.stage
    BY <1>7, <2>2 DEF StructuralTools, TransformTools, CreationTools
  <2>4. t.grip = None
    BY <2>2 DEF Cleared
  <2>5. d.rectangle \in Revisions \cup {None}
    BY <1>0, <1>4 DEF Remembers
  <2>6. Sketching(t, d, part)
    BY <1>0, <1>4, <2>2, <2>3, <2>4, <2>5, ClearedSketching
  <2>7. edit.tool = "select" => ~edit.pending
    BY <1>0 DEF Coherent, StagesOf, TransformTools
  <2>8. ~t.pending
    BY <2>2 DEF Cleared
  <2> QED
    BY <1>4, <1>7, <2>2, <2>6, <2>7, <2>8
<1> QED
  BY <1>1, <1>5, <1>6, <1>7

LEMMA WithRectangleIs ==
    ASSUME NEW c, Controller(c), NEW rectangle, NEW d, d = [c EXCEPT !.rectangle = rectangle]
    PROVE  Remembering(d, c.on, c.transform, c.grip, rectangle, c.structural, c.profile)
BY DEF Controller, Remembering

\* A tool that draws holds nothing.
LEMMA DrawingIs ==
    ASSUME NEW s, NEW c, NEW p, Sketching(s, c, p), s.tool \in CreationTools
    PROVE  /\ s.captured = NoShapes /\ s.boundaries = {} /\ s.target = None
           /\ s.grip = None /\ c.transform = None /\ c.grip = None
           /\ c.structural = None /\ c.profile = None
<1>1. Coherent(s) /\ Remembers(s, c, p)
  BY TakingUp
<1>2. /\ s.tool # "select" /\ s.tool \notin TransformTools
      /\ s.tool \notin StructuralTools
      /\ s.tool \notin {"trim", "extend", "measure", "extend_both"}
  BY DEF CreationTools, TransformTools, StructuralTools
<1> QED
  BY <1>1, <1>2 DEF Coherent, Remembers

LEMMA ResolveIs ==
    ASSUME NEW u \in Interactions, Coherent(u), u.tool \in CreationTools,
           u.captured = NoShapes, u.boundaries = {}, u.target = None, u.grip = None,
           NEW committed \in BOOLEAN,
           NEW t, t = Resolve(MakeRequest(u), committed)
    PROVE  Cleared(t) /\ t.tool = u.tool /\ t.selected = u.selected
<1> DEFINE s == MakeRequest(u)
           aids == IF u.tool = "circle" THEN u.aids ELSE {}
<1>1. s = [u EXCEPT !.pending = TRUE, !.aids = aids]
  BY DEF MakeRequest
<1>2. aids \in SUBSET {"override", "tracking"}
  BY DEF Interactions
<1> HIDE DEF aids
<1>3. /\ s \in Interactions /\ s.tool = u.tool /\ s.stage = u.stage
      /\ s.selected = u.selected /\ s.captured = NoShapes
      /\ s.boundaries = {} /\ s.target = None /\ s.grip = None
  BY <1>1, <1>2 DEF Interactions
<1> HIDE DEF s
<1>4. \/ t = [s EXCEPT !.pending = FALSE]
      \/ t = [s EXCEPT !.pending = FALSE, !.candidate = TRUE, !.locks = {}]
      \/ t = Fresh(u.tool, s.selected)
  BY <1>3 DEF Resolve, Activate, s
<1>5. CASE \/ t = [s EXCEPT !.pending = FALSE]
           \/ t = [s EXCEPT !.pending = FALSE, !.candidate = TRUE, !.locks = {}]
  <2>1. /\ t \in Interactions /\ t.tool = u.tool /\ t.stage = u.stage /\ ~t.pending
        /\ t.selected = u.selected /\ t.captured = NoShapes
        /\ t.boundaries = {} /\ t.target = None /\ t.grip = None
    BY <1>3, <1>5 DEF Interactions
  <2>2. Coherent(t)
    BY <2>1 DEF Coherent
  <2> QED
    BY <2>1, <2>2 DEF Cleared
<1>6. CASE t = Fresh(u.tool, s.selected)
  <2>1. u.tool \in AllTools
    BY DEF AllTools
  <2> QED
    BY <1>3, <1>6, <2>1, FreshCleared
<1> QED
  BY <1>4, <1>5, <1>6

LEMMA OneIs ==
    ASSUME NEW p, Document(p), Room(p, 1), NEW shape \in Shapes
    PROVE  /\ One(shape) \in Sketches /\ Room(p, Cardinality(DOMAIN One(shape)))
           /\ Editable(p)
<1>1. 1 \in Ids
  BY SketchAssumption DEF Document, Room, Ids
<1>2. DOMAIN One(shape) = {1} /\ One(shape) \in [{1} -> Shapes]
  BY DEF One
<1>3. One(shape) \in Sketches
  <2> DEFINE one == One(shape)
  <2>1. DOMAIN one \subseteq Ids /\ one \in [DOMAIN one -> Shapes]
    BY <1>1, <1>2
  <2> HIDE DEF one
  <2> QED
    BY <2>1, SketchIs DEF one
<1>4. Cardinality({1}) = 1
  BY FS_Singleton
<1> QED
  BY <1>2, <1>3, <1>4 DEF Room

\* A sketch with one more entity.
LEMMA GrownIs ==
    ASSUME NEW p, Document(p), Room(p, 1), NEW shape \in Shapes,
           NEW q, q = WithNew(p, Content(p), One(shape))
    PROVE  /\ Document(q) /\ Live(p) \subseteq Live(q)
           /\ \A id \in Live(p) : Content(q)[id] = Content(p)[id]
           /\ q.revision # p.revision
<1>1. Content(p) \in Sketches /\ DOMAIN Content(p) \subseteq 1..(p.next - 1)
  BY ContentIs DEF Live
<1>2. One(shape) \in Sketches /\ Room(p, Cardinality(DOMAIN One(shape)))
  BY OneIs
<1> QED
  BY <1>1, <1>2, WithNewIs DEF Live

LEMMA ClearedEscapes ==
    ASSUME NEW s, Cleared(s), NEW t, t = Escaped(s)
    PROVE  /\ Cleared(t) /\ t.selected \subseteq s.selected
           /\ t.tool \in {"select", s.tool}
<1>1. s \in Interactions /\ Coherent(s)
  BY DEF Cleared
<1>2. /\ t \in Interactions /\ t.selected \subseteq s.selected
      /\ \/ Alike(s, t)
         \/ MovedOn(s, t)
         \/ Cleared(t) /\ t.tool = "select"
         \/ /\ Cleared(t) /\ t.tool = s.tool /\ s.tool \in CreationTools
            /\ t.stage # s.stage
  BY <1>1, EscapedIs
<1>3. CASE Alike(s, t)
  <2>1. Coherent(t)
    BY <1>1, <1>3 DEF Alike, Coherent
  <2> QED
    BY <1>2, <1>3, <2>1 DEF Cleared, Alike
<1>4. CASE MovedOn(s, t)
  BY <1>2, <1>4 DEF MovedOn, Cleared
<1> QED
  BY <1>2, <1>3, <1>4

LEMMA DrawnIs ==
    ASSUME NEW u, NEW c, Sketching(u, c, part), c.on, u.tool \in CreationTools,
           NEW shape \in Shapes,
           NEW r, r = Drawn(MakeRequest(u), c, shape)
    PROVE  Sketching(r.s, r.c, r.p) /\ r.c.on
<1> DEFINE s == MakeRequest(u)
           diverged == u.tool = "rectangle" /\ c.rectangle # part.revision
           ok == Room(part, 1) /\ ~diverged
           resolved == Resolve(s, ok)
           t == IF diverged THEN Escaped(resolved) ELSE resolved
           d == IF u.tool = "rectangle" /\ (ok \/ diverged)
                THEN [c EXCEPT !.rectangle = None] ELSE c
           q == IF ok THEN WithNew(part, Content(part), One(shape)) ELSE part
<1>0. /\ u \in Interactions /\ Coherent(u) /\ Document(part) /\ Controller(c)
      /\ u.selected \subseteq Live(part) /\ Remembers(u, c, part) /\ "select" \notin StructuralTools
  BY TakingUp DEF StructuralTools
<1>1. /\ u.captured = NoShapes /\ u.boundaries = {} /\ u.target = None
      /\ u.grip = None /\ c.transform = None /\ c.grip = None
      /\ c.structural = None /\ c.profile = None /\ u.tool \notin StructuralTools
  BY DrawingIs DEF CreationTools, StructuralTools
<1>2. r = Result(t, d, q)
  <2>1. s.tool = u.tool
    BY <1>0 DEF MakeRequest, Interactions
  <2> HIDE DEF s
  <2> QED
    BY <2>1 DEF Drawn, s
<1>3. Cleared(resolved) /\ resolved.tool = u.tool /\ resolved.selected = u.selected
  <2>1. ok \in BOOLEAN
    OBVIOUS
  <2> HIDE DEF ok
  <2> QED
    BY <1>0, <1>1, <2>1, ResolveIs
<1> HIDE DEF s, resolved
<1>4. Cleared(t) /\ t.selected \subseteq u.selected /\ t.tool \in {"select", u.tool}
  BY <1>3, ClearedEscapes
<1> HIDE DEF t
<1>5. Document(q) /\ Live(part) \subseteq Live(q) /\ (~ok => q = part)
  BY <1>0, GrownIs
<1> HIDE DEF q
<1>6. /\ Controller(d) /\ d.on /\ d.transform = None /\ d.grip = None
      /\ d.structural = None /\ d.profile = None
      /\ d.rectangle = IF u.tool = "rectangle" /\ (ok \/ diverged) THEN None
                       ELSE c.rectangle
  <2> DEFINE e == [c EXCEPT !.rectangle = None]
  <2>1. Remembering(e, c.on, c.transform, c.grip, None, c.structural, c.profile)
    BY <1>0, WithRectangleIs
  <2> HIDE DEF e
  <2>2. /\ Controller(e) /\ e.on /\ e.transform = None /\ e.grip = None
        /\ e.structural = None /\ e.profile = None /\ e.rectangle = None
    BY <1>1, <2>1 DEF Remembering
  <2>3. d = IF u.tool = "rectangle" /\ (ok \/ diverged) THEN e ELSE c
    BY DEF e
  <2> QED
    BY <1>0, <1>1, <2>2, <2>3
<1> HIDE DEF d
<1>7. d.rectangle \in Revisions \cup {None}
  BY <1>0, <1>6 DEF Remembers
<1>8. t.tool = "rectangle" => d.rectangle \in {q.revision, None}
  BY <1>0, <1>4, <1>5, <1>6 DEF Remembers
<1>9. t.tool \notin StructuralTools /\ t.selected \subseteq Live(q)
  BY <1>0, <1>1, <1>4, <1>5
<1>10. Sketching(t, d, q)
  BY <1>4, <1>5, <1>6, <1>7, <1>8, <1>9, ClearedSketching
<1> QED
  BY <1>2, <1>6, <1>10 DEF Result

-----------------------------------------------------------------------------
(* Telling of the question *)

LEMMA FingerprintIs ==
    ASSUME NEW s, NEW c, NEW p, NEW told, told = Fingerprint(s, c, p)
    PROVE  /\ told.on = c.on /\ told.tool = s.tool /\ told.stage = s.stage
           /\ told.revision = p.revision
           /\ told.grip <=> s.grip # None
           /\ told.mode = IF s.grip = None THEN None ELSE s.grip.mode
           /\ told.profile = IF c.profile = None THEN None ELSE c.profile.kind
           /\ told.based <=> PointRequested(s) /\ Based(s)
           /\ told.distance <=> PointRequested(s) /\ DistanceRequested(s)
BY DEF Fingerprint

LEMMA AskedIs ==
    ASSUME NEW s, NEW c, NEW t, NEW d, s.tool = t.tool, s.stage = t.stage,
           c.profile = None <=> d.profile = None,
           s.grip = None <=> t.grip = None, s.grip # None => s.grip.mode = t.grip.mode,
           PointRequested(s) <=> PointRequested(t)
    PROVE  Asked(s, c) = Asked(t, d)
<1>1. ValueRequested(s) <=> ValueRequested(t)
  BY DEF ValueRequested
<1>2. (IF s.grip = None THEN None ELSE s.grip.mode)
        = IF t.grip = None THEN None ELSE t.grip.mode
  OBVIOUS
<1>3. /\ (c.profile # None) = (d.profile # None)
      /\ PointRequested(s) = PointRequested(t)
      /\ ValueRequested(s) = ValueRequested(t)
  <2>1. (c.profile # None) = (d.profile # None)
    OBVIOUS
  <2>2. PointRequested(s) \in BOOLEAN /\ PointRequested(t) \in BOOLEAN
    BY DEF PointRequested
  <2>3. ValueRequested(s) \in BOOLEAN /\ ValueRequested(t) \in BOOLEAN
    BY DEF ValueRequested
  <2>4. PointRequested(s) = PointRequested(t)
    BY <2>2
  <2>5. ValueRequested(s) = ValueRequested(t)
    BY <1>1, <2>3
  <2> QED
    BY <2>1, <2>4, <2>5
<1> QED
  BY <1>2, <1>3 DEF Asked

\* What is told of a question tells the question.
LEMMA AskedAsTold ==
    ASSUME NEW s \in Interactions, Coherent(s), NEW t \in Interactions, Coherent(t),
           NEW c, c.profile # None => c.profile.kind \in {"create", "edit"},
           NEW d, d.profile # None => d.profile.kind \in {"create", "edit"},
           NEW p, NEW q, Fingerprint(s, c, p) = Fingerprint(t, d, q)
    PROVE  Asked(s, c) = Asked(t, d)
<1> DEFINE a == Fingerprint(s, c, p)
           b == Fingerprint(t, d, q)
<1>0. None \notin {"create", "edit"}
  BY SketchAssumption
<1>1. /\ a.tool = s.tool /\ a.stage = s.stage
      /\ a.grip <=> s.grip # None
      /\ a.mode = IF s.grip = None THEN None ELSE s.grip.mode
      /\ a.profile = IF c.profile = None THEN None ELSE c.profile.kind
      /\ a.based <=> PointRequested(s) /\ Based(s)
  <2> HIDE DEF a
  <2> QED
    BY FingerprintIs DEF a
<1>2. /\ b.tool = t.tool /\ b.stage = t.stage
      /\ b.grip <=> t.grip # None
      /\ b.mode = IF t.grip = None THEN None ELSE t.grip.mode
      /\ b.profile = IF d.profile = None THEN None ELSE d.profile.kind
      /\ b.based <=> PointRequested(t) /\ Based(t)
  <2> HIDE DEF b
  <2> QED
    BY FingerprintIs DEF b
<1>3. a = b
  OBVIOUS
<1> HIDE DEF a, b
<1>4. /\ s.tool = t.tool /\ s.stage = t.stage
      /\ s.grip = None <=> t.grip = None
      /\ s.grip # None => s.grip.mode = t.grip.mode
      /\ PointRequested(s) /\ Based(s) <=> PointRequested(t) /\ Based(t)
  BY <1>1, <1>2, <1>3
<1>5. c.profile = None <=> d.profile = None
  BY <1>0, <1>1, <1>2, <1>3
<1>6. PointRequested(s) <=> PointRequested(t)
  <2>1. CASE s.stage \in {"radius", "opposite_corner"}
    <3>1. Based(s) /\ Based(t)
      BY <1>4, <2>1 DEF Based
    <3> QED
      BY <1>4, <3>1
  <2>2. CASE s.stage \notin {"radius", "opposite_corner"}
    <3>1. ~s.pending /\ ~t.pending
      BY <1>4, <2>2 DEF Coherent
    <3> QED
      BY <1>4, <3>1 DEF PointRequested
  <2> QED
    BY <2>1, <2>2
<1> QED
  BY <1>4, <1>5, <1>6, AskedIs

LEMMA SameController ==
    ASSUME NEW s, NEW c, NEW p, Sketching(s, c, p), NEW d,
           Remembering(d, c.on, c.transform, c.grip, c.rectangle, c.structural, c.profile)
    PROVE  Sketching(s, d, p)
<1>1. /\ Controller(d) /\ (d.on <=> c.on) /\ d.transform = c.transform
      /\ d.grip = c.grip /\ d.rectangle = c.rectangle
      /\ d.structural = c.structural /\ d.profile = c.profile
  BY DEF Remembering
<1>2. Remembers(s, c, p) /\ Rests(s, c)
  BY TakingUp
<1>3. Revision(s, d) = Revision(s, c)
  BY <1>1 DEF Revision
<1>4. Remembers(s, d, p)
  BY <1>1, <1>2, <1>3 DEF Remembers
<1>5. Rests(s, d)
  BY <1>1, <1>2 DEF Rests
<1> QED
  BY <1>1, <1>4, <1>5 DEF Sketching

\* A request that has been made asks for no point.
LEMMA PendingAsksNothing ==
    ASSUME NEW s \in Interactions, Coherent(s), s.pending
    PROVE  /\ ~PointRequested(s) /\ s.stage \in {"radius", "opposite_corner"}
           /\ s.tool \in {"circle", "rectangle"} /\ s.grip = None
<1>1. s.stage \in {"radius", "opposite_corner"} /\ s.stage \in StagesOf(s.tool)
      /\ s.tool \in AllTools
  BY DEF Coherent, Interactions
<1>2. s.tool \in {"circle", "rectangle"}
  BY <1>1 DEF StagesOf, AllTools, CreationTools, StructuralTools, TransformTools
<1>3. s.grip = None /\ s.tool \notin TransformTools
  BY <1>2 DEF Coherent, TransformTools
<1> QED
  BY <1>1, <1>2, <1>3 DEF PointRequested

LEMMA Unpending ==
    ASSUME NEW s \in Interactions, Coherent(s), NEW t, t = [s EXCEPT !.pending = FALSE]
    PROVE  /\ t \in Interactions /\ Coherent(t) /\ ~t.pending
           /\ t.tool = s.tool /\ t.stage = s.stage /\ t.grip = s.grip
<1>1. /\ t \in Interactions /\ ~t.pending /\ t.tool = s.tool /\ t.stage = s.stage
      /\ t.selected = s.selected /\ t.captured = s.captured
      /\ t.boundaries = s.boundaries /\ t.target = s.target /\ t.grip = s.grip
  BY DEF Interactions
<1> QED
  BY <1>1 DEF Coherent

\* A handler that tells of what it has left: the text stays only if it
\* answers the question that is asked now.
LEMMA BecomeKeeps ==
    ASSUME SketchInv, NEW r, Sketching(r.s, r.c, r.p), NEW text \in {buffer, None},
           Become(r, text),
           \/ text = None \/ ~edit.pending \/ r.s.pending
           \/ r.s.tool # edit.tool \/ r.s.stage # edit.stage
    PROVE  SketchInv'
<1> DEFINE told == Fingerprint(r.s, r.c, r.p)
<1>0. /\ Controller(r.c) /\ r.s \in Interactions /\ Coherent(r.s)
      /\ Remembers(r.s, r.c, r.p)
  BY TakingUp
<1>1. /\ part' = r.p /\ edit' = r.s /\ ctl' = [r.c EXCEPT !.told = told]
      /\ buffer' = IF told = ctl.told THEN text ELSE None
  BY DEF Become
<1>2. /\ Remembering(ctl', r.c.on, r.c.transform, r.c.grip, r.c.rectangle,
                     r.c.structural, r.c.profile)
      /\ ctl'.told = told
  <2> HIDE DEF told
  <2> QED
    BY <1>0, <1>1, WithToldIs
<1>3. Sketching(edit', ctl', part')
  BY <1>1, <1>2, SameController
<1>4. /\ ctl'.on = r.c.on /\ ctl'.profile = r.c.profile
  <2> HIDE DEF told
  <2> QED
    BY <1>0, <1>1 DEF Controller
<1>5. Fingerprint(edit', ctl', part') = told /\ Asked(edit', ctl') = Asked(r.s, r.c)
  BY <1>1, <1>4 DEF Fingerprint, Asked
<1>6. ASSUME buffer' # None
      PROVE  ctl'.on /\ buffer' = Asked(edit', ctl')
  <2>0. told = ctl.told /\ buffer' = buffer /\ buffer # None /\ text # None
    BY <1>1, <1>6
  <2>1. ctl.on /\ buffer = Asked(edit, ctl)
    BY <2>0 DEF SketchInv, Telling
  <2>2. /\ edit \in Interactions /\ Coherent(edit) /\ Remembers(edit, ctl, part)
    BY TakingUp DEF SketchInv
  <2>3. /\ ctl.profile # None => ctl.profile.kind \in {"create", "edit"}
        /\ r.c.profile # None => r.c.profile.kind \in {"create", "edit"}
    BY <1>0, <2>2 DEF Remembers, Profiles
  <2> DEFINE u == [edit EXCEPT !.pending = FALSE]
  <2>4. \/ ctl.told = Fingerprint(edit, ctl, part)
        \/ edit.pending /\ ctl.told = Fingerprint(u, ctl, part)
    BY <2>1 DEF SketchInv, Telling
  <2>5. u \in Interactions /\ Coherent(u) /\ ~u.pending
        /\ u.tool = edit.tool /\ u.stage = edit.stage /\ u.grip = edit.grip
    BY <2>2, Unpending
  <2> HIDE DEF u
  <2>6. told.on = r.c.on /\ told.tool = r.s.tool /\ told.stage = r.s.stage
        /\ (told.based <=> PointRequested(r.s) /\ Based(r.s))
    <3> HIDE DEF told
    <3> QED
      BY FingerprintIs DEF told
  <2>7. CASE ctl.told = Fingerprint(edit, ctl, part)
    <3>1. ctl.told.on = ctl.on
      <4>1. PICK f : f = ctl.told
        OBVIOUS
      <4> QED
        BY <4>1, <2>7, FingerprintIs
    <3>2. r.c.on
      BY <2>0, <2>1, <2>6, <3>1
    <3>3. Fingerprint(r.s, r.c, r.p) = Fingerprint(edit, ctl, part)
      BY <2>0, <2>7
    <3>4. Asked(r.s, r.c) = Asked(edit, ctl)
      BY <1>0, <2>2, <2>3, <3>3, AskedAsTold
    <3> QED
      BY <1>4, <1>5, <2>0, <2>1, <3>2, <3>4
  <2>8. CASE edit.pending /\ ctl.told = Fingerprint(u, ctl, part)
    <3>1. /\ ctl.told.tool = edit.tool /\ ctl.told.stage = edit.stage
          /\ (ctl.told.based <=> PointRequested(u) /\ Based(u))
      <4>1. PICK f : f = ctl.told
        OBVIOUS
      <4> QED
        BY <4>1, <2>5, <2>8, FingerprintIs
    <3>2. r.s.pending
      BY <2>0, <2>6, <2>8, <3>1
    <3>3. ~PointRequested(r.s)
      BY <1>0, <3>2, PendingAsksNothing
    <3>4. edit.tool \in {"circle", "rectangle"} /\ edit.stage \in {"radius", "opposite_corner"}
      BY <2>2, <2>8, PendingAsksNothing
    <3>5. PointRequested(u) /\ Based(u)
      BY <2>5, <3>4 DEF PointRequested, Based, CreationTools
    <3> QED
      BY <2>0, <2>6, <3>1, <3>3, <3>5
  <2> QED
    BY <2>4, <2>7, <2>8
<1>7. Telling'
  <2>1. ctl'.told = Fingerprint(edit', ctl', part')
    BY <1>2, <1>5
  <2> QED
    BY <1>6, <2>1 DEF Telling
<1> QED
  BY <1>3, <1>7 DEF SketchInv

\* What tells of a question tells it for every state that asks it alike.
LEMMA AlikeTold ==
    ASSUME NEW s, NEW t, Alike(s, t), s.pending \in BOOLEAN, t.pending \in BOOLEAN,
           NEW c, NEW p
    PROVE  Fingerprint(t, c, p) = Fingerprint(s, c, p) /\ Asked(t, c) = Asked(s, c)
<1>1. /\ t.tool = s.tool /\ t.stage = s.stage /\ t.pending = s.pending /\ t.grip = s.grip
  BY DEF Alike
<1>2. /\ PointRequested(t) = PointRequested(s) /\ Based(t) = Based(s)
      /\ DistanceRequested(t) = DistanceRequested(s)
      /\ ValueRequested(t) = ValueRequested(s)
  BY <1>1 DEF PointRequested, Based, DistanceRequested, ValueRequested
<1> QED
  BY <1>1, <1>2 DEF Fingerprint, Asked

\* A handler that tells nothing, of a step that changes no question.
LEMMA QuietlyAlike ==
    ASSUME SketchInv, NEW t \in Interactions, Alike(edit, t),
           NEW text \in {buffer, None, Asked(edit, ctl)}, ctl.on,
           BecomeQuietly(Result(t, ctl, part), text)
    PROVE  SketchInv'
<1>0. /\ edit \in Interactions /\ Coherent(edit)
  BY TakingUp DEF SketchInv
<1>1. /\ part' = part /\ edit' = t /\ ctl' = ctl /\ buffer' = text
  BY DEF BecomeQuietly, Result
<1>2. Sketching(t, ctl, part)
  BY AlikeIs DEF SketchInv
<1> DEFINE u == [edit EXCEPT !.pending = FALSE]
           v == [t EXCEPT !.pending = FALSE]
<1>3. /\ edit.pending \in BOOLEAN /\ t.pending \in BOOLEAN /\ Coherent(t)
  <2>1. Coherent(t)
    BY <1>2, TakingUp
  <2> QED
    BY <1>0, <2>1 DEF Interactions
<1>4. /\ Fingerprint(t, ctl, part) = Fingerprint(edit, ctl, part)
      /\ Asked(t, ctl) = Asked(edit, ctl)
  BY <1>3, AlikeTold
<1>5. Fingerprint(v, ctl, part) = Fingerprint(u, ctl, part)
  <2>1. u \in Interactions /\ v \in Interactions /\ Alike(u, v)
    BY <1>0 DEF Interactions, Alike
  <2>2. u.pending \in BOOLEAN /\ v.pending \in BOOLEAN
    BY <2>1 DEF Interactions
  <2> HIDE DEF u, v
  <2> QED
    BY <2>1, <2>2, AlikeTold
<1>6. t.pending <=> edit.pending
  BY DEF Alike
<1>7. \/ ctl.told = Fingerprint(edit, ctl, part)
      \/ edit.pending /\ ctl.told = Fingerprint(u, ctl, part)
  BY DEF SketchInv, Telling
<1>8. \/ ctl'.told = Fingerprint(edit', ctl', part')
      \/ edit'.pending /\ ctl'.told =
            Fingerprint([edit' EXCEPT !.pending = FALSE], ctl', part')
  <2> HIDE DEF u
  <2> QED
    BY <1>1, <1>4, <1>5, <1>6, <1>7
<1>9. text # None => text = Asked(edit, ctl)
  BY DEF SketchInv, Telling
<1>10. Telling'
  BY <1>1, <1>4, <1>8, <1>9 DEF Telling
<1> QED
  BY <1>1, <1>2, <1>10 DEF SketchInv

\* A request that is made and not answered.
LEMMA QuietRequest ==
    ASSUME SketchInv, ctl.on, ~edit.pending,
           edit.stage \in {"radius", "opposite_corner"},
           NEW u \in Interactions, Alike(edit, u),
           BecomeQuietly(Result(MakeRequest(u), ctl, part), None)
    PROVE  SketchInv'
<1> DEFINE t == MakeRequest(u)
           v == [t EXCEPT !.pending = FALSE]
           aids == IF u.tool = "circle" THEN u.aids ELSE {}
<1>0. edit \in Interactions /\ Coherent(edit)
  BY TakingUp DEF SketchInv
<1>1. part' = part /\ edit' = t /\ ctl' = ctl /\ buffer' = None
  BY DEF BecomeQuietly, Result
<1>2. t = [u EXCEPT !.pending = TRUE, !.aids = aids]
  BY DEF MakeRequest
<1>3. aids \in SUBSET {"override", "tracking"}
  BY DEF Interactions
<1> HIDE DEF aids, t
<1>4. /\ t \in Interactions /\ t.pending
      /\ t.tool = u.tool /\ t.stage = u.stage
      /\ t.selected = u.selected /\ t.captured = u.captured
      /\ t.boundaries = u.boundaries /\ t.target = u.target /\ t.grip = u.grip
  BY <1>2, <1>3 DEF Interactions
<1>5. /\ t.tool = edit.tool /\ t.stage = edit.stage
      /\ t.selected = edit.selected /\ t.captured = edit.captured
      /\ t.boundaries = edit.boundaries /\ t.target = edit.target /\ t.grip = edit.grip
  BY <1>4 DEF Alike
<1>6. Coherent(t)
  BY <1>0, <1>5 DEF Coherent
<1>7. Sketching(t, ctl, part)
  BY <1>4, <1>5, <1>6, SameEdit DEF SketchInv
<1>8. /\ v \in Interactions /\ ~v.pending /\ v.tool = t.tool /\ v.stage = t.stage
      /\ v.selected = t.selected /\ v.captured = t.captured
      /\ v.boundaries = t.boundaries /\ v.target = t.target /\ v.grip = t.grip
  BY <1>4 DEF Interactions
<1> HIDE DEF v
<1>9. Alike(edit, v) /\ v.pending \in BOOLEAN /\ edit.pending \in BOOLEAN
  <2>1. v.pending \in BOOLEAN /\ edit.pending \in BOOLEAN
    BY <1>0, <1>8 DEF Interactions
  <2> QED
    BY <1>5, <1>8, <2>1 DEF Alike
<1>10. Fingerprint(v, ctl, part) = Fingerprint(edit, ctl, part)
  BY <1>9, AlikeTold
<1>11. ctl.told = Fingerprint(edit, ctl, part)
  BY DEF SketchInv, Telling
<1>12. Telling'
  <2>1. edit'.pending /\ ctl'.told = Fingerprint(v, ctl, part)
    BY <1>1, <1>4, <1>10, <1>11
  <2>2. v = [edit' EXCEPT !.pending = FALSE]
    BY <1>1 DEF v
  <2> QED
    BY <1>1, <2>1, <2>2 DEF Telling
<1> QED
  BY <1>1, <1>7, <1>12 DEF SketchInv

LEMMA ClosedSketching ==
    ASSUME NEW s, NEW c, NEW p, Sketching(s, c, p), ~c.on, NEW q, Document(q)
    PROVE  Sketching(s, c, q)
<1>1. /\ s = Fresh("select", {}) /\ c.transform = None /\ c.grip = None
      /\ c.rectangle = None /\ c.structural = None /\ c.profile = None
      /\ s \in Interactions /\ Coherent(s) /\ Controller(c) /\ Rests(s, c)
  BY TakingUp DEF Rests
<1>2. s.selected = {} /\ s.boundaries = {} /\ s.target = None
      /\ s.captured = NoShapes
  BY <1>1 DEF Fresh
<1>3. Holds(s, q)
  BY <1>2, NoShapesIs DEF Holds
<1>4. Remembers(s, c, q)
  <2>1. s.tool = "select"
    BY <1>1 DEF Fresh
  <2> QED
    BY <1>1, <1>2, <2>1, NoShapesIs DEF Remembers
<1> QED
  BY <1>1, <1>3, <1>4 DEF Sketching

-----------------------------------------------------------------------------
(* The actions keep the invariant *)

LEMMA WithOnIs ==
    ASSUME NEW c, Controller(c), NEW d, d = [c EXCEPT !.on = TRUE]
    PROVE  Remembering(d, TRUE, c.transform, c.grip, c.rectangle, c.structural, c.profile)
BY DEF Controller, Remembering

LEMMA OpenSketchKeeps == ASSUME SketchInv, OpenSketch PROVE SketchInv'
<1> DEFINE d == [ctl EXCEPT !.on = TRUE]
           r == Result(edit, d, part)
<1>0. /\ ~ctl.on /\ Become(r, buffer) /\ Controller(ctl)
      /\ Sketching(edit, ctl, part) /\ Remembers(edit, ctl, part)
  BY TakingUp DEF OpenSketch, SketchInv
<1>1. /\ Controller(d) /\ d.on /\ d.transform = ctl.transform /\ d.grip = ctl.grip
      /\ d.rectangle = ctl.rectangle /\ d.structural = ctl.structural
      /\ d.profile = ctl.profile
  <2>1. Remembering(d, TRUE, ctl.transform, ctl.grip, ctl.rectangle, ctl.structural,
                    ctl.profile)
    BY <1>0, WithOnIs
  <2> HIDE DEF d
  <2> QED
    BY <2>1 DEF Remembering
<1>2. r.s = edit /\ r.c = d /\ r.p = part
  BY DEF Result
<1> HIDE DEF d, r
<1>3. Revision(edit, d) = Revision(edit, ctl)
  BY <1>1 DEF Revision
<1>4. Remembers(edit, d, part)
  BY <1>0, <1>1, <1>3 DEF Remembers
<1>5. Rests(edit, d)
  BY <1>1 DEF Rests
<1>6. Sketching(r.s, r.c, r.p)
  BY <1>0, <1>1, <1>2, <1>4, <1>5 DEF Sketching
<1>7. ~edit.pending \/ r.s.pending
  BY <1>2
<1> QED
  BY <1>0, <1>6, <1>7, BecomeKeeps

LEMMA SelectAsksNothing ==
    ASSUME SketchInv, NEW t, t.tool = "select"
    PROVE  ~edit.pending \/ t.tool # edit.tool
<1>1. edit \in Interactions /\ Coherent(edit)
  BY TakingUp DEF SketchInv
<1> QED
  BY <1>1, PendingAsksNothing

LEMMA ClosedIs ==
    ASSUME NEW p, Document(p), NEW r, r = Closed(p)
    PROVE  /\ Sketching(r.s, r.c, r.p) /\ r.s.tool = "select" /\ ~r.c.on
           /\ r.p = p /\ r.s = Fresh("select", {})
<1> DEFINE s == Fresh("select", {})
           told == Fingerprint(s, Off, p)
           c == [Off EXCEPT !.told = told]
<1>1. r.s = s /\ r.c = c /\ r.p = p
  BY DEF Closed, Result
<1>2. /\ Controller(c) /\ ~c.on /\ c.transform = None /\ c.grip = None
      /\ c.rectangle = None /\ c.structural = None /\ c.profile = None
  <2> HIDE DEF told
  <2>1. /\ Controller(Off) /\ ~Off.on /\ Off.transform = None /\ Off.grip = None
        /\ Off.rectangle = None /\ Off.structural = None /\ Off.profile = None
    BY DEF Off, Controller
  <2>2. Remembering(c, Off.on, Off.transform, Off.grip, Off.rectangle,
                    Off.structural, Off.profile)
    BY <2>1, WithToldIs
  <2> HIDE DEF c
  <2> QED
    BY <2>1, <2>2 DEF Remembering
<1> HIDE DEF c
<1>3. {} \in SUBSET Ids /\ "select" \in AllTools
  BY DEF AllTools
<1>4. /\ s \in Interactions /\ Coherent(s) /\ s.tool = "select" /\ s.selected = {}
      /\ s.captured = NoShapes /\ s.boundaries = {} /\ s.target = None /\ s.grip = None
  <2> HIDE DEF s
  <2> QED
    BY <1>3, FreshIs DEF s
<1>5. Rests(s, c)
  BY <1>2 DEF Rests
<1> HIDE DEF s
<1>6. Holds(s, p)
  BY <1>4, NoShapesIs DEF Holds
<1>7. Remembers(s, c, p)
  BY <1>2, <1>4, NoShapesIs DEF Remembers, Revision
<1>8. Sketching(s, c, p)
  BY <1>2, <1>4, <1>5, <1>6, <1>7 DEF Sketching
<1> QED
  BY <1>1, <1>2, <1>4, <1>8 DEF s

LEMMA LeaveSketchKeeps == ASSUME SketchInv, LeaveSketch PROVE SketchInv'
<1> DEFINE r == Closed(part)
<1>1. Become(r, buffer) /\ Document(part)
  BY TakingUp DEF LeaveSketch, SketchInv
<1> HIDE DEF r
<1>2. Sketching(r.s, r.c, r.p) /\ r.s.tool = "select"
  BY <1>1, ClosedIs DEF r
<1>3. ~edit.pending \/ r.s.tool # edit.tool
  BY <1>2, SelectAsksNothing
<1> QED
  BY <1>1, <1>2, <1>3, BecomeKeeps

LEMMA ToolStateIs ==
    ASSUME NEW s, NEW tool \in AllTools, NEW p, NEW t, t = ToolState(s, tool, p)
    PROVE  t.stage \notin {"radius", "opposite_corner"}
<1> DEFINE stages == {FirstStage[a] : a \in AllTools} \cup {"objects"}
<1>1. "select" \in AllTools
  BY DEF AllTools
<1>3. t.stage \in stages
  <2>1. CASE tool \in TransformTools
    <3>1. t = ActivateTransform(s, tool, Content(p))
      BY <2>1 DEF ToolState, TransformTools, StructuralTools
    <3> QED
      BY <3>1 DEF ActivateTransform, Activate, ToSelect, Capturable, Fresh, AllTools
  <2>2. CASE tool \in StructuralTools
    <3>1. t = ActivateStructural(s, tool)
      BY <2>2 DEF ToolState, TransformTools, StructuralTools
    <3> QED
      BY <3>1 DEF ActivateStructural, Activate, Fresh
  <2>3. CASE tool = "measure"
    <3>1. t = ActivateMeasure(s, Content(p))
      BY <2>3 DEF ToolState, TransformTools, StructuralTools
    <3> DEFINE f == Fresh("measure", s.selected)
    <3>2. PICK target : t = [f EXCEPT !.target = target]
      BY <3>1 DEF ActivateMeasure, Activate
    <3>3. t.stage = FirstStage["measure"]
      BY <3>2 DEF Fresh
    <3> QED
      BY <2>3, <3>3
  <2>4. CASE tool \notin TransformTools \cup StructuralTools \cup {"measure"}
    <3>1. t = Activate(s, tool)
      BY <2>4 DEF ToolState
    <3> QED
      BY <3>1 DEF Activate, Fresh
  <2> QED
    BY <2>1, <2>2, <2>3, <2>4
<1>4. \A a \in AllTools : FirstStage[a] \notin {"radius", "opposite_corner"}
  BY FirstStageIs DEF CreationStages
<1> QED
  BY <1>3, <1>4

LEMMA ActivatingKeeps ==
    ASSUME SketchInv, ctl.on, NEW tool \in AllTools, NEW text \in {buffer, None},
           Become(Activating(tool), text)
    PROVE  SketchInv'
<1> DEFINE t == ToolState(edit, tool, part)
           d == Activated(ctl, t, part)
           r == Activating(tool)
<1>1. r.s = t /\ r.c = d /\ r.p = part
  BY DEF Activating, Result
<1> HIDE DEF t, d, r
<1>2. Sketching(t, d, part)
  BY ToolTaken DEF t, d, SketchInv
<1>3. t.stage \notin {"radius", "opposite_corner"}
  BY ToolStateIs DEF t
<1>4. edit \in Interactions /\ Coherent(edit)
  BY TakingUp DEF SketchInv
<1>5. ~edit.pending \/ r.s.stage # edit.stage
  BY <1>1, <1>3, <1>4, PendingAsksNothing
<1>6. Become(r, text)
  BY DEF r
<1>7. Sketching(r.s, r.c, r.p)
  BY <1>1, <1>2
<1> QED
  BY <1>5, <1>6, <1>7, BecomeKeeps

LEMMA MovePointerKeeps == ASSUME SketchInv, MovePointer PROVE SketchInv'
<1>0. edit \in Interactions
  BY TakingUp DEF SketchInv
<1>1. PICK t \in IF Editing(edit) THEN Pointed(edit) ELSE {[edit EXCEPT !.candidate = TRUE]} :
        BecomeQuietly(Result(t, ctl, part), buffer)
  BY DEF MovePointer
<1>2. t \in Interactions /\ Alike(edit, t)
  <2>1. CASE t \in Pointed(edit)
    BY <1>0, <2>1, PointedIs
  <2>2. CASE t = [edit EXCEPT !.candidate = TRUE]
    BY <1>0, <2>2, ShownIs
  <2> QED
    BY <2>1, <2>2
<1>3. ctl.on
  BY DEF MovePointer
<1> QED
  BY <1>1, <1>2, <1>3, QuietlyAlike

LEMMA TakeAidKeeps ==
    ASSUME SketchInv, NEW aid \in Aids, TakeAid(aid) PROVE SketchInv'
<1> DEFINE aids == edit.aids \cup {aid}
           t == [edit EXCEPT !.aids = aids]
<1>0. edit \in Interactions
  BY TakingUp DEF SketchInv
<1>1. aids \in SUBSET {"override", "tracking"}
  BY <1>0, SketchAssumption DEF Interactions
<1>2. BecomeQuietly(Result(t, ctl, part), buffer) /\ ctl.on
  BY DEF TakeAid
<1> HIDE DEF aids
<1>3. t \in Interactions /\ Alike(edit, t)
  BY <1>0, <1>1, AidedIs
<1> HIDE DEF t
<1> QED
  BY <1>2, <1>3, QuietlyAlike

LEMMA TextKeeps ==
    ASSUME SketchInv, ctl.on, NEW text \in {buffer, None, Asked(edit, ctl)},
           BecomeQuietly(Result(edit, ctl, part), text)
    PROVE  SketchInv'
<1>1. edit \in Interactions /\ Alike(edit, edit)
  BY TakingUp DEF Alike, SketchInv
<1> QED
  BY <1>1, QuietlyAlike

\* The document at another position of its timeline.
LEMMA PositionIs ==
    ASSUME NEW p, Document(p), Editable(p), NEW position \in 1..Len(p.timeline),
           NEW q, q = [p EXCEPT !.revision = @ + 1, !.position = position]
    PROVE  Document(q)
<1> DEFINE a == [p EXCEPT !.revision = p.revision + 1]
<1>1. /\ p = [revision |-> p.revision, timeline |-> p.timeline,
              position |-> p.position, next |-> p.next]
      /\ p.revision \in Revisions /\ p.timeline \in Seq(Sketches)
      /\ p.next \in 1..(MaxId + 1)
  BY DEF Document
<1>2. a = [revision |-> p.revision + 1, timeline |-> p.timeline,
           position |-> p.position, next |-> p.next]
  BY <1>1
<1>3. q = [a EXCEPT !.position = position]
  BY DEF Document
<1> HIDE DEF a
<1>4. q = [revision |-> p.revision + 1, timeline |-> p.timeline,
           position |-> position, next |-> p.next]
  BY <1>2, <1>3
<1>5. p.revision + 1 \in Revisions
  BY <1>1, SketchAssumption DEF Revisions, Editable
<1>6. position \in Nat
  BY <1>1, LenProperties
<1>7. q \in [revision : Revisions, timeline : Seq(Sketches),
             position : Nat, next : 1..(MaxId + 1)]
  BY <1>1, <1>4, <1>5, <1>6
<1>8. q.timeline = p.timeline /\ q.position = position /\ q.next = p.next
  BY <1>4
<1> QED
  BY <1>7, <1>8 DEF Document

\* A document that changes while no sketch is open.
LEMMA ClosedKeeps ==
    ASSUME SketchInv, ~ctl.on, NEW q, Document(q),
           BecomeQuietly(Result(edit, ctl, q), buffer)
    PROVE  SketchInv'
<1>1. part' = q /\ edit' = edit /\ ctl' = ctl /\ buffer' = buffer
  BY DEF BecomeQuietly, Result
<1>2. Sketching(edit, ctl, q)
  BY ClosedSketching DEF SketchInv
<1>3. Telling'
  BY <1>1 DEF SketchInv, Telling
<1> QED
  BY <1>1, <1>2, <1>3 DEF SketchInv

LEMMA MoveKeeps ==
    ASSUME SketchInv, NEW position \in 1..Len(part.timeline), Move(position)
    PROVE  SketchInv'
<1> DEFINE q == [part EXCEPT !.revision = @ + 1, !.position = position]
           c == [ctl EXCEPT !.keep = FALSE]
           r == Reconciled(ToSelect(edit), c, q)
<1>0. Document(part) /\ Controller(ctl)
  BY TakingUp DEF SketchInv
<1>1. Document(q)
  <2>1. Editable(part)
    BY DEF Move
  <2> HIDE DEF q
  <2> QED
    BY <1>0, <2>1, PositionIs DEF q
<1>2. CASE ctl.on
  <2>1. Become(r, buffer)
    BY <1>2 DEF Move
  <2>2. Controller(c) /\ c.on
    <3> HIDE DEF c
    <3>1. Remembering(c, ctl.on, ctl.transform, ctl.grip, ctl.rectangle,
                      ctl.structural, ctl.profile)
      BY <1>0, WithKeepIs DEF c
    <3> QED
      BY <1>2, <3>1 DEF Remembering
  <2> HIDE DEF c, q, r
  <2>3. Sketching(r.s, r.c, r.p) /\ r.s.tool = "select"
    BY <1>1, <2>2, PutDown DEF r
  <2>4. ~edit.pending \/ r.s.tool # edit.tool
    BY <2>3, SelectAsksNothing
  <2> QED
    BY <2>1, <2>3, <2>4, BecomeKeeps
<1>3. CASE ~ctl.on
  <2>1. BecomeQuietly(Result(edit, ctl, q), buffer)
    BY <1>3 DEF Move
  <2> HIDE DEF q
  <2> QED
    BY <1>1, <1>3, <2>1, ClosedKeeps
<1> QED
  BY <1>2, <1>3

LEMMA HistoryKeeps == ASSUME SketchInv, Undo \/ Redo PROVE SketchInv'
<1>1. part.position \in 1..Len(part.timeline) /\ Len(part.timeline) \in Nat
  BY TakingUp, LenProperties DEF SketchInv, Document
<1>2. CASE Undo
  <2>1. part.position - 1 \in 1..Len(part.timeline)
    BY <1>1, <1>2 DEF Undo
  <2> QED
    BY <1>2, <2>1, MoveKeeps DEF Undo
<1>3. CASE Redo
  <2>1. part.position + 1 \in 1..Len(part.timeline)
    BY <1>1, <1>3 DEF Redo
  <2> QED
    BY <1>3, <2>1, MoveKeeps DEF Redo
<1> QED
  BY <1>2, <1>3

LEMMA SaveKeeps == ASSUME SketchInv, Save PROVE SketchInv'
<1> DEFINE r == Reconciled(edit, ctl, part)
<1>1. Become(r, buffer) /\ ctl.on
  BY DEF Save
<1> HIDE DEF r
<1>2. Sketching(r.s, r.c, r.p) /\ r.s.pending = edit.pending
  BY <1>1, KeptInSketch DEF r, SketchInv
<1>3. ~edit.pending \/ r.s.pending
  BY <1>2
<1> QED
  BY <1>1, <1>2, <1>3, BecomeKeeps

LEMMA ProjectEdgesKeeps ==
    ASSUME SketchInv, NEW q, Document(q), Live(part) \subseteq Live(q), ProjectEdges(q)
    PROVE  SketchInv'
<1> DEFINE a == Reconciled(edit, ctl, q)
           t == Activate(a.s, "select")
           d == Activated(a.c, t, q)
           r == Result(t, d, q)
<1>1. Become(r, buffer) /\ ctl.on
  BY DEF ProjectEdges
<1>2. r.s = t /\ r.c = d /\ r.p = q /\ t.tool = "select"
  BY DEF Result, Activate, Fresh
<1> HIDE DEF a, t, d, r
<1>3. Sketching(t, d, q)
  BY <1>1, Projected DEF a, t, d, SketchInv
<1>4. ~edit.pending \/ r.s.tool # edit.tool
  BY <1>2, SelectAsksNothing
<1>5. Sketching(r.s, r.c, r.p)
  BY <1>2, <1>3
<1> QED
  BY <1>1, <1>4, <1>5, BecomeKeeps

\* A commit that changes nothing of the sketch.
LEMMA SameSketch ==
    ASSUME NEW p, Document(p), Editable(p), NEW q, q = Committed(p, Content(p))
    PROVE  Document(q) /\ Live(q) = Live(p) /\ Content(q) = Content(p)
           /\ q.revision # p.revision
<1>1. Content(p) \in Sketches /\ DOMAIN Content(p) \subseteq 1..(p.next - 1)
  BY ContentIs DEF Live
<1> QED
  BY <1>1, CommittedSketch DEF Live

LEMMA ProjectOrBreakKeeps == ASSUME SketchInv, ProjectOrBreak PROVE SketchInv'
<1>0. Document(part)
  BY TakingUp DEF SketchInv
<1>1. ASSUME NEW shape \in Shapes, Room(part, 1),
             ProjectEdges(WithNew(part, Content(part), One(shape)))
      PROVE  SketchInv'
  <2> DEFINE q == WithNew(part, Content(part), One(shape))
  <2> HIDE DEF q
  <2>1. Document(q) /\ Live(part) \subseteq Live(q)
    BY <1>0, <1>1, GrownIs DEF q
  <2>2. ProjectEdges(q)
    BY <1>1 DEF q
  <2> QED
    BY <2>1, <2>2, ProjectEdgesKeeps
<1>2. CASE Editable(part) /\ ProjectEdges(Committed(part, Content(part)))
  <2> DEFINE q == Committed(part, Content(part))
  <2> HIDE DEF q
  <2>1. Document(q) /\ Live(part) \subseteq Live(q)
    BY <1>0, <1>2, SameSketch DEF q
  <2>2. ProjectEdges(q)
    BY <1>2 DEF q
  <2> QED
    BY <2>1, <2>2, ProjectEdgesKeeps
<1> QED
  BY <1>1, <1>2 DEF ProjectOrBreak

LEMMA OtherEditKeeps == ASSUME SketchInv, OtherEdit PROVE SketchInv'
<1> DEFINE q == Committed(part, Content(part))
<1>1. BecomeQuietly(Result(edit, ctl, q), buffer) /\ ~ctl.on /\ Editable(part)
  BY DEF OtherEdit
<1> HIDE DEF q
<1>2. Document(q)
  BY <1>1, SameSketch, TakingUp DEF q, SketchInv
<1> QED
  BY <1>1, <1>2, ClosedKeeps

-----------------------------------------------------------------------------
(* The pointer is pressed *)

LEMMA QuestionOf ==
    ASSUME SketchInv,
           \/ Editing(edit) \/ edit.stage \notin {"radius", "opposite_corner"}
           \/ edit.tool \notin {"circle", "rectangle"}
    PROVE  ~edit.pending
<1>1. edit \in Interactions /\ Coherent(edit)
  BY TakingUp DEF SketchInv
<1> QED
  BY <1>1, PendingAsksNothing DEF Editing, FinalStages

\* A handler that leaves the document and the controller alone.
LEMMA EditKeeps ==
    ASSUME SketchInv, NEW t, Sketching(t, ctl, part), ~edit.pending,
           NEW text \in {buffer, None}, Become(Result(t, ctl, part), text)
    PROVE  SketchInv'
<1> DEFINE r == Result(t, ctl, part)
<1>1. r.s = t /\ r.c = ctl /\ r.p = part
  BY DEF Result
<1> HIDE DEF r
<1>2. Sketching(r.s, r.c, r.p) /\ Become(r, text)
  BY <1>1 DEF r
<1> QED
  BY <1>2, BecomeKeeps

LEMMA ResultKeeps ==
    ASSUME SketchInv, NEW t, NEW d, NEW q, Sketching(t, d, q), ~edit.pending,
           NEW text \in {buffer, None}, Become(Result(t, d, q), text)
    PROVE  SketchInv'
<1> DEFINE r == Result(t, d, q)
<1>1. r.s = t /\ r.c = d /\ r.p = q
  BY DEF Result
<1> HIDE DEF r
<1>2. Sketching(r.s, r.c, r.p) /\ Become(r, text)
  BY <1>1 DEF r
<1> QED
  BY <1>2, BecomeKeeps

LEMMA CornerSketching ==
    ASSUME NEW s, NEW c, NEW p, Sketching(s, c, p), c.on,
           NEW d, d = [c EXCEPT !.rectangle = p.revision]
    PROVE  Sketching(s, d, p)
<1>0. Controller(c) /\ Remembers(s, c, p) /\ p.revision \in Revisions
  BY TakingUp
<1>1. Remembering(d, c.on, c.transform, c.grip, p.revision, c.structural, c.profile)
  BY <1>0, WithRectangleIs
<1>2. /\ Controller(d) /\ d.on /\ d.transform = c.transform /\ d.grip = c.grip
      /\ d.rectangle = p.revision /\ d.structural = c.structural /\ d.profile = c.profile
  BY <1>1 DEF Remembering
<1>3. Revision(s, d) = Revision(s, c)
  BY <1>2 DEF Revision
<1>4. Remembers(s, d, p)
  BY <1>0, <1>2, <1>3 DEF Remembers
<1>5. Rests(s, d)
  BY <1>2 DEF Rests
<1> QED
  BY <1>2, <1>4, <1>5 DEF Sketching

\* A point short of the last one of a tool that draws.
LEMMA PointTaken ==
    ASSUME NEW s, Sketching(s, ctl, part), ctl.on, s.tool \in CreationTools,
           s.stage \notin CreationStages,
           NEW t, t = TakePoint(s),
           NEW d \in {ctl, [ctl EXCEPT !.rectangle = part.revision]}
    PROVE  Sketching(t, d, part)
<1>1. s \in Interactions /\ Coherent(s)
  BY TakingUp
<1>2. s.stage \in StagesOf(s.tool) /\ s.tool \in {"line", "circle", "arc", "rectangle"}
  BY <1>1 DEF Coherent, CreationTools
<1>3. s.stage # "objects" /\ s.stage \notin FinalStages
  BY <1>2 DEF StagesOf, FinalStages, TransformTools
<1>4. MovedOn(s, t)
  BY <1>1, <1>3, TakePointIs
<1>5. Sketching(t, ctl, part)
  BY <1>4, MovedOnIs
<1>6. CASE d = ctl
  BY <1>5, <1>6
<1>7. CASE d = [ctl EXCEPT !.rectangle = part.revision]
  BY <1>5, <1>7, CornerSketching
<1> QED
  BY <1>6, <1>7

LEMMA DrawnKeeps ==
    ASSUME SketchInv, ctl.on, edit.tool \in CreationTools, ~edit.pending,
           NEW u \in Interactions, Alike(edit, u), NEW shape \in Shapes,
           NEW text \in {buffer, None},
           Become(Drawn(MakeRequest(u), ctl, shape), text)
    PROVE  SketchInv'
<1> DEFINE r == Drawn(MakeRequest(u), ctl, shape)
<1>1. Sketching(u, ctl, part) /\ u.tool \in CreationTools
  <2>1. u.tool = edit.tool
    BY DEF Alike
  <2> QED
    BY <2>1, AlikeIs DEF SketchInv
<1>2. Become(r, text)
  OBVIOUS
<1> HIDE DEF r
<1>3. Sketching(r.s, r.c, r.p)
  BY <1>1, DrawnIs DEF r
<1> QED
  BY <1>2, <1>3, BecomeKeeps

LEMMA PressDrawingKeeps == ASSUME SketchInv, ctl.on, PressDrawing PROVE SketchInv'
<1> DEFINE s == [edit EXCEPT !.candidate = TRUE]
           d == IF edit.tool = "rectangle"
                THEN [ctl EXCEPT !.rectangle = part.revision] ELSE ctl
           t == TakePoint(s)
<1>0. edit \in Interactions /\ edit.tool \in CreationTools /\ ~edit.pending
  BY TakingUp DEF SketchInv, PressDrawing
<1>1. s \in Interactions /\ Alike(edit, s)
  BY <1>0, ShownIs
<1>2. \/ edit.stage \notin CreationStages /\ Become(Result(t, d, part), buffer)
      \/ \E shape \in Shapes : Become(Drawn(MakeRequest(s), ctl, shape), buffer)
  BY DEF PressDrawing
<1>3. d \in {ctl, [ctl EXCEPT !.rectangle = part.revision]}
  OBVIOUS
<1> HIDE DEF s, d, t
<1>4. CASE edit.stage \notin CreationStages /\ Become(Result(t, d, part), buffer)
  <2>1. Sketching(s, ctl, part)
    BY <1>1, AlikeIs DEF SketchInv
  <2>2. s.tool \in CreationTools /\ s.stage \notin CreationStages
    BY <1>0, <1>1, <1>4 DEF Alike
  <2>3. Sketching(t, d, part)
    BY <1>3, <2>1, <2>2, PointTaken DEF t
  <2> QED
    BY <1>0, <1>4, <2>3, ResultKeeps
<1>5. ASSUME NEW shape \in Shapes, Become(Drawn(MakeRequest(s), ctl, shape), buffer)
      PROVE  SketchInv'
  BY <1>0, <1>1, <1>5, DrawnKeeps
<1> QED
  BY <1>2, <1>4, <1>5

LEMMA ReferenceKeeps ==
    ASSUME SketchInv, ctl.on, edit.stage \in ReferenceStages,
           NEW s \in Interactions, Alike(edit, s), NEW text \in {buffer, None},
           Become(Result(TakeTransformPoint(s), ctl, part), text)
    PROVE  SketchInv'
<1> DEFINE t == TakeTransformPoint(s)
<1>1. Become(Result(t, ctl, part), text)
  OBVIOUS
<1> HIDE DEF t
<1>2. Sketching(s, ctl, part) /\ s.stage \in ReferenceStages
  <2>1. s.stage = edit.stage
    BY DEF Alike
  <2> QED
    BY <2>1, AlikeIs DEF SketchInv
<1>3. Coherent(s)
  BY <1>2, TakingUp
<1>4. MovedOn(s, t)
  BY <1>2, <1>3, TakeTransformPointIs DEF t
<1>5. Sketching(t, ctl, part)
  BY <1>2, <1>4, MovedOnIs
<1>6. ~edit.pending
  BY QuestionOf DEF ReferenceStages
<1> QED
  BY <1>1, <1>5, <1>6, EditKeeps

LEMMA PressReferenceKeeps == ASSUME SketchInv, ctl.on, PressReference PROVE SketchInv'
<1> DEFINE s == [edit EXCEPT !.candidate = TRUE]
<1>0. edit \in Interactions
  BY TakingUp DEF SketchInv
<1>1. s \in Interactions /\ Alike(edit, s)
  BY <1>0, ShownIs
<1>2. Become(Result(TakeTransformPoint(s), ctl, part), buffer) /\ edit.stage \in ReferenceStages
  BY DEF PressReference
<1> HIDE DEF s
<1> QED
  BY <1>1, <1>2, ReferenceKeeps

LEMMA CommitKeeps ==
    ASSUME SketchInv, ctl.on, Editing(edit), NEW s \in Interactions, Alike(edit, s),
           NEW r \in CommitEdit(s, ctl), NEW text \in {buffer, None}, Become(r, text)
    PROVE  SketchInv' /\ Sound(edit, ctl, part, part')
<1>1. Sketching(s, ctl, part)
  BY AlikeIs DEF SketchInv
<1>2. Sketching(r.s, r.c, r.p) /\ Sound(s, ctl, part, r.p)
  BY <1>1, CommitEditIs
<1>3. ~edit.pending
  BY QuestionOf
<1>4. SketchInv'
  BY <1>2, <1>3, BecomeKeeps
<1>5. Sound(edit, ctl, part, part')
  <2>1. part' = r.p
    BY DEF Become
  <2>2. s.captured = edit.captured /\ s.grip = edit.grip
    BY DEF Alike
  <2>3. Revision(s, ctl) = Revision(edit, ctl)
    BY <2>2 DEF Revision
  <2> QED
    BY <1>2, <2>1, <2>2, <2>3 DEF Sound
<1> QED
  BY <1>4, <1>5

LEMMA PressFinalKeeps ==
    ASSUME SketchInv, ctl.on, PressFinal
    PROVE  SketchInv' /\ Sound(edit, ctl, part, part')
<1>0. edit \in Interactions
  BY TakingUp DEF SketchInv
<1>1. PICK s \in Pointed(edit) : \E r \in CommitEdit(s, ctl) : Become(r, buffer)
  BY DEF PressFinal
<1>2. PICK r \in CommitEdit(s, ctl) : Become(r, buffer)
  BY <1>1
<1>3. s \in Interactions /\ Alike(edit, s)
  BY <1>0, PointedIs
<1>4. Editing(edit)
  BY DEF PressFinal
<1> QED
  BY <1>2, <1>3, <1>4, CommitKeeps

\* Another selection of what is there, where nothing depends on it.
LEMMA SelectionSketching ==
    ASSUME NEW s, NEW c, NEW p, Sketching(s, c, p), c.on, s.boundaries = {},
           NEW selected, selected \subseteq Live(p),
           NEW t, t = [s EXCEPT !.selected = selected]
    PROVE  Sketching(t, c, p) /\ t.tool = s.tool /\ t.stage = s.stage
           /\ t.selected = selected
<1>0. /\ s \in Interactions /\ Coherent(s) /\ Holds(s, p) /\ Remembers(s, c, p)
      /\ Live(p) \subseteq Ids
  BY TakingUp
<1>1. selected \in SUBSET Ids
  BY <1>0
<1>2. /\ t \in Interactions /\ t.selected = selected
      /\ t.tool = s.tool /\ t.stage = s.stage /\ (t.pending <=> s.pending)
      /\ t.captured = s.captured /\ t.boundaries = {}
      /\ t.target = s.target /\ t.grip = s.grip
  BY <1>0, <1>1 DEF Interactions
<1>3. Coherent(t)
  BY <1>0, <1>2 DEF Coherent
<1>4. Holds(t, p)
  BY <1>0, <1>2 DEF Holds
<1>5. Remembers(t, c, p)
  BY <1>0, <1>2 DEF Remembers, Revision
<1>6. Rests(t, c)
  BY DEF Rests
<1> QED
  BY <1>2, <1>3, <1>4, <1>5, <1>6 DEF Sketching

LEMMA PressSelectingKeeps == ASSUME SketchInv, ctl.on, PressSelecting PROVE SketchInv'
<1>0. /\ edit \in Interactions /\ Coherent(edit) /\ edit.selected \subseteq Live(part)
      /\ Sketching(edit, ctl, part)
  BY TakingUp DEF SketchInv
<1>1. PICK selected \in SUBSET Live(part) :
        Become(Result([edit EXCEPT !.selected = selected], ctl, part), buffer)
  <2>1. PICK ids \in SUBSET Live(part) : \E selected \in
            {edit.selected \cup ids, (edit.selected \ ids) \cup (ids \ edit.selected)}
            \cup (IF edit.tool = "select" THEN {{}} ELSE {}) :
          Become(Result([edit EXCEPT !.selected = selected], ctl, part), buffer)
    BY DEF PressSelecting
  <2>2. PICK selected \in
            {edit.selected \cup ids, (edit.selected \ ids) \cup (ids \ edit.selected)}
            \cup (IF edit.tool = "select" THEN {{}} ELSE {}) :
          Become(Result([edit EXCEPT !.selected = selected], ctl, part), buffer)
    BY <2>1
  <2>3. selected \in SUBSET Live(part)
    BY <1>0
  <2> QED
    BY <2>2, <2>3
<1>2. selected \subseteq Live(part)
  OBVIOUS
<1>3. edit.stage = "objects" \/ edit.tool = "select"
  BY DEF PressSelecting
<1>4. edit.boundaries = {}
  BY <1>0, <1>3 DEF Coherent, StagesOf, TransformTools
<1>5. ~edit.pending
  BY <1>3, QuestionOf
<1> DEFINE t == [edit EXCEPT !.selected = selected]
<1>6. Sketching(t, ctl, part)
  <2> HIDE DEF t
  <2> QED
    BY <1>0, <1>2, <1>4, SelectionSketching DEF t
<1> HIDE DEF t
<1>7. Become(Result(t, ctl, part), buffer)
  BY <1>1 DEF t
<1> QED
  BY <1>5, <1>6, <1>7, EditKeeps

LEMMA PressBoundaryKeeps == ASSUME SketchInv, ctl.on, PressBoundary PROVE SketchInv'
<1>0. /\ edit \in Interactions /\ edit.selected \subseteq Live(part)
      /\ Sketching(edit, ctl, part)
  BY TakingUp DEF SketchInv
<1>1. PICK id \in Live(part) :
        Become(Result([edit EXCEPT !.selected = IF id \in edit.selected
                                                THEN edit.selected \ {id}
                                                ELSE edit.selected \cup {id}],
                      ctl, part), buffer)
  BY <1>0 DEF PressBoundary
<1> DEFINE selected == IF id \in edit.selected THEN edit.selected \ {id}
                       ELSE edit.selected \cup {id}
           t == [edit EXCEPT !.selected = selected]
<1>2. selected \subseteq Live(part)
  BY <1>0
<1>3. edit.boundaries = {} /\ edit.tool \in {"trim", "extend"}
  BY DEF PressBoundary, BoundariesPending
<1>4. ~edit.pending
  BY <1>3, QuestionOf
<1>5. Become(Result(t, ctl, part), buffer)
  BY <1>1
<1> HIDE DEF selected
<1>6. Sketching(t, ctl, part)
  <2> HIDE DEF t
  <2> QED
    BY <1>0, <1>2, <1>3, SelectionSketching DEF t
<1> HIDE DEF t
<1> QED
  BY <1>4, <1>5, <1>6, EditKeeps

LEMMA WithGripIs ==
    ASSUME NEW c, Controller(c), NEW grip, NEW d, d = [c EXCEPT !.grip = grip]
    PROVE  Remembering(d, c.on, c.transform, grip, c.rectangle, c.structural, c.profile)
BY DEF Controller, Remembering

LEMMA WithStructuralIs ==
    ASSUME NEW c, Controller(c), NEW structural, NEW d,
           d = [c EXCEPT !.structural = structural]
    PROVE  Remembering(d, c.on, c.transform, c.grip, c.rectangle, structural, c.profile)
BY DEF Controller, Remembering

LEMMA WithTransformIs ==
    ASSUME NEW c, Controller(c), NEW transform, NEW d,
           d = [c EXCEPT !.transform = transform]
    PROVE  Remembering(d, c.on, transform, c.grip, c.rectangle, c.structural, c.profile)
BY DEF Controller, Remembering

LEMMA PressGripKeeps == ASSUME SketchInv, ctl.on, PressGrip PROVE SketchInv'
<1>0. /\ edit \in Interactions /\ Coherent(edit) /\ edit.selected \subseteq Live(part)
      /\ Document(part) /\ Controller(ctl) /\ Holds(edit, part)
      /\ Remembers(edit, ctl, part) /\ Live(part) \subseteq Ids
  BY TakingUp DEF SketchInv
<1>1. PICK id \in edit.selected, center \in BOOLEAN :
        Become(Result(BeginGrip(edit, Content(part), id, center),
                      [ctl EXCEPT !.grip = part.revision], part), buffer)
  BY DEF PressGrip
<1>2. /\ edit.tool = "select" /\ edit.grip = None /\ ctl.profile = None
  BY DEF PressGrip, Idle
<1>3. ~edit.pending
  BY <1>2, QuestionOf
<1> DEFINE mode == IF center THEN "move" ELSE "reshape"
           grip == [id |-> id, center |-> center, copy |-> FALSE, mode |-> mode]
           captured == Capture(Content(part), edit.selected)
           t == BeginGrip(edit, Content(part), id, center)
           d == [ctl EXCEPT !.grip = part.revision]
<1>4. grip \in Grips /\ grip.id = id /\ grip # None
  <2>1. mode \in Modes
    BY DEF Modes
  <2> HIDE DEF mode
  <2>2. grip \in Grips /\ grip.id = id
    BY <1>0, <2>1 DEF Grips
  <2>3. None \notin Grips
    BY SketchAssumption DEF Grips, Ids
  <2> QED
    BY <2>2, <2>3
<1>5. t = [edit EXCEPT !.grip = grip, !.captured = captured, !.preview = Identity,
                       !.candidate = TRUE]
  BY DEF BeginGrip
<1>6. /\ captured \in Sketches /\ DOMAIN captured = edit.selected
      /\ \A a \in edit.selected : captured[a] = Content(part)[a]
  BY <1>0, CapturedIs
<1>7. Become(Result(t, d, part), buffer)
  BY <1>1
<1> HIDE DEF grip, captured, t
<1>8. /\ t \in Interactions /\ t.grip = grip /\ t.captured = captured
      /\ t.tool = edit.tool /\ t.stage = edit.stage /\ (t.pending <=> edit.pending)
      /\ t.selected = edit.selected /\ t.boundaries = edit.boundaries
      /\ t.target = edit.target
  BY <1>0, <1>4, <1>5, <1>6, IdentityIs DEF Interactions
<1>9. Coherent(t)
  BY <1>0, <1>2, <1>4, <1>6, <1>8 DEF Coherent
<1>10. Holds(t, part)
  BY <1>0, <1>6, <1>8 DEF Holds
<1>11. Remembering(d, ctl.on, ctl.transform, part.revision, ctl.rectangle,
                   ctl.structural, ctl.profile)
  <2> HIDE DEF d
  <2> QED
    BY <1>0, WithGripIs DEF d
<1> HIDE DEF d
<1>12. /\ Controller(d) /\ d.on /\ d.transform = ctl.transform
       /\ d.grip = part.revision /\ d.rectangle = ctl.rectangle
       /\ d.structural = ctl.structural /\ d.profile = None
  BY <1>2, <1>11 DEF Remembering
<1>13. Remembers(t, d, part)
  BY <1>0, <1>2, <1>4, <1>6, <1>8, <1>12 DEF Remembers
<1>14. Rests(t, d)
  BY <1>12 DEF Rests
<1>15. Sketching(t, d, part)
  BY <1>0, <1>8, <1>9, <1>10, <1>12, <1>13, <1>14 DEF Sketching
<1> QED
  BY <1>3, <1>7, <1>15, ResultKeeps

\* The tools that change lines capture nothing.
LEMMA StructuralIs ==
    ASSUME NEW s, NEW c, NEW p, Sketching(s, c, p), s.tool \in StructuralTools
    PROVE  /\ s.captured = NoShapes /\ s.grip = None /\ c.transform = None
           /\ c.grip = None /\ c.profile = None /\ s.tool # "rectangle"
           /\ c.rectangle \in Revisions \cup {None} /\ ~s.pending
<1>1. Coherent(s) /\ Remembers(s, c, p) /\ s \in Interactions
  BY TakingUp
<1>2. s.tool # "select" /\ s.tool \notin TransformTools /\ s.tool # "rectangle"
      /\ s.tool # "circle"
  BY DEF TransformTools, StructuralTools
<1>3. ~s.pending
  BY <1>1, <1>2, PendingAsksNothing
<1> QED
  BY <1>1, <1>2, <1>3 DEF Coherent, Remembers

\* Select is taken in the middle of such a tool.
LEMMA StructuralLeft ==
    ASSUME NEW s, NEW c, NEW p, Sketching(s, c, p), c.on, s.tool \in StructuralTools,
           NEW t, t = ToSelect(s),
           NEW d, Controller(d), d.on, d.transform = c.transform, d.grip = c.grip,
           d.rectangle = c.rectangle, d.structural = None, d.profile = c.profile
    PROVE  Sketching(t, d, p)
<1>1. /\ Document(p) /\ s.selected \in SUBSET Live(p)
      /\ d.transform = None /\ d.grip = None /\ d.profile = None
      /\ d.rectangle \in Revisions \cup {None}
  BY TakingUp, StructuralIs
<1> QED
  BY <1>1, SelectSketching DEF ToSelect, Activate

\* The lines that Trim and Extend are bounded by stay in the sketch.
LEMMA StructuralResultIs ==
    ASSUME Sketching(edit, ctl, part), edit.tool \in {"trim", "extend"},
           Editable(part), NEW id \in Targets, NEW q \in StructuralResults(id)
    PROVE  Document(q) /\ edit.boundaries \subseteq Live(q)
<1>0. Document(part) /\ Holds(edit, part)
  BY TakingUp
<1>1. /\ Content(part) \in Sketches /\ Live(part) \subseteq Ids
      /\ Live(part) \subseteq 1..(part.next - 1)
      /\ \A a \in Live(part) : Content(part)[a] \in Shapes
      /\ DOMAIN Content(part) = Live(part)
  BY <1>0, ContentIs DEF Live
<1>2. id \in Live(part) /\ id \notin edit.boundaries /\ edit.boundaries \subseteq Live(part)
  BY <1>0 DEF Targets, Holds
<1>3. \/ \E shape \in Shapes : q = Committed(part, [Content(part) EXCEPT ![id] = shape])
      \/ \E shape \in Shapes : /\ Room(part, 1)
                               /\ q = WithNew(part, [other \in Live(part) \ {id} |->
                                              Content(part)[other]], One(shape))
  BY DEF StructuralResults
<1>4. ASSUME NEW shape \in Shapes,
             q = Committed(part, [Content(part) EXCEPT ![id] = shape])
      PROVE  Document(q) /\ edit.boundaries \subseteq Live(q)
  <2> DEFINE content == [Content(part) EXCEPT ![id] = shape]
  <2>1. DOMAIN content = Live(part) /\ content \in [Live(part) -> Shapes]
    <3>1. Content(part) \in [Live(part) -> Shapes]
      BY <1>1, SketchIs
    <3> QED
      BY <1>2, <3>1
  <2> HIDE DEF content
  <2>2. content \in Sketches
    BY <1>1, <2>1, SketchIs
  <2>3. Document(q) /\ Live(q) = Live(part)
    BY <1>0, <1>1, <1>4, <2>1, <2>2, CommittedSketch DEF content
  <2> QED
    BY <1>2, <2>3
<1>5. ASSUME NEW shape \in Shapes, Room(part, 1),
             q = WithNew(part, [other \in Live(part) \ {id} |-> Content(part)[other]],
                         One(shape))
      PROVE  Document(q) /\ edit.boundaries \subseteq Live(q)
  <2> DEFINE content == [other \in Live(part) \ {id} |-> Content(part)[other]]
  <2>1. DOMAIN content = Live(part) \ {id} /\ content \in [Live(part) \ {id} -> Shapes]
    BY <1>1
  <2> HIDE DEF content
  <2>2. content \in Sketches /\ DOMAIN content \subseteq 1..(part.next - 1)
    BY <1>1, <2>1, SketchIs
  <2>3. One(shape) \in Sketches /\ Room(part, Cardinality(DOMAIN One(shape)))
    BY <1>0, <1>5, OneIs
  <2>4. q = WithNew(part, content, One(shape))
    BY <1>5 DEF content
  <2>5. Document(q) /\ DOMAIN content \subseteq Live(q)
    BY <1>0, <2>2, <2>3, <2>4, WithNewIs
  <2> QED
    BY <1>2, <2>1, <2>5
<1> QED
  BY <1>3, <1>4, <1>5

LEMMA PressTargetKeeps == ASSUME SketchInv, ctl.on, PressTarget PROVE SketchInv'
<1>0. /\ edit \in Interactions /\ Coherent(edit) /\ Document(part) /\ Controller(ctl)
      /\ Sketching(edit, ctl, part) /\ edit.tool \in StructuralTools
      /\ edit.tool \in {"trim", "extend"}
  BY TakingUp DEF SketchInv, PressTarget, StructuralTools
<1>1. /\ edit.captured = NoShapes /\ edit.grip = None /\ ctl.transform = None
      /\ ctl.grip = None /\ ctl.profile = None /\ ~edit.pending
      /\ ctl.rectangle \in Revisions \cup {None}
  BY <1>0, StructuralIs
<1>2. edit.boundaries # {}
  BY <1>0 DEF PressTarget, BoundariesPending
<1> DEFINE t == ToSelect(edit)
           c == Configured(t, ctl)
<1>3. \/ Become(Result(t, c, part), buffer)
      \/ /\ Editable(part)
         /\ \E id \in Targets : \E q \in StructuralResults(id) :
              Become(Result(edit, [ctl EXCEPT !.structural = q.revision], q), buffer)
  BY DEF PressTarget
<1>4. CASE Become(Result(t, c, part), buffer)
  <2>1. t.tool \notin StructuralTools
    BY DEF ToSelect, Activate, Fresh, StructuralTools
  <2> HIDE DEF t
  <2>2. Remembering(c, ctl.on, ctl.transform, ctl.grip, ctl.rectangle, None, ctl.profile)
    BY <1>0, <2>1, ConfiguredIs
  <2> HIDE DEF c
  <2>3. /\ Controller(c) /\ c.on /\ c.transform = ctl.transform /\ c.grip = ctl.grip
        /\ c.rectangle = ctl.rectangle /\ c.structural = None /\ c.profile = ctl.profile
    BY <2>2 DEF Remembering
  <2>4. Sketching(t, c, part)
    BY <1>0, <2>3, StructuralLeft DEF t
  <2> QED
    BY <1>1, <1>4, <2>4, ResultKeeps
<1>5. ASSUME Editable(part), NEW id \in Targets, NEW q \in StructuralResults(id),
             Become(Result(edit, [ctl EXCEPT !.structural = q.revision], q), buffer)
      PROVE  SketchInv'
  <2> DEFINE d == [ctl EXCEPT !.structural = q.revision]
  <2>0. Become(Result(edit, d, q), buffer)
    BY <1>5
  <2>1. Document(q) /\ edit.boundaries \subseteq Live(q)
    BY <1>0, <1>5, StructuralResultIs
  <2>2. Remembering(d, ctl.on, ctl.transform, ctl.grip, ctl.rectangle, q.revision,
                    ctl.profile)
    <3> HIDE DEF d
    <3> QED
      BY <1>0, WithStructuralIs DEF d
  <2> HIDE DEF d
  <2>3. /\ Controller(d) /\ d.on /\ d.transform = None /\ d.grip = None
        /\ d.rectangle = ctl.rectangle /\ d.structural = q.revision /\ d.profile = None
    BY <1>1, <2>2 DEF Remembering
  <2>4. /\ edit.selected \subseteq edit.boundaries /\ edit.target = None
    BY <1>0, <1>2 DEF Coherent
  <2>5. Holds(edit, q)
    BY <1>1, <2>1, <2>4, NoShapesIs DEF Holds
  <2>6. Remembers(edit, d, q)
    BY <1>0, <1>1, <2>3, NoShapesIs DEF Remembers
  <2>7. Rests(edit, d)
    BY <2>3 DEF Rests
  <2>8. Sketching(edit, d, q)
    BY <1>0, <2>1, <2>3, <2>5, <2>6, <2>7 DEF Sketching
  <2> QED
    BY <1>1, <2>0, <2>8, ResultKeeps
<1> QED
  BY <1>3, <1>4, <1>5

\* What is targeted is in the sketch.
LEMMA TargetSketching ==
    ASSUME NEW s, NEW c, NEW p, Sketching(s, c, p), c.on,
           s.tool \in {"measure", "extend_both"},
           NEW target \in Live(p) \cup {None}, NEW t, t = [s EXCEPT !.target = target]
    PROVE  Sketching(t, c, p) /\ t.tool = s.tool
<1>0. /\ s \in Interactions /\ Coherent(s) /\ Holds(s, p) /\ Remembers(s, c, p)
      /\ Live(p) \subseteq Ids
  BY TakingUp
<1>1. target \in Ids \cup {None}
  BY <1>0
<1>2. /\ t \in Interactions /\ t.target = target
      /\ t.tool = s.tool /\ t.stage = s.stage /\ (t.pending <=> s.pending)
      /\ t.selected = s.selected /\ t.captured = s.captured
      /\ t.boundaries = s.boundaries /\ t.grip = s.grip
  BY <1>0, <1>1 DEF Interactions
<1>3. Coherent(t)
  BY <1>0, <1>2 DEF Coherent
<1>4. Holds(t, p)
  BY <1>0, <1>2 DEF Holds
<1>5. Remembers(t, c, p)
  BY <1>0, <1>2 DEF Remembers, Revision
<1>6. Rests(t, c)
  BY DEF Rests
<1> QED
  BY <1>2, <1>3, <1>4, <1>5, <1>6 DEF Sketching

\* The revision of a structural edit, taken up or forgotten.
LEMMA StructuralSketching ==
    ASSUME NEW s, NEW c, NEW p, Sketching(s, c, p), c.on,
           NEW revision, NEW d, d = [c EXCEPT !.structural = revision],
           revision = None \/ (revision = p.revision /\ s.tool \in StructuralTools)
    PROVE  Sketching(s, d, p) /\ d.on
<1>0. Controller(c) /\ Remembers(s, c, p)
  BY TakingUp
<1>1. Remembering(d, c.on, c.transform, c.grip, c.rectangle, revision, c.profile)
  BY <1>0, WithStructuralIs
<1>2. /\ Controller(d) /\ d.on /\ d.transform = c.transform /\ d.grip = c.grip
      /\ d.rectangle = c.rectangle /\ d.structural = revision /\ d.profile = c.profile
  BY <1>1 DEF Remembering
<1>3. Revision(s, d) = Revision(s, c)
  BY <1>2 DEF Revision
<1>4. Remembers(s, d, p)
  BY <1>0, <1>2, <1>3 DEF Remembers
<1>5. Rests(s, d)
  BY <1>2 DEF Rests
<1> QED
  BY <1>2, <1>4, <1>5 DEF Sketching

LEMMA PressFirstLineKeeps == ASSUME SketchInv, ctl.on, PressFirstLine PROVE SketchInv'
<1>0. Sketching(edit, ctl, part) /\ edit.tool = "extend_both"
  BY DEF SketchInv, PressFirstLine
<1>1. PICK id \in Live(part) :
        Become(Result([edit EXCEPT !.target = id],
                      [ctl EXCEPT !.structural = part.revision], part), buffer)
  BY DEF PressFirstLine
<1> DEFINE t == [edit EXCEPT !.target = id]
           d == [ctl EXCEPT !.structural = part.revision]
<1>2. Become(Result(t, d, part), buffer)
  BY <1>1
<1> HIDE DEF t, d
<1>3. Sketching(t, ctl, part) /\ t.tool = "extend_both"
  BY <1>0, TargetSketching DEF t
<1>4. Sketching(t, d, part)
  BY <1>3, StructuralSketching DEF d, StructuralTools
<1>5. ~edit.pending
  BY <1>0, QuestionOf
<1> QED
  BY <1>2, <1>4, <1>5, ResultKeeps

LEMMA PressMeasuredKeeps == ASSUME SketchInv, ctl.on, PressMeasured PROVE SketchInv'
<1>0. /\ Sketching(edit, ctl, part) /\ edit.stage = "single" /\ edit \in Interactions
      /\ Coherent(edit)
  BY TakingUp DEF SketchInv, PressMeasured
<1>1. PICK id \in Live(part) \cup {None} :
        Become(Result([edit EXCEPT !.target = id], ctl, part), buffer)
  BY DEF PressMeasured
<1>2. edit.tool = "measure"
  BY <1>0 DEF Coherent, Interactions, StagesOf, AllTools, TransformTools, CreationTools,
     StructuralTools
<1> DEFINE t == [edit EXCEPT !.target = id]
<1>3. Become(Result(t, ctl, part), buffer)
  BY <1>1
<1> HIDE DEF t
<1>4. Sketching(t, ctl, part)
  BY <1>0, <1>2, TargetSketching DEF t
<1>5. ~edit.pending
  BY <1>2, QuestionOf
<1> QED
  BY <1>3, <1>4, <1>5, EditKeeps

\* The document changes under an edit that remembers none of it.
LEMMA OtherDocument ==
    ASSUME NEW s, NEW c, NEW p, Sketching(s, c, p), c.on, NEW q, Document(q), Holds(s, q),
           c.transform = None, c.grip = None, c.structural = None, s.tool # "rectangle"
    PROVE  Sketching(s, c, q)
<1>1. Remembers(s, c, p)
  BY TakingUp
<1>2. Remembers(s, c, q)
  BY <1>1 DEF Remembers, Revision
<1>3. Rests(s, c)
  BY DEF Rests
<1> QED
  BY <1>2, <1>3 DEF Sketching

LEMMA PressSecondLineKeeps == ASSUME SketchInv, ctl.on, PressSecondLine PROVE SketchInv'
<1> DEFINE cleared == [edit EXCEPT !.target = None]
           s == IF ctl.structural \in {part.revision, None} THEN cleared ELSE ToSelect(edit)
           c == [ctl EXCEPT !.structural = None]
<1>0. /\ Sketching(edit, ctl, part) /\ edit.tool = "extend_both"
      /\ edit.tool \in StructuralTools /\ Controller(ctl) /\ Document(part)
  BY TakingUp DEF SketchInv, PressSecondLine, StructuralTools
<1>1. /\ ctl.transform = None /\ ctl.grip = None /\ ~edit.pending
  BY <1>0, StructuralIs
<1>2. \/ /\ Editable(part)
         /\ \E content \in [Live(part) -> Shapes] :
              Become(Result(s, c, Committed(part, content)), buffer)
      \/ Become(Result(s, c, part), buffer)
  BY DEF PressSecondLine
<1>3. /\ Controller(c) /\ c.on /\ c.transform = None /\ c.grip = None
      /\ c.rectangle = ctl.rectangle /\ c.structural = None /\ c.profile = ctl.profile
  <2>1. Remembering(c, ctl.on, ctl.transform, ctl.grip, ctl.rectangle, None, ctl.profile)
    <3> HIDE DEF c
    <3> QED
      BY <1>0, WithStructuralIs DEF c
  <2> HIDE DEF c
  <2> QED
    BY <1>1, <2>1 DEF Remembering
<1>4. Sketching(cleared, c, part) /\ cleared.tool = "extend_both"
  <2> HIDE DEF cleared, c
  <2>1. Sketching(cleared, ctl, part) /\ cleared.tool = "extend_both"
    BY <1>0, TargetSketching DEF cleared
  <2> QED
    BY <2>1, StructuralSketching DEF c
<1>5. Sketching(ToSelect(edit), c, part) /\ ToSelect(edit).tool = "select"
  <2>1. ToSelect(edit).tool = "select"
    BY DEF ToSelect, Activate, Fresh
  <2> HIDE DEF c
  <2> QED
    BY <1>0, <1>1, <1>3, <2>1, StructuralLeft
<1> HIDE DEF cleared, c
<1>6. Sketching(s, c, part) /\ s.tool # "rectangle"
  BY <1>4, <1>5
<1> HIDE DEF s
<1>7. CASE Become(Result(s, c, part), buffer)
  BY <1>1, <1>6, <1>7, ResultKeeps
<1>8. ASSUME Editable(part), NEW content \in [Live(part) -> Shapes],
             Become(Result(s, c, Committed(part, content)), buffer)
      PROVE  SketchInv'
  <2> DEFINE q == Committed(part, content)
  <2>1. content \in Sketches /\ DOMAIN content \subseteq 1..(part.next - 1)
        /\ DOMAIN content = Live(part)
    BY <1>0, ContentIs, SketchIs
  <2> HIDE DEF q
  <2>2. Document(q) /\ Live(q) = Live(part)
    BY <1>0, <1>8, <2>1, CommittedSketch DEF q
  <2>3. Holds(s, q)
    BY <1>6, <2>2, TakingUp DEF Holds
  <2>4. Sketching(s, c, q)
    BY <1>3, <1>6, <2>2, <2>3, OtherDocument
  <2>5. Become(Result(s, c, q), buffer)
    BY <1>8 DEF q
  <2> QED
    BY <1>1, <2>4, <2>5, ResultKeeps
<1> QED
  BY <1>2, <1>7, <1>8

\* The profile that is drafted, changed or ended.
LEMMA ProfileSketching ==
    ASSUME NEW s, NEW c, NEW p, Sketching(s, c, p), c.on,
           NEW profile, profile # None => c.profile # None /\ profile \in Profiles,
           NEW d, d = [c EXCEPT !.profile = profile]
    PROVE  Sketching(s, d, p) /\ d.on
           /\ d.transform = c.transform /\ d.grip = c.grip
           /\ d.structural = c.structural /\ d.profile = profile
<1>0. Controller(c) /\ Remembers(s, c, p)
  BY TakingUp
<1>1. Remembering(d, c.on, c.transform, c.grip, c.rectangle, c.structural, profile)
  BY <1>0, WithProfileIs
<1>2. /\ Controller(d) /\ d.on /\ d.transform = c.transform /\ d.grip = c.grip
      /\ d.rectangle = c.rectangle /\ d.structural = c.structural /\ d.profile = profile
  BY <1>1 DEF Remembering
<1>3. Revision(s, d) = Revision(s, c)
  BY <1>2 DEF Revision
<1>4. Remembers(s, d, p)
  BY <1>0, <1>2, <1>3 DEF Remembers
<1>5. Rests(s, d)
  BY <1>2 DEF Rests
<1> QED
  BY <1>2, <1>4, <1>5 DEF Sketching

LEMMA PressProfileKeeps == ASSUME SketchInv, ctl.on, PressProfile PROVE SketchInv'
<1> DEFINE profile == [ctl.profile EXCEPT !.draft = TRUE]
           d == [ctl EXCEPT !.profile = profile]
<1>0. /\ Sketching(edit, ctl, part) /\ ctl.profile # None /\ ctl.profile \in Profiles
      /\ edit.tool = "select"
  BY TakingUp DEF SketchInv, PressProfile, Remembers
<1>1. Become(Result(edit, d, part), buffer)
  <2>1. Controller(ctl)
    BY TakingUp DEF SketchInv
  <2> QED
    BY <2>1 DEF PressProfile, Controller
<1>2. profile \in Profiles
  BY <1>0 DEF Profiles
<1> HIDE DEF d, profile
<1>3. Sketching(edit, d, part)
  BY <1>0, <1>2, ProfileSketching DEF d
<1>4. ~edit.pending
  BY <1>0, QuestionOf
<1> QED
  BY <1>1, <1>3, <1>4, ResultKeeps

LEMMA PressKeeps == ASSUME SketchInv, Press PROVE SketchInv'
<1>1. ctl.on
  BY DEF Press
<1> QED
  BY <1>1, PressDrawingKeeps, PressReferenceKeeps, PressFinalKeeps, PressSelectingKeeps,
     PressGripKeeps, PressBoundaryKeeps, PressTargetKeeps, PressFirstLineKeeps,
     PressSecondLineKeeps, PressMeasuredKeeps, PressProfileKeeps DEF Press

-----------------------------------------------------------------------------
(* Text is submitted, keys are pressed *)

LEMMA SubmitPairKeeps == ASSUME SketchInv, ctl.on, SubmitPair PROVE SketchInv'
<1> DEFINE s == LockSize(edit)
<1>0. /\ edit \in Interactions /\ Coherent(edit) /\ ~edit.pending
      /\ edit.stage = "opposite_corner"
  BY TakingUp DEF SketchInv, SubmitPair, PairRequested
<1>1. edit.tool \in CreationTools
  BY <1>0 DEF Coherent, Interactions, StagesOf, AllTools, TransformTools, CreationTools,
     StructuralTools
<1>2. s \in Interactions /\ Alike(edit, s)
  BY <1>0, LockedIs
<1>3. \/ Become(Result(s, ctl, part), None)
      \/ BecomeQuietly(Result(MakeRequest(s), ctl, part), None)
      \/ \E shape \in Shapes : Become(Drawn(MakeRequest(s), ctl, shape), None)
  BY DEF SubmitPair
<1> HIDE DEF s
<1>4. CASE Become(Result(s, ctl, part), None)
  <2>1. Sketching(s, ctl, part)
    BY <1>2, AlikeIs DEF SketchInv
  <2> QED
    BY <1>0, <1>4, <2>1, EditKeeps
<1>5. CASE BecomeQuietly(Result(MakeRequest(s), ctl, part), None)
  BY <1>0, <1>2, <1>5, QuietRequest
<1>6. ASSUME NEW shape \in Shapes, Become(Drawn(MakeRequest(s), ctl, shape), None)
      PROVE  SketchInv'
  BY <1>0, <1>1, <1>2, <1>6, DrawnKeeps
<1> QED
  BY <1>3, <1>4, <1>5, <1>6

LEMMA CreationStageIs ==
    ASSUME NEW s \in Interactions, Coherent(s), s.stage \in CreationStages
    PROVE  s.tool \in CreationTools /\ s.grip = None
<1>1. s.tool \in CreationTools
  BY DEF Coherent, Interactions, StagesOf, AllTools, TransformTools, CreationTools,
     StructuralTools, CreationStages
<1> QED
  BY <1>1 DEF Coherent, CreationTools

\* A point that is typed where the pointer would be pressed.
LEMMA CommitTyped ==
    ASSUME SketchInv, ctl.on, Editing(edit), NEW m \in Motions \cup {None},
           NEW r \in CommitEdit([edit EXCEPT !.preview = m], ctl), Become(r, None)
    PROVE  SketchInv' /\ Sound(edit, ctl, part, part')
<1> DEFINE s == [edit EXCEPT !.preview = m]
<1>0. edit \in Interactions
  BY TakingUp DEF SketchInv
<1>1. s \in Interactions /\ Alike(edit, s)
  BY <1>0, ShownIs
<1>2. r \in CommitEdit(s, ctl)
  OBVIOUS
<1> HIDE DEF s
<1> QED
  BY <1>1, <1>2, CommitKeeps

LEMMA SubmitPointKeeps == ASSUME SketchInv, ctl.on, SubmitPoint PROVE SketchInv'
<1> DEFINE d == IF edit.tool = "rectangle"
                THEN [ctl EXCEPT !.rectangle = part.revision] ELSE ctl
           t == TakePoint(edit)
           u == SetAside(edit)
<1>0. /\ edit \in Interactions /\ Coherent(edit) /\ Sketching(edit, ctl, part)
      /\ Alike(edit, edit) /\ PointRequested(edit) /\ edit.stage # "opposite_corner"
  BY TakingUp DEF SketchInv, SubmitPoint, PairRequested, Alike
<1>1. \/ /\ Editing(edit)
         /\ \E m \in Motions \cup {None} :
              \E r \in CommitEdit([edit EXCEPT !.preview = m], ctl) : Become(r, None)
      \/ /\ edit.stage \in ReferenceStages
         /\ Become(Result(TakeTransformPoint(edit), ctl, part), None)
      \/ /\ edit.stage = "radius"
         /\ BecomeQuietly(Result(MakeRequest(edit), ctl, part), None)
      \/ /\ edit.stage \in CreationStages \ {"radius"}
         /\ \E shape \in Shapes : Become(Drawn(MakeRequest(u), ctl, shape), None)
      \/ /\ edit.tool \in CreationTools /\ edit.stage \notin CreationStages
         /\ Become(Result(t, d, part), None)
  BY DEF SubmitPoint
<1>2. d \in {ctl, [ctl EXCEPT !.rectangle = part.revision]}
  OBVIOUS
<1> HIDE DEF d, t, u
<1>3. ASSUME Editing(edit), NEW m \in Motions \cup {None},
             NEW r \in CommitEdit([edit EXCEPT !.preview = m], ctl), Become(r, None)
      PROVE  SketchInv'
  BY <1>3, CommitTyped
<1>4. CASE /\ edit.stage \in ReferenceStages
           /\ Become(Result(TakeTransformPoint(edit), ctl, part), None)
  BY <1>0, <1>4, ReferenceKeeps
<1>5. CASE /\ edit.stage = "radius"
           /\ BecomeQuietly(Result(MakeRequest(edit), ctl, part), None)
  <2>1. ~edit.pending
    BY <1>0, PendingAsksNothing
  <2> QED
    BY <1>0, <1>5, <2>1, QuietRequest
<1>6. ASSUME edit.stage \in CreationStages \ {"radius"}, NEW shape \in Shapes,
             Become(Drawn(MakeRequest(u), ctl, shape), None)
      PROVE  SketchInv'
  <2>1. u \in Interactions /\ Alike(edit, u)
    BY <1>0, LockedIs DEF u
  <2>2. edit.tool \in CreationTools /\ ~edit.pending
    BY <1>0, <1>6, CreationStageIs, PendingAsksNothing
  <2> QED
    BY <1>6, <2>1, <2>2, DrawnKeeps
<1>7. CASE /\ edit.tool \in CreationTools /\ edit.stage \notin CreationStages
           /\ Become(Result(t, d, part), None)
  <2>1. Sketching(t, d, part)
    BY <1>0, <1>2, <1>7, PointTaken DEF t
  <2>2. ~edit.pending
    BY <1>0, PendingAsksNothing
  <2> QED
    BY <1>7, <2>1, <2>2, ResultKeeps
<1> QED
  BY <1>1, <1>3, <1>4, <1>5, <1>6, <1>7

LEMMA ValueTyped ==
    ASSUME SketchInv, ctl.on, Editing(edit), NEW m \in Motions,
           NEW r \in CommitEdit(TypeValue(edit, m), ctl), Become(r, None)
    PROVE  SketchInv' /\ Sound(edit, ctl, part, part')
<1> DEFINE s == TypeValue(edit, m)
<1>0. edit \in Interactions
  BY TakingUp DEF SketchInv
<1>1. s \in Interactions /\ Alike(edit, s)
  BY <1>0, TypeValueIs
<1>2. r \in CommitEdit(s, ctl)
  OBVIOUS
<1> HIDE DEF s
<1> QED
  BY <1>1, <1>2, CommitKeeps

LEMMA SubmitValueKeeps == ASSUME SketchInv, ctl.on, SubmitValue PROVE SketchInv'
<1> DEFINE s == LockSize(edit)
<1>0. /\ edit \in Interactions /\ Coherent(edit) /\ ~edit.pending
  BY TakingUp DEF SketchInv, SubmitValue
<1>1. \/ Become(Result(s, ctl, part), None)
      \/ /\ edit.stage \in {"radius", "arc_point"}
         /\ \E shape \in Shapes : Become(Drawn(MakeRequest(s), ctl, shape), None)
      \/ /\ Editing(edit)
         /\ \E m \in Motions : \E r \in CommitEdit(TypeValue(edit, m), ctl) : Become(r, None)
  BY DEF SubmitValue
<1>2. s \in Interactions /\ Alike(edit, s)
  BY <1>0, LockedIs
<1> HIDE DEF s
<1>3. CASE Become(Result(s, ctl, part), None)
  <2>1. Sketching(s, ctl, part)
    BY <1>2, AlikeIs DEF SketchInv
  <2> QED
    BY <1>0, <1>3, <2>1, EditKeeps
<1>4. ASSUME edit.stage \in {"radius", "arc_point"}, NEW shape \in Shapes,
             Become(Drawn(MakeRequest(s), ctl, shape), None)
      PROVE  SketchInv'
  <2>1. edit.tool \in CreationTools
    BY <1>0, <1>4, CreationStageIs DEF CreationStages
  <2> QED
    BY <1>0, <1>2, <1>4, <2>1, DrawnKeeps
<1>5. ASSUME Editing(edit), NEW m \in Motions,
             NEW r \in CommitEdit(TypeValue(edit, m), ctl), Become(r, None)
      PROVE  SketchInv'
  BY <1>5, ValueTyped
<1> QED
  BY <1>1, <1>3, <1>4, <1>5

LEMMA SubmitDistanceKeeps == ASSUME SketchInv, ctl.on, SubmitDistance PROVE SketchInv'
<1> DEFINE t == TakePoint(edit)
<1>0. /\ edit \in Interactions /\ Coherent(edit) /\ Sketching(edit, ctl, part)
      /\ Alike(edit, edit) /\ PointRequested(edit)
  BY TakingUp DEF SketchInv, SubmitDistance, Alike
<1>1. \/ /\ Editing(edit)
         /\ \E m \in Motions \cup {None} :
              \E r \in CommitEdit([edit EXCEPT !.preview = m], ctl) : Become(r, None)
      \/ /\ edit.tool = "line"
         /\ \E shape \in Shapes : Become(Drawn(MakeRequest(edit), ctl, shape), None)
      \/ edit.tool = "arc" /\ Become(Result(t, ctl, part), None)
  BY DEF SubmitDistance
<1>2. ~edit.pending
  BY <1>0, PendingAsksNothing
<1> HIDE DEF t
<1>3. ASSUME Editing(edit), NEW m \in Motions \cup {None},
             NEW r \in CommitEdit([edit EXCEPT !.preview = m], ctl), Become(r, None)
      PROVE  SketchInv'
  BY <1>3, CommitTyped
<1>4. ASSUME edit.tool = "line", NEW shape \in Shapes,
             Become(Drawn(MakeRequest(edit), ctl, shape), None)
      PROVE  SketchInv'
  BY <1>0, <1>2, <1>4, DrawnKeeps DEF CreationTools
<1>5. CASE edit.tool = "arc" /\ Become(Result(t, ctl, part), None)
  <2>1. edit.grip = None
    BY <1>0, <1>5 DEF Coherent
  <2>2. edit.stage = "end"
    BY <1>0, <1>5, <2>1 DEF SubmitDistance, DistanceRequested, Coherent, StagesOf
  <2>3. Sketching(t, ctl, part)
    BY <1>0, <1>5, <2>2, PointTaken DEF t, CreationTools, CreationStages
  <2> QED
    BY <1>2, <1>5, <2>3, EditKeeps
<1> QED
  BY <1>1, <1>3, <1>4, <1>5

\* A grip in another mode, or that copies, is the same grip.
LEMMA GripSketching ==
    ASSUME NEW s, NEW c, NEW p, Sketching(s, c, p), c.on, s.grip # None,
           NEW t \in Interactions, t.grip # None, t.grip.id = s.grip.id,
           t.tool = s.tool, t.stage = s.stage, t.pending <=> s.pending,
           t.selected = s.selected, t.captured = s.captured,
           t.boundaries = s.boundaries, t.target = s.target
    PROVE  Sketching(t, c, p)
<1>1. Coherent(t)
  BY TakingUp DEF Coherent
<1> QED
  BY <1>1, SameEdit

LEMMA SubmitGripCopyKeeps == ASSUME SketchInv, ctl.on, SubmitGripCopy PROVE SketchInv'
<1> DEFINE grip == [edit.grip EXCEPT !.copy = TRUE]
           t == [edit EXCEPT !.grip = grip]
<1>0. /\ edit \in Interactions /\ Coherent(edit) /\ Sketching(edit, ctl, part)
      /\ edit.grip # None
  BY TakingUp DEF SketchInv, SubmitGripCopy
<1>1. Become(Result(t, ctl, part), None)
  BY <1>0 DEF SubmitGripCopy, Interactions
<1>2. edit.grip \in Grips /\ grip \in Grips /\ grip.id = edit.grip.id
  BY <1>0 DEF Interactions, Grips
<1>3. None \notin Grips
  BY SketchAssumption DEF Grips, Ids
<1> HIDE DEF grip
<1>4. /\ t \in Interactions /\ t.grip = grip
      /\ t.tool = edit.tool /\ t.stage = edit.stage /\ (t.pending <=> edit.pending)
      /\ t.selected = edit.selected /\ t.captured = edit.captured
      /\ t.boundaries = edit.boundaries /\ t.target = edit.target
  BY <1>0, <1>2 DEF Interactions
<1> HIDE DEF t
<1>5. Sketching(t, ctl, part)
  BY <1>0, <1>2, <1>3, <1>4, GripSketching
<1>6. ~edit.pending
  BY <1>0, QuestionOf DEF Editing
<1> QED
  BY <1>1, <1>5, <1>6, EditKeeps

LEMMA SubmitTextKeeps == ASSUME SketchInv, SubmitText PROVE SketchInv'
<1>0. ctl.on
  BY DEF SubmitText
<1>1. CASE SubmitCommand
  <2>1. PICK tool \in Tools : Become(Activating(tool), None)
    BY <1>1 DEF SubmitCommand
  <2>2. tool \in AllTools
    BY SketchAssumption
  <2> QED
    BY <1>0, <2>1, <2>2, ActivatingKeeps
<1>2. CASE BecomeQuietly(Result(edit, ctl, part), None)
  BY <1>0, <1>2, TextKeeps
<1> QED
  BY <1>0, <1>1, <1>2, SubmitPairKeeps, SubmitPointKeeps, SubmitValueKeeps,
     SubmitDistanceKeeps, SubmitGripCopyKeeps DEF SubmitText

LEMMA LockTextKeeps == ASSUME SketchInv, LockText PROVE SketchInv'
<1>0. /\ edit \in Interactions /\ Coherent(edit) /\ Sketching(edit, ctl, part) /\ ctl.on
  BY TakingUp DEF SketchInv, LockText
<1>1. ASSUME NEW t \in Interactions, Alike(edit, t), ~edit.pending,
             Become(Result(t, ctl, part), None)
      PROVE  SketchInv'
  BY <1>0, <1>1, AlikeIs, EditKeeps
<1>2. CASE ~edit.pending /\ Become(Result(LockSize(edit), ctl, part), None)
  BY <1>0, <1>1, <1>2, LockedIs
<1>3. ASSUME Editing(edit), NEW m \in Motions,
             Become(Result(TypeValue(edit, m), ctl, part), None)
      PROVE  SketchInv'
  BY <1>0, <1>1, <1>3, TypeValueIs, QuestionOf
<1>4. CASE PointRequested(edit) /\ Become(Result(LockField(edit), ctl, part), None)
  BY <1>0, <1>1, <1>4, LockedIs, PendingAsksNothing
<1> QED
  BY <1>2, <1>3, <1>4 DEF LockText

\* Enter without a text, and every way an edit is committed by it.
LEMMA EnterCommitsKeeps ==
    ASSUME SketchInv, EnterCommits
    PROVE  SketchInv' /\ Sound(edit, ctl, part, part')
<1>1. edit \in Interactions /\ Alike(edit, edit) /\ ctl.on /\ Editing(edit)
  BY TakingUp DEF SketchInv, Alike, EnterCommits
<1>2. PICK r \in CommitEdit(edit, ctl) : Become(r, buffer)
  BY DEF EnterCommits
<1> QED
  BY <1>1, <1>2, CommitKeeps

LEMMA EscapeKeeps == ASSUME SketchInv, Escape PROVE SketchInv'
<1>0. Sketching(edit, ctl, part) /\ ctl.on /\ edit \in Interactions /\ Coherent(edit)
  BY TakingUp DEF SketchInv, Escape
<1>1. CASE ctl.profile # None
  <2> DEFINE d == NoProfile(ctl)
  <2>1. Become(Result(edit, d, part), buffer)
    BY <1>1 DEF Escape
  <2> HIDE DEF d
  <2>2. Sketching(edit, d, part)
    BY <1>0, ProfileSketching DEF d, NoProfile
  <2>3. edit.tool = "select"
    BY <1>0, <1>1, TakingUp DEF Remembers
  <2>4. ~edit.pending
    BY <2>3, QuestionOf
  <2> QED
    BY <2>1, <2>2, <2>4, ResultKeeps
<1>2. CASE ctl.profile = None
  <2>1. PICK t \in Uncovered(edit, Escaped(edit)) :
          Become(Result(t, EscapedCtl(t), part), buffer)
    BY <1>2 DEF Escape
  <2> DEFINE d == EscapedCtl(t)
             r == Result(t, d, part)
  <2>2. Become(r, buffer)
    BY <2>1
  <2>3. r.s = t /\ r.c = d /\ r.p = part
    BY DEF Result
  <2> HIDE DEF d, r
  <2>4. /\ Sketching(t, d, part)
        /\ (t.pending <=> edit.pending) \/ t.tool # edit.tool \/ t.stage # edit.stage
    BY <1>0, <1>2, EscapeSketching DEF d
  <2> QED
    BY <2>2, <2>3, <2>4, BecomeKeeps
<1> QED
  BY <1>1, <1>2

LEMMA KeepOriginalKeeps == ASSUME SketchInv, KeepOriginal PROVE SketchInv'
<1> DEFINE d == [ctl EXCEPT !.keep = ~ctl.keep]
<1>0. Sketching(edit, ctl, part) /\ edit.tool = "mirror" /\ Controller(ctl)
  BY TakingUp DEF SketchInv, KeepOriginal
<1>1. Become(Result(edit, d, part), buffer)
  BY <1>0 DEF KeepOriginal, Controller
<1> HIDE DEF d
<1>2. Sketching(edit, d, part)
  BY <1>0, WithKeepIs, SameController DEF d
<1>3. ~edit.pending
  BY <1>0, QuestionOf
<1> QED
  BY <1>1, <1>2, <1>3, ResultKeeps

LEMMA MeasureBetweenKeeps == ASSUME SketchInv, MeasureBetween PROVE SketchInv'
<1> DEFINE a == [edit EXCEPT !.stage = "between"]
           t == [a EXCEPT !.target = None]
<1>0. /\ Sketching(edit, ctl, part) /\ edit.tool = "measure" /\ ctl.on
      /\ edit \in Interactions /\ Coherent(edit)
  BY TakingUp DEF SketchInv, MeasureBetween
<1>1. Become(Result(t, ctl, part), buffer)
  BY DEF MeasureBetween
<1>2. "between" \in Stages
  BY DEF Stages
<1>3. /\ a \in Interactions /\ a.stage = "between" /\ a.tool = edit.tool
      /\ (a.pending <=> edit.pending)
      /\ a.selected = edit.selected /\ a.captured = edit.captured
      /\ a.boundaries = edit.boundaries /\ a.target = edit.target /\ a.grip = edit.grip
  BY <1>0, <1>2 DEF Interactions
<1>4. ~edit.pending
  BY <1>0, QuestionOf
<1>5. Coherent(a)
  BY <1>0, <1>3, <1>4 DEF Coherent, StagesOf, TransformTools
<1> HIDE DEF a
<1>6. Sketching(a, ctl, part)
  BY <1>0, <1>3, <1>5, SameEdit
<1> HIDE DEF t
<1>7. Sketching(t, ctl, part)
  BY <1>0, <1>3, <1>6, TargetSketching DEF t
<1> QED
  BY <1>1, <1>4, <1>7, EditKeeps

LEMMA CycleGripModeKeeps == ASSUME SketchInv, CycleGripMode PROVE SketchInv'
<1>0. /\ edit \in Interactions /\ Sketching(edit, ctl, part)
      /\ edit.grip # None /\ ctl.on
  BY TakingUp DEF SketchInv, CycleGripMode
<1>1. PICK m \in Motions \cup {None} : Become(Result(CycleMode(edit, m), ctl, part), buffer)
  BY DEF CycleGripMode
<1> DEFINE mode == NextMode(edit.grip)
           grip == [edit.grip EXCEPT !.mode = mode, !.copy = FALSE]
           locks == edit.locks \ {"field"}
           t == CycleMode(edit, m)
<1>2. t = [edit EXCEPT !.grip = grip, !.preview = m, !.explicit = None, !.locks = locks]
  BY <1>0 DEF CycleMode, Interactions
<1>3. mode \in Modes
  BY DEF NextMode, Modes
<1> HIDE DEF mode
<1>4. edit.grip \in Grips /\ grip \in Grips /\ grip.id = edit.grip.id
  BY <1>0, <1>3 DEF Interactions, Grips
<1>5. None \notin Grips
  BY SketchAssumption DEF Grips, Ids
<1>6. locks \in SUBSET {"field", "size"}
  BY <1>0 DEF Interactions
<1> HIDE DEF grip, locks, t
<1>7. /\ t \in Interactions /\ t.grip = grip
      /\ t.tool = edit.tool /\ t.stage = edit.stage /\ (t.pending <=> edit.pending)
      /\ t.selected = edit.selected /\ t.captured = edit.captured
      /\ t.boundaries = edit.boundaries /\ t.target = edit.target
  BY <1>0, <1>2, <1>4, <1>6 DEF Interactions
<1>8. Sketching(t, ctl, part)
  BY <1>0, <1>4, <1>5, <1>7, GripSketching
<1>9. ~edit.pending
  BY <1>0, QuestionOf DEF Editing
<1>10. Become(Result(t, ctl, part), buffer)
  BY <1>1 DEF t
<1> QED
  BY <1>8, <1>9, <1>10, EditKeeps
LEMMA ObjectsSketching ==
    ASSUME SketchInv, ctl.on, edit.stage = "objects", edit.selected # {},
           NEW t, t = CompleteObjects(edit, Content(part)),
           NEW d, d = [ctl EXCEPT !.transform = part.revision]
    PROVE  Sketching(t, d, part)
<1> DEFINE stage == FirstStage[edit.tool]
           captured == Capture(Content(part), edit.selected)
           a == [edit EXCEPT !.stage = stage, !.captured = captured]
           b == [a EXCEPT !.preview = None, !.explicit = None]
<1>0. /\ edit \in Interactions /\ Coherent(edit) /\ edit.selected \subseteq Live(part)
      /\ Document(part) /\ Controller(ctl) /\ Holds(edit, part)
      /\ Remembers(edit, ctl, part) /\ edit.tool \in AllTools
  BY TakingUp DEF SketchInv
<1>1. edit.tool \in TransformTools
  BY <1>0 DEF Coherent, StagesOf, TransformTools
<1>2. /\ edit.grip = None /\ edit.boundaries = {} /\ edit.target = None /\ ~edit.pending
      /\ edit.tool \notin StructuralTools \cup {"select", "rectangle"}
  BY <1>0, <1>1 DEF Coherent, TransformTools, StructuralTools
<1>3. stage \in Stages /\ stage \in StagesOf(edit.tool) /\ stage # "objects"
  BY <1>0, FirstStageIs
<1>4. /\ captured \in Sketches /\ DOMAIN captured = edit.selected
      /\ \A id \in edit.selected : captured[id] = Content(part)[id]
  BY <1>0, CapturedIs
<1>5. t = [b EXCEPT !.candidate = FALSE]
  BY DEF CompleteObjects
<1> HIDE DEF stage, captured
<1>6. /\ t \in Interactions /\ t.stage = stage /\ t.captured = captured
      /\ t.tool = edit.tool /\ (t.pending <=> edit.pending)
      /\ t.selected = edit.selected /\ t.boundaries = edit.boundaries
      /\ t.target = edit.target /\ t.grip = edit.grip
  <2>1. /\ a \in Interactions /\ a.stage = stage /\ a.captured = captured
        /\ a.tool = edit.tool /\ (a.pending <=> edit.pending)
        /\ a.selected = edit.selected /\ a.boundaries = edit.boundaries
        /\ a.target = edit.target /\ a.grip = edit.grip
    BY <1>0, <1>3, <1>4 DEF Interactions
  <2> HIDE DEF a
  <2>2. /\ b \in Interactions /\ b.stage = a.stage /\ b.captured = a.captured
        /\ b.tool = a.tool /\ (b.pending <=> a.pending)
        /\ b.selected = a.selected /\ b.boundaries = a.boundaries
        /\ b.target = a.target /\ b.grip = a.grip
    BY <2>1 DEF Interactions
  <2> HIDE DEF b
  <2>3. /\ t \in Interactions /\ t.stage = b.stage /\ t.captured = b.captured
        /\ t.tool = b.tool /\ (t.pending <=> b.pending)
        /\ t.selected = b.selected /\ t.boundaries = b.boundaries
        /\ t.target = b.target /\ t.grip = b.grip
    BY <1>5, <2>2 DEF Interactions
  <2> QED
    BY <2>1, <2>2, <2>3
<1>7. Coherent(t)
  BY <1>1, <1>2, <1>3, <1>6 DEF Coherent
<1>8. Holds(t, part)
  BY <1>0, <1>4, <1>6 DEF Holds
<1>9. Remembering(d, ctl.on, part.revision, ctl.grip, ctl.rectangle, ctl.structural,
                  ctl.profile)
  BY <1>0, WithTransformIs
<1>10. /\ Controller(d) /\ d.on /\ d.transform = part.revision /\ d.grip = ctl.grip
       /\ d.rectangle = ctl.rectangle /\ d.structural = ctl.structural
       /\ d.profile = ctl.profile
  BY <1>9 DEF Remembering
<1>11. Remembers(t, d, part)
  BY <1>0, <1>1, <1>2, <1>4, <1>6, <1>10 DEF Remembers
<1>12. Rests(t, d)
  BY <1>10 DEF Rests
<1> QED
  BY <1>0, <1>6, <1>7, <1>8, <1>10, <1>11, <1>12 DEF Sketching

LEMMA BoundariesSketching ==
    ASSUME SketchInv, ctl.on, edit.tool \in {"trim", "extend"},
           NEW t, t = [edit EXCEPT !.boundaries = edit.selected],
           NEW d, d = [ctl EXCEPT !.structural = part.revision]
    PROVE  Sketching(t, d, part)
<1>0. /\ edit \in Interactions /\ Coherent(edit) /\ edit.selected \subseteq Live(part)
      /\ Document(part) /\ Controller(ctl) /\ Holds(edit, part)
      /\ Remembers(edit, ctl, part)
  BY TakingUp DEF SketchInv
<1>1. edit.selected \in SUBSET Ids
  BY <1>0 DEF Interactions
<1>2. /\ t \in Interactions /\ t.boundaries = edit.selected
      /\ t.tool = edit.tool /\ t.stage = edit.stage /\ (t.pending <=> edit.pending)
      /\ t.selected = edit.selected /\ t.captured = edit.captured
      /\ t.target = edit.target /\ t.grip = edit.grip
  BY <1>0, <1>1 DEF Interactions
<1>3. Coherent(t)
  BY <1>0, <1>2 DEF Coherent
<1>4. Holds(t, part)
  BY <1>0, <1>2 DEF Holds
<1>5. Remembers(t, ctl, part)
  BY <1>0, <1>2 DEF Remembers, Revision
<1>6. Rests(t, ctl)
  BY DEF Rests
<1>7. Sketching(t, ctl, part)
  BY <1>0, <1>2, <1>3, <1>4, <1>5, <1>6 DEF Sketching
<1> QED
  BY <1>2, <1>7, StructuralSketching DEF StructuralTools

LEMMA CompleteChoiceKeeps == ASSUME SketchInv, CompleteChoice PROVE SketchInv'
<1>0. ctl.on /\ edit.selected # {}
  BY DEF CompleteChoice, Capturable
<1>1. CASE edit.stage = "objects" /\
           Become(Result(CompleteObjects(edit, Content(part)),
                         [ctl EXCEPT !.transform = part.revision], part), buffer)
  <2>1. PICK t, d : /\ t = CompleteObjects(edit, Content(part))
                    /\ d = [ctl EXCEPT !.transform = part.revision]
    OBVIOUS
  <2>2. Become(Result(t, d, part), buffer)
    BY <1>1, <2>1
  <2>3. Sketching(t, d, part)
    BY <1>0, <1>1, <2>1, ObjectsSketching
  <2>4. ~edit.pending
    BY <1>1, QuestionOf
  <2> QED
    BY <2>2, <2>3, <2>4, ResultKeeps
<1>2. CASE BoundariesPending(edit) /\
           Become(Result([edit EXCEPT !.boundaries = edit.selected],
                         [ctl EXCEPT !.structural = part.revision], part), buffer)
  <2>1. PICK t, d : /\ t = [edit EXCEPT !.boundaries = edit.selected]
                    /\ d = [ctl EXCEPT !.structural = part.revision]
    OBVIOUS
  <2>2. Become(Result(t, d, part), buffer)
    BY <1>2, <2>1
  <2>3. edit.tool \in {"trim", "extend"}
    BY <1>2 DEF BoundariesPending
  <2>4. Sketching(t, d, part)
    BY <1>0, <2>1, <2>3, BoundariesSketching
  <2>5. ~edit.pending
    BY <2>3, QuestionOf
  <2> QED
    BY <2>2, <2>4, <2>5, ResultKeeps
<1> QED
  BY <1>1, <1>2 DEF CompleteChoice

\* Select without a grip captures nothing, and no revision.
LEMMA IdleIs ==
    ASSUME SketchInv, edit.tool = "select", edit.grip = None
    PROVE  /\ ctl.transform = None /\ ctl.grip = None /\ ctl.structural = None
           /\ edit.captured = NoShapes /\ edit.boundaries = {} /\ edit.target = None
           /\ ~edit.pending
<1>1. Coherent(edit) /\ Remembers(edit, ctl, part)
  BY TakingUp DEF SketchInv
<1>2. ~edit.pending
  BY QuestionOf
<1> QED
  BY <1>1, <1>2 DEF Coherent, Remembers, TransformTools, StructuralTools

LEMMA DeleteSelectionKeeps == ASSUME SketchInv, DeleteSelection PROVE SketchInv'
<1> DEFINE rest == [id \in Live(part) \ edit.selected |-> Content(part)[id]]
           t == [edit EXCEPT !.selected = {}]
           q == Committed(part, rest)
<1>0. /\ Sketching(edit, ctl, part) /\ Document(part) /\ ctl.on /\ Editable(part)
      /\ edit.tool = "select" /\ edit.grip = None
  BY TakingUp DEF SketchInv, DeleteSelection, Idle
<1>1. /\ ctl.transform = None /\ ctl.grip = None /\ ctl.structural = None
      /\ edit.captured = NoShapes /\ edit.boundaries = {} /\ edit.target = None
      /\ ~edit.pending
  BY <1>0, IdleIs
<1>2. /\ rest \in Sketches /\ DOMAIN rest \subseteq 1..(part.next - 1)
  BY <1>0, ContentIs, SketchIs
<1>3. Become(Result(t, ctl, q), buffer)
  BY DEF DeleteSelection
<1> HIDE DEF rest, q
<1>4. Document(q)
  BY <1>0, <1>2, CommittedSketch DEF q
<1>5. /\ t.captured = edit.captured /\ t.boundaries = edit.boundaries
      /\ t.target = edit.target /\ t.selected = {}
  BY <1>0, TakingUp DEF Interactions
<1> HIDE DEF t
<1>6. Sketching(t, ctl, part) /\ t.tool = edit.tool
  BY <1>0, <1>1, SelectionSketching DEF t
<1>7. Holds(t, q)
  BY <1>1, <1>5, NoShapesIs DEF Holds
<1>8. Sketching(t, ctl, q)
  BY <1>0, <1>1, <1>4, <1>6, <1>7, OtherDocument
<1> QED
  BY <1>1, <1>3, <1>8, ResultKeeps

LEMMA SetRoleKeeps == ASSUME SketchInv, SetRole PROVE SketchInv'
<1>0. /\ Sketching(edit, ctl, part) /\ Document(part) /\ ctl.on /\ Editable(part)
      /\ edit.tool = "select" /\ edit.grip = None /\ edit.selected \subseteq Live(part)
  BY TakingUp DEF SketchInv, SetRole, Idle
<1>1. /\ ctl.transform = None /\ ctl.grip = None /\ ctl.structural = None
      /\ ~edit.pending
  BY <1>0, IdleIs
<1>2. PICK f \in Motions :
        Become(Result(edit, ctl,
                 Committed(part, Over([id \in edit.selected |-> f[Content(part)[id]]],
                                      Content(part)))), buffer)
  BY DEF SetRole
<1> DEFINE roles == [id \in edit.selected |-> f[Content(part)[id]]]
           content == Over(roles, Content(part))
           q == Committed(part, content)
<1>3. Become(Result(edit, ctl, q), buffer)
  BY <1>2
<1>4. /\ Content(part) \in Sketches /\ Live(part) \subseteq Ids
      /\ Live(part) \subseteq 1..(part.next - 1)
      /\ \A id \in Live(part) : Content(part)[id] \in Shapes
  BY <1>0, ContentIs
<1>5. roles \in Sketches /\ DOMAIN roles = edit.selected
  BY <1>0, <1>4, SketchIs DEF Motions
<1> HIDE DEF roles, q
<1>6. content \in Sketches /\ DOMAIN content = Live(part)
  <2>1. PICK g : g = Content(part)
    OBVIOUS
  <2>2. /\ DOMAIN Over(roles, g) = DOMAIN roles \cup DOMAIN g
        /\ g \in Sketches => Over(roles, g) \in Sketches
    BY <1>5, OverIs
  <2>3. g \in Sketches /\ DOMAIN g = Live(part)
    BY <1>4, <2>1 DEF Live
  <2>4. content = Over(roles, g)
    BY <2>1
  <2> HIDE DEF content
  <2> QED
    BY <1>0, <1>5, <2>2, <2>3, <2>4
<1> HIDE DEF content
<1>7. Document(q) /\ Live(q) = Live(part)
  BY <1>0, <1>4, <1>6, CommittedSketch DEF q
<1>8. Holds(edit, q)
  BY <1>0, <1>7, TakingUp DEF Holds
<1>9. Sketching(edit, ctl, q)
  BY <1>0, <1>1, <1>7, <1>8, OtherDocument
<1> QED
  BY <1>1, <1>3, <1>9, ResultKeeps

LEMMA StartProfileKeeps ==
    ASSUME SketchInv, NEW kind \in {"create", "edit"}, StartProfile(kind)
    PROVE  SketchInv'
<1> DEFINE profile == [kind |-> kind, draft |-> kind = "edit", revision |-> part.revision]
           s == Fresh("select", {})
           c == Forgetting(ctl)
           e == [c EXCEPT !.profile = profile]
           d == Configured(s, e)
           r == Result(s, d, part)
<1>0. Document(part) /\ ctl.on /\ part.revision \in Revisions
  BY TakingUp DEF SketchInv, StartProfile
<1>1. Become(r, buffer)
  BY DEF StartProfile
<1>2. profile \in Profiles
  <2>1. (kind = "edit") \in BOOLEAN
    OBVIOUS
  <2> QED
    BY <1>0, <2>1 DEF Profiles
<1>3. r.s = s /\ r.c = d /\ r.p = part
  BY DEF Result
<1>4. s.tool = "select"
  BY DEF Fresh
<1> HIDE DEF profile, s, c, e, d, r
<1>5. Remembering(c, ctl.on, None, None, None, ctl.structural, None)
  BY ForgettingIs DEF c
<1>6. Controller(c) /\ c.on /\ c.transform = None /\ c.grip = None /\ c.rectangle = None
  BY <1>0, <1>5 DEF Remembering
<1>7. Remembering(e, c.on, c.transform, c.grip, c.rectangle, c.structural, profile)
  BY <1>6, WithProfileIs DEF e
<1>8. /\ Controller(e) /\ e.on /\ e.transform = None /\ e.grip = None
      /\ e.rectangle = None /\ e.profile = profile
  BY <1>6, <1>7 DEF Remembering
<1>9. Remembering(d, e.on, e.transform, e.grip, e.rectangle, None, e.profile)
  <2>1. s.tool \notin StructuralTools
    BY <1>4 DEF StructuralTools
  <2> QED
    BY <1>8, <2>1, ConfiguredIs DEF d
<1>10. /\ Controller(d) /\ d.on /\ d.transform = None /\ d.grip = None
       /\ d.rectangle = None /\ d.structural = None /\ d.profile = profile
  BY <1>8, <1>9 DEF Remembering
<1>11. Sketching(r.s, r.c, r.p)
  BY <1>0, <1>2, <1>3, <1>10, SelectSketching DEF s
<1>12. ~edit.pending \/ r.s.tool # edit.tool
  BY <1>3, <1>4, SelectAsksNothing
<1> QED
  BY <1>1, <1>11, <1>12, BecomeKeeps

LEMMA FinishProfileKeeps == ASSUME SketchInv, FinishProfile PROVE SketchInv'
<1> DEFINE d == NoProfile(ctl)
<1>0. /\ Sketching(edit, ctl, part) /\ Document(part) /\ ctl.on /\ edit.tool = "select"
      /\ edit.grip = None /\ Holds(edit, part)
  BY TakingUp DEF SketchInv, FinishProfile, Remembers
<1>1. /\ ctl.transform = None /\ ctl.grip = None /\ ctl.structural = None
      /\ ~edit.pending
  BY <1>0, IdleIs
<1>2. PICK q \in {Committed(part, Content(part)), part} :
        (q # part => Editable(part)) /\ Become(Result(edit, d, q), buffer)
  BY DEF FinishProfile
<1> HIDE DEF d
<1>3. /\ Sketching(edit, d, part) /\ d.on /\ d.transform = ctl.transform
      /\ d.grip = ctl.grip /\ d.structural = ctl.structural
  BY <1>0, ProfileSketching DEF d, NoProfile
<1>4. Document(q) /\ Live(q) = Live(part)
  BY <1>0, <1>2, SameSketch
<1>5. Holds(edit, q)
  BY <1>0, <1>4 DEF Holds
<1>6. Sketching(edit, d, q)
  BY <1>0, <1>1, <1>3, <1>4, <1>5, OtherDocument
<1> QED
  BY <1>1, <1>2, <1>6, ResultKeeps
-----------------------------------------------------------------------------
(* The theorems *)

LEMMA SketchInvInit == Init => SketchInv
<1> SUFFICES ASSUME Init PROVE SketchInv
  OBVIOUS
<1> DEFINE P(next) == [revision |-> Len(Before), timeline |-> Before,
                       position |-> Len(Before), next |-> next]
<1>1. PICK next \in 1..(MaxId + 1) :
        /\ \A i \in 1..Len(Before) : DOMAIN Before[i] \subseteq 1..(next - 1)
        /\ part = P(next) /\ edit = Closed(P(next)).s /\ ctl = Closed(P(next)).c
        /\ buffer = None
  BY DEF Init
<1>2. Before \in Seq(Sketches) /\ Len(Before) \in Revisions /\ Len(Before) \in Nat
  BY SketchAssumption DEF Sketches, Ids, Revisions
<1>3. Len(Before) \in 1..Len(Before)
  BY <1>2 DEF Revisions
<1>4. Document(part)
  BY <1>1, <1>2, <1>3 DEF Document
<1>5. PICK r : r = Closed(part)
  OBVIOUS
<1>6. edit = r.s /\ ctl = r.c
  BY <1>1, <1>5
<1>7. Sketching(r.s, r.c, r.p) /\ ~r.c.on /\ r.p = part
  BY <1>4, <1>5, ClosedIs
<1> QED
  BY <1>1, <1>6, <1>7 DEF SketchInv, Telling

LEMMA SketchInvStep == SketchInv /\ [Next]_vars => SketchInv'
<1> SUFFICES ASSUME SketchInv, [Next]_vars PROVE SketchInv'
  OBVIOUS
<1>1. ASSUME NEW tool \in Tools, TakeTool(tool) PROVE SketchInv'
  <2>1. ctl.on /\ Become(Activating(tool), buffer)
    BY <1>1 DEF TakeTool
  <2>2. tool \in AllTools
    BY SketchAssumption
  <2> QED
    BY <2>1, <2>2, ActivatingKeeps
<1>2. CASE TypeText
  BY <1>2, TextKeeps DEF TypeText
<1>3. CASE EraseText
  <2>1. ctl.on
    BY <1>3 DEF SketchInv, Telling, EraseText
  <2> QED
    BY <1>3, <2>1, TextKeeps DEF EraseText
<1>4. CASE UNCHANGED vars
  BY <1>4 DEF vars, SketchInv, Telling
<1>5. ASSUME NEW kind \in {"create", "edit"}, StartProfile(kind) PROVE SketchInv'
  BY <1>5, StartProfileKeeps
<1>6. ASSUME NEW aid \in Aids, TakeAid(aid) PROVE SketchInv'
  BY <1>6, TakeAidKeeps
<1>7. CASE OpenSketch \/ LeaveSketch \/ MovePointer \/ Press
  BY <1>7, OpenSketchKeeps, LeaveSketchKeeps, MovePointerKeeps, PressKeeps
<1>8. CASE SubmitText \/ LockText \/ CompleteChoice \/ EnterCommits \/ Escape
  BY <1>8, SubmitTextKeeps, LockTextKeeps, CompleteChoiceKeeps, EnterCommitsKeeps,
     EscapeKeeps
<1>9. CASE \/ CycleGripMode \/ KeepOriginal \/ MeasureBetween \/ DeleteSelection
           \/ SetRole \/ FinishProfile
  BY <1>9, CycleGripModeKeeps, KeepOriginalKeeps, MeasureBetweenKeeps,
     DeleteSelectionKeeps, SetRoleKeeps, FinishProfileKeeps
<1>10. CASE Undo \/ Redo \/ Save \/ ProjectOrBreak \/ OtherEdit
  BY <1>10, HistoryKeeps, SaveKeeps, ProjectOrBreakKeeps, OtherEditKeeps
<1> QED
  BY <1>1, <1>2, <1>3, <1>4, <1>5, <1>6, <1>7, <1>8, <1>9, <1>10 DEF Next

\* The inductive invariant of the sketch editor: what is held, remembered
\* and told goes with the tool, its stage and the present sketch.
THEOREM SketchInvAlways == Spec => []SketchInv
<1> QED
  BY SketchInvInit, SketchInvStep, PTL DEF Spec

LEMMA SketchInvTypes == SketchInv => TypeOK
<1> SUFFICES ASSUME SketchInv PROVE TypeOK
  OBVIOUS
<1>0. /\ Document(part) /\ edit \in Interactions /\ Controller(ctl)
      /\ Remembers(edit, ctl, part) /\ part.revision \in Revisions
  BY TakingUp DEF SketchInv
<1>1. /\ part.revision \in 1..MaxRevision /\ part.next \in 1..(MaxId + 1)
      /\ part.position \in 1..Len(part.timeline)
      /\ \A i \in 1..Len(part.timeline) : DOMAIN part.timeline[i] \subseteq 1..(part.next - 1)
  BY <1>0 DEF Document, Revisions
<1>2. \A i \in 1..Len(part.timeline) :
        part.timeline[i] \in [DOMAIN part.timeline[i] -> Shapes]
  <2> TAKE i \in 1..Len(part.timeline)
  <2>1. part.timeline[i] \in Sketches
    BY <1>0, ElementOfSeq DEF Document
  <2> QED
    BY <2>1, SketchIs
<1>3. IsInteraction(edit, Ids)
  <2>1. /\ edit.tool \in AllTools /\ edit.stage \in Stages
        /\ edit.pending \in BOOLEAN /\ edit.candidate \in BOOLEAN
        /\ edit.locks \subseteq {"field", "size"}
        /\ edit.aids \subseteq {"override", "tracking"}
        /\ edit.selected \subseteq Ids /\ edit.boundaries \subseteq Ids
        /\ edit.captured \in Sketches
        /\ edit.preview \in Motions \cup {None} /\ edit.explicit \in Motions \cup {None}
        /\ edit.target \in Ids \cup {None} /\ edit.grip \in Grips \cup {None}
    BY <1>0 DEF Interactions
  <2>2. DOMAIN edit.captured \subseteq Ids
        /\ edit.captured \in [DOMAIN edit.captured -> Shapes]
    BY <2>1, SketchIs
  <2>3. Kept(edit.preview) /\ Kept(edit.explicit)
    BY <2>1 DEF Kept
  <2> QED
    BY <2>1, <2>2, <2>3 DEF IsInteraction, Grips
<1>4. \A r \in {"transform", "grip", "rectangle", "structural"} :
        ctl[r] \in 1..MaxRevision \cup {None}
  BY <1>0 DEF Remembers, Revisions
<1> QED
  BY <1>1, <1>2, <1>3, <1>4 DEF TypeOK

\* Whatever an edit holds on to is still in the sketch.
THEOREM HeldIsLiveAlways == Spec => []HoldsOnlyLive
<1>1. SketchInv => HoldsOnlyLive
  <2> SUFFICES ASSUME SketchInv PROVE HoldsOnlyLive
    OBVIOUS
  <2>1. TypeOK
    BY SketchInvTypes
  <2>2. Holds(edit, part) /\ Coherent(edit)
    BY TakingUp DEF SketchInv
  <2> QED
    BY <2>1, <2>2 DEF HoldsOnlyLive, Holds, Coherent
<1> QED
  BY <1>1, SketchInvAlways, PTL

\* A text that can still be submitted answers the question that is asked.
THEOREM TypedAlwaysAnswers == Spec => []TypedForThisQuestion
<1>1. SketchInv => TypedForThisQuestion
  BY DEF SketchInv, Telling, TypedForThisQuestion
<1> QED
  BY <1>1, SketchInvAlways, PTL

\* The revision an edit has captured is the revision of the document, or
\* it has been forgotten.
THEOREM EditsAreNeverStale == Spec => []NeverStale
<1>1. SketchInv => NeverStale
  BY TakingUp DEF SketchInv, Remembers, NeverStale
<1> QED
  BY <1>1, SketchInvAlways, PTL
-----------------------------------------------------------------------------
(* Commits and Escape *)

\* A commit of an edit that has a revision replaces what was captured under it.
LEMMA SoundCommits ==
    ASSUME SketchInv, part' # part, Sound(edit, ctl, part, part')
    PROVE  /\ \A id \in DOMAIN edit.captured :
                id \in Live(part) /\ Content(part)[id] = edit.captured[id]
           /\ \A id \in Live(part) \ DOMAIN edit.captured :
                id \in Live(part') /\ Content(part')[id] = Content(part)[id]
<1>1. Holds(edit, part) /\ Remembers(edit, ctl, part)
  BY TakingUp DEF SketchInv
<1> QED
  BY <1>1 DEF Sound, Holds, Remembers

LEMMA BecomePart ==
    ASSUME NEW s, NEW c, NEW p, NEW text,
           Become(Result(s, c, p), text) \/ BecomeQuietly(Result(s, c, p), text)
    PROVE  part' = p /\ edit' = s
BY DEF Become, BecomeQuietly, Result

\* While existing geometry is edited no other tool of the pointer is active.
LEMMA EditingIs ==
    ASSUME NEW s \in Interactions, Coherent(s), Editing(s)
    PROVE  /\ s.tool \notin CreationTools /\ s.tool \notin StructuralTools
           /\ s.stage \notin CreationStages /\ ~PairRequested(s)
           /\ s.stage \notin {"radius", "arc_point"}
<1>1. s.tool \in TransformTools \cup {"select"}
  BY DEF Editing, Coherent, Interactions, StagesOf, AllTools, TransformTools,
     CreationTools, StructuralTools, FinalStages
<1>2. s.tool \notin CreationTools /\ s.tool \notin StructuralTools
  BY <1>1 DEF TransformTools, CreationTools, StructuralTools
<1>3. s.stage \notin CreationStages
  BY <1>2, CreationStageIs
<1> QED
  BY <1>2, <1>3 DEF CreationStages, PairRequested

LEMMA PressCommits ==
    ASSUME SketchInv, Editing(edit), Press
    PROVE  part' = part \/ Sound(edit, ctl, part, part')
<1>0. /\ edit \in Interactions /\ Coherent(edit) /\ ctl.on
      /\ edit.tool \notin CreationTools /\ edit.tool \notin StructuralTools
  BY TakingUp, EditingIs DEF SketchInv, Press
<1>1. CASE PressFinal
  BY <1>0, <1>1, PressFinalKeeps
<1>2. CASE PressDrawing
  BY <1>0, <1>2 DEF PressDrawing
<1>3. CASE PressTarget \/ PressFirstLine \/ PressSecondLine
  BY <1>0, <1>3 DEF PressTarget, PressFirstLine, PressSecondLine, StructuralTools
<1>4. CASE PressReference
  BY <1>4, BecomePart DEF PressReference
<1>5. CASE PressSelecting
  BY <1>5, BecomePart DEF PressSelecting
<1>6. CASE PressGrip
  BY <1>6, BecomePart DEF PressGrip
<1>7. CASE PressBoundary
  BY <1>7, BecomePart DEF PressBoundary
<1>8. CASE PressMeasured
  BY <1>8, BecomePart DEF PressMeasured
<1>9. CASE PressProfile
  BY <1>9, BecomePart DEF PressProfile
<1> QED
  BY <1>1, <1>2, <1>3, <1>4, <1>5, <1>6, <1>7, <1>8, <1>9 DEF Press

LEMMA SubmitCommits ==
    ASSUME SketchInv, Editing(edit), SubmitText
    PROVE  part' = part \/ Sound(edit, ctl, part, part')
<1>0. /\ edit \in Interactions /\ Coherent(edit) /\ ctl.on
      /\ edit.tool \notin CreationTools /\ edit.stage \notin CreationStages
      /\ ~PairRequested(edit) /\ edit.stage \notin {"radius", "arc_point"}
  BY TakingUp, EditingIs DEF SketchInv, SubmitText
<1>1. CASE SubmitPair
  BY <1>0, <1>1 DEF SubmitPair
<1>2. ASSUME NEW m \in Motions \cup {None},
             NEW r \in CommitEdit([edit EXCEPT !.preview = m], ctl), Become(r, None)
      PROVE  Sound(edit, ctl, part, part')
  BY <1>0, <1>2, CommitTyped
<1>3. CASE SubmitPoint
  <2>1. \/ \E m \in Motions \cup {None} :
             \E r \in CommitEdit([edit EXCEPT !.preview = m], ctl) : Become(r, None)
        \/ Become(Result(TakeTransformPoint(edit), ctl, part), None)
    BY <1>0, <1>3 DEF SubmitPoint
  <2> QED
    BY <1>2, <2>1, BecomePart
<1>4. CASE SubmitValue
  <2>1. PICK m \in Motions : \E r \in CommitEdit(TypeValue(edit, m), ctl) : Become(r, None)
    BY <1>0, <1>4 DEF SubmitValue
  <2> QED
    BY <1>0, <2>1, ValueTyped
<1>5. CASE SubmitDistance
  <2>1. \E m \in Motions \cup {None} :
          \E r \in CommitEdit([edit EXCEPT !.preview = m], ctl) : Become(r, None)
    BY <1>0, <1>5 DEF SubmitDistance, CreationTools
  <2> QED
    BY <1>2, <2>1
<1>6. CASE SubmitGripCopy
  BY <1>6, BecomePart DEF SubmitGripCopy
<1>7. CASE SubmitCommand
  BY <1>7, BecomePart DEF SubmitCommand, Activating
<1>8. CASE BecomeQuietly(Result(edit, ctl, part), None)
  BY <1>8, BecomePart
<1> QED
  BY <1>1, <1>3, <1>4, <1>5, <1>6, <1>7, <1>8 DEF SubmitText

\* An edit replaces geometry that is what it was when it was captured, and
\* no other: whatever happened between, the commit finds its revision or fails.
THEOREM CommitsAreSound == Spec => CommitsWhatItCaptured
<1>1. SketchInv /\ [Next]_vars =>
        [/\ part' # part /\ Editing(edit)
         /\ Press \/ SubmitText \/ EnterCommits
         => /\ \A id \in DOMAIN edit.captured :
                  id \in Live(part) /\ Content(part)[id] = edit.captured[id]
            /\ \A id \in Live(part) \ DOMAIN edit.captured :
                  id \in Live(part') /\ Content(part')[id] = Content(part)[id]]_vars
  <2> SUFFICES ASSUME SketchInv, part' # part, Editing(edit),
                      Press \/ SubmitText \/ EnterCommits
               PROVE  /\ \A id \in DOMAIN edit.captured :
                            id \in Live(part) /\ Content(part)[id] = edit.captured[id]
                      /\ \A id \in Live(part) \ DOMAIN edit.captured :
                            id \in Live(part') /\ Content(part')[id] = Content(part)[id]
    OBVIOUS
  <2>1. Sound(edit, ctl, part, part')
    BY PressCommits, SubmitCommits, EnterCommitsKeeps
  <2> QED
    BY <2>1, SoundCommits
<1> QED
  BY <1>1, SketchInvAlways, PTL DEF Spec, CommitsWhatItCaptured
\* What Rank adds up.
Typed(s) == IF s.locks # {} \/ s.explicit # None THEN 3 ELSE 0
Depth(s) ==
    IF s.grip # None THEN 2
    ELSE IF s.tool = "select" THEN IF s.selected = {} THEN 0 ELSE 1
    ELSE IF s.stage = FirstStage[s.tool] THEN 3 ELSE 4

LEMMA RankIs ==
    ASSUME NEW s, s.aids \in SUBSET {"override", "tracking"}
    PROVE  /\ Cardinality(s.aids) \in Nat /\ (Cardinality(s.aids) = 0 <=> s.aids = {})
           /\ Rank(s) = Cardinality(s.aids) + Typed(s) + 6 * Depth(s)
           /\ Typed(s) \in {0, 3} /\ Depth(s) \in 0..4
<1>1. IsFiniteSet({"override", "tracking"})
  <2>1. IsFiniteSet({"override"})
    BY FS_Singleton
  <2>2. IsFiniteSet({"override"} \cup {"tracking"})
    BY <2>1, FS_AddElement
  <2>3. {"override"} \cup {"tracking"} = {"override", "tracking"}
    OBVIOUS
  <2> QED
    BY <2>2, <2>3
<1>2. IsFiniteSet(s.aids)
  BY <1>1, FS_Subset
<1>3. Cardinality(s.aids) \in Nat /\ (Cardinality(s.aids) = 0 <=> s.aids = {})
  BY <1>2, FS_CardinalityType, FS_EmptySet
<1>4. Rank(s) = Cardinality(s.aids) + Typed(s) + 6 * Depth(s)
  BY DEF Rank, Typed, Depth
<1>5. Typed(s) \in {0, 3} /\ Depth(s) \in 0..4
  BY DEF Typed, Depth
<1> QED
  BY <1>3, <1>4, <1>5

\* Each branch of Escape takes back something, or there is nothing left.
LEMMA EscapedRank ==
    ASSUME NEW s \in Interactions, Coherent(s), NEW t, t = Escaped(s)
    PROVE  /\ Rank(t) < Rank(s) \/ (t = s /\ Rank(s) = 0)
           /\ t.selected # s.selected => Rank(s) = 6
<1>0. /\ s.aids \in SUBSET {"override", "tracking"} /\ t \in Interactions
      /\ t.aids \in SUBSET {"override", "tracking"}
      /\ s.tool \in AllTools /\ s.selected \in SUBSET Ids
  BY EscapedIs DEF Interactions
<1>1. /\ Cardinality(s.aids) \in Nat /\ (Cardinality(s.aids) = 0 <=> s.aids = {})
      /\ Rank(s) = Cardinality(s.aids) + Typed(s) + 6 * Depth(s)
      /\ Typed(s) \in {0, 3} /\ Depth(s) \in 0..4
  BY <1>0, RankIs
<1>2. /\ Cardinality(t.aids) \in Nat /\ (Cardinality(t.aids) = 0 <=> t.aids = {})
      /\ Rank(t) = Cardinality(t.aids) + Typed(t) + 6 * Depth(t)
      /\ Typed(t) \in {0, 3} /\ Depth(t) \in 0..4
  BY <1>0, RankIs
<1>3. CASE s.aids # {}
  <2>1. t = [s EXCEPT !.aids = {}]
    BY <1>3 DEF Escaped
  <2>2. /\ t.aids = {} /\ t.locks = s.locks /\ t.explicit = s.explicit
        /\ t.grip = s.grip /\ t.tool = s.tool /\ t.selected = s.selected
        /\ t.stage = s.stage
    BY <2>1 DEF Interactions
  <2>3. Typed(t) = Typed(s) /\ Depth(t) = Depth(s)
    BY <2>2 DEF Typed, Depth
  <2>4. Cardinality(t.aids) = 0 /\ Cardinality(s.aids) > 0
    BY <1>1, <1>2, <1>3, <2>2
  <2> QED
    BY <1>1, <1>2, <2>2, <2>3, <2>4
<1>4. CASE s.aids = {} /\ (s.locks # {} \/ s.explicit # None)
  <2>1. t = [s EXCEPT !.locks = {}, !.explicit = None]
    BY <1>4 DEF Escaped
  <2>2. /\ t.aids = s.aids /\ t.locks = {} /\ t.explicit = None
        /\ t.grip = s.grip /\ t.tool = s.tool /\ t.selected = s.selected
        /\ t.stage = s.stage
    BY <2>1 DEF Interactions
  <2>3. Typed(t) = 0 /\ Typed(s) = 3 /\ Depth(t) = Depth(s)
    BY <1>4, <2>2 DEF Typed, Depth
  <2> QED
    BY <1>1, <1>2, <2>2, <2>3
<1> DEFINE bare == s.aids = {} /\ s.locks = {} /\ s.explicit = None
<1>5. bare => Rank(s) = 6 * Depth(s)
  BY <1>1 DEF Typed
<1>6. t.aids = {} /\ t.locks = {} /\ t.explicit = None => Rank(t) = 6 * Depth(t)
  BY <1>2 DEF Typed
<1>7. ASSUME NEW tool, NEW f, f = Fresh(tool, s.selected)
      PROVE  /\ f.aids = {} /\ f.locks = {} /\ f.explicit = None /\ f.grip = None
             /\ f.tool = tool /\ f.selected = s.selected /\ f.stage = FirstStage[tool]
  BY <1>7 DEF Fresh
<1>8. CASE bare /\ s.grip # None
  <2>1. t = [Fresh("select", s.selected) EXCEPT !.aids = s.aids \ {"override"}]
    BY <1>8 DEF Escaped, CancelGrip, ToSelect, Activate
  <2>2. /\ t.aids = {} /\ t.locks = {} /\ t.explicit = None /\ t.grip = None
        /\ t.tool = "select" /\ t.selected = s.selected
    BY <1>8, <2>1 DEF Fresh
  <2>3. Depth(t) \in 0..1 /\ Depth(s) = 2
    BY <1>8, <2>2 DEF Depth
  <2> QED
    BY <1>5, <1>6, <1>8, <2>2, <2>3
<1>9. CASE /\ bare /\ s.grip = None /\ s.tool \in CreationTools
           /\ s.stage # FirstStage[s.tool]
  <2>1. t = Fresh(s.tool, s.selected)
    BY <1>9 DEF Escaped, Activate
  <2>2. /\ t.aids = {} /\ t.locks = {} /\ t.explicit = None /\ t.grip = None
        /\ t.tool = s.tool /\ t.selected = s.selected /\ t.stage = FirstStage[s.tool]
    BY <1>7, <2>1
  <2>3. Depth(t) = 3 /\ Depth(s) = 4
    BY <1>9, <2>2 DEF Depth, CreationTools
  <2> QED
    BY <1>5, <1>6, <1>9, <2>2, <2>3
<1>10. CASE /\ bare /\ s.grip = None
            /\ ~(s.tool \in CreationTools /\ s.stage # FirstStage[s.tool])
            /\ s.stage = "between"
  <2>1. t = [s EXCEPT !.stage = "single"]
    BY <1>10 DEF Escaped
  <2>2. /\ t.aids = {} /\ t.locks = {} /\ t.explicit = None /\ t.grip = None
        /\ t.tool = s.tool /\ t.selected = s.selected /\ t.stage = "single"
    BY <1>10, <2>1 DEF Interactions
  <2>3. s.tool = "measure"
    BY <1>0, <1>10 DEF Coherent, StagesOf, AllTools, TransformTools, CreationTools,
       StructuralTools
  <2>4. FirstStage[s.tool] = "single"
    BY <1>0, <2>3, FirstStageIs
  <2>5. Depth(t) = 3 /\ Depth(s) = 4
    BY <1>10, <2>2, <2>3, <2>4 DEF Depth
  <2> QED
    BY <1>5, <1>6, <1>10, <2>2, <2>5
<1> DEFINE left == /\ bare /\ s.grip = None
                   /\ ~(s.tool \in CreationTools /\ s.stage # FirstStage[s.tool])
                   /\ s.stage # "between"
<1>11. CASE left /\ s.tool = "select"
  <2>1. t = [s EXCEPT !.selected = {}]
    BY <1>11 DEF Escaped
  <2>2. /\ t.aids = {} /\ t.locks = {} /\ t.explicit = None /\ t.grip = None
        /\ t.tool = "select" /\ t.selected = {}
    BY <1>11, <2>1 DEF Interactions
  <2>3. Depth(t) = 0
    BY <2>2 DEF Depth
  <2>4. CASE s.selected = {}
    <3>1. t = s
      BY <2>1, <2>4 DEF Interactions
    <3> QED
      BY <1>6, <2>2, <2>3, <3>1
  <2>5. CASE s.selected # {}
    <3>1. Depth(s) = 1
      BY <1>11, <2>5 DEF Depth
    <3> QED
      BY <1>5, <1>6, <1>11, <2>2, <2>3, <3>1
  <2> QED
    BY <2>4, <2>5
<1>12. CASE left /\ s.tool # "select"
  <2>1. t = Fresh("select", s.selected)
    BY <1>12 DEF Escaped, ToSelect, Activate
  <2>2. /\ t.aids = {} /\ t.locks = {} /\ t.explicit = None /\ t.grip = None
        /\ t.tool = "select" /\ t.selected = s.selected
    BY <1>7, <2>1
  <2>3. Depth(t) \in 0..1 /\ Depth(s) \in 3..4
    BY <1>12, <2>2 DEF Depth
  <2> QED
    BY <1>5, <1>6, <1>12, <2>2, <2>3
<1> QED
  BY <1>3, <1>4, <1>8, <1>9, <1>10, <1>11, <1>12

\* The motion that shows again when a typed one is dropped is no step.
LEMMA UncoveredRank ==
    ASSUME NEW before, NEW s \in Interactions, NEW t \in Uncovered(before, s)
    PROVE  /\ Rank(t) = Rank(s) /\ t.selected = s.selected
           /\ s = before => t = s
<1>1. t = s \/ (s # before /\ \E m \in Motions \cup {None} : t = [s EXCEPT !.preview = m])
  BY DEF Uncovered
<1>2. ASSUME NEW m, t = [s EXCEPT !.preview = m]
      PROVE  Rank(t) = Rank(s) /\ t.selected = s.selected
  <2>1. /\ t.aids = s.aids /\ t.locks = s.locks /\ t.explicit = s.explicit
        /\ t.grip = s.grip /\ t.tool = s.tool /\ t.selected = s.selected
        /\ t.stage = s.stage
    BY <1>2 DEF Interactions
  <2> QED
    BY <2>1 DEF Rank
<1> QED
  BY <1>1, <1>2

LEMMA EscapeRank ==
    ASSUME SketchInv, Escape
    PROVE  /\ part' = part
           /\ edit' # edit => Rank(edit') < Rank(edit)
           /\ edit' = edit => ctl.profile # None \/ Rank(edit) = 0
           /\ edit'.selected # edit.selected => Rank(edit) = 6
<1>1. edit \in Interactions /\ Coherent(edit)
  BY TakingUp DEF SketchInv
<1>2. CASE ctl.profile # None
  <2>1. Become(Result(edit, NoProfile(ctl), part), buffer)
    BY <1>2 DEF Escape
  <2> QED
    BY <1>2, <2>1, BecomePart
<1>3. CASE ctl.profile = None
  <2>1. PICK t \in Uncovered(edit, Escaped(edit)) :
          Become(Result(t, EscapedCtl(t), part), buffer)
    BY <1>3 DEF Escape
  <2>2. part' = part /\ edit' = t
    BY <2>1, BecomePart
  <2>3. PICK s : s = Escaped(edit)
    OBVIOUS
  <2>4. /\ Rank(s) < Rank(edit) \/ (s = edit /\ Rank(edit) = 0)
        /\ s.selected # edit.selected => Rank(edit) = 6
        /\ s \in Interactions
    BY <1>1, <2>3, EscapedRank, EscapedIs
  <2>5. Rank(t) = Rank(s) /\ t.selected = s.selected /\ (s = edit => t = s)
    BY <2>1, <2>3, <2>4, UncoveredRank
  <2>6. Rank(edit) \in Nat
    <3>1. edit.aids \in SUBSET {"override", "tracking"}
      BY <1>1 DEF Interactions
    <3> QED
      BY <3>1, RankIs
  <2>7. Rank(t) < Rank(edit) \/ (t = edit /\ Rank(edit) = 0)
    BY <2>4, <2>5
  <2> QED
    BY <2>2, <2>4, <2>5, <2>6, <2>7
<1> QED
  BY <1>2, <1>3

\* Escape takes back one thing at a time until nothing is left.
THEOREM EscapeComesToAnEnd == Spec => EscapeStepsBack
<1>1. SketchInv /\ [Next]_vars =>
        [Escape
         => /\ part' = part
            /\ edit' # edit => Rank(edit') < Rank(edit)
            /\ edit' = edit => ctl.profile # None \/ Rank(edit) = 0
            /\ edit'.selected # edit.selected => Rank(edit) = 6]_vars
  BY EscapeRank
<1> QED
  BY <1>1, SketchInvAlways, PTL DEF Spec, EscapeStepsBack
=============================================================================
