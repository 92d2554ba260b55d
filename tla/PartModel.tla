----------------------------- MODULE PartModel -----------------------------
(***************************************************************************)
(* The authored state of a Part: datum planes, sketches, axes, profiles    *)
(* and the ordered features of its body, as far as they refer to one       *)
(* another, and PartDocument::validAuthoredState, which every commit       *)
(* passes.                                                                 *)
(*                                                                         *)
(* There is no dependency graph in the code.  Objects refer to each other  *)
(* by id, to geometry of the body by a stage (the feature after which the  *)
(* body is meant) and the producer of the face, edge or point, and         *)
(* validAuthoredState keeps what would be a cycle out by comparing         *)
(* positions in the feature history.                                       *)
(*                                                                         *)
(* Names, units, visibility, dimensions and geometry are left out.  An     *)
(* address of a face, edge or point is represented by its stage and its    *)
(* producer; the provenance nested in it, which is bounded by the          *)
(* producer, is not.  Edge-point and three-point datum planes are "edge"   *)
(* and "points"; the three points have one stage.                          *)
(***************************************************************************)
EXTENDS Naturals, Sequences, FiniteSets

CONSTANTS
    SketchIds,      \* random ids of sketches
    MaxId,          \* stands for the largest 64-bit id
    NoId            \* no profile, or a built-in axis

ASSUME PartAssumption == MaxId \in Nat \ {0} /\ NoId = 0

Counted == {"datum", "axis", "profile", "feature"}

Ids == 1 .. MaxId

\* What a plane, an axis or an edge feature can refer to.
Origin == [kind |-> "origin"]
OnDatum(d) == [kind |-> "datum", id |-> d]
OnBody(kind, stage, producer) ==
    [kind |-> kind, stage |-> stage, producer |-> producer]
OnLine(k, e) == [kind |-> "line", sketch |-> k, entity |-> e]

-----------------------------------------------------------------------------
(* Finding things *)

Positions(part, f) == {i \in DOMAIN part.features : part.features[i].id = f}

Present(part, f) == Positions(part, f) # {}

\* Feature f, if it is there, is before position i.
Before(part, f, i) == \A j \in Positions(part, f) : j < i

Allocated(part, kind, id) == id \in 1 .. (part.next[kind] - 1)

SketchOf(part, k) == {s \in part.sketches : s.id = k}

IdsOf(set) == {x.id : x \in set}

OffsetDatums(part) == {d \in part.datums : d.kind = "offset"}

UniqueIds(set) == \A x, y \in set : x.id = y.id => x = y

-----------------------------------------------------------------------------
(* References to the body *)

\* semanticSurfaceHistoryValid, semanticPointHistoryValid and
\* semanticEdgeHistoryValid with the stage as cap.
Provenance(part, ref) ==
    /\ Allocated(part, "feature", ref.stage)
    /\ Allocated(part, "feature", ref.producer)
    /\ ref.producer <= ref.stage

\* Stage and producer must still be there.
SurfaceValid(part, ref) ==
    /\ Present(part, ref.stage)
    /\ Present(part, ref.producer)
    /\ \A i \in Positions(part, ref.stage) : \E j \in Positions(part, ref.producer) : j <= i
    /\ Provenance(part, ref)

-----------------------------------------------------------------------------
(* Datum planes *)

OffsetDatumsValid(part) ==
    \A d \in OffsetDatums(part) :
        /\ d.source.kind = "surface" => SurfaceValid(part, d.source)
        /\ d.source.kind = "datum" => d.source.id \in IdsOf(OffsetDatums(part))

\* An edge datum keeps a source that was deleted, whatever it was.
PointDatumsValid(part) ==
    \A d \in part.datums : d.kind = "points" => Provenance(part, d.source)

\* No offset datum is reached again from itself.
DatumsAcyclic(part) ==
    ~ \E loop \in SUBSET OffsetDatums(part) :
        /\ loop # {}
        /\ \A d \in loop : d.source.kind = "datum" /\ d.source.id \in IdsOf(loop)

DatumsValid(part) ==
    /\ \A d \in part.datums : Allocated(part, "datum", d.id)
    /\ UniqueIds(part.datums)
    /\ OffsetDatumsValid(part)
    /\ PointDatumsValid(part)
    /\ DatumsAcyclic(part)

\* The datum with this id and those it is offset from, one after the other:
\* what is in every set with the first and the source of each.
DatumChain(datums, id) ==
    LET Closed(set) ==
            \A d \in datums :
                \/ d.id = id
                \/ \E c \in set : c.source.kind = "datum" /\ c.source.id = d.id
                => d \in set
    IN  {d \in datums : \A set \in SUBSET datums : Closed(set) => d \in set}

\* required_body_stage_for_support: the stages (at most one) a support needs.
StagesOf(datums, support) ==
    CASE support.kind = "surface" -> {support.stage}
      [] support.kind = "datum" ->
            {d.source.stage : d \in {c \in DatumChain(datums, support.id) :
                                        c.source.kind \notin {"origin", "datum"}}}
      [] OTHER -> {}

-----------------------------------------------------------------------------
(* Who consumes what *)

ConsumesProfile(feature, p) == feature.profile = p /\ p # NoId

ConsumesAxis(feature, a) == feature.axis = a /\ a # NoId

\* Positions of the features that consume a profile, or an axis, of sketch k.
ConsumersByProfile(part, k) ==
    {i \in DOMAIN part.features :
        \E p \in part.profiles : p.sketch = k /\ ConsumesProfile(part.features[i], p.id)}

ConsumersByAxis(part, k) ==
    {i \in DOMAIN part.features :
        \E a \in part.axes : /\ a.source.kind = "line" /\ a.source.sketch = k
                             /\ ConsumesAxis(part.features[i], a.id)}

-----------------------------------------------------------------------------
(* Sketches, axes, profiles and features *)

\* A link to an edge keeps a source that was deleted.
LinksValid(part) ==
    \A s \in part.sketches :
        /\ \A l \in s.links : l.entity \in s.entities /\ Provenance(part, l.source)
        /\ \A l, m \in s.links : l.entity = m.entity => l = m

SketchesValid(part) ==
    /\ UniqueIds(part.sketches)
    /\ LinksValid(part)
    /\ \A s \in part.sketches :
        /\ s.support.kind = "surface" => SurfaceValid(part, s.support)
        /\ s.support.kind = "datum" => s.support.id \in IdsOf(part.datums)

\* A feature that consumes a linked entity comes after the stage of the link.
LinkedProfilesOrdered(part) ==
    \A i \in DOMAIN part.features, p \in part.profiles, s \in part.sketches :
        ConsumesProfile(part.features[i], p.id) /\ p.sketch = s.id =>
            \A l \in s.links : l.entity \in p.uses => Before(part, l.source.stage, i)

\* The source of an axis may have been deleted.
AxesValid(part) ==
    /\ UniqueIds(part.axes)
    /\ \A a \in part.axes :
        /\ Allocated(part, "axis", a.id)
        /\ a.source.kind = "face" =>
            /\ Allocated(part, "feature", a.source.stage)
            /\ Allocated(part, "feature", a.source.producer)
            /\ Present(part, a.source.stage) /\ Present(part, a.source.producer)
                => SurfaceValid(part, a.source)

ProfilesValid(part) ==
    /\ UniqueIds(part.profiles)
    /\ \A p \in part.profiles :
        /\ Allocated(part, "profile", p.id)
        /\ p.sketch \in IdsOf(part.sketches)

\* A fillet or chamfer has its edges on the body right before it.
EdgesValid(part, i) ==
    LET feature == part.features[i]
        edges == feature.edges
    IN  /\ Provenance(part, edges)
        /\ edges.stage < feature.id
        /\ \A j \in Positions(part, edges.stage) : j + 1 = i
        /\ Before(part, edges.producer, i)

FeaturesValid(part) ==
    /\ \A i, j \in DOMAIN part.features :
        part.features[i].id = part.features[j].id => i = j
    /\ \A i \in DOMAIN part.features :
        LET feature == part.features[i]
        IN  /\ Allocated(part, "feature", feature.id)
            /\ feature.profile # NoId => Allocated(part, "profile", feature.profile)
            /\ feature.axis # NoId => Allocated(part, "axis", feature.axis)
            /\ feature.kind = "edges" => EdgesValid(part, i)

\* Mutant: a sketch may not be consumed by way of a profile only.
SupportsOrderedByProfile(part) ==
    \A s \in part.sketches : \A f \in StagesOf(part.datums, s.support) :
        /\ Present(part, f)
        /\ \A i \in ConsumersByProfile(part, s.id) : Before(part, f, i)

\* A sketch on the body is consumed only after the stage it stands on, which
\* must be there.
SupportsOrdered(part) ==
    \A s \in part.sketches : \A f \in StagesOf(part.datums, s.support) :
        /\ Present(part, f)
        /\ \A i \in ConsumersByProfile(part, s.id) \cup ConsumersByAxis(part, s.id) :
              Before(part, f, i)

\* So is an axis along an edge or of a face, whose stage may be gone.
BodyAxesOrdered(part) ==
    \A a \in part.axes : \A i \in DOMAIN part.features :
        a.source.kind # "line" /\ ConsumesAxis(part.features[i], a.id)
            => Before(part, a.source.stage, i)

\* validAuthoredState
Valid(part) ==
    /\ DatumsValid(part)
    /\ SketchesValid(part)
    /\ LinkedProfilesOrdered(part)
    /\ AxesValid(part)
    /\ ProfilesValid(part)
    /\ FeaturesValid(part)
    /\ SupportsOrdered(part)
    /\ BodyAxesOrdered(part)

-----------------------------------------------------------------------------
(* Evaluation *)

\* The sketches the feature at position i draws from: that of its profile, and
\* that of the line its axis is along.
SketchesFor(part, i) ==
    {s \in part.sketches :
        i \in ConsumersByProfile(part, s.id) \cup ConsumersByAxis(part, s.id)}

\* The feature at position i is evaluated on the body as it is after feature f:
\* the stage of its edges, of a sketch it draws from, of a linked entity of its
\* profile, or of its axis.
Needs(part, i, f) ==
    LET feature == part.features[i]
    IN  \/ feature.kind = "edges" /\ f = feature.edges.stage
        \/ \E s \in SketchesFor(part, i) : f \in StagesOf(part.datums, s.support)
        \/ \E p \in part.profiles : \E s \in SketchOf(part, p.sketch) : \E l \in s.links :
              ConsumesProfile(feature, p.id) /\ l.entity \in p.uses /\ f = l.source.stage
        \/ \E a \in part.axes :
              ConsumesAxis(feature, a.id) /\ a.source.kind # "line" /\ f = a.source.stage

\* Below, done is the set of the positions of the features that are up to date.

\* A face, an edge or a point is found on the body of its stage.
Found(part, ref, done) ==
    \E s, p \in done : /\ part.features[s].id = ref.stage
                       /\ part.features[p].id = ref.producer
                       /\ p <= s

\* A plane or a support can be placed; a chain of offset datums ends on the
\* body or at the origin.
Placed(part, support, done) ==
    CASE support.kind = "surface" -> Found(part, support, done)
      [] support.kind = "datum" ->
            /\ support.id \in IdsOf(part.datums)
            /\ \A d \in DatumChain(part.datums, support.id) :
                  d.source.kind \notin {"origin", "datum"} => Found(part, d.source, done)
      [] OTHER -> TRUE

\* The current geometry of the entities of a sketch: linked ones are projected.
Drawable(part, s, entities, done) ==
    /\ entities \subseteq s.entities
    /\ Placed(part, s.support, done)
    /\ \A l \in s.links : l.entity \in entities => Found(part, l.source, done)

\* resolveAxisReference: the line is the authored one, linked or not.
AxisFound(part, a, done) ==
    IF a.source.kind = "line"
    THEN \E s \in SketchOf(part, a.source.sketch) :
            a.source.entity \in s.entities /\ Placed(part, s.support, done)
    ELSE Found(part, a.source, done)

\* The edges of a fillet or chamfer are on the body that is current.
EdgesFound(part, ref, done) ==
    Found(part, ref, done) /\ \E s \in done : /\ part.features[s].id = ref.stage
                                           /\ \A j \in done : j <= s

\* A feature that is not suppressed has all its inputs, given what was
\* evaluated before it.
Ready(part, feature, done) ==
    IF feature.kind = "edges" THEN EdgesFound(part, feature.edges, done)
    ELSE /\ \E p \in part.profiles :
              ConsumesProfile(feature, p.id) /\ \E s \in SketchOf(part, p.sketch) :
                  Drawable(part, s, p.uses, done)
         /\ feature.axis # NoId => \E a \in part.axes :
              ConsumesAxis(feature, a.id) /\ AxisFound(part, a, done)

\* evaluatePart: feature after feature; a suppressed one is skipped, and the
\* first that has no input, or that the kernel cannot build, blocks the rest.
\* Here the kernel builds everything.
UpToDate(part) ==
    LET live == {i \in DOMAIN part.features : ~part.features[i].suppressed}
        ready == {i \in live :
                     Ready(part, part.features[i], {j \in live : j < i})}
    IN  {i \in live : \A j \in live : j <= i => j \in ready}

-----------------------------------------------------------------------------
(* Undo and redo *)

\* A recorded state with its cursors raised to those of next.
Raised(part, next) ==
    [part EXCEPT !.next = [c \in DOMAIN part.next |->
                              IF part.next[c] < next[c] THEN next[c] ELSE part.next[c]]]
=============================================================================
