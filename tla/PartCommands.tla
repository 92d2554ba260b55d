---------------------------- MODULE PartCommands ----------------------------
(***************************************************************************)
(* The commands of DocumentSession that change what the objects of a Part  *)
(* refer to.  A command checks what it needs, changes a copy of the        *)
(* authored state, lets the kernel evaluate it and commits it; the commit  *)
(* refuses what validAuthoredState refuses.  A command that is refused     *)
(* changes nothing and is left out.                                        *)
(*                                                                         *)
(* Deleting cascades to nothing: what referred to the object stays and     *)
(* waits for repair.  Undo and redo are in DocumentSession, calls back     *)
(* from the kernel in ProviderCalls; here commands run one after another,  *)
(* and the kernel builds whatever has its inputs.                          *)
(***************************************************************************)
EXTENDS PartFile, PartEvaluation

CONSTANTS
    Starts,         \* Parts that may have been loaded, with entity cursors
    MaxEdits        \* bound: commands in a row

\* The authored state is a record, the feature history a sequence.
Shaped(p) ==
    /\ p = [datums |-> p.datums, sketches |-> p.sketches, axes |-> p.axes,
            profiles |-> p.profiles, features |-> p.features, next |-> p.next]
    /\ p.features \in Seq(Range(p.features))

\* What is referred to was given an id once, whether it is still there or not:
\* stage and producer of a face, edge or point, and entities of a sketch; c has
\* the entity cursors.
GivenOnBody(p, kind, ref) ==
    ref = OnBody(kind, ref.stage, ref.producer) /\ Provenance(p, ref)

GivenPlane(p, ref) ==
    CASE ref.kind = "origin" -> ref = Origin
      [] ref.kind = "datum" -> ref = OnDatum(ref.id)
      [] OTHER -> GivenOnBody(p, "surface", ref)

GivenEntities(c, k, entities) == k \in SketchIds /\ entities \subseteq 1 .. (c[k] - 1)

\* What the commands can have made: records of their fields, which refer to
\* nothing that never was.
MadeDatum(p, d) ==
    /\ d = [id |-> d.id, kind |-> d.kind, source |-> d.source]
    /\ CASE d.kind = "offset" -> GivenPlane(p, d.source)
         [] OTHER -> d.kind \in {"edge", "points"} /\ GivenOnBody(p, d.kind, d.source)

MadeSketch(p, c, s) ==
    /\ s = [id |-> s.id, support |-> s.support, entities |-> s.entities, links |-> s.links]
    /\ GivenEntities(c, s.id, s.entities)
    /\ GivenPlane(p, s.support)
    /\ \A l \in s.links : /\ l = [entity |-> l.entity, source |-> l.source]
                          /\ GivenOnBody(p, "edge", l.source)

MadeAxis(p, c, a) ==
    /\ a = [id |-> a.id, source |-> a.source]
    /\ CASE a.source.kind = "line" ->
              /\ a.source = OnLine(a.source.sketch, a.source.entity)
              /\ GivenEntities(c, a.source.sketch, {a.source.entity})
         [] OTHER -> /\ a.source.kind \in {"edge", "face"}
                     /\ GivenOnBody(p, a.source.kind, a.source)

MadeProfile(c, q) ==
    /\ q = [id |-> q.id, sketch |-> q.sketch, uses |-> q.uses]
    /\ q.uses # {}
    /\ GivenEntities(c, q.sketch, q.uses)

MadeFeature(p, f) ==
    /\ f = [id |-> f.id, suppressed |-> f.suppressed, kind |-> f.kind,
            profile |-> f.profile, axis |-> f.axis, edges |-> f.edges]
    /\ CASE f.kind = "edges" -> /\ f.profile = NoId /\ f.axis = NoId
                                /\ GivenOnBody(p, "edge", f.edges)
         [] OTHER -> /\ f.kind \in {"extrude", "revolve"}
                     /\ f.profile # NoId /\ f.edges = Origin
                     /\ f.kind = "extrude" => f.axis = NoId

\* A sketch is never deleted, and a feature is only put at the end.
Made(p, c) ==
    /\ p.next \in [Counted -> Nat \ {0}]
    /\ c \in [SketchIds -> Nat \ {0}]
    /\ \A d \in p.datums : MadeDatum(p, d)
    /\ \A s \in p.sketches : MadeSketch(p, c, s)
    /\ \A a \in p.axes : MadeAxis(p, c, a)
    /\ \A q \in p.profiles : MadeProfile(c, q)
    /\ \A i \in DOMAIN p.features : MadeFeature(p, p.features[i])
    /\ \A k \in SketchIds : c[k] # 1 => k \in IdsOf(p.sketches)
    /\ \A i, j \in DOMAIN p.features : i < j => p.features[i].id < p.features[j].id

ASSUME StartsAssumption ==
    /\ \A start \in Starts : Shaped(start.part) /\ Made(start.part, start.cursor)
    /\ SketchIds \cap Counted = {}
    /\ MaxEdits \in Nat

VARIABLES
    part,           \* the authored state of the document
    cursor,         \* per sketch, the next entity id
    edits           \* bound

vars == <<part, cursor, edits>>

\* A Part is loaded only if it is valid; the entity cursors are in its file.
Init ==
    /\ \E start \in Starts : /\ Valid(start.part)
                             /\ part = start.part
                             /\ cursor = start.cursor
    /\ edits = 0

-----------------------------------------------------------------------------
(* What commands are made of *)

MoreEdits == edits < MaxEdits

Commit(after) ==
    /\ Valid(after)
    /\ after # part
    /\ part' = after
    /\ edits' = edits + 1

\* Add x to the collection, take it out, put y in its place.
With(set, x) == [part EXCEPT ![set] = @ \cup {x}]
Without(set, x) == [part EXCEPT ![set] = @ \ {x}]
Replaced(set, x, y) == [part EXCEPT ![set] = (@ \ {x}) \cup {y}]

Used(kind) ==
    CASE kind = "datum" -> IdsOf(part.datums)
      [] kind = "axis" -> IdsOf(part.axes)
      [] kind = "profile" -> IdsOf(part.profiles)
      [] OTHER -> {part.features[i].id : i \in DOMAIN part.features}

\* Mutant: the id after the largest one there is.
NewIdAfterLargest(kind) == 1 + Max({0} \cup Used(kind))

NewId(kind) == part.next[kind]

\* after, in which NewId(kind) has been given out.
Allocating(after, kind) ==
    [after EXCEPT !.next[kind] = NewId(kind) + 1]

References(kind) == [kind : {kind}, stage : 1 .. MaxId, producer : 1 .. MaxId]

\* Where a sketch can be put: what resolveSupportForMutation resolves now.
Supports ==
    LET done == UpToDate(part)
    IN  {Origin}
        \cup (UNION {{OnBody("surface", part.features[i].id, part.features[j].id) :
                        j \in {p \in done : p <= i}} : i \in done})
        \cup {r \in {OnDatum(d.id) : d \in part.datums} : Placed(part, r, done)}

-----------------------------------------------------------------------------
(* Sketches *)

CreateSketch == MoreEdits /\
    \E k \in SketchIds \ IdsOf(part.sketches), support \in Supports :
        /\ Commit(With("sketches",
               [id |-> k, support |-> support, entities |-> {}, links |-> {}]))
        /\ UNCHANGED cursor

\* requiredBodyStageForSketchSupport follows offset datums only.
SupportStage(support) ==
    IF support.kind = "surface" THEN {support.stage}
    ELSE IF support.kind = "datum"
    THEN {d.source.stage : d \in {c \in DatumChain(part.datums, support.id) :
                                      c.kind = "offset" /\ c.source.kind = "surface"}}
    ELSE {}

\* Mutant: any consumer will do.
WouldCreateCycleAnywhere(k, support) ==
    \E f \in SupportStage(support) : ConsumersByProfile(part, k) # {}

\* supportWouldCreateCycle looks at profiles only.
WouldCreateCycle(k, support) ==
    \E f \in SupportStage(support) :
        \/ ~Present(part, f)
        \/ \E i \in ConsumersByProfile(part, k) : ~Before(part, f, i)

Resupported(s, support) == Replaced("sketches", s, [s EXCEPT !.support = support])

SetSupport == MoreEdits /\
    \E s \in part.sketches, support \in Supports :
        /\ ~WouldCreateCycle(s.id, support)
        /\ Commit(Resupported(s, support))
        /\ UNCHANGED cursor

\* A new entity takes the next id of its sketch.
Draws(k) ==
    /\ cursor[k] <= MaxId
    /\ cursor' = [cursor EXCEPT ![k] = @ + 1]

Drawn(s) == Replaced("sketches", s, [s EXCEPT !.entities = @ \cup {cursor[s.id]}])

AddLine == MoreEdits /\
    \E s \in part.sketches : Draws(s.id) /\ Commit(Drawn(s))

AddLineWithAxis == MoreEdits /\
    \E s \in part.sketches :
        LET axis == [id |-> NewId("axis"), source |-> OnLine(s.id, cursor[s.id])]
            after == [Drawn(s) EXCEPT !.axes = @ \cup {axis}]
        IN  /\ Draws(s.id)
            /\ NewId("axis") <= MaxId
            /\ Placed(part, s.support, UpToDate(part))
            /\ Commit(Allocating(after, "axis"))

\* CreateProjectedSketchEdges, one edge at a time.
ProjectEdge == MoreEdits /\
    \E s \in part.sketches, source \in References("edge") :
        LET link == [entity |-> cursor[s.id], source |-> source]
            linked == [s EXCEPT !.entities = @ \cup {link.entity}, !.links = @ \cup {link}]
            done == UpToDate(part)
        IN  /\ Placed(part, s.support, done)
            /\ Found(part, source, done)
            /\ \A l \in s.links : l.source # source
            /\ Draws(s.id)
            /\ Commit(Replaced("sketches", s, linked))

\* The current curve is frozen, so there must be one.
BreakLink == MoreEdits /\
    \E s \in part.sketches : \E l \in s.links :
        /\ Drawable(part, s, {l.entity}, UpToDate(part))
        /\ Commit(Replaced("sketches", s, [s EXCEPT !.links = @ \ {l}]))
        /\ UNCHANGED cursor

\* The links go with the entities; axes and profiles stay as they are.
EraseEntities == MoreEdits /\
    \E s \in part.sketches : \E erased \in (SUBSET s.entities) \ {{}} :
        /\ Commit(Replaced("sketches", s,
               [s EXCEPT !.entities = @ \ erased,
                         !.links = {l \in @ : l.entity \notin erased}]))
        /\ UNCHANGED cursor

-----------------------------------------------------------------------------
(* Profiles *)

\* The region resolves on the current geometry.
Regions(s) ==
    {uses \in (SUBSET s.entities) \ {{}} :
        \A l \in s.links :
            l.entity \in uses => Drawable(part, s, {l.entity}, UpToDate(part))}

CreateProfile == MoreEdits /\
    \E s \in part.sketches : \E uses \in Regions(s) :
        LET p == [id |-> NewId("profile"), sketch |-> s.id, uses |-> uses]
        IN  /\ NewId("profile") <= MaxId
            /\ Commit(Allocating(With("profiles", p), "profile"))
            /\ UNCHANGED cursor

EditProfile == MoreEdits /\
    \E p \in part.profiles : \E s \in SketchOf(part, p.sketch) : \E uses \in Regions(s) :
        /\ Commit(Replaced("profiles", p, [p EXCEPT !.uses = uses]))
        /\ UNCHANGED cursor

DeleteProfile == MoreEdits /\
    \E p \in part.profiles : Commit(Without("profiles", p)) /\ UNCHANGED cursor

-----------------------------------------------------------------------------
(* Axes *)

AxisSources ==
    (UNION {{OnLine(s.id, e) : e \in s.entities} : s \in part.sketches})
    \cup References("edge") \cup References("face")

\* The source has no other axis, and resolves in the Part that results.
DesignatesAxis(after, axis) ==
    /\ \A a \in part.axes : a.source = axis.source => a.id = axis.id
    /\ AxisOutcome(after, UpToDate(after), axis).status = "resolved"

CreateAxis == MoreEdits /\
    \E source \in AxisSources :
        LET axis == [id |-> NewId("axis"), source |-> source]
            after == Allocating(With("axes", axis), "axis")
        IN  /\ NewId("axis") <= MaxId
            /\ Commit(after)
            /\ DesignatesAxis(after, axis)
            /\ UNCHANGED cursor

EditAxis == MoreEdits /\
    \E a \in part.axes, source \in AxisSources :
        LET axis == [a EXCEPT !.source = source]
            after == Replaced("axes", a, axis)
        IN  /\ DesignatesAxis(after, axis)
            /\ Commit(after)
            /\ UNCHANGED cursor

DeleteAxis == MoreEdits /\
    \E a \in part.axes : Commit(Without("axes", a)) /\ UNCHANGED cursor

-----------------------------------------------------------------------------
(* Datum planes *)

\* What a datum plane of this kind can have as its source.
DatumSources(kind) ==
    CASE kind = "offset" -> {Origin} \cup References("surface")
                            \cup {OnDatum(d) : d \in IdsOf(part.datums)}
      [] kind = "edge" -> References("edge")
      [] OTHER -> References("points")

\* The plane resolves in the Part that results.
CommitDatum(after, id) ==
    /\ Commit(after)
    /\ Placed(after, OnDatum(id), UpToDate(after))
    /\ UNCHANGED cursor

CreateDatum == MoreEdits /\
    \E kind \in {"offset", "edge", "points"} : \E source \in DatumSources(kind) :
        LET d == [id |-> NewId("datum"), kind |-> kind, source |-> source]
        IN  /\ NewId("datum") <= MaxId
            /\ CommitDatum(Allocating(With("datums", d), "datum"), d.id)

EditDatum == MoreEdits /\
    \E d \in part.datums : \E source \in DatumSources(d.kind) :
        CommitDatum(Replaced("datums", d, [d EXCEPT !.source = source]), d.id)

DatumInUse(d) ==
    \/ \E c \in OffsetDatums(part) :
          c.id # d.id /\ c.source.kind = "datum" /\ c.source.id = d.id
    \/ \E s \in part.sketches : s.support.kind = "datum" /\ s.support.id = d.id

DeleteDatum == MoreEdits /\
    \E d \in part.datums :
        /\ ~DatumInUse(d)
        /\ Commit(Without("datums", d))
        /\ UNCHANGED cursor

-----------------------------------------------------------------------------
(* Features *)

Extrude(p) == [kind |-> "extrude", profile |-> p, axis |-> NoId, edges |-> Origin]
Revolve(p, a) == [kind |-> "revolve", profile |-> p, axis |-> a, edges |-> Origin]
EdgeFeature(edges) == [kind |-> "edges", profile |-> NoId, axis |-> NoId, edges |-> edges]

\* Extrude, revolve, fillet or chamfer.
Definitions ==
    {Extrude(p) : p \in IdsOf(part.profiles)}
    \cup {Revolve(p, a) : p \in IdsOf(part.profiles), a \in IdsOf(part.axes) \cup {NoId}}
    \cup {EdgeFeature(r) : r \in References("edge")}

Feature(id, suppressed, d) ==
    [id |-> id, suppressed |-> suppressed, kind |-> d.kind,
     profile |-> d.profile, axis |-> d.axis, edges |-> d.edges]

\* The feature at position i is up to date in the Part that results.
CommitFeature(after, i) ==
    /\ Commit(after)
    /\ i \in UpToDate(after)
    /\ UNCHANGED cursor

CreateFeature == MoreEdits /\
    \E d \in Definitions :
        LET f == Feature(NewId("feature"), FALSE, d)
        IN  /\ NewId("feature") <= MaxId
            /\ CommitFeature(
                   Allocating([part EXCEPT !.features = Append(@, f)], "feature"),
                   Len(part.features) + 1)

\* Everything but an extrude is edited only as what it is: EditExtrude does
\* not look at what kind of feature its target is.
EditFeature == MoreEdits /\
    \E i \in DOMAIN part.features, d \in Definitions :
        /\ ~part.features[i].suppressed
        /\ d.kind = part.features[i].kind \/ d.kind = "extrude"
        /\ CommitFeature(
               [part EXCEPT !.features[i] = Feature(part.features[i].id, FALSE, d)], i)

SetFeatureSuppressed == MoreEdits /\
    \E i \in DOMAIN part.features, suppressed \in BOOLEAN :
        /\ Commit([part EXCEPT !.features[i].suppressed = suppressed])
        /\ UNCHANGED cursor

DeleteFeature == MoreEdits /\
    \E i \in DOMAIN part.features :
        /\ Commit([part EXCEPT !.features = RemoveAt(@, i)])
        /\ UNCHANGED cursor

-----------------------------------------------------------------------------

Next ==
    \/ CreateSketch \/ SetSupport
    \/ AddLine \/ AddLineWithAxis \/ ProjectEdge \/ BreakLink \/ EraseEntities
    \/ CreateProfile \/ EditProfile \/ DeleteProfile
    \/ CreateAxis \/ EditAxis \/ DeleteAxis
    \/ CreateDatum \/ EditDatum \/ DeleteDatum
    \/ CreateFeature \/ EditFeature \/ SetFeatureSuppressed \/ DeleteFeature

Spec == Init /\ [][Next]_vars

-----------------------------------------------------------------------------
(* Properties *)

\* Every collection holds what it should, with ids below the cursors: an id
\* that is there is never given out again (allocate of the id cursors).
TypeOK ==
    /\ Shaped(part)
    /\ \A kind \in Counted : Used(kind) \subseteq 1 .. (part.next[kind] - 1)
    /\ \A s \in part.sketches :
        /\ s.id \in SketchIds
        /\ s.entities \subseteq 1 .. (cursor[s.id] - 1)
        /\ {l.entity : l \in s.links} \subseteq s.entities
    /\ edits \in 0 .. MaxEdits

\* There is no cycle: whatever is evaluated for a feature needs the body only
\* as it was before that feature, or as it no longer is (validAuthoredState,
\* the bounded dependency invariants).
DependenciesBackward ==
    \A i, j \in DOMAIN part.features : Needs(part, i, part.features[j].id) => j < i

\* What the Part refers to.
BodyReferences ==
    {s.support : s \in {t \in part.sketches : t.support.kind = "surface"}}
    \cup {l.source : l \in UNION {s.links : s \in part.sketches}}
    \cup {a.source : a \in {b \in part.axes : b.source.kind # "line"}}
    \cup {d.source : d \in {e \in part.datums : e.source.kind \notin {"origin", "datum"}}}
    \cup {part.features[i].edges :
              i \in {j \in DOMAIN part.features : part.features[j].kind = "edges"}}

Referred ==
    {<<"feature", r.stage>> : r \in BodyReferences}
    \cup {<<"feature", r.producer>> : r \in BodyReferences}
    \cup {<<"profile", part.features[i].profile>> : i \in DOMAIN part.features}
    \cup {<<"axis", part.features[i].axis>> : i \in DOMAIN part.features}
    \cup {<<a.source.sketch, a.source.entity>> :
              a \in {b \in part.axes : b.source.kind = "line"}}
    \cup UNION {{<<p.sketch, e>> : e \in p.uses} : p \in part.profiles}

There ==
    (UNION {{<<kind, id>> : id \in Used(kind)} : kind \in Counted})
    \cup (UNION {{<<s.id, e>> : e \in s.entities} : s \in part.sketches})
    \cup {<<"profile", NoId>>, <<"axis", NoId>>}

Lost == Referred \ There

\* What was deleted and is still referred to is never replaced by something
\* new that happens to get its id: only an edit of the reference repairs it
\* (the never-rewound id cursors).
LostStaysLost == [][Lost \cap There' = {}]_vars

\* A Part that refers to nothing that is gone, and has nothing suppressed,
\* evaluates: no feature waits for something that evaluatePart, which sees
\* only the features before it, has not built yet, and no datum plane or axis
\* for anything.  What a plane, or an axis on a line, is said to wait for is
\* the stage by which validAuthoredState orders what depends on it, and
\* nothing resolves on a stage that was not evaluated (required_body_stage).
EvaluationAgrees ==
    LET done == UpToDate(part)
        datum == [d \in part.datums |-> DatumOutcome(part, done, d)]
        axis == [a \in part.axes |-> AxisOutcome(part, done, a)]
        said == Range(datum) \cup Range(axis)
    IN  /\ (Lost = {} /\ \A i \in DOMAIN part.features : ~part.features[i].suppressed) =>
               done = DOMAIN part.features /\ \A o \in said : o.status = "resolved"
        /\ \A o \in said : o.status = "resolved" =>
               \A f \in o.stage : StageUp(part, done, f)
        /\ \A d \in part.datums : datum[d].stage = StagesOf(part.datums, OnDatum(d.id))
        /\ \A a \in part.axes : \A s \in part.sketches :
               /\ a.source.kind = "line" /\ a.source.sketch = s.id
               /\ a.source.entity \in s.entities
               => axis[a].stage = StagesOf(part.datums, s.support)

\* What a command refuses by a check of its own, validAuthoredState would not
\* have accepted; what DeleteDatumPlane lets pass, it accepts.  This is asked
\* where the bound lets a command follow.
ChecksAgree ==
    /\ TypeOK
    /\ MoreEdits =>
        /\ \A d \in part.datums : DatumInUse(d) <=> ~Valid(Without("datums", d))
        /\ \A support \in Supports : \A s \in part.sketches :
              WouldCreateCycle(s.id, support) => ~Valid(Resupported(s, support))

\* Schema v could hold the Part: everything in it was introduced by then, and
\* what was not had never been given an id.
Expressible(v) ==
    /\ part.sketches # {} => v >= 2
    /\ \A k \in SketchIds : cursor[k] > 1 => v >= 3
    /\ part.next.profile > 1 => v >= 6
    /\ part.next.feature > 1 => v >= 8
    /\ \A s \in part.sketches : s.support.kind = "surface" => v >= 9
    /\ part.next.datum > 1 => v >= 10
    /\ \A s \in part.sketches : s.support.kind = "datum" => v >= 11
    /\ part.next.axis > 1 => v >= 12
    /\ \A i \in DOMAIN part.features : part.features[i].kind = "revolve" => v >= 13
    /\ \A i \in DOMAIN part.features : part.features[i].kind = "edges" => v >= 14
    /\ \A s \in part.sketches : s.links # {} => v >= 15
    /\ OfKind(part, "edge") # {} => v >= 17
    /\ OfKind(part, "points") # {} => v >= 18
    /\ \A a \in part.axes : a.source.kind = "edge" => v >= 19
    /\ \A a \in part.axes : a.source.kind = "face" => v >= 20

File(v) == Packed(0, v, Authored(v, part, cursor))

IsRestored(file) ==
    /\ Restored(file[Payload]) = part
    /\ \A k \in SketchIds : RestoredCursor(file[Payload], k) = cursor[k]

\* What commands can make of a Part can be saved and is the same when it is
\* loaded again, however much of what it refers to is gone; and so it is for
\* the file of every older schema, unless that had no place for it
\* (docs/internal/PART_DOCUMENTS.md, legacy native schemas).  The older schemas
\* are not looked at after the last command of the bound.
FilesLoadBack ==
    /\ LET file == File(Current) IN Loads(file) /\ IsRestored(file)
    /\ MoreEdits => \A v \in Schemas :
           LET file == File(v) IN Expressible(v) <=> Parses(file) /\ IsRestored(file)

\* "the authored linked seed is not current modeling truth"
\* (docs/internal/PART_DOCUMENTS.md): no feature is built on the stored curve
\* of an entity that is linked to the body.
NoFeatureOnSeed ==
    \A i \in UpToDate(part) : \A a \in part.axes : \A s \in part.sketches :
        ConsumesAxis(part.features[i], a.id) =>
            \A l \in s.links : a.source # OnLine(s.id, l.entity)
=============================================================================
