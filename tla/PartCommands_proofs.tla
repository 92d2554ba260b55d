------------------------- MODULE PartCommands_proofs -------------------------
(***************************************************************************)
(* Proofs about PartModel and PartCommands, for any number of sketches and *)
(* ids, any valid Parts to start from and any number of commands.          *)
(*                                                                         *)
(* That a committed Part is valid is by the commit itself; what it is good *)
(* for is the first lemma: the comparisons of positions validAuthoredState *)
(* makes cover every path along which a feature needs the body. The second *)
(* part is what DocumentSession takes for granted: raising the cursors of  *)
(* a recorded state, as undo does, keeps it valid.                         *)
(*                                                                         *)
(* Validity lets references dangle. That what is lost is never taken for   *)
(* something new needs more: commands refer only to what was given an id   *)
(* once (Made), and what they add has an id that was not (Kept). One lemma *)
(* per group of commands shows it; the last part compares the checks of    *)
(* the commands with those of the commit.                                  *)
(*                                                                         *)
(* The file: a saved Part is read back. Three questions, one per part: the *)
(* order in which links are written, each item written and read, and what  *)
(* the reader checks before it accepts the payload.                        *)
(*                                                                         *)
(* The evaluation: the outcome of an offset plane is that of its source,   *)
(* found by recursion. A chain of valid planes has no loop (NoLoop), hence *)
(* one end, and the recursive function exists and is the only one.         *)
(***************************************************************************)
EXTENDS PartCommands, FiniteSetTheorems, TLAPS

LEMMA HistoryPositions ==
    ASSUME NEW p, Shaped(p) PROVE DOMAIN p.features \subseteq Nat
<1>1. p.features \in Seq(Range(p.features))
  BY DEF Shaped
<1>2. DOMAIN p.features = 1 .. Len(p.features) /\ Len(p.features) \in Nat
  BY <1>1
<1> QED
  BY <1>2

\* A valid Part has no dependency cycle: one case per path by which the
\* feature at position i needs the body after the one at position j.
LEMMA ValidRefersBackward ==
    ASSUME NEW p, Shaped(p), Valid(p),
           NEW i \in DOMAIN p.features, NEW j \in DOMAIN p.features,
           Needs(p, i, p.features[j].id)
    PROVE  j < i
<1> DEFINE feature == p.features[i]
           f == p.features[j].id
<1>1. j \in Positions(p, f) /\ i \in Nat /\ j \in Nat
  BY HistoryPositions DEF Positions
<1>2. CASE feature.kind = "edges" /\ f = feature.edges.stage
  <2>1. EdgesValid(p, i)
    BY <1>2 DEF Valid, FeaturesValid
  <2>2. j + 1 = i
    BY <1>1, <1>2, <2>1 DEF EdgesValid
  <2> QED
    BY <1>1, <2>2
<1>3. CASE \E s \in SketchesFor(p, i) : f \in StagesOf(p.datums, s.support)
  BY <1>1, <1>3 DEF Valid, SupportsOrdered, SketchesFor, Before
<1>4. CASE \E q \in p.profiles : \E s \in SketchOf(p, q.sketch) : \E l \in s.links :
              ConsumesProfile(feature, q.id) /\ l.entity \in q.uses /\ f = l.source.stage
  BY <1>1, <1>4 DEF Valid, LinkedProfilesOrdered, SketchOf, Before
<1>5. CASE \E a \in p.axes :
              ConsumesAxis(feature, a.id) /\ a.source.kind # "line" /\ f = a.source.stage
  BY <1>1, <1>5 DEF Valid, BodyAxesOrdered, Before
<1> QED
  BY <1>2, <1>3, <1>4, <1>5 DEF Needs

-----------------------------------------------------------------------------
(* Raising cursors *)

\* The state that undo commits is a recorded one with the session's cursors:
\* it passes validAuthoredState like the recorded one did.
THEOREM RaisedStaysValid ==
    ASSUME NEW p, Shaped(p), p.next \in [Counted -> Nat],
           NEW next \in [Counted -> Nat], Valid(p)
    PROVE  Valid(Raised(p, next))
<1> DEFINE r == Raised(p, next)
<1>1. /\ r.datums = p.datums /\ r.sketches = p.sketches /\ r.axes = p.axes
      /\ r.profiles = p.profiles /\ r.features = p.features
  BY DEF Raised, Shaped
<1>2. \A kind \in Counted : r.next[kind] \in Nat /\ p.next[kind] <= r.next[kind]
  BY DEF Raised, Shaped
<1> HIDE DEF r
<1>3. \A kind \in Counted : \A id : Allocated(p, kind, id) => Allocated(r, kind, id)
  BY <1>2 DEF Allocated
<1>4. \A f : Present(r, f) = Present(p, f) /\ Positions(r, f) = Positions(p, f)
  BY <1>1 DEF Present, Positions
<1>5. \A f, i : Before(r, f, i) = Before(p, f, i)
  BY <1>4 DEF Before
<1>6. \A ref : Provenance(p, ref) => Provenance(r, ref)
  BY <1>3 DEF Provenance, Counted
<1>7. \A ref : SurfaceValid(p, ref) => SurfaceValid(r, ref)
  BY <1>4, <1>6 DEF SurfaceValid
<1>8. DatumsValid(r)
  <2>1. OffsetDatums(r) = OffsetDatums(p)
    BY <1>1 DEF OffsetDatums
  <2>2. OffsetDatumsValid(r)
    BY <1>7, <2>1 DEF Valid, DatumsValid, OffsetDatumsValid
  <2>3. PointDatumsValid(r)
    BY <1>1, <1>6 DEF Valid, DatumsValid, PointDatumsValid
  <2>4. DatumsAcyclic(r)
    BY <2>1 DEF Valid, DatumsValid, DatumsAcyclic
  <2> QED
    BY <1>1, <1>3, <2>2, <2>3, <2>4 DEF Valid, DatumsValid, Counted
<1>9. SketchesValid(r)
  <2>1. LinksValid(r)
    BY <1>1, <1>6 DEF Valid, SketchesValid, LinksValid
  <2> QED
    BY <1>1, <1>7, <2>1 DEF Valid, SketchesValid
<1>10. LinkedProfilesOrdered(r)
  BY <1>1, <1>5 DEF Valid, LinkedProfilesOrdered
<1>11. AxesValid(r)
  BY <1>1, <1>3, <1>4, <1>7 DEF Valid, AxesValid, Counted
<1>12. ProfilesValid(r)
  BY <1>1, <1>3 DEF Valid, ProfilesValid, Counted
<1>13. FeaturesValid(r)
  <2>1. \A i : EdgesValid(p, i) => EdgesValid(r, i)
    BY <1>1, <1>4, <1>5, <1>6 DEF EdgesValid
  <2> QED
    BY <1>1, <1>3, <2>1 DEF Valid, FeaturesValid, Counted
<1>14. SupportsOrdered(r)
  <2>1. \A k : /\ ConsumersByProfile(r, k) = ConsumersByProfile(p, k)
               /\ ConsumersByAxis(r, k) = ConsumersByAxis(p, k)
    BY <1>1 DEF ConsumersByProfile, ConsumersByAxis
  <2> QED
    BY <1>1, <1>4, <1>5, <2>1 DEF Valid, SupportsOrdered
<1>15. BodyAxesOrdered(r)
  BY <1>1, <1>5 DEF Valid, BodyAxesOrdered
<1> QED
  BY <1>8, <1>9, <1>10, <1>11, <1>12, <1>13, <1>14, <1>15 DEF r, Valid

-----------------------------------------------------------------------------
(* Commands *)

Sound == Shaped(part) /\ Valid(part)

LEMMA CommitSound ==
    ASSUME NEW after, Shaped(after), Commit(after) PROVE Sound'
BY DEF Commit, Sound

\* What commands do to the record keeps its fields and its history.
LEMMA ChangedShaped ==
    ASSUME NEW p, Shaped(p), NEW set \in {"datums", "sketches", "axes", "profiles"}, NEW x
    PROVE  Shaped([p EXCEPT ![set] = x])
<1> DEFINE q == [p EXCEPT ![set] = x]
<1>1. q = [datums |-> q.datums, sketches |-> q.sketches, axes |-> q.axes,
           profiles |-> q.profiles, features |-> q.features, next |-> q.next]
  <2>1. DOMAIN p = {"datums", "sketches", "axes", "profiles", "features", "next"}
    BY DEF Shaped
  <2>2. q = [f \in DOMAIN p |-> IF f = set THEN x ELSE p[f]]
    OBVIOUS
  <2>3. DOMAIN q = DOMAIN p
    OBVIOUS
  <2> HIDE DEF q
  <2> QED
    BY <2>1, <2>2, <2>3
<1>2. q.features = p.features
  BY DEF Shaped
<1> QED
  BY <1>1, <1>2 DEF Shaped

LEMMA AllocatingShaped ==
    ASSUME NEW p, Shaped(p), NEW kind PROVE Shaped(Allocating(p, kind))
BY DEF Shaped, Allocating

LEMMA HistoryShaped ==
    ASSUME NEW p, Shaped(p), NEW T, NEW h \in Seq(T)
    PROVE  Shaped([p EXCEPT !.features = h])
<1>1. h \in Seq(Range(h))
  BY DEF Range
<1> QED
  BY <1>1 DEF Shaped

LEMMA EditSound ==
    ASSUME Sound, NEW set \in {"datums", "sketches", "axes", "profiles"}, NEW x,
           Commit([part EXCEPT ![set] = x])
    PROVE  Sound'
BY ChangedShaped, CommitSound DEF Sound

LEMMA SketchStep ==
    ASSUME Sound,
           CreateSketch \/ SetSupport \/ AddLine \/ ProjectEdge \/ BreakLink \/ EraseEntities
    PROVE  Sound'
<1>1. CASE CreateSketch
  BY <1>1, EditSound DEF CreateSketch, With
<1>2. CASE SetSupport
  BY <1>2, EditSound DEF SetSupport, Resupported, Replaced
<1>3. CASE AddLine
  BY <1>3, EditSound DEF AddLine, Drawn, Replaced
<1>4. CASE ProjectEdge
  BY <1>4, EditSound DEF ProjectEdge, Replaced
<1>5. CASE BreakLink
  BY <1>5, EditSound DEF BreakLink, Replaced
<1>6. CASE EraseEntities
  BY <1>6, EditSound DEF EraseEntities, Replaced
<1> QED
  BY <1>1, <1>2, <1>3, <1>4, <1>5, <1>6

LEMMA AllocatedSound ==
    ASSUME Sound, NEW set \in {"datums", "sketches", "axes", "profiles"}, NEW x, NEW kind,
           Commit(Allocating([part EXCEPT ![set] = x], kind))
    PROVE  Sound'
BY ChangedShaped, AllocatingShaped, CommitSound DEF Sound

LEMMA AddLineWithAxisStep ==
    ASSUME Sound, AddLineWithAxis PROVE Sound'
<1>1. PICK s \in part.sketches :
        LET axis == [id |-> NewId("axis"), source |-> OnLine(s.id, cursor[s.id])]
        IN  Commit(Allocating([Drawn(s) EXCEPT !.axes = @ \cup {axis}], "axis"))
  BY DEF AddLineWithAxis
<1>2. Shaped(Drawn(s))
  BY ChangedShaped DEF Sound, Drawn, Replaced
<1>3. \A x : Shaped([Drawn(s) EXCEPT !.axes = x])
  BY <1>2, ChangedShaped
<1> QED
  BY <1>1, <1>3, AllocatingShaped, CommitSound

LEMMA ProfileStep ==
    ASSUME Sound, CreateProfile \/ EditProfile \/ DeleteProfile PROVE Sound'
<1>1. CASE CreateProfile
  BY <1>1, AllocatedSound DEF CreateProfile, With
<1>2. CASE EditProfile
  BY <1>2, EditSound DEF EditProfile, Replaced
<1>3. CASE DeleteProfile
  BY <1>3, EditSound DEF DeleteProfile, Without
<1> QED
  BY <1>1, <1>2, <1>3

LEMMA AxisStep ==
    ASSUME Sound, CreateAxis \/ EditAxis \/ DeleteAxis PROVE Sound'
<1>1. CASE CreateAxis
  BY <1>1, AllocatedSound DEF CreateAxis, With
<1>2. CASE EditAxis
  BY <1>2, EditSound DEF EditAxis, Replaced
<1>3. CASE DeleteAxis
  BY <1>3, EditSound DEF DeleteAxis, Without
<1> QED
  BY <1>1, <1>2, <1>3

LEMMA DatumStep ==
    ASSUME Sound, CreateDatum \/ EditDatum \/ DeleteDatum PROVE Sound'
<1>1. CASE CreateDatum
  BY <1>1, AllocatedSound DEF CreateDatum, CommitDatum, With
<1>2. CASE EditDatum
  BY <1>2, EditSound DEF EditDatum, CommitDatum, Replaced
<1>3. CASE DeleteDatum
  BY <1>3, EditSound DEF DeleteDatum, Without
<1> QED
  BY <1>1, <1>2, <1>3

LEMMA FeatureStep ==
    ASSUME Sound, CreateFeature \/ EditFeature \/ SetFeatureSuppressed \/ DeleteFeature
    PROVE  Sound'
<1> DEFINE history == part.features
           T == Range(history)
<1>1. history \in Seq(T) /\ DOMAIN history = 1 .. Len(history) /\ Len(history) \in Nat
  BY DEF Sound, Shaped
<1>2. \A h, U : h \in Seq(U) => Shaped([part EXCEPT !.features = h])
  BY HistoryShaped DEF Sound
<1>3. CASE CreateFeature
  <2>1. PICK f : Commit(Allocating([part EXCEPT !.features = Append(@, f)], "feature"))
    BY <1>3 DEF CreateFeature, CommitFeature
  <2>2. Append(history, f) \in Seq(T \cup {f})
    BY <1>1
  <2>3. Shaped([part EXCEPT !.features = Append(@, f)])
    BY <1>2, <2>2
  <2> QED
    BY <2>1, <2>3, AllocatingShaped, CommitSound
<1>4. CASE EditFeature \/ SetFeatureSuppressed
  <2>1. PICK i \in DOMAIN history : \E f : Commit([part EXCEPT !.features = [@ EXCEPT ![i] = f]])
    BY <1>4 DEF EditFeature, SetFeatureSuppressed, CommitFeature
  <2>2. PICK f : Commit([part EXCEPT !.features = [@ EXCEPT ![i] = f]])
    BY <2>1
  <2>3. [history EXCEPT ![i] = f] \in Seq(T \cup {f})
    BY <1>1
  <2>4. Shaped([part EXCEPT !.features = [@ EXCEPT ![i] = f]])
    BY <1>2, <2>3
  <2> QED
    BY <2>2, <2>4, CommitSound
<1>5. CASE DeleteFeature
  <2>1. PICK i \in DOMAIN history : Commit([part EXCEPT !.features = RemoveAt(@, i)])
    BY <1>5 DEF DeleteFeature
  <2>2. RemoveAt(history, i) \in Seq(T)
    BY <1>1 DEF RemoveAt
  <2> QED
    BY <1>2, <2>1, <2>2, CommitSound
<1> QED
  BY <1>3, <1>4, <1>5

LEMMA StepSound ==
    ASSUME Sound, [Next]_vars PROVE Sound'
<1>1. CASE UNCHANGED vars
  BY <1>1 DEF vars, Sound
<1>2. CASE Next
  BY <1>2, SketchStep, AddLineWithAxisStep, ProfileStep, AxisStep, DatumStep, FeatureStep
     DEF Next
<1> QED
  BY <1>1, <1>2

\* Whatever is committed is valid and has the shape of a Part.
THEOREM PartStaysSound == Spec => []Sound
<1>1. Init => Sound
  BY StartsAssumption DEF Init, Sound
<1> QED
  BY <1>1, StepSound, PTL DEF Spec

\* No command, and no sequence of commands, makes a feature depend on the body
\* as it is after itself or after a later feature.
THEOREM PartDependenciesBackward == Spec => []DependenciesBackward
<1>1. Sound => DependenciesBackward
  BY ValidRefersBackward DEF Sound, DependenciesBackward
<1> QED
  BY <1>1, PartStaysSound, PTL

-----------------------------------------------------------------------------
(* What is given out *)

\* Cursors only go up.
Grown ==
    /\ part'.next \in [Counted -> Nat \ {0}]
    /\ cursor' \in [SketchIds -> Nat \ {0}]
    /\ \A kind \in Counted : part.next[kind] <= part'.next[kind]
    /\ \A k \in SketchIds : cursor[k] <= cursor'[k]

\* An id is one that is there or one that was never given out.
NewOrThere(kind, id) == id \in Used(kind) \/ ~Allocated(part, kind, id)

\* Every object is one of before, or is as commands make them and has an id
\* of before or a new one.
DatumsKept ==
    \A d \in part'.datums : d \in part.datums \/
        (MadeDatum(part', d) /\ NewOrThere("datum", d.id))

AxesKept ==
    \A a \in part'.axes : a \in part.axes \/
        (MadeAxis(part', cursor', a) /\ NewOrThere("axis", a.id))

ProfilesKept ==
    \A q \in part'.profiles : q \in part.profiles \/
        (MadeProfile(cursor', q) /\ NewOrThere("profile", q.id))

SketchesKept ==
    \A s \in part'.sketches : s \in part.sketches \/
        /\ MadeSketch(part', cursor', s)
        /\ \A e \in s.entities :
              \/ \E t \in part.sketches : t.id = s.id /\ e \in t.entities
              \/ e \notin 1 .. (cursor[s.id] - 1)

FeaturesKept ==
    \A i \in DOMAIN part'.features :
        \/ \E j \in DOMAIN part.features : part'.features[i] = part.features[j]
        \/ /\ MadeFeature(part', part'.features[i])
           /\ NewOrThere("feature", part'.features[i].id)

\* Features are in the order of their ids.
InOrder(p) ==
    \A i, j \in DOMAIN p.features : i < j => p.features[i].id < p.features[j].id

\* Where entities were given out there is a sketch.
CursorsHeld(p, c) == \A k \in SketchIds : c[k] # 1 => k \in IdsOf(p.sketches)

Kept ==
    /\ Grown /\ DatumsKept /\ SketchesKept /\ AxesKept /\ ProfilesKept /\ FeaturesKept
    /\ InOrder(part') /\ CursorsHeld(part', cursor')

PartInv == Sound /\ Made(part, cursor) /\ edits \in 0 .. MaxEdits

LEMMA KeptMade ==
    ASSUME PartInv, Kept PROVE Made(part', cursor')
<1>1. \A kind \in Counted : \A id : Allocated(part, kind, id) => Allocated(part', kind, id)
  BY DEF Kept, Grown, Allocated, PartInv, Made
<1>2. \A kind, ref : GivenOnBody(part, kind, ref) => GivenOnBody(part', kind, ref)
  BY <1>1 DEF GivenOnBody, Provenance, Counted
<1>9. \A ref : GivenPlane(part, ref) => GivenPlane(part', ref)
  BY <1>2 DEF GivenPlane
<1>3. \A k, entities : GivenEntities(cursor, k, entities) => GivenEntities(cursor', k, entities)
  BY DEF Kept, Grown, GivenEntities, PartInv, Made
<1>4. \A d \in part'.datums : MadeDatum(part', d)
  <2>1. \A d : MadeDatum(part, d) => MadeDatum(part', d)
    BY <1>2, <1>9 DEF MadeDatum
  <2> QED
    BY <2>1 DEF Kept, DatumsKept, PartInv, Made
<1>5. \A s \in part'.sketches : MadeSketch(part', cursor', s)
  <2>1. \A s : MadeSketch(part, cursor, s) => MadeSketch(part', cursor', s)
    BY <1>2, <1>3, <1>9 DEF MadeSketch
  <2> QED
    BY <2>1 DEF Kept, SketchesKept, PartInv, Made
<1>6. \A a \in part'.axes : MadeAxis(part', cursor', a)
  <2>1. \A a : MadeAxis(part, cursor, a) => MadeAxis(part', cursor', a)
    BY <1>2, <1>3 DEF MadeAxis
  <2> QED
    BY <2>1 DEF Kept, AxesKept, PartInv, Made
<1>7. \A q \in part'.profiles : MadeProfile(cursor', q)
  BY <1>3 DEF Kept, ProfilesKept, PartInv, Made, MadeProfile
<1>8. \A i \in DOMAIN part'.features : MadeFeature(part', part'.features[i])
  <2>1. \A f : MadeFeature(part, f) => MadeFeature(part', f)
    BY <1>2 DEF MadeFeature
  <2> QED
    BY <2>1 DEF Kept, FeaturesKept, PartInv, Made
<1> QED
  BY <1>4, <1>5, <1>6, <1>7, <1>8 DEF Made, Kept, Grown, InOrder, CursorsHeld

\* Whatever the Part refers to was given out; a profile or an axis that is
\* not needed is none.
IsGiven(x) ==
    \/ \E kind \in Counted : \E id : x = <<kind, id>> /\ Allocated(part, kind, id)
    \/ \E k \in SketchIds, e \in Nat : x = <<k, e>> /\ e \in 1 .. (cursor[k] - 1)
    \/ x \in {<<"profile", NoId>>, <<"axis", NoId>>}

LEMMA ReferredGiven ==
    ASSUME PartInv, NEW x \in Referred PROVE IsGiven(x)
<1>1. ASSUME NEW ref \in BodyReferences PROVE Provenance(part, ref)
  <2>1. ASSUME NEW i \in DOMAIN part.features, part.features[i].kind = "edges"
        PROVE  Provenance(part, part.features[i].edges)
    BY <2>1 DEF PartInv, Sound, Valid, FeaturesValid, EdgesValid
  <2>2. /\ \A s \in part.sketches : MadeSketch(part, cursor, s)
        /\ \A a \in part.axes : MadeAxis(part, cursor, a)
        /\ \A d \in part.datums : MadeDatum(part, d)
    BY DEF PartInv, Made
  <2>3. CASE \E s \in part.sketches : s.support.kind = "surface" /\ ref = s.support
    BY <2>2, <2>3 DEF MadeSketch, GivenPlane, GivenOnBody
  <2>4. CASE \E s \in part.sketches : \E l \in s.links : ref = l.source
    BY <2>2, <2>4 DEF MadeSketch, GivenOnBody
  <2>5. CASE \E a \in part.axes : a.source.kind # "line" /\ ref = a.source
    BY <2>2, <2>5 DEF MadeAxis, GivenOnBody
  <2>6. CASE \E d \in part.datums : /\ d.source.kind \notin {"origin", "datum"}
                                    /\ ref = d.source
    BY <2>2, <2>6 DEF MadeDatum, GivenPlane, GivenOnBody
  <2>7. CASE \E i \in DOMAIN part.features :
               part.features[i].kind = "edges" /\ ref = part.features[i].edges
    BY <2>1, <2>7
  <2> QED
    BY <2>3, <2>4, <2>5, <2>6, <2>7 DEF BodyReferences
<1>2. CASE \E ref \in BodyReferences : x \in {<<"feature", ref.stage>>, <<"feature", ref.producer>>}
  BY <1>1, <1>2 DEF Provenance, IsGiven, Counted
<1>3. CASE \E i \in DOMAIN part.features :
             x \in {<<"profile", part.features[i].profile>>, <<"axis", part.features[i].axis>>}
  BY <1>3 DEF PartInv, Sound, Valid, FeaturesValid, IsGiven, Counted
<1>4. CASE \E a \in part.axes : /\ a.source.kind = "line"
                                /\ x = <<a.source.sketch, a.source.entity>>
  <2>1. PICK a \in part.axes : /\ a.source.kind = "line"
                               /\ x = <<a.source.sketch, a.source.entity>>
    BY <1>4
  <2>2. GivenEntities(cursor, a.source.sketch, {a.source.entity})
    BY <2>1 DEF PartInv, Made, MadeAxis
  <2>3. a.source.sketch \in SketchIds /\ a.source.entity \in 1 .. (cursor[a.source.sketch] - 1)
    BY <2>2 DEF GivenEntities
  <2>4. a.source.entity \in Nat
    BY <2>3 DEF PartInv, Made
  <2> QED
    BY <2>1, <2>3, <2>4 DEF IsGiven
<1>5. CASE \E q \in part.profiles : \E e \in q.uses : x = <<q.sketch, e>>
  <2>1. PICK q \in part.profiles : \E e \in q.uses : x = <<q.sketch, e>>
    BY <1>5
  <2>2. PICK e \in q.uses : x = <<q.sketch, e>>
    BY <2>1
  <2>3. q.sketch \in SketchIds /\ e \in 1 .. (cursor[q.sketch] - 1)
    BY DEF PartInv, Made, MadeProfile, GivenEntities
  <2>4. e \in Nat
    BY <2>3 DEF PartInv, Made
  <2> QED
    BY <2>2, <2>3, <2>4 DEF IsGiven
<1> QED
  BY <1>2, <1>3, <1>4, <1>5 DEF Referred

\* Nothing that is there now for the first time was given out before.
LEMMA KeptIds ==
    ASSUME PartInv, Kept, NEW x \in There', x \notin There
    PROVE  \/ \E kind \in Counted : \E id : x = <<kind, id>> /\ ~Allocated(part, kind, id)
           \/ \E k \in SketchIds : \E e : x = <<k, e>> /\ e \notin 1 .. (cursor[k] - 1)
<1>1. \A kind \in Counted : \A id \in Used(kind)' : NewOrThere(kind, id)
  <2>1. \A id \in IdsOf(part'.datums) : NewOrThere("datum", id)
    BY DEF Kept, DatumsKept, NewOrThere, Used, IdsOf
  <2>2. \A id \in IdsOf(part'.axes) : NewOrThere("axis", id)
    BY DEF Kept, AxesKept, NewOrThere, Used, IdsOf
  <2>3. \A id \in IdsOf(part'.profiles) : NewOrThere("profile", id)
    BY DEF Kept, ProfilesKept, NewOrThere, Used, IdsOf
  <2>4. \A i \in DOMAIN part'.features : NewOrThere("feature", part'.features[i].id)
    BY DEF Kept, FeaturesKept, NewOrThere, Used
  <2> QED
    BY <2>1, <2>2, <2>3, <2>4 DEF Used, Counted
<1>2. CASE \E kind \in Counted : \E id \in Used(kind)' : x = <<kind, id>>
  <2>1. PICK kind \in Counted : \E id \in Used(kind)' : x = <<kind, id>>
    BY <1>2
  <2>2. PICK id \in Used(kind)' : x = <<kind, id>>
    BY <2>1
  <2>3. id \notin Used(kind)
    BY <2>2 DEF There
  <2> QED
    BY <1>1, <2>2, <2>3 DEF NewOrThere
<1>3. CASE \E s \in part'.sketches : \E e \in s.entities : x = <<s.id, e>>
  <2>1. PICK s \in part'.sketches : \E e \in s.entities : x = <<s.id, e>>
    BY <1>3
  <2>2. PICK e \in s.entities : x = <<s.id, e>>
    BY <2>1
  <2>3. ~ \E t \in part.sketches : t.id = s.id /\ e \in t.entities
    BY <2>2 DEF There
  <2>4. s \notin part.sketches
    BY <2>3
  <2>5. MadeSketch(part', cursor', s) /\ e \notin 1 .. (cursor[s.id] - 1)
    BY <2>3, <2>4 DEF Kept, SketchesKept
  <2> QED
    BY <2>2, <2>5 DEF MadeSketch, GivenEntities
<1> QED
  BY <1>2, <1>3 DEF There

\* So nothing lost comes back.
LEMMA KeptLost ==
    ASSUME PartInv, Kept PROVE Lost \cap There' = {}
<1> SUFFICES ASSUME NEW x \in Referred, x \notin There, x \in There' PROVE FALSE
  BY DEF Lost
<1>1. IsGiven(x)
  BY ReferredGiven
<1>2. x \notin {<<"profile", NoId>>, <<"axis", NoId>>}
  BY DEF There
<1>3. SketchIds \cap Counted = {}
  BY StartsAssumption
<1> QED
  BY <1>1, <1>2, <1>3, KeptIds DEF IsGiven

-----------------------------------------------------------------------------
(* Every command keeps what there is *)

CursorStep ==
    \/ cursor' = cursor
    \/ \E k \in SketchIds \cap IdsOf(part.sketches) : cursor' = [cursor EXCEPT ![k] = @ + 1]

NextStep ==
    \/ part'.next = part.next
    \/ \E kind \in Counted : part'.next = [part.next EXCEPT ![kind] = @ + 1]

LEMMA StepGrown ==
    ASSUME PartInv, NextStep, CursorStep PROVE Grown
<1>1. part.next \in [Counted -> Nat \ {0}] /\ cursor \in [SketchIds -> Nat \ {0}]
  BY DEF PartInv, Made
<1>2. /\ part'.next \in [Counted -> Nat \ {0}]
      /\ \A kind \in Counted : part.next[kind] <= part'.next[kind]
  <2>1. CASE part'.next = part.next
    BY <1>1, <2>1
  <2>2. CASE \E kind \in Counted : part'.next = [part.next EXCEPT ![kind] = @ + 1]
    BY <1>1, <2>2
  <2> QED
    BY <2>1, <2>2 DEF NextStep
<1>3. /\ cursor' \in [SketchIds -> Nat \ {0}]
      /\ \A k \in SketchIds : cursor[k] <= cursor'[k]
  BY <1>1 DEF CursorStep
<1> QED
  BY <1>2, <1>3 DEF Grown

LEMMA StepCursorsHeld ==
    ASSUME PartInv, CursorStep, IdsOf(part.sketches) \subseteq IdsOf(part'.sketches)
    PROVE  CursorsHeld(part', cursor')
<1>1. CursorsHeld(part, cursor) /\ cursor \in [SketchIds -> Nat \ {0}]
  BY DEF PartInv, Made, CursorsHeld
<1>2. \A k \in SketchIds : cursor'[k] = cursor[k] \/ k \in IdsOf(part.sketches)
  BY <1>1 DEF CursorStep
<1> QED
  BY <1>1, <1>2 DEF CursorsHeld

LEMMA NewIdIsNew ==
    ASSUME NEW kind \in Counted, PartInv PROVE NewOrThere(kind, NewId(kind))
<1>1. part.next[kind] \in Nat
  BY DEF PartInv, Made
<1> QED
  BY <1>1 DEF NewOrThere, Allocated, NewId

\* Commands change one collection, and may give out an id.
Changed(set, x) ==
    \/ part' = [part EXCEPT ![set] = x]
    \/ \E kind \in Counted : part' = Allocating([part EXCEPT ![set] = x], kind)

LEMMA ChangedFields ==
    ASSUME PartInv, NEW set \in {"datums", "sketches", "axes", "profiles", "features"}, NEW x,
           Changed(set, x)
    PROVE  /\ part'[set] = x
           /\ \A other \in {"datums", "sketches", "axes", "profiles", "features"} \ {set} :
                 part'[other] = part[other]
           /\ NextStep
<1>1. DOMAIN part = {"datums", "sketches", "axes", "profiles", "features", "next"}
  BY DEF PartInv, Sound, Shaped
<1>2. CASE part' = [part EXCEPT ![set] = x]
  BY <1>1, <1>2 DEF NextStep
<1>3. CASE \E kind \in Counted : part' = Allocating([part EXCEPT ![set] = x], kind)
  BY <1>1, <1>3 DEF NextStep, Allocating, NewId
<1> QED
  BY <1>2, <1>3 DEF Changed

LEMMA ChangedKept ==
    ASSUME PartInv, NEW set \in {"datums", "sketches", "axes", "profiles", "features"}, NEW x,
           Changed(set, x), CursorStep,
           set = "datums" => DatumsKept, set = "sketches" => SketchesKept,
           set = "axes" => AxesKept, set = "profiles" => ProfilesKept,
           set = "features" => FeaturesKept /\ InOrder(part'),
           set = "sketches" => IdsOf(part.sketches) \subseteq IdsOf(part'.sketches)
    PROVE  Kept
<1>1. Grown
  BY ChangedFields, StepGrown
<1>2. \A other \in {"datums", "sketches", "axes", "profiles", "features"} \ {set} :
          part'[other] = part[other]
  BY ChangedFields
<1>3. DatumsKept /\ SketchesKept /\ AxesKept /\ ProfilesKept /\ FeaturesKept
  BY <1>2 DEF DatumsKept, SketchesKept, AxesKept, ProfilesKept, FeaturesKept
<1>4. InOrder(part')
  <2>1. InOrder(part)
    BY DEF PartInv, Made, InOrder
  <2>2. CASE set # "features"
    BY <1>2, <2>1, <2>2 DEF InOrder
  <2>3. CASE set = "features"
    BY <2>3
  <2> QED
    BY <2>2, <2>3
<1>5. CursorsHeld(part', cursor')
  <2>1. CASE set # "sketches"
    BY <1>2, <2>1, StepCursorsHeld
  <2>2. CASE set = "sketches"
    BY <2>2, StepCursorsHeld
  <2> QED
    BY <2>1, <2>2
<1> QED
  BY <1>1, <1>3, <1>4, <1>5 DEF Kept

\* References as commands write them, wherever they lead.
PlaneWritten(ref) ==
    CASE ref.kind = "origin" -> ref = Origin
      [] ref.kind = "datum" -> ref = OnDatum(ref.id)
      [] OTHER -> ref = OnBody("surface", ref.stage, ref.producer)

LinkWritten(l) ==
    /\ l = [entity |-> l.entity, source |-> l.source]
    /\ l.source = OnBody("edge", l.source.stage, l.source.producer)

SketchWritten(s) ==
    /\ s = [id |-> s.id, support |-> s.support, entities |-> s.entities, links |-> s.links]
    /\ s.id \in SketchIds
    /\ PlaneWritten(s.support)
    /\ \A l \in s.links : LinkWritten(l)

LEMMA PlaneGiven ==
    ASSUME NEW p, NEW ref, PlaneWritten(ref), ref.kind = "surface" => Provenance(p, ref)
    PROVE  GivenPlane(p, ref)
<1>1. CASE ref.kind \in {"origin", "datum"}
  BY <1>1 DEF PlaneWritten, GivenPlane
<1>2. CASE ref.kind \notin {"origin", "datum"}
  <2>1. ref = OnBody("surface", ref.stage, ref.producer)
    BY <1>2 DEF PlaneWritten
  <2>2. ref.kind = "surface"
    BY <2>1 DEF OnBody
  <2> QED
    BY <1>2, <2>1, <2>2 DEF GivenPlane, GivenOnBody
<1> QED
  BY <1>1, <1>2

\* A sketch of a valid Part stands on, and is linked to, what was there once.
LEMMA SketchMade ==
    ASSUME NEW p, NEW c, NEW s \in p.sketches, Valid(p), SketchWritten(s),
           GivenEntities(c, s.id, s.entities)
    PROVE  MadeSketch(p, c, s)
<1>1. s.support.kind = "surface" => Provenance(p, s.support)
  BY DEF Valid, SketchesValid, SurfaceValid
<1>2. GivenPlane(p, s.support)
  BY <1>1, PlaneGiven DEF SketchWritten
<1>3. \A l \in s.links : Provenance(p, l.source)
  BY DEF Valid, SketchesValid, LinksValid
<1> QED
  BY <1>2, <1>3 DEF MadeSketch, SketchWritten, LinkWritten, GivenOnBody

\* An entity of t is one of before or has the next id.
EntitiesKept(t) ==
    \A e \in t.entities :
        \/ \E s \in part.sketches : s.id = t.id /\ e \in s.entities
        \/ e = cursor[t.id] /\ cursor' = [cursor EXCEPT ![t.id] = @ + 1]

LEMMA SketchGiven ==
    ASSUME PartInv, CursorStep, NEW t, t.id \in SketchIds, EntitiesKept(t)
    PROVE  GivenEntities(cursor', t.id, t.entities)
<1>1. cursor \in [SketchIds -> Nat \ {0}]
  BY DEF PartInv, Made
<1>2. cursor'[t.id] \in Nat /\ cursor[t.id] \in Nat /\ cursor[t.id] <= cursor'[t.id]
  BY <1>1 DEF CursorStep
<1>3. ASSUME NEW e \in t.entities PROVE e \in 1 .. (cursor'[t.id] - 1)
  <2>1. CASE \E s \in part.sketches : s.id = t.id /\ e \in s.entities
    <3>1. e \in 1 .. (cursor[t.id] - 1)
      BY <2>1 DEF PartInv, Made, MadeSketch, GivenEntities
    <3> QED
      BY <1>2, <3>1
  <2>2. CASE e = cursor[t.id] /\ cursor' = [cursor EXCEPT ![t.id] = @ + 1]
    BY <1>1, <2>2
  <2> QED
    BY <2>1, <2>2 DEF EntitiesKept
<1> QED
  BY <1>3 DEF GivenEntities

LEMMA SketchChangedKept ==
    ASSUME PartInv, NEW t, NEW kept,
           part'.sketches = kept \cup {t}, kept \subseteq part.sketches, Valid(part'),
           SketchWritten(t), CursorStep, EntitiesKept(t)
    PROVE  SketchesKept
<1>1. MadeSketch(part', cursor', t)
  <2>1. t.id \in SketchIds
    BY DEF SketchWritten
  <2> QED
    BY <2>1, SketchGiven, SketchMade
<1>2. cursor[t.id] \in Nat
  BY DEF PartInv, Made, SketchWritten
<1>3. \A e \in t.entities :
          \/ \E s \in part.sketches : s.id = t.id /\ e \in s.entities
          \/ e \notin 1 .. (cursor[t.id] - 1)
  BY <1>2 DEF EntitiesKept
<1> QED
  BY <1>1, <1>3 DEF SketchesKept

\* A command that puts the sketch t in place of s, or adds it.
LEMMA SketchEditKept ==
    ASSUME PartInv, NEW t, NEW kept, kept \subseteq part.sketches,
           Commit([part EXCEPT !["sketches"] = kept \cup {t}]),
           \A s \in part.sketches \ kept : s.id = t.id,
           SketchWritten(t), CursorStep, EntitiesKept(t)
    PROVE  Kept
<1>1. Changed("sketches", kept \cup {t}) /\ Valid(part')
  BY DEF Commit, Changed
<1>2. part'.sketches = kept \cup {t}
  BY <1>1, ChangedFields
<1>3. SketchesKept
  BY <1>1, <1>2, SketchChangedKept
<1>4. IdsOf(part.sketches) \subseteq IdsOf(part'.sketches)
  BY <1>2 DEF IdsOf
<1> QED
  BY <1>1, <1>3, <1>4, ChangedKept

\* The sketches there are as commands make them.
LEMMA ThereSketch ==
    ASSUME PartInv, NEW s \in part.sketches
    PROVE  /\ SketchWritten(s) /\ s.id \in SketchIds
           /\ DOMAIN s = {"id", "support", "entities", "links"}
<1>1. MadeSketch(part, cursor, s)
  BY DEF PartInv, Made
<1>2. s = [id |-> s.id, support |-> s.support, entities |-> s.entities, links |-> s.links]
  BY <1>1 DEF MadeSketch
<1>3. DOMAIN s = {"id", "support", "entities", "links"}
  BY <1>2
<1>4. s.id \in SketchIds
  BY <1>1 DEF MadeSketch, GivenEntities
<1>5. PlaneWritten(s.support)
  BY <1>1 DEF MadeSketch, GivenPlane, GivenOnBody, PlaneWritten
<1>6. \A l \in s.links : LinkWritten(l)
  BY <1>1 DEF MadeSketch, GivenOnBody, LinkWritten
<1> QED
  BY <1>2, <1>3, <1>4, <1>5, <1>6 DEF SketchWritten

LEMMA SupportWritten ==
    ASSUME NEW support \in Supports PROVE PlaneWritten(support)
<1>1. CASE support = Origin
  BY <1>1 DEF Origin, PlaneWritten
<1>2. CASE \E f, g : support = OnBody("surface", f, g)
  BY <1>2 DEF OnBody, PlaneWritten
<1>3. CASE \E d : support = OnDatum(d)
  BY <1>3 DEF OnDatum, PlaneWritten
<1> QED
  BY <1>1, <1>2, <1>3 DEF Supports

\* Another support, other entities or other links make it another sketch.
LEMMA SketchAltered ==
    ASSUME PartInv, NEW s \in part.sketches, NEW t, DOMAIN t = DOMAIN s, t.id = s.id,
           t = [x \in DOMAIN t |-> t[x]],
           PlaneWritten(t.support), \A l \in t.links : LinkWritten(l)
    PROVE  SketchWritten(t)
<1>1. DOMAIN t = {"id", "support", "entities", "links"} /\ t.id \in SketchIds
  BY ThereSketch
<1>2. t = [id |-> t.id, support |-> t.support, entities |-> t.entities, links |-> t.links]
  BY <1>1
<1> QED
  BY <1>1, <1>2 DEF SketchWritten

LEMMA SketchReplacedKept ==
    ASSUME PartInv, NEW s \in part.sketches, NEW t, Commit(Replaced("sketches", s, t)),
           SketchWritten(t), t.id = s.id, CursorStep, EntitiesKept(t)
    PROVE  Kept
<1>1. Commit([part EXCEPT !["sketches"] = (part.sketches \ {s}) \cup {t}])
  BY DEF Replaced
<1>2. \A r \in part.sketches \ (part.sketches \ {s}) : r.id = t.id
  OBVIOUS
<1> QED
  BY <1>1, <1>2, SketchEditKept

LEMMA DrawsSteps ==
    ASSUME PartInv, NEW s \in part.sketches, Draws(s.id)
    PROVE  CursorStep /\ cursor' = [cursor EXCEPT ![s.id] = @ + 1]
<1>1. s.id \in SketchIds
  BY ThereSketch
<1> QED
  BY <1>1 DEF Draws, CursorStep, IdsOf

LEMMA SketchStepKept ==
    ASSUME PartInv,
           CreateSketch \/ SetSupport \/ AddLine \/ ProjectEdge \/ BreakLink \/ EraseEntities
    PROVE  Kept
<1>1. CASE CreateSketch
  <2>1. PICK k \in SketchIds : \E support \in Supports :
            /\ Commit(With("sketches",
                   [id |-> k, support |-> support, entities |-> {}, links |-> {}]))
            /\ UNCHANGED cursor
    BY <1>1 DEF CreateSketch
  <2>2. PICK support \in Supports :
            /\ Commit(With("sketches",
                   [id |-> k, support |-> support, entities |-> {}, links |-> {}]))
            /\ UNCHANGED cursor
    BY <2>1
  <2> DEFINE t == [id |-> k, support |-> support, entities |-> {}, links |-> {}]
  <2>3. EntitiesKept(t) /\ CursorStep
    BY <2>2 DEF EntitiesKept, CursorStep
  <2>4. Commit([part EXCEPT !["sketches"] = part.sketches \cup {t}])
    BY <2>2 DEF With
  <2>5. SketchWritten(t)
    BY SupportWritten DEF SketchWritten
  <2> HIDE DEF t
  <2> QED
    BY <2>3, <2>4, <2>5, SketchEditKept
<1>2. ASSUME NEW s \in part.sketches
      PROVE  /\ DOMAIN s = {"id", "support", "entities", "links"} /\ s.id \in SketchIds
             /\ PlaneWritten(s.support) /\ \A l \in s.links : LinkWritten(l)
  BY ThereSketch DEF SketchWritten
<1>3. CASE SetSupport
  <2>1. PICK s \in part.sketches : \E support \in Supports :
            Commit(Resupported(s, support)) /\ UNCHANGED cursor
    BY <1>3 DEF SetSupport
  <2>2. PICK support \in Supports : Commit(Resupported(s, support)) /\ UNCHANGED cursor
    BY <2>1
  <2> DEFINE t == [s EXCEPT !.support = support]
  <2>3. /\ DOMAIN t = DOMAIN s /\ t = [x \in DOMAIN t |-> t[x]]
        /\ t.id = s.id /\ t.support = support
        /\ t.entities = s.entities /\ t.links = s.links
    BY <1>2
  <2>4. Commit(Replaced("sketches", s, t)) /\ CursorStep
    BY <2>2 DEF Resupported, CursorStep
  <2> HIDE DEF t
  <2>5. SketchWritten(t)
    BY <1>2, <2>3, SupportWritten, SketchAltered
  <2>6. EntitiesKept(t)
    BY <2>3 DEF EntitiesKept
  <2> QED
    BY <2>3, <2>4, <2>5, <2>6, SketchReplacedKept
<1>4. CASE AddLine
  <2>1. PICK s \in part.sketches : Draws(s.id) /\ Commit(Drawn(s))
    BY <1>4 DEF AddLine
  <2> DEFINE t == [s EXCEPT !.entities = @ \cup {cursor[s.id]}]
  <2>2. /\ DOMAIN t = DOMAIN s /\ t = [x \in DOMAIN t |-> t[x]]
        /\ t.id = s.id /\ t.support = s.support
        /\ t.entities = s.entities \cup {cursor[s.id]} /\ t.links = s.links
    BY <1>2
  <2>3. Commit(Replaced("sketches", s, t))
    BY <2>1 DEF Drawn
  <2> HIDE DEF t
  <2>4. SketchWritten(t)
    BY <1>2, <2>2, SketchAltered
  <2>5. EntitiesKept(t) /\ CursorStep
    BY <2>1, <2>2, DrawsSteps DEF EntitiesKept
  <2> QED
    BY <2>2, <2>3, <2>4, <2>5, SketchReplacedKept
<1>5. CASE ProjectEdge
  <2>1. PICK s \in part.sketches : \E source \in References("edge") :
            LET link == [entity |-> cursor[s.id], source |-> source]
                linked == [s EXCEPT !.entities = @ \cup {link.entity}, !.links = @ \cup {link}]
            IN  Draws(s.id) /\ Commit(Replaced("sketches", s, linked))
    BY <1>5 DEF ProjectEdge
  <2>2. PICK source \in References("edge") :
            LET link == [entity |-> cursor[s.id], source |-> source]
                linked == [s EXCEPT !.entities = @ \cup {link.entity}, !.links = @ \cup {link}]
            IN  Draws(s.id) /\ Commit(Replaced("sketches", s, linked))
    BY <2>1
  <2> DEFINE link == [entity |-> cursor[s.id], source |-> source]
             t == [s EXCEPT !.entities = @ \cup {link.entity}, !.links = @ \cup {link}]
  <2>3. /\ DOMAIN t = DOMAIN s /\ t = [x \in DOMAIN t |-> t[x]]
        /\ t.id = s.id /\ t.support = s.support
        /\ t.entities = s.entities \cup {cursor[s.id]} /\ t.links = s.links \cup {link}
    BY <1>2
  <2>4. Draws(s.id) /\ Commit(Replaced("sketches", s, t))
    BY <2>2
  <2>5. LinkWritten(link)
    BY DEF LinkWritten, References, OnBody
  <2> HIDE DEF t, link
  <2>6. SketchWritten(t)
    <3>1. \A l \in t.links : LinkWritten(l)
      BY <1>2, <2>3, <2>5
    <3> QED
      BY <1>2, <2>3, <3>1, SketchAltered
  <2>7. EntitiesKept(t) /\ CursorStep
    BY <2>3, <2>4, DrawsSteps DEF EntitiesKept
  <2> QED
    BY <2>3, <2>4, <2>6, <2>7, SketchReplacedKept
<1>6. CASE BreakLink
  <2>1. PICK s \in part.sketches : \E l \in s.links :
            /\ Commit(Replaced("sketches", s, [s EXCEPT !.links = @ \ {l}]))
            /\ UNCHANGED cursor
    BY <1>6 DEF BreakLink
  <2>2. PICK l : /\ Commit(Replaced("sketches", s, [s EXCEPT !.links = @ \ {l}]))
                 /\ UNCHANGED cursor
    BY <2>1
  <2> DEFINE t == [s EXCEPT !.links = @ \ {l}]
  <2>3. /\ DOMAIN t = DOMAIN s /\ t = [x \in DOMAIN t |-> t[x]]
        /\ t.id = s.id /\ t.support = s.support
        /\ t.entities = s.entities /\ t.links = s.links \ {l}
    BY <1>2
  <2>4. Commit(Replaced("sketches", s, t)) /\ CursorStep
    BY <2>2 DEF CursorStep
  <2> HIDE DEF t
  <2>5. SketchWritten(t)
    <3>1. \A m \in t.links : LinkWritten(m)
      BY <1>2, <2>3
    <3> QED
      BY <1>2, <2>3, <3>1, SketchAltered
  <2>6. EntitiesKept(t)
    BY <2>3 DEF EntitiesKept
  <2> QED
    BY <2>3, <2>4, <2>5, <2>6, SketchReplacedKept
<1>7. CASE EraseEntities
  <2>1. PICK s \in part.sketches : \E erased :
            /\ Commit(Replaced("sketches", s,
                   [s EXCEPT !.entities = @ \ erased,
                             !.links = {l \in @ : l.entity \notin erased}]))
            /\ UNCHANGED cursor
    BY <1>7 DEF EraseEntities
  <2>2. PICK erased :
            /\ Commit(Replaced("sketches", s,
                   [s EXCEPT !.entities = @ \ erased,
                             !.links = {l \in @ : l.entity \notin erased}]))
            /\ UNCHANGED cursor
    BY <2>1
  <2> DEFINE t == [s EXCEPT !.entities = @ \ erased,
                            !.links = {l \in @ : l.entity \notin erased}]
  <2>3. /\ DOMAIN t = DOMAIN s /\ t = [x \in DOMAIN t |-> t[x]]
        /\ t.id = s.id /\ t.support = s.support
        /\ t.entities = s.entities \ erased /\ t.links \subseteq s.links
    BY <1>2
  <2>4. Commit(Replaced("sketches", s, t)) /\ CursorStep
    BY <2>2 DEF CursorStep
  <2> HIDE DEF t
  <2>5. SketchWritten(t)
    <3>1. \A m \in t.links : LinkWritten(m)
      BY <1>2, <2>3
    <3> QED
      BY <1>2, <2>3, <3>1, SketchAltered
  <2>6. EntitiesKept(t)
    BY <2>3 DEF EntitiesKept
  <2> QED
    BY <2>3, <2>4, <2>5, <2>6, SketchReplacedKept
<1> QED
  BY <1>1, <1>3, <1>4, <1>5, <1>6, <1>7

LEMMA AddLineWithAxisKept ==
    ASSUME PartInv, AddLineWithAxis PROVE Kept
<1>1. PICK s \in part.sketches :
        LET axis == [id |-> NewId("axis"), source |-> OnLine(s.id, cursor[s.id])]
        IN  /\ Draws(s.id)
            /\ Commit(Allocating([Drawn(s) EXCEPT !.axes = @ \cup {axis}], "axis"))
  BY DEF AddLineWithAxis
<1> DEFINE t == [s EXCEPT !.entities = @ \cup {cursor[s.id]}]
           axis == [id |-> NewId("axis"), source |-> OnLine(s.id, cursor[s.id])]
<1>2. /\ DOMAIN s = {"id", "support", "entities", "links"} /\ s.id \in SketchIds
      /\ PlaneWritten(s.support) /\ \A l \in s.links : LinkWritten(l)
  BY ThereSketch DEF SketchWritten
<1>3. /\ DOMAIN t = DOMAIN s /\ t = [x \in DOMAIN t |-> t[x]]
      /\ t.id = s.id /\ t.support = s.support
      /\ t.entities = s.entities \cup {cursor[s.id]} /\ t.links = s.links
  BY <1>2
<1>4. /\ axis = [id |-> axis.id, source |-> axis.source]
      /\ axis.id = NewId("axis") /\ axis.source = OnLine(s.id, cursor[s.id])
  OBVIOUS
<1>5. part' = Allocating([Drawn(s) EXCEPT !.axes = @ \cup {axis}], "axis") /\ Valid(part')
  BY <1>1 DEF Commit
<1>6. Drawn(s) = [part EXCEPT !["sketches"] = (@ \ {s}) \cup {t}]
  BY DEF Drawn, Replaced
<1> HIDE DEF t, axis
<1>7. DOMAIN part = {"datums", "sketches", "axes", "profiles", "features", "next"}
  BY DEF PartInv, Sound, Shaped
<1>8. /\ part'.sketches = (part.sketches \ {s}) \cup {t}
      /\ part'.axes = part.axes \cup {axis}
      /\ part'.datums = part.datums /\ part'.profiles = part.profiles
      /\ part'.features = part.features
      /\ part'.next = [part.next EXCEPT !["axis"] = @ + 1]
  BY <1>5, <1>6, <1>7 DEF Allocating, NewId
<1>9. cursor' = [cursor EXCEPT ![s.id] = @ + 1]
  BY <1>1 DEF Draws
<1>10. CursorStep /\ NextStep
  BY <1>1, <1>8, DrawsSteps DEF NextStep, Counted
<1>11. EntitiesKept(t)
  BY <1>3, <1>9 DEF EntitiesKept
<1>12. SketchesKept
  <2>1. SketchWritten(t)
    BY <1>2, <1>3, SketchAltered
  <2> QED
    BY <1>5, <1>8, <1>10, <1>11, <2>1, SketchChangedKept
<1>13. MadeAxis(part', cursor', axis)
  <2>1. cursor[s.id] \in Nat \ {0} /\ cursor'[s.id] = cursor[s.id] + 1
    BY <1>2, <1>9 DEF PartInv, Made
  <2>2. GivenEntities(cursor', s.id, {cursor[s.id]})
    BY <1>2, <2>1 DEF GivenEntities
  <2> QED
    BY <1>4, <2>2 DEF MadeAxis, OnLine
<1>14. AxesKept
  BY <1>4, <1>8, <1>13, NewIdIsNew DEF AxesKept, Counted
<1>15. InOrder(part')
  BY <1>8 DEF PartInv, Made, InOrder
<1>16. CursorsHeld(part', cursor')
  <2>1. IdsOf(part.sketches) \subseteq IdsOf(part'.sketches)
    BY <1>3, <1>8 DEF IdsOf
  <2> QED
    BY <1>10, <2>1, StepCursorsHeld
<1> QED
  BY <1>8, <1>10, <1>12, <1>14, <1>15, <1>16, StepGrown
     DEF Kept, DatumsKept, ProfilesKept, FeaturesKept

\* A profile of entities of a sketch.
LEMMA ProfileGiven ==
    ASSUME PartInv, NEW s \in part.sketches, NEW uses \in SUBSET s.entities
    PROVE  GivenEntities(cursor, s.id, uses)
BY DEF PartInv, Made, MadeSketch, GivenEntities

LEMMA ProfileStepKept ==
    ASSUME PartInv, CreateProfile \/ EditProfile \/ DeleteProfile PROVE Kept
<1>1. CASE CreateProfile
  <2>1. PICK s \in part.sketches : \E uses \in (SUBSET s.entities) \ {{}} :
          LET p == [id |-> NewId("profile"), sketch |-> s.id, uses |-> uses]
          IN  Commit(Allocating(With("profiles", p), "profile")) /\ UNCHANGED cursor
    BY <1>1 DEF CreateProfile, Regions
  <2>2. PICK uses \in (SUBSET s.entities) \ {{}} :
          LET p == [id |-> NewId("profile"), sketch |-> s.id, uses |-> uses]
          IN  Commit(Allocating(With("profiles", p), "profile")) /\ UNCHANGED cursor
    BY <2>1
  <2> DEFINE p == [id |-> NewId("profile"), sketch |-> s.id, uses |-> uses]
  <2>3. /\ p = [id |-> p.id, sketch |-> p.sketch, uses |-> p.uses]
        /\ p.id = NewId("profile") /\ p.sketch = s.id /\ p.uses = uses
    OBVIOUS
  <2>4. Changed("profiles", part.profiles \cup {p}) /\ cursor' = cursor
    BY <2>2 DEF Commit, With, Changed, Counted
  <2> HIDE DEF p
  <2>5. MadeProfile(cursor', p)
    BY <2>3, <2>4, ProfileGiven DEF MadeProfile
  <2>6. NewOrThere("profile", p.id)
    BY <2>3, NewIdIsNew DEF Counted
  <2>7. ProfilesKept
    BY <2>4, <2>5, <2>6, ChangedFields DEF ProfilesKept
  <2> QED
    BY <2>4, <2>7, ChangedKept DEF CursorStep
<1>2. CASE EditProfile
  <2>1. PICK p \in part.profiles : \E s \in SketchOf(part, p.sketch) : \E uses \in (SUBSET s.entities) \ {{}} :
          Commit(Replaced("profiles", p, [p EXCEPT !.uses = uses])) /\ UNCHANGED cursor
    BY <1>2 DEF EditProfile, Regions
  <2>2. PICK s \in SketchOf(part, p.sketch) : \E uses \in (SUBSET s.entities) \ {{}} :
          Commit(Replaced("profiles", p, [p EXCEPT !.uses = uses])) /\ UNCHANGED cursor
    BY <2>1
  <2>3. PICK uses \in (SUBSET s.entities) \ {{}} :
          Commit(Replaced("profiles", p, [p EXCEPT !.uses = uses])) /\ UNCHANGED cursor
    BY <2>2
  <2> DEFINE q == [p EXCEPT !.uses = uses]
  <2>4. p = [id |-> p.id, sketch |-> p.sketch, uses |-> p.uses]
    BY DEF PartInv, Made, MadeProfile
  <2>5. /\ q = [id |-> q.id, sketch |-> q.sketch, uses |-> q.uses]
        /\ q.id = p.id /\ q.sketch = p.sketch /\ q.uses = uses
    BY <2>4
  <2>6. Changed("profiles", (part.profiles \ {p}) \cup {q}) /\ cursor' = cursor
    BY <2>3 DEF Commit, Replaced, Changed
  <2> HIDE DEF q
  <2>7. MadeProfile(cursor', q)
    BY <2>5, <2>6, ProfileGiven DEF MadeProfile, SketchOf
  <2>8. NewOrThere("profile", q.id)
    BY <2>5 DEF NewOrThere, Used, IdsOf
  <2>9. ProfilesKept
    BY <2>6, <2>7, <2>8, ChangedFields DEF ProfilesKept
  <2> QED
    BY <2>6, <2>9, ChangedKept DEF CursorStep
<1>3. CASE DeleteProfile
  <2>1. PICK p \in part.profiles : Commit(Without("profiles", p)) /\ UNCHANGED cursor
    BY <1>3 DEF DeleteProfile
  <2>2. Changed("profiles", part.profiles \ {p}) /\ cursor' = cursor
    BY <2>1 DEF Commit, Without, Changed
  <2>3. ProfilesKept
    BY <2>2, ChangedFields DEF ProfilesKept
  <2> QED
    BY <2>2, <2>3, ChangedKept DEF CursorStep
<1> QED
  BY <1>1, <1>2, <1>3

\* What is found on the body was given out, and its producer is not after the
\* stage.
LEMMA FoundGiven ==
    ASSUME NEW p, NEW ref, Shaped(p), Valid(p), InOrder(p), p.next \in [Counted -> Nat],
           Found(p, ref, UpToDate(p))
    PROVE  Provenance(p, ref)
<1>1. UpToDate(p) \subseteq DOMAIN p.features
  BY DEF UpToDate
<1>2. PICK i, j \in UpToDate(p) :
          p.features[i].id = ref.stage /\ p.features[j].id = ref.producer /\ j <= i
  BY DEF Found
<1>3. i \in Nat /\ j \in Nat
  BY <1>1, HistoryPositions
<1>4. Allocated(p, "feature", ref.stage) /\ Allocated(p, "feature", ref.producer)
  BY <1>1, <1>2 DEF Valid, FeaturesValid
<1>5. ref.stage \in Nat /\ ref.producer \in Nat
  BY <1>4 DEF Allocated, Counted
<1>6. ref.producer <= ref.stage
  BY <1>1, <1>2, <1>3, <1>5 DEF InOrder
<1> QED
  BY <1>4, <1>6 DEF Provenance

\* What a command that is accepted leaves, as far as its order goes.
InSequence(p) == Shaped(p) /\ Valid(p) /\ InOrder(p) /\ p.next \in [Counted -> Nat]

LEMMA ChangedInSequence ==
    ASSUME PartInv, NEW set \in {"datums", "sketches", "axes", "profiles"}, NEW x,
           Changed(set, x), Valid(part')
    PROVE  InSequence(part')
<1>1. part'.features = part.features /\ NextStep
  BY ChangedFields
<1>2. Shaped(part')
  <2> DEFINE u == [part EXCEPT ![set] = x]
  <2>1. Shaped(u)
    BY ChangedShaped DEF PartInv, Sound
  <2>2. part' = u \/ \E kind \in Counted : part' = Allocating(u, kind)
    BY DEF Changed
  <2> HIDE DEF u
  <2> QED
    BY <2>1, <2>2, AllocatingShaped
<1>3. InOrder(part')
  BY <1>1 DEF PartInv, Made, InOrder
<1>4. part'.next \in [Counted -> Nat]
  <2>1. part.next \in [Counted -> Nat]
    BY DEF PartInv, Made
  <2>2. CASE part'.next = part.next
    BY <2>1, <2>2
  <2>3. CASE \E kind \in Counted : part'.next = [part.next EXCEPT ![kind] = @ + 1]
    BY <2>1, <2>3
  <2> QED
    BY <1>1, <2>2, <2>3 DEF NextStep
<1> QED
  BY <1>2, <1>3, <1>4 DEF InSequence

\* An axis that designates something was made by a command.
LEMMA AxisMade ==
    ASSUME PartInv, NEW after, NEW a \in after.axes, InSequence(after),
           a.source \in AxisSources, DesignatesAxis(after, a),
           a = [id |-> a.id, source |-> a.source]
    PROVE  MadeAxis(after, cursor, a)
<1>1. CASE \E s \in part.sketches : \E e \in s.entities : a.source = OnLine(s.id, e)
  <2>1. PICK s \in part.sketches : \E e \in s.entities : a.source = OnLine(s.id, e)
    BY <1>1
  <2>2. PICK e \in s.entities : a.source = OnLine(s.id, e)
    BY <2>1
  <2>3. /\ a.source.kind = "line" /\ a.source.sketch = s.id /\ a.source.entity = e
    BY <2>2 DEF OnLine
  <2>4. GivenEntities(cursor, s.id, {e})
    BY ProfileGiven
  <2> QED
    BY <2>2, <2>3, <2>4 DEF MadeAxis
<1>2. CASE a.source \in References("edge") \cup References("face")
  <2>1. /\ a.source.kind \in {"edge", "face"}
        /\ a.source = OnBody(a.source.kind, a.source.stage, a.source.producer)
    BY <1>2 DEF References, OnBody
  <2>2. Found(after, a.source, UpToDate(after))
    <3>1. AxisOutcome(after, UpToDate(after), a).status = "resolved"
      BY DEF DesignatesAxis
    <3>2. CASE a.source.kind = "edge"
      <4>1. AxisOutcome(after, UpToDate(after), a)
                = StraightEdgeOutcome(after, UpToDate(after), a.source)
        BY <3>2 DEF AxisOutcome
      <4> QED
        BY <3>1, <4>1 DEF StraightEdgeOutcome, SelectedEdge, Unresolved
    <3>3. CASE a.source.kind = "face"
      <4>1. AxisOutcome(after, UpToDate(after), a)
                = CylinderOutcome(after, UpToDate(after), a.source)
        BY <3>3 DEF AxisOutcome
      <4> QED
        BY <3>1, <4>1 DEF CylinderOutcome, InCatalog, Unresolved
    <3> QED
      BY <2>1, <3>2, <3>3
  <2>3. Provenance(after, a.source)
    BY <2>2, FoundGiven DEF InSequence
  <2> QED
    BY <2>1, <2>3 DEF MadeAxis, GivenOnBody
<1> QED
  BY <1>1, <1>2 DEF AxisSources

LEMMA AxisStepKept ==
    ASSUME PartInv, CreateAxis \/ EditAxis \/ DeleteAxis PROVE Kept
<1>1. CASE CreateAxis
  <2>1. PICK source \in AxisSources :
          LET axis == [id |-> NewId("axis"), source |-> source]
              after == Allocating(With("axes", axis), "axis")
          IN  Commit(after) /\ DesignatesAxis(after, axis) /\ UNCHANGED cursor
    BY <1>1 DEF CreateAxis
  <2> DEFINE axis == [id |-> NewId("axis"), source |-> source]
             after == Allocating(With("axes", axis), "axis")
  <2>2. /\ axis = [id |-> axis.id, source |-> axis.source]
        /\ axis.id = NewId("axis") /\ axis.source = source
    OBVIOUS
  <2>3. Changed("axes", part.axes \cup {axis}) /\ cursor' = cursor
    BY <2>1 DEF Commit, With, Changed, Counted
  <2>4. part' = after /\ Valid(part') /\ DesignatesAxis(after, axis)
    BY <2>1 DEF Commit
  <2> HIDE DEF axis, after
  <2>5. part'.axes = part.axes \cup {axis}
    BY <2>3, ChangedFields
  <2>6. MadeAxis(part', cursor', axis)
    <3>1. InSequence(part')
      BY <2>3, <2>4, ChangedInSequence
    <3> QED
      BY <2>2, <2>3, <2>4, <2>5, <3>1, AxisMade
  <2>7. NewOrThere("axis", axis.id)
    BY <2>2, NewIdIsNew DEF Counted
  <2>8. AxesKept
    BY <2>5, <2>6, <2>7 DEF AxesKept
  <2> QED
    BY <2>3, <2>8, ChangedKept DEF CursorStep
<1>2. CASE EditAxis
  <2>1. PICK a \in part.axes : \E source \in AxisSources :
          LET axis == [a EXCEPT !.source = source]
              after == Replaced("axes", a, axis)
          IN  DesignatesAxis(after, axis) /\ Commit(after) /\ UNCHANGED cursor
    BY <1>2 DEF EditAxis
  <2>2. PICK source \in AxisSources :
          LET axis == [a EXCEPT !.source = source]
              after == Replaced("axes", a, axis)
          IN  DesignatesAxis(after, axis) /\ Commit(after) /\ UNCHANGED cursor
    BY <2>1
  <2> DEFINE axis == [a EXCEPT !.source = source]
             after == Replaced("axes", a, axis)
  <2>3. a = [id |-> a.id, source |-> a.source]
    BY DEF PartInv, Made, MadeAxis
  <2>4. /\ axis = [id |-> axis.id, source |-> axis.source]
        /\ axis.id = a.id /\ axis.source = source
    BY <2>3
  <2>5. Changed("axes", (part.axes \ {a}) \cup {axis}) /\ cursor' = cursor
    BY <2>2 DEF Commit, Replaced, Changed
  <2>6. part' = after /\ Valid(part') /\ DesignatesAxis(after, axis)
    BY <2>2 DEF Commit
  <2> HIDE DEF axis, after
  <2>7. part'.axes = (part.axes \ {a}) \cup {axis}
    BY <2>5, ChangedFields
  <2>8. MadeAxis(part', cursor', axis)
    <3>1. InSequence(part')
      BY <2>5, <2>6, ChangedInSequence
    <3> QED
      BY <2>4, <2>5, <2>6, <2>7, <3>1, AxisMade
  <2>9. NewOrThere("axis", axis.id)
    BY <2>4 DEF NewOrThere, Used, IdsOf
  <2>10. AxesKept
    BY <2>7, <2>8, <2>9 DEF AxesKept
  <2> QED
    BY <2>5, <2>10, ChangedKept DEF CursorStep
<1>3. CASE DeleteAxis
  <2>1. PICK a \in part.axes : Commit(Without("axes", a)) /\ UNCHANGED cursor
    BY <1>3 DEF DeleteAxis
  <2>2. Changed("axes", part.axes \ {a}) /\ cursor' = cursor
    BY <2>1 DEF Commit, Without, Changed
  <2>3. AxesKept
    BY <2>2, ChangedFields DEF AxesKept
  <2> QED
    BY <2>2, <2>3, ChangedKept DEF CursorStep
<1> QED
  BY <1>1, <1>2, <1>3

-----------------------------------------------------------------------------
(* Datum planes *)

\* A plane comes first in the chain of planes it is offset from.
LEMMA ChainStarts ==
    ASSUME NEW datums, NEW d \in datums PROVE d \in DatumChain(datums, d.id)
BY DEF DatumChain

LEMMA DatumMade ==
    ASSUME NEW p, NEW d \in p.datums, InSequence(p), d.kind \in {"offset", "edge", "points"},
           d = [id |-> d.id, kind |-> d.kind, source |-> d.source],
           d.source \in DatumSources(d.kind), Placed(p, OnDatum(d.id), UpToDate(p))
    PROVE  MadeDatum(p, d)
<1>1. d \in DatumChain(p.datums, d.id)
  BY ChainStarts
<1>2. d.source.kind \notin {"origin", "datum"} => Found(p, d.source, UpToDate(p))
  BY <1>1 DEF Placed, OnDatum
<1>3. d.source.kind \notin {"origin", "datum"} => Provenance(p, d.source)
  BY <1>2, FoundGiven DEF InSequence
<1>4. \A kind : \A ref \in References(kind) :
          ref.kind = kind /\ ref = OnBody(kind, ref.stage, ref.producer)
  BY DEF References, OnBody
<1>5. CASE d.kind = "offset"
  <2>1. PlaneWritten(d.source)
    BY <1>4, <1>5 DEF DatumSources, PlaneWritten, Origin, OnDatum
  <2>2. GivenPlane(p, d.source)
    BY <1>3, <2>1, PlaneGiven
  <2> QED
    BY <1>5, <2>2 DEF MadeDatum
<1>6. CASE d.kind \in {"edge", "points"}
  <2>1. d.source \in References(d.kind)
    BY <1>6 DEF DatumSources
  <2>2. GivenOnBody(p, d.kind, d.source)
    BY <1>3, <1>4, <1>6, <2>1 DEF GivenOnBody
  <2> QED
    BY <1>6, <2>2 DEF MadeDatum
<1> QED
  BY <1>5, <1>6

LEMMA DatumStepKept ==
    ASSUME PartInv, CreateDatum \/ EditDatum \/ DeleteDatum PROVE Kept
<1>1. CASE CreateDatum
  <2>1. PICK kind \in {"offset", "edge", "points"} : \E source \in DatumSources(kind) :
          LET d == [id |-> NewId("datum"), kind |-> kind, source |-> source]
          IN  CommitDatum(Allocating(With("datums", d), "datum"), d.id)
    BY <1>1 DEF CreateDatum
  <2>2. PICK source \in DatumSources(kind) :
          LET d == [id |-> NewId("datum"), kind |-> kind, source |-> source]
          IN  CommitDatum(Allocating(With("datums", d), "datum"), d.id)
    BY <2>1
  <2> DEFINE d == [id |-> NewId("datum"), kind |-> kind, source |-> source]
  <2>3. /\ d = [id |-> d.id, kind |-> d.kind, source |-> d.source]
        /\ d.id = NewId("datum") /\ d.kind = kind /\ d.source = source
    OBVIOUS
  <2>4. CommitDatum(Allocating(With("datums", d), "datum"), d.id)
    BY <2>2
  <2>5. Changed("datums", part.datums \cup {d}) /\ cursor' = cursor
    BY <2>4 DEF CommitDatum, Commit, With, Changed, Counted
  <2>6. Valid(part') /\ Placed(part', OnDatum(d.id), UpToDate(part'))
    BY <2>4 DEF CommitDatum, Commit
  <2> HIDE DEF d
  <2>7. part'.datums = part.datums \cup {d}
    BY <2>5, ChangedFields
  <2>8. MadeDatum(part', d)
    <3>1. InSequence(part')
      BY <2>5, <2>6, ChangedInSequence
    <3> QED
      BY <2>2, <2>3, <2>6, <2>7, <3>1, DatumMade
  <2>9. NewOrThere("datum", d.id)
    BY <2>3, NewIdIsNew DEF Counted
  <2>10. DatumsKept
    BY <2>7, <2>8, <2>9 DEF DatumsKept
  <2> QED
    BY <2>5, <2>10, ChangedKept DEF CursorStep
<1>2. CASE EditDatum
  <2>1. PICK old \in part.datums : \E source \in DatumSources(old.kind) :
          CommitDatum(Replaced("datums", old, [old EXCEPT !.source = source]), old.id)
    BY <1>2 DEF EditDatum
  <2>2. PICK source \in DatumSources(old.kind) :
          CommitDatum(Replaced("datums", old, [old EXCEPT !.source = source]), old.id)
    BY <2>1
  <2> DEFINE d == [old EXCEPT !.source = source]
  <2>3. /\ old = [id |-> old.id, kind |-> old.kind, source |-> old.source]
        /\ old.kind \in {"offset", "edge", "points"}
    BY DEF PartInv, Made, MadeDatum
  <2>4. /\ d = [id |-> d.id, kind |-> d.kind, source |-> d.source]
        /\ d.id = old.id /\ d.kind = old.kind /\ d.source = source
    BY <2>3
  <2>5. CommitDatum(Replaced("datums", old, d), d.id)
    BY <2>2, <2>4
  <2>6. Changed("datums", (part.datums \ {old}) \cup {d}) /\ cursor' = cursor
    BY <2>5 DEF CommitDatum, Commit, Replaced, Changed
  <2>7. Valid(part') /\ Placed(part', OnDatum(d.id), UpToDate(part'))
    BY <2>5 DEF CommitDatum, Commit
  <2> HIDE DEF d
  <2>8. part'.datums = (part.datums \ {old}) \cup {d}
    BY <2>6, ChangedFields
  <2>9. MadeDatum(part', d)
    <3>1. InSequence(part')
      BY <2>6, <2>7, ChangedInSequence
    <3> QED
      BY <2>2, <2>3, <2>4, <2>7, <2>8, <3>1, DatumMade
  <2>10. NewOrThere("datum", d.id)
    BY <2>4 DEF NewOrThere, Used, IdsOf
  <2>11. DatumsKept
    BY <2>8, <2>9, <2>10 DEF DatumsKept
  <2> QED
    BY <2>6, <2>11, ChangedKept DEF CursorStep
<1>3. CASE DeleteDatum
  <2>1. PICK d \in part.datums : Commit(Without("datums", d)) /\ UNCHANGED cursor
    BY <1>3 DEF DeleteDatum
  <2>2. Changed("datums", part.datums \ {d}) /\ cursor' = cursor
    BY <2>1 DEF Commit, Without, Changed
  <2>3. DatumsKept
    BY <2>2, ChangedFields DEF DatumsKept
  <2> QED
    BY <2>2, <2>3, ChangedKept DEF CursorStep
<1> QED
  BY <1>1, <1>2, <1>3

-----------------------------------------------------------------------------
(* Features *)

\* A feature as commands write it.
FeatureWritten(f) ==
    /\ f = [id |-> f.id, suppressed |-> f.suppressed, kind |-> f.kind,
            profile |-> f.profile, axis |-> f.axis, edges |-> f.edges]
    /\ CASE f.kind = "edges" -> /\ f.profile = NoId /\ f.axis = NoId
                                /\ f.edges = OnBody("edge", f.edges.stage, f.edges.producer)
         [] OTHER -> /\ f.kind \in {"extrude", "revolve"}
                     /\ f.profile # NoId /\ f.edges = Origin
                     /\ f.kind = "extrude" => f.axis = NoId

\* In a valid Part its edges, too, were given out.
LEMMA FeatureMade ==
    ASSUME NEW p, Valid(p), NEW i \in DOMAIN p.features, FeatureWritten(p.features[i])
    PROVE  MadeFeature(p, p.features[i])
<1>1. p.features[i].kind = "edges" => Provenance(p, p.features[i].edges)
  BY DEF Valid, FeaturesValid, EdgesValid
<1> QED
  BY <1>1 DEF FeatureWritten, MadeFeature, GivenOnBody

LEMMA DefinitionWritten ==
    ASSUME PartInv, NEW d \in Definitions, NEW id, NEW suppressed
    PROVE  FeatureWritten(Feature(id, suppressed, d))
<1>1. \A p \in IdsOf(part.profiles) : p # NoId
  <2>1. \A q \in part.profiles : Allocated(part, "profile", q.id)
    BY DEF PartInv, Sound, Valid, ProfilesValid
  <2> QED
    BY <2>1, PartAssumption DEF IdsOf, Allocated
<1>2. CASE \E p \in IdsOf(part.profiles) : d = Extrude(p)
  BY <1>1, <1>2 DEF Extrude, Feature, FeatureWritten
<1>3. CASE \E p \in IdsOf(part.profiles) : \E a : d = Revolve(p, a)
  BY <1>1, <1>3 DEF Revolve, Feature, FeatureWritten
<1>4. CASE \E r \in References("edge") : d = EdgeFeature(r)
  <2>1. PICK r \in References("edge") : d = EdgeFeature(r)
    BY <1>4
  <2>2. r = OnBody("edge", r.stage, r.producer)
    BY DEF References, OnBody
  <2> QED
    BY <2>1, <2>2 DEF EdgeFeature, Feature, FeatureWritten
<1> QED
  BY <1>2, <1>3, <1>4 DEF Definitions

LEMMA ThereFeature ==
    ASSUME PartInv, NEW i \in DOMAIN part.features PROVE FeatureWritten(part.features[i])
BY DEF PartInv, Made, MadeFeature, FeatureWritten, GivenOnBody

LEMMA Concatenated ==
    ASSUME NEW T, NEW s \in Seq(T), NEW t \in Seq(T)
    PROVE  /\ Len(s \o t) = Len(s) + Len(t)
           /\ DOMAIN (s \o t) = 1 .. (Len(s) + Len(t))
           /\ \A j \in 1 .. (Len(s) + Len(t)) :
                  (s \o t)[j] = IF j <= Len(s) THEN s[j] ELSE t[j - Len(s)]
OBVIOUS

LEMMA RemovedAt ==
    ASSUME NEW T, NEW h \in Seq(T), NEW i \in DOMAIN h
    PROVE  /\ DOMAIN RemoveAt(h, i) = 1 .. (Len(h) - 1)
           /\ \A j \in DOMAIN RemoveAt(h, i) :
                  RemoveAt(h, i)[j] = IF j < i THEN h[j] ELSE h[j + 1]
<1>1. Len(h) \in Nat /\ DOMAIN h = 1 .. Len(h) /\ i \in 1 .. Len(h)
  OBVIOUS
<1> DEFINE before == SubSeq(h, 1, i - 1)
           after == SubSeq(h, i + 1, Len(h))
<1>2. /\ before \in Seq(T) /\ Len(before) = i - 1
      /\ \A j \in 1 .. (i - 1) : before[j] = h[j]
  BY <1>1
<1>3. /\ after \in Seq(T) /\ Len(after) = Len(h) - i
      /\ \A j \in 1 .. (Len(h) - i) : after[j] = h[i + j]
  BY <1>1
<1>4. RemoveAt(h, i) = before \o after
  BY DEF RemoveAt
<1> HIDE DEF before, after
<1>5. Len(before) + Len(after) = Len(h) - 1
  BY <1>1, <1>2, <1>3
<1>8. \A j \in 1 .. (Len(before) + Len(after)) :
          (before \o after)[j] = IF j <= Len(before) THEN before[j] ELSE after[j - Len(before)]
  BY <1>2, <1>3, Concatenated, Zenon
<1>6. ASSUME NEW j \in 1 .. (Len(h) - 1)
      PROVE  (before \o after)[j] = IF j < i THEN h[j] ELSE h[j + 1]
  <2>4. j \in 1 .. (Len(before) + Len(after)) /\ Len(before) = i - 1
    BY <1>2, <1>5
  <2>1. (before \o after)[j] = IF j <= i - 1 THEN before[j] ELSE after[j - (i - 1)]
    BY <1>8, <2>4
  <2>2. CASE j < i
    BY <1>1, <1>2, <2>1, <2>2
  <2>3. CASE ~(j < i)
    <3>1. j - (i - 1) \in 1 .. (Len(h) - i) /\ i + (j - (i - 1)) = j + 1
      BY <1>1, <2>3
    <3>2. ~(j <= i - 1)
      BY <1>1, <2>3
    <3>3. (before \o after)[j] = after[j - (i - 1)]
      BY <2>1, <3>2
    <3>4. \A k \in 1 .. (Len(h) - i) : after[k] = h[i + k]
      BY <1>3
    <3>5. after[j - (i - 1)] = h[i + (j - (i - 1))]
      BY <3>1, <3>4
    <3> QED
      BY <2>3, <3>1, <3>3, <3>5
  <2> QED
    BY <2>2, <2>3
<1>7. DOMAIN (before \o after) = 1 .. (Len(h) - 1)
  BY <1>2, <1>3, <1>5, Concatenated
<1> QED
  BY <1>4, <1>6, <1>7

LEMMA FeatureStepKept ==
    ASSUME PartInv, CreateFeature \/ EditFeature \/ SetFeatureSuppressed \/ DeleteFeature
    PROVE  Kept
<1> DEFINE history == part.features
           T == Range(history)
<1>1. history \in Seq(T) /\ DOMAIN history = 1 .. Len(history) /\ Len(history) \in Nat
  BY DEF PartInv, Sound, Shaped
<1>2. /\ \A i, j \in DOMAIN history : i < j => history[i].id < history[j].id
      /\ \A i \in DOMAIN history : history[i].id \in 1 .. (part.next["feature"] - 1)
      /\ part.next["feature"] \in Nat
  BY DEF PartInv, Made, Sound, Valid, FeaturesValid, Allocated, Counted
<1>3. ASSUME NEW h, Changed("features", h), cursor' = cursor, Valid(part'),
             \A i \in DOMAIN h :
                 \/ \E j \in DOMAIN history : h[i] = history[j]
                 \/ FeatureWritten(h[i]) /\ NewOrThere("feature", h[i].id),
             \A i, j \in DOMAIN h : i < j => h[i].id < h[j].id
      PROVE  Kept
  <2>1. part'.features = h
    BY <1>3, ChangedFields
  <2>2. FeaturesKept
    BY <1>3, <2>1, FeatureMade DEF FeaturesKept
  <2>3. InOrder(part')
    BY <1>3, <2>1 DEF InOrder
  <2> QED
    BY <1>3, <2>2, <2>3, ChangedKept DEF CursorStep
<1>4. CASE CreateFeature
  <2>1. PICK d \in Definitions : LET f == Feature(NewId("feature"), FALSE, d) IN
            /\ Commit(Allocating([part EXCEPT !.features = Append(@, f)], "feature"))
            /\ UNCHANGED cursor
    BY <1>4 DEF CreateFeature, CommitFeature
  <2> DEFINE f == Feature(NewId("feature"), FALSE, d)
             h == Append(history, f)
  <2>2. FeatureWritten(f) /\ f.id = NewId("feature")
    BY DefinitionWritten DEF Feature
  <2>3. Changed("features", h) /\ cursor' = cursor /\ Valid(part')
    BY <2>1 DEF Commit, Changed, Counted
  <2> HIDE DEF f
  <2>4. NewOrThere("feature", f.id)
    BY <2>2, NewIdIsNew DEF Counted
  <2>5. /\ DOMAIN h = 1 .. (Len(history) + 1)
        /\ h[Len(history) + 1] = f
        /\ \A i \in DOMAIN history : h[i] = history[i]
    BY <1>1
  <2> HIDE DEF h, history
  <2>6. \A i \in DOMAIN h : i \in DOMAIN history \/ i = Len(history) + 1
    BY <1>1, <2>5
  <2>7. \A i \in DOMAIN h : \/ \E j \in DOMAIN history : h[i] = history[j]
                            \/ FeatureWritten(h[i]) /\ NewOrThere("feature", h[i].id)
    BY <2>2, <2>4, <2>5, <2>6
  <2>8. ASSUME NEW i \in DOMAIN h, NEW j \in DOMAIN h, i < j PROVE h[i].id < h[j].id
    <3>1. CASE j \in DOMAIN history
      <4>1. i \in DOMAIN history
        BY <1>1, <2>6, <2>8, <3>1
      <4> QED
        BY <1>2, <2>5, <2>8, <3>1, <4>1
    <3>2. CASE j = Len(history) + 1
      <4>1. i \in DOMAIN history
        BY <1>1, <2>6, <2>8, <3>2
      <4> QED
        BY <1>2, <2>2, <2>5, <3>2, <4>1 DEF NewId
    <3> QED
      BY <2>6, <3>1, <3>2
  <2> QED
    BY <1>3, <2>3, <2>7, <2>8
<1>5. ASSUME NEW i \in DOMAIN history, NEW f, FeatureWritten(f), f.id = history[i].id,
             Commit([part EXCEPT !.features = [@ EXCEPT ![i] = f]]), UNCHANGED cursor
      PROVE  Kept
  <2> DEFINE h == [history EXCEPT ![i] = f]
  <2>1. Changed("features", h) /\ cursor' = cursor /\ Valid(part')
    BY <1>5 DEF Commit, Changed
  <2>2. NewOrThere("feature", f.id)
    BY <1>5 DEF NewOrThere, Used
  <2>3. /\ DOMAIN h = DOMAIN history
        /\ \A j \in DOMAIN h : h[j] = f \/ h[j] = history[j]
        /\ \A j \in DOMAIN h : h[j].id = history[j].id
    BY <1>1, <1>5
  <2> HIDE DEF h
  <2>4. \A j \in DOMAIN h : \/ \E k \in DOMAIN history : h[j] = history[k]
                            \/ FeatureWritten(h[j]) /\ NewOrThere("feature", h[j].id)
    BY <1>5, <2>2, <2>3
  <2> QED
    BY <1>2, <1>3, <2>1, <2>3, <2>4
<1>6. CASE EditFeature
  <2>1. PICK i \in DOMAIN history : \E d \in Definitions :
            /\ Commit([part EXCEPT !.features[i] = Feature(part.features[i].id, FALSE, d)])
            /\ UNCHANGED cursor
    BY <1>6 DEF EditFeature, CommitFeature
  <2>2. PICK d \in Definitions :
            /\ Commit([part EXCEPT !.features[i] = Feature(part.features[i].id, FALSE, d)])
            /\ UNCHANGED cursor
    BY <2>1
  <2> DEFINE f == Feature(history[i].id, FALSE, d)
  <2>3. FeatureWritten(f) /\ f.id = history[i].id
    BY DefinitionWritten DEF Feature
  <2>4. Commit([part EXCEPT !.features = [@ EXCEPT ![i] = f]]) /\ UNCHANGED cursor
    BY <2>2
  <2> HIDE DEF f
  <2> QED
    BY <1>5, <2>3, <2>4
<1>7. CASE SetFeatureSuppressed
  <2>1. PICK i \in DOMAIN history : \E suppressed :
            /\ Commit([part EXCEPT !.features[i].suppressed = suppressed])
            /\ UNCHANGED cursor
    BY <1>7 DEF SetFeatureSuppressed
  <2>2. PICK suppressed :
            /\ Commit([part EXCEPT !.features[i].suppressed = suppressed])
            /\ UNCHANGED cursor
    BY <2>1
  <2> DEFINE f == [history[i] EXCEPT !.suppressed = suppressed]
  <2>3. FeatureWritten(history[i])
    BY ThereFeature
  <2>4. FeatureWritten(f) /\ f.id = history[i].id
    BY <2>3 DEF FeatureWritten
  <2>5. Commit([part EXCEPT !.features = [@ EXCEPT ![i] = f]]) /\ UNCHANGED cursor
    BY <2>2
  <2> HIDE DEF f
  <2> QED
    BY <1>5, <2>4, <2>5
<1>8. CASE DeleteFeature
  <2>1. PICK i \in DOMAIN history :
            Commit([part EXCEPT !.features = RemoveAt(@, i)]) /\ UNCHANGED cursor
    BY <1>8 DEF DeleteFeature
  <2> DEFINE h == RemoveAt(history, i)
  <2>2. Changed("features", h) /\ cursor' = cursor /\ Valid(part')
    BY <2>1 DEF Commit, Changed
  <2>3. /\ DOMAIN h = 1 .. (Len(history) - 1)
        /\ \A j \in DOMAIN h : h[j] = IF j < i THEN history[j] ELSE history[j + 1]
    BY <1>1, RemovedAt
  <2> HIDE DEF h
  <2> DEFINE Old(j) == IF j < i THEN j ELSE j + 1
  <2>6. \A j \in DOMAIN h : Old(j) \in DOMAIN history /\ h[j] = history[Old(j)]
    BY <1>1, <2>3
  <2>7. \A j, k \in DOMAIN h : j < k => Old(j) < Old(k)
    BY <1>1, <2>3
  <2> HIDE DEF Old, history
  <2>4. \A j \in DOMAIN h : \E k \in DOMAIN history : h[j] = history[k]
    BY <2>6
  <2>5. \A j, k \in DOMAIN h : j < k => h[j].id < h[k].id
    BY <1>2, <2>6, <2>7
  <2> QED
    BY <1>3, <2>2, <2>4, <2>5
<1> QED
  BY <1>4, <1>6, <1>7, <1>8

LEMMA CommandKept ==
    ASSUME PartInv, Next PROVE Kept
BY SketchStepKept, AddLineWithAxisKept, ProfileStepKept, AxisStepKept, DatumStepKept,
   FeatureStepKept DEF Next

LEMMA CommandCounts ==
    ASSUME Next PROVE MoreEdits /\ edits' = edits + 1
<1>1. CASE CreateSketch \/ SetSupport \/ AddLine \/ AddLineWithAxis
  BY <1>1 DEF CreateSketch, SetSupport, AddLine, AddLineWithAxis, Commit
<1>2. CASE ProjectEdge \/ BreakLink \/ EraseEntities
  BY <1>2 DEF ProjectEdge, BreakLink, EraseEntities, Commit
<1>3. CASE CreateProfile \/ EditProfile \/ DeleteProfile
  BY <1>3 DEF CreateProfile, EditProfile, DeleteProfile, Commit
<1>4. CASE CreateAxis \/ EditAxis \/ DeleteAxis
  BY <1>4 DEF CreateAxis, EditAxis, DeleteAxis, Commit
<1>5. CASE CreateDatum \/ EditDatum \/ DeleteDatum
  BY <1>5 DEF CreateDatum, EditDatum, DeleteDatum, CommitDatum, Commit
<1>6. CASE CreateFeature \/ EditFeature \/ SetFeatureSuppressed \/ DeleteFeature
  BY <1>6 DEF CreateFeature, EditFeature, SetFeatureSuppressed, DeleteFeature,
              CommitFeature, Commit
<1> QED
  BY <1>1, <1>2, <1>3, <1>4, <1>5, <1>6 DEF Next

LEMMA PartInvStep ==
    ASSUME PartInv, [Next]_vars PROVE PartInv'
<1>1. CASE UNCHANGED vars
  BY <1>1 DEF vars, PartInv, Sound
<1>2. CASE Next
  <2>1. Sound'
    BY <1>2, StepSound DEF PartInv
  <2>2. Made(part', cursor')
    BY <1>2, CommandKept, KeptMade
  <2>3. edits' \in 0 .. MaxEdits
    BY <1>2, CommandCounts, StartsAssumption DEF PartInv, MoreEdits
  <2> QED
    BY <2>1, <2>2, <2>3 DEF PartInv
<1> QED
  BY <1>1, <1>2

\* Besides being valid, the Part refers to nothing that was never given out:
\* this is what a validity that lets references dangle leaves to the commands.
THEOREM PartInvAlways == Spec => []PartInv
<1>1. Init => PartInv
  BY StartsAssumption DEF Init, PartInv, Sound
<1> QED
  BY <1>1, PartInvStep, PTL DEF Spec

\* Whatever a deleted object was, and in whichever order objects are deleted,
\* edited and created, nothing new takes the place of one that is still
\* referred to.
THEOREM NothingLostReturns == Spec => LostStaysLost
<1>1. ASSUME PartInv, [Next]_vars PROVE [Lost \cap There' = {}]_vars
  BY <1>1, CommandKept, KeptLost
<1> QED
  BY <1>1, PartInvAlways, PTL DEF Spec, LostStaysLost

-----------------------------------------------------------------------------
(* The checks commands make of their own *)

LEMMA PartTypeOK ==
    ASSUME PartInv PROVE TypeOK
<1>1. \A kind \in Counted : Used(kind) \subseteq 1 .. (part.next[kind] - 1)
  <2>1. \A d \in part.datums : Allocated(part, "datum", d.id)
    BY DEF PartInv, Sound, Valid, DatumsValid
  <2>2. \A a \in part.axes : Allocated(part, "axis", a.id)
    BY DEF PartInv, Sound, Valid, AxesValid
  <2>3. \A q \in part.profiles : Allocated(part, "profile", q.id)
    BY DEF PartInv, Sound, Valid, ProfilesValid
  <2>4. \A i \in DOMAIN part.features : Allocated(part, "feature", part.features[i].id)
    BY DEF PartInv, Sound, Valid, FeaturesValid
  <2> QED
    BY <2>1, <2>2, <2>3, <2>4 DEF Used, IdsOf, Allocated, Counted
<1>2. ASSUME NEW s \in part.sketches
      PROVE  /\ s.id \in SketchIds
             /\ s.entities \subseteq 1 .. (cursor[s.id] - 1)
             /\ {l.entity : l \in s.links} \subseteq s.entities
  <2>1. GivenEntities(cursor, s.id, s.entities)
    BY DEF PartInv, Made, MadeSketch
  <2>2. \A l \in s.links : l.entity \in s.entities
    BY DEF PartInv, Sound, Valid, SketchesValid, LinksValid
  <2> QED
    BY <2>1, <2>2 DEF GivenEntities
<1> QED
  BY <1>1, <1>2 DEF TypeOK, PartInv, Sound

\* Without some datum planes a chain of them is not longer.
LEMMA ChainShrinks ==
    ASSUME NEW datums, NEW fewer \in SUBSET datums, NEW id
    PROVE  DatumChain(fewer, id) \subseteq DatumChain(datums, id)
<1> DEFINE Closed(all, set) ==
               \A d \in all :
                   \/ d.id = id
                   \/ \E c \in set : c.source.kind = "datum" /\ c.source.id = d.id
                   => d \in set
<1>1. ASSUME NEW x \in DatumChain(fewer, id), NEW set \in SUBSET datums, Closed(datums, set)
      PROVE  x \in set
  <2>1. Closed(fewer, set \cap fewer)
    BY <1>1
  <2>2. x \in set \cap fewer
    BY <2>1 DEF DatumChain
  <2> QED
    BY <2>2
<1>2. \A x \in DatumChain(fewer, id) : x \in datums
  BY DEF DatumChain
<1> QED
  BY <1>1, <1>2 DEF DatumChain

LEMMA StagesShrink ==
    ASSUME NEW datums, NEW fewer \in SUBSET datums, NEW support
    PROVE  StagesOf(fewer, support) \subseteq StagesOf(datums, support)
<1>1. CASE support.kind = "surface"
  BY <1>1 DEF StagesOf
<1>2. CASE support.kind = "datum"
  BY <1>2, ChainShrinks DEF StagesOf
<1>3. CASE support.kind \notin {"surface", "datum"}
  BY <1>3 DEF StagesOf
<1> QED
  BY <1>1, <1>2, <1>3

\* Without a datum plane that nothing is on, a valid Part stays valid.
LEMMA UnusedDatumGoes ==
    ASSUME PartInv, NEW d \in part.datums, ~DatumInUse(d)
    PROVE  Valid(Without("datums", d))
<1> DEFINE q == Without("datums", d)
<1>1. /\ q.datums = part.datums \ {d} /\ q.sketches = part.sketches
      /\ q.axes = part.axes /\ q.profiles = part.profiles
      /\ q.features = part.features /\ q.next = part.next
  BY DEF Without, PartInv, Sound, Shaped
<1> HIDE DEF q
<1>2. Valid(part)
  BY DEF PartInv, Sound
<1>3. \A kind, id : Allocated(q, kind, id) = Allocated(part, kind, id)
  BY <1>1 DEF Allocated
<1>4. \A f : Present(q, f) = Present(part, f) /\ Positions(q, f) = Positions(part, f)
  BY <1>1 DEF Present, Positions
<1>5. \A f, i : Before(q, f, i) = Before(part, f, i)
  BY <1>4 DEF Before
<1>6. \A ref : Provenance(part, ref) => Provenance(q, ref)
  BY <1>3 DEF Provenance
<1>7. \A ref : SurfaceValid(part, ref) => SurfaceValid(q, ref)
  BY <1>4, <1>6 DEF SurfaceValid
<1>8. UniqueIds(part.datums)
  BY <1>2 DEF Valid, DatumsValid
<1>9. DatumsValid(q)
  <2>1. OffsetDatums(q) = OffsetDatums(part) \ {d}
    BY <1>1 DEF OffsetDatums
  <2>2. ASSUME NEW c \in OffsetDatums(q), c.source.kind = "datum"
        PROVE  c.source.id \in IdsOf(OffsetDatums(q))
    <3>1. PICK e \in OffsetDatums(part) : c.source.id = e.id
      BY <1>2, <2>1, <2>2 DEF Valid, DatumsValid, OffsetDatumsValid, IdsOf
    <3>2. c \in OffsetDatums(part) /\ c \in part.datums /\ c # d
      BY <2>1 DEF OffsetDatums
    <3>3. c.id # d.id
      BY <1>8, <3>2 DEF UniqueIds
    <3>4. e # d
      BY <2>2, <3>1, <3>2, <3>3 DEF DatumInUse
    <3> QED
      BY <2>1, <3>1, <3>4 DEF IdsOf
  <2>3. OffsetDatumsValid(q)
    BY <1>2, <1>7, <2>1, <2>2 DEF Valid, DatumsValid, OffsetDatumsValid
  <2>4. PointDatumsValid(q)
    BY <1>1, <1>2, <1>6 DEF Valid, DatumsValid, PointDatumsValid
  <2>5. DatumsAcyclic(q)
    BY <1>2, <2>1 DEF Valid, DatumsValid, DatumsAcyclic
  <2>6. UniqueIds(q.datums)
    BY <1>1, <1>8 DEF UniqueIds
  <2>7. \A c \in q.datums : Allocated(q, "datum", c.id)
    BY <1>1, <1>2, <1>3 DEF Valid, DatumsValid
  <2> QED
    BY <2>3, <2>4, <2>5, <2>6, <2>7 DEF DatumsValid
<1>10. SketchesValid(q)
  <2>1. LinksValid(q)
    BY <1>1, <1>2, <1>6 DEF Valid, SketchesValid, LinksValid
  <2>2. ASSUME NEW s \in part.sketches, s.support.kind = "datum"
        PROVE  s.support.id \in IdsOf(q.datums)
    <3>1. s.support.id \in IdsOf(part.datums)
      BY <1>2, <2>2 DEF Valid, SketchesValid
    <3>2. PICK e \in part.datums : s.support.id = e.id
      BY <3>1 DEF IdsOf
    <3>3. e # d
      BY <2>2, <3>2 DEF DatumInUse
    <3> QED
      BY <1>1, <3>2, <3>3 DEF IdsOf
  <2> QED
    BY <1>1, <1>2, <1>7, <2>1, <2>2 DEF Valid, SketchesValid
<1>11. LinkedProfilesOrdered(q)
  BY <1>1, <1>2, <1>5 DEF Valid, LinkedProfilesOrdered
<1>12. AxesValid(q)
  BY <1>1, <1>2, <1>3, <1>4, <1>7 DEF Valid, AxesValid
<1>13. ProfilesValid(q)
  BY <1>1, <1>2, <1>3 DEF Valid, ProfilesValid
<1>14. FeaturesValid(q)
  <2>1. \A i : EdgesValid(part, i) => EdgesValid(q, i)
    BY <1>1, <1>4, <1>5, <1>6 DEF EdgesValid
  <2> QED
    BY <1>1, <1>2, <1>3, <2>1 DEF Valid, FeaturesValid
<1>15. SupportsOrdered(q)
  <2>1. \A k : /\ ConsumersByProfile(q, k) = ConsumersByProfile(part, k)
               /\ ConsumersByAxis(q, k) = ConsumersByAxis(part, k)
    BY <1>1 DEF ConsumersByProfile, ConsumersByAxis
  <2>2. \A s \in part.sketches : StagesOf(q.datums, s.support) \subseteq
                                     StagesOf(part.datums, s.support)
    BY <1>1, StagesShrink
  <2> QED
    BY <1>1, <1>2, <1>4, <1>5, <2>1, <2>2 DEF Valid, SupportsOrdered
<1>16. BodyAxesOrdered(q)
  BY <1>1, <1>2, <1>5 DEF Valid, BodyAxesOrdered
<1> QED
  BY <1>9, <1>10, <1>11, <1>12, <1>13, <1>14, <1>15, <1>16 DEF q, Valid

LEMMA UsedDatumStays ==
    ASSUME PartInv, NEW d \in part.datums, DatumInUse(d)
    PROVE  ~Valid(Without("datums", d))
<1> DEFINE q == Without("datums", d)
<1>1. q.datums = part.datums \ {d} /\ q.sketches = part.sketches
  BY DEF Without, PartInv, Sound, Shaped
<1>2. \A e \in part.datums : e.id = d.id => e = d
  BY DEF PartInv, Sound, Valid, DatumsValid, UniqueIds
<1>3. d.id \notin IdsOf(q.datums)
  BY <1>1, <1>2 DEF IdsOf
<1> HIDE DEF q
<1>4. CASE \E c \in OffsetDatums(part) :
              c.id # d.id /\ c.source.kind = "datum" /\ c.source.id = d.id
  <2>1. PICK c \in OffsetDatums(part) :
              c.id # d.id /\ c.source.kind = "datum" /\ c.source.id = d.id
    BY <1>4
  <2>2. c \in OffsetDatums(q)
    BY <1>1, <2>1 DEF OffsetDatums
  <2>3. d.id \notin IdsOf(OffsetDatums(q))
    BY <1>3 DEF IdsOf, OffsetDatums
  <2>4. ~OffsetDatumsValid(q)
    BY <2>1, <2>2, <2>3 DEF OffsetDatumsValid
  <2> QED
    BY <2>4 DEF q, Valid, DatumsValid
<1>5. CASE \E s \in part.sketches : s.support.kind = "datum" /\ s.support.id = d.id
  <2>1. ~SketchesValid(q)
    BY <1>1, <1>3, <1>5 DEF SketchesValid
  <2> QED
    BY <2>1 DEF q, Valid
<1> QED
  BY <1>4, <1>5 DEF DatumInUse

\* The stage a support needs in the eyes of supportWouldCreateCycle is one of
\* those validAuthoredState asks for.
LEMMA StageCounted ==
    ASSUME NEW support, NEW f \in SupportStage(support)
    PROVE  f \in StagesOf(part.datums, support)
<1>1. CASE support.kind = "surface"
  BY <1>1 DEF SupportStage, StagesOf
<1>2. CASE support.kind = "datum"
  BY <1>2 DEF SupportStage, StagesOf
<1>3. CASE support.kind \notin {"surface", "datum"}
  BY <1>3 DEF SupportStage
<1> QED
  BY <1>1, <1>2, <1>3

LEMMA CycleRefused ==
    ASSUME PartInv, NEW s \in part.sketches, NEW support, WouldCreateCycle(s.id, support)
    PROVE  ~Valid(Resupported(s, support))
<1> DEFINE q == Resupported(s, support)
           t == [s EXCEPT !.support = support]
<1>1. q.sketches = (part.sketches \ {s}) \cup {t}
  BY DEF Resupported, Replaced, PartInv, Sound, Shaped
<1>2. /\ q.datums = part.datums /\ q.axes = part.axes
      /\ q.profiles = part.profiles /\ q.features = part.features
  BY DEF Resupported, Replaced, PartInv, Sound, Shaped
<1>3. t.id = s.id /\ t.support = support
  BY ThereSketch
<1> HIDE DEF q, t
<1>4. PICK f \in SupportStage(support) :
            ~Present(part, f) \/ \E i \in ConsumersByProfile(part, s.id) : ~Before(part, f, i)
  BY DEF WouldCreateCycle
<1>5. f \in StagesOf(q.datums, t.support)
  BY <1>2, <1>3, StageCounted
<1>6. Present(q, f) = Present(part, f) /\ \A i : Before(q, f, i) = Before(part, f, i)
  BY <1>2 DEF Present, Before, Positions
<1>7. ConsumersByProfile(q, t.id) = ConsumersByProfile(part, s.id)
  BY <1>2, <1>3 DEF ConsumersByProfile
<1>8. ~SupportsOrdered(q)
  BY <1>1, <1>4, <1>5, <1>6, <1>7 DEF SupportsOrdered
<1> QED
  BY <1>8 DEF q, Valid

\* The checks that commands make before they commit refuse nothing that
\* validAuthoredState would take, and DeleteDatumPlane's check is exactly what
\* validAuthoredState asks of what is left.
THEOREM ChecksAlwaysAgree == Spec => []ChecksAgree
<1>1. PartInv => ChecksAgree
  BY PartTypeOK, UnusedDatumGoes, UsedDatumStays, CycleRefused DEF ChecksAgree
<1> QED
  BY <1>1, PartInvAlways, PTL

-----------------------------------------------------------------------------
(* The links of a sketch in the order of their entities *)

\* A finite set whose elements have different keys has a sequence that is
\* sorted by them: the place of an element is the number of those up to it.
LEMMA SortedThere ==
    ASSUME NEW S, IsFiniteSet(S), NEW key \in [S -> Nat],
           \A x, y \in S : key[x] = key[y] => x = y
    PROVE  \E b \in [1 .. Cardinality(S) -> S] :
               \A i, j \in 1 .. Cardinality(S) : i < j => key[b[i]] < key[b[j]]
<1> DEFINE n == Cardinality(S)
           UpTo(x) == {y \in S : key[y] <= key[x]}
           rank == [x \in S |-> Cardinality(UpTo(x))]
<1>1. n \in Nat /\ IsFiniteSet(1 .. n) /\ Cardinality(1 .. n) = n
  BY FS_CardinalityType, FS_Interval
<1>2. ASSUME NEW x \in S PROVE IsFiniteSet(UpTo(x)) /\ rank[x] \in 1 .. n
  <2>1. UpTo(x) \in SUBSET S /\ UpTo(x) # {}
    OBVIOUS
  <2>2. IsFiniteSet(UpTo(x)) /\ Cardinality(UpTo(x)) <= n
    BY <2>1, FS_Subset
  <2>3. Cardinality(UpTo(x)) \in Nat /\ Cardinality(UpTo(x)) # 0
    BY <2>1, <2>2, FS_CardinalityType, FS_EmptySet
  <2> QED
    BY <1>1, <2>2, <2>3
<1>3. ASSUME NEW x \in S, NEW y \in S, key[x] < key[y] PROVE rank[x] < rank[y]
  <2>1. UpTo(x) \in SUBSET UpTo(y)
    BY <1>3
  <2>2. y \in UpTo(y) /\ y \notin UpTo(x)
    BY <1>3
  <2>3. Cardinality(UpTo(x)) <= Cardinality(UpTo(y)) /\ Cardinality(UpTo(x)) # Cardinality(UpTo(y))
    BY <1>2, <2>1, <2>2, FS_Subset
  <2> HIDE DEF UpTo
  <2> QED
    BY <1>2, <2>3
<1> HIDE DEF n, UpTo, rank
<1>4. \A x, y \in S : rank[x] = rank[y] => x = y
  BY <1>2, <1>3
<1>5. rank \in Injection(S, 1 .. n)
  <2>1. rank \in [S -> 1 .. n]
    BY <1>2 DEF rank
  <2>2. DOMAIN rank = S
    BY DEF rank
  <2> QED
    BY <1>4, <2>1, <2>2 DEF Injection, IsInjective
<1>6. rank \in Surjection(S, 1 .. n)
  BY <1>1, <1>5, FS_Injection DEF n
<1> DEFINE b == [i \in 1 .. n |-> CHOOSE x \in S : rank[x] = i]
<1>7. b \in [1 .. n -> S] /\ \A i \in 1 .. n : b[i] \in S /\ rank[b[i]] = i
  <2>1. \A i \in 1 .. n : \E x \in S : rank[x] = i
    BY <1>6 DEF Surjection
  <2> QED
    BY <2>1
<1> HIDE DEF b
<1>8. ASSUME NEW i \in 1 .. n, NEW j \in 1 .. n, i < j PROVE key[b[i]] < key[b[j]]
  <2>1. b[i] # b[j] /\ ~(rank[b[j]] < rank[b[i]])
    BY <1>1, <1>7, <1>8
  <2>2. key[b[i]] \in Nat /\ key[b[j]] \in Nat
    BY <1>7
  <2> QED
    BY <1>3, <1>7, <2>1, <2>2
<1> QED
  BY <1>7, <1>8 DEF n

\* And nothing of the set is missing in such a sequence.
LEMMA SortedWhole ==
    ASSUME NEW S, IsFiniteSet(S), NEW key \in [S -> Nat], NEW b \in [1 .. Cardinality(S) -> S],
           \A i, j \in 1 .. Cardinality(S) : i < j => key[b[i]] < key[b[j]]
    PROVE  Range(b) = S
<1> DEFINE n == Cardinality(S)
<1>1. n \in Nat /\ IsFiniteSet(1 .. n) /\ Cardinality(1 .. n) = n
  BY FS_CardinalityType, FS_Interval
<1>2. DOMAIN b = 1 .. n /\ \A i \in 1 .. n : b[i] \in S /\ key[b[i]] \in Nat
  OBVIOUS
<1>3. \A i, j \in 1 .. n : i < j => key[b[i]] < key[b[j]]
  OBVIOUS
<1> HIDE DEF n
<1>4. ASSUME NEW i \in 1 .. n, NEW j \in 1 .. n, b[i] = b[j] PROVE i = j
  BY <1>1, <1>2, <1>3, <1>4
<1>5. b \in Injection(1 .. n, S)
  BY <1>2, <1>4 DEF Injection, IsInjective, n
<1>6. b \in Surjection(1 .. n, S)
  BY <1>1, <1>5, FS_Injection DEF n
<1>7. \A x \in S : \E i \in 1 .. n : b[i] = x
  BY <1>6 DEF Surjection
<1> QED
  BY <1>2, <1>7 DEF Range

LinkJson(l) == [target_entity |-> l.entity, source |-> MaterialEdgeJson(l.source)]

\* The links of a sketch as validAuthoredState lets them be.
Linked(s) ==
    /\ \A l \in s.links : LinkWritten(l) /\ l.entity \in s.entities
    /\ \A l, m \in s.links : l.entity = m.entity => l = m

LEMMA BindingsListed ==
    ASSUME NEW s, NEW c \in Nat, s.entities \subseteq 1 .. c, Linked(s)
    PROVE  LET bindings == BindingsJson(s)
           IN  /\ \E n \in Nat : DOMAIN bindings = 1 .. n
               /\ Range(bindings) = {LinkJson(l) : l \in s.links}
               /\ \A i, j \in DOMAIN bindings :
                     i < j => bindings[i].target_entity < bindings[j].target_entity
<1> DEFINE B == {LinkJson(l) : l \in s.links}
           key == [b \in B |-> b.target_entity]
<1>1. \A l \in s.links : LinkJson(l).target_entity = l.entity /\ l.entity \in 1 .. c
  BY DEF LinkJson, Linked
<1>2. /\ key \in [B -> 1 .. c] /\ key \in [B -> Nat]
      /\ \A b \in B : key[b] = b.target_entity
  <2>1. \A b \in B : b.target_entity \in 1 .. c
    BY <1>1
  <2> HIDE DEF B
  <2> QED
    BY <2>1
<1>3. \A x, y \in B : key[x] = key[y] => x = y
  <2>1. ASSUME NEW l \in s.links, NEW m \in s.links, key[LinkJson(l)] = key[LinkJson(m)]
        PROVE  LinkJson(l) = LinkJson(m)
    <3>1. LinkJson(l) \in B /\ LinkJson(m) \in B
      OBVIOUS
    <3>2. l.entity = m.entity
      BY <1>1, <1>2, <2>1, <3>1
    <3> QED
      BY <3>2 DEF Linked
  <2> QED
    BY <2>1
<1> HIDE DEF key
<1>4. IsFiniteSet(B)
  <2>1. IsFiniteSet(1 .. c)
    <3>1. 1 \in Int /\ c \in Int
      OBVIOUS
    <3> QED
      BY <3>1, FS_Interval, Zenon
  <2> HIDE DEF B
  <2>2. key \in Injection(B, 1 .. c)
    <3>1. DOMAIN key = B
      BY <1>2
    <3> QED
      BY <1>2, <1>3, <3>1 DEF Injection, IsInjective
  <2> QED
    BY <2>1, <2>2, FS_Injection
<1> DEFINE Sorted(b) == \A i, j \in DOMAIN b : i < j => b[i].target_entity < b[j].target_entity
           n == Cardinality(B)
<1>5. \E b \in [1 .. n -> B] : Sorted(b)
  <2>1. PICK b \in [1 .. n -> B] : \A i, j \in 1 .. n : i < j => key[b[i]] < key[b[j]]
    BY <1>2, <1>3, <1>4, SortedThere
  <2> HIDE DEF B, n
  <2>3. DOMAIN b = 1 .. n /\ \A i \in 1 .. n : b[i] \in B /\ key[b[i]] = b[i].target_entity
    BY <1>2
  <2>2. Sorted(b)
    BY <2>1, <2>3
  <2> QED
    BY <2>2
<1>6. BindingsJson(s) = CHOOSE b \in [1 .. n -> B] : Sorted(b)
  BY DEF BindingsJson, LinkJson
<1> DEFINE bindings == BindingsJson(s)
<1> HIDE DEF B, Sorted, n
<1>7. bindings \in [1 .. n -> B] /\ Sorted(bindings)
  BY <1>5, <1>6
<1> HIDE DEF bindings
<1>8. DOMAIN bindings = 1 .. n
  BY <1>7
<1>9. \A i, j \in 1 .. n : i < j => key[bindings[i]] < key[bindings[j]]
  BY <1>2, <1>7, <1>8 DEF Sorted
<1>10. n \in Nat
  BY <1>4, FS_CardinalityType DEF n
<1>11. \E m \in Nat : DOMAIN bindings = 1 .. m
  BY <1>8, <1>10
<1>12. Range(bindings) = B
  BY <1>2, <1>4, <1>7, <1>9, SortedWhole DEF n
<1> QED
  BY <1>7, <1>11, <1>12 DEF bindings, B, Sorted

-----------------------------------------------------------------------------
(* What is written is what is read *)

LEMMA PlaneBack ==
    ASSUME NEW ref, PlaneWritten(ref) PROVE Plane(PlaneJson(ref)) = ref
<1>1. CASE ref.kind = "origin"
  BY <1>1 DEF PlaneWritten, PlaneJson, Plane
<1>2. CASE ref.kind = "datum"
  BY <1>2 DEF PlaneWritten, PlaneJson, Plane
<1>3. CASE ref.kind \notin {"origin", "datum"}
  BY <1>3 DEF PlaneWritten, PlaneJson, Plane, Surface, SurfaceJson, StageJson
<1> QED
  BY <1>1, <1>2, <1>3

LEMMA EdgeBack ==
    ASSUME NEW ref, ref = OnBody("edge", ref.stage, ref.producer)
    PROVE  Edge(MaterialEdgeJson(ref)) = ref
BY DEF Edge, MaterialEdgeJson, StageJson

LEMMA LinksBack ==
    ASSUME NEW s, \A l \in s.links : LinkWritten(l)
    PROVE  {[entity |-> b.target_entity, source |-> Edge(b.source)] :
                b \in {LinkJson(l) : l \in s.links}} = s.links
<1> DEFINE Back(b) == [entity |-> b.target_entity, source |-> Edge(b.source)]
<1>1. \A l \in s.links : Back(LinkJson(l)) = l
  <2> SUFFICES ASSUME NEW l \in s.links PROVE Back(LinkJson(l)) = l
    OBVIOUS
  <2>1. LinkJson(l).target_entity = l.entity /\ LinkJson(l).source = MaterialEdgeJson(l.source)
    BY DEF LinkJson
  <2>2. Edge(MaterialEdgeJson(l.source)) = l.source
    BY EdgeBack DEF LinkWritten
  <2>3. l = [entity |-> l.entity, source |-> l.source]
    BY DEF LinkWritten
  <2> QED
    BY <2>1, <2>2, <2>3
<1> HIDE DEF Back
<1>2. {Back(b) : b \in {LinkJson(l) : l \in s.links}} = s.links
  BY <1>1
<1> QED
  BY <1>2 DEF Back

\* The fields of a sketch in a file.
LEMMA SketchFieldsWritten ==
    ASSUME NEW v \in Schemas, NEW s, NEW c
    PROVE  LET json == SketchJson(v, s, c)
           IN  /\ DOMAIN json = SketchFields(v)
               /\ json.id = s.id /\ json.support = PlaneJson(s.support)
               /\ v < 9 => json.placement = json.support
               /\ v >= 3 <=> "model" \in DOMAIN json
               /\ v >= 3 => json.model = [next_entity_id |-> c, entities |-> s.entities]
               /\ v >= 15 <=> "projected_edges" \in DOMAIN json
               /\ v >= 15 => json.projected_edges = BindingsJson(s)
<1> DEFINE whole == [id |-> s.id, support |-> PlaneJson(s.support),
                     placement |-> PlaneJson(s.support),
                     model |-> [next_entity_id |-> c, entities |-> s.entities],
                     projected_edges |-> BindingsJson(s)]
           json == SketchJson(v, s, c)
<1>1. json = [f \in SketchFields(v) |-> whole[f]]
  BY DEF SketchJson, Restrict
<1>2. /\ whole.id = s.id /\ whole.support = PlaneJson(s.support)
      /\ whole.placement = PlaneJson(s.support)
      /\ whole.model = [next_entity_id |-> c, entities |-> s.entities]
      /\ whole.projected_edges = BindingsJson(s)
  OBVIOUS
<1> HIDE DEF whole, json
<1>3. /\ "id" \in SketchFields(v) /\ "support" \in SketchFields(v)
      /\ v < 9 => "placement" \in SketchFields(v)
      /\ v >= 3 <=> "model" \in SketchFields(v)
      /\ v >= 15 <=> "projected_edges" \in SketchFields(v)
  BY DEF SketchFields
<1>4. DOMAIN json = SketchFields(v) /\ \A f \in SketchFields(v) : json[f] = whole[f]
  BY <1>1
<1> QED
  BY <1>2, <1>3, <1>4 DEF json

\* A sketch that schema v has a place for is the same again.
LEMMA SketchBack ==
    ASSUME NEW v \in Schemas, NEW s, NEW c \in Nat, SketchWritten(s), Linked(s),
           s.entities \subseteq 1 .. c,
           s.entities # {} => v >= 3, s.links # {} => v >= 15
    PROVE  Sketched(SketchJson(v, s, c)) = s
<1> DEFINE json == SketchJson(v, s, c)
<1>1. /\ json.id = s.id /\ json.support = PlaneJson(s.support)
      /\ v >= 3 <=> "model" \in DOMAIN json
      /\ v >= 3 => json.model = [next_entity_id |-> c, entities |-> s.entities]
      /\ v >= 15 <=> "projected_edges" \in DOMAIN json
      /\ v >= 15 => json.projected_edges = BindingsJson(s)
  BY SketchFieldsWritten
<1> HIDE DEF json
<1>2. Plane(json.support) = s.support
  BY <1>1, PlaneBack DEF SketchWritten
<1>3. Links(json) = s.links
  <2>1. CASE v >= 15
    <3>1. Range(BindingsJson(s)) = {LinkJson(l) : l \in s.links}
      BY BindingsListed
    <3>2. Links(json) = {[entity |-> b.target_entity, source |-> Edge(b.source)] :
                            b \in {LinkJson(l) : l \in s.links}}
      BY <1>1, <2>1, <3>1 DEF Links
    <3> QED
      BY <3>2, LinksBack DEF SketchWritten
  <2>2. CASE ~(v >= 15)
    BY <1>1, <2>2 DEF Links
  <2> QED
    BY <2>1, <2>2
<1>4. (IF "model" \in DOMAIN json THEN json.model.entities ELSE {}) = s.entities
  BY <1>1
<1>5. s = [id |-> s.id, support |-> s.support, entities |-> s.entities, links |-> s.links]
  BY DEF SketchWritten
<1>6. Sketched(json) = [id |-> s.id, support |-> s.support, links |-> s.links,
                        entities |-> s.entities]
  BY <1>1, <1>2, <1>3, <1>4 DEF Sketched
<1> QED
  BY <1>5, <1>6 DEF json

LEMMA AxisBack ==
    ASSUME NEW p, NEW c, NEW a, MadeAxis(p, c, a) PROVE Axis(AxisJson(a)) = a
<1>1. a = [id |-> a.id, source |-> a.source]
  BY DEF MadeAxis
<1>2. CASE a.source.kind = "line"
  <2>1. a.source = OnLine(a.source.sketch, a.source.entity)
    BY <1>2 DEF MadeAxis
  <2>2. AxisJson(a) = [id |-> a.id, kind |-> "sketch_line",
                       source_sketch_id |-> a.source.sketch,
                       source_entity_id |-> a.source.entity]
    BY <1>2 DEF AxisJson
  <2> QED
    BY <1>1, <2>1, <2>2 DEF Axis
<1>3. CASE a.source.kind # "line"
  <2>1. /\ a.source.kind \in {"edge", "face"}
        /\ a.source = OnBody(a.source.kind, a.source.stage, a.source.producer)
    BY <1>3 DEF MadeAxis, GivenOnBody
  <2>2. CASE a.source.kind = "edge"
    <3>1. AxisJson(a) = [id |-> a.id, kind |-> "straight_body_edge",
                         source_edge |-> MaterialEdgeJson(a.source)]
      BY <2>2 DEF AxisJson
    <3>2. Edge(MaterialEdgeJson(a.source)) = a.source
      BY <2>1, <2>2, EdgeBack
    <3> QED
      BY <1>1, <3>1, <3>2 DEF Axis
  <2>3. CASE a.source.kind = "face"
    <3>1. AxisJson(a) = [id |-> a.id, kind |-> "cylindrical_body_face_strict",
                         source_surface |-> SurfaceJson(a.source)]
      BY <2>3 DEF AxisJson
    <3>2. Surface("face", SurfaceJson(a.source)) = a.source
      BY <2>1, <2>3 DEF Surface, SurfaceJson, StageJson
    <3> QED
      BY <1>1, <3>1, <3>2 DEF Axis
  <2> QED
    BY <2>1, <2>2, <2>3
<1> QED
  BY <1>2, <1>3

LEMMA ProfileBack ==
    ASSUME NEW c, NEW q, MadeProfile(c, q) PROVE Region(ProfileJson(q)) = q
<1>1. {u.source_entity : u \in {UseJson(e) : e \in q.uses}} = q.uses
  <2>1. \A e : UseJson(e).source_entity = e
    BY DEF UseJson
  <2> QED
    BY <2>1
<1>2. Region(ProfileJson(q)) = [id |-> q.id, sketch |-> q.sketch,
              uses |-> {u.source_entity : u \in {UseJson(e) : e \in q.uses}}]
  BY DEF Region, ProfileJson
<1> QED
  BY <1>1, <1>2 DEF MadeProfile

LEMMA FeatureBack ==
    ASSUME NEW f, FeatureWritten(f) PROVE Built(FeatureJson(f)) = f
<1>1. f = [id |-> f.id, suppressed |-> f.suppressed, kind |-> f.kind,
           profile |-> f.profile, axis |-> f.axis, edges |-> f.edges]
  BY DEF FeatureWritten
<1>2. CASE f.kind = "edges"
  <2>1. /\ f.profile = NoId /\ f.axis = NoId
        /\ f.edges = OnBody("edge", f.edges.stage, f.edges.producer)
    BY <1>2 DEF FeatureWritten
  <2>2. FeatureJson(f) = EdgeFeatureJson(f)
    BY <1>2 DEF FeatureJson
  <2>3. Edge(MaterialEdgeJson(f.edges)) = f.edges
    BY <2>1, EdgeBack
  <2> QED
    BY <1>1, <1>2, <2>1, <2>2, <2>3 DEF EdgeFeatureJson, Built
<1>3. CASE f.kind = "extrude"
  <2>1. f.axis = NoId /\ f.edges = Origin
    BY <1>3 DEF FeatureWritten
  <2>2. FeatureJson(f) = ExtrudeJson(f)
    BY <1>3 DEF FeatureJson
  <2> QED
    BY <1>1, <1>3, <2>1, <2>2 DEF ExtrudeJson, Built
<1>4. CASE f.kind = "revolve"
  <2>1. f.edges = Origin
    BY <1>4 DEF FeatureWritten
  <2>2. FeatureJson(f) = RevolveJson(f)
    BY <1>4 DEF FeatureJson
  <2>3. CASE f.axis = NoId
    BY <1>1, <1>4, <2>1, <2>2, <2>3 DEF RevolveJson, AxisReferenceJson, Built
  <2>4. CASE f.axis # NoId
    BY <1>1, <1>4, <2>1, <2>2, <2>4 DEF RevolveJson, AxisReferenceJson, Built
  <2> QED
    BY <2>3, <2>4
<1> QED
  BY <1>2, <1>3, <1>4 DEF FeatureWritten

LEMMA DatumBack ==
    ASSUME NEW p, NEW d, MadeDatum(p, d)
    PROVE  /\ d.kind = "offset" => OffsetPlane(OffsetJson(d)) = d
           /\ d.kind = "edge" => EdgePointPlane(EdgePointJson(d)) = d
           /\ d.kind = "points" => ThreePointPlane(ThreePointJson(d)) = d
           /\ d.kind \in {"offset", "edge", "points"}
<1>1. d = [id |-> d.id, kind |-> d.kind, source |-> d.source]
  BY DEF MadeDatum
<1>2. ASSUME d.kind = "offset" PROVE OffsetPlane(OffsetJson(d)) = d
  <2>1. PlaneWritten(d.source)
    BY <1>2 DEF MadeDatum, GivenPlane, GivenOnBody, PlaneWritten
  <2>2. Plane(PlaneJson(d.source)) = d.source
    BY <2>1, PlaneBack
  <2> QED
    BY <1>1, <1>2, <2>2 DEF OffsetPlane, OffsetJson
<1>3. ASSUME d.kind = "edge" PROVE EdgePointPlane(EdgePointJson(d)) = d
  <2>1. d.source = OnBody("edge", d.source.stage, d.source.producer)
    BY <1>3 DEF MadeDatum, GivenOnBody
  <2>2. Edge(MaterialEdgeJson(d.source)) = d.source
    BY <2>1, EdgeBack
  <2> QED
    BY <1>1, <1>3, <2>2 DEF EdgePointPlane, EdgePointJson
<1>4. ASSUME d.kind = "points" PROVE ThreePointPlane(ThreePointJson(d)) = d
  <2>1. d.source = OnBody("points", d.source.stage, d.source.producer)
    BY <1>4 DEF MadeDatum, GivenOnBody
  <2>2. Points(PointJson(d.source)) = d.source
    BY <2>1 DEF Points, PointJson, StageJson
  <2> QED
    BY <1>1, <1>4, <2>2 DEF ThreePointPlane, ThreePointJson
<1>5. d.kind \in {"offset", "edge", "points"}
  BY DEF MadeDatum
<1> QED
  BY <1>2, <1>3, <1>4, <1>5

-----------------------------------------------------------------------------
(* What is written is accepted *)

\* The cursor of the features is in the file.
CursorOf(v, next) == v >= 14 => next = part.next["feature"]

LEMMA BodyAccepted ==
    ASSUME NEW ref, Provenance(part, ref)
    PROVE  /\ AcceptsEdge(part.next["feature"], MaterialEdgeJson(ref))
           /\ AcceptsSurface(part.next["feature"], SurfaceJson(ref))
           /\ AcceptsPoint(part.next["feature"], PointJson(ref))
<1>1. /\ Known(part.next["feature"], ref.stage)
      /\ Known(part.next["feature"], ref.producer)
  BY DEF Provenance, Allocated, Known
<1>2. KnownStage(part.next["feature"], StageJson(ref.stage))
  BY <1>1 DEF KnownStage, StageJson
<1> QED
  BY <1>1, <1>2 DEF AcceptsEdge, AcceptsSurface, AcceptsPoint, MaterialEdgeJson,
                    SurfaceJson, PointJson

LEMMA PlaneAccepted ==
    ASSUME NEW v \in Schemas, NEW next, CursorOf(v, next), NEW ref, GivenPlane(part, ref)
    PROVE  AcceptsPlane(v, next, PlaneJson(ref)) <=>
               (ref.kind = "surface" => v >= 9) /\ (ref.kind = "datum" => v >= 10)
<1>1. CASE ref.kind = "origin"
  BY <1>1 DEF PlaneJson, AcceptsPlane
<1>2. CASE ref.kind = "datum"
  BY <1>2 DEF PlaneJson, AcceptsPlane
<1>3. CASE ref.kind \notin {"origin", "datum"}
  <2>1. /\ ref = OnBody("surface", ref.stage, ref.producer)
        /\ Provenance(part, ref)
    BY <1>3 DEF GivenPlane, GivenOnBody
  <2>2. ref.kind = "surface"
    BY <2>1 DEF OnBody
  <2>3. PlaneJson(ref) = [kind |-> "body_planar_surface", surface |-> SurfaceJson(ref)]
    BY <1>3 DEF PlaneJson
  <2>4. v >= 14 => AcceptsSurface(next, SurfaceJson(ref))
    BY <2>1, BodyAccepted DEF CursorOf
  <2> QED
    BY <2>2, <2>3, <2>4 DEF AcceptsPlane
<1> QED
  BY <1>1, <1>2, <1>3

LEMMA SupportAccepted ==
    ASSUME NEW v \in Schemas, NEW next, CursorOf(v, next), NEW ref, GivenPlane(part, ref)
    PROVE  AcceptsSupport(v, next, PlaneJson(ref)) <=>
               (ref.kind = "surface" => v >= 9) /\ (ref.kind = "datum" => v >= 11)
<1>1. PlaneJson(ref).kind = "datum_plane" <=> ref.kind = "datum"
  BY DEF PlaneJson
<1> QED
  BY <1>1, PlaneAccepted DEF AcceptsSupport, Schemas, Current

\* A link has an entity of its sketch and an edge that was there once.
LEMMA SketchLinked ==
    ASSUME PartInv, NEW s \in part.sketches
    PROVE  /\ Linked(s)
           /\ \A l \in s.links : Provenance(part, l.source)
           /\ cursor[s.id] \in Nat \ {0} /\ s.entities \subseteq 1 .. (cursor[s.id] - 1)
           /\ GivenPlane(part, s.support)
<1>1. SketchWritten(s)
  BY ThereSketch
<1>2. /\ MadeSketch(part, cursor, s)
      /\ cursor \in [SketchIds -> Nat \ {0}]
  BY DEF PartInv, Made
<1>3. /\ \A l \in s.links : l.entity \in s.entities /\ Provenance(part, l.source)
      /\ \A l, m \in s.links : l.entity = m.entity => l = m
  BY DEF PartInv, Sound, Valid, SketchesValid, LinksValid
<1>4. Linked(s)
  BY <1>1, <1>3 DEF Linked, SketchWritten
<1> QED
  BY <1>2, <1>3, <1>4 DEF MadeSketch, GivenEntities

LEMMA BindingsAccepted ==
    ASSUME PartInv, NEW s \in part.sketches, NEW json,
           json.model = [next_entity_id |-> cursor[s.id], entities |-> s.entities],
           json.projected_edges = BindingsJson(s)
    PROVE  AcceptsBindings(part.next["feature"], json)
<1> DEFINE bindings == json.projected_edges
<1>1. /\ Linked(s) /\ \A l \in s.links : Provenance(part, l.source)
      /\ cursor[s.id] - 1 \in Nat /\ s.entities \subseteq 1 .. (cursor[s.id] - 1)
  BY SketchLinked
<1>2. /\ \E n \in Nat : DOMAIN bindings = 1 .. n
      /\ Range(bindings) = {LinkJson(l) : l \in s.links}
      /\ \A i, j \in DOMAIN bindings :
             i < j => bindings[i].target_entity < bindings[j].target_entity
  BY <1>1, BindingsListed
<1> HIDE DEF bindings
<1> SUFFICES ASSUME NEW i \in DOMAIN bindings
             PROVE  /\ bindings[i].target_entity \in s.entities
                    /\ AcceptsEdge(part.next["feature"], bindings[i].source)
                    /\ i > 1 => bindings[i - 1].target_entity < bindings[i].target_entity
  BY DEF AcceptsBindings, bindings
<1>3. PICK l \in s.links : bindings[i] = LinkJson(l)
  <2>1. bindings[i] \in Range(bindings)
    BY DEF Range
  <2> QED
    BY <1>2, <2>1
<1>4. bindings[i].target_entity = l.entity /\ bindings[i].source = MaterialEdgeJson(l.source)
  BY <1>3 DEF LinkJson
<1>5. AcceptsEdge(part.next["feature"], MaterialEdgeJson(l.source))
  BY <1>1, BodyAccepted
<1>6. l.entity \in s.entities
  BY <1>1 DEF Linked
<1>7. ASSUME i > 1 PROVE bindings[i - 1].target_entity < bindings[i].target_entity
  <2>1. i \in Nat /\ i - 1 < i /\ i - 1 \in DOMAIN bindings
    BY <1>2, <1>7
  <2> QED
    BY <1>2, <2>1
<1> QED
  BY <1>4, <1>5, <1>6, <1>7

LEMMA SketchAccepted ==
    ASSUME PartInv, NEW v \in Schemas, NEW next, CursorOf(v, next), NEW s \in part.sketches
    PROVE  AcceptsSketch(v, next, SketchJson(v, s, cursor[s.id])) <=>
               (s.support.kind = "surface" => v >= 9) /\ (s.support.kind = "datum" => v >= 11)
<1> DEFINE json == SketchJson(v, s, cursor[s.id])
<1>1. /\ cursor[s.id] \in Nat \ {0} /\ s.entities \subseteq 1 .. (cursor[s.id] - 1)
      /\ GivenPlane(part, s.support)
  BY SketchLinked
<1>2. /\ DOMAIN json = SketchFields(v)
      /\ json.support = PlaneJson(s.support)
      /\ v < 9 => json.placement = json.support
      /\ v >= 3 => json.model = [next_entity_id |-> cursor[s.id], entities |-> s.entities]
      /\ v >= 15 => json.projected_edges = BindingsJson(s)
  BY SketchFieldsWritten
<1> HIDE DEF json
<1>3. v >= 3 => AcceptsModel(json.model)
  BY <1>1, <1>2 DEF AcceptsModel, Known
<1>4. ASSUME v >= 15 PROVE AcceptsBindings(next, json)
  <2>1. v >= 3 /\ v >= 14
    BY <1>4 DEF Schemas, Current
  <2>2. next = part.next["feature"]
    BY <2>1 DEF CursorOf
  <2> QED
    BY <1>2, <1>4, <2>1, <2>2, BindingsAccepted
<1>5. AcceptsSupport(v, next, json.support) <=>
          (s.support.kind = "surface" => v >= 9) /\ (s.support.kind = "datum" => v >= 11)
  BY <1>1, <1>2, SupportAccepted
<1> QED
  BY <1>2, <1>3, <1>4, <1>5 DEF AcceptsSketch, json

LEMMA AxisAccepted ==
    ASSUME PartInv, NEW v \in Schemas, NEW a \in part.axes
    PROVE  AcceptsAxis(v, part.next["feature"], part.next["axis"], AxisJson(a)) <=>
               (a.source.kind = "edge" => v >= 19) /\ (a.source.kind = "face" => v >= 20)
<1>1. MadeAxis(part, cursor, a)
  BY DEF PartInv, Made
<1>2. Known(part.next["axis"], a.id)
  BY DEF PartInv, Sound, Valid, AxesValid, Allocated, Known
<1>3. CASE a.source.kind = "line"
  <2>1. AxisJson(a) = [id |-> a.id, kind |-> "sketch_line",
                       source_sketch_id |-> a.source.sketch,
                       source_entity_id |-> a.source.entity]
    BY <1>3 DEF AxisJson
  <2> QED
    BY <1>2, <1>3, <2>1 DEF AcceptsAxis
<1>4. CASE a.source.kind = "edge"
  <2>1. Provenance(part, a.source)
    BY <1>1, <1>4 DEF MadeAxis, GivenOnBody
  <2>2. AxisJson(a) = [id |-> a.id, kind |-> "straight_body_edge",
                       source_edge |-> MaterialEdgeJson(a.source)]
    BY <1>4 DEF AxisJson
  <2>3. AcceptsEdge(part.next["feature"], MaterialEdgeJson(a.source))
    BY <2>1, BodyAccepted
  <2> QED
    BY <1>2, <1>4, <2>2, <2>3 DEF AcceptsAxis
<1>5. CASE a.source.kind = "face"
  <2>1. Provenance(part, a.source)
    BY <1>1, <1>5 DEF MadeAxis, GivenOnBody
  <2>2. AxisJson(a) = [id |-> a.id, kind |-> "cylindrical_body_face_strict",
                       source_surface |-> SurfaceJson(a.source)]
    BY <1>5 DEF AxisJson
  <2>3. AcceptsSurface(part.next["feature"], SurfaceJson(a.source))
    BY <2>1, BodyAccepted
  <2> QED
    BY <1>2, <1>5, <2>2, <2>3 DEF AcceptsAxis
<1> QED
  BY <1>1, <1>3, <1>4, <1>5 DEF MadeAxis

LEMMA ProfileAccepted ==
    ASSUME PartInv, NEW q \in part.profiles
    PROVE  AcceptsProfile(part.next["profile"], ProfileJson(q))
<1>1. Known(part.next["profile"], q.id)
  BY DEF PartInv, Sound, Valid, ProfilesValid, Allocated, Known
<1>2. q.uses # {}
  BY DEF PartInv, Made, MadeProfile
<1>3. PICK e : e \in q.uses
  BY <1>2
<1>4. UseJson(e) \in {UseJson(u) : u \in q.uses}
  BY <1>3
<1> QED
  BY <1>1, <1>4 DEF AcceptsProfile, ProfileJson

LEMMA FeatureAccepted ==
    ASSUME PartInv, NEW v \in Schemas, NEW i \in DOMAIN part.features
    PROVE  AcceptsFeature(v, part.next, FeatureJson(part.features[i])) <=>
               /\ part.features[i].kind = "revolve" => v >= 13
               /\ part.features[i].kind = "edges" => v >= 14
<1> DEFINE f == part.features[i]
<1>1. FeatureWritten(f)
  BY ThereFeature
<1>2. /\ Known(part.next.feature, f.id)
      /\ f.profile # NoId => Known(part.next.profile, f.profile)
      /\ f.axis # NoId => Known(part.next.axis, f.axis)
      /\ f.kind = "edges" => Provenance(part, f.edges)
  BY DEF PartInv, Sound, Valid, FeaturesValid, EdgesValid, Allocated, Known
<1> HIDE DEF f
<1>3. CASE f.kind = "edges"
  <2>1. FeatureJson(f) = [id |-> f.id, kind |-> "fillet", suppressed |-> f.suppressed,
                          edges |-> MaterialEdgeJson(f.edges)]
    BY <1>3 DEF FeatureJson, EdgeFeatureJson
  <2>2. AcceptsEdge(part.next.feature, MaterialEdgeJson(f.edges))
    BY <1>2, <1>3, BodyAccepted
  <2> QED
    BY <1>2, <1>3, <2>1, <2>2
       DEF AcceptsFeature, AcceptsExtrude, AcceptsRevolve, AcceptsEdgeFeature, f
<1>4. CASE f.kind = "extrude"
  <2>1. FeatureJson(f) = [id |-> f.id, kind |-> "extrude", suppressed |-> f.suppressed,
                          profile_id |-> f.profile]
    BY <1>4 DEF FeatureJson, ExtrudeJson
  <2>2. Known(part.next.profile, f.profile)
    BY <1>1, <1>2, <1>4 DEF FeatureWritten
  <2> QED
    BY <1>2, <1>4, <2>1, <2>2 DEF AcceptsFeature, AcceptsExtrude, f
<1>5. CASE f.kind = "revolve"
  <2>1. FeatureJson(f) = [id |-> f.id, kind |-> "revolve", suppressed |-> f.suppressed,
                          profile_id |-> f.profile, axis |-> AxisReferenceJson(f.axis)]
    BY <1>5 DEF FeatureJson, RevolveJson
  <2>2. Known(part.next.profile, f.profile)
    BY <1>1, <1>2, <1>5 DEF FeatureWritten
  <2>3. AcceptsAxisReference(part.next.axis, AxisReferenceJson(f.axis))
    <3>1. CASE f.axis = NoId
      BY <3>1 DEF AcceptsAxisReference, AxisReferenceJson
    <3>2. CASE f.axis # NoId
      BY <1>2, <3>2 DEF AcceptsAxisReference, AxisReferenceJson
    <3> QED
      BY <3>1, <3>2
  <2> QED
    BY <1>2, <1>5, <2>1, <2>2, <2>3
       DEF AcceptsFeature, AcceptsExtrude, AcceptsRevolve, AcceptsEdgeFeature, f
<1> QED
  BY <1>1, <1>3, <1>4, <1>5 DEF FeatureWritten

\* When they have arrays at all, all datum planes are accepted.
LEMMA DatumAccepted ==
    ASSUME PartInv, NEW v \in Schemas, v >= 10, NEW d \in part.datums
    PROVE  /\ d.kind = "offset" => AcceptsOffset(v, part.next, OffsetJson(d))
           /\ d.kind = "edge" => AcceptsEdgePoint(part.next, EdgePointJson(d))
           /\ d.kind = "points" => AcceptsThreePoint(part.next, ThreePointJson(d))
<1>1. MadeDatum(part, d)
  BY DEF PartInv, Made
<1>2. Known(part.next.datum, d.id)
  BY DEF PartInv, Sound, Valid, DatumsValid, Allocated, Known
<1>3. ASSUME d.kind = "offset" PROVE AcceptsOffset(v, part.next, OffsetJson(d))
  <2>1. GivenPlane(part, d.source)
    BY <1>1, <1>3 DEF MadeDatum
  <2>2. CursorOf(v, part.next.feature)
    BY DEF CursorOf
  <2>3. AcceptsPlane(v, part.next.feature, PlaneJson(d.source))
    BY <2>1, <2>2, PlaneAccepted DEF Schemas, Current
  <2> QED
    BY <1>2, <2>3 DEF AcceptsOffset, OffsetJson
<1>4. ASSUME d.kind \in {"edge", "points"} PROVE Provenance(part, d.source)
  BY <1>1, <1>4 DEF MadeDatum, GivenOnBody
<1>5. ASSUME d.kind = "edge" PROVE AcceptsEdgePoint(part.next, EdgePointJson(d))
  <2>1. AcceptsEdge(part.next.feature, MaterialEdgeJson(d.source))
    BY <1>4, <1>5, BodyAccepted
  <2> QED
    BY <1>2, <2>1 DEF AcceptsEdgePoint, EdgePointJson
<1>6. ASSUME d.kind = "points" PROVE AcceptsThreePoint(part.next, ThreePointJson(d))
  <2>1. AcceptsPoint(part.next.feature, PointJson(d.source))
    BY <1>4, <1>6, BodyAccepted
  <2> QED
    BY <1>2, <2>1 DEF AcceptsThreePoint, ThreePointJson
<1> QED
  BY <1>3, <1>5, <1>6

-----------------------------------------------------------------------------
(* The whole payload *)

\* What the fields of the payload of schema v are.
LEMMA PayloadFields ==
    ASSUME NEW v \in Schemas
    PROVE  LET a == Authored(v, part, cursor)
           IN  /\ DOMAIN a = Fields(v)
               /\ Items(a, "sketches") =
                      IF v >= 2 THEN {SketchJson(v, s, cursor[s.id]) : s \in part.sketches} ELSE {}
               /\ Items(a, "profiles") =
                      IF v >= 6 THEN {ProfileJson(q) : q \in part.profiles} ELSE {}
               /\ Items(a, "axes") =
                      IF v >= 12 THEN {AxisJson(x) : x \in part.axes} ELSE {}
               /\ Items(a, "datum_planes") =
                      IF v >= 10 THEN {OffsetJson(d) : d \in OfKind(part, "offset")} ELSE {}
               /\ Items(a, "edge_point_datum_planes") =
                      IF v >= 17 THEN {EdgePointJson(d) : d \in OfKind(part, "edge")} ELSE {}
               /\ Items(a, "three_point_datum_planes") =
                      IF v >= 18 THEN {ThreePointJson(d) : d \in OfKind(part, "points")} ELSE {}
               /\ Features(a) =
                      IF v >= 8
                      THEN [i \in DOMAIN part.features |-> FeatureJson(part.features[i])]
                      ELSE <<>>
               /\ Cursors(a) =
                      [datum |-> IF v >= 10 THEN part.next.datum ELSE 1,
                       axis |-> IF v >= 12 THEN part.next.axis ELSE 1,
                       profile |-> IF v >= 6 THEN part.next.profile ELSE 1,
                       feature |-> IF v >= 8 THEN part.next.feature ELSE 1]
<1> DEFINE Sketches == {SketchJson(v, s, cursor[s.id]) : s \in part.sketches}
           Profiles == {ProfileJson(q) : q \in part.profiles}
           Axes == {AxisJson(x) : x \in part.axes}
           Offsets == {OffsetJson(d) : d \in OfKind(part, "offset")}
           Edges == {EdgePointJson(d) : d \in OfKind(part, "edge")}
           Triples == {ThreePointJson(d) : d \in OfKind(part, "points")}
           History == [i \in DOMAIN part.features |-> FeatureJson(part.features[i])]
           whole == [sketches |-> Sketches,
                     next_profile_id |-> part.next.profile,
                     profiles |-> Profiles,
                     body |-> [next_feature_id |-> part.next.feature, features |-> History],
                     next_datum_id |-> part.next.datum,
                     datum_planes |-> Offsets,
                     next_axis_id |-> part.next.axis,
                     axes |-> Axes,
                     edge_point_datum_planes |-> Edges,
                     three_point_datum_planes |-> Triples]
           a == Authored(v, part, cursor)
<1>1. a = [f \in Fields(v) |-> whole[f]]
  BY DEF Authored, Restrict
<1> HIDE DEF Sketches, Profiles, Axes, Offsets, Edges, Triples, History, a
<1>2. /\ whole.sketches = Sketches /\ whole.profiles = Profiles /\ whole.axes = Axes
      /\ whole.datum_planes = Offsets /\ whole.edge_point_datum_planes = Edges
      /\ whole.three_point_datum_planes = Triples
      /\ whole.next_profile_id = part.next.profile /\ whole.next_datum_id = part.next.datum
      /\ whole.next_axis_id = part.next.axis
      /\ whole.body.next_feature_id = part.next.feature /\ whole.body.features = History
  OBVIOUS
<1> HIDE DEF whole
<1>3. /\ "sketches" \in Fields(v) <=> v >= 2
      /\ "next_profile_id" \in Fields(v) <=> v >= 6
      /\ "profiles" \in Fields(v) <=> v >= 6
      /\ "body" \in Fields(v) <=> v >= 8
      /\ "next_datum_id" \in Fields(v) <=> v >= 10
      /\ "datum_planes" \in Fields(v) <=> v >= 10
      /\ "next_axis_id" \in Fields(v) <=> v >= 12
      /\ "axes" \in Fields(v) <=> v >= 12
      /\ "edge_point_datum_planes" \in Fields(v) <=> v >= 17
      /\ "three_point_datum_planes" \in Fields(v) <=> v >= 18
  BY DEF Fields, Since, Schemas, Current
<1>4. DOMAIN a = Fields(v) /\ \A f \in Fields(v) : a[f] = whole[f]
  BY <1>1
<1>5. /\ Items(a, "sketches") = IF v >= 2 THEN Sketches ELSE {}
      /\ Items(a, "profiles") = IF v >= 6 THEN Profiles ELSE {}
      /\ Items(a, "axes") = IF v >= 12 THEN Axes ELSE {}
  BY <1>2, <1>3, <1>4 DEF Items
<1>6. /\ Items(a, "datum_planes") = IF v >= 10 THEN Offsets ELSE {}
      /\ Items(a, "edge_point_datum_planes") = IF v >= 17 THEN Edges ELSE {}
      /\ Items(a, "three_point_datum_planes") = IF v >= 18 THEN Triples ELSE {}
  BY <1>2, <1>3, <1>4 DEF Items
<1>7. Features(a) = IF v >= 8 THEN History ELSE <<>>
  BY <1>2, <1>3, <1>4 DEF Features
<1>8. /\ Cursor(a, "next_datum_id") = IF v >= 10 THEN part.next.datum ELSE 1
      /\ Cursor(a, "next_axis_id") = IF v >= 12 THEN part.next.axis ELSE 1
      /\ Cursor(a, "next_profile_id") = IF v >= 6 THEN part.next.profile ELSE 1
      /\ NextFeature(a) = IF v >= 8 THEN part.next.feature ELSE 1
  BY <1>2, <1>3, <1>4 DEF Cursor, NextFeature
<1> QED
  BY <1>4, <1>5, <1>6, <1>7, <1>8
     DEF Cursors, Sketches, Profiles, Axes, Offsets, Edges, Triples, History, a

\* A schema that has no place for a cursor has one that is as in a new Part.
CursorsFit(v) ==
    /\ part.next.profile > 1 => v >= 6
    /\ part.next.feature > 1 => v >= 8
    /\ part.next.datum > 1 => v >= 10
    /\ part.next.axis > 1 => v >= 12

LEMMA CursorsBack ==
    ASSUME PartInv, NEW v \in Schemas
    PROVE  Cursors(Authored(v, part, cursor)) = part.next <=> CursorsFit(v)
<1>1. part.next \in [Counted -> Nat \ {0}]
  BY DEF PartInv, Made
<1> DEFINE n == part.next
           datum == IF v >= 10 THEN n.datum ELSE 1
           axis == IF v >= 12 THEN n.axis ELSE 1
           profile == IF v >= 6 THEN n.profile ELSE 1
           feature == IF v >= 8 THEN n.feature ELSE 1
<1>2. Cursors(Authored(v, part, cursor)) =
          [datum |-> datum, axis |-> axis, profile |-> profile, feature |-> feature]
  BY PayloadFields
<1>3. n = [datum |-> n.datum, axis |-> n.axis, profile |-> n.profile, feature |-> n.feature]
  BY <1>1 DEF Counted
<1>4. /\ n.datum \in Nat \ {0} /\ n.axis \in Nat \ {0}
      /\ n.profile \in Nat \ {0} /\ n.feature \in Nat \ {0}
  BY <1>1 DEF Counted
<1>5. CursorsFit(v) <=> /\ datum = n.datum /\ axis = n.axis
                        /\ profile = n.profile /\ feature = n.feature
  BY <1>4 DEF CursorsFit, Schemas
<1> HIDE DEF datum, axis, profile, feature, n
<1>6. [datum |-> datum, axis |-> axis, profile |-> profile, feature |-> feature] = n <=>
          datum = n.datum /\ axis = n.axis /\ profile = n.profile /\ feature = n.feature
  BY <1>3
<1> QED
  BY <1>2, <1>5, <1>6 DEF n

\* Nothing there had an id where the schema has no place for it.
LEMMA NothingWithout ==
    ASSUME PartInv, NEW v \in Schemas, CursorsFit(v)
    PROVE  /\ ~(v >= 6) => part.profiles = {}
           /\ ~(v >= 8) => DOMAIN part.features = {}
           /\ ~(v >= 10) => part.datums = {}
           /\ ~(v >= 12) => part.axes = {}
<1>1. part.next \in [Counted -> Nat \ {0}]
  BY DEF PartInv, Made
<1>2. /\ \A d \in part.datums : d.id \in 1 .. (part.next.datum - 1)
      /\ \A a \in part.axes : a.id \in 1 .. (part.next.axis - 1)
      /\ \A q \in part.profiles : q.id \in 1 .. (part.next.profile - 1)
      /\ \A i \in DOMAIN part.features : part.features[i].id \in 1 .. (part.next.feature - 1)
  BY DEF PartInv, Sound, Valid, DatumsValid, AxesValid, ProfilesValid, FeaturesValid, Allocated
<1>3. /\ part.next.datum \in Nat /\ part.next.axis \in Nat
      /\ part.next.profile \in Nat /\ part.next.feature \in Nat
  BY <1>1 DEF Counted
<1> QED
  BY <1>2, <1>3 DEF CursorsFit

\* What the reader asks that is not so of every Part.
InPlace(v) ==
    /\ \A s \in part.sketches : s.support.kind = "surface" => v >= 9
    /\ \A s \in part.sketches : s.support.kind = "datum" => v >= 11
    /\ \A i \in DOMAIN part.features : part.features[i].kind = "revolve" => v >= 13
    /\ \A i \in DOMAIN part.features : part.features[i].kind = "edges" => v >= 14
    /\ \A a \in part.axes : a.source.kind = "edge" => v >= 19
    /\ \A a \in part.axes : a.source.kind = "face" => v >= 20

\* The arrays that are in the file whenever there is something to put in them.
LEMMA ItemsWritten ==
    ASSUME PartInv, NEW v \in Schemas, CursorsFit(v), part.sketches # {} => v >= 2
    PROVE  LET a == Authored(v, part, cursor)
           IN  /\ Items(a, "sketches") = {SketchJson(v, s, cursor[s.id]) : s \in part.sketches}
               /\ Items(a, "profiles") = {ProfileJson(q) : q \in part.profiles}
               /\ Items(a, "axes") = {AxisJson(x) : x \in part.axes}
               /\ Items(a, "datum_planes") = {OffsetJson(d) : d \in OfKind(part, "offset")}
               /\ DOMAIN Features(a) = DOMAIN part.features
               /\ \A i \in DOMAIN part.features : Features(a)[i] = FeatureJson(part.features[i])
<1> DEFINE a == Authored(v, part, cursor)
<1>1. /\ Items(a, "sketches") =
             IF v >= 2 THEN {SketchJson(v, s, cursor[s.id]) : s \in part.sketches} ELSE {}
      /\ Items(a, "profiles") =
             IF v >= 6 THEN {ProfileJson(q) : q \in part.profiles} ELSE {}
      /\ Items(a, "axes") =
             IF v >= 12 THEN {AxisJson(x) : x \in part.axes} ELSE {}
      /\ Items(a, "datum_planes") =
             IF v >= 10 THEN {OffsetJson(d) : d \in OfKind(part, "offset")} ELSE {}
      /\ Features(a) =
             IF v >= 8 THEN [i \in DOMAIN part.features |-> FeatureJson(part.features[i])]
             ELSE <<>>
  BY PayloadFields
<1> HIDE DEF a
<1>2. /\ ~(v >= 6) => part.profiles = {}
      /\ ~(v >= 8) => DOMAIN part.features = {}
      /\ ~(v >= 10) => part.datums = {}
      /\ ~(v >= 12) => part.axes = {}
  BY NothingWithout
<1>3. Items(a, "sketches") = {SketchJson(v, s, cursor[s.id]) : s \in part.sketches}
  BY <1>1
<1>4. Items(a, "profiles") = {ProfileJson(q) : q \in part.profiles}
  BY <1>1, <1>2
<1>5. Items(a, "axes") = {AxisJson(x) : x \in part.axes}
  BY <1>1, <1>2
<1>6. Items(a, "datum_planes") = {OffsetJson(d) : d \in OfKind(part, "offset")}
  BY <1>1, <1>2 DEF OfKind
<1>7. /\ DOMAIN Features(a) = DOMAIN part.features
      /\ \A i \in DOMAIN part.features : Features(a)[i] = FeatureJson(part.features[i])
  <2> DEFINE built == [i \in DOMAIN part.features |-> FeatureJson(part.features[i])]
  <2>1. /\ DOMAIN built = DOMAIN part.features
        /\ \A i \in DOMAIN part.features : built[i] = FeatureJson(part.features[i])
    OBVIOUS
  <2> HIDE DEF built
  <2>2. CASE v >= 8
    <3>1. Features(a) = built
      BY <1>1, <2>2 DEF built
    <3> QED
      BY <2>1, <3>1
  <2>3. CASE ~(v >= 8)
    <3>1. Features(a) = <<>>
      BY <1>1, <2>3
    <3>2. DOMAIN Features(a) = {}
      BY <3>1
    <3> QED
      BY <1>2, <2>3, <3>2
  <2> QED
    BY <2>2, <2>3
<1> QED
  BY <1>3, <1>4, <1>5, <1>6, <1>7 DEF a

\* Two sketches, or axes, in a file have the ids they had in the Part.
LEMMA IdsWritten ==
    ASSUME PartInv, NEW v \in Schemas
    PROVE  /\ UniqueIds({SketchJson(v, s, cursor[s.id]) : s \in part.sketches})
           /\ UniqueIds({AxisJson(a) : a \in part.axes})
<1>1. \A s \in part.sketches : SketchJson(v, s, cursor[s.id]).id = s.id
  <2> SUFFICES ASSUME NEW s \in part.sketches PROVE SketchJson(v, s, cursor[s.id]).id = s.id
    OBVIOUS
  <2> DEFINE json == SketchJson(v, s, cursor[s.id])
  <2>1. /\ json.id = s.id /\ json.support = PlaneJson(s.support)
        /\ v < 9 => json.placement = json.support
        /\ v >= 3 => json.model = [next_entity_id |-> cursor[s.id], entities |-> s.entities]
    BY SketchFieldsWritten
  <2> QED
    BY <2>1
<1>2. UniqueIds(part.sketches) /\ UniqueIds(part.axes)
  BY DEF PartInv, Sound, Valid, SketchesValid, AxesValid
<1>3. \A a \in part.axes : AxisJson(a).id = a.id
  BY DEF AxisJson
<1> QED
  BY <1>1, <1>2, <1>3 DEF UniqueIds

LEMMA PayloadAccepted ==
    ASSUME PartInv, NEW v \in Schemas, CursorsFit(v), part.sketches # {} => v >= 2
    PROVE  Accepts(v, Authored(v, part, cursor)) <=> InPlace(v)
<1> DEFINE a == Authored(v, part, cursor)
<1>1. Cursors(a) = part.next
  BY CursorsBack
<1>2. DOMAIN a = Fields(v)
  BY PayloadFields
<1>3. /\ Items(a, "sketches") = {SketchJson(v, s, cursor[s.id]) : s \in part.sketches}
      /\ Items(a, "profiles") = {ProfileJson(q) : q \in part.profiles}
      /\ Items(a, "axes") = {AxisJson(x) : x \in part.axes}
      /\ Items(a, "datum_planes") = {OffsetJson(d) : d \in OfKind(part, "offset")}
      /\ DOMAIN Features(a) = DOMAIN part.features
      /\ \A i \in DOMAIN part.features : Features(a)[i] = FeatureJson(part.features[i])
  BY ItemsWritten
<1>4. /\ Items(a, "edge_point_datum_planes") =
             IF v >= 17 THEN {EdgePointJson(d) : d \in OfKind(part, "edge")} ELSE {}
      /\ Items(a, "three_point_datum_planes") =
             IF v >= 18 THEN {ThreePointJson(d) : d \in OfKind(part, "points")} ELSE {}
  BY PayloadFields
<1> HIDE DEF a
<1>5. (\A s \in Items(a, "sketches") : AcceptsSketch(v, part.next.feature, s)) <=>
          \A s \in part.sketches : /\ s.support.kind = "surface" => v >= 9
                                   /\ s.support.kind = "datum" => v >= 11
  <2>1. CursorOf(v, part.next.feature)
    BY DEF CursorOf
  <2>2. \A s \in part.sketches :
            AcceptsSketch(v, part.next.feature, SketchJson(v, s, cursor[s.id])) <=>
                /\ s.support.kind = "surface" => v >= 9
                /\ s.support.kind = "datum" => v >= 11
    BY <2>1, SketchAccepted
  <2> QED
    BY <1>3, <2>2
<1>6. (\A x \in Items(a, "axes") : AcceptsAxis(v, part.next.feature, part.next.axis, x)) <=>
          \A x \in part.axes : /\ x.source.kind = "edge" => v >= 19
                               /\ x.source.kind = "face" => v >= 20
  <2>1. \A x \in part.axes :
            AcceptsAxis(v, part.next.feature, part.next.axis, AxisJson(x)) <=>
                /\ x.source.kind = "edge" => v >= 19
                /\ x.source.kind = "face" => v >= 20
    BY AxisAccepted
  <2> QED
    BY <1>3, <2>1
<1>7. \A q \in Items(a, "profiles") : AcceptsProfile(part.next.profile, q)
  <2>1. \A q \in part.profiles : AcceptsProfile(part.next.profile, ProfileJson(q))
    BY ProfileAccepted
  <2> QED
    BY <1>3, <2>1
<1>8. (\A i \in DOMAIN Features(a) : AcceptsFeature(v, part.next, Features(a)[i])) <=>
          \A i \in DOMAIN part.features : /\ part.features[i].kind = "revolve" => v >= 13
                                          /\ part.features[i].kind = "edges" => v >= 14
  <2>1. \A i \in DOMAIN part.features :
            AcceptsFeature(v, part.next, FeatureJson(part.features[i])) <=>
                /\ part.features[i].kind = "revolve" => v >= 13
                /\ part.features[i].kind = "edges" => v >= 14
    BY FeatureAccepted
  <2> QED
    BY <1>3, <2>1
<1>9. /\ \A d \in Items(a, "datum_planes") : AcceptsOffset(v, part.next, d)
      /\ \A d \in Items(a, "edge_point_datum_planes") : AcceptsEdgePoint(part.next, d)
      /\ \A d \in Items(a, "three_point_datum_planes") : AcceptsThreePoint(part.next, d)
  <2>1. ~(v >= 10) => part.datums = {}
    BY NothingWithout
  <2>2. ASSUME v >= 10, NEW d \in part.datums
        PROVE  /\ d.kind = "offset" => AcceptsOffset(v, part.next, OffsetJson(d))
               /\ d.kind = "edge" => AcceptsEdgePoint(part.next, EdgePointJson(d))
               /\ d.kind = "points" => AcceptsThreePoint(part.next, ThreePointJson(d))
    BY <2>2, DatumAccepted
  <2>3. \A d \in part.datums :
            /\ d.kind = "offset" => AcceptsOffset(v, part.next, OffsetJson(d))
            /\ d.kind = "edge" => AcceptsEdgePoint(part.next, EdgePointJson(d))
            /\ d.kind = "points" => AcceptsThreePoint(part.next, ThreePointJson(d))
    BY <2>1, <2>2
  <2>4. \A d \in Items(a, "datum_planes") : AcceptsOffset(v, part.next, d)
    BY <1>3, <2>3 DEF OfKind
  <2>5. \A d \in Items(a, "edge_point_datum_planes") : AcceptsEdgePoint(part.next, d)
    BY <1>4, <2>3 DEF OfKind
  <2>6. \A d \in Items(a, "three_point_datum_planes") : AcceptsThreePoint(part.next, d)
    BY <1>4, <2>3 DEF OfKind
  <2> QED
    BY <2>4, <2>5, <2>6
<1>10. UniqueIds(Items(a, "sketches")) /\ UniqueIds(Items(a, "axes"))
  BY <1>3, IdsWritten
<1>11. Accepts(v, a) <=>
           /\ \A s \in Items(a, "sketches") : AcceptsSketch(v, part.next.feature, s)
           /\ \A x \in Items(a, "axes") : AcceptsAxis(v, part.next.feature, part.next.axis, x)
           /\ \A i \in DOMAIN Features(a) : AcceptsFeature(v, part.next, Features(a)[i])
  BY <1>1, <1>2, <1>7, <1>9, <1>10 DEF Accepts
<1> QED
  BY <1>5, <1>6, <1>8, <1>11 DEF InPlace, a

LEMMA FileParts ==
    ASSUME NEW v \in Schemas
    PROVE  /\ File(v)[Payload] = Authored(v, part, cursor)
           /\ Parses(File(v)) <=> Accepts(v, Authored(v, part, cursor))
<1> DEFINE a == Authored(v, part, cursor)
           manifest == [container_version |-> 1, document_kind |-> "part", document_id |-> 0,
                        domain_schema_version |-> v]
           file == File(v)
<1>1. file = [name \in {Manifest, Payload} |-> IF name = Payload THEN a ELSE manifest]
  BY DEF File, Packed
<1>2. Manifest # Payload
  BY DEF Manifest, Payload
<1> HIDE DEF a, file, manifest
<1>3. DOMAIN file = {Manifest, Payload} /\ file[Payload] = a /\ file[Manifest] = manifest
  BY <1>1, <1>2
<1>4. /\ DOMAIN manifest = {"container_version", "document_kind", "document_id",
                            "domain_schema_version"}
      /\ manifest.container_version = 1 /\ manifest.document_kind = "part"
      /\ manifest.domain_schema_version = v
  BY DEF manifest
<1>5. Parses(file) <=> Accepts(v, a)
  BY <1>3, <1>4 DEF Parses, Unpacks
<1> QED
  BY <1>3, <1>5 DEF a, file

\* Sketches come back with what schema v has a place for.
LEMMA SketchesBack ==
    ASSUME PartInv, NEW v \in Schemas, Expressible(v), NEW s \in part.sketches
    PROVE  Sketched(SketchJson(v, s, cursor[s.id])) = s
<1>1. SketchWritten(s)
  BY ThereSketch
<1>2. /\ Linked(s) /\ cursor[s.id] \in Nat \ {0} /\ s.entities \subseteq 1 .. (cursor[s.id] - 1)
  BY SketchLinked
<1>3. s.entities \subseteq 1 .. cursor[s.id]
  BY <1>2
<1>4. s.entities # {} => v >= 3
  <2>1. s.id \in SketchIds
    BY <1>1 DEF SketchWritten
  <2>2. s.entities # {} => cursor[s.id] > 1
    BY <1>2
  <2> QED
    BY <2>1, <2>2 DEF Expressible
<1>5. s.links # {} => v >= 15
  BY DEF Expressible
<1> QED
  BY <1>1, <1>2, <1>3, <1>4, <1>5, SketchBack

LEMMA PartBack ==
    ASSUME PartInv, NEW v \in Schemas, Expressible(v)
    PROVE  Restored(Authored(v, part, cursor)) = part
<1> DEFINE a == Authored(v, part, cursor)
           Offsets == {OffsetPlane(d) : d \in Items(a, "datum_planes")}
           Edges == {EdgePointPlane(d) : d \in Items(a, "edge_point_datum_planes")}
           Triples == {ThreePointPlane(d) : d \in Items(a, "three_point_datum_planes")}
<1>1. CursorsFit(v) /\ (part.sketches # {} => v >= 2)
  BY DEF Expressible, CursorsFit
<1>2. Cursors(a) = part.next
  BY <1>1, CursorsBack
<1>3. /\ Items(a, "sketches") = {SketchJson(v, s, cursor[s.id]) : s \in part.sketches}
      /\ Items(a, "profiles") = {ProfileJson(q) : q \in part.profiles}
      /\ Items(a, "axes") = {AxisJson(x) : x \in part.axes}
      /\ Items(a, "datum_planes") = {OffsetJson(d) : d \in OfKind(part, "offset")}
      /\ DOMAIN Features(a) = DOMAIN part.features
      /\ \A i \in DOMAIN part.features : Features(a)[i] = FeatureJson(part.features[i])
  BY <1>1, ItemsWritten
<1>4. /\ Items(a, "edge_point_datum_planes") = {EdgePointJson(d) : d \in OfKind(part, "edge")}
      /\ Items(a, "three_point_datum_planes") = {ThreePointJson(d) : d \in OfKind(part, "points")}
  <2>1. /\ Items(a, "edge_point_datum_planes") =
               IF v >= 17 THEN {EdgePointJson(d) : d \in OfKind(part, "edge")} ELSE {}
        /\ Items(a, "three_point_datum_planes") =
               IF v >= 18 THEN {ThreePointJson(d) : d \in OfKind(part, "points")} ELSE {}
    BY PayloadFields
  <2>2. /\ ~(v >= 17) => OfKind(part, "edge") = {}
        /\ ~(v >= 18) => OfKind(part, "points") = {}
    BY DEF Expressible
  <2> HIDE DEF a
  <2> QED
    BY <2>1, <2>2
<1> HIDE DEF a, Offsets, Edges, Triples
<1>5. {Sketched(s) : s \in Items(a, "sketches")} = part.sketches
  <2>1. \A s \in part.sketches : Sketched(SketchJson(v, s, cursor[s.id])) = s
    BY SketchesBack
  <2> QED
    BY <1>3, <2>1
<1>6. {Axis(x) : x \in Items(a, "axes")} = part.axes
  <2>1. \A x \in part.axes : Axis(AxisJson(x)) = x
    BY AxisBack DEF PartInv, Made
  <2> QED
    BY <1>3, <2>1
<1>7. {Region(q) : q \in Items(a, "profiles")} = part.profiles
  <2>1. \A q \in part.profiles : Region(ProfileJson(q)) = q
    BY ProfileBack DEF PartInv, Made
  <2> QED
    BY <1>3, <2>1
<1>8. [i \in DOMAIN Features(a) |-> Built(Features(a)[i])] = part.features
  <2>1. \A i \in DOMAIN part.features : Built(FeatureJson(part.features[i])) = part.features[i]
    BY ThereFeature, FeatureBack
  <2>2. part.features = [i \in DOMAIN part.features |-> part.features[i]]
    BY DEF PartInv, Sound, Shaped
  <2> QED
    BY <1>3, <2>1, <2>2
<1>9. Offsets \cup Edges \cup Triples = part.datums
  <2>1. \A d \in part.datums :
            /\ d.kind = "offset" => OffsetPlane(OffsetJson(d)) = d
            /\ d.kind = "edge" => EdgePointPlane(EdgePointJson(d)) = d
            /\ d.kind = "points" => ThreePointPlane(ThreePointJson(d)) = d
            /\ d.kind \in {"offset", "edge", "points"}
    BY DatumBack DEF PartInv, Made
  <2>2. Offsets = OfKind(part, "offset")
    BY <1>3, <2>1 DEF Offsets, OfKind
  <2>3. Edges = OfKind(part, "edge")
    BY <1>4, <2>1 DEF Edges, OfKind
  <2>4. Triples = OfKind(part, "points")
    BY <1>4, <2>1 DEF Triples, OfKind
  <2> QED
    BY <2>1, <2>2, <2>3, <2>4 DEF OfKind
<1>10. Restored(a) = [sketches |-> part.sketches, axes |-> part.axes,
                      profiles |-> part.profiles, features |-> part.features,
                      datums |-> part.datums, next |-> part.next]
  BY <1>2, <1>5, <1>6, <1>7, <1>8, <1>9 DEF Restored, Offsets, Edges, Triples
<1>11. part = [datums |-> part.datums, sketches |-> part.sketches, axes |-> part.axes,
               profiles |-> part.profiles, features |-> part.features, next |-> part.next]
  BY DEF PartInv, Sound, Shaped
<1> QED
  BY <1>10, <1>11 DEF a

\* The entity cursors come back where schema v has models, and are otherwise 1.
LEMMA EntityCursorsBack ==
    ASSUME PartInv, NEW v \in Schemas, part.sketches # {} => v >= 2, CursorsFit(v),
           NEW k \in SketchIds
    PROVE  RestoredCursor(Authored(v, part, cursor), k) =
               IF v >= 3 THEN cursor[k] ELSE 1
<1> DEFINE a == Authored(v, part, cursor)
           Json(s) == SketchJson(v, s, cursor[s.id])
           found == {t \in Items(a, "sketches") : t.id = k /\ "model" \in DOMAIN t}
           models == {t.model : t \in found}
<1>1. Items(a, "sketches") = {Json(s) : s \in part.sketches}
  BY ItemsWritten
<1>2. ASSUME NEW s \in part.sketches
      PROVE  /\ Json(s).id = s.id
             /\ v >= 3 <=> "model" \in DOMAIN Json(s)
             /\ v >= 3 => Json(s).model = [next_entity_id |-> cursor[s.id], entities |-> s.entities]
  BY SketchFieldsWritten
<1>3. RestoredCursor(a, k) = IF models = {} THEN 1 ELSE (CHOOSE m \in models : TRUE).next_entity_id
  BY DEF RestoredCursor
<1> HIDE DEF a, Json
<1>4. CASE ~(v >= 3)
  <2>1. found = {}
    BY <1>1, <1>2, <1>4
  <2> HIDE DEF found
  <2>2. models = {}
    BY <2>1
  <2> QED
    BY <1>3, <1>4, <2>2 DEF a
<1>5. CASE v >= 3 /\ k \notin IdsOf(part.sketches)
  <2>1. found = {}
    <3>1. \A s \in part.sketches : s.id # k
      BY <1>5 DEF IdsOf
    <3>2. \A s \in part.sketches : Json(s).id # k
      BY <1>2, <3>1
    <3> QED
      BY <1>1, <3>2
  <2> HIDE DEF found
  <2>2. models = {}
    BY <2>1
  <2>3. cursor[k] = 1
    BY <1>5 DEF PartInv, Made
  <2> QED
    BY <1>3, <1>5, <2>2, <2>3 DEF a
<1>6. CASE v >= 3 /\ k \in IdsOf(part.sketches)
  <2>1. PICK s \in part.sketches : s.id = k
    BY <1>6 DEF IdsOf
  <2>2. \A t \in part.sketches : t.id = k => t = s
    BY <2>1 DEF PartInv, Sound, Valid, SketchesValid, UniqueIds
  <2>3. found = {Json(s)}
    <3>1. /\ \A t \in part.sketches : Json(t).id = k => t = s
          /\ Json(s).id = k /\ "model" \in DOMAIN Json(s)
      BY <1>2, <1>6, <2>1, <2>2
    <3>2. Json(s) \in Items(a, "sketches")
      BY <1>1
    <3> QED
      BY <1>1, <3>1, <3>2
  <2> DEFINE m == [next_entity_id |-> cursor[k], entities |-> s.entities]
  <2>4. Json(s).model = m
    BY <1>2, <1>6, <2>1
  <2> HIDE DEF found, m
  <2>5. models = {m}
    BY <2>3, <2>4
  <2> HIDE DEF models
  <2>6. models # {} /\ (CHOOSE x \in models : TRUE) = m
    BY <2>5
  <2>7. m.next_entity_id = cursor[k]
    BY DEF m
  <2> QED
    BY <1>3, <1>6, <2>6, <2>7 DEF a
<1> QED
  BY <1>4, <1>5, <1>6

\* What schema v has a place for is accepted and is the same again.
LEMMA ExpressibleLoads ==
    ASSUME PartInv, NEW v \in Schemas, Expressible(v)
    PROVE  Parses(File(v)) /\ IsRestored(File(v))
<1>1. CursorsFit(v) /\ (part.sketches # {} => v >= 2)
  BY DEF Expressible, CursorsFit
<1>2. InPlace(v)
  BY DEF Expressible, InPlace
<1>3. Accepts(v, Authored(v, part, cursor))
  BY <1>1, <1>2, PayloadAccepted
<1>4. Restored(Authored(v, part, cursor)) = part
  BY PartBack
<1>5. ASSUME NEW k \in SketchIds PROVE RestoredCursor(Authored(v, part, cursor), k) = cursor[k]
  <2>1. RestoredCursor(Authored(v, part, cursor), k) = IF v >= 3 THEN cursor[k] ELSE 1
    BY <1>1, EntityCursorsBack
  <2>2. cursor[k] \in Nat \ {0}
    BY DEF PartInv, Made
  <2>3. cursor[k] > 1 => v >= 3
    BY DEF Expressible
  <2> QED
    BY <2>1, <2>2, <2>3
<1> QED
  BY <1>3, <1>4, <1>5, FileParts DEF IsRestored

\* And what comes back the same had its place.
LEMMA LoadedExpressible ==
    ASSUME PartInv, NEW v \in Schemas, Parses(File(v)), IsRestored(File(v))
    PROVE  Expressible(v)
<1> DEFINE a == Authored(v, part, cursor)
           Offsets == {OffsetPlane(d) : d \in Items(a, "datum_planes")}
           Edges == {EdgePointPlane(d) : d \in Items(a, "edge_point_datum_planes")}
           Triples == {ThreePointPlane(d) : d \in Items(a, "three_point_datum_planes")}
<1>1. /\ Accepts(v, a) /\ Restored(a) = part
      /\ \A k \in SketchIds : RestoredCursor(a, k) = cursor[k]
  BY FileParts DEF IsRestored
<1>2. /\ Items(a, "sketches") =
             IF v >= 2 THEN {SketchJson(v, s, cursor[s.id]) : s \in part.sketches} ELSE {}
      /\ Items(a, "edge_point_datum_planes") =
             IF v >= 17 THEN {EdgePointJson(d) : d \in OfKind(part, "edge")} ELSE {}
      /\ Items(a, "three_point_datum_planes") =
             IF v >= 18 THEN {ThreePointJson(d) : d \in OfKind(part, "points")} ELSE {}
  BY PayloadFields
<1>3. /\ part.sketches = {Sketched(s) : s \in Items(a, "sketches")}
      /\ part.datums = Offsets \cup Edges \cup Triples
      /\ part.next = Cursors(a)
  BY <1>1 DEF Restored
<1>4. CursorsFit(v)
  BY <1>3, CursorsBack
<1>5. part.sketches # {} => v >= 2
  BY <1>2, <1>3
<1>6. InPlace(v)
  BY <1>1, <1>4, <1>5, PayloadAccepted
<1>7. ASSUME NEW k \in SketchIds, cursor[k] > 1 PROVE v >= 3
  <2>1. RestoredCursor(a, k) = IF v >= 3 THEN cursor[k] ELSE 1
    BY <1>4, <1>5, EntityCursorsBack
  <2> QED
    BY <1>1, <1>7, <2>1
<1>8. ASSUME NEW s \in part.sketches, s.links # {} PROVE v >= 15
  <2> SUFFICES ASSUME ~(v >= 15) PROVE FALSE
    OBVIOUS
  <2>1. v >= 2
    BY <1>5
  <2>2. PICK t \in part.sketches : s = Sketched(SketchJson(v, t, cursor[t.id]))
    BY <1>2, <1>3, <2>1
  <2> DEFINE json == SketchJson(v, t, cursor[t.id])
  <2>3. v >= 15 <=> "projected_edges" \in DOMAIN json
    BY SketchFieldsWritten
  <2> HIDE DEF json
  <2>4. Sketched(json).links = {}
    BY <2>3 DEF Sketched, Links
  <2> QED
    BY <1>8, <2>2, <2>4 DEF json
<1> HIDE DEF a
<1>9. /\ \A d \in Offsets : d.kind = "offset"
      /\ \A d \in Edges : d.kind = "edge"
      /\ \A d \in Triples : d.kind = "points"
  BY DEF OffsetPlane, EdgePointPlane, ThreePointPlane
<1>10. /\ ~(v >= 17) => Edges = {}
       /\ ~(v >= 18) => Triples = {}
  BY <1>2
<1> HIDE DEF Offsets, Edges, Triples
<1>11. OfKind(part, "edge") # {} => v >= 17
  BY <1>3, <1>9, <1>10 DEF OfKind
<1>12. OfKind(part, "points") # {} => v >= 18
  BY <1>3, <1>9, <1>10 DEF OfKind
<1> QED
  BY <1>4, <1>5, <1>6, <1>7, <1>8, <1>11, <1>12 DEF Expressible, CursorsFit, InPlace

\* What commands can make of a Part is the same when it is saved and loaded
\* again; and the file of an older schema gives the Part back exactly when that
\* schema had a place for what is in it.
THEOREM FilesAlwaysLoadBack == Spec => []FilesLoadBack
<1>1. ASSUME PartInv PROVE FilesLoadBack
  <2>1. Current \in Schemas /\ Expressible(Current)
    BY DEF Current, Schemas, Expressible
  <2>2. Parses(File(Current)) /\ IsRestored(File(Current))
    BY <1>1, <2>1, ExpressibleLoads
  <2>3. Valid(Restored(File(Current)[Payload]))
    BY <1>1, <2>2 DEF IsRestored, PartInv, Sound
  <2>4. \A v \in Schemas : Expressible(v) <=> Parses(File(v)) /\ IsRestored(File(v))
    BY <1>1, ExpressibleLoads, LoadedExpressible
  <2> QED
    BY <2>2, <2>3, <2>4 DEF FilesLoadBack, Loads
<1> QED
  BY <1>1, PartInvAlways, PTL

-----------------------------------------------------------------------------
(* Chains of offset datum planes *)

\* The plane that an offset plane is offset from.
Below(d) == CHOOSE e \in OffsetDatums(part) : e.id = d.source.id

OnPlane(d) == d.source.kind = "datum"

Chain(d) == DatumChain(part.datums, d.id)

\* Where the chain ends: at the origin or on the body.
Ends(d) == {e \in Chain(d) : ~OnPlane(e)}

LEMMA OffsetSource ==
    ASSUME PartInv, NEW d \in OffsetDatums(part)
    PROVE  /\ d \in part.datums /\ d.source.kind \in {"origin", "surface", "datum"}
           /\ d.source.kind = "surface" =>
                  d.source = OnBody("surface", d.source.stage, d.source.producer)
           /\ OnPlane(d) => Below(d) \in OffsetDatums(part) /\ Below(d).id = d.source.id
<1>1. d \in part.datums /\ d.kind = "offset"
  BY DEF OffsetDatums
<1>2. GivenPlane(part, d.source)
  BY <1>1 DEF PartInv, Made, MadeDatum
<1>3. d.source.kind \in {"origin", "surface", "datum"}
  BY <1>2 DEF GivenPlane, GivenOnBody, OnBody
<1>4. d.source.kind = "surface" =>
          d.source = OnBody("surface", d.source.stage, d.source.producer)
  BY <1>2 DEF GivenPlane, GivenOnBody
<1>5. OnPlane(d) => \E e \in OffsetDatums(part) : e.id = d.source.id
  BY DEF PartInv, Sound, Valid, DatumsValid, OffsetDatumsValid, IdsOf, OnPlane
<1> QED
  BY <1>1, <1>3, <1>4, <1>5 DEF Below

LEMMA DatumUnique ==
    ASSUME PartInv, NEW d \in part.datums, NEW e \in part.datums, d.id = e.id PROVE d = e
BY DEF PartInv, Sound, Valid, DatumsValid, UniqueIds

\* With a plane the chain has the one below it.
LEMMA ChainClosed ==
    ASSUME PartInv, NEW d \in part.datums, NEW c \in Chain(d), OnPlane(c),
           NEW e \in part.datums, e.id = c.source.id
    PROVE  e \in Chain(d)
<1> DEFINE Closed(set) == \A x \in part.datums :
                              \/ x.id = d.id
                              \/ \E y \in set : y.source.kind = "datum" /\ y.source.id = x.id
                              => x \in set
<1>1. Chain(d) = {x \in part.datums : \A set \in SUBSET part.datums : Closed(set) => x \in set}
  BY DEF Chain, DatumChain
<1>2. ASSUME NEW set \in SUBSET part.datums, Closed(set) PROVE e \in set
  <2>1. c \in set
    BY <1>1, <1>2
  <2> QED
    BY <1>2, <2>1 DEF OnPlane
<1> QED
  BY <1>1, <1>2

\* And nothing else: what is closed holds the chain.
LEMMA ChainLeast ==
    ASSUME PartInv, NEW d \in part.datums, NEW set \in SUBSET part.datums, d \in set,
           \A c \in set, e \in part.datums : OnPlane(c) /\ e.id = c.source.id => e \in set
    PROVE  Chain(d) \subseteq set
<1>1. \A x \in part.datums : x.id = d.id => x \in set
  BY DatumUnique
<1> QED
  BY <1>1 DEF Chain, DatumChain, OnPlane

LEMMA ChainEnd ==
    ASSUME PartInv, NEW d \in part.datums, ~OnPlane(d) PROVE Chain(d) = {d}
<1>1. d \in Chain(d)
  BY ChainStarts DEF Chain
<1>2. Chain(d) \subseteq {d}
  <2>1. \A c \in {d}, e \in part.datums : OnPlane(c) /\ e.id = c.source.id => e \in {d}
    OBVIOUS
  <2>2. {d} \in SUBSET part.datums
    OBVIOUS
  <2> QED
    BY <2>1, <2>2, ChainLeast
<1> QED
  BY <1>1, <1>2

LEMMA ChainStep ==
    ASSUME PartInv, NEW d \in OffsetDatums(part), OnPlane(d)
    PROVE  Chain(d) = {d} \cup Chain(Below(d))
<1> DEFINE e == Below(d)
<1>1. d \in part.datums /\ e \in part.datums /\ e.id = d.source.id
  BY OffsetSource DEF OffsetDatums
<1> HIDE DEF e
<1>2. d \in Chain(d) /\ e \in Chain(e)
  BY <1>1, ChainStarts DEF Chain
<1>3. Chain(d) \subseteq part.datums /\ Chain(e) \subseteq part.datums
  BY DEF Chain, DatumChain
<1>4. e \in Chain(d)
  BY <1>1, <1>2, ChainClosed
<1>5. Chain(e) \subseteq Chain(d)
  <2>1. \A c \in Chain(d), x \in part.datums : OnPlane(c) /\ x.id = c.source.id => x \in Chain(d)
    BY <1>1, ChainClosed
  <2> QED
    BY <1>1, <1>3, <1>4, <2>1, ChainLeast
<1>6. Chain(d) \subseteq {d} \cup Chain(e)
  <2>1. ASSUME NEW c \in {d} \cup Chain(e), NEW x \in part.datums, OnPlane(c), x.id = c.source.id
        PROVE  x \in {d} \cup Chain(e)
    <3>1. CASE c = d
      <4>1. x = e
        BY <1>1, <2>1, <3>1, DatumUnique
      <4> QED
        BY <1>2, <4>1
    <3>2. CASE c \in Chain(e)
      BY <1>1, <2>1, <3>2, ChainClosed
    <3> QED
      BY <2>1, <3>1, <3>2
  <2>2. {d} \cup Chain(e) \in SUBSET part.datums
    BY <1>1, <1>3
  <2> QED
    BY <1>1, <2>1, <2>2, ChainLeast
<1> QED
  BY <1>2, <1>5, <1>6 DEF e

\* What no offset plane can be if the one below it is not, none is.
LEMMA NoLoop ==
    ASSUME PartInv, NEW loop \in SUBSET OffsetDatums(part),
           \A d \in loop : OnPlane(d) /\ Below(d) \in loop
    PROVE  loop = {}
<1>1. \A d \in loop : d.source.kind = "datum" /\ d.source.id \in IdsOf(loop)
  BY OffsetSource DEF OnPlane, IdsOf
<1> QED
  BY <1>1 DEF PartInv, Sound, Valid, DatumsValid, DatumsAcyclic

LEMMA ChainOffset ==
    ASSUME PartInv, NEW d \in OffsetDatums(part) PROVE Chain(d) \subseteq OffsetDatums(part)
<1>1. \A c \in OffsetDatums(part), e \in part.datums :
          OnPlane(c) /\ e.id = c.source.id => e \in OffsetDatums(part)
  <2> SUFFICES ASSUME NEW c \in OffsetDatums(part), NEW e \in part.datums,
                      OnPlane(c), e.id = c.source.id
               PROVE  e \in OffsetDatums(part)
    OBVIOUS
  <2>1. Below(c) \in OffsetDatums(part) /\ Below(c).id = c.source.id
    BY OffsetSource
  <2>2. Below(c) \in part.datums
    BY <2>1 DEF OffsetDatums
  <2>3. e = Below(c)
    BY <2>1, <2>2, DatumUnique
  <2> QED
    BY <2>1, <2>3
<1>2. d \in part.datums /\ OffsetDatums(part) \in SUBSET part.datums
  BY DEF OffsetDatums
<1> QED
  BY <1>1, <1>2, ChainLeast

\* A plane is not reached again from the one below it.
LEMMA NeverAgain ==
    ASSUME PartInv, NEW d \in OffsetDatums(part), OnPlane(d) PROVE d \notin Chain(Below(d))
<1> SUFFICES ASSUME d \in Chain(Below(d)) PROVE FALSE
  OBVIOUS
<1> DEFINE loop == {x \in Chain(d) : d \in Chain(x)}
<1>1. d \in part.datums /\ d \in Chain(d) /\ Chain(d) \subseteq OffsetDatums(part)
  BY ChainStarts, ChainOffset DEF OffsetDatums, Chain
<1>2. ASSUME NEW x \in loop PROVE OnPlane(x) /\ Below(x) \in loop
  <2>1. x \in OffsetDatums(part) /\ x \in part.datums
    BY <1>1 DEF OffsetDatums
  <2>2. OnPlane(x)
    <3>1. ~OnPlane(x) => Chain(x) = {x}
      BY <2>1, ChainEnd
    <3> QED
      BY <3>1
  <2>3. /\ Below(x) \in part.datums /\ Below(x).id = x.source.id
    BY <2>1, <2>2, OffsetSource DEF OffsetDatums
  <2>4. Below(x) \in Chain(d)
    BY <1>1, <2>2, <2>3, ChainClosed
  <2>5. d \in Chain(Below(x))
    <3>1. Chain(x) = {x} \cup Chain(Below(x))
      BY <2>1, <2>2, ChainStep
    <3> QED
      BY <3>1
  <2> QED
    BY <2>2, <2>4, <2>5
<1>3. loop \in SUBSET OffsetDatums(part)
  BY <1>1
<1>4. loop = {}
  BY <1>2, <1>3, NoLoop
<1> QED
  BY <1>1, <1>4

\* Every chain ends at one plane.
LEMMA OneEnd ==
    ASSUME PartInv, NEW d \in OffsetDatums(part)
    PROVE  \E e \in OffsetDatums(part) : Ends(d) = {e} /\ ~OnPlane(e)
<1> DEFINE One(x) == \E e \in OffsetDatums(part) : Ends(x) = {e} /\ ~OnPlane(e)
           loop == {x \in OffsetDatums(part) : ~One(x)}
<1>1. ASSUME NEW x \in loop PROVE OnPlane(x) /\ Below(x) \in loop
  <2>1. x \in part.datums /\ x \in OffsetDatums(part)
    BY DEF OffsetDatums
  <2>2. OnPlane(x)
    <3>1. ~OnPlane(x) => Chain(x) = {x}
      BY <2>1, ChainEnd
    <3> QED
      BY <2>1, <3>1 DEF Ends
  <2>3. Below(x) \in OffsetDatums(part)
    BY <2>2, OffsetSource
  <2>4. Ends(x) = Ends(Below(x))
    <3>1. Chain(x) = {x} \cup Chain(Below(x))
      BY <2>2, ChainStep
    <3> QED
      BY <2>2, <3>1 DEF Ends
  <2> QED
    BY <2>2, <2>3, <2>4
<1>2. loop = {}
  BY <1>1, NoLoop
<1> QED
  BY <1>2

-----------------------------------------------------------------------------
(* What is said of an offset plane *)

Cyclic == Unresolved("blocked", "cyclic_dependency", {})

\* The plane at the end of a chain.
AtEnd(done, d) ==
    IF d.source.kind = "origin" THEN Resolved({}) ELSE SurfaceOutcome(part, done, d.source)

\* One step of the Evaluator, out being what it says of the planes below.
Evaluated(done, out, at) ==
    LET d == at[1]
        waiting == at[2]
        before == {c \in OffsetDatums(part) : c.id = d.source.id}
    IN  IF d \in waiting THEN Unresolved("blocked", "cyclic_dependency", {})
        ELSE CASE d.source.kind = "origin" -> Resolved({})
               [] d.source.kind = "surface" -> SurfaceOutcome(part, done, d.source)
               [] OTHER ->
                    IF before = {} THEN Unresolved("missing", "missing_datum", {})
                    ELSE Upstream(out[<<CHOOSE c \in before : TRUE, waiting \cup {d}>>])

Walks == OffsetDatums(part) \X SUBSET OffsetDatums(part)

Evaluator(done, out) == out = [at \in Walks |-> Evaluated(done, out, at)]

LEMMA OffsetEvaluated ==
    ASSUME NEW done, NEW d
    PROVE  OffsetOutcome(part, done, d) = (CHOOSE out : Evaluator(done, out))[<<d, {}>>]
BY DEF OffsetOutcome, Evaluator, Evaluated, Walks

LEMMA EvaluatedStep ==
    ASSUME PartInv, NEW done, NEW out,
           NEW d \in OffsetDatums(part), NEW waiting
    PROVE  Evaluated(done, out, <<d, waiting>>) =
               IF d \in waiting THEN Cyclic
               ELSE IF ~OnPlane(d) THEN AtEnd(done, d)
               ELSE Upstream(out[<<Below(d), waiting \cup {d}>>])
<1> DEFINE before == {c \in OffsetDatums(part) : c.id = d.source.id}
           next == CHOOSE c \in before : TRUE
<1>1. Evaluated(done, out, <<d, waiting>>) =
          IF d \in waiting THEN Cyclic
          ELSE CASE d.source.kind = "origin" -> Resolved({})
                 [] d.source.kind = "surface" -> SurfaceOutcome(part, done, d.source)
                 [] OTHER ->
                      IF before = {} THEN Unresolved("missing", "missing_datum", {})
                      ELSE Upstream(out[<<next, waiting \cup {d}>>])
  BY DEF Evaluated, Cyclic
<1>2. d.source.kind \in {"origin", "surface", "datum"}
  BY OffsetSource
<1>3. ASSUME OnPlane(d) PROVE before # {} /\ next = Below(d)
  <2>1. Below(d) \in OffsetDatums(part) /\ Below(d).id = d.source.id
    BY <1>3, OffsetSource
  <2>2. \A c \in OffsetDatums(part) : c.id = d.source.id => c = Below(d)
    BY <2>1, DatumUnique DEF OffsetDatums
  <2>3. before = {Below(d)}
    BY <2>1, <2>2
  <2> HIDE DEF before
  <2> QED
    BY <2>3
<1> HIDE DEF before, next
<1>4. CASE d \in waiting
  BY <1>1, <1>4
<1>5. CASE d \notin waiting /\ ~OnPlane(d)
  BY <1>1, <1>2, <1>5 DEF OnPlane, AtEnd
<1>6. CASE d \notin waiting /\ OnPlane(d)
  BY <1>1, <1>3, <1>6 DEF OnPlane
<1> QED
  BY <1>4, <1>5, <1>6

LEMMA EvaluatorApplied ==
    ASSUME NEW done, NEW out, Evaluator(done, out),
           NEW d \in OffsetDatums(part), NEW waiting \in SUBSET OffsetDatums(part)
    PROVE  out[<<d, waiting>>] = Evaluated(done, out, <<d, waiting>>)
<1>1. <<d, waiting>> \in Walks
  BY DEF Walks
<1>2. out = [at \in Walks |-> Evaluated(done, out, at)]
  BY DEF Evaluator
<1> QED
  BY <1>1, <1>2

\* The planes below do not wait for the one that is evaluated, so that what is
\* said depends on the end of the chain and on whether it is waited for.
Said(done, at) ==
    IF Chain(at[1]) \cap at[2] # {} THEN Cyclic
    ELSE IF OnPlane(at[1]) THEN Upstream(AtEnd(done, CHOOSE e : e \in Ends(at[1])))
    ELSE AtEnd(done, at[1])

LEMMA UpstreamTwice ==
    /\ \A done, d : Upstream(Upstream(AtEnd(done, d))) = Upstream(AtEnd(done, d))
    /\ Upstream(Cyclic) = Cyclic
<1>1. \A o : Upstream(Upstream(o)) = Upstream(o)
  BY DEF Upstream, Resolved, Unresolved
<1>2. Upstream(Cyclic) = Cyclic
  BY DEF Upstream, Cyclic, Unresolved
<1> QED
  BY <1>1, <1>2

LEMMA SaidStep ==
    ASSUME PartInv, NEW done, NEW d \in OffsetDatums(part), OnPlane(d), NEW waiting, d \notin waiting
    PROVE  Said(done, <<d, waiting>>) = Upstream(Said(done, <<Below(d), waiting \cup {d}>>))
<1> DEFINE e == Below(d)
<1>1. e \in OffsetDatums(part) /\ e \in part.datums
  BY OffsetSource DEF OffsetDatums
<1>2. Chain(d) = {d} \cup Chain(e) /\ d \notin Chain(e)
  BY ChainStep, NeverAgain
<1> HIDE DEF e
<1>3. Chain(d) \cap waiting = Chain(e) \cap (waiting \cup {d})
  BY <1>2
<1>4. Ends(d) = Ends(e)
  BY <1>2 DEF Ends
<1> DEFINE end == CHOOSE x : x \in Ends(d)
<1>5. ~OnPlane(e) => end = e
  <2>1. ~OnPlane(e) => Chain(e) = {e}
    BY <1>1, ChainEnd
  <2>2. ~OnPlane(e) => Ends(d) = {e}
    BY <1>4, <2>1 DEF Ends
  <2> QED
    BY <2>2
<1>6. Said(done, <<d, waiting>>) =
          IF Chain(d) \cap waiting # {} THEN Cyclic ELSE Upstream(AtEnd(done, end))
  BY DEF Said
<1>7. Said(done, <<e, waiting \cup {d}>>) =
          IF Chain(d) \cap waiting # {} THEN Cyclic
          ELSE IF OnPlane(e) THEN Upstream(AtEnd(done, end))
          ELSE AtEnd(done, e)
  BY <1>3, <1>4 DEF Said
<1> HIDE DEF end
<1> QED
  BY <1>5, <1>6, <1>7, UpstreamTwice DEF e

LEMMA SaidEvaluated ==
    ASSUME PartInv, NEW done
    PROVE  Evaluator(done, [at \in Walks |-> Said(done, at)])
<1> DEFINE out == [at \in Walks |-> Said(done, at)]
<1>1. ASSUME NEW d \in OffsetDatums(part), NEW waiting \in SUBSET OffsetDatums(part)
      PROVE  Said(done, <<d, waiting>>) = Evaluated(done, out, <<d, waiting>>)
  <2>1. d \in part.datums /\ d \in Chain(d)
    BY ChainStarts DEF Chain, OffsetDatums
  <2>2. CASE d \in waiting
    <3>1. Said(done, <<d, waiting>>) = Cyclic
      BY <2>1, <2>2 DEF Said
    <3> QED
      BY <2>2, <3>1, EvaluatedStep
  <2>3. CASE d \notin waiting /\ ~OnPlane(d)
    <3>1. Chain(d) = {d}
      BY <2>1, <2>3, ChainEnd
    <3>2. Said(done, <<d, waiting>>) = AtEnd(done, d)
      BY <2>3, <3>1 DEF Said
    <3> QED
      BY <2>3, <3>2, EvaluatedStep
  <2>4. CASE d \notin waiting /\ OnPlane(d)
    <3>1. <<Below(d), waiting \cup {d}>> \in Walks
      BY <2>4, OffsetSource DEF Walks
    <3>2. out[<<Below(d), waiting \cup {d}>>] = Said(done, <<Below(d), waiting \cup {d}>>)
      BY <3>1
    <3> HIDE DEF out
    <3>3. Said(done, <<d, waiting>>) = Upstream(Said(done, <<Below(d), waiting \cup {d}>>))
      BY <2>4, SaidStep
    <3> QED
      BY <2>4, <3>2, <3>3, EvaluatedStep
  <2> QED
    BY <2>2, <2>3, <2>4
<1> HIDE DEF out
<1>2. \A at \in Walks : Said(done, at) = Evaluated(done, out, at)
  <2> SUFFICES ASSUME NEW at \in Walks PROVE Said(done, at) = Evaluated(done, out, at)
    OBVIOUS
  <2>1. PICK d \in OffsetDatums(part), waiting \in SUBSET OffsetDatums(part) : at = <<d, waiting>>
    BY DEF Walks
  <2> QED
    BY <1>1, <2>1
<1>3. out = [at \in Walks |-> Evaluated(done, out, at)]
  BY <1>2 DEF out
<1> QED
  BY <1>3 DEF Evaluator, out

\* There is only one such function: where two differ, they differ below.
LEMMA OffsetSaid ==
    ASSUME PartInv, NEW done, NEW d \in OffsetDatums(part)
    PROVE  OffsetOutcome(part, done, d) = Said(done, <<d, {}>>)
<1> DEFINE out == CHOOSE out : Evaluator(done, out)
           said == [at \in Walks |-> Said(done, at)]
           loop == {x \in OffsetDatums(part) : \E waiting \in SUBSET OffsetDatums(part) :
                       out[<<x, waiting>>] # said[<<x, waiting>>]}
<1>1. Evaluator(done, said)
  BY SaidEvaluated
<1> HIDE DEF said
<1>2. Evaluator(done, out)
  BY <1>1
<1>3. OffsetOutcome(part, done, d) = out[<<d, {}>>]
  BY OffsetEvaluated
<1> HIDE DEF out
<1>4. ASSUME NEW x \in loop PROVE OnPlane(x) /\ Below(x) \in loop
  <2>1. PICK waiting \in SUBSET OffsetDatums(part) : out[<<x, waiting>>] # said[<<x, waiting>>]
    OBVIOUS
  <2>2. x \in OffsetDatums(part)
    OBVIOUS
  <2>3. /\ out[<<x, waiting>>] = Evaluated(done, out, <<x, waiting>>)
        /\ said[<<x, waiting>>] = Evaluated(done, said, <<x, waiting>>)
    BY <1>1, <1>2, <2>2, EvaluatorApplied
  <2> DEFINE more == waiting \cup {x}
             Step(f) == IF x \in waiting THEN Cyclic
                        ELSE IF ~OnPlane(x) THEN AtEnd(done, x)
                        ELSE Upstream(f[<<Below(x), more>>])
  <2>4. /\ out[<<x, waiting>>] = Step(out)
        /\ said[<<x, waiting>>] = Step(said)
    <3>1. Evaluated(done, out, <<x, waiting>>) = Step(out)
      BY <2>2, EvaluatedStep
    <3>2. Evaluated(done, said, <<x, waiting>>) = Step(said)
      BY <2>2, EvaluatedStep
    <3> QED
      BY <2>3, <3>1, <3>2
  <2>5. more \in SUBSET OffsetDatums(part)
    BY <2>2
  <2>6. OnPlane(x) /\ out[<<Below(x), more>>] # said[<<Below(x), more>>]
    BY <2>1, <2>4
  <2>7. Below(x) \in OffsetDatums(part)
    BY <2>2, <2>6, OffsetSource
  <2> QED
    BY <2>5, <2>6, <2>7
<1>5. loop = {}
  BY <1>4, NoLoop
<1>6. <<d, {}>> \in Walks
  BY DEF Walks
<1>7. out[<<d, {}>>] = said[<<d, {}>>]
  BY <1>5
<1> QED
  BY <1>3, <1>6, <1>7 DEF said

-----------------------------------------------------------------------------
(* The stage that is said, and that it was evaluated *)

WellSaid(done, o) ==
    /\ o.status \in {"resolved", "blocked", "missing"}
    /\ o.status = "resolved" => \A f \in o.stage : StageUp(part, done, f)

LEMMA CatalogSaid ==
    ASSUME NEW done, NEW ref, NEW unavailable, NEW missing
    PROVE  LET o == InCatalog(part, done, ref, unavailable, missing)
           IN  /\ WellSaid(done, o) /\ o.stage = {ref.stage}
               /\ Found(part, ref, done) => o.status = "resolved"
<1> DEFINE o == InCatalog(part, done, ref, unavailable, missing)
<1>1. Found(part, ref, done) => StageUp(part, done, ref.stage)
  BY DEF Found, StageUp
<1>2. CASE ~StageUp(part, done, ref.stage)
  <2>1. o = Unresolved("blocked", unavailable, {ref.stage})
    BY <1>2 DEF InCatalog
  <2> HIDE DEF o
  <2> QED
    BY <1>1, <1>2, <2>1 DEF Unresolved, WellSaid, o
<1>3. CASE StageUp(part, done, ref.stage) /\ Found(part, ref, done)
  <2>1. o = Resolved({ref.stage})
    BY <1>3 DEF InCatalog
  <2> HIDE DEF o
  <2> QED
    BY <1>3, <2>1 DEF Resolved, WellSaid, o
<1>4. CASE StageUp(part, done, ref.stage) /\ ~Found(part, ref, done)
  <2>1. o = Unresolved("missing", missing, {ref.stage})
    BY <1>4 DEF InCatalog
  <2> HIDE DEF o
  <2> QED
    BY <1>4, <2>1 DEF Unresolved, WellSaid, o
<1> QED
  BY <1>2, <1>3, <1>4

\* An edge that is found on the body is found whatever it is asked for.
LEMMA EdgeSaid ==
    ASSUME NEW done, NEW ref
    PROVE  /\ WellSaid(done, EdgePointOutcome(part, done, ref))
           /\ EdgePointOutcome(part, done, ref).stage = {ref.stage}
           /\ Found(part, ref, done) => EdgePointOutcome(part, done, ref).status = "resolved"
           /\ WellSaid(done, StraightEdgeOutcome(part, done, ref))
           /\ StraightEdgeOutcome(part, done, ref).stage = {ref.stage}
           /\ Found(part, ref, done) => StraightEdgeOutcome(part, done, ref).status = "resolved"
<1> DEFINE edge == SelectedEdge(part, done, ref)
<1>1. /\ edge \in {"resolved", "invalid_context", "missing"}
      /\ edge = "resolved" <=> Found(part, ref, done)
      /\ edge = "resolved" => StageUp(part, done, ref.stage)
  BY DEF SelectedEdge, Found, StageUp
<1>2. EdgePointOutcome(part, done, ref) =
          CASE edge = "missing" -> Unresolved("missing", "edge_source_missing", {ref.stage})
            [] edge = "invalid_context" -> Unresolved("blocked", "invalid_datum", {ref.stage})
            [] OTHER -> Resolved({ref.stage})
  BY DEF EdgePointOutcome
<1>3. StraightEdgeOutcome(part, done, ref) =
          CASE edge = "missing" -> Unresolved("missing", "edge_source_missing", {ref.stage})
            [] edge = "invalid_context" ->
                  Unresolved("blocked", "stale_part_evaluation", {ref.stage})
            [] OTHER -> Resolved({ref.stage})
  BY DEF StraightEdgeOutcome
<1> HIDE DEF edge
<1>4. CASE edge = "missing"
  <2>1. /\ EdgePointOutcome(part, done, ref) =
               Unresolved("missing", "edge_source_missing", {ref.stage})
        /\ StraightEdgeOutcome(part, done, ref) =
               Unresolved("missing", "edge_source_missing", {ref.stage})
    BY <1>2, <1>3, <1>4
  <2> QED
    BY <1>1, <1>4, <2>1 DEF Unresolved, WellSaid
<1>5. CASE edge = "invalid_context"
  <2>1. /\ EdgePointOutcome(part, done, ref) =
               Unresolved("blocked", "invalid_datum", {ref.stage})
        /\ StraightEdgeOutcome(part, done, ref) =
               Unresolved("blocked", "stale_part_evaluation", {ref.stage})
    BY <1>2, <1>3, <1>5
  <2> QED
    BY <1>1, <1>5, <2>1 DEF Unresolved, WellSaid
<1>6. CASE edge = "resolved"
  <2>1. /\ EdgePointOutcome(part, done, ref) = Resolved({ref.stage})
        /\ StraightEdgeOutcome(part, done, ref) = Resolved({ref.stage})
    BY <1>2, <1>3, <1>6
  <2> QED
    BY <1>1, <1>6, <2>1 DEF Resolved, WellSaid
<1> QED
  BY <1>1, <1>4, <1>5, <1>6

\* What is said of a plane on others is what is said of the end of its chain.
LEMMA AtEndSaid ==
    ASSUME NEW done, NEW d
    PROVE  LET o == AtEnd(done, d)
           IN  /\ WellSaid(done, o)
               /\ o.stage = IF d.source.kind = "origin" THEN {} ELSE {d.source.stage}
               /\ (d.source.kind # "origin" => Found(part, d.source, done)) => o.status = "resolved"
<1> DEFINE o == AtEnd(done, d)
<1>1. CASE d.source.kind = "origin"
  <2>1. o = Resolved({})
    BY <1>1 DEF AtEnd
  <2> HIDE DEF o
  <2> QED
    BY <1>1, <2>1 DEF Resolved, WellSaid, o
<1>2. CASE d.source.kind # "origin"
  <2>1. o = InCatalog(part, done, d.source, "body_stage_unavailable", "missing_surface")
    BY <1>2 DEF AtEnd, SurfaceOutcome
  <2> DEFINE c == InCatalog(part, done, d.source, "body_stage_unavailable", "missing_surface")
  <2>2. /\ WellSaid(done, c) /\ c.stage = {d.source.stage}
        /\ Found(part, d.source, done) => c.status = "resolved"
    BY CatalogSaid
  <2> HIDE DEF c, o
  <2>3. o = c
    BY <2>1 DEF c
  <2> QED
    BY <1>2, <2>2, <2>3 DEF o
<1> QED
  BY <1>1, <1>2

LEMMA UpstreamSaid ==
    ASSUME NEW done, NEW o, WellSaid(done, o)
    PROVE  /\ WellSaid(done, Upstream(o)) /\ Upstream(o).stage = o.stage
           /\ Upstream(o).status = "resolved" <=> o.status = "resolved"
<1>1. CASE o.status = "resolved"
  <2>1. Upstream(o) = Resolved(o.stage)
    BY <1>1 DEF Upstream
  <2> QED
    BY <1>1, <2>1 DEF Resolved, WellSaid
<1>2. CASE o.status # "resolved"
  <2>1. PICK why : Upstream(o) = Unresolved("blocked", why, o.stage)
    BY <1>2 DEF Upstream
  <2> QED
    BY <1>2, <2>1 DEF Unresolved, WellSaid
<1> QED
  BY <1>1, <1>2

\* The stage of an offset plane is that of the end of its chain.
LEMMA OffsetPlaneSaid ==
    ASSUME PartInv, NEW done, NEW d \in OffsetDatums(part)
    PROVE  LET o == OffsetOutcome(part, done, d)
           IN  /\ WellSaid(done, o)
               /\ o.stage = StagesOf(part.datums, OnDatum(d.id))
               /\ (\A e \in Chain(d) : e.source.kind = "surface" => Found(part, e.source, done)) =>
                      o.status = "resolved"
<1> DEFINE o == OffsetOutcome(part, done, d)
           end == CHOOSE e : e \in Ends(d)
<1>1. end \in OffsetDatums(part) /\ Ends(d) = {end} /\ ~OnPlane(end)
  <2>1. PICK e \in OffsetDatums(part) : Ends(d) = {e} /\ ~OnPlane(e)
    BY OneEnd
  <2> QED
    BY <2>1
<1>2. ~OnPlane(d) => end = d
  <2>1. d \in part.datums
    BY DEF OffsetDatums
  <2>2. ~OnPlane(d) => Chain(d) = {d}
    BY <2>1, ChainEnd
  <2> HIDE DEF end
  <2> QED
    BY <1>1, <2>2 DEF Ends
<1>3. o = IF OnPlane(d) THEN Upstream(AtEnd(done, end)) ELSE AtEnd(done, d)
  <2>1. o = Said(done, <<d, {}>>)
    BY OffsetSaid
  <2>2. Said(done, <<d, {}>>) =
            IF OnPlane(d) THEN Upstream(AtEnd(done, end)) ELSE AtEnd(done, d)
    BY DEF Said
  <2> QED
    BY <2>1, <2>2
<1> HIDE DEF o, end
<1> DEFINE e == AtEnd(done, end)
<1>4. /\ WellSaid(done, e)
      /\ e.stage = IF end.source.kind = "origin" THEN {} ELSE {end.source.stage}
      /\ (end.source.kind # "origin" => Found(part, end.source, done)) => e.status = "resolved"
  BY AtEndSaid
<1> HIDE DEF e
<1>5. /\ WellSaid(done, o) /\ o.stage = e.stage
      /\ o.status = "resolved" <=> e.status = "resolved"
  <2>1. CASE OnPlane(d)
    BY <1>3, <1>4, <2>1, UpstreamSaid DEF e
  <2>2. CASE ~OnPlane(d)
    BY <1>2, <1>3, <1>4, <2>2 DEF e
  <2> QED
    BY <2>1, <2>2
<1>6. end.source.kind \in {"origin", "surface"}
  BY <1>1, OffsetSource DEF OnPlane
<1>7. StagesOf(part.datums, OnDatum(d.id)) =
          IF end.source.kind = "origin" THEN {} ELSE {end.source.stage}
  <2>1. StagesOf(part.datums, OnDatum(d.id)) =
            {c.source.stage : c \in {x \in Chain(d) : x.source.kind \notin {"origin", "datum"}}}
    BY DEF StagesOf, OnDatum, Chain
  <2>2. {x \in Chain(d) : x.source.kind \notin {"origin", "datum"}} =
            IF end.source.kind = "origin" THEN {} ELSE {end}
    BY <1>1, <1>6 DEF Ends, OnPlane
  <2> QED
    BY <2>1, <2>2
<1>8. end \in Chain(d)
  BY <1>1 DEF Ends
<1> QED
  BY <1>4, <1>5, <1>6, <1>7, <1>8 DEF o

LEMMA DatumSaid ==
    ASSUME PartInv, NEW done, NEW d \in part.datums
    PROVE  LET o == DatumOutcome(part, done, d)
           IN  /\ WellSaid(done, o)
               /\ o.stage = StagesOf(part.datums, OnDatum(d.id))
               /\ (\A e \in Chain(d) : e.source.kind \notin {"origin", "datum"} =>
                                          Found(part, e.source, done)) =>
                      o.status = "resolved"
<1>1. CASE d.kind = "offset"
  <2>1. d \in OffsetDatums(part)
    BY <1>1 DEF OffsetDatums
  <2>2. DatumOutcome(part, done, d) = OffsetOutcome(part, done, d)
    BY <1>1 DEF DatumOutcome
  <2> QED
    BY <2>1, <2>2, OffsetPlaneSaid
<1>2. CASE d.kind # "offset"
  <2>1. /\ d.kind \in {"edge", "points"}
        /\ d.source = OnBody(d.kind, d.source.stage, d.source.producer)
    BY <1>2 DEF PartInv, Made, MadeDatum, GivenOnBody
  <2>2. d.source.kind = d.kind
    BY <2>1 DEF OnBody
  <2>3. Chain(d) = {d}
    BY <2>1, <2>2, ChainEnd DEF OnPlane
  <2>4. StagesOf(part.datums, OnDatum(d.id)) = {d.source.stage}
    <3>1. StagesOf(part.datums, OnDatum(d.id)) =
              {c.source.stage : c \in {x \in Chain(d) : x.source.kind \notin {"origin", "datum"}}}
      BY DEF StagesOf, OnDatum, Chain
    <3>2. {x \in Chain(d) : x.source.kind \notin {"origin", "datum"}} = {d}
      BY <2>1, <2>2, <2>3
    <3> QED
      BY <3>1, <3>2
  <2> DEFINE o == DatumOutcome(part, done, d)
  <2>5. /\ WellSaid(done, o) /\ o.stage = {d.source.stage}
        /\ Found(part, d.source, done) => o.status = "resolved"
    <3>1. CASE d.kind = "edge"
      <4>1. o = EdgePointOutcome(part, done, d.source)
        BY <3>1 DEF DatumOutcome
      <4> QED
        BY <4>1, EdgeSaid
    <3>2. CASE d.kind = "points"
      <4>1. o = InCatalog(part, done, d.source, "body_stage_unavailable", "point_source_missing")
        BY <3>2 DEF DatumOutcome, ThreePointOutcome
      <4> QED
        BY <4>1, CatalogSaid
    <3> QED
      BY <2>1, <3>1, <3>2
  <2> HIDE DEF o
  <2>6. (\A e \in Chain(d) : e.source.kind \notin {"origin", "datum"} =>
                                Found(part, e.source, done)) => Found(part, d.source, done)
    BY <2>1, <2>2, <2>3
  <2> QED
    BY <2>4, <2>5, <2>6 DEF o
<1> QED
  BY <1>1, <1>2

\* What a sketch stands on, whatever it is.
LEMMA SupportSaid ==
    ASSUME PartInv, NEW done, NEW support, GivenPlane(part, support),
           support.kind = "datum" => support.id \in IdsOf(part.datums)
    PROVE  LET o == SupportOutcome(part, done, support)
           IN  /\ WellSaid(done, o)
               /\ o.stage = StagesOf(part.datums, support)
               /\ Placed(part, support, done) => o.status = "resolved"
<1> DEFINE o == SupportOutcome(part, done, support)
<1>1. CASE support.kind = "origin"
  <2>1. o = Resolved({})
    BY <1>1 DEF SupportOutcome
  <2>2. StagesOf(part.datums, support) = {}
    BY <1>1 DEF StagesOf
  <2> HIDE DEF o
  <2> QED
    BY <2>1, <2>2 DEF Resolved, WellSaid, o
<1>2. CASE support.kind = "datum"
  <2> DEFINE planes == {d \in part.datums : d.id = support.id}
  <2>1. PICK d \in part.datums : d.id = support.id
    BY <1>2 DEF IdsOf
  <2>2. planes = {d}
    BY <2>1, DatumUnique
  <2> DEFINE said == DatumOutcome(part, done, d)
             why == IF said.status = "missing" THEN "sketch_support_missing"
                    ELSE "sketch_support_blocked"
  <2>3. /\ WellSaid(done, said)
        /\ said.stage = StagesOf(part.datums, OnDatum(d.id))
        /\ (\A e \in Chain(d) : e.source.kind \notin {"origin", "datum"} =>
                                   Found(part, e.source, done)) => said.status = "resolved"
    BY DatumSaid
  <2>4. o = IF said.status \in {"missing", "blocked"}
            THEN Unresolved(said.status, why, said.stage) ELSE Resolved(said.stage)
    <3> DEFINE On(plane) ==
                   CASE plane.status = "missing" ->
                           Unresolved("missing", "sketch_support_missing", plane.stage)
                     [] plane.status = "blocked" ->
                           Unresolved("blocked", "sketch_support_blocked", plane.stage)
                     [] OTHER -> Resolved(plane.stage)
    <3>1. o = IF planes = {} THEN Unresolved("missing", "sketch_support_missing", {})
              ELSE On(DatumOutcome(part, done, CHOOSE x \in planes : TRUE))
      BY <1>2 DEF SupportOutcome
    <3> HIDE DEF planes, o
    <3>2. planes # {} /\ (CHOOSE x \in planes : TRUE) = d
      BY <2>2
    <3>3. o = On(said)
      BY <3>1, <3>2
    <3> HIDE DEF said
    <3>4. On(said) = IF said.status \in {"missing", "blocked"}
                     THEN Unresolved(said.status, why, said.stage) ELSE Resolved(said.stage)
      OBVIOUS
    <3> QED
      BY <3>3, <3>4
  <2>5. support = OnDatum(support.id)
    BY <1>2 DEF GivenPlane
  <2>6. said.stage = StagesOf(part.datums, support)
    BY <2>1, <2>3, <2>5
  <2>7. Placed(part, support, done) => said.status = "resolved"
    <3>1. Placed(part, support, done) =>
              \A e \in DatumChain(part.datums, support.id) :
                  e.source.kind \notin {"origin", "datum"} => Found(part, e.source, done)
      BY <1>2 DEF Placed
    <3>2. DatumChain(part.datums, support.id) = Chain(d)
      BY <2>1 DEF Chain
    <3> QED
      BY <2>3, <3>1, <3>2
  <2> HIDE DEF said, o, why
  <2>8. CASE said.status = "resolved"
    <3>1. o = Resolved(said.stage)
      BY <2>4, <2>8
    <3> QED
      BY <2>3, <2>6, <2>8, <3>1 DEF Resolved, WellSaid, o
  <2>9. CASE said.status # "resolved"
    <3>1. o = Unresolved(said.status, why, said.stage) /\ said.status \in {"missing", "blocked"}
      BY <2>3, <2>4, <2>9 DEF WellSaid
    <3> QED
      BY <2>6, <2>7, <2>9, <3>1 DEF Unresolved, WellSaid, o
  <2> QED
    BY <2>8, <2>9
<1>3. CASE support.kind \notin {"origin", "datum"}
  <2>1. support.kind = "surface"
    BY <1>3 DEF GivenPlane, GivenOnBody, OnBody
  <2> DEFINE c == InCatalog(part, done, support, "support_stage_unavailable",
                            "sketch_support_missing")
  <2>2. o = c
    BY <2>1 DEF SupportOutcome
  <2>3. /\ WellSaid(done, c) /\ c.stage = {support.stage}
        /\ Found(part, support, done) => c.status = "resolved"
    BY CatalogSaid
  <2>4. StagesOf(part.datums, support) = {support.stage}
    BY <2>1 DEF StagesOf
  <2>5. Placed(part, support, done) => Found(part, support, done)
    BY <2>1 DEF Placed
  <2> HIDE DEF c, o
  <2> QED
    BY <2>2, <2>3, <2>4, <2>5 DEF o
<1> QED
  BY <1>1, <1>2, <1>3

LEMMA SketchUnique ==
    ASSUME PartInv, NEW s \in part.sketches
    PROVE  /\ SketchOf(part, s.id) = {s}
           /\ GivenPlane(part, s.support)
           /\ s.support.kind = "datum" => s.support.id \in IdsOf(part.datums)
<1>1. /\ UniqueIds(part.sketches)
      /\ s.support.kind = "datum" => s.support.id \in IdsOf(part.datums)
  BY DEF PartInv, Sound, Valid, SketchesValid
<1>2. SketchOf(part, s.id) = {s}
  BY <1>1 DEF UniqueIds, SketchOf
<1> QED
  BY <1>1, <1>2, SketchLinked

\* A line of a sketch that has it is where the sketch stands.
LEMMA LineSaid ==
    ASSUME PartInv, NEW done, NEW s \in part.sketches, NEW source, source.sketch = s.id
    PROVE  LET o == LineOutcome(part, done, source)
           IN  /\ WellSaid(done, o)
               /\ source.entity \in s.entities =>
                      /\ o.stage = StagesOf(part.datums, s.support)
                      /\ Placed(part, s.support, done) => o.status = "resolved"
<1> DEFINE o == LineOutcome(part, done, source)
           of == SketchOf(part, source.sketch)
           t == CHOOSE x \in of : TRUE
<1>1. of = {s}
  BY SketchUnique
<1>2. o = IF of = {} THEN Unresolved("missing", "missing_sketch", {})
          ELSE IF source.entity \notin t.entities THEN Unresolved("missing", "missing_line", {})
          ELSE SupportOutcome(part, done, t.support)
  BY DEF LineOutcome
<1> HIDE DEF of, o
<1>3. of # {} /\ t = s
  BY <1>1
<1> HIDE DEF t
<1>4. o = IF source.entity \notin s.entities THEN Unresolved("missing", "missing_line", {})
          ELSE SupportOutcome(part, done, s.support)
  BY <1>2, <1>3
<1>5. CASE source.entity \notin s.entities
  <2>1. o = Unresolved("missing", "missing_line", {})
    BY <1>4, <1>5
  <2> QED
    BY <1>5, <2>1 DEF Unresolved, WellSaid, o
<1>6. CASE source.entity \in s.entities
  <2> DEFINE said == SupportOutcome(part, done, s.support)
  <2>1. /\ WellSaid(done, said)
        /\ said.stage = StagesOf(part.datums, s.support)
        /\ Placed(part, s.support, done) => said.status = "resolved"
    BY SketchUnique, SupportSaid
  <2>2. o = said
    BY <1>4, <1>6
  <2> HIDE DEF said
  <2> QED
    BY <2>1, <2>2 DEF o
<1> QED
  BY <1>5, <1>6

LEMMA AxisSaid ==
    ASSUME PartInv, NEW done, NEW a \in part.axes
    PROVE  /\ WellSaid(done, AxisOutcome(part, done, a))
           /\ \A s \in part.sketches :
                  /\ a.source.kind = "line" /\ a.source.sketch = s.id
                  /\ a.source.entity \in s.entities
                  => AxisOutcome(part, done, a).stage = StagesOf(part.datums, s.support)
<1>1. CASE a.source.kind = "line"
  <2>1. AxisOutcome(part, done, a) = LineOutcome(part, done, a.source)
    BY <1>1 DEF AxisOutcome
  <2>2. CASE \E s \in part.sketches : a.source.sketch = s.id
    <3>1. PICK s \in part.sketches : a.source.sketch = s.id
      BY <2>2
    <3>2. WellSaid(done, LineOutcome(part, done, a.source))
      BY <3>1, LineSaid
    <3>3. ASSUME NEW r \in part.sketches, a.source.sketch = r.id, a.source.entity \in r.entities
          PROVE  LineOutcome(part, done, a.source).stage = StagesOf(part.datums, r.support)
      BY <3>3, LineSaid
    <3> QED
      BY <2>1, <3>2, <3>3
  <2>3. CASE ~ \E s \in part.sketches : a.source.sketch = s.id
    <3>1. SketchOf(part, a.source.sketch) = {}
      BY <2>3 DEF SketchOf
    <3>2. LineOutcome(part, done, a.source) = Unresolved("missing", "missing_sketch", {})
      BY <3>1 DEF LineOutcome
    <3> QED
      BY <2>1, <2>3, <3>2 DEF Unresolved, WellSaid
  <2> QED
    BY <2>2, <2>3
<1>2. CASE a.source.kind = "edge"
  <2>1. AxisOutcome(part, done, a) = StraightEdgeOutcome(part, done, a.source)
    BY <1>2 DEF AxisOutcome
  <2> QED
    BY <1>2, <2>1, EdgeSaid
<1>3. CASE a.source.kind \notin {"line", "edge"}
  <2>1. AxisOutcome(part, done, a) = CylinderOutcome(part, done, a.source)
    BY <1>3 DEF AxisOutcome
  <2>2. CASE BodyUnavailable(part, done)
    <3>1. CylinderOutcome(part, done, a.source) =
              Unresolved("blocked", "stale_part_evaluation", {a.source.stage})
      BY <2>2 DEF CylinderOutcome
    <3> QED
      BY <1>3, <2>1, <3>1 DEF Unresolved, WellSaid
  <2>3. CASE ~BodyUnavailable(part, done)
    <3>1. CylinderOutcome(part, done, a.source) =
              InCatalog(part, done, a.source, "support_stage_unavailable",
                        "cylindrical_face_missing")
      BY <2>3 DEF CylinderOutcome
    <3> QED
      BY <1>3, <2>1, <3>1, CatalogSaid
  <2> QED
    BY <2>2, <2>3
<1> QED
  BY <1>1, <1>2, <1>3

-----------------------------------------------------------------------------
(* Where nothing is lost *)

\* Feature after feature, from the first one on.
FromTheFirst(done) ==
    /\ done \subseteq DOMAIN part.features
    /\ \A i \in done, j \in DOMAIN part.features : j <= i => j \in done

LEMMA ThereIs ==
    ASSUME NEW x, NEW y, <<x, y>> \in There
    PROVE  \/ x \in Counted /\ y \in Used(x)
           \/ \E s \in part.sketches : x = s.id /\ y \in s.entities
           \/ x \in {"profile", "axis"} /\ y = NoId
BY DEF There

\* What is referred to, and is not lost, is there.
LEMMA NothingLost ==
    ASSUME PartInv, Lost = {}
    PROVE  /\ \A r \in BodyReferences : Present(part, r.stage) /\ Present(part, r.producer)
           /\ \A i \in DOMAIN part.features :
                  /\ part.features[i].profile # NoId =>
                         part.features[i].profile \in IdsOf(part.profiles)
                  /\ part.features[i].axis # NoId => part.features[i].axis \in IdsOf(part.axes)
           /\ \A a \in part.axes : a.source.kind = "line" =>
                  \E s \in part.sketches : s.id = a.source.sketch /\ a.source.entity \in s.entities
           /\ \A p \in part.profiles : \A e \in p.uses :
                  \E s \in part.sketches : s.id = p.sketch /\ e \in s.entities
<1>1. Referred \subseteq There
  BY DEF Lost
<1>2. \A s \in part.sketches : s.id \in SketchIds
  BY ThereSketch
<1>3. SketchIds \cap Counted = {}
  BY StartsAssumption
<1>4. "feature" \notin SketchIds /\ "profile" \notin SketchIds /\ "axis" \notin SketchIds
  BY <1>3 DEF Counted
<1>5. ASSUME NEW id, <<"feature", id>> \in Referred PROVE Present(part, id)
  <2>1. id \in Used("feature")
    BY <1>1, <1>2, <1>4, <1>5, ThereIs
  <2> QED
    BY <2>1 DEF Used, Present, Positions
<1>6. ASSUME NEW r \in BodyReferences PROVE Present(part, r.stage) /\ Present(part, r.producer)
  <2>1. <<"feature", r.stage>> \in Referred /\ <<"feature", r.producer>> \in Referred
    BY DEF Referred
  <2> QED
    BY <1>5, <2>1
<1>7. ASSUME NEW i \in DOMAIN part.features
      PROVE  /\ part.features[i].profile # NoId =>
                    part.features[i].profile \in IdsOf(part.profiles)
             /\ part.features[i].axis # NoId => part.features[i].axis \in IdsOf(part.axes)
  <2>1. <<"profile", part.features[i].profile>> \in There
    BY <1>1 DEF Referred
  <2>2. <<"axis", part.features[i].axis>> \in There
    BY <1>1 DEF Referred
  <2>3. part.features[i].profile # NoId => part.features[i].profile \in Used("profile")
    BY <1>2, <1>4, <2>1, ThereIs
  <2>4. part.features[i].axis # NoId => part.features[i].axis \in Used("axis")
    BY <1>2, <1>4, <2>2, ThereIs
  <2> QED
    BY <2>3, <2>4 DEF Used
<1>8. ASSUME NEW k \in SketchIds, NEW e, <<k, e>> \in Referred
      PROVE  \E s \in part.sketches : s.id = k /\ e \in s.entities
  <2>1. k \notin Counted /\ k \notin {"profile", "axis"}
    BY <1>3, <1>4
  <2> QED
    BY <1>1, <1>8, <2>1, ThereIs
<1>9. ASSUME NEW a \in part.axes, a.source.kind = "line"
      PROVE  \E s \in part.sketches : s.id = a.source.sketch /\ a.source.entity \in s.entities
  <2>1. a.source.sketch \in SketchIds
    BY <1>9 DEF PartInv, Made, MadeAxis, GivenEntities
  <2>2. <<a.source.sketch, a.source.entity>> \in Referred
    BY <1>9 DEF Referred
  <2> QED
    BY <1>8, <2>1, <2>2
<1>10. ASSUME NEW p \in part.profiles, NEW e \in p.uses
       PROVE  \E s \in part.sketches : s.id = p.sketch /\ e \in s.entities
  <2>1. p.sketch \in SketchIds
    BY DEF PartInv, Made, MadeProfile, GivenEntities
  <2>2. <<p.sketch, e>> \in Referred
    BY DEF Referred
  <2> QED
    BY <1>8, <2>1, <2>2
<1> QED
  BY <1>6, <1>7, <1>9, <1>10

LEMMA ReferenceGiven ==
    ASSUME PartInv
    PROVE  /\ \A s \in part.sketches : s.support.kind = "surface" =>
                  s.support \in BodyReferences /\ Provenance(part, s.support)
           /\ \A s \in part.sketches : \A l \in s.links :
                  l.source \in BodyReferences /\ Provenance(part, l.source)
           /\ \A a \in part.axes : a.source.kind # "line" =>
                  a.source \in BodyReferences /\ Provenance(part, a.source)
           /\ \A d \in part.datums : d.source.kind \notin {"origin", "datum"} =>
                  d.source \in BodyReferences /\ Provenance(part, d.source)
           /\ \A i \in DOMAIN part.features : part.features[i].kind = "edges" =>
                  /\ part.features[i].edges \in BodyReferences
                  /\ Provenance(part, part.features[i].edges)
<1>1. ASSUME NEW s \in part.sketches, s.support.kind = "surface"
      PROVE  s.support \in BodyReferences /\ Provenance(part, s.support)
  <2>1. GivenPlane(part, s.support)
    BY SketchLinked
  <2>2. Provenance(part, s.support)
    BY <1>1, <2>1 DEF GivenPlane, GivenOnBody
  <2> QED
    BY <1>1, <2>2 DEF BodyReferences
<1>2. ASSUME NEW s \in part.sketches, NEW l \in s.links
      PROVE  l.source \in BodyReferences /\ Provenance(part, l.source)
  <2>1. Provenance(part, l.source)
    BY SketchLinked
  <2> QED
    BY <2>1 DEF BodyReferences
<1>3. ASSUME NEW a \in part.axes, a.source.kind # "line"
      PROVE  a.source \in BodyReferences /\ Provenance(part, a.source)
  <2>1. Provenance(part, a.source)
    BY <1>3 DEF PartInv, Made, MadeAxis, GivenOnBody
  <2> QED
    BY <1>3, <2>1 DEF BodyReferences
<1>4. ASSUME NEW d \in part.datums, d.source.kind \notin {"origin", "datum"}
      PROVE  d.source \in BodyReferences /\ Provenance(part, d.source)
  <2>1. MadeDatum(part, d)
    BY DEF PartInv, Made
  <2>2. Provenance(part, d.source)
    BY <1>4, <2>1 DEF MadeDatum, GivenPlane, GivenOnBody
  <2> QED
    BY <1>4, <2>2 DEF BodyReferences
<1>5. ASSUME NEW i \in DOMAIN part.features, part.features[i].kind = "edges"
      PROVE  /\ part.features[i].edges \in BodyReferences
             /\ Provenance(part, part.features[i].edges)
  <2>1. Provenance(part, part.features[i].edges)
    BY <1>5 DEF PartInv, Made, MadeFeature, GivenOnBody
  <2> QED
    BY <1>5, <2>1 DEF BodyReferences
<1> QED
  BY <1>1, <1>2, <1>3, <1>4, <1>5

\* A reference is found once its stage was built: the producer, which is not
\* younger, is not later in the history.
LEMMA ReferenceFound ==
    ASSUME PartInv, Lost = {}, NEW done, FromTheFirst(done),
           NEW ref \in BodyReferences, Provenance(part, ref),
           Positions(part, ref.stage) \subseteq done
    PROVE  Found(part, ref, done)
<1>1. Present(part, ref.stage) /\ Present(part, ref.producer)
  BY NothingLost
<1>2. PICK s \in DOMAIN part.features : part.features[s].id = ref.stage
  BY <1>1 DEF Present, Positions
<1>3. PICK p \in DOMAIN part.features : part.features[p].id = ref.producer
  BY <1>1 DEF Present, Positions
<1>4. s \in Nat /\ p \in Nat
  BY HistoryPositions DEF PartInv, Sound
<1>5. ref.stage \in Int /\ ref.producer \in Int /\ ref.producer <= ref.stage
  BY DEF Provenance, Allocated
<1>6. s < p => part.features[s].id < part.features[p].id
  BY DEF PartInv, Made
<1>7. p <= s
  BY <1>2, <1>3, <1>4, <1>5, <1>6
<1>8. s \in done /\ p \in done
  BY <1>2, <1>7 DEF Positions, FromTheFirst
<1> QED
  BY <1>2, <1>3, <1>7, <1>8 DEF Found

LEMMA SupportPlaced ==
    ASSUME PartInv, Lost = {}, NEW done, FromTheFirst(done), NEW s \in part.sketches,
           \A f \in StagesOf(part.datums, s.support) : Positions(part, f) \subseteq done
    PROVE  Placed(part, s.support, done)
<1>1. CASE s.support.kind = "surface"
  <2>1. s.support.stage \in StagesOf(part.datums, s.support)
    BY <1>1 DEF StagesOf
  <2>2. Found(part, s.support, done)
    BY <1>1, <2>1, ReferenceGiven, ReferenceFound
  <2> QED
    BY <1>1, <2>2 DEF Placed
<1>2. CASE s.support.kind = "datum"
  <2>1. s.support.id \in IdsOf(part.datums)
    BY <1>2, SketchUnique
  <2>2. ASSUME NEW d \in DatumChain(part.datums, s.support.id),
               d.source.kind \notin {"origin", "datum"}
        PROVE  Found(part, d.source, done)
    <3>1. d.source.stage \in StagesOf(part.datums, s.support)
      BY <1>2, <2>2 DEF StagesOf
    <3>2. d \in part.datums
      BY DEF DatumChain
    <3> QED
      BY <2>2, <3>1, <3>2, ReferenceGiven, ReferenceFound
  <2> QED
    BY <1>2, <2>1, <2>2 DEF Placed
<1>3. CASE s.support.kind \notin {"surface", "datum"}
  BY <1>3 DEF Placed
<1> QED
  BY <1>1, <1>2, <1>3

\* A feature has its inputs once all those before it were built.
LEMMA NothingMissing ==
    ASSUME PartInv, Lost = {}, NEW i \in DOMAIN part.features
    PROVE  Ready(part, part.features[i], {j \in DOMAIN part.features : j < i})
<1> DEFINE f == part.features[i]
           done == {j \in DOMAIN part.features : j < i}
<1>1. DOMAIN part.features \subseteq Nat
  BY HistoryPositions DEF PartInv, Sound
<1>2. FromTheFirst(done)
  BY <1>1 DEF FromTheFirst
<1>3. \A g : Before(part, g, i) => Positions(part, g) \subseteq done
  BY DEF Before, Positions
<1>4. ASSUME f.kind = "edges" PROVE EdgesFound(part, f.edges, done)
  <2>1. f.edges \in BodyReferences /\ Provenance(part, f.edges)
    BY <1>4, ReferenceGiven
  <2>2. EdgesValid(part, i)
    BY <1>4 DEF PartInv, Sound, Valid, FeaturesValid
  <2>3. \A j \in Positions(part, f.edges.stage) : j \in Nat /\ j + 1 = i
    BY <1>1, <2>2 DEF EdgesValid, Positions
  <2>4. Positions(part, f.edges.stage) \subseteq done
    BY <1>1, <2>3 DEF Positions
  <2>5. Present(part, f.edges.stage)
    BY <2>1, NothingLost
  <2>6. PICK s \in Positions(part, f.edges.stage) : TRUE
    BY <2>5 DEF Present
  <2>7. s \in done /\ \A j \in done : j <= s
    BY <1>1, <2>3, <2>4
  <2>8. Found(part, f.edges, done)
    BY <1>2, <2>1, <2>4, ReferenceFound
  <2>9. part.features[s].id = f.edges.stage
    BY DEF Positions
  <2> HIDE DEF f, done
  <2> QED
    BY <2>7, <2>8, <2>9 DEF EdgesFound
<1>5. ASSUME NEW s \in part.sketches,
             i \in ConsumersByProfile(part, s.id) \cup ConsumersByAxis(part, s.id)
      PROVE  Placed(part, s.support, done)
  <2>1. \A g \in StagesOf(part.datums, s.support) : Before(part, g, i)
    BY <1>5 DEF PartInv, Sound, Valid, SupportsOrdered
  <2>2. \A g \in StagesOf(part.datums, s.support) : Positions(part, g) \subseteq done
    BY <1>3, <2>1
  <2> HIDE DEF done
  <2> QED
    BY <1>2, <2>2, SupportPlaced
<1>6. ASSUME f.kind # "edges"
      PROVE  \E p \in part.profiles :
                 ConsumesProfile(f, p.id) /\ \E s \in SketchOf(part, p.sketch) :
                     Drawable(part, s, p.uses, done)
  <2>1. f.profile # NoId
    BY <1>6, ThereFeature DEF FeatureWritten
  <2>2. PICK p \in part.profiles : p.id = f.profile
    BY <2>1, NothingLost DEF IdsOf
  <2>3. ConsumesProfile(f, p.id)
    BY <2>1, <2>2 DEF ConsumesProfile
  <2>4. PICK s \in part.sketches : s.id = p.sketch
    BY DEF PartInv, Sound, Valid, ProfilesValid, IdsOf
  <2>5. SketchOf(part, p.sketch) = {s}
    BY <2>4, SketchUnique
  <2>6. p.uses \subseteq s.entities
    <3> SUFFICES ASSUME NEW e \in p.uses PROVE e \in s.entities
      OBVIOUS
    <3>1. PICK r \in part.sketches : r.id = p.sketch /\ e \in r.entities
      BY NothingLost
    <3>2. r \in SketchOf(part, p.sketch)
      BY <3>1 DEF SketchOf
    <3> QED
      BY <2>5, <3>1, <3>2
  <2>7. i \in ConsumersByProfile(part, s.id)
    BY <2>3, <2>4 DEF ConsumersByProfile
  <2>8. Placed(part, s.support, done)
    BY <1>5, <2>7
  <2>9. ASSUME NEW l \in s.links, l.entity \in p.uses PROVE Found(part, l.source, done)
    <3>1. Before(part, l.source.stage, i)
      BY <2>3, <2>4, <2>9 DEF PartInv, Sound, Valid, LinkedProfilesOrdered
    <3>2. Positions(part, l.source.stage) \subseteq done
      BY <1>3, <3>1
    <3>3. l.source \in BodyReferences /\ Provenance(part, l.source)
      BY ReferenceGiven
    <3> HIDE DEF done
    <3> QED
      BY <1>2, <3>2, <3>3, ReferenceFound
  <2>10. Drawable(part, s, p.uses, done)
    BY <2>6, <2>8, <2>9 DEF Drawable
  <2> HIDE DEF f, done
  <2> QED
    BY <2>3, <2>5, <2>10
<1>7. ASSUME f.axis # NoId
      PROVE  \E a \in part.axes : ConsumesAxis(f, a.id) /\ AxisFound(part, a, done)
  <2>1. PICK a \in part.axes : a.id = f.axis
    BY <1>7, NothingLost DEF IdsOf
  <2>2. ConsumesAxis(f, a.id)
    BY <1>7, <2>1 DEF ConsumesAxis
  <2>3. CASE a.source.kind = "line"
    <3>1. PICK s \in part.sketches : s.id = a.source.sketch /\ a.source.entity \in s.entities
      BY <2>3, NothingLost
    <3>2. i \in ConsumersByAxis(part, s.id)
      BY <2>2, <2>3, <3>1 DEF ConsumersByAxis
    <3>3. Placed(part, s.support, done)
      BY <1>5, <3>2
    <3>4. s \in SketchOf(part, a.source.sketch)
      BY <3>1 DEF SketchOf
    <3> HIDE DEF done
    <3>5. AxisFound(part, a, done)
      BY <2>3, <3>1, <3>3, <3>4 DEF AxisFound
    <3> QED
      BY <2>2, <3>5
  <2>4. CASE a.source.kind # "line"
    <3>1. Before(part, a.source.stage, i)
      BY <2>2, <2>4 DEF PartInv, Sound, Valid, BodyAxesOrdered
    <3>2. Positions(part, a.source.stage) \subseteq done
      BY <1>3, <3>1
    <3>3. a.source \in BodyReferences /\ Provenance(part, a.source)
      BY <2>4, ReferenceGiven
    <3> HIDE DEF done
    <3>4. Found(part, a.source, done)
      BY <1>2, <3>2, <3>3, ReferenceFound
    <3>5. AxisFound(part, a, done)
      BY <2>4, <3>4 DEF AxisFound
    <3> QED
      BY <2>2, <3>5
  <2> QED
    BY <2>3, <2>4
<1> HIDE DEF f, done
<1>8. Ready(part, f, done)
  BY <1>4, <1>6, <1>7 DEF Ready
<1> QED
  BY <1>8 DEF f, done

\* Then all of them are up to date,
LEMMA AllUpToDate ==
    ASSUME PartInv, Lost = {}, \A i \in DOMAIN part.features : ~part.features[i].suppressed
    PROVE  UpToDate(part) = DOMAIN part.features
<1> DEFINE live == {i \in DOMAIN part.features : ~part.features[i].suppressed}
           ready == {i \in live : Ready(part, part.features[i], {j \in live : j < i})}
<1>1. live = DOMAIN part.features
  OBVIOUS
<1>2. UpToDate(part) = {i \in live : \A j \in live : j <= i => j \in ready}
  BY DEF UpToDate
<1>3. \A i \in DOMAIN part.features :
          Ready(part, part.features[i], {j \in DOMAIN part.features : j < i})
  BY NothingMissing
<1> HIDE DEF live
<1>4. ready = live
  BY <1>1, <1>3
<1> HIDE DEF ready
<1> QED
  BY <1>1, <1>2, <1>4

\* and so is everything that is on the body.
LEMMA AllResolved ==
    ASSUME PartInv, Lost = {}, NEW done, done = DOMAIN part.features
    PROVE  /\ \A d \in part.datums : DatumOutcome(part, done, d).status = "resolved"
           /\ \A a \in part.axes : AxisOutcome(part, done, a).status = "resolved"
<1>1. FromTheFirst(done) /\ \A f : Positions(part, f) \subseteq done
  BY DEF FromTheFirst, Positions
<1>2. \A ref \in BodyReferences : Provenance(part, ref) => Found(part, ref, done)
  BY <1>1, ReferenceFound
<1>3. ASSUME NEW d \in part.datums PROVE DatumOutcome(part, done, d).status = "resolved"
  <2>1. \A e \in Chain(d) : e.source.kind \notin {"origin", "datum"} => Found(part, e.source, done)
    BY <1>2, ReferenceGiven DEF Chain, DatumChain
  <2> QED
    BY <2>1, DatumSaid
<1>4. ASSUME NEW a \in part.axes PROVE AxisOutcome(part, done, a).status = "resolved"
  <2>1. CASE a.source.kind = "line"
    <3>1. PICK s \in part.sketches : s.id = a.source.sketch /\ a.source.entity \in s.entities
      BY <2>1, NothingLost
    <3>2. Placed(part, s.support, done)
      BY <1>1, SupportPlaced
    <3>3. LineOutcome(part, done, a.source).status = "resolved"
      BY <3>1, <3>2, LineSaid
    <3> QED
      BY <2>1, <3>3 DEF AxisOutcome
  <2>2. CASE a.source.kind = "edge"
    <3>1. Found(part, a.source, done)
      BY <1>2, <2>2, ReferenceGiven
    <3>2. StraightEdgeOutcome(part, done, a.source).status = "resolved"
      BY <3>1, EdgeSaid
    <3> QED
      BY <2>2, <3>2 DEF AxisOutcome
  <2>3. CASE a.source.kind \notin {"line", "edge"}
    <3>1. Found(part, a.source, done)
      BY <1>2, <2>3, ReferenceGiven
    <3>2. ~BodyUnavailable(part, done)
      BY DEF BodyUnavailable
    <3> DEFINE c == InCatalog(part, done, a.source, "support_stage_unavailable",
                              "cylindrical_face_missing")
    <3>3. c.status = "resolved"
      BY <3>1, CatalogSaid
    <3>4. AxisOutcome(part, done, a) = c
      BY <2>3, <3>2 DEF AxisOutcome, CylinderOutcome
    <3> QED
      BY <3>3, <3>4
  <2> QED
    BY <2>1, <2>2, <2>3
<1> QED
  BY <1>3, <1>4

\* In every Part that commands can make: where nothing is lost or suppressed,
\* every feature is built and every plane and axis resolves; nothing is said to
\* be resolved on a stage that was not built; and the stage that is said is the
\* one by which validAuthoredState orders.
THEOREM EvaluationAlwaysAgrees == Spec => []EvaluationAgrees
<1>1. ASSUME PartInv PROVE EvaluationAgrees
  <2> DEFINE done == UpToDate(part)
             datum == [d \in part.datums |-> DatumOutcome(part, done, d)]
             axis == [a \in part.axes |-> AxisOutcome(part, done, a)]
             said == Range(datum) \cup Range(axis)
  <2>1. /\ \A d \in part.datums : datum[d] = DatumOutcome(part, done, d)
        /\ \A a \in part.axes : axis[a] = AxisOutcome(part, done, a)
    OBVIOUS
  <2>2. \A o \in said : \/ \E d \in part.datums : o = DatumOutcome(part, done, d)
                        \/ \E a \in part.axes : o = AxisOutcome(part, done, a)
    BY DEF Range
  <2>3. \A o \in said : WellSaid(done, o)
    <3>1. \A d \in part.datums : WellSaid(done, DatumOutcome(part, done, d))
      BY <1>1, DatumSaid
    <3>2. \A a \in part.axes : WellSaid(done, AxisOutcome(part, done, a))
      BY <1>1, AxisSaid
    <3> HIDE DEF said
    <3> QED
      BY <2>2, <3>1, <3>2
  <2>4. ASSUME Lost = {}, \A i \in DOMAIN part.features : ~part.features[i].suppressed
        PROVE  done = DOMAIN part.features /\ \A o \in said : o.status = "resolved"
    <3>1. done = DOMAIN part.features
      BY <1>1, <2>4, AllUpToDate
    <3>2. /\ \A d \in part.datums : DatumOutcome(part, done, d).status = "resolved"
          /\ \A a \in part.axes : AxisOutcome(part, done, a).status = "resolved"
      BY <1>1, <2>4, <3>1, AllResolved
    <3> HIDE DEF said, done
    <3> QED
      BY <2>2, <3>1, <3>2
  <2>5. \A d \in part.datums : datum[d].stage = StagesOf(part.datums, OnDatum(d.id))
    <3>1. \A d \in part.datums :
              DatumOutcome(part, done, d).stage = StagesOf(part.datums, OnDatum(d.id))
      BY <1>1, DatumSaid
    <3> HIDE DEF datum
    <3> QED
      BY <2>1, <3>1
  <2>6. \A a \in part.axes : \A s \in part.sketches :
            /\ a.source.kind = "line" /\ a.source.sketch = s.id
            /\ a.source.entity \in s.entities
            => axis[a].stage = StagesOf(part.datums, s.support)
    <3>1. \A a \in part.axes : \A s \in part.sketches :
              /\ a.source.kind = "line" /\ a.source.sketch = s.id
              /\ a.source.entity \in s.entities
              => AxisOutcome(part, done, a).stage = StagesOf(part.datums, s.support)
      BY <1>1, AxisSaid
    <3> HIDE DEF axis
    <3> QED
      BY <2>1, <3>1
  <2>7. \A o \in said : o.status = "resolved" => \A f \in o.stage : StageUp(part, done, f)
    BY <2>3 DEF WellSaid
  <2> QED
    BY <2>4, <2>5, <2>6, <2>7 DEF EvaluationAgrees
<1> QED
  BY <1>1, PartInvAlways, PTL
====
