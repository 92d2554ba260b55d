----------------------------- MODULE Workbench ------------------------------
(***************************************************************************)
(* The modelling tools of the CAD workbench over the active Part document. *)
(*                                                                         *)
(* Every tool keeps a transient context of its own beside the document:    *)
(* the drafts of an Axis, a Datum Plane, an Extrude, a Revolve and an edge *)
(* feature (Fillet or Chamfer), the pick of a profile for Extrude, the     *)
(* pick of a support for a sketch, the sketch being edited and the         *)
(* projection of edges into it.  What a draft holds is evaluated, at once  *)
(* or when a timer fires, shown in the viewport, and becomes authored when *)
(* the tool is finished.                                                   *)
(*                                                                         *)
(* A document is what UndoRedo says of a session, with its revision and    *)
(* the next identifier it gives out.  Its content is a set of objects.     *)
(* The contexts together are one record, the desk; the functions of the    *)
(* workbench that call one another are operators from desk to desk.        *)
(***************************************************************************)
EXTENDS Naturals, Sequences, FiniteSets

CONSTANTS
    Docs,           \* the open documents
    None,
    Values,         \* what a draft can hold: a source and its parameters
    Computable,     \* the values that the kernel can evaluate
    Seed,           \* the content each document is opened with
    MaxCreated,     \* identifiers run out
    MaxRevision,    \* and so do the revisions of each document
    MaxGeneration   \* how often a draft can be changed

Slots == {"axis", "datum", "extrude", "revolve", "edge"}

\* The solid features, whose previews share one view.
SolidSlots == {"extrude", "revolve", "edge"}

\* The drafts with a text field, evaluated when a timer fires after typing.
TypedSlots == Slots \ {"axis"}

\* The kinds of object each slot drafts: the constructors of its tool.
KindsOf ==
    [axis    |-> {"edgeAxis", "faceAxis", "lineAxis"},
     datum   |-> {"offset", "edgePoint", "threePoint"},
     extrude |-> {"extrude"},
     revolve |-> {"revolve"},
     edge    |-> {"fillet", "chamfer"}]

Kinds == UNION {KindsOf[s] : s \in Slots}

SlotOf(kind) == CHOOSE s \in Slots : kind \in KindsOf[s]

FeatureKinds == UNION {KindsOf[s] : s \in SolidSlots}

BodyAxes == {"edgeAxis", "faceAxis"}

Ids == Nat \ {0}

Objects == [id : Ids, kind : Kinds \cup {"sketch"}, value : Values]

ASSUME WorkbenchAssumption ==
    /\ Computable \subseteq Values
    /\ Seed \in [Docs -> SUBSET Objects]
    /\ \A d \in Docs : /\ IsFiniteSet(Seed[d])
                       /\ \A o, p \in Seed[d] : o.id = p.id => o = p
    /\ MaxCreated \in Nat /\ MaxRevision \in [Docs -> Nat \ {0}]
    /\ MaxGeneration \in Nat \ {0, 1}
    /\ None \notin Docs /\ None \notin Values

VARIABLES
    active,     \* the document whose tab is in front, or None
    part,       \* [Docs -> its revision, timeline, position, next identifier]
    desk        \* the contexts of the tools and what the viewport shows

vars == <<active, part, desk>>

-----------------------------------------------------------------------------
(* The document *)

Part == part[active]
Content(p) == p.timeline[p.position]
Full == Part.revision = MaxRevision[active]
Room == Part.next <= Cardinality(Seed[active]) + MaxCreated

\* The document after a command that leaves it with another content; one
\* that comes to nothing changes nothing.
Committed(p, content) ==
    IF content = Content(p) THEN p
    ELSE [p EXCEPT
            !.revision = @ + 1,
            !.timeline = Append(SubSeq(@, 1, p.position), content),
            !.position = @ + 1]

Moved(p, position) ==
    [p EXCEPT !.revision = @ + 1, !.position = position]

Find(p, id) == {o \in Content(p) : o.id = id}

Sketches(p) == {o.id : o \in {q \in Content(p) : q.kind = "sketch"}}

-----------------------------------------------------------------------------
(* Drafts and evaluations *)

\* A new draft is at generation 1; target is the object it edits.
NewDraft(kind, target, value) ==
    [doc |-> active, kind |-> kind, target |-> target, value |-> value,
     revision |-> Part.revision, generation |-> 1]

\* A setter of the draft: an equal value changes nothing, and a draft whose
\* generation has run out refuses.
Settable(d, value) == d.value = value \/ d.generation < MaxGeneration

Set(d, value) ==
    IF d.value = value THEN d
    ELSE [d EXCEPT !.value = value, !.generation = @ + 1]

\* The session evaluates a draft only at the revision it was begun at.
Evaluate(p, d) ==
    [revision |-> d.revision, generation |-> d.generation,
     ok |-> d.revision = p.revision /\ d.value \in Computable]

\* Finish takes a draft of the current revision with the successful
\* evaluation of exactly this draft.
Acceptable(p, d, e) ==
    /\ d.doc = active
    /\ d.revision = p.revision
    /\ d.value # None
    /\ e # None
    /\ e.ok
    /\ e.revision = d.revision
    /\ e.generation = d.generation

\* The command a finished draft turns into.  A created object takes the next
\* identifier; an edited one keeps its own.
Executed(p, d) ==
    LET id == IF d.target = None THEN p.next ELSE d.target
        object == [id |-> id, kind |-> d.kind, value |-> d.value]
        content == (Content(p) \ Find(p, id)) \cup {object}
    IN  [Committed(p, content) EXCEPT
            !.next = IF d.target = None THEN @ + 1 ELSE @]

Executable(d) ==
    ~Full /\ (d.target = None => Room)

-----------------------------------------------------------------------------
(* The desk *)

ViewOf(s) == IF s \in SolidSlots THEN "solid" ELSE s
Views == {ViewOf(s) : s \in Slots}

Empty ==
    [draft |-> [s \in Slots |-> None],      \* the live draft of each tool
     eval |-> [s \in Slots |-> None],       \* its last evaluation
     fits |-> [s \in Slots |-> TRUE],       \* whether its input is usable
     armed |-> {},                          \* the drafts whose timer runs
     shown |-> [w \in Views |-> None],      \* the previews
     edges |-> FALSE,                       \* the viewport picks edges
     faces |-> FALSE,                       \* the viewport picks only faces
     picking |-> FALSE,                     \* Extrude waits for a profile
     support |-> None,                      \* a sketch waits for a support
     sketch |-> None,                       \* the sketch being edited
     project |-> None]                      \* edges being projected into it

Live(k, s) == k.draft[s] # None

\* The contexts that are open, as the guards of the tools name them.
Open(k) ==
    {k.draft[s].kind : s \in {t \in Slots : Live(k, t)}}
        \cup (IF k.picking THEN {"profilePick"} ELSE {})
        \cup (IF k.support # None THEN {"support"} ELSE {})
        \cup (IF k.sketch # None THEN {"sketch"} ELSE {})
        \cup (IF k.project # None THEN {"project"} ELSE {})

\* A tool has evaluated its draft anew: its timer stops, and its view shows
\* the outcome, or nothing.
Presented(k, s, e, visible) ==
    [k EXCEPT
        !.eval[s] = e,
        !.armed = @ \ {s},
        !.shown[ViewOf(s)] =
            IF visible /\ e # None
            THEN IF e.ok THEN [slot |-> s, generation |-> e.generation] ELSE None
            ELSE None]

\* Of axes, only one on the body has a preview, and only while its source is
\* of its constructor.
RefreshAxis(k, p) ==
    LET d == k.draft.axis
        e == IF d = None THEN None ELSE Evaluate(p, d)
        visible == IF d = None THEN FALSE
                   ELSE d.kind \in BodyAxes /\ k.fits.axis
    IN  Presented(k, "axis", e, visible)

\* A datum plane needs its source and a usable offset to be evaluated.
RefreshDatumPlane(k, p) ==
    LET d == k.draft.datum
        e == IF d = None \/ ~k.fits.datum THEN None
             ELSE IF d.value = None THEN None ELSE Evaluate(p, d)
    IN  Presented(k, "datum", e, TRUE)

\* A solid feature needs a usable parameter.
RefreshSolid(k, p, s) ==
    LET d == k.draft[s]
        e == IF d = None \/ ~k.fits[s] THEN None ELSE Evaluate(p, d)
    IN  Presented(k, s, e, TRUE)

RefreshExtrude(k, p) == RefreshSolid(k, p, "extrude")
RefreshRevolve(k, p) == RefreshSolid(k, p, "revolve")
RefreshEdgeFeature(k, p) == RefreshSolid(k, p, "edge")

Refreshed(k, p, s) ==
    CASE s = "axis" -> RefreshAxis(k, p)
      [] s = "datum" -> RefreshDatumPlane(k, p)
      [] s = "extrude" -> RefreshExtrude(k, p)
      [] s = "revolve" -> RefreshRevolve(k, p)
      [] s = "edge" -> RefreshEdgeFeature(k, p)

\* A pending evaluation is made now.
Flushed(k, p, s) == IF s \in k.armed THEN Refreshed(k, p, s) ELSE k

\* Mutant: the preview stays.
ClosedShown(k, s) ==
    [k EXCEPT !.draft[s] = None, !.eval[s] = None, !.fits[s] = TRUE,
              !.armed = @ \ {s}]

Closed(k, s) ==
    [k EXCEPT !.draft[s] = None, !.eval[s] = None, !.fits[s] = TRUE,
              !.armed = @ \ {s}, !.shown[ViewOf(s)] = None]

ClearAxis(k) == [Closed(k, "axis") EXCEPT !.edges = FALSE, !.faces = FALSE]
ClearDatumPlane(k) == [Closed(k, "datum") EXCEPT !.faces = FALSE]
ClearExtrude(k) == [Closed(k, "extrude") EXCEPT !.picking = FALSE]
ClearRevolve(k) == Closed(k, "revolve")
ClearEdgeFeature(k) == [Closed(k, "edge") EXCEPT !.edges = FALSE]

ClearProject(k) ==
    IF k.project = None THEN k
    ELSE [k EXCEPT !.project = None, !.edges = FALSE, !.faces = FALSE]

ClearSketch(k) ==
    [ClearProject(k) EXCEPT !.support = None, !.sketch = None,
                            !.faces = FALSE]

\* Mutant: a new tool that the change of documents does not know of.
ClearAllButRevolve(k) ==
    ClearSketch(ClearProject(ClearEdgeFeature(ClearExtrude(
        ClearDatumPlane(ClearAxis(k))))))

ClearAll(k) ==
    ClearSketch(ClearProject(ClearEdgeFeature(ClearRevolve(ClearExtrude(
        ClearDatumPlane(ClearAxis(k)))))))

\* A sketch that the document no longer has is no longer edited.
Reconciled(k, p) ==
    IF k.sketch = None \/ k.sketch \in Sketches(p) THEN k ELSE ClearSketch(k)

\* Mutant: an edge feature is not evaluated again.
ActiveContextWithoutEdge(k, p) ==
    LET live(l, s) == IF Live(l, s) THEN Refreshed(l, p, s) ELSE l
    IN  live(live(live(live(Reconciled(k, p),
            "axis"), "datum"), "extrude"), "revolve")

\* After the document changed under the tools, every live draft is
\* evaluated again; of the solid features the last one is shown.
ActiveContext(k, p) ==
    LET live(l, s) == IF Live(l, s) THEN Refreshed(l, p, s) ELSE l
    IN  live(live(live(live(live(Reconciled(k, p),
            "axis"), "datum"), "extrude"), "revolve"), "edge")

-----------------------------------------------------------------------------
(* Documents and history *)

Init ==
    /\ active = None
    /\ part = [d \in Docs |->
                 [revision |-> 1, timeline |-> <<Seed[d]>>, position |-> 1,
                  next |-> Cardinality(Seed[d]) + 1]]
    /\ desk = Empty

\* Nothing was asked of the document.
Desk(k) == desk' = k /\ UNCHANGED <<active, part>>

\* The document changed, and the contexts with it.
Author(p, k) ==
    /\ part' = [part EXCEPT ![active] = p]
    /\ desk' = k
    /\ UNCHANGED active

\* A command that does not touch the objects: properties, visibility, the
\* geometry of a sketch.
Recorded(p) ==
    [p EXCEPT !.revision = @ + 1,
              !.timeline = Append(SubSeq(@, 1, p.position), Content(p)),
              !.position = @ + 1]

\* Another tab: the contexts of the document that was in front are dropped.
ActivateDocument(d) ==
    /\ active' = d
    /\ desk' = IF d = active THEN ActiveContext(desk, part[d])
               ELSE ActiveContext(ClearAll(desk), part[d])
    /\ UNCHANGED part

DeactivateDocument ==
    /\ active' = None
    /\ desk' = ClearAll(desk)
    /\ UNCHANGED part

ApplyProperties ==
    /\ ~Full
    /\ LET p == Recorded(Part) IN Author(p, ActiveContext(desk, p))

Save == Desk(ActiveContext(desk, Part))

\* The keys for Undo and Redo are not bound to the buttons, which are
\* disabled while a tool is open.  A projection is given up first.
Travel(position) ==
    /\ ~Full
    /\ LET k == ClearProject(desk)
           p == IF position \in DOMAIN Part.timeline
                THEN Moved(Part, position) ELSE Part
       IN  Author(p, ActiveContext(k, p))

Undo == Travel(Part.position - 1)
Redo == Travel(Part.position + 1)

-----------------------------------------------------------------------------
(* Starting a tool *)

Drafting == {"extrude", "revolve"}
EdgeKinds == {"fillet", "chamfer"}
Waiting == {"profilePick", "support"}

\* What most tools refuse to start beside, whichever way they are called.
Busy == Drafting \cup KindsOf.axis \cup Waiting \cup {"offset", "sketch"}

Free(blockers) == Open(desk) \cap blockers = {}

\* A button is enabled only while no context is open, and a typed command is
\* only heard as one while none but a sketch is.
Offered == Open(desk) \subseteq {"sketch"}

\* The viewport leaves the face filter when it starts to pick edges.
EdgeMode(k) == IF k.edges THEN k ELSE [k EXCEPT !.edges = TRUE, !.faces = FALSE]

PickFaces(k, on) == [k EXCEPT !.faces = on]

\* How the viewport picks for a draft of this kind.
PickModes(k, kind) ==
    CASE kind \in BodyAxes -> PickFaces(EdgeMode(k), kind = "faceAxis")
      [] kind \in KindsOf.datum -> PickFaces(k, kind = "offset")
      [] kind \in EdgeKinds -> EdgeMode(k)
      [] OTHER -> k

\* A tool takes a draft up: it replaces the one its slot held.
Begun(k, d) ==
    LET s == SlotOf(d.kind)
        l == [k EXCEPT !.draft[s] = d, !.fits[s] = TRUE]
    IN  Refreshed(PickModes(l, d.kind), Part, s)

\* To create an object; what is preselected may complete the draft at once.
Created(k, kind, value) == Begun(k, Set(NewDraft(kind, None, None), value))

\* The tree opens the edit of what is double-clicked; the guards are those of
\* the tool alone.
Edited(k, o) == Begun(k, NewDraft(o.kind, o.id, o.value))

\* In a sketch the axis is one of its lines, else it is one of the body.
StartAxisTool(value) ==
    /\ Offered
    /\ Free(Drafting \cup Waiting \cup {"offset"})
    /\ LET kind == IF desk.sketch = None THEN "edgeAxis" ELSE "lineAxis"
       IN  Desk(Created(desk, kind, value))

\* The edit of a line axis takes its user into the sketch, unless an edge
\* feature keeps sketches closed.
StartAxisEdit(o) ==
    /\ o.kind \in KindsOf.axis
    /\ Free(Drafting \cup Waiting \cup {"offset"})
    /\ o.kind \in BodyAxes => desk.sketch = None
    /\ \E id \in IF o.kind = "lineAxis" /\ desk.sketch = None /\ Free(EdgeKinds)
                 THEN Sketches(Part) \cup {None} ELSE {desk.sketch} :
         Desk([Edited(desk, o) EXCEPT !.sketch = id])

StartDatumPlaneTool(value) ==
    /\ Offered
    /\ Free(Kinds \cup Waiting \cup {"sketch"})
    /\ Desk(Created(desk, "offset", value))

StartDatumPlaneEdit(o) ==
    /\ o.kind \in KindsOf.datum
    /\ Free(Kinds \cup Waiting \cup {"sketch"})
    /\ Desk(Edited(desk, o))

\* A draft opens with a default distance on the valid profile selected.
StartExtrudeFromSelectedProfile(value) ==
    /\ Free(Drafting \cup {"offset", "sketch", "support"})
    /\ Desk(Created([desk EXCEPT !.picking = FALSE], "extrude", value))

\* Without one the tool waits for it.
StartExtrudeTool ==
    /\ Offered
    /\ Free(Busy \ {"profilePick"})
    /\ \/ \E value \in Values : StartExtrudeFromSelectedProfile(value)
       \/ Desk([desk EXCEPT !.picking = TRUE])

TryCompleteExtrudeProfilePick(value) ==
    /\ desk.picking
    /\ StartExtrudeFromSelectedProfile(value)

CancelExtrudeProfilePick ==
    /\ desk.picking
    /\ Desk([desk EXCEPT !.picking = FALSE])

StartExtrudeEdit(o) ==
    /\ o.kind = "extrude"
    /\ Free(Busy)
    /\ Desk(Edited(desk, o))

StartRevolveTool(value) ==
    /\ Offered
    /\ Free(Busy)
    /\ Desk(Created(desk, "revolve", value))

StartRevolveEdit(o) ==
    /\ o.kind = "revolve"
    /\ Free(Busy)
    /\ Desk(Edited(desk, o))

\* An edge feature needs a body, and a parameter that is never preselected.
HasBody == \E o \in Content(Part) : o.kind \in FeatureKinds

StartFilletTool ==
    /\ Offered /\ HasBody
    /\ Free(Busy \cup EdgeKinds)
    /\ Desk(Created(desk, "fillet", None))

StartChamferTool ==
    /\ Offered /\ HasBody
    /\ Free(Busy \cup EdgeKinds)
    /\ Desk(Created(desk, "chamfer", None))

\* The exact stage under the feature, or its edges, may be unavailable.
StartEdgeFeatureEdit(o) ==
    /\ o.kind \in EdgeKinds
    /\ Free(Busy \cup EdgeKinds)
    /\ \/ Desk(Edited(desk, o))
       \/ Desk(ClearEdgeFeature(desk))

-----------------------------------------------------------------------------
(* Changing a draft *)

Change(s, value) == [desk EXCEPT !.draft[s] = Set(@, value)]

\* A source or an option is picked.
Pick(s, value) ==
    /\ Settable(desk.draft[s], value)
    /\ Desk(Refreshed(Change(s, value), Part, s))

StageAxisSource(value) ==
    /\ "lineAxis" \in Open(desk)
    /\ Pick("axis", value)

\* Sources on the body are taken only at the revision of the draft.  A face
\* that is no cylinder leaves the source of before, unusable.
StageAxisFromBodyTopology(value) ==
    /\ Open(desk) \cap BodyAxes # {}
    /\ LET d == desk.draft.axis
           k == [desk EXCEPT !.draft.axis = Set(d, value), !.fits.axis = TRUE]
       IN  /\ d.revision = Part.revision
           /\ \/ Settable(d, value) /\ Desk(RefreshAxis(k, Part))
              \/ /\ d.kind = "faceAxis"
                 /\ Desk(RefreshAxis([desk EXCEPT !.fits.axis = FALSE], Part))

StageDatumPlaneSource(value) ==
    /\ "offset" \in Open(desk)
    /\ Pick("datum", value)

StageEdgeDatum(value) ==
    /\ "edgePoint" \in Open(desk)
    /\ desk.draft.datum.revision = Part.revision
    /\ Pick("datum", value)

StageThreePointDatum(value) ==
    /\ "threePoint" \in Open(desk)
    /\ desk.draft.datum.revision = Part.revision
    /\ Pick("datum", value)

SetExtrudeOption(value) == Live(desk, "extrude") /\ Pick("extrude", value)
StageRevolveSource(value) == Live(desk, "revolve") /\ Pick("revolve", value)
StageEdgeFeatureSelection(value) == Live(desk, "edge") /\ Pick("edge", value)

\* Mutant: typing does not start the timer.
SetParameterUnarmed(s, value, now) ==
    /\ Live(desk, s)
    /\ Settable(desk.draft[s], value)
    /\ LET k == [Change(s, value) EXCEPT !.fits[s] = TRUE, !.eval[s] = None]
       IN  Desk(IF now THEN Refreshed(k, Part, s) ELSE k)

\* A parameter typed into the panel of the tool is evaluated when the typing
\* pauses; on the command line it is evaluated at once.
SetParameter(s, value, now) ==
    /\ Live(desk, s)
    /\ Settable(desk.draft[s], value)
    /\ LET k == [Change(s, value) EXCEPT !.fits[s] = TRUE, !.eval[s] = None]
       IN  Desk(IF now THEN Refreshed(k, Part, s)
                ELSE [k EXCEPT !.armed = @ \cup {s}])

\* Text that is no parameter.
Misfit(s) ==
    /\ Live(desk, s)
    /\ Desk([desk EXCEPT !.fits[s] = FALSE, !.eval[s] = None,
                         !.armed = @ \ {s}, !.shown[ViewOf(s)] = None])

SetDatumPlaneOffset(value, now) ==
    /\ "offset" \in Open(desk)
    /\ SetParameter("datum", value, now)

MisfitDatumPlaneOffset == "offset" \in Open(desk) /\ Misfit("datum")

SetExtrudeDistance(value, now) == SetParameter("extrude", value, now)
SetRevolveAngle(value, now) == SetParameter("revolve", value, now)
SetEdgeFeatureParameter(value, now) == SetParameter("edge", value, now)

\* The timer fires.
Settle(s) ==
    /\ s \in desk.armed
    /\ Desk(Refreshed(desk, Part, s))

\* The constructor of a new axis is a new draft; an edited axis keeps its
\* source, which no longer fits, until another is picked.
SelectAxisConstructor ==
    /\ Open(desk) \cap BodyAxes # {}
    /\ LET d == desk.draft.axis
           other == CHOOSE kind \in BodyAxes : kind # d.kind
           k == [desk EXCEPT
                   !.draft.axis = IF d.target = None
                                  THEN NewDraft(other, None, None)
                                  ELSE [d EXCEPT !.kind = other],
                   !.fits.axis = (d.target = None),
                   !.faces = (other = "faceAxis")]
       IN  Desk(RefreshAxis(k, Part))

\* Another constructor of a datum plane is a new datum plane.  The edits of
\* the constructors from edges and points do not offer the choice.
SelectDatumPlaneConstructor(kind) ==
    /\ Live(desk, "datum")
    /\ kind # desk.draft.datum.kind
    /\ desk.draft.datum.kind # "offset" => desk.draft.datum.target = None
    /\ Desk(Created(desk, kind, None))

-----------------------------------------------------------------------------
(* Finishing, cancelling, deleting *)

\* Mutant: Finish does not wait for the timer.
PreparedUnflushed(s) ==
    IF s = "axis" THEN RefreshAxis(desk, Part) ELSE desk

\* Before it finishes a tool makes the evaluation it still owes; Axis makes
\* one in any case.
Prepared(s) ==
    IF s = "axis" THEN RefreshAxis(desk, Part) ELSE Flushed(desk, Part, s)

Ready(k, s) == k.fits[s] /\ (IF k.eval[s] = None THEN FALSE ELSE k.eval[s].ok)

\* The tool refuses what is not ready; the draft is judged again by what it
\* is finished with, and if it is turned down there it is evaluated again.
FinishWith(s, ready, closed) ==
    LET k == Prepared(s)
        d == k.draft[s]
    IN  IF ~ready THEN Desk(k)
        ELSE IF Acceptable(Part, d, k.eval[s]) /\ Executable(d)
        THEN LET p == Executed(Part, d)
             IN  Author(p, ActiveContext(closed, p))
        ELSE Desk(Refreshed(k, Part, s))

FinishAxis ==
    LET k == Prepared("axis")
    IN  /\ Live(desk, "axis")
        /\ FinishWith("axis", Ready(k, "axis"), ClearAxis(k))

\* Only the offset plane has a timer; the others are held by their revision.
FinishDatumPlane ==
    LET k == Prepared("datum")
        d == desk.draft.datum
    IN  /\ Live(desk, "datum")
        /\ FinishWith("datum",
                      /\ Ready(k, "datum")
                      /\ d.kind # "offset" => d.revision = Part.revision,
                      ClearDatumPlane(k))

\* Extrude leaves it to its draft whether the evaluation succeeded.
FinishExtrude ==
    LET k == Prepared("extrude")
    IN  /\ Live(desk, "extrude")
        /\ FinishWith("extrude", k.fits.extrude /\ k.eval.extrude # None,
                      Closed(k, "extrude"))

FinishRevolve ==
    LET k == Prepared("revolve")
    IN  /\ Live(desk, "revolve")
        /\ FinishWith("revolve", Ready(k, "revolve"), ClearRevolve(k))

FinishEdgeFeature ==
    LET k == Prepared("edge")
    IN  /\ Live(desk, "edge")
        /\ FinishWith("edge", Ready(k, "edge"), ClearEdgeFeature(k))

CancelAxis == Live(desk, "axis") /\ Desk(ClearAxis(desk))
CancelDatumPlane == Live(desk, "datum") /\ Desk(ClearDatumPlane(desk))
CancelExtrude == Live(desk, "extrude") /\ Desk(Closed(desk, "extrude"))
CancelRevolve == Live(desk, "revolve") /\ Desk(ClearRevolve(desk))
CancelEdgeFeature == Live(desk, "edge") /\ Desk(ClearEdgeFeature(desk))

\* A command may be refused for what depends on the object.
Removed(o, k) ==
    /\ ~Full
    /\ LET p == Committed(Part, Content(Part) \ {o})
       IN  Author(p, ActiveContext(k, p))

\* Deleting an axis gives its draft up first, whatever comes of it.
DeleteAxis(o) ==
    /\ o.kind \in KindsOf.axis
    /\ Free({"revolve"})
    /\ LET k == IF Live(desk, "axis") THEN ClearAxis(desk) ELSE desk
       IN  Removed(o, k) \/ Desk(k)

DeleteDatumPlane(o) ==
    /\ o.kind \in KindsOf.datum
    /\ Free(KindsOf.datum \cup Drafting \cup EdgeKinds \cup Waiting
              \cup {"sketch"})
    /\ Removed(o, desk) \/ Desk(ActiveContext(desk, Part))

DuringFeature == Drafting \cup EdgeKinds \cup {"offset", "sketch", "support"}

DeleteFeature(o) ==
    /\ o.kind \in FeatureKinds
    /\ Free(DuringFeature)
    /\ Removed(o, desk) \/ Desk(ActiveContext(desk, Part))

\* Suppressing a feature changes what every object after it evaluates to, and
\* none of the objects.
SetFeatureSuppressed(o) ==
    /\ o.kind \in FeatureKinds
    /\ Free(DuringFeature)
    /\ ~Full
    /\ LET p == Recorded(Part) IN Author(p, ActiveContext(desk, p))

-----------------------------------------------------------------------------
(* Sketches *)

StartSupport(target) ==
    /\ Free(Busy \cup EdgeKinds)
    /\ target = None => Offered
    /\ Desk([desk EXCEPT
               !.support = [target |-> target, revision |-> None],
               !.faces = TRUE])

StageSupport ==
    /\ desk.support # None
    /\ Desk([desk EXCEPT !.support.revision = Part.revision])

\* The support is applied at the revision it was staged at; a stale one is
\* dropped and has to be picked again.
FinishSupport(value) ==
    /\ desk.support # None
    /\ desk.support.revision # None
    /\ LET target == desk.support.target
           id == IF target = None THEN Part.next ELSE target
           object == [id |-> id, kind |-> "sketch", value |-> value]
           content == (Content(Part) \ Find(Part, id)) \cup {object}
           p == [Committed(Part, content) EXCEPT
                   !.next = IF target = None THEN @ + 1 ELSE @]
           k == [desk EXCEPT !.support = None, !.faces = FALSE]
       IN  IF desk.support.revision # Part.revision
           THEN Desk([desk EXCEPT !.support.revision = None])
           ELSE /\ ~Full
                /\ IF target = None THEN Room ELSE target \in Sketches(Part)
                /\ Author(p, [ActiveContext(k, p) EXCEPT !.sketch = id])

CancelSupport ==
    /\ desk.support # None
    /\ Desk([desk EXCEPT !.support = None, !.faces = FALSE])

\* A double click in the tree: only the drafts of features keep it out.
EditSketch(id) ==
    /\ Free(Drafting \cup EdgeKinds \cup {"profilePick", "sketch"})
    /\ id \in Sketches(Part)
    /\ Desk([desk EXCEPT
               !.sketch = id,
               !.support = None,
               !.faces = IF desk.support = None THEN @ ELSE FALSE])

FinishSketch ==
    /\ desk.sketch # None
    /\ desk.support = None
    /\ Desk(ClearSketch(desk))

\* Drawing commits to the document without a word to the other contexts.
Draw ==
    /\ desk.sketch # None
    /\ desk.project = None
    /\ ~Full
    /\ Author(Recorded(Part), desk)

StartProject ==
    /\ desk.sketch # None
    /\ desk.project = None
    /\ Free(KindsOf.axis \cup Drafting \cup EdgeKinds
              \cup {"offset", "support"})
    /\ Desk([EdgeMode(desk) EXCEPT
               !.project = [revision |-> Part.revision, ready |-> FALSE]])

\* Edges, or the boundary of a face, are staged for projection.
StageProject(ready, byFace) ==
    /\ desk.project # None
    /\ Desk([desk EXCEPT !.project.ready = ready, !.faces = byFace])

FinishProject ==
    /\ desk.project # None
    /\ desk.project.ready
    /\ desk.project.revision = Part.revision
    /\ ~Full
    /\ LET p == Recorded(Part)
       IN  Author(p, ActiveContext(ClearProject(desk), p))

CancelProject ==
    /\ desk.project # None
    /\ Desk(ClearProject(desk))

-----------------------------------------------------------------------------
SketchStep ==
    \/ \E target \in Sketches(Part) \cup {None} : StartSupport(target)
    \/ StageSupport
    \/ \E value \in Values : FinishSupport(value)
    \/ CancelSupport
    \/ \E id \in Sketches(Part) : EditSketch(id)
    \/ FinishSketch
    \/ Draw
    \/ StartProject
    \/ \E ready, byFace \in BOOLEAN : StageProject(ready, byFace)
    \/ FinishProject
    \/ CancelProject

StartStep ==
    \/ \E value \in Values \cup {None} :
         StartAxisTool(value) \/ StartDatumPlaneTool(value)
             \/ StartRevolveTool(value)
    \/ StartExtrudeTool
    \/ \E value \in Values : TryCompleteExtrudeProfilePick(value)
    \/ CancelExtrudeProfilePick
    \/ StartFilletTool
    \/ StartChamferTool
    \/ \E o \in Content(Part) :
         \/ StartAxisEdit(o)
         \/ StartDatumPlaneEdit(o)
         \/ StartExtrudeEdit(o)
         \/ StartRevolveEdit(o)
         \/ StartEdgeFeatureEdit(o)

ChangeStep ==
    \/ \E value \in Values :
         \/ StageAxisSource(value)
         \/ StageAxisFromBodyTopology(value)
         \/ StageDatumPlaneSource(value)
         \/ StageEdgeDatum(value)
         \/ StageThreePointDatum(value)
         \/ SetExtrudeOption(value)
         \/ StageRevolveSource(value)
         \/ StageEdgeFeatureSelection(value)
    \/ \E value \in Values, now \in BOOLEAN :
         \/ SetDatumPlaneOffset(value, now)
         \/ SetExtrudeDistance(value, now)
         \/ SetRevolveAngle(value, now)
         \/ SetEdgeFeatureParameter(value, now)
    \/ MisfitDatumPlaneOffset
    \/ \E s \in SolidSlots : Misfit(s)
    \/ \E s \in TypedSlots : Settle(s)
    \/ SelectAxisConstructor
    \/ \E kind \in KindsOf.datum : SelectDatumPlaneConstructor(kind)

Finish(s) ==
    \/ s = "axis" /\ FinishAxis
    \/ s = "datum" /\ FinishDatumPlane
    \/ s = "extrude" /\ FinishExtrude
    \/ s = "revolve" /\ FinishRevolve
    \/ s = "edge" /\ FinishEdgeFeature

CloseStep ==
    \/ \E s \in Slots : Finish(s)
    \/ CancelAxis
    \/ CancelDatumPlane
    \/ CancelExtrude
    \/ CancelRevolve
    \/ CancelEdgeFeature

DocumentStep ==
    \/ ApplyProperties
    \/ Save
    \/ Undo
    \/ Redo
    \/ \E o \in Content(Part) :
         \/ DeleteAxis(o)
         \/ DeleteDatumPlane(o)
         \/ DeleteFeature(o)
         \/ SetFeatureSuppressed(o)

Next ==
    \/ \E d \in Docs : ActivateDocument(d)
    \/ DeactivateDocument
    \/ /\ active # None
       /\ \/ DocumentStep
          \/ StartStep
          \/ ChangeStep
          \/ CloseStep
          \/ SketchStep

\* The timers are the only steps the program owes by itself.
Fairness == \A s \in TypedSlots : WF_vars(active # None /\ Settle(s))

Spec == Init /\ [][Next]_vars
FairSpec == Spec /\ Fairness

-----------------------------------------------------------------------------
(* Properties *)

Drafts ==
    [doc : Docs, kind : Kinds, target : Ids \cup {None},
     value : Values \cup {None}, revision : Nat \ {0},
     generation : 1 .. MaxGeneration]

Evaluations ==
    [revision : Nat \ {0}, generation : 1 .. MaxGeneration,
     ok : BOOLEAN]

Previews == [slot : Slots, generation : 1 .. MaxGeneration]
Supports == [target : Ids \cup {None}, revision : Nat \cup {None}]
Projections == [revision : Nat, ready : BOOLEAN]

Desks ==
    [draft : [Slots -> Drafts \cup {None}],
     eval : [Slots -> Evaluations \cup {None}],
     fits : [Slots -> BOOLEAN], armed : SUBSET TypedSlots,
     shown : [Views -> Previews \cup {None}],
     edges : BOOLEAN, faces : BOOLEAN, picking : BOOLEAN,
     support : Supports \cup {None}, sketch : Ids \cup {None},
     project : Projections \cup {None}]

Parts ==
    [revision : Nat \ {0}, timeline : Seq(SUBSET Objects), position : Nat,
     next : Ids]

\* None is a value of its own.
ASSUME NoneAssumption ==
    None \notin Drafts \cup Evaluations \cup Previews \cup Supports
                  \cup Projections \cup Nat

\* Every field of the desk and of the documents has its type; a draft is in
\* the slot of its kind, and only drafts have evaluations and timers.
TypeOK ==
    /\ active \in Docs \cup {None}
    /\ part \in [Docs -> Parts]
    /\ \A d \in Docs : /\ part[d].revision <= MaxRevision[d]
                       /\ part[d].position \in DOMAIN part[d].timeline
    /\ desk \in Desks
    /\ \A s \in Slots :
         /\ Live(desk, s) => desk.draft[s].kind \in KindsOf[s]
         /\ ~Live(desk, s) => desk.eval[s] = None /\ s \notin desk.armed

\* Nothing that was begun in one document is still open when another is in
\* front, and nothing at all when none is (docs/internal/
\* CAD_WORKBENCH_VIEWER.md:32): every draft and its target belong to the
\* active document, which has the sketch that is edited, and a preview or a
\* pick mode does not outlive the last context.
NothingOutlivesDocument ==
    /\ \A s \in Slots : Live(desk, s) => desk.draft[s].doc = active
    /\ active = None => desk = Empty
    /\ desk.project # None => desk.sketch # None
    /\ Open(desk) = {} => /\ desk.shown = Empty.shown
                          /\ ~desk.edges /\ ~desk.faces

\* What the viewport shows is what a live draft holds now; only a draft that
\* is being typed into may still show what it held before.
PreviewIsOfLiveDraft ==
    \A w \in Views : desk.shown[w] # None =>
        LET s == desk.shown[w].slot
        IN  /\ ViewOf(s) = w
            /\ Live(desk, s)
            /\ s \in desk.armed
                 \/ desk.shown[w].generation = desk.draft[s].generation

\* The viewport picks edges, or nothing but faces, only for a context that
\* asked for it.
PickModesAreOwned ==
    /\ desk.edges => \/ Live(desk, "axis")
                     \/ Live(desk, "edge")
                     \/ desk.project # None
    /\ desk.faces => \/ Live(desk, "axis")
                     \/ "offset" \in Open(desk)
                     \/ desk.support # None
                     \/ desk.project # None

\* Whatever the viewport shows or picks, a live tool asked for it.
ViewportServesLiveTools == TypeOK /\ PreviewIsOfLiveDraft /\ PickModesAreOwned

\* Finish of a solid feature is offered only on an evaluation of the document
\* as it stands (CAD_WORKBENCH_VIEWER.md:645): whatever else was finished,
\* deleted, undone or drawn meanwhile, an evaluation that succeeded is of
\* the draft's last state and of the current revision.
OfferedIsCurrent ==
    \A s \in SolidSlots :
        (desk.eval[s] # None /\ desk.eval[s].ok) =>
            /\ desk.eval[s].generation = desk.draft[s].generation
            /\ desk.draft[s].revision = Part.revision

\* A draft that can be evaluated, of the revision the document is at.
Deserving(s) ==
    /\ Live(desk, s)
    /\ desk.fits[s]
    /\ desk.draft[s].value \in Computable
    /\ desk.draft[s].revision = Part.revision
    /\ Executable(desk.draft[s])

TypedIsAccepted(s) ==
    (active # None /\ Deserving(s)) =>
        LET k == Prepared(s)
        IN  k.fits[s] /\ Acceptable(Part, k.draft[s], k.eval[s])

FinishCommits ==
    \A s \in Slots : (active # None /\ Finish(s)) =>
        IF Deserving(s)
        THEN LET d == desk.draft[s]
             IN  /\ ~Live(desk', s)
                 /\ \E o \in Content(Part)' :
                      /\ o.kind = d.kind /\ o.value = d.value
                      /\ o.id = IF d.target = None THEN Part.next
                                ELSE d.target
                      /\ \A q \in Content(Part) :
                           q.id # o.id => q \in Content(Part)'
        ELSE UNCHANGED part /\ Live(desk', s)

\* Finish never turns down what was last typed, also when the timer has not
\* fired yet, and commits exactly that: one object, with the identifier of the
\* target or a new one, and the tool is closed.  A draft of another revision
\* or one that cannot be evaluated changes nothing.
FinishTakesWhatWasTyped ==
    /\ [](\A s \in Slots : TypedIsAccepted(s))
    /\ [][FinishCommits]_vars

\* A change of a draft is eventually evaluated, unless the tool is closed or
\* the input stops being usable: no panel waits for ever.
Judged(s) ==
    \/ ~Live(desk, s)
    \/ ~desk.fits[s]
    \/ desk.draft[s].value = None
    \/ /\ desk.eval[s] # None
       /\ desk.eval[s].generation = desk.draft[s].generation

EveryEditIsJudged == \A s \in Slots : []<>Judged(s)
=============================================================================
