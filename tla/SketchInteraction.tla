------------------------- MODULE SketchInteraction --------------------------
(***************************************************************************)
(* The sketch editor over the Part document: the controller that turns     *)
(* pointer events, typed text and keys into steps of the tools (module     *)
(* SketchTools) and into commands of the document session, what Undo,      *)
(* Redo, Save and the projection of edges do to an edit under way, and     *)
(* the line of text a precise value is typed into.                         *)
(*                                                                         *)
(* An edit of existing geometry captures it, with the revision, when it    *)
(* begins; the command it ends with replaces the geometry as a whole.      *)
(* The text belongs to the question that was asked while it was typed: a   *)
(* handler that changes the question says so, and the text is dropped.     *)
(***************************************************************************)
EXTENDS SketchTools, Sequences

CONSTANTS
    Tools,          \* the tools that are used
    Aids,           \* the aids to a point: snap override, tracking anchors
    Before,         \* what the sketch has been, and is when it is opened
    MaxId,          \* identifiers of entities run out
    MaxRevision     \* and so do the revisions of the document

ASSUME SketchAssumption ==
    /\ Tools \subseteq AllTools /\ Aids \subseteq {"override", "tracking"}
    /\ MaxId \in Nat /\ MaxRevision \in Nat \ {0}
    /\ Before \in Seq(UNION {[ids -> Shapes] : ids \in SUBSET (1..MaxId)})
    /\ Len(Before) \in 1..MaxRevision
    /\ None \notin Shapes \cup {"create", "edit"}
    /\ None \notin [id : 1..MaxId, center : BOOLEAN, copy : BOOLEAN, mode : Modes]

Ids == 1..MaxId

VARIABLES
    part,   \* the document: revision, timeline, position, next identifier
    edit,   \* the interaction state
    ctl,    \* what the controller keeps beside it
    buffer  \* the question the typed text answers, or None

vars == <<part, edit, ctl, buffer>>

-----------------------------------------------------------------------------
(* The document *)

Content(p) == p.timeline[p.position]
Live(p) == DOMAIN Content(p)

\* One map put over another.
Over(f, g) ==
    [id \in DOMAIN f \cup DOMAIN g |-> IF id \in DOMAIN f THEN f[id] ELSE g[id]]

One(shape) == [id \in {1} |-> shape]

Committed(p, content) ==
    [p EXCEPT !.revision = @ + 1,
              !.timeline = Append(SubSeq(@, 1, p.position), content),
              !.position = @ + 1]

\* New entities take the next identifiers, which are never given out again.
WithNew(p, content, shapes) ==
    LET n == Cardinality(DOMAIN shapes)
        Nth(i) == CHOOSE j \in DOMAIN shapes :
                    Cardinality({k \in DOMAIN shapes : k < j}) = i
        new == [i \in p.next..(p.next + n - 1) |-> shapes[Nth(i - p.next)]]
    IN  [Committed(p, Over(new, content)) EXCEPT !.next = @ + n]

Editable(p) == p.revision < MaxRevision

Room(p, n) == Editable(p) /\ p.next + n <= MaxId + 1

-----------------------------------------------------------------------------
(* What the controller tells of the question it asks *)

\* The question a person types an answer to.
Asked(s, c) ==
    [tool |-> s.tool, stage |-> s.stage, profile |-> c.profile # None,
     mode |-> IF s.grip = None THEN None ELSE s.grip.mode,
     point |-> PointRequested(s), value |-> ValueRequested(s)]

\* Mutant: the mode of a grip is not part of it.
FingerprintWithoutMode(s, c, p) ==
    [on |-> c.on, revision |-> p.revision, tool |-> s.tool,
     stage |-> s.stage, grip |-> s.grip # None, mode |-> None,
     profile |-> IF c.profile = None THEN None ELSE c.profile.kind,
     based |-> PointRequested(s) /\ Based(s),
     distance |-> PointRequested(s) /\ DistanceRequested(s)]

\* The fingerprint of the context: text typed under another one is refused.
Fingerprint(s, c, p) ==
    [on |-> c.on, revision |-> p.revision, tool |-> s.tool,
     stage |-> s.stage, grip |-> s.grip # None,
     mode |-> IF s.grip = None THEN None ELSE s.grip.mode,
     profile |-> IF c.profile = None THEN None ELSE c.profile.kind,
     based |-> PointRequested(s) /\ Based(s),
     distance |-> PointRequested(s) /\ DistanceRequested(s)]

Result(s, c, p) == [s |-> s, c |-> c, p |-> p]

\* A handler leaves a state and tells of it.
Become(r, text) ==
    LET told == Fingerprint(r.s, r.c, r.p)
    IN  /\ part' = r.p
        /\ edit' = r.s
        /\ ctl' = [r.c EXCEPT !.told = told]
        /\ buffer' = IF told = ctl.told THEN text ELSE None

\* A handler that returns early tells nothing.
BecomeQuietly(r, text) ==
    part' = r.p /\ edit' = r.s /\ ctl' = r.c /\ buffer' = text

\* The revision of a structural edit goes with its tools.
Configured(s, c) ==
    IF s.tool \in StructuralTools THEN c ELSE [c EXCEPT !.structural = None]

\* The revision that the edit under way was captured at.
Revision(s, c) == IF s.grip # None THEN c.grip ELSE c.transform

WithRevision(s, c, revision) ==
    IF s.grip # None THEN [c EXCEPT !.grip = revision]
    ELSE [c EXCEPT !.transform = revision]

NoProfile(c) == [c EXCEPT !.profile = None]
Idle == edit.grip = None /\ ctl.profile = None

-----------------------------------------------------------------------------
(* Tools, the sketch and its history *)

Off ==
    [on |-> FALSE, transform |-> None, grip |-> None, rectangle |-> None,
     structural |-> None, keep |-> FALSE, profile |-> None, told |-> None]

Closed(p) ==
    LET s == Fresh("select", {}) IN
    Result(s, [Off EXCEPT !.told = Fingerprint(s, Off, p)], p)

\* What a tool remembers when it is activated: the revision of the
\* geometry it has captured.  That of a rectangle no other tool reads.
Activated(c, s, p) ==
    Configured(s,
        [on |-> c.on,
         transform |-> IF s.tool \in TransformTools /\ s.stage # "objects"
                       THEN p.revision ELSE None,
         grip |-> None,
         rectangle |-> None,
         structural |-> IF s.boundaries # {} THEN p.revision ELSE None,
         keep |-> s.tool = "mirror",
         profile |-> None,
         told |-> c.told])

\* Trim and Extend turn down a selection that bounds nothing.
ToolState(s, tool, p) ==
    CASE tool \in TransformTools -> ActivateTransform(s, tool, Content(p))
      [] tool \in StructuralTools -> ActivateStructural(s, tool)
      [] tool = "measure" -> ActivateMeasure(s, Content(p))
      [] OTHER -> Activate(s, tool)

Activating(tool) ==
    LET s == ToolState(edit, tool, part) IN Result(s, Activated(ctl, s, part), part)

\* A tool is taken from the ribbon, or the last one is repeated.
TakeTool(tool) == ctl.on /\ Become(Activating(tool), buffer)

OpenSketch ==
    /\ ~ctl.on
    /\ Become(Result(edit, [ctl EXCEPT !.on = TRUE], part), buffer)

LeaveSketch == ctl.on /\ Become(Closed(part), buffer)

\* After a change from elsewhere the revisions are forgotten: what was
\* captured under them cannot be committed.
Forgetting(c) ==
    [on |-> c.on, transform |-> None, grip |-> None, rectangle |-> None,
     structural |-> c.structural, keep |-> c.keep, profile |-> None,
     told |-> c.told]

Reconciled(s, c, p) ==
    Result(ReconcileSelection(s, Content(p)), Configured(s, Forgetting(c)), p)

\* Mutant: an edit goes on over Undo, at the revision that brings, if its
\* entities are still there.
MoveGoingOn(position) ==
    LET p == [part EXCEPT !.revision = @ + 1, !.position = position]
        on == edit.captured # NoShapes /\ edit.selected \subseteq Live(p)
        r == Reconciled(ToSelect(edit), [ctl EXCEPT !.keep = FALSE], p)
    IN  /\ Editable(part)
        /\ IF ctl.on
           THEN Become(IF on THEN Result(edit, WithRevision(edit, ctl, p.revision), p)
                       ELSE r, buffer)
           ELSE BecomeQuietly(Result(edit, ctl, p), buffer)

\* Undo and Redo cancel the tool first.
Move(position) ==
    LET p == [part EXCEPT !.revision = @ + 1, !.position = position]
    IN  /\ Editable(part)
        /\ IF ctl.on
           THEN Become(Reconciled(ToSelect(edit), [ctl EXCEPT !.keep = FALSE], p),
                       buffer)
           ELSE BecomeQuietly(Result(edit, ctl, p), buffer)

Undo == part.position > 1 /\ Move(part.position - 1)
Redo == part.position < Len(part.timeline) /\ Move(part.position + 1)

\* Save leaves the document and refreshes every context.
Save == ctl.on /\ Become(Reconciled(edit, ctl, part), buffer)

\* Edges of the body are projected into the sketch, or such links broken,
\* and Select is taken.
ProjectEdges(p) ==
    LET r == Reconciled(edit, ctl, p)
        s == Activate(r.s, "select")
    IN  ctl.on /\ Become(Result(s, Activated(r.c, s, p), p), buffer)

ProjectOrBreak ==
    \/ \E shape \in Shapes :
         /\ Room(part, 1)
         /\ ProjectEdges(WithNew(part, Content(part), One(shape)))
    \/ /\ Editable(part)
       /\ ProjectEdges(Committed(part, Content(part)))

\* A feature is edited while no sketch is open.
OtherEdit ==
    /\ ~ctl.on /\ Editable(part)
    /\ BecomeQuietly(Result(edit, ctl, Committed(part, Content(part))), buffer)

-----------------------------------------------------------------------------
(* Commands of the document *)

\* The answer to a request for a new entity.  A rectangle is drawn at the
\* revision of its first corner, or given up.
Drawn(s, c, shape) ==
    LET diverged == s.tool = "rectangle" /\ c.rectangle # part.revision
        ok == Room(part, 1) /\ ~diverged
        resolved == Resolve(s, ok)
    IN  Result(
            IF diverged THEN Escaped(resolved) ELSE resolved,
            IF s.tool = "rectangle" /\ (ok \/ diverged)
            THEN [c EXCEPT !.rectangle = None] ELSE c,
            IF ok THEN WithNew(part, Content(part), One(shape)) ELSE part)

Copying(s, c) ==
    IF s.grip # None THEN s.grip.copy
    ELSE s.tool = "copy" \/ (s.tool = "mirror" /\ c.keep)

\* The edit is over, done or given up.
Ended(s, c, p) ==
    LET after == IF s.grip # None THEN FinishGrip(s) ELSE ToSelect(s) IN
    Result(ReconcileSelection(after, Content(p)),
           Configured(after, [WithRevision(s, c, None) EXCEPT !.keep = FALSE]), p)

Refused(s, c) ==
    LET after == IF s.grip # None THEN CancelGrip(s) ELSE ToSelect(s) IN
    Result(after,
           Configured(after, [WithRevision(s, c, None) EXCEPT !.keep = FALSE]), part)

\* Mutant: a copy that goes on keeps the revision it began at.
CommitCopyOnce(s, c) ==
    LET p == WithNew(part, Content(part), Moved(s)) IN
    IF Revision(s, c) # part.revision \/ ~(Affected(s) \subseteq Live(part))
    THEN Refused(s, c)
    ELSE IF Moved(s) = Capture(Content(part), Affected(s)) THEN Result(s, c, part)
    ELSE IF ~Room(part, Cardinality(Affected(s))) THEN Refused(s, c)
    ELSE IF s.tool = "mirror" THEN Ended(s, c, p)
    ELSE Result(ContinueCopy(s), c, p)

\* New entities beside the captured ones.  A placement that changes nothing
\* is waited out; Copy and Grip Copy go on, Mirror is over.
CommitCopy(s, c) ==
    LET p == WithNew(part, Content(part), Moved(s)) IN
    IF Revision(s, c) # part.revision \/ ~(Affected(s) \subseteq Live(part))
    THEN Refused(s, c)
    ELSE IF Moved(s) = Capture(Content(part), Affected(s)) THEN Result(s, c, part)
    ELSE IF ~Room(part, Cardinality(Affected(s))) THEN Refused(s, c)
    ELSE IF s.tool = "mirror" THEN Ended(s, c, p)
    ELSE Result(ContinueCopy(s), WithRevision(s, c, p.revision), p)

\* The captured entities as the edit moves them; one that follows an edge
\* of the body, or is fixed, is not moved.
CommitUpdate(s, c) ==
    LET content == Over(Moved(s), Content(part))
        ok == /\ Revision(s, c) = part.revision
              /\ Affected(s) \subseteq Live(part)
              /\ content # Content(part)
              /\ Editable(part)
    IN  {Ended(s, c, p) :
            p \in {part} \cup IF ok THEN {Committed(part, content)} ELSE {}}

\* An edit whose revision was forgotten, or without a geometry, stays.
CommitEdit(s, c) ==
    IF \/ Revision(s, c) = None
       \/ s.grip = None /\ s.stage \notin FinalStages
       \/ Motion(s) = None
    THEN {Result(s, c, part)}
    ELSE IF Copying(s, c) THEN {CommitCopy(s, c)}
    ELSE CommitUpdate(s, c)

-----------------------------------------------------------------------------
(* The pointer *)

\* Where the pointer resolves to, or nothing does: then the geometry is
\* the one before, and is no longer shown.  A typed value covers it.
Pointed(s) ==
    {[s EXCEPT !.candidate = TRUE, !.preview = m] :
        m \in IF s.explicit = None THEN Motions \cup {None} ELSE {None}}
        \cup {s}

Editing(s) == s.grip # None \/ s.stage \in FinalStages

MovePointer ==
    /\ ctl.on
    /\ PointRequested(edit)
    /\ \E s \in IF Editing(edit) THEN Pointed(edit)
                ELSE {[edit EXCEPT !.candidate = TRUE]} :
         BecomeQuietly(Result(s, ctl, part), buffer)

\* A snap override is chosen, a tracking anchor acquired.
TakeAid(aid) ==
    /\ ctl.on
    /\ PointRequested(edit)
    /\ BecomeQuietly(Result([edit EXCEPT !.aids = @ \cup {aid}], ctl, part), buffer)

\* A point for a tool that draws: short of the last one it is taken, the
\* last one asks the document for the entity.
PressDrawing ==
    LET s == [edit EXCEPT !.candidate = TRUE] IN
    /\ edit.tool \in CreationTools
    /\ ~edit.pending
    /\ IF edit.stage \notin CreationStages
       THEN Become(Result(TakePoint(s),
                          IF edit.tool = "rectangle"
                          THEN [ctl EXCEPT !.rectangle = part.revision] ELSE ctl,
                          part), buffer)
       ELSE \E shape \in Shapes : Become(Drawn(MakeRequest(s), ctl, shape), buffer)

PressReference ==
    /\ edit.stage \in ReferenceStages
    /\ Become(Result(TakeTransformPoint([edit EXCEPT !.candidate = TRUE]), ctl, part),
              buffer)

\* The press that ends an edit commits what the pointer has just left.
PressFinal ==
    /\ Editing(edit)
    /\ \E s \in Pointed(edit) : \E r \in CommitEdit(s, ctl) : Become(r, buffer)

\* Entities are added to the selection, or toggled in it; a click on
\* nothing clears it in Select only.
PressSelecting ==
    /\ SelectionMutable(edit)
    /\ edit.stage = "objects" \/ (edit.tool = "select" /\ Idle)
    /\ \E ids \in SUBSET Live(part) : \E selected \in
            {edit.selected \cup ids,
             (edit.selected \ ids) \cup (ids \ edit.selected)}
            \cup (IF edit.tool = "select" THEN {{}} ELSE {}) :
         Become(Result([edit EXCEPT !.selected = selected], ctl, part), buffer)

PressGrip ==
    /\ edit.tool = "select" /\ Idle
    /\ \E id \in edit.selected, center \in BOOLEAN :
         /\ Capturable(edit, Content(part))
         /\ Become(Result(BeginGrip(edit, Content(part), id, center),
                          [ctl EXCEPT !.grip = part.revision], part), buffer)

PressBoundary ==
    /\ BoundariesPending(edit)
    /\ \E id \in Live(part) :
         Become(Result([edit EXCEPT !.selected =
                            IF id \in @ THEN @ \ {id} ELSE @ \cup {id}],
                       ctl, part), buffer)

\* A boundary is never the target.
Targets == Live(part) \ edit.boundaries

\* Trim and Extend reshape their target; Trim makes a new arc of a circle.
StructuralResults(id) ==
    LET content == Content(part) IN
    {Committed(part, [content EXCEPT ![id] = shape]) :
        shape \in Shapes \ {content[id]}}
    \cup
    {WithNew(part, [other \in Live(part) \ {id} |-> content[other]], One(shape)) :
        shape \in IF edit.tool = "trim" /\ Room(part, 1) THEN Shapes ELSE {}}

PressTarget ==
    /\ edit.tool \in {"trim", "extend"} /\ ~BoundariesPending(edit)
    /\ \E id \in Targets :
         IF ctl.structural # part.revision
         THEN LET s == ToSelect(edit) IN
              Become(Result(s, Configured(s, ctl), part), buffer)
         ELSE /\ Editable(part)
              /\ \E p \in StructuralResults(id) :
                   Become(Result(edit, [ctl EXCEPT !.structural = p.revision], p),
                          buffer)

\* The first of two lines to extend to each other, then the second: one of
\* them or both change.
PressFirstLine ==
    /\ edit.tool = "extend_both" /\ edit.target = None
    /\ \E id \in Live(part) :
         Become(Result([edit EXCEPT !.target = id],
                       [ctl EXCEPT !.structural = part.revision], part), buffer)

PressSecondLine ==
    /\ edit.tool = "extend_both" /\ edit.target # None
    /\ \E id \in Live(part) \ {edit.target} :
         LET cleared == [edit EXCEPT !.target = None]
             s == IF ctl.structural \in {part.revision, None} THEN cleared
                  ELSE ToSelect(edit)
             c == [ctl EXCEPT !.structural = None]
         IN  \/ /\ ctl.structural = part.revision /\ Editable(part)
                /\ \E content \in [Live(part) -> Shapes] :
                     /\ content # Content(part)
                     /\ \A other \in Live(part) \ {id, edit.target} :
                            content[other] = Content(part)[other]
                     /\ Become(Result(s, c, Committed(part, content)), buffer)
             \/ /\ ctl.structural # part.revision \/ ~Editable(part)
                /\ Become(Result(s, c, part), buffer)

PressMeasured ==
    /\ edit.stage = "single"
    /\ \E id \in Live(part) \cup {None} :
         Become(Result([edit EXCEPT !.target = id], ctl, part), buffer)

PressProfile ==
    /\ ctl.profile # None
    /\ Become(Result(edit, [ctl EXCEPT !.profile = [@ EXCEPT !.draft = TRUE]], part),
              buffer)

Press ==
    /\ ctl.on
    /\ \/ PressDrawing \/ PressReference \/ PressFinal \/ PressSelecting
       \/ PressGrip \/ PressBoundary \/ PressTarget \/ PressFirstLine
       \/ PressSecondLine \/ PressMeasured \/ PressProfile

-----------------------------------------------------------------------------
(* Typed text *)

TypeText == ctl.on /\ BecomeQuietly(Result(edit, ctl, part), Asked(edit, ctl))

EraseText == buffer # None /\ BecomeQuietly(Result(edit, ctl, part), None)

\* Width and height of a rectangle: locked, and drawn where the pointer is.
SubmitPair ==
    /\ PairRequested(edit) /\ ~edit.pending
    /\ LET s == LockSize(edit) IN
       \/ ~edit.candidate /\ Become(Result(s, ctl, part), None)
       \/ /\ edit.candidate /\ ctl.rectangle = None
          /\ BecomeQuietly(Result(MakeRequest(s), ctl, part), None)
       \/ /\ edit.candidate /\ ctl.rectangle # None
          /\ \E shape \in Shapes :
               Become(Drawn(MakeRequest(s), ctl, shape), None)

\* A whole point outranks a value.  It is what the pointer would give, but
\* where it makes the request of a circle the handler returns.
SubmitPoint ==
    /\ PointRequested(edit) /\ ~PairRequested(edit)
    /\ \/ /\ Editing(edit)
          /\ \E m \in Motions \cup {None} :
               \E r \in CommitEdit([edit EXCEPT !.preview = m], ctl) : Become(r, None)
       \/ /\ edit.stage \in ReferenceStages
          /\ Become(Result(TakeTransformPoint(edit), ctl, part), None)
       \/ /\ edit.stage = "radius"
          /\ BecomeQuietly(Result(MakeRequest(edit), ctl, part), None)
       \/ /\ edit.stage \in CreationStages \ {"radius"}
          /\ \E shape \in Shapes :
               Become(Drawn(MakeRequest(SetAside(edit)), ctl, shape), None)
       \/ /\ edit.tool \in CreationTools /\ edit.stage \notin CreationStages
          /\ Become(Result(TakePoint(edit),
                           IF edit.tool = "rectangle"
                           THEN [ctl EXCEPT !.rectangle = part.revision] ELSE ctl,
                           part), None)

\* A radius draws the circle; the arc needs a side, where the pointer is.
SubmitValue ==
    /\ ValueRequested(edit) /\ ~edit.pending
    /\ \/ /\ edit.stage = "arc_point" /\ ~edit.candidate
          /\ Become(Result(LockSize(edit), ctl, part), None)
       \/ /\ edit.stage = "radius" \/ (edit.stage = "arc_point" /\ edit.candidate)
          /\ \E shape \in Shapes :
               Become(Drawn(MakeRequest(LockSize(edit)), ctl, shape), None)
       \/ /\ Editing(edit)
          /\ \E m \in Motions :
               \E r \in CommitEdit(TypeValue(edit, m), ctl) : Become(r, None)

\* A bare distance goes along the direction of the pointer.
SubmitDistance ==
    /\ PointRequested(edit) /\ ~ValueRequested(edit)
    /\ DistanceRequested(edit) /\ edit.candidate
    /\ \/ /\ Editing(edit)
          /\ \E m \in Motions \cup {None} :
               \E r \in CommitEdit([edit EXCEPT !.preview = m], ctl) : Become(r, None)
       \/ /\ edit.tool = "line"
          /\ \E shape \in Shapes : Become(Drawn(MakeRequest(edit), ctl, shape), None)
       \/ /\ edit.tool = "arc"
          /\ Become(Result(TakePoint(edit), ctl, part), None)

SubmitGripCopy ==
    /\ edit.grip # None
    /\ Become(Result([edit EXCEPT !.grip = [@ EXCEPT !.copy = TRUE]], ctl, part), None)

\* The name of a command is read when nothing else is asked for.
SubmitCommand ==
    /\ ~PairRequested(edit) /\ ~PointRequested(edit) /\ ~ValueRequested(edit)
    /\ \E tool \in Tools : Become(Activating(tool), None)

\* Enter consumes the text, accepted or not.
SubmitText ==
    /\ ctl.on /\ buffer # None
    /\ \/ SubmitPair \/ SubmitPoint \/ SubmitValue \/ SubmitDistance
       \/ SubmitGripCopy \/ SubmitCommand
       \/ BecomeQuietly(Result(edit, ctl, part), None)

\* Tab locks the typed field and leaves the request open.
LockText ==
    /\ ctl.on /\ buffer # None
    /\ \/ /\ PairRequested(edit) \/ edit.stage \in {"radius", "arc_point"}
          /\ ~edit.pending
          /\ Become(Result(LockSize(edit), ctl, part), None)
       \/ /\ ValueRequested(edit) /\ Editing(edit)
          /\ \E m \in Motions :
               Become(Result(TypeValue(edit, m), ctl, part), None)
       \/ /\ PointRequested(edit) /\ ~ValueRequested(edit) /\ ~PairRequested(edit)
          /\ Become(Result(LockField(edit), ctl, part), None)

-----------------------------------------------------------------------------
(* Keys and the panel *)

\* Enter and the right button end a choice of objects or of boundaries.
CompleteChoice ==
    /\ ctl.on
    /\ Capturable(edit, Content(part))
    /\ \/ /\ edit.stage = "objects"
          /\ Become(Result(CompleteObjects(edit, Content(part)),
                           [ctl EXCEPT !.transform = part.revision], part), buffer)
       \/ /\ BoundariesPending(edit)
          /\ Become(Result([edit EXCEPT !.boundaries = edit.selected],
                           [ctl EXCEPT !.structural = part.revision], part), buffer)

\* Enter without a text commits what is shown.
EnterCommits ==
    /\ ctl.on /\ buffer = None /\ Editing(edit)
    /\ \E r \in CommitEdit(edit, ctl) : Become(r, buffer)

EscapedCtl(s) ==
    Configured(s,
        [ctl EXCEPT
            !.grip = IF s.grip = None THEN None ELSE @,
            !.transform = IF s.tool \in TransformTools THEN @ ELSE None,
            !.keep = s.tool = "mirror" /\ @,
            !.rectangle =
                IF edit.tool = "rectangle" /\ s.stage # edit.stage THEN None ELSE @])

Escape ==
    /\ ctl.on
    /\ IF ctl.profile # None
       THEN Become(Result(edit, NoProfile(ctl), part), buffer)
       ELSE \E s \in Uncovered(edit, Escaped(edit)) :
                Become(Result(s, EscapedCtl(s), part), buffer)

CycleGripMode ==
    /\ ctl.on /\ edit.grip # None
    /\ \E m \in Motions \cup {None} :
         Become(Result(CycleMode(edit, m), ctl, part), buffer)

KeepOriginal ==
    /\ ctl.on /\ edit.tool = "mirror"
    /\ Become(Result(edit, [ctl EXCEPT !.keep = ~@], part), buffer)

MeasureBetween ==
    /\ ctl.on /\ edit.tool = "measure"
    /\ Become(Result([edit EXCEPT !.stage = "between", !.target = None],
                     ctl, part), buffer)

DeleteSelection ==
    /\ ctl.on /\ Idle /\ edit.tool = "select" /\ edit.selected # {}
    /\ Editable(part)
    /\ LET rest == [id \in Live(part) \ edit.selected |-> Content(part)[id]] IN
       Become(Result([edit EXCEPT !.selected = {}], ctl, Committed(part, rest)),
              buffer)

\* The role of an entity is part of its shape.
SetRole ==
    /\ ctl.on /\ Idle /\ edit.tool = "select" /\ edit.selected # {}
    /\ Editable(part)
    /\ \E f \in Motions :
         LET roles == [id \in edit.selected |-> f[Content(part)[id]]]
             content == Over(roles, Content(part))
         IN  /\ content # Content(part)
             /\ Become(Result(edit, ctl, Committed(part, content)), buffer)

\* A profile of the sketch is drafted, region by region.
StartProfile(kind) ==
    LET s == Fresh("select", {}) IN
    /\ ctl.on
    /\ Become(Result(s,
                     Configured(s, [Forgetting(ctl) EXCEPT
                        !.profile = [kind |-> kind, draft |-> kind = "edit",
                                     revision |-> part.revision]]),
                     part), buffer)

FinishProfile ==
    /\ ctl.on /\ ctl.profile # None
    /\ ctl.profile.draft /\ ctl.profile.revision = part.revision
    /\ \E p \in {Committed(part, Content(part)), part} :
         /\ p # part => Editable(part)
         /\ p = part => ctl.profile.kind = "edit"
         /\ Become(Result(edit, NoProfile(ctl), p), buffer)

-----------------------------------------------------------------------------
(* The specification *)

Init ==
    \E next \in 1..(MaxId + 1) :
        LET p == [revision |-> Len(Before), timeline |-> Before,
                  position |-> Len(Before), next |-> next]
        IN  /\ \A i \in 1..Len(Before) : DOMAIN Before[i] \subseteq 1..(next - 1)
            /\ part = p
            /\ edit = Closed(p).s
            /\ ctl = Closed(p).c
            /\ buffer = None

Next ==
    \/ OpenSketch \/ LeaveSketch
    \/ \E tool \in Tools : TakeTool(tool)
    \/ MovePointer \/ Press
    \/ \E aid \in Aids : TakeAid(aid)
    \/ TypeText \/ EraseText \/ SubmitText \/ LockText
    \/ CompleteChoice \/ EnterCommits \/ Escape
    \/ CycleGripMode \/ KeepOriginal \/ MeasureBetween
    \/ DeleteSelection \/ SetRole
    \/ \E kind \in {"create", "edit"} : StartProfile(kind)
    \/ FinishProfile
    \/ Undo \/ Redo \/ Save \/ ProjectOrBreak \/ OtherEdit

Spec == Init /\ [][Next]_vars

-----------------------------------------------------------------------------
(* Properties *)

\* The sketch, the tool and what the controller remembers are of their types.
TypeOK ==
    /\ part.revision \in 1..MaxRevision
    /\ part.next \in 1..(MaxId + 1)
    /\ \A i \in 1..Len(part.timeline) :
         /\ DOMAIN part.timeline[i] \subseteq 1..(part.next - 1)
         /\ part.timeline[i] \in [DOMAIN part.timeline[i] -> Shapes]
    /\ part.position \in 1..Len(part.timeline)
    /\ IsInteraction(edit, Ids)
    /\ \A r \in {"transform", "grip", "rectangle", "structural"} :
         ctl[r] \in 1..MaxRevision \cup {None}

\* Whatever an edit holds on to is still in the sketch: the selection, the
\* boundaries of Trim and Extend, the first line of Extend Both, what is
\* measured, the owner of a grip, the captured geometry.
HoldsOnlyLive ==
    /\ TypeOK
    /\ edit.selected \subseteq Live(part)
    /\ edit.boundaries \subseteq Live(part)
    /\ edit.target # None => edit.target \in Live(part)
    /\ edit.grip # None => edit.grip.id \in Live(part)
    /\ DOMAIN edit.captured \subseteq Live(part)

\* A text that can still be submitted answers the question that is asked
\* now: every handler that changes the question tells of it.
TypedForThisQuestion == buffer # None => buffer = Asked(edit, ctl)

\* The commit of an edit is never turned down because of its revision:
\* what changes the document under an edit either ends it, makes it
\* forget its revision, or is the edit itself, which takes the new one.
NeverStale ==
    /\ {ctl.grip, ctl.transform, ctl.structural} \subseteq {part.revision, None}
    /\ edit.tool = "rectangle" => ctl.rectangle \in {part.revision, None}

\* An edit replaces geometry that is what it was when it was captured, and
\* it replaces no other.
CommitsWhatItCaptured ==
    [][/\ part' # part /\ Editing(edit)
       /\ Press \/ SubmitText \/ EnterCommits
       => /\ \A id \in DOMAIN edit.captured :
                id \in Live(part) /\ Content(part)[id] = edit.captured[id]
          /\ \A id \in Live(part) \ DOMAIN edit.captured :
                id \in Live(part') /\ Content(part')[id] = Content(part)[id]]_vars

\* Escape takes back one thing at a time and comes to an end: it leaves
\* the sketch alone, and the selection too until nothing else is left.
EscapeStepsBack ==
    [][Escape
       => /\ part' = part
          /\ edit' # edit => Rank(edit') < Rank(edit)
          /\ edit' = edit => ctl.profile # None \/ Rank(edit) = 0
          /\ edit'.selected # edit.selected => Rank(edit) = 6]_vars
=============================================================================
