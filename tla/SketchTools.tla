---------------------------- MODULE SketchTools -----------------------------
(***************************************************************************)
(* The interaction state of the sketch editor, as operators from record to *)
(* record: one tool is active, at one of its stages; it keeps what has     *)
(* been picked and what the edit under way has captured of the sketch.     *)
(*                                                                         *)
(* Coordinates are left out: a stage says which points are known.  The     *)
(* content of a sketch maps identifiers to shapes (geometry and role); a   *)
(* transform applies a motion to the shapes it has captured.  A rectangle  *)
(* is one entity.                                                          *)
(***************************************************************************)
EXTENDS Naturals, FiniteSets

CONSTANTS
    Shapes,     \* what an entity can look like
    None

CreationTools == {"line", "circle", "arc", "rectangle"}
StructuralTools == {"trim", "extend", "extend_both"}
TransformTools == {"move", "copy", "rotate", "scale", "mirror"}
AllTools ==
    {"select", "measure"} \cup CreationTools \cup StructuralTools
        \cup TransformTools

FirstStage ==
    [tool \in AllTools |->
        CASE tool = "line" -> "first_point"
          [] tool = "circle" -> "center"
          [] tool = "arc" -> "start"
          [] tool = "rectangle" -> "first_corner"
          [] tool = "mirror" -> "axis_start"
          [] tool \in TransformTools \ {"mirror"} -> "base_point"
          [] tool = "measure" -> "single"
          [] OTHER -> "none"]

\* The stages that a point leads out of, but the last of each tool.
NextStage(s) ==
    CASE s.stage = "first_point" -> "next_point"
      [] s.stage = "center" -> "radius"
      [] s.stage = "start" -> "end"
      [] s.stage = "end" -> "arc_point"
      [] s.stage = "first_corner" -> "opposite_corner"
      [] s.stage = "base_point" ->
            IF s.tool \in {"move", "copy"} THEN "destination"
            ELSE "reference_point"
      [] s.stage = "reference_point" -> "destination"
      [] s.stage = "axis_start" -> "axis_end"

CreationStages ==
    {"next_point", "radius", "arc_point", "opposite_corner"}
ReferenceStages == {"base_point", "reference_point", "axis_start"}
FinalStages == {"destination", "axis_end"}
Stages ==
    {FirstStage[tool] : tool \in AllTools} \cup CreationStages
        \cup ReferenceStages \cup FinalStages \cup {"end", "objects", "between"}

\* How a transform moves what it has captured: shapes that differ stay
\* apart.  The identity is a placement that changes nothing.
Motions ==
    {f \in [Shapes -> Shapes] : \A a, b \in Shapes : f[a] = f[b] => a = b}

Identity == CHOOSE f \in Motions : \A a \in Shapes : f[a] = a

NoShapes == [id \in {} |-> None]

Capture(content, ids) == [id \in ids |-> content[id]]

Modes == {"reshape", "move", "rotate", "scale", "mirror"}

-----------------------------------------------------------------------------
(* Tools *)

\* A tool is activated with nothing acquired and the selection it finds.
Fresh(tool, selected) ==
    [tool       |-> tool,
     stage      |-> FirstStage[tool],
     pending    |-> FALSE,      \* a request the document has not answered
     candidate  |-> FALSE,      \* where the pointer is
     locks      |-> {},         \* typed fields of a point, typed sizes
     aids       |-> {},         \* snap override, tracking anchors
     selected   |-> selected,
     captured   |-> NoShapes,   \* the geometry a transform or a grip began with
     preview    |-> None,       \* the motion it would apply, if it has one
     explicit   |-> None,       \* the motion that was typed
     boundaries |-> {},
     target     |-> None,       \* measured, or the first line to extend
     grip       |-> None]

Activate(s, tool) == Fresh(tool, s.selected)

ToSelect(s) == Activate(s, "select")

\* The sole selected entity is measured at once.
ActivateMeasure(s, content) ==
    [Activate(s, "measure") EXCEPT
        !.target = IF Cardinality(s.selected) = 1
                        /\ s.selected \subseteq DOMAIN content
                   THEN CHOOSE id \in s.selected : TRUE ELSE None]

ActivateStructural(s, tool) ==
    IF tool = "extend_both" THEN Fresh(tool, {})
    ELSE [Activate(s, tool) EXCEPT !.boundaries = s.selected]

BoundariesPending(s) == s.tool \in {"trim", "extend"} /\ s.boundaries = {}

\* Without a selection the objects are asked for first.
Capturable(s, content) ==
    s.selected # {} /\ s.selected \subseteq DOMAIN content

ActivateTransform(s, tool, content) ==
    CASE s.selected = {} -> [Activate(s, tool) EXCEPT !.stage = "objects"]
      [] Capturable(s, content) ->
            [Activate(s, tool) EXCEPT !.captured = Capture(content, s.selected)]
      [] OTHER -> ToSelect(s)

CompleteObjects(s, content) ==
    [s EXCEPT !.stage = FirstStage[s.tool],
              !.captured = Capture(content, s.selected),
              !.preview = None, !.explicit = None, !.candidate = FALSE]

-----------------------------------------------------------------------------
(* Points and values *)

\* The point asked for, if one is: is it measured from a base, and is a
\* bare distance along the pointer enough?
PointRequested(s) ==
    \/ s.grip # None
    \/ s.tool \in CreationTools /\ ~s.pending
    \/ s.tool \in TransformTools /\ s.stage # "objects"

Based(s) ==
    \/ s.grip # None
    \/ s.stage \in {"next_point", "radius", "end", "opposite_corner",
                    "reference_point", "destination", "axis_end"}

DistanceRequested(s) ==
    IF s.grip # None THEN s.grip.mode \in {"reshape", "move"}
    ELSE \/ s.stage \in {"next_point", "end"}
         \/ s.stage = "destination" /\ s.tool \in {"move", "copy"}

ValueRequested(s) ==
    \/ s.grip # None /\ s.grip.mode \in {"rotate", "scale", "mirror"}
    \/ s.stage \in {"radius", "arc_point"}
    \/ s.stage = "destination" /\ s.tool \in {"rotate", "scale"}

PairRequested(s) == s.stage = "opposite_corner"

\* A point short of the last one is taken: what was locked for it is spent.
TakePoint(s) ==
    [s EXCEPT !.stage = NextStage(s),
              !.candidate = IF s.tool = "circle" THEN @ ELSE TRUE,
              !.locks = {}, !.aids = {}, !.explicit = None]

\* A whole typed point of an arc sets its typed radius aside.
SetAside(s) ==
    IF s.stage = "arc_point" THEN [s EXCEPT !.locks = @ \ {"size"}] ELSE s

\* The last point or size of a new entity makes a request.
MakeRequest(s) ==
    [s EXCEPT !.pending = TRUE,
              !.aids = IF s.tool = "circle" THEN @ ELSE {}]

\* The answer of the document: a line goes on from its end, another entity
\* is begun anew; a refused one may be tried again.
Resolve(s, committed) ==
    IF ~committed THEN [s EXCEPT !.pending = FALSE]
    ELSE IF s.tool = "line"
    THEN [s EXCEPT !.pending = FALSE, !.candidate = TRUE, !.locks = {}]
    ELSE Activate(s, s.tool)

LockSize(s) == [s EXCEPT !.locks = @ \cup {"size"}]
LockField(s) == [s EXCEPT !.locks = @ \cup {"field"}]

-----------------------------------------------------------------------------
(* Transforms and grips *)

\* A point of a transform; the destination starts where it changes nothing,
\* the axis where it is none yet.
TakeTransformPoint(s) ==
    [TakePoint(s) EXCEPT
        !.preview = IF NextStage(s) = "destination" THEN Identity ELSE None]

\* What a commit would leave of the captured geometry: a typed value goes
\* before the pointer, and a reshape moves only the owner of the grip.
Motion(s) == IF s.explicit # None THEN s.explicit ELSE s.preview

Affected(s) ==
    IF s.grip # None /\ s.grip.mode = "reshape" THEN {s.grip.id}
    ELSE DOMAIN s.captured

Moved(s) == [id \in Affected(s) |-> Motion(s)[s.captured[id]]]

\* A typed value covers what the pointer would do, until it is dropped.
TypeValue(s, motion) == [s EXCEPT !.explicit = motion, !.preview = None]

Uncovered(before, s) ==
    IF before.explicit # None /\ s.explicit = None
    THEN {[s EXCEPT !.preview = m] : m \in Motions \cup {None}} ELSE {s}

\* A copy may be placed again, from the same captured geometry.
ContinueCopy(s) ==
    IF s.grip # None
    THEN [s EXCEPT !.preview = IF s.grip.mode \in {"reshape", "move"}
                               THEN Identity ELSE None,
                   !.candidate = FALSE, !.locks = {}, !.aids = {}]
    ELSE [s EXCEPT !.preview = None, !.candidate = FALSE, !.aids = {}]

\* The center of an entity moves it; every other grip reshapes it.
BeginGrip(s, content, id, center) ==
    [s EXCEPT
        !.grip = [id |-> id, center |-> center, copy |-> FALSE,
                  mode |-> IF center THEN "move" ELSE "reshape"],
        !.captured = Capture(content, s.selected),
        !.preview = Identity,
        !.candidate = TRUE]

NextMode(grip) ==
    CASE grip.mode = "reshape" -> "move"
      [] grip.mode = "move" -> "rotate"
      [] grip.mode = "rotate" -> "scale"
      [] grip.mode = "scale" -> "mirror"
      [] OTHER -> IF grip.center THEN "move" ELSE "reshape"

CycleMode(s, motion) ==
    [s EXCEPT !.grip = [@ EXCEPT !.mode = NextMode(s.grip), !.copy = FALSE],
              !.preview = motion, !.explicit = None,
              !.locks = @ \ {"field"}]

FinishGrip(s) == ToSelect(s)

\* Cancelling drops the snap override and keeps the tracking anchors.
CancelGrip(s) == [ToSelect(s) EXCEPT !.aids = s.aids \ {"override"}]

-----------------------------------------------------------------------------
(* Selection, Escape and history *)

SelectionMutable(s) ==
    s.grip = None /\ (s.tool \in TransformTools => s.stage = "objects")

\* Mutant: entities that are gone stay selected.
ReconcileNothing(s, content) == s

\* Entities that are gone leave the selection, unless an edit holds it.
ReconcileSelection(s, content) ==
    IF SelectionMutable(s)
    THEN [s EXCEPT !.selected = @ \cap DOMAIN content] ELSE s

\* Mutant: leaving a stage of a tool drops the selection as well.
EscapedDropping(s) ==
    IF s.aids # {} THEN [s EXCEPT !.aids = {}]
    ELSE IF s.locks # {} \/ s.explicit # None
    THEN [s EXCEPT !.locks = {}, !.explicit = None]
    ELSE IF s.grip # None THEN [CancelGrip(s) EXCEPT !.selected = {}]
    ELSE IF s.tool \in CreationTools /\ s.stage # FirstStage[s.tool]
    THEN Activate(s, s.tool)
    ELSE IF s.stage = "between" THEN [s EXCEPT !.stage = "single"]
    ELSE IF s.tool = "select" THEN [s EXCEPT !.selected = {}]
    ELSE ToSelect(s)

\* Escape takes back the last thing: an aid, a typed lock, the grip, the
\* points of a tool, the tool, the selection.
Escaped(s) ==
    IF s.aids # {} THEN [s EXCEPT !.aids = {}]
    ELSE IF s.locks # {} \/ s.explicit # None
    THEN [s EXCEPT !.locks = {}, !.explicit = None]
    ELSE IF s.grip # None THEN CancelGrip(s)
    ELSE IF s.tool \in CreationTools /\ s.stage # FirstStage[s.tool]
    THEN Activate(s, s.tool)
    ELSE IF s.stage = "between" THEN [s EXCEPT !.stage = "single"]
    ELSE IF s.tool = "select" THEN [s EXCEPT !.selected = {}]
    ELSE ToSelect(s)

\* How many steps back are left.
Rank(s) ==
    Cardinality(s.aids)
    + (IF s.locks # {} \/ s.explicit # None THEN 3 ELSE 0)
    + 6 * (IF s.grip # None THEN 2
           ELSE IF s.tool = "select" THEN IF s.selected = {} THEN 0 ELSE 1
           ELSE IF s.stage = FirstStage[s.tool] THEN 3 ELSE 4)

Kept(motion) == motion = None \/ motion \in Motions

IsInteraction(s, ids) ==
    /\ s.tool \in AllTools /\ s.stage \in Stages
    /\ s.pending \in BOOLEAN /\ s.candidate \in BOOLEAN
    /\ s.locks \subseteq {"field", "size"}
    /\ s.aids \subseteq {"override", "tracking"}
    /\ s.selected \subseteq ids /\ s.boundaries \subseteq ids
    /\ DOMAIN s.captured \subseteq ids
    /\ s.captured \in [DOMAIN s.captured -> Shapes]
    /\ Kept(s.preview) /\ Kept(s.explicit)
    /\ s.target # None => s.target \in ids
    /\ s.grip # None =>
         s.grip \in [id : ids, center : BOOLEAN, copy : BOOLEAN, mode : Modes]
=============================================================================
