--------------------------- MODULE PartEvaluation ---------------------------
(***************************************************************************)
(* What is said of every datum plane and every axis of a Part once         *)
(* evaluatePart has been over its features: whether it resolves, why not,  *)
(* and which stage of the body it is waiting for (evaluateDatums,          *)
(* resolveAxisReference).  As in PartModel the kernel builds whatever has  *)
(* its inputs and finds what it built, so that nothing is ambiguous or     *)
(* unsupported and no evaluation is stale.                                 *)
(*                                                                         *)
(* done is the set of positions of the features that are up to date.       *)
(***************************************************************************)
EXTENDS PartModel

\* A stage is a set: none or one feature.
Resolved(stage) == [status |-> "resolved", why |-> "none", stage |-> stage]

Unresolved(status, why, stage) == [status |-> status, why |-> why, stage |-> stage]

-----------------------------------------------------------------------------
(* On the body *)

\* The feature has a body of its own.
StageUp(part, done, f) == \E i \in done : part.features[i].id = f

\* What is looked up in the catalog of a stage.
InCatalog(part, done, ref, unavailable, missing) ==
    IF ~StageUp(part, done, ref.stage) THEN Unresolved("blocked", unavailable, {ref.stage})
    ELSE IF Found(part, ref, done) THEN Resolved({ref.stage})
    ELSE Unresolved("missing", missing, {ref.stage})

SurfaceOutcome(part, done, ref) ==
    InCatalog(part, done, ref, "body_stage_unavailable", "missing_surface")

ThreePointOutcome(part, done, ref) ==
    InCatalog(part, done, ref, "body_stage_unavailable", "point_source_missing")

\* The end and the middle of an edge: a stage that was deleted is told from
\* one that is not up to date.
SelectedEdge(part, done, ref) ==
    IF Found(part, ref, done) THEN "resolved"
    ELSE IF Present(part, ref.stage) /\ ~StageUp(part, done, ref.stage)
    THEN "invalid_context" ELSE "missing"

EdgePointOutcome(part, done, ref) ==
    LET edge == SelectedEdge(part, done, ref)
    IN  CASE edge = "missing" -> Unresolved("missing", "edge_source_missing", {ref.stage})
          [] edge = "invalid_context" -> Unresolved("blocked", "invalid_datum", {ref.stage})
          [] OTHER -> Resolved({ref.stage})

-----------------------------------------------------------------------------
(* Datum planes *)

\* Mutant: the stage a source waits for is not handed on.
UpstreamForgets(source) ==
    IF source.status = "resolved" THEN Resolved({})
    ELSE Unresolved("blocked",
             IF source.why = "cyclic_dependency" THEN source.why
             ELSE "upstream_datum_unavailable", {})

\* A plane that is offset from another one.
Upstream(source) ==
    IF source.status = "resolved" THEN Resolved(source.stage)
    ELSE Unresolved("blocked",
             IF source.why = "cyclic_dependency" THEN source.why
             ELSE "upstream_datum_unavailable", source.stage)

\* The Evaluator goes from an offset plane to the plane it is offset from;
\* waiting are the planes that are being evaluated.
OffsetOutcome(part, done, plane) ==
    LET datums == OffsetDatums(part)
        outcome[at \in datums \X SUBSET datums] ==
            LET d == at[1]
                waiting == at[2]
                before == {c \in datums : c.id = d.source.id}
            IN  IF d \in waiting THEN Unresolved("blocked", "cyclic_dependency", {})
                ELSE CASE d.source.kind = "origin" -> Resolved({})
                       [] d.source.kind = "surface" -> SurfaceOutcome(part, done, d.source)
                       [] OTHER ->
                            IF before = {} THEN Unresolved("missing", "missing_datum", {})
                            ELSE Upstream(outcome[<<CHOOSE c \in before : TRUE,
                                                    waiting \cup {d}>>])
    IN  outcome[<<plane, {}>>]

DatumOutcome(part, done, d) ==
    CASE d.kind = "offset" -> OffsetOutcome(part, done, d)
      [] d.kind = "edge" -> EdgePointOutcome(part, done, d.source)
      [] OTHER -> ThreePointOutcome(part, done, d.source)

-----------------------------------------------------------------------------
(* Axes *)

\* Where the sketch of a line stands; the reasons of a datum plane are not
\* passed on, its stage is.
SupportOutcome(part, done, support) ==
    LET OnPlane(plane) ==
            CASE plane.status = "missing" ->
                    Unresolved("missing", "sketch_support_missing", plane.stage)
              [] plane.status = "blocked" ->
                    Unresolved("blocked", "sketch_support_blocked", plane.stage)
              [] OTHER -> Resolved(plane.stage)
    IN  CASE support.kind = "origin" -> Resolved({})
          [] support.kind = "surface" ->
                InCatalog(part, done, support, "support_stage_unavailable",
                          "sketch_support_missing")
          [] OTHER ->
                LET planes == {d \in part.datums : d.id = support.id}
                IN  IF planes = {} THEN Unresolved("missing", "sketch_support_missing", {})
                    ELSE OnPlane(DatumOutcome(part, done, CHOOSE d \in planes : TRUE))

LineOutcome(part, done, source) ==
    LET of == SketchOf(part, source.sketch)
        s == CHOOSE s \in of : TRUE
    IN  IF of = {} THEN Unresolved("missing", "missing_sketch", {})
        ELSE IF source.entity \notin s.entities THEN Unresolved("missing", "missing_line", {})
        ELSE SupportOutcome(part, done, s.support)

StraightEdgeOutcome(part, done, ref) ==
    LET edge == SelectedEdge(part, done, ref)
    IN  CASE edge = "missing" -> Unresolved("missing", "edge_source_missing", {ref.stage})
          [] edge = "invalid_context" ->
                Unresolved("blocked", "stale_part_evaluation", {ref.stage})
          [] OTHER -> Resolved({ref.stage})

\* BodyEvaluationStatus::unavailable: a feature that is not suppressed is not
\* up to date.
BodyUnavailable(part, done) ==
    \E i \in DOMAIN part.features : ~part.features[i].suppressed /\ i \notin done

\* An axis of a face waits for the whole body, an axis along an edge does not.
CylinderOutcome(part, done, ref) ==
    IF BodyUnavailable(part, done)
    THEN Unresolved("blocked", "stale_part_evaluation", {ref.stage})
    ELSE InCatalog(part, done, ref, "support_stage_unavailable",
                   "cylindrical_face_missing")

\* evaluateAxisInDocument
AxisOutcome(part, done, a) ==
    CASE a.source.kind = "line" -> LineOutcome(part, done, a.source)
      [] a.source.kind = "edge" -> StraightEdgeOutcome(part, done, a.source)
      [] OTHER -> CylinderOutcome(part, done, a.source)
=============================================================================
