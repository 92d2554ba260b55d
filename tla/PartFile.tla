------------------------------ MODULE PartFile ------------------------------
(***************************************************************************)
(* The native file of a Part (PartDocumentStore, native document           *)
(* container): what is written for an authored state, and what is read     *)
(* from a file of any of the 21 schemas of the authored payload.           *)
(*                                                                         *)
(* A JSON object is a record, an array whose order is checked a sequence   *)
(* and any other array a set.  The reader refuses a file as a whole as     *)
(* soon as one thing in it is not as it should be; what it accepts and     *)
(* what it makes of it are two operators each.  As in PartModel an address *)
(* is its stage and its producer, a fillet and a chamfer are one kind of   *)
(* feature, and names, dimensions, geometry, relations, properties and     *)
(* visibility are left out.                                                *)
(***************************************************************************)
EXTENDS PartModel, SequencesExt

Current == 21       \* current_schema_version

Schemas == 1 .. Current

\* The first schema that has a field of the payload.
Since ==
    [sketches |-> 2, next_profile_id |-> 6, profiles |-> 6, body |-> 8,
     next_datum_id |-> 10, datum_planes |-> 10, next_axis_id |-> 12, axes |-> 12,
     edge_point_datum_planes |-> 17, three_point_datum_planes |-> 18]

Fields(v) == {f \in DOMAIN Since : Since[f] <= v}

\* A sketch lost its placement to its support and gained a model and links.
SketchFields(v) ==
    {"id", "support"} \cup {f \in {"placement"} : v < 9}
    \cup {f \in {"model"} : v >= 3} \cup {f \in {"projected_edges"} : v >= 15}

-----------------------------------------------------------------------------
(* Addresses and supports *)

StageJson(f) == [kind |-> "after_feature", feature_id |-> f]

MaterialEdgeJson(ref) ==
    [stage |-> StageJson(ref.stage), curve |-> [producer_feature_id |-> ref.producer]]

SurfaceJson(ref) ==
    [stage |-> StageJson(ref.stage), surface |-> [producer_feature_id |-> ref.producer]]

PointJson(ref) ==
    [stage |-> StageJson(ref.stage), point |-> [producer_feature_id |-> ref.producer]]

\* containsAllocated of a cursor that was read.
Known(cursor, id) == id \in 1 .. (cursor - 1)

KnownStage(cursor, stage) ==
    DOMAIN stage = {"kind", "feature_id"} /\ Known(cursor, stage.feature_id)

AcceptsEdge(cursor, json) ==
    KnownStage(cursor, json.stage) /\ Known(cursor, json.curve.producer_feature_id)

AcceptsSurface(cursor, json) ==
    KnownStage(cursor, json.stage) /\ Known(cursor, json.surface.producer_feature_id)

AcceptsPoint(cursor, json) ==
    KnownStage(cursor, json.stage) /\ Known(cursor, json.point.producer_feature_id)

Edge(json) == OnBody("edge", json.stage.feature_id, json.curve.producer_feature_id)

Surface(kind, json) ==
    OnBody(kind, json.stage.feature_id, json.surface.producer_feature_id)

Points(json) == OnBody("points", json.stage.feature_id, json.point.producer_feature_id)

\* What a sketch stands on, or an offset plane starts from.
PlaneJson(ref) ==
    CASE ref.kind = "origin" -> [kind |-> "builtin_origin_plane"]
      [] ref.kind = "datum" -> [kind |-> "datum_plane", datum_id |-> ref.id]
      [] OTHER -> [kind |-> "body_planar_surface", surface |-> SurfaceJson(ref)]

\* Before schema 14 an address is left to validAuthoredState.
AcceptsPlane(v, cursor, json) ==
    \/ json.kind = "builtin_origin_plane"
    \/ v >= 9 /\ json.kind = "body_planar_surface"
         /\ (v >= 14 => AcceptsSurface(cursor, json.surface))
    \/ v >= 10 /\ json.kind = "datum_plane"

\* A datum plane can carry a sketch only since schema 11.
AcceptsSupport(v, cursor, json) ==
    AcceptsPlane(v, cursor, json) /\ (json.kind = "datum_plane" => v >= 11)

Plane(json) ==
    CASE json.kind = "builtin_origin_plane" -> Origin
      [] json.kind = "datum_plane" -> OnDatum(json.datum_id)
      [] OTHER -> Surface("surface", json.surface)

-----------------------------------------------------------------------------
(* Sketches *)

\* The links, in the order of the entities they are links of.
BindingsJson(s) ==
    LET bindings == {[target_entity |-> l.entity, source |-> MaterialEdgeJson(l.source)] :
                         l \in s.links}
    IN  CHOOSE b \in [1 .. Cardinality(bindings) -> bindings] :
            \A i, j \in DOMAIN b : i < j => b[i].target_entity < b[j].target_entity

SketchJson(v, s, next) ==
    LET whole == [id |-> s.id, support |-> PlaneJson(s.support),
                  placement |-> PlaneJson(s.support),
                  model |-> [next_entity_id |-> next, entities |-> s.entities],
                  projected_edges |-> BindingsJson(s)]
    IN  Restrict(whole, SketchFields(v))

AcceptsModel(model) ==
    /\ DOMAIN model = {"next_entity_id", "entities"}
    /\ \A e \in model.entities : Known(model.next_entity_id, e)

AcceptsBindings(cursor, s) ==
    \A i \in DOMAIN s.projected_edges :
        LET b == s.projected_edges[i]
        IN  /\ b.target_entity \in s.model.entities
            /\ AcceptsEdge(cursor, b.source)
            /\ i > 1 => s.projected_edges[i - 1].target_entity < b.target_entity

\* The placement of an old sketch has to be that of its support.
AcceptsSketch(v, cursor, s) ==
    /\ DOMAIN s = SketchFields(v)
    /\ AcceptsSupport(v, cursor, s.support)
    /\ v < 9 => s.placement = s.support
    /\ v >= 3 => AcceptsModel(s.model)
    /\ v >= 15 => AcceptsBindings(cursor, s)

Links(s) ==
    IF "projected_edges" \in DOMAIN s
    THEN {[entity |-> b.target_entity, source |-> Edge(b.source)] :
              b \in Range(s.projected_edges)}
    ELSE {}

Sketched(s) ==
    [id |-> s.id, support |-> Plane(s.support), links |-> Links(s),
     entities |-> IF "model" \in DOMAIN s THEN s.model.entities ELSE {}]

-----------------------------------------------------------------------------
(* Axes and profiles *)

AxisJson(a) ==
    CASE a.source.kind = "line" ->
            [id |-> a.id, kind |-> "sketch_line", source_sketch_id |-> a.source.sketch,
             source_entity_id |-> a.source.entity]
      [] a.source.kind = "edge" ->
            [id |-> a.id, kind |-> "straight_body_edge",
             source_edge |-> MaterialEdgeJson(a.source)]
      [] OTHER ->
            [id |-> a.id, kind |-> "cylindrical_body_face_strict",
             source_surface |-> SurfaceJson(a.source)]

AcceptsAxis(v, cursor, next, a) ==
    /\ Known(next, a.id)
    /\ \/ a.kind = "sketch_line"
       \/ v >= 19 /\ a.kind = "straight_body_edge" /\ AcceptsEdge(cursor, a.source_edge)
       \/ v >= 20 /\ a.kind = "cylindrical_body_face_strict"
            /\ AcceptsSurface(cursor, a.source_surface)

Axis(a) ==
    [id |-> a.id,
     source |-> CASE a.kind = "sketch_line" -> OnLine(a.source_sketch_id, a.source_entity_id)
                  [] a.kind = "straight_body_edge" -> Edge(a.source_edge)
                  [] OTHER -> Surface("face", a.source_surface)]

\* A use of an entity in the boundary; its anchors are left out.
UseJson(e) == [source_entity |-> e]

ProfileJson(p) ==
    [id |-> p.id, source_sketch_id |-> p.sketch,
     region_intent |-> [outer |-> {UseJson(e) : e \in p.uses}]]

\* A loop without a boundary is no region.
AcceptsProfile(next, p) == Known(next, p.id) /\ p.region_intent.outer # {}

Region(p) ==
    [id |-> p.id, sketch |-> p.source_sketch_id,
     uses |-> {u.source_entity : u \in p.region_intent.outer}]

-----------------------------------------------------------------------------
(* Features *)

AxisReferenceJson(a) ==
    IF a = NoId THEN [kind |-> "origin_axis"]
    ELSE [kind |-> "authored_axis", axis_id |-> a]

ExtrudeJson(f) ==
    [id |-> f.id, kind |-> "extrude", suppressed |-> f.suppressed, profile_id |-> f.profile]

RevolveJson(f) ==
    [id |-> f.id, kind |-> "revolve", suppressed |-> f.suppressed,
     profile_id |-> f.profile, axis |-> AxisReferenceJson(f.axis)]

EdgeFeatureJson(f) ==
    [id |-> f.id, kind |-> "fillet", suppressed |-> f.suppressed,
     edges |-> MaterialEdgeJson(f.edges)]

FeatureJson(f) ==
    CASE f.kind = "extrude" -> ExtrudeJson(f)
      [] f.kind = "revolve" -> RevolveJson(f)
      [] OTHER -> EdgeFeatureJson(f)

AcceptsAxisReference(next, json) ==
    json.kind = "authored_axis" => Known(next, json.axis_id)

\* next are the cursors of features, profiles and axes.
AcceptsExtrude(next, f) == f.kind = "extrude" /\ Known(next.profile, f.profile_id)

AcceptsRevolve(v, next, f) ==
    /\ v >= 13 /\ f.kind = "revolve"
    /\ Known(next.profile, f.profile_id)
    /\ AcceptsAxisReference(next.axis, f.axis)

AcceptsEdgeFeature(v, next, f) ==
    v >= 14 /\ f.kind = "fillet" /\ AcceptsEdge(next.feature, f.edges)

AcceptsFeature(v, next, f) ==
    /\ Known(next.feature, f.id)
    /\ \/ AcceptsExtrude(next, f)
       \/ AcceptsRevolve(v, next, f)
       \/ AcceptsEdgeFeature(v, next, f)

Built(f) ==
    [id |-> f.id, suppressed |-> f.suppressed,
     kind |-> IF f.kind = "fillet" THEN "edges" ELSE f.kind,
     profile |-> IF f.kind = "fillet" THEN NoId ELSE f.profile_id,
     axis |-> IF f.kind = "revolve" /\ f.axis.kind = "authored_axis"
              THEN f.axis.axis_id ELSE NoId,
     edges |-> IF f.kind = "fillet" THEN Edge(f.edges) ELSE Origin]

-----------------------------------------------------------------------------
(* Datum planes, which have one id space and three arrays *)

OffsetJson(d) == [id |-> d.id, source |-> PlaneJson(d.source)]

EdgePointJson(d) == [id |-> d.id, source |-> [edge |-> MaterialEdgeJson(d.source)]]

ThreePointJson(d) == [id |-> d.id, points |-> PointJson(d.source)]

AcceptsOffset(v, next, d) ==
    Known(next.datum, d.id) /\ AcceptsPlane(v, next.feature, d.source)

AcceptsEdgePoint(next, d) ==
    Known(next.datum, d.id) /\ AcceptsEdge(next.feature, d.source.edge)

AcceptsThreePoint(next, d) ==
    Known(next.datum, d.id) /\ AcceptsPoint(next.feature, d.points)

OffsetPlane(d) == [id |-> d.id, kind |-> "offset", source |-> Plane(d.source)]

EdgePointPlane(d) == [id |-> d.id, kind |-> "edge", source |-> Edge(d.source.edge)]

ThreePointPlane(d) == [id |-> d.id, kind |-> "points", source |-> Points(d.points)]

-----------------------------------------------------------------------------
(* The payload *)

OfKind(part, kind) == {d \in part.datums : d.kind = kind}

\* The payload as schema v has it; serializeAuthored writes the current one.
Authored(v, part, cursor) ==
    LET whole ==
            [sketches |-> {SketchJson(v, s, cursor[s.id]) : s \in part.sketches},
             next_profile_id |-> part.next.profile,
             profiles |-> {ProfileJson(p) : p \in part.profiles},
             body |-> [next_feature_id |-> part.next.feature,
                       features |-> [i \in DOMAIN part.features |->
                                        FeatureJson(part.features[i])]],
             next_datum_id |-> part.next.datum,
             datum_planes |-> {OffsetJson(d) : d \in OfKind(part, "offset")},
             next_axis_id |-> part.next.axis,
             axes |-> {AxisJson(a) : a \in part.axes},
             edge_point_datum_planes |-> {EdgePointJson(d) : d \in OfKind(part, "edge")},
             three_point_datum_planes |-> {ThreePointJson(d) : d \in OfKind(part, "points")}]
    IN  Restrict(whole, Fields(v))

\* A field an old schema does not have is empty.
Items(a, f) == IF f \in DOMAIN a THEN a[f] ELSE {}

\* So is a cursor as it is in a new Part.
Cursor(a, f) == IF f \in DOMAIN a THEN a[f] ELSE 1

\* Mutant: the cursor is what the features that are there suggest.
NextFeatureAfterLargest(a) ==
    IF "body" \in DOMAIN a
    THEN 1 + Max({0} \cup {f.id : f \in Range(a.body.features)})
    ELSE 1

NextFeature(a) == IF "body" \in DOMAIN a THEN a.body.next_feature_id ELSE 1

Features(a) == IF "body" \in DOMAIN a THEN a.body.features ELSE <<>>

Cursors(a) ==
    [datum |-> Cursor(a, "next_datum_id"), axis |-> Cursor(a, "next_axis_id"),
     profile |-> Cursor(a, "next_profile_id"), feature |-> NextFeature(a)]

\* Sketches, axes and datum planes are read with the cursor of the features,
\* which is looked up in the body before that is read.
Accepts(v, a) ==
    LET next == Cursors(a)
    IN  /\ DOMAIN a = Fields(v)
        /\ \A s \in Items(a, "sketches") : AcceptsSketch(v, next.feature, s)
        /\ UniqueIds(Items(a, "sketches"))
        /\ \A x \in Items(a, "axes") : AcceptsAxis(v, next.feature, next.axis, x)
        /\ UniqueIds(Items(a, "axes"))
        /\ \A p \in Items(a, "profiles") : AcceptsProfile(next.profile, p)
        /\ \A i \in DOMAIN Features(a) : AcceptsFeature(v, next, Features(a)[i])
        /\ \A d \in Items(a, "datum_planes") : AcceptsOffset(v, next, d)
        /\ \A d \in Items(a, "edge_point_datum_planes") : AcceptsEdgePoint(next, d)
        /\ \A d \in Items(a, "three_point_datum_planes") : AcceptsThreePoint(next, d)

Restored(a) ==
    [sketches |-> {Sketched(s) : s \in Items(a, "sketches")},
     axes |-> {Axis(x) : x \in Items(a, "axes")},
     profiles |-> {Region(p) : p \in Items(a, "profiles")},
     features |-> [i \in DOMAIN Features(a) |-> Built(Features(a)[i])],
     datums |-> {OffsetPlane(d) : d \in Items(a, "datum_planes")}
                \cup {EdgePointPlane(d) : d \in Items(a, "edge_point_datum_planes")}
                \cup {ThreePointPlane(d) : d \in Items(a, "three_point_datum_planes")},
     next |-> Cursors(a)]

\* The entity cursors, 1 where there is no model.
RestoredCursor(a, k) ==
    LET models == {s.model : s \in {t \in Items(a, "sketches") :
                                        t.id = k /\ "model" \in DOMAIN t}}
    IN  IF models = {} THEN 1 ELSE (CHOOSE m \in models : TRUE).next_entity_id

-----------------------------------------------------------------------------
(* The container *)

Manifest == "manifest.json"
Payload == "authored/document.json"

\* Also on disk may be whatever starts with "derived/".
Derived == "derived/"

Packed(id, v, a) ==
    [name \in {Manifest, Payload} |->
        IF name = Payload THEN a
        ELSE [container_version |-> 1, document_kind |-> "part", document_id |-> id,
              domain_schema_version |-> v]]

Unpacks(c) ==
    /\ DOMAIN c \subseteq {Manifest, Payload, Derived}
    /\ {Manifest, Payload} \subseteq DOMAIN c
    /\ DOMAIN c[Manifest] = {"container_version", "document_kind", "document_id",
                             "domain_schema_version"}
    /\ c[Manifest].container_version = 1

\* PartDocumentStore::load of a file that is there and has the extension, as
\* far as the format goes,
Parses(c) ==
    /\ Unpacks(c)
    /\ c[Manifest].document_kind = "part"
    /\ c[Manifest].domain_schema_version \in Schemas
    /\ Accepts(c[Manifest].domain_schema_version, c[Payload])

\* and with PartDocument::restore at its end.
Loads(c) == Parses(c) /\ Valid(Restored(c[Payload]))
=============================================================================
