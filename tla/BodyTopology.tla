---------------------------- MODULE BodyTopology ----------------------------
(***************************************************************************)
(* What the features of a body mean, stage by stage: evaluatePart runs the *)
(* authored features in order, the modelling kernel builds each one with   *)
(* OCCT and reports where the faces, edges and vertices of the previous    *)
(* stage have gone, and the Part keeps, for every surface, curve and point *)
(* it has given a meaning, what represents it now.  Durable references to  *)
(* edges are addresses of such meanings, never kernel handles.             *)
(*                                                                         *)
(* A meaning is resolved, missing, ambiguous or unsupported.  A stage      *)
(* whose topology does not add up is refused as topology_integrity_failure *)
(* and the features after it are blocked.                                  *)
(*                                                                         *)
(* What OCCT builds, and what history it reports, is a constant.  Frames,  *)
(* dimensions and the strict meaning of bounded faces are left out.        *)
(* Runtime tokens are pairs and triples that name the stage they are from, *)
(* so that no token is issued twice.                                       *)
(***************************************************************************)
EXTENDS Naturals, Sequences, FiniteSets

CONSTANTS
    Answers(_, _, _),  \* what OCCT may build on a shape, by operation and
                       \* selected edges
    NoShape,           \* the shape there is before the first feature
    MaxFeatures        \* how many features a body has at most

ASSUME TopologyAssumption ==
    /\ MaxFeatures \in Nat
    /\ DOMAIN NoShape.edges = {} /\ DOMAIN NoShape.vertices = {}

VARIABLES
    plan,       \* the authored features: operation, edge references, suppressed
    stage,      \* how many of them the evaluation has passed
    after,      \* the feature the catalog is of: the last one evaluated, or 0
    solid,      \* the runtime solid: its shape and the surfaces it tracks
    surfaces,   \* current_surfaces
    curves,     \* current_curves
    points,     \* current_points
    edges,      \* the edge records of current_topology
    vertices,   \* its vertex records
    diagnostic  \* of the feature that stopped the evaluation

meaning == <<surfaces, curves, points, edges, vertices>>

vars == <<plan, stage, after, solid, meaning, diagnostic>>

\* A function as a table: TLC evaluates its values once, not at every use.
Table(f) == CHOOSE t \in {f} : t = t

NoToken == <<0, "none", 0>>

Token(kind, i) == <<stage + 1, kind, i>>

FaceTokens(faces) == {<<stage + 1, f>> : f \in faces}

Shape == solid.shape

-----------------------------------------------------------------------------
(* The kernel: surfaces *)

\* finishBoolean and finishEdgeFeature, as far as they judge the solid.
KernelStatus(op, built) ==
    CASE built = "good"      -> "ok"
      [] built = "no shape"  -> IF op = "cut" THEN "empty_result" ELSE "provider_failure"
      [] built = "no solid"  -> IF op = "add" THEN "provider_failure" ELSE "empty_result"
      [] built = "two"       -> IF op = "add" THEN "detached_add" ELSE "multi_solid"
      [] built = "invalid"   -> "invalid_brep"
      [] built = "unchanged" -> "no_effect"
      [] OTHER               -> "provider_failure"

Status(faces, aliased) ==
    IF faces = {} THEN "missing" ELSE IF aliased THEN "ambiguous" ELSE "resolved"

\* The faces a tracked surface descends to.
InheritedClaims(a) ==
    [s \in DOMAIN solid.tracked |->
        UNION {a.faceOf[f] : f \in solid.tracked[s].faces}]

\* surfaceClaimsHaveCertifiedContinuation
Continues(a, made, claims, s) ==
    /\ solid.tracked[s].plane
    /\ \/ made.faces \cap claims[s] # {}
       \/ \E f \in made.faces, g \in claims[s] : {f, g} \in a.same

\* The one inherited surface that a plane created by an Add continues.
Continuation(op, a, made, claims) ==
    LET found == {s \in DOMAIN claims : /\ op = "add" /\ made.plane /\ made.faces # {}
                                        /\ Continues(a, made, claims, s)}
    IN  IF Cardinality(found) = 1 THEN found ELSE {}

\* applyAddSurfaceContinuations: what is continued takes the faces over, and
\* the next created plane is compared with the outcome.
Continued(op, a) ==
    LET upTo[i \in 0 .. Len(a.made)] ==
            IF i = 0 THEN [claims |-> InheritedClaims(a), into |-> <<>>]
            ELSE LET made == a.made[i]
                     claims == upTo[i - 1].claims
                     into == Continuation(op, a, made, claims)
                 IN  [claims |-> [s \in DOMAIN claims |->
                                     IF s \in into THEN claims[s] \cup made.faces
                                                   ELSE claims[s]],
                      into |-> Append(upTo[i - 1].into, into)]
    IN  upTo[Len(a.made)]

\* publishSurfaceLineage: a face that two surfaces claim makes both ambiguous.
SurfaceLineage(op, a) ==
    LET claims == Continued(op, a).claims
        into   == Continued(op, a).into
        new    == [i \in DOMAIN a.made |-> IF into[i] = {} THEN a.made[i].faces ELSE {}]
        Owners(f) == Cardinality({s \in DOMAIN claims : f \in claims[s]})
                         + Cardinality({i \in DOMAIN new : f \in new[i]})
        Aliased(faces) == \E f \in faces : Owners(f) > 1
    IN  [inherited |-> Table([s \in DOMAIN claims |->
            [status |-> Status(claims[s], Aliased(claims[s])), faces |-> claims[s]]]),
         made |-> Table([i \in DOMAIN new |->
            [status |-> Status(new[i], Aliased(new[i])), faces |-> new[i], into |-> into[i]]])]

\* The surfaces the new solid tracks: those that are resolved.
TrackedAfter(a, lineage) ==
    LET old == {s \in DOMAIN lineage.inherited : lineage.inherited[s].status = "resolved"}
        new == {i \in DOMAIN lineage.made : lineage.made[i].status = "resolved"}
        tokens == old \cup {Token("made", i) : i \in new}
    IN  [t \in tokens |->
            IF t \in old
            THEN [plane |-> solid.tracked[t].plane, faces |-> lineage.inherited[t].faces]
            ELSE LET i == CHOOSE j \in new : t = Token("made", j)
                 IN  [plane |-> a.made[i].plane, faces |-> lineage.made[i].faces]]

-----------------------------------------------------------------------------
(* The kernel: transition surfaces of a fillet or chamfer *)

\* sourceSurfaceTokensForEdge
SurfacesOfEdge(e) ==
    {s \in DOMAIN solid.tracked : solid.tracked[s].faces \cap Shape.edges[e].on # {}}

\* generatedFaceTouchesSurface
Touches(a, tracked, f, s) ==
    /\ s \in DOMAIN tracked
    /\ \E e \in DOMAIN a.shape.edges :
          f \in a.shape.edges[e].on /\ a.shape.edges[e].on \cap tracked[s].faces # {}

\* generatedFaceMatchesSourceEdge: a generated face belongs to the selected
\* edges both of whose surfaces it touches.
SourcesOf(a, tracked, selected, f) ==
    {e \in selected : /\ Cardinality(SurfacesOfEdge(e)) = 2
                      /\ \A s \in SurfacesOfEdge(e) : Touches(a, tracked, f, s)}

\* sharedSelectedVertices
Corners(selected) ==
    {v \in DOMAIN Shape.vertices :
        Cardinality({e \in selected : v \in Shape.edges[e].ends}) >= 2}

Generated(a, selected) == UNION {a.generated[e] : e \in selected}

Homogeneous(a, faces) == faces \subseteq a.shape.planes \/ faces \cap a.shape.planes = {}

\* publishEdgeFeatureGeneratedSurfaces: every generated face has one source,
\* every selected edge has one, and all faces have exactly one owner.
TransitionsOf(a, tracked, selected) ==
    LET ofEdge == [e \in selected |-> {f \in Generated(a, selected) :
                                          SourcesOf(a, tracked, selected, f) = {e}}]
        corners == {v \in Corners(selected) : a.corner[v] # {}}
        edgeParts == {[kind |-> "edge", source |-> e, incident |-> {e},
                       faces |-> ofEdge[e]] : e \in selected}
        cornerParts == {[kind |-> "corner", source |-> v, faces |-> a.corner[v],
                         incident |-> {e \in selected : v \in Shape.edges[e].ends}] :
                            v \in corners}
        parts == edgeParts \cup cornerParts
        owned == UNION {tracked[s].faces : s \in DOMAIN tracked}
    IN  [parts |-> parts,
         exact |-> /\ Generated(a, selected) # {}
                   /\ \A v \in corners : a.corner[v] \cap Generated(a, selected) = {}
                   /\ \A f \in Generated(a, selected) :
                         Cardinality(SourcesOf(a, tracked, selected, f)) = 1
                   /\ \A p \in parts : p.faces # {} /\ Homogeneous(a, p.faces)
                   /\ \A f \in a.shape.faces :
                         Cardinality({s \in DOMAIN tracked : f \in tracked[s].faces})
                             + Cardinality({p \in parts : f \in p.faces}) = 1]

TrackedWith(a, tracked, parts) ==
    LET TokenOf(p) == Token(p.kind, p.source)
    IN  [t \in DOMAIN tracked \cup {TokenOf(p) : p \in parts} |->
            IF t \in DOMAIN tracked THEN tracked[t]
            ELSE LET p == CHOOSE q \in parts : TokenOf(q) = t
                 IN  [plane |-> p.faces \subseteq a.shape.planes, faces |-> p.faces]]

-----------------------------------------------------------------------------
(* The kernel: populateCurrentTopologySemantics *)

Adjacent(tracked, on) == {s \in DOMAIN tracked : tracked[s].faces \cap on # {}}

\* An edge inside one surface that keeps two of its faces apart.
Partition(tracked, edge) ==
    /\ ~edge.seam
    /\ Cardinality(Adjacent(tracked, edge.on)) = 1
    /\ \A s \in Adjacent(tracked, edge.on) :
          Cardinality(tracked[s].faces \cap edge.on) >= 2

Material(tracked, edge) == ~edge.seam /\ ~Partition(tracked, edge)

-----------------------------------------------------------------------------
(* Part: surfaces *)

ActiveStatus == {"resolved", "ambiguous"}

Active(set) == {x \in set : x.status \in ActiveStatus}

\* Mutant: what a surface is made of is not brought up to date.
PropagatedSurfacesStale(lineage) ==
    {IF s.status = "resolved" /\ s.token \in DOMAIN lineage.inherited
     THEN [s EXCEPT !.status = lineage.inherited[s.token].status] ELSE s : s \in surfaces}

\* propagateCurrentSurfaces: only what was resolved is looked up; a surface
\* that was ambiguous keeps the faces it had.
PropagatedSurfaces(lineage) ==
    {IF s.status # "resolved" \/ s.token \notin DOMAIN lineage.inherited THEN s
     ELSE LET item == lineage.inherited[s.token]
          IN  [s EXCEPT !.status = item.status,
                        !.faces = FaceTokens(item.faces),
                        !.token = IF item.status = "resolved" THEN @ ELSE NoToken] :
        s \in surfaces}

TokensAgree(lineage) ==
    LET resolved == {s \in surfaces : s.status = "resolved"}
    IN  /\ \A s, t \in resolved : s.token = t.token => s = t
        /\ {s.token : s \in resolved} = DOMAIN lineage.inherited

Surface(role, class, of, at, plane, status, token, faces) ==
    [address |-> [producer |-> stage + 1, role |-> role, class |-> class,
                  of |-> of, at |-> at],
     plane |-> plane, status |-> status, token |-> token, faces |-> FaceTokens(faces)]

\* convertNewSurface, for the new surfaces that continue none.
MadeSurfaces(a, lineage) ==
    {LET m == lineage.made[i]
     IN  Surface(a.made[i].role, a.made[i].class, {}, {}, a.made[i].plane, m.status,
                 IF m.status = "resolved" THEN Token("made", i) ELSE NoToken, m.faces) :
        i \in {j \in DOMAIN lineage.made : lineage.made[j].into = {}}}

\* semanticPointForRuntimeVertex: the one resolved point at a vertex, if any.
PointAt(v) ==
    {p \in points : /\ p.status = "resolved" /\ p.vertices = {v}
                    /\ vertices[v].status = "resolved"
                    /\ vertices[v].candidates = {p.address}}

\* convertEdgeFeatureSurface: a transition is named for the authored edge, a
\* corner for the point and the authored edges that meet in it.
TransitionSurface(a, part, refs) ==
    LET isPlane == part.faces \subseteq a.shape.planes
        of == {refs[e] : e \in part.incident}
        at == IF part.kind = "edge" THEN {} ELSE {p.address : p \in PointAt(part.source)}
    IN  Surface(part.kind, "transition", of, at, isPlane, "resolved",
                Token(part.kind, part.source), part.faces)

\* resolvedPlanarSourceFrames: a plane is framed by the planes it is between.
Framed(addresses) ==
    /\ \A x \in addresses : \E s \in surfaces : s.address = x /\ s.status = "resolved"
    /\ \E s \in surfaces : s.address \in addresses /\ s.plane

TransitionConverts(surface) ==
    /\ surface.address.role = "corner" => surface.address.at # {}
    /\ surface.plane =>
          Framed(IF surface.address.role = "corner"
                 THEN UNION {p.on : p \in surface.address.at}
                 ELSE UNION {r.curve.pair : r \in surface.address.of})

-----------------------------------------------------------------------------
(* Part: what an edge and a vertex mean *)

NoRelation == [role |-> "none", kind |-> "other", pair |-> {}]

\* semanticSurfaceForRuntimeToken, for every surface an edge or vertex is on.
Known(surfs, tokens) ==
    \A t \in tokens : \E s \in surfs : s.status = "resolved" /\ s.token = t

Meant(surfs, tokens) ==
    {s \in surfs : s.status = "resolved" /\ s.token \in tokens}

\* The role of the curve between two surfaces, or "none".
CurveRole(s, t) ==
    LET classes == {s.address.class, t.address.class}
    IN  CASE "transition" \in classes -> "edge feature boundary"
          [] s.address.producer # t.address.producer -> "boolean intersection"
          [] classes \in {{"cap", "side"}, {"revolve cap", "revolve side"}} -> "cap side"
          [] classes \in {{"side"}, {"revolve side"}} -> "side side"
          [] OTHER -> "none"

\* The curve an Extrude must have swept between two of its surfaces.
SweptKind(s, t) ==
    LET swept == s.address.class = "side" \/ t.address.class = "side"
        sides == {x \in {s, t} : x.address.class = "side"}
    IN  CASE ~swept -> "any"
          [] CurveRole(s, t) = "side side" -> "line"
          [] CurveRole(s, t) = "cap side" ->
                IF \A x \in sides : x.plane THEN "line" ELSE "circle"
          [] OTHER -> "any"

\* The two known surfaces an edge of the material is between, if it is.
Between(tracked, surfs, edge) ==
    LET tokens == Adjacent(tracked, edge.on)
        meant == Meant(surfs, tokens)
    IN  {p \in meant \X meant :
            /\ Material(tracked, edge)
            /\ Known(surfs, tokens)
            /\ Cardinality(meant) = 2
            /\ p[1] # p[2]
            /\ CurveRole(p[1], p[2]) # "none"}

\* curveRelationForObservation
CurveRelation(tracked, surfs, edge) ==
    LET between == Between(tracked, surfs, edge)
        p == CHOOSE q \in between : TRUE
    IN  IF between = {} \/ edge.kind = "other" THEN NoRelation
        ELSE [role |-> CurveRole(p[1], p[2]), kind |-> edge.kind,
              pair |-> {p[1].address, p[2].address}]

\* provider_mismatch: OCCT's curve is not the one that was swept.
CurveMismatch(tracked, surfs, edge) ==
    \E p \in Between(tracked, surfs, edge) :
        SweptKind(p[1], p[2]) \notin {"any", edge.kind}

\* pointRelationForObservation: the three surfaces a vertex is on, if it is.
PointRelation(tracked, surfs, on) ==
    LET tokens == Adjacent(tracked, on)
        meant == Meant(surfs, tokens)
    IN  IF Known(surfs, tokens) /\ Cardinality(meant) = 3
        THEN {s.address : s \in meant} ELSE {}

-----------------------------------------------------------------------------
(* Part: buildCurveStage *)

RelationOf(c) == [role |-> c.address.role, kind |-> c.kind, pair |-> c.address.pair]

Strict(set) ==
    IF set = {} THEN "missing" ELSE IF Cardinality(set) = 1 THEN "resolved" ELSE "ambiguous"

\* The edges OCCT says a curve has become.  Where a fillet or chamfer lost
\* the history of all of them, the edges with the same relation.
Descendants(a, op, relation, c) ==
    LET lineage == UNION {a.edgeOf[e] : e \in c.edges}
    IN  IF lineage = {} /\ op = "edges"
        THEN {e \in DOMAIN relation : relation[e] = RelationOf(c)}
        ELSE lineage

Lost(x) == [x EXCEPT !.status = "missing", !.strict = "missing", !.edges = {}]

\* Mutant: a curve that was missing goes on as well.
CurveAfterMissing(a, op, relation, c) ==
    LET descendants == Descendants(a, op, relation, c)
    IN  IF descendants = {} \/ \E e \in descendants : relation[e] # RelationOf(c)
        THEN Lost(c)
        ELSE [c EXCEPT !.edges = descendants, !.strict = Strict(descendants),
                       !.status = Strict(descendants)]

\* A curve goes on in its descendants if every one of them still has its
\* relation; it stays resolved although it may have several edges.
CurveAfter(a, op, relation, c) ==
    LET descendants == Descendants(a, op, relation, c)
    IN  IF c.status \notin ActiveStatus THEN c
        ELSE IF \/ descendants = {}
                \/ \E e \in descendants : relation[e] # RelationOf(c)
        THEN Lost(c)
        ELSE [c EXCEPT !.edges = descendants,
                       !.strict = Strict(descendants),
                       !.status = IF @ = "resolved" THEN @ ELSE Strict(descendants)]

\* Curves that share an edge are ambiguous: there is no first among them.
CurvesApart(set) ==
    {IF \E d \in Active(set) : d # c /\ c.status \in ActiveStatus /\ c.edges \cap d.edges # {}
     THEN [c EXCEPT !.status = "ambiguous", !.strict = "ambiguous"]
     ELSE c : c \in set}

OldCurves(a, op, relation) == CurvesApart({CurveAfter(a, op, relation, c) : c \in curves})

\* Edges that no curve has claimed make up new ones, one for each relation.
NewCurves(a, relation, old) ==
    LET claimed == UNION {c.edges : c \in Active(old)}
        free == {e \in DOMAIN relation : relation[e] # NoRelation} \ claimed
        EdgesOf(r) == {e \in free : relation[e] = r}
    IN  {[address |-> [producer |-> stage + 1, role |-> r.role, pair |-> r.pair],
          kind |-> r.kind, edges |-> EdgesOf(r), strict |-> Strict(EdgesOf(r)),
          status |-> Strict(EdgesOf(r)),
          born |-> EdgesOf(r)] :
            r \in {relation[e] : e \in free}}

CurvesAfter(a, op, relation) ==
    LET old == OldCurves(a, op, relation) IN old \cup NewCurves(a, relation, old)

EdgeRecord(tracked, edge, e, relation, new) ==
    LET holders == {c \in Active(new) : e \in c.edges}
    IN  CASE ~Material(tracked, edge) ->
               [class |-> "artifact", status |-> "unsupported", candidates |-> {}]
          [] Material(tracked, edge) /\ relation[e] = NoRelation ->
               [class |-> "unsupported", status |-> "unsupported", candidates |-> {}]
          [] OTHER ->
               [class |-> "referenceable",
                status |-> IF \/ Cardinality({c.address : c \in holders}) > 1
                              \/ \E c \in holders : c.strict = "ambiguous"
                           THEN "ambiguous" ELSE "resolved",
                candidates |-> {c.address : c \in holders}]

-----------------------------------------------------------------------------
(* Part: buildPointStage *)

PointAfter(a, relation, p) ==
    LET descendants == UNION {a.vertexOf[v] : v \in p.vertices}
    IN  IF p.status \notin ActiveStatus THEN p
        ELSE IF \/ descendants = {}
                \/ \E v \in descendants : relation[v] # p.address.on
        THEN [p EXCEPT !.status = "missing", !.vertices = {}]
        ELSE [p EXCEPT !.status = Strict(descendants), !.vertices = descendants]

PointsApart(set) ==
    {IF \E q \in Active(set) : q # p /\ p.status \in ActiveStatus /\ p.vertices \cap q.vertices # {}
     THEN [p EXCEPT !.status = "ambiguous"] ELSE p : p \in set}

NewPoints(relation, old) ==
    LET claimed == UNION {p.vertices : p \in Active(old)}
        free == {v \in DOMAIN relation : relation[v] # {}} \ claimed
        VerticesOf(r) == {v \in free : relation[v] = r}
    IN  {[address |-> [producer |-> stage + 1, on |-> r], vertices |-> VerticesOf(r),
          status |-> Strict(VerticesOf(r))] : r \in {relation[v] : v \in free}}

PointsAfter(a, relation) ==
    LET old == PointsApart({PointAfter(a, relation, p) : p \in points})
    IN  old \cup NewPoints(relation, old)

VertexRecord(tracked, shape, v, relation, new) ==
    LET holders == {p \in Active(new) : v \in p.vertices}
    IN  [status |-> CASE relation[v] = {} -> "unsupported"
                      [] relation[v] # {} /\ (\/ Cardinality(holders) > 1
                                              \/ \E p \in holders : p.status = "ambiguous") ->
                            "ambiguous"
                      [] OTHER -> "resolved",
         candidates |-> IF relation[v] = {} THEN {} ELSE {p.address : p \in holders},
         incident |-> {e \in DOMAIN shape.edges :
                          v \in shape.edges[e].ends /\ Material(tracked, shape.edges[e])}]

-----------------------------------------------------------------------------
(* Part: edge references *)

Incident(e) == {v \in DOMAIN vertices : e \in vertices[v].incident}

\* A point the curve is referred to by: the one a vertex resolves to.
Certified(vs) == UNION {PointAt(v) : v \in vs}

CurveAt(address) == {c \in curves : c.address = address}

PointOf(address) == {p \in points : p.address = address}

Answered(status, set) == [status |-> status, edges |-> set]

\* Mutant: of several edges the first is taken.
SingularFirst(c) ==
    IF c.edges = {} THEN Answered("missing", {})
    ELSE LET e == CHOOSE x \in c.edges : TRUE
         IN  IF edges[e].class # "referenceable" THEN Answered("unsupported", {})
             ELSE Answered("resolved", {e})

Singular(c) ==
    LET e == CHOOSE x \in c.edges : TRUE
    IN  CASE c.edges = {} -> Answered("missing", {})
          [] Cardinality(c.edges) > 1 \/ (c.edges # {} /\ c.status = "ambiguous") ->
                Answered("ambiguous", c.edges)
          [] OTHER ->
                IF edges[e].class # "referenceable" THEN Answered("unsupported", {})
                ELSE Answered(IF edges[e].candidates = {c.address} THEN "resolved"
                              ELSE "ambiguous", c.edges)

\* The edges of a curve that reach a vertex of each of two points.
BetweenPoints(c, ends) ==
    LET found == {e \in c.edges : \A p \in ends : p.vertices \cap Incident(e) # {}}
        pure == \A e \in found : edges[e].candidates = {c.address}
    IN  CASE Cardinality(ends) < 2 \/ \E p \in ends : p.status = "missing" ->
               Answered("missing", {})
          [] Cardinality(ends) = 2 /\ (\E p \in ends : p.status = "ambiguous")
                /\ \A p \in ends : p.status # "missing" -> Answered("ambiguous", {})
          [] OTHER ->
               IF \E e \in found : edges[e].class # "referenceable"
               THEN Answered("unsupported", {})
               ELSE Answered(IF Strict(found) = "resolved" /\ ~pure THEN "ambiguous"
                             ELSE Strict(found), found)

\* resolveMaterialEdgeReference
Resolution(ref) ==
    LET found == CurveAt(ref.curve)
        c == CHOOSE x \in found : TRUE
    IN  CASE ref.stage # after -> Answered("invalid", {})
          [] ref.stage = after /\ (found = {} \/ c.status = "missing") ->
                Answered("missing", {})
          [] OTHER -> IF ref.ends = {} THEN Singular(c)
                      ELSE BetweenPoints(c, UNION {PointOf(x) : x \in ref.ends})

\* authorMaterialEdgeReference: the reference to an edge, if it has one.
Reference(e) ==
    LET found == {c \in curves : edges[e].candidates = {c.address} /\ e \in c.edges}
        c == CHOOSE x \in found : TRUE
        certified == {p.address : p \in Certified(Incident(e))}
        ref == [stage |-> after, curve |-> c.address,
                ends |-> IF Cardinality(c.edges) = 1 THEN {} ELSE certified]
    IN  IF \/ edges[e].class # "referenceable"
           \/ found = {}
           \/ /\ Cardinality(c.edges) # 1
              /\ \/ Cardinality(Incident(e)) # 2
                 \/ Cardinality(certified) # 2
           \/ Resolution(ref) # Answered("resolved", {e})
        THEN {} ELSE {ref}

-----------------------------------------------------------------------------
(* Part: one feature of evaluatePart *)

EdgeOf(ref) == CHOOSE e \in DOMAIN edges : e \in Resolution(ref).edges

Resolves(ref) == Resolution(ref).status = "resolved"

\* resolveKernelEdgeFeatureInput: the first reference that does not resolve,
\* or resolves to an edge another one before it has, decides.
InputStatus(refs) ==
    LET Clear(i) == /\ Resolves(refs[i])
                    /\ \A j \in 1 .. i - 1 : EdgeOf(refs[j]) # EdgeOf(refs[i])
        first == CHOOSE i \in DOMAIN refs : ~Clear(i) /\ \A j \in 1 .. i - 1 : Clear(j)
    IN  CASE after = 0 -> "missing_upstream"
          [] after # 0 /\ (\A i \in DOMAIN refs : Clear(i)) -> "resolved"
          [] OTHER -> IF Resolves(refs[first]) THEN "ambiguous"
                      ELSE Resolution(refs[first]).status

Selected(refs) == {EdgeOf(refs[i]) : i \in DOMAIN refs}

RefOf(refs, e) == LET i == CHOOSE j \in DOMAIN refs : EdgeOf(refs[j]) = e IN refs[i]

\* What the kernel keeps and tells of one answer of OCCT.
KernelResult(op, a, selected, lineage, kept) ==
    LET made == TransitionsOf(a, kept, selected)
        parts == IF op = "edges" THEN made.parts ELSE {}
    IN  [status  |-> CASE op = "edges" /\ a.contour # selected -> "provider_mismatch"
                       [] op = "edges" /\ a.contour = selected /\ KernelStatus(op, a.built) = "ok"
                            /\ ~made.exact -> "provider_failure"
                       [] OTHER -> KernelStatus(op, a.built),
         lineage |-> lineage,
         parts   |-> parts,
         tracked |-> Table(TrackedWith(a, kept, parts))]

ResultOf(op, a, selected, lineage) ==
    KernelResult(op, a, selected, lineage, Table(TrackedAfter(a, lineage)))

\* What the Part makes of it, step by step: the surfaces, the curves and points
\* between them, and whether it all adds up.
Meanings(a, op, result, added, surfs, between, corner) ==
    [status    |-> result.status,
     agrees    |-> TokensAgree(result.lineage),
     converts  |-> \A s \in added : TransitionConverts(s),
     fits      |-> /\ \A e \in DOMAIN a.shape.edges :
                         ~CurveMismatch(result.tracked, surfs, a.shape.edges[e])
                   /\ \A i \in DOMAIN a.made : \A s \in result.lineage.made[i].into :
                         result.lineage.inherited[s].status = "resolved",
     tracked   |-> result.tracked,
     surfaces  |-> surfs,
     curves    |-> CurvesAfter(a, op, between),
     points    |-> PointsAfter(a, corner),
     between   |-> between,
     corner    |-> corner]

MeaningsOf(a, op, result, added, surfs) ==
    Meanings(a, op, result, added, surfs,
             Table([e \in DOMAIN a.shape.edges |->
                       CurveRelation(result.tracked, surfs, a.shape.edges[e])]),
             Table([v \in DOMAIN a.shape.vertices |->
                       PointRelation(result.tracked, surfs, a.shape.vertices[v].on)]))

AddedTo(a, op, result, added) ==
    MeaningsOf(a, op, result, added,
               PropagatedSurfaces(result.lineage) \cup MadeSurfaces(a, result.lineage) \cup added)

SurfacesAdded(f, a, op, result, selected) ==
    AddedTo(a, op, result, {TransitionSurface(a, p, [e \in selected |-> RefOf(f.refs, e)]) :
                               p \in result.parts})

\* What a feature makes of one answer of OCCT.
Outcome(f, a) ==
    LET op == IF solid.shape = NoShape THEN "base" ELSE f.op
        selected == Selected(f.refs)
    IN  SurfacesAdded(f, a, op, ResultOf(op, a, selected, SurfaceLineage(op, a)), selected)

\* BodyStageTopologyCatalog::valid and makeBodyStageTopologyCatalog
Unique(set) == \A x, y \in set : x.address = y.address => x = y

Complete(a, o) ==
    /\ \A f \in a.shape.faces : \E s \in Active(o.surfaces) : <<stage + 1, f>> \in s.faces
    /\ \A s \in o.surfaces : s.faces \subseteq FaceTokens(a.shape.faces)
    /\ Unique(o.surfaces) /\ Unique(o.curves) /\ Unique(o.points)

Integral(a, o) == o.agrees /\ o.converts /\ o.fits /\ Complete(a, o)

-----------------------------------------------------------------------------
NoSolid == [shape |-> NoShape, tracked |-> <<>>]

Fresh ==
    /\ stage = 0
    /\ after = 0
    /\ solid = NoSolid
    /\ surfaces = {} /\ curves = {} /\ points = {}
    /\ edges = <<>> /\ vertices = <<>>
    /\ diagnostic = "none"

Init == plan = <<>> /\ Fresh

Running == stage < Len(plan) /\ diagnostic = "none"

AtRest == ~Running

Evaluated == AtRest /\ diagnostic = "none"

Feature(op, refs) == [op |-> op, refs |-> refs, suppressed |-> FALSE]

\* An Extrude or Revolve is added to what there is.
AddFeature ==
    /\ Evaluated /\ Len(plan) < MaxFeatures
    /\ \E op \in {"add", "cut"} : plan' = Append(plan, Feature(op, <<>>))
    /\ UNCHANGED <<stage, after, solid, meaning, diagnostic>>

\* The edges of a feature are kept in one order, however they were picked.
Sorted(set) ==
    CHOOSE q \in [1 .. Cardinality(set) -> set] : {q[i] : i \in DOMAIN q} = set

\* A Fillet or Chamfer of one or two edges that have a reference.
AddEdgeFeature ==
    /\ Evaluated /\ Len(plan) < MaxFeatures
    /\ \E d, e \in DOMAIN edges : \E r \in Reference(d), q \in Reference(e) :
          plan' = Append(plan, Feature("edges", Sorted({r, q})))
    /\ UNCHANGED <<stage, after, solid, meaning, diagnostic>>

Restart ==
    /\ stage' = 0 /\ after' = 0
    /\ solid' = NoSolid
    /\ surfaces' = {} /\ curves' = {} /\ points' = {}
    /\ edges' = <<>> /\ vertices' = <<>>
    /\ diagnostic' = "none"

\* A feature is edited: its references stay and everything is built again.
Edit == plan # <<>> /\ AtRest /\ UNCHANGED plan /\ Restart

Suppress ==
    /\ AtRest
    /\ \E i \in DOMAIN plan : plan' = [plan EXCEPT ![i].suppressed = ~@]
    /\ Restart

Current == plan[stage + 1]

Skip ==
    /\ Running /\ Current.suppressed
    /\ stage' = stage + 1
    /\ UNCHANGED <<plan, after, solid, meaning, diagnostic>>

\* Nothing a failed feature computed is kept, and nothing runs after it.
Stop(reason) ==
    /\ diagnostic' = reason
    /\ UNCHANGED <<plan, stage, after, solid, meaning>>

Block ==
    /\ Running /\ ~Current.suppressed
    /\ \/ /\ Current.op = "edges" /\ InputStatus(Current.refs) # "resolved"
          /\ Stop(InputStatus(Current.refs))
       \/ /\ Current.op = "cut" /\ after = 0
          /\ Stop("missing_upstream")

KernelFails(o) == o.status # "ok" /\ Stop(o.status)

Refuse(a, o) == o.status = "ok" /\ ~Integral(a, o) /\ Stop("topology_integrity_failure")

Publish(a, o) ==
    /\ o.status = "ok" /\ Integral(a, o)
    /\ stage' = stage + 1
    /\ after' = stage + 1
    /\ solid' = [shape |-> a.shape, tracked |-> o.tracked]
    /\ surfaces' = o.surfaces
    /\ curves' = o.curves
    /\ points' = o.points
    /\ edges' = [e \in DOMAIN a.shape.edges |->
                    EdgeRecord(o.tracked, a.shape.edges[e], e, o.between, o.curves)]
    /\ vertices' = [v \in DOMAIN a.shape.vertices |->
                       VertexRecord(o.tracked, a.shape, v, o.corner, o.points)]
    /\ UNCHANGED <<plan, diagnostic>>

Finish(a, o) == KernelFails(o) \/ Refuse(a, o) \/ Publish(a, o)

\* What OCCT is relied on for when it builds something: an edge has one end or
\* two, and the history, which the kernel filters, leads into what was built.
WellFormed(a) ==
    /\ a.shape # NoShape
    /\ IsFiniteSet(DOMAIN a.shape.edges) /\ IsFiniteSet(DOMAIN a.shape.vertices)
    /\ \A e \in DOMAIN a.shape.edges :
          \E v, w \in DOMAIN a.shape.vertices : a.shape.edges[e].ends = {v, w}
    /\ \A e \in DOMAIN Shape.edges : a.edgeOf[e] \subseteq DOMAIN a.shape.edges
    /\ \A v \in DOMAIN Shape.vertices : a.vertexOf[v] \subseteq DOMAIN a.shape.vertices

Built(f) ==
    {a \in Answers(f.op, Shape, Selected(f.refs)) : a.built = "good" => WellFormed(a)}

Build ==
    /\ Running /\ ~Current.suppressed
    /\ Current.op = "edges" => InputStatus(Current.refs) = "resolved"
    /\ Current.op = "cut" => after # 0
    /\ \E a \in Built(Current) : Finish(a, Outcome(Current, a))

Next ==
    \/ AddFeature \/ AddEdgeFeature \/ Edit \/ Suppress
    \/ Skip \/ Block \/ Build

Spec == Init /\ [][Next]_vars

-----------------------------------------------------------------------------
TypeOK ==
    /\ Len(plan) <= MaxFeatures
    /\ after <= stage /\ stage <= Len(plan)
    /\ (after = 0) = (solid.shape = NoShape)
    /\ DOMAIN edges = DOMAIN Shape.edges
    /\ DOMAIN vertices = DOMAIN Shape.vertices
    /\ \A c \in curves : c.edges \subseteq DOMAIN edges
    /\ \A p \in points : p.vertices \subseteq DOMAIN vertices
    /\ \A s \in surfaces : (s.status = "resolved") = (s.token \in DOMAIN solid.tracked)

Holders(e) == {c \in Active(curves) : e \in c.edges}

\* An edge that is called by a name has one name.
NamesAreSingle ==
    \A e \in DOMAIN edges :
        (edges[e].status = "resolved" \/ Reference(e) # {}) => Cardinality(Holders(e)) = 1

\* It is the edge the name was given to, or a piece of it.
NamesAreTrue ==
    \A e \in DOMAIN edges : \A c \in Holders(e) :
        (edges[e].status = "resolved" \/ Reference(e) # {}) =>
            c.born \cap Shape.edges[e].past # {}

\* A reference that resolves is the one that would be given to its edge now,
\* or says more; two references of a feature never mean the same edge.
ReferencesReturn ==
    \A i \in DOMAIN plan : \A j \in DOMAIN plan[i].refs :
        LET ref == plan[i].refs[j]
        IN  Resolves(ref) =>
              /\ \E r \in Reference(EdgeOf(ref)) :
                    r = ref \/ (r.curve = ref.curve /\ r.ends = {})
              /\ \A k \in DOMAIN plan[i].refs \ {j} :
                    Resolves(plan[i].refs[k]) => EdgeOf(plan[i].refs[k]) # EdgeOf(ref)

\* Whatever OCCT left out of its history, and whatever curve took over by its
\* relation what was not its own ("no automatic identity from geometry
\* proximity/similarity", docs/internal/PART_DOCUMENTS.md:409), after an edit
\* upstream too: names and references mean one edge, and the right one.
MeaningsAreTrue == TypeOK /\ NamesAreSingle /\ NamesAreTrue /\ ReferencesReturn

\* What has lost its meaning never gets it back while the features are
\* evaluated, and no meaning is forgotten ("a later geometrically similar Edge
\* never revives Missing intent", docs/internal/PART_DOCUMENTS.md:447).
Keeps(old, new) ==
    \A x \in old : \E y \in new :
        /\ y.address = x.address
        /\ x.status = "missing" => y = x

LostIsLost ==
    [][stage' > stage => /\ Keeps(surfaces, surfaces')
                         /\ Keeps(curves, curves')
                         /\ Keeps(points, points')]_vars

Unclear == \E s \in surfaces : s.status = "ambiguous"

UnnamedCorner(f) ==
    f.op = "edges" /\ \E v \in Corners(Selected(f.refs)) : PointAt(v) = {}

NotItsOwn(f) ==
    \E a \in Built(f) : ~Outcome(f, a).fits

\* The accounting of the topology refuses nothing that is well built and
\* unambiguous: only what follows a surface that has become ambiguous, a corner
\* between edges at a vertex no point names, curves an Extrude cannot have
\* swept, and a surface that is continued and shares a face at once.  After an
\* ambiguous surface nothing is accepted: that surface keeps faces the next
\* solid does not have.
RefusesOnlyTheUnclear ==
    [][/\ after' > after => ~Unclear
       /\ diagnostic' = "topology_integrity_failure" /\ diagnostic # diagnostic' =>
             Unclear \/ UnnamedCorner(Current) \/ NotItsOwn(Current)]_vars
=============================================================================
