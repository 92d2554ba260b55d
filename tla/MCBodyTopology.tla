--------------------------- MODULE MCBodyTopology ---------------------------
(***************************************************************************)
(* A small instance of BodyTopology: a half ring is revolved, and then     *)
(* cut, added to, filleted or chamfered.  A shape is its incidences; a     *)
(* move changes it the way OCCT would and says where everything went.      *)
(* Moves leave out what some algorithms of OCCT leave out of their         *)
(* history: a piece of a split edge, or edges that did not change.         *)
(***************************************************************************)
EXTENDS BodyTopology, TLC

None == [faces |-> {}, planes |-> {}, edges |-> <<>>, vertices |-> <<>>, next |-> 0]

With(f, g) == g @@ f

Without(f, set) == Table([x \in DOMAIN f \ set |-> f[x]])

Edge(id, on, ends, kind) ==
    [on |-> on, ends |-> ends, kind |-> kind, seam |-> FALSE, past |-> {id}]

\* Two coplanar ends 1 and 2, a flat side 3 and a round side 4.
HalfRing ==
    [faces |-> 1 .. 4, planes |-> 1 .. 3,
     edges |-> [e \in 5 .. 10 |->
        CASE e = 5  -> Edge(5, {1, 3}, {11, 13}, "line")
          [] e = 6  -> Edge(6, {1, 4}, {12, 13}, "line")
          [] e = 7  -> Edge(7, {2, 3}, {11, 14}, "line")
          [] e = 8  -> Edge(8, {2, 4}, {12, 14}, "line")
          [] e = 9  -> Edge(9, {3, 4}, {13, 14}, "circle")
          [] e = 10 -> Edge(10, {1, 2}, {11, 12}, "line")],
     vertices |-> [v \in 11 .. 14 |->
        CASE v = 11 -> [on |-> {1, 2, 3}] [] v = 12 -> [on |-> {1, 2, 4}]
          [] v = 13 -> [on |-> {1, 3, 4}] [] v = 14 -> [on |-> {2, 3, 4}]],
     next |-> 15]

FromPairs(set) == Table([i \in {p[1] : p \in set} |-> (CHOOSE p \in set : p[1] = i)[2]])

\* What OCCT says of a shape it has built out of another one.
Told(shape, built, new, made) ==
    [built |-> built, shape |-> new, made |-> made,
     faceOf   |-> Table([f \in shape.faces |-> {f} \cap new.faces]),
     edgeOf   |-> Table([e \in DOMAIN shape.edges |->
                            {d \in DOMAIN new.edges : e \in new.edges[d].past}]),
     vertexOf |-> Table([v \in DOMAIN shape.vertices |-> {v} \cap DOMAIN new.vertices]),
     same     |-> {},
     generated |-> Table([e \in DOMAIN shape.edges |-> {}]),
     corner   |-> Table([v \in DOMAIN shape.vertices |-> {}]),
     contour  |-> {}]

Made(role, class, plane, faces) ==
    [role |-> role, class |-> class, plane |-> plane, faces |-> faces]

Failed(shape, built) == Told(shape, built, shape, <<>>)

Revolved ==
    Told(None, "good", HalfRing,
         <<Made("cap 1", "revolve cap", TRUE, {1}), Made("cap 2", "revolve cap", TRUE, {2}),
           Made("side a", "revolve side", TRUE, {3}), Made("side b", "revolve side", FALSE, {4})>>)

\* As an Extrude of a profile with an arc, which it cannot have been: its side
\* edges would be lines and its round edges at the caps.
Misread ==
    Told(None, "good", HalfRing,
         <<Made("cap 1", "cap", TRUE, {1}), Made("cap 2", "cap", TRUE, {2}),
           Made("side a", "side", TRUE, {3}), Made("side b", "side", FALSE, {4})>>)

-----------------------------------------------------------------------------
(* Moves.  Every edge they touch has two faces and two ends of three faces. *)

Moved(edge, from, to) ==
    [edge EXCEPT !.ends = IF from \in @ THEN (@ \ {from}) \cup {to} ELSE @]

\* A part of an old edge, from one of its ends to a new vertex.
Piece(shape, e, id, v, x) ==
    [shape.edges[e] EXCEPT !.ends = {v, x}, !.past = @ \cup {id}]

Ends(shape, e) ==
    LET v == CHOOSE x \in shape.edges[e].ends : TRUE
    IN  <<v, CHOOSE x \in shape.edges[e].ends : x # v>>

\* The faces of an edge, a flat one first.
Walls(shape, e) ==
    LET on == shape.edges[e].on
        a == CHOOSE f \in on : on \cap shape.planes # {} => f \in shape.planes
    IN  <<a, CHOOSE f \in on : f # a>>

Kind(shape, e, f) ==
    IF shape.edges[e].kind = "line" /\ f \in shape.planes THEN "line" ELSE "other"

\* A round groove across an edge.
Groove(shape, e) ==
    LET n == shape.next
        v == Ends(shape, e)
        w == Walls(shape, e)
    IN  [faces |-> shape.faces \cup {n}, planes |-> shape.planes,
         edges |-> With(Without(shape.edges, {e}),
            [i \in n + 1 .. n + 4 |->
                CASE i = n + 1 -> Piece(shape, e, i, v[1], n + 5)
                  [] i = n + 2 -> Piece(shape, e, i, v[2], n + 6)
                  [] i = n + 3 -> Edge(i, {w[1], n}, {n + 5, n + 6}, "circle")
                  [] i = n + 4 -> Edge(i, {w[2], n}, {n + 5, n + 6}, "circle")]),
         vertices |-> With(shape.vertices,
            [x \in {n + 5, n + 6} |-> [on |-> {w[1], w[2], n}]]),
         next |-> n + 7]

\* A groove with two flat walls: the two pieces end at different surfaces.
VGroove(shape, e) ==
    LET n == shape.next
        v == Ends(shape, e)
        w == Walls(shape, e)
    IN  [faces |-> shape.faces \cup {n, n + 1}, planes |-> shape.planes \cup {n, n + 1},
         edges |-> With(Without(shape.edges, {e}),
            [i \in n + 2 .. n + 8 |->
                CASE i = n + 2 -> Piece(shape, e, i, v[1], n + 9)
                  [] i = n + 3 -> Piece(shape, e, i, v[2], n + 10)
                  [] i = n + 4 -> Edge(i, {w[1], n}, {n + 9, n + 11}, "line")
                  [] i = n + 5 -> Edge(i, {w[2], n}, {n + 9, n + 12}, Kind(shape, e, w[2]))
                  [] i = n + 6 -> Edge(i, {w[1], n + 1}, {n + 10, n + 11}, "line")
                  [] i = n + 7 -> Edge(i, {w[2], n + 1}, {n + 10, n + 12}, Kind(shape, e, w[2]))
                  [] i = n + 8 -> Edge(i, {n, n + 1}, {n + 11, n + 12}, "line")]),
         vertices |-> With(shape.vertices,
            [x \in n + 9 .. n + 12 |->
                CASE x = n + 9  -> [on |-> {w[1], w[2], n}]
                  [] x = n + 10 -> [on |-> {w[1], w[2], n + 1}]
                  [] x = n + 11 -> [on |-> {w[1], n, n + 1}]
                  [] x = n + 12 -> [on |-> {w[2], n, n + 1}]]),
         next |-> n + 13]

\* How many smaller ones a set has: where one comes when they are numbered.
Rank(x, set) == Cardinality({y \in set : y < x})

\* A face is cut off, parallel to itself.
Trim(shape, f) ==
    LET n == shape.next
        rim == {e \in DOMAIN shape.edges : f \in shape.edges[e].on}
        feet == {v \in DOMAIN shape.vertices : f \in shape.vertices[v].on}
        NewE(e) == n + 1 + Rank(e, rim)
        NewV(v) == n + 10 + Rank(v, feet)
        OldE(i) == CHOOSE e \in rim : NewE(e) = i
        OldV(x) == CHOOSE v \in feet : NewV(v) = x
        To(v) == IF v \in feet THEN NewV(v) ELSE v
        Onto(on) == (on \ {f}) \cup {n}
    IN  [faces |-> Onto(shape.faces), planes |-> Onto(shape.planes),
         edges |-> With([e \in DOMAIN shape.edges \ rim |->
                            [shape.edges[e] EXCEPT !.ends = {To(v) : v \in @}]],
                        [i \in {NewE(e) : e \in rim} |->
                            [Edge(i, Onto(shape.edges[OldE(i)].on), {}, shape.edges[OldE(i)].kind)
                                EXCEPT !.ends = {To(v) : v \in shape.edges[OldE(i)].ends}]]),
         vertices |-> With(Without(shape.vertices, feet),
                        [x \in {NewV(v) : v \in feet} |->
                            [on |-> Onto(shape.vertices[OldV(x)].on)]]),
         next |-> n + 20]

\* A half disc is put against the second face of an edge, level with the
\* first; its top is a face of its own or has become one with that face.
Flush(shape, e, joined) ==
    LET n == shape.next
        v == Ends(shape, e)
        w == Walls(shape, e)
        top == IF joined THEN w[1] ELSE n
        rim == {top, w[1], w[2], n + 1}
    IN  [faces |-> shape.faces \cup {top, n + 1, n + 2},
         planes |-> shape.planes \cup {top, n + 2},
         edges |-> With(Without(shape.edges, {e}),
            [i \in (n + 3 .. n + 10) \ (IF joined THEN {n + 5} ELSE {}) |->
                CASE i = n + 3  -> Piece(shape, e, i, v[1], n + 11)
                  [] i = n + 4  -> Piece(shape, e, i, v[2], n + 12)
                  [] i = n + 5  -> Edge(i, {w[1], n}, {n + 11, n + 12}, "line")
                  [] i = n + 6  -> Edge(i, {top, n + 1}, {n + 11, n + 12}, "circle")
                  [] i = n + 7  -> Edge(i, {n + 1, n + 2}, {n + 13, n + 14}, "circle")
                  [] i = n + 8  -> Edge(i, {n + 1, w[2]}, {n + 11, n + 13}, "line")
                  [] i = n + 9  -> Edge(i, {n + 1, w[2]}, {n + 12, n + 14}, "line")
                  [] i = n + 10 -> Edge(i, {n + 2, w[2]}, {n + 13, n + 14}, "line")]),
         vertices |-> With(shape.vertices,
            [x \in n + 11 .. n + 14 |->
                [on |-> IF x \in {n + 11, n + 12} THEN rim ELSE {n + 1, n + 2, w[2]}]]),
         next |-> n + 15]

\* Edges are replaced by faces, flat or round ones; where two of the edges
\* meet, the new faces do, or a corner face comes between them.
Transition(shape, selected, flat, cornered) ==
    LET n == shape.next
        touched == UNION {shape.edges[e].ends : e \in selected}
        At(v) == {e \in selected : v \in shape.edges[e].ends}
        joints == {v \in touched : Cardinality(At(v)) = 2}
        corners == IF cornered THEN joints ELSE {}
        T(e) == n + Rank(e, selected)
        K(v) == n + 2 + Rank(v, joints)
        First(v) == n + 10 + 3 * Rank(v, touched)
        Second(v) == First(v) + 1
        Third(v) == First(v) + 2
        Shared(v) == CHOOSE f \in shape.vertices[v].on : \A e \in At(v) : f \in shape.edges[e].on
        Lead(v) == CHOOSE e \in At(v) : \A d \in At(v) : e <= d
        On(v, e, f) ==
            IF v \in joints
            THEN IF f # Shared(v) THEN Second(v)
                 ELSE IF v \in corners /\ e # Lead(v) THEN Third(v) ELSE First(v)
            ELSE IF f = Walls(shape, e)[1] THEN First(v) ELSE Second(v)
        \* where the end of an edge that stays goes
        To(d, v) ==
            IF v \notin touched THEN v
            ELSE IF v \in joints THEN Second(v)
            ELSE LET e == Lead(v)
                 IN  On(v, e, CHOOSE f \in shape.edges[e].on : f \in shape.edges[d].on)
        Other(v) == CHOOSE f \in shape.vertices[v].on : f \notin shape.edges[Lead(v)].on
        SideEdge(e, i) ==
            LET id == n + 30 + 2 * Rank(e, selected) + i
                f == Walls(shape, e)[i]
            IN  <<id, Edge(id, {f, T(e)}, {On(v, e, f) : v \in shape.edges[e].ends},
                           shape.edges[e].kind)>>
        CapEdge(v) ==
            <<n + 40 + Rank(v, touched),
              Edge(n + 40 + Rank(v, touched), {Other(v), T(Lead(v))}, {First(v), Second(v)},
                   IF Other(v) \notin shape.planes THEN "other"
                   ELSE IF flat THEN "line" ELSE "circle")>>
        CornerEdge(v, i, on, ends) ==
            LET id == n + 50 + 3 * Rank(v, joints) + i IN <<id, Edge(id, on, ends, "other")>>
        Between2(v) == {T(e) : e \in At(v)}
        CornerEdges(v) ==
            IF v \notin corners
            THEN {CornerEdge(v, 0, Between2(v), {First(v), Second(v)})}
            ELSE {CornerEdge(v, 0, {Shared(v), K(v)}, {First(v), Third(v)})}
                 \cup {CornerEdge(v, IF e = Lead(v) THEN 1 ELSE 2, {T(e), K(v)},
                                  {On(v, e, Shared(v)), Second(v)}) : e \in At(v)}
        Vertex(v) ==
            IF v \notin joints
            THEN LET e == Lead(v)
                 IN  {<<On(v, e, f), [on |-> {f, Other(v), T(e)}]>> : f \in shape.edges[e].on}
            ELSE IF v \notin corners
            THEN {<<First(v), [on |-> {Shared(v)} \cup Between2(v)]>>,
                  <<Second(v), [on |-> (shape.vertices[v].on \ {Shared(v)}) \cup Between2(v)]>>}
            ELSE {<<On(v, e, Shared(v)), [on |-> {Shared(v), T(e), K(v)}]>> : e \in At(v)}
                 \cup {<<Second(v), [on |-> (shape.vertices[v].on \ {Shared(v)})
                                            \cup Between2(v) \cup {K(v)}]>>}
        made == {T(e) : e \in selected} \cup {K(v) : v \in corners}
        new == [faces |-> shape.faces \cup made,
                planes |-> shape.planes \cup (IF flat THEN {T(e) : e \in selected} ELSE {}),
                edges |-> With([d \in DOMAIN shape.edges \ selected |->
                                  [shape.edges[d] EXCEPT !.ends = {To(d, v) : v \in @}]],
                               FromPairs({SideEdge(e, i) : e \in selected, i \in 1 .. 2}
                                         \cup {CapEdge(v) : v \in touched \ joints}
                                         \cup UNION {CornerEdges(v) : v \in joints})),
                vertices |-> With(Without(shape.vertices, touched),
                                  FromPairs(UNION {Vertex(v) : v \in touched})),
                next |-> n + 60]
    IN  [Told(shape, "good", new, <<>>) EXCEPT
            !.generated = [e \in DOMAIN shape.edges |-> IF e \in selected THEN {T(e)} ELSE {}],
            !.corner = [v \in DOMAIN shape.vertices |-> IF v \in corners THEN {K(v)} ELSE {}],
            !.contour = selected]

-----------------------------------------------------------------------------
(* What OCCT may answer *)

Simple(shape, e) ==
    /\ e \in DOMAIN shape.edges
    /\ Cardinality(shape.edges[e].on) = 2 /\ Cardinality(shape.edges[e].ends) = 2
    /\ \A v \in shape.edges[e].ends : Cardinality(shape.vertices[v].on) = 3

\* The history of a piece of the edge is missing.
Partly(told, e) ==
    [told EXCEPT !.edgeOf[e] = {CHOOSE d \in @ : TRUE}]

\* The history of every edge that has not changed is missing.
Silent(told) == [told EXCEPT !.edgeOf = [e \in DOMAIN @ |-> {}]]

\* The history of the edges that do not meet a selected one is missing.
Distant(shape, told) ==
    LET reached == UNION {shape.edges[e].ends : e \in told.contour}
    IN  [told EXCEPT !.edgeOf =
            [e \in DOMAIN @ |-> IF shape.edges[e].ends \cap reached = {} THEN {} ELSE @[e]]]

Added(shape, e) ==
    LET cap(faces) == <<Made("cap 1", "cap", TRUE, faces),
                        Made("cap 2", "cap", TRUE, {shape.next + 2}),
                        Made("side", "side", FALSE, {shape.next + 1})>>
        wall == Walls(shape, e)[1]
        apart == Told(shape, "good", Flush(shape, e, FALSE), cap({shape.next}))
        one == Flush(shape, e, TRUE)
    IN  {apart,
         [apart EXCEPT !.same = {{wall, shape.next}}],
         Told(shape, "good", one, cap({wall})),
         Told(shape, "good", one, cap({1, 2}))}

Grooved(shape, e) ==
    Told(shape, "good", Groove(shape, e), <<Made("side", "side", FALSE, {shape.next})>>)

VGrooved(shape, e) ==
    Told(shape, "good", VGroove(shape, e),
         <<Made("side a", "side", TRUE, {shape.next}),
           Made("side b", "side", TRUE, {shape.next + 1})>>)

Trimmed(shape, f) ==
    Told(shape, "good", Trim(shape, f), <<Made("side", "side", TRUE, {shape.next})>>)

CutEdges == {5, 6}

Cuts(shape) ==
    LET some == {e \in CutEdges : Simple(shape, e)}
    IN  {Failed(shape, b) : b \in {"no solid", "two"}}
        \cup {Grooved(shape, e) : e \in some}
        \cup {Partly(Grooved(shape, e), e) : e \in some}
        \cup {[Grooved(shape, e) EXCEPT !.edgeOf[e] = {}] : e \in some}
        \cup {VGrooved(shape, e) : e \in some}
        \cup {Trimmed(shape, f) : f \in {3} \cap shape.faces}

Adds(shape) ==
    {Failed(shape, "two")}
    \cup (IF Simple(shape, 5) THEN Added(shape, 5) ELSE {})

Blends(shape, selected) ==
    IF \E e \in selected : ~Simple(shape, e)
    THEN {Failed(shape, "failed")}
    ELSE LET straight == \A e \in selected : /\ shape.edges[e].kind = "line"
                                             /\ shape.edges[e].on \subseteq shape.planes
             told == {Transition(shape, selected, flat, cornered) :
                        flat \in {straight, FALSE}, cornered \in BOOLEAN}
             d == CHOOSE e \in selected : TRUE
         IN  {Failed(shape, "unchanged")}
             \cup UNION {{t, Silent(t), Distant(shape, t), [t EXCEPT !.contour = @ \ {d}]} : t \in told}

OcctAnswers(op, shape, selected) ==
    IF shape = None THEN {Revolved, Misread, Failed(None, "invalid")}
    ELSE CASE op = "add" -> Adds(shape)
           [] op = "cut" -> Cuts(shape)
           [] op = "edges" -> Blends(shape, selected)
=============================================================================
