--------------------------- MODULE MCPartCommands ---------------------------
(***************************************************************************)
(* Small Parts to start from: a block with a second extrude on projected   *)
(* edges and a fillet; a block with a revolve about a line drawn on a      *)
(* chain of datum planes; a Part from which a feature was deleted that an  *)
(* axis and a datum plane still refer to, and an entity that a profile     *)
(* uses; a new Part.                                                       *)
(***************************************************************************)
EXTENDS PartCommands

CONSTANTS k1, k2

MCSketchIds == {k1, k2}

Sketch(k, support, entities, links) ==
    [id |-> k, support |-> support, entities |-> entities, links |-> links]

Next4(datum, axis, profile, feature) ==
    [datum |-> datum, axis |-> axis, profile |-> profile, feature |-> feature]

Profile(id, k, uses) == [id |-> id, sketch |-> k, uses |-> uses]

Ground == Sketch(k1, Origin, {1}, {})

Projected ==
    [datums |-> {},
     sketches |-> {Ground, Sketch(k2, Origin, {1},
                       {[entity |-> 1, source |-> OnBody("edge", 1, 1)]})},
     axes |-> {},
     profiles |-> {Profile(1, k1, {1}), Profile(2, k2, {1})},
     features |-> <<Feature(1, FALSE, Extrude(1)), Feature(2, FALSE, Extrude(2)),
                    Feature(3, FALSE, EdgeFeature(OnBody("edge", 2, 1)))>>,
     next |-> Next4(1, 1, 3, 4)]

Stacked ==
    [datums |-> {[id |-> 1, kind |-> "offset", source |-> OnBody("surface", 1, 1)],
                 [id |-> 2, kind |-> "offset", source |-> OnDatum(1)]},
     sketches |-> {Ground, Sketch(k2, OnDatum(2), {1}, {})},
     axes |-> {[id |-> 1, source |-> OnLine(k2, 1)]},
     profiles |-> {Profile(1, k1, {1}), Profile(2, k1, {1})},
     features |-> <<Feature(1, FALSE, Extrude(1)), Feature(2, FALSE, Revolve(2, 1))>>,
     next |-> Next4(3, 2, 3, 3)]

Damaged ==
    [datums |-> {[id |-> 1, kind |-> "edge", source |-> OnBody("edge", 2, 2)]},
     sketches |-> {Ground},
     axes |-> {[id |-> 1, source |-> OnBody("face", 2, 1)]},
     profiles |-> {Profile(2, k1, {1, 2})},
     features |-> <<Feature(1, FALSE, Extrude(1))>>,
     next |-> Next4(2, 2, 3, 3)]

Blank ==
    [datums |-> {}, sketches |-> {}, axes |-> {}, profiles |-> {}, features |-> <<>>,
     next |-> Next4(1, 1, 1, 1)]

\* The entity cursors are after whatever was drawn, also what was erased.
Loaded(p) ==
    [part |-> p,
     cursor |-> [k \in MCSketchIds |->
                    1 + Max({0} \cup (UNION {s.entities : s \in SketchOf(p, k)})
                                \cup (UNION {q.uses : q \in {r \in p.profiles : r.sketch = k}}))]]

MCStarts == {Loaded(p) : p \in {Projected, Stacked, Damaged, Blank}}
=============================================================================
