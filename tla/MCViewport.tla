----------------------------- MODULE MCViewport -----------------------------
(***************************************************************************)
(* Two documents: one with a body, a feature on it, a reference and a      *)
(* profile, which is changed while it is looked at; one beside it.         *)
(***************************************************************************)
EXTENDS Viewport, TLC

CONSTANTS d1, d2, e1, e2, f1

P(revision, features, broken, items) ==
    [revision |-> revision, features |-> features, broken |-> broken,
     items |-> items]

MCSeed ==
    d1 :> P(0, 2, FALSE, {"reference"}) @@ d2 :> P(0, 2, TRUE, {})

MCChanges ==
    d1 :> {P(0, 2, TRUE, {"reference"}), P(0, 1, FALSE, {"profile"})} @@ d2 :> {}

\* Two edges near each other, a face that both bound, and the face alone.
MCQueries == {<<e1, e2>>, <<e2, e1, f1>>, <<f1>>}

MCMaxRevision == d1 :> 1 @@ d2 :> 1

MCDocs == {d1, d2}
MCEdges == {e1, e2}
MCFaces == {f1}
MCFaults == {"none", "bodyBuild", "bodySet", "references"}
=============================================================================
