------------------------ MODULE MCSketchInteraction -------------------------
(***************************************************************************)
(* A small instance of SketchInteraction: a sketch with one entity, which  *)
(* has changed once, room for another, two shapes, and two edits in a row. *)
(* Scale behaves as Rotate, Extend as Trim, an override as an anchor.      *)
(***************************************************************************)
EXTENDS SketchInteraction, TLC

CONSTANTS A, B

\* One entity has been drawn, and changed.
DrawnBefore == <<1 :> A, 1 :> B>>

UsedTools == AllTools \ {"scale", "extend"}
=============================================================================
