---------------------------- MODULE MCProjectHub ----------------------------
(***************************************************************************)
(* Small instances of ProjectHub.  Processes, folders and ProjectIds are   *)
(* interchangeable.                                                        *)
(***************************************************************************)
EXTENDS ProjectHub, TLC

Symmetric ==
    Permutations(Processes) \cup Permutations(Folders) \cup Permutations(ProjectIds)
=============================================================================
