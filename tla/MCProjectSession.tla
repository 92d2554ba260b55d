-------------------------- MODULE MCProjectSession --------------------------
(***************************************************************************)
(* Small instances of ProjectSession: DocumentIds, file identities and     *)
(* the names of files are interchangeable.                                 *)
(***************************************************************************)
EXTENDS ProjectSession, TLC

Symmetric ==
    Permutations(FileIdentities) \cup Permutations(Paths) \cup Permutations(Ids)
=============================================================================
