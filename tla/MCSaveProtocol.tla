---------------------------- MODULE MCSaveProtocol ----------------------------
(***************************************************************************)
(* Small instances of SaveProtocol: contents of two documents (two states  *)
(* of the first) and one content that is no native document.               *)
(***************************************************************************)
EXTENDS SaveProtocol, TLC

CONSTANTS First, FirstEdited, Second, Junk

MCContents == {First, FirstEdited, Second, Junk}

MCDocOf(c) ==
    IF c = Junk THEN Unparsable
    ELSE IF c = Second THEN "second" ELSE "first"

\* One document and nothing else, for the runs without foreign programs.
MCPlainContents == {First, FirstEdited}

\* Processes are interchangeable, and so are file identities.
Symmetric == Permutations(Processes) \cup Permutations(Identities)
=============================================================================
