-------------------------- MODULE MCDocumentSession --------------------------
(***************************************************************************)
(* A small instance of DocumentSession: an empty content, two contents     *)
(* that host the same sketch, and one that validAuthoredState rejects.     *)
(***************************************************************************)
EXTENDS DocumentSession

CONSTANTS Empty, Sketched, Resketched, Broken, Sketch

MCContents == {Empty, Sketched, Resketched, Broken}

MCValidContents == MCContents \ {Broken}

MCSketches == {Sketch}

MCHosted(c) == IF c \in {Sketched, Resketched} THEN MCSketches ELSE {}
=============================================================================
