---------------------------- MODULE MCWorkbench -----------------------------
(***************************************************************************)
(* A small instance of Workbench: a document with a body, in which one     *)
(* object of any kind is created, edited, deleted or undone, another to    *)
(* switch to, a value the kernel can evaluate and one it cannot.           *)
(***************************************************************************)
EXTENDS Workbench, TLC

CONSTANTS Good, Bad, d1, d2

Object(id, kind) == [id |-> id, kind |-> kind, value |-> Good]

SeedParts ==
    d1 :> {Object(1, "sketch"), Object(2, "extrude")}
        @@ d2 :> {Object(1, "sketch")}

\* The second document is opened and left, never changed.
Revisions == d1 :> 3 @@ d2 :> 1
=============================================================================
