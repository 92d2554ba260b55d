----------------------------- MODULE SaveRegister -----------------------------
(***************************************************************************)
(* What conditional saving promises cooperating processes: the document's  *)
(* file is a register.  A process that opened it may replace the file it   *)
(* last saw, in one step, and only that one; a process that creates the    *)
(* document finds no file.  No update is lost.                             *)
(*                                                                         *)
(* SaveProtocol implements this specification.                             *)
(***************************************************************************)
CONSTANTS
    Processes,
    File,       \* files, a content with an identity
    NoFile      \* there is no file

VARIABLES
    value,      \* the file
    base        \* base[p]: the file p last saw, NoFile if p has no session

registerVars == <<value, base>>

Init ==
    /\ value \in File \cup {NoFile}
    /\ base = [p \in Processes |-> NoFile]

Open(p) ==
    /\ base[p] = NoFile
    /\ value # NoFile
    /\ base' = [base EXCEPT ![p] = value]
    /\ UNCHANGED value

Leave(p) ==
    /\ base' = [base EXCEPT ![p] = NoFile]
    /\ UNCHANGED value

\* Creating the file; the creator may fail to learn that it succeeded.
Create(p) ==
    /\ base[p] = NoFile
    /\ value = NoFile
    /\ value' \in File
    /\ \/ base' = [base EXCEPT ![p] = value']
       \/ UNCHANGED base

\* Compare and swap.
Replace(p) ==
    /\ base[p] = value
    /\ value # NoFile
    /\ value' \in File
    /\ base' = [base EXCEPT ![p] = value']

Next == \E p \in Processes : Open(p) \/ Leave(p) \/ Create(p) \/ Replace(p)

Spec == Init /\ [][Next]_registerVars
=============================================================================
