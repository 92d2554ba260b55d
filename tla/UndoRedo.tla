------------------------------ MODULE UndoRedo ------------------------------
(***************************************************************************)
(* What an editing session promises its user about history, with nothing   *)
(* said about identifiers, cursors, revisions or files: the contents the   *)
(* session went through form a timeline, one of them is current, Undo and  *)
(* Redo move along the timeline without changing it, and only an edit      *)
(* forgets the contents that Redo could still reach.                       *)
(*                                                                         *)
(* DocumentSession implements this specification.                          *)
(***************************************************************************)
EXTENDS Naturals, Sequences

CONSTANT Contents      \* what a document can contain

VARIABLES timeline,    \* the contents reachable by Undo and Redo, oldest first
          position     \* the index in timeline of the current content

timelineVars == <<timeline, position>>

Current == timeline[position]

Init ==
    /\ \E c \in Contents : timeline = <<c>>
    /\ position = 1

\* An edit changes the content and drops what Redo could have restored.
Edit ==
    \E c \in Contents \ {Current} :
        /\ timeline' = Append(SubSeq(timeline, 1, position), c)
        /\ position' = position + 1

Undo ==
    /\ position > 1
    /\ position' = position - 1
    /\ UNCHANGED timeline

Redo ==
    /\ position < Len(timeline)
    /\ position' = position + 1
    /\ UNCHANGED timeline

Next == Edit \/ Undo \/ Redo

Spec == Init /\ [][Next]_timelineVars
=============================================================================
