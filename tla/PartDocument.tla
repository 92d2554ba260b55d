---------------------------- MODULE PartDocument ----------------------------
(***************************************************************************)
(* The live Part document: an authored state, its revision, and the        *)
(* commit that is the only way to replace the state.                       *)
(*                                                                         *)
(* An authored state is its content plus allocation cursors, each holding  *)
(* the next identifier to give out.  The code compares two states field by *)
(* field, and this is where the two sorts of cursor part company:          *)
(*   - counted cursors (axis, datum, profile, body, feature) are fields of *)
(*     PartAuthoredState and take part in its defaulted equality;          *)
(*   - local cursors (one per hosted sketch, for its entities and for its  *)
(*     constraints) live in SketchModel, whose operator== leaves them out. *)
(***************************************************************************)
EXTENDS Naturals

CONSTANTS
    Contents,        \* authored contents, everything but the cursors
    ValidContents,   \* those that validAuthoredState accepts
    Sketches,        \* identities of sketches
    Hosted(_),       \* Hosted(c): the sketches content c holds
    Counted,         \* the identifier kinds counted by the authored state
    LocalKinds,      \* the identifier kinds counted inside a sketch
    MaxId,           \* stands for the largest 64-bit identifier value
    MaxRevision      \* stands for the largest 64-bit revision

ASSUME ContentsAssumption ==
    /\ ValidContents \subseteq Contents
    /\ \A c \in Contents : Hosted(c) \subseteq Sketches

ASSUME BoundsAssumption ==
    /\ MaxId \in Nat \ {0}
    /\ MaxRevision \in Nat

Ids == 1..MaxId

Revisions == 0..MaxRevision

Authored == [content : Contents,
             next    : [Counted -> Ids],
             local   : [LocalKinds -> [Sketches -> Ids]]]

\* operator== of PartAuthoredState: the local cursors are not compared.
SameState(a, b) == a.content = b.content /\ a.next = b.next

\* The outcome of a commit that leaves the document as it was.
Kept(state, revision, code) ==
    [state |-> state, revision |-> revision, code |-> code, changed |-> FALSE]

(***************************************************************************)
(* PartDocument::commitState: a stale base, an invalid state, an equal     *)
(* state and an exhausted revision are tested in this order, and only then *)
(* is the state replaced and the revision advanced.                        *)
(***************************************************************************)
CommitState(state, revision, base, staged) ==
    IF base # revision THEN Kept(state, revision, "stale_transaction")
    ELSE IF staged.content \notin ValidContents
         THEN Kept(state, revision, "invalid_state")
    ELSE IF SameState(staged, state) THEN Kept(state, revision, "none")
    ELSE IF revision = MaxRevision
         THEN Kept(state, revision, "revision_exhausted")
    ELSE [state |-> staged, revision |-> revision + 1,
          code |-> "none", changed |-> TRUE]
=============================================================================
