--------------------------- MODULE ProviderCalls ----------------------------
(***************************************************************************)
(* Commands that ask the modelling provider while they run.                *)
(*                                                                         *)
(* A command checks once that it was asked for at the current revision,    *)
(* and then calls the solid modelling kernel, which may execute another    *)
(* command of the same DocumentSession before it answers.  What becomes of *)
(* that nested command depends on how the outer one goes on:               *)
(*   - "guarded" commands (CreateProjectedSketchEdges,                     *)
(*     BreakProjectedEdgeLinks, CreateProfile, ReplaceProfileRegionIntent) *)
(*     compare the revision with the requested one again before they       *)
(*     commit;                                                             *)
(*   - "candidate" commands (Axis, Datum, Extrude, Revolve, Fillet and     *)
(*     Chamfer, create and edit) evaluate a staged copy as a candidate     *)
(*     document and commit that copy;                                      *)
(*   - "evidence" commands (re-support; create a sketch on a support, left *)
(*     out) stage only after the provider has answered.                    *)
(*                                                                         *)
(* The content of the document is the set of its objects, each with the    *)
(* identifier it was given.                                                *)
(***************************************************************************)
EXTENDS DocumentSession, SequencesExt

CONSTANTS
    Makers,     \* tells apart objects that were given the same identifier
    MaxDepth    \* how deep commands and provider calls nest

Kind == "feature"  \* the one sort of identifier the objects use

Objects == [id : Ids, maker : Makers]

ASSUME ProviderAssumption ==
    /\ Kind \in Counted
    /\ Contents = {c \in SUBSET Objects : \A a, b \in c : a.id = b.id => a = b}
    /\ MaxDepth \in Nat

VARIABLES
    calls,      \* the commands inside a provider call, the innermost last
    made        \* the objects any committed document ever held

callVars == <<calls, made>>
allVars == <<vars, callVars>>

-----------------------------------------------------------------------------
(* Staging *)

\* The copy of the live state a creating command edits, its cursor raised to
\* the session's before it allocates.
Copy == ApplyCounted(document, idCursor)

Exhausted == Copy.next[Kind] = MaxId

StagedWith(object) ==
    [Copy EXCEPT !.content = @ \cup {object}, !.next[Kind] = object.id + 1]

StagedWithout(object) == [document EXCEPT !.content = @ \ {object}]

\* The live state with another version of one of its objects.
Redefined(object) ==
    [document EXCEPT !.content =
        {o \in @ : o.id # object.id} \cup {object}]

-----------------------------------------------------------------------------
(* Commands *)

\* What is committed counts as made.
Record == made' = made \cup document'.content

Rejected(code) == Returned("execute", code) /\ UNCHANGED made

Publish(staged) == CommitCommandState(staged) /\ Record

Innermost == calls[Len(calls)]

Kinds == {"guarded", "candidate", "evidence"}

\* Every command was prepared at some revision, and a stale one is refused.
Stale(base) ==
    /\ base # revision
    /\ Rejected("revision_diverged")
    /\ UNCHANGED calls

\* The command is inside the provider from now on.
Call(kind, object, staged) ==
    /\ Len(calls) < MaxDepth
    /\ calls' = Append(calls, [kind |-> kind, base |-> revision,
                              object |-> object, staged |-> staged])
    /\ UNCHANGED <<vars, made>>

\* A creating command allocates and stages before it calls the provider.
Create(kind, maker) ==
    LET object == [id |-> Copy.next[Kind], maker |-> maker]
    IN  \/ /\ Exhausted
           /\ Rejected("transaction_failure")
           /\ UNCHANGED calls
        \/ /\ ~Exhausted
           /\ Call(kind, object, StagedWith(object))

\* Re-support names a sketch and has the provider judge the new support.
Resupport(target, maker) ==
    /\ target \in document.content
    /\ maker # target.maker
    /\ Call("evidence", [target EXCEPT !.maker = maker], document)

\* The provider does not certify what the command needs.
Uncertified ==
    /\ calls # <<>>
    /\ calls' = Front(calls)
    /\ Rejected("invalid_command")

\* Mutant: the commit compares with the revision the session expects, which
\* the nested command has moved along.
AnswerGuardedBySession ==
    IF ~RevisionAgrees THEN Rejected("revision_diverged")
    ELSE Publish(Innermost.staged)

\* "Compare against THIS outer request before any state publication."
AnswerGuarded ==
    IF Innermost.base # revision THEN Rejected("revision_diverged")
    ELSE Publish(Innermost.staged)

\* The candidate was evaluated; what is committed was staged before that.
AnswerCandidate == Publish(Innermost.staged)

\* The new support was judged in the document of the call; the state staged
\* is the current one.  After a nested commit "existing" points into the
\* retired state, so whether the support looks unchanged is anybody's guess.
AnswerEvidence ==
    \/ /\ Innermost.base # revision
       /\ Rejected("unchanged")
    \/ /\ \A o \in document.content : o.id # Innermost.object.id
       /\ Rejected("invalid_command")
    \/ /\ \E o \in document.content : o.id = Innermost.object.id
       /\ Publish(Redefined(Innermost.object))

Answer ==
    /\ calls # <<>>
    /\ calls' = Front(calls)
    /\ \/ Innermost.kind = "guarded" /\ AnswerGuarded
       \/ Innermost.kind = "candidate" /\ AnswerCandidate
       \/ Innermost.kind = "evidence" /\ AnswerEvidence

\* A command that asks no provider, such as DeleteFeature.
Delete(object) ==
    /\ object \in document.content
    /\ Publish(StagedWithout(object))
    /\ UNCHANGED calls

Travel ==
    /\ Undo \/ Redo
    /\ UNCHANGED callVars

Store == Save /\ UNCHANGED callVars

-----------------------------------------------------------------------------
\* A document was loaded; the identifiers in it are below its cursor.
CallsInit ==
    /\ Init
    /\ \A object \in document.content : object.id < document.next[Kind]
    /\ calls = <<>>
    /\ made = document.content

CallsNext ==
    \/ \E base \in Revisions : Stale(base)
    \/ \E kind \in {"guarded", "candidate"}, maker \in Makers : Create(kind, maker)
    \/ \E target \in document.content, maker \in Makers : Resupport(target, maker)
    \/ Uncertified
    \/ Answer
    \/ \E object \in document.content : Delete(object)
    \/ Travel
    \/ Store

CallsSpec == CallsInit /\ [][CallsNext]_allVars

-----------------------------------------------------------------------------
(* Properties *)

\* The command of the innermost call changes the document now.
Publishes == Len(calls') < Len(calls) /\ document' # document

\* No nested command is lost.  A guarded command adds one object to the
\* document it finds, whose identifier names nothing else that was ever
\* committed in this session; a re-support changes its sketch in the document
\* it finds, though the evidence may be that of an older one.
NestedIsKept ==
    [][Publishes =>
         CASE Innermost.kind = "guarded" ->
                \E object \in document'.content :
                    /\ document'.content = document.content \cup {object}
                    /\ \A other \in made : other.id # object.id
           [] Innermost.kind = "evidence" ->
                document'.content = Redefined(Innermost.object).content
           [] OTHER -> TRUE]_allVars

\* Whatever the provider calls back, the history stays usable: Undo and Redo
\* meet the documents they recorded and the cursors cover all of them.
HistorySurvivesCallbacks == HistoryConsistent /\ HistoryIsUsable
=============================================================================
