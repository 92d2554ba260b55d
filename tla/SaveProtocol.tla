---------------------------- MODULE SaveProtocol ----------------------------
(***************************************************************************)
(* How the sessions of several SS2 processes share one native Part file:   *)
(* PartDocumentStore::{load, createNew, save} over writeFileAtomically,    *)
(* readFileSnapshot and the cooperative save guard, with other programs    *)
(* changing the file and processes dying between any two steps.            *)
(*                                                                         *)
(* A save holds the guard from before it reads the target until after it   *)
(* published; creating a file takes no guard and relies on publication     *)
(* that refuses an existing name.  A process runs its steps one by one;    *)
(* what is atomic here is one call of the operating system, or calls whose *)
(* order nobody else can observe.                                          *)
(***************************************************************************)
EXTENDS Naturals

CONSTANTS
    Processes,      \* SS2 processes, each with at most one session on the file
    Contents,       \* complete file contents
    DocOf(_),       \* the DocumentId in a content, or Unparsable
    Unparsable,     \* stands for a content that is no native document
    Identities,     \* platform file identities (volume and file number)
    Torn,           \* stands for a file whose bytes are not all written
    NoFile,         \* nothing has the name
    Irregular,      \* something that is not a regular file has the name
    Nobody,         \* no process holds the guard
    Nothing,        \* the document of a process that has none
    MaxInterference,  \* how often other programs touch the target
    MaxCrashes      \* how often a process dies

ASSUME SentinelAssumption ==
    /\ NoFile # Irregular
    /\ Torn \notin Contents
    /\ Nobody \notin Processes
    /\ Nothing \notin Contents

File == [content : Contents \cup {Torn}, identity : Identities]

ASSUME FileAssumption ==
    /\ NoFile \notin File
    /\ Irregular \notin File

ASSUME BudgetAssumption == MaxInterference \in Nat /\ MaxCrashes \in Nat

VARIABLES
    target,      \* what has the document's name
    temp,        \* temp[p]: the temporary file p is publishing, or NoFile
    orphans,     \* identities of temporaries left behind by dead processes
    guard,       \* the process that owns the cooperative guard of the target
    pc,          \* pc[p]: where p is in load, create or save
    doc,         \* doc[p]: content of p's live document
    saved,       \* saved[p]: saved_state_ of p's session
    checkpoint,  \* checkpoint[p]: file_checkpoint_ of p's session
    reply,       \* reply[p]: what p's last operation on the file returned
    touched,     \* processes whose file somebody else changed since their
                 \* checkpoint (observer's knowledge, not the program's)
    raced,       \* processes whose file another program changed after they
                 \* had validated it (observer's knowledge)
    interference, \* how often other programs touched the target
    crashes      \* how many processes died

protocolVars ==
    <<target, temp, orphans, guard, pc, doc, saved, checkpoint, reply,
      touched, raced, interference, crashes>>

-----------------------------------------------------------------------------
IsFile(f) == f # NoFile /\ f # Irregular

\* A process without a session has no checkpoint.
HasSession(p) == checkpoint[p] # NoFile

InUse == orphans \cup {f.identity : f \in {g \in {target} \cup
                                     {temp[p] : p \in Processes} : IsFile(g)}}

\* The other processes with a session, whose checkpoint a new file outdates.
Others(p) == {q \in Processes \ {p} : HasSession(q)}

(***************************************************************************)
(* What save answers after comparing the target with its checkpoint, in    *)
(* the order of the code: a missing or irregular target, another document, *)
(* another file, other bytes.  "ready" lets the save go on.                *)
(***************************************************************************)
Validation(p) ==
    IF target = NoFile THEN "target_missing"
    ELSE IF target = Irregular THEN "io_failure"
    ELSE IF /\ target.content # checkpoint[p].content
            /\ DocOf(target.content) # Unparsable
            /\ DocOf(target.content) # DocOf(checkpoint[p].content)
         THEN "identity_changed"
    ELSE IF target.identity # checkpoint[p].identity THEN "file_replaced"
    ELSE IF target.content # checkpoint[p].content THEN "content_changed"
    ELSE "ready"

\* The conflicts in the target itself; "busy" is the guard's and is no verdict
\* on the file.
Conflicts == {"target_missing", "identity_changed", "file_replaced",
              "content_changed"}

\* Mutant: the guard is kept when the operation ends.
EndsKeepingGuard(p, code) ==
    /\ pc' = [pc EXCEPT ![p] = IF HasSession(p) THEN "idle" ELSE "closed"]
    /\ reply' = [reply EXCEPT ![p] = code]
    /\ temp' = [temp EXCEPT ![p] = NoFile]
    /\ guard' = guard
    /\ doc' = [doc EXCEPT ![p] = IF HasSession(p) THEN doc[p] ELSE Nothing]
    /\ raced' = raced \ {p}

\* The operation on the file ends with this answer: the guard's destructor
\* releases it, the temporary is cleaned up.
Ends(p, code) ==
    /\ pc' = [pc EXCEPT ![p] = IF HasSession(p) THEN "idle" ELSE "closed"]
    /\ reply' = [reply EXCEPT ![p] = code]
    /\ temp' = [temp EXCEPT ![p] = NoFile]
    /\ guard' = IF guard = p THEN Nobody ELSE guard
    /\ doc' = [doc EXCEPT ![p] = IF HasSession(p) THEN doc[p] ELSE Nothing]
    /\ raced' = raced \ {p}

-----------------------------------------------------------------------------
(* Opening, editing and closing *)

\* load: document and checkpoint come from one snapshot of the file.
Open(p) ==
    /\ pc[p] = "closed"
    /\ IsFile(target)
    /\ DocOf(target.content) # Unparsable
    /\ doc' = [doc EXCEPT ![p] = target.content]
    /\ saved' = [saved EXCEPT ![p] = target.content]
    /\ checkpoint' = [checkpoint EXCEPT ![p] = target]
    /\ pc' = [pc EXCEPT ![p] = "idle"]
    /\ reply' = [reply EXCEPT ![p] = "opened"]
    /\ touched' = touched \ {p}
    /\ UNCHANGED <<target, temp, orphans, guard, raced, interference, crashes>>

\* Commands, Undo and Redo change the live document, never its DocumentId.
CommitEdit(p, c) ==
    /\ pc[p] = "idle"
    /\ c # doc[p] /\ DocOf(c) = DocOf(doc[p])
    /\ doc' = [doc EXCEPT ![p] = c]
    /\ UNCHANGED <<target, temp, orphans, guard, pc, saved, checkpoint,
                   reply, touched, raced, interference, crashes>>

Close(p) ==
    /\ pc[p] = "idle"
    /\ pc' = [pc EXCEPT ![p] = "closed"]
    /\ checkpoint' = [checkpoint EXCEPT ![p] = NoFile]
    /\ reply' = [reply EXCEPT ![p] = "none"]
    /\ doc' = [doc EXCEPT ![p] = Nothing]
    /\ saved' = [saved EXCEPT ![p] = Nothing]
    /\ touched' = touched \ {p}
    /\ UNCHANGED <<target, temp, orphans, guard, raced, interference, crashes>>

-----------------------------------------------------------------------------
(* createNew and save up to the temporary file *)

\* createNew builds the package; it takes no guard.
BeginCreate(p, c) ==
    /\ pc[p] = "closed"
    /\ DocOf(c) # Unparsable
    /\ doc' = [doc EXCEPT ![p] = c]
    /\ pc' = [pc EXCEPT ![p] = "ready"]
    /\ UNCHANGED <<target, temp, orphans, guard, saved, checkpoint, reply,
                   touched, raced, interference, crashes>>

\* Mutant: a save goes on without the guard.
BeginSaveUnguarded(p) ==
    /\ pc[p] = "idle"
    /\ pc' = [pc EXCEPT ![p] = "guarded"]
    /\ UNCHANGED <<target, temp, orphans, guard, doc, saved, checkpoint,
                   reply, touched, raced, interference, crashes>>

\* save tries the guard once and does not wait for it.
BeginSave(p) ==
    /\ pc[p] = "idle"
    /\ IF guard = Nobody
       THEN /\ guard' = p
            /\ pc' = [pc EXCEPT ![p] = "guarded"]
            /\ UNCHANGED reply
       ELSE /\ reply' = [reply EXCEPT ![p] = "busy"]
            /\ UNCHANGED <<guard, pc>>
    /\ UNCHANGED <<target, temp, orphans, doc, saved, checkpoint, touched,
                   raced, interference, crashes>>

\* save reads the target and compares it with the checkpoint.
Validate(p) ==
    /\ pc[p] = "guarded"
    /\ IF Validation(p) = "ready"
       THEN /\ pc' = [pc EXCEPT ![p] = "ready"]
            /\ UNCHANGED <<temp, guard, doc, reply, raced>>
       ELSE Ends(p, Validation(p))
    /\ UNCHANGED <<target, orphans, saved, checkpoint, touched,
                   interference, crashes>>

(***************************************************************************)
(* writeFileAtomically inspects the target once more: create_new refuses   *)
(* any existing name, replace refuses what is not a regular file, and a    *)
(* replace whose target has just gone away goes on.                        *)
(***************************************************************************)
Inspection(p) ==
    IF ~HasSession(p) /\ target # NoFile THEN "target_exists"
    ELSE IF target = Irregular THEN "target_not_regular"
    ELSE "ready"

\* Mutant: the temporary counts as staged before its bytes are there.
ReserveUnverified(p) ==
    /\ pc[p] = "ready"
    /\ IF Inspection(p) = "ready"
       THEN /\ \E i \in Identities \ InUse :
                   temp' = [temp EXCEPT ![p] = [content |-> Torn, identity |-> i]]
            /\ pc' = [pc EXCEPT ![p] = "staged"]
            /\ UNCHANGED <<guard, doc, reply, raced>>
       ELSE Ends(p, Inspection(p))
    /\ UNCHANGED <<target, orphans, saved, checkpoint, touched,
                   interference, crashes>>

\* The temporary is created exclusively; its bytes follow.
ReserveTemporary(p) ==
    /\ pc[p] = "ready"
    /\ IF Inspection(p) = "ready"
       THEN /\ \E i \in Identities \ InUse :
                   temp' = [temp EXCEPT ![p] = [content |-> Torn, identity |-> i]]
            /\ pc' = [pc EXCEPT ![p] = "writing"]
            /\ UNCHANGED <<guard, doc, reply, raced>>
       ELSE Ends(p, Inspection(p))
    /\ UNCHANGED <<target, orphans, saved, checkpoint, touched,
                   interference, crashes>>

\* The bytes are written, read back and compared.
CompleteTemporary(p) ==
    /\ pc[p] = "writing"
    /\ temp' = [temp EXCEPT ![p].content = doc[p]]
    /\ pc' = [pc EXCEPT ![p] = "staged"]
    /\ UNCHANGED <<target, orphans, guard, doc, saved, checkpoint, reply,
                   touched, raced, interference, crashes>>

\* Mutant: a failed write marks the document as saved.
WriteFailsMarkedSaved(p) ==
    /\ pc[p] \in {"guarded", "ready", "writing", "staged"}
    /\ Ends(p, "io_failure")
    /\ saved' = [saved EXCEPT ![p] = doc[p]]
    /\ UNCHANGED <<target, orphans, checkpoint, touched, interference, crashes>>

\* Reading, building, reserving, writing, verifying or publishing fails.
WriteFails(p) ==
    /\ pc[p] \in {"guarded", "ready", "writing", "staged"}
    /\ Ends(p, "io_failure")
    /\ UNCHANGED <<target, orphans, saved, checkpoint, touched,
                   interference, crashes>>

-----------------------------------------------------------------------------
(* Publication *)

\* The session takes the published file as its checkpoint and the live state
\* as its saved state, in one uninterrupted return to DocumentSession::save.
Adopts(p) ==
    /\ target' = temp[p]
    /\ checkpoint' = [checkpoint EXCEPT ![p] = temp[p]]
    /\ saved' = [saved EXCEPT ![p] = doc[p]]
    /\ pc' = [pc EXCEPT ![p] = "idle"]
    /\ temp' = [temp EXCEPT ![p] = NoFile]
    /\ guard' = IF guard = p THEN Nobody ELSE guard
    /\ reply' = [reply EXCEPT ![p] = "saved"]
    /\ touched' = (touched \ {p}) \cup Others(p)
    /\ raced' = raced \ {p}
    /\ UNCHANGED doc

\* publishReplacing: a rename over whatever regular file, or nothing, is there.
PublishReplacing(p) ==
    /\ pc[p] = "staged"
    /\ HasSession(p)
    /\ IF target = Irregular
       THEN /\ Ends(p, "io_failure")
            /\ UNCHANGED <<target, saved, checkpoint, touched>>
       ELSE Adopts(p)
    /\ UNCHANGED <<orphans, interference, crashes>>

\* Mutant: creation publishes with the replacing rename.
PublishNewReplacing(p) ==
    /\ pc[p] = "staged"
    /\ ~HasSession(p)
    /\ target # Irregular
    /\ Adopts(p)
    /\ UNCHANGED <<orphans, interference, crashes>>

\* publishNew: succeeds only while nothing has the name.
PublishNew(p) ==
    /\ pc[p] = "staged"
    /\ ~HasSession(p)
    /\ IF target # NoFile
       THEN /\ Ends(p, "target_exists")
            /\ UNCHANGED <<target, saved, checkpoint, touched>>
       ELSE Adopts(p)
    /\ UNCHANGED <<orphans, interference, crashes>>

\* publishNew on POSIX links the name and then fails to unlink the temporary:
\* the file is there, the creation is reported as failed.
PublishNewUnreported(p) ==
    /\ pc[p] = "staged"
    /\ ~HasSession(p)
    /\ target = NoFile
    /\ target' = temp[p]
    /\ Ends(p, "target_exists")
    /\ touched' = touched \cup Others(p)
    /\ UNCHANGED <<orphans, saved, checkpoint, interference, crashes>>

-----------------------------------------------------------------------------
(* The world outside *)

\* The process dies: its session is gone, the system frees its guard, its
\* temporary file stays.
Crash(p) ==
    /\ crashes < MaxCrashes
    /\ pc[p] # "closed"
    /\ crashes' = crashes + 1
    /\ orphans' = orphans \cup {f.identity : f \in {g \in {temp[p]} : IsFile(g)}}
    /\ temp' = [temp EXCEPT ![p] = NoFile]
    /\ guard' = IF guard = p THEN Nobody ELSE guard
    /\ pc' = [pc EXCEPT ![p] = "closed"]
    /\ checkpoint' = [checkpoint EXCEPT ![p] = NoFile]
    /\ reply' = [reply EXCEPT ![p] = "none"]
    /\ touched' = touched \ {p}
    /\ raced' = raced \ {p}
    /\ doc' = [doc EXCEPT ![p] = Nothing]
    /\ saved' = [saved EXCEPT ![p] = Nothing]
    /\ UNCHANGED <<target, interference>>

\* Another program rewrites, replaces, removes or displaces the target.
Interfere ==
    /\ interference < MaxInterference
    /\ interference' = interference + 1
    /\ \/ target' \in {NoFile, Irregular} \ {target}
       \/ \E c \in Contents, i \in (Identities \ InUse) \cup
              (IF IsFile(target) THEN {target.identity} ELSE {}) :
              target' = [content |-> c, identity |-> i]
    /\ touched' = {p \in Processes : HasSession(p)}
    /\ raced' = {p \in Processes : HasSession(p)
                                   /\ pc[p] \in {"ready", "writing", "staged"}}
                \cup raced
    /\ UNCHANGED <<temp, orphans, guard, pc, doc, saved, checkpoint, reply,
                   crashes>>

-----------------------------------------------------------------------------
ProtocolInit ==
    /\ target \in {NoFile} \cup [content : Contents, identity : Identities]
    /\ temp = [p \in Processes |-> NoFile]
    /\ orphans = {}
    /\ guard = Nobody
    /\ pc = [p \in Processes |-> "closed"]
    /\ doc = [p \in Processes |-> Nothing]
    /\ saved = doc
    /\ checkpoint = [p \in Processes |-> NoFile]
    /\ reply = [p \in Processes |-> "none"]
    /\ touched = {}
    /\ raced = {}
    /\ interference = 0
    /\ crashes = 0

\* The steps of an operation on the file once it has begun.
Step(p) ==
    \/ Validate(p)
    \/ ReserveTemporary(p)
    \/ CompleteTemporary(p)
    \/ WriteFails(p)
    \/ PublishReplacing(p)
    \/ PublishNew(p)
    \/ PublishNewUnreported(p)

ProtocolNext ==
    \/ \E p \in Processes :
           \/ Open(p)
           \/ \E c \in Contents : CommitEdit(p, c) \/ BeginCreate(p, c)
           \/ Close(p)
           \/ BeginSave(p)
           \/ Step(p)
           \/ Crash(p)
    \/ Interfere

ProtocolSpec == ProtocolInit /\ [][ProtocolNext]_protocolVars

\* A save or a creation that has begun is run to its end: it is one call on
\* the interface thread of a living process.  Nothing makes a user save.
FairSpec == ProtocolSpec /\ \A p \in Processes : WF_protocolVars(Step(p))

-----------------------------------------------------------------------------
(* Properties *)

Working == {"ready", "writing", "staged"}

\* The shape of the state; a process that is idle or saves has a document and
\* the checkpoint of a file, the optional the code reads without asking.
ProtocolTypeOK ==
    /\ target \in File \cup {NoFile, Irregular}
    /\ temp \in [Processes -> File \cup {NoFile}]
    /\ orphans \subseteq Identities
    /\ guard \in Processes \cup {Nobody}
    /\ pc \in [Processes -> {"closed", "idle", "guarded"} \cup Working]
    /\ doc \in [Processes -> Contents \cup {Nothing}]
    /\ saved \in [Processes -> Contents \cup {Nothing}]
    /\ checkpoint \in [Processes -> File \cup {NoFile}]
    /\ reply \in [Processes -> {"none", "opened", "busy", "saved",
                                 "io_failure", "target_exists",
                                 "target_not_regular"} \cup Conflicts]
    /\ \A p \in Processes :
           pc[p] \in {"idle", "guarded"} =>
               checkpoint[p] \in File /\ doc[p] \in Contents
    /\ touched \subseteq Processes
    /\ raced \subseteq Processes
    /\ interference \in 0..MaxInterference
    /\ crashes \in 0..MaxCrashes

\* Whoever fails or dies at whatever step, the document's name never leads to
\* a file whose bytes are not all there (docs/internal/PERSISTENCE.md: the
\* complete package is built and staged before publication).
TargetComplete == IsFile(target) => target.content # Torn

\* Between the comparison with its checkpoint and the publication of a save,
\* no other SS2 process changes the target: neither one that saves, which
\* needs the guard, nor one that creates, which does not take it.  What a save
\* overwrites is therefore what its session had loaded or saved itself, unless
\* a foreign program raced with it.
ValidatedStaysValid ==
    \A p \in Processes :
        HasSession(p) /\ pc[p] \in Working /\ p \notin raced
            => target = checkpoint[p]

\* The two baselines of a session move together with the file: as long as
\* nobody else changed it, the file is the one of the checkpoint and holds the
\* saved state, after failed, refused and interrupted saves of anybody too.  A
\* session that needs no save has its content on disk.
CleanMeansOnDisk ==
    \A p \in Processes :
        HasSession(p) /\ p \notin touched
            => target = checkpoint[p] /\ target.content = saved[p]

\* A save is refused as a conflict only if the file really was changed by
\* somebody else since the session's checkpoint.
NoSpuriousConflict ==
    \A p \in Processes : reply[p] \in Conflicts => p \in touched

\* A process that began to save or create gets an answer or dies, and does not
\* keep the guard: everybody else can save again.
OperationsEnd ==
    \A p \in Processes :
        pc[p] \in {"guarded"} \cup Working \/ guard = p
            ~> pc[p] \notin {"guarded"} \cup Working /\ guard # p

(***************************************************************************)
(* Why a validated target stays valid: who saves holds the guard; who      *)
(* creates publishes only where there is no file, and a validated target   *)
(* is a file; a staged temporary holds the whole document.                 *)
(***************************************************************************)
SaverHoldsGuard ==
    \A p \in Processes :
        guard = p <=> HasSession(p) /\ pc[p] \in {"guarded"} \cup Working

ClosedHasNone ==
    \A p \in Processes :
        /\ pc[p] = "closed" => ~HasSession(p)
        /\ p \in touched => HasSession(p)

StagedIsComplete ==
    \A p \in Processes :
        /\ pc[p] \in Working => doc[p] \in Contents
        /\ pc[p] \in {"writing", "staged"} => temp[p] \in File
        /\ pc[p] = "staged" => temp[p].content = doc[p]

Register == INSTANCE SaveRegister WITH value <- target, base <- checkpoint

\* As long as only SS2 processes write, the file is a compare-and-swap
\* register: every save replaces exactly the file its session last saw.
ImplementsSaveRegister == Register!Spec
=============================================================================
