----------------------------- MODULE ProjectHub -----------------------------
(***************************************************************************)
(* The project hub of several SS2 processes of one user: ProjectHub-       *)
(* Controller creates, opens, locates and forgets projects, and            *)
(* RecentProjectStore keeps the catalog of recent projects they share.     *)
(*                                                                         *)
(* Every change of the catalog is a list() of the file, an edit of the     *)
(* list and a writeCatalog() of all of it.  Nothing locks the file, and it *)
(* is replaced by two renames, through a backup with a fixed name.         *)
(*                                                                         *)
(* A new project is built in a staging directory of its own and published  *)
(* by a rename; if it cannot be opened and recorded it is removed again.   *)
(***************************************************************************)
EXTENDS Naturals, Sequences, SequencesExt

CONSTANTS
    Processes,      \* SS2 processes
    Folders,        \* places where a project's workspace may be
    ProjectIds,
    None,           \* no folder, no project, nothing remembered
    NoFile,         \* a file that is not there
    MaxEntries,     \* stands for RecentProjectStore::max_entries
    MaxRequests,    \* how many operations the users ask for
    MaxFaults,      \* how many calls of the operating system fail
    MaxCrashes,     \* how many processes die in an operation
    MaxExternal,    \* how often the user changes folders by other means
    MaxTroubles     \* how many of these three there are together

ASSUME HubAssumption ==
    /\ None \notin ProjectIds \cup Folders
    /\ MaxEntries \in Nat \ {0}
    /\ MaxRequests \in Nat /\ MaxFaults \in Nat /\ MaxCrashes \in Nat
    /\ MaxExternal \in Nat /\ MaxTroubles \in Nat

\* A directory: the project its metadata names, and whether anything but
\* the metadata is in it.
Folder == [id : ProjectIds \cup {None}, work : BOOLEAN]

Entry == [id : ProjectIds, path : Folders]

\* The list an operation has read, and the one it is to write.
Edit == [base : Seq(Entry), list : Seq(Entry)]

ASSUME NoFolderAssumption ==
    None \notin Folder /\ NoFile \notin Seq(Entry) \cup Edit

VARIABLES
    folder,      \* folder[f]: the directory at that place, or None
    catalog,     \* the catalog file: a sequence of entries, or NoFile
    backup,      \* the file with the name of the catalog's backup
    pc,          \* pc[p]: where p is in an operation
    op,          \* op[p]: its arguments and local variables
    session,     \* session[p]: ProjectId of the ProjectSession p opened
    temp,        \* temp[p]: the list p read and the one in its temporary file
    answer,      \* answer[p]: what p's last operation returned
    issued,      \* ProjectIds that exist or existed: a new one differs
    remembered,  \* remembered[d]: where successful changes of the catalog have
                 \* last put d, or None (observer's knowledge)
    disturbed,   \* processes whose rollback has found its folder, and the user
                 \* has changed it since (observer's knowledge)
    alone,       \* no two operations have overlapped (observer's knowledge)
    requests, faults, crashes, externals

shared == <<folder, catalog, backup>>
counted == <<alone, requests, faults, crashes, externals>>
local == <<session, temp, answer>>
vars == <<shared, pc, op, local, issued, remembered, disturbed, counted>>

-----------------------------------------------------------------------------
(* The catalog as list() returns it, and the lists that are written *)

Listed == IF catalog = NoFile THEN <<>> ELSE catalog

IdsIn(list) == {list[i].id : i \in DOMAIN list}

\* list() refuses a catalog that has a ProjectId twice.
Position(list, d) == CHOOSE i \in DOMAIN list : list[i].id = d

PathIn(list, d) == list[Position(list, d)].path

Without(list, d) ==
    IF d \in IdsIn(list) THEN RemoveAt(list, Position(list, d)) ELSE list

Shortest(m, n) == IF m <= n THEN m ELSE n

\* The entry moves to the front; the list is cut off at its limit.
Recorded(list, e) ==
    LET renewed == <<e>> \o Without(list, e.id)
    IN  SubSeq(renewed, 1, Shortest(MaxEntries, Len(renewed)))

Relocated(list, e) ==
    [i \in DOMAIN list |-> IF list[i].id = e.id THEN e ELSE list[i]]

-----------------------------------------------------------------------------
(* Ends of operations *)

Goes(p, place) == pc' = [pc EXCEPT ![p] = place]

Ends(p, code) ==
    /\ Goes(p, "idle")
    /\ answer' = [answer EXCEPT ![p] = code]
    /\ session' = [session EXCEPT ![p] = None]
    /\ temp' = [temp EXCEPT ![p] = NoFile]

\* A creation that has published its folder takes it back.
Fails(p, code) ==
    IF op[p].kind = "create" /\ pc[p] \notin {"staged", "checked", "rollback", "removing"}
    THEN /\ Goes(p, "rollback")
         /\ answer' = [answer EXCEPT ![p] = code]
         /\ session' = [session EXCEPT ![p] = None]
         /\ temp' = [temp EXCEPT ![p] = NoFile]
    ELSE Ends(p, code)

\* The project whose entry p writes or removes.
Concerned(p) == IF session[p] = None THEN op[p].id ELSE session[p]

\* What the catalog now says of every project, if nobody else wrote it.
Remembers(p) ==
    remembered' = [d \in ProjectIds |->
        IF d = Concerned(p) /\ op[p].kind # "remove" THEN op[p].path
        ELSE IF d \in IdsIn(temp[p].base) \ IdsIn(temp[p].list) THEN None
        ELSE remembered[d]]

\* writeCatalog succeeded: what called it goes on.
Written(p) ==
    /\ Remembers(p)
    /\ CASE op[p].kind = "remove" -> Ends(p, "removed")
         [] op[p].kind = "relocate" /\ session[p] = None ->
                /\ Goes(p, "relocated")
                /\ temp' = [temp EXCEPT ![p] = NoFile]
                /\ UNCHANGED <<answer, session>>
         [] OTHER ->
                /\ Goes(p, "active")
                /\ temp' = [temp EXCEPT ![p] = NoFile]
                /\ answer' = [answer EXCEPT ![p] = "opened"]
                /\ UNCHANGED session

Idle(p) == pc[p] = "idle"

Resting(p) == pc[p] \in {"idle", "active"}

Trouble == faults + crashes + externals < MaxTroubles

\* The user of an idle process asks for an operation.
Requested(p) ==
    /\ Idle(p)
    /\ requests < MaxRequests
    /\ requests' = requests + 1
    /\ alone' = (alone /\ \A q \in Processes : Resting(q))
    /\ UNCHANGED <<faults, crashes, externals>>

Begins(p, kind, f, d) == op' = [op EXCEPT ![p] = [kind |-> kind, path |-> f, id |-> d]]

-----------------------------------------------------------------------------
(* createProjectInLocation *)

\* The target must be absent; the project is built in a staging directory.
BeginCreate(p, f, d) ==
    /\ Requested(p)
    /\ d \notin issued
    /\ IF folder[f] # None
       THEN /\ Begins(p, "create", f, None)
            /\ Ends(p, "folder_exists")
            /\ UNCHANGED issued
       ELSE /\ Begins(p, "create", f, d)
            /\ issued' = issued \cup {d}
            /\ Goes(p, "staged")
            /\ UNCHANGED local
    /\ UNCHANGED <<shared, remembered, disturbed>>

RecheckTarget(p) ==
    /\ pc[p] = "staged"
    /\ IF folder[op[p].path] # None THEN Fails(p, "folder_exists")
       ELSE Goes(p, "checked") /\ UNCHANGED local
    /\ UNCHANGED <<shared, op, issued, remembered, disturbed, counted>>

\* The rename replaces an empty directory, where the platform does that, and
\* nothing else.
PublishFolder(p) ==
    LET f == op[p].path
        empty == [id |-> None, work |-> FALSE]
    IN  /\ pc[p] = "checked"
        /\ \/ /\ folder[f] \in {None, empty}
              /\ folder' = [folder EXCEPT ![f] = [id |-> op[p].id, work |-> FALSE]]
              /\ Goes(p, "published")
              /\ UNCHANGED local
           \/ /\ folder[f] # None
              /\ Fails(p, "creation_failure")
              /\ UNCHANGED folder
        /\ UNCHANGED <<catalog, backup, op, issued, remembered, disturbed, counted>>

\* Mutant: the rollback does not look whose folder it is.
RollbackUnchecked(p) ==
    /\ pc[p] = "rollback"
    /\ Goes(p, "removing")
    /\ disturbed' = disturbed \ {p}
    /\ UNCHANGED <<shared, op, local, issued, remembered, counted>>

\* Only a folder whose metadata names the new project is removed again.
Rollback(p) ==
    LET f == op[p].path
    IN  /\ pc[p] = "rollback"
        /\ Goes(p, IF folder[f] # None /\ folder[f].id = op[p].id
                   THEN "removing" ELSE "idle")
        /\ disturbed' = disturbed \ {p}
        /\ UNCHANGED <<shared, op, local, issued, remembered, counted>>

\* The processes that have found their folder at f and are about to remove it.
Removing(f) == {q \in Processes : pc[q] = "removing" /\ op[q].path = f}

\* What the user misled a process to remove, another may have been about to.
RemoveTree(p) ==
    LET f == op[p].path
    IN  /\ pc[p] = "removing"
        /\ folder' = [folder EXCEPT ![f] = None]
        /\ disturbed' = IF p \in disturbed THEN disturbed \cup Removing(f)
                        ELSE disturbed
        /\ Goes(p, "idle")
        /\ UNCHANGED <<catalog, backup, op, local, issued, remembered, counted>>

-----------------------------------------------------------------------------
(* Opening *)

IsProject(f) == folder[f] # None /\ folder[f].id # None

\* ProjectSession::open reads the metadata of the folder it is given.
OpenCreated(p) ==
    /\ pc[p] = "published"
    /\ IF IsProject(op[p].path)
       THEN /\ session' = [session EXCEPT ![p] = folder[op[p].path].id]
            /\ Goes(p, "opened")
            /\ UNCHANGED <<answer, temp>>
       ELSE Fails(p, "session_failure")
    /\ UNCHANGED <<shared, op, issued, remembered, disturbed, counted>>

\* openProject
OpenFolder(p, f) ==
    /\ Requested(p)
    /\ IF IsProject(f)
       THEN /\ Begins(p, "open", f, folder[f].id)
            /\ session' = [session EXCEPT ![p] = folder[f].id]
            /\ Goes(p, "opened")
            /\ UNCHANGED <<answer, temp>>
       ELSE Begins(p, "open", f, None) /\ Ends(p, "session_failure")
    /\ UNCHANGED <<shared, issued, remembered, disturbed>>

\* openRecent takes the location from the catalog.
Locates(p, kind, d) ==
    IF d \in IdsIn(Listed)
    THEN /\ Begins(p, kind, PathIn(Listed, d), d)
         /\ Goes(p, "located")
         /\ UNCHANGED local
    ELSE /\ Begins(p, kind, op[p].path, d)
         /\ Ends(p, "recent_entry_not_found")

OpenRecent(p, d) ==
    /\ Requested(p)
    /\ Locates(p, "recent", d)
    /\ UNCHANGED <<shared, issued, remembered, disturbed>>

\* Mutant: openRecent takes whatever project it finds.
OpenLocatedUnchecked(p) ==
    /\ pc[p] = "located"
    /\ IF IsProject(op[p].path)
       THEN /\ session' = [session EXCEPT ![p] = folder[op[p].path].id]
            /\ Goes(p, "opened")
            /\ UNCHANGED <<answer, temp>>
       ELSE Ends(p, "session_failure")
    /\ UNCHANGED <<shared, op, issued, remembered, disturbed, counted>>

OpenLocated(p) ==
    /\ pc[p] = "located"
    /\ IF ~IsProject(op[p].path) THEN Ends(p, "session_failure")
       ELSE IF folder[op[p].path].id # op[p].id
       THEN Ends(p, "recent_identity_mismatch")
       ELSE /\ session' = [session EXCEPT ![p] = op[p].id]
            /\ Goes(p, "opened")
            /\ UNCHANGED <<answer, temp>>
    /\ UNCHANGED <<shared, op, issued, remembered, disturbed, counted>>

-----------------------------------------------------------------------------
(* Changing the catalog: list it, edit the list, write it *)

Edits(p, base, list) ==
    /\ temp' = [temp EXCEPT ![p] = [base |-> base, list |-> list]]
    /\ Goes(p, "temp")
    /\ UNCHANGED <<session, answer>>

\* Mutant: an entry of the project at another place is replaced.
RecordOpenedAnywhere(p) ==
    /\ pc[p] = "opened"
    /\ Edits(p, Listed, Recorded(Listed, [id |-> session[p], path |-> op[p].path]))
    /\ UNCHANGED <<shared, op, issued, remembered, disturbed, counted>>

\* recordOpened: the same ProjectId at another place is a conflict.
RecordOpened(p) ==
    /\ pc[p] = "opened"
    /\ IF /\ session[p] \in IdsIn(Listed)
          /\ PathIn(Listed, session[p]) # op[p].path
       THEN Fails(p, "identity_conflict")
       ELSE Edits(p, Listed,
                  Recorded(Listed, [id |-> session[p], path |-> op[p].path]))
    /\ UNCHANGED <<shared, op, issued, remembered, disturbed, counted>>

RemoveRecent(p, d) ==
    /\ Requested(p)
    /\ IF d \in IdsIn(Listed)
       THEN /\ Begins(p, "remove", PathIn(Listed, d), d)
            /\ Edits(p, Listed, Without(Listed, d))
       ELSE Begins(p, "remove", op[p].path, d) /\ Ends(p, "removed")
    /\ UNCHANGED <<shared, issued, remembered, disturbed>>

\* relocateAndOpenRecent lists first and reads the metadata of the
\* replacement then; it opens the project like openRecent afterwards.
BeginRelocate(p, d, f) ==
    /\ Requested(p)
    /\ Begins(p, "relocate", f, d)
    /\ IF d \in IdsIn(Listed)
       THEN /\ Goes(p, "locating")
            /\ temp' = [temp EXCEPT ![p] = [base |-> Listed, list |-> <<>>]]
            /\ UNCHANGED <<session, answer>>
       ELSE Ends(p, "entry_not_found")
    /\ UNCHANGED <<shared, issued, remembered, disturbed>>

Relocate(p) ==
    LET f == op[p].path
    IN  /\ pc[p] = "locating"
        /\ IF ~IsProject(f)
           THEN Ends(p, "project_validation_failed")
           ELSE IF folder[f].id # op[p].id
           THEN Ends(p, "project_id_mismatch")
           ELSE Edits(p, temp[p].base,
                      Relocated(temp[p].base, [id |-> op[p].id, path |-> f]))
        /\ UNCHANGED <<shared, op, issued, remembered, disturbed, counted>>

OpenRelocated(p) ==
    /\ pc[p] = "relocated"
    /\ Locates(p, "relocate", op[p].id)
    /\ UNCHANGED <<shared, issued, remembered, disturbed, counted>>

-----------------------------------------------------------------------------
(* writeCatalog; its temporary file has a name of its own *)

\* A backup left from an earlier write goes first.
DropBackup(p) ==
    /\ pc[p] = "temp"
    /\ backup' = NoFile
    /\ Goes(p, "dropped")
    /\ UNCHANGED <<folder, catalog, op, local, issued, remembered,
                   disturbed, counted>>

InspectCatalog(p) ==
    /\ pc[p] = "dropped"
    /\ Goes(p, IF catalog = NoFile THEN "fresh" ELSE "inspected")
    /\ UNCHANGED <<shared, op, local, issued, remembered,
                   disturbed, counted>>

\* The catalog becomes the backup, unless it has gone meanwhile.
StagePrevious(p) ==
    /\ pc[p] = "inspected"
    /\ IF catalog = NoFile
       THEN Fails(p, "recent_failure") /\ UNCHANGED <<catalog, backup>>
       ELSE /\ backup' = catalog
            /\ catalog' = NoFile
            /\ Goes(p, "previous")
            /\ UNCHANGED local
    /\ UNCHANGED <<folder, op, issued, remembered, disturbed, counted>>

PublishCatalog(p) ==
    /\ pc[p] \in {"fresh", "previous"}
    /\ catalog' = temp[p].list
    /\ IF pc[p] = "fresh" THEN Written(p)
       ELSE Goes(p, "cleanup") /\ UNCHANGED <<local, remembered>>
    /\ UNCHANGED <<folder, backup, op, issued, disturbed, counted>>

CleanBackup(p) ==
    /\ pc[p] = "cleanup"
    /\ backup' = NoFile
    /\ Written(p)
    /\ UNCHANGED <<folder, catalog, op, issued, disturbed, counted>>

\* Mutant: the catalog stays moved away.
RestoreNothing(p) ==
    /\ pc[p] = "restoring"
    /\ Fails(p, "recent_failure")
    /\ UNCHANGED <<shared, op, issued, remembered, disturbed, counted>>

\* Publication failed: the backup, if it is there, becomes the catalog again.
RestorePrevious(p) ==
    /\ pc[p] = "restoring"
    /\ IF backup = NoFile THEN UNCHANGED <<catalog, backup>>
       ELSE catalog' = backup /\ backup' = NoFile
    /\ Fails(p, "recent_failure")
    /\ UNCHANGED <<folder, op, issued, remembered, disturbed, counted>>

-----------------------------------------------------------------------------
(* Failures of the operating system, and the world outside *)

\* The call the operation is about to make fails; that the backup cannot be
\* removed is ignored.
IoFails(p) ==
    /\ faults < MaxFaults /\ Trouble
    /\ faults' = faults + 1
    /\ \/ /\ pc[p] \in {"staged", "checked", "published", "located", "locating",
                       "relocated", "opened", "temp", "dropped", "inspected",
                       "fresh", "restoring"}
          /\ Fails(p, "io_failure")
          /\ UNCHANGED remembered
       \/ /\ pc[p] = "temp"
          /\ Goes(p, "dropped")
          /\ UNCHANGED <<local, remembered>>
       \/ /\ pc[p] = "previous"
          /\ Goes(p, "restoring")
          /\ UNCHANGED <<local, remembered>>
       \/ /\ pc[p] = "cleanup"
          /\ Written(p)
       \/ /\ pc[p] \in {"rollback", "removing"}
          /\ Goes(p, "idle")
          /\ UNCHANGED <<local, remembered>>
    /\ UNCHANGED <<shared, op, issued, disturbed, alone, requests, crashes,
                   externals>>

CloseProject(p) ==
    /\ pc[p] = "active"
    /\ Ends(p, "closed")
    /\ UNCHANGED <<shared, op, issued, remembered, disturbed, counted>>

Crash(p) ==
    /\ crashes < MaxCrashes /\ Trouble
    /\ ~Idle(p)
    /\ crashes' = crashes + 1
    /\ Ends(p, "none")
    /\ UNCHANGED <<shared, op, issued, remembered, disturbed, alone, requests, faults,
                   externals>>

\* The user makes, fills, copies, moves or deletes a folder.
External ==
    /\ externals < MaxExternal /\ Trouble
    /\ externals' = externals + 1
    /\ \E f, g \in Folders :
          /\ \/ /\ folder[f] = None
                /\ folder' = [folder EXCEPT ![f] = [id |-> None, work |-> FALSE]]
             \/ /\ folder[f] # None
                /\ folder' = [folder EXCEPT ![f].work = TRUE]
             \/ /\ folder[f] # None
                /\ folder' = [folder EXCEPT ![f] = None]
             \/ /\ folder[f] # None /\ folder[g] = None
                /\ folder' = [folder EXCEPT ![g] = folder[f]]
             \/ /\ folder[f] # None /\ folder[g] = None
                /\ folder' = [folder EXCEPT ![g] = folder[f], ![f] = None]
          /\ disturbed' = disturbed \cup Removing(f) \cup Removing(g)
    /\ UNCHANGED <<catalog, backup, pc, op, local, issued, remembered,
                   alone, requests, faults, crashes>>

-----------------------------------------------------------------------------
Init ==
    /\ folder \in [Folders -> Folder \cup {None}]
    /\ catalog = NoFile
    /\ backup = NoFile
    /\ pc = [p \in Processes |-> "idle"]
    /\ op \in {[p \in Processes |-> [kind |-> "open", path |-> f, id |-> None]] :
                  f \in Folders}
    /\ session = [p \in Processes |-> None]
    /\ temp = [p \in Processes |-> NoFile]
    /\ answer = [p \in Processes |-> "none"]
    /\ issued = {folder[f].id : f \in {g \in Folders : folder[g] # None}} \ {None}
    /\ remembered = [d \in ProjectIds |-> None]
    /\ disturbed = {}
    /\ alone = TRUE
    /\ requests = 0 /\ faults = 0 /\ crashes = 0 /\ externals = 0

Request(p) ==
    \/ \E f \in Folders, d \in ProjectIds : BeginCreate(p, f, d) \/ BeginRelocate(p, d, f)
    \/ \E f \in Folders : OpenFolder(p, f)
    \/ \E d \in ProjectIds : OpenRecent(p, d) \/ RemoveRecent(p, d)
    \/ CloseProject(p)

Continue(p) ==
    \/ RecheckTarget(p) \/ PublishFolder(p) \/ Rollback(p) \/ RemoveTree(p)
    \/ OpenCreated(p) \/ OpenLocated(p)
    \/ RecordOpened(p) \/ Relocate(p) \/ OpenRelocated(p)
    \/ DropBackup(p) \/ InspectCatalog(p) \/ StagePrevious(p)
    \/ PublishCatalog(p) \/ CleanBackup(p) \/ RestorePrevious(p)

\* The users have asked for all they will ask for.
Rest ==
    /\ requests = MaxRequests
    /\ \A p \in Processes : Idle(p)
    /\ UNCHANGED vars

Next ==
    \/ \E p \in Processes : Request(p) \/ Continue(p) \/ IoFails(p) \/ Crash(p)
    \/ External
    \/ Rest

Spec == Init /\ [][Next]_vars

-----------------------------------------------------------------------------
(* Properties *)

Places == {"idle", "staged", "checked", "published", "rollback", "removing",
           "opened", "located", "locating", "relocated", "temp", "dropped",
           "inspected", "fresh", "previous", "cleanup", "restoring", "active"}

Codes == {"none", "folder_exists", "creation_failure", "session_failure",
          "recent_entry_not_found", "recent_identity_mismatch", "recent_failure",
          "identity_conflict", "entry_not_found", "project_validation_failed",
          "project_id_mismatch", "io_failure", "removed", "opened", "closed"}

Operation == [kind : {"create", "open", "recent", "relocate", "remove"},
              path : Folders, id : ProjectIds \cup {None}]

\* The shape of the state; an operation that is to record a project has one.
TypeOK ==
    /\ folder \in [Folders -> Folder \cup {None}]
    /\ catalog \in Seq(Entry) \cup {NoFile}
    /\ backup \in Seq(Entry) \cup {NoFile}
    /\ pc \in [Processes -> Places]
    /\ op \in [Processes -> Operation]
    /\ session \in [Processes -> ProjectIds \cup {None}]
    /\ temp \in [Processes -> Edit \cup {NoFile}]
    /\ \A p \in Processes : pc[p] \in {"opened", "active"} => session[p] # None
    /\ answer \in [Processes -> Codes]
    /\ issued \subseteq ProjectIds
    /\ remembered \in [ProjectIds -> Folders \cup {None}]
    /\ disturbed \subseteq Processes
    /\ alone \in BOOLEAN
    /\ requests \in 0..MaxRequests
    /\ faults \in 0..MaxFaults
    /\ crashes \in 0..MaxCrashes
    /\ externals \in 0..MaxExternal

\* openRecent and relocateAndOpenRecent never activate another project than
\* the one the user picked, whatever was moved or exchanged meanwhile and
\* whatever other processes did to the catalog.  The state keeps its shape.
OpensWhatWasAsked ==
    /\ TypeOK
    /\ \A p \in Processes :
            pc[p] = "active" /\ op[p].kind \in {"recent", "relocate"}
                => session[p] = op[p].id

\* No two operations have overlapped, none has died, and of the calls of the
\* operating system at most one has failed: a second failure may strike just
\* when the backup is to become the catalog again.
Undisturbed == alone /\ crashes = 0 /\ faults <= 1

\* What list() takes.
Readable(list) ==
    /\ Len(list) <= MaxEntries
    /\ \A i, j \in DOMAIN list : list[i].id = list[j].id => i = j

\* list() takes the file, and the backup that may become it.
CatalogReadable == \A c \in {catalog, backup} \ {NoFile} : Readable(c)

\* The list has d where it was last put.
Remembered(list, d) == d \in IdsIn(list) /\ PathIn(list, d) = remembered[d]

\* Once all operations are over the catalog lists what was recorded and not
\* removed, at the place it was recorded with: "After application restart,
\* Recent Projects restores the Project location"
\* (docs/internal/APPLICATION_LIFECYCLE.md).
RememberedWhenIdle ==
    (\A p \in Processes : Resting(p)) =>
        \A d \in ProjectIds : remembered[d] # None => Remembered(Listed, d)

\* list() refuses a catalog with a ProjectId twice or with too many entries,
\* and from then on no project could be opened any more.  However processes
\* overwrite each other's catalog, and die or fail, none of them leaves one;
\* and as long as no two operations overlap and none dies the catalog is
\* complete, also when its publication fails and is taken back.
CatalogRemembers == CatalogReadable /\ (Undisturbed => RememberedWhenIdle)

\* The place of a project the catalog knows changes only by a relocation, as
\* long as no two operations overlap and none dies: "an already-known ProjectId at a
\* different location is an identity conflict rather than a silent path update"
\* (docs/internal/PROJECT_PLATFORM.md).
NoSilentPathUpdate ==
    [][ \A d \in ProjectIds :
            /\ Undisturbed /\ remembered[d] # None
            /\ remembered'[d] \notin {None, remembered[d]}
            => \E p \in Processes : op[p].kind = "relocate" /\ op[p].id = d
                                      /\ pc'[p] # pc[p] ]_vars

\* A creation that failed leaves no project behind.  Of two calls that fail one
\* may be a call of its rollback; so may a single one, if it is another process
\* that makes the creation fail.
NothingLeftBehind ==
    \A p \in Processes :
        /\ pc[p] = "idle" /\ op[p].kind = "create" /\ op[p].id # None
        /\ externals = 0 /\ (faults = 0 \/ (alone /\ faults <= 1))
        /\ answer[p] \notin {"none", "closed"}
        => \A f \in Folders : folder[f] # None => folder[f].id # op[p].id

\* The one folder that may go at this step is the one its creation published.
OwnFolderRemoved ==
    \A f \in Folders :
        folder[f] # None /\ folder'[f] = None /\ externals' = externals =>
            \E p \in Processes :
                /\ pc[p] = "removing" /\ op[p].path = f
                /\ folder[f].id = op[p].id \/ p \in disturbed

\* A creation that fails takes back what it made and only that.  At whatever
\* step one call failed or another process got in its way it leaves no project
\* behind, as long as nobody else moved the folder; and its rollback removes no
\* folder but its own, unless the user exchanged it between the look at its
\* metadata and the removal.
CreationTakesBackItsOwn == [][OwnFolderRemoved /\ NothingLeftBehind']_vars
=============================================================================
