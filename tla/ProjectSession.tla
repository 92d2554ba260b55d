--------------------------- MODULE ProjectSession ---------------------------
(***************************************************************************)
(* An opened project: ProjectSession with its DocumentWorkspaceIndex, the  *)
(* documents open in it, and what the hub window does around closing.      *)
(*                                                                         *)
(* The index is a snapshot of the workspace directory that is rebuilt only *)
(* on request, and other programs copy, move, rewrite and delete Part      *)
(* files all the time.  The scan of a rebuild reads one file after the     *)
(* other, so they can do so during the scan as well.                       *)
(*                                                                         *)
(* A save or creation is one step here; SaveProtocol looks inside it.      *)
(***************************************************************************)
EXTENDS Naturals, FiniteSets

CONSTANTS
    Ids,            \* DocumentIds
    Invalid,        \* stands for the id of a file that does not load as a Part
    Paths,          \* names of Part files in the workspace
    Bodies,         \* authored states of a document
    Fresh,          \* the authored state of a new document
    FileIdentities, \* platform file identities
    None,           \* no file, no session, no document
    MaxExternal     \* how often other programs touch the workspace

ASSUME WorkspaceAssumption ==
    /\ Invalid \notin Ids /\ None \notin Ids
    /\ Fresh \in Bodies
    /\ MaxExternal \in Nat

StoredFile == [id : Ids \cup {Invalid}, body : Bodies, identity : FileIdentities]
Session == [path : Paths, doc : Bodies, saved : Bodies, checkpoint : StoredFile]

ASSUME NoneAssumption ==
    /\ None \notin StoredFile /\ None \notin Session
    /\ None \notin [path : Paths, file : StoredFile]

VARIABLES
    files,      \* files[p]: the Part file with that name, or None
    project,    \* a project is open
    index,      \* index[d]: relative_paths of the entry of d, {} without entry
    open,       \* open[d]: the DocumentSession of d, or None
    task,       \* what the interface thread is in the middle of
    todo,       \* names the scan has still to visit
    unsaved,    \* documents save-all has still to save
    created,    \* the new Part of a createPart in progress
    answer,     \* what the last operation returned
    seen,       \* DocumentIds that exist or existed: a new one differs
    quiet,      \* no other program and no error interfered with the index
    externals

vars == <<files, project, index, open, task, todo, unsaved, created, answer,
          seen, quiet, externals>>

-----------------------------------------------------------------------------
HasFile(p) == files[p] # None
IsOpen(d) == open[d] # None
Dirty(d) == IsOpen(d) /\ open[d].doc # open[d].saved
Unused == FileIdentities \ {files[p].identity : p \in {q \in Paths : HasFile(q)}}
NoEntries == [d \in Ids |-> {}]

\* The files that declare a DocumentId.
Declaring(d) == {p \in Paths : HasFile(p) /\ files[p].id = d}

\* Control returns to the user with this result.
Returns(code) == task' = "none" /\ answer' = code

Ready == project /\ task = "none"

-----------------------------------------------------------------------------
(* Discovery *)

\* Mutant: refresh keeps the entries it has.
BeginScanOnTop(purpose) ==
    /\ task' = purpose
    /\ todo' = Paths
    /\ index' = index
    /\ quiet' = TRUE

\* refresh drops all entries before it looks at the directory.
BeginScan(purpose) ==
    /\ task' = purpose
    /\ todo' = Paths
    /\ index' = NoEntries
    /\ quiet' = TRUE

Scanning == {"open", "refresh", "create", "heal"}

\* One directory entry: a valid native file joins the group of its id.
Visit(p) ==
    /\ task \in Scanning
    /\ p \in todo
    /\ todo' = todo \ {p}
    /\ index' = IF HasFile(p) /\ files[p].id # Invalid
                THEN [index EXCEPT ![files[p].id] = @ \cup {p}]
                ELSE index
    /\ UNCHANGED <<files, project, open, task, unsaved, created, answer, seen,
                   quiet, externals>>

\* An iterator that fails to advance becomes the end iterator: the loop ends
\* and refresh reports success with what it has seen.
CutShort ==
    /\ task \in Scanning
    /\ todo # {}
    /\ todo' = {}
    /\ quiet' = FALSE
    /\ UNCHANGED <<files, project, index, open, task, unsaved, created,
                   answer, seen, externals>>

\* The session of the document a creation or an opening has just produced.
SessionOf(p, f) == [path |-> p, doc |-> f.body, saved |-> f.body,
                    checkpoint |-> f]

\* createPart asks the new index for the file it has just published.
CreatedResult ==
    LET d == created.file.id
    IN  IF index[d] = {created.path} THEN "created"
        ELSE IF Cardinality(index[d]) > 1 THEN "identity_conflict"
        ELSE "discovery_failure"

ScanEnds ==
    /\ task \in Scanning
    /\ todo = {}
    /\ IF task = "create"
       THEN /\ Returns(CreatedResult)
            /\ open' = IF CreatedResult = "created"
                       THEN [open EXCEPT ![created.file.id] =
                                SessionOf(created.path, created.file)]
                       ELSE open
            /\ created' = None
       ELSE /\ Returns(IF task = "heal" THEN "identity_changed" ELSE "refreshed")
            /\ UNCHANGED <<open, created>>
    /\ UNCHANGED <<files, project, index, todo, unsaved, seen, quiet, externals>>

\* The workspace directory cannot be resolved or listed at all.
ScanRefused ==
    /\ task \in Scanning
    /\ todo = Paths
    /\ Returns(IF task = "heal" THEN "identity_changed" ELSE "discovery_failure")
    /\ todo' = {}
    /\ index' = NoEntries
    /\ created' = None
    /\ quiet' = FALSE
    /\ UNCHANGED <<files, project, open, unsaved, seen, externals>>

-----------------------------------------------------------------------------
(* The project and its documents *)

\* Opening a project scans its workspace and ignores how the scan went.
OpenProject ==
    /\ ~project /\ task = "none"
    /\ project' = TRUE
    /\ BeginScan("open")
    /\ UNCHANGED <<files, open, unsaved, created, answer, seen, externals>>

RefreshDocuments ==
    /\ Ready
    /\ BeginScan("refresh")
    /\ UNCHANGED <<files, project, open, unsaved, created, answer, seen, externals>>

(***************************************************************************)
(* createPart publishes the new file where there is none, then rescans.    *)
(* The store may fail, and may fail after the name is there.               *)
(***************************************************************************)
CreatePart(p, d, i) ==
    LET f == [id |-> d, body |-> Fresh, identity |-> i]
        published == files' = [files EXCEPT ![p] = f] /\ seen' = seen \cup {d}
    IN  /\ Ready
        /\ d \in Ids \ seen /\ i \in Unused
        /\ \/ /\ HasFile(p)
              /\ Returns("target_exists")
              /\ UNCHANGED <<files, index, todo, created, seen, quiet>>
           \/ /\ Returns("persistence_failure")
              /\ UNCHANGED <<files, index, todo, created, seen, quiet>>
           \/ /\ ~HasFile(p) /\ published
              /\ Returns("persistence_failure")
              /\ quiet' = FALSE
              /\ UNCHANGED <<index, todo, created>>
           \/ /\ ~HasFile(p) /\ published
              /\ created' = [path |-> p, file |-> f]
              /\ BeginScan("create")
              /\ UNCHANGED answer
        /\ UNCHANGED <<project, open, unsaved, externals>>

\* Mutant: openDocument trusts the index about the identity of the file.
OpenDocumentUnchecked(d) ==
    /\ Ready
    /\ \E p \in Paths :
           /\ index[d] = {p} /\ HasFile(p) /\ files[p].id # Invalid
           /\ Returns("opened")
           /\ open' = IF IsOpen(d) THEN open
                      ELSE [open EXCEPT ![d] = SessionOf(p, files[p])]
    /\ UNCHANGED <<files, project, index, todo, unsaved, created, seen, quiet,
                   externals>>

(***************************************************************************)
(* openDocument returns the session there is; otherwise it loads the one   *)
(* file the index knows and compares the DocumentId it finds, for the file *)
(* may have been exchanged since the scan.                                 *)
(***************************************************************************)
OpenDocument(d) ==
    /\ Ready
    /\ UNCHANGED <<files, project, unsaved, created, seen, externals>>
    /\ \/ /\ IsOpen(d)
          /\ Returns("opened")
          /\ UNCHANGED <<open, index, todo, quiet>>
       \/ /\ ~IsOpen(d) /\ Cardinality(index[d]) # 1
          /\ Returns(IF index[d] = {} THEN "document_missing"
                     ELSE "identity_conflict")
          /\ UNCHANGED <<open, index, todo, quiet>>
       \/ \E p \in Paths :
              /\ ~IsOpen(d) /\ index[d] = {p}
              /\ IF ~HasFile(p) \/ files[p].id = Invalid
                 THEN /\ Returns("persistence_failure")
                      /\ UNCHANGED <<open, index, todo, quiet>>
                 ELSE IF files[p].id # d
                 THEN BeginScan("heal") /\ UNCHANGED <<open, answer>>
                 ELSE /\ Returns("opened")
                      /\ open' = [open EXCEPT ![d] = SessionOf(p, files[p])]
                      /\ UNCHANGED <<index, todo, quiet>>

Edit(d, b) ==
    /\ Ready /\ IsOpen(d)
    /\ open' = [open EXCEPT ![d].doc = b]
    /\ UNCHANGED <<files, project, index, task, todo, unsaved, created, answer,
                   seen, quiet, externals>>

-----------------------------------------------------------------------------
(* Saving *)

\* Mutant: the save replaces whatever has the name.
MaySaveAnything(d) == HasFile(open[d].path)

\* The conditional save: the file is the one of the checkpoint.
MaySave(d) == files[open[d].path] = open[d].checkpoint

\* The file is replaced and the session takes it as its new baseline.
Saves(d, i) ==
    LET f == [id |-> d, body |-> open[d].doc, identity |-> i]
    IN  /\ MaySave(d)
        /\ i \in Unused
        /\ files' = [files EXCEPT ![open[d].path] = f]
        /\ open' = [open EXCEPT ![d].saved = open[d].doc, ![d].checkpoint = f]

\* A conflict, or a failure that may always happen: nothing changes.
SaveFailure(d) == IF MaySave(d) THEN {"io_failure"}
                  ELSE {"save_conflict", "io_failure"}

Save(d) ==
    /\ Ready /\ IsOpen(d)
    /\ \/ /\ \E i \in FileIdentities : Saves(d, i)
          /\ answer' = "saved"
       \/ /\ answer' \in SaveFailure(d)
          /\ UNCHANGED <<files, open>>
    /\ UNCHANGED <<project, index, task, todo, unsaved, created, seen, quiet,
                   externals>>

-----------------------------------------------------------------------------
(* Closing, with the questions the window asks first *)

\* Mutant: the document closes although saving it failed.
CloseDocumentAnyway(d) ==
    /\ Ready /\ IsOpen(d)
    /\ open' = [open EXCEPT ![d] = None]
    /\ IF Dirty(d) THEN answer' \in SaveFailure(d) \cup {"discarded"}
       ELSE answer' = "closed"
    /\ UNCHANGED <<files, project, index, task, todo, unsaved, created, seen,
                   quiet, externals>>

\* Closing one document.  A dirty one is saved or discarded, or stays.
CloseDocument(d) ==
    /\ Ready /\ IsOpen(d)
    /\ \/ /\ ~Dirty(d)
          /\ open' = [open EXCEPT ![d] = None]
          /\ answer' = "closed"
          /\ UNCHANGED files
       \/ /\ Dirty(d)
          /\ open' = [open EXCEPT ![d] = None]
          /\ answer' = "discarded"
          /\ UNCHANGED files
       \/ /\ Dirty(d) /\ MaySave(d)
          /\ \E i \in Unused :
                 files' = [files EXCEPT ![open[d].path] =
                     [id |-> d, body |-> open[d].doc, identity |-> i]]
          /\ open' = [open EXCEPT ![d] = None]
          /\ answer' = "closed"
       \/ /\ Dirty(d)
          /\ answer' \in SaveFailure(d)
          /\ UNCHANGED <<files, open>>
    /\ UNCHANGED <<project, index, task, todo, unsaved, created, seen, quiet,
                   externals>>

\* The project session and everything it owns is destroyed.
Destroy ==
    /\ project' = FALSE
    /\ open' = [d \in Ids |-> None]
    /\ index' = NoEntries

\* Closing the project: at once if nothing is dirty or the user discards,
\* otherwise after saving all.
CloseProject ==
    /\ Ready
    /\ \/ /\ \A d \in Ids : ~Dirty(d)
          /\ Destroy /\ Returns("closed")
          /\ UNCHANGED unsaved
       \/ /\ \E d \in Ids : Dirty(d)
          /\ Destroy /\ Returns("discarded")
          /\ UNCHANGED unsaved
       \/ /\ \E d \in Ids : Dirty(d)
          /\ task' = "saving"
          /\ unsaved' = {d \in Ids : IsOpen(d)}
          /\ UNCHANGED <<project, open, index, answer>>
    /\ UNCHANGED <<files, todo, created, seen, quiet, externals>>

\* saveAllDirtyDocuments takes one session after the other, in the order of
\* their random ids, and gives up at the first that fails.
SaveNext(d) ==
    /\ task = "saving"
    /\ d \in unsaved
    /\ \/ /\ ~Dirty(d)
          /\ unsaved' = unsaved \ {d}
          /\ UNCHANGED <<files, open, task, answer>>
       \/ /\ Dirty(d)
          /\ \E i \in FileIdentities : Saves(d, i)
          /\ unsaved' = unsaved \ {d}
          /\ UNCHANGED <<task, answer>>
       \/ /\ Dirty(d)
          /\ task' = "none"
          /\ answer' \in SaveFailure(d)
          /\ unsaved' = {}
          /\ UNCHANGED <<files, open>>
    /\ UNCHANGED <<project, index, todo, created, seen, quiet, externals>>

\* Everything was saved; closeProject asks once more whether anything is dirty.
SavedAll ==
    /\ task = "saving"
    /\ unsaved = {}
    /\ IF \E d \in Ids : Dirty(d)
       THEN Returns("dirty_document") /\ UNCHANGED <<project, open, index>>
       ELSE Destroy /\ Returns("closed")
    /\ UNCHANGED <<files, todo, unsaved, created, seen, quiet, externals>>

-----------------------------------------------------------------------------
\* Another program deletes, writes, copies or moves a Part file.
External ==
    /\ externals < MaxExternal
    /\ externals' = externals + 1
    /\ \/ \E p \in Paths : HasFile(p) /\ files' = [files EXCEPT ![p] = None]
       \/ \E p \in Paths, d \in seen \cup {Invalid}, b \in Bodies, i \in Unused :
              files' = [files EXCEPT ![p] = [id |-> d, body |-> b, identity |-> i]]
       \/ \E p, q \in Paths :
              /\ p # q /\ HasFile(p)
              /\ files' = [files EXCEPT ![p] = None, ![q] = files[p]]
    /\ quiet' = FALSE
    /\ UNCHANGED <<project, index, open, task, todo, unsaved, created, answer, seen>>

-----------------------------------------------------------------------------
Init ==
    /\ files \in [Paths -> StoredFile \cup {None}]
    /\ \A p, q \in Paths : HasFile(p) /\ HasFile(q) /\ p # q
                               => files[p].identity # files[q].identity
    /\ project = FALSE
    /\ index = NoEntries
    /\ open = [d \in Ids |-> None]
    /\ task = "none"
    /\ todo = {}
    /\ unsaved = {}
    /\ created = None
    /\ answer = "none"
    /\ seen = {files[p].id : p \in {q \in Paths : HasFile(q)}} \ {Invalid}
    /\ quiet = FALSE
    /\ externals = 0

Operation ==
    \/ OpenProject
    \/ RefreshDocuments
    \/ \E p \in Paths, d \in Ids, i \in FileIdentities : CreatePart(p, d, i)
    \/ \E d \in Ids :
           \/ OpenDocument(d)
           \/ \E b \in Bodies : Edit(d, b)
           \/ Save(d)
           \/ CloseDocument(d)
    \/ CloseProject

Continue ==
    \/ \E p \in Paths : Visit(p)
    \/ CutShort
    \/ ScanEnds
    \/ ScanRefused
    \/ \E d \in Ids : SaveNext(d)
    \/ SavedAll

Next == Operation \/ Continue \/ External

Spec == Init /\ [][Next]_vars

-----------------------------------------------------------------------------
(* Properties *)

TypeOK ==
    /\ files \in [Paths -> StoredFile \cup {None}]
    /\ project \in BOOLEAN
    /\ index \in [Ids -> SUBSET Paths]
    /\ open \in [Ids -> Session \cup {None}]
    /\ task \in Scanning \cup {"none", "saving"}
    /\ todo \subseteq Paths
    /\ unsaved \subseteq Ids
    /\ created \in [path : Paths, file : StoredFile] \cup {None}
    /\ (task = "create") = (created # None)
    /\ (~project => \A d \in Ids : ~IsOpen(d))
    /\ seen \subseteq Ids
    /\ quiet \in BOOLEAN
    /\ externals \in 0..MaxExternal

\* Two sessions may come to have the same path, when files were exchanged
\* while they were open.  At most one of them can save: a session was loaded
\* from, and only ever replaces, a file of its own DocumentId.  The state keeps
\* its shape.
OneWriterPerFile ==
    /\ TypeOK
    /\ \A d, e \in Ids :
            d # e /\ IsOpen(d) /\ IsOpen(e) /\ open[d].path = open[e].path
                => ~(MaySave(d) /\ MaySave(e))

\* No step of the application puts a document in the place of another one, or
\* of a file it could not read, whatever the index said.
IdentityPreserved ==
    [][ externals' = externals =>
            \A p \in Paths : files[p] # None /\ files'[p] # files[p]
                => files'[p] # None /\ files'[p].id = files[p].id ]_vars

\* Unsaved work disappears only when the user said so: closing a document or
\* the project, with save-all stopping in the middle too, keeps what could
\* not be saved (docs/internal/APPLICATION_LIFECYCLE.md).
NoWorkLost ==
    [][ \A d \in Ids : Dirty(d) /\ open'[d] = None =>
            \/ answer' = "discarded"
            \/ /\ files'[open[d].path] # None
               /\ files'[open[d].path].id = d
               /\ files'[open[d].path].body = open[d].doc ]_vars

\* A rebuilt index is exact until somebody else touches the workspace: the
\* saves and creations of the application itself never make it stale.
QuietIndexIsExact ==
    project /\ task \notin Scanning /\ quiet => \A d \in Ids : index[d] = Declaring(d)
=============================================================================
