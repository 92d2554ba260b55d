------------------------- MODULE ProjectFiles_proofs -------------------------
(***************************************************************************)
(* Proofs about ProjectSession, for any number of documents, names, file   *)
(* identities and interventions of other programs; and, in the second      *)
(* half, about SaveProtocol, for any number of processes, contents and     *)
(* identities, any number of crashes and any interference.  The two        *)
(* modules share no variable: each theorem names the specification it is   *)
(* about, Spec or ProtocolSpec.                                            *)
(*                                                                         *)
(* ProjectSession: a session only ever holds a checkpoint of its own       *)
(* DocumentId, whatever became of the name it was loaded from, and while a *)
(* scan that nobody disturbed is under way the index holds exactly what    *)
(* the visited names declare.  Both are inductive together with the types. *)
(*                                                                         *)
(* SaveProtocol: ValidatedStaysValid is not inductive: that no other       *)
(* process publishes during a save needs the guard to be held by exactly   *)
(* the saving process (SaverHoldsGuard), and the processes that create     *)
(* without the guard need the validated target to be there.                *)
(***************************************************************************)
EXTENDS ProjectSession, SaveProtocol, TLAPS

\* What a session compares its file with, and what it would write there, is
\* of its own DocumentId; so is the file that was just created.
CheckpointsOwn ==
    /\ \A d \in Ids : IsOpen(d) => open[d].checkpoint.id = d
    /\ created # None => created.file.id \in Ids

\* The names of a document that the scan has visited already.
Visited(d) == {p \in Declaring(d) : p \notin todo}

\* Between scans nothing is left to visit, and the index is exact as far as
\* it was rebuilt.
IndexFollows ==
    quiet => /\ task \in Scanning => \A d \in Ids : index[d] = Visited(d)
             /\ task \notin Scanning /\ project =>
                    \A d \in Ids : index[d] = Declaring(d)

Inv == TypeOK /\ CheckpointsOwn /\ IndexFollows

\* Scans and save-all happen in an open project only: nothing closes it
\* beneath them.
WorkNeedsProject == task # "none" => project

USE WorkspaceAssumption, NoneAssumption

-----------------------------------------------------------------------------
(* Files and sessions *)

LEMMA InitInv == Init => Inv
<1> SUFFICES ASSUME Init PROVE Inv
  OBVIOUS
<1>1. seen \subseteq Ids
  BY DEF Init, HasFile, StoredFile
<1>2. TypeOK
  <2>1. files \in [Paths -> StoredFile \cup {None}] /\ project \in BOOLEAN
    BY DEF Init
  <2>2. /\ index \in [Ids -> SUBSET Paths]
        /\ open \in [Ids -> Session \cup {None}]
    <3>1. index = [d \in Ids |-> {}] /\ open = [d \in Ids |-> None]
      BY DEF Init, NoEntries
    <3> QED
      BY <3>1
  <2>3. /\ task \in Scanning \cup {"none", "saving"}
        /\ todo \subseteq Paths /\ unsaved \subseteq Ids
    BY DEF Init
  <2>4. /\ created \in [path : Paths, file : StoredFile] \cup {None}
        /\ (task = "create") = (created # None)
    BY DEF Init
  <2>5. ~project => \A d \in Ids : ~IsOpen(d)
    BY DEF Init, IsOpen
  <2>6. quiet \in BOOLEAN /\ externals \in 0..MaxExternal
    <3>1. quiet = FALSE /\ externals = 0
      BY DEF Init
    <3>2. 0 \in 0..MaxExternal
      OBVIOUS
    <3> QED
      BY <3>1, <3>2
  <2> QED
    BY <1>1, <2>1, <2>2, <2>3, <2>4, <2>5, <2>6 DEF TypeOK
<1>3. CheckpointsOwn /\ IndexFollows
  BY DEF Init, CheckpointsOwn, IndexFollows, IsOpen
<1> QED
  BY <1>2, <1>3 DEF Inv

\* A file and the session loaded from it are not None, and keep their fields.
LEMMA FileFacts ==
    ASSUME NEW d \in Ids \cup {Invalid}, NEW b \in Bodies, NEW i \in FileIdentities
    PROVE  /\ [id |-> d, body |-> b, identity |-> i] \in StoredFile
           /\ [id |-> d, body |-> b, identity |-> i] # None
BY DEF StoredFile

LEMMA SessionFacts ==
    ASSUME NEW p \in Paths, NEW f \in StoredFile
    PROVE  /\ SessionOf(p, f) \in Session
           /\ SessionOf(p, f) # None
           /\ SessionOf(p, f).checkpoint = f
           /\ SessionOf(p, f).saved = f.body
           /\ SessionOf(p, f).doc = f.body
           /\ SessionOf(p, f).path = p
BY DEF SessionOf, Session, StoredFile

\* Replacing a file by one of the same DocumentId leaves the index as exact
\* as it was.
LEMMA ReplacedDeclares ==
    ASSUME TypeOK, NEW p \in Paths, NEW f \in StoredFile, HasFile(p), files[p].id = f.id,
           files' = [files EXCEPT ![p] = f]
    PROVE  \A d \in Ids : Declaring(d)' = Declaring(d)
BY DEF TypeOK, Declaring, HasFile, StoredFile

LEMMA SavesFacts ==
    ASSUME Inv, NEW d \in Ids, NEW i \in FileIdentities, IsOpen(d), Saves(d, i)
    PROVE  /\ files' \in [Paths -> StoredFile \cup {None}]
           /\ open' \in [Ids -> Session \cup {None}]
           /\ \A e \in Ids : IsOpen(e)' <=> IsOpen(e)
           /\ \A e \in Ids : IsOpen(e)' => open'[e].checkpoint.id = e
           /\ \A e \in Ids : Declaring(e)' = Declaring(e)
           /\ HasFile(open[d].path)
           /\ files[open[d].path].id = d
           /\ files'[open[d].path] =
                  [id |-> d, body |-> open[d].doc, identity |-> i]
<1> DEFINE p == open[d].path
           f == [id |-> d, body |-> open[d].doc, identity |-> i]
           s == [open[d] EXCEPT !.saved = open[d].doc, !.checkpoint = f]
<1>1. open[d] \in Session
  BY DEF Inv, TypeOK, IsOpen
<1>2. p \in Paths /\ open[d].doc \in Bodies
  BY <1>1 DEF Session
<1>3. f \in StoredFile /\ f # None
  BY <1>2, FileFacts
<1>4. s \in Session /\ s # None /\ s.checkpoint = f
  BY <1>1, <1>3 DEF Session
<1>5. /\ files[p] = open[d].checkpoint
      /\ files' = [files EXCEPT ![p] = f]
  BY DEF Saves, MaySave
<1>a. open' = [open EXCEPT ![d].saved = open[d].doc, ![d].checkpoint = f]
  BY DEF Saves
<1>b. open' = [open EXCEPT ![d] = s]
  BY <1>1, <1>a DEF Inv, TypeOK, Session
<1>6. HasFile(p) /\ files[p].id = d
  BY <1>1, <1>5 DEF Inv, CheckpointsOwn, HasFile, Session
<1>7. \A e \in Ids : Declaring(e)' = Declaring(e)
  <2>1. f.id = d
    OBVIOUS
  <2> QED
    BY <1>2, <1>3, <1>5, <1>6, <2>1, ReplacedDeclares DEF Inv
<1>8. /\ files' \in [Paths -> StoredFile \cup {None}]
      /\ files'[p] = f
  BY <1>2, <1>3, <1>5 DEF Inv, TypeOK
<1>9. /\ open' \in [Ids -> Session \cup {None}]
      /\ \A e \in Ids : e # d => open'[e] = open[e]
      /\ open'[d] = s
  BY <1>4, <1>b DEF Inv, TypeOK
<1>c. \A e \in Ids : (IsOpen(e)' <=> IsOpen(e))
  BY <1>4, <1>9 DEF IsOpen
<1>d. \A e \in Ids : IsOpen(e)' => open'[e].checkpoint.id = e
  <2> SUFFICES ASSUME NEW e \in Ids, IsOpen(e)'
               PROVE  open'[e].checkpoint.id = e
    OBVIOUS
  <2>1. CASE e = d
    <3>1. f.id = d
      OBVIOUS
    <3> QED
      BY <2>1, <3>1, <1>4, <1>9
  <2>2. CASE e # d
    BY <2>2, <1>9 DEF IsOpen, Inv, CheckpointsOwn
  <2> QED
    BY <2>1, <2>2
<1> QED
  BY <1>6, <1>7, <1>8, <1>9, <1>c, <1>d

-----------------------------------------------------------------------------
(* The index *)

\* Starting a scan empties the index, and nothing has been visited yet.
LEMMA BeginScanFacts ==
    ASSUME NEW purpose \in Scanning, BeginScan(purpose)
    PROVE  /\ index' \in [Ids -> SUBSET Paths]
           /\ todo' \subseteq Paths
           /\ task' \in Scanning
           /\ task' = purpose
           /\ quiet' \in BOOLEAN
           /\ IndexFollows'
<1>1. /\ index' = [d \in Ids |-> {}] /\ todo' = Paths
      /\ task' = purpose /\ quiet' = TRUE
  BY DEF BeginScan, NoEntries
<1>2. \A d \in Ids : Visited(d)' = {}
  BY <1>1 DEF Visited, Declaring
<1>3. IndexFollows'
  BY <1>1, <1>2 DEF IndexFollows
<1> QED
  BY <1>1, <1>3

\* What the files declare changes only with the files.
LEMMA SameFilesDeclare ==
    ASSUME UNCHANGED files
    PROVE  \A d \in Ids : Declaring(d)' = Declaring(d)
BY DEF Declaring, HasFile

\* A step outside the scans that keeps what the files declare keeps the
\* index as exact as it was.
LEMMA IndexKept ==
    ASSUME IndexFollows, UNCHANGED <<index, quiet>>,
           task \notin Scanning, task' \notin Scanning,
           project' => project,
           \A d \in Ids : Declaring(d)' = Declaring(d)
    PROVE  IndexFollows'
BY DEF IndexFollows

\* When somebody interfered nothing is claimed about the index.
LEMMA IndexDisturbed == quiet' = FALSE => IndexFollows'
BY DEF IndexFollows

\* Closing the project leaves nothing open and no entry.
LEMMA DestroyFacts ==
    ASSUME Destroy
    PROVE  /\ project' \in BOOLEAN
           /\ open' \in [Ids -> Session \cup {None}]
           /\ index' \in [Ids -> SUBSET Paths]
           /\ \A d \in Ids : ~IsOpen(d)'
           /\ ~project'
BY DEF Destroy, NoEntries, IsOpen

-----------------------------------------------------------------------------
(* The invariant is kept by every step *)

LEMMA OpenProjectInv == Inv /\ OpenProject => Inv'
<1> SUFFICES ASSUME Inv, OpenProject PROVE Inv'
  OBVIOUS
<1>1. BeginScan("open") /\ "open" \in Scanning
  BY DEF OpenProject, Scanning
<1>2. /\ index' \in [Ids -> SUBSET Paths] /\ todo' \subseteq Paths
      /\ task' \in Scanning /\ task' = "open" /\ quiet' \in BOOLEAN
      /\ IndexFollows'
  BY <1>1, BeginScanFacts
<1>3. /\ project' = TRUE /\ task = "none"
      /\ UNCHANGED <<files, open, unsaved, created, seen, externals>>
  BY DEF OpenProject
<1>4. TypeOK'
  BY <1>2, <1>3 DEF Inv, TypeOK
<1>5. CheckpointsOwn'
  BY <1>3 DEF Inv, CheckpointsOwn, IsOpen
<1> QED
  BY <1>2, <1>4, <1>5 DEF Inv

LEMMA RefreshDocumentsInv == Inv /\ RefreshDocuments => Inv'
<1> SUFFICES ASSUME Inv, RefreshDocuments PROVE Inv'
  OBVIOUS
<1>1. BeginScan("refresh") /\ "refresh" \in Scanning
  BY DEF RefreshDocuments, Scanning
<1>2. /\ index' \in [Ids -> SUBSET Paths] /\ todo' \subseteq Paths
      /\ task' \in Scanning /\ task' = "refresh" /\ quiet' \in BOOLEAN
      /\ IndexFollows'
  BY <1>1, BeginScanFacts
<1>3. /\ project /\ task = "none"
      /\ UNCHANGED <<files, project, open, unsaved, created, seen, externals>>
  BY DEF RefreshDocuments, Ready
<1>4. TypeOK'
  BY <1>2, <1>3 DEF Inv, TypeOK, IsOpen
<1>5. CheckpointsOwn'
  BY <1>3 DEF Inv, CheckpointsOwn, IsOpen
<1> QED
  BY <1>2, <1>4, <1>5 DEF Inv

\* A creation that fails after its file is there is one of the errors that
\* leave the index behind; one that succeeds starts a scan.
LEMMA CreatePartInv ==
    ASSUME Inv, NEW p \in Paths, NEW d \in Ids, NEW i \in FileIdentities,
           CreatePart(p, d, i)
    PROVE  Inv'
<1> DEFINE f == [id |-> d, body |-> Fresh, identity |-> i]
           published == files' = [files EXCEPT ![p] = f] /\ seen' = seen \cup {d}
<1>1. /\ Ready /\ UNCHANGED <<project, open, unsaved, externals>>
      /\ task = "none" /\ project
  BY DEF CreatePart, Ready
<1>2. f \in StoredFile /\ f.id = d
  BY FileFacts
<1>3. created = None
  BY <1>1 DEF Inv, TypeOK
<1>4. published => /\ files' \in [Paths -> StoredFile \cup {None}]
                   /\ seen' \subseteq Ids
  BY <1>2 DEF Inv, TypeOK
<1>5. CASE /\ task' = "none"
           /\ UNCHANGED <<files, index, todo, created, seen, quiet>>
  <2>1. TypeOK'
    BY <1>1, <1>5 DEF Inv, TypeOK, IsOpen
  <2>2. CheckpointsOwn'
    BY <1>1, <1>5 DEF Inv, CheckpointsOwn, IsOpen
  <2>3. IndexFollows'
    BY <1>1, <1>5, SameFilesDeclare, IndexKept DEF Inv, Scanning
  <2> QED
    BY <2>1, <2>2, <2>3 DEF Inv
<1>6. CASE /\ published /\ task' = "none" /\ quiet' = FALSE
           /\ UNCHANGED <<index, todo, created>>
  <2>1. TypeOK'
    BY <1>1, <1>4, <1>6 DEF Inv, TypeOK, IsOpen
  <2>2. CheckpointsOwn'
    BY <1>1, <1>6 DEF Inv, CheckpointsOwn, IsOpen
  <2> QED
    BY <1>6, <2>1, <2>2, IndexDisturbed DEF Inv
<1>7. CASE /\ published /\ created' = [path |-> p, file |-> f]
           /\ BeginScan("create")
  <2>1. "create" \in Scanning
    BY DEF Scanning
  <2>2. /\ index' \in [Ids -> SUBSET Paths] /\ todo' \subseteq Paths
        /\ task' \in Scanning /\ task' = "create" /\ quiet' \in BOOLEAN
        /\ IndexFollows'
    BY <1>7, <2>1, BeginScanFacts
  <2>3. created' \in [path : Paths, file : StoredFile] /\ created'.file.id \in Ids
    BY <1>2, <1>7
  <2>4. created' # None
    BY <2>3
  <2>5. TypeOK'
    BY <1>1, <1>4, <1>7, <2>2, <2>3, <2>4 DEF Inv, TypeOK, IsOpen
  <2>6. CheckpointsOwn'
    BY <1>1, <2>3 DEF Inv, CheckpointsOwn, IsOpen
  <2> QED
    BY <2>2, <2>5, <2>6 DEF Inv
<1> QED
  BY <1>5, <1>6, <1>7 DEF CreatePart, Returns

\* The index is not believed: the file that is opened declares the DocumentId.
LEMMA OpenDocumentInv ==
    ASSUME Inv, NEW d \in Ids, OpenDocument(d)
    PROVE  Inv'
<1>1. /\ task = "none" /\ project
      /\ UNCHANGED <<files, project, unsaved, created, seen, externals>>
  BY DEF OpenDocument, Ready
<1>2. CASE task' = "none" /\ UNCHANGED <<open, index, todo, quiet>>
  <2>1. TypeOK'
    BY <1>1, <1>2 DEF Inv, TypeOK, IsOpen
  <2>2. CheckpointsOwn'
    BY <1>1, <1>2 DEF Inv, CheckpointsOwn, IsOpen
  <2>3. IndexFollows'
    BY <1>1, <1>2, SameFilesDeclare, IndexKept DEF Inv, Scanning
  <2> QED
    BY <2>1, <2>2, <2>3 DEF Inv
<1>3. CASE BeginScan("heal") /\ UNCHANGED open
  <2>1. "heal" \in Scanning
    BY DEF Scanning
  <2>2. /\ index' \in [Ids -> SUBSET Paths] /\ todo' \subseteq Paths
        /\ task' \in Scanning /\ task' = "heal" /\ quiet' \in BOOLEAN
        /\ IndexFollows'
    BY <1>3, <2>1, BeginScanFacts
  <2>3. TypeOK'
    BY <1>1, <1>3, <2>2 DEF Inv, TypeOK, IsOpen
  <2>4. CheckpointsOwn'
    BY <1>1, <1>3 DEF Inv, CheckpointsOwn, IsOpen
  <2> QED
    BY <2>2, <2>3, <2>4 DEF Inv
<1>4. ASSUME NEW p \in Paths, HasFile(p), files[p].id = d, task' = "none",
             open' = [open EXCEPT ![d] = SessionOf(p, files[p])],
             UNCHANGED <<index, todo, quiet>>
      PROVE  Inv'
  <2>1. files[p] \in StoredFile
    BY <1>4 DEF Inv, TypeOK, HasFile
  <2>2. /\ SessionOf(p, files[p]) \in Session
        /\ SessionOf(p, files[p]).checkpoint.id = d
    BY <1>4, <2>1, SessionFacts
  <2>3. open' \in [Ids -> Session \cup {None}]
    BY <1>4, <2>2 DEF Inv, TypeOK
  <2>4. TypeOK'
    BY <1>1, <1>4, <2>3 DEF Inv, TypeOK
  <2>5. CheckpointsOwn'
    <3>1. \A e \in Ids : IsOpen(e)' => open'[e].checkpoint.id = e
      BY <1>4, <2>2 DEF Inv, TypeOK, CheckpointsOwn, IsOpen
    <3> QED
      BY <1>1, <3>1 DEF Inv, CheckpointsOwn
  <2>6. IndexFollows'
    BY <1>1, <1>4, SameFilesDeclare, IndexKept DEF Inv, Scanning
  <2> QED
    BY <2>4, <2>5, <2>6 DEF Inv
<1> QED
  BY <1>2, <1>3, <1>4 DEF OpenDocument, Returns

LEMMA EditInv ==
    ASSUME Inv, NEW d \in Ids, NEW b \in Bodies, Edit(d, b)
    PROVE  Inv'
<1> DEFINE s == [open[d] EXCEPT !.doc = b]
<1>1. /\ IsOpen(d) /\ task = "none" /\ project
      /\ open' = [open EXCEPT ![d] = s]
      /\ UNCHANGED <<files, project, index, task, todo, unsaved, created, seen,
                     quiet, externals>>
  BY DEF Edit, Ready
<1>2. open[d] \in Session
  BY <1>1 DEF Inv, TypeOK, IsOpen
<1>3. s \in Session /\ s.checkpoint = open[d].checkpoint
  BY <1>2 DEF Session
<1>4. /\ open' \in [Ids -> Session \cup {None}]
      /\ open'[d] = s
      /\ \A e \in Ids : e # d => open'[e] = open[e]
  BY <1>1, <1>3 DEF Inv, TypeOK
<1>5. TypeOK'
  BY <1>1, <1>4 DEF Inv, TypeOK
<1>6. CheckpointsOwn'
  BY <1>1, <1>3, <1>4 DEF Inv, CheckpointsOwn, IsOpen
<1>7. IndexFollows'
  BY <1>1, SameFilesDeclare, IndexKept DEF Inv, Scanning
<1> QED
  BY <1>5, <1>6, <1>7 DEF Inv

\* A save replaces a file of its own DocumentId, or changes nothing.
LEMMA SaveInv ==
    ASSUME Inv, NEW d \in Ids, Save(d)
    PROVE  Inv'
<1>1. /\ IsOpen(d) /\ task = "none" /\ project
      /\ UNCHANGED <<project, index, task, todo, unsaved, created, seen, quiet,
                     externals>>
  BY DEF Save, Ready
<1>2. ASSUME NEW i \in FileIdentities, Saves(d, i)
      PROVE  Inv'
  <2>1. /\ files' \in [Paths -> StoredFile \cup {None}]
        /\ open' \in [Ids -> Session \cup {None}]
        /\ \A e \in Ids : IsOpen(e)' => open'[e].checkpoint.id = e
        /\ \A e \in Ids : Declaring(e)' = Declaring(e)
    BY <1>1, <1>2, SavesFacts
  <2>2. TypeOK'
    BY <1>1, <2>1 DEF Inv, TypeOK
  <2>3. CheckpointsOwn'
    BY <1>1, <2>1 DEF Inv, CheckpointsOwn
  <2>4. IndexFollows'
    BY <1>1, <2>1, IndexKept DEF Inv, Scanning
  <2> QED
    BY <2>2, <2>3, <2>4 DEF Inv
<1>3. CASE UNCHANGED <<files, open>>
  <2>1. TypeOK'
    BY <1>1, <1>3 DEF Inv, TypeOK
  <2>2. CheckpointsOwn'
    BY <1>1, <1>3 DEF Inv, CheckpointsOwn, IsOpen
  <2>3. IndexFollows'
    BY <1>1, <1>3, SameFilesDeclare, IndexKept DEF Inv, Scanning
  <2> QED
    BY <2>1, <2>2, <2>3 DEF Inv
<1> QED
  BY <1>2, <1>3 DEF Save

\* Closing with a save writes what a save would write.
LEMMA CloseDocumentSaves ==
    ASSUME Inv, NEW d \in Ids, IsOpen(d), MaySave(d), NEW i \in FileIdentities,
           files' = [files EXCEPT ![open[d].path] =
                        [id |-> d, body |-> open[d].doc, identity |-> i]]
    PROVE  /\ files' \in [Paths -> StoredFile \cup {None}]
           /\ \A e \in Ids : Declaring(e)' = Declaring(e)
           /\ HasFile(open[d].path)
           /\ files[open[d].path].id = d
           /\ files'[open[d].path] =
                  [id |-> d, body |-> open[d].doc, identity |-> i]
<1> DEFINE p == open[d].path
           f == [id |-> d, body |-> open[d].doc, identity |-> i]
<1>1. open[d] \in Session
  BY DEF Inv, TypeOK, IsOpen
<1>2. p \in Paths /\ open[d].doc \in Bodies
  BY <1>1 DEF Session
<1>3. f \in StoredFile /\ f.id = d
  BY <1>2, FileFacts
<1>4. files[p] = open[d].checkpoint
  BY DEF MaySave
<1>5. HasFile(p) /\ files[p].id = d
  BY <1>1, <1>4 DEF Inv, CheckpointsOwn, HasFile, Session
<1>6. \A e \in Ids : Declaring(e)' = Declaring(e)
  BY <1>2, <1>3, <1>5, ReplacedDeclares DEF Inv
<1>7. files' \in [Paths -> StoredFile \cup {None}] /\ files'[p] = f
  BY <1>2, <1>3 DEF Inv, TypeOK
<1> QED
  BY <1>5, <1>6, <1>7

LEMMA CloseDocumentInv ==
    ASSUME Inv, NEW d \in Ids, CloseDocument(d)
    PROVE  Inv'
<1>1. /\ IsOpen(d) /\ task = "none" /\ project
      /\ UNCHANGED <<project, index, task, todo, unsaved, created, seen, quiet,
                     externals>>
  BY DEF CloseDocument, Ready
<1>2. CASE open' = open
  <2>1. UNCHANGED files
    BY <1>1, <1>2 DEF CloseDocument, Inv, TypeOK, IsOpen
  <2>2. TypeOK'
    BY <1>1, <1>2, <2>1 DEF Inv, TypeOK
  <2>3. CheckpointsOwn'
    BY <1>1, <1>2 DEF Inv, CheckpointsOwn, IsOpen
  <2>4. IndexFollows'
    BY <1>1, <2>1, SameFilesDeclare, IndexKept DEF Inv, Scanning
  <2> QED
    BY <2>2, <2>3, <2>4 DEF Inv
<1>3. CASE open' = [open EXCEPT ![d] = None]
  <2>1. /\ files' \in [Paths -> StoredFile \cup {None}]
        /\ \A e \in Ids : Declaring(e)' = Declaring(e)
    <3>1. CASE UNCHANGED files
      BY <3>1, SameFilesDeclare DEF Inv, TypeOK
    <3>2. ASSUME MaySave(d), NEW i \in Unused,
                 files' = [files EXCEPT ![open[d].path] =
                              [id |-> d, body |-> open[d].doc, identity |-> i]]
          PROVE  /\ files' \in [Paths -> StoredFile \cup {None}]
                 /\ \A e \in Ids : Declaring(e)' = Declaring(e)
      <4>1. i \in FileIdentities
        BY DEF Unused
      <4> QED
        BY <1>1, <3>2, <4>1, CloseDocumentSaves
    <3> QED
      BY <3>1, <3>2 DEF CloseDocument
  <2>2. open' \in [Ids -> Session \cup {None}]
    BY <1>3 DEF Inv, TypeOK
  <2>3. TypeOK'
    BY <1>1, <2>1, <2>2 DEF Inv, TypeOK
  <2>4. CheckpointsOwn'
    <3>1. \A e \in Ids : IsOpen(e)' => IsOpen(e) /\ open'[e] = open[e]
      BY <1>3 DEF Inv, TypeOK, IsOpen
    <3> QED
      BY <1>1, <3>1 DEF Inv, CheckpointsOwn
  <2>5. IndexFollows'
    BY <1>1, <2>1, IndexKept DEF Inv, Scanning
  <2> QED
    BY <2>3, <2>4, <2>5 DEF Inv
<1> QED
  BY <1>2, <1>3 DEF CloseDocument

LEMMA CloseProjectInv == Inv /\ CloseProject => Inv'
<1> SUFFICES ASSUME Inv, CloseProject PROVE Inv'
  OBVIOUS
<1>1. /\ task = "none" /\ project
      /\ UNCHANGED <<files, todo, created, seen, quiet, externals>>
  BY DEF CloseProject, Ready
<1>2. CASE Destroy /\ task' = "none" /\ UNCHANGED unsaved
  <2>1. /\ project' \in BOOLEAN /\ ~project'
        /\ open' \in [Ids -> Session \cup {None}]
        /\ index' \in [Ids -> SUBSET Paths]
        /\ \A d \in Ids : ~IsOpen(d)'
    BY <1>2, DestroyFacts
  <2>2. TypeOK'
    BY <1>1, <1>2, <2>1 DEF Inv, TypeOK
  <2>3. CheckpointsOwn'
    BY <1>1, <2>1 DEF Inv, CheckpointsOwn
  <2>4. IndexFollows'
    BY <1>2, <2>1 DEF IndexFollows, Scanning
  <2> QED
    BY <2>2, <2>3, <2>4 DEF Inv
<1>3. CASE /\ task' = "saving"
           /\ unsaved' = {d \in Ids : IsOpen(d)}
           /\ UNCHANGED <<project, open, index>>
  <2>1. unsaved' \subseteq Ids
    BY <1>3
  <2>2. TypeOK'
    BY <1>1, <1>3, <2>1 DEF Inv, TypeOK, IsOpen
  <2>3. CheckpointsOwn'
    BY <1>1, <1>3 DEF Inv, CheckpointsOwn, IsOpen
  <2>4. IndexFollows'
    BY <1>1, <1>3, SameFilesDeclare, IndexKept DEF Inv, Scanning
  <2> QED
    BY <2>2, <2>3, <2>4 DEF Inv
<1> QED
  BY <1>2, <1>3 DEF CloseProject, Returns

\* The visited name joins the group of the DocumentId it declares now.
LEMMA VisitInv ==
    ASSUME Inv, NEW p \in Paths, Visit(p)
    PROVE  Inv'
<1>1. /\ task \in Scanning /\ p \in todo /\ todo' = todo \ {p}
      /\ UNCHANGED <<files, project, open, task, unsaved, created, seen, quiet,
                     externals>>
  BY DEF Visit
<1>2. \A d \in Ids : Declaring(d)' = Declaring(d)
  BY <1>1, SameFilesDeclare
<1>3. todo \subseteq Paths /\ index \in [Ids -> SUBSET Paths]
  BY DEF Inv, TypeOK
<1>4. /\ index' \in [Ids -> SUBSET Paths]
      /\ \A d \in Ids : index'[d] = IF p \in Declaring(d) THEN index[d] \cup {p}
                                    ELSE index[d]
  <2>1. CASE HasFile(p) /\ files[p].id # Invalid
    <3>1. files[p].id \in Ids
      BY <2>1 DEF Inv, TypeOK, HasFile, StoredFile
    <3>2. index' = [index EXCEPT ![files[p].id] = @ \cup {p}]
      BY <2>1 DEF Visit
    <3> QED
      BY <1>3, <2>1, <3>1, <3>2 DEF Declaring
  <2>2. CASE ~(HasFile(p) /\ files[p].id # Invalid)
    BY <1>3, <2>2 DEF Visit, Declaring
  <2> QED
    BY <2>1, <2>2
<1>5. \A d \in Ids : Visited(d)' = IF p \in Declaring(d) THEN Visited(d) \cup {p}
                                   ELSE Visited(d)
  BY <1>1, <1>2, <1>3 DEF Visited
<1>6. IndexFollows'
  BY <1>1, <1>4, <1>5 DEF Inv, IndexFollows
<1>7. TypeOK'
  BY <1>1, <1>4 DEF Inv, TypeOK, IsOpen
<1>8. CheckpointsOwn'
  BY <1>1 DEF Inv, CheckpointsOwn, IsOpen
<1> QED
  BY <1>6, <1>7, <1>8 DEF Inv

LEMMA CutShortInv == Inv /\ CutShort => Inv'
<1> SUFFICES ASSUME Inv, CutShort PROVE Inv'
  OBVIOUS
<1>1. /\ todo' = {} /\ quiet' = FALSE
      /\ UNCHANGED <<files, project, index, open, task, unsaved, created, seen,
                     externals>>
  BY DEF CutShort
<1>2. TypeOK'
  BY <1>1 DEF Inv, TypeOK, IsOpen
<1>3. CheckpointsOwn'
  BY <1>1 DEF Inv, CheckpointsOwn, IsOpen
<1> QED
  BY <1>1, <1>2, <1>3, IndexDisturbed DEF Inv

\* The session of a creation starts from the file that was published, under
\* its own DocumentId.
LEMMA ScanEndsInv == Inv /\ WorkNeedsProject /\ ScanEnds => Inv'
<1> SUFFICES ASSUME Inv, WorkNeedsProject, ScanEnds PROVE Inv'
  OBVIOUS
<1>1. /\ task \in Scanning /\ todo = {} /\ task' = "none"
      /\ UNCHANGED <<files, project, index, todo, unsaved, seen, quiet,
                     externals>>
  BY DEF ScanEnds, Returns
<1>2. project
  BY <1>1 DEF WorkNeedsProject, Scanning
<1>3. created' = None
  BY <1>1 DEF ScanEnds, Inv, TypeOK
<1>4. /\ open' \in [Ids -> Session \cup {None}]
      /\ \A e \in Ids : IsOpen(e)' => open'[e].checkpoint.id = e
  <2>1. CASE open' = open
    BY <2>1 DEF Inv, TypeOK, CheckpointsOwn, IsOpen
  <2>2. CASE /\ task = "create"
             /\ open' = [open EXCEPT ![created.file.id] =
                            SessionOf(created.path, created.file)]
    <3>1. /\ created # None /\ created.path \in Paths /\ created.file \in StoredFile
          /\ created.file.id \in Ids
      BY <2>2 DEF Inv, TypeOK, CheckpointsOwn
    <3>2. /\ SessionOf(created.path, created.file) \in Session
          /\ SessionOf(created.path, created.file).checkpoint = created.file
      BY <3>1, SessionFacts
    <3> QED
      BY <2>2, <3>1, <3>2 DEF Inv, TypeOK, CheckpointsOwn, IsOpen
  <2> QED
    BY <2>1, <2>2 DEF ScanEnds
<1>5. TypeOK'
  BY <1>1, <1>2, <1>3, <1>4 DEF Inv, TypeOK
<1>6. CheckpointsOwn'
  BY <1>3, <1>4 DEF CheckpointsOwn
<1>7. IndexFollows'
  <2>1. \A d \in Ids : Declaring(d)' = Declaring(d) /\ Visited(d) = Declaring(d)
    BY <1>1, SameFilesDeclare DEF Visited
  <2> QED
    BY <1>1, <2>1 DEF Inv, IndexFollows, Scanning
<1> QED
  BY <1>5, <1>6, <1>7 DEF Inv

LEMMA ScanRefusedInv == Inv /\ ScanRefused => Inv'
<1> SUFFICES ASSUME Inv, ScanRefused PROVE Inv'
  OBVIOUS
<1>1. /\ task' = "none" /\ todo' = {} /\ created' = None /\ quiet' = FALSE
      /\ index' = [d \in Ids |-> {}]
      /\ UNCHANGED <<files, project, open, unsaved, seen, externals>>
  BY DEF ScanRefused, Returns, NoEntries
<1>2. index' \in [Ids -> SUBSET Paths]
  BY <1>1
<1>3. TypeOK'
  BY <1>1, <1>2 DEF Inv, TypeOK, IsOpen
<1>4. CheckpointsOwn'
  BY <1>1 DEF Inv, CheckpointsOwn, IsOpen
<1> QED
  BY <1>1, <1>3, <1>4, IndexDisturbed DEF Inv

LEMMA SaveNextInv ==
    ASSUME Inv, NEW d \in Ids, SaveNext(d)
    PROVE  Inv'
<1>1. /\ task = "saving" /\ unsaved' \subseteq Ids
      /\ task' \in {"none", "saving"}
      /\ UNCHANGED <<project, index, todo, created, seen, quiet, externals>>
  BY DEF SaveNext, Inv, TypeOK
<1>2. /\ files' \in [Paths -> StoredFile \cup {None}]
      /\ open' \in [Ids -> Session \cup {None}]
      /\ \A e \in Ids : IsOpen(e)' <=> IsOpen(e)
      /\ \A e \in Ids : IsOpen(e)' => open'[e].checkpoint.id = e
      /\ \A e \in Ids : Declaring(e)' = Declaring(e)
  <2>1. CASE UNCHANGED <<files, open>>
    BY <2>1, SameFilesDeclare DEF Inv, TypeOK, CheckpointsOwn, IsOpen
  <2>2. ASSUME Dirty(d), NEW i \in FileIdentities, Saves(d, i)
        PROVE  <1>2!1 /\ <1>2!2 /\ <1>2!3 /\ <1>2!4 /\ <1>2!5
    BY <2>2, SavesFacts DEF Dirty
  <2> QED
    BY <2>1, <2>2 DEF SaveNext
<1>3. TypeOK'
  BY <1>1, <1>2 DEF Inv, TypeOK
<1>4. CheckpointsOwn'
  BY <1>1, <1>2 DEF Inv, CheckpointsOwn
<1>5. IndexFollows'
  BY <1>1, <1>2, IndexKept DEF Inv, Scanning
<1> QED
  BY <1>3, <1>4, <1>5 DEF Inv

LEMMA SavedAllInv == Inv /\ SavedAll => Inv'
<1> SUFFICES ASSUME Inv, SavedAll PROVE Inv'
  OBVIOUS
<1>1. /\ task = "saving" /\ task' = "none"
      /\ UNCHANGED <<files, todo, unsaved, created, seen, quiet, externals>>
  BY DEF SavedAll, Returns
<1>2. CASE UNCHANGED <<project, open, index>>
  <2>1. TypeOK'
    BY <1>1, <1>2 DEF Inv, TypeOK, IsOpen
  <2>2. CheckpointsOwn'
    BY <1>1, <1>2 DEF Inv, CheckpointsOwn, IsOpen
  <2>3. IndexFollows'
    BY <1>1, <1>2, SameFilesDeclare, IndexKept DEF Inv, Scanning
  <2> QED
    BY <2>1, <2>2, <2>3 DEF Inv
<1>3. CASE Destroy
  <2>1. /\ project' \in BOOLEAN /\ ~project'
        /\ open' \in [Ids -> Session \cup {None}]
        /\ index' \in [Ids -> SUBSET Paths]
        /\ \A d \in Ids : ~IsOpen(d)'
    BY <1>3, DestroyFacts
  <2>2. TypeOK'
    BY <1>1, <2>1 DEF Inv, TypeOK
  <2>3. CheckpointsOwn'
    BY <1>1, <2>1 DEF Inv, CheckpointsOwn
  <2>4. IndexFollows'
    BY <1>1, <2>1 DEF IndexFollows, Scanning
  <2> QED
    BY <2>2, <2>3, <2>4 DEF Inv
<1> QED
  BY <1>2, <1>3 DEF SavedAll

LEMMA ExternalInv == Inv /\ External => Inv'
<1> SUFFICES ASSUME Inv, External PROVE Inv'
  OBVIOUS
<1>1. /\ externals < MaxExternal /\ externals' = externals + 1 /\ quiet' = FALSE
      /\ UNCHANGED <<project, index, open, task, todo, unsaved, created, seen>>
  BY DEF External
<1>2. externals' \in 0..MaxExternal
  BY <1>1 DEF Inv, TypeOK
<1>3. files' \in [Paths -> StoredFile \cup {None}]
  <2>1. ASSUME NEW p \in Paths, files' = [files EXCEPT ![p] = None]
        PROVE  files' \in [Paths -> StoredFile \cup {None}]
    BY <2>1 DEF Inv, TypeOK
  <2>2. ASSUME NEW p \in Paths, NEW d \in seen \cup {Invalid},
               NEW b \in Bodies, NEW i \in Unused,
               files' = [files EXCEPT ![p] =
                            [id |-> d, body |-> b, identity |-> i]]
        PROVE  files' \in [Paths -> StoredFile \cup {None}]
    <3>1. d \in Ids \cup {Invalid} /\ i \in FileIdentities
      BY DEF Inv, TypeOK, Unused
    <3>2. [id |-> d, body |-> b, identity |-> i] \in StoredFile
      BY <3>1, FileFacts
    <3> QED
      BY <2>2, <3>2 DEF Inv, TypeOK
  <2>3. ASSUME NEW p \in Paths, NEW q \in Paths, HasFile(p),
               files' = [files EXCEPT ![p] = None, ![q] = files[p]]
        PROVE  files' \in [Paths -> StoredFile \cup {None}]
    BY <2>3 DEF Inv, TypeOK
  <2> QED
    BY <2>1, <2>2, <2>3 DEF External
<1>4. TypeOK'
  BY <1>1, <1>2, <1>3 DEF Inv, TypeOK, IsOpen
<1>5. CheckpointsOwn'
  BY <1>1 DEF Inv, CheckpointsOwn, IsOpen
<1> QED
  BY <1>1, <1>4, <1>5, IndexDisturbed DEF Inv

LEMMA StutterInv == Inv /\ UNCHANGED vars => Inv'
<1> SUFFICES ASSUME Inv, UNCHANGED vars PROVE Inv'
  OBVIOUS
<1>1. TypeOK'
  BY DEF vars, Inv, TypeOK, IsOpen
<1>2. CheckpointsOwn'
  BY DEF vars, Inv, CheckpointsOwn, IsOpen
<1>3. IndexFollows'
  BY DEF vars, Inv, IndexFollows, Visited, Declaring, HasFile
<1> QED
  BY <1>1, <1>2, <1>3 DEF Inv

\* Nothing closes the project while a scan or save-all is under way.
LEMMA WorkNeedsProjectStep == WorkNeedsProject /\ [Next]_vars => WorkNeedsProject'
<1> SUFFICES ASSUME WorkNeedsProject, [Next]_vars PROVE WorkNeedsProject'
  OBVIOUS
<1> USE DEF WorkNeedsProject
<1>1. CASE Operation
  BY <1>1 DEF Operation, OpenProject, RefreshDocuments, CreatePart, OpenDocument,
              Edit, Save, CloseDocument, CloseProject, Destroy, Returns, Ready
<1>2. CASE Continue
  BY <1>2 DEF Continue, Visit, CutShort, ScanEnds, ScanRefused, SaveNext,
              SavedAll, Destroy, Returns, Scanning
<1>3. CASE External \/ UNCHANGED vars
  BY <1>3 DEF External, vars
<1> QED
  BY <1>1, <1>2, <1>3 DEF Next

LEMMA NextInv == Inv /\ WorkNeedsProject /\ [Next]_vars => Inv'
<1> SUFFICES ASSUME Inv, WorkNeedsProject, [Next]_vars PROVE Inv'
  OBVIOUS
<1>1. CASE Operation
  BY <1>1, OpenProjectInv, RefreshDocumentsInv, CreatePartInv, OpenDocumentInv,
     EditInv, SaveInv, CloseDocumentInv, CloseProjectInv DEF Operation
<1>2. CASE Continue
  BY <1>2, VisitInv, CutShortInv, ScanEndsInv, ScanRefusedInv, SaveNextInv,
     SavedAllInv DEF Continue
<1> QED
  BY <1>1, <1>2, ExternalInv, StutterInv DEF Next

-----------------------------------------------------------------------------
(* The theorems *)

\* The inductive invariant holds of the specification.
THEOREM InvAlways == Spec => [](Inv /\ WorkNeedsProject)
<1>1. Init => Inv /\ WorkNeedsProject
  BY InitInv DEF Init, WorkNeedsProject
<1>2. Inv /\ WorkNeedsProject /\ [Next]_vars => (Inv /\ WorkNeedsProject)'
  BY NextInv, WorkNeedsProjectStep
<1> QED
  BY <1>1, <1>2, PTL DEF Spec

\* Of two sessions that came to have the same path at most one can save: both
\* would have to hold the file that is there as their checkpoint, and a
\* checkpoint is of the DocumentId of its session.
THEOREM SessionsNeverFight == Spec => []OneWriterPerFile
<1>1. Inv => OneWriterPerFile
  BY DEF Inv, CheckpointsOwn, OneWriterPerFile, MaySave
<1> QED
  BY <1>1, InvAlways, PTL

\* After a refresh nobody disturbed, however many saves, creations, openings
\* and closings followed, the index has exactly the names of each DocumentId.
THEOREM QuietIndexStaysExact == Spec => []QuietIndexIsExact
<1>1. Inv => QuietIndexIsExact
  BY DEF Inv, IndexFollows, QuietIndexIsExact
<1> QED
  BY <1>1, InvAlways, PTL

\* What IdentityPreserved says of one step.
KeepsIdentities ==
    externals' = externals =>
        \A p \in Paths : files[p] # None /\ files'[p] # files[p]
            => files'[p] # None /\ files'[p].id = files[p].id

\* A save leaves a file of the same DocumentId, and touches no other file.
LEMMA SaveKeepsIdentities ==
    ASSUME Inv, NEW d \in Ids, NEW i \in FileIdentities, IsOpen(d), MaySave(d),
           files' = [files EXCEPT ![open[d].path] =
                        [id |-> d, body |-> open[d].doc, identity |-> i]]
    PROVE  KeepsIdentities
<1>1. open[d].path \in Paths /\ open[d].doc \in Bodies
  BY DEF Inv, TypeOK, IsOpen, Session
<1>2. /\ files[open[d].path].id = d
      /\ files'[open[d].path] = [id |-> d, body |-> open[d].doc, identity |-> i]
  BY CloseDocumentSaves
<1>3. files'[open[d].path].id = d /\ files'[open[d].path] # None
  BY <1>1, <1>2, FileFacts
<1>4. \A p \in Paths : p # open[d].path => files'[p] = files[p]
  BY <1>1 DEF Inv, TypeOK
<1> QED
  BY <1>2, <1>3, <1>4 DEF KeepsIdentities

LEMMA StepKeepsIdentities == Inv /\ [Next]_vars => KeepsIdentities
<1> SUFFICES ASSUME Inv, [Next]_vars PROVE KeepsIdentities
  OBVIOUS
<1>1. CASE UNCHANGED files
  BY <1>1 DEF KeepsIdentities
<1>2. ASSUME NEW p \in Paths, NEW d \in Ids, NEW i \in FileIdentities,
             CreatePart(p, d, i)
      PROVE  KeepsIdentities
  <2>1. CASE UNCHANGED files
    BY <2>1 DEF KeepsIdentities
  <2>2. ASSUME ~HasFile(p), NEW f, files' = [files EXCEPT ![p] = f]
        PROVE  KeepsIdentities
    BY <2>2 DEF KeepsIdentities, Inv, TypeOK, HasFile
  <2> QED
    BY <1>2, <2>1, <2>2 DEF CreatePart
<1>3. ASSUME NEW d \in Ids, NEW i \in FileIdentities, IsOpen(d), Saves(d, i)
      PROVE  KeepsIdentities
  BY <1>3, SaveKeepsIdentities DEF Saves
<1>4. ASSUME NEW d \in Ids, CloseDocument(d)
      PROVE  KeepsIdentities
  <2>1. IsOpen(d) /\ Unused \subseteq FileIdentities
    BY <1>4 DEF CloseDocument, Unused
  <2> QED
    BY <1>1, <1>4, <2>1, SaveKeepsIdentities DEF CloseDocument
<1>5. CASE External
  BY <1>5 DEF External, KeepsIdentities, Inv, TypeOK
<1>6. CASE Operation
  <2>1. CASE OpenProject \/ RefreshDocuments \/ CloseProject
    BY <1>1, <2>1 DEF OpenProject, RefreshDocuments, CloseProject
  <2>2. ASSUME NEW d \in Ids, OpenDocument(d) \/ \E b \in Bodies : Edit(d, b)
        PROVE  KeepsIdentities
    BY <1>1, <2>2 DEF OpenDocument, Edit
  <2>3. ASSUME NEW d \in Ids, Save(d)
        PROVE  KeepsIdentities
    BY <1>1, <1>3, <2>3 DEF Save
  <2> QED
    BY <1>2, <1>4, <1>6, <2>1, <2>2, <2>3 DEF Operation
<1>7. CASE Continue
  <2>1. CASE (\E p \in Paths : Visit(p)) \/ CutShort \/ ScanEnds \/ ScanRefused
             \/ SavedAll
    BY <1>1, <2>1 DEF Visit, CutShort, ScanEnds, ScanRefused, SavedAll
  <2>2. ASSUME NEW d \in Ids, SaveNext(d)
        PROVE  KeepsIdentities
    BY <1>1, <1>3, <2>2 DEF SaveNext, Dirty
  <2> QED
    BY <1>7, <2>1, <2>2 DEF Continue
<1> QED
  BY <1>1, <1>5, <1>6, <1>7 DEF Next, vars

\* No step of the application puts a document in the place of another one or
\* of a file it could not read, whatever its index said.
THEOREM IdentitiesAreKept == Spec => IdentityPreserved
<1>1. Inv /\ [Next]_vars => [KeepsIdentities]_vars
  BY StepKeepsIdentities
<1> QED
  BY <1>1, InvAlways, PTL DEF Spec, IdentityPreserved, KeepsIdentities

\* What NoWorkLost says of one step.
LosesNoWork ==
    \A d \in Ids : Dirty(d) /\ open'[d] = None =>
        \/ answer' = "discarded"
        \/ /\ files'[open[d].path] # None
           /\ files'[open[d].path].id = d
           /\ files'[open[d].path].body = open[d].doc

\* Sessions that stay open lose nothing.
LEMMA NothingCloses ==
    ASSUME \A d \in Ids : IsOpen(d) => IsOpen(d)'
    PROVE  LosesNoWork
BY DEF LosesNoWork, IsOpen, Dirty

LEMMA CloseDocumentLosesNoWork ==
    ASSUME Inv, NEW d \in Ids, CloseDocument(d)
    PROVE  LosesNoWork
<1>1. IsOpen(d) /\ Unused \subseteq FileIdentities
  BY DEF CloseDocument, Unused
<1>2. CASE open' = open
  BY <1>2, NothingCloses DEF IsOpen
<1>3. CASE open' = [open EXCEPT ![d] = None] /\ (~Dirty(d) \/ answer' = "discarded")
  BY <1>3 DEF LosesNoWork, Inv, TypeOK, Dirty, IsOpen
<1>4. ASSUME MaySave(d), open' = [open EXCEPT ![d] = None], NEW i \in Unused,
             files' = [files EXCEPT ![open[d].path] =
                          [id |-> d, body |-> open[d].doc, identity |-> i]]
      PROVE  LosesNoWork
  <2>1. /\ files'[open[d].path] = [id |-> d, body |-> open[d].doc, identity |-> i]
        /\ open[d].doc \in Bodies
    BY <1>1, <1>4, CloseDocumentSaves DEF Inv, TypeOK, IsOpen, Session
  <2>2. files'[open[d].path] # None
    BY <1>1, <2>1, FileFacts
  <2>3. /\ files'[open[d].path].id = d
        /\ files'[open[d].path].body = open[d].doc
    BY <2>1
  <2>4. \A e \in Ids : e # d => open'[e] = open[e]
    BY <1>4 DEF Inv, TypeOK
  <2> QED
    BY <2>2, <2>3, <2>4 DEF LosesNoWork, Dirty, IsOpen
<1> QED
  BY <1>2, <1>3, <1>4 DEF CloseDocument

\* Closing the project destroys the sessions when none has unsaved work, or
\* when the user discards it.
LEMMA CloseProjectLosesNoWork == CloseProject \/ SavedAll => LosesNoWork
<1> SUFFICES ASSUME CloseProject \/ SavedAll PROVE LosesNoWork
  OBVIOUS
<1>1. CASE open' = open
  BY <1>1, NothingCloses DEF IsOpen
<1>2. CASE (\A d \in Ids : ~Dirty(d)) \/ answer' = "discarded"
  BY <1>2 DEF LosesNoWork
<1> QED
  BY <1>1, <1>2 DEF CloseProject, SavedAll, Returns

LEMMA StepLosesNoWork == Inv /\ [Next]_vars => LosesNoWork
<1> SUFFICES ASSUME Inv, [Next]_vars PROVE LosesNoWork
  OBVIOUS
<1>1. CASE UNCHANGED open
  BY <1>1, NothingCloses DEF IsOpen
<1>2. ASSUME NEW e \in Ids, NEW s, s # None, open' = [open EXCEPT ![e] = s]
      PROVE  LosesNoWork
  BY <1>2, NothingCloses DEF Inv, TypeOK, IsOpen
<1>3. ASSUME NEW d \in Ids, NEW i \in FileIdentities, IsOpen(d), Saves(d, i)
      PROVE  LosesNoWork
  <2>1. \A e \in Ids : IsOpen(e)' <=> IsOpen(e)
    BY <1>3, SavesFacts
  <2> QED
    BY <2>1, NothingCloses
<1>4. CASE Operation
  <2>1. CASE OpenProject \/ RefreshDocuments
             \/ \E p \in Paths, d \in Ids, i \in FileIdentities : CreatePart(p, d, i)
    BY <1>1, <2>1 DEF OpenProject, RefreshDocuments, CreatePart
  <2>2. ASSUME NEW d \in Ids, OpenDocument(d)
        PROVE  LosesNoWork
    <3>1. ASSUME NEW p \in Paths, HasFile(p),
                 open' = [open EXCEPT ![d] = SessionOf(p, files[p])]
          PROVE  LosesNoWork
      <4>1. SessionOf(p, files[p]) # None
        BY <3>1, SessionFacts DEF Inv, TypeOK, HasFile
      <4> QED
        BY <1>2, <3>1, <4>1
    <3> QED
      BY <1>1, <2>2, <3>1 DEF OpenDocument
  <2>3. ASSUME NEW d \in Ids, NEW b \in Bodies, Edit(d, b)
        PROVE  LosesNoWork
    <3> DEFINE s == [open[d] EXCEPT !.doc = b]
    <3>1. IsOpen(d) /\ open' = [open EXCEPT ![d] = s]
      BY <2>3 DEF Edit
    <3>2. open[d] \in Session
      BY <3>1 DEF Inv, TypeOK, IsOpen
    <3>3. s \in Session
      BY <3>2 DEF Session
    <3> QED
      BY <1>2, <3>1, <3>3
  <2>4. ASSUME NEW d \in Ids, Save(d)
        PROVE  LosesNoWork
    BY <1>1, <1>3, <2>4 DEF Save
  <2> QED
    BY <1>4, <2>1, <2>2, <2>3, <2>4, CloseDocumentLosesNoWork,
       CloseProjectLosesNoWork DEF Operation
<1>5. CASE Continue
  <2>1. CASE (\E p \in Paths : Visit(p)) \/ CutShort \/ ScanRefused
    BY <1>1, <2>1 DEF Visit, CutShort, ScanRefused
  <2>2. CASE ScanEnds
    <3>1. CASE /\ task = "create"
               /\ open' = [open EXCEPT ![created.file.id] =
                              SessionOf(created.path, created.file)]
      <4>1. /\ created.path \in Paths /\ created.file \in StoredFile
            /\ created.file.id \in Ids
        BY <3>1 DEF Inv, TypeOK, CheckpointsOwn
      <4>2. SessionOf(created.path, created.file) # None
        BY <4>1, SessionFacts
      <4> QED
        BY <1>2, <3>1, <4>1, <4>2
    <3> QED
      BY <1>1, <2>2, <3>1 DEF ScanEnds
  <2>3. ASSUME NEW d \in Ids, SaveNext(d)
        PROVE  LosesNoWork
    BY <1>1, <1>3, <2>3 DEF SaveNext, Dirty
  <2> QED
    BY <1>5, <2>1, <2>2, <2>3, CloseProjectLosesNoWork DEF Continue
<1>6. CASE External \/ UNCHANGED vars
  BY <1>1, <1>6 DEF External, vars
<1> QED
  BY <1>4, <1>5, <1>6 DEF Next

\* Unsaved work disappears only when the user said so: a session that closes
\* with unsaved work leaves it in its file unless it was discarded.
THEOREM WorkIsNotLost == Spec => NoWorkLost
<1>1. Inv /\ [Next]_vars => [LosesNoWork]_vars
  BY StepLosesNoWork
<1> QED
  BY <1>1, InvAlways, PTL DEF Spec, NoWorkLost, LosesNoWork

-----------------------------------------------------------------------------
(* The save protocol *)

USE SentinelAssumption, FileAssumption, BudgetAssumption

ProtocolInv ==
    /\ ProtocolTypeOK
    /\ SaverHoldsGuard
    /\ ClosedHasNone
    /\ StagedIsComplete
    /\ TargetComplete
    /\ ValidatedStaysValid
    /\ CleanMeansOnDisk
    /\ NoSpuriousConflict

\* The definitions every step needs.
USE DEF HasSession, IsFile, Working, Conflicts

LEMMA ProtocolInitInv == ProtocolInit => ProtocolInv
<1> SUFFICES ASSUME ProtocolInit PROVE ProtocolInv
  OBVIOUS
<1>1. ProtocolTypeOK
  BY DEF ProtocolInit, ProtocolTypeOK, File
<1>2. TargetComplete
  BY DEF ProtocolInit, TargetComplete
<1> QED
  BY <1>1, <1>2 DEF ProtocolInit, ProtocolInv, SaverHoldsGuard, ClosedHasNone,
     StagedIsComplete, ValidatedStaysValid, CleanMeansOnDisk,
     NoSpuriousConflict

LEMMA OpenInv ==
    ASSUME ProtocolInv, NEW p \in Processes, Open(p) PROVE ProtocolInv'
<1>1. target \in File
  BY DEF ProtocolInv, ProtocolTypeOK, Open
<1>2. target.content \in Contents
  BY <1>1 DEF ProtocolInv, TargetComplete, Open, File
<1>3. ProtocolTypeOK'
  BY <1>1, <1>2 DEF ProtocolInv, ProtocolTypeOK, Open
<1>4. SaverHoldsGuard' /\ ClosedHasNone' /\ StagedIsComplete'
  BY <1>1 DEF ProtocolInv, ProtocolTypeOK, Open, SaverHoldsGuard, ClosedHasNone, StagedIsComplete
<1>5. TargetComplete' /\ ValidatedStaysValid'
  BY DEF ProtocolInv, ProtocolTypeOK, Open, TargetComplete, ValidatedStaysValid
<1>6. CleanMeansOnDisk' /\ NoSpuriousConflict'
  BY DEF ProtocolInv, ProtocolTypeOK, Open, CleanMeansOnDisk, NoSpuriousConflict
<1> QED
  BY <1>3, <1>4, <1>5, <1>6 DEF ProtocolInv

LEMMA CommitEditInv ==
    ASSUME ProtocolInv, NEW p \in Processes, NEW c \in Contents, CommitEdit(p, c) PROVE ProtocolInv'
<1>1. ProtocolTypeOK'
  BY DEF ProtocolInv, ProtocolTypeOK, CommitEdit
<1>2. SaverHoldsGuard' /\ ClosedHasNone' /\ StagedIsComplete'
  BY DEF ProtocolInv, ProtocolTypeOK, CommitEdit, SaverHoldsGuard, ClosedHasNone, StagedIsComplete
<1>3. TargetComplete' /\ ValidatedStaysValid' /\ CleanMeansOnDisk'
      /\ NoSpuriousConflict'
  BY DEF ProtocolInv, CommitEdit, TargetComplete, ValidatedStaysValid, CleanMeansOnDisk,
     NoSpuriousConflict
<1> QED
  BY <1>1, <1>2, <1>3 DEF ProtocolInv

LEMMA CloseInv ==
    ASSUME ProtocolInv, NEW p \in Processes, Close(p) PROVE ProtocolInv'
<1>1. ProtocolTypeOK'
  BY DEF ProtocolInv, ProtocolTypeOK, Close
<1>2. SaverHoldsGuard' /\ ClosedHasNone' /\ StagedIsComplete'
  BY DEF ProtocolInv, ProtocolTypeOK, Close, SaverHoldsGuard, ClosedHasNone, StagedIsComplete
<1>3. TargetComplete' /\ ValidatedStaysValid'
  BY DEF ProtocolInv, ProtocolTypeOK, Close, TargetComplete, ValidatedStaysValid
<1>4. CleanMeansOnDisk' /\ NoSpuriousConflict'
  BY DEF ProtocolInv, ProtocolTypeOK, Close, CleanMeansOnDisk, NoSpuriousConflict
<1> QED
  BY <1>1, <1>2, <1>3, <1>4 DEF ProtocolInv

LEMMA BeginCreateInv ==
    ASSUME ProtocolInv, NEW p \in Processes, NEW c \in Contents, BeginCreate(p, c)
    PROVE  ProtocolInv'
<1>1. ProtocolTypeOK'
  BY DEF ProtocolInv, ProtocolTypeOK, BeginCreate
<1>2. SaverHoldsGuard' /\ ClosedHasNone' /\ StagedIsComplete'
  BY DEF ProtocolInv, ProtocolTypeOK, BeginCreate, SaverHoldsGuard, ClosedHasNone,
     StagedIsComplete
<1>3. TargetComplete' /\ ValidatedStaysValid'
  BY DEF ProtocolInv, ProtocolTypeOK, BeginCreate, TargetComplete, ValidatedStaysValid,
     ClosedHasNone
<1>4. CleanMeansOnDisk' /\ NoSpuriousConflict'
  BY DEF ProtocolInv, ProtocolTypeOK, BeginCreate, CleanMeansOnDisk, NoSpuriousConflict
<1> QED
  BY <1>1, <1>2, <1>3, <1>4 DEF ProtocolInv

LEMMA BeginSaveInv ==
    ASSUME ProtocolInv, NEW p \in Processes, BeginSave(p) PROVE ProtocolInv'
<1>1. ProtocolTypeOK'
  BY DEF ProtocolInv, ProtocolTypeOK, BeginSave
<1>2. SaverHoldsGuard' /\ ClosedHasNone' /\ StagedIsComplete'
  BY DEF ProtocolInv, ProtocolTypeOK, BeginSave, SaverHoldsGuard, ClosedHasNone,
     StagedIsComplete
<1>3. TargetComplete' /\ ValidatedStaysValid'
  BY DEF ProtocolInv, ProtocolTypeOK, BeginSave, TargetComplete, ValidatedStaysValid
<1>4. CleanMeansOnDisk' /\ NoSpuriousConflict'
  BY DEF ProtocolInv, ProtocolTypeOK, BeginSave, CleanMeansOnDisk, NoSpuriousConflict
<1> QED
  BY <1>1, <1>2, <1>3, <1>4 DEF ProtocolInv

\* An operation that ends without publishing; a conflict is answered only to
\* a process whose file was touched.
LEMMA EndsInv ==
    ASSUME ProtocolInv, NEW p \in Processes, NEW code,
           pc[p] \in {"guarded"} \cup Working, Ends(p, code),
           code \in {"io_failure", "target_exists", "target_not_regular"}
                        \cup Conflicts,
           code \in Conflicts => p \in touched,
           UNCHANGED <<target, orphans, saved, checkpoint, touched,
                       interference, crashes>>
    PROVE  ProtocolInv'
<1>1. ProtocolTypeOK'
  BY DEF ProtocolInv, ProtocolTypeOK, Ends, StagedIsComplete
<1>2. SaverHoldsGuard'
  BY DEF ProtocolInv, ProtocolTypeOK, Ends, SaverHoldsGuard
<1>3. ClosedHasNone' /\ StagedIsComplete'
  BY DEF ProtocolInv, ProtocolTypeOK, Ends, ClosedHasNone, StagedIsComplete
<1>4. TargetComplete' /\ ValidatedStaysValid'
  BY DEF ProtocolInv, ProtocolTypeOK, Ends, TargetComplete, ValidatedStaysValid
<1>5. CleanMeansOnDisk' /\ NoSpuriousConflict'
  BY DEF ProtocolInv, ProtocolTypeOK, Ends, CleanMeansOnDisk, NoSpuriousConflict
<1> QED
  BY <1>1, <1>2, <1>3, <1>4, <1>5 DEF ProtocolInv

LEMMA ValidateInv ==
    ASSUME ProtocolInv, NEW p \in Processes, Validate(p) PROVE ProtocolInv'
<1>1. pc[p] = "guarded" /\ HasSession(p) /\ checkpoint[p] \in File
  BY DEF ProtocolInv, ProtocolTypeOK, Validate
<1>2. CASE Validation(p) = "ready"
  <2>1. /\ pc' = [pc EXCEPT ![p] = "ready"]
        /\ UNCHANGED <<target, temp, orphans, guard, doc, saved, checkpoint,
                       reply, touched, raced, interference, crashes>>
    BY <1>2 DEF Validate
  <2>2. target = checkpoint[p]
    <3>1. /\ target \in File
          /\ target.identity = checkpoint[p].identity
          /\ target.content = checkpoint[p].content
      BY <1>2 DEF Validation, ProtocolInv, ProtocolTypeOK
    <3> QED
      BY <1>1, <3>1 DEF File
  <2>3. ProtocolTypeOK'
    BY <2>1 DEF ProtocolInv, ProtocolTypeOK
  <2>4. SaverHoldsGuard' /\ ClosedHasNone' /\ StagedIsComplete'
    BY <1>1, <2>1 DEF ProtocolInv, ProtocolTypeOK, SaverHoldsGuard, ClosedHasNone,
       StagedIsComplete
  <2>5. TargetComplete' /\ ValidatedStaysValid'
    BY <2>1, <2>2 DEF ProtocolInv, ProtocolTypeOK, TargetComplete, ValidatedStaysValid
  <2>6. CleanMeansOnDisk' /\ NoSpuriousConflict'
    BY <2>1 DEF ProtocolInv, ProtocolTypeOK, CleanMeansOnDisk, NoSpuriousConflict
  <2> QED
    BY <2>3, <2>4, <2>5, <2>6 DEF ProtocolInv
<1>3. CASE Validation(p) # "ready"
  <2>1. /\ Ends(p, Validation(p))
        /\ UNCHANGED <<target, orphans, saved, checkpoint, touched,
                       interference, crashes>>
    BY <1>3 DEF Validate
  <2>2. p \in touched
    <3> SUFFICES ASSUME p \notin touched PROVE FALSE
      OBVIOUS
    <3>1. target = checkpoint[p]
      BY <1>1 DEF ProtocolInv, CleanMeansOnDisk
    <3> QED
      BY <1>1, <1>3, <3>1 DEF Validation
  <2>3. Validation(p) \in {"io_failure"} \cup Conflicts
    BY <1>3 DEF Validation
  <2> QED
    BY <1>1, <2>1, <2>2, <2>3, EndsInv
<1> QED
  BY <1>2, <1>3

LEMMA ReserveTemporaryInv ==
    ASSUME ProtocolInv, NEW p \in Processes, ReserveTemporary(p) PROVE ProtocolInv'
<1>1. CASE Inspection(p) = "ready"
  <2>1. PICK i \in Identities :
            /\ temp' = [temp EXCEPT ![p] = [content |-> Torn, identity |-> i]]
            /\ pc[p] = "ready"
            /\ pc' = [pc EXCEPT ![p] = "writing"]
            /\ UNCHANGED <<target, orphans, guard, doc, saved, checkpoint,
                           reply, touched, raced, interference, crashes>>
    BY <1>1 DEF ReserveTemporary
  <2>2. [content |-> Torn, identity |-> i] \in File
    BY DEF File
  <2>3. ProtocolTypeOK'
    BY <2>1, <2>2 DEF ProtocolInv, ProtocolTypeOK
  <2>4. SaverHoldsGuard' /\ ClosedHasNone' /\ StagedIsComplete'
    BY <2>1, <2>2 DEF ProtocolInv, ProtocolTypeOK, SaverHoldsGuard, ClosedHasNone,
       StagedIsComplete
  <2>5. TargetComplete' /\ ValidatedStaysValid'
    BY <2>1 DEF ProtocolInv, ProtocolTypeOK, TargetComplete, ValidatedStaysValid
  <2>6. CleanMeansOnDisk' /\ NoSpuriousConflict'
    BY <2>1 DEF ProtocolInv, ProtocolTypeOK, CleanMeansOnDisk, NoSpuriousConflict
  <2> QED
    BY <2>3, <2>4, <2>5, <2>6 DEF ProtocolInv
<1>2. CASE Inspection(p) # "ready"
  <2>1. Inspection(p) \in {"target_exists", "target_not_regular"}
    BY <1>2 DEF Inspection
  <2> QED
    BY <1>2, <2>1, EndsInv DEF ReserveTemporary
<1> QED
  BY <1>1, <1>2

LEMMA CompleteTemporaryInv ==
    ASSUME ProtocolInv, NEW p \in Processes, CompleteTemporary(p) PROVE ProtocolInv'
<1>1. temp[p] \in File /\ doc[p] \in Contents /\ pc[p] = "writing"
  BY DEF ProtocolInv, StagedIsComplete, CompleteTemporary
<1>2. /\ temp'[p] \in File /\ temp'[p].content = doc[p]
      /\ \A q \in Processes : q # p => temp'[q] = temp[q]
  BY <1>1 DEF CompleteTemporary, File, ProtocolInv, ProtocolTypeOK
<1>3. ProtocolTypeOK'
  <2>1. temp' \in [Processes -> File \cup {NoFile}]
    BY <1>1, <1>2 DEF CompleteTemporary, ProtocolInv, ProtocolTypeOK
  <2> QED
    BY <1>1, <2>1 DEF ProtocolInv, ProtocolTypeOK, CompleteTemporary
<1>4. SaverHoldsGuard' /\ ClosedHasNone' /\ StagedIsComplete'
  BY <1>1, <1>2 DEF ProtocolInv, ProtocolTypeOK, CompleteTemporary, SaverHoldsGuard,
     ClosedHasNone, StagedIsComplete
<1>5. TargetComplete' /\ ValidatedStaysValid'
  BY DEF ProtocolInv, ProtocolTypeOK, CompleteTemporary, TargetComplete, ValidatedStaysValid
<1>6. CleanMeansOnDisk' /\ NoSpuriousConflict'
  BY DEF ProtocolInv, ProtocolTypeOK, CompleteTemporary, CleanMeansOnDisk, NoSpuriousConflict
<1> QED
  BY <1>3, <1>4, <1>5, <1>6 DEF ProtocolInv

LEMMA WriteFailsInv ==
    ASSUME ProtocolInv, NEW p \in Processes, WriteFails(p) PROVE ProtocolInv'
BY EndsInv DEF WriteFails

\* Publishing: nobody else is between validation and publication.
LEMMA AdoptsInv ==
    ASSUME ProtocolInv, NEW p \in Processes, pc[p] = "staged", Adopts(p),
           HasSession(p) \/ target = NoFile,
           UNCHANGED <<orphans, interference, crashes>>
    PROVE  ProtocolInv'
<1>1. /\ temp[p] \in File /\ temp[p].content = doc[p] /\ doc[p] \in Contents
  BY DEF ProtocolInv, StagedIsComplete
<1>2. \A q \in Processes : q # p => ~(HasSession(q) /\ pc[q] \in Working
                                      /\ q \notin raced)
  <2> SUFFICES ASSUME NEW q \in Processes, q # p, HasSession(q),
                      pc[q] \in Working, q \notin raced
               PROVE  FALSE
    OBVIOUS
  <2>1. guard = q
    BY DEF ProtocolInv, SaverHoldsGuard
  <2>2. CASE HasSession(p)
    BY <2>1, <2>2 DEF ProtocolInv, SaverHoldsGuard
  <2>3. CASE target = NoFile
    BY <2>3 DEF ProtocolInv, ValidatedStaysValid
  <2> QED
    BY <2>2, <2>3
<1>3. ProtocolTypeOK'
  BY <1>1 DEF ProtocolInv, ProtocolTypeOK, Adopts, Others
<1>4. SaverHoldsGuard' /\ ClosedHasNone' /\ StagedIsComplete'
  BY <1>1 DEF ProtocolInv, ProtocolTypeOK, Adopts, Others, SaverHoldsGuard, ClosedHasNone,
     StagedIsComplete
<1>5. TargetComplete' /\ ValidatedStaysValid'
  BY <1>1, <1>2 DEF ProtocolInv, ProtocolTypeOK, Adopts, TargetComplete, ValidatedStaysValid
<1>6. CleanMeansOnDisk' /\ NoSpuriousConflict'
  BY <1>1 DEF ProtocolInv, ProtocolTypeOK, Adopts, Others, CleanMeansOnDisk, NoSpuriousConflict
<1> QED
  BY <1>3, <1>4, <1>5, <1>6 DEF ProtocolInv

LEMMA PublishReplacingInv ==
    ASSUME ProtocolInv, NEW p \in Processes, PublishReplacing(p) PROVE ProtocolInv'
BY AdoptsInv, EndsInv DEF PublishReplacing

LEMMA PublishNewInv ==
    ASSUME ProtocolInv, NEW p \in Processes, PublishNew(p) PROVE ProtocolInv'
BY AdoptsInv, EndsInv DEF PublishNew

LEMMA PublishNewUnreportedInv ==
    ASSUME ProtocolInv, NEW p \in Processes, PublishNewUnreported(p) PROVE ProtocolInv'
<1>1. /\ temp[p] \in File /\ temp[p].content = doc[p] /\ doc[p] \in Contents
      /\ pc[p] = "staged" /\ ~HasSession(p) /\ target = NoFile
  BY DEF ProtocolInv, StagedIsComplete, PublishNewUnreported
<1>2. \A q \in Processes : ~(HasSession(q) /\ pc[q] \in Working /\ q \notin raced)
  BY <1>1 DEF ProtocolInv, ValidatedStaysValid
<1>3. ProtocolTypeOK'
  BY <1>1 DEF ProtocolInv, ProtocolTypeOK, PublishNewUnreported, Ends, Others
<1>4. SaverHoldsGuard' /\ ClosedHasNone' /\ StagedIsComplete'
  BY <1>1 DEF ProtocolInv, ProtocolTypeOK, PublishNewUnreported, Ends, Others, SaverHoldsGuard,
     ClosedHasNone, StagedIsComplete
<1>5. TargetComplete' /\ ValidatedStaysValid'
  BY <1>1, <1>2 DEF ProtocolInv, ProtocolTypeOK, PublishNewUnreported, Ends, TargetComplete,
     ValidatedStaysValid
<1>6. CleanMeansOnDisk' /\ NoSpuriousConflict'
  BY <1>1 DEF ProtocolInv, ProtocolTypeOK, PublishNewUnreported, Ends, Others,
     CleanMeansOnDisk, NoSpuriousConflict
<1> QED
  BY <1>3, <1>4, <1>5, <1>6 DEF ProtocolInv

LEMMA CrashInv ==
    ASSUME ProtocolInv, NEW p \in Processes, Crash(p) PROVE ProtocolInv'
<1>1. orphans' \subseteq Identities
  <2>1. IsFile(temp[p]) => temp[p].identity \in Identities
    BY DEF ProtocolInv, ProtocolTypeOK, File
  <2>2. \A f \in {g \in {temp[p]} : IsFile(g)} : f.identity \in Identities
    BY <2>1
  <2>3. orphans' = orphans \cup {f.identity : f \in {g \in {temp[p]} : IsFile(g)}}
    BY DEF Crash
  <2> QED
    BY <2>2, <2>3 DEF ProtocolInv, ProtocolTypeOK
<1>2. ProtocolTypeOK'
  BY <1>1 DEF ProtocolInv, ProtocolTypeOK, Crash
<1>3. SaverHoldsGuard' /\ ClosedHasNone' /\ StagedIsComplete'
  BY DEF ProtocolInv, ProtocolTypeOK, Crash, SaverHoldsGuard, ClosedHasNone, StagedIsComplete
<1>4. TargetComplete' /\ ValidatedStaysValid'
  BY DEF ProtocolInv, ProtocolTypeOK, Crash, TargetComplete, ValidatedStaysValid
<1>5. CleanMeansOnDisk' /\ NoSpuriousConflict'
  BY DEF ProtocolInv, ProtocolTypeOK, Crash, CleanMeansOnDisk, NoSpuriousConflict
<1> QED
  BY <1>2, <1>3, <1>4, <1>5 DEF ProtocolInv

LEMMA InterfereInv ==
    ASSUME ProtocolInv, Interfere PROVE ProtocolInv'
<1>1. /\ target' \in File \cup {NoFile, Irregular}
      /\ target' \in File => target'.content # Torn
  <2>1. CASE target' \in {NoFile, Irregular}
    BY <2>1
  <2>2. CASE \E c \in Contents, i \in Identities :
                 target' = [content |-> c, identity |-> i]
    BY <2>2 DEF File
  <2>3. IsFile(target) => target.identity \in Identities
    BY DEF ProtocolInv, ProtocolTypeOK, File
  <2> QED
    BY <2>1, <2>2, <2>3 DEF Interfere
<1>2. ProtocolTypeOK'
  BY <1>1 DEF ProtocolInv, ProtocolTypeOK, Interfere
<1>3. SaverHoldsGuard' /\ ClosedHasNone' /\ StagedIsComplete'
  BY DEF ProtocolInv, Interfere, SaverHoldsGuard, ClosedHasNone, StagedIsComplete
<1>4. TargetComplete' /\ ValidatedStaysValid'
  BY <1>1 DEF ProtocolInv, ProtocolTypeOK, Interfere, TargetComplete, ValidatedStaysValid
<1>5. CleanMeansOnDisk'
  BY DEF ProtocolInv, ProtocolTypeOK, Interfere, CleanMeansOnDisk
<1>6. NoSpuriousConflict'
  <2>1. \A q \in Processes : q \in touched => q \in touched'
    BY DEF ProtocolInv, Interfere, ClosedHasNone
  <2> QED
    BY <2>1 DEF ProtocolInv, Interfere, NoSpuriousConflict
<1> QED
  BY <1>2, <1>3, <1>4, <1>5, <1>6 DEF ProtocolInv

LEMMA ProtocolStutterInv == ProtocolInv /\ UNCHANGED protocolVars => ProtocolInv'
BY DEF ProtocolInv, protocolVars, ProtocolTypeOK, SaverHoldsGuard, ClosedHasNone, StagedIsComplete,
   TargetComplete, ValidatedStaysValid, CleanMeansOnDisk, NoSpuriousConflict

LEMMA StepInv ==
    ASSUME ProtocolInv, NEW p \in Processes, Step(p) PROVE ProtocolInv'
BY ValidateInv, ReserveTemporaryInv, CompleteTemporaryInv, WriteFailsInv,
   PublishReplacingInv, PublishNewInv, PublishNewUnreportedInv DEF Step

LEMMA ProtocolNextInv == ProtocolInv /\ [ProtocolNext]_protocolVars => ProtocolInv'
<1> SUFFICES ASSUME ProtocolInv, [ProtocolNext]_protocolVars PROVE ProtocolInv'
  OBVIOUS
<1>1. CASE UNCHANGED protocolVars
  BY <1>1, ProtocolStutterInv
<1>2. CASE Interfere
  BY <1>2, InterfereInv
<1>3. ASSUME NEW p \in Processes,
             \/ Open(p)
             \/ \E c \in Contents : CommitEdit(p, c) \/ BeginCreate(p, c)
             \/ Close(p)
             \/ BeginSave(p)
             \/ Step(p)
             \/ Crash(p)
      PROVE  ProtocolInv'
  BY <1>3, OpenInv, CommitEditInv, BeginCreateInv, CloseInv, BeginSaveInv, StepInv,
     CrashInv
<1> QED
  BY <1>1, <1>2, <1>3 DEF ProtocolNext

LEMMA ProtocolInvAlways == ProtocolSpec => []ProtocolInv
BY ProtocolInitInv, ProtocolNextInv, PTL DEF ProtocolSpec

-----------------------------------------------------------------------------
\* The state of the protocol keeps its shape, however many processes take part.
THEOREM SaveTypeOK == ProtocolSpec => []ProtocolTypeOK
<1>1. ProtocolInv => ProtocolTypeOK
  BY DEF ProtocolInv
<1> QED
  BY <1>1, ProtocolInvAlways, PTL

\* No process that fails or dies, and no interleaving of saves and creations
\* (PartDocumentStore::save, createNew), leaves a torn file under the name.
THEOREM SaveTargetComplete == ProtocolSpec => []TargetComplete
<1>1. ProtocolInv => TargetComplete
  BY DEF ProtocolInv
<1> QED
  BY <1>1, ProtocolInvAlways, PTL

\* The guard and no-replace publication make validation and publication of a
\* save (PartDocumentStore::save) indivisible for all other SS2 processes.
THEOREM SaveValidatedStaysValid == ProtocolSpec => []ValidatedStaysValid
<1>1. ProtocolInv => ValidatedStaysValid
  BY DEF ProtocolInv
<1> QED
  BY <1>1, ProtocolInvAlways, PTL

\* file_checkpoint_ and saved_state_ of DocumentSession describe the file
\* until somebody else changes it.
THEOREM SaveCleanMeansOnDisk == ProtocolSpec => []CleanMeansOnDisk
<1>1. ProtocolInv => CleanMeansOnDisk
  BY DEF ProtocolInv
<1> QED
  BY <1>1, ProtocolInvAlways, PTL

\* A conflict reported by save is never the session's own doing.
THEOREM SaveNoSpuriousConflict == ProtocolSpec => []NoSpuriousConflict
<1>1. ProtocolInv => NoSpuriousConflict
  BY DEF ProtocolInv
<1> QED
  BY <1>1, ProtocolInvAlways, PTL

-----------------------------------------------------------------------------
(* The file as a compare-and-swap register *)

\* Nobody is ever raced by a program that does not exist.
Unraced == raced = {} /\ interference = 0

LEMMA UnracedInit == ProtocolInit => Unraced
BY DEF ProtocolInit, Unraced

LEMMA UnracedNext ==
    ASSUME MaxInterference = 0, Unraced, [ProtocolNext]_protocolVars PROVE Unraced'
<1>1. CASE UNCHANGED protocolVars
  BY <1>1 DEF Unraced, protocolVars
<1>2. ~Interfere
  BY DEF Unraced, Interfere
<1>3. ASSUME NEW p \in Processes, Step(p) PROVE Unraced'
  BY <1>3 DEF Unraced, Step, Validate, ReserveTemporary, CompleteTemporary,
     WriteFails, PublishReplacing, PublishNew, PublishNewUnreported, Ends, Adopts
<1>4. ASSUME NEW p \in Processes,
             \/ Open(p)
             \/ \E c \in Contents : CommitEdit(p, c) \/ BeginCreate(p, c)
             \/ Close(p)
             \/ BeginSave(p)
             \/ Crash(p)
      PROVE  Unraced'
  BY <1>4 DEF Unraced, Open, CommitEdit, BeginCreate, Close, BeginSave, Crash
<1> QED
  BY <1>1, <1>2, <1>3, <1>4 DEF ProtocolNext

LEMMA RegisterInit == ProtocolInit => Register!Init
BY DEF ProtocolInit, Register!Init, File

LEMMA RegisterPublishes ==
    ASSUME ProtocolInv, Unraced, NEW p \in Processes, pc[p] = "staged", Adopts(p),
           HasSession(p) \/ target = NoFile
    PROVE  Register!Next
<1>1. /\ temp[p] \in File /\ target' = temp[p]
      /\ checkpoint' = [checkpoint EXCEPT ![p] = target']
  BY DEF ProtocolInv, StagedIsComplete, Adopts
<1>2. CASE HasSession(p)
  <2>1. target = checkpoint[p]
    BY <1>2 DEF ProtocolInv, ValidatedStaysValid, Unraced
  <2>2. Register!Replace(p)
    BY <1>1, <1>2, <2>1 DEF Register!Replace
  <2> QED
    BY <2>2 DEF Register!Next
<1>3. CASE ~HasSession(p)
  <2>1. Register!Create(p)
    BY <1>1, <1>3 DEF Register!Create
  <2> QED
    BY <2>1 DEF Register!Next
<1> QED
  BY <1>2, <1>3

LEMMA RegisterStep ==
    ASSUME MaxInterference = 0, ProtocolInv, Unraced, [ProtocolNext]_protocolVars
    PROVE  [Register!Next]_(Register!registerVars)
<1> USE DEF Register!registerVars
<1>1. CASE UNCHANGED protocolVars
  BY <1>1 DEF protocolVars
<1>2. ~Interfere
  BY DEF Unraced, Interfere
<1>3. ASSUME NEW p \in Processes, Open(p)
      PROVE  [Register!Next]_(Register!registerVars)
  <2>1. Register!Open(p)
    BY <1>3 DEF Open, Register!Open, ProtocolInv, ClosedHasNone
  <2> QED
    BY <2>1 DEF Register!Next
<1>4. ASSUME NEW p \in Processes, Close(p) \/ Crash(p)
      PROVE  [Register!Next]_(Register!registerVars)
  <2>1. Register!Leave(p)
    BY <1>4 DEF Close, Crash, Register!Leave
  <2> QED
    BY <2>1 DEF Register!Next
<1>5. ASSUME NEW p \in Processes,
             \/ \E c \in Contents : CommitEdit(p, c) \/ BeginCreate(p, c)
             \/ BeginSave(p)
      PROVE  [Register!Next]_(Register!registerVars)
  BY <1>5 DEF CommitEdit, BeginCreate, BeginSave
<1>6. ASSUME NEW p \in Processes,
             \/ Validate(p)
             \/ ReserveTemporary(p)
             \/ CompleteTemporary(p)
             \/ WriteFails(p)
      PROVE  [Register!Next]_(Register!registerVars)
  BY <1>6 DEF Validate, ReserveTemporary, CompleteTemporary, WriteFails
<1>7. ASSUME NEW p \in Processes, PublishReplacing(p) \/ PublishNew(p)
      PROVE  [Register!Next]_(Register!registerVars)
  BY <1>7, RegisterPublishes DEF PublishReplacing, PublishNew
<1>8. ASSUME NEW p \in Processes, PublishNewUnreported(p)
      PROVE  [Register!Next]_(Register!registerVars)
  <2>1. temp[p] \in File
    BY <1>8 DEF ProtocolInv, StagedIsComplete, PublishNewUnreported
  <2>2. Register!Create(p)
    BY <1>8, <2>1 DEF PublishNewUnreported, Register!Create
  <2> QED
    BY <2>2 DEF Register!Next
<1> QED
  BY <1>1, <1>2, <1>3, <1>4, <1>5, <1>6, <1>7, <1>8 DEF ProtocolNext, Step

\* Without foreign programs no save of an SS2 process overwrites an update it
\* has not seen: the protocol of PartDocumentStore implements the
\* compare-and-swap register, for any number of processes and crashes.
THEOREM SaveImplementsRegister ==
    ASSUME MaxInterference = 0 PROVE ProtocolSpec => ImplementsSaveRegister
<1>1. ProtocolInit => Unraced
  BY UnracedInit
<1>2. Unraced /\ [ProtocolNext]_protocolVars => Unraced'
  BY UnracedNext
<1>3. ProtocolInit => Register!Init
  BY RegisterInit
<1>4. ProtocolInv /\ Unraced /\ [ProtocolNext]_protocolVars => [Register!Next]_(Register!registerVars)
  BY RegisterStep
<1>5. ProtocolSpec => []Unraced
  BY <1>1, <1>2, PTL DEF ProtocolSpec
<1>6. ProtocolSpec => Register!Spec
  BY <1>3, <1>4, <1>5, ProtocolInvAlways, PTL DEF ProtocolSpec, Register!Spec
<1> QED
  BY <1>6 DEF ImplementsSaveRegister
=============================================================================
