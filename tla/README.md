# SimpleSolid2: specifications

TLA+ models of SimpleSolid2 (SS2), the C++ CAD program in this repository, the TLC
configurations that check them on small instances, and theorems about them
checked by the TLA+ proof system. Paths below are relative to the repository; the implementation is `src/`
(application, core, kernel, kernel_occt, part, persistence, sketch, ui, viewer, viewer_qt_occt).

`PROJECT.json` beside this file holds the same information for machines: the definition-by-definition map to
the source lines, the runs, a mutant per property, the hazards and the findings.

To repeat the checks, in this directory:

    tlc -workers 2 -config <X>.cfg <MCModule>.tla      model-check one run
    tlapm <Module>_proofs.tla                          check the proofs of one module

## 1. Inventory

### 1.1 Components, their state and their operations

| component | code | state it keeps | operations |
|---|---|---|---|
| Part document | `part/part_document.*`, `part/feature.*`, `part/profile.*`, `part/part_sketch.*`, `part/datum.*`, `part/axis.*` | one immutable-by-value `PartAuthoredState` (properties, datums, sketches, axes, profiles, ordered features, allocation cursors) and a 64-bit `DocumentRevision` | `commitState` through `PartDocumentTransaction`; `validAuthoredState`; `evaluatePart` (derived) |
| Document session | `application/document_session.*` | the document, `expected_revision_`, `history_`/`cursor_`, `saved_state_`, session high-water cursors, `file_checkpoint_` | about seventy `execute(command)` overloads, `undo`, `redo`, `save`, `needsSave` |
| Native persistence | `part/part_document_store.*`, `persistence/*` | the Part file, its temporary file, the cooperative save guard | `load`, `createNew`, `save`; `writeFileAtomically`, `readFileSnapshot`, `acquireCooperativeSaveGuard` |
| Project session and workspace index | `application/project_session.*`, `application/document_workspace.*`, the closing code of `ui/project_hub_window.cpp` | `DocumentId` to path index, the open sessions | `refresh`, `createPart`, `openDocument`, close document, save all, close project |
| Project hub | `application/project_hub_controller.*`, `recent_project_store.*`, `project_workspace_metadata.*` | the open project, the catalog of recent projects in the user's data directory, project metadata | create (in place or through a staging directory), open, relocate, remove |
| Workspace directory service | `application/workspace_directory.*` | none | list and create directories |
| Feature drafts | `application/*_draft.*`, the modelling tools of `ui/cad_workbench.cpp` | the draft, its source revision and generation, its evaluation, preview timers, pick modes | start, edit, preview, finish into a command, cancel |
| CAD input | `application/cad_input*`, `precision_input.*` | what is typed, the question it answers, its generation, locked values | begin, offer tokens, submit, cancel |
| Part evaluation | `part/*_evaluation.cpp`, `profile_kernel_input.cpp` | none (derived from the authored state; an incarnation guards re-entry); while it runs, what each surface, curve and point means | `evaluatePart`, `evaluateAxis`, `evaluateDatum`, `resolveMaterialEdgeReference`, `authorMaterialEdgeReference` |
| Shared 2D sketch | `sketch/*`, `ui/part_sketch_interaction_controller.*` | `SketchModel` (entities, constraints, cursors); `InteractionState` (tool, stage, points, selection, captured geometry); the controller's captured revisions | add, erase, trim, extend, transform, snap, solve, regions |
| Kernel | `kernel/*`, `kernel_occt/*` | runtime solids that remember the surfaces they track | extrude, revolve, boolean, fillet and chamfer over Open CASCADE; what became of every surface, edge and vertex |
| Viewport | `ui/part_viewport_controller.*`, `ui/part_document_tree_controller.*`, `viewer_qt_occt/*` | per document the semantic selection; the body scene and its generation, candidates, previews, overlays; the objects and tokens of the widget; the selected rows | refresh, select, turn candidates, begin and edit an edge draft |
| Rest of the user interface | `ui/*` | widgets, camera | presentation, routing of commands |

### 1.2 How they interact

* A controller of the user interface builds a command and calls `DocumentSession::execute`. Everything up to the
  return runs on the interface thread. The session copies the live `PartAuthoredState`, edits the copy and hands it
  to `commitCommandState`, which raises the allocation cursors, commits through a `PartDocumentTransaction` and
  pushes a `[before, after]` pair on the history.
* Commands that need exact geometry call a `SolidModelingProvider` that the caller passes in, **in the middle of
  `execute`**. The provider is virtual; the repository's tests pass ones that execute further commands of the same session.
* `save` passes the live state and the checkpoint of the last load or save to the native store, which takes a guard, compares
  the file with the checkpoint, writes a temporary file and renames it. Other SS2 processes and foreign programs use the same directory.
* `ProjectSession` scans the workspace into an index, opens at most one session per `DocumentId` and re-scans
  after a creation. `ProjectHubController` owns the project session and records what was opened in a catalog that all SS2 processes of the user share.

### 1.3 What is hard, and what makes each component correct

* **Session.** Undo rewrites what it commits: identifiers given out once must not be given out again, so the cursors of a
  recorded state are raised to the session's high-water marks. The live state is therefore never literally the recorded one,
  and Undo refuses (`history_diverged`) unless the two can be reconciled. Correct means: Undo and
  Redo always work, no identifier is given out twice, what comes to nothing costs no Redo, the session is an ordinary linear history of contents.
* **Provider calls.** A snapshot taken before the call may be stale after it.
  Correct means: no nested command is lost, and the history stays usable whatever the provider does.
* **Saving.** Processes interleave between comparing and renaming, die with half a file, fail late.
  Correct means: the name never leads to a torn file; nobody overwrites a version he has not seen; a clean session is on disk; a failed or refused save changes no baseline; the guard does not stay behind.
* **Project session.** The index is a snapshot of a directory others change. Correct means: no document in place of another, no two
  writers of a file, unsaved work lost only when the user says so, an undisturbed index is exact.
* **Hub and catalog.** Partial failures between initialising a project, recording it and adopting it; a read-modify-write of a shared file that is replaced by two renames.
  Correct means: the catalog can always be read and remembers what it was told; a recent project opens as itself or not at all; a failed creation takes back its own folder and nothing else.
* **Drafts.** Five tools, two pickers, a sketch and a projection may be begun, changed, evaluated by a timer, overtaken by Undo or by another tool's Finish, and left open when the tab changes.
  Correct means: nothing begun in one document survives into another, previews and pick modes belong to a live tool, Finish takes what was typed last and only against the current revision.
* **Sketch editing.** An edit captures geometry and a revision when it begins; Undo, Redo, Save, projections, other tools and typed text come before it ends.
  Correct means: an edit replaces exactly what it captured, nothing holds on to an entity that is gone, a text answers only the question it was typed for, Escape comes to an end.
* **Evaluation.** References to edges are names that outlive every solid; the kernel tells, from a history with gaps, what became of the edges of the previous solid.
  Correct means: a name means the edge it was given to, or part of it, or nothing; what is lost stays lost; nothing that is well built and unambiguous is refused.
* **Viewport.** Selection is semantic, the widget knows only tokens of a scene, and a refresh has several steps that may fail.
  Correct means: no token of an old body stays in use, tree, widget and draft agree about the selection, a click takes what it shows.
* **Authored state.** Undo, which raises cursors, must never produce a state the validator rejects; a deletion must not leave a reference that a later object captures; what was saved is what is loaded, broken references and cursors included, also from the files of twenty older schemas.

The line-by-line list of hazards, with the properties that watch each, is `hazards` in `PROJECT.json`.

## 2. Modules

| module | models | implements / checked against |
|---|---|---|
| `UndoRedo` | abstract: a linear history of contents with a current position | |
| `PartDocument` | `PartAuthoredState` as content plus cursors, its equality, `commitState` | |
| `DocumentSession` | the session: commands, Undo, Redo, Save, cursors, dirty state | `UndoRedo` |
| `ProviderCalls` | commands that are inside the kernel while other commands run | extends `DocumentSession` |
| `SaveRegister` | abstract: a compare-and-swap register of file versions | |
| `SaveProtocol` | load, create and save of one file by several processes, step by step | `SaveRegister` |
| `ProjectSession` | one open project: index, scans, open documents, closing | |
| `ProjectHub` | creating, opening, locating, forgetting projects in several processes; the shared catalog | |
| `PartModel` | what the objects of a Part refer to, `validAuthoredState`, which features evaluate | |
| `PartFile` | what a Part file of each schema contains, what its reader refuses and restores | extends `PartModel` |
| `PartEvaluation` | what every datum plane and axis is said to be after an evaluation | extends `PartModel` |
| `PartCommands` | the commands that change what objects refer to, one by one | extends `PartFile`, `PartEvaluation` |
| `Workbench` | the modelling tools over the document in front: drafts, evaluation, timers, pick modes, tabs | |
| `SketchTools` | the interaction state of the sketch editor: tools, stages, picks | |
| `SketchInteraction` | the sketch controller over the document, with pointer, keys and typed text | extends `SketchTools` |
| `Viewport` | what viewport and tree show, what is selected, edge drafts that follow the selection | |
| `BodyTopology` | what surfaces, curves and points of the body mean from feature to feature, and references to edges | |
| `DocumentSession_proofs` (with those of `ProviderCalls`), `ProjectFiles_proofs` (`SaveProtocol` and `ProjectSession`), `ProjectHub_proofs`, `Workbench_proofs`, `PartCommands_proofs`, `SketchInteraction_proofs`, `Viewport_proofs`, `BodyTopology_proofs` | the theorems | |
| `MC*` | constants and symmetry for TLC | |

### 2.1 PartDocument and DocumentSession

An authored state is a record of a *content* (everything `operator==` of `PartAuthoredState` compares except the cursors),
`next` (the cursors of the authored state, one per kind in `Counted`: axes, datums, profiles, bodies, features) and
`local` (the entity and constraint cursors inside each sketch, `LocalKinds`, which `operator==` does not compare).
Whether a content passes `validAuthoredState` is the constant `ValidContents`; which sketches it hosts is `Hosted`.
Identifier and revision counters are bounded by `MaxId` and `MaxRevision`, which stand for the 64-bit maxima: the
code tests for exhaustion there, and so do the models.

`CommitState` keeps the order of the four tests of `part_document.cpp`. `CommitCommandState`, `ApplyHistoricalState`,
`Undo`, `Redo` and `Save` are the functions of the same name. An `execute` overload is `Execute(after)`: any state a command may stage (`CommandResult`:
cursors do not go back, and a counted cursor moves only with the object it numbered). The
asymmetry of the code is kept: Undo's expectation raises counted and constraint cursors but not entity cursors.
Save's store outcome is a free choice here; `SaveProtocol` models the store.

### 2.2 ProviderCalls

A call stack of commands that are inside the provider, innermost last; every entry has the snapshot it staged and what it will
commit. While the stack is not empty the provider may start another command of the same session (to depth `MaxDepth`), Undo, Redo,
Save or run a plain deletion, and then answer, or refuse. There are three kinds, because the code has three
shapes: *guarded* commands compare the revision again after the call (`CreateProjectedSketchEdges`, `BreakProjectedEdgeLinks`, `CreateProfile`, `ReplaceProfileRegionIntent`);
*candidate* commands stage a full state, evaluate it and commit it (`CreateExtrude`, `CreateRevolve`, fillets,
chamfers, datums, axes, `AddSketchLineWithAxis`); *evidence* commands take only an answer from the provider and stage afterwards (`SetPartSketchSupport`).
`made` is an observer's record of the objects ever committed.

The difference is real: a candidate command commits a snapshot older than a command its provider executed, and overwrites it (section 5). `NestedIsKept` therefore speaks of guarded and
evidence commands, where the code compares again or stages after the answer, and `HistorySurvivesCallbacks` of all three.

### 2.3 SaveProtocol

Each process has a program counter: `closed`, `idle`, `guarded` (has the guard), `ready` (validated), `writing` (temporary exists, torn), `staged`
(temporary complete). One action is one call of the operating system, or calls whose order nobody can observe. A creation takes no guard and publishes with
a link that refuses an existing name. `Interfere` is any foreign program; `Crash` kills a process between any two steps and leaves its temporary.
`touched` and `raced` are observer's variables; no guard of the code reads them.

### 2.4 ProjectSession

`files` is the directory, `index` the `DocumentWorkspaceIndex`, `open` the sessions. A scan visits one name per step, so
foreign programs interleave with it. A save or creation is one step here. `CloseDocument`, `CloseProject`, `SaveNext`, `SavedAll` are the dialogs and loops of `ui/project_hub_window.cpp` around
`closeProject`. `quiet` is an observer's variable: nothing interfered since the index was rebuilt.

### 2.5 ProjectHub

`folder` is what is at each place a project may be (nothing, a directory, a directory whose metadata names a project; with anything else in it or not), `catalog` and `backup` are the two
files of `RecentProjectStore`. A process is at `pc[p]` of one operation; an action is one call of the operating system, or several whose order nobody can observe. `temp[p]` holds
the list a process read (`base`) and the one it wrote to its temporary file (`list`), so that others change the catalog between the two. `IoFails` makes the call fail that the operation would make next, with the
reaction of the code: failures after publication of a folder go through `Rollback`, a failed publication of the catalog through `RestorePrevious`, a backup that cannot be removed is ignored.
`External` is a user with a file manager (makes, fills, copies, moves, deletes folders); `Crash` ends a process in the middle. `Rest` lets the model stop where every user has had `MaxRequests` wishes.
`remembered` (what a successful change of the catalog recorded last) and `disturbed` are observer's variables; `disturbed` has the processes whose rollback found its folder, looked at its metadata, and which the user misled before they removed it
(also through another process: what one removes for that reason, a second may have been about to remove).
What the catalog remembers is promised while the state is `Undisturbed`: no operations overlapped, nobody died, and at most one call failed, because a second failure may hit just the rename that is to bring the backup back. `alone` is TRUE until two operations overlap: what the catalog remembers, and that it never changes a location silently (`PROJECT_PLATFORM.md:68`), holds only so
long, since nothing locks the catalog between the list and the write.
`createProject` in place is used only by tests and left out.

### 2.6 PartModel, PartEvaluation, PartFile and PartCommands

A Part is a record of sets of datum planes, sketches, axes and profiles, the sequence of features, and the id cursors. A reference to the body is a stage (the
feature after which the body is meant) and a producer; the provenance nested inside an address, which the code bounds by the producer, is left out. Fillet and chamfer are one kind, `edges`,
the three edges or points of a reference have one stage, and `Valid` has one conjunct for each block of `validAuthoredState`, in its order.

`UpToDate` is `evaluatePart` for a kernel that builds whatever has its inputs: feature after feature, each reading only what was evaluated before. `Needs` says which stages a feature reads. The code has no
dependency graph; it compares positions, path by path.

`PartEvaluation` is `evaluateDatums` and `resolveAxisReference` after that: an outcome is a status, a reason and the stage it waits for (`required_body_stage`, a set of none or one). An offset plane passes on the stage of its source
but not its reason; an axis along an edge waits for its stage, an axis of a face for the whole body, so that a broken later feature blocks it although its own stage is up (axis_evaluation.cpp:426). Ambiguous and unsupported
outcomes do not occur: the kernel builds and finds what has its inputs.

Every command is an action with its own tests, then `Commit`, which is `commitCommandState` with its validation. A command that is refused changes nothing and is not an action. The difference between the checks a command makes itself
and those of the validator is kept: `WouldCreateCycle` looks at profiles and offset planes only, `EditExtrude` does not look at what it edits, axes and profiles outlive the entities they name. Undo, revisions and dirty state
are in `DocumentSession`, kernel call-backs in `ProviderCalls`. Projected edges are made one at a time; the code makes a set of them in the same way, in one commit.

`PartFile` is the codec of `PartDocumentStore` and of the native container. A JSON object is a record; what the code keeps in order is a sequence and the rest a set. `...Json` is a writer, `Accepts...` is what the reader of
that object refuses, and `Edge`, `Plane`, `Sketched`, `Built` and so on are what it makes of it. `Since` has the schema each field came with. A reader knows only the cursors it was given: it compares an id with the cursor and not with
what exists, and it takes the cursor of the features from the body before it reads the body (`Accepts`); whether the objects fit together is left to `Valid`, with which `Loads` ends. Files of schema v are what version v would
have written; the code writes only the last. Spelling of numbers and names, dimensions, geometry, relations, visibility and the inside of an address are left out.

### 2.7 Workbench

`desk` is everything the workbench keeps beside the document: per *slot* (axis, datum, extrude, revolve, edge) the draft, its last evaluation, whether the typed text fits, and which timers are armed; the profile pick, the
support pick, the open sketch, the projection; what is shown and how the viewport picks. The functions that call one another (`activeContext`, `refresh...Preview`, `finish...`) are operators from desk to desk, so that an action
is the whole handler. A document is what `UndoRedo` says of a session, with a revision and a next identifier; its content is a set of objects. The source and the parameters of a draft are one value; `Computable` says which
values the kernel can evaluate. Typing arms a timer; `Settle` is its firing, the only step the program owes by itself.

### 2.8 SketchTools and SketchInteraction

`SketchTools` has the record of `InteractionState` and its transitions; `SketchInteraction` has the controller, the events that reach it and the document under it.
There are no coordinates: a stage says which points are known, an entity has a shape, a transform is an injective map of shapes, a
rectangle is one entity. What a transform, grip or structural edit has captured, and at which revision, is kept (`captured`, `ctl`), because the properties are about that. `buffer` is the question the typed text answers;
a handler that changes the question drops it. A typed value masks the preview of the pointer until Escape (`TypeValue`, `Uncovered`); press and drag of a box is one step; repeating a tool is `TakeTool`.
Left out: the relation targets of Measure Between, the size modes of the circle, selection of profile regions, captured endpoint contacts. Other edits of the document (`OtherEdit`) come only while the sketch is closed.
In the instance the snap override acts as a tracking anchor, Scale as Rotate and Extend as Trim do, which have the same stages.

### 2.9 Viewport

`sel` is the semantic selection per document (body elements as tokens, items), `ctl` the controller (scene, generation, candidates under the pointer, tool stage, overlays), `wid` what the widget holds, `tree` the rows, `draft` an edge draft.
A token of the body is a generation and an element; items have tokens that are new with every scene. A refresh is one action with the choice of the step that fails, in the order of the code, with
what the code does next (clear, keep, fall back). Only edge mode is modelled; face-only picking, project geometry, the hover overlay of a feature, the scene of a sketch, transient emphasis, the
built-in references (whose tokens never change) and a replaced kernel are left out.

### 2.10 BodyTopology

One step is one feature of `evaluatePart`. A shape is its incidences: which faces an edge is on, which vertices it ends at, which faces are flat. `Answers` is what OCCT may build and what it says of it: the new
shape, its history of faces, edges and vertices, the faces a fillet generated, the contour it took. The rest is the code: `SurfaceLineage` is `publishSurfaceLineage` with its continuations and aliases, `TransitionsOf` is
`publishEdgeFeatureGeneratedSurfaces`, `Adjacent` and `Partition` are `populateCurrentTopologySemantics`; `PropagatedSurfaces`, `CurveRelation`, `CurvesAfter`, `PointsAfter`, `Complete` are the stages of `feature_evaluation.cpp` and the
tests of its catalog; `Resolution`, `Reference` and `InputStatus` resolve and author references. Tokens are made of the stage and what they are of, so that a token of an old solid never equals a new one.
`Built` leaves of these answers the `WellFormed` ones: an edge ends at one vertex or two, there are finitely many, and history leads into what was built, which `appendUniqueEdge` and `appendUniqueVertex` filter for. `born` (the edges a curve had first) and `past` (of an edge: what it was before) are observer's fields.

A body is changed by adding a feature, by suppressing one, or by an edit, which keeps the references and lets OCCT answer differently from the start. The instance is a half ring with coplanar ends: round and V-shaped
grooves that split an edge, with full, partial or no history; a face cut off; a half disc put flush against a face, apart, certified as the same plane, fused, or bridging two; fillets and chamfers of one or two edges, with and
without a corner face, with a history that is silent about what did not change, or about what the fillet did not reach (`Distant`); contours OCCT shortened, invalid and empty results.

Left out: the frames of surfaces, the strict meaning of single faces, references at a single point and the ends of selected edges, the second attempt at a miter of planar fillets; there are no periodic seams in the instance.

## 3. Runs

| run | instance | question and result |
|---|---|---|
| `session_history` | 4 contents (one invalid), 1 sketch, ids 1..2, revisions 0..4; 243,836 states | histories up to four commits, all interleavings with Undo, Redo, Save, starting at every cursor and revision: the history stays usable, ids are not reissued, the session implements `UndoRedo` |
| `provider_calls` | depth 2, 2 makers, ids 1..3, revisions 0..3; 440,154 states | guarded commands and re-support lose no nested command; the history stays usable and consistent |
| `save_conflicts` | 2 processes, 4 contents of 2 documents and junk, 4 file identities, 1 foreign change, 1 crash; 478k states | complete target, validated stays valid, clean means on disk |
| `save_cooperating` | 2 processes, 2 contents, no foreign program, 1 crash; fair; 332k states | implements `SaveRegister`; operations end |
| `project_workspace` | 2 documents, 2 names, 2 bodies, 3 file identities, 2 foreign changes; 1.12 M states | one writer per file, exact quiet index, identities preserved, no work lost |
| `project_hub` | 2 processes, 2 folders, 3 projects, catalog of 2, 3 requests, and one trouble: a crash, a failing call or a change by the user; 1,546,251 states, about 90 s | what is opened is what was asked for; the catalog can be read and, while no operations overlap, remembers; a failed creation takes back its own folder and nothing else |
| `part_commands` | 4 Parts, one of them empty, 2 sketches, ids 1..3, 3 commands in a row; 149k states, about 130 s | no dependency cycle; what refers to nothing missing evaluates, planes and axes included, and waits for the stage the validator orders it by; a deleted id is never captured; the commands' own checks agree with the validator; every Part that can be made is the same when its file is loaded, and so is the file of every schema that had a place for it |
| `feature_on_seed` | same | *violated*: see findings |
| `workbench_tools` | 2 documents: one with a sketch and an extrude and 3 revisions, one with 1; one object may be created, a draft changed twice; fair; about 180k states | nothing outlives its document, previews and pick modes are owned, what is offered is current, Finish takes what was typed, every edit is judged |
| `sketch_interaction` | all tools but Scale and Extend, tracking anchors, entities 1..2, revisions 1..4, a sketch that was drawn and changed before, with any ids given out since; 268,102 states, depth 23 | captured geometry, live picks, typed text, stale revisions, Escape |
| `viewport` | 2 documents, one with two features and a reference that may change once or be finished, one with a broken feature; 2 edges, 1 face, 3 places of the pointer, 3 generations, one failing step in a refresh; 80,786 states | leases, agreement of the surfaces, the edge draft, the click |
| `body_topology` | 3 features on a half ring, 8 shapes of cut and add, fillets and chamfers of 1 or 2 edges; 52,107 states, about 45 s | names mean the edges they were given to; what is lost stays lost; only what is unclear is refused |

**Type invariants.** Every module has one. Those of `DocumentSession` and `SaveProtocol` stand by themselves and are proved (section 4); the others are the first conjunct of an invariant that would mean little without it: `OneWriterPerFile`, `OpensWhatWasAsked`, `LeasesAreOfShownBody`, `ChecksAgree`, `ViewportServesLiveTools`, `HoldsOnlyLive`, `MeaningsAreTrue`; `ProviderCalls` has it in `HistorySurvivesCallbacks`.

**Why these bounds are enough.** Two of everything that can be confused: two states of a document,
two documents, two processes, two paths. A lost update, a reissued id, a swap of two files or an overwritten
nested command each need two actors or two objects and no more. Three identities more than two names let a file be replaced without its
identity coming back at once. `MaxId = 2` and `MaxRevision = 4` make exhaustion reachable; four revisions allow commit, commit, undo, commit, the shortest history that discards a branch
and could reissue its ids; starting revisions and cursors are arbitrary, so a
session may open one step from exhaustion. One crash and one foreign change can fall between any two steps; a second crash finds a state the first already reaches (a closed
process, an orphan). The catalog of the hub is one shorter than the number of projects; three requests and a folder the user clears fill it and push an entry out, or let two processes race and one of them look afterwards. What the bounds cut off is, for the modules with proofs, what the theorems cover: they hold for all constants.

Three of the Parts of `part_commands` are one step from every kind of cycle: a profile on projected edges and a fillet behind it, an axis on a line two planes above the body, references to a feature and an entity that were deleted. Three commands are enough for
create, use and redirect, or delete, create and use. The theorem covers longer sequences. The fourth Part is empty, which is what the first schemas can express; the twenty older schemas are not looked at after the third
command, which takes most of the states and leaves each of them expressible or not as the second did; the current one always is.

In `workbench_tools` three revisions are one edit under an open draft, its Undo, and one more, and a draft that changes twice has an evaluation, a preview and a timer of an earlier state. In `sketch_interaction` four revisions after two let an edit be overtaken
twice (Undo and Redo, or an edit and its Undo), and two entities distinguish what is captured from what is not. In `viewport` three generations are an old scene, its replacement and the exhaustion that acts as a failing build.

In `body_topology` a third feature is the first that can find two curves where there was one, or a meaning that is already lost; every reference is resolved again after edits upstream.

**Deadlock** is checked in every run but `part_commands`, `feature_on_seed`, `workbench_tools` and `body_topology`, where the bound on commands, revisions or features is an end; in `ProjectHub` only `Rest`, all processes idle and no wish left, is an end.

**Fairness.** `SaveProtocol!FairSpec` assumes weak fairness of the steps of an operation that has begun: the code runs
them as one call on the interface thread of a living process without waiting for anybody (the guard is tried once). `Workbench!FairSpec` assumes it of the armed preview timers, which Qt fires when the event loop is idle. Nobody is assumed to save, type, open or close anything.

**Symmetry** is used only in runs without liveness properties, over processes, paths or folders, file identities, document and project ids, none of which any definition singles out.

## 4. Theorems

All for every value of the constants that satisfies the named assumptions.

`DocumentSession_proofs`

* `SessionTypeOK`.
* `SessionHistoryConsistent`: `HistoryConsistent`, the inductive invariant: `RevisionAgrees` (the document is at the expected
  revision), `CursorsAgree` (the live cursors are the session's), `HistoryRemembered` (recorded states are valid and below those cursors), `HistoryChained` (the `after` of an entry has the content of the next `before`), `DocumentAtCursor` (the live content is the one both neighbours of the cursor recorded). None of them alone is inductive: that Undo finds what it expects needs the last three, that it keeps them so needs the first two.
* `SessionHistoryIsUsable`, `SessionCursorsCoverHistory` follow from it; `SessionIdsNeverReissued` is the action property.
* `SessionImplementsUndoRedo`: every step is a step of `UndoRedo` or a stutter.

`ProjectFiles_proofs`, about `SaveProtocol`

* `SaveTypeOK`, `SaveTargetComplete`, `SaveValidatedStaysValid`, `SaveCleanMeansOnDisk`, `SaveNoSpuriousConflict`, from an invariant that adds
  `SaverHoldsGuard`, `ClosedHasNone` and `StagedIsComplete`. The argument for
  `ValidatedStaysValid` is that a saver holds the guard from before the comparison until after the rename, and that a creator, who does not, can only publish where there is
  no file, which a validated target is.
* `SaveImplementsRegister`, under `MaxInterference = 0`: without foreign programs the file is a compare-and-swap register. With them it is not, and the code does not claim it (`PERSISTENCE.md` calls the guard cooperative).

`DocumentSession_proofs`, about `ProviderCalls`, on top of the session

* `CallsInvAlways`, the inductive invariant: the session's own `HistoryConsistent`; `MadeBelow` and `HistoryMade` (what was ever made lies below the session's cursors, and the history contains nothing else); `CallsWell`, which says of every
  command inside the provider that what it staged is its own object on top of things that were made, with no cursor but its own kind's ahead of the session's, and, while nothing was committed since, on top of the document of now.
* `CallbacksKeepHistory`: whatever the provider executes, undoes or saves before it answers, and however deep that goes, the history stays consistent and usable. A nested command is a step of the session, so that all of the session's lemmas
  hold of it; what is new is that a commit of a snapshot older than the document is a commit like any other as far as the history goes.
* `NestedCommandsAreKept`: a guarded command commits only at the revision of its snapshot, so nothing was committed meanwhile; an evidence command stages after the answer.

`ProjectFiles_proofs`, about `ProjectSession`

* `SessionsNeverFight`, `QuietIndexStaysExact`, `IdentitiesAreKept`, `WorkIsNotLost`, from an invariant of three parts: the types; `CheckpointsOwn`, an open session's checkpoint is a file of the document it was opened for;
  `IndexFollows`, as long as nothing interfered since the last scan began, a finished index (or the visited part of a running one) is what the directory has. These parts are inductive only together with `WorkNeedsProject`: scans and save-all run in an open project only.

`ProjectHub_proofs`, for any number of processes, requests, failing calls, crashes and changes by the user

* `HubInvAlways`: the types and which place of an operation has a session and lists (`Typed`); `ListsGood`, whatever anybody read or is about to write can be read and lists ids that were given out; `IdsIssued`, whatever names a project names one that was given out, and
  no two creations have the same id. `PickedProjectOpens` and `CatalogStaysReadable` follow. The latter is not obvious: processes overwrite each other's files through one backup.
* `CatalogInvAlways` adds what holds while nothing overlaps: `AloneFollows` (one process at work, nobody changes under it what it has looked at) and `CatalogFollows` (the list an operation read is the catalog, or the backup while there is none; what it is about to
  write is the edit of that list it began; the catalog, or the list that stands for it, has every remembered project). From it `CatalogIsKept` and `PlacesMoveByRelocation`.
* `CreationInvAlways` is about creations: `RemovesOwn` (between the look and the removal the folder is the creation's own unless the observer knows better), `PublishesOwn` (as long as the user keeps away, an id is in no folder but the one its creation published),
  `Succeeds` (alone and without a failing call no creation is taken back; otherwise the one failure that caused it could not be told from one that stops the rollback). From it `FailedCreationsVanish`.

`Workbench_proofs`, for any documents, values, identifiers and bounds (the initial documents are finite, a draft can change at least once, `None` is a value of its own)

* `WorkbenchInvAlways`, the inductive invariant: no document is in front and the desk is empty, or the desk is `Right` for the document in front and its revision. That is: drafts are of that document and in the slot of their kind; a pick mode has an owner;
  the evaluation of a slot is of the draft as it is, and there is one unless the timer runs, the input does not fit or there is no source (`SlotRight`); a view shows a live draft, as it is unless its timer runs (`ViewRight`).
* `NothingOutlives` and `ViewportIsServed` are read off it; what is proved there is that the seven functions of `ClearAll` together leave the empty desk whatever was on it (`ClearAllIsEmpty`), and that replacing a draft
  by one of another constructor leaves no pick mode without an owner.
* `OfferedStaysCurrent`: every step that changes the document evaluates the live drafts again (`ActiveContextRight`), except drawing. `SketchesAlone` closes that gap: no solid feature is drafted while a sketch is open or waits for its support, which the start functions
  exclude pair by pair, each with a list of its own.
* `FinishTakesTyped`: five Finish functions with different tests come to the same (`FinishOutcome`): what deserves it passes them all, and what passes the test of its draft deserves it.

`PartCommands_proofs`

* `PartDependenciesBackward`: from `Sound`, a Part is a record with a history (`Shaped`) and passes `Valid`. That commands keep `Sound` is what the commit is for; the argument is `ValidRefersBackward`, that four conjuncts
  of `Valid` (`FeaturesValid`, `SupportsOrdered`, `LinkedProfilesOrdered`, `BodyAxesOrdered`) together cover every disjunct of `Needs`.
* `RaisedStaysValid`: raising the cursors of a valid state leaves it valid. `DocumentSession` takes this for granted where it makes validity a matter of contents alone.
* `PartInvAlways`, the inductive invariant of the next two: the Part is `Sound` and `Made`, it refers to nothing that was never given an id. `Valid` does not say so: it lets a deleted source be anything. What keeps it is that every command
  resolves what it refers to (`FoundGiven`), in the Part before or after; one `...Kept` lemma per group of commands. A Part to start from must be `Made`, as every file the program wrote is; its reader checks that for references to the body, but
  does not compare the entities of a profile or of the line of an axis with the cursor of their sketch. `Made` also says the shape of
  what is there (which fields a reference, an axis, a feature of each kind has), that features stand in the order of their ids (they are only put at the end), and that a sketch that was drawn in is there (none is ever deleted).
* `NothingLostReturns`: what is lost was given out (`ReferredGiven`), and what is there for the first time was not (`KeptIds`). The cursors are the only link between the two.
* `ChecksAlwaysAgree`: taking out a datum plane shortens chains of planes and changes no other conjunct of `Valid` (`UnusedDatumGoes`); the stage `supportWouldCreateCycle` looks at is one `SupportsOrdered` asks for (`StageCounted`).
* `FilesAlwaysLoadBack`, for each of the 21 schemas, has three parts. Written and read: each item comes back (`SketchBack`, `AxisBack`, `DatumBack`, ...), the links of a sketch because they can be put in the order of their entities and none is lost by it (`BindingsListed`, a pigeonhole argument).
  Accepted: a valid `Made` Part meets every check of the reader (`PayloadAccepted`), references among them, which are compared with cursors. Left out: a field a schema lacks is one that an expressible Part leaves empty, with a cursor of 1 (`NothingWithout`), which is what the reader fills in (`CursorsBack`, `PartBack`,
  `EntityCursorsBack`). Conversely what a schema cannot express does not come back the same (`LoadedExpressible`), so the condition says no less than it must.
* `EvaluationAlwaysAgrees`: the evaluator goes from an offset plane to its source, by recursion, and stops a loop with the planes it is `waiting` for; the validator takes the set of all planes that can be reached and looks for its ends. No set of planes exists in which each has its source (`NoLoop`, from `DatumsAcyclic`),
  from which follow that a chain has one end (`OneEnd`), that no plane waits for itself (`NeverAgain`), that the recursion defines a function (`SaidEvaluated`) and that it says of a plane what is said of the end of its chain (`OffsetSaid`): were there planes of which it does not, each would have its source among them.
  So the stages agree. That a Part in which nothing is lost evaluates (`AllUpToDate`) is then feature by feature, by the order of positions that validity demands.

`SketchInteraction_proofs`, for any shapes, tools, numbers of entities and revisions, and any timeline of the sketch to start from

* `SketchInvAlways`, the inductive invariant, in two halves. `Sketching` says of interaction state, controller and document that they go together: `Document` (a timeline of sketches, whose ids were all given out), `Coherent` (what is captured, bounded, measured, gripped or
  requested goes with the tool and its stage), `Holds` (it is in the sketch), `Remembers` (a revision the controller has is that of the document, and then the captured geometry is that of the sketch), `Rests` (a closed sketch is not edited). `Telling` says that the last fingerprint
  told is that of now, and that a text is the answer to what is asked. It has one exception: a handler that leaves its request unanswered (section 5) has told nothing since, and the proof shows that such a request asks for nothing a text could answer (`PendingAsksNothing`).
* `HeldIsLiveAlways`, `TypedAlwaysAnswers` and `EditsAreNeverStale` are read off it. Behind the second is `AskedAsTold`, that equal fingerprints mean equal questions: the question has parts the fingerprint lacks (a value is asked for, not a point), and they follow from tool, stage and mode.
* `CommitsAreSound`: all commits end in `CommitEdit`, which leaves the document or finds its revision (`Sound`); then `Remembers` has the geometry. The rest of the proof is that no other branch of a press or a submitted text changes the document during an edit.
* `EscapeComesToAnEnd`: each branch of `Escaped` takes something from `Rank` (`EscapedRank`), and the motion that shows again when a typed one is dropped is no step of its own (`UncoveredRank`).

On the side of the document, `WithNewIs` says that new entities take new ids and leave the others alone; that they can be counted off (`EveryRankIsTaken`) is a pigeonhole argument, not an induction.

`Viewport_proofs`, for any documents, edges and faces, any generations and revisions, and any queries that rank edges before faces (as `rankedBodyTopologyCandidates` does) and name nothing twice

* `ViewportInvAlways`, the inductive invariant, is in parts because the handlers pass through states in which only some of them hold; there is one lemma for each function, saying which parts it needs and which it leaves true.
  `Kept` holds between any two calls: the types; what is marked, pointed at, laid over or previewed in the widget is of the body it draws (`Steady`); it shows the active candidate (`Pointed`). `Leased`: elements are selected in the document in front only, each once, of the generation of its
  scene. `Drafted`: the edges of a draft are the ones selected and those it could not find. `Told`: an element of the body has taken the selection from the tree. `InStep` (the widget shows the scene or nothing of it, surfaces and selection agree, the scene is of the present revision) is
  what a refresh puts right in the end: `BuildBodyScene` leaves a new scene that the widget does not show yet, with a selection that is already dropped.
* What makes it inductive: the selection is dropped before the scene is replaced and the draft hears of it then, so it has to survive a scene of another stage than its own (`Staged`); a failing build must drop the selection too, a tool stage clears it quietly and no draft may be open then.
* `LeasesAreOfShown`, `SurfacesAlwaysAgree` and `DraftHoldsSelected` are read off it, whatever fails in a refresh.
* `ClicksTakeWhatIsShown`: the candidate shown is among the ones found again at the click (`RankedIs`: a draft finds exactly the edges, `EdgesFirst`), the click adds it, removes it or replaces the selection by it (`TakenIs`), and a draft of the stage that is shown refuses nothing (`NotRefused`).

`BodyTopology_proofs`, for any shapes and histories OCCT may answer with, as long as they are `WellFormed`, any number of features and any edits

* `BodyInvAlways`, the inductive invariant, in two halves. `BodySound` is about the stage that was published last: its curves have an address each, a curve is missing exactly when it has no edge, and one that is ambiguous with a single edge has it in common with another
  (`CurvesSound`); a point that is resolved is the only candidate of its vertex (`PointsSound`); the record of an edge names exactly the curves that hold it, is resolved only when that is one, and an edge that may be referred to has one (`EdgeRecorded`); surfaces that are not resolved have no token (`TrackedSound`).
  `PlanSound` is about the references of one feature: they differ, and two that name one curve both say the points or both leave them out (`RefsSound`).
* Next to nothing of it is kept for a step by the stage before, since all the tables are made anew; the proof follows `buildCurveStage` and `buildPointStage` instead: what history or the relation leads to is in the new shape (`CurveAfterIs`), comparing curves takes no edge or address from any (`CurvesApartIs`),
  new curves hold what nobody claims (`NewCurvesAre`), the records follow. What the stage before is needed for is that addresses stay apart, and that is why a catalog with two equal ones must be refused (`Unique`, in `Complete`).
* `NamesAndReferencesAreSingle`: a reference is resolved by a curve with one edge, or by two points among the edges of its curve. In either case the curve is the only candidate of the edge, so that authoring a reference to it again gives this one, or a shorter one when
  the curve has lost its other edges; two references of a feature that came to one edge would have one curve, hence be equal.
* `LostStaysLost`: a missing meaning passes each stage as it is and the comparison with the others leaves it alone, as it has no edge to share.

The assumptions are the named `ASSUME`s of the modules; TLC evaluates them in the runs.

Only model-checked: of `MeaningsAreTrue` the conjunct `NamesAreTrue`, and `RefusesOnlyTheUnclear`. Both depend on what OCCT does: a curve without history takes all edges of its relation (`feature_evaluation.cpp:2463`), and that one of them is its own follows from geometry (no operation removes the whole
intersection of two surfaces and makes another), which the code relies on and does not test; likewise whether a generated face touches what it should. To assume it of the constant would assume what is to be shown. Further the refinement of liveness, `OperationsEnd` and `EveryEditIsJudged` (liveness under
fairness is out of the prover's reach).

## 5. Findings

The first is a run that TLC refutes.

* `feature_on_seed`. `PART_DOCUMENTS.md:34` and `:469` say a linked sketch entity is never interpreted as its persisted seed. That is so for profiles. The axis of a Revolve along a linked
  line is resolved from the stored line (`axis_evaluation.cpp:279`), so the Revolve is built about where the edge was, even when the edge is gone.

Met while modelling, without a run of their own:

* `recent_project_store.cpp:280`: `writeCatalog` moves the catalog to its backup before it renames the new one. A process that dies in between leaves only the backup; `list` takes the missing catalog for an empty one and the next
  write removes the backup, so that every remembered location is gone. `APPLICATION_LIFECYCLE.md:118` promises them after a restart; `CatalogRemembers` speaks of processes that do not die.
* `feature_evaluation.cpp:2472`: when a fillet consumes an edge whose twin (another piece of the same curve, named separately) stays, the name of the consumed edge has no history and takes the twin by its relation. Neither name is mistaken
  (both become ambiguous, `MeaningsAreTrue`), but the twin, which nobody touched, cannot be referred to any more.
* `feature_evaluation.cpp:3126`: an ambiguous surface keeps the faces of its last stage, so that every later feature of the body fails with `topology_integrity_failure` (`RefusesOnlyTheUnclear`), not with an ambiguity somebody could repair.
* Two pieces of one split edge cannot be rounded together: each generated face touches the surfaces of both, and `publishEdgeFeatureGeneratedSurfaces` (`solid_modeling_kernel.cpp:2761`) finds two sources for it.
* `PART_DOCUMENTS.md:78` says Undo back to the saved state becomes clean. `needsSave` compares the cursors too, which Undo keeps raised: after creating and undoing anything that takes an id the document stays dirty.
* `PART_DOCUMENTS.md:63` says a transaction captures the revision its staged snapshot was created from. It is constructed at commit time, so a candidate command overwrites what its provider executed.
* `OVERVIEW.md:79` says duplicates are reported and resolution fails closed. A directory iterator that fails to advance ends the loop (`document_workspace.cpp:63`), the refresh reports success, and one of two duplicates resolves.
* `part_sketch_interaction_controller.cpp:688`: a point typed for the radius of a circle, which `SHARED_2D.md:128` wants accepted, leaves its request pending and the tool dead until Escape; so does a typed pair whose rectangle a Save has made forget its revision (`:1423`).
* `part_sketch_interaction_controller.cpp:3264`: Save in the middle of a transform or grip forgets its revision and leaves its session; every later commit of it returns without a word. `interaction_state.cpp:1971`: Copy keeps the locks of one copy for the next; `:3244`: the end grip of a line captures it without its role.
* `part_viewport_controller.cpp:1513` and `:1543`: a refresh of the references alone gives authored axes and planes new tokens without showing the selection again, so a selected one loses its highlight (`qt_occt_viewer_widget.cpp:1617` says such tokens are stable); `SurfacesAgree` excepts it.
* `part_viewport_controller.cpp:5901`, `:6104`: while items and body elements are selected together the body has no highlight. `:5497`: a Fillet started with a face among the selection never takes the edges. `:914`: `resetRuntimeState` is never called, so selections of closed documents are kept.
* `cad_workbench.cpp:1911`: Ctrl-click on an axis while a body element is selected clears the tree. `:16317`: `navigateToFeature` selects a row without its contribution overlay; deleting a selected feature and undoing leaves the overlay without a row. An edge draft that the document has overtaken refuses a click and clears the selection (the exception in `ClickTakesWhatIsShown`).

## 6. Not modelled, and the plan

Out of reach or without control worth checking: what OCCT computes and numeric geometry (solver, choice of a snap, regions, the arithmetic of transforms), the syntax of JSON and zip, panels and rendering, the stateless directory service, vendored code.

Left of the plan, in this order:

1. Evaluation: the incarnation that guards re-entry (`feature_evaluation.cpp`, `part_document.cpp`), effective sketches; in `BodyTopology` references at a single point, sketches on faces of the body, strict faces.
2. `PartCommands` composed with undo and redo; the constraints of a sketch.
3. The stamps inside an address in `PartFile`.
4. Face picking, projection and support picking in `Viewport`.
