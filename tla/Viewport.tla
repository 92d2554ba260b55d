------------------------------ MODULE Viewport ------------------------------
(***************************************************************************)
(* What the viewport and the document tree show of the active Part, and    *)
(* what is selected in it.                                                 *)
(*                                                                         *)
(* The controller of the viewport keeps a semantic selection per document  *)
(* and turns the document into scenes.  The objects of a scene are known   *)
(* to the widget, which draws them and is clicked at, by tokens only.  The *)
(* tokens of the body are leased for one generation of its scene; those of *)
(* authored references and of profiles are new with every scene.  Between  *)
(* them stand the candidates under the pointer, the previews and overlays  *)
(* that belong to a generation, and the edge draft (Fillet or Chamfer),    *)
(* which takes the edges selected on the body of a certain stage.          *)
(*                                                                         *)
(* The functions of the controller, the widget, the tree and the workbench *)
(* call one another synchronously; they are operators from a record of all *)
(* variables to another.                                                   *)
(***************************************************************************)
EXTENDS Naturals, Sequences, SequencesExt, FiniteSets

CONSTANTS
    Docs,           \* the open documents
    None,
    Edges, Faces,   \* what every body is bounded by
    Seed,           \* the documents as they are opened
    Changes,        \* what authoring may make of each
    MaxRevision,
    MaxGeneration,  \* generations of body scenes run out
    Queries,        \* what may lie under the pointer, nearest first
    Faults          \* which calls of a refresh may fail

\* Something drawn beside the body: an authored reference (an axis or a datum
\* plane), a profile.  The built-in references, whose tokens never change, are
\* left out.
Items == {"reference", "profile"}

\* A row of the tree may also be the last feature.
Rows == Items \cup {"feature"}

Elements == Edges \cup Faces

\* How many of the features are evaluated: the last may be broken.
Stages == 0 .. 2

Documents ==
    {p \in [revision : Nat, features : Stages, broken : BOOLEAN, items : SUBSET Items] :
        p.broken => p.features # 0}

Generations == 0 .. MaxGeneration

\* A token of the body: a generation and an element.
Tokens == (1 .. MaxGeneration) \X Elements

Scenes ==
    [revision : Nat, generation : Generations, stage : Stages,
     purpose : {"current_body", "tool_stage", "diagnostic_prefix"}]

Selections == [items : SUBSET Items, body : Seq(Tokens), generation : Generations]

\* The candidates under the pointer, and the one that is shown.
Stacks == [generation : 1 .. MaxGeneration, candidates : Seq(Elements), active : Nat]

Controls ==
    [scene : Scenes \cup {None}, fresh : BOOLEAN, next : 1 .. MaxGeneration + 1,
     tool : Stages \cup {None}, edgeMode : BOOLEAN, stack : Stacks \cup {None},
     contribution : BOOLEAN, bound : SUBSET Items, preview : BOOLEAN,
     degraded : BOOLEAN]

Widgets ==
    [body : Generations, shows : SUBSET Items, items : SUBSET (Items \cup {"retired"}),
     chosen : SUBSET Tokens, marks : SUBSET Tokens, hover : Tokens \cup {None},
     overlay : Generations, delta : Generations]

\* Edges as a draft refers to them: by the stage of the body they are on.
References == SUBSET (Stages \X (Elements \cup {"lost"}))

Drafts ==
    [edit : BOOLEAN, stage : Stages, edges : References, unresolved : References,
     revision : Nat, sized : BOOLEAN]

ASSUME ViewportAssumption ==
    /\ MaxGeneration \in Nat
    /\ None \notin Docs \cup Stages \cup Tokens \cup Scenes \cup Stacks \cup Drafts
    /\ Seed \in [Docs -> Documents]
    /\ \A d \in Docs : Changes[d] \subseteq Documents
    /\ MaxRevision \in [Docs -> Nat]
    /\ IsFiniteSet(Edges) /\ Edges \cap Faces = {}
    /\ \A q \in Queries :
        /\ q \in Seq(Elements) /\ q # <<>> /\ IsInjective(q)
        /\ \A i, j \in DOMAIN q : i < j /\ q[j] \in Edges => q[i] \in Edges
    /\ Faults \subseteq {"none", "bodyBuild", "bodySet", "overlay", "references",
                       "profiles"}

VARIABLES
    doc,        \* the documents
    front,      \* the one shown, or None
    sel,        \* [Docs -> its selection]
    ctl,        \* the controller of the viewport
    wid,        \* the widget
    tree,       \* the tree: its rows and the selected ones
    draft       \* the edge draft of the workbench, or None

vars == <<doc, front, sel, ctl, wid, tree, draft>>

Now ==
    [doc |-> doc, front |-> front, sel |-> sel, ctl |-> ctl, wid |-> wid,
     tree |-> tree, draft |-> draft]

Become(s) ==
    /\ doc' = s.doc /\ front' = s.front /\ sel' = s.sel /\ ctl' = s.ctl
    /\ wid' = s.wid /\ tree' = s.tree /\ draft' = s.draft

-----------------------------------------------------------------------------
(* Scenes, tokens and selections *)

Evaluated(p) == IF p.broken THEN p.features - 1 ELSE p.features

\* The body the viewport should show: the stage a tool asks for, the body,
\* or what of it can still be evaluated.
PresentedBody(p, tool) ==
    IF tool # None
    THEN IF tool <= Evaluated(p)
         THEN [purpose |-> "tool_stage", stage |-> tool] ELSE None
    ELSE IF Evaluated(p) = 0 THEN None
    ELSE [purpose |-> IF p.broken THEN "diagnostic_prefix" ELSE "current_body",
          stage |-> Evaluated(p)]

\* A scene without a body has no generation.
EmptyScene(p) ==
    [revision |-> p.revision, generation |-> 0, purpose |-> "current_body",
     stage |-> 0]

NoSelection ==
    [items |-> {}, body |-> <<>>, generation |-> 0]

Part(s) == s.doc[s.front]
Selection(s) == s.sel[s.front]
Select(s, x) == [s EXCEPT !.sel[s.front] = x]

\* The scene that was built is of the document as it is.
SceneCurrent(s) ==
    /\ s.ctl.scene # None
    /\ s.ctl.fresh
    /\ s.ctl.scene.revision = Part(s).revision

\* A scene one may pick from: the body, or for a draft the stage it asked for.
Authoring(s) ==
    /\ s.ctl.scene # None
    /\ \/ s.ctl.scene.purpose = "current_body"
       \/ s.ctl.edgeMode /\ s.ctl.scene.purpose = "tool_stage"

\* A token is a generation and an element.
Bound(s, token) ==
    /\ s.ctl.scene # None
    /\ token[1] # 0
    /\ s.ctl.scene.generation = token[1]

Primary(s) == Last(Selection(s).body)

-----------------------------------------------------------------------------
(* The widget *)

\* The styles are applied to what is selected, token by token.  The first
\* token that the body does not have ends the highlighting of the body.
ApplySelectionStyles(w) ==
    [w EXCEPT
        !.marks = IF w.body # 0 /\ w.items = {}
                     /\ \A t \in w.chosen : t[1] = w.body
                  THEN w.chosen ELSE {},
        !.hover = IF @ = None \/ @ \in w.chosen \/ w.body = 0 THEN @
                  ELSE IF @[1] = w.body THEN @ ELSE None]

SetPresentationSelection(w, items, body) ==
    IF items \cup w.items = {} /\ body \cup w.chosen = {} THEN w
    ELSE ApplySelectionStyles([w EXCEPT !.items = items, !.chosen = body])

\* The highlights and overlays of a body go with it.
ClearSolidScene(w) ==
    [w EXCEPT !.body = 0, !.marks = {}, !.overlay = 0, !.hover = None]

\* The same scene again is nothing new.  A preview of what a body will gain
\* or lose is only shown with that body.
SetBodyScene(w, generation, fails) ==
    IF generation = w.body THEN w
    ELSE [ClearSolidScene(w) EXCEPT
            !.body = IF fails THEN 0 ELSE generation,
            !.delta = IF @ = generation THEN @ ELSE 0]

SetPreselection(w, token) ==
    [w EXCEPT !.hover =
        IF token = None \/ token \in w.chosen \/ w.body \in {0, token[1]}
        THEN token ELSE None]

\* An overlay is only shown on the body it was made for.
OverlayAccepted(w, generation) == generation \in {0, w.body}

SetOverlay(w, generation) ==
    IF OverlayAccepted(w, generation) THEN [w EXCEPT !.overlay = generation]
    ELSE w

SetReferenceScene(w, items, fails) ==
    IF fails THEN [w EXCEPT !.shows = @ \cap {"profile"}]
    ELSE ApplySelectionStyles([w EXCEPT !.shows = (@ \cap {"profile"}) \cup items])

SetProfileScene(w, items) ==
    ApplySelectionStyles([w EXCEPT !.shows = (@ \ {"profile"}) \cup items])

\* The token of an item is no longer in any scene.
Retire(w, item) ==
    IF item \in w.items THEN [w EXCEPT !.items = (@ \ {item}) \cup {"retired"}]
    ELSE w

-----------------------------------------------------------------------------
(* Selection *)

ClearPreselection(s) ==
    [s EXCEPT !.ctl.stack = None, !.wid = SetPreselection(@, None)]

ClearBodySelection(s) ==
    IF s.front = None THEN s
    ELSE Select(s, [Selection(s) EXCEPT !.body = <<>>, !.generation = 0])

\* The tree and the widget are told what is selected; the widget by the
\* tokens of the present scenes.
ApplySelectionToSurfaces(s) ==
    IF s.front = None
    THEN [s EXCEPT !.tree.selected = @ \ Items,
                   !.wid = SetPresentationSelection(@, {}, {})]
    ELSE LET x == Selection(s) IN
         [s EXCEPT
            !.tree.selected = (@ \ Items) \cup (x.items \cap s.tree.rows),
            !.wid = SetPresentationSelection(@,
                        x.items \cap s.ctl.bound,
                        {t \in Range(x.body) : Bound(s, t)})]

\* Of the features only the last has a contribution of its own here.
Contribution(s) ==
    IF /\ s.ctl.contribution
       /\ s.ctl.scene # None
       /\ s.ctl.scene.purpose = "current_body"
       /\ s.ctl.scene.stage = 2
    THEN s.ctl.scene.generation ELSE 0

ApplyFeatureContributionOverlay(s) ==
    [s EXCEPT !.wid = SetOverlay(@, Contribution(s))]

SetFeatureContribution(s, on) ==
    IF s.ctl.contribution = on THEN s
    ELSE LET t == [s EXCEPT !.ctl.contribution = on]
         IN  [ApplyFeatureContributionOverlay(t) EXCEPT
                !.ctl.degraded = @ \/ ~OverlayAccepted(t.wid, Contribution(t))]

-----------------------------------------------------------------------------
(* What hears of a selection.  The edge draft follows it, unless the       *)
(* workbench is changing it itself ("quiet").                              *)

\* The edges selected, as a draft refers to them; nothing if anything else
\* of the body is selected too.
SelectedEdges(s) ==
    LET chosen == Range(Selection(s).body)
    IN  IF /\ Authoring(s)
           /\ s.ctl.scene.generation # 0
           /\ \A t \in chosen : Bound(s, t) /\ t[2] \in Edges
        THEN {<<s.ctl.scene.stage, t[2]>> : t \in chosen} ELSE {}

\* A draft takes edges of the stage it consumes only.
OfStage(edges, stage) == \A e \in edges : e[1] = stage

\* What the draft would commit can be evaluated.
Exact(s) ==
    /\ s.draft # None
    /\ s.draft.sized
    /\ s.draft.revision = Part(s).revision
    /\ s.draft.edges # {}
    /\ \A e \in s.draft.edges : e[1] = s.draft.stage /\ e[2] \in Edges

\* The exact preview is of the body it changes.
RefreshEdgePreview(s) ==
    LET shown == /\ s.ctl.scene # None
                 /\ s.ctl.scene.purpose \in {"current_body", "tool_stage"}
                 /\ s.ctl.scene.generation = s.wid.body
    IN  [s EXCEPT !.wid.delta = IF Exact(s) /\ shown THEN s.wid.body ELSE 0]

\* An element of the body takes the selection of the tree.
NotifyTree(s) ==
    IF s.front # None /\ Selection(s).body # <<>> /\ Bound(s, Primary(s))
    THEN SetFeatureContribution([s EXCEPT !.tree.selected = {}], FALSE)
    ELSE s

\* Selects again what the edges of a draft refer to, as far as it is there.
Resolved(s, edges) ==
    {e \in edges : e[1] = s.ctl.scene.stage /\ e[2] \in Edges}

CanRestore(s) ==
    /\ s.ctl.edgeMode
    /\ s.ctl.scene # None
    /\ s.ctl.scene.generation # 0
    /\ s.ctl.scene.purpose \in {"current_body", "tool_stage"}

RestoreMaterialEdges(s, edges) ==
    LET tokens == {<<s.ctl.scene.generation, e[2]>> : e \in Resolved(s, edges)}
    IN  NotifyTree(ApplySelectionToSurfaces(
            Select(s, [Selection(s) EXCEPT
                !.body = SetToSeq(tokens),
                !.generation = IF tokens = {} THEN 0 ELSE s.ctl.scene.generation])))

\* Mutant: what cannot be resolved is dropped when another edge is picked.
StageEdgesDroppingUnresolved(s) ==
    RefreshEdgePreview([s EXCEPT !.draft.edges = SelectedEdges(s)])

StageEdges(s) ==
    LET edges == SelectedEdges(s)
                 \cup (IF s.draft.edit THEN s.draft.unresolved ELSE {})
    IN  IF OfStage(edges, s.draft.stage)
        THEN RefreshEdgePreview([s EXCEPT !.draft.edges = edges])
        ELSE IF CanRestore(s)
        THEN [RestoreMaterialEdges(s, s.draft.edges) EXCEPT
                !.draft.unresolved = s.draft.edges \ Resolved(s, s.draft.edges)]
        ELSE s

NotifySelectionChanged(s, quiet) ==
    LET t == NotifyTree(s)
    IN  IF quiet \/ t.draft = None \/ t.front = None THEN t ELSE StageEdges(t)

-----------------------------------------------------------------------------
(* The scenes *)

\* Mutant: the elements selected on the old body survive it.
DropNothing(s, quiet) == s

DropStaleSelection(s, quiet) ==
    IF Selection(s).body = <<>> THEN s
    ELSE NotifySelectionChanged(
            ApplySelectionToSurfaces(ClearBodySelection(s)), quiet)

\* The document is evaluated for a body scene unless that was done.
BuildBodyScene(s, fault, quiet) ==
    LET shown == PresentedBody(Part(s), s.ctl.tool)
        fails == /\ shown # None
                 /\ fault = "bodyBuild" \/ s.ctl.next > MaxGeneration
        gone  == DropStaleSelection(ClearPreselection(s), quiet)
    IN  IF SceneCurrent(s) THEN s
        ELSE IF fails
        THEN DropStaleSelection(
                [s EXCEPT !.ctl.scene = None, !.ctl.fresh = FALSE], quiet)
        ELSE [gone EXCEPT
                !.ctl.fresh = TRUE,
                !.ctl.next  = IF shown = None THEN @ ELSE @ + 1,
                !.ctl.scene = IF shown = None THEN EmptyScene(Part(s))
                    ELSE [revision   |-> Part(s).revision,
                          generation |-> s.ctl.next,
                          purpose    |-> shown.purpose,
                          stage      |-> shown.stage]]

ShowBody(s, fault) ==
    [s EXCEPT
        !.wid = SetBodyScene(@, IF s.ctl.scene = None THEN 0
                                ELSE s.ctl.scene.generation, fault = "bodySet"),
        !.ctl.degraded = \/ s.ctl.scene = None
                         \/ /\ fault = "bodySet"
                            /\ s.ctl.scene.generation # s.wid.body]

ShowOverlay(s, fault) ==
    IF s.ctl.degraded THEN [s EXCEPT !.wid = SetOverlay(@, 0)]
    ELSE IF fault = "overlay" THEN [s EXCEPT !.ctl.degraded = TRUE]
    ELSE [ApplyFeatureContributionOverlay(s) EXCEPT
            !.ctl.degraded = ~OverlayAccepted(s.wid, Contribution(s))]

\* Authored references are drawn as the evaluation of the body scene has
\* them.  Their tokens are new each time.
ShowReferences(s, fault) ==
    LET authored == Part(s).items \cap {"reference"}
        built    == authored = {} \/ SceneCurrent(s)
    IN  [s EXCEPT
            !.ctl.bound = (@ \ {"reference"}) \cup (IF built THEN authored ELSE {}),
            !.ctl.degraded = @ \/ ~built \/ fault = "references",
            !.wid = SetReferenceScene(Retire(@, "reference"),
                        IF built THEN authored ELSE {},
                        built /\ fault = "references")]

\* A profile scene that cannot be built is not replaced in the widget.
ShowProfiles(s, fault) ==
    LET authored == Part(s).items \cap {"profile"}
        fails    == authored # {} /\ fault = "profiles"
    IN  [s EXCEPT
            !.ctl.bound = (@ \ {"profile"}) \cup (IF fails THEN {} ELSE authored),
            !.ctl.degraded = @ \/ fails,
            !.wid = IF fails THEN Retire(@, "profile")
                    ELSE SetProfileScene(Retire(@, "profile"), authored)]

\* Mutant: the old tokens stay with the widget.
RefreshPresentationUnapplied(s, fault, quiet) ==
    LET body == ShowBody(BuildBodyScene(s, fault, quiet), fault)
    IN  ShowProfiles(ShowReferences(ShowOverlay(body, fault), fault), fault)

RefreshPresentation(s, fault, quiet) ==
    LET body == ShowBody(BuildBodyScene(s, fault, quiet), fault)
    IN  ApplySelectionToSurfaces(
            ShowProfiles(ShowReferences(ShowOverlay(body, fault), fault), fault))

\* Only the references are drawn again while the body is as it was.
SetAxisDraftPreview(s, on, fault) ==
    IF s.ctl.preview = on THEN s
    ELSE LET t == [s EXCEPT !.ctl.preview = on]
         IN  IF SceneCurrent(t) /\ fault # "references"
             THEN [ShowReferences(t, fault) EXCEPT !.ctl.degraded = s.ctl.degraded]
             ELSE RefreshPresentation(
                    [t EXCEPT !.wid =
                        IF SceneCurrent(t)
                        THEN SetReferenceScene(Retire(@, "reference"), {}, TRUE) ELSE @],
                    fault, FALSE)

-----------------------------------------------------------------------------
(* The stage a draft works on *)

SetEdgeDraftMode(s, on) ==
    IF s.ctl.edgeMode = on THEN s
    ELSE ClearPreselection([s EXCEPT !.ctl.edgeMode = on])

TryToolStage(s, stage, fault) ==
    RefreshPresentation(
        ClearBodySelection(ClearPreselection(
            [s EXCEPT !.ctl.tool = stage, !.ctl.fresh = FALSE])), fault, TRUE)

ToolStageReady(s) ==
    /\ s.ctl.scene # None
    /\ s.ctl.scene.purpose = "tool_stage"
    /\ s.ctl.scene.stage = s.ctl.tool

\* A stage that is not to be had leaves the one before.
SetToolStage(s, stage, fault, again) ==
    LET t == TryToolStage(s, stage, fault)
    IN  IF stage = None \/ ToolStageReady(t) THEN t
        ELSE TryToolStage(t, s.ctl.tool, again)

ClearEdgeFeature(s, fault) ==
    LET t == SetEdgeDraftMode([s EXCEPT !.draft = None, !.wid.delta = 0], FALSE)
    IN  SetToolStage(t, None, fault, fault)

-----------------------------------------------------------------------------
(* Documents *)

Row(p) ==
    p.items \cup (IF p.features = 2 THEN {"feature"} ELSE {})

\* The tree is built anew; of the same document what was selected stays so.
SetDocumentSession(s, d, fault) ==
    LET left == IF s.front = d THEN s
                ELSE ClearPreselection([s EXCEPT
                        !.ctl.contribution = FALSE, !.ctl.bound = {},
                        !.ctl.tool = None, !.ctl.scene = None,
                        !.ctl.fresh = FALSE, !.ctl.preview = FALSE,
                        !.wid.delta = 0])
        rows == Row(s.doc[d])
        at   == [left EXCEPT
                    !.front = d,
                    !.tree = [rows |-> rows,
                              selected |-> IF s.front = d THEN @.selected \cap rows
                                           ELSE {}]]
    IN  NotifySelectionChanged(
            ApplySelectionToSurfaces(RefreshPresentation(at, fault, FALSE)), FALSE)

\* The workbench shows its document again, and what a draft would do to it.
RefreshActiveContext(s, d, fault) ==
    LET t == SetDocumentSession(s, d, fault)
    IN  IF t.draft = None THEN t ELSE RefreshEdgePreview(t)

\* Nothing of a document is shown any more.
Clear(s) ==
    [s EXCEPT
        !.front = None,
        !.ctl = [@ EXCEPT
            !.contribution = FALSE, !.bound = {}, !.tool = None, !.scene = None,
            !.fresh = FALSE, !.stack = None, !.degraded = FALSE],
        !.tree = [rows |-> {}, selected |-> {}],
        !.wid = [SetPresentationSelection(
                    SetProfileScene(SetReferenceScene(
                        SetBodyScene(SetPreselection(@, None), 0, FALSE),
                        {}, FALSE), {}), {}, {}) EXCEPT !.delta = 0]]

CloseTools(s, fault) ==
    ClearEdgeFeature(SetAxisDraftPreview(s, FALSE, fault), fault)

NavigateToFeature(s) ==
    LET t == [s EXCEPT !.tree.selected = {"feature"} \cap s.tree.rows]
    IN  NotifySelectionChanged(
            ApplySelectionToSurfaces(
                Select(t, [Selection(t) EXCEPT !.items = @ \ {"profile"}])), FALSE)

Init ==
    /\ doc = Seed
    /\ front = None
    /\ sel = [d \in Docs |-> NoSelection]
    /\ ctl = [scene |-> None, fresh |-> FALSE, next |-> 1, tool |-> None,
              edgeMode |-> FALSE, stack |-> None, contribution |-> FALSE,
              bound |-> {}, preview |-> FALSE, degraded |-> FALSE]
    /\ wid = [body |-> 0, shows |-> {}, items |-> {}, chosen |-> {},
              marks |-> {}, hover |-> None, overlay |-> 0, delta |-> 0]
    /\ tree = [rows |-> {}, selected |-> {}]
    /\ draft = None

Activate(d, fault) ==
    /\ d # front
    /\ Become(RefreshActiveContext(
                IF front = None THEN Now ELSE Clear(CloseTools(Now, fault)),
                d, fault))

\* The selection is kept for when the document is shown again.
Deactivate(fault) ==
    /\ front # None
    /\ Become(Clear(CloseTools(CloseTools(Now, fault), fault)))

\* A command, Undo or Redo makes another Part of the document, whatever is
\* open in the workbench.
Change(p, fault) ==
    /\ front # None
    /\ doc[front].revision < MaxRevision[front]
    /\ p \in Changes[front]
    /\ Become(RefreshActiveContext(
                [Now EXCEPT !.doc[front] =
                    [p EXCEPT !.revision = doc[front].revision + 1]],
                front, fault))

\* A save shows the document again.
Save(fault) ==
    /\ front # None
    /\ Become(RefreshActiveContext(Now, front, fault))

\* Starting, changing and leaving an Axis draft.
ShowAxisDraft(on, fault) ==
    /\ front # None
    /\ draft = None
    /\ on # ctl.preview
    /\ Become(SetAxisDraftPreview(Now, on, fault))

-----------------------------------------------------------------------------
(* The tree and the pointer *)

\* What the user selects in the tree replaces what was selected.
SelectInTree(rows) ==
    /\ front # None
    /\ rows \subseteq tree.rows
    /\ rows # tree.selected
    /\ LET s == ClearPreselection([Now EXCEPT !.tree.selected = rows])
           t == ApplySelectionToSurfaces(
                    Select(s, [items |-> rows \cap Items, body |-> <<>>,
                               generation |-> 0]))
       IN  Become(SetFeatureContribution(
                    NotifySelectionChanged(t, FALSE), "feature" \in rows))

Toggled(x, set) == IF x \in set THEN set \ {x} ELSE set \cup {x}

\* A reference or a profile is known by the token it is shown under.
ClickItem(i, toggle) ==
    /\ front # None
    /\ ~ctl.edgeMode
    /\ i \in wid.shows
    /\ LET s == ClearPreselection(Now)
           x == Selection(s)
           t == Select(s, IF toggle
                    THEN [x EXCEPT !.items = Toggled(i, @)]
                    ELSE [items |-> {i}, body |-> <<>>, generation |-> 0])
       IN  Become(IF i \in ctl.bound
                  THEN NotifySelectionChanged(ApplySelectionToSurfaces(t), FALSE)
                  ELSE s)

ClickNothing ==
    /\ front # None
    /\ ~ctl.edgeMode
    /\ Become(NotifySelectionChanged(
                ApplySelectionToSurfaces(
                    Select(ClearPreselection(Now), NoSelection)), FALSE))

\* What of the body lies under the pointer: edges before faces, the nearest
\* first.  A draft is after edges only.
Ranked(q) ==
    IF ~Authoring(Now) \/ wid.body = 0 \/ ctl.scene.generation # wid.body THEN <<>>
    ELSE IF ctl.edgeMode THEN SubSeq(q, 1, Cardinality(Range(q) \cap Edges)) ELSE q

ShowCandidate(s, stack) ==
    LET t == [s EXCEPT
                !.ctl.stack = stack,
                !.wid = SetPreselection(@, <<stack.generation,
                                             stack.candidates[stack.active]>>)]
    IN  IF t.wid.hover = None THEN ClearPreselection(t) ELSE t

\* The candidates of a still pointer stay in the order the user turned them
\* to.  Otherwise the nearest comes first, unless an edge shown already is
\* nearly as near ("kept").
Hover(q, still, kept) ==
    LET found == Ranked(q)
        old   == ctl.stack
        same  == old # None /\ old.generation = wid.body
        index == IF /\ kept /\ same
                    /\ old.candidates[old.active] \in Range(found) \cap Edges
                 THEN CHOOSE k \in DOMAIN found :
                        found[k] = old.candidates[old.active]
                 ELSE 1
    IN  /\ front # None
        /\ Become(
            IF found = <<>> THEN ClearPreselection(Now)
            ELSE ShowCandidate(Now,
                IF still /\ same /\ old.candidates = found THEN old
                ELSE [generation |-> wid.body, candidates |-> found,
                      active |-> index]))

\* The pointer leaves the body, or the camera moves.
HoverNothing ==
    /\ ctl.stack # None
    /\ Become(ClearPreselection(Now))

Cycle(reverse) ==
    LET old == ctl.stack
        n   == Len(old.candidates)
        to  == IF reverse THEN IF old.active = 1 THEN n ELSE old.active - 1
               ELSE (old.active % n) + 1
    IN  /\ old # None
        /\ wid.hover # None
        /\ Become(
            IF Authoring(Now) /\ old.generation = ctl.scene.generation
            THEN ShowCandidate(Now, [old EXCEPT !.active = to])
            ELSE ClearPreselection(Now))

\* Mutant: the nearest is taken, whatever is shown.
ClickedNearest(found) == found[1]

\* A click takes what is shown under the pointer if it is still there.
Clicked(found) ==
    IF /\ ctl.stack # None
       /\ ctl.stack.generation = wid.body
       /\ ctl.stack.candidates[ctl.stack.active] \in Range(found)
    THEN ctl.stack.candidates[ctl.stack.active]
    ELSE found[1]

\* A draft collects edges, so that a click adds one or takes it back.
ClickBody(q, toggle) ==
    LET found == Ranked(q)
        token == <<wid.body, Clicked(found)>>
        x     == Selection(Now)
        old   == IF x.generation = wid.body THEN x.body ELSE <<>>
        body  == IF ~toggle /\ ~ctl.edgeMode THEN <<token>>
                 ELSE IF token \in Range(old)
                 THEN RemoveAt(old, CHOOSE k \in DOMAIN old : old[k] = token)
                 ELSE Append(old, token)
    IN  /\ front # None
        /\ found # <<>>
        /\ Become(NotifySelectionChanged(ApplySelectionToSurfaces(
            Select(Now, [items |-> {}, body |-> body,
                         generation |-> IF body = <<>> THEN 0 ELSE wid.body])),
            FALSE))

-----------------------------------------------------------------------------
(* The edge draft *)

CanStart == front # None /\ draft = None /\ ~ctl.preview

\* The edges selected beforehand are taken, if the draft can take them.
StartEdgeFeature ==
    LET stage == doc[front].features
        begun == [Now EXCEPT !.draft =
                    [edit |-> FALSE, stage |-> stage, edges |-> SelectedEdges(Now),
                     unresolved |-> {}, revision |-> doc[front].revision,
                     sized |-> FALSE]]
    IN  /\ CanStart
        /\ stage # 0
        /\ OfStage(SelectedEdges(Now), stage)
        /\ Become(StageEdges([SetEdgeDraftMode(begun, TRUE) EXCEPT !.wid.delta = 0]))

\* The last feature is edited on the body it consumes.  Of the edges it was
\* made from some may be lost.  A stage without a body is given up, which
\* refreshes "again".
StartEdgeFeatureEdit(edges, fault, again) ==
    LET staged == SetToolStage(SetEdgeDraftMode(Now, TRUE), 1, fault, again)
        begun  == [staged EXCEPT !.draft =
                    [edit |-> TRUE, stage |-> 1, edges |-> edges,
                     unresolved |-> edges \ Resolved(staged, edges),
                     revision |-> doc[front].revision, sized |-> TRUE]]
    IN  /\ CanStart
        /\ doc[front].features = 2
        /\ fault # "bodyBuild" => again = fault
        /\ edges \in (SUBSET ({1} \X (Edges \cup {"lost"}))) \ {{}}
        /\ doc[front].broken <=> <<1, "lost">> \in edges
        /\ Become(IF ToolStageReady(staged)
                  THEN RefreshEdgePreview(RestoreMaterialEdges(begun, edges))
                  ELSE SetEdgeDraftMode(staged, FALSE))

\* A typed length is complete or not.
SizeDraft(sized) ==
    /\ draft # None
    /\ draft.sized # sized
    /\ Become(RefreshEdgePreview([Now EXCEPT !.draft.sized = sized]))

ClearEdgeSelection ==
    /\ draft # None
    /\ draft.edges # {}
    /\ Become(RefreshEdgePreview(NotifySelectionChanged(
        ApplySelectionToSurfaces(ClearBodySelection(
            [Now EXCEPT !.draft.unresolved = {}, !.draft.edges = {}])), TRUE)))

RemovePrimaryEdge ==
    /\ draft # None
    /\ Selection(Now).body # <<>>
    /\ LET x == Selection(Now)
           body == Front(x.body)
       IN  Become(NotifySelectionChanged(ApplySelectionToSurfaces(
            Select(Now, [x EXCEPT !.body = body,
                                  !.generation = IF body = <<>> THEN 0 ELSE @])),
            FALSE))

CancelEdgeFeature(fault) ==
    /\ draft # None
    /\ LET s == ClearEdgeFeature(Now, fault)
       IN  Become(IF draft.edit /\ doc[front].features = 2
                  THEN NavigateToFeature(s) ELSE s)

\* What the preview shows is committed.
FinishEdgeFeature(fault, again) ==
    LET p    == doc[front]
        next == [p EXCEPT !.revision = @ + 1, !.broken = FALSE,
                          !.features = IF draft.edit THEN @ ELSE @ + 1]
        s    == ClearEdgeFeature([Now EXCEPT !.doc[front] = next], fault)
    IN  /\ draft # None
        /\ Exact(Now)
        /\ p.revision < MaxRevision[front]
        /\ next.features \in Stages
        /\ Become(NavigateToFeature(RefreshActiveContext(s, front, again)))

-----------------------------------------------------------------------------
Next ==
    \/ \E d \in Docs, f \in Faults : Activate(d, f)
    \/ \E f \in Faults : Deactivate(f) \/ Save(f) \/ CancelEdgeFeature(f)
    \/ \E f \in Faults : front # None /\ \E p \in Changes[front] : Change(p, f)
    \/ \E on \in BOOLEAN, f \in Faults : ShowAxisDraft(on, f)
    \/ \E rows \in SUBSET Rows : SelectInTree(rows)
    \/ \E i \in Items, toggle \in BOOLEAN : ClickItem(i, toggle)
    \/ ClickNothing
    \/ \E q \in Queries, still, kept \in BOOLEAN : Hover(q, still, kept)
    \/ HoverNothing
    \/ \E reverse \in BOOLEAN : Cycle(reverse)
    \/ \E q \in Queries, toggle \in BOOLEAN : ClickBody(q, toggle)
    \/ StartEdgeFeature
    \/ \E edges \in SUBSET ({1} \X (Edges \cup {"lost"})), f, g \in Faults :
            StartEdgeFeatureEdit(edges, f, g)
    \/ \E sized \in BOOLEAN : SizeDraft(sized)
    \/ ClearEdgeSelection
    \/ RemovePrimaryEdge
    \/ \E f, g \in Faults : FinishEdgeFeature(f, g)

Spec == Init /\ [][Next]_vars
-----------------------------------------------------------------------------
(* Properties *)

\* The state keeps its shape, and the tree has the rows of the document.  It
\* is the first part of LeasesAreOfShownBody.
TypeOK ==
    /\ doc \in [Docs -> Documents]
    /\ front \in Docs \cup {None}
    /\ sel \in [Docs -> Selections]
    /\ \A d \in Docs : IsInjective(sel[d].body)
    /\ ctl \in Controls
    /\ ctl.scene # None => ctl.scene.generation < ctl.next
    /\ ctl.stack # None => ctl.stack.active \in DOMAIN ctl.stack.candidates
    /\ wid \in Widgets
    /\ tree \in [rows : SUBSET Rows, selected : SUBSET Rows]
    /\ tree.rows = (IF front = None THEN {} ELSE Row(doc[front]))
    /\ tree.selected \subseteq tree.rows
    /\ draft \in Drafts \cup {None}
    /\ draft # None => front # None

\* Nothing outlives the body it is of: what is selected, preselected, marked,
\* laid over or previewed is of the generation that is shown, and that is of
\* the revision the document has.  A document that is not shown has nothing
\* of its body selected.
LeasesAreOfShownBody ==
    LET shown == IF ctl.scene = None THEN 0 ELSE ctl.scene.generation
    IN  /\ TypeOK
        /\ \A d \in Docs : sel[d].body # <<>> => d = front
        /\ \A d \in Docs, t \in Tokens :
                t \in Range(sel[d].body) => t[1] = shown /\ sel[d].generation = shown
        /\ wid.body \in {0, shown}
        /\ \A t \in wid.marks : t[1] = wid.body
        /\ wid.hover # None =>
                /\ ctl.stack # None
                /\ wid.hover = <<ctl.stack.generation,
                                 ctl.stack.candidates[ctl.stack.active]>>
                /\ wid.hover[1] = wid.body
        /\ ctl.stack # None /\ ctl.scene # None => ctl.stack.generation = shown
        /\ {wid.overlay, wid.delta} \subseteq {0, wid.body}
        /\ ctl.scene # None /\ ctl.fresh => ctl.scene.revision = Part(Now).revision

\* The tree and the widget show the selection.  An element of the body takes
\* it from the tree, and with it the contribution of a feature.
SurfacesAgree ==
    front # None =>
        LET x == sel[front]
            shown == x.items \cap ctl.bound
        IN  /\ IF x.body = <<>>
               THEN tree.selected \cap Items = x.items \cap tree.rows
               ELSE /\ tree.selected \subseteq x.items
                    /\ ~ctl.contribution
            /\ wid.items \subseteq shown \cup {"retired"}
            /\ shown \ wid.items \subseteq {"reference"}
            /\ wid.chosen = Range(x.body)
            /\ x.items = {} /\ wid.body # 0 => wid.marks = wid.chosen

\* While only edges are selected, an edge draft is made of them and of those
\* it was made of before that could not be found; of a broken feature nothing
\* is dropped unasked.
DraftHoldsSelectedEdges ==
    draft # None /\ Authoring(Now)
        /\ (\A t \in Range(sel[front].body) : t[2] \in Edges) =>
    draft.edges = SelectedEdges(Now)
                  \cup (IF draft.edit THEN draft.unresolved ELSE {})

\* A click takes, or takes back, the element that was shown under the pointer
\* before it, whatever lies nearer now, and nothing else is taken with it;
\* unless a draft that the document has overtaken refuses the element.
ClickTakesWhatIsShown ==
    [][LET before == Range(sel[front].body)
           after  == Range(sel'[front].body)
       IN  wid.hover # None /\ before # after
               /\ ~(wid.hover \in after \cup before /\ after \ before \subseteq {wid.hover})
           => \A q \in Queries, toggle \in BOOLEAN :
                wid.hover[2] \in Range(q) /\ ClickBody(q, toggle) =>
                    draft # None /\ draft.stage # ctl.scene.stage]_vars
=============================================================================
