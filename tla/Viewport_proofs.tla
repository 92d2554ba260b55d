--------------------------- MODULE Viewport_proofs ---------------------------
(***************************************************************************)
(* Proofs about Viewport, for any documents, any finite set of edges, any  *)
(* queries and any number of generations and revisions.                    *)
(*                                                                         *)
(* The functions of the controller pass a record of all variables on, and  *)
(* some of what is promised does not hold between two of them: the new     *)
(* scene is known before the widget shows it, a selection is changed       *)
(* before the tree hears of it. The invariant is therefore in parts. Kept  *)
(* is what every function keeps; Leased, Drafted and Told are about the    *)
(* selection, the edge draft that follows it and the tree that yields to   *)
(* it; InStep is what a refresh puts right in the end. One lemma for each  *)
(* function says which parts it needs and which it leaves true.            *)
(***************************************************************************)
EXTENDS Viewport, FiniteSetTheorems, NaturalsInduction, SequenceTheorems, TLAPS

States ==
    [doc : [Docs -> Documents], front : Docs \cup {None}, sel : [Docs -> Selections],
     ctl : Controls, wid : Widgets, tree : [rows : SUBSET Rows, selected : SUBSET Rows],
     draft : Drafts \cup {None}]

-----------------------------------------------------------------------------
(* The parts of the invariant *)

Showing(s) == IF s.ctl.scene = None THEN 0 ELSE s.ctl.scene.generation

\* What the widget has drawn on the body is of that body.
Steady(w) ==
    /\ w.marks \subseteq w.chosen
    /\ \A t \in w.marks : t[1] = w.body
    /\ w.hover # None => w.hover[1] = w.body
    /\ w.overlay \in {0, w.body}
    /\ w.delta \in {0, w.body}

\* What is shown under the pointer is the active candidate.
Pointed(s) ==
    LET stack == s.ctl.stack IN
    /\ s.wid.hover # None =>
         /\ stack # None
         /\ s.wid.hover = <<stack.generation, stack.candidates[stack.active]>>
    /\ stack # None =>
         /\ stack.active \in DOMAIN stack.candidates
         /\ s.ctl.scene # None => stack.generation = Showing(s)
         /\ s.ctl.edgeMode => Range(stack.candidates) \subseteq Edges

Scened(s) ==
    s.ctl.scene # None =>
        /\ s.ctl.scene.generation < s.ctl.next
        /\ s.ctl.scene.purpose = "tool_stage" => s.ctl.scene.generation # 0

Kept(s) ==
    /\ s \in States
    /\ Steady(s.wid) /\ Pointed(s) /\ Scened(s)
    /\ s.tree.selected \subseteq s.tree.rows

\* Elements are selected on the body of the document that is shown only.
OfBody(x, generation) ==
    /\ IsInjective(x.body)
    /\ x.body # <<>> => x.generation = generation
    /\ \A t \in Range(x.body) : t[1] = generation

Leased(s) ==
    \A d \in Docs :
        /\ s.sel[d].body # <<>> => d = s.front
        /\ OfBody(s.sel[d], Showing(s))

\* The edges of a draft are of its stage; one that is new has none while the
\* scene shows another stage.
Staged(s) ==
    s.draft # None =>
        /\ s.front # None /\ s.ctl.edgeMode
        /\ OfStage(s.draft.edges, s.draft.stage)
        /\ OfStage(s.draft.unresolved, s.draft.stage)
        /\ ~s.draft.edit /\ s.ctl.scene # None /\ s.ctl.scene.stage # s.draft.stage
             => s.draft.edges = {}

Unfound(d) == IF d.edit THEN d.unresolved ELSE {}

Drafted(s) ==
    /\ Staged(s)
    /\ s.draft # None => s.draft.edges = SelectedEdges(s) \cup Unfound(s.draft)

\* An element of the body has taken the selection from the tree.
Told(s) ==
    s.front # None =>
        (Selection(s).body # <<>> => s.tree.selected \subseteq Items /\ ~s.ctl.contribution)

Good(s) == Kept(s) /\ Leased(s) /\ Drafted(s) /\ Told(s)

\* The widget shows the scene, or nothing of it.
Shows(s) == s.wid.body \in {0, Showing(s)}

Agreed(s) ==
    s.front # None =>
        LET x == Selection(s)
            shown == x.items \cap s.ctl.bound
        IN  /\ IF x.body = <<>>
               THEN s.tree.selected \cap Items = x.items \cap s.tree.rows
               ELSE s.tree.selected \subseteq x.items /\ ~s.ctl.contribution
            /\ s.wid.items \subseteq shown \cup {"retired"}
            /\ shown \ s.wid.items \subseteq {"reference"}
            /\ s.wid.chosen = Range(x.body)
            /\ x.items = {} => /\ s.wid.items = {}
                               /\ s.wid.body # 0 => s.wid.marks = s.wid.chosen

Current(s) ==
    s.ctl.scene # None /\ s.ctl.fresh =>
        s.front # None /\ s.ctl.scene.revision = Part(s).revision

InStep(s) == Shows(s) /\ Agreed(s) /\ Current(s)

Rowed(s) == s.tree.rows = (IF s.front = None THEN {} ELSE Row(s.doc[s.front]))

Inv(s) == Good(s) /\ InStep(s) /\ Rowed(s)

ViewportInv == Inv(Now)

-----------------------------------------------------------------------------
(* The widget *)

\* What of the selection the styles mark on the body.
Marked(w) ==
    IF w.body # 0 /\ w.items = {} /\ \A t \in w.chosen : t[1] = w.body
    THEN w.chosen ELSE {}

Styled(w) == [w EXCEPT !.marks = Marked(w)]

\* What is pointed at, laid over and previewed is of the body, whatever is marked.
Settled(w) ==
    /\ w.hover # None => w.hover[1] = w.body
    /\ w.overlay \in {0, w.body}
    /\ w.delta \in {0, w.body}

LEMMA TokenIs ==
    /\ None \notin Tokens
    /\ \A t \in Tokens : t[1] \in 1 .. MaxGeneration /\ t[2] \in Elements /\ t[1] # 0
    /\ \A t \in Tokens : t = <<t[1], t[2]>>
    /\ \A g \in 1 .. MaxGeneration, e \in Elements : <<g, e>> \in Tokens
    /\ MaxGeneration \in Nat /\ 0 \in Generations
    /\ 1 .. MaxGeneration \subseteq Generations
BY ViewportAssumption DEF Tokens, Generations

LEMMA StyledIs ==
    ASSUME NEW w \in Widgets, Settled(w)
    PROVE  LET v == ApplySelectionStyles(w)
           IN  /\ v = Styled(w) /\ v \in Widgets /\ Steady(v)
               /\ v.body = w.body /\ v.shows = w.shows /\ v.items = w.items
               /\ v.chosen = w.chosen /\ v.marks = Marked(w) /\ v.hover = w.hover
               /\ v.overlay = w.overlay /\ v.delta = w.delta
<1> DEFINE v == ApplySelectionStyles(w)
<1>1. v = Styled(w)
  BY DEF ApplySelectionStyles, Styled, Marked, Settled, Widgets
<1>2. Marked(w) \in SUBSET Tokens
  BY DEF Marked, Widgets
<1>3. /\ v \in Widgets
      /\ v.body = w.body /\ v.shows = w.shows /\ v.items = w.items
      /\ v.chosen = w.chosen /\ v.marks = Marked(w) /\ v.hover = w.hover
      /\ v.overlay = w.overlay /\ v.delta = w.delta
  <2> HIDE DEF v
  <2> QED
    BY <1>1, <1>2 DEF Styled, Widgets
<1>4. Steady(v)
  <2> HIDE DEF v
  <2> QED
    BY <1>3 DEF Steady, Settled, Marked
<1> QED
  BY <1>1, <1>3, <1>4

\* Whether or not it was called before, the selection is shown as it is now.
LEMMA SetPresentationSelectionIs ==
    ASSUME NEW w \in Widgets, Steady(w), NEW items \in SUBSET Items,
           NEW body \in SUBSET Tokens
    PROVE  LET v == SetPresentationSelection(w, items, body)
           IN  /\ v \in Widgets /\ Steady(v)
               /\ v.body = w.body /\ v.shows = w.shows /\ v.hover = w.hover
               /\ v.overlay = w.overlay /\ v.delta = w.delta
               /\ v.items = items /\ v.chosen = body
               /\ v.marks = IF w.body # 0 /\ items = {} /\ \A t \in body : t[1] = w.body
                            THEN body ELSE {}
<1> DEFINE v == SetPresentationSelection(w, items, body)
           u == [w EXCEPT !.items = items, !.chosen = body]
<1>1. CASE items \cup w.items = {} /\ body \cup w.chosen = {}
  BY <1>1 DEF SetPresentationSelection, Steady
<1>2. CASE ~(items \cup w.items = {} /\ body \cup w.chosen = {})
  <2>1. v = ApplySelectionStyles(u)
    BY <1>2 DEF SetPresentationSelection
  <2>2. /\ u \in Widgets /\ u.items = items /\ u.chosen = body
        /\ u.body = w.body /\ u.shows = w.shows /\ u.hover = w.hover
        /\ u.overlay = w.overlay /\ u.delta = w.delta
    BY DEF Widgets
  <2> HIDE DEF u
  <2>3. Settled(u)
    BY <2>2 DEF Settled, Steady
  <2> QED
    BY <2>1, <2>2, <2>3, StyledIs DEF Marked
<1> QED
  BY <1>1, <1>2

LEMMA SetBodySceneIs ==
    ASSUME NEW w \in Widgets, Steady(w), NEW g \in Generations, NEW fails \in BOOLEAN
    PROVE  LET v == SetBodyScene(w, g, fails)
           IN  /\ v \in Widgets /\ Steady(v)
               /\ v.body \in {0, g} /\ (~fails => v.body = g)
               /\ v.shows = w.shows /\ v.items = w.items /\ v.chosen = w.chosen
               /\ v.hover \in {None, w.hover}
<1> DEFINE v == SetBodyScene(w, g, fails)
<1>1. CASE g = w.body
  BY <1>1 DEF SetBodyScene
<1>2. CASE g # w.body
  <2>1. v = [w EXCEPT !.body = IF fails THEN 0 ELSE g, !.marks = {}, !.overlay = 0,
                      !.hover = None, !.delta = IF @ = g THEN @ ELSE 0]
    BY <1>2 DEF SetBodyScene, ClearSolidScene, Widgets
  <2>2. /\ v \in Widgets /\ v.shows = w.shows /\ v.items = w.items
        /\ v.chosen = w.chosen /\ v.hover = None /\ v.marks = {} /\ v.overlay = 0
        /\ v.body = (IF fails THEN 0 ELSE g)
        /\ v.delta = (IF w.delta = g THEN g ELSE 0)
    BY <2>1, TokenIs DEF Widgets
  <2> HIDE DEF v
  <2>3. w.delta = g => g = 0
    BY <1>2 DEF Steady
  <2> QED
    BY <2>2, <2>3 DEF v, Steady
<1> QED
  BY <1>1, <1>2

LEMMA SetPreselectionIs ==
    ASSUME NEW w \in Widgets, Steady(w), NEW token \in Tokens \cup {None},
           token # None => token[1] = w.body
    PROVE  LET v == SetPreselection(w, token)
           IN  /\ v = [w EXCEPT !.hover = token]
               /\ v \in Widgets /\ Steady(v) /\ v.hover = token
               /\ v.body = w.body /\ v.shows = w.shows /\ v.items = w.items
               /\ v.chosen = w.chosen /\ v.marks = w.marks
               /\ v.overlay = w.overlay /\ v.delta = w.delta
<1>1. SetPreselection(w, token) = [w EXCEPT !.hover = token]
  BY DEF SetPreselection
<1> QED
  BY <1>1 DEF Steady, Widgets

LEMMA SetOverlayIs ==
    ASSUME NEW w \in Widgets, Steady(w), NEW g \in Generations
    PROVE  LET v == SetOverlay(w, g)
           IN  /\ v \in Widgets /\ Steady(v)
               /\ v.body = w.body /\ v.shows = w.shows /\ v.items = w.items
               /\ v.chosen = w.chosen /\ v.marks = w.marks /\ v.hover = w.hover
               /\ v.delta = w.delta
<1>1. CASE OverlayAccepted(w, g)
  <2>1. SetOverlay(w, g) = [w EXCEPT !.overlay = g]
    BY <1>1 DEF SetOverlay
  <2> QED
    BY <1>1, <2>1 DEF OverlayAccepted, Steady, Widgets
<1>2. CASE ~OverlayAccepted(w, g)
  BY <1>2 DEF SetOverlay
<1> QED
  BY <1>1, <1>2

LEMMA RetireIs ==
    ASSUME NEW w \in Widgets, Steady(w), NEW item \in Items
    PROVE  LET v == Retire(w, item)
           IN  /\ v \in Widgets /\ Steady(v)
               /\ v.body = w.body /\ v.shows = w.shows /\ v.chosen = w.chosen
               /\ v.marks = w.marks /\ v.hover = w.hover
               /\ v.overlay = w.overlay /\ v.delta = w.delta
               /\ v.items = IF item \in w.items THEN (w.items \ {item}) \cup {"retired"}
                            ELSE w.items
<1>1. CASE item \in w.items
  BY <1>1 DEF Retire, Steady, Widgets
<1>2. CASE item \notin w.items
  BY <1>2 DEF Retire
<1> QED
  BY <1>1, <1>2

LEMMA SetReferenceSceneIs ==
    ASSUME NEW w \in Widgets, Steady(w), NEW items \in SUBSET {"reference"},
           NEW fails \in BOOLEAN
    PROVE  LET v == SetReferenceScene(w, items, fails)
           IN  /\ v \in Widgets /\ Steady(v)
               /\ v.body = w.body /\ v.items = w.items /\ v.chosen = w.chosen
               /\ v.hover = w.hover /\ v.overlay = w.overlay /\ v.delta = w.delta
               /\ v.marks = (IF fails THEN w.marks ELSE Marked(w))
<1>1. CASE fails
  BY <1>1 DEF SetReferenceScene, Steady, Widgets, Items
<1>2. CASE ~fails
  <2> DEFINE u == [w EXCEPT !.shows = (@ \cap {"profile"}) \cup items]
  <2>1. SetReferenceScene(w, items, fails) = ApplySelectionStyles(u)
    BY <1>2 DEF SetReferenceScene
  <2>2. /\ u \in Widgets /\ u.items = w.items /\ u.chosen = w.chosen
        /\ u.body = w.body /\ u.hover = w.hover
        /\ u.overlay = w.overlay /\ u.delta = w.delta
    BY DEF Widgets, Items
  <2> HIDE DEF u
  <2>3. Settled(u)
    BY <2>2 DEF Settled, Steady
  <2> QED
    BY <1>2, <2>1, <2>2, <2>3, StyledIs DEF Marked
<1> QED
  BY <1>1, <1>2

LEMMA SetProfileSceneIs ==
    ASSUME NEW w \in Widgets, Steady(w), NEW items \in SUBSET {"profile"}
    PROVE  LET v == SetProfileScene(w, items)
           IN  /\ v \in Widgets /\ Steady(v)
               /\ v.body = w.body /\ v.items = w.items /\ v.chosen = w.chosen
               /\ v.hover = w.hover /\ v.overlay = w.overlay /\ v.delta = w.delta
               /\ v.marks = Marked(w)
<1> DEFINE u == [w EXCEPT !.shows = (@ \ {"profile"}) \cup items]
<1>1. SetProfileScene(w, items) = ApplySelectionStyles(u)
  BY DEF SetProfileScene
<1>2. /\ u \in Widgets /\ u.items = w.items /\ u.chosen = w.chosen
      /\ u.body = w.body /\ u.hover = w.hover
      /\ u.overlay = w.overlay /\ u.delta = w.delta
  BY DEF Widgets, Items
<1> HIDE DEF u
<1>3. Settled(u)
  BY <1>2 DEF Settled, Steady
<1> QED
  BY <1>1, <1>2, <1>3, StyledIs DEF Marked

-----------------------------------------------------------------------------
(* Sequences *)

LEMMA SeqRange ==
    ASSUME NEW S, NEW q \in Seq(S)
    PROVE  /\ Range(q) \subseteq S
           /\ q # <<>> => Last(q) \in Range(q)
           /\ (q = <<>>) <=> (Range(q) = {})
<1>1. Len(q) \in Nat /\ DOMAIN q = 1 .. Len(q) /\ \A i \in 1 .. Len(q) : q[i] \in S
  OBVIOUS
<1>2. q # <<>> => Len(q) \in 1 .. Len(q)
  BY EmptySeq
<1>3. q = <<>> => 1 .. Len(q) = {}
  OBVIOUS
<1>4. Last(q) = q[Len(q)]
  BY DEF Last
<1>5. Range(q) \subseteq S
  BY <1>1 DEF Range
<1>6. q # <<>> => Last(q) \in Range(q)
  BY <1>1, <1>2, <1>4 DEF Range
<1>7. q = <<>> => Range(q) = {}
  BY <1>1, <1>3 DEF Range
<1> QED
  BY <1>5, <1>6, <1>7

LEMMA EmptyBody == <<>> \in Seq(Tokens) /\ IsInjective(<<>>) /\ Range(<<>>) = {}
<1>1. <<>> \in Seq(Tokens) /\ DOMAIN <<>> = {}
  OBVIOUS
<1> QED
  BY <1>1 DEF IsInjective, Range

LEMMA SetToSeqIs ==
    ASSUME NEW S, IsFiniteSet(S)
    PROVE  /\ SetToSeq(S) \in Seq(S)
           /\ IsInjective(SetToSeq(S))
           /\ Range(SetToSeq(S)) = S
<1> DEFINE n == Cardinality(S)
           q == SetToSeq(S)
<1>1. n \in Nat /\ IsFiniteSet(1 .. n) /\ Cardinality(1 .. n) = n
  BY FS_CardinalityType, FS_Interval
<1>2. \E f \in [1 .. n -> S] : IsInjective(f)
  <2>1. ExistsBijection(1 .. n, S)
    BY <1>1, FS_SameCardinalityBij
  <2> QED
    BY <2>1 DEF ExistsBijection, Bijection, Injection
<1>3. q \in [1 .. n -> S] /\ IsInjective(q)
  BY <1>2 DEF SetToSeq
<1> HIDE DEF n, q
<1>4. q \in Seq(S)
  BY <1>1, <1>3
<1>5. q \in Surjection(1 .. n, S)
  <2>1. q \in Injection(1 .. n, S)
    BY <1>3 DEF Injection
  <2>2. Cardinality(1 .. n) = Cardinality(S)
    BY <1>1 DEF n
  <2> QED
    BY <2>1, <2>2, FS_Injection
<1>6. Range(q) = S
  BY <1>3, <1>5 DEF Surjection, Range
<1> QED
  BY <1>3, <1>4, <1>6 DEF q

-----------------------------------------------------------------------------
(* The selection and who is told of it *)

\* Selecting leaves the document, the scene and the rows of the tree alone.
Aside(s, t) ==
    /\ t.doc = s.doc /\ t.front = s.front /\ t.tree.rows = s.tree.rows
    /\ t.ctl.scene = s.ctl.scene /\ t.ctl.fresh = s.ctl.fresh
    /\ t.ctl.next = s.ctl.next /\ t.ctl.tool = s.ctl.tool
    /\ t.ctl.edgeMode = s.ctl.edgeMode /\ t.ctl.bound = s.ctl.bound
    /\ s.ctl.stack = None => t.ctl.stack = None
    /\ t.wid.body = s.wid.body

\* What is Kept but for what is pointed at.
Framed(s) ==
    /\ s \in States
    /\ Steady(s.wid) /\ Scened(s)
    /\ s.tree.selected \subseteq s.tree.rows

LEMMA StatesAre ==
    ASSUME NEW s \in States
    PROVE  /\ s.doc \in [Docs -> Documents] /\ s.front \in Docs \cup {None}
           /\ s.sel \in [Docs -> Selections] /\ s.ctl \in Controls /\ s.wid \in Widgets
           /\ s.tree \in [rows : SUBSET Rows, selected : SUBSET Rows]
           /\ s.draft \in Drafts \cup {None}
BY DEF States

LEMMA ControlsAre ==
    ASSUME NEW c \in Controls
    PROVE  /\ c.scene \in Scenes \cup {None} /\ c.fresh \in BOOLEAN
           /\ c.next \in 1 .. MaxGeneration + 1 /\ c.tool \in Stages \cup {None}
           /\ c.edgeMode \in BOOLEAN /\ c.stack \in Stacks \cup {None}
           /\ c.contribution \in BOOLEAN /\ c.bound \in SUBSET Items
           /\ c.preview \in BOOLEAN /\ c.degraded \in BOOLEAN
BY DEF Controls

LEMMA WidgetsAre ==
    ASSUME NEW w \in Widgets
    PROVE  /\ w.body \in Generations /\ w.shows \in SUBSET Items
           /\ w.items \in SUBSET (Items \cup {"retired"})
           /\ w.chosen \in SUBSET Tokens /\ w.marks \in SUBSET Tokens
           /\ w.hover \in Tokens \cup {None} /\ w.overlay \in Generations
           /\ w.delta \in Generations
BY DEF Widgets

LEMMA ShowingIs ==
    ASSUME NEW s \in States
    PROVE  /\ Showing(s) \in Generations
           /\ Showing(s) # 0 => s.ctl.scene # None /\ s.ctl.scene \in Scenes
           /\ s.ctl.scene # None => Showing(s) = s.ctl.scene.generation
BY TokenIs, ViewportAssumption DEF States, Controls, Scenes, Showing

LEMMA StackIs ==
    ASSUME NEW stack \in Stacks, stack.active \in DOMAIN stack.candidates
    PROVE  /\ stack.candidates[stack.active] \in Elements
           /\ stack.candidates[stack.active] \in Range(stack.candidates)
           /\ <<stack.generation, stack.candidates[stack.active]>> \in Tokens
           /\ stack # None
BY TokenIs, ViewportAssumption DEF Stacks, Range

LEMMA ClearPreselectionIs ==
    ASSUME NEW s, Framed(s)
    PROVE  LET t == ClearPreselection(s)
           IN  /\ Kept(t) /\ Aside(s, t)
               /\ t.sel = s.sel /\ t.tree = s.tree /\ t.draft = s.draft
               /\ t.ctl = [s.ctl EXCEPT !.stack = None]
               /\ t.wid = [s.wid EXCEPT !.hover = None]
<1> DEFINE t == ClearPreselection(s)
           w == SetPreselection(s.wid, None)
<1>1. s \in States /\ s.ctl \in Controls /\ s.wid \in Widgets /\ Steady(s.wid)
  BY DEF Framed, States
<1>2. t = [s EXCEPT !.ctl = [@ EXCEPT !.stack = None], !.wid = w]
  BY <1>1 DEF ClearPreselection, States
<1>3. w \in Widgets /\ Steady(w) /\ w.hover = None /\ w = [s.wid EXCEPT !.hover = None]
      /\ w.body = s.wid.body
  BY <1>1, SetPreselectionIs
<1>4. [s.ctl EXCEPT !.stack = None] \in Controls
  BY <1>1 DEF Controls
<1> HIDE DEF w
<1>5. /\ t \in States /\ t.doc = s.doc /\ t.front = s.front /\ t.sel = s.sel
      /\ t.tree = s.tree /\ t.draft = s.draft
      /\ t.ctl = [s.ctl EXCEPT !.stack = None] /\ t.wid = w
  BY <1>1, <1>2, <1>3, <1>4 DEF States
<1> HIDE DEF t
<1>6. /\ t.ctl.stack = None /\ t.ctl.scene = s.ctl.scene /\ t.ctl.fresh = s.ctl.fresh
      /\ t.ctl.next = s.ctl.next /\ t.ctl.tool = s.ctl.tool
      /\ t.ctl.edgeMode = s.ctl.edgeMode /\ t.ctl.bound = s.ctl.bound
  BY <1>1, <1>5 DEF Controls
<1>7. Kept(t) /\ Aside(s, t)
  BY <1>1, <1>3, <1>5, <1>6 DEF Kept, Framed, Pointed, Scened, Aside
<1> QED
  BY <1>3, <1>5, <1>7 DEF t

LEMMA FrontIs ==
    ASSUME NEW s \in States, s.front # None
    PROVE  /\ s.front \in Docs /\ Selection(s) \in Selections /\ Part(s) \in Documents
           /\ Selection(s).items \in SUBSET Items /\ Selection(s).body \in Seq(Tokens)
           /\ Selection(s).generation \in Generations
           /\ Range(Selection(s).body) \subseteq Tokens
<1>1. s.front \in Docs /\ Selection(s) \in Selections /\ Part(s) \in Documents
  BY DEF States, Selection, Part
<1>2. /\ Selection(s).items \in SUBSET Items /\ Selection(s).body \in Seq(Tokens)
      /\ Selection(s).generation \in Generations
  BY <1>1 DEF Selections
<1> QED
  BY <1>1, <1>2, SeqRange

LEMMA SelectIs ==
    ASSUME NEW s, Framed(s), s.front # None, NEW x \in Selections
    PROVE  LET t == Select(s, x)
           IN  /\ Framed(t) /\ (Pointed(s) => Pointed(t)) /\ Aside(s, t)
               /\ Selection(t) = x /\ t.sel = [s.sel EXCEPT ![s.front] = x]
               /\ \A d \in Docs : t.sel[d] = (IF d = s.front THEN x ELSE s.sel[d])
               /\ t.ctl = s.ctl /\ t.wid = s.wid /\ t.tree = s.tree /\ t.draft = s.draft
<1> DEFINE t == Select(s, x)
<1>1. s \in States /\ s.front \in Docs
  BY FrontIs DEF Framed
<1>2. /\ t \in States /\ t.doc = s.doc /\ t.front = s.front
      /\ t.sel = [s.sel EXCEPT ![s.front] = x] /\ t.ctl = s.ctl /\ t.wid = s.wid
      /\ t.tree = s.tree /\ t.draft = s.draft
  BY <1>1 DEF States, Select
<1> HIDE DEF t
<1>3. \A d \in Docs : t.sel[d] = (IF d = s.front THEN x ELSE s.sel[d])
  BY <1>1, <1>2 DEF States
<1>4. Selection(t) = x
  BY <1>1, <1>2, <1>3 DEF Selection
<1>5. Framed(t) /\ (Pointed(s) => Pointed(t)) /\ Aside(s, t)
  BY <1>2 DEF Framed, Scened, Aside, Pointed, Showing
<1> QED
  BY <1>2, <1>3, <1>4, <1>5 DEF t

\* What is selected after a step on another selection of the same document.
LEMMA SelectLeased ==
    ASSUME NEW s, Framed(s), s.front # None, NEW x \in Selections,
           \A d \in Docs : s.sel[d].body # <<>> => d = s.front,
           OfBody(x, Showing(s))
    PROVE  Leased(Select(s, x))
<1> DEFINE t == Select(s, x)
<1>1. /\ \A d \in Docs : t.sel[d] = (IF d = s.front THEN x ELSE s.sel[d])
      /\ t.ctl = s.ctl /\ t.front = s.front
  BY SelectIs DEF Aside
<1>2. Showing(t) = Showing(s)
  BY <1>1 DEF Showing
<1> HIDE DEF t
<1> SUFFICES ASSUME NEW d \in Docs
             PROVE  (t.sel[d].body # <<>> => d = t.front) /\ OfBody(t.sel[d], Showing(t))
  BY DEF Leased, t
<1>3. CASE d = s.front
  BY <1>1, <1>2, <1>3
<1>4. CASE d # s.front
  BY <1>1, <1>2, <1>4, EmptyBody DEF OfBody
<1> QED
  BY <1>3, <1>4

LEMMA LeasedIs ==
    ASSUME NEW s \in States, Leased(s), s.front # None
    PROVE  /\ \A d \in Docs : s.sel[d].body # <<>> => d = s.front
           /\ OfBody(Selection(s), Showing(s))
           /\ \A t \in Range(Selection(s).body) :
                t \in Tokens /\ t[1] = Showing(s) /\ Bound(s, t)
           /\ {t \in Range(Selection(s).body) : Bound(s, t)} = Range(Selection(s).body)
<1>1. /\ \A d \in Docs : s.sel[d].body # <<>> => d = s.front
      /\ OfBody(Selection(s), Showing(s))
  BY FrontIs DEF Leased, Selection
<1>2. ASSUME NEW t \in Range(Selection(s).body)
      PROVE  t \in Tokens /\ t[1] = Showing(s) /\ Bound(s, t)
  <2>1. t \in Tokens /\ t[1] = Showing(s) /\ t[1] # 0
    BY <1>1, FrontIs, TokenIs DEF OfBody
  <2> QED
    BY <2>1, ShowingIs DEF Bound
<1>3. {t \in Range(Selection(s).body) : Bound(s, t)} = Range(Selection(s).body)
  BY <1>2
<1> QED
  BY <1>1, <1>2, <1>3

\* What the widget shows of the selection.
Shown(s) == {t \in Range(Selection(s).body) : Bound(s, t)}

LEMMA ApplySelectionToSurfacesIs ==
    ASSUME NEW s, Kept(s), s.front # None
    PROVE  LET t == ApplySelectionToSurfaces(s)
           IN  /\ Kept(t) /\ Aside(s, t)
               /\ t.sel = s.sel /\ t.ctl = s.ctl /\ t.draft = s.draft
               /\ t.tree.selected = (s.tree.selected \ Items)
                                    \cup (Selection(s).items \cap s.tree.rows)
               /\ t.wid.items = Selection(s).items \cap s.ctl.bound
               /\ t.wid.chosen = Shown(s)
               /\ t.wid.marks = IF /\ s.wid.body # 0 /\ t.wid.items = {}
                                   /\ \A k \in Shown(s) : k[1] = s.wid.body
                                THEN Shown(s) ELSE {}
<1> DEFINE t == ApplySelectionToSurfaces(s)
           items == Selection(s).items \cap s.ctl.bound
           w == SetPresentationSelection(s.wid, items, Shown(s))
           selected == (s.tree.selected \ Items) \cup (Selection(s).items \cap s.tree.rows)
<1>1. s \in States /\ s.ctl \in Controls /\ s.wid \in Widgets /\ Steady(s.wid)
      /\ s.tree \in [rows : SUBSET Rows, selected : SUBSET Rows]
      /\ s.tree.selected \subseteq s.tree.rows
  BY DEF Kept, States
<1>2. t = [s EXCEPT !.tree = [@ EXCEPT !.selected = selected], !.wid = w]
  <2>1. t = [s EXCEPT !.tree.selected = selected, !.wid = w]
    BY DEF ApplySelectionToSurfaces, Shown
  <2> HIDE DEF t, selected, w
  <2> QED
    BY <1>1, <2>1 DEF States
<1>3. items \in SUBSET Items /\ Shown(s) \in SUBSET Tokens /\ selected \subseteq s.tree.rows
  BY <1>1, FrontIs DEF Shown, Controls
<1>4. /\ w \in Widgets /\ Steady(w)
      /\ w.body = s.wid.body /\ w.shows = s.wid.shows /\ w.hover = s.wid.hover
      /\ w.items = items /\ w.chosen = Shown(s)
      /\ w.marks = IF s.wid.body # 0 /\ items = {} /\ \A k \in Shown(s) : k[1] = s.wid.body
                   THEN Shown(s) ELSE {}
  BY <1>1, <1>3, SetPresentationSelectionIs
<1> HIDE DEF w, selected
<1>5. /\ t \in States /\ t.doc = s.doc /\ t.front = s.front /\ t.sel = s.sel
      /\ t.ctl = s.ctl /\ t.draft = s.draft /\ t.wid = w
      /\ t.tree.rows = s.tree.rows /\ t.tree.selected = selected
  <2> HIDE DEF t
  <2>1. [s.tree EXCEPT !.selected = selected] \in [rows : SUBSET Rows, selected : SUBSET Rows]
    BY <1>1, <1>3
  <2> QED
    BY <1>1, <1>2, <1>4, <2>1 DEF States
<1> HIDE DEF t
<1>6. Kept(t) /\ Aside(s, t)
  BY <1>3, <1>4, <1>5 DEF Kept, Pointed, Scened, Showing, Aside
<1> QED
  BY <1>4, <1>5, <1>6 DEF t, selected

\* The draft and the leases are about what is selected and the scene.
LEMMA AsideKeeps ==
    ASSUME NEW s, NEW t, Aside(s, t), t.sel = s.sel
    PROVE  /\ Selection(t) = Selection(s) /\ Showing(t) = Showing(s)
           /\ SelectedEdges(t) = SelectedEdges(s) /\ Shown(t) = Shown(s)
           /\ Leased(s) => Leased(t)
           /\ t.draft = s.draft => (Staged(s) => Staged(t)) /\ (Drafted(s) => Drafted(t))
<1>1. Selection(t) = Selection(s)
  BY DEF Aside, Selection
<1>2. Showing(t) = Showing(s)
  BY DEF Aside, Showing
<1>3. \A k : Bound(t, k) <=> Bound(s, k)
  BY DEF Aside, Bound
<1>4. Authoring(t) <=> Authoring(s)
  BY DEF Aside, Authoring
<1>5. SelectedEdges(t) = SelectedEdges(s)
  BY <1>1, <1>3, <1>4 DEF SelectedEdges, Aside
<1>6. Shown(t) = Shown(s)
  BY <1>1, <1>3 DEF Shown
<1>7. Leased(s) => Leased(t)
  BY <1>2 DEF Leased, Aside
<1>8. t.draft = s.draft => (Staged(s) => Staged(t))
  BY DEF Staged, Aside
<1>9. t.draft = s.draft => (Drafted(s) => Drafted(t))
  BY <1>5, <1>8 DEF Drafted
<1> QED
  BY <1>1, <1>2, <1>5, <1>6, <1>7, <1>8, <1>9

LEMMA AsideIs ==
    /\ \A s : Aside(s, s)
    /\ \A s, t, u : Aside(s, t) /\ Aside(t, u) => Aside(s, u)
BY DEF Aside

LEMMA ContributionIs ==
    ASSUME NEW s \in States
    PROVE  /\ Contribution(s) \in Generations
           /\ ~s.ctl.contribution => Contribution(s) = 0
<1>1. s.ctl.scene # None => s.ctl.scene.generation \in Generations
  BY ViewportAssumption DEF States, Controls, Scenes
<1> QED
  BY <1>1, TokenIs DEF Contribution

LEMMA SetFeatureContributionIs ==
    ASSUME NEW s, Kept(s), NEW on \in BOOLEAN
    PROVE  LET t == SetFeatureContribution(s, on)
           IN  /\ Kept(t) /\ Aside(s, t)
               /\ t.sel = s.sel /\ t.tree = s.tree /\ t.draft = s.draft
               /\ t.ctl.contribution = on
               /\ t.wid.items = s.wid.items /\ t.wid.chosen = s.wid.chosen
               /\ t.wid.marks = s.wid.marks
<1> DEFINE t == SetFeatureContribution(s, on)
           u == [s EXCEPT !.ctl.contribution = on]
           w == SetOverlay(s.wid, Contribution(u))
           worse == s.ctl.degraded \/ ~OverlayAccepted(s.wid, Contribution(u))
<1>1. /\ s \in States /\ s.ctl \in Controls /\ s.wid \in Widgets /\ Steady(s.wid)
  BY DEF Kept, States
<1>2. CASE s.ctl.contribution = on
  BY <1>2, AsideIs DEF SetFeatureContribution
<1>3. CASE s.ctl.contribution # on
  <2>1. /\ u \in States /\ u.wid = s.wid /\ u.doc = s.doc /\ u.front = s.front
        /\ u.sel = s.sel /\ u.tree = s.tree /\ u.draft = s.draft
        /\ u.ctl = [s.ctl EXCEPT !.contribution = on]
    <3>1. [s.ctl EXCEPT !.contribution = on] \in Controls
      BY <1>1 DEF Controls
    <3>2. u = [s EXCEPT !.ctl = [s.ctl EXCEPT !.contribution = on]]
      BY <1>1 DEF States
    <3> HIDE DEF u
    <3> QED
      BY <1>1, <3>1, <3>2 DEF States
  <2>2. t = [ApplyFeatureContributionOverlay(u) EXCEPT
                !.ctl.degraded = @ \/ ~OverlayAccepted(u.wid, Contribution(u))]
    BY <1>3 DEF SetFeatureContribution
  <2>3. ApplyFeatureContributionOverlay(u) = [u EXCEPT !.wid = w]
    BY <2>1 DEF ApplyFeatureContributionOverlay
  <2> HIDE DEF u
  <2>4. /\ w \in Widgets /\ Steady(w)
        /\ w.body = s.wid.body /\ w.shows = s.wid.shows /\ w.items = s.wid.items
        /\ w.chosen = s.wid.chosen /\ w.marks = s.wid.marks /\ w.hover = s.wid.hover
    BY <1>1, <2>1, ContributionIs, SetOverlayIs
  <2> DEFINE c == [s.ctl EXCEPT !.contribution = on, !.degraded = worse]
  <2>5. /\ c \in Controls /\ c.scene = s.ctl.scene /\ c.fresh = s.ctl.fresh
        /\ c.next = s.ctl.next /\ c.tool = s.ctl.tool /\ c.edgeMode = s.ctl.edgeMode
        /\ c.bound = s.ctl.bound /\ c.stack = s.ctl.stack /\ c.contribution = on
    <3> HIDE DEF worse
    <3>1. c \in Controls <=> worse \in BOOLEAN
      BY <1>1 DEF Controls
    <3>2. worse \in BOOLEAN
      BY DEF worse
    <3> QED
      BY <1>1, <3>1, <3>2 DEF Controls
  <2> HIDE DEF w
  <2>6. /\ t \in States /\ t.doc = s.doc /\ t.front = s.front /\ t.sel = s.sel
        /\ t.tree = s.tree /\ t.draft = s.draft /\ t.wid = w /\ t.ctl = c
    <3>1. t = [u EXCEPT !.wid = w, !.ctl = c]
      <4>1. /\ u.wid = s.wid /\ u.ctl.degraded = s.ctl.degraded
            /\ [u EXCEPT !.wid = w].ctl = u.ctl
        BY <1>1, <2>1 DEF States, Controls
      <4>2. [u.ctl EXCEPT !.degraded = worse] = c
        BY <1>1, <2>1 DEF Controls
      <4> HIDE DEF worse, c
      <4>3. t = [[u EXCEPT !.wid = w] EXCEPT !.ctl.degraded = worse]
        BY <2>1, <2>2, <2>3, <4>1 DEF worse, States
      <4> HIDE DEF t
      <4> QED
        BY <2>1, <4>1, <4>2, <4>3 DEF States
    <3> HIDE DEF t, c
    <3> QED
      BY <2>1, <2>4, <2>5, <3>1 DEF States
  <2> HIDE DEF t, c
  <2>7. Kept(t) /\ Aside(s, t)
    BY <2>4, <2>5, <2>6 DEF Kept, Pointed, Scened, Showing, Aside
  <2> QED
    BY <2>4, <2>5, <2>6, <2>7 DEF t
<1> QED
  BY <1>1, <1>2, <1>3 DEF Controls

LEMMA WithSelectedIs ==
    ASSUME NEW s, Kept(s), NEW rows \in SUBSET Rows, rows \subseteq s.tree.rows
    PROVE  LET t == [s EXCEPT !.tree.selected = rows]
           IN  /\ Kept(t) /\ Aside(s, t)
               /\ t.sel = s.sel /\ t.ctl = s.ctl /\ t.wid = s.wid /\ t.draft = s.draft
               /\ t.tree.selected = rows
<1> DEFINE t == [s EXCEPT !.tree.selected = rows]
<1>1. s \in States /\ s.tree \in [rows : SUBSET Rows, selected : SUBSET Rows]
  BY DEF Kept, States
<1>2. /\ t \in States /\ t.doc = s.doc /\ t.front = s.front /\ t.sel = s.sel
      /\ t.ctl = s.ctl /\ t.draft = s.draft /\ t.wid = s.wid
      /\ t.tree.rows = s.tree.rows /\ t.tree.selected = rows
  BY <1>1 DEF States
<1> HIDE DEF t
<1>3. Kept(t) /\ Aside(s, t)
  BY <1>2 DEF Kept, Pointed, Scened, Showing, Aside
<1> QED
  BY <1>2, <1>3 DEF t

LEMMA NotifyTreeIs ==
    ASSUME NEW s, Kept(s)
    PROVE  LET t == NotifyTree(s)
           IN  /\ Kept(t) /\ Aside(s, t)
               /\ t.sel = s.sel /\ t.draft = s.draft
               /\ t.wid.items = s.wid.items /\ t.wid.chosen = s.wid.chosen
               /\ t.wid.marks = s.wid.marks
               /\ \/ t = s
                  \/ t.tree.selected = {} /\ ~t.ctl.contribution
               /\ Leased(s) /\ s.front # None /\ Selection(s).body # <<>> =>
                    t.tree.selected = {} /\ ~t.ctl.contribution
<1> DEFINE u == [s EXCEPT !.tree.selected = {}]
<1>1. CASE s.front # None /\ Selection(s).body # <<>> /\ Bound(s, Primary(s))
  <2>1. NotifyTree(s) = SetFeatureContribution(u, FALSE)
    BY <1>1 DEF NotifyTree
  <2>2. /\ Kept(u) /\ Aside(s, u) /\ u.sel = s.sel /\ u.ctl = s.ctl /\ u.wid = s.wid
        /\ u.draft = s.draft /\ u.tree.selected = {}
    BY WithSelectedIs
  <2> DEFINE t == SetFeatureContribution(u, FALSE)
  <2> HIDE DEF u
  <2>3. /\ Kept(t) /\ Aside(u, t)
        /\ t.sel = u.sel /\ t.tree = u.tree /\ t.draft = u.draft
        /\ t.ctl.contribution = FALSE
        /\ t.wid.items = u.wid.items /\ t.wid.chosen = u.wid.chosen
        /\ t.wid.marks = u.wid.marks
    BY <2>2, SetFeatureContributionIs
  <2> HIDE DEF t
  <2>4. NotifyTree(s) = t
    BY <2>1 DEF t
  <2>5. ~t.ctl.contribution /\ t.tree.selected = {} /\ Aside(s, t)
    BY <2>2, <2>3, AsideIs
  <2> QED
    BY <2>2, <2>3, <2>4, <2>5
<1>2. CASE ~(s.front # None /\ Selection(s).body # <<>> /\ Bound(s, Primary(s)))
  <2>1. NotifyTree(s) = s
    BY <1>2 DEF NotifyTree
  <2>2. ~(Leased(s) /\ s.front # None /\ Selection(s).body # <<>>)
    <3> SUFFICES ASSUME Leased(s), s.front # None, Selection(s).body # <<>> PROVE FALSE
      OBVIOUS
    <3>1. Primary(s) \in Range(Selection(s).body)
      BY FrontIs, SeqRange DEF Primary, Kept
    <3> QED
      BY <1>2, <3>1, LeasedIs DEF Kept
  <2> QED
    BY <2>1, <2>2, AsideIs
<1> QED
  BY <1>1, <1>2

\* The selection is shown, and the tree has yielded to it.
LEMMA SurfacesTold ==
    ASSUME NEW s, Kept(s), Leased(s), s.front # None
    PROVE  LET t == NotifyTree(ApplySelectionToSurfaces(s))
           IN  /\ Kept(t) /\ Leased(t) /\ Told(t) /\ Aside(s, t)
               /\ t.sel = s.sel /\ t.draft = s.draft
               /\ Shows(s) => Agreed(t)
<1> DEFINE u == ApplySelectionToSurfaces(s)
           t == NotifyTree(u)
           x == Selection(s)
<1>1. /\ Kept(u) /\ Aside(s, u) /\ u.sel = s.sel /\ u.ctl = s.ctl /\ u.draft = s.draft
      /\ u.tree.selected = (s.tree.selected \ Items) \cup (x.items \cap s.tree.rows)
      /\ u.wid.items = x.items \cap s.ctl.bound
      /\ u.wid.chosen = Shown(s)
      /\ u.wid.marks = IF /\ s.wid.body # 0 /\ u.wid.items = {}
                          /\ \A k \in Shown(s) : k[1] = s.wid.body
                       THEN Shown(s) ELSE {}
  BY ApplySelectionToSurfacesIs
<1> HIDE DEF u
<1>2. Selection(u) = x /\ Leased(u) /\ u.front = s.front
  BY <1>1, AsideKeeps DEF Aside
<1>3. /\ Kept(t) /\ Aside(u, t) /\ t.sel = u.sel /\ t.draft = u.draft
      /\ t.wid.items = u.wid.items /\ t.wid.chosen = u.wid.chosen
      /\ t.wid.marks = u.wid.marks
      /\ t = u \/ (t.tree.selected = {} /\ ~t.ctl.contribution)
      /\ x.body # <<>> => t.tree.selected = {} /\ ~t.ctl.contribution
  BY <1>1, <1>2, NotifyTreeIs
<1>4. x.body = <<>> => t = u
  BY <1>2 DEF NotifyTree
<1> HIDE DEF t
<1>5. Selection(t) = x /\ Leased(t) /\ t.front = s.front
  BY <1>2, <1>3, AsideKeeps DEF Aside
<1>6. Aside(s, t)
  BY <1>1, <1>3, AsideIs
<1>7. Told(t)
  BY <1>3, <1>5 DEF Told
<1>8. ASSUME Shows(s) PROVE Agreed(t)
  <2>1. /\ Shown(s) = Range(x.body) /\ x.items \subseteq Items
        /\ \A k \in Range(x.body) : k[1] = Showing(s) /\ k[1] # 0
    BY LeasedIs, FrontIs, TokenIs DEF Kept, Shown
  <2>2. /\ t.wid.items = x.items \cap t.ctl.bound /\ t.wid.chosen = Range(x.body)
        /\ t.wid.body = s.wid.body
    BY <1>1, <1>3, <1>6, <2>1 DEF Aside
  <2>3. x.items = {} => t.wid.items = {} /\ (t.wid.body # 0 => t.wid.marks = t.wid.chosen)
    <3> SUFFICES ASSUME x.items = {}
                 PROVE  t.wid.items = {} /\ (t.wid.body # 0 => t.wid.marks = t.wid.chosen)
      OBVIOUS
    <3>1. t.wid.items = {} /\ u.wid.items = {}
      BY <1>3, <2>2
    <3>2. s.wid.body # 0 => \A k \in Shown(s) : k[1] = s.wid.body
      BY <1>8, <2>1 DEF Shows
    <3> QED
      BY <1>1, <1>3, <2>2, <3>1, <3>2
  <2>4. IF x.body = <<>>
        THEN t.tree.selected \cap Items = x.items \cap t.tree.rows
        ELSE t.tree.selected \subseteq x.items /\ ~t.ctl.contribution
    <3>1. CASE x.body = <<>>
      <4>1. t.tree.rows = s.tree.rows /\ t.tree.selected = u.tree.selected
        BY <1>4, <1>6, <3>1 DEF Aside
      <4>2. \A old, new, rows : new \subseteq Items =>
                ((old \ Items) \cup (new \cap rows)) \cap Items = new \cap rows
        OBVIOUS
      <4>3. u.tree.selected \cap Items = x.items \cap s.tree.rows
        <5> HIDE DEF x
        <5> QED
          BY <1>1, <2>1, <4>2
      <4> QED
        BY <3>1, <4>1, <4>3
    <3>2. CASE x.body # <<>>
      BY <1>3, <3>2
    <3> QED
      BY <3>1, <3>2
  <2> QED
    BY <1>5, <2>2, <2>3, <2>4 DEF Agreed
<1> QED
  BY <1>1, <1>3, <1>5, <1>6, <1>7, <1>8 DEF t, u

LEMMA RefreshEdgePreviewIs ==
    ASSUME NEW s, Kept(s)
    PROVE  LET t == RefreshEdgePreview(s)
           IN  /\ Kept(t) /\ Aside(s, t)
               /\ t.sel = s.sel /\ t.ctl = s.ctl /\ t.tree = s.tree /\ t.draft = s.draft
               /\ t.wid.items = s.wid.items /\ t.wid.chosen = s.wid.chosen
               /\ t.wid.marks = s.wid.marks
<1> DEFINE t == RefreshEdgePreview(s)
<1>1. s \in States /\ s.wid \in Widgets
  BY DEF Kept, States
<1>2. PICK delta \in {0, s.wid.body} : t = [s EXCEPT !.wid.delta = delta]
  BY DEF RefreshEdgePreview
<1> DEFINE w == [s.wid EXCEPT !.delta = delta]
<1>3. /\ w \in Widgets /\ w.body = s.wid.body /\ w.items = s.wid.items
      /\ w.chosen = s.wid.chosen /\ w.marks = s.wid.marks /\ w.hover = s.wid.hover
      /\ w.overlay = s.wid.overlay /\ w.delta = delta
  BY <1>1, TokenIs DEF Widgets
<1> HIDE DEF t
<1>4. t = [s EXCEPT !.wid = w]
  BY <1>1, <1>2 DEF States
<1> HIDE DEF w
<1>5. /\ t \in States /\ t.doc = s.doc /\ t.front = s.front /\ t.sel = s.sel
      /\ t.ctl = s.ctl /\ t.tree = s.tree /\ t.draft = s.draft /\ t.wid = w
  BY <1>1, <1>3, <1>4 DEF States
<1>6. Kept(t) /\ Aside(s, t)
  BY <1>3, <1>5 DEF Kept, Steady, Pointed, Scened, Showing, Aside
<1> QED
  BY <1>3, <1>5, <1>6 DEF t

-----------------------------------------------------------------------------
(* The edge draft *)

LEMMA SceneIs ==
    ASSUME NEW s \in States, s.ctl.scene # None
    PROVE  /\ s.ctl.scene.revision \in Nat /\ s.ctl.scene.generation \in Generations
           /\ s.ctl.scene.stage \in Stages
           /\ s.ctl.scene.purpose \in {"current_body", "tool_stage", "diagnostic_prefix"}
BY DEF States, Controls, Scenes

LEMMA DraftIs ==
    ASSUME NEW s \in States, s.draft # None
    PROVE  /\ s.draft \in Drafts /\ s.draft.edges \in References
           /\ s.draft.unresolved \in References /\ s.draft.edit \in BOOLEAN
           /\ s.draft.stage \in Stages
BY DEF States, Drafts

\* The selected edges are of the stage of the scene.
LEMMA SelectedEdgesAre ==
    ASSUME NEW s \in States, s.front # None
    PROVE  /\ SelectedEdges(s) \in References
           /\ SelectedEdges(s) # {} =>
                /\ s.ctl.scene # None /\ s.ctl.scene.generation # 0 /\ Authoring(s)
                /\ OfStage(SelectedEdges(s), s.ctl.scene.stage)
           /\ Selection(s).body = <<>> => SelectedEdges(s) = {}
<1>1. CASE /\ Authoring(s) /\ s.ctl.scene.generation # 0
           /\ \A t \in Range(Selection(s).body) : Bound(s, t) /\ t[2] \in Edges
  <2>1. SelectedEdges(s) = {<<s.ctl.scene.stage, t[2]>> : t \in Range(Selection(s).body)}
    BY <1>1 DEF SelectedEdges
  <2>2. s.ctl.scene # None
    BY <1>1 DEF Authoring
  <2>3. s.ctl.scene.stage \in Stages
    BY <2>2, SceneIs
  <2>4. SelectedEdges(s) \in References
    BY <1>1, <2>1, <2>3 DEF References, Elements
  <2>5. OfStage(SelectedEdges(s), s.ctl.scene.stage)
    BY <2>1 DEF OfStage
  <2>6. Selection(s).body = <<>> => SelectedEdges(s) = {}
    BY <2>1, EmptyBody
  <2> QED
    BY <1>1, <2>2, <2>4, <2>5, <2>6
<1>2. CASE ~(/\ Authoring(s) /\ s.ctl.scene.generation # 0
             /\ \A t \in Range(Selection(s).body) : Bound(s, t) /\ t[2] \in Edges)
  <2>1. SelectedEdges(s) = {}
    BY <1>2 DEF SelectedEdges
  <2> QED
    BY <2>1 DEF References
<1> QED
  BY <1>1, <1>2

\* The edges that are on the body that is shown are selected, and no others.
LEMMA RestoreMaterialEdgesIs ==
    ASSUME NEW s, Kept(s), Leased(s), s.front # None, CanRestore(s),
           NEW edges \in References
    PROVE  LET t == RestoreMaterialEdges(s, edges)
           IN  /\ Kept(t) /\ Leased(t) /\ Told(t) /\ Aside(s, t)
               /\ t.draft = s.draft
               /\ SelectedEdges(t) = Resolved(s, edges)
               /\ Shows(s) => Agreed(t)
<1> DEFINE g == s.ctl.scene.generation
           tokens == {<<g, e[2]>> : e \in Resolved(s, edges)}
           x == [Selection(s) EXCEPT !.body = SetToSeq(tokens),
                                     !.generation = IF tokens = {} THEN 0 ELSE g]
           u == Select(s, x)
           t == RestoreMaterialEdges(s, edges)
<1>1. /\ s \in States /\ s.ctl.scene # None /\ g \in 1 .. MaxGeneration
      /\ Selection(s) \in Selections /\ g = Showing(s)
  BY FrontIs, SceneIs, TokenIs DEF CanRestore, Kept, Showing, Generations
<1>2. \A e \in Resolved(s, edges) :
        e = <<s.ctl.scene.stage, e[2]>> /\ e[2] \in Edges
  BY DEF Resolved, References
<1>3. tokens \in SUBSET Tokens /\ \A k \in tokens : k[1] = g /\ k[2] \in Edges
  BY <1>1, <1>2, TokenIs DEF Elements
<1>4. IsFiniteSet(tokens)
  <2>1. IsFiniteSet({g} \X Edges)
    BY FS_Singleton, FS_Product, ViewportAssumption
  <2>2. tokens \in SUBSET ({g} \X Edges)
    BY <1>2
  <2> HIDE DEF tokens
  <2> QED
    BY <2>1, <2>2, FS_Subset
<1>5. {<<s.ctl.scene.stage, k[2]>> : k \in tokens} = Resolved(s, edges)
  <2>1. ASSUME NEW e \in Resolved(s, edges)
        PROVE  \E k \in tokens : e = <<s.ctl.scene.stage, k[2]>>
    <3>1. <<g, e[2]>> \in tokens /\ <<g, e[2]>>[2] = e[2]
      OBVIOUS
    <3>2. e = <<s.ctl.scene.stage, e[2]>>
      BY <1>2
    <3> HIDE DEF tokens
    <3> QED
      BY <3>1, <3>2
  <2>2. \A k \in tokens : <<s.ctl.scene.stage, k[2]>> \in Resolved(s, edges)
    BY <1>2
  <2> HIDE DEF tokens
  <2> QED
    BY <2>1, <2>2
<1> HIDE DEF tokens
<1>6. /\ SetToSeq(tokens) \in Seq(tokens) /\ IsInjective(SetToSeq(tokens))
      /\ Range(SetToSeq(tokens)) = tokens
  BY <1>4, SetToSeqIs
<1>7. SetToSeq(tokens) \in Seq(Tokens) /\ (SetToSeq(tokens) # <<>> => tokens # {})
  <2>1. SetToSeq(tokens) \in Seq(Tokens)
    BY <1>3, <1>6
  <2> QED
    BY <1>6, <2>1, SeqRange
<1> DEFINE body == SetToSeq(tokens)
<1> HIDE DEF body
<1>8. /\ x \in Selections /\ x.body = body
      /\ x.items = Selection(s).items /\ x.generation = (IF tokens = {} THEN 0 ELSE g)
  BY <1>1, <1>7, TokenIs DEF Selections, Generations, body
<1> HIDE DEF x
<1>9. OfBody(x, Showing(s))
  BY <1>1, <1>3, <1>6, <1>7, <1>8 DEF OfBody, body
<1>10. /\ Kept(u) /\ Aside(s, u) /\ Selection(u) = x /\ u.ctl = s.ctl
       /\ u.wid = s.wid /\ u.tree = s.tree /\ u.draft = s.draft
  BY <1>8, SelectIs DEF Kept, Framed
<1>11. Leased(u)
  BY <1>1, <1>8, <1>9, LeasedIs, SelectLeased DEF Kept, Framed
<1>12. t = NotifyTree(ApplySelectionToSurfaces(u))
  BY DEF RestoreMaterialEdges, tokens, x
<1> HIDE DEF u
<1>13. /\ Kept(t) /\ Leased(t) /\ Told(t) /\ Aside(u, t)
       /\ t.sel = u.sel /\ t.draft = u.draft
       /\ Shows(u) => Agreed(t)
  BY <1>10, <1>11, <1>12, SurfacesTold DEF Aside
<1> HIDE DEF t
<1>14. /\ Selection(t) = x /\ Aside(s, t) /\ (Shows(s) => Shows(u))
       /\ SelectedEdges(t) = SelectedEdges(u)
  BY <1>10, <1>13, AsideKeeps, AsideIs DEF Shows, Showing
<1>15. SelectedEdges(u) = Resolved(s, edges)
  <2>1. Authoring(u) /\ u.ctl.scene.generation # 0
    BY <1>10 DEF CanRestore, Authoring
  <2>2. Range(Selection(u).body) = tokens
    BY <1>6, <1>8, <1>10 DEF body
  <2>3. \A k \in tokens : Bound(u, k) /\ k[2] \in Edges
    BY <1>1, <1>3, <1>10, TokenIs DEF Bound
  <2>4. SelectedEdges(u) = {<<u.ctl.scene.stage, k[2]>> : k \in tokens}
    BY <2>1, <2>2, <2>3 DEF SelectedEdges
  <2> QED
    BY <1>5, <1>10, <2>4
<1> QED
  BY <1>10, <1>13, <1>14, <1>15 DEF t

\* What is selected and what shows it stays as it is.
Undisturbed(s, t) ==
    /\ Aside(s, t) /\ t.sel = s.sel
    /\ t.tree.selected = s.tree.selected /\ t.ctl.contribution = s.ctl.contribution
    /\ t.wid.items = s.wid.items /\ t.wid.chosen = s.wid.chosen
    /\ t.wid.marks = s.wid.marks

LEMMA UndisturbedKeeps ==
    ASSUME NEW s, NEW t, Undisturbed(s, t)
    PROVE  /\ Selection(t) = Selection(s) /\ SelectedEdges(t) = SelectedEdges(s)
           /\ Leased(s) => Leased(t)
           /\ Told(s) => Told(t)
           /\ Agreed(s) => Agreed(t)
           /\ t.draft = s.draft => (Staged(s) => Staged(t)) /\ (Drafted(s) => Drafted(t))
<1>1. Selection(t) = Selection(s) /\ SelectedEdges(t) = SelectedEdges(s)
      /\ (Leased(s) => Leased(t))
      /\ (t.draft = s.draft => (Staged(s) => Staged(t)) /\ (Drafted(s) => Drafted(t)))
  BY AsideKeeps DEF Undisturbed
<1>2. Told(s) => Told(t)
  BY <1>1 DEF Told, Undisturbed, Aside
<1>3. Agreed(s) => Agreed(t)
  BY <1>1 DEF Agreed, Undisturbed, Aside
<1> QED
  BY <1>1, <1>2, <1>3

\* So do the scene and the rows of the tree.
LEMMA AsideShows ==
    ASSUME NEW s, NEW t, Aside(s, t)
    PROVE  /\ Shows(s) => Shows(t)
           /\ Current(s) => Current(t)
           /\ Rowed(s) => Rowed(t)
BY DEF Aside, Shows, Showing, Current, Part, Rowed

LEMMA WithDraftIs ==
    ASSUME NEW s, Kept(s), NEW d \in Drafts \cup {None}
    PROVE  LET t == [s EXCEPT !.draft = d]
           IN  /\ Kept(t) /\ Undisturbed(s, t) /\ t.draft = d
               /\ t.ctl = s.ctl /\ t.wid = s.wid /\ t.tree = s.tree
<1> DEFINE t == [s EXCEPT !.draft = d]
<1>1. /\ t \in States /\ t.doc = s.doc /\ t.front = s.front /\ t.sel = s.sel
      /\ t.ctl = s.ctl /\ t.tree = s.tree /\ t.wid = s.wid /\ t.draft = d
  BY DEF Kept, States
<1> HIDE DEF t
<1>2. Kept(t) /\ Undisturbed(s, t)
  BY <1>1 DEF Kept, Pointed, Scened, Showing, Aside, Undisturbed
<1> QED
  BY <1>1, <1>2 DEF t

LEMMA RefreshUndisturbed ==
    ASSUME NEW s, Kept(s)
    PROVE  LET t == RefreshEdgePreview(s)
           IN  Kept(t) /\ Undisturbed(s, t) /\ t.draft = s.draft
BY RefreshEdgePreviewIs DEF Undisturbed

\* The draft takes the selected edges, or gives the selection up for those it
\* had.
LEMMA StageEdgesIs ==
    ASSUME NEW s, Kept(s), Leased(s), Told(s), Staged(s), s.draft # None
    PROVE  LET t == StageEdges(s)
           IN  /\ Good(t) /\ Aside(s, t) /\ t.draft # None
               /\ Shows(s) /\ Agreed(s) => Agreed(t)
               /\ Selection(s).body = <<>> => t.sel = s.sel
<1> DEFINE edges == SelectedEdges(s) \cup Unfound(s.draft)
           t == StageEdges(s)
           old == s.draft
<1>1. /\ s \in States /\ s.front # None /\ s.ctl.edgeMode
      /\ OfStage(old.edges, old.stage) /\ OfStage(old.unresolved, old.stage)
      /\ old \in Drafts /\ old.edges \in References /\ old.unresolved \in References
  BY DraftIs DEF Staged, Kept
<1>2. /\ edges \in References /\ OfStage(Unfound(old), old.stage)
  BY <1>1, SelectedEdgesAre DEF Unfound, References, OfStage
<1>3. CASE OfStage(edges, old.stage)
  <2> DEFINE d == [old EXCEPT !.edges = edges]
             u == [s EXCEPT !.draft = d]
  <2>1. t = RefreshEdgePreview(u)
    <3>1. t = RefreshEdgePreview([s EXCEPT !.draft.edges = edges])
      BY <1>3 DEF StageEdges, Unfound
    <3>2. [s EXCEPT !.draft.edges = edges] = u
      BY <1>1 DEF States
    <3> QED
      BY <3>1, <3>2
  <2>2. /\ d \in Drafts /\ d.edges = edges /\ d.stage = old.stage
        /\ d.unresolved = old.unresolved /\ d.edit = old.edit
    BY <1>1, <1>2 DEF Drafts
  <2>3. d # None
    BY <2>2, ViewportAssumption
  <2> HIDE DEF d
  <2>4. /\ Kept(u) /\ Undisturbed(s, u) /\ u.draft = d /\ u.ctl = s.ctl
    BY <2>2, WithDraftIs
  <2> HIDE DEF u
  <2>5. SelectedEdges(u) = SelectedEdges(s) /\ Leased(u) /\ Told(u)
        /\ (Agreed(s) => Agreed(u)) /\ Aside(s, u) /\ u.sel = s.sel
    BY <2>4, UndisturbedKeeps DEF Undisturbed
  <2>6. Staged(u)
    <3>1. u.front # None /\ u.ctl.edgeMode /\ OfStage(d.edges, d.stage)
          /\ OfStage(d.unresolved, d.stage)
      BY <1>1, <1>3, <2>2, <2>5 DEF Aside
    <3>2. ASSUME ~d.edit, u.ctl.scene # None, u.ctl.scene.stage # d.stage
          PROVE  d.edges = {}
      <4>1. edges = SelectedEdges(s)
        BY <2>2, <3>2 DEF Unfound
      <4>2. SelectedEdges(s) # {} => OfStage(SelectedEdges(s), s.ctl.scene.stage)
        BY <1>1, SelectedEdgesAre
      <4> QED
        BY <1>3, <2>2, <2>4, <3>2, <4>1, <4>2 DEF OfStage
    <3> QED
      BY <2>4, <3>1, <3>2 DEF Staged
  <2>7. Drafted(u)
    BY <2>2, <2>4, <2>5, <2>6 DEF Drafted, Unfound
  <2>8. Kept(t) /\ Undisturbed(u, t) /\ t.draft = d
    BY <2>1, <2>4, RefreshUndisturbed
  <2> HIDE DEF t
  <2>9. Good(t) /\ Aside(s, t) /\ (Agreed(s) => Agreed(t)) /\ t.sel = s.sel
    BY <2>4, <2>5, <2>7, <2>8, UndisturbedKeeps, AsideIs DEF Good, Undisturbed
  <2> QED
    BY <2>3, <2>8, <2>9 DEF t
<1>4. CASE ~OfStage(edges, old.stage)
  <2>1. /\ SelectedEdges(s) # {} /\ s.ctl.scene # None /\ s.ctl.scene.generation # 0
        /\ Authoring(s) /\ s.ctl.scene.stage # old.stage
        /\ Selection(s).body # <<>>
    <3>1. ~OfStage(SelectedEdges(s), old.stage)
      BY <1>2, <1>4 DEF OfStage
    <3>2. SelectedEdges(s) # {}
      BY <3>1 DEF OfStage
    <3> QED
      BY <1>1, <3>1, <3>2, SelectedEdgesAre
  <2>2. CanRestore(s)
    BY <1>1, <2>1 DEF CanRestore, Authoring
  <2>3. Resolved(s, old.edges) = {}
    BY <1>1, <2>1 DEF Resolved, OfStage
  <2> DEFINE u == RestoreMaterialEdges(s, old.edges)
             d == [old EXCEPT !.unresolved = old.edges]
  <2>4. /\ Kept(u) /\ Leased(u) /\ Told(u) /\ Aside(s, u) /\ u.draft = old
        /\ SelectedEdges(u) = {} /\ (Shows(s) => Agreed(u))
    BY <1>1, <2>2, <2>3, RestoreMaterialEdgesIs
  <2>5. t = [u EXCEPT !.draft = d]
    <3>1. t = [u EXCEPT !.draft.unresolved = old.edges]
      BY <1>4, <2>2, <2>3 DEF StageEdges, Unfound
    <3> HIDE DEF t, u
    <3> QED
      BY <2>4, <3>1 DEF States, Kept
  <2>6. /\ d \in Drafts /\ d.edges = old.edges /\ d.stage = old.stage
        /\ d.unresolved = old.edges /\ d.edit = old.edit
    BY <1>1 DEF Drafts
  <2>7. d # None
    BY <2>6, ViewportAssumption
  <2> HIDE DEF d, u
  <2>8. Kept(t) /\ Undisturbed(u, t) /\ t.draft = d /\ t.ctl = u.ctl
    BY <2>4, <2>5, <2>6, WithDraftIs
  <2> HIDE DEF t
  <2>9. /\ SelectedEdges(t) = {} /\ Leased(t) /\ Told(t) /\ (Shows(s) => Agreed(t))
        /\ Aside(s, t)
    BY <2>4, <2>8, UndisturbedKeeps, AsideIs DEF Undisturbed
  <2>10. ~old.edit => old.edges = {}
    BY <2>1 DEF Staged
  <2>11. Staged(t)
    BY <1>1, <2>6, <2>8, <2>9, <2>10 DEF Staged, Aside
  <2>12. Drafted(t)
    BY <2>6, <2>8, <2>9, <2>10, <2>11 DEF Drafted, Unfound
  <2> QED
    BY <2>1, <2>7, <2>8, <2>9, <2>12 DEF Good, t
<1> QED
  BY <1>3, <1>4

LEMMA NotifySelectionChangedIs ==
    ASSUME NEW s, Kept(s), Leased(s), Staged(s), s.front # None, NEW quiet \in BOOLEAN
    PROVE  LET u == ApplySelectionToSurfaces(s)
               t == NotifySelectionChanged(u, quiet)
           IN  /\ Kept(t) /\ Leased(t) /\ Told(t) /\ Staged(t) /\ Aside(s, t)
               /\ ~quiet \/ s.draft = None => Good(t)
               /\ s.draft = None <=> t.draft = None
               /\ quiet => t.draft = s.draft
               /\ Shows(s) => Agreed(t)
               /\ Selection(s).body = <<>> \/ quiet \/ s.draft = None => t.sel = s.sel
<1> DEFINE u == NotifyTree(ApplySelectionToSurfaces(s))
           t == NotifySelectionChanged(ApplySelectionToSurfaces(s), quiet)
<1>1. /\ Kept(u) /\ Leased(u) /\ Told(u) /\ Aside(s, u)
      /\ u.sel = s.sel /\ u.draft = s.draft
      /\ Shows(s) => Agreed(u)
  BY SurfacesTold
<1>2. t = IF quiet \/ u.draft = None \/ u.front = None THEN u ELSE StageEdges(u)
  BY DEF NotifySelectionChanged
<1> HIDE DEF u
<1>3. /\ Staged(u) /\ u.front # None /\ Selection(u) = Selection(s)
      /\ (Shows(s) => Shows(u))
  BY <1>1, AsideKeeps, AsideShows DEF Aside
<1>4. CASE quiet \/ u.draft = None
  <2>1. t = u
    BY <1>2, <1>4
  <2>2. u.draft = None => Drafted(u)
    BY <1>3 DEF Drafted
  <2> QED
    BY <1>1, <1>3, <1>4, <2>1, <2>2 DEF Good
<1>5. CASE ~quiet /\ u.draft # None
  <2>1. t = StageEdges(u)
    BY <1>2, <1>3, <1>5
  <2>2. /\ Good(t) /\ Aside(u, t) /\ t.draft # None
        /\ Shows(u) /\ Agreed(u) => Agreed(t)
        /\ Selection(u).body = <<>> => t.sel = u.sel
    BY <1>1, <1>3, <1>5, <2>1, StageEdgesIs
  <2> HIDE DEF t
  <2>3. Aside(s, t) /\ Staged(t)
    BY <1>1, <2>2, AsideIs DEF Good, Drafted
  <2> QED
    BY <1>1, <1>3, <1>5, <2>2, <2>3 DEF Good, t
<1> QED
  BY <1>4, <1>5

-----------------------------------------------------------------------------
(* The scenes *)

\* Nothing is selected of a body, and a draft has only what it cannot find.
Bare(s) ==
    /\ \A d \in Docs : s.sel[d].body = <<>>
    /\ s.draft # None =>
         /\ s.front # None /\ s.ctl.edgeMode
         /\ OfStage(s.draft.unresolved, s.draft.stage)
         /\ s.draft.edges = Unfound(s.draft)

LEMMA BareIs ==
    ASSUME NEW s \in States, Bare(s)
    PROVE  Leased(s) /\ Staged(s) /\ Drafted(s) /\ Told(s)
<1>1. Leased(s)
  BY EmptyBody DEF Leased, Bare, OfBody
<1>2. s.front # None => Selection(s).body = <<>> /\ SelectedEdges(s) = {}
  BY FrontIs, SelectedEdgesAre DEF Bare, Selection
<1>3. Told(s)
  BY <1>2 DEF Told
<1>4. Staged(s)
  BY DEF Staged, Bare, Unfound, OfStage
<1>5. Drafted(s)
  BY <1>2, <1>4 DEF Drafted, Bare
<1> QED
  BY <1>1, <1>3, <1>4, <1>5

LEMMA DraftedBare ==
    ASSUME NEW s \in States, Staged(s), s.front # None,
           \A d \in Docs : s.sel[d].body # <<>> => d = s.front,
           Selection(s).body = <<>>,
           s.draft # None => s.draft.edges = Unfound(s.draft)
    PROVE  Bare(s)
BY FrontIs DEF Bare, Staged, Selection

\* Only the document that is shown has elements selected, and a draft has
\* nothing without them but what it cannot find.
Held(s) ==
    /\ \A d \in Docs : s.sel[d].body # <<>> => d = s.front
    /\ s.draft # None /\ Selection(s).body = <<>> => s.draft.edges = Unfound(s.draft)

LEMMA GoodHeld ==
    ASSUME NEW s, s \in States, Leased(s), Drafted(s), s.front # None
    PROVE  Held(s)
BY LeasedIs, SelectedEdgesAre DEF Held, Drafted

LEMMA ClearBodySelectionIs ==
    ASSUME NEW s, Kept(s), s.front # None,
           \A d \in Docs : s.sel[d].body # <<>> => d = s.front
    PROVE  LET t == ClearBodySelection(s)
           IN  /\ Kept(t) /\ Aside(s, t)
               /\ t.ctl = s.ctl /\ t.wid = s.wid /\ t.tree = s.tree /\ t.draft = s.draft
               /\ \A d \in Docs : t.sel[d].body = <<>>
               /\ Selection(t).body = <<>> /\ Leased(t)
               /\ Staged(s) => Staged(t)
<1> DEFINE x == [Selection(s) EXCEPT !.body = <<>>, !.generation = 0]
           t == ClearBodySelection(s)
<1>1. /\ x \in Selections /\ x.body = <<>> /\ OfBody(x, Showing(s))
  <2>1. x \in Selections /\ x.body = <<>>
    BY FrontIs, EmptyBody, TokenIs DEF Selections, Kept
  <2> HIDE DEF x
  <2> QED
    BY <2>1, EmptyBody DEF OfBody
<1>2. t = Select(s, x)
  BY DEF ClearBodySelection
<1> HIDE DEF x
<1>3. /\ Kept(t) /\ Aside(s, t) /\ Selection(t) = x
      /\ \A d \in Docs : t.sel[d] = (IF d = s.front THEN x ELSE s.sel[d])
      /\ t.ctl = s.ctl /\ t.wid = s.wid /\ t.tree = s.tree /\ t.draft = s.draft
  <2>1. Framed(s) /\ Pointed(s)
    BY DEF Kept, Framed
  <2> DEFINE u == Select(s, x)
  <2>2. /\ Framed(u) /\ Pointed(u) /\ Aside(s, u) /\ Selection(u) = x
        /\ \A d \in Docs : u.sel[d] = (IF d = s.front THEN x ELSE s.sel[d])
        /\ u.ctl = s.ctl /\ u.wid = s.wid /\ u.tree = s.tree /\ u.draft = s.draft
    BY <1>1, <2>1, SelectIs
  <2> HIDE DEF u
  <2>3. t = u
    BY <1>2 DEF u
  <2>4. Kept(u)
    BY <2>2 DEF Kept, Framed
  <2> HIDE DEF t
  <2> QED
    BY <2>2, <2>3, <2>4
<1>4. Leased(t)
  BY <1>1, <1>2, SelectLeased DEF Kept, Framed
<1> HIDE DEF t
<1>5. Staged(s) => Staged(t)
  BY <1>3 DEF Staged, Aside
<1> QED
  BY <1>1, <1>3, <1>4, <1>5 DEF t

LEMMA DropStaleSelectionIs ==
    ASSUME NEW s, Kept(s), s.front # None, Held(s), Staged(s), NEW quiet \in BOOLEAN,
           quiet => s.draft = None
    PROVE  LET t == DropStaleSelection(s, quiet)
           IN  /\ Kept(t) /\ Bare(t) /\ Aside(s, t)
               /\ s.draft = None <=> t.draft = None
               /\ Selection(s).body = <<>> => t.sel = s.sel
<1> DEFINE t == DropStaleSelection(s, quiet)
           u == ClearBodySelection(s)
<1>1. CASE Selection(s).body = <<>>
  <2>1. t = s
    BY <1>1 DEF DropStaleSelection
  <2>2. Bare(s)
    BY <1>1, DraftedBare DEF Held, Kept
  <2> QED
    BY <2>1, <2>2, AsideIs
<1>2. CASE Selection(s).body # <<>>
  <2>1. t = NotifySelectionChanged(ApplySelectionToSurfaces(u), quiet)
    BY <1>2 DEF DropStaleSelection
  <2>2. /\ Kept(u) /\ Aside(s, u) /\ u.draft = s.draft /\ u.front # None
        /\ \A d \in Docs : u.sel[d].body = <<>>
        /\ Selection(u).body = <<>> /\ Leased(u) /\ Staged(u)
    BY ClearBodySelectionIs DEF Held, Aside
  <2> HIDE DEF u
  <2>3. /\ Kept(t) /\ Staged(t) /\ Aside(u, t) /\ Good(t)
        /\ u.draft = None <=> t.draft = None
        /\ t.sel = u.sel
    BY <2>1, <2>2, NotifySelectionChangedIs
  <2> HIDE DEF t
  <2>4. /\ \A d \in Docs : t.sel[d].body = <<>>
        /\ Selection(t).body = <<>> /\ t.front # None /\ t \in States
    BY <2>2, <2>3 DEF Selection, Aside, Kept
  <2>5. t.draft # None => t.draft.edges = Unfound(t.draft)
    BY <2>3, <2>4, SelectedEdgesAre DEF Good, Drafted
  <2>6. Bare(t)
    BY <2>3, <2>4, <2>5, DraftedBare
  <2> QED
    BY <1>2, <2>2, <2>3, <2>6, AsideIs DEF t
<1> QED
  BY <1>1, <1>2

LEMMA WithCtlIs ==
    ASSUME NEW s \in States, NEW c \in Controls
    PROVE  LET t == [s EXCEPT !.ctl = c]
           IN  /\ t \in States /\ t.doc = s.doc /\ t.front = s.front /\ t.sel = s.sel
               /\ t.ctl = c /\ t.wid = s.wid /\ t.tree = s.tree /\ t.draft = s.draft
BY DEF States

LEMMA WithWidIs ==
    ASSUME NEW s \in States, NEW w \in Widgets
    PROVE  LET t == [s EXCEPT !.wid = w]
           IN  /\ t \in States /\ t.doc = s.doc /\ t.front = s.front /\ t.sel = s.sel
               /\ t.ctl = s.ctl /\ t.wid = w /\ t.tree = s.tree /\ t.draft = s.draft
BY DEF States

LEMMA PresentedBodyIs ==
    ASSUME NEW p \in Documents, NEW tool \in Stages \cup {None},
           PresentedBody(p, tool) # None
    PROVE  LET x == PresentedBody(p, tool)
           IN  /\ x.purpose \in {"current_body", "tool_stage", "diagnostic_prefix"}
               /\ x.stage \in Stages
<1>1. p.features \in Stages /\ (p.broken => p.features # 0) /\ p.revision \in Nat
      /\ p.broken \in BOOLEAN
  BY DEF Documents
<1>2. Evaluated(p) \in Stages
  BY <1>1 DEF Evaluated, Stages
<1> QED
  BY <1>2 DEF PresentedBody

\* A refresh of the scenes leaves the document and the tools as they are.
Beside(s, t) ==
    /\ t.doc = s.doc /\ t.front = s.front /\ t.tree.rows = s.tree.rows
    /\ t.ctl.tool = s.ctl.tool /\ t.ctl.edgeMode = s.ctl.edgeMode
    /\ s.draft = None <=> t.draft = None
    /\ Selection(s).body = <<>> => t.sel = s.sel

LEMMA BesideIs ==
    /\ \A s : Beside(s, s)
    /\ \A s, t, u : Beside(s, t) /\ Beside(t, u) => Beside(s, u)
    /\ \A s, t : Aside(s, t) /\ t.sel = s.sel /\ t.draft = s.draft => Beside(s, t)
    /\ \A s, t : /\ Aside(s, t) /\ (s.draft = None <=> t.draft = None)
                 /\ Selection(s).body = <<>> => t.sel = s.sel
                 => Beside(s, t)
<1>1. \A s : Beside(s, s)
  BY DEF Beside
<1>2. ASSUME NEW s, NEW t, NEW u, Beside(s, t), Beside(t, u) PROVE Beside(s, u)
  BY <1>2 DEF Beside, Selection
<1>3. ASSUME NEW s, NEW t, Aside(s, t), s.draft = None <=> t.draft = None,
             Selection(s).body = <<>> => t.sel = s.sel
      PROVE  Beside(s, t)
  BY <1>3 DEF Aside, Beside
<1> QED
  BY <1>1, <1>2, <1>3

LEMMA BareGood ==
    ASSUME NEW s, Kept(s), Bare(s)
    PROVE  Good(s)
BY BareIs DEF Good, Kept

LEMMA BuildBodySceneIs ==
    ASSUME NEW s, Good(s), s.front # None, NEW fault, NEW quiet \in BOOLEAN,
           quiet => s.draft = None
    PROVE  LET t == BuildBodyScene(s, fault, quiet)
           IN  Good(t) /\ Current(t) /\ Beside(s, t)
<1> DEFINE shown == PresentedBody(Part(s), s.ctl.tool)
           fails == /\ shown # None
                    /\ fault = "bodyBuild" \/ s.ctl.next > MaxGeneration
           t == BuildBodyScene(s, fault, quiet)
<1>0. /\ Kept(s) /\ Leased(s) /\ Staged(s) /\ Drafted(s) /\ Told(s)
      /\ s \in States /\ s.ctl \in Controls
  BY DEF Good, Drafted, Kept, States
<1>1. CASE SceneCurrent(s)
  <2>1. t = s
    BY <1>1 DEF BuildBodyScene
  <2>2. Current(s)
    BY <1>1 DEF SceneCurrent, Current
  <2> QED
    BY <2>1, <2>2, BesideIs
<1>2. CASE ~SceneCurrent(s) /\ fails
  <2> DEFINE c == [s.ctl EXCEPT !.scene = None, !.fresh = FALSE]
             u == [s EXCEPT !.ctl = c]
  <2>1. t = DropStaleSelection(u, quiet)
    <3>1. [s EXCEPT !.ctl.scene = None, !.ctl.fresh = FALSE] = u
      BY <1>0 DEF States
    <3>2. t = DropStaleSelection([s EXCEPT !.ctl.scene = None, !.ctl.fresh = FALSE], quiet)
      BY <1>2 DEF BuildBodyScene
    <3> QED
      BY <3>1, <3>2
  <2>2. /\ c \in Controls /\ c.scene = None /\ c.tool = s.ctl.tool
        /\ c.edgeMode = s.ctl.edgeMode /\ c.stack = s.ctl.stack
    BY <1>0 DEF Controls
  <2> HIDE DEF c
  <2>3. /\ u \in States /\ u.doc = s.doc /\ u.front = s.front /\ u.sel = s.sel
        /\ u.ctl = c /\ u.wid = s.wid /\ u.tree = s.tree /\ u.draft = s.draft
    BY <1>0, <2>2, WithCtlIs
  <2> HIDE DEF u
  <2>4. Kept(u)
    BY <1>0, <2>2, <2>3 DEF Kept, Pointed, Scened
  <2>5. Held(u) /\ Staged(u) /\ Selection(u) = Selection(s)
    <3>1. Held(s)
      BY <1>0, GoodHeld
    <3> QED
      BY <1>0, <2>2, <2>3, <3>1 DEF Held, Staged, Selection
  <2>6. /\ Kept(t) /\ Bare(t) /\ Aside(u, t) /\ (u.draft = None <=> t.draft = None)
        /\ Selection(u).body = <<>> => t.sel = u.sel
    BY <2>1, <2>3, <2>4, <2>5, DropStaleSelectionIs
  <2> HIDE DEF t
  <2>7. Beside(s, u) /\ Beside(u, t)
    BY <2>2, <2>3, <2>6, BesideIs DEF Beside
  <2>8. Current(t)
    BY <2>2, <2>3, <2>6 DEF Current, Aside
  <2>9. Beside(s, t)
    BY <2>7, BesideIs
  <2> QED
    BY <2>6, <2>8, <2>9, BareGood DEF t
<1>3. CASE ~SceneCurrent(s) /\ ~fails
  <2> DEFINE u == ClearPreselection(s)
             gone == DropStaleSelection(u, quiet)
             scene == IF shown = None THEN EmptyScene(Part(s))
                      ELSE [revision |-> Part(s).revision, generation |-> s.ctl.next,
                            purpose |-> shown.purpose, stage |-> shown.stage]
             next == IF shown = None THEN gone.ctl.next ELSE gone.ctl.next + 1
             c == [gone.ctl EXCEPT !.fresh = TRUE, !.next = next, !.scene = scene]
  <2>1. /\ Kept(u) /\ Aside(s, u) /\ u.sel = s.sel /\ u.draft = s.draft
        /\ u.ctl.stack = None
    BY <1>0, ClearPreselectionIs DEF Kept, Framed, Controls
  <2>2. /\ Held(u) /\ Staged(u) /\ Selection(u) = Selection(s) /\ u.front # None
    <3>1. Leased(u) /\ Drafted(u) /\ Selection(u) = Selection(s)
      BY <1>0, <2>1, AsideKeeps
    <3> QED
      BY <2>1, <3>1, GoodHeld DEF Drafted, Kept, Aside
  <2>3. t = [gone EXCEPT !.ctl.fresh = TRUE, !.ctl.next = next, !.ctl.scene = scene]
    BY <1>3 DEF BuildBodyScene
  <2> HIDE DEF u
  <2>4. /\ Kept(gone) /\ Bare(gone) /\ Aside(u, gone)
        /\ (u.draft = None <=> gone.draft = None)
        /\ Selection(u).body = <<>> => gone.sel = u.sel
    BY <2>1, <2>2, DropStaleSelectionIs
  <2> HIDE DEF gone
  <2>5. /\ gone \in States /\ gone.ctl \in Controls /\ gone.ctl.next = s.ctl.next
        /\ gone.ctl.stack = None /\ gone.doc = s.doc /\ gone.front = s.front
        /\ gone.wid.hover = None
    BY <2>1, <2>4 DEF Kept, States, Aside, Pointed
  <2>6. Part(s).revision \in Nat /\ Part(s) \in Documents /\ s.ctl.tool \in Stages \cup {None}
    BY <1>0, FrontIs DEF Documents, Controls
  <2>7. /\ s.ctl.next \in 1 .. MaxGeneration + 1 /\ MaxGeneration \in Nat
        /\ shown # None => s.ctl.next \in 1 .. MaxGeneration
    BY <1>0, <1>3, ViewportAssumption DEF Controls
  <2>8. /\ scene \in Scenes /\ scene.generation \in Nat
        /\ scene.revision = Part(s).revision
        /\ scene.generation < next /\ next \in 1 .. MaxGeneration + 1
        /\ scene.purpose = "tool_stage" => scene.generation # 0
    <3>1. CASE shown = None
      <4>1. scene = EmptyScene(Part(s)) /\ next = s.ctl.next
        BY <2>5, <3>1
      <4> HIDE DEF scene, next, shown
      <4> QED
        BY <2>6, <2>7, <4>1, TokenIs DEF EmptyScene, Scenes, Stages
    <3>2. CASE shown # None
      <4>1. scene = [revision |-> Part(s).revision, generation |-> s.ctl.next,
                     purpose |-> shown.purpose, stage |-> shown.stage]
            /\ next = s.ctl.next + 1
        BY <2>5, <3>2
      <4>2. shown.purpose \in {"current_body", "tool_stage", "diagnostic_prefix"}
            /\ shown.stage \in Stages
        BY <2>6, <3>2, PresentedBodyIs
      <4> HIDE DEF scene, next, shown
      <4> QED
        BY <2>6, <2>7, <3>2, <4>1, <4>2 DEF Scenes, Generations
    <3> QED
      BY <3>1, <3>2
  <2> HIDE DEF scene, next
  <2>9. /\ c \in Controls /\ c.scene = scene /\ c.next = next /\ c.tool = gone.ctl.tool
        /\ c.edgeMode = gone.ctl.edgeMode /\ c.stack = None /\ c.fresh = TRUE
    BY <2>5, <2>8 DEF Controls
  <2>10. t = [gone EXCEPT !.ctl = c]
    BY <2>3, <2>5 DEF States
  <2> HIDE DEF c
  <2>11. /\ t \in States /\ t.doc = gone.doc /\ t.front = gone.front /\ t.sel = gone.sel
         /\ t.ctl = c /\ t.wid = gone.wid /\ t.tree = gone.tree /\ t.draft = gone.draft
    BY <2>5, <2>9, <2>10, WithCtlIs
  <2> HIDE DEF t
  <2>12. Kept(t)
    <3>1. Pointed(t)
      BY <2>5, <2>9, <2>11 DEF Pointed
    <3>2. Scened(t)
      BY <2>8, <2>9, <2>11 DEF Scened
    <3> QED
      BY <2>4, <2>11, <3>1, <3>2 DEF Kept
  <2>13. Bare(t)
    BY <2>4, <2>9, <2>11 DEF Bare
  <2>14. Current(t)
    BY <2>5, <2>8, <2>9, <2>11 DEF Current, Part
  <2>15. Beside(s, gone)
    <3>1. Aside(s, gone) /\ (s.draft = None <=> gone.draft = None)
      BY <2>1, <2>4, AsideIs
    <3>2. Selection(s).body = <<>> => gone.sel = s.sel
      BY <2>1, <2>2, <2>4
    <3> QED
      BY <3>1, <3>2, BesideIs
  <2>16. Beside(gone, t)
    BY <2>9, <2>11 DEF Beside
  <2>17. Beside(s, t)
    BY <2>15, <2>16, BesideIs
  <2> QED
    BY <2>12, <2>13, <2>14, <2>17, BareGood DEF t
<1> QED
  BY <1>1, <1>2, <1>3

\* Drawing changes the widget, and in the controller what is bound and whether
\* that went well.
Drawn(s, t) ==
    /\ t.doc = s.doc /\ t.front = s.front /\ t.sel = s.sel /\ t.tree = s.tree
    /\ t.draft = s.draft
    /\ t.ctl.scene = s.ctl.scene /\ t.ctl.fresh = s.ctl.fresh /\ t.ctl.tool = s.ctl.tool
    /\ t.ctl.edgeMode = s.ctl.edgeMode /\ t.ctl.contribution = s.ctl.contribution

LEMMA DrawnKeeps ==
    ASSUME NEW s, NEW t, Drawn(s, t)
    PROVE  /\ Selection(t) = Selection(s) /\ Showing(t) = Showing(s)
           /\ Leased(s) => Leased(t)
           /\ Drafted(s) => Drafted(t)
           /\ Told(s) => Told(t)
           /\ Current(s) => Current(t)
           /\ Rowed(s) => Rowed(t)
           /\ Beside(s, t)
           /\ Good(s) /\ Kept(t) => Good(t)
           /\ SceneCurrent(t) <=> SceneCurrent(s)
<1>1. Selection(t) = Selection(s) /\ Showing(t) = Showing(s)
  BY DEF Drawn, Selection, Showing
<1>2. Leased(s) => Leased(t)
  BY <1>1 DEF Drawn, Leased
<1>3. SelectedEdges(t) = SelectedEdges(s)
  BY <1>1 DEF Drawn, SelectedEdges, Authoring, Bound
<1>4. Drafted(s) => Drafted(t)
  BY <1>3 DEF Drawn, Drafted, Staged
<1>5. Told(s) => Told(t)
  BY <1>1 DEF Drawn, Told
<1>6. (Current(s) => Current(t)) /\ (Rowed(s) => Rowed(t)) /\ Beside(s, t)
      /\ (SceneCurrent(t) <=> SceneCurrent(s))
  BY DEF Drawn, Current, Part, Rowed, Beside, SceneCurrent
<1> QED
  BY <1>1, <1>2, <1>4, <1>5, <1>6 DEF Good

\* The controller may change what is bound and whether it is degraded, the
\* widget anything that keeps it Steady and the candidate pointed at.
Drawing(s, w, bound, degraded) ==
    [s EXCEPT !.ctl.bound = bound, !.ctl.degraded = degraded, !.wid = w]

LEMMA DrawingIs ==
    ASSUME NEW s, Kept(s), NEW w \in Widgets, Steady(w), w.hover \in {None, s.wid.hover},
           NEW bound \in SUBSET Items, NEW degraded \in BOOLEAN
    PROVE  LET t == Drawing(s, w, bound, degraded)
           IN  /\ Kept(t) /\ Drawn(s, t) /\ t.wid = w /\ t.ctl.bound = bound
               /\ t.ctl.degraded = degraded
<1> DEFINE c == [s.ctl EXCEPT !.bound = bound, !.degraded = degraded]
           u == [s EXCEPT !.ctl = c]
           v == [u EXCEPT !.wid = w]
           t == Drawing(s, w, bound, degraded)
<1>1. s \in States /\ s.ctl \in Controls
  BY DEF Kept, States
<1>2. t = v
  BY <1>1 DEF States, Drawing
<1>3. /\ c \in Controls /\ c.scene = s.ctl.scene /\ c.fresh = s.ctl.fresh
      /\ c.tool = s.ctl.tool /\ c.edgeMode = s.ctl.edgeMode /\ c.next = s.ctl.next
      /\ c.contribution = s.ctl.contribution /\ c.stack = s.ctl.stack
      /\ c.bound = bound /\ c.degraded = degraded
  BY <1>1 DEF Controls
<1> HIDE DEF c
<1>4. /\ u \in States /\ u.doc = s.doc /\ u.front = s.front /\ u.sel = s.sel
      /\ u.ctl = c /\ u.tree = s.tree /\ u.draft = s.draft
  BY <1>1, <1>3, WithCtlIs
<1> HIDE DEF u
<1>5. /\ v \in States /\ v.doc = s.doc /\ v.front = s.front /\ v.sel = s.sel
      /\ v.ctl = c /\ v.wid = w /\ v.tree = s.tree /\ v.draft = s.draft
  BY <1>4, WithWidIs
<1> HIDE DEF v
<1>6. Kept(v) /\ Drawn(s, v)
  BY <1>3, <1>5 DEF Kept, Pointed, Scened, Showing, Drawn
<1> HIDE DEF t
<1> QED
  BY <1>2, <1>3, <1>5, <1>6 DEF t

LEMMA ShowBodyIs ==
    ASSUME NEW s, Kept(s), NEW fault
    PROVE  LET t == ShowBody(s, fault)
           IN  Kept(t) /\ Drawn(s, t) /\ Shows(t) /\ t.ctl.bound = s.ctl.bound
<1> DEFINE t == ShowBody(s, fault)
           w == SetBodyScene(s.wid, Showing(s), fault = "bodySet")
           degraded == \/ s.ctl.scene = None
                       \/ /\ fault = "bodySet"
                          /\ s.ctl.scene.generation # s.wid.body
<1>1. s \in States /\ s.ctl \in Controls /\ s.wid \in Widgets /\ Steady(s.wid)
      /\ s.ctl.bound \in SUBSET Items /\ Showing(s) \in Generations
  BY ShowingIs DEF Kept, States, Controls
<1>2. /\ w \in Widgets /\ Steady(w) /\ w.body \in {0, Showing(s)}
      /\ w.hover \in {None, s.wid.hover}
  BY <1>1, SetBodySceneIs
<1>3. degraded \in BOOLEAN
  OBVIOUS
<1> DEFINE u == Drawing(s, w, s.ctl.bound, degraded)
<1>4. t = u
  <2>1. t = [s EXCEPT !.wid = w, !.ctl.degraded = degraded]
    BY DEF ShowBody, Showing
  <2> HIDE DEF t, w, degraded
  <2> QED
    BY <1>1, <2>1 DEF States, Controls, Drawing
<1> HIDE DEF degraded, w
<1>5. Kept(u) /\ Drawn(s, u) /\ u.wid = w /\ u.ctl.bound = s.ctl.bound
  BY <1>1, <1>2, <1>3, DrawingIs
<1> HIDE DEF u, t
<1>6. Shows(t)
  BY <1>2, <1>4, <1>5, DrawnKeeps DEF Shows
<1> QED
  BY <1>4, <1>5, <1>6 DEF t

LEMMA ShowOverlayIs ==
    ASSUME NEW s, Kept(s), NEW fault
    PROVE  LET t == ShowOverlay(s, fault)
           IN  /\ Kept(t) /\ Drawn(s, t) /\ t.wid.body = s.wid.body
               /\ t.ctl.bound = s.ctl.bound
<1>1. s \in States /\ s.ctl \in Controls /\ s.wid \in Widgets /\ Steady(s.wid)
      /\ s.ctl.bound \in SUBSET Items /\ s.ctl.degraded \in BOOLEAN
  BY DEF Kept, States, Controls
<1>2. \A g \in Generations :
        /\ SetOverlay(s.wid, g) \in Widgets /\ Steady(SetOverlay(s.wid, g))
        /\ SetOverlay(s.wid, g).hover = s.wid.hover
        /\ SetOverlay(s.wid, g).body = s.wid.body
  BY <1>1, SetOverlayIs
<1> DEFINE t == ShowOverlay(s, fault)
           With(w, degraded) == Drawing(s, w, s.ctl.bound, degraded)
<1>3. \E w \in Widgets, degraded \in BOOLEAN :
        /\ Steady(w) /\ w.hover = s.wid.hover /\ w.body = s.wid.body
        /\ t = With(w, degraded)
  <2>1. CASE s.ctl.degraded
    <3> DEFINE w == SetOverlay(s.wid, 0)
    <3>1. t = [s EXCEPT !.wid = w]
      BY <2>1 DEF ShowOverlay
    <3>2. w \in Widgets /\ Steady(w) /\ w.hover = s.wid.hover /\ w.body = s.wid.body
      BY <1>2, TokenIs
    <3> HIDE DEF w, t
    <3>3. t = With(w, s.ctl.degraded)
      BY <1>1, <3>1 DEF States, Controls, Drawing
    <3> HIDE DEF With
    <3> QED
      BY <1>1, <3>2, <3>3
  <2>2. CASE ~s.ctl.degraded /\ fault = "overlay"
    <3>1. t = [s EXCEPT !.ctl.degraded = TRUE]
      BY <2>2 DEF ShowOverlay
    <3> HIDE DEF t
    <3>2. t = With(s.wid, TRUE)
      BY <1>1, <3>1 DEF States, Controls, Drawing
    <3> HIDE DEF With
    <3> QED
      BY <1>1, <3>2
  <2>3. CASE ~s.ctl.degraded /\ fault # "overlay"
    <3> DEFINE w == SetOverlay(s.wid, Contribution(s))
               degraded == ~OverlayAccepted(s.wid, Contribution(s))
    <3>1. t = [[s EXCEPT !.wid = w] EXCEPT !.ctl.degraded = degraded]
      BY <1>1, <2>3 DEF ShowOverlay, ApplyFeatureContributionOverlay, States
    <3>2. w \in Widgets /\ Steady(w) /\ w.hover = s.wid.hover /\ w.body = s.wid.body
      BY <1>1, <1>2, ContributionIs
    <3>3. degraded \in BOOLEAN
      OBVIOUS
    <3> HIDE DEF w, degraded, t
    <3>4. t = With(w, degraded)
      BY <1>1, <3>1 DEF States, Controls, Drawing
    <3> HIDE DEF With
    <3> QED
      BY <3>2, <3>3, <3>4
  <2> QED
    BY <2>1, <2>2, <2>3
<1> HIDE DEF t
<1>4. PICK w \in Widgets, degraded \in BOOLEAN :
        /\ Steady(w) /\ w.hover = s.wid.hover /\ w.body = s.wid.body
        /\ t = With(w, degraded)
  BY <1>3
<1>5. /\ Kept(t) /\ Drawn(s, t) /\ t.wid = w /\ t.ctl.bound = s.ctl.bound
  BY <1>1, <1>4, DrawingIs
<1> QED
  BY <1>4, <1>5 DEF t

LEMMA ShowReferencesIs ==
    ASSUME NEW s, Kept(s), s.front # None, NEW fault
    PROVE  LET t == ShowReferences(s, fault)
               authored == Part(s).items \cap {"reference"}
               built == authored = {} \/ SceneCurrent(s)
           IN  /\ Kept(t) /\ Drawn(s, t) /\ t.wid.body = s.wid.body
               /\ t.ctl.bound = (s.ctl.bound \ {"reference"})
                                \cup (IF built THEN authored ELSE {})
               /\ t.wid.chosen = s.wid.chosen
               /\ t.wid.items = IF "reference" \in s.wid.items
                                THEN (s.wid.items \ {"reference"}) \cup {"retired"}
                                ELSE s.wid.items
               /\ fault # "references" =>
                    t.wid.marks = IF /\ s.wid.body # 0 /\ t.wid.items = {}
                                     /\ \A k \in s.wid.chosen : k[1] = s.wid.body
                                  THEN s.wid.chosen ELSE {}
<1> DEFINE authored == Part(s).items \cap {"reference"}
           built == authored = {} \/ SceneCurrent(s)
           items == IF built THEN authored ELSE {}
           fails == built /\ fault = "references"
           v == Retire(s.wid, "reference")
           w == SetReferenceScene(v, items, fails)
           bound == (s.ctl.bound \ {"reference"}) \cup items
           degraded == s.ctl.degraded \/ ~built \/ fault = "references"
           t == ShowReferences(s, fault)
<1>1. s \in States /\ s.ctl \in Controls /\ s.wid \in Widgets /\ Steady(s.wid)
      /\ s.ctl.bound \in SUBSET Items /\ s.ctl.degraded \in BOOLEAN
  BY DEF Kept, States, Controls
<1>2. items \in SUBSET {"reference"} /\ fails \in BOOLEAN /\ degraded \in BOOLEAN
      /\ bound \in SUBSET Items
  BY <1>1 DEF Items
<1>3. t = Drawing(s, w, bound, degraded)
  <2>1. t = [s EXCEPT !.ctl.bound = bound, !.ctl.degraded = degraded, !.wid = w]
    BY <1>1 DEF ShowReferences, States, Controls
  <2> HIDE DEF t, w, bound, degraded
  <2> QED
    BY <2>1 DEF Drawing
<1>4. /\ v \in Widgets /\ Steady(v)
      /\ v.body = s.wid.body /\ v.chosen = s.wid.chosen /\ v.hover = s.wid.hover
      /\ v.items = IF "reference" \in s.wid.items
                   THEN (s.wid.items \ {"reference"}) \cup {"retired"} ELSE s.wid.items
  BY <1>1, RetireIs DEF Items
<1> HIDE DEF v, items, fails
<1>5. /\ w \in Widgets /\ Steady(w) /\ w.body = v.body /\ w.items = v.items
      /\ w.chosen = v.chosen /\ w.hover = v.hover
      /\ w.marks = (IF fails THEN v.marks ELSE Marked(v))
  BY <1>2, <1>4, SetReferenceSceneIs
<1> HIDE DEF w, bound, degraded
<1>6. Kept(t) /\ Drawn(s, t) /\ t.wid = w /\ t.ctl.bound = bound
  BY <1>2, <1>3, <1>4, <1>5, DrawingIs
<1>7. fault # "references" => ~fails
  BY DEF fails
<1> HIDE DEF t
<1>8. fault # "references" =>
        t.wid.marks = IF /\ s.wid.body # 0 /\ t.wid.items = {}
                         /\ \A k \in s.wid.chosen : k[1] = s.wid.body
                      THEN s.wid.chosen ELSE {}
  BY <1>4, <1>5, <1>6, <1>7 DEF Marked
<1> QED
  BY <1>4, <1>5, <1>6, <1>8 DEF t, bound, items

LEMMA ShowProfilesIs ==
    ASSUME NEW s, Kept(s), NEW fault
    PROVE  LET t == ShowProfiles(s, fault)
           IN  Kept(t) /\ Drawn(s, t) /\ t.wid.body = s.wid.body
<1> DEFINE authored == Part(s).items \cap {"profile"}
           fails == authored # {} /\ fault = "profiles"
           v == Retire(s.wid, "profile")
           w == IF fails THEN v ELSE SetProfileScene(v, authored)
           bound == (s.ctl.bound \ {"profile"}) \cup (IF fails THEN {} ELSE authored)
           degraded == s.ctl.degraded \/ fails
           t == ShowProfiles(s, fault)
<1>1. s \in States /\ s.ctl \in Controls /\ s.wid \in Widgets /\ Steady(s.wid)
      /\ s.ctl.bound \in SUBSET Items /\ s.ctl.degraded \in BOOLEAN
  BY DEF Kept, States, Controls
<1>2. authored \in SUBSET {"profile"} /\ degraded \in BOOLEAN /\ bound \in SUBSET Items
  BY <1>1 DEF Items
<1>3. t = Drawing(s, w, bound, degraded)
  <2>1. t = [s EXCEPT !.ctl.bound = bound, !.ctl.degraded = degraded, !.wid = w]
    BY <1>1 DEF ShowProfiles, States, Controls
  <2> HIDE DEF t, w, bound, degraded
  <2> QED
    BY <2>1 DEF Drawing
<1>4. v \in Widgets /\ Steady(v) /\ v.body = s.wid.body /\ v.hover = s.wid.hover
  BY <1>1, RetireIs DEF Items
<1> HIDE DEF v, authored, fails
<1>5. w \in Widgets /\ Steady(w) /\ w.body = s.wid.body /\ w.hover = s.wid.hover
  BY <1>2, <1>4, SetProfileSceneIs
<1> HIDE DEF w, bound, degraded, t
<1>6. Kept(t) /\ Drawn(s, t) /\ t.wid = w
  BY <1>2, <1>3, <1>5, DrawingIs
<1> QED
  BY <1>5, <1>6 DEF t

\* After a refresh everything agrees.
LEMMA RefreshPresentationIs ==
    ASSUME NEW s, Good(s), s.front # None, NEW fault, NEW quiet \in BOOLEAN,
           quiet => s.draft = None
    PROVE  LET t == RefreshPresentation(s, fault, quiet)
           IN  Good(t) /\ InStep(t) /\ Beside(s, t)
<1> DEFINE a == BuildBodyScene(s, fault, quiet)
           b == ShowBody(a, fault)
           c == ShowOverlay(b, fault)
           d == ShowReferences(c, fault)
           e == ShowProfiles(d, fault)
           t == ApplySelectionToSurfaces(e)
<1>0. RefreshPresentation(s, fault, quiet) = t
  BY DEF RefreshPresentation
<1>1. Good(a) /\ Current(a) /\ Beside(s, a) /\ Kept(a)
  BY BuildBodySceneIs DEF Good
<1> HIDE DEF a
<1>2. Kept(b) /\ Shows(b) /\ Good(b) /\ Current(b) /\ Beside(a, b)
  BY <1>1, ShowBodyIs, DrawnKeeps
<1> HIDE DEF b
<1>3. Kept(c) /\ Drawn(b, c) /\ c.wid.body = b.wid.body
  BY <1>2, ShowOverlayIs
<1> HIDE DEF c
<1>4. Good(c) /\ Current(c) /\ Beside(b, c) /\ Shows(c) /\ c.front # None
  BY <1>1, <1>2, <1>3, DrawnKeeps DEF Shows, Beside
<1>5. Kept(d) /\ Drawn(c, d) /\ d.wid.body = c.wid.body
  BY <1>3, <1>4, ShowReferencesIs
<1> HIDE DEF d
<1>6. Good(d) /\ Current(d) /\ Beside(c, d) /\ Shows(d)
  BY <1>4, <1>5, DrawnKeeps DEF Shows
<1>7. Kept(e) /\ Drawn(d, e) /\ e.wid.body = d.wid.body
  BY <1>5, ShowProfilesIs
<1> HIDE DEF e
<1>8. Good(e) /\ Current(e) /\ Beside(d, e) /\ Shows(e)
  BY <1>6, <1>7, DrawnKeeps DEF Shows
<1>9. Beside(s, e)
  BY <1>1, <1>2, <1>4, <1>6, <1>8, BesideIs
<1> DEFINE x == Selection(e)
<1>10. /\ e.front # None /\ e \in States /\ Leased(e) /\ Told(e) /\ Drafted(e)
  BY <1>7, <1>8, <1>9 DEF Good, Kept, Beside
<1>11. /\ Kept(t) /\ Aside(e, t) /\ t.sel = e.sel /\ t.ctl = e.ctl /\ t.draft = e.draft
       /\ t.tree.selected = (e.tree.selected \ Items) \cup (x.items \cap e.tree.rows)
       /\ t.wid.items = x.items \cap e.ctl.bound
       /\ t.wid.chosen = Shown(e)
       /\ t.wid.marks = IF /\ e.wid.body # 0 /\ t.wid.items = {}
                           /\ \A k \in Shown(e) : k[1] = e.wid.body
                        THEN Shown(e) ELSE {}
  BY <1>7, <1>10, ApplySelectionToSurfacesIs
<1> HIDE DEF t
<1>12. Selection(t) = x /\ Leased(t) /\ Drafted(t) /\ Shows(t) /\ Current(t)
  BY <1>8, <1>10, <1>11, AsideKeeps, AsideShows
<1>13. /\ Shown(e) = Range(x.body) /\ x.items \subseteq Items
       /\ \A k \in Range(x.body) : k[1] = Showing(e) /\ k[1] # 0
  BY <1>10, LeasedIs, FrontIs, TokenIs DEF Shown
<1>14. /\ x.body # <<>> =>
            t.tree.selected \subseteq x.items /\ ~t.ctl.contribution
       /\ x.body = <<>> => t.tree.selected \cap Items = x.items \cap t.tree.rows
  <2>1. x.body # <<>> => e.tree.selected \subseteq Items /\ ~e.ctl.contribution
    BY <1>10 DEF Told
  <2>2. \A old, new, rows : new \subseteq Items =>
          /\ ((old \ Items) \cup (new \cap rows)) \cap Items = new \cap rows
          /\ old \subseteq Items => (old \ Items) \cup (new \cap rows) \subseteq new
    OBVIOUS
  <2>3. t.tree.rows = e.tree.rows
    BY <1>11 DEF Aside
  <2> HIDE DEF x
  <2> QED
    BY <1>11, <1>13, <2>1, <2>2, <2>3
<1>15. x.items = {} => t.wid.items = {} /\ (t.wid.body # 0 => t.wid.marks = t.wid.chosen)
  <2> SUFFICES ASSUME x.items = {}
               PROVE  t.wid.items = {} /\ (t.wid.body # 0 => t.wid.marks = t.wid.chosen)
    OBVIOUS
  <2>1. t.wid.items = {} /\ t.wid.body = e.wid.body
    BY <1>11 DEF Aside
  <2>2. e.wid.body # 0 => \A k \in Shown(e) : k[1] = e.wid.body
    BY <1>8, <1>13 DEF Shows
  <2> QED
    BY <1>11, <2>1, <2>2
<1>16. Agreed(t)
  <2>1. t.wid.items = x.items \cap t.ctl.bound /\ t.wid.chosen = Range(x.body)
    BY <1>11, <1>13
  <2> QED
    BY <1>12, <1>14, <1>15, <2>1 DEF Agreed
<1>17. Told(t)
  <2>1. x.items \subseteq Items
    BY <1>13
  <2> QED
    BY <1>12, <1>14, <2>1 DEF Told
<1>18. Beside(e, t)
  BY <1>11, BesideIs
<1>19. Beside(s, t)
  BY <1>9, <1>18, BesideIs
<1> QED
  BY <1>0, <1>11, <1>12, <1>16, <1>17, <1>19 DEF Good, InStep

-----------------------------------------------------------------------------
(* Previews, and the stage a draft works on *)

LEMMA WithPreviewIs ==
    ASSUME NEW s, Kept(s), NEW on \in BOOLEAN
    PROVE  LET t == [s EXCEPT !.ctl.preview = on]
           IN  /\ Kept(t) /\ Drawn(s, t) /\ t.wid = s.wid /\ t.ctl.bound = s.ctl.bound
<1> DEFINE c == [s.ctl EXCEPT !.preview = on]
           t == [s EXCEPT !.ctl.preview = on]
<1>1. s \in States /\ s.ctl \in Controls
  BY DEF Kept, States
<1>2. t = [s EXCEPT !.ctl = c]
  BY <1>1 DEF States
<1>3. /\ c \in Controls /\ c.scene = s.ctl.scene /\ c.fresh = s.ctl.fresh
      /\ c.tool = s.ctl.tool /\ c.edgeMode = s.ctl.edgeMode /\ c.next = s.ctl.next
      /\ c.contribution = s.ctl.contribution /\ c.stack = s.ctl.stack
      /\ c.bound = s.ctl.bound
  BY <1>1 DEF Controls
<1> HIDE DEF c, t
<1>4. /\ t \in States /\ t.doc = s.doc /\ t.front = s.front /\ t.sel = s.sel
      /\ t.ctl = c /\ t.wid = s.wid /\ t.tree = s.tree /\ t.draft = s.draft
  BY <1>1, <1>2, <1>3, WithCtlIs
<1>5. Kept(t) /\ Drawn(s, t)
  BY <1>3, <1>4 DEF Kept, Pointed, Scened, Showing, Drawn
<1> QED
  BY <1>3, <1>4, <1>5 DEF t

\* Drawing the references again retires what was selected of them until the
\* selection is applied.
LEMMA ReferencesAgree ==
    ASSUME NEW s, Kept(s), Leased(s), Shows(s), Agreed(s), s.front # None, SceneCurrent(s),
           NEW fault, fault # "references"
    PROVE  Agreed(ShowReferences(s, fault))
<1> DEFINE t == ShowReferences(s, fault)
           authored == Part(s).items \cap {"reference"}
           x == Selection(s)
<1>1. /\ Kept(t) /\ Drawn(s, t) /\ t.wid.body = s.wid.body
      /\ t.ctl.bound = (s.ctl.bound \ {"reference"}) \cup authored
      /\ t.wid.chosen = s.wid.chosen
      /\ t.wid.items = IF "reference" \in s.wid.items
                       THEN (s.wid.items \ {"reference"}) \cup {"retired"}
                       ELSE s.wid.items
      /\ t.wid.marks = IF /\ s.wid.body # 0 /\ t.wid.items = {}
                          /\ \A k \in s.wid.chosen : k[1] = s.wid.body
                       THEN s.wid.chosen ELSE {}
  BY ShowReferencesIs
<1> HIDE DEF t
<1>2. /\ Selection(t) = x /\ t.tree = s.tree /\ t.ctl.contribution = s.ctl.contribution
      /\ t.front = s.front
  BY <1>1, DrawnKeeps DEF Drawn
<1>3. /\ s.wid.items \subseteq (x.items \cap s.ctl.bound) \cup {"retired"}
      /\ (x.items \cap s.ctl.bound) \ s.wid.items \subseteq {"reference"}
      /\ s.wid.chosen = Range(x.body)
      /\ x.items = {} => s.wid.items = {}
      /\ IF x.body = <<>>
         THEN s.tree.selected \cap Items = x.items \cap s.tree.rows
         ELSE s.tree.selected \subseteq x.items /\ ~s.ctl.contribution
  BY DEF Agreed
<1>4. \A k \in Range(x.body) : k[1] = Showing(s)
  BY LeasedIs DEF Kept
<1> HIDE DEF x
<1>5. t.wid.items \subseteq (x.items \cap t.ctl.bound) \cup {"retired"}
  BY <1>1, <1>3
<1>6. (x.items \cap t.ctl.bound) \ t.wid.items \subseteq {"reference"}
  BY <1>1, <1>3
<1>7. x.items = {} => t.wid.items = {} /\ (t.wid.body # 0 => t.wid.marks = t.wid.chosen)
  BY <1>1, <1>3, <1>4 DEF Shows
<1> QED
  BY <1>1, <1>2, <1>3, <1>5, <1>6, <1>7 DEF Agreed, t

LEMMA SetAxisDraftPreviewIs ==
    ASSUME NEW s, Good(s), InStep(s), s.front # None, NEW on \in BOOLEAN, NEW fault
    PROVE  LET t == SetAxisDraftPreview(s, on, fault)
           IN  Good(t) /\ InStep(t) /\ Beside(s, t)
<1> DEFINE u == [s EXCEPT !.ctl.preview = on]
           t == SetAxisDraftPreview(s, on, fault)
<1>1. CASE s.ctl.preview = on
  BY <1>1, BesideIs DEF SetAxisDraftPreview
<1>2. CASE s.ctl.preview # on
  <2>1. Kept(u) /\ Drawn(s, u) /\ u.wid = s.wid /\ u.ctl.bound = s.ctl.bound
    BY WithPreviewIs DEF Good
  <2>2. t = IF SceneCurrent(u) /\ fault # "references"
            THEN [ShowReferences(u, fault) EXCEPT !.ctl.degraded = s.ctl.degraded]
            ELSE RefreshPresentation(
                    [u EXCEPT !.wid =
                        IF SceneCurrent(u)
                        THEN SetReferenceScene(Retire(@, "reference"), {}, TRUE) ELSE @],
                    fault, FALSE)
    BY <1>2 DEF SetAxisDraftPreview
  <2> HIDE DEF u, t
  <2>3. /\ Good(u) /\ Beside(s, u) /\ Shows(u) /\ Current(u) /\ u.front # None
        /\ u.ctl \in Controls /\ u.wid \in Widgets /\ u \in States /\ Leased(u)
    BY <2>1, DrawnKeeps DEF InStep, Shows, Beside, Good, Kept, States
  <2>4. Agreed(u)
    BY <2>1, DrawnKeeps DEF Agreed, InStep, Drawn
  <2>5. CASE SceneCurrent(u) /\ fault # "references"
    <3> DEFINE v == ShowReferences(u, fault)
    <3>1. Kept(v) /\ Drawn(u, v) /\ v.wid.body = u.wid.body
      BY <2>1, <2>3, ShowReferencesIs
    <3>2. Agreed(v)
      BY <2>1, <2>3, <2>4, <2>5, ReferencesAgree
    <3> HIDE DEF v
    <3>3. /\ v \in States /\ v.ctl \in Controls /\ v.wid \in Widgets /\ Steady(v.wid)
          /\ v.ctl.bound \in SUBSET Items /\ s.ctl.degraded \in BOOLEAN
      BY <3>1 DEF Good, Kept, States, Controls
    <3>4. t = Drawing(v, v.wid, v.ctl.bound, s.ctl.degraded)
      <4>1. t = [v EXCEPT !.ctl.degraded = s.ctl.degraded]
        BY <2>2, <2>5 DEF v
      <4> QED
        BY <3>3, <4>1 DEF States, Controls, Drawing
    <3>5. Kept(t) /\ Drawn(v, t) /\ t.wid = v.wid /\ t.ctl.bound = v.ctl.bound
      BY <3>1, <3>3, <3>4, DrawingIs
    <3>6. Good(v) /\ Current(v) /\ Shows(v) /\ Beside(u, v)
      BY <2>3, <3>1, DrawnKeeps DEF Shows
    <3>7. Good(t) /\ Current(t) /\ Shows(t) /\ Beside(v, t)
      BY <3>5, <3>6, DrawnKeeps DEF Shows
    <3>8. Agreed(t)
      BY <3>2, <3>5, DrawnKeeps DEF Agreed, Drawn
    <3>9. Beside(s, t)
      BY <2>3, <3>6, <3>7, BesideIs
    <3> QED
      BY <3>7, <3>8, <3>9 DEF InStep, t
  <2>6. CASE ~(SceneCurrent(u) /\ fault # "references")
    <3> DEFINE w == IF SceneCurrent(u)
                    THEN SetReferenceScene(Retire(u.wid, "reference"), {}, TRUE) ELSE u.wid
               v == [u EXCEPT !.wid = w]
    <3>1. t = RefreshPresentation(v, fault, FALSE)
      BY <2>2, <2>3, <2>6 DEF States
    <3>2. w \in Widgets /\ Steady(w) /\ w.hover = u.wid.hover
      <4>1. LET r == Retire(u.wid, "reference")
            IN  r \in Widgets /\ Steady(r) /\ r.hover = u.wid.hover
        BY <2>1, <2>3, RetireIs DEF Kept, Items
      <4> QED
        BY <2>1, <2>3, <4>1, SetReferenceSceneIs DEF Kept
    <3> HIDE DEF w
    <3>3. /\ v \in States /\ v.doc = u.doc /\ v.front = u.front /\ v.sel = u.sel
          /\ v.ctl = u.ctl /\ v.wid = w /\ v.tree = u.tree /\ v.draft = u.draft
      BY <2>3, <3>2, WithWidIs
    <3> HIDE DEF v
    <3>4. Kept(v) /\ Drawn(u, v)
      BY <2>1, <3>2, <3>3 DEF Kept, Pointed, Scened, Showing, Drawn
    <3>5. Good(v) /\ Beside(u, v) /\ v.front # None
      BY <2>3, <3>3, <3>4, DrawnKeeps
    <3>6. Good(t) /\ InStep(t) /\ Beside(v, t)
      BY <3>1, <3>5, RefreshPresentationIs
    <3>7. Beside(s, t)
      BY <2>3, <3>5, <3>6, BesideIs
    <3> QED
      BY <3>6, <3>7 DEF t
  <2> QED
    BY <2>5, <2>6 DEF t
<1> QED
  BY <1>1, <1>2

LEMMA SetEdgeDraftModeIs ==
    ASSUME NEW s, Kept(s), NEW on \in BOOLEAN
    PROVE  LET t == SetEdgeDraftMode(s, on)
           IN  /\ Kept(t) /\ t.ctl.edgeMode = on
               /\ t.doc = s.doc /\ t.front = s.front /\ t.sel = s.sel /\ t.tree = s.tree
               /\ t.draft = s.draft
               /\ t.ctl.scene = s.ctl.scene /\ t.ctl.tool = s.ctl.tool
               /\ Leased(s) => Leased(t)
               /\ Told(s) => Told(t)
               /\ InStep(s) => InStep(t)
               /\ t.wid.delta = s.wid.delta
<1> DEFINE t == SetEdgeDraftMode(s, on)
           c == [s.ctl EXCEPT !.edgeMode = on]
           u == [s EXCEPT !.ctl = c]
<1>1. s \in States /\ s.ctl \in Controls /\ s.wid \in Widgets
  BY DEF Kept, States
<1>2. CASE s.ctl.edgeMode = on
  BY <1>2 DEF SetEdgeDraftMode
<1>3. CASE s.ctl.edgeMode # on
  <2>1. t = ClearPreselection(u)
    <3>1. [s EXCEPT !.ctl.edgeMode = on] = u
      BY <1>1 DEF States
    <3>2. t = ClearPreselection([s EXCEPT !.ctl.edgeMode = on])
      BY <1>3 DEF SetEdgeDraftMode
    <3> QED
      BY <3>1, <3>2
  <2>2. /\ c \in Controls /\ c.scene = s.ctl.scene /\ c.fresh = s.ctl.fresh
        /\ c.tool = s.ctl.tool /\ c.edgeMode = on /\ c.next = s.ctl.next
        /\ c.contribution = s.ctl.contribution /\ c.stack = s.ctl.stack
        /\ c.bound = s.ctl.bound
    BY <1>1 DEF Controls
  <2> HIDE DEF c
  <2>3. /\ u \in States /\ u.doc = s.doc /\ u.front = s.front /\ u.sel = s.sel
        /\ u.ctl = c /\ u.wid = s.wid /\ u.tree = s.tree /\ u.draft = s.draft
    BY <1>1, <2>2, WithCtlIs
  <2> HIDE DEF u
  <2>4. Framed(u)
    BY <2>2, <2>3 DEF Kept, Framed, Scened
  <2>5. /\ Kept(t) /\ Aside(u, t) /\ t.sel = u.sel /\ t.tree = u.tree /\ t.draft = u.draft
        /\ t.ctl = [u.ctl EXCEPT !.stack = None]
        /\ t.wid = [u.wid EXCEPT !.hover = None]
    BY <2>1, <2>4, ClearPreselectionIs
  <2> HIDE DEF t
  <2>6. /\ t.ctl.scene = s.ctl.scene /\ t.ctl.fresh = s.ctl.fresh
        /\ t.ctl.tool = s.ctl.tool /\ t.ctl.edgeMode = on
        /\ t.ctl.contribution = s.ctl.contribution /\ t.ctl.bound = s.ctl.bound
    BY <2>2, <2>3, <2>5 DEF Controls
  <2>7. /\ t.wid.body = s.wid.body /\ t.wid.items = s.wid.items
        /\ t.wid.chosen = s.wid.chosen /\ t.wid.marks = s.wid.marks
        /\ t.wid.delta = s.wid.delta
    BY <1>1, <2>3, <2>5 DEF Widgets
  <2>8. /\ t.doc = s.doc /\ t.front = s.front /\ t.sel = s.sel /\ t.tree = s.tree
        /\ t.draft = s.draft
    BY <2>3, <2>5 DEF Aside
  <2>9. Selection(t) = Selection(s) /\ Showing(t) = Showing(s)
    BY <2>6, <2>8 DEF Selection, Showing
  <2>10. (Leased(s) => Leased(t)) /\ (Told(s) => Told(t))
    BY <2>6, <2>8, <2>9 DEF Leased, Told
  <2>11. InStep(s) => InStep(t)
    <3>1. Shows(s) => Shows(t)
      BY <2>7, <2>9 DEF Shows
    <3>2. Current(s) => Current(t)
      BY <2>6, <2>8 DEF Current, Part
    <3>3. Agreed(s) => Agreed(t)
      BY <2>6, <2>7, <2>8, <2>9 DEF Agreed
    <3> QED
      BY <3>1, <3>2, <3>3 DEF InStep
  <2> QED
    BY <2>5, <2>6, <2>7, <2>8, <2>10, <2>11 DEF t
<1> QED
  BY <1>2, <1>3

\* The same document is shown, without a draft and with nothing of its body
\* selected.
Cleared(s, t) ==
    /\ t.doc = s.doc /\ t.front = s.front /\ t.tree.rows = s.tree.rows
    /\ t.ctl.edgeMode = s.ctl.edgeMode
    /\ t.draft = None
    /\ \A d \in Docs : t.sel[d].body = <<>>

LEMMA TryToolStageIs ==
    ASSUME NEW s, Kept(s), Leased(s), s.front # None, s.draft = None,
           NEW stage \in Stages \cup {None}, NEW fault
    PROVE  LET t == TryToolStage(s, stage, fault)
           IN  /\ Good(t) /\ InStep(t) /\ Cleared(s, t) /\ t.ctl.tool = stage
<1> DEFINE c == [s.ctl EXCEPT !.tool = stage, !.fresh = FALSE]
           u == [s EXCEPT !.ctl = c]
           v == ClearPreselection(u)
           w == ClearBodySelection(v)
           t == TryToolStage(s, stage, fault)
<1>1. s \in States /\ s.ctl \in Controls
  BY DEF Kept, States
<1>2. t = RefreshPresentation(w, fault, TRUE)
  <2>1. [s EXCEPT !.ctl.tool = stage, !.ctl.fresh = FALSE] = u
    BY <1>1 DEF States
  <2>2. t = RefreshPresentation(ClearBodySelection(ClearPreselection(
                [s EXCEPT !.ctl.tool = stage, !.ctl.fresh = FALSE])), fault, TRUE)
    BY DEF TryToolStage
  <2> QED
    BY <2>1, <2>2
<1>3. /\ c \in Controls /\ c.scene = s.ctl.scene /\ c.tool = stage
      /\ c.edgeMode = s.ctl.edgeMode /\ c.next = s.ctl.next /\ c.stack = s.ctl.stack
  BY <1>1 DEF Controls
<1> HIDE DEF c
<1>4. /\ u \in States /\ u.doc = s.doc /\ u.front = s.front /\ u.sel = s.sel
      /\ u.ctl = c /\ u.wid = s.wid /\ u.tree = s.tree /\ u.draft = s.draft
  BY <1>1, <1>3, WithCtlIs
<1> HIDE DEF u
<1>5. Framed(u) /\ Leased(u)
  BY <1>3, <1>4 DEF Kept, Framed, Scened, Leased, Showing
<1>6. Kept(v) /\ Aside(u, v) /\ v.sel = u.sel /\ v.draft = u.draft
  BY <1>5, ClearPreselectionIs
<1> HIDE DEF v
<1>7. Leased(v) /\ v.front # None /\ v \in States
  BY <1>4, <1>5, <1>6, AsideKeeps DEF Aside, Kept
<1>8. /\ Kept(w) /\ Aside(v, w) /\ w.draft = v.draft
      /\ \A d \in Docs : w.sel[d].body = <<>>
      /\ Selection(w).body = <<>>
  BY <1>6, <1>7, LeasedIs, ClearBodySelectionIs
<1> HIDE DEF w
<1>9. Good(w) /\ w.draft = None /\ w.front # None
  <2>1. w.draft = None /\ w.front # None
    BY <1>4, <1>6, <1>7, <1>8 DEF Aside
  <2>2. Bare(w)
    BY <1>8, <2>1 DEF Bare
  <2> QED
    BY <1>8, <2>1, <2>2, BareGood
<1>10. Good(t) /\ InStep(t) /\ Beside(w, t)
  BY <1>2, <1>9, RefreshPresentationIs
<1> HIDE DEF t
<1>11. Cleared(s, t) /\ t.ctl.tool = stage
  BY <1>3, <1>4, <1>6, <1>8, <1>9, <1>10 DEF Cleared, Beside, Aside
<1> QED
  BY <1>10, <1>11 DEF t

LEMMA SetToolStageIs ==
    ASSUME NEW s, Kept(s), Leased(s), s.front # None, s.draft = None,
           NEW stage \in Stages \cup {None}, NEW fault, NEW again
    PROVE  LET t == SetToolStage(s, stage, fault, again)
           IN  Good(t) /\ InStep(t) /\ Cleared(s, t)
<1> DEFINE u == TryToolStage(s, stage, fault)
           t == SetToolStage(s, stage, fault, again)
<1>1. Good(u) /\ InStep(u) /\ Cleared(s, u)
  BY TryToolStageIs
<1>2. CASE stage = None \/ ToolStageReady(u)
  BY <1>1, <1>2 DEF SetToolStage
<1>3. CASE ~(stage = None \/ ToolStageReady(u))
  <2>1. t = TryToolStage(u, s.ctl.tool, again)
    BY <1>3 DEF SetToolStage
  <2> HIDE DEF u
  <2>2. s.ctl.tool \in Stages \cup {None}
    BY DEF Kept, States, Controls
  <2>3. Kept(u) /\ Leased(u) /\ u.front # None /\ u.draft = None
    BY <1>1 DEF Good, Cleared
  <2>4. Good(t) /\ InStep(t) /\ Cleared(u, t)
    BY <2>1, <2>2, <2>3, TryToolStageIs
  <2>5. Cleared(s, t)
    BY <1>1, <2>4 DEF Cleared
  <2> QED
    BY <2>4, <2>5
<1> QED
  BY <1>2, <1>3

\* The draft is left: whatever it had done to the selection, the viewport shows
\* the document as it is.
LEMMA ClearEdgeFeatureIs ==
    ASSUME NEW s, Kept(s), Leased(s), s.front # None, NEW fault
    PROVE  LET t == ClearEdgeFeature(s, fault)
           IN  /\ Good(t) /\ InStep(t) /\ t.draft = None
               /\ t.doc = s.doc /\ t.front = s.front /\ t.tree.rows = s.tree.rows
               /\ \A d \in Docs : t.sel[d].body = <<>>
<1> DEFINE a == [s EXCEPT !.draft = None]
           w == [s.wid EXCEPT !.delta = 0]
           b == [a EXCEPT !.wid = w]
           u == SetEdgeDraftMode(b, FALSE)
           t == ClearEdgeFeature(s, fault)
<1>1. s \in States /\ s.wid \in Widgets /\ Steady(s.wid)
  BY DEF Kept, States
<1>2. t = SetToolStage(u, None, fault, fault)
  <2>1. [s EXCEPT !.draft = None, !.wid.delta = 0] = b
    BY <1>1 DEF States
  <2>2. t = SetToolStage(SetEdgeDraftMode([s EXCEPT !.draft = None, !.wid.delta = 0], FALSE),
                         None, fault, fault)
    BY DEF ClearEdgeFeature
  <2> QED
    BY <2>1, <2>2
<1>3. Kept(a) /\ Undisturbed(s, a) /\ a.draft = None /\ a.wid = s.wid
  BY WithDraftIs
<1> HIDE DEF a
<1>4. /\ w \in Widgets /\ Steady(w) /\ w.body = s.wid.body /\ w.hover = s.wid.hover
  BY <1>1, TokenIs DEF Widgets, Steady
<1> HIDE DEF w
<1>5. /\ b \in States /\ b.doc = a.doc /\ b.front = a.front /\ b.sel = a.sel
      /\ b.ctl = a.ctl /\ b.wid = w /\ b.tree = a.tree /\ b.draft = a.draft
  BY <1>3, <1>4, WithWidIs DEF Kept
<1> HIDE DEF b
<1>6. Kept(b) /\ Drawn(a, b)
  BY <1>3, <1>4, <1>5 DEF Kept, Pointed, Scened, Showing, Drawn
<1>7. Leased(b)
  BY <1>3, <1>6, UndisturbedKeeps, DrawnKeeps
<1>8. /\ Kept(u) /\ Leased(u) /\ u.draft = None /\ u.doc = s.doc /\ u.front = s.front
      /\ u.tree.rows = s.tree.rows
  BY <1>3, <1>5, <1>6, <1>7, SetEdgeDraftModeIs DEF Undisturbed, Aside
<1> HIDE DEF u
<1>9. Good(t) /\ InStep(t) /\ Cleared(u, t)
  BY <1>2, <1>8, SetToolStageIs
<1> QED
  BY <1>8, <1>9 DEF Cleared

LEMMA CloseToolsIs ==
    ASSUME NEW s, Good(s), InStep(s), s.front # None, NEW fault
    PROVE  LET t == CloseTools(s, fault)
           IN  /\ Good(t) /\ InStep(t) /\ t.draft = None
               /\ t.doc = s.doc /\ t.front = s.front /\ t.tree.rows = s.tree.rows
               /\ \A d \in Docs : t.sel[d].body = <<>>
<1> DEFINE u == SetAxisDraftPreview(s, FALSE, fault)
<1>1. Good(u) /\ InStep(u) /\ Beside(s, u)
  BY SetAxisDraftPreviewIs
<1>2. CloseTools(s, fault) = ClearEdgeFeature(u, fault)
  BY DEF CloseTools
<1> HIDE DEF u
<1>3. Kept(u) /\ Leased(u) /\ u.front # None
  BY <1>1 DEF Good, Beside
<1>4. LET t == ClearEdgeFeature(u, fault)
      IN  /\ Good(t) /\ InStep(t) /\ t.draft = None
          /\ t.doc = u.doc /\ t.front = u.front /\ t.tree.rows = u.tree.rows
          /\ \A d \in Docs : t.sel[d].body = <<>>
  BY <1>3, ClearEdgeFeatureIs
<1> QED
  BY <1>1, <1>2, <1>4 DEF Beside

-----------------------------------------------------------------------------
(* Documents *)

LEMMA ClearIs ==
    ASSUME NEW s, Kept(s), s.draft = None, \A d \in Docs : s.sel[d].body = <<>>
    PROVE  LET t == Clear(s)
           IN  Inv(t) /\ t.front = None /\ t.doc = s.doc
<1> DEFINE c == [s.ctl EXCEPT
                    !.contribution = FALSE, !.bound = {}, !.tool = None, !.scene = None,
                    !.fresh = FALSE, !.stack = None, !.degraded = FALSE]
           w1 == SetPreselection(s.wid, None)
           w2 == SetBodyScene(w1, 0, FALSE)
           w3 == SetReferenceScene(w2, {}, FALSE)
           w4 == SetProfileScene(w3, {})
           w5 == SetPresentationSelection(w4, {}, {})
           w == [w5 EXCEPT !.delta = 0]
           rows == [rows |-> {}, selected |-> {}]
           t == Clear(s)
<1>1. s \in States /\ s.ctl \in Controls /\ s.wid \in Widgets /\ Steady(s.wid)
  BY DEF Kept, States
<1>2. t = [s EXCEPT !.front = None, !.ctl = c, !.tree = rows, !.wid = w]
  BY <1>1 DEF Clear, States
<1>3. w1 \in Widgets /\ Steady(w1) /\ w1.hover = None
  BY <1>1, SetPreselectionIs
<1> HIDE DEF w1
<1>4. w2 \in Widgets /\ Steady(w2) /\ w2.body = 0 /\ w2.hover = None
  BY <1>3, SetBodySceneIs, TokenIs
<1> HIDE DEF w2
<1>5. w3 \in Widgets /\ Steady(w3) /\ w3.body = 0 /\ w3.hover = None
  BY <1>4, SetReferenceSceneIs
<1> HIDE DEF w3
<1>6. w4 \in Widgets /\ Steady(w4) /\ w4.body = 0 /\ w4.hover = None
  BY <1>5, SetProfileSceneIs
<1> HIDE DEF w4
<1>7. w5 \in Widgets /\ Steady(w5) /\ w5.body = 0 /\ w5.hover = None
  BY <1>6, SetPresentationSelectionIs
<1> HIDE DEF w5
<1>8. w \in Widgets /\ Steady(w) /\ w.body = 0 /\ w.hover = None
  BY <1>7, TokenIs DEF Widgets, Steady
<1> HIDE DEF w
<1>9. /\ c \in Controls /\ c.scene = None /\ c.fresh = FALSE /\ c.stack = None
  BY <1>1 DEF Controls
<1> HIDE DEF c
<1>10. rows \in [rows : SUBSET Rows, selected : SUBSET Rows]
       /\ rows.rows = {} /\ rows.selected = {}
  OBVIOUS
<1> HIDE DEF t, rows
<1>11. /\ t \in States /\ t.doc = s.doc /\ t.front = None /\ t.sel = s.sel
       /\ t.ctl = c /\ t.wid = w /\ t.tree = rows /\ t.draft = s.draft
  BY <1>1, <1>2, <1>8, <1>9, <1>10 DEF States
<1>12. Kept(t)
  BY <1>8, <1>9, <1>10, <1>11 DEF Kept, Pointed, Scened
<1>13. Bare(t)
  BY <1>11 DEF Bare
<1>14. InStep(t)
  BY <1>8, <1>9, <1>11 DEF InStep, Shows, Agreed, Current
<1>15. Rowed(t)
  BY <1>10, <1>11 DEF Rowed
<1> QED
  BY <1>11, <1>12, <1>13, <1>14, <1>15, BareGood DEF Inv, t

LEMMA RowIs ==
    ASSUME NEW p \in Documents
    PROVE  Row(p) \in SUBSET Rows
BY DEF Documents, Row, Rows

\* The steps of a selection that has been changed.
LEMMA AppliedIs ==
    ASSUME NEW s, Kept(s), Leased(s), Staged(s), s.front # None
    PROVE  LET t == NotifySelectionChanged(ApplySelectionToSurfaces(s), FALSE)
           IN  /\ Good(t) /\ Aside(s, t)
               /\ s.draft = None <=> t.draft = None
               /\ Shows(s) => Shows(t) /\ Agreed(t)
               /\ Current(s) => Current(t)
               /\ Rowed(s) => Rowed(t)
               /\ Selection(s).body = <<>> => t.sel = s.sel
<1> DEFINE t == NotifySelectionChanged(ApplySelectionToSurfaces(s), FALSE)
<1>1. /\ Aside(s, t) /\ Good(t)
      /\ s.draft = None <=> t.draft = None
      /\ Shows(s) => Agreed(t)
      /\ Selection(s).body = <<>> => t.sel = s.sel
  BY NotifySelectionChangedIs
<1> HIDE DEF t
<1> QED
  BY <1>1, AsideShows DEF t

\* However the document was left, it is shown as it is.
LEMMA SetDocumentSessionIs ==
    ASSUME NEW s, Good(s), NEW d \in Docs, s.front \in {d, None}, NEW fault
    PROVE  LET t == SetDocumentSession(s, d, fault)
           IN  Inv(t) /\ t.front = d /\ t.doc = s.doc
<1> DEFINE t == SetDocumentSession(s, d, fault)
           rows == Row(s.doc[d])
           At(r, selected) == [r EXCEPT !.front = d, !.tree = [rows |-> rows, selected |-> selected]]
<1>1. /\ s \in States /\ s.ctl \in Controls /\ s.wid \in Widgets /\ Kept(s) /\ Leased(s)
      /\ Drafted(s) /\ Staged(s) /\ Told(s) /\ d # None /\ rows \in SUBSET Rows
      /\ s.tree \in [rows : SUBSET Rows, selected : SUBSET Rows]
  <2>1. s \in States /\ Kept(s) /\ Leased(s) /\ Drafted(s) /\ Staged(s) /\ Told(s)
    BY DEF Good, Drafted, Kept
  <2>2. s.doc[d] \in Documents
    BY <2>1 DEF States
  <2> QED
    BY <2>1, <2>2, RowIs, ViewportAssumption DEF States
<1> DEFINE To(at) == NotifySelectionChanged(
                        ApplySelectionToSurfaces(RefreshPresentation(at, fault, FALSE)), FALSE)
<1>2. ASSUME NEW at, Good(at), at.front = d, at.doc = s.doc, at.tree.rows = rows
      PROVE  Inv(To(at)) /\ To(at).front = d /\ To(at).doc = s.doc
  <2> DEFINE u == RefreshPresentation(at, fault, FALSE)
             v == To(at)
  <2>1. Good(u) /\ InStep(u) /\ Beside(at, u)
    BY <1>1, <1>2, RefreshPresentationIs
  <2>2. v = NotifySelectionChanged(ApplySelectionToSurfaces(u), FALSE)
    OBVIOUS
  <2> HIDE DEF u, v
  <2>3. /\ Kept(u) /\ Leased(u) /\ Staged(u) /\ u.front = d /\ u.doc = s.doc
        /\ u.tree.rows = rows /\ Shows(u) /\ Current(u) /\ u.front # None
    BY <1>1, <1>2, <2>1 DEF Good, Drafted, Beside, InStep
  <2>4. Rowed(u)
    BY <1>1, <2>3 DEF Rowed
  <2>5. Good(v) /\ InStep(v) /\ Rowed(v) /\ Aside(u, v)
    BY <2>2, <2>3, <2>4, AppliedIs DEF InStep
  <2>6. v.front = d /\ v.doc = s.doc
    BY <2>3, <2>5 DEF Aside
  <2> QED
    BY <2>5, <2>6 DEF Inv, v
<1>3. CASE s.front = d
  <2> DEFINE selected == s.tree.selected \cap rows
             at == At(s, selected)
  <2>1. t = To(at)
    BY <1>3 DEF SetDocumentSession
  <2>2. [rows |-> rows, selected |-> selected] \in [rows : SUBSET Rows, selected : SUBSET Rows]
    BY <1>1
  <2> HIDE DEF rows
  <2>3. /\ at \in States /\ at.doc = s.doc /\ at.front = s.front /\ at.sel = s.sel
        /\ at.ctl = s.ctl /\ at.wid = s.wid /\ at.draft = s.draft
        /\ at.tree.rows = rows /\ at.tree.selected = selected
    BY <1>1, <1>3, <2>2 DEF States
  <2> HIDE DEF at, To
  <2>4. Kept(at)
    BY <1>1, <2>3 DEF Kept, Pointed, Scened, Showing
  <2>5. Selection(at) = Selection(s) /\ Showing(at) = Showing(s)
    BY <2>3 DEF Selection, Showing
  <2>6. SelectedEdges(at) = SelectedEdges(s)
    BY <2>3, <2>5 DEF SelectedEdges, Authoring, Bound
  <2>7. Leased(at) /\ Drafted(at)
    BY <1>1, <2>3, <2>5, <2>6 DEF Leased, Drafted, Staged
  <2>8. Told(at)
    BY <1>1, <2>3, <2>5 DEF Told
  <2>9. Good(at)
    BY <2>4, <2>7, <2>8 DEF Good
  <2> QED
    BY <1>2, <1>3, <2>1, <2>3, <2>9
<1>4. CASE s.front # d
  <2> DEFINE c == [s.ctl EXCEPT !.contribution = FALSE, !.bound = {}, !.tool = None,
                                !.scene = None, !.fresh = FALSE, !.preview = FALSE]
             w == [s.wid EXCEPT !.delta = 0]
             a == [s EXCEPT !.ctl = c]
             b == [a EXCEPT !.wid = w]
             left == ClearPreselection(b)
             at == At(left, {})
  <2>0. s.front = None /\ s.draft = None
    BY <1>1, <1>4 DEF Staged
  <2>1. t = To(at)
    <3>1. b = [s EXCEPT !.ctl.contribution = FALSE, !.ctl.bound = {}, !.ctl.tool = None,
                        !.ctl.scene = None, !.ctl.fresh = FALSE, !.ctl.preview = FALSE,
                        !.wid.delta = 0]
      BY <1>1 DEF States, Controls
    <3> HIDE DEF b
    <3> QED
      BY <1>4, <3>1 DEF SetDocumentSession
  <2>2. /\ c \in Controls /\ c.scene = None /\ c.stack = s.ctl.stack
        /\ c.edgeMode = s.ctl.edgeMode
    BY <1>1 DEF Controls
  <2> HIDE DEF c
  <2>3. /\ a \in States /\ a.doc = s.doc /\ a.front = s.front /\ a.sel = s.sel
        /\ a.ctl = c /\ a.wid = s.wid /\ a.tree = s.tree /\ a.draft = s.draft
    BY <1>1, <2>2, WithCtlIs
  <2> HIDE DEF a
  <2>4. w \in Widgets /\ Steady(w)
    BY <1>1, TokenIs DEF Widgets, Steady, Kept
  <2> HIDE DEF w
  <2>5. /\ b \in States /\ b.doc = s.doc /\ b.front = s.front /\ b.sel = s.sel
        /\ b.ctl = c /\ b.wid = w /\ b.tree = s.tree /\ b.draft = s.draft
    BY <2>3, <2>4, WithWidIs
  <2> HIDE DEF b
  <2>6. Framed(b)
    BY <1>1, <2>2, <2>4, <2>5 DEF Framed, Kept, Scened
  <2>7. Kept(left) /\ Aside(b, left) /\ left.sel = b.sel /\ left.draft = b.draft
    BY <2>6, ClearPreselectionIs
  <2> HIDE DEF left
  <2>8. left \in States /\ left.doc = s.doc /\ left.sel = s.sel /\ left.draft = None
    BY <2>0, <2>5, <2>7 DEF Kept, Aside
  <2>9. [rows |-> rows, selected |-> {}] \in [rows : SUBSET Rows, selected : SUBSET Rows]
    BY <1>1
  <2> HIDE DEF rows
  <2>10. /\ at \in States /\ at.doc = s.doc /\ at.front = d /\ at.sel = s.sel
         /\ at.ctl = left.ctl /\ at.wid = left.wid /\ at.draft = None
         /\ at.tree.rows = rows /\ at.tree.selected = {}
    BY <2>8, <2>9 DEF States
  <2> HIDE DEF at, To
  <2>11. Kept(at)
    BY <2>7, <2>10 DEF Kept, Pointed, Scened, Showing
  <2>12. Bare(at)
    BY <1>1, <2>0, <2>10, ViewportAssumption DEF Bare, Leased
  <2>13. Good(at)
    BY <2>11, <2>12, BareGood
  <2> QED
    BY <1>2, <2>1, <2>10, <2>13
<1> QED
  BY <1>3, <1>4

LEMMA RefreshActiveContextIs ==
    ASSUME NEW s, Good(s), NEW d \in Docs, s.front \in {d, None}, NEW fault
    PROVE  LET t == RefreshActiveContext(s, d, fault)
           IN  Inv(t) /\ t.front = d /\ t.doc = s.doc
<1> DEFINE u == SetDocumentSession(s, d, fault)
           t == RefreshActiveContext(s, d, fault)
<1>1. Inv(u) /\ u.front = d /\ u.doc = s.doc
  BY SetDocumentSessionIs
<1>2. t = IF u.draft = None THEN u ELSE RefreshEdgePreview(u)
  BY DEF RefreshActiveContext
<1> HIDE DEF u, t
<1>3. CASE u.draft = None
  BY <1>1, <1>2, <1>3 DEF t
<1>4. CASE u.draft # None
  <2>1. Kept(t) /\ Undisturbed(u, t) /\ t.draft = u.draft
    BY <1>1, <1>2, <1>4, RefreshUndisturbed DEF Inv, Good
  <2>2. Inv(t)
    BY <1>1, <2>1, UndisturbedKeeps, AsideShows DEF Inv, Good, InStep, Undisturbed
  <2> QED
    BY <1>1, <2>1, <2>2 DEF Undisturbed, Aside, t
<1> QED
  BY <1>3, <1>4

LEMMA NavigateToFeatureIs ==
    ASSUME NEW s, Inv(s), s.front # None
    PROVE  Inv(NavigateToFeature(s))
<1> DEFINE u == [s EXCEPT !.tree.selected = {"feature"} \cap s.tree.rows]
           x == [Selection(u) EXCEPT !.items = @ \ {"profile"}]
           v == Select(u, x)
           t == NavigateToFeature(s)
<1>1. t = NotifySelectionChanged(ApplySelectionToSurfaces(v), FALSE)
  BY DEF NavigateToFeature
<1>2. /\ Kept(s) /\ s \in States /\ Leased(s) /\ Staged(s) /\ Shows(s) /\ Current(s) /\ Rowed(s)
  BY DEF Inv, Good, Kept, Drafted, InStep
<1>3. {"feature"} \cap s.tree.rows \in SUBSET Rows
  BY DEF Rows
<1>4. Kept(u) /\ Aside(s, u) /\ u.sel = s.sel /\ u.draft = s.draft
  BY <1>2, <1>3, WithSelectedIs
<1> HIDE DEF u
<1>5. /\ Leased(u) /\ Staged(u) /\ Shows(u) /\ Current(u) /\ Rowed(u) /\ u.front # None
      /\ u \in States
  BY <1>2, <1>4, AsideKeeps, AsideShows DEF Aside, Kept
<1>6. /\ x \in Selections /\ x.body = Selection(u).body
      /\ x.generation = Selection(u).generation
  BY <1>5, FrontIs DEF Selections
<1> HIDE DEF x
<1>7. OfBody(x, Showing(u))
  BY <1>5, <1>6, LeasedIs DEF OfBody
<1>8. Framed(u)
  BY <1>4 DEF Framed, Kept
<1>9. Leased(v) /\ Kept(v) /\ Aside(u, v) /\ v.draft = u.draft
  <2>1. Leased(v)
    BY <1>5, <1>6, <1>7, <1>8, LeasedIs, SelectLeased
  <2>2. Framed(v) /\ (Pointed(u) => Pointed(v)) /\ Aside(u, v) /\ v.draft = u.draft
    BY <1>5, <1>6, <1>8, SelectIs
  <2> HIDE DEF v
  <2> QED
    BY <1>4, <2>1, <2>2 DEF Framed, Kept
<1> HIDE DEF v
<1>10. Staged(v) /\ Shows(v) /\ Current(v) /\ Rowed(v) /\ v.front # None
  BY <1>5, <1>9, AsideShows DEF Staged, Aside
<1>11. Good(t) /\ Shows(t) /\ Agreed(t) /\ Current(t) /\ Rowed(t)
  BY <1>1, <1>9, <1>10, AppliedIs
<1> QED
  BY <1>11 DEF Inv, InStep

-----------------------------------------------------------------------------
(* What every step leads to *)

LEMMA NowIs ==
    /\ Now.doc = doc /\ Now.front = front /\ Now.sel = sel /\ Now.ctl = ctl
    /\ Now.wid = wid /\ Now.tree = tree /\ Now.draft = draft
BY DEF Now

LEMMA BecomeKeeps ==
    ASSUME NEW s, Inv(s), Become(s)
    PROVE  ViewportInv' /\ Now' = s
<1>1. s \in States
  BY DEF Inv, Good, Kept
<1>2. s = [doc |-> s.doc, front |-> s.front, sel |-> s.sel, ctl |-> s.ctl, wid |-> s.wid,
           tree |-> s.tree, draft |-> s.draft]
  BY <1>1 DEF States
<1>3. Now' = s
  BY <1>2 DEF Now, Become
<1> QED
  BY <1>3 DEF ViewportInv

\* What one needs to know of a state in which something else is to be selected.
Ready(s) ==
    Kept(s) /\ Leased(s) /\ Staged(s) /\ Shows(s) /\ Current(s) /\ Rowed(s)

LEMMA InvReady ==
    ASSUME NEW s, Inv(s)
    PROVE  /\ Ready(s) /\ s \in States /\ Good(s) /\ InStep(s) /\ Drafted(s) /\ Told(s)
           /\ Agreed(s)
BY DEF Inv, Ready, Good, Kept, Drafted, InStep

LEMMA UndisturbedInv ==
    ASSUME NEW s, Inv(s), NEW t, Kept(t), Undisturbed(s, t), t.draft = s.draft
    PROVE  Inv(t)
BY UndisturbedKeeps, AsideShows DEF Inv, Good, InStep, Undisturbed

LEMMA ClearPreselectionInv ==
    ASSUME NEW s, Inv(s)
    PROVE  LET t == ClearPreselection(s)
           IN  /\ Inv(t) /\ Undisturbed(s, t) /\ t.draft = s.draft
               /\ t.sel = s.sel /\ t.ctl.stack = None /\ t.wid.hover = None
<1> DEFINE t == ClearPreselection(s)
<1>1. Framed(s) /\ s.ctl \in Controls /\ s.wid \in Widgets
  BY DEF Inv, Good, Kept, Framed, States
<1>2. /\ Kept(t) /\ Aside(s, t) /\ t.sel = s.sel /\ t.tree = s.tree /\ t.draft = s.draft
      /\ t.ctl = [s.ctl EXCEPT !.stack = None] /\ t.wid = [s.wid EXCEPT !.hover = None]
  BY <1>1, ClearPreselectionIs
<1> HIDE DEF t
<1>3. Undisturbed(s, t) /\ t.ctl.stack = None /\ t.wid.hover = None
  BY <1>1, <1>2 DEF Undisturbed, Controls, Widgets
<1> QED
  BY <1>2, <1>3, UndisturbedInv DEF t

\* Whatever is selected, and of whatever rows of the tree, everything agrees
\* again once it is applied and told.
LEMMA SelectInv ==
    ASSUME NEW s, Ready(s), s.front # None, NEW x \in Selections, OfBody(x, Showing(s))
    PROVE  LET t == NotifySelectionChanged(ApplySelectionToSurfaces(Select(s, x)), FALSE)
           IN  /\ Inv(t) /\ Aside(s, t)
               /\ x.body = <<>> => Selection(t).body = <<>>
               /\ s.draft = None => Selection(t) = x
<1> DEFINE u == Select(s, x)
           t == NotifySelectionChanged(ApplySelectionToSurfaces(u), FALSE)
<1>1. Framed(s) /\ Pointed(s) /\ s \in States
  BY DEF Ready, Kept, Framed
<1>2. /\ Framed(u) /\ Pointed(u) /\ Aside(s, u) /\ Selection(u) = x /\ u.draft = s.draft
  BY <1>1, SelectIs
<1>3. Leased(u)
  BY <1>1, LeasedIs, SelectLeased DEF Ready
<1> HIDE DEF u
<1>4. Kept(u)
  BY <1>2 DEF Framed, Kept
<1>5. /\ Staged(u) /\ u.front # None
  BY <1>2 DEF Ready, Staged, Aside
<1>6. Shows(u) /\ Current(u) /\ Rowed(u)
  BY <1>2, AsideShows DEF Ready
<1>7. /\ Good(t) /\ Aside(u, t) /\ Shows(t) /\ Agreed(t) /\ Current(t) /\ Rowed(t)
      /\ Selection(u).body = <<>> => t.sel = u.sel
  BY <1>3, <1>4, <1>5, <1>6, AppliedIs
<1>8. u.draft = None => t.sel = u.sel
  BY <1>3, <1>4, <1>5, NotifySelectionChangedIs
<1> HIDE DEF t
<1>9. /\ x.body = <<>> => Selection(t).body = <<>>
      /\ s.draft = None => Selection(t) = x
  BY <1>2, <1>7, <1>8 DEF Aside, Selection
<1>10. Inv(t) /\ Aside(s, t)
  BY <1>2, <1>7, AsideIs DEF Inv, InStep
<1> QED
  BY <1>9, <1>10 DEF t, u

LEMMA WithDocIs ==
    ASSUME NEW s, Good(s), s.front # None, NEW p \in Documents
    PROVE  LET t == [s EXCEPT !.doc[s.front] = p]
           IN  /\ Good(t) /\ t.front = s.front /\ t.doc = [s.doc EXCEPT ![s.front] = p]
               /\ t.tree = s.tree
<1> DEFINE t == [s EXCEPT !.doc[s.front] = p]
<1>1. s \in States /\ s.doc \in [Docs -> Documents]
  BY DEF Good, Kept, States
<1>2. [s.doc EXCEPT ![s.front] = p] \in [Docs -> Documents]
  BY <1>1
<1>3. /\ t \in States /\ t.doc = [s.doc EXCEPT ![s.front] = p] /\ t.front = s.front
      /\ t.sel = s.sel /\ t.ctl = s.ctl /\ t.wid = s.wid /\ t.tree = s.tree
      /\ t.draft = s.draft
  <2>1. t = [s EXCEPT !.doc = [s.doc EXCEPT ![s.front] = p]]
    BY <1>1 DEF States
  <2> HIDE DEF t
  <2> QED
    BY <1>1, <1>2, <2>1 DEF States
<1> HIDE DEF t
<1>4. Selection(t) = Selection(s) /\ Showing(t) = Showing(s)
  BY <1>3 DEF Selection, Showing
<1>5. SelectedEdges(t) = SelectedEdges(s)
  BY <1>3, <1>4 DEF SelectedEdges, Authoring, Bound
<1>6. Kept(t) /\ Leased(t) /\ Drafted(t) /\ Told(t)
  <2>1. Kept(t)
    BY <1>3, <1>4 DEF Good, Kept, Pointed, Scened
  <2>2. Leased(t)
    BY <1>3, <1>4 DEF Good, Leased
  <2>3. Drafted(t)
    BY <1>3, <1>5 DEF Good, Drafted, Staged
  <2>4. Told(t)
    BY <1>3, <1>4 DEF Good, Told
  <2> QED
    BY <2>1, <2>2, <2>3, <2>4
<1> QED
  BY <1>3, <1>6 DEF Good, t

-----------------------------------------------------------------------------
(* One lemma for each action *)

LEMMA InitInv ==
    ASSUME Init
    PROVE  ViewportInv
<1>1. /\ NoSelection \in Selections /\ NoSelection.body = <<>>
  BY EmptyBody, TokenIs DEF Selections, NoSelection
<1>2. /\ Now \in States
  <2>1. sel \in [Docs -> Selections] /\ doc \in [Docs -> Documents]
    BY <1>1, ViewportAssumption DEF Init
  <2>2. ctl \in Controls
    BY TokenIs DEF Init, Controls
  <2>3. wid \in Widgets
    BY TokenIs DEF Init, Widgets
  <2> QED
    BY <2>1, <2>2, <2>3 DEF Init, Now, States
<1>3. Kept(Now)
  BY <1>2, NowIs DEF Init, Kept, Steady, Pointed, Scened
<1>4. Bare(Now)
  BY <1>1, NowIs DEF Init, Bare
<1>5. InStep(Now) /\ Rowed(Now)
  BY NowIs DEF Init, InStep, Shows, Agreed, Current, Rowed
<1> QED
  BY <1>3, <1>4, <1>5, BareGood DEF ViewportInv, Inv

LEMMA ActivateKeeps ==
    ASSUME ViewportInv, NEW d \in Docs, NEW fault, Activate(d, fault)
    PROVE  ViewportInv'
<1> DEFINE s == IF front = None THEN Now ELSE Clear(CloseTools(Now, fault))
           t == RefreshActiveContext(s, d, fault)
<1>1. Good(s) /\ s.front = None
  <2>1. CASE front = None
    BY <2>1, NowIs, InvReady DEF ViewportInv
  <2>2. CASE front # None
    <3> DEFINE u == CloseTools(Now, fault)
    <3>1. /\ Kept(u) /\ u.draft = None /\ \A k \in Docs : u.sel[k].body = <<>>
      BY <2>2, NowIs, InvReady, CloseToolsIs DEF ViewportInv, Good
    <3>2. s = Clear(u)
      BY <2>2
    <3> HIDE DEF u, s
    <3> QED
      BY <3>1, <3>2, ClearIs, InvReady
  <2> QED
    BY <2>1, <2>2
<1>2. Become(t)
  BY DEF Activate
<1> HIDE DEF s
<1>3. Inv(t)
  BY <1>1, RefreshActiveContextIs
<1> QED
  BY <1>2, <1>3, BecomeKeeps

LEMMA DeactivateKeeps ==
    ASSUME ViewportInv, NEW fault, Deactivate(fault)
    PROVE  ViewportInv'
<1> DEFINE s == CloseTools(Now, fault)
           t == CloseTools(s, fault)
           u == Clear(t)
<1>1. Good(s) /\ InStep(s) /\ s.front # None
  BY NowIs, InvReady, CloseToolsIs DEF ViewportInv, Deactivate
<1>2. Become(u)
  BY DEF Deactivate
<1> HIDE DEF s
<1>3. Kept(t) /\ t.draft = None /\ \A k \in Docs : t.sel[k].body = <<>>
  BY <1>1, CloseToolsIs DEF Good
<1> HIDE DEF t
<1>4. Inv(u)
  BY <1>3, ClearIs
<1> QED
  BY <1>2, <1>4, BecomeKeeps

LEMMA ChangeKeeps ==
    ASSUME ViewportInv, NEW p, NEW fault, Change(p, fault)
    PROVE  ViewportInv'
<1> DEFINE q == [p EXCEPT !.revision = doc[front].revision + 1]
           s == [Now EXCEPT !.doc[front] = q]
           t == RefreshActiveContext(s, front, fault)
<1>1. /\ front # None /\ front \in Docs /\ Good(Now) /\ doc[front] \in Documents
      /\ p \in Documents
  <2>1. front # None /\ p \in Changes[front]
    BY DEF Change
  <2>2. front \in Docs /\ doc[front] \in Documents
    BY <2>1, NowIs, InvReady, FrontIs DEF ViewportInv, Part
  <2> QED
    BY <2>1, <2>2, InvReady, ViewportAssumption DEF ViewportInv
<1>2. q \in Documents
  BY <1>1 DEF Documents
<1>3. Become(t)
  BY DEF Change
<1> HIDE DEF q
<1>4. Good(s) /\ s.front = front
  <2>1. s = [Now EXCEPT !.doc[Now.front] = q] /\ Now.front # None
    BY <1>1, NowIs
  <2> HIDE DEF s
  <2> QED
    BY <1>1, <1>2, <2>1, NowIs, WithDocIs
<1> HIDE DEF s
<1>5. Inv(t)
  BY <1>1, <1>4, RefreshActiveContextIs
<1> QED
  BY <1>3, <1>5, BecomeKeeps

LEMMA SaveKeeps ==
    ASSUME ViewportInv, NEW fault, Save(fault)
    PROVE  ViewportInv'
<1> DEFINE t == RefreshActiveContext(Now, front, fault)
<1>1. front # None /\ front \in Docs /\ Good(Now) /\ Now.front = front /\ Become(t)
  BY NowIs, InvReady, FrontIs DEF ViewportInv, Save
<1>2. Inv(t)
  BY <1>1, RefreshActiveContextIs
<1> QED
  BY <1>1, <1>2, BecomeKeeps

LEMMA ShowAxisDraftKeeps ==
    ASSUME ViewportInv, NEW on \in BOOLEAN, NEW fault, ShowAxisDraft(on, fault)
    PROVE  ViewportInv'
<1> DEFINE t == SetAxisDraftPreview(Now, on, fault)
<1>1. Good(Now) /\ InStep(Now) /\ Rowed(Now) /\ Now.front # None /\ Become(t)
  BY NowIs, InvReady DEF ViewportInv, ShowAxisDraft, Inv
<1>2. Good(t) /\ InStep(t) /\ Beside(Now, t)
  BY <1>1, SetAxisDraftPreviewIs
<1> HIDE DEF t
<1>3. Rowed(t)
  BY <1>1, <1>2 DEF Rowed, Beside
<1> QED
  BY <1>1, <1>2, <1>3, BecomeKeeps DEF Inv

LEMMA EmptySelection ==
    ASSUME NEW items \in SUBSET Items, NEW g
    PROVE  LET x == [items |-> items, body |-> <<>>, generation |-> 0]
           IN  x \in Selections /\ x.body = <<>> /\ OfBody(x, g)
<1> DEFINE x == [items |-> items, body |-> <<>>, generation |-> 0]
<1>1. x \in Selections /\ x.body = <<>>
  BY EmptyBody, TokenIs DEF Selections
<1> HIDE DEF x
<1>2. OfBody(x, g)
  BY <1>1, EmptyBody DEF OfBody
<1> QED
  BY <1>1, <1>2 DEF x

LEMMA SelectInTreeKeeps ==
    ASSUME ViewportInv, NEW rows \in SUBSET Rows, SelectInTree(rows)
    PROVE  ViewportInv'
<1> DEFINE r == [Now EXCEPT !.tree.selected = rows]
           s == ClearPreselection(r)
           x == [items |-> rows \cap Items, body |-> <<>>, generation |-> 0]
           u == NotifySelectionChanged(ApplySelectionToSurfaces(Select(s, x)), FALSE)
           on == "feature" \in rows
           t == SetFeatureContribution(u, on)
<1>1. Inv(Now) /\ Now.front # None /\ rows \subseteq Now.tree.rows /\ Ready(Now) /\ Kept(Now)
      /\ Now \in States
  BY NowIs, InvReady DEF ViewportInv, SelectInTree, Ready
<1>2. Become(t)
  BY DEF SelectInTree
<1>3. Kept(r) /\ Aside(Now, r) /\ r.sel = Now.sel /\ r.draft = Now.draft
  BY <1>1, WithSelectedIs
<1> HIDE DEF r
<1>4. Ready(r)
  BY <1>1, <1>3, AsideKeeps, AsideShows DEF Ready
<1>5. Kept(s) /\ Aside(r, s) /\ s.sel = r.sel /\ s.draft = r.draft
  BY <1>3, ClearPreselectionIs DEF Kept, Framed
<1> HIDE DEF s
<1>6. Ready(s) /\ s.front # None
  BY <1>1, <1>3, <1>4, <1>5, AsideKeeps, AsideShows DEF Ready, Aside
<1>7. x \in Selections /\ x.body = <<>> /\ OfBody(x, Showing(s))
  <2>1. rows \cap Items \in SUBSET Items
    OBVIOUS
  <2> QED
    BY <2>1, EmptySelection
<1> HIDE DEF x
<1>8. Inv(u) /\ Aside(s, u) /\ Selection(u).body = <<>>
  BY <1>6, <1>7, SelectInv
<1> HIDE DEF u
<1>9. Kept(u) /\ Leased(u) /\ Drafted(u) /\ Told(u) /\ InStep(u) /\ Rowed(u)
  BY <1>8 DEF Inv, Good
<1>10. on \in BOOLEAN
  OBVIOUS
<1> HIDE DEF on
<1>11. /\ Kept(t) /\ Aside(u, t) /\ t.sel = u.sel /\ t.tree = u.tree /\ t.draft = u.draft
       /\ t.wid.items = u.wid.items /\ t.wid.chosen = u.wid.chosen
       /\ t.wid.marks = u.wid.marks
  BY <1>9, <1>10, SetFeatureContributionIs
<1> HIDE DEF t
<1>12. Leased(t) /\ Drafted(t) /\ Selection(t) = Selection(u) /\ Shows(t) /\ Current(t)
       /\ Rowed(t)
  BY <1>9, <1>11, AsideKeeps, AsideShows DEF InStep
<1>13. Told(t)
  BY <1>8, <1>12 DEF Told
<1>14. Agreed(t)
  BY <1>8, <1>9, <1>11, <1>12 DEF InStep, Agreed, Aside
<1>15. Inv(t)
  BY <1>11, <1>12, <1>13, <1>14 DEF Inv, Good, InStep
<1> QED
  BY <1>2, <1>15, BecomeKeeps

LEMMA ClickItemKeeps ==
    ASSUME ViewportInv, NEW i \in Items, NEW toggle \in BOOLEAN, ClickItem(i, toggle)
    PROVE  ViewportInv'
<1> DEFINE s == ClearPreselection(Now)
           x == Selection(s)
           y == IF toggle THEN [x EXCEPT !.items = Toggled(i, @)]
                ELSE [items |-> {i}, body |-> <<>>, generation |-> 0]
           u == NotifySelectionChanged(ApplySelectionToSurfaces(Select(s, y)), FALSE)
<1>1. Inv(Now) /\ Now.front # None
  BY NowIs DEF ViewportInv, ClickItem
<1>2. Become(IF i \in ctl.bound THEN u ELSE s)
  BY DEF ClickItem
<1>3. Inv(s) /\ Undisturbed(Now, s)
  BY <1>1, ClearPreselectionInv
<1> HIDE DEF s
<1>4. Ready(s) /\ s.front # None /\ s \in States /\ Leased(s)
  BY <1>1, <1>3, InvReady DEF Undisturbed, Aside, Ready
<1>5. y \in Selections /\ OfBody(y, Showing(s))
  <2>1. CASE toggle
    <3>1. x \in Selections /\ OfBody(x, Showing(s)) /\ x.items \in SUBSET Items
      BY <1>4, FrontIs, LeasedIs
    <3>2. Toggled(i, x.items) \in SUBSET Items
      BY <3>1 DEF Toggled
    <3>3. y = [x EXCEPT !.items = Toggled(i, x.items)]
      BY <2>1
    <3> HIDE DEF x, y
    <3>4. y \in Selections /\ y.body = x.body /\ y.generation = x.generation
      BY <3>1, <3>2, <3>3 DEF Selections
    <3> QED
      BY <3>1, <3>4 DEF OfBody
  <2>2. CASE ~toggle
    <3>1. {i} \in SUBSET Items
      OBVIOUS
    <3> QED
      BY <2>2, <3>1, EmptySelection
  <2> QED
    BY <2>1, <2>2
<1> HIDE DEF y
<1>6. Inv(u)
  BY <1>4, <1>5, SelectInv
<1> HIDE DEF u
<1> QED
  BY <1>2, <1>3, <1>6, BecomeKeeps

LEMMA ClickNothingKeeps ==
    ASSUME ViewportInv, ClickNothing
    PROVE  ViewportInv'
<1> DEFINE s == ClearPreselection(Now)
           u == NotifySelectionChanged(ApplySelectionToSurfaces(Select(s, NoSelection)), FALSE)
<1>1. Inv(Now) /\ Now.front # None
  BY NowIs DEF ViewportInv, ClickNothing
<1>2. Become(u)
  BY DEF ClickNothing
<1>3. Inv(s) /\ Undisturbed(Now, s)
  BY <1>1, ClearPreselectionInv
<1> HIDE DEF s
<1>4. Ready(s) /\ s.front # None
  BY <1>1, <1>3, InvReady DEF Undisturbed, Aside
<1>5. NoSelection \in Selections /\ OfBody(NoSelection, Showing(s))
  <2>1. {} \in SUBSET Items
    OBVIOUS
  <2> QED
    BY <2>1, EmptySelection DEF NoSelection
<1>6. Inv(u)
  BY <1>4, <1>5, SelectInv
<1> HIDE DEF u
<1> QED
  BY <1>2, <1>6, BecomeKeeps

-----------------------------------------------------------------------------
(* What lies under the pointer *)

\* What satisfies a downward closed condition are the first so many.
LEMMA FirstOnes ==
    ASSUME NEW n \in Nat, NEW I \in SUBSET (1 .. n),
           \A i, j \in 1 .. n : i < j /\ j \in I => i \in I
    PROVE  /\ IsFiniteSet(I) /\ Cardinality(I) \in 0 .. n
           /\ I = 1 .. Cardinality(I)
<1> DEFINE c == Cardinality(I)
<1>1. IsFiniteSet(1 .. n) /\ Cardinality(1 .. n) = n
  BY FS_Interval
<1>2. IsFiniteSet(I) /\ c \in Nat /\ c <= n
  BY <1>1, FS_Subset, FS_CardinalityType
<1> HIDE DEF c
<1>3. ASSUME NEW i \in I
      PROVE  i \in 1 .. c
  <2>1. i \in 1 .. n /\ 1 .. i \subseteq I
    OBVIOUS
  <2>2. Cardinality(1 .. i) = i
    BY <2>1, FS_Interval
  <2>3. Cardinality(1 .. i) <= c
    BY <1>2, <2>1, FS_Subset DEF c
  <2> QED
    BY <1>2, <2>1, <2>2, <2>3
<1>4. ASSUME NEW j \in 1 .. c, j \notin I
      PROVE  FALSE
  <2>1. j \in 1 .. n /\ j - 1 \in Nat
    BY <1>2
  <2>2. I \subseteq 1 .. (j - 1)
    <3> SUFFICES ASSUME NEW i \in I
                 PROVE  i \in 1 .. (j - 1)
      OBVIOUS
    <3>1. i \in 1 .. n /\ ~(j < i) /\ i # j
      BY <2>1, <1>4
    <3> QED
      BY <2>1, <3>1
  <2>3. IsFiniteSet(1 .. (j - 1)) /\ Cardinality(1 .. (j - 1)) = j - 1
    BY <2>1, FS_Interval
  <2>4. c <= j - 1
    BY <2>2, <2>3, FS_Subset DEF c
  <2> QED
    BY <1>2, <2>1, <2>4
<1>5. I = 1 .. c
  <2>1. I \subseteq 1 .. c
    BY <1>3
  <2>2. 1 .. c \subseteq I
    BY <1>4
  <2> QED
    BY <2>1, <2>2
<1> QED
  BY <1>2, <1>5 DEF c

\* The edges under the pointer come first, and there are as many as the ones
\* that an edge draft is after.
LEMMA EdgesFirst ==
    ASSUME NEW q \in Queries
    PROVE  LET n == Cardinality(Range(q) \cap Edges)
           IN  /\ n \in 0 .. Len(q)
               /\ SubSeq(q, 1, n) \in Seq(Elements)
               /\ Range(SubSeq(q, 1, n)) = Range(q) \cap Edges
<1> DEFINE I == {i \in 1 .. Len(q) : q[i] \in Edges}
           E == Range(q) \cap Edges
           n == Cardinality(E)
<1>1. /\ q \in Seq(Elements) /\ Len(q) \in Nat /\ DOMAIN q = 1 .. Len(q)
      /\ IsInjective(q)
      /\ \A i, j \in 1 .. Len(q) : i < j /\ q[j] \in Edges => q[i] \in Edges
  BY ViewportAssumption
<1>2. IsFiniteSet(I) /\ Cardinality(I) \in 0 .. Len(q) /\ I = 1 .. Cardinality(I)
  <2>1. I \in SUBSET (1 .. Len(q))
    OBVIOUS
  <2>2. \A i, j \in 1 .. Len(q) : i < j /\ j \in I => i \in I
    BY <1>1
  <2> HIDE DEF I
  <2> QED
    BY <1>1, <2>1, <2>2, FirstOnes
<1>3. ExistsBijection(I, E)
  <2> DEFINE f == [i \in I |-> q[i]]
  <2>1. f \in [I -> E]
    BY <1>1 DEF Range
  <2>2. \A a, b \in I : f[a] = f[b] => a = b
    BY <1>1 DEF IsInjective
  <2>3. \A e \in E : \E i \in I : f[i] = e
    BY <1>1 DEF Range
  <2> HIDE DEF f, I, E
  <2>4. f \in Bijection(I, E)
    BY <2>1, <2>2, <2>3 DEF Bijection, Injection, Surjection, IsInjective
  <2> QED
    BY <2>4 DEF ExistsBijection
<1>4. n = Cardinality(I)
  <2> HIDE DEF I, E
  <2> QED
    BY <1>2, <1>3, FS_Bijection
<1>5. n \in 0 .. Len(q) /\ I = 1 .. n
  BY <1>2, <1>4
<1> HIDE DEF n
<1>6. /\ SubSeq(q, 1, n) \in Seq(Elements) /\ Len(SubSeq(q, 1, n)) = n
      /\ \A i \in 1 .. n : SubSeq(q, 1, n)[i] = q[i]
  BY <1>1, <1>5, SubSeqProperties
<1>7. Range(SubSeq(q, 1, n)) = E
  <2>1. DOMAIN SubSeq(q, 1, n) = 1 .. n
    BY <1>6
  <2>2. Range(SubSeq(q, 1, n)) = {q[i] : i \in I}
    BY <1>5, <1>6, <2>1 DEF Range
  <2> QED
    BY <1>1, <2>2 DEF Range
<1> QED
  BY <1>5, <1>6, <1>7 DEF n

LEMMA AppendIs ==
    ASSUME NEW S, NEW q \in Seq(S), NEW e \in S
    PROVE  LET r == Append(q, e)
           IN  /\ r \in Seq(S) /\ r # <<>> /\ Range(r) = Range(q) \cup {e}
               /\ IsInjective(q) /\ e \notin Range(q) => IsInjective(r)
<1> DEFINE r == Append(q, e)
           n == Len(q)
<1>1. /\ n \in Nat /\ DOMAIN q = 1 .. n /\ r \in Seq(S) /\ DOMAIN r = 1 .. n + 1
      /\ \A i \in 1 .. n : r[i] = q[i]
      /\ r[n + 1] = e /\ r # <<>>
  BY AppendProperties
<1> HIDE DEF r, n
<1>2. \A i \in 1 .. n + 1 : i \in 1 .. n \/ i = n + 1
  BY <1>1
<1>3. n + 1 \in 1 .. n + 1 /\ 1 .. n \subseteq 1 .. n + 1
  BY <1>1
<1>4. Range(r) = Range(q) \cup {e}
  BY <1>1, <1>2, <1>3 DEF Range
<1>5. ASSUME IsInjective(q), e \notin Range(q)
      PROVE  IsInjective(r)
  <2> SUFFICES ASSUME NEW a \in 1 .. n + 1, NEW b \in 1 .. n + 1, r[a] = r[b]
               PROVE  a = b
    BY <1>1 DEF IsInjective
  <2>1. \A i \in 1 .. n : r[i] # e
    BY <1>1, <1>5 DEF Range
  <2>2. CASE a \in 1 .. n /\ b \in 1 .. n
    BY <1>1, <1>5, <2>2 DEF IsInjective
  <2> QED
    BY <1>1, <1>2, <2>1, <2>2
<1> QED
  BY <1>1, <1>4, <1>5 DEF r

LEMMA QueryIs ==
    ASSUME NEW q \in Queries
    PROVE  /\ q \in Seq(Elements) /\ q # <<>>
           /\ SubSeq(q, 1, Cardinality(Range(q) \cap Edges)) \in Seq(Elements)
           /\ Range(SubSeq(q, 1, Cardinality(Range(q) \cap Edges))) = Range(q) \cap Edges
BY EdgesFirst, ViewportAssumption

\* Nothing is found but on the body that is shown, and by a draft only edges.
LEMMA RankedIs ==
    ASSUME NEW q \in Queries, ViewportInv
    PROVE  /\ Ranked(q) \in Seq(Elements)
           /\ Range(Ranked(q)) \subseteq Range(q)
           /\ ctl.edgeMode => Range(Ranked(q)) \subseteq Edges
           /\ Range(q) \cap Edges \subseteq Range(Ranked(q)) \/ Ranked(q) = <<>>
           /\ Ranked(q) # <<>> => /\ Authoring(Now) /\ ctl.scene # None
                                  /\ wid.body # 0 /\ wid.body = Showing(Now)
                                  /\ ~ctl.edgeMode => Ranked(q) = q
<1>1. CASE ~Authoring(Now) \/ wid.body = 0 \/ ctl.scene.generation # wid.body
  <2>1. Ranked(q) = <<>> /\ Range(<<>>) = {} /\ <<>> \in Seq(Elements)
    BY <1>1 DEF Ranked, Range
  <2> QED
    BY <2>1
<1>2. CASE ~(~Authoring(Now) \/ wid.body = 0 \/ ctl.scene.generation # wid.body)
  <2>1. ctl.scene # None /\ wid.body = Showing(Now)
    BY <1>2, NowIs DEF Authoring, Showing
  <2>2. CASE ctl.edgeMode
    <3>1. Ranked(q) = SubSeq(q, 1, Cardinality(Range(q) \cap Edges))
      BY <1>2, <2>2 DEF Ranked
    <3> QED
      BY <1>2, <2>1, <2>2, <3>1, QueryIs
  <2>3. CASE ~ctl.edgeMode
    <3>1. Ranked(q) = q
      BY <1>2, <2>3 DEF Ranked
    <3> QED
      BY <1>2, <2>1, <2>3, <3>1, QueryIs
  <2> QED
    BY <2>2, <2>3
<1> QED
  BY <1>1, <1>2

\* The pointer is over what is active in the stack.
LEMMA ShowCandidateInv ==
    ASSUME NEW s, Inv(s), NEW stack \in Stacks,
           stack.active \in DOMAIN stack.candidates,
           stack.generation = s.wid.body,
           s.ctl.scene # None => stack.generation = Showing(s),
           s.ctl.edgeMode => Range(stack.candidates) \subseteq Edges
    PROVE  Inv(ShowCandidate(s, stack))
<1> DEFINE token == <<stack.generation, stack.candidates[stack.active]>>
           w == SetPreselection(s.wid, token)
           c == [s.ctl EXCEPT !.stack = stack]
           t == [s EXCEPT !.ctl = c, !.wid = w]
<1>1. Kept(s) /\ s \in States /\ s.ctl \in Controls /\ s.wid \in Widgets /\ Steady(s.wid)
  BY InvReady, StatesAre DEF Ready, Kept
<1>2. token \in Tokens /\ token # None /\ token[1] = s.wid.body
  <2>1. token \in Tokens
    BY StackIs
  <2> QED
    BY <2>1, TokenIs
<1> HIDE DEF token
<1>3. /\ w \in Widgets /\ Steady(w) /\ w.hover = token
      /\ w.body = s.wid.body /\ w.shows = s.wid.shows /\ w.items = s.wid.items
      /\ w.chosen = s.wid.chosen /\ w.marks = s.wid.marks
  BY <1>1, <1>2, SetPreselectionIs
<1>4. /\ c \in Controls /\ c.stack = stack
      /\ c.scene = s.ctl.scene /\ c.fresh = s.ctl.fresh /\ c.next = s.ctl.next
      /\ c.tool = s.ctl.tool /\ c.edgeMode = s.ctl.edgeMode /\ c.bound = s.ctl.bound
      /\ c.contribution = s.ctl.contribution
  BY <1>1 DEF Controls
<1>5. stack # None
  BY StackIs
<1> HIDE DEF w, c
<1>6. /\ t \in States /\ t.doc = s.doc /\ t.front = s.front /\ t.sel = s.sel
      /\ t.ctl = c /\ t.wid = w /\ t.tree = s.tree /\ t.draft = s.draft
  BY <1>1, <1>3, <1>4 DEF States
<1>7. ShowCandidate(s, stack) = t
  <2> DEFINE r == [s EXCEPT !.ctl.stack = stack, !.wid = SetPreselection(@, token)]
  <2>1. r = t
    BY <1>1 DEF States, c, w
  <2>2. r.wid.hover # None
    BY <1>2, <1>3, <1>6, <2>1
  <2>3. ShowCandidate(s, stack) = IF r.wid.hover = None THEN ClearPreselection(r) ELSE r
    BY DEF ShowCandidate, token
  <2> QED
    BY <2>1, <2>2, <2>3
<1> HIDE DEF t
<1>8. Kept(t)
  <2>1. Pointed(t)
    BY <1>3, <1>4, <1>5, <1>6 DEF Pointed, Showing, token
  <2>2. Scened(t) /\ t.tree.selected \subseteq t.tree.rows
    BY <1>1, <1>4, <1>6 DEF Kept, Scened
  <2> QED
    BY <1>3, <1>6, <2>1, <2>2 DEF Kept
<1>9. Drawn(s, t)
  BY <1>4, <1>6 DEF Drawn
<1>10. Inv(t)
  <2>1. Good(t) /\ Current(t) /\ Rowed(t) /\ Selection(t) = Selection(s)
    BY <1>8, <1>9, DrawnKeeps DEF Inv, InStep
  <2>2. Shows(t)
    BY <1>3, <1>6, <1>9, DrawnKeeps DEF Inv, InStep, Shows
  <2>3. Agreed(t)
    BY <1>3, <1>4, <1>6, <2>1 DEF Inv, InStep, Agreed
  <2> QED
    BY <2>1, <2>2, <2>3 DEF Inv, InStep
<1> QED
  BY <1>7, <1>10

LEMMA HoverKeeps ==
    ASSUME ViewportInv, NEW q \in Queries, NEW still \in BOOLEAN, NEW kept \in BOOLEAN,
           Hover(q, still, kept)
    PROVE  ViewportInv'
<1> DEFINE found == Ranked(q)
           old == ctl.stack
           same == old # None /\ old.generation = wid.body
           taken == kept /\ same /\ old.candidates[old.active] \in Range(found) \cap Edges
           index == IF taken
                    THEN CHOOSE k \in DOMAIN found :
                            found[k] = old.candidates[old.active]
                    ELSE 1
           fresh == [generation |-> wid.body, candidates |-> found, active |-> index]
           stack == IF still /\ same /\ old.candidates = found THEN old ELSE fresh
           u == IF found = <<>> THEN ClearPreselection(Now) ELSE ShowCandidate(Now, stack)
<1>1. Inv(Now) /\ Become(u)
  BY DEF ViewportInv, Hover
<1>2. /\ found \in Seq(Elements)
      /\ ctl.edgeMode => Range(found) \subseteq Edges
      /\ found # <<>> => ctl.scene # None /\ wid.body # 0 /\ wid.body = Showing(Now)
  BY RankedIs
<1> HIDE DEF found
<1>3. CASE found = <<>>
  <2>1. u = ClearPreselection(Now) /\ Inv(ClearPreselection(Now))
    BY <1>1, <1>3, ClearPreselectionInv
  <2> HIDE DEF u
  <2> QED
    BY <1>1, <2>1, BecomeKeeps
<1>4. CASE found # <<>>
  <2>1. /\ Now \in States /\ Pointed(Now) /\ ctl \in Controls /\ wid \in Widgets
        /\ wid.body \in 1 .. MaxGeneration
    <3>1. Now \in States /\ Pointed(Now)
      BY <1>1, InvReady DEF Ready, Kept
    <3>2. ctl \in Controls /\ wid \in Widgets
      BY <3>1, StatesAre, NowIs
    <3> QED
      BY <1>2, <1>4, <3>1, <3>2, WidgetsAre, TokenIs DEF Generations
  <2>2. index \in DOMAIN found
    <3>1. 1 \in DOMAIN found
      BY <1>2, <1>4, EmptySeq, LenProperties
    <3>2. taken => \E k \in DOMAIN found : found[k] = old.candidates[old.active]
      BY DEF Range
    <3> HIDE DEF taken
    <3> QED
      BY <3>1, <3>2
  <2> HIDE DEF index
  <2>3. /\ fresh \in Stacks /\ fresh.active \in DOMAIN fresh.candidates
        /\ fresh.generation = wid.body /\ fresh.candidates = found
    <3>1. index \in Nat
      BY <1>2, <2>2, LenProperties
    <3> QED
      BY <1>2, <2>1, <2>2, <3>1 DEF Stacks
  <2>4. same => /\ old \in Stacks /\ old.active \in DOMAIN old.candidates
                /\ ctl.edgeMode => Range(old.candidates) \subseteq Edges
    BY <2>1, ControlsAre, NowIs DEF Pointed
  <2> HIDE DEF fresh
  <2>5. /\ stack \in Stacks /\ stack.active \in DOMAIN stack.candidates
        /\ stack.generation = wid.body
        /\ ctl.edgeMode => Range(stack.candidates) \subseteq Edges
    BY <1>2, <2>3, <2>4
  <2> HIDE DEF stack
  <2>6. Inv(ShowCandidate(Now, stack))
    BY <1>1, <1>2, <1>4, <2>5, NowIs, ShowCandidateInv
  <2>7. u = ShowCandidate(Now, stack)
    BY <1>4
  <2> HIDE DEF u
  <2> QED
    BY <1>1, <2>6, <2>7, BecomeKeeps
<1> QED
  BY <1>3, <1>4

LEMMA HoverNothingKeeps ==
    ASSUME ViewportInv, HoverNothing
    PROVE  ViewportInv'
<1>1. Inv(Now) /\ Become(ClearPreselection(Now))
  BY DEF ViewportInv, HoverNothing
<1> QED
  BY <1>1, ClearPreselectionInv, BecomeKeeps

LEMMA CycleKeeps ==
    ASSUME ViewportInv, NEW reverse \in BOOLEAN, Cycle(reverse)
    PROVE  ViewportInv'
<1> DEFINE old == ctl.stack
           n == Len(old.candidates)
           to == IF reverse THEN IF old.active = 1 THEN n ELSE old.active - 1
                 ELSE (old.active % n) + 1
           stack == [old EXCEPT !.active = to]
           u == IF Authoring(Now) /\ old.generation = ctl.scene.generation
                THEN ShowCandidate(Now, stack) ELSE ClearPreselection(Now)
<1>1. Inv(Now) /\ Become(u) /\ old # None /\ wid.hover # None
  BY DEF ViewportInv, Cycle
<1>2. CASE Authoring(Now) /\ old.generation = ctl.scene.generation
  <2>1. Now \in States /\ Pointed(Now) /\ Steady(wid)
    BY <1>1, InvReady, NowIs DEF Ready, Kept
  <2>2. ctl \in Controls /\ wid \in Widgets
    BY <2>1, StatesAre, NowIs
  <2>3. /\ old \in Stacks /\ old.active \in DOMAIN old.candidates
        /\ ctl.edgeMode => Range(old.candidates) \subseteq Edges
        /\ wid.hover = <<old.generation, old.candidates[old.active]>>
        /\ ctl.scene # None => old.generation = Showing(Now)
    BY <1>1, <2>1, <2>2, ControlsAre, NowIs DEF Pointed
  <2>4. old.generation = wid.body
    BY <1>1, <2>1, <2>3 DEF Steady
  <2>5. n \in Nat /\ DOMAIN old.candidates = 1 .. n /\ old.active \in 1 .. n
    BY <2>3, LenProperties DEF Stacks
  <2>6. to \in 1 .. n
    <3> HIDE DEF n
    <3>1. \A a \in 1 .. n :
             /\ (a % n) + 1 \in 1 .. n
             /\ a # 1 => a - 1 \in 1 .. n
      BY <2>5
    <3>2. n \in 1 .. n
      BY <2>5
    <3> QED
      BY <2>5, <3>1, <3>2
  <2> HIDE DEF to, n
  <2>7. /\ stack \in Stacks /\ stack.active = to /\ stack.candidates = old.candidates
        /\ stack.generation = old.generation
    BY <2>3, <2>5, <2>6 DEF Stacks
  <2> HIDE DEF stack
  <2>8. Inv(ShowCandidate(Now, stack))
    BY <1>1, <2>3, <2>4, <2>5, <2>6, <2>7, NowIs, ShowCandidateInv
  <2>9. u = ShowCandidate(Now, stack)
    BY <1>2
  <2> HIDE DEF u
  <2> QED
    BY <1>1, <2>8, <2>9, BecomeKeeps
<1>3. CASE ~(Authoring(Now) /\ old.generation = ctl.scene.generation)
  <2>1. u = ClearPreselection(Now) /\ Inv(ClearPreselection(Now))
    BY <1>1, <1>3, ClearPreselectionInv
  <2> HIDE DEF u
  <2> QED
    BY <1>1, <2>1, BecomeKeeps
<1> QED
  BY <1>2, <1>3

LEMMA PrefixIs ==
    ASSUME NEW S, NEW q \in Seq(S), NEW n \in 0 .. Len(q)
    PROVE  LET r == SubSeq(q, 1, n)
           IN  /\ r \in Seq(S) /\ Range(r) \subseteq Range(q)
               /\ IsInjective(q) => IsInjective(r)
<1> DEFINE r == SubSeq(q, 1, n)
<1>1. Len(q) \in Nat /\ DOMAIN q = 1 .. Len(q) /\ n \in Nat /\ 1 .. n \subseteq 1 .. Len(q)
  BY LenProperties
<1>2. r \in Seq(S) /\ Len(r) = n /\ \A i \in 1 .. n : r[i] = q[i]
  BY <1>1, SubSeqProperties
<1>3. DOMAIN r = 1 .. n
  BY <1>2, LenProperties
<1> HIDE DEF r
<1>4. Range(r) \subseteq Range(q)
  BY <1>1, <1>2, <1>3 DEF Range
<1>5. IsInjective(q) => IsInjective(r)
  BY <1>1, <1>2, <1>3 DEF IsInjective
<1> QED
  BY <1>2, <1>4, <1>5 DEF r

LEMMA RemoveAtIs ==
    ASSUME NEW S, NEW q \in Seq(S), IsInjective(q), NEW k \in DOMAIN q
    PROVE  LET r == RemoveAt(q, k)
           IN  /\ r \in Seq(S) /\ IsInjective(r) /\ Range(r) = Range(q) \ {q[k]}
<1> DEFINE r == RemoveAt(q, k)
           n == Len(q)
           a == SubSeq(q, 1, k - 1)
           b == SubSeq(q, k + 1, n)
<1>1. n \in Nat /\ DOMAIN q = 1 .. n /\ k \in 1 .. n
  BY LenProperties
<1> HIDE DEF n
<1>2. a \in Seq(S) /\ Len(a) = k - 1 /\ \A i \in 1 .. k - 1 : a[i] = q[i]
  BY <1>1, SubSeqProperties DEF n
<1>3. b \in Seq(S) /\ Len(b) = n - k /\ \A i \in 1 .. n - k : b[i] = q[k + i]
  <2>1. k + 1 \in 1 .. n + 1
    BY <1>1
  <2>2. /\ b \in Seq(S) /\ Len(b) = n - (k + 1) + 1
        /\ \A i \in 1 .. n - (k + 1) + 1 : b[i] = q[(k + 1) + i - 1]
    BY <1>1, <2>1, SubSeqProperties DEF n
  <2>3. n - (k + 1) + 1 = n - k
    BY <1>1
  <2> HIDE DEF b
  <2>4. ASSUME NEW i \in 1 .. n - k
        PROVE  b[i] = q[k + i]
    <3>1. (k + 1) + i - 1 = k + i
      BY <1>1
    <3>2. b[i] = q[(k + 1) + i - 1]
      BY <2>2, <2>3
    <3> QED
      BY <3>1, <3>2
  <2> QED
    BY <2>2, <2>3, <2>4
<1>4. r = a \o b
  BY DEF RemoveAt, n
<1> HIDE DEF a, b
<1>5. /\ r \in Seq(S) /\ Len(r) = n - 1
      /\ \A i \in 1 .. n - 1 : r[i] = IF i < k THEN q[i] ELSE q[i + 1]
  <2> HIDE DEF r
  <2>0. /\ r \in Seq(S) /\ Len(r) = Len(a) + Len(b)
        /\ \A i \in 1 .. Len(a) + Len(b) :
                r[i] = IF i <= Len(a) THEN a[i] ELSE b[i - Len(a)]
    BY <1>2, <1>3, <1>4, ConcatProperties
  <2>2. Len(r) = n - 1 /\ Len(a) + Len(b) = n - 1
    BY <1>1, <1>2, <1>3, <2>0
  <2>1. /\ r \in Seq(S)
        /\ \A i \in 1 .. n - 1 : r[i] = IF i <= k - 1 THEN a[i] ELSE b[i - (k - 1)]
    BY <1>2, <2>0, <2>2
  <2>3. ASSUME NEW i \in 1 .. n - 1
        PROVE  r[i] = IF i < k THEN q[i] ELSE q[i + 1]
    <3>1. CASE i < k
      <4>1. i \in 1 .. k - 1 /\ i <= k - 1
        BY <1>1, <3>1
      <4> QED
        BY <1>2, <2>1, <2>2, <3>1, <4>1
    <3>2. CASE ~(i < k)
      <4>1. ~(i <= k - 1) /\ i - (k - 1) \in 1 .. n - k /\ k + (i - (k - 1)) = i + 1
        BY <1>1, <3>2
      <4> QED
        BY <1>3, <2>1, <2>2, <3>2, <4>1
    <3> QED
      BY <3>1, <3>2
  <2> QED
    BY <2>1, <2>2, <2>3
<1>6. DOMAIN r = 1 .. n - 1
  BY <1>5, LenProperties
<1> HIDE DEF r
<1> DEFINE at(i) == IF i < k THEN i ELSE i + 1
<1>7. \A i \in 1 .. n - 1 : r[i] = q[at(i)] /\ at(i) \in 1 .. n /\ at(i) # k
  BY <1>1, <1>5
<1>8. \A i, j \in 1 .. n - 1 : at(i) = at(j) => i = j
  BY <1>1
<1>9. \A j \in 1 .. n : j # k => \E i \in 1 .. n - 1 : at(i) = j
  <2> SUFFICES ASSUME NEW j \in 1 .. n, j # k
               PROVE  \E i \in 1 .. n - 1 : at(i) = j
    OBVIOUS
  <2>1. CASE j < k
    BY <1>1, <2>1
  <2>2. CASE ~(j < k)
    <3>1. j - 1 \in 1 .. n - 1 /\ at(j - 1) = j
      BY <1>1, <2>2
    <3> QED
      BY <3>1
  <2> QED
    BY <2>1, <2>2
<1> HIDE DEF at
<1>10. IsInjective(r)
  BY <1>1, <1>6, <1>7, <1>8 DEF IsInjective
<1>11. Range(r) = Range(q) \ {q[k]}
  <2>1. \A j \in 1 .. n : q[j] = q[k] => j = k
    BY <1>1 DEF IsInjective
  <2>2. Range(r) = {r[i] : i \in 1 .. n - 1} /\ Range(q) = {q[j] : j \in 1 .. n}
    BY <1>1, <1>6 DEF Range
  <2>3. \A i \in 1 .. n - 1 : r[i] \in Range(q) \ {q[k]}
    BY <1>7, <2>1, <2>2
  <2>4. \A j \in 1 .. n : j # k => q[j] \in Range(r)
    BY <1>7, <1>9, <2>2
  <2> QED
    BY <2>1, <2>2, <2>3, <2>4
<1> QED
  BY <1>5, <1>10, <1>11 DEF r

\* What a click makes of the elements selected: the one clicked, or it is added
\* to them or taken back.
TakenBody(q, toggle) ==
    LET found == Ranked(q)
        token == <<wid.body, Clicked(found)>>
        x     == Selection(Now)
        old   == IF x.generation = wid.body THEN x.body ELSE <<>>
    IN  IF ~toggle /\ ~ctl.edgeMode THEN <<token>>
        ELSE IF token \in Range(old)
        THEN RemoveAt(old, CHOOSE k \in DOMAIN old : old[k] = token)
        ELSE Append(old, token)

Taken(q, toggle) ==
    [items |-> {}, body |-> TakenBody(q, toggle),
     generation |-> IF TakenBody(q, toggle) = <<>> THEN 0 ELSE wid.body]

LEMMA ClickedIs ==
    ASSUME ViewportInv, NEW q \in Queries, Ranked(q) # <<>>
    PROVE  /\ Clicked(Ranked(q)) \in Range(Ranked(q))
           /\ <<wid.body, Clicked(Ranked(q))>> \in Tokens
           /\ wid.body = Showing(Now) /\ ctl.scene # None
<1> DEFINE found == Ranked(q)
<1>1. found \in Seq(Elements) /\ wid.body # 0 /\ wid.body = Showing(Now) /\ ctl.scene # None
  BY RankedIs
<1> HIDE DEF found
<1>2. Range(found) \subseteq Elements /\ found[1] \in Range(found)
  <2>1. 1 \in DOMAIN found
    BY <1>1, EmptySeq, LenProperties DEF found
  <2> QED
    BY <1>1, <2>1, SeqRange DEF Range
<1>3. Clicked(found) \in Range(found)
  BY <1>2 DEF Clicked
<1>4. wid.body \in 1 .. MaxGeneration
  <2>1. Now \in States
    BY InvReady DEF ViewportInv
  <2> QED
    BY <1>1, <2>1, StatesAre, NowIs, WidgetsAre, TokenIs DEF Generations
<1> QED
  BY <1>1, <1>2, <1>3, <1>4, TokenIs DEF found

LEMMA TakenIs ==
    ASSUME ViewportInv, NEW q \in Queries, NEW toggle \in BOOLEAN, Ranked(q) # <<>>,
           front # None
    PROVE  LET x == Taken(q, toggle)
               token == <<wid.body, Clicked(Ranked(q))>>
               before == Range(Selection(Now).body)
           IN  /\ x \in Selections /\ OfBody(x, Showing(Now))
               /\ token \in Range(x.body) \cup before
               /\ Range(x.body) \ before \subseteq {token}
<1> DEFINE token == <<wid.body, Clicked(Ranked(q))>>
           y == Selection(Now)
           old == IF y.generation = wid.body THEN y.body ELSE <<>>
           body == TakenBody(q, toggle)
<1>1. token \in Tokens /\ wid.body = Showing(Now)
  BY ClickedIs
<1>2. /\ Now \in States /\ Leased(Now) /\ y.body \in Seq(Tokens)
      /\ OfBody(y, Showing(Now))
  <2>1. Now \in States /\ Leased(Now)
    BY InvReady DEF ViewportInv, Ready
  <2> QED
    BY <2>1, FrontIs, LeasedIs, NowIs
<1>4. body = IF ~toggle /\ ~ctl.edgeMode THEN <<token>>
             ELSE IF token \in Range(old)
             THEN RemoveAt(old, CHOOSE k \in DOMAIN old : old[k] = token)
             ELSE Append(old, token)
  BY DEF TakenBody
<1> HIDE DEF token, y
<1>3. old = y.body /\ old \in Seq(Tokens) /\ IsInjective(old)
  BY <1>1, <1>2 DEF OfBody
<1> HIDE DEF body, old
<1>5. /\ body \in Seq(Tokens) /\ IsInjective(body)
      /\ token \in Range(body) \cup Range(y.body)
      /\ Range(body) \ Range(y.body) \subseteq {token}
      /\ Range(body) \subseteq Range(y.body) \cup {token}
  <2>1. CASE ~toggle /\ ~ctl.edgeMode
    <3>1. <<token>> \in Seq(Tokens) /\ IsInjective(<<token>>) /\ Range(<<token>>) = {token}
      BY <1>1 DEF IsInjective, Range
    <3> QED
      BY <1>3, <1>4, <2>1, <3>1
  <2>2. CASE ~(~toggle /\ ~ctl.edgeMode) /\ token \in Range(old)
    <3> DEFINE k == CHOOSE k \in DOMAIN old : old[k] = token
    <3>1. k \in DOMAIN old /\ old[k] = token
      BY <2>2 DEF Range
    <3>2. body = RemoveAt(old, k)
      BY <1>4, <2>2
    <3> HIDE DEF k
    <3>3. /\ body \in Seq(Tokens) /\ IsInjective(body)
          /\ Range(body) = Range(old) \ {token}
      BY <1>3, <3>1, <3>2, RemoveAtIs
    <3> QED
      BY <1>3, <2>2, <3>3
  <2>3. CASE ~(~toggle /\ ~ctl.edgeMode) /\ token \notin Range(old)
    <3>1. body = Append(old, token)
      BY <1>4, <2>3
    <3>2. /\ body \in Seq(Tokens) /\ IsInjective(body)
          /\ Range(body) = Range(old) \cup {token}
      BY <1>1, <1>3, <2>3, <3>1, AppendIs
    <3> QED
      BY <1>3, <2>3, <3>2
  <2> QED
    BY <2>1, <2>2, <2>3
<1> DEFINE g == IF body = <<>> THEN 0 ELSE wid.body
           x == [items |-> {}, body |-> body, generation |-> g]
<1>6. Taken(q, toggle) = x
  BY DEF Taken, body
<1>7. g \in Generations /\ (body # <<>> => g = Showing(Now))
  BY <1>1, <1>2, ShowingIs, TokenIs
<1> HIDE DEF g
<1>8. x \in Selections
  BY <1>5, <1>7 DEF Selections
<1>9. OfBody(x, Showing(Now))
  <2>1. token[1] = wid.body
    BY DEF token
  <2>2. \A t \in Range(body) : t[1] = Showing(Now)
    BY <1>1, <1>2, <1>5, <2>1 DEF OfBody
  <2> QED
    BY <1>5, <1>7, <2>2 DEF OfBody
<1>10. x.body = body
  OBVIOUS
<1> HIDE DEF x
<1> QED
  BY <1>5, <1>6, <1>8, <1>9, <1>10 DEF token, y

LEMMA ClickBodyIs ==
    ASSUME NEW q \in Queries, NEW toggle \in BOOLEAN, ClickBody(q, toggle)
    PROVE  /\ front # None /\ Ranked(q) # <<>>
           /\ Become(NotifySelectionChanged(ApplySelectionToSurfaces(
                        Select(Now, Taken(q, toggle))), FALSE))
BY DEF ClickBody, Taken, TakenBody

LEMMA ClickBodyKeeps ==
    ASSUME ViewportInv, NEW q \in Queries, NEW toggle \in BOOLEAN, ClickBody(q, toggle)
    PROVE  ViewportInv'
<1> DEFINE x == Taken(q, toggle)
           u == NotifySelectionChanged(ApplySelectionToSurfaces(Select(Now, x)), FALSE)
<1>1. front # None /\ Ranked(q) # <<>> /\ Become(u)
  BY ClickBodyIs
<1>2. x \in Selections /\ OfBody(x, Showing(Now))
  BY <1>1, TakenIs
<1>3. Ready(Now) /\ Now.front # None
  BY <1>1, InvReady, NowIs DEF ViewportInv
<1> HIDE DEF x
<1>4. Inv(u)
  BY <1>2, <1>3, SelectInv
<1> HIDE DEF u
<1> QED
  BY <1>1, <1>4, BecomeKeeps

\* A draft of the stage that is shown refuses no element.
LEMMA NotRefused ==
    ASSUME NEW s, Kept(s), Leased(s), Staged(s), s.front # None,
           s.draft # None => s.ctl.scene # None /\ s.draft.stage = s.ctl.scene.stage
    PROVE  NotifySelectionChanged(ApplySelectionToSurfaces(s), FALSE).sel = s.sel
<1> DEFINE u == ApplySelectionToSurfaces(s)
           v == NotifyTree(u)
           t == NotifySelectionChanged(u, FALSE)
<1>1. Kept(u) /\ Aside(s, u) /\ u.sel = s.sel /\ u.draft = s.draft
  BY ApplySelectionToSurfacesIs
<1> HIDE DEF u
<1>2. Kept(v) /\ Aside(u, v) /\ v.sel = s.sel /\ v.draft = s.draft
  BY <1>1, NotifyTreeIs
<1>3. t = IF v.draft = None \/ v.front = None THEN v ELSE StageEdges(v)
  <2>1. FALSE = FALSE
    OBVIOUS
  <2> QED
    BY DEF NotifySelectionChanged
<1> HIDE DEF v, t
<1>4. CASE v.draft = None \/ v.front = None
  BY <1>2, <1>3, <1>4 DEF t, u
<1>5. CASE ~(v.draft = None \/ v.front = None)
  <2> DEFINE edges == SelectedEdges(v)
                      \cup (IF v.draft.edit THEN v.draft.unresolved ELSE {})
             w == [v EXCEPT !.draft.edges = edges]
  <2>1. v.ctl.scene = s.ctl.scene /\ v.front # None
    BY <1>1, <1>2, <1>5 DEF Aside
  <2>2. OfStage(SelectedEdges(v), v.draft.stage)
    <3>1. v \in States
      BY <1>2 DEF Kept
    <3> QED
      BY <1>2, <1>5, <2>1, <3>1, SelectedEdgesAre DEF OfStage
  <2>3. OfStage(v.draft.unresolved, v.draft.stage)
    BY <1>2, <1>5 DEF Staged
  <2>4. OfStage(edges, v.draft.stage)
    BY <2>2, <2>3 DEF OfStage
  <2>5. t = RefreshEdgePreview(w)
    BY <1>3, <1>5, <2>4 DEF StageEdges
  <2>6. w.sel = v.sel
    <3>1. v \in States
      BY <1>2 DEF Kept
    <3> QED
      BY <3>1 DEF States
  <2>7. w \in [doc : {w.doc}, front : {w.front}, sel : {w.sel}, ctl : {w.ctl},
               wid : {w.wid}, tree : {w.tree}, draft : {w.draft}]
    <3>1. v \in States
      BY <1>2 DEF Kept
    <3> QED
      BY <3>1 DEF States
  <2> HIDE DEF w
  <2>8. RefreshEdgePreview(w).sel = w.sel
    BY <2>7 DEF RefreshEdgePreview
  <2> QED
    BY <1>2, <2>5, <2>6, <2>8 DEF t, u
<1> QED
  BY <1>4, <1>5

\* A step takes what is shown under the pointer.
ClickStep ==
    LET before == Range(sel[front].body)
        after  == Range(sel'[front].body)
    IN  wid.hover # None /\ before # after
            /\ ~(wid.hover \in after \cup before /\ after \ before \subseteq {wid.hover})
        => \A q \in Queries, toggle \in BOOLEAN :
             wid.hover[2] \in Range(q) /\ ClickBody(q, toggle) =>
                 draft # None /\ draft.stage # ctl.scene.stage

LEMMA ClickIsTaken ==
    ASSUME ViewportInv
    PROVE  ClickStep
<1> DEFINE before == Range(sel[front].body)
           after == Range(sel'[front].body)
<1> SUFFICES ASSUME wid.hover # None,
                    ~(wid.hover \in after \cup before /\ after \ before \subseteq {wid.hover}),
                    NEW q \in Queries, NEW toggle \in BOOLEAN,
                    wid.hover[2] \in Range(q), ClickBody(q, toggle),
                    ~(draft # None /\ draft.stage # ctl.scene.stage)
             PROVE  FALSE
  BY DEF ClickStep
<1> DEFINE x == Taken(q, toggle)
           s == Select(Now, x)
           u == NotifySelectionChanged(ApplySelectionToSurfaces(s), FALSE)
           stack == ctl.stack
<1>1. front # None /\ Ranked(q) # <<>> /\ Become(u)
  BY ClickBodyIs
<1>2. /\ Now \in States /\ Ready(Now) /\ Kept(Now) /\ Leased(Now) /\ Staged(Now)
  BY InvReady DEF ViewportInv, Ready
<1>3. /\ Ranked(q) \in Seq(Elements) /\ Ranked(q) # <<>>
      /\ ~ctl.edgeMode => Ranked(q) = q
      /\ Range(q) \cap Edges \subseteq Range(Ranked(q))
      /\ ctl.scene # None
  BY <1>1, RankedIs
<1>4. /\ stack # None /\ wid.hover = <<stack.generation, stack.candidates[stack.active]>>
      /\ wid.hover[1] = wid.body
      /\ stack.active \in DOMAIN stack.candidates
      /\ ctl.edgeMode => Range(stack.candidates) \subseteq Edges
  BY <1>2, NowIs DEF Kept, Pointed, Steady
<1>5. stack.candidates[stack.active] \in Range(Ranked(q))
  <2>1. wid.hover[2] = stack.candidates[stack.active]
    BY <1>4
  <2>2. ctl.edgeMode => stack.candidates[stack.active] \in Edges
    BY <1>4 DEF Range
  <2> QED
    BY <1>3, <2>1, <2>2
<1>6. Clicked(Ranked(q)) = stack.candidates[stack.active]
  <2>1. stack.generation = wid.body
    BY <1>4
  <2> QED
    BY <1>4, <1>5, <2>1 DEF Clicked
<1>7. <<wid.body, Clicked(Ranked(q))>> = wid.hover
  BY <1>4, <1>6
<1>8. /\ x \in Selections /\ OfBody(x, Showing(Now))
      /\ wid.hover \in Range(x.body) \cup before
      /\ Range(x.body) \ before \subseteq {wid.hover}
  BY <1>1, <1>7, TakenIs, NowIs DEF Selection
<1> HIDE DEF x
<1>9. /\ Kept(s) /\ Leased(s) /\ Staged(s) /\ s.front # None
      /\ s.draft = draft /\ s.ctl = ctl /\ s.sel[front] = x /\ s.front = front
  <2>1. Framed(Now) /\ Now.front # None /\ Pointed(Now)
        /\ \A d \in Docs : Now.sel[d].body # <<>> => d = Now.front
    BY <1>1, <1>2, LeasedIs, NowIs DEF Kept, Framed
  <2>2. /\ Framed(s) /\ Pointed(s) /\ Aside(Now, s) /\ s.ctl = Now.ctl
        /\ s.draft = Now.draft /\ Selection(s) = x
    BY <1>8, <2>1, SelectIs
  <2>3. Leased(s)
    BY <1>8, <2>1, SelectLeased
  <2> HIDE DEF s
  <2>4. Kept(s)
    BY <2>2 DEF Framed, Kept
  <2>5. s.front = front /\ s.sel[front] = x /\ s.ctl = ctl /\ s.draft = draft
    BY <2>2, NowIs DEF Aside, Selection
  <2>6. Staged(s)
    BY <1>2, <2>2, <2>5, NowIs DEF Staged
  <2> QED
    BY <1>1, <2>2, <2>3, <2>4, <2>5, <2>6
<1>10. u.sel = s.sel
  <2> HIDE DEF s
  <2> QED
    BY <1>3, <1>9, NotRefused
<1>11. sel'[front] = x
  <2> HIDE DEF s, u
  <2> QED
    BY <1>1, <1>9, <1>10 DEF Become
<1> QED
  BY <1>8, <1>11

-----------------------------------------------------------------------------
(* The edge draft *)

\* A draft may become another that is as good.
LEMMA WithDraftInv ==
    ASSUME NEW s, Inv(s), NEW d \in Drafts, Staged([s EXCEPT !.draft = d]),
           d.edges = SelectedEdges(s) \cup Unfound(d)
    PROVE  Inv([s EXCEPT !.draft = d])
<1> DEFINE t == [s EXCEPT !.draft = d]
<1>1. Kept(s)
  BY InvReady DEF Ready
<1>2. Kept(t) /\ Undisturbed(s, t) /\ t.draft = d
  BY <1>1, WithDraftIs
<1>3. Staged(t)
  OBVIOUS
<1> HIDE DEF t
<1>4. Leased(t) /\ Told(t) /\ Agreed(t) /\ SelectedEdges(t) = SelectedEdges(s)
  BY <1>2, UndisturbedKeeps, InvReady DEF Ready
<1>5. Drafted(t)
  BY <1>2, <1>3, <1>4 DEF Drafted
<1>6. Shows(t) /\ Current(t) /\ Rowed(t)
  BY <1>2, AsideShows DEF Undisturbed, Inv, InStep
<1> QED
  BY <1>2, <1>4, <1>5, <1>6 DEF t, Inv, Good, InStep

\* The preview of a draft disturbs nothing.
LEMMA RefreshInv ==
    ASSUME NEW s, Inv(s)
    PROVE  Inv(RefreshEdgePreview(s))
<1> DEFINE t == RefreshEdgePreview(s)
<1>1. Kept(s)
  BY InvReady DEF Ready
<1>2. Kept(t) /\ Undisturbed(s, t) /\ t.draft = s.draft
  BY <1>1, RefreshUndisturbed
<1> HIDE DEF t
<1>3. Inv(t)
  BY <1>2, UndisturbedInv
<1> QED
  BY <1>3 DEF t

LEMMA SizeDraftKeeps ==
    ASSUME ViewportInv, NEW sized \in BOOLEAN, SizeDraft(sized)
    PROVE  ViewportInv'
<1> DEFINE d == [draft EXCEPT !.sized = sized]
           s == [Now EXCEPT !.draft = d]
           u == RefreshEdgePreview(s)
<1>1. Inv(Now) /\ Now \in States /\ draft # None /\ Drafted(Now) /\ Kept(Now)
  BY NowIs, InvReady DEF ViewportInv, SizeDraft, Ready
<1>2. Become(u)
  <2>1. [Now EXCEPT !.draft.sized = sized] = s
    BY DEF Now
  <2> QED
    BY <2>1 DEF SizeDraft
<1>3. /\ d \in Drafts /\ d.edges = draft.edges /\ d.edit = draft.edit
      /\ d.unresolved = draft.unresolved /\ d.stage = draft.stage
  BY <1>1, DraftIs, NowIs DEF Drafts
<1> HIDE DEF d
<1>4. Kept(s) /\ Undisturbed(Now, s) /\ s.draft = d
  BY <1>1, <1>3, WithDraftIs
<1>5. d # None
  BY <1>3, ViewportAssumption
<1>6. Staged(s)
  <2> HIDE DEF s
  <2> QED
    BY <1>1, <1>3, <1>4, NowIs DEF Drafted, Staged, Undisturbed, Aside
<1>7. d.edges = SelectedEdges(Now) \cup Unfound(d)
  BY <1>1, <1>3, NowIs DEF Drafted, Unfound
<1>8. Inv(s)
  BY <1>1, <1>3, <1>6, <1>7, WithDraftInv
<1> HIDE DEF s
<1>9. Inv(u)
  BY <1>8, RefreshInv
<1> HIDE DEF u
<1> QED
  BY <1>2, <1>9, BecomeKeeps

LEMMA ClearEdgeSelectionKeeps ==
    ASSUME ViewportInv, ClearEdgeSelection
    PROVE  ViewportInv'
<1> DEFINE d == [draft EXCEPT !.unresolved = {}, !.edges = {}]
           s == [Now EXCEPT !.draft = d]
           c == ClearBodySelection(s)
           t == NotifySelectionChanged(ApplySelectionToSurfaces(c), TRUE)
           u == RefreshEdgePreview(t)
<1>1. /\ Inv(Now) /\ Now \in States /\ draft # None /\ Drafted(Now) /\ Kept(Now)
      /\ Leased(Now) /\ Ready(Now)
  BY NowIs, InvReady DEF ViewportInv, ClearEdgeSelection, Ready
<1>2. Become(u)
  <2>1. [Now EXCEPT !.draft.unresolved = {}, !.draft.edges = {}] = s
    BY DEF Now
  <2> QED
    BY <2>1 DEF ClearEdgeSelection
<1>3. /\ d \in Drafts /\ d.edges = {} /\ d.unresolved = {} /\ d.stage = draft.stage
  BY <1>1, DraftIs, NowIs DEF Drafts, References
<1> HIDE DEF d
<1>4. Kept(s) /\ Undisturbed(Now, s) /\ s.draft = d
  BY <1>1, <1>3, WithDraftIs
<1> HIDE DEF s
<1>5. /\ s.front # None /\ Staged(s)
      /\ \A e \in Docs : s.sel[e].body # <<>> => e = s.front
  <2>1. Now.front # None /\ Now.ctl.edgeMode
    BY <1>1, NowIs DEF Drafted, Staged
  <2>2. s.front = Now.front /\ s.ctl.edgeMode = Now.ctl.edgeMode /\ s.sel = Now.sel
    BY <1>4 DEF Undisturbed, Aside
  <2>3. OfStage(d.edges, d.stage) /\ OfStage(d.unresolved, d.stage)
    BY <1>3 DEF OfStage
  <2> QED
    BY <1>1, <1>3, <1>4, <2>1, <2>2, <2>3, LeasedIs DEF Staged
<1>6. /\ Kept(c) /\ Aside(s, c) /\ c.draft = s.draft /\ Selection(c).body = <<>>
      /\ Leased(c) /\ Staged(c) /\ c.front # None
  <2>1. /\ Kept(c) /\ Aside(s, c) /\ c.draft = s.draft /\ Selection(c).body = <<>>
        /\ Leased(c) /\ Staged(c)
    BY <1>4, <1>5, ClearBodySelectionIs
  <2> HIDE DEF c
  <2> QED
    BY <1>5, <2>1 DEF Aside
<1> HIDE DEF c
<1>7. /\ Kept(t) /\ Leased(t) /\ Told(t) /\ Staged(t) /\ Aside(c, t)
      /\ t.draft = c.draft /\ t.sel = c.sel /\ (Shows(c) => Agreed(t))
  <2>1. TRUE \in BOOLEAN
    OBVIOUS
  <2> QED
    BY <1>6, <2>1, NotifySelectionChangedIs
<1> HIDE DEF t
<1>8. Drafted(t)
  <2>1. Selection(t) = Selection(c) /\ t.front # None
    BY <1>6, <1>7 DEF Aside, Selection
  <2>2. t \in States
    BY <1>7 DEF Kept
  <2>3. SelectedEdges(t) = {}
    BY <1>6, <2>1, <2>2, SelectedEdgesAre
  <2>4. t.draft = d /\ Unfound(d) = {}
    BY <1>3, <1>4, <1>6, <1>7 DEF Unfound
  <2> QED
    BY <1>3, <1>7, <2>3, <2>4 DEF Drafted
<1>9. Shows(c) /\ Shows(t) /\ Current(t) /\ Rowed(t)
  BY <1>1, <1>4, <1>6, <1>7, AsideShows DEF Ready, Undisturbed
<1>10. Inv(t)
  BY <1>7, <1>8, <1>9 DEF Inv, Good, InStep
<1>11. Inv(u)
  BY <1>10, RefreshInv
<1> HIDE DEF u
<1> QED
  BY <1>2, <1>11, BecomeKeeps

LEMMA RemovePrimaryEdgeKeeps ==
    ASSUME ViewportInv, RemovePrimaryEdge
    PROVE  ViewportInv'
<1> DEFINE x == Selection(Now)
           body == Front(x.body)
           g == IF body = <<>> THEN 0 ELSE x.generation
           y == [x EXCEPT !.body = body, !.generation = g]
           u == NotifySelectionChanged(ApplySelectionToSurfaces(Select(Now, y)), FALSE)
<1>1. Now \in States /\ Ready(Now) /\ Leased(Now) /\ Staged(Now) /\ draft # None
  BY InvReady DEF ViewportInv, RemovePrimaryEdge, Ready
<1>2. Become(u) /\ x.body # <<>>
  BY DEF RemovePrimaryEdge
<1>3. Now.front # None
  BY <1>1, NowIs DEF Staged
<1>4. /\ x \in Selections /\ x.items \in SUBSET Items /\ x.body \in Seq(Tokens)
      /\ x.generation \in Generations /\ OfBody(x, Showing(Now))
  BY <1>1, <1>3, FrontIs, LeasedIs
<1> HIDE DEF x
<1>5. /\ body \in Seq(Tokens) /\ Range(body) \subseteq Range(x.body) /\ IsInjective(body)
  <2>1. Len(x.body) - 1 \in 0 .. Len(x.body)
    BY <1>2, <1>4, EmptySeq, LenProperties
  <2>2. body = SubSeq(x.body, 1, Len(x.body) - 1)
    BY DEF Front
  <2> QED
    BY <1>4, <2>1, <2>2, PrefixIs DEF OfBody
<1> HIDE DEF body
<1>6. g \in Generations /\ (body # <<>> => g = Showing(Now))
  BY <1>2, <1>4, TokenIs DEF OfBody
<1> HIDE DEF g
<1>7. y \in Selections /\ y.body = body /\ y.generation = g
  BY <1>4, <1>5, <1>6 DEF Selections
<1>8. OfBody(y, Showing(Now))
  <2> HIDE DEF y
  <2> QED
    BY <1>4, <1>5, <1>6, <1>7 DEF OfBody
<1> HIDE DEF y
<1>9. Inv(u)
  BY <1>1, <1>3, <1>7, <1>8, SelectInv
<1> HIDE DEF u
<1> QED
  BY <1>2, <1>9, BecomeKeeps

\* Without a draft no stage is shown any more.
LEMMA ClearEdgeFeatureInv ==
    ASSUME NEW s, Inv(s), s.front # None, NEW fault
    PROVE  LET t == ClearEdgeFeature(s, fault)
           IN  Inv(t) /\ t.front = s.front
<1> DEFINE t == ClearEdgeFeature(s, fault)
<1>1. Kept(s) /\ Leased(s) /\ Rowed(s)
  BY InvReady DEF Ready
<1>2. /\ Good(t) /\ InStep(t) /\ t.doc = s.doc /\ t.front = s.front
      /\ t.tree.rows = s.tree.rows
  BY <1>1, ClearEdgeFeatureIs
<1> HIDE DEF t
<1>3. Rowed(t)
  BY <1>1, <1>2 DEF Rowed
<1> QED
  BY <1>2, <1>3 DEF t, Inv

LEMMA CancelEdgeFeatureKeeps ==
    ASSUME ViewportInv, NEW fault, CancelEdgeFeature(fault)
    PROVE  ViewportInv'
<1> DEFINE s == ClearEdgeFeature(Now, fault)
           u == IF draft.edit /\ doc[front].features = 2 THEN NavigateToFeature(s) ELSE s
<1>1. Inv(Now) /\ Staged(Now) /\ draft # None
  BY InvReady DEF ViewportInv, CancelEdgeFeature, Ready
<1>2. Become(u)
  BY DEF CancelEdgeFeature
<1>3. Now.front # None
  BY <1>1, NowIs DEF Staged
<1>4. Inv(s) /\ s.front # None
  BY <1>1, <1>3, ClearEdgeFeatureInv
<1> HIDE DEF s
<1>5. Inv(u)
  BY <1>4, NavigateToFeatureIs
<1> HIDE DEF u
<1> QED
  BY <1>2, <1>5, BecomeKeeps

LEMMA FinishEdgeFeatureKeeps ==
    ASSUME ViewportInv, NEW fault, NEW again, FinishEdgeFeature(fault, again)
    PROVE  ViewportInv'
<1> DEFINE p == doc[front]
           next == [p EXCEPT !.revision = @ + 1, !.broken = FALSE,
                             !.features = IF draft.edit THEN @ ELSE @ + 1]
           c == [Now EXCEPT !.doc[Now.front] = next]
           s == ClearEdgeFeature(c, fault)
           t == RefreshActiveContext(s, Now.front, again)
           u == NavigateToFeature(t)
<1>1. Inv(Now) /\ Good(Now) /\ Now \in States /\ Staged(Now) /\ draft # None
  BY InvReady DEF ViewportInv, FinishEdgeFeature, Ready
<1>2. Become(u) /\ next.features \in Stages
  BY NowIs DEF FinishEdgeFeature
<1>3. Now.front # None /\ Now.front \in Docs /\ p \in Documents
  BY <1>1, FrontIs, NowIs DEF Staged, Part
<1>4. next \in Documents
  <2>1. p.revision + 1 \in Nat
    BY <1>3 DEF Documents
  <2> QED
    BY <1>2, <1>3, <2>1 DEF Documents
<1> HIDE DEF next
<1>5. Good(c) /\ c.front = Now.front
  BY <1>1, <1>3, <1>4, WithDocIs
<1> HIDE DEF c
<1>6. Good(s) /\ s.front = Now.front
  <2>1. Kept(c) /\ Leased(c) /\ c.front # None
    BY <1>3, <1>5 DEF Good
  <2> QED
    BY <1>5, <2>1, ClearEdgeFeatureIs
<1> HIDE DEF s
<1>7. Inv(t) /\ t.front = Now.front
  BY <1>3, <1>6, RefreshActiveContextIs
<1> HIDE DEF t
<1>8. Inv(u)
  BY <1>3, <1>7, NavigateToFeatureIs
<1> HIDE DEF u
<1> QED
  BY <1>2, <1>8, BecomeKeeps

LEMMA StartEdgeFeatureKeeps ==
    ASSUME ViewportInv, StartEdgeFeature
    PROVE  ViewportInv'
<1> DEFINE stage == doc[front].features
           d == [edit |-> FALSE, stage |-> stage, edges |-> SelectedEdges(Now),
                 unresolved |-> {}, revision |-> doc[front].revision, sized |-> FALSE]
           begun == [Now EXCEPT !.draft = d]
           mode == SetEdgeDraftMode(begun, TRUE)
           w == [mode.wid EXCEPT !.delta = 0]
           s == [mode EXCEPT !.wid = w]
           u == StageEdges(s)
<1>1. /\ Inv(Now) /\ Now \in States /\ Kept(Now) /\ Leased(Now) /\ Told(Now)
      /\ InStep(Now) /\ Rowed(Now)
  BY InvReady DEF ViewportInv, Ready
<1>2. front # None /\ Now.front = front /\ OfStage(SelectedEdges(Now), stage)
  BY NowIs DEF StartEdgeFeature, CanStart
<1>3. Become(u)
  <2>1. [mode EXCEPT !.wid.delta = 0] = s
    OBVIOUS
  <2> QED
    BY <2>1 DEF StartEdgeFeature
<1>4. d \in Drafts /\ d # None
  <2>1. Part(Now) \in Documents /\ Part(Now) = doc[front]
    BY <1>1, <1>2, FrontIs, NowIs DEF Part
  <2>2. stage \in Stages /\ doc[front].revision \in Nat
    BY <2>1 DEF Documents
  <2>3. SelectedEdges(Now) \in References /\ {} \in References
    BY <1>1, <1>2, SelectedEdgesAre DEF References
  <2>4. d \in Drafts
    BY <2>2, <2>3 DEF Drafts
  <2> QED
    BY <2>4, ViewportAssumption
<1>5. /\ d.edges = SelectedEdges(Now) /\ d.unresolved = {} /\ d.stage = stage
  OBVIOUS
<1> HIDE DEF d
<1>6. Kept(begun) /\ Undisturbed(Now, begun) /\ begun.draft = d
  BY <1>1, <1>4, WithDraftIs
<1> HIDE DEF begun
<1>7. Leased(begun) /\ Told(begun) /\ InStep(begun) /\ Rowed(begun) /\ begun.front = front
  <2>1. Leased(begun) /\ Told(begun) /\ Agreed(begun)
    BY <1>1, <1>6, UndisturbedKeeps DEF InStep
  <2>2. Shows(begun) /\ Current(begun) /\ Rowed(begun)
    BY <1>1, <1>6, AsideShows DEF Undisturbed, InStep
  <2> QED
    BY <1>2, <1>6, <2>1, <2>2 DEF InStep, Undisturbed, Aside
<1>8. /\ Kept(mode) /\ mode.ctl.edgeMode /\ mode.doc = begun.doc
      /\ mode.front = begun.front /\ mode.sel = begun.sel /\ mode.tree = begun.tree
      /\ mode.draft = d /\ mode.ctl.scene = begun.ctl.scene
      /\ Leased(mode) /\ Told(mode) /\ InStep(mode)
  <2>1. TRUE \in BOOLEAN
    OBVIOUS
  <2> DEFINE m(on) == SetEdgeDraftMode(begun, on)
  <2>2. \A on \in BOOLEAN :
            /\ Kept(m(on)) /\ m(on).ctl.edgeMode = on /\ m(on).doc = begun.doc
            /\ m(on).front = begun.front /\ m(on).sel = begun.sel
            /\ m(on).tree = begun.tree
            /\ m(on).draft = begun.draft /\ m(on).ctl.scene = begun.ctl.scene
            /\ Leased(m(on)) /\ Told(m(on)) /\ InStep(m(on))
    BY <1>6, <1>7, SetEdgeDraftModeIs
  <2> QED
    BY <1>6, <2>1, <2>2
<1> HIDE DEF mode
<1>9. Rowed(mode)
  BY <1>7, <1>8 DEF Rowed
<1>10. /\ mode \in States /\ mode.wid \in Widgets /\ Steady(mode.wid)
  BY <1>8, StatesAre DEF Kept
<1>11. /\ w \in Widgets /\ Steady(w) /\ w.body = mode.wid.body /\ w.items = mode.wid.items
       /\ w.chosen = mode.wid.chosen /\ w.marks = mode.wid.marks
       /\ w.hover = mode.wid.hover
  BY <1>10, TokenIs DEF Widgets, Steady
<1> HIDE DEF w
<1>12. /\ s \in States /\ s.doc = mode.doc /\ s.front = mode.front /\ s.sel = mode.sel
       /\ s.ctl = mode.ctl /\ s.wid = w /\ s.tree = mode.tree /\ s.draft = mode.draft
  BY <1>10, <1>11, WithWidIs
<1> HIDE DEF s
<1>13. Kept(s) /\ Undisturbed(mode, s)
  BY <1>8, <1>11, <1>12 DEF Kept, Pointed, Scened, Showing, Undisturbed, Aside
<1>14. Leased(s) /\ Told(s) /\ Agreed(s) /\ Shows(s) /\ Current(s) /\ Rowed(s)
  BY <1>8, <1>9, <1>13, UndisturbedKeeps, AsideShows DEF InStep, Undisturbed
<1>15. Staged(s)
  <2>1. s.draft = d /\ s.front # None /\ s.ctl.edgeMode /\ s.ctl.scene = ctl.scene
    BY <1>2, <1>6, <1>7, <1>8, <1>12, NowIs DEF Undisturbed, Aside
  <2>2. OfStage(d.edges, d.stage) /\ OfStage(d.unresolved, d.stage)
    BY <1>2, <1>5 DEF OfStage
  <2>3. ctl.scene # None /\ ctl.scene.stage # d.stage => d.edges = {}
    BY <1>1, <1>2, <1>5, <2>2, SelectedEdgesAre, NowIs DEF OfStage
  <2> QED
    BY <2>1, <2>2, <2>3 DEF Staged
<1>16. Good(u) /\ Aside(s, u) /\ Agreed(u)
  <2>1. s.draft # None
    BY <1>4, <1>8, <1>12
  <2> QED
    BY <1>13, <1>14, <1>15, <2>1, StageEdgesIs
<1> HIDE DEF u
<1>17. Shows(u) /\ Current(u) /\ Rowed(u)
  BY <1>14, <1>16, AsideShows
<1>18. Inv(u)
  BY <1>16, <1>17 DEF Inv, InStep
<1> QED
  BY <1>3, <1>18, BecomeKeeps

\* The edges that the feature was made of are selected again where they are
\* found, the others kept.
LEMMA StartEdgeFeatureEditKeeps ==
    ASSUME ViewportInv, NEW edges \in SUBSET ({1} \X (Edges \cup {"lost"})),
           NEW fault, NEW again, StartEdgeFeatureEdit(edges, fault, again)
    PROVE  ViewportInv'
<1> DEFINE mode(on) == SetEdgeDraftMode(Now, on)
           m == SetEdgeDraftMode(Now, TRUE)
           staged == SetToolStage(m, 1, fault, again)
           d == [edit |-> TRUE, stage |-> 1, edges |-> edges,
                 unresolved |-> edges \ Resolved(staged, edges),
                 revision |-> doc[front].revision, sized |-> TRUE]
           begun == [staged EXCEPT !.draft = d]
           t == RestoreMaterialEdges(begun, edges)
           u == IF ToolStageReady(staged) THEN RefreshEdgePreview(t)
                ELSE SetEdgeDraftMode(staged, FALSE)
<1>1. /\ Inv(Now) /\ Now \in States /\ Kept(Now) /\ Leased(Now) /\ Rowed(Now)
  BY InvReady DEF ViewportInv, Ready
<1>2. front # None /\ draft = None /\ Become(u)
  BY DEF StartEdgeFeatureEdit, CanStart
<1>3. /\ Kept(m) /\ m.ctl.edgeMode /\ m.doc = doc /\ m.front = front
      /\ m.tree = tree /\ m.draft = None /\ Leased(m)
  <2>1. TRUE \in BOOLEAN
    OBVIOUS
  <2>2. \A on \in BOOLEAN :
            /\ Kept(mode(on)) /\ mode(on).ctl.edgeMode = on /\ mode(on).doc = Now.doc
            /\ mode(on).front = Now.front /\ mode(on).tree = Now.tree
            /\ mode(on).draft = Now.draft /\ Leased(mode(on))
    BY <1>1, SetEdgeDraftModeIs
  <2> QED
    BY <1>2, <2>1, <2>2, NowIs
<1> HIDE DEF m
<1>4. /\ Good(staged) /\ InStep(staged) /\ staged.doc = doc /\ staged.front = front
      /\ staged.tree.rows = tree.rows /\ staged.ctl.edgeMode /\ staged.draft = None
  <2>1. 1 \in Stages \cup {None}
    BY DEF Stages
  <2>2. Good(staged) /\ InStep(staged) /\ Cleared(m, staged)
    BY <1>2, <1>3, <2>1, SetToolStageIs
  <2> HIDE DEF staged
  <2> QED
    BY <1>3, <2>2 DEF Cleared
<1> HIDE DEF staged
<1>5. /\ Kept(staged) /\ Leased(staged) /\ Told(staged) /\ staged \in States
      /\ Shows(staged) /\ Rowed(staged) /\ Current(staged) /\ Agreed(staged)
  BY <1>1, <1>4, NowIs DEF Good, Kept, InStep, Rowed
<1>6. CASE ToolStageReady(staged)
  <2>1. d \in Drafts /\ d # None /\ edges \in References
    <3>1. Part(staged) \in Documents /\ Part(staged) = doc[front]
      BY <1>2, <1>4, <1>5, FrontIs DEF Part
    <3>2. edges \in References /\ edges \ Resolved(staged, edges) \in References
      BY DEF References, Stages, Elements
    <3>3. 1 \in Stages /\ doc[front].revision \in Nat
      BY <3>1 DEF Documents, Stages
    <3>4. d \in Drafts
      BY <3>2, <3>3 DEF Drafts
    <3> QED
      BY <3>2, <3>4, ViewportAssumption
  <2>2. /\ d.edit /\ d.stage = 1 /\ d.edges = edges
        /\ d.unresolved = edges \ Resolved(staged, edges)
    OBVIOUS
  <2> HIDE DEF d
  <2>3. Kept(begun) /\ Undisturbed(staged, begun) /\ begun.draft = d /\ begun.ctl = staged.ctl
    BY <1>5, <2>1, WithDraftIs
  <2> HIDE DEF begun
  <2>4. /\ Leased(begun) /\ Shows(begun) /\ Current(begun) /\ Rowed(begun)
        /\ begun.front # None
    BY <1>2, <1>4, <1>5, <2>3, UndisturbedKeeps, AsideShows DEF Undisturbed, Aside
  <2>5. CanRestore(begun)
    BY <1>4, <1>5, <1>6, <2>3 DEF CanRestore, ToolStageReady, Kept, Scened
  <2>6. /\ Kept(t) /\ Leased(t) /\ Told(t) /\ Aside(begun, t) /\ t.draft = d
        /\ SelectedEdges(t) = Resolved(begun, edges) /\ Agreed(t)
    BY <2>1, <2>3, <2>4, <2>5, RestoreMaterialEdgesIs
  <2> HIDE DEF t
  <2>7. Drafted(t)
    <3>1. t.front # None /\ t.ctl.edgeMode
      BY <1>4, <2>3, <2>4, <2>6 DEF Aside
    <3>2. OfStage(d.edges, d.stage) /\ OfStage(d.unresolved, d.stage)
      BY <2>2 DEF OfStage
    <3>3. Resolved(begun, edges) = Resolved(staged, edges)
      BY <2>3 DEF Resolved
    <3>4. d.edges = Resolved(begun, edges) \cup d.unresolved
      BY <2>2, <3>3 DEF Resolved
    <3> QED
      BY <2>2, <2>6, <3>1, <3>2, <3>4 DEF Drafted, Staged, Unfound
  <2>8. Shows(t) /\ Current(t) /\ Rowed(t)
    BY <2>4, <2>6, AsideShows
  <2>9. Inv(t)
    BY <2>6, <2>7, <2>8 DEF Inv, Good, InStep
  <2>10. u = RefreshEdgePreview(t) /\ Inv(RefreshEdgePreview(t))
    BY <1>6, <2>9, RefreshInv
  <2> HIDE DEF u
  <2> QED
    BY <1>2, <2>10, BecomeKeeps
<1>7. CASE ~ToolStageReady(staged)
  <2> DEFINE n(on) == SetEdgeDraftMode(staged, on)
  <2>1. FALSE \in BOOLEAN
    OBVIOUS
  <2>2. \A on \in BOOLEAN :
            /\ Kept(n(on)) /\ n(on).doc = staged.doc /\ n(on).front = staged.front
            /\ n(on).tree = staged.tree /\ n(on).draft = staged.draft
            /\ Leased(n(on)) /\ Told(n(on)) /\ InStep(n(on))
    BY <1>4, <1>5, SetEdgeDraftModeIs
  <2>3. u = n(FALSE)
    BY <1>7
  <2> HIDE DEF u, n
  <2>4. /\ Kept(u) /\ u.doc = staged.doc /\ u.front = staged.front
        /\ u.tree = staged.tree /\ u.draft = None
        /\ Leased(u) /\ Told(u) /\ InStep(u)
    BY <1>4, <2>1, <2>2, <2>3
  <2>5. Drafted(u) /\ Rowed(u)
    BY <1>5, <2>4 DEF Drafted, Staged, Rowed
  <2>6. Inv(u)
    BY <2>4, <2>5 DEF Inv, Good
  <2> QED
    BY <1>2, <2>6, BecomeKeeps
<1> QED
  BY <1>6, <1>7

-----------------------------------------------------------------------------
(* The specification *)

LEMMA NextKeeps ==
    ASSUME ViewportInv, Next
    PROVE  ViewportInv'
<1>1. ASSUME NEW d \in Docs, NEW f \in Faults, Activate(d, f)
      PROVE  ViewportInv'
  BY <1>1, ActivateKeeps
<1>2. ASSUME NEW f \in Faults, Deactivate(f) \/ Save(f) \/ CancelEdgeFeature(f)
      PROVE  ViewportInv'
  BY <1>2, DeactivateKeeps, SaveKeeps, CancelEdgeFeatureKeeps
<1>3. ASSUME NEW f \in Faults, NEW p \in Changes[front], Change(p, f)
      PROVE  ViewportInv'
  BY <1>3, ChangeKeeps
<1>4. ASSUME NEW on \in BOOLEAN, NEW f \in Faults, ShowAxisDraft(on, f)
      PROVE  ViewportInv'
  BY <1>4, ShowAxisDraftKeeps
<1>5. ASSUME NEW rows \in SUBSET Rows, SelectInTree(rows)
      PROVE  ViewportInv'
  BY <1>5, SelectInTreeKeeps
<1>6. ASSUME NEW i \in Items, NEW toggle \in BOOLEAN, ClickItem(i, toggle)
      PROVE  ViewportInv'
  BY <1>6, ClickItemKeeps
<1>7. ASSUME ClickNothing
      PROVE  ViewportInv'
  BY <1>7, ClickNothingKeeps
<1>8. ASSUME NEW q \in Queries, NEW still \in BOOLEAN, NEW kept \in BOOLEAN,
             Hover(q, still, kept)
      PROVE  ViewportInv'
  BY <1>8, HoverKeeps
<1>9. ASSUME HoverNothing
      PROVE  ViewportInv'
  BY <1>9, HoverNothingKeeps
<1>10. ASSUME NEW reverse \in BOOLEAN, Cycle(reverse)
       PROVE  ViewportInv'
  BY <1>10, CycleKeeps
<1>11. ASSUME NEW q \in Queries, NEW toggle \in BOOLEAN, ClickBody(q, toggle)
       PROVE  ViewportInv'
  BY <1>11, ClickBodyKeeps
<1>12. ASSUME StartEdgeFeature
       PROVE  ViewportInv'
  BY <1>12, StartEdgeFeatureKeeps
<1>13. ASSUME NEW edges \in SUBSET ({1} \X (Edges \cup {"lost"})),
              NEW f \in Faults, NEW g \in Faults, StartEdgeFeatureEdit(edges, f, g)
       PROVE  ViewportInv'
  BY <1>13, StartEdgeFeatureEditKeeps
<1>14. ASSUME NEW sized \in BOOLEAN, SizeDraft(sized)
       PROVE  ViewportInv'
  BY <1>14, SizeDraftKeeps
<1>15. ASSUME ClearEdgeSelection \/ RemovePrimaryEdge
       PROVE  ViewportInv'
  BY <1>15, ClearEdgeSelectionKeeps, RemovePrimaryEdgeKeeps
<1>16. ASSUME NEW f \in Faults, NEW g \in Faults, FinishEdgeFeature(f, g)
       PROVE  ViewportInv'
  BY <1>16, FinishEdgeFeatureKeeps
<1> QED
  BY <1>1, <1>2, <1>3, <1>4, <1>5, <1>6, <1>7, <1>8, <1>9, <1>10, <1>11, <1>12, <1>13,
     <1>14, <1>15, <1>16 DEF Next

LEMMA StutterKeeps ==
    ASSUME ViewportInv, UNCHANGED vars
    PROVE  ViewportInv'
<1>1. Inv(Now) /\ Become(Now)
  BY NowIs DEF ViewportInv, Become, vars
<1> QED
  BY <1>1, BecomeKeeps

\* In every behaviour what is selected, shown and drafted belongs together,
\* whatever fails on the way (part_viewport_controller.cpp, with the widget,
\* the tree and the edge draft of cad_workbench.cpp).
THEOREM ViewportInvAlways == Spec => []ViewportInv
<1>1. Init => ViewportInv
  BY InitInv
<1>2. ViewportInv /\ [Next]_vars => ViewportInv'
  BY NextKeeps, StutterKeeps
<1> QED
  BY <1>1, <1>2, PTL DEF Spec

LEMMA LeasesHold ==
    ASSUME ViewportInv
    PROVE  LeasesAreOfShownBody
<1>1. /\ Now \in States /\ Steady(wid) /\ Pointed(Now) /\ Scened(Now) /\ Leased(Now)
      /\ Staged(Now) /\ Shows(Now) /\ Current(Now) /\ Rowed(Now)
      /\ tree.selected \subseteq tree.rows
  BY InvReady, NowIs DEF ViewportInv, Ready, Kept
<1>2. /\ doc \in [Docs -> Documents] /\ front \in Docs \cup {None}
      /\ sel \in [Docs -> Selections] /\ ctl \in Controls /\ wid \in Widgets
      /\ tree \in [rows : SUBSET Rows, selected : SUBSET Rows]
      /\ draft \in Drafts \cup {None}
  BY <1>1, StatesAre, NowIs
<1>3. \A d \in Docs : /\ sel[d].body # <<>> => d = front
                      /\ OfBody(sel[d], Showing(Now))
  BY <1>1, NowIs DEF Leased
<1>4. TypeOK
  BY <1>1, <1>2, <1>3, NowIs DEF TypeOK, OfBody, Scened, Pointed, Rowed, Staged
<1>5. ASSUME NEW d \in Docs, NEW t \in Range(sel[d].body)
      PROVE  t[1] = Showing(Now) /\ sel[d].generation = Showing(Now)
  <2>1. sel[d].body # <<>>
    BY DEF Range
  <2> QED
    BY <1>3, <2>1 DEF OfBody
<1>6. Showing(Now) = IF ctl.scene = None THEN 0 ELSE ctl.scene.generation
  BY NowIs DEF Showing
<1>7. /\ wid.body \in {0, Showing(Now)}
      /\ \A t \in wid.marks : t[1] = wid.body
      /\ wid.hover # None =>
            /\ ctl.stack # None
            /\ wid.hover = <<ctl.stack.generation,
                             ctl.stack.candidates[ctl.stack.active]>>
            /\ wid.hover[1] = wid.body
      /\ ctl.stack # None /\ ctl.scene # None => ctl.stack.generation = Showing(Now)
      /\ {wid.overlay, wid.delta} \subseteq {0, wid.body}
  BY <1>1, NowIs DEF Shows, Steady, Pointed
<1>8. ctl.scene # None /\ ctl.fresh => ctl.scene.revision = Part(Now).revision
  BY <1>1, NowIs DEF Current
<1> QED
  BY <1>3, <1>4, <1>5, <1>6, <1>7, <1>8 DEF LeasesAreOfShownBody

LEMMA SurfacesHold ==
    ASSUME ViewportInv
    PROVE  SurfacesAgree
<1>1. Agreed(Now)
  BY InvReady DEF ViewportInv
<1> QED
  BY <1>1, NowIs DEF SurfacesAgree, Agreed, Selection

LEMMA DraftHolds ==
    ASSUME ViewportInv
    PROVE  DraftHoldsSelectedEdges
<1>1. Drafted(Now)
  BY InvReady DEF ViewportInv
<1> QED
  BY <1>1, NowIs DEF DraftHoldsSelectedEdges, Drafted, Unfound

-----------------------------------------------------------------------------
(* The theorems *)

\* Nothing that is of a body outlives it, whatever is changed, undone, staged
\* or fails in whatever order (the scene leases of part_viewport_controller.cpp
\* and the generations of qt_occt_viewer_widget.cpp).
THEOREM LeasesAreOfShown == Spec => []LeasesAreOfShownBody
BY ViewportInvAlways, LeasesHold, PTL

\* The tree and the widget always show the selection the controller keeps
\* (applySelectionToSurfaces, which most handlers end with).
THEOREM SurfacesAlwaysAgree == Spec => []SurfacesAgree
BY ViewportInvAlways, SurfacesHold, PTL

\* An edge draft is made of the edges selected and of those that could not be
\* found (cad_workbench.cpp, the selection handler of Fillet and Chamfer).
THEOREM DraftHoldsSelected == Spec => []DraftHoldsSelectedEdges
BY ViewportInvAlways, DraftHolds, PTL

\* A click takes the element shown under the pointer, whatever lies nearer now
\* (part_viewport_controller.cpp, the candidate stack).
THEOREM ClicksTakeWhatIsShown == Spec => ClickTakesWhatIsShown
<1>1. ViewportInv /\ [Next]_vars => [ClickStep]_vars
  BY ClickIsTaken
<1>2. [][ClickStep]_vars => ClickTakesWhatIsShown
  BY PTL DEF ClickTakesWhatIsShown, ClickStep
<1> QED
  BY <1>1, <1>2, ViewportInvAlways, PTL DEF Spec
=============================================================================
