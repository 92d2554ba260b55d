------------------------ MODULE BodyTopology_proofs ------------------------
(***************************************************************************)
(* Proofs about BodyTopology, for any shapes and any history OCCT may      *)
(* answer with, any number of features and any edits.                      *)
(*                                                                         *)
(* A stage is published whole or not at all, so the invariant speaks of    *)
(* one stage: what the curves and points of a body are to each other       *)
(* (CurvesSound, PointsSound), what the records of its edges and vertices  *)
(* say of them (EdgeRecorded, IncidentTo), and which surfaces the solid    *)
(* still tracks (TrackedSound).  That the next stage is as sound is shown  *)
(* from the bottom up: the descendants of a curve, the curves that share   *)
(* an edge, the new ones, the records.  Of the plan it says what references*)
(* of one feature are to each other (RefsSound).                           *)
(***************************************************************************)
EXTENDS BodyTopology, FiniteSetTheorems, TLAPS

Statuses == {"resolved", "ambiguous", "missing"}

\* The fields there are.
CurveShaped(c) == DOMAIN c = {"address", "kind", "edges", "strict", "status", "born"}

PointShaped(p) ==
    /\ DOMAIN p = {"address", "vertices", "status"}
    /\ p.address.on # {}

SurfaceShaped(s) == DOMAIN s = {"address", "plane", "status", "token", "faces"}

\* A curve that is ambiguous with one edge has it in common with another.
SharesEdge(C, c) == \E d \in Active(C) : d # c /\ c.edges \cap d.edges # {}

CurveSound(C, D, c) ==
    /\ CurveShaped(c)
    /\ c.edges \subseteq D
    /\ c.status \in Statuses
    /\ (c.status = "missing") = (c.edges = {})
    /\ c.status = "ambiguous" /\ Cardinality(c.edges) = 1 => SharesEdge(C, c)

CurvesSound(C, D) ==
    /\ IsFiniteSet(D) /\ IsFiniteSet(C)
    /\ Unique(C)
    /\ \A c \in C : CurveSound(C, D, c)

HoldersIn(C, e) == {c \in Active(C) : e \in c.edges}

Addresses(set) == {x.address : x \in set}

\* The record of an edge names the curves that hold it, and there is one.
EdgeRecorded(C, e, record) ==
    /\ record.class = "referenceable" =>
          /\ HoldersIn(C, e) # {}
          /\ record.candidates = Addresses(HoldersIn(C, e))
          /\ record.status = "resolved" => Cardinality(record.candidates) <= 1
    /\ record.class # "referenceable" => record.status = "unsupported"

PointSound(V, p) ==
    /\ PointShaped(p)
    /\ p.vertices \subseteq DOMAIN V
    /\ p.status \in Statuses
    /\ (p.status = "missing") = (p.vertices = {})
    /\ p.status = "resolved" =>
          \E v \in DOMAIN V : /\ p.vertices = {v}
                              /\ V[v].status = "resolved"
                              /\ V[v].candidates = {p.address}

PointsSound(P, V) ==
    /\ Unique(P)
    /\ \A p \in P : PointSound(V, p)

TwoEnds(shape) ==
    \A e \in DOMAIN shape.edges :
        \E v, w \in DOMAIN shape.vertices : shape.edges[e].ends = {v, w}

IncidentTo(shape, v, record) ==
    \A e \in record.incident : e \in DOMAIN shape.edges /\ v \in shape.edges[e].ends

TrackedSound(S, tracked) ==
    /\ NoToken \notin DOMAIN tracked
    /\ \A s \in S : /\ SurfaceShaped(s)
                    /\ IF s.status = "resolved" THEN s.token \in DOMAIN tracked
                       ELSE s.token = NoToken

BodySound ==
    /\ stage \in Nat /\ after \in Nat /\ after <= stage
    /\ (after = 0) = (solid.shape = NoShape)
    /\ DOMAIN edges = DOMAIN Shape.edges
    /\ DOMAIN vertices = DOMAIN Shape.vertices
    /\ TwoEnds(Shape)
    /\ CurvesSound(curves, DOMAIN edges)
    /\ \A e \in DOMAIN edges : EdgeRecorded(curves, e, edges[e])
    /\ IsFiniteSet(DOMAIN vertices)
    /\ PointsSound(points, vertices)
    /\ \A v \in DOMAIN vertices : IncidentTo(Shape, v, vertices[v])
    /\ TrackedSound(surfaces, solid.tracked)

\* The references of a feature differ, and those to one curve say equally much.
RefsSound(refs) ==
    /\ \A j \in DOMAIN refs :
          /\ refs[j] = [stage |-> refs[j].stage, curve |-> refs[j].curve,
                        ends |-> refs[j].ends]
          /\ refs[j].ends = {} \/ \E x, y \in refs[j].ends : x # y /\ refs[j].ends = {x, y}
    /\ \A j, k \in DOMAIN refs : j # k =>
          /\ refs[j] # refs[k]
          /\ refs[j].curve = refs[k].curve => (refs[j].ends = {}) = (refs[k].ends = {})

PlanSound ==
    /\ plan \in Seq({plan[i] : i \in DOMAIN plan})
    /\ Len(plan) <= MaxFeatures /\ stage <= Len(plan)
    /\ \A i \in DOMAIN plan :
          /\ DOMAIN plan[i] = {"op", "refs", "suppressed"}
          /\ RefsSound(plan[i].refs)

BodyInv == BodySound /\ PlanSound

-----------------------------------------------------------------------------
(* Tables and small sets *)

LEMMA TableIs == ASSUME NEW f PROVE Table(f) = f
BY DEF Table

LEMMA StrictIs ==
    ASSUME NEW S, IsFiniteSet(S)
    PROVE  /\ Strict(S) \in Statuses
           /\ (Strict(S) = "missing") = (S = {})
           /\ (Strict(S) = "resolved") = (Cardinality(S) = 1)
<1>1. Cardinality(S) = 1 => S # {}
  BY FS_Singleton
<1> QED
  BY <1>1 DEF Strict, Statuses

\* What a function makes of a finite set.
LEMMA ImageIsFinite ==
    ASSUME NEW S, IsFiniteSet(S), NEW f, S \subseteq DOMAIN f
    PROVE  IsFiniteSet({f[x] : x \in S})
<1> DEFINE T == {f[x] : x \in S}
           g == [x \in S |-> f[x]]
<1>1. g \in Surjection(S, T)
  BY DEF Surjection
<1> QED
  BY <1>1, FS_Surjection

LEMMA UnionIsFinite ==
    ASSUME NEW S, NEW T, IsFiniteSet(S), IsFiniteSet(T) PROVE IsFiniteSet(S \cup T)
BY FS_Union

-----------------------------------------------------------------------------
(* Curves *)

\* The history of the curves' edges D leads to edges that have a relation.
EdgesTold(D, a, relation) ==
    /\ CurvesSound(curves, D)
    /\ IsFiniteSet(DOMAIN relation)
    /\ \A e \in D : a.edgeOf[e] \subseteq DOMAIN relation

\* What a curve is before it is compared with the others.
CurveAlone(x, D) ==
    /\ CurveShaped(x)
    /\ x.edges \subseteq D
    /\ x.status \in Statuses
    /\ (x.status = "missing") = (x.edges = {})
    /\ x.status = "ambiguous" => Cardinality(x.edges) # 1

\* What history, or the relation of the curve, leads to are edges of the shape.
LEMMA DescendantsThere ==
    ASSUME NEW D, NEW a, NEW op, NEW relation, EdgesTold(D, a, relation), NEW c \in curves
    PROVE  Descendants(a, op, relation, c) \subseteq DOMAIN relation
<1>1. c.edges \subseteq D
  BY DEF EdgesTold, CurvesSound, CurveSound
<1> QED
  BY <1>1 DEF EdgesTold, Descendants

LEMMA CurveAfterIs ==
    ASSUME NEW D, NEW a, NEW op, NEW relation, EdgesTold(D, a, relation), NEW c \in curves
    PROVE  /\ CurveAlone(CurveAfter(a, op, relation, c), DOMAIN relation)
           /\ CurveAfter(a, op, relation, c).address = c.address
           /\ c.status = "missing" => CurveAfter(a, op, relation, c) = c
<1> DEFINE x == CurveAfter(a, op, relation, c)
           descendants == Descendants(a, op, relation, c)
<1> SUFFICES /\ CurveAlone(x, DOMAIN relation) /\ x.address = c.address
             /\ c.status = "missing" => x = c
  OBVIOUS
<1> HIDE DEF x
<1>1. /\ CurveShaped(c) /\ c.status \in Statuses
      /\ (c.status = "missing") = (c.edges = {})
  BY DEF EdgesTold, CurvesSound, CurveSound
<1>2. descendants \subseteq DOMAIN relation
  BY DescendantsThere
<1>3. IsFiniteSet(descendants)
  BY <1>2, FS_Subset DEF EdgesTold
<1> HIDE DEF descendants
<1>4. CASE c.status \notin ActiveStatus
  <2>1. x = c /\ c.status = "missing" /\ c.edges = {}
    BY <1>1, <1>4 DEF CurveAfter, Statuses, ActiveStatus, x
  <2> QED
    BY <1>1, <2>1 DEF CurveAlone
<1>5. CASE c.status \in ActiveStatus /\ (descendants = {} \/
              \E e \in descendants : relation[e] # RelationOf(c))
  <2>1. x = Lost(c) /\ c.status # "missing"
    BY <1>5 DEF CurveAfter, descendants, ActiveStatus, x
  <2>2. CurveShaped(c)
    BY <1>1
  <2>3. x.address = c.address /\ x.edges = {} /\ x.status = "missing" /\ CurveShaped(x)
    BY <2>1, <2>2 DEF CurveShaped, Lost
  <2> QED
    BY <2>1, <2>3 DEF Statuses, CurveAlone
<1>6. CASE c.status \in ActiveStatus /\ descendants # {} /\
              \A e \in descendants : relation[e] = RelationOf(c)
  <2>1. x = [c EXCEPT !.edges = descendants, !.strict = Strict(descendants),
                      !.status = IF @ = "resolved" THEN @ ELSE Strict(descendants)]
    BY <1>6 DEF CurveAfter, descendants, x
  <2> DEFINE status == IF c.status = "resolved" THEN c.status ELSE Strict(descendants)
  <2>2. CurveShaped(c)
    BY <1>1
  <2>3. /\ status \in Statuses /\ status # "missing"
        /\ status = "ambiguous" => Cardinality(descendants) # 1
    BY <1>3, <1>6, StrictIs DEF Statuses
  <2>4. c.status # "missing"
    BY <1>6 DEF ActiveStatus
  <2> HIDE DEF status
  <2>5. /\ x.address = c.address /\ x.edges = descendants /\ x.status = status
        /\ CurveShaped(x)
    BY <2>1, <2>2 DEF CurveShaped, status
  <2> QED
    BY <1>2, <1>6, <2>3, <2>4, <2>5 DEF CurveAlone
<1> QED
  BY <1>4, <1>5, <1>6

\* No two curves of a stage have one address, so no two become the same.
LEMMA AddressesStay ==
    ASSUME NEW D, NEW a, NEW op, NEW relation, EdgesTold(D, a, relation)
    PROVE  Unique({CurveAfter(a, op, relation, c) : c \in curves})
<1>1. \A c \in curves : CurveAfter(a, op, relation, c).address = c.address
  BY CurveAfterIs
<1>2. Unique(curves)
  BY DEF EdgesTold, CurvesSound
<1> QED
  BY <1>1, <1>2 DEF Unique

\* Curves keep their address and edges when they are found to share one.
LEMMA CurvesApartIs ==
    ASSUME NEW S, NEW D, Unique(S), IsFiniteSet(S), \A x \in S : CurveAlone(x, D)
    PROVE  /\ IsFiniteSet(CurvesApart(S))
           /\ \A y \in CurvesApart(S) : CurveSound(CurvesApart(S), D, y)
           /\ \A x \in S : \E y \in CurvesApart(S) :
                 y.address = x.address /\ (x.status = "missing" => y = x)
<1> DEFINE Apart(c) == \E d \in Active(S) : /\ d # c /\ c.status \in ActiveStatus
                                            /\ c.edges \cap d.edges # {}
           f == [c \in S |-> IF Apart(c)
                             THEN [c EXCEPT !.status = "ambiguous", !.strict = "ambiguous"]
                             ELSE c]
           T == CurvesApart(S)
<1>1. T = {f[c] : c \in S}
  BY DEF CurvesApart
<1>2. IsFiniteSet(T)
  <2>1. S \subseteq DOMAIN f
    OBVIOUS
  <2> HIDE DEF f, T
  <2> QED
    BY <1>1, <2>1, ImageIsFinite
<1>3. ASSUME NEW c \in S
      PROVE  /\ CurveShaped(f[c])
             /\ f[c].address = c.address /\ f[c].edges = c.edges
             /\ f[c].status = IF Apart(c) THEN "ambiguous" ELSE c.status
             /\ ~Apart(c) => f[c] = c
  <2>1. CurveShaped(c)
    BY DEF CurveAlone
  <2>2. CASE Apart(c)
    <3>1. f[c] = [c EXCEPT !.status = "ambiguous", !.strict = "ambiguous"]
      BY <2>2
    <3> HIDE DEF f, Apart
    <3> QED
      BY <2>1, <2>2, <3>1 DEF CurveShaped
  <2>3. CASE ~Apart(c)
    <3>1. f[c] = c
      BY <2>3
    <3> HIDE DEF f, Apart
    <3> QED
      BY <2>1, <2>3, <3>1
  <2> QED
    BY <2>2, <2>3
<1> HIDE DEF f, T
<1>4. \A c \in S : (f[c].status \in ActiveStatus) = (c.status \in ActiveStatus)
  BY <1>3 DEF ActiveStatus
<1>5. \A c \in S : Apart(c) => SharesEdge(T, f[c])
  <2> SUFFICES ASSUME NEW c \in S, NEW d \in Active(S), d # c, c.edges \cap d.edges # {}
               PROVE  SharesEdge(T, f[c])
    BY DEF Apart
  <2>1. d \in S /\ d.address # c.address
    BY DEF Unique, Active
  <2>2. f[d] \in T /\ f[d].status \in ActiveStatus
    BY <1>1, <1>4, <2>1 DEF Active
  <2>3. f[d] # f[c] /\ f[c].edges \cap f[d].edges # {}
    BY <1>3, <2>1
  <2> QED
    BY <2>2, <2>3 DEF SharesEdge, Active
<1>6. ASSUME NEW y \in T PROVE CurveSound(T, D, y)
  <2>1. PICK c \in S : y = f[c]
    BY <1>1
  <2>2. CurveAlone(c, D)
    BY <2>1
  <2>3. Apart(c) => c.status # "missing"
    BY <2>2 DEF ActiveStatus, CurveAlone
  <2>4. y.status = "ambiguous" /\ Cardinality(y.edges) = 1 => SharesEdge(T, y)
    BY <1>3, <1>5, <2>1, <2>2 DEF CurveAlone
  <2>5. /\ CurveShaped(y) /\ y.edges \subseteq D /\ y.status \in Statuses
        /\ (y.status = "missing") = (y.edges = {})
    <3> HIDE DEF Apart
    <3> QED
      BY <1>3, <2>1, <2>2, <2>3 DEF Statuses, CurveAlone
  <2> QED
    BY <2>4, <2>5 DEF CurveSound
<1>7. ASSUME NEW x \in S
      PROVE  \E y \in T : y.address = x.address /\ (x.status = "missing" => y = x)
  <2>1. f[x] \in T /\ f[x].address = x.address
    BY <1>1, <1>3
  <2>2. x.status = "missing" => ~Apart(x)
    BY DEF ActiveStatus
  <2> QED
    BY <1>3, <2>1, <2>2
<1> QED
  BY <1>2, <1>6, <1>7 DEF T

\* The new curves hold what was free, and no two of them the same edge.
LEMMA NewCurvesAre ==
    ASSUME NEW a, NEW relation, NEW old, IsFiniteSet(DOMAIN relation)
    PROVE  /\ IsFiniteSet(NewCurves(a, relation, old))
           /\ \A y \in NewCurves(a, relation, old) : CurveAlone(y, DOMAIN relation)
           /\ \A e \in DOMAIN relation :
                 relation[e] # NoRelation /\ e \notin UNION {c.edges : c \in Active(old)} =>
                     HoldersIn(NewCurves(a, relation, old), e) # {}
<1> DEFINE T == NewCurves(a, relation, old)
           claimed == UNION {c.edges : c \in Active(old)}
           free == {e \in DOMAIN relation : relation[e] # NoRelation} \ claimed
           EdgesOf(r) == {e \in free : relation[e] = r}
           New(r) == [address |-> [producer |-> stage + 1, role |-> r.role, pair |-> r.pair],
                      kind |-> r.kind, edges |-> EdgesOf(r), strict |-> Strict(EdgesOf(r)),
                      status |-> Strict(EdgesOf(r)), born |-> EdgesOf(r)]
           f == [e \in free |-> New(relation[e])]
<1>1. T = {New(r) : r \in {relation[e] : e \in free}}
  BY DEF NewCurves
<1>2. T = {f[e] : e \in free}
  <2> HIDE DEF New, free, T
  <2> QED
    BY <1>1 DEF f
<1>3. IsFiniteSet(free) /\ free \subseteq DOMAIN relation
  BY FS_Subset
<1>4. IsFiniteSet(T)
  <2> HIDE DEF f, T, free
  <2>1. free \subseteq DOMAIN f
    BY DEF f
  <2> QED
    BY <1>2, <1>3, <2>1, ImageIsFinite
<1>5. ASSUME NEW e \in free
      PROVE  /\ e \in EdgesOf(relation[e]) /\ EdgesOf(relation[e]) \subseteq DOMAIN relation
             /\ Strict(EdgesOf(relation[e])) \in ActiveStatus
             /\ Strict(EdgesOf(relation[e])) = "ambiguous" =>
                    Cardinality(EdgesOf(relation[e])) # 1
  <2>1. /\ e \in EdgesOf(relation[e]) /\ EdgesOf(relation[e]) \subseteq DOMAIN relation
        /\ IsFiniteSet(EdgesOf(relation[e]))
    BY <1>3, FS_Subset
  <2> HIDE DEF EdgesOf
  <2> QED
    BY <2>1, StrictIs DEF Statuses, ActiveStatus
<1> HIDE DEF free, EdgesOf, T
<1>6. ASSUME NEW y \in T
      PROVE  CurveAlone(y, DOMAIN relation)
  <2>1. PICK e \in free : y = New(relation[e])
    BY <1>2
  <2> QED
    BY <1>5, <2>1 DEF CurveShaped, CurveAlone, ActiveStatus, Statuses
<1>7. ASSUME NEW e \in DOMAIN relation, relation[e] # NoRelation, e \notin claimed
      PROVE  HoldersIn(T, e) # {}
  <2>1. e \in free
    BY <1>7 DEF free
  <2>2. New(relation[e]) \in T /\ e \in New(relation[e]).edges
        /\ New(relation[e]).status \in ActiveStatus
    BY <1>2, <1>5, <2>1
  <2> HIDE DEF New
  <2> QED
    BY <2>2 DEF HoldersIn, Active
<1> QED
  BY <1>4, <1>6, <1>7 DEF T

\* A stage whose curves have addresses of their own is as sound as the one
\* before it: each curve goes on, and each edge with a relation is held.
LEMMA CurvesAfterAre ==
    ASSUME NEW D, NEW a, NEW op, NEW relation, EdgesTold(D, a, relation),
           Unique(CurvesAfter(a, op, relation))
    PROVE  /\ CurvesSound(CurvesAfter(a, op, relation), DOMAIN relation)
           /\ Keeps(curves, CurvesAfter(a, op, relation))
           /\ \A e \in DOMAIN relation : relation[e] # NoRelation =>
                 HoldersIn(CurvesAfter(a, op, relation), e) # {}
<1> DEFINE S == {CurveAfter(a, op, relation, c) : c \in curves}
           old == CurvesApart(S)
           new == NewCurves(a, relation, old)
           all == CurvesAfter(a, op, relation)
           R == DOMAIN relation
<1>1. all = old \cup new
  BY DEF CurvesAfter, OldCurves
<1>2. IsFiniteSet(S)
  <2> DEFINE f == [c \in curves |-> CurveAfter(a, op, relation, c)]
  <2>1. S = {f[c] : c \in curves} /\ curves \subseteq DOMAIN f
    OBVIOUS
  <2>2. IsFiniteSet(curves)
    BY DEF EdgesTold, CurvesSound
  <2> HIDE DEF f, S
  <2> QED
    BY <2>1, <2>2, ImageIsFinite
<1>3. Unique(S) /\ \A x \in S : CurveAlone(x, R)
  BY AddressesStay, CurveAfterIs
<1> HIDE DEF S
<1>4. /\ IsFiniteSet(old) /\ \A y \in old : CurveSound(old, R, y)
      /\ \A x \in S : \E y \in old : y.address = x.address /\ (x.status = "missing" => y = x)
  BY <1>2, <1>3, CurvesApartIs
<1> HIDE DEF old
<1>5. /\ IsFiniteSet(new) /\ \A y \in new : CurveAlone(y, R)
      /\ \A e \in R : relation[e] # NoRelation /\ e \notin UNION {c.edges : c \in Active(old)} =>
             HoldersIn(new, e) # {}
  BY NewCurvesAre DEF EdgesTold
<1> HIDE DEF new, all
<1>6. IsFiniteSet(all)
  BY <1>1, <1>4, <1>5, UnionIsFinite
<1>7. \A y \in all : CurveSound(all, R, y)
  <2>1. ASSUME NEW y \in old PROVE CurveSound(all, R, y)
    <3>1. SharesEdge(old, y) => SharesEdge(all, y)
      BY <1>1 DEF SharesEdge, Active
    <3> QED
      BY <1>4, <3>1 DEF CurveSound
  <2>2. ASSUME NEW y \in new PROVE CurveSound(all, R, y)
    BY <1>5 DEF CurveSound, CurveAlone
  <2> QED
    BY <1>1, <2>1, <2>2
<1>8. Keeps(curves, all)
  <2> SUFFICES ASSUME NEW c \in curves
               PROVE  \E y \in all : y.address = c.address /\ (c.status = "missing" => y = c)
    BY DEF Keeps
  <2>1. PICK x \in S : x.address = c.address /\ (c.status = "missing" => x = c)
    BY CurveAfterIs DEF S
  <2>2. PICK y \in old : y.address = x.address /\ (x.status = "missing" => y = x)
    BY <1>4
  <2> QED
    BY <1>1, <2>1, <2>2
<1>9. ASSUME NEW e \in R, relation[e] # NoRelation PROVE HoldersIn(all, e) # {}
  <2>1. CASE e \in UNION {c.edges : c \in Active(old)}
    BY <1>1, <2>1 DEF HoldersIn, Active
  <2>2. CASE e \notin UNION {c.edges : c \in Active(old)}
    <3>1. HoldersIn(new, e) # {}
      BY <1>5, <1>9, <2>2
    <3> QED
      BY <1>1, <3>1 DEF HoldersIn, Active
  <2> QED
    BY <2>1, <2>2
<1>10. IsFiniteSet(R)
  BY DEF EdgesTold
<1> QED
  BY <1>6, <1>7, <1>8, <1>9, <1>10 DEF CurvesSound, all

\* The record of an edge says who holds it.
LEMMA EdgeRecordIs ==
    ASSUME NEW tracked, NEW edge, NEW e, NEW relation, NEW new, IsFiniteSet(new),
           relation[e] # NoRelation => HoldersIn(new, e) # {}
    PROVE  EdgeRecorded(new, e, EdgeRecord(tracked, edge, e, relation, new))
<1> DEFINE record == EdgeRecord(tracked, edge, e, relation, new)
           holders == HoldersIn(new, e)
           names == Addresses(holders)
<1>1. CASE ~Material(tracked, edge) \/ relation[e] = NoRelation
  BY <1>1 DEF EdgeRecord, EdgeRecorded
<1>2. CASE Material(tracked, edge) /\ relation[e] # NoRelation
  <2>1. record = [class |-> "referenceable",
                  status |-> IF Cardinality(names) > 1 \/ \E c \in holders : c.strict = "ambiguous"
                             THEN "ambiguous" ELSE "resolved",
                  candidates |-> names]
    BY <1>2 DEF EdgeRecord, HoldersIn, Addresses
  <2>2. Cardinality(names) \in Nat
    <3> DEFINE f == [c \in holders |-> c.address]
    <3>1. names = {f[c] : c \in holders} /\ holders \subseteq DOMAIN f
      BY DEF Addresses
    <3>2. IsFiniteSet(holders)
      BY FS_Subset DEF HoldersIn, Active
    <3> HIDE DEF f, names, holders
    <3>3. IsFiniteSet(names)
      BY <3>1, <3>2, ImageIsFinite
    <3> QED
      BY <3>3, FS_CardinalityType
  <2> DEFINE many == Cardinality(names)
  <2>3. many \in Nat
    BY <2>2
  <2>4. /\ record.class = "referenceable" /\ record.candidates = names
        /\ record.status = "resolved" => ~(many > 1)
    BY <2>1
  <2>5. record.status = "resolved" => many <= 1
    <3> HIDE DEF many, record
    <3> QED
      BY <2>3, <2>4
  <2> QED
    BY <1>2, <2>4, <2>5 DEF EdgeRecorded
<1> QED
  BY <1>1, <1>2

-----------------------------------------------------------------------------
(* Points *)

\* The history of the points' vertices leads to vertices that have a relation.
VerticesTold(a, relation) ==
    /\ PointsSound(points, vertices)
    /\ IsFiniteSet(DOMAIN relation)
    /\ \A v \in DOMAIN vertices : a.vertexOf[v] \subseteq DOMAIN relation

\* What a point is at the vertices of a shape, before the records are written.
PointAlone(x, relation) ==
    /\ PointShaped(x)
    /\ x.vertices \subseteq DOMAIN relation
    /\ x.status \in Statuses
    /\ (x.status = "missing") = (x.vertices = {})
    /\ x.status = "resolved" => Cardinality(x.vertices) = 1
    /\ \A v \in x.vertices : relation[v] = x.address.on

\* Points that are clear share no vertex with another one.
ApartFrom(P, x) ==
    x.status = "resolved" =>
        \A y \in Active(P) : x.vertices \cap y.vertices # {} => y = x

LEMMA PointAfterIs ==
    ASSUME NEW a, NEW relation, VerticesTold(a, relation), NEW p \in points
    PROVE  /\ PointAfter(a, relation, p).address = p.address
           /\ p.status = "missing" => PointAfter(a, relation, p) = p
           /\ PointAlone(PointAfter(a, relation, p), relation)
<1> DEFINE x == PointAfter(a, relation, p)
           descendants == UNION {a.vertexOf[v] : v \in p.vertices}
<1>1. /\ PointShaped(p) /\ p.vertices \subseteq DOMAIN vertices
      /\ p.status \in Statuses /\ (p.status = "missing") = (p.vertices = {})
  BY DEF VerticesTold, PointsSound, PointSound
<1>2. descendants \subseteq DOMAIN relation /\ IsFiniteSet(DOMAIN relation)
  BY <1>1 DEF VerticesTold
<1>3. IsFiniteSet(descendants)
  BY <1>2, FS_Subset
<1> HIDE DEF descendants
<1>4. CASE p.status \notin ActiveStatus
  <2>1. x = p /\ p.status = "missing" /\ p.vertices = {}
    BY <1>1, <1>4 DEF PointAfter, Statuses, ActiveStatus
  <2> HIDE DEF x
  <2> QED
    BY <1>1, <2>1 DEF PointAlone, x
<1>5. CASE p.status \in ActiveStatus /\ (descendants = {} \/
              \E v \in descendants : relation[v] # p.address.on)
  <2>1. x = [p EXCEPT !.status = "missing", !.vertices = {}]
    BY <1>5 DEF PointAfter, descendants
  <2>2. PointShaped(p) /\ p.status # "missing"
    BY <1>1, <1>5 DEF ActiveStatus
  <2> HIDE DEF x
  <2>3. x.address = p.address /\ x.vertices = {} /\ x.status = "missing" /\ PointShaped(x)
    BY <2>1, <2>2 DEF PointShaped
  <2>4. PointAlone(x, relation)
    BY <2>3 DEF PointAlone, Statuses
  <2> QED
    BY <2>2, <2>3, <2>4 DEF x
<1>6. CASE p.status \in ActiveStatus /\ descendants # {} /\
              \A v \in descendants : relation[v] = p.address.on
  <2>1. x = [p EXCEPT !.status = Strict(descendants), !.vertices = descendants]
    BY <1>6 DEF PointAfter, descendants
  <2>2. PointShaped(p) /\ p.status # "missing"
    BY <1>1, <1>6 DEF ActiveStatus
  <2>3. /\ Strict(descendants) \in Statuses /\ Strict(descendants) # "missing"
        /\ Strict(descendants) = "resolved" => Cardinality(descendants) = 1
    BY <1>3, <1>6, StrictIs
  <2> HIDE DEF x
  <2>4. /\ x.address = p.address /\ x.vertices = descendants
        /\ x.status = Strict(descendants) /\ PointShaped(x)
    BY <2>1, <2>2 DEF PointShaped
  <2>5. PointAlone(x, relation)
    BY <1>2, <1>6, <2>3, <2>4 DEF PointAlone
  <2> QED
    BY <2>2, <2>4, <2>5 DEF x
<1> QED
  BY <1>4, <1>5, <1>6

\* Points keep their address and vertices when they are found to share one.
LEMMA PointsApartIs ==
    ASSUME NEW S, NEW relation, Unique(S), \A x \in S : PointAlone(x, relation)
    PROVE  /\ \A y \in PointsApart(S) : /\ PointAlone(y, relation)
                                        /\ ApartFrom(PointsApart(S), y)
           /\ \A x \in S : \E y \in PointsApart(S) :
                 y.address = x.address /\ (x.status = "missing" => y = x)
<1> DEFINE Apart(p) == \E q \in Active(S) : /\ q # p /\ p.status \in ActiveStatus
                                            /\ p.vertices \cap q.vertices # {}
           f == [p \in S |-> IF Apart(p) THEN [p EXCEPT !.status = "ambiguous"] ELSE p]
           T == PointsApart(S)
<1>1. T = {f[p] : p \in S}
  BY DEF PointsApart
<1>2. ASSUME NEW p \in S
      PROVE  /\ PointShaped(f[p])
             /\ f[p].address = p.address /\ f[p].vertices = p.vertices
             /\ f[p].status = IF Apart(p) THEN "ambiguous" ELSE p.status
             /\ ~Apart(p) => f[p] = p
  <2>1. PointShaped(p)
    BY DEF PointAlone
  <2>2. CASE Apart(p)
    <3>1. f[p] = [p EXCEPT !.status = "ambiguous"]
      BY <2>2
    <3> HIDE DEF f, Apart
    <3> QED
      BY <2>1, <2>2, <3>1 DEF PointShaped
  <2>3. CASE ~Apart(p)
    <3>1. f[p] = p
      BY <2>3
    <3> HIDE DEF f, Apart
    <3> QED
      BY <2>1, <2>3, <3>1
  <2> QED
    BY <2>2, <2>3
<1> HIDE DEF f, T
<1>3. \A p \in S : (f[p].status \in ActiveStatus) = (p.status \in ActiveStatus)
  BY <1>2 DEF ActiveStatus
<1>4. ASSUME NEW p \in S PROVE PointAlone(f[p], relation)
  <2>1. PointAlone(p, relation)
    OBVIOUS
  <2>2. Apart(p) => p.status # "missing"
    BY DEF ActiveStatus
  <2> HIDE DEF Apart
  <2> QED
    BY <1>2, <2>1, <2>2 DEF PointAlone, Statuses
<1>5. ASSUME NEW p \in S PROVE ApartFrom(T, f[p])
  <2> SUFFICES ASSUME f[p].status = "resolved", NEW y \in Active(T),
                      f[p].vertices \cap y.vertices # {}
               PROVE  y = f[p]
    BY DEF ApartFrom
  <2>1. PICK q \in S : y = f[q] /\ q \in Active(S)
    BY <1>1, <1>3 DEF Active
  <2>2. ~Apart(p) /\ p.status \in ActiveStatus /\ p.vertices \cap q.vertices # {}
    BY <1>2, <2>1 DEF ActiveStatus
  <2> QED
    BY <2>1, <2>2
<1>6. ASSUME NEW x \in S
      PROVE  \E y \in T : y.address = x.address /\ (x.status = "missing" => y = x)
  <2>1. f[x] \in T /\ f[x].address = x.address
    BY <1>1, <1>2
  <2>2. x.status = "missing" => ~Apart(x)
    BY DEF ActiveStatus
  <2> QED
    BY <1>2, <2>1, <2>2
<1> QED
  BY <1>1, <1>4, <1>5, <1>6 DEF T

\* The new points are at vertices that were free, one for each relation.
LEMMA NewPointsAre ==
    ASSUME NEW relation, NEW old, IsFiniteSet(DOMAIN relation)
    PROVE  /\ \A y \in NewPoints(relation, old) :
                 /\ PointAlone(y, relation)
                 /\ y.vertices \cap UNION {p.vertices : p \in Active(old)} = {}
                 /\ \A z \in NewPoints(relation, old) : y.address.on = z.address.on => y = z
           /\ \A v \in DOMAIN relation :
                 relation[v] # {} /\ v \notin UNION {p.vertices : p \in Active(old)} =>
                     \E y \in NewPoints(relation, old) : v \in y.vertices
<1> DEFINE T == NewPoints(relation, old)
           claimed == UNION {p.vertices : p \in Active(old)}
           free == {v \in DOMAIN relation : relation[v] # {}} \ claimed
           VerticesOf(r) == {v \in free : relation[v] = r}
           New(r) == [address |-> [producer |-> stage + 1, on |-> r],
                      vertices |-> VerticesOf(r), status |-> Strict(VerticesOf(r))]
<1>1. T = {New(r) : r \in {relation[v] : v \in free}}
  BY DEF NewPoints
<1>2. free \subseteq DOMAIN relation /\ free \cap claimed = {}
      /\ \A v \in free : relation[v] # {}
  OBVIOUS
<1>3. IsFiniteSet(free)
  BY <1>2, FS_Subset
<1>4. ASSUME NEW v \in free
      PROVE  /\ v \in VerticesOf(relation[v]) /\ VerticesOf(relation[v]) \subseteq free
             /\ \A w \in VerticesOf(relation[v]) : relation[w] = relation[v]
             /\ Strict(VerticesOf(relation[v])) \in Statuses \ {"missing"}
             /\ Strict(VerticesOf(relation[v])) = "resolved" =>
                    Cardinality(VerticesOf(relation[v])) = 1
  <2>1. /\ v \in VerticesOf(relation[v]) /\ VerticesOf(relation[v]) \subseteq free
        /\ \A w \in VerticesOf(relation[v]) : relation[w] = relation[v]
    OBVIOUS
  <2>2. IsFiniteSet(VerticesOf(relation[v]))
    BY <1>3, <2>1, FS_Subset
  <2> HIDE DEF VerticesOf
  <2> QED
    BY <2>1, <2>2, StrictIs
<1> HIDE DEF free, claimed, VerticesOf, T
<1>5. ASSUME NEW y \in T
      PROVE  PointAlone(y, relation) /\ y.vertices \cap claimed = {}
  <2>1. PICK v \in free : y = New(relation[v])
    BY <1>1
  <2>2. /\ y.address.on = relation[v] /\ y.vertices = VerticesOf(relation[v])
        /\ y.status = Strict(VerticesOf(relation[v])) /\ PointShaped(y)
    BY <1>2, <2>1 DEF PointShaped
  <2> HIDE DEF New
  <2> QED
    BY <1>2, <1>4, <2>2 DEF PointAlone
<1>6. ASSUME NEW y \in T, NEW z \in T, y.address.on = z.address.on PROVE y = z
  <2>1. y = New(y.address.on) /\ z = New(z.address.on)
    BY <1>1
  <2> QED
    BY <1>6, <2>1
<1>7. ASSUME NEW v \in DOMAIN relation, relation[v] # {}, v \notin claimed
      PROVE  \E y \in T : v \in y.vertices
  <2>1. v \in free
    BY <1>7 DEF free
  <2>2. New(relation[v]) \in T /\ v \in New(relation[v]).vertices
    BY <1>1, <1>4, <2>1
  <2> QED
    BY <2>2
<1> QED
  BY <1>5, <1>6, <1>7 DEF T, claimed

\* A point that is clear is the one its vertex resolves to.
LEMMA VertexOfPoint ==
    ASSUME NEW tracked, NEW shape, NEW relation, NEW P, NEW p \in P,
           PointAlone(p, relation), ApartFrom(P, p), p.status = "resolved", NEW v,
           p.vertices = {v}
    PROVE  /\ VertexRecord(tracked, shape, v, relation, P).status = "resolved"
           /\ VertexRecord(tracked, shape, v, relation, P).candidates = {p.address}
<1> DEFINE holders == {q \in Active(P) : v \in q.vertices}
<1>1. relation[v] # {}
  BY DEF PointAlone, PointShaped
<1>2. p \in Active(P)
  BY DEF Active, ActiveStatus
<1>3. holders = {p}
  BY <1>2 DEF ApartFrom
<1> HIDE DEF holders
<1>4. ~(Cardinality(holders) > 1) /\ \A q \in holders : q.status # "ambiguous"
  BY <1>3, FS_Singleton
<1>5. {q.address : q \in holders} = {p.address}
  BY <1>3
<1>6. VertexRecord(tracked, shape, v, relation, P).status = "resolved"
  BY <1>1, <1>4 DEF VertexRecord, holders
<1>7. VertexRecord(tracked, shape, v, relation, P).candidates = {p.address}
  BY <1>1, <1>5 DEF VertexRecord, holders
<1> QED
  BY <1>6, <1>7

\* A stage whose points have addresses of their own is as sound as the one
\* before it.
LEMMA PointsAfterAre ==
    ASSUME NEW a, NEW relation, VerticesTold(a, relation),
           Unique(PointsAfter(a, relation)),
           NEW tracked, NEW shape, NEW V, DOMAIN V = DOMAIN relation,
           \A v \in DOMAIN V :
               V[v] = VertexRecord(tracked, shape, v, relation, PointsAfter(a, relation))
    PROVE  PointsSound(PointsAfter(a, relation), V) /\ Keeps(points, PointsAfter(a, relation))
<1> DEFINE S == {PointAfter(a, relation, p) : p \in points}
           old == PointsApart(S)
           new == NewPoints(relation, old)
           all == PointsAfter(a, relation)
           claimed == UNION {p.vertices : p \in Active(old)}
<1>1. all = old \cup new
  BY DEF PointsAfter
<1>2. Unique(points)
  BY DEF VerticesTold, PointsSound
<1>3. Unique(S)
  BY <1>2, PointAfterIs DEF Unique
<1>4. \A x \in S : PointAlone(x, relation)
  BY PointAfterIs
<1> HIDE DEF S
<1>5. /\ \A y \in old : PointAlone(y, relation) /\ ApartFrom(old, y)
      /\ \A x \in S : \E y \in old : y.address = x.address /\ (x.status = "missing" => y = x)
  BY <1>3, <1>4, PointsApartIs
<1> HIDE DEF old
<1>6. \A y \in new :
         /\ PointAlone(y, relation) /\ y.vertices \cap claimed = {}
         /\ \A z \in new : y.address.on = z.address.on => y = z
  BY NewPointsAre DEF VerticesTold
<1> HIDE DEF new, all
<1>7. \A z \in Active(old) : z.vertices \subseteq claimed
  OBVIOUS
<1> HIDE DEF claimed
<1>8. ASSUME NEW y \in all PROVE PointAlone(y, relation) /\ ApartFrom(all, y)
  <2>1. PointAlone(y, relation)
    BY <1>1, <1>5, <1>6
  <2> SUFFICES ASSUME y.status = "resolved", NEW z \in Active(all),
                      y.vertices \cap z.vertices # {}
               PROVE  z = y
    BY <2>1 DEF ApartFrom
  <2>2. CASE y \in old /\ z \in old
    BY <1>5, <2>2 DEF ApartFrom, Active
  <2>3. CASE y \in old /\ z \in new
    <3>1. y \in Active(old)
      BY <2>3 DEF Active, ActiveStatus
    <3> QED
      BY <1>6, <1>7, <2>3, <3>1
  <2>4. CASE y \in new /\ z \in old
    <3>1. z \in Active(old)
      BY <2>4 DEF Active
    <3> QED
      BY <1>6, <1>7, <2>4, <3>1
  <2>5. CASE y \in new /\ z \in new
    <3>1. PICK v : v \in y.vertices /\ v \in z.vertices
      OBVIOUS
    <3>2. relation[v] = y.address.on /\ relation[v] = z.address.on
      BY <1>6, <2>5, <3>1 DEF PointAlone
    <3> QED
      BY <1>6, <2>5, <3>2
  <2> QED
    BY <1>1, <2>2, <2>3, <2>4, <2>5 DEF Active
<1>9. ASSUME NEW p \in all PROVE PointSound(V, p)
  <2>1. /\ PointShaped(p) /\ p.vertices \subseteq DOMAIN V /\ p.status \in Statuses
        /\ (p.status = "missing") = (p.vertices = {})
    BY <1>8 DEF PointAlone
  <2>2. ASSUME p.status = "resolved"
        PROVE  \E v \in DOMAIN V : /\ p.vertices = {v}
                                   /\ V[v].status = "resolved"
                                   /\ V[v].candidates = {p.address}
    <3>1. Cardinality(p.vertices) = 1
      BY <1>8, <2>2 DEF PointAlone
    <3>2. IsFiniteSet(p.vertices)
      BY <2>1, FS_Subset DEF VerticesTold
    <3>3. PICK v : p.vertices = {v}
      BY <3>1, <3>2, FS_Singleton
    <3>4. v \in DOMAIN V
      BY <2>1, <3>3
    <3>5. V[v] = VertexRecord(tracked, shape, v, relation, all)
      BY <3>4 DEF all
    <3>6. V[v].status = "resolved" /\ V[v].candidates = {p.address}
      BY <1>8, <2>2, <3>3, <3>5, VertexOfPoint
    <3> QED
      BY <3>3, <3>4, <3>6
  <2> QED
    BY <2>1, <2>2 DEF PointSound
<1>10. Keeps(points, all)
  <2> SUFFICES ASSUME NEW p \in points
               PROVE  \E y \in all : y.address = p.address /\ (p.status = "missing" => y = p)
    BY DEF Keeps
  <2>1. PICK x \in S : x.address = p.address /\ (p.status = "missing" => x = p)
    BY PointAfterIs DEF S
  <2>2. PICK y \in old : y.address = x.address /\ (x.status = "missing" => y = x)
    BY <1>5
  <2> QED
    BY <1>1, <2>1, <2>2
<1> QED
  BY <1>9, <1>10 DEF PointsSound, all

-----------------------------------------------------------------------------
(* Surfaces *)

LEMMA TokenIsOne == ASSUME stage \in Nat, NEW kind, NEW i PROVE Token(kind, i) # NoToken
<1>1. stage + 1 # 0
  OBVIOUS
<1> QED
  BY <1>1 DEF Token, NoToken

\* What the next solid tracks: what went on, what is new, and the transitions.
TokensAfter(lineage, parts) ==
    {s \in DOMAIN lineage.inherited : lineage.inherited[s].status = "resolved"}
        \cup {Token("made", i) :
                 i \in {j \in DOMAIN lineage.made : lineage.made[j].status = "resolved"}}
        \cup {Token(p.kind, p.source) : p \in parts}

LEMMA TrackedAre ==
    ASSUME NEW a, NEW lineage, NEW parts
    PROVE  DOMAIN TrackedWith(a, TrackedAfter(a, lineage), parts) = TokensAfter(lineage, parts)
<1>1. DOMAIN TrackedAfter(a, lineage) =
          {s \in DOMAIN lineage.inherited : lineage.inherited[s].status = "resolved"}
              \cup {Token("made", i) :
                       i \in {j \in DOMAIN lineage.made : lineage.made[j].status = "resolved"}}
  BY DEF TrackedAfter
<1> DEFINE kept == TrackedAfter(a, lineage)
<1> HIDE DEF kept
<1>2. DOMAIN TrackedWith(a, kept, parts) =
          DOMAIN kept \cup {Token(p.kind, p.source) : p \in parts}
  BY DEF TrackedWith
<1> QED
  BY <1>1, <1>2 DEF kept, TokensAfter

\* A surface is looked up by its token if and only if it is resolved.
SurfaceTracked(s, tokens) ==
    /\ SurfaceShaped(s)
    /\ IF s.status = "resolved" THEN s.token \in tokens ELSE s.token = NoToken

LEMMA PropagatedAre ==
    ASSUME NEW lineage, TokensAgree(lineage), TrackedSound(surfaces, solid.tracked), NEW parts
    PROVE  /\ \A s \in PropagatedSurfaces(lineage) :
                 SurfaceTracked(s, TokensAfter(lineage, parts))
           /\ Keeps(surfaces, PropagatedSurfaces(lineage))
<1> DEFINE T == PropagatedSurfaces(lineage)
           tokens == TokensAfter(lineage, parts)
           After(s) == LET item == lineage.inherited[s.token]
                       IN  [s EXCEPT !.status = item.status,
                                     !.faces = FaceTokens(item.faces),
                                     !.token = IF item.status = "resolved" THEN @ ELSE NoToken]
           f == [s \in surfaces |->
                    IF s.status # "resolved" \/ s.token \notin DOMAIN lineage.inherited THEN s
                    ELSE After(s)]
<1>1. T = {f[s] : s \in surfaces}
  BY DEF PropagatedSurfaces
<1>2. ASSUME NEW s \in surfaces
      PROVE  /\ SurfaceTracked(f[s], tokens)
             /\ f[s].address = s.address
             /\ s.status = "missing" => f[s] = s
  <2>1. SurfaceShaped(s) /\ (s.status # "resolved" => s.token = NoToken)
    BY DEF TrackedSound
  <2>2. CASE s.status # "resolved"
    <3>1. f[s] = s
      BY <2>2
    <3> HIDE DEF f
    <3> QED
      BY <2>1, <2>2, <3>1 DEF SurfaceTracked
  <2>3. CASE s.status = "resolved"
    <3>1. s.token \in DOMAIN lineage.inherited
      BY <2>3 DEF TokensAgree
    <3> DEFINE item == lineage.inherited[s.token]
    <3>2. f[s] = [s EXCEPT !.status = item.status,
                           !.faces = FaceTokens(item.faces),
                           !.token = IF item.status = "resolved" THEN @ ELSE NoToken]
      BY <2>3, <3>1
    <3>3. item.status = "resolved" => s.token \in tokens
      BY <3>1 DEF TokensAfter
    <3> HIDE DEF f, item, tokens
    <3>4. /\ f[s].address = s.address /\ f[s].status = item.status
          /\ f[s].token = IF item.status = "resolved" THEN s.token ELSE NoToken
          /\ SurfaceShaped(f[s])
      BY <2>1, <3>2 DEF SurfaceShaped
    <3> QED
      BY <2>3, <3>3, <3>4 DEF SurfaceTracked
  <2> QED
    BY <2>2, <2>3
<1> HIDE DEF f, tokens, T
<1>3. \A s \in T : SurfaceTracked(s, tokens)
  BY <1>1, <1>2
<1>4. Keeps(surfaces, T)
  BY <1>1, <1>2 DEF Keeps
<1> QED
  BY <1>3, <1>4 DEF T, tokens

LEMMA MadeAre ==
    ASSUME NEW a, NEW lineage, NEW parts
    PROVE  \A s \in MadeSurfaces(a, lineage) : SurfaceTracked(s, TokensAfter(lineage, parts))
<1> SUFFICES ASSUME NEW i \in DOMAIN lineage.made,
                    NEW s, s = Surface(a.made[i].role, a.made[i].class, {}, {}, a.made[i].plane,
                                       lineage.made[i].status,
                                       IF lineage.made[i].status = "resolved"
                                       THEN Token("made", i) ELSE NoToken,
                                       lineage.made[i].faces)
             PROVE  SurfaceTracked(s, TokensAfter(lineage, parts))
  BY DEF MadeSurfaces
<1>1. /\ SurfaceShaped(s) /\ s.status = lineage.made[i].status
      /\ s.token = IF lineage.made[i].status = "resolved" THEN Token("made", i) ELSE NoToken
  BY DEF Surface, SurfaceShaped
<1>2. lineage.made[i].status = "resolved" => Token("made", i) \in TokensAfter(lineage, parts)
  BY DEF TokensAfter
<1> QED
  BY <1>1, <1>2 DEF SurfaceTracked

LEMMA TransitionsAre ==
    ASSUME NEW a, NEW lineage, NEW parts, NEW p \in parts, NEW refs
    PROVE  SurfaceTracked(TransitionSurface(a, p, refs), TokensAfter(lineage, parts))
<1> DEFINE s == TransitionSurface(a, p, refs)
<1>1. SurfaceShaped(s) /\ s.status = "resolved" /\ s.token = Token(p.kind, p.source)
  BY DEF TransitionSurface, Surface, SurfaceShaped
<1>2. Token(p.kind, p.source) \in TokensAfter(lineage, parts)
  BY DEF TokensAfter
<1> HIDE DEF s
<1>3. SurfaceTracked(s, TokensAfter(lineage, parts))
  BY <1>1, <1>2 DEF SurfaceTracked
<1> QED
  BY <1>3 DEF s

\* The tokens of the next solid are those its resolved surfaces have.
LEMMA TokensAreGood ==
    ASSUME stage \in Nat, NEW lineage, TokensAgree(lineage),
           TrackedSound(surfaces, solid.tracked), NEW parts
    PROVE  NoToken \notin TokensAfter(lineage, parts)
<1>1. NoToken \notin DOMAIN lineage.inherited
  BY DEF TokensAgree, TrackedSound
<1> QED
  BY <1>1, TokenIsOne DEF TokensAfter

-----------------------------------------------------------------------------
(* One feature *)

\* What a feature makes of one answer, as far as the stage is built from it.
LEMMA OutcomeIs ==
    ASSUME NEW f, NEW a
    PROVE  \E op, lineage, parts, refs :
              /\ Outcome(f, a).agrees = TokensAgree(lineage)
              /\ Outcome(f, a).tracked = TrackedWith(a, TrackedAfter(a, lineage), parts)
              /\ Outcome(f, a).surfaces =
                     PropagatedSurfaces(lineage) \cup MadeSurfaces(a, lineage)
                         \cup {TransitionSurface(a, p, refs) : p \in parts}
              /\ DOMAIN Outcome(f, a).between = DOMAIN a.shape.edges
              /\ DOMAIN Outcome(f, a).corner = DOMAIN a.shape.vertices
              /\ Outcome(f, a).curves = CurvesAfter(a, op, Outcome(f, a).between)
              /\ Outcome(f, a).points = PointsAfter(a, Outcome(f, a).corner)
<1> DEFINE op == IF solid.shape = NoShape THEN "base" ELSE f.op
           selected == Selected(f.refs)
           lineage == SurfaceLineage(op, a)
           result == ResultOf(op, a, selected, lineage)
           parts == result.parts
           refs == [e \in selected |-> RefOf(f.refs, e)]
           added == {TransitionSurface(a, p, refs) : p \in parts}
           surfs == PropagatedSurfaces(lineage) \cup MadeSurfaces(a, lineage) \cup added
           between == [e \in DOMAIN a.shape.edges |->
                          CurveRelation(result.tracked, surfs, a.shape.edges[e])]
           corner == [v \in DOMAIN a.shape.vertices |->
                         PointRelation(result.tracked, surfs, a.shape.vertices[v].on)]
           o == Outcome(f, a)
<1> HIDE DEF op, selected, lineage, result, refs, added, surfs, between, corner, o
<1>1. /\ result.lineage = lineage
      /\ result.tracked = TrackedWith(a, TrackedAfter(a, lineage), parts)
  BY TableIs DEF result, ResultOf, KernelResult
<1>2. o = SurfacesAdded(f, a, op, result, selected)
  BY DEF o, Outcome, op, result, selected, lineage
<1>3. o = AddedTo(a, op, result, added)
  BY <1>2 DEF SurfacesAdded, added, refs
<1>4. o = MeaningsOf(a, op, result, added, surfs)
  BY <1>1, <1>3 DEF AddedTo, surfs
<1>5. Table(between) = between /\ Table(corner) = corner
  BY TableIs
<1>6. o = Meanings(a, op, result, added, surfs, between, corner)
  BY <1>4, <1>5 DEF MeaningsOf, between, corner
<1>7. /\ o.agrees = TokensAgree(result.lineage) /\ o.tracked = result.tracked
      /\ o.surfaces = surfs /\ o.between = between /\ o.corner = corner
      /\ o.curves = CurvesAfter(a, op, between) /\ o.points = PointsAfter(a, corner)
  BY <1>6 DEF Meanings
<1>8. DOMAIN between = DOMAIN a.shape.edges /\ DOMAIN corner = DOMAIN a.shape.vertices
  BY DEF between, corner
<1>9. /\ o.agrees = TokensAgree(lineage)
      /\ o.tracked = TrackedWith(a, TrackedAfter(a, lineage), parts)
      /\ o.surfaces = PropagatedSurfaces(lineage) \cup MadeSurfaces(a, lineage)
                         \cup {TransitionSurface(a, p, refs) : p \in parts}
      /\ DOMAIN o.between = DOMAIN a.shape.edges /\ DOMAIN o.corner = DOMAIN a.shape.vertices
      /\ o.curves = CurvesAfter(a, op, o.between) /\ o.points = PointsAfter(a, o.corner)
  BY <1>1, <1>7, <1>8 DEF surfs, added
<1> QED
  BY <1>9 DEF o

\* What publishes has told where all edges and vertices have gone.
LEMMA PublishedIs ==
    ASSUME BodySound, NEW a, WellFormed(a), NEW f, Publish(a, Outcome(f, a))
    PROVE  /\ BodySound'
           /\ Keeps(surfaces, surfaces') /\ Keeps(curves, curves') /\ Keeps(points, points')
<1> DEFINE o == Outcome(f, a)
           between == o.between
           corner == o.corner
<1>1. PICK op, lineage, parts, refs :
         /\ o.agrees = TokensAgree(lineage)
         /\ o.tracked = TrackedWith(a, TrackedAfter(a, lineage), parts)
         /\ o.surfaces = PropagatedSurfaces(lineage) \cup MadeSurfaces(a, lineage)
                             \cup {TransitionSurface(a, p, refs) : p \in parts}
         /\ DOMAIN o.between = DOMAIN a.shape.edges /\ DOMAIN o.corner = DOMAIN a.shape.vertices
         /\ o.curves = CurvesAfter(a, op, o.between) /\ o.points = PointsAfter(a, o.corner)
  BY OutcomeIs
<1> HIDE DEF o
<1>2. /\ stage' = stage + 1 /\ after' = stage + 1
      /\ solid' = [shape |-> a.shape, tracked |-> o.tracked]
      /\ surfaces' = o.surfaces /\ curves' = o.curves /\ points' = o.points
      /\ edges' = [e \in DOMAIN a.shape.edges |->
                      EdgeRecord(o.tracked, a.shape.edges[e], e, between, o.curves)]
      /\ vertices' = [v \in DOMAIN a.shape.vertices |->
                         VertexRecord(o.tracked, a.shape, v, corner, o.points)]
      /\ Integral(a, o)
  BY DEF Publish, o
<1>3. TokensAgree(lineage) /\ Unique(o.curves) /\ Unique(o.points)
  BY <1>1, <1>2 DEF Integral, Complete
<1>4. /\ IsFiniteSet(DOMAIN between) /\ IsFiniteSet(DOMAIN corner)
      /\ DOMAIN between = DOMAIN a.shape.edges /\ DOMAIN corner = DOMAIN a.shape.vertices
  BY <1>1 DEF WellFormed
<1>5. EdgesTold(DOMAIN edges, a, between)
  BY <1>4 DEF EdgesTold, BodySound, WellFormed
<1>6. VerticesTold(a, corner)
  BY <1>4 DEF VerticesTold, BodySound, WellFormed
<1>7. /\ CurvesSound(o.curves, DOMAIN between) /\ Keeps(curves, o.curves)
      /\ \A e \in DOMAIN between : between[e] # NoRelation => HoldersIn(o.curves, e) # {}
  BY <1>1, <1>3, <1>5, CurvesAfterAre
<1>8. DOMAIN edges' = DOMAIN between /\ CurvesSound(curves', DOMAIN edges')
  BY <1>2, <1>4, <1>7
<1>9. \A e \in DOMAIN edges' : EdgeRecorded(curves', e, edges'[e])
  <2> SUFFICES ASSUME NEW e \in DOMAIN between
               PROVE  EdgeRecorded(o.curves, e,
                          EdgeRecord(o.tracked, a.shape.edges[e], e, between, o.curves))
    BY <1>2, <1>4, <1>8
  <2>1. IsFiniteSet(o.curves)
    BY <1>7 DEF CurvesSound
  <2>2. between[e] # NoRelation => HoldersIn(o.curves, e) # {}
    BY <1>7
  <2> HIDE DEF between
  <2> QED
    BY <2>1, <2>2, EdgeRecordIs
<1>10. PointsSound(points', vertices') /\ Keeps(points, points')
  <2>1. /\ DOMAIN vertices' = DOMAIN corner
        /\ \A v \in DOMAIN vertices' :
              vertices'[v] = VertexRecord(o.tracked, a.shape, v, corner, PointsAfter(a, corner))
    BY <1>1, <1>2, <1>4
  <2>2. Unique(PointsAfter(a, corner)) /\ points' = PointsAfter(a, corner)
    BY <1>1, <1>2, <1>3
  <2> DEFINE V == vertices'
  <2>3. /\ DOMAIN V = DOMAIN corner
        /\ \A v \in DOMAIN V :
              V[v] = VertexRecord(o.tracked, a.shape, v, corner, PointsAfter(a, corner))
    BY <2>1
  <2> HIDE DEF V, corner
  <2>4. PointsSound(PointsAfter(a, corner), V) /\ Keeps(points, PointsAfter(a, corner))
    BY <1>6, <2>2, <2>3, PointsAfterAre
  <2> QED
    BY <2>2, <2>4 DEF V
<1>11. IsFiniteSet(DOMAIN vertices') /\ \A v \in DOMAIN vertices' : IncidentTo(a.shape, v, vertices'[v])
  BY <1>2, <1>4 DEF IncidentTo, VertexRecord
<1>12. TwoEnds(a.shape) /\ a.shape # NoShape
  BY DEF WellFormed, TwoEnds
<1>13. TrackedSound(surfaces', o.tracked) /\ Keeps(surfaces, surfaces')
  <2>1. TrackedSound(surfaces, solid.tracked) /\ stage \in Nat
    BY DEF BodySound
  <2>2. DOMAIN o.tracked = TokensAfter(lineage, parts)
    BY <1>1, TrackedAre
  <2>3. NoToken \notin DOMAIN o.tracked
    BY <1>3, <2>1, <2>2, TokensAreGood
  <2>4. \A s \in o.surfaces : SurfaceTracked(s, DOMAIN o.tracked)
    BY <1>1, <1>3, <2>1, <2>2, PropagatedAre, MadeAre, TransitionsAre
  <2>5. Keeps(surfaces, PropagatedSurfaces(lineage))
    BY <1>3, <2>1, PropagatedAre
  <2>6. Keeps(surfaces, o.surfaces)
    BY <1>1, <2>5 DEF Keeps
  <2>7. TrackedSound(o.surfaces, o.tracked)
    BY <2>3, <2>4 DEF TrackedSound, SurfaceTracked
  <2> QED
    BY <1>2, <2>6, <2>7
<1>14. /\ stage' \in Nat /\ after' \in Nat /\ after' <= stage'
       /\ (after' = 0) = (solid'.shape = NoShape)
  BY <1>2, <1>12 DEF BodySound
<1>15. /\ solid'.shape = a.shape /\ solid'.tracked = o.tracked
       /\ DOMAIN vertices' = DOMAIN a.shape.vertices /\ DOMAIN edges' = DOMAIN a.shape.edges
  BY <1>2
<1>16. BodySound'
  BY <1>8, <1>9, <1>10, <1>11, <1>12, <1>13, <1>14, <1>15 DEF BodySound, Shape
<1> QED
  BY <1>2, <1>7, <1>10, <1>13, <1>16

-----------------------------------------------------------------------------
(* The plan *)

LEMMA TableIsSeq ==
    ASSUME NEW T, NEW n \in Nat, NEW s \in [1 .. n -> T] PROVE s \in Seq(T)
OBVIOUS

\* A sequence is one over its own elements.
LEMMA SeqOfOwn ==
    ASSUME NEW T, NEW s \in Seq(T) PROVE s \in Seq({s[i] : i \in DOMAIN s})
<1>1. /\ Len(s) \in Nat /\ DOMAIN s = 1 .. Len(s)
      /\ s = [i \in 1 .. Len(s) |-> s[i]]
  OBVIOUS
<1> DEFINE R == {s[i] : i \in DOMAIN s}
<1>2. s \in [1 .. Len(s) -> R]
  BY <1>1
<1> HIDE DEF R
<1>3. s \in Seq(R)
  BY <1>1, <1>2
<1> QED
  BY <1>3 DEF R

FeatureSound(f) ==
    /\ DOMAIN f = {"op", "refs", "suppressed"}
    /\ RefsSound(f.refs)

LEMMA PlanGrows ==
    ASSUME PlanSound, Len(plan) < MaxFeatures, NEW f, FeatureSound(f),
           plan' = Append(plan, f), UNCHANGED stage, stage \in Nat
    PROVE  PlanSound'
<1> DEFINE S == {plan[i] : i \in DOMAIN plan}
           T == S \cup {f}
<1>1. plan \in Seq(S) /\ Len(plan) \in Nat
  BY DEF PlanSound
<1> HIDE DEF S
<1>2. plan \in Seq(T) /\ f \in T
  <2>1. S \subseteq T /\ f \in T
    OBVIOUS
  <2> HIDE DEF T
  <2> QED
    BY <1>1, <2>1
<1> HIDE DEF T
<1>3. /\ plan' \in Seq(T) /\ Len(plan') = Len(plan) + 1
      /\ DOMAIN plan' = 1 .. Len(plan) + 1 /\ DOMAIN plan = 1 .. Len(plan)
      /\ \A i \in 1 .. Len(plan) : plan'[i] = plan[i]
      /\ plan'[Len(plan) + 1] = f
  BY <1>2
<1>4. plan' \in Seq({plan'[i] : i \in DOMAIN plan'})
  BY <1>3, SeqOfOwn
<1>5. Len(plan') <= MaxFeatures /\ stage' <= Len(plan')
  BY <1>1, <1>3, TopologyAssumption DEF PlanSound
<1>6. ASSUME NEW i \in DOMAIN plan' PROVE FeatureSound(plan'[i])
  <2>1. CASE i \in 1 .. Len(plan)
    <3>1. FeatureSound(plan[i])
      BY <1>3, <2>1 DEF PlanSound, FeatureSound
    <3> QED
      BY <1>3, <2>1, <3>1
  <2>2. CASE i = Len(plan) + 1
    BY <1>3, <2>2
  <2> QED
    BY <1>1, <1>3, <2>1, <2>2
<1>7. PlanSound'
  BY <1>4, <1>5, <1>6 DEF PlanSound, FeatureSound
<1> QED
  BY <1>7

\* Suppressing a feature or not changes none of its references.
LEMMA PlanToggles ==
    ASSUME PlanSound, NEW i \in DOMAIN plan,
           plan' = [plan EXCEPT ![i].suppressed = ~@], stage' = 0
    PROVE  PlanSound'
<1> DEFINE S == {plan[j] : j \in DOMAIN plan}
           x == [plan[i] EXCEPT !.suppressed = ~@]
           T == S \cup {x}
<1>1. plan \in Seq(S) /\ Len(plan) \in Nat /\ DOMAIN plan = 1 .. Len(plan)
  BY DEF PlanSound
<1>2. plan' = [plan EXCEPT ![i] = x]
  OBVIOUS
<1>3. FeatureSound(plan[i])
  BY DEF PlanSound, FeatureSound
<1>4. FeatureSound(x)
  <2>1. DOMAIN x = DOMAIN plan[i] /\ x.refs = plan[i].refs
    BY <1>3 DEF FeatureSound
  <2> QED
    BY <1>3, <2>1 DEF FeatureSound
<1> HIDE DEF x
<1>5. /\ DOMAIN plan' = 1 .. Len(plan)
      /\ \A j \in DOMAIN plan' : plan'[j] = IF j = i THEN x ELSE plan[j]
  BY <1>1, <1>2
<1>6. \A j \in DOMAIN plan' : plan'[j] \in T
  BY <1>1, <1>5
<1>7. plan' = [j \in 1 .. Len(plan) |-> plan'[j]]
  BY <1>1, <1>2
<1> HIDE DEF T
<1>8. plan' \in Seq(T)
  <2>1. plan' \in [1 .. Len(plan) -> T]
    BY <1>5, <1>6, <1>7
  <2>2. Len(plan) \in Nat
    BY <1>1
  <2> QED
    BY <2>1, <2>2, TableIsSeq
<1>9. Len(plan') = Len(plan)
  BY <1>1, <1>5, <1>8
<1>10. plan' \in Seq({plan'[j] : j \in DOMAIN plan'})
  <2> DEFINE q == plan'
  <2>1. q \in Seq(T)
    BY <1>8
  <2> HIDE DEF q
  <2>2. q \in Seq({q[j] : j \in DOMAIN q})
    BY <2>1, SeqOfOwn
  <2> QED
    BY <2>2 DEF q
<1>11. Len(plan') <= MaxFeatures /\ stage' <= Len(plan')
  BY <1>1, <1>9 DEF PlanSound
<1>12. \A j \in DOMAIN plan' : FeatureSound(plan'[j])
  BY <1>1, <1>4, <1>5 DEF PlanSound, FeatureSound
<1>13. PlanSound'
  BY <1>10, <1>11, <1>12 DEF PlanSound, FeatureSound
<1> QED
  BY <1>13

-----------------------------------------------------------------------------
(* References *)

LEMMA PairHasTwo == ASSUME NEW x, NEW y, x # y PROVE Cardinality({x, y}) = 2
<1>1. /\ IsFiniteSet({x}) /\ Cardinality({x}) = 1 /\ y \notin {x} /\ {x} \cup {y} = {x, y}
  BY FS_Singleton
<1> QED
  BY <1>1, FS_AddElement

LEMMA TwoIn ==
    ASSUME NEW S, IsFiniteSet(S), ~(Cardinality(S) < 2)
    PROVE  \E x, y \in S : x # y
<1>1. Cardinality(S) \in Nat
  BY FS_CardinalityType
<1>2. S # {}
  <2>1. S = {} => Cardinality(S) = 0
    BY FS_EmptySet
  <2> QED
    BY <2>1
<1>3. PICK x : x \in S
  BY <1>2
<1>4. S # {x}
  <2>1. S = {x} => Cardinality(S) = 1
    BY FS_Singleton
  <2> QED
    BY <2>1
<1> QED
  BY <1>3, <1>4

LEMMA TwoOf ==
    ASSUME NEW S, IsFiniteSet(S), Cardinality(S) = 2
    PROVE  \E x, y \in S : x # y /\ S = {x, y}
<1>1. PICK x, y \in S : x # y
  BY TwoIn
<1>2. IsFiniteSet(S \ {x}) /\ Cardinality(S \ {x}) = 1
  BY FS_RemoveElement
<1>3. PICK z : S \ {x} = {z}
  BY <1>2, FS_Singleton
<1> QED
  BY <1>1, <1>3

\* A vertex resolves to one point at most.
LEMMA PointAtOne ==
    ASSUME Unique(points), NEW v, NEW p \in PointAt(v)
    PROVE  PointAt(v) = {p}
<1> SUFFICES ASSUME NEW q \in PointAt(v) PROVE q = p
  OBVIOUS
<1>1. {q.address} = {p.address} /\ q \in points /\ p \in points
  BY DEF PointAt
<1> QED
  BY <1>1 DEF Unique

\* An edge has two vertices at most, and they have as many points.
LEMMA IncidentAre ==
    ASSUME BodySound, NEW e \in DOMAIN edges
    PROVE  \E v, w : Incident(e) \subseteq {v, w}
<1>1. PICK v, w \in DOMAIN Shape.vertices : Shape.edges[e].ends = {v, w}
  BY DEF BodySound, TwoEnds
<1>2. Incident(e) \subseteq Shape.edges[e].ends
  BY DEF Incident, BodySound, IncidentTo
<1> QED
  BY <1>1, <1>2

LEMMA CertifiedFinite ==
    ASSUME BodySound, NEW e \in DOMAIN edges
    PROVE  IsFiniteSet({p.address : p \in Certified(Incident(e))})
<1>1. PICK v, w : Incident(e) \subseteq {v, w}
  BY IncidentAre
<1>2. Unique(points)
  BY DEF BodySound, PointsSound
<1>3. \A u : \E p : PointAt(u) \subseteq {p}
  <2> SUFFICES ASSUME NEW u PROVE \E p : PointAt(u) \subseteq {p}
    OBVIOUS
  <2>1. CASE PointAt(u) = {}
    BY <2>1
  <2>2. CASE PointAt(u) # {}
    <3>1. PICK p : p \in PointAt(u)
      BY <2>2
    <3> QED
      BY <1>2, <3>1, PointAtOne
  <2> QED
    BY <2>1, <2>2
<1>4. PICK p : PointAt(v) \subseteq {p}
  BY <1>3
<1>5. PICK q : PointAt(w) \subseteq {q}
  BY <1>3
<1>6. Certified(Incident(e)) \subseteq {p, q}
  BY <1>1, <1>4, <1>5 DEF Certified
<1>7. {r.address : r \in Certified(Incident(e))} \subseteq {p.address} \cup {q.address}
  BY <1>6
<1>8. IsFiniteSet({p.address} \cup {q.address})
  BY FS_Singleton, UnionIsFinite
<1> QED
  BY <1>7, <1>8, FS_Subset

\* The references to the edges of a curve: the curve alone, or the curve and
\* the two points its edge is between.
LEMMA ReferenceIs ==
    ASSUME BodySound, NEW e \in DOMAIN edges, NEW r \in Reference(e)
    PROVE  \E c \in curves :
              /\ r = [stage |-> after, curve |-> c.address, ends |-> r.ends]
              /\ edges[e].class = "referenceable"
              /\ edges[e].candidates = {c.address} /\ e \in c.edges
              /\ (r.ends = {}) = (Cardinality(c.edges) = 1)
              /\ r.ends = {} \/ \E x, y \in r.ends : x # y /\ r.ends = {x, y}
<1> DEFINE found == {d \in curves : edges[e].candidates = {d.address} /\ e \in d.edges}
           c == CHOOSE d \in found : TRUE
           certified == {p.address : p \in Certified(Incident(e))}
           ref == [stage |-> after, curve |-> c.address,
                   ends |-> IF Cardinality(c.edges) = 1 THEN {} ELSE certified]
<1>1. /\ edges[e].class = "referenceable" /\ found # {}
      /\ Cardinality(c.edges) # 1 => Cardinality(certified) = 2
      /\ r = ref
  BY DEF Reference
<1>2. c \in found
  BY <1>1
<1> HIDE DEF c
<1>3. c \in curves /\ edges[e].candidates = {c.address} /\ e \in c.edges
  BY <1>2
<1>6. IsFiniteSet(certified)
  BY CertifiedFinite
<1> HIDE DEF found, certified
<1>4. Cardinality(c.edges) # 1 => \E x, y \in certified : x # y /\ certified = {x, y}
  BY <1>1, <1>6, TwoOf
<1>5. /\ r = [stage |-> after, curve |-> c.address, ends |-> r.ends]
      /\ r.ends = IF Cardinality(c.edges) = 1 THEN {} ELSE certified
  BY <1>1
<1> QED
  BY <1>1, <1>3, <1>4, <1>5

\* An edge whose record names one curve, and no other, has one name.
LEMMA OneHolder ==
    ASSUME BodySound, NEW e \in DOMAIN edges, edges[e].class = "referenceable", NEW c \in curves,
           edges[e].candidates = {c.address}
    PROVE  HoldersIn(curves, e) = {c}
<1>1. HoldersIn(curves, e) # {} /\ {c.address} = Addresses(HoldersIn(curves, e))
  BY DEF BodySound, EdgeRecorded
<1>2. \A d \in HoldersIn(curves, e) : d \in curves /\ d.address = c.address
  BY <1>1 DEF Addresses, HoldersIn, Active
<1>3. Unique(curves)
  BY DEF BodySound, CurvesSound
<1> QED
  BY <1>1, <1>2, <1>3 DEF Unique

LEMMA NamesSingle == BodySound => NamesAreSingle
<1> SUFFICES ASSUME BodySound, NEW e \in DOMAIN edges,
                    edges[e].status = "resolved" \/ Reference(e) # {}
             PROVE  Cardinality(Holders(e)) = 1
  BY DEF NamesAreSingle
<1>1. Holders(e) = HoldersIn(curves, e)
  BY DEF Holders, HoldersIn
<1>2. CASE edges[e].status = "resolved"
  <2>1. EdgeRecorded(curves, e, edges[e]) /\ Unique(curves) /\ IsFiniteSet(curves)
    BY DEF BodySound, CurvesSound
  <2> DEFINE holders == HoldersIn(curves, e)
             names == Addresses(holders)
  <2>2. holders # {} /\ Cardinality(names) <= 1
    BY <1>2, <2>1 DEF EdgeRecorded
  <2>3. IsFiniteSet(holders)
    BY <2>1, FS_Subset DEF HoldersIn, Active
  <2>4. IsFiniteSet(names)
    <3> DEFINE f == [c \in holders |-> c.address]
    <3>1. names = {f[c] : c \in holders} /\ holders \subseteq DOMAIN f
      BY DEF Addresses
    <3> HIDE DEF f, names, holders
    <3> QED
      BY <2>3, <3>1, ImageIsFinite
  <2> HIDE DEF names
  <2>5. ASSUME NEW c \in holders, NEW d \in holders PROVE c = d
    <3>1. c.address \in names /\ d.address \in names
      BY DEF names, Addresses
    <3>2. c.address = d.address
      <4> SUFFICES ASSUME c.address # d.address PROVE FALSE
        OBVIOUS
      <4>1. Cardinality({c.address, d.address}) = 2
        BY PairHasTwo
      <4>2. {c.address, d.address} \subseteq names
        BY <3>1
      <4>3. /\ Cardinality({c.address, d.address}) <= Cardinality(names)
            /\ Cardinality(names) \in Nat
        BY <2>4, <4>2, FS_Subset, FS_CardinalityType
      <4> QED
        BY <2>2, <4>1, <4>3
    <3> QED
      BY <2>1, <3>2 DEF Unique, HoldersIn, Active
  <2>6. PICK c : holders = {c}
    BY <2>2, <2>5
  <2> QED
    BY <1>1, <2>6, FS_Singleton
<1>3. CASE Reference(e) # {}
  <2>1. PICK r : r \in Reference(e)
    BY <1>3
  <2>2. PICK c \in curves : edges[e].class = "referenceable" /\ edges[e].candidates = {c.address}
    BY <2>1, ReferenceIs
  <2>3. HoldersIn(curves, e) = {c}
    BY <2>2, OneHolder
  <2> QED
    BY <1>1, <2>3, FS_Singleton
<1> QED
  BY <1>2, <1>3

RefShaped(ref) ==
    /\ ref = [stage |-> ref.stage, curve |-> ref.curve, ends |-> ref.ends]
    /\ ref.ends = {} \/ \E x, y \in ref.ends : x # y /\ ref.ends = {x, y}

\* What a reference that resolves resolves to: the curve it names is the one
\* its edge is of, and there is one.
LEMMA ResolvedCurve ==
    ASSUME BodySound, NEW ref, Resolves(ref)
    PROVE  /\ ref.stage = after
           /\ \E c \in curves :
                 /\ c.address = ref.curve /\ CurveAt(ref.curve) = {c} /\ c.status # "missing"
                 /\ Resolution(ref) = IF ref.ends = {} THEN Singular(c)
                                      ELSE BetweenPoints(c, UNION {PointOf(x) : x \in ref.ends})
<1> DEFINE found == CurveAt(ref.curve)
           c == CHOOSE x \in found : TRUE
<1>1. /\ ref.stage = after /\ found # {} /\ c.status # "missing"
      /\ Resolution(ref) = IF ref.ends = {} THEN Singular(c)
                           ELSE BetweenPoints(c, UNION {PointOf(x) : x \in ref.ends})
  BY DEF Resolution, Resolves, Answered
<1>2. c \in found
  BY <1>1
<1> HIDE DEF c
<1>3. c \in curves /\ c.address = ref.curve
  BY <1>2 DEF CurveAt
<1>4. found = {c}
  <2>1. Unique(curves)
    BY DEF BodySound, CurvesSound
  <2> QED
    BY <1>2, <2>1 DEF CurveAt, Unique
<1> QED
  BY <1>1, <1>3, <1>4

LEMMA SingularIs ==
    ASSUME BodySound, NEW c \in curves
    PROVE  /\ Singular(c).status = "resolved" =>
                 \E e \in DOMAIN edges :
                    /\ c.edges = {e} /\ c.status # "ambiguous"
                    /\ edges[e].class = "referenceable" /\ edges[e].candidates = {c.address}
           /\ \A e \in DOMAIN edges :
                 /\ c.edges = {e} /\ c.status # "ambiguous"
                 /\ edges[e].class = "referenceable" /\ edges[e].candidates = {c.address}
                 => Singular(c) = Answered("resolved", {e})
<1> DEFINE chosen == CHOOSE x \in c.edges : TRUE
<1>1. IsFiniteSet(c.edges) /\ c.edges \subseteq DOMAIN edges
  BY FS_Subset DEF BodySound, CurvesSound, CurveSound
<1>2. ASSUME Singular(c).status = "resolved"
      PROVE  \E e \in DOMAIN edges :
                    /\ c.edges = {e} /\ c.status # "ambiguous"
                    /\ edges[e].class = "referenceable" /\ edges[e].candidates = {c.address}
  <2>1. c.edges # {} /\ ~(Cardinality(c.edges) > 1) /\ c.status # "ambiguous"
    BY <1>2 DEF Singular, Answered
  <2>2. edges[chosen].class = "referenceable" /\ edges[chosen].candidates = {c.address}
    BY <1>2, <2>1 DEF Singular, Answered
  <2>3. chosen \in c.edges
    BY <2>1
  <2> HIDE DEF chosen
  <2>4. c.edges = {chosen}
    <3>1. PICK x : x = chosen
      OBVIOUS
    <3>2. ASSUME NEW y \in c.edges, y # chosen PROVE FALSE
      <4>1. Cardinality({chosen, y}) = 2 /\ {chosen, y} \subseteq c.edges
        BY <2>3, <3>2, PairHasTwo
      <4>2. Cardinality({chosen, y}) <= Cardinality(c.edges) /\ Cardinality(c.edges) \in Nat
        BY <1>1, <4>1, FS_Subset, FS_CardinalityType
      <4> QED
        BY <2>1, <4>1, <4>2
    <3> QED
      BY <2>3, <3>2
  <2> QED
    BY <1>1, <2>1, <2>2, <2>3, <2>4
<1>3. ASSUME NEW e \in DOMAIN edges, c.edges = {e}, c.status # "ambiguous",
             edges[e].class = "referenceable", edges[e].candidates = {c.address}
      PROVE  Singular(c) = Answered("resolved", {e})
  <2>1. chosen = e /\ c.edges # {} /\ ~(Cardinality(c.edges) > 1)
    <3>1. Cardinality(c.edges) = 1
      BY <1>3, FS_Singleton
    <3>2. chosen = e
      BY <1>3
    <3> QED
      BY <1>3, <3>1, <3>2
  <2> HIDE DEF chosen
  <2>2. Singular(c) = IF edges[chosen].class # "referenceable" THEN Answered("unsupported", {})
                      ELSE Answered(IF edges[chosen].candidates = {c.address} THEN "resolved"
                                    ELSE "ambiguous", c.edges)
    BY <1>3, <2>1 DEF Singular, chosen
  <2> QED
    BY <1>3, <2>1, <2>2
<1> QED
  BY <1>2, <1>3

EndsMet(c, E, x, y, p, q, e) ==
    /\ p.address = x /\ q.address = y
    /\ p.status = "resolved" /\ q.status = "resolved"
    /\ e \in c.edges
    /\ p.vertices \cap Incident(e) # {} /\ q.vertices \cap Incident(e) # {}
    /\ edges[e].class = "referenceable" /\ edges[e].candidates = {c.address}
    /\ BetweenPoints(c, E) = Answered("resolved", {e})

\* What it takes for two points to tell which edge of a curve is meant.
LEMMA BetweenIs ==
    ASSUME BodySound, NEW c \in curves, NEW x, NEW y, x # y, NEW E,
           E = PointOf(x) \cup PointOf(y),
           BetweenPoints(c, E).status = "resolved"
    PROVE  \E p, q \in points, e \in DOMAIN edges : EndsMet(c, E, x, y, p, q, e)
<1> DEFINE found == {e \in c.edges : \A p \in E : p.vertices \cap Incident(e) # {}}
           pure == \A e \in found : edges[e].candidates = {c.address}
<1>1. /\ ~(Cardinality(E) < 2) /\ \A p \in E : p.status # "missing"
      /\ ~(Cardinality(E) = 2 /\ (\E p \in E : p.status = "ambiguous"))
      /\ \A e \in found : edges[e].class = "referenceable"
      /\ Strict(found) = "resolved" /\ pure
      /\ BetweenPoints(c, E) = Answered("resolved", found)
  BY DEF BetweenPoints, Answered
<1>2. IsFiniteSet(c.edges) /\ c.edges \subseteq DOMAIN edges
  BY FS_Subset DEF BodySound, CurvesSound, CurveSound
<1>3. IsFiniteSet(found)
  BY <1>2, FS_Subset
<1>4. PICK e : found = {e}
  <2>1. Cardinality(found) = 1
    BY <1>1, <1>3, StrictIs
  <2> HIDE DEF found
  <2> QED
    BY <1>3, <2>1, FS_Singleton
<1>5. /\ e \in c.edges /\ e \in DOMAIN edges
      /\ \A p \in E : p.vertices \cap Incident(e) # {}
      /\ edges[e].class = "referenceable" /\ edges[e].candidates = {c.address}
      /\ BetweenPoints(c, E) = Answered("resolved", {e})
  BY <1>1, <1>2, <1>4
<1>6. Unique(points) /\ \A p \in points : p.status \in Statuses
  BY DEF BodySound, PointsSound, PointSound
<1>7. E \subseteq points /\ \A p \in E : p.address \in {x, y}
  BY DEF PointOf
<1>8. \A p, q, r \in E : p # q => r = p \/ r = q
  BY <1>6, <1>7 DEF Unique
<1>9. PICK p, q \in E : p # q
  <2>1. IsFiniteSet(E)
    <3>1. CASE E = {}
      BY <3>1, FS_EmptySet
    <3>2. CASE E # {}
      <4>1. PICK p \in E : TRUE
        BY <3>2
      <4>2. CASE E = {p}
        BY <4>2, FS_Singleton
      <4>3. CASE E # {p}
        <5>1. PICK q \in E : q # p
          BY <4>1, <4>3
        <5>2. E = {p} \cup {q}
          BY <1>8, <4>1, <5>1
        <5>3. IsFiniteSet({p} \cup {q})
          BY FS_Singleton, UnionIsFinite
        <5> QED
          BY <5>2, <5>3
      <4> QED
        BY <4>2, <4>3
    <3> QED
      BY <3>1, <3>2
  <2> QED
    BY <1>1, <2>1, TwoIn
<1>10. E = {p, q} /\ Cardinality(E) = 2
  <2>1. E = {p, q}
    BY <1>8, <1>9
  <2>2. Cardinality({p, q}) = 2
    BY <1>9, PairHasTwo
  <2> QED
    BY <2>1, <2>2
<1>11. p.address # q.address /\ p.address \in {x, y} /\ q.address \in {x, y}
  BY <1>6, <1>7, <1>9 DEF Unique
<1>12. \A r \in E : r.status = "resolved"
  BY <1>1, <1>6, <1>7, <1>10 DEF Statuses
<1>13. \E r, s \in E : r.address = x /\ s.address = y
  BY <1>11
<1>14. PICK r, s \in E : r.address = x /\ s.address = y
  BY <1>13
<1>15. r \in points /\ s \in points /\ r.status = "resolved" /\ s.status = "resolved"
  BY <1>7, <1>12
<1> HIDE DEF found, pure
<1> QED
  BY <1>5, <1>14, <1>15 DEF EndsMet

\* Two points that are clear and whose vertices an edge reaches are those the
\* edge is between.
LEMMA CertifiedAre ==
    ASSUME BodySound, NEW e \in DOMAIN edges, NEW p \in points, NEW q \in points,
           p.address # q.address, p.status = "resolved", q.status = "resolved",
           p.vertices \cap Incident(e) # {}, q.vertices \cap Incident(e) # {}
    PROVE  /\ Cardinality(Incident(e)) = 2
           /\ {r.address : r \in Certified(Incident(e))} = {p.address, q.address}
<1>1. PICK v \in DOMAIN vertices : p.vertices = {v} /\ vertices[v].status = "resolved"
                                   /\ vertices[v].candidates = {p.address}
  BY DEF BodySound, PointsSound, PointSound
<1>2. PICK w \in DOMAIN vertices : q.vertices = {w} /\ vertices[w].status = "resolved"
                                   /\ vertices[w].candidates = {q.address}
  BY DEF BodySound, PointsSound, PointSound
<1>3. v # w
  BY <1>1, <1>2
<1>4. v \in Incident(e) /\ w \in Incident(e)
  BY <1>1, <1>2
<1>5. PICK v1, w1 : Incident(e) \subseteq {v1, w1}
  BY IncidentAre
<1>6. Incident(e) = {v, w}
  BY <1>3, <1>4, <1>5
<1>7. p \in PointAt(v) /\ q \in PointAt(w)
  BY <1>1, <1>2 DEF PointAt
<1>8. Unique(points)
  BY DEF BodySound, PointsSound
<1>9. PointAt(v) = {p} /\ PointAt(w) = {q}
  BY <1>7, <1>8, PointAtOne
<1>10. Certified(Incident(e)) = {p, q}
  BY <1>6, <1>9 DEF Certified
<1>11. {r.address : r \in Certified(Incident(e))} = {p.address, q.address}
  BY <1>10
<1>12. Cardinality({v, w}) = 2
  BY <1>3, PairHasTwo
<1> QED
  BY <1>6, <1>11, <1>12

PointsOf(e) == {p.address : p \in Certified(Incident(e))}

Refers(ref, c, e) ==
    /\ e \in c.edges
    /\ edges[e].class = "referenceable" /\ edges[e].candidates = {c.address}
    /\ ref = [stage |-> after, curve |-> c.address,
              ends |-> IF Cardinality(c.edges) = 1 THEN {} ELSE PointsOf(e)]
    /\ Cardinality(c.edges) # 1 => Cardinality(Incident(e)) = 2 /\ Cardinality(PointsOf(e)) = 2
    /\ Resolution(ref) = Answered("resolved", {e})

\* The reference to an edge, when it has one.
LEMMA ReferenceOf ==
    ASSUME BodySound, NEW e \in DOMAIN edges, NEW c \in curves, NEW ref, Refers(ref, c, e)
    PROVE  Reference(e) = {ref}
<1> DEFINE found == {d \in curves : edges[e].candidates = {d.address} /\ e \in d.edges}
           chosen == CHOOSE d \in found : TRUE
<1>1. Unique(curves)
  BY DEF BodySound, CurvesSound
<1>2. found = {c}
  BY <1>1 DEF Unique, Refers
<1>3. chosen = c
  BY <1>2
<1> DEFINE own == [stage |-> after, curve |-> chosen.address,
                   ends |-> IF Cardinality(chosen.edges) = 1 THEN {} ELSE PointsOf(e)]
<1>4. own = ref
  BY <1>3 DEF Refers
<1>5. ~(\/ edges[e].class # "referenceable"
        \/ found = {}
        \/ /\ Cardinality(chosen.edges) # 1
           /\ \/ Cardinality(Incident(e)) # 2
              \/ Cardinality(PointsOf(e)) # 2
        \/ Resolution(own) # Answered("resolved", {e}))
  BY <1>2, <1>3, <1>4 DEF Refers
<1>6. Reference(e) = {own}
  BY <1>5 DEF Reference, PointsOf
<1> QED
  BY <1>4, <1>6

\* What the edge a reference resolves to has in common with the reference.
Returned(ref, e) ==
    /\ e \in DOMAIN edges /\ EdgeOf(ref) = e
    /\ ref.stage = after /\ edges[e].candidates = {ref.curve}
    /\ ref.ends # {} => ref.ends = PointsOf(e)
    /\ \E r \in Reference(e) : r = ref \/ (r.curve = ref.curve /\ r.ends = {})

LEMMA EdgeOfIs ==
    ASSUME NEW ref, NEW e \in DOMAIN edges, Resolution(ref) = Answered("resolved", {e})
    PROVE  EdgeOf(ref) = e
<1>1. Resolution(ref).edges = {e}
  BY DEF Answered
<1> QED
  BY <1>1 DEF EdgeOf

LEMMA ResolvedReturns ==
    ASSUME BodySound, NEW ref, RefShaped(ref), Resolves(ref)
    PROVE  \E e : Returned(ref, e)
<1>1. ref.stage = after
  BY ResolvedCurve
<1>2. PICK c \in curves :
         /\ c.address = ref.curve /\ CurveAt(ref.curve) = {c} /\ c.status # "missing"
         /\ Resolution(ref) = IF ref.ends = {} THEN Singular(c)
                              ELSE BetweenPoints(c, UNION {PointOf(x) : x \in ref.ends})
  BY ResolvedCurve
<1> DEFINE alone == [stage |-> after, curve |-> c.address, ends |-> {}]
<1>3. Resolution(alone) = Singular(c)
  <2>1. alone.stage = after /\ alone.curve = ref.curve /\ alone.ends = {}
    BY <1>2
  <2> HIDE DEF alone
  <2>2. CurveAt(alone.curve) = {c} /\ (CHOOSE x \in {c} : TRUE) = c
    BY <1>2, <2>1
  <2> QED
    BY <1>2, <2>1, <2>2 DEF Resolution
<1>4. CASE ref.ends = {}
  <2>1. Singular(c).status = "resolved" /\ Resolution(ref) = Singular(c)
    BY <1>2, <1>4 DEF Resolves
  <2>2. PICK e \in DOMAIN edges : c.edges = {e} /\ c.status # "ambiguous"
           /\ edges[e].class = "referenceable" /\ edges[e].candidates = {c.address}
    BY <2>1, SingularIs
  <2>3. Singular(c) = Answered("resolved", {e})
    BY <2>2, SingularIs
  <2>4. EdgeOf(ref) = e
    BY <2>1, <2>3, EdgeOfIs
  <2>5. ref = alone
    BY <1>1, <1>2, <1>4 DEF RefShaped
  <2>6. Cardinality(c.edges) = 1
    BY <2>2, FS_Singleton
  <2> HIDE DEF alone
  <2>7. Reference(e) = {alone}
    <3>1. Refers(alone, c, e)
      BY <1>3, <2>2, <2>3, <2>6 DEF alone, Refers
    <3> QED
      BY <3>1, ReferenceOf
  <2> QED
    BY <1>1, <1>2, <1>4, <2>2, <2>4, <2>5, <2>7 DEF Returned
<1>5. CASE ref.ends # {}
  <2>1. PICK x, y \in ref.ends : x # y /\ ref.ends = {x, y}
    BY <1>5 DEF RefShaped
  <2> DEFINE E == UNION {PointOf(z) : z \in {x, y}}
  <2>2. Resolution(ref) = BetweenPoints(c, E) /\ BetweenPoints(c, E).status = "resolved"
    BY <1>2, <1>5, <2>1 DEF Resolves
  <2> HIDE DEF E
  <2>3. PICK p, q \in points, e \in DOMAIN edges : EndsMet(c, E, x, y, p, q, e)
    <3>1. E = PointOf(x) \cup PointOf(y)
      BY DEF E
    <3> QED
      BY <2>1, <2>2, <3>1, BetweenIs
  <2>4. Resolution(ref) = Answered("resolved", {e})
    BY <2>2, <2>3 DEF EndsMet
  <2>5. EdgeOf(ref) = e
    BY <2>4, EdgeOfIs
  <2>6. Cardinality(Incident(e)) = 2 /\ PointsOf(e) = {x, y}
    BY <2>1, <2>3, CertifiedAre DEF PointsOf, EndsMet
  <2>7. Cardinality(PointsOf(e)) = 2
    BY <2>1, <2>6, PairHasTwo
  <2>9. CASE Cardinality(c.edges) = 1
    <3>1. c.edges = {e}
      <4>1. IsFiniteSet(c.edges)
        BY FS_Subset DEF BodySound, CurvesSound, CurveSound
      <4>2. PICK z : c.edges = {z}
        BY <2>9, <4>1, FS_Singleton
      <4> QED
        BY <2>3, <4>2 DEF EndsMet
    <3>2. c.status # "ambiguous"
      <4> SUFFICES ASSUME c.status = "ambiguous" PROVE FALSE
        OBVIOUS
      <4>1. SharesEdge(curves, c)
        BY <2>9 DEF BodySound, CurvesSound, CurveSound
      <4>2. PICK d \in Active(curves) : d # c /\ c.edges \cap d.edges # {}
        BY <4>1 DEF SharesEdge
      <4>3. d \in HoldersIn(curves, e)
        BY <3>1, <4>2 DEF HoldersIn
      <4>4. HoldersIn(curves, e) = {c}
        BY <2>3, OneHolder DEF EndsMet
      <4> QED
        BY <4>2, <4>3, <4>4
    <3>3. Resolution(alone) = Answered("resolved", {e})
      BY <1>3, <2>3, <3>1, <3>2, SingularIs DEF EndsMet
    <3>4. alone.curve = ref.curve /\ alone.ends = {}
      BY <1>2
    <3>5. Refers(alone, c, e)
      BY <2>3, <2>9, <3>3 DEF Refers, EndsMet
    <3> HIDE DEF alone
    <3>6. Reference(e) = {alone}
      BY <3>5, ReferenceOf
    <3> QED
      BY <1>1, <1>2, <2>1, <2>3, <2>5, <2>6, <3>4, <3>6 DEF Returned, EndsMet
  <2>10. CASE Cardinality(c.edges) # 1
    <3>1. ref = [stage |-> after, curve |-> c.address,
                 ends |-> IF Cardinality(c.edges) = 1 THEN {} ELSE PointsOf(e)]
      BY <1>1, <1>2, <2>1, <2>6, <2>10 DEF RefShaped
    <3>2. Refers(ref, c, e)
      BY <2>3, <2>4, <2>6, <2>7, <3>1 DEF Refers, EndsMet
    <3>3. Reference(e) = {ref}
      BY <3>2, ReferenceOf
    <3> QED
      BY <1>1, <1>2, <2>1, <2>3, <2>5, <2>6, <3>3 DEF Returned, EndsMet
  <2> QED
    BY <2>9, <2>10
<1> QED
  BY <1>4, <1>5

\* Two references of a feature that resolve mean two edges.
LEMMA ReferencesDiffer ==
    ASSUME BodySound, PlanSound PROVE ReferencesReturn
<1> SUFFICES ASSUME NEW i \in DOMAIN plan, NEW j \in DOMAIN plan[i].refs,
                    Resolves(plan[i].refs[j])
             PROVE  /\ \E r \in Reference(EdgeOf(plan[i].refs[j])) :
                           \/ r = plan[i].refs[j]
                           \/ r.curve = plan[i].refs[j].curve /\ r.ends = {}
                    /\ \A k \in DOMAIN plan[i].refs \ {j} :
                          Resolves(plan[i].refs[k]) =>
                              EdgeOf(plan[i].refs[k]) # EdgeOf(plan[i].refs[j])
  BY DEF ReferencesReturn
<1> DEFINE refs == plan[i].refs
<1>1. RefsSound(refs)
  BY DEF PlanSound
<1> HIDE DEF refs
<1>2. \A k \in DOMAIN refs : RefShaped(refs[k])
  BY <1>1 DEF RefsSound, RefShaped
<1>3. PICK e : Returned(refs[j], e)
  BY <1>2, ResolvedReturns DEF refs
<1>4. ASSUME NEW k \in DOMAIN refs \ {j}, Resolves(refs[k]), EdgeOf(refs[k]) = EdgeOf(refs[j])
      PROVE  FALSE
  <2>1. PICK d : Returned(refs[k], d)
    BY <1>2, <1>4, ResolvedReturns
  <2>2. d = e
    BY <1>3, <1>4, <2>1 DEF Returned
  <2>3. refs[j].curve = refs[k].curve /\ refs[j].stage = refs[k].stage
    BY <1>3, <2>1, <2>2 DEF Returned
  <2>4. j \in DOMAIN refs
    BY DEF refs
  <2>5. refs[j] # refs[k] /\ (refs[j].ends = {}) = (refs[k].ends = {})
    BY <1>1, <1>4, <2>3, <2>4 DEF RefsSound
  <2>6. refs[j].ends = refs[k].ends
    BY <1>3, <2>1, <2>2, <2>5 DEF Returned
  <2>7. refs[j] = refs[k]
    BY <1>2, <1>4, <2>3, <2>4, <2>6 DEF RefShaped
  <2> QED
    BY <2>5, <2>7
<1>5. \E r \in Reference(EdgeOf(refs[j])) :
          r = refs[j] \/ (r.curve = refs[j].curve /\ r.ends = {})
  BY <1>3 DEF Returned
<1> QED
  BY <1>4, <1>5 DEF refs

-----------------------------------------------------------------------------
(* The invariant *)

LEMMA FreshSound == Fresh => BodySound
<1> SUFFICES ASSUME Fresh PROVE BodySound
  OBVIOUS
<1>1. /\ stage = 0 /\ after = 0 /\ solid.shape = NoShape /\ solid.tracked = <<>>
      /\ surfaces = {} /\ curves = {} /\ points = {} /\ edges = <<>> /\ vertices = <<>>
  BY DEF Fresh, NoSolid
<1>2. DOMAIN edges = {} /\ DOMAIN vertices = {} /\ DOMAIN solid.tracked = {}
  BY <1>1
<1>3. DOMAIN Shape.edges = {} /\ DOMAIN Shape.vertices = {}
  BY <1>1, TopologyAssumption DEF Shape
<1>4. IsFiniteSet({})
  BY FS_EmptySet
<1>5. CurvesSound(curves, DOMAIN edges) /\ PointsSound(points, vertices)
      /\ TrackedSound(surfaces, solid.tracked) /\ TwoEnds(Shape)
  BY <1>1, <1>2, <1>3, <1>4 DEF CurvesSound, PointsSound, TrackedSound, TwoEnds, Unique
<1> QED
  BY <1>1, <1>2, <1>3, <1>4, <1>5 DEF BodySound

LEMMA InitInv == Init => BodyInv
<1> SUFFICES ASSUME Init PROVE BodyInv
  OBVIOUS
<1>1. plan = <<>> /\ stage = 0
  BY DEF Init, Fresh
<1>2. DOMAIN plan = {} /\ Len(plan) = 0
  BY <1>1
<1>3. plan \in Seq({plan[i] : i \in DOMAIN plan})
  BY <1>1
<1>4. PlanSound
  BY <1>1, <1>2, <1>3, TopologyAssumption DEF PlanSound
<1> QED
  BY <1>4, FreshSound DEF Init, BodyInv

LEMMA RestartSound == ASSUME Restart PROVE BodySound' /\ stage' = 0
<1>1. Fresh'
  BY DEF Restart, Fresh, NoSolid
<1>2. (Fresh => BodySound)'
  BY FreshSound, PTL
<1> QED
  BY <1>1, <1>2 DEF Restart

LEMMA BodyUnchanged ==
    ASSUME BodySound, UNCHANGED <<stage, after, solid, meaning>>
    PROVE  BodySound'
BY DEF BodySound, meaning, Shape

LEMMA PlanUnchanged ==
    ASSUME PlanSound, UNCHANGED plan, stage' \in Nat, stage' <= Len(plan) PROVE PlanSound'
<1>1. Len(plan) \in Nat
  BY DEF PlanSound
<1> QED
  BY <1>1 DEF PlanSound

LEMMA AddFeatureInv == ASSUME BodyInv, AddFeature PROVE BodyInv'
<1>1. PICK op \in {"add", "cut"} : plan' = Append(plan, Feature(op, <<>>))
  BY DEF AddFeature
<1> DEFINE f == Feature(op, <<>>)
<1>2. FeatureSound(f)
  <2>1. DOMAIN f = {"op", "refs", "suppressed"} /\ f.refs = <<>>
    BY DEF Feature
  <2>2. RefsSound(<<>>)
    BY DEF RefsSound
  <2> QED
    BY <2>1, <2>2 DEF FeatureSound
<1> HIDE DEF f
<1>3. PlanSound'
  <2>1. plan' = Append(plan, f)
    BY <1>1 DEF f
  <2> QED
    BY <1>2, <2>1, PlanGrows DEF AddFeature, BodyInv, BodySound
<1>4. BodySound'
  BY BodyUnchanged DEF AddFeature, BodyInv
<1> QED
  BY <1>3, <1>4 DEF BodyInv

IsPair(S, r, q) == S = {r, q}

\* Sorting neither adds nor repeats a reference.
LEMMA SortedIs ==
    ASSUME NEW r, NEW q, NEW S, IsPair(S, r, q)
    PROVE  /\ \A j \in DOMAIN Sorted(S) : Sorted(S)[j] \in S
           /\ \A j, k \in DOMAIN Sorted(S) : j # k => Sorted(S)[j] # Sorted(S)[k]
<1> DEFINE n == Cardinality(S)
           s == Sorted(S)
<1> USE DEF IsPair
<1>1. IsFiniteSet(S) /\ n \in Nat
  <2>1. IsFiniteSet({r} \cup {q}) /\ {r} \cup {q} = S
    BY FS_Singleton, UnionIsFinite
  <2>2. IsFiniteSet(S)
    BY <2>1
  <2> QED
    BY <2>2, FS_CardinalityType
<1>2. \E t \in [1 .. n -> S] : {t[i] : i \in DOMAIN t} = S
  <2>1. CASE r = q
    <3>1. n = 1
      <4>1. S = {r}
        BY <2>1
      <4> QED
        BY <4>1, FS_Singleton
    <3> DEFINE t == [i \in 1 .. 1 |-> r]
    <3>2. t \in [1 .. n -> S] /\ {t[i] : i \in DOMAIN t} = S
      <4>1. DOMAIN t = {1} /\ t[1] = r
        OBVIOUS
      <4>2. {t[i] : i \in DOMAIN t} = {r} /\ {r} = S
        BY <2>1, <4>1
      <4>3. t \in [1 .. n -> S]
        BY <3>1
      <4> QED
        BY <4>2, <4>3
    <3> QED
      BY <3>2
  <2>2. CASE r # q
    <3>1. n = 2
      BY <2>2, PairHasTwo
    <3> DEFINE t == [i \in 1 .. 2 |-> IF i = 1 THEN r ELSE q]
    <3>2. t \in [1 .. n -> S] /\ {t[i] : i \in DOMAIN t} = S
      <4>1. DOMAIN t = {1, 2} /\ t[1] = r /\ t[2] = q
        OBVIOUS
      <4>2. {t[i] : i \in DOMAIN t} = S
        BY <4>1
      <4>3. t \in [1 .. n -> S]
        BY <3>1
      <4> QED
        BY <4>2, <4>3
    <3> QED
      BY <3>2
  <2> QED
    BY <2>1, <2>2
<1>3. s \in [1 .. n -> S] /\ {s[i] : i \in DOMAIN s} = S
  BY <1>2 DEF Sorted
<1> HIDE DEF s, n
<1>4. \A j \in DOMAIN s : s[j] \in S
  BY <1>3
<1>5. \A j, k \in DOMAIN s : j # k => s[j] # s[k]
  <2> SUFFICES ASSUME NEW j \in DOMAIN s, NEW k \in DOMAIN s, j # k, s[j] = s[k] PROVE FALSE
    OBVIOUS
  <2>1. n \in {1, 2}
    <3>1. r = q => S = {r}
      OBVIOUS
    <3>2. r = q => n = 1
      BY <3>1, FS_Singleton DEF n
    <3>3. r # q => n = 2
      BY PairHasTwo DEF n
    <3> QED
      BY <3>2, <3>3
  <2>2. j \in 1 .. n /\ k \in 1 .. n
    BY <1>3
  <2>3. n = 2 /\ DOMAIN s = {j, k}
    BY <1>3, <2>1, <2>2
  <2>4. S = {s[j]}
    BY <1>3, <2>3
  <2>5. n = 1
    BY <2>4, FS_Singleton DEF n
  <2> QED
    BY <2>3, <2>5
<1> QED
  BY <1>4, <1>5 DEF s

LEMMA AddEdgeFeatureInv == ASSUME BodyInv, AddEdgeFeature PROVE BodyInv'
<1>1. PICK d \in DOMAIN edges, e \in DOMAIN edges : \E r \in Reference(d), q \in Reference(e) :
         plan' = Append(plan, Feature("edges", Sorted({r, q})))
  BY DEF AddEdgeFeature
<1>2. PICK r \in Reference(d), q \in Reference(e) :
         plan' = Append(plan, Feature("edges", Sorted({r, q})))
  BY <1>1
<1> DEFINE S == {r, q}
           s == Sorted(S)
           f == Feature("edges", s)
<1>3. BodySound
  BY DEF BodyInv
<1>4. PICK c \in curves : r = [stage |-> after, curve |-> c.address, ends |-> r.ends]
         /\ (r.ends = {}) = (Cardinality(c.edges) = 1)
         /\ (r.ends = {} \/ \E x, y \in r.ends : x # y /\ r.ends = {x, y})
  BY <1>3, ReferenceIs
<1>5. PICK b \in curves : q = [stage |-> after, curve |-> b.address, ends |-> q.ends]
         /\ (q.ends = {}) = (Cardinality(b.edges) = 1)
         /\ (q.ends = {} \/ \E x, y \in q.ends : x # y /\ q.ends = {x, y})
  BY <1>3, ReferenceIs
<1>6. r.curve = c.address /\ q.curve = b.address
  BY <1>4, <1>5
<1>7. r.curve = q.curve => (r.ends = {}) = (q.ends = {})
  <2>1. Unique(curves)
    BY <1>3 DEF BodySound, CurvesSound
  <2> QED
    BY <1>4, <1>5, <1>6, <2>1 DEF Unique
<1>8. RefShaped(r) /\ RefShaped(q)
  <2>1. r.stage = after /\ q.stage = after
    BY <1>4, <1>5
  <2> QED
    BY <1>4, <1>5, <1>6, <2>1 DEF RefShaped
<1>9. /\ \A j \in DOMAIN s : s[j] \in {r, q}
      /\ \A j, k \in DOMAIN s : j # k => s[j] # s[k]
  <2>1. IsPair(S, r, q) /\ S = {r, q}
    BY DEF IsPair
  <2> HIDE DEF S
  <2> QED
    BY <2>1, SortedIs
<1> HIDE DEF s
<1>10. RefsSound(s)
  BY <1>7, <1>8, <1>9 DEF RefsSound, RefShaped
<1>11. FeatureSound(f)
  <2>1. DOMAIN f = {"op", "refs", "suppressed"} /\ f.refs = s
    BY DEF Feature
  <2> QED
    BY <1>10, <2>1 DEF FeatureSound
<1>12. plan' = Append(plan, f)
  BY <1>2 DEF s
<1> HIDE DEF f
<1>13. PlanSound'
  BY <1>11, <1>12, PlanGrows DEF AddEdgeFeature, BodyInv, BodySound
<1>14. BodySound'
  BY BodyUnchanged DEF AddEdgeFeature, BodyInv
<1> QED
  BY <1>13, <1>14 DEF BodyInv

\* Only what OCCT has built well is ever published.
LEMMA OkIsGood ==
    ASSUME NEW f, NEW a, Outcome(f, a).status = "ok" PROVE a.built = "good"
<1> DEFINE op == IF solid.shape = NoShape THEN "base" ELSE f.op
           selected == Selected(f.refs)
           result == ResultOf(op, a, selected, SurfaceLineage(op, a))
<1> HIDE DEF op, selected, result
<1>1. Outcome(f, a) = SurfacesAdded(f, a, op, result, selected)
  BY DEF Outcome, op, result, selected
<1>2. SurfacesAdded(f, a, op, result, selected).status = result.status
  BY DEF SurfacesAdded, AddedTo, MeaningsOf, Meanings
<1> DEFINE exact == TransitionsOf(a, TrackedAfter(a, SurfaceLineage(op, a)), selected).exact
<1>3. result.status = CASE op = "edges" /\ a.contour # selected -> "provider_mismatch"
                        [] op = "edges" /\ a.contour = selected
                             /\ KernelStatus(op, a.built) = "ok" /\ ~exact -> "provider_failure"
                        [] OTHER -> KernelStatus(op, a.built)
  BY TableIs DEF result, ResultOf, KernelResult
<1> HIDE DEF exact
<1>4. KernelStatus(op, a.built) = "ok"
  BY <1>1, <1>2, <1>3
<1> QED
  BY <1>4 DEF KernelStatus

LEMMA EditInv == ASSUME BodyInv, Edit PROVE BodyInv'
<1>1. BodySound' /\ stage' = 0
  BY RestartSound DEF Edit
<1>2. Len(plan) \in Nat
  BY DEF BodyInv, PlanSound
<1>3. PlanSound'
  BY <1>1, <1>2, PlanUnchanged DEF Edit, BodyInv
<1> QED
  BY <1>1, <1>3 DEF BodyInv

LEMMA SuppressInv == ASSUME BodyInv, Suppress PROVE BodyInv'
<1>1. BodySound' /\ stage' = 0
  BY RestartSound DEF Suppress
<1>2. PICK i \in DOMAIN plan : plan' = [plan EXCEPT ![i].suppressed = ~@]
  BY DEF Suppress
<1>3. PlanSound'
  BY <1>1, <1>2, PlanToggles DEF BodyInv
<1> QED
  BY <1>1, <1>3 DEF BodyInv

LEMMA NextStage ==
    ASSUME BodyInv, Running, stage' = stage + 1, UNCHANGED plan PROVE PlanSound'
<1>1. Len(plan) \in Nat /\ stage \in Nat /\ stage < Len(plan)
  BY DEF BodyInv, PlanSound, BodySound, Running
<1>2. stage' \in Nat /\ stage' <= Len(plan)
  BY <1>1
<1> QED
  BY <1>2, PlanUnchanged DEF BodyInv

LEMMA SkipInv == ASSUME BodyInv, Skip PROVE BodyInv'
<1>1. PlanSound'
  BY NextStage DEF Skip
<1>2. stage' \in Nat /\ after' \in Nat /\ after' <= stage'
  BY DEF Skip, BodyInv, BodySound
<1>3. BodySound'
  BY <1>2 DEF Skip, BodyInv, BodySound, meaning, Shape
<1> QED
  BY <1>1, <1>3 DEF BodyInv

LEMMA StopInv == ASSUME BodyInv, NEW reason, Stop(reason) PROVE BodyInv'
<1>1. BodySound'
  BY BodyUnchanged DEF Stop, BodyInv
<1>2. PlanSound'
  <2>1. Len(plan) \in Nat /\ stage \in Nat /\ stage <= Len(plan)
    BY DEF BodyInv, PlanSound, BodySound
  <2> QED
    BY <2>1, PlanUnchanged DEF Stop, BodyInv
<1> QED
  BY <1>1, <1>2 DEF BodyInv

LEMMA BlockInv == ASSUME BodyInv, Block PROVE BodyInv'
<1>1. \E reason : Stop(reason)
  BY DEF Block
<1> QED
  BY <1>1, StopInv

\* What is built is published by PublishedIs, or stops the evaluation.
LEMMA BuildIs ==
    ASSUME BodyInv, Build
    PROVE  \/ \E reason : Stop(reason)
           \/ /\ Running /\ stage' = stage + 1 /\ UNCHANGED plan
              /\ \E a, f : WellFormed(a) /\ Publish(a, Outcome(f, a))
<1>1. PICK a \in Built(Current) : Finish(a, Outcome(Current, a))
  BY DEF Build
<1> DEFINE o == Outcome(Current, a)
<1> HIDE DEF o
<1>2. KernelFails(o) \/ Refuse(a, o) \/ Publish(a, o)
  BY <1>1 DEF Finish, o
<1>3. CASE KernelFails(o) \/ Refuse(a, o)
  BY <1>3 DEF KernelFails, Refuse
<1>4. CASE Publish(a, o)
  <2>1. o.status = "ok" /\ stage' = stage + 1 /\ UNCHANGED plan
    BY <1>4 DEF Publish
  <2>2. a.built = "good"
    BY <2>1, OkIsGood DEF o
  <2>3. WellFormed(a)
    BY <1>1, <2>2 DEF Built
  <2>4. Publish(a, Outcome(Current, a))
    BY <1>4 DEF o
  <2> QED
    BY <2>1, <2>3, <2>4 DEF Build
<1> QED
  BY <1>2, <1>3, <1>4

LEMMA BuildInv == ASSUME BodyInv, Build PROVE BodyInv'
<1>1. CASE \E reason : Stop(reason)
  BY <1>1, StopInv
<1>2. CASE /\ Running /\ stage' = stage + 1 /\ UNCHANGED plan
           /\ \E a, f : WellFormed(a) /\ Publish(a, Outcome(f, a))
  <2>1. BodySound'
    BY <1>2, PublishedIs DEF BodyInv
  <2>2. PlanSound'
    BY <1>2, NextStage
  <2> QED
    BY <2>1, <2>2 DEF BodyInv
<1> QED
  BY <1>1, <1>2, BuildIs

LEMMA NextInv == ASSUME BodyInv, [Next]_vars PROVE BodyInv'
<1>1. CASE UNCHANGED vars
  <2>1. BodySound'
    BY <1>1, BodyUnchanged DEF BodyInv, vars
  <2>2. PlanSound'
    BY <1>1 DEF BodyInv, PlanSound, vars
  <2> QED
    BY <2>1, <2>2 DEF BodyInv
<1> QED
  BY <1>1, AddFeatureInv, AddEdgeFeatureInv, EditInv, SuppressInv, SkipInv, BlockInv, BuildInv
  DEF Next

LEMMA BodyInvAlways == Spec => []BodyInv
<1>1. BodyInv /\ [Next]_vars => BodyInv'
  BY NextInv
<1> QED
  BY <1>1, InitInv, PTL DEF Spec

-----------------------------------------------------------------------------
(* The theorems *)

\* Whatever OCCT builds and whatever history it leaves out, after any edits:
\* an edge that is called by a name has one name, a reference that resolves is
\* the one its edge would be given now, and two references of one feature mean
\* two edges (resolveMaterialEdgeReference, authorMaterialEdgeReference).  That
\* the name is the right one, NamesAreTrue, depends on what OCCT leaves out.
THEOREM NamesAndReferencesAreSingle ==
    Spec => [](TypeOK /\ NamesAreSingle /\ ReferencesReturn)
<1>1. BodyInv => TypeOK
  <2> SUFFICES ASSUME BodyInv PROVE TypeOK
    OBVIOUS
  <2>1. /\ \A c \in curves : c.edges \subseteq DOMAIN edges
        /\ \A p \in points : p.vertices \subseteq DOMAIN vertices
    BY DEF BodyInv, BodySound, CurvesSound, CurveSound, PointsSound, PointSound
  <2>2. \A s \in surfaces : (s.status = "resolved") = (s.token \in DOMAIN solid.tracked)
    BY DEF BodyInv, BodySound, TrackedSound
  <2> QED
    BY <2>1, <2>2 DEF BodyInv, BodySound, PlanSound, TypeOK
<1>2. BodyInv => NamesAreSingle
  BY NamesSingle DEF BodyInv
<1>3. BodyInv => ReferencesReturn
  BY ReferencesDiffer DEF BodyInv
<1> QED
  BY <1>1, <1>2, <1>3, BodyInvAlways, PTL

\* A surface, curve or point that is missing stays missing while the features
\* are evaluated, whatever shape a later stage has, and none is forgotten
\* (propagateCurrentSurfaces, buildCurveStage, buildPointStage).
THEOREM LostStaysLost == Spec => LostIsLost
<1>1. ASSUME BodyInv, [Next]_vars, stage' > stage
      PROVE  Keeps(surfaces, surfaces') /\ Keeps(curves, curves') /\ Keeps(points, points')
  <2>1. stage \in Nat /\ ~(stage > stage) /\ ~(0 > stage)
    <3>1. stage \in Nat
      BY <1>1 DEF BodyInv, BodySound
    <3> QED
      BY <3>1
  <2>2. stage' # stage /\ stage' # 0
    BY <1>1, <2>1
  <2>3. Skip \/ Build
    BY <1>1, <2>2 DEF Next, vars, AddFeature, AddEdgeFeature, Edit, Suppress, Restart,
       Block, Stop
  <2>4. CASE Skip
    BY <2>4 DEF Skip, meaning, Keeps
  <2>5. CASE Build
    <3>1. ~\E reason : Stop(reason)
      BY <2>2 DEF Stop
    <3>2. PICK a, f : WellFormed(a) /\ Publish(a, Outcome(f, a))
      BY <1>1, <2>5, <3>1, BuildIs
    <3> QED
      BY <1>1, <3>2, PublishedIs DEF BodyInv
  <2> QED
    BY <2>3, <2>4, <2>5
<1>2. BodyInv /\ [Next]_vars =>
          [stage' > stage => /\ Keeps(surfaces, surfaces')
                             /\ Keeps(curves, curves')
                             /\ Keeps(points, points')]_vars
  BY <1>1
<1> QED
  BY <1>2, BodyInvAlways, PTL DEF Spec, LostIsLost
============================================================================
