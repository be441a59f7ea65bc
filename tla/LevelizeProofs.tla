--------------------------- MODULE LevelizeProofs ---------------------------
(***************************************************************************)
(* Proofs about Levelize: the types, the roots, the loops that are broken, *)
(* the loops of the disabled edges, and the order of the levels, where     *)
(* each root is left undriven when the loops that no root reaches are      *)
(* broken.                                                                 *)
(***************************************************************************)
EXTENDS Levelize, FiniteSetTheorems, FunctionTheorems, SequenceTheorems,
        WellFoundedInduction, TLAPS

-----------------------------------------------------------------------------
(* Finite sets of integers have a least and a greatest element, and so     *)
(* have the values of an integer function with a finite domain.            *)

HasMin(S) == \E x \in S : \A y \in S : x <= y

\* Every finite, non-empty set of integers has a least element: a smallest set
\* that had none would have none after losing an element either.
LEMMA FiniteHasMin ==
  ASSUME NEW S, IsFiniteSet(S), S \subseteq Int, S # {}
  PROVE  HasMin(S)
<1> DEFINE Bad == {A \in SUBSET S : A # {} /\ ~HasMin(A)}
           Sizes == {Cardinality(A) : A \in Bad}
<1>1. \A A \in SUBSET S : IsFiniteSet(A) /\ Cardinality(A) \in Nat
  BY FS_Subset, FS_CardinalityType
<1>2. SUFFICES ASSUME Bad # {} PROVE FALSE
  OBVIOUS
<1>3. PICK n \in Sizes : \A m \in Sizes : n <= m
  <2> DEFINE R == {ss \in Nat \X Nat : ss[1] < ss[2]}
  <2>1. IsWellFoundedOn(R, Nat)
    BY NatLessThanWellFounded DEF OpToRel
  <2>2. Sizes \subseteq Nat /\ Sizes # {}
    BY <1>1, <1>2
  <2>3. \E n \in Sizes : \A m \in Sizes : <<m, n>> \notin R
    <3> HIDE DEF R, Sizes
    <3> QED
      BY <2>1, <2>2, WFMin
  <2>4. \A m, n \in Nat : <<m, n>> \notin R => n <= m
    OBVIOUS
  <2> QED
    <3> HIDE DEF R, Sizes
    <3> QED
      BY <2>2, <2>3, <2>4
<1>4. PICK A \in Bad : \A B \in Bad : Cardinality(A) <= Cardinality(B)
  BY <1>3
<1>5. PICK x \in A : TRUE
  OBVIOUS
<1>6. CASE A = {x}
  BY <1>6, <1>5 DEF HasMin
<1>7. CASE A # {x}
  <2> DEFINE B == A \ {x}
  <2>1. B # {} /\ B \in SUBSET S
    BY <1>7, <1>5
  <2>2. Cardinality(B) = Cardinality(A) - 1
    BY <1>1, <1>5, FS_RemoveElement
  <2>3. B \notin Bad
    <3>1. Cardinality(A) \in Nat /\ Cardinality(B) \in Nat
      BY <1>1, <2>1
    <3> QED
      BY <3>1, <2>2, <1>4
  <2>4. PICK b \in B : \A y \in B : b <= y
    BY <2>1, <2>3 DEF HasMin
  <2>5. x \in Int /\ b \in Int /\ \A y \in A : y \in Int
    BY <1>5
  <2>6. CASE b <= x
    BY <2>4, <2>5, <2>6 DEF HasMin
  <2>7. CASE x < b
    BY <2>4, <2>5, <2>7, <1>5 DEF HasMin
  <2> QED
    BY <2>5, <2>6, <2>7
<1> QED
  BY <1>6, <1>7

\* Min of the community modules is that element.
LEMMA MinOfFinite ==
  ASSUME NEW S, IsFiniteSet(S), S \subseteq Int, S # {}
  PROVE  Min(S) \in S /\ \A y \in S : Min(S) <= y
BY FiniteHasMin DEF HasMin, Min

\* The values of an integer function with a finite domain are a finite set of
\* integers.
LEMMA FiniteRange ==
  ASSUME NEW S, IsFiniteSet(S), NEW f \in [S -> Int]
  PROVE  IsFiniteSet(Range(f)) /\ Range(f) \subseteq Int
<1>1. Range(f) \subseteq Int
  BY DEF Range
<1>2. f \in Surjection(S, Range(f))
  BY DEF Surjection, Range
<1> QED
  BY <1>1, <1>2, FS_Surjection

\* An integer function with a finite, non-empty domain takes its greatest value
\* somewhere.
LEMMA FiniteArgMax ==
  ASSUME NEW S, IsFiniteSet(S), S # {}, NEW f \in [S -> Int]
  PROVE  \E x \in S : \A y \in S : f[y] <= f[x]
<1> DEFINE g == [x \in S |-> -f[x]]
<1>1. g \in [S -> Int]
  OBVIOUS
<1>2. IsFiniteSet(Range(g)) /\ Range(g) \subseteq Int
  BY <1>1, FiniteRange
<1>3. Range(g) # {}
  BY DEF Range
<1>4. PICK m \in Range(g) : \A y \in Range(g) : m <= y
  BY <1>2, <1>3, FiniteHasMin DEF HasMin
<1>5. PICK x \in S : g[x] = m
  BY <1>4 DEF Range
<1>6. \A y \in S : g[x] <= g[y]
  BY <1>4, <1>5 DEF Range
<1> QED
  BY <1>6

\* Max of the community modules is the greatest element.
LEMMA MaxOfFinite ==
  ASSUME NEW S, IsFiniteSet(S), S \subseteq Int, S # {}
  PROVE  Max(S) \in S /\ \A y \in S : y <= Max(S)
<1>1. [x \in S |-> x] \in [S -> Int]
  OBVIOUS
<1>2. PICK m \in S : \A y \in S : [x \in S |-> x][y] <= [x \in S |-> x][m]
  BY <1>1, FiniteArgMax
<1>3. \A y \in S : y <= m
  BY <1>2
<1> QED
  BY <1>3 DEF Max

-----------------------------------------------------------------------------
(* The inductive invariant.                                                *)

Searching == pc \in {"back_edges", "cycles"}
FindingLevels == Searching \/ pc \in {"topo", "assign"}

\* Where the program is, and what is valid there.
Phases ==
  /\ ~Searching /\ pc # "relevelize" => stack = <<>>
  /\ levels_valid => levelized /\ pc = "idle" /\ relevelize_from = {}
  /\ pc = "relevelize" => levelized
  /\ queue # <<>> => pc = "topo"
  /\ order # <<>> => pc \in {"topo", "assign"}

\* A frame has left only edges from its vertex.
FrameEdges == \A i \in DOMAIN stack : stack[i].todo \subseteq OutEdges(stack[i].vertex)

\* The search of findBackEdges: the vertices on the stack, of which the first
\* of findCycleBackEdges is not marked, are those that are on the path, each
\* once.  The roots are at the bottom, and the path leads over enabled edges.
FirstMarked == IF pc = "cycles" THEN 2 ELSE 1
Marks ==
  Searching =>
    /\ on_path \subseteq visited
    /\ on_path = {stack[i].vertex : i \in FirstMarked..Len(stack)}
    /\ \A i, k \in FirstMarked..Len(stack) : stack[i].vertex = stack[k].vertex => i = k
PathFromRoot ==
  pc = "back_edges" =>
    /\ \A i \in 1..(Len(stack) - Len(path)) : \A e \in edges : e[2] # stack[i].vertex
    /\ \A n \in DOMAIN path : path[n] \in Enabled

\* What that search has finished with: a finished vertex leads only to finished
\* vertices, in an order that ranks them.
Finished == visited \ on_path
LeadsToFinished(v) == \A e \in Enabled : e[1] = v => e[2] \in Finished
Explored ==
  Searching =>
    \A i \in DOMAIN stack : \A e \in Enabled :
      e[1] = stack[i].vertex /\ e \notin stack[i].todo =>
        e[2] \in Finished \/ (i < Len(stack) /\ e[2] = stack[i + 1].vertex)
Ranks == [Vertices -> Nat]
Ranked ==
  Searching =>
    \E rank \in Ranks, m \in Nat :
      \A v \in Finished : /\ rank[v] < m /\ LeadsToFinished(v)
                          /\ \A e \in Enabled : e[1] = v => rank[e[2]] < rank[v]
Unvisited ==
  pc = "cycles" =>
    \A v \in Vertices \ visited : \/ v \in pending
                                  \/ stack # <<>> /\ v = stack[1].vertex
                                  \/ LeadsToFinished(v)

\* No cycle is left for the topological sort, and it starts from every vertex
\* that no enabled edge leads to.
Acyclic == \E rank \in Ranks : \A e \in Enabled : rank[e[2]] < rank[e[1]]
LoopsBroken == pc \in {"topo", "assign"} => Acyclic
RootsFound == FindingLevels => {v \in Vertices : IsRoot(v)} \subseteq roots

\* The roots after edits.
Undriven == {v \in Vertices : ~\E e \in edges : e[2] = v}
RootsKnown ==
  /\ pc = "idle" /\ levelized => Undriven \subseteq roots \cup relevelize_from
  /\ pc = "relevelize" => Undriven \subseteq roots \cup pending

LevelizeInv == /\ TypeOK /\ LevelsBounded /\ Phases /\ FrameEdges
               /\ Marks /\ PathFromRoot /\ Explored /\ Ranked /\ Unvisited
               /\ LoopsBroken /\ RootsFound /\ RootsKnown

-----------------------------------------------------------------------------
(* The loops of the disabled edges.                                        *)

\* From the end of the edge e the edges es lead to its start: what contains the
\* one and all that es leads to from there contains the other.
LeadsOn(S, es) == \A e \in es : e[1] \in S => e[2] \in S
InLoop(e, es) == \A S \in SUBSET Vertices : e[2] \in S /\ LeadsOn(S, es) => e[1] \in S

\* The path is one of edges that exist, and all of the stack is on it in the
\* searches that start from one vertex.  While the graph is levelized or being
\* levelized, the edges of loops exist and close those of the disabled edges.
PathOfEdges == \A i \in DOMAIN path : path[i] \in edges
WholePath == pc \in {"cycles", "relevelize"} /\ stack # <<>> => Len(stack) = Len(path) + 1
LoopsKept ==
  levelized \/ pc # "idle" =>
    /\ loop_edges \subseteq edges
    /\ \A e \in disabled_loop_edges : e \in loop_edges /\ InLoop(e, loop_edges)

LoopInv == PathOfEdges /\ WholePath /\ LoopsKept

-----------------------------------------------------------------------------
(* Where breaking the loops leaves no root driven, levels are in order.    *)

RootsUndriven == pc = "topo" => \A v \in roots : IsRoot(v)

\* The sort: degrees count the edges from what is not sorted, and the queue has
\* the rest of what no such edge leads to.
OneToOne(s) == \A i, k \in DOMAIN s : s[i] = s[k] => i = k
Unsorted == Vertices \ Range(order)
DrivenBy(v, S) == {e \in Enabled : e[2] = v /\ e[1] \in S}
Sorted ==
  pc = "topo" =>
    /\ OneToOne(order) /\ OneToOne(queue) /\ Range(order) \cap Range(queue) = {}
    /\ \A v \in Vertices : /\ in_degree[v] = Cardinality(DrivenBy(v, Unsorted))
                           /\ v \in Range(order) \cup Range(queue) <=> DrivenBy(v, Unsorted) = {}
    /\ \A k \in DOMAIN order : \A e \in Enabled :
         e[2] = order[k] => \E i \in 1..(k - 1) : order[i] = e[1]

\* The levels: what is no more in the order has one, below all it leads to, and
\* only that leads to it.
Leveled == Vertices \ Range(order)
LevelsRise ==
  pc = "assign" =>
    /\ OneToOne(order)
    /\ \A k \in DOMAIN order : \A e \in Enabled :
         e[2] = order[k] => e[1] \in Leveled \/ \E i \in 1..(k - 1) : order[i] = e[1]
    /\ \A v \in Vertices : IsRoot(v) \/ v \in Leveled => level[v] >= 0
    /\ \A e \in Enabled : /\ e[2] \in Leveled => e[1] \in Leveled
                          /\ e[1] \in Leveled => level[e[1]] < level[e[2]]

\* Edits and relevelize: an edge that does not go up in level is one that a
\* visit has still to look at.
VisitsOrder ==
  pc = "relevelize" =>
    /\ \A i, k \in DOMAIN stack : stack[i].vertex = stack[k].vertex => i = k
    /\ \A e \in Enabled : \/ level[e[1]] < level[e[2]]
                          \/ e[1] \in pending
                          \/ \E i \in DOMAIN stack : e \in stack[i].todo
EditsOrder ==
  pc = "idle" /\ levelized =>
    \A e \in Enabled : level[e[1]] < level[e[2]] \/ e[1] \in relevelize_from

OrderInv == Sorted /\ LevelsRise /\ VisitsOrder /\ EditsOrder

-----------------------------------------------------------------------------
(* Sets, sequences and the stack.                                          *)

LEMMA FiniteEdges ==
  /\ IsFiniteSet(Vertices) /\ IsFiniteSet(Edges)
  /\ \A S \in SUBSET Vertices : IsFiniteSet(S)
  /\ \A S \in SUBSET Edges : IsFiniteSet(S)
  /\ \A e \in Edges : e[1] \in Vertices /\ e[2] \in Vertices /\ e = <<e[1], e[2]>>
<1>1. IsFiniteSet(Vertices) /\ Edges \subseteq Vertices \X Vertices
  BY LevelizeAssumption
<1>2. IsFiniteSet(Vertices \X Vertices)
  BY <1>1, FS_Product
<1>3. IsFiniteSet(Edges)
  BY <1>1, <1>2, FS_Subset
<1> QED
  BY <1>1, <1>3, FS_Subset

\* A sequence of the elements of a finite set has each of them once.
LEMMA SeqOfSet ==
  ASSUME NEW S, IsFiniteSet(S), NEW s \in SetToSeqs(S)
  PROVE  /\ s \in Seq(S) /\ Range(s) = S
         /\ \A i, k \in DOMAIN s : s[i] = s[k] => i = k
<1>1. Cardinality(S) \in Nat
  BY FS_CardinalityType
<1>2. s \in [1..Cardinality(S) -> S] /\ \A i, k \in 1..Cardinality(S) : i # k => s[i] # s[k]
  BY DEF SetToSeqs
<1>3. s \in Seq(S)
  BY <1>1, <1>2
<1>4. s \in Injection(1..Cardinality(S), S)
  BY <1>2 DEF Injection, IsInjective
<1>5. IsFiniteSet(1..Cardinality(S)) /\ Cardinality(1..Cardinality(S)) = Cardinality(S)
  BY <1>1, FS_Interval
<1>6. s \in Surjection(1..Cardinality(S), S)
  BY <1>4, <1>5, FS_Injection
<1>7. Range(s) = S
  BY <1>2, <1>6 DEF Surjection, Range
<1> QED
  BY <1>2, <1>3, <1>7

FrameSet == [vertex : Vertices, todo : SUBSET Edges]

LEMMA StackTop ==
  ASSUME stack \in Seq(FrameSet), stack # <<>>
  PROVE  /\ Len(stack) \in Nat /\ Len(stack) >= 1 /\ DOMAIN stack = 1..Len(stack)
         /\ Len(stack) \in DOMAIN stack /\ Top = stack[Len(stack)]
         /\ Top \in FrameSet /\ Top.vertex \in Vertices /\ Top.todo \subseteq Edges
<1>1. Len(stack) \in Nat /\ Len(stack) # 0
  BY EmptySeq
<1>2. Top = stack[Len(stack)] /\ Len(stack) \in DOMAIN stack
  BY <1>1 DEF Top
<1>3. Top \in FrameSet
  BY <1>2
<1> QED
  BY <1>1, <1>2, <1>3 DEF FrameSet

LEMMA FrameOfVertex ==
  ASSUME TypeOK, NEW v \in Vertices
  PROVE  Frame(v) \in FrameSet /\ Frame(v).vertex = v /\ Frame(v).todo = OutEdges(v)
BY DEF TypeOK, Frame, FrameSet, OutEdges

\* The stack without an edge of its top.
LEMMA StackWithoutEdge ==
  ASSUME stack \in Seq(FrameSet), NEW e, NextEdge(e)
  PROVE  /\ WithoutEdge(e) \in Seq(FrameSet) /\ Len(WithoutEdge(e)) = Len(stack)
         /\ \A i \in DOMAIN stack : WithoutEdge(e)[i].vertex = stack[i].vertex
         /\ \A i \in DOMAIN stack : i # Len(stack) => WithoutEdge(e)[i] = stack[i]
         /\ WithoutEdge(e)[Len(stack)].todo = Top.todo \ {e}
<1>1. stack # <<>> /\ e \in Top.todo
  BY DEF NextEdge
<1>2. PICK n : n = Len(stack)
  OBVIOUS
<1>3. n \in DOMAIN stack /\ DOMAIN stack = 1..n /\ n \in Nat /\ stack[n] \in FrameSet /\ Top = stack[n]
  BY <1>1, <1>2, StackTop
<1>4. PICK f : f = [stack[n] EXCEPT !.todo = @ \ {e}]
  OBVIOUS
<1>5. f \in FrameSet /\ f.vertex = stack[n].vertex /\ f.todo = stack[n].todo \ {e}
  BY <1>3, <1>4 DEF FrameSet
<1>6. WithoutEdge(e) = [stack EXCEPT ![n] = f]
  BY <1>2, <1>4 DEF WithoutEdge
<1>7. /\ [stack EXCEPT ![n] = f] \in Seq(FrameSet) /\ Len([stack EXCEPT ![n] = f]) = n
      /\ \A i \in DOMAIN stack : [stack EXCEPT ![n] = f][i] = IF i = n THEN f ELSE stack[i]
  BY <1>2, <1>3, <1>5
<1> QED
  BY <1>2, <1>3, <1>5, <1>6, <1>7

LEMMA PushSeq ==
  ASSUME NEW S, NEW s \in Seq(S), NEW x \in S
  PROVE  /\ Append(s, x) \in Seq(S) /\ Len(Append(s, x)) = Len(s) + 1
         /\ DOMAIN Append(s, x) = 1..(Len(s) + 1)
         /\ \A i \in DOMAIN s : Append(s, x)[i] = s[i]
         /\ Append(s, x)[Len(s) + 1] = x
BY AppendProperties

LEMMA FrontSeq ==
  ASSUME NEW S, NEW s \in Seq(S), s # <<>>
  PROVE  /\ Front(s) \in Seq(S) /\ Len(Front(s)) = Len(s) - 1
         /\ DOMAIN Front(s) = 1..(Len(s) - 1)
         /\ \A i \in DOMAIN Front(s) : Front(s)[i] = s[i]
<1>1. Len(s) \in Nat /\ Len(s) # 0 /\ DOMAIN s = 1..Len(s)
  BY EmptySeq
<1>2. PICK n : n = Len(s) - 1
  OBVIOUS
<1>3. n \in Nat /\ n \in Int /\ 1 \in Int /\ \A i \in 1..n : i \in DOMAIN s /\ s[i] \in S
  BY <1>1, <1>2, ElementOfSeq
<1>4. /\ SubSeq(s, 1, n) \in Seq(S)
      /\ Len(SubSeq(s, 1, n)) = IF 1 <= n THEN n - 1 + 1 ELSE 0
      /\ \A i \in 1..(n - 1 + 1) : SubSeq(s, 1, n)[i] = s[1 + i - 1]
  BY <1>3, SubSeqProperties
<1>5. Front(s) = SubSeq(s, 1, n)
  BY <1>2 DEF Front
<1>6. Len(Front(s)) = n /\ \A i \in 1..n : Front(s)[i] = s[i]
  BY <1>3, <1>4, <1>5
<1> QED
  BY <1>2, <1>4, <1>5, <1>6, LenProperties

LEMMA TailSeq ==
  ASSUME NEW S, NEW s \in Seq(S), s # <<>>
  PROVE  /\ Tail(s) \in Seq(S) /\ Len(Tail(s)) = Len(s) - 1 /\ Len(s) \in Nat \ {0}
         /\ Head(s) = s[1] /\ Head(s) \in S
         /\ \A i \in DOMAIN Tail(s) : Tail(s)[i] = s[i + 1]
<1>1. Len(s) \in Nat /\ Len(s) # 0
  BY EmptySeq
<1> QED
  BY <1>1

LEMMA LargestOfFinite ==
  ASSUME NEW S, IsFiniteSet(S), S \subseteq Int, S # {}
  PROVE  Largest(S) \in S /\ \A n \in S : n <= Largest(S)
<1>1. PICK m \in S : \A n \in S : n <= m
  BY MaxOfFinite
<1> QED
  BY <1>1 DEF Largest

-----------------------------------------------------------------------------
(* The types, the phases and the frames.                                   *)

Typed == TypeOK /\ LevelsBounded /\ Phases /\ FrameEdges

LEMMA EditTyped ==
  ASSUME Typed, Edit, connected' \subseteq NetPins, edges' \subseteq Edges,
         relevelize_from' \subseteq Vertices, disabled_loop_edges' \subseteq Edges,
         loop_edges' = loop_edges, levelized' \in BOOLEAN, levels_valid' \in BOOLEAN,
         levels_valid' => levelized' /\ relevelize_from' = {}
  PROVE  Typed'
<1>1. pc = "idle" /\ UNCHANGED <<level, max_level, roots, stack, path, visited, on_path,
                                 in_degree, queue, order, pending, pc>>
  BY DEF Edit, levelVars, dfsVars, flagVars, topoVars
<1>2. TypeOK /\ LevelsBounded /\ Phases
  BY DEF Typed
<1>3. PathLeadsToTop'
  BY <1>1, <1>2 DEF TypeOK, PathLeadsToTop
<1>4. TypeOK'
  BY <1>1, <1>2, <1>3 DEF TypeOK
<1>5. LevelsBounded'
  BY <1>1, <1>2 DEF LevelsBounded
<1>6. stack = <<>> /\ stack' = <<>>
  BY <1>1, <1>2 DEF Phases, Searching
<1>7. Phases'
  BY <1>1, <1>2, <1>6 DEF Phases, Searching
<1>8. FrameEdges'
  BY <1>6 DEF FrameEdges
<1> QED
  BY <1>4, <1>5, <1>7, <1>8 DEF Typed

LEMMA RelevelizeFromTyped ==
  ASSUME TypeOK, Phases, NEW S, S \subseteq Vertices, RelevelizeFrom(S)
  PROVE  /\ relevelize_from' \subseteq Vertices /\ disabled_loop_edges' \subseteq Edges
         /\ loop_edges' = loop_edges /\ levelized' \in BOOLEAN /\ levels_valid' \in BOOLEAN
         /\ levels_valid' => levelized' /\ relevelize_from' = {}
BY DEF RelevelizeFrom, TypeOK, Phases, loopVars

LEMMA DeleteEdgesTyped ==
  ASSUME TypeOK, Phases, NEW deleted \in Seq(Edges), DeleteEdges(deleted)
  PROVE  /\ relevelize_from' \subseteq Vertices /\ disabled_loop_edges' \subseteq Edges
         /\ loop_edges' = loop_edges /\ levelized' \in BOOLEAN /\ levels_valid' \in BOOLEAN
         /\ levels_valid' => levelized' /\ relevelize_from' = {}
<1>1. PICK seen : seen = WhileLevelized(deleted)
  OBVIOUS
<1>2. seen \subseteq Edges
  BY <1>1, ElementOfSeq DEF WhileLevelized
<1>3. deleted = <<>> => seen = {}
  BY <1>1 DEF WhileLevelized
<1>4. /\ levelized' = (levelized /\ LoopEdgesOf(seen) = {})
      /\ relevelize_from' = relevelize_from \cup {e[2] : e \in seen}
      /\ disabled_loop_edges' = disabled_loop_edges \ LoopEdgesOf(seen)
      /\ levels_valid' = (levels_valid /\ deleted = <<>>)
      /\ loop_edges' = loop_edges
  BY <1>1 DEF DeleteEdges
<1>5. {e[2] : e \in seen} \subseteq Vertices
  BY <1>2, FiniteEdges
<1>6. levels_valid' => levelized' /\ relevelize_from' = {}
  BY <1>3, <1>4 DEF Phases, LoopEdgesOf
<1> QED
  BY <1>4, <1>5, <1>6 DEF TypeOK

LEMMA ConnectPinTyped ==
  ASSUME Typed, NEW p \in NetPins, ConnectPin(p)
  PROVE  Typed'
<1> DEFINE from == IF IsDriver(p) THEN {p} ELSE {e[1] : e \in {f \in edges' : f[2] = p}}
<1>1. TypeOK /\ Phases /\ Edit /\ RelevelizeFrom(from)
  BY DEF Typed, ConnectPin
<1>2. connected' \subseteq NetPins /\ edges' \subseteq Edges
  BY <1>1 DEF ConnectPin, TypeOK, WiresOf, Edges
<1>3. from \subseteq Vertices
  BY <1>2, FiniteEdges DEF NetPins
<1> HIDE DEF from
<1> QED
  BY <1>1, <1>2, <1>3, RelevelizeFromTyped, EditTyped

LEMMA DisconnectPinTyped ==
  ASSUME Typed, NEW p, DisconnectPin(p)
  PROVE  Typed'
<1> DEFINE deleted == WiresOf(p, connected)
<1>1. TypeOK /\ Phases /\ Edit
  BY DEF Typed, DisconnectPin
<1>2. PICK sorted \in SetToSeqs(deleted) : DeleteEdges(sorted)
  BY DEF DisconnectPin
<1>3. deleted \subseteq Edges /\ IsFiniteSet(deleted)
  <2>1. deleted \subseteq Edges
    BY DEF WiresOf, Edges
  <2> QED
    BY <2>1, FiniteEdges
<1>4. connected' \subseteq NetPins /\ edges' \subseteq Edges
  BY <1>1 DEF DisconnectPin, TypeOK
<1> HIDE DEF deleted
<1>5. sorted \in Seq(Edges)
  BY <1>2, <1>3, SeqOfSet
<1> QED
  BY <1>1, <1>2, <1>4, <1>5, DeleteEdgesTyped, EditTyped

LEMMA ReplaceCellTyped ==
  ASSUME Typed, NEW old \in Cells, NEW new \in Cells, ReplaceCell(old, new)
  PROVE  Typed'
<1>1. TypeOK /\ Phases /\ Edit /\ connected' = connected
  BY DEF Typed, ReplaceCell
<1>2. PICK sorted \in SetToSeqs(old) : DeleteEdges(sorted)
  BY DEF ReplaceCell
<1>3. old \subseteq Edges /\ new \subseteq Edges /\ IsFiniteSet(old)
  <2>1. old \subseteq Edges /\ new \subseteq Edges
    BY DEF Edges
  <2> QED
    BY <2>1, FiniteEdges
<1>4. connected' \subseteq NetPins /\ edges' \subseteq Edges
  BY <1>1, <1>3 DEF ReplaceCell, TypeOK
<1>5. sorted \in Seq(Edges)
  BY <1>2, <1>3, SeqOfSet
<1> QED
  BY <1>1, <1>2, <1>4, <1>5, DeleteEdgesTyped, EditTyped

LEMMA InvalidTyped ==
  ASSUME Typed, Invalid
  PROVE  Typed'
<1>1. TypeOK /\ Edit /\ UNCHANGED <<netVars, relevelize_from, loopVars>>
      /\ levelized' = FALSE /\ levels_valid' = FALSE
  BY DEF Typed, Invalid
<1> QED
  BY <1>1, EditTyped DEF TypeOK, netVars, loopVars

LEMMA FindLevelsTyped ==
  ASSUME Typed, FindLevels
  PROVE  Typed'
<1> DEFINE found == {v \in Vertices : ~\E e \in edges : e[2] = v}
           fanout_roots == {v \in found : OutEdges(v) # {}}
<1>1. TypeOK /\ Phases /\ pc = "idle"
  BY DEF Typed, FindLevels
<1>2. /\ level' = [v \in Vertices |-> -1] /\ max_level' = 0
      /\ roots' = found /\ relevelize_from' = {} /\ loop_edges' = {} /\ disabled_loop_edges' = {}
      /\ visited' = fanout_roots /\ on_path' = fanout_roots
      /\ path' = <<>> /\ pc' = "back_edges"
      /\ UNCHANGED <<netVars, levelized, levels_valid, topoVars, pending>> /\ ~levels_valid
  BY DEF FindLevels
<1>3. PICK sorted \in SetToSeqs(fanout_roots) :
        stack' = [i \in DOMAIN sorted |-> Frame(sorted[i])]
  BY DEF FindLevels
<1>4. fanout_roots \subseteq Vertices /\ found \subseteq Vertices
  OBVIOUS
<1>5. IsFiniteSet(fanout_roots)
  BY <1>4, FiniteEdges
<1> HIDE DEF fanout_roots, found
<1>6. sorted \in Seq(Vertices)
  BY <1>3, <1>4, <1>5, SeqOfSet
<1>7. \A v \in Vertices : Frame(v) \in FrameSet /\ Frame(v).vertex = v /\ Frame(v).todo = OutEdges(v)
  BY <1>1, FrameOfVertex
<1>8. stack' \in Seq(FrameSet) /\ \A i \in DOMAIN stack' : stack'[i].todo = OutEdges(stack'[i].vertex)
  BY <1>3, <1>6, <1>7
<1>9. PathLeadsToTop'
  <2>1. Len(stack') \in Nat /\ (stack' # <<>> => Len(stack') >= 1)
    BY <1>8, EmptySeq
  <2> QED
    BY <1>2, <2>1 DEF PathLeadsToTop
<1>10. TypeOK'
  BY <1>1, <1>2, <1>4, <1>8, <1>9 DEF TypeOK, FrameSet, netVars, topoVars
<1>11. LevelsBounded' /\ Phases'
  BY <1>1, <1>2 DEF LevelsBounded, Phases, Searching, topoVars
<1>12. FrameEdges'
  BY <1>2, <1>8 DEF FrameEdges, OutEdges, netVars
<1> QED
  BY <1>10, <1>11, <1>12 DEF Typed

\* A step along the path.
LEMMA PathPush ==
  ASSUME TypeOK, FrameEdges, NEW e, NextEdge(e), NEW f \in FrameSet, f.vertex = e[2],
         stack' = Append(WithoutEdge(e), f), path' = Append(path, e)
  PROVE  /\ stack' \in Seq(FrameSet) /\ path' \in Seq(Edges) /\ PathLeadsToTop'
         /\ Len(stack') = Len(stack) + 1 /\ DOMAIN stack' = 1..(Len(stack) + 1)
         /\ \A i \in DOMAIN stack : stack'[i].vertex = stack[i].vertex
         /\ stack'[Len(stack) + 1] = f
<1>1. stack \in Seq(FrameSet) /\ path \in Seq(Edges) /\ stack # <<>>
  BY DEF TypeOK, NextEdge, FrameSet
<1> DEFINE n == Len(stack)  rest == WithoutEdge(e)
<1>2. n \in Nat /\ n >= 1 /\ DOMAIN stack = 1..n /\ n \in DOMAIN stack /\ Top = stack[n]
      /\ Top.todo \subseteq Edges
  BY <1>1, StackTop
<1>3. e \in Edges /\ e[1] = stack[n].vertex /\ e = <<e[1], e[2]>>
  <2>1. e \in stack[n].todo /\ e \in Edges
    BY <1>2 DEF NextEdge
  <2>2. e \in OutEdges(stack[n].vertex)
    BY <1>2, <2>1 DEF FrameEdges
  <2> QED
    BY <2>1, <2>2, FiniteEdges DEF OutEdges
<1>4. rest \in Seq(FrameSet) /\ Len(rest) = n /\ \A i \in DOMAIN stack : rest[i].vertex = stack[i].vertex
  BY <1>1, StackWithoutEdge
<1>5. DOMAIN rest = 1..n
  BY <1>2, <1>4, LenProperties
<1> HIDE DEF rest
<1>6. /\ stack' \in Seq(FrameSet) /\ Len(stack') = n + 1 /\ DOMAIN stack' = 1..(n + 1)
      /\ \A i \in 1..n : stack'[i] = rest[i]
      /\ stack'[n + 1] = f
  BY <1>2, <1>4, <1>5, PushSeq DEF rest
<1>7. /\ path' \in Seq(Edges) /\ Len(path') = Len(path) + 1 /\ DOMAIN path' = 1..(Len(path) + 1)
      /\ \A i \in DOMAIN path : path'[i] = path[i] /\ path'[Len(path) + 1] = e
      /\ path'[Len(path) + 1] = e /\ Len(path) \in Nat /\ DOMAIN path = 1..Len(path)
  BY <1>1, <1>3, PushSeq, LenProperties
<1> DEFINE m == Len(path)
<1> HIDE DEF n, m
<1>8. /\ m \in Nat /\ n - m - 1 >= 0 /\ n \in Nat
      /\ \A i \in 1..m : path[i] = <<stack[n - m - 1 + i].vertex, stack[n - m - 1 + i + 1].vertex>>
  BY <1>1, <1>2, <1>7 DEF TypeOK, PathLeadsToTop, n, m
<1>9. \A i \in 1..n : stack'[i].vertex = stack[i].vertex
  BY <1>2, <1>4, <1>6 DEF n
<1>10. ASSUME NEW i \in 1..(m + 1)
       PROVE  path'[i] = <<stack'[n - m - 1 + i].vertex, stack'[n - m - 1 + i + 1].vertex>>
  <2>1. CASE i \in 1..m
    <3>1. n - m - 1 + i \in 1..n /\ n - m - 1 + i + 1 \in 1..n
      BY <1>8, <2>1
    <3>2. path'[i] = path[i]
      BY <1>7, <2>1 DEF m
    <3> QED
      BY <1>8, <1>9, <2>1, <3>1, <3>2
  <2>2. CASE i = m + 1
    <3>1. n - m - 1 + i = n /\ n - m - 1 + i + 1 = n + 1 /\ n \in 1..n
      BY <1>2, <1>8, <2>2 DEF n
    <3>2. path'[i] = e
      BY <1>7, <2>2 DEF m
    <3>3. stack'[n].vertex = e[1] /\ stack'[n + 1].vertex = e[2]
      BY <1>3, <1>6, <1>9, <3>1
    <3>4. path'[i] = <<e[1], e[2]>>
      BY <1>3, <3>2, Zenon
    <3>5. stack'[n - m - 1 + i].vertex = e[1]
      BY <3>1, <3>3, Zenon
    <3>6. stack'[n - m - 1 + i + 1].vertex = e[2]
      BY <3>1, <3>3, Zenon
    <3> QED
      BY <3>4, <3>5, <3>6
  <2>3. i \in 1..m \/ i = m + 1
    BY <1>8
  <2> QED
    BY <2>1, <2>2, <2>3, Zenon
<1>11. PathLeadsToTop'
  <2>1. Len(stack') - Len(path') - 1 = n - m - 1 /\ DOMAIN path' = 1..(m + 1) /\ stack' # <<>>
    BY <1>6, <1>7, <1>8 DEF n, m
  <2> QED
    BY <1>8, <1>10, <2>1 DEF PathLeadsToTop
<1> QED
  BY <1>2, <1>6, <1>7, <1>9, <1>11 DEF n

\* And one back.
LEMMA PathPop ==
  ASSUME TypeOK, stack # <<>>, stack' = Front(stack), path' = PathAfterPop
  PROVE  /\ stack' \in Seq(FrameSet) /\ path' \in Seq(Edges) /\ PathLeadsToTop'
         /\ Len(stack') = Len(stack) - 1 /\ DOMAIN stack' = 1..(Len(stack) - 1)
         /\ \A i \in DOMAIN stack' : stack'[i] = stack[i]
<1>1. stack \in Seq(FrameSet) /\ path \in Seq(Edges)
  BY DEF TypeOK, FrameSet
<1> DEFINE n == Len(stack)  m == Len(path)
<1>2. n \in Nat /\ n >= 1 /\ DOMAIN stack = 1..n
  BY <1>1, StackTop
<1>3. /\ stack' \in Seq(FrameSet) /\ Len(stack') = n - 1 /\ DOMAIN stack' = 1..(n - 1)
      /\ \A i \in 1..(n - 1) : stack'[i] = stack[i]
  BY <1>1, FrontSeq
<1>4. m \in Nat /\ DOMAIN path = 1..m
  BY <1>1
<1> HIDE DEF n, m
<1>5. /\ n - m - 1 >= 0
      /\ \A i \in 1..m : path[i] = <<stack[n - m - 1 + i].vertex, stack[n - m - 1 + i + 1].vertex>>
  BY <1>4 DEF TypeOK, PathLeadsToTop, n, m
<1>6. path' \in Seq(Edges) /\ PathLeadsToTop'
  <2>1. CASE path = <<>>
    <3>1. path' = <<>> /\ Len(path') = 0 /\ DOMAIN path' = {}
      BY <2>1 DEF PathAfterPop
    <3>2. stack' # <<>> => n - 1 >= 1
      BY <1>2, <1>3, EmptySeq
    <3> QED
      BY <1>2, <1>3, <3>1, <3>2 DEF PathLeadsToTop
  <2>2. CASE path # <<>>
    <3>1. /\ path' \in Seq(Edges) /\ Len(path') = m - 1 /\ DOMAIN path' = 1..(m - 1)
          /\ \A i \in 1..(m - 1) : path'[i] = path[i]
      BY <1>1, <2>2, FrontSeq DEF PathAfterPop, m
    <3>2. m >= 1
      BY <1>1, <1>4, <2>2, EmptySeq DEF m
    <3>3. Len(stack') - Len(path') - 1 = n - m - 1
      BY <1>2, <1>3, <1>4, <3>1
    <3>4. ASSUME NEW i \in 1..(m - 1)
          PROVE  path'[i] = <<stack'[n - m - 1 + i].vertex, stack'[n - m - 1 + i + 1].vertex>>
      <4>1. n - m - 1 + i \in 1..(n - 1) /\ n - m - 1 + i + 1 \in 1..(n - 1) /\ i \in 1..m
        BY <1>2, <1>4, <1>5
      <4> QED
        BY <1>3, <1>5, <3>1, <4>1
    <3>5. stack' # <<>>
      <4>1. n - 1 >= 1
        BY <1>2, <1>4, <1>5, <3>2
      <4> QED
        BY <1>3, <4>1, EmptySeq
    <3> QED
      BY <1>5, <3>1, <3>3, <3>4, <3>5 DEF PathLeadsToTop
  <2> QED
    BY <2>1, <2>2
<1> QED
  BY <1>3, <1>6 DEF n

\* The same path, where the vertices of the stack are the same.
LEMMA PathSame ==
  ASSUME TypeOK, NEW e, NextEdge(e), stack' = WithoutEdge(e), path' = path
  PROVE  stack' \in Seq(FrameSet) /\ PathLeadsToTop' /\ Len(stack') = Len(stack)
         /\ DOMAIN stack' = DOMAIN stack /\ \A i \in DOMAIN stack : stack'[i].vertex = stack[i].vertex
<1>1. stack \in Seq(FrameSet) /\ path \in Seq(Edges) /\ stack # <<>>
  BY DEF TypeOK, NextEdge, FrameSet
<1>2. /\ stack' \in Seq(FrameSet) /\ Len(stack') = Len(stack)
      /\ \A i \in DOMAIN stack : stack'[i].vertex = stack[i].vertex
  BY <1>1, StackWithoutEdge
<1> DEFINE n == Len(stack)  m == Len(path)
<1>3. n \in Nat /\ n >= 1 /\ DOMAIN stack = 1..n /\ DOMAIN stack' = 1..n
  BY <1>1, <1>2, StackTop, LenProperties
<1>4. m \in Nat /\ DOMAIN path = 1..m
  BY <1>1
<1>5. stack' # <<>> /\ Len(stack') = n
  BY <1>2, <1>3, EmptySeq
<1> HIDE DEF n, m
<1>6. /\ n - m - 1 >= 0
      /\ \A i \in 1..m : path[i] = <<stack[n - m - 1 + i].vertex, stack[n - m - 1 + i + 1].vertex>>
  BY <1>1, <1>4 DEF TypeOK, PathLeadsToTop, n, m
<1>7. \A i \in 1..m : n - m - 1 + i \in 1..n /\ n - m - 1 + i + 1 \in 1..n
  BY <1>3, <1>4, <1>6
<1>8. \A i \in 1..m : path'[i] = <<stack'[n - m - 1 + i].vertex, stack'[n - m - 1 + i + 1].vertex>>
  BY <1>2, <1>3, <1>6, <1>7
<1>9. PathLeadsToTop'
  BY <1>4, <1>5, <1>6, <1>8 DEF PathLeadsToTop, m
<1> QED
  BY <1>2, <1>3, <1>9

LEMMA TopEdge ==
  ASSUME TypeOK, FrameEdges, NEW e, NextEdge(e)
  PROVE  /\ stack \in Seq(FrameSet) /\ stack # <<>>
         /\ e \in edges /\ e \in Edges /\ e[1] = Top.vertex /\ e[1] = stack[Len(stack)].vertex
         /\ e[1] \in Vertices /\ e[2] \in Vertices
<1>1. stack \in Seq(FrameSet) /\ stack # <<>>
  BY DEF TypeOK, NextEdge, FrameSet
<1>2. Len(stack) \in DOMAIN stack /\ Top = stack[Len(stack)]
  BY <1>1, StackTop
<1>3. e \in OutEdges(Top.vertex)
  BY <1>2 DEF FrameEdges, NextEdge
<1>4. e \in edges /\ e[1] = Top.vertex
  BY <1>3 DEF OutEdges
<1> QED
  BY <1>1, <1>2, <1>4, FiniteEdges DEF TypeOK

\* Edges are not made or deleted while levels are found, so a frame that was
\* changed or made has left only edges from its vertex.
LEMMA FramesWithoutEdge ==
  ASSUME TypeOK, FrameEdges, NEW e, NextEdge(e), stack' = WithoutEdge(e), edges' = edges
  PROVE  FrameEdges'
<1>1. stack \in Seq(FrameSet) /\ stack # <<>>
  BY DEF TypeOK, NextEdge, FrameSet
<1>2. /\ stack' \in Seq(FrameSet) /\ Len(stack') = Len(stack)
      /\ \A i \in DOMAIN stack : stack'[i].vertex = stack[i].vertex
      /\ \A i \in DOMAIN stack : i # Len(stack) => stack'[i] = stack[i]
      /\ stack'[Len(stack)].todo = Top.todo \ {e}
  BY <1>1, StackWithoutEdge
<1>3. DOMAIN stack' = DOMAIN stack /\ Top = stack[Len(stack)]
  BY <1>1, <1>2, StackTop, LenProperties
<1>4. \A i \in DOMAIN stack : stack'[i].todo \subseteq stack[i].todo
  BY <1>2, <1>3
<1> QED
  BY <1>2, <1>3, <1>4 DEF FrameEdges, OutEdges

LEMMA FramesPush ==
  ASSUME TypeOK, FrameEdges, NEW e, NextEdge(e), stack' = Append(WithoutEdge(e), Frame(e[2])),
         edges' = edges
  PROVE  /\ FrameEdges'
         /\ Frame(e[2]) \in FrameSet /\ Frame(e[2]).vertex = e[2] /\ Frame(e[2]).todo = OutEdges(e[2])
         /\ \A i \in DOMAIN stack : stack'[i] = WithoutEdge(e)[i]
<1>1. stack \in Seq(FrameSet) /\ stack # <<>> /\ e[2] \in Vertices
  BY TopEdge
<1>2. /\ WithoutEdge(e) \in Seq(FrameSet) /\ Len(WithoutEdge(e)) = Len(stack)
      /\ \A i \in DOMAIN stack : WithoutEdge(e)[i].vertex = stack[i].vertex
      /\ \A i \in DOMAIN stack : i # Len(stack) => WithoutEdge(e)[i] = stack[i]
      /\ WithoutEdge(e)[Len(stack)].todo = Top.todo \ {e}
  BY <1>1, StackWithoutEdge
<1>3. DOMAIN WithoutEdge(e) = DOMAIN stack /\ Top = stack[Len(stack)] /\ DOMAIN stack = 1..Len(stack)
      /\ Len(stack) \in Nat
  BY <1>1, <1>2, StackTop, LenProperties
<1>4. Frame(e[2]) \in FrameSet /\ Frame(e[2]).vertex = e[2] /\ Frame(e[2]).todo = OutEdges(e[2])
  BY <1>1, FrameOfVertex
<1>5. /\ DOMAIN stack' = 1..(Len(stack) + 1)
      /\ \A i \in DOMAIN stack : stack'[i] = WithoutEdge(e)[i]
      /\ stack'[Len(stack) + 1] = Frame(e[2])
  BY <1>2, <1>3, <1>4, PushSeq
<1>6. \A i \in DOMAIN stack : stack'[i].todo \subseteq stack[i].todo /\ stack'[i].vertex = stack[i].vertex
  BY <1>2, <1>3, <1>5
<1>7. \A i \in DOMAIN stack' : i \in DOMAIN stack \/ i = Len(stack) + 1
  BY <1>3, <1>5
<1>8. FrameEdges'
  BY <1>4, <1>5, <1>6, <1>7 DEF FrameEdges, OutEdges
<1> QED
  BY <1>4, <1>5, <1>8

LEMMA FramesPop ==
  ASSUME FrameEdges, DOMAIN stack' \subseteq DOMAIN stack,
         \A i \in DOMAIN stack' : stack'[i] = stack[i], edges' = edges
  PROVE  FrameEdges'
BY DEF FrameEdges, OutEdges

LEMMA LoopTyped ==
  ASSUME TypeOK, NEW e \in Edges, RecordLoop(e)
  PROVE  loop_edges' \subseteq Edges /\ disabled_loop_edges' \subseteq Edges
<1>1. \A i \in DOMAIN path : path[i] \in Edges
  BY ElementOfSeq DEF TypeOK
<1> QED
  BY <1>1 DEF TypeOK, RecordLoop, LoopEdges

LEMMA FindBackEdgeTyped ==
  ASSUME Typed, NEW e \in edges, FindBackEdge(e)
  PROVE  Typed'
<1>1. TypeOK /\ LevelsBounded /\ Phases /\ FrameEdges
  BY DEF Typed
<1>2. /\ pc \in {"back_edges", "cycles"} /\ NextEdge(e)
      /\ UNCHANGED <<connected, edges, level, max_level, levelized, levels_valid, relevelize_from,
                     in_degree, queue, order, pending, pc>>
  BY DEF FindBackEdge, graphVars, netVars, levelVars, validVars, topoVars
<1>3. e \in Edges /\ e[2] \in Vertices
  BY <1>1, <1>2, TopEdge
<1>4. /\ stack' \in Seq(FrameSet) /\ path' \in Seq(Edges) /\ PathLeadsToTop' /\ FrameEdges'
      /\ loop_edges' \subseteq Edges /\ disabled_loop_edges' \subseteq Edges
      /\ roots' \subseteq Vertices /\ visited' \subseteq Vertices /\ on_path' \subseteq Vertices
  <2>1. CASE Descend(e)
    <3>1. Frame(e[2]) \in FrameSet /\ Frame(e[2]).vertex = e[2]
      BY <1>1, <1>3, FrameOfVertex
    <3>2. stack' \in Seq(FrameSet) /\ path' \in Seq(Edges) /\ PathLeadsToTop'
      BY <1>1, <1>2, <2>1, <3>1, PathPush DEF Descend
    <3>3. FrameEdges'
      BY <1>1, <1>2, <2>1, FramesPush DEF Descend
    <3> QED
      BY <1>1, <1>3, <2>1, <3>2, <3>3 DEF Descend, TypeOK, loopVars
  <2>2. CASE BackEdge(e)
    <3>1. stack' \in Seq(FrameSet) /\ PathLeadsToTop'
      BY <1>1, <1>2, <2>2, PathSame DEF BackEdge
    <3>2. FrameEdges'
      BY <1>1, <1>2, <2>2, FramesWithoutEdge DEF BackEdge
    <3>3. loop_edges' \subseteq Edges /\ disabled_loop_edges' \subseteq Edges
      BY <1>1, <1>3, <2>2, LoopTyped DEF BackEdge
    <3> QED
      BY <1>1, <1>3, <2>2, <3>1, <3>2, <3>3 DEF BackEdge, TypeOK, flagVars
  <2>3. CASE SkipEdge(e)
    <3>1. stack' \in Seq(FrameSet) /\ PathLeadsToTop'
      BY <1>1, <1>2, <2>3, PathSame DEF SkipEdge
    <3>2. FrameEdges'
      BY <1>1, <1>2, <2>3, FramesWithoutEdge DEF SkipEdge
    <3> QED
      BY <1>1, <2>3, <3>1, <3>2 DEF SkipEdge, TypeOK, flagVars, loopVars
  <2> QED
    BY <2>1, <2>2, <2>3 DEF FindBackEdge
<1>5. TypeOK'
  BY <1>1, <1>2, <1>4 DEF TypeOK, FrameSet
<1>6. LevelsBounded' /\ Phases'
  BY <1>1, <1>2 DEF LevelsBounded, Phases, Searching
<1> QED
  BY <1>4, <1>5, <1>6 DEF Typed

\* A search over the stack that returns from a vertex, in any phase.
LEMMA ReturnTyped ==
  ASSUME Typed, pc \in {"back_edges", "cycles", "relevelize"}, stack # <<>>,
         stack' = Front(stack), path' = PathAfterPop, on_path' \subseteq Vertices,
         UNCHANGED <<graphVars, validVars, loopVars, roots, visited, topoVars, pending, pc>>
  PROVE  Typed'
<1>1. TypeOK /\ LevelsBounded /\ Phases /\ FrameEdges
  BY DEF Typed
<1>2. UNCHANGED <<connected, edges, level, max_level, levelized, levels_valid, relevelize_from,
                  loop_edges, disabled_loop_edges, roots, visited, in_degree, queue, order, pending, pc>>
  BY DEF graphVars, netVars, levelVars, validVars, loopVars, topoVars
<1>3. /\ stack' \in Seq(FrameSet) /\ path' \in Seq(Edges) /\ PathLeadsToTop'
      /\ DOMAIN stack' = 1..(Len(stack) - 1) /\ \A i \in DOMAIN stack' : stack'[i] = stack[i]
  BY <1>1, PathPop
<1>4. stack \in Seq(FrameSet) /\ DOMAIN stack = 1..Len(stack) /\ Len(stack) \in Nat
  BY <1>1, StackTop DEF TypeOK, FrameSet
<1>5. FrameEdges'
  BY <1>1, <1>2, <1>3, <1>4, FramesPop
<1>6. TypeOK'
  BY <1>1, <1>2, <1>3 DEF TypeOK, FrameSet
<1>7. LevelsBounded' /\ Phases'
  BY <1>1, <1>2 DEF LevelsBounded, Phases, Searching
<1> QED
  BY <1>5, <1>6, <1>7 DEF Typed

LEMMA LeaveVertexTyped ==
  ASSUME Typed, LeaveVertex
  PROVE  Typed'
<1>1. on_path' \subseteq Vertices
  BY DEF Typed, TypeOK, LeaveVertex
<1> QED
  BY <1>1, ReturnTyped DEF LeaveVertex

\* The stack is left alone, or one vertex is put on an empty one.
LEMMA StackKept ==
  ASSUME TypeOK, FrameEdges, UNCHANGED <<dfsVars, edges>>
  PROVE  PathLeadsToTop' /\ FrameEdges' /\ stack' = stack /\ path' = path
BY DEF TypeOK, PathLeadsToTop, FrameEdges, OutEdges, dfsVars

LEMMA StackStarted ==
  ASSUME TypeOK, NEW v \in Vertices, stack' = <<Frame(v)>>, path' = <<>>, edges' = edges
  PROVE  /\ stack' \in Seq(FrameSet) /\ path' \in Seq(Edges) /\ PathLeadsToTop' /\ FrameEdges'
         /\ Len(stack') = 1 /\ DOMAIN stack' = {1} /\ stack'[1].vertex = v
         /\ stack'[1].todo = OutEdges(v)
<1>1. Frame(v) \in FrameSet /\ Frame(v).vertex = v /\ Frame(v).todo = OutEdges(v)
  BY FrameOfVertex
<1>2. PICK f : f = Frame(v)
  OBVIOUS
<1>3. /\ stack' = <<f>> /\ stack' \in Seq(FrameSet) /\ Len(stack') = 1 /\ DOMAIN stack' = {1}
      /\ stack'[1] = f /\ stack' # <<>>
  BY <1>1, <1>2
<1>4. PathLeadsToTop'
  BY <1>3 DEF PathLeadsToTop
<1>5. FrameEdges'
  BY <1>1, <1>2, <1>3 DEF FrameEdges, OutEdges
<1> QED
  BY <1>1, <1>2, <1>3, <1>4, <1>5

LEMMA FindUnvisitedTyped ==
  ASSUME Typed, FindUnvisited
  PROVE  Typed'
<1>1. TypeOK /\ LevelsBounded /\ Phases /\ FrameEdges
  BY DEF Typed
<1>2. /\ pc = "back_edges" /\ stack = <<>> /\ pending' = Vertices \ visited /\ pc' = "cycles"
      /\ UNCHANGED <<connected, edges, level, max_level, levelized, levels_valid, relevelize_from,
                     loop_edges, disabled_loop_edges, roots, dfsVars, visited, on_path,
                     in_degree, queue, order>>
  BY DEF FindUnvisited, graphVars, netVars, levelVars, validVars, loopVars, flagVars, topoVars
<1>3. PathLeadsToTop' /\ FrameEdges' /\ stack' = stack /\ path' = path
  BY <1>1, <1>2, StackKept
<1>4. TypeOK'
  BY <1>1, <1>2, <1>3 DEF TypeOK
<1>5. LevelsBounded' /\ Phases'
  BY <1>1, <1>2, <1>3 DEF LevelsBounded, Phases, Searching
<1> QED
  BY <1>3, <1>4, <1>5 DEF Typed

LEMMA FindCycleBackEdgesTyped ==
  ASSUME Typed, NEW v \in Vertices, FindCycleBackEdges(v)
  PROVE  Typed'
<1>1. TypeOK /\ LevelsBounded /\ Phases /\ FrameEdges
  BY DEF Typed
<1>2. /\ pc = "cycles" /\ pending' = pending \ {v} /\ stack' = <<Frame(v)>> /\ path' = <<>>
      /\ UNCHANGED <<connected, edges, level, max_level, levelized, levels_valid, relevelize_from,
                     loop_edges, disabled_loop_edges, roots, visited, on_path,
                     in_degree, queue, order, pc>>
  BY DEF FindCycleBackEdges, graphVars, netVars, levelVars, validVars, loopVars, flagVars, topoVars
<1>3. stack' \in Seq(FrameSet) /\ path' \in Seq(Edges) /\ PathLeadsToTop' /\ FrameEdges'
  BY <1>1, <1>2, StackStarted
<1>4. TypeOK'
  BY <1>1, <1>2, <1>3 DEF TypeOK, FrameSet
<1>5. LevelsBounded' /\ Phases'
  BY <1>1, <1>2 DEF LevelsBounded, Phases, Searching
<1> QED
  BY <1>3, <1>4, <1>5 DEF Typed

LEMMA FindInDegreesTyped ==
  ASSUME Typed, FindInDegrees
  PROVE  Typed'
<1>1. TypeOK /\ LevelsBounded /\ Phases /\ FrameEdges
  BY DEF Typed
<1>2. /\ pc = "cycles" /\ stack = <<>> /\ pc' = "topo" /\ order' = <<>>
      /\ in_degree' = [v \in Vertices |-> Cardinality({e \in Enabled : e[2] = v})]
      /\ queue' \in SetToSeqs(roots)
      /\ UNCHANGED <<connected, edges, level, max_level, levelized, levels_valid, relevelize_from,
                     loop_edges, disabled_loop_edges, roots, dfsVars, visited, on_path, pending>>
  BY DEF FindInDegrees, graphVars, netVars, levelVars, validVars, loopVars, flagVars
<1>3. PathLeadsToTop' /\ FrameEdges' /\ stack' = stack /\ path' = path
  BY <1>1, <1>2, StackKept
<1>4. \A v \in Vertices : Cardinality({e \in Enabled : e[2] = v}) \in Int
  <2>1. \A v \in Vertices : IsFiniteSet({e \in Enabled : e[2] = v})
    <3>1. \A v \in Vertices : {e \in Enabled : e[2] = v} \in SUBSET Edges
      BY <1>1 DEF TypeOK, Enabled
    <3> QED
      BY <3>1, FiniteEdges
  <2>2. \A v \in Vertices : Cardinality({e \in Enabled : e[2] = v}) \in Nat
    BY <2>1, FS_CardinalityType
  <2> QED
    BY <2>2
<1>5. queue' \in Seq(Vertices)
  <2>1. IsFiniteSet(roots) /\ roots \subseteq Vertices
    BY <1>1, FiniteEdges DEF TypeOK
  <2>2. queue' \in Seq(roots)
    BY <1>2, <2>1, SeqOfSet
  <2> QED
    BY <2>1, <2>2
<1>6. in_degree' \in [Vertices -> Int]
  BY <1>2, <1>4
<1>7. TypeOK'
  BY <1>1, <1>2, <1>3, <1>5, <1>6 DEF TypeOK
<1>8. LevelsBounded' /\ Phases'
  BY <1>1, <1>2, <1>3 DEF LevelsBounded, Phases, Searching
<1> QED
  BY <1>3, <1>7, <1>8 DEF Typed

LEMMA FindTopologicalOrderTyped ==
  ASSUME Typed, FindTopologicalOrder
  PROVE  Typed'
<1> DEFINE v == Head(queue)
           fanout == {w \in Vertices : <<v, w>> \in Enabled}
           ready == {w \in fanout : in_degree'[w] = 0}
<1>1. TypeOK /\ LevelsBounded /\ Phases /\ FrameEdges
  BY DEF Typed
<1>2. /\ pc = "topo" /\ queue # <<>> /\ pc' = "topo" /\ order' = Append(order, v)
      /\ in_degree' = [w \in Vertices |-> in_degree[w] - (IF w \in fanout THEN 1 ELSE 0)]
      /\ UNCHANGED <<connected, edges, level, max_level, levelized, levels_valid, relevelize_from,
                     loop_edges, disabled_loop_edges, roots, dfsVars, visited, on_path, pending>>
  BY DEF FindTopologicalOrder, graphVars, netVars, levelVars, validVars, loopVars, flagVars
<1>3. PICK found \in SetToSeqs(ready) : queue' = Tail(queue) \o found
  BY DEF FindTopologicalOrder
<1>4. PathLeadsToTop' /\ FrameEdges' /\ stack' = stack /\ path' = path
  BY <1>1, <1>2, StackKept
<1>5. v \in Vertices /\ Tail(queue) \in Seq(Vertices)
  BY <1>1, <1>2, TailSeq DEF TypeOK
<1>6. ready \subseteq Vertices /\ IsFiniteSet(ready)
  <2>1. ready \subseteq Vertices
    OBVIOUS
  <2> QED
    BY <2>1, FiniteEdges
<1> HIDE DEF ready, fanout, v
<1>7. found \in Seq(Vertices)
  BY <1>3, <1>6, SeqOfSet
<1>8. queue' \in Seq(Vertices) /\ order' \in Seq(Vertices)
  BY <1>1, <1>2, <1>3, <1>5, <1>7 DEF TypeOK
<1>9. in_degree' \in [Vertices -> Int]
  BY <1>1, <1>2 DEF TypeOK
<1>10. TypeOK'
  BY <1>1, <1>2, <1>4, <1>8, <1>9 DEF TypeOK
<1>11. LevelsBounded' /\ Phases'
  BY <1>1, <1>2, <1>4 DEF LevelsBounded, Phases, Searching
<1> QED
  BY <1>4, <1>10, <1>11 DEF Typed

LEMMA AssignLevelsTyped ==
  ASSUME Typed, AssignLevels
  PROVE  Typed'
<1>1. TypeOK /\ LevelsBounded /\ Phases /\ FrameEdges
  BY DEF Typed
<1>2. /\ pc = "topo" /\ queue = <<>> /\ pc' = "assign"
      /\ level' = [v \in Vertices |-> IF v \in roots THEN 0 ELSE level[v]]
      /\ UNCHANGED <<connected, edges, max_level, levelized, levels_valid, relevelize_from,
                     loop_edges, disabled_loop_edges, roots, dfsVars, visited, on_path, pending,
                     in_degree, queue, order>>
  BY DEF AssignLevels, netVars, validVars, loopVars, flagVars, topoVars
<1>3. PathLeadsToTop' /\ FrameEdges' /\ stack' = stack /\ path' = path
  BY <1>1, <1>2, StackKept
<1>4. TypeOK'
  BY <1>1, <1>2, <1>3 DEF TypeOK
<1>5. LevelsBounded'
  BY <1>1, <1>2 DEF LevelsBounded, TypeOK
<1>6. Phases'
  BY <1>1, <1>2, <1>3 DEF Phases, Searching
<1> QED
  BY <1>3, <1>4, <1>5, <1>6 DEF Typed

LEMMA AssignLevelTyped ==
  ASSUME Typed, AssignLevel
  PROVE  Typed'
<1> DEFINE v == Head(order)
           from_v == level[v] + LevelSpace
           fanout == {w \in Vertices : level[v] # -1 /\ <<v, w>> \in Enabled}
           new == {level'[w] : w \in fanout} \cup {max_level}
<1>1. TypeOK /\ LevelsBounded /\ Phases /\ FrameEdges /\ LevelSpace \in Nat \ {0}
  BY LevelizeAssumption DEF Typed
<1>2. /\ pc = "assign" /\ order # <<>> /\ pc' = "assign" /\ order' = Tail(order)
      /\ level' = [w \in Vertices |-> IF w \in fanout THEN Larger(level[w], from_v) ELSE level[w]]
      /\ max_level' = Largest(new)
      /\ UNCHANGED <<connected, edges, levelized, levels_valid, relevelize_from,
                     loop_edges, disabled_loop_edges, roots, dfsVars, visited, on_path, pending,
                     in_degree, queue>>
  BY DEF AssignLevel, netVars, validVars, loopVars, flagVars
<1>3. PathLeadsToTop' /\ FrameEdges' /\ stack' = stack /\ path' = path
  BY <1>1, <1>2, StackKept
<1>4. v \in Vertices /\ Tail(order) \in Seq(Vertices)
  BY <1>1, <1>2, TailSeq DEF TypeOK
<1>5. fanout \subseteq Vertices /\ IsFiniteSet(fanout)
  <2>1. fanout \subseteq Vertices
    OBVIOUS
  <2> QED
    BY <2>1, FiniteEdges
<1>6. fanout # {} => from_v \in Nat
  <2>1. level[v] \in Nat \cup {-1}
    BY <1>1, <1>4 DEF TypeOK
  <2>2. fanout # {} => level[v] # -1
    OBVIOUS
  <2> QED
    BY <1>1, <2>1, <2>2
<1> HIDE DEF v, from_v, fanout
<1>7. level' \in [Vertices -> Nat \cup {-1}]
  BY <1>1, <1>2, <1>5, <1>6 DEF TypeOK, Larger
<1>8. /\ new \subseteq Nat \cup {-1} /\ IsFiniteSet(new) /\ new # {} /\ max_level \in new
      /\ \A w \in fanout : level'[w] \in new
  <2>1. IsFiniteSet({level'[w] : w \in fanout})
    <3>1. PICK g : g = [w \in fanout |-> level'[w]]
      OBVIOUS
    <3>2. g \in [fanout -> Int] /\ \A w \in fanout : g[w] = level'[w]
      BY <1>5, <1>7, <3>1
    <3>3. {level'[w] : w \in fanout} = Range(g)
      BY <3>2 DEF Range
    <3> QED
      BY <1>5, <3>2, <3>3, FiniteRange
  <2>2. IsFiniteSet(new)
    BY <2>1, FS_AddElement
  <2>3. \A w \in fanout : level'[w] \in Nat \cup {-1}
    BY <1>5, <1>7
  <2>4. max_level \in Nat
    BY <1>1 DEF TypeOK
  <2> QED
    BY <2>2, <2>3, <2>4
<1>9. max_level' \in new /\ \A n \in new : n <= max_level'
  <2>1. new \subseteq Int
    BY <1>8
  <2> QED
    BY <1>2, <1>8, <2>1, LargestOfFinite
<1> HIDE DEF new
<1>10. max_level' \in Nat /\ max_level <= max_level'
  BY <1>1, <1>8, <1>9 DEF TypeOK
<1>11. TypeOK'
  BY <1>1, <1>2, <1>3, <1>4, <1>7, <1>10 DEF TypeOK
<1>12. LevelsBounded'
  <2>1. ASSUME NEW w \in Vertices PROVE level'[w] <= max_level'
    <3>1. CASE w \in fanout
      BY <1>8, <1>9, <3>1
    <3>2. CASE w \notin fanout
      <4>1. level'[w] = level[w] /\ level[w] <= max_level
        BY <1>1, <1>2, <3>2 DEF LevelsBounded
      <4>2. level[w] \in Int /\ max_level \in Int
        BY <1>1 DEF TypeOK
      <4> QED
        BY <1>10, <4>1, <4>2
    <3> QED
      BY <3>1, <3>2
  <2> QED
    BY <2>1 DEF LevelsBounded
<1>13. Phases'
  BY <1>1, <1>2, <1>3 DEF Phases, Searching
<1> QED
  BY <1>3, <1>11, <1>12, <1>13 DEF Typed

LEMMA LevelsAssignedTyped ==
  ASSUME Typed, LevelsAssigned
  PROVE  Typed'
<1>1. TypeOK /\ LevelsBounded /\ Phases /\ FrameEdges
  BY DEF Typed
<1>2. /\ pc = "assign" /\ order = <<>> /\ pc' = "idle"
      /\ level' = [v \in Vertices |-> Larger(level[v], 0)]
      /\ relevelize_from' = {} /\ levelized' = TRUE /\ levels_valid' = TRUE
      /\ visited' = {} /\ on_path' = {} /\ in_degree' = [v \in Vertices |-> 0]
      /\ UNCHANGED <<connected, edges, max_level, loop_edges, disabled_loop_edges, roots, dfsVars,
                     queue, order, pending>>
  BY DEF LevelsAssigned, netVars, loopVars
<1>3. PathLeadsToTop' /\ FrameEdges' /\ stack' = stack /\ path' = path
  BY <1>1, <1>2, StackKept
<1>4. TypeOK'
  BY <1>1, <1>2, <1>3 DEF TypeOK, Larger
<1>5. LevelsBounded'
  BY <1>1, <1>2 DEF LevelsBounded, TypeOK, Larger
<1>6. Phases'
  BY <1>1, <1>2, <1>3 DEF Phases, Searching
<1> QED
  BY <1>3, <1>4, <1>5, <1>6 DEF Typed

LEMMA RelevelizeTyped ==
  ASSUME Typed, Relevelize
  PROVE  Typed'
<1>1. TypeOK /\ LevelsBounded /\ Phases /\ FrameEdges
  BY DEF Typed
<1>2. /\ pc = "idle" /\ ~levels_valid /\ levelized /\ pending' = relevelize_from
      /\ pc' = "relevelize"
      /\ UNCHANGED <<connected, edges, level, max_level, levelized, levels_valid, relevelize_from,
                     loop_edges, disabled_loop_edges, roots, dfsVars, visited, on_path,
                     in_degree, queue, order>>
  BY DEF Relevelize, graphVars, netVars, levelVars, validVars, loopVars, flagVars, topoVars
<1>3. PathLeadsToTop' /\ FrameEdges' /\ stack' = stack /\ path' = path
  BY <1>1, <1>2, StackKept
<1>4. TypeOK'
  BY <1>1, <1>2, <1>3 DEF TypeOK
<1>5. LevelsBounded' /\ Phases'
  BY <1>1, <1>2, <1>3 DEF LevelsBounded, Phases, Searching
<1> QED
  BY <1>3, <1>4, <1>5 DEF Typed

LEMMA VisitFromTyped ==
  ASSUME Typed, NEW v \in Vertices, VisitFrom(v)
  PROVE  Typed'
<1>1. TypeOK /\ LevelsBounded /\ Phases /\ FrameEdges
  BY DEF Typed
<1>2. /\ pc = "relevelize" /\ pending' = pending \ {v} /\ stack' = <<Frame(v)>> /\ path' = <<>>
      /\ roots' = VisitedRoots(v)
      /\ UNCHANGED <<connected, edges, level, max_level, levelized, levels_valid, relevelize_from,
                     loop_edges, disabled_loop_edges, visited, on_path,
                     in_degree, queue, order, pc>>
  BY DEF VisitFrom, graphVars, netVars, levelVars, validVars, loopVars, flagVars, topoVars
<1>3. stack' \in Seq(FrameSet) /\ path' \in Seq(Edges) /\ PathLeadsToTop' /\ FrameEdges'
  BY <1>1, <1>2, StackStarted
<1>4. TypeOK'
  BY <1>1, <1>2, <1>3 DEF TypeOK, FrameSet, VisitedRoots
<1>5. LevelsBounded' /\ Phases'
  BY <1>1, <1>2 DEF LevelsBounded, Phases, Searching
<1> QED
  BY <1>3, <1>4, <1>5 DEF Typed

LEMMA VisitEdgeTyped ==
  ASSUME Typed, NEW e \in edges, VisitEdge(e)
  PROVE  Typed'
<1>1. TypeOK /\ LevelsBounded /\ Phases /\ FrameEdges
  BY DEF Typed
<1>2. /\ pc = "relevelize" /\ NextEdge(e)
      /\ UNCHANGED <<connected, edges, levelized, levels_valid, relevelize_from, roots,
                     visited, on_path, in_degree, queue, order, pending, pc>>
  BY DEF VisitEdge, netVars, validVars, flagVars, topoVars
<1>3. e \in Edges /\ e[1] \in Vertices /\ e[2] \in Vertices
  BY <1>1, <1>2, TopEdge
<1>4. /\ stack' \in Seq(FrameSet) /\ path' \in Seq(Edges) /\ PathLeadsToTop' /\ FrameEdges'
      /\ loop_edges' \subseteq Edges /\ disabled_loop_edges' \subseteq Edges
      /\ level' \in [Vertices -> Nat \cup {-1}] /\ max_level' \in Nat /\ LevelsBounded'
  <2>1. CASE VisitRaise(e)
    <3>1. Frame(e[2]) \in FrameSet /\ Frame(e[2]).vertex = e[2]
      BY <1>1, <1>3, FrameOfVertex
    <3>2. stack' \in Seq(FrameSet) /\ path' \in Seq(Edges) /\ PathLeadsToTop'
      BY <1>1, <1>2, <2>1, <3>1, PathPush DEF VisitRaise
    <3>3. FrameEdges'
      BY <1>1, <1>2, <2>1, FramesPush DEF VisitRaise
    <3>4. PICK n : n = level[e[1]] + 1
      OBVIOUS
    <3>5. /\ level' = [level EXCEPT ![e[2]] = n] /\ max_level' = Larger(max_level, n)
          /\ UNCHANGED loopVars
      BY <2>1, <3>4 DEF VisitRaise
    <3>6. n \in Nat /\ level \in [Vertices -> Nat \cup {-1}] /\ max_level \in Nat
      <4>1. level \in [Vertices -> Nat \cup {-1}] /\ max_level \in Nat
        BY <1>1 DEF TypeOK
      <4>2. level[e[1]] \in Nat \cup {-1}
        BY <1>3, <4>1
      <4> QED
        BY <3>4, <4>1, <4>2
    <3>7. max_level' \in Nat /\ n <= max_level' /\ max_level <= max_level'
      BY <3>5, <3>6 DEF Larger
    <3>8. \A w \in Vertices : level'[w] <= max_level'
      BY <1>1, <3>5, <3>6, <3>7 DEF LevelsBounded
    <3>9. level' \in [Vertices -> Nat \cup {-1}]
      BY <3>5, <3>6
    <3> QED
      BY <1>1, <3>2, <3>3, <3>5, <3>7, <3>8, <3>9 DEF LevelsBounded, TypeOK, loopVars
  <2>2. CASE VisitBackEdge(e)
    <3>1. stack' \in Seq(FrameSet) /\ PathLeadsToTop'
      BY <1>1, <1>2, <2>2, PathSame DEF VisitBackEdge
    <3>2. FrameEdges'
      BY <1>1, <1>2, <2>2, FramesWithoutEdge DEF VisitBackEdge
    <3>3. loop_edges' \subseteq Edges /\ disabled_loop_edges' \subseteq Edges
      BY <1>1, <1>3, <2>2, LoopTyped DEF VisitBackEdge
    <3> QED
      BY <1>1, <2>2, <3>1, <3>2, <3>3 DEF VisitBackEdge, TypeOK, LevelsBounded
  <2>3. CASE VisitSkip(e)
    <3>1. stack' \in Seq(FrameSet) /\ PathLeadsToTop'
      BY <1>1, <1>2, <2>3, PathSame DEF VisitSkip
    <3>2. FrameEdges'
      BY <1>1, <1>2, <2>3, FramesWithoutEdge DEF VisitSkip
    <3> QED
      BY <1>1, <2>3, <3>1, <3>2 DEF VisitSkip, TypeOK, LevelsBounded, loopVars
  <2> QED
    BY <2>1, <2>2, <2>3 DEF VisitEdge
<1>5. TypeOK'
  BY <1>1, <1>2, <1>4 DEF TypeOK, FrameSet
<1>6. Phases'
  BY <1>1, <1>2 DEF Phases, Searching
<1> QED
  BY <1>4, <1>5, <1>6 DEF Typed

LEMMA VisitReturnTyped ==
  ASSUME Typed, VisitReturn
  PROVE  Typed'
<1>1. on_path' \subseteq Vertices /\ visited' = visited
  BY DEF Typed, TypeOK, VisitReturn, flagVars
<1> QED
  BY <1>1, ReturnTyped DEF VisitReturn

LEMMA RelevelizeEndTyped ==
  ASSUME Typed, RelevelizeEnd
  PROVE  Typed'
<1>1. TypeOK /\ LevelsBounded /\ Phases /\ FrameEdges
  BY DEF Typed
<1>2. /\ pc = "relevelize" /\ stack = <<>> /\ pending = {} /\ levels_valid' = TRUE
      /\ relevelize_from' = {} /\ pc' = "idle"
      /\ UNCHANGED <<connected, edges, level, max_level, levelized, loop_edges, disabled_loop_edges,
                     roots, dfsVars, visited, on_path, in_degree, queue, order, pending>>
  BY DEF RelevelizeEnd, graphVars, netVars, levelVars, loopVars, flagVars, topoVars
<1>3. PathLeadsToTop' /\ FrameEdges' /\ stack' = stack /\ path' = path
  BY <1>1, <1>2, StackKept
<1>4. TypeOK'
  BY <1>1, <1>2, <1>3 DEF TypeOK
<1>5. LevelsBounded' /\ Phases'
  BY <1>1, <1>2, <1>3 DEF LevelsBounded, Phases, Searching
<1> QED
  BY <1>3, <1>4, <1>5 DEF Typed

LEMMA InitTyped ==
  ASSUME Init
  PROVE  Typed
<1>1. TypeOK
  <2>1. connected \subseteq NetPins /\ edges \subseteq Edges
    BY DEF Init, Edges
  <2>2. level \in [Vertices -> Nat \cup {-1}] /\ in_degree \in [Vertices -> Int]
    BY DEF Init
  <2>3. stack = <<>> /\ path = <<>> /\ queue = <<>> /\ order = <<>> /\ PathLeadsToTop
    BY DEF Init, PathLeadsToTop
  <2>4. /\ stack \in Seq([vertex : Vertices, todo : SUBSET Edges]) /\ path \in Seq(Edges)
        /\ queue \in Seq(Vertices) /\ order \in Seq(Vertices)
    BY <2>3
  <2> QED
    BY <2>1, <2>2, <2>3, <2>4 DEF Init, TypeOK
<1>2. LevelsBounded /\ Phases /\ FrameEdges
  BY DEF Init, LevelsBounded, Phases, Searching, FrameEdges
<1> QED
  BY <1>1, <1>2 DEF Typed

LEMMA NextTyped ==
  ASSUME Typed, [Next]_vars
  PROVE  Typed'
<1>1. CASE EditStep
  BY <1>1, ConnectPinTyped, DisconnectPinTyped, ReplaceCellTyped, InvalidTyped DEF EditStep
<1>2. CASE FindLevelsStep
  BY <1>2, FindLevelsTyped, FindBackEdgeTyped, LeaveVertexTyped, FindUnvisitedTyped,
     FindCycleBackEdgesTyped, FindInDegreesTyped, FindTopologicalOrderTyped,
     AssignLevelsTyped, AssignLevelTyped, LevelsAssignedTyped DEF FindLevelsStep
<1>3. CASE RelevelizeStep
  BY <1>3, RelevelizeTyped, VisitFromTyped, VisitEdgeTyped, VisitReturnTyped, RelevelizeEndTyped
     DEF RelevelizeStep
<1>4. CASE UNCHANGED vars
  <2>1. UNCHANGED <<connected, edges, level, max_level, levelized, levels_valid, relevelize_from,
                    loop_edges, disabled_loop_edges, roots, dfsVars, visited, on_path,
                    in_degree, queue, order, pending, pc>>
    BY <1>4 DEF vars, graphVars, netVars, levelVars, validVars, loopVars, flagVars, topoVars
  <2>2. TypeOK /\ LevelsBounded /\ Phases /\ FrameEdges
    BY DEF Typed
  <2>3. PathLeadsToTop' /\ FrameEdges' /\ stack' = stack /\ path' = path
    BY <2>1, <2>2, StackKept
  <2>4. TypeOK'
    BY <2>1, <2>2, <2>3 DEF TypeOK
  <2>5. LevelsBounded' /\ Phases'
    BY <2>1, <2>2, <2>3 DEF LevelsBounded, Phases, Searching
  <2> QED
    BY <2>3, <2>4, <2>5 DEF Typed
<1> QED
  BY <1>1, <1>2, <1>3, <1>4 DEF Next

THEOREM Types == Spec => [](TypeOK /\ LevelsBounded)
<1>1. Init => Typed
  BY InitTyped
<1>2. Typed /\ [Next]_vars => Typed'
  BY NextTyped
<1>3. Typed => TypeOK /\ LevelsBounded
  BY DEF Typed
<1> QED
  BY <1>1, <1>2, <1>3, PTL DEF Spec

-----------------------------------------------------------------------------
(* The depth first search.                                                 *)

SearchInv == Marks /\ PathFromRoot /\ Explored /\ Ranked /\ Unvisited

LEMMA SearchElsewhere ==
  ASSUME ~Searching'
  PROVE  SearchInv'
BY DEF Searching, SearchInv, Marks, PathFromRoot, Explored, Ranked, Unvisited

LEMMA FindLevelsSearch ==
  ASSUME Typed, FindLevels
  PROVE  SearchInv'
<1> DEFINE found == {v \in Vertices : ~\E e \in edges : e[2] = v}
           fanout_roots == {v \in found : OutEdges(v) # {}}
<1>1. TypeOK
  BY DEF Typed
<1>2. /\ disabled_loop_edges' = {} /\ edges' = edges /\ path' = <<>> /\ pc' = "back_edges"
      /\ visited' = fanout_roots /\ on_path' = fanout_roots
  BY DEF FindLevels, netVars
<1>3. PICK sorted \in SetToSeqs(fanout_roots) :
        stack' = [i \in DOMAIN sorted |-> Frame(sorted[i])]
  BY DEF FindLevels
<1>4. /\ fanout_roots \subseteq Vertices /\ IsFiniteSet(fanout_roots)
      /\ \A v \in fanout_roots : \A e \in edges : e[2] # v
  <2>1. fanout_roots \subseteq Vertices
    OBVIOUS
  <2>2. \A v \in fanout_roots : \A e \in edges : e[2] # v
    OBVIOUS
  <2> QED
    BY <2>1, <2>2, FiniteEdges
<1> HIDE DEF fanout_roots, found
<1>5. /\ sorted \in Seq(fanout_roots) /\ Range(sorted) = fanout_roots
      /\ \A i, k \in DOMAIN sorted : sorted[i] = sorted[k] => i = k
  BY <1>3, <1>4, SeqOfSet
<1>6. \A v \in fanout_roots : Frame(v).vertex = v /\ Frame(v).todo = OutEdges(v)
  BY <1>1, <1>4, FrameOfVertex
<1>7. DOMAIN stack' = DOMAIN sorted /\ Len(stack') = Len(sorted) /\ Len(sorted) \in Nat
      /\ DOMAIN sorted = 1..Len(sorted)
  <2>1. Len(sorted) \in Nat /\ DOMAIN sorted = 1..Len(sorted)
    BY <1>5
  <2>2. DOMAIN stack' = 1..Len(sorted)
    BY <1>3, <2>1
  <2>3. stack' \in Seq(FrameSet)
    BY FindLevelsTyped DEF Typed, TypeOK, FrameSet
  <2>4. DOMAIN stack' = 1..Len(stack') /\ Len(stack') \in Nat
    BY <2>3
  <2> QED
    BY <2>1, <2>2, <2>4
<1>8. \A i \in DOMAIN sorted :
        /\ sorted[i] \in fanout_roots
        /\ stack'[i].vertex = sorted[i] /\ stack'[i].todo = OutEdges(sorted[i])
  <2>1. \A i \in DOMAIN sorted : sorted[i] \in fanout_roots
    BY <1>5, <1>7
  <2> QED
    BY <1>3, <1>6, <2>1
<1>9. Marks'
  <2>1. {stack'[i].vertex : i \in 1..Len(stack')} = fanout_roots
    BY <1>5, <1>7, <1>8 DEF Range
  <2>2. \A i, k \in 1..Len(stack') : stack'[i].vertex = stack'[k].vertex => i = k
    BY <1>5, <1>7, <1>8
  <2>3. FirstMarked' = 1
    BY <1>2 DEF FirstMarked
  <2> QED
    BY <1>2, <2>1, <2>2, <2>3 DEF Marks
<1>10. PathFromRoot'
  <2>1. Len(path') = 0 /\ DOMAIN path' = {}
    BY <1>2
  <2>2. \A i \in 1..Len(stack') : \A e \in edges' : e[2] # stack'[i].vertex
    BY <1>2, <1>4, <1>7, <1>8
  <2>3. Len(stack') - Len(path') = Len(stack')
    BY <1>7, <2>1
  <2> QED
    BY <2>1, <2>2, <2>3 DEF PathFromRoot
<1>11. Finished' = {}
  BY <1>2 DEF Finished
<1>12. Explored'
  BY <1>2, <1>7, <1>8 DEF Explored, Enabled, OutEdges
<1>13. Ranked'
  <2>1. [v \in Vertices |-> 0] \in Ranks /\ 0 \in Nat
    BY DEF Ranks
  <2> QED
    BY <1>11, <2>1 DEF Ranked
<1>14. Unvisited'
  BY <1>2 DEF Unvisited
<1> QED
  BY <1>9, <1>10, <1>12, <1>13, <1>14 DEF SearchInv

\* Ranks and what was not visited stay, where no more edges are enabled and what
\* is finished stays so.
LEMMA RankedKept ==
  ASSUME Searching, Ranked, Finished' = Finished, Enabled' \subseteq Enabled
  PROVE  Ranked'
<1>1. PICK rank \in Ranks, m \in Nat :
        \A v \in Finished : /\ rank[v] < m /\ LeadsToFinished(v)
                            /\ \A e \in Enabled : e[1] = v => rank[e[2]] < rank[v]
  BY DEF Ranked
<1>2. \A v \in Finished : LeadsToFinished(v)'
  BY <1>1 DEF LeadsToFinished
<1>3. \A v \in Finished' : /\ rank[v] < m /\ LeadsToFinished(v)'
                           /\ \A e \in Enabled' : e[1] = v => rank[e[2]] < rank[v]
  BY <1>1, <1>2
<1> QED
  BY <1>3 DEF Ranked

LEMMA UnvisitedKept ==
  ASSUME Unvisited, pc' = pc, pending' = pending, visited \subseteq visited',
         Finished \subseteq Finished', Enabled' \subseteq Enabled,
         stack # <<>>, stack' # <<>>, stack'[1].vertex = stack[1].vertex
  PROVE  Unvisited'
<1>1. ASSUME pc' = "cycles", NEW v \in Vertices \ visited'
      PROVE  v \in pending' \/ v = stack'[1].vertex \/ LeadsToFinished(v)'
  <2>1. v \in pending \/ v = stack[1].vertex \/ LeadsToFinished(v)
    BY <1>1 DEF Unvisited
  <2>2. LeadsToFinished(v) => LeadsToFinished(v)'
    BY DEF LeadsToFinished
  <2> QED
    BY <2>1, <2>2
<1> QED
  BY <1>1 DEF Unvisited

\* A step from a vertex to one that was not visited.
LEMMA DescendSearch ==
  ASSUME Typed, SearchInv, NEW e \in edges, FindBackEdge(e), Descend(e)
  PROVE  SearchInv'
<1>1. TypeOK /\ FrameEdges /\ Marks /\ PathFromRoot /\ Explored /\ Ranked /\ Unvisited
  BY DEF Typed, SearchInv
<1>2. /\ Searching /\ pc' = pc /\ NextEdge(e) /\ e \in Enabled /\ e[2] \notin visited
      /\ visited' = visited \cup {e[2]} /\ on_path' = on_path \cup {e[2]}
      /\ path' = Append(path, e) /\ stack' = Append(WithoutEdge(e), Frame(e[2]))
      /\ UNCHANGED <<edges, disabled_loop_edges, pending>>
  BY DEF FindBackEdge, Descend, Searching, graphVars, netVars, loopVars
<1>3. Enabled' = Enabled /\ OutEdges(e[2])' = OutEdges(e[2]) /\ Searching'
  BY <1>2 DEF Enabled, OutEdges, Searching
<1>4. /\ stack \in Seq(FrameSet) /\ stack # <<>> /\ e[1] = stack[Len(stack)].vertex
      /\ e[2] \in Vertices /\ e \in Edges
  BY <1>1, <1>2, TopEdge
<1>5. PICK n : n = Len(stack)
  OBVIOUS
<1>6. n \in Nat /\ n >= 1 /\ DOMAIN stack = 1..n
  BY <1>4, <1>5, StackTop
<1>7. /\ Frame(e[2]) \in FrameSet /\ Frame(e[2]).vertex = e[2] /\ Frame(e[2]).todo = OutEdges(e[2])
      /\ \A i \in DOMAIN stack : stack'[i] = WithoutEdge(e)[i]
  BY <1>1, <1>2, FramesPush
<1>8. /\ Len(stack') = n + 1 /\ DOMAIN stack' = 1..(n + 1)
      /\ \A i \in 1..n : stack'[i].vertex = stack[i].vertex
      /\ stack'[n + 1] = Frame(e[2])
  BY <1>1, <1>2, <1>5, <1>6, <1>7, PathPush
<1>9. /\ \A i \in 1..n : i # n => stack'[i].todo = stack[i].todo
      /\ stack'[n].todo = stack[n].todo \ {e}
  <2>1. /\ \A i \in DOMAIN stack : i # n => WithoutEdge(e)[i] = stack[i]
        /\ WithoutEdge(e)[n].todo = Top.todo \ {e}
    BY <1>2, <1>4, <1>5, StackWithoutEdge
  <2>2. Top = stack[n]
    BY <1>4, <1>5, StackTop
  <2> QED
    BY <1>6, <1>7, <2>1, <2>2
<1>10. Finished' = Finished
  BY <1>2 DEF Finished
<1>11. Marks'
  <2>1. FirstMarked' = FirstMarked /\ FirstMarked \in 1..2 /\ FirstMarked <= n + 1 /\ FirstMarked \in Nat
    BY <1>2, <1>6 DEF FirstMarked
  <2>2. PICK fm : fm = FirstMarked
    OBVIOUS
  <2>3. /\ on_path \subseteq visited /\ on_path = {stack[i].vertex : i \in fm..n}
        /\ \A i, k \in fm..n : stack[i].vertex = stack[k].vertex => i = k
    BY <1>1, <1>2, <1>5, <2>2 DEF Marks
  <2>4. \A i : i \in fm..(n + 1) <=> i \in fm..n \/ i = n + 1
    BY <1>6, <2>1, <2>2
  <2>5. \A i \in fm..n : i \in 1..n /\ stack'[i].vertex = stack[i].vertex /\ stack'[i].vertex # e[2]
    <3>1. \A i \in fm..n : i \in 1..n
      BY <1>6, <2>1, <2>2
    <3>2. \A i \in fm..n : stack[i].vertex \in on_path
      BY <2>3
    <3> QED
      BY <1>2, <1>8, <2>3, <3>1, <3>2
  <2>6. on_path' = {stack'[i].vertex : i \in fm..(n + 1)}
    BY <1>2, <1>7, <1>8, <2>3, <2>4, <2>5
  <2>7. \A i, k \in fm..(n + 1) : stack'[i].vertex = stack'[k].vertex => i = k
    BY <1>7, <1>8, <2>3, <2>4, <2>5
  <2>8. on_path' \subseteq visited'
    BY <1>2, <2>3
  <2> QED
    BY <1>8, <2>1, <2>2, <2>6, <2>7, <2>8 DEF Marks
<1>12. PathFromRoot'
  <2>1. PICK m : m = Len(path)
    OBVIOUS
  <2>2. /\ path \in Seq(Edges) /\ m \in Nat /\ DOMAIN path = 1..m /\ Len(path') = m + 1
        /\ DOMAIN path' = 1..(m + 1) /\ path'[m + 1] = e /\ \A i \in 1..m : path'[i] = path[i]
    BY <1>1, <1>2, <1>4, <2>1, PushSeq DEF TypeOK
  <2>3. Len(stack') - Len(path') = n - m
    BY <1>6, <1>8, <2>2
  <2>4. \A i \in 1..(m + 1) : i \in 1..m \/ i = m + 1
    BY <2>2
  <2>5. \A i \in 1..(n - m) : i \in 1..n
    BY <1>6, <2>2
  <2>6. ASSUME pc' = "back_edges"
        PROVE  /\ \A i \in 1..(n - m) : \A x \in edges' : x[2] # stack'[i].vertex
               /\ \A i \in 1..(m + 1) : path'[i] \in Enabled'
    <3>1. /\ \A i \in 1..(n - m) : \A x \in edges : x[2] # stack[i].vertex
          /\ \A i \in 1..m : path[i] \in Enabled
      BY <1>1, <1>2, <1>5, <2>1, <2>2, <2>6 DEF PathFromRoot
    <3>2. \A i \in 1..(n - m) : \A x \in edges' : x[2] # stack'[i].vertex
      BY <1>2, <1>8, <2>5, <3>1
    <3>3. \A i \in 1..(m + 1) : path'[i] \in Enabled'
      BY <1>2, <1>3, <2>2, <2>4, <3>1
    <3> QED
      BY <3>2, <3>3
  <2> QED
    BY <2>2, <2>3, <2>6 DEF PathFromRoot
<1>13. Explored'
  <2>1. ASSUME NEW i \in 1..(n + 1), NEW x \in Enabled, x[1] = stack'[i].vertex, x \notin stack'[i].todo
        PROVE  x[2] \in Finished \/ (i < n + 1 /\ x[2] = stack'[i + 1].vertex)
    <3>1. CASE i = n + 1
      <4>1. x \in OutEdges(e[2])
        BY <1>7, <1>8, <2>1, <3>1 DEF OutEdges, Enabled
      <4> QED
        BY <1>7, <1>8, <2>1, <3>1, <4>1
    <3>2. CASE i = n
      <4>1. i < n + 1 /\ i \in DOMAIN stack /\ ~(i < Len(stack))
        BY <1>5, <1>6, <3>2
      <4>2. CASE x = e
        BY <1>7, <1>8, <3>2, <4>1, <4>2
      <4>3. CASE x # e
        BY <1>1, <1>2, <1>6, <1>8, <1>9, <2>1, <3>2, <4>1, <4>3 DEF Explored
      <4> QED
        BY <4>2, <4>3
    <3>3. CASE i \in 1..n /\ i # n
      <4>1. i < n /\ i < n + 1 /\ i + 1 \in 1..n /\ i \in DOMAIN stack
        BY <1>6, <3>3
      <4>2. x[2] \in Finished \/ (i < n /\ x[2] = stack[i + 1].vertex)
        BY <1>1, <1>2, <1>5, <1>8, <1>9, <2>1, <3>3, <4>1 DEF Explored
      <4> QED
        BY <1>8, <4>1, <4>2
    <3>4. i = n + 1 \/ i \in 1..n
      BY <1>6
    <3> QED
      BY <3>1, <3>2, <3>3, <3>4
  <2> QED
    BY <1>3, <1>8, <1>10, <2>1 DEF Explored
<1>14. Ranked'
  BY <1>1, <1>2, <1>3, <1>10, RankedKept
<1>15. Unvisited'
  <2>1. stack' # <<>> /\ stack'[1].vertex = stack[1].vertex
    <3>1. 1 \in 1..n /\ Len(stack') # 0
      BY <1>6, <1>8
    <3> QED
      BY <1>8, <3>1
  <2> QED
    BY <1>1, <1>2, <1>3, <1>4, <1>10, <2>1, UnvisitedKept
<1> QED
  BY <1>11, <1>12, <1>13, <1>14, <1>15 DEF SearchInv

\* The frames on the path, from the root at its start.
LEMMA PathFrame ==
  ASSUME Typed, Marks, pc = "back_edges", stack # <<>>, NEW j \in DOMAIN path
  PROVE  /\ Len(stack) - Len(path) - 1 + j \in DOMAIN stack
         /\ Len(stack) - Len(path) + j \in DOMAIN stack
         /\ path[j][1] = stack[Len(stack) - Len(path) - 1 + j].vertex
         /\ path[j][2] = stack[Len(stack) - Len(path) + j].vertex
         /\ path[j][1] # Top.vertex
<1>1. TypeOK /\ stack \in Seq(FrameSet) /\ path \in Seq(Edges)
  BY DEF Typed, TypeOK, FrameSet
<1>2. PICK n, m : n = Len(stack) /\ m = Len(path)
  OBVIOUS
<1>3. n \in Nat /\ n >= 1 /\ DOMAIN stack = 1..n /\ Top = stack[n]
  BY <1>1, <1>2, StackTop
<1>4. m \in Nat /\ j \in 1..m
  BY <1>1, <1>2
<1>5. /\ n - m - 1 >= 0
      /\ path[j] = <<stack[n - m - 1 + j].vertex, stack[n - m - 1 + j + 1].vertex>>
  BY <1>1, <1>2 DEF TypeOK, PathLeadsToTop
<1>6. n - m - 1 + j \in 1..n /\ n - m + j \in 1..n /\ n - m - 1 + j + 1 = n - m + j
      /\ n - m - 1 + j # n /\ n \in 1..n
  BY <1>3, <1>4, <1>5
<1>7. path[j] = <<stack[n - m - 1 + j].vertex, stack[n - m + j].vertex>>
  BY <1>5, <1>6
<1>8. path[j][1] = stack[n - m - 1 + j].vertex /\ path[j][2] = stack[n - m + j].vertex
  BY <1>7
<1>9. \A i, k \in 1..n : stack[i].vertex = stack[k].vertex => i = k
  BY <1>2 DEF Marks, Searching, FirstMarked
<1>10. path[j][1] # Top.vertex
  BY <1>3, <1>6, <1>8, <1>9
<1> QED
  BY <1>2, <1>3, <1>6, <1>8, <1>10

\* An edge of the vertex on top is done with: disabled, or leading to what is finished.
LEMMA EdgeDoneSearch ==
  ASSUME Typed, SearchInv, Searching, NEW e, NextEdge(e), stack' = WithoutEdge(e),
         UNCHANGED <<edges, path, visited, on_path, pending, pc>>,
         Enabled' \subseteq Enabled, Enabled \ {e} \subseteq Enabled',
         e \notin Enabled' \/ e[2] \in Finished
  PROVE  SearchInv'
<1>1. TypeOK /\ FrameEdges /\ Marks /\ PathFromRoot /\ Explored /\ Ranked /\ Unvisited
  BY DEF Typed, SearchInv
<1>2. stack \in Seq(FrameSet) /\ stack # <<>> /\ e[1] = Top.vertex
  BY <1>1, TopEdge
<1>3. PICK n : n = Len(stack)
  OBVIOUS
<1>4. n \in Nat /\ n >= 1 /\ DOMAIN stack = 1..n /\ Top = stack[n]
  BY <1>2, <1>3, StackTop
<1>5. /\ Len(stack') = n /\ DOMAIN stack' = 1..n
      /\ \A i \in 1..n : stack'[i].vertex = stack[i].vertex
  BY <1>1, <1>3, <1>4, PathSame
<1>6. /\ \A i \in 1..n : i # n => stack'[i].todo = stack[i].todo
      /\ stack'[n].todo = stack[n].todo \ {e}
  BY <1>2, <1>3, <1>4, StackWithoutEdge
<1>7. Finished' = Finished /\ FirstMarked' = FirstMarked
  BY DEF Finished, FirstMarked
<1>8. Marks'
  <2>1. FirstMarked \in Nat /\ FirstMarked >= 1
    BY DEF FirstMarked
  <2>2. PICK fm : fm = FirstMarked
    OBVIOUS
  <2>3. /\ on_path \subseteq visited /\ on_path = {stack[i].vertex : i \in fm..n}
        /\ \A i, k \in fm..n : stack[i].vertex = stack[k].vertex => i = k
    BY <1>1, <1>3, <2>2 DEF Marks
  <2>4. \A i \in fm..n : i \in 1..n /\ stack'[i].vertex = stack[i].vertex
    BY <1>4, <1>5, <2>1, <2>2
  <2>5. on_path' = {stack'[i].vertex : i \in fm..n}
    BY <2>3, <2>4
  <2>6. \A i, k \in fm..n : stack'[i].vertex = stack'[k].vertex => i = k
    BY <2>3, <2>4
  <2> QED
    BY <1>5, <1>7, <2>2, <2>3, <2>5, <2>6 DEF Marks
<1>9. PathFromRoot'
  <2>1. ASSUME pc = "back_edges", NEW i \in 1..(n - Len(path))
        PROVE  \A x \in edges : x[2] # stack'[i].vertex
    <3>1. Len(path) \in Nat
      BY <1>1 DEF TypeOK
    <3>2. i \in 1..n
      BY <1>4, <3>1
    <3> QED
      BY <1>1, <1>3, <1>5, <2>1, <3>2 DEF PathFromRoot
  <2>2. ASSUME pc = "back_edges", NEW j \in DOMAIN path
        PROVE  path[j] \in Enabled'
    <3>1. path[j] \in Enabled
      BY <1>1, <2>2 DEF PathFromRoot
    <3>2. path[j] # e
      BY <1>1, <1>2, <2>2, PathFrame
    <3> QED
      BY <3>1, <3>2
  <2> QED
    BY <1>5, <2>1, <2>2 DEF PathFromRoot
<1>10. Explored'
  <2>1. ASSUME NEW i \in 1..n, NEW x \in Enabled', x[1] = stack'[i].vertex, x \notin stack'[i].todo
        PROVE  x[2] \in Finished \/ (i < n /\ x[2] = stack'[i + 1].vertex)
    <3>1. CASE x = e
      BY <2>1, <3>1
    <3>2. CASE x # e
      <4>1. x \in Enabled /\ x[1] = stack[i].vertex /\ x \notin stack[i].todo
        BY <1>4, <1>5, <1>6, <2>1, <3>2
      <4>2. x[2] \in Finished \/ (i < n /\ x[2] = stack[i + 1].vertex)
        BY <1>1, <1>3, <1>4, <4>1 DEF Explored
      <4>3. i < n => i + 1 \in 1..n
        BY <1>4
      <4> QED
        BY <1>5, <4>2, <4>3
    <3> QED
      BY <3>1, <3>2
  <2> QED
    BY <1>5, <1>7, <2>1 DEF Explored
<1>11. Ranked'
  BY <1>1, <1>7, RankedKept
<1>12. Unvisited'
  <2>1. stack' # <<>> /\ stack'[1].vertex = stack[1].vertex
    <3>1. 1 \in 1..n /\ Len(stack') # 0
      BY <1>4, <1>5
    <3> QED
      BY <1>5, <3>1
  <2> QED
    BY <1>1, <1>2, <1>7, <2>1, UnvisitedKept
<1> QED
  BY <1>8, <1>9, <1>10, <1>11, <1>12 DEF SearchInv

LEMMA FindBackEdgeSearch ==
  ASSUME Typed, SearchInv, NEW e \in edges, FindBackEdge(e)
  PROVE  SearchInv'
<1>1. Searching /\ NextEdge(e) /\ UNCHANGED <<edges, pending, pc>>
  BY DEF FindBackEdge, Searching, graphVars, netVars
<1>2. CASE Descend(e)
  BY <1>2, DescendSearch
<1>3. CASE BackEdge(e)
  BY <1>1, <1>3, EdgeDoneSearch DEF BackEdge, RecordLoop, flagVars, Enabled
<1>4. CASE SkipEdge(e)
  BY <1>1, <1>4, EdgeDoneSearch DEF SkipEdge, flagVars, loopVars, Enabled, Finished
<1> QED
  BY <1>2, <1>3, <1>4 DEF FindBackEdge

\* A vertex is left: what it leads to is finished, and now so is it.
LEMMA LeaveVertexSearch ==
  ASSUME Typed, SearchInv, LeaveVertex
  PROVE  SearchInv'
<1>1. TypeOK /\ FrameEdges /\ Marks /\ PathFromRoot /\ Explored /\ Ranked /\ Unvisited
  BY DEF Typed, SearchInv
<1>2. /\ Searching /\ pc' = pc /\ stack # <<>> /\ Top.todo = {} /\ stack' = Front(stack)
      /\ path' = PathAfterPop
      /\ UNCHANGED <<edges, visited, disabled_loop_edges, pending>>
  BY DEF LeaveVertex, Searching, graphVars, netVars, loopVars
<1>3. stack \in Seq(FrameSet) /\ path \in Seq(Edges)
  BY <1>1 DEF TypeOK, FrameSet
<1>4. PICK n, t : n = Len(stack) /\ t = Top.vertex
  OBVIOUS
<1>5. n \in Nat /\ n >= 1 /\ DOMAIN stack = 1..n /\ Top = stack[n] /\ t = stack[n].vertex /\ t \in Vertices
  BY <1>2, <1>3, <1>4, StackTop
<1>6. /\ Len(stack') = n - 1 /\ DOMAIN stack' = 1..(n - 1)
      /\ \A i \in 1..(n - 1) : stack'[i] = stack[i]
  BY <1>1, <1>2, <1>4, PathPop
<1>7. on_path' = on_path \ {t}
  BY <1>4 DEF LeaveVertex
<1>8. Finished \subseteq Finished' /\ Finished' \subseteq Finished \cup {t}
      /\ (t \in visited => t \in Finished')
  BY <1>2, <1>7 DEF Finished
<1>9. Enabled' = Enabled
  BY <1>2 DEF Enabled
<1>10. \A e \in Enabled : e[1] = t => e[2] \in Finished
  BY <1>1, <1>2, <1>4, <1>5 DEF Explored
<1>11. PICK fm : fm = FirstMarked
  OBVIOUS
<1>12. fm \in 1..2 /\ FirstMarked' = fm
  BY <1>2, <1>11 DEF FirstMarked
<1>13. /\ on_path \subseteq visited /\ on_path = {stack[i].vertex : i \in fm..n}
       /\ \A i, k \in fm..n : stack[i].vertex = stack[k].vertex => i = k
  BY <1>1, <1>2, <1>4, <1>11 DEF Marks
<1>14. Marks'
  <2>1. \A i \in fm..(n - 1) : /\ i \in fm..n /\ i # n /\ n \in fm..n
                               /\ stack'[i] = stack[i]
    BY <1>5, <1>6, <1>12
  <2>2. \A i \in fm..n : i \in fm..(n - 1) \/ i = n
    BY <1>5, <1>12
  <2>3. on_path' = {stack'[i].vertex : i \in fm..(n - 1)}
    <3>1. ASSUME NEW x \in on_path' PROVE x \in {stack'[i].vertex : i \in fm..(n - 1)}
      <4>1. PICK i \in fm..n : x = stack[i].vertex
        BY <1>7, <1>13
      <4>2. i # n
        BY <1>5, <1>7, <4>1
      <4> QED
        BY <2>1, <2>2, <4>1, <4>2
    <3>2. ASSUME NEW i \in fm..(n - 1) PROVE stack'[i].vertex \in on_path'
      BY <1>5, <1>7, <1>13, <2>1
    <3> QED
      BY <3>1, <3>2
  <2>4. \A i, k \in fm..(n - 1) : stack'[i].vertex = stack'[k].vertex => i = k
    BY <1>13, <2>1
  <2>5. on_path' \subseteq visited'
    BY <1>2, <1>7, <1>13
  <2> QED
    BY <1>6, <1>12, <2>3, <2>4, <2>5 DEF Marks
<1>15. PathFromRoot'
  <2>1. PICK m : m = Len(path)
    OBVIOUS
  <2>2. m \in Nat /\ DOMAIN path = 1..m
    BY <1>3, <2>1
  <2>3. /\ Len(path') \in Nat /\ n - 1 - Len(path') <= n - m /\ n - 1 - Len(path') <= n - 1
        /\ \A j \in DOMAIN path' : j \in DOMAIN path /\ path'[j] = path[j]
    <3>1. CASE path = <<>>
      BY <1>2, <1>5, <2>1, <3>1 DEF PathAfterPop
    <3>2. CASE path # <<>>
      <4>1. /\ Len(path') = m - 1 /\ DOMAIN path' = 1..(m - 1)
            /\ \A j \in 1..(m - 1) : path'[j] = path[j]
        BY <1>2, <1>3, <2>1, <3>2, FrontSeq DEF PathAfterPop
      <4>2. m >= 1
        BY <1>3, <2>1, <2>2, <3>2, EmptySeq
      <4> QED
        BY <1>5, <2>2, <4>1, <4>2
    <3> QED
      BY <3>1, <3>2
  <2>4. \A i \in 1..(n - 1 - Len(path')) : i \in 1..(n - m) /\ i \in 1..(n - 1)
    BY <1>5, <2>2, <2>3
  <2>5. ASSUME pc = "back_edges"
        PROVE  /\ \A i \in 1..(n - 1 - Len(path')) : \A x \in edges : x[2] # stack'[i].vertex
               /\ \A j \in DOMAIN path' : path'[j] \in Enabled
    BY <1>1, <1>4, <1>6, <2>1, <2>3, <2>4, <2>5 DEF PathFromRoot
  <2> QED
    BY <1>2, <1>6, <1>9, <2>5 DEF PathFromRoot
<1>16. Explored'
  <2>1. ASSUME NEW i \in 1..(n - 1), NEW x \in Enabled, x[1] = stack[i].vertex, x \notin stack[i].todo
        PROVE  x[2] \in Finished' \/ (i < n - 1 /\ x[2] = stack'[i + 1].vertex)
    <3>1. i \in 1..n /\ i < n
      BY <1>5
    <3>2. CASE x[2] \in Finished
      BY <1>8, <3>2
    <3>3. CASE x[2] = stack[i + 1].vertex /\ i + 1 = n
      <4>1. n \in fm..n
        BY <1>5, <1>12, <3>1, <3>3
      <4>2. t \in visited
        BY <1>5, <1>13, <4>1
      <4> QED
        BY <1>5, <1>8, <3>3, <4>2
    <3>4. CASE x[2] = stack[i + 1].vertex /\ i + 1 # n
      <4>1. i < n - 1 /\ i + 1 \in 1..(n - 1)
        BY <1>5, <3>1, <3>4
      <4> QED
        BY <1>6, <3>4, <4>1
    <3> QED
      BY <1>1, <1>2, <1>4, <1>5, <2>1, <3>1, <3>2, <3>3, <3>4 DEF Explored
  <2> QED
    BY <1>6, <1>9, <2>1 DEF Explored
<1>17. Ranked'
  <2>1. CASE Finished' = Finished
    BY <1>1, <1>2, <1>9, <2>1, RankedKept
  <2>2. CASE Finished' # Finished
    <3>1. Finished' = Finished \cup {t} /\ t \notin Finished
      BY <1>8, <2>2
    <3>2. PICK rank \in Ranks, m \in Nat :
            \A v \in Finished : /\ rank[v] < m /\ LeadsToFinished(v)
                                /\ \A e \in Enabled : e[1] = v => rank[e[2]] < rank[v]
      BY <1>1, <1>2 DEF Ranked
    <3>3. PICK r : r = [rank EXCEPT ![t] = m]
      OBVIOUS
    <3>4. /\ r \in Ranks /\ r[t] = m /\ m + 1 \in Nat /\ m < m + 1
          /\ \A v \in Finished : r[v] = rank[v] /\ rank[v] < m + 1
      <4>1. \A v \in Finished : v \in Vertices /\ v # t
        BY <1>1, <3>1 DEF Finished, TypeOK
      <4>2. r \in Ranks /\ r[t] = m /\ \A v \in Finished : r[v] = rank[v]
        BY <1>5, <3>2, <3>3, <4>1 DEF Ranks
      <4>3. \A v \in Finished : rank[v] \in Nat
        BY <3>2, <4>1 DEF Ranks
      <4> QED
        BY <3>2, <4>2, <4>3
    <3>5. ASSUME NEW v \in Finished'
          PROVE  /\ r[v] < m + 1 /\ LeadsToFinished(v)'
                 /\ \A e \in Enabled' : e[1] = v => r[e[2]] < r[v]
      <4>1. CASE v = t
        BY <1>8, <1>9, <1>10, <3>2, <3>4, <4>1 DEF LeadsToFinished
      <4>2. CASE v \in Finished
        BY <1>8, <1>9, <3>2, <3>4, <4>2 DEF LeadsToFinished
      <4> QED
        BY <3>1, <4>1, <4>2
    <3>6. \E rk \in Ranks, k \in Nat : \A v \in Finished' :
            /\ rk[v] < k /\ LeadsToFinished(v)'
            /\ \A e \in Enabled' : e[1] = v => rk[e[2]] < rk[v]
      BY <3>4, <3>5
    <3> QED
      BY <3>6 DEF Ranked, Ranks
  <2> QED
    BY <2>1, <2>2
<1>18. Unvisited'
  <2>1. ASSUME pc' = "cycles", NEW v \in Vertices \ visited'
        PROVE  v \in pending' \/ (stack' # <<>> /\ v = stack'[1].vertex) \/ LeadsToFinished(v)'
    <3>1. v \in pending \/ v = stack[1].vertex \/ LeadsToFinished(v)
      BY <1>1, <1>2, <2>1 DEF Unvisited
    <3>2. LeadsToFinished(v) => LeadsToFinished(v)'
      BY <1>8, <1>9 DEF LeadsToFinished
    <3>3. CASE v = stack[1].vertex /\ n = 1
      BY <1>5, <1>8, <1>9, <1>10, <3>3 DEF LeadsToFinished
    <3>4. CASE v = stack[1].vertex /\ n # 1
      <4>1. 1 \in 1..(n - 1) /\ Len(stack') # 0
        BY <1>5, <1>6, <3>4
      <4> QED
        BY <1>6, <3>4, <4>1
    <3> QED
      BY <1>2, <3>1, <3>2, <3>3, <3>4
  <2> QED
    BY <2>1 DEF Unvisited
<1> QED
  BY <1>14, <1>15, <1>16, <1>17, <1>18 DEF SearchInv

LEMMA FindUnvisitedSearch ==
  ASSUME Typed, SearchInv, FindUnvisited
  PROVE  SearchInv'
<1>1. /\ pc = "back_edges" /\ pc' = "cycles" /\ stack = <<>> /\ stack' = <<>>
      /\ pending' = Vertices \ visited
      /\ UNCHANGED <<edges, visited, on_path, disabled_loop_edges>>
  BY DEF FindUnvisited, graphVars, netVars, loopVars, dfsVars, flagVars
<1>2. Marks /\ Ranked /\ Searching
  BY <1>1 DEF SearchInv, Searching
<1>3. on_path = {} /\ Len(stack') = 0 /\ DOMAIN stack' = {}
  BY <1>1, <1>2 DEF Marks, FirstMarked
<1>4. Marks'
  BY <1>1, <1>3 DEF Marks, FirstMarked
<1>5. Explored'
  BY <1>3 DEF Explored
<1>6. Ranked'
  BY <1>1, <1>2, RankedKept DEF Finished, Enabled
<1>7. PathFromRoot' /\ Unvisited'
  BY <1>1 DEF PathFromRoot, Unvisited
<1> QED
  BY <1>4, <1>5, <1>6, <1>7 DEF SearchInv

LEMMA FindCycleBackEdgesSearch ==
  ASSUME Typed, SearchInv, NEW v \in Vertices, FindCycleBackEdges(v)
  PROVE  SearchInv'
<1>1. /\ pc = "cycles" /\ pc' = "cycles" /\ stack = <<>> /\ stack' = <<Frame(v)>> /\ path' = <<>>
      /\ pending' = pending \ {v}
      /\ UNCHANGED <<edges, visited, on_path, disabled_loop_edges>>
  BY DEF FindCycleBackEdges, graphVars, netVars, loopVars, flagVars
<1>2. TypeOK /\ Marks /\ Ranked /\ Unvisited /\ Searching
  BY <1>1 DEF Typed, SearchInv, Searching
<1>3. /\ Len(stack') = 1 /\ DOMAIN stack' = {1} /\ stack'[1].vertex = v
      /\ stack'[1].todo = OutEdges(v)
  BY <1>1, <1>2, StackStarted
<1>4. on_path = {}
  BY <1>1, <1>2 DEF Marks, FirstMarked
<1>5. Marks'
  BY <1>1, <1>3, <1>4 DEF Marks, FirstMarked
<1>6. Explored'
  BY <1>1, <1>3 DEF Explored, OutEdges, Enabled
<1>7. Ranked'
  BY <1>1, <1>2, RankedKept DEF Finished, Enabled
<1>8. Unvisited'
  BY <1>1, <1>2, <1>3 DEF Unvisited, LeadsToFinished, Finished, Enabled
<1> QED
  BY <1>1, <1>5, <1>6, <1>7, <1>8 DEF SearchInv, PathFromRoot

LEMMA NextSearch ==
  ASSUME Typed, SearchInv, [Next]_vars
  PROVE  SearchInv'
<1>1. CASE EditStep
  <2>1. pc = "idle" /\ pc' = pc
    BY <1>1 DEF EditStep, ConnectPin, DisconnectPin, ReplaceCell, Invalid, Edit
  <2> QED
    BY <2>1, SearchElsewhere DEF Searching
<1>2. CASE FindLevelsStep
  <2>1. CASE \/ FindInDegrees \/ FindTopologicalOrder
             \/ AssignLevels \/ AssignLevel \/ LevelsAssigned
    <3>1. pc' \in {"topo", "assign", "idle"}
      BY <2>1 DEF FindInDegrees, FindTopologicalOrder, AssignLevels, AssignLevel, LevelsAssigned
    <3> QED
      BY <3>1, SearchElsewhere DEF Searching
  <2> QED
    BY <1>2, <2>1, FindLevelsSearch, FindBackEdgeSearch, LeaveVertexSearch, FindUnvisitedSearch,
       FindCycleBackEdgesSearch DEF FindLevelsStep
<1>3. CASE RelevelizeStep
  <2>1. pc' \in {"relevelize", "idle"}
    BY <1>3 DEF RelevelizeStep, Relevelize, VisitFrom, VisitEdge, VisitReturn, RelevelizeEnd
  <2> QED
    BY <2>1, SearchElsewhere DEF Searching
<1>4. CASE UNCHANGED vars
  <2>1. UNCHANGED <<edges, disabled_loop_edges, stack, path, visited, on_path, pending, pc>>
    BY <1>4 DEF vars, graphVars, netVars, loopVars, dfsVars, flagVars
  <2>2. Finished' = Finished /\ Enabled' = Enabled /\ FirstMarked' = FirstMarked /\ Searching' = Searching
    BY <2>1 DEF Finished, Enabled, FirstMarked, Searching
  <2>3. Marks' /\ PathFromRoot' /\ Explored'
    BY <2>1, <2>2 DEF SearchInv, Marks, PathFromRoot, Explored
  <2>4. Ranked'
    <3>1. CASE Searching
      BY <2>2, <3>1, RankedKept DEF SearchInv
    <3>2. CASE ~Searching
      BY <2>2, <3>2 DEF Ranked
    <3> QED
      BY <3>1, <3>2
  <2>5. Unvisited'
    BY <2>1, <2>2 DEF SearchInv, Unvisited, LeadsToFinished
  <2> QED
    BY <2>3, <2>4, <2>5 DEF SearchInv
<1> QED
  BY <1>1, <1>2, <1>3, <1>4 DEF Next

\* Once every vertex was visited or leads only to finished ones, no cycle is left.
LEMMA NoCycleLeft ==
  ASSUME Typed, SearchInv, FindInDegrees
  PROVE  Acyclic'
<1>1. /\ pc = "cycles" /\ Searching /\ stack = <<>> /\ pending = {}
      /\ UNCHANGED <<edges, disabled_loop_edges>>
  BY DEF FindInDegrees, Searching, graphVars, netVars, loopVars
<1>2. Marks /\ Ranked /\ Unvisited /\ TypeOK
  BY DEF Typed, SearchInv
<1>3. on_path = {} /\ Finished = visited /\ visited \subseteq Vertices
  BY <1>1, <1>2 DEF Marks, FirstMarked, Finished, TypeOK
<1>4. PICK rank \in Ranks, m \in Nat :
        \A v \in visited : /\ rank[v] < m /\ LeadsToFinished(v)
                           /\ \A e \in Enabled : e[1] = v => rank[e[2]] < rank[v]
  BY <1>1, <1>2, <1>3 DEF Ranked
<1>5. \A v \in Vertices \ visited : LeadsToFinished(v)
  BY <1>1, <1>2 DEF Unvisited
<1>6. PICK r : r = [u \in Vertices |-> IF u \in visited THEN rank[u] ELSE m]
  OBVIOUS
<1>7. r \in Ranks
  BY <1>4, <1>6 DEF Ranks
<1>8. ASSUME NEW e \in Enabled PROVE r[e[2]] < r[e[1]]
  <2>1. e[1] \in Vertices /\ e[2] \in Vertices
    BY <1>2, FiniteEdges DEF Enabled, TypeOK
  <2>2. e[2] \in visited
    BY <1>3, <1>4, <1>5, <2>1 DEF LeadsToFinished
  <2>3. CASE e[1] \in visited
    BY <1>4, <1>6, <2>1, <2>2, <2>3
  <2>4. CASE e[1] \notin visited
    BY <1>4, <1>6, <2>1, <2>2, <2>4
  <2> QED
    BY <2>3, <2>4
<1>9. Enabled' = Enabled
  BY <1>1 DEF Enabled
<1> QED
  BY <1>7, <1>8, <1>9 DEF Acyclic, Ranks

LEMMA LoopsStayBroken ==
  ASSUME Typed, SearchInv, LoopsBroken, [Next]_vars
  PROVE  LoopsBroken'
<1>1. CASE FindInDegrees
  BY <1>1, NoCycleLeft DEF LoopsBroken
<1>2. CASE FindTopologicalOrder \/ AssignLevels \/ AssignLevel \/ UNCHANGED vars
  <2>1. UNCHANGED <<edges, disabled_loop_edges>> /\ (pc' \in {"topo", "assign"} => pc \in {"topo", "assign"})
    BY <1>2 DEF FindTopologicalOrder, AssignLevels, AssignLevel, vars, graphVars, netVars, loopVars
  <2>2. Enabled' = Enabled
    BY <2>1 DEF Enabled
  <2> QED
    BY <2>1, <2>2 DEF LoopsBroken, Acyclic, Ranks
<1>3. CASE EditStep \/ RelevelizeStep
  <2>1. pc' \in {"idle", "relevelize"}
    BY <1>3 DEF EditStep, ConnectPin, DisconnectPin, ReplaceCell, Invalid, Edit,
                RelevelizeStep, Relevelize, VisitFrom, VisitEdge, VisitReturn, RelevelizeEnd
  <2> QED
    BY <2>1 DEF LoopsBroken
<1>4. CASE \/ FindLevels \/ LeaveVertex \/ FindUnvisited \/ LevelsAssigned
           \/ \E e \in edges : FindBackEdge(e)
           \/ \E v \in Vertices : FindCycleBackEdges(v)
  <2>1. pc' \notin {"topo", "assign"}
    BY <1>4 DEF FindLevels, LeaveVertex, FindUnvisited, LevelsAssigned, FindBackEdge, FindCycleBackEdges
  <2> QED
    BY <2>1 DEF LoopsBroken
<1> QED
  BY <1>1, <1>2, <1>3, <1>4 DEF Next, FindLevelsStep

-----------------------------------------------------------------------------
(* The roots.                                                              *)

\* An edge that closes a loop on the path from a root leads to a vertex that the
\* path leads to over another edge; the other loops give a root.
LEMMA BackEdgeRoots ==
  ASSUME Typed, SearchInv, RootsFound, NEW e \in edges, FindBackEdge(e), BackEdge(e)
  PROVE  RootsFound'
<1>1. TypeOK /\ FrameEdges /\ Marks /\ PathFromRoot
  BY DEF Typed, SearchInv
<1>2. /\ Searching /\ pc' = pc /\ NextEdge(e) /\ e \in Enabled /\ e[2] \in on_path
      /\ disabled_loop_edges' = disabled_loop_edges \cup {e} /\ edges' = edges
      /\ roots' = IF pc = "cycles" THEN roots \cup {e[2]} ELSE roots
  BY DEF FindBackEdge, BackEdge, RecordLoop, Searching, graphVars, netVars
<1>3. {v \in Vertices : IsRoot(v)} \subseteq roots
  BY <1>2 DEF RootsFound, FindingLevels
<1>4. Enabled' = Enabled \ {e}
  BY <1>2 DEF Enabled
<1>5. \A v \in Vertices : v # e[2] /\ IsRoot(v)' => IsRoot(v)
  BY <1>4 DEF IsRoot
<1>6. pc = "back_edges" => \E x \in Enabled' : x[2] = e[2]
  <2> SUFFICES ASSUME pc = "back_edges" PROVE \E x \in Enabled' : x[2] = e[2]
    OBVIOUS
  <2>1. stack \in Seq(FrameSet) /\ stack # <<>> /\ e[1] = Top.vertex
    BY <1>1, <1>2, TopEdge
  <2>2. PICK n, m : n = Len(stack) /\ m = Len(path)
    OBVIOUS
  <2>3. n \in Nat /\ m \in Nat /\ DOMAIN path = 1..m
    BY <1>1, <2>1, <2>2 DEF TypeOK
  <2>4. PICK i \in 1..n : e[2] = stack[i].vertex
    BY <1>1, <1>2, <2>2 DEF Marks, FirstMarked
  <2>5. i \notin 1..(n - m)
    BY <1>1, <2>2, <2>4 DEF PathFromRoot
  <2>6. PICK j : j = i - (n - m)
    OBVIOUS
  <2>7. j \in DOMAIN path /\ n - m + j = i
    <3>1. n - m - 1 >= 0
      BY <1>1, <2>1, <2>2 DEF TypeOK, PathLeadsToTop
    <3> QED
      BY <2>3, <2>5, <2>6, <3>1
  <2>8. path[j][2] = stack[n - m + j].vertex /\ path[j][1] # e[1]
    BY <1>1, <2>1, <2>2, <2>7, PathFrame
  <2>9. path[j] \in Enabled /\ path[j] # e /\ path[j][2] = e[2]
    BY <1>1, <2>4, <2>7, <2>8 DEF PathFromRoot
  <2> QED
    BY <1>4, <2>9
<1>7. {v \in Vertices : IsRoot(v)'} \subseteq roots'
  <2>1. CASE pc = "cycles"
    BY <1>2, <1>3, <1>5, <2>1
  <2>2. CASE pc = "back_edges"
    <3>1. ~IsRoot(e[2])'
      BY <1>6, <2>2 DEF IsRoot
    <3> QED
      BY <1>2, <1>3, <1>5, <2>2, <3>1
  <2> QED
    BY <1>2, <2>1, <2>2 DEF Searching
<1> QED
  BY <1>7 DEF RootsFound

LEMMA RootsStayFound ==
  ASSUME Typed, SearchInv, RootsFound, [Next]_vars
  PROVE  RootsFound'
<1>1. CASE FindLevels
  <2>1. edges' = edges /\ disabled_loop_edges' = {} /\ roots' = {v \in Vertices : ~\E e \in edges : e[2] = v}
    BY <1>1 DEF FindLevels, netVars
  <2>2. Enabled' = edges
    BY <2>1 DEF Enabled
  <2> QED
    BY <2>1, <2>2 DEF RootsFound, IsRoot
<1>2. ASSUME NEW e \in edges, FindBackEdge(e) PROVE RootsFound'
  <2>1. CASE BackEdge(e)
    BY <1>2, <2>1, BackEdgeRoots
  <2>2. CASE Descend(e) \/ SkipEdge(e)
    <3>1. UNCHANGED <<edges, disabled_loop_edges, roots>> /\ pc' = pc
      BY <1>2, <2>2 DEF FindBackEdge, Descend, SkipEdge, graphVars, netVars, loopVars
    <3> QED
      BY <3>1 DEF RootsFound, FindingLevels, Searching, IsRoot, Enabled
  <2> QED
    BY <1>2, <2>1, <2>2 DEF FindBackEdge
<1>3. CASE \/ LeaveVertex \/ FindUnvisited \/ FindInDegrees \/ FindTopologicalOrder
           \/ AssignLevels \/ AssignLevel \/ UNCHANGED vars
           \/ \E v \in Vertices : FindCycleBackEdges(v)
  <2>1. UNCHANGED <<edges, disabled_loop_edges, roots>> /\ (FindingLevels' => FindingLevels)
    BY <1>3 DEF LeaveVertex, FindUnvisited, FindInDegrees, FindTopologicalOrder, AssignLevels,
                AssignLevel, FindCycleBackEdges, vars, graphVars, netVars, loopVars,
                FindingLevels, Searching
  <2> QED
    BY <2>1 DEF RootsFound, IsRoot, Enabled
<1>4. CASE EditStep \/ RelevelizeStep \/ LevelsAssigned
  <2>1. pc' \in {"idle", "relevelize"}
    BY <1>4 DEF EditStep, ConnectPin, DisconnectPin, ReplaceCell, Invalid, Edit, LevelsAssigned,
                RelevelizeStep, Relevelize, VisitFrom, VisitEdge, VisitReturn, RelevelizeEnd
  <2> QED
    BY <2>1 DEF RootsFound, FindingLevels, Searching
<1> QED
  BY <1>1, <1>2, <1>3, <1>4 DEF Next, FindLevelsStep

\* While no loop edge is deleted, every deleted edge is one that levelization sees.
LEMMA AllDeletedSeen ==
  ASSUME NEW deleted \in Seq(Edges), DeleteEdges(deleted), levelized'
  PROVE  /\ levelized /\ relevelize_from' = relevelize_from \cup {e[2] : e \in Range(deleted)}
         /\ disabled_loop_edges' = disabled_loop_edges
         /\ Range(deleted) \cap loop_edges = {}
<1>1. PICK seen : seen = WhileLevelized(deleted)
  OBVIOUS
<1>2. /\ levelized /\ LoopEdgesOf(seen) = {}
      /\ relevelize_from' = relevelize_from \cup {e[2] : e \in seen}
      /\ disabled_loop_edges' = disabled_loop_edges \ LoopEdgesOf(seen)
  BY <1>1 DEF DeleteEdges
<1>3. DOMAIN deleted = 1..Len(deleted) /\ Len(deleted) \in Nat
  OBVIOUS
<1>4. \A k \in DOMAIN deleted : deleted[k] \notin loop_edges
  <2> DEFINE looping == {k \in DOMAIN deleted : deleted[k] \in loop_edges}
  <2>1. SUFFICES ASSUME looping # {} PROVE FALSE
    OBVIOUS
  <2>2. looping \subseteq Int /\ IsFiniteSet(looping)
    <3>1. IsFiniteSet(1..Len(deleted)) /\ looping \subseteq 1..Len(deleted)
      BY <1>3, FS_Interval
    <3> QED
      BY <3>1, FS_Subset
  <2>3. PICK k \in looping : \A j \in looping : k <= j
    BY <2>1, <2>2, MinOfFinite
  <2>4. k \in DOMAIN deleted /\ deleted[k] \in loop_edges /\ \A j \in 1..(k - 1) : j \in DOMAIN deleted /\ ~(k <= j)
    BY <1>3, <2>3
  <2>5. \A j \in 1..(k - 1) : deleted[j] \notin loop_edges
    BY <2>3, <2>4
  <2>6. deleted[k] \in seen
    BY <1>1, <1>2, <2>4, <2>5 DEF WhileLevelized
  <2> QED
    BY <1>2, <2>4, <2>6 DEF LoopEdgesOf
<1>5. \A j \in DOMAIN deleted : \A k \in 1..(j - 1) : deleted[k] \notin loop_edges
  BY <1>3, <1>4
<1>6. seen = Range(deleted)
  BY <1>1, <1>2, <1>5 DEF WhileLevelized, Range
<1> QED
  BY <1>2, <1>6 DEF LoopEdgesOf

\* An edit that leaves the graph levelized: of the enabled edges only those deleted
\* are lost, and the search starts from what they led to.
LEMMA DeletedSeen ==
  ASSUME NEW deleted, IsFiniteSet(deleted), deleted \subseteq Edges,
         \E sorted \in SetToSeqs(deleted) : DeleteEdges(sorted), levelized'
  PROVE  /\ levelized /\ relevelize_from' = relevelize_from \cup {e[2] : e \in deleted}
         /\ disabled_loop_edges' = disabled_loop_edges
         /\ deleted \cap loop_edges = {}
<1>1. PICK sorted \in SetToSeqs(deleted) : DeleteEdges(sorted)
  OBVIOUS
<1>2. sorted \in Seq(deleted) /\ Range(sorted) = deleted
  BY <1>1, SeqOfSet
<1>3. sorted \in Seq(Edges)
  BY <1>2
<1> QED
  BY <1>1, <1>2, <1>3, AllDeletedSeen

LEMMA EditRoots ==
  ASSUME Typed, RootsKnown, EditStep
  PROVE  RootsKnown'
<1>1. pc = "idle" /\ pc' = pc /\ roots' = roots
  BY DEF EditStep, ConnectPin, DisconnectPin, ReplaceCell, Invalid, Edit
<1>2. ASSUME levelized' PROVE levelized /\ Undriven' \subseteq roots \cup relevelize_from'
  <2>1. CASE \E p \in NetPins : ConnectPin(p)
    <3>1. PICK p \in NetPins : ConnectPin(p)
      BY <2>1
    <3>2. levelized' = levelized /\ edges \subseteq edges' /\ relevelize_from \subseteq relevelize_from'
      BY <3>1 DEF ConnectPin, RelevelizeFrom
    <3>3. Undriven' \subseteq Undriven
      BY <3>2 DEF Undriven
    <3> QED
      BY <1>1, <1>2, <3>2, <3>3 DEF RootsKnown
  <2>2. ASSUME NEW deleted, IsFiniteSet(deleted), deleted \subseteq Edges, edges \ deleted \subseteq edges',
               \E sorted \in SetToSeqs(deleted) : DeleteEdges(sorted)
        PROVE  levelized /\ Undriven' \subseteq roots \cup relevelize_from'
    <3>1. levelized /\ relevelize_from' = relevelize_from \cup {e[2] : e \in deleted}
      BY <1>2, <2>2, DeletedSeen
    <3>2. ASSUME NEW v \in Undriven' PROVE v \in Undriven \cup {e[2] : e \in deleted}
      BY <2>2, <3>2 DEF Undriven
    <3> QED
      BY <1>1, <3>1, <3>2 DEF RootsKnown
  <2>3. CASE \E p \in NetPins : DisconnectPin(p)
    <3>1. PICK p \in NetPins : DisconnectPin(p)
      BY <2>3
    <3>2. PICK deleted : deleted = WiresOf(p, connected)
      OBVIOUS
    <3>3. deleted \subseteq Edges
      BY <3>2 DEF WiresOf, Edges
    <3>4. /\ IsFiniteSet(deleted) /\ edges' = edges \ deleted
          /\ \E sorted \in SetToSeqs(deleted) : DeleteEdges(sorted)
      BY <3>1, <3>2, <3>3, FiniteEdges DEF DisconnectPin
    <3> QED
      BY <2>2, <3>3, <3>4
  <2>4. CASE \E old, new \in Cells : ReplaceCell(old, new)
    <3>1. PICK old \in Cells, new \in Cells : ReplaceCell(old, new)
      BY <2>4
    <3>2. old \subseteq Edges
      BY DEF Edges
    <3>3. /\ IsFiniteSet(old) /\ edges \ old \subseteq edges'
          /\ \E sorted \in SetToSeqs(old) : DeleteEdges(sorted)
      BY <3>1, <3>2, FiniteEdges DEF ReplaceCell
    <3> QED
      BY <2>2, <3>2, <3>3
  <2>5. CASE Invalid
    BY <1>2, <2>5 DEF Invalid
  <2> QED
    BY <2>1, <2>3, <2>4, <2>5 DEF EditStep
<1> QED
  BY <1>1, <1>2 DEF RootsKnown

LEMMA RootsStayKnown ==
  ASSUME Typed, RootsFound, RootsKnown, [Next]_vars
  PROVE  RootsKnown'
<1>1. CASE EditStep
  BY <1>1, EditRoots
<1>2. CASE LevelsAssigned
  <2>1. pc = "assign" /\ pc' = "idle" /\ UNCHANGED <<edges, roots>>
    BY <1>2 DEF LevelsAssigned, netVars
  <2>2. Undriven \subseteq roots
    BY <2>1 DEF Undriven, RootsFound, FindingLevels, IsRoot, Enabled
  <2> QED
    BY <2>1, <2>2 DEF RootsKnown, Undriven
<1>3. CASE FindLevelsStep /\ ~LevelsAssigned
  <2>1. pc' \notin {"idle", "relevelize"}
    BY <1>3 DEF FindLevelsStep, FindLevels, FindBackEdge, LeaveVertex, FindUnvisited,
       FindCycleBackEdges, FindInDegrees, FindTopologicalOrder, AssignLevels, AssignLevel
  <2> QED
    BY <2>1 DEF RootsKnown
<1>4. CASE Relevelize
  BY <1>4 DEF Relevelize, RootsKnown, Undriven, graphVars, netVars
<1>5. ASSUME NEW v \in Vertices, VisitFrom(v) PROVE RootsKnown'
  <2>1. /\ pc = "relevelize" /\ pc' = pc /\ pending' = pending \ {v} /\ roots' = VisitedRoots(v)
        /\ edges' = edges
    BY <1>5 DEF VisitFrom, graphVars, netVars
  <2>2. v \in Undriven => v \in roots'
    BY <2>1 DEF Undriven, VisitedRoots, IsRoot, Enabled
  <2>3. roots \subseteq roots'
    BY <2>1 DEF VisitedRoots
  <2> QED
    BY <2>1, <2>2, <2>3 DEF RootsKnown, Undriven
<1>6. CASE VisitReturn \/ UNCHANGED vars \/ \E e \in edges : VisitEdge(e)
  <2>1. UNCHANGED <<pc, pending, edges, roots, levelized, relevelize_from>>
    BY <1>6 DEF VisitReturn, VisitEdge, vars, graphVars, netVars, validVars
  <2> QED
    BY <2>1 DEF RootsKnown, Undriven
<1>7. CASE RelevelizeEnd
  BY <1>7 DEF RelevelizeEnd, RootsKnown, Undriven, graphVars, netVars
<1> QED
  BY <1>1, <1>2, <1>3, <1>4, <1>5, <1>6, <1>7 DEF Next, RelevelizeStep

\* The invariant: what the search has marked and finished with, the loops it has
\* broken, and the vertices that are roots.
THEOREM InductiveInvariant == Spec => []LevelizeInv
<1> DEFINE Inv == Typed /\ SearchInv /\ LoopsBroken /\ RootsFound /\ RootsKnown
<1>1. Init => Inv
  <2>1. Init => SearchInv
    BY DEF Init, Searching, SearchInv, Marks, PathFromRoot, Explored, Ranked, Unvisited
  <2> QED
    BY <2>1, InitTyped DEF Init, LoopsBroken, RootsFound, RootsKnown, FindingLevels, Searching
<1>2. Inv /\ [Next]_vars => Inv'
  BY NextTyped, NextSearch, LoopsStayBroken, RootsStayFound, RootsStayKnown
<1>3. Inv => LevelizeInv
  BY DEF LevelizeInv, Typed, SearchInv
<1> HIDE DEF Inv
<1> QED
  BY <1>1, <1>2, <1>3, PTL DEF Spec

\* A vertex that nothing drives is a root whenever the levels are valid, also one
\* that an edit has cut off: deleteEdgeBefore drops every level or starts a visit
\* from it, and breaking a loop never leaves a vertex without a way to it.
THEOREM RootsOfLevels == Spec => []UndrivenAreRoots
<1>1. LevelizeInv => UndrivenAreRoots
  BY DEF LevelizeInv, Phases, RootsKnown, Undriven, UndrivenAreRoots
<1> QED
  BY <1>1, InductiveInvariant, PTL

-----------------------------------------------------------------------------
(* The loops of the disabled edges.                                        *)

LEMMA WiderLoop ==
  ASSUME NEW e, NEW es, NEW fs, es \subseteq fs, InLoop(e, es)
  PROVE  InLoop(e, fs)
BY DEF InLoop, LeadsOn

\* An edge from the top of the stack to a vertex of the path closes the loop that
\* the path leads through from there.
LEMMA PathLoop ==
  ASSUME TypeOK, stack # <<>>, NEW e, e[1] = Top.vertex,
         NEW k \in 1..(Len(path) + 1), e[2] = stack[Len(stack) - Len(path) - 1 + k].vertex
  PROVE  InLoop(e, LoopEdges(e))
<1>1. stack \in Seq(FrameSet) /\ path \in Seq(Edges)
  BY DEF TypeOK, FrameSet
<1>2. PICK n, m, b : n = Len(stack) /\ m = Len(path) /\ b = n - m - 1
  OBVIOUS
<1>3. n \in Nat /\ m \in Nat /\ DOMAIN path = 1..m /\ Top = stack[n]
  BY <1>1, <1>2, StackTop
<1>4. b >= 0 /\ \A i \in 1..m : path[i] = <<stack[b + i].vertex, stack[b + i + 1].vertex>>
  BY <1>2, <1>3 DEF TypeOK, PathLeadsToTop
<1>5. k \in 1..(m + 1) /\ e[2] = stack[b + k].vertex /\ e[1] = stack[b + (m + 1)].vertex
  BY <1>2, <1>3
<1>6. ASSUME NEW i \in k..m PROVE path[i] \in LoopEdges(e)
  <2>1. i \in DOMAIN path /\ k \in 1..i /\ k \in 1..m
    BY <1>3, <1>5, <1>6
  <2>2. path[k][1] = e[2]
    BY <1>4, <1>5, <2>1
  <2>3. i \in {j \in DOMAIN path : \E l \in 1..j : path[l][1] = e[2]}
    BY <2>1, <2>2
  <2> QED
    BY <2>3 DEF LoopEdges
<1>7. ASSUME NEW S \in SUBSET Vertices, e[2] \in S, LeadsOn(S, LoopEdges(e))
      PROVE  e[1] \in S
  <2> DEFINE missed == {i \in k..(m + 1) : stack[b + i].vertex \notin S}
  <2>1. SUFFICES ASSUME missed # {} PROVE FALSE
    <3>1. m + 1 \in k..(m + 1)
      BY <1>3, <1>5
    <3> QED
      BY <1>5, <2>1, <3>1
  <2>2. missed \subseteq Int /\ IsFiniteSet(missed)
    <3>1. IsFiniteSet(k..(m + 1)) /\ missed \subseteq k..(m + 1)
      BY <1>3, <1>5, FS_Interval
    <3>2. k..(m + 1) \subseteq Int
      OBVIOUS
    <3> QED
      BY <3>1, <3>2, FS_Subset
  <2>3. PICK i \in missed : \A j \in missed : i <= j
    BY <2>1, <2>2, MinOfFinite
  <2>4. i \in k..(m + 1) /\ stack[b + i].vertex \notin S
    BY <2>3
  <2>5. i # k
    BY <1>5, <1>7, <2>4
  <2>6. i - 1 \in k..m /\ i - 1 \in k..(m + 1) /\ i - 1 \in 1..m /\ b + (i - 1) + 1 = b + i /\ ~(i <= i - 1)
    BY <1>2, <1>3, <1>4, <1>5, <2>4, <2>5
  <2>7. i - 1 \notin missed
    BY <2>3, <2>6
  <2>8. stack[b + (i - 1)].vertex \in S
    BY <2>6, <2>7
  <2>9. path[i - 1] = <<stack[b + (i - 1)].vertex, stack[b + i].vertex>>
    BY <1>4, <2>6
  <2>10. path[i - 1] \in LoopEdges(e)
    BY <1>6, <2>6
  <2>11. path[i - 1][2] \in S
    BY <1>7, <2>8, <2>9, <2>10 DEF LeadsOn
  <2> QED
    BY <2>4, <2>9, <2>11
<1> QED
  BY <1>7 DEF InLoop

\* Where a vertex on the stack is on the path.
LEMMA OnPath ==
  ASSUME TypeOK, stack # <<>>, NEW i \in DOMAIN stack, i >= Len(stack) - Len(path)
  PROVE  \E k \in 1..(Len(path) + 1) : i = Len(stack) - Len(path) - 1 + k
<1>1. stack \in Seq(FrameSet) /\ path \in Seq(Edges)
  BY DEF TypeOK, FrameSet
<1>2. PICK n, m : n = Len(stack) /\ m = Len(path)
  OBVIOUS
<1>3. n \in Nat /\ m \in Nat /\ i \in 1..n /\ i >= n - m
  BY <1>1, <1>2, StackTop
<1>4. i - (n - m - 1) \in 1..(m + 1) /\ i = n - m - 1 + (i - (n - m - 1))
  BY <1>3
<1> QED
  BY <1>2, <1>4

\* Recording a loop that the path closes.
LEMMA LoopRecorded ==
  ASSUME TypeOK, PathOfEdges, LoopsKept, pc # "idle", pc' = pc, edges' = edges,
         NEW e \in edges, RecordLoop(e), InLoop(e, LoopEdges(e))
  PROVE  LoopsKept'
<1>1. /\ loop_edges' = loop_edges \cup LoopEdges(e)
      /\ disabled_loop_edges' = disabled_loop_edges \cup {e}
  BY DEF RecordLoop
<1>2. LoopEdges(e) \subseteq edges /\ e \in LoopEdges(e)
  BY DEF PathOfEdges, LoopEdges
<1>3. loop_edges \subseteq edges /\ \A x \in disabled_loop_edges : x \in loop_edges /\ InLoop(x, loop_edges)
  BY DEF LoopsKept
<1>4. \A x \in disabled_loop_edges : InLoop(x, loop_edges')
  BY <1>1, <1>3, WiderLoop
<1>5. InLoop(e, loop_edges')
  BY <1>1, WiderLoop
<1> QED
  BY <1>1, <1>2, <1>3, <1>4, <1>5 DEF LoopsKept

LEMMA BackEdgeLoop ==
  ASSUME Typed, Marks, PathFromRoot, LoopInv, NEW e \in edges, FindBackEdge(e), BackEdge(e)
  PROVE  LoopInv'
<1>1. TypeOK /\ FrameEdges /\ PathOfEdges /\ WholePath /\ LoopsKept
  BY DEF Typed, LoopInv
<1>2. /\ Searching /\ NextEdge(e) /\ e[2] \in on_path /\ RecordLoop(e) /\ stack' = WithoutEdge(e)
      /\ UNCHANGED <<pc, edges, path>> /\ pc # "idle"
  BY DEF FindBackEdge, BackEdge, Searching, graphVars, netVars
<1>3. stack \in Seq(FrameSet) /\ stack # <<>> /\ e[1] = Top.vertex
  BY <1>1, <1>2, TopEdge
<1>4. Len(stack') = Len(stack)
  BY <1>2, <1>3, StackWithoutEdge
<1>5. PICK n, m : n = Len(stack) /\ m = Len(path)
  OBVIOUS
<1>6. n \in Nat /\ n >= 1 /\ m \in Nat /\ DOMAIN stack = 1..n
  BY <1>1, <1>3, <1>5, StackTop DEF TypeOK
<1>7. PICK i \in FirstMarked..n : e[2] = stack[i].vertex
  BY <1>2, <1>5 DEF Marks
<1>8. i \in 1..n /\ i >= n - m
  <2>1. CASE pc = "cycles"
    BY <1>1, <1>3, <1>5, <1>6, <1>7, <2>1 DEF WholePath, FirstMarked
  <2>2. CASE pc = "back_edges"
    <3>1. i \in 1..n
      BY <1>7, <2>2 DEF FirstMarked
    <3>2. i \notin 1..(n - m)
      BY <1>5, <1>7, <2>2 DEF PathFromRoot
    <3> QED
      BY <1>6, <3>1, <3>2
  <2> QED
    BY <1>2, <2>1, <2>2 DEF Searching
<1>9. InLoop(e, LoopEdges(e))
  <2>1. PICK k \in 1..(m + 1) : i = n - m - 1 + k
    BY <1>1, <1>3, <1>5, <1>6, <1>8, OnPath
  <2> QED
    BY <1>1, <1>3, <1>5, <1>7, <2>1, PathLoop
<1>10. LoopsKept'
  BY <1>1, <1>2, <1>9, LoopRecorded
<1>11. PathOfEdges'
  BY <1>1, <1>2 DEF PathOfEdges
<1>12. WholePath'
  BY <1>1, <1>2, <1>3, <1>4 DEF WholePath
<1> QED
  BY <1>10, <1>11, <1>12 DEF LoopInv

LEMMA VisitBackEdgeLoop ==
  ASSUME Typed, LoopInv, NEW e \in edges, VisitEdge(e), VisitBackEdge(e)
  PROVE  LoopInv'
<1>1. TypeOK /\ FrameEdges /\ PathOfEdges /\ WholePath /\ LoopsKept
  BY DEF Typed, LoopInv
<1>2. /\ pc = "relevelize" /\ NextEdge(e) /\ e[2] \in PathVertices /\ RecordLoop(e)
      /\ stack' = WithoutEdge(e) /\ UNCHANGED <<pc, edges, path>>
  BY DEF VisitEdge, VisitBackEdge, netVars
<1>3. stack \in Seq(FrameSet) /\ stack # <<>> /\ e[1] = Top.vertex
  BY <1>1, <1>2, TopEdge
<1>4. Len(stack') = Len(stack)
  BY <1>2, <1>3, StackWithoutEdge
<1>5. PICK n, m : n = Len(stack) /\ m = Len(path)
  OBVIOUS
<1>6. n \in Nat /\ m \in Nat /\ DOMAIN stack = 1..n /\ n = m + 1
  BY <1>1, <1>2, <1>3, <1>5, StackTop DEF TypeOK, WholePath
<1>7. PICK i \in 1..n : e[2] = stack[i].vertex
  BY <1>2, <1>6 DEF PathVertices
<1>8. InLoop(e, LoopEdges(e))
  <2>1. i >= n - m
    BY <1>6
  <2>2. PICK k \in 1..(m + 1) : i = n - m - 1 + k
    BY <1>1, <1>3, <1>5, <1>6, <2>1, OnPath
  <2> QED
    BY <1>1, <1>3, <1>5, <1>7, <2>2, PathLoop
<1>9. LoopsKept'
  BY <1>1, <1>2, <1>8, LoopRecorded
<1>10. PathOfEdges'
  BY <1>1, <1>2 DEF PathOfEdges
<1>11. WholePath'
  BY <1>1, <1>2, <1>3, <1>4 DEF WholePath
<1> QED
  BY <1>9, <1>10, <1>11 DEF LoopInv

\* A step that records no loop: the path grows by an edge of the top of the stack,
\* loses its last one, or starts anew.
LEMMA PathSteps ==
  ASSUME Typed, PathOfEdges, WholePath, pc' = pc, edges' = edges,
         \/ UNCHANGED <<stack, path>>
         \/ \E v \in Vertices : stack' = <<Frame(v)>> /\ path' = <<>>
         \/ \E e : NextEdge(e) /\ stack' = WithoutEdge(e) /\ path' = path
         \/ \E e : /\ NextEdge(e)
                   /\ stack' = Append(WithoutEdge(e), Frame(e[2])) /\ path' = Append(path, e)
         \/ stack # <<>> /\ stack' = Front(stack) /\ path' = PathAfterPop
  PROVE  PathOfEdges' /\ WholePath'
<1>1. TypeOK /\ FrameEdges /\ stack \in Seq(FrameSet) /\ path \in Seq(Edges)
  BY DEF Typed, TypeOK, FrameSet
<1>2. CASE UNCHANGED <<stack, path>>
  BY <1>2 DEF PathOfEdges, WholePath
<1>3. CASE \E v \in Vertices : stack' = <<Frame(v)>> /\ path' = <<>>
  <2>1. Len(stack') = 1 /\ Len(path') = 0 /\ DOMAIN path' = {}
    BY <1>3
  <2> QED
    BY <2>1 DEF PathOfEdges, WholePath
<1>4. ASSUME NEW e, NextEdge(e), stack' = WithoutEdge(e), path' = path
      PROVE  PathOfEdges' /\ WholePath'
  <2>1. stack # <<>> /\ Len(stack') = Len(stack) /\ Len(stack) # 0
    BY <1>1, <1>4, StackWithoutEdge, StackTop DEF NextEdge
  <2>2. stack' # <<>>
    BY <2>1
  <2> QED
    BY <1>4, <2>1, <2>2 DEF PathOfEdges, WholePath
<1>5. ASSUME NEW e, NextEdge(e), stack' = Append(WithoutEdge(e), Frame(e[2])), path' = Append(path, e)
      PROVE  PathOfEdges' /\ WholePath'
  <2>1. stack # <<>> /\ e \in edges /\ e \in Edges /\ e[2] \in Vertices
    BY <1>1, <1>5, TopEdge
  <2>2. WithoutEdge(e) \in Seq(FrameSet) /\ Len(WithoutEdge(e)) = Len(stack)
    BY <1>1, <1>5, StackWithoutEdge
  <2>3. Frame(e[2]) \in FrameSet
    BY <1>1, <2>1, FrameOfVertex
  <2>4. stack' \in Seq(FrameSet) /\ Len(stack') = Len(stack) + 1
    BY <1>5, <2>2, <2>3, PushSeq
  <2>5. /\ Len(path') = Len(path) + 1 /\ DOMAIN path' = 1..(Len(path) + 1) /\ path'[Len(path) + 1] = e
        /\ \A i \in DOMAIN path : path'[i] = path[i]
    BY <1>1, <1>5, <2>1, PushSeq
  <2>6. Len(path) \in Nat /\ DOMAIN path = 1..Len(path)
    BY <1>1
  <2>7. \A i \in DOMAIN path' : i \in DOMAIN path \/ i = Len(path) + 1
    BY <2>5, <2>6
  <2>8. PathOfEdges'
    BY <2>1, <2>5, <2>7 DEF PathOfEdges
  <2>9. WholePath'
    BY <2>1, <2>4, <2>5, <2>6 DEF WholePath
  <2> QED
    BY <2>8, <2>9
<1>6. CASE stack # <<>> /\ stack' = Front(stack) /\ path' = PathAfterPop
  <2>1. /\ stack' \in Seq(FrameSet) /\ Len(stack') = Len(stack) - 1
        /\ Len(stack) \in Nat /\ Len(stack) >= 1
    BY <1>1, <1>6, FrontSeq, StackTop
  <2>2. CASE path = <<>>
    <3>1. path' = <<>> /\ DOMAIN path' = {} /\ Len(path) = 0
      BY <1>6, <2>2 DEF PathAfterPop
    <3>2. pc \in {"cycles", "relevelize"} => stack' = <<>>
      BY <1>6, <2>1, <3>1, EmptySeq DEF WholePath
    <3> QED
      BY <3>1, <3>2 DEF PathOfEdges, WholePath
  <2>3. CASE path # <<>>
    <3>1. path' = Front(path)
      BY <1>6, <2>3 DEF PathAfterPop
    <3>2. /\ Len(path') = Len(path) - 1 /\ Len(path) \in Nat /\ DOMAIN path' \subseteq DOMAIN path
          /\ \A i \in DOMAIN path' : path'[i] = path[i]
      BY <1>1, <2>3, <3>1, FrontSeq
    <3>3. PathOfEdges'
      BY <3>2 DEF PathOfEdges
    <3>4. WholePath'
      BY <1>6, <2>1, <3>2 DEF WholePath
    <3> QED
      BY <3>3, <3>4
  <2> QED
    BY <2>2, <2>3
<1> QED
  BY <1>2, <1>3, <1>4, <1>5, <1>6

\* Edits: while the graph stays levelized, no edge of a loop is deleted.
LEMMA EditLoop ==
  ASSUME Typed, LoopInv, EditStep
  PROVE  LoopInv'
<1>1. /\ pc = "idle" /\ pc' = pc /\ stack = <<>> /\ UNCHANGED <<stack, path>>
  BY DEF EditStep, ConnectPin, DisconnectPin, ReplaceCell, Invalid, Edit, dfsVars, Typed, Phases, Searching
<1>2. path = <<>> /\ DOMAIN path' = {}
  BY <1>1 DEF Typed, TypeOK, PathLeadsToTop
<1>3. LoopsKept
  BY DEF LoopInv
<1>4. ASSUME levelized'
      PROVE  levelized /\ UNCHANGED loopVars /\ loop_edges \subseteq edges'
  <2>1. CASE \E p \in NetPins : ConnectPin(p)
    <3>1. PICK p \in NetPins : ConnectPin(p)
      BY <2>1
    <3>2. levelized' = levelized /\ edges \subseteq edges' /\ UNCHANGED loopVars
      BY <3>1 DEF ConnectPin, RelevelizeFrom
    <3> QED
      BY <1>3, <1>4, <3>2 DEF LoopsKept
  <2>2. ASSUME NEW deleted, IsFiniteSet(deleted), deleted \subseteq Edges, edges \ deleted \subseteq edges',
               \E sorted \in SetToSeqs(deleted) : DeleteEdges(sorted)
        PROVE  levelized /\ UNCHANGED loopVars /\ loop_edges \subseteq edges'
    <3>1. levelized /\ disabled_loop_edges' = disabled_loop_edges /\ deleted \cap loop_edges = {}
      BY <1>4, <2>2, DeletedSeen
    <3>2. loop_edges' = loop_edges
      BY <2>2 DEF DeleteEdges
    <3> QED
      BY <1>3, <2>2, <3>1, <3>2 DEF LoopsKept, loopVars
  <2>3. CASE \E p \in NetPins : DisconnectPin(p)
    <3>1. PICK p \in NetPins : DisconnectPin(p)
      BY <2>3
    <3>2. PICK deleted : deleted = WiresOf(p, connected)
      OBVIOUS
    <3>3. deleted \subseteq Edges
      BY <3>2 DEF WiresOf, Edges
    <3>4. /\ IsFiniteSet(deleted) /\ edges' = edges \ deleted
          /\ \E sorted \in SetToSeqs(deleted) : DeleteEdges(sorted)
      BY <3>1, <3>2, <3>3, FiniteEdges DEF DisconnectPin
    <3> QED
      BY <2>2, <3>3, <3>4
  <2>4. CASE \E old, new \in Cells : ReplaceCell(old, new)
    <3>1. PICK old \in Cells, new \in Cells : ReplaceCell(old, new)
      BY <2>4
    <3>2. old \subseteq Edges
      BY DEF Edges
    <3>3. /\ IsFiniteSet(old) /\ edges \ old \subseteq edges'
          /\ \E sorted \in SetToSeqs(old) : DeleteEdges(sorted)
      BY <3>1, <3>2, FiniteEdges DEF ReplaceCell
    <3> QED
      BY <2>2, <3>2, <3>3
  <2>5. CASE Invalid
    BY <1>4, <2>5 DEF Invalid
  <2> QED
    BY <2>1, <2>3, <2>4, <2>5 DEF EditStep
<1>5. LoopsKept'
  BY <1>1, <1>3, <1>4 DEF LoopsKept, loopVars
<1> QED
  BY <1>1, <1>2, <1>5 DEF LoopInv, PathOfEdges, WholePath

LEMMA NextLoop ==
  ASSUME Typed, Marks, PathFromRoot, LoopInv, [Next]_vars
  PROVE  LoopInv'
<1>1. PathOfEdges /\ WholePath /\ LoopsKept
  BY DEF LoopInv
<1>2. CASE EditStep
  BY <1>2, EditLoop
<1>3. CASE FindLevels
  <2>1. path' = <<>> /\ DOMAIN path' = {} /\ pc' = "back_edges" /\ loop_edges' = {} /\ disabled_loop_edges' = {}
    BY <1>3 DEF FindLevels
  <2> QED
    BY <2>1 DEF LoopInv, PathOfEdges, WholePath, LoopsKept
<1>4. ASSUME NEW e \in edges, FindBackEdge(e) PROVE LoopInv'
  <2>1. CASE BackEdge(e)
    BY <1>4, <2>1, BackEdgeLoop
  <2>2. CASE Descend(e)
    <3>1. /\ pc # "idle" /\ pc' = pc /\ edges' = edges /\ NextEdge(e) /\ UNCHANGED loopVars
          /\ stack' = Append(WithoutEdge(e), Frame(e[2])) /\ path' = Append(path, e)
      BY <1>4, <2>2 DEF FindBackEdge, Descend, graphVars, netVars
    <3>2. PathOfEdges' /\ WholePath'
      BY <1>1, <3>1, PathSteps
    <3> QED
      BY <1>1, <3>1, <3>2 DEF LoopInv, LoopsKept, loopVars
  <2>3. CASE SkipEdge(e)
    <3>1. /\ pc # "idle" /\ pc' = pc /\ edges' = edges /\ NextEdge(e) /\ UNCHANGED loopVars
          /\ stack' = WithoutEdge(e) /\ path' = path
      BY <1>4, <2>3 DEF FindBackEdge, SkipEdge, graphVars, netVars
    <3>2. PathOfEdges' /\ WholePath'
      BY <1>1, <3>1, PathSteps
    <3> QED
      BY <1>1, <3>1, <3>2 DEF LoopInv, LoopsKept, loopVars
  <2> QED
    BY <1>4, <2>1, <2>2, <2>3 DEF FindBackEdge
<1>5. ASSUME NEW e \in edges, VisitEdge(e) PROVE LoopInv'
  <2>1. CASE VisitBackEdge(e)
    BY <1>5, <2>1, VisitBackEdgeLoop
  <2>2. CASE VisitRaise(e)
    <3>1. /\ pc # "idle" /\ pc' = pc /\ edges' = edges /\ NextEdge(e) /\ UNCHANGED loopVars
          /\ stack' = Append(WithoutEdge(e), Frame(e[2])) /\ path' = Append(path, e)
      BY <1>5, <2>2 DEF VisitEdge, VisitRaise, netVars
    <3>2. PathOfEdges' /\ WholePath'
      BY <1>1, <3>1, PathSteps
    <3> QED
      BY <1>1, <3>1, <3>2 DEF LoopInv, LoopsKept, loopVars
  <2>3. CASE VisitSkip(e)
    <3>1. /\ pc # "idle" /\ pc' = pc /\ edges' = edges /\ NextEdge(e) /\ UNCHANGED loopVars
          /\ stack' = WithoutEdge(e) /\ path' = path
      BY <1>5, <2>3 DEF VisitEdge, VisitSkip, netVars
    <3>2. PathOfEdges' /\ WholePath'
      BY <1>1, <3>1, PathSteps
    <3> QED
      BY <1>1, <3>1, <3>2 DEF LoopInv, LoopsKept, loopVars
  <2> QED
    BY <1>5, <2>1, <2>2, <2>3 DEF VisitEdge
<1>6. CASE LeaveVertex \/ VisitReturn
  <2>1. /\ pc # "idle" /\ pc' = pc /\ edges' = edges /\ UNCHANGED loopVars
        /\ stack # <<>> /\ stack' = Front(stack) /\ path' = PathAfterPop
    BY <1>6 DEF LeaveVertex, VisitReturn, graphVars, netVars
  <2>2. PathOfEdges' /\ WholePath'
    BY <1>1, <2>1, PathSteps
  <2> QED
    BY <1>1, <2>1, <2>2 DEF LoopInv, LoopsKept, loopVars
<1>7. ASSUME NEW v \in Vertices, FindCycleBackEdges(v) \/ VisitFrom(v) PROVE LoopInv'
  <2>1. /\ pc # "idle" /\ pc' = pc /\ edges' = edges /\ UNCHANGED loopVars
        /\ stack' = <<Frame(v)>> /\ path' = <<>>
    BY <1>7 DEF FindCycleBackEdges, VisitFrom, graphVars, netVars
  <2>2. PathOfEdges' /\ WholePath'
    BY <1>1, <2>1, PathSteps
  <2> QED
    BY <1>1, <2>1, <2>2 DEF LoopInv, LoopsKept, loopVars
<1>8. CASE \/ FindUnvisited \/ FindInDegrees \/ FindTopologicalOrder \/ AssignLevels \/ AssignLevel
           \/ LevelsAssigned \/ Relevelize \/ RelevelizeEnd \/ UNCHANGED vars
  <2>1. UNCHANGED <<edges, loop_edges, disabled_loop_edges, stack, path>>
    BY <1>8 DEF FindUnvisited, FindInDegrees, FindTopologicalOrder, AssignLevels, AssignLevel,
       LevelsAssigned, Relevelize, RelevelizeEnd, vars, graphVars, netVars, loopVars, dfsVars
  <2>2. levelized' \/ pc' # "idle" => levelized \/ pc # "idle"
    BY <1>8 DEF FindUnvisited, FindInDegrees, FindTopologicalOrder, AssignLevels, AssignLevel,
       LevelsAssigned, Relevelize, RelevelizeEnd, vars, validVars
  <2>3. WholePath'
    <3>1. pc' = pc \/ stack' = <<>> \/ pc' \notin {"cycles", "relevelize"}
      BY <1>8 DEF FindUnvisited, FindInDegrees, FindTopologicalOrder, AssignLevels, AssignLevel,
         LevelsAssigned, Relevelize, RelevelizeEnd, vars, dfsVars, Typed, Phases, Searching
    <3> QED
      BY <1>1, <2>1, <3>1 DEF WholePath
  <2> QED
    BY <1>1, <2>1, <2>2, <2>3 DEF LoopInv, PathOfEdges, LoopsKept
<1> QED
  BY <1>2, <1>3, <1>4, <1>5, <1>6, <1>7, <1>8 DEF Next, FindLevelsStep, RelevelizeStep

\* An edge is disabled only while it closes a loop of edges that exist: each one
\* was recorded with the loop that the path closed, and an edit that deletes an
\* edge of a loop makes the search start anew (deleteEdgeBefore).
THEOREM LoopsOfDisabled == Spec => []DisabledInLoop
<1>1. Init => LoopInv
  BY DEF Init, LoopInv, PathOfEdges, WholePath, LoopsKept
<1>2. LevelizeInv /\ LoopInv /\ [Next]_vars => LoopInv'
  BY NextLoop DEF LevelizeInv, Typed
<1>3. ASSUME LevelizeInv, LoopInv PROVE DisabledInLoop
  <2>1. SUFFICES ASSUME levels_valid, NEW e \in disabled_loop_edges
                 PROVE  e \in edges /\ e[1] \in Reaches(e[2])
    BY DEF DisabledInLoop
  <2>2. levelized /\ TypeOK
    BY <1>3, <2>1 DEF LevelizeInv, Phases
  <2>3. e \in loop_edges /\ loop_edges \subseteq edges /\ InLoop(e, loop_edges)
    BY <1>3, <2>1, <2>2 DEF LoopInv, LoopsKept
  <2>4. InLoop(e, edges)
    BY <2>3, WiderLoop
  <2>5. e[1] \in Vertices
    BY <2>2, <2>3, FiniteEdges DEF TypeOK
  <2> QED
    BY <2>3, <2>4, <2>5 DEF Reaches, InLoop, LeadsOn
<1> QED
  BY <1>1, <1>2, <1>3, InductiveInvariant, PTL DEF Spec

-----------------------------------------------------------------------------
(* The topological sort.                                                   *)

LEMMA FiniteDrivers ==
  ASSUME TypeOK, NEW v, NEW S
  PROVE  IsFiniteSet(DrivenBy(v, S)) /\ DrivenBy(v, S) \subseteq Edges
<1>1. DrivenBy(v, S) \subseteq Edges
  BY DEF DrivenBy, Enabled, TypeOK
<1> QED
  BY <1>1, FiniteEdges

\* The sort starts from the roots, which are what no enabled edge leads to.
LEMMA SortStarts ==
  ASSUME Typed, RootsFound, RootsUndriven', FindInDegrees
  PROVE  Sorted'
<1>1. /\ pc = "cycles" /\ pc' = "topo" /\ order' = <<>> /\ queue' \in SetToSeqs(roots)
      /\ in_degree' = [v \in Vertices |-> Cardinality({e \in Enabled : e[2] = v})]
      /\ UNCHANGED <<edges, disabled_loop_edges, roots>>
  BY DEF FindInDegrees, graphVars, netVars, loopVars
<1>2. TypeOK /\ Enabled' = Enabled /\ roots \subseteq Vertices
  BY <1>1 DEF Typed, TypeOK, Enabled
<1>3. queue' \in Seq(roots) /\ Range(queue') = roots /\ OneToOne(queue')
  BY <1>1, <1>2, FiniteEdges, SeqOfSet DEF OneToOne
<1>4. Range(order') = {} /\ OneToOne(order') /\ DOMAIN order' = {}
  BY <1>1 DEF Range, OneToOne
<1>5. Unsorted' = Vertices
  BY <1>4 DEF Unsorted
<1>6. ASSUME NEW v \in Vertices
      PROVE  /\ DrivenBy(v, Unsorted)' = {e \in Enabled : e[2] = v}
             /\ DrivenBy(v, Unsorted)' = {} <=> IsRoot(v)
  <2>1. \A e \in Enabled : e[1] \in Vertices
    BY <1>2, FiniteEdges DEF Enabled, TypeOK
  <2>2. DrivenBy(v, Unsorted)' = {e \in Enabled : e[2] = v}
    BY <1>2, <1>5, <2>1 DEF DrivenBy
  <2> QED
    BY <2>2 DEF IsRoot
<1>7. \A v \in Vertices : v \in roots <=> IsRoot(v)
  <2>1. \A v \in roots : IsRoot(v)'
    BY <1>1 DEF RootsUndriven
  <2>2. \A v : IsRoot(v)' => IsRoot(v)
    BY <1>2 DEF IsRoot
  <2>3. {v \in Vertices : IsRoot(v)} \subseteq roots
    BY <1>1 DEF RootsFound, FindingLevels, Searching
  <2> QED
    BY <1>1, <2>1, <2>2, <2>3
<1>8. \A v \in Vertices : /\ in_degree'[v] = Cardinality(DrivenBy(v, Unsorted)')
                          /\ v \in Range(order') \cup Range(queue') <=> DrivenBy(v, Unsorted)' = {}
  BY <1>1, <1>3, <1>4, <1>6, <1>7
<1> QED
  BY <1>3, <1>4, <1>8 DEF Sorted

\* A vertex is sorted: the edges from it are counted off, and what they leave
\* with none is queued.
LEMMA SortStep ==
  ASSUME Typed, Sorted, FindTopologicalOrder
  PROVE  Sorted'
<1> DEFINE fanout == {w \in Vertices : <<Head(queue), w>> \in Enabled}
           ready == {w \in fanout : in_degree'[w] = 0}
<1>1. PICK v : v = Head(queue)
  OBVIOUS
<1>2. /\ pc = "topo" /\ queue # <<>> /\ order' = Append(order, v)
      /\ in_degree' = [w \in Vertices |-> in_degree[w] - (IF w \in fanout THEN 1 ELSE 0)]
      /\ UNCHANGED <<edges, disabled_loop_edges>>
  BY <1>1 DEF FindTopologicalOrder, graphVars, netVars, loopVars
<1>3. PICK found \in SetToSeqs(ready) : queue' = Tail(queue) \o found
  BY DEF FindTopologicalOrder
<1>4. /\ TypeOK /\ Enabled' = Enabled /\ order \in Seq(Vertices) /\ queue \in Seq(Vertices)
      /\ in_degree \in [Vertices -> Int]
  BY <1>2 DEF Typed, TypeOK, Enabled
<1>5. ready \subseteq Vertices /\ IsFiniteSet(ready)
  <2>1. ready \subseteq Vertices
    OBVIOUS
  <2> QED
    BY <2>1, FiniteEdges
<1>6. \A w \in Vertices : w \in fanout <=> <<v, w>> \in Enabled
  BY <1>1
<1>7. ready = {w \in fanout : in_degree'[w] = 0} /\ fanout \subseteq Vertices
  OBVIOUS
<1> HIDE DEF ready, fanout
<1>8. found \in Seq(ready) /\ Range(found) = ready /\ OneToOne(found)
  BY <1>3, <1>5, SeqOfSet DEF OneToOne
<1>9. /\ OneToOne(order) /\ OneToOne(queue) /\ Range(order) \cap Range(queue) = {}
      /\ \A w \in Vertices : /\ in_degree[w] = Cardinality(DrivenBy(w, Unsorted))
                             /\ w \in Range(order) \cup Range(queue) <=> DrivenBy(w, Unsorted) = {}
      /\ \A k \in DOMAIN order : \A e \in Enabled :
           e[2] = order[k] => \E i \in 1..(k - 1) : order[i] = e[1]
  BY <1>2 DEF Sorted
<1>10. PICK q : q = Tail(queue)
  OBVIOUS
<1>11. /\ q \in Seq(Vertices) /\ v \in Vertices /\ v \in Range(queue) /\ OneToOne(q)
       /\ Range(queue) = Range(q) \cup {v} /\ v \notin Range(q)
  <2>1. /\ q \in Seq(Vertices) /\ Len(q) = Len(queue) - 1 /\ Len(queue) \in Nat \ {0}
        /\ v = queue[1] /\ v \in Vertices /\ \A i \in DOMAIN q : q[i] = queue[i + 1]
    BY <1>1, <1>2, <1>4, <1>10, TailSeq
  <2>2. DOMAIN q = 1..(Len(queue) - 1) /\ DOMAIN queue = 1..Len(queue)
    BY <1>4, <2>1
  <2>3. \A i : i \in DOMAIN queue => i = 1 \/ (i - 1 \in DOMAIN q /\ queue[i] = q[i - 1])
    BY <2>1, <2>2
  <2>4. \A i \in DOMAIN q : i + 1 \in DOMAIN queue /\ i + 1 # 1 /\ i \in Int
    BY <2>1, <2>2
  <2>5. 1 \in DOMAIN queue
    BY <2>1, <2>2
  <2>6. Range(queue) = Range(q) \cup {v}
    BY <2>1, <2>3, <2>4, <2>5 DEF Range
  <2>7. v \notin Range(q)
    BY <1>9, <2>1, <2>4, <2>5 DEF OneToOne, Range
  <2>8. OneToOne(q)
    <3>1. ASSUME NEW i \in DOMAIN q, NEW k \in DOMAIN q, q[i] = q[k] PROVE i + 1 = k + 1
      BY <1>9, <2>1, <2>4, <3>1 DEF OneToOne
    <3> QED
      BY <2>4, <3>1 DEF OneToOne
  <2> QED
    BY <2>1, <2>6, <2>7, <2>8
<1>12. v \notin Range(order) /\ DrivenBy(v, Unsorted) = {} /\ v \in Unsorted
  BY <1>9, <1>11 DEF Unsorted
<1>13. /\ Len(order) \in Nat /\ DOMAIN order = 1..Len(order)
       /\ DOMAIN order' = 1..(Len(order) + 1) /\ order'[Len(order) + 1] = v
       /\ \A i \in DOMAIN order : order'[i] = order[i]
  BY <1>2, <1>4, <1>11, PushSeq
<1>14. \A i : i \in DOMAIN order' <=> i \in DOMAIN order \/ i = Len(order) + 1
  BY <1>13
<1>15. Range(order') = Range(order) \cup {v} /\ OneToOne(order')
  <2>1. Range(order') = Range(order) \cup {v}
    BY <1>13, <1>14 DEF Range
  <2>2. \A i \in DOMAIN order : order[i] # v
    BY <1>12 DEF Range
  <2>3. OneToOne(order')
    BY <1>9, <1>13, <1>14, <2>2 DEF OneToOne
  <2> QED
    BY <2>1, <2>3
<1>16. Unsorted' = Unsorted \ {v}
  BY <1>15 DEF Unsorted
<1>17. ASSUME NEW w \in Vertices
       PROVE  /\ w \in fanout => <<v, w>> \in DrivenBy(w, Unsorted)
              /\ DrivenBy(w, Unsorted)' = DrivenBy(w, Unsorted) \ {<<v, w>>}
              /\ w \notin fanout => <<v, w>> \notin DrivenBy(w, Unsorted)
  <2>1. \A e \in Enabled : e = <<e[1], e[2]>>
    BY <1>4, FiniteEdges DEF Enabled, TypeOK
  <2>2. DrivenBy(w, Unsorted)' = {e \in Enabled : e[2] = w /\ e[1] \in Unsorted \ {v}}
    BY <1>4, <1>16 DEF DrivenBy
  <2>3. w \in fanout <=> <<v, w>> \in Enabled
    BY <1>6
  <2> QED
    BY <1>12, <2>1, <2>2, <2>3 DEF DrivenBy
<1>18. ASSUME NEW w \in Vertices
       PROVE  /\ in_degree'[w] = Cardinality(DrivenBy(w, Unsorted)')
              /\ (in_degree'[w] = 0 <=> DrivenBy(w, Unsorted)' = {})
  <2>1. PICK D, D2 : D = DrivenBy(w, Unsorted) /\ D2 = DrivenBy(w, Unsorted)'
    OBVIOUS
  <2>2. IsFiniteSet(D) /\ D2 = D \ {<<v, w>>} /\ in_degree[w] = Cardinality(D)
    BY <1>4, <1>9, <1>17, <2>1, FiniteDrivers
  <2>3. IsFiniteSet(D2) /\ Cardinality(D) \in Nat
    BY <2>2, FS_Subset, FS_CardinalityType
  <2>4. in_degree'[w] = Cardinality(D2)
    <3>1. CASE w \in fanout
      <4>1. Cardinality(D2) = Cardinality(D) - 1
        BY <1>17, <2>1, <2>2, <3>1, FS_RemoveElement
      <4> QED
        BY <1>2, <2>2, <2>3, <3>1, <4>1
    <3>2. CASE w \notin fanout
      <4>1. D2 = D
        BY <1>17, <2>1, <2>2, <3>2
      <4>2. in_degree'[w] = in_degree[w] - 0
        BY <1>2, <3>2
      <4>3. in_degree[w] - 0 = Cardinality(D)
        BY <2>2, <2>3
      <4> QED
        BY <4>1, <4>2, <4>3
    <3> QED
      BY <3>1, <3>2
  <2>5. Cardinality(D2) = 0 <=> D2 = {}
    BY <2>3, FS_EmptySet
  <2> QED
    BY <2>1, <2>4, <2>5
<1>19. ready = {w \in fanout : DrivenBy(w, Unsorted)' = {}}
  BY <1>7, <1>18
<1>20. ready \cap (Range(order) \cup Range(queue)) = {}
  BY <1>5, <1>7, <1>9, <1>17
<1>21. Range(queue') = Range(q) \cup ready /\ OneToOne(queue')
  <2>1. found \in Seq(Vertices)
    BY <1>5, <1>8
  <2>2. PICK a, b : a = Len(q) /\ b = Len(found)
    OBVIOUS
  <2>3. /\ a \in Nat /\ b \in Nat /\ DOMAIN q = 1..a /\ DOMAIN found = 1..b
        /\ Len(q \o found) = a + b /\ DOMAIN (q \o found) = 1..(a + b)
        /\ \A i \in 1..(a + b) : (q \o found)[i] = IF i <= a THEN q[i] ELSE found[i - a]
    BY <1>11, <2>1, <2>2
  <2>4. PICK c : c = q \o found
    OBVIOUS
  <2>5. queue' = c
    BY <1>3, <1>10, <2>4
  <2>6. /\ \A i \in 1..a : i \in DOMAIN c /\ c[i] = q[i]
        /\ \A i \in 1..b : a + i \in DOMAIN c /\ c[a + i] = found[i]
        /\ \A i \in DOMAIN c : i \in 1..a \/ i - a \in 1..b
        /\ \A i \in DOMAIN c : i \notin 1..a => c[i] = found[i - a]
        /\ \A i \in DOMAIN c : i \in Int
    <3>1. \A i \in 1..b : a + i \in 1..(a + b) /\ ~(a + i <= a) /\ a + i - a = i
      BY <2>3
    <3>2. \A i \in 1..a : i \in 1..(a + b) /\ i <= a
      BY <2>3
    <3>3. \A i \in 1..(a + b) : (i \in 1..a \/ i - a \in 1..b) /\ (i \notin 1..a => ~(i <= a)) /\ i \in Int
      BY <2>3
    <3> QED
      BY <2>3, <2>4, <3>1, <3>2, <3>3
  <2>7. Range(c) = Range(q) \cup Range(found)
    BY <2>3, <2>6 DEF Range
  <2>8. Range(q) \cap Range(found) = {}
    BY <1>8, <1>11, <1>20
  <2>9. ASSUME NEW i \in DOMAIN c, NEW k \in DOMAIN c, c[i] = c[k] PROVE i = k
    <3>1. CASE i \in 1..a /\ k \in 1..a
      BY <1>11, <2>3, <2>6, <2>9, <3>1 DEF OneToOne
    <3>2. CASE i \notin 1..a /\ k \notin 1..a
      <4>1. i - a \in DOMAIN found /\ k - a \in DOMAIN found /\ found[i - a] = found[k - a]
        BY <2>3, <2>6, <2>9, <3>2
      <4>2. i - a = k - a
        BY <1>8, <4>1 DEF OneToOne
      <4>3. i \in Int /\ k \in Int
        BY <2>6
      <4> QED
        BY <2>3, <4>2, <4>3
    <3>3. CASE i \in 1..a /\ k \notin 1..a
      <4>1. c[i] \in Range(q) /\ c[k] \in Range(found)
        BY <2>3, <2>6, <3>3 DEF Range
      <4> QED
        BY <2>8, <2>9, <4>1
    <3>4. CASE i \notin 1..a /\ k \in 1..a
      <4>1. c[k] \in Range(q) /\ c[i] \in Range(found)
        BY <2>3, <2>6, <3>4 DEF Range
      <4> QED
        BY <2>8, <2>9, <4>1
    <3> QED
      BY <3>1, <3>2, <3>3, <3>4
  <2> QED
    BY <1>8, <2>5, <2>7, <2>9 DEF OneToOne
<1>22. Range(order') \cap Range(queue') = {}
  BY <1>9, <1>11, <1>15, <1>20, <1>21
<1>23. ASSUME NEW w \in Vertices
       PROVE  w \in Range(order') \cup Range(queue') <=> DrivenBy(w, Unsorted)' = {}
  <2>1. w \in Range(order') \cup Range(queue') <=> w \in Range(order) \cup Range(queue) \/ w \in ready
    BY <1>11, <1>15, <1>21
  <2>2. DrivenBy(w, Unsorted) = {} => DrivenBy(w, Unsorted)' = {}
    BY <1>17
  <2>3. w \notin fanout => DrivenBy(w, Unsorted)' = DrivenBy(w, Unsorted)
    BY <1>17
  <2> QED
    BY <1>9, <1>19, <2>1, <2>2, <2>3
<1>24. ASSUME NEW k \in DOMAIN order', NEW e \in Enabled, e[2] = order'[k]
       PROVE  \E i \in 1..(k - 1) : order'[i] = e[1]
  <2>1. CASE k \in DOMAIN order
    <3>1. PICK i \in 1..(k - 1) : order[i] = e[1]
      BY <1>9, <1>13, <1>24, <2>1
    <3>2. i \in DOMAIN order
      BY <1>13, <2>1
    <3> QED
      BY <1>13, <3>1, <3>2
  <2>2. CASE k = Len(order) + 1
    <3>1. e[2] = v /\ e[1] \in Vertices
      BY <1>4, <1>13, <1>24, <2>2, FiniteEdges DEF Enabled, TypeOK
    <3>2. e[1] \in Range(order)
      BY <1>12, <3>1 DEF DrivenBy, Unsorted
    <3>3. PICK i \in DOMAIN order : order[i] = e[1]
      BY <3>2 DEF Range
    <3>4. i \in 1..(k - 1)
      BY <1>13, <2>2
    <3> QED
      BY <1>13, <3>3, <3>4
  <2> QED
    BY <1>14, <2>1, <2>2
<1>25. \A w \in Vertices : /\ in_degree'[w] = Cardinality(DrivenBy(w, Unsorted)')
                           /\ w \in Range(order') \cup Range(queue') <=> DrivenBy(w, Unsorted)' = {}
  BY <1>18, <1>23
<1> QED
  BY <1>4, <1>15, <1>21, <1>22, <1>24, <1>25 DEF Sorted

\* The sort is complete: of the vertices that are left, one of the highest rank
\* would be driven by none of them.
LEMMA AllSorted ==
  ASSUME TypeOK, Sorted, Acyclic, pc = "topo", queue = <<>>
  PROVE  Unsorted = {}
<1>1. SUFFICES ASSUME Unsorted # {} PROVE FALSE
  OBVIOUS
<1>2. PICK rank \in Ranks : \A e \in Enabled : rank[e[2]] < rank[e[1]]
  BY DEF Acyclic
<1>3. Unsorted \subseteq Vertices /\ IsFiniteSet(Unsorted)
  <2>1. Unsorted \subseteq Vertices
    BY DEF Unsorted
  <2> QED
    BY <2>1, FiniteEdges
<1>4. PICK f : f = [v \in Unsorted |-> rank[v]]
  OBVIOUS
<1>5. f \in [Unsorted -> Int] /\ \A v \in Unsorted : f[v] = rank[v]
  BY <1>2, <1>3, <1>4 DEF Ranks
<1>6. PICK v \in Unsorted : \A w \in Unsorted : f[w] <= f[v]
  BY <1>1, <1>3, <1>5, FiniteArgMax
<1>7. Range(queue) = {}
  BY DEF Range
<1>8. v \in Vertices /\ v \notin Range(order) \cup Range(queue)
  BY <1>3, <1>6, <1>7 DEF Unsorted
<1>9. PICK e \in DrivenBy(v, Unsorted) : TRUE
  BY <1>8 DEF Sorted
<1>10. e \in Enabled /\ e[2] = v /\ e[1] \in Unsorted
  BY <1>9 DEF DrivenBy
<1>11. rank[v] < rank[e[1]] /\ rank[e[1]] <= rank[v]
  BY <1>2, <1>5, <1>6, <1>10
<1>12. rank[v] \in Nat /\ rank[e[1]] \in Nat
  BY <1>2, <1>3, <1>6, <1>10 DEF Ranks
<1> QED
  BY <1>11, <1>12

-----------------------------------------------------------------------------
(* The levels.                                                             *)

LEMMA LevelsStart ==
  ASSUME Typed, Sorted, LoopsBroken, RootsFound, AssignLevels
  PROVE  LevelsRise'
<1>1. /\ pc = "topo" /\ queue = <<>> /\ pc' = "assign" /\ order' = order
      /\ level' = [v \in Vertices |-> IF v \in roots THEN 0 ELSE level[v]]
      /\ UNCHANGED <<edges, disabled_loop_edges, roots>>
  BY DEF AssignLevels, netVars, loopVars, topoVars
<1>2. TypeOK /\ Enabled' = Enabled
  BY <1>1 DEF Typed, Enabled
<1>3. Leveled' = {}
  BY <1>1, <1>2, AllSorted DEF LoopsBroken, Unsorted, Leveled
<1>4. {v \in Vertices : IsRoot(v)} \subseteq roots
  BY <1>1 DEF RootsFound, FindingLevels
<1>5. \A v \in Vertices : IsRoot(v)' => level'[v] >= 0
  BY <1>1, <1>2, <1>4 DEF IsRoot
<1>6. /\ OneToOne(order)
      /\ \A k \in DOMAIN order : \A e \in Enabled :
           e[2] = order[k] => \E i \in 1..(k - 1) : order[i] = e[1]
  BY <1>1 DEF Sorted
<1>7. \A e \in Enabled : e[1] \notin Leveled' /\ e[2] \notin Leveled'
  BY <1>3
<1> QED
  BY <1>1, <1>2, <1>3, <1>5, <1>6, <1>7 DEF LevelsRise, OneToOne

\* The next vertex of the order has a level: it is a root or what leads to it has
\* one.  So all it leads to is raised above it, and it is raised no more.
LEMMA LevelStep ==
  ASSUME Typed, LevelsRise, AssignLevel
  PROVE  LevelsRise'
<1> DEFINE fanout == {w \in Vertices : level[Head(order)] # -1 /\ <<Head(order), w>> \in Enabled}
<1>1. PICK v, rest : v = Head(order) /\ rest = Tail(order)
  OBVIOUS
<1>2. /\ pc = "assign" /\ pc' = "assign" /\ order # <<>> /\ order' = rest
      /\ level' = [w \in Vertices |->
                     IF w \in fanout THEN Larger(level[w], level[v] + LevelSpace) ELSE level[w]]
      /\ UNCHANGED <<edges, disabled_loop_edges>>
  BY <1>1 DEF AssignLevel, netVars, loopVars
<1>3. /\ TypeOK /\ Enabled' = Enabled /\ order \in Seq(Vertices)
      /\ level \in [Vertices -> Nat \cup {-1}] /\ LevelSpace \in Nat /\ LevelSpace > 0
  BY <1>2, LevelizeAssumption DEF Typed, TypeOK, Enabled
<1>4. \A w \in Vertices : w \in fanout <=> level[v] # -1 /\ <<v, w>> \in Enabled
  BY <1>1
<1> HIDE DEF fanout
<1>5. /\ OneToOne(order)
      /\ \A k \in DOMAIN order : \A e \in Enabled :
           e[2] = order[k] => e[1] \in Leveled \/ \E i \in 1..(k - 1) : order[i] = e[1]
      /\ \A w \in Vertices : IsRoot(w) \/ w \in Leveled => level[w] >= 0
      /\ \A e \in Enabled : /\ e[2] \in Leveled => e[1] \in Leveled
                            /\ e[1] \in Leveled => level[e[1]] < level[e[2]]
  BY <1>2 DEF LevelsRise
<1>6. /\ rest \in Seq(Vertices) /\ Len(rest) = Len(order) - 1 /\ Len(order) \in Nat \ {0}
      /\ v = order[1] /\ v \in Vertices /\ \A i \in DOMAIN rest : rest[i] = order[i + 1]
  BY <1>1, <1>2, <1>3, TailSeq
<1>7. DOMAIN rest = 1..(Len(order) - 1) /\ DOMAIN order = 1..Len(order) /\ 1 \in DOMAIN order
  BY <1>3, <1>6
<1>8. /\ \A i : i \in DOMAIN order => i = 1 \/ (i - 1 \in DOMAIN rest /\ order[i] = rest[i - 1])
      /\ \A i \in DOMAIN rest : i + 1 \in DOMAIN order /\ i + 1 # 1 /\ i \in Int
  BY <1>6, <1>7
<1>9. Range(order) = Range(rest) \cup {v} /\ v \notin Range(rest) /\ OneToOne(rest)
  <2>1. Range(order) = Range(rest) \cup {v}
    BY <1>6, <1>7, <1>8 DEF Range
  <2>2. v \notin Range(rest)
    BY <1>5, <1>6, <1>7, <1>8 DEF OneToOne, Range
  <2>3. ASSUME NEW i \in DOMAIN rest, NEW k \in DOMAIN rest, rest[i] = rest[k] PROVE i = k
    <3>1. i + 1 = k + 1
      BY <1>5, <1>6, <1>8, <2>3 DEF OneToOne
    <3> QED
      BY <1>8, <3>1
  <2> QED
    BY <2>1, <2>2, <2>3 DEF OneToOne
<1>10. Leveled' = Leveled \cup {v} /\ v \notin Leveled
  BY <1>2, <1>6, <1>9 DEF Leveled
<1>11. \A e \in Enabled : e[1] \in Vertices /\ e[2] \in Vertices /\ e = <<e[1], e[2]>>
  BY <1>3, FiniteEdges DEF Enabled, TypeOK
<1>12. \A e \in Enabled : e[2] = v => e[1] \in Leveled
  <2>1. \A i \in 1..(1 - 1) : FALSE
    OBVIOUS
  <2> QED
    BY <1>5, <1>6, <1>7, <2>1
<1>13. level[v] \in Nat
  <2>1. level[v] \in Nat \cup {-1}
    BY <1>3, <1>6
  <2>2. CASE IsRoot(v)
    BY <1>5, <1>6, <2>1, <2>2
  <2>3. CASE ~IsRoot(v)
    <3>1. PICK e \in Enabled : e[2] = v
      BY <2>3 DEF IsRoot
    <3>2. e[1] \in Leveled /\ e[1] \in Vertices /\ level[e[1]] < level[v] /\ level[e[1]] >= 0
      BY <1>5, <1>11, <1>12, <3>1
    <3>3. level[e[1]] \in Nat \cup {-1}
      BY <1>3, <3>2
    <3> QED
      BY <2>1, <3>2, <3>3
  <2> QED
    BY <2>2, <2>3
<1>14. PICK n : n = level[v] + LevelSpace
  OBVIOUS
<1>15. n \in Nat /\ level[v] < n
  BY <1>3, <1>13, <1>14
<1>16. /\ \A w \in Vertices : level'[w] >= level[w] /\ level'[w] \in Nat \cup {-1}
       /\ \A w \in Vertices : w \in fanout => level'[w] >= n
       /\ \A w \in Vertices : w \notin fanout => level'[w] = level[w]
  <2>1. ASSUME NEW w \in Vertices
        PROVE  /\ level'[w] >= level[w] /\ level'[w] \in Nat \cup {-1}
               /\ w \in fanout => level'[w] >= n
               /\ w \notin fanout => level'[w] = level[w]
    <3>1. level[w] \in Nat \cup {-1}
      BY <1>3
    <3>2. level'[w] = IF w \in fanout THEN Larger(level[w], n) ELSE level[w]
      BY <1>2, <1>14
    <3> QED
      BY <1>15, <3>1, <3>2 DEF Larger
  <2> QED
    BY <2>1
<1>17. \A w \in Leveled \cup {v} : w \in Vertices /\ w \notin fanout
  <2>1. Leveled \subseteq Vertices
    BY DEF Leveled
  <2>2. ASSUME NEW w \in Leveled \cup {v}, <<v, w>> \in Enabled PROVE FALSE
    <3>1. PICK e : e = <<v, w>>
      OBVIOUS
    <3>2. e \in Enabled /\ e[1] = v /\ e[2] = w
      BY <2>2, <3>1
    <3>3. v \in Leveled
      BY <1>5, <1>12, <2>2, <3>2
    <3> QED
      BY <1>10, <3>3
  <2> QED
    BY <1>4, <1>6, <2>1, <2>2
<1>18. ASSUME NEW e \in Enabled, e[1] \in Leveled' PROVE level'[e[1]] < level'[e[2]]
  <2>1. e[1] \in Vertices /\ e[2] \in Vertices /\ level'[e[1]] = level[e[1]]
        /\ level[e[1]] \in Int /\ level[e[2]] \in Int /\ level'[e[2]] \in Int
    <3>1. e[1] \in Vertices /\ e[2] \in Vertices
      BY <1>11
    <3>2. level'[e[1]] = level[e[1]]
      BY <1>10, <1>16, <1>17, <1>18
    <3>3. level[e[1]] \in Nat \cup {-1} /\ level[e[2]] \in Nat \cup {-1} /\ level'[e[2]] \in Nat \cup {-1}
      BY <1>3, <1>16, <3>1
    <3> QED
      BY <3>1, <3>2, <3>3
  <2>2. CASE e[1] = v
    <3>1. e[2] \in fanout
      BY <1>4, <1>11, <1>13, <2>1, <2>2
    <3> QED
      BY <1>15, <1>16, <2>1, <2>2, <3>1
  <2>3. CASE e[1] \in Leveled
    BY <1>5, <1>16, <2>1, <2>3
  <2> QED
    BY <1>10, <1>18, <2>2, <2>3
<1>19. ASSUME NEW k \in DOMAIN rest, NEW e \in Enabled, e[2] = rest[k]
       PROVE  e[1] \in Leveled' \/ \E i \in 1..(k - 1) : rest[i] = e[1]
  <2>1. k + 1 \in DOMAIN order /\ e[2] = order[k + 1]
    BY <1>6, <1>8, <1>19
  <2>2. CASE e[1] \in Leveled
    BY <1>10, <2>2
  <2>3. ASSUME NEW i \in 1..k, order[i] = e[1]
        PROVE  e[1] \in Leveled' \/ \E j \in 1..(k - 1) : rest[j] = e[1]
    <3>1. CASE i = 1
      BY <1>6, <1>10, <2>3, <3>1
    <3>2. CASE i # 1
      <4>1. i \in DOMAIN order /\ i - 1 \in 1..(k - 1)
        BY <1>6, <1>7, <3>2
      <4>2. rest[i - 1] = e[1]
        BY <1>8, <2>3, <3>2, <4>1
      <4> QED
        BY <4>1, <4>2
    <3> QED
      BY <3>1, <3>2
  <2>4. e[1] \in Leveled \/ \E i \in 1..k : order[i] = e[1]
    <3>1. PICK next : next = k + 1
      OBVIOUS
    <3>2. next \in DOMAIN order /\ e[2] = order[next] /\ next - 1 = k
      BY <1>8, <2>1, <3>1
    <3>3. e[1] \in Leveled \/ \E i \in 1..(next - 1) : order[i] = e[1]
      BY <1>5, <3>2
    <3> QED
      BY <3>2, <3>3
  <2> QED
    BY <2>2, <2>3, <2>4
<1>20. ASSUME NEW w \in Vertices, IsRoot(w)' \/ w \in Leveled' PROVE level'[w] >= 0
  <2>1. level[w] \in Nat \cup {-1} /\ level'[w] \in Nat \cup {-1} /\ level'[w] >= level[w]
    BY <1>3, <1>16
  <2>2. level[w] >= 0
    <3>1. IsRoot(w)' => IsRoot(w)
      BY <1>3 DEF IsRoot
    <3> QED
      BY <1>5, <1>10, <1>13, <1>20, <3>1
  <2> QED
    BY <2>1, <2>2
<1>21. \A e \in Enabled : e[2] \in Leveled' => e[1] \in Leveled'
  BY <1>5, <1>10, <1>12
<1> QED
  BY <1>2, <1>3, <1>9, <1>18, <1>19, <1>20, <1>21 DEF LevelsRise

\* Levels were assigned to every vertex, so all edges go up in level.
LEMMA LevelsDone ==
  ASSUME Typed, LevelsRise, LevelsAssigned
  PROVE  EditsOrder'
<1>1. /\ pc = "assign" /\ order = <<>> /\ level' = [v \in Vertices |-> Larger(level[v], 0)]
      /\ UNCHANGED <<edges, disabled_loop_edges>>
  BY DEF LevelsAssigned, netVars, loopVars
<1>2. TypeOK /\ Enabled' = Enabled /\ level \in [Vertices -> Nat \cup {-1}]
  BY <1>1 DEF Typed, TypeOK, Enabled
<1>3. Leveled = Vertices
  BY <1>1 DEF Leveled, Range
<1>4. \A v \in Vertices : level'[v] = level[v]
  <2>1. \A v \in Vertices : level[v] >= 0 /\ level[v] \in Nat \cup {-1}
    BY <1>1, <1>2, <1>3 DEF LevelsRise
  <2> QED
    BY <1>1, <2>1 DEF Larger
<1>5. \A e \in Enabled : e[1] \in Vertices /\ e[2] \in Vertices
  BY <1>2, FiniteEdges DEF Enabled, TypeOK
<1>6. \A e \in Enabled : level'[e[1]] < level'[e[2]]
  BY <1>1, <1>3, <1>4, <1>5 DEF LevelsRise
<1> QED
  BY <1>2, <1>6 DEF EditsOrder

-----------------------------------------------------------------------------
(* The visits of relevelize.                                               *)

LEMMA VisitFromOrder ==
  ASSUME Typed, VisitsOrder, NEW v \in Vertices, VisitFrom(v)
  PROVE  VisitsOrder'
<1>1. /\ pc = "relevelize" /\ stack = <<>> /\ pending' = pending \ {v} /\ stack' = <<Frame(v)>>
      /\ path' = <<>> /\ UNCHANGED <<edges, level, disabled_loop_edges>>
  BY DEF VisitFrom, graphVars, netVars, levelVars, loopVars
<1>2. TypeOK /\ Enabled' = Enabled
  BY <1>1 DEF Typed, Enabled
<1>3. DOMAIN stack' = {1} /\ stack'[1].todo = OutEdges(v)
  BY <1>1, <1>2, StackStarted
<1>4. DOMAIN stack = {}
  BY <1>1
<1>5. ASSUME NEW e \in Enabled
      PROVE  \/ level[e[1]] < level[e[2]] \/ e[1] \in pending' \/ \E i \in DOMAIN stack' : e \in stack'[i].todo
  <2>1. CASE e[1] = v
    <3>1. e \in OutEdges(v)
      BY <2>1 DEF OutEdges, Enabled
    <3> QED
      BY <1>3, <3>1
  <2>2. CASE e[1] # v
    BY <1>1, <1>4, <2>2 DEF VisitsOrder
  <2> QED
    BY <2>1, <2>2
<1> QED
  BY <1>1, <1>2, <1>3, <1>5 DEF VisitsOrder

LEMMA VisitEdgeOrder ==
  ASSUME Typed, VisitsOrder, NEW e \in edges, VisitEdge(e)
  PROVE  VisitsOrder'
<1>1. pc = "relevelize" /\ pc' = pc /\ NextEdge(e) /\ UNCHANGED <<edges, pending>>
  BY DEF VisitEdge, netVars
<1>2. TypeOK /\ FrameEdges
  BY DEF Typed
<1>3. /\ stack \in Seq(FrameSet) /\ stack # <<>> /\ e \in Edges
      /\ e[1] = stack[Len(stack)].vertex /\ e[1] \in Vertices /\ e[2] \in Vertices
  BY <1>1, <1>2, TopEdge
<1>4. PICK n : n = Len(stack)
  OBVIOUS
<1>5. n \in Nat /\ n >= 1 /\ DOMAIN stack = 1..n /\ Top = stack[n] /\ n \in 1..n
  BY <1>3, <1>4, StackTop
<1>6. /\ \A i, k \in 1..n : stack[i].vertex = stack[k].vertex => i = k
      /\ \A x \in Enabled : \/ level[x[1]] < level[x[2]]
                            \/ x[1] \in pending
                            \/ \E i \in 1..n : x \in stack[i].todo
  BY <1>1, <1>5 DEF VisitsOrder
<1>7. /\ \A i \in 1..n : i # n => WithoutEdge(e)[i].todo = stack[i].todo
      /\ WithoutEdge(e)[n].todo = stack[n].todo \ {e}
  BY <1>1, <1>3, <1>4, <1>5, StackWithoutEdge
<1>8. \A x, i : i \in 1..n /\ x \in stack[i].todo /\ x # e => x \in WithoutEdge(e)[i].todo
  BY <1>7
<1>9. \A x \in Enabled : x[1] \in Vertices /\ x[2] \in Vertices
  BY <1>2, FiniteEdges DEF Enabled, TypeOK
<1>10. level \in [Vertices -> Nat \cup {-1}]
  BY <1>2 DEF TypeOK
<1>11. CASE VisitBackEdge(e) \/ VisitSkip(e)
  <2>1. stack' = WithoutEdge(e) /\ path' = path /\ level' = level /\ Enabled' \subseteq Enabled
        /\ (e \notin Enabled' \/ level[e[1]] < level[e[2]])
    <3>1. CASE VisitBackEdge(e)
      BY <1>1, <3>1 DEF VisitBackEdge, RecordLoop, Enabled
    <3>2. CASE VisitSkip(e)
      <4>1. level[e[1]] \in Nat \cup {-1} /\ level[e[2]] \in Nat \cup {-1}
        BY <1>3, <1>10
      <4> QED
        BY <1>1, <3>2, <4>1 DEF VisitSkip, MustRaise, Enabled, loopVars
    <3> QED
      BY <1>11, <3>1, <3>2
  <2>2. DOMAIN stack' = 1..n /\ \A i \in 1..n : stack'[i].vertex = stack[i].vertex
    BY <1>1, <1>2, <1>5, <2>1, PathSame
  <2>3. \A i, k \in 1..n : stack'[i].vertex = stack'[k].vertex => i = k
    BY <1>6, <2>2
  <2>4. ASSUME NEW x \in Enabled'
        PROVE  \/ level[x[1]] < level[x[2]] \/ x[1] \in pending \/ \E i \in 1..n : x \in stack'[i].todo
    <3>1. CASE x = e
      BY <2>1, <2>4, <3>1
    <3>2. CASE x # e
      BY <1>6, <1>8, <2>1, <2>4, <3>2
    <3> QED
      BY <3>1, <3>2
  <2> QED
    BY <1>1, <2>1, <2>2, <2>3, <2>4 DEF VisitsOrder
<1>12. CASE VisitRaise(e)
  <2>1. /\ e[2] \notin PathVertices /\ level[e[2]] <= level[e[1]]
        /\ level' = [level EXCEPT ![e[2]] = level[e[1]] + 1]
        /\ stack' = Append(WithoutEdge(e), Frame(e[2])) /\ path' = Append(path, e)
        /\ Enabled' = Enabled
    BY <1>1, <1>12 DEF VisitRaise, MustRaise, loopVars, Enabled
  <2>2. \A i \in 1..n : stack[i].vertex # e[2]
    BY <1>5, <2>1 DEF PathVertices
  <2>3. /\ Frame(e[2]) \in FrameSet /\ Frame(e[2]).vertex = e[2] /\ Frame(e[2]).todo = OutEdges(e[2])
        /\ \A i \in 1..n : stack'[i] = WithoutEdge(e)[i]
    BY <1>1, <1>2, <1>5, <2>1, FramesPush
  <2>4. /\ DOMAIN stack' = 1..(n + 1) /\ stack'[n + 1] = Frame(e[2])
        /\ \A i \in 1..n : stack'[i].vertex = stack[i].vertex
    BY <1>1, <1>2, <1>4, <1>5, <2>1, <2>3, PathPush
  <2>5. \A i \in 1..(n + 1) : i \in 1..n \/ i = n + 1
    BY <1>5
  <2>6. \A i, k \in 1..(n + 1) : stack'[i].vertex = stack'[k].vertex => i = k
    BY <1>6, <2>2, <2>3, <2>4, <2>5
  <2>7. \A i \in 1..n : i \in 1..(n + 1)
    BY <1>5
  <2>8. n + 1 \in 1..(n + 1)
    BY <1>5
  <2>9. e[1] # e[2]
    BY <1>3, <1>4, <1>5, <2>2
  <2>10. ASSUME NEW x \in Enabled
         PROVE  \/ level'[x[1]] < level'[x[2]] \/ x[1] \in pending
                \/ \E i \in 1..(n + 1) : x \in stack'[i].todo
    <3>1. CASE x[1] = e[2]
      <4>1. x \in OutEdges(e[2])
        BY <3>1 DEF OutEdges, Enabled
      <4> QED
        BY <2>3, <2>4, <2>8, <4>1
    <3>2. CASE x[1] # e[2] /\ x = e
      <4>1. level[e[1]] \in Nat \cup {-1}
        BY <1>3, <1>10
      <4>2. level'[e[1]] = level[e[1]] /\ level'[e[2]] = level[e[1]] + 1
        BY <1>3, <1>10, <2>1, <2>9
      <4> QED
        BY <3>2, <4>1, <4>2
    <3>3. CASE x[1] # e[2] /\ x # e
      <4>1. level'[x[1]] = level[x[1]] /\ level[x[1]] \in Int /\ level[x[2]] \in Int /\ level'[x[2]] >= level[x[2]]
            /\ level'[x[2]] \in Int
        <5>1. level[x[1]] \in Nat \cup {-1} /\ level[x[2]] \in Nat \cup {-1} /\ level[e[1]] \in Nat \cup {-1}
          BY <1>3, <1>9, <1>10
        <5>2. level'[x[1]] = level[x[1]]
          BY <1>9, <1>10, <2>1, <3>3
        <5>3. level'[x[2]] = IF x[2] = e[2] THEN level[e[1]] + 1 ELSE level[x[2]]
          BY <1>9, <1>10, <2>1
        <5> QED
          BY <2>1, <5>1, <5>2, <5>3
      <4>2. CASE level[x[1]] < level[x[2]]
        BY <4>1, <4>2
      <4>3. CASE x[1] \in pending
        BY <4>3
      <4>4. CASE \E i \in 1..n : x \in stack[i].todo
        BY <1>8, <2>3, <2>7, <3>3, <4>4
      <4> QED
        BY <1>6, <4>2, <4>3, <4>4
    <3> QED
      BY <3>1, <3>2, <3>3
  <2> QED
    BY <1>1, <2>1, <2>4, <2>6, <2>10 DEF VisitsOrder
<1> QED
  BY <1>11, <1>12 DEF VisitEdge

LEMMA VisitReturnOrder ==
  ASSUME Typed, VisitsOrder, VisitReturn
  PROVE  VisitsOrder'
<1>1. /\ pc = "relevelize" /\ pc' = pc /\ stack # <<>> /\ Top.todo = {}
      /\ stack' = Front(stack) /\ path' = PathAfterPop
      /\ UNCHANGED <<edges, level, disabled_loop_edges, pending>>
  BY DEF VisitReturn, graphVars, netVars, levelVars, loopVars
<1>2. TypeOK /\ stack \in Seq(FrameSet) /\ Enabled' = Enabled
  BY <1>1 DEF Typed, TypeOK, FrameSet, Enabled
<1>3. PICK n : n = Len(stack)
  OBVIOUS
<1>4. n \in Nat /\ n >= 1 /\ DOMAIN stack = 1..n /\ Top = stack[n]
  BY <1>1, <1>2, <1>3, StackTop
<1>5. DOMAIN stack' = 1..(n - 1) /\ \A i \in 1..(n - 1) : stack'[i] = stack[i]
  BY <1>1, <1>2, <1>3, PathPop
<1>6. /\ \A i \in 1..(n - 1) : i \in 1..n
      /\ \A i \in 1..n : i \in 1..(n - 1) \/ i = n
  BY <1>4
<1>7. /\ \A i, k \in 1..n : stack[i].vertex = stack[k].vertex => i = k
      /\ \A x \in Enabled : \/ level[x[1]] < level[x[2]]
                            \/ x[1] \in pending
                            \/ \E i \in 1..n : x \in stack[i].todo
  BY <1>1, <1>4 DEF VisitsOrder
<1>8. \A i, k \in 1..(n - 1) : stack'[i].vertex = stack'[k].vertex => i = k
  BY <1>5, <1>6, <1>7
<1>9. \A x : (\E i \in 1..n : x \in stack[i].todo) => \E i \in 1..(n - 1) : x \in stack'[i].todo
  BY <1>1, <1>4, <1>5, <1>6
<1>10. \A x \in Enabled : \/ level[x[1]] < level[x[2]]
                          \/ x[1] \in pending
                          \/ \E i \in 1..(n - 1) : x \in stack'[i].todo
  BY <1>7, <1>9
<1> QED
  BY <1>1, <1>2, <1>5, <1>8, <1>10 DEF VisitsOrder

\* Every instance has the arcs it had with the cell that replaces its cell.  With
\* arcs of their own the new cell's edges can go down in level.
SameArcs == \A c, d \in Cells : c = d

LEMMA EditOrder ==
  ASSUME SameArcs, Typed, EditsOrder, EditStep
  PROVE  EditsOrder'
<1>1. pc = "idle" /\ pc' = pc /\ level' = level /\ TypeOK
  BY DEF EditStep, ConnectPin, DisconnectPin, ReplaceCell, Invalid, Edit, levelVars, Typed
<1>2. levelized => \A e \in Enabled : level[e[1]] < level[e[2]] \/ e[1] \in relevelize_from
  BY <1>1 DEF EditsOrder
<1>3. ASSUME NEW p \in NetPins, ConnectPin(p) PROVE EditsOrder'
  <2> DEFINE from == IF IsDriver(p) THEN {p} ELSE {e[1] : e \in {f \in edges' : f[2] = p}}
  <2>1. /\ edges' = edges \cup WiresOf(p, connected') /\ levelized' = levelized
        /\ disabled_loop_edges' = disabled_loop_edges
        /\ relevelize_from' = IF levelized THEN relevelize_from \cup from ELSE relevelize_from
    BY <1>3 DEF ConnectPin, RelevelizeFrom, loopVars
  <2>2. ASSUME NEW e \in WiresOf(p, connected') PROVE e[1] \in from
    <3>1. e \in Wires /\ p \in {e[1], e[2]} /\ e \in edges'
      BY <2>1, <2>2 DEF WiresOf
    <3>2. CASE IsDriver(p)
      <4>1. e[2] # p
        BY <3>1, <3>2, LevelizeAssumption DEF IsDriver
      <4> QED
        BY <3>1, <3>2, <4>1
    <3>3. CASE ~IsDriver(p)
      <4>1. e[2] = p
        BY <3>1, <3>3 DEF IsDriver
      <4> QED
        BY <3>1, <3>3, <4>1
    <3> QED
      BY <3>2, <3>3
  <2> HIDE DEF from
  <2>3. Enabled' \subseteq Enabled \cup WiresOf(p, connected')
    BY <2>1 DEF Enabled
  <2> QED
    BY <1>1, <1>2, <2>1, <2>2, <2>3 DEF EditsOrder
<1>4. ASSUME NEW deleted, IsFiniteSet(deleted), deleted \subseteq Edges, edges' \subseteq edges,
             \E sorted \in SetToSeqs(deleted) : DeleteEdges(sorted)
      PROVE  EditsOrder'
  <2>1. levelized' => /\ levelized /\ relevelize_from \subseteq relevelize_from'
                      /\ disabled_loop_edges' = disabled_loop_edges
    BY <1>4, DeletedSeen
  <2>2. levelized' => Enabled' \subseteq Enabled
    BY <1>4, <2>1 DEF Enabled
  <2> QED
    BY <1>1, <1>2, <2>1, <2>2 DEF EditsOrder
<1>5. ASSUME NEW p \in NetPins, DisconnectPin(p) PROVE EditsOrder'
  <2>1. PICK deleted : deleted = WiresOf(p, connected)
    OBVIOUS
  <2>2. deleted \subseteq Edges
    BY <2>1 DEF WiresOf, Edges
  <2>3. /\ IsFiniteSet(deleted) /\ edges' = edges \ deleted
        /\ \E sorted \in SetToSeqs(deleted) : DeleteEdges(sorted)
    BY <1>5, <2>1, <2>2, FiniteEdges DEF DisconnectPin
  <2> QED
    BY <1>4, <2>2, <2>3
<1>6. ASSUME NEW old \in Cells, NEW new \in Cells, ReplaceCell(old, new) PROVE EditsOrder'
  <2>1. old \subseteq Edges /\ new = old
    BY DEF Edges, SameArcs
  <2>2. /\ IsFiniteSet(old) /\ edges' \subseteq edges
        /\ \E sorted \in SetToSeqs(old) : DeleteEdges(sorted)
    BY <1>6, <2>1, FiniteEdges DEF ReplaceCell
  <2> QED
    BY <1>4, <2>1, <2>2
<1>7. CASE Invalid
  BY <1>7 DEF Invalid, EditsOrder
<1> QED
  BY <1>3, <1>5, <1>6, <1>7 DEF EditStep

-----------------------------------------------------------------------------
(* The order of the levels.                                                *)

LEMMA NextOrder ==
  ASSUME SameArcs, Typed, LoopsBroken, RootsFound, RootsUndriven', OrderInv, [Next]_vars
  PROVE  OrderInv'
<1>1. Sorted /\ LevelsRise /\ VisitsOrder /\ EditsOrder
  BY DEF OrderInv
<1>2. CASE EditStep
  <2>1. pc' = "idle"
    BY <1>2 DEF EditStep, ConnectPin, DisconnectPin, ReplaceCell, Invalid, Edit
  <2>2. EditsOrder'
    BY <1>1, <1>2, EditOrder
  <2> QED
    BY <2>1, <2>2 DEF OrderInv, Sorted, LevelsRise, VisitsOrder
<1>3. CASE \/ FindLevels \/ LeaveVertex \/ FindUnvisited
           \/ \E e \in edges : FindBackEdge(e)
           \/ \E v \in Vertices : FindCycleBackEdges(v)
  <2>1. pc' \in {"back_edges", "cycles"}
    BY <1>3 DEF FindLevels, LeaveVertex, FindUnvisited, FindBackEdge, FindCycleBackEdges
  <2> QED
    BY <2>1 DEF OrderInv, Sorted, LevelsRise, VisitsOrder, EditsOrder
<1>4. CASE FindInDegrees \/ FindTopologicalOrder
  <2>1. pc' = "topo"
    BY <1>4 DEF FindInDegrees, FindTopologicalOrder
  <2>2. Sorted'
    BY <1>1, <1>4, SortStarts, SortStep
  <2> QED
    BY <2>1, <2>2 DEF OrderInv, LevelsRise, VisitsOrder, EditsOrder
<1>5. CASE AssignLevels \/ AssignLevel
  <2>1. pc' = "assign"
    BY <1>5 DEF AssignLevels, AssignLevel
  <2>2. LevelsRise'
    BY <1>1, <1>5, LevelsStart, LevelStep
  <2> QED
    BY <2>1, <2>2 DEF OrderInv, Sorted, VisitsOrder, EditsOrder
<1>6. CASE LevelsAssigned
  <2>1. pc' = "idle"
    BY <1>6 DEF LevelsAssigned
  <2>2. EditsOrder'
    BY <1>1, <1>6, LevelsDone
  <2> QED
    BY <2>1, <2>2 DEF OrderInv, Sorted, LevelsRise, VisitsOrder
<1>7. CASE Relevelize
  <2>1. /\ pc = "idle" /\ levelized /\ pending' = relevelize_from /\ pc' = "relevelize"
        /\ UNCHANGED <<edges, level, disabled_loop_edges, stack>>
    BY <1>7 DEF Relevelize, graphVars, netVars, levelVars, loopVars, dfsVars
  <2>2. stack = <<>> /\ DOMAIN stack' = {}
    BY <2>1 DEF Typed, Phases, Searching
  <2>3. VisitsOrder'
    BY <1>1, <2>1, <2>2 DEF VisitsOrder, EditsOrder, Enabled
  <2> QED
    BY <2>1, <2>3 DEF OrderInv, Sorted, LevelsRise, EditsOrder
<1>8. CASE VisitReturn \/ (\E v \in Vertices : VisitFrom(v)) \/ \E e \in edges : VisitEdge(e)
  <2>1. pc' = "relevelize"
    BY <1>8 DEF VisitReturn, VisitFrom, VisitEdge
  <2>2. VisitsOrder'
    BY <1>1, <1>8, VisitFromOrder, VisitEdgeOrder, VisitReturnOrder
  <2> QED
    BY <2>1, <2>2 DEF OrderInv, Sorted, LevelsRise, EditsOrder
<1>9. CASE RelevelizeEnd
  <2>1. /\ pc = "relevelize" /\ pc' = "idle" /\ pending = {} /\ stack = <<>>
        /\ UNCHANGED <<edges, level, disabled_loop_edges>>
    BY <1>9 DEF RelevelizeEnd, graphVars, netVars, levelVars, loopVars
  <2>2. DOMAIN stack = {}
    BY <2>1
  <2>3. EditsOrder'
    BY <1>1, <2>1, <2>2 DEF VisitsOrder, EditsOrder, Enabled
  <2> QED
    BY <2>1, <2>3 DEF OrderInv, Sorted, LevelsRise, VisitsOrder
<1>10. CASE UNCHANGED vars
  <2>1. UNCHANGED <<edges, level, levelized, disabled_loop_edges, relevelize_from, stack,
                    pending, in_degree, queue, order, pc>>
    BY <1>10 DEF vars, graphVars, netVars, levelVars, validVars, loopVars, dfsVars, topoVars
  <2>2. Enabled' = Enabled /\ Unsorted' = Unsorted /\ Leveled' = Leveled
    BY <2>1 DEF Enabled, Unsorted, Leveled
  <2>3. Sorted'
    BY <1>1, <2>1, <2>2 DEF Sorted, DrivenBy
  <2>4. LevelsRise' /\ VisitsOrder' /\ EditsOrder'
    BY <1>1, <2>1, <2>2 DEF LevelsRise, IsRoot, VisitsOrder, EditsOrder
  <2> QED
    BY <2>3, <2>4 DEF OrderInv
<1> QED
  BY <1>2, <1>3, <1>4, <1>5, <1>6, <1>7, <1>8, <1>9, <1>10 DEF Next, FindLevelsStep, RelevelizeStep

\* When the levels are valid every enabled edge goes up in level and no level is
\* above max_level, after any edits, where an instance keeps its arcs and breaking
\* the loops that no root reaches left no root driven by an enabled edge.
THEOREM OrderedLevels ==
  ASSUME SameArcs
  PROVE  Spec /\ []RootsUndriven => []LevelsOrdered
<1>1. Init => OrderInv
  BY DEF Init, OrderInv, Sorted, LevelsRise, VisitsOrder, EditsOrder
<1>2. LevelizeInv /\ RootsUndriven' /\ OrderInv /\ [Next]_vars => OrderInv'
  BY NextOrder DEF LevelizeInv, Typed
<1>3. LevelizeInv /\ OrderInv => LevelsOrdered
  BY DEF LevelizeInv, Phases, OrderInv, EditsOrder, LevelsOrdered, EdgesGoUp
<1> QED
  BY <1>1, <1>2, <1>3, InductiveInvariant, PTL DEF Spec
=============================================================================
