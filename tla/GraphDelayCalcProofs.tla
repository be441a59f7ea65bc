------------------------ MODULE GraphDelayCalcProofs ------------------------
(***************************************************************************)
(* Proofs about GraphDelayCalc: the types for every graph, and, for the    *)
(* edits of HandledEdits, that no out of date delay is forgotten and that  *)
(* an answer is right up to the level it was asked for.                    *)
(***************************************************************************)
EXTENDS GraphDelayCalc, FiniteSetTheorems, WellFoundedInduction, TLAPS

-----------------------------------------------------------------------------
(* Folds over finite sets.                                                 *)

Some(u) == CHOOSE x \in u : TRUE

\* What holds of the empty set, and of a set if it holds without one of its
\* elements, holds of every finite set.
LEMMA FoldInduction ==
  ASSUME NEW S, IsFiniteSet(S), NEW Good, {} \in Good,
         \A u \in SUBSET S : u # {} /\ u \ {Some(u)} \in Good => u \in Good
  PROVE  S \in Good
<1> DEFINE Bad == {u \in SUBSET S : u \notin Good}
           Sizes == {Cardinality(u) : u \in Bad}
           Smaller == {ss \in Nat \X Nat : ss[1] < ss[2]}
<1>1. \A u \in SUBSET S : IsFiniteSet(u) /\ Cardinality(u) \in Nat
  BY FS_Subset, FS_CardinalityType
<1>2. SUFFICES ASSUME Bad # {} PROVE FALSE
  OBVIOUS
<1>3. IsWellFoundedOn(Smaller, Nat)
  BY NatLessThanWellFounded DEF OpToRel
<1>4. Sizes \subseteq Nat /\ Sizes # {}
  BY <1>1, <1>2
<1>5. \E n \in Sizes : \A m \in Sizes : <<m, n>> \notin Smaller
  <2> HIDE DEF Smaller, Sizes
  <2> QED
    BY <1>3, <1>4, WFMin
<1>6. PICK u \in Bad : \A w \in Bad : <<Cardinality(w), Cardinality(u)>> \notin Smaller
  BY <1>5
<1>7. u # {} /\ Some(u) \in u
  <2>1. u \notin Good
    BY <1>6
  <2>2. u # {}
    BY <2>1
  <2> QED
    BY <2>2 DEF Some
<1>8. Cardinality(u \ {Some(u)}) = Cardinality(u) - 1
  BY <1>1, <1>7, FS_RemoveElement
<1>9. u \ {Some(u)} \in SUBSET S /\ u \in SUBSET S
  BY <1>6
<1>10. Cardinality(u) \in Nat /\ Cardinality(u \ {Some(u)}) \in Nat
  BY <1>1, <1>9
<1>11. <<Cardinality(u \ {Some(u)}), Cardinality(u)>> \in Smaller
  BY <1>8, <1>10
<1>12. u \ {Some(u)} \notin Bad
  <2> HIDE DEF Smaller, Bad
  <2> QED
    BY <1>6, <1>11
<1> QED
  BY <1>6, <1>7, <1>9, <1>12

FoldOf(S, base, F, g, u) == IF u = {} THEN base ELSE F[<<Some(u), g[u \ {Some(u)}]>>]

HasFold(S, base, F, T) ==
  \E g \in [SUBSET S -> T] : \A u \in SUBSET S : g[u] = FoldOf(S, base, F, g, u)

\* The function that a fold is taken from exists.
LEMMA FoldExists ==
  ASSUME NEW S, IsFiniteSet(S), NEW T, NEW base \in T, NEW F \in [S \X T -> T]
  PROVE  HasFold(S, base, F, T)
<1> DEFINE Small(n) == {u \in SUBSET S : Cardinality(u) <= n}
           Solves(g, n) == /\ g \in [Small(n) -> T]
                           /\ \A u \in Small(n) : g[u] = FoldOf(S, base, F, g, u)
           Unsolved == {n \in Nat : ~\E g : Solves(g, n)}
           Smaller == {ss \in Nat \X Nat : ss[1] < ss[2]}
<1>1. \A u \in SUBSET S : IsFiniteSet(u) /\ Cardinality(u) \in Nat /\ Cardinality(u) <= Cardinality(S)
  BY FS_Subset, FS_CardinalityType
<1>2. \A u \in SUBSET S : u # {} => /\ Some(u) \in S /\ u \ {Some(u)} \in SUBSET S
                                    /\ Cardinality(u \ {Some(u)}) = Cardinality(u) - 1
  <2> TAKE u \in SUBSET S
  <2> HAVE u # {}
  <2>1. Some(u) \in u
    BY DEF Some
  <2> QED
    BY <1>1, <2>1, FS_RemoveElement
<1>3. \E g : Solves(g, 0)
  <2> DEFINE g == [u \in Small(0) |-> base]
  <2>1. \A u \in Small(0) : u = {}
    <3> TAKE u \in Small(0)
    <3>1. IsFiniteSet(u) /\ Cardinality(u) \in Nat /\ Cardinality(u) <= 0
      BY <1>1
    <3>2. Cardinality(u) = 0
      BY <3>1
    <3> QED
      BY <3>1, <3>2, FS_EmptySet
  <2>2. g \in [Small(0) -> T]
    OBVIOUS
  <2>3. \A u \in Small(0) : g[u] = FoldOf(S, base, F, g, u)
    BY <2>1 DEF FoldOf
  <2> QED
    <3> HIDE DEF g
    <3> QED
      BY <2>2, <2>3
<1>4. ASSUME NEW n \in Nat, \E g : Solves(g, n)
      PROVE  \E g : Solves(g, n + 1)
  <2>1. PICK g : Solves(g, n)
    BY <1>4
  <2> DEFINE h == [u \in Small(n + 1) |-> FoldOf(S, base, F, g, u)]
  <2>2. \A u \in Small(n + 1) : u # {} => u \ {Some(u)} \in Small(n) /\ Some(u) \in S
    BY <1>1, <1>2
  <2>3. h \in [Small(n + 1) -> T]
    <3>1. \A u \in Small(n + 1) : FoldOf(S, base, F, g, u) \in T
      <4> TAKE u \in Small(n + 1)
      <4>1. CASE u = {}
        BY <4>1 DEF FoldOf
      <4>2. CASE u # {}
        <5>1. g[u \ {Some(u)}] \in T /\ Some(u) \in S
          BY <2>1, <2>2, <4>2
        <5> QED
          BY <4>2, <5>1 DEF FoldOf
      <4> QED
        BY <4>1, <4>2
    <3> QED
      BY <3>1
  <2>4. \A u \in Small(n) : u \in Small(n + 1) /\ h[u] = g[u]
    <3> TAKE u \in Small(n)
    <3>1. u \in Small(n + 1)
      BY <1>1
    <3>2. g[u] = FoldOf(S, base, F, g, u)
      BY <2>1
    <3> QED
      BY <3>1, <3>2
  <2>5. \A u \in Small(n + 1) : h[u] = FoldOf(S, base, F, h, u)
    <3> TAKE u \in Small(n + 1)
    <3>1. h[u] = FoldOf(S, base, F, g, u)
      OBVIOUS
    <3>2. u # {} => h[u \ {Some(u)}] = g[u \ {Some(u)}]
      BY <2>2, <2>4
    <3> HIDE DEF h
    <3> QED
      BY <3>1, <3>2 DEF FoldOf
  <2> QED
    <3> HIDE DEF h
    <3> QED
      BY <2>3, <2>5
<1>5. Unsolved = {}
  <2> SUFFICES ASSUME Unsolved # {} PROVE FALSE
    OBVIOUS
  <2>1. IsWellFoundedOn(Smaller, Nat)
    BY NatLessThanWellFounded DEF OpToRel
  <2>2. Unsolved \subseteq Nat
    OBVIOUS
  <2>3. \E n \in Unsolved : \A m \in Unsolved : <<m, n>> \notin Smaller
    <3> HIDE DEF Smaller, Unsolved
    <3> QED
      BY <2>1, <2>2, WFMin
  <2>4. PICK n \in Unsolved : \A m \in Unsolved : <<m, n>> \notin Smaller
    BY <2>3
  <2>5. n # 0 /\ n \in Nat
    <3> HIDE DEF Solves
    <3> QED
      BY <1>3, <2>4
  <2>6. n - 1 \in Nat /\ n - 1 < n
    BY <2>5
  <2>7. n - 1 \notin Unsolved
    <3> HIDE DEF Unsolved
    <3> QED
      BY <2>2, <2>4, <2>5, <2>6
  <2>8. \E g : Solves(g, n - 1)
    BY <2>6, <2>7
  <2>9. \E g : Solves(g, (n - 1) + 1)
    <3> HIDE DEF Solves
    <3> QED
      BY <2>6, <2>8, <1>4
  <2>10. (n - 1) + 1 = n
    BY <2>5
  <2>11. \E g : Solves(g, n)
    <3> HIDE DEF Solves
    <3> QED
      BY <2>9, <2>10
  <2> QED
    BY <2>4, <2>11
<1>6. PICK g : Solves(g, Cardinality(S))
  BY <1>1, <1>5
<1>7. Small(Cardinality(S)) = SUBSET S
  BY <1>1
<1> QED
  BY <1>6, <1>7 DEF HasFold

\* An integer function with a finite, non-empty domain takes its greatest value
\* somewhere.
LEMMA FiniteArgMax ==
  ASSUME NEW S, IsFiniteSet(S), S # {}, NEW f, \A x \in S : f[x] \in Int
  PROVE  \E x \in S : \A y \in S : f[y] <= f[x]
<1> DEFINE Good == {u \in SUBSET S : u = {} \/ \E x \in u : \A y \in u : f[y] <= f[x]}
<1>1. {} \in Good
  OBVIOUS
<1>2. ASSUME NEW u \in SUBSET S, u # {}, u \ {Some(u)} \in Good
      PROVE  u \in Good
  <2>1. Some(u) \in u
    BY <1>2 DEF Some
  <2>2. CASE u \ {Some(u)} = {}
    <3>1. \A y \in u : f[y] <= f[Some(u)]
      <4> TAKE y \in u
      <4>1. y = Some(u)
        BY <2>2
      <4>2. f[y] \in Int
        OBVIOUS
      <4> QED
        BY <4>1, <4>2
    <3> QED
      BY <2>1, <3>1
  <2>3. CASE u \ {Some(u)} # {}
    <3>1. PICK x \in u \ {Some(u)} : \A y \in u \ {Some(u)} : f[y] <= f[x]
      BY <1>2, <2>3
    <3>2. f[x] \in Int /\ f[Some(u)] \in Int /\ \A y \in u : f[y] \in Int
      BY <2>1
    <3>3. CASE f[Some(u)] <= f[x]
      <4>1. \A y \in u : f[y] <= f[x]
        BY <3>1, <3>3
      <4> QED
        BY <4>1
    <3>4. CASE f[x] <= f[Some(u)]
      <4>1. \A y \in u : f[y] <= f[Some(u)]
        BY <3>1, <3>2, <3>4
      <4> QED
        BY <2>1, <4>1
    <3> QED
      BY <3>2, <3>3, <3>4
  <2> QED
    BY <2>2, <2>3
<1>3. S \in Good
  <2> HIDE DEF Good
  <2> QED
    BY <1>1, <1>2, FoldInduction
<1> QED
  BY <1>3

LEMMA MaxOfFinite ==
  ASSUME NEW S, IsFiniteSet(S), S # {}, S \subseteq Int
  PROVE  MaxOf(S) \in S /\ \A y \in S : y <= MaxOf(S)
<1> DEFINE f == [x \in S |-> x]
<1>1. PICK x \in S : \A y \in S : f[y] <= f[x]
  <2>1. \A x \in S : f[x] \in Int
    OBVIOUS
  <2> HIDE DEF f
  <2> QED
    BY <2>1, FiniteArgMax
<1>2. \A y \in S : x >= y
  BY <1>1
<1>3. MaxOf(S) \in S /\ \A y \in S : MaxOf(S) >= y
  BY <1>2 DEF MaxOf
<1> QED
  BY <1>3

LEMMA MaxOfUnique ==
  ASSUME NEW S, IsFiniteSet(S), S \subseteq Int, NEW x \in S, \A y \in S : y <= x
  PROVE  MaxOf(S) = x
<1>1. S # {}
  OBVIOUS
<1>2. MaxOf(S) \in S /\ \A y \in S : y <= MaxOf(S)
  BY <1>1, MaxOfFinite
<1>3. x <= MaxOf(S) /\ MaxOf(S) <= x /\ x \in Int /\ MaxOf(S) \in Int
  BY <1>2
<1> QED
  BY <1>3

LEMMA HighestOf ==
  ASSUME NEW S \in SUBSET Vertices, S # {}
  PROVE  Highest(S) \in S /\ \A e \in S : Level[e] <= Level[Highest(S)]
<1>1. IsFiniteSet(S) /\ \A x \in S : Level[x] \in Int
  BY GraphDelayCalcAssumption, FS_Subset
<1>2. \E d \in S : \A e \in S : Level[e] <= Level[d]
  BY <1>1, FiniteArgMax
<1> QED
  BY <1>2 DEF Highest

-----------------------------------------------------------------------------
(* The graph.                                                              *)

LEMMA EdgeFacts ==
  /\ \A e \in Wires : e = <<e[1], e[2]>> /\ e[1] \in Drivers /\ e[2] \in Vertices /\ e[2] \notin Drivers
  /\ \A e \in Arcs \cup LatchArcs :
       e = <<e[1], e[2]>> /\ e[1] \in Vertices /\ e[1] \notin Drivers /\ e[2] \in Drivers
  /\ \A e \in Checks : /\ e = <<e[1], e[2]>> /\ e[1] \in Vertices /\ e[1] \notin Drivers
                       /\ e[2] \in Vertices /\ e[2] \notin Drivers
  /\ Drivers \subseteq Vertices /\ Ports \subseteq Drivers
BY GraphDelayCalcAssumption DEF Ports

LEMMA LevelFacts ==
  /\ \A v \in Vertices : Level[v] \in Nat
  /\ \A e \in Wires \cup Arcs : Level[e[1]] < Level[e[2]]
BY GraphDelayCalcAssumption

LEMMA EdgesFinite ==
  /\ IsFiniteSet(Vertices) /\ IsFiniteSet(Drivers) /\ IsFiniteSet(Wires) /\ IsFiniteSet(Arcs)
  /\ \A S \in SUBSET Vertices : IsFiniteSet(S)
  /\ \A S \in SUBSET Wires : IsFiniteSet(S)
  /\ \A S \in SUBSET Arcs : IsFiniteSet(S)
<1>1. IsFiniteSet(Vertices) /\ IsFiniteSet(Vertices \X Vertices)
  BY GraphDelayCalcAssumption, FS_Product
<1>2. Wires \in SUBSET (Vertices \X Vertices) /\ Arcs \in SUBSET (Vertices \X Vertices)
  BY GraphDelayCalcAssumption
<1>3. IsFiniteSet(Wires) /\ IsFiniteSet(Arcs) /\ IsFiniteSet(Drivers)
  BY <1>1, <1>2, GraphDelayCalcAssumption, FS_Subset
<1> QED
  BY <1>1, <1>3, FS_Subset

LEMMA SlewFacts ==
  /\ 0 \in Slews /\ NoSlew \in Slews /\ Slews \subseteq Int /\ \A s \in Slews : NoSlew <= s
  /\ Slews \subseteq Nat \cup {NoSlew} /\ Caps \subseteq Nat /\ NoSlew = -1
BY GraphDelayCalcAssumption DEF NoSlew

LEMMA ImageFinite ==
  ASSUME NEW S, IsFiniteSet(S), NEW f
  PROVE  IsFiniteSet({f[x] : x \in S})
<1> DEFINE T == {f[x] : x \in S}
           g == [x \in S |-> f[x]]
<1>1. g \in Surjection(S, T)
  BY DEF Surjection
<1> QED
  <2> HIDE DEF g, T
  <2>1. IsFiniteSet(T)
    BY <1>1, FS_Surjection
  <2> QED
    BY <2>1 DEF T

-----------------------------------------------------------------------------
(* What the delay calculator leaves in the graph.                          *)

GraphType == [slew : [Vertices -> Slews], delay : [Edges -> Nat]]
MultiNets == [drvrs : SUBSET Drivers, dcalc_drvr : Drivers, cap : Caps]

\* What TypeOK needs besides to hold of the next state.
Typed ==
  /\ TypeOK
  /\ slew \in [Vertices -> Slews]
  /\ input_slew \in [Ports -> Slews] /\ ext_cap \in [Drivers -> ExtCaps \cup {0}]
  /\ multi_drvr_net_map \in [Drivers -> MultiNets \cup {NoMultiDrvr}]

\* The worst slew at d, where the slews of the graph are s.
GateSlewOf(s, d, cap) == MaxOf({GateSlew[s[e[1]], cap] : e \in FaninArcs(d)})
LoadsOf(d) == {w[2] : w \in WiresFrom(d)}

LEMMA LocalFacts ==
  ASSUME Typed, NEW d \in Drivers
  PROVE  /\ FaninArcs(d) \in SUBSET Arcs /\ IsFiniteSet(FaninArcs(d))
         /\ \A e \in FaninArcs(d) : e[2] = d /\ e[1] \in Vertices /\ e \in Edges
         /\ WiresFrom(d) \in SUBSET Wires /\ WiresFrom(d) \subseteq Edges
         /\ LoadsOf(d) \in SUBSET (Vertices \ Drivers)
         /\ ConnectedCap(d) \in Caps
         /\ NetDrivers(d) \in SUBSET Drivers
<1>1. FaninArcs(d) \in SUBSET Arcs
  BY DEF FaninArcs, Enabled
<1>2. WiresFrom(d) \in SUBSET Wires /\ wires \subseteq Wires
  BY DEF WiresFrom, Typed, TypeOK
<1>3. \A e \in FaninArcs(d) : e[2] = d /\ e[1] \in Vertices /\ e \in Edges
  BY <1>1, EdgeFacts DEF FaninArcs, Edges
<1>4. IsFiniteSet(FaninArcs(d))
  BY <1>1, EdgesFinite
<1>5. LoadsOf(d) \in SUBSET (Vertices \ Drivers)
  BY <1>2, EdgeFacts DEF LoadsOf
<1>6. ConnectedCap(d) \in Caps
  <2>1. ext_cap[d] \in ExtCaps \cup {0}
    BY DEF Typed
  <2> QED
    BY <1>2, <2>1, GraphDelayCalcAssumption DEF ConnectedCap
<1>7. NetDrivers(d) \in SUBSET Drivers
  BY <1>2, EdgeFacts DEF NetDrivers
<1> QED
  BY <1>1, <1>2, <1>3, <1>4, <1>5, <1>6, <1>7 DEF Edges

LEMMA TableFacts ==
  /\ \A s \in Slews, c \in Caps : GateDelay[s, c] \in Nat /\ GateSlew[s, c] \in Slews
  /\ \A s \in Slews, t \in Slews : CheckDelay[s, t] \in Nat
BY GraphDelayCalcAssumption

LEMMA GateSlewType ==
  ASSUME Typed, NEW s \in [Vertices -> Slews], NEW d \in Drivers, NEW cap \in Caps,
         FaninArcs(d) # {}
  PROVE  /\ GateSlewOf(s, d, cap) \in {GateSlew[s[e[1]], cap] : e \in FaninArcs(d)}
         /\ GateSlewOf(s, d, cap) \in Slews
<1> DEFINE f == [e \in FaninArcs(d) |-> GateSlew[s[e[1]], cap]]
           S == {f[e] : e \in FaninArcs(d)}
<1>1. S = {GateSlew[s[e[1]], cap] : e \in FaninArcs(d)}
  OBVIOUS
<1>2. S \subseteq Slews
  <2>1. \A e \in FaninArcs(d) : s[e[1]] \in Slews
    BY LocalFacts
  <2> QED
    BY <2>1, TableFacts
<1>3. IsFiniteSet(S)
  <2> HIDE DEF f
  <2> QED
    BY LocalFacts, ImageFinite
<1>4. S # {}
  OBVIOUS
<1>5. MaxOf(S) \in S
  <2> HIDE DEF S
  <2> QED
    BY <1>2, <1>3, <1>4, SlewFacts, MaxOfFinite
<1> QED
  BY <1>1, <1>2, <1>5 DEF GateSlewOf

\* The slew of a load after a driver of its net is found.
MergedSlew(g, d, l, cap) ==
  IF FaninArcs(d) = {} THEN 0
  ELSE IF d \in slew_annotated THEN g.slew[d]
  ELSE MaxOf({g.slew[l], GateSlewOf(g.slew, d, cap)})

LEMMA MergedSlewType ==
  ASSUME Typed, NEW g \in GraphType, NEW d \in Drivers, NEW l \in Vertices, NEW cap \in Caps
  PROVE  MergedSlew(g, d, l, cap) \in Slews
<1>1. g.slew \in [Vertices -> Slews] /\ d \in Vertices
  BY EdgeFacts DEF GraphType
<1>2. CASE FaninArcs(d) = {}
  BY <1>2, SlewFacts DEF MergedSlew
<1>3. CASE FaninArcs(d) # {}
  <2>1. GateSlewOf(g.slew, d, cap) \in Slews
    BY <1>1, <1>3, GateSlewType
  <2> DEFINE S == {g.slew[l], GateSlewOf(g.slew, d, cap)}
  <2>2. S \subseteq Slews /\ S # {} /\ IsFiniteSet(S)
    <3>1. IsFiniteSet({g.slew[l]} \cup {GateSlewOf(g.slew, d, cap)})
      BY FS_Singleton, FS_Union
    <3> QED
      BY <1>1, <2>1, <3>1
  <2>3. MaxOf(S) \in S
    BY <2>2, SlewFacts, MaxOfFinite
  <2>4. MaxOf({g.slew[l], GateSlewOf(g.slew, d, cap)}) \in Slews
    BY <2>2, <2>3
  <2>5. g.slew[d] \in Slews
    BY <1>1
  <2> QED
    BY <1>3, <2>4, <2>5 DEF MergedSlew
<1> QED
  BY <1>2, <1>3

\* One driver found, in h: its slew, those of its loads, the delays of its arcs
\* and of its wires.
FoundAs(h, g, d, cap) ==
  /\ h \in GraphType
  /\ \A v \in Vertices : h.slew[v] =
       IF v \in slew_annotated THEN g.slew[v]
       ELSE IF v = d THEN IF FaninArcs(d) = {} THEN NoSlew ELSE GateSlewOf(g.slew, d, cap)
       ELSE IF v \in LoadsOf(d) THEN MergedSlew(g, d, v, cap)
       ELSE g.slew[v]
  /\ \A e \in Edges : h.delay[e] =
       IF e \in WiresFrom(d) THEN IF FaninArcs(d) = {} THEN 0 ELSE cap
       ELSE IF e \in FaninArcs(d) THEN GateDelay[g.slew[e[1]], cap]
       ELSE g.delay[e]

LEMMA DriverFound ==
  ASSUME Typed, NEW g \in GraphType, NEW d \in Drivers, NEW cap \in Caps
  PROVE  FoundAs(FindDriverDelays1(g, d, cap), g, d, cap)
<1> DEFINE arcs == FaninArcs(d)
           gs == GateSlewOf(g.slew, d, cap)
           s1 == IF arcs = {} THEN NoSlew ELSE gs
           k == [SetSlew(g, d, s1)
                   EXCEPT !.delay = [e \in Edges |-> IF e \in arcs THEN GateDelay[g.slew[e[1]], cap]
                                                     ELSE @[e]]]
           ls == [l \in Vertices |-> IF arcs = {} THEN 0
                                       ELSE IF d \in slew_annotated THEN k.slew[d]
                                       ELSE MaxOf({g.slew[l], gs})]
           h == FindDriverDelays1(g, d, cap)
<1>1. /\ g = [slew |-> g.slew, delay |-> g.delay]
      /\ g.slew \in [Vertices -> Slews] /\ g.delay \in [Edges -> Nat]
  BY DEF GraphType
<1>2. /\ k.slew = IF d \in slew_annotated THEN g.slew ELSE [g.slew EXCEPT ![d] = s1]
      /\ k.delay = [e \in Edges |-> IF e \in arcs THEN GateDelay[g.slew[e[1]], cap]
                                    ELSE g.delay[e]]
  BY <1>1 DEF SetSlew
<1>3. h = SetLoads(k, d, ls, IF arcs = {} THEN 0 ELSE cap)
  BY DEF FindDriverDelays1, GateSlewOf
<1> HIDE DEF k, h
<1>4. \A l \in Vertices : ls[l] = MergedSlew(g, d, l, cap)
  BY <1>2 DEF MergedSlew
<1> HIDE DEF ls
<1>5. h = [slew |-> [v \in Vertices |-> IF v \in LoadsOf(d) \ slew_annotated THEN ls[v] ELSE k.slew[v]],
           delay |-> [e \in Edges |-> IF e \in WiresFrom(d) THEN IF arcs = {} THEN 0 ELSE cap
                                      ELSE k.delay[e]]]
  BY <1>3 DEF SetLoads, LoadsOf
<1>6. d \notin LoadsOf(d) /\ d \in Vertices
  BY LocalFacts, EdgeFacts
<1>7. \A v \in Vertices : h.slew[v] =
        IF v \in slew_annotated THEN g.slew[v]
        ELSE IF v = d THEN s1
        ELSE IF v \in LoadsOf(d) THEN MergedSlew(g, d, v, cap)
        ELSE g.slew[v]
  BY <1>1, <1>2, <1>4, <1>5, <1>6
<1>8. \A e \in Edges : h.delay[e] =
        IF e \in WiresFrom(d) THEN IF arcs = {} THEN 0 ELSE cap
        ELSE IF e \in arcs THEN GateDelay[g.slew[e[1]], cap]
        ELSE g.delay[e]
  BY <1>2, <1>5
<1>9. s1 \in Slews
  BY <1>1, SlewFacts, GateSlewType
<1>10. h.slew \in [Vertices -> Slews]
  <2>1. \A v \in Vertices : MergedSlew(g, d, v, cap) \in Slews /\ g.slew[v] \in Slews
    BY <1>1, MergedSlewType
  <2>2. \A v \in Vertices : h.slew[v] \in Slews
    <3> HIDE DEF s1
    <3> QED
      BY <1>7, <1>9, <2>1
  <2> QED
    BY <1>5, <2>2
<1>11. h.delay \in [Edges -> Nat]
  <2>1. \A e \in arcs : GateDelay[g.slew[e[1]], cap] \in Nat
    BY <1>1, LocalFacts, TableFacts
  <2>2. cap \in Nat /\ \A e \in Edges : g.delay[e] \in Nat
    BY <1>1, SlewFacts
  <2>3. ASSUME NEW e \in Edges PROVE h.delay[e] \in Nat
    <3>1. CASE e \in WiresFrom(d)
      <4>1. h.delay[e] = IF arcs = {} THEN 0 ELSE cap
        BY <1>8, <3>1
      <4> QED
        BY <2>2, <4>1
    <3>2. CASE e \notin WiresFrom(d) /\ e \in arcs
      <4>1. h.delay[e] = GateDelay[g.slew[e[1]], cap]
        BY <1>8, <3>2
      <4> QED
        BY <2>1, <3>2, <4>1
    <3>3. CASE e \notin WiresFrom(d) /\ e \notin arcs
      BY <1>8, <2>2, <3>3
    <3> QED
      BY <3>1, <3>2, <3>3
  <2> QED
    BY <1>5, <2>3
<1>12. h \in GraphType
  BY <1>5, <1>10, <1>11 DEF GraphType
<1> QED
  BY <1>7, <1>8, <1>12 DEF h, FoundAs

\* The drivers of D found one after the other: what holds of the graph before,
\* and is handed on by each driver, holds after.
DriversFound(g, D, cap) == FoldSet(LAMBDA e, k : FindDriverDelays1(k, e, cap), g, D)

LEMMA DriversFold ==
  ASSUME Typed, NEW D \in SUBSET Drivers, NEW base \in GraphType, NEW cap \in Caps,
         NEW Good, <<{}, base>> \in Good,
         \A u \in SUBSET D, k \in GraphType : \A d \in u :
           <<u \ {d}, k>> \in Good => <<u, FindDriverDelays1(k, d, cap)>> \in Good
  PROVE  DriversFound(base, D, cap) \in GraphType /\ <<D, DriversFound(base, D, cap)>> \in Good
<1> DEFINE F == [dk \in D \X GraphType |-> FindDriverDelays1(dk[2], dk[1], cap)]
<1>1. IsFiniteSet(D)
  BY EdgesFinite, FS_Subset
<1>2. F \in [D \X GraphType -> GraphType]
  <2>1. \A d \in D, k \in GraphType : FindDriverDelays1(k, d, cap) \in GraphType
    BY DriverFound DEF FoundAs
  <2> QED
    BY <2>1
<1>3. HasFold(D, base, F, GraphType)
  <2> HIDE DEF F
  <2> QED
    BY <1>1, <1>2, FoldExists
<1> DEFINE Body(g, u) == IF u = {} THEN base ELSE FindDriverDelays1(g[u \ {Some(u)}], Some(u), cap)
           it == CHOOSE g : g = [u \in SUBSET D |-> Body(g, u)]
           Fine == {u \in SUBSET D : it[u] \in GraphType /\ <<u, it[u]>> \in Good}
<1>4. \E g : g = [u \in SUBSET D |-> Body(g, u)]
  <2>1. PICK g \in [SUBSET D -> GraphType] : \A u \in SUBSET D : g[u] = FoldOf(D, base, F, g, u)
    BY <1>3 DEF HasFold
  <2>2. \A u \in SUBSET D : g[u] = Body(g, u)
    <3> TAKE u \in SUBSET D
    <3>1. u # {} => Some(u) \in D /\ g[u \ {Some(u)}] \in GraphType
      BY DEF Some
    <3> QED
      BY <2>1, <3>1 DEF FoldOf
  <2> QED
    BY <2>2
<1>5. it = [u \in SUBSET D |-> Body(it, u)]
  BY <1>4
<1>6. {} \in Fine
  <2>1. it[{}] = base
    BY <1>5
  <2> HIDE DEF it
  <2> QED
    BY <2>1
<1>7. ASSUME NEW u \in SUBSET D, u # {}, u \ {Some(u)} \in Fine
      PROVE  u \in Fine
  <2>1. Some(u) \in u
    BY <1>7 DEF Some
  <2>2. it[u] = FindDriverDelays1(it[u \ {Some(u)}], Some(u), cap)
    BY <1>5, <1>7
  <2>3. it[u \ {Some(u)}] \in GraphType /\ <<u \ {Some(u)}, it[u \ {Some(u)}]>> \in Good
    BY <1>7
  <2> HIDE DEF it
  <2>4. it[u] \in GraphType
    <3>1. Some(u) \in Drivers
      BY <2>1
    <3>2. FindDriverDelays1(it[u \ {Some(u)}], Some(u), cap) \in GraphType
      BY <2>3, <3>1, DriverFound DEF FoundAs
    <3> QED
      BY <2>2, <3>2
  <2> QED
    BY <2>1, <2>2, <2>3, <2>4
<1>8. D \in Fine
  <2> HIDE DEF Fine
  <2> QED
    BY <1>1, <1>6, <1>7, FoldInduction
<1>9. DriversFound(base, D, cap) = it[D]
  BY DEF DriversFound, FoldSet, MapThenFoldSet, Some
<1> QED
  BY <1>8, <1>9

\* The slews of loads given, and the delay of the wires to them.
LEMMA LoadsSet ==
  ASSUME Typed, NEW g \in GraphType, NEW d \in Drivers, NEW ls \in [Vertices -> Slews],
         NEW wd \in Nat
  PROVE  LET h == SetLoads(g, d, ls, wd)
         IN  /\ h \in GraphType
             /\ \A v \in Vertices : h.slew[v] = IF v \in LoadsOf(d) \ slew_annotated THEN ls[v]
                                               ELSE g.slew[v]
             /\ \A e \in Edges : h.delay[e] = IF e \in WiresFrom(d) THEN wd ELSE g.delay[e]
<1> DEFINE h == SetLoads(g, d, ls, wd)
<1>1. h = [slew |-> [v \in Vertices |-> IF v \in LoadsOf(d) \ slew_annotated THEN ls[v] ELSE g.slew[v]],
           delay |-> [e \in Edges |-> IF e \in WiresFrom(d) THEN wd ELSE g.delay[e]]]
  BY DEF SetLoads, LoadsOf
<1>2. g.slew \in [Vertices -> Slews] /\ g.delay \in [Edges -> Nat]
  BY DEF GraphType
<1>3. \A v \in Vertices : (IF v \in LoadsOf(d) \ slew_annotated THEN ls[v] ELSE g.slew[v]) \in Slews
  BY <1>2
<1>4. \A e \in Edges : (IF e \in WiresFrom(d) THEN wd ELSE g.delay[e]) \in Nat
  BY <1>2
<1> HIDE DEF h
<1>5. h \in GraphType
  BY <1>1, <1>3, <1>4 DEF GraphType
<1>6. \A v \in Vertices : h.slew[v] = IF v \in LoadsOf(d) \ slew_annotated THEN ls[v]
                                      ELSE g.slew[v]
  BY <1>1
<1>7. \A e \in Edges : h.delay[e] = IF e \in WiresFrom(d) THEN wd ELSE g.delay[e]
  BY <1>1
<1> QED
  BY <1>5, <1>6, <1>7 DEF h

InitLoads(g, d) == SetLoads(g, d, [l \in Vertices |-> NoSlew], 0)

LEMMA DriverDelaysType ==
  ASSUME Typed, NEW g \in GraphType, NEW d \in Drivers, NEW multi \in MultiNets \cup {NoMultiDrvr}
  PROVE  FindDriverDelays(g, d, multi) \in GraphType
<1> DEFINE h == InitLoads(g, d)
<1>1. h \in GraphType
  <2>1. [l \in Vertices |-> NoSlew] \in [Vertices -> Slews] /\ 0 \in Nat
    BY SlewFacts
  <2> QED
    BY <2>1, LoadsSet DEF InitLoads
<1> HIDE DEF h
<1>2. CASE multi = NoMultiDrvr
  <2>1. FindDriverDelays(g, d, multi) = FindDriverDelays1(h, d, ConnectedCap(d))
    BY <1>2 DEF FindDriverDelays, h, InitLoads
  <2>2. ConnectedCap(d) \in Caps
    BY LocalFacts
  <2>3. FindDriverDelays1(h, d, ConnectedCap(d)) \in GraphType
    BY <1>1, <2>2, DriverFound DEF FoundAs
  <2> QED
    BY <2>1, <2>3
<1>3. CASE multi # NoMultiDrvr /\ d = multi.dcalc_drvr
  <2>1. multi.drvrs \in SUBSET Drivers /\ multi.cap \in Caps
    BY <1>3 DEF MultiNets
  <2>2. FindDriverDelays(g, d, multi) = DriversFound(h, multi.drvrs, multi.cap)
    BY <1>3 DEF FindDriverDelays, h, InitLoads, DriversFound
  <2>3. DriversFound(h, multi.drvrs, multi.cap) \in GraphType
    <3> DEFINE Good == {uk \in (SUBSET multi.drvrs) \X GraphType : TRUE}
    <3>1. <<{}, h>> \in Good
      BY <1>1
    <3>2. \A u \in SUBSET multi.drvrs, k \in GraphType : \A e \in u :
            <<u \ {e}, k>> \in Good => <<u, FindDriverDelays1(k, e, multi.cap)>> \in Good
      BY <2>1, DriverFound DEF FoundAs
    <3> HIDE DEF Good
    <3> QED
      BY <1>1, <2>1, <3>1, <3>2, DriversFold
  <2> QED
    BY <2>2, <2>3
<1>4. CASE multi # NoMultiDrvr /\ d # multi.dcalc_drvr
  <2>1. FindDriverDelays(g, d, multi) = g
    BY <1>4 DEF FindDriverDelays
  <2> QED
    BY <2>1
<1> QED
  BY <1>2, <1>3, <1>4

\* A root seeded.  Its loads take its slew, that it has or is given.
LEMMA RootSeeded ==
  ASSUME Typed, NEW g \in GraphType, NEW v \in Vertices, v \in Drivers => v \in Ports
  PROVE  LET h == SeedRootSlew(g, v)
             s == IF v \in slew_annotated THEN g.slew[v]
                  ELSE IF v \in Drivers THEN input_slew[v] ELSE 0
         IN  /\ h \in GraphType
             /\ \A u \in Vertices : h.slew[u] =
                  IF u \in slew_annotated THEN g.slew[u]
                  ELSE IF u = v \/ (v \in Drivers /\ u \in LoadsOf(v)) THEN s
                  ELSE g.slew[u]
             /\ \A e \in Edges : h.delay[e] =
                  IF v \in Drivers /\ e \in WiresFrom(v) THEN ConnectedCap(v) ELSE g.delay[e]
<1> DEFINE h == SeedRootSlew(g, v)
           s == IF v \in slew_annotated THEN g.slew[v]
                ELSE IF v \in Drivers THEN input_slew[v] ELSE 0
<1>1. /\ g = [slew |-> g.slew, delay |-> g.delay]
      /\ g.slew \in [Vertices -> Slews] /\ g.delay \in [Edges -> Nat]
  BY DEF GraphType
<1>2. CASE v \notin Drivers
  <2>1. h = IF v \in slew_annotated THEN g ELSE [slew |-> [g.slew EXCEPT ![v] = 0], delay |-> g.delay]
    BY <1>1, <1>2 DEF SeedRootSlew, SetSlew
  <2>2. h.slew = (IF v \in slew_annotated THEN g.slew ELSE [g.slew EXCEPT ![v] = 0]) /\ h.delay = g.delay
    BY <2>1
  <2>3. h \in GraphType
    BY <1>1, <2>1, SlewFacts DEF GraphType
  <2> HIDE DEF h
  <2>4. \A u \in Vertices : h.slew[u] =
          IF u \in slew_annotated THEN g.slew[u] ELSE IF u = v THEN s ELSE g.slew[u]
    BY <1>1, <1>2, <2>2
  <2> QED
    BY <1>2, <2>2, <2>3, <2>4 DEF h
<1>3. CASE v \in Drivers
  <2> DEFINE k == SetSlew(g, v, input_slew[v])
  <2>1. input_slew[v] \in Slews
    BY <1>3 DEF Typed
  <2>2. k = [slew |-> IF v \in slew_annotated THEN g.slew ELSE [g.slew EXCEPT ![v] = input_slew[v]],
             delay |-> g.delay]
    BY <1>1 DEF SetSlew
  <2>3. k \in GraphType
    BY <1>1, <2>1, <2>2 DEF GraphType
  <2> HIDE DEF k
  <2>4. (IF v \in slew_annotated THEN k.slew[v] ELSE input_slew[v]) = s /\ s \in Slews
    BY <1>1, <1>3, <2>1, <2>2
  <2>5. h = SetLoads(k, v, [l \in Vertices |-> s], ConnectedCap(v))
    <3>1. h = SetLoads(k, v, [l \in Vertices |-> IF v \in slew_annotated THEN k.slew[v]
                                                ELSE input_slew[v]], ConnectedCap(v))
      BY <1>3 DEF SeedRootSlew, k
    <3> HIDE DEF h, s
    <3> QED
      BY <3>1, <2>4
  <2>6. ConnectedCap(v) \in Nat
    BY <1>3, LocalFacts, SlewFacts
  <2>7. [l \in Vertices |-> s] \in [Vertices -> Slews]
    BY <2>4
  <2> HIDE DEF s
  <2>8. /\ h \in GraphType
        /\ \A u \in Vertices : h.slew[u] = IF u \in LoadsOf(v) \ slew_annotated
                                           THEN [l \in Vertices |-> s][u] ELSE k.slew[u]
        /\ \A e \in Edges : h.delay[e] = IF e \in WiresFrom(v) THEN ConnectedCap(v) ELSE k.delay[e]
    BY <1>3, <2>3, <2>5, <2>6, <2>7, LoadsSet
  <2> HIDE DEF h
  <2>9. \A u \in Vertices : k.slew[u] = IF u \notin slew_annotated /\ u = v THEN s ELSE g.slew[u]
    BY <1>1, <1>3, <2>2 DEF s
  <2>10. \A u \in Vertices : h.slew[u] =
           IF u \in slew_annotated THEN g.slew[u]
           ELSE IF u = v \/ u \in LoadsOf(v) THEN s
           ELSE g.slew[u]
    BY <2>8, <2>9
  <2>11. \A e \in Edges : h.delay[e] = IF e \in WiresFrom(v) THEN ConnectedCap(v) ELSE g.delay[e]
    BY <2>2, <2>8
  <2> QED
    BY <1>3, <2>8, <2>10, <2>11 DEF h, s
<1> QED
  BY <1>2, <1>3

\* The roots seeded one after the other.
RootsSeeded(g, S) == FoldSet(LAMBDA v, k : SeedRootSlew(k, v), g, S)

LEMMA RootsFold ==
  ASSUME Typed, NEW base \in GraphType,
         NEW Good, <<{}, base>> \in Good,
         \A u \in SUBSET Roots, k \in GraphType : \A v \in u :
           <<u \ {v}, k>> \in Good => <<u, SeedRootSlew(k, v)>> \in Good
  PROVE  RootsSeeded(base, Roots) \in GraphType /\ <<Roots, RootsSeeded(base, Roots)>> \in Good
<1> DEFINE F == [vk \in Roots \X GraphType |-> SeedRootSlew(vk[2], vk[1])]
<1>1. IsFiniteSet(Roots)
  BY EdgesFinite DEF Roots
<1>2. \A v \in Roots, k \in GraphType : SeedRootSlew(k, v) \in GraphType
  <2> TAKE v \in Roots, k \in GraphType
  <2>1. v \in Vertices /\ (v \in Drivers => v \in Ports)
    BY DEF Roots, IsRoot, Ports
  <2> QED
    BY <2>1, RootSeeded
<1>3. F \in [Roots \X GraphType -> GraphType]
  BY <1>2
<1>4. HasFold(Roots, base, F, GraphType)
  <2> HIDE DEF F
  <2> QED
    BY <1>1, <1>3, FoldExists
<1> DEFINE Body(g, u) == IF u = {} THEN base ELSE SeedRootSlew(g[u \ {Some(u)}], Some(u))
           it == CHOOSE g : g = [u \in SUBSET Roots |-> Body(g, u)]
           Fine == {u \in SUBSET Roots : it[u] \in GraphType /\ <<u, it[u]>> \in Good}
<1>5. \E g : g = [u \in SUBSET Roots |-> Body(g, u)]
  <2>1. PICK g \in [SUBSET Roots -> GraphType] :
          \A u \in SUBSET Roots : g[u] = FoldOf(Roots, base, F, g, u)
    BY <1>4 DEF HasFold
  <2>2. \A u \in SUBSET Roots : g[u] = Body(g, u)
    <3> TAKE u \in SUBSET Roots
    <3>1. u # {} => Some(u) \in Roots /\ g[u \ {Some(u)}] \in GraphType
      BY DEF Some
    <3> QED
      BY <2>1, <3>1 DEF FoldOf
  <2> QED
    BY <2>2
<1>6. it = [u \in SUBSET Roots |-> Body(it, u)]
  BY <1>5
<1>7. {} \in Fine
  <2>1. it[{}] = base
    BY <1>6
  <2> HIDE DEF it
  <2> QED
    BY <2>1
<1>8. ASSUME NEW u \in SUBSET Roots, u # {}, u \ {Some(u)} \in Fine
      PROVE  u \in Fine
  <2>1. Some(u) \in u
    BY <1>8 DEF Some
  <2>2. it[u] = SeedRootSlew(it[u \ {Some(u)}], Some(u))
    BY <1>6, <1>8
  <2>3. it[u \ {Some(u)}] \in GraphType /\ <<u \ {Some(u)}, it[u \ {Some(u)}]>> \in Good
    BY <1>8
  <2> HIDE DEF it
  <2>4. Some(u) \in Roots
    BY <2>1
  <2>5. it[u] \in GraphType
    BY <1>2, <2>2, <2>3, <2>4
  <2> QED
    BY <2>1, <2>2, <2>3, <2>5
<1>9. Roots \in Fine
  <2> HIDE DEF Fine
  <2> QED
    BY <1>1, <1>7, <1>8, FoldInduction
<1>10. RootsSeeded(base, Roots) = it[Roots]
  BY DEF RootsSeeded, FoldSet, MapThenFoldSet, Some
<1> QED
  BY <1>9, <1>10

-----------------------------------------------------------------------------
(* The types.                                                              *)

InputsTyped ==
  /\ wires \subseteq Wires /\ disabled \subseteq Arcs /\ slew_annotated \subseteq Vertices
  /\ input_slew \in [Ports -> Slews] /\ ext_cap \in [Drivers -> ExtCaps \cup {0}]
GraphTyped == slew \in [Vertices -> Slews] /\ delay \in [Edges -> Nat]
RecordsTyped ==
  /\ delays_exist \in BOOLEAN /\ delays_seeded \in BOOLEAN
  /\ queue \subseteq Vertices /\ invalid_delays \subseteq Vertices
  /\ to_level \in Nat \cup {NoLevel} /\ found \in Nat \cup {NoLevel}
  /\ invalid_check_edges \subseteq Checks /\ invalid_latch_edges \subseteq LatchArcs
  /\ ~Busy => invalid_check_edges = {} /\ invalid_latch_edges = {}
  /\ ~delays_exist => invalid_delays = {}
  /\ ~delays_seeded => queue = {} /\ ~delays_exist
MapTyped ==
  /\ multi_drvr_net_map \in [Drivers -> MultiNets \cup {NoMultiDrvr}]
  /\ \A d \in Drivers : multi_drvr_net_map[d] # NoMultiDrvr =>
       /\ d \in multi_drvr_net_map[d].drvrs
       /\ Level[d] <= Level[multi_drvr_net_map[d].dcalc_drvr]

LEMMA TypedParts == Typed <=> InputsTyped /\ GraphTyped /\ RecordsTyped /\ MapTyped
<1>1. slew \in [Vertices -> Slews] => slew \in [Vertices -> Nat \cup {NoSlew}]
  BY SlewFacts
<1> QED
  BY <1>1 DEF Typed, TypeOK, InputsTyped, GraphTyped, RecordsTyped, MapTyped

LEMMA TypedNext ==
  ASSUME InputsTyped', GraphTyped', RecordsTyped', MapTyped'
  PROVE  Typed'
<1>1. slew' \in [Vertices -> Nat \cup {NoSlew}]
  BY SlewFacts DEF GraphTyped
<1> QED
  BY <1>1 DEF Typed, TypeOK, InputsTyped, GraphTyped, RecordsTyped, MapTyped

LEMMA GraphIsTyped ==
  ASSUME Typed
  PROVE  Graph \in GraphType /\ Graph.slew = slew /\ Graph.delay = delay
BY TypedParts DEF GraphTyped, GraphType, Graph

\* A search is under way only after the roots are seeded.
TypedInv == Typed /\ (Busy => delays_seeded)

InputFrame == UNCHANGED inputVars
LEMMA InputsKept ==
  ASSUME InputsTyped, InputFrame
  PROVE  InputsTyped'
BY DEF InputsTyped, InputFrame, inputVars

LEMMA MapKept ==
  ASSUME MapTyped, UNCHANGED multi_drvr_net_map
  PROVE  MapTyped'
BY DEF MapTyped

LEMMA GraphSet ==
  ASSUME NEW g \in GraphType, SetGraph(g)
  PROVE  GraphTyped'
BY DEF GraphType, SetGraph, GraphTyped

LEMMA InvalidTyped ==
  ASSUME Typed, Busy => delays_seeded, NEW S \in SUBSET Vertices, DelayInvalid(S),
         to_level' = to_level, found' = NoLevel, queue' \subseteq queue
  PROVE  RecordsTyped' /\ MapTyped' /\ (Busy => delays_seeded)'
<1>1. RecordsTyped /\ MapTyped
  BY TypedParts
<1>2. Triggers(S) \subseteq Vertices
  BY <1>1, EdgeFacts DEF Triggers, MapTyped, MultiNets
<1>3. MapTyped'
  BY <1>1, MapKept DEF DelayInvalid
<1>4. RecordsTyped' /\ (Busy => delays_seeded)'
  BY <1>1, <1>2 DEF RecordsTyped, DelayInvalid, edgeVars, Busy
<1> QED
  BY <1>3, <1>4

LEMMA EditsTyped ==
  ASSUME TypedInv, EditStep
  PROVE  TypedInv'
<1> USE DEF TypedInv
<1>0. InputsTyped /\ GraphTyped /\ RecordsTyped /\ MapTyped
  BY TypedParts
<1>1. ASSUME NEW v \in Ports, NEW s \in InputSlews, SetInputSlew(v, s)
      PROVE  TypedInv'
  <2>1. v \in Vertices /\ s \in Slews
    BY EdgeFacts, GraphDelayCalcAssumption
  <2>2. InputsTyped' /\ GraphTyped'
    BY <1>0, <1>1, <2>1 DEF SetInputSlew, Edit, InputsTyped, GraphTyped
  <2>3. RecordsTyped' /\ MapTyped' /\ (Busy => delays_seeded)'
    BY <1>1, <2>1, InvalidTyped DEF SetInputSlew, Edit
  <2> QED
    BY <2>2, <2>3, TypedNext
<1>2. ASSUME NEW d \in Drivers, NEW c \in ExtCaps, SetPortExtPinCap(d, c)
      PROVE  TypedInv'
  <2>1. d \in Vertices
    BY EdgeFacts
  <2>2. InputsTyped' /\ GraphTyped'
    BY <1>0, <1>2 DEF SetPortExtPinCap, Edit, InputsTyped, GraphTyped
  <2>3. RecordsTyped' /\ MapTyped' /\ (Busy => delays_seeded)'
    BY <1>2, <2>1, InvalidTyped DEF SetPortExtPinCap, Edit
  <2> QED
    BY <2>2, <2>3, TypedNext
<1>3. CASE RemoveNetLoadCaps
  <2>1. InputsTyped' /\ GraphTyped'
    BY <1>0, <1>3 DEF RemoveNetLoadCaps, Edit, InputsTyped, GraphTyped
  <2>2. RecordsTyped' /\ (Busy => delays_seeded)'
    BY <1>0, <1>3 DEF RemoveNetLoadCaps, Edit, DelaysInvalid, RecordsTyped, Busy
  <2>3. MapTyped'
    BY <1>0, <1>3, MapKept DEF RemoveNetLoadCaps
  <2> QED
    BY <2>1, <2>2, <2>3, TypedNext
<1>4. ASSUME NEW v \in Vertices, NEW s \in InputSlews, SetAnnotatedSlew(v, s)
      PROVE  TypedInv'
  <2>1. s \in Slews
    BY GraphDelayCalcAssumption
  <2>2. InputsTyped' /\ GraphTyped'
    BY <1>0, <1>4, <2>1 DEF SetAnnotatedSlew, Edit, InputsTyped, GraphTyped
  <2>3. RecordsTyped' /\ MapTyped' /\ (Busy => delays_seeded)'
    BY <1>4, InvalidTyped DEF SetAnnotatedSlew, Edit
  <2> QED
    BY <2>2, <2>3, TypedNext
<1>5. ASSUME NEW v \in Vertices, UnsetAnnotatedSlew(v)
      PROVE  TypedInv'
  <2>1. Annotator(v) \in SUBSET Vertices
    BY <1>0, EdgeFacts DEF Annotator, WiresTo, InputsTyped
  <2>2. InputsTyped' /\ GraphTyped'
    BY <1>0, <1>5 DEF UnsetAnnotatedSlew, Edit, InputsTyped, GraphTyped
  <2>3. RecordsTyped' /\ MapTyped' /\ (Busy => delays_seeded)'
    BY <1>5, <2>1, InvalidTyped DEF UnsetAnnotatedSlew, Edit
  <2> QED
    BY <2>2, <2>3, TypedNext
<1>6. ASSUME NEW v \in Vertices, LevelChangedBefore(v)
      PROVE  TypedInv'
  <2>1. InputsTyped' /\ GraphTyped'
    BY <1>0, <1>6 DEF LevelChangedBefore, Edit, InputsTyped, GraphTyped, inputVars
  <2>2. RecordsTyped' /\ MapTyped' /\ (Busy => delays_seeded)'
    BY <1>6, InvalidTyped DEF LevelChangedBefore, Edit
  <2> QED
    BY <2>1, <2>2, TypedNext
<1>7. ASSUME NEW e \in Arcs, Disable(e)
      PROVE  TypedInv'
  <2>1. {e[1], e[2]} \in SUBSET Vertices
    BY EdgeFacts
  <2>2. InputsTyped' /\ GraphTyped'
    BY <1>0, <1>7 DEF Disable, Edit, InputsTyped, GraphTyped
  <2>3. RecordsTyped' /\ MapTyped' /\ (Busy => delays_seeded)'
    BY <1>7, <2>1, InvalidTyped DEF Disable, Edit
  <2> QED
    BY <2>2, <2>3, TypedNext
<1>8. ASSUME NEW w \in Wires, DisconnectPin(w)
      PROVE  TypedInv'
  <2>1. {w[2]} \in SUBSET Vertices
    BY EdgeFacts
  <2>2. InputsTyped' /\ GraphTyped'
    BY <1>0, <1>8 DEF DisconnectPin, Edit, InputsTyped, GraphTyped
  <2>3. RecordsTyped' /\ MapTyped' /\ (Busy => delays_seeded)'
    BY <1>8, <2>1, InvalidTyped DEF DisconnectPin, Edit
  <2> QED
    BY <2>2, <2>3, TypedNext
<1>9. ASSUME NEW w \in Wires, ConnectPin(w)
      PROVE  TypedInv'
  <2>1. {w[1], w[2]} \in SUBSET Vertices /\ w \in Edges
    BY EdgeFacts DEF Edges
  <2>2. InputsTyped' /\ GraphTyped'
    BY <1>0, <1>9, <2>1 DEF ConnectPin, InputsTyped, GraphTyped
  <2>3. RecordsTyped' /\ MapTyped' /\ (Busy => delays_seeded)'
    BY <1>9, <2>1, InvalidTyped DEF ConnectPin
  <2> QED
    BY <2>2, <2>3, TypedNext
<1> QED
  BY <1>1, <1>2, <1>3, <1>4, <1>5, <1>6, <1>7, <1>8, <1>9 DEF EditStep

LEMMA SearchBegunTyped ==
  ASSUME TypedInv, NEW level \in QueryLevels \cup FirstLevels, FindDelays(level)
  PROVE  TypedInv'
<1> USE DEF TypedInv
<1>0. InputsTyped /\ GraphTyped /\ RecordsTyped /\ MapTyped
  BY TypedParts
<1>1. InputsTyped' /\ MapTyped'
  BY <1>0, InputsKept, MapKept DEF FindDelays, InputFrame
<1>2. GraphTyped'
  <2>1. CASE delays_seeded
    BY <1>0, <2>1 DEF FindDelays, GraphTyped
  <2>2. CASE ~delays_seeded
    <3> DEFINE g == RootsSeeded(Graph, Roots)
    <3>1. SetGraph(g)
      BY <2>2 DEF FindDelays, RootsSeeded
    <3>2. g \in GraphType
      <4> DEFINE Good == (SUBSET Roots) \X GraphType
      <4>1. <<{}, Graph>> \in Good /\ Graph \in GraphType
        BY GraphIsTyped
      <4>2. \A u \in SUBSET Roots, k \in GraphType : \A v \in u :
              <<u \ {v}, k>> \in Good => <<u, SeedRootSlew(k, v)>> \in Good
        <5> TAKE u \in SUBSET Roots, k \in GraphType
        <5> TAKE v \in u
        <5>1. v \in Vertices /\ (v \in Drivers => v \in Ports)
          BY DEF Roots, IsRoot, Ports
        <5>2. SeedRootSlew(k, v) \in GraphType
          BY <5>1, RootSeeded
        <5> QED
          BY <5>2
      <4> HIDE DEF Good
      <4> QED
        BY <4>1, <4>2, RootsFold
    <3> HIDE DEF g
    <3> QED
      BY <3>1, <3>2, GraphSet
  <2> QED
    BY <2>1, <2>2
<1>3. RecordsTyped' /\ (Busy => delays_seeded)'
  <2>1. level \in Nat
    BY GraphDelayCalcAssumption
  <2>2. \A v \in Vertices : Fanout(v) \subseteq Vertices
    BY <1>0, EdgeFacts DEF Fanout, InputsTyped, Enabled
  <2>3. queue' \subseteq Vertices
    <3>1. CASE delays_seeded
      BY <1>0, <3>1 DEF FindDelays, RecordsTyped
    <3>2. CASE ~delays_seeded
      <4>1. queue' = UNION {Fanout(v) : v \in Roots}
        BY <3>2 DEF FindDelays
      <4> QED
        BY <2>2, <4>1 DEF Roots
    <3> QED
      BY <3>1, <3>2
  <2>4. ~Busy /\ UNCHANGED <<delays_exist, edgeVars, found>>
    BY DEF FindDelays
  <2> QED
    BY <1>0, <2>1, <2>3, <2>4 DEF FindDelays, RecordsTyped, edgeVars
<1> QED
  BY <1>1, <1>2, <1>3, TypedNext

LEMMA FanoutType ==
  ASSUME Typed, NEW v \in Vertices
  PROVE  Fanout(v) \in SUBSET Vertices
BY TypedParts, EdgeFacts DEF Fanout, InputsTyped, Enabled

LEMMA NextFacts ==
  ASSUME TypedInv, NEW v \in Next_level
  PROVE  /\ v \in queue /\ v \in Vertices /\ delays_seeded
         /\ Level[v] <= to_level /\ \A u \in queue : Level[v] <= Level[u]
         /\ Busy
<1>1. v \in queue /\ Level[v] <= to_level /\ \A u \in queue : Level[v] <= Level[u]
  BY DEF Next_level
<1>2. RecordsTyped
  BY TypedParts DEF TypedInv
<1>3. v \in Vertices /\ Level[v] \in Nat /\ to_level \in Nat \cup {NoLevel}
  BY <1>1, <1>2, LevelFacts DEF RecordsTyped
<1>4. Busy
  BY <1>1, <1>3 DEF Busy, NoLevel
<1> QED
  BY <1>1, <1>2, <1>3, <1>4 DEF RecordsTyped

\* The map after findMultiDrvrNet.
LEMMA MapFound ==
  ASSUME Typed, NEW d \in Drivers, multi_drvr_net_map' = FindMultiDrvrNet(d)
  PROVE  MapTyped'
<1>0. InputsTyped /\ MapTyped
  BY TypedParts
<1>1. CASE Cardinality(NetDrivers(d)) > 1 /\ multi_drvr_net_map[d] = NoMultiDrvr
  <2> DEFINE D == NetDrivers(d)
             top == Highest(D)
             r == MakeMultiDrvrNet(d)
  <2>1. D \in SUBSET Drivers
    BY LocalFacts
  <2>2. D # {}
    BY <1>1, FS_EmptySet
  <2>3. top \in D /\ \A e \in D : Level[e] <= Level[top]
    BY <2>1, <2>2, EdgeFacts, HighestOf
  <2>4. ConnectedCap(top) \in Caps /\ top \in Drivers
    BY <2>1, <2>3, LocalFacts
  <2>5. r = [drvrs |-> D, dcalc_drvr |-> top, cap |-> ConnectedCap(top)]
    BY DEF MakeMultiDrvrNet
  <2> HIDE DEF r, top, D
  <2>6. r \in MultiNets /\ r.drvrs = D /\ r.dcalc_drvr = top
    BY <2>1, <2>4, <2>5 DEF MultiNets
  <2>7. multi_drvr_net_map' = [e \in Drivers |-> IF e \in D THEN r ELSE multi_drvr_net_map[e]]
    BY <1>1 DEF FindMultiDrvrNet, D, r
  <2>8. multi_drvr_net_map' \in [Drivers -> MultiNets \cup {NoMultiDrvr}]
    BY <1>0, <2>6, <2>7 DEF MapTyped
  <2>9. ASSUME NEW e \in Drivers, multi_drvr_net_map'[e] # NoMultiDrvr
        PROVE  /\ e \in multi_drvr_net_map'[e].drvrs
               /\ Level[e] <= Level[multi_drvr_net_map'[e].dcalc_drvr]
    <3>1. CASE e \in D
      BY <2>3, <2>6, <2>7, <3>1
    <3>2. CASE e \notin D
      <4>1. multi_drvr_net_map'[e] = multi_drvr_net_map[e]
        BY <2>7, <3>2
      <4> QED
        BY <1>0, <2>9, <4>1 DEF MapTyped
    <3> QED
      BY <3>1, <3>2
  <2> QED
    BY <2>8, <2>9 DEF MapTyped
<1>2. CASE ~(Cardinality(NetDrivers(d)) > 1 /\ multi_drvr_net_map[d] = NoMultiDrvr)
  BY <1>0, <1>2, MapKept DEF FindMultiDrvrNet
<1> QED
  BY <1>1, <1>2

\* The net whose record a visit of d uses.
MultiOf(d) == IF Cardinality(NetDrivers(d)) > 1 THEN FindMultiDrvrNet(d)[d] ELSE NoMultiDrvr

LEMMA VisitTyped ==
  ASSUME TypedInv, NEW v \in Vertices, Visit(v)
  PROVE  TypedInv'
<1> USE DEF TypedInv
<1>0. InputsTyped /\ GraphTyped /\ RecordsTyped /\ MapTyped
  BY TypedParts
<1>1. v \in Next_level
  BY DEF Visit, VisitRoot, VisitDriver, VisitLoad
<1>2. /\ InputFrame
      /\ UNCHANGED <<delays_exist, delays_seeded, invalid_delays, to_level, found>>
  BY DEF Visit, VisitRoot, VisitDriver, VisitLoad, InputFrame
<1>3. InputsTyped'
  BY <1>0, <1>2, InputsKept
<1>4. CASE VisitRoot(v)
  <2>1. v \in Drivers => v \in Ports
    BY <1>4 DEF VisitRoot, IsRoot, Ports
  <2>2. SeedRootSlew(Graph, v) \in GraphType
    BY <2>1, GraphIsTyped, RootSeeded
  <2>3. GraphTyped'
    BY <1>4, <2>2, GraphSet DEF VisitRoot
  <2>4. MapTyped'
    BY <1>0, <1>4, MapKept DEF VisitRoot
  <2>5. RecordsTyped' /\ (Busy => delays_seeded)'
    BY <1>0, <1>1, <1>2, <1>4, NextFacts, FanoutType DEF VisitRoot, RecordsTyped, edgeVars, Busy
  <2> QED
    BY <1>3, <2>3, <2>4, <2>5, TypedNext
<1>5. CASE VisitDriver(v)
  <2> DEFINE g == FindDriverDelays(Graph, v, MultiOf(v))
  <2>1. v \in Drivers /\ multi_drvr_net_map' = FindMultiDrvrNet(v) /\ SetGraph(g)
    BY <1>5 DEF VisitDriver, MultiOf
  <2>2. MapTyped'
    BY <2>1, MapFound
  <2>3. MultiOf(v) \in MultiNets \cup {NoMultiDrvr}
    BY <2>1, <2>2 DEF MultiOf, MapTyped
  <2>4. g \in GraphType
    BY <2>1, <2>3, GraphIsTyped, DriverDelaysType
  <2>5. GraphTyped'
    BY <2>1, <2>4, GraphSet
  <2>6. queue' \subseteq Vertices
    <3>1. queue' = (queue \ {v}) \cup LoadsToVisit(v, g)
      BY <1>5 DEF VisitDriver, MultiOf
    <3>2. LoadsToVisit(v, g) \subseteq Fanout(v)
      BY DEF LoadsToVisit
    <3> QED
      BY <1>0, <3>1, <3>2, FanoutType DEF RecordsTyped
  <2>7. edgeVars' = edgeVars
    BY <1>5 DEF VisitDriver
  <2>8. RecordsTyped' /\ (Busy => delays_seeded)'
    BY <1>0, <1>1, <1>2, <2>6, <2>7, NextFacts DEF RecordsTyped, edgeVars, Busy
  <2> QED
    BY <1>3, <2>2, <2>5, <2>8, TypedNext
<1>6. CASE VisitLoad(v)
  <2>1. GraphTyped' /\ MapTyped'
    BY <1>0, <1>6, MapKept DEF VisitLoad, GraphTyped
  <2>2. CheckEdges(v) \subseteq Checks
    BY DEF CheckEdges
  <2>3. RecordsTyped' /\ (Busy => delays_seeded)'
    BY <1>0, <1>1, <1>2, <1>6, <2>2, NextFacts, FanoutType DEF VisitLoad, RecordsTyped, Busy
  <2> QED
    BY <1>3, <2>1, <2>3, TypedNext
<1> QED
  BY <1>4, <1>5, <1>6 DEF Visit

LEMMA MaxOfTwo ==
  ASSUME NEW a \in Int, NEW b \in Int
  PROVE  MaxOf({a, b}) = IF a <= b THEN b ELSE a
<1> DEFINE S == {a, b}
<1>1. S \subseteq Int /\ S # {} /\ IsFiniteSet(S)
  <2>1. IsFiniteSet({a} \cup {b})
    BY FS_Singleton, FS_Union
  <2> QED
    BY <2>1
<1>2. MaxOf(S) \in S /\ \A y \in S : y <= MaxOf(S)
  <2> HIDE DEF S
  <2> QED
    BY <1>1, MaxOfFinite
<1> QED
  BY <1>2

LEMMA FoundDelayType ==
  ASSUME TypedInv, NEW e \in Edges
  PROVE  FoundDelay(e) \in Nat
<1>0. InputsTyped /\ GraphTyped /\ RecordsTyped
  BY TypedParts DEF TypedInv
<1>1. CASE e \in invalid_check_edges
  <2>1. e \in Checks
    BY <1>0, <1>1 DEF RecordsTyped
  <2>2. slew[e[1]] \in Slews /\ slew[e[2]] \in Slews
    BY <1>0, <2>1, EdgeFacts DEF GraphTyped
  <2>3. FoundDelay(e) = CheckDelay[slew[e[1]], slew[e[2]]]
    <3>1. e \notin invalid_latch_edges
      BY <1>0, <2>1, EdgeFacts DEF RecordsTyped
    <3> QED
      BY <1>1, <3>1 DEF FoundDelay
  <2> QED
    BY <2>2, <2>3, TableFacts
<1>2. CASE e \notin invalid_check_edges /\ e \in invalid_latch_edges
  <2>1. e \in LatchArcs
    BY <1>0, <1>2 DEF RecordsTyped
  <2>2. slew[e[1]] \in Slews /\ ConnectedCap(e[2]) \in Caps
    BY <1>0, <2>1, EdgeFacts, LocalFacts DEF GraphTyped, TypedInv
  <2>3. FoundDelay(e) = GateDelay[slew[e[1]], ConnectedCap(e[2])]
    BY <1>2 DEF FoundDelay
  <2> QED
    BY <2>2, <2>3, TableFacts
<1>3. CASE e \notin invalid_check_edges /\ e \notin invalid_latch_edges
  <2>1. FoundDelay(e) = delay[e]
    BY <1>3 DEF FoundDelay
  <2>2. delay[e] \in Nat
    BY <1>0 DEF GraphTyped
  <2> QED
    BY <2>1, <2>2
<1> QED
  BY <1>1, <1>2, <1>3

LEMMA SearchEndedTyped ==
  ASSUME TypedInv, EndFindDelays
  PROVE  TypedInv'
<1> USE DEF TypedInv
<1>0. InputsTyped /\ GraphTyped /\ RecordsTyped /\ MapTyped
  BY TypedParts
<1>1. InputsTyped' /\ MapTyped'
  BY <1>0, InputsKept, MapKept DEF EndFindDelays, InputFrame
<1>2. GraphTyped'
  BY <1>0, FoundDelayType DEF EndFindDelays, GraphTyped
<1>3. MaxOf({found, to_level}) \in Nat \cup {NoLevel}
  BY <1>0, MaxOfTwo DEF RecordsTyped, NoLevel
<1>4. RecordsTyped' /\ (Busy => delays_seeded)'
  BY <1>0, <1>3 DEF EndFindDelays, RecordsTyped, Busy
<1> QED
  BY <1>1, <1>2, <1>4, TypedNext

LEMMA StutterTyped ==
  ASSUME TypedInv, UNCHANGED vars
  PROVE  TypedInv'
<1>1. InputsTyped /\ GraphTyped /\ RecordsTyped /\ MapTyped /\ (Busy => delays_seeded)
  BY TypedParts DEF TypedInv
<1>2. InputsTyped' /\ MapTyped'
  BY <1>1, InputsKept, MapKept DEF vars, InputFrame
<1>3. GraphTyped' /\ RecordsTyped' /\ (Busy => delays_seeded)'
  BY <1>1 DEF vars, edgeVars, GraphTyped, RecordsTyped, Busy
<1> QED
  BY <1>2, <1>3, TypedNext DEF TypedInv

LEMMA NextTyped ==
  ASSUME TypedInv, [Next]_vars
  PROVE  TypedInv'
BY EditsTyped, SearchBegunTyped, VisitTyped, SearchEndedTyped, StutterTyped DEF Next

LEMMA InitTyped ==
  ASSUME Init
  PROVE  TypedInv
<1>1. MaxOf(InputSlews) \in Slews
  BY GraphDelayCalcAssumption, SlewFacts, MaxOfFinite
<1>2. InputsTyped
  BY <1>1 DEF Init, InputsTyped
<1>3. GraphTyped
  BY SlewFacts DEF Init, GraphTyped
<1>4. RecordsTyped /\ MapTyped
  BY DEF Init, RecordsTyped, MapTyped, Busy
<1> QED
  BY <1>2, <1>3, <1>4, TypedParts DEF TypedInv, Init, Busy

\* The types hold of every graph: nothing waits to be found that belongs to an
\* earlier calculation, and a net with several drivers is found at the highest.
THEOREM DelayCalcTypeCorrect == Spec => []TypeOK
<1>1. TypedInv => TypeOK
  BY DEF TypedInv, Typed
<1>2. TypedInv /\ [Next]_vars => TypedInv'
  BY NextTyped
<1> QED
  BY <1>1, <1>2, InitTyped, PTL DEF Spec

-----------------------------------------------------------------------------
(* Nets when every pin is connected.                                       *)

LEMMA NetFacts ==
  ASSUME NEW quiet, HandledEdits(quiet), NEW d \in Drivers
  PROVE  /\ Net(d) \in SUBSET Drivers
         /\ \A e \in Net(d) : d \in Net(e) /\ Net(e) = Net(d)
         /\ \A e \in Net(d), l \in Vertices : <<d, l>> \in Wires <=> <<e, l>> \in Wires
         /\ Several(d) => d \in Net(d)
         /\ \A e \in Net(d) : d \in Net(d) /\ (Several(e) <=> Several(d))
         /\ \A w \in Wires : w[1] = d => d \in Net(d)
<1>1. \A w, x, y \in Wires : w[2] = x[2] /\ y[1] = w[1] => <<x[1], y[2]>> \in Wires
  BY DEF HandledEdits
<1>2. \A a, l, b, m : <<a, l>> \in Wires /\ <<b, l>> \in Wires /\ <<a, m>> \in Wires => <<b, m>> \in Wires
  BY <1>1
<1>3. Net(d) \in SUBSET Drivers
  BY DEF Net
<1>4. ASSUME NEW e \in Net(d), NEW l \in Vertices
      PROVE  <<d, l>> \in Wires <=> <<e, l>> \in Wires
  <2>1. PICK m \in Vertices : <<d, m>> \in Wires /\ <<e, m>> \in Wires
    BY DEF Net
  <2> QED
    BY <1>2, <2>1
<1>5. \A e \in Net(d) : d \in Net(e) /\ Net(e) = Net(d)
  <2> TAKE e \in Net(d)
  <2>1. d \in Net(e)
    BY DEF Net
  <2>2. \A f : f \in Net(e) <=> f \in Net(d)
    BY <1>4 DEF Net
  <2> QED
    BY <2>1, <2>2
<1>6. Several(d) => d \in Net(d)
  BY DEF Several, Net
<1>7. \A e \in Net(d) : d \in Net(d) /\ (Several(e) <=> Several(d))
  BY <1>5 DEF Several
<1>8. \A w \in Wires : w[1] = d => d \in Net(d)
  BY EdgeFacts DEF Net
<1> QED
  BY <1>3, <1>4, <1>5, <1>6, <1>7, <1>8

LEMMA TopFacts ==
  ASSUME NEW quiet, HandledEdits(quiet), NEW d \in Drivers
  PROVE  /\ Top(d) \in Drivers /\ Top(d) \in Vertices
         /\ Level[d] <= Level[Top(d)]
         /\ Top(Top(d)) = Top(d)
         /\ Several(Top(d)) <=> Several(d)
         /\ Several(d) => Top(d) \in Net(d) /\ Net(Top(d)) = Net(d)
         /\ ~Several(d) => Top(d) = d
         /\ \A e \in Net(d) : Top(e) = Top(d)
         /\ \A e \in Drivers : Top(e) = Top(d) => e = d \/ (Several(d) /\ e \in Net(d))
         /\ d \in Ports => Top(d) = d /\ ~Several(d)
         /\ Top(d) \in Ports <=> d \in Ports
<1>1. CASE ~Several(d)
  <2>1. Top(d) = d /\ d \in Vertices
    BY <1>1, EdgeFacts DEF Top
  <2>2. Level[d] <= Level[d]
    BY <2>1, LevelFacts
  <2>3. \A e \in Net(d) : e = d
    BY <1>1 DEF Several
  <2>4. ASSUME NEW e \in Drivers, Top(e) = Top(d) PROVE e = d
    <3>1. CASE Several(e)
      <4>1. Highest(Net(e)) \in Net(e) /\ Net(e) \in SUBSET Drivers
        <5>1. Net(e) \in SUBSET Vertices /\ Net(e) # {} /\ Net(e) \in SUBSET Drivers
          BY <3>1, NetFacts, EdgeFacts
        <5> QED
          BY <5>1, HighestOf
      <4>2. d \in Net(e)
        BY <2>1, <2>4, <3>1, <4>1 DEF Top
      <4>3. Several(d)
        BY <3>1, <4>2, NetFacts
      <4> QED
        BY <1>1, <4>3
    <3>2. CASE ~Several(e)
      BY <2>1, <2>4, <3>2 DEF Top
    <3> QED
      BY <3>1, <3>2
  <2> QED
    BY <1>1, <2>1, <2>2, <2>3, <2>4
<1>2. CASE Several(d)
  <2> DEFINE t == Highest(Net(d))
  <2>1. Top(d) = t
    BY <1>2 DEF Top
  <2>2. d \in Net(d) /\ Net(d) \in SUBSET Drivers /\ Net(d) \in SUBSET Vertices
    BY <1>2, NetFacts, EdgeFacts
  <2>3. t \in Net(d) /\ Level[d] <= Level[t]
    BY <2>2, HighestOf
  <2> HIDE DEF t
  <2>4. Net(t) = Net(d) /\ Several(t)
    BY <1>2, <2>3, NetFacts
  <2>5. \A e \in Net(d) : Top(e) = t
    <3> TAKE e \in Net(d)
    <3>1. Several(e) /\ Net(e) = Net(d)
      BY <1>2, NetFacts
    <3> QED
      BY <3>1 DEF Top, t
  <2>6. ASSUME NEW e \in Drivers, Top(e) = t PROVE e \in Net(d)
    <3>1. CASE Several(e)
      <4>1. Net(e) \in SUBSET Vertices /\ Net(e) # {} /\ e \in Net(e)
        BY <3>1, NetFacts, EdgeFacts
      <4>2. Highest(Net(e)) \in Net(e)
        BY <4>1, HighestOf
      <4>3. t \in Net(e)
        BY <2>6, <3>1, <4>2 DEF Top
      <4>4. Net(t) = Net(e)
        BY <4>3, NetFacts
      <4> QED
        BY <2>4, <4>1, <4>4
    <3>2. CASE ~Several(e)
      BY <2>3, <2>6, <3>2 DEF Top
    <3> QED
      BY <3>1, <3>2
  <2>7. \A e \in Drivers : Several(e) => e \notin Ports
    BY DEF HandledEdits
  <2> QED
    BY <1>2, <2>1, <2>2, <2>3, <2>4, <2>5, <2>6, <2>7
<1>3. \A e \in Drivers : Several(e) => e \notin Ports
  BY DEF HandledEdits
<1> QED
  BY <1>1, <1>2, <1>3

-----------------------------------------------------------------------------
(* Nets as they are connected, and the constraints.                        *)

InputInv ==
  /\ Wires \ wires \subseteq WireEdits
  /\ disabled \subseteq DisableEdits /\ slew_annotated \subseteq AnnotateEdits
  /\ \A d \in Drivers \ CapEdits : ext_cap[d] = 0

\* The drivers whose delays a visit of t finds.
FoundWith(t) == IF Several(t) THEN Net(t) ELSE {t}

LEMMA WholeNets ==
  ASSUME Typed, InputInv, NEW quiet, HandledEdits(quiet), NEW d \in Drivers, Several(d)
  PROVE  /\ \A w \in Wires : w[1] = d => w \in wires
         /\ NetDrivers(d) = Net(d)
         /\ Cardinality(NetDrivers(d)) > 1
         /\ d \notin slew_annotated /\ ext_cap[d] = 0
         /\ d \notin Ports /\ FaninArcs(d) # {}
<1>1. PICK f \in Net(d) : f # d
  BY DEF Several
<1>2. ASSUME NEW w \in Wires, w[1] = d PROVE w \in wires
  <2>1. SUFFICES ASSUME w \notin wires PROVE FALSE
    OBVIOUS
  <2>2. w \in WireEdits /\ \A x \in Wires : x[2] = w[2] => x = w
    BY <2>1 DEF InputInv, HandledEdits
  <2>3. w = <<d, w[2]>> /\ w[2] \in Vertices
    BY <1>2, EdgeFacts
  <2>4. <<f, w[2]>> \in Wires
    BY <2>3, NetFacts
  <2>5. <<f, w[2]>> = w
    BY <2>2, <2>4
  <2>6. f = d
    BY <2>3, <2>5
  <2> QED
    BY <1>1, <2>6
<1>3. \A e \in Net(d) : Several(e) /\ e \in Drivers
  BY NetFacts
<1>4. ASSUME NEW e \in Net(d), NEW w \in Wires, w[1] = e PROVE w \in wires
  <2>1. PICK f2 \in Net(e) : f2 # e
    BY <1>3 DEF Several
  <2>2. SUFFICES ASSUME w \notin wires PROVE FALSE
    OBVIOUS
  <2>3. w \in WireEdits /\ \A x \in Wires : x[2] = w[2] => x = w
    BY <2>2 DEF InputInv, HandledEdits
  <2>4. w = <<e, w[2]>> /\ w[2] \in Vertices
    BY <1>4, EdgeFacts
  <2>5. <<f2, w[2]>> \in Wires
    BY <1>3, <2>4, NetFacts
  <2>6. <<f2, w[2]>> = w
    BY <2>3, <2>5
  <2>7. f2 = e
    BY <2>4, <2>6
  <2> QED
    BY <2>1, <2>7
<1>5. d \notin Ports /\ d \notin AnnotateEdits /\ d \notin CapEdits
  BY DEF HandledEdits
<1>6. \A e \in Net(d) : e \notin Ports
  BY <1>3 DEF HandledEdits
<1>7. NetDrivers(d) = Net(d)
  <2>1. wires \subseteq Wires
    BY DEF Typed, TypeOK
  <2>2. ASSUME NEW e \in NetDrivers(d) PROVE e \in Net(d)
    <3>1. PICK x \in wires, y \in WiresFrom(d) : y[2] = x[2] /\ e = x[1]
      BY DEF NetDrivers
    <3>2. y \in Wires /\ y = <<d, y[2]>> /\ y[2] \in Vertices /\ x = <<e, y[2]>> /\ e \in Drivers
      BY <2>1, <3>1, EdgeFacts DEF WiresFrom
    <3>3. <<d, y[2]>> \in Wires /\ <<e, y[2]>> \in Wires
      BY <2>1, <3>2
    <3> QED
      BY <3>2, <3>3 DEF Net
  <2>3. ASSUME NEW e \in Net(d) PROVE e \in NetDrivers(d)
    <3>1. PICK l \in Vertices : <<d, l>> \in Wires /\ <<e, l>> \in Wires
      BY DEF Net
    <3>2. <<d, l>> \in wires /\ <<e, l>> \in wires
      BY <1>2, <1>4, <3>1
    <3>3. <<d, l>> \in WiresFrom(d)
      BY <3>2 DEF WiresFrom
    <3>4. <<e, l>> \in {x \in wires : \E y \in WiresFrom(d) : y[2] = x[2]}
      BY <3>2, <3>3
    <3>5. e \in {w[1] : w \in {x \in wires : \E y \in WiresFrom(d) : y[2] = x[2]}}
      BY <3>4
    <3> QED
      BY <1>6, <3>5 DEF NetDrivers
  <2> QED
    BY <2>2, <2>3
<1>8. Cardinality(Net(d)) > 1
  <2>1. IsFiniteSet(Net(d)) /\ d \in Net(d)
    BY NetFacts, EdgesFinite, EdgeFacts
  <2>2. IsFiniteSet(Net(d) \ {d}) /\ Cardinality(Net(d) \ {d}) = Cardinality(Net(d)) - 1
    BY <2>1, FS_RemoveElement
  <2>3. Cardinality(Net(d) \ {d}) # 0 /\ Cardinality(Net(d) \ {d}) \in Nat /\ Cardinality(Net(d)) \in Nat
    BY <1>1, <2>1, <2>2, FS_EmptySet, FS_CardinalityType
  <2> QED
    BY <2>2, <2>3
<1>9. FaninArcs(d) # {}
  <2>1. PICK e \in Arcs \ DisableEdits : e[2] = d
    BY <1>5 DEF HandledEdits
  <2> QED
    BY <2>1 DEF FaninArcs, Enabled, InputInv
<1> QED
  BY <1>2, <1>5, <1>7, <1>8, <1>9 DEF InputInv

\* A net with one driver has no record.
LEMMA SingleNets ==
  ASSUME Typed, InputInv, NEW quiet, HandledEdits(quiet), NEW d \in Drivers, ~Several(d)
  PROVE  /\ NetDrivers(d) \subseteq {d}
         /\ ~(Cardinality(NetDrivers(d)) > 1)
<1>1. wires \subseteq Wires
  BY DEF Typed, TypeOK
<1>2. ASSUME NEW e \in NetDrivers(d) PROVE e = d
  <2>1. PICK x \in wires, y \in WiresFrom(d) : y[2] = x[2] /\ e = x[1]
    BY DEF NetDrivers
  <2>2. y \in Wires /\ y = <<d, y[2]>> /\ y[2] \in Vertices /\ x = <<e, y[2]>> /\ e \in Drivers
    BY <1>1, <2>1, EdgeFacts DEF WiresFrom
  <2>3. <<d, y[2]>> \in Wires /\ <<e, y[2]>> \in Wires
    BY <1>1, <2>2
  <2>4. e \in Net(d)
    BY <2>2, <2>3 DEF Net
  <2> QED
    BY <2>4 DEF Several
<1>3. NetDrivers(d) \subseteq {d}
  BY <1>2
<1>4. IsFiniteSet({d}) /\ Cardinality({d}) = 1
  BY FS_Singleton
<1>5. IsFiniteSet(NetDrivers(d)) /\ Cardinality(NetDrivers(d)) <= 1
  BY <1>3, <1>4, FS_Subset
<1>6. Cardinality(NetDrivers(d)) \in Nat
  BY <1>5, FS_CardinalityType
<1> QED
  BY <1>3, <1>5, <1>6

\* The load of a net with several drivers.
NetCap(d) == Cardinality({w \in Wires : w[1] = Top(d) /\ w[2] \in HeavyLoads})

LEMMA NetLoad ==
  ASSUME Typed, InputInv, NEW quiet, HandledEdits(quiet), NEW d \in Drivers, Several(d)
  PROVE  ConnectedCap(d) = NetCap(d)
<1> DEFINE t == Top(d)
           A == {w \in WiresFrom(d) : w[2] \in HeavyLoads}
           B == {w \in Wires : w[1] = t /\ w[2] \in HeavyLoads}
           f == [w \in A |-> <<t, w[2]>>]
<1>1. t \in Net(d) /\ t \in Drivers
  BY TopFacts
<1>2. wires \subseteq Wires
  BY DEF Typed, TypeOK
<1>3. A \subseteq Wires /\ \A w \in A : w = <<d, w[2]>> /\ w[2] \in Vertices
  BY <1>2, EdgeFacts DEF WiresFrom
<1>4. ASSUME NEW w \in A PROVE f[w] \in B
  <2>1. <<d, w[2]>> \in Wires /\ w[2] \in Vertices /\ w[2] \in HeavyLoads
    BY <1>3
  <2>2. <<t, w[2]>> \in Wires
    BY <1>1, <2>1, NetFacts
  <2> QED
    BY <2>1, <2>2
<1>5. ASSUME NEW x \in B PROVE \E w \in A : f[w] = x
  <2>1. x = <<t, x[2]>> /\ x[2] \in Vertices
    BY EdgeFacts
  <2>2. <<d, x[2]>> \in Wires
    BY <1>1, <2>1, NetFacts
  <2>3. <<d, x[2]>> \in wires
    BY <2>2, WholeNets
  <2>4. <<d, x[2]>> \in A
    BY <2>3 DEF WiresFrom
  <2> QED
    BY <2>1, <2>4
<1>6. \A w, x \in A : f[w] = f[x] => w = x
  <2> TAKE w, x \in A
  <2>1. w = <<d, w[2]>> /\ x = <<d, x[2]>>
    BY <1>3
  <2>2. f[w] = f[x] => w[2] = x[2]
    OBVIOUS
  <2> QED
    BY <2>1, <2>2
<1>7. IsFiniteSet(A)
  BY <1>3, EdgesFinite
<1>8. f \in Bijection(A, B)
  <2>1. f \in [A -> B]
    BY <1>4
  <2> HIDE DEF A, B, f
  <2> QED
    BY <1>5, <1>6, <2>1 DEF Bijection, Injection, Surjection, IsInjective
<1>9. Cardinality(B) = Cardinality(A)
  <2>1. ExistsBijection(A, B)
    BY <1>8 DEF ExistsBijection
  <2> HIDE DEF A, B, f
  <2> QED
    BY <1>7, <2>1, FS_Bijection
<1>10. ext_cap[d] = 0
  BY WholeNets
<1>11. Cardinality(A) \in Nat
  BY <1>7, FS_CardinalityType
<1> QED
  BY <1>9, <1>10, <1>11 DEF ConnectedCap, NetCap

-----------------------------------------------------------------------------
(* The records of nets with several drivers.                               *)

NetRecord(d) == [drvrs |-> Net(d), dcalc_drvr |-> Top(d), cap |-> NetCap(d)]

MapInv ==
  /\ \A d \in Drivers : multi_drvr_net_map[d] # NoMultiDrvr =>
       Several(d) /\ multi_drvr_net_map[d] = NetRecord(d)
  /\ delays_exist => \A d \in Drivers : Several(d) => multi_drvr_net_map[d] # NoMultiDrvr

LEMMA RecordFacts ==
  ASSUME Typed, InputInv, NEW quiet, HandledEdits(quiet), NEW d \in Drivers, Several(d)
  PROVE  /\ MakeMultiDrvrNet(d) = NetRecord(d)
         /\ NetRecord(d) # NoMultiDrvr
         /\ \A e \in Net(d) : Several(e) /\ NetRecord(e) = NetRecord(d)
         /\ NetRecord(d).drvrs = Net(d) /\ NetRecord(d).dcalc_drvr = Top(d)
         /\ NetRecord(d).cap = NetCap(d)
<1>1. NetDrivers(d) = Net(d) /\ Highest(Net(d)) = Top(d)
  BY WholeNets DEF Top
<1>2. Top(d) \in Drivers /\ Several(Top(d)) /\ Top(Top(d)) = Top(d)
  BY TopFacts
<1>3. ConnectedCap(Top(d)) = NetCap(Top(d))
  BY <1>2, NetLoad
<1>4. NetCap(Top(d)) = NetCap(d)
  BY <1>2 DEF NetCap
<1>5. MakeMultiDrvrNet(d) = NetRecord(d)
  BY <1>1, <1>3, <1>4 DEF MakeMultiDrvrNet, NetRecord
<1>6. NetRecord(d) # NoMultiDrvr
  <2>1. NetRecord(d).drvrs = Net(d) /\ NoMultiDrvr.drvrs = {}
    BY DEF NetRecord, NoMultiDrvr
  <2>2. Net(d) # {}
    BY NetFacts
  <2> QED
    BY <2>1, <2>2
<1>7. \A e \in Net(d) : Several(e) /\ NetRecord(e) = NetRecord(d)
  <2> TAKE e \in Net(d)
  <2>1. Several(e) /\ Net(e) = Net(d) /\ Top(e) = Top(d)
    BY NetFacts, TopFacts
  <2> QED
    BY <2>1 DEF NetRecord, NetCap
<1> QED
  BY <1>5, <1>6, <1>7 DEF NetRecord

LEMMA MapFoundInv ==
  ASSUME Typed, InputInv, MapInv, NEW quiet, HandledEdits(quiet), NEW d \in Drivers
  PROVE  LET m == FindMultiDrvrNet(d)
         IN  /\ \A e \in Drivers : m[e] # NoMultiDrvr => Several(e) /\ m[e] = NetRecord(e)
             /\ \A e \in Drivers : multi_drvr_net_map[e] # NoMultiDrvr => m[e] # NoMultiDrvr
             /\ Several(d) => m[d] # NoMultiDrvr
             /\ MultiOf(d) = IF Several(d) THEN NetRecord(d) ELSE NoMultiDrvr
<1> DEFINE m == FindMultiDrvrNet(d)
<1>0. \A e \in Drivers : multi_drvr_net_map[e] # NoMultiDrvr =>
        Several(e) /\ multi_drvr_net_map[e] = NetRecord(e)
  BY DEF MapInv
<1>1. CASE ~Several(d)
  <2>1. ~(Cardinality(NetDrivers(d)) > 1)
    BY <1>1, SingleNets
  <2>2. m = multi_drvr_net_map /\ MultiOf(d) = NoMultiDrvr
    BY <2>1 DEF FindMultiDrvrNet, MultiOf
  <2> QED
    BY <1>0, <1>1, <2>2
<1>2. CASE Several(d) /\ multi_drvr_net_map[d] # NoMultiDrvr
  <2>1. m = multi_drvr_net_map
    BY <1>2 DEF FindMultiDrvrNet
  <2>2. MultiOf(d) = NetRecord(d)
    BY <1>0, <1>2, <2>1, WholeNets DEF MultiOf
  <2> QED
    BY <1>0, <1>2, <2>1, <2>2
<1>3. CASE Several(d) /\ multi_drvr_net_map[d] = NoMultiDrvr
  <2>1. Cardinality(NetDrivers(d)) > 1 /\ NetDrivers(d) = Net(d) /\ d \in Net(d)
    BY <1>3, WholeNets, NetFacts
  <2>2. m = [e \in Drivers |-> IF e \in Net(d) THEN MakeMultiDrvrNet(d) ELSE multi_drvr_net_map[e]]
    BY <1>3, <2>1 DEF FindMultiDrvrNet
  <2>3. /\ MakeMultiDrvrNet(d) = NetRecord(d) /\ NetRecord(d) # NoMultiDrvr
        /\ \A e \in Net(d) : Several(e) /\ NetRecord(e) = NetRecord(d)
    BY <1>3, RecordFacts
  <2>4. \A e \in Drivers : m[e] = IF e \in Net(d) THEN NetRecord(e) ELSE multi_drvr_net_map[e]
    BY <2>2, <2>3
  <2>5. MultiOf(d) = m[d]
    BY <2>1 DEF MultiOf
  <2> HIDE DEF m
  <2>6. \A e \in Drivers : m[e] # NoMultiDrvr => Several(e) /\ m[e] = NetRecord(e)
    BY <1>0, <2>3, <2>4
  <2>7. \A e \in Drivers : multi_drvr_net_map[e] # NoMultiDrvr => m[e] # NoMultiDrvr
    BY <2>3, <2>4
  <2>8. m[d] = NetRecord(d)
    BY <2>1, <2>4
  <2> QED
    BY <1>3, <2>3, <2>5, <2>6, <2>7, <2>8 DEF m
<1> QED
  BY <1>1, <1>2, <1>3

-----------------------------------------------------------------------------
(* The vertex whose visit finds the slew of another.                       *)

Finds(t, v) ==
  \/ v \in Drivers /\ t = Top(v)
  \/ v \notin Drivers /\ IsRoot(v) /\ t = v
  \/ v \notin Drivers /\ \E w \in WiresTo(v) : t = Top(w[1])

LEMMA WiresToFacts ==
  ASSUME Typed, NEW l \in Vertices, l \notin Drivers
  PROVE  /\ \A w \in WiresTo(l) : /\ w \in wires /\ w \in Wires /\ w[1] \in Drivers
                                  /\ w[2] = l /\ w = <<w[1], l>> /\ w[1] \in Vertices
         /\ IsRoot(l) <=> WiresTo(l) = {}
BY TypedParts, EdgeFacts DEF InputsTyped, WiresTo, IsRoot

LEMMA FinderFacts ==
  ASSUME Typed, NEW quiet, HandledEdits(quiet), NEW v \in Vertices
  PROVE  /\ \A t, s : Finds(t, v) /\ Finds(s, v) => t = s
         /\ \E t \in Vertices : Finds(t, v)
         /\ \A t : Finds(t, v) => /\ t \in Vertices
                                  /\ v \in Drivers => Level[v] <= Level[t]
                                  /\ v \notin Drivers => Level[t] <= Level[v]
<1>1. CASE v \in Drivers
  <2>1. \A t : Finds(t, v) <=> t = Top(v)
    BY <1>1 DEF Finds
  <2> QED
    BY <1>1, <2>1, TopFacts
<1>2. CASE v \notin Drivers /\ IsRoot(v)
  <2>1. WiresTo(v) = {}
    BY <1>2, WiresToFacts
  <2>2. \A t : Finds(t, v) <=> t = v
    BY <1>2, <2>1 DEF Finds
  <2>3. Level[v] <= Level[v]
    BY LevelFacts
  <2> QED
    BY <1>2, <2>2, <2>3
<1>3. CASE v \notin Drivers /\ ~IsRoot(v)
  <2>1. PICK x \in WiresTo(v) : TRUE
    BY <1>3, WiresToFacts
  <2>2. x \in Wires /\ x = <<x[1], v>> /\ x[1] \in Drivers
    BY <1>3, WiresToFacts
  <2>3. \A w \in WiresTo(v) : Top(w[1]) = Top(x[1])
    <3> TAKE w \in WiresTo(v)
    <3>1. w \in Wires /\ w = <<w[1], v>> /\ w[1] \in Drivers
      BY <1>3, WiresToFacts
    <3>2. w[1] \in Net(x[1])
      BY <2>2, <3>1 DEF Net
    <3> QED
      BY <2>2, <3>2, TopFacts
  <2>4. \A t : Finds(t, v) <=> t = Top(x[1])
    BY <1>3, <2>1, <2>3 DEF Finds
  <2>5. <<Top(x[1]), v>> \in Wires
    <3>1. CASE Several(x[1])
      <4>1. Top(x[1]) \in Net(x[1])
        BY <2>2, <3>1, TopFacts
      <4> QED
        BY <2>2, <4>1, NetFacts
    <3>2. CASE ~Several(x[1])
      BY <2>2, <3>2, TopFacts
    <3> QED
      BY <3>1, <3>2
  <2>6. Level[<<Top(x[1]), v>>[1]] < Level[<<Top(x[1]), v>>[2]]
    BY <2>5, LevelFacts
  <2>7. Level[Top(x[1])] < Level[v] /\ Top(x[1]) \in Vertices /\ Level[Top(x[1])] \in Nat /\ Level[v] \in Nat
    BY <2>2, <2>6, TopFacts, LevelFacts
  <2> QED
    BY <1>3, <2>4, <2>7
<1> QED
  BY <1>1, <1>2, <1>3

\* An arc leads to what is found later.
LEMMA ArcLevels ==
  ASSUME Typed, NEW quiet, HandledEdits(quiet), NEW e \in Arcs, NEW t, Finds(t, e[1])
  PROVE  Level[t] < Level[Top(e[2])]
<1>1. e[1] \in Vertices /\ e[1] \notin Drivers /\ e[2] \in Drivers /\ e[2] \in Vertices
  BY EdgeFacts
<1>2. Level[e[1]] < Level[e[2]] /\ Level[e[2]] <= Level[Top(e[2])]
  BY <1>1, LevelFacts, TopFacts
<1>3. Level[t] <= Level[e[1]] /\ t \in Vertices
  BY <1>1, FinderFacts
<1>4. Level[t] \in Nat /\ Level[e[1]] \in Nat /\ Level[e[2]] \in Nat /\ Level[Top(e[2])] \in Nat
  BY <1>1, <1>3, LevelFacts, TopFacts
<1> QED
  BY <1>2, <1>3, <1>4

\* A wire from a driver leads to what the same visit finds.
LEMMA WireFinds ==
  ASSUME Typed, NEW quiet, HandledEdits(quiet), NEW w \in wires, NEW t
  PROVE  /\ Finds(t, w[2]) <=> t = Top(w[1])
         /\ Finds(t, w[1]) <=> t = Top(w[1])
         /\ w[2] \notin Drivers /\ w[2] \in Vertices /\ ~IsRoot(w[2])
         /\ w[1] \in Drivers /\ w \in Wires /\ w = <<w[1], w[2]>>
<1>1. w \in Wires
  BY TypedParts DEF InputsTyped
<1>2. w[2] \notin Drivers /\ w[2] \in Vertices /\ w[1] \in Drivers /\ w = <<w[1], w[2]>>
  BY <1>1, EdgeFacts
<1>3. w \in WiresTo(w[2])
  BY DEF WiresTo
<1>4. Finds(Top(w[1]), w[2])
  BY <1>2, <1>3 DEF Finds
<1>5. Finds(t, w[2]) => t = Top(w[1])
  BY <1>2, <1>4, FinderFacts
<1> QED
  BY <1>1, <1>2, <1>3, <1>4, <1>5 DEF Finds, IsRoot

-----------------------------------------------------------------------------
(* What a visit does to the graph.                                         *)

LoadSlewIn(s, d) == IF FaninArcs(d) = {} /\ d \notin Ports THEN 0 ELSE s[d]
\* The slew that v should have, where those of the graph are s.
RightSlew(s, v) ==
  IF v \in Ports THEN input_slew[v]
  ELSE IF v \in Drivers THEN IF FaninArcs(v) = {} THEN NoSlew ELSE GateSlewOf(s, v, ConnectedCap(v))
  ELSE IF IsRoot(v) THEN 0 ELSE MaxOf({LoadSlewIn(s, w[1]) : w \in WiresTo(v)})
WireDelay(d) == IF FaninArcs(d) = {} /\ d \notin Ports THEN 0 ELSE ConnectedCap(d)

LEMMA CurrentFacts ==
  ASSUME Typed
  PROVE  /\ \A v : SlewCurrent(v) <=> (v \notin slew_annotated => slew[v] = RightSlew(slew, v))
         /\ \A e \in Enabled : DelayCurrent(e) <=> delay[e] = GateDelay[slew[e[1]], ConnectedCap(e[2])]
         /\ \A e \in wires : DelayCurrent(e) <=> delay[e] = WireDelay(e[1])
         /\ \A e \in Checks : DelayCurrent(e) <=> delay[e] = CheckDelay[slew[e[1]], slew[e[2]]]
         /\ \A e \in LatchArcs : DelayCurrent(e) <=> delay[e] = GateDelay[slew[e[1]], ConnectedCap(e[2])]
<1>1. \A v : SlewCurrent(v) <=> (v \notin slew_annotated => slew[v] = RightSlew(slew, v))
  BY DEF SlewCurrent, RightSlew, GateSlewOf, LoadSlewFrom, LoadSlewIn
<1>2. Enabled \subseteq Arcs /\ wires \subseteq Wires
  BY DEF Enabled, Typed, TypeOK
<1>3. \A e \in Enabled \cup LatchArcs : e \notin Checks
  BY <1>2, EdgeFacts
<1>4. \A e \in wires : e \notin Checks /\ e \notin Enabled \cup LatchArcs
  BY <1>2, EdgeFacts
<1>5. \A e \in Enabled \cup LatchArcs :
        DelayCurrent(e) <=> delay[e] = GateDelay[slew[e[1]], ConnectedCap(e[2])]
  BY <1>3, <1>4 DEF DelayCurrent
<1>6. \A e \in wires : DelayCurrent(e) <=> delay[e] = WireDelay(e[1])
  BY <1>4 DEF DelayCurrent, WireDelay
<1>7. \A e \in Checks : DelayCurrent(e) <=> delay[e] = CheckDelay[slew[e[1]], slew[e[2]]]
  <2>1. \A e \in Checks : e \notin Enabled \cup LatchArcs /\ e \notin wires
    BY <1>3, <1>4
  <2> QED
    BY <2>1 DEF DelayCurrent
<1> QED
  BY <1>1, <1>5, <1>6, <1>7

\* The right slew depends on those of the inputs only.
LEMMA RightSlewSame ==
  ASSUME NEW s, NEW r, NEW v,
         v \in Drivers => \A e \in FaninArcs(v) : s[e[1]] = r[e[1]],
         v \notin Drivers => \A w \in WiresTo(v) : s[w[1]] = r[w[1]]
  PROVE  RightSlew(s, v) = RightSlew(r, v)
<1>1. CASE v \in Drivers
  <2>1. {GateSlew[s[e[1]], ConnectedCap(v)] : e \in FaninArcs(v)}
          = {GateSlew[r[e[1]], ConnectedCap(v)] : e \in FaninArcs(v)}
    BY <1>1
  <2> QED
    BY <1>1, <2>1 DEF RightSlew, GateSlewOf
<1>2. CASE v \notin Drivers
  <2>1. \A w \in WiresTo(v) : LoadSlewIn(s, w[1]) = LoadSlewIn(r, w[1])
    BY <1>2 DEF LoadSlewIn
  <2>2. {LoadSlewIn(s, w[1]) : w \in WiresTo(v)} = {LoadSlewIn(r, w[1]) : w \in WiresTo(v)}
    BY <2>1
  <2>3. v \notin Ports
    BY <1>2, EdgeFacts
  <2> QED
    BY <1>2, <2>2, <2>3 DEF RightSlew
<1> QED
  BY <1>1, <1>2

\* The graph g after a visit of t.
Effect(t, g) ==
  /\ \A v \in Vertices : g.slew[v] = IF Finds(t, v) /\ v \notin slew_annotated
                                     THEN RightSlew(g.slew, v) ELSE slew[v]
  /\ \A e \in Enabled : g.delay[e] = IF Top(e[2]) = t
                                     THEN GateDelay[g.slew[e[1]], ConnectedCap(e[2])] ELSE delay[e]
  /\ \A e \in wires : g.delay[e] = IF Top(e[1]) = t THEN WireDelay(e[1]) ELSE delay[e]
  /\ \A e \in Checks \cup LatchArcs : g.delay[e] = delay[e]

LEMMA FoundByDriver ==
  ASSUME Typed, InputInv, NEW quiet, HandledEdits(quiet), NEW t \in Drivers, Top(t) = t
  PROVE  /\ \A v \in Vertices : Finds(t, v) <=> v \in FoundWith(t) \cup LoadsOf(t)
         /\ \A l \in LoadsOf(t) : {w[1] : w \in WiresTo(l)} = FoundWith(t) /\ ~IsRoot(l)
         /\ t \in FoundWith(t) /\ FoundWith(t) \in SUBSET Drivers
         /\ \A d \in FoundWith(t) : LoadsOf(d) = LoadsOf(t) /\ Top(d) = t
         /\ \A d \in Drivers : Top(d) = t <=> d \in FoundWith(t)
         /\ \A d \in FoundWith(t) : \A e \in FaninArcs(d) :
              e[1] \notin LoadsOf(t) /\ e[1] \notin Drivers /\ ~Finds(t, e[1])
<1>1. t \in FoundWith(t) /\ FoundWith(t) \in SUBSET Drivers
  BY NetFacts DEF FoundWith
<1>2. \A d \in Drivers : Top(d) = t <=> d \in FoundWith(t)
  <2>1. ASSUME NEW d \in Drivers, Top(d) = t PROVE d \in FoundWith(t)
    <3>1. d = t \/ (Several(t) /\ d \in Net(t))
      BY <2>1, TopFacts
    <3> QED
      BY <1>1, <3>1 DEF FoundWith
  <2>2. ASSUME NEW d \in Drivers, d \in FoundWith(t) PROVE Top(d) = t
    BY <2>2, TopFacts DEF FoundWith
  <2> QED
    BY <2>1, <2>2
<1>3. wires \subseteq Wires
  BY DEF Typed, TypeOK
<1>4. ASSUME NEW d \in FoundWith(t), NEW l \in Vertices
      PROVE  <<d, l>> \in wires <=> <<t, l>> \in wires
  <2>1. CASE Several(t)
    <3>1. d \in Net(t) /\ d \in Drivers /\ Several(d)
      BY <1>1, <2>1, NetFacts DEF FoundWith
    <3>2. <<d, l>> \in Wires <=> <<t, l>> \in Wires
      BY <3>1, NetFacts
    <3>3. /\ <<d, l>> \in Wires => <<d, l>> \in wires
          /\ <<t, l>> \in Wires => <<t, l>> \in wires
      <4>1. /\ \A w \in Wires : w[1] = d => w \in wires
            /\ \A w \in Wires : w[1] = t => w \in wires
        BY <2>1, <3>1, WholeNets
      <4>2. <<d, l>>[1] = d /\ <<t, l>>[1] = t
        OBVIOUS
      <4> QED
        BY <4>1, <4>2
    <3> QED
      BY <1>3, <3>2, <3>3
  <2>2. CASE ~Several(t)
    BY <2>2 DEF FoundWith
  <2> QED
    BY <2>1, <2>2
<1>5. \A d \in Drivers, l \in Vertices : l \in LoadsOf(d) <=> <<d, l>> \in wires
  <2>1. \A w \in wires : w = <<w[1], w[2]>>
    BY <1>3, EdgeFacts
  <2> QED
    BY <2>1 DEF LoadsOf, WiresFrom
<1>6. \A d \in FoundWith(t) : LoadsOf(d) = LoadsOf(t)
  <2> TAKE d \in FoundWith(t)
  <2>1. LoadsOf(d) \subseteq Vertices /\ LoadsOf(t) \subseteq Vertices
    BY <1>1, LocalFacts
  <2> QED
    BY <1>1, <1>4, <1>5, <2>1
<1>7. ASSUME NEW l \in LoadsOf(t)
      PROVE  /\ {w[1] : w \in WiresTo(l)} = FoundWith(t) /\ ~IsRoot(l)
             /\ Finds(t, l) /\ l \notin Drivers /\ l \in Vertices
  <2>1. l \in Vertices /\ l \notin Drivers
    BY LocalFacts
  <2>2. <<t, l>> \in wires
    BY <1>5, <2>1
  <2>3. Finds(t, <<t, l>>[2]) <=> t = Top(<<t, l>>[1])
    BY <2>2, WireFinds
  <2>4. Finds(t, l) /\ ~IsRoot(l)
    BY <2>2, <2>3, WireFinds
  <2>5. ASSUME NEW d, d \in {w[1] : w \in WiresTo(l)} PROVE d \in FoundWith(t)
    <3>1. PICK w \in wires : w[2] = l /\ w[1] = d
      BY <2>5 DEF WiresTo
    <3>2. w[1] \in Drivers /\ t = Top(w[1])
      BY <2>4, <3>1, WireFinds
    <3> QED
      BY <1>2, <3>1, <3>2
  <2>6. ASSUME NEW d \in FoundWith(t) PROVE d \in {w[1] : w \in WiresTo(l)}
    <3>1. <<d, l>> \in wires
      BY <1>4, <2>1, <2>2
    <3>2. <<d, l>> \in WiresTo(l)
      BY <3>1 DEF WiresTo
    <3>3. <<d, l>>[1] = d
      OBVIOUS
    <3> QED
      BY <3>2, <3>3
  <2> QED
    BY <2>1, <2>4, <2>5, <2>6
<1>8. ASSUME NEW v \in Vertices PROVE Finds(t, v) <=> v \in FoundWith(t) \cup LoadsOf(t)
  <2>1. CASE v \in Drivers
    <3>1. v \notin LoadsOf(t)
      BY <2>1, LocalFacts
    <3>2. Finds(t, v) <=> t = Top(v)
      BY <2>1 DEF Finds
    <3> QED
      BY <1>2, <2>1, <3>1, <3>2
  <2>2. CASE v \notin Drivers
    <3>1. v \notin FoundWith(t) /\ t # v
      BY <1>1, <2>2
    <3>2. v \in LoadsOf(t) => Finds(t, v)
      BY <1>7
    <3>3. ASSUME Finds(t, v) PROVE v \in LoadsOf(t)
      <4>1. PICK w \in WiresTo(v) : t = Top(w[1])
        BY <2>2, <3>1, <3>3 DEF Finds
      <4>2. w \in wires /\ w = <<w[1], v>> /\ w[1] \in Drivers
        BY <2>2, WiresToFacts
      <4>3. w[1] \in FoundWith(t)
        BY <1>2, <4>1, <4>2
      <4> QED
        BY <1>5, <1>6, <4>2, <4>3
    <3> QED
      BY <3>1, <3>2, <3>3
  <2> QED
    BY <2>1, <2>2
<1>9. ASSUME NEW d \in FoundWith(t), NEW e \in FaninArcs(d)
      PROVE  e[1] \notin LoadsOf(t) /\ e[1] \notin Drivers /\ ~Finds(t, e[1])
  <2>1. d \in Drivers /\ e \in Arcs /\ e[2] = d
    BY <1>1, LocalFacts
  <2>2. e[1] \notin Drivers /\ e[1] \in Vertices
    BY <2>1, EdgeFacts
  <2>3. ~Finds(t, e[1])
    <3>1. SUFFICES ASSUME Finds(t, e[1]) PROVE FALSE
      OBVIOUS
    <3>2. Level[t] < Level[Top(e[2])]
      BY <2>1, <3>1, ArcLevels
    <3>3. Top(e[2]) = t
      BY <1>2, <2>1
    <3>4. Level[t] \in Nat
      BY EdgeFacts, LevelFacts
    <3> QED
      BY <3>2, <3>3, <3>4
  <2> QED
    BY <1>8, <2>2, <2>3
<1> QED
  BY <1>1, <1>2, <1>6, <1>7, <1>8, <1>9

LEMMA MaxOfOne ==
  ASSUME NEW a \in Int
  PROVE  MaxOf({a}) = a
BY MaxOfTwo, {a} = {a, a}

\* The graph g after the roots of U are seeded.
Seeded(U, g) ==
  /\ \A v \in Vertices : g.slew[v] = IF (\E r \in U : Finds(r, v)) /\ v \notin slew_annotated
                                     THEN RightSlew(g.slew, v) ELSE slew[v]
  /\ \A e \in wires : g.delay[e] = IF Top(e[1]) \in U THEN WireDelay(e[1]) ELSE delay[e]
  /\ \A e \in Enabled \cup Checks \cup LatchArcs : g.delay[e] = delay[e]

LEMMA SeedOne ==
  ASSUME Typed, InputInv, NEW quiet, HandledEdits(quiet),
         NEW u \in SUBSET Roots, NEW v \in u, NEW k \in GraphType, Seeded(u \ {v}, k)
  PROVE  Seeded(u, SeedRootSlew(k, v))
<1> DEFINE h == SeedRootSlew(k, v)
           s == IF v \in slew_annotated THEN k.slew[v]
                ELSE IF v \in Drivers THEN input_slew[v] ELSE 0
<1>1. v \in Vertices /\ IsRoot(v) /\ (v \in Drivers => v \in Ports)
  BY DEF Roots, IsRoot, Ports
<1>2. /\ h \in GraphType
      /\ \A x \in Vertices : h.slew[x] =
           IF x \in slew_annotated THEN k.slew[x]
           ELSE IF x = v \/ (v \in Drivers /\ x \in LoadsOf(v)) THEN s
           ELSE k.slew[x]
      /\ \A e \in Edges : h.delay[e] =
           IF v \in Drivers /\ e \in WiresFrom(v) THEN ConnectedCap(v) ELSE k.delay[e]
  BY <1>1, RootSeeded
<1> HIDE DEF h
<1>3. v \in Drivers => Top(v) = v /\ FoundWith(v) = {v}
  BY <1>1, TopFacts DEF FoundWith
<1>4. \A x \in Vertices : Finds(v, x) <=> x = v \/ (v \in Drivers /\ x \in LoadsOf(v))
  <2>1. CASE v \in Drivers
    BY <2>1, <1>3, FoundByDriver
  <2>2. CASE v \notin Drivers
    <3>1. \A d \in Drivers : v # Top(d)
      BY <2>2, TopFacts
    <3>2. \A x \in Vertices : x \notin Drivers => \A w \in WiresTo(x) : v # Top(w[1])
      BY <3>1, WiresToFacts
    <3> QED
      BY <1>1, <2>2, <3>1, <3>2 DEF Finds
  <2> QED
    BY <2>1, <2>2
<1>5. \A x \in slew_annotated : x \in Vertices => k.slew[x] = slew[x]
  BY DEF Seeded
<1>6. ASSUME NEW x \in Vertices, x \notin slew_annotated, Finds(v, x)
      PROVE  h.slew[x] = RightSlew(h.slew, x)
  <2>1. h.slew[x] = s
    BY <1>2, <1>4, <1>6
  <2>2. CASE x = v /\ v \in Drivers
    BY <1>1, <1>6, <2>1, <2>2 DEF RightSlew
  <2>3. CASE x = v /\ v \notin Drivers
    <3>1. x \notin Ports
      BY <2>3, EdgeFacts
    <3> QED
      BY <1>1, <1>6, <2>1, <2>3, <3>1 DEF RightSlew
  <2>4. CASE x # v
    <3>1. v \in Drivers /\ x \in LoadsOf(v) /\ x \notin Drivers /\ x \notin Ports
      BY <1>4, <1>6, <2>4, LocalFacts, EdgeFacts
    <3>2. {w[1] : w \in WiresTo(x)} = {v} /\ ~IsRoot(x)
      BY <1>3, <3>1, FoundByDriver
    <3>3. LoadSlewIn(h.slew, v) = h.slew[v]
      BY <1>1, <3>1 DEF LoadSlewIn
    <3>4. {LoadSlewIn(h.slew, w[1]) : w \in WiresTo(x)} = {h.slew[v]}
      BY <3>2, <3>3
    <3>5. h.slew[v] = s
      BY <1>1, <1>2
    <3>6. h.slew[v] \in Int
      BY <1>1, <1>2, SlewFacts DEF GraphType
    <3>7. RightSlew(h.slew, x) = MaxOf({h.slew[v]})
      BY <3>1, <3>2, <3>4 DEF RightSlew
    <3> QED
      BY <2>1, <3>5, <3>6, <3>7, MaxOfOne
  <2> QED
    BY <2>2, <2>3, <2>4
<1>7. ASSUME NEW x \in Vertices, x \notin slew_annotated, ~Finds(v, x)
      PROVE  h.slew[x] = IF \E r \in u : Finds(r, x) THEN RightSlew(h.slew, x) ELSE slew[x]
  <2>1. h.slew[x] = k.slew[x]
    BY <1>2, <1>4, <1>7
  <2>2. (\E r \in u : Finds(r, x)) <=> (\E r \in u \ {v} : Finds(r, x))
    BY <1>7
  <2>3. CASE ~\E r \in u : Finds(r, x)
    BY <1>7, <2>1, <2>2, <2>3 DEF Seeded
  <2>4. CASE \E r \in u : Finds(r, x)
    <3>1. PICK r \in u \ {v} : Finds(r, x)
      BY <2>2, <2>4
    <3>2. k.slew[x] = RightSlew(k.slew, x)
      BY <1>7, <3>1 DEF Seeded
    <3>3. CASE x \in Drivers
      <4>1. r = Top(x) /\ r \in Drivers
        BY <3>1, <3>3, TopFacts DEF Finds
      <4>2. r \in Ports
        BY <4>1 DEF Roots, IsRoot, Ports
      <4>3. x \in Ports
        BY <3>3, <4>1, <4>2, TopFacts
      <4> QED
        BY <2>1, <2>4, <3>2, <4>3 DEF RightSlew
    <3>4. CASE x \notin Drivers
      <4>1. ASSUME NEW w \in WiresTo(x) PROVE k.slew[w[1]] = h.slew[w[1]]
        <5>1. w \in wires /\ w[2] = x /\ w[1] \in Vertices /\ w[1] \in Drivers
          BY <3>4, WiresToFacts
        <5>2. Finds(r, w[1])
          BY <3>1, <5>1, WireFinds
        <5>3. ~Finds(v, w[1])
          BY <3>1, <5>1, <5>2, FinderFacts
        <5> QED
          BY <1>2, <1>4, <5>1, <5>3
      <4>2. RightSlew(k.slew, x) = RightSlew(h.slew, x)
        BY <3>4, <4>1, RightSlewSame
      <4> QED
        BY <2>1, <2>4, <3>2, <4>2
    <3> QED
      BY <3>3, <3>4
  <2> QED
    BY <2>3, <2>4
<1>8. \A x \in Vertices : h.slew[x] = IF (\E r \in u : Finds(r, x)) /\ x \notin slew_annotated
                                      THEN RightSlew(h.slew, x) ELSE slew[x]
  <2> TAKE x \in Vertices
  <2>1. CASE x \in slew_annotated
    BY <1>2, <1>5, <2>1
  <2>2. CASE x \notin slew_annotated /\ Finds(v, x)
    BY <1>6, <2>2
  <2>3. CASE x \notin slew_annotated /\ ~Finds(v, x)
    BY <1>7, <2>3
  <2> QED
    BY <2>1, <2>2, <2>3
<1>9. wires \subseteq Wires /\ wires \subseteq Edges /\ Enabled \cup Checks \cup LatchArcs \subseteq Edges
  BY DEF Typed, TypeOK, Enabled, Edges
<1>10. ASSUME NEW e \in wires
       PROVE  h.delay[e] = IF Top(e[1]) \in u THEN WireDelay(e[1]) ELSE delay[e]
  <2>1. e[1] \in Drivers
    BY <1>9, EdgeFacts
  <2>2. CASE e[1] = v
    <3>1. e \in WiresFrom(v) /\ v \in Drivers /\ v \in Ports /\ Top(v) = v
      BY <1>1, <1>3, <2>1, <2>2 DEF WiresFrom
    <3>2. h.delay[e] = ConnectedCap(v)
      BY <1>2, <1>9, <3>1
    <3>3. WireDelay(v) = ConnectedCap(v)
      BY <3>1 DEF WireDelay
    <3> QED
      BY <2>2, <3>1, <3>2, <3>3
  <2>3. CASE e[1] # v
    <3>1. h.delay[e] = k.delay[e]
      BY <1>2, <1>9, <2>3 DEF WiresFrom
    <3>2. Top(e[1]) # v
      <4>1. SUFFICES ASSUME Top(e[1]) = v PROVE FALSE
        OBVIOUS
      <4>2. v \in Drivers
        BY <2>1, <4>1, TopFacts
      <4>3. Top(e[1]) = Top(v) /\ ~Several(v)
        BY <1>1, <4>1, <4>2, TopFacts
      <4> QED
        BY <2>1, <2>3, <4>2, <4>3, TopFacts
    <3>3. Top(e[1]) \in u <=> Top(e[1]) \in u \ {v}
      BY <3>2
    <3> QED
      BY <3>1, <3>3 DEF Seeded
  <2> QED
    BY <2>2, <2>3
<1>11. \A e \in Enabled \cup Checks \cup LatchArcs : h.delay[e] = delay[e]
  <2> TAKE e \in Enabled \cup Checks \cup LatchArcs
  <2>1. e \notin Wires
    BY EdgeFacts DEF Enabled
  <2>2. h.delay[e] = k.delay[e]
    BY <1>2, <1>9, <2>1 DEF WiresFrom
  <2> QED
    BY <2>2 DEF Seeded
<1> QED
  BY <1>8, <1>10, <1>11 DEF Seeded, h

LEMMA NothingSeeded ==
  ASSUME Typed
  PROVE  Seeded({}, Graph)
BY GraphIsTyped DEF Seeded

\* The roots are found when all are seeded; a visit of a root finds it.
LEMMA RootsEffect ==
  ASSUME Typed, InputInv, NEW quiet, HandledEdits(quiet)
  PROVE  Seeded(Roots, RootsSeeded(Graph, Roots)) /\ RootsSeeded(Graph, Roots) \in GraphType
<1> DEFINE Good == {uk \in (SUBSET Roots) \X GraphType : Seeded(uk[1], uk[2])}
<1>1. Graph \in GraphType
  BY GraphIsTyped
<1>2. <<{}, Graph>> \in Good
  BY <1>1, NothingSeeded
<1>3. ASSUME NEW u \in SUBSET Roots, NEW k \in GraphType, NEW v \in u, <<u \ {v}, k>> \in Good
      PROVE  <<u, SeedRootSlew(k, v)>> \in Good
  <2>1. Seeded(u \ {v}, k)
    BY <1>3
  <2>2. Seeded(u, SeedRootSlew(k, v))
    BY <2>1, SeedOne
  <2>3. v \in Vertices /\ (v \in Drivers => v \in Ports)
    BY DEF Roots, IsRoot, Ports
  <2>4. SeedRootSlew(k, v) \in GraphType
    BY <2>3, RootSeeded
  <2> QED
    BY <2>2, <2>4
<1>4. <<Roots, RootsSeeded(Graph, Roots)>> \in Good
  <2> HIDE DEF Good
  <2> QED
    BY <1>1, <1>2, <1>3, RootsFold
<1> QED
  BY <1>4

LEMMA RootEffect ==
  ASSUME Typed, InputInv, NEW quiet, HandledEdits(quiet), NEW v \in Vertices, IsRoot(v)
  PROVE  Effect(v, SeedRootSlew(Graph, v))
<1> DEFINE g == SeedRootSlew(Graph, v)
<1>1. v \in Roots /\ (v \in Drivers => v \in Ports)
  BY DEF Roots, IsRoot, Ports
<1>2. Graph \in GraphType /\ Seeded({v} \ {v}, Graph)
  BY GraphIsTyped, NothingSeeded, {v} \ {v} = {}
<1>3. Seeded({v}, g)
  BY <1>1, <1>2, SeedOne
<1> HIDE DEF g
<1>4. ASSUME NEW e \in Enabled PROVE Top(e[2]) # v
  <2>1. e \in Arcs /\ e[2] \in Drivers
    BY EdgeFacts DEF Enabled
  <2>2. e[2] \notin Ports
    BY <2>1 DEF Ports
  <2> QED
    BY <1>1, <2>1, <2>2, TopFacts
<1> QED
  BY <1>3, <1>4 DEF Seeded, Effect, g

LEMMA SameGate ==
  ASSUME NEW s, NEW r, NEW d, NEW cap, \A e \in FaninArcs(d) : s[e[1]] = r[e[1]]
  PROVE  GateSlewOf(s, d, cap) = GateSlewOf(r, d, cap)
<1>1. {GateSlew[s[e[1]], cap] : e \in FaninArcs(d)} = {GateSlew[r[e[1]], cap] : e \in FaninArcs(d)}
  OBVIOUS
<1> QED
  BY <1>1 DEF GateSlewOf

LEMMA GraphKinds ==
  ASSUME Typed
  PROVE  /\ wires \subseteq Wires /\ wires \subseteq Edges /\ Enabled \subseteq Arcs
         /\ Enabled \cup Checks \cup LatchArcs \subseteq Edges
         /\ \A e \in Enabled \cup Checks \cup LatchArcs : e \notin wires
         /\ \A e \in Checks \cup LatchArcs : e \notin Enabled
         /\ \A d, e : e \in FaninArcs(d) <=> e \in Enabled /\ e[2] = d
         /\ \A d, e : e \in WiresFrom(d) <=> e \in wires /\ e[1] = d
<1>1. wires \subseteq Wires /\ Enabled \subseteq Arcs
  BY DEF Typed, TypeOK, Enabled
<1>2. \A e \in Enabled \cup Checks \cup LatchArcs : e \notin Wires
  BY <1>1, EdgeFacts
<1>3. \A e \in Checks \cup LatchArcs : e \notin Arcs
  BY EdgeFacts, GraphDelayCalcAssumption
<1> QED
  BY <1>1, <1>2, <1>3 DEF Edges, FaninArcs, WiresFrom

\* The graph before the drivers of a net are found.
LEMMA LoadsCleared ==
  ASSUME Typed, NEW t \in Drivers
  PROVE  /\ InitLoads(Graph, t) \in GraphType
         /\ \A v \in Vertices : InitLoads(Graph, t).slew[v] =
              IF v \in LoadsOf(t) \ slew_annotated THEN NoSlew ELSE slew[v]
         /\ \A e \in Edges : InitLoads(Graph, t).delay[e] = IF e \in WiresFrom(t) THEN 0 ELSE delay[e]
<1> DEFINE k == InitLoads(Graph, t)
           ns == [l \in Vertices |-> NoSlew]
<1>1. ns \in [Vertices -> Slews] /\ 0 \in Nat /\ \A v \in Vertices : ns[v] = NoSlew
  BY SlewFacts
<1>2. Graph \in GraphType /\ Graph.slew = slew /\ Graph.delay = delay
  BY GraphIsTyped
<1>3. k = SetLoads(Graph, t, ns, 0)
  BY DEF InitLoads
<1> HIDE DEF k, ns
<1>4. /\ k \in GraphType
      /\ \A v \in Vertices : k.slew[v] = IF v \in LoadsOf(t) \ slew_annotated THEN ns[v] ELSE Graph.slew[v]
      /\ \A e \in Edges : k.delay[e] = IF e \in WiresFrom(t) THEN 0 ELSE Graph.delay[e]
  BY <1>1, <1>2, <1>3, LoadsSet
<1> QED
  BY <1>1, <1>2, <1>4 DEF k

\* A driver alone on its net.
LEMMA SingleEffect ==
  ASSUME Typed, InputInv, NEW quiet, HandledEdits(quiet), NEW t \in Drivers, t \notin Ports,
         ~Several(t)
  PROVE  Effect(t, FindDriverDelays(Graph, t, NoMultiDrvr))
<1> DEFINE k == InitLoads(Graph, t)
           cap == ConnectedCap(t)
           g == FindDriverDelays1(k, t, cap)
<1>1. FindDriverDelays(Graph, t, NoMultiDrvr) = g
  BY DEF FindDriverDelays, InitLoads
<1>2. /\ k \in GraphType
      /\ \A v \in Vertices : k.slew[v] = IF v \in LoadsOf(t) \ slew_annotated THEN NoSlew ELSE slew[v]
      /\ \A e \in Edges : k.delay[e] = IF e \in WiresFrom(t) THEN 0 ELSE delay[e]
  BY LoadsCleared
<1>3. cap \in Caps /\ LoadsOf(t) \subseteq Vertices /\ t \notin LoadsOf(t) /\ t \in Vertices
  BY LocalFacts, EdgeFacts
<1> HIDE DEF k, cap
<1>4. FoundAs(g, k, t, cap)
  BY <1>2, <1>3, DriverFound
<1> USE DEF FoundAs
<1> HIDE DEF g
<1>5. Top(t) = t /\ FoundWith(t) = {t}
  BY TopFacts DEF FoundWith
<1>6. /\ \A v \in Vertices : Finds(t, v) <=> v \in {t} \cup LoadsOf(t)
      /\ \A l \in LoadsOf(t) : {w[1] : w \in WiresTo(l)} = {t} /\ ~IsRoot(l)
      /\ \A d \in Drivers : Top(d) = t <=> d = t
      /\ \A e \in FaninArcs(t) : e[1] \notin LoadsOf(t) /\ e[1] \notin Drivers
  BY <1>5, FoundByDriver
<1>7. \A e \in FaninArcs(t) : k.slew[e[1]] = slew[e[1]] /\ g.slew[e[1]] = slew[e[1]]
  <2> TAKE e \in FaninArcs(t)
  <2>1. e[1] \in Vertices /\ e[1] # t
    BY <1>6, LocalFacts
  <2> QED
    BY <1>2, <1>4, <1>6, <2>1
<1>8. GateSlewOf(k.slew, t, cap) = GateSlewOf(g.slew, t, cap)
  BY <1>7, SameGate
<1>9. FaninArcs(t) # {} => GateSlewOf(k.slew, t, cap) \in Slews
  BY <1>2, <1>3, GateSlewType DEF GraphType
<1>10. ASSUME NEW v \in Vertices
       PROVE  g.slew[v] = IF Finds(t, v) /\ v \notin slew_annotated THEN RightSlew(g.slew, v) ELSE slew[v]
  <2>1. CASE v \in slew_annotated \/ ~Finds(t, v)
    BY <1>2, <1>4, <1>6, <2>1
  <2>2. CASE v \notin slew_annotated /\ v = t
    <3>1. RightSlew(g.slew, t) = IF FaninArcs(t) = {} THEN NoSlew ELSE GateSlewOf(g.slew, t, cap)
      BY DEF RightSlew, cap
    <3> QED
      BY <1>4, <1>6, <1>8, <2>2, <3>1
  <2>3. CASE v \notin slew_annotated /\ v \in LoadsOf(t)
    <3>1. v \notin Drivers /\ v \notin Ports /\ v # t
      BY <2>3, LocalFacts, EdgeFacts
    <3>2. g.slew[v] = MergedSlew(k, t, v, cap) /\ k.slew[v] = NoSlew
      BY <1>2, <1>4, <2>3, <3>1
    <3>3. RightSlew(g.slew, v) = MaxOf({LoadSlewIn(g.slew, w[1]) : w \in WiresTo(v)})
      BY <1>6, <2>3, <3>1 DEF RightSlew
    <3>4. {LoadSlewIn(g.slew, w[1]) : w \in WiresTo(v)} = {LoadSlewIn(g.slew, t)}
      BY <1>6, <2>3
    <3>5. CASE FaninArcs(t) = {}
      <4>1. LoadSlewIn(g.slew, t) = 0 /\ MergedSlew(k, t, v, cap) = 0
        BY <3>5 DEF LoadSlewIn, MergedSlew
      <4> QED
        BY <1>6, <2>3, <3>2, <3>3, <3>4, <4>1, MaxOfOne
    <3>6. CASE FaninArcs(t) # {}
      <4>1. LoadSlewIn(g.slew, t) = g.slew[t] /\ g.slew[t] \in Int
        BY <1>3, <1>4, <3>6, SlewFacts DEF LoadSlewIn, GraphType
      <4>2. RightSlew(g.slew, v) = g.slew[t]
        BY <3>3, <3>4, <4>1, MaxOfOne
      <4>3. CASE t \in slew_annotated
        <5>1. g.slew[t] = k.slew[t] /\ MergedSlew(k, t, v, cap) = k.slew[t]
          BY <1>3, <1>4, <3>6, <4>3 DEF MergedSlew
        <5> QED
          BY <1>6, <2>3, <3>2, <4>2, <5>1
      <4>4. CASE t \notin slew_annotated
        <5>1. MergedSlew(k, t, v, cap) = MaxOf({NoSlew, GateSlewOf(k.slew, t, cap)})
          BY <3>2, <3>6, <4>4 DEF MergedSlew
        <5>2. MaxOf({NoSlew, GateSlewOf(k.slew, t, cap)}) = GateSlewOf(k.slew, t, cap)
          <6>1. NoSlew \in Int /\ GateSlewOf(k.slew, t, cap) \in Int
                /\ NoSlew <= GateSlewOf(k.slew, t, cap)
            BY <1>9, <3>6, SlewFacts
          <6> QED
            BY <6>1, MaxOfTwo
        <5>3. g.slew[t] = GateSlewOf(k.slew, t, cap)
          BY <1>3, <1>4, <3>6, <4>4
        <5> QED
          BY <1>6, <2>3, <3>2, <4>2, <5>1, <5>2, <5>3
      <4> QED
        BY <4>3, <4>4
    <3> QED
      BY <3>5, <3>6
  <2> QED
    BY <1>6, <2>1, <2>2, <2>3
<1>11. ASSUME NEW e \in Enabled
       PROVE  g.delay[e] = IF Top(e[2]) = t THEN GateDelay[g.slew[e[1]], ConnectedCap(e[2])] ELSE delay[e]
  <2>1. e \in Edges /\ e \notin WiresFrom(t) /\ e[2] \in Drivers /\ (e \in FaninArcs(t) <=> e[2] = t)
    BY GraphKinds, EdgeFacts
  <2>2. Top(e[2]) = t <=> e[2] = t
    BY <1>6, <2>1
  <2>3. CASE e[2] = t
    <3>1. g.delay[e] = GateDelay[k.slew[e[1]], cap] /\ k.slew[e[1]] = slew[e[1]] /\ g.slew[e[1]] = slew[e[1]]
      BY <1>4, <1>7, <2>1, <2>3
    <3> QED
      BY <2>2, <2>3, <3>1 DEF cap
  <2>4. CASE e[2] # t
    BY <1>2, <1>4, <2>1, <2>2, <2>4
  <2> QED
    BY <2>3, <2>4
<1>12. ASSUME NEW e \in wires
       PROVE  g.delay[e] = IF Top(e[1]) = t THEN WireDelay(e[1]) ELSE delay[e]
  <2>1. e \in Edges /\ e[1] \in Drivers /\ (e \in WiresFrom(t) <=> e[1] = t) /\ e \notin FaninArcs(t)
    BY GraphKinds, EdgeFacts
  <2>2. Top(e[1]) = t <=> e[1] = t
    BY <1>6, <2>1
  <2>3. WireDelay(t) = IF FaninArcs(t) = {} THEN 0 ELSE cap
    BY DEF WireDelay, cap
  <2> QED
    BY <1>2, <1>4, <2>1, <2>2, <2>3
<1>13. ASSUME NEW e \in Checks \cup LatchArcs PROVE g.delay[e] = delay[e]
  <2>1. e \in Edges /\ e \notin WiresFrom(t) /\ e \notin FaninArcs(t)
    BY GraphKinds
  <2> QED
    BY <1>2, <1>4, <2>1
<1> QED
  BY <1>1, <1>10, <1>11, <1>12, <1>13 DEF Effect

LEMMA MaxOfMore ==
  ASSUME NEW A, IsFiniteSet(A), A # {}, A \subseteq Int, NEW b \in Int
  PROVE  MaxOf({MaxOf(A), b}) = MaxOf(A \cup {b})
<1> DEFINE m == MaxOf(A)
           x == IF m <= b THEN b ELSE m
<1>1. m \in A /\ \A y \in A : y <= m
  BY MaxOfFinite
<1>2. m \in Int
  BY <1>1
<1> HIDE DEF m
<1>3. MaxOf({m, b}) = x
  BY <1>2, MaxOfTwo
<1>4. x \in A \cup {b} /\ \A y \in A \cup {b} : y <= x
  BY <1>1, <1>2
<1>5. IsFiniteSet(A \cup {b}) /\ A \cup {b} \subseteq Int
  BY FS_Singleton, FS_Union
<1>6. MaxOf(A \cup {b}) = x
  <2> HIDE DEF x
  <2> QED
    BY <1>4, <1>5, MaxOfUnique
<1> QED
  BY <1>3, <1>6 DEF m

\* The graph k when the drivers of u, of the net of t, are found.
Merged(u, cap) == {NoSlew} \cup {GateSlewOf(slew, d, cap) : d \in u}
PartlyFound(t, u, k) ==
  /\ \A v \in Vertices : k.slew[v] =
       IF v \in slew_annotated THEN slew[v]
       ELSE IF v \in u THEN GateSlewOf(slew, v, NetCap(t))
       ELSE IF v \in LoadsOf(t) THEN MaxOf(Merged(u, NetCap(t)))
       ELSE slew[v]
  /\ \A e \in wires : e[1] \in u => k.delay[e] = NetCap(t)
  /\ \A e \in wires : e[1] \notin Net(t) => k.delay[e] = delay[e]
  /\ \A e \in Enabled : k.delay[e] = IF e[2] \in u THEN GateDelay[slew[e[1]], NetCap(t)] ELSE delay[e]
  /\ \A e \in Checks \cup LatchArcs : k.delay[e] = delay[e]

\* What is known of each driver of a net with several.
LEMMA SeveralFacts ==
  ASSUME Typed, InputInv, NEW quiet, HandledEdits(quiet), NEW t \in Drivers, Several(t), Top(t) = t
  PROVE  /\ NetCap(t) \in Caps /\ t \in Net(t) /\ Net(t) \in SUBSET Drivers
         /\ Net(t) \in SUBSET Vertices
         /\ \A d \in Net(t) : /\ FaninArcs(d) # {} /\ d \notin slew_annotated /\ d \notin Ports
                              /\ LoadsOf(d) = LoadsOf(t) /\ ConnectedCap(d) = NetCap(t)
                              /\ GateSlewOf(slew, d, NetCap(t)) \in Slews
                              /\ \A e \in FaninArcs(d) : e[1] \notin LoadsOf(t) /\ e[1] \notin Drivers
         /\ \A l \in LoadsOf(t) : /\ {w[1] : w \in WiresTo(l)} = Net(t) /\ ~IsRoot(l)
                                  /\ l \notin Drivers /\ l \notin Ports /\ l \in Vertices
         /\ \A d \in Drivers : Top(d) = t <=> d \in Net(t)
         /\ \A v \in Vertices : Finds(t, v) <=> v \in Net(t) \cup LoadsOf(t)
<1>1. FoundWith(t) = Net(t)
  BY DEF FoundWith
<1>2. Net(t) \in SUBSET Drivers /\ t \in Net(t) /\ Drivers \subseteq Vertices
  BY NetFacts, EdgeFacts
<1>3. NetCap(t) = ConnectedCap(t)
  BY NetLoad
<1>4. NetCap(t) \in Caps
  BY <1>3, LocalFacts
<1>5. ASSUME NEW d \in Net(t)
      PROVE  /\ FaninArcs(d) # {} /\ d \notin slew_annotated /\ d \notin Ports
             /\ LoadsOf(d) = LoadsOf(t) /\ ConnectedCap(d) = NetCap(t)
             /\ GateSlewOf(slew, d, NetCap(t)) \in Slews
             /\ \A e \in FaninArcs(d) : e[1] \notin LoadsOf(t) /\ e[1] \notin Drivers
  <2>1. d \in Drivers /\ Several(d) /\ Top(d) = t
    BY <1>2, NetFacts, TopFacts
  <2>2. FaninArcs(d) # {} /\ d \notin slew_annotated /\ d \notin Ports
    BY <2>1, WholeNets
  <2>3. ConnectedCap(d) = NetCap(t)
    <3>1. ConnectedCap(d) = NetCap(d)
      BY <2>1, NetLoad
    <3> QED
      BY <2>1, <3>1 DEF NetCap
  <2>4. GateSlewOf(slew, d, NetCap(t)) \in Slews
    BY <1>4, <2>1, <2>2, GateSlewType DEF Typed
  <2> QED
    BY <1>1, <2>2, <2>3, <2>4, FoundByDriver
<1>6. \A l \in LoadsOf(t) : /\ {w[1] : w \in WiresTo(l)} = Net(t) /\ ~IsRoot(l)
                            /\ l \notin Drivers /\ l \notin Ports /\ l \in Vertices
  BY <1>1, FoundByDriver, LocalFacts, EdgeFacts
<1>7. /\ \A d \in Drivers : Top(d) = t <=> d \in Net(t)
      /\ \A v \in Vertices : Finds(t, v) <=> v \in Net(t) \cup LoadsOf(t)
  BY <1>1, FoundByDriver
<1> QED
  BY <1>2, <1>4, <1>5, <1>6, <1>7

LEMMA MergedType ==
  ASSUME Typed, InputInv, NEW quiet, HandledEdits(quiet), NEW t \in Drivers, Several(t), Top(t) = t,
         NEW u \in SUBSET Net(t)
  PROVE  IsFiniteSet(Merged(u, NetCap(t))) /\ Merged(u, NetCap(t)) \subseteq Slews
<1> DEFINE f == [d \in u |-> GateSlewOf(slew, d, NetCap(t))]
<1>1. Net(t) \in SUBSET Vertices /\ \A d \in Net(t) : GateSlewOf(slew, d, NetCap(t)) \in Slews
  BY SeveralFacts
<1>2. IsFiniteSet(u)
  BY <1>1, EdgesFinite
<1>3. IsFiniteSet({f[d] : d \in u})
  <2> HIDE DEF f
  <2> QED
    BY <1>2, ImageFinite
<1>4. {f[d] : d \in u} = {GateSlewOf(slew, d, NetCap(t)) : d \in u}
  OBVIOUS
<1>5. IsFiniteSet({NoSlew} \cup {f[d] : d \in u})
  <2> HIDE DEF f
  <2> QED
    BY <1>3, FS_Singleton, FS_Union
<1>6. IsFiniteSet(Merged(u, NetCap(t)))
  BY <1>4, <1>5 DEF Merged
<1>7. Merged(u, NetCap(t)) \subseteq Slews
  BY <1>1, SlewFacts DEF Merged
<1> QED
  BY <1>6, <1>7

LEMMA OneMoreFound ==
  ASSUME Typed, InputInv, NEW quiet, HandledEdits(quiet), NEW t \in Drivers, Several(t), Top(t) = t,
         NEW u \in SUBSET Net(t), NEW d \in u, NEW k \in GraphType, PartlyFound(t, u \ {d}, k)
  PROVE  PartlyFound(t, u, FindDriverDelays1(k, d, NetCap(t)))
<1> DEFINE cap == NetCap(t)
           h == FindDriverDelays1(k, d, cap)
<1>1. /\ cap \in Caps /\ Net(t) \in SUBSET Drivers /\ d \in Net(t) /\ Net(t) \in SUBSET Vertices
      /\ FaninArcs(d) # {} /\ d \notin slew_annotated
      /\ LoadsOf(d) = LoadsOf(t) /\ GateSlewOf(slew, d, cap) \in Slews
      /\ \A e \in FaninArcs(d) : e[1] \notin LoadsOf(t) /\ e[1] \notin Drivers
      /\ \A l \in LoadsOf(t) : l \notin Drivers
  BY SeveralFacts
<1>2. d \in Drivers /\ d \in Vertices
  BY <1>1
<1>3. FoundAs(h, k, d, cap)
  BY <1>1, <1>2, DriverFound
<1> HIDE DEF h
<1>4. \A e \in FaninArcs(d) : k.slew[e[1]] = slew[e[1]]
  <2> TAKE e \in FaninArcs(d)
  <2>1. e[1] \in Vertices /\ e[1] \notin u /\ e[1] \notin LoadsOf(t)
    BY <1>1, <1>2, LocalFacts
  <2> QED
    BY <2>1 DEF PartlyFound
<1>5. GateSlewOf(k.slew, d, cap) = GateSlewOf(slew, d, cap)
  BY <1>4, SameGate
<1>6. ASSUME NEW v \in Vertices
      PROVE  h.slew[v] =
               IF v \in slew_annotated THEN slew[v]
               ELSE IF v \in u THEN GateSlewOf(slew, v, cap)
               ELSE IF v \in LoadsOf(t) THEN MaxOf(Merged(u, cap))
               ELSE slew[v]
  <2>1. CASE v \in slew_annotated
    BY <1>3, <2>1 DEF FoundAs, PartlyFound
  <2>2. CASE v \notin slew_annotated /\ v = d
    BY <1>1, <1>3, <1>5, <2>2 DEF FoundAs
  <2>3. CASE v \notin slew_annotated /\ v # d /\ v \in LoadsOf(t)
    <3>1. v \notin u
      BY <1>1, <2>3
    <3>2. h.slew[v] = MaxOf({k.slew[v], GateSlewOf(slew, d, cap)})
      BY <1>1, <1>3, <1>5, <2>3 DEF FoundAs, MergedSlew
    <3>3. k.slew[v] = MaxOf(Merged(u \ {d}, cap))
      BY <2>3, <3>1 DEF PartlyFound, cap
    <3>4. Merged(u, cap) = Merged(u \ {d}, cap) \cup {GateSlewOf(slew, d, cap)}
      BY DEF Merged
    <3>5. /\ IsFiniteSet(Merged(u \ {d}, cap)) /\ Merged(u \ {d}, cap) \subseteq Int
          /\ Merged(u \ {d}, cap) # {} /\ GateSlewOf(slew, d, cap) \in Int
      <4>1. IsFiniteSet(Merged(u \ {d}, cap)) /\ Merged(u \ {d}, cap) \subseteq Slews
        BY MergedType
      <4>2. NoSlew \in Merged(u \ {d}, cap)
        BY DEF Merged
      <4> QED
        BY <1>1, <4>1, <4>2, SlewFacts
    <3>6. MaxOf({MaxOf(Merged(u \ {d}, cap)), GateSlewOf(slew, d, cap)}) = MaxOf(Merged(u, cap))
      <4> HIDE DEF cap
      <4> DEFINE A == Merged(u \ {d}, cap)
                 b == GateSlewOf(slew, d, cap)
      <4>1. IsFiniteSet(A) /\ A \subseteq Int /\ A # {} /\ b \in Int
        BY <3>5
      <4> HIDE DEF A, b
      <4>2. MaxOf({MaxOf(A), b}) = MaxOf(A \cup {b})
        BY <4>1, MaxOfMore
      <4> QED
        BY <3>4, <4>2 DEF A, b
    <3> QED
      BY <2>3, <3>1, <3>2, <3>3, <3>6
  <2>4. CASE v \notin slew_annotated /\ v # d /\ v \notin LoadsOf(t)
    <3>1. h.slew[v] = k.slew[v]
      BY <1>1, <1>3, <2>4 DEF FoundAs
    <3> QED
      BY <2>4, <3>1 DEF PartlyFound
  <2> QED
    BY <2>1, <2>2, <2>3, <2>4
<1>7. /\ \A e \in wires : e \in Edges /\ (e \in WiresFrom(d) <=> e[1] = d) /\ e \notin FaninArcs(d)
      /\ \A e \in Enabled : e \in Edges /\ e \notin WiresFrom(d) /\ (e \in FaninArcs(d) <=> e[2] = d)
      /\ \A e \in Checks \cup LatchArcs : e \in Edges /\ e \notin WiresFrom(d) /\ e \notin FaninArcs(d)
  BY GraphKinds
<1>8. ASSUME NEW e \in wires
      PROVE  /\ e[1] \in u => h.delay[e] = cap
             /\ e[1] \notin Net(t) => h.delay[e] = delay[e]
  <2>1. CASE e[1] = d
    BY <1>1, <1>3, <1>7, <2>1 DEF FoundAs
  <2>2. CASE e[1] # d
    <3>1. h.delay[e] = k.delay[e]
      BY <1>3, <1>7, <2>2 DEF FoundAs
    <3> QED
      BY <2>2, <3>1 DEF PartlyFound
  <2> QED
    BY <2>1, <2>2
<1>9. ASSUME NEW e \in Enabled
      PROVE  h.delay[e] = IF e[2] \in u THEN GateDelay[slew[e[1]], cap] ELSE delay[e]
  <2>1. CASE e[2] = d
    <3>1. h.delay[e] = GateDelay[k.slew[e[1]], cap] /\ k.slew[e[1]] = slew[e[1]]
      BY <1>3, <1>4, <1>7, <2>1 DEF FoundAs
    <3> QED
      BY <2>1, <3>1
  <2>2. CASE e[2] # d
    <3>1. h.delay[e] = k.delay[e]
      BY <1>3, <1>7, <2>2 DEF FoundAs
    <3> QED
      BY <2>2, <3>1 DEF PartlyFound
  <2> QED
    BY <2>1, <2>2
<1>10. \A e \in Checks \cup LatchArcs : h.delay[e] = delay[e]
  BY <1>3, <1>7 DEF FoundAs, PartlyFound
<1> QED
  BY <1>6, <1>8, <1>9, <1>10 DEF PartlyFound, h

LEMMA NoneFound ==
  ASSUME Typed, InputInv, NEW quiet, HandledEdits(quiet), NEW t \in Drivers, Several(t), Top(t) = t
  PROVE  PartlyFound(t, {}, InitLoads(Graph, t))
<1> DEFINE k == InitLoads(Graph, t)
<1>1. /\ \A v \in Vertices : k.slew[v] = IF v \in LoadsOf(t) \ slew_annotated THEN NoSlew ELSE slew[v]
      /\ \A e \in Edges : k.delay[e] = IF e \in WiresFrom(t) THEN 0 ELSE delay[e]
  BY LoadsCleared
<1> HIDE DEF k
<1>2. MaxOf(Merged({}, NetCap(t))) = NoSlew
  <2>1. Merged({}, NetCap(t)) = {NoSlew}
    BY DEF Merged
  <2> QED
    BY <2>1, MaxOfOne, SlewFacts
<1>3. t \in Net(t)
  BY SeveralFacts
<1> QED
  BY <1>1, <1>2, <1>3, GraphKinds DEF PartlyFound, k

\* The drivers of a net, found at the highest.
LEMMA SeveralEffect ==
  ASSUME Typed, InputInv, NEW quiet, HandledEdits(quiet), NEW t \in Drivers, Several(t), Top(t) = t
  PROVE  Effect(t, FindDriverDelays(Graph, t, NetRecord(t)))
<1> DEFINE N == Net(t)
           cap == NetCap(t)
           k == InitLoads(Graph, t)
           g == DriversFound(k, N, cap)
<1>1. FindDriverDelays(Graph, t, NetRecord(t)) = g
  <2>1. NetRecord(t) # NoMultiDrvr /\ NetRecord(t).drvrs = N /\ NetRecord(t).dcalc_drvr = t /\ NetRecord(t).cap = cap
    BY RecordFacts
  <2> QED
    BY <2>1 DEF FindDriverDelays, InitLoads, DriversFound
<1>2. /\ cap \in Caps /\ N \in SUBSET Drivers /\ k \in GraphType /\ N # {} /\ N \in SUBSET Vertices
      /\ \A d \in N : /\ FaninArcs(d) # {} /\ d \notin slew_annotated /\ d \notin Ports
                      /\ LoadsOf(d) = LoadsOf(t) /\ ConnectedCap(d) = cap
                      /\ GateSlewOf(slew, d, cap) \in Slews
                      /\ \A e \in FaninArcs(d) : e[1] \notin LoadsOf(t) /\ e[1] \notin Drivers
      /\ \A l \in LoadsOf(t) : /\ {w[1] : w \in WiresTo(l)} = N /\ ~IsRoot(l)
                               /\ l \notin Drivers /\ l \notin Ports /\ l \in Vertices
      /\ \A d \in Drivers : Top(d) = t <=> d \in N
      /\ \A v \in Vertices : Finds(t, v) <=> v \in N \cup LoadsOf(t)
  BY SeveralFacts, LoadsCleared
<1>3. PartlyFound(t, N, g) /\ g \in GraphType
  <2> DEFINE Good == {uk \in (SUBSET N) \X GraphType : PartlyFound(t, uk[1], uk[2])}
  <2>1. <<{}, k>> \in Good
    BY <1>2, NoneFound
  <2>2. ASSUME NEW u \in SUBSET N, NEW j \in GraphType, NEW d \in u, <<u \ {d}, j>> \in Good
        PROVE  <<u, FindDriverDelays1(j, d, cap)>> \in Good
    <3>1. PartlyFound(t, u, FindDriverDelays1(j, d, cap))
      BY <2>2, OneMoreFound
    <3>2. FindDriverDelays1(j, d, cap) \in GraphType
      BY <1>2, DriverFound DEF FoundAs
    <3> QED
      BY <3>1, <3>2
  <2>3. <<N, g>> \in Good /\ g \in GraphType
    <3> HIDE DEF Good, k, N, cap
    <3> QED
      BY <1>2, <2>1, <2>2, DriversFold
  <2> QED
    BY <2>3
<1> HIDE DEF g, N, cap
<1>4. \A d \in N : \A e \in FaninArcs(d) : g.slew[e[1]] = slew[e[1]]
  <2> TAKE d \in N
  <2> TAKE e \in FaninArcs(d)
  <2>1. e[1] \in Vertices /\ e[1] \notin N /\ e[1] \notin LoadsOf(t)
    BY <1>2, LocalFacts
  <2> QED
    BY <1>3, <2>1 DEF PartlyFound
<1>5. \A d \in N : g.slew[d] = GateSlewOf(slew, d, cap) /\ GateSlewOf(g.slew, d, cap) = GateSlewOf(slew, d, cap)
  <2> TAKE d \in N
  <2>1. GateSlewOf(g.slew, d, cap) = GateSlewOf(slew, d, cap)
    BY <1>4, SameGate
  <2> QED
    BY <1>2, <1>3, <2>1 DEF PartlyFound, cap
<1>6. ASSUME NEW v \in Vertices
      PROVE  g.slew[v] = IF Finds(t, v) /\ v \notin slew_annotated THEN RightSlew(g.slew, v) ELSE slew[v]
  <2>1. CASE v \in slew_annotated \/ ~Finds(t, v)
    BY <1>2, <1>3, <2>1 DEF PartlyFound
  <2>2. CASE v \notin slew_annotated /\ v \in N
    <3>1. RightSlew(g.slew, v) = GateSlewOf(g.slew, v, cap)
      BY <1>2, <2>2 DEF RightSlew
    <3> QED
      BY <1>2, <1>5, <2>2, <3>1
  <2>3. CASE v \notin slew_annotated /\ v \in LoadsOf(t)
    <3>1. v \notin Drivers /\ v \notin Ports /\ v \notin N
      BY <1>2, <2>3
    <3>2. g.slew[v] = MaxOf(Merged(N, cap))
      BY <1>3, <2>3, <3>1 DEF PartlyFound, cap
    <3>3. RightSlew(g.slew, v) = MaxOf({LoadSlewIn(g.slew, w[1]) : w \in WiresTo(v)})
      BY <1>2, <2>3, <3>1 DEF RightSlew
    <3>4. {LoadSlewIn(g.slew, w[1]) : w \in WiresTo(v)} = {LoadSlewIn(g.slew, d) : d \in N}
      BY <1>2, <2>3
    <3>5. \A d \in N : LoadSlewIn(g.slew, d) = GateSlewOf(slew, d, cap)
      BY <1>2, <1>5 DEF LoadSlewIn
    <3> DEFINE G == {GateSlewOf(slew, d, cap) : d \in N}
    <3>6. {LoadSlewIn(g.slew, d) : d \in N} = G
      BY <3>5
    <3>7. Merged(N, cap) = {NoSlew} \cup G
      BY DEF Merged
    <3>8. G # {} /\ G \subseteq Slews
      BY <1>2
    <3>9. IsFiniteSet({NoSlew} \cup G)
      BY <3>7, MergedType DEF N, cap
    <3>10. MaxOf(G) \in G /\ \A y \in G : y <= MaxOf(G)
      <4>1. IsFiniteSet(G)
        BY <3>9, FS_Subset
      <4> HIDE DEF G
      <4> QED
        BY <3>8, <4>1, MaxOfFinite, SlewFacts
    <3>11. MaxOf({NoSlew} \cup G) = MaxOf(G)
      <4> HIDE DEF G
      <4>1. {NoSlew} \cup G \subseteq Int /\ NoSlew <= MaxOf(G)
        BY <3>8, <3>10, SlewFacts
      <4>2. MaxOf(G) \in {NoSlew} \cup G /\ \A y \in {NoSlew} \cup G : y <= MaxOf(G)
        BY <3>10, <4>1
      <4> QED
        BY <3>9, <4>1, <4>2, MaxOfUnique
    <3> QED
      BY <1>2, <2>3, <3>2, <3>3, <3>4, <3>6, <3>7, <3>11
  <2> QED
    BY <1>2, <2>1, <2>2, <2>3
<1>7. ASSUME NEW e \in Enabled
      PROVE  g.delay[e] = IF Top(e[2]) = t THEN GateDelay[g.slew[e[1]], ConnectedCap(e[2])] ELSE delay[e]
  <2>1. e[2] \in Drivers /\ e \in FaninArcs(e[2])
    BY GraphKinds, EdgeFacts
  <2>2. CASE e[2] \in N
    <3>1. g.delay[e] = GateDelay[slew[e[1]], cap] /\ g.slew[e[1]] = slew[e[1]] /\ ConnectedCap(e[2]) = cap
      BY <1>2, <1>3, <1>4, <2>1, <2>2 DEF PartlyFound, cap
    <3> QED
      BY <1>2, <2>1, <2>2, <3>1
  <2>3. CASE e[2] \notin N
    BY <1>2, <1>3, <2>1, <2>3 DEF PartlyFound
  <2> QED
    BY <2>2, <2>3
<1>8. ASSUME NEW e \in wires
      PROVE  g.delay[e] = IF Top(e[1]) = t THEN WireDelay(e[1]) ELSE delay[e]
  <2>1. e[1] \in Drivers
    BY GraphKinds, EdgeFacts
  <2>2. CASE e[1] \in N
    <3>1. WireDelay(e[1]) = cap
      BY <1>2, <2>2 DEF WireDelay
    <3> QED
      BY <1>2, <1>3, <2>1, <2>2, <3>1 DEF PartlyFound, cap
  <2>3. CASE e[1] \notin N
    BY <1>2, <1>3, <2>1, <2>3 DEF PartlyFound, N
  <2> QED
    BY <2>2, <2>3
<1>9. \A e \in Checks \cup LatchArcs : g.delay[e] = delay[e]
  BY <1>3 DEF PartlyFound
<1> QED
  BY <1>1, <1>6, <1>7, <1>8, <1>9 DEF Effect

-----------------------------------------------------------------------------
(* What a visit does to the state.                                         *)

\* A lower driver of a net finds nothing; nor does a load.
LEMMA NoEffect ==
  ASSUME Typed, NEW quiet, HandledEdits(quiet), NEW t \in Vertices, ~IsRoot(t),
         t \in Drivers => Top(t) # t
  PROVE  Effect(t, Graph)
<1>1. \A d \in Drivers : Top(d) # t
  BY TopFacts
<1>2. \A v \in Vertices : ~Finds(t, v)
  <2> TAKE v \in Vertices
  <2>1. v \notin Drivers => \A w \in WiresTo(v) : w[1] \in Drivers
    BY WiresToFacts
  <2> QED
    BY <1>1, <2>1 DEF Finds
<1>3. /\ \A e \in Enabled : e[2] \in Drivers
      /\ \A e \in wires : e[1] \in Drivers
  BY GraphKinds, EdgeFacts
<1> QED
  BY <1>1, <1>2, <1>3, GraphIsTyped DEF Effect

LEMMA DriverEffect ==
  ASSUME Typed, InputInv, MapInv, NEW quiet, HandledEdits(quiet), NEW t \in Drivers, ~IsRoot(t)
  PROVE  Effect(t, FindDriverDelays(Graph, t, MultiOf(t)))
<1>1. t \in Vertices /\ t \notin Ports
  BY EdgeFacts DEF IsRoot, Ports
<1>2. MultiOf(t) = IF Several(t) THEN NetRecord(t) ELSE NoMultiDrvr
  BY MapFoundInv
<1>3. CASE ~Several(t)
  BY <1>1, <1>2, <1>3, SingleEffect
<1>4. CASE Several(t) /\ Top(t) = t
  BY <1>2, <1>4, SeveralEffect
<1>5. CASE Several(t) /\ Top(t) # t
  <2>1. NetRecord(t) # NoMultiDrvr /\ NetRecord(t).dcalc_drvr = Top(t)
    BY <1>5, RecordFacts
  <2>2. FindDriverDelays(Graph, t, MultiOf(t)) = Graph
    BY <1>2, <1>5, <2>1 DEF FindDriverDelays
  <2> QED
    BY <1>1, <1>5, <2>2, NoEffect
<1> QED
  BY <1>3, <1>4, <1>5

\* The successors of a vertex.
LEMMA FanoutFacts ==
  ASSUME Typed, NEW v \in Vertices
  PROVE  /\ v \in Drivers => Fanout(v) = LoadsOf(v)
         /\ \A u \in Fanout(v) : u \in Vertices /\ Level[v] < Level[u] /\ ~IsRoot(u)
         /\ \A e \in Enabled : e[1] = v => e[2] \in Fanout(v)
         /\ \A e \in wires : e[1] = v => e[2] \in Fanout(v)
<1>1. /\ \A e \in Enabled : e \in Arcs /\ e[1] \notin Drivers /\ e[2] \in Drivers
      /\ \A e \in wires : e \in Wires /\ e[2] \notin Drivers
  BY GraphKinds, EdgeFacts
<1>2. v \in Drivers => Fanout(v) = LoadsOf(v)
  BY <1>1 DEF Fanout, LoadsOf, WiresFrom
<1>3. ASSUME NEW u \in Fanout(v)
      PROVE  u \in Vertices /\ Level[v] < Level[u] /\ ~IsRoot(u)
  <2>1. PICK e \in wires \cup Enabled : e[1] = v /\ u = e[2]
    BY DEF Fanout
  <2>2. u \in Vertices /\ Level[v] < Level[u]
    BY <1>1, <2>1, EdgeFacts, LevelFacts
  <2>3. CASE e \in Enabled
    <3>1. e \in Arcs /\ u \in Drivers
      BY <1>1, <2>1, <2>3
    <3>2. ~IsRoot(u)
      BY <2>1, <3>1 DEF IsRoot
    <3> QED
      BY <2>2, <3>2
  <2>4. CASE e \in wires
    <3>1. e \in WiresTo(u) /\ u \notin Drivers
      BY <1>1, <2>1, <2>4 DEF WiresTo
    <3>2. ~IsRoot(u)
      BY <3>1 DEF IsRoot
    <3> QED
      BY <2>2, <3>2
  <2> QED
    BY <2>1, <2>3, <2>4
<1> QED
  BY <1>2, <1>3 DEF Fanout

\* The graph, the queue, the edges to be found last and the map.
Visited(t) ==
  /\ t \in queue /\ t \in Vertices /\ Busy /\ delays_seeded
  /\ Level[t] <= to_level /\ \A u \in queue : Level[t] <= Level[u]
  /\ InputFrame /\ UNCHANGED <<delays_exist, delays_seeded, invalid_delays, to_level, found>>
  /\ Effect(t, [slew |-> slew', delay |-> delay'])
  /\ queue \ {t} \subseteq queue' /\ queue' \subseteq (queue \ {t}) \cup Fanout(t)
  /\ t \notin Drivers \/ IsRoot(t) \/ ~delays_exist => Fanout(t) \subseteq queue'
  /\ \A l \in Vertices \ Drivers : slew'[l] # slew[l] => l \in queue' \/ (l = t /\ IsRoot(t))
  /\ invalid_check_edges \subseteq invalid_check_edges' /\ invalid_latch_edges \subseteq invalid_latch_edges'
  /\ t \notin Drivers /\ ~IsRoot(t) =>
       /\ CheckEdges(t) \subseteq invalid_check_edges'
       /\ \A e \in LatchArcs : e[1] = t => e \in invalid_latch_edges'
  /\ \A e \in invalid_check_edges' : e \in invalid_check_edges \/ e \in CheckEdges(t)
  /\ \A e \in invalid_latch_edges' : e \in invalid_latch_edges \/ e[1] = t
  /\ \A e \in Drivers : multi_drvr_net_map'[e] # NoMultiDrvr =>
       Several(e) /\ multi_drvr_net_map'[e] = NetRecord(e)
  /\ \A e \in Drivers : multi_drvr_net_map[e] # NoMultiDrvr => multi_drvr_net_map'[e] # NoMultiDrvr
  /\ t \in Drivers /\ Several(t) => multi_drvr_net_map'[t] # NoMultiDrvr

LEMMA VisitFacts ==
  ASSUME TypedInv, InputInv, MapInv, NEW quiet, HandledEdits(quiet), NEW t \in Vertices, Visit(t)
  PROVE  Visited(t)
<1>0. Typed
  BY DEF TypedInv
<1>1. t \in Next_level
  BY DEF Visit, VisitRoot, VisitDriver, VisitLoad
<1>2. /\ t \in queue /\ t \in Vertices /\ Busy /\ delays_seeded
      /\ Level[t] <= to_level /\ \A u \in queue : Level[t] <= Level[u]
  BY <1>1, NextFacts
<1>3. InputFrame /\ UNCHANGED <<delays_exist, delays_seeded, invalid_delays, to_level, found>>
  BY DEF Visit, VisitRoot, VisitDriver, VisitLoad, InputFrame
<1>4. /\ \A e \in Drivers : multi_drvr_net_map[e] # NoMultiDrvr =>
           Several(e) /\ multi_drvr_net_map[e] = NetRecord(e)
      /\ \A e \in LatchArcs : e[1] \notin Drivers
  BY EdgeFacts DEF MapInv
<1>5. CASE VisitRoot(t)
  <2> DEFINE g == SeedRootSlew(Graph, t)
  <2>1. IsRoot(t) /\ slew' = g.slew /\ delay' = g.delay /\ queue' = (queue \ {t}) \cup Fanout(t)
        /\ UNCHANGED edgeVars /\ UNCHANGED multi_drvr_net_map
    BY <1>5 DEF VisitRoot, SetGraph
  <2>2. Effect(t, g)
    BY <1>0, <2>1, RootEffect
  <2> HIDE DEF g
  <2>3. Effect(t, [slew |-> slew', delay |-> delay'])
    BY <2>1, <2>2 DEF Effect
  <2>4. ASSUME NEW l \in Vertices \ Drivers, slew'[l] # slew[l]
        PROVE  l \in queue' \/ (l = t /\ IsRoot(t))
    <3>1. Finds(t, l)
      BY <2>1, <2>2, <2>4 DEF Effect
    <3>2. CASE t \in Drivers
      <4>1. t \in Ports
        BY <2>1, <3>2 DEF IsRoot, Ports
      <4>2. Top(t) = t /\ FoundWith(t) = {t}
        BY <3>2, <4>1, TopFacts DEF FoundWith
      <4>3. l \in LoadsOf(t)
        BY <1>0, <3>1, <3>2, <4>2, FoundByDriver
      <4>4. l \in Fanout(t)
        BY <1>0, <3>2, <4>3, FanoutFacts
      <4> QED
        BY <2>1, <4>4
    <3>3. CASE t \notin Drivers
      <4>1. \A w \in WiresTo(l) : w[1] \in Drivers
        BY <1>0, WiresToFacts
      <4>2. l = t
        BY <3>1, <3>3, <4>1, TopFacts DEF Finds
      <4> QED
        BY <2>1, <4>2
    <3> QED
      BY <3>2, <3>3
  <2>5. t \in Drivers => ~Several(t)
    <3>1. t \in Drivers => t \in Ports
      BY <2>1 DEF IsRoot, Ports
    <3> QED
      BY <3>1, TopFacts
  <2> QED
    BY <1>2, <1>3, <1>4, <2>1, <2>3, <2>4, <2>5 DEF Visited, edgeVars
<1>6. CASE VisitDriver(t)
  <2> DEFINE g == FindDriverDelays(Graph, t, MultiOf(t))
  <2>1. /\ ~IsRoot(t) /\ t \in Drivers /\ slew' = g.slew /\ delay' = g.delay
        /\ queue' = (queue \ {t}) \cup LoadsToVisit(t, g)
        /\ UNCHANGED edgeVars /\ multi_drvr_net_map' = FindMultiDrvrNet(t)
    BY <1>6 DEF VisitDriver, SetGraph, MultiOf
  <2>2. Effect(t, g)
    BY <1>0, <2>1, DriverEffect
  <2> HIDE DEF g
  <2>3. Effect(t, [slew |-> slew', delay |-> delay'])
    BY <2>1, <2>2 DEF Effect
  <2>4. ASSUME NEW l \in Vertices \ Drivers, slew'[l] # slew[l]
        PROVE  l \in queue'
    <3>1. Finds(t, l)
      BY <2>1, <2>2, <2>4 DEF Effect
    <3>2. PICK w \in WiresTo(l) : t = Top(w[1])
      BY <2>1, <3>1 DEF Finds
    <3>3. w[1] \in Drivers
      BY <1>0, WiresToFacts
    <3>4. Top(t) = t
      BY <3>2, <3>3, TopFacts
    <3>5. l \in LoadsOf(t)
      <4>1. FoundWith(t) \in SUBSET Drivers
        BY <1>0, <2>1, <3>4, FoundByDriver
      <4> QED
        BY <1>0, <2>1, <3>1, <3>4, <4>1, FoundByDriver
    <3>6. l \in Fanout(t)
      BY <1>0, <2>1, <3>5, FanoutFacts
    <3>7. l \in LoadsToVisit(t, g)
      BY <2>1, <2>4, <3>6 DEF LoadsToVisit
    <3> QED
      BY <2>1, <3>7
  <2>5. /\ \A e \in Drivers : multi_drvr_net_map'[e] # NoMultiDrvr =>
             Several(e) /\ multi_drvr_net_map'[e] = NetRecord(e)
        /\ \A e \in Drivers : multi_drvr_net_map[e] # NoMultiDrvr => multi_drvr_net_map'[e] # NoMultiDrvr
        /\ Several(t) => multi_drvr_net_map'[t] # NoMultiDrvr
    BY <1>0, <2>1, MapFoundInv
  <2>6. LoadsToVisit(t, g) \subseteq Fanout(t) /\ (~delays_exist => LoadsToVisit(t, g) = Fanout(t))
    BY DEF LoadsToVisit
  <2> QED
    BY <1>2, <1>3, <2>1, <2>3, <2>4, <2>5, <2>6 DEF Visited, edgeVars
<1>7. CASE VisitLoad(t)
  <2>1. /\ ~IsRoot(t) /\ t \notin Drivers /\ slew' = slew /\ delay' = delay
        /\ queue' = (queue \ {t}) \cup Fanout(t) /\ UNCHANGED multi_drvr_net_map
        /\ invalid_check_edges' = invalid_check_edges \cup CheckEdges(t)
        /\ invalid_latch_edges' = invalid_latch_edges \cup {e \in LatchArcs : e[1] = t}
    BY <1>7 DEF VisitLoad
  <2>2. Effect(t, Graph)
    BY <1>0, <2>1, NoEffect
  <2>3. Effect(t, [slew |-> slew', delay |-> delay'])
    BY <2>1, <2>2 DEF Graph
  <2> QED
    BY <1>2, <1>3, <1>4, <2>1, <2>3 DEF Visited
<1> QED
  BY <1>5, <1>6, <1>7 DEF Visit

-----------------------------------------------------------------------------
(* What is right and what is late, from one state to the next.             *)

LEMMA FrameKept ==
  ASSUME InputFrame
  PROVE  /\ Enabled' = Enabled /\ \A d : FaninArcs(d)' = FaninArcs(d)
         /\ \A d : WiresFrom(d)' = WiresFrom(d) /\ WiresTo(d)' = WiresTo(d)
         /\ \A d : ConnectedCap(d)' = ConnectedCap(d)
         /\ \A v : IsRoot(v)' <=> IsRoot(v)
         /\ \A t, v : Finds(t, v)' <=> Finds(t, v)
<1>0. wires' = wires /\ disabled' = disabled /\ ext_cap' = ext_cap
  BY DEF InputFrame, inputVars
<1>1. Enabled' = Enabled
  BY <1>0 DEF Enabled
<1>2. \A d : FaninArcs(d)' = FaninArcs(d)
  BY <1>1 DEF FaninArcs
<1>3. \A d : WiresFrom(d)' = WiresFrom(d) /\ WiresTo(d)' = WiresTo(d)
  BY <1>0 DEF WiresFrom, WiresTo
<1>4. \A d : ConnectedCap(d)' = ConnectedCap(d)
  BY <1>0, <1>3 DEF ConnectedCap
<1>5. \A v : IsRoot(v)' <=> IsRoot(v)
  BY <1>3 DEF IsRoot
<1>6. \A t, v : Finds(t, v)' <=> Finds(t, v)
  BY <1>3, <1>5 DEF Finds
<1> QED
  BY <1>1, <1>2, <1>3, <1>4, <1>5, <1>6

\* Nothing that the slew of v follows from changes.
SameAt(v) ==
  /\ v \in slew_annotated => v \in slew_annotated'
  /\ slew'[v] = slew[v]
  /\ v \in Ports => input_slew'[v] = input_slew[v]
  /\ v \in Drivers => /\ FaninArcs(v)' = FaninArcs(v) /\ ConnectedCap(v)' = ConnectedCap(v)
                      /\ \A e \in FaninArcs(v) : slew'[e[1]] = slew[e[1]]
  /\ v \notin Drivers => /\ WiresTo(v)' = WiresTo(v)
                         /\ \A w \in WiresTo(v) : /\ slew'[w[1]] = slew[w[1]]
                                                  /\ FaninArcs(w[1])' = {} <=> FaninArcs(w[1]) = {}

LEMMA SlewKept ==
  ASSUME NEW v \in Vertices, SameAt(v)
  PROVE  /\ SlewCurrent(v) => SlewCurrent(v)'
         /\ \A t : Finds(t, v) => Finds(t, v)'
<1>1. CASE v \in Drivers
  <2>1. /\ FaninArcs(v)' = FaninArcs(v) /\ ConnectedCap(v)' = ConnectedCap(v) /\ slew'[v] = slew[v]
        /\ v \in slew_annotated => v \in slew_annotated'
        /\ v \in Ports => input_slew'[v] = input_slew[v]
    BY <1>1 DEF SameAt
  <2>2. {GateSlew[slew'[e[1]], ConnectedCap(v)'] : e \in FaninArcs(v)'}
          = {GateSlew[slew[e[1]], ConnectedCap(v)] : e \in FaninArcs(v)}
    BY <1>1, <2>1 DEF SameAt
  <2>3. SlewCurrent(v) => SlewCurrent(v)'
    <3> DEFINE right == IF v \in Ports THEN input_slew[v]
                        ELSE IF FaninArcs(v) = {} THEN NoSlew
                        ELSE MaxOf({GateSlew[slew[e[1]], ConnectedCap(v)] : e \in FaninArcs(v)})
    <3>1. SlewCurrent(v) <=> (v \notin slew_annotated => slew[v] = right)
      BY <1>1 DEF SlewCurrent
    <3>2. SlewCurrent(v)' <=> (v \notin slew_annotated' => slew'[v] = right')
      BY <1>1 DEF SlewCurrent
    <3>3. right' = right
      BY <2>1, <2>2
    <3> HIDE DEF right
    <3> QED
      BY <2>1, <3>1, <3>2, <3>3
  <2>4. \A t : Finds(t, v) => Finds(t, v)'
    BY <1>1 DEF Finds
  <2> QED
    BY <2>3, <2>4
<1>2. CASE v \notin Drivers
  <2>1. /\ WiresTo(v)' = WiresTo(v) /\ slew'[v] = slew[v]
        /\ v \in slew_annotated => v \in slew_annotated'
        /\ v \notin Ports
    BY <1>2, EdgeFacts DEF SameAt
  <2>2. \A w \in WiresTo(v) : LoadSlewFrom(w[1])' = LoadSlewFrom(w[1])
    BY <1>2 DEF SameAt, LoadSlewFrom
  <2>3. {LoadSlewFrom(w[1])' : w \in WiresTo(v)'} = {LoadSlewFrom(w[1]) : w \in WiresTo(v)}
    BY <2>1, <2>2
  <2>4. IsRoot(v)' <=> IsRoot(v)
    BY <1>2, <2>1 DEF IsRoot
  <2>5. SlewCurrent(v) => SlewCurrent(v)'
    <3> DEFINE right == IF IsRoot(v) THEN 0 ELSE MaxOf({LoadSlewFrom(w[1]) : w \in WiresTo(v)})
    <3>1. SlewCurrent(v) <=> (v \notin slew_annotated => slew[v] = right)
      BY <1>2, <2>1 DEF SlewCurrent
    <3>2. SlewCurrent(v)' <=> (v \notin slew_annotated' => slew'[v] = right')
      BY <1>2, <2>1 DEF SlewCurrent
    <3>3. right' = right
      BY <2>3, <2>4
    <3> HIDE DEF right
    <3> QED
      BY <2>1, <3>1, <3>2, <3>3
  <2>6. \A t : Finds(t, v) => Finds(t, v)'
    BY <1>2, <2>1, <2>4 DEF Finds
  <2> QED
    BY <2>5, <2>6
<1> QED
  BY <1>1, <1>2

\* The delay of an arc, a wire or a check follows from little.
LEMMA DelayKept ==
  ASSUME Typed, Typed', NEW e \in Edges, delay'[e] = delay[e]
  PROVE  /\ e \in Enabled /\ e \in Enabled' /\ slew'[e[1]] = slew[e[1]]
              /\ ConnectedCap(e[2])' = ConnectedCap(e[2])
            => (DelayCurrent(e) => DelayCurrent(e)')
         /\ e \in wires /\ e \in wires' /\ ConnectedCap(e[1])' = ConnectedCap(e[1])
              /\ (FaninArcs(e[1])' = {} <=> FaninArcs(e[1]) = {})
            => (DelayCurrent(e) => DelayCurrent(e)')
         /\ e \in Checks /\ slew'[e[1]] = slew[e[1]] /\ slew'[e[2]] = slew[e[2]]
            => (DelayCurrent(e) => DelayCurrent(e)')
         /\ e \in LatchArcs /\ slew'[e[1]] = slew[e[1]] /\ ConnectedCap(e[2])' = ConnectedCap(e[2])
            => (DelayCurrent(e) => DelayCurrent(e)')
<1>1. /\ e \in Checks => e \notin Enabled \cup LatchArcs /\ e \notin Enabled' \cup LatchArcs
      /\ e \in wires => e \notin Checks /\ e \notin Enabled \cup LatchArcs
      /\ e \in wires' => e \notin Checks /\ e \notin Enabled' \cup LatchArcs
  <2>1. Enabled \subseteq Arcs /\ Enabled' \subseteq Arcs
    BY DEF Enabled
  <2>2. wires \subseteq Wires /\ wires' \subseteq Wires
    BY DEF Typed, TypeOK
  <2> QED
    BY <2>1, <2>2, EdgeFacts
<1>2. CASE e \in Checks
  BY <1>1, <1>2 DEF DelayCurrent
<1>3. CASE e \in LatchArcs \cup Enabled /\ e \in LatchArcs \cup Enabled' /\ e \notin Checks
  BY <1>1, <1>3 DEF DelayCurrent
<1>4. CASE e \in wires /\ e \in wires' /\ e \notin Checks
  BY <1>1, <1>4 DEF DelayCurrent
<1> QED
  BY <1>1, <1>2, <1>3, <1>4

\* Where the right slew is stored, the slew is current after the step.
LEMMA RightIsCurrent ==
  ASSUME InputFrame, NEW v \in Vertices, v \notin slew_annotated => slew'[v] = RightSlew(slew', v)
  PROVE  SlewCurrent(v)'
<1>1. /\ slew_annotated' = slew_annotated /\ input_slew' = input_slew
  BY DEF InputFrame, inputVars
<1>2. /\ \A d : FaninArcs(d)' = FaninArcs(d)
      /\ \A d : WiresTo(d)' = WiresTo(d)
      /\ \A d : ConnectedCap(d)' = ConnectedCap(d)
      /\ \A u : IsRoot(u)' <=> IsRoot(u)
  BY FrameKept
<1>3. \A d : LoadSlewFrom(d)' = LoadSlewIn(slew', d)
  BY <1>2 DEF LoadSlewFrom, LoadSlewIn
<1>4. {LoadSlewFrom(w[1])' : w \in WiresTo(v)'} = {LoadSlewIn(slew', w[1]) : w \in WiresTo(v)}
  BY <1>2, <1>3
<1>5. {GateSlew[slew'[e[1]], ConnectedCap(v)'] : e \in FaninArcs(v)'}
        = {GateSlew[slew'[e[1]], ConnectedCap(v)] : e \in FaninArcs(v)}
  BY <1>2
<1> DEFINE right == IF v \in Ports THEN input_slew[v]
                    ELSE IF v \in Drivers
                    THEN IF FaninArcs(v) = {} THEN NoSlew
                         ELSE MaxOf({GateSlew[slew[e[1]], ConnectedCap(v)] : e \in FaninArcs(v)})
                    ELSE IF IsRoot(v) THEN 0 ELSE MaxOf({LoadSlewFrom(w[1]) : w \in WiresTo(v)})
<1>6. SlewCurrent(v)' <=> (v \notin slew_annotated' => slew'[v] = right')
  BY DEF SlewCurrent
<1>7. right' = RightSlew(slew', v)
  BY <1>1, <1>2, <1>4, <1>5 DEF RightSlew, GateSlewOf
<1> QED
  BY <1>1, <1>6, <1>7

LEMMA VisitCurrent ==
  ASSUME Typed, Typed', NEW quiet, HandledEdits(quiet), NEW t \in Vertices, Visited(t)
  PROVE  /\ \A v \in Vertices : Finds(t, v) => SlewCurrent(v)'
         /\ \A v \in Vertices : ~Finds(t, v) => slew'[v] = slew[v]
         /\ \A e \in Enabled : IF Top(e[2]) = t THEN DelayCurrent(e)' ELSE delay'[e] = delay[e]
         /\ \A e \in wires : IF Top(e[1]) = t THEN DelayCurrent(e)' ELSE delay'[e] = delay[e]
         /\ \A e \in Checks \cup LatchArcs : delay'[e] = delay[e]
<1> DEFINE g == [slew |-> slew', delay |-> delay']
<1>1. Effect(t, g) /\ InputFrame
  BY DEF Visited
<1>2. g.slew = slew' /\ g.delay = delay'
  OBVIOUS
<1> HIDE DEF g
<1>3. ASSUME NEW v \in Vertices, Finds(t, v)
      PROVE  SlewCurrent(v)'
  <2>1. v \notin slew_annotated => slew'[v] = RightSlew(slew', v)
    BY <1>1, <1>2, <1>3 DEF Effect
  <2> QED
    BY <1>1, <2>1, RightIsCurrent
<1>4. \A v \in Vertices : ~Finds(t, v) => slew'[v] = slew[v]
  BY <1>1, <1>2 DEF Effect
<1>5. /\ Enabled' = Enabled /\ \A d : FaninArcs(d)' = FaninArcs(d)
      /\ \A d : ConnectedCap(d)' = ConnectedCap(d)
      /\ wires' = wires
  BY <1>1, FrameKept DEF InputFrame, inputVars
<1>6. /\ wires \subseteq Wires /\ Enabled \subseteq Arcs
      /\ \A e \in Enabled : e \notin Checks
      /\ \A e \in wires : e \notin Checks /\ e \notin Enabled \cup LatchArcs
  <2>1. wires \subseteq Wires /\ Enabled \subseteq Arcs
    BY GraphKinds
  <2> QED
    BY <2>1, EdgeFacts
<1>7. ASSUME NEW e \in Enabled
      PROVE  IF Top(e[2]) = t THEN DelayCurrent(e)' ELSE delay'[e] = delay[e]
  <2>1. delay'[e] = IF Top(e[2]) = t THEN GateDelay[slew'[e[1]], ConnectedCap(e[2])] ELSE delay[e]
    BY <1>1, <1>2 DEF Effect
  <2>2. DelayCurrent(e)' <=> delay'[e] = GateDelay[slew'[e[1]], ConnectedCap(e[2])']
    BY <1>5, <1>6 DEF DelayCurrent
  <2> QED
    BY <1>5, <2>1, <2>2
<1>8. ASSUME NEW e \in wires
      PROVE  IF Top(e[1]) = t THEN DelayCurrent(e)' ELSE delay'[e] = delay[e]
  <2>1. delay'[e] = IF Top(e[1]) = t THEN WireDelay(e[1]) ELSE delay[e]
    BY <1>1, <1>2 DEF Effect
  <2>2. DelayCurrent(e)' <=>
          delay'[e] = IF FaninArcs(e[1])' = {} /\ e[1] \notin Ports THEN 0 ELSE ConnectedCap(e[1])'
    BY <1>5, <1>6 DEF DelayCurrent
  <2> QED
    BY <1>5, <2>1, <2>2 DEF WireDelay
<1>9. \A e \in Checks \cup LatchArcs : delay'[e] = delay[e]
  BY <1>1, <1>2 DEF Effect
<1> QED
  BY <1>3, <1>4, <1>7, <1>8, <1>9

-----------------------------------------------------------------------------
(* The invariant.                                                          *)

Pending == invalid_delays \cup queue
\* The visit of t is to come, or that of a load before it.
Late(t) == t \in Pending \/ \E e \in FaninArcs(t) : e[1] \in Pending

\* What is not right is found by a visit to come.
Settled(quiet) ==
  /\ \A v \in Vertices : SlewCurrent(v) \/ \E t \in Vertices : Finds(t, v) /\ Late(t)
  /\ \A e \in Enabled : DelayCurrent(e) \/ Late(Top(e[2]))
  /\ \A e \in wires : DelayCurrent(e) \/ Late(Top(e[1]))
  /\ \A e \in Checks : DelayCurrent(e) \/ e \in invalid_check_edges \/ e[1] \in Pending \/ e[2] \in Pending
  /\ \A e \in LatchArcs : DelayCurrent(e) \/ e \in invalid_latch_edges \/ e[1] \in Pending
  /\ \A v \in Vertices : v \in quiet => SlewCurrent(v)

\* In the first search, the vertices of S are found and the next ones queued.
Reached(S) ==
  /\ Roots \subseteq S /\ queue \cap Roots = {}
  /\ \A v \in S : Fanout(v) \subseteq S \cup queue
  /\ \A v \in S \ Roots, u \in queue : Level[v] <= Level[u]
  /\ \A t \in S, v \in Vertices : Finds(t, v) => SlewCurrent(v)
  /\ \A e \in Enabled : Top(e[2]) \in S => DelayCurrent(e)
  /\ \A e \in wires : Top(e[1]) \in S => DelayCurrent(e)
  /\ \A l \in S \ (Drivers \cup Roots) : /\ CheckEdges(l) \subseteq invalid_check_edges
                                         /\ \A e \in LatchArcs : e[1] = l => e \in invalid_latch_edges
  /\ \A d \in S \cap Drivers : Several(d) => multi_drvr_net_map[d] # NoMultiDrvr

\* What is to come lies beyond the level that is found.
FoundInv ==
  found # NoLevel =>
    /\ delays_exist /\ invalid_delays = {}
    /\ \A u \in queue : Level[u] > found
    /\ \A e \in invalid_check_edges : Level[e[1]] > found \/ Level[e[2]] > found
    /\ \A e \in invalid_latch_edges : Level[e[1]] > found

Phases ==
  /\ Busy => invalid_delays = {}
  /\ ~Busy /\ delays_seeded => delays_exist
  /\ Busy /\ ~delays_exist => to_level \in FirstLevels

DelayInv(quiet) ==
  /\ TypedInv /\ InputInv /\ MapInv /\ FoundInv /\ Phases
  /\ delays_exist => Settled(quiet)
  /\ Busy /\ ~delays_exist => \E S \in SUBSET Vertices : Reached(S)

-----------------------------------------------------------------------------
(* Visits.                                                                 *)

LEMMA PinnedFacts ==
  ASSUME Typed, InputInv, NEW quiet, HandledEdits(quiet), NEW l \in Pinned
  PROVE  \E w \in wires : w[2] = l
<1>1. PICK w \in Wires \ WireEdits : w[2] = l
  BY DEF HandledEdits
<1> QED
  BY <1>1 DEF InputInv

\* The ends of checks are loads that are not roots, and so are those of latch arcs.
LEMMA EndsFacts ==
  ASSUME Typed, InputInv, NEW quiet, HandledEdits(quiet)
  PROVE  /\ \A e \in Checks : /\ e[1] \in Vertices \ Drivers /\ ~IsRoot(e[1])
                              /\ e[2] \in Vertices \ Drivers /\ ~IsRoot(e[2])
         /\ \A e \in LatchArcs : e[1] \in Vertices \ Drivers /\ ~IsRoot(e[1]) /\ e[2] \in Drivers
<1>1. \A l \in Pinned : l \notin Drivers => ~IsRoot(l)
  <2> TAKE l \in Pinned
  <2>1. PICK w \in wires : w[2] = l
    BY PinnedFacts
  <2> QED
    BY <2>1 DEF IsRoot, WiresTo
<1>2. /\ \A e \in Checks : e[1] \in Pinned /\ e[2] \in Pinned
      /\ \A e \in LatchArcs : e[1] \in Pinned
  BY DEF Pinned
<1> QED
  BY <1>1, <1>2, EdgeFacts

\* A visit changes no slew that no edit reaches.
LEMMA QuietKept ==
  ASSUME Typed, Typed', InputInv, NEW quiet, HandledEdits(quiet), NEW t \in Vertices, Visited(t),
         \A v \in Vertices : v \in quiet => SlewCurrent(v)
  PROVE  \A v \in Vertices : v \in quiet => slew'[v] = slew[v] /\ SlewCurrent(v)'
<1> DEFINE g == [slew |-> slew', delay |-> delay']
<1>1. Effect(t, g) /\ InputFrame
  BY DEF Visited
<1>2. g.slew = slew'
  OBVIOUS
<1> HIDE DEF g
<1>3. \A v \in Vertices : slew'[v] = IF Finds(t, v) /\ v \notin slew_annotated
                                     THEN RightSlew(slew', v) ELSE slew[v]
  BY <1>1, <1>2 DEF Effect
<1>4. \A v \in Vertices : v \in quiet /\ v \notin slew_annotated => slew[v] = RightSlew(slew, v)
  BY CurrentFacts
<1>5. ASSUME NEW v \in Drivers, v \in quiet PROVE slew'[v] = slew[v]
  <2>1. v \in Vertices
    BY EdgeFacts
  <2>2. CASE Finds(t, v) /\ v \notin slew_annotated
    <3>1. t = Top(v)
      BY <2>2 DEF Finds
    <3>2. t \in Drivers /\ Top(t) = t /\ v \in FoundWith(t)
      <4>1. t \in Drivers /\ Top(t) = t
        BY <3>1, TopFacts
      <4> QED
        BY <3>1, <4>1, FoundByDriver
    <3>3. \A e \in FaninArcs(v) : slew'[e[1]] = slew[e[1]]
      <4> TAKE e \in FaninArcs(v)
      <4>1. ~Finds(t, e[1]) /\ e[1] \in Vertices
        BY <3>2, FoundByDriver, LocalFacts
      <4> QED
        BY <1>3, <4>1
    <3>4. RightSlew(slew', v) = RightSlew(slew, v)
      BY <3>3, RightSlewSame
    <3> QED
      BY <1>3, <1>4, <1>5, <2>1, <2>2, <3>4
  <2>3. CASE ~(Finds(t, v) /\ v \notin slew_annotated)
    BY <1>3, <2>1, <2>3
  <2> QED
    BY <2>2, <2>3
<1>6. ASSUME NEW v \in Vertices, v \notin Drivers, v \in quiet PROVE slew'[v] = slew[v]
  <2>1. CASE Finds(t, v) /\ v \notin slew_annotated
    <3>1. \A w \in WiresTo(v) : slew'[w[1]] = slew[w[1]]
      <4> TAKE w \in WiresTo(v)
      <4>1. w \in Wires /\ w[2] = v /\ w[1] \in Drivers
        BY <1>6, WiresToFacts
      <4>2. w[1] \in quiet
        BY <1>6, <4>1 DEF HandledEdits
      <4> QED
        BY <1>5, <4>1, <4>2
    <3>2. RightSlew(slew', v) = RightSlew(slew, v)
      BY <1>6, <3>1, RightSlewSame
    <3> QED
      BY <1>3, <1>4, <1>6, <2>1, <3>2
  <2>2. CASE ~(Finds(t, v) /\ v \notin slew_annotated)
    BY <1>3, <2>2
  <2> QED
    BY <2>1, <2>2
<1>7. \A v \in Vertices : v \in quiet => slew'[v] = slew[v]
  BY <1>5, <1>6
<1>8. ASSUME NEW v \in Vertices, v \in quiet PROVE SlewCurrent(v)'
  <2>1. SameAt(v)
    <3>1. /\ slew_annotated' = slew_annotated /\ input_slew' = input_slew
          /\ FaninArcs(v)' = FaninArcs(v) /\ ConnectedCap(v)' = ConnectedCap(v)
          /\ WiresTo(v)' = WiresTo(v) /\ \A d : FaninArcs(d)' = FaninArcs(d)
      BY <1>1, FrameKept DEF InputFrame, inputVars
    <3>2. v \in Drivers => \A e \in FaninArcs(v) : e[1] \in Vertices /\ e[1] \in quiet
      <4>1. v \in Drivers => \A e \in FaninArcs(v) : e \in Arcs /\ e[2] = v /\ e[1] \in Vertices
        BY LocalFacts
      <4> QED
        BY <1>8, <4>1 DEF HandledEdits
    <3>3. v \notin Drivers => \A w \in WiresTo(v) : w[1] \in Vertices /\ w[1] \in quiet
      <4>1. v \notin Drivers => \A w \in WiresTo(v) : w \in Wires /\ w[2] = v /\ w[1] \in Vertices
        BY WiresToFacts
      <4> QED
        BY <1>8, <4>1 DEF HandledEdits
    <3> QED
      BY <1>7, <1>8, <3>1, <3>2, <3>3 DEF SameAt
  <2> QED
    BY <1>8, <2>1, SlewKept
<1> QED
  BY <1>7, <1>8

\* A vertex stays late until it is visited.
LEMMA LateAfter ==
  ASSUME Typed, NEW t \in Vertices, Visited(t), invalid_delays = {}, NEW x, x # t, Late(x)
  PROVE  Late(x)'
<1>1. InputFrame /\ invalid_delays' = {} /\ queue \ {t} \subseteq queue'
  BY DEF Visited
<1>2. FaninArcs(x)' = FaninArcs(x)
  BY <1>1, FrameKept
<1>3. Pending = queue /\ Pending' = queue'
  BY <1>1 DEF Pending
<1>4. CASE x \in queue
  BY <1>1, <1>3, <1>4 DEF Late
<1>5. CASE x \notin queue
  <2>1. PICK e \in FaninArcs(x) : e[1] \in queue
    BY <1>3, <1>5 DEF Late
  <2>2. e \in Enabled /\ e[2] = x /\ e[1] \notin Drivers
    BY GraphKinds, EdgeFacts
  <2>3. CASE e[1] = t
    <3>1. x \in Fanout(t)
      BY <2>2, <2>3, FanoutFacts
    <3>2. x \in queue'
      BY <2>2, <2>3, <3>1 DEF Visited
    <3> QED
      BY <1>3, <3>2 DEF Late
  <2>4. CASE e[1] # t
    <3>1. e[1] \in queue'
      BY <1>1, <2>1, <2>4
    <3> QED
      BY <1>2, <1>3, <3>1 DEF Late
  <2> QED
    BY <2>3, <2>4
<1> QED
  BY <1>4, <1>5

\* An arc whose input slew changes leads to a driver that is late then.
LEMMA ChangedIsLate ==
  ASSUME Typed, Typed', InputInv, NEW quiet, HandledEdits(quiet), NEW t \in Vertices, Visited(t),
         invalid_delays = {}, \A v \in Vertices : v \in quiet => SlewCurrent(v),
         NEW e \in Enabled, slew'[e[1]] # slew[e[1]]
  PROVE  Top(e[2]) = e[2] /\ Late(e[2])'
<1>1. e \in Arcs /\ e[1] \in Vertices \ Drivers /\ e[2] \in Drivers /\ e \in FaninArcs(e[2])
  BY GraphKinds, EdgeFacts
<1>2. e[1] \notin quiet
  BY <1>1, QuietKept
<1>3. Top(e[2]) = e[2]
  BY <1>1, <1>2 DEF HandledEdits
<1>4. Pending' = queue' /\ FaninArcs(e[2])' = FaninArcs(e[2])
  <2>1. InputFrame /\ invalid_delays' = {}
    BY DEF Visited
  <2> QED
    BY <2>1, FrameKept DEF Pending
<1>5. e[1] \in queue' \/ (e[1] = t /\ IsRoot(t))
  BY <1>1 DEF Visited
<1>6. CASE e[1] \in queue'
  BY <1>1, <1>3, <1>4, <1>6 DEF Late
<1>7. CASE e[1] = t /\ IsRoot(t)
  <2>1. e[2] \in Fanout(t)
    BY <1>7, FanoutFacts
  <2>2. e[2] \in queue'
    BY <1>7, <2>1 DEF Visited
  <2> QED
    BY <1>3, <1>4, <2>2 DEF Late
<1> QED
  BY <1>5, <1>6, <1>7

LEMMA SettledVisit ==
  ASSUME Typed, Typed', InputInv, NEW quiet, HandledEdits(quiet), NEW t \in Vertices, Visited(t),
         delays_exist, invalid_delays = {}, Settled(quiet)
  PROVE  Settled(quiet)'
<1>0. \A v \in Vertices : v \in quiet => SlewCurrent(v)
  BY DEF Settled
<1>1. /\ InputFrame /\ slew_annotated' = slew_annotated /\ input_slew' = input_slew /\ wires' = wires
      /\ Pending = queue /\ Pending' = queue'
  BY DEF Visited, InputFrame, inputVars, Pending
<1>2. /\ Enabled' = Enabled /\ \A d : FaninArcs(d)' = FaninArcs(d)
      /\ \A d : WiresTo(d)' = WiresTo(d)
      /\ \A d : ConnectedCap(d)' = ConnectedCap(d)
      /\ \A x, v : Finds(x, v)' <=> Finds(x, v)
  BY <1>1, FrameKept
<1>3. /\ \A v \in Vertices : Finds(t, v) => SlewCurrent(v)'
      /\ \A v \in Vertices : ~Finds(t, v) => slew'[v] = slew[v]
      /\ \A e \in Enabled : IF Top(e[2]) = t THEN DelayCurrent(e)' ELSE delay'[e] = delay[e]
      /\ \A e \in wires : IF Top(e[1]) = t THEN DelayCurrent(e)' ELSE delay'[e] = delay[e]
      /\ \A e \in Checks \cup LatchArcs : delay'[e] = delay[e]
  BY VisitCurrent
<1>4. ASSUME NEW v \in Vertices PROVE SlewCurrent(v)' \/ \E x \in Vertices : Finds(x, v)' /\ Late(x)'
  <2>1. PICK x \in Vertices : Finds(x, v)
    BY FinderFacts
  <2>2. CASE x = t
    BY <1>3, <2>1, <2>2
  <2>3. CASE x # t
    <3>1. slew'[v] = slew[v]
      BY <1>3, <2>1, <2>3, FinderFacts
    <3>2. CASE SameAt(v)
      <4>1. CASE SlewCurrent(v)
        BY <3>2, <4>1, SlewKept
      <4>2. CASE ~SlewCurrent(v)
        <5>1. PICK y \in Vertices : Finds(y, v) /\ Late(y)
          BY <4>2 DEF Settled
        <5>2. y = x
          BY <2>1, <5>1, FinderFacts
        <5>3. Late(x)'
          BY <2>3, <5>1, <5>2, LateAfter
        <5> QED
          BY <1>2, <2>1, <5>3
      <4> QED
        BY <4>1, <4>2
    <3>3. CASE ~SameAt(v)
      <4>1. v \in Drivers
        <5>1. SUFFICES ASSUME v \notin Drivers PROVE SameAt(v)
          BY <3>3
        <5>2. ASSUME NEW w \in WiresTo(v) PROVE slew'[w[1]] = slew[w[1]]
          <6>1. w \in wires /\ w[2] = v /\ w[1] \in Vertices
            BY <5>1, WiresToFacts
          <6>2. Finds(x, w[1])
            BY <2>1, <6>1, WireFinds
          <6>3. ~Finds(t, w[1])
            BY <2>3, <6>1, <6>2, FinderFacts
          <6> QED
            BY <1>3, <6>1, <6>3
        <5>3. v \notin Ports
          BY <5>1, EdgeFacts
        <5> QED
          BY <1>1, <1>2, <3>1, <5>1, <5>2, <5>3 DEF SameAt
      <4>2. PICK e \in FaninArcs(v) : slew'[e[1]] # slew[e[1]]
        BY <1>1, <1>2, <3>1, <3>3, <4>1 DEF SameAt
      <4>3. e \in Enabled /\ e[2] = v
        BY GraphKinds
      <4>4. Top(v) = v /\ Late(v)'
        BY <1>0, <4>2, <4>3, ChangedIsLate
      <4>5. Finds(v, v)
        BY <4>1, <4>4 DEF Finds
      <4> QED
        BY <1>2, <4>4, <4>5
    <3> QED
      BY <3>2, <3>3
  <2> QED
    BY <2>2, <2>3
<1>5. ASSUME NEW e \in Enabled PROVE DelayCurrent(e)' \/ Late(Top(e[2]))'
  <2>1. CASE Top(e[2]) = t
    BY <1>3, <2>1
  <2>2. CASE Top(e[2]) # t
    <3>1. delay'[e] = delay[e] /\ e \in Edges
      BY <1>3, <2>2, GraphKinds
    <3>2. CASE slew'[e[1]] = slew[e[1]]
      <4>1. DelayCurrent(e) => DelayCurrent(e)'
        BY <1>2, <3>1, <3>2, DelayKept
      <4>2. Late(Top(e[2])) => Late(Top(e[2]))'
        BY <2>2, LateAfter
      <4> QED
        BY <4>1, <4>2 DEF Settled
    <3>3. CASE slew'[e[1]] # slew[e[1]]
      BY <1>0, <3>3, ChangedIsLate
    <3> QED
      BY <3>2, <3>3
  <2> QED
    BY <2>1, <2>2
<1>6. ASSUME NEW e \in wires PROVE DelayCurrent(e)' \/ Late(Top(e[1]))'
  <2>1. CASE Top(e[1]) = t
    BY <1>3, <2>1
  <2>2. CASE Top(e[1]) # t
    <3>1. delay'[e] = delay[e] /\ e \in Edges
      BY <1>3, <2>2, GraphKinds
    <3>2. DelayCurrent(e) => DelayCurrent(e)'
      BY <1>1, <1>2, <3>1, DelayKept
    <3>3. Late(Top(e[1])) => Late(Top(e[1]))'
      BY <2>2, LateAfter
    <3> QED
      BY <3>2, <3>3 DEF Settled
  <2> QED
    BY <2>1, <2>2
\* The end of a check or a latch arc is visited as a load.
<1>7. ASSUME NEW l \in Vertices \ Drivers, ~IsRoot(l)
      PROVE  /\ slew'[l] # slew[l] => l \in Pending'
             /\ l \in Pending => \/ l \in Pending'
                                 \/ /\ CheckEdges(l) \subseteq invalid_check_edges'
                                    /\ \A e \in LatchArcs : e[1] = l => e \in invalid_latch_edges'
  BY <1>1, <1>7 DEF Visited
<1>8. invalid_check_edges \subseteq invalid_check_edges' /\ invalid_latch_edges \subseteq invalid_latch_edges'
  BY DEF Visited
<1>9. ASSUME NEW e \in Checks
      PROVE  DelayCurrent(e)' \/ e \in invalid_check_edges' \/ e[1] \in Pending' \/ e[2] \in Pending'
  <2>1. /\ e[1] \in Vertices \ Drivers /\ ~IsRoot(e[1])
        /\ e[2] \in Vertices \ Drivers /\ ~IsRoot(e[2])
        /\ e \in CheckEdges(e[1]) /\ e \in CheckEdges(e[2])
    BY EndsFacts DEF CheckEdges
  <2>2. CASE slew'[e[1]] = slew[e[1]] /\ slew'[e[2]] = slew[e[2]]
    <3>1. DelayCurrent(e) => DelayCurrent(e)'
      BY <1>3, <2>2, DelayKept DEF Edges
    <3>2. e[1] \in Pending => e[1] \in Pending' \/ e \in invalid_check_edges'
      BY <1>7, <2>1
    <3>3. e[2] \in Pending => e[2] \in Pending' \/ e \in invalid_check_edges'
      BY <1>7, <2>1
    <3> QED
      BY <1>8, <3>1, <3>2, <3>3 DEF Settled
  <2>3. CASE ~(slew'[e[1]] = slew[e[1]] /\ slew'[e[2]] = slew[e[2]])
    BY <1>7, <2>1, <2>3
  <2> QED
    BY <2>2, <2>3
<1>10. ASSUME NEW e \in LatchArcs
       PROVE  DelayCurrent(e)' \/ e \in invalid_latch_edges' \/ e[1] \in Pending'
  <2>1. e[1] \in Vertices \ Drivers /\ ~IsRoot(e[1])
    BY EndsFacts
  <2>2. CASE slew'[e[1]] = slew[e[1]]
    <3>1. DelayCurrent(e) => DelayCurrent(e)'
      BY <1>2, <1>3, <2>2, DelayKept DEF Edges
    <3> QED
      BY <1>7, <1>8, <2>1, <3>1 DEF Settled
  <2>3. CASE slew'[e[1]] # slew[e[1]]
    BY <1>7, <2>1, <2>3
  <2> QED
    BY <2>2, <2>3
<1>11. \A v \in Vertices : v \in quiet => SlewCurrent(v)'
  BY <1>0, QuietKept
<1>12. wires' = wires /\ Enabled' = Enabled
  BY <1>1, <1>2
<1> QED
  BY <1>4, <1>5, <1>6, <1>9, <1>10, <1>11, <1>12 DEF Settled

LEMMA ReachedVisit ==
  ASSUME Typed, Typed', InputInv, NEW quiet, HandledEdits(quiet), NEW t \in Vertices, Visited(t),
         ~delays_exist, NEW S \in SUBSET Vertices, Reached(S)
  PROVE  Reached(S \cup {t})'
<1> DEFINE T == S \cup {t}
<1>1. /\ InputFrame /\ slew_annotated' = slew_annotated /\ input_slew' = input_slew /\ wires' = wires
      /\ t \in queue /\ \A u \in queue : u \in Vertices /\ Level[t] <= Level[u]
      /\ queue \ {t} \subseteq queue' /\ queue' \subseteq (queue \ {t}) \cup Fanout(t)
      /\ Fanout(t) \subseteq queue'
  <2>1. queue \subseteq Vertices
    BY DEF Typed, TypeOK
  <2> QED
    BY <2>1 DEF Visited, InputFrame, inputVars
<1>2. /\ Enabled' = Enabled /\ \A d : FaninArcs(d)' = FaninArcs(d)
      /\ \A d : WiresFrom(d)' = WiresFrom(d) /\ WiresTo(d)' = WiresTo(d)
      /\ \A d : ConnectedCap(d)' = ConnectedCap(d)
      /\ \A v : IsRoot(v)' <=> IsRoot(v)
      /\ \A x, v : Finds(x, v)' <=> Finds(x, v)
  BY <1>1, FrameKept
<1>3. /\ \A v \in Vertices : Finds(t, v) => SlewCurrent(v)'
      /\ \A v \in Vertices : ~Finds(t, v) => slew'[v] = slew[v]
      /\ \A e \in Enabled : IF Top(e[2]) = t THEN DelayCurrent(e)' ELSE delay'[e] = delay[e]
      /\ \A e \in wires : IF Top(e[1]) = t THEN DelayCurrent(e)' ELSE delay'[e] = delay[e]
  BY VisitCurrent
<1>4. Roots' = Roots /\ \A v : Fanout(v)' = Fanout(v)
  <2>1. Roots' = Roots
    BY <1>2 DEF Roots
  <2> QED
    BY <1>1, <1>2, <2>1 DEF Fanout
<1>5. t \notin Roots /\ ~IsRoot(t)
  BY <1>1 DEF Reached, Roots
<1>6. Roots \subseteq T /\ queue' \cap Roots = {}
  <2>1. \A u \in Fanout(t) : u \notin Roots
    BY FanoutFacts DEF Roots
  <2> QED
    BY <1>1, <2>1 DEF Reached
<1>7. \A v \in T : Fanout(v) \subseteq T \cup queue'
  BY <1>1 DEF Reached
<1>8. ASSUME NEW v \in T \ Roots, NEW u \in queue' PROVE Level[v] <= Level[u]
  <2>1. Level[v] <= Level[t]
    <3>1. CASE v = t
      BY <3>1, LevelFacts
    <3>2. CASE v # t
      BY <1>1, <3>2 DEF Reached
    <3> QED
      BY <3>1, <3>2
  <2>2. Level[t] <= Level[u] /\ u \in Vertices
    <3>1. CASE u \in Fanout(t)
      <4>1. Level[t] < Level[u] /\ u \in Vertices
        BY <3>1, FanoutFacts
      <4> QED
        BY <4>1, LevelFacts
    <3>2. CASE u \notin Fanout(t)
      BY <1>1, <3>2
    <3> QED
      BY <3>1, <3>2
  <2>3. Level[v] \in Nat /\ Level[t] \in Nat /\ Level[u] \in Nat
    BY <2>2, LevelFacts
  <2> QED
    BY <2>1, <2>2, <2>3
\* What leads to a vertex of S is found before t.
<1>9. ASSUME NEW e \in Enabled, Top(e[2]) \in S, Top(e[2]) # t
      PROVE  slew'[e[1]] = slew[e[1]]
  <2>1. e \in Arcs /\ e[1] \in Vertices /\ e[2] \in Drivers
    BY GraphKinds, EdgeFacts
  <2>2. SUFFICES ASSUME Finds(t, e[1]) PROVE FALSE
    BY <1>3, <2>1
  <2>3. Level[t] < Level[Top(e[2])]
    BY <2>1, <2>2, ArcLevels
  <2>4. Top(e[2]) \notin Roots
    <3>1. e[2] \notin Ports
      BY <2>1 DEF Ports
    <3>2. Top(e[2]) \notin Ports /\ Top(e[2]) \in Drivers
      BY <2>1, <3>1, TopFacts
    <3> QED
      BY <3>2 DEF Roots, IsRoot, Ports
  <2>5. Level[Top(e[2])] <= Level[t]
    BY <1>1, <1>9, <2>4 DEF Reached
  <2>6. Level[Top(e[2])] \in Nat /\ Level[t] \in Nat
    BY <2>1, TopFacts, LevelFacts
  <2> QED
    BY <2>3, <2>5, <2>6
<1>10. ASSUME NEW x \in T, NEW v \in Vertices, Finds(x, v) PROVE SlewCurrent(v)'
  <2>1. CASE x = t
    BY <1>3, <1>10, <2>1
  <2>2. CASE x # t
    <3>1. x \in S /\ SlewCurrent(v)
      BY <1>10, <2>2 DEF Reached
    <3>2. slew'[v] = slew[v]
      BY <1>3, <1>10, <2>2, FinderFacts
    <3>3. CASE v \in Drivers
      <4>1. \A e \in FaninArcs(v) : slew'[e[1]] = slew[e[1]]
        <5> TAKE e \in FaninArcs(v)
        <5>1. e \in Enabled /\ e[2] = v /\ Top(v) = x
          BY <1>10, <3>3, GraphKinds DEF Finds
        <5> QED
          BY <1>9, <2>2, <3>1, <5>1
      <4>2. SameAt(v)
        BY <1>1, <1>2, <3>2, <3>3, <4>1 DEF SameAt
      <4> QED
        BY <3>1, <4>2, SlewKept
    <3>4. CASE v \notin Drivers
      <4>1. ASSUME NEW w \in WiresTo(v) PROVE slew'[w[1]] = slew[w[1]]
        <5>1. w \in wires /\ w[2] = v /\ w[1] \in Vertices
          BY <3>4, WiresToFacts
        <5>2. Finds(x, w[1])
          BY <1>10, <5>1, WireFinds
        <5>3. ~Finds(t, w[1])
          BY <2>2, <5>1, <5>2, FinderFacts
        <5> QED
          BY <1>3, <5>1, <5>3
      <4>2. v \notin Ports
        BY <3>4, EdgeFacts
      <4>3. SameAt(v)
        BY <1>1, <1>2, <3>2, <3>4, <4>1, <4>2 DEF SameAt
      <4> QED
        BY <3>1, <4>3, SlewKept
    <3> QED
      BY <3>3, <3>4
  <2> QED
    BY <2>1, <2>2
<1>11. ASSUME NEW e \in Enabled, Top(e[2]) \in T PROVE DelayCurrent(e)'
  <2>1. CASE Top(e[2]) = t
    BY <1>3, <2>1
  <2>2. CASE Top(e[2]) # t
    <3>1. Top(e[2]) \in S /\ DelayCurrent(e)
      BY <1>11, <2>2 DEF Reached
    <3>2. delay'[e] = delay[e] /\ slew'[e[1]] = slew[e[1]] /\ e \in Edges
      BY <1>3, <1>9, <2>2, <3>1, GraphKinds
    <3> QED
      BY <1>2, <3>1, <3>2, DelayKept
  <2> QED
    BY <2>1, <2>2
<1>12. ASSUME NEW e \in wires, Top(e[1]) \in T PROVE DelayCurrent(e)'
  <2>1. CASE Top(e[1]) = t
    BY <1>3, <2>1
  <2>2. CASE Top(e[1]) # t
    <3>1. DelayCurrent(e)
      BY <1>12, <2>2 DEF Reached
    <3>2. delay'[e] = delay[e] /\ e \in Edges
      BY <1>3, <2>2, GraphKinds
    <3> QED
      BY <1>1, <1>2, <3>1, <3>2, DelayKept
  <2> QED
    BY <2>1, <2>2
<1>13. ASSUME NEW l \in T \ (Drivers \cup Roots)
       PROVE  /\ CheckEdges(l) \subseteq invalid_check_edges'
              /\ \A e \in LatchArcs : e[1] = l => e \in invalid_latch_edges'
  <2>1. CASE l = t
    BY <1>5, <2>1 DEF Visited
  <2>2. CASE l # t
    BY <2>2 DEF Reached, Visited
  <2> QED
    BY <2>1, <2>2
<1>14. \A d \in T \cap Drivers : Several(d) => multi_drvr_net_map'[d] # NoMultiDrvr
  BY DEF Reached, Visited
<1> HIDE DEF T
<1>15. Reached(T)'
  <2>1. Roots' \subseteq T /\ queue' \cap Roots' = {}
    BY <1>4, <1>6
  <2>2. \A v \in T : Fanout(v)' \subseteq T \cup queue'
    BY <1>4, <1>7
  <2>3. \A v \in T \ Roots', u \in queue' : Level[v] <= Level[u]
    BY <1>4, <1>8
  <2>4. \A x \in T, v \in Vertices : Finds(x, v)' => SlewCurrent(v)'
    BY <1>2, <1>10
  <2>5. \A e \in Enabled' : Top(e[2]) \in T => DelayCurrent(e)'
    BY <1>2, <1>11
  <2>6. \A e \in wires' : Top(e[1]) \in T => DelayCurrent(e)'
    BY <1>1, <1>12
  <2>7. \A l \in T \ (Drivers \cup Roots') : /\ CheckEdges(l) \subseteq invalid_check_edges'
                                             /\ \A e \in LatchArcs : e[1] = l => e \in invalid_latch_edges'
    BY <1>4, <1>13
  <2> QED
    BY <1>14, <2>1, <2>2, <2>3, <2>4, <2>5, <2>6, <2>7 DEF Reached, T
<1> QED
  BY <1>15 DEF T

LEMMA InputInvKept ==
  ASSUME InputInv, InputFrame
  PROVE  InputInv'
BY DEF InputInv, InputFrame, inputVars

\* What is queued by a visit lies beyond its level.
LEMMA FoundVisit ==
  ASSUME Typed, FoundInv, NEW t \in Vertices, Visited(t)
  PROVE  FoundInv'
<1> SUFFICES ASSUME found' # NoLevel
             PROVE  /\ delays_exist' /\ invalid_delays' = {}
                    /\ \A u \in queue' : Level[u] > found'
                    /\ \A e \in invalid_check_edges' : Level[e[1]] > found' \/ Level[e[2]] > found'
                    /\ \A e \in invalid_latch_edges' : Level[e[1]] > found'
  BY DEF FoundInv
<1>1. /\ found' = found /\ delays_exist' = delays_exist /\ invalid_delays' = invalid_delays
      /\ t \in queue /\ queue' \subseteq (queue \ {t}) \cup Fanout(t)
      /\ \A e \in invalid_check_edges' : e \in invalid_check_edges \/ e \in CheckEdges(t)
      /\ \A e \in invalid_latch_edges' : e \in invalid_latch_edges \/ e[1] = t
  BY DEF Visited
<1>2. /\ delays_exist /\ invalid_delays = {} /\ found \in Nat
      /\ \A u \in queue : Level[u] > found
      /\ \A e \in invalid_check_edges : Level[e[1]] > found \/ Level[e[2]] > found
      /\ \A e \in invalid_latch_edges : Level[e[1]] > found
  BY <1>1 DEF FoundInv, Typed, TypeOK
<1>3. Level[t] > found
  BY <1>1, <1>2
<1>4. \A u \in Fanout(t) : Level[u] > found
  <2> TAKE u \in Fanout(t)
  <2>1. Level[t] < Level[u] /\ u \in Vertices
    BY FanoutFacts
  <2>2. Level[t] \in Nat /\ Level[u] \in Nat
    BY <2>1, LevelFacts
  <2> QED
    BY <1>2, <1>3, <2>1, <2>2
<1>5. \A e \in CheckEdges(t) : e[1] = t \/ e[2] = t
  BY DEF CheckEdges
<1>6. \A u \in queue' : Level[u] > found'
  BY <1>1, <1>2, <1>4
<1>7. \A e \in invalid_check_edges' : Level[e[1]] > found' \/ Level[e[2]] > found'
  BY <1>1, <1>2, <1>3, <1>5
<1>8. \A e \in invalid_latch_edges' : Level[e[1]] > found'
  BY <1>1, <1>2, <1>3
<1> QED
  BY <1>1, <1>2, <1>6, <1>7, <1>8

LEMMA VisitInv ==
  ASSUME NEW quiet, HandledEdits(quiet), DelayInv(quiet), NEW t \in Vertices, Visit(t)
  PROVE  DelayInv(quiet)'
<1>1. TypedInv /\ Typed /\ InputInv /\ MapInv /\ FoundInv /\ Phases
  BY DEF DelayInv, TypedInv
<1>2. Visited(t)
  BY <1>1, VisitFacts
<1>3. TypedInv' /\ Typed'
  <2>1. TypedInv'
    BY <1>1, VisitTyped
  <2> QED
    BY <2>1 DEF TypedInv
<1>4. /\ InputFrame /\ UNCHANGED <<delays_exist, delays_seeded, invalid_delays, to_level, found>>
      /\ Busy /\ delays_seeded
  BY <1>2 DEF Visited
<1>5. invalid_delays = {} /\ Busy' /\ t \in queue
  BY <1>1, <1>2, <1>4 DEF Phases, Busy, Visited
<1>6. InputInv'
  BY <1>1, <1>4, InputInvKept
<1>7. MapInv'
  <2>1. \A e \in Drivers : multi_drvr_net_map'[e] # NoMultiDrvr =>
           Several(e) /\ multi_drvr_net_map'[e] = NetRecord(e)
    BY <1>2 DEF Visited
  <2>2. delays_exist' => \A d \in Drivers : Several(d) => multi_drvr_net_map'[d] # NoMultiDrvr
    BY <1>1, <1>2, <1>4 DEF MapInv, Visited
  <2> QED
    BY <2>1, <2>2 DEF MapInv
<1>8. FoundInv'
  BY <1>1, <1>2, FoundVisit
<1>9. Phases'
  BY <1>1, <1>4 DEF Phases, Busy
<1>10. delays_exist' => Settled(quiet)'
  <2>1. SUFFICES ASSUME delays_exist PROVE Settled(quiet)'
    BY <1>4
  <2>2. Settled(quiet)
    BY <2>1 DEF DelayInv
  <2> QED
    BY <1>1, <1>2, <1>3, <1>5, <2>1, <2>2, SettledVisit
<1>11. Busy' /\ ~delays_exist' => \E S \in SUBSET Vertices : Reached(S)'
  <2>1. SUFFICES ASSUME ~delays_exist PROVE \E S \in SUBSET Vertices : Reached(S)'
    BY <1>4
  <2>2. PICK S \in SUBSET Vertices : Reached(S)
    BY <1>4, <2>1 DEF DelayInv
  <2>3. Reached(S \cup {t})'
    BY <1>1, <1>2, <1>3, <2>1, <2>2, ReachedVisit
  <2>4. S \cup {t} \in SUBSET Vertices
    OBVIOUS
  <2> QED
    BY <2>3, <2>4
<1> QED
  BY <1>3, <1>6, <1>7, <1>8, <1>9, <1>10, <1>11 DEF DelayInv

-----------------------------------------------------------------------------
(* The beginning of a search.                                              *)

LEMMA ReachedRoots ==
  ASSUME Typed, Typed', InputInv, NEW quiet, HandledEdits(quiet), InputFrame,
         slew' = RootsSeeded(Graph, Roots).slew, delay' = RootsSeeded(Graph, Roots).delay,
         queue' = UNION {Fanout(v) : v \in Roots}
  PROVE  \E S \in SUBSET Vertices : Reached(S)'
<1> DEFINE g == RootsSeeded(Graph, Roots)
<1>0. slew' = g.slew /\ delay' = g.delay
  OBVIOUS
<1>1. Seeded(Roots, g)
  BY RootsEffect
<1> HIDE DEF g
<1>2. /\ Enabled' = Enabled /\ \A d : FaninArcs(d)' = FaninArcs(d)
      /\ \A d : WiresFrom(d)' = WiresFrom(d) /\ WiresTo(d)' = WiresTo(d)
      /\ \A d : ConnectedCap(d)' = ConnectedCap(d)
      /\ \A v : IsRoot(v)' <=> IsRoot(v)
      /\ \A x, v : Finds(x, v)' <=> Finds(x, v)
      /\ wires' = wires
  BY FrameKept DEF InputFrame, inputVars
<1>3. Roots' = Roots /\ \A v : Fanout(v)' = Fanout(v)
  <2>1. Roots' = Roots
    BY <1>2 DEF Roots
  <2> QED
    BY <1>2, <2>1 DEF Fanout
<1>4. queue' \cap Roots = {} /\ Roots \subseteq Vertices
  <2>1. \A v \in Roots : \A u \in Fanout(v) : u \notin Roots
    BY FanoutFacts DEF Roots
  <2> QED
    BY <2>1 DEF Roots
<1>5. ASSUME NEW t \in Roots, NEW v \in Vertices, Finds(t, v) PROVE SlewCurrent(v)'
  <2>1. v \notin slew_annotated => slew'[v] = RightSlew(slew', v)
    BY <1>0, <1>1, <1>5 DEF Seeded
  <2> QED
    BY <2>1, RightIsCurrent
<1>6. ASSUME NEW e \in Enabled PROVE Top(e[2]) \notin Roots
  <2>1. e \in Arcs /\ e[2] \in Drivers
    BY GraphKinds, EdgeFacts
  <2>2. e[2] \notin Ports
    BY <2>1 DEF Ports
  <2>3. Top(e[2]) \notin Ports /\ Top(e[2]) \in Drivers
    BY <2>1, <2>2, TopFacts
  <2> QED
    BY <2>3 DEF Roots, IsRoot, Ports
<1>7. ASSUME NEW e \in wires, Top(e[1]) \in Roots PROVE DelayCurrent(e)'
  <2>1. delay'[e] = WireDelay(e[1])
    BY <1>0, <1>1, <1>7 DEF Seeded
  <2>2. e \notin Checks /\ e \notin Enabled \cup LatchArcs
    BY GraphKinds
  <2>3. DelayCurrent(e)' <=>
          delay'[e] = IF FaninArcs(e[1])' = {} /\ e[1] \notin Ports THEN 0 ELSE ConnectedCap(e[1])'
    BY <1>2, <2>2 DEF DelayCurrent
  <2> QED
    BY <1>2, <2>1, <2>3 DEF WireDelay
<1>8. \A d \in Roots \cap Drivers : ~Several(d)
  <2>1. \A d \in Roots \cap Drivers : d \in Ports
    BY DEF Roots, IsRoot, Ports
  <2> QED
    BY <2>1, TopFacts
<1>9. \A v \in Roots : Fanout(v)' \subseteq Roots \cup queue'
  BY <1>3
<1>10. \A t \in Roots, v \in Vertices : Finds(t, v)' => SlewCurrent(v)'
  BY <1>2, <1>5
<1>11. \A e \in Enabled' : Top(e[2]) \in Roots => DelayCurrent(e)'
  BY <1>2, <1>6
<1>12. \A e \in wires' : Top(e[1]) \in Roots => DelayCurrent(e)'
  BY <1>2, <1>7
<1>13. PICK S \in SUBSET Vertices : S = Roots
  BY <1>4
<1>14. /\ queue' \cap S = {} /\ \A v \in S : Fanout(v)' \subseteq S \cup queue'
       /\ \A t \in S, v \in Vertices : Finds(t, v)' => SlewCurrent(v)'
       /\ \A e \in Enabled' : Top(e[2]) \in S => DelayCurrent(e)'
       /\ \A e \in wires' : Top(e[1]) \in S => DelayCurrent(e)'
       /\ \A d \in S \cap Drivers : ~Several(d)
  BY <1>4, <1>8, <1>9, <1>10, <1>11, <1>12, <1>13
<1>15. Roots' = S /\ S \ Roots' = {} /\ S \ (Drivers \cup Roots') = {}
  BY <1>3, <1>13
<1>16. Reached(S)'
  BY <1>14, <1>15 DEF Reached
<1> QED
  BY <1>16

LEMMA BeginInv ==
  ASSUME NEW quiet, HandledEdits(quiet), DelayInv(quiet),
         NEW level \in QueryLevels \cup FirstLevels, FindDelays(level)
  PROVE  DelayInv(quiet)'
<1>1. TypedInv /\ Typed /\ InputInv /\ MapInv /\ FoundInv /\ Phases
  BY DEF DelayInv, TypedInv
<1>2. TypedInv' /\ Typed'
  <2>1. TypedInv'
    BY <1>1, SearchBegunTyped
  <2> QED
    BY <2>1 DEF TypedInv
<1>3. /\ ~Busy /\ level \in (IF delays_exist THEN QueryLevels ELSE FirstLevels)
      /\ to_level' = level /\ delays_seeded' = TRUE /\ invalid_delays' = {}
      /\ InputFrame /\ UNCHANGED <<delays_exist, edgeVars, multi_drvr_net_map, found>>
  BY DEF FindDelays, InputFrame
<1>4. Busy'
  BY <1>3, GraphDelayCalcAssumption DEF Busy, NoLevel
<1>5. InputInv' /\ MapInv'
  BY <1>1, <1>3, InputInvKept DEF MapInv
<1>6. Phases'
  BY <1>3, <1>4 DEF Phases
<1>7. CASE delays_seeded
  <2>1. delays_exist /\ delays_exist'
    BY <1>1, <1>3, <1>7 DEF Phases
  <2>2. queue' = queue \cup invalid_delays /\ UNCHANGED <<slew, delay>>
    BY <1>7 DEF FindDelays
  <2>3. Pending' = Pending
    BY <1>3, <2>2 DEF Pending
  <2>4. FoundInv'
    BY <1>1, <1>3, <2>2 DEF FoundInv, edgeVars
  <2>5. Settled(quiet)'
    <3>1. Settled(quiet)
      BY <2>1 DEF DelayInv
    <3>2. /\ Enabled' = Enabled /\ \A d : FaninArcs(d)' = FaninArcs(d)
          /\ \A d : WiresTo(d)' = WiresTo(d)
          /\ \A d : ConnectedCap(d)' = ConnectedCap(d)
          /\ \A x, v : Finds(x, v)' <=> Finds(x, v)
          /\ wires' = wires /\ slew_annotated' = slew_annotated /\ input_slew' = input_slew
      BY <1>3, FrameKept DEF InputFrame, inputVars
    <3>3. \A x : Late(x)' <=> Late(x)
      BY <2>3, <3>2 DEF Late
    <3>4. \A v \in Vertices : SlewCurrent(v) => SlewCurrent(v)'
      <4> TAKE v \in Vertices
      <4>1. SameAt(v)
        BY <2>2, <3>2 DEF SameAt
      <4> QED
        BY <4>1, SlewKept
    <3>5. \A e \in Enabled \cup wires \cup Checks \cup LatchArcs : DelayCurrent(e) => DelayCurrent(e)'
      <4> TAKE e \in Enabled \cup wires \cup Checks \cup LatchArcs
      <4>1. e \in Edges /\ delay'[e] = delay[e] /\ slew' = slew
        BY <1>1, <2>2, GraphKinds DEF Edges
      <4> QED
        BY <1>1, <1>2, <3>2, <4>1, DelayKept
    <3>6. invalid_check_edges' = invalid_check_edges /\ invalid_latch_edges' = invalid_latch_edges
      BY <1>3 DEF edgeVars
    <3> QED
      BY <2>3, <3>1, <3>2, <3>3, <3>4, <3>5, <3>6 DEF Settled
  <2> QED
    BY <1>2, <1>5, <1>6, <2>1, <2>4, <2>5 DEF DelayInv
<1>8. CASE ~delays_seeded
  <2>1. ~delays_exist /\ ~delays_exist'
    BY <1>1, <1>3, <1>8 DEF Typed, TypeOK
  <2>2. /\ slew' = RootsSeeded(Graph, Roots).slew /\ delay' = RootsSeeded(Graph, Roots).delay
        /\ queue' = UNION {Fanout(v) : v \in Roots}
    BY <1>8 DEF FindDelays, SetGraph, RootsSeeded
  <2>3. \E S \in SUBSET Vertices : Reached(S)'
    BY <1>1, <1>2, <1>3, <2>2, ReachedRoots
  <2>4. FoundInv'
    BY <1>1, <1>3, <2>1 DEF FoundInv
  <2> QED
    BY <1>2, <1>5, <1>6, <2>1, <2>3, <2>4 DEF DelayInv
<1> QED
  BY <1>7, <1>8

-----------------------------------------------------------------------------
(* The end of a search.                                                    *)

\* When no vertex is left up to the level, all that are queued lie beyond it.
LEMMA QueueBeyond ==
  ASSUME Typed, to_level \in Nat, Next_level = {}
  PROVE  \A u \in queue : Level[u] > to_level
<1>1. queue \subseteq Vertices
  BY DEF Typed, TypeOK
<1>2. SUFFICES ASSUME NEW u \in queue, Level[u] <= to_level PROVE FALSE
  BY <1>1, LevelFacts
<1> DEFINE f == [v \in queue |-> -Level[v]]
<1>3. \A v \in queue : Level[v] \in Nat
  BY <1>1, LevelFacts
<1>4. \E v \in queue : \A w \in queue : f[w] <= f[v]
  <2>1. IsFiniteSet(queue) /\ queue # {} /\ \A v \in queue : f[v] \in Int
    BY <1>1, <1>3, EdgesFinite
  <2> HIDE DEF f
  <2> QED
    BY <2>1, FiniteArgMax
<1>5. PICK v \in queue : \A w \in queue : f[w] <= f[v]
  BY <1>4
<1>6. \A w \in queue : Level[v] <= Level[w]
  <2> TAKE w \in queue
  <2>1. f[w] <= f[v] /\ f[w] = -Level[w] /\ f[v] = -Level[v] /\ Level[w] \in Nat /\ Level[v] \in Nat
    BY <1>3, <1>5
  <2> QED
    BY <2>1
<1>7. Level[v] <= to_level
  BY <1>2, <1>3, <1>6
<1> QED
  BY <1>5, <1>6, <1>7 DEF Next_level

\* A first search that goes through all levels reaches every vertex.
LEMMA AllReached ==
  ASSUME Typed, InputInv, NEW quiet, HandledEdits(quiet), NEW S \in SUBSET Vertices, Reached(S), queue = {}
  PROVE  S = Vertices
<1> DEFINE R == Vertices \ S
           f == [v \in R |-> -Level[v]]
<1>1. SUFFICES ASSUME R # {} PROVE FALSE
  OBVIOUS
<1>2. \A v \in R : Level[v] \in Nat
  BY LevelFacts
<1>3. \E v \in R : \A w \in R : f[w] <= f[v]
  <2>1. IsFiniteSet(R) /\ \A v \in R : f[v] \in Int
    BY <1>2, EdgesFinite
  <2> HIDE DEF f, R
  <2> QED
    BY <1>1, <2>1, FiniteArgMax
<1>4. PICK v \in R : \A w \in R : f[w] <= f[v]
  BY <1>3
<1>5. \A w \in R : Level[v] <= Level[w]
  <2> TAKE w \in R
  <2>1. f[w] <= f[v] /\ f[w] = -Level[w] /\ f[v] = -Level[v] /\ Level[w] \in Nat /\ Level[v] \in Nat
    BY <1>2, <1>4
  <2> QED
    BY <2>1
<1>6. ~IsRoot(v) /\ v \in Vertices /\ v \notin S
  BY DEF Reached, Roots
<1>7. \E u \in Vertices : v \in Fanout(u)
  <2>1. CASE v \in Drivers
    <3>1. v \notin Ports
      BY <1>6, <2>1 DEF IsRoot, Ports
    <3>2. PICK e \in Arcs \ DisableEdits : e[2] = v
      BY <2>1, <3>1 DEF HandledEdits
    <3>3. e \in Enabled /\ e[1] \in Vertices
      BY <3>2, EdgeFacts DEF Enabled, InputInv
    <3> QED
      BY <3>2, <3>3 DEF Fanout
  <2>2. CASE v \notin Drivers
    <3>1. PICK w \in WiresTo(v) : TRUE
      BY <1>6, <2>2, WiresToFacts
    <3>2. w \in wires /\ w[2] = v /\ w[1] \in Vertices
      BY <1>6, <2>2, WiresToFacts
    <3> QED
      BY <3>2 DEF Fanout
  <2> QED
    BY <2>1, <2>2
<1>8. PICK u \in Vertices : v \in Fanout(u)
  BY <1>7
<1>9. Level[u] < Level[v] /\ Level[u] \in Nat /\ Level[v] \in Nat
  BY <1>8, FanoutFacts, LevelFacts
<1>10. u \in S
  BY <1>5, <1>9
<1>11. v \in S \cup queue
  BY <1>8, <1>10 DEF Reached
<1> QED
  BY <1>6, <1>11

\* What the end of a search does to the delays.
LEMMA EndEffect ==
  ASSUME Typed, Typed', EndFindDelays
  PROVE  /\ \A v \in Vertices : SlewCurrent(v) => SlewCurrent(v)'
         /\ \A e \in Enabled \cup wires : DelayCurrent(e) => DelayCurrent(e)'
         /\ \A e \in Checks : IF e \in invalid_check_edges THEN DelayCurrent(e)'
                              ELSE DelayCurrent(e) => DelayCurrent(e)'
         /\ \A e \in LatchArcs : IF e \in invalid_latch_edges THEN DelayCurrent(e)'
                                 ELSE DelayCurrent(e) => DelayCurrent(e)'
<1>1. /\ InputFrame /\ slew' = slew /\ delay' = [e \in Edges |-> FoundDelay(e)]
      /\ slew_annotated' = slew_annotated /\ input_slew' = input_slew /\ wires' = wires
  BY DEF EndFindDelays, InputFrame, inputVars
<1>2. /\ Enabled' = Enabled /\ \A d : FaninArcs(d)' = FaninArcs(d)
      /\ \A d : WiresTo(d)' = WiresTo(d)
      /\ \A d : ConnectedCap(d)' = ConnectedCap(d)
  BY <1>1, FrameKept
<1>3. invalid_check_edges \subseteq Checks /\ invalid_latch_edges \subseteq LatchArcs
  BY DEF Typed, TypeOK
<1>4. \A e \in Edges : e \notin invalid_check_edges /\ e \notin invalid_latch_edges => delay'[e] = delay[e]
  BY <1>1 DEF FoundDelay
<1>5. \A v \in Vertices : SlewCurrent(v) => SlewCurrent(v)'
  <2> TAKE v \in Vertices
  <2>1. SameAt(v)
    BY <1>1, <1>2 DEF SameAt
  <2> QED
    BY <2>1, SlewKept
<1>6. \A e \in Enabled \cup wires : DelayCurrent(e) => DelayCurrent(e)'
  <2> TAKE e \in Enabled \cup wires
  <2>1. e \in Edges /\ e \notin Checks /\ e \notin LatchArcs
    BY GraphKinds
  <2>2. delay'[e] = delay[e]
    BY <1>3, <1>4, <2>1
  <2> QED
    BY <1>1, <1>2, <2>1, <2>2, DelayKept
<1>7. ASSUME NEW e \in Checks
      PROVE  IF e \in invalid_check_edges THEN DelayCurrent(e)' ELSE DelayCurrent(e) => DelayCurrent(e)'
  <2>1. e \in Edges /\ e \notin LatchArcs /\ e \notin Enabled /\ e \notin wires
    BY GraphKinds, EdgeFacts DEF Edges
  <2>2. CASE e \in invalid_check_edges
    <3>1. delay'[e] = CheckDelay[slew[e[1]], slew[e[2]]]
      <4>1. e \notin invalid_latch_edges
        BY <1>3, <2>1
      <4>2. FoundDelay(e) = CheckDelay[slew[e[1]], slew[e[2]]]
        BY <2>2, <4>1 DEF FoundDelay
      <4> QED
        BY <1>1, <2>1, <4>2
    <3>2. DelayCurrent(e)'
      BY <1>1, <1>2, <2>1, <3>1 DEF DelayCurrent
    <3> QED
      BY <2>2, <3>2
  <2>3. CASE e \notin invalid_check_edges
    <3>1. delay'[e] = delay[e]
      BY <1>3, <1>4, <2>1, <2>3
    <3> QED
      BY <1>1, <2>1, <2>3, <3>1, DelayKept
  <2> QED
    BY <2>2, <2>3
<1>8. ASSUME NEW e \in LatchArcs
      PROVE  IF e \in invalid_latch_edges THEN DelayCurrent(e)' ELSE DelayCurrent(e) => DelayCurrent(e)'
  <2>1. e \in Edges /\ e \notin Checks /\ e \notin wires
    BY GraphKinds, EdgeFacts DEF Edges
  <2>2. CASE e \in invalid_latch_edges
    <3>1. delay'[e] = GateDelay[slew[e[1]], ConnectedCap(e[2])]
      <4>1. e \notin invalid_check_edges
        BY <1>3, <2>1
      <4>2. FoundDelay(e) = GateDelay[slew[e[1]], ConnectedCap(e[2])]
        BY <2>2, <4>1 DEF FoundDelay
      <4> QED
        BY <1>1, <2>1, <4>2
    <3>2. DelayCurrent(e)' <=> delay'[e] = GateDelay[slew'[e[1]], ConnectedCap(e[2])']
      BY <1>1, <2>1 DEF DelayCurrent
    <3>3. DelayCurrent(e)'
      BY <1>1, <1>2, <3>1, <3>2
    <3> QED
      BY <2>2, <3>3
  <2>3. CASE e \notin invalid_latch_edges
    <3>1. delay'[e] = delay[e]
      BY <1>3, <1>4, <2>1, <2>3
    <3> QED
      BY <1>1, <1>2, <2>1, <2>3, <3>1, DelayKept
  <2> QED
    BY <2>2, <2>3
<1> QED
  BY <1>5, <1>6, <1>7, <1>8

LEMMA EndInv ==
  ASSUME NEW quiet, HandledEdits(quiet), FirstReachesAll, DelayInv(quiet), EndFindDelays
  PROVE  DelayInv(quiet)'
<1>1. TypedInv /\ Typed /\ InputInv /\ MapInv /\ FoundInv /\ Phases
  BY DEF DelayInv, TypedInv
<1>2. TypedInv' /\ Typed'
  <2>1. TypedInv'
    BY <1>1, SearchEndedTyped
  <2> QED
    BY <2>1 DEF TypedInv
<1>3. /\ Busy /\ Next_level = {} /\ InputFrame /\ slew' = slew
      /\ invalid_check_edges' = {} /\ invalid_latch_edges' = {} /\ delays_exist' = TRUE
      /\ found' = MaxOf({found, to_level}) /\ to_level' = NoLevel
      /\ UNCHANGED <<delays_seeded, invalid_delays, queue, multi_drvr_net_map>>
  BY DEF EndFindDelays, InputFrame
<1>4. to_level \in Nat /\ found \in Nat \cup {NoLevel}
  BY <1>1, <1>3 DEF Typed, TypeOK, Busy
<1>5. \A u \in queue : Level[u] > to_level
  BY <1>1, <1>3, <1>4, QueueBeyond
<1>6. invalid_delays = {} /\ ~Busy'
  BY <1>1, <1>3 DEF Phases, Busy
<1>7. InputInv'
  BY <1>1, <1>3, InputInvKept
<1>8. Phases'
  BY <1>3, <1>6 DEF Phases
<1>9. FoundInv'
  <2>1. found' = IF found <= to_level THEN to_level ELSE found
    BY <1>3, <1>4, MaxOfTwo DEF NoLevel
  <2>2. found # NoLevel => \A u \in queue : Level[u] > found
    BY <1>1 DEF FoundInv
  <2>3. \A u \in queue : Level[u] > found'
    BY <1>4, <1>5, <2>1, <2>2 DEF NoLevel
  <2> QED
    BY <1>3, <1>6, <2>3 DEF FoundInv
<1>10. /\ \A v \in Vertices : SlewCurrent(v) => SlewCurrent(v)'
       /\ \A e \in Enabled \cup wires : DelayCurrent(e) => DelayCurrent(e)'
       /\ \A e \in Checks : IF e \in invalid_check_edges THEN DelayCurrent(e)'
                            ELSE DelayCurrent(e) => DelayCurrent(e)'
       /\ \A e \in LatchArcs : IF e \in invalid_latch_edges THEN DelayCurrent(e)'
                               ELSE DelayCurrent(e) => DelayCurrent(e)'
  BY <1>1, <1>2, EndEffect
<1>11. Enabled' = Enabled /\ wires' = wires
  BY <1>3, FrameKept DEF InputFrame, inputVars
<1>12. CASE delays_exist
  <2>1. Settled(quiet)
    BY <1>12 DEF DelayInv
  <2>2. Pending' = Pending
    BY <1>3 DEF Pending
  <2>3. /\ \A d : FaninArcs(d)' = FaninArcs(d)
        /\ \A x, v : Finds(x, v)' <=> Finds(x, v)
    BY <1>3, FrameKept
  <2>4. \A x : Late(x)' <=> Late(x)
    BY <2>2, <2>3 DEF Late
  <2>5. Settled(quiet)'
    BY <1>10, <1>11, <2>1, <2>2, <2>3, <2>4 DEF Settled
  <2>6. MapInv'
    BY <1>1, <1>3, <1>12 DEF MapInv
  <2> QED
    BY <1>2, <1>6, <1>7, <1>8, <1>9, <2>5, <2>6 DEF DelayInv
<1>13. CASE ~delays_exist
  <2>1. PICK S \in SUBSET Vertices : Reached(S)
    BY <1>3, <1>13 DEF DelayInv
  <2>2. queue = {}
    <3>1. to_level \in FirstLevels
      BY <1>1, <1>3, <1>13 DEF Phases
    <3>2. \A v \in Vertices : Level[v] <= to_level
      BY <3>1 DEF FirstReachesAll
    <3>3. queue \subseteq Vertices
      BY <1>1 DEF Typed, TypeOK
    <3>4. ASSUME NEW u \in queue PROVE FALSE
      <4>1. Level[u] > to_level /\ Level[u] <= to_level /\ Level[u] \in Nat
        BY <1>5, <3>2, <3>3, LevelFacts
      <4> QED
        BY <1>4, <4>1
    <3> QED
      BY <3>4
  <2>3. S = Vertices
    BY <1>1, <2>1, <2>2, AllReached
  <2>4. Reached(Vertices)
    BY <2>1, <2>3
  <2>5. \A v \in Vertices : SlewCurrent(v)'
    <3> TAKE v \in Vertices
    <3>1. PICK t \in Vertices : Finds(t, v)
      BY <1>1, FinderFacts
    <3>2. SlewCurrent(v)
      BY <2>4, <3>1 DEF Reached
    <3> QED
      BY <1>10, <3>2
  <2>6. \A e \in Enabled : DelayCurrent(e)'
    <3> TAKE e \in Enabled
    <3>1. Top(e[2]) \in Vertices
      BY <1>1, GraphKinds, EdgeFacts, TopFacts
    <3>2. DelayCurrent(e)
      BY <2>4, <3>1 DEF Reached
    <3> QED
      BY <1>10, <3>2
  <2>7. \A e \in wires : DelayCurrent(e)'
    <3> TAKE e \in wires
    <3>1. Top(e[1]) \in Vertices
      BY <1>1, GraphKinds, EdgeFacts, TopFacts
    <3>2. DelayCurrent(e)
      BY <2>4, <3>1 DEF Reached
    <3> QED
      BY <1>10, <3>2
  <2>8. \A e \in Checks : DelayCurrent(e)'
    <3> TAKE e \in Checks
    <3>1. e[1] \in Vertices \ (Drivers \cup Roots) /\ e \in CheckEdges(e[1])
      BY <1>1, EndsFacts DEF CheckEdges, Roots
    <3>2. e \in invalid_check_edges
      BY <2>4, <3>1 DEF Reached
    <3> QED
      BY <1>10, <3>2
  <2>9. \A e \in LatchArcs : DelayCurrent(e)'
    <3> TAKE e \in LatchArcs
    <3>1. e[1] \in Vertices \ (Drivers \cup Roots)
      BY <1>1, EndsFacts DEF Roots
    <3>2. e \in invalid_latch_edges
      BY <2>4, <3>1 DEF Reached
    <3> QED
      BY <1>10, <3>2
  <2>10. Settled(quiet)'
    BY <1>11, <2>5, <2>6, <2>7, <2>8, <2>9 DEF Settled
  <2>11. MapInv'
    <3>1. \A d \in Drivers : Several(d) => multi_drvr_net_map[d] # NoMultiDrvr
      BY <2>4, EdgeFacts DEF Reached
    <3> QED
      BY <1>1, <1>3, <3>1 DEF MapInv
  <2> QED
    BY <1>2, <1>6, <1>7, <1>8, <1>9, <2>10, <2>11 DEF DelayInv
<1> QED
  BY <1>12, <1>13

-----------------------------------------------------------------------------
(* Edits.                                                                  *)

\* What an edit of the vertices of E records.
LEMMA Recorded ==
  ASSUME Typed, MapInv, delays_exist, ~Busy, NEW E \in SUBSET Vertices, DelayInvalid(E),
         queue \ E \subseteq queue'
  PROVE  /\ Pending \subseteq Pending' /\ E \subseteq Pending'
         /\ \A d \in E \cap Drivers : Top(d) \in Pending'
         /\ invalid_check_edges = {} /\ invalid_latch_edges = {}
<1>1. invalid_delays' = invalid_delays \cup Triggers(E)
  BY DEF DelayInvalid
<1>2. E \subseteq Triggers(E)
  BY DEF Triggers
<1>3. ASSUME NEW d \in E \cap Drivers PROVE Top(d) \in Triggers(E)
  <2>1. CASE Several(d)
    <3>1. multi_drvr_net_map[d] # NoMultiDrvr /\ multi_drvr_net_map[d] = NetRecord(d)
      BY <2>1 DEF MapInv
    <3>2. multi_drvr_net_map[d].dcalc_drvr = Top(d)
      BY <3>1 DEF NetRecord
    <3>3. d \in {e \in E \cap Drivers : multi_drvr_net_map[e] # NoMultiDrvr}
      BY <3>1
    <3>4. multi_drvr_net_map[d].dcalc_drvr \in
            {multi_drvr_net_map[e].dcalc_drvr :
               e \in {e \in E \cap Drivers : multi_drvr_net_map[e] # NoMultiDrvr}}
      BY <3>3
    <3> QED
      BY <3>2, <3>4 DEF Triggers
  <2>2. CASE ~Several(d)
    BY <1>2, <2>2 DEF Top
  <2> QED
    BY <2>1, <2>2
<1>4. Pending \subseteq Pending'
  BY <1>1, <1>2 DEF Pending
<1>5. Triggers(E) \subseteq Pending'
  BY <1>1 DEF Pending
<1> QED
  BY <1>2, <1>3, <1>4, <1>5 DEF Typed, TypeOK

\* After an edit, what is not right is found by a visit to come if what is not as
\* before is late.
LEMMA EditSettled ==
  ASSUME Typed, Typed', NEW quiet, Settled(quiet), invalid_check_edges = {}, invalid_latch_edges = {},
         Pending \subseteq Pending',
         \A x : x \in Pending' \/ FaninArcs(x) \subseteq FaninArcs(x)',
         \A v \in Vertices : \/ SlewCurrent(v)' \/ SameAt(v)
                             \/ \E x \in Vertices : Finds(x, v)' /\ Late(x)',
         \A e \in Enabled' : \/ Late(Top(e[2]))'
                             \/ /\ e \in Enabled /\ delay'[e] = delay[e] /\ slew'[e[1]] = slew[e[1]]
                                /\ ConnectedCap(e[2])' = ConnectedCap(e[2]),
         \A e \in wires' : \/ Late(Top(e[1]))'
                           \/ /\ e \in wires /\ delay'[e] = delay[e]
                              /\ ConnectedCap(e[1])' = ConnectedCap(e[1])
                              /\ FaninArcs(e[1])' = {} <=> FaninArcs(e[1]) = {},
         \A e \in Checks : \/ e[1] \in Pending' \/ e[2] \in Pending'
                           \/ /\ delay'[e] = delay[e]
                              /\ slew'[e[1]] = slew[e[1]] /\ slew'[e[2]] = slew[e[2]],
         \A e \in LatchArcs : \/ e[1] \in Pending'
                              \/ /\ delay'[e] = delay[e] /\ slew'[e[1]] = slew[e[1]]
                                 /\ ConnectedCap(e[2])' = ConnectedCap(e[2]),
         \A v \in Vertices : v \in quiet => SameAt(v)
  PROVE  Settled(quiet)'
<1>1. ASSUME NEW x, Late(x) PROVE Late(x)'
  <2>1. CASE x \in Pending'
    BY <2>1 DEF Late
  <2>2. CASE x \notin Pending'
    <3>1. PICK e \in FaninArcs(x) : e[1] \in Pending
      BY <1>1, <2>2 DEF Late
    <3>2. e \in FaninArcs(x)' /\ e[1] \in Pending'
      BY <2>2, <3>1
    <3> QED
      BY <3>2 DEF Late
  <2> QED
    BY <2>1, <2>2
<1>2. ASSUME NEW v \in Vertices PROVE SlewCurrent(v)' \/ \E x \in Vertices : Finds(x, v)' /\ Late(x)'
  <2>1. CASE SameAt(v)
    <3>1. SlewCurrent(v) => SlewCurrent(v)'
      BY <2>1, SlewKept
    <3>2. \A x : Finds(x, v) => Finds(x, v)'
      BY <2>1, SlewKept
    <3>3. SlewCurrent(v) \/ \E x \in Vertices : Finds(x, v) /\ Late(x)
      BY DEF Settled
    <3> QED
      BY <1>1, <3>1, <3>2, <3>3
  <2>2. CASE ~SameAt(v)
    BY <2>2
  <2> QED
    BY <2>1, <2>2
<1>3. ASSUME NEW e \in Enabled' PROVE DelayCurrent(e)' \/ Late(Top(e[2]))'
  <2>1. SUFFICES ASSUME ~Late(Top(e[2]))' PROVE DelayCurrent(e)'
    OBVIOUS
  <2>2. /\ e \in Enabled /\ delay'[e] = delay[e] /\ slew'[e[1]] = slew[e[1]]
        /\ ConnectedCap(e[2])' = ConnectedCap(e[2])
    BY <2>1
  <2>3. DelayCurrent(e) /\ e \in Edges
    BY <1>1, <2>1, <2>2, GraphKinds DEF Settled
  <2> QED
    BY <2>2, <2>3, DelayKept
<1>4. ASSUME NEW e \in wires' PROVE DelayCurrent(e)' \/ Late(Top(e[1]))'
  <2>1. SUFFICES ASSUME ~Late(Top(e[1]))' PROVE DelayCurrent(e)'
    OBVIOUS
  <2>2. /\ e \in wires /\ delay'[e] = delay[e] /\ ConnectedCap(e[1])' = ConnectedCap(e[1])
        /\ FaninArcs(e[1])' = {} <=> FaninArcs(e[1]) = {}
    BY <2>1
  <2>3. DelayCurrent(e) /\ e \in Edges
    BY <1>1, <2>1, <2>2, GraphKinds DEF Settled
  <2> QED
    BY <2>2, <2>3, DelayKept
<1>5. ASSUME NEW e \in Checks PROVE DelayCurrent(e)' \/ e[1] \in Pending' \/ e[2] \in Pending'
  <2>1. SUFFICES ASSUME e[1] \notin Pending', e[2] \notin Pending' PROVE DelayCurrent(e)'
    OBVIOUS
  <2>2. delay'[e] = delay[e] /\ slew'[e[1]] = slew[e[1]] /\ slew'[e[2]] = slew[e[2]]
    BY <2>1
  <2>3. DelayCurrent(e)
    <3>1. e[1] \notin Pending /\ e[2] \notin Pending
      BY <2>1
    <3> QED
      BY <3>1 DEF Settled
  <2> QED
    BY <2>2, <2>3, DelayKept DEF Edges
<1>6. ASSUME NEW e \in LatchArcs PROVE DelayCurrent(e)' \/ e[1] \in Pending'
  <2>1. SUFFICES ASSUME e[1] \notin Pending' PROVE DelayCurrent(e)'
    OBVIOUS
  <2>2. delay'[e] = delay[e] /\ slew'[e[1]] = slew[e[1]] /\ ConnectedCap(e[2])' = ConnectedCap(e[2])
    BY <2>1
  <2>3. DelayCurrent(e)
    <3>1. e[1] \notin Pending
      BY <2>1
    <3> QED
      BY <3>1 DEF Settled
  <2> QED
    BY <2>2, <2>3, DelayKept DEF Edges
<1>7. ASSUME NEW v \in Vertices, v \in quiet PROVE SlewCurrent(v)'
  <2>1. SameAt(v) /\ SlewCurrent(v)
    BY <1>7 DEF Settled
  <2> QED
    BY <2>1, SlewKept
<1> QED
  BY <1>2, <1>3, <1>4, <1>5, <1>6, <1>7 DEF Settled

\* The rest of the invariant.
LEMMA EditInv ==
  ASSUME NEW quiet, DelayInv(quiet), TypedInv', InputInv', ~Busy, found' = NoLevel,
         to_level' = to_level, NEW E, DelayInvalid(E), delays_exist => Settled(quiet)'
  PROVE  DelayInv(quiet)'
<1>1. UNCHANGED <<delays_exist, delays_seeded, multi_drvr_net_map>>
  BY DEF DelayInvalid
<1>2. MapInv /\ Phases
  BY DEF DelayInv
<1>3. MapInv'
  BY <1>1, <1>2 DEF MapInv
<1>4. ~Busy'
  BY DEF Busy
<1>5. Phases'
  BY <1>1, <1>2, <1>4 DEF Phases
<1>6. FoundInv'
  BY DEF FoundInv
<1> QED
  BY <1>1, <1>3, <1>4, <1>5, <1>6 DEF DelayInv

\* What depends on the wires and on the arcs in use only.
LEMMA WiresSame ==
  ASSUME UNCHANGED <<wires, disabled>>
  PROVE  /\ Enabled' = Enabled /\ \A d : FaninArcs(d)' = FaninArcs(d)
         /\ \A d : WiresFrom(d)' = WiresFrom(d) /\ WiresTo(d)' = WiresTo(d)
         /\ \A d : ext_cap'[d] = ext_cap[d] => ConnectedCap(d)' = ConnectedCap(d)
         /\ \A t, v : Finds(t, v)' <=> Finds(t, v)
<1>1. Enabled' = Enabled
  BY DEF Enabled
<1>2. \A d : FaninArcs(d)' = FaninArcs(d)
  BY <1>1 DEF FaninArcs
<1>3. \A d : WiresFrom(d)' = WiresFrom(d) /\ WiresTo(d)' = WiresTo(d)
  BY DEF WiresFrom, WiresTo
<1>4. \A d : ext_cap'[d] = ext_cap[d] => ConnectedCap(d)' = ConnectedCap(d)
  BY <1>3 DEF ConnectedCap
<1>5. \A v : IsRoot(v)' <=> IsRoot(v)
  BY <1>3 DEF IsRoot
<1>6. \A t, v : Finds(t, v)' <=> Finds(t, v)
  BY <1>3, <1>5 DEF Finds
<1> QED
  BY <1>1, <1>2, <1>3, <1>4, <1>6

LEMMA InputSlewInv ==
  ASSUME NEW quiet, HandledEdits(quiet), DelayInv(quiet), TypedInv',
         NEW p \in Ports, NEW s \in InputSlews, SetInputSlew(p, s)
  PROVE  DelayInv(quiet)'
<1>1. TypedInv /\ Typed /\ InputInv /\ MapInv /\ Typed'
  BY DEF DelayInv, TypedInv
<1>2. /\ ~Busy /\ found' = NoLevel /\ to_level' = to_level /\ delay' = delay
      /\ p \in SlewEdits /\ input_slew' = [input_slew EXCEPT ![p] = s] /\ DelayInvalid({p})
      /\ UNCHANGED <<wires, disabled, ext_cap, slew_annotated, slew, queue>>
  BY DEF SetInputSlew, Edit
<1>3. p \in Drivers /\ p \in Vertices /\ Top(p) = p
  BY EdgeFacts, TopFacts
<1>4. InputInv'
  BY <1>1, <1>2 DEF InputInv
<1>5. ASSUME delays_exist PROVE Settled(quiet)'
  <2>1. /\ Pending \subseteq Pending' /\ p \in Pending'
        /\ invalid_check_edges = {} /\ invalid_latch_edges = {}
    <3>1. {p} \in SUBSET Vertices /\ queue \ {p} \subseteq queue'
      BY <1>2, <1>3
    <3> QED
      BY <1>1, <1>2, <1>5, <3>1, Recorded
  <2>2. /\ Enabled' = Enabled /\ \A d : FaninArcs(d)' = FaninArcs(d)
        /\ \A d : WiresTo(d)' = WiresTo(d) /\ ConnectedCap(d)' = ConnectedCap(d)
        /\ \A t, v : Finds(t, v)' <=> Finds(t, v)
    BY <1>2, WiresSame
  <2>3. \A v \in Vertices : v # p => SameAt(v)
    <3> TAKE v \in Vertices
    <3>1. SUFFICES ASSUME v # p PROVE SameAt(v)
      OBVIOUS
    <3>2. v \in Ports => input_slew'[v] = input_slew[v]
      BY <1>1, <1>2, <3>1 DEF Typed
    <3> QED
      BY <1>2, <2>2, <3>2 DEF SameAt
  <2>4. Finds(p, p)' /\ Late(p)'
    BY <1>3, <2>1 DEF Finds, Late
  <2>5. p \notin quiet
    BY <1>2 DEF HandledEdits
  <2>6. \A v \in Vertices : \/ SlewCurrent(v)' \/ SameAt(v)
                            \/ \E x \in Vertices : Finds(x, v)' /\ Late(x)'
    BY <1>3, <2>3, <2>4
  <2>7. Settled(quiet)
    BY <1>5 DEF DelayInv
  <2> QED
    BY <1>1, <1>2, <2>1, <2>2, <2>3, <2>5, <2>6, <2>7, EditSettled
<1> QED
  BY <1>2, <1>4, <1>5, EditInv

LEMMA ExtCapInv ==
  ASSUME NEW quiet, HandledEdits(quiet), DelayInv(quiet), TypedInv',
         NEW p \in Drivers, NEW c \in ExtCaps, SetPortExtPinCap(p, c)
  PROVE  DelayInv(quiet)'
<1>1. TypedInv /\ Typed /\ InputInv /\ MapInv /\ Typed'
  BY DEF DelayInv, TypedInv
<1>2. /\ ~Busy /\ found' = NoLevel /\ to_level' = to_level /\ delay' = delay
      /\ p \in CapEdits /\ ext_cap' = [ext_cap EXCEPT ![p] = c] /\ DelayInvalid({p})
      /\ UNCHANGED <<wires, disabled, input_slew, slew_annotated, slew, queue>>
  BY DEF SetPortExtPinCap, Edit
<1>3. p \in Vertices /\ ~Several(p) /\ Top(p) = p
  <2>1. ~Several(p)
    BY <1>2 DEF HandledEdits
  <2> QED
    BY <2>1, EdgeFacts, TopFacts
<1>4. \A d \in Drivers : d # p => ext_cap'[d] = ext_cap[d]
  BY <1>1, <1>2 DEF Typed
<1>5. InputInv'
  BY <1>1, <1>2, <1>4 DEF InputInv
<1>6. ASSUME delays_exist PROVE Settled(quiet)'
  <2>1. /\ Pending \subseteq Pending' /\ p \in Pending'
        /\ invalid_check_edges = {} /\ invalid_latch_edges = {}
    <3>1. {p} \in SUBSET Vertices /\ queue \ {p} \subseteq queue'
      BY <1>2, <1>3
    <3> QED
      BY <1>1, <1>2, <1>6, <3>1, Recorded
  <2>2. /\ Enabled' = Enabled /\ \A d : FaninArcs(d)' = FaninArcs(d)
        /\ \A d : WiresTo(d)' = WiresTo(d)
        /\ \A t, v : Finds(t, v)' <=> Finds(t, v)
        /\ \A d \in Drivers : d # p => ConnectedCap(d)' = ConnectedCap(d)
    BY <1>2, <1>4, WiresSame
  <2>3. \A v \in Vertices : v # p => SameAt(v)
    BY <1>2, <2>2 DEF SameAt
  <2>4. Finds(p, p)' /\ Late(p)'
    BY <1>3, <2>1 DEF Finds, Late
  <2>5. p \notin quiet
    BY <1>2 DEF HandledEdits
  <2>6. \A v \in Vertices : \/ SlewCurrent(v)' \/ SameAt(v)
                            \/ \E x \in Vertices : Finds(x, v)' /\ Late(x)'
    BY <1>3, <2>3, <2>4
  <2>7. Settled(quiet)
    BY <1>6 DEF DelayInv
  <2>8. /\ \A e \in Enabled : e[2] \in Drivers
        /\ \A e \in wires : e[1] \in Drivers
        /\ \A e \in LatchArcs : e[2] \in Drivers
    BY <1>1, GraphKinds, EdgeFacts
  <2>9. \A e \in Enabled' : \/ Late(Top(e[2]))'
                            \/ /\ e \in Enabled /\ delay'[e] = delay[e] /\ slew'[e[1]] = slew[e[1]]
                               /\ ConnectedCap(e[2])' = ConnectedCap(e[2])
    <3> TAKE e \in Enabled'
    <3>1. CASE e[2] = p
      BY <1>3, <2>4, <3>1
    <3>2. CASE e[2] # p
      BY <1>2, <2>2, <2>8, <3>2
    <3> QED
      BY <3>1, <3>2
  <2>10. \A e \in wires' : \/ Late(Top(e[1]))'
                           \/ /\ e \in wires /\ delay'[e] = delay[e]
                              /\ ConnectedCap(e[1])' = ConnectedCap(e[1])
                              /\ FaninArcs(e[1])' = {} <=> FaninArcs(e[1]) = {}
    <3> TAKE e \in wires'
    <3>1. CASE e[1] = p
      BY <1>3, <2>4, <3>1
    <3>2. CASE e[1] # p
      BY <1>2, <2>2, <2>8, <3>2
    <3> QED
      BY <3>1, <3>2
  <2>11. \A e \in LatchArcs : ConnectedCap(e[2])' = ConnectedCap(e[2])
    <3> TAKE e \in LatchArcs
    <3>1. e[2] # p
      BY <1>2 DEF HandledEdits
    <3> QED
      BY <2>2, <2>8, <3>1
  <2> QED
    BY <1>1, <1>2, <2>1, <2>2, <2>3, <2>5, <2>6, <2>7, <2>9, <2>10, <2>11, EditSettled
<1> QED
  BY <1>2, <1>5, <1>6, EditInv

LEMMA NetLoadCapsInv ==
  ASSUME NEW quiet, DelayInv(quiet), TypedInv', RemoveNetLoadCaps
  PROVE  DelayInv(quiet)'
<1>1. /\ ~Busy /\ found' = NoLevel /\ to_level' = to_level
      /\ ext_cap' = [d \in Drivers |-> 0] /\ DelaysInvalid
      /\ UNCHANGED <<wires, disabled, slew_annotated, multi_drvr_net_map>>
  BY DEF RemoveNetLoadCaps, Edit
<1>2. ~delays_exist' /\ ~delays_seeded' /\ ~Busy'
  BY <1>1 DEF DelaysInvalid, Busy
<1>3. InputInv' /\ MapInv'
  BY <1>1, <1>2 DEF DelayInv, InputInv, MapInv
<1>4. FoundInv' /\ Phases'
  BY <1>1, <1>2 DEF FoundInv, Phases
<1> QED
  BY <1>2, <1>3, <1>4 DEF DelayInv

LEMMA AnnotatedInv ==
  ASSUME NEW quiet, HandledEdits(quiet), DelayInv(quiet), TypedInv',
         NEW p \in Vertices, NEW s \in InputSlews, SetAnnotatedSlew(p, s)
  PROVE  DelayInv(quiet)'
<1>1. TypedInv /\ Typed /\ InputInv /\ MapInv /\ Typed'
  BY DEF DelayInv, TypedInv
<1>2. /\ ~Busy /\ found' = NoLevel /\ to_level' = to_level /\ delay' = delay
      /\ p \in AnnotateEdits /\ slew' = [slew EXCEPT ![p] = s]
      /\ slew_annotated' = slew_annotated \cup {p} /\ DelayInvalid({p})
      /\ UNCHANGED <<wires, disabled, input_slew, ext_cap, queue>>
  BY DEF SetAnnotatedSlew, Edit
<1>3. p \in Drivers => Top(p) = p
  <2>1. p \in Drivers => ~Several(p)
    BY <1>2 DEF HandledEdits
  <2> QED
    BY <2>1, TopFacts
<1>4. \A v : v # p => slew'[v] = slew[v]
  BY <1>1, <1>2 DEF Typed
<1>5. InputInv'
  BY <1>1, <1>2 DEF InputInv
<1>6. ASSUME delays_exist PROVE Settled(quiet)'
  <2>1. /\ Pending \subseteq Pending' /\ p \in Pending'
        /\ invalid_check_edges = {} /\ invalid_latch_edges = {}
    <3>1. {p} \in SUBSET Vertices /\ queue \ {p} \subseteq queue'
      BY <1>2
    <3> QED
      BY <1>1, <1>2, <1>6, <3>1, Recorded
  <2>2. /\ Enabled' = Enabled /\ \A d : FaninArcs(d)' = FaninArcs(d)
        /\ \A d : WiresTo(d)' = WiresTo(d) /\ ConnectedCap(d)' = ConnectedCap(d)
        /\ \A t, v : Finds(t, v)' <=> Finds(t, v)
    BY <1>2, WiresSame
  <2>3. p \notin quiet
    BY <1>2 DEF HandledEdits
  <2>4. \A e \in Arcs : e[1] = p => Top(e[2]) = e[2]
    BY <2>3 DEF HandledEdits
  <2>5. SlewCurrent(p)'
    BY <1>2 DEF SlewCurrent
  <2>6. ASSUME NEW v \in Vertices, v # p
        PROVE  \/ SameAt(v) /\ v # p
               \/ v \notin quiet /\ \E x \in Vertices : Finds(x, v)' /\ Late(x)'
    <3>1. CASE v \in Drivers /\ \E e \in FaninArcs(v) : e[1] = p
      <4>1. PICK e \in FaninArcs(v) : e[1] = p
        BY <3>1
      <4>2. e \in Arcs /\ e[2] = v
        BY <1>1, GraphKinds
      <4>3. Top(v) = v /\ v \notin quiet
        BY <2>3, <2>4, <4>1, <4>2 DEF HandledEdits
      <4>4. Late(v)'
        BY <2>1, <2>2, <4>1 DEF Late
      <4>5. Finds(v, v)'
        BY <3>1, <4>3 DEF Finds
      <4> QED
        BY <4>3, <4>4, <4>5
    <3>2. CASE v \notin Drivers /\ \E w \in WiresTo(v) : w[1] = p
      <4>1. PICK w \in WiresTo(v) : w[1] = p
        BY <3>2
      <4>2. w \in Wires /\ w[2] = v /\ p \in Drivers
        BY <1>1, <3>2, <4>1, WiresToFacts
      <4>3. v \notin quiet
        BY <2>3, <4>1, <4>2 DEF HandledEdits
      <4>4. Late(p)'
        BY <2>1 DEF Late
      <4>5. Finds(p, v)
        BY <1>3, <3>2, <4>1, <4>2 DEF Finds
      <4> QED
        BY <2>2, <4>3, <4>4, <4>5
    <3>3. CASE /\ v \in Drivers => \A e \in FaninArcs(v) : e[1] # p
               /\ v \notin Drivers => \A w \in WiresTo(v) : w[1] # p
      <4>1. SameAt(v)
        BY <1>2, <1>4, <2>2, <2>6, <3>3 DEF SameAt
      <4> QED
        BY <2>6, <4>1
    <3> QED
      BY <3>1, <3>2, <3>3
  <2>7. \A v \in Vertices : \/ SlewCurrent(v)' \/ SameAt(v)
                            \/ \E x \in Vertices : Finds(x, v)' /\ Late(x)'
    BY <2>5, <2>6
  <2>8. \A v \in Vertices : v \in quiet => SameAt(v)
    BY <2>3, <2>6
  <2>9. Settled(quiet)
    BY <1>6 DEF DelayInv
  <2>10. \A e \in Enabled' : \/ Late(Top(e[2]))'
                             \/ /\ e \in Enabled /\ delay'[e] = delay[e] /\ slew'[e[1]] = slew[e[1]]
                                /\ ConnectedCap(e[2])' = ConnectedCap(e[2])
    <3> TAKE e \in Enabled'
    <3>1. e \in Enabled /\ e \in Arcs /\ e \in FaninArcs(e[2])
      BY <1>1, <2>2, GraphKinds
    <3>2. CASE e[1] = p
      <4>1. Late(e[2])'
        BY <2>1, <2>2, <3>1, <3>2 DEF Late
      <4> QED
        BY <2>4, <3>1, <3>2, <4>1
    <3>3. CASE e[1] # p
      BY <1>2, <1>4, <2>2, <3>1, <3>3
    <3> QED
      BY <3>2, <3>3
  <2>11. \A e \in Checks : \/ e[1] \in Pending' \/ e[2] \in Pending'
                           \/ /\ delay'[e] = delay[e]
                              /\ slew'[e[1]] = slew[e[1]] /\ slew'[e[2]] = slew[e[2]]
    BY <1>2, <1>4, <2>1
  <2>12. \A e \in LatchArcs : \/ e[1] \in Pending'
                              \/ /\ delay'[e] = delay[e] /\ slew'[e[1]] = slew[e[1]]
                                 /\ ConnectedCap(e[2])' = ConnectedCap(e[2])
    BY <1>2, <1>4, <2>1, <2>2
  <2> QED
    BY <1>1, <1>2, <2>1, <2>2, <2>7, <2>8, <2>9, <2>10, <2>11, <2>12, EditSettled
<1> QED
  BY <1>2, <1>5, <1>6, EditInv

LEMMA UnannotatedInv ==
  ASSUME NEW quiet, HandledEdits(quiet), DelayInv(quiet), TypedInv',
         NEW p \in Vertices, UnsetAnnotatedSlew(p)
  PROVE  DelayInv(quiet)'
<1>1. TypedInv /\ Typed /\ InputInv /\ MapInv /\ Typed'
  BY DEF DelayInv, TypedInv
<1>2. /\ ~Busy /\ found' = NoLevel /\ to_level' = to_level /\ delay' = delay
      /\ p \in slew_annotated /\ slew_annotated' = slew_annotated \ {p} /\ DelayInvalid(Annotator(p))
      /\ UNCHANGED <<wires, disabled, input_slew, ext_cap, slew, queue>>
  BY DEF UnsetAnnotatedSlew, Edit
<1>3. p \in AnnotateEdits /\ p \notin quiet
  BY <1>1, <1>2 DEF InputInv, HandledEdits
<1>4. InputInv'
  BY <1>1, <1>2 DEF InputInv
<1>5. ASSUME delays_exist PROVE Settled(quiet)'
  <2>1. Annotator(p) \in SUBSET Vertices
    BY <1>1, EdgeFacts DEF Annotator, WiresTo, Typed, TypeOK
  <2>2. /\ Pending \subseteq Pending'
        /\ \A d \in Annotator(p) \cap Drivers : Top(d) \in Pending'
        /\ invalid_check_edges = {} /\ invalid_latch_edges = {}
    BY <1>1, <1>2, <1>5, <2>1, Recorded
  <2>3. /\ Enabled' = Enabled /\ \A d : FaninArcs(d)' = FaninArcs(d)
        /\ \A d : WiresTo(d)' = WiresTo(d) /\ ConnectedCap(d)' = ConnectedCap(d)
        /\ \A t, v : Finds(t, v)' <=> Finds(t, v)
    BY <1>2, WiresSame
  <2>4. \A v \in Vertices : v # p => SameAt(v)
    BY <1>2, <2>3 DEF SameAt
  <2>5. \E x \in Vertices : Finds(x, p)' /\ Late(x)'
    <3>1. CASE p \in Drivers
      <4>1. Top(p) \in Pending'
        BY <2>2, <3>1 DEF Annotator
      <4>2. Finds(Top(p), p) /\ Top(p) \in Vertices
        BY <3>1, TopFacts DEF Finds
      <4> QED
        BY <2>3, <4>1, <4>2 DEF Late
    <3>2. CASE p \notin Drivers
      <4>1. p \in Pinned
        BY <1>3, <3>2 DEF Pinned
      <4>2. PICK w \in wires : w[2] = p
        BY <1>1, <4>1, PinnedFacts
      <4>3. w[1] \in Annotator(p)
        BY <3>2, <4>2 DEF Annotator, WiresTo
      <4>4. w[1] \in Drivers /\ Finds(Top(w[1]), p)
        BY <1>1, <4>2, WireFinds
      <4>5. Top(w[1]) \in Pending' /\ Top(w[1]) \in Vertices
        BY <2>2, <4>3, <4>4, TopFacts
      <4> QED
        BY <2>3, <4>4, <4>5 DEF Late
    <3> QED
      BY <3>1, <3>2
  <2>6. \A v \in Vertices : \/ SlewCurrent(v)' \/ SameAt(v)
                            \/ \E x \in Vertices : Finds(x, v)' /\ Late(x)'
    BY <2>4, <2>5
  <2>7. Settled(quiet)
    BY <1>5 DEF DelayInv
  <2>8. \A v \in Vertices : v \in quiet => SameAt(v)
    BY <1>3, <2>4
  <2> QED
    BY <1>1, <1>2, <2>2, <2>3, <2>6, <2>7, <2>8, EditSettled
<1> QED
  BY <1>2, <1>4, <1>5, EditInv

LEMMA LevelInv ==
  ASSUME NEW quiet, HandledEdits(quiet), DelayInv(quiet), TypedInv',
         NEW p \in Vertices, LevelChangedBefore(p)
  PROVE  DelayInv(quiet)'
<1>1. TypedInv /\ Typed /\ InputInv /\ MapInv /\ Typed'
  BY DEF DelayInv, TypedInv
<1>2. /\ ~Busy /\ found' = NoLevel /\ to_level' = to_level /\ delay' = delay
      /\ queue' = queue \ {p} /\ DelayInvalid({p})
      /\ UNCHANGED <<wires, disabled, input_slew, ext_cap, slew_annotated, slew>>
  BY DEF LevelChangedBefore, Edit, inputVars
<1>3. InputInv'
  BY <1>1, <1>2 DEF InputInv
<1>4. ASSUME delays_exist PROVE Settled(quiet)'
  <2>1. Pending \subseteq Pending' /\ invalid_check_edges = {} /\ invalid_latch_edges = {}
    <3>1. {p} \in SUBSET Vertices /\ queue \ {p} \subseteq queue'
      BY <1>2
    <3> QED
      BY <1>1, <1>2, <1>4, <3>1, Recorded
  <2>2. /\ Enabled' = Enabled /\ \A d : FaninArcs(d)' = FaninArcs(d)
        /\ \A d : WiresTo(d)' = WiresTo(d) /\ ConnectedCap(d)' = ConnectedCap(d)
    BY <1>2, WiresSame
  <2>3. \A v \in Vertices : SameAt(v)
    BY <1>2, <2>2 DEF SameAt
  <2>4. Settled(quiet)
    BY <1>4 DEF DelayInv
  <2> QED
    BY <1>1, <1>2, <2>1, <2>2, <2>3, <2>4, EditSettled
<1> QED
  BY <1>2, <1>3, <1>4, EditInv

LEMMA DisableInv ==
  ASSUME NEW quiet, HandledEdits(quiet), DelayInv(quiet), TypedInv',
         NEW a \in Arcs, Disable(a)
  PROVE  DelayInv(quiet)'
<1>1. TypedInv /\ Typed /\ InputInv /\ MapInv /\ Typed'
  BY DEF DelayInv, TypedInv
<1>2. /\ ~Busy /\ found' = NoLevel /\ to_level' = to_level /\ delay' = delay
      /\ a \in DisableEdits /\ disabled' \subseteq disabled \cup {a}
      /\ disabled \subseteq disabled' \cup {a} /\ DelayInvalid({a[1], a[2]})
      /\ UNCHANGED <<wires, input_slew, ext_cap, slew_annotated, slew, queue>>
  BY DEF Disable, Edit
<1>3. a[1] \in Vertices /\ a[2] \in Vertices /\ a[2] \in Drivers
  BY EdgeFacts
<1>4. InputInv'
  BY <1>1, <1>2 DEF InputInv
<1>5. ASSUME delays_exist PROVE Settled(quiet)'
  <2>1. /\ Pending \subseteq Pending' /\ a[2] \in Pending' /\ Top(a[2]) \in Pending'
        /\ invalid_check_edges = {} /\ invalid_latch_edges = {}
    <3>1. {a[1], a[2]} \in SUBSET Vertices /\ queue \ {a[1], a[2]} \subseteq queue'
      BY <1>2, <1>3
    <3> QED
      BY <1>1, <1>2, <1>3, <1>5, <3>1, Recorded
  <2>2. /\ \A d : WiresTo(d)' = WiresTo(d) /\ WiresFrom(d)' = WiresFrom(d)
        /\ \A d : ConnectedCap(d)' = ConnectedCap(d)
        /\ \A v : IsRoot(v)' <=> IsRoot(v)
    <3>1. \A d : WiresTo(d)' = WiresTo(d) /\ WiresFrom(d)' = WiresFrom(d)
      BY <1>2 DEF WiresTo, WiresFrom
    <3> QED
      BY <1>2, <3>1 DEF ConnectedCap, IsRoot
  <2>3. \A t, v : Finds(t, v)' <=> Finds(t, v)
    BY <2>2 DEF Finds
  <2>4. Enabled' \subseteq Enabled \cup {a} /\ Enabled \subseteq Enabled' \cup {a}
    BY <1>2 DEF Enabled
  <2>5. \A d : d # a[2] => FaninArcs(d)' = FaninArcs(d)
    BY <2>4 DEF FaninArcs
  <2>6. Late(Top(a[2]))' /\ Top(a[2]) \in Vertices
    BY <1>3, <2>1, TopFacts DEF Late
  <2>7. a[2] \notin quiet
    BY <1>2 DEF HandledEdits
  <2>8. ASSUME NEW v \in Vertices
        PROVE  SameAt(v) \/ (v \notin quiet /\ \E x \in Vertices : Finds(x, v)' /\ Late(x)')
    <3>1. CASE v = a[2]
      <4>1. Finds(Top(a[2]), v)
        BY <1>3, <3>1 DEF Finds
      <4> QED
        BY <2>3, <2>6, <2>7, <3>1, <4>1
    <3>2. CASE v \notin Drivers /\ \E w \in WiresTo(v) : w[1] = a[2]
      <4>1. PICK w \in WiresTo(v) : w[1] = a[2]
        BY <3>2
      <4>2. w \in Wires /\ w[2] = v
        BY <1>1, <3>2, <4>1, WiresToFacts
      <4>3. v \notin quiet
        BY <2>7, <4>1, <4>2 DEF HandledEdits
      <4>4. Finds(Top(a[2]), v)
        BY <3>2, <4>1 DEF Finds
      <4> QED
        BY <2>3, <2>6, <4>3, <4>4
    <3>3. CASE v # a[2] /\ (v \notin Drivers => \A w \in WiresTo(v) : w[1] # a[2])
      <4>1. SameAt(v)
        BY <1>2, <2>2, <2>5, <3>3 DEF SameAt
      <4> QED
        BY <4>1
    <3> QED
      BY <3>1, <3>2, <3>3
  <2>9. Settled(quiet)
    BY <1>5 DEF DelayInv
  <2>10. \A e \in Enabled' : \/ Late(Top(e[2]))'
                             \/ /\ e \in Enabled /\ delay'[e] = delay[e] /\ slew'[e[1]] = slew[e[1]]
                                /\ ConnectedCap(e[2])' = ConnectedCap(e[2])
    BY <1>2, <2>2, <2>4, <2>6
  <2>11. \A e \in wires' : \/ Late(Top(e[1]))'
                           \/ /\ e \in wires /\ delay'[e] = delay[e]
                              /\ ConnectedCap(e[1])' = ConnectedCap(e[1])
                              /\ FaninArcs(e[1])' = {} <=> FaninArcs(e[1]) = {}
    BY <1>2, <2>2, <2>5, <2>6
  <2>12. \A x : x \in Pending' \/ FaninArcs(x) \subseteq FaninArcs(x)'
    BY <2>1, <2>5
  <2>13. /\ \A e \in Checks : delay'[e] = delay[e] /\ slew'[e[1]] = slew[e[1]] /\ slew'[e[2]] = slew[e[2]]
         /\ \A e \in LatchArcs : /\ delay'[e] = delay[e] /\ slew'[e[1]] = slew[e[1]]
                                 /\ ConnectedCap(e[2])' = ConnectedCap(e[2])
    BY <1>2, <2>2
  <2> QED
    BY <1>1, <2>1, <2>8, <2>9, <2>10, <2>11, <2>12, <2>13, EditSettled
<1> QED
  BY <1>2, <1>4, <1>5, EditInv

\* What a change of one wire leaves alone.
LEMMA OneWireSame ==
  ASSUME NEW quiet, HandledEdits(quiet), NEW p \in WireEdits, p \in Wires, wires \subseteq Wires,
         wires' \subseteq Wires, wires' \subseteq wires \cup {p}, wires \subseteq wires' \cup {p},
         UNCHANGED <<disabled, ext_cap>>
  PROVE  /\ Enabled' = Enabled /\ \A d : FaninArcs(d)' = FaninArcs(d)
         /\ \A d : ConnectedCap(d)' = ConnectedCap(d)
         /\ \A l : l # p[2] => WiresTo(l)' = WiresTo(l)
         /\ p[2] \in Vertices /\ p[2] \notin Drivers /\ p[2] \notin quiet
         /\ p[1] \in Vertices /\ p[1] \in Drivers
         /\ WiresTo(p[2])' = wires' \cap {p}
<1>1. /\ p[2] \notin HeavyLoads /\ \A x \in Wires : x[2] = p[2] => x = p
      /\ p[2] \notin quiet
  BY DEF HandledEdits
<1>2. Enabled' = Enabled /\ \A d : FaninArcs(d)' = FaninArcs(d)
  <2>1. Enabled' = Enabled
    BY DEF Enabled
  <2> QED
    BY <2>1 DEF FaninArcs
<1>3. \A d : ConnectedCap(d)' = ConnectedCap(d)
  <2> TAKE d
  <2>1. {w \in WiresFrom(d)' : w[2] \in HeavyLoads} = {w \in WiresFrom(d) : w[2] \in HeavyLoads}
    BY <1>1 DEF WiresFrom
  <2> QED
    BY <2>1 DEF ConnectedCap
<1>4. \A l : l # p[2] => WiresTo(l)' = WiresTo(l)
  BY DEF WiresTo
<1>5. WiresTo(p[2])' = wires' \cap {p}
  BY <1>1 DEF WiresTo
<1> QED
  BY <1>1, <1>2, <1>3, <1>4, <1>5, EdgeFacts

LEMMA DisconnectInv ==
  ASSUME NEW quiet, HandledEdits(quiet), DelayInv(quiet), TypedInv',
         NEW p \in Wires, DisconnectPin(p)
  PROVE  DelayInv(quiet)'
<1>1. TypedInv /\ Typed /\ InputInv /\ MapInv /\ Typed' /\ wires \subseteq Wires /\ wires' \subseteq Wires
  BY DEF DelayInv, TypedInv, Typed, TypeOK
<1>2. /\ ~Busy /\ found' = NoLevel /\ to_level' = to_level /\ delay' = delay
      /\ p \in WireEdits /\ wires' = wires \ {p} /\ DelayInvalid({p[2]})
      /\ UNCHANGED <<disabled, input_slew, ext_cap, slew_annotated, slew, queue>>
  BY DEF DisconnectPin, Edit
<1>3. InputInv'
  BY <1>1, <1>2 DEF InputInv
<1>4. ASSUME delays_exist PROVE Settled(quiet)'
  <2>1. /\ Enabled' = Enabled /\ \A d : FaninArcs(d)' = FaninArcs(d)
        /\ \A d : ConnectedCap(d)' = ConnectedCap(d)
        /\ \A l : l # p[2] => WiresTo(l)' = WiresTo(l)
        /\ p[2] \in Vertices /\ p[2] \notin Drivers /\ p[2] \notin quiet
        /\ WiresTo(p[2])' = {}
    <3>1. wires' \subseteq wires \cup {p} /\ wires \subseteq wires' \cup {p} /\ wires' \cap {p} = {}
      BY <1>2
    <3> QED
      BY <1>1, <1>2, <3>1, OneWireSame
  <2>2. /\ Pending \subseteq Pending' /\ p[2] \in Pending'
        /\ invalid_check_edges = {} /\ invalid_latch_edges = {}
    <3>1. {p[2]} \in SUBSET Vertices /\ queue \ {p[2]} \subseteq queue'
      BY <1>2, <2>1
    <3> QED
      BY <1>1, <1>2, <1>4, <3>1, Recorded
  <2>3. \A v \in Vertices : v # p[2] => SameAt(v)
    BY <1>2, <2>1 DEF SameAt
  <2>4. Finds(p[2], p[2])' /\ Late(p[2])'
    BY <2>1, <2>2 DEF Finds, Late, IsRoot
  <2>5. \A v \in Vertices : \/ SlewCurrent(v)' \/ SameAt(v)
                            \/ \E x \in Vertices : Finds(x, v)' /\ Late(x)'
    BY <2>1, <2>3, <2>4
  <2>6. Settled(quiet)
    BY <1>4 DEF DelayInv
  <2>7. \A v \in Vertices : v \in quiet => SameAt(v)
    BY <2>1, <2>3
  <2> QED
    BY <1>1, <1>2, <2>1, <2>2, <2>5, <2>6, <2>7, EditSettled
<1> QED
  BY <1>2, <1>3, <1>4, EditInv

LEMMA ConnectInv ==
  ASSUME NEW quiet, HandledEdits(quiet), DelayInv(quiet), TypedInv',
         NEW p \in Wires, ConnectPin(p)
  PROVE  DelayInv(quiet)'
<1>1. TypedInv /\ Typed /\ InputInv /\ MapInv /\ Typed' /\ wires \subseteq Wires /\ wires' \subseteq Wires
  BY DEF DelayInv, TypedInv, Typed, TypeOK
<1>2. /\ ~Busy /\ found' = NoLevel /\ to_level' = to_level /\ delay' = [delay EXCEPT ![p] = 0]
      /\ p \in WireEdits /\ wires' = wires \cup {p} /\ DelayInvalid({p[1], p[2]})
      /\ UNCHANGED <<disabled, input_slew, ext_cap, slew_annotated, slew, queue>>
  BY DEF ConnectPin
<1>3. InputInv'
  BY <1>1, <1>2 DEF InputInv
<1>4. \A e : e # p => delay'[e] = delay[e]
  BY <1>1, <1>2 DEF Typed, TypeOK
<1>5. ASSUME delays_exist PROVE Settled(quiet)'
  <2>1. /\ Enabled' = Enabled /\ \A d : FaninArcs(d)' = FaninArcs(d)
        /\ \A d : ConnectedCap(d)' = ConnectedCap(d)
        /\ \A l : l # p[2] => WiresTo(l)' = WiresTo(l)
        /\ p[2] \in Vertices /\ p[2] \notin Drivers /\ p[2] \notin quiet
        /\ p[1] \in Vertices /\ p[1] \in Drivers
        /\ WiresTo(p[2])' = {p}
    <3>1. wires' \subseteq wires \cup {p} /\ wires \subseteq wires' \cup {p} /\ wires' \cap {p} = {p}
      BY <1>2
    <3> QED
      BY <1>1, <1>2, <3>1, OneWireSame
  <2>2. /\ Pending \subseteq Pending' /\ Top(p[1]) \in Pending'
        /\ invalid_check_edges = {} /\ invalid_latch_edges = {}
    <3>1. {p[1], p[2]} \in SUBSET Vertices /\ queue \ {p[1], p[2]} \subseteq queue'
      BY <1>2, <2>1
    <3> QED
      BY <1>1, <1>2, <1>5, <2>1, <3>1, Recorded
  <2>3. \A v \in Vertices : v # p[2] => SameAt(v)
    BY <1>2, <2>1 DEF SameAt
  <2>4. Finds(Top(p[1]), p[2])' /\ Late(Top(p[1]))' /\ Top(p[1]) \in Vertices
    BY <2>1, <2>2, TopFacts DEF Finds, Late
  <2>5. \A v \in Vertices : \/ SlewCurrent(v)' \/ SameAt(v)
                            \/ \E x \in Vertices : Finds(x, v)' /\ Late(x)'
    BY <2>1, <2>3, <2>4
  <2>6. Settled(quiet)
    BY <1>5 DEF DelayInv
  <2>7. \A v \in Vertices : v \in quiet => SameAt(v)
    BY <2>1, <2>3
  <2>8. p \notin Enabled /\ p \notin Checks /\ p \notin LatchArcs
    BY <2>1, EdgeFacts DEF Enabled
  <2>9. \A e \in wires' : \/ Late(Top(e[1]))'
                          \/ /\ e \in wires /\ delay'[e] = delay[e]
                             /\ ConnectedCap(e[1])' = ConnectedCap(e[1])
                             /\ FaninArcs(e[1])' = {} <=> FaninArcs(e[1]) = {}
    <3> TAKE e \in wires'
    <3>1. CASE e = p
      BY <2>4, <3>1
    <3>2. CASE e # p
      BY <1>2, <1>4, <2>1, <3>2
    <3> QED
      BY <3>1, <3>2
  <2>10. /\ \A e \in Enabled' : delay'[e] = delay[e] /\ e \in Enabled
         /\ \A e \in Checks \cup LatchArcs : delay'[e] = delay[e]
    BY <1>4, <2>1, <2>8
  <2> QED
    BY <1>1, <1>2, <2>1, <2>2, <2>5, <2>6, <2>7, <2>9, <2>10, EditSettled
<1> QED
  BY <1>2, <1>3, <1>5, EditInv

LEMMA EditsInv ==
  ASSUME NEW quiet, HandledEdits(quiet), DelayInv(quiet), EditStep
  PROVE  DelayInv(quiet)'
<1>1. TypedInv'
  BY EditsTyped DEF DelayInv
<1> QED
  BY <1>1, InputSlewInv, ExtCapInv, NetLoadCapsInv, AnnotatedInv, UnannotatedInv, LevelInv,
     DisableInv, DisconnectInv, ConnectInv DEF EditStep

-----------------------------------------------------------------------------
(* The invariant holds of every behaviour.                                 *)

LEMMA StutterInv ==
  ASSUME NEW quiet, DelayInv(quiet), TypedInv', UNCHANGED vars
  PROVE  DelayInv(quiet)'
<1>1. /\ InputFrame /\ InputInv /\ MapInv /\ FoundInv /\ Phases /\ Typed /\ Typed'
      /\ UNCHANGED <<wires, disabled, ext_cap, slew_annotated, input_slew, slew, delay,
                     delays_exist, delays_seeded, invalid_delays, invalid_check_edges,
                     invalid_latch_edges, queue, multi_drvr_net_map, to_level, found>>
  BY DEF DelayInv, TypedInv, vars, inputVars, edgeVars, InputFrame
<1>2. /\ Enabled' = Enabled /\ \A d : FaninArcs(d)' = FaninArcs(d)
      /\ \A d : WiresFrom(d)' = WiresFrom(d) /\ WiresTo(d)' = WiresTo(d)
      /\ \A d : ConnectedCap(d)' = ConnectedCap(d)
      /\ \A v : IsRoot(v)' <=> IsRoot(v)
      /\ \A t, v : Finds(t, v)' <=> Finds(t, v)
  BY <1>1, FrameKept
<1>3. InputInv' /\ MapInv' /\ FoundInv' /\ Phases'
  BY <1>1 DEF InputInv, MapInv, FoundInv, Phases, Busy
<1>4. \A v \in Vertices : SlewCurrent(v) => SlewCurrent(v)'
  <2> TAKE v \in Vertices
  <2>1. SameAt(v)
    BY <1>1, <1>2 DEF SameAt
  <2> QED
    BY <2>1, SlewKept
<1>5. \A e \in Enabled \cup wires \cup Checks \cup LatchArcs : DelayCurrent(e) => DelayCurrent(e)'
  <2> TAKE e \in Enabled \cup wires \cup Checks \cup LatchArcs
  <2>1. e \in Edges
    BY <1>1, GraphKinds DEF Edges
  <2> QED
    BY <1>1, <1>2, <2>1, DelayKept
<1>6. Pending' = Pending
  BY <1>1 DEF Pending
<1>7. \A t : Late(t)' <=> Late(t)
  BY <1>2, <1>6 DEF Late
<1>8. ASSUME Settled(quiet) PROVE Settled(quiet)'
  <2>1. \A v \in Vertices : SlewCurrent(v)' \/ \E t \in Vertices : Finds(t, v)' /\ Late(t)'
    BY <1>2, <1>4, <1>7, <1>8 DEF Settled
  <2>2. \A e \in Enabled' : DelayCurrent(e)' \/ Late(Top(e[2]))'
    BY <1>2, <1>5, <1>7, <1>8 DEF Settled
  <2>3. \A e \in wires' : DelayCurrent(e)' \/ Late(Top(e[1]))'
    BY <1>1, <1>5, <1>7, <1>8 DEF Settled
  <2>4. \A e \in Checks : DelayCurrent(e)' \/ e \in invalid_check_edges' \/ e[1] \in Pending' \/ e[2] \in Pending'
    BY <1>1, <1>5, <1>6, <1>8 DEF Settled
  <2>5. \A e \in LatchArcs : DelayCurrent(e)' \/ e \in invalid_latch_edges' \/ e[1] \in Pending'
    BY <1>1, <1>5, <1>6, <1>8 DEF Settled
  <2>6. \A v \in Vertices : v \in quiet => SlewCurrent(v)'
    BY <1>4, <1>8 DEF Settled
  <2> QED
    BY <2>1, <2>2, <2>3, <2>4, <2>5, <2>6 DEF Settled
<1>9. ASSUME NEW S \in SUBSET Vertices, Reached(S) PROVE Reached(S)'
  <2>1. Roots' = Roots
    BY <1>2 DEF Roots
  <2>2. \A v : Fanout(v)' = Fanout(v)
    BY <1>1, <1>2 DEF Fanout
  <2>3. \A t \in S, v \in Vertices : Finds(t, v)' => SlewCurrent(v)'
    BY <1>2, <1>4, <1>9 DEF Reached
  <2>4. /\ \A e \in Enabled' : Top(e[2]) \in S => DelayCurrent(e)'
        /\ \A e \in wires' : Top(e[1]) \in S => DelayCurrent(e)'
    BY <1>1, <1>2, <1>5, <1>9 DEF Reached
  <2>5. /\ Roots' \subseteq S /\ queue' \cap Roots' = {}
        /\ \A v \in S : Fanout(v)' \subseteq S \cup queue'
        /\ \A v \in S \ Roots', u \in queue' : Level[v] <= Level[u]
    BY <1>1, <1>9, <2>1, <2>2 DEF Reached
  <2>6. \A l \in S \ (Drivers \cup Roots') : /\ CheckEdges(l) \subseteq invalid_check_edges'
                                             /\ \A e \in LatchArcs : e[1] = l => e \in invalid_latch_edges'
    BY <1>1, <1>9, <2>1 DEF Reached
  <2>7. \A d \in S \cap Drivers : Several(d) => multi_drvr_net_map'[d] # NoMultiDrvr
    BY <1>1, <1>9 DEF Reached
  <2> QED
    BY <2>3, <2>4, <2>5, <2>6, <2>7 DEF Reached
<1> QED
  BY <1>1, <1>3, <1>8, <1>9 DEF DelayInv, Busy

LEMMA NextInv ==
  ASSUME NEW quiet, HandledEdits(quiet), FirstReachesAll, DelayInv(quiet), [Next]_vars
  PROVE  DelayInv(quiet)'
<1>1. TypedInv'
  BY NextTyped DEF DelayInv
<1>2. CASE EditStep
  BY <1>2, EditsInv
<1>3. ASSUME NEW level \in QueryLevels \cup FirstLevels, FindDelays(level) PROVE DelayInv(quiet)'
  BY <1>3, BeginInv
<1>4. ASSUME NEW t \in Vertices, Visit(t) PROVE DelayInv(quiet)'
  BY <1>4, VisitInv
<1>5. CASE EndFindDelays
  BY <1>5, EndInv
<1>6. CASE UNCHANGED vars
  BY <1>1, <1>6, StutterInv
<1> QED
  BY <1>2, <1>3, <1>4, <1>5, <1>6 DEF Next

LEMMA InitInv ==
  ASSUME NEW quiet, Init
  PROVE  DelayInv(quiet)
<1>1. TypedInv
  BY InitTyped
<1>2. InputInv /\ MapInv
  BY DEF Init, InputInv, MapInv
<1>3. FoundInv /\ Phases /\ ~Busy /\ ~delays_exist
  BY DEF Init, FoundInv, Phases, Busy
<1> QED
  BY <1>1, <1>2, <1>3 DEF DelayInv

-----------------------------------------------------------------------------
(* What the invariant says of answers and of what is recorded.             *)

LEMMA FoundByTop ==
  ASSUME Typed, InputInv, MapInv, NEW quiet, HandledEdits(quiet), delays_exist
  PROVE  /\ \A d \in Drivers : FoundBy(d) = Top(d)
         /\ \A v : v \notin Drivers => FoundBy(v) = v
<1>1. ASSUME NEW d \in Drivers PROVE FoundBy(d) = Top(d)
  <2>1. CASE Several(d)
    <3>1. multi_drvr_net_map[d] # NoMultiDrvr /\ multi_drvr_net_map[d] = NetRecord(d)
      BY <2>1 DEF MapInv
    <3>2. NetRecord(d).dcalc_drvr = Top(d)
      BY DEF NetRecord
    <3> QED
      BY <3>1, <3>2 DEF FoundBy
  <2>2. CASE ~Several(d)
    <3>1. multi_drvr_net_map[d] = NoMultiDrvr
      BY <2>2 DEF MapInv
    <3> QED
      BY <2>2, <3>1 DEF FoundBy, Top
  <2> QED
    BY <2>1, <2>2
<1> QED
  BY <1>1 DEF FoundBy

\* An edge whose delay is not current is in use.
LEMMA StaleEdges ==
  ASSUME Typed, NEW e \in Edges, ~DelayCurrent(e)
  PROVE  e \in Enabled \cup wires \cup Checks \cup LatchArcs
BY DEF DelayCurrent

LEMMA AnswerInv ==
  ASSUME NEW quiet, HandledEdits(quiet), DelayInv(quiet)
  PROVE  DelayAnswer
<1>1. Typed /\ InputInv /\ MapInv /\ FoundInv /\ (delays_exist => Settled(quiet))
  BY DEF DelayInv, TypedInv
<1>2. found \in Nat \cup {NoLevel} /\ queue \subseteq Vertices
  BY <1>1 DEF Typed, TypeOK
<1>3. \A v \in Vertices : FoundAt(v) \in Nat
  <2> TAKE v \in Vertices
  <2>1. FoundBy(v) \in Vertices
    BY <1>1, EdgeFacts DEF FoundBy, Typed, MultiNets
  <2> QED
    BY <2>1, LevelFacts DEF FoundAt
<1>4. CASE found = NoLevel
  <2>1. \A v \in Vertices : ~(FoundAt(v) <= found)
    BY <1>3, <1>4 DEF NoLevel
  <2>2. \A e \in Edges : e[1] \in Vertices
    BY EdgeFacts DEF Edges
  <2> QED
    BY <2>1, <2>2 DEF DelayAnswer
<1>5. CASE found # NoLevel
  <2>1. /\ delays_exist /\ Pending = queue /\ found \in Nat
        /\ \A u \in queue : Level[u] > found
        /\ \A e \in invalid_check_edges : Level[e[1]] > found \/ Level[e[2]] > found
        /\ \A e \in invalid_latch_edges : Level[e[1]] > found
    BY <1>1, <1>2, <1>5 DEF FoundInv, Pending
  <2>2. /\ \A d \in Drivers : FoundAt(d) = Level[Top(d)]
        /\ \A v : v \notin Drivers => FoundAt(v) = Level[v]
    BY <1>1, <2>1, FoundByTop DEF FoundAt
  <2>3. ASSUME NEW t \in Vertices, Level[t] <= found PROVE ~Late(t)
    <3>1. t \notin Pending
      BY <2>1, <2>3, LevelFacts
    <3>2. ASSUME NEW e \in FaninArcs(t) PROVE e[1] \notin Pending
      <4>1. e \in Arcs /\ e[2] = t
        BY DEF FaninArcs, Enabled
      <4>2. Level[e[1]] < Level[t] /\ e[1] \in Vertices
        BY <4>1, LevelFacts, EdgeFacts
      <4> QED
        BY <2>1, <2>3, <4>2, LevelFacts
    <3> QED
      BY <3>1, <3>2 DEF Late
  <2>4. Settled(quiet)
    BY <1>1, <2>1
  <2>5. ASSUME NEW v \in Vertices, FoundAt(v) <= found PROVE SlewCurrent(v)
    <3>1. ASSUME NEW t \in Vertices, Finds(t, v) PROVE ~Late(t)
      <4>1. CASE v \in Drivers
        <5>1. t = Top(v)
          BY <3>1, <4>1 DEF Finds
        <5> QED
          BY <2>2, <2>3, <2>5, <4>1, <5>1
      <4>2. CASE v \notin Drivers
        <5>1. Level[t] <= Level[v] /\ Level[v] <= found
          BY <1>1, <2>2, <2>5, <3>1, <4>2, FinderFacts
        <5>2. Level[t] <= found
          BY <2>1, <5>1, LevelFacts
        <5> QED
          BY <2>3, <5>2
      <4> QED
        BY <4>1, <4>2
    <3> QED
      BY <2>4, <3>1 DEF Settled
  <2>6. ASSUME NEW e \in Edges, FoundAt(e[1]) <= found, FoundAt(e[2]) <= found PROVE DelayCurrent(e)
    <3>1. CASE e \in Enabled
      <4>1. e[2] \in Drivers
        BY <3>1, EdgeFacts DEF Enabled
      <4>2. Top(e[2]) \in Vertices /\ ~Late(Top(e[2]))
        BY <2>2, <2>3, <2>6, <4>1, TopFacts
      <4> QED
        BY <2>4, <3>1, <4>2 DEF Settled
    <3>2. CASE e \in wires
      <4>1. e[1] \in Drivers
        BY <1>1, <3>2, WireFinds
      <4>2. Top(e[1]) \in Vertices /\ ~Late(Top(e[1]))
        BY <2>2, <2>3, <2>6, <4>1, TopFacts
      <4> QED
        BY <2>4, <3>2, <4>2 DEF Settled
    <3>3. CASE e \in Checks
      <4>1. /\ e[1] \in Vertices /\ e[2] \in Vertices
            /\ Level[e[1]] <= found /\ Level[e[2]] <= found
        BY <2>2, <2>6, <3>3, EdgeFacts
      <4>2. e \notin invalid_check_edges /\ e[1] \notin Pending /\ e[2] \notin Pending
        BY <2>1, <4>1, LevelFacts
      <4> QED
        BY <2>4, <3>3, <4>2 DEF Settled
    <3>4. CASE e \in LatchArcs
      <4>1. e[1] \in Vertices /\ Level[e[1]] <= found
        BY <2>2, <2>6, <3>4, EdgeFacts
      <4>2. e \notin invalid_latch_edges /\ e[1] \notin Pending
        BY <2>1, <4>1, LevelFacts
      <4> QED
        BY <2>4, <3>4, <4>2 DEF Settled
    <3> QED
      BY <1>1, <3>1, <3>2, <3>3, <3>4, StaleEdges
  <2> QED
    BY <2>5, <2>6 DEF DelayAnswer
<1> QED
  BY <1>4, <1>5

SourcesOf(v) == {v, FoundBy(v)} \cup {e[1] : e \in {f \in wires \cup Arcs : f[2] = v}}
UpstreamOf(v) == UNION {SourcesOf(u) : u \in SourcesOf(v)}

LEMMA LateIsUpstream ==
  ASSUME NEW v, NEW t \in SourcesOf(v), Late(t)
  PROVE  Pending \cap UpstreamOf(v) # {}
<1>1. CASE t \in Pending
  <2>1. t \in SourcesOf(t)
    BY DEF SourcesOf
  <2> QED
    BY <1>1, <2>1 DEF UpstreamOf
<1>2. CASE t \notin Pending
  <2>1. PICK e \in FaninArcs(t) : e[1] \in Pending
    BY <1>2 DEF Late
  <2>2. e \in {f \in wires \cup Arcs : f[2] = t}
    BY DEF FaninArcs, Enabled
  <2>3. e[1] \in SourcesOf(t)
    BY <2>2 DEF SourcesOf
  <2> QED
    BY <2>1, <2>3 DEF UpstreamOf
<1> QED
  BY <1>1, <1>2

\* The visit that finds v is one of its sources.
LEMMA FinderIsSource ==
  ASSUME Typed, InputInv, MapInv, NEW quiet, HandledEdits(quiet), delays_exist,
         NEW v \in Vertices, NEW t, Finds(t, v)
  PROVE  t \in SourcesOf(v)
<1>1. CASE v \in Drivers
  <2>1. t = FoundBy(v)
    BY <1>1, FoundByTop DEF Finds
  <2> QED
    BY <2>1 DEF SourcesOf
<1>2. CASE v \notin Drivers /\ t = v
  BY <1>2 DEF SourcesOf
<1>3. CASE v \notin Drivers /\ t # v
  <2>1. PICK w \in WiresTo(v) : t = Top(w[1])
    BY <1>3 DEF Finds
  <2>2. w \in wires /\ w \in Wires /\ w[1] \in Drivers /\ w = <<w[1], v>>
    BY <1>3, WiresToFacts
  <2>3. <<t, v>> \in wires
    <3>1. CASE Several(w[1])
      <4>1. t \in Net(w[1]) /\ t \in Drivers /\ Several(t)
        BY <2>1, <2>2, <3>1, TopFacts
      <4>2. <<t, v>> \in Wires
        BY <2>2, <4>1, NetFacts
      <4>3. <<t, v>>[1] = t
        OBVIOUS
      <4> QED
        BY <4>1, <4>2, <4>3, WholeNets
    <3>2. CASE ~Several(w[1])
      BY <2>1, <2>2, <3>2 DEF Top
    <3> QED
      BY <3>1, <3>2
  <2>4. <<t, v>> \in {f \in wires \cup Arcs : f[2] = v} /\ <<t, v>>[1] = t
    BY <2>3
  <2> QED
    BY <2>4 DEF SourcesOf
<1> QED
  BY <1>1, <1>2, <1>3

LEMMA NothingLostInv ==
  ASSUME NEW quiet, HandledEdits(quiet), DelayInv(quiet)
  PROVE  NoLostDelay
<1>1. Typed /\ InputInv /\ MapInv /\ (delays_exist => Settled(quiet))
  BY DEF DelayInv, TypedInv
<1>2. SUFFICES ASSUME ~Busy, delays_exist
               PROVE  /\ \A v \in Vertices : ~SlewCurrent(v) => Pending \cap UpstreamOf(v) # {}
                      /\ \A e \in Edges : ~DelayCurrent(e) =>
                           Pending \cap (UpstreamOf(e[1]) \cup UpstreamOf(e[2])) # {}
  BY DEF NoLostDelay, Pending, UpstreamOf, SourcesOf
<1>3. Settled(quiet) /\ invalid_check_edges = {} /\ invalid_latch_edges = {}
  BY <1>1, <1>2 DEF Typed, TypeOK
<1>4. ASSUME NEW v \in Vertices, ~SlewCurrent(v) PROVE Pending \cap UpstreamOf(v) # {}
  <2>1. PICK t \in Vertices : Finds(t, v) /\ Late(t)
    BY <1>3, <1>4 DEF Settled
  <2>2. t \in SourcesOf(v)
    BY <1>1, <1>2, <2>1, FinderIsSource
  <2> QED
    BY <2>1, <2>2, LateIsUpstream
<1>5. ASSUME NEW e \in Edges, ~DelayCurrent(e)
      PROVE  Pending \cap (UpstreamOf(e[1]) \cup UpstreamOf(e[2])) # {}
  <2>1. ASSUME NEW d \in Drivers, Late(Top(d)) PROVE Pending \cap UpstreamOf(d) # {}
    <3>1. Top(d) \in SourcesOf(d)
      BY <1>1, <1>2, FoundByTop DEF SourcesOf
    <3> QED
      BY <2>1, <3>1, LateIsUpstream
  <2>2. ASSUME NEW x, x \in Pending PROVE Pending \cap UpstreamOf(x) # {}
    <3>1. x \in SourcesOf(x) /\ Late(x)
      BY <2>2 DEF SourcesOf, Late
    <3> QED
      BY <3>1, LateIsUpstream
  <2>3. CASE e \in Enabled
    <3>1. e[2] \in Drivers /\ Late(Top(e[2]))
      BY <1>3, <1>5, <2>3, EdgeFacts DEF Settled, Enabled
    <3> QED
      BY <2>1, <3>1
  <2>4. CASE e \in wires
    <3>1. e[1] \in Drivers
      BY <1>1, <2>4, WireFinds
    <3>2. Late(Top(e[1]))
      BY <1>3, <1>5, <2>4 DEF Settled
    <3> QED
      BY <2>1, <3>1, <3>2
  <2>5. CASE e \in Checks
    <3>1. e[1] \in Pending \/ e[2] \in Pending
      BY <1>3, <1>5, <2>5 DEF Settled
    <3> QED
      BY <2>2, <3>1
  <2>6. CASE e \in LatchArcs
    <3>1. e[1] \in Pending
      BY <1>3, <1>5, <2>6 DEF Settled
    <3> QED
      BY <2>2, <3>1
  <2> QED
    BY <1>1, <1>5, <2>3, <2>4, <2>5, <2>6, StaleEdges
<1> QED
  BY <1>4, <1>5

\* Whatever the graph, and whatever the edits of HandledEdits, what an edit makes
\* out of date is recorded or queued until a query finds it, if the first query
\* asked for every level.
THEOREM NothingIsLost ==
  ASSUME NEW quiet, HandledEdits(quiet), FirstReachesAll
  PROVE  Spec => []NoLostDelay
<1>1. Init => DelayInv(quiet)
  BY InitInv
<1>2. DelayInv(quiet) /\ [Next]_vars => DelayInv(quiet)'
  BY NextInv
<1>3. DelayInv(quiet) => NoLostDelay
  BY NothingLostInv
<1> QED
  BY <1>1, <1>2, <1>3, PTL DEF Spec

\* After findDelays, slews and delays are right up to the level asked for,
\* whatever was left for later before, for the same graphs and edits.
THEOREM AnswerIsCurrent ==
  ASSUME NEW quiet, HandledEdits(quiet), FirstReachesAll
  PROVE  Spec => []DelayAnswer
<1>1. Init => DelayInv(quiet)
  BY InitInv
<1>2. DelayInv(quiet) /\ [Next]_vars => DelayInv(quiet)'
  BY NextInv
<1>3. DelayInv(quiet) => DelayAnswer
  BY AnswerInv
<1> QED
  BY <1>1, <1>2, <1>3, PTL DEF Spec

=============================================================================
