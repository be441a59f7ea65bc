------------------------------ MODULE SimProofs ------------------------------
(***************************************************************************)
(* Proofs about Sim for any cells, nets, supplies and case values: the     *)
(* types; and where no pin has another function after its cell is          *)
(* replaced, ties are neither under a case nor edited, and a constant      *)
(* data input leaves its register alone, that constants found after edits  *)
(* are those found from scratch, and that between propagations no wrong    *)
(* value goes unrecorded.                                                  *)
(*                                                                         *)
(* ValuesCurrent speaks of the moments when nothing is left to do.  Before *)
(* that, the invariant has a value that is not the one to be found only    *)
(* where a pin, its driver or its instance is recorded as invalid, or      *)
(* where an instance is queued.  Constants are handed over by folds over   *)
(* sets of pins, and what a fold keeps or settles is proved by the size of *)
(* the set.                                                                *)
(***************************************************************************)
EXTENDS Sim, FiniteSetTheorems, WellFoundedInduction, SequenceTheorems, TLAPS

-----------------------------------------------------------------------------
(* Folds over finite sets.                                                 *)

Some(u) == CHOOSE x \in u : TRUE

\* What holds of the empty set, and of a set if it holds without one of its
\* elements, holds of every finite set.
LEMMA FoldInduction ==
  ASSUME NEW S, IsFiniteSet(S), NEW Good, {} \in Good,
         \A u \in SUBSET S : u # {} /\ u \ {Some(u)} \in Good => u \in Good
  PROVE  S \in Good
<1> DEFINE Bad == {u \in SUBSET S : u \notin Good}
           Sizes == {Cardinality(u) : u \in Bad}
           Smaller == {ss \in Nat \X Nat : ss[1] < ss[2]}
<1>1. \A u \in SUBSET S : IsFiniteSet(u) /\ Cardinality(u) \in Nat
  BY FS_Subset, FS_CardinalityType
<1>2. SUFFICES ASSUME Bad # {} PROVE FALSE
  OBVIOUS
<1>3. IsWellFoundedOn(Smaller, Nat)
  BY NatLessThanWellFounded DEF OpToRel
<1>4. Sizes \subseteq Nat /\ Sizes # {}
  BY <1>1, <1>2
<1>5. \E n \in Sizes : \A m \in Sizes : <<m, n>> \notin Smaller
  <2> HIDE DEF Smaller, Sizes
  <2> QED
    BY <1>3, <1>4, WFMin
<1>6. PICK u \in Bad : \A w \in Bad : <<Cardinality(w), Cardinality(u)>> \notin Smaller
  BY <1>5
<1>7. u # {} /\ Some(u) \in u
  <2>1. u \notin Good
    BY <1>6
  <2>2. u # {}
    BY <2>1
  <2> QED
    BY <2>2 DEF Some
<1>8. Cardinality(u \ {Some(u)}) = Cardinality(u) - 1
  BY <1>1, <1>7, FS_RemoveElement
<1>9. u \ {Some(u)} \in SUBSET S /\ u \in SUBSET S
  BY <1>6
<1>10. Cardinality(u) \in Nat /\ Cardinality(u \ {Some(u)}) \in Nat
  BY <1>1, <1>9
<1>11. <<Cardinality(u \ {Some(u)}), Cardinality(u)>> \in Smaller
  BY <1>8, <1>10
<1>12. u \ {Some(u)} \notin Bad
  <2> HIDE DEF Smaller, Bad
  <2> QED
    BY <1>6, <1>11
<1> QED
  BY <1>6, <1>7, <1>9, <1>12

FoldOf(S, base, F, g, u) == IF u = {} THEN base ELSE F[<<Some(u), g[u \ {Some(u)}]>>]

HasFold(S, base, F, T) ==
  \E g \in [SUBSET S -> T] : \A u \in SUBSET S : g[u] = FoldOf(S, base, F, g, u)

\* The function that a fold is taken from exists.
LEMMA FoldExists ==
  ASSUME NEW S, IsFiniteSet(S), NEW T, NEW base \in T, NEW F \in [S \X T -> T]
  PROVE  HasFold(S, base, F, T)
<1> DEFINE Small(n) == {u \in SUBSET S : Cardinality(u) <= n}
           Solves(g, n) == /\ g \in [Small(n) -> T]
                           /\ \A u \in Small(n) : g[u] = FoldOf(S, base, F, g, u)
           Unsolved == {n \in Nat : ~\E g : Solves(g, n)}
           Smaller == {ss \in Nat \X Nat : ss[1] < ss[2]}
<1>1. \A u \in SUBSET S : IsFiniteSet(u) /\ Cardinality(u) \in Nat /\ Cardinality(u) <= Cardinality(S)
  BY FS_Subset, FS_CardinalityType
<1>2. \A u \in SUBSET S : u # {} => /\ Some(u) \in S /\ u \ {Some(u)} \in SUBSET S
                                    /\ Cardinality(u \ {Some(u)}) = Cardinality(u) - 1
  <2> TAKE u \in SUBSET S
  <2> HAVE u # {}
  <2>1. Some(u) \in u
    BY DEF Some
  <2> QED
    BY <1>1, <2>1, FS_RemoveElement
<1>3. \E g : Solves(g, 0)
  <2> DEFINE g == [u \in Small(0) |-> base]
  <2>1. \A u \in Small(0) : u = {}
    <3> TAKE u \in Small(0)
    <3>1. IsFiniteSet(u) /\ Cardinality(u) \in Nat /\ Cardinality(u) <= 0
      BY <1>1
    <3>2. Cardinality(u) = 0
      BY <3>1
    <3> QED
      BY <3>1, <3>2, FS_EmptySet
  <2>2. g \in [Small(0) -> T]
    OBVIOUS
  <2>3. \A u \in Small(0) : g[u] = FoldOf(S, base, F, g, u)
    BY <2>1 DEF FoldOf
  <2> QED
    <3> HIDE DEF g
    <3> QED
      BY <2>2, <2>3
<1>4. ASSUME NEW n \in Nat, \E g : Solves(g, n)
      PROVE  \E g : Solves(g, n + 1)
  <2>1. PICK g : Solves(g, n)
    BY <1>4
  <2> DEFINE h == [u \in Small(n + 1) |-> FoldOf(S, base, F, g, u)]
  <2>2. \A u \in Small(n + 1) : u # {} => u \ {Some(u)} \in Small(n) /\ Some(u) \in S
    BY <1>1, <1>2
  <2>3. h \in [Small(n + 1) -> T]
    <3>1. \A u \in Small(n + 1) : FoldOf(S, base, F, g, u) \in T
      <4> TAKE u \in Small(n + 1)
      <4>1. CASE u = {}
        BY <4>1 DEF FoldOf
      <4>2. CASE u # {}
        <5>1. g[u \ {Some(u)}] \in T /\ Some(u) \in S
          BY <2>1, <2>2, <4>2
        <5> QED
          BY <4>2, <5>1 DEF FoldOf
      <4> QED
        BY <4>1, <4>2
    <3> QED
      BY <3>1
  <2>4. \A u \in Small(n) : u \in Small(n + 1) /\ h[u] = g[u]
    <3> TAKE u \in Small(n)
    <3>1. u \in Small(n + 1)
      BY <1>1
    <3>2. g[u] = FoldOf(S, base, F, g, u)
      BY <2>1
    <3> QED
      BY <3>1, <3>2
  <2>5. \A u \in Small(n + 1) : h[u] = FoldOf(S, base, F, h, u)
    <3> TAKE u \in Small(n + 1)
    <3>1. h[u] = FoldOf(S, base, F, g, u)
      OBVIOUS
    <3>2. u # {} => h[u \ {Some(u)}] = g[u \ {Some(u)}]
      BY <2>2, <2>4
    <3> HIDE DEF h
    <3> QED
      BY <3>1, <3>2 DEF FoldOf
  <2> QED
    <3> HIDE DEF h
    <3> QED
      BY <2>3, <2>5
<1>5. Unsolved = {}
  <2> SUFFICES ASSUME Unsolved # {} PROVE FALSE
    OBVIOUS
  <2>1. IsWellFoundedOn(Smaller, Nat)
    BY NatLessThanWellFounded DEF OpToRel
  <2>2. Unsolved \subseteq Nat
    OBVIOUS
  <2>3. \E n \in Unsolved : \A m \in Unsolved : <<m, n>> \notin Smaller
    <3> HIDE DEF Smaller, Unsolved
    <3> QED
      BY <2>1, <2>2, WFMin
  <2>4. PICK n \in Unsolved : \A m \in Unsolved : <<m, n>> \notin Smaller
    BY <2>3
  <2>5. n # 0 /\ n \in Nat
    <3> HIDE DEF Solves
    <3> QED
      BY <1>3, <2>4
  <2>6. n - 1 \in Nat /\ n - 1 < n
    BY <2>5
  <2>7. n - 1 \notin Unsolved
    <3> HIDE DEF Unsolved
    <3> QED
      BY <2>2, <2>4, <2>5, <2>6
  <2>8. \E g : Solves(g, n - 1)
    BY <2>6, <2>7
  <2>9. \E g : Solves(g, (n - 1) + 1)
    <3> HIDE DEF Solves
    <3> QED
      BY <2>6, <2>8, <1>4
  <2>10. (n - 1) + 1 = n
    BY <2>5
  <2>11. \E g : Solves(g, n)
    <3> HIDE DEF Solves
    <3> QED
      BY <2>9, <2>10
  <2> QED
    BY <2>4, <2>11
<1>6. PICK g : Solves(g, Cardinality(S))
  BY <1>1, <1>5
<1>7. Small(Cardinality(S)) = SUBSET S
  BY <1>1
<1> QED
  BY <1>6, <1>7 DEF HasFold

-----------------------------------------------------------------------------
(* The netlist, and values that pins may have.                             *)

LEMMA PinFacts ==
  /\ Inputs \cap Outputs = {} /\ Inputs \subseteq Pins /\ Outputs \subseteq Pins
  /\ \A p \in Pins : p = <<p[1], p[2]>> /\ p[1] \in Instances
  /\ \A p \in Pins : p \in Inputs <=> p[2] \in InitialCell[p[1]].ins
  /\ \A p \in Pins : p \in Outputs <=> p[2] \in InitialCell[p[1]].outs
  /\ \A i \in Instances : \A x \in InitialCell[i].ins : <<i, x>> \in Inputs
  /\ \A i \in Instances : \A z \in InitialCell[i].outs : <<i, z>> \in Outputs
  /\ \A i \in Instances : InitialCell[i] \in Cells /\ InitialCell[i] \in Alternatives[i]
<1>1. \A i \in Instances : /\ InitialCell[i] \in Cells /\ InitialCell[i] \in Alternatives[i]
                           /\ InitialCell[i].ins \cap InitialCell[i].outs = {}
  BY SimAssumption
<1>2. \A p : p \in Inputs <=> \E i \in Instances : \E x \in InitialCell[i].ins : p = <<i, x>>
  BY DEF Inputs
<1>3. \A p : p \in Outputs <=> \E i \in Instances : \E x \in InitialCell[i].outs : p = <<i, x>>
  BY DEF Outputs
<1> QED
  BY <1>1, <1>2, <1>3 DEF Pins

LEMMA FiniteUnion ==
  ASSUME NEW S, IsFiniteSet(S), NEW f, \A x \in S : IsFiniteSet(f[x])
  PROVE  IsFiniteSet(UNION {f[x] : x \in S})
<1> DEFINE Parts == {f[x] : x \in S}
           g == [x \in S |-> f[x]]
<1>1. g \in Surjection(S, Parts)
  BY DEF Surjection
<1>2. IsFiniteSet(Parts)
  <2> HIDE DEF g, Parts
  <2> QED
    BY <1>1, FS_Surjection
<1> QED
  BY <1>2, FS_UNION

LEMMA PinsFinite == IsFiniteSet(Pins)
<1> DEFINE ins == [i \in Instances |-> {i} \X InitialCell[i].ins]
           outs == [i \in Instances |-> {i} \X InitialCell[i].outs]
<1>1. \A i \in Instances : IsFiniteSet(ins[i]) /\ IsFiniteSet(outs[i])
  BY SimAssumption, FS_Singleton, FS_Product
<1>2. Inputs = UNION {ins[i] : i \in Instances} /\ Outputs = UNION {outs[i] : i \in Instances}
  BY DEF Inputs, Outputs
<1>3. IsFiniteSet(Inputs) /\ IsFiniteSet(Outputs)
  <2> HIDE DEF ins, outs
  <2> QED
    BY <1>1, <1>2, FiniteUnion, SimAssumption
<1> QED
  BY <1>3, FS_Union DEF Pins

\* Pins of instances that do not exist are on no net and have no constraint; a
\* net has at most one driver, and none if it is a supply.
Netlist ==
  /\ \A i \in Instances : cell[i] \in Alternatives[i]
  /\ \A p \in Pins : p[1] \notin instances => net[p] = NoNet /\ case_value[p] = "unknown"
  /\ \A p \in Pins : Known(case_value[p]) => p \in CasePins
  /\ \A p \in Outputs : net[p] # NoNet =>
       /\ ~Known(Supply[net[p]])
       /\ \A q \in Outputs : net[q] = net[p] => q = p

\* The values, queue and instances to annotate of a propagation.
State ==
  {s \in [value : [Pins -> Values], queue : Seq(instances), annotate : SUBSET instances] :
     \A p \in Pins : p[1] \notin instances => s.value[p] = "unknown"}

LEMMA CellTypes ==
  ASSUME TypeOK, Netlist
  PROVE  \A i \in Instances : /\ cell[i] \in Cells /\ cell[i] \in Alternatives[i]
                              /\ cell[i].ins = InitialCell[i].ins
                              /\ cell[i].outs = InitialCell[i].outs
BY SimAssumption DEF TypeOK, Netlist

LEMMA ValueTypes ==
  /\ \A f, i, value : EvalExpr(f, i, value) \in Values
  /\ \A p, thru, value : EvalOutput(p, thru, value) \in Values
  /\ \A p : ConstFuncValue(p) \in Values
<1>1. \A f, i, value : EvalExpr(f, i, value) \in Values
  BY DEF EvalExpr, Values
<1>2. \A p, thru, value : EvalOutput(p, thru, value) \in Values
  <2> TAKE p, thru, value
  <2>1. EvalOutput(p, thru, value) \in {EvalExpr(cell[p[1]].func[p[2]], p[1], value),
                                        EvalExpr(cell[p[1]].data[p[2]], p[1], value), "unknown"}
    BY DEF EvalOutput
  <2> QED
    BY <1>1, <2>1 DEF Values
<1> QED
  BY <1>1, <1>2 DEF ConstFuncValue, Values

-----------------------------------------------------------------------------
(* Passing a value on.                                                     *)

\* From s to r the pins of L have got the value v where no constraint overrules
\* it, and the instances of the loads among them that changed are queued.
Passed(s, r, L, v) ==
  /\ \A q \in Pins : r.value[q] = IF q \in L /\ ~Overruled(q, v) THEN v ELSE s.value[q]
  /\ Range(s.queue) \subseteq Range(r.queue)
  /\ \A q \in Inputs : r.value[q] # s.value[q] => q[1] \in Range(r.queue)

LEMMA PassedOn ==
  ASSUME NEW s, NEW t, NEW r, NEW L, NEW M, NEW v, Passed(s, t, L, v), Passed(t, r, M, v)
  PROVE  Passed(s, r, L \cup M, v)
BY PinFacts DEF Passed

LEMMA AppendRange ==
  ASSUME NEW S, NEW q \in Seq(S), NEW x \in S
  PROVE  /\ Append(q, x) \in Seq(S) /\ Range(Append(q, x)) = Range(q) \cup {x}
         /\ q # <<>> => Last(q) \in Range(q)
         /\ Range(q) \subseteq S
<1>1. Append(q, x) \in Seq(S) /\ Len(Append(q, x)) = Len(q) + 1 /\ Len(q) \in Nat
  OBVIOUS
<1>2. \A k \in 1..Len(q) : Append(q, x)[k] = q[k]
  OBVIOUS
<1>3. Append(q, x)[Len(q) + 1] = x
  OBVIOUS
<1>4. DOMAIN q = 1..Len(q) /\ DOMAIN Append(q, x) = 1..(Len(q) + 1)
  BY <1>1
<1>5. Range(Append(q, x)) = Range(q) \cup {x}
  BY <1>1, <1>2, <1>3, <1>4 DEF Range
<1>6. q # <<>> => Last(q) \in Range(q)
  <2>1. q # <<>> => Len(q) \in DOMAIN q
    OBVIOUS
  <2> QED
    BY <2>1 DEF Range, Last
<1>7. \A k \in DOMAIN q : q[k] \in S
  BY <1>4
<1>8. Range(q) \subseteq S
  BY <1>7 DEF Range
<1> QED
  BY <1>1, <1>5, <1>6, <1>8

LEMMA SetLoadPasses ==
  ASSUME NEW s \in State, NEW p \in Inputs, p[1] \in instances, NEW v \in Values
  PROVE  SetLoadValue(s, p, v) \in State /\ Passed(s, SetLoadValue(s, p, v), {p}, v)
<1> DEFINE r == SetLoadValue(s, p, v)
<1>1. /\ s.value \in [Pins -> Values] /\ s.queue \in Seq(instances) /\ s.annotate \in SUBSET instances
      /\ \A q \in Pins : q[1] \notin instances => s.value[q] = "unknown"
  BY DEF State
<1>2. CASE Overruled(p, v) \/ v = s.value[p]
  BY <1>2, PinFacts DEF SetLoadValue, Passed
<1>3. CASE ~Overruled(p, v) /\ v # s.value[p]
  <2>1. r = [value |-> [s.value EXCEPT ![p] = v],
             queue |-> IF s.queue # <<>> /\ Last(s.queue) = p[1] THEN s.queue
                       ELSE Append(s.queue, p[1]),
             annotate |-> s.annotate \cup {p[1]}]
    BY <1>3 DEF SetLoadValue
  <2>2. r.queue \in Seq(instances) /\ p[1] \in Range(r.queue) /\ Range(s.queue) \subseteq Range(r.queue)
    BY <1>1, <2>1, AppendRange
  <2>3. p \in Pins /\ r.value \in [Pins -> Values] /\ \A q \in Pins : r.value[q] = IF q = p THEN v ELSE s.value[q]
    BY <1>1, <2>1, PinFacts
  <2>4. r \in State
    BY <1>1, <2>1, <2>2, <2>3 DEF State
  <2>5. Passed(s, r, {p}, v)
    BY <1>3, <2>2, <2>3, PinFacts DEF Passed
  <2> QED
    BY <2>4, <2>5
<1> QED
  BY <1>2, <1>3

\* What handing v to each pin of L by an operator like SetLoadValue gives.
LEMMA LoadsPass ==
  ASSUME NEW s \in State, NEW L \in SUBSET Inputs, \A p \in L : p[1] \in instances,
         NEW v \in Values
  PROVE  LET r == FoldSet(LAMBDA load, t : SetLoadValue(t, load, v), s, L)
         IN  r \in State /\ Passed(s, r, L, v)
<1> DEFINE F == [xt \in L \X State |-> SetLoadValue(xt[2], xt[1], v)]
<1>1. IsFiniteSet(L)
  BY PinsFinite, PinFacts, FS_Subset
<1>2. F \in [L \X State -> State]
  BY SetLoadPasses
<1>3. HasFold(L, s, F, State)
  <2> HIDE DEF F
  <2> QED
    BY <1>1, <1>2, FoldExists
<1> DEFINE Body(g, u) == IF u = {} THEN s ELSE SetLoadValue(g[u \ {Some(u)}], Some(u), v)
           it == CHOOSE g : g = [u \in SUBSET L |-> Body(g, u)]
           Good == {u \in SUBSET L : it[u] \in State /\ Passed(s, it[u], u, v)}
<1>4. \E g : g = [u \in SUBSET L |-> Body(g, u)]
  <2>1. PICK g \in [SUBSET L -> State] : \A u \in SUBSET L : g[u] = FoldOf(L, s, F, g, u)
    BY <1>3 DEF HasFold
  <2>2. \A u \in SUBSET L : g[u] = Body(g, u)
    <3> TAKE u \in SUBSET L
    <3>1. u # {} => Some(u) \in L /\ g[u \ {Some(u)}] \in State
      BY DEF Some
    <3> QED
      BY <2>1, <3>1 DEF FoldOf
  <2> QED
    BY <2>2
<1>5. it = [u \in SUBSET L |-> Body(it, u)]
  BY <1>4
<1>6. {} \in Good
  <2>1. it[{}] = s
    BY <1>5
  <2>2. Passed(s, s, {}, v)
    BY DEF Passed
  <2> HIDE DEF it
  <2> QED
    BY <2>1, <2>2
<1>7. ASSUME NEW u \in SUBSET L, u # {}, u \ {Some(u)} \in Good
      PROVE  u \in Good
  <2>1. Some(u) \in u
    BY <1>7 DEF Some
  <2>2. it[u] = SetLoadValue(it[u \ {Some(u)}], Some(u), v)
    BY <1>5, <1>7
  <2>3. it[u \ {Some(u)}] \in State /\ Passed(s, it[u \ {Some(u)}], u \ {Some(u)}, v)
    BY <1>7
  <2> HIDE DEF it
  <2>4. it[u] \in State /\ Passed(it[u \ {Some(u)}], it[u], {Some(u)}, v)
    BY <2>1, <2>2, <2>3, SetLoadPasses
  <2>5. (u \ {Some(u)}) \cup {Some(u)} = u
    BY <2>1
  <2>6. Passed(s, it[u], u, v)
    BY <2>3, <2>4, <2>5, PassedOn
  <2> QED
    BY <2>4, <2>6
<1>8. L \in Good
  <2> HIDE DEF Good
  <2> QED
    BY <1>1, <1>6, <1>7, FoldInduction
<1>9. FoldSet(LAMBDA load, t : SetLoadValue(t, load, v), s, L) = it[L]
  BY DEF FoldSet, MapThenFoldSet, Some
<1> QED
  BY <1>8, <1>9

LoadsOf(d) == IF net[d] = NoNet THEN {} ELSE Loads(net[d])

LEMMA HandPasses ==
  ASSUME TypeOK, Netlist, NEW s \in State, NEW d \in Outputs, NEW v \in Values
  PROVE  /\ LoadsOf(d) \subseteq Inputs
         /\ HandToLoads(s, d, v) \in State
         /\ Passed(s, HandToLoads(s, d, v), LoadsOf(d), v)
<1>1. LoadsOf(d) \in SUBSET Inputs
  BY DEF LoadsOf, Loads
<1>2. \A p \in LoadsOf(d) : p[1] \in instances
  BY PinFacts DEF LoadsOf, Loads, Netlist
<1>3. HandToLoads(s, d, v) = FoldSet(LAMBDA load, t : SetLoadValue(t, load, v), s, LoadsOf(d))
  BY DEF HandToLoads, LoadsOf
<1> QED
  BY <1>1, <1>2, <1>3, LoadsPass

\* The pins that SetPinValue sets.
Reached(s, p, v) ==
  IF p \in Inputs THEN {p}
  ELSE IF Overruled(p, v) \/ v = s.value[p] THEN {} ELSE {p} \cup LoadsOf(p)

LEMMA SetPinPasses ==
  ASSUME TypeOK, Netlist, NEW s \in State, NEW p \in Pins, p[1] \in instances, NEW v \in Values
  PROVE  /\ SetPinValue(s, p, v) \in State
         /\ Passed(s, SetPinValue(s, p, v), Reached(s, p, v), v)
         /\ ~Overruled(p, v) => SetPinValue(s, p, v).value[p] = v
<1>1. /\ s.value \in [Pins -> Values] /\ s.queue \in Seq(instances) /\ s.annotate \in SUBSET instances
      /\ \A q \in Pins : q[1] \notin instances => s.value[q] = "unknown"
  BY DEF State
<1>2. CASE p \in Inputs
  <2>1. SetPinValue(s, p, v) = SetLoadValue(s, p, v) /\ Reached(s, p, v) = {p}
    BY <1>2 DEF SetPinValue, Reached
  <2>2. SetPinValue(s, p, v) \in State /\ Passed(s, SetPinValue(s, p, v), {p}, v)
    BY <1>2, <2>1, SetLoadPasses
  <2> QED
    BY <2>1, <2>2 DEF Passed
<1>3. CASE p \notin Inputs /\ (Overruled(p, v) \/ v = s.value[p])
  <2>1. SetPinValue(s, p, v) = s /\ Reached(s, p, v) = {}
    BY <1>3 DEF SetPinValue, Reached
  <2> QED
    BY <1>3, <2>1 DEF Passed
<1>4. CASE p \notin Inputs /\ ~Overruled(p, v) /\ v # s.value[p]
  <2> DEFINE t == [s EXCEPT !.value[p] = v, !.annotate = @ \cup {p[1]}]
             r == SetPinValue(s, p, v)
  <2>1. p \in Outputs
    BY <1>4 DEF Pins
  <2>2. s = [value |-> s.value, queue |-> s.queue, annotate |-> s.annotate]
    BY DEF State
  <2>3. /\ t \in [value : [Pins -> Values], queue : Seq(instances), annotate : SUBSET instances]
        /\ t.value = [s.value EXCEPT ![p] = v] /\ t.queue = s.queue
    BY <1>1, <2>2
  <2>4. t \in State /\ t.queue = s.queue
        /\ \A q \in Pins : t.value[q] = IF q = p THEN v ELSE s.value[q]
    BY <1>1, <2>3 DEF State
  <2>5. r = HandToLoads(t, p, v)
    BY <1>4 DEF SetPinValue
  <2> HIDE DEF t, r
  <2>6. r \in State /\ Passed(t, r, LoadsOf(p), v) /\ LoadsOf(p) \subseteq Inputs
    BY <2>1, <2>4, <2>5, HandPasses
  <2>7. Reached(s, p, v) = {p} \cup LoadsOf(p)
    BY <1>4 DEF Reached
  <2>8. Passed(s, r, {p} \cup LoadsOf(p), v)
    BY <1>4, <2>1, <2>4, <2>6, PinFacts DEF Passed
  <2>9. r.value[p] = v
    BY <1>4, <2>8 DEF Passed
  <2> QED
    BY <2>6, <2>7, <2>8, <2>9 DEF r
<1> QED
  BY <1>2, <1>3, <1>4

-----------------------------------------------------------------------------
(* What holds while values are on their way.                               *)

\* What the net of an input gives it.
LoadValue(p, value) ==
  IF net[p] = NoNet THEN "unknown"
  ELSE IF Known(Supply[net[p]]) THEN Supply[net[p]]
  ELSE IF Drivers(net[p]) = {} THEN value[p]
  ELSE value[CHOOSE d \in Drivers(net[p]) : TRUE]

\* But for those in E, loads have the value that their net gives.
LoadsCurrent(value, E) ==
  \A p \in (Unconstrained \cap Inputs) \ E : value[p] = LoadValue(p, value)

\* But for those in X, outputs have the value of their function or their
\* instance is to be evaluated.
OutputsQueued(value, queued, thru, X) ==
  \A p \in (Unconstrained \cap Outputs) \ X :
    value[p] # EvalOutput(p, thru, value) => p[1] \in queued

InForce(value, C) == \A p \in C : Known(case_value[p]) => value[p] = case_value[p]

Settled(s, thru, E, X) ==
  /\ s \in State
  /\ LoadsCurrent(s.value, E)
  /\ OutputsQueued(s.value, Range(s.queue), thru, X)

LEMMA OneDriver ==
  ASSUME Netlist, NEW p \in Inputs, net[p] # NoNet, Drivers(net[p]) # {}
  PROVE  /\ (CHOOSE d \in Drivers(net[p]) : TRUE) \in Drivers(net[p])
         /\ ~Known(Supply[net[p]])
         /\ \A d \in Drivers(net[p]) : /\ d \in Outputs /\ net[d] = net[p] /\ d \in Pins
                                       /\ d = (CHOOSE e \in Drivers(net[p]) : TRUE)
                                       /\ p \in LoadsOf(d)
BY PinFacts DEF Drivers, Netlist, LoadsOf, Loads

LEMMA DriverOf ==
  ASSUME Netlist, NEW d \in Outputs, NEW p \in LoadsOf(d)
  PROVE  /\ p \in Inputs /\ net[p] = net[d] /\ net[p] # NoNet /\ d \in Drivers(net[p])
         /\ \A value : LoadValue(p, value) = value[d]
<1>1. p \in Inputs /\ net[p] = net[d] /\ net[p] # NoNet /\ d \in Drivers(net[p])
  BY DEF LoadsOf, Loads, Drivers
<1> QED
  BY <1>1, OneDriver DEF LoadValue

\* The value of an output depends on the inputs of its instance.
LEMMA SameInputs ==
  ASSUME TypeOK, Netlist, NEW p \in Outputs, NEW thru, NEW a, NEW b,
         \A q \in Inputs : q[1] = p[1] => a[q] = b[q]
  PROVE  EvalOutput(p, thru, a) = EvalOutput(p, thru, b)
<1>1. p[1] \in Instances
  BY PinFacts
<1>2. \A x \in cell[p[1]].ins : a[<<p[1], x>>] = b[<<p[1], x>>]
  BY <1>1, CellTypes, PinFacts
<1> DEFINE i == p[1]
           Having(c, x) == {y \in cell[i].ins : c[<<i, y>>] = x}
<1>3. Having(a, "one") = Having(b, "one") /\ Having(a, "unknown") = Having(b, "unknown")
  BY <1>2
<1>4. \A f : EvalExpr(f, i, a) = EvalExpr(f, i, b)
  <2> TAKE f
  <2> DEFINE Outcomes(ones, free) == {((ones \cup s) \in f) : s \in SUBSET free}
             Value(outcomes) == IF outcomes = {TRUE} THEN "one"
                                ELSE IF outcomes = {FALSE} THEN "zero" ELSE "unknown"
  <2>1. \A c : EvalExpr(f, i, c) = Value(Outcomes(Having(c, "one"), Having(c, "unknown")))
    BY DEF EvalExpr
  <2> HIDE DEF Outcomes, Value, Having, i
  <2> QED
    BY <1>3, <2>1
<1> QED
  BY <1>4 DEF EvalOutput

LEMMA SetPinSettles ==
  ASSUME TypeOK, Netlist, NEW t, NEW thru, NEW E, NEW X, Settled(t, thru, E, X),
         NEW p \in Pins, p[1] \in instances, NEW v \in Values,
         p \in Unconstrained \cap Inputs => v = LoadValue(p, t.value),
         p \in Unconstrained \cap Outputs => v = EvalOutput(p, thru, t.value)
  PROVE  Settled(SetPinValue(t, p, v), thru, E \ {p}, X \ {p})
<1> DEFINE r == SetPinValue(t, p, v)
           R == Reached(t, p, v)
<1>1. /\ r \in State /\ Passed(t, r, R, v)
      /\ ~Overruled(p, v) => r.value[p] = v
  BY SetPinPasses DEF Settled
<1>2. /\ R \cap Outputs \subseteq {p}
      /\ p \in Inputs => R = {p}
      /\ p \in Outputs => R = {} \/ (R = {p} \cup LoadsOf(p) /\ ~Overruled(p, v))
  BY HandPasses, PinFacts DEF Reached, LoadsOf, Loads
<1>3. p \in Inputs \/ p \in Outputs
  BY DEF Pins
<1>4. p \in Unconstrained => r.value[p] = v
  BY <1>1 DEF Unconstrained, Overruled
<1>5. \A q \in Outputs \ {p} : r.value[q] = t.value[q]
  BY <1>1, <1>2, PinFacts DEF Passed
<1> HIDE DEF r, R
<1>6. LoadsCurrent(r.value, E \ {p})
  <2> SUFFICES ASSUME NEW q \in Unconstrained \cap Inputs, q \notin E \ {p}
               PROVE  r.value[q] = LoadValue(q, r.value)
    BY DEF LoadsCurrent
  <2>1. q \in Pins
    BY PinFacts
  <2>2. CASE q = p
    <3>1. R = {p} /\ r.value[q] = v /\ v = LoadValue(q, t.value)
      BY <1>2, <1>4, <2>2
    <3>2. CASE net[q] # NoNet /\ ~Known(Supply[net[q]]) /\ Drivers(net[q]) # {}
      <4> DEFINE d == CHOOSE e \in Drivers(net[q]) : TRUE
      <4>1. d \in Outputs
        BY <3>2, OneDriver DEF Drivers
      <4>2. d # p
        BY <2>2, <4>1, PinFacts
      <4>3. r.value[d] = t.value[d]
        BY <1>5, <4>1, <4>2
      <4> QED
        BY <3>1, <3>2, <4>3 DEF LoadValue
    <3> QED
      BY <3>1, <3>2 DEF LoadValue
  <2>3. CASE q # p
    <3>1. t.value[q] = LoadValue(q, t.value)
      BY <2>3 DEF Settled, LoadsCurrent
    <3>2. CASE q \in R
      <4>1. p \in Outputs /\ R = {p} \cup LoadsOf(p) /\ ~Overruled(p, v) /\ q \in LoadsOf(p)
        BY <1>2, <1>3, <2>3, <3>2
      <4>2. r.value[q] = v
        BY <1>1, <2>1, <3>2 DEF Passed, Unconstrained, Overruled
      <4>3. r.value[p] = v
        BY <1>1, <4>1
      <4>4. LoadValue(q, r.value) = r.value[p]
        BY <4>1, DriverOf
      <4> QED
        BY <4>2, <4>3, <4>4
    <3>3. CASE q \notin R
      <4>1. r.value[q] = t.value[q]
        BY <1>1, <2>1, <3>3 DEF Passed
      <4>2. CASE net[q] # NoNet /\ ~Known(Supply[net[q]]) /\ Drivers(net[q]) # {}
        <5> DEFINE d == CHOOSE e \in Drivers(net[q]) : TRUE
        <5>1. d \in Outputs /\ q \in LoadsOf(d) /\ d \in Pins
          BY <4>2, OneDriver
        <5>2. d \notin R
          BY <1>2, <3>3, <5>1, PinFacts
        <5>3. r.value[d] = t.value[d]
          BY <1>1, <5>1, <5>2 DEF Passed
        <5> QED
          BY <3>1, <4>1, <4>2, <5>3 DEF LoadValue
      <4> QED
        BY <3>1, <4>1, <4>2 DEF LoadValue
    <3> QED
      BY <3>2, <3>3
  <2> QED
    BY <2>2, <2>3
<1>7. OutputsQueued(r.value, Range(r.queue), thru, X \ {p})
  <2> SUFFICES ASSUME NEW q \in Unconstrained \cap Outputs, q \notin X \ {p},
                      q[1] \notin Range(r.queue)
               PROVE  r.value[q] = EvalOutput(q, thru, r.value)
    BY DEF OutputsQueued
  <2>1. \A x \in Inputs : x[1] = q[1] => r.value[x] = t.value[x]
    BY <1>1 DEF Passed
  <2>2. EvalOutput(q, thru, r.value) = EvalOutput(q, thru, t.value)
    BY <2>1, SameInputs
  <2>3. CASE q = p
    BY <1>4, <2>2, <2>3
  <2>4. CASE q # p
    <3>1. r.value[q] = t.value[q]
      BY <1>5, <2>4
    <3>2. q[1] \notin Range(t.queue)
      BY <1>1 DEF Passed
    <3>3. t.value[q] = EvalOutput(q, thru, t.value)
      BY <2>4, <3>2 DEF Settled, OutputsQueued
    <3> QED
      BY <2>2, <3>1, <3>3
  <2> QED
    BY <2>3, <2>4
<1> QED
  BY <1>1, <1>6, <1>7 DEF Settled, r

LEMMA HandSettles ==
  ASSUME TypeOK, Netlist, NEW t, NEW thru, NEW E, NEW X, Settled(t, thru, E, X),
         NEW d \in Outputs
  PROVE  /\ Settled(HandToLoads(t, d, t.value[d]), thru, E \ LoadsOf(d), X)
         /\ \A q \in Outputs : HandToLoads(t, d, t.value[d]).value[q] = t.value[q]
<1> DEFINE v == t.value[d]
           r == HandToLoads(t, d, v)
           R == LoadsOf(d)
<1>1. v \in Values
  BY PinFacts DEF Settled, State
<1>2. r \in State /\ Passed(t, r, R, v) /\ R \subseteq Inputs
  BY <1>1, HandPasses DEF Settled
<1>3. \A q \in Outputs : r.value[q] = t.value[q]
  BY <1>2, PinFacts DEF Passed
<1> HIDE DEF r
<1>4. LoadsCurrent(r.value, E \ R)
  <2> SUFFICES ASSUME NEW q \in Unconstrained \cap Inputs, q \notin E \ R
               PROVE  r.value[q] = LoadValue(q, r.value)
    BY DEF LoadsCurrent
  <2>1. q \in Pins
    BY PinFacts
  <2>2. CASE q \in R
    <3>1. r.value[q] = v
      BY <1>2, <2>1, <2>2 DEF Passed, Unconstrained, Overruled
    <3>2. LoadValue(q, r.value) = r.value[d]
      BY <2>2, DriverOf
    <3> QED
      BY <1>3, <3>1, <3>2
  <2>3. CASE q \notin R
    <3>1. t.value[q] = LoadValue(q, t.value)
      BY <2>3 DEF Settled, LoadsCurrent
    <3>2. r.value[q] = t.value[q]
      BY <1>2, <2>1, <2>3 DEF Passed
    <3>3. CASE net[q] # NoNet /\ ~Known(Supply[net[q]]) /\ Drivers(net[q]) # {}
      <4>1. (CHOOSE e \in Drivers(net[q]) : TRUE) \in Outputs
        BY <3>3, OneDriver
      <4> QED
        BY <1>3, <3>1, <3>2, <3>3, <4>1 DEF LoadValue
    <3> QED
      BY <3>1, <3>2, <3>3 DEF LoadValue
  <2> QED
    BY <2>2, <2>3
<1>5. OutputsQueued(r.value, Range(r.queue), thru, X)
  <2> SUFFICES ASSUME NEW q \in Unconstrained \cap Outputs, q \notin X,
                      q[1] \notin Range(r.queue)
               PROVE  r.value[q] = EvalOutput(q, thru, r.value)
    BY DEF OutputsQueued
  <2>1. \A x \in Inputs : x[1] = q[1] => r.value[x] = t.value[x]
    BY <1>2 DEF Passed
  <2>2. EvalOutput(q, thru, r.value) = EvalOutput(q, thru, t.value)
    BY <2>1, SameInputs
  <2>3. q[1] \notin Range(t.queue)
    BY <1>2 DEF Passed
  <2>4. t.value[q] = EvalOutput(q, thru, t.value)
    BY <2>3 DEF Settled, OutputsQueued
  <2> QED
    BY <1>3, <2>2, <2>4
<1> QED
  BY <1>2, <1>3, <1>4, <1>5 DEF Settled, r

\* A constraint in force stays in force.
LEMMA PassedInForce ==
  ASSUME NEW s, NEW r, NEW L, NEW v, Passed(s, r, L, v), NEW C \in SUBSET Pins,
         InForce(s.value, C)
  PROVE  InForce(r.value, C)
BY DEF Passed, InForce, Overruled

-----------------------------------------------------------------------------
(* The folds of a propagation.  In each lemma s is the state before, and t  *)
(* the one when the pins of u are done.                                     *)

Exist(L) == \A p \in L : p[1] \in instances

\* What every one of them keeps: constraints in force, and outputs that are
\* constant functions.
Keeps(s, t) ==
  /\ InForce(s.value, CasePins) => InForce(t.value, CasePins)
  /\ \A p \in Outputs \ CasePins :
       HasConstFunc(p) /\ s.value[p] = ConstFuncValue(p) => t.value[p] = ConstFuncValue(p)

LEMMA KeepsTwice ==
  ASSUME NEW s, NEW t, NEW r, Keeps(s, t), Keeps(t, r)
  PROVE  Keeps(s, r)
BY DEF Keeps

\* Settled with more exceptions.
LEMMA SettledMore ==
  ASSUME NEW s, NEW thru, NEW E, NEW X, Settled(s, thru, E, X), NEW E2, NEW X2,
         E \subseteq E2, X \subseteq X2
  PROVE  Settled(s, thru, E2, X2)
BY DEF Settled, LoadsCurrent, OutputsQueued

LEMMA ConstFuncEval ==
  ASSUME TypeOK, Netlist, NEW p \in Outputs, HasConstFunc(p)
  PROVE  \A thru, value : EvalOutput(p, thru, value) = ConstFuncValue(p)
<1> DEFINE i == p[1]
           f == cell[i].func[p[2]]
<1>1. i \in Instances /\ p[2] \in DOMAIN cell[i].func /\ f \in {{}, SUBSET cell[i].ins}
  BY PinFacts DEF HasConstFunc
<1>2. ASSUME NEW value PROVE EvalExpr(f, i, value) = ConstFuncValue(p)
  <2> DEFINE ones == {x \in cell[i].ins : value[<<i, x>>] = "one"}
             free == {x \in cell[i].ins : value[<<i, x>>] = "unknown"}
             outcomes == {((ones \cup s) \in f) : s \in SUBSET free}
  <2>1. EvalExpr(f, i, value) = IF outcomes = {TRUE} THEN "one"
                                ELSE IF outcomes = {FALSE} THEN "zero" ELSE "unknown"
    BY DEF EvalExpr
  <2>2. \A s \in SUBSET free : ones \cup s \in SUBSET cell[i].ins
    OBVIOUS
  <2>3. {} \in SUBSET free
    OBVIOUS
  <2>4. CASE f = {}
    <3>1. outcomes = {FALSE}
      <4>1. \A s \in SUBSET free : ((ones \cup s) \in f) = FALSE
        BY <2>4
      <4> HIDE DEF f, ones, free
      <4> QED
        BY <2>3, <4>1
    <3>2. ConstFuncValue(p) = "zero"
      BY <2>4 DEF ConstFuncValue
    <3>3. {FALSE} # {TRUE}
      OBVIOUS
    <3> HIDE DEF outcomes
    <3> QED
      BY <2>1, <3>1, <3>2, <3>3
  <2>5. CASE f # {}
    <3>1. outcomes = {TRUE}
      <4>1. \A s \in SUBSET free : ((ones \cup s) \in f) = TRUE
        BY <1>1, <2>2, <2>5
      <4> HIDE DEF f, ones, free
      <4> QED
        BY <2>3, <4>1
    <3>2. ConstFuncValue(p) = "one"
      BY <2>5 DEF ConstFuncValue
    <3> HIDE DEF outcomes
    <3> QED
      BY <2>1, <3>1, <3>2
  <2> QED
    BY <2>4, <2>5
<1>3. \A thru, value : EvalOutput(p, thru, value) = EvalExpr(f, i, value)
  <2>1. cell[i] \in Cells
    BY <1>1, CellTypes
  <2>2. p[2] \notin DOMAIN cell[i].data
    BY <1>1, <2>1, SimAssumption
  <2> QED
    BY <1>1, <2>2 DEF EvalOutput
<1> QED
  BY <1>2, <1>3

LEMMA SetPinKeeps ==
  ASSUME TypeOK, Netlist, NEW t \in State, NEW p \in Pins, p[1] \in instances, NEW v \in Values,
         p \in Outputs \ CasePins => (HasConstFunc(p) => v = ConstFuncValue(p))
  PROVE  Keeps(t, SetPinValue(t, p, v))
<1>1. Passed(t, SetPinValue(t, p, v), Reached(t, p, v), v)
  BY SetPinPasses
<1>2. \A q \in Outputs : q \in Reached(t, p, v) => q = p
  BY HandPasses, PinFacts DEF Reached, LoadsOf, Loads, Pins
<1>3. InForce(t.value, CasePins) => InForce(SetPinValue(t, p, v).value, CasePins)
  BY <1>1, PassedInForce, SimAssumption
<1>4. ASSUME NEW q \in Outputs \ CasePins, HasConstFunc(q), t.value[q] = ConstFuncValue(q)
      PROVE  SetPinValue(t, p, v).value[q] = ConstFuncValue(q)
  BY <1>1, <1>2, <1>4, PinFacts DEF Passed
<1> QED
  BY <1>3, <1>4 DEF Keeps

\* Supply nets give their value to their loads.
SuppliedDone(s, thru, X, u, t) ==
  /\ \A q \in Outputs : t.value[q] = s.value[q]
  /\ Keeps(s, t)
  /\ Settled(s, thru, Supplied, X) => Settled(t, thru, Supplied \ u, X)

LEMMA SuppliedStep ==
  ASSUME TypeOK, Netlist, NEW s, NEW thru, NEW X, NEW u, NEW t \in State, NEW p \in Supplied
  PROVE  /\ SetPinValue(t, p, Supply[net[p]]) \in State
         /\ SuppliedDone(s, thru, X, u, t) =>
              SuppliedDone(s, thru, X, u \cup {p}, SetPinValue(t, p, Supply[net[p]]))
<1> DEFINE v == Supply[net[p]]
           r == SetPinValue(t, p, v)
<1>1. p \in Inputs /\ p \in Pins /\ p[1] \in instances /\ p \notin Outputs
  BY PinFacts DEF Supplied, Netlist
<1>2. net[p] \in Nets /\ v \in Values /\ v = LoadValue(p, t.value)
  BY <1>1, SimAssumption DEF Supplied, TypeOK, LoadValue
<1>3. r \in State /\ Passed(t, r, {p}, v)
  BY <1>1, <1>2, SetPinPasses DEF Reached
<1>4. Keeps(t, r)
  BY <1>1, <1>2, SetPinKeeps
<1>5. \A q \in Outputs : r.value[q] = t.value[q]
  BY <1>1, <1>3, PinFacts DEF Passed
<1> HIDE DEF v
<1>6. ASSUME Settled(t, thru, Supplied \ u, X)
      PROVE  Settled(r, thru, Supplied \ (u \cup {p}), X)
  <2>1. Settled(r, thru, (Supplied \ u) \ {p}, X \ {p})
    BY <1>1, <1>2, <1>6, SetPinSettles
  <2> HIDE DEF r
  <2> QED
    BY <2>1, SettledMore
<1> HIDE DEF r
<1>7. ASSUME SuppliedDone(s, thru, X, u, t) PROVE SuppliedDone(s, thru, X, u \cup {p}, r)
  BY <1>4, <1>5, <1>6, <1>7, KeepsTwice DEF SuppliedDone
<1> QED
  BY <1>3, <1>7 DEF r, v

LEMMA SuppliedFold ==
  ASSUME TypeOK, Netlist, NEW thru, NEW X, NEW s \in State
  PROVE  SetSupplied(s) \in State /\ SuppliedDone(s, thru, X, Supplied, SetSupplied(s))
<1> DEFINE L == Supplied
<1>0. L \in SUBSET Pins /\ L \subseteq Supplied
  BY PinFacts DEF Supplied
<1> HIDE DEF L
<1> DEFINE F == [xt \in L \X State |-> SetPinValue(xt[2], xt[1], Supply[net[xt[1]]])]
<1>1. \A p \in L : p \in Supplied /\ p \in Pins
  BY <1>0
<1>2. IsFiniteSet(L)
  BY <1>0, PinsFinite, FS_Subset
<1>3. F \in [L \X State -> State]
  BY <1>1, SuppliedStep
<1>4. HasFold(L, s, F, State)
  <2> HIDE DEF F
  <2> QED
    BY <1>2, <1>3, FoldExists
<1> DEFINE Body(g, u) == IF u = {} THEN s ELSE SetPinValue(g[u \ {Some(u)}], Some(u), Supply[net[Some(u)]])
           it == CHOOSE g : g = [u \in SUBSET L |-> Body(g, u)]
           Good == {u \in SUBSET L : it[u] \in State /\ SuppliedDone(s, thru, X, u, it[u])}
<1>5. \E g : g = [u \in SUBSET L |-> Body(g, u)]
  <2>1. PICK g \in [SUBSET L -> State] : \A u \in SUBSET L : g[u] = FoldOf(L, s, F, g, u)
    BY <1>4 DEF HasFold
  <2>2. \A u \in SUBSET L : g[u] = Body(g, u)
    <3> TAKE u \in SUBSET L
    <3>1. u # {} => Some(u) \in L /\ g[u \ {Some(u)}] \in State
      BY DEF Some
    <3> QED
      BY <2>1, <3>1 DEF FoldOf
  <2> QED
    BY <2>2
<1>6. it = [u \in SUBSET L |-> Body(it, u)]
  BY <1>5
<1>7. {} \in Good
  <2>1. it[{}] = s
    BY <1>6
  <2>2. SuppliedDone(s, thru, X, {}, s)
    BY DEF SuppliedDone, Keeps
  <2> HIDE DEF it
  <2> QED
    BY <2>1, <2>2
<1>8. ASSUME NEW u \in SUBSET L, u # {}, u \ {Some(u)} \in Good
      PROVE  u \in Good
  <2>1. /\ Some(u) \in L /\ (u \ {Some(u)}) \cup {Some(u)} = u
        /\ u \ {Some(u)} \in SUBSET Pins
    BY <1>1, <1>8 DEF Some
  <2>2. it[u] = SetPinValue(it[u \ {Some(u)}], Some(u), Supply[net[Some(u)]])
    BY <1>6, <1>8
  <2> HIDE DEF it
  <2>3. it[u \ {Some(u)}] \in State /\ SuppliedDone(s, thru, X, u \ {Some(u)}, it[u \ {Some(u)}])
    BY <1>8
  <2>4. it[u] \in State /\ SuppliedDone(s, thru, X, u, it[u])
    BY <1>1, <2>1, <2>2, <2>3, SuppliedStep
  <2> QED
    BY <2>4
<1>9. L \in Good
  <2> HIDE DEF Good
  <2> QED
    BY <1>2, <1>7, <1>8, FoldInduction
<1>10. SetSupplied(s) = it[L]
  BY DEF SetSupplied, L, FoldSet, MapThenFoldSet, Some
<1> QED
  BY <1>9, <1>10 DEF L

\* Constraints are put in force.
ConstrainedDone(s, thru, E, X, u, t) ==
  /\ InForce(t.value, u)
  /\ Settled(s, thru, E, X) => Settled(t, thru, E, X)

LEMMA ConstrainedStep ==
  ASSUME TypeOK, Netlist, NEW s, NEW thru, NEW E, NEW X, NEW u \in SUBSET Pins, NEW t \in State,
         NEW p \in Constrained
  PROVE  /\ SetPinValue(t, p, case_value[p]) \in State
         /\ ConstrainedDone(s, thru, E, X, u, t) =>
              ConstrainedDone(s, thru, E, X, u \cup {p}, SetPinValue(t, p, case_value[p]))
<1> DEFINE v == case_value[p]
           r == SetPinValue(t, p, v)
<1>1. p \in Pins /\ p[1] \in instances /\ p \notin Unconstrained /\ v \in Values /\ ~Overruled(p, v)
  BY SimAssumption DEF Constrained, Netlist, TypeOK, Known, Unconstrained, Overruled
<1>2. r \in State /\ Passed(t, r, Reached(t, p, v), v) /\ r.value[p] = v
  BY <1>1, SetPinPasses
<1>3. InForce(t.value, u) => InForce(r.value, u \cup {p})
  <2>1. InForce(t.value, u) => InForce(r.value, u)
    BY <1>2, PassedInForce
  <2> HIDE DEF r
  <2> QED
    BY <1>2, <2>1 DEF InForce
<1>4. ASSUME Settled(t, thru, E, X)
      PROVE  Settled(r, thru, E, X)
  <2>1. Settled(r, thru, E \ {p}, X \ {p})
    <3> HIDE DEF v
    <3> QED
      BY <1>1, <1>4, SetPinSettles
  <2> HIDE DEF r
  <2> QED
    BY <2>1, SettledMore
<1> HIDE DEF r
<1>5. ASSUME ConstrainedDone(s, thru, E, X, u, t) PROVE ConstrainedDone(s, thru, E, X, u \cup {p}, r)
  BY <1>3, <1>4, <1>5 DEF ConstrainedDone
<1> QED
  BY <1>2, <1>5 DEF r

LEMMA ConstrainedFold ==
  ASSUME TypeOK, Netlist, NEW thru, NEW E, NEW X, NEW s \in State
  PROVE  /\ SetConstrained(s) \in State
         /\ ConstrainedDone(s, thru, E, X, Constrained, SetConstrained(s))
<1> DEFINE L == Constrained
<1>0. L \in SUBSET Pins /\ L \subseteq Constrained
  BY SimAssumption DEF Constrained
<1> HIDE DEF L
<1> DEFINE F == [xt \in L \X State |-> SetPinValue(xt[2], xt[1], case_value[xt[1]])]
<1>1. \A p \in L : p \in Constrained /\ p \in Pins
  BY <1>0
<1>2. IsFiniteSet(L)
  BY <1>0, PinsFinite, FS_Subset
<1>3. F \in [L \X State -> State]
  BY <1>1, ConstrainedStep
<1>4. HasFold(L, s, F, State)
  <2> HIDE DEF F
  <2> QED
    BY <1>2, <1>3, FoldExists
<1> DEFINE Body(g, u) == IF u = {} THEN s ELSE SetPinValue(g[u \ {Some(u)}], Some(u), case_value[Some(u)])
           it == CHOOSE g : g = [u \in SUBSET L |-> Body(g, u)]
           Good == {u \in SUBSET L : it[u] \in State /\ ConstrainedDone(s, thru, E, X, u, it[u])}
<1>5. \E g : g = [u \in SUBSET L |-> Body(g, u)]
  <2>1. PICK g \in [SUBSET L -> State] : \A u \in SUBSET L : g[u] = FoldOf(L, s, F, g, u)
    BY <1>4 DEF HasFold
  <2>2. \A u \in SUBSET L : g[u] = Body(g, u)
    <3> TAKE u \in SUBSET L
    <3>1. u # {} => Some(u) \in L /\ g[u \ {Some(u)}] \in State
      BY DEF Some
    <3> QED
      BY <2>1, <3>1 DEF FoldOf
  <2> QED
    BY <2>2
<1>6. it = [u \in SUBSET L |-> Body(it, u)]
  BY <1>5
<1>7. {} \in Good
  <2>1. it[{}] = s
    BY <1>6
  <2>2. ConstrainedDone(s, thru, E, X, {}, s)
    BY DEF ConstrainedDone, InForce
  <2> HIDE DEF it
  <2> QED
    BY <2>1, <2>2
<1>8. ASSUME NEW u \in SUBSET L, u # {}, u \ {Some(u)} \in Good
      PROVE  u \in Good
  <2>1. /\ Some(u) \in Constrained /\ (u \ {Some(u)}) \cup {Some(u)} = u
        /\ u \ {Some(u)} \in SUBSET Pins
    BY <1>1, <1>8 DEF Some
  <2>2. it[u] = SetPinValue(it[u \ {Some(u)}], Some(u), case_value[Some(u)])
    BY <1>6, <1>8
  <2> HIDE DEF it
  <2>3. it[u \ {Some(u)}] \in State /\ ConstrainedDone(s, thru, E, X, u \ {Some(u)}, it[u \ {Some(u)}])
    BY <1>8
  <2> DEFINE m == it[u \ {Some(u)}]
             x == Some(u)
             w == u \ {Some(u)}
  <2>4. it[u] \in State /\ ConstrainedDone(s, thru, E, X, u, it[u])
    <3>1. m \in State /\ w \in SUBSET Pins /\ x \in Constrained
          /\ ConstrainedDone(s, thru, E, X, w, m) /\ w \cup {x} = u
      BY <2>1, <2>3
    <3>2. it[u] = SetPinValue(m, x, case_value[x])
      BY <2>2
    <3> HIDE DEF m, x, w
    <3>3. /\ SetPinValue(m, x, case_value[x]) \in State
          /\ ConstrainedDone(s, thru, E, X, w \cup {x}, SetPinValue(m, x, case_value[x]))
      BY <3>1, ConstrainedStep
    <3> QED
      BY <3>1, <3>2, <3>3
  <2> QED
    BY <2>4
<1>9. L \in Good
  <2> HIDE DEF Good
  <2> QED
    BY <1>2, <1>7, <1>8, FoldInduction
<1>10. SetConstrained(s) = it[L]
  BY DEF SetConstrained, L, FoldSet, MapThenFoldSet, Some
<1> QED
  BY <1>9, <1>10 DEF L

\* Outputs of tie cells get their value.
ConstFuncDone(s, thru, E, X, u, t) ==
  /\ Keeps(s, t)
  /\ \A p \in u \ CasePins : HasConstFunc(p) => t.value[p] = ConstFuncValue(p)
  /\ Settled(s, thru, E, X) /\ (\A p \in u : HasConstFunc(p)) => Settled(t, thru, E, X \ u)

LEMMA ConstFuncStep ==
  ASSUME TypeOK, Netlist, NEW s, NEW thru, NEW E, NEW X, NEW u \in SUBSET Outputs, NEW t \in State,
         NEW p \in Outputs, p[1] \in instances
  PROVE  /\ SetPinValue(t, p, ConstFuncValue(p)) \in State
         /\ ConstFuncDone(s, thru, E, X, u, t) =>
              ConstFuncDone(s, thru, E, X, u \cup {p}, SetPinValue(t, p, ConstFuncValue(p)))
<1> DEFINE v == ConstFuncValue(p)
           r == SetPinValue(t, p, v)
<1>1. p \in Pins /\ v \in Values /\ p \notin Inputs
  BY PinFacts, ValueTypes
<1>2. r \in State /\ (~Overruled(p, v) => r.value[p] = v)
  BY <1>1, SetPinPasses
<1>3. Keeps(t, r)
  BY <1>1, SetPinKeeps
<1>4. p \notin CasePins => r.value[p] = v
  BY <1>1, <1>2 DEF Netlist, Overruled
<1>5. HasConstFunc(p) => v = EvalOutput(p, thru, t.value)
  BY ConstFuncEval
<1> HIDE DEF v
<1>6. ASSUME Settled(t, thru, E, X \ u), HasConstFunc(p)
      PROVE  Settled(r, thru, E, X \ (u \cup {p}))
  <2>1. Settled(r, thru, E \ {p}, (X \ u) \ {p})
    BY <1>1, <1>5, <1>6, SetPinSettles
  <2> HIDE DEF r
  <2> QED
    BY <2>1, SettledMore
<1> HIDE DEF r
<1>7. ASSUME ConstFuncDone(s, thru, E, X, u, t) PROVE ConstFuncDone(s, thru, E, X, u \cup {p}, r)
  <2>1. Keeps(s, t) /\ Keeps(s, r)
    BY <1>3, <1>7, KeepsTwice DEF ConstFuncDone
  <2>2. \A q \in (u \cup {p}) \ CasePins : HasConstFunc(q) => r.value[q] = ConstFuncValue(q)
    BY <1>3, <1>4, <1>7 DEF ConstFuncDone, Keeps, v
  <2> QED
    BY <1>6, <1>7, <2>1, <2>2 DEF ConstFuncDone
<1> QED
  BY <1>2, <1>7 DEF r, v

LEMMA ConstFuncFold ==
  ASSUME TypeOK, Netlist, NEW thru, NEW E, NEW X, NEW s \in State,
         NEW L \in SUBSET Outputs, Exist(L)
  PROVE  /\ SetConstFuncPins(s, L) \in State
         /\ ConstFuncDone(s, thru, E, X, L, SetConstFuncPins(s, L))
<1>0. L \in SUBSET Pins
  BY PinFacts
<1> DEFINE F == [xt \in L \X State |-> SetPinValue(xt[2], xt[1], ConstFuncValue(xt[1]))]
<1>1. \A p \in L : p \in Outputs /\ p[1] \in instances
  BY PinFacts DEF Exist
<1>2. IsFiniteSet(L)
  BY <1>0, PinsFinite, FS_Subset
<1>3. F \in [L \X State -> State]
  BY <1>1, ConstFuncStep
<1>4. HasFold(L, s, F, State)
  <2> HIDE DEF F
  <2> QED
    BY <1>2, <1>3, FoldExists
<1> DEFINE Body(g, u) == IF u = {} THEN s ELSE SetPinValue(g[u \ {Some(u)}], Some(u), ConstFuncValue(Some(u)))
           it == CHOOSE g : g = [u \in SUBSET L |-> Body(g, u)]
           Good == {u \in SUBSET L : it[u] \in State /\ ConstFuncDone(s, thru, E, X, u, it[u])}
<1>5. \E g : g = [u \in SUBSET L |-> Body(g, u)]
  <2>1. PICK g \in [SUBSET L -> State] : \A u \in SUBSET L : g[u] = FoldOf(L, s, F, g, u)
    BY <1>4 DEF HasFold
  <2>2. \A u \in SUBSET L : g[u] = Body(g, u)
    <3> TAKE u \in SUBSET L
    <3>1. u # {} => Some(u) \in L /\ g[u \ {Some(u)}] \in State
      BY DEF Some
    <3> QED
      BY <2>1, <3>1 DEF FoldOf
  <2> QED
    BY <2>2
<1>6. it = [u \in SUBSET L |-> Body(it, u)]
  BY <1>5
<1>7. {} \in Good
  <2>1. it[{}] = s
    BY <1>6
  <2>2. ConstFuncDone(s, thru, E, X, {}, s)
    BY DEF ConstFuncDone, Keeps
  <2> HIDE DEF it
  <2> QED
    BY <2>1, <2>2
<1>8. ASSUME NEW u \in SUBSET L, u # {}, u \ {Some(u)} \in Good
      PROVE  u \in Good
  <2>1. /\ Some(u) \in L /\ (u \ {Some(u)}) \cup {Some(u)} = u
        /\ u \ {Some(u)} \in SUBSET Outputs
    BY <1>1, <1>8 DEF Some
  <2>2. it[u] = SetPinValue(it[u \ {Some(u)}], Some(u), ConstFuncValue(Some(u)))
    BY <1>6, <1>8
  <2> HIDE DEF it
  <2>3. it[u \ {Some(u)}] \in State /\ ConstFuncDone(s, thru, E, X, u \ {Some(u)}, it[u \ {Some(u)}])
    BY <1>8
  <2>4. it[u] \in State /\ ConstFuncDone(s, thru, E, X, u, it[u])
    BY <1>1, <2>1, <2>2, <2>3, ConstFuncStep
  <2> QED
    BY <2>4
<1>9. L \in Good
  <2> HIDE DEF Good
  <2> QED
    BY <1>2, <1>7, <1>8, FoldInduction
<1>10. SetConstFuncPins(s, L) = it[L]
  BY DEF SetConstFuncPins, FoldSet, MapThenFoldSet, Some
<1> QED
  BY <1>9, <1>10

\* Loads that were recorded get the value that their net has now.
ToLoadsDone(s, thru, E, X, u, t) ==
  /\ \A q \in Outputs : t.value[q] = s.value[q]
  /\ Keeps(s, t)
  /\ Settled(s, thru, E, X) /\ (\A p \in E : net[p] # NoNet) => Settled(t, thru, E \ u, X)

LEMMA ToLoadStep ==
  ASSUME TypeOK, Netlist, NEW s, NEW thru, NEW E, NEW X, NEW u \in SUBSET Inputs, NEW t \in State,
         NEW p \in Inputs, p[1] \in instances
  PROVE  /\ PropagateToLoad(p, t) \in State
         /\ ToLoadsDone(s, thru, E, X, u, t) =>
              ToLoadsDone(s, thru, E, X, u \cup {p}, PropagateToLoad(p, t))
<1> DEFINE r == PropagateToLoad(p, t)
           v == LoadValue(p, t.value)
<1>1. p \in Pins /\ p \notin Outputs
  BY PinFacts
<1>2. CASE net[p] = NoNet \/ (~Known(Supply[net[p]]) /\ Drivers(net[p]) = {})
  <2>1. r = t
    BY <1>2 DEF PropagateToLoad
  <2>2. ASSUME Settled(t, thru, E \ u, X), \A q \in E : net[q] # NoNet
        PROVE  Settled(t, thru, E \ (u \cup {p}), X)
    <3>1. p \notin E \/ t.value[p] = LoadValue(p, t.value)
      BY <1>2, <2>2 DEF LoadValue
    <3> QED
      BY <2>2, <3>1 DEF Settled, LoadsCurrent
  <2> HIDE DEF r
  <2>3. ToLoadsDone(s, thru, E, X, u, t) => ToLoadsDone(s, thru, E, X, u \cup {p}, t)
    BY <2>2 DEF ToLoadsDone
  <2> QED
    BY <2>1, <2>3 DEF r
<1>3. CASE ~(net[p] = NoNet \/ (~Known(Supply[net[p]]) /\ Drivers(net[p]) = {}))
  <2>1. r = SetPinValue(t, p, v)
    BY <1>3 DEF PropagateToLoad, LoadValue
  <2>2. v \in Values
    <3>1. CASE Known(Supply[net[p]])
      BY <1>1, <1>3, <3>1, SimAssumption DEF LoadValue, TypeOK
    <3>2. CASE ~Known(Supply[net[p]])
      <4>1. (CHOOSE d \in Drivers(net[p]) : TRUE) \in Pins
        BY <1>3, <3>2, OneDriver
      <4> QED
        BY <1>3, <3>2, <4>1 DEF LoadValue, State
    <3> QED
      BY <3>1, <3>2
  <2>3. r \in State /\ Passed(t, r, {p}, v)
    <3>1. Reached(t, p, v) = {p}
      BY DEF Reached
    <3>2. SetPinValue(t, p, v) \in State /\ Passed(t, SetPinValue(t, p, v), Reached(t, p, v), v)
      <4> HIDE DEF v
      <4> QED
        BY <1>1, <2>2, SetPinPasses
    <3> HIDE DEF r, v
    <3> QED
      BY <2>1, <3>1, <3>2
  <2>4. Keeps(t, r)
    BY <1>1, <2>1, <2>2, SetPinKeeps
  <2>5. \A q \in Outputs : r.value[q] = t.value[q]
    BY <1>1, <2>3, PinFacts DEF Passed
  <2>6. ASSUME Settled(t, thru, E \ u, X)
        PROVE  Settled(r, thru, E \ (u \cup {p}), X)
    <3>1. Settled(r, thru, (E \ u) \ {p}, X \ {p})
      BY <1>1, <2>1, <2>2, <2>6, SetPinSettles
    <3> HIDE DEF r
    <3> QED
      BY <3>1, SettledMore
  <2> HIDE DEF r
  <2>7. ASSUME ToLoadsDone(s, thru, E, X, u, t) PROVE ToLoadsDone(s, thru, E, X, u \cup {p}, r)
    BY <2>4, <2>5, <2>6, <2>7, KeepsTwice DEF ToLoadsDone
  <2> QED
    BY <2>3, <2>7 DEF r
<1> QED
  BY <1>2, <1>3

LEMMA ToLoadsFold ==
  ASSUME TypeOK, Netlist, NEW thru, NEW E, NEW X, NEW s \in State,
         invalid_load_pins \subseteq Inputs
  PROVE  /\ PropagateToInvalidLoads(s) \in State
         /\ ToLoadsDone(s, thru, E, X, invalid_load_pins, PropagateToInvalidLoads(s))
<1> DEFINE L == invalid_load_pins
<1>0. L \in SUBSET Pins /\ L \subseteq Inputs /\ \A p \in L : p[1] \in instances
  BY PinFacts DEF TypeOK
<1> HIDE DEF L
<1> DEFINE F == [xt \in L \X State |-> PropagateToLoad(xt[1], xt[2])]
<1>1. \A p \in L : p \in Inputs /\ p[1] \in instances
  BY <1>0
<1>2. IsFiniteSet(L)
  BY <1>0, PinsFinite, FS_Subset
<1>3. F \in [L \X State -> State]
  BY <1>1, ToLoadStep
<1>4. HasFold(L, s, F, State)
  <2> HIDE DEF F
  <2> QED
    BY <1>2, <1>3, FoldExists
<1> DEFINE Body(g, u) == IF u = {} THEN s ELSE PropagateToLoad(Some(u), g[u \ {Some(u)}])
           it == CHOOSE g : g = [u \in SUBSET L |-> Body(g, u)]
           Good == {u \in SUBSET L : it[u] \in State /\ ToLoadsDone(s, thru, E, X, u, it[u])}
<1>5. \E g : g = [u \in SUBSET L |-> Body(g, u)]
  <2>1. PICK g \in [SUBSET L -> State] : \A u \in SUBSET L : g[u] = FoldOf(L, s, F, g, u)
    BY <1>4 DEF HasFold
  <2>2. \A u \in SUBSET L : g[u] = Body(g, u)
    <3> TAKE u \in SUBSET L
    <3>1. u # {} => Some(u) \in L /\ g[u \ {Some(u)}] \in State
      BY DEF Some
    <3> QED
      BY <2>1, <3>1 DEF FoldOf
  <2> QED
    BY <2>2
<1>6. it = [u \in SUBSET L |-> Body(it, u)]
  BY <1>5
<1>7. {} \in Good
  <2>1. it[{}] = s
    BY <1>6
  <2>2. ToLoadsDone(s, thru, E, X, {}, s)
    BY DEF ToLoadsDone, Keeps
  <2> HIDE DEF it
  <2> QED
    BY <2>1, <2>2
<1>8. ASSUME NEW u \in SUBSET L, u # {}, u \ {Some(u)} \in Good
      PROVE  u \in Good
  <2>1. /\ Some(u) \in L /\ (u \ {Some(u)}) \cup {Some(u)} = u
        /\ u \ {Some(u)} \in SUBSET Inputs
    BY <1>1, <1>8 DEF Some
  <2>2. it[u] = PropagateToLoad(Some(u), it[u \ {Some(u)}])
    BY <1>6, <1>8
  <2> HIDE DEF it
  <2>3. it[u \ {Some(u)}] \in State /\ ToLoadsDone(s, thru, E, X, u \ {Some(u)}, it[u \ {Some(u)}])
    BY <1>8
  <2>4. it[u] \in State /\ ToLoadsDone(s, thru, E, X, u, it[u])
    BY <1>1, <2>1, <2>2, <2>3, ToLoadStep
  <2> QED
    BY <2>4
<1>9. L \in Good
  <2> HIDE DEF Good
  <2> QED
    BY <1>2, <1>7, <1>8, FoldInduction
<1>10. PropagateToInvalidLoads(s) = it[L]
  BY DEF PropagateToInvalidLoads, L, FoldSet, MapThenFoldSet, Some
<1> QED
  BY <1>9, <1>10 DEF L

\* Drivers that were recorded hand their value to the loads that they have now.
FromDriversDone(s, thru, E, X, fp, u, t) ==
  /\ \A q \in Outputs : t.value[q] = s.value[q]
  /\ Keeps(s, t)
  /\ Settled(s, thru, E, X) /\ (\A d \in u \cap fp : s.value[d] = ConstFuncValue(d)) =>
       Settled(t, thru, E \ UNION {LoadsOf(d) : d \in u}, X)

LEMMA FromDriverStep ==
  ASSUME TypeOK, Netlist, NEW s, NEW thru, NEW E, NEW X, NEW fp, NEW u \in SUBSET Outputs,
         NEW t \in State, NEW d \in Outputs
  PROVE  /\ PropagateFromDriver(fp, d, t) \in State
         /\ FromDriversDone(s, thru, E, X, fp, u, t) =>
              FromDriversDone(s, thru, E, X, fp, u \cup {d}, PropagateFromDriver(fp, d, t))
<1> DEFINE v == IF d \in fp THEN ConstFuncValue(d) ELSE t.value[d]
           r == PropagateFromDriver(fp, d, t)
<1>1. v \in Values
  BY PinFacts, ValueTypes DEF State
<1>2. r = HandToLoads(t, d, v)
  BY DEF PropagateFromDriver
<1>3. r \in State /\ Passed(t, r, LoadsOf(d), v) /\ LoadsOf(d) \subseteq Inputs
  <2> HIDE DEF v, r
  <2> QED
    BY <1>1, <1>2, HandPasses
<1>4. \A q \in Outputs : r.value[q] = t.value[q]
  <2> HIDE DEF v, r
  <2> QED
    BY <1>3, PinFacts DEF Passed
<1>5. Keeps(t, r)
  <2> HIDE DEF v, r
  <2>1. CasePins \in SUBSET Pins
    BY SimAssumption
  <2>2. InForce(t.value, CasePins) => InForce(r.value, CasePins)
    BY <1>3, <2>1, PassedInForce
  <2> QED
    BY <1>4, <2>2 DEF Keeps
<1>6. ASSUME Settled(t, thru, E \ UNION {LoadsOf(e) : e \in u}, X), v = t.value[d]
      PROVE  Settled(r, thru, E \ UNION {LoadsOf(e) : e \in u \cup {d}}, X)
  <2> HIDE DEF v, r
  <2>1. Settled(r, thru, (E \ UNION {LoadsOf(e) : e \in u}) \ LoadsOf(d), X)
    BY <1>2, <1>6, HandSettles
  <2>2. (E \ UNION {LoadsOf(e) : e \in u}) \ LoadsOf(d) = E \ UNION {LoadsOf(e) : e \in u \cup {d}}
    OBVIOUS
  <2> QED
    BY <2>1, <2>2
<1>7. ASSUME FromDriversDone(s, thru, E, X, fp, u, t)
      PROVE  FromDriversDone(s, thru, E, X, fp, u \cup {d}, r)
  <2>1. Keeps(s, r) /\ \A q \in Outputs : r.value[q] = s.value[q]
    BY <1>4, <1>5, <1>7, KeepsTwice DEF FromDriversDone
  <2>2. ASSUME Settled(s, thru, E, X), \A e \in (u \cup {d}) \cap fp : s.value[e] = ConstFuncValue(e)
        PROVE  Settled(r, thru, E \ UNION {LoadsOf(e) : e \in u \cup {d}}, X)
    <3>1. Settled(t, thru, E \ UNION {LoadsOf(e) : e \in u}, X)
      BY <1>7, <2>2 DEF FromDriversDone
    <3>2. v = t.value[d]
      BY <1>7, <2>2 DEF FromDriversDone
    <3> QED
      BY <1>6, <3>1, <3>2
  <2> HIDE DEF r
  <2> QED
    BY <2>1, <2>2 DEF FromDriversDone
<1> QED
  BY <1>3, <1>7

LEMMA FromDriversFold ==
  ASSUME TypeOK, Netlist, NEW thru, NEW E, NEW X, NEW fp, NEW s \in State,
         invalid_drvr_pins \subseteq Outputs
  PROVE  /\ PropagateFromInvalidDrvrs(fp, s) \in State
         /\ FromDriversDone(s, thru, E, X, fp, invalid_drvr_pins, PropagateFromInvalidDrvrs(fp, s))
<1> DEFINE L == invalid_drvr_pins
<1>0. L \in SUBSET Pins /\ L \subseteq Outputs
  BY PinFacts
<1> HIDE DEF L
<1> DEFINE F == [xt \in L \X State |-> PropagateFromDriver(fp, xt[1], xt[2])]
<1>1. \A p \in L : p \in Outputs
  BY <1>0
<1>2. IsFiniteSet(L)
  BY <1>0, PinsFinite, FS_Subset
<1>3. F \in [L \X State -> State]
  BY <1>1, FromDriverStep
<1>4. HasFold(L, s, F, State)
  <2> HIDE DEF F
  <2> QED
    BY <1>2, <1>3, FoldExists
<1> DEFINE Body(g, u) == IF u = {} THEN s ELSE PropagateFromDriver(fp, Some(u), g[u \ {Some(u)}])
           it == CHOOSE g : g = [u \in SUBSET L |-> Body(g, u)]
           Good == {u \in SUBSET L : it[u] \in State /\ FromDriversDone(s, thru, E, X, fp, u, it[u])}
<1>5. \E g : g = [u \in SUBSET L |-> Body(g, u)]
  <2>1. PICK g \in [SUBSET L -> State] : \A u \in SUBSET L : g[u] = FoldOf(L, s, F, g, u)
    BY <1>4 DEF HasFold
  <2>2. \A u \in SUBSET L : g[u] = Body(g, u)
    <3> TAKE u \in SUBSET L
    <3>1. u # {} => Some(u) \in L /\ g[u \ {Some(u)}] \in State
      BY DEF Some
    <3> QED
      BY <2>1, <3>1 DEF FoldOf
  <2> QED
    BY <2>2
<1>6. it = [u \in SUBSET L |-> Body(it, u)]
  BY <1>5
<1>7. {} \in Good
  <2>1. it[{}] = s
    BY <1>6
  <2>2. FromDriversDone(s, thru, E, X, fp, {}, s)
    BY DEF FromDriversDone, Keeps
  <2> HIDE DEF it
  <2> QED
    BY <2>1, <2>2
<1>8. ASSUME NEW u \in SUBSET L, u # {}, u \ {Some(u)} \in Good
      PROVE  u \in Good
  <2>1. /\ Some(u) \in L /\ (u \ {Some(u)}) \cup {Some(u)} = u
        /\ u \ {Some(u)} \in SUBSET Outputs
    BY <1>1, <1>8 DEF Some
  <2>2. it[u] = PropagateFromDriver(fp, Some(u), it[u \ {Some(u)}])
    BY <1>6, <1>8
  <2> HIDE DEF it
  <2>3. it[u \ {Some(u)}] \in State /\ FromDriversDone(s, thru, E, X, fp, u \ {Some(u)}, it[u \ {Some(u)}])
    BY <1>8
  <2>4. it[u] \in State /\ FromDriversDone(s, thru, E, X, fp, u, it[u])
    BY <1>1, <2>1, <2>2, <2>3, FromDriverStep
  <2> QED
    BY <2>4
<1>9. L \in Good
  <2> HIDE DEF Good
  <2> QED
    BY <1>2, <1>7, <1>8, FoldInduction
<1>10. PropagateFromInvalidDrvrs(fp, s) = it[L]
  BY DEF PropagateFromInvalidDrvrs, L, FoldSet, MapThenFoldSet, Some
<1> QED
  BY <1>9, <1>10 DEF L

\* The outputs of an instance are evaluated.
EvaluatedDone(s, thru, E, X, u, t) ==
  /\ Keeps(s, t)
  /\ Settled(s, thru, E, X) => Settled(t, thru, E, X \ u)

LEMMA EvaluateStep ==
  ASSUME TypeOK, Netlist, NEW s, NEW thru, NEW E, NEW X, NEW u \in SUBSET Outputs,
         NEW t \in State, NEW p \in Outputs, p[1] \in instances
  PROVE  /\ SetPinValue(t, p, EvalOutput(p, thru, t.value)) \in State
         /\ EvaluatedDone(s, thru, E, X, u, t) =>
              EvaluatedDone(s, thru, E, X, u \cup {p}, SetPinValue(t, p, EvalOutput(p, thru, t.value)))
<1> DEFINE v == EvalOutput(p, thru, t.value)
           r == SetPinValue(t, p, v)
<1>1. p \in Pins /\ v \in Values /\ p \notin Inputs
  BY PinFacts, ValueTypes
<1>2. HasConstFunc(p) => v = ConstFuncValue(p)
  BY ConstFuncEval
<1>3. r \in State /\ Keeps(t, r)
  <2> HIDE DEF v
  <2> QED
    BY <1>1, <1>2, SetPinPasses, SetPinKeeps
<1>4. ASSUME Settled(t, thru, E, X \ u) PROVE Settled(r, thru, E, X \ (u \cup {p}))
  <2>1. Settled(r, thru, E \ {p}, (X \ u) \ {p})
    BY <1>1, <1>4, SetPinSettles
  <2> HIDE DEF r, v
  <2> QED
    BY <2>1, SettledMore
<1> HIDE DEF r, v
<1>5. ASSUME EvaluatedDone(s, thru, E, X, u, t) PROVE EvaluatedDone(s, thru, E, X, u \cup {p}, r)
  BY <1>3, <1>4, <1>5, KeepsTwice DEF EvaluatedDone
<1> QED
  BY <1>3, <1>5 DEF r, v

LEMMA EvaluateFold ==
  ASSUME TypeOK, Netlist, NEW thru, NEW E, NEW X, NEW s \in State, NEW i \in instances
  PROVE  /\ Evaluate(s, i, thru) \in State
         /\ EvaluatedDone(s, thru, E, X, PinsOf(i) \cap Outputs, Evaluate(s, i, thru))
<1> DEFINE L == PinsOf(i) \cap Outputs
<1>0. L \in SUBSET Pins /\ L \subseteq Outputs /\ \A p \in L : p[1] \in instances
  BY DEF PinsOf
<1> HIDE DEF L
<1> DEFINE F == [xt \in L \X State |-> SetPinValue(xt[2], xt[1], EvalOutput(xt[1], thru, xt[2].value))]
<1>1. \A p \in L : p \in Outputs /\ p[1] \in instances
  BY <1>0
<1>2. IsFiniteSet(L)
  BY <1>0, PinsFinite, FS_Subset
<1>3. F \in [L \X State -> State]
  BY <1>1, EvaluateStep
<1>4. HasFold(L, s, F, State)
  <2> HIDE DEF F
  <2> QED
    BY <1>2, <1>3, FoldExists
<1> DEFINE Body(g, u) == IF u = {} THEN s ELSE SetPinValue(g[u \ {Some(u)}], Some(u), EvalOutput(Some(u), thru, g[u \ {Some(u)}].value))
           it == CHOOSE g : g = [u \in SUBSET L |-> Body(g, u)]
           Good == {u \in SUBSET L : it[u] \in State /\ EvaluatedDone(s, thru, E, X, u, it[u])}
<1>5. \E g : g = [u \in SUBSET L |-> Body(g, u)]
  <2>1. PICK g \in [SUBSET L -> State] : \A u \in SUBSET L : g[u] = FoldOf(L, s, F, g, u)
    BY <1>4 DEF HasFold
  <2>2. \A u \in SUBSET L : g[u] = Body(g, u)
    <3> TAKE u \in SUBSET L
    <3>1. u # {} => Some(u) \in L /\ g[u \ {Some(u)}] \in State
      BY DEF Some
    <3> QED
      BY <2>1, <3>1 DEF FoldOf
  <2> QED
    BY <2>2
<1>6. it = [u \in SUBSET L |-> Body(it, u)]
  BY <1>5
<1>7. {} \in Good
  <2>1. it[{}] = s
    BY <1>6
  <2>2. EvaluatedDone(s, thru, E, X, {}, s)
    BY DEF EvaluatedDone, Keeps
  <2> HIDE DEF it
  <2> QED
    BY <2>1, <2>2
<1>8. ASSUME NEW u \in SUBSET L, u # {}, u \ {Some(u)} \in Good
      PROVE  u \in Good
  <2>1. /\ Some(u) \in L /\ (u \ {Some(u)}) \cup {Some(u)} = u
        /\ u \ {Some(u)} \in SUBSET Outputs
    BY <1>1, <1>8 DEF Some
  <2>2. it[u] = SetPinValue(it[u \ {Some(u)}], Some(u), EvalOutput(Some(u), thru, it[u \ {Some(u)}].value))
    BY <1>6, <1>8
  <2> HIDE DEF it
  <2>3. it[u \ {Some(u)}] \in State /\ EvaluatedDone(s, thru, E, X, u \ {Some(u)}, it[u \ {Some(u)}])
    BY <1>8
  <2> DEFINE m == it[u \ {Some(u)}]
             x == Some(u)
             w == u \ {Some(u)}
  <2>4. it[u] \in State /\ EvaluatedDone(s, thru, E, X, u, it[u])
    <3>1. m \in State /\ w \in SUBSET Outputs /\ x \in Outputs /\ x[1] \in instances
          /\ EvaluatedDone(s, thru, E, X, w, m) /\ w \cup {x} = u
      BY <1>1, <2>1, <2>3
    <3>2. it[u] = SetPinValue(m, x, EvalOutput(x, thru, m.value))
      BY <2>2
    <3> HIDE DEF m, x, w
    <3>3. /\ SetPinValue(m, x, EvalOutput(x, thru, m.value)) \in State
          /\ EvaluatedDone(s, thru, E, X, w \cup {x}, SetPinValue(m, x, EvalOutput(x, thru, m.value)))
      BY <3>1, EvaluateStep
    <3> QED
      BY <3>1, <3>2, <3>3
  <2> QED
    BY <2>4
<1>9. L \in Good
  <2> HIDE DEF Good
  <2> QED
    BY <1>2, <1>7, <1>8, FoldInduction
<1>10. Evaluate(s, i, thru) = it[L]
  BY DEF Evaluate, L, FoldSet, MapThenFoldSet, Some
<1> QED
  BY <1>9, <1>10 DEF L

-----------------------------------------------------------------------------
(* Tie cells and functions that vary.                                      *)

\* The outputs of tie cells, if cells are replaced by cells of the same
\* functions only.
Ties ==
  {p \in Outputs : /\ p[2] \in DOMAIN InitialCell[p[1]].func
                   /\ InitialCell[p[1]].func[p[2]] \in {{}, SUBSET InitialCell[p[1]].ins}}

FunctionsKept ==
  \A i \in Instances : \A c \in Alternatives[i] :
    c.func = InitialCell[i].func /\ c.data = InitialCell[i].data

\* Tie cells are there from the start, are not deleted, and have no constraint
\* on their outputs.
TiesKept ==
  \A p \in Ties : /\ p[1] \in InitialInstances /\ p \notin CasePins
                  /\ \E q \in PinsOf(p[1]) : EditNets[q] = {}

\* No register loads a constant whatever its inputs are.
DataVaries == \A c \in Cells : \A z \in DOMAIN c.data : c.data[z] \notin {{}, SUBSET c.ins}

LEMMA TieFacts ==
  ASSUME TypeOK, Netlist, FunctionsKept
  PROVE  \A p \in Outputs : HasConstFunc(p) <=> p \in Ties
<1>1. \A i \in Instances : cell[i].func = InitialCell[i].func /\ cell[i].ins = InitialCell[i].ins
  BY CellTypes DEF FunctionsKept
<1> QED
  BY <1>1, PinFacts DEF HasConstFunc, Ties

\* A function of inputs without values has no value, unless it is constant.
LEMMA VaryingUnknown ==
  ASSUME NEW i, NEW f \in SUBSET SUBSET cell[i].ins, f \notin {{}, SUBSET cell[i].ins},
         NEW value, \A x \in cell[i].ins : value[<<i, x>>] = "unknown"
  PROVE  EvalExpr(f, i, value) = "unknown"
<1> DEFINE ones == {x \in cell[i].ins : value[<<i, x>>] = "one"}
           free == {x \in cell[i].ins : value[<<i, x>>] = "unknown"}
           outcomes == {((ones \cup s) \in f) : s \in SUBSET free}
<1>1. EvalExpr(f, i, value) = IF outcomes = {TRUE} THEN "one"
                              ELSE IF outcomes = {FALSE} THEN "zero" ELSE "unknown"
  BY DEF EvalExpr
<1>2. ones = {} /\ free = cell[i].ins
  OBVIOUS
<1>3. PICK s \in SUBSET free : s \in f
  BY <1>2
<1>4. PICK r \in SUBSET free : r \notin f
  BY <1>2
<1>5. (ones \cup s) \in f /\ (ones \cup r) \notin f
  <2>1. ones \cup s = s /\ ones \cup r = r
    BY <1>2
  <2> HIDE DEF ones, free
  <2> QED
    BY <1>3, <1>4, <2>1
<1>6. ((ones \cup s) \in f) \in outcomes /\ ((ones \cup r) \in f) \in outcomes
  BY <1>3, <1>4
<1>7. TRUE \in outcomes /\ FALSE \in outcomes
  <2>1. ((ones \cup s) \in f) = TRUE /\ ((ones \cup r) \in f) = FALSE
    BY <1>5
  <2> HIDE DEF outcomes
  <2> QED
    BY <1>6, <2>1
<1> HIDE DEF outcomes
<1> QED
  BY <1>1, <1>7

LEMMA OutputUnknown ==
  ASSUME TypeOK, Netlist, FunctionsKept, DataVaries, NEW p \in Outputs, p \notin Ties,
         NEW value, \A q \in Inputs : q[1] = p[1] => value[q] = "unknown"
  PROVE  \A thru : EvalOutput(p, thru, value) = "unknown"
<1> DEFINE i == p[1]
<1>1. i \in Instances /\ cell[i] \in Cells /\ ~HasConstFunc(p)
  BY PinFacts, CellTypes, TieFacts
<1>2. \A x \in cell[i].ins : value[<<i, x>>] = "unknown"
  BY <1>1, CellTypes, PinFacts
<1>3. ASSUME p[2] \in DOMAIN cell[i].func
      PROVE  EvalExpr(cell[i].func[p[2]], i, value) = "unknown"
  <2>1. cell[i].func[p[2]] \in SUBSET SUBSET cell[i].ins
    BY <1>1, <1>3, SimAssumption
  <2>2. cell[i].func[p[2]] \notin {{}, SUBSET cell[i].ins}
    BY <1>1, <1>3 DEF HasConstFunc
  <2> HIDE DEF i
  <2> QED
    BY <1>2, <2>1, <2>2, VaryingUnknown
<1>4. ASSUME p[2] \in DOMAIN cell[i].data
      PROVE  EvalExpr(cell[i].data[p[2]], i, value) = "unknown"
  <2>1. cell[i].data[p[2]] \in SUBSET SUBSET cell[i].ins
    BY <1>1, <1>4, SimAssumption
  <2>2. cell[i].data[p[2]] \notin {{}, SUBSET cell[i].ins}
    BY <1>1, <1>4 DEF DataVaries
  <2> HIDE DEF i
  <2> QED
    BY <1>2, <2>1, <2>2, VaryingUnknown
<1> QED
  BY <1>3, <1>4 DEF EvalOutput

\* The sequence of the elements of a finite set.
LEMMA SetToSeqRange ==
  ASSUME NEW S, IsFiniteSet(S)
  PROVE  SetToSeq(S) \in Seq(S) /\ Range(SetToSeq(S)) = S
<1> DEFINE n == Cardinality(S)
           q == SetToSeq(S)
<1>1. n \in Nat
  BY FS_CardinalityType
<1>2. PICK f : f \in Bijection(1..n, S)
  BY FS_CardinalityType DEF ExistsBijection
<1>3. f \in [1..n -> S] /\ IsInjective(f)
  BY <1>2 DEF Bijection, Injection, IsInjective
<1>4. q \in [1..n -> S] /\ IsInjective(q)
  BY <1>3 DEF SetToSeq
<1>5. q \in Seq(S) /\ Range(q) \subseteq S
  BY <1>1, <1>4 DEF Range
<1>6. q \in Bijection(1..n, Range(q))
  BY <1>4 DEF Bijection, Injection, Surjection, IsInjective, Range
<1> HIDE DEF q
<1>7. IsFiniteSet(Range(q)) /\ Cardinality(Range(q)) = n
  <2>1. IsFiniteSet(1..n) /\ Cardinality(1..n) = n
    BY <1>1, FS_Interval
  <2> HIDE DEF n
  <2> QED
    BY <1>6, <2>1, FS_Bijection DEF ExistsBijection
<1> QED
  BY <1>5, <1>7, FS_Subset DEF q

-----------------------------------------------------------------------------
(* What a propagation starts from, and one step of it.                     *)

LEMMA ClearedState ==
  ASSUME TypeOK
  PROVE  Cleared \in State
<1>1. Cleared.value = [p \in Pins |-> "unknown"] /\ Cleared.queue = <<>> /\ Cleared.annotate = {}
      /\ Cleared \in [value : [Pins -> Values], queue : Seq(instances), annotate : SUBSET instances]
  BY DEF Cleared, Values
<1> QED
  BY <1>1 DEF State

LEMMA SeedConstantsState ==
  ASSUME TypeOK, Netlist, NEW fp \in SUBSET Outputs, Exist(fp)
  PROVE  SeedConstants(fp) \in State /\ SetSupplied(SetConstFuncPins(Cleared, fp)) \in State
BY ClearedState, SuppliedFold, ConstrainedFold, ConstFuncFold DEF SeedConstants

\* No value is known at first: that is right but for the loads of supply nets
\* and tie cells.
LEMMA ClearedSettled ==
  ASSUME TypeOK, Netlist, FunctionsKept, DataVaries
  PROVE  \A thru : Settled(Cleared, thru, Supplied, Ties)
<1>1. \A p \in Pins : Cleared.value[p] = "unknown"
  BY DEF Cleared
<1>2. LoadsCurrent(Cleared.value, Supplied)
  <2>1. SUFFICES ASSUME NEW p \in Inputs, p \notin Supplied
                 PROVE  LoadValue(p, Cleared.value) = "unknown"
    BY <1>1, PinFacts DEF LoadsCurrent
  <2>2. net[p] # NoNet => ~Known(Supply[net[p]])
    BY <2>1 DEF Supplied
  <2>3. net[p] # NoNet /\ Drivers(net[p]) # {} => (CHOOSE d \in Drivers(net[p]) : TRUE) \in Pins
    BY OneDriver
  <2> QED
    BY <1>1, <2>2, <2>3, PinFacts DEF LoadValue
<1>3. ASSUME NEW thru PROVE OutputsQueued(Cleared.value, Range(Cleared.queue), thru, Ties)
  <2>1. SUFFICES ASSUME NEW p \in Outputs, p \notin Ties
                 PROVE  EvalOutput(p, thru, Cleared.value) = "unknown"
    BY <1>1, PinFacts DEF OutputsQueued
  <2> QED
    BY <1>1, <2>1, OutputUnknown, PinFacts
<1> QED
  BY <1>2, <1>3, ClearedState DEF Settled

LEMMA SeedConstantsSettles ==
  ASSUME TypeOK, Netlist, FunctionsKept, TiesKept, DataVaries, Exist(Ties)
  PROVE  /\ Settled(SeedConstants(Ties), FALSE, {}, {})
         /\ InForce(SeedConstants(Ties).value, CasePins)
         /\ \A p \in Ties : SeedConstants(Ties).value[p] = ConstFuncValue(p)
<1> DEFINE s1 == SetSupplied(Cleared)
           s2 == SetConstrained(s1)
           s3 == SetConstFuncPins(s2, Ties)
<1>1. Ties \in SUBSET Outputs /\ \A p \in Ties : p \notin CasePins /\ HasConstFunc(p)
  BY TieFacts DEF Ties, TiesKept
<1>2. s1 \in State /\ SuppliedDone(Cleared, FALSE, Ties, Supplied, s1)
  BY ClearedState, SuppliedFold
<1> HIDE DEF s1
<1>3. s2 \in State /\ ConstrainedDone(s1, FALSE, {}, Ties, Constrained, s2)
  BY <1>2, ConstrainedFold
<1> HIDE DEF s2
<1>4. s3 \in State /\ ConstFuncDone(s2, FALSE, {}, Ties, Ties, s3)
  BY <1>1, <1>3, ConstFuncFold
<1>5. SeedConstants(Ties) = s3
  BY DEF SeedConstants, s1, s2
<1> HIDE DEF s3
<1>6. Settled(s1, FALSE, {}, Ties)
  <2>1. Supplied \ Supplied = {}
    OBVIOUS
  <2> QED
    BY <1>2, <2>1, ClearedSettled DEF SuppliedDone
<1>7. Settled(s2, FALSE, {}, Ties) /\ InForce(s2.value, Constrained)
  BY <1>3, <1>6 DEF ConstrainedDone
<1>8. InForce(s2.value, CasePins)
  BY <1>7 DEF InForce, Constrained
<1>9. Settled(s3, FALSE, {}, Ties \ Ties) /\ InForce(s3.value, CasePins)
  BY <1>1, <1>4, <1>7, <1>8 DEF ConstFuncDone, Keeps
<1>10. Ties \ Ties = {}
  OBVIOUS
<1>11. \A p \in Ties : s3.value[p] = ConstFuncValue(p)
  BY <1>1, <1>4 DEF ConstFuncDone
<1> QED
  BY <1>5, <1>9, <1>10, <1>11

LEMMA SeedLogicSettles ==
  ASSUME TypeOK, Netlist, FunctionsKept, TiesKept, DataVaries, Exist(Ties)
  PROVE  /\ Settled(SetSupplied(SetConstFuncPins(Cleared, Ties)), TRUE, {}, {})
         /\ \A p \in Ties :
              SetSupplied(SetConstFuncPins(Cleared, Ties)).value[p] = ConstFuncValue(p)
<1> DEFINE s1 == SetConstFuncPins(Cleared, Ties)
           s2 == SetSupplied(s1)
<1>1. Ties \in SUBSET Outputs /\ \A p \in Ties : p \notin CasePins /\ HasConstFunc(p)
  BY TieFacts DEF Ties, TiesKept
<1>2. s1 \in State /\ ConstFuncDone(Cleared, TRUE, Supplied, Ties, Ties, s1)
  BY <1>1, ClearedState, ConstFuncFold
<1> HIDE DEF s1
<1>3. s2 \in State /\ SuppliedDone(s1, TRUE, {}, Supplied, s2)
  BY <1>2, SuppliedFold
<1> HIDE DEF s2
<1>4. Ties \ Ties = {} /\ Supplied \ Supplied = {}
  OBVIOUS
<1>5. Settled(s1, TRUE, Supplied, {})
  BY <1>1, <1>2, <1>4, ClearedSettled DEF ConstFuncDone
<1>6. Settled(s2, TRUE, {}, {})
  BY <1>3, <1>4, <1>5 DEF SuppliedDone
<1>7. \A p \in Ties : s2.value[p] = ConstFuncValue(p)
  BY <1>1, <1>2, <1>3 DEF ConstFuncDone, SuppliedDone
<1> QED
  BY <1>6, <1>7 DEF s2, s1

LEMMA EvaluateSettles ==
  ASSUME TypeOK, Netlist, NEW s \in State, NEW i \in instances, NEW thru
  PROVE  /\ Evaluate(s, i, thru) \in State
         /\ Keeps(s, Evaluate(s, i, thru))
         /\ Settled(s, thru, {}, PinsOf(i) \cap Outputs) => Settled(Evaluate(s, i, thru), thru, {}, {})
<1>1. /\ Evaluate(s, i, thru) \in State
      /\ EvaluatedDone(s, thru, {}, PinsOf(i) \cap Outputs, PinsOf(i) \cap Outputs,
                       Evaluate(s, i, thru))
  BY EvaluateFold
<1>2. (PinsOf(i) \cap Outputs) \ (PinsOf(i) \cap Outputs) = {}
  OBVIOUS
<1> QED
  BY <1>1, <1>2 DEF EvaluatedDone

-----------------------------------------------------------------------------
(* Types, and what is never recorded of pins and instances that do not     *)
(* exist.                                                                  *)

Wellformed ==
  /\ TypeOK /\ Netlist
  /\ \A p \in Pins : p[1] \notin instances => sim_value[p] = "unknown"
  /\ const_func_pins \cup invalid_drvr_pins \subseteq Outputs
  /\ invalid_load_pins \subseteq Inputs
  /\ instances_to_annotate \subseteq instances
  /\ pc = "idle" => instances_to_annotate = {}

LEMMA StateOf ==
  ASSUME Wellformed, NEW q \in Seq(instances), NEW a \in SUBSET instances
  PROVE  [value |-> sim_value, queue |-> q, annotate |-> a] \in State
<1> DEFINE s == [value |-> sim_value, queue |-> q, annotate |-> a]
<1>1. s.value = sim_value /\ sim_value \in [Pins -> Values]
  BY DEF Wellformed, TypeOK
<1>2. s \in [value : [Pins -> Values], queue : Seq(instances), annotate : SUBSET instances]
  BY <1>1
<1> HIDE DEF s
<1>3. s \in State
  BY <1>1, <1>2 DEF State, Wellformed
<1> QED
  BY <1>3 DEF s

\* What an incremental propagation starts from.
Invalidated == [value |-> sim_value, queue |-> SetToSeq(invalid_insts), annotate |-> {}]

LEMMA InvalidatedState ==
  ASSUME Wellformed
  PROVE  /\ Invalidated \in State /\ Invalidated.value = sim_value
         /\ Range(Invalidated.queue) = invalid_insts
<1>1. invalid_insts \subseteq instances /\ IsFiniteSet(invalid_insts)
  BY SimAssumption, FS_Subset DEF Wellformed, TypeOK
<1>2. SetToSeq(invalid_insts) \in Seq(invalid_insts) /\ Range(SetToSeq(invalid_insts)) = invalid_insts
  BY <1>1, SetToSeqRange
<1>3. SetToSeq(invalid_insts) \in Seq(instances)
  BY <1>1, <1>2
<1> QED
  BY <1>2, <1>3, StateOf DEF Invalidated

LEMMA SeedInvalidState ==
  ASSUME Wellformed, NEW fp
  PROVE  SeedInvalid(fp) \in State
<1>1. TypeOK /\ Netlist /\ invalid_load_pins \subseteq Inputs /\ invalid_drvr_pins \subseteq Outputs
  BY DEF Wellformed
<1>2. SeedInvalid(fp) = PropagateFromInvalidDrvrs(fp, PropagateToInvalidLoads(Invalidated))
  BY DEF SeedInvalid, Invalidated
<1>3. PropagateToInvalidLoads(Invalidated) \in State
  BY <1>1, InvalidatedState, ToLoadsFold
<1> QED
  BY <1>1, <1>2, <1>3, FromDriversFold

\* The loads whose value an edit may have made wrong.
StaleLoads ==
  {p \in Inputs : /\ net[p] # NoNet
                  /\ p \in invalid_load_pins \/ Drivers(net[p]) \cap invalid_drvr_pins # {}}

LEMMA SeedInvalidSettles ==
  ASSUME Wellformed, FunctionsKept,
         LoadsCurrent(sim_value, StaleLoads), OutputsQueued(sim_value, invalid_insts, FALSE, {}),
         InForce(sim_value, CasePins), TiesKept,
         \A p \in Ties : sim_value[p] = ConstFuncValue(p)
  PROVE  /\ Settled(SeedInvalid(Ties), FALSE, {}, {})
         /\ InForce(SeedInvalid(Ties).value, CasePins)
         /\ \A p \in Ties : SeedInvalid(Ties).value[p] = ConstFuncValue(p)
<1> DEFINE s1 == Invalidated
           s2 == PropagateToInvalidLoads(s1)
           s3 == PropagateFromInvalidDrvrs(Ties, s2)
<1>1. /\ TypeOK /\ Netlist /\ invalid_load_pins \subseteq Inputs
      /\ invalid_drvr_pins \subseteq Outputs /\ Ties \subseteq Outputs
  BY DEF Wellformed, Ties
<1>2. SeedInvalid(Ties) = s3
  BY DEF SeedInvalid, Invalidated
<1>3. s1 \in State /\ s1.value = sim_value /\ Range(s1.queue) = invalid_insts
  BY InvalidatedState
<1> HIDE DEF s1
<1>4. Settled(s1, FALSE, StaleLoads, {})
  BY <1>3 DEF Settled
<1>5. s2 \in State /\ ToLoadsDone(s1, FALSE, StaleLoads, {}, invalid_load_pins, s2)
  BY <1>1, <1>3, ToLoadsFold
<1> HIDE DEF s2
<1>6. /\ s3 \in State
      /\ FromDriversDone(s2, FALSE, StaleLoads \ invalid_load_pins, {}, Ties, invalid_drvr_pins, s3)
  BY <1>1, <1>5, FromDriversFold
<1> HIDE DEF s3
<1>7. Settled(s2, FALSE, StaleLoads \ invalid_load_pins, {})
  BY <1>4, <1>5 DEF ToLoadsDone, StaleLoads
<1>8. \A p \in Ties : s2.value[p] = ConstFuncValue(p) /\ s3.value[p] = ConstFuncValue(p)
  BY <1>1, <1>3, <1>5, <1>6 DEF ToLoadsDone, FromDriversDone
<1> DEFINE handed == UNION {LoadsOf(d) : d \in invalid_drvr_pins}
<1>9. (StaleLoads \ invalid_load_pins) \ handed = {}
  <2>1. ASSUME NEW p \in StaleLoads, p \notin invalid_load_pins PROVE p \in handed
    <3>1. PICK d \in Drivers(net[p]) : d \in invalid_drvr_pins
      BY <2>1 DEF StaleLoads
    <3>2. p \in LoadsOf(d)
      BY <2>1, <3>1 DEF StaleLoads, Drivers, LoadsOf, Loads
    <3> QED
      BY <3>1, <3>2
  <2> QED
    BY <2>1
<1>10. Settled(s3, FALSE, (StaleLoads \ invalid_load_pins) \ handed, {})
  BY <1>6, <1>7, <1>8 DEF FromDriversDone
<1>11. InForce(s3.value, CasePins)
  BY <1>3, <1>5, <1>6 DEF ToLoadsDone, FromDriversDone, Keeps
<1> HIDE DEF handed
<1> QED
  BY <1>2, <1>8, <1>9, <1>10, <1>11

-----------------------------------------------------------------------------
(* Every step keeps the types.                                             *)

LEMMA ConstFuncPinsExist ==
  \A S : ConstFuncPins(S) \subseteq Outputs /\ Exist(ConstFuncPins(S))
BY DEF ConstFuncPins, Exist

Senses == {"unknown", "none", "positive_unate", "negative_unate", "non_unate"}

LEMMA EdgeTypes ==
  ASSUME TypeOK, Netlist
  PROVE  /\ \A i \in Instances : EdgesOf(i) \subseteq Edges
         /\ \A e, value : EdgeSense(e, value) \in Senses
<1>1. \A i \in Instances : EdgesOf(i) \subseteq Edges
  BY CellTypes DEF EdgesOf, Edges
<1>2. \A f, i, x, value : FunctionSense(f, i, x, value) \in Senses
  <2> TAKE f, i, x, value
  <2> DEFINE ones == {y \in cell[i].ins : value[<<i, y>>] = "one"}
             free == {y \in cell[i].ins \ {x} : value[<<i, y>>] = "unknown"}
             increasing == \A s \in SUBSET free : ones \cup s \in f => ones \cup s \cup {x} \in f
             decreasing == \A s \in SUBSET free : ones \cup s \cup {x} \in f => ones \cup s \in f
  <2>1. FunctionSense(f, i, x, value) =
          CASE Known(value[<<i, x>>]) -> "none"
            [] ~HasPort(f, i, x) -> "unknown"
            [] increasing /\ decreasing -> "none"
            [] increasing /\ ~decreasing -> "positive_unate"
            [] decreasing /\ ~increasing -> "negative_unate"
            [] OTHER -> "non_unate"
    BY DEF FunctionSense
  <2> HIDE DEF increasing, decreasing
  <2> QED
    BY <2>1 DEF Senses
<1>3. \A e, value : EdgeSense(e, value) \in Senses
  BY <1>2 DEF EdgeSense, Senses
<1> QED
  BY <1>1, <1>3

LEMMA InitWellformed == Init => Wellformed
<1> SUFFICES ASSUME Init PROVE Wellformed
  OBVIOUS
<1> USE DEF Init
<1>1. TypeOK
  <2>1. <<>> \in Seq(instances) /\ "unknown" \in Values
    BY DEF Values
  <2> QED
    BY <2>1, SimAssumption DEF TypeOK
<1>2. Netlist
  <2>1. \A p \in Pins : case_value[p] = "unknown"
    OBVIOUS
  <2> QED
    BY <2>1, SimAssumption DEF Netlist, Known
<1> QED
  BY <1>1, <1>2 DEF Wellformed

LEMMA StateTypes ==
  ASSUME NEW s \in State
  PROVE  /\ s.value \in [Pins -> Values] /\ s.queue \in Seq(instances)
         /\ s.annotate \subseteq instances
         /\ \A p \in Pins : p[1] \notin instances => s.value[p] = "unknown"
BY DEF State

LEMMA EnsuredPins ==
  ASSUME Wellformed, EnsureConstantFuncPins
  PROVE  const_func_pins' \in SUBSET Outputs /\ Exist(const_func_pins')
BY ConstFuncPinsExist DEF Wellformed, TypeOK, EnsureConstantFuncPins, Exist

LEMMA NetlistKept == Netlist /\ UNCHANGED <<netVars, case_value>> => Netlist'
BY DEF Netlist, netVars

LEMMA FromScratchWellformed ==
  ASSUME Wellformed, EnsureFromScratch
  PROVE  Wellformed'
<1> DEFINE s == SeedConstants(const_func_pins')
<1>1. s \in State /\ const_func_pins' \in SUBSET Outputs /\ Exist(const_func_pins')
  <2>1. const_func_pins' \in SUBSET Outputs /\ Exist(const_func_pins')
    BY EnsuredPins DEF EnsureFromScratch
  <2> QED
    BY <2>1, SeedConstantsState DEF Wellformed
<1>2. sim_value' = s.value /\ eval_queue' = s.queue /\ instances_to_annotate' = s.annotate
  BY DEF EnsureFromScratch, Seed
<1> HIDE DEF s
<1>3. Netlist'
  BY NetlistKept DEF EnsureFromScratch, Wellformed
<1>4. TypeOK'
  <2>1. instances' = instances /\ pc' = "propagate"
    BY DEF EnsureFromScratch, netVars
  <2>2. {p[1] : p \in const_func_pins'} \subseteq instances
    BY <1>1 DEF Exist
  <2> QED
    BY <1>1, <1>2, <2>1, <2>2, StateTypes
    DEF EnsureFromScratch, Wellformed, TypeOK, netVars, validVars
<1> QED
  BY <1>1, <1>2, <1>3, <1>4, StateTypes DEF EnsureFromScratch, Wellformed, netVars

LEMMA IncrementalWellformed ==
  ASSUME Wellformed, EnsureIncremental
  PROVE  Wellformed'
<1> DEFINE s == SeedInvalid(const_func_pins')
<1>1. s \in State /\ const_func_pins' \in SUBSET Outputs /\ Exist(const_func_pins')
  <2>1. const_func_pins' \in SUBSET Outputs /\ Exist(const_func_pins')
    BY EnsuredPins DEF EnsureIncremental
  <2> QED
    BY <2>1, SeedInvalidState
<1>2. sim_value' = s.value /\ eval_queue' = s.queue /\ instances_to_annotate' = s.annotate
  BY DEF EnsureIncremental, Seed
<1> HIDE DEF s
<1>3. Netlist'
  BY NetlistKept DEF EnsureIncremental, Wellformed
<1>4. TypeOK'
  <2>1. instances' = instances /\ pc' = "propagate"
    BY DEF EnsureIncremental, netVars
  <2>2. {p[1] : p \in const_func_pins'} \subseteq instances
    BY <1>1 DEF Exist
  <2> QED
    BY <1>1, <1>2, <2>1, <2>2, StateTypes
    DEF EnsureIncremental, Wellformed, TypeOK, netVars, validVars, edgeVars
<1> QED
  BY <1>1, <1>2, <1>3, <1>4, StateTypes DEF EnsureIncremental, Wellformed, netVars

\* Evaluating the instance at the head of the queue.
Evaluating ==
  [value |-> sim_value, queue |-> Popped, annotate |-> instances_to_annotate]

LEMMA EvaluatingState ==
  ASSUME Wellformed, eval_queue # <<>>
  PROVE  /\ Evaluating \in State /\ Evaluating.value = sim_value /\ Head(eval_queue) \in instances
         /\ Range(eval_queue) \subseteq {Head(eval_queue)} \cup Range(Evaluating.queue)
<1>1. eval_queue \in Seq(instances) /\ instances_to_annotate \in SUBSET instances
  BY DEF Wellformed, TypeOK
<1>2. /\ Tail(eval_queue) \in Seq(instances) /\ Head(eval_queue) = eval_queue[1]
      /\ Len(eval_queue) \in Nat /\ 1 \in 1..Len(eval_queue)
      /\ Len(Tail(eval_queue)) = Len(eval_queue) - 1
  BY <1>1
<1>3. Head(eval_queue) \in instances
  BY <1>1, <1>2
<1>4. \A k \in DOMAIN eval_queue :
        eval_queue[k] = Head(eval_queue) \/ eval_queue[k] \in Range(Tail(eval_queue))
  <2> TAKE k \in DOMAIN eval_queue
  <2>1. CASE k = 1
    BY <1>2, <2>1
  <2>2. CASE k # 1
    <3>1. k \in 1..Len(eval_queue) /\ DOMAIN Tail(eval_queue) = 1..(Len(eval_queue) - 1)
      BY <1>1, <1>2
    <3>2. k - 1 \in DOMAIN Tail(eval_queue) /\ Tail(eval_queue)[k - 1] = eval_queue[k]
      BY <1>1, <1>2, <2>2, <3>1
    <3> QED
      BY <3>2 DEF Range
  <2> QED
    BY <2>1, <2>2
<1>5. Evaluating.queue = Tail(eval_queue) /\ Evaluating.value = sim_value
  BY DEF Evaluating, Popped
<1>6. Range(eval_queue) \subseteq {Head(eval_queue)} \cup Range(Tail(eval_queue))
  BY <1>4 DEF Range
<1> QED
  BY <1>1, <1>2, <1>3, <1>5, <1>6, StateOf DEF Evaluating, Popped

LEMMA EvalInstanceWellformed ==
  ASSUME Wellformed, EvalInstance
  PROVE  Wellformed'
<1> DEFINE s == Evaluate(Evaluating, Head(eval_queue), pc = "logic")
<1>1. s \in State
  BY EvaluatingState, EvaluateSettles DEF Wellformed, EvalInstance
<1>2. sim_value' = s.value /\ eval_queue' = s.queue /\ instances_to_annotate' = s.annotate
  BY DEF EvalInstance, Seed, Evaluating
<1> HIDE DEF s
<1>3. Netlist'
  BY NetlistKept DEF EvalInstance, Wellformed
<1>4. pc # "idle"
  BY DEF EvalInstance, Wellformed, TypeOK
<1>5. TypeOK'
  BY <1>1, <1>2, <1>4, StateTypes
  DEF EvalInstance, Wellformed, TypeOK, netVars, validVars, edgeVars, funcVars, invalidVars
<1> QED
  BY <1>1, <1>2, <1>3, <1>4, <1>5, StateTypes
  DEF EvalInstance, Wellformed, netVars, funcVars, invalidVars

LEMMA FindDisabledWellformed ==
  ASSUME Wellformed, FindDisabledEdges
  PROVE  Wellformed'
<1> DEFINE annotated == UNION {EdgesOf(i) : i \in instances_to_annotate}
<1>1. TypeOK /\ Netlist
  BY DEF Wellformed
<1>2. annotated \subseteq Edges
  BY <1>1, EdgeTypes DEF Wellformed, TypeOK
<1>3. timing_sense' \in [Edges -> Senses]
  BY <1>1, EdgeTypes DEF FindDisabledEdges, TypeOK, Senses
<1>4. disabled_cond' \subseteq Edges
  <2>1. disabled_cond' = (disabled_cond \ annotated)
                           \cup {e \in annotated : IsDisabledCond(e, sim_value)}
    BY DEF FindDisabledEdges
  <2> HIDE DEF annotated
  <2> QED
    BY <1>1, <1>2, <2>1 DEF TypeOK
<1>5. Netlist'
  BY <1>1, NetlistKept DEF FindDisabledEdges
<1>6. TypeOK'
  BY <1>1, <1>3, <1>4 DEF FindDisabledEdges, TypeOK, netVars, funcVars, invalidVars, Senses
<1> QED
  BY <1>5, <1>6 DEF FindDisabledEdges, Wellformed, netVars, funcVars, invalidVars

LEMMA FindLogicWellformed ==
  ASSUME Wellformed, FindLogicConstants
  PROVE  Wellformed'
<1> DEFINE s == SetSupplied(SetConstFuncPins(Cleared, ConstFuncPins(Pins)))
<1>1. /\ s \in State /\ const_func_pins' = ConstFuncPins(Pins)
      /\ ConstFuncPins(Pins) \subseteq Outputs /\ Exist(ConstFuncPins(Pins))
  BY SeedConstantsState, ConstFuncPinsExist DEF Wellformed, FindLogicConstants
<1>2. sim_value' = s.value /\ eval_queue' = s.queue /\ instances_to_annotate' = s.annotate
  BY DEF FindLogicConstants, Seed
<1> HIDE DEF s
<1>3. Netlist'
  BY NetlistKept DEF FindLogicConstants, Wellformed
<1>4. TypeOK'
  <2>1. {p[1] : p \in const_func_pins'} \subseteq instances
    BY <1>1 DEF Exist
  <2> QED
    BY <1>1, <1>2, <2>1, StateTypes DEF FindLogicConstants, Clear, Wellformed, TypeOK, netVars
<1> QED
  BY <1>1, <1>2, <1>3, <1>4, StateTypes DEF FindLogicConstants, Clear, Wellformed, netVars

LEMMA ClearLogicWellformed ==
  ASSUME Wellformed, ClearLogicConstants
  PROVE  Wellformed'
<1>1. Netlist'
  BY NetlistKept DEF ClearLogicConstants, Wellformed
<1>2. TypeOK'
  BY DEF ClearLogicConstants, Clear, Wellformed, TypeOK, netVars, Values
<1> QED
  BY <1>1, <1>2 DEF ClearLogicConstants, Clear, Wellformed, netVars

LEMMA CaseAnalysisWellformed ==
  ASSUME Wellformed, NEW p \in CasePins, NEW v \in Values, SetCaseAnalysis(p, v)
  PROVE  Wellformed'
<1>1. case_value' = [case_value EXCEPT ![p] = v] /\ p \in Pins /\ p[1] \in instances
      /\ UNCHANGED <<instances, cell, net, sim_value, edgeVars, const_func_pins, invalidVars,
                     evalVars, const_func_pins_valid, pc>>
  BY SimAssumption DEF SetCaseAnalysis, Edit, netVars
<1>2. Netlist'
  BY <1>1 DEF Wellformed, TypeOK, Netlist
<1>3. TypeOK'
  BY <1>1 DEF SetCaseAnalysis, Wellformed, TypeOK, edgeVars, invalidVars, evalVars
<1> QED
  BY <1>1, <1>2, <1>3 DEF Wellformed, invalidVars, evalVars

LEMMA ConnectWellformed ==
  ASSUME Wellformed, NEW p \in Pins, NEW n \in Nets, ConnectPin(p, n)
  PROVE  Wellformed'
<1>1. /\ pc = "idle" /\ p[1] \in instances /\ net[p] = NoNet
      /\ p \in Outputs => Drivers(n) = {} /\ ~Known(Supply[n])
      /\ net' = [net EXCEPT ![p] = n]
      /\ UNCHANGED <<instances, cell, case_value, sim_value, timing_sense, disabled_cond, incremental,
                     invalid_insts, eval_queue, instances_to_annotate, const_func_pins_valid, pc>>
      /\ const_func_pins' \in {const_func_pins, const_func_pins \cup ConstFuncPins({p})}
      /\ invalid_load_pins' \in {invalid_load_pins, invalid_load_pins \cup InvalidLoads(p)}
      /\ invalid_drvr_pins' \in {invalid_drvr_pins, invalid_drvr_pins \cup ({p} \cap Outputs)}
      /\ valid' \in {valid, FALSE}
  BY DEF ConnectPin, Edit, evalVars, edgeVars
<1>2. /\ const_func_pins' \subseteq const_func_pins \cup {p} /\ invalid_load_pins' \subseteq invalid_load_pins \cup {p}
      /\ invalid_drvr_pins' \subseteq invalid_drvr_pins \cup {p}
      /\ const_func_pins' \subseteq Outputs /\ invalid_load_pins' \subseteq Inputs
      /\ invalid_drvr_pins' \subseteq Outputs
  BY <1>1 DEF ConstFuncPins, InvalidLoads, Wellformed
<1>3. Netlist'
  <2>1. \A q \in Pins : q[1] \notin instances => net'[q] = NoNet
    BY <1>1 DEF Wellformed, TypeOK, Netlist
  <2>2. \A q \in Outputs : net'[q] # NoNet =>
          /\ ~Known(Supply[net'[q]])
          /\ \A r \in Outputs : net'[r] = net'[q] => r = q
    BY <1>1, PinFacts DEF Wellformed, TypeOK, Netlist, Drivers
  <2> QED
    BY <1>1, <2>1, <2>2 DEF Wellformed, Netlist
<1>4. TypeOK'
  <2>1. \A q \in invalid_drvr_pins' \cup invalid_load_pins' \cup const_func_pins' : q[1] \in instances
    BY <1>1, <1>2 DEF Wellformed, TypeOK
  <2>2. net' \in [Pins -> Nets \cup {NoNet}]
    BY <1>1 DEF Wellformed, TypeOK
  <2>3. {q[1] : q \in invalid_drvr_pins' \cup invalid_load_pins' \cup const_func_pins'}
          \subseteq instances /\ TypeOK
    BY <2>1 DEF Wellformed
  <2> QED
    BY <1>1, <2>2, <2>3 DEF TypeOK
<1> QED
  BY <1>1, <1>2, <1>3, <1>4 DEF Wellformed

LEMMA DisconnectWellformed ==
  ASSUME Wellformed, NEW p \in Pins, DisconnectPin(p)
  PROVE  Wellformed'
<1>1. /\ pc = "idle" /\ p[1] \in instances
      /\ net' = [net EXCEPT ![p] = NoNet]
      /\ UNCHANGED <<instances, cell, case_value, timing_sense, disabled_cond, incremental,
                     const_func_pins, eval_queue, instances_to_annotate, const_func_pins_valid, pc>>
      /\ invalid_insts' \in {invalid_insts, invalid_insts \cup {p[1]}}
      /\ invalid_drvr_pins' \in {invalid_drvr_pins, invalid_drvr_pins \cup ({p} \cap Outputs)}
      /\ valid' \in {valid, FALSE}
  BY DEF DisconnectPin, Edit, evalVars, edgeVars
<1>2. invalid_load_pins' \subseteq invalid_load_pins \cup {p} /\ invalid_load_pins' \subseteq Inputs
  BY DEF DisconnectPin, Wellformed
<1>3. /\ sim_value' \in [Pins -> Values]
      /\ \A q \in Pins : sim_value'[q] = IF q = p THEN sim_value'[p] ELSE sim_value[q]
  BY DEF DisconnectPin, Wellformed, TypeOK, Values
<1>4. Netlist'
  <2>1. \A q \in Pins : net'[q] = IF q = p THEN NoNet ELSE net[q]
    BY <1>1 DEF Wellformed, TypeOK
  <2> QED
    BY <1>1, <2>1, PinFacts DEF Wellformed, Netlist
<1>5. TypeOK'
  <2>1. \A q \in invalid_drvr_pins' \cup invalid_load_pins' \cup const_func_pins' : q[1] \in instances
    BY <1>1, <1>2 DEF Wellformed, TypeOK
  <2>2. net' \in [Pins -> Nets \cup {NoNet}]
    BY <1>1 DEF Wellformed, TypeOK
  <2>3. {q[1] : q \in invalid_drvr_pins' \cup invalid_load_pins' \cup const_func_pins'}
          \subseteq instances /\ invalid_insts' \subseteq instances /\ TypeOK
    BY <1>1, <2>1 DEF Wellformed, TypeOK
  <2> QED
    BY <1>1, <1>3, <2>2, <2>3 DEF TypeOK
<1> QED
  BY <1>1, <1>2, <1>3, <1>4, <1>5 DEF Wellformed

LEMMA ReplaceWellformed ==
  ASSUME Wellformed, NEW i \in Instances, NEW c \in Cells, ReplaceCell(i, c)
  PROVE  Wellformed'
<1>1. /\ i \in instances /\ c \in Alternatives[i] /\ cell' = [cell EXCEPT ![i] = c]
      /\ UNCHANGED <<instances, net, case_value, sim_value, incremental, invalid_insts,
                     invalid_drvr_pins, invalid_load_pins, eval_queue, instances_to_annotate,
                     const_func_pins_valid, pc>>
      /\ disabled_cond' \subseteq disabled_cond
  BY DEF ReplaceCell, Edit, evalVars, invalidVars
<1>2. timing_sense' \in [Edges -> Senses]
  BY DEF ReplaceCell, Wellformed, TypeOK, Senses
<1>3. \A q \in const_func_pins' : q \in Outputs /\ q[1] \in instances
  BY <1>1 DEF ReplaceCell, Wellformed, TypeOK, PinsOf
<1>4. valid' \in BOOLEAN
  BY DEF ReplaceCell
<1>5. \A j \in Instances : cell'[j] \in Alternatives[j] /\ cell'[j] \in Cells
  BY <1>1 DEF Wellformed, TypeOK, Netlist
<1>6. Netlist'
  BY <1>1, <1>5 DEF Wellformed, Netlist
<1>7. TypeOK'
  BY <1>1, <1>2, <1>3, <1>4, <1>5 DEF Wellformed, TypeOK, Senses
<1> QED
  BY <1>1, <1>3, <1>6, <1>7 DEF Wellformed

LEMMA MakeInstanceWellformed ==
  ASSUME Wellformed, NEW i \in Instances, MakeInstance(i)
  PROVE  Wellformed'
<1>1. /\ pc = "idle" /\ instances' = instances \cup {i}
      /\ UNCHANGED <<cell, net, case_value, sim_value, timing_sense, disabled_cond, valid, incremental,
                     const_func_pins, const_func_pins_valid, invalid_insts, invalid_drvr_pins,
                     invalid_load_pins, eval_queue, instances_to_annotate, pc>>
  BY DEF MakeInstance, Edit, evalVars, edgeVars, validVars, invalidVars
<1>2. Netlist'
  BY <1>1 DEF Wellformed, Netlist
<1>3. TypeOK'
  <2>1. eval_queue \in Seq(instances')
    BY <1>1 DEF Wellformed, TypeOK
  <2> QED
    BY <1>1, <2>1 DEF Wellformed, TypeOK
<1> QED
  BY <1>1, <1>2, <1>3 DEF Wellformed

LEMMA DeleteInstanceWellformed ==
  ASSUME Wellformed, NEW i \in Instances, DeleteInstance(i)
  PROVE  Wellformed'
<1>1. /\ pc = "idle" /\ i \in instances /\ instances' = instances \ {i}
      /\ \A q \in Pins : q[1] = i => ~Known(case_value[q])
      /\ net' = [q \in Pins |-> IF q[1] = i THEN NoNet ELSE net[q]]
      /\ sim_value' = [q \in Pins |-> IF q[1] = i THEN "unknown" ELSE sim_value[q]]
      /\ const_func_pins' = const_func_pins \ PinsOf(i)
      /\ invalid_load_pins' = invalid_load_pins \ PinsOf(i)
      /\ invalid_drvr_pins' = invalid_drvr_pins \ PinsOf(i)
      /\ invalid_insts' = invalid_insts \ {i}
      /\ disabled_cond' \subseteq disabled_cond
      /\ UNCHANGED <<cell, case_value, valid, incremental, const_func_pins_valid, eval_queue,
                     instances_to_annotate, pc>>
  BY DEF DeleteInstance, Edit, evalVars, validVars, PinsOf, InvalidAfterDelete
<1>2. timing_sense' \in [Edges -> Senses]
  BY DEF DeleteInstance, Wellformed, TypeOK, Senses
<1>3. \A q \in invalid_drvr_pins' \cup invalid_load_pins' \cup const_func_pins' :
        q[1] \in instances' /\ q \in Pins
  BY <1>1, PinFacts DEF Wellformed, TypeOK, PinsOf
<1>4. net' \in [Pins -> Nets \cup {NoNet}] /\ sim_value' \in [Pins -> Values]
  BY <1>1 DEF Wellformed, TypeOK, Values
<1>5. Netlist'
  <2>1. \A q \in Pins : q[1] \notin instances' => net'[q] = NoNet /\ case_value'[q] = "unknown"
    BY <1>1 DEF Wellformed, Netlist, Known
  <2>2. \A q \in Outputs : net'[q] # NoNet =>
          /\ ~Known(Supply[net'[q]])
          /\ \A r \in Outputs : net'[r] = net'[q] => r = q
    BY <1>1, PinFacts DEF Wellformed, Netlist
  <2> QED
    BY <1>1, <2>1, <2>2 DEF Wellformed, Netlist
<1>6. TypeOK'
  <2>1. eval_queue' \in Seq(instances') /\ eval_queue' = <<>>
    BY <1>1 DEF Wellformed, TypeOK
  <2>2. {q[1] : q \in invalid_drvr_pins' \cup invalid_load_pins' \cup const_func_pins'} \subseteq instances'
    BY <1>3
  <2>3. instances' \subseteq Instances /\ invalid_insts' \subseteq instances'
        /\ disabled_cond' \subseteq Edges
    BY <1>1 DEF Wellformed, TypeOK
  <2>4. TypeOK
    BY DEF Wellformed
  <2> HIDE DEF Wellformed
  <2> QED
    BY <1>1, <1>2, <1>4, <2>1, <2>2, <2>3, <2>4 DEF TypeOK, Senses
<1>7. \A q \in Pins : q[1] \notin instances' => sim_value'[q] = "unknown"
  BY <1>1 DEF Wellformed
<1> QED
  BY <1>1, <1>5, <1>6, <1>7 DEF Wellformed

LEMMA NextWellformed == Wellformed /\ [Next]_vars => Wellformed'
<1> SUFFICES ASSUME Wellformed, [Next]_vars PROVE Wellformed'
  OBVIOUS
<1>1. CASE EditStep
  BY <1>1, CaseAnalysisWellformed, ConnectWellformed, DisconnectWellformed, ReplaceWellformed,
     MakeInstanceWellformed, DeleteInstanceWellformed DEF EditStep
<1>2. CASE UNCHANGED vars
  BY <1>2 DEF vars, netVars, edgeVars, validVars, funcVars, invalidVars, evalVars, Wellformed,
              TypeOK, Netlist
<1> QED
  BY <1>1, <1>2, FromScratchWellformed, IncrementalWellformed, EvalInstanceWellformed,
     FindDisabledWellformed, FindLogicWellformed, ClearLogicWellformed DEF Next, Propagate

\* The types hold, and no record is kept of a pin or an instance that was deleted
\* (Sim::deletePinBefore and deleteInstanceBefore).
THEOREM TypesHold == Spec => []TypeOK
<1>1. Wellformed => TypeOK
  BY DEF Wellformed
<1> QED
  BY <1>1, InitWellformed, NextWellformed, PTL DEF Spec

-----------------------------------------------------------------------------
(* The inductive invariant.                                                *)

TiesSet == \A p \in Ties : sim_value[p] = ConstFuncValue(p)

\* The pins of constant functions that are known are those of the tie cells, and
\* once propagation has begun they have their values.
FuncPins ==
  /\ Exist(Ties)
  /\ const_func_pins_valid => const_func_pins = Ties
  /\ incremental \/ pc # "idle" => const_func_pins_valid /\ TiesSet

\* During a propagation only outputs of queued instances may be wrong.
Settling ==
  pc # "idle" =>
    /\ LoadsCurrent(sim_value, {})
    /\ OutputsQueued(sim_value, Range(eval_queue), pc = "logic", {})
    /\ pc = "propagate" => InForce(sim_value, CasePins)

\* Between propagations only what edits recorded may be.
Recorded ==
  pc = "idle" /\ incremental =>
    /\ LoadsCurrent(sim_value, StaleLoads)
    /\ OutputsQueued(sim_value, invalid_insts, FALSE, {})
    /\ InForce(sim_value, CasePins)

\* Nothing is wrong while the values are marked valid.
Propagated ==
  pc = "idle" /\ valid =>
    /\ incremental
    /\ LoadsCurrent(sim_value, {})
    /\ OutputsQueued(sim_value, {}, FALSE, {})

Consistent == FuncPins /\ Settling /\ Recorded /\ Propagated
SimInv == Wellformed /\ Consistent

LEMMA SameNetlist ==
  ASSUME UNCHANGED <<netVars, case_value>>
  PROVE  /\ \A v, E : LoadsCurrent(v, E)' <=> LoadsCurrent(v, E)
         /\ \A v, q, thru, X : OutputsQueued(v, q, thru, X)' <=> OutputsQueued(v, q, thru, X)
         /\ \A v, C : InForce(v, C)' <=> InForce(v, C)
         /\ \A p : ConstFuncValue(p)' = ConstFuncValue(p)
<1>1. UNCHANGED <<instances, cell, net, case_value>>
  BY DEF netVars
<1>2. Unconstrained' = Unconstrained
  BY <1>1 DEF Unconstrained
<1>3. \A p, v : LoadValue(p, v)' = LoadValue(p, v)
  BY <1>1 DEF LoadValue, Drivers
<1>4. \A p, thru, v : EvalOutput(p, thru, v)' = EvalOutput(p, thru, v)
  BY <1>1 DEF EvalOutput, EvalExpr
<1>5. \A p : ConstFuncValue(p)' = ConstFuncValue(p)
  BY <1>1 DEF ConstFuncValue
<1>6. \A v, C : InForce(v, C)' <=> InForce(v, C)
  BY <1>1 DEF InForce
<1>7. \A v, E : LoadsCurrent(v, E)' <=> LoadsCurrent(v, E)
  BY <1>2, <1>3 DEF LoadsCurrent
<1>8. \A v, q, thru, X : OutputsQueued(v, q, thru, X)' <=> OutputsQueued(v, q, thru, X)
  BY <1>2, <1>4 DEF OutputsQueued
<1> QED
  BY <1>5, <1>6, <1>7, <1>8

LEMMA InitConsistent == TiesKept /\ Init => Consistent
BY DEF Init, Consistent, FuncPins, Settling, Recorded, Propagated, TiesKept, Exist

LEMMA EnsuredTies ==
  ASSUME SimInv, FunctionsKept
  PROVE  /\ ConstFuncPins(Pins) = Ties
         /\ EnsureConstantFuncPins => const_func_pins' = Ties
<1>1. \A p \in Outputs : HasConstFunc(p) <=> p \in Ties
  BY TieFacts DEF SimInv, Wellformed
<1>2. ConstFuncPins(Pins) = Ties
  BY <1>1, PinFacts DEF ConstFuncPins, SimInv, Consistent, FuncPins, Exist, Ties
<1> QED
  BY <1>2 DEF EnsureConstantFuncPins, SimInv, Consistent, FuncPins

\* A step to, or of, a propagation.
LEMMA PropagatingConsistent ==
  ASSUME UNCHANGED <<netVars, case_value>>, NEW s, Seed(s), pc' # "idle",
         Settled(s, pc' = "logic", {}, {}),
         pc' = "propagate" => InForce(s.value, CasePins),
         \A p \in Ties : s.value[p] = ConstFuncValue(p), Exist(Ties),
         const_func_pins' = Ties, const_func_pins_valid' = TRUE
  PROVE  Consistent'
<1>1. sim_value' = s.value /\ eval_queue' = s.queue /\ instances' = instances
  BY DEF Seed, netVars
<1>2. FuncPins'
  <2>1. \A p : ConstFuncValue(p)' = ConstFuncValue(p)
    BY SameNetlist
  <2> QED
    BY <1>1, <2>1 DEF FuncPins, TiesSet, Exist
<1>3. Settling'
  <2>1. LoadsCurrent(s.value, {}) /\ OutputsQueued(s.value, Range(s.queue), pc' = "logic", {})
    BY DEF Settled
  <2>2. LoadsCurrent(sim_value, {})'
    BY <1>1, <2>1, SameNetlist
  <2>3. OutputsQueued(sim_value, Range(eval_queue), pc = "logic", {})'
    BY <1>1, <2>1, SameNetlist
  <2>4. pc' = "propagate" => InForce(sim_value, CasePins)'
    BY <1>1, SameNetlist
  <2> QED
    BY <2>2, <2>3, <2>4 DEF Settling
<1> QED
  BY <1>2, <1>3 DEF Consistent, Recorded, Propagated

LEMMA FromScratchConsistent ==
  ASSUME SimInv, FunctionsKept, TiesKept, DataVaries, EnsureFromScratch
  PROVE  Consistent'
<1> DEFINE s == SeedConstants(Ties)
<1>1. TypeOK /\ Netlist /\ Exist(Ties)
  BY DEF SimInv, Wellformed, Consistent, FuncPins
<1>2. /\ Settled(s, FALSE, {}, {}) /\ InForce(s.value, CasePins)
      /\ \A p \in Ties : s.value[p] = ConstFuncValue(p)
  BY <1>1, SeedConstantsSettles
<1>3. const_func_pins' = Ties
  BY EnsuredTies DEF EnsureFromScratch
<1>4. /\ Seed(s) /\ pc' = "propagate" /\ const_func_pins_valid' = TRUE
      /\ UNCHANGED <<netVars, case_value>>
  BY <1>3 DEF EnsureFromScratch
<1>5. (pc' = "logic") = FALSE
  BY <1>4
<1> HIDE DEF s
<1>6. Settled(s, pc' = "logic", {}, {})
  BY <1>2, <1>5
<1> QED
  BY <1>1, <1>2, <1>3, <1>4, <1>6, PropagatingConsistent

LEMMA IncrementalConsistent ==
  ASSUME SimInv, FunctionsKept, TiesKept, EnsureIncremental
  PROVE  Consistent'
<1> DEFINE s == SeedInvalid(Ties)
<1>1. /\ Wellformed /\ Exist(Ties) /\ TiesSet
      /\ LoadsCurrent(sim_value, StaleLoads) /\ InForce(sim_value, CasePins)
      /\ OutputsQueued(sim_value, invalid_insts, FALSE, {})
  BY DEF SimInv, Consistent, FuncPins, Recorded, EnsureIncremental
<1>2. /\ Settled(s, FALSE, {}, {}) /\ InForce(s.value, CasePins)
      /\ \A p \in Ties : s.value[p] = ConstFuncValue(p)
  BY <1>1, SeedInvalidSettles DEF TiesSet
<1>3. const_func_pins' = Ties
  BY EnsuredTies DEF EnsureIncremental
<1>4. /\ Seed(s) /\ pc' = "propagate" /\ const_func_pins_valid' = TRUE
      /\ UNCHANGED <<netVars, case_value>>
  BY <1>3 DEF EnsureIncremental
<1>5. (pc' = "logic") = FALSE
  BY <1>4
<1> HIDE DEF s
<1>6. Settled(s, pc' = "logic", {}, {})
  BY <1>2, <1>5
<1> QED
  BY <1>1, <1>2, <1>3, <1>4, <1>6, PropagatingConsistent

LEMMA FindLogicConsistent ==
  ASSUME SimInv, FunctionsKept, TiesKept, DataVaries, FindLogicConstants
  PROVE  Consistent'
<1> DEFINE s == SetSupplied(SetConstFuncPins(Cleared, Ties))
<1>1. TypeOK /\ Netlist /\ Exist(Ties)
  BY DEF SimInv, Wellformed, Consistent, FuncPins
<1>2. Settled(s, TRUE, {}, {}) /\ \A p \in Ties : s.value[p] = ConstFuncValue(p)
  BY <1>1, SeedLogicSettles
<1>3. /\ Seed(s) /\ pc' = "logic" /\ const_func_pins' = Ties /\ const_func_pins_valid' = TRUE
      /\ UNCHANGED <<netVars, case_value>>
  BY EnsuredTies DEF FindLogicConstants
<1>4. (pc' = "logic") = TRUE
  BY <1>3
<1> HIDE DEF s
<1>5. Settled(s, pc' = "logic", {}, {})
  BY <1>2, <1>4
<1> QED
  BY <1>1, <1>2, <1>3, <1>5, PropagatingConsistent

LEMMA EvalInstanceConsistent ==
  ASSUME SimInv, FunctionsKept, TiesKept, EvalInstance
  PROVE  Consistent'
<1> DEFINE thru == pc = "logic"
           i == Head(eval_queue)
           s == Evaluate(Evaluating, i, thru)
<1>1. /\ Wellformed /\ TypeOK /\ Netlist /\ Exist(Ties) /\ eval_queue # <<>> /\ pc # "idle"
  BY DEF SimInv, Wellformed, Consistent, FuncPins, EvalInstance, TypeOK
<1>2. /\ LoadsCurrent(sim_value, {}) /\ OutputsQueued(sim_value, Range(eval_queue), thru, {})
      /\ pc = "propagate" => InForce(sim_value, CasePins)
      /\ TiesSet /\ const_func_pins = Ties /\ const_func_pins_valid
  BY <1>1 DEF SimInv, Consistent, Settling, FuncPins
<1>3. /\ Evaluating \in State /\ Evaluating.value = sim_value /\ i \in instances
      /\ Range(eval_queue) \subseteq {i} \cup Range(Evaluating.queue)
  BY <1>1, EvaluatingState
<1> HIDE DEF thru, i
<1>4. Settled(Evaluating, thru, {}, PinsOf(i) \cap Outputs)
  <2>1. OutputsQueued(sim_value, Range(Evaluating.queue), thru, PinsOf(i) \cap Outputs)
    BY <1>2, <1>3, PinFacts DEF OutputsQueued, PinsOf
  <2> QED
    BY <1>2, <1>3, <2>1 DEF Settled
<1>5. s \in State /\ Keeps(Evaluating, s) /\ Settled(s, thru, {}, {})
  BY <1>1, <1>3, <1>4, EvaluateSettles
<1>6. Seed(s) /\ UNCHANGED <<netVars, case_value, pc, const_func_pins, const_func_pins_valid>>
  BY DEF EvalInstance, Evaluating, thru, i, funcVars
<1> HIDE DEF s
<1>7. \A p \in Ties : s.value[p] = ConstFuncValue(p)
  BY <1>1, <1>2, <1>3, <1>5, TieFacts DEF Keeps, TiesSet, TiesKept, Ties
<1>8. pc' = "propagate" => InForce(s.value, CasePins)
  BY <1>2, <1>3, <1>5, <1>6 DEF Keeps
<1>9. Settled(s, pc' = "logic", {}, {})
  BY <1>5, <1>6 DEF thru
<1>10. const_func_pins_valid' = TRUE
  BY <1>1, <1>2, <1>6 DEF TypeOK
<1> QED
  BY <1>1, <1>2, <1>6, <1>7, <1>8, <1>9, <1>10, PropagatingConsistent

LEMMA FindDisabledConsistent ==
  ASSUME SimInv, FindDisabledEdges
  PROVE  Consistent'
<1>1. /\ pc = "propagate" /\ Range(eval_queue) = {} /\ pc' = "idle" /\ incremental' = TRUE
      /\ UNCHANGED <<netVars, instances, case_value, sim_value, const_func_pins, const_func_pins_valid,
                     invalid_insts>>
  BY DEF FindDisabledEdges, netVars, funcVars, invalidVars, Range
<1>2. /\ LoadsCurrent(sim_value, {}) /\ OutputsQueued(sim_value, {}, FALSE, {})
      /\ InForce(sim_value, CasePins)
  <2>1. (pc = "logic") = FALSE
    BY <1>1
  <2> QED
    BY <1>1, <2>1 DEF SimInv, Consistent, Settling
<1>3. LoadsCurrent(sim_value, {})' /\ OutputsQueued(sim_value, {}, FALSE, {})'
      /\ InForce(sim_value, CasePins)'
  BY <1>1, <1>2, SameNetlist
<1>4. FuncPins'
  <2>1. \A p : ConstFuncValue(p)' = ConstFuncValue(p)
    BY <1>1, SameNetlist
  <2> QED
    BY <1>1, <2>1 DEF SimInv, Consistent, FuncPins, TiesSet, Exist
<1>5. LoadsCurrent(sim_value, StaleLoads)' /\ OutputsQueued(sim_value, invalid_insts, FALSE, {})'
  BY <1>3 DEF LoadsCurrent, OutputsQueued
<1> QED
  BY <1>1, <1>3, <1>4, <1>5 DEF Consistent, Settling, Recorded, Propagated

LEMMA ClearLogicConsistent ==
  ASSUME SimInv, ClearLogicConstants
  PROVE  Consistent'
BY DEF SimInv, ClearLogicConstants, Clear, netVars, Consistent, FuncPins, Exist, Settling,
       Recorded, Propagated

-----------------------------------------------------------------------------
(* Edits keep it.                                                          *)

LEMMA SameFunctions ==
  ASSUME Wellformed, Wellformed', FunctionsKept
  PROVE  \A p \in Outputs :
           /\ \A thru, v : EvalOutput(p, thru, v)' = EvalOutput(p, thru, v)
           /\ HasConstFunc(p)' <=> HasConstFunc(p)
           /\ p \in Ties => ConstFuncValue(p)' = ConstFuncValue(p)
<1>1. \A i \in Instances : /\ cell'[i].func = cell[i].func /\ cell'[i].data = cell[i].data
                           /\ cell'[i].ins = cell[i].ins
  BY SimAssumption DEF Wellformed, Netlist, FunctionsKept
<1>2. \A i \in Instances : \A f, v : EvalExpr(f, i, v)' = EvalExpr(f, i, v)
  <2> TAKE i \in Instances
  <2> TAKE f, v
  <2> DEFINE Value(ins) ==
               LET ones == {x \in ins : v[<<i, x>>] = "one"}
                   free == {x \in ins : v[<<i, x>>] = "unknown"}
                   outcomes == {((ones \cup s) \in f) : s \in SUBSET free}
               IN  IF outcomes = {TRUE} THEN "one"
                   ELSE IF outcomes = {FALSE} THEN "zero" ELSE "unknown"
  <2>1. EvalExpr(f, i, v) = Value(cell[i].ins) /\ EvalExpr(f, i, v)' = Value(cell'[i].ins)
    BY DEF EvalExpr
  <2> HIDE DEF Value
  <2> QED
    BY <1>1, <2>1
<1>3. \A p \in Outputs : p[1] \in Instances
  BY PinFacts
<1>4. \A p \in Outputs : \A thru, v : EvalOutput(p, thru, v)' = EvalOutput(p, thru, v)
  BY <1>1, <1>2, <1>3 DEF EvalOutput
<1>5. \A p \in Outputs : (HasConstFunc(p)' <=> HasConstFunc(p)) /\ ConstFuncValue(p)' = ConstFuncValue(p)
  BY <1>1, <1>3 DEF HasConstFunc, ConstFuncValue
<1> QED
  BY <1>4, <1>5

LEMMA CaseAnalysisConsistent ==
  ASSUME SimInv, NEW p, NEW v, SetCaseAnalysis(p, v)
  PROVE  Consistent'
BY DEF SetCaseAnalysis, Edit, netVars, SimInv, Consistent, FuncPins, Exist, Settling, Recorded,
       Propagated

LEMMA ConnectConsistent ==
  ASSUME SimInv, FunctionsKept, Wellformed', NEW p \in Pins, NEW n \in Nets, ConnectPin(p, n)
  PROVE  Consistent'
<1>1. /\ pc = "idle" /\ p[1] \in instances /\ net[p] = NoNet
      /\ p \in Outputs => Drivers(n) = {}
      /\ net' = [net EXCEPT ![p] = n]
      /\ UNCHANGED <<instances, cell, case_value, sim_value, incremental, invalid_insts,
                     const_func_pins_valid, pc>>
  BY DEF ConnectPin, Edit
<1>2. CASE ~incremental
  <2>1. UNCHANGED <<const_func_pins, valid>>
    BY <1>2 DEF ConnectPin
  <2> QED
    BY <1>1, <1>2, <2>1
    DEF SimInv, Consistent, FuncPins, Exist, Settling, Recorded, Propagated
<1>3. CASE incremental
  <2>1. /\ const_func_pins' = const_func_pins \cup ConstFuncPins({p})
        /\ invalid_load_pins' = invalid_load_pins \cup InvalidLoads(p)
        /\ invalid_drvr_pins' = invalid_drvr_pins \cup ({p} \cap Outputs)
        /\ valid' = FALSE
    BY <1>3 DEF ConnectPin
  <2>2. /\ Wellformed /\ TypeOK /\ Netlist /\ LoadsCurrent(sim_value, StaleLoads)
        /\ OutputsQueued(sim_value, invalid_insts, FALSE, {}) /\ InForce(sim_value, CasePins)
    BY <1>1, <1>3 DEF SimInv, Wellformed, Consistent, Recorded
  <2>3. FuncPins'
    <3>1. ConstFuncPins({p}) \subseteq Ties
      BY <2>2, TieFacts DEF ConstFuncPins
    <3>2. \A q \in Ties : ConstFuncValue(q)' = ConstFuncValue(q)
      BY <2>2, SameFunctions DEF Ties
    <3> QED
      BY <1>1, <1>3, <2>1, <3>1, <3>2 DEF SimInv, Consistent, FuncPins, Exist, TiesSet
  <2>4. Unconstrained' = Unconstrained
    BY <1>1 DEF Unconstrained
  <2>5. \A q \in Pins : net'[q] = IF q = p THEN n ELSE net[q]
    BY <1>1, <2>2 DEF TypeOK
  <2>6. LoadsCurrent(sim_value, StaleLoads)'
    <3>1. SUFFICES ASSUME NEW q \in Unconstrained \cap Inputs, q \notin StaleLoads'
                   PROVE  sim_value[q] = LoadValue(q, sim_value)'
      BY <1>1, <2>4 DEF LoadsCurrent
    <3>2. q \in Pins /\ n # NoNet
      BY PinFacts, SimAssumption
    <3>3. q # p
      BY <2>1, <2>5, <3>1, <3>2 DEF StaleLoads, InvalidLoads
    <3>4. net'[q] = net[q]
      BY <2>5, <3>2, <3>3
    <3>5. CASE net[q] = NoNet
      <4>1. q \notin StaleLoads
        BY <3>5 DEF StaleLoads
      <4> QED
        BY <2>2, <3>4, <3>5, <4>1 DEF LoadsCurrent, LoadValue
    <3>6. CASE net[q] # NoNet
      <4>1. ~(p \in Outputs /\ net[q] = n)
        <5>1. SUFFICES ASSUME p \in Outputs, net[q] = n PROVE FALSE
          OBVIOUS
        <5>2. p \in Drivers(net[q])' /\ p \in invalid_drvr_pins'
          BY <2>1, <2>5, <3>4, <5>1 DEF Drivers
        <5> QED
          BY <3>1, <3>4, <3>6, <5>2 DEF StaleLoads
      <4>2. Drivers(net[q])' = Drivers(net[q])
        BY <1>1, <2>5, <3>4, <3>6, <4>1, PinFacts DEF Drivers
      <4>3. q \notin StaleLoads
        BY <2>1, <3>1, <3>4, <3>6, <4>2 DEF StaleLoads
      <4> QED
        BY <1>1, <2>2, <3>4, <3>6, <4>2, <4>3 DEF LoadsCurrent, LoadValue
    <3> QED
      BY <3>5, <3>6
  <2>7. OutputsQueued(sim_value, invalid_insts, FALSE, {})'
    BY <1>1, <2>2, <2>4, SameFunctions DEF OutputsQueued
  <2>8. InForce(sim_value, CasePins)'
    BY <1>1, <2>2 DEF InForce
  <2> QED
    BY <1>1, <2>1, <2>3, <2>6, <2>7, <2>8 DEF Consistent, Settling, Recorded, Propagated
<1> QED
  BY <1>2, <1>3

LEMMA ReplaceConsistent ==
  ASSUME SimInv, FunctionsKept, Wellformed', NEW i \in Instances, NEW c \in Cells,
         ReplaceCell(i, c)
  PROVE  Consistent'
<1>1. /\ pc = "idle" /\ valid' = (valid /\ ~incremental)
      /\ const_func_pins' = {p \in const_func_pins : p[1] # i}
                              \cup {p \in PinsOf(i) \cap Outputs : HasConstFunc(p)'}
      /\ UNCHANGED <<instances, net, case_value, sim_value, incremental, invalid_insts,
                     invalid_drvr_pins, invalid_load_pins, const_func_pins_valid, pc>>
  BY DEF ReplaceCell, Edit, invalidVars
<1>2. Wellformed /\ TypeOK /\ Netlist
  BY DEF SimInv, Wellformed
<1>3. FuncPins'
  <2>1. \A p \in Outputs : HasConstFunc(p)' <=> p \in Ties
    BY <1>2, SameFunctions, TieFacts
  <2>2. Ties \subseteq Outputs /\ \A p \in Ties : p \in Pins
    BY PinFacts DEF Ties
  <2>3. const_func_pins = Ties => const_func_pins' = Ties
    BY <1>1, <2>1, <2>2 DEF PinsOf
  <2>4. \A q \in Ties : ConstFuncValue(q)' = ConstFuncValue(q)
    BY <1>2, <2>2, SameFunctions
  <2> QED
    BY <1>1, <2>3, <2>4 DEF SimInv, Consistent, FuncPins, Exist, TiesSet
<1>4. Recorded'
  <2>1. Unconstrained' = Unconstrained /\ StaleLoads' = StaleLoads
    BY <1>1 DEF Unconstrained, StaleLoads, Drivers
  <2>2. \A q, v : LoadValue(q, v)' = LoadValue(q, v)
    BY <1>1 DEF LoadValue, Drivers
  <2>3. LoadsCurrent(sim_value, StaleLoads) => LoadsCurrent(sim_value, StaleLoads)'
    BY <1>1, <2>1, <2>2 DEF LoadsCurrent
  <2>4. OutputsQueued(sim_value, invalid_insts, FALSE, {}) =>
          OutputsQueued(sim_value, invalid_insts, FALSE, {})'
    BY <1>1, <1>2, <2>1, SameFunctions DEF OutputsQueued
  <2> QED
    BY <1>1, <2>3, <2>4 DEF SimInv, Consistent, Recorded, InForce
<1>5. ~valid'
  BY <1>1 DEF SimInv, Consistent, Propagated
<1> QED
  BY <1>1, <1>3, <1>4, <1>5 DEF Consistent, Settling, Propagated

\* The pins of P are taken off their nets.  The loads of a net that loses its
\* driver keep their values.
LEMMA UnpluggedLoads ==
  ASSUME Netlist, NEW P \in SUBSET Pins,
         net' = [q \in Pins |-> IF q \in P THEN NoNet ELSE net[q]],
         Unconstrained' \subseteq Unconstrained,
         invalid_load_pins \subseteq invalid_load_pins' \cup P,
         invalid_drvr_pins \subseteq invalid_drvr_pins' \cup P,
         \A q \in Pins \ P : sim_value'[q] = sim_value[q],
         \A q \in P \cap Inputs : q \in Unconstrained' => sim_value'[q] = "unknown"
  PROVE  /\ LoadsCurrent(sim_value, StaleLoads) => LoadsCurrent(sim_value, StaleLoads)'
         /\ LoadsCurrent(sim_value, {}) => LoadsCurrent(sim_value, {})'
<1>1. ASSUME NEW q \in P PROVE LoadValue(q, sim_value)' = "unknown"
  BY <1>1 DEF LoadValue
<1>2. ASSUME NEW q \in Inputs, q \notin P,
             \/ sim_value[q] = LoadValue(q, sim_value)
             \/ net[q] # NoNet /\ ~Known(Supply[net[q]]) /\ Drivers(net[q])' = {}
      PROVE  sim_value'[q] = LoadValue(q, sim_value)'
  <2>1. q \in Pins /\ net'[q] = net[q] /\ sim_value'[q] = sim_value[q]
    BY <1>2, PinFacts
  <2>2. CASE net[q] = NoNet \/ Known(Supply[net[q]])
    BY <1>2, <2>1, <2>2 DEF LoadValue
  <2>3. CASE net[q] # NoNet /\ ~Known(Supply[net[q]]) /\ Drivers(net[q])' = {}
    BY <2>1, <2>3 DEF LoadValue
  <2>4. CASE net[q] # NoNet /\ ~Known(Supply[net[q]]) /\ Drivers(net[q])' # {}
    <3>1. PICK d \in Drivers(net[q])' : TRUE
      BY <2>4
    <3>2. d \in Outputs /\ d \notin P /\ net[d] = net[q]
      BY <2>1, <2>4, <3>1, PinFacts DEF Drivers
    <3>3. \A e \in Outputs : net'[e] = net'[q] => e = d
      BY <2>1, <2>4, <3>2, PinFacts DEF Netlist
    <3>4. Drivers(net[q])' = {d} /\ Drivers(net[q]) = {d}
      BY <2>1, <2>4, <3>1, <3>2, <3>3, PinFacts DEF Drivers, Netlist
    <3>5. LoadValue(q, sim_value)' = sim_value'[d] /\ LoadValue(q, sim_value) = sim_value[d]
      <4>1. (CHOOSE e \in {d} : TRUE) = d
        OBVIOUS
      <4> QED
        BY <2>1, <2>4, <3>4, <4>1 DEF LoadValue
    <3>6. sim_value'[d] = sim_value[d]
      BY <3>2, PinFacts
    <3> QED
      BY <1>2, <2>1, <2>4, <3>5, <3>6
  <2> QED
    BY <2>2, <2>3, <2>4
<1>3. ASSUME LoadsCurrent(sim_value, {}) PROVE LoadsCurrent(sim_value, {})'
  BY <1>1, <1>2, <1>3 DEF LoadsCurrent
<1>4. ASSUME LoadsCurrent(sim_value, StaleLoads) PROVE LoadsCurrent(sim_value, StaleLoads)'
  <2>1. SUFFICES ASSUME NEW q \in Inputs, q \in Unconstrained', q \notin StaleLoads', q \notin P
                 PROVE  sim_value'[q] = LoadValue(q, sim_value)'
    BY <1>1 DEF LoadsCurrent
  <2>2. CASE q \notin StaleLoads
    BY <1>2, <1>4, <2>1, <2>2 DEF LoadsCurrent
  <2>3. CASE q \in StaleLoads
    <3>1. net'[q] = net[q] /\ net[q] # NoNet /\ q \notin invalid_load_pins'
      BY <2>1, <2>3, PinFacts DEF StaleLoads
    <3>2. PICK d \in Drivers(net[q]) : d \in invalid_drvr_pins
      BY <2>1, <2>3, <3>1 DEF StaleLoads
    <3>3. d \in P
      BY <2>1, <3>1, <3>2, PinFacts DEF StaleLoads, Drivers
    <3>4. \A e \in Outputs : net[e] = net[q] => e = d
      BY <3>1, <3>2 DEF Drivers, Netlist
    <3>5. Drivers(net[q])' = {}
      BY <3>1, <3>3, <3>4, PinFacts DEF Drivers
    <3>6. ~Known(Supply[net[q]])
      BY <3>1, <3>2 DEF Drivers, Netlist
    <3> QED
      BY <1>2, <2>1, <3>1, <3>5, <3>6
  <2> QED
    BY <2>2, <2>3
<1> QED
  BY <1>3, <1>4

LEMMA UnpluggedOutputs ==
  ASSUME Wellformed, Wellformed', FunctionsKept, Unconstrained' \subseteq Unconstrained,
         NEW i, \A q \in Pins : q[1] # i => sim_value'[q] = sim_value[q],
         NEW Q, OutputsQueued(sim_value, Q, FALSE, {})
  PROVE  \A q \in Outputs : /\ q \in Unconstrained' /\ q[1] # i
                            /\ sim_value'[q] # EvalOutput(q, FALSE, sim_value)'
                            => q[1] \in Q
<1>1. ASSUME NEW q \in Outputs, q[1] # i
      PROVE  \A thru : EvalOutput(q, thru, sim_value') = EvalOutput(q, thru, sim_value)
  <2> DEFINE after == sim_value'
  <2>1. \A r \in Inputs : r[1] = q[1] => after[r] = sim_value[r]
    BY <1>1, PinFacts
  <2>2. TypeOK /\ Netlist
    BY DEF Wellformed
  <2> HIDE DEF after
  <2>3. ASSUME NEW thru PROVE EvalOutput(q, thru, after) = EvalOutput(q, thru, sim_value)
    BY <2>1, <2>2, SameInputs
  <2> QED
    BY <2>3 DEF after
<1>2. \A q \in Outputs : EvalOutput(q, FALSE, sim_value)' = EvalOutput(q, FALSE, sim_value')
  BY SameFunctions
<1>3. \A q \in Outputs : q \in Pins
  BY PinFacts
<1> QED
  BY <1>1, <1>2, <1>3 DEF OutputsQueued

LEMMA DisconnectConsistent ==
  ASSUME SimInv, FunctionsKept, Wellformed', NEW p \in Pins, DisconnectPin(p)
  PROVE  Consistent'
<1>1. /\ pc = "idle" /\ net' = [net EXCEPT ![p] = NoNet]
      /\ UNCHANGED <<instances, cell, case_value, incremental, const_func_pins,
                     const_func_pins_valid, pc>>
      /\ valid' \in {valid, FALSE}
  BY DEF DisconnectPin, Edit
<1>2. Wellformed /\ TypeOK /\ Netlist
  BY DEF SimInv, Wellformed
<1>3. CASE ~incremental
  <2>1. ~valid'
    BY <1>1, <1>3 DEF SimInv, Consistent, Propagated
  <2> QED
    BY <1>1, <1>3, <2>1 DEF SimInv, Consistent, FuncPins, Exist, Settling, Recorded, Propagated
<1>4. CASE incremental
  <2>1. /\ LoadsCurrent(sim_value, StaleLoads) /\ InForce(sim_value, CasePins)
        /\ OutputsQueued(sim_value, invalid_insts, FALSE, {}) /\ TiesSet /\ incremental'
    BY <1>1, <1>4 DEF SimInv, Consistent, Recorded, FuncPins
  <2>2. /\ \A q \in Pins : q # p \/ q \in Outputs \/ Known(case_value[q]) => sim_value'[q] = sim_value[q]
        /\ p \in Inputs => /\ p \in Unconstrained => sim_value'[p] = "unknown"
                           /\ valid' = FALSE /\ invalid_load_pins' = invalid_load_pins \cup {p}
                           /\ invalid_insts' = invalid_insts \cup {p[1]}
        /\ p \notin Inputs => UNCHANGED <<sim_value, valid, invalid_load_pins, invalid_insts>>
        /\ invalid_drvr_pins' = invalid_drvr_pins \cup ({p} \cap Outputs)
    BY <1>2, <1>4, PinFacts DEF DisconnectPin, TypeOK, Unconstrained
  <2>3. Unconstrained' = Unconstrained /\ p \in Inputs \cup Outputs
    BY <1>1 DEF Unconstrained, Pins
  <2>4. net' = [q \in Pins |-> IF q \in {p} THEN NoNet ELSE net[q]]
    BY <1>1, <1>2 DEF TypeOK
  <2>5. /\ LoadsCurrent(sim_value, StaleLoads) => LoadsCurrent(sim_value, StaleLoads)'
        /\ LoadsCurrent(sim_value, {}) => LoadsCurrent(sim_value, {})'
    <3>1. /\ invalid_load_pins \subseteq invalid_load_pins' \cup {p}
          /\ invalid_drvr_pins \subseteq invalid_drvr_pins' \cup {p}
          /\ \A q \in Pins \ {p} : sim_value'[q] = sim_value[q]
          /\ \A q \in {p} \cap Inputs : q \in Unconstrained' => sim_value'[q] = "unknown"
      BY <2>2, <2>3
    <3>2. Unconstrained' \subseteq Unconstrained /\ {p} \in SUBSET Pins
      BY <2>3
    <3> QED
      BY <1>2, <2>4, <3>1, <3>2, UnpluggedLoads
  <2>6. OutputsQueued(sim_value, invalid_insts, FALSE, {})'
    <3>1. CASE p \in Inputs
      <4>1. \A q \in Pins : q[1] # p[1] => sim_value'[q] = sim_value[q]
        BY <2>2
      <4>2. \A q \in Outputs : /\ q \in Unconstrained' /\ q[1] # p[1]
                               /\ sim_value'[q] # EvalOutput(q, FALSE, sim_value)'
                               => q[1] \in invalid_insts
        BY <1>2, <2>1, <2>3, <4>1, UnpluggedOutputs
      <4> QED
        BY <2>2, <3>1, <4>2 DEF OutputsQueued
    <3>2. CASE p \notin Inputs
      <4>1. sim_value' = sim_value /\ invalid_insts' = invalid_insts
        BY <2>2, <3>2
      <4>2. \A q \in Outputs : EvalOutput(q, FALSE, sim_value)' = EvalOutput(q, FALSE, sim_value')
        BY <1>2, SameFunctions
      <4> QED
        BY <2>1, <2>3, <4>1, <4>2 DEF OutputsQueued
    <3> QED
      BY <3>1, <3>2
  <2>7. InForce(sim_value, CasePins)'
    BY <1>1, <2>1, <2>2, SimAssumption DEF InForce
  <2>8. FuncPins'
    <3>1. \A q \in Ties : ConstFuncValue(q)' = ConstFuncValue(q) /\ sim_value'[q] = sim_value[q]
      BY <1>2, <2>2, SameFunctions, PinFacts DEF Ties
    <3> QED
      BY <1>1, <2>1, <3>1 DEF SimInv, Consistent, FuncPins, Exist, TiesSet
  <2>9. Propagated'
    <3>1. CASE p \in Inputs
      BY <2>2, <3>1 DEF Propagated
    <3>2. CASE p \notin Inputs
      <4>1. SUFFICES ASSUME valid PROVE LoadsCurrent(sim_value, {})' /\ OutputsQueued(sim_value, {}, FALSE, {})'
        BY <1>1, <2>1, <2>2, <3>2 DEF Propagated
      <4>2. LoadsCurrent(sim_value, {}) /\ OutputsQueued(sim_value, {}, FALSE, {})
        BY <1>1, <4>1 DEF SimInv, Consistent, Propagated
      <4>3. OutputsQueued(sim_value, {}, FALSE, {})'
        <5>1. sim_value' = sim_value
          BY <2>2, <3>2
        <5>2. \A q \in Outputs : EvalOutput(q, FALSE, sim_value)' = EvalOutput(q, FALSE, sim_value')
          BY <1>2, SameFunctions
        <5> QED
          BY <2>3, <4>2, <5>1, <5>2 DEF OutputsQueued
      <4> QED
        BY <2>5, <4>2, <4>3
    <3> QED
      BY <3>1, <3>2
  <2> QED
    BY <1>1, <2>1, <2>5, <2>6, <2>7, <2>8, <2>9 DEF Consistent, Settling, Recorded
<1> QED
  BY <1>3, <1>4

LEMMA MakeInstanceConsistent ==
  ASSUME SimInv, FunctionsKept, DataVaries, Wellformed', NEW i \in Instances, MakeInstance(i)
  PROVE  Consistent'
<1>1. /\ pc = "idle" /\ i \notin instances /\ instances' = instances \cup {i}
      /\ UNCHANGED <<cell, net, case_value, sim_value, valid, incremental, const_func_pins,
                     const_func_pins_valid, invalid_insts, invalid_drvr_pins, invalid_load_pins, pc>>
  BY DEF MakeInstance, Edit, validVars, invalidVars
<1>2. Wellformed /\ TypeOK /\ Netlist
  BY DEF SimInv, Wellformed
<1>3. /\ StaleLoads' = StaleLoads /\ \A q \in Unconstrained' : q \in Unconstrained \/ q[1] = i
      /\ \A q, v : LoadValue(q, v)' = LoadValue(q, v)
  BY <1>1 DEF StaleLoads, Drivers, Unconstrained, LoadValue
<1>4. \A q \in Pins : q[1] = i => sim_value[q] = "unknown" /\ net[q] = NoNet
  BY <1>1, <1>2 DEF Wellformed, Netlist
<1>5. \A E : (\A q \in (Unconstrained \cap Inputs) \ E : sim_value[q] = LoadValue(q, sim_value)) =>
             \A q \in (Unconstrained' \cap Inputs) \ E : sim_value'[q] = LoadValue(q, sim_value)'
  <2>1. \A q \in Pins : LoadValue(q, sim_value)' = LoadValue(q, sim_value)
    <3>1. \A q : LoadValue(q, sim_value)' = LoadValue(q, sim_value')
      BY <1>3
    <3> QED
      BY <1>1, <3>1
  <2>2. \A q \in Pins : q[1] = i => sim_value[q] = LoadValue(q, sim_value)
    BY <1>4 DEF LoadValue
  <2>3. Inputs \subseteq Pins
    BY PinFacts
  <2> QED
    BY <1>1, <1>3, <2>1, <2>2, <2>3
<1>6. ASSUME NEW q \in Outputs
      PROVE  /\ EvalOutput(q, FALSE, sim_value)' = EvalOutput(q, FALSE, sim_value)
             /\ q[1] = i => sim_value[q] = EvalOutput(q, FALSE, sim_value)
  <2>1. EvalOutput(q, FALSE, sim_value)' = EvalOutput(q, FALSE, sim_value')
    BY <1>2, SameFunctions
  <2>2. ASSUME q[1] = i PROVE sim_value[q] = EvalOutput(q, FALSE, sim_value)
    <3>1. q \notin Ties
      BY <1>1, <2>2 DEF SimInv, Consistent, FuncPins, Exist
    <3>2. \A r \in Inputs : r[1] = q[1] => sim_value[r] = "unknown"
      BY <1>4, <2>2, PinFacts
    <3> QED
      BY <1>2, <1>4, <2>2, <3>1, <3>2, OutputUnknown, PinFacts
  <2> QED
    BY <1>1, <2>1, <2>2
<1>7. \A Q : OutputsQueued(sim_value, Q, FALSE, {}) => OutputsQueued(sim_value, Q, FALSE, {})'
  BY <1>1, <1>3, <1>6 DEF OutputsQueued
<1>8. FuncPins'
  <2>1. \A q \in Ties : ConstFuncValue(q)' = ConstFuncValue(q)
    BY <1>2, SameFunctions DEF Ties
  <2> QED
    BY <1>1, <2>1 DEF SimInv, Consistent, FuncPins, Exist, TiesSet
<1>9. Recorded'
  <2>1. LoadsCurrent(sim_value, StaleLoads) => LoadsCurrent(sim_value, StaleLoads)'
    BY <1>3, <1>5 DEF LoadsCurrent
  <2>2. OutputsQueued(sim_value, invalid_insts, FALSE, {}) =>
          OutputsQueued(sim_value, invalid_insts, FALSE, {})'
    BY <1>1, <1>7
  <2> QED
    BY <1>1, <2>1, <2>2 DEF SimInv, Consistent, Recorded, InForce
<1>10. Propagated'
  <2>1. LoadsCurrent(sim_value, {}) => LoadsCurrent(sim_value, {})'
    BY <1>5 DEF LoadsCurrent
  <2>2. OutputsQueued(sim_value, {}, FALSE, {}) => OutputsQueued(sim_value, {}, FALSE, {})'
    BY <1>7
  <2> QED
    BY <1>1, <2>1, <2>2 DEF SimInv, Consistent, Propagated
<1> QED
  BY <1>1, <1>8, <1>9, <1>10 DEF Consistent, Settling

LEMMA DeleteInstanceConsistent ==
  ASSUME SimInv, FunctionsKept, TiesKept, Wellformed', NEW i \in Instances, DeleteInstance(i)
  PROVE  Consistent'
<1>1. /\ pc = "idle" /\ instances' = instances \ {i}
      /\ \A q \in PinsOf(i) : EditNets[q] # {}
      /\ net' = [q \in Pins |-> IF q \in PinsOf(i) THEN NoNet ELSE net[q]]
      /\ const_func_pins' = const_func_pins \ PinsOf(i)
      /\ invalid_load_pins' = invalid_load_pins \ PinsOf(i)
      /\ invalid_drvr_pins' = invalid_drvr_pins \ PinsOf(i)
      /\ invalid_insts' = invalid_insts \ {i}
      /\ UNCHANGED <<cell, case_value, valid, incremental, const_func_pins_valid, pc>>
  BY DEF DeleteInstance, Edit, validVars, InvalidAfterDelete
<1>2. Wellformed /\ TypeOK /\ Netlist
  BY DEF SimInv, Wellformed
<1>3. \A q \in Pins : q[1] # i => sim_value'[q] = sim_value[q]
  BY DEF DeleteInstance, PinsOf
<1>4. \A q \in Ties : q[1] # i /\ q \in Pins /\ q \in Outputs
  <2>1. \A q \in Ties : \E r \in PinsOf(q[1]) : EditNets[r] = {}
    BY DEF TiesKept
  <2> QED
    BY <1>1, <2>1, PinFacts DEF Ties
<1>5. Unconstrained' \subseteq Unconstrained /\ \A q \in Unconstrained' : q[1] # i
  BY <1>1 DEF Unconstrained
<1>6. /\ LoadsCurrent(sim_value, StaleLoads) => LoadsCurrent(sim_value, StaleLoads)'
      /\ LoadsCurrent(sim_value, {}) => LoadsCurrent(sim_value, {})'
  <2>1. PinsOf(i) \in SUBSET Pins
    BY DEF PinsOf
  <2>2. /\ invalid_load_pins \subseteq invalid_load_pins' \cup PinsOf(i)
        /\ invalid_drvr_pins \subseteq invalid_drvr_pins' \cup PinsOf(i)
        /\ \A q \in Pins \ PinsOf(i) : sim_value'[q] = sim_value[q]
        /\ \A q \in PinsOf(i) \cap Inputs : q \in Unconstrained' => sim_value'[q] = "unknown"
    BY <1>1, <1>3, <1>5 DEF PinsOf
  <2> QED
    BY <1>1, <1>2, <1>5, <2>1, <2>2, UnpluggedLoads
<1>7. ASSUME NEW Q, NEW R, R = Q \ {i}, OutputsQueued(sim_value, Q, FALSE, {})
      PROVE  \A q \in Unconstrained' \cap Outputs :
               sim_value'[q] # EvalOutput(q, FALSE, sim_value)' => q[1] \in R
  <2>1. \A q \in Outputs : /\ q \in Unconstrained' /\ q[1] # i
                           /\ sim_value'[q] # EvalOutput(q, FALSE, sim_value)'
                           => q[1] \in Q
    BY <1>2, <1>3, <1>5, <1>7, UnpluggedOutputs
  <2> QED
    BY <1>5, <1>7, <2>1
<1>8. FuncPins'
  <2>1. \A q \in Ties : ConstFuncValue(q)' = ConstFuncValue(q) /\ sim_value'[q] = sim_value[q]
    BY <1>2, <1>3, <1>4, SameFunctions
  <2>2. const_func_pins = Ties => const_func_pins' = Ties
    BY <1>1, <1>4 DEF PinsOf
  <2> QED
    BY <1>1, <1>4, <2>1, <2>2 DEF SimInv, Consistent, FuncPins, Exist, TiesSet
<1>9. Recorded'
  <2>1. OutputsQueued(sim_value, invalid_insts, FALSE, {}) =>
          OutputsQueued(sim_value, invalid_insts, FALSE, {})'
    BY <1>1, <1>7 DEF OutputsQueued
  <2>2. InForce(sim_value, CasePins) => InForce(sim_value, CasePins)'
    <3>1. \A q \in CasePins : Known(case_value'[q]) => q[1] # i /\ q \in Pins
      BY <1>1, <1>2, SimAssumption DEF DeleteInstance, PinsOf
    <3> QED
      BY <1>1, <1>3, <3>1 DEF InForce
  <2> QED
    BY <1>1, <1>6, <2>1, <2>2 DEF SimInv, Consistent, Recorded
<1>10. Propagated'
  <2>1. OutputsQueued(sim_value, {}, FALSE, {}) => OutputsQueued(sim_value, {}, FALSE, {})'
    <3>1. {} = {} \ {i}
      OBVIOUS
    <3> QED
      BY <1>7, <3>1 DEF OutputsQueued
  <2> QED
    BY <1>1, <1>6, <2>1 DEF SimInv, Consistent, Propagated
<1> QED
  BY <1>1, <1>8, <1>9, <1>10 DEF Consistent, Settling

LEMMA NextSimInv ==
  ASSUME FunctionsKept, TiesKept, DataVaries
  PROVE  SimInv /\ [Next]_vars => SimInv'
<1> SUFFICES ASSUME SimInv, [Next]_vars PROVE SimInv'
  OBVIOUS
<1>1. Wellformed'
  BY NextWellformed DEF SimInv
<1>2. CASE EditStep
  BY <1>1, <1>2, CaseAnalysisConsistent, ConnectConsistent, DisconnectConsistent,
     ReplaceConsistent, MakeInstanceConsistent, DeleteInstanceConsistent DEF EditStep, SimInv
<1>3. CASE UNCHANGED vars
  <2>1. UNCHANGED <<netVars, case_value, instances, sim_value, valid, incremental, const_func_pins,
                    const_func_pins_valid, invalid_insts, invalid_drvr_pins, invalid_load_pins,
                    eval_queue, pc>>
    BY <1>3 DEF vars, netVars, validVars, funcVars, invalidVars, evalVars
  <2>2. StaleLoads' = StaleLoads /\ \A p : ConstFuncValue(p)' = ConstFuncValue(p)
    BY <2>1, SameNetlist DEF netVars, StaleLoads, Drivers
  <2>3. FuncPins'
    BY <2>1, <2>2 DEF SimInv, Consistent, FuncPins, TiesSet, Exist
  <2>4. Settling'
    BY <2>1, SameNetlist DEF SimInv, Consistent, Settling
  <2>5. Recorded'
    BY <2>1, <2>2, SameNetlist DEF SimInv, Consistent, Recorded
  <2>6. Propagated'
    BY <2>1, SameNetlist DEF SimInv, Consistent, Propagated
  <2> QED
    BY <1>1, <2>3, <2>4, <2>5, <2>6 DEF SimInv, Consistent
<1> QED
  BY <1>1, <1>2, <1>3, FromScratchConsistent, IncrementalConsistent, EvalInstanceConsistent,
     FindDisabledConsistent, FindLogicConsistent, ClearLogicConsistent
  DEF Next, Propagate, SimInv

-----------------------------------------------------------------------------
(* What the invariant shows.                                               *)

LEMMA WhereFrom ==
  \A p \in Pins : ValueFrom(p) = IF p \in Outputs THEN EvalOutput(p, pc = "logic", sim_value)
                                 ELSE LoadValue(p, sim_value)
<1> TAKE p \in Pins
<1>1. CASE p \in Outputs
  BY <1>1, PinFacts DEF ValueFrom
<1>2. CASE p \notin Outputs
  BY <1>2 DEF ValueFrom, LoadValue, Pins
<1> QED
  BY <1>1, <1>2

LEMMA InvCurrent == SimInv => ValuesCurrent /\ NoLostChange
<1> SUFFICES ASSUME SimInv PROVE ValuesCurrent /\ NoLostChange
  OBVIOUS
<1>1. \A p \in Unconstrained : p \in Pins
  BY DEF Unconstrained
<1>2. ValuesCurrent
  <2>1. CASE pc = "idle" /\ valid
    <3>1. (pc = "logic") = FALSE
      BY <2>1
    <3>2. /\ LoadsCurrent(sim_value, {}) /\ OutputsQueued(sim_value, {}, pc = "logic", {})
          /\ InForce(sim_value, CasePins)
      BY <2>1, <3>1 DEF SimInv, Consistent, Propagated, Recorded
    <3> QED
      BY <1>1, <3>2, WhereFrom DEF ValuesCurrent, LoadsCurrent, OutputsQueued, InForce, Pins
  <2>2. CASE pc = "logic" /\ eval_queue = <<>>
    <3>1. LoadsCurrent(sim_value, {}) /\ OutputsQueued(sim_value, {}, pc = "logic", {})
      <4>1. Range(eval_queue) = {} /\ pc # "idle"
        BY <2>2 DEF Range
      <4> QED
        BY <4>1 DEF SimInv, Consistent, Settling
    <3> QED
      BY <1>1, <2>2, <3>1, WhereFrom DEF ValuesCurrent, LoadsCurrent, OutputsQueued, Pins
  <2> QED
    BY <2>1, <2>2 DEF ValuesCurrent
<1>3. NoLostChange
  <2>1. SUFFICES ASSUME pc = "idle", incremental, NEW p \in Unconstrained, sim_value[p] # ValueFrom(p)
                 PROVE  /\ ~valid
                        /\ IF p \in Outputs THEN p[1] \in invalid_insts
                           ELSE \/ p \in invalid_load_pins
                                \/ Drivers(net[p]) \cap invalid_drvr_pins # {}
    BY DEF NoLostChange
  <2>2. (pc = "logic") = FALSE
    BY <2>1
  <2>3. ~valid
    BY <1>1, <1>2, <2>1 DEF ValuesCurrent
  <2>4. CASE p \in Outputs
    BY <1>1, <2>1, <2>2, <2>3, <2>4, WhereFrom DEF SimInv, Consistent, Recorded, OutputsQueued
  <2>5. CASE p \notin Outputs
    BY <1>1, <2>1, <2>3, <2>5, WhereFrom
    DEF SimInv, Consistent, Recorded, LoadsCurrent, StaleLoads, Pins
  <2> QED
    BY <2>3, <2>4, <2>5
<1> QED
  BY <1>2, <1>3

\* When constants have been propagated every value agrees with the pins that
\* determine it, whatever was connected, disconnected, made, deleted or
\* constrained before, if edits keep the functions of cells and keep tie cells,
\* and no register loads a constant (ensureConstantsPropagated,
\* findLogicConstants).
THEOREM ValuesAreCurrent ==
  ASSUME FunctionsKept, TiesKept, DataVaries
  PROVE  Spec => []ValuesCurrent
<1>1. Init => SimInv
  BY InitWellformed, InitConsistent DEF SimInv
<1>2. SimInv => ValuesCurrent
  BY InvCurrent
<1> QED
  BY <1>1, <1>2, NextSimInv, PTL DEF Spec

\* Between propagations a value that an edit made wrong is recorded where the
\* next one starts, under the same conditions (connectPinAfter,
\* disconnectPinBefore, deletePinBefore).
THEOREM ChangesRecorded ==
  ASSUME FunctionsKept, TiesKept, DataVaries
  PROVE  Spec => []NoLostChange
<1>1. Init => SimInv
  BY InitWellformed, InitConsistent DEF SimInv
<1>2. SimInv => NoLostChange
  BY InvCurrent
<1> QED
  BY <1>1, <1>2, NextSimInv, PTL DEF Spec
=============================================================================
