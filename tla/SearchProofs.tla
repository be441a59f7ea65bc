---------------------------- MODULE SearchProofs ----------------------------
(***************************************************************************)
(* Proofs about Search for every graph and every choice of delays, output  *)
(* delays, edits and queries: the type invariant, and that no edit,        *)
(* query or visit ever loses an arrival that has to be found again; so     *)
(* when nothing is left to be found, arrivals are those of a search from   *)
(* scratch.                                                                *)
(*                                                                         *)
(* NoLostArrival is not inductive alone: an invalidation is dropped when   *)
(* arrivals do not exist, so the invariant also says that arrivals exist   *)
(* exactly while they are seeded, and that before that no vertex has a     *)
(* path.                                                                   *)
(*                                                                         *)
(* The second part is about the slacks that queries return: where edits    *)
(* keep the graph and the requireds, each is that of a search from         *)
(* scratch.  The third is about the total negative slack, which is kept    *)
(* from query to query: it is the sum over a search from scratch.          *)
(***************************************************************************)
EXTENDS Search, FiniteSetTheorems, WellFoundedInduction, TLAPS

-----------------------------------------------------------------------------
(* Finite sets of integers have a least and a greatest element, and so     *)
(* have the values of an integer function with a finite domain.            *)

HasMin(S) == \E x \in S : \A y \in S : x <= y

\* Every finite, non-empty set of integers has a least element: a smallest set
\* that had none would have none after losing an element either.
LEMMA FiniteHasMin ==
  ASSUME NEW S, IsFiniteSet(S), S \subseteq Int, S # {}
  PROVE  HasMin(S)
<1> DEFINE Bad == {A \in SUBSET S : A # {} /\ ~HasMin(A)}
           Sizes == {Cardinality(A) : A \in Bad}
<1>1. \A A \in SUBSET S : IsFiniteSet(A) /\ Cardinality(A) \in Nat
  BY FS_Subset, FS_CardinalityType
<1>2. SUFFICES ASSUME Bad # {} PROVE FALSE
  OBVIOUS
<1>3. PICK n \in Sizes : \A m \in Sizes : n <= m
  <2> DEFINE R == {ss \in Nat \X Nat : ss[1] < ss[2]}
  <2>1. IsWellFoundedOn(R, Nat)
    BY NatLessThanWellFounded DEF OpToRel
  <2>2. Sizes \subseteq Nat /\ Sizes # {}
    BY <1>1, <1>2
  <2>3. \E n \in Sizes : \A m \in Sizes : <<m, n>> \notin R
    <3> HIDE DEF R, Sizes
    <3> QED
      BY <2>1, <2>2, WFMin
  <2>4. \A m, n \in Nat : <<m, n>> \notin R => n <= m
    OBVIOUS
  <2> QED
    <3> HIDE DEF R, Sizes
    <3> QED
      BY <2>2, <2>3, <2>4
<1>4. PICK A \in Bad : \A B \in Bad : Cardinality(A) <= Cardinality(B)
  BY <1>3
<1>5. PICK x \in A : TRUE
  OBVIOUS
<1>6. CASE A = {x}
  BY <1>6, <1>5 DEF HasMin
<1>7. CASE A # {x}
  <2> DEFINE B == A \ {x}
  <2>1. B # {} /\ B \in SUBSET S
    BY <1>7, <1>5
  <2>2. Cardinality(B) = Cardinality(A) - 1
    BY <1>1, <1>5, FS_RemoveElement
  <2>3. B \notin Bad
    <3>1. Cardinality(A) \in Nat /\ Cardinality(B) \in Nat
      BY <1>1, <2>1
    <3> QED
      BY <3>1, <2>2, <1>4
  <2>4. PICK b \in B : \A y \in B : b <= y
    BY <2>1, <2>3 DEF HasMin
  <2>5. x \in Int /\ b \in Int /\ \A y \in A : y \in Int
    BY <1>5
  <2>6. CASE b <= x
    BY <2>4, <2>5, <2>6 DEF HasMin
  <2>7. CASE x < b
    BY <2>4, <2>5, <2>7, <1>5 DEF HasMin
  <2> QED
    BY <2>5, <2>6, <2>7
<1> QED
  BY <1>6, <1>7

\* Min of the community modules is that element.
LEMMA MinOfFinite ==
  ASSUME NEW S, IsFiniteSet(S), S \subseteq Int, S # {}
  PROVE  Min(S) \in S /\ \A y \in S : Min(S) <= y
BY FiniteHasMin DEF HasMin, Min

\* The values of an integer function with a finite domain are a finite set of
\* integers.
LEMMA FiniteRange ==
  ASSUME NEW S, IsFiniteSet(S), NEW f \in [S -> Int]
  PROVE  IsFiniteSet(Range(f)) /\ Range(f) \subseteq Int
<1>1. Range(f) \subseteq Int
  BY DEF Range
<1>2. f \in Surjection(S, Range(f))
  BY DEF Surjection, Range
<1> QED
  BY <1>1, <1>2, FS_Surjection

\* An integer function with a finite, non-empty domain takes its greatest value
\* somewhere.
LEMMA FiniteArgMax ==
  ASSUME NEW S, IsFiniteSet(S), S # {}, NEW f \in [S -> Int]
  PROVE  \E x \in S : \A y \in S : f[y] <= f[x]
<1> DEFINE g == [x \in S |-> -f[x]]
<1>1. g \in [S -> Int]
  OBVIOUS
<1>2. IsFiniteSet(Range(g)) /\ Range(g) \subseteq Int
  BY <1>1, FiniteRange
<1>3. Range(g) # {}
  BY DEF Range
<1>4. PICK m \in Range(g) : \A y \in Range(g) : m <= y
  BY <1>2, <1>3, FiniteHasMin DEF HasMin
<1>5. PICK x \in S : g[x] = m
  BY <1>4 DEF Range
<1>6. \A y \in S : g[x] <= g[y]
  BY <1>4, <1>5 DEF Range
<1> QED
  BY <1>6

\* Max of the community modules is the greatest element.
LEMMA MaxOfFinite ==
  ASSUME NEW S, IsFiniteSet(S), S \subseteq Int, S # {}
  PROVE  Max(S) \in S /\ \A y \in S : y <= Max(S)
<1>1. [x \in S |-> x] \in [S -> Int]
  OBVIOUS
<1>2. PICK m \in S : \A y \in S : [x \in S |-> x][y] <= [x \in S |-> x][m]
  BY <1>1, FiniteArgMax
<1>3. \A y \in S : y <= m
  BY <1>2
<1> QED
  BY <1>3 DEF Max

-----------------------------------------------------------------------------
(* The inductive invariant of the arrivals.                                *)

SearchInv ==
  /\ TypeOK
  /\ arrivals_exist = arrivals_seeded
  /\ ~arrivals_seeded => /\ \A v \in Vertices : path[v] = NoPath
                         /\ invalid_arrivals \cup arrival_iter = {}
  /\ NoLostArrival

-----------------------------------------------------------------------------
(* What a visit computes.                                                  *)

LEMMA NumberTypes ==
  /\ Delays \subseteq Int
  /\ EndReqs \subseteq Int
  /\ Infinity \in Int
  /\ InputArrival \in Int
BY ValueAssumption

LEMMA NoPathType == NoPath \notin Paths
BY ValueAssumption DEF Paths

LEMMA DelayType ==
  ASSUME TypeOK
  PROVE  \A e \in Edges : delay[e] \in Int
BY NumberTypes DEF TypeOK

\* A vertex is not its own fanin, so its visit does not change what the next
\* visit of it would find.
LEMMA NoSelfEdge ==
  ASSUME TypeOK, NEW v \in Vertices
  PROVE  \A e \in FaninEdges(v) : e[1] # v /\ e[1] \in Vertices /\ e \in Edges
<1>1. \A e \in Edges : Level[e[1]] < Level[e[2]] /\ e[1] \in Vertices /\ e[2] \in Vertices
  BY GraphAssumption
<1>2. \A e \in FaninEdges(v) : e \in Edges /\ e[2] = v
  BY DEF TypeOK, FaninEdges
<1>3. Level[v] \in Nat
  BY GraphAssumption
<1> QED
  BY <1>1, <1>2, <1>3

LEMMA FaninArrivalsType ==
  ASSUME TypeOK, NEW v \in Vertices
  PROVE  /\ FaninArrivals(v) \in [DOMAIN FaninArrivals(v) -> Int]
         /\ DOMAIN FaninArrivals(v) \subseteq Edges
         /\ IsFiniteSet(DOMAIN FaninArrivals(v))
<1> DEFINE D == {f \in FaninEdges(v) : path[f[1]] # NoPath}
<1>1. DOMAIN FaninArrivals(v) = D
  BY DEF FaninArrivals
<1>2. D \subseteq Edges
  BY DEF TypeOK, FaninEdges
<1>3. \A e \in D : path[e[1]].arr \in Int
  BY NoSelfEdge DEF TypeOK, Paths
<1>4. \A e \in D : delay[e] \in Int
  BY <1>2, DelayType
<1>5. FaninArrivals(v) \in [D -> Int]
  BY <1>3, <1>4 DEF FaninArrivals
<1>6. IsFiniteSet(D)
  BY <1>2, FS_Subset, GraphAssumption
<1> QED
  BY <1>1, <1>2, <1>5, <1>6

\* A visit of a vertex finds a path or no path.
LEMMA FoundPathType ==
  ASSUME TypeOK, NEW v \in Vertices
  PROVE  FoundPath(v) \in Paths \cup {NoPath}
<1> DEFINE arrs == FaninArrivals(v)
           last == LatestEdge(arrs)
<1>1. CASE v \in Inputs
  BY <1>1, NumberTypes DEF FoundPath, Paths
<1>2. CASE v \notin Inputs /\ DOMAIN arrs = {}
  BY <1>2 DEF FoundPath
<1>3. CASE v \notin Inputs /\ DOMAIN arrs # {}
  <2>1. last \in DOMAIN arrs
    BY <1>3, FaninArrivalsType, FiniteArgMax DEF LatestEdge
  <2>2. arrs[last] \in Int /\ last \in Edges
    BY <2>1, FaninArrivalsType
  <2>3. FoundPath(v) = [arr |-> arrs[last], req |-> 0, prev |-> last]
    BY <1>3 DEF FoundPath
  <2> HIDE DEF arrs, last
  <2> QED
    BY <2>2, <2>3 DEF Paths
<1> QED
  BY <1>1, <1>2, <1>3

\* A required time is an integer: the least of finitely many.
LEMMA FoundRequiredType ==
  ASSUME TypeOK, NEW v \in Vertices
  PROVE  FoundRequired(v) \in Int
<1> DEFINE D == {f \in FanoutEdges(v) : path[f[2]] # NoPath}
           own == IF IsEndpoint(v) THEN {endReq[v]} ELSE {}
           S == {Infinity} \cup own \cup Range(FanoutRequireds(v))
<1>1. D \subseteq Edges
  BY DEF TypeOK, FanoutEdges
<1>2. \A e \in D : path[e[2]].req \in Int /\ delay[e] \in Int
  <2>1. \A e \in D : e[2] \in Vertices
    BY <1>1, GraphAssumption
  <2> QED
    BY <1>1, <2>1, DelayType DEF TypeOK, Paths
<1>3. \A e \in D : Minus(path[e[2]].req, delay[e]) \in Int
  <2>1. \A r, d \in Int : Minus(r, d) \in Int
    BY NumberTypes DEF Minus
  <2> QED
    BY <1>2, <2>1
<1>4. FanoutRequireds(v) \in [D -> Int]
  <2> HIDE DEF D
  <2>1. \A e \in D : Minus(path[e[2]].req, delay[e]) \in Int
    BY <1>3
  <2>2. FanoutRequireds(v) = [e \in D |-> Minus(path[e[2]].req, delay[e])]
    BY DEF FanoutRequireds, D
  <2> QED
    BY <2>1, <2>2
<1>5. IsFiniteSet(Range(FanoutRequireds(v))) /\ Range(FanoutRequireds(v)) \subseteq Int
  <2>1. IsFiniteSet(D)
    BY <1>1, FS_Subset, GraphAssumption
  <2> HIDE DEF D
  <2> QED
    BY <1>4, <2>1, FiniteRange
<1>6. own \subseteq Int /\ Infinity \in Int
  BY NumberTypes DEF TypeOK
<1>7. IsFiniteSet(S)
  <2>1. IsFiniteSet(Range(FanoutRequireds(v)) \cup {Infinity})
    BY <1>5, FS_AddElement
  <2>2. CASE IsEndpoint(v)
    <3>1. S = (Range(FanoutRequireds(v)) \cup {Infinity}) \cup {endReq[v]}
      BY <2>2
    <3> QED
      BY <2>1, <3>1, FS_AddElement
  <2>3. CASE ~IsEndpoint(v)
    <3>1. S = Range(FanoutRequireds(v)) \cup {Infinity}
      BY <2>3
    <3> QED
      BY <2>1, <3>1
  <2> QED
    BY <2>2, <2>3
<1>8. S # {} /\ S \subseteq Int
  BY <1>5, <1>6
<1>9. FoundRequired(v) = Min(S)
  BY DEF FoundRequired
<1> HIDE DEF S
<1> QED
  BY <1>7, <1>8, <1>9, MinOfFinite

LEMMA NegativeSlackType ==
  ASSUME TypeOK, NEW p \in [Vertices -> Paths \cup {NoPath}], NEW v \in Vertices
  PROVE  NegativeSlack(p, v) \in Int
<1>1. \A r, d \in Int : Minus(r, d) \in Int
  BY NumberTypes DEF Minus
<1>2. p[v] # NoPath => p[v].arr \in Int /\ p[v].req \in Int
  BY DEF Paths
<1>3. endReq[v] \in Int
  BY NumberTypes DEF TypeOK
<1>4. WnsSlack(p, v) \in Int
  BY <1>1, <1>2, <1>3, NumberTypes DEF WnsSlack, Slack
<1>5. \A x \in Int : Min({0, x}) \in Int
  <2> TAKE x \in Int
  <2>1. IsFiniteSet({0, x})
    <3>1. {0, x} = {0} \cup {x}
      OBVIOUS
    <3>2. IsFiniteSet({0})
      BY FS_Singleton
    <3> QED
      BY <3>1, <3>2, FS_AddElement
  <2> QED
    BY <2>1, MinOfFinite
<1> QED
  BY <1>4, <1>5 DEF NegativeSlack

\* Seeding changes required times only.
LEMMA SeededPathType ==
  ASSUME TypeOK, NEW S \in SUBSET Vertices
  PROVE  /\ SeededPath(S) \in [Vertices -> Paths \cup {NoPath}]
         /\ \A v \in Vertices : SameArrival(path[v], SeededPath(S)[v])
<1>1. \A v \in Vertices : endReq[v] \in Int
  BY NumberTypes DEF TypeOK
<1>2. ASSUME NEW v \in Vertices
      PROVE  /\ SeededRequired(v) \in Paths \cup {NoPath}
             /\ SameArrival(path[v], SeededRequired(v))
  <2>1. CASE path[v] = NoPath
    BY <2>1 DEF SeededRequired, WithRequired, SameArrival
  <2>2. CASE path[v] # NoPath
    <3> DEFINE p == path[v]
               q == [p EXCEPT !.req = endReq[v]]
    <3>1. p \in Paths /\ endReq[v] \in Int
      BY <1>1, <2>2 DEF TypeOK
    <3>2. q \in Paths /\ q.arr = p.arr /\ q.prev = p.prev
      BY <3>1 DEF Paths
    <3>3. SeededRequired(v) = q
      BY <2>2 DEF SeededRequired, WithRequired
    <3> HIDE DEF q
    <3> QED
      BY <3>1, <3>2, <3>3, NoPathType DEF SameArrival
  <2> QED
    BY <2>1, <2>2
<1> QED
  BY <1>2 DEF SeededPath, TypeOK, SameArrival

LEMMA CurrentEndpointsType ==
  ASSUME TypeOK
  PROVE  CurrentEndpoints \subseteq Vertices
BY DEF CurrentEndpoints, TypeOK

-----------------------------------------------------------------------------
(* Type correctness.                                                       *)

LEMMA InitTypeOK == Init => TypeOK
<1> SUFFICES ASSUME Init PROVE TypeOK
  OBVIOUS
<1>1. /\ delay \in [Edges -> Delays]
      /\ endReq \in [Vertices -> EndReqs \cup {Infinity}]
      /\ path \in [Vertices -> Paths \cup {NoPath}]
      /\ tns_slacks \in [Vertices -> Int]
  BY ValueAssumption DEF Init
<1> QED
  BY <1>1 DEF Init, TypeOK

LEMMA InvalidateType ==
  ASSUME TypeOK, NEW es, NEW reqs, NEW A \in SUBSET Vertices, NEW R \in SUBSET Vertices,
         InvalidateIn(es, reqs, A, R)
  PROVE  /\ invalid_arrivals' \subseteq Vertices
         /\ invalid_requireds' \subseteq Vertices
         /\ invalid_tns' \subseteq Vertices
BY DEF InvalidateIn, ArrivalsToRecord, RequiredsToRecord, TypeOK

\* Every edit keeps the types.
LEMMA EditTypeOK ==
  ASSUME TypeOK, EditStep
  PROVE  TypeOK'
<1>1. ASSUME NEW e \in AnnotEdges, NEW d \in Delays, SetArcDelay(e, d)
      PROVE  TypeOK'
  <2>1. e[1] \in Vertices /\ e[2] \in Vertices
    BY GraphAssumption, ValueAssumption
  <2>2. /\ invalid_arrivals' \subseteq Vertices
        /\ invalid_requireds' \subseteq Vertices
        /\ invalid_tns' \subseteq Vertices
    BY <1>1, <2>1, InvalidateType DEF SetArcDelay, Invalidate
  <2> QED
    BY <1>1, <2>2 DEF SetArcDelay, Edit, TypeOK, endpointVars
<1>2. ASSUME NEW v \in EndPins, NEW r \in EndReqs, SetOutputDelay(v, r)
      PROVE  TypeOK'
  <2>1. v \in Vertices
    BY ValueAssumption
  <2>2. /\ invalid_arrivals' \subseteq Vertices
        /\ invalid_requireds' \subseteq Vertices
        /\ invalid_tns' \subseteq Vertices
    BY <1>2, <2>1, InvalidateType DEF SetOutputDelay
  <2> QED
    BY <1>2, <2>1, <2>2 DEF SetOutputDelay, Edit, TypeOK, endpointVars
<1>3. ASSUME NEW v \in EndPins, RemoveOutputDelay(v)
      PROVE  TypeOK'
  <2>1. v \in Vertices
    BY ValueAssumption
  <2>2. /\ invalid_arrivals' \subseteq Vertices
        /\ invalid_requireds' \subseteq Vertices
        /\ invalid_tns' \subseteq Vertices
    BY <1>3, <2>1, InvalidateType DEF RemoveOutputDelay
  <2> QED
    BY <1>3, <2>1, <2>2 DEF RemoveOutputDelay, Edit, TypeOK, endpointVars
<1>4. ASSUME NEW e \in Wires, DisconnectLoad(e)
      PROVE  TypeOK'
  <2>1. e[1] \in Vertices /\ e[2] \in Vertices
    BY GraphAssumption
  <2>2. /\ invalid_arrivals' \subseteq Vertices
        /\ invalid_requireds' \subseteq Vertices
        /\ invalid_tns' \subseteq Vertices
    BY <1>4, <2>1, InvalidateType DEF DisconnectLoad, Invalidate
  <2>3. path' \in [Vertices -> Paths \cup {NoPath}]
    BY <1>4, <2>1 DEF DisconnectLoad, TypeOK, Paths
  <2> QED
    BY <1>4, <2>2, <2>3 DEF DisconnectLoad, Edit, TypeOK, endpointVars
<1>5. ASSUME NEW e \in Wires, ConnectLoad(e)
      PROVE  TypeOK'
  <2>1. e[1] \in Vertices /\ e[2] \in Vertices /\ e \in Edges
    BY GraphAssumption
  <2>2. /\ invalid_arrivals' \subseteq Vertices
        /\ invalid_requireds' \subseteq Vertices
        /\ invalid_tns' \subseteq Vertices
    BY <1>5, <2>1, InvalidateType DEF ConnectLoad
  <2> QED
    BY <1>5, <2>1, <2>2 DEF ConnectLoad, Edit, TypeOK
<1>6. CASE RequiredsInvalid
  BY <1>6 DEF RequiredsInvalid, TypeOK, inputVars, arrivalVars, endpointVars
<1>7. CASE ArrivalsInvalid
  BY <1>7 DEF ArrivalsInvalid, TypeOK, inputVars, endpointVars
<1> QED
  BY <1>1, <1>2, <1>3, <1>4, <1>5, <1>6, <1>7 DEF EditStep

\* Every step of a query keeps the types.
LEMMA QueryTypeOK ==
  ASSUME TypeOK, NEW q, NEW v \in Vertices \cup {NoPath}, StartQuery(q, v)
  PROVE  TypeOK'
<1>1. q \in {"update", "slack", "tns"}
  BY ValueAssumption DEF StartQuery
<1>2. StartPoints \subseteq Vertices
  BY GraphAssumption DEF StartPoints
<1>3. arrival_iter' \subseteq Vertices
  BY <1>2 DEF StartQuery, TypeOK
<1> QED
  BY <1>1, <1>3 DEF StartQuery, TypeOK, inputVars, requiredVars, tnsVars, endpointVars

LEMMA SearchTypeOK ==
  ASSUME TypeOK, SearchStep
  PROVE  TypeOK'
<1> USE DEF inputVars, arrivalVars, requiredVars, tnsVars, endpointVars, callVars
<1>1. ASSUME NEW v \in Vertices, VisitArrival(v)
      PROVE  TypeOK'
  <2>1. path' \in [Vertices -> Paths \cup {NoPath}]
    <3>1. FoundPath(v) \in Paths \cup {NoPath}
      BY FoundPathType
    <3> QED
      BY <1>1, <3>1 DEF VisitArrival, SetVertexArrivals, RequiredsToRecord, TypeOK
  <2>2. /\ arrival_iter' \subseteq Vertices
        /\ invalid_requireds' \subseteq Vertices
        /\ invalid_tns' \subseteq Vertices
    BY <1>1 DEF VisitArrival, SetVertexArrivals, RequiredsToRecord, Fanout, TypeOK
  <2>3. tns_slacks' \in [Vertices -> Int]
    BY <1>1 DEF VisitArrival, SetVertexArrivals, RequiredsToRecord, TypeOK
  <2> QED
    BY <1>1, <2>1, <2>2, <2>3 DEF VisitArrival, SetVertexArrivals, RequiredsToRecord, TypeOK
<1>2. ASSUME NEW v \in Vertices, VisitRequired(v)
      PROVE  TypeOK'
  <2>1. path' \in [Vertices -> Paths \cup {NoPath}]
    <3>1. WithRequired(path[v], FoundRequired(v)) \in Paths \cup {NoPath}
      BY FoundRequiredType DEF WithRequired, TypeOK, Paths
    <3> QED
      BY <1>2, <3>1 DEF VisitRequired, TypeOK
  <2>2. required_iter' \subseteq Vertices /\ invalid_tns' \subseteq Vertices
    BY <1>2 DEF VisitRequired, Fanin, TypeOK
  <2> QED
    BY <1>2, <2>1, <2>2 DEF VisitRequired, TypeOK
<1>3. CASE EndUpdate
  BY <1>3 DEF EndUpdate, TypeOK
<1>4. CASE EndpointSlack
  <2>1. query[2] \in Vertices
    BY <1>4, GraphAssumption DEF EndpointSlack, IsEndpoint, EndpointIn, TypeOK
  <2>2. path' \in [Vertices -> Paths \cup {NoPath}]
    BY <1>4, <2>1, SeededPathType DEF EndpointSlack
  <2>3. required_iter' \subseteq Vertices
    BY <1>4 DEF EndpointSlack, SeededFanin, Fanin, TypeOK
  <2> QED
    BY <1>4, <2>2, <2>3 DEF EndpointSlack, TypeOK
<1>5. CASE FindRequireds
  <2> DEFINE seeds == IF requireds_seeded THEN {} ELSE CurrentEndpoints
  <2>1. seeds \in SUBSET Vertices /\ CurrentEndpoints \subseteq Vertices
    BY CurrentEndpointsType
  <2>2. path' \in [Vertices -> Paths \cup {NoPath}]
    BY <1>5, <2>1, SeededPathType DEF FindRequireds
  <2>3. required_iter' \subseteq Vertices
    BY <1>5 DEF FindRequireds, SeededFanin, Fanin, TypeOK
  <2>4. /\ endpoints' \subseteq Vertices /\ invalid_endpoints' \subseteq Vertices
        /\ endpoints_initialized' \in BOOLEAN
    BY <1>5, <2>1 DEF FindRequireds, RefreshEndpoints, TypeOK
  <2> QED
    BY <1>5, <2>2, <2>3, <2>4 DEF FindRequireds, TypeOK
<1>6. CASE EndRequireds
  BY <1>6 DEF EndRequireds, TypeOK
<1>7. CASE TotalNegativeSlack
  <2> DEFINE seeds == IF requireds_seeded
                      THEN {v \in invalid_requireds : IsEndpoint(v)} ELSE CurrentEndpoints
             requeued == IF requireds_seeded THEN {v \in seeds : HasFanout(v)} ELSE {}
             counted == IF tns_exists
                        THEN {v \in invalid_tns : IsEndpoint(v)} ELSE CurrentEndpoints
             kept == IF tns_exists THEN tns_slacks ELSE [v \in Vertices |-> 0]
  <2>1. /\ path' = SeededPath(seeds)
        /\ required_iter' = required_iter \cup SeededFanin(seeds) \cup requeued
        /\ tns_slacks' = [v \in Vertices |->
                            IF v \in counted THEN NegativeSlack(path', v) ELSE kept[v]]
    BY <1>7 DEF TotalNegativeSlack, WnsTnsPreamble
  <2>2. seeds \in SUBSET Vertices /\ CurrentEndpoints \subseteq Vertices
    BY CurrentEndpointsType DEF TypeOK
  <2>3. path' \in [Vertices -> Paths \cup {NoPath}]
    BY <2>1, <2>2, SeededPathType
  <2>4. required_iter' \subseteq Vertices
    BY <2>1, <2>2 DEF SeededFanin, Fanin, TypeOK
  <2>5. tns_slacks' \in [Vertices -> Int]
    <3>1. \A v \in Vertices : NegativeSlack(path', v) \in Int
      BY <2>3, NegativeSlackType
    <3>2. \A v \in Vertices : kept[v] \in Int
      BY DEF TypeOK
    <3> QED
      BY <2>1, <3>1, <3>2
  <2>6. /\ endpoints' \subseteq Vertices /\ invalid_endpoints' \subseteq Vertices
        /\ endpoints_initialized' \in BOOLEAN
    BY <1>7, <2>2 DEF TotalNegativeSlack, WnsTnsPreamble, RefreshEndpoints, TypeOK
  <2>7. invalid_requireds' \subseteq Vertices
    BY <1>7 DEF TotalNegativeSlack, WnsTnsPreamble, TypeOK
  <2> HIDE DEF seeds, requeued, counted, kept
  <2> QED
    BY <1>7, <2>3, <2>4, <2>5, <2>6, <2>7 DEF TotalNegativeSlack, WnsTnsPreamble, TypeOK
<1> QED
  BY <1>1, <1>2, <1>3, <1>4, <1>5, <1>6, <1>7 DEF SearchStep

LEMMA StepTypeOK == TypeOK /\ [Next]_vars => TypeOK'
<1> SUFFICES ASSUME TypeOK, [Next]_vars PROVE TypeOK'
  OBVIOUS
<1>1. CASE EditStep
  BY <1>1, EditTypeOK
<1>2. CASE StartQuery("update", NoPath) \/ StartQuery("tns", NoPath)
  BY <1>2, QueryTypeOK
<1>3. CASE \E v \in QueryPins : StartQuery("slack", v)
  BY <1>3, QueryTypeOK, ValueAssumption
<1>4. CASE SearchStep
  BY <1>4, SearchTypeOK
<1>5. CASE UNCHANGED vars
  BY <1>5 DEF vars, inputVars, arrivalVars, requiredVars, tnsVars, endpointVars,
              callVars, TypeOK
<1> QED
  BY <1>1, <1>2, <1>3, <1>4, <1>5 DEF Next

\* The type invariant holds for every graph and every choice of edits and queries.
THEOREM TypeCorrect == Spec => []TypeOK
<1>1. Init => TypeOK
  BY InitTypeOK
<1>2. TypeOK /\ [Next]_vars => TypeOK'
  BY StepTypeOK
<1> QED
  BY <1>1, <1>2, PTL DEF Spec

-----------------------------------------------------------------------------
(* No arrival is lost.                                                     *)

\* What a visit of v finds depends on its fanin edges, their delays and the
\* arrivals at their sources only.
SameFanin(v) ==
  /\ FaninEdges(v)' = FaninEdges(v)
  /\ \A e \in FaninEdges(v) :
       /\ delay'[e] = delay[e]
       /\ path'[e[1]] = NoPath <=> path[e[1]] = NoPath
       /\ path[e[1]] # NoPath => path'[e[1]].arr = path[e[1]].arr

LEMMA SameFaninFoundPath ==
  ASSUME NEW v, SameFanin(v)
  PROVE  FoundPath(v)' = FoundPath(v)
<1>1. FaninArrivals(v)' = FaninArrivals(v)
  BY DEF SameFanin, FaninArrivals
<1> QED
  BY <1>1 DEF FoundPath, LatestEdge

LEMMA SameFaninUnchanged ==
  ASSUME NEW v, SameFanin(v), path'[v] = path[v]
  PROVE  ArrivalsChanged(v)' = ArrivalsChanged(v)
BY SameFaninFoundPath DEF ArrivalsChanged, SameArrival

\* A step that keeps the graph and the delays, and at every vertex at most
\* changes the required time, keeps every visit's outcome.
LEMMA RequiredStepUnchanged ==
  ASSUME TypeOK, UNCHANGED <<edges, delay>>,
         \A v \in Vertices : SameArrival(path[v], path'[v])
  PROVE  \A v \in Vertices : ArrivalsChanged(v)' = ArrivalsChanged(v)
<1> TAKE v \in Vertices
<1>1. FaninEdges(v)' = FaninEdges(v)
  BY DEF FaninEdges
<1>2. SameFanin(v)
  BY <1>1, NoSelfEdge DEF SameFanin, SameArrival
<1>3. FoundPath(v)' = FoundPath(v)
  BY <1>2, SameFaninFoundPath
<1> QED
  BY <1>3 DEF ArrivalsChanged, SameArrival

\* An edit keeps the invariant when it keeps the search's flags and queue,
\* records only the vertices A, and leaves every visit outside A its outcome.
LEMMA EditKeepsInv ==
  ASSUME SearchInv, NEW es, NEW reqs, NEW A \in SUBSET Vertices, NEW R,
         InvalidateIn(es, reqs, A, R),
         UNCHANGED <<arrivals_exist, arrivals_seeded, arrival_iter>>,
         \A v \in Vertices : path[v] = NoPath => path'[v] = NoPath,
         \A v \in Vertices \ A : ArrivalsChanged(v)' => ArrivalsChanged(v),
         TypeOK'
  PROVE  SearchInv'
<1>1. CASE arrivals_seeded
  <2>1. invalid_arrivals' = invalid_arrivals \cup (A \ arrival_iter)
    BY <1>1 DEF SearchInv, InvalidateIn, ArrivalsToRecord, RequiredsToRecord
  <2> QED
    BY <1>1, <2>1 DEF SearchInv, NoLostArrival
<1>2. CASE ~arrivals_seeded
  <2>1. invalid_arrivals' = invalid_arrivals
    BY <1>2 DEF SearchInv, InvalidateIn, ArrivalsToRecord, RequiredsToRecord
  <2> QED
    BY <1>2, <2>1 DEF SearchInv, NoLostArrival
<1> QED
  BY <1>1, <1>2

LEMMA EditNoLostArrival ==
  ASSUME SearchInv, EditStep
  PROVE  SearchInv'
<1>1. TypeOK /\ TypeOK'
  BY EditTypeOK DEF SearchInv
<1>2. ASSUME NEW e \in AnnotEdges, NEW d \in Delays, SetArcDelay(e, d)
      PROVE  SearchInv'
  <2>1. e[1] \in Vertices /\ e[2] \in Vertices
    BY GraphAssumption, ValueAssumption
  <2>2. ASSUME NEW v \in Vertices \ {e[2]}
        PROVE  ArrivalsChanged(v)' = ArrivalsChanged(v)
    <3>1. FaninEdges(v)' = FaninEdges(v)
      BY <1>2 DEF SetArcDelay, FaninEdges
    <3>2. \A f \in FaninEdges(v) : delay'[f] = delay[f]
      <4>1. \A f \in FaninEdges(v) : f \in Edges /\ f # e
        BY <1>1 DEF FaninEdges, TypeOK
      <4>2. \A f \in Edges : f # e => delay'[f] = delay[f]
        BY <1>1, <1>2 DEF SetArcDelay, TypeOK
      <4> QED
        BY <4>1, <4>2
    <3>3. SameFanin(v) /\ path'[v] = path[v]
      BY <1>2, <3>1, <3>2 DEF SameFanin, SetArcDelay
    <3> QED
      BY <3>3, SameFaninUnchanged
  <2> QED
    BY <1>1, <1>2, <2>1, <2>2, EditKeepsInv DEF SetArcDelay, Edit, Invalidate
<1>3. ASSUME NEW v \in EndPins, NEW r \in EndReqs, SetOutputDelay(v, r)
      PROVE  SearchInv'
  <2>1. \A w \in Vertices : ArrivalsChanged(w)' = ArrivalsChanged(w)
    <3>1. \A w \in Vertices : SameArrival(path[w], path'[w])
      BY <1>3 DEF SetOutputDelay, SameArrival
    <3> QED
      BY <1>1, <1>3, <3>1, RequiredStepUnchanged DEF SetOutputDelay
  <2> QED
    BY <1>1, <1>3, <2>1, EditKeepsInv DEF SetOutputDelay, Edit
<1>4. ASSUME NEW v \in EndPins, RemoveOutputDelay(v)
      PROVE  SearchInv'
  <2>1. \A w \in Vertices : ArrivalsChanged(w)' = ArrivalsChanged(w)
    <3>1. \A w \in Vertices : SameArrival(path[w], path'[w])
      BY <1>4 DEF RemoveOutputDelay, SameArrival
    <3> QED
      BY <1>1, <1>4, <3>1, RequiredStepUnchanged DEF RemoveOutputDelay
  <2> QED
    BY <1>1, <1>4, <2>1, EditKeepsInv, ValueAssumption DEF RemoveOutputDelay, Edit
<1>5. ASSUME NEW e \in Wires, DisconnectLoad(e)
      PROVE  SearchInv'
  <2>1. e[1] \in Vertices /\ e[2] \in Vertices
    BY GraphAssumption
  <2>2. \A v \in Vertices :
          /\ path'[v] = NoPath <=> path[v] = NoPath
          /\ path[v] # NoPath => path'[v].arr = path[v].arr
          /\ v # e[2] => path'[v] = path[v]
    BY <1>1, <1>5, <2>1, NoPathType DEF DisconnectLoad, TypeOK, Paths
  <2>3. ASSUME NEW v \in Vertices \ {e[2]}
        PROVE  ArrivalsChanged(v)' = ArrivalsChanged(v)
    <3>1. FaninEdges(v)' = FaninEdges(v)
      BY <1>5 DEF DisconnectLoad, FaninEdges
    <3>2. SameFanin(v) /\ path'[v] = path[v]
      BY <1>1, <1>5, <2>2, <3>1, NoSelfEdge DEF SameFanin, DisconnectLoad
    <3> QED
      BY <3>2, SameFaninUnchanged
  <2> QED
    BY <1>1, <1>5, <2>1, <2>2, <2>3, EditKeepsInv DEF DisconnectLoad, Edit, Invalidate
<1>6. ASSUME NEW e \in Wires, ConnectLoad(e)
      PROVE  SearchInv'
  <2>1. e[1] \in Vertices /\ e[2] \in Vertices
    BY GraphAssumption
  <2>2. ASSUME NEW v \in Vertices \ {e[2]}
        PROVE  ArrivalsChanged(v)' = ArrivalsChanged(v)
    <3>1. FaninEdges(v)' = FaninEdges(v)
      BY <1>6 DEF ConnectLoad, FaninEdges
    <3>2. SameFanin(v) /\ path'[v] = path[v]
      BY <1>6, <3>1 DEF SameFanin, ConnectLoad
    <3> QED
      BY <3>2, SameFaninUnchanged
  <2> QED
    BY <1>1, <1>6, <2>1, <2>2, EditKeepsInv DEF ConnectLoad, Edit
<1>7. CASE RequiredsInvalid
  <2>1. \A v \in Vertices : ArrivalsChanged(v)' = ArrivalsChanged(v)
    BY <1>1, <1>7, RequiredStepUnchanged DEF RequiredsInvalid, SameArrival, inputVars
  <2> QED
    BY <1>1, <1>7, <2>1 DEF RequiredsInvalid, arrivalVars, SearchInv, NoLostArrival
<1>8. CASE ArrivalsInvalid
  BY <1>1, <1>8 DEF ArrivalsInvalid, SearchInv, NoLostArrival
<1> QED
  BY <1>2, <1>3, <1>4, <1>5, <1>6, <1>7, <1>8 DEF EditStep

\* The first query queues the start points: nothing else has an arrival to
\* find while no vertex has a path.
LEMMA QueryNoLostArrival ==
  ASSUME SearchInv, NEW q, NEW w \in Vertices \cup {NoPath}, StartQuery(q, w)
  PROVE  SearchInv'
<1>1. TypeOK /\ TypeOK'
  BY QueryTypeOK DEF SearchInv
<1>2. \A v \in Vertices : ArrivalsChanged(v)' = ArrivalsChanged(v)
  BY <1>1, RequiredStepUnchanged DEF StartQuery, inputVars, SameArrival
<1>3. ASSUME NEW v \in Vertices, ArrivalsChanged(v)
      PROVE  v \in arrival_iter'
  <2>1. CASE arrivals_seeded
    BY <1>3, <2>1 DEF SearchInv, NoLostArrival, StartQuery
  <2>2. CASE ~arrivals_seeded
    <3>1. DOMAIN FaninArrivals(v) = {}
      BY <1>1, <2>2, NoSelfEdge DEF SearchInv, FaninArrivals
    <3>2. v \in Inputs
      BY <1>3, <2>2, <3>1 DEF SearchInv, ArrivalsChanged, FoundPath, SameArrival
    <3> QED
      BY <2>2, <3>2 DEF StartQuery, StartPoints
  <2> QED
    BY <2>1, <2>2
<1> QED
  BY <1>1, <1>2, <1>3 DEF StartQuery, SearchInv, NoLostArrival

\* A visit makes the vertex agree with its fanin and queues every vertex that
\* the change reaches.
LEMMA VisitNoLostArrival ==
  ASSUME SearchInv, NEW u \in Vertices, VisitArrival(u), TypeOK'
  PROVE  SearchInv'
<1>1. TypeOK /\ arrivals_seeded
  BY DEF SearchInv, VisitArrival, SetVertexArrivals
<1>2. UNCHANGED <<edges, delay, arrivals_exist, arrivals_seeded, invalid_arrivals>>
  BY DEF VisitArrival, SetVertexArrivals, RequiredsToRecord, inputVars
<1>3. CASE ~ArrivalsChanged(u)
  <2>1. path' = path /\ arrival_iter' = arrival_iter \ {u}
    BY <1>3 DEF VisitArrival, SetVertexArrivals, RequiredsToRecord
  <2>2. \A v \in Vertices : ArrivalsChanged(v)' = ArrivalsChanged(v)
    BY <1>1, <1>2, <2>1, RequiredStepUnchanged DEF SameArrival
  <2> QED
    BY <1>1, <1>2, <1>3, <2>1, <2>2 DEF SearchInv, NoLostArrival
<1>4. CASE ArrivalsChanged(u)
  <2>1. /\ path' = [path EXCEPT ![u] = FoundPath(u)]
        /\ arrival_iter' = (arrival_iter \ {u}) \cup Fanout(u)
    BY <1>4 DEF VisitArrival, SetVertexArrivals, RequiredsToRecord
  <2>2. path'[u] = FoundPath(u) /\ \A v \in Vertices : v # u => path'[v] = path[v]
    BY <1>1, <2>1 DEF TypeOK
  <2>3. \A v \in Vertices : FaninEdges(v)' = FaninEdges(v)
    BY <1>2 DEF FaninEdges
  <2>4. ~ArrivalsChanged(u)'
    <3>1. SameFanin(u)
      BY <1>1, <1>2, <2>2, <2>3, NoSelfEdge DEF SameFanin
    <3>2. FoundPath(u)' = path'[u]
      BY <2>2, <3>1, SameFaninFoundPath
    <3> QED
      BY <3>2 DEF ArrivalsChanged, SameArrival
  <2>5. ASSUME NEW v \in Vertices \ Fanout(u), v # u
        PROVE  ArrivalsChanged(v)' = ArrivalsChanged(v)
    <3>1. \A e \in FaninEdges(v) : e[1] # u /\ e[1] \in Vertices
      <4>1. \A e \in FaninEdges(v) : e \in edges /\ e = <<e[1], v>> /\ e[1] \in Vertices
        BY <1>1, GraphAssumption DEF FaninEdges, TypeOK
      <4>2. <<u, v>> \notin edges
        BY <2>5 DEF Fanout
      <4> QED
        BY <4>1, <4>2
    <3>2. SameFanin(v)
      BY <1>2, <2>2, <2>3, <3>1 DEF SameFanin
    <3> QED
      BY <2>2, <2>5, <3>2, SameFaninUnchanged
  <2>6. ASSUME NEW v \in Vertices, ArrivalsChanged(v)'
        PROVE  v \in invalid_arrivals' \cup arrival_iter'
    BY <1>1, <1>2, <2>1, <2>4, <2>5, <2>6 DEF SearchInv, NoLostArrival
  <2> QED
    BY <1>1, <1>2, <2>6 DEF SearchInv, NoLostArrival
<1> QED
  BY <1>3, <1>4

\* Required times play no part in arrivals.
LEMMA SearchNoLostArrival ==
  ASSUME SearchInv, SearchStep
  PROVE  SearchInv'
<1>1. TypeOK /\ TypeOK'
  BY SearchTypeOK DEF SearchInv
<1>2. ASSUME NEW v \in Vertices, VisitArrival(v)
      PROVE  SearchInv'
  BY <1>1, <1>2, VisitNoLostArrival
<1>3. ASSUME UNCHANGED <<edges, delay, arrivalVars>>,
             \A v \in Vertices : SameArrival(path[v], path'[v])
      PROVE  SearchInv'
  <2>1. \A v \in Vertices : ArrivalsChanged(v)' = ArrivalsChanged(v)
    BY <1>1, <1>3, RequiredStepUnchanged
  <2> QED
    BY <1>1, <1>3, <2>1 DEF SearchInv, NoLostArrival, arrivalVars, SameArrival
<1>4. ASSUME NEW v \in Vertices, VisitRequired(v)
      PROVE  SearchInv'
  <2>1. \A w \in Vertices : SameArrival(path[w], path'[w])
    <3>1. ASSUME path[v] # NoPath
          PROVE  SameArrival(path[v], [path[v] EXCEPT !.req = FoundRequired(v)])
      BY <1>1, <3>1, FoundRequiredType, NoPathType DEF TypeOK, Paths, SameArrival
    <3> QED
      BY <1>1, <1>4, <3>1 DEF VisitRequired, WithRequired, TypeOK, SameArrival
  <2> QED
    BY <1>3, <1>4, <2>1 DEF VisitRequired, inputVars
<1>5. CASE EndUpdate
  BY <1>3, <1>5 DEF EndUpdate, inputVars, SameArrival
<1>6. CASE EndpointSlack
  <2>1. {query[2]} \in SUBSET Vertices
    BY <1>1, <1>6, GraphAssumption DEF EndpointSlack, IsEndpoint, EndpointIn, TypeOK
  <2> QED
    BY <1>1, <1>3, <1>6, <2>1, SeededPathType DEF EndpointSlack, inputVars
<1>7. CASE FindRequireds
  BY <1>1, <1>3, <1>7, SeededPathType, CurrentEndpointsType DEF FindRequireds, inputVars
<1>8. CASE EndRequireds
  BY <1>3, <1>8 DEF EndRequireds, inputVars, SameArrival
<1>9. CASE TotalNegativeSlack
  <2>1. PICK S \in SUBSET Vertices : path' = SeededPath(S)
    BY <1>1, <1>9, CurrentEndpointsType DEF TotalNegativeSlack, WnsTnsPreamble, TypeOK
  <2> QED
    BY <1>1, <1>3, <1>9, <2>1, SeededPathType DEF TotalNegativeSlack, WnsTnsPreamble, inputVars
<1> QED
  BY <1>2, <1>4, <1>5, <1>6, <1>7, <1>8, <1>9 DEF SearchStep

LEMMA StepSearchInv == SearchInv /\ [Next]_vars => SearchInv'
<1> SUFFICES ASSUME SearchInv, [Next]_vars PROVE SearchInv'
  OBVIOUS
<1>1. CASE EditStep
  BY <1>1, EditNoLostArrival
<1>2. CASE StartQuery("update", NoPath) \/ StartQuery("tns", NoPath)
  BY <1>2, QueryNoLostArrival
<1>3. CASE \E v \in QueryPins : StartQuery("slack", v)
  BY <1>3, QueryNoLostArrival, ValueAssumption
<1>4. CASE SearchStep
  BY <1>4, SearchNoLostArrival
<1>5. CASE UNCHANGED vars
  <2>1. TypeOK'
    BY <1>5, StepTypeOK DEF SearchInv
  <2>2. \A v \in Vertices : ArrivalsChanged(v)' = ArrivalsChanged(v)
    BY <1>5, RequiredStepUnchanged DEF SearchInv, vars, inputVars, SameArrival
  <2> QED
    BY <1>5, <2>1, <2>2 DEF SearchInv, NoLostArrival, vars, arrivalVars
<1> QED
  BY <1>1, <1>2, <1>3, <1>4, <1>5 DEF Next

\* No arrival is lost in any graph, whatever edits, queries and visits came
\* before: a vertex whose stored arrival is not what its fanin gives is
\* invalid or queued.
THEOREM NoArrivalLost == Spec => []NoLostArrival
<1>1. Init => SearchInv
  BY InitTypeOK DEF Init, SearchInv, NoLostArrival
<1>2. SearchInv /\ [Next]_vars => SearchInv'
  BY StepSearchInv
<1>3. SearchInv => NoLostArrival
  BY DEF SearchInv
<1> QED
  BY <1>1, <1>2, <1>3, PTL DEF Spec

-----------------------------------------------------------------------------
(* What an incremental search has stored is what a search from scratch     *)
(* finds.  TrueArrival is the solution of an equation over the graph.      *)

\* The arrival of v when the arrivals of its fanin are a.
ArrivalFrom(a, v) ==
  LET arriving == {e \in FaninEdges(v) : a[e[1]] # NoPath}
  IN  IF v \in Inputs THEN InputArrival
      ELSE IF arriving = {} THEN NoPath
      ELSE Max({a[e[1]] + delay[e] : e \in arriving})

Solves(a) == a = [v \in Vertices |-> ArrivalFrom(a, v)]

Stored == [v \in Vertices |-> IF path[v] = NoPath THEN NoPath ELSE path[v].arr]

\* Two solutions would differ at a vertex of least level, whose fanin they
\* agree on.
LEMMA OneSolution ==
  ASSUME TypeOK, NEW a, NEW b, Solves(a), Solves(b)
  PROVE  a = b
<1> DEFINE Differ == {v \in Vertices : a[v] # b[v]}
           Lower == {ss \in Nat \X Nat : ss[1] < ss[2]}
           DifferLevels == {Level[v] : v \in Differ}
<1>1. a = [v \in Vertices |-> ArrivalFrom(a, v)] /\ b = [v \in Vertices |-> ArrivalFrom(b, v)]
  BY DEF Solves
<1>2. SUFFICES Differ = {}
  <2>1. \A v \in Vertices : a[v] = b[v]
    BY <1>2
  <2>2. /\ \A v \in Vertices : ArrivalFrom(a, v) = a[v]
        /\ \A v \in Vertices : ArrivalFrom(b, v) = b[v]
    BY <1>1
  <2>3. [v \in Vertices |-> ArrivalFrom(a, v)] = [v \in Vertices |-> ArrivalFrom(b, v)]
    BY ONLY <2>1, <2>2
  <2> QED
    BY <1>1, <2>3
<1>3. SUFFICES ASSUME Differ # {} PROVE FALSE
  OBVIOUS
<1>4. PICK v \in Differ : \A w \in Differ : Level[v] <= Level[w]
  <2>1. IsWellFoundedOn(Lower, Nat)
    BY NatLessThanWellFounded DEF OpToRel
  <2>2. DifferLevels \subseteq Nat /\ DifferLevels # {}
    BY <1>3, GraphAssumption
  <2>3. \E n \in DifferLevels : \A m \in DifferLevels : <<m, n>> \notin Lower
    <3> HIDE DEF Lower, DifferLevels
    <3> QED
      BY <2>1, <2>2, WFMin
  <2>4. \A m, n \in Nat : <<m, n>> \notin Lower => n <= m
    OBVIOUS
  <2>5. PICK n \in DifferLevels : \A m \in DifferLevels : n <= m
    <3> HIDE DEF Lower, DifferLevels
    <3> QED
      BY <2>2, <2>3, <2>4
  <2>6. PICK v \in Differ : n = Level[v]
    BY <2>5
  <2> QED
    BY <2>5, <2>6
<1>5. \A e \in FaninEdges(v) : a[e[1]] = b[e[1]]
  <2>1. ASSUME NEW e \in FaninEdges(v)
        PROVE  e[1] \in Vertices /\ Level[e[1]] < Level[v]
    BY GraphAssumption DEF FaninEdges, TypeOK
  <2>2. ASSUME NEW e \in FaninEdges(v), e[1] \in Differ
        PROVE  FALSE
    <3>1. Level[e[1]] \in Nat /\ Level[v] \in Nat
      BY <2>1, GraphAssumption
    <3> QED
      BY <1>4, <2>1, <2>2, <3>1
  <2> QED
    BY <2>1, <2>2
<1>6. ArrivalFrom(a, v) = ArrivalFrom(b, v)
  <2> DEFINE arriving(f) == {e \in FaninEdges(v) : f[e[1]] # NoPath}
  <2>1. arriving(a) = arriving(b)
    BY <1>5
  <2>2. {a[e[1]] + delay[e] : e \in arriving(a)} = {b[e[1]] + delay[e] : e \in arriving(b)}
    BY <1>5, <2>1
  <2> QED
    BY <2>1, <2>2 DEF ArrivalFrom
<1> QED
  BY <1>1, <1>6

\* A vertex that a visit would not change has the arrival of its fanin.
LEMMA StoredArrival ==
  ASSUME TypeOK, NEW v \in Vertices, ~ArrivalsChanged(v)
  PROVE  Stored[v] = ArrivalFrom(Stored, v)
<1> DEFINE arrs == FaninArrivals(v)
           last == LatestEdge(arrs)
           D == {e \in FaninEdges(v) : path[e[1]] # NoPath}
           arriving == {e \in FaninEdges(v) : Stored[e[1]] # NoPath}
           times == {Stored[e[1]] + delay[e] : e \in arriving}
<1>1. \/ path[v] = NoPath /\ FoundPath(v) = NoPath
      \/ path[v] # NoPath /\ FoundPath(v) # NoPath /\ path[v].arr = FoundPath(v).arr
  BY DEF ArrivalsChanged, SameArrival
<1>2. \A w \in Vertices : path[w] # NoPath => path[w].arr \in Int /\ path[w].arr # NoPath
  BY ValueAssumption DEF TypeOK, Paths
<1>3. /\ \A e \in FaninEdges(v) : e[1] \in Vertices
      /\ DOMAIN arrs = D
      /\ \A e \in D : arrs[e] = path[e[1]].arr + delay[e]
  BY NoSelfEdge DEF FaninArrivals
<1>4. arriving = D
  BY <1>2, <1>3 DEF Stored
<1>5. ArrivalFrom(Stored, v) = IF v \in Inputs THEN InputArrival
                               ELSE IF D = {} THEN NoPath ELSE Max(times)
  BY <1>4 DEF ArrivalFrom
<1>6. Stored[v] = IF path[v] = NoPath THEN NoPath ELSE path[v].arr
  BY DEF Stored
<1>7. CASE v \in Inputs
  <2>1. FoundPath(v) = [arr |-> InputArrival, req |-> 0, prev |-> NoEdge]
    BY <1>7 DEF FoundPath
  <2>2. FoundPath(v) \in Paths /\ FoundPath(v).arr = InputArrival
    BY <2>1, NumberTypes DEF Paths
  <2> QED
    BY <1>1, <1>5, <1>6, <1>7, <2>2, NoPathType
<1>8. CASE v \notin Inputs /\ D = {}
  <2>1. FoundPath(v) = NoPath
    BY <1>3, <1>8 DEF FoundPath
  <2> QED
    BY <1>1, <1>5, <1>6, <1>8, <2>1
<1>9. CASE v \notin Inputs /\ D # {}
  <2>1. /\ FoundPath(v) = [arr |-> arrs[last], req |-> 0, prev |-> last]
        /\ last \in D /\ arrs[last] \in Int /\ last \in Edges
        /\ \A e \in D : arrs[e] \in Int /\ arrs[e] <= arrs[last]
    <3>1. /\ arrs \in [D -> Int] /\ IsFiniteSet(D) /\ D \subseteq Edges
      BY <1>3, FaninArrivalsType
    <3>2. \E e \in D : \A f \in D : arrs[f] <= arrs[e]
      BY <1>9, <3>1, FiniteArgMax
    <3>3. last \in D /\ \A e \in D : arrs[e] <= arrs[last]
      BY <1>3, <3>2 DEF LatestEdge
    <3>4. FoundPath(v) = [arr |-> arrs[last], req |-> 0, prev |-> last]
      BY <1>3, <1>9 DEF FoundPath
    <3> HIDE DEF arrs, last, D
    <3> QED
      BY <3>1, <3>3, <3>4
  <2>2. path[v] # NoPath /\ path[v].arr = arrs[last]
    <3> HIDE DEF arrs, last
    <3>1. FoundPath(v) \in Paths /\ FoundPath(v).arr = arrs[last]
      BY <2>1 DEF Paths
    <3> QED
      BY <1>1, <3>1, NoPathType
  <2>3. times = Range(arrs)
    <3>1. \A e \in D : Stored[e[1]] + delay[e] = arrs[e]
      BY <1>3 DEF Stored
    <3> QED
      BY <1>3, <1>4, <3>1 DEF Range
  <2>4. IsFiniteSet(times) /\ times \subseteq Int
    BY <2>3, FaninArrivalsType, FiniteRange
  <2>5. arrs[last] \in times /\ \A x \in times : x <= arrs[last]
    BY <1>3, <2>1, <2>3 DEF Range
  <2>6. Max(times) \in times /\ \A x \in times : x <= Max(times)
    <3> HIDE DEF times, arrs, last
    <3> QED
      BY <2>4, <2>5, MaxOfFinite
  <2>7. Max(times) = arrs[last]
    <3>1. \A x, y \in Int : x <= y /\ y <= x => x = y
      OBVIOUS
    <3>2. Max(times) \in Int /\ arrs[last] \in Int
      BY <2>1, <2>4, <2>6
    <3> HIDE DEF times, arrs, last
    <3> QED
      BY ONLY <2>5, <2>6, <3>1, <3>2
  <2> QED
    BY <1>5, <1>6, <1>9, <2>2, <2>7
<1> QED
  BY <1>7, <1>8, <1>9

LEMMA StoredIsTrue == SearchInv => ArrivalsCurrent
<1> SUFFICES ASSUME SearchInv, arrivals_seeded, invalid_arrivals \cup arrival_iter = {}
             PROVE  \A v \in Vertices : TrueArrival[v] = Stored[v]
  BY DEF ArrivalsCurrent, Stored
<1>1. TypeOK /\ \A v \in Vertices : ~ArrivalsChanged(v)
  BY DEF SearchInv, NoLostArrival
<1>2. \A v \in Vertices : Stored[v] = ArrivalFrom(Stored, v)
  BY <1>1, StoredArrival
<1>3. Solves(Stored)
  <2>1. Stored = [v \in Vertices |-> Stored[v]]
    BY DEF Stored
  <2> QED
    BY <1>2, <2>1 DEF Solves
<1>4. TrueArrival = CHOOSE a : Solves(a)
  BY DEF TrueArrival, Solves, ArrivalFrom
<1>5. Solves(TrueArrival)
  BY <1>3, <1>4
<1> QED
  BY <1>1, <1>3, <1>5, OneSolution

\* When nothing is invalid and nothing is queued, the arrivals that an
\* incremental search has stored are those of a search from scratch, in any
\* graph and after any edits and queries.
THEOREM CurrentArrivals == Spec => []ArrivalsCurrent
<1>1. Init => SearchInv
  BY InitTypeOK DEF Init, SearchInv, NoLostArrival
<1>2. SearchInv /\ [Next]_vars => SearchInv'
  BY StepSearchInv
<1> QED
  BY <1>1, <1>2, StoredIsTrue, PTL DEF Spec

-----------------------------------------------------------------------------
(* Results that depend on others do not outlive them.                      *)

\* Only a query finds requireds or slacks, and a query has found arrivals.
NestedInv == ResultsNested /\ (pc # "idle" => arrivals_exist)

LEMMA StepNestedInv == TypeOK /\ NestedInv /\ [Next]_vars => NestedInv'
<1> SUFFICES ASSUME TypeOK, NestedInv, [Next]_vars PROVE NestedInv'
  OBVIOUS
<1> USE DEF NestedInv, ResultsNested, inputVars, arrivalVars, requiredVars, tnsVars,
            endpointVars, callVars
<1>1. CASE EditStep
  <2>1. ASSUME NEW e, NEW d, SetArcDelay(e, d) PROVE NestedInv'
    BY <2>1 DEF SetArcDelay, Edit, Invalidate, InvalidateIn,
       ArrivalsToRecord, RequiredsToRecord
  <2>2. ASSUME NEW v, NEW r, SetOutputDelay(v, r) PROVE NestedInv'
    BY <2>2 DEF SetOutputDelay, Edit, InvalidateIn,
       ArrivalsToRecord, RequiredsToRecord
  <2>3. ASSUME NEW v, RemoveOutputDelay(v) PROVE NestedInv'
    BY <2>3 DEF RemoveOutputDelay, Edit, InvalidateIn,
       ArrivalsToRecord, RequiredsToRecord
  <2>4. ASSUME NEW e, DisconnectLoad(e) PROVE NestedInv'
    BY <2>4 DEF DisconnectLoad, Edit, Invalidate, InvalidateIn,
       ArrivalsToRecord, RequiredsToRecord
  <2>5. ASSUME NEW e, ConnectLoad(e) PROVE NestedInv'
    BY <2>5 DEF ConnectLoad, Edit, InvalidateIn,
       ArrivalsToRecord, RequiredsToRecord
  <2>6. CASE RequiredsInvalid
    BY <2>6 DEF RequiredsInvalid
  <2>7. CASE ArrivalsInvalid
    BY <2>7 DEF ArrivalsInvalid
  <2> QED
    BY <1>1, <2>1, <2>2, <2>3, <2>4, <2>5, <2>6, <2>7 DEF EditStep
<1>2. ASSUME NEW q, NEW v, StartQuery(q, v) PROVE NestedInv'
  BY <1>2 DEF StartQuery
<1>3. CASE SearchStep
  <2>1. ASSUME NEW v \in Vertices, VisitArrival(v) PROVE NestedInv'
    BY <2>1 DEF VisitArrival, SetVertexArrivals, RequiredsToRecord
  <2>2. ASSUME NEW v \in Vertices, VisitRequired(v) PROVE NestedInv'
    BY <2>2 DEF VisitRequired
  <2>3. CASE EndUpdate
    BY <2>3 DEF EndUpdate, ArrivalsFound
  <2>4. CASE EndpointSlack
    BY <2>4 DEF EndpointSlack, ArrivalsFound
  <2>5. CASE FindRequireds
    BY <2>5 DEF FindRequireds, ArrivalsFound
  <2>6. CASE EndRequireds
    BY <2>6 DEF EndRequireds
  <2>7. CASE TotalNegativeSlack
    BY <2>7 DEF TotalNegativeSlack, WnsTnsPreamble, ArrivalsFound
  <2> QED
    BY <1>3, <2>1, <2>2, <2>3, <2>4, <2>5, <2>6, <2>7 DEF SearchStep
<1>4. CASE UNCHANGED vars
  BY <1>4 DEF vars
<1> QED
  BY <1>1, <1>2, <1>3, <1>4 DEF Next

\* Negative slacks exist only with requireds, requireds only with arrivals, and
\* nothing is recorded as invalid in results that do not exist.
THEOREM NestedResults == Spec => []ResultsNested
<1>1. Init => TypeOK /\ NestedInv
  BY InitTypeOK DEF Init, NestedInv, ResultsNested
<1>2. TypeOK /\ NestedInv /\ [Next]_vars => TypeOK' /\ NestedInv'
  BY StepTypeOK, StepNestedInv
<1>3. NestedInv => ResultsNested
  BY DEF NestedInv
<1> QED
  BY <1>1, <1>2, <1>3, PTL DEF Spec

-----------------------------------------------------------------------------
(***************************************************************************)
(* The slacks that queries return.                                         *)
(*                                                                         *)
(* A query for a slack searches requireds down to the level of the asked   *)
(* vertex only, and leaves the rest queued or recorded for later.  The     *)
(* invariant SlackInv says that nothing is forgotten: a vertex with a      *)
(* required time other than its fanout gives is recorded or queued, or     *)
(* has a new path at its fanout, whose first required time will queue it.  *)
(***************************************************************************)
\* Hypotheses of the theorem about slacks.  The edits are those that keep the
\* graph and the requireds; with the others SlackAnswer does not hold.
KeptGraph == Edits \subseteq {"delay", "output_delay", "arrivals_invalid"}
Bounded == \A r \in EndReqs : r <= Infinity
NoneAlone == \A v \in Vertices : \E e \in Edges : v \in {e[1], e[2]}
SlackAssumption == KeptGraph /\ Bounded /\ NoneAlone

\* No required time that is found is zero, which is what a new path has before.
NonzeroRequireds ==
  pc = "requireds" => \A v \in Vertices : path[v] # NoPath => FoundRequired(v) # 0

RequiredChanged(v) == path[v] # NoPath /\ path[v].req # FoundRequired(v)
NewPath(v) == path[v] # NoPath /\ path[v].req = 0
Sinks == {v \in Vertices : FaninEdges(v) # {} /\ FanoutEdges(v) = {}}

\* Where a query is, and what is there then.
CallPhases ==
  /\ edges = Edges
  /\ pc # "idle" => answer = NoPath /\ invalid_arrivals = {} /\ arrivals_seeded
  /\ pc = "requireds" => arrival_iter = {} /\ invalid_requireds = {} /\ requireds_exist
  /\ requireds_seeded = requireds_exist
  /\ query[1] = "slack" => query[2] \in Vertices
  /\ endpoints_initialized => Sinks \subseteq endpoints

\* Once there are requireds, paths neither appear nor go away.
PathsKept ==
  requireds_exist => \A v \in Vertices : path[v] = NoPath <=> FoundPath(v) = NoPath

\* Before there are requireds only ends that were asked for have one, and their
\* fanin is queued.
UnseededEnds ==
  ~requireds_exist =>
    \A w \in Vertices : path[w] # NoPath /\ path[w].req # 0 =>
      ~HasFanout(w) /\ Fanin({w}) \subseteq required_iter

\* A vertex whose required time is not what its fanout gives is recorded or
\* queued, or a new path at its fanout will queue it.
NoLostRequired ==
  requireds_exist =>
    \A v \in Vertices : RequiredChanged(v) =>
      \/ v \in invalid_requireds \cup required_iter
      \/ \E w \in Fanout(v) : NewPath(w)

SlackInv == CallPhases /\ PathsKept /\ UnseededEnds /\ NoLostRequired /\ SlackAnswer

-----------------------------------------------------------------------------
SameReq(p, q) == (p = NoPath <=> q = NoPath) /\ (p # NoPath => p.req = q.req)

LEMMA EdgeEnds ==
  ASSUME TypeOK, NEW v
  PROVE  /\ \A e \in FanoutEdges(v) : /\ e \in Edges /\ e[1] = v /\ e[2] \in Vertices
                                      /\ e[2] \in Fanout(v) /\ e = <<v, e[2]>>
                                      /\ Level[v] < Level[e[2]] /\ e[2] # v
         /\ \A w \in Fanout(v) : /\ <<v, w>> \in FanoutEdges(v) /\ w \in Vertices
                                 /\ Level[v] < Level[w]
<1>1. \A e \in Edges : /\ e[1] \in Vertices /\ e[2] \in Vertices /\ e = <<e[1], e[2]>>
                       /\ Level[e[1]] < Level[e[2]] /\ Level[e[1]] \in Nat /\ Level[e[2]] \in Nat
  BY GraphAssumption
<1>2. \A e \in FanoutEdges(v) : e \in Edges /\ e[1] = v /\ e \in edges
  BY DEF FanoutEdges, TypeOK
<1>3. \A e \in FanoutEdges(v) : Level[v] < Level[e[2]] /\ e[2] # v
  BY <1>1, <1>2
<1>4. \A e \in FanoutEdges(v) : e = <<v, e[2]>> /\ e[2] \in Vertices /\ e[2] \in Fanout(v)
  BY <1>1, <1>2 DEF Fanout
<1>5. \A w \in Fanout(v) : <<v, w>> \in FanoutEdges(v) /\ w \in Vertices
  BY DEF Fanout, FanoutEdges
<1>6. \A w \in Fanout(v) : Level[v] < Level[w]
  <2> TAKE w \in Fanout(v)
  <2>1. Level[v] < Level[<<v, w>>[2]]
    BY <1>3, <1>5
  <2> QED
    BY <2>1
<1> QED
  BY <1>2, <1>3, <1>4, <1>5, <1>6

\* What a visit of v finds as required time depends on its fanout only.
LEMMA SameFanoutRequired ==
  ASSUME NEW v, UNCHANGED edges, endReq'[v] = endReq[v],
         \A e \in FanoutEdges(v) : delay'[e] = delay[e] /\ SameReq(path[e[2]], path'[e[2]])
  PROVE  FoundRequired(v)' = FoundRequired(v)
<1>1. FanoutEdges(v)' = FanoutEdges(v)
  BY DEF FanoutEdges
<1>2. FanoutRequireds(v)' = FanoutRequireds(v)
  <2> DEFINE D == {f \in FanoutEdges(v) : path[f[2]] # NoPath}
  <2>1. D' = D
    BY <1>1 DEF SameReq
  <2>2. \A e \in D : Minus(path'[e[2]].req, delay'[e]) = Minus(path[e[2]].req, delay[e])
    BY DEF SameReq
  <2>3. FanoutRequireds(v) = [e \in D |-> Minus(path[e[2]].req, delay[e])]
    BY DEF FanoutRequireds
  <2>4. FanoutRequireds(v)' = [e \in D |-> Minus(path'[e[2]].req, delay'[e])]
    BY <2>1 DEF FanoutRequireds, Minus
  <2> HIDE DEF D
  <2> QED
    BY <2>2, <2>3, <2>4
<1>3. IsEndpoint(v)' <=> IsEndpoint(v)
  BY DEF IsEndpoint, EndpointIn
<1> QED
  BY <1>2, <1>3 DEF FoundRequired

\* A visit finds no path where no fanin has one.
LEMMA FoundNoPath ==
  TypeOK => \A v \in Vertices :
    FoundPath(v) = NoPath <=> v \notin Inputs /\ \A e \in FaninEdges(v) : path[e[1]] = NoPath
<1> SUFFICES ASSUME TypeOK, NEW v \in Vertices
    PROVE  FoundPath(v) = NoPath <=> v \notin Inputs /\ \A e \in FaninEdges(v) : path[e[1]] = NoPath
  OBVIOUS
<1> DEFINE arrs == FaninArrivals(v)
           last == LatestEdge(arrs)
<1>1. CASE v \in Inputs
  <2>1. FoundPath(v) \in Paths
    BY <1>1, NumberTypes DEF FoundPath, Paths
  <2> QED
    BY <1>1, <2>1, NoPathType
<1>2. CASE v \notin Inputs /\ DOMAIN arrs = {}
  BY <1>2 DEF FoundPath, FaninArrivals
<1>3. CASE v \notin Inputs /\ DOMAIN arrs # {}
  <2>1. \E e \in FaninEdges(v) : path[e[1]] # NoPath
    BY <1>3 DEF FaninArrivals
  <2>2. last \in DOMAIN arrs
    <3>1. \E e \in DOMAIN arrs : \A f \in DOMAIN arrs : arrs[f] <= arrs[e]
      BY <1>3, FaninArrivalsType, FiniteArgMax
    <3> QED
      BY <3>1 DEF LatestEdge
  <2>3. arrs[last] \in Int /\ last \in Edges
    BY <2>2, FaninArrivalsType
  <2>4. FoundPath(v) = [arr |-> arrs[last], req |-> 0, prev |-> last]
    BY <1>3 DEF FoundPath
  <2>5. FoundPath(v) \in Paths
    BY <2>3, <2>4 DEF Paths
  <2> QED
    BY <1>3, <2>1, <2>5, NoPathType
<1> QED
  BY <1>1, <1>2, <1>3

LEMMA FoundNoPathNext ==
  ASSUME TypeOK, TypeOK', UNCHANGED edges,
         \A v \in Vertices : path'[v] = NoPath <=> path[v] = NoPath
  PROVE  \A v \in Vertices : FoundPath(v)' = NoPath <=> FoundPath(v) = NoPath
<1>1. (TypeOK => \A v \in Vertices :
        FoundPath(v) = NoPath <=> v \notin Inputs /\ \A e \in FaninEdges(v) : path[e[1]] = NoPath)'
  BY FoundNoPath, PTL
<1>2. \A v \in Vertices :
        FoundPath(v)' = NoPath <=> v \notin Inputs /\ \A e \in FaninEdges(v)' : path'[e[1]] = NoPath
  BY <1>1
<1>3. \A v : FaninEdges(v)' = FaninEdges(v)
  BY DEF FaninEdges
<1> QED
  BY <1>2, <1>3, FoundNoPath, NoSelfEdge

\* A path goes on along every edge.
LEMMA FanoutPaths ==
  ASSUME TypeOK, \A v \in Vertices : path[v] = NoPath <=> FoundPath(v) = NoPath
  PROVE  \A v \in Vertices : path[v] # NoPath => \A w \in Fanout(v) : path[w] # NoPath
<1> TAKE v \in Vertices
<1> HAVE path[v] # NoPath
<1> TAKE w \in Fanout(v)
<1>1. w \in Vertices /\ <<v, w>> \in FaninEdges(w)
  BY DEF Fanout, FaninEdges
<1> QED
  BY <1>1, FoundNoPath

LEMMA WithRequiredIs ==
  ASSUME NEW p \in Paths \cup {NoPath}, NEW r \in Int
  PROVE  /\ WithRequired(p, r) = NoPath <=> p = NoPath
         /\ p # NoPath => WithRequired(p, r).req = r /\ WithRequired(p, r).arr = p.arr
         /\ p # NoPath => (WithRequired(p, r) = p <=> p.req = r)
<1>1. CASE p = NoPath
  BY <1>1 DEF WithRequired
<1>2. CASE p # NoPath
  <2> DEFINE q == [p EXCEPT !.req = r]
  <2>1. p \in Paths
    BY <1>2
  <2>2. q \in Paths /\ q.req = r /\ q.arr = p.arr /\ q.prev = p.prev
    BY <2>1 DEF Paths
  <2>3. q = p <=> p.req = r
    BY <2>1 DEF Paths
  <2>4. WithRequired(p, r) = q
    BY <1>2 DEF WithRequired
  <2> HIDE DEF q
  <2> QED
    BY <1>2, <2>2, <2>3, <2>4, NoPathType
<1> QED
  BY <1>1, <1>2

LEMMA SeededPathIs ==
  ASSUME TypeOK, NEW S \in SUBSET Vertices, path' = SeededPath(S)
  PROVE  \A v \in Vertices :
           /\ path'[v] = NoPath <=> path[v] = NoPath
           /\ path[v] # NoPath => path'[v].arr = path[v].arr
           /\ v \in S /\ path[v] # NoPath => path'[v].req = endReq[v]
           /\ v \notin S \/ SeededRequired(v) = path[v] => path'[v] = path[v]
<1> TAKE v \in Vertices
<1>1. path[v] \in Paths \cup {NoPath} /\ endReq[v] \in Int
  BY NumberTypes DEF TypeOK
<1>2. path'[v] = IF v \in S THEN WithRequired(path[v], endReq[v]) ELSE path[v]
  BY DEF SeededPath, SeededRequired
<1> QED
  BY <1>1, <1>2, WithRequiredIs DEF SeededRequired

\* The required time of an end without fanout is that of its output delay.
LEMMA SinkRequired ==
  ASSUME TypeOK, Bounded, NEW v \in Vertices, IsEndpoint(v), ~HasFanout(v)
  PROVE  FoundRequired(v) = endReq[v]
<1>1. endReq[v] \in Int /\ endReq[v] <= Infinity /\ Infinity \in Int
  <2>1. endReq[v] \in EndReqs \cup {Infinity}
    BY DEF TypeOK
  <2>2. \A r \in EndReqs : r \in Int /\ r <= Infinity
    BY NumberTypes DEF Bounded
  <2>3. Infinity \in Int /\ Infinity <= Infinity
    BY NumberTypes
  <2> QED
    BY ONLY <2>1, <2>2, <2>3
<1>2. FanoutEdges(v) = {}
  BY DEF HasFanout
<1>3. DOMAIN FanoutRequireds(v) = {}
  BY <1>2 DEF FanoutRequireds
<1>4. Range(FanoutRequireds(v)) = {}
  BY <1>3 DEF Range
<1>5. FoundRequired(v) = Min({Infinity, endReq[v]})
  <2>1. {Infinity} \cup {endReq[v]} \cup Range(FanoutRequireds(v)) = {Infinity, endReq[v]}
    BY <1>4
  <2> QED
    BY <2>1 DEF FoundRequired
<1> DEFINE S == {Infinity, endReq[v]}
<1>6. IsFiniteSet(S)
  <2>1. S = {Infinity} \cup {endReq[v]} /\ IsFiniteSet({Infinity})
    BY FS_Singleton
  <2> QED
    BY <2>1, FS_AddElement
<1>7. Min(S) \in S /\ \A y \in S : Min(S) <= y
  <2>1. S \subseteq Int /\ S # {}
    BY <1>1
  <2> HIDE DEF S
  <2> QED
    BY <1>6, <2>1, MinOfFinite
<1> QED
  BY <1>1, <1>5, <1>7

-----------------------------------------------------------------------------
(* Edits.                                                                  *)

\* A step that keeps the graph, the paths and the queue keeps what is not lost,
\* but for the vertices it records.
LEMMA RecordedKept ==
  ASSUME TypeOK, TypeOK', SlackInv, NEW R \in SUBSET Vertices,
         UNCHANGED <<edges, path, requireds_exist, required_iter>>,
         invalid_requireds' = invalid_requireds \cup (RequiredsToRecord(R) \ required_iter),
         \A v \in Vertices \ R : FoundRequired(v)' = FoundRequired(v)
  PROVE  PathsKept' /\ UnseededEnds' /\ NoLostRequired'
<1>1. PathsKept /\ UnseededEnds /\ NoLostRequired
  BY DEF SlackInv
<1>2. PathsKept'
  BY <1>1, FoundNoPathNext DEF PathsKept
<1>3. UnseededEnds'
  BY <1>1 DEF UnseededEnds, HasFanout, FanoutEdges, Fanin
<1>4. NoLostRequired'
  <2> SUFFICES ASSUME requireds_exist, NEW v \in Vertices, RequiredChanged(v)'
               PROVE  \/ v \in invalid_requireds' \cup required_iter
                      \/ \E w \in Fanout(v) : NewPath(w)
    BY DEF NoLostRequired, Fanout, NewPath
  <2>1. CASE v \in R
    BY <2>1 DEF RequiredsToRecord
  <2>2. CASE v \notin R
    <3>1. RequiredChanged(v)
      BY <2>2 DEF RequiredChanged
    <3> QED
      BY <1>1, <3>1 DEF NoLostRequired
  <2> QED
    BY <2>1, <2>2
<1> QED
  BY <1>2, <1>3, <1>4

LEMMA EditSlackInv ==
  ASSUME SlackAssumption, TypeOK, TypeOK', SlackInv, EditStep
  PROVE  SlackInv'
<1>1. CallPhases
  BY DEF SlackInv
<1>2. ASSUME NEW e \in AnnotEdges, NEW d \in Delays, SetArcDelay(e, d)
      PROVE  SlackInv'
  <2>1. /\ pc = "idle" /\ pc' = "idle" /\ answer' = NoPath
        /\ UNCHANGED <<edges, endReq, path, query, requireds_exist, requireds_seeded,
                       required_iter, endpoints, endpoints_initialized>>
        /\ delay' = [delay EXCEPT ![e] = d]
        /\ invalid_requireds' = invalid_requireds \cup (RequiredsToRecord({e[1]}) \ required_iter)
    BY <1>2 DEF SetArcDelay, Edit, Invalidate, InvalidateIn, endpointVars
  <2>2. e \in Edges /\ {e[1]} \in SUBSET Vertices
    BY GraphAssumption, ValueAssumption
  <2>3. ASSUME NEW v \in Vertices \ {e[1]}
        PROVE  FoundRequired(v)' = FoundRequired(v)
    <3>1. \A f \in FanoutEdges(v) : delay'[f] = delay[f]
      BY <2>1, <2>2, EdgeEnds DEF TypeOK
    <3> QED
      BY <2>1, <3>1, SameFanoutRequired DEF SameReq
  <2>4. PathsKept' /\ UnseededEnds' /\ NoLostRequired'
    BY <2>1, <2>2, <2>3, RecordedKept
  <2>5. CallPhases'
    BY <1>1, <2>1 DEF CallPhases, Sinks, FaninEdges, FanoutEdges
  <2> QED
    BY <2>1, <2>4, <2>5 DEF SlackInv, SlackAnswer
<1>3. ASSUME NEW v \in EndPins, NEW r \in EndReqs, SetOutputDelay(v, r)
      PROVE  SlackInv'
  <2>1. /\ pc = "idle" /\ pc' = "idle" /\ answer' = NoPath
        /\ UNCHANGED <<edges, delay, path, query, requireds_exist, requireds_seeded,
                       required_iter, endpoints, endpoints_initialized>>
        /\ endReq' = [endReq EXCEPT ![v] = r]
        /\ invalid_requireds' = invalid_requireds \cup (RequiredsToRecord({v}) \ required_iter)
    BY <1>3 DEF SetOutputDelay, Edit, InvalidateIn, endpointVars
  <2>2. {v} \in SUBSET Vertices
    BY ValueAssumption
  <2>3. ASSUME NEW w \in Vertices \ {v}
        PROVE  FoundRequired(w)' = FoundRequired(w)
    <3>1. endReq'[w] = endReq[w]
      BY <2>1 DEF TypeOK
    <3> QED
      BY <2>1, <3>1, SameFanoutRequired DEF SameReq
  <2>4. PathsKept' /\ UnseededEnds' /\ NoLostRequired'
    BY <2>1, <2>2, <2>3, RecordedKept
  <2>5. CallPhases'
    BY <1>1, <2>1 DEF CallPhases, Sinks, FaninEdges, FanoutEdges
  <2> QED
    BY <2>1, <2>4, <2>5 DEF SlackInv, SlackAnswer
<1>4. CASE ArrivalsInvalid
  <2>1. /\ pc = "idle" /\ pc' = "idle" /\ answer' = NoPath
        /\ path' = [v \in Vertices |-> NoPath]
        /\ requireds_exist' = FALSE /\ requireds_seeded' = FALSE
        /\ UNCHANGED <<edges, query, endpoints, endpoints_initialized>>
    BY <1>4 DEF ArrivalsInvalid, inputVars, endpointVars
  <2>2. PathsKept' /\ UnseededEnds' /\ NoLostRequired'
    BY <2>1 DEF PathsKept, UnseededEnds, NoLostRequired
  <2>3. CallPhases'
    BY <1>1, <2>1 DEF CallPhases, Sinks, FaninEdges, FanoutEdges
  <2> QED
    BY <2>1, <2>2, <2>3 DEF SlackInv, SlackAnswer
<1>5. /\ \A v : ~RemoveOutputDelay(v)
      /\ \A e : ~DisconnectLoad(e) /\ ~ConnectLoad(e)
      /\ ~RequiredsInvalid
  BY DEF SlackAssumption, KeptGraph, RemoveOutputDelay, DisconnectLoad, ConnectLoad,
         RequiredsInvalid, Edit
<1> QED
  BY <1>2, <1>3, <1>4, <1>5 DEF EditStep

-----------------------------------------------------------------------------
(* Queries and the search for arrivals.                                    *)

LEMMA QuerySlackInv ==
  ASSUME TypeOK, TypeOK', SlackInv, NEW q, NEW v \in Vertices \cup {NoPath}, StartQuery(q, v),
         q = "slack" => v \in Vertices
  PROVE  SlackInv'
<1>1. /\ pc = "idle" /\ pc' = "arrivals" /\ answer' = NoPath /\ query' = <<q, v>>
      /\ invalid_arrivals' = {} /\ arrivals_seeded' = TRUE
      /\ UNCHANGED <<edges, delay, endReq, path, requireds_exist, requireds_seeded,
                     required_iter, invalid_requireds, endpoints, endpoints_initialized>>
  BY DEF StartQuery, inputVars, requiredVars, endpointVars
<1>2. \A w \in Vertices : FoundRequired(w)' = FoundRequired(w)
  BY <1>1, SameFanoutRequired DEF SameReq
<1>3. PathsKept' /\ UnseededEnds' /\ NoLostRequired'
  <2>1. invalid_requireds' = invalid_requireds \cup (RequiredsToRecord({}) \ required_iter)
    BY <1>1 DEF RequiredsToRecord
  <2> QED
    BY <1>1, <1>2, <2>1, RecordedKept
<1>4. CallPhases'
  BY <1>1 DEF SlackInv, CallPhases, Sinks, FaninEdges, FanoutEdges
<1> QED
  BY <1>1, <1>3, <1>4 DEF SlackInv, SlackAnswer

\* The new path of a visited vertex has no required time yet; the vertex is
\* recorded, and is at the fanout of those whose required time it may change.
LEMMA VisitArrivalSlackInv ==
  ASSUME TypeOK, TypeOK', SlackInv, NEW v \in Vertices, VisitArrival(v)
  PROVE  SlackInv'
<1>1. CallPhases /\ PathsKept /\ UnseededEnds /\ NoLostRequired
  BY DEF SlackInv
<1>2. /\ pc = "arrivals"
      /\ UNCHANGED <<edges, delay, endReq, arrivals_seeded, invalid_arrivals, requireds_exist,
                     requireds_seeded, required_iter, endpoints, endpoints_initialized,
                     pc, query, answer>>
  BY DEF VisitArrival, inputVars, endpointVars, callVars
<1>3. CallPhases' /\ SlackAnswer'
  BY <1>1, <1>2 DEF CallPhases, Sinks, FaninEdges, FanoutEdges, SlackAnswer
<1>4. CASE ~ArrivalsChanged(v)
  <2>1. UNCHANGED <<path, invalid_requireds>>
    BY <1>4 DEF VisitArrival
  <2>2. \A w \in Vertices : FoundRequired(w)' = FoundRequired(w)
    BY <1>2, <2>1, SameFanoutRequired DEF SameReq
  <2>3. invalid_requireds' = invalid_requireds \cup (RequiredsToRecord({}) \ required_iter)
    BY <2>1 DEF RequiredsToRecord
  <2>4. PathsKept' /\ UnseededEnds' /\ NoLostRequired'
    BY <1>2, <2>1, <2>2, <2>3, RecordedKept
  <2> QED
    BY <1>3, <2>4 DEF SlackInv
<1>5. CASE ArrivalsChanged(v)
  <2> DEFINE new == FoundPath(v)
  <2>1. /\ path' = [path EXCEPT ![v] = new]
        /\ invalid_requireds' = invalid_requireds \cup
             (IF new # NoPath /\ path[v] # NoPath THEN RequiredsToRecord({v}) \ required_iter
              ELSE {})
    BY <1>5 DEF VisitArrival, SetVertexArrivals
  <2>2. path'[v] = new /\ \A w \in Vertices \ {v} : path'[w] = path[w]
    BY <2>1 DEF TypeOK
  <2>3. new # NoPath => new.req = 0
    BY DEF FoundPath
  <2> HIDE DEF new
  <2>4. UnseededEnds'
    <3> SUFFICES ASSUME ~requireds_exist, NEW w \in Vertices, path'[w] # NoPath, path'[w].req # 0
                 PROVE  ~HasFanout(w) /\ Fanin({w}) \subseteq required_iter
      BY <1>2 DEF UnseededEnds, HasFanout, FanoutEdges, Fanin
    <3>1. w # v
      BY <2>2, <2>3
    <3> QED
      BY <1>1, <2>2, <3>1 DEF UnseededEnds
  <2>5. CASE ~requireds_exist
    <3>1. PathsKept' /\ NoLostRequired'
      BY <1>2, <2>5 DEF PathsKept, NoLostRequired
    <3> QED
      BY <1>3, <2>4, <3>1 DEF SlackInv
  <2>6. CASE requireds_exist
    <3>1. (path[v] = NoPath <=> new = NoPath) /\ path[v] # NoPath
      <4>1. path[v] = NoPath <=> new = NoPath
        BY <1>1, <2>6 DEF PathsKept, new
      <4> QED
        BY <1>5, <4>1 DEF ArrivalsChanged, SameArrival, new
    <3>2. \A w \in Vertices : path'[w] = NoPath <=> path[w] = NoPath
      BY <2>2, <3>1
    <3>3. PathsKept'
      BY <1>1, <1>2, <2>6, <3>2, FoundNoPathNext DEF PathsKept
    <3>4. NewPath(v)' /\ v \in invalid_requireds' \cup required_iter
      BY <2>1, <2>2, <2>3, <2>6, <3>1 DEF NewPath, RequiredsToRecord
    <3>5. \A w : NewPath(w) /\ w \in Vertices => NewPath(w)'
      BY <2>2, <3>4 DEF NewPath
    <3>6. invalid_requireds \subseteq invalid_requireds'
      BY <2>1
    <3>7. NoLostRequired'
      <4> SUFFICES ASSUME NEW w \in Vertices, RequiredChanged(w)'
                   PROVE  \/ w \in invalid_requireds' \cup required_iter
                          \/ \E x \in Fanout(w) : NewPath(x)'
        BY <1>2 DEF NoLostRequired, Fanout
      <4>1. CASE w = v \/ v \in Fanout(w)
        BY <3>4, <4>1
      <4>2. CASE w # v /\ v \notin Fanout(w)
        <5>1. \A e \in FanoutEdges(w) : path'[e[2]] = path[e[2]]
          BY <2>2, <4>2, EdgeEnds
        <5>2. FoundRequired(w)' = FoundRequired(w)
          BY <1>2, <5>1, SameFanoutRequired DEF SameReq
        <5>3. RequiredChanged(w)
          BY <2>2, <4>2, <5>2 DEF RequiredChanged
        <5> QED
          BY <1>1, <2>6, <3>5, <3>6, <5>3, EdgeEnds DEF NoLostRequired
      <4> QED
        BY <4>1, <4>2
    <3> QED
      BY <1>3, <2>4, <3>3, <3>7 DEF SlackInv
  <2> QED
    BY <2>5, <2>6
<1> QED
  BY <1>4, <1>5

LEMMA SameTruth ==
  ASSUME UNCHANGED inputVars
  PROVE  UNCHANGED <<TrueArrival, TrueRequired>>
<1>1. UNCHANGED edges /\ UNCHANGED delay /\ UNCHANGED endReq
  BY DEF inputVars
<1>2. TrueArrival' = TrueArrival
  BY <1>1 DEF TrueArrival, FaninEdges
<1>3. TrueRequired' = TrueRequired
  BY <1>1 DEF TrueRequired, FanoutEdges, IsEndpoint, EndpointIn
<1> QED
  BY <1>2, <1>3

-----------------------------------------------------------------------------
(* The required times of a search from scratch.  TrueRequired is a solution *)
(* of an equation over the graph, which has one.                           *)

\* The required time of v when those of its fanout are r.
OwnRequired(v) == IF IsEndpoint(v) THEN {endReq[v]} ELSE {}
RequiredFrom(r, v) ==
  Min({Infinity} \cup OwnRequired(v)
                 \cup {Minus(r[e[2]], delay[e]) : e \in FanoutEdges(v)})
SolvesRequired(r) == r = [v \in Vertices |-> RequiredFrom(r, v)]

LEMMA RequiredFromType ==
  ASSUME TypeOK, NEW v \in Vertices, NEW r \in [Vertices -> Int]
  PROVE  RequiredFrom(r, v) \in Int
<1> DEFINE D == FanoutEdges(v)
           f == [e \in D |-> Minus(r[e[2]], delay[e])]
           S == {Infinity} \cup OwnRequired(v) \cup Range(f)
<1>1. IsFiniteSet(D)
  BY FS_Subset, GraphAssumption DEF FanoutEdges, TypeOK
<1>2. \A e \in D : Minus(r[e[2]], delay[e]) \in Int
  <2>1. \A q, d \in Int : Minus(q, d) \in Int
    BY NumberTypes DEF Minus
  <2> QED
    BY <2>1, EdgeEnds, DelayType
<1>3. IsFiniteSet(Range(f)) /\ Range(f) \subseteq Int
  <2>1. f \in [D -> Int]
    BY <1>2
  <2> HIDE DEF f, D
  <2> QED
    BY <1>1, <2>1, FiniteRange
<1>4. Range(f) = {Minus(r[e[2]], delay[e]) : e \in FanoutEdges(v)}
  BY DEF Range
<1>5. RequiredFrom(r, v) = Min(S)
  <2> HIDE DEF f
  <2> QED
    BY <1>4 DEF RequiredFrom
<1>6. IsFiniteSet(OwnRequired(v)) /\ OwnRequired(v) \subseteq Int
  <2>1. endReq[v] \in Int
    BY NumberTypes DEF TypeOK
  <2> QED
    BY <2>1, FS_EmptySet, FS_Singleton DEF OwnRequired
<1>7. IsFiniteSet(S)
  <2>1. IsFiniteSet({Infinity}) /\ IsFiniteSet({Infinity} \cup OwnRequired(v))
    BY <1>6, FS_Singleton, FS_Union
  <2> HIDE DEF f
  <2> QED
    BY <1>3, <2>1, FS_Union
<1>8. S # {} /\ S \subseteq Int
  BY <1>3, <1>6, NumberTypes
<1> HIDE DEF S
<1> QED
  BY <1>5, <1>7, <1>8, MinOfFinite

LEMMA RequiredFromLocal ==
  ASSUME TypeOK, NEW v, NEW a, NEW b, \A w \in Fanout(v) : a[w] = b[w]
  PROVE  RequiredFrom(a, v) = RequiredFrom(b, v)
<1>1. \A e \in FanoutEdges(v) : Minus(a[e[2]], delay[e]) = Minus(b[e[2]], delay[e])
  BY EdgeEnds
<1>2. {Minus(a[e[2]], delay[e]) : e \in FanoutEdges(v)}
        = {Minus(b[e[2]], delay[e]) : e \in FanoutEdges(v)}
  BY <1>1
<1> QED
  BY <1>2 DEF RequiredFrom

\* Solved from the highest level down, a level at a time.
SolvedFrom(n) ==
  \E r \in [Vertices -> Int] : \A v \in Vertices : Level[v] >= n => r[v] = RequiredFrom(r, v)

LEMMA SolvedAbove ==
  ASSUME TypeOK
  PROVE  \E n \in Nat : SolvedFrom(n)
<1> DEFINE zero == [v \in Vertices |-> 0]
           r == [v \in Vertices |-> RequiredFrom(zero, v)]
<1>1. r \in [Vertices -> Int]
  BY RequiredFromType
<1>2. \E n \in Nat : \A e \in Edges : Level[e[1]] < n
  <2>1. CASE Edges = {}
    BY <2>1
  <2>2. CASE Edges # {}
    <3> DEFINE f == [e \in Edges |-> Level[e[1]]]
    <3>1. \A e \in Edges : Level[e[1]] \in Nat
      BY GraphAssumption
    <3>2. f \in [Edges -> Int]
      BY <3>1
    <3>3. PICK m \in Edges : \A e \in Edges : f[e] <= f[m]
      BY <2>2, <3>2, GraphAssumption, FiniteArgMax
    <3>4. \A e \in Edges : Level[e[1]] <= Level[m[1]]
      BY <3>3
    <3>5. \A e \in Edges : Level[e[1]] < Level[m[1]] + 1
      BY <3>1, <3>4
    <3> QED
      BY <3>1, <3>5
  <2> QED
    BY <2>1, <2>2
<1>3. PICK n \in Nat : \A e \in Edges : Level[e[1]] < n
  BY <1>2
<1>4. ASSUME NEW v \in Vertices, Level[v] >= n
      PROVE  r[v] = RequiredFrom(r, v)
  <2>1. Fanout(v) = {}
    <3>1. \A w \in Fanout(v) : <<v, w>> \in Edges
      BY DEF Fanout, TypeOK
    <3>2. \A w \in Fanout(v) : Level[v] < n
      BY <1>3, <3>1
    <3> QED
      BY <1>4, <3>2, GraphAssumption
  <2>2. RequiredFrom(zero, v) = RequiredFrom(r, v)
    <3> HIDE DEF zero, r
    <3> QED
      BY <2>1, RequiredFromLocal
  <2> QED
    BY <2>2
<1> HIDE DEF r
<1> QED
  BY <1>1, <1>4 DEF SolvedFrom

LEMMA SolvedBelow ==
  ASSUME TypeOK, NEW n \in Nat, SolvedFrom(n + 1)
  PROVE  SolvedFrom(n)
<1>1. PICK r \in [Vertices -> Int] :
        \A v \in Vertices : Level[v] >= n + 1 => r[v] = RequiredFrom(r, v)
  BY DEF SolvedFrom
<1> DEFINE s == [v \in Vertices |-> IF Level[v] >= n + 1 THEN r[v] ELSE RequiredFrom(r, v)]
<1>2. s \in [Vertices -> Int]
  BY RequiredFromType
<1>3. \A v \in Vertices : s[v] = RequiredFrom(r, v)
  BY <1>1
<1>4. ASSUME NEW v \in Vertices, Level[v] >= n
      PROVE  s[v] = RequiredFrom(s, v)
  <2>1. ASSUME NEW w \in Fanout(v)
        PROVE  s[w] = r[w]
    <3>1. w \in Vertices /\ Level[v] < Level[w]
      BY EdgeEnds
    <3>2. Level[v] \in Nat /\ Level[w] \in Nat
      BY <3>1, GraphAssumption
    <3>3. Level[w] >= n + 1
      BY <1>4, <3>1, <3>2
    <3> QED
      BY <3>1, <3>3
  <2> HIDE DEF s
  <2>2. RequiredFrom(s, v) = RequiredFrom(r, v)
    BY <2>1, RequiredFromLocal
  <2> QED
    BY <1>3, <2>2
<1> HIDE DEF s
<1> QED
  BY <1>2, <1>4 DEF SolvedFrom

LEMMA SolutionExists ==
  ASSUME TypeOK
  PROVE  \E r : SolvesRequired(r)
<1> DEFINE Solved == {n \in Nat : SolvedFrom(n)}
           Lower == {ss \in Nat \X Nat : ss[1] < ss[2]}
<1>1. Solved \subseteq Nat /\ Solved # {}
  BY SolvedAbove
<1>2. \E n \in Solved : \A m \in Solved : <<m, n>> \notin Lower
  <2>1. IsWellFoundedOn(Lower, Nat)
    BY NatLessThanWellFounded DEF OpToRel
  <2> HIDE DEF Lower, Solved
  <2> QED
    BY <1>1, <2>1, WFMin
<1>3. PICK n \in Solved : \A m \in Solved : <<m, n>> \notin Lower
  BY <1>2
<1>4. \A m \in Solved : ~(m < n)
  BY <1>1, <1>3
<1>5. n = 0
  <2> SUFFICES ASSUME n # 0 PROVE FALSE
    OBVIOUS
  <2>1. n - 1 \in Nat /\ (n - 1) + 1 = n /\ n - 1 < n
    OBVIOUS
  <2>2. SolvedFrom((n - 1) + 1)
    BY <2>1
  <2>3. n - 1 \in Solved
    BY <2>1, <2>2, SolvedBelow
  <2> QED
    BY <1>4, <2>1, <2>3
<1>6. PICK r \in [Vertices -> Int] :
        \A v \in Vertices : Level[v] >= 0 => r[v] = RequiredFrom(r, v)
  BY <1>5 DEF SolvedFrom
<1>7. \A v \in Vertices : r[v] = RequiredFrom(r, v)
  BY <1>6, GraphAssumption
<1>8. r = [v \in Vertices |-> r[v]]
  OBVIOUS
<1>9. SolvesRequired(r)
  BY <1>7, <1>8 DEF SolvesRequired
<1> QED
  BY <1>9

LEMMA TrueRequiredSolves ==
  ASSUME TypeOK
  PROVE  \A v \in Vertices : TrueRequired[v] = RequiredFrom(TrueRequired, v)
<1>1. TrueRequired = CHOOSE r : SolvesRequired(r)
  BY DEF TrueRequired, SolvesRequired, RequiredFrom, OwnRequired
<1>2. SolvesRequired(TrueRequired)
  BY <1>1, SolutionExists
<1>3. TrueRequired = [v \in Vertices |-> RequiredFrom(TrueRequired, v)]
  BY <1>2 DEF SolvesRequired
<1>4. \A v \in Vertices :
        [w \in Vertices |-> RequiredFrom(TrueRequired, w)][v] = RequiredFrom(TrueRequired, v)
  OBVIOUS
<1> QED
  BY ONLY <1>3, <1>4

\* Edges go up in level: a set of which each vertex has one of the set at its
\* fanout is empty.
LEMMA NoHighest ==
  ASSUME NEW W \in SUBSET Vertices, \A v \in W : \E w \in W : <<v, w>> \in Edges
  PROVE  W = {}
<1> SUFFICES ASSUME W # {} PROVE FALSE
  OBVIOUS
<1> DEFINE F == {e \in Edges : e[1] \in W /\ e[2] \in W}
           f == [e \in F |-> Level[e[1]]]
<1>1. IsFiniteSet(F)
  BY FS_Subset, GraphAssumption
<1>2. ASSUME NEW v \in W
      PROVE  \E e \in F : e[1] = v
  <2>1. PICK w \in W : <<v, w>> \in Edges
    OBVIOUS
  <2>2. <<v, w>> \in F /\ <<v, w>>[1] = v
    BY <2>1
  <2> QED
    BY <2>2
<1>3. F # {}
  BY <1>2
<1>4. \A e \in F : Level[e[1]] \in Nat /\ Level[e[2]] \in Nat /\ Level[e[1]] < Level[e[2]]
  BY GraphAssumption
<1>5. f \in [F -> Int]
  BY <1>4
<1>6. PICK m \in F : \A e \in F : f[e] <= f[m]
  <2> HIDE DEF F, f
  <2> QED
    BY <1>1, <1>3, <1>5, FiniteArgMax
<1>7. PICK e \in F : e[1] = m[2]
  BY <1>2
<1>8. Level[m[2]] <= Level[m[1]]
  BY <1>6, <1>7
<1> QED
  BY <1>4, <1>8

\* What a query that has searched down to a level has found from there up.
LEMMA FoundIsTrue ==
  ASSUME TypeOK, NEW v \in Vertices, \A w \in Fanout(v) : path[w] # NoPath,
         NEW r, \A w \in Fanout(v) : path[w].req = r[w]
  PROVE  FoundRequired(v) = RequiredFrom(r, v)
<1>1. \A e \in FanoutEdges(v) : /\ path[e[2]] # NoPath
                                /\ Minus(path[e[2]].req, delay[e]) = Minus(r[e[2]], delay[e])
  BY EdgeEnds
<1> DEFINE f == [e \in FanoutEdges(v) |-> Minus(r[e[2]], delay[e])]
<1>2. FanoutRequireds(v) = f
  <2>1. {e \in FanoutEdges(v) : path[e[2]] # NoPath} = FanoutEdges(v)
    BY <1>1
  <2> QED
    BY <1>1, <2>1 DEF FanoutRequireds
<1>3. Range(f) = {Minus(r[e[2]], delay[e]) : e \in FanoutEdges(v)}
  BY DEF Range
<1> HIDE DEF f
<1> QED
  BY <1>2, <1>3 DEF FoundRequired, RequiredFrom, OwnRequired

LEMMA SearchedRequired ==
  ASSUME TypeOK, NEW L \in Int, requireds_exist, PathsKept, NoLostRequired, edges = Edges,
         \A v \in Vertices : path[v] # NoPath => FoundRequired(v) # 0,
         \A w \in invalid_requireds \cup required_iter : Level[w] < L
  PROVE  \A v \in Vertices : Level[v] >= L /\ path[v] # NoPath => path[v].req = TrueRequired[v]
<1> DEFINE Wrong == {v \in Vertices : Level[v] >= L /\ RequiredChanged(v)}
           Untrue == {v \in Vertices : /\ Level[v] >= L /\ path[v] # NoPath
                                       /\ path[v].req # TrueRequired[v]}
<1>1. \A v \in Vertices : Level[v] \in Nat
  BY GraphAssumption
<1>2. ASSUME NEW v \in Vertices, Level[v] >= L, NEW w \in Fanout(v)
      PROVE  Level[w] >= L /\ w \in Vertices /\ <<v, w>> \in Edges
  <2>1. w \in Vertices /\ Level[v] < Level[w] /\ <<v, w>> \in FanoutEdges(v)
    BY EdgeEnds
  <2>2. Level[w] >= L
    BY <1>1, <1>2, <2>1
  <2> QED
    BY <2>1, <2>2 DEF FanoutEdges
<1>3. Wrong = {}
  <2>1. ASSUME NEW v \in Wrong
        PROVE  \E w \in Wrong : <<v, w>> \in Edges
    <3>1. v \notin invalid_requireds \cup required_iter
      BY <1>1
    <3>2. PICK w \in Fanout(v) : NewPath(w)
      BY <3>1 DEF NoLostRequired
    <3>3. w \in Vertices /\ Level[w] >= L /\ <<v, w>> \in Edges
      BY <1>2
    <3>4. RequiredChanged(w)
      BY <3>2, <3>3 DEF NewPath, RequiredChanged
    <3> QED
      BY <3>3, <3>4
  <2> HIDE DEF Wrong
  <2>2. Wrong \in SUBSET Vertices
    BY DEF Wrong
  <2> QED
    BY <2>1, <2>2, NoHighest
<1>4. Untrue = {}
  <2>1. ASSUME NEW v \in Untrue
        PROVE  \E w \in Untrue : <<v, w>> \in Edges
    <3>1. path[v].req = FoundRequired(v)
      BY <1>3 DEF RequiredChanged
    <3>2. \A w \in Fanout(v) : path[w] # NoPath
      BY FanoutPaths DEF PathsKept
    <3>3. SUFFICES ASSUME \A w \in Fanout(v) : w \notin Untrue
                   PROVE  FALSE
      BY <1>2
    <3>4. \A w \in Fanout(v) : path[w].req = TrueRequired[w]
      BY <1>2, <3>2, <3>3
    <3>5. FoundRequired(v) = RequiredFrom(TrueRequired, v)
      BY <3>2, <3>4, FoundIsTrue
    <3> QED
      BY <3>1, <3>5, TrueRequiredSolves
  <2> HIDE DEF Untrue
  <2>2. Untrue \in SUBSET Vertices
    BY DEF Untrue
  <2> QED
    BY <2>1, <2>2, NoHighest
<1> QED
  BY <1>4

LEMMA SinkTrueRequired ==
  ASSUME TypeOK, Bounded, NEW v \in Vertices, IsEndpoint(v), ~HasFanout(v)
  PROVE  TrueRequired[v] = endReq[v]
<1>1. Fanout(v) = {}
  BY EdgeEnds DEF HasFanout
<1>2. FoundRequired(v) = RequiredFrom(TrueRequired, v)
  BY <1>1, FoundIsTrue
<1> QED
  BY <1>2, SinkRequired, TrueRequiredSolves

\* With the arrivals of a search from scratch, the slack is that of one too if
\* the required time is.
LEMMA SlackIsTrue ==
  ASSUME SearchInv, arrivals_seeded, invalid_arrivals \cup arrival_iter = {},
         NEW v \in Vertices, NEW p \in Paths \cup {NoPath},
         p = NoPath <=> path[v] = NoPath,
         p # NoPath => p.arr = path[v].arr /\ p.req = TrueRequired[v]
  PROVE  Slack(p) = TrueSlack(v)
<1>1. TrueArrival[v] = (IF path[v] = NoPath THEN NoPath ELSE path[v].arr)
  BY StoredIsTrue DEF ArrivalsCurrent
<1>2. p # NoPath => TrueArrival[v] = p.arr /\ p.arr # NoPath
  <2>1. p # NoPath => p.arr \in Int
    BY DEF Paths
  <2> QED
    BY <1>1, <2>1, ValueAssumption
<1> QED
  BY <1>1, <1>2 DEF Slack, TrueSlack

-----------------------------------------------------------------------------
(* The search for required times.                                          *)

\* Endpoints are seeded once, when every path is new but for ends that were
\* asked for.
LEMMA SeedAllKept ==
  ASSUME SlackAssumption, SearchInv, TypeOK', SlackInv,
         arrivals_seeded, invalid_arrivals \cup arrival_iter = {}, ~requireds_exist,
         NEW S \in SUBSET Vertices, Sinks \subseteq S,
         path' = SeededPath(S), UNCHANGED <<edges, delay, endReq>>,
         required_iter \cup SeededFanin(S) \subseteq required_iter', requireds_exist'
  PROVE  PathsKept' /\ UnseededEnds' /\ NoLostRequired'
<1>1. TypeOK /\ edges = Edges /\ UnseededEnds
  BY DEF SearchInv, SlackInv, CallPhases
<1>2. \A v \in Vertices : path[v] = NoPath <=> FoundPath(v) = NoPath
  BY DEF SearchInv, NoLostArrival, ArrivalsChanged, SameArrival
<1>3. \A v \in Vertices :
        /\ path'[v] = NoPath <=> path[v] = NoPath
        /\ v \in S /\ path[v] # NoPath => path'[v].req = endReq[v]
        /\ v \notin S \/ SeededRequired(v) = path[v] => path'[v] = path[v]
  BY <1>1, SeededPathIs
<1>4. PathsKept'
  BY <1>1, <1>2, <1>3, FoundNoPathNext DEF PathsKept
<1>5. UnseededEnds'
  BY DEF UnseededEnds
<1>6. NoLostRequired'
  <2> SUFFICES ASSUME NEW v \in Vertices, RequiredChanged(v)'
               PROVE  v \in required_iter' \/ \E w \in Fanout(v) : NewPath(w)'
    BY DEF NoLostRequired, Fanout
  <2>1. path[v] # NoPath
    BY <1>3 DEF RequiredChanged
  <2>2. CASE Fanout(v) # {}
    <3>1. PICK w \in Fanout(v) : TRUE
      BY <2>2
    <3>2. w \in Vertices /\ v \in Fanin({w}) /\ path[w] # NoPath
      BY <1>1, <1>2, <2>1, FanoutPaths DEF Fanout, Fanin
    <3>3. CASE path[w].req # 0
      BY <1>1, <3>2, <3>3 DEF UnseededEnds
    <3>4. CASE path[w].req = 0 /\ path'[w] = path[w]
      BY <3>2, <3>4 DEF NewPath
    <3>5. CASE path[w].req = 0 /\ path'[w] # path[w]
      <4>1. w \in S /\ SeededRequired(w) # path[w]
        BY <1>3, <3>2, <3>5
      <4>2. v \in SeededFanin(S)
        BY <3>2, <4>1 DEF SeededFanin, Fanin
      <4> QED
        BY <4>2
    <3> QED
      BY <3>3, <3>4, <3>5
  <2>3. CASE Fanout(v) = {}
    <3>1. ~HasFanout(v)
      BY <1>1, <2>3, EdgeEnds DEF HasFanout
    <3>2. FaninEdges(v) # {}
      <4>1. PICK e \in edges : v \in {e[1], e[2]}
        BY <1>1 DEF SlackAssumption, NoneAlone
      <4>2. e[1] # v
        BY <3>1, <4>1 DEF HasFanout, FanoutEdges
      <4> QED
        BY <4>1, <4>2 DEF FaninEdges
    <3>3. IsEndpoint(v) /\ v \in S
      BY <3>1, <3>2 DEF IsEndpoint, EndpointIn, HasFanout, FanoutEdges, FaninEdges, Sinks
    <3>4. FoundRequired(v) = endReq[v]
      BY <1>1, <3>1, <3>3, SinkRequired DEF SlackAssumption
    <3>5. FoundRequired(v)' = FoundRequired(v)
      <4>1. FanoutEdges(v) = {}
        BY <3>1 DEF HasFanout
      <4> QED
        BY <4>1, SameFanoutRequired
    <3> QED
      BY <1>3, <2>1, <3>3, <3>4, <3>5 DEF RequiredChanged
  <2> QED
    BY <2>2, <2>3
<1> QED
  BY <1>4, <1>5, <1>6

\* Later some endpoints are seeded again.
LEMMA SeedSomeKept ==
  ASSUME SlackAssumption, TypeOK, TypeOK', SlackInv, requireds_exist,
         NEW S \in SUBSET Vertices,
         \A v \in S : IsEndpoint(v) /\ (HasFanout(v) => v \in required_iter'),
         path' = SeededPath(S), UNCHANGED <<edges, delay, endReq>>,
         required_iter \cup SeededFanin(S) \subseteq required_iter', requireds_exist',
         invalid_requireds \subseteq invalid_requireds' \cup required_iter' \cup S
  PROVE  PathsKept' /\ UnseededEnds' /\ NoLostRequired'
<1>1. edges = Edges /\ PathsKept /\ NoLostRequired
  BY DEF SlackInv, CallPhases
<1>2. \A v \in Vertices :
        /\ path'[v] = NoPath <=> path[v] = NoPath
        /\ v \in S /\ path[v] # NoPath => path'[v].req = endReq[v]
        /\ v \notin S \/ SeededRequired(v) = path[v] => path'[v] = path[v]
  BY SeededPathIs
<1>3. PathsKept'
  BY <1>1, <1>2, FoundNoPathNext DEF PathsKept
<1>4. UnseededEnds'
  BY DEF UnseededEnds
<1>5. NoLostRequired'
  <2> SUFFICES ASSUME NEW v \in Vertices, RequiredChanged(v)', v \notin required_iter'
               PROVE  v \in invalid_requireds' \/ \E w \in Fanout(v) : NewPath(w)'
    BY DEF NoLostRequired, Fanout
  <2>1. ASSUME NEW w \in Fanout(v)
        PROVE  path'[w] = path[w]
    <3>1. w \in Vertices /\ v \in Fanin({w})
      BY EdgeEnds DEF Fanout, Fanin
    <3>2. ~(w \in S /\ SeededRequired(w) # path[w])
      BY <3>1 DEF SeededFanin, Fanin
    <3> QED
      BY <1>2, <3>1, <3>2
  <2>2. FoundRequired(v)' = FoundRequired(v)
    BY <2>1, EdgeEnds, SameFanoutRequired DEF SameReq
  <2>3. v \notin S
    <3> SUFFICES ASSUME v \in S PROVE FALSE
      OBVIOUS
    <3>1. FoundRequired(v) = endReq[v]
      BY SinkRequired DEF SlackAssumption
    <3> QED
      BY <1>2, <2>2, <3>1 DEF RequiredChanged
  <2>4. RequiredChanged(v)
    BY <1>2, <2>2, <2>3 DEF RequiredChanged
  <2>5. CASE v \in invalid_requireds \cup required_iter
    BY <2>3, <2>5
  <2>6. CASE \E w \in Fanout(v) : NewPath(w)
    BY <2>1, <2>6 DEF NewPath
  <2> QED
    BY <1>1, <2>4, <2>5, <2>6 DEF NoLostRequired
<1> QED
  BY <1>3, <1>4, <1>5

\* A vertex that is visited has its required time, and queues its fanin if that
\* is new: in any case if its path was.
LEMMA VisitRequiredSlackInv ==
  ASSUME TypeOK, TypeOK', SlackInv, NonzeroRequireds, NEW v \in Vertices, VisitRequired(v)
  PROVE  SlackInv'
<1> DEFINE new == WithRequired(path[v], FoundRequired(v))
<1>1. /\ pc = "requireds" /\ pc' = pc /\ UNCHANGED <<query, answer>>
      /\ path' = [path EXCEPT ![v] = new]
      /\ required_iter' = (required_iter \ {v}) \cup (IF new # path[v] THEN Fanin({v}) ELSE {})
      /\ UNCHANGED <<edges, delay, endReq, arrivals_exist, arrivals_seeded, invalid_arrivals,
                     arrival_iter, requireds_exist, requireds_seeded, invalid_requireds,
                     endpoints, endpoints_initialized>>
  BY DEF VisitRequired, inputVars, arrivalVars, endpointVars, callVars
<1>2. CallPhases /\ PathsKept /\ NoLostRequired
  BY DEF SlackInv
<1>3. requireds_exist /\ requireds_exist' /\ answer' = NoPath
  BY <1>1, <1>2 DEF CallPhases
<1>4. CallPhases' /\ SlackAnswer'
  BY <1>1, <1>2, <1>3 DEF CallPhases, Sinks, FaninEdges, FanoutEdges, SlackAnswer
<1>5. path[v] \in Paths \cup {NoPath} /\ FoundRequired(v) \in Int
  BY FoundRequiredType DEF TypeOK
<1>6. /\ new = NoPath <=> path[v] = NoPath
      /\ path[v] # NoPath => new.req = FoundRequired(v)
      /\ path[v] # NoPath => (new = path[v] <=> path[v].req = FoundRequired(v))
      /\ path[v] = NoPath => new = path[v]
  BY <1>5, WithRequiredIs
<1> HIDE DEF new
<1>7. path'[v] = new /\ \A w \in Vertices \ {v} : path'[w] = path[w]
  BY <1>1 DEF TypeOK
<1>8. \A w \in Vertices : path'[w] = NoPath <=> path[w] = NoPath
  BY <1>6, <1>7
<1>9. PathsKept'
  BY <1>1, <1>2, <1>3, <1>8, FoundNoPathNext DEF PathsKept
<1>10. UnseededEnds'
  BY <1>3 DEF UnseededEnds
<1>11. NoLostRequired'
  <2> SUFFICES ASSUME NEW w \in Vertices, RequiredChanged(w)',
                      w \notin invalid_requireds \cup required_iter'
               PROVE  \E x \in Fanout(w) : NewPath(x)'
    BY <1>1 DEF NoLostRequired, Fanout
  <2>1. new # path[v] => v \notin Fanout(w)
    BY <1>1 DEF Fanout, Fanin
  <2>2. \A x \in Fanout(w) : path'[x] = path[x]
    BY <1>7, <2>1, EdgeEnds
  <2>3. FoundRequired(w)' = FoundRequired(w)
    BY <1>1, <2>2, EdgeEnds, SameFanoutRequired DEF SameReq
  <2>4. w # v
    BY <1>6, <1>7, <1>8, <2>3 DEF RequiredChanged
  <2>5. RequiredChanged(w)
    BY <1>7, <2>3, <2>4 DEF RequiredChanged
  <2>6. w \notin invalid_requireds \cup required_iter
    BY <1>1, <2>4
  <2>7. PICK x \in Fanout(w) : NewPath(x)
    BY <1>2, <1>3, <2>5, <2>6 DEF NoLostRequired
  <2> QED
    BY <2>2, <2>7 DEF NewPath
<1> QED
  BY <1>4, <1>9, <1>10, <1>11 DEF SlackInv

\* Endpoints that a query has refreshed, or knew, have every end without fanout.
LEMMA CurrentSinks ==
  ASSUME CallPhases
  PROVE  Sinks \subseteq CurrentEndpoints
BY DEF CallPhases, Sinks, CurrentEndpoints, IsEndpoint, EndpointIn, FaninEdges, FanoutEdges

\* Sta::findRequired of an end without fanout: it has the required time of its
\* output delay, and nothing else is searched.
LEMMA EndpointSlackInv ==
  ASSUME SlackAssumption, SearchInv, TypeOK', SlackInv, EndpointSlack
  PROVE  SlackInv'
<1> PICK v : v = query[2]
  OBVIOUS
<1>1. /\ pc = "arrivals" /\ arrival_iter = {} /\ query[1] = "slack"
      /\ IsEndpoint(v) /\ ~HasFanout(v) /\ path' = SeededPath({v})
      /\ required_iter' = required_iter \cup SeededFanin({v})
      /\ answer' = Slack(path'[v]) /\ pc' = "idle"
      /\ UNCHANGED <<edges, delay, endReq, arrivals_exist, arrivals_seeded, invalid_arrivals,
                     arrival_iter, requireds_exist, requireds_seeded, invalid_requireds,
                     endpoints, endpoints_initialized, query>>
  BY DEF EndpointSlack, ArrivalsFound, inputVars, arrivalVars, endpointVars
<1>2. CallPhases /\ PathsKept /\ UnseededEnds /\ NoLostRequired /\ TypeOK
  BY DEF SlackInv, SearchInv
<1>3. v \in Vertices /\ arrivals_seeded /\ invalid_arrivals = {}
  BY <1>1, <1>2 DEF CallPhases
<1>4. \A w \in Vertices :
        /\ path'[w] = NoPath <=> path[w] = NoPath
        /\ path[w] # NoPath => path'[w].arr = path[w].arr
        /\ w \in {v} /\ path[w] # NoPath => path'[w].req = endReq[w]
        /\ w \notin {v} \/ SeededRequired(w) = path[w] => path'[w] = path[w]
  BY <1>1, <1>2, <1>3, SeededPathIs
<1>5. CallPhases'
  BY <1>1, <1>2 DEF CallPhases, Sinks, FaninEdges, FanoutEdges
<1>6. SlackAnswer'
  <2>1. answer' = TrueSlack(v)
    <3>1. path'[v] \in Paths \cup {NoPath}
      BY <1>3 DEF TypeOK
    <3>2. TrueRequired[v] = endReq[v]
      BY <1>1, <1>2, <1>3, SinkTrueRequired DEF SlackAssumption
    <3> QED
      BY <1>1, <1>3, <1>4, <3>1, <3>2, SlackIsTrue
  <2>2. UNCHANGED <<TrueArrival, TrueRequired, query>>
    BY <1>1, SameTruth DEF inputVars
  <2>3. TrueSlack(query[2])' = TrueSlack(v)
    BY <2>2 DEF TrueSlack, Minus
  <2> QED
    BY <2>1, <2>3 DEF SlackAnswer
<1>7. CASE requireds_exist
  <2>1. PathsKept' /\ UnseededEnds' /\ NoLostRequired'
    <3>1. \A w \in {v} : IsEndpoint(w) /\ (HasFanout(w) => w \in required_iter')
      BY <1>1
    <3>2. {v} \in SUBSET Vertices
      BY <1>3
    <3> QED
      BY <1>1, <1>2, <1>7, <3>1, <3>2, SeedSomeKept
  <2> QED
    BY <1>5, <1>6, <2>1 DEF SlackInv
<1>8. CASE ~requireds_exist
  <2>1. PathsKept' /\ NoLostRequired'
    BY <1>1, <1>8 DEF PathsKept, NoLostRequired
  <2>2. UnseededEnds'
    <3> SUFFICES ASSUME NEW w \in Vertices, path'[w] # NoPath, path'[w].req # 0
                 PROVE  ~HasFanout(w) /\ Fanin({w}) \subseteq required_iter'
      BY <1>1 DEF UnseededEnds, HasFanout, FanoutEdges, Fanin
    <3>1. CASE path'[w] = path[w]
      BY <1>1, <1>2, <1>8, <3>1 DEF UnseededEnds
    <3>2. CASE path'[w] # path[w]
      <4>1. w = v /\ SeededRequired(w) # path[w]
        BY <1>4, <3>2
      <4>2. Fanin({w}) \subseteq SeededFanin({v})
        BY <4>1 DEF SeededFanin, Fanin
      <4> QED
        BY <1>1, <4>1, <4>2
    <3> QED
      BY <3>1, <3>2
  <2> QED
    BY <1>5, <1>6, <2>1, <2>2 DEF SlackInv
<1> QED
  BY <1>7, <1>8

LEMMA FindRequiredsInv ==
  ASSUME SlackAssumption, SearchInv, TypeOK', SlackInv, FindRequireds
  PROVE  SlackInv'
<1> DEFINE S == IF requireds_seeded THEN {} ELSE CurrentEndpoints
<1>1. /\ pc = "arrivals" /\ arrival_iter = {} /\ query[1] = "slack"
      /\ path' = SeededPath(S)
      /\ required_iter' = required_iter \cup SeededFanin(S) \cup invalid_requireds
      /\ invalid_requireds' = {} /\ requireds_exist' = TRUE /\ requireds_seeded' = TRUE
      /\ IF requireds_seeded THEN UNCHANGED endpointVars ELSE RefreshEndpoints
      /\ pc' = "requireds"
      /\ UNCHANGED <<edges, delay, endReq, arrivals_exist, arrivals_seeded, invalid_arrivals,
                     arrival_iter, query, answer>>
  BY DEF FindRequireds, ArrivalsFound, inputVars, arrivalVars
<1>2. CallPhases /\ TypeOK
  BY DEF SlackInv, SearchInv
<1>3. arrivals_seeded /\ invalid_arrivals = {} /\ answer = NoPath
  BY <1>1, <1>2 DEF CallPhases
<1>4. endpoints_initialized' => Sinks \subseteq endpoints'
  <2>1. CASE requireds_seeded
    BY <1>1, <1>2, <2>1 DEF CallPhases, endpointVars
  <2>2. CASE ~requireds_seeded
    BY <1>1, <1>2, <2>2, CurrentSinks DEF RefreshEndpoints
  <2> QED
    BY <2>1, <2>2
<1>5. CallPhases' /\ SlackAnswer'
  <2>1. Sinks' = Sinks
    BY <1>1 DEF Sinks, FaninEdges, FanoutEdges
  <2> QED
    BY <1>1, <1>2, <1>3, <1>4, <2>1 DEF CallPhases, SlackAnswer
<1>6. PathsKept' /\ UnseededEnds' /\ NoLostRequired'
  <2>1. CASE requireds_seeded
    <3>1. S = {} /\ requireds_exist
      BY <1>2, <2>1 DEF CallPhases
    <3> HIDE DEF S
    <3>2. /\ \A v \in S : IsEndpoint(v) /\ (HasFanout(v) => v \in required_iter')
          /\ S \in SUBSET Vertices
      BY <3>1
    <3> QED
      BY <1>1, <1>2, <3>1, <3>2, SeedSomeKept
  <2>2. CASE ~requireds_seeded
    <3>1. S = CurrentEndpoints /\ ~requireds_exist
      BY <1>2, <2>2 DEF CallPhases
    <3> HIDE DEF S
    <3>2. Sinks \subseteq S /\ S \in SUBSET Vertices
      BY <1>2, <3>1, CurrentSinks, CurrentEndpointsType
    <3>3. invalid_arrivals \cup arrival_iter = {}
      BY <1>1, <1>3
    <3> QED
      BY <1>1, <1>3, <3>1, <3>2, <3>3, SeedAllKept
  <2> QED
    BY <2>1, <2>2
<1> QED
  BY <1>5, <1>6 DEF SlackInv

\* Nothing from the level asked for up is queued, so all of it is found.
LEMMA EndRequiredsInv ==
  ASSUME SearchInv, TypeOK', SlackInv, NonzeroRequireds, EndRequireds
  PROVE  SlackInv'
<1> PICK v : v = query[2]
  OBVIOUS
<1>1. /\ pc = "requireds" /\ pc' = "idle" /\ \A w \in required_iter : Level[w] < Level[v]
      /\ answer' = Slack(path[v])
      /\ UNCHANGED <<inputVars, path, arrivalVars, requiredVars, endpointVars, query>>
  BY DEF EndRequireds
<1>2. CallPhases /\ PathsKept /\ UnseededEnds /\ NoLostRequired /\ TypeOK
  BY DEF SlackInv, SearchInv
<1>3. /\ edges = Edges /\ invalid_arrivals \cup arrival_iter = {} /\ arrivals_seeded
      /\ invalid_requireds = {} /\ requireds_exist
  BY <1>1, <1>2 DEF CallPhases
<1>4. UNCHANGED <<edges, delay, endReq, invalid_requireds, required_iter, requireds_exist,
                  requireds_seeded, endpoints, endpoints_initialized>>
  BY <1>1 DEF inputVars, requiredVars, endpointVars
<1>5. CallPhases'
  BY <1>1, <1>2, <1>4 DEF CallPhases, Sinks, FaninEdges, FanoutEdges
<1>6. PathsKept' /\ UnseededEnds' /\ NoLostRequired'
  <2>1. \A w \in Vertices : FoundRequired(w)' = FoundRequired(w)
    BY <1>1, <1>4, SameFanoutRequired DEF SameReq
  <2>2. invalid_requireds' = invalid_requireds \cup (RequiredsToRecord({}) \ required_iter)
    BY <1>4 DEF RequiredsToRecord
  <2> QED
    BY <1>1, <1>2, <1>4, <2>1, <2>2, RecordedKept
<1>7. SlackAnswer'
  <2> SUFFICES ASSUME query[1] = "slack" PROVE answer' = TrueSlack(query[2])'
    BY <1>1 DEF SlackAnswer
  <2>1. v \in Vertices /\ Level[v] \in Int
    BY <1>2, GraphAssumption DEF CallPhases
  <2>2. path[v] # NoPath => path[v].req = TrueRequired[v]
    <3>1. \A w \in invalid_requireds \cup required_iter : Level[w] < Level[v]
      BY <1>1, <1>3
    <3>2. \A w \in Vertices : path[w] # NoPath => FoundRequired(w) # 0
      BY <1>1 DEF NonzeroRequireds
    <3>3. \A w \in Vertices : Level[w] >= Level[v] /\ path[w] # NoPath
                               => path[w].req = TrueRequired[w]
      BY <1>2, <1>3, <2>1, <3>1, <3>2, SearchedRequired
    <3> QED
      BY <2>1, <3>3
  <2>3. answer' = TrueSlack(v)
    <3>1. path[v] \in Paths \cup {NoPath}
      BY <1>2, <2>1 DEF TypeOK
    <3> QED
      BY <1>1, <1>3, <2>1, <2>2, <3>1, SlackIsTrue
  <2>4. UNCHANGED <<TrueArrival, TrueRequired, query>>
    BY <1>1, SameTruth
  <2> QED
    BY <2>3, <2>4 DEF TrueSlack, Minus
<1> QED
  BY <1>5, <1>6, <1>7 DEF SlackInv

\* A total negative slack query seeds endpoints, and leaves the search to the
\* next slack query.
LEMMA TnsSlackInv ==
  ASSUME SlackAssumption, SearchInv, TypeOK', SlackInv, TotalNegativeSlack
  PROVE  SlackInv'
<1> DEFINE S == IF requireds_seeded THEN {v \in invalid_requireds : IsEndpoint(v)}
                ELSE CurrentEndpoints
           requeued == IF requireds_seeded THEN {v \in S : HasFanout(v)} ELSE {}
<1>1. /\ pc = "arrivals" /\ arrival_iter = {} /\ query[1] = "tns" /\ pc' = "idle"
      /\ path' = SeededPath(S)
      /\ required_iter' = required_iter \cup SeededFanin(S) \cup requeued
      /\ invalid_requireds' = IF requireds_seeded
                              THEN invalid_requireds \ S ELSE invalid_requireds
      /\ requireds_exist' = TRUE /\ requireds_seeded' = TRUE
      /\ \/ UNCHANGED endpointVars
         \/ RefreshEndpoints
      /\ UNCHANGED <<edges, delay, endReq, arrivals_exist, arrivals_seeded, invalid_arrivals,
                     arrival_iter, query>>
  BY DEF TotalNegativeSlack, WnsTnsPreamble, ArrivalsFound, inputVars, arrivalVars
<1>2. CallPhases /\ TypeOK
  BY DEF SlackInv, SearchInv
<1>3. arrivals_seeded /\ invalid_arrivals = {}
  BY <1>1, <1>2 DEF CallPhases
<1>4. endpoints_initialized' => Sinks \subseteq endpoints'
  <2>1. CASE UNCHANGED endpointVars
    BY <1>2, <2>1 DEF CallPhases, endpointVars
  <2>2. CASE RefreshEndpoints
    BY <1>2, <2>2, CurrentSinks DEF RefreshEndpoints
  <2> QED
    BY <1>1, <2>1, <2>2
<1>5. CallPhases' /\ SlackAnswer'
  <2>1. Sinks' = Sinks
    BY <1>1 DEF Sinks, FaninEdges, FanoutEdges
  <2> QED
    BY <1>1, <1>2, <1>4, <2>1 DEF CallPhases, SlackAnswer
<1>6. PathsKept' /\ UnseededEnds' /\ NoLostRequired'
  <2>1. CASE requireds_seeded
    <3>1. S = {v \in invalid_requireds : IsEndpoint(v)} /\ requeued = {v \in S : HasFanout(v)}
      BY <2>1
    <3>2. requireds_exist /\ invalid_requireds \subseteq Vertices
      BY <1>2, <2>1 DEF CallPhases, TypeOK
    <3> HIDE DEF S, requeued
    <3>3. /\ \A v \in S : IsEndpoint(v) /\ (HasFanout(v) => v \in required_iter')
          /\ S \in SUBSET Vertices
          /\ invalid_requireds \subseteq invalid_requireds' \cup required_iter' \cup S
      BY <1>1, <2>1, <3>1, <3>2
    <3> QED
      BY <1>1, <1>2, <3>2, <3>3, SeedSomeKept
  <2>2. CASE ~requireds_seeded
    <3>1. S = CurrentEndpoints /\ ~requireds_exist
      BY <1>2, <2>2 DEF CallPhases
    <3> HIDE DEF S, requeued
    <3>2. Sinks \subseteq S /\ S \in SUBSET Vertices
      BY <1>2, <3>1, CurrentSinks, CurrentEndpointsType
    <3>3. invalid_arrivals \cup arrival_iter = {}
      BY <1>1, <1>3
    <3> QED
      BY <1>1, <1>3, <3>1, <3>2, <3>3, SeedAllKept
  <2> QED
    BY <2>1, <2>2
<1> QED
  BY <1>5, <1>6 DEF SlackInv

-----------------------------------------------------------------------------
LEMMA InitSlackInv == Init => SlackInv
<1> SUFFICES ASSUME Init PROVE SlackInv
  OBVIOUS
<1>1. CallPhases
  BY DEF Init, CallPhases
<1>2. PathsKept /\ UnseededEnds /\ NoLostRequired
  BY DEF Init, PathsKept, UnseededEnds, NoLostRequired
<1>3. SlackAnswer
  BY DEF Init, SlackAnswer
<1> QED
  BY <1>1, <1>2, <1>3 DEF SlackInv

LEMMA StepSlackInv ==
  ASSUME SlackAssumption, SearchInv, NonzeroRequireds, SlackInv, [Next]_vars
  PROVE  SlackInv'
<1>1. TypeOK /\ TypeOK'
  BY StepTypeOK DEF SearchInv
<1>2. CASE EditStep
  BY <1>1, <1>2, EditSlackInv
<1>3. CASE StartQuery("update", NoPath) \/ StartQuery("tns", NoPath)
  BY <1>1, <1>3, QuerySlackInv
<1>4. ASSUME NEW v \in QueryPins, StartQuery("slack", v)
      PROVE  SlackInv'
  BY <1>1, <1>4, QuerySlackInv, ValueAssumption
<1>5. ASSUME NEW v \in Vertices, VisitArrival(v) \/ VisitRequired(v)
      PROVE  SlackInv'
  BY <1>1, <1>5, VisitArrivalSlackInv, VisitRequiredSlackInv
<1>6. CASE EndpointSlack \/ FindRequireds \/ EndRequireds \/ TotalNegativeSlack
  BY <1>1, <1>6, EndpointSlackInv, FindRequiredsInv, EndRequiredsInv, TnsSlackInv
<1>7. CASE EndUpdate \/ UNCHANGED vars
  <2>1. /\ pc' = "idle" \/ pc' = pc
        /\ UNCHANGED <<edges, delay, endReq, path, arrivals_seeded, invalid_arrivals,
                       arrival_iter, requireds_exist, requireds_seeded, invalid_requireds,
                       required_iter, endpoints, endpoints_initialized, query, answer>>
    BY <1>7 DEF EndUpdate, vars, inputVars, arrivalVars, requiredVars, endpointVars, callVars
  <2>2. CallPhases'
    BY <2>1 DEF SlackInv, CallPhases, Sinks, FaninEdges, FanoutEdges
  <2>3. \A w \in Vertices : FoundRequired(w)' = FoundRequired(w)
    BY <2>1, SameFanoutRequired DEF SameReq
  <2>4. invalid_requireds' = invalid_requireds \cup (RequiredsToRecord({}) \ required_iter)
    BY <2>1 DEF RequiredsToRecord
  <2>5. PathsKept' /\ UnseededEnds' /\ NoLostRequired'
    BY <1>1, <2>1, <2>3, <2>4, RecordedKept
  <2>6. UNCHANGED <<TrueArrival, TrueRequired, query, answer>>
    BY <2>1, SameTruth DEF inputVars
  <2>7. SlackAnswer'
    BY <2>6 DEF SlackInv, SlackAnswer, TrueSlack, Minus
  <2> QED
    BY <2>2, <2>5, <2>7 DEF SlackInv
<1> QED
  BY <1>2, <1>3, <1>4, <1>5, <1>6, <1>7 DEF Next, SearchStep

\* A slack that Sta::slack returns is that of a search from scratch, after any
\* changes of delays and output delays, however much of the graph the queries
\* before it have searched, where no required time that is found is zero.
THEOREM SlackAnswers ==
  ASSUME SlackAssumption
  PROVE  Spec /\ []NonzeroRequireds => []SlackAnswer
<1>1. Init => SearchInv /\ SlackInv
  BY InitTypeOK, InitSlackInv DEF Init, SearchInv, NoLostArrival
<1>2. SearchInv /\ SlackInv /\ NonzeroRequireds /\ [Next]_vars => SearchInv' /\ SlackInv'
  BY StepSearchInv, StepSlackInv
<1>3. SlackInv => SlackAnswer
  BY DEF SlackInv
<1> QED
  BY <1>1, <1>2, <1>3, PTL DEF Spec

-----------------------------------------------------------------------------
(***************************************************************************)
(* The total negative slack.                                               *)
(*                                                                         *)
(* The slack counted for an end is that of its output delay and its        *)
(* arrival, or the end is recorded in invalid_tns.  An end without fanout  *)
(* is evaluated by its stored required time, which is that of its output   *)
(* delay or is recorded in invalid_requireds: it must not be left in       *)
(* required_iter, where an edit would not record it again.                 *)
(***************************************************************************)
Ends == {v \in Vertices : EndpointIn(Edges, InitEndReq, v)}
EndSinks == {v \in Ends : ~\E e \in Edges : e[1] = v}

\* Hypotheses of the theorem: what is an end stays one, and a slack query that
\* searches for requireds searches the ends without fanout.
EndsKept == Infinity \notin EndReqs /\ EndPins \subseteq Ends
SinksSearched ==
  \A q \in QueryPins : q \in EndSinks \/ \A v \in EndSinks : Level[q] <= Level[v]
TnsAssumption == KeptGraph /\ Bounded /\ EndsKept /\ SinksSearched

\* The ends, where a query is, and what is queued then.
EndPhases ==
  /\ edges = Edges
  /\ \A v \in Vertices : endReq[v] = InitEndReq[v] \/ (v \in EndPins /\ endReq[v] \in EndReqs)
  /\ invalid_endpoints = {} /\ (endpoints_initialized => endpoints = Ends)
  /\ pc # "idle" => answer = NoPath /\ arrivals_seeded /\ invalid_arrivals = {}
  /\ requireds_seeded = requireds_exist
  /\ query[1] = "slack" => query[2] \in QueryPins
  /\ pc = "requireds" => /\ requireds_exist /\ query[1] = "slack"
                         /\ \A v \in EndSinks : Level[query[2]] <= Level[v]
  /\ pc # "requireds" => EndSinks \cap required_iter = {}

\* The required time stored at an end without fanout.
SinksCurrent ==
  requireds_exist =>
    \A v \in EndSinks : path[v] # NoPath /\ path[v].req # endReq[v] =>
      v \in invalid_requireds \cup required_iter

\* The slack counted for a vertex.
EndSlack(v) ==
  IF v \in Ends /\ path[v] # NoPath THEN Min({0, Minus(endReq[v], path[v].arr)}) ELSE 0
SlacksKept ==
  /\ invalid_tns \subseteq Ends
  /\ tns_exists => \A v \in Vertices : tns_slacks[v] = EndSlack(v) \/ v \in invalid_tns

TnsInv == EndPhases /\ PathsKept /\ SinksCurrent /\ SlacksKept /\ TnsAnswer

-----------------------------------------------------------------------------
LEMMA EndFacts ==
  ASSUME TypeOK, EndPhases, EndsKept
  PROVE  /\ \A v \in Vertices : /\ IsEndpoint(v) <=> v \in Ends
                                /\ v \in EndSinks <=> v \in Ends /\ ~HasFanout(v)
         /\ Ends \subseteq Vertices /\ EndSinks \subseteq Ends
         /\ CurrentEndpoints = Ends
<1>1. ASSUME NEW v \in Vertices PROVE IsEndpoint(v) <=> v \in Ends
  <2>1. CASE endReq[v] = InitEndReq[v]
    BY <2>1 DEF EndPhases, IsEndpoint, EndpointIn, Ends
  <2>2. CASE v \in EndPins /\ endReq[v] \in EndReqs
    <3>1. endReq[v] # Infinity /\ v \in Ends
      BY <2>2 DEF EndsKept
    <3> QED
      BY <3>1 DEF EndPhases, IsEndpoint, EndpointIn, Ends
  <2> QED
    BY <2>1, <2>2 DEF EndPhases
<1>2. \A v \in Vertices : v \in EndSinks <=> v \in Ends /\ ~HasFanout(v)
  BY DEF EndSinks, HasFanout, FanoutEdges, EndPhases
<1>3. Ends \subseteq Vertices /\ EndSinks \subseteq Ends
  BY DEF Ends, EndSinks
<1>4. CurrentEndpoints = Ends
  <2>1. {v \in Vertices : IsEndpoint(v)} = Ends
    BY <1>1, <1>3
  <2>2. CurrentEndpoints = IF endpoints_initialized THEN endpoints ELSE {v \in Vertices : IsEndpoint(v)}
    BY DEF CurrentEndpoints, EndPhases
  <2> QED
    BY <2>1, <2>2 DEF EndPhases
<1> QED
  BY <1>1, <1>2, <1>3, <1>4

LEMMA NoNegativeInfinity == Min({0, Infinity}) = 0
<1>1. Infinity \in Nat
  BY ValueAssumption
<1>2. IsFiniteSet({0, Infinity})
  <2>1. {0, Infinity} = {0} \cup {Infinity} /\ IsFiniteSet({0})
    BY FS_Singleton
  <2> QED
    BY <2>1, FS_AddElement
<1>3. {0, Infinity} \subseteq Int /\ {0, Infinity} # {}
  BY <1>1
<1>4. Min({0, Infinity}) \in {0, Infinity} /\ \A y \in {0, Infinity} : Min({0, Infinity}) <= y
  BY <1>2, <1>3, MinOfFinite
<1> QED
  BY <1>1, <1>4

LEMMA SameTns ==
  ASSUME UNCHANGED inputVars
  PROVE  TrueTns' = TrueTns
<1>1. UNCHANGED <<edges, endReq, TrueArrival>>
  BY SameTruth DEF inputVars
<1>2. TrueEndSlack' = TrueEndSlack
  BY <1>1 DEF TrueEndSlack, IsEndpoint, EndpointIn, Minus
<1> QED
  BY <1>2 DEF TrueTns, TotalSlack, MapThenSumSet, MapThenFoldSet

LEMMA EndSlackSame ==
  ASSUME NEW v, endReq'[v] = endReq[v], path'[v] = NoPath <=> path[v] = NoPath,
         path[v] # NoPath => path'[v].arr = path[v].arr
  PROVE  EndSlack(v)' = EndSlack(v)
BY DEF EndSlack, Minus

\* Only the slack of v changes, and v is recorded if it is an end.
LEMMA SlacksStep ==
  ASSUME SlacksKept, tns_exists' => tns_exists, NEW v \in Vertices,
         \A w \in Vertices \ {v} : tns_slacks'[w] = tns_slacks[w] /\ EndSlack(w)' = EndSlack(w),
         v \notin Ends => tns_slacks'[v] = tns_slacks[v],
         invalid_tns \subseteq invalid_tns', invalid_tns' \subseteq Ends,
         tns_exists /\ v \in Ends => v \in invalid_tns'
  PROVE  SlacksKept'
<1>1. v \notin Ends => EndSlack(v) = 0 /\ EndSlack(v)' = 0
  BY DEF EndSlack
<1>2. ASSUME tns_exists', NEW w \in Vertices PROVE tns_slacks'[w] = EndSlack(w)' \/ w \in invalid_tns'
  <2>1. tns_slacks[w] = EndSlack(w) \/ w \in invalid_tns
    BY <1>2 DEF SlacksKept
  <2>2. CASE w = v
    BY <1>1, <1>2, <2>1, <2>2
  <2>3. CASE w # v
    BY <1>2, <2>1, <2>3
  <2> QED
    BY <2>2, <2>3
<1> QED
  BY <1>2 DEF SlacksKept

\* Paths are kept by a step that changes at most their required times.
LEMMA PathsStep ==
  ASSUME TypeOK, TypeOK', PathsKept, UNCHANGED edges,
         \A v \in Vertices : path'[v] = NoPath <=> path[v] = NoPath,
         requireds_exist' => \/ requireds_exist
                             \/ \A v \in Vertices : path[v] = NoPath <=> FoundPath(v) = NoPath
  PROVE  PathsKept'
BY FoundNoPathNext DEF PathsKept

-----------------------------------------------------------------------------
LEMMA EditTnsInv ==
  ASSUME TnsAssumption, TypeOK, TypeOK', NestedInv, TnsInv, EditStep
  PROVE  TnsInv'
<1>1. /\ EndPhases /\ PathsKept /\ SinksCurrent /\ SlacksKept
      /\ KeptGraph /\ EndsKept
  BY DEF TnsInv, TnsAssumption
<1>2. tns_exists => requireds_exist /\ arrivals_exist
  BY DEF NestedInv, ResultsNested
<1>3. ASSUME NEW e \in AnnotEdges, NEW d \in Delays, SetArcDelay(e, d)
      PROVE  TnsInv'
  <2>1. /\ pc = "idle" /\ pc' = "idle" /\ answer' = NoPath
        /\ UNCHANGED <<edges, endReq, path, query, requireds_exist, requireds_seeded, tns_exists,
                       required_iter, tns_slacks, endpoints, endpoints_initialized, invalid_endpoints>>
        /\ invalid_requireds' = invalid_requireds \cup (RequiredsToRecord({e[1]}) \ required_iter)
        /\ invalid_tns' = invalid_tns \cup
             {v \in ArrivalsToRecord({e[2]}) \cup RequiredsToRecord({e[1]}) : tns_exists /\ IsEndpoint(v)}
    BY <1>3 DEF SetArcDelay, Edit, Invalidate, InvalidateIn, endpointVars, IsEndpoint
  <2>2. e[1] \in Vertices /\ e[2] \in Vertices
    BY GraphAssumption, ValueAssumption
  <2>3. EndPhases'
    BY <1>1, <2>1 DEF EndPhases
  <2>4. PathsKept' /\ SinksCurrent'
    <3>1. PathsKept'
      BY <1>1, <2>1, PathsStep
    <3> QED
      BY <1>1, <2>1, <3>1 DEF SinksCurrent
  <2>5. SlacksKept'
    <3>1. \A v \in Vertices : EndSlack(v)' = EndSlack(v)
      BY <2>1, EndSlackSame
    <3>2. invalid_tns' \subseteq Ends
      BY <1>1, <2>1, <2>2, EndFacts DEF SlacksKept, ArrivalsToRecord, RequiredsToRecord
    <3> QED
      BY <1>1, <2>1, <3>1, <3>2 DEF SlacksKept
  <2> QED
    BY <2>1, <2>3, <2>4, <2>5 DEF TnsInv, TnsAnswer
<1>4. ASSUME NEW v \in EndPins, NEW r \in EndReqs, SetOutputDelay(v, r)
      PROVE  TnsInv'
  <2>1. /\ pc = "idle" /\ pc' = "idle" /\ answer' = NoPath
        /\ UNCHANGED <<edges, path, query, requireds_exist, requireds_seeded, tns_exists,
                       required_iter, tns_slacks, endpoints, endpoints_initialized, invalid_endpoints>>
        /\ endReq' = [endReq EXCEPT ![v] = r]
        /\ invalid_requireds' = invalid_requireds \cup (RequiredsToRecord({v}) \ required_iter)
        /\ invalid_tns' = invalid_tns \cup
             {w \in ArrivalsToRecord({}) \cup RequiredsToRecord({v}) : tns_exists /\ EndpointIn(edges, endReq', w)}
    BY <1>4 DEF SetOutputDelay, Edit, InvalidateIn, endpointVars
  <2>2. v \in Vertices /\ v \in Ends
    BY <1>1, ValueAssumption DEF EndsKept
  <2>3. endReq'[v] = r /\ \A w \in Vertices \ {v} : endReq'[w] = endReq[w]
    BY <2>1, <2>2 DEF TypeOK
  <2>4. EndPhases'
    BY <1>1, <2>1, <2>3 DEF EndPhases
  <2>5. PathsKept'
    BY <1>1, <2>1, PathsStep
  <2>6. SinksCurrent'
    <3> SUFFICES ASSUME requireds_exist, NEW w \in EndSinks, path[w] # NoPath, path[w].req # endReq'[w]
                 PROVE  w \in invalid_requireds' \cup required_iter
      BY <2>1 DEF SinksCurrent
    <3>1. CASE w = v
      BY <2>1, <3>1 DEF RequiredsToRecord
    <3>2. CASE w # v
      <4>1. w \in Vertices
        BY DEF EndSinks, Ends
      <4> QED
        BY <1>1, <2>1, <2>3, <3>2, <4>1 DEF SinksCurrent
    <3> QED
      BY <3>1, <3>2
  <2>7. SlacksKept'
    <3>1. \A w \in Vertices \ {v} : tns_slacks'[w] = tns_slacks[w] /\ EndSlack(w)' = EndSlack(w)
      BY <2>1, <2>3, EndSlackSame
    <3>2. endReq'[v] # Infinity
      BY <1>1, <2>3 DEF EndsKept
    <3>3. EndpointIn(edges, endReq', v)
      BY <1>1, <2>2, <3>2 DEF EndPhases, EndpointIn, Ends
    <3>4. invalid_tns' \subseteq Ends
      BY <1>1, <2>1, <2>2 DEF SlacksKept, ArrivalsToRecord, RequiredsToRecord
    <3>5. tns_exists => v \in invalid_tns'
      BY <1>2, <2>1, <3>3 DEF RequiredsToRecord
    <3> QED
      BY <1>1, <2>1, <2>2, <3>1, <3>4, <3>5, SlacksStep
  <2> QED
    BY <2>1, <2>4, <2>5, <2>6, <2>7 DEF TnsInv, TnsAnswer
<1>5. CASE ArrivalsInvalid
  <2>1. /\ pc = "idle" /\ pc' = "idle" /\ answer' = NoPath
        /\ requireds_exist' = FALSE /\ requireds_seeded' = FALSE /\ tns_exists' = FALSE
        /\ required_iter' = {} /\ invalid_tns' = {}
        /\ UNCHANGED <<edges, endReq, query, endpoints, endpoints_initialized, invalid_endpoints>>
    BY <1>5 DEF ArrivalsInvalid, inputVars, endpointVars
  <2>2. EndPhases'
    BY <1>1, <2>1 DEF EndPhases
  <2> QED
    BY <2>1, <2>2 DEF TnsInv, TnsAnswer, PathsKept, SinksCurrent, SlacksKept
<1>6. /\ \A v : ~RemoveOutputDelay(v)
      /\ \A e : ~DisconnectLoad(e) /\ ~ConnectLoad(e)
      /\ ~RequiredsInvalid
  BY <1>1 DEF KeptGraph, RemoveOutputDelay, DisconnectLoad, ConnectLoad, RequiredsInvalid, Edit
<1> QED
  BY <1>3, <1>4, <1>5, <1>6 DEF EditStep

LEMMA QueryTnsInv ==
  ASSUME TypeOK, TypeOK', TnsInv, NEW q, NEW v, StartQuery(q, v), q = "slack" => v \in QueryPins
  PROVE  TnsInv'
<1>1. EndPhases /\ PathsKept /\ SinksCurrent /\ SlacksKept
  BY DEF TnsInv
<1>2. /\ pc = "idle" /\ pc' = "arrivals" /\ answer' = NoPath /\ query' = <<q, v>>
      /\ invalid_arrivals' = {} /\ arrivals_seeded' = TRUE
      /\ UNCHANGED <<edges, endReq, path, requireds_exist, requireds_seeded, required_iter,
                     invalid_requireds, tns_exists, tns_slacks, invalid_tns,
                     endpoints, endpoints_initialized, invalid_endpoints>>
  BY DEF StartQuery, inputVars, requiredVars, tnsVars, endpointVars
<1>3. EndPhases'
  BY <1>1, <1>2 DEF EndPhases
<1>4. PathsKept'
  BY <1>1, <1>2, PathsStep
<1>5. SinksCurrent'
  BY <1>1, <1>2 DEF SinksCurrent
<1>6. SlacksKept'
  BY <1>1, <1>2 DEF SlacksKept, EndSlack, Minus
<1> QED
  BY <1>2, <1>3, <1>4, <1>5, <1>6 DEF TnsInv, TnsAnswer

\* A visit that changes the arrival of an end records the end.
LEMMA VisitArrivalTnsInv ==
  ASSUME TnsAssumption, TypeOK, TypeOK', TnsInv, NEW v \in Vertices, VisitArrival(v)
  PROVE  TnsInv'
<1>1. EndPhases /\ PathsKept /\ SinksCurrent /\ SlacksKept /\ EndsKept
  BY DEF TnsInv, TnsAssumption
<1>2. /\ pc = "arrivals" /\ pc' = pc
      /\ UNCHANGED <<edges, endReq, arrivals_seeded, invalid_arrivals, requireds_exist,
                     requireds_seeded, required_iter, tns_exists, endpoints,
                     endpoints_initialized, invalid_endpoints, query, answer>>
  BY DEF VisitArrival, inputVars, endpointVars, callVars
<1>3. EndPhases' /\ answer = NoPath
  BY <1>1, <1>2 DEF EndPhases
<1>4. CASE ~ArrivalsChanged(v)
  <2>1. UNCHANGED <<path, invalid_requireds, tns_slacks, invalid_tns>>
    BY <1>4 DEF VisitArrival
  <2>2. PathsKept'
    BY <1>1, <1>2, <2>1, PathsStep
  <2>3. SlacksKept' /\ SinksCurrent'
    BY <1>1, <1>2, <2>1 DEF SlacksKept, SinksCurrent, EndSlack, Minus
  <2> QED
    BY <1>2, <1>3, <2>2, <2>3 DEF TnsInv, TnsAnswer
<1>5. CASE ArrivalsChanged(v)
  <2> DEFINE new == FoundPath(v)
  <2>1. /\ path' = [path EXCEPT ![v] = new]
        /\ tns_slacks' = IF new = NoPath /\ tns_exists /\ IsEndpoint(v)
                         THEN [tns_slacks EXCEPT ![v] = 0] ELSE tns_slacks
        /\ invalid_requireds' = invalid_requireds \cup
             (IF new # NoPath /\ path[v] # NoPath THEN RequiredsToRecord({v}) \ required_iter
              ELSE {})
        /\ invalid_tns' = invalid_tns \cup (IF tns_exists /\ IsEndpoint(v) THEN {v} ELSE {})
    BY <1>5 DEF VisitArrival, SetVertexArrivals
  <2>2. path'[v] = new /\ \A w \in Vertices \ {v} : path'[w] = path[w]
    BY <2>1 DEF TypeOK
  <2>3. requireds_exist => (path[v] = NoPath <=> new = NoPath) /\ path[v] # NoPath
    <3>1. requireds_exist => (path[v] = NoPath <=> new = NoPath)
      BY <1>1 DEF PathsKept
    <3> QED
      BY <1>5, <3>1 DEF ArrivalsChanged, SameArrival
  <2> HIDE DEF new
  <2>4. PathsKept'
    <3>1. CASE requireds_exist
      <4>1. \A w \in Vertices : path'[w] = NoPath <=> path[w] = NoPath
        BY <2>2, <2>3, <3>1
      <4> QED
        BY <1>1, <1>2, <3>1, <4>1, PathsStep
    <3>2. CASE ~requireds_exist
      BY <1>2, <3>2 DEF PathsKept
    <3> QED
      BY <3>1, <3>2
  <2>5. SinksCurrent'
    <3> SUFFICES ASSUME requireds_exist, NEW w \in EndSinks, path'[w] # NoPath, path'[w].req # endReq[w]
                 PROVE  w \in invalid_requireds' \cup required_iter
      BY <1>2 DEF SinksCurrent
    <3>1. CASE w = v
      BY <2>1, <2>3, <3>1 DEF RequiredsToRecord
    <3>2. CASE w # v
      <4>1. w \in Vertices
        BY DEF EndSinks, Ends
      <4> QED
        BY <1>1, <2>1, <2>2, <3>2, <4>1 DEF SinksCurrent
    <3> QED
      BY <3>1, <3>2
  <2>6. SlacksKept'
    <3>1. \A w \in Vertices \ {v} : tns_slacks'[w] = tns_slacks[w] /\ EndSlack(w)' = EndSlack(w)
      <4>1. \A w \in Vertices \ {v} : tns_slacks'[w] = tns_slacks[w]
        BY <2>1 DEF TypeOK
      <4> QED
        BY <1>2, <2>2, <4>1, EndSlackSame
    <3>2. IsEndpoint(v) <=> v \in Ends
      BY <1>1, EndFacts
    <3>3. invalid_tns' \subseteq Ends /\ (tns_exists /\ v \in Ends => v \in invalid_tns')
      BY <1>1, <2>1, <3>2 DEF SlacksKept
    <3>4. v \notin Ends => tns_slacks'[v] = tns_slacks[v]
      BY <2>1, <3>2
    <3>5. invalid_tns \subseteq invalid_tns'
      BY <2>1
    <3> QED
      BY <1>1, <1>2, <3>1, <3>3, <3>4, <3>5, SlacksStep
  <2> QED
    BY <1>2, <1>3, <2>4, <2>5, <2>6 DEF TnsInv, TnsAnswer
<1> QED
  BY <1>4, <1>5

\* A visit gives an end without fanout the required time of its output delay.
LEMMA VisitRequiredTnsInv ==
  ASSUME TnsAssumption, TypeOK, TypeOK', TnsInv, NEW v \in Vertices, VisitRequired(v)
  PROVE  TnsInv'
<1> DEFINE new == WithRequired(path[v], FoundRequired(v))
<1>1. EndPhases /\ PathsKept /\ SinksCurrent /\ SlacksKept /\ EndsKept /\ Bounded
  BY DEF TnsInv, TnsAssumption
<1>2. /\ pc = "requireds" /\ pc' = pc
      /\ path' = [path EXCEPT ![v] = new]
      /\ required_iter' = (required_iter \ {v}) \cup (IF new # path[v] THEN Fanin({v}) ELSE {})
      /\ invalid_tns' = invalid_tns \cup (IF tns_exists /\ IsEndpoint(v) THEN {v} ELSE {})
      /\ UNCHANGED <<edges, endReq, arrivals_seeded, invalid_arrivals, requireds_exist,
                     requireds_seeded, invalid_requireds, tns_exists, tns_slacks, endpoints,
                     endpoints_initialized, invalid_endpoints, query, answer>>
  BY DEF VisitRequired, inputVars, arrivalVars, endpointVars, callVars
<1>3. EndPhases' /\ answer = NoPath
  BY <1>1, <1>2 DEF EndPhases
<1>4. path[v] \in Paths \cup {NoPath} /\ FoundRequired(v) \in Int
  BY FoundRequiredType DEF TypeOK
<1>5. /\ new = NoPath <=> path[v] = NoPath
      /\ path[v] # NoPath => new.req = FoundRequired(v) /\ new.arr = path[v].arr
  BY <1>4, WithRequiredIs
<1> HIDE DEF new
<1>6. path'[v] = new /\ \A w \in Vertices \ {v} : path'[w] = path[w]
  BY <1>2 DEF TypeOK
<1>7. \A w \in Vertices : /\ path'[w] = NoPath <=> path[w] = NoPath
                          /\ path[w] # NoPath => path'[w].arr = path[w].arr
  BY <1>5, <1>6
<1>8. PathsKept'
  BY <1>1, <1>2, <1>7, PathsStep
<1>9. SinksCurrent'
  <2> SUFFICES ASSUME requireds_exist, NEW w \in EndSinks, path'[w] # NoPath, path'[w].req # endReq[w]
               PROVE  w \in invalid_requireds \cup required_iter'
    BY <1>2 DEF SinksCurrent
  <2>1. w \in Vertices /\ IsEndpoint(w) /\ ~HasFanout(w)
    BY <1>1, EndFacts
  <2>2. w # v
    BY <1>1, <1>5, <1>6, <2>1, SinkRequired
  <2> QED
    BY <1>1, <1>2, <1>6, <2>1, <2>2 DEF SinksCurrent
<1>10. SlacksKept'
  <2>1. \A w \in Vertices : EndSlack(w)' = EndSlack(w)
    BY <1>2, <1>7, EndSlackSame
  <2>2. invalid_tns \subseteq invalid_tns' /\ invalid_tns' \subseteq Ends
    BY <1>1, <1>2, EndFacts DEF SlacksKept
  <2> QED
    BY <1>1, <1>2, <2>1, <2>2 DEF SlacksKept
<1> QED
  BY <1>2, <1>3, <1>8, <1>9, <1>10 DEF TnsInv, TnsAnswer

\* What is seeded or queued by way of its fanout has fanout.
LEMMA SeededHasFanout ==
  ASSUME TypeOK, EndPhases, EndsKept, NEW S
  PROVE  EndSinks \cap SeededFanin(S) = {}
<1>1. ASSUME NEW v \in EndSinks, v \in SeededFanin(S) PROVE FALSE
  <2>1. v \in Vertices /\ \A e \in edges : e[1] # v
    BY <1>1, EndFacts DEF HasFanout, FanoutEdges
  <2>2. PICK w : <<v, w>> \in edges
    BY <1>1 DEF SeededFanin, Fanin
  <2>3. <<v, w>>[1] = v
    OBVIOUS
  <2> QED
    BY <2>1, <2>2, <2>3
<1> QED
  BY <1>1

\* A step of a query that changes required times only, and tns_slacks not.
LEMMA SeedTns ==
  ASSUME TypeOK, TypeOK', TnsInv, SearchInv, arrivals_seeded, invalid_arrivals \cup arrival_iter = {},
         NEW S \in SUBSET Vertices, path' = SeededPath(S),
         UNCHANGED <<edges, endReq>>
  PROVE  /\ PathsKept'
         /\ \A v \in Vertices : /\ path'[v] = NoPath <=> path[v] = NoPath
                                /\ path[v] # NoPath => path'[v].arr = path[v].arr
                                /\ v \in S /\ path[v] # NoPath => path'[v].req = endReq[v]
                                /\ v \notin S => path'[v] = path[v]
                                /\ EndSlack(v)' = EndSlack(v)
<1>1. \A v \in Vertices : /\ path'[v] = NoPath <=> path[v] = NoPath
                          /\ path[v] # NoPath => path'[v].arr = path[v].arr
                          /\ v \in S /\ path[v] # NoPath => path'[v].req = endReq[v]
                          /\ v \notin S => path'[v] = path[v]
  BY SeededPathIs
<1>2. \A v \in Vertices : path[v] = NoPath <=> FoundPath(v) = NoPath
  BY DEF SearchInv, NoLostArrival, ArrivalsChanged, SameArrival
<1>3. PathsKept'
  BY <1>1, <1>2, PathsStep DEF TnsInv
<1>4. \A v \in Vertices : EndSlack(v)' = EndSlack(v)
  BY <1>1, EndSlackSame
<1> QED
  BY <1>1, <1>3, <1>4

LEMMA EndpointSlackTnsInv ==
  ASSUME TnsAssumption, SearchInv, TypeOK', TnsInv, EndpointSlack
  PROVE  TnsInv'
<1> PICK v : v = query[2]
  OBVIOUS
<1>1. /\ pc = "arrivals" /\ arrival_iter = {} /\ query[1] = "slack" /\ pc' = "idle"
      /\ path' = SeededPath({v}) /\ required_iter' = required_iter \cup SeededFanin({v})
      /\ UNCHANGED <<edges, endReq, arrivals_seeded, invalid_arrivals, requireds_exist,
                     requireds_seeded, invalid_requireds, tns_exists, tns_slacks, invalid_tns,
                     endpoints, endpoints_initialized, invalid_endpoints, query>>
  BY DEF EndpointSlack, ArrivalsFound, inputVars, arrivalVars, tnsVars, endpointVars
<1>2. EndPhases /\ SinksCurrent /\ SlacksKept /\ EndsKept /\ TypeOK
  BY DEF TnsInv, TnsAssumption, SearchInv
<1>3. v \in Vertices /\ arrivals_seeded /\ invalid_arrivals = {}
  BY <1>1, <1>2, ValueAssumption DEF EndPhases
<1>4. invalid_arrivals \cup arrival_iter = {} /\ {v} \in SUBSET Vertices
  BY <1>1, <1>3
<1>5. /\ PathsKept'
      /\ \A w \in Vertices : /\ path'[w] = NoPath <=> path[w] = NoPath
                             /\ w \in {v} /\ path[w] # NoPath => path'[w].req = endReq[w]
                             /\ w \notin {v} => path'[w] = path[w]
                             /\ EndSlack(w)' = EndSlack(w)
  BY <1>1, <1>2, <1>3, <1>4, SeedTns
<1>6. EndPhases'
  BY <1>1, <1>2, SeededHasFanout DEF EndPhases
<1>7. SinksCurrent'
  BY <1>1, <1>2, <1>5, EndFacts DEF SinksCurrent
<1>8. SlacksKept'
  BY <1>1, <1>2, <1>5 DEF SlacksKept
<1> QED
  BY <1>1, <1>5, <1>6, <1>7, <1>8 DEF TnsInv, TnsAnswer

LEMMA FindRequiredsTnsInv ==
  ASSUME TnsAssumption, SearchInv, TypeOK', TnsInv, FindRequireds
  PROVE  TnsInv'
<1> DEFINE S == IF requireds_seeded THEN {} ELSE CurrentEndpoints
<1>1. /\ pc = "arrivals" /\ arrival_iter = {} /\ query[1] = "slack" /\ pc' = "requireds"
      /\ ~(IsEndpoint(query[2]) /\ ~HasFanout(query[2]))
      /\ path' = SeededPath(S)
      /\ required_iter' = required_iter \cup SeededFanin(S) \cup invalid_requireds
      /\ requireds_exist' = TRUE /\ requireds_seeded' = TRUE
      /\ IF requireds_seeded THEN UNCHANGED endpointVars ELSE RefreshEndpoints
      /\ UNCHANGED <<edges, endReq, arrivals_seeded, invalid_arrivals, tns_exists, tns_slacks,
                     invalid_tns, query, answer>>
  BY DEF FindRequireds, ArrivalsFound, inputVars, arrivalVars, tnsVars
<1>2. EndPhases /\ SinksCurrent /\ SlacksKept /\ EndsKept /\ TypeOK /\ SinksSearched
  BY DEF TnsInv, TnsAssumption, SearchInv
<1>3. arrivals_seeded /\ invalid_arrivals = {} /\ answer = NoPath /\ query[2] \in Vertices
      /\ query[2] \in QueryPins /\ requireds_seeded = requireds_exist
  BY <1>1, <1>2, ValueAssumption DEF EndPhases
<1>4. S \in SUBSET Vertices /\ (~requireds_exist => S = Ends)
  BY <1>2, <1>3, EndFacts
<1>5. S = {} \/ ~requireds_exist
  BY <1>3
<1> HIDE DEF S
<1>6. /\ PathsKept'
      /\ \A w \in Vertices : /\ path'[w] = NoPath <=> path[w] = NoPath
                             /\ w \in S /\ path[w] # NoPath => path'[w].req = endReq[w]
                             /\ w \notin S => path'[w] = path[w]
                             /\ EndSlack(w)' = EndSlack(w)
  <2>1. invalid_arrivals \cup arrival_iter = {}
    BY <1>1, <1>3
  <2> QED
    BY <1>1, <1>2, <1>3, <1>4, <2>1, SeedTns
<1>7. EndPhases'
  <2>1. query[2] \notin EndSinks
    BY <1>1, <1>2, <1>3, EndFacts
  <2>2. \A v \in EndSinks : Level[query[2]] <= Level[v]
    BY <1>2, <1>3, <2>1 DEF SinksSearched
  <2>3. invalid_endpoints' = {} /\ (endpoints_initialized' => endpoints' = Ends)
    BY <1>1, <1>2, EndFacts DEF EndPhases, endpointVars, RefreshEndpoints
  <2> QED
    BY <1>1, <1>2, <1>3, <2>2, <2>3 DEF EndPhases
<1>8. SinksCurrent'
  <2> SUFFICES ASSUME NEW w \in EndSinks, path'[w] # NoPath, path'[w].req # endReq[w]
               PROVE  w \in required_iter'
    BY <1>1 DEF SinksCurrent
  <2>1. w \in Vertices /\ w \in Ends
    BY <1>2, EndFacts
  <2>2. w \notin S /\ requireds_exist
    BY <1>4, <1>6, <2>1
  <2> QED
    BY <1>1, <1>2, <1>6, <2>1, <2>2 DEF SinksCurrent
<1>9. SlacksKept'
  BY <1>1, <1>2, <1>6 DEF SlacksKept
<1> QED
  BY <1>1, <1>3, <1>6, <1>7, <1>8, <1>9 DEF TnsInv, TnsAnswer

LEMMA EndRequiredsTnsInv ==
  ASSUME TnsAssumption, TypeOK, TypeOK', TnsInv, EndRequireds
  PROVE  TnsInv'
<1>1. /\ pc = "requireds" /\ pc' = "idle" /\ \A w \in required_iter : Level[w] < Level[query[2]]
      /\ UNCHANGED <<edges, endReq, path, arrivals_seeded, invalid_arrivals, requireds_exist,
                     requireds_seeded, required_iter, invalid_requireds, tns_exists, tns_slacks,
                     invalid_tns, endpoints, endpoints_initialized, invalid_endpoints, query>>
  BY DEF EndRequireds, inputVars, arrivalVars, requiredVars, tnsVars, endpointVars
<1>2. EndPhases /\ PathsKept /\ SinksCurrent /\ SlacksKept
  BY DEF TnsInv
<1>3. EndSinks \cap required_iter = {}
  <2>1. \A v \in EndSinks : Level[query[2]] <= Level[v]
    BY <1>1, <1>2 DEF EndPhases
  <2>2. \A v \in EndSinks : v \in Vertices
    BY DEF EndSinks, Ends
  <2>3. query[1] = "slack"
    BY <1>1, <1>2 DEF EndPhases
  <2>4. Level[query[2]] \in Nat /\ \A v \in EndSinks : Level[v] \in Nat
    BY <1>2, <2>2, <2>3, GraphAssumption, ValueAssumption DEF EndPhases
  <2> QED
    BY <1>1, <2>1, <2>4
<1>4. EndPhases'
  BY <1>1, <1>2, <1>3 DEF EndPhases
<1>5. PathsKept'
  BY <1>1, <1>2, PathsStep
<1>6. SinksCurrent' /\ SlacksKept'
  BY <1>1, <1>2 DEF SinksCurrent, SlacksKept, EndSlack, Minus
<1>7. TnsAnswer'
  BY <1>1, <1>2 DEF EndPhases, TnsAnswer
<1> QED
  BY <1>4, <1>5, <1>6, <1>7 DEF TnsInv

\* The total: the slacks that were not counted again are those of ends that were
\* not recorded, and the ends without fanout have their required times.
LEMMA TotalTnsInv ==
  ASSUME TnsAssumption, SearchInv, NestedInv, TypeOK', TnsInv, TotalNegativeSlack
  PROVE  TnsInv'
<1> DEFINE S == IF requireds_seeded THEN {v \in invalid_requireds : IsEndpoint(v)}
                ELSE CurrentEndpoints
           requeued == IF requireds_seeded THEN {v \in S : HasFanout(v)} ELSE {}
           counted == IF tns_exists THEN {v \in invalid_tns : IsEndpoint(v)} ELSE CurrentEndpoints
           kept == IF tns_exists THEN tns_slacks ELSE [v \in Vertices |-> 0]
<1>1. /\ pc = "arrivals" /\ arrival_iter = {} /\ query[1] = "tns" /\ pc' = "idle"
      /\ path' = SeededPath(S)
      /\ required_iter' = required_iter \cup SeededFanin(S) \cup requeued
      /\ invalid_requireds' = IF requireds_seeded
                              THEN invalid_requireds \ S ELSE invalid_requireds
      /\ requireds_exist' = TRUE /\ requireds_seeded' = TRUE
      /\ UNCHANGED endpointVars \/ RefreshEndpoints
      /\ UNCHANGED <<edges, delay, endReq, arrivals_seeded, invalid_arrivals, query>>
  BY DEF TotalNegativeSlack, WnsTnsPreamble, ArrivalsFound, inputVars, arrivalVars
<1>2. /\ tns_slacks' = [v \in Vertices |->
                          IF v \in counted THEN NegativeSlack(path', v) ELSE kept[v]]
      /\ tns_exists' = TRUE /\ invalid_tns' = {} /\ answer' = TotalSlack(tns_slacks')
  BY DEF TotalNegativeSlack
<1>3. EndPhases /\ SinksCurrent /\ SlacksKept /\ EndsKept /\ TypeOK
  BY DEF TnsInv, TnsAssumption, SearchInv
<1>4. /\ arrivals_seeded /\ invalid_arrivals \cup arrival_iter = {}
      /\ requireds_seeded = requireds_exist /\ EndSinks \cap required_iter = {}
  BY <1>1, <1>3 DEF EndPhases
<1>5. /\ \A v \in Vertices : /\ IsEndpoint(v) <=> v \in Ends
                             /\ v \in EndSinks <=> v \in Ends /\ ~HasFanout(v)
      /\ Ends \subseteq Vertices /\ EndSinks \subseteq Ends /\ CurrentEndpoints = Ends
  BY <1>3, EndFacts
<1>6. /\ S \subseteq Vertices /\ EndSinks \cap requeued = {}
      /\ requireds_exist => EndSinks \cap invalid_requireds \subseteq S
      /\ ~requireds_exist => S = Ends
  BY <1>3, <1>4, <1>5 DEF TypeOK
<1>7. counted = (IF tns_exists THEN invalid_tns ELSE Ends) /\ counted \subseteq Ends
  BY <1>3, <1>5 DEF SlacksKept
<1>8. ~tns_exists => \A v \in Vertices : kept[v] = 0
  OBVIOUS
<1>9. tns_exists => kept = tns_slacks
  OBVIOUS
<1> HIDE DEF S, requeued, counted, kept
<1>10. /\ PathsKept'
       /\ \A v \in Vertices : /\ path'[v] = NoPath <=> path[v] = NoPath
                              /\ path[v] # NoPath => path'[v].arr = path[v].arr
                              /\ v \in S /\ path[v] # NoPath => path'[v].req = endReq[v]
                              /\ v \notin S => path'[v] = path[v]
                              /\ EndSlack(v)' = EndSlack(v)
  BY <1>1, <1>3, <1>4, <1>6, SeedTns
<1>11. \A v \in EndSinks : path'[v] # NoPath => path'[v].req = endReq[v]
  <2> SUFFICES ASSUME NEW v \in EndSinks, path[v] # NoPath, v \notin S
               PROVE  path[v].req = endReq[v]
    BY <1>5, <1>10
  <2>1. requireds_exist /\ v \notin invalid_requireds /\ v \notin required_iter
    BY <1>4, <1>5, <1>6
  <2> QED
    BY <1>3, <2>1 DEF SinksCurrent
<1>12. ASSUME NEW v \in Ends PROVE NegativeSlack(path', v) = EndSlack(v)'
  <2>1. v \in Vertices
    BY <1>5
  <2>2. CASE path'[v] = NoPath
    <3>1. Min({0, Infinity}) = 0
      BY NoNegativeInfinity
    <3> QED
      BY <2>2, <3>1 DEF NegativeSlack, WnsSlack, EndSlack
  <2>3. CASE path'[v] # NoPath
    <3>1. WnsSlack(path', v) = Minus(endReq[v], path'[v].arr)
      BY <1>5, <1>11, <2>1, <2>3 DEF WnsSlack, Slack
    <3>2. endReq'[v] = endReq[v]
      BY <1>1
    <3> QED
      BY <2>3, <3>1, <3>2 DEF NegativeSlack, EndSlack, Minus
  <2> QED
    BY <2>2, <2>3
<1>13. ASSUME NEW v \in Vertices PROVE tns_slacks'[v] = EndSlack(v)'
  <2>1. CASE v \in counted
    BY <1>2, <1>7, <1>12, <2>1
  <2>2. CASE v \notin counted /\ tns_exists
    BY <1>2, <1>3, <1>7, <1>9, <1>10, <2>2 DEF SlacksKept
  <2>3. CASE v \notin counted /\ ~tns_exists
    <3>1. EndSlack(v)' = 0
      BY <1>7, <2>3 DEF EndSlack
    <3> QED
      BY <1>2, <1>8, <2>3, <3>1
  <2> QED
    BY <2>1, <2>2, <2>3
<1>14. SlacksKept'
  BY <1>2, <1>13 DEF SlacksKept
<1>15. SinksCurrent'
  <2>1. endReq' = endReq
    BY <1>1
  <2> QED
    BY <1>11, <2>1 DEF SinksCurrent
<1>16. EndPhases'
  <2>1. invalid_endpoints' = {} /\ (endpoints_initialized' => endpoints' = Ends)
    BY <1>1, <1>3, <1>5 DEF EndPhases, endpointVars, RefreshEndpoints
  <2>2. EndSinks \cap required_iter' = {}
    BY <1>1, <1>3, <1>4, <1>6, SeededHasFanout
  <2> QED
    BY <1>1, <1>3, <2>1, <2>2 DEF EndPhases
<1>17. answer' = TrueTns
  <2>1. ASSUME NEW v \in Vertices
        PROVE  tns_slacks'[v] = TrueEndSlack[v]
    <3>1. TrueArrival[v] = (IF path[v] = NoPath THEN NoPath ELSE path[v].arr)
      BY <1>4, StoredIsTrue DEF ArrivalsCurrent
    <3>2. path[v] # NoPath => path[v].arr # NoPath
      <4>1. path[v] # NoPath => path[v].arr \in Int
        BY <1>3 DEF TypeOK, Paths
      <4> QED
        BY <4>1, ValueAssumption
    <3>3. TrueEndSlack[v] = EndSlack(v)
      BY <1>5, <3>1, <3>2 DEF TrueEndSlack, EndSlack
    <3> QED
      BY <1>10, <1>13, <3>3
  <2>2. tns_slacks' = TrueEndSlack
    <3>1. tns_slacks' = [v \in Vertices |-> tns_slacks'[v]]
      BY <1>2
    <3>2. TrueEndSlack = [v \in Vertices |-> TrueEndSlack[v]]
      BY DEF TrueEndSlack
    <3> QED
      BY <2>1, <3>1, <3>2
  <2> QED
    BY <1>2, <2>2 DEF TrueTns
<1>18. TrueTns' = TrueTns
  BY <1>1, SameTns DEF inputVars
<1> QED
  BY <1>10, <1>14, <1>15, <1>16, <1>17, <1>18 DEF TnsInv, TnsAnswer

LEMMA StepTnsInv ==
  ASSUME TnsAssumption, SearchInv, NestedInv, TnsInv, [Next]_vars
  PROVE  TnsInv'
<1>1. TypeOK /\ TypeOK'
  BY StepTypeOK DEF SearchInv
<1>2. CASE EditStep
  BY <1>1, <1>2, EditTnsInv
<1>3. CASE StartQuery("update", NoPath) \/ StartQuery("tns", NoPath)
  BY <1>1, <1>3, QueryTnsInv
<1>4. ASSUME NEW v \in QueryPins, StartQuery("slack", v)
      PROVE  TnsInv'
  BY <1>1, <1>4, QueryTnsInv
<1>5. ASSUME NEW v \in Vertices, VisitArrival(v) \/ VisitRequired(v)
      PROVE  TnsInv'
  BY <1>1, <1>5, VisitArrivalTnsInv, VisitRequiredTnsInv
<1>6. CASE EndpointSlack \/ FindRequireds \/ EndRequireds \/ TotalNegativeSlack
  BY <1>1, <1>6, EndpointSlackTnsInv, FindRequiredsTnsInv, EndRequiredsTnsInv, TotalTnsInv
<1>7. CASE EndUpdate \/ UNCHANGED vars
  <2>1. /\ (pc = "arrivals" /\ pc' = "idle") \/ pc' = pc
        /\ UNCHANGED <<edges, delay, endReq, path, arrivals_seeded, invalid_arrivals,
                       requireds_exist, requireds_seeded, invalid_requireds, required_iter,
                       tns_exists, invalid_tns, tns_slacks,
                       endpoints, endpoints_initialized, invalid_endpoints, query, answer>>
    BY <1>7 DEF EndUpdate, ArrivalsFound, vars, inputVars, arrivalVars, requiredVars, tnsVars,
                endpointVars, callVars
  <2>2. EndPhases'
    BY <2>1 DEF TnsInv, EndPhases
  <2>3. PathsKept'
    BY <1>1, <2>1, PathsStep DEF TnsInv
  <2>4. SinksCurrent' /\ SlacksKept'
    BY <2>1 DEF TnsInv, SinksCurrent, SlacksKept, EndSlack, Minus
  <2>5. TrueTns' = TrueTns
    BY <2>1, SameTns DEF inputVars
  <2>6. TnsAnswer'
    BY <2>1, <2>5 DEF TnsInv, TnsAnswer
  <2> QED
    BY <2>2, <2>3, <2>4, <2>6 DEF TnsInv
<1> QED
  BY <1>2, <1>3, <1>4, <1>5, <1>6, <1>7 DEF Next, SearchStep

LEMMA InitTnsInv == Init => TnsInv
<1> SUFFICES ASSUME Init PROVE TnsInv
  OBVIOUS
<1>1. EndPhases
  BY DEF Init, EndPhases
<1>2. PathsKept /\ SinksCurrent /\ SlacksKept
  BY DEF Init, PathsKept, SinksCurrent, SlacksKept
<1>3. TnsAnswer
  BY DEF Init, TnsAnswer
<1> QED
  BY <1>1, <1>2, <1>3 DEF TnsInv

\* The total negative slack that Search::totalNegativeSlack returns is the sum of
\* the negative end slacks of a search from scratch, after any changes of delays
\* and output delays that make no new end, and any slack queries between them that
\* search requireds down to the ends without fanout or not at all.
THEOREM TotalIsTrue ==
  ASSUME TnsAssumption
  PROVE  Spec => []TnsAnswer
<1>1. Init => SearchInv /\ NestedInv /\ TnsInv
  BY InitTypeOK, InitTnsInv DEF Init, SearchInv, NoLostArrival, NestedInv, ResultsNested
<1>2. SearchInv /\ NestedInv /\ TnsInv /\ [Next]_vars => SearchInv' /\ NestedInv' /\ TnsInv'
  BY StepSearchInv, StepNestedInv, StepTnsInv DEF SearchInv
<1>3. TnsInv => TnsAnswer
  BY DEF TnsInv
<1> QED
  BY <1>1, <1>2, <1>3, PTL DEF Spec
=============================================================================
