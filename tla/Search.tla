------------------------------- MODULE Search -------------------------------
(***************************************************************************)
(* Incremental arrival, required and total-negative-slack search           *)
(* (search/Search.cc with its callers in search/Sta.cc).                   *)
(*                                                                         *)
(* The timing graph is levelized; arrivals are propagated forward by       *)
(* arrival_iter and required times backward by required_iter, one level at *)
(* a time.  An edit (an arc delay, an output delay, a pin connected or     *)
(* disconnected) only records the vertices it invalidates; the next query  *)
(* repairs the part of the graph it needs.  A vertex carries one path (one *)
(* tag): several scenes, transitions and clocks repeat the same protocol   *)
(* per path index.  Latches, loops, filters and level changes are outside  *)
(* this module.                                                            *)
(*                                                                         *)
(* One API call runs at a time.  The visits inside one level are unordered *)
(* (the dispatch queue's threads run them in any order, see Bfs.tla).      *)
(*                                                                         *)
(* A definition Variant_X is a slip in the definition that follows it,     *)
(* used only to show that a property depends on getting X right.           *)
(***************************************************************************)
EXTENDS Integers, FiniteSetsExt

CONSTANTS
  Vertices,       \* graph vertices
  Edges,          \* wire and gate edges of the linked design, <<from, to>>
  Level,          \* logic level of each vertex
  Inputs,         \* vertices of top level input ports (search starts)
  OutPorts,       \* vertices of top level output ports
  Wires,          \* edges of load pins that may be disconnected / connected
  AnnotEdges,     \* edges whose delay set_arc_delay may change
  Delays,         \* bound: the delays an edge may take
  InitDelay,      \* delay of each edge when the design is linked
  EndPins,        \* vertices whose output delay may change
  EndReqs,        \* bound: the required times an output delay may give
  InitEndReq,     \* required time from the output delay of each vertex
  InputArrival,   \* arrival the input delays give the input ports
  Infinity,       \* required time of an unconstrained path
  NoPath,         \* Vertex::paths() is null
  NoEdge,         \* Path::prevEdge() is null
  QueryPins,      \* bound: vertices whose slack is asked for
  Edits,          \* bound: names of the edit operations enabled
  Queries         \* bound: names of the queries enabled

EditNames == {"delay", "output_delay", "unset_output_delay", "wire",
              "requireds_invalid", "arrivals_invalid"}

ASSUME GraphAssumption ==
  /\ IsFiniteSet(Edges)
  /\ Edges \subseteq Vertices \X Vertices
  /\ Wires \subseteq Edges
  /\ Level \in [Vertices -> Nat]
  /\ \A e \in Edges : Level[e[1]] < Level[e[2]]
  /\ Inputs \subseteq Vertices
  /\ OutPorts \subseteq Vertices

ASSUME ValueAssumption ==
  /\ Delays \subseteq Nat
  /\ InitDelay \in [Edges -> Delays]
  /\ Infinity \in Nat
  /\ InputArrival \in Nat
  /\ EndReqs \subseteq Int
  /\ InitEndReq \in [Vertices -> EndReqs \cup {Infinity}]
  /\ AnnotEdges \subseteq Edges
  /\ EndPins \subseteq Vertices
  /\ NoEdge \notin Edges
  /\ NoPath \notin Int \cup [arr : Int, req : Int, prev : Edges \cup {NoEdge}]
  /\ Edits \subseteq EditNames
  /\ QueryPins \subseteq Vertices
  /\ Queries \subseteq {"update", "slack", "tns"}

VARIABLES
  edges,                  \* edges of the graph now
  delay,                  \* edge -> arc delay
  endReq,                 \* vertex -> required time its output delay imposes
  path,                   \* vertex -> NoPath or arrival, required, prev edge
  arrivals_exist, arrivals_seeded, invalid_arrivals,
  arrival_iter,           \* vertices queued in the forward iterator
  requireds_exist, requireds_seeded, invalid_requireds,
  required_iter,          \* vertices queued in the backward iterator
  tns_exists, invalid_tns,
  tns_slacks,             \* negative slack counted for a vertex, 0 if none
  endpoints, endpoints_initialized, invalid_endpoints,
  pc,                     \* "idle", "arrivals" or "requireds"
  query,                  \* the call being served, <<name, vertex or NoPath>>
  answer                  \* what the last call returned, or NoPath

inputVars == <<edges, delay, endReq>>
arrivalVars == <<arrivals_exist, arrivals_seeded, invalid_arrivals, arrival_iter>>
requiredVars == <<requireds_exist, requireds_seeded, invalid_requireds,
                  required_iter>>
tnsVars == <<tns_exists, invalid_tns, tns_slacks>>
endpointVars == <<endpoints, endpoints_initialized, invalid_endpoints>>
callVars == <<pc, query, answer>>
vars == <<inputVars, path, arrivalVars, requiredVars, tnsVars, endpointVars,
          callVars>>

-----------------------------------------------------------------------------
(* The graph, and what one visit of a vertex computes.                     *)

FaninEdges(v) == {e \in edges : e[2] = v}
FanoutEdges(v) == {e \in edges : e[1] = v}
Fanin(S) == {v \in Vertices : \E w \in S : <<v, w>> \in edges}
Variant_FanoutDrivers(v) ==
  {w \in Vertices : <<v, w>> \in edges /\ \E x \in Vertices : <<w, x>> \in edges}
Fanout(v) == {w \in Vertices : <<v, w>> \in edges}
HasFanout(v) == FanoutEdges(v) # {}

\* Search::isEndpoint in a graph with edges es and output delays reqs.
EndpointIn(es, reqs, v) ==
  /\ \E e \in es : e[2] = v
  /\ v \in OutPorts \/ reqs[v] # Infinity \/ ~\E e \in es : e[1] = v
IsEndpoint(v) == EndpointIn(edges, endReq, v)

Paths == [arr : Int, req : Int, prev : Edges \cup {NoEdge}]

\* Difference that keeps an unconstrained required time unconstrained.
Minus(req, d) == IF req = Infinity THEN Infinity ELSE req - d

\* ArrivalVisitor::visit up to the comparison with the previous paths:
\* the latest arrival over the fanin paths, or the input arrival.
FaninArrivals(v) ==
  [e \in {f \in FaninEdges(v) : path[f[1]] # NoPath} |-> path[e[1]].arr + delay[e]]
LatestEdge(arrs) ==
  CHOOSE e \in DOMAIN arrs : \A f \in DOMAIN arrs : arrs[f] <= arrs[e]
FoundPath(v) ==
  LET arrs == FaninArrivals(v)
      last == LatestEdge(arrs)
  IN  IF v \in Inputs
      THEN [arr |-> InputArrival, req |-> 0, prev |-> NoEdge]
      ELSE IF DOMAIN arrs = {}
      THEN NoPath
      ELSE [arr |-> arrs[last], req |-> 0, prev |-> last]

\* Search::arrivalsChanged.
SameArrival(p, q) ==
  \/ p = NoPath /\ q = NoPath
  \/ p # NoPath /\ q # NoPath /\ p.arr = q.arr /\ p.prev = q.prev
ArrivalsChanged(v) == ~SameArrival(path[v], FoundPath(v))

\* RequiredVisitor::visit up to requiredsSave.
FanoutRequireds(v) ==
  [e \in {f \in FanoutEdges(v) : path[f[2]] # NoPath} |->
     Minus(path[e[2]].req, delay[e])]
FoundRequired(v) ==
  Min({Infinity} \cup (IF IsEndpoint(v) THEN {endReq[v]} ELSE {})
                 \cup Range(FanoutRequireds(v)))

WithRequired(p, r) == IF p = NoPath THEN NoPath ELSE [p EXCEPT !.req = r]
Slack(p) == IF p = NoPath THEN Infinity ELSE Minus(p.req, p.arr)

-----------------------------------------------------------------------------
(* Invalidation: what an edit or a visit leaves for the next query.        *)

\* Nothing is recorded before the first search (arrivals_exist_,
\* requireds_exist_).
Variant_ArrivalsWithRequireds(A) == IF requireds_exist THEN A ELSE {}
ArrivalsToRecord(A) == IF arrivals_exist THEN A ELSE {}
Variant_RequiredsAlways(R) == R
RequiredsToRecord(R) == IF requireds_exist THEN R ELSE {}

\* Search::arrivalInvalid of the vertices A and requiredInvalid of R, each with
\* its tnsInvalid, against the edges and output delays of that moment.  A
\* vertex that is already queued is not recorded again.
InvalidateIn(es, reqs, A, R) ==
  LET arrs == ArrivalsToRecord(A)
      rqds == RequiredsToRecord(R)
  IN  /\ invalid_arrivals' = invalid_arrivals \cup (arrs \ arrival_iter)
      /\ invalid_requireds' = invalid_requireds \cup (rqds \ required_iter)
      /\ invalid_tns' = invalid_tns \cup
           {v \in arrs \cup rqds : tns_exists /\ EndpointIn(es, reqs, v)}
Invalidate(A, R) == InvalidateIn(edges, endReq, A, R)

\* Search::endpoints: the cached set brought up to date.
CurrentEndpoints ==
  LET cached == IF endpoints_initialized
                THEN endpoints ELSE {v \in Vertices : IsEndpoint(v)}
  IN  {v \in cached \cup invalid_endpoints : v \in invalid_endpoints => IsEndpoint(v)}
RefreshEndpoints ==
  /\ endpoints' = CurrentEndpoints
  /\ endpoints_initialized' = TRUE
  /\ invalid_endpoints' = {}

Init ==
  /\ edges = Edges
  /\ delay = InitDelay
  /\ endReq = InitEndReq
  /\ path = [v \in Vertices |-> NoPath]
  /\ arrivals_exist = FALSE /\ arrivals_seeded = FALSE
  /\ invalid_arrivals = {} /\ arrival_iter = {}
  /\ requireds_exist = FALSE /\ requireds_seeded = FALSE
  /\ invalid_requireds = {} /\ required_iter = {}
  /\ tns_exists = FALSE /\ invalid_tns = {}
  /\ tns_slacks = [v \in Vertices |-> 0]
  /\ endpoints = {} /\ endpoints_initialized = FALSE /\ invalid_endpoints = {}
  /\ pc = "idle" /\ query = <<"none", NoPath>> /\ answer = NoPath

-----------------------------------------------------------------------------
(* Edits.  Each is one call between two queries.                           *)

Edit(name) ==
  /\ name \in Edits
  /\ pc = "idle"
  /\ answer' = NoPath
  /\ UNCHANGED <<pc, query, arrivals_exist, arrivals_seeded, arrival_iter,
                 requireds_exist, requireds_seeded, required_iter, tns_exists>>

\* Sta::setArcDelay.  The slip takes every annotation for an increment of the
\* delay that the arc has.
Variant_AddArcDelay(e, d) ==
  /\ Edit("delay")
  /\ e \in edges
  /\ delay[e] # d
  /\ delay' = [delay EXCEPT ![e] = @ + d]
  /\ Invalidate({e[2]}, {e[1]})
  /\ UNCHANGED <<edges, endReq, path, tns_slacks, endpointVars>>
SetArcDelay(e, d) ==
  /\ Edit("delay")
  /\ e \in edges
  /\ delay[e] # d
  /\ delay' = [delay EXCEPT ![e] = d]
  /\ Invalidate({e[2]}, {e[1]})
  /\ UNCHANGED <<edges, endReq, path, tns_slacks, endpointVars>>

\* Sta::setOutputDelay: only the required time of the pin is invalidated.
SetOutputDelay(v, r) ==
  /\ Edit("output_delay")
  /\ endReq[v] # r
  /\ endReq' = [endReq EXCEPT ![v] = r]
  /\ InvalidateIn(edges, endReq', {}, {v})
  /\ UNCHANGED <<edges, delay, path, tns_slacks, endpointVars>>

\* Sta::removeOutputDelay: only the arrival of the pin is invalidated.
RemoveOutputDelay(v) ==
  /\ Edit("unset_output_delay")
  /\ endReq[v] # Infinity
  /\ endReq' = [endReq EXCEPT ![v] = Infinity]
  /\ InvalidateIn(edges, endReq', {v}, {})
  /\ UNCHANGED <<edges, delay, path, tns_slacks, endpointVars>>

\* Sta::disconnectPinBefore of a load pin: deleteEdge of its wire edge
\* (Search::deleteEdgeBefore, then the edge leaves the graph).  The levels
\* downstream are not reduced (Levelize::relevelize).
DisconnectLoad(e) ==
  /\ Edit("wire")
  /\ e \in edges
  /\ Invalidate({e[2]}, {e[1]})
  /\ path' = [path EXCEPT ![e[2]] =
                IF @ = NoPath THEN NoPath ELSE [@ EXCEPT !.prev = NoEdge]]
  /\ edges' = edges \ {e}
  /\ UNCHANGED <<delay, endReq, tns_slacks, endpointVars>>

\* Sta::connectPinAfter of a load pin, with connectLoadPinAfter: arrivals and
\* requireds are invalidated around the new wire edge.  Levels already order
\* the two pins, so relevelizeFrom changes none.
ConnectLoad(e) ==
  /\ Edit("wire")
  /\ e \notin edges
  /\ edges' = edges \cup {e}
  /\ InvalidateIn(edges', endReq, {e[2]}, {e[1], e[2]})
  /\ invalid_endpoints' = invalid_endpoints \cup {e[2]}
  /\ UNCHANGED <<delay, endReq, path, tns_slacks, endpoints,
                 endpoints_initialized>>

\* Search::requiredsInvalid (set_clock_groups and its removal): the stored
\* requireds are abandoned, required_iter is not cleared.
RequiredsInvalid ==
  /\ "requireds_invalid" \in Edits
  /\ pc = "idle"
  /\ requireds_exist' = FALSE /\ requireds_seeded' = FALSE
  /\ invalid_requireds' = {}
  /\ tns_exists' = FALSE /\ invalid_tns' = {}
  /\ answer' = NoPath
  /\ UNCHANGED <<inputVars, path, arrivalVars, required_iter, tns_slacks,
                 endpointVars, pc, query>>

\* Search::arrivalsInvalid (an exception or a case analysis changed).
ArrivalsInvalid ==
  /\ "arrivals_invalid" \in Edits
  /\ pc = "idle"
  /\ arrivals_exist
  /\ path' = [v \in Vertices |-> NoPath]
  /\ arrivals_exist' = FALSE /\ arrivals_seeded' = FALSE
  /\ invalid_arrivals' = {} /\ arrival_iter' = {}
  /\ requireds_exist' = FALSE /\ requireds_seeded' = FALSE
  /\ invalid_requireds' = {} /\ required_iter' = {}
  /\ tns_exists' = FALSE /\ invalid_tns' = {}
  /\ answer' = NoPath
  /\ UNCHANGED <<inputVars, tns_slacks, endpointVars, pc, query>>

-----------------------------------------------------------------------------
(* Queries.                                                                *)

\* The call begins with Search::findAllArrivals: findArrivalsSeed queues the
\* start points once and every invalid vertex.  Constants propagated, delays
\* found and filters deleted (Sta::searchPreamble) are outside this module.
StartPoints == Inputs \cup {v \in Vertices : FaninEdges(v) = {}}
StartQuery(q, v) ==
  /\ pc = "idle"
  /\ q \in Queries
  /\ arrival_iter' = arrival_iter \cup invalid_arrivals
                       \cup (IF arrivals_seeded THEN {} ELSE StartPoints)
  /\ invalid_arrivals' = {}
  /\ arrivals_exist' = TRUE /\ arrivals_seeded' = TRUE
  /\ pc' = "arrivals"
  /\ query' = <<q, v>>
  /\ answer' = NoPath
  /\ UNCHANGED <<inputVars, path, requiredVars, tnsVars, endpointVars>>

\* Search::setVertexArrivals: the new paths are copied over the old ones (their
\* requireds become zero) and the required time is invalidated, unless there
\* were no paths; or the paths are deleted, after Search::deletePathsIncr
\* withdrew the vertex from the negative slacks.
SetVertexArrivals(v, new) ==
  /\ path' = [path EXCEPT ![v] = new]
  /\ tns_slacks' = IF new = NoPath /\ tns_exists /\ IsEndpoint(v)
                   THEN [tns_slacks EXCEPT ![v] = 0] ELSE tns_slacks
  /\ invalid_requireds' = invalid_requireds \cup
       (IF new # NoPath /\ path[v] # NoPath THEN RequiredsToRecord({v}) \ required_iter
        ELSE {})

\* BfsIterator::visit hands ArrivalVisitor::visit a vertex of the first
\* queued level.  A changed vertex queues its fanout.
VisitArrival(v) ==
  /\ pc = "arrivals"
  /\ v \in arrival_iter
  /\ \A w \in arrival_iter : Level[v] <= Level[w]
  /\ IF ArrivalsChanged(v)
     THEN /\ arrival_iter' = (arrival_iter \ {v}) \cup Fanout(v)
          /\ SetVertexArrivals(v, FoundPath(v))
          /\ invalid_tns' = invalid_tns \cup
               (IF tns_exists /\ IsEndpoint(v) THEN {v} ELSE {})
     ELSE /\ arrival_iter' = arrival_iter \ {v}
          /\ UNCHANGED <<path, tns_slacks, invalid_requireds, invalid_tns>>
  /\ UNCHANGED <<inputVars, arrivals_exist, arrivals_seeded,
                 invalid_arrivals, requireds_exist, requireds_seeded,
                 required_iter, tns_exists, endpointVars, callVars>>

\* Search::findAllArrivals is done.
Variant_AllFound(name) ==
  pc = "arrivals" /\ arrival_iter \cup required_iter = {} /\ query[1] = name
ArrivalsFound(name) == pc = "arrivals" /\ arrival_iter = {} /\ query[1] = name

\* Sta::updateTiming.
EndUpdate ==
  /\ ArrivalsFound("update")
  /\ pc' = "idle"
  /\ UNCHANGED <<inputVars, path, arrivalVars, requiredVars, tnsVars,
                 endpointVars, query, answer>>

\* Search::seedRequired of the vertices S: the required time of the end
\* itself; the fanin is queued when it differs from the stored one.
SeededRequired(v) == WithRequired(path[v], endReq[v])
SeededPath(S) == [v \in Vertices |-> IF v \in S THEN SeededRequired(v) ELSE path[v]]
Variant_SeededFanin(S) == {}
SeededFanin(S) == Fanin({v \in S : SeededRequired(v) # path[v]})

\* Sta::findRequired of an endpoint without fanout.
EndpointSlack ==
  LET v == query[2]
  IN  /\ ArrivalsFound("slack")
      /\ IsEndpoint(v) /\ ~HasFanout(v)
      /\ path' = SeededPath({v})
      /\ required_iter' = required_iter \cup SeededFanin({v})
      /\ answer' = Slack(path'[v])
      /\ pc' = "idle"
      /\ UNCHANGED <<inputVars, arrivalVars, requireds_exist, requireds_seeded,
                     invalid_requireds, tnsVars, endpointVars, query>>

\* Search::findRequireds up to the search: endpoints are seeded once
\* (seedRequireds), then every invalid vertex is queued.
FindRequireds ==
  LET seeds == IF requireds_seeded THEN {} ELSE CurrentEndpoints
  IN  /\ ArrivalsFound("slack")
      /\ ~(IsEndpoint(query[2]) /\ ~HasFanout(query[2]))
      /\ path' = SeededPath(seeds)
      /\ required_iter' = required_iter \cup SeededFanin(seeds)
                            \cup invalid_requireds
      /\ invalid_requireds' = {}
      /\ requireds_exist' = TRUE /\ requireds_seeded' = TRUE
      /\ IF requireds_seeded THEN UNCHANGED endpointVars ELSE RefreshEndpoints
      /\ pc' = "requireds"
      /\ UNCHANGED <<inputVars, arrivalVars, tnsVars, query, answer>>

\* RequiredVisitor::visit of a vertex of the highest queued level, no lower
\* than the level of the vertex asked for.
VisitRequired(v) ==
  LET new == WithRequired(path[v], FoundRequired(v))
  IN  /\ pc = "requireds"
      /\ v \in required_iter
      /\ Level[v] >= Level[query[2]]
      /\ \A w \in required_iter : Level[w] <= Level[v]
      /\ path' = [path EXCEPT ![v] = new]
      /\ required_iter' = (required_iter \ {v})
                            \cup (IF new # path[v] THEN Fanin({v}) ELSE {})
      /\ invalid_tns' = invalid_tns \cup
           (IF tns_exists /\ IsEndpoint(v) THEN {v} ELSE {})
      /\ UNCHANGED <<inputVars, arrivalVars, requireds_exist, requireds_seeded,
                     invalid_requireds, tns_exists, tns_slacks, endpointVars,
                     callVars>>

\* Search::findRequireds returns and Sta::slack reads the path.
EndRequireds ==
  /\ pc = "requireds"
  /\ \A w \in required_iter : Level[w] < Level[query[2]]
  /\ answer' = Slack(path[query[2]])
  /\ pc' = "idle"
  /\ UNCHANGED <<inputVars, path, arrivalVars, requiredVars, tnsVars,
                 endpointVars, query>>

\* Search::wnsSlack of v, the paths being p: an end with fanout is evaluated
\* directly, any other end by its stored required time.
Variant_StoredSlack(p, v) == Slack(p[v])
WnsSlack(p, v) ==
  IF p[v] = NoPath THEN Infinity
  ELSE IF HasFanout(v) THEN Minus(endReq[v], p[v].arr)
  ELSE Slack(p[v])
NegativeSlack(p, v) == Min({0, WnsSlack(p, v)})
TotalSlack(slacks) == MapThenSumSet(LAMBDA v : slacks[v], Vertices)

\* Search::wnsTnsPreamble once arrivals are found: the required times of the
\* invalid endpoints are brought up to date, or all endpoints are seeded.
WnsTnsPreamble ==
  LET seeds == IF requireds_seeded
               THEN {v \in invalid_requireds : IsEndpoint(v)} ELSE CurrentEndpoints
      requeued == IF requireds_seeded THEN {v \in seeds : HasFanout(v)} ELSE {}
  IN  /\ path' = SeededPath(seeds)
      /\ required_iter' = required_iter \cup SeededFanin(seeds) \cup requeued
      /\ invalid_requireds' = IF requireds_seeded
                              THEN invalid_requireds \ seeds ELSE invalid_requireds
      /\ requireds_seeded' = TRUE
      /\ requireds_exist' = TRUE

\* Search::totalNegativeSlack: the slacks that changed are replaced
\* (updateInvalidTns) or all are found (findTotalNegativeSlacks).
TotalNegativeSlack ==
  LET counted == IF tns_exists
                 THEN {v \in invalid_tns : IsEndpoint(v)} ELSE CurrentEndpoints
      kept == IF tns_exists THEN tns_slacks ELSE [v \in Vertices |-> 0]
  IN  /\ ArrivalsFound("tns")
      /\ WnsTnsPreamble
      /\ IF requireds_seeded /\ tns_exists
         THEN UNCHANGED endpointVars ELSE RefreshEndpoints
      /\ tns_slacks' = [v \in Vertices |->
                          IF v \in counted THEN NegativeSlack(path', v) ELSE kept[v]]
      /\ tns_exists' = TRUE
      /\ invalid_tns' = {}
      /\ answer' = TotalSlack(tns_slacks')
      /\ pc' = "idle"
      /\ UNCHANGED <<inputVars, arrivalVars, query>>

-----------------------------------------------------------------------------
EditStep ==
  \/ \E e \in AnnotEdges, d \in Delays : SetArcDelay(e, d)
  \/ \E v \in EndPins : RemoveOutputDelay(v) \/ \E r \in EndReqs : SetOutputDelay(v, r)
  \/ \E e \in Wires : DisconnectLoad(e) \/ ConnectLoad(e)
  \/ RequiredsInvalid
  \/ ArrivalsInvalid

SearchStep ==
  \/ \E v \in Vertices : VisitArrival(v) \/ VisitRequired(v)
  \/ EndUpdate
  \/ EndpointSlack
  \/ FindRequireds
  \/ EndRequireds
  \/ TotalNegativeSlack

Next ==
  \/ EditStep
  \/ StartQuery("update", NoPath) \/ StartQuery("tns", NoPath)
  \/ \E v \in QueryPins : StartQuery("slack", v)
  \/ SearchStep

\* The search runs in the calling thread: once begun it keeps stepping.
Spec == Init /\ [][Next]_vars /\ WF_vars(SearchStep)

-----------------------------------------------------------------------------
(* Reference definitions: the values a full search from scratch gives.     *)

TrueArrival ==
  LET a[v \in Vertices] ==
        LET arriving == {e \in FaninEdges(v) : a[e[1]] # NoPath}
        IN  IF v \in Inputs THEN InputArrival
            ELSE IF arriving = {} THEN NoPath
            ELSE Max({a[e[1]] + delay[e] : e \in arriving})
  IN  a

TrueRequired ==
  LET r[v \in Vertices] ==
        Min({Infinity}
            \cup (IF IsEndpoint(v) THEN {endReq[v]} ELSE {})
            \cup {Minus(r[e[2]], delay[e]) : e \in FanoutEdges(v)})
  IN  r

TrueSlack(v) ==
  IF TrueArrival[v] = NoPath THEN Infinity
  ELSE Minus(TrueRequired[v], TrueArrival[v])

\* The sum of the negative slacks of the end constraints.
TrueEndSlack ==
  [v \in Vertices |->
     IF IsEndpoint(v) /\ TrueArrival[v] # NoPath
     THEN Min({0, Minus(endReq[v], TrueArrival[v])}) ELSE 0]
TrueTns == TotalSlack(TrueEndSlack)

-----------------------------------------------------------------------------
(* Properties.                                                             *)

TypeOK ==
  /\ edges \subseteq Edges
  /\ delay \in [Edges -> Delays]
  /\ endReq \in [Vertices -> EndReqs \cup {Infinity}]
  /\ path \in [Vertices -> Paths \cup {NoPath}]
  /\ arrivals_exist \in BOOLEAN /\ arrivals_seeded \in BOOLEAN
  /\ requireds_exist \in BOOLEAN /\ requireds_seeded \in BOOLEAN
  /\ tns_exists \in BOOLEAN /\ endpoints_initialized \in BOOLEAN
  /\ invalid_arrivals \subseteq Vertices /\ arrival_iter \subseteq Vertices
  /\ invalid_requireds \subseteq Vertices /\ required_iter \subseteq Vertices
  /\ invalid_tns \subseteq Vertices
  /\ tns_slacks \in [Vertices -> Int]
  /\ endpoints \subseteq Vertices /\ invalid_endpoints \subseteq Vertices
  /\ pc \in {"idle", "arrivals", "requireds"}
  /\ query \in {"none", "update", "slack", "tns"} \X (Vertices \cup {NoPath})

\* No arrival is ever lost: a vertex whose stored arrival is not what its
\* fanin gives now is recorded as invalid or queued, whatever edits, queries
\* and visits came before (arrivalInvalid, ArrivalVisitor::visit).
NoLostArrival ==
  arrivals_seeded =>
    \A v \in Vertices : ArrivalsChanged(v) => v \in invalid_arrivals \cup arrival_iter

\* When nothing is invalid, an incremental search has stored at every vertex
\* the arrival that a search from scratch would find, and no arrival at a
\* vertex that no start point reaches.
ArrivalsCurrent ==
  arrivals_seeded /\ invalid_arrivals \cup arrival_iter = {} =>
    \A v \in Vertices :
      TrueArrival[v] = (IF path[v] = NoPath THEN NoPath ELSE path[v].arr)

\* A slack query returns the slack of a search from scratch, whatever part of
\* the graph earlier queries left unsearched (Sta::slack, findRequired).
SlackAnswer ==
  query[1] = "slack" /\ answer # NoPath => answer = TrueSlack(query[2])

\* The total negative slack, maintained incrementally, is the sum of the
\* negative endpoint slacks of a search from scratch (totalNegativeSlack).
TnsAnswer == query[1] = "tns" /\ answer # NoPath => answer = TrueTns

\* Results that depend on others do not outlive them, and no vertex is
\* recorded for an update of something that does not exist.
ResultsNested ==
  /\ tns_exists => requireds_seeded
  /\ requireds_seeded => requireds_exist
  /\ requireds_exist => arrivals_exist
  /\ ~arrivals_exist => invalid_arrivals \cup arrival_iter = {}
  /\ ~requireds_exist => invalid_requireds = {}
  /\ ~tns_exists => invalid_tns = {}

\* Every query returns: each visit queues vertices of a later level only.
QueryReturns == pc # "idle" ~> pc = "idle"
=============================================================================
