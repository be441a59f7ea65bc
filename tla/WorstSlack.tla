----------------------------- MODULE WorstSlack -----------------------------
(***************************************************************************)
(* The worst slack of the endpoints, kept incrementally                    *)
(* (search/WorstSlack.cc), with the part of search/Search.cc that feeds    *)
(* it: worstSlackPreamble, updateInvalidTns, tnsInvalid, deletePathsIncr,  *)
(* clearWorstSlack.                                                        *)
(*                                                                         *)
(* A queue holds the endpoints whose slack is no more than a threshold, so *)
(* that a new worst slack is found without visiting every endpoint.  One   *)
(* WorstSlack object (one scene and min/max) is modelled; wnsSlack of an   *)
(* endpoint is the value "slack" that the rest of the search gives it.     *)
(* An endpoint keeps being one.  Names of the specification begin with WS, *)
(* so that a module can extend this one and another.                       *)
(*                                                                         *)
(* A definition Variant_X is a slip in the definition that follows it,     *)
(* used only to show that a property depends on getting X right.           *)
(***************************************************************************)
EXTENDS Integers, FiniteSets

CONSTANTS
  Endpoints,        \* endpoints of the design
  Slacks,           \* bound: slacks of constrained endpoints
  Infinity,         \* slack_init_: the slack of an unconstrained endpoint
  MinQueueSize,     \* min_queue_size_
  InitMaxQueueSize, \* max_queue_size_ of a new object
  NoVertex          \* worst_vertex_ is null

ASSUME WorstSlackAssumption ==
  /\ IsFiniteSet(Endpoints)
  /\ NoVertex \notin Endpoints
  /\ Infinity \in Int
  /\ Slacks \subseteq Int
  /\ \A s \in Slacks : s < Infinity
  /\ MinQueueSize \in Nat
  /\ InitMaxQueueSize \in Nat

VARIABLES
  slack,            \* Search::wnsSlack of each endpoint
  exists,           \* Search::worst_slacks_ is allocated
  invalid_tns,      \* endpoints whose slack changed since the last update
  worst_vertex, worst_slack, slack_threshold, queue, max_queue_size,
  pc,               \* "idle", "update" (updateInvalidTns) or "init" (initQueue)
  todo,             \* endpoints initQueue has still to visit
  answer            \* <<slack, vertex>> the last query returned, or <<>>

worstVars == <<worst_vertex, worst_slack>>
queueVars == <<slack_threshold, queue, max_queue_size>>
wsVars == <<slack, exists, invalid_tns, worstVars, queueVars, pc, todo, answer>>

\* The state of a new WorstSlack object.
NewQueue ==
  /\ worst_vertex' = NoVertex
  /\ worst_slack' = Infinity
  /\ slack_threshold' = Infinity
  /\ queue' = {}
  /\ max_queue_size' = InitMaxQueueSize

WSInit ==
  /\ slack \in [Endpoints -> Slacks \cup {Infinity}]
  /\ exists = FALSE
  /\ invalid_tns = {}
  /\ worst_vertex = NoVertex
  /\ worst_slack = Infinity
  /\ slack_threshold = Infinity
  /\ queue = {}
  /\ max_queue_size = InitMaxQueueSize
  /\ pc = "idle"
  /\ todo = {}
  /\ answer = <<>>

-----------------------------------------------------------------------------
(* Between two queries slacks change.                                      *)

\* An edit or a visit of the search changes a slack and marks the endpoint
\* (Search::tnsInvalid).
ChangeSlack(v, s) ==
  /\ pc = "idle"
  /\ slack[v] # s
  /\ slack' = [slack EXCEPT ![v] = s]
  /\ invalid_tns' = IF exists THEN invalid_tns \cup {v} ELSE invalid_tns
  /\ answer' = <<>>
  /\ UNCHANGED <<exists, worstVars, queueVars, pc, todo>>

\* Search::deletePathsIncr of an endpoint that is no longer reached, with
\* WorstSlack::deleteVertexBefore; the caller marks the endpoint.
DeletePaths(v) ==
  /\ pc = "idle"
  /\ slack[v] # Infinity
  /\ slack' = [slack EXCEPT ![v] = Infinity]
  /\ IF exists
     THEN /\ invalid_tns' = invalid_tns \cup {v}
          /\ queue' = queue \ {v}
          /\ worst_vertex' = IF v = worst_vertex THEN NoVertex ELSE worst_vertex
          /\ worst_slack' = IF v = worst_vertex THEN Infinity ELSE worst_slack
     ELSE UNCHANGED <<invalid_tns, queue, worstVars>>
  /\ answer' = <<>>
  /\ UNCHANGED <<exists, slack_threshold, max_queue_size, pc, todo>>

\* Search::clearWorstSlack, called when arrivals or requireds are abandoned.
ClearWorstSlack ==
  /\ pc = "idle"
  /\ exists
  /\ exists' = FALSE
  /\ invalid_tns' = {}
  /\ NewQueue
  /\ answer' = <<>>
  /\ UNCHANGED <<slack, pc, todo>>

-----------------------------------------------------------------------------
(* A query.                                                                *)

\* Search::worstSlackPreamble: a new object, or the old one to update.
StartQuery ==
  /\ pc = "idle"
  /\ exists' = TRUE
  /\ pc' = "update"
  /\ answer' = <<>>
  /\ UNCHANGED <<slack, invalid_tns, worstVars, queueVars, todo>>

\* WorstSlack::updateWorstSlack of one invalid endpoint.  Nothing happens
\* unless the queue has been initialized.
Variant_KeepWorst(v) ==
  IF worst_vertex # NoVertex /\ slack[v] < worst_slack
  THEN worst_vertex' = v /\ worst_slack' = slack[v]
  ELSE UNCHANGED worstVars
UpdateWorst(v) ==
  IF worst_vertex # NoVertex /\ slack[v] < worst_slack
  THEN worst_vertex' = v /\ worst_slack' = slack[v]
  ELSE /\ worst_vertex' = IF v = worst_vertex THEN NoVertex ELSE worst_vertex
       /\ UNCHANGED worst_slack
Variant_InsertWorst(v) ==
  queue' = IF slack[v] # Infinity /\ slack[v] <= slack_threshold
           THEN queue \cup {worst_vertex} ELSE queue \ {v}
Variant_OnlyInsert(v) ==
  queue' = IF slack[v] # Infinity /\ slack[v] <= slack_threshold
           THEN queue \cup {v} ELSE queue
UpdateQueue(v) ==
  queue' = IF slack[v] # Infinity /\ slack[v] <= slack_threshold
           THEN queue \cup {v} ELSE queue \ {v}
UpdateWorstSlack(v) ==
  /\ pc = "update"
  /\ v \in invalid_tns
  /\ invalid_tns' = invalid_tns \ {v}
  /\ IF queue # {} THEN UpdateWorst(v) /\ UpdateQueue(v)
     ELSE UNCHANGED <<worstVars, queue>>
  /\ UNCHANGED <<slack, exists, slack_threshold, max_queue_size, pc, todo, answer>>

\* WorstSlack::worstSlack when the worst slack is known.
ReturnKnown ==
  /\ pc = "update" /\ invalid_tns = {}
  /\ worst_vertex # NoVertex
  /\ answer' = <<worst_slack, worst_vertex>>
  /\ pc' = "idle"
  /\ UNCHANGED <<slack, exists, invalid_tns, worstVars, queueVars, todo>>

\* WorstSlack::findWorstInQueue: the first of the queue with the least slack.
IsWorst(v, vertices) == \A u \in vertices : slack[v] <= slack[u]
FindWorstInQueue ==
  /\ pc = "update" /\ invalid_tns = {}
  /\ worst_vertex = NoVertex /\ queue # {}
  /\ \E v \in queue :
       /\ IsWorst(v, queue)
       /\ worst_vertex' = v
       /\ worst_slack' = slack[v]
       /\ answer' = <<slack[v], v>>
  /\ pc' = "idle"
  /\ UNCHANGED <<slack, exists, invalid_tns, queueVars, todo>>

\* WorstSlack::initQueue up to its loop over the endpoints.
InitQueue ==
  /\ pc = "update" /\ invalid_tns = {}
  /\ worst_vertex = NoVertex /\ queue = {}
  /\ worst_vertex' = NoVertex /\ worst_slack' = Infinity
  /\ slack_threshold' = Infinity
  /\ queue' = {}
  /\ todo' = Endpoints
  /\ pc' = "init"
  /\ UNCHANGED <<slack, exists, invalid_tns, max_queue_size, answer>>

\* WorstSlack::sortQueue: t is the slack at position k of the vertices sorted by
\* slack, which are pruned to those with no greater slack.
IsThreshold(t, vertices) ==
  LET last == Cardinality(vertices) - 1
      k == IF MinQueueSize < last THEN MinQueueSize ELSE last
  IN  /\ Cardinality({u \in vertices : slack[u] < t}) <= k
      /\ k < Cardinality({u \in vertices : slack[u] <= t})
Variant_Pruned(t, vertices) == {u \in vertices : slack[u] < t}
Pruned(t, vertices) == {u \in vertices : slack[u] <= t}
SortQueue(vertices) ==
  \E t \in {slack[u] : u \in vertices}, v \in vertices :
    /\ IsThreshold(t, vertices)
    /\ IsWorst(v, vertices)
    /\ slack_threshold' = t
    /\ queue' = Pruned(t, vertices)
    /\ max_queue_size' = 2 * Cardinality(Pruned(t, vertices))
    /\ worst_vertex' = v
    /\ worst_slack' = slack[v]

\* One endpoint of initQueue's loop; the set's order is that of the vertex
\* ids, which can be any.  An unconstrained endpoint is skipped.
SkipUnconstrained(v) ==
  /\ slack[v] = Infinity
  /\ UNCHANGED <<worstVars, queueVars>>
InsertEndpoint(v) ==
  LET vertices == IF slack[v] <= slack_threshold THEN queue \cup {v} ELSE queue
  IN  /\ slack[v] # Infinity
      /\ IF Cardinality(vertices) >= max_queue_size
         THEN SortQueue(vertices)
         ELSE /\ queue' = vertices
              /\ worst_vertex' = IF slack[v] < worst_slack THEN v ELSE worst_vertex
              /\ worst_slack' = IF slack[v] < worst_slack THEN slack[v] ELSE worst_slack
              /\ UNCHANGED <<slack_threshold, max_queue_size>>
InitVisit(v) ==
  /\ pc = "init"
  /\ v \in todo
  /\ todo' = todo \ {v}
  /\ SkipUnconstrained(v) \/ InsertEndpoint(v)
  /\ UNCHANGED <<slack, exists, invalid_tns, pc, answer>>

InitQueueEnd ==
  /\ pc = "init" /\ todo = {}
  /\ answer' = <<worst_slack, worst_vertex>>
  /\ pc' = "idle"
  /\ UNCHANGED <<slack, exists, invalid_tns, worstVars, queueVars, todo>>

WSNext ==
  \/ \E v \in Endpoints : \/ \E s \in Slacks \cup {Infinity} : ChangeSlack(v, s)
                          \/ DeletePaths(v)
                          \/ UpdateWorstSlack(v)
                          \/ InitVisit(v)
  \/ ClearWorstSlack
  \/ StartQuery
  \/ ReturnKnown \/ FindWorstInQueue \/ InitQueue \/ InitQueueEnd

WSSpec == WSInit /\ [][WSNext]_wsVars

-----------------------------------------------------------------------------
WSTypeOK ==
  /\ slack \in [Endpoints -> Slacks \cup {Infinity}]
  /\ exists \in BOOLEAN
  /\ invalid_tns \subseteq Endpoints
  /\ worst_vertex \in Endpoints \cup {NoVertex}
  /\ worst_slack \in Slacks \cup {Infinity}
  /\ slack_threshold \in Slacks \cup {Infinity}
  /\ queue \subseteq Endpoints
  /\ max_queue_size \in Nat
  /\ pc \in {"idle", "update", "init"}
  /\ todo \subseteq Endpoints

\* The endpoints the queue speaks about: those whose slack has not changed
\* since, and while it is being filled those already visited.
Known == IF pc = "init" THEN Endpoints \ todo ELSE Endpoints \ invalid_tns
Filled == queue # {} \/ pc = "init"

\* WorstSlack::checkQueue: a queue that is not empty holds exactly the
\* endpoints whose slack is no more than the threshold, however many slacks
\* changed, were deleted and were pruned away since it was built.
QueueComplete ==
  Filled =>
    \A v \in Known : v \in queue <=> slack[v] # Infinity /\ slack[v] <= slack_threshold

\* A worst vertex that is known is in the queue, and none that the queue
\* speaks about is worse: so deleting or updating it cannot go unnoticed.
WorstInQueue ==
  worst_vertex # NoVertex =>
    /\ worst_vertex \in queue
    /\ worst_slack <= slack_threshold
    /\ worst_vertex \in Known => worst_slack = slack[worst_vertex]
    /\ \A v \in Known : worst_slack <= slack[v]

\* A query returns the least slack of all endpoints and an endpoint that has
\* it, or no vertex when every endpoint is unconstrained (worstSlack).
WorstSlackAnswer ==
  answer # <<>> =>
    /\ \A v \in Endpoints : answer[1] <= slack[v]
    /\ IF answer[2] = NoVertex THEN answer[1] = Infinity
       ELSE answer[1] = slack[answer[2]]
=============================================================================
