---------------------------- MODULE LevelSearch ----------------------------
(***************************************************************************)
(* What a BfsIterator promises its callers (include/sta/Bfs.hh): a set of  *)
(* queued vertices, visited in level order, each visit queueing vertices   *)
(* of later levels.  Bfs.tla shows that search/Bfs.cc implements it with   *)
(* threads; Search.tla uses it as arrival_iter and required_iter.  Its     *)
(* constants satisfy BfsAssumption of Bfs.tla.                             *)
(***************************************************************************)
EXTENDS Integers

CONSTANTS
  Vertices,
  Levels,           \* levels a vertex may have
  Adjacent,         \* vertex -> vertices its visit may queue
  InitLevel,        \* level of each vertex
  NoLevel           \* no visit is under way

\* A visit queues vertices of later levels only, in every levelization.
Levelized(level) == \A v \in Vertices : \A w \in Adjacent[v] : level[v] < level[w]

VARIABLES
  level,            \* level of each vertex
  queued,           \* vertices to visit
  to_level          \* level the visit under way goes to, or NoLevel

vars == <<level, queued, to_level>>

Init == level = InitLevel /\ queued = {} /\ to_level = NoLevel

Idle == to_level = NoLevel /\ to_level' = NoLevel

\* A vertex whose level changes is taken out first (levelChangedBefore).
Enqueue(v) == Idle /\ queued' = queued \cup {v} /\ UNCHANGED level
Remove(v) == Idle /\ queued' = queued \ {v} /\ UNCHANGED level
ChangeLevel(v, l) ==
  /\ Idle
  /\ queued' = queued \ {v}
  /\ level' = [level EXCEPT ![v] = l]
  /\ Levelized(level')
Clear == Idle /\ queued' = {} /\ UNCHANGED level

StartVisit(l) == to_level = NoLevel /\ to_level' = l /\ UNCHANGED <<level, queued>>

\* A vertex of the first queued level is visited.
Visit(v, found) ==
  /\ to_level # NoLevel
  /\ v \in queued
  /\ level[v] <= to_level
  /\ \A w \in queued : level[v] <= level[w]
  /\ queued' = (queued \ {v}) \cup found
  /\ UNCHANGED <<level, to_level>>

EndVisit ==
  /\ to_level # NoLevel
  /\ \A v \in queued : level[v] > to_level
  /\ to_level' = NoLevel
  /\ UNCHANGED <<level, queued>>

Next ==
  \/ \E v \in Vertices : \/ Enqueue(v) \/ Remove(v)
                         \/ \E l \in Levels : ChangeLevel(v, l)
                         \/ \E found \in SUBSET Adjacent[v] : Visit(v, found)
  \/ Clear
  \/ \E l \in Levels : StartVisit(l)
  \/ EndVisit

Spec == Init /\ [][Next]_vars
=============================================================================
