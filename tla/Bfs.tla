-------------------------------- MODULE Bfs --------------------------------
(***************************************************************************)
(* Breadth first search by level with worker threads (search/Bfs.cc).      *)
(*                                                                         *)
(* A vertex is queued in the vector of its level and flagged; enqueue      *)
(* tests the flag before it takes queue_lock and again under it.           *)
(* visitParallel cuts the first queued level into one chunk a task and     *)
(* waits for the tasks (DispatchQueue.tla) before the next level.          *)
(*                                                                         *)
(* This is the forward iterator; the backward one is its mirror image in   *)
(* the order of levels.  Which of the adjacent vertices a visit queues is  *)
(* the visitor's business: any subset.  hasNext and next have no caller    *)
(* in the program and are left out.                                        *)
(*                                                                         *)
(* A definition Variant_X is a slip in the definition that follows it,     *)
(* used only to show that a property depends on getting X right.           *)
(***************************************************************************)
EXTENDS Integers, Sequences, FiniteSets

CONSTANTS
  Vertices,
  MaxLevel,         \* levels are 0 to MaxLevel: level_min_ and level_max_
  Adjacent,         \* vertex -> vertices its visit may queue
  InitLevel,        \* level of each vertex
  MaxThreads,       \* bound on the number of threads
  MaxRemoved,       \* bound on the null entries in the queue
  Null,             \* entry of a removed vertex
  NoLevel           \* no visit is under way

Levels == 0..MaxLevel
Tasks == 1..MaxThreads
Levelized(lev) == \A v \in Vertices : \A w \in Adjacent[v] : lev[v] < lev[w]

ASSUME BfsAssumption ==
  /\ MaxLevel \in Nat
  /\ MaxThreads \in Nat \ {0}
  /\ MaxRemoved \in Nat
  /\ Adjacent \in [Vertices -> SUBSET Vertices]
  /\ InitLevel \in [Vertices -> Levels]
  /\ Levelized(InitLevel)
  /\ Null \notin Vertices
  /\ NoLevel \notin Levels

VARIABLES
  thread_count,     \* StaState::thread_count_
  level,            \* Vertex::level
  in_queue,         \* Vertex::bfsInQueue
  queue,            \* level -> vector of vertices and nulls
  first_level, last_level,
  to_level,         \* argument of the visit under way, or NoLevel
  cur,              \* level whose vector is being visited, or NoLevel
  next, last,       \* task -> chunk of the vector it has still to visit
  found,            \* task -> vertices its visitor has still to enqueue
  checked           \* task -> vertex whose flag it found clear, or Null

queueVars == <<in_queue, queue, first_level, last_level>>
taskVars == <<next, last, found, checked>>
visitVars == <<thread_count, level, to_level, cur>>
vars == <<visitVars, queueVars, taskVars>>

Init ==
  /\ thread_count = 1
  /\ level = InitLevel
  /\ in_queue = [v \in Vertices |-> FALSE]
  /\ queue = [l \in Levels |-> <<>>]
  /\ first_level = MaxLevel /\ last_level = 0
  /\ to_level = NoLevel /\ cur = NoLevel
  /\ next = [t \in Tasks |-> 1] /\ last = [t \in Tasks |-> 0]
  /\ found = [t \in Tasks |-> {}] /\ checked = [t \in Tasks |-> Null]

-----------------------------------------------------------------------------
(* Calls between visits.                                                   *)

Idle == to_level = NoLevel /\ UNCHANGED <<thread_count, to_level, cur, taskVars>>

\* The part of BfsIterator::enqueue under queue_lock.
Push(v) ==
  /\ in_queue' = [in_queue EXCEPT ![v] = TRUE]
  /\ queue' = [queue EXCEPT ![level[v]] = Append(@, v)]
  /\ last_level' = IF last_level < level[v] THEN level[v] ELSE last_level
  /\ first_level' = IF level[v] < first_level THEN level[v] ELSE first_level
Variant_NoRecheck(v) == Push(v)
LockedEnqueue(v) == IF in_queue[v] THEN UNCHANGED queueVars ELSE Push(v)

Enqueue(v) ==
  /\ Idle
  /\ LockedEnqueue(v)
  /\ UNCHANGED level

\* BfsIterator::remove: the first entry of the vertex becomes null.
Positions == UNION {{l} \X DOMAIN queue[l] : l \in Levels}
Removed == {p \in Positions : queue[p[1]][p[2]] = Null}
RemoveEntry(v) ==
  IF in_queue[v] /\ \E i \in DOMAIN queue[level[v]] : queue[level[v]][i] = v
  THEN LET q == queue[level[v]]
           first == CHOOSE i \in DOMAIN q :
                      q[i] = v /\ \A j \in DOMAIN q : q[j] = v => i <= j
       IN  /\ queue' = [queue EXCEPT ![level[v]][first] = Null]
           /\ in_queue' = [in_queue EXCEPT ![v] = FALSE]
           /\ UNCHANGED <<first_level, last_level>>
  ELSE UNCHANGED queueVars

Remove(v) ==
  /\ Idle
  /\ Cardinality(Removed) < MaxRemoved
  /\ RemoveEntry(v)
  /\ UNCHANGED level

\* Levelize changes a level after Search::levelChangedBefore removed the
\* vertex from the iterators.
ChangeLevel(v, l) ==
  /\ Idle
  /\ Cardinality(Removed) < MaxRemoved
  /\ RemoveEntry(v)
  /\ level' = [level EXCEPT ![v] = l]
  /\ Levelized(level')

\* BfsIterator::clear, which visits the vectors of first_level to last_level.
Clear ==
  LET cleared == first_level..last_level
  IN  /\ Idle
      /\ in_queue' = [v \in Vertices |->
           in_queue[v] /\ ~\E l \in cleared : \E i \in DOMAIN queue[l] :
                             queue[l][i] = v]
      /\ queue' = [l \in Levels |-> IF l \in cleared THEN <<>> ELSE queue[l]]
      /\ first_level' = MaxLevel /\ last_level' = 0
      /\ UNCHANGED level

\* Sta::setThreadCount.
SetThreadCount(n) ==
  /\ to_level = NoLevel
  /\ thread_count' = n
  /\ UNCHANGED <<level, queueVars, to_level, cur, taskVars>>

-----------------------------------------------------------------------------
(* A visit.                                                                *)

StartVisit(l) ==
  /\ to_level = NoLevel
  /\ to_level' = l
  /\ UNCHANGED <<thread_count, level, queueVars, cur, taskVars>>

Variant_PastLastLevel == first_level <= last_level + 1 /\ first_level <= to_level + 1
Variant_PastToLevel == first_level <= last_level /\ first_level <= to_level + 1
MoreLevels == first_level <= last_level /\ first_level <= to_level

\* The head of the loop over levels: first_level moves on before the level is
\* visited.
NextLevel ==
  /\ to_level # NoLevel /\ cur = NoLevel
  /\ MoreLevels
  /\ cur' = first_level
  /\ first_level' = first_level + 1
  /\ UNCHANGED <<thread_count, level, in_queue, queue, last_level, to_level>>

\* BfsIterator::visit, when there is one thread: it pops the vertices.
Serial == thread_count = 1
NextLevelSerial == Serial /\ NextLevel /\ UNCHANGED taskVars

\* The end of task t's visit of a vertex, before any of it is enqueued.
Visited(t, v) ==
  /\ in_queue' = [in_queue EXCEPT ![v] = FALSE]
  /\ \E S \in SUBSET Adjacent[v] : found' = [found EXCEPT ![t] = S]

PopVisit ==
  /\ Serial /\ cur # NoLevel
  /\ queue[cur] # <<>>
  /\ found[1] = {} /\ checked[1] = Null
  /\ queue' = [queue EXCEPT ![cur] = SubSeq(@, 1, Len(@) - 1)]
  /\ LET v == queue[cur][Len(queue[cur])]
     IN  IF v = Null THEN UNCHANGED <<in_queue, found>> ELSE Visited(1, v)
  /\ UNCHANGED <<visitVars, first_level, last_level, next, last, checked>>

\* BfsIterator::visitParallel: a level with fewer vertices than threads is
\* visited by the caller, a longer one in a chunk a task, the last taking what
\* is left over.
Chunk(t, n) ==
  LET size == n \div thread_count
  IN  CASE n < thread_count /\ t = 1 -> <<1, n>>
        [] n >= thread_count /\ t < thread_count -> <<(t - 1) * size + 1, t * size>>
        [] n >= thread_count /\ t = thread_count -> <<(t - 1) * size + 1, n>>
        [] OTHER -> <<1, 0>>
NextLevelParallel ==
  LET n == Len(queue[first_level])
  IN  /\ ~Serial
      /\ NextLevel
      /\ next' = [t \in Tasks |-> Chunk(t, n)[1]]
      /\ last' = [t \in Tasks |-> Chunk(t, n)[2]]
      /\ UNCHANGED <<found, checked>>

TaskVisit(t) ==
  /\ ~Serial /\ cur # NoLevel
  /\ next[t] <= last[t]
  /\ found[t] = {} /\ checked[t] = Null
  /\ next' = [next EXCEPT ![t] = @ + 1]
  /\ LET v == queue[cur][next[t]]
     IN  IF v = Null THEN UNCHANGED <<in_queue, found>> ELSE Visited(t, v)
  /\ UNCHANGED <<visitVars, queue, first_level, last_level, last, checked>>

\* A visitor calls enqueue.  The flag is read without the lock ...
CheckFlag(t, w) ==
  /\ checked[t] = Null
  /\ w \in found[t]
  /\ found' = [found EXCEPT ![t] = @ \ {w}]
  /\ checked' = [checked EXCEPT ![t] = IF in_queue[w] THEN Null ELSE w]
  /\ UNCHANGED <<visitVars, queueVars, next, last>>

\* ... and read again once queue_lock is held.
EnqueueChecked(t) ==
  /\ checked[t] # Null
  /\ LockedEnqueue(checked[t])
  /\ checked' = [checked EXCEPT ![t] = Null]
  /\ UNCHANGED <<visitVars, next, last, found>>

\* The vector of the level is cleared when its tasks are finished and gone.
Variant_TasksFinished ==
  \A t \in Tasks : next[t] = last[t] /\ found[t] = {} /\ checked[t] = Null
TasksFinished ==
  \A t \in Tasks : next[t] > last[t] /\ found[t] = {} /\ checked[t] = Null
EndLevel ==
  /\ cur # NoLevel
  /\ IF Serial THEN queue[cur] = <<>> /\ found[1] = {} /\ checked[1] = Null
     ELSE TasksFinished
  /\ queue' = [queue EXCEPT ![cur] = <<>>]
  /\ cur' = NoLevel
  /\ next' = [t \in Tasks |-> 1] /\ last' = [t \in Tasks |-> 0]
  /\ UNCHANGED <<thread_count, level, to_level, in_queue, first_level, last_level,
                 found, checked>>

EndVisit ==
  /\ to_level # NoLevel /\ cur = NoLevel
  /\ ~MoreLevels
  /\ to_level' = NoLevel
  /\ UNCHANGED <<thread_count, level, queueVars, cur, taskVars>>

VisitStep ==
  \/ NextLevelSerial \/ NextLevelParallel
  \/ PopVisit
  \/ \E t \in Tasks : \/ TaskVisit(t) \/ EnqueueChecked(t)
                      \/ \E w \in Vertices : CheckFlag(t, w)
  \/ EndLevel
  \/ EndVisit

Next ==
  \/ \E v \in Vertices : \/ Enqueue(v) \/ Remove(v)
                         \/ \E l \in Levels : ChangeLevel(v, l)
  \/ Clear
  \/ \E n \in Tasks : SetThreadCount(n)
  \/ \E l \in Levels : StartVisit(l)
  \/ VisitStep

\* The calling thread and the dispatch queue's threads run until the visit is
\* over.
Spec == Init /\ [][Next]_vars /\ WF_vars(VisitStep)

-----------------------------------------------------------------------------
TypeOK ==
  /\ thread_count \in Tasks
  /\ level \in [Vertices -> Levels]
  /\ in_queue \in [Vertices -> BOOLEAN]
  /\ queue \in [Levels -> Seq(Vertices \cup {Null})]
  /\ first_level \in 0..(MaxLevel + 1) /\ last_level \in Levels
  /\ to_level \in Levels \cup {NoLevel} /\ cur \in Levels \cup {NoLevel}
  /\ next \in [Tasks -> Nat] /\ last \in [Tasks -> Nat]
  /\ found \in [Tasks -> SUBSET Vertices]
  /\ checked \in [Tasks -> Vertices \cup {Null}]

\* Entries that are still to be visited: in the level being visited by tasks,
\* those no task has reached.
Entries(v) ==
  {e \in Positions :
     /\ queue[e[1]][e[2]] = v
     /\ e[1] = cur /\ ~Serial =>
          \E t \in Tasks : next[t] <= e[2] /\ e[2] <= last[t]}

\* A vertex is flagged exactly while one entry, in the vector of its level, is
\* still to be visited: nothing is queued twice or lost (checkInQueue), and
\* the level error of checkLevel cannot happen, whichever threads enqueue it
\* at the same time.  That entry is between first_level and last_level, or in
\* the level being visited: so empty, clear and visit miss none.
FlaggedOnce ==
  \A v \in Vertices :
    /\ in_queue[v] <=> Entries(v) # {}
    /\ \A e, f \in Entries(v) : e = f
    /\ \A e \in Entries(v) : e[1] = level[v]
    /\ in_queue[v] => level[v] = cur \/ level[v] \in first_level..last_level

\* The threads implement a set of vertices visited in level order.  What a
\* visitor has still to enqueue counts as queued.
Queued == {v \in Vertices : in_queue[v]}
            \cup (UNION {found[t] : t \in Tasks})
            \cup ({checked[t] : t \in Tasks} \ {Null})
Abstract == INSTANCE LevelSearch WITH queued <- Queued
ImplementsLevelSearch == Abstract!Init /\ [][Abstract!Next]_(Abstract!vars)

\* A visit ends: no thread waits for ever and no level is revisited for ever.
VisitEnds == to_level # NoLevel ~> to_level = NoLevel
=============================================================================
