# TLA+ models and proofs of OpenSTA's incremental timing engine

OpenSTA computes arrival times, required times and slacks of a gate level
netlist. The netlist is edited between queries by an optimizer that links the
engine as a library, so every query repairs only the part of the timing graph
that the edits since the last one made wrong. This directory holds the model of
that machinery: what is recorded when something changes, what each query
searches and leaves unsearched, how worker threads share one level of the
search and its tables, the caches built on top (endpoints, total negative slack,
worst slack), the incremental engines below it (levels, constants, delays), and
the timing exceptions that decide what a path is compared with.

Paths such as `search/Search.cc` are relative to the repository.

## 1. The system

| Component | State | Operations | Hard behaviour | What makes it correct |
|---|---|---|---|---|
| **Search** (`search/Search.cc`) | paths of each vertex; `arrivals_exist_`, `arrivals_seeded_`, `invalid_arrivals_`, `arrival_iter_` and the same for requireds; `tns_exists_`, `invalid_tns_`, `tns_slacks_`; `endpoints_`, `invalid_endpoints_` | `arrivalInvalid`, `requiredInvalid`, `arrivalsInvalid`, `requiredsInvalid`, `findAllArrivals`, `findRequireds(level)`, `totalNegativeSlack`, `endpoints` | long sequences of edits and partial searches; caches that outlive what they were computed from | an incremental answer is the answer of a search from scratch |
| **WorstSlack** (`search/WorstSlack.cc`) | worst vertex and slack, threshold, queue | `worstSlack`, `updateWorstSlack`, `deleteVertexBefore`, `initQueue`, `sortQueue` | pruning, ties, a worst vertex that improves or disappears | the answer is the least slack |
| **BfsIterator** (`search/Bfs.cc`) | a vector of vertices a level, a flag in each vertex, first and last level | `enqueue`, `remove`, `clear`, `visit`, `visitParallel` | threads enqueue the same vertex; chunks; level changes while queued | each vertex is visited once, in level order |
| **DispatchQueue** (`util/DispatchQueue.cc`) | task queue, quit flag, condition variable, latch | `dispatch`, `finishTasks`, `setThreadCount` | wakeups, resizing with queued tasks | each task is run once; waits end |
| **Sta** (`search/Sta.cc`) | owns the others | every edit and query of the API | the right invalidation for each edit | edits record all they change |
| **Levelize** (`search/Levelize.cc`) | level of each vertex, roots, loops, `relevelize_from_` | `findLevels`, `ensureLevelized`, `relevelize`, edge and vertex deletion | incremental levels, back edges | edges that are searched go up in level; no cycle is left enabled |
| **Tags and tag groups** (tables in `search/Search.cc`, `search/TagGroup.cc`) | `tags_`, `tag_groups_`, hash sets, free indices, old arrays, reference counts | `findTag`, `findTagGroup`, `setVertexArrivals`, `deleteUnusedTagGroups`, `deleteFilteredArrivals`, `deletePaths` | threads read without a lock while one enlarges; counts on every way paths change | no freed array or group is used; no group names a deleted tag |
| **GraphDelayCalc** (`dcalc/GraphDelayCalc.cc`) | slews and delays; `delays_seeded_`, `delays_exist_`, `invalid_delays_`, `invalid_check_edges_`, `invalid_latch_edges_`, `iter_`, `multi_drvr_net_map_` | `findDelays(level)`, `delayInvalid`, `delaysInvalid`, `deleteVertexBefore` | partial searches, early stop at unchanged slews, nets with several drivers, checks found last | slews and delays up to the level asked for are those of a full search |
| **Sim** (`search/Sim.cc`) | logic value of each pin, disabled edges, instances, loads and drivers recorded as invalid, evaluation queue | `ensureConstantsPropagated`, `pinSetFuncAfter`, `deleteInstanceBefore`, `connectPinAfter`, `disconnectPinBefore`, ... | a queue of evaluations over loops; objects recorded and then deleted or moved | every value agrees with its function, its driver and the constraints |
| **Exceptions** (`sdc/Sdc.cc`, `sdc/ExceptionPath.cc`) | set of exceptions; tables by first point and by merge hash | `addException`, `resetPath`, `removeClock` references | an exception splits, overrides and merges others that are in the tables and under an iterator | each way has the value of the last command that names it; no pointer to a deleted one |
| Latches and loops (`findAllArrivals`, `search/Latches.cc`) | `pending_arrivals_` | passes until nothing is pending | termination, postponed work lost | arrivals at latch outputs settle |
| Graph, network, other SDC, parasitics, Liberty | databases | edits and lookups | sequential | - |
| Path ends, groups, enumeration, reports, checks, power | built for a query | - | pruning, enumeration order | - |

Interaction. An edit enters through `Sta`, which changes the graph or the
constraints and calls `Search::arrivalInvalid` / `requiredInvalid`,
`GraphDelayCalc::delayInvalid` and `Levelize::relevelizeFrom`. A query enters through
`Sta`, which levelizes, finds delays, then calls `findAllArrivals` and, when it
needs required times, `findRequireds` down to the level of the pin asked for.
Both searches hand a visitor to a `BfsIterator`, which runs it over a level in
the threads of the `DispatchQueue`; the visitor calls back `enqueue`,
`tnsInvalid`, `requiredInvalid`. Levelize calls `Search::levelChangedBefore`
through an observer, and delay calculation calls `arrivalInvalid` and
`requiredInvalid` through another. Before it searches, a query levelizes,
propagates constants (`Sim`, whose cut edges levels, delays and arrivals do not
follow) and finds delays. The visitor of an arrival search follows the exceptions
of each path by the states in its tag, and finds and makes tags and tag groups in
tables that all threads share. The API is called by one thread; the threads of
the pool run only inside a visit.

## 2. The modules

| Module | Models | Notes |
|---|---|---|
| `Search.tla` | Search, with the calls of Sta that edit and query | one action a call for an edit; a query is a start, one step a visited vertex, and an end |
| `LevelSearch.tla` | what a BfsIterator promises | abstract specification |
| `Bfs.tla` | BfsIterator with threads | implements `LevelSearch` |
| `TaskPool.tla` | what a DispatchQueue promises | abstract specification |
| `DispatchQueue.tla` | DispatchQueue and DynamicLatch | implements `TaskPool` |
| `WorstSlack.tla` | WorstSlack with its feeding from Search | |
| `Levelize.tla` | Levelize with the edits of Sta that reach it | a step for each edge a depth first search looks at, for each vertex sorted and each vertex given a level |
| `GraphDelayCalc.tla` | GraphDelayCalc with the edits of Sta that reach it | a step a visited vertex |
| `Sim.tla` | Sim with the edits of Sta and Sdc that reach it | a step for each evaluation of the queue |
| `TagGroups.tla` | the tag and tag group tables, with threads | reads, the locked section and the publication of a result are steps of their own |
| `ExceptionTable.tla` | what the commands about exceptions promise | abstract specification: a table by way |
| `Exceptions.tla` | exceptions in Sdc, and how a search finds the one of a path | implements `ExceptionTable`; a step for each exception added |
| `SearchProofs.tla`, `QueueProofs.tla`, `BfsProofs.tla`, `TagGroupsProofs.tla`, `ExceptionsProofs.tla`, `LevelizeProofs.tla`, `SimProofs.tla`, `GraphDelayCalcProofs.tla` | theorems | section 5 |
| `MC*.tla`, `*.cfg` | instances for TLC | section 4 |

How they compose. `Search` uses its two iterators through what `LevelSearch`
states: a set of queued vertices of which any one of the first queued level is
visited next. `Bfs` shows that the vectors, flags and threads give that. `Bfs`
dispatches a level's chunks and ends the level when every task is done, which is
`TaskPool`'s promise and shown by `DispatchQueue`. `WorstSlack` takes the slack
of each endpoint as something the search changes. In each case the abstraction
is the interface in the code: the methods of the class. `Search` and `Bfs` take
from `Levelize` that edges which are searched go up in level
(`GraphAssumption`, and `GraphDelayCalcAssumption`), which is its
`LevelsOrdered`. `SetArcDelay` of `Search` records what the observer records
when `GraphDelayCalc` changes the delay of an edge. `TagGroups` lets a visit
find any set of tags, so it covers whatever `Search` and `Exceptions` make of a
path; `Exceptions` gives the state of a path as what its tag holds.

Correspondence. Variables have the names of the members without the trailing
underscore; actions have the names of the methods, capitalised (`SetArcDelay` is
`Sta::setArcDelay`). The line ranges of every definition are in `PROJECT.json`
under `map`. A definition named `Variant_X` is a plausible slip in the
definition that follows it; no specification uses it. `PROJECT.json` under
`mutants` says which property each slip breaks when it takes the place of that
definition, so that each property is known to depend on the code it is about.

### Search

A vertex carries one path: arrival, required time and previous edge. The code
keeps an array of paths, one per tag; each is compared, propagated and reset by
its index, in the same way. Arrivals are latest-path arrivals. What is kept:

* the early return when a vertex is already queued or nothing was searched yet;
* new paths replacing the old ones with a required time of zero, or being
  deleted with the slack they had in the sum;
* required searches that stop at a level and leave vertices queued;
* endpoints cached, with the ones edits may have changed examined at the next
  use; seeding once, with a comparison that decides whether the fanin is queued;
* two ways to evaluate an endpoint's slack for the sum: by its own constraint if
  it has fanout, by its stored required time if not.

Left out: several tags, scenes, transitions and clocks, early arrivals,
latches, loops, filters, clock reconvergence, deletion of vertices, level
changes. Delay calculation is replaced by `SetArcDelay`, the annotation of an arc
delay.

### Bfs

Forward only: the backward iterator is the mirror image. The test of the flag
without the lock and the section under `queue_lock_` are two steps, so two
threads interleave between them. What a visit enqueues is any subset of the
vertex's adjacent vertices, since visitors decide that by their results.

### DispatchQueue

Each section that holds `lock_`, each notification and each access of the atomic
latch is a step. `std::condition_variable` may wake without reason, so a waiting
thread may always go back to the test. `std::atomic::wait` compares and blocks
atomically: `LoadCount` and `CompareCount`.

### WorstSlack

`sortQueue` chooses any vertex of least slack and the threshold at the position
that `min_queue_size_` gives; ties are in any order, as `sort` leaves them.

### Levelize

The network is a set of wires between driver and load pins, each present while
both its pins are connected, and of arcs inside instances, of which one
instance's may be replaced. The two searches that find back edges share their
steps, as in the code: the stack of iterators is `stack`, the path of edges that
becomes a loop is `path`. `relevelize` uses the same stack for the recursion of
`visit`. Sets and edge lists are searched in any order, since it depends on
names and on the order in which objects were made. An edit takes the edges that
it deletes one after the other: as long as levels are valid each is looked at, and
from the first that is a loop edge on nothing is recorded, since levels are then
found from scratch (`WhileLevelized`). Left out: bidirect ports,
deletion of vertices, exceptions made for loops with dynamic loop breaking, and
the limit on levels.

### GraphDelayCalc

A vertex has one slew and an edge one delay; the delay calculator is a table
over slew and load (`GateDelay`, `GateSlew`, `CheckDelay`, over the sets `Slews` and
`Caps`), the one part that is external. A visit of a driver finds its arcs and the slews of its loads, and
passes on only if a slew changed; the drivers of a net with several are found
together when the highest of them is visited, from what `multi_drvr_net_map_`
has cached; a net that has one driver by now does not use its record. The vertices of
a level touch different nets, so a visit is one step
and a level is visited in any order. Timing checks and D to Q arcs of latches are
found at the end, in `EndFindDelays`. Left out: driving cells, ideal clock slews,
bidirects, internal pins, annotated delays, and the delay tolerance (it is zero).

### Sim

A pin is a pair of instance and port. The function of an output is the set of the
sets of inputs that make it one, so a value follows when all ways to complete
the unknown inputs agree, which is what the code's BDD decides. The queue of
instances is evaluated one at a time; annotation of edges is the last step.
Values go through registers only for `findLogicConstants`, whose results are there
until `clearLogicConstants`. Left out: tristate and clock gate outputs, modes, hierarchical pins,
rising and falling case values.

### TagGroups

A visit of a thread is the steps at which another may come between: reading the
entry of the vertex and of its fanin from the array that is current, taking
`tag_group_lock_` when its group is not known, copying the table while the lock is
held, publishing the new array, and giving the group to the vertex. `arrays`
keeps every array ever made, with which of them are current, kept and freed, so
that a read of a freed array or an entry never written is visible in the state.
The tag table grows by the same steps and is one step here. Which tags a visit finds
is left open.

### Exceptions

An exception is a record whose points are sets of pins and clocks; its address
is an id, of which there are as many as live at once, so that an address is used
again. `todo` is the stack of what a running command has still to do: pieces to
add after an exception is split or broken up. `reset_path` keeps its iterator
across these, and the exceptions beyond it. Each addition is one step: it takes
its ways out of all it overrides, and merges where it can. The two tables by
first point and the table of merge hashes are updated as the code updates them,
not derived. `ExceptionTo` finds the exception of a path as the search does, from
the states that its tag has collected (`PathStates`). Left out: rise and fall, instances and nets as
points, comments, path groups, filters, loop exceptions and deleted pins.

## 3. Hazards

`PROJECT.json` lists them under `hazards`, each at its line, with the properties
that would catch it, or the reason none does yet.

## 4. What the model checker shows

| Run | Specification | Checks | Distinct states |
|---|---|---|---|
| `search_edits` | every kind of edit and query, six vertices | `TypeOK`, `NoLostArrival`, `ArrivalsCurrent`, `ResultsNested` | 237 310 |
| `search_slack` | slack queries at three levels, delays and output delays change | `SlackAnswer` | 791 384 |
| `search_tns` | slack and total negative slack queries, all results dropped | `TnsAnswer`, `QueryReturns` | 28 856 |
| `bfs` | four vertices, three levels used of four, up to three threads, one removed entry at a time | `TypeOK`, `FlaggedOnce`, `ImplementsLevelSearch`, `VisitEnds` | 145 498 |
| `dispatch` | two threads, three tasks | `TypeOK`, `LatchCounts`, `SomeoneAwake`, `ImplementsTaskPool`, `FinishTasksReturns`, `SetThreadCountReturns` | 4 128 |
| `worst_slack` | four endpoints, three slacks | `WSTypeOK`, `QueueComplete`, `WorstInQueue`, `WorstSlackAnswer` | 141 514 |
| `levelize` | five pins, one net and one instance | `TypeOK`, `LevelsOrdered`, `DisabledInLoop`, `UndrivenAreRoots`, `LevelizeEnds` | 303 830 |
| `sim` | a gate wired into a loop with another, a tie cell, ground, a register | `TypeOK`, `ValuesCurrent`, `NoLostChange`, `PropagationEnds` | 289 912 |
| `tag_groups` | two threads, three vertices, tables of one entry at first | `TypeOK`, `ReadsAreCurrent`, `GroupsInUse`, `TagsLive` | 3 393 788 |
| `delay_calc` | 13 vertices: a net with two drivers, a latch, a check | `TypeOK`, `DelayAnswer`, `NoLostDelay` | 345 536 |
| `exceptions` | five commands, two resets, the removal of a clock, six addresses | `PointersLive`, `GoverningException`, `ImplementsTable` | 73 577 |
| `exceptions_thrus` | two commands over two `-thru` | `ImplementsTable`, which the code breaks | first violation |

Further instances, kept beside the runs: each enables an edit or a query that the
runs above leave out, because the code breaks the property with it. TLC gives a
short behaviour for each (`tlc -config X.cfg M`).

| Instance | Module | What breaks |
|---|---|---|
| `search_tns_partial` | `MCSearch` | `TnsAnswer`, after a required search that stopped between two endpoints |
| `search_tns_disconnect` | `MCSearch` | `TnsAnswer`, after a failing endpoint is disconnected |
| `search_reconnect` | `MCSearch` | `SlackAnswer`, after a load is disconnected and connected again |
| `search_unset` | `MCSearch` | `SlackAnswer`, after an output delay is removed |
| `search_groups` | `MCSearch` | `SlackAnswer`, after a delay changes and clock groups are set before the next query |
| `levelize_nested` | `MCLevelize` | `LevelsOrdered`, with nested loops that have no root |
| `sim_edges` | `MCSim` | `EdgesCurrent`, after an instance with a constant input is replaced by a cell with other arcs |
| `delay_partial` | `MCGraphDelayCalc` | `DelayAnswer`, when the first query after all delays were dropped stops at a low level |

The reference definitions `TrueArrival`, `TrueRequired`, `TrueSlack` and `TrueTns`
say what a search from scratch gives; they are recursive functions over the
graph, independent of the visits. `Sim` and `GraphDelayCalc` compare what
is stored at each pin or edge with what its inputs give now (`ValueFrom`,
`SlewCurrent`, `DelayCurrent`); where the graph has no loop that is the answer of
a search from scratch. The abstract table of `Exceptions` is set by commands as
they are written, way by way.

### Bounds

* `Delays` has two values and `EndReqs` two, so an edit can make a path better or
  worse than another and an end pass or fail.
* The design of `MCSearch` has reconvergence of two inputs, a fanout to ends of
  different depth (so that a partial required search leaves vertices queued
  beyond it), an end with fanout (`b`), and a load that can be disconnected with
  logic behind it. `Edits` and `Queries` name the operations a run enables: with
  all of them and the large design the state space is out of reach, so
  `search_edits` uses a smaller design, and the runs about slacks enable the
  edits for which the promise holds. The other edits are the violation runs.
* No run bounds the number of edits or queries: sequences are of any length.
* `MaxRemoved` bounds the null entries of `Bfs`'s vectors, which nothing but a
  visit or `clear` removes.
* `Bfs` with three threads has both a level with fewer vertices than threads and
  levels whose chunks have left over vertices (three vertices, two threads).
* `WorstSlack` sorts at two vertices and keeps at least one, so that each
  `initQueue` prunes, with slacks that tie at the threshold.
* `Levelize`: the design has one loop, which edits close, open, cut off from its
  root and join again, and a load that two drivers reach at different levels.
  Level space is two from scratch and one incrementally, so that levels of both
  kinds mix. `MaxLevel` stops connections once a level exceeds six; the levels
  of the design from scratch are up to six. The cell is replaced by one with the
  same arcs; with a new arc `LevelsOrdered` fails (see the hazards).
* `sim`: the OR gate's second input comes from the AND gate, whose second input
  edits connect to the OR's output, so that the loop is closed and open; the tie
  cell and the case value reach the loop from two sides; the ground net is what an
  input can be moved to; the OR may be replaced by a cell of the same function
  with other arcs. Every edit is possible between any two propagations.
* `tag_groups`: two tags, one of them of the filter; tables of one entry, so the
  first and second groups made enlarge them, while the other thread is at any of
  its steps. `MaxTags` bounds how many tags are made before a filtered search,
  which adds more; deleted entries are used again. Threads are symmetric.
* `delay_calc`: two input slews and two loads, chosen so that a load's slew changes
  in some cases and stays in others (the search stops there). Queries ask for a
  level below the latch and for the top. The first query asks for the top, see
  `delay_partial`.
* `exceptions`: commands of three types, two of which override each other in part;
  one mixes a pin and a clock and is split; two merge. Six addresses are enough for
  the exceptions of all but the longest sequences; when a command would need a
  seventh, the run stops there, hence no check of deadlock. Addresses are symmetric.
* No required time upstream of an end is zero in the instances: a first required
  time of exactly zero does not queue the fanin (see the hazards).

### Fairness

* `Search`: weak fairness of the steps of a search. It runs in the calling
  thread, which nothing stops before the call returns. Edits and the start of
  queries have no fairness.
* `Bfs`: weak fairness of the steps of a visit, taken together: the calling
  thread and the pool's threads run.
* `DispatchQueue`: weak fairness of each thread's steps and of the caller's steps
  inside `finishTasks` and `setThreadCount`; none for dispatching, and none for
  spurious wakeups. A thread that waits on the condition variable runs only when
  it is notified, or spuriously.

* `Levelize`: weak fairness of its steps once a levelization has begun, which
  runs in the calling thread. None for edits.
* `Sim`: weak fairness of the evaluation of the queue, which runs in the calling
  thread. None for edits.
* `TagGroups`, `GraphDelayCalc`, `Exceptions`: safety only.

### Disagreements with the documentation, and what the runs avoid

`exceptions_thrus` is a run (see `findings` in `PROJECT.json`): the comment at
`sdc/Sdc.cc:4419` describes how an exception is broken down when a new one
overrides a part of it, and `expandExceptionExcluding` (`sdc/Sdc.cc:4635`) makes
other pieces when there are two `-thru`: the loop over the other `-thru` copies
the one that is being reduced. The ways x-D, y-C and y-D lose their value.

`include/sta/Search.hh` says that the total negative slack is incrementally
updated, `include/sta/Sta.hh` that slack functions update timing incrementally,
and `search/Levelize.cc` that a vertex is above its predecessors. The further
instances of the table above are sequences where this does not hold:

1. `search_tns_partial`: the endpoints to refresh for the sum have already been
   moved from `invalid_requireds_` to the iterator, which stopped above them.
2. `search_tns_disconnect`: the sum is adjusted for a vertex only while it is an
   endpoint, and a disconnected load is none.
3. `search_reconnect`: a vertex that gets paths again is not recorded for a
   required search, and its new required time is zero.
4. `search_unset`: `removeOutputDelay` invalidates the arrival of the pin and not
   its required time.
5. `search_groups`: `requiredsInvalid` clears `invalid_requireds_` and keeps the stored
   required times. Seeding again finds those of the ends unchanged and queues
   nothing, so the vertex that the new delay recorded keeps its old required time.
6. `levelize_nested`: a root made of the target of a back edge may have other
   enabled fanin, which is sorted behind it.
7. `sim_edges`: `replaceCell` by a cell of the same function makes new edges
   without annotating them again, so an edge from a constant input is not cut. The
   same state is reached when a constant is taken off a pin.
8. `delay_partial`: `findDelays` sets `delays_exist_` also when it stopped at a
   level, and a driver beyond that is then passed on only if slews change.

What other behaviours the passing instances leave out, each met while modelling
and visible in the definition named:

* `Sim`: a ring of inverting gates that is enabled never settles, so the design has
  no inverting loop (`PropagationEnds`). A cell replaced by one with another
  function is not evaluated again, so `Alternatives` have the same function. A
  tie cell that is inserted is not a seed of the next incremental propagation,
  so instances made later are not tie cells. The loads of a net that lost its
  driver keep their value (`ValueFrom` says so). A constant that goes round a
  loop supports itself once its cause is gone, until the next propagation from
  scratch: `ValuesCurrent` asks that each value agrees with what determines it,
  which such a constant does.
* `GraphDelayCalc`: an edit of the slew at one driver of a net with several is not
  seen by the others before the highest is visited. `unsetAnnotatedSlew` of a load
  that nothing drives records nothing. A changed load at a latch output does not
  find its D to Q delay again, and a driver that loses a load keeps the delay with
  it (`Sta::deleteEdge` records the load). `HandledEdits` at the end of the module
  states what the edits must be like; `MCGraphDelayCalc` asserts it of the run's.
* `Exceptions`: the iterator of `resetPath` dangles when a piece merges with the
  exception it is at. A clock that is in both `-from` and `-to` of an exception
  is taken out of `-from` only (`WithoutClock`). The commands leave no such pair,
  and the removable clock is in no `-to`.

## 5. What is proved

For every value of the constants that satisfies the named assumptions.

`SearchProofs` (assumptions `GraphAssumption`: edges go up in level, and
`ValueAssumption`: the types of the constants):

* `TypeCorrect`: `Spec => []TypeOK`. The lemmas say that a visit finds a path of
  the right type: the least of a finite set of integers exists.
* `NoArrivalLost`: `Spec => []NoLostArrival`. The invariant is not inductive
  alone: `arrivalInvalid` records nothing while arrivals do not exist, so the
  strengthening adds that arrivals exist exactly when they are seeded, and that
  before that no vertex has a path. What a visit of `v` computes depends on the
  edges into `v`, the delays of those edges and the arrivals at their start. So
  the argument is local: an edit changes these for the vertices it records; a
  visit of `v` makes `v` itself current and changes them for the fanout of `v`,
  which it queues; seeding makes every start point queued, and a vertex that is
  not a start point has no path before and none arriving. Here the assumption
  that edges go up in level is needed: `v` is not its own fanout.
* `NestedResults`: `Spec => []ResultsNested`.
* `CurrentArrivals`: `Spec => []ArrivalsCurrent`. With nothing recorded or queued,
  `NoLostArrival` says that each stored arrival is what its fanin gives. These
  equations have one solution, since edges go up in level: where two solutions
  differ, take a vertex of least level. `TrueArrival` is the solution that
  a search from scratch computes (assumption: `NoPath` is no number).
* `SlackAnswers`: `Spec /\ []NonzeroRequireds => []SlackAnswer` under
  `SlackAssumption`. A query for a slack stops at the level of the vertex it asks for,
  so later queries meet requireds that are half searched. The invariant is
  `NoLostRequired`: a vertex whose required time is not what its fanout gives is
  recorded, or queued, or has a new path at its fanout, whose first required time
  will queue it. Before requireds are seeded, only ends that were asked for have one,
  and their fanin is queued (`UnseededEnds`). At the end of a search nothing from the
  asked level up is queued, so of the wrong vertices there none is the highest.
  `TrueRequired` is a solution of the same equations, built from the highest level
  down. The hypotheses, each of which is needed or excludes a hazard:
  the edits change delays and output delays or drop all arrivals (`KeptGraph`;
  each of the other three kinds makes an answer wrong: `search_reconnect`,
  `search_unset` and `search_groups`);
  a required time at an end is at most `Infinity`; each vertex has an edge, so
  that the cached endpoints have every vertex without fanout; and no required time
  that a search finds is zero (`NonzeroRequireds`), since a new path has the
  required time zero and the comparison in `requiredsSave` then sees no change
  (a hazard in `PROJECT.json`).
* `TotalIsTrue`: `Spec => []TnsAnswer` under `TnsAssumption`. The invariant `TnsInv`
  says that the slack counted for an end is the one that its output delay and its
  stored arrival give, or the end is in `invalid_tns` (`SlacksKept`), and that the
  required time stored at an end without fanout, by which it is evaluated, is that
  of its output delay, or the end is recorded or queued (`SinksCurrent`). The second
  part makes the first inductive, and it needs that no such end stays in
  `required_iter` between two queries (`EndPhases`): an edit does not record an end
  that is queued there, and the sum finds again only the required times that are
  recorded. With nothing left to be found the arrivals are true (`CurrentArrivals`),
  so the slacks are equal at every vertex, and so are their sums. The hypotheses:
  `KeptGraph` and `Bounded` as before; an edit makes no vertex an end that is none
  (`EndsKept`; otherwise nothing adds it to the cached endpoints, a hazard); and a
  slack query that searches requireds searches all ends without fanout
  (`SinksSearched`; otherwise the total is wrong, which `search_tns_partial` shows).
  Requireds may be zero here.

`QueueProofs` about `WorstSlack` (assumption `WorstSlackAssumption`):

* `WorstSlackTypeCorrect`, `QueueIsComplete`, `AnswerIsWorst`: the queue holds
  exactly the endpoints within the threshold among those it speaks about (not
  marked, or while it is filled already visited); the known worst vertex is in
  the queue and none is worse; so an answer, given when no endpoint is marked, is
  the least slack. The strengthening states both parts for the endpoints known
  so far, in the states while the queue is being filled too.

* `KnownWorstIsWorst`: `Spec => []WorstInQueue`, from the same invariant.

`QueueProofs` about `DispatchQueue` (assumption `DispatchAssumption`), for any number of threads
and any set of tasks:

* `PoolTypeCorrect`, `LatchIsExact`, `NoWakeupLost`: none is inductive alone. A
  count is exact because a task is in one entry of the queue or with one thread
  (`TaskInOnePlace`), and a thread has a task exactly while it runs it
  (`BusyRuns`). A wakeup is lost only if every thread sleeps with a task in the
  queue; so the argument needs that threads end only when the pool is resized, and
  that some thread is there (`QuitWhileResizing`). The cardinality of the set of
  busy threads grows and shrinks by one with the step that takes or ends a task.
* `PoolIsTaskPool`: `Spec => ImplementsTaskPool`. Each step maps to a dispatch, a
  start, an end or the return of `finishTasks` of `TaskPool`, or to a stutter; the
  return is the step that needs `LatchCounts`, to know that nothing is left when
  the latch is at zero.

`BfsProofs` (assumption `BfsAssumption`: edges go up in level), for any graph, any
number of levels and any number of threads:

* `BfsTypeCorrect`, `EachFlaggedOnce`: `Spec => []TypeOK` and
  `Spec => []FlaggedOnce`. Two things keep the flag and the entries together. A
  visit queues only vertices above the level being visited (`FoundAbove`), so no
  thread appends to the vector that the tasks read. And the chunks of a level share
  no entry (`ChunksDisjoint`) and together have all of them (`ChunksCover`, for
  every number of vertices and threads), so a task that takes an entry is the only
  one to have it and none is left when the vector is cleared. `Phases` says what a
  visit leaves behind: nothing is held by a task between levels. Each step then
  drops the entries of some vertices with their flags (`DropEntries`), keeps them
  all (`SameEntries`), or adds one of a vertex that had none (`AddEntry`).
* `BfsIsLevelSearch`: `Spec => ImplementsLevelSearch`. A visit of a vertex by a
  thread maps to `Visit` with what its visitor has found; the tests and appends that
  follow move a vertex from what is found to what is flagged, and are stutters.
  `Visit` is of the first level because what is flagged, found or checked is at the
  level being visited or above it.

`TagGroupsProofs` (assumption `TagGroupsAssumption`: finite sets of vertices and
tags, a capacity of at least one), for any number of threads:

* `Types`, `CurrentReads`, `CountedGroups`, `LiveTagsOnly`: `Spec => []` of
  `TypeOK`, `ReadsAreCurrent`, `GroupsInUse` and `TagsLive`. The inductive invariant
  `TagGroupsInv` has six parts. `BetweenVisits`: with no search under way there is one
  array, no thread holds anything and nothing is kept. `Indices`: each index below
  `tag_group_next` is in the set or free, once. `Entries`: an array that was
  replaced was full, so nothing is written to it later and a thread that still
  reads it sees groups that are there. `Growth`: at most one array is not published,
  and the thread that makes it holds the lock. `Counts`: each count is the
  cardinality of the vertices with the group, which a step of a visit changes by
  one, and equal groups are one group. `TagTable`: groups have live tags, and those
  of a filter are at the vertices in `filtered_arrivals` only. `ThreadOK` adds for
  each thread that what it has read or found stays in the tables until its visit
  ends, because groups and tags are deleted between visits only.

`ExceptionsProofs` (assumption `ExceptionsAssumption`), for any set of commands,
resets and addresses:

* `LiveTables`: `Spec => []TablesLive`, a part of `PointersLive`: after each step of
  each command the tables by first point and by merge hash have the entries of
  every exception that exists, under the points that it has now, and no other.
  Inductive with the shape of the state, `MergesOnTop` (only the call that runs
  merges) and `NoLoop` (only a reset has an iterator).
  The other part, `IteratorLive`, is no theorem: a piece that merges with the
  exception the iterator of `resetPath` is at deletes it, and which commands do
  not lead there depends on their points (section 4).

`LevelizeProofs` (assumption `LevelizeAssumption`), for any graph with any number of
loops and any edits:

* `Types`: `Spec => [](TypeOK /\ LevelsBounded)`.
* `InductiveInvariant`, `RootsOfLevels`: `Spec => []LevelizeInv` and
  `Spec => []UndrivenAreRoots`. The depth first search has each marked vertex once on
  its path (`Marks`), and the vertices it has finished lead to finished vertices
  only, along edges that a rank orders (`Explored`, `Ranked`). When every vertex is
  visited the rank orders all enabled edges: no cycle is left (`LoopsBroken`).
  Every vertex that no enabled edge leads to is a root (`RootsFound`): the target
  of a back edge of the first search keeps the edge it was reached by
  (`PathFromRoot`), and that of the second search is made a root. After edits a
  vertex without edges into it is a root or recorded (`RootsKnown`).
* `LoopsOfDisabled`: `Spec => []DisabledInLoop`. The path of either search is one of
  edges that exist (`PathOfEdges`) and holds the whole stack except the roots that the
  first search has still to leave (`WholePath`), so the recorded loop edges lead from the end of the
  disabled edge to its start: the first vertex of the path that a closed set left out
  would follow one that is in it (`PathLoop`). While the graph is levelized the edges of
  loops exist, since an edit that deletes one ends that (`LoopsKept`).
* `OrderedLevels`: `SameArcs` and `Spec /\ []RootsUndriven => []LevelsOrdered`. The
  sort gives an order: of the unsorted vertices one of highest rank has no unsorted
  driver, so its degree is zero and it is a root or was queued (`Sorted`); levels
  given along the order rise (`LevelsRise`). In an incremental levelization an
  enabled edge goes up, or its start is still to be searched, or the edge is
  still to be looked at in a frame (`VisitsOrder`); after an edit an enabled edge
  goes up or its start is recorded (`EditsOrder`). Both hypotheses are needed.
  `SameArcs` says that a cell is replaced by one with the same arcs, and a new
  edge of another cell is not searched (a hazard in `PROJECT.json`).
  `RootsUndriven` says that no enabled edge leads to a root when the sort begins;
  `levelize_nested` is a graph where one does, and there `LevelsOrdered` fails.

`SimProofs` (assumption `SimAssumption`), for any cells with any functions, any nets,
supplies, case values and edits:

* `TypesHold`: `Spec => []TypeOK`. No record is kept of a pin or an instance that was
  deleted. The inductive part is `Wellformed`: each net has at most one driver and
  none if it is a supply (`Netlist`), and a pin that is deleted has no value.
* `ValuesAreCurrent` and `ChangesRecorded`: `Spec => []ValuesCurrent` and
  `Spec => []NoLostChange`, from the invariant `SimInv`. In the middle of a propagation
  an output may differ from what its inputs give only while its instance is queued, and
  no load differs from its driver (`Settling`); between propagations both may differ,
  but only where an edit recorded it (`Recorded`); and nothing differs while the values
  are marked valid (`Propagated`). `FuncPins` says that the pins known to have constant
  functions are the tie cells' outputs. Supplies, constraints, ties and records
  are folds over sets of pins. A property of a fold is proved by the size of the set
  (`FoldInduction`: a smallest set without it would have it): one step of the fold
  changes the value of one pin and, where that is a driver, of its loads, and queues
  each instance whose input changes, so a fold keeps what one step keeps, and settles
  the pins of its set. An edit changes what determines the values of few pins, and
  records these.

  The hypotheses each exclude a thing that the code does not follow.
  `FunctionsKept`: a cell is replaced by one with the same functions; `pinSetFuncAfter`
  marks the values invalid but does not record the instance, so that an incremental
  propagation does not evaluate it. `TiesKept`: tie cells have no case value on their
  outputs, as `propagateFromInvalidDrvrsToLoads` hands on the function's value and not
  the case value, and they are there from the start. `DataVaries`: a register's data
  function is not constant; `findLogicConstants` evaluates only what a constant pin
  queues. In the runs all three hold. `SimAssumption` says what a netlist is: a port is
  not both an input and an output, and a net has one driver, or is a supply and has
  none.

`GraphDelayCalcProofs` (assumption `GraphDelayCalcAssumption`: edges other than D to Q
go up in level, the tables have values for the slews and loads there are):

* `DelayCalcTypeCorrect`: `Spec => []TypeOK`, for every graph and any edits. The visit
  of a net with several drivers folds over them; what a fold gives is proved by the
  size of the set (`FoldInduction`).
* `NothingIsLost` and `AnswerIsCurrent`: `Spec => []NoLostDelay` and
  `Spec => []DelayAnswer`, if `HandledEdits(quiet)` and `FirstReachesAll`. Both follow
  from the invariant `DelayInv`.

  What a visit of a vertex does to the graph is stated once, as `Effect`: it gives
  every slew and delay that the vertex finds (`Finds`: a driver those of its net, unless
  a higher one finds them) the value that follows from the graph, and leaves the others.
  For a net with several drivers the proof goes through the fold: after a set of the
  drivers the loads have the worst slew of that set (`PartlyFound`).
  Once delays exist, each slew and delay that does not follow from its inputs is found
  by a visit to come: of a vertex that is recorded or queued, or that follows one
  (`Settled`). `Late` says which, and has to look one arc back: a load that is queued is
  visited only to queue the drivers behind it, and
  in between nothing is wrong at the load itself. A visit makes right what it finds and
  can make wrong only what follows from a slew that it changed, and it queues these.
  This fails in the first search, where nothing is right at first, and all loads follow:
  there the invariant is `Reached`, that some set of vertices has been found, that what
  follows it is in the set or queued, and that the queue is behind it by level. At the
  end of that search nothing is queued, and a vertex of least level that is not in the
  set would have one before it that is (`AllReached`). `FoundInv` says that what waits
  lies beyond the level of the last answer.

  The hypotheses are what the code relies on or misses, each with a state that it
  excludes. `FirstReachesAll`: the first query asks for every level; otherwise both
  invariants fail (`delay_partial`). `HandledEdits`: drivers that share one load share all;
  no driver of such a net is a port, is annotated or has its load edited; pins that
  are connected and disconnected have no capacitance and are not on a net with several
  drivers; a load at a check, a latch or under an annotation stays driven; the load at a
  latch output is not edited; a driver keeps an arc; and an edit does not reach the
  slews that the lower drivers of a net depend on (`quiet`), since a visit of a lower
  driver finds nothing and the higher one is not told. The run's edits and graph
  satisfy them (`MCHandledEdits`), with edits of every kind.

Only model-checked. `GoverningException` and the refinement `ImplementsTable` need
induction over data, which the prover does not do. `PropagationEnds` is liveness.
All liveness, and `ENABLED`, are out of reach of the prover. Of `PointersLive`,
`TablesLive` is proved and `IteratorLive`, which depends on the points of the
commands, is not.

## 6. Not modelled, and the plan

Each part that is not modelled is in `PROJECT.json` under `components` with the
reason. In short: the delay calculators, power and the readers compute with
floating point or read and write files, and have no protocol to check; the netlist,
the timing graph, Liberty and most constraints are tables that the models above
take as constants and edit; path ends, groups and reports are built anew from
finished arrivals.

The order of the further work:

1. A proof of a condition on the graph that gives `RootsUndriven`.
2. Latches and loops in `findAllArrivals`: passes over `pending_arrivals_`, with
   vertices postponed while it is iterated. Properties: nothing postponed is lost
   (as `NoLostArrival`), passes end when arrivals settle.
3. `Levelize`: deletion of vertices, bidirect ports and latch D to Q edges.
4. Deletion of vertices in `Search`, with what it leaves in the iterators.
5. Cycle accounting, path groups and path enumeration as operators with reference
   definitions.
