------------------------------ MODULE Levelize ------------------------------
(***************************************************************************)
(* Levels of the timing graph (search/Levelize.cc, with the network edits  *)
(* of search/Sta.cc that tell it what changed).                            *)
(*                                                                         *)
(* findLevels levelizes from scratch: a depth first search from the roots  *)
(* disables the edges that close loops, a second one breaks the loops that *)
(* no root reaches, and levels are assigned in topological order.          *)
(* relevelize does the same after edits, from the vertices they touched.   *)
(* The vertices and edges a search sees in no particular order (sets and   *)
(* edge lists) are taken in any order.                                     *)
(*                                                                         *)
(* Edges that levelization never searches (timing checks, latch D to Q,    *)
(* disabled preset and clear arcs) are not edges here, and top level       *)
(* bidirect ports are left out.  Vertices are neither made nor deleted.    *)
(*                                                                         *)
(* A definition Variant_X is a slip in the definition that follows it,     *)
(* used only to show that a property depends on getting X right.           *)
(***************************************************************************)
EXTENDS Integers, Sequences, FiniteSets, SequencesExt

CONSTANTS
  Vertices,       \* pins
  Wires,          \* pairs <<driver, load>> of pins that edits put on one net
  Arcs,           \* arcs of the instances
  Cells,          \* sets of arcs that one instance has with one cell or another
  LevelSpace,     \* level_space_
  MaxLevel        \* bound: no pin is connected once a level exceeds it

Edges == Wires \cup Arcs \cup UNION Cells

ASSUME LevelizeAssumption ==
  /\ IsFiniteSet(Vertices)
  /\ Edges \subseteq Vertices \X Vertices
  /\ Wires \cap (Arcs \cup UNION Cells) = {}
  /\ \A w, x \in Wires : w[1] # x[2]       \* no bidirect pins
  /\ LevelSpace \in Nat \ {0}
  /\ MaxLevel \in Nat

VARIABLES
  connected,            \* pins that are connected to their net
  edges,
  level,                \* Vertex::level
  roots, relevelize_from, loop_edges, disabled_loop_edges, max_level,
  levelized, levels_valid,
  pc,                   \* "idle", or the part of ensureLevelized under way
  stack,                \* frames of the depth first search
  path,                 \* edges from its start to the top of the stack
  visited, on_path,     \* Vertex::visited and visited2
  pending,              \* vertices the search has still to start from
  in_degree, queue,     \* of the topological sort
  order                 \* vertices sorted so far

netVars == <<connected, edges>>
levelVars == <<level, max_level>>
graphVars == <<netVars, levelVars>>
loopVars == <<loop_edges, disabled_loop_edges>>
validVars == <<levelized, levels_valid, relevelize_from>>
dfsVars == <<stack, path>>
flagVars == <<visited, on_path>>
topoVars == <<in_degree, queue, order>>
vars == <<graphVars, loopVars, validVars, roots, dfsVars, flagVars, topoVars, pending, pc>>

-----------------------------------------------------------------------------
Larger(a, b) == IF a < b THEN b ELSE a
Largest(S) == CHOOSE m \in S : \A n \in S : n <= m

\* Levelize::searchThru.
Enabled == edges \ disabled_loop_edges
OutEdges(v) == {e \in edges : e[1] = v}
IsRoot(v) == ~\E e \in Enabled : e[2] = v

\* The pins of the nets.
NetPins == {p \in Vertices : \E w \in Wires : p \in {w[1], w[2]}}
IsDriver(p) == \E w \in Wires : w[1] = p

\* A vertex on the stack with the edges its iterator has left.
Frame(v) == [vertex |-> v, todo |-> OutEdges(v)]
Top == stack[Len(stack)]
WithoutEdge(e) == [stack EXCEPT ![Len(stack)].todo = @ \ {e}]
NextEdge(e) == stack # <<>> /\ e \in Top.todo

\* Levelize::loopEdges: the path from where the closing edge enters it.
LoopEdges(e) ==
  {path[i] : i \in {j \in DOMAIN path : \E k \in 1..j : path[k][1] = e[2]}} \cup {e}
RecordLoop(e) ==
  /\ loop_edges' = loop_edges \cup LoopEdges(e)
  /\ disabled_loop_edges' = disabled_loop_edges \cup {e}

Init ==
  /\ connected = NetPins
  /\ edges = Wires \cup Arcs
  /\ level = [v \in Vertices |-> 0]
  /\ roots = {} /\ relevelize_from = {} /\ loop_edges = {} /\ disabled_loop_edges = {}
  /\ max_level = 0
  /\ levelized = FALSE /\ levels_valid = FALSE
  /\ pc = "idle"
  /\ stack = <<>> /\ path = <<>>
  /\ visited = {} /\ on_path = {} /\ pending = {}
  /\ in_degree = [v \in Vertices |-> 0] /\ queue = <<>> /\ order = <<>>

-----------------------------------------------------------------------------
(* Edits between two calls of ensureLevelized.                             *)

Edit == pc = "idle" /\ UNCHANGED <<levelVars, roots, dfsVars, flagVars,
                                   topoVars, pending, pc>>

\* Levelize::relevelizeFrom.
RelevelizeFrom(S) ==
  /\ relevelize_from' = IF levelized THEN relevelize_from \cup S ELSE relevelize_from
  /\ levels_valid' = (levels_valid /\ S = {})
  /\ UNCHANGED <<levelized, loopVars>>

\* Sta::connectPinAfter: the wires between the pin and its net; the search starts
\* from a driver pin, or from all that leads to a load pin.
WiresOf(p, pins) == {w \in Wires : p \in {w[1], w[2]} /\ {w[1], w[2]} \subseteq pins}
ConnectPin(p) ==
  /\ Edit
  /\ p \in NetPins \ connected
  /\ \A v \in Vertices : level[v] <= MaxLevel
  /\ connected' = connected \cup {p}
  /\ edges' = edges \cup WiresOf(p, connected')
  /\ RelevelizeFrom(IF IsDriver(p) THEN {p} ELSE {e[1] : e \in {f \in edges' : f[2] = p}})

\* Levelize::relevelizeFrom and deleteEdgeBefore of each edge that Sta::deleteEdge
\* deletes, which do nothing once the graph is not levelized.  Without a loop edge
\* the depth first search has to start anew.
WhileLevelized(deleted) ==
  {deleted[i] : i \in {j \in DOMAIN deleted :
                         levelized /\ \A k \in 1..(j - 1) : deleted[k] \notin loop_edges}}
Variant_LoopEdgesOf(S) == {}
LoopEdgesOf(S) == S \cap loop_edges
DeleteEdges(deleted) ==
  LET seen == WhileLevelized(deleted)
  IN  /\ levelized' = (levelized /\ LoopEdgesOf(seen) = {})
      /\ relevelize_from' = relevelize_from \cup {e[2] : e \in seen}
      /\ disabled_loop_edges' = disabled_loop_edges \ LoopEdgesOf(seen)
      /\ levels_valid' = (levels_valid /\ deleted = <<>>)
      /\ UNCHANGED loop_edges

\* Sta::disconnectPinBefore.
DisconnectPin(p) ==
  LET deleted == WiresOf(p, connected)
  IN  /\ Edit
      /\ p \in connected
      /\ connected' = connected \ {p}
      /\ edges' = edges \ deleted
      /\ \E sorted \in SetToSeqs(deleted) : DeleteEdges(sorted)

\* Sta::replaceCellBefore deletes the arcs of the instance's old cell and
\* replaceCellAfter makes those of the new one.
ReplaceCell(old, new) ==
  /\ Edit
  /\ old # {} /\ old \subseteq edges
  /\ edges' = (edges \ old) \cup new
  /\ \E sorted \in SetToSeqs(old) : DeleteEdges(sorted)
  /\ UNCHANGED connected

\* Levelize::invalid: the variables that select the searched edges changed.
Invalid ==
  /\ Edit
  /\ levelized
  /\ levelized' = FALSE /\ levels_valid' = FALSE
  /\ UNCHANGED <<netVars, relevelize_from, loopVars>>

-----------------------------------------------------------------------------
(* Levelize::findLevels.                                                   *)

\* Levelize::clear, findRoots, and findBackEdges up to its search: all the
\* roots with fanout are on the stack.
FindLevels ==
  LET found == {v \in Vertices : ~\E e \in edges : e[2] = v}
      fanout_roots == {v \in found : OutEdges(v) # {}}
  IN  /\ pc = "idle" /\ ~levels_valid /\ ~levelized
      /\ level' = [v \in Vertices |-> -1]
      /\ max_level' = 0
      /\ roots' = found
      /\ relevelize_from' = {} /\ loop_edges' = {} /\ disabled_loop_edges' = {}
      /\ visited' = fanout_roots /\ on_path' = fanout_roots
      /\ \E sorted \in SetToSeqs(fanout_roots) :
           stack' = [i \in DOMAIN sorted |-> Frame(sorted[i])]
      /\ path' = <<>>
      /\ pc' = "back_edges"
      /\ UNCHANGED <<netVars, levelized, levels_valid, topoVars, pending>>

\* One edge of findBackEdges's search.  A loop of findCycleBackEdges gives a
\* root where it was broken.
Descend(e) ==
  /\ e \in Enabled /\ e[2] \notin visited
  /\ visited' = visited \cup {e[2]}
  /\ on_path' = on_path \cup {e[2]}
  /\ path' = Append(path, e)
  /\ stack' = Append(WithoutEdge(e), Frame(e[2]))
  /\ UNCHANGED <<loopVars, roots>>
BackEdge(e) ==
  /\ e \in Enabled /\ e[2] \in visited \cap on_path
  /\ RecordLoop(e)
  /\ roots' = IF pc = "cycles" THEN roots \cup {e[2]} ELSE roots
  /\ stack' = WithoutEdge(e)
  /\ UNCHANGED <<path, flagVars>>
SkipEdge(e) ==
  /\ e \notin Enabled \/ e[2] \in visited \ on_path
  /\ stack' = WithoutEdge(e)
  /\ UNCHANGED <<path, flagVars, loopVars, roots>>
FindBackEdge(e) ==
  /\ pc \in {"back_edges", "cycles"}
  /\ NextEdge(e)
  /\ Descend(e) \/ BackEdge(e) \/ SkipEdge(e)
  /\ UNCHANGED <<graphVars, validVars, topoVars, pending, pc>>

Variant_PathAfterPop == path
PathAfterPop == IF path = <<>> THEN path ELSE Front(path)
LeaveVertex ==
  /\ pc \in {"back_edges", "cycles"}
  /\ stack # <<>> /\ Top.todo = {}
  /\ stack' = Front(stack)
  /\ path' = PathAfterPop
  /\ on_path' = on_path \ {Top.vertex}
  /\ UNCHANGED <<graphVars, validVars, loopVars, roots, visited, topoVars, pending, pc>>

\* Levelize::findCycleBackEdges: a search from each vertex that no root
\* reached.  The vertex it starts from is not marked as visited.
FindUnvisited ==
  /\ pc = "back_edges" /\ stack = <<>>
  /\ pending' = Vertices \ visited
  /\ pc' = "cycles"
  /\ UNCHANGED <<graphVars, validVars, loopVars, roots, dfsVars, flagVars, topoVars>>
FindCycleBackEdges(v) ==
  /\ pc = "cycles" /\ stack = <<>>
  /\ v \in pending
  /\ pending' = pending \ {v}
  /\ stack' = <<Frame(v)>>
  /\ path' = <<>>
  /\ UNCHANGED <<graphVars, validVars, loopVars, roots, flagVars, topoVars, pc>>

\* Levelize::findTopologicalOrder.
FindInDegrees ==
  /\ pc = "cycles" /\ stack = <<>> /\ pending = {}
  /\ in_degree' = [v \in Vertices |-> Cardinality({e \in Enabled : e[2] = v})]
  /\ queue' \in SetToSeqs(roots)
  /\ order' = <<>>
  /\ pc' = "topo"
  /\ UNCHANGED <<graphVars, validVars, loopVars, roots, dfsVars, flagVars, pending>>
FindTopologicalOrder ==
  LET v == Head(queue)
      fanout == {w \in Vertices : <<v, w>> \in Enabled}
  IN  /\ pc = "topo" /\ queue # <<>>
      /\ in_degree' = [w \in Vertices |-> in_degree[w] - (IF w \in fanout THEN 1 ELSE 0)]
      /\ \E found \in SetToSeqs({w \in fanout : in_degree'[w] = 0}) :
           queue' = Tail(queue) \o found
      /\ order' = Append(order, v)
      /\ UNCHANGED <<graphVars, validVars, loopVars, roots, dfsVars, flagVars, pending, pc>>

\* Levelize::assignLevels, a vertex at a time, and the end of findLevels; a
\* vertex that has no level then is stranded.
AssignLevels ==
  /\ pc = "topo" /\ queue = <<>>
  /\ level' = [v \in Vertices |-> IF v \in roots THEN 0 ELSE level[v]]
  /\ pc' = "assign"
  /\ UNCHANGED <<netVars, max_level, loopVars, validVars, roots, dfsVars, flagVars,
                 topoVars, pending>>
AssignLevel ==
  LET v == Head(order)
      from_v == level[v] + LevelSpace
      fanout == {w \in Vertices : level[v] # -1 /\ <<v, w>> \in Enabled}
  IN  /\ pc = "assign" /\ order # <<>>
      /\ level' = [w \in Vertices |-> IF w \in fanout THEN Larger(level[w], from_v) ELSE level[w]]
      /\ max_level' = Largest({level'[w] : w \in fanout} \cup {max_level})
      /\ order' = Tail(order)
      /\ UNCHANGED <<netVars, loopVars, validVars, roots, dfsVars, flagVars,
                     in_degree, queue, pending, pc>>
LevelsAssigned ==
  /\ pc = "assign" /\ order = <<>>
  /\ level' = [v \in Vertices |-> Larger(level[v], 0)]
  /\ relevelize_from' = {}
  /\ levelized' = TRUE /\ levels_valid' = TRUE
  /\ visited' = {} /\ on_path' = {}
  /\ in_degree' = [v \in Vertices |-> 0]
  /\ pc' = "idle"
  /\ UNCHANGED <<netVars, max_level, loopVars, roots, dfsVars, queue, order, pending>>

-----------------------------------------------------------------------------
(* Levelize::relevelize.                                                   *)

Relevelize ==
  /\ pc = "idle" /\ ~levels_valid /\ levelized
  /\ pending' = relevelize_from
  /\ pc' = "relevelize"
  /\ UNCHANGED <<graphVars, validVars, loopVars, roots, dfsVars, flagVars, topoVars>>

\* The visit of a vertex starts at the level it has.
Variant_VisitedRoots(v) == roots
VisitedRoots(v) == IF IsRoot(v) THEN roots \cup {v} ELSE roots
VisitFrom(v) ==
  /\ pc = "relevelize" /\ stack = <<>>
  /\ v \in pending
  /\ pending' = pending \ {v}
  /\ roots' = VisitedRoots(v)
  /\ stack' = <<Frame(v)>>
  /\ path' = <<>>
  /\ UNCHANGED <<graphVars, validVars, loopVars, flagVars, topoVars, pc>>

\* One edge of Levelize::visit: it closes a loop, or it raises the vertex it
\* leads to and visits it, or that vertex is high enough.
PathVertices == {stack[i].vertex : i \in DOMAIN stack}
VisitBackEdge(e) ==
  /\ e \in Enabled /\ e[2] \in PathVertices
  /\ RecordLoop(e)
  /\ stack' = WithoutEdge(e)
  /\ UNCHANGED <<level, max_level, path>>
Variant_MustRaise(e) == level[e[2]] < level[e[1]]
MustRaise(e) == level[e[2]] <= level[e[1]]
VisitRaise(e) ==
  /\ e \in Enabled /\ e[2] \notin PathVertices
  /\ MustRaise(e)
  /\ level' = [level EXCEPT ![e[2]] = level[e[1]] + 1]
  /\ max_level' = Larger(max_level, level[e[1]] + 1)
  /\ stack' = Append(WithoutEdge(e), Frame(e[2]))
  /\ path' = Append(path, e)
  /\ UNCHANGED loopVars
\* The slip goes on with the loop at an edge that is not searched, without the
\* next edge, so a search that comes to a disabled edge of a loop stays there.
Variant_StayAtUnsearched(e) ==
  /\ e \notin Enabled \/ (e[2] \notin PathVertices /\ ~MustRaise(e))
  /\ stack' = IF e \in Enabled THEN WithoutEdge(e) ELSE stack
  /\ UNCHANGED <<level, max_level, path, loopVars>>
VisitSkip(e) ==
  /\ e \notin Enabled \/ (e[2] \notin PathVertices /\ ~MustRaise(e))
  /\ stack' = WithoutEdge(e)
  /\ UNCHANGED <<level, max_level, path, loopVars>>
VisitEdge(e) ==
  /\ pc = "relevelize"
  /\ NextEdge(e)
  /\ VisitBackEdge(e) \/ VisitRaise(e) \/ VisitSkip(e)
  /\ UNCHANGED <<netVars, validVars, roots, flagVars, topoVars, pending, pc>>

VisitReturn ==
  /\ pc = "relevelize"
  /\ stack # <<>> /\ Top.todo = {}
  /\ stack' = Front(stack)
  /\ path' = PathAfterPop
  /\ UNCHANGED <<graphVars, validVars, loopVars, roots, flagVars, topoVars, pending, pc>>

RelevelizeEnd ==
  /\ pc = "relevelize" /\ stack = <<>> /\ pending = {}
  /\ levels_valid' = TRUE
  /\ relevelize_from' = {}
  /\ pc' = "idle"
  /\ UNCHANGED <<graphVars, levelized, loopVars, roots, dfsVars, flagVars, topoVars, pending>>

-----------------------------------------------------------------------------
EditStep ==
  \/ \E p \in NetPins : ConnectPin(p) \/ DisconnectPin(p)
  \/ \E old, new \in Cells : ReplaceCell(old, new)
  \/ Invalid

FindLevelsStep ==
  \/ FindLevels
  \/ \E e \in edges : FindBackEdge(e)
  \/ LeaveVertex
  \/ FindUnvisited
  \/ \E v \in Vertices : FindCycleBackEdges(v)
  \/ FindInDegrees \/ FindTopologicalOrder
  \/ AssignLevels \/ AssignLevel \/ LevelsAssigned

RelevelizeStep ==
  \/ Relevelize
  \/ \E v \in Vertices : VisitFrom(v)
  \/ \E e \in edges : VisitEdge(e)
  \/ VisitReturn
  \/ RelevelizeEnd

Next == EditStep \/ FindLevelsStep \/ RelevelizeStep

\* ensureLevelized runs in the calling thread: once begun it keeps stepping.
LevelizeStep == pc # "idle" /\ (FindLevelsStep \/ RelevelizeStep)
Spec == Init /\ [][Next]_vars /\ WF_vars(LevelizeStep)

-----------------------------------------------------------------------------
(* Properties.                                                             *)

\* The types; and the path of a search leads, edge by edge, through the frames
\* on top of its stack (below them are the roots still to be searched).
PathLeadsToTop ==
  LET below == Len(stack) - Len(path) - 1
  IN  IF stack = <<>> THEN path = <<>>
      ELSE /\ below >= 0
           /\ \A i \in DOMAIN path :
                path[i] = <<stack[below + i].vertex, stack[below + i + 1].vertex>>
TypeOK ==
  /\ connected \subseteq NetPins /\ edges \subseteq Edges
  /\ level \in [Vertices -> Nat \cup {-1}]
  /\ roots \subseteq Vertices /\ relevelize_from \subseteq Vertices
  /\ loop_edges \subseteq Edges /\ disabled_loop_edges \subseteq Edges
  /\ max_level \in Nat
  /\ levelized \in BOOLEAN /\ levels_valid \in BOOLEAN
  /\ pc \in {"idle", "back_edges", "cycles", "topo", "assign", "relevelize"}
  /\ stack \in Seq([vertex : Vertices, todo : SUBSET Edges])
  /\ path \in Seq(Edges)
  /\ visited \subseteq Vertices /\ on_path \subseteq Vertices
  /\ pending \subseteq Vertices
  /\ in_degree \in [Vertices -> Int]
  /\ queue \in Seq(Vertices) /\ order \in Seq(Vertices)
  /\ PathLeadsToTop

\* When the levels are valid, every edge that a search follows goes up in
\* level, and no level is above the one the searches go to (checkLevels,
\* maxLevel).  So no cycle is left, whatever edits were made one after another
\* before levels were needed.  Nested loops that no root reaches break it.
EdgesGoUp == \A e \in Enabled : level[e[1]] < level[e[2]]
LevelsBounded == \A v \in Vertices : level[v] <= max_level
LevelsOrdered == levels_valid => EdgesGoUp /\ LevelsBounded

\* An edge is disabled only while it closes a loop: no path is cut for a loop
\* that edits have opened (deleteEdgeBefore).
Reaches(v) ==
  {w \in Vertices : \A S \in SUBSET Vertices :
     v \in S /\ (\A e \in edges : e[1] \in S => e[2] \in S) => w \in S}
DisabledInLoop ==
  levels_valid =>
    \A e \in disabled_loop_edges : e \in edges /\ e[1] \in Reaches(e[2])

\* A vertex that nothing drives is a root, also one that an edit has just cut
\* off: delay calculation starts from the roots (seedRootSlews).
UndrivenAreRoots ==
  levels_valid => {v \in Vertices : ~\E e \in edges : e[2] = v} \subseteq roots

\* Levelization ends, with loops and without.
LevelizeEnds == pc # "idle" ~> pc = "idle"
=============================================================================
