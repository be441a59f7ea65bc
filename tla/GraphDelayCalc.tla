---------------------------- MODULE GraphDelayCalc ----------------------------
(***************************************************************************)
(* Incremental delay calculation over the graph (dcalc/GraphDelayCalc.cc). *)
(*                                                                         *)
(* Delays and slews are found from the roots on, level by level, only as   *)
(* far as a query asks.  Later an edit records the vertices it touches;    *)
(* the next query starts from them and from what earlier ones left queued, *)
(* and passes a driver only if the slew of one of its loads changed.       *)
(* Timing checks and latch D->Q arcs are found last.  The drivers of a net *)
(* with several are found together, when the highest of them is visited.   *)
(*                                                                         *)
(* A vertex has one slew and an edge one delay (one scene, transition and  *)
(* min/max, delay tolerance zero); the delay calculator is a table over    *)
(* slew and load (external).  Visits of a level touch different nets, so a *)
(* visit is one step in any order of the level.  Left out: driving cells,  *)
(* ideal clock slews, bidirects, internal pins, and annotated delays.      *)
(***************************************************************************)
EXTENDS Integers, FiniteSets, SequencesExt

CONSTANTS
  Vertices, Level,       \* [Vertices -> Nat]
  Drivers,               \* the vertices that drive nets; the others are loads
  Wires,                 \* driver to load, those that may be connected
  Arcs, LatchArcs,       \* load to driver; LatchArcs are D->Q
  Checks,                \* clock to data load
  HeavyLoads,            \* loads with a pin capacitance
  Slews, Caps,           \* the slews and loads of the delay calculator's tables
  GateDelay, GateSlew,   \* [slew, load] -> delay, slew
  CheckDelay,            \* [clock slew, data slew] -> delay
  SlewEdits, CapEdits, AnnotateEdits, WireEdits, DisableEdits, LevelEdits,
  InputSlews, ExtCaps,   \* values that the edits give
  QueryLevels,           \* levels that queries ask for
  FirstLevels            \* and those while no delays exist

NoSlew == -1             \* MinMax::initValue
NoLevel == -1
NoMultiDrvr == [drvrs |-> {}]
Edges == Wires \cup Arcs \cup LatchArcs \cup Checks

ASSUME GraphDelayCalcAssumption ==
  /\ IsFiniteSet(Vertices) /\ Level \in [Vertices -> Nat] /\ Drivers \subseteq Vertices
  /\ Wires \subseteq Drivers \X (Vertices \ Drivers)
  /\ Arcs \cup LatchArcs \subseteq (Vertices \ Drivers) \X Drivers /\ Arcs \cap LatchArcs = {}
  /\ Checks \subseteq (Vertices \ Drivers) \X (Vertices \ Drivers)
  /\ \A e \in Wires \cup Arcs : Level[e[1]] < Level[e[2]]
  /\ {0, NoSlew} \subseteq Slews /\ Slews \subseteq Nat \cup {NoSlew} /\ Caps \subseteq Nat
  /\ GateDelay \in [Slews \X Caps -> Nat] /\ GateSlew \in [Slews \X Caps -> Slews]
  /\ CheckDelay \in [Slews \X Slews -> Nat]
  /\ InputSlews \subseteq Slews /\ IsFiniteSet(InputSlews) /\ InputSlews # {}
  /\ \A c \in ExtCaps \cup {0}, W \in SUBSET Wires :
       c + Cardinality({w \in W : w[2] \in HeavyLoads}) \in Caps
  /\ QueryLevels \cup FirstLevels \subseteq Nat

VARIABLES
  wires, disabled,       \* connected wires; arcs disabled by set_disable_timing
  input_slew, ext_cap,   \* constraints of input ports and nets
  slew_annotated,        \* vertices with Vertex::slewAnnotated
  slew, delay,           \* what the graph stores
  delays_exist, delays_seeded,
  invalid_delays, invalid_check_edges, invalid_latch_edges,
  queue,                 \* the vertices in iter_
  multi_drvr_net_map,    \* of each driver, or NoMultiDrvr
  to_level,              \* level of the findDelays under way, or NoLevel
  found                  \* level of the last findDelays since an edit, or NoLevel

inputVars == <<wires, disabled, input_slew, ext_cap, slew_annotated>>
edgeVars == <<invalid_check_edges, invalid_latch_edges>>
vars == <<inputVars, slew, delay, delays_exist, delays_seeded, invalid_delays, edgeVars, queue,
          multi_drvr_net_map, to_level, found>>

-----------------------------------------------------------------------------
(* The graph.                                                              *)

Enabled == Arcs \ disabled
FaninArcs(v) == {e \in Enabled : e[2] = v}
WiresFrom(d) == {w \in wires : w[1] = d}
WiresTo(l) == {w \in wires : w[2] = l}
IsRoot(v) == IF v \in Drivers THEN \A e \in Arcs : e[2] # v ELSE WiresTo(v) = {}
Roots == {v \in Vertices : IsRoot(v)}
Ports == {d \in Drivers : \A e \in Arcs : e[2] # d}
\* Successors by DcalcNonLatchPred.
Fanout(v) == {e[2] : e \in {f \in wires \cup Enabled : f[1] = v}}

\* Sdc::connectedCap.
ConnectedCap(d) == ext_cap[d] + Cardinality({w \in WiresFrom(d) : w[2] \in HeavyLoads})
MaxOf(S) == CHOOSE x \in S : \A y \in S : x >= y

\* The drivers of the net of d that are not ports.
NetDrivers(d) == {w[1] : w \in {x \in wires : \E y \in WiresFrom(d) : y[2] = x[2]}} \ Ports
Highest(drvrs) == CHOOSE d \in drvrs : \A e \in drvrs : Level[e] <= Level[d]
\* GraphDelayCalc::makeMultiDrvrNet, with the loads as they are now.
Variant_MakeMultiDrvrNet(d) ==
  [drvrs |-> NetDrivers(d), dcalc_drvr |-> d, cap |-> ConnectedCap(d)]
MakeMultiDrvrNet(d) ==
  LET drvrs == NetDrivers(d)
      top == Highest(drvrs)
  IN  [drvrs |-> drvrs, dcalc_drvr |-> top, cap |-> ConnectedCap(top)]
\* GraphDelayCalc::findMultiDrvrNet: the map after it.
FindMultiDrvrNet(d) ==
  IF Cardinality(NetDrivers(d)) > 1 /\ multi_drvr_net_map[d] = NoMultiDrvr
  THEN [e \in Drivers |-> IF e \in NetDrivers(d) THEN MakeMultiDrvrNet(d)
                          ELSE multi_drvr_net_map[e]]
  ELSE multi_drvr_net_map

-----------------------------------------------------------------------------
(* Delays and slews of a vertex, as values g of [slew, delay].             *)

SetSlew(g, v, s) == IF v \in slew_annotated THEN g ELSE [g EXCEPT !.slew[v] = s]
SetLoads(g, d, load_slew, wire_delay) ==
  LET loads == {w[2] : w \in WiresFrom(d)} \ slew_annotated
  IN  [slew |-> [v \in Vertices |-> IF v \in loads THEN load_slew[v] ELSE g.slew[v]],
       delay |-> [e \in Edges |-> IF e \in WiresFrom(d) THEN wire_delay ELSE g.delay[e]]]

\* GraphDelayCalc::seedRootSlew.
SeedRootSlew(g, v) ==
  IF v \in Drivers
  THEN LET h == SetSlew(g, v, input_slew[v])
           s == IF v \in slew_annotated THEN h.slew[v] ELSE input_slew[v]
       IN  SetLoads(h, v, [l \in Vertices |-> s], ConnectedCap(v))
  ELSE SetSlew(g, v, 0)

\* GraphDelayCalc::findDriverDelays1: the worst slew over the arcs, merged into
\* that of the loads; without an arc zeroSlewAndWireDelays.
FindDriverDelays1(g, d, cap) ==
  LET arcs == FaninArcs(d)
      gate_slew == MaxOf({GateSlew[g.slew[e[1]], cap] : e \in arcs})
      h == [SetSlew(g, d, IF arcs = {} THEN NoSlew ELSE gate_slew)
              EXCEPT !.delay = [e \in Edges |-> IF e \in arcs THEN GateDelay[g.slew[e[1]], cap]
                                                ELSE @[e]]]
      load_slew == [l \in Vertices |-> IF arcs = {} THEN 0
                                       ELSE IF d \in slew_annotated THEN h.slew[d]
                                       ELSE MaxOf({g.slew[l], gate_slew})]
  IN  SetLoads(h, d, load_slew, IF arcs = {} THEN 0 ELSE cap)

\* GraphDelayCalc::findDriverDelays, after initLoadSlews.
FindDriverDelays(g, d, multi) ==
  LET h == SetLoads(g, d, [l \in Vertices |-> NoSlew], 0)
  IN  IF multi = NoMultiDrvr THEN FindDriverDelays1(h, d, ConnectedCap(d))
      ELSE IF d = multi.dcalc_drvr
      THEN FoldSet(LAMBDA e, k : FindDriverDelays1(k, e, multi.cap), h, multi.drvrs)
      ELSE g

Graph == [slew |-> slew, delay |-> delay]
SetGraph(g) == slew' = g.slew /\ delay' = g.delay

-----------------------------------------------------------------------------
(* GraphDelayCalc::findDelays(level).                                      *)

Busy == to_level # NoLevel

FindDelays(level) ==
  /\ ~Busy
  /\ level \in (IF delays_exist THEN QueryLevels ELSE FirstLevels)
  /\ to_level' = level
  /\ IF delays_seeded
     THEN /\ queue' = queue \cup invalid_delays
          /\ UNCHANGED <<slew, delay>>
     ELSE /\ SetGraph(FoldSet(LAMBDA v, g : SeedRootSlew(g, v), Graph, Roots))
          /\ queue' = UNION {Fanout(v) : v \in Roots}
  /\ delays_seeded' = TRUE
  /\ invalid_delays' = {}
  /\ UNCHANGED <<inputVars, delays_exist, edgeVars, multi_drvr_net_map, found>>

\* The next vertices of the search, a level at a time.
Next_level == {v \in queue : /\ Level[v] <= to_level
                             /\ \A u \in queue : Level[v] <= Level[u]}

\* GraphDelayCalc::findVertexDelay of a root.
VisitRoot(v) ==
  /\ v \in Next_level /\ IsRoot(v)
  /\ SetGraph(SeedRootSlew(Graph, v))
  /\ queue' = (queue \ {v}) \cup Fanout(v)
  /\ UNCHANGED <<inputVars, delays_exist, delays_seeded, invalid_delays, edgeVars,
                 multi_drvr_net_map, to_level, found>>

\* Of a driver: loads follow whose slew changed, or all while no delays exist.
Variant_LoadsToVisit(d, g) == {l \in Fanout(d) : g.slew[l] # slew[l]}
LoadsToVisit(d, g) == {l \in Fanout(d) : ~delays_exist \/ g.slew[l] # slew[l]}
VisitDriver(d) ==
  LET map == FindMultiDrvrNet(d)
      multi == IF Cardinality(NetDrivers(d)) > 1 THEN map[d] ELSE NoMultiDrvr
      g == FindDriverDelays(Graph, d, multi)
  IN  /\ d \in Next_level \cap Drivers /\ ~IsRoot(d)
      /\ multi_drvr_net_map' = map
      /\ SetGraph(g)
      /\ queue' = (queue \ {d}) \cup LoadsToVisit(d, g)
      /\ UNCHANGED <<inputVars, delays_exist, delays_seeded, invalid_delays, edgeVars, to_level,
                     found>>

\* Of a load, with enqueueCheckEdges.
Variant_CheckEdges(l) == {e \in Checks : e[2] = l}
CheckEdges(l) == {e \in Checks : l \in {e[1], e[2]}}
VisitLoad(l) ==
  /\ l \in Next_level \ Drivers /\ ~IsRoot(l)
  /\ queue' = (queue \ {l}) \cup Fanout(l)
  /\ invalid_check_edges' = invalid_check_edges \cup CheckEdges(l)
  /\ invalid_latch_edges' = invalid_latch_edges \cup {e \in LatchArcs : e[1] = l}
  /\ UNCHANGED <<inputVars, slew, delay, delays_exist, delays_seeded, invalid_delays,
                 multi_drvr_net_map, to_level, found>>

\* findCheckEdgeDelays and findLatchEdgeDelays, when the search is over.
FoundDelay(e) ==
  CASE e \in invalid_check_edges -> CheckDelay[slew[e[1]], slew[e[2]]]
    [] e \in invalid_latch_edges -> GateDelay[slew[e[1]], ConnectedCap(e[2])]
    [] OTHER -> delay[e]
EndFindDelays ==
  /\ Busy /\ Next_level = {}
  /\ delay' = [e \in Edges |-> FoundDelay(e)]
  /\ invalid_check_edges' = {} /\ invalid_latch_edges' = {}
  /\ delays_exist' = TRUE
  /\ found' = MaxOf({found, to_level}) /\ to_level' = NoLevel
  /\ UNCHANGED <<inputVars, slew, delays_seeded, invalid_delays, queue, multi_drvr_net_map>>

-----------------------------------------------------------------------------
(* Edits, by the functions of Sta that make them.                          *)

Edit == ~Busy /\ found' = NoLevel /\ UNCHANGED <<delay, to_level>>

\* GraphDelayCalc::delayInvalid of each vertex of S, and of the driver that
\* finds the delays of its net.
Variant_Triggers(S) == S
Triggers(S) ==
  S \cup {multi_drvr_net_map[d].dcalc_drvr :
            d \in {e \in S \cap Drivers : multi_drvr_net_map[e] # NoMultiDrvr}}
DelayInvalid(S) ==
  /\ invalid_delays' = IF delays_exist THEN invalid_delays \cup Triggers(S) ELSE invalid_delays
  /\ UNCHANGED <<delays_exist, delays_seeded, edgeVars, multi_drvr_net_map>>
DelaysInvalid ==
  /\ delays_exist' = FALSE /\ delays_seeded' = FALSE
  /\ queue' = {} /\ invalid_delays' = {}
  /\ invalid_check_edges' = {} /\ invalid_latch_edges' = {}

SetInputSlew(v, s) ==
  /\ Edit /\ v \in SlewEdits /\ input_slew[v] # s
  /\ input_slew' = [input_slew EXCEPT ![v] = s]
  /\ DelayInvalid({v})
  /\ UNCHANGED <<wires, disabled, ext_cap, slew_annotated, slew, queue>>

\* setPortExtPinCap and the like: the drivers of the port's net.
SetPortExtPinCap(d, c) ==
  /\ Edit /\ d \in CapEdits /\ ext_cap[d] # c
  /\ ext_cap' = [ext_cap EXCEPT ![d] = c]
  /\ DelayInvalid({d})
  /\ UNCHANGED <<wires, disabled, input_slew, slew_annotated, slew, queue>>
RemoveNetLoadCaps ==
  /\ Edit /\ CapEdits # {}
  /\ ext_cap' = [d \in Drivers |-> 0]
  /\ DelaysInvalid
  /\ UNCHANGED <<wires, disabled, input_slew, slew_annotated, slew, multi_drvr_net_map>>

SetAnnotatedSlew(v, s) ==
  /\ Edit /\ v \in AnnotateEdits
  /\ slew' = [slew EXCEPT ![v] = s]
  /\ slew_annotated' = slew_annotated \cup {v}
  /\ DelayInvalid({v})
  /\ UNCHANGED <<wires, disabled, input_slew, ext_cap, queue>>
Variant_Annotator(v) == {v}
Annotator(v) == IF v \in Drivers THEN {v} ELSE {w[1] : w \in WiresTo(v)}
UnsetAnnotatedSlew(v) ==
  /\ Edit /\ v \in slew_annotated
  /\ slew_annotated' = slew_annotated \ {v}
  /\ DelayInvalid(Annotator(v))
  /\ UNCHANGED <<wires, disabled, input_slew, ext_cap, slew, queue>>

\* disable and removeDisable of an instance's arc, from one port to another.
Disable(e) ==
  /\ Edit /\ e \in DisableEdits
  /\ disabled' = IF e \in disabled THEN disabled \ {e} ELSE disabled \cup {e}
  /\ DelayInvalid({e[1], e[2]})
  /\ UNCHANGED <<wires, input_slew, ext_cap, slew_annotated, slew, queue>>

\* deleteEdge and connectLoadPinAfter.  A new edge has no delay.
DisconnectPin(w) ==
  /\ Edit /\ w \in WireEdits \cap wires
  /\ wires' = wires \ {w}
  /\ DelayInvalid({w[2]})
  /\ UNCHANGED <<disabled, input_slew, ext_cap, slew_annotated, slew, queue>>
ConnectPin(w) ==
  /\ ~Busy /\ w \in WireEdits \ wires
  /\ wires' = wires \cup {w}
  /\ DelayInvalid({w[1], w[2]})
  /\ delay' = [delay EXCEPT ![w] = 0]
  /\ found' = NoLevel
  /\ UNCHANGED <<disabled, input_slew, ext_cap, slew_annotated, slew, queue, to_level>>

\* levelChangedBefore; the new level may be as good as the old.
LevelChangedBefore(v) ==
  /\ Edit /\ v \in LevelEdits
  /\ queue' = queue \ {v}
  /\ DelayInvalid({v})
  /\ UNCHANGED <<inputVars, slew>>

Init ==
  /\ wires = Wires /\ disabled = {} /\ slew_annotated = {}
  /\ input_slew = [v \in Ports |-> MaxOf(InputSlews)] /\ ext_cap = [d \in Drivers |-> 0]
  /\ slew = [v \in Vertices |-> 0] /\ delay = [e \in Edges |-> 0]
  /\ delays_exist = FALSE /\ delays_seeded = FALSE
  /\ invalid_delays = {} /\ invalid_check_edges = {} /\ invalid_latch_edges = {}
  /\ queue = {} /\ multi_drvr_net_map = [d \in Drivers |-> NoMultiDrvr]
  /\ to_level = NoLevel /\ found = NoLevel

Visit(v) == VisitRoot(v) \/ VisitDriver(v) \/ VisitLoad(v)
EditStep ==
  \/ \E v \in Ports, s \in InputSlews : SetInputSlew(v, s)
  \/ \E d \in Drivers, c \in ExtCaps : SetPortExtPinCap(d, c)
  \/ RemoveNetLoadCaps
  \/ \E v \in Vertices, s \in InputSlews : SetAnnotatedSlew(v, s)
  \/ \E v \in Vertices : UnsetAnnotatedSlew(v) \/ LevelChangedBefore(v)
  \/ \E e \in Arcs : Disable(e)
  \/ \E w \in Wires : DisconnectPin(w) \/ ConnectPin(w)
Next == \/ EditStep
        \/ \E level \in QueryLevels \cup FirstLevels : FindDelays(level)
        \/ \E v \in Vertices : Visit(v)
        \/ EndFindDelays

Spec == Init /\ [][Next]_vars

-----------------------------------------------------------------------------
(* What the delays and slews should be, by the load that each net has now. *)

LoadSlewFrom(d) == IF FaninArcs(d) = {} /\ d \notin Ports THEN 0 ELSE slew[d]
SlewCurrent(v) ==
  v \notin slew_annotated =>
    slew[v] =
      IF v \in Ports THEN input_slew[v]
      ELSE IF v \in Drivers
      THEN IF FaninArcs(v) = {} THEN NoSlew
           ELSE MaxOf({GateSlew[slew[e[1]], ConnectedCap(v)] : e \in FaninArcs(v)})
      ELSE IF IsRoot(v) THEN 0 ELSE MaxOf({LoadSlewFrom(w[1]) : w \in WiresTo(v)})
DelayCurrent(e) ==
  CASE e \in Checks -> delay[e] = CheckDelay[slew[e[1]], slew[e[2]]]
    [] e \in Enabled \cup LatchArcs -> delay[e] = GateDelay[slew[e[1]], ConnectedCap(e[2])]
    [] e \in wires -> delay[e] = IF FaninArcs(e[1]) = {} /\ e[1] \notin Ports THEN 0
                                 ELSE ConnectedCap(e[1])
    [] OTHER -> TRUE

\* Types; nothing waits to be found that belongs to an earlier calculation, and
\* a net with several drivers is found at the highest.
TypeOK ==
  /\ wires \subseteq Wires /\ disabled \subseteq Arcs /\ slew_annotated \subseteq Vertices
  /\ slew \in [Vertices -> Nat \cup {NoSlew}] /\ delay \in [Edges -> Nat]
  /\ delays_exist \in BOOLEAN /\ delays_seeded \in BOOLEAN
  /\ queue \subseteq Vertices /\ invalid_delays \subseteq Vertices
  /\ to_level \in Nat \cup {NoLevel} /\ found \in Nat \cup {NoLevel}
  /\ invalid_check_edges \subseteq Checks /\ invalid_latch_edges \subseteq LatchArcs
  /\ ~Busy => invalid_check_edges = {} /\ invalid_latch_edges = {}
  /\ ~delays_exist => invalid_delays = {}
  /\ ~delays_seeded => queue = {} /\ ~delays_exist
  /\ \A d \in Drivers : multi_drvr_net_map[d] # NoMultiDrvr =>
       /\ d \in multi_drvr_net_map[d].drvrs
       /\ Level[d] <= Level[multi_drvr_net_map[d].dcalc_drvr]

\* "Find arc delays and vertex slews thru level" (GraphDelayCalc.hh): after
\* findDelays they are right up to that level, whatever earlier queries left
\* for later, and edits came between.  A net with several drivers counts as one
\* of the level of the highest, which finds the delays of all.
FoundBy(v) == IF v \in Drivers /\ multi_drvr_net_map[v] # NoMultiDrvr
              THEN multi_drvr_net_map[v].dcalc_drvr ELSE v
FoundAt(v) == Level[FoundBy(v)]
DelayAnswer ==
  /\ \A v \in Vertices : FoundAt(v) <= found => SlewCurrent(v)
  /\ \A e \in Edges : FoundAt(e[1]) <= found /\ FoundAt(e[2]) <= found => DelayCurrent(e)

\* "Invalidate vertex and downstream delays/slews": between queries, what is out
\* of date is recorded or queued, at the vertex or where its inputs come from.
NoLostDelay ==
  ~Busy /\ delays_exist =>
    LET pending == invalid_delays \cup queue
        Sources(v) == {v, FoundBy(v)} \cup {e[1] : e \in {f \in wires \cup Arcs : f[2] = v}}
        Upstream(v) == UNION {Sources(u) : u \in Sources(v)}
    IN  /\ \A v \in Vertices : ~SlewCurrent(v) => pending \cap Upstream(v) # {}
        /\ \A e \in Edges : ~DelayCurrent(e) =>
             pending \cap (Upstream(e[1]) \cup Upstream(e[2])) # {}

-----------------------------------------------------------------------------
(* Edits and graphs for which the two invariants hold whatever the size.   *)

\* The drivers that share a load with d when every pin is connected; the one at
\* which the delays of its net are found.
Net(d) == {e \in Drivers : \E l \in Vertices : <<d, l>> \in Wires /\ <<e, l>> \in Wires}
Several(d) == \E e \in Net(d) : e # d
Top(d) == IF Several(d) THEN Highest(Net(d)) ELSE d

\* Loads that must stay driven: a visit of a root queues no check, and a pin
\* without a driver has none to invalidate when its annotation is removed.
Pinned == {e[1] : e \in Checks \cup LatchArcs} \cup {e[2] : e \in Checks} \cup (AnnotateEdits \ Drivers)

\* Nets are whole; edits reach the loads of nets with one driver only, and leave
\* a driver an arc; and what the lower drivers of a net depend on (quiet) is not
\* edited, as a visit of one of them finds nothing.
HandledEdits(quiet) ==
  /\ \A w, x, y \in Wires : w[2] = x[2] /\ y[1] = w[1] => <<x[1], y[2]>> \in Wires
  /\ \A d \in Drivers : Several(d) => d \notin Ports \cup AnnotateEdits \cup CapEdits
  /\ \A w \in WireEdits : w[2] \notin HeavyLoads /\ \A x \in Wires : x[2] = w[2] => x = w
  /\ \A l \in Pinned : \E w \in Wires \ WireEdits : w[2] = l
  /\ \A e \in LatchArcs : e[2] \notin CapEdits
  /\ \A d \in Drivers \ Ports : \E e \in Arcs \ DisableEdits : e[2] = d
  /\ \A e \in Wires \cup Arcs : e[2] \in quiet => e[1] \in quiet
  /\ \A e \in Arcs : Top(e[2]) # e[2] => e[1] \in quiet
  /\ quiet \cap (SlewEdits \cup CapEdits \cup AnnotateEdits) = {}
  /\ \A e \in WireEdits \cup DisableEdits : e[2] \notin quiet
\* The first query asks for all levels.
FirstReachesAll == \A level \in FirstLevels, v \in Vertices : Level[v] <= level

=============================================================================
