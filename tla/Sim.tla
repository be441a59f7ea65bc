--------------------------------- MODULE Sim ---------------------------------
(***************************************************************************)
(* Constant propagation (search/Sim.cc), with the network edits of         *)
(* search/Sta.cc that invalidate it.                                       *)
(*                                                                         *)
(* ensureConstantsPropagated finds the three valued logic value of every   *)
(* pin, from scratch or from the instances, loads and drivers that edits   *)
(* recorded, by evaluating instances from a queue until it is empty.       *)
(* Then it derives which timing edges of the instances whose pins changed  *)
(* are cut by constants.                                                   *)
(*                                                                         *)
(* A pin is a pair <<instance, port>>; the top level ports are the outputs *)
(* of an instance without functions.  A function of input ports is the set *)
(* of the sets of ports that make it one.  set_case_analysis and           *)
(* set_logic_zero/one are one map of constrained pins.  A net has at most  *)
(* one driver.  Tristate and clock gate outputs, modes, hierarchical pins  *)
(* and the rising and falling case values are left out.                    *)
(***************************************************************************)
EXTENDS Integers, Sequences, FiniteSets, SequencesExt, FiniteSetsExt

CONSTANTS
  Instances,
  InitialInstances,  \* those that exist at first; edits make the others
  Cells,          \* records of ins, outs (sets of ports), func, data (functions
                  \* of combinational outputs and of registers), arcs
  Alternatives,   \* cells an instance may have: [Instances -> SUBSET Cells]
  InitialCell,    \* [Instances -> Cells]
  Nets, Supply,   \* the nets, and their value: "unknown" but for power and ground
  InitialNet,     \* [Pins -> Nets \cup {NoNet}]
  EditNets,       \* nets that edits connect a pin to: [Pins -> SUBSET Nets]
  CasePins,       \* pins that constraints give values to
  NoNet

Values == {"zero", "one", "unknown"}
Known(v) == v # "unknown"

Inputs == UNION {{i} \X InitialCell[i].ins : i \in Instances}
Outputs == UNION {{i} \X InitialCell[i].outs : i \in Instances}
Pins == Inputs \cup Outputs
Edges == UNION {{i} \X UNION {c.arcs : c \in Alternatives[i]} : i \in Instances}

ASSUME SimAssumption ==
  /\ IsFiniteSet(Instances) /\ InitialInstances \subseteq Instances
  /\ InitialCell \in [Instances -> Cells]
  /\ \A i \in Instances :
       /\ InitialCell[i] \in Alternatives[i] /\ Alternatives[i] \subseteq Cells
       /\ \A c \in Alternatives[i] : /\ c.ins = InitialCell[i].ins
                                     /\ c.outs = InitialCell[i].outs
  /\ \A c \in Cells :
       /\ IsFiniteSet(c.ins) /\ IsFiniteSet(c.outs) /\ c.ins \cap c.outs = {}
       /\ DOMAIN c.func \cup DOMAIN c.data \subseteq c.outs /\ DOMAIN c.func \cap DOMAIN c.data = {}
       /\ \A z \in DOMAIN c.func : c.func[z] \subseteq SUBSET c.ins
       /\ \A z \in DOMAIN c.data : c.data[z] \subseteq SUBSET c.ins
       /\ \A a \in c.arcs : a.from \in c.ins /\ a.to \in c.outs
  /\ Supply \in [Nets -> Values]
  /\ InitialNet \in [Pins -> Nets \cup {NoNet}] /\ NoNet \notin Nets
  /\ \A p \in Pins : p[1] \notin InitialInstances => InitialNet[p] = NoNet
  /\ \A p \in Outputs : InitialNet[p] # NoNet =>
       /\ ~Known(Supply[InitialNet[p]])
       /\ \A q \in Outputs : InitialNet[q] = InitialNet[p] => q = p
  /\ CasePins \subseteq Pins

VARIABLES
  instances,              \* instances that exist
  cell,                   \* of each instance
  net,                    \* of each pin
  case_value,             \* Sdc: of each pin, "unknown" without a constraint
  sim_value,              \* sim_value_map_
  timing_sense,           \* edge_timing_sense_map_
  disabled_cond,          \* edge_disabled_cond_set_
  valid, incremental,
  const_func_pins, const_func_pins_valid,
  invalid_insts, invalid_drvr_pins, invalid_load_pins,
  eval_queue, instances_to_annotate,
  pc                      \* "idle", "propagate", or "logic" between
                          \* findLogicConstants and clearLogicConstants

netVars == <<instances, cell, net>>
edgeVars == <<timing_sense, disabled_cond>>
validVars == <<valid, incremental>>
funcVars == <<const_func_pins, const_func_pins_valid>>
invalidVars == <<invalid_insts, invalid_drvr_pins, invalid_load_pins>>
evalVars == <<eval_queue, instances_to_annotate>>
vars == <<netVars, case_value, sim_value, edgeVars, validVars, funcVars,
          invalidVars, evalVars, pc>>

-----------------------------------------------------------------------------
(* The network.                                                            *)

PinsOf(i) == {p \in Pins : p[1] = i}
Loads(n) == {p \in Inputs : net[p] = n}
Drivers(n) == {p \in Outputs : net[p] = n}

-----------------------------------------------------------------------------
(* Functions of an instance's ports, with the values of its pins put in.   *)

\* Sim::evalExpr: one or zero if the ports without a value cannot change it.
EvalExpr(f, i, value) ==
  LET ones == {x \in cell[i].ins : value[<<i, x>>] = "one"}
      free == {x \in cell[i].ins : value[<<i, x>>] = "unknown"}
      outcomes == {((ones \cup s) \in f) : s \in SUBSET free}
  IN  IF outcomes = {TRUE} THEN "one"
      ELSE IF outcomes = {FALSE} THEN "zero" ELSE "unknown"

\* Sim::functionSense.
HasPort(f, i, x) == \E s \in SUBSET (cell[i].ins \ {x}) : (s \in f) # (s \cup {x} \in f)
FunctionSense(f, i, x, value) ==
  LET ones == {y \in cell[i].ins : value[<<i, y>>] = "one"}
      free == {y \in cell[i].ins \ {x} : value[<<i, y>>] = "unknown"}
      increasing == \A s \in SUBSET free : ones \cup s \in f => ones \cup s \cup {x} \in f
      decreasing == \A s \in SUBSET free : ones \cup s \cup {x} \in f => ones \cup s \in f
  IN  CASE Known(value[<<i, x>>]) -> "none"
        [] ~HasPort(f, i, x) -> "unknown"
        [] increasing /\ decreasing -> "none"
        [] increasing /\ ~decreasing -> "positive_unate"
        [] decreasing /\ ~increasing -> "negative_unate"
        [] OTHER -> "non_unate"

\* Sim::findDisabledEdges for one edge: its sense, and whether its condition
\* is zero or, if it has none, that of an edge between the same pins is one.
EdgeSense(e, value) ==
  LET i == e[1] a == e[2]
  IN  IF a.to \in DOMAIN cell[i].func THEN FunctionSense(cell[i].func[a.to], i, a.from, value)
      ELSE IF Known(value[<<i, a.from>>]) THEN "none" ELSE "unknown"
IsDisabledCond(e, value) ==
  LET i == e[1] a == e[2]
  IN  /\ EdgeSense(e, value) # "none"
      /\ IF a.when # {} THEN \A f \in a.when : EvalExpr(f, i, value) = "zero"
         ELSE \E b \in cell[i].arcs :
                /\ b.from = a.from /\ b.to = a.to
                /\ \E f \in b.when : EvalExpr(f, i, value) = "one"

EdgesOf(i) == {i} \X cell[i].arcs

\* The value of an output that evalInstance finds.  Only findLogicConstants
\* goes through registers.
EvalOutput(p, thru_sequentials, value) ==
  LET c == cell[p[1]]
  IN  CASE p[2] \in DOMAIN c.func -> EvalExpr(c.func[p[2]], p[1], value)
        [] thru_sequentials /\ p[2] \in DOMAIN c.data -> EvalExpr(c.data[p[2]], p[1], value)
        [] OTHER -> "unknown"

\* Sim::recordConstPinFunc: outputs of tie high and tie low cells.
HasConstFunc(p) ==
  LET c == cell[p[1]]
  IN  p[2] \in DOMAIN c.func /\ c.func[p[2]] \in {{}, SUBSET c.ins}
ConstFuncValue(p) == IF cell[p[1]].func[p[2]] = {} THEN "zero" ELSE "one"
ConstFuncPins(S) == {p \in S \cap Outputs : p[1] \in instances /\ HasConstFunc(p)}

Init ==
  /\ instances = InitialInstances
  /\ cell = InitialCell /\ net = InitialNet
  /\ case_value = [p \in Pins |-> "unknown"]
  /\ sim_value = [p \in Pins |-> "unknown"]
  /\ timing_sense = [e \in Edges |-> "unknown"] /\ disabled_cond = {}
  /\ valid = FALSE /\ incremental = FALSE
  /\ const_func_pins = {} /\ const_func_pins_valid = FALSE
  /\ invalid_insts = {} /\ invalid_drvr_pins = {} /\ invalid_load_pins = {}
  /\ eval_queue = <<>> /\ instances_to_annotate = {}
  /\ pc = "idle"

-----------------------------------------------------------------------------
(* Values on their way: the map, the queue and the instances to annotate.  *)

\* Sim::setPinValue of a load.  A value other than the constraint's is dropped;
\* a changed value queues the instance, unless it was queued last.
Variant_Overruled(p, v) == FALSE
Overruled(p, v) == Known(case_value[p]) /\ v # case_value[p]
SetLoadValue(s, p, v) ==
  IF Overruled(p, v) \/ v = s.value[p] THEN s
  ELSE [value |-> [s.value EXCEPT ![p] = v],
        queue |-> IF s.queue # <<>> /\ Last(s.queue) = p[1] THEN s.queue
                  ELSE Append(s.queue, p[1]),
        annotate |-> s.annotate \cup {p[1]}]

\* A driver hands a value to the loads of its net.
HandToLoads(s, d, v) ==
  FoldSet(LAMBDA load, t : SetLoadValue(t, load, v), s,
          IF net[d] = NoNet THEN {} ELSE Loads(net[d]))

\* Sim::setPinValue of any pin.
SetPinValue(s, p, v) ==
  IF p \in Inputs THEN SetLoadValue(s, p, v)
  ELSE IF Overruled(p, v) \/ v = s.value[p] THEN s
  ELSE HandToLoads([s EXCEPT !.value[p] = v, !.annotate = @ \cup {p[1]}], p, v)

\* Sim::enqueueConstantPinInputs, setConstraintConstPins and setConstFuncPins:
\* supply nets, constraints, and the outputs of tie cells.
Supplied == {p \in Inputs : net[p] # NoNet /\ Known(Supply[net[p]])}
Constrained == {p \in CasePins : Known(case_value[p])}
SetSupplied(s) == FoldSet(LAMBDA p, t : SetPinValue(t, p, Supply[net[p]]), s, Supplied)
SetConstrained(s) == FoldSet(LAMBDA p, t : SetPinValue(t, p, case_value[p]), s, Constrained)
SetConstFuncPins(s, func_pins) ==
  FoldSet(LAMBDA p, t : SetPinValue(t, p, ConstFuncValue(p)), s, func_pins)

\* Sim::clearSimValues and seedConstants.
Cleared == [value |-> [p \in Pins |-> "unknown"], queue |-> <<>>, annotate |-> {}]
SeedConstants(func_pins) ==
  SetConstFuncPins(SetConstrained(SetSupplied(Cleared)), func_pins)

\* Sim::propagateToInvalidLoads.
PropagateToLoad(p, s) ==
  IF net[p] = NoNet THEN s
  ELSE IF Known(Supply[net[p]]) THEN SetPinValue(s, p, Supply[net[p]])
  ELSE IF Drivers(net[p]) = {} THEN s
  ELSE SetPinValue(s, p, s.value[CHOOSE d \in Drivers(net[p]) : TRUE])
PropagateToInvalidLoads(s) == FoldSet(PropagateToLoad, s, invalid_load_pins)

\* Sim::propagateFromInvalidDrvrsToLoads.
PropagateFromDriver(func_pins, d, s) ==
  HandToLoads(s, d, IF d \in func_pins THEN ConstFuncValue(d) ELSE s.value[d])

PropagateFromInvalidDrvrs(func_pins, s) ==
  FoldSet(LAMBDA d, t : PropagateFromDriver(func_pins, d, t), s, invalid_drvr_pins)

\* Sim::seedInvalidConstants and the two above.
SeedInvalid(func_pins) ==
  PropagateFromInvalidDrvrs(func_pins,
    PropagateToInvalidLoads([value |-> sim_value, queue |-> SetToSeq(invalid_insts),
                             annotate |-> {}]))

Evaluate(s, i, thru_sequentials) ==
  FoldSet(LAMBDA p, t : SetPinValue(t, p, EvalOutput(p, thru_sequentials, t.value)),
          s, PinsOf(i) \cap Outputs)

-----------------------------------------------------------------------------
(* Sim::ensureConstantsPropagated.                                         *)

EnsureConstantFuncPins ==
  const_func_pins' = IF const_func_pins_valid THEN const_func_pins ELSE ConstFuncPins(Pins)

Seed(s) ==
  /\ sim_value' = s.value
  /\ eval_queue' = s.queue
  /\ instances_to_annotate' = s.annotate

EnsureFromScratch ==
  /\ pc = "idle" /\ ~valid /\ ~incremental
  /\ EnsureConstantFuncPins /\ const_func_pins_valid' = TRUE
  /\ Seed(SeedConstants(const_func_pins'))
  /\ timing_sense' = [e \in Edges |-> "unknown"] /\ disabled_cond' = {}
  /\ invalid_insts' = {}
  /\ pc' = "propagate"
  /\ UNCHANGED <<netVars, case_value, validVars, invalid_drvr_pins, invalid_load_pins>>

EnsureIncremental ==
  /\ pc = "idle" /\ ~valid /\ incremental
  /\ EnsureConstantFuncPins /\ const_func_pins_valid' = TRUE
  /\ Seed(SeedInvalid(const_func_pins'))
  /\ invalid_insts' = {} /\ invalid_load_pins' = {} /\ invalid_drvr_pins' = {}
  /\ pc' = "propagate"
  /\ UNCHANGED <<netVars, case_value, edgeVars, validVars>>

\* Sim::propagateConstants: one instance from the queue.
Variant_Popped == eval_queue
Popped == Tail(eval_queue)
EvalInstance ==
  /\ eval_queue # <<>>
  /\ Seed(Evaluate([value |-> sim_value, queue |-> Popped, annotate |-> instances_to_annotate],
                   Head(eval_queue), pc = "logic"))
  /\ UNCHANGED <<netVars, case_value, edgeVars, validVars, funcVars, invalidVars, pc>>

\* Sim::findDisabledEdges, and the end.
FindDisabledEdges ==
  LET annotated == UNION {EdgesOf(i) : i \in instances_to_annotate}
  IN  /\ pc = "propagate" /\ eval_queue = <<>>
      /\ timing_sense' = [e \in Edges |-> IF e \in annotated THEN EdgeSense(e, sim_value)
                                          ELSE timing_sense[e]]
      /\ disabled_cond' = (disabled_cond \ annotated)
                            \cup {e \in annotated : IsDisabledCond(e, sim_value)}
      /\ instances_to_annotate' = {}
      /\ valid' = TRUE /\ incremental' = TRUE
      /\ pc' = "idle"
      /\ UNCHANGED <<netVars, case_value, sim_value, funcVars, invalidVars, eval_queue>>

-----------------------------------------------------------------------------
(* Sim::findLogicConstants, whose answer is there when the queue is empty, *)
(* and Sta::clearLogicConstants.  No timing is asked for between them.     *)

Clear ==
  /\ incremental' = FALSE
  /\ timing_sense' = [e \in Edges |-> "unknown"] /\ disabled_cond' = {}
  /\ invalid_insts' = {} /\ invalid_drvr_pins' = {} /\ invalid_load_pins' = {}

FindLogicConstants ==
  /\ pc = "idle"
  /\ Clear
  /\ const_func_pins' = ConstFuncPins(Pins) /\ const_func_pins_valid' = TRUE
  /\ Seed(SetSupplied(SetConstFuncPins(Cleared, ConstFuncPins(Pins))))
  /\ valid' = TRUE
  /\ pc' = "logic"
  /\ UNCHANGED <<netVars, case_value>>

ClearLogicConstants ==
  /\ pc = "logic" /\ eval_queue = <<>>
  /\ Clear
  /\ const_func_pins' = {} /\ const_func_pins_valid' = FALSE
  /\ sim_value' = [p \in Pins |-> "unknown"] /\ instances_to_annotate' = {}
  /\ valid' = FALSE
  /\ pc' = "idle"
  /\ UNCHANGED <<netVars, case_value, eval_queue>>

-----------------------------------------------------------------------------
(* Edits.                                                                  *)

Edit == pc = "idle" /\ UNCHANGED <<evalVars, const_func_pins_valid, pc>>

\* Sta::setCaseAnalysis, removeCaseAnalysis and setLogicValue, with
\* Sim::constantsInvalid.
SetCaseAnalysis(p, v) ==
  /\ Edit
  /\ p \in CasePins /\ p[1] \in instances /\ case_value[p] # v
  /\ case_value' = [case_value EXCEPT ![p] = v]
  /\ valid' = FALSE /\ incremental' = FALSE
  /\ UNCHANGED <<netVars, sim_value, edgeVars, const_func_pins, invalidVars>>

\* Sim::connectPinAfter.
Variant_InvalidLoads(p) == {}
InvalidLoads(p) == IF p \in Inputs THEN {p} ELSE {}
ConnectPin(p, n) ==
  /\ Edit
  /\ p[1] \in instances /\ net[p] = NoNet /\ n \in EditNets[p]
  /\ p \in Outputs => Drivers(n) = {} /\ ~Known(Supply[n])
  /\ net' = [net EXCEPT ![p] = n]
  /\ IF incremental
     THEN /\ const_func_pins' = const_func_pins \cup ConstFuncPins({p})
          /\ invalid_load_pins' = invalid_load_pins \cup InvalidLoads(p)
          /\ invalid_drvr_pins' = invalid_drvr_pins \cup ({p} \cap Outputs)
          /\ valid' = FALSE
     ELSE UNCHANGED <<const_func_pins, invalid_load_pins, invalid_drvr_pins, valid>>
  /\ UNCHANGED <<instances, cell, case_value, sim_value, edgeVars, incremental, invalid_insts>>

\* Sim::disconnectPinBefore and removePropagatedValue.
DisconnectPin(p) ==
  /\ Edit
  /\ p[1] \in instances /\ net[p] # NoNet /\ EditNets[p] # {}
  /\ net' = [net EXCEPT ![p] = NoNet]
  /\ IF incremental /\ p \in Inputs
     THEN /\ invalid_load_pins' = invalid_load_pins \cup {p}
          /\ invalid_insts' = invalid_insts \cup {p[1]}
          /\ sim_value' = [sim_value EXCEPT ![p] = IF Known(case_value[p]) THEN @ ELSE "unknown"]
          /\ valid' = FALSE
     ELSE UNCHANGED <<invalid_load_pins, invalid_insts, sim_value, valid>>
  /\ invalid_drvr_pins' = IF incremental THEN invalid_drvr_pins \cup ({p} \cap Outputs)
                          ELSE invalid_drvr_pins
  /\ UNCHANGED <<instances, cell, case_value, edgeVars, incremental, const_func_pins>>

\* Sta::replaceCellBefore deletes the instance's edges, replaceCellAfter makes
\* those of the new cell and calls Sim::pinSetFuncAfter for its pins.
ReplaceCell(i, c) ==
  /\ Edit
  /\ i \in instances /\ c \in Alternatives[i] \ {cell[i]}
  /\ cell' = [cell EXCEPT ![i] = c]
  /\ timing_sense' = [e \in Edges |-> IF e[1] = i THEN "unknown" ELSE timing_sense[e]]
  /\ disabled_cond' = {e \in disabled_cond : e[1] # i}
  /\ valid' = (valid /\ ~incremental)
  /\ const_func_pins' = {p \in const_func_pins : p[1] # i}
                          \cup {p \in PinsOf(i) \cap Outputs : HasConstFunc(p)'}
  /\ UNCHANGED <<instances, net, case_value, sim_value, incremental, invalidVars>>

\* Sta::makeInstance, of which Sim is not told.
MakeInstance(i) ==
  /\ Edit
  /\ i \in Instances \ instances
  /\ instances' = instances \cup {i}
  /\ UNCHANGED <<cell, net, case_value, sim_value, edgeVars, validVars, const_func_pins,
                 invalidVars>>

\* Sta::deleteInstance of an instance without constraints: Sim::deletePinBefore
\* records the instance for each pin, then deleteInstanceBefore forgets it.
Variant_InvalidAfterDelete(i) == invalid_insts \cup {i}
InvalidAfterDelete(i) == (invalid_insts \cup {i}) \ {i}
DeleteInstance(i) ==
  LET pins == PinsOf(i)
  IN  /\ Edit
      /\ i \in instances
      /\ \A p \in pins : EditNets[p] # {} /\ ~Known(case_value[p])
      /\ instances' = instances \ {i}
      /\ net' = [p \in Pins |-> IF p \in pins THEN NoNet ELSE net[p]]
      /\ sim_value' = [p \in Pins |-> IF p \in pins THEN "unknown" ELSE sim_value[p]]
      /\ timing_sense' = [e \in Edges |-> IF e[1] = i THEN "unknown" ELSE timing_sense[e]]
      /\ disabled_cond' = {e \in disabled_cond : e[1] # i}
      /\ const_func_pins' = const_func_pins \ pins
      /\ invalid_load_pins' = invalid_load_pins \ pins
      /\ invalid_drvr_pins' = invalid_drvr_pins \ pins
      /\ invalid_insts' = InvalidAfterDelete(i)
      /\ UNCHANGED <<cell, case_value, validVars>>

-----------------------------------------------------------------------------
EditStep ==
  \/ \E p \in Pins, n \in Nets : ConnectPin(p, n)
  \/ \E p \in Pins : DisconnectPin(p)
  \/ \E p \in CasePins, v \in Values : SetCaseAnalysis(p, v)
  \/ \E i \in Instances : \/ MakeInstance(i) \/ DeleteInstance(i)
                          \/ \E c \in Cells : ReplaceCell(i, c)

Propagate == EvalInstance \/ FindDisabledEdges

Next == \/ EditStep \/ EnsureFromScratch \/ EnsureIncremental \/ Propagate
        \/ FindLogicConstants \/ ClearLogicConstants

\* Propagation runs in the calling thread: once begun it keeps stepping.
Spec == Init /\ [][Next]_vars /\ WF_vars(Propagate)

-----------------------------------------------------------------------------
(* Properties.                                                             *)

\* The value that a pin should have by its instance's function, the supply, or
\* the driver of its net.  The loads of a net that lost its driver keep theirs.
ValueFrom(p) ==
  CASE p \in Outputs -> EvalOutput(p, pc = "logic", sim_value)
    [] p \in Inputs /\ net[p] = NoNet -> "unknown"
    [] p \in Inputs /\ net[p] # NoNet /\ Known(Supply[net[p]]) -> Supply[net[p]]
    [] OTHER -> IF Drivers(net[p]) = {} THEN sim_value[p]
                ELSE sim_value[CHOOSE d \in Drivers(net[p]) : TRUE]
Unconstrained == {p \in Pins : p[1] \in instances /\ ~Known(case_value[p])}

\* The types; and no record of an instance or a pin that was deleted: the next
\* propagation would follow it.
TypeOK ==
  /\ instances \subseteq Instances
  /\ cell \in [Instances -> Cells] /\ net \in [Pins -> Nets \cup {NoNet}]
  /\ case_value \in [Pins -> Values] /\ sim_value \in [Pins -> Values]
  /\ timing_sense \in [Edges -> {"unknown", "none", "positive_unate",
                                 "negative_unate", "non_unate"}]
  /\ disabled_cond \subseteq Edges
  /\ valid \in BOOLEAN /\ incremental \in BOOLEAN /\ const_func_pins_valid \in BOOLEAN
  /\ pc \in {"idle", "propagate", "logic"}
  /\ eval_queue \in Seq(instances) /\ (pc = "idle" => eval_queue = <<>>)
  /\ invalid_insts \subseteq instances
  /\ {p[1] : p \in invalid_drvr_pins \cup invalid_load_pins \cup const_func_pins}
       \subseteq instances

\* When propagation is done every value agrees with the pins that determine it
\* and every constraint is in force, whatever was connected, disconnected, made,
\* deleted or constrained since the last one (ensureConstantsPropagated).
ValuesCurrent ==
  ((pc = "idle" /\ valid) \/ (pc = "logic" /\ eval_queue = <<>>)) =>
    /\ \A p \in Unconstrained : sim_value[p] = ValueFrom(p)
    /\ pc = "idle" => \A p \in CasePins :
                        Known(case_value[p]) => sim_value[p] = case_value[p]

\* Between propagations a value that an edit made wrong is recorded where the
\* incremental propagation starts: by its instance, itself or its driver.
NoLostChange ==
  pc = "idle" /\ incremental =>
    \A p \in Unconstrained : sim_value[p] # ValueFrom(p) =>
      /\ ~valid
      /\ IF p \in Outputs THEN p[1] \in invalid_insts
         ELSE p \in invalid_load_pins \/ Drivers(net[p]) \cap invalid_drvr_pins # {}

\* What a constant cuts follows from the values that the pins have now
\* (findDisabledEdges).  Taking a constant off a pin breaks it.
EdgesCurrent ==
  pc = "idle" /\ valid =>
    \A i \in instances : \A e \in EdgesOf(i) :
      (timing_sense[e] = "none") <=> (EdgeSense(e, sim_value) = "none")

\* Propagation ends, also around loops of gates that do not invert.
PropagationEnds == (pc = "propagate" ~> pc = "idle") /\ (pc = "logic" ~> eval_queue = <<>>)
=============================================================================
