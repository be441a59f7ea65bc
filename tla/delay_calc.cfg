SPECIFICATION Spec
CONSTANTS
  Vertices <- MCVertices
  Level <- MCLevel
  Drivers <- MCDrivers
  Wires <- MCWires
  Arcs <- MCArcs
  LatchArcs <- MCLatchArcs
  Checks <- MCChecks
  HeavyLoads <- NoEdits
  Slews <- MCSlews
  Caps <- MCCaps
  GateDelay <- MCGateDelay
  GateSlew <- MCGateSlew
  CheckDelay <- MCCheckDelay
  SlewEdits <- MCSlewEdits
  CapEdits <- MCCapEdits
  AnnotateEdits <- MCAnnotateEdits
  WireEdits <- MCWireEdits
  DisableEdits <- MCDisableEdits
  LevelEdits = {"b"}
  InputSlews = {1, 3}
  ExtCaps = {0, 2}
  QueryLevels = {2, 5}
  FirstLevels = {5}
INVARIANTS TypeOK DelayAnswer NoLostDelay
