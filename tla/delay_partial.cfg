SPECIFICATION Spec
CONSTANTS
  Vertices <- MCVertices
  Level <- MCLevel
  Drivers <- MCDrivers
  Wires <- MCSingleWires
  Arcs <- MCArcs
  LatchArcs <- MCLatchArcs
  Checks <- MCChecks
  HeavyLoads <- NoEdits
  Slews <- MCSlews
  Caps <- MCCaps
  GateDelay <- MCGateDelay
  GateSlew <- MCGateSlew
  CheckDelay <- MCCheckDelay
  SlewEdits <- NoEdits
  CapEdits <- MCDeepCapEdits
  AnnotateEdits <- NoEdits
  WireEdits <- NoEdits
  DisableEdits <- NoEdits
  LevelEdits = {}
  InputSlews = {1, 3}
  ExtCaps = {0, 2}
  QueryLevels = {2, 5}
  FirstLevels = {1, 5}
INVARIANT DelayAnswer
