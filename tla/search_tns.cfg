CONSTANTS
  Vertices <- MCVertices
  Edges <- MCEdges
  Level <- MCLevel
  Inputs <- MCInputs
  OutPorts <- MCOutPorts
  Wires <- MCWires
  AnnotEdges <- FewAnnotEdges
  Delays <- MCDelays
  InitDelay <- MCInitDelay
  EndPins <- FewEndPins
  EndReqs <- MCEndReqs
  InitEndReq <- MCInitEndReq
  InputArrival <- MCInputArrival
  Infinity <- MCInfinity
  NoPath = NoPath
  NoEdge = NoEdge
  QueryPins = {"i2", "o"}
  Edits = {"delay", "output_delay", "arrivals_invalid"}
  Queries = {"slack", "tns"}
SPECIFICATION Spec
INVARIANTS
  TnsAnswer
PROPERTY
  QueryReturns
