CONSTANTS
  Vertices <- MCVertices
  Edges <- MCEdges
  Level <- MCLevel
  Inputs <- MCInputs
  OutPorts <- MCOutPorts
  Wires <- MCWires
  AnnotEdges <- MCAnnotEdges
  Delays <- MCDelays
  InitDelay <- MCInitDelay
  EndPins <- MCEndPins
  EndReqs <- MCEndReqs
  InitEndReq <- MCInitEndReq
  InputArrival <- MCInputArrival
  Infinity <- MCInfinity
  NoPath = NoPath
  NoEdge = NoEdge
  QueryPins = {"i2", "z", "o"}
  Edits = {"delay"}
  Queries = {"slack", "tns"}
SPECIFICATION Spec
INVARIANT TnsAnswer
