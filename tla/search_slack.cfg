CONSTANTS
  Vertices <- MCVertices
  Edges <- MCEdges
  Level <- MCLevel
  Inputs <- MCInputs
  OutPorts <- MCOutPorts
  Wires <- MCWires
  AnnotEdges <- MCAnnotEdges
  Delays <- MCDelays
  InitDelay <- MCInitDelay
  EndPins <- MCEndPins
  EndReqs <- MCEndReqs
  InitEndReq <- MCInitEndReq
  InputArrival <- MCInputArrival
  Infinity <- MCInfinity
  NoPath = NoPath
  NoEdge = NoEdge
  QueryPins = {"i2", "z", "o"}
  Edits = {"delay", "output_delay"}
  Queries = {"update", "slack"}
SPECIFICATION Spec
INVARIANT SlackAnswer
