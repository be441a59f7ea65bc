CONSTANTS
  Vertices <- FewVertices
  Edges <- FewEdges
  Level <- FewLevel
  Inputs <- MCInputs
  OutPorts <- FewOutPorts
  Wires <- FewWires
  AnnotEdges <- FewAnnotEdges
  Delays <- MCDelays
  InitDelay <- FewInitDelay
  EndPins <- FewEndPins
  EndReqs <- MCEndReqs
  InitEndReq <- FewInitEndReq
  InputArrival <- MCInputArrival
  Infinity <- MCInfinity
  NoPath = NoPath
  NoEdge = NoEdge
  QueryPins = {"z"}
  Edits = {"delay", "output_delay", "unset_output_delay", "wire", "requireds_invalid", "arrivals_invalid"}
  Queries = {"update", "slack", "tns"}
SPECIFICATION Spec
INVARIANTS
  TypeOK
  NoLostArrival
  ArrivalsCurrent
  ResultsNested
