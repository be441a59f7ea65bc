CONSTANTS
  e1 = e1
  e2 = e2
  e3 = e3
  e4 = e4
  Endpoints <- SymEndpoints
  Slacks <- MCSlacks
  Infinity <- MCInfinity
  MinQueueSize = 1
  InitMaxQueueSize = 2
  NoVertex = NoVertex
SYMMETRY EndpointSymmetry
SPECIFICATION WSSpec
INVARIANTS
  WSTypeOK
  QueueComplete
  WorstInQueue
  WorstSlackAnswer
