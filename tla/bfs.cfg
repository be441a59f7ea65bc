CONSTANTS
  Vertices <- MCVertices
  MaxLevel = 3
  Adjacent <- MCAdjacent
  InitLevel <- MCInitLevel
  MaxThreads = 3
  MaxRemoved = 1
  Null = Null
  NoLevel = NoLevel
SPECIFICATION Spec
INVARIANTS
  TypeOK
  FlaggedOnce
PROPERTIES
  ImplementsLevelSearch
  VisitEnds
