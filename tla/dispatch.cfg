CONSTANTS
  Threads <- MCThreads
  InitThreads <- MCThreads
  Tasks <- MCTasks
  NoTask = NoTask
SPECIFICATION Spec
INVARIANTS
  TypeOK
  LatchCounts
  SomeoneAwake
PROPERTIES
  ImplementsTaskPool
  FinishTasksReturns
  SetThreadCountReturns
