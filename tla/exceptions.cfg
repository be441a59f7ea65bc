SPECIFICATION Spec
CONSTANTS
  Ids = {e1, e2, e3, e4, e5, e6}
  Pins = {"A", "B", "x", "y", "C", "D"}
  Clocks = {"k1", "k2"}
  Absent = "-"
  Commands <- MCCommands
  Resets <- MCResets
  RemovableClocks = {"k1"}
  Paths <- MCPaths
INVARIANTS PointersLive GoverningException
PROPERTY ImplementsTable
CHECK_DEADLOCK FALSE
SYMMETRY MCIds
