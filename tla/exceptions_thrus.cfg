SPECIFICATION Spec
CONSTANTS
  Ids = {e1, e2, e3, e4, e5, e6}
  Pins = {"A", "B", "x", "y", "C", "D"}
  Clocks = {"k1", "k2"}
  Absent = "-"
  Commands <- ThruCommands
  Resets = {}
  RemovableClocks = {}
  Paths <- MCPaths
PROPERTY ImplementsTable
CHECK_DEADLOCK FALSE
SYMMETRY MCIds
