CONSTANTS
  Vertices <- MCVertices
  Wires <- MCWires
  Arcs <- MCArcs
  Cells <- MCCells
  LevelSpace = 2
  MaxLevel = 6
SPECIFICATION Spec
INVARIANTS
  TypeOK
  LevelsOrdered
  DisabledInLoop
  UndrivenAreRoots
PROPERTY LevelizeEnds
