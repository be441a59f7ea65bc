CONSTANTS
  Vertices <- NestedVertices
  Wires <- NestedWires
  Arcs <- NestedArcs
  Cells <- NestedCells
  LevelSpace = 2
  MaxLevel = 6
SPECIFICATION Spec
INVARIANT LevelsOrdered
