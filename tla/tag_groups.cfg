SPECIFICATION Spec
CONSTANTS
  v1 = v1
  v2 = v2
  v3 = v3
  t1 = t1
  t2 = t2
  plain = plain
  filter = filter
  Vertices <- MCVertices
  Level <- MCLevel
  Threads <- MCThreads
  TagValues <- MCTagValues
  FilterValues <- MCFilterValues
  Capacity = 1
  MaxTags = 2
SYMMETRY Symmetry
INVARIANTS TypeOK ReadsAreCurrent GroupsInUse TagsLive
