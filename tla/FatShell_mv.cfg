SPECIFICATION ShSpec
SYMMETRY Symmetry
CONSTANTS
  a = a
  b = b
  Names <- MCNames
  Paths <- RootPaths
  LastData = 4
  LastEntry = 4
  NumSlots = 2
  NumHandles = 2
  ClusterUnits = 1
  MaxUnits = 2
  MaxSize = 2
  Buffer = 2
INVARIANTS MvKeepsFile
