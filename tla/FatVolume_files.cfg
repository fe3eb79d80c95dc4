SPECIFICATION Spec
SYMMETRY Symmetry
CONSTANTS
  a = a
  b = b
  Names <- MCNames
  Paths <- FilePaths
  LastData = 4
  LastEntry = 5
  NumSlots = 2
  NumHandles = 2
  ClusterUnits = 1
  MaxUnits = 2
  MaxSize = 3
INVARIANTS TypeOK NoCrossLinks TablesOK SizeBacked
PROPERTIES OtherFilesKept
