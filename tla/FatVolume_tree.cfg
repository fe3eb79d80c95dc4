SPECIFICATION Spec
SYMMETRY Symmetry
CONSTANTS
  a = a
  b = b
  Names <- MCNames
  Paths <- DeepPaths
  LastData = 3
  LastEntry = 3
  NumSlots = 1
  NumHandles = 1
  ClusterUnits = 1
  MaxUnits = 1
  MaxSize = 1
INVARIANTS NoCrossLinks DotDotOK HandleCoherent
PROPERTIES LeaksOnlyOnFailedMkdir
