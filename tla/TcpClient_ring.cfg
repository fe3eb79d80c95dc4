SPECIFICATION Spec
CONSTANTS
  MaxConns = 2
  Stream = 4
  MaxSeg = 2
  RingSize = 3
  Window = 3
  Chunk = 1
  MaxRcv = 7
INVARIANTS RingKeepsAll
CHECK_DEADLOCK FALSE
