SPECIFICATION FairSpec
CONSTANTS
  MaxConns = 2
  Stream = 6
  MaxSeg = 3
  RingSize = 4
  Window = 4
  Chunk = 2
  MaxRcv = 10
INVARIANTS TypeOK OnceInOrder NoGap Synchronized
PROPERTIES CallsReturn
CHECK_DEADLOCK FALSE
