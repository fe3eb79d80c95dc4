SPECIFICATION Spec
CONSTANTS
  Machines = {"late"}
  MaxKeys = 1
  MaxPackets = 1
  BufSize = 3
INVARIANTS NoMouseAsKey
