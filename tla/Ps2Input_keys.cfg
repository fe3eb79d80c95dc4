SPECIFICATION FairSpec
CONSTANTS
  Machines = {"prompt", "polled"}
  MaxKeys = 3
  MaxPackets = 2
  BufSize = 3
INVARIANTS TypeOK KeysInOrder PacketsWhole
PROPERTIES NoKeyLost NothingOverwritten InputRead
