SPECIFICATION Spec
CHECK_DEADLOCK FALSE
CONSTANTS
  Controllers = {"uhci"}
  MaxReq = 6
  MaxFaults = 2
  TurTries = 2
  TdMax = 4
  ChunkSectors = 2
  MaxSectors = 3
  SectorPackets <- Packets
INVARIANT SuccessIsTrue
