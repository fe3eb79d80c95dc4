SPECIFICATION LiveShSpec
CONSTANTS
  a = a
  b = b
  Names <- MCNames
  Paths <- ShellPaths
  LastData = 3
  LastEntry = 4
  NumSlots = 2
  NumHandles = 2
  ClusterUnits = 2
  MaxUnits = 2
  MaxSize = 3
  Buffer = 2
INVARIANTS CmdOK PromptClosed CopyComplete SaveFits
PROPERTIES Spec CommandsEnd
