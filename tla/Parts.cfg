SPECIFICATION AllSpec
CHECK_DEADLOCK FALSE
CONSTANTS
  Others = {"zbc"}
  NRX = 3
  NTX = 3
  MaxRx = 6
  MaxTx = 6
  RxPages = 5
  MaxStored = 5
  MaxOut = 3
  Keys = {"a", "b", "caps"}
  Mapped = {"a", "b"}
  UsbBuf = 3
  MaxPress <- Presses
  MaxMoves = 2
  MaxReports = 2
  MaxErrors = 1
  Controllers = {"uhci", "ehci"}
  MaxReq = 6
  MaxFaults = 2
  TurTries = 2
  TdMax = 3
  ChunkSectors = 2
  MaxSectors = 3
  SectorPackets <- Packets
  Hosts = {"gw", "h", "k"}
  Gateway = "gw"
  Far = "far"
  ArpN = 2
  ArpTries = 2
  DnsTries = 2
  Names = {"n1", "n2"}
  Ports = {1, 2}
  MaxCalls = 2
  MaxIn = 1
  MaxDepth = 2
  Files = {"f", "g"}
  LastCluster = 5
  PerSector = 2
  MaxLen = 3
  MaxFileCalls = 6
  MaxFails = 2
  N = 3
  LineMax = 3
  UndoMax = 2
  Window = 2
  Letters = {"b"}
  Texts <- FileTexts
  MaxEdits = 3
  Slots = 2
  Cols = 5
  Rows = 5
  MinW = 3
  MinH = 2
  Kinds = {"welcome", "clock", "notes"}
  Singletons = {"notes"}
  ReadOnly = {"clock"}
  Resizable = {"notes"}
  Place <- Places
  Chips = 2
  NoteCap = 1
  MaxInputs = 6
  Statements <- AsmLines
  MaxLines = 4
  Vma = 8388608
  LabelMax = 1
  FixupMax = 1
  OutMax = 16
  Programs <- CPrograms
  Sentences <- CSentences
  MaxVars = 2
  MaxCall = 2
  Fuel = 9
  FlSectors = 2
  FlMaxCalls = 2
  SataPorts = 3
  SataSlots = 2
  SataSectors = 2
  SataChunk = 1
  SataCalls = 2
  IdeDrives = {"hda", "hdb"}
  IdeSectors = 2
  IdeCalls = 2
  RtcSeconds = 3
  RtcTicks = 2
  RtcStarts = {11, 23}
  RtcHours = {0, 9, 12, 21}
  RtcRetries = 2
  KeyChars = {"a", "b"}
  PromptMax = 2
  HistMax = 2
  HistCut = 1
  HistLines = 3
  AliasMax = 2
  AliasNames = {"l", "m"}
  AliasValues = {"x"}
INVARIANTS TypeOK HidOnce DriversTrue NetTrue DiskKeeps EditorTrue WindowsTrue ToolsTrue
PROPERTY QueuesKept
