SPECIFICATION Spec
CONSTANTS
    NRaw = 2
    NSlots = 3
    NViews = 3
    NLetters = 3
    MaxOps = 3
    DiskUnits <- MCDiskUnits
    Media <- MCMedia
    Tables <- MCTables
    Spans <- MCSpans
INVARIANTS TypeOK OneActive InstallHonest
PROPERTIES AutoPartFree InstallEnds
CHECK_DEADLOCK FALSE
