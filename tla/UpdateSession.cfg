SPECIFICATION SessionSpec
CONSTANTS
    Sectors <- MCSectors
    GoldMin = 1
    AppMin = 3
    AppLimit = 8
    Word = 12
    EepromBank = 7
    A1 = A1
    A2 = A2
    Images <- MCImages
    Erased = Erased
    Garbage = Garbage
    Torn = Torn
    Requests <- MCRequests
    Blocks <- MCBlocks
    MaxBlock = 2
    SaveEvery = 2
    App <- MCApp
    BlockSize = 2
    Earlier <- MCEarlier
    NoPacket = NoPacket
    MaxFaults = 6
INVARIANTS AckedIsProgrammed GroundKnows
PROPERTY UpdateCompletes
CHECK_DEADLOCK FALSE
