SPECIFICATION Spec
CONSTANTS
    Sectors <- MCSectors
    GoldMin = 1
    AppMin = 3
    AppLimit = 6
    Word = 12
    EepromBank = 7
    G = G
    A1 = A1
    A2 = A2
    Images <- MCImages
    Erased = Erased
    Garbage = Garbage
    Torn = Torn
    Requests <- AnyRequests
    Blocks <- AnyBlocks
    BlockSizes = {1, 2}
    MaxBlock = 2
    SaveEvery = 2
INVARIANTS TypeOK ProgressLag FlashMatchesProgress 
PROPERTY TransferSpec
