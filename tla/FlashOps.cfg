SPECIFICATION Spec
CONSTANTS
    Sectors <- MCSectors
    GoldMin = 4
    AppMin = 10
    AppLimit = 17
    Word = 32
    EepromBank = 7
    Addrs <- MainAddrs
    Sizes <- SomeSizes
    MainWidth = 3
    EeWidth = 2
    MaxCalls = 3
INVARIANTS EraseExact ProgramExact 
PROPERTY CallsReturn
\* Behaviours end after MaxCalls calls.
CHECK_DEADLOCK FALSE
