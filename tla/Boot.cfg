SPECIFICATION Spec
CONSTANTS
    Sectors <- MCSectors
    GoldMin = 1
    AppMin = 2
    AppLimit = 3
    Word = 7
    EepromBank = 7
    Blank = "0xFF"
    MaxAttempts = 2
    Byte = 7
    CountMod = 2
    GoldSize = 1
    Sources = {"POWERON", "SW", "WATCHDOG", "EXT"}
    AppStates = {"valid", "invalid", "unreadable"}
    GoldStates = {"valid", "invalid", "unreadable"}
INVARIANTS TypeOK LaunchesBounded StoredTypeAsked CountExact
PROPERTY LoaderReached
