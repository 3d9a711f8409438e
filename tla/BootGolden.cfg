SPECIFICATION Spec
CONSTANTS
    Sectors <- MCSectors
    GoldMin = 1
    AppMin = 2
    AppLimit = 3
    Word = 7
    EepromBank = 7
    Blank = "0xFF"
    MaxAttempts = 5
    Byte = 7
    CountMod = 2
    GoldSize = 1
    Sources = {"POWERON"}
    AppStates = {"invalid"}
    GoldStates = {"valid"}
PROPERTY GoldenPassRuns
