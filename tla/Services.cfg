SPECIFICATION Spec
CONSTANTS
    Buffers = {b1, b2, b3}
    NoBuffer = NoBuffer
    Registered <- MCRegistered
    Lines <- MCLines
    Plain = {"updater"}
    MaxPackets = 4
INVARIANTS OneOwner InterpreterAtRest RepliesRight ExhaustionHitsLongAnswers
PROPERTY PoolRecovers
CHECK_DEADLOCK FALSE
