SPECIFICATION Spec
CONSTANTS
    Tasks = {t1, t2}
    Nobody = Nobody
    Size = 2
    Failures = {"nack", "ardy", "al"}
    MaxCalls = 3
INVARIANTS TypeOK ResultTrue QuietBetweenCalls
PROPERTY MutexComesFree
CHECK_DEADLOCK FALSE
