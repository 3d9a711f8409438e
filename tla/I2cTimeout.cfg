SPECIFICATION Spec
CONSTANTS
    Tasks = {t1, t2}
    Nobody = Nobody
    Size = 2
    Failures = {}
    MaxCalls = 2
INVARIANT ZeroMeansDone
CHECK_DEADLOCK FALSE
