SPECIFICATION Spec
CONSTANTS
    Periodic = {wdt}
    Delayers = {t2}
    Takers = {t1, t2}
    Nobody = Nobody
    Wrap = 5
    Period = 2
    Delays = {3}
    Waits = {0, 2, 4}
    MaxLag = 2
    MaxTime = 11
INVARIANTS TypeOK TicksKept DelayedEmptyAtWrap NotLate NotEarly
PROPERTY GivenIsTaken
CHECK_DEADLOCK FALSE
