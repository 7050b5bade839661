CONSTANTS
    t1 = t1
    t2 = t2
    w1 = w1
    w2 = w2
    s1 = s1
    s2 = s2
    none = none
    NoTransfer <- MCNoTransfer
    Amount <- MCAmount
    Opening = 2
    Transfer = {t1, t2}
    Worker = {w1, w2}
    Reaper = {w1, w2}
    Staff = {}
    MaxFaults = 0
    MaxRefusals = 0
SPECIFICATION ReviewSpec
INVARIANT ReversedAtMostOnce
CHECK_DEADLOCK FALSE
