CONSTANTS
    t1 = t1
    t2 = t2
    w1 = w1
    w2 = w2
    s1 = s1
    s2 = s2
    none = none
    NoTransfer <- MCNoTransfer
    Amount <- MCAmount
    Opening = 1
    Transfer = {t1}
    Worker = {w1}
    Reaper = {w1}
    Staff = {s1}
    MaxFaults = 1
    MaxRefusals = 1
SPECIFICATION ReviewSpec
PROPERTY HoldStopsSettlement
CHECK_DEADLOCK FALSE
