CONSTANTS
    t1 = t1
    t2 = t2
    t3 = t3
    w1 = w1
    w2 = w2
    none = none
    Transfer <- MCTransfer
    NoTransfer <- MCNoTransfer
    Amount <- MCAmount
    Opening = 3
    Worker <- MCWorker
    MaxFaults = 2
    MaxRefusals = 2
SPECIFICATION FairSpec
INVARIANT ReleasedAtMostOnce
INVARIANT CompletedMeansDelivered
INVARIANT VaultCoversHeld
PROPERTY OwnerDecides
PROPERTY ImplementsInternalTransfer
CHECK_DEADLOCK FALSE
PROPERTY SettlementEnds
