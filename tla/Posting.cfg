CONSTANTS
    pay = pay
    again = again
    append = append
    append2 = append2
    transition = transition
    Entity <- MCEntity
    Legs <- MCLegs
    Header <- MCHeader
    Key <- MCKey
    Kind <- MCKind
    Opening <- MCOpening
    Posting = {pay, again, append, append2, transition}
    Freezable = {2}
    MaxFreezes = 1
    MaxCancels = 1
SPECIFICATION Spec
INVARIANT TypeOK
INVARIANT BalanceMatchesLedger
INVARIANT NoDeadlock
PROPERTY ImplementsAtomicPosting
CHECK_DEADLOCK FALSE
