CONSTANTS
    e1 = e1
    e2 = e2
    m1 = m1
    r1 = r1
    r2 = r2
    none = none
    NoEscrow <- MCNoEscrow
    Merchant <- MCMerchant
    Amount <- MCAmount
    Fee <- MCFee
    Escrow = {e1, m1}
    Opening = 3
    Freezable <- MCFreezable
    Reaper = {r1, r2}
    DisputesLinger = TRUE
    MaxCrashes = 1
SPECIFICATION Spec
INVARIANT PaidOutAtMostOnce
CHECK_DEADLOCK FALSE
