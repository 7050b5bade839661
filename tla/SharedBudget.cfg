CONSTANTS
    own = own
    man = man
    spe = spe
    i1 = i1
    i2 = i2
    i3 = i3
    w1 = w1
    w2 = w2
    x1 = x1
    NoUser = NoUser
    User = {own, man, spe}
    Owner = own
    Invitation = {i1, i2, i3}
    InviteOf <- MCInviteOf
    Spend = {w1, w2, x1}
    SpendOf <- MCSpendOf
    Grant = 3
    Limit = 3
    Purse <- MCPurse
    Handler = {h1, h2}
    Patches <- MCPatches
    MaxPatches = 1
    MaxLapses = 1
    MaxCalls = 3
SPECIFICATION BudgetSpec
INVARIANT SpentOnce
INVARIANT PaidAfterClaim
INVARIANT ApprovedIsPaid
INVARIANT SpentIsWithdrawn
INVARIANT LimitSurvivesRemoval
PROPERTY StoppedPaysNobody
SYMMETRY Handlers
CHECK_DEADLOCK FALSE
