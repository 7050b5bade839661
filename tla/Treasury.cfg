CONSTANTS
    ada = ada
    ben = ben
    fay = fay
    t1 = t1
    t2 = t2
    t3 = t3
    g1 = g1
    g2 = g2
    NoOne = NoOne
    NoJob = NoJob
    User = {ada, ben, fay}
    Super = {}
    Contact = {}
    Verified = {}
    InitRole <- MCInitRole
    Founder = ada
    InitRoster = {ada, ben, fay}
    Assignable = {}
    MaxRequests = 1
    Withdrawal = {t1, t2, t3}
    Requester = {fay}
    Wallet = {w1}
    GoalOf <- MCGoalOf
    Amount <- MCAmount
    InitGoal <- MCInitGoal
    TxLimit = 4
    DailyLimit = 5
    Worker = {p1, p2}
    MaxCrashes = 1
    MaxBlocks = 1
SPECIFICATION FairTreasurySpec
INVARIANT QuorumBeforeMoney
INVARIANT WithdrawnOnce
INVARIANT WithinDailyLimit
PROPERTY ApprovedGetsPaid
CHECK_DEADLOCK FALSE
