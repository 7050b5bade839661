CONSTANTS
    Quote = {q1, q2}
    Key = {k1, k2}
    NoKey = NoKey
    Call = {c1, c2, c3}
    MaxCrashes = 1
SPECIFICATION PaymentSpec
INVARIANT PostingsAccounted
INVARIANT QuotePaysUnderItsKey
INVARIANT SettledIsPaid
SYMMETRY Alike
CHECK_DEADLOCK FALSE
