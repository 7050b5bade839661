CONSTANTS
    ada = ada
    ben = ben
    sig = sig
    fay = fay
    mia = mia
    NoOne = NoOne
    User = {ada, ben, sig, fay, mia}
    Super = {sup, ben}
    Contact = {c1, c2}
    Verified = {c1, c2}
    InitRole <- MCInitRole
    Founder = ada
    InitRoster = {ada, ben, fay}
    Assignable = {"MEMBER"}
    MaxRequests = 3
SPECIFICATION Spec
INVARIANT PrimaryIsAdmin
INVARIANT FourEyes
PROPERTY HeldReturnsAsMember
CHECK_DEADLOCK FALSE
