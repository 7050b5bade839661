CONSTANTS
    own = own
    man = man
    adm = adm
    con = con
    i1 = i1
    i2 = i2
    NoUser = NoUser
    User = {own, man, adm, con}
    Creator = own
    AccessModel = "ORG"
    OrgRole <- MCOrgRole
    Archiver = {adm}
    Invitation = {i1, i2}
    InviteOf <- MCInviteOf
    Purse <- MCPurse
    Handler = {h1, h2}
    Payer = {con}
    Taker = {own, con}
    Asker = {own}
    Patches <- MCPatches
    MaxPatches = 1
    MaxCalls = 6
SPECIFICATION PotSpec
INVARIANT PaidByQuorum
INVARIANT PostedOnce
INVARIANT ExecutedIsPaid
PROPERTY EntryUsesInvitation
PROPERTY FrozenPotKeepsMoney
SYMMETRY Handlers
CHECK_DEADLOCK FALSE
