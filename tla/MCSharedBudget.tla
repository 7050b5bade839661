--------------------------- MODULE MCSharedBudget ---------------------------
(* Own creates and funds a budget; Spe may spend up to a limit of two, may be *)
(* removed and invited again; Man is invited as a manager. Spe has keys for   *)
(* two withdrawals, Own for a payment to a provider.                          *)
EXTENDS SharedBudget, TLC
CONSTANTS own, man, spe, i1, i2, i3, w1, w2, x1
MCInviteOf ==
    i1 :> [who |-> man, role |-> "MANAGER", limit |-> NoLimit] @@
    i2 :> [who |-> spe, role |-> "SPENDER", limit |-> 2] @@
    i3 :> [who |-> spe, role |-> "SPENDER", limit |-> 2]
MCSpendOf ==
    w1 :> [who |-> spe, amount |-> 2, kind |-> "WITHDRAW"] @@
    w2 :> [who |-> spe, amount |-> 1, kind |-> "WITHDRAW"] @@
    x1 :> [who |-> own, amount |-> 1, kind |-> "EXTERNAL"]
MCPatches == [status : {"PAUSED", "ACTIVE"}, mode : {"AUTO"}]
MCPurse == [u \in User |-> IF u = own THEN 5 ELSE 0]
Handlers == Permutations(Handler)
=============================================================================
