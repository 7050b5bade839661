---------------------------- MODULE MCSharedPot ----------------------------
(* A pot of an organization: Own creates it, Man and Adm manage it through    *)
(* their organization role, Con is invited, may be removed and invited again. *)
EXTENDS SharedPot, TLC
CONSTANTS own, man, adm, con, i1, i2
MCOrgRole == [u \in User |-> IF u = con THEN "VIEWER" ELSE "MANAGER"]
MCInviteOf == [i \in Invitation |-> [who |-> con, role |-> "CONTRIBUTOR"]]
MCPatches == {[status |-> "PAUSED", policy |-> "APPROVAL_REQUIRED", need |-> 2]}
Handlers == Permutations(Handler) \cup Permutations(Invitation)
MCPurse == [u \in User |-> IF u = con THEN 1 ELSE 0]
=============================================================================
