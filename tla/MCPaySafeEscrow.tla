-------------------------- MODULE MCPaySafeEscrow --------------------------
(* Personal escrows of amount 1 and a merchant's of amount 2: the money of one *)
(* can pay for a wrong move of the other.                                      *)
EXTENDS PaySafeEscrow

CONSTANTS e1, e2, m1, r1, r2, none

MCNoEscrow == none
MCMerchant == Escrow \cap {m1}
MCAmount == [e \in Escrow |-> IF e = m1 THEN 2 ELSE 1]
MCFee == [e \in Escrow |-> IF e = m1 THEN 1 ELSE 0]
MCFreezable == Vault
=============================================================================
