-------------------------- MODULE InternalTransfer --------------------------
(***************************************************************************)
(* What ORBI's internal transfers promise: the money of a transfer leaves  *)
(* the sender's wallet once, waits in the sender's INTERNAL_TRANSFER vault *)
(* (the "PaySafe lock") and is delivered to the receiver at most once.     *)
(* TransferSettlement shows that the workers, leases and append markers of *)
(* the settlement code implement this.                                     *)
(***************************************************************************)
EXTENDS Integers

CONSTANTS
    Transfer,       \* the transfers of one sender to one receiver
    Amount,         \* the amount of each transfer
    Opening         \* the sender's balance before the first transfer


VARIABLES
    place,          \* where the money of each transfer is
    bal             \* the balances of the three ledger entities

vars == <<place, bal>>

Place == {"source", "vault", "target"}

\* Every transfer's money is in one of the three entities and no balance is negative.
TypeOK ==
    /\ place \in [Transfer -> Place]
    /\ bal \in [source : Nat, vault : Nat, target : Nat]

Init ==
    /\ place = [t \in Transfer |-> "source"]
    /\ bal = [source |-> Opening, vault |-> 0, target |-> 0]

\* The legs of a posting: a debit and a credit of the same amount.
ToVault(a) == [source |-> bal.source - a, vault |-> bal.vault + a, target |-> bal.target]
FromVault(a) == [source |-> bal.source, vault |-> bal.vault - a, target |-> bal.target + a]

\* The transfer is posted: its amount moves from the wallet to the vault.
Hold(t) ==
    /\ place[t] = "source"
    /\ bal.source >= Amount[t]
    /\ place' = [place EXCEPT ![t] = "vault"]
    /\ bal' = ToVault(Amount[t])

\* The transfer is settled: its amount moves from the vault to the receiver.
Deliver(t) ==
    /\ place[t] = "vault"
    /\ bal.vault >= Amount[t]
    /\ place' = [place EXCEPT ![t] = "target"]
    /\ bal' = FromVault(Amount[t])

Next == \E t \in Transfer : Hold(t) \/ Deliver(t)

Spec == Init /\ [][Next]_vars
=============================================================================
