--------------------------- MODULE PaySafeEscrow ---------------------------
(***************************************************************************)
(* PaySafe escrows of one sender: EscrowService.createEscrow posts a hold  *)
(* into the sender's INTERNAL_TRANSFER vault, a trigger writes the         *)
(* agreement row, and the two parties move the agreement on with           *)
(* transition_paysafe_escrow_v1 (settle_merchant_paysafe_v1 for merchants).*)
(* Each of the two functions is one database transaction that locks the    *)
(* agreement, the transaction and the vaults, so each of its branches is   *)
(* one action. All escrows of a sender share one vault.                    *)
(*                                                                         *)
(* Beside them runs autoReverseHeldTransactions: it knows transactions,    *)
(* not agreements, takes no lock, and is one action per database call.     *)
(***************************************************************************)
EXTENDS Integers, FiniteSets, Functions

CONSTANTS
    Escrow,         \* the escrows of one sender
    Merchant,       \* those whose receiver is a merchant
    Amount,         \* the amount of each escrow
    Fee,            \* fee and tax in the fee snapshot of a merchant's escrow
    Opening,        \* the balance of the sender's operating vault
    Freezable,      \* the vaults an administrator may freeze
    Reaper,         \* concurrent cycles of autoReverseHeldTransactions
    NoEscrow,       \* what an idle reaper works on
    DisputesLinger, \* a held transaction may wait for more than 24 hours
    MaxCrashes      \* bound on crashes of reapers

ASSUME MerchantAssumption == Merchant \subseteq Escrow
ASSUME AmountAssumption == Amount \in [Escrow -> Nat \ {0}]
ASSUME FeeAssumption == Fee \in [Escrow -> Nat] /\ \A e \in Escrow : Fee[e] < Amount[e]
ASSUME OpeningAssumption == Opening \in Nat
ASSUME NoEscrowAssumption == NoEscrow \notin Escrow
ASSUME BoundsAssumption == DisputesLinger \in BOOLEAN /\ MaxCrashes \in Nat

VARIABLES
    status,         \* escrow_agreements.status, "NONE" before the row exists
    accepted,       \* receiver_accepted_at is set
    expiry,         \* expires_at: unset, in the future, or in the past
    txStatus,       \* transactions.status
    marks,          \* ledger_append_markers: <<escrow, action>>
    payouts,        \* how often a function paid the escrow out of the vault
    returns,        \* how often a reversal of the hold was posted
    bal,            \* the balances
    frozen,         \* the vaults that are locked or frozen now
    overdue,        \* 24 hours passed since the transaction was held
    rstep,          \* the next call of each reaper
    ron,            \* the escrow whose transaction it reverses
    rpaid,          \* whether the legs it read include a payout
    crashes         \* crashes so far

agreement == <<status, accepted, expiry>>
ledger == <<marks, payouts, bal>>
reapers == <<rstep, ron, rpaid, crashes>>
vars == <<agreement, txStatus, ledger, returns, frozen, overdue, reapers>>

Status == {"NONE", "HELD", "RELEASE_PENDING", "RETURN_PENDING", "DISPUTED",
           "RELEASED", "REFUNDED"}
TxStatus == {"none", "authorized", "paysafe_confirmed", "awaiting_receiver_acceptance",
             "return_requested", "held_for_review", "completed", "refunded", "reversed"}
Vault == {"operating", "paysafe", "receiver", "merchant", "fees"}
Payout == {"RELEASE", "REFUND", "MERCHANT_SETTLEMENT"}

Init ==
    /\ status = [e \in Escrow |-> "NONE"]
    /\ accepted = [e \in Escrow |-> FALSE]
    /\ expiry = [e \in Escrow |-> "unset"]
    /\ txStatus = [e \in Escrow |-> "none"]
    /\ marks = {}
    /\ payouts = [e \in Escrow |-> 0]
    /\ returns = [e \in Escrow |-> 0]
    /\ bal = [v \in Vault |-> IF v = "operating" THEN Opening ELSE 0]
    /\ frozen = {}
    /\ overdue = [e \in Escrow |-> FALSE]
    /\ rstep = [r \in Reaper |-> "idle"]
    /\ ron = [r \in Reaper |-> NoEscrow]
    /\ rpaid = [r \in Reaper |-> FALSE]
    /\ crashes = 0

-----------------------------------------------------------------------------
(* Operators *)

\* Mutant: one usable vault is enough.
UsableEither(vaults) == vaults \ frozen # {}
\* Every vault of a posting is usable: not locked, frozen, blocked or suspended.
Usable(vaults) == vaults \cap frozen = {}

Move(from, to, amount) ==
    [v \in Vault |->
        IF v = from THEN bal[v] - amount ELSE IF v = to THEN bal[v] + amount ELSE bal[v]]

\* Mutant: the transaction's status is written by way of VALID_TRANSITIONS, which
\* does not know the statuses of PaySafe.
BecomesIfValid(e, agreed, tx) ==
    /\ status' = [status EXCEPT ![e] = agreed]
    /\ txStatus' = [txStatus EXCEPT ![e] =
        IF @ \in {"none", "authorized", "held_for_review"} THEN tx ELSE @]
\* The agreement and the transaction take their new states together.
Becomes(e, agreed, tx) ==
    /\ status' = [status EXCEPT ![e] = agreed]
    /\ txStatus' = [txStatus EXCEPT ![e] = tx]

\* The vault covers the payout and its append marker is new.
Payable(e, action) == bal["paysafe"] >= Amount[e] /\ <<e, action>> \notin marks

\* The payout branch of transition_paysafe_escrow_v1.
PayOut(e, action, to) ==
    /\ Usable({"paysafe", to})
    /\ Payable(e, action)
    /\ marks' = marks \cup {<<e, action>>}
    /\ payouts' = [payouts EXCEPT ![e] = @ + 1]
    /\ bal' = Move("paysafe", to, Amount[e])

-----------------------------------------------------------------------------
(* The sender and the receiver. *)

\* createEscrow: the hold, its transaction and, by trigger, the agreement. The
\* trigger copies metadata.expires_at, which createEscrow never sets.
Create(e) ==
    /\ status[e] = "NONE"
    /\ Usable({"operating", "paysafe"})
    /\ bal["operating"] >= Amount[e]
    /\ bal' = Move("operating", "paysafe", Amount[e])
    /\ Becomes(e, "HELD", "authorized")
    /\ UNCHANGED <<accepted, expiry, marks, payouts, returns, frozen, overdue, reapers>>

\* ACCEPT of a HELD agreement: the receiver confirms the hold.
Confirm(e) ==
    /\ e \notin Merchant
    /\ status[e] = "HELD" /\ ~accepted[e]
    /\ expiry[e] # "past"
    /\ accepted' = [accepted EXCEPT ![e] = TRUE]
    /\ Becomes(e, "HELD", "paysafe_confirmed")
    /\ UNCHANGED <<expiry, ledger, returns, frozen, overdue, reapers>>

\* RELEASE: the sender asks for the release of a confirmed hold.
RequestRelease(e) ==
    /\ e \notin Merchant
    /\ status[e] = "HELD" /\ accepted[e]
    /\ expiry' = [expiry EXCEPT ![e] = "open"]
    /\ Becomes(e, "RELEASE_PENDING", "awaiting_receiver_acceptance")
    /\ UNCHANGED <<accepted, ledger, returns, frozen, overdue, reapers>>

\* ACCEPT of a RELEASE_PENDING agreement pays the receiver.
\* Mutant: the release does not wait for the receiver's answer to be in time, nor
\* for the agreement to be undisputed.
ReleasableAnyTime(e) == status[e] \in {"RELEASE_PENDING", "DISPUTED"}
Releasable(e) == status[e] = "RELEASE_PENDING" /\ expiry[e] # "past"

AcceptRelease(e) ==
    /\ Releasable(e)
    /\ PayOut(e, "RELEASE", "receiver")
    /\ Becomes(e, "RELEASED", "completed")
    /\ UNCHANGED <<accepted, expiry, returns, frozen, overdue, reapers>>

\* ACCEPT of a RELEASE_PENDING agreement after its window: a dispute.
FlagExpired(e) ==
    /\ status[e] = "RELEASE_PENDING" /\ accepted[e]
    /\ expiry[e] = "past"
    /\ Becomes(e, "DISPUTED", "held_for_review")
    /\ overdue' = [overdue EXCEPT ![e] = FALSE]
    /\ UNCHANGED <<accepted, expiry, ledger, returns, frozen, reapers>>

\* REFUND of an agreement the receiver has confirmed: a request to return.
RequestReturn(e) ==
    /\ status[e] \in {"HELD", "RELEASE_PENDING"} /\ accepted[e]
    /\ expiry' = [expiry EXCEPT ![e] = "open"]
    /\ Becomes(e, "RETURN_PENDING", "return_requested")
    /\ UNCHANGED <<accepted, ledger, returns, frozen, overdue, reapers>>

\* ACCEPT of a RETURN_PENDING agreement pays the sender back.
AcceptReturn(e) ==
    /\ status[e] = "RETURN_PENDING"
    /\ expiry[e] # "past"
    /\ PayOut(e, "REFUND", "operating")
    /\ Becomes(e, "REFUNDED", "refunded")
    /\ UNCHANGED <<accepted, expiry, returns, frozen, overdue, reapers>>

\* REFUND pays the sender back: before the receiver confirmed, or in a dispute.
\* Mutant: a released agreement can still be refunded.
RefundableReleased(e) == status[e] \in {"HELD", "DISPUTED", "RELEASED"}
Refundable(e) == status[e] = "DISPUTED" \/ (status[e] = "HELD" /\ ~accepted[e])

Refund(e) ==
    /\ Refundable(e)
    /\ PayOut(e, "REFUND", "operating")
    /\ Becomes(e, "REFUNDED", "refunded")
    /\ UNCHANGED <<accepted, expiry, returns, frozen, overdue, reapers>>

\* DISPUTE, by either party.
Dispute(e) ==
    /\ status[e] \in {"HELD", "RELEASE_PENDING", "RETURN_PENDING"}
    /\ Becomes(e, "DISPUTED", "held_for_review")
    /\ overdue' = [overdue EXCEPT ![e] = FALSE]
    /\ UNCHANGED <<accepted, expiry, ledger, returns, frozen, reapers>>

\* settle_merchant_paysafe_v1, the sender's release of a merchant's escrow
SettleMerchant(e) ==
    /\ e \in Merchant
    /\ status[e] = "HELD"
    /\ Usable({"paysafe", "merchant"} \cup IF Fee[e] > 0 THEN {"fees"} ELSE {})
    /\ Payable(e, "MERCHANT_SETTLEMENT")
    /\ marks' = marks \cup {<<e, "MERCHANT_SETTLEMENT">>}
    /\ payouts' = [payouts EXCEPT ![e] = @ + 1]
    /\ bal' = [v \in Vault |->
        CASE v = "paysafe" -> bal[v] - Amount[e]
          [] v = "merchant" -> bal[v] + (Amount[e] - Fee[e])
          [] v = "fees" -> bal[v] + Fee[e]
          [] OTHER -> bal[v]]
    /\ Becomes(e, "RELEASED", "completed")
    /\ UNCHANGED <<accepted, expiry, returns, frozen, overdue, reapers>>

-----------------------------------------------------------------------------
(* Time and administrators. *)

\* The window of a release or of a return ends.
Expire(e) ==
    /\ expiry[e] = "open"
    /\ expiry' = [expiry EXCEPT ![e] = "past"]
    /\ UNCHANGED <<status, accepted, txStatus, ledger, returns, frozen, overdue, reapers>>

HoldOverdue(e) ==
    /\ DisputesLinger
    /\ txStatus[e] = "held_for_review"
    /\ ~overdue[e]
    /\ overdue' = [overdue EXCEPT ![e] = TRUE]
    /\ UNCHANGED <<agreement, txStatus, ledger, returns, frozen, reapers>>

Freeze(v) ==
    /\ v \in Freezable \ frozen
    /\ frozen' = frozen \cup {v}
    /\ UNCHANGED <<agreement, txStatus, ledger, returns, overdue, reapers>>

Unfreeze(v) ==
    /\ v \in frozen
    /\ frozen' = frozen \ {v}
    /\ UNCHANGED <<agreement, txStatus, ledger, returns, overdue, reapers>>

-----------------------------------------------------------------------------
(* autoReverseHeldTransactions on a held escrow transaction. *)

ReaperTo(r, to) ==
    /\ rstep' = [rstep EXCEPT ![r] = to]
    /\ UNCHANGED <<ron, rpaid, crashes>>

ReaperStop(r) ==
    /\ rstep' = [rstep EXCEPT ![r] = "idle"]
    /\ ron' = [ron EXCEPT ![r] = NoEscrow]
    /\ rpaid' = [rpaid EXCEPT ![r] = FALSE]

\* It lists the held transactions that are overdue.
ListOverdue(r, e) ==
    /\ rstep[r] = "idle"
    /\ txStatus[e] = "held_for_review" /\ overdue[e]
    /\ rstep' = [rstep EXCEPT ![r] = "reread"]
    /\ ron' = [ron EXCEPT ![r] = e]
    /\ UNCHANGED <<agreement, txStatus, ledger, returns, frozen, overdue, rpaid, crashes>>

\* reverseTransactionWithReason: assertReversalEligible on the status it reads.
ReRead(r) ==
    /\ rstep[r] = "reread"
    /\ IF txStatus[ron[r]] \in {"refunded", "reversed"}
         THEN ReaperStop(r) /\ UNCHANGED crashes
         ELSE ReaperTo(r, "legs")
    /\ UNCHANGED <<agreement, txStatus, ledger, returns, frozen, overdue>>

ReadLegs(r) ==
    /\ rstep[r] = "legs"
    /\ rpaid' = [rpaid EXCEPT ![r] = payouts[ron[r]] > 0]
    /\ rstep' = [rstep EXCEPT ![r] = "post"]
    /\ UNCHANGED <<agreement, txStatus, ledger, returns, frozen, overdue, ron, crashes>>

\* The inverse of the hold pays the sender; with the legs of a refund among the
\* legs that were read it moves nothing.
ReverseHold(r) ==
    LET e == ron[r] IN
    /\ rstep[r] = "post"
    /\ Usable({"operating", "paysafe"})
    /\ IF rpaid[r]
         THEN UNCHANGED <<bal, returns>>
         ELSE /\ bal["paysafe"] >= Amount[e]
              /\ bal' = Move("paysafe", "operating", Amount[e])
              /\ returns' = [returns EXCEPT ![e] = @ + 1]
    /\ ReaperTo(r, "check")
    /\ UNCHANGED <<agreement, txStatus, marks, payouts, frozen, overdue>>

\* INSUFFICIENT_FUNDS or WALLET_LOCKED. The legs were read in no order: a debit
\* may be tried before the credit that would cover it.
ReverseRefused(r) ==
    /\ rstep[r] = "post"
    /\ \/ ~Usable({"operating", "paysafe"})
       \/ bal["paysafe"] < Amount[ron[r]]
       \/ rpaid[r] /\ bal["operating"] < Amount[ron[r]]
    /\ ReaperStop(r)
    /\ UNCHANGED <<agreement, txStatus, ledger, returns, frozen, overdue, crashes>>

\* updateTransactionStatus reads, and 'refunded' has no successor ...
CheckStatus(r) ==
    /\ rstep[r] = "check"
    /\ IF txStatus[ron[r]] \in {"held_for_review", "completed"}
         THEN ReaperTo(r, "write")
         ELSE ReaperStop(r) /\ UNCHANGED crashes
    /\ UNCHANGED <<agreement, txStatus, ledger, returns, frozen, overdue>>

\* ... and writes.
MarkReversed(r) ==
    /\ rstep[r] = "write"
    /\ txStatus' = [txStatus EXCEPT ![ron[r]] = "reversed"]
    /\ ReaperStop(r)
    /\ UNCHANGED <<agreement, ledger, returns, frozen, overdue, crashes>>

ReaperCrash(r) ==
    /\ rstep[r] # "idle"
    /\ crashes < MaxCrashes
    /\ crashes' = crashes + 1
    /\ ReaperStop(r)
    /\ UNCHANGED <<agreement, txStatus, ledger, returns, frozen, overdue>>

-----------------------------------------------------------------------------
Party(e) ==
    \/ Create(e) \/ Confirm(e) \/ RequestRelease(e) \/ AcceptRelease(e) \/ FlagExpired(e)
    \/ RequestReturn(e) \/ AcceptReturn(e) \/ Refund(e) \/ Dispute(e) \/ SettleMerchant(e)

ReaperStep(r) ==
    \/ \E e \in Escrow : ListOverdue(r, e)
    \/ ReRead(r) \/ ReadLegs(r) \/ ReverseHold(r) \/ ReverseRefused(r)
    \/ CheckStatus(r) \/ MarkReversed(r) \/ ReaperCrash(r)

Next ==
    \/ \E e \in Escrow : Party(e) \/ Expire(e) \/ HoldOverdue(e)
    \/ \E v \in Vault : Freeze(v) \/ Unfreeze(v)
    \/ \E r \in Reaper : ReaperStep(r)

Spec == Init /\ [][Next]_vars

-----------------------------------------------------------------------------
(* Properties *)

\* The rows and the reapers' variables keep their types; no vault is ever
\* overdrawn, whatever was paid and returned from the one vault all escrows share.
TypeOK ==
    /\ status \in [Escrow -> Status]
    /\ accepted \in [Escrow -> BOOLEAN]
    /\ expiry \in [Escrow -> {"unset", "open", "past"}]
    /\ txStatus \in [Escrow -> TxStatus]
    /\ marks \subseteq Escrow \X Payout
    /\ payouts \in [Escrow -> Nat]
    /\ returns \in [Escrow -> Nat]
    /\ bal \in [Vault -> Nat]
    /\ frozen \subseteq Vault
    /\ overdue \in [Escrow -> BOOLEAN]
    /\ rstep \in [Reaper -> {"idle", "reread", "legs", "post", "check", "write"}]
    /\ ron \in [Reaper -> Escrow \cup {NoEscrow}]
    /\ rpaid \in [Reaper -> BOOLEAN]
    /\ crashes \in Nat

\* The functions pay an escrow out of the vault at most once, to one party. The
\* append keys of a release, a refund and a merchant settlement differ, so it is
\* the agreement's status that keeps a second payout of another kind away.
PaidOutAtMostOnce == \A e \in Escrow : payouts[e] <= 1

\* While the parties settle their disputes in time, the vault holds exactly the
\* money of the agreements that are not closed: none is paid with another's.
VaultCoversHolds ==
    bal["paysafe"] = SumFunctionOnSet(Amount,
        {e \in Escrow : status[e] \in {"HELD", "RELEASE_PENDING", "RETURN_PENDING", "DISPUTED"}})

\* While the parties settle their disputes in time, the status of the transaction
\* is the one that belongs to the agreement's, along every path of the two.
StatusesAgree ==
    \A e \in Escrow :
        txStatus[e] =
            CASE status[e] = "NONE" -> "none"
              [] status[e] = "HELD" -> IF accepted[e] THEN "paysafe_confirmed" ELSE "authorized"
              [] status[e] = "RELEASE_PENDING" -> "awaiting_receiver_acceptance"
              [] status[e] = "RETURN_PENDING" -> "return_requested"
              [] status[e] = "DISPUTED" -> "held_for_review"
              [] status[e] = "RELEASED" -> "completed"
              [] status[e] = "REFUNDED" -> "refunded"

\* A receiver who is not a merchant is paid only for a hold it confirmed, on
\* whatever path of requests, returns and disputes the agreement came to it.
PaidByConsent ==
    \A e \in Escrow \ Merchant : status[e] = "RELEASED" => accepted[e]

\* A vault that an administrator froze neither loses nor gains money, whoever
\* read it as usable before.
FrozenVaultNeverMoves == [][\A v \in Vault : v \in frozen => bal'[v] = bal[v]]_vars

=============================================================================
