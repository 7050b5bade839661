------------------------- MODULE TransferSettlement -------------------------
(***************************************************************************)
(* Settlement of internal transfers: post_transaction_v2 stages a transfer *)
(* into the sender's INTERNAL_TRANSFER vault with status 'processing', and *)
(* any number of settlement workers (the inline call of process, the       *)
(* processor that runs every minute, the stuck transaction reaper, each in *)
(* several server processes) run BankingEngine.completeSettlement on it.   *)
(*                                                                         *)
(* completeSettlement is not one database transaction but four calls:      *)
(* claim_internal_transfer_settlement, append_ledger_entries_v1, the zero  *)
(* sum read, complete_internal_transfer_settlement. Each call is one       *)
(* action here (each runs under the row lock of the transaction); a worker *)
(* may die, or lose an answer, between any two of them.                    *)
(***************************************************************************)
EXTENDS Integers, FiniteSets, Functions

CONSTANTS
    Transfer,       \* transaction ids; all of one sender and one receiver
    NoTransfer,     \* the job of an idle worker
    Amount,         \* the amount of each transfer
    Opening,        \* the balance of the sender's wallet at the start
    Worker,         \* concurrent calls of completeSettlement
    MaxFaults,      \* bound on crashes, lost answers and late workers
    MaxRefusals     \* bound on locks of the receiver and refused appends

ASSUME AmountAssumption == Amount \in [Transfer -> Nat \ {0}]
ASSUME OpeningAssumption == Opening \in Nat
ASSUME NoTransferAssumption == NoTransfer \notin Transfer
ASSUME BoundsAssumption == MaxFaults \in Nat /\ MaxRefusals \in Nat

VARIABLES
    txStatus,       \* transactions.status, "none" before the row exists
    stage,          \* settlement_lifecycle.stage, "NONE" before the row exists
    claim,          \* number of the claim in metadata.worker_claim_id, 0 if none
    lease,          \* processing_at lies within the last five minutes
    marker,         \* the PAYSAFE_SETTLEMENT row of ledger_append_markers exists
    released,       \* how many times the release legs were written
    bal,            \* balances of the wallet, the vault and the receiver
    targetLocked,   \* the receiver's wallet is locked by an administrator
    pc,             \* how far each worker is in completeSettlement
    job,            \* the transfer it settles
    token,          \* the worker_claim_id it got
    faults,         \* crashes, lost answers and late workers so far
    refusals        \* locks and refused appends so far

rows == <<txStatus, stage, claim, lease>>
money == <<marker, released, bal>>
workers == <<pc, job, token>>
limits == <<faults, refusals>>
vars == <<rows, money, targetLocked, workers, limits>>

TxStatus == {"none", "processing", "completed", "held_for_review", "reversed", "failed"}
Stage == {"NONE", "PROCESSING", "SETTLED", "FAILED"}
WorkerPC == {"idle", "claimed", "appended", "balanced", "residual"}

Init ==
    /\ txStatus = [t \in Transfer |-> "none"]
    /\ stage = [t \in Transfer |-> "NONE"]
    /\ claim = [t \in Transfer |-> 0]
    /\ lease = [t \in Transfer |-> FALSE]
    /\ marker = [t \in Transfer |-> FALSE]
    /\ released = [t \in Transfer |-> 0]
    /\ bal = [source |-> Opening, vault |-> 0, target |-> 0]
    /\ targetLocked = FALSE
    /\ pc = [w \in Worker |-> "idle"]
    /\ job = [w \in Worker |-> NoTransfer]
    /\ token = [w \in Worker |-> 0]
    /\ faults = 0
    /\ refusals = 0

-----------------------------------------------------------------------------
(* Operators on the two rows a settlement is decided by.                   *)

\* The branch both functions take for a settlement that is already over.
AlreadySettled(t) == txStatus[t] = "completed" \/ stage[t] = "SETTLED"

\* Mutant: a claim never expires.
ClaimForever(t) == stage[t] = "PROCESSING" /\ claim[t] # 0
\* Another worker's claim is less than five minutes old. Claim ids are fresh,
\* so every earlier claim is another worker's.
LiveClaim(t) == stage[t] = "PROCESSING" /\ claim[t] # 0 /\ lease[t]

\* A worker that still acts under the newest claim of the transfer.
Holds(w, t) == pc[w] # "idle" /\ job[w] = t /\ token[w] = claim[t]

\* The legs of a posting: a debit and a credit of the same amount.
ToVault(a) == [source |-> bal.source - a, vault |-> bal.vault + a, target |-> bal.target]
FromVault(a) == [source |-> bal.source, vault |-> bal.vault - a, target |-> bal.target + a]

\* The worker leaves completeSettlement, by return or by exception.
Leave(w) ==
    /\ pc' = [pc EXCEPT ![w] = "idle"]
    /\ job' = [job EXCEPT ![w] = NoTransfer]
    /\ token' = [token EXCEPT ![w] = 0]

Advance(w, to) ==
    /\ pc' = [pc EXCEPT ![w] = to]
    /\ UNCHANGED <<job, token>>

\* The balance check of post_transaction_v2 on the debit of the wallet.
SourceCovers(t) == bal.source >= Amount[t]

\* The RPC may write only under the current claim of a running settlement.
\* Mutant: the worker_claim_id is not compared.
MayFinalizeAnyClaim(w) == stage[job[w]] = "PROCESSING"
MayFinalize(w) ==
    LET t == job[w] IN
    /\ token[w] = claim[t]
    /\ stage[t] = "PROCESSING"

\* The append is accepted: the marker row is new.
\* Mutant: the unique indexes of the marker table are missing.
AppendAlways(t) == t \in Transfer
\* Mutant: a transfer is released again once its lease has run out.
AppendAgainWhenExpired(t) == ~marker[t] \/ ~lease[t]
AppendIsNew(t) == ~marker[t]

\* The legs can be written: the vault covers the debit, the receiver is open.
ReleasePossible(t) == bal.vault >= Amount[t] /\ ~targetLocked

-----------------------------------------------------------------------------
(* process: the transfer is committed with the PaySafe lock legs.          *)

StageTransfer(t) ==
    /\ txStatus[t] = "none"
    /\ SourceCovers(t)
    /\ txStatus' = [txStatus EXCEPT ![t] = "processing"]
    /\ bal' = ToVault(Amount[t])
    /\ UNCHANGED <<stage, claim, lease, marker, released, targetLocked, workers, limits>>

(* claim_internal_transfer_settlement *)

Claim(w, t) ==
    /\ pc[w] = "idle"
    /\ ~AlreadySettled(t)
    /\ txStatus[t] = "processing"
    /\ ~LiveClaim(t)
    /\ stage' = [stage EXCEPT ![t] = "PROCESSING"]
    /\ claim' = [claim EXCEPT ![t] = @ + 1]
    /\ lease' = [lease EXCEPT ![t] = TRUE]
    /\ pc' = [pc EXCEPT ![w] = "claimed"]
    /\ job' = [job EXCEPT ![w] = t]
    /\ token' = [token EXCEPT ![w] = claim[t] + 1]
    /\ UNCHANGED <<txStatus, money, targetLocked, limits>>

\* The claim of a settlement that is over only repairs its lifecycle row.
ClaimAlreadySettled(w, t) ==
    /\ pc[w] = "idle"
    /\ AlreadySettled(t)
    /\ stage' = [stage EXCEPT ![t] = "SETTLED"]
    /\ UNCHANGED <<txStatus, claim, lease, money, targetLocked, workers, limits>>

(* append_ledger_entries_v1 with the append key of the transfer. The status *)
(* of the transaction is not read.                                          *)

\* Mutant: the append commits its legs before, and without, its marker.
AppendBeforeMarker(w) ==
    LET t == job[w] IN
    /\ pc[w] = "claimed"
    /\ AppendIsNew(t)
    /\ ReleasePossible(t)
    /\ released' = [released EXCEPT ![t] = @ + 1]
    /\ bal' = FromVault(Amount[t])
    /\ Advance(w, "appended")
    /\ UNCHANGED <<rows, marker, targetLocked, limits>>
AppendRelease(w) ==
    LET t == job[w] IN
    /\ pc[w] = "claimed"
    /\ AppendIsNew(t)
    /\ ReleasePossible(t)
    /\ marker' = [marker EXCEPT ![t] = TRUE]
    /\ released' = [released EXCEPT ![t] = @ + 1]
    /\ bal' = FromVault(Amount[t])
    /\ Advance(w, "appended")
    /\ UNCHANGED <<rows, targetLocked, limits>>

\* append_already_applied, or APPEND_ALREADY_APPLIED turned into success.
AppendSkip(w) ==
    /\ pc[w] = "claimed"
    /\ ~AppendIsNew(job[w])
    /\ Advance(w, "appended")
    /\ UNCHANGED <<rows, money, targetLocked, limits>>

\* Mutant: every append error is taken for APPEND_ALREADY_APPLIED.
AppendErrorSwallowed(w) ==
    /\ pc[w] = "claimed"
    /\ AppendIsNew(job[w])
    /\ ~ReleasePossible(job[w])
    /\ Advance(w, "appended")
    /\ UNCHANGED <<rows, money, targetLocked, limits>>
\* WALLET_LOCKED, which completeSettlement throws as a transient fault, or
\* INSUFFICIENT_FUNDS, for which it returns false: it writes nothing either way.
AppendRejected(w) ==
    /\ pc[w] = "claimed"
    /\ AppendIsNew(job[w])
    /\ ~ReleasePossible(job[w])
    /\ refusals < MaxRefusals
    /\ refusals' = refusals + 1
    /\ Leave(w)
    /\ UNCHANGED <<rows, money, targetLocked, faults>>

\* verifyZeroSum adds up the decrypted amounts, a second copy of the amounts
\* the append balanced: the model leaves its verdict open.
VerifyZeroSum(w) ==
    /\ pc[w] = "appended"
    /\ \E verdict \in {"balanced", "residual"} : Advance(w, verdict)
    /\ UNCHANGED <<rows, money, targetLocked, limits>>

(* complete_internal_transfer_settlement, one action per branch *)

FinalizeAlready(w) ==
    /\ pc[w] \in {"balanced", "residual"}
    /\ AlreadySettled(job[w])
    /\ stage' = [stage EXCEPT ![job[w]] = "SETTLED"]
    /\ Leave(w)
    /\ UNCHANGED <<txStatus, claim, lease, money, targetLocked, limits>>

\* Mutant: the status is not looked at again before it is completed.
CompleteUnchecked(w) ==
    LET t == job[w] IN
    /\ pc[w] = "balanced"
    /\ ~AlreadySettled(t)
    /\ MayFinalize(w)
    /\ txStatus' = [txStatus EXCEPT ![t] = "completed"]
    /\ stage' = [stage EXCEPT ![t] = "SETTLED"]
    /\ Leave(w)
    /\ UNCHANGED <<claim, lease, money, targetLocked, limits>>
FinalizeCompleted(w) ==
    LET t == job[w] IN
    /\ pc[w] = "balanced"
    /\ ~AlreadySettled(t)
    /\ MayFinalize(w)
    /\ txStatus[t] = "processing"
    /\ txStatus' = [txStatus EXCEPT ![t] = "completed"]
    /\ stage' = [stage EXCEPT ![t] = "SETTLED"]
    /\ Leave(w)
    /\ UNCHANGED <<claim, lease, money, targetLocked, limits>>

FinalizeHeld(w) ==
    LET t == job[w] IN
    /\ pc[w] = "residual"
    /\ ~AlreadySettled(t)
    /\ MayFinalize(w)
    /\ txStatus' = [txStatus EXCEPT ![t] = IF @ = "processing" THEN "held_for_review" ELSE @]
    /\ stage' = [stage EXCEPT ![t] = "FAILED"]
    /\ Leave(w)
    /\ UNCHANGED <<claim, lease, money, targetLocked, limits>>

\* CONCURRENCY_CONFLICT or INVALID_SETTLEMENT_STATE: nothing is written.
FinalizeRefused(w) ==
    /\ pc[w] \in {"balanced", "residual"}
    /\ ~AlreadySettled(job[w])
    /\ \/ ~MayFinalize(w)
       \/ pc[w] = "balanced" /\ txStatus[job[w]] # "processing"
    /\ Leave(w)
    /\ UNCHANGED <<rows, money, targetLocked, limits>>

-----------------------------------------------------------------------------
(* The environment. *)

\* The process dies, a call times out, or the answer of a call is lost.
Crash(w) ==
    /\ pc[w] # "idle"
    /\ faults < MaxFaults
    /\ faults' = faults + 1
    /\ Leave(w)
    /\ UNCHANGED <<rows, money, targetLocked, refusals>>

\* Five minutes pass since the claim. A worker that still runs is late, a fault.
LeaseExpire(t) ==
    /\ lease[t]
    /\ lease' = [lease EXCEPT ![t] = FALSE]
    /\ IF \E w \in Worker : Holds(w, t)
         THEN faults < MaxFaults /\ faults' = faults + 1
         ELSE UNCHANGED faults
    /\ UNCHANGED <<txStatus, stage, claim, money, targetLocked, workers, refusals>>

\* An administrator locks the receiver's wallet, and opens it again.
LockTarget ==
    /\ ~targetLocked
    /\ refusals < MaxRefusals
    /\ refusals' = refusals + 1
    /\ targetLocked' = TRUE
    /\ UNCHANGED <<rows, money, workers, faults>>

UnlockTarget ==
    /\ targetLocked
    /\ targetLocked' = FALSE
    /\ UNCHANGED <<rows, money, workers, limits>>

-----------------------------------------------------------------------------
(* The workers' calls, in the order completeSettlement makes them. *)
WorkerStep(w) ==
    \/ AppendRelease(w) \/ AppendSkip(w) \/ AppendRejected(w)
    \/ VerifyZeroSum(w)
    \/ FinalizeAlready(w) \/ FinalizeCompleted(w)
    \/ FinalizeHeld(w) \/ FinalizeRefused(w)

Next ==
    \/ \E t \in Transfer : StageTransfer(t) \/ LeaseExpire(t)
    \/ \E w \in Worker, t \in Transfer : Claim(w, t) \/ ClaimAlreadySettled(w, t)
    \/ \E w \in Worker : WorkerStep(w) \/ Crash(w)
    \/ LockTarget \/ UnlockTarget

Spec == Init /\ [][Next]_vars

\* The timers keep calling completeSettlement, a call that does not die goes
\* on, time passes, and a lock on a customer's wallet is lifted in the end.
Fairness ==
    /\ \A t \in Transfer : WF_vars(\E w \in Worker : Claim(w, t))
    /\ \A w \in Worker : WF_vars(WorkerStep(w))
    /\ \A t \in Transfer : WF_vars(LeaseExpire(t))
    /\ WF_vars(UnlockTarget)

FairSpec == Spec /\ Fairness

-----------------------------------------------------------------------------
(* Properties *)

\* The rows, the balances and the workers' variables keep their types; no
\* balance of a wallet or a vault is ever negative.
TypeOK ==
    /\ txStatus \in [Transfer -> TxStatus]
    /\ stage \in [Transfer -> Stage]
    /\ claim \in [Transfer -> Nat]
    /\ lease \in [Transfer -> BOOLEAN]
    /\ marker \in [Transfer -> BOOLEAN]
    /\ released \in [Transfer -> Nat]
    /\ bal \in [source : Nat, vault : Nat, target : Nat]
    /\ targetLocked \in BOOLEAN
    /\ pc \in [Worker -> WorkerPC]
    /\ job \in [Worker -> Transfer \cup {NoTransfer}]
    /\ token \in [Worker -> Nat]
    /\ faults \in Nat
    /\ refusals \in Nat

\* The receiver is paid at most once for a transfer, although workers that
\* crashed, lost the answer of the append or overran their lease are followed
\* by others that run the same four calls again (the append marker).
ReleasedAtMostOnce == \A t \in Transfer : released[t] <= 1

\* A transfer is marked completed, and its lifecycle SETTLED, only when the
\* money has reached the receiver, whichever worker wrote which of the two.
CompletedMeansDelivered ==
    \A t \in Transfer :
        txStatus[t] = "completed" \/ stage[t] = "SETTLED" => released[t] = 1

\* The sender's vault holds exactly the money of the transfers that were
\* posted and not released yet: no transfer is paid with another one's money.
VaultCoversHeld ==
    bal.vault = SumFunctionOnSet(Amount,
        {t \in Transfer : txStatus[t] # "none" /\ released[t] = 0})

\* The verdict on a settlement is written by the worker that holds the newest
\* claim: a worker that lost its lease to another can no longer decide it
\* (complete_internal_transfer_settlement compares worker_claim_id).
OwnerDecides ==
    [][\A t \in Transfer :
        stage[t] = "PROCESSING" /\ stage'[t] # "PROCESSING"
            => \E w \in Worker : Holds(w, t) /\ pc'[w] = "idle"]_vars

\* A transfer does not stay in 'processing': after crashes, late workers and
\* locks the timers bring it to completed or held_for_review.
SettlementEnds ==
    \A t \in Transfer :
        txStatus[t] = "processing" ~> txStatus[t] \in {"completed", "held_for_review"}

\* The refinement: where the money of each transfer is.
place ==
    [t \in Transfer |->
        IF txStatus[t] = "none" THEN "source"
        ELSE IF released[t] = 0 THEN "vault" ELSE "target"]

Promise == INSTANCE InternalTransfer

\* Every step of the settlement code holds a transfer, delivers it, or moves no
\* money: the four calls, retried by anyone, implement InternalTransfer.
ImplementsInternalTransfer == Promise!Spec
=============================================================================
