-------------------------- MODULE SettlementReview --------------------------
(***************************************************************************)
(* What acts on a transfer besides its settlement workers: staff members   *)
(* (and the sender, by recall) that hold, audit, approve and reverse it,   *)
(* and the reaper, which settles stuck transfers and reverses the ones it  *)
(* cannot settle and the ones held for too long. The reaper runs on a      *)
(* timer in several processes; nothing but an in-process flag keeps two    *)
(* cycles apart.                                                           *)
(*                                                                         *)
(* None of these procedures takes a row lock. Each is a sequence of        *)
(* separate database calls: it reads the transaction, decides, and writes  *)
(* later without looking again. An agent's procedure is one action per     *)
(* call, and what it read is its local copy.                               *)
(***************************************************************************)
EXTENDS TransferSettlement

CONSTANTS
    Reaper,         \* the workers that are reaper cycles
    Staff           \* concurrent requests of staff members and senders

ASSUME ReaperAssumption == Reaper \subseteq Worker
ASSUME StaffAssumption == Staff \cap Worker = {}

VARIABLES
    lock,           \* metadata.transaction_lock of each transaction
    reversals,      \* how many reversals of the transfer were posted
    step,           \* the next call of each agent
    task,           \* what it is doing
    on,             \* the transfer it does it to
    goal,           \* the status it wants to write next
    seen            \* what it read: status, release legs, lock metadata

agents == <<step, task, on, goal, seen>>
reviewVars == <<vars, lock, reversals, agents>>

Agent == Reaper \cup Staff

NoLock == [prev |-> "none", audit |-> "NONE", due |-> FALSE]
Nothing == [status |-> "none", released |-> FALSE, lock |-> NoLock]

ReviewInit ==
    /\ Init
    /\ lock = [t \in Transfer |-> NoLock]
    /\ reversals = [t \in Transfer |-> 0]
    /\ step = [a \in Agent |-> "idle"]
    /\ task = [a \in Agent |-> "none"]
    /\ on = [a \in Agent |-> NoTransfer]
    /\ goal = [a \in Agent |-> "none"]
    /\ seen = [a \in Agent |-> Nothing]

-----------------------------------------------------------------------------
\* VALID_TRANSITIONS on the statuses a transfer takes.
Successors ==
    [none |-> {}, reversed |-> {}, failed |-> {},
     processing |-> {"failed", "reversed", "completed", "held_for_review"},
     completed |-> {"reversed", "held_for_review"},
     held_for_review |-> {"failed", "completed", "reversed"}]

\* isValidTransition
CanMove(from, to) == to \in Successors[from]

\* assertReversalEligible
Reversible(t) == txStatus[t] \notin {"none", "reversed", "failed"}

Begin(a, what, t, first, status) ==
    /\ step' = [step EXCEPT ![a] = first]
    /\ task' = [task EXCEPT ![a] = what]
    /\ on' = [on EXCEPT ![a] = t]
    /\ goal' = [goal EXCEPT ![a] = status]
    /\ seen' = [seen EXCEPT ![a] = [status |-> txStatus[t], released |-> FALSE, lock |-> lock[t]]]

GoOn(a, to) ==
    /\ step' = [step EXCEPT ![a] = to]
    /\ UNCHANGED <<task, on, goal, seen>>

\* The procedure returns or throws.
Stop(a) ==
    /\ step' = [step EXCEPT ![a] = "idle"]
    /\ task' = [task EXCEPT ![a] = "none"]
    /\ on' = [on EXCEPT ![a] = NoTransfer]
    /\ goal' = [goal EXCEPT ![a] = "none"]
    /\ seen' = [seen EXCEPT ![a] = Nothing]

-----------------------------------------------------------------------------
(* The reads the procedures start with. *)

\* lockTransactionForReview, by staff or as the sender's recall
HoldRead(a, t) ==
    /\ step[a] = "idle" /\ a \in Staff
    /\ Reversible(t)
    /\ Begin(a, "hold", t, IF txStatus[t] = "held_for_review" THEN "finish" ELSE "check",
             "held_for_review")
    /\ UNCHANGED <<vars, lock, reversals>>

\* recordAuditDecision
AuditRead(a, t, decision) ==
    /\ step[a] = "idle" /\ a \in Staff
    /\ txStatus[t] = "held_for_review"
    /\ Begin(a, decision, t, "finish", "none")
    /\ UNCHANGED <<vars, lock, reversals>>

\* approveReviewedTransaction. A transfer is never pending or authorized, so the
\* status to write is 'completed'.
ApproveRead(a, t) ==
    /\ step[a] = "idle" /\ a \in Staff
    /\ txStatus[t] = "held_for_review"
    /\ lock[t].audit = "PASSED"
    /\ Begin(a, "approve", t, IF lock[t].prev = "processing" THEN "settle" ELSE "check",
             "completed")
    /\ UNCHANGED <<vars, lock, reversals>>

\* reverseTransactionWithReason, called by staff
ReverseRead(a, t) ==
    /\ step[a] = "idle" /\ a \in Staff
    /\ Reversible(t)
    /\ Begin(a, "reverse", t, "legs", "reversed")
    /\ UNCHANGED <<vars, lock, reversals>>

\* The internal worker's reverse route reads the transaction for its metadata,
\* whatever its status: it posts no legs and asks nobody.
RouteReverse(a, t) ==
    /\ step[a] = "idle" /\ a \in Staff
    /\ txStatus[t] # "none"
    /\ Begin(a, "void", t, "finish", "reversed")
    /\ UNCHANGED <<vars, lock, reversals>>

\* autoReverseHeldTransactions lists the overdue transactions ...
ListOverdue(a, t) ==
    /\ step[a] = "idle" /\ a \in Reaper /\ pc[a] = "idle"
    /\ txStatus[t] = "held_for_review"
    /\ lock[t].due
    /\ Begin(a, "reverse", t, "reread", "reversed")
    /\ UNCHANGED <<vars, lock, reversals>>

\* ... and calls reverseTransactionWithReason on each, which reads it again.
ReReadOverdue(a) ==
    /\ step[a] = "reread"
    /\ IF Reversible(on[a]) THEN Begin(a, "reverse", on[a], "legs", "reversed") ELSE Stop(a)
    /\ UNCHANGED <<vars, lock, reversals>>

\* completeSettlement returns false when the funds do not cover the legs, and
\* after a residual whatever the finalizing call answered. A locked wallet is
\* found before the funds are looked at, and is thrown as a fault.
GivenUp(w) ==
    \/ AppendRejected(w) /\ ~targetLocked
    \/ FinalizeHeld(w)
    \/ FinalizeAlready(w) /\ pc[w] = "residual"

\* reapStuckTransactions reverses the transfer then, settled or not.
ReaperGivesUp(w) ==
    /\ w \in Reaper
    /\ GivenUp(w)
    /\ Begin(w, "reap", job[w], "legs", "reversed")
    /\ UNCHANGED <<lock, reversals>>

-----------------------------------------------------------------------------
(* The calls that follow. *)

\* Approval of a transfer that was locked in processing: completeSettlement can
\* only find it settled or refuse it, because its status is not 'processing'.
ApproveSettle(a) ==
    LET t == on[a] IN
    /\ step[a] = "settle"
    /\ txStatus[t] # "processing"
    /\ IF AlreadySettled(t)
         THEN stage' = [stage EXCEPT ![t] = "SETTLED"] /\ GoOn(a, "finish")
         ELSE UNCHANGED stage /\ Stop(a)
    /\ UNCHANGED <<txStatus, claim, lease, money, targetLocked, workers, limits, lock, reversals>>

\* reverseTransaction reads the legs of the transfer ...
ReadLegs(a) ==
    /\ step[a] = "legs"
    /\ seen' = [seen EXCEPT ![a].released = (released[on[a]] > 0)]
    /\ step' = [step EXCEPT ![a] = "post"]
    /\ UNCHANGED <<vars, lock, reversals, task, on, goal>>

\* ... and posts their inverse as a transaction of its own, with a new id and a
\* new reference: nothing ties it to an earlier reversal.
ReversalCovered(a) ==
    IF seen[a].released
      THEN bal.target >= Amount[on[a]] /\ ~targetLocked
      ELSE bal.vault >= Amount[on[a]]

PostReversal(a) ==
    LET amount == Amount[on[a]] IN
    /\ step[a] = "post"
    /\ ReversalCovered(a)
    /\ bal' = IF seen[a].released
                THEN [bal EXCEPT !.source = @ + amount, !.target = @ - amount]
                ELSE [bal EXCEPT !.source = @ + amount, !.vault = @ - amount]
    /\ reversals' = [reversals EXCEPT ![on[a]] = @ + 1]
    /\ GoOn(a, "check")
    /\ UNCHANGED <<rows, marker, released, targetLocked, workers, limits, lock>>

\* The legs were read in no order: a debit of the vault may be tried before the
\* credit that would cover it.
PostRefused(a) ==
    /\ step[a] = "post"
    /\ ~ReversalCovered(a) \/ bal.vault < Amount[on[a]]
    /\ Stop(a)
    /\ UNCHANGED <<vars, lock, reversals>>

\* After updateTransactionStatus the reaper has a second status to write.
AfterUpdate(a) ==
    CASE task[a] # "reap" -> GoOn(a, "finish")
      [] task[a] = "reap" /\ goal[a] = "reversed" ->
            /\ step' = [step EXCEPT ![a] = "check"]
            /\ goal' = [goal EXCEPT ![a] = "failed"]
            /\ UNCHANGED <<task, on, seen>>
      [] OTHER -> Stop(a)

\* updateTransactionStatus reads the status and validates the transition ...
CheckStatus(a) ==
    /\ step[a] = "check"
    /\ IF CanMove(txStatus[on[a]], goal[a]) THEN GoOn(a, "write") ELSE AfterUpdate(a)
    /\ UNCHANGED <<vars, lock, reversals>>

\* ... and writes the new one, whatever it is by then.
WriteStatus(a) ==
    /\ step[a] = "write"
    /\ txStatus' = [txStatus EXCEPT ![on[a]] = goal[a]]
    /\ AfterUpdate(a)
    /\ UNCHANGED <<stage, claim, lease, money, targetLocked, workers, limits, lock, reversals>>

\* The last write of a procedure: metadata from the copy it read, and for a
\* hold and the reverse route the status with it.
Finish(a) ==
    LET t == on[a] IN
    /\ step[a] = "finish"
    /\ lock' = [lock EXCEPT ![t] =
        CASE task[a] = "hold" ->
                [prev |-> seen[a].status, audit |-> "PENDING", due |-> FALSE]
          [] task[a] = "pass" -> [seen[a].lock EXCEPT !.audit = "PASSED"]
          [] task[a] = "fail" -> [seen[a].lock EXCEPT !.audit = "FAILED"]
          [] OTHER -> seen[a].lock]
    /\ txStatus' = IF task[a] \in {"hold", "void"}
                     THEN [txStatus EXCEPT ![t] = goal[a]] ELSE txStatus
    /\ Stop(a)
    /\ UNCHANGED <<stage, claim, lease, money, targetLocked, workers, limits, reversals>>

\* The internal worker's resolve route, for any verdict but 'completed'.
RouteFail(a, t) ==
    /\ step[a] = "idle" /\ a \in Staff
    /\ txStatus[t] # "none"
    /\ txStatus' = [txStatus EXCEPT ![t] = "failed"]
    /\ UNCHANGED <<stage, claim, lease, money, targetLocked, workers, limits, lock, reversals,
                   agents>>

-----------------------------------------------------------------------------
(* The environment. *)

\* 24 hours pass since a transaction was held.
HoldOverdue(t) ==
    /\ txStatus[t] = "held_for_review"
    /\ ~lock[t].due
    /\ lock' = [lock EXCEPT ![t].due = TRUE]
    /\ UNCHANGED <<vars, reversals, agents>>

AgentCrash(a) ==
    /\ step[a] # "idle"
    /\ faults < MaxFaults
    /\ faults' = faults + 1
    /\ Stop(a)
    /\ UNCHANGED <<rows, money, targetLocked, workers, refusals, lock, reversals>>

\* The lease of a transfer runs out; a reaper still reversing it is late.
Reaping(t) == \E w \in Reaper : step[w] # "idle" /\ task[w] = "reap" /\ on[w] = t

LeaseRunsOut(t) ==
    /\ LeaseExpire(t)
    /\ Reaping(t) => faults < MaxFaults
    /\ UNCHANGED <<lock, reversals, agents>>

-----------------------------------------------------------------------------
\* A reaper is either in completeSettlement or in a procedure of this module.
ReaperFree(w) == w \in Reaper => step[w] = "idle"

Settle(w) ==
    \/ /\ ReaperFree(w)
       /\ \E t \in Transfer : Claim(w, t) \/ ClaimAlreadySettled(w, t)
    \/ AppendRelease(w) \/ AppendSkip(w) \/ VerifyZeroSum(w)
    \/ w \notin Reaper /\ GivenUp(w)
    \/ AppendRejected(w) /\ targetLocked
    \/ FinalizeAlready(w) /\ pc[w] = "balanced"
    \/ FinalizeCompleted(w) \/ FinalizeRefused(w)
    \/ Crash(w)

AgentStep(a) ==
    \/ ApproveSettle(a) \/ ReReadOverdue(a)
    \/ ReadLegs(a) \/ PostReversal(a) \/ PostRefused(a)
    \/ CheckStatus(a) \/ WriteStatus(a) \/ Finish(a)
    \/ AgentCrash(a)

ReviewNext ==
    \/ \E w \in Worker : Settle(w) /\ UNCHANGED <<lock, reversals, agents>>
    \/ \E w \in Worker : ReaperGivesUp(w)
    \/ \E t \in Transfer :
        \/ StageTransfer(t) /\ UNCHANGED <<lock, reversals, agents>>
        \/ LeaseRunsOut(t)
        \/ HoldOverdue(t)
    \/ (LockTarget \/ UnlockTarget) /\ UNCHANGED <<lock, reversals, agents>>
    \/ \E a \in Agent, t \in Transfer :
        \/ HoldRead(a, t) \/ ApproveRead(a, t) \/ ReverseRead(a, t)
        \/ RouteReverse(a, t) \/ RouteFail(a, t) \/ ListOverdue(a, t)
        \/ \E decision \in {"pass", "fail"} : AuditRead(a, t, decision)
    \/ \E a \in Agent : AgentStep(a)

ReviewSpec == ReviewInit /\ [][ReviewNext]_reviewVars

-----------------------------------------------------------------------------
(* Properties *)

\* A settlement is stopped at any point: once a transaction is held, reversed or
\* failed, by staff, by the reaper or by an internal route, only an approval that
\* read a passed audit completes it, never a worker that had claimed, released
\* or verified it before.
HoldStopsSettlement ==
    [][\A t \in Transfer :
        txStatus[t] \in {"held_for_review", "reversed", "failed"} /\ txStatus'[t] = "completed"
            => \E a \in Agent :
                on[a] = t /\ task[a] = "approve" /\ seen[a].lock.audit = "PASSED"]_reviewVars

\* The sender gets the money of a transfer back at most once.
ReversedAtMostOnce == \A t \in Transfer : reversals[t] <= 1
=============================================================================
