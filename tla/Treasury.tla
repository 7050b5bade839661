------------------------------ MODULE Treasury ------------------------------
(***************************************************************************)
(* Withdrawals from the treasury goals of an organization, together with   *)
(* the governance that decides who may approve them. A withdrawal is asked *)
(* for by a member, held until a quorum of approvers has agreed, and then  *)
(* executed by whoever holds its execution lease: the server process of    *)
(* the approver that completed the quorum, or the reaper after the lease   *)
(* ran out. The execution is a sequence of separate calls; a process may   *)
(* stop between any two and another one may start over meanwhile.          *)
(***************************************************************************)
EXTENDS Organization, Functions

CONSTANTS
    Withdrawal,     \* withdrawals that may be asked for
    Requester,      \* the users that ask for withdrawals
    Wallet,         \* wallets of active members, the destinations
    GoalOf,         \* the goal each withdrawal is drawn on
    Amount,         \* amount of each withdrawal
    InitGoal,       \* balance of each goal at the start
    TxLimit,        \* max_amount_per_tx of the policy
    DailyLimit,     \* daily_limit of the policy
    Worker,         \* server processes that execute withdrawals
    NoJob,          \* no withdrawal
    MaxCrashes,     \* bound on processes that stop
    MaxBlocks       \* bound on wallets that are locked

Goal == DOMAIN InitGoal
ASSUME WithdrawalAssumption ==
    /\ GoalOf \in [Withdrawal -> Goal] /\ Amount \in [Withdrawal -> Nat \ {0}]
    /\ InitGoal \in [Goal -> Nat] /\ IsFiniteSet(Withdrawal)
ASSUME LimitAssumption ==
    TxLimit \in Nat /\ DailyLimit \in Nat /\ MaxCrashes \in Nat /\ MaxBlocks \in Nat
ASSUME PartiesAssumption == NoJob \notin Withdrawal /\ Requester \subseteq User

VARIABLES
    wd,             \* the transaction row of each withdrawal
    goal,           \* goals.current
    received,       \* what each destination wallet received
    legs,           \* how often the two legs of a withdrawal were posted
    blocked,        \* the wallets that are locked
    blocks,         \* how often a wallet was locked
    pc, job,        \* where each process is, and with which withdrawal
    crashes

money == <<goal, received, legs>>
locks == <<blocked, blocks>>
rows == <<wd, money, locks>>
processes == <<pc, job, crashes>>
treasuryVars == <<rows, processes>>

Row == [status : {"none", "asking", "held_for_review", "processing", "completed"},
        maker : User \cup {NoOne}, to : Wallet \cup {NoJob}, need : Nat, yes : SUBSET User,
        lease : {"none", "active", "expired"}]

TreasuryInit ==
    /\ Init
    /\ wd = [t \in Withdrawal |-> [status |-> "none", maker |-> NoOne, to |-> NoJob, need |-> 0,
                                   yes |-> {}, lease |-> "none"]]
    /\ goal = InitGoal
    /\ received = [w \in Wallet |-> 0]
    /\ legs = [t \in Withdrawal |-> 0]
    /\ blocked = {} /\ blocks = 0
    /\ pc = [w \in Worker |-> "idle"]
    /\ job = [w \in Worker |-> NoJob]
    /\ crashes = 0

Withdrawals(S) == {t \in Withdrawal : wd[t].status \in S}
Max2(n) == IF n < 2 THEN 2 ELSE n

-----------------------------------------------------------------------------
(* Asking for a withdrawal. *)

\* Mutant: a withdrawal counts once it is approved.
UsedApproved == SumFunctionOnSet(Amount, Withdrawals({"processing", "completed"}))
\* The withdrawals of the day that count against its limit.
Used == SumFunctionOnSet(Amount, Withdrawals({"held_for_review", "processing", "completed"}))

\* request_treasury_withdrawal_v1 locks the goal, the requester and the wallet;
\* requests that share none of the three run side by side.
LocksFree(t, u, w) ==
    \A p \in Withdrawals({"asking"}) : GoalOf[p] # GoalOf[t] /\ wd[p].maker # u /\ wd[p].to # w

\* The sum of the day and the insert are two statements of one database function.
CheckRequest(t, u, w) ==
    /\ wd[t].status = "none"
    /\ Member(u)
    /\ LocksFree(t, u, w)
    /\ w \notin blocked
    /\ goal[GoalOf[t]] >= Amount[t]
    /\ Amount[t] <= TxLimit
    /\ Used + Amount[t] <= DailyLimit
    /\ wd' = [wd EXCEPT ![t] = [status |-> "asking", maker |-> u, to |-> w, need |-> Max2(quorum),
                                yes |-> {}, lease |-> "none"]]
    /\ UNCHANGED <<money, locks, processes>>

InsertRequest(t) ==
    /\ wd[t].status = "asking"
    /\ wd' = [wd EXCEPT ![t].status = "held_for_review"]
    /\ UNCHANGED <<money, locks, processes>>

-----------------------------------------------------------------------------
(* Approvals. *)

\* Mutant: whoever asked may approve.
MayApproveOwn(t, u) == u \in Eligible /\ u \notin wd[t].yes
MayApprove(t, u) == u \in Eligible /\ u # wd[t].maker /\ u \notin wd[t].yes

Approve(t, u) ==
    /\ wd[t].status = "held_for_review"
    /\ MayApprove(t, u)
    /\ Cardinality(wd[t].yes) + 1 < Max2(wd[t].need)
    /\ wd' = [wd EXCEPT ![t].yes = @ \cup {u}]
    /\ UNCHANGED <<money, locks, processes>>

\* The approval that completes the quorum claims the execution for the server
\* process it came through.
ApproveLast(t, u, w) ==
    /\ wd[t].status = "held_for_review"
    /\ MayApprove(t, u)
    /\ Cardinality(wd[t].yes) + 1 >= Max2(wd[t].need)
    /\ pc[w] = "idle"
    /\ wd' = [wd EXCEPT ![t] = [[[wd[t] EXCEPT !.yes = wd[t].yes \cup {u}] EXCEPT !.status = "processing"]
                                 EXCEPT !.lease = "active"]]
    /\ pc' = [pc EXCEPT ![w] = "claimed"]
    /\ job' = [job EXCEPT ![w] = t]
    /\ UNCHANGED <<money, locks, crashes>>

-----------------------------------------------------------------------------
(* The execution of an approved withdrawal. *)

LeaseExpire(t) ==
    /\ wd[t].lease = "active"
    /\ wd' = [wd EXCEPT ![t].lease = "expired"]
    /\ UNCHANGED <<money, locks, processes>>

\* Mutant: only a RETRYABLE execution can be claimed, and nothing makes it that.
ClaimableRetryable(t) == FALSE
Claimable(t) == wd[t].status = "processing" /\ wd[t].lease = "expired"

\* recoverClaimedWithdrawal takes over a withdrawal whose lease ran out.
Claim(w, t) ==
    /\ pc[w] = "idle"
    /\ Claimable(t)
    /\ wd' = [wd EXCEPT ![t].lease = "active"]
    /\ pc' = [pc EXCEPT ![w] = "claimed"]
    /\ job' = [job EXCEPT ![w] = t]
    /\ UNCHANGED <<money, locks, crashes>>

Goto(w, p) == pc' = [pc EXCEPT ![w] = p] /\ UNCHANGED <<job, crashes>>
Drop(w) ==
    /\ pc' = [pc EXCEPT ![w] = "idle"]
    /\ job' = [job EXCEPT ![w] = NoJob]
    /\ UNCHANGED crashes

\* The row must be processing; the execution token is not compared.
ReadRow(w) ==
    /\ pc[w] = "claimed"
    /\ IF wd[job[w]].status = "processing" THEN Goto(w, "read") ELSE Drop(w)
    /\ UNCHANGED rows

ReadLegs(w) ==
    /\ pc[w] = "read"
    /\ Goto(w, IF legs[job[w]] > 0 THEN "posted" ELSE "append")
    /\ UNCHANGED rows

\* Mutant: the append carries no key.
AppendUnkeyed(t) == TRUE
\* append_ledger_entries_v1 refuses a second append with the same key.
AppendIsNew(t) == legs[t] = 0

GoalCovers(t) == goal[GoalOf[t]] >= Amount[t]
\* The destination is looked at again: it may have been locked since the request.
Postable(t) == GoalCovers(t) /\ wd[t].to \notin blocked

AppendLegs(w) ==
    LET t == job[w] IN
    /\ pc[w] = "append"
    /\ AppendIsNew(t) /\ Postable(t)
    /\ legs' = [legs EXCEPT ![t] = @ + 1]
    /\ goal' = [goal EXCEPT ![GoalOf[t]] = @ - Amount[t]]
    /\ received' = [received EXCEPT ![wd[t].to] = @ + Amount[t]]
    /\ Goto(w, "posted")
    /\ UNCHANGED <<wd, locks>>

\* APPEND_ALREADY_APPLIED, WALLET_LOCKED or INSUFFICIENT_FUNDS: the process gives
\* up and the withdrawal stays processing.
AppendRejected(w) ==
    LET t == job[w] IN
    /\ pc[w] = "append"
    /\ ~AppendIsNew(t) \/ ~Postable(t)
    /\ Drop(w)
    /\ UNCHANGED rows

\* updateTransactionStatus reads the status, and writes it if the move is legal.
CheckStatus(w) ==
    /\ pc[w] = "posted"
    /\ Goto(w, IF wd[job[w]].status = "processing" THEN "write" ELSE "meta")
    /\ UNCHANGED rows

WriteStatus(w) ==
    /\ pc[w] = "write"
    /\ wd' = [wd EXCEPT ![job[w]].status = "completed"]
    /\ Goto(w, "meta")
    /\ UNCHANGED <<money, locks>>

\* execution_state COMPLETED, on a completed row only.
FinishExecution(w) ==
    /\ pc[w] = "meta"
    /\ wd' = [wd EXCEPT ![job[w]].lease = IF wd[job[w]].status = "completed" THEN "none" ELSE @]
    /\ Drop(w)
    /\ UNCHANGED <<money, locks>>

Crash(w) ==
    /\ pc[w] # "idle" /\ crashes < MaxCrashes
    /\ crashes' = crashes + 1
    /\ pc' = [pc EXCEPT ![w] = "idle"] /\ job' = [job EXCEPT ![w] = NoJob]
    /\ UNCHANGED rows

Execute(w) ==
    \/ ReadRow(w) \/ ReadLegs(w) \/ AppendLegs(w) \/ AppendRejected(w)
    \/ CheckStatus(w) \/ WriteStatus(w) \/ FinishExecution(w)

-----------------------------------------------------------------------------
(* An administrator or its owner locks a wallet and unlocks it. *)

LockWallet(w) ==
    /\ w \notin blocked /\ blocks < MaxBlocks
    /\ blocked' = blocked \cup {w} /\ blocks' = blocks + 1
    /\ UNCHANGED <<wd, money, processes>>

UnlockWallet(w) ==
    /\ w \in blocked
    /\ blocked' = blocked \ {w}
    /\ UNCHANGED <<wd, money, blocks, processes>>

-----------------------------------------------------------------------------
TreasuryStep ==
    \/ \E t \in Withdrawal :
        \/ \E u \in Requester, w \in Wallet : CheckRequest(t, u, w)
        \/ InsertRequest(t) \/ LeaseExpire(t)
        \/ \E u \in User : Approve(t, u)
        \/ \E u \in User, w \in Worker : ApproveLast(t, u, w)
        \/ \E w \in Worker : Claim(w, t)
    \/ \E w \in Worker : Execute(w) \/ Crash(w)
    \/ \E w \in Wallet : LockWallet(w) \/ UnlockWallet(w)

TreasuryNext ==
    \/ Next /\ UNCHANGED treasuryVars
    \/ TreasuryStep /\ UNCHANGED vars

\* A process that runs goes on, the lease of a withdrawal ends, and the reaper goes
\* through everything that is processing, one withdrawal after the other and past
\* those that fail: strong fairness, because it is busy in between.
TreasuryFairness ==
    /\ \A w \in Worker : WF_<<vars, treasuryVars>>(Execute(w) /\ UNCHANGED vars)
    /\ \A t \in Withdrawal :
        /\ WF_<<vars, treasuryVars>>(LeaseExpire(t) /\ UNCHANGED vars)
        /\ SF_<<vars, treasuryVars>>((\E w \in Worker : Claim(w, t)) /\ UNCHANGED vars)

TreasurySpec == TreasuryInit /\ [][TreasuryNext]_<<vars, treasuryVars>>
FairTreasurySpec == TreasurySpec /\ TreasuryFairness

-----------------------------------------------------------------------------
(* Properties *)

\* The variables keep their types.
TreasuryTypeOK ==
    /\ wd \in [Withdrawal -> Row]
    /\ blocked \subseteq Wallet /\ blocks \in 0..MaxBlocks
    /\ goal \in [Goal -> Nat] /\ received \in [Wallet -> Nat] /\ legs \in [Withdrawal -> Nat]
    /\ pc \in [Worker -> {"idle", "claimed", "read", "append", "posted", "write", "meta"}]
    /\ job \in [Worker -> Withdrawal \cup {NoJob}] /\ crashes \in 0..MaxCrashes

\* Money leaves a goal only after the quorum the policy asked for when the
\* withdrawal was made, at least two, has approved: distinct people, none of them
\* the one who asked, whatever happens to the roster and to the policy meanwhile.
QuorumBeforeMoney ==
    \A t \in Withdrawal : legs[t] > 0 =>
        /\ wd[t].maker \notin wd[t].yes
        /\ Cardinality(wd[t].yes) >= 2 /\ Cardinality(wd[t].yes) >= wd[t].need

\* Two processes that execute the same withdrawal, each under a lease of its own,
\* move its money once; and a withdrawal reported completed has moved it.
WithdrawnOnce ==
    \A t \in Withdrawal : legs[t] <= 1 /\ (wd[t].status = "completed" => legs[t] = 1)

\* What is asked for in a day stays within the daily limit while all of it is drawn
\* on one goal, whose row serializes the requests.
WithinDailyLimit ==
    SumFunctionOnSet(Amount, {t \in Withdrawal : wd[t].status \notin {"none", "asking"}}) <= DailyLimit

\* An approved withdrawal is completed without anybody's help, unless other
\* withdrawals emptied its goal first or its destination was locked for good: the
\* reaper is refused as long as the wallet is locked, and comes back.
ApprovedGetsPaid ==
    \A t \in Withdrawal :
        wd[t].status = "processing" ~>
            (wd[t].status = "completed" \/ goal[GoalOf[t]] < Amount[t] \/ [](wd[t].to \in blocked))
=============================================================================
