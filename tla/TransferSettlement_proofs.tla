--------------------- MODULE TransferSettlement_proofs ---------------------
(***************************************************************************)
(* Proofs about TransferSettlement, for any number of transfers, workers   *)
(* and faults, and about SettlementReview, with any number of staff members *)
(* and reapers besides.                                                    *)
(***************************************************************************)
EXTENDS SettlementReview, SumTheorems, FiniteSetTheorems, TLAPS

\* What the rows of one transfer say about each other.
RowsAgree(t) ==
    /\ marker[t] => released[t] = 1
    /\ ~marker[t] => released[t] = 0
    /\ marker[t] => txStatus[t] # "none"
    /\ stage[t] # "NONE" => txStatus[t] # "none"
    /\ txStatus[t] = "completed" => stage[t] = "SETTLED"
    /\ stage[t] = "SETTLED" => marker[t]

\* What a worker may rely on between two calls, whatever the others did in the
\* meantime: its transfer is posted and, past the append, released.
WorkerKnows(w) ==
    pc[w] # "idle" =>
        /\ job[w] \in Transfer
        /\ stage[job[w]] # "NONE"
        /\ pc[w] # "claimed" => marker[job[w]]

IInv ==
    /\ TypeOK
    /\ \A t \in Transfer : RowsAgree(t)
    /\ \A w \in Worker : WorkerKnows(w)

\* The invariant holds before the first transfer is posted.
LEMMA InitIInv == Init => IInv
<1> SUFFICES ASSUME Init PROVE IInv
  OBVIOUS
<1> USE DEF Init, limits
<1>1. TypeOK
  <2>1. txStatus \in [Transfer -> TxStatus] /\ stage \in [Transfer -> Stage]
    BY DEF TxStatus, Stage
  <2>2. bal \in [source : Nat, vault : Nat, target : Nat]
    BY OpeningAssumption
  <2>3. pc \in [Worker -> WorkerPC] /\ job \in [Worker -> Transfer \cup {NoTransfer}]
    BY DEF WorkerPC
  <2> QED BY <2>1, <2>2, <2>3 DEF TypeOK
<1>2. \A t \in Transfer : RowsAgree(t)
  BY DEF RowsAgree
<1>3. \A w \in Worker : WorkerKnows(w)
  BY DEF WorkerKnows
<1> QED BY <1>1, <1>2, <1>3 DEF IInv

\* Every call keeps the types, and no debit takes a balance below zero.
LEMMA TypeStep == TypeOK /\ (\A w \in Worker : WorkerKnows(w)) /\ [Next]_vars => TypeOK'
<1> SUFFICES ASSUME TypeOK, \A w \in Worker : WorkerKnows(w), [Next]_vars
             PROVE  TypeOK'
  OBVIOUS
<1> USE DEF TypeOK, rows, money, workers, limits, TxStatus, Stage, WorkerPC
<1>1. ASSUME NEW t \in Transfer, StageTransfer(t) PROVE TypeOK'
  <2>a. Amount[t] \in Nat
    BY AmountAssumption
  <2>b. bal.source \in Nat /\ bal.vault \in Nat /\ bal.target \in Nat
    OBVIOUS
  <2>c. bal.source >= Amount[t]
    BY <1>1 DEF StageTransfer, SourceCovers
  <2>1. bal.source - Amount[t] \in Nat /\ bal.vault + Amount[t] \in Nat
    BY <2>a, <2>b, <2>c
  <2>2. ToVault(Amount[t]) \in [source : Nat, vault : Nat, target : Nat]
    BY <2>1, <2>b DEF ToVault
  <2>3. bal' \in [source : Nat, vault : Nat, target : Nat]
    BY <1>1, <2>2 DEF StageTransfer
  <2> QED BY <1>1, <2>3 DEF StageTransfer
<1>2. ASSUME NEW t \in Transfer, LeaseExpire(t) PROVE TypeOK'
  BY <1>2 DEF LeaseExpire
<1>3. ASSUME NEW w \in Worker, NEW t \in Transfer, Claim(w, t) PROVE TypeOK'
  BY <1>3 DEF Claim
<1>4. ASSUME NEW w \in Worker, NEW t \in Transfer, ClaimAlreadySettled(w, t) PROVE TypeOK'
  BY <1>4 DEF ClaimAlreadySettled
<1>5. ASSUME NEW w \in Worker, WorkerStep(w) PROVE TypeOK'
  <2>0. pc[w] # "idle" => job[w] \in Transfer
    BY DEF WorkerKnows
  <2>1. CASE AppendRelease(w)
    <3>a. Amount[job[w]] \in Nat
      BY <2>0, <2>1, AmountAssumption DEF AppendRelease
    <3>b. bal.source \in Nat /\ bal.vault \in Nat /\ bal.target \in Nat
      OBVIOUS
    <3>c. bal.vault >= Amount[job[w]]
      BY <2>1 DEF AppendRelease, ReleasePossible
    <3>1. bal.vault - Amount[job[w]] \in Nat /\ bal.target + Amount[job[w]] \in Nat
      BY <3>a, <3>b, <3>c
    <3>2. FromVault(Amount[job[w]]) \in [source : Nat, vault : Nat, target : Nat]
      BY <3>1, <3>b DEF FromVault
    <3>3. bal' \in [source : Nat, vault : Nat, target : Nat]
      BY <2>1, <3>2 DEF AppendRelease
    <3> QED BY <2>0, <2>1, <3>3 DEF AppendRelease, Advance
  <2>2. CASE AppendSkip(w)
    BY <2>2 DEF AppendSkip, Advance
  <2>3. CASE AppendRejected(w)
    BY <2>3 DEF AppendRejected, Leave
  <2>4. CASE VerifyZeroSum(w)
    BY <2>4 DEF VerifyZeroSum, Advance
  <2>5. CASE FinalizeAlready(w)
    BY <2>5 DEF FinalizeAlready, Leave
  <2>6. CASE FinalizeCompleted(w)
    BY <2>6 DEF FinalizeCompleted, Leave
  <2>7. CASE FinalizeHeld(w)
    BY <2>7 DEF FinalizeHeld, Leave
  <2>8. CASE FinalizeRefused(w)
    BY <2>8 DEF FinalizeRefused, Leave
  <2> QED BY <1>5, <2>1, <2>2, <2>3, <2>4, <2>5, <2>6, <2>7, <2>8 DEF WorkerStep
<1>6. ASSUME NEW w \in Worker, Crash(w) PROVE TypeOK'
  BY <1>6 DEF Crash, Leave
<1>7. CASE LockTarget
  BY <1>7 DEF LockTarget
<1>8. CASE UnlockTarget
  BY <1>8 DEF UnlockTarget
<1>9. CASE UNCHANGED vars
  BY <1>9 DEF vars
<1> QED BY <1>1, <1>2, <1>3, <1>4, <1>5, <1>6, <1>7, <1>8, <1>9 DEF Next

\* Every call keeps the rows of every transfer in agreement.
LEMMA RowsStep == IInv /\ [Next]_vars => \A u \in Transfer : RowsAgree(u)'
<1> SUFFICES ASSUME IInv, [Next]_vars, NEW u \in Transfer PROVE RowsAgree(u)'
  OBVIOUS
<1>t. TypeOK
  BY DEF IInv
<1>r. \A t \in Transfer : RowsAgree(t)
  BY DEF IInv
<1>k. \A w \in Worker : WorkerKnows(w)
  BY DEF IInv
<1> USE DEF TypeOK, RowsAgree, WorkerKnows, rows, money, workers, limits
<1>1. ASSUME NEW t \in Transfer, StageTransfer(t) PROVE RowsAgree(u)'
  BY <1>t, <1>r, <1>1 DEF StageTransfer
<1>2. ASSUME NEW t \in Transfer, LeaseExpire(t) PROVE RowsAgree(u)'
  BY <1>t, <1>r, <1>2 DEF LeaseExpire
<1>3. ASSUME NEW w \in Worker, NEW t \in Transfer, Claim(w, t) PROVE RowsAgree(u)'
  BY <1>t, <1>r, <1>3 DEF Claim, AlreadySettled
<1>4. ASSUME NEW w \in Worker, NEW t \in Transfer, ClaimAlreadySettled(w, t) PROVE RowsAgree(u)'
  BY <1>t, <1>r, <1>4 DEF ClaimAlreadySettled, AlreadySettled
<1>5. ASSUME NEW w \in Worker, WorkerStep(w) PROVE RowsAgree(u)'
  <2>0. pc[w] # "idle" => job[w] \in Transfer
    BY <1>k
  <2>1. CASE AppendRelease(w)
    BY <1>t, <1>r, <1>k, <2>0, <2>1 DEF AppendRelease, AppendIsNew, Advance
  <2>2. CASE AppendSkip(w)
    BY <1>t, <1>r, <2>2 DEF AppendSkip, AppendIsNew, Advance
  <2>3. CASE AppendRejected(w)
    BY <1>t, <1>r, <2>3 DEF AppendRejected, Leave
  <2>4. CASE VerifyZeroSum(w)
    BY <1>t, <1>r, <2>4 DEF VerifyZeroSum, Advance
  <2>5. CASE FinalizeAlready(w)
    BY <1>t, <1>r, <2>5 DEF FinalizeAlready, AlreadySettled, Leave
  <2>6. CASE FinalizeCompleted(w)
    BY <1>t, <1>r, <1>k, <2>6 DEF FinalizeCompleted, Leave
  <2>7. CASE FinalizeHeld(w)
    BY <1>t, <1>r, <2>7 DEF FinalizeHeld, AlreadySettled, MayFinalize, Leave
  <2>8. CASE FinalizeRefused(w)
    BY <1>t, <1>r, <2>8 DEF FinalizeRefused, Leave
  <2> QED BY <1>5, <2>1, <2>2, <2>3, <2>4, <2>5, <2>6, <2>7, <2>8 DEF WorkerStep
<1>6. ASSUME NEW w \in Worker, Crash(w) PROVE RowsAgree(u)'
  BY <1>t, <1>r, <1>6 DEF Crash, Leave
<1>7. CASE LockTarget
  BY <1>t, <1>r, <1>7 DEF LockTarget
<1>8. CASE UnlockTarget
  BY <1>t, <1>r, <1>8 DEF UnlockTarget
<1>9. CASE UNCHANGED vars
  BY <1>t, <1>r, <1>9 DEF vars
<1> QED BY <1>1, <1>2, <1>3, <1>4, <1>5, <1>6, <1>7, <1>8, <1>9 DEF Next

\* No call of another worker takes away what a worker may rely on.
LEMMA KnowsStep == TypeOK /\ (\A w \in Worker : WorkerKnows(w)) /\ [Next]_vars => \A v \in Worker : WorkerKnows(v)'
<1> SUFFICES ASSUME TypeOK, \A w \in Worker : WorkerKnows(w), [Next]_vars, NEW v \in Worker PROVE WorkerKnows(v)'
  OBVIOUS
<1> USE DEF TypeOK, WorkerKnows, rows, money, workers, limits
<1>1. ASSUME NEW t \in Transfer, StageTransfer(t) PROVE WorkerKnows(v)'
  BY <1>1 DEF StageTransfer
<1>2. ASSUME NEW t \in Transfer, LeaseExpire(t) PROVE WorkerKnows(v)'
  BY <1>2 DEF LeaseExpire
<1>3. ASSUME NEW w \in Worker, NEW t \in Transfer, Claim(w, t) PROVE WorkerKnows(v)'
  BY <1>3 DEF Claim, AlreadySettled
<1>4. ASSUME NEW w \in Worker, NEW t \in Transfer, ClaimAlreadySettled(w, t) PROVE WorkerKnows(v)'
  BY <1>4 DEF ClaimAlreadySettled, AlreadySettled
<1>5. ASSUME NEW w \in Worker, WorkerStep(w) PROVE WorkerKnows(v)'
  <2>0. pc[w] # "idle" => job[w] \in Transfer
    OBVIOUS
  <2>1. CASE AppendRelease(w)
    BY <2>0, <2>1 DEF AppendRelease, AppendIsNew, Advance
  <2>2. CASE AppendSkip(w)
    BY <2>2 DEF AppendSkip, AppendIsNew, Advance
  <2>3. CASE AppendRejected(w)
    BY <2>3 DEF AppendRejected, Leave
  <2>4. CASE VerifyZeroSum(w)
    BY <2>4 DEF VerifyZeroSum, Advance
  <2>5. CASE FinalizeAlready(w)
    BY <2>5 DEF FinalizeAlready, AlreadySettled, Leave
  <2>6. CASE FinalizeCompleted(w)
    BY <2>6 DEF FinalizeCompleted, Leave
  <2>7. CASE FinalizeHeld(w)
    BY <2>7 DEF FinalizeHeld, AlreadySettled, Leave
  <2>8. CASE FinalizeRefused(w)
    BY <2>8 DEF FinalizeRefused, Leave
  <2> QED BY <1>5, <2>1, <2>2, <2>3, <2>4, <2>5, <2>6, <2>7, <2>8 DEF WorkerStep
<1>6. ASSUME NEW w \in Worker, Crash(w) PROVE WorkerKnows(v)'
  BY <1>6 DEF Crash, Leave
<1>7. CASE LockTarget
  BY <1>7 DEF LockTarget
<1>8. CASE UnlockTarget
  BY <1>8 DEF UnlockTarget
<1>9. CASE UNCHANGED vars
  BY <1>9 DEF vars
<1> QED BY <1>1, <1>2, <1>3, <1>4, <1>5, <1>6, <1>7, <1>8, <1>9 DEF Next

\* The workers' knowledge and the rows' agreement hold in every reachable state.
THEOREM Inductive == Spec => []IInv
<1>1. IInv /\ [Next]_vars => IInv'
  <2> SUFFICES ASSUME IInv, [Next]_vars PROVE IInv'
    OBVIOUS
  <2>1. TypeOK'
    BY TypeStep DEF IInv
  <2>2. (\A u \in Transfer : RowsAgree(u)') /\ (\A v \in Worker : WorkerKnows(v)')
    BY RowsStep, KnowsStep DEF IInv
  <2> QED BY <2>1, <2>2 DEF IInv
<1> QED BY <1>1, InitIInv, PTL DEF Spec
-----------------------------------------------------------------------------
\* The rows, balances and worker variables keep their types and no balance is
\* ever negative, for any number of transfers and workers.
THEOREM TypeCorrect == Spec => []TypeOK
BY Inductive, PTL DEF IInv

\* However many workers run completeSettlement on a transfer, crash in it and
\* overrun their leases, the receiver is paid at most once.
THEOREM NoDoubleRelease == Spec => []ReleasedAtMostOnce
<1>1. IInv => ReleasedAtMostOnce
  BY DEF IInv, TypeOK, RowsAgree, ReleasedAtMostOnce
<1> QED BY <1>1, Inductive, PTL

\* A transfer that reads completed, or whose lifecycle reads SETTLED, was paid.
THEOREM CompletedIsDelivered == Spec => []CompletedMeansDelivered
<1>1. IInv => CompletedMeansDelivered
  BY DEF IInv, RowsAgree, CompletedMeansDelivered
<1> QED BY <1>1, Inductive, PTL

\* Only the worker that holds the newest claim moves a lifecycle out of PROCESSING.
THEOREM OnlyOwnerDecides == Spec => OwnerDecides
<1> DEFINE Decided(t) == stage[t] = "PROCESSING" /\ stage'[t] # "PROCESSING"
           Owned(t) == \E w \in Worker : Holds(w, t) /\ pc'[w] = "idle"
<1>1. IInv /\ [Next]_vars => [\A t \in Transfer : Decided(t) => Owned(t)]_vars
  <2> SUFFICES ASSUME IInv, Next, NEW u \in Transfer, Decided(u) PROVE Owned(u)
    OBVIOUS
  <2> USE DEF rows, money, workers, limits
  <2>t. TypeOK /\ RowsAgree(u)
    BY DEF IInv
  <2>k. \A w \in Worker : WorkerKnows(w)
    BY DEF IInv
  <2>1. ASSUME NEW t \in Transfer, StageTransfer(t) \/ LeaseExpire(t) PROVE FALSE
    BY <2>1 DEF StageTransfer, LeaseExpire
  <2>2. ASSUME NEW w \in Worker, NEW t \in Transfer, Claim(w, t) PROVE FALSE
    BY <2>t, <2>2 DEF Claim, TypeOK
  <2>3. ASSUME NEW w \in Worker, NEW t \in Transfer, ClaimAlreadySettled(w, t) PROVE FALSE
    BY <2>t, <2>3 DEF ClaimAlreadySettled, AlreadySettled, TypeOK, RowsAgree
  <2>4. ASSUME NEW w \in Worker, WorkerStep(w) PROVE Owned(u)
    <3>1. CASE AppendRelease(w) \/ AppendSkip(w) \/ AppendRejected(w) \/ VerifyZeroSum(w)
      BY <3>1 DEF AppendRelease, AppendSkip, AppendRejected, VerifyZeroSum
    <3>2. CASE FinalizeAlready(w)
      BY <2>t, <3>2 DEF FinalizeAlready, AlreadySettled, TypeOK, RowsAgree
    <3>3. CASE FinalizeCompleted(w)
      BY <2>t, <2>k, <3>3 DEF FinalizeCompleted, MayFinalize, Leave, TypeOK, WorkerKnows, Holds
    <3>4. CASE FinalizeHeld(w)
      BY <2>t, <2>k, <3>4 DEF FinalizeHeld, MayFinalize, Leave, TypeOK, WorkerKnows, Holds
    <3>5. CASE FinalizeRefused(w)
      BY <3>5 DEF FinalizeRefused
    <3> QED BY <2>4, <3>1, <3>2, <3>3, <3>4, <3>5 DEF WorkerStep
  <2>5. ASSUME NEW w \in Worker, Crash(w) PROVE FALSE
    BY <2>5 DEF Crash
  <2>6. CASE LockTarget \/ UnlockTarget
    BY <2>6 DEF LockTarget, UnlockTarget
  <2> QED BY <2>1, <2>2, <2>3, <2>4, <2>5, <2>6 DEF Next
<1> QED BY <1>1, Inductive, PTL DEF Spec, OwnerDecides
-----------------------------------------------------------------------------
\* A step that changes neither a balance nor where a transfer's money is.
LEMMA Stutter ==
    ASSUME UNCHANGED bal, UNCHANGED released,
           \A t \in Transfer : txStatus'[t] = "none" <=> txStatus[t] = "none"
    PROVE  UNCHANGED Promise!vars
BY DEF Promise!vars, place

\* The settlement code implements InternalTransfer: posting a transfer holds
\* its money, the one append that inserts the marker delivers it, and every
\* other call of every worker, retries included, moves no money.
THEOREM Refinement == Spec => ImplementsInternalTransfer
<1>1. Init => Promise!Init
  BY DEF Init, Promise!Init, place
<1>2. IInv /\ [Next]_vars => [Promise!Next]_(Promise!vars)
  <2> SUFFICES ASSUME IInv, [Next]_vars PROVE Promise!Next \/ UNCHANGED Promise!vars
    OBVIOUS
  <2> USE DEF rows, money, workers, limits
  <2>t. TypeOK
    BY DEF IInv
  <2>r. \A t \in Transfer : RowsAgree(t)
    BY DEF IInv
  <2>k. \A w \in Worker : WorkerKnows(w)
    BY DEF IInv
  <2>1. ASSUME NEW t \in Transfer, StageTransfer(t) PROVE Promise!Hold(t)
    <3>1. released[t] = 0
      BY <2>r, <2>1 DEF StageTransfer, RowsAgree
    <3>2. place[t] = "source" /\ place' = [place EXCEPT ![t] = "vault"]
      BY <2>t, <2>1, <3>1 DEF StageTransfer, TypeOK, place
    <3>3. bal.source >= Amount[t] /\ bal' = Promise!ToVault(Amount[t])
      BY <2>1 DEF StageTransfer, SourceCovers, ToVault, Promise!ToVault
    <3> QED BY <3>2, <3>3 DEF Promise!Hold
  <2>2. ASSUME NEW w \in Worker, AppendRelease(w) PROVE Promise!Deliver(job[w])
    <3> DEFINE t == job[w]
    <3>0. t \in Transfer /\ txStatus[t] # "none" /\ released[t] = 0
      BY <2>k, <2>r, <2>2 DEF AppendRelease, AppendIsNew, WorkerKnows, RowsAgree
    <3> HIDE DEF t
    <3>1. released' = [released EXCEPT ![t] = @ + 1] /\ UNCHANGED txStatus
      BY <2>2 DEF AppendRelease, t
    <3>a. released'[t] # 0 /\ \A u \in Transfer \ {t} : released'[u] = released[u]
      BY <2>t, <3>0, <3>1 DEF TypeOK
    <3>b. place[t] = "vault" /\ place'[t] = "target"
      BY <3>0, <3>1, <3>a DEF place
    <3>c. \A u \in Transfer \ {t} : place'[u] = place[u]
      BY <3>1, <3>a DEF place
    <3>2. place' = [place EXCEPT ![t] = "target"]
      BY <3>b, <3>c DEF place
    <3>3. bal.vault >= Amount[t] /\ bal' = Promise!FromVault(Amount[t])
      BY <2>2 DEF AppendRelease, ReleasePossible, FromVault, Promise!FromVault, t
    <3> QED BY <3>b, <3>2, <3>3 DEF Promise!Deliver, t
  <2>3. ASSUME NEW t \in Transfer, LeaseExpire(t) PROVE UNCHANGED Promise!vars
    BY <2>3, Stutter DEF LeaseExpire
  <2>4. ASSUME NEW w \in Worker, NEW t \in Transfer, Claim(w, t) \/ ClaimAlreadySettled(w, t)
        PROVE  UNCHANGED Promise!vars
    BY <2>4, Stutter DEF Claim, ClaimAlreadySettled
  <2>5. ASSUME NEW w \in Worker, WorkerStep(w), ~AppendRelease(w) PROVE UNCHANGED Promise!vars
    <3>1. CASE AppendSkip(w) \/ AppendRejected(w) \/ VerifyZeroSum(w) \/ FinalizeRefused(w)
      BY <3>1, Stutter DEF AppendSkip, AppendRejected, VerifyZeroSum, FinalizeRefused
    <3>2. CASE FinalizeAlready(w)
      BY <3>2, Stutter DEF FinalizeAlready
    <3>3. CASE FinalizeCompleted(w)
      BY <2>t, <3>3, Stutter DEF FinalizeCompleted, TypeOK
    <3>4. CASE FinalizeHeld(w)
      BY <2>t, <3>4, Stutter DEF FinalizeHeld, TypeOK
    <3> QED BY <2>5, <3>1, <3>2, <3>3, <3>4 DEF WorkerStep
  <2>6. ASSUME NEW w \in Worker, Crash(w) PROVE UNCHANGED Promise!vars
    BY <2>6, Stutter DEF Crash
  <2>7. CASE LockTarget \/ UnlockTarget \/ UNCHANGED vars
    BY <2>7, Stutter DEF LockTarget, UnlockTarget, vars
  <2>8. ASSUME NEW w \in Worker, AppendRelease(w) PROVE job[w] \in Transfer
    BY <2>k, <2>8 DEF AppendRelease, WorkerKnows
  <2> QED BY <2>1, <2>2, <2>3, <2>4, <2>5, <2>6, <2>7, <2>8 DEF Next, Promise!Next
<1> QED BY <1>1, <1>2, Inductive, PTL DEF Spec, ImplementsInternalTransfer, Promise!Spec
-----------------------------------------------------------------------------
\* The transfers whose money lies in the vault.
InVault == {t \in Transfer : txStatus[t] # "none" /\ released[t] = 0}

\* At any time they are finitely many, and their amounts are what the vault holds.
VaultInv == IsFiniteSet(InVault) /\ VaultCoversHeld

\* A call that neither posts nor releases a transfer leaves the vault alone.
LEMMA VaultSame ==
    ASSUME VaultInv, UNCHANGED bal, UNCHANGED released,
           \A t \in Transfer : txStatus'[t] = "none" <=> txStatus[t] = "none"
    PROVE  VaultInv'
<1>1. InVault' = InVault
  BY DEF InVault
<1>2. bal.vault = SumFunctionOnSet(Amount, InVault)
  BY DEF VaultInv, VaultCoversHeld, InVault
<1>3. bal'.vault = SumFunctionOnSet(Amount, InVault')
  BY <1>1, <1>2
<1>4. VaultCoversHeld'
  BY <1>3 DEF VaultCoversHeld, InVault
<1> QED BY <1>1, <1>4 DEF VaultInv

\* A transfer that is posted brings its amount.
LEMMA VaultGains ==
    ASSUME IInv, VaultInv, NEW t \in Transfer, StageTransfer(t)
    PROVE  VaultInv'
<1> USE DEF IInv, TypeOK
<1>1. t \notin InVault /\ InVault' = InVault \cup {t}
  <2>1. released[t] = 0
    BY DEF StageTransfer, RowsAgree
  <2>2. txStatus' = [txStatus EXCEPT ![t] = "processing"] /\ UNCHANGED released
    BY DEF StageTransfer
  <2> QED BY <2>1, <2>2 DEF StageTransfer, InVault
<1>2. \A u \in InVault \cup {t} : Amount[u] \in Int
  BY AmountAssumption DEF InVault
<1>3. SumFunctionOnSet(Amount, InVault') = SumFunctionOnSet(Amount, InVault) + Amount[t]
  <2> HIDE DEF IInv, TypeOK
  <2> QED BY <1>1, <1>2, SumAdd DEF VaultInv
<1>4. bal'.vault = bal.vault + Amount[t]
  BY DEF StageTransfer, ToVault
<1>5. bal'.vault = SumFunctionOnSet(Amount, InVault')
  BY <1>3, <1>4 DEF VaultInv, VaultCoversHeld, InVault
<1>6. IsFiniteSet(InVault')
  BY <1>1, FS_AddElement DEF VaultInv
<1> QED BY <1>5, <1>6 DEF VaultInv, VaultCoversHeld, InVault

\* A transfer that is released takes its own amount with it.
LEMMA VaultPays ==
    ASSUME IInv, VaultInv, NEW w \in Worker, AppendRelease(w)
    PROVE  VaultInv'
<1> DEFINE t == job[w]
<1>0. t \in Transfer /\ txStatus[t] # "none" /\ released[t] = 0
  BY DEF IInv, AppendRelease, AppendIsNew, WorkerKnows, RowsAgree
<1> HIDE DEF t
<1>1. t \in InVault /\ InVault' = InVault \ {t}
  <2>1. released' = [released EXCEPT ![t] = @ + 1] /\ UNCHANGED txStatus
    BY DEF AppendRelease, t, rows
  <2>2. released \in [Transfer -> Nat]
    BY DEF IInv, TypeOK
  <2>3. released'[t] # 0 /\ \A u \in Transfer \ {t} : released'[u] = released[u]
    BY <1>0, <2>1, <2>2
  <2> QED BY <1>0, <2>1, <2>3 DEF InVault
<1>2. \A u \in InVault : Amount[u] \in Int
  BY AmountAssumption DEF InVault
<1>3. SumFunctionOnSet(Amount, InVault) = Amount[t] + SumFunctionOnSet(Amount, InVault')
  BY <1>1, <1>2, SumRemove DEF VaultInv
<1>4. bal'.vault = bal.vault - Amount[t]
  BY DEF AppendRelease, FromVault, t
<1>5. SumFunctionOnSet(Amount, InVault') \in Int /\ Amount[t] \in Int /\ IsFiniteSet(InVault')
  <2>1. IsFiniteSet(InVault')
    BY <1>1, FS_RemoveElement DEF VaultInv
  <2>2. \A u \in InVault' : Amount[u] \in Int
    BY <1>1, <1>2
  <2> QED BY <1>1, <1>2, <2>1, <2>2, SumIsInt
<1>6. bal'.vault = SumFunctionOnSet(Amount, InVault')
  <2> DEFINE rest == SumFunctionOnSet(Amount, InVault')
  <2>1. bal.vault = Amount[t] + rest
    BY <1>3 DEF VaultInv, VaultCoversHeld, InVault
  <2>2. rest \in Int
    BY <1>5
  <2> HIDE DEF rest
  <2>3. bal'.vault = rest
    BY <1>4, <1>5, <2>1, <2>2
  <2> QED BY <2>3 DEF rest
<1> QED BY <1>5, <1>6 DEF VaultInv, VaultCoversHeld, InVault

\* The vault of a sender always holds exactly the money of the transfers that
\* were posted and not released, however many workers release them concurrently:
\* a release that is repeated would be paid with another transfer's money.
THEOREM VaultExact == Spec => []VaultCoversHeld
<1>1. Init => VaultInv
  <2> SUFFICES ASSUME Init PROVE VaultInv
    OBVIOUS
  <2>1. InVault = {}
    BY DEF Init, InVault
  <2>2. bal.vault = 0
    BY DEF Init
  <2> QED BY <2>1, <2>2, FS_EmptySet, SumEmpty DEF VaultInv, VaultCoversHeld, InVault
<1>2. IInv /\ VaultInv /\ [Next]_vars => VaultInv'
  <2> SUFFICES ASSUME IInv, VaultInv, [Next]_vars PROVE VaultInv'
    OBVIOUS
  <2> USE DEF rows, money, workers, limits
  <2>t. TypeOK
    BY DEF IInv
  <2>1. ASSUME NEW t \in Transfer, StageTransfer(t) PROVE VaultInv'
    BY <2>1, VaultGains
  <2>2. ASSUME NEW t \in Transfer, LeaseExpire(t) PROVE VaultInv'
    BY <2>2, VaultSame DEF LeaseExpire
  <2>3. ASSUME NEW w \in Worker, NEW t \in Transfer, Claim(w, t) \/ ClaimAlreadySettled(w, t)
        PROVE  VaultInv'
    BY <2>3, VaultSame DEF Claim, ClaimAlreadySettled
  <2>4. ASSUME NEW w \in Worker, WorkerStep(w) PROVE VaultInv'
    <3>1. CASE AppendRelease(w)
      BY <3>1, VaultPays
    <3>2. CASE AppendSkip(w) \/ AppendRejected(w) \/ VerifyZeroSum(w) \/ FinalizeRefused(w)
      BY <3>2, VaultSame DEF AppendSkip, AppendRejected, VerifyZeroSum, FinalizeRefused
    <3>3. CASE FinalizeAlready(w)
      BY <3>3, VaultSame DEF FinalizeAlready
    <3>4. CASE FinalizeCompleted(w)
      BY <2>t, <3>4, VaultSame DEF FinalizeCompleted, TypeOK
    <3>5. CASE FinalizeHeld(w)
      BY <2>t, <3>5, VaultSame DEF FinalizeHeld, TypeOK
    <3> QED BY <2>4, <3>1, <3>2, <3>3, <3>4, <3>5 DEF WorkerStep
  <2>5. ASSUME NEW w \in Worker, Crash(w) PROVE VaultInv'
    BY <2>5, VaultSame DEF Crash
  <2>6. CASE LockTarget \/ UnlockTarget \/ UNCHANGED vars
    BY <2>6, VaultSame DEF LockTarget, UnlockTarget, vars
  <2> QED BY <2>1, <2>2, <2>3, <2>4, <2>5, <2>6 DEF Next
<1>3. VaultInv => VaultCoversHeld
  BY DEF VaultInv
<1> QED BY <1>1, <1>2, <1>3, Inductive, PTL DEF Spec

-----------------------------------------------------------------------------
(* The settlement among reviewers and reapers. *)

LockRow == [prev : TxStatus, audit : {"NONE", "PENDING", "PASSED", "FAILED"}, due : BOOLEAN]
Copy == [status : TxStatus, released : BOOLEAN, lock : LockRow]
Steps == {"idle", "check", "write", "finish", "settle", "reread", "legs", "post"}
Tasks == {"none", "hold", "pass", "fail", "approve", "reverse", "void", "reap"}

AgentTypes ==
    /\ lock \in [Transfer -> LockRow]
    /\ step \in [Agent -> Steps]
    /\ task \in [Agent -> Tasks]
    /\ on \in [Agent -> Transfer \cup {NoTransfer}]
    /\ goal \in [Agent -> TxStatus]
    /\ seen \in [Agent -> Copy]

\* An agent that is under way has a transfer; only an approval, which has read a
\* passed audit, wants to write 'completed', and what the last write of a hold or
\* of the reverse route puts into the status is never that.
AgentSound(a) ==
    step[a] # "idle" =>
        /\ on[a] \in Transfer
        /\ goal[a] = "completed" => task[a] = "approve"
        /\ task[a] = "approve" => seen[a].lock.audit = "PASSED"
        /\ task[a] = "hold" => goal[a] = "held_for_review"
        /\ task[a] = "void" => goal[a] = "reversed"

\* The marker of a transfer counts its releases.
Marked(t) == released[t] = IF marker[t] THEN 1 ELSE 0

\* What the settlement keeps, whatever the agents do meanwhile.
Settling ==
    /\ TypeOK
    /\ \A w \in Worker : WorkerKnows(w)
    /\ \A t \in Transfer : Marked(t)

AgentsSound == AgentTypes /\ \A a \in Agent : AgentSound(a)

ReviewInv == Settling /\ AgentsSound

\* Every call of completeSettlement keeps count of the releases.
LEMMA MarkedStep ==
    ASSUME Settling, [Next]_vars, NEW u \in Transfer PROVE Marked(u)'
<1> USE DEF rows, money, workers, limits
<1>t. TypeOK /\ Marked(u) /\ \A w \in Worker : pc[w] # "idle" => job[w] \in Transfer
  BY DEF Settling, WorkerKnows
<1>1. CASE UNCHANGED <<marker, released>>
  BY <1>t, <1>1 DEF Marked
<1>2. ASSUME NEW w \in Worker, AppendRelease(w) PROVE Marked(u)'
  BY <1>t, <1>2 DEF AppendRelease, AppendIsNew, Marked, TypeOK
<1>3. UNCHANGED <<marker, released>> \/ \E w \in Worker : AppendRelease(w)
  BY DEF Next, StageTransfer, LeaseExpire, Claim, ClaimAlreadySettled, WorkerStep, AppendSkip, AppendRejected,
         VerifyZeroSum, FinalizeAlready, FinalizeCompleted, FinalizeHeld, FinalizeRefused, Crash,
         LockTarget, UnlockTarget, vars
<1> QED BY <1>1, <1>2, <1>3

LEMMA SettlementKeeps == ASSUME Settling, [Next]_vars PROVE Settling'
<1>1. TypeOK'
  BY TypeStep DEF Settling
<1>2. \A w \in Worker : WorkerKnows(w)'
  BY KnowsStep DEF Settling
<1>3. \A t \in Transfer : Marked(t)'
  BY MarkedStep
<1> QED BY <1>1, <1>2, <1>3 DEF Settling

\* The calls of the agents that write to the rows or balances of a transfer.
Writes(a) ==
    \/ ApproveSettle(a) \/ PostReversal(a) \/ WriteStatus(a) \/ Finish(a) \/ AgentCrash(a)
    \/ \E t \in Transfer : RouteFail(a, t)

\* Everything else that happens is a step of the settlement or leaves it alone.
LEMMA StepsOfReview ==
    ASSUME [ReviewNext]_reviewVars
    PROVE  [Next]_vars \/ \E a \in Agent : Writes(a)
<1> USE DEF Next, WorkerStep
<1>1. ASSUME NEW w \in Worker, Settle(w) PROVE Next
  BY <1>1 DEF Settle, GivenUp
<1>2. ASSUME NEW w \in Worker, ReaperGivesUp(w) PROVE Next
  BY <1>2 DEF ReaperGivesUp, GivenUp
<1>3. ASSUME NEW t \in Transfer, StageTransfer(t) \/ LeaseRunsOut(t) \/ HoldOverdue(t) PROVE [Next]_vars
  BY <1>3 DEF LeaseRunsOut, HoldOverdue
<1>4. ASSUME LockTarget \/ UnlockTarget PROVE Next
  BY <1>4
<1>5. ASSUME NEW a \in Agent, NEW t \in Transfer,
             \/ HoldRead(a, t) \/ ApproveRead(a, t) \/ ReverseRead(a, t)
             \/ RouteReverse(a, t) \/ ListOverdue(a, t)
             \/ \E decision \in {"pass", "fail"} : AuditRead(a, t, decision)
      PROVE  UNCHANGED vars
  BY <1>5 DEF HoldRead, ApproveRead, ReverseRead, RouteReverse, ListOverdue, AuditRead
<1>6. ASSUME NEW a \in Agent, AgentStep(a), ~Writes(a) PROVE UNCHANGED vars
  BY <1>6 DEF AgentStep, Writes, ReReadOverdue, ReadLegs, PostRefused, CheckStatus
<1>7. CASE UNCHANGED reviewVars
  BY <1>7 DEF reviewVars
<1> HIDE DEF Next, WorkerStep
<1> QED BY <1>1, <1>2, <1>3, <1>4, <1>5, <1>6, <1>7 DEF ReviewNext, Writes

\* No agent touches a marker, frees a worker or overdraws a balance: a reversal
\* takes from the vault or from the receiver only what is there.
LEMMA WritesKeep ==
    ASSUME ReviewInv, NEW a \in Agent, Writes(a)
    PROVE  Settling'
<1> USE DEF rows, money, workers, limits
<1>t. TypeOK /\ AgentTypes /\ AgentSound(a)
  BY DEF ReviewInv, AgentsSound, Settling
<1>o. step[a] # "idle" => on[a] \in Transfer
  BY <1>t DEF AgentSound
<1>1. UNCHANGED <<marker, released, pc, job, token, claim, lease, targetLocked, refusals>>
  BY DEF Writes, ApproveSettle, PostReversal, WriteStatus, Finish, AgentCrash, RouteFail
<1>2. txStatus' \in [Transfer -> TxStatus]
  <2>1. CASE WriteStatus(a)
    BY <1>t, <2>1 DEF WriteStatus, TypeOK, AgentTypes
  <2>2. CASE Finish(a)
    BY <1>t, <2>2 DEF Finish, TypeOK, AgentTypes
  <2>3. CASE \E t \in Transfer : RouteFail(a, t)
    BY <1>t, <2>3 DEF RouteFail, TypeOK, TxStatus
  <2>4. CASE ApproveSettle(a) \/ PostReversal(a) \/ AgentCrash(a)
    BY <1>t, <2>4 DEF ApproveSettle, PostReversal, AgentCrash, TypeOK
  <2> QED BY <2>1, <2>2, <2>3, <2>4 DEF Writes
<1>3. stage' \in [Transfer -> Stage] /\ \A t \in Transfer : stage[t] # "NONE" => stage'[t] # "NONE"
  <2>1. CASE ApproveSettle(a)
    BY <1>t, <2>1 DEF ApproveSettle, TypeOK, Stage
  <2>2. CASE UNCHANGED stage
    BY <1>t, <2>2 DEF TypeOK
  <2> QED BY <2>1, <2>2 DEF Writes, PostReversal, WriteStatus, Finish, AgentCrash, RouteFail
<1>4. bal' \in [source : Nat, vault : Nat, target : Nat]
  <2>1. CASE PostReversal(a)
    <3> DEFINE amount == Amount[on[a]]
    <3>1. amount \in Nat /\ bal \in [source : Nat, vault : Nat, target : Nat]
      BY <1>t, <1>o, <2>1, AmountAssumption DEF PostReversal, TypeOK
    <3>2. \/ bal.target >= amount /\ bal' = [bal EXCEPT !.source = @ + amount, !.target = @ - amount]
          \/ bal.vault >= amount /\ bal' = [bal EXCEPT !.source = @ + amount, !.vault = @ - amount]
      BY <2>1 DEF PostReversal, ReversalCovered
    <3> HIDE DEF amount
    <3>3. bal.source + amount \in Nat /\ bal.vault \in Nat /\ bal.target \in Nat
      BY <3>1
    <3>4. /\ bal.vault >= amount => bal.vault - amount \in Nat
          /\ bal.target >= amount => bal.target - amount \in Nat
      BY <3>1, <3>3
    <3> QED BY <3>1, <3>2, <3>3, <3>4
  <2>2. CASE UNCHANGED bal
    BY <1>t, <2>2 DEF TypeOK
  <2> QED BY <2>1, <2>2 DEF Writes, ApproveSettle, WriteStatus, Finish, AgentCrash, RouteFail
<1>5. faults' \in Nat
  BY <1>t DEF Writes, ApproveSettle, PostReversal, WriteStatus, Finish, AgentCrash, RouteFail, TypeOK
<1>6. TypeOK'
  BY <1>t, <1>1, <1>2, <1>3, <1>4, <1>5 DEF TypeOK
<1>7. \A w \in Worker : WorkerKnows(w)'
  BY <1>1, <1>3 DEF ReviewInv, Settling, WorkerKnows
<1>8. \A t \in Transfer : Marked(t)'
  BY <1>1 DEF ReviewInv, Settling, Marked
<1> QED BY <1>6, <1>7, <1>8 DEF Settling

\* An agent moves: the others keep what they have.
Moved(a, next, what, t, status, copy) ==
    /\ step' = [step EXCEPT ![a] = next]
    /\ task' = [task EXCEPT ![a] = what]
    /\ on' = [on EXCEPT ![a] = t]
    /\ goal' = [goal EXCEPT ![a] = status]
    /\ seen' = [seen EXCEPT ![a] = copy]

Sound(next, what, t, status, copy) ==
    next # "idle" =>
        /\ t \in Transfer
        /\ status = "completed" => what = "approve"
        /\ what = "approve" => copy.lock.audit = "PASSED"
        /\ what = "hold" => status = "held_for_review"
        /\ what = "void" => status = "reversed"

LEMMA MoveKeeps ==
    ASSUME AgentsSound, NEW a \in Agent, lock' \in [Transfer -> LockRow],
           NEW next \in Steps, NEW what \in Tasks, NEW t \in Transfer \cup {NoTransfer},
           NEW status \in TxStatus, NEW copy \in Copy,
           Moved(a, next, what, t, status, copy), Sound(next, what, t, status, copy)
    PROVE  AgentsSound'
<1>1. AgentTypes'
  BY DEF AgentsSound, AgentTypes, Moved
<1>2. ASSUME NEW b \in Agent, b # a PROVE AgentSound(b)'
  BY <1>2 DEF AgentsSound, AgentTypes, AgentSound, Moved
<1>3. AgentSound(a)'
  BY DEF AgentsSound, AgentTypes, AgentSound, Moved, Sound
<1> QED BY <1>1, <1>2, <1>3 DEF AgentsSound

LEMMA BeginKeeps ==
    ASSUME TypeOK, AgentsSound, NEW a \in Agent, NEW what \in Tasks \ {"none"}, NEW t \in Transfer,
           NEW first \in Steps, NEW status \in TxStatus, Begin(a, what, t, first, status), UNCHANGED lock,
           Sound(first, what, t, status, [lock |-> lock[t]])
    PROVE  AgentsSound'
<1> DEFINE copy == [status |-> txStatus[t], released |-> FALSE, lock |-> lock[t]]
<1>1. copy \in Copy /\ lock' \in [Transfer -> LockRow]
  BY DEF TypeOK, AgentsSound, AgentTypes, Copy
<1>2. Moved(a, first, what, t, status, copy)
  BY DEF Begin, Moved
<1>3. Sound(first, what, t, status, copy)
  BY DEF Sound
<1> HIDE DEF copy
<1> QED BY <1>1, <1>2, <1>3, MoveKeeps

LEMMA StopKeeps ==
    ASSUME AgentsSound, NEW a \in Agent, Stop(a), lock' \in [Transfer -> LockRow]
    PROVE  AgentsSound'
<1>1. Nothing \in Copy /\ "none" \in TxStatus /\ "none" \in Tasks /\ "idle" \in Steps
  BY DEF Nothing, NoLock, Copy, LockRow, TxStatus, Tasks, Steps
<1>2. Moved(a, "idle", "none", NoTransfer, "none", Nothing) /\ Sound("idle", "none", NoTransfer, "none", Nothing)
  BY DEF Stop, Moved, Sound
<1> QED BY <1>1, <1>2, MoveKeeps

LEMMA GoOnKeeps ==
    ASSUME AgentsSound, NEW a \in Agent, step[a] # "idle", NEW to \in Steps, GoOn(a, to), UNCHANGED lock
    PROVE  AgentsSound'
<1>1. /\ task[a] \in Tasks /\ on[a] \in Transfer \cup {NoTransfer} /\ goal[a] \in TxStatus /\ seen[a] \in Copy
      /\ lock' \in [Transfer -> LockRow]
  BY DEF AgentsSound, AgentTypes
<1>2. Moved(a, to, task[a], on[a], goal[a], seen[a])
  BY DEF GoOn, Moved, AgentsSound, AgentTypes
<1>3. Sound(to, task[a], on[a], goal[a], seen[a])
  BY DEF AgentsSound, AgentSound, Sound
<1> QED BY <1>1, <1>2, <1>3, MoveKeeps

LEMMA AfterUpdateKeeps ==
    ASSUME AgentsSound, NEW a \in Agent, step[a] # "idle", AfterUpdate(a), UNCHANGED lock
    PROVE  AgentsSound'
<1>1. CASE task[a] # "reap"
  BY <1>1, GoOnKeeps DEF AfterUpdate, Steps
<1>2. CASE task[a] = "reap" /\ goal[a] = "reversed"
  <2>1. /\ task[a] \in Tasks /\ on[a] \in Transfer /\ seen[a] \in Copy /\ lock' \in [Transfer -> LockRow]
        /\ "failed" \in TxStatus /\ "check" \in Steps
    BY DEF AgentsSound, AgentTypes, AgentSound, TxStatus, Steps
  <2>2. Moved(a, "check", task[a], on[a], "failed", seen[a])
    BY <1>2 DEF AfterUpdate, Moved, AgentsSound, AgentTypes
  <2>3. Sound("check", task[a], on[a], "failed", seen[a])
    BY <1>2, <2>1 DEF Sound
  <2> QED BY <2>1, <2>2, <2>3, MoveKeeps
<1>3. CASE task[a] = "reap" /\ goal[a] # "reversed"
  <2>1. Stop(a)
    BY <1>3 DEF AfterUpdate
  <2> QED BY <2>1, StopKeeps DEF AgentsSound, AgentTypes
<1> QED BY <1>1, <1>2, <1>3

\* The reads with which the procedures start.
LEMMA ReadsKeep ==
    ASSUME TypeOK, AgentsSound, NEW a \in Agent, NEW t \in Transfer,
           \/ HoldRead(a, t) \/ ApproveRead(a, t) \/ ReverseRead(a, t) \/ RouteReverse(a, t) \/ ListOverdue(a, t)
           \/ \E decision \in {"pass", "fail"} : AuditRead(a, t, decision)
    PROVE  AgentsSound'
<1> USE DEF Steps, Tasks, TxStatus, Sound
<1>1. CASE HoldRead(a, t)
  <2>1. PICK first \in {"finish", "check"} : Begin(a, "hold", t, first, "held_for_review") /\ UNCHANGED lock
    BY <1>1 DEF HoldRead
  <2> QED BY <2>1, BeginKeeps
<1>2. CASE ApproveRead(a, t)
  <2>1. PICK first \in {"settle", "check"} :
          Begin(a, "approve", t, first, "completed") /\ UNCHANGED lock /\ lock[t].audit = "PASSED"
    BY <1>2 DEF ApproveRead
  <2> QED BY <2>1, BeginKeeps
<1>3. CASE ReverseRead(a, t)
  BY <1>3, BeginKeeps DEF ReverseRead
<1>4. CASE RouteReverse(a, t)
  BY <1>4, BeginKeeps DEF RouteReverse
<1>5. CASE ListOverdue(a, t)
  BY <1>5, BeginKeeps DEF ListOverdue
<1>6. ASSUME NEW decision \in {"pass", "fail"}, AuditRead(a, t, decision) PROVE AgentsSound'
  BY <1>6, BeginKeeps DEF AuditRead
<1> QED BY <1>1, <1>2, <1>3, <1>4, <1>5, <1>6

\* The calls that follow.
LEMMA CallsKeep ==
    ASSUME TypeOK, AgentsSound, NEW a \in Agent, AgentStep(a)
    PROVE  AgentsSound'
<1>t. AgentTypes /\ AgentSound(a) /\ (UNCHANGED lock => lock' \in [Transfer -> LockRow])
  BY DEF AgentsSound, AgentTypes
<1>i. step[a] # "idle"
  BY DEF AgentStep, ApproveSettle, ReReadOverdue, ReadLegs, PostReversal, PostRefused, CheckStatus, WriteStatus,
         Finish, AgentCrash
<1>1. CASE ApproveSettle(a)
  BY <1>t, <1>i, <1>1, GoOnKeeps, StopKeeps DEF ApproveSettle, Steps
<1>2. CASE ReReadOverdue(a)
  <2>1. on[a] \in Transfer
    BY <1>t, <1>i DEF AgentSound
  <2>2. CASE Begin(a, "reverse", on[a], "legs", "reversed") /\ UNCHANGED lock
    BY <2>1, <2>2, BeginKeeps DEF Steps, Tasks, TxStatus, Sound
  <2>3. CASE Stop(a) /\ UNCHANGED lock
    BY <1>t, <2>3, StopKeeps
  <2> QED BY <1>2, <2>2, <2>3 DEF ReReadOverdue
<1>3. CASE ReadLegs(a)
  <2> DEFINE paid == released[on[a]] > 0
             copy == [seen[a] EXCEPT !.released = paid]
  <2>p. paid \in BOOLEAN /\ seen' = [seen EXCEPT ![a].released = paid]
    BY <1>3 DEF ReadLegs
  <2> HIDE DEF paid
  <2>1. /\ task[a] \in Tasks /\ on[a] \in Transfer /\ goal[a] \in TxStatus /\ lock' \in [Transfer -> LockRow]
        /\ copy \in Copy /\ copy.lock = seen[a].lock
    <3>1. task[a] \in Tasks /\ on[a] \in Transfer /\ goal[a] \in TxStatus /\ lock' \in [Transfer -> LockRow]
      BY <1>t, <1>i, <1>3 DEF ReadLegs, AgentTypes, AgentSound
    <3>2. seen[a] \in Copy
      BY <1>t DEF AgentTypes
    <3> QED BY <2>p, <3>1, <3>2 DEF Copy
  <2>2. Moved(a, "post", task[a], on[a], goal[a], copy)
    BY <1>t, <1>3, <2>p DEF ReadLegs, Moved, AgentTypes
  <2>3. Sound("post", task[a], on[a], goal[a], copy)
    BY <1>t, <1>i, <2>1 DEF AgentSound, Sound
  <2> HIDE DEF copy
  <2> QED BY <2>1, <2>2, <2>3, MoveKeeps DEF Steps
<1>4. CASE PostReversal(a)
  BY <1>i, <1>4, GoOnKeeps DEF PostReversal, Steps
<1>5. CASE PostRefused(a)
  BY <1>t, <1>5, StopKeeps DEF PostRefused
<1>6. CASE CheckStatus(a)
  BY <1>i, <1>6, GoOnKeeps, AfterUpdateKeeps DEF CheckStatus, Steps
<1>7. CASE WriteStatus(a)
  BY <1>i, <1>7, AfterUpdateKeeps DEF WriteStatus
<1>8. CASE Finish(a)
  <2>1. on[a] \in Transfer /\ seen[a] \in Copy
    BY <1>t, <1>i DEF AgentTypes, AgentSound
  <2>2. /\ [prev |-> seen[a].status, audit |-> "PENDING", due |-> FALSE] \in LockRow
        /\ [seen[a].lock EXCEPT !.audit = "PASSED"] \in LockRow
        /\ [seen[a].lock EXCEPT !.audit = "FAILED"] \in LockRow
        /\ seen[a].lock \in LockRow
    BY <2>1 DEF Copy, LockRow
  <2>3. lock' \in [Transfer -> LockRow]
    BY <1>t, <1>8, <2>2 DEF Finish, AgentTypes
  <2> QED BY <1>8, <2>3, StopKeeps DEF Finish
<1>9. CASE AgentCrash(a)
  BY <1>t, <1>9, StopKeeps DEF AgentCrash
<1> QED BY <1>1, <1>2, <1>3, <1>4, <1>5, <1>6, <1>7, <1>8, <1>9 DEF AgentStep

LEMMA AgentsKeep == ASSUME ReviewInv, [ReviewNext]_reviewVars PROVE AgentsSound'
<1>t. TypeOK /\ AgentsSound /\ \A w \in Worker : WorkerKnows(w)
  BY DEF ReviewInv, Settling
<1>1. ASSUME UNCHANGED <<lock, agents>> PROVE AgentsSound'
  BY <1>t, <1>1 DEF agents, AgentsSound, AgentTypes, AgentSound
<1>2. ASSUME NEW w \in Worker, ReaperGivesUp(w) PROVE AgentsSound'
  <2>1. w \in Agent /\ job[w] \in Transfer
    BY <1>t, <1>2 DEF ReaperGivesUp, GivenUp, Agent, AppendRejected, FinalizeHeld, FinalizeAlready,
                   WorkerKnows
  <2> QED BY <1>t, <1>2, <2>1, BeginKeeps DEF ReaperGivesUp, Steps, Tasks, TxStatus, Sound
<1>3. ASSUME NEW t \in Transfer, HoldOverdue(t) PROVE AgentsSound'
  <2>1. lock' \in [Transfer -> LockRow]
    BY <1>t, <1>3 DEF HoldOverdue, AgentsSound, AgentTypes, LockRow
  <2> QED BY <1>t, <1>3, <2>1 DEF HoldOverdue, agents, AgentsSound, AgentTypes, AgentSound
<1>4. ASSUME NEW a \in Agent, NEW t \in Transfer,
             \/ HoldRead(a, t) \/ ApproveRead(a, t) \/ ReverseRead(a, t)
             \/ RouteReverse(a, t) \/ ListOverdue(a, t)
             \/ \E decision \in {"pass", "fail"} : AuditRead(a, t, decision)
      PROVE  AgentsSound'
  BY <1>t, <1>4, ReadsKeep
<1>5. ASSUME NEW a \in Agent, AgentStep(a) PROVE AgentsSound'
  BY <1>t, <1>5, CallsKeep
<1>6. ASSUME NEW a \in Agent, NEW t \in Transfer, RouteFail(a, t) PROVE AgentsSound'
  BY <1>1, <1>6 DEF RouteFail
<1>7. ASSUME NEW t \in Transfer, LeaseRunsOut(t) PROVE AgentsSound'
  BY <1>1, <1>7 DEF LeaseRunsOut
<1>8. CASE UNCHANGED reviewVars
  BY <1>1, <1>8 DEF reviewVars
<1> QED BY <1>1, <1>2, <1>3, <1>4, <1>5, <1>6, <1>7, <1>8 DEF ReviewNext

LEMMA ReviewInductive == ReviewSpec => []ReviewInv
<1>1. ReviewInit => ReviewInv
  <2> SUFFICES ASSUME ReviewInit PROVE ReviewInv
    OBVIOUS
  <2>1. TypeOK /\ \A w \in Worker : WorkerKnows(w)
    BY InitIInv DEF ReviewInit, IInv
  <2>2. \A t \in Transfer : Marked(t)
    BY DEF ReviewInit, Init, Marked
  <2>3. NoLock \in LockRow /\ Nothing \in Copy /\ "none" \in TxStatus
    BY DEF NoLock, LockRow, Nothing, Copy, TxStatus
  <2>4. AgentTypes
    BY <2>3 DEF ReviewInit, AgentTypes, Steps, Tasks
  <2>5. \A a \in Agent : AgentSound(a)
    BY DEF ReviewInit, AgentSound
  <2> QED BY <2>1, <2>2, <2>4, <2>5 DEF ReviewInv, Settling, AgentsSound
<1>2. ReviewInv /\ [ReviewNext]_reviewVars => ReviewInv'
  BY StepsOfReview, SettlementKeeps, WritesKeep, AgentsKeep DEF ReviewInv
<1> QED BY <1>1, <1>2, PTL DEF ReviewSpec

\* Whatever reviewers and reapers do to a transfer, and however late the workers
\* are, its money is released at most once and no reversal overdraws a balance.
THEOREM ReviewReleasesOnce == ReviewSpec => [](ReleasedAtMostOnce /\ TypeOK)
<1>1. ReviewInv => ReleasedAtMostOnce /\ TypeOK
  BY DEF ReviewInv, Settling, TypeOK, Marked, ReleasedAtMostOnce
<1> QED BY <1>1, ReviewInductive, PTL

\* A worker that claimed, released or verified a transfer never completes it after
\* it was held, reversed or failed: only an approval of a passed audit does.
THEOREM HoldsStopSettlements == ReviewSpec => HoldStopsSettlement
<1> DEFINE Stopped(t) == txStatus[t] \in {"held_for_review", "reversed", "failed"} /\ txStatus'[t] = "completed"
           Passed(t) == \E a \in Agent : on[a] = t /\ task[a] = "approve" /\ seen[a].lock.audit = "PASSED"
<1>1. ReviewInv /\ [ReviewNext]_reviewVars => \A t \in Transfer : Stopped(t) => Passed(t)
  <2> SUFFICES ASSUME ReviewInv, [ReviewNext]_reviewVars, NEW t \in Transfer, Stopped(t) PROVE Passed(t)
    OBVIOUS
  <2>t. TypeOK /\ AgentTypes /\ \A a \in Agent : AgentSound(a)
    BY DEF ReviewInv, Settling, AgentsSound
  <2>1. ~[Next]_vars
    <3> USE DEF rows, money, workers, limits, TypeOK
    <3>1. CASE UNCHANGED txStatus
      BY <3>1
    <3>2. ASSUME NEW u \in Transfer, StageTransfer(u) PROVE FALSE
      BY <2>t, <3>2 DEF StageTransfer
    <3>3. ASSUME NEW w \in Worker, FinalizeCompleted(w) \/ FinalizeHeld(w) PROVE FALSE
      BY <2>t, <3>3 DEF FinalizeCompleted, FinalizeHeld
    <3> QED BY <3>1, <3>2, <3>3 DEF Next, LeaseExpire, Claim, ClaimAlreadySettled, WorkerStep, AppendRelease,
              AppendSkip, AppendRejected, VerifyZeroSum, FinalizeAlready, FinalizeRefused, Crash,
              LockTarget, UnlockTarget, vars
  <2>2. PICK a \in Agent : Writes(a)
    BY <2>1, StepsOfReview
  <2>3. CASE WriteStatus(a)
    <3>1. step[a] # "idle" /\ txStatus' = [txStatus EXCEPT ![on[a]] = goal[a]]
      BY <2>3 DEF WriteStatus
    <3>2. on[a] = t /\ goal[a] = "completed"
      BY <2>t, <3>1 DEF TypeOK
    <3> QED BY <2>t, <3>1, <3>2 DEF AgentSound
  <2>4. CASE Finish(a)
    <3>1. /\ step[a] # "idle"
          /\ \/ txStatus' = txStatus
             \/ task[a] \in {"hold", "void"} /\ txStatus' = [txStatus EXCEPT ![on[a]] = goal[a]]
      BY <2>4 DEF Finish
    <3>2. task[a] \in {"hold", "void"} /\ goal[a] = "completed"
      BY <2>t, <3>1 DEF TypeOK
    <3> QED BY <2>t, <3>1, <3>2 DEF AgentSound
  <2>5. ASSUME NEW u \in Transfer, RouteFail(a, u) PROVE FALSE
    BY <2>t, <2>5 DEF RouteFail, TypeOK
  <2>6. CASE ApproveSettle(a) \/ PostReversal(a) \/ AgentCrash(a)
    BY <2>6 DEF ApproveSettle, PostReversal, AgentCrash, rows
  <2> QED BY <2>2, <2>3, <2>4, <2>5, <2>6 DEF Writes
<1> QED BY <1>1, ReviewInductive, PTL DEF ReviewSpec, HoldStopsSettlement

=============================================================================
