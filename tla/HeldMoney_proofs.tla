-------------------------- MODULE HeldMoney_proofs --------------------------
(***************************************************************************)
(* Proofs about the two components that hold money for somebody else: the  *)
(* PaySafe escrows and the shared budgets.                                 *)
(*                                                                         *)
(* PaySafe: an escrow pays once and only the receiver who confirmed it, no *)
(* vault is overdrawn and no frozen vault moves: for every set of escrows, *)
(* amounts and fees, and any number of reapers that reverse disputed holds *)
(* behind the agreement's back. PaidOutAtMostOnce is not inductive: the    *)
(* append keys of a release and of a refund differ, so it is the           *)
(* agreement's status that says whether the escrow was paid (Unpaid).      *)
(* PaidByConsent needs that only a confirmed hold can be asked to be       *)
(* released (Confirmed).                                                   *)
(***************************************************************************)
EXTENDS PaySafeEscrow, SharedBudget, SumTheorems, FiniteSetTheorems, TLAPS

USE DEF Status, TxStatus, Vault, Payout

\* An escrow that was paid is closed.
Unpaid == \A e \in Escrow : status[e] \notin {"RELEASED", "REFUNDED"} => payouts[e] = 0

\* A release can only be pending for a hold that the receiver confirmed.
Confirmed == \A e \in Escrow \ Merchant : status[e] = "RELEASE_PENDING" => accepted[e]

\* A reaper that is under way has an escrow.
Reaping == \A r \in Reaper : rstep[r] # "idle" => ron[r] \in Escrow

IInv ==
    /\ TypeOK
    /\ Unpaid
    /\ PaidOutAtMostOnce
    /\ Confirmed
    /\ PaidByConsent
    /\ Reaping

\* The agreements, their transactions and what was paid for them stay well-formed.
Agreements ==
    /\ Unpaid
    /\ PaidOutAtMostOnce
    /\ Confirmed
    /\ PaidByConsent

-----------------------------------------------------------------------------
\* Moving what a vault covers overdraws none.
LEMMA MoveCovered ==
    ASSUME TypeOK, NEW from \in Vault, NEW to \in Vault, NEW amount \in Nat,
           from # to, bal[from] >= amount
    PROVE  Move(from, to, amount) \in [Vault -> Nat]
<1>1. \A v \in Vault : bal[v] \in Nat
  BY DEF TypeOK
<1>2. ASSUME NEW v \in Vault
      PROVE  (IF v = from THEN bal[v] - amount ELSE IF v = to THEN bal[v] + amount ELSE bal[v])
             \in Nat
  <2>1. bal[v] \in Nat BY <1>1
  <2>2. CASE v = from BY <2>1, <2>2
  <2>3. CASE v # from BY <2>1, <2>3
  <2> QED BY <2>2, <2>3
<1> QED BY <1>2 DEF Move

\* A payout branch pays the escrow once more and leaves the vaults covered.
LEMMA PayOutTypes ==
    ASSUME TypeOK, NEW e \in Escrow, NEW action \in Payout,
           NEW to \in {"receiver", "operating"}, PayOut(e, action, to)
    PROVE  /\ marks' \subseteq Escrow \X Payout
           /\ payouts' = [payouts EXCEPT ![e] = payouts[e] + 1]
           /\ payouts' \in [Escrow -> Nat]
           /\ bal' \in [Vault -> Nat]
<1>1. Amount[e] \in Nat
  BY AmountAssumption
<1>2. bal["paysafe"] >= Amount[e] /\ bal' = Move("paysafe", to, Amount[e])
  BY DEF PayOut, Payable
<1>3. bal' \in [Vault -> Nat]
  BY <1>1, <1>2, MoveCovered
<1>4. marks' \subseteq Escrow \X Payout
  BY DEF PayOut, TypeOK
<1>5. /\ payouts' = [payouts EXCEPT ![e] = payouts[e] + 1]
      /\ payouts' \in [Escrow -> Nat]
  BY DEF PayOut, TypeOK
<1> QED BY <1>3, <1>4, <1>5

-----------------------------------------------------------------------------
(* The agreement and its payouts, one step per action that can touch them. *)

\* An action of the parties keeps the agreements and the types.
LEMMA PartyKeeps ==
    ASSUME IInv, NEW e \in Escrow, Party(e)
    PROVE  IInv'
<1> USE DEF IInv, Becomes, agreement, ledger, reapers
<1>0. Reaping'
  <2>1. UNCHANGED reapers
    BY DEF Party, Create, Confirm, RequestRelease, AcceptRelease, FlagExpired,
           RequestReturn, AcceptReturn, Refund, Dispute, SettleMerchant
  <2> QED BY <2>1 DEF Reaping
<1>1. CASE Create(e)
  <2>1. bal' \in [Vault -> Nat]
    BY <1>1, MoveCovered, AmountAssumption DEF Create
  <2>2. TypeOK' BY <1>1, <2>1 DEF Create, TypeOK
  <2>3. Agreements'
    BY <1>1 DEF Create, TypeOK, Agreements, Unpaid, PaidOutAtMostOnce, Confirmed, PaidByConsent
  <2> QED BY <1>0, <2>2, <2>3 DEF Agreements
<1>2. CASE Confirm(e)
  <2>1. TypeOK' BY <1>2 DEF Confirm, TypeOK
  <2>2. Agreements'
    BY <1>2 DEF Confirm, TypeOK, Agreements, Unpaid, PaidOutAtMostOnce, Confirmed, PaidByConsent
  <2> QED BY <1>0, <2>1, <2>2 DEF Agreements
<1>3. CASE RequestRelease(e)
  <2>1. TypeOK' BY <1>3 DEF RequestRelease, TypeOK
  <2>2. Agreements'
    BY <1>3 DEF RequestRelease, TypeOK, Agreements, Unpaid, PaidOutAtMostOnce, Confirmed,
                PaidByConsent
  <2> QED BY <1>0, <2>1, <2>2 DEF Agreements
<1>4. CASE AcceptRelease(e)
  <2>1. /\ marks' \subseteq Escrow \X Payout
        /\ payouts' = [payouts EXCEPT ![e] = payouts[e] + 1]
        /\ payouts' \in [Escrow -> Nat]
        /\ bal' \in [Vault -> Nat]
    BY <1>4, PayOutTypes DEF AcceptRelease
  <2>2. TypeOK' BY <1>4, <2>1 DEF AcceptRelease, TypeOK
  <2>3. Agreements'
    BY <1>4, <2>1 DEF AcceptRelease, Releasable, TypeOK, Agreements, Unpaid, PaidOutAtMostOnce,
                Confirmed, PaidByConsent
  <2> QED BY <1>0, <2>2, <2>3 DEF Agreements
<1>5. CASE FlagExpired(e)
  <2>1. TypeOK' BY <1>5 DEF FlagExpired, TypeOK
  <2>2. Agreements'
    BY <1>5 DEF FlagExpired, TypeOK, Agreements, Unpaid, PaidOutAtMostOnce, Confirmed,
                PaidByConsent
  <2> QED BY <1>0, <2>1, <2>2 DEF Agreements
<1>6. CASE RequestReturn(e)
  <2>1. TypeOK' BY <1>6 DEF RequestReturn, TypeOK
  <2>2. Agreements'
    BY <1>6 DEF RequestReturn, TypeOK, Agreements, Unpaid, PaidOutAtMostOnce, Confirmed,
                PaidByConsent
  <2> QED BY <1>0, <2>1, <2>2 DEF Agreements
<1>7. CASE AcceptReturn(e)
  <2>1. /\ marks' \subseteq Escrow \X Payout
        /\ payouts' = [payouts EXCEPT ![e] = payouts[e] + 1]
        /\ payouts' \in [Escrow -> Nat]
        /\ bal' \in [Vault -> Nat]
    BY <1>7, PayOutTypes DEF AcceptReturn
  <2>2. TypeOK' BY <1>7, <2>1 DEF AcceptReturn, TypeOK
  <2>3. Agreements'
    BY <1>7, <2>1 DEF AcceptReturn, TypeOK, Agreements, Unpaid, PaidOutAtMostOnce,
                Confirmed, PaidByConsent
  <2> QED BY <1>0, <2>2, <2>3 DEF Agreements
<1>8. CASE Refund(e)
  <2>1. /\ marks' \subseteq Escrow \X Payout
        /\ payouts' = [payouts EXCEPT ![e] = payouts[e] + 1]
        /\ payouts' \in [Escrow -> Nat]
        /\ bal' \in [Vault -> Nat]
    BY <1>8, PayOutTypes DEF Refund
  <2>2. TypeOK' BY <1>8, <2>1 DEF Refund, TypeOK
  <2>3. Agreements'
    BY <1>8, <2>1 DEF Refund, Refundable, TypeOK, Agreements, Unpaid, PaidOutAtMostOnce,
                Confirmed, PaidByConsent
  <2> QED BY <1>0, <2>2, <2>3 DEF Agreements
<1>9. CASE Dispute(e)
  <2>1. TypeOK' BY <1>9 DEF Dispute, TypeOK
  <2>2. Agreements'
    BY <1>9 DEF Dispute, TypeOK, Agreements, Unpaid, PaidOutAtMostOnce, Confirmed, PaidByConsent
  <2> QED BY <1>0, <2>1, <2>2 DEF Agreements
<1>10. CASE SettleMerchant(e)
  <2>1. bal' \in [Vault -> Nat]
    <3>1. /\ Amount[e] \in Nat /\ Fee[e] \in Nat /\ Fee[e] < Amount[e]
          /\ bal["paysafe"] >= Amount[e]
      BY <1>10, AmountAssumption, FeeAssumption DEF SettleMerchant, Payable
    <3>2. \A v \in Vault : bal[v] \in Nat
      BY DEF TypeOK
    <3>3. bal' = [v \in Vault |->
              CASE v = "paysafe" -> bal[v] - Amount[e]
                [] v = "merchant" -> bal[v] + (Amount[e] - Fee[e])
                [] v = "fees" -> bal[v] + Fee[e]
                [] OTHER -> bal[v]]
      BY <1>10 DEF SettleMerchant
    <3> QED BY <3>1, <3>2, <3>3
  <2>2. TypeOK' BY <1>10, <2>1 DEF SettleMerchant, TypeOK
  <2>3. Agreements'
    BY <1>10 DEF SettleMerchant, TypeOK, Agreements, Unpaid, PaidOutAtMostOnce, Confirmed,
                 PaidByConsent
  <2> QED BY <1>0, <2>2, <2>3 DEF Agreements
<1> QED BY <1>1, <1>2, <1>3, <1>4, <1>5, <1>6, <1>7, <1>8, <1>9, <1>10 DEF Party

\* A reaper changes no agreement, and overdraws no vault.
LEMMA ReaperKeeps ==
    ASSUME IInv, NEW r \in Reaper, ReaperStep(r)
    PROVE  IInv'
<1> USE DEF IInv, agreement, ledger, reapers, ReaperStop, ReaperTo
<1>0. Agreements'
  <2>1. UNCHANGED <<status, accepted, payouts>>
    BY DEF ReaperStep, ListOverdue, ReRead, ReadLegs, ReverseHold, ReverseRefused,
           CheckStatus, MarkReversed, ReaperCrash
  <2> QED BY <2>1 DEF Agreements, Unpaid, PaidOutAtMostOnce, Confirmed, PaidByConsent
<1>1. CASE \E e \in Escrow : ListOverdue(r, e)
  BY <1>0, <1>1 DEF ListOverdue, TypeOK, Reaping, Agreements
<1>2. CASE ReRead(r)
  <2>1. CASE txStatus[ron[r]] \in {"refunded", "reversed"}
    <3>0. /\ rstep' \in [Reaper -> {"idle", "reread", "legs", "post", "check", "write"}]
          /\ ron' \in [Reaper -> Escrow \cup {NoEscrow}]
          /\ rpaid' \in [Reaper -> BOOLEAN]
      <4>1. ReaperStop(r)
        BY <1>2, <2>1 DEF ReRead
      <4> QED BY <4>1 DEF ReaperStop, TypeOK
    <3>1. TypeOK' BY <1>2, <2>1, <3>0 DEF ReRead, TypeOK
    <3>2. Reaping' BY <1>2, <2>1 DEF ReRead, TypeOK, Reaping
    <3> QED BY <1>0, <3>1, <3>2 DEF Agreements
  <2>2. CASE txStatus[ron[r]] \notin {"refunded", "reversed"}
    BY <1>0, <1>2, <2>2 DEF ReRead, TypeOK, Reaping, Agreements
  <2> QED BY <2>1, <2>2
<1>3. CASE ReadLegs(r)
  BY <1>0, <1>3 DEF ReadLegs, TypeOK, Reaping, Agreements
<1>4. CASE ReverseHold(r)
  <2>1. ron[r] \in Escrow
    BY <1>4 DEF ReverseHold, Reaping
  <2>2. bal' \in [Vault -> Nat]
    <3>1. CASE rpaid[r] BY <1>4, <3>1 DEF ReverseHold, TypeOK
    <3>2. CASE ~rpaid[r]
      <4>1. Amount[ron[r]] \in Nat BY <2>1, AmountAssumption
      <4>2. /\ bal["paysafe"] >= Amount[ron[r]]
            /\ bal' = Move("paysafe", "operating", Amount[ron[r]])
        BY <1>4, <3>2 DEF ReverseHold
      <4> QED BY <4>1, <4>2, MoveCovered
    <3> QED BY <3>1, <3>2
  <2>3. returns' \in [Escrow -> Nat]
    BY <1>4, <2>1 DEF ReverseHold, TypeOK
  <2>4. TypeOK' BY <1>4, <2>2, <2>3 DEF ReverseHold, TypeOK
  <2>5. Reaping' BY <1>4 DEF ReverseHold, TypeOK, Reaping
  <2> QED BY <1>0, <2>4, <2>5 DEF Agreements
<1>5. CASE ReverseRefused(r)
  BY <1>0, <1>5 DEF ReverseRefused, TypeOK, Reaping, Agreements
<1>6. CASE CheckStatus(r)
  <2>1. CASE txStatus[ron[r]] \in {"held_for_review", "completed"}
    BY <1>0, <1>6, <2>1 DEF CheckStatus, TypeOK, Reaping, Agreements
  <2>2. CASE txStatus[ron[r]] \notin {"held_for_review", "completed"}
    <3>0. /\ rstep' \in [Reaper -> {"idle", "reread", "legs", "post", "check", "write"}]
          /\ ron' \in [Reaper -> Escrow \cup {NoEscrow}]
          /\ rpaid' \in [Reaper -> BOOLEAN]
      <4>1. ReaperStop(r)
        BY <1>6, <2>2 DEF CheckStatus
      <4> QED BY <4>1 DEF ReaperStop, TypeOK
    <3>1. TypeOK' BY <1>6, <2>2, <3>0 DEF CheckStatus, TypeOK
    <3>2. Reaping' BY <1>6, <2>2 DEF CheckStatus, TypeOK, Reaping
    <3> QED BY <1>0, <3>1, <3>2 DEF Agreements
  <2> QED BY <2>1, <2>2
<1>7. CASE MarkReversed(r)
  BY <1>0, <1>7 DEF MarkReversed, TypeOK, Reaping, Agreements
<1>8. CASE ReaperCrash(r)
  BY <1>0, <1>8 DEF ReaperCrash, TypeOK, Reaping, Agreements
<1> QED BY <1>1, <1>2, <1>3, <1>4, <1>5, <1>6, <1>7, <1>8 DEF ReaperStep

\* Time and administrators touch no agreement and no balance.
LEMMA OthersKeep ==
    ASSUME IInv,
           \/ \E e \in Escrow : Expire(e) \/ HoldOverdue(e)
           \/ \E v \in Vault : Freeze(v) \/ Unfreeze(v)
    PROVE  IInv'
<1> USE DEF IInv, agreement, ledger, reapers
<1>1. ASSUME NEW e \in Escrow, Expire(e) PROVE IInv'
  BY <1>1 DEF Expire, TypeOK, Unpaid, PaidOutAtMostOnce, Confirmed, PaidByConsent, Reaping
<1>2. ASSUME NEW e \in Escrow, HoldOverdue(e) PROVE IInv'
  BY <1>2 DEF HoldOverdue, TypeOK, Unpaid, PaidOutAtMostOnce, Confirmed, PaidByConsent, Reaping
<1>3. ASSUME NEW v \in Vault, Freeze(v) \/ Unfreeze(v) PROVE IInv'
  <2>1. UNCHANGED <<agreement, txStatus, ledger, returns, overdue, reapers>>
        /\ frozen' \subseteq Vault
    BY <1>3 DEF Freeze, Unfreeze, TypeOK
  <2>2. TypeOK' /\ Reaping'
    BY <2>1 DEF TypeOK, Reaping
  <2>3. Agreements'
    BY <2>1 DEF Agreements, Unpaid, PaidOutAtMostOnce, Confirmed, PaidByConsent
  <2> QED BY <2>2, <2>3 DEF Agreements
<1> QED BY <1>1, <1>2, <1>3

-----------------------------------------------------------------------------
\* The invariant of the escrows holds in every reachable state.
THEOREM Inductive == Spec => []IInv
<1>1. Init => IInv
  BY OpeningAssumption, NoEscrowAssumption
  DEF Init, IInv, TypeOK, Unpaid, PaidOutAtMostOnce, Confirmed, PaidByConsent, Reaping
<1>2. IInv /\ [Next]_vars => IInv'
  <2> SUFFICES ASSUME IInv, [Next]_vars PROVE IInv'
    OBVIOUS
  <2>1. ASSUME NEW e \in Escrow, Party(e) PROVE IInv'
    BY <2>1, PartyKeeps
  <2>2. ASSUME NEW r \in Reaper, ReaperStep(r) PROVE IInv'
    BY <2>2, ReaperKeeps
  <2>3. CASE \/ \E e \in Escrow : Expire(e) \/ HoldOverdue(e)
             \/ \E v \in Vault : Freeze(v) \/ Unfreeze(v)
    BY <2>3, OthersKeep
  <2>4. CASE UNCHANGED vars
    BY <2>4 DEF vars, agreement, ledger, reapers, IInv, TypeOK, Unpaid, PaidOutAtMostOnce,
                Confirmed, PaidByConsent, Reaping
  <2> QED BY <2>1, <2>2, <2>3, <2>4 DEF Next
<1> QED BY <1>1, <1>2, PTL DEF Spec

\* The variables keep their types, and no vault is ever overdrawn: whatever the
\* functions pay and the reapers return comes out of money that is there.
THEOREM EscrowTypes == Spec => []TypeOK
BY Inductive, PTL DEF IInv

\* The database functions pay an escrow at most once.
THEOREM PaidOnce == Spec => []PaidOutAtMostOnce
BY Inductive, PTL DEF IInv

\* A receiver who is no merchant is paid only for a hold it confirmed.
THEOREM PaidWithConsent == Spec => []PaidByConsent
BY Inductive, PTL DEF IInv

-----------------------------------------------------------------------------
\* A vault that neither side of a move names keeps its balance.
LEMMA MoveLeaves ==
    ASSUME NEW from \in Vault, NEW to \in Vault, NEW amount, NEW v \in Vault,
           v # from, v # to, bal' = Move(from, to, amount)
    PROVE  bal'[v] = bal[v]
BY DEF Move

\* No step moves money into or out of a vault that is frozen, not even one that
\* began while the vault was usable.
THEOREM FrozenVaultsStandStill == Spec => FrozenVaultNeverMoves
<1>1. ASSUME TypeOK, [Next]_vars, NEW v \in Vault, v \in frozen
      PROVE  bal'[v] = bal[v]
  <2> USE <1>1 DEF agreement, ledger, reapers, Usable
  <2>1. ASSUME NEW e \in Escrow, Party(e) PROVE bal'[v] = bal[v]
    <3>1. CASE Create(e)
      BY <3>1, MoveLeaves DEF Create
    <3>2. CASE AcceptRelease(e)
      BY <3>2, MoveLeaves DEF AcceptRelease, PayOut
    <3>3. CASE AcceptReturn(e) \/ Refund(e)
      BY <3>3, MoveLeaves DEF AcceptReturn, Refund, PayOut
    <3>4. CASE SettleMerchant(e)
      <4>1. /\ v \notin {"paysafe", "merchant"}
            /\ Fee[e] > 0 => v # "fees"
        BY <3>4 DEF SettleMerchant
      <4>2. bal[v] \in Nat /\ Fee[e] \in Nat
        BY FeeAssumption DEF TypeOK
      <4>3. bal'[v] = IF v = "fees" THEN bal[v] + Fee[e] ELSE bal[v]
        BY <3>4, <4>1 DEF SettleMerchant
      <4> QED BY <4>1, <4>2, <4>3
    <3>5. CASE \/ Confirm(e) \/ RequestRelease(e) \/ FlagExpired(e)
               \/ RequestReturn(e) \/ Dispute(e)
      BY <3>5 DEF Confirm, RequestRelease, FlagExpired, RequestReturn, Dispute
    <3> QED BY <2>1, <3>1, <3>2, <3>3, <3>4, <3>5 DEF Party
  <2>2. ASSUME NEW r \in Reaper, ReaperStep(r) PROVE bal'[v] = bal[v]
    <3>1. CASE ReverseHold(r)
      BY <3>1, MoveLeaves DEF ReverseHold
    <3>2. CASE ~ReverseHold(r)
      BY <2>2, <3>2 DEF ReaperStep, ListOverdue, ReRead, ReadLegs, ReverseRefused,
                        CheckStatus, MarkReversed, ReaperCrash
    <3> QED BY <3>1, <3>2
  <2>3. CASE \/ \E e \in Escrow : Expire(e) \/ HoldOverdue(e)
             \/ \E w \in Vault : Freeze(w) \/ Unfreeze(w)
    BY <2>3 DEF Expire, HoldOverdue, Freeze, Unfreeze
  <2>4. CASE UNCHANGED vars
    BY <2>4 DEF vars
  <2> QED BY <2>1, <2>2, <2>3, <2>4 DEF Next
<1>2. TypeOK /\ [Next]_vars => [\A v \in Vault : v \in frozen => bal'[v] = bal[v]]_vars
  BY <1>1
<1> QED BY <1>2, EscrowTypes, PTL DEF Spec, FrozenVaultNeverMoves

-----------------------------------------------------------------------------
(* While disputes are settled in time. *)

\* No reaper finds anything to reverse.
Quiet ==
    /\ \A e \in Escrow : ~overdue[e]
    /\ \A r \in Reaper : rstep[r] = "idle"

\* A receiver has nothing to confirm before there is an agreement.
Unasked == \A e \in Escrow : status[e] = "NONE" => ~accepted[e]

\* The agreements that are not closed.
Open == {e \in Escrow : status[e] \in {"HELD", "RELEASE_PENDING", "RETURN_PENDING", "DISPUTED"}}

\* They are finitely many at any time, and the vault holds their money.
Covered == IsFiniteSet(Open) /\ VaultCoversHolds

QInv == Quiet /\ Unasked /\ StatusesAgree /\ Covered

LEMMA CoveredSame ==
    ASSUME Covered, UNCHANGED bal,
           \A e \in Escrow : e \in Open' <=> e \in Open
    PROVE  Covered'
<1>1. Open' = Open
  BY DEF Open
<1>2. bal["paysafe"] = SumFunctionOnSet(Amount, Open)
  BY DEF Covered, VaultCoversHolds, Open
<1>3. bal'["paysafe"] = SumFunctionOnSet(Amount, Open')
  BY <1>1, <1>2
<1> QED BY <1>1, <1>3 DEF Covered, VaultCoversHolds, Open

\* A hold brings the amount of its escrow ...
LEMMA CoveredMore ==
    ASSUME Covered, NEW e \in Escrow, e \notin Open, Open' = Open \cup {e},
           bal'["paysafe"] = bal["paysafe"] + Amount[e]
    PROVE  Covered'
<1>1. \A d \in Open \cup {e} : Amount[d] \in Int
  BY AmountAssumption DEF Open
<1>2. SumFunctionOnSet(Amount, Open') = SumFunctionOnSet(Amount, Open) + Amount[e]
  BY <1>1, SumAdd DEF Covered
<1>3. bal'["paysafe"] = SumFunctionOnSet(Amount, Open')
  BY <1>2 DEF Covered, VaultCoversHolds, Open
<1>4. IsFiniteSet(Open')
  BY FS_AddElement DEF Covered
<1> QED BY <1>3, <1>4 DEF Covered, VaultCoversHolds, Open

\* ... and a payout takes the amount of its own escrow, no other.
LEMMA CoveredLess ==
    ASSUME Covered, NEW e \in Open, Open' = Open \ {e},
           bal'["paysafe"] = bal["paysafe"] - Amount[e]
    PROVE  Covered'
<1> DEFINE rest == SumFunctionOnSet(Amount, Open')
<1>1. \A d \in Open : Amount[d] \in Int
  BY AmountAssumption DEF Open
<1>2. bal["paysafe"] = Amount[e] + rest
  <2>1. SumFunctionOnSet(Amount, Open) = Amount[e] + rest
    BY <1>1, SumRemove DEF Covered
  <2> QED BY <2>1 DEF Covered, VaultCoversHolds, Open
<1>3. IsFiniteSet(Open')
  BY FS_RemoveElement DEF Covered
<1>4. rest \in Int /\ Amount[e] \in Int
  BY <1>1, <1>3, SumIsInt
<1>5. bal'["paysafe"] = rest
  <2> HIDE DEF rest
  <2> QED BY <1>2, <1>4
<1> QED BY <1>3, <1>5 DEF Covered, VaultCoversHolds, Open

\* What the three payouts of the functions have in common.
LEMMA PaysItsOwn ==
    ASSUME TypeOK, Covered, NEW e \in Open, NEW to \in {"receiver", "operating"},
           NEW action, NEW tx, PayOut(e, action, to),
           NEW closed \in {"RELEASED", "REFUNDED"}, Becomes(e, closed, tx)
    PROVE  Covered'
<1>1. Open' = Open \ {e}
  BY DEF Open, Becomes, TypeOK
<1>2. bal'["paysafe"] = bal["paysafe"] - Amount[e]
  BY DEF PayOut, Move
<1> QED BY <1>1, <1>2, CoveredLess

\* The parties keep the vault exact.
LEMMA PartyCovered ==
    ASSUME IInv, QInv, NEW e \in Escrow, Party(e)
    PROVE  Covered'
<1>t. TypeOK /\ Covered
  BY DEF IInv, QInv
<1>1. CASE Create(e)
  <2>1. e \notin Open /\ Open' = Open \cup {e}
    BY <1>t, <1>1 DEF Create, Becomes, Open, TypeOK
  <2>2. bal'["paysafe"] = bal["paysafe"] + Amount[e]
    BY <1>1 DEF Create, Move
  <2> QED BY <1>t, <2>1, <2>2, CoveredMore
<1>2. CASE Confirm(e) \/ RequestRelease(e) \/ FlagExpired(e) \/ RequestReturn(e) \/ Dispute(e)
  <2>1. UNCHANGED bal
    BY <1>2 DEF Confirm, RequestRelease, FlagExpired, RequestReturn, Dispute, ledger
  <2>2. PICK s \in {"HELD", "RELEASE_PENDING", "RETURN_PENDING", "DISPUTED"} :
            status' = [status EXCEPT ![e] = s]
    BY <1>2 DEF Confirm, RequestRelease, FlagExpired, RequestReturn, Dispute, Becomes
  <2>3. e \in Open
    BY <1>2 DEF Confirm, RequestRelease, FlagExpired, RequestReturn, Dispute, Open
  <2>4. \A d \in Escrow : d \in Open' <=> d \in Open
    BY <1>t, <2>2, <2>3 DEF Open, TypeOK
  <2> QED BY <1>t, <2>1, <2>4, CoveredSame
<1>3. CASE AcceptRelease(e)
  <2>1. e \in Open
    BY <1>3 DEF AcceptRelease, Releasable, Open
  <2> QED BY <1>t, <1>3, <2>1, PaysItsOwn DEF AcceptRelease
<1>4. CASE AcceptReturn(e)
  <2>1. e \in Open
    BY <1>4 DEF AcceptReturn, Open
  <2> QED BY <1>t, <1>4, <2>1, PaysItsOwn DEF AcceptReturn
<1>5. CASE Refund(e)
  <2>1. e \in Open
    BY <1>5 DEF Refund, Refundable, Open
  <2> QED BY <1>t, <1>5, <2>1, PaysItsOwn DEF Refund
<1>6. CASE SettleMerchant(e)
  <2>1. e \in Open /\ Open' = Open \ {e}
    BY <1>t, <1>6 DEF SettleMerchant, Becomes, Open, TypeOK
  <2>2. bal'["paysafe"] = bal["paysafe"] - Amount[e]
    BY <1>6 DEF SettleMerchant
  <2> QED BY <1>t, <2>1, <2>2, CoveredLess
<1> QED BY <1>1, <1>2, <1>3, <1>4, <1>5, <1>6 DEF Party

\* What the transaction of an agreement must say, of the agreement's two columns.
TxFor(agreed, yes) ==
    CASE agreed = "NONE" -> "none"
      [] agreed = "HELD" -> IF yes THEN "paysafe_confirmed" ELSE "authorized"
      [] agreed = "RELEASE_PENDING" -> "awaiting_receiver_acceptance"
      [] agreed = "RETURN_PENDING" -> "return_requested"
      [] agreed = "DISPUTED" -> "held_for_review"
      [] agreed = "RELEASED" -> "completed"
      [] agreed = "REFUNDED" -> "refunded"

LEMMA AgreeMeans == StatusesAgree <=> \A e \in Escrow : txStatus[e] = TxFor(status[e], accepted[e])
BY DEF StatusesAgree, TxFor

\* Whoever moves an agreement on writes the status that belongs to it.
LEMMA BecomesAgrees ==
    ASSUME TypeOK, StatusesAgree, NEW e \in Escrow, NEW agreed, NEW tx, NEW yes \in BOOLEAN,
           Becomes(e, agreed, tx), tx = TxFor(agreed, yes),
           accepted' = [accepted EXCEPT ![e] = yes]
    PROVE  StatusesAgree'
<1>1. \A d \in Escrow : txStatus[d] = TxFor(status[d], accepted[d])
  BY AgreeMeans
<1>2. \A d \in Escrow : txStatus'[d] = TxFor(status'[d], accepted'[d])
  BY <1>1 DEF Becomes, TypeOK
<1> QED BY <1>2 DEF StatusesAgree, TxFor

LEMMA PartyAgrees ==
    ASSUME IInv, QInv, NEW e \in Escrow, Party(e)
    PROVE  StatusesAgree' /\ Unasked'
<1>t. TypeOK /\ StatusesAgree /\ Unasked /\ accepted[e] \in BOOLEAN
  BY DEF IInv, QInv, TypeOK
<1>a. ASSUME UNCHANGED accepted PROVE accepted' = [accepted EXCEPT ![e] = accepted[e]]
  BY <1>t, <1>a DEF TypeOK
<1>n. ASSUME NEW agreed \in Status \ {"NONE"}, status' = [status EXCEPT ![e] = agreed],
             \A d \in Escrow \ {e} : accepted'[d] = accepted[d]
      PROVE  Unasked'
  BY <1>t, <1>n DEF Unasked, TypeOK
<1>1. CASE Create(e)
  <2>1. /\ UNCHANGED accepted /\ ~accepted[e]
        /\ Becomes(e, "HELD", "authorized") /\ TxFor("HELD", accepted[e]) = "authorized"
    BY <1>t, <1>1 DEF Create, Unasked, TxFor
  <2> QED BY <1>t, <1>a, <1>n, <2>1, BecomesAgrees DEF Becomes
<1>2. CASE Confirm(e)
  <2>1. /\ accepted' = [accepted EXCEPT ![e] = TRUE]
        /\ Becomes(e, "HELD", "paysafe_confirmed") /\ TxFor("HELD", TRUE) = "paysafe_confirmed"
    BY <1>2 DEF Confirm, TxFor
  <2>2. \A d \in Escrow \ {e} : accepted'[d] = accepted[d]
    BY <1>t, <2>1 DEF TypeOK
  <2> QED BY <1>t, <1>n, <2>1, <2>2, BecomesAgrees DEF Becomes
<1>3. CASE ~Create(e) /\ ~Confirm(e)
  <2>1. UNCHANGED accepted
    BY <1>3 DEF Party, RequestRelease, AcceptRelease, FlagExpired, RequestReturn, AcceptReturn,
                Refund, Dispute, SettleMerchant
  <2>2. \E agreed \in Status \ {"NONE", "HELD"} : Becomes(e, agreed, TxFor(agreed, accepted[e]))
    <3>1. CASE RequestRelease(e)
      BY <3>1 DEF RequestRelease, TxFor
    <3>2. CASE FlagExpired(e) \/ Dispute(e)
      BY <3>2 DEF FlagExpired, Dispute, TxFor
    <3>3. CASE RequestReturn(e)
      BY <3>3 DEF RequestReturn, TxFor
    <3>4. CASE AcceptReturn(e) \/ Refund(e)
      BY <3>4 DEF AcceptReturn, Refund, TxFor
    <3>5. CASE AcceptRelease(e) \/ SettleMerchant(e)
      BY <3>5 DEF AcceptRelease, SettleMerchant, TxFor
    <3> QED BY <1>3, <3>1, <3>2, <3>3, <3>4, <3>5 DEF Party
  <2>3. PICK agreed \in Status \ {"NONE", "HELD"} : Becomes(e, agreed, TxFor(agreed, accepted[e]))
    BY <2>2
  <2> QED BY <1>t, <1>a, <1>n, <2>1, <2>3, BecomesAgrees DEF Becomes
<1> QED BY <1>1, <1>2, <1>3

\* Where disputes are settled before their 24 hours are over, the agreements, their
\* transactions and the vault never come apart.
LEMMA QuietInductive == ASSUME ~DisputesLinger PROVE Spec => []QInv
<1>1. Init => QInv
  <2> SUFFICES ASSUME Init PROVE QInv
    OBVIOUS
  <2>1. Quiet /\ Unasked /\ StatusesAgree
    BY DEF Init, Quiet, Unasked, StatusesAgree
  <2>2. Open = {} /\ bal["paysafe"] = 0
    BY DEF Init, Open
  <2> QED BY <2>1, <2>2, FS_EmptySet, SumEmpty DEF QInv, Covered, VaultCoversHolds, Open
<1>2. QInv /\ IInv /\ [Next]_vars => QInv'
  <2> SUFFICES ASSUME QInv, IInv, [Next]_vars PROVE QInv'
    OBVIOUS
  <2>t. TypeOK /\ Quiet /\ Unasked /\ StatusesAgree /\ Covered
    BY DEF QInv, IInv
  <2>0. ASSUME UNCHANGED <<status, accepted, txStatus, bal, overdue, rstep>> PROVE QInv'
    <3>1. Quiet' /\ Unasked' /\ StatusesAgree'
      BY <2>t, <2>0 DEF Quiet, Unasked, StatusesAgree
    <3>2. Covered'
      BY <2>t, <2>0, CoveredSame DEF Open
    <3> QED BY <3>1, <3>2 DEF QInv
  <2>1. ASSUME NEW e \in Escrow, Party(e) PROVE QInv'
    <3>1. Quiet'
      BY <2>t, <2>1 DEF Party, Create, Confirm, RequestRelease, AcceptRelease, FlagExpired,
             RequestReturn, AcceptReturn, Refund, Dispute, SettleMerchant, reapers, Quiet, TypeOK
    <3> QED BY <2>1, <3>1, PartyCovered, PartyAgrees DEF QInv
  <2>2. ASSUME NEW r \in Reaper, ReaperStep(r) PROVE FALSE
    BY <2>t, <2>2 DEF ReaperStep, ListOverdue, ReRead, ReadLegs, ReverseHold, ReverseRefused,
           CheckStatus, MarkReversed, ReaperCrash, Quiet
  <2>3. ASSUME NEW e \in Escrow, Expire(e) \/ HoldOverdue(e) PROVE QInv'
    BY <2>0, <2>3 DEF Expire, HoldOverdue, ledger, reapers
  <2>4. ASSUME NEW v \in Vault, Freeze(v) \/ Unfreeze(v) PROVE QInv'
    BY <2>0, <2>4 DEF Freeze, Unfreeze, agreement, ledger, reapers
  <2>5. CASE UNCHANGED vars
    BY <2>0, <2>5 DEF vars, agreement, ledger, reapers
  <2> QED BY <2>1, <2>2, <2>3, <2>4, <2>5 DEF Next
<1> QED BY <1>1, <1>2, Inductive, PTL DEF Spec

\* While disputes are settled in time, the vault holds exactly the money of the
\* agreements that are not closed: no escrow is paid with another's.
THEOREM VaultExact == ASSUME ~DisputesLinger PROVE Spec => []VaultCoversHolds
<1>1. QInv => VaultCoversHolds
  BY DEF QInv, Covered
<1> QED BY <1>1, QuietInductive, PTL

\* While disputes are settled in time, a transaction always says what its agreement
\* says, along every path of the two parties.
THEOREM StatusesTogether == ASSUME ~DisputesLinger PROVE Spec => []StatusesAgree
<1>1. QInv => StatusesAgree
  BY DEF QInv
<1> QED BY <1>1, QuietInductive, PTL

-----------------------------------------------------------------------------
(* Shared budgets. *)

\* A row of a member; a handler that is under way has a caller and a reference.
MemberRow == [role : Spends \cup {"VIEWER", "NONE"}, status : {"NONE", "ACTIVE", "REMOVED"}, limit : Nat, spent : Nat]
ApprovalRow == [status : {"NONE", "PENDING", "PROCESSING", "APPROVED", "REJECTED", "FAILED"},
                reviewer : User \cup {NoUser}, leased : BOOLEAN]
At == {"idle", "requesting", "executing", "reviewing", "claimed", "paid", "counted", "done"}
Call == [at : At, user : User \cup {NoUser}, ref : Ref \cup {<<"none", NoUser>>},
         funded : Nat, spent : Nat, seen : MemberRow]

BudgetTypes ==
    /\ budget \in [status : {"NONE", "ACTIVE", "PAUSED", "ARCHIVED"}, funded : Nat, spent : Nat, mode : {"AUTO", "REVIEW"}]
    /\ member \in [User -> MemberRow]
    /\ approval \in [Spend -> ApprovalRow]
    /\ purse \in [User -> Nat]
    /\ posted \in [Ref -> Nat]
    /\ op \in [Handler -> Call]

\* A colleague has claimed the request: no answer can be a rejection any more.
Reviewed(s) ==
    /\ approval[s].reviewer \in User \ {SpendOf[s].who}
    /\ approval[s].status \in {"PROCESSING", "APPROVED", "FAILED"}

\* A handler past the claim works on a reviewed request, one past the payment on
\* a reference that was paid, and only an outside payment is counted afterwards.
HandlerSound(h) ==
    op[h].at # "idle" =>
        /\ op[h].user \in User /\ op[h].ref \in Ref
        /\ Approved(h) /\ op[h].at # "reviewing" => Reviewed(Key(h))
        /\ op[h].at \in {"paid", "counted", "done"} => posted[op[h].ref] > 0
        /\ op[h].at \in {"paid", "counted"} => SpendBy(h).kind = "EXTERNAL"

BudgetInv ==
    /\ BudgetTypes
    /\ \A h \in Handler : HandlerSound(h)
    /\ SpentOnce /\ PaidAfterClaim /\ ApprovedIsPaid

\* The references that were paid, those of one member's withdrawals among them.
PaidRefs == {r \in Ref : posted[r] > 0}
Own(u) == {r \in Withdrawal : SpendOf[r[2]].who = u}
NoOutside == \A r \in Ref \ Withdrawal : posted[r] = 0

\* Every member but the owner has a limit that an invitation offered, the row of
\* the member adds up what the member withdrew, and it stays within that limit.
Offer(u, n) == \E i \in Invitation : InviteOf[i].who = u /\ InviteOf[i].limit = n
Allowance(u) ==
    /\ member[u].status # "NONE" => Offer(u, member[u].limit)
    /\ member[u].spent = PaidOut(Own(u))
    /\ member[u].spent = 0 \/ Offer(u, NoLimit) \/ \E n \in Nat : Offer(u, n) /\ member[u].spent <= n

Accounts ==
    NoOutside =>
        /\ budget.spent = PaidOut(Withdrawal) /\ budget.spent <= budget.funded
        /\ \A u \in User \ {Owner} : Allowance(u)

SumInv == IsFiniteSet(PaidRefs) /\ Accounts

LEMMA InitBudgetTypes == BudgetInit => BudgetTypes
<1> SUFFICES ASSUME BudgetInit PROVE BudgetTypes
  OBVIOUS
<1>1. Stranger \in MemberRow
  BY DEF Stranger, MemberRow, NoLimit
<1>2. Idle \in Call
  BY <1>1 DEF Idle, Call, At
<1> QED BY <1>1, <1>2, BudgetAssumption DEF BudgetInit, BudgetTypes, ApprovalRow, NoApproval

\* The parts of the steps that touch a row of a member or a handler.
LEMMA CallTypes ==
    ASSUME BudgetTypes, NEW h \in Handler
    PROVE  /\ End(h) => op' \in [Handler -> Call]
           /\ \A at \in At : GoTo(h, at) => op' \in [Handler -> Call]
           /\ \A at \in At, u \in User, r \in Ref, m \in MemberRow :
                 Begin(h, at, u, r, m) => op' \in [Handler -> Call]
           /\ op[h].at # "idle" /\ HandlerSound(h) => Key(h) \in Spend /\ SpendBy(h).amount \in Nat \ {0} /\ SpendBy(h).who \in User
<1>1. Idle \in Call
  BY DEF Idle, Call, At, Stranger, MemberRow, NoLimit
<1>2. End(h) => op' \in [Handler -> Call]
  BY <1>1 DEF End, BudgetTypes
<1>3. ASSUME NEW at \in At, GoTo(h, at) PROVE op' \in [Handler -> Call]
  <2>1. [op[h] EXCEPT !.at = at] \in Call
    BY DEF BudgetTypes, Call
  <2> QED BY <1>3, <2>1 DEF GoTo, BudgetTypes
<1>4. ASSUME NEW at \in At, NEW u \in User, NEW r \in Ref, NEW m \in MemberRow, Begin(h, at, u, r, m)
      PROVE  op' \in [Handler -> Call]
  <2>1. [at |-> at, user |-> u, ref |-> r, seen |-> m, funded |-> budget.funded, spent |-> budget.spent] \in Call
    BY DEF BudgetTypes, Call
  <2> QED BY <1>4, <2>1 DEF Begin, BudgetTypes
<1>5. ASSUME op[h].at # "idle", HandlerSound(h)
      PROVE  Key(h) \in Spend /\ SpendBy(h).amount \in Nat \ {0} /\ SpendBy(h).who \in User
  <2>1. op[h].ref \in Ref
    BY <1>5 DEF HandlerSound
  <2>2. Key(h) \in Spend
    BY <2>1 DEF Key, Ref
  <2> QED BY <2>2, BudgetAssumption DEF SpendBy
<1> QED BY <1>2, <1>3, <1>4, <1>5

\* The steps of the managers, the invited members and the clock, and those of a
\* handler.
Managed ==
    \/ \E mode \in {"AUTO", "REVIEW"} : CreateBudget(mode)
    \/ \E u \in User : Allocate(u)
    \/ \E u \in User, p \in Patches : Patch(u, p)
    \/ \E u, m \in User : RemoveMember(u, m)
    \/ \E u \in User, i \in Invitation : Invite(u, i)
    \/ \E i \in Invitation : Accept(i) \/ Decline(i) \/ ListDue(i) \/ MarkExpired(i)
    \/ \E s \in Spend : LeaseEnds(s)

Handled(h) ==
    \/ Steps(h)
    \/ \E s \in Spend : SpendStart(h, s) \/ \E u \in User : ReviewStart(h, u, s)

LEMMA StepKinds == BudgetNext <=> Managed \/ \E h \in Handler : Handled(h)
BY DEF BudgetNext, Managed, Handled

LEMMA ManagedTypes == ASSUME BudgetTypes, Managed PROVE BudgetTypes'
<1> USE DEF rows, money
<1>1. ASSUME NEW mode \in {"AUTO", "REVIEW"}, CreateBudget(mode) PROVE BudgetTypes'
  <2>1. [Stranger EXCEPT !.role = "OWNER", !.status = "ACTIVE"] \in MemberRow
    BY DEF Stranger, MemberRow, NoLimit, Spends
  <2>2. member' \in [User -> MemberRow]
    BY <1>1, <2>1, BudgetAssumption DEF CreateBudget, BudgetTypes
  <2> QED BY <1>1, <2>2 DEF CreateBudget, BudgetTypes
<1>2. ASSUME NEW u \in User, Allocate(u) PROVE BudgetTypes'
  BY <1>2, BudgetAssumption DEF Allocate, Allocatable, BudgetTypes
<1>3. ASSUME NEW u \in User, NEW p \in Patches, Patch(u, p) PROVE BudgetTypes'
  BY <1>3, BudgetAssumption DEF Patch, BudgetTypes
<1>4. ASSUME NEW u \in User, NEW m \in User, RemoveMember(u, m) PROVE BudgetTypes'
  <2>1. [member[m] EXCEPT !.status = "REMOVED"] \in MemberRow
    <3>1. member[m] \in MemberRow
      BY DEF BudgetTypes
    <3> QED BY <3>1 DEF MemberRow
  <2>2. member' \in [User -> MemberRow]
    BY <1>4, <2>1 DEF RemoveMember, BudgetTypes
  <2> QED BY <1>4, <2>2 DEF RemoveMember, BudgetTypes
<1>5. ASSUME NEW u \in User, NEW i \in Invitation, Invite(u, i) PROVE BudgetTypes'
  BY <1>5 DEF Invite, BudgetTypes
<1>8. ASSUME NEW i \in Invitation, Decline(i) \/ ListDue(i) \/ MarkExpired(i) PROVE BudgetTypes'
  BY <1>8 DEF Decline, ListDue, MarkExpired, BudgetTypes
<1>6. ASSUME NEW i \in Invitation, Accept(i) PROVE BudgetTypes'
  <2>1. InviteOf[i].who \in User /\ InviteOf[i].limit \in Nat /\ InviteOf[i].role \in {"MANAGER", "SPENDER", "VIEWER"}
    BY BudgetAssumption
  <2>2. member[InviteOf[i].who].spent \in Nat
    BY <2>1 DEF BudgetTypes, MemberRow
  <2>3. Joined(i) \in MemberRow
    BY <2>1, <2>2 DEF Joined, JoinedAfresh, MemberRow, Spends
  <2>4. member' \in [User -> MemberRow]
    BY <1>6, <2>1, <2>3 DEF Accept, BudgetTypes
  <2> QED BY <1>6, <2>4 DEF Accept, BudgetTypes
<1>7. ASSUME NEW s \in Spend, LeaseEnds(s) PROVE BudgetTypes'
  BY <1>7 DEF LeaseEnds, BudgetTypes, ApprovalRow
<1> QED BY <1>1, <1>2, <1>3, <1>4, <1>5, <1>6, <1>7, <1>8 DEF Managed

\* Every step of a handler.
LEMMA HandlerTypes ==
    ASSUME BudgetTypes, NEW h \in Handler, HandlerSound(h), Handled(h)
    PROVE  BudgetTypes'
<1> USE DEF rows, money
<1> DEFINE who == SpendBy(h).who
           amount == SpendBy(h).amount
<1>k. op[h].at # "idle" => Key(h) \in Spend /\ amount \in Nat \ {0} /\ who \in User
  BY CallTypes
<1>1. CASE Drop(h)
  BY <1>1, CallTypes DEF Drop, BudgetTypes
<1>2. CASE Withdraw(h)
  <2>1. Key(h) \in Spend /\ amount \in Nat \ {0} /\ who \in User /\ op[h].ref \in Ref
    BY <1>2, <1>k DEF Withdraw, Doing, HandlerSound
  <2>2. op' \in [Handler -> Call]
    BY <1>2, CallTypes DEF Withdraw, At
  <2>3. [member[who] EXCEPT !.spent = @ + amount] \in MemberRow
    BY <2>1 DEF BudgetTypes, MemberRow
  <2> HIDE DEF who, amount
  <2>4. CASE UNCHANGED <<budget, member, money>>
    BY <1>2, <2>2, <2>4 DEF Withdraw, BudgetTypes
  <2>5. CASE /\ budget' = [budget EXCEPT !.spent = @ + amount]
             /\ member' = [member EXCEPT ![who].spent = @ + amount]
             /\ purse' = [purse EXCEPT ![who] = @ + amount]
             /\ posted' = [posted EXCEPT ![op[h].ref] = @ + 1]
    <3>1. member' \in [User -> MemberRow]
      BY <2>3, <2>5 DEF BudgetTypes
    <3> QED BY <1>2, <2>1, <2>2, <2>5, <3>1 DEF Withdraw, BudgetTypes
  <2> QED BY <1>2, <2>4, <2>5 DEF Withdraw, who, amount
<1>3. CASE PayOutside(h)
  <2>1. amount \in Nat \ {0} /\ who \in User /\ op[h].ref \in Ref
    BY <1>3, <1>k DEF PayOutside, Doing, HandlerSound
  <2>2. op' \in [Handler -> Call]
    BY <1>3, CallTypes DEF PayOutside, At
  <2> QED BY <1>3, <2>1, <2>2 DEF PayOutside, BudgetTypes
<1>4. CASE WriteBudget(h)
  <2>1. amount \in Nat \ {0} /\ op[h].spent \in Nat
    BY <1>4, <1>k DEF WriteBudget, Doing, BudgetTypes, Call
  <2>2. op' \in [Handler -> Call]
    BY <1>4, CallTypes DEF WriteBudget, At
  <2> QED BY <1>4, <2>1, <2>2 DEF WriteBudget, BudgetTypes
<1>5. CASE WriteMember(h)
  <2>1. amount \in Nat \ {0} /\ who \in User /\ op[h].seen \in MemberRow
    BY <1>5, <1>k DEF WriteMember, Doing, BudgetTypes, Call
  <2>2. op' \in [Handler -> Call]
    BY <1>5, CallTypes DEF WriteMember, At
  <2>3. [op[h].seen EXCEPT !.spent = @ + amount] \in MemberRow
    BY <2>1 DEF MemberRow
  <2>4. member' \in [User -> MemberRow]
    BY <1>5, <2>1, <2>3 DEF WriteMember, BudgetTypes
  <2> QED BY <1>5, <2>2, <2>4 DEF WriteMember, BudgetTypes
<1>6. CASE RequestApproval(h)
  BY <1>6, <1>k, CallTypes DEF RequestApproval, Doing, BudgetTypes, ApprovalRow
<1>7. CASE Reject(h)
  <2>1. op[h].user \in User /\ Key(h) \in Spend
    BY <1>7, <1>k DEF Reject, MayDecide, Doing, HandlerSound
  <2> QED BY <1>7, <2>1, CallTypes DEF Reject, BudgetTypes, ApprovalRow
<1>8. CASE Claim(h)
  <2>1. op[h].user \in User /\ Key(h) \in Spend
    BY <1>8, <1>k DEF Claim, MayDecide, Doing, HandlerSound
  <2>2. op' \in [Handler -> Call]
    BY <1>8, CallTypes DEF Claim, At
  <2> DEFINE row == [status |-> "PROCESSING", reviewer |-> op[h].user, leased |-> TRUE]
  <2>3. approval' = [approval EXCEPT ![Key(h)] = row]
    BY <1>8 DEF Claim
  <2>4. row \in ApprovalRow
    BY <2>1 DEF ApprovalRow
  <2> HIDE DEF row
  <2>5. approval' \in [Spend -> ApprovalRow]
    BY <2>3, <2>4 DEF BudgetTypes
  <2> QED BY <1>8, <2>2, <2>5 DEF Claim, BudgetTypes
<1>9. CASE ExecuteApproved(h)
  <2>1. member[who] \in MemberRow
    BY <1>9, <1>k DEF ExecuteApproved, Doing, BudgetTypes
  <2>2. [op[h] EXCEPT !.at = "executing", !.seen = member[who]] \in Call
    BY <2>1 DEF BudgetTypes, Call, At
  <2>3. op' \in [Handler -> Call]
    BY <1>9, <2>2 DEF ExecuteApproved, BudgetTypes
  <2> QED BY <1>9, <2>3 DEF ExecuteApproved, BudgetTypes
<1>10. CASE FinishApproved(h) \/ FinishFailed(h)
  <2>1. Key(h) \in Spend
    BY <1>10, <1>k DEF FinishApproved, FinishFailed, Closing, Doing
  <2>2. PICK closed \in {"APPROVED", "FAILED"} : Close(h, closed)
    BY <1>10 DEF FinishApproved, FinishFailed
  <2>3. op' \in [Handler -> Call]
    BY <2>2, CallTypes DEF Close
  <2>4. approval' \in [Spend -> ApprovalRow]
    <3> DEFINE row == [approval[Key(h)] EXCEPT !.status = closed, !.leased = FALSE]
    <3>1. row \in ApprovalRow
      BY <2>1 DEF BudgetTypes, ApprovalRow
    <3>2. approval' = approval \/ approval' = [approval EXCEPT ![Key(h)] = row]
      BY <2>1, <2>2 DEF Close, BudgetTypes
    <3> HIDE DEF row
    <3> QED BY <3>1, <3>2 DEF BudgetTypes
  <2> QED BY <2>2, <2>3, <2>4 DEF Close, BudgetTypes
<1>11. ASSUME NEW s \in Spend, SpendStart(h, s) PROVE BudgetTypes'
  <2>1. SpendOf[s].who \in User /\ <<"direct", s>> \in Ref
    BY BudgetAssumption DEF Ref
  <2>2. member[SpendOf[s].who] \in MemberRow
    BY <2>1 DEF BudgetTypes
  <2>3. op' \in [Handler -> Call]
    BY <1>11, <2>1, <2>2, CallTypes DEF SpendStart, At
  <2> QED BY <1>11, <2>3 DEF SpendStart, Begin, BudgetTypes
<1>12. ASSUME NEW s \in Spend, NEW u \in User, ReviewStart(h, u, s) PROVE BudgetTypes'
  <2>1. Stranger \in MemberRow /\ <<"approved", s>> \in Ref
    BY DEF Stranger, MemberRow, NoLimit, Ref
  <2>2. op' \in [Handler -> Call]
    BY <1>12, <2>1, CallTypes DEF ReviewStart, At
  <2> QED BY <1>12, <2>2 DEF ReviewStart, Begin, BudgetTypes
<1> QED BY <1>1, <1>2, <1>3, <1>4, <1>5, <1>6, <1>7, <1>8, <1>9, <1>10, <1>11, <1>12 DEF Handled, Steps

\* What a step may do: a handler it moves is sound afterwards, a payment is the
\* first under the reference of a withdrawal and, after a review, claimed; no claim
\* is undone, and only a paid request becomes approved.
StepSound ==
    /\ \A h \in Handler : op'[h] = op[h] \/ HandlerSound(h)'
    /\ \A r \in Ref :
         \/ posted'[r] = posted[r]
         \/ /\ posted'[r] = posted[r] + 1
            /\ r \in Withdrawal => posted[r] = 0
            /\ r[1] = "approved" => Reviewed(r[2])
    /\ \A s \in Spend : Reviewed(s) => Reviewed(s)'
    /\ \A s \in Spend : approval'[s].status = "APPROVED" =>
           approval[s].status = "APPROVED" \/ posted[<<"approved", s>>] > 0

LEMMA SoundKeeps == ASSUME BudgetInv, BudgetTypes', StepSound PROVE BudgetInv'
<1>t. BudgetTypes /\ SpentOnce /\ PaidAfterClaim /\ ApprovedIsPaid
  BY DEF BudgetInv
<1>p. \A r \in Ref : posted[r] \in Nat /\ posted'[r] \in Nat /\ posted'[r] >= posted[r]
  BY <1>t DEF BudgetTypes, StepSound
<1>1. ASSUME NEW h \in Handler PROVE HandlerSound(h)'
  <2>1. CASE op'[h] = op[h]
    <3> SUFFICES ASSUME op[h].at # "idle" PROVE HandlerSound(h)'
      BY <2>1 DEF HandlerSound
    <3>1. HandlerSound(h) /\ op[h].ref \in Ref
      BY DEF BudgetInv, HandlerSound
    <3>2. Key(h) \in Spend /\ Key(h)' = Key(h) /\ SpendBy(h)' = SpendBy(h) /\ Approved(h)' = Approved(h)
      BY <2>1, <3>1 DEF Key, Ref, SpendBy, Approved
    <3>3. Approved(h)' /\ op'[h].at # "reviewing" => Reviewed(Key(h))'
      <4>1. Reviewed(Key(h)) => Reviewed(op[h].ref[2])'
        BY <3>2 DEF StepSound, Key
      <4> QED BY <2>1, <3>1, <3>2, <4>1 DEF HandlerSound, Key
    <3>4. op'[h].at \in {"paid", "counted", "done"} => posted'[op'[h].ref] > 0
      BY <1>p, <2>1, <3>1 DEF HandlerSound
    <3> QED BY <2>1, <3>1, <3>2, <3>3, <3>4 DEF HandlerSound
  <2> QED BY <2>1 DEF StepSound
<1>2. SpentOnce'
  <2>1. \A r \in Withdrawal : r \in Ref
    BY DEF Withdrawal
  <2> QED BY <1>t, <1>p, <2>1 DEF SpentOnce, StepSound, Withdrawal
<1>3. PaidAfterClaim'
  <2> SUFFICES ASSUME NEW s \in Spend, posted'[<<"approved", s>>] > 0
               PROVE  (/\ approval[s].reviewer \notin {NoUser, SpendOf[s].who}
                       /\ approval[s].status \in {"PROCESSING", "APPROVED", "FAILED"})'
    BY DEF PaidAfterClaim
  <2>1. <<"approved", s>> \in Ref /\ <<"approved", s>>[1] = "approved" /\ <<"approved", s>>[2] = s
    BY DEF Ref
  <2>2. Reviewed(s)
    <3>1. posted[<<"approved", s>>] > 0 => Reviewed(s)
      BY <1>t DEF PaidAfterClaim, Reviewed, BudgetTypes, ApprovalRow
    <3> QED BY <1>p, <2>1, <3>1 DEF StepSound
  <2>3. Reviewed(s)'
    BY <2>2 DEF StepSound
  <2> QED BY <2>3, BudgetAssumption DEF Reviewed
<1>4. ApprovedIsPaid'
  <2> SUFFICES ASSUME NEW s \in Spend, approval'[s].status = "APPROVED" PROVE posted'[<<"approved", s>>] > 0
    BY DEF ApprovedIsPaid
  <2>1. <<"approved", s>> \in Ref
    BY DEF Ref
  <2>2. posted[<<"approved", s>>] > 0
    BY <1>t DEF ApprovedIsPaid, StepSound
  <2> QED BY <1>p, <2>1, <2>2
<1> QED BY <1>1, <1>2, <1>3, <1>4 DEF BudgetInv

\* Nothing that a manager, an invited member or the clock does pays or decides.
LEMMA ManagedSound == ASSUME BudgetInv, Managed PROVE StepSound
<1>1. ASSUME UNCHANGED <<approval, posted, op>> PROVE StepSound
  BY <1>1 DEF StepSound, Reviewed
<1>2. ASSUME NEW s \in Spend, LeaseEnds(s) PROVE StepSound
  <2>1. UNCHANGED <<posted, op>>
    BY <1>2 DEF LeaseEnds, money
  <2>2. \A t \in Spend : approval'[t].reviewer = approval[t].reviewer /\ approval'[t].status = approval[t].status
    BY <1>2 DEF LeaseEnds, BudgetInv, BudgetTypes
  <2> QED BY <2>1, <2>2 DEF StepSound, Reviewed
<1>3. UNCHANGED <<approval, posted, op>> \/ \E s \in Spend : LeaseEnds(s)
  BY DEF Managed, CreateBudget, Allocate, Patch, RemoveMember, Invite, Accept, Decline, ListDue, MarkExpired,
         rows, money
<1> QED BY <1>1, <1>2, <1>3

\* A handler that has just ended, or has just begun, claims nothing.
LEMMA FreshSound ==
    ASSUME BudgetInv, NEW h \in Handler
    PROVE  /\ End(h) => HandlerSound(h)'
           /\ \A s \in Spend, u \in User : \A at, m :
                 /\ at \in {"requesting", "executing"} /\ Begin(h, at, u, <<"direct", s>>, m) => HandlerSound(h)'
                 /\ Begin(h, "reviewing", u, <<"approved", s>>, m) => HandlerSound(h)'
<1>1. End(h) => HandlerSound(h)'
  BY DEF End, BudgetInv, BudgetTypes, HandlerSound, Idle
<1>2. ASSUME NEW s \in Spend, NEW u \in User, NEW at, NEW m, at \in {"requesting", "executing"},
             Begin(h, at, u, <<"direct", s>>, m)
      PROVE  HandlerSound(h)'
  <2>1. op'[h].at = at /\ op'[h].ref = <<"direct", s>> /\ op'[h].user = u
    BY <1>2 DEF Begin, BudgetInv, BudgetTypes
  <2>2. <<"direct", s>> \in Ref /\ <<"direct", s>>[1] = "direct"
    BY DEF Ref
  <2> QED BY <1>2, <2>1, <2>2 DEF HandlerSound, Approved
<1>3. ASSUME NEW s \in Spend, NEW u \in User, NEW m, Begin(h, "reviewing", u, <<"approved", s>>, m)
      PROVE  HandlerSound(h)'
  <2>1. op'[h].at = "reviewing" /\ op'[h].ref = <<"approved", s>> /\ op'[h].user = u
    BY <1>3 DEF Begin, BudgetInv, BudgetTypes
  <2>2. <<"approved", s>> \in Ref
    BY DEF Ref
  <2> QED BY <2>1, <2>2 DEF HandlerSound
<1> QED BY <1>1, <1>2, <1>3

\* A handler that goes on keeps its caller and its reference.
LEMMA GoesOn ==
    ASSUME BudgetInv, NEW h \in Handler, op[h].at # "idle", NEW at \in At,
           \/ GoTo(h, at)
           \/ \E m : op' = [op EXCEPT ![h].at = at, ![h].seen = m]
    PROVE  /\ \A g \in Handler \ {h} : op'[g] = op[g]
           /\ op'[h].at = at /\ op'[h].ref = op[h].ref /\ op'[h].user = op[h].user
           /\ op[h].ref \in Ref /\ op[h].user \in User /\ Key(h) \in Spend
           /\ Key(h)' = Key(h) /\ SpendBy(h)' = SpendBy(h) /\ Approved(h)' = Approved(h)
<1>1. HandlerSound(h)
  BY DEF BudgetInv
<1>2. op[h].ref \in Ref /\ op[h].user \in User /\ Key(h) \in Spend
  BY <1>1 DEF HandlerSound, Key, Ref
<1>3. /\ \A g \in Handler \ {h} : op'[g] = op[g]
      /\ op'[h].at = at /\ op'[h].ref = op[h].ref /\ op'[h].user = op[h].user
  BY DEF GoTo, BudgetInv, BudgetTypes, Call
<1> QED BY <1>2, <1>3 DEF Key, SpendBy, Approved

\* A payment of the budget goes out under a reference that has none, and any
\* payment is claimed when reviewed.
LEMMA PaySound ==
    ASSUME BudgetInv, NEW h \in Handler, Doing(h, "executing"), NEW at \in {"paid", "done"}, GoTo(h, at),
           at = "paid" => SpendBy(h).kind = "EXTERNAL", UNCHANGED approval,
           \/ /\ New(op[h].ref) \/ SpendBy(h).kind = "EXTERNAL"
              /\ posted' = [posted EXCEPT ![op[h].ref] = @ + 1]
           \/ posted[op[h].ref] > 0 /\ UNCHANGED posted
    PROVE  StepSound
<1>t. BudgetTypes /\ HandlerSound(h)
  BY DEF BudgetInv
<1>g. /\ \A g \in Handler \ {h} : op'[g] = op[g]
      /\ op'[h].at = at /\ op'[h].ref = op[h].ref /\ op'[h].user = op[h].user
      /\ op[h].ref \in Ref /\ op[h].user \in User /\ Key(h) \in Spend
      /\ Key(h)' = Key(h) /\ SpendBy(h)' = SpendBy(h) /\ Approved(h)' = Approved(h)
  BY GoesOn DEF Doing, At
<1>1. Approved(h) => Reviewed(Key(h))
  BY <1>t DEF HandlerSound, Doing
<1>2. \A s \in Spend : Reviewed(s)' <=> Reviewed(s)
  BY DEF Reviewed
<1>3. posted'[op[h].ref] > 0 /\ posted[op[h].ref] \in Nat
  BY <1>t, <1>g DEF BudgetTypes
<1>4. HandlerSound(h)'
  <2>1. Reviewed(Key(h)) => Reviewed(Key(h))'
    BY <1>g, <1>2 DEF Reviewed
  <2> QED BY <1>g, <1>1, <1>3, <2>1 DEF HandlerSound
<1>5. \A r \in Ref :
         \/ posted'[r] = posted[r]
         \/ /\ posted'[r] = posted[r] + 1
            /\ r \in Withdrawal => posted[r] = 0
            /\ r[1] = "approved" => Reviewed(r[2])
  <2> SUFFICES ASSUME NEW r \in Ref, posted'[r] # posted[r]
               PROVE  /\ posted'[r] = posted[r] + 1
                      /\ r \in Withdrawal => posted[r] = 0
                      /\ r[1] = "approved" => Reviewed(r[2])
    OBVIOUS
  <2>1. r = op[h].ref /\ posted'[r] = posted[r] + 1
    BY <1>t DEF BudgetTypes
  <2>2. r \in Withdrawal => New(r)
    BY <2>1 DEF Withdrawal, SpendBy, Key
  <2> QED BY <1>1, <2>1, <2>2 DEF New, Approved, Key
<1> QED BY <1>g, <1>2, <1>4, <1>5 DEF StepSound

\* A handler that goes on after the payment is as sound as it was.
LEMMA PaidOn ==
    ASSUME BudgetInv, NEW h \in Handler, NEW from \in {"paid", "counted"}, Doing(h, from),
           NEW at \in {"counted", "done"}, GoTo(h, at), UNCHANGED <<approval, posted>>
    PROVE  StepSound
<1>t. HandlerSound(h)
  BY DEF BudgetInv
<1>g. /\ \A g \in Handler \ {h} : op'[g] = op[g]
      /\ op'[h].at = at /\ op'[h].ref = op[h].ref /\ op'[h].user = op[h].user
      /\ op[h].ref \in Ref /\ op[h].user \in User /\ Key(h) \in Spend
      /\ Key(h)' = Key(h) /\ SpendBy(h)' = SpendBy(h) /\ Approved(h)' = Approved(h)
  BY GoesOn DEF Doing, At
<1>1. \A s \in Spend : Reviewed(s)' <=> Reviewed(s)
  BY DEF Reviewed
<1>2. /\ Approved(h) => Reviewed(Key(h))
      /\ posted'[op[h].ref] > 0 /\ SpendBy(h).kind = "EXTERNAL"
  BY <1>t DEF HandlerSound, Doing
<1>3. HandlerSound(h)'
  <2>1. Reviewed(Key(h)) => Reviewed(Key(h))'
    BY <1>g, <1>1 DEF Reviewed
  <2> QED BY <1>g, <1>2, <2>1 DEF HandlerSound
<1> QED BY <1>g, <1>1, <1>3 DEF StepSound

\* Every step of a handler.
LEMMA HandlerStepSound ==
    ASSUME BudgetInv, NEW h \in Handler, Handled(h)
    PROVE  StepSound
<1>t. BudgetTypes /\ HandlerSound(h)
  BY DEF BudgetInv
<1>k. op[h].at # "idle" => Key(h) \in Spend /\ op[h].user \in User
  BY <1>t, CallTypes DEF HandlerSound
<1>e. ASSUME End(h) PROVE HandlerSound(h)' /\ \A g \in Handler \ {h} : op'[g] = op[g]
  BY <1>t, <1>e, FreshSound DEF End, BudgetTypes
<1>1. CASE Drop(h)
  BY <1>e, <1>1 DEF Drop, rows, money, StepSound, Reviewed
<1>2. CASE Withdraw(h)
  BY <1>2, PaySound DEF Withdraw, money
<1>3. CASE PayOutside(h)
  BY <1>3, PaySound DEF PayOutside, money, rows
<1>4. CASE WriteBudget(h)
  BY <1>4, PaidOn DEF WriteBudget, money
<1>5. CASE WriteMember(h)
  BY <1>5, PaidOn DEF WriteMember, money
<1>6. CASE RequestApproval(h)
  <2>1. Key(h) \in Spend /\ approval[Key(h)].status = "NONE"
    BY <1>6, <1>k DEF RequestApproval, Doing, NoApproval
  <2>2. \A s \in Spend : Reviewed(s) => Reviewed(s)'
    BY <1>6, <2>1 DEF RequestApproval, Reviewed
  <2>3. \A s \in Spend : approval'[s].status = "APPROVED" => approval[s].status = "APPROVED"
    BY <1>6, <2>1, <1>t DEF RequestApproval, BudgetTypes
  <2> QED BY <1>e, <1>6, <2>2, <2>3 DEF RequestApproval, money, StepSound
<1>7. CASE Reject(h)
  <2>1. Key(h) \in Spend /\ approval[Key(h)].status = "PENDING"
    BY <1>7, <1>k DEF Reject, MayDecide, Rejectable, Doing
  <2>2. \A s \in Spend : Reviewed(s) => Reviewed(s)'
    BY <1>7, <2>1 DEF Reject, Reviewed
  <2>3. \A s \in Spend : approval'[s].status = "APPROVED" => approval[s].status = "APPROVED"
    BY <1>7, <2>1, <1>t DEF Reject, BudgetTypes
  <2> QED BY <1>e, <1>7, <2>2, <2>3 DEF Reject, money, StepSound
<1>8. CASE Claim(h)
  <2>g. /\ \A g \in Handler \ {h} : op'[g] = op[g]
        /\ op'[h].at = "claimed" /\ op'[h].ref = op[h].ref /\ op'[h].user = op[h].user
        /\ op[h].ref \in Ref /\ op[h].user \in User /\ Key(h) \in Spend
        /\ Key(h)' = Key(h) /\ SpendBy(h)' = SpendBy(h) /\ Approved(h)' = Approved(h)
    BY <1>8, GoesOn DEF Claim, MayDecide, Doing, At
  <2>1. approval' = [approval EXCEPT ![Key(h)] = [status |-> "PROCESSING", reviewer |-> op[h].user, leased |-> TRUE]]
    BY <1>8 DEF Claim
  <2>2. op[h].user # SpendOf[Key(h)].who
    BY <1>8 DEF Claim, MayDecide, SpendBy
  <2>3. \A s \in Spend : Reviewed(s) => Reviewed(s)'
    BY <2>g, <2>1, <2>2 DEF Reviewed
  <2>4. Reviewed(Key(h))'
    BY <1>t, <2>g, <2>1, <2>2 DEF Reviewed, BudgetTypes
  <2>5. HandlerSound(h)'
    BY <2>g, <2>4 DEF HandlerSound
  <2>6. \A s \in Spend : approval'[s].status = "APPROVED" => approval[s].status = "APPROVED"
    BY <1>t, <2>g, <2>1 DEF BudgetTypes
  <2> QED BY <1>8, <2>g, <2>3, <2>5, <2>6 DEF Claim, money, StepSound
<1>9. CASE ExecuteApproved(h)
  <2>g. /\ \A g \in Handler \ {h} : op'[g] = op[g]
        /\ op'[h].at = "executing" /\ op'[h].ref = op[h].ref /\ op'[h].user = op[h].user
        /\ op[h].ref \in Ref /\ op[h].user \in User /\ Key(h) \in Spend
        /\ Key(h)' = Key(h) /\ SpendBy(h)' = SpendBy(h) /\ Approved(h)' = Approved(h)
    BY <1>9, GoesOn DEF ExecuteApproved, Doing, At
  <2>1. \A s \in Spend : Reviewed(s)' <=> Reviewed(s)
    BY <1>9 DEF ExecuteApproved, rows, Reviewed
  <2>2. Approved(h) => Reviewed(Key(h))
    BY <1>9, <1>t DEF ExecuteApproved, Doing, HandlerSound
  <2>3. HandlerSound(h)'
    <3>1. Reviewed(Key(h)) => Reviewed(Key(h))'
      BY <2>g, <2>1 DEF Reviewed
    <3> QED BY <2>g, <2>2, <3>1 DEF HandlerSound
  <2> QED BY <1>9, <2>g, <2>1, <2>3 DEF ExecuteApproved, rows, money, StepSound
<1>10. CASE FinishApproved(h) \/ FinishFailed(h)
  <2>1. PICK closed \in {"APPROVED", "FAILED"} :
          /\ Close(h, closed)
          /\ closed = "APPROVED" => Approved(h) /\ op[h].at = "done"
    BY <1>10 DEF FinishApproved, FinishFailed, Closing, Doing
  <2>2. Key(h) \in Spend
    BY <1>10, <1>k DEF FinishApproved, FinishFailed, Closing, Doing
  <2>3. \A s \in Spend : Reviewed(s) => Reviewed(s)'
    BY <1>t, <2>1, <2>2 DEF Close, Reviewed, BudgetTypes
  <2>4. closed = "APPROVED" => posted[<<"approved", Key(h)>>] > 0
    BY <1>t, <2>1 DEF HandlerSound, Approved, Key, Ref
  <2>5. \A s \in Spend : approval'[s].status = "APPROVED" =>
             approval[s].status = "APPROVED" \/ posted[<<"approved", s>>] > 0
    BY <1>t, <2>1, <2>2, <2>4 DEF Close, BudgetTypes
  <2> QED BY <1>e, <2>1, <2>3, <2>5 DEF Close, money, StepSound
<1>11. ASSUME NEW s \in Spend, SpendStart(h, s) PROVE StepSound
  <2>1. SpendOf[s].who \in User
    BY BudgetAssumption
  <2>2. HandlerSound(h)'
    BY <1>11, <2>1, FreshSound DEF SpendStart
  <2> QED BY <1>11, <1>t, <2>2 DEF SpendStart, Begin, rows, money, StepSound, Reviewed, BudgetTypes
<1>12. ASSUME NEW s \in Spend, NEW u \in User, ReviewStart(h, u, s) PROVE StepSound
  <2>1. HandlerSound(h)'
    BY <1>12, FreshSound DEF ReviewStart
  <2> QED BY <1>12, <1>t, <2>1 DEF ReviewStart, Begin, rows, money, StepSound, Reviewed, BudgetTypes
<1> QED BY <1>1, <1>2, <1>3, <1>4, <1>5, <1>6, <1>7, <1>8, <1>9, <1>10, <1>11, <1>12 DEF Handled, Steps

\* The invariant of the payments.
LEMMA BudgetInductive == BudgetSpec => []BudgetInv
<1>1. BudgetInit => BudgetInv
  <2> SUFFICES ASSUME BudgetInit PROVE BudgetInv
    OBVIOUS
  <2>1. \A h \in Handler : HandlerSound(h)
    BY DEF BudgetInit, Idle, HandlerSound
  <2>2. \A s \in Spend : <<"approved", s>> \in Ref
    BY DEF Ref
  <2>3. SpentOnce /\ PaidAfterClaim /\ ApprovedIsPaid
    BY <2>2 DEF BudgetInit, SpentOnce, Withdrawal, PaidAfterClaim, ApprovedIsPaid, NoApproval
  <2> QED BY <2>1, <2>3, InitBudgetTypes DEF BudgetInv
<1>2. BudgetInv /\ [BudgetNext]_budgetVars => BudgetInv'
  <2> SUFFICES ASSUME BudgetInv, [BudgetNext]_budgetVars PROVE BudgetInv'
    OBVIOUS
  <2>t. BudgetTypes /\ \A h \in Handler : HandlerSound(h)
    BY DEF BudgetInv
  <2>1. CASE Managed
    BY <2>t, <2>1, ManagedTypes, ManagedSound, SoundKeeps
  <2>2. ASSUME NEW h \in Handler, Handled(h) PROVE BudgetInv'
    BY <2>t, <2>2, HandlerTypes, HandlerStepSound, SoundKeeps
  <2>3. CASE UNCHANGED budgetVars
    <3>1. BudgetTypes' /\ StepSound
      BY <2>t, <2>3 DEF budgetVars, rows, money, BudgetTypes, StepSound, Reviewed
    <3> QED BY <3>1, SoundKeeps
  <2> QED BY <2>1, <2>2, <2>3, StepKinds
<1> QED BY <1>1, <1>2, PTL DEF BudgetSpec

\* The reference of a withdrawal is paid at most once, whoever repeats it and
\* however often, and whatever the engine does with payments to the outside.
THEOREM BudgetPaysOnce == BudgetSpec => []SpentOnce
<1>1. BudgetInv => SpentOnce
  BY DEF BudgetInv
<1> QED BY <1>1, BudgetInductive, PTL

\* A reviewed spend is paid only after a colleague of the requester claimed it,
\* and a request that was paid never reads REJECTED, for any number of reviewers
\* that take over each other's claims.
THEOREM ReviewedFirst == BudgetSpec => []PaidAfterClaim
<1>1. BudgetInv => PaidAfterClaim
  BY DEF BudgetInv
<1> QED BY <1>1, BudgetInductive, PTL

\* What reads APPROVED was paid, although a claim may be taken over during the
\* payment; a withdrawal was then paid exactly once (BudgetPaysOnce).
THEOREM ApprovedWasPaid == BudgetSpec => []ApprovedIsPaid
<1>1. BudgetInv => ApprovedIsPaid
  BY DEF BudgetInv
<1> QED BY <1>1, BudgetInductive, PTL

\* A withdrawal is paid only by the function that has locked an active budget and
\* an active member, whatever the handler read before.
THEOREM StoppedBudgetPaysNobody == BudgetSpec => StoppedPaysNobody
<1> DEFINE Stops == \A r \in Withdrawal : posted[r] # posted'[r] =>
                       budget.status = "ACTIVE" /\ Active(SpendOf[r[2]].who)
<1>1. BudgetInv /\ [BudgetNext]_budgetVars => Stops
  <2> SUFFICES ASSUME BudgetInv, [BudgetNext]_budgetVars,
                      NEW r \in Withdrawal, posted[r] # posted'[r]
               PROVE  budget.status = "ACTIVE" /\ Active(SpendOf[r[2]].who)
    OBVIOUS
  <2>1. CASE Managed
    BY <2>1 DEF Managed, CreateBudget, Allocate, Patch, RemoveMember, Invite, Accept, Decline,
                ListDue, MarkExpired, LeaseEnds, rows, money
  <2>2. ASSUME NEW h \in Handler, Handled(h)
        PROVE  budget.status = "ACTIVE" /\ Active(SpendOf[r[2]].who)
    <3>1. CASE Withdraw(h)
      <4>1. r = op[h].ref
        BY <3>1 DEF Withdraw, BudgetInv, BudgetTypes, money, Withdrawal
      <4> QED BY <3>1, <4>1 DEF Withdraw, MayWithdraw, Is, SpendBy, Key
    <3>2. CASE PayOutside(h)
      <4>1. r = op[h].ref
        BY <3>2 DEF PayOutside, BudgetInv, BudgetTypes, money, Withdrawal
      <4> QED BY <3>2, <4>1 DEF PayOutside, SpendBy, Key, Withdrawal
    <3>3. CASE UNCHANGED posted
      BY <3>3
    <3> QED BY <2>2, <3>1, <3>2, <3>3 DEF Handled, Steps, Drop, WriteBudget, WriteMember, RequestApproval,
                Reject, Claim, ExecuteApproved, FinishApproved, FinishFailed, Close, SpendStart, ReviewStart, money
  <2>3. CASE UNCHANGED budgetVars
    BY <2>3 DEF budgetVars, money
  <2> QED BY <2>1, <2>2, <2>3, StepKinds
<1> QED BY <1>1, BudgetInductive, PTL DEF BudgetSpec, StoppedPaysNobody

-----------------------------------------------------------------------------
(* What was withdrawn from a budget, and by whom. *)

\* One more reference is paid: its amount joins the sums that it belongs to.
LEMMA OneMorePaid ==
    ASSUME BudgetTypes, IsFiniteSet(PaidRefs), NEW r \in Ref, posted[r] = 0,
           posted' = [posted EXCEPT ![r] = @ + 1]
    PROVE  /\ IsFiniteSet(PaidRefs')
           /\ \A R \in SUBSET Ref : PaidOut(R)' = IF r \in R THEN PaidOut(R) + SpendOf[r[2]].amount ELSE PaidOut(R)
<1> DEFINE amounts == [x \in Ref |-> SpendOf[x[2]].amount]
<1>1. \A x \in Ref : posted'[x] > 0 <=> posted[x] > 0 \/ x = r
  BY DEF BudgetTypes
<1>2. PaidRefs' = PaidRefs \cup {r}
  BY <1>1 DEF PaidRefs
<1>3. IsFiniteSet(PaidRefs')
  BY <1>2, FS_AddElement
<1>4. \A x \in Ref : amounts[x] \in Int /\ amounts[x] = SpendOf[x[2]].amount
  BY BudgetAssumption DEF Ref
<1>5. ASSUME NEW R \in SUBSET Ref
      PROVE  PaidOut(R)' = IF r \in R THEN PaidOut(R) + SpendOf[r[2]].amount ELSE PaidOut(R)
  <2> DEFINE S == {x \in R : posted[x] > 0}
  <2>1. IsFiniteSet(S) /\ r \notin S
    <3>1. S \subseteq PaidRefs
      BY DEF PaidRefs
    <3> QED BY <3>1, FS_Subset
  <2>2. {x \in R : posted'[x] > 0} = IF r \in R THEN S \cup {r} ELSE S
    BY <1>1
  <2>3. PaidOut(R) = SumFunctionOnSet(amounts, S)
    BY DEF PaidOut
  <2>4. PaidOut(R)' = SumFunctionOnSet(amounts, IF r \in R THEN S \cup {r} ELSE S)
    BY <2>2 DEF PaidOut
  <2>5. SumFunctionOnSet(amounts, S \cup {r}) = SumFunctionOnSet(amounts, S) + amounts[r]
    <3>1. \A x \in S : amounts[x] \in Int
      BY <1>4
    <3> HIDE DEF S, amounts
    <3> QED BY <1>4, <2>1, <3>1, SumAdd
  <2> HIDE DEF S, amounts
  <2> QED BY <1>4, <2>3, <2>4, <2>5
<1> QED BY <1>3, <1>5

\* A step that pays nothing, and spends nothing for anybody, keeps the accounts
\* where a member that joins has an offer.
LEMMA SumSameStep ==
    ASSUME SumInv, UNCHANGED posted, budget'.spent = budget.spent, budget'.funded >= budget.funded,
           budget.spent \in Nat, budget.funded \in Nat, budget'.funded \in Nat,
           \A u \in User \ {Owner} :
               /\ member'[u].spent = member[u].spent
               /\ \/ member'[u].limit = member[u].limit /\ (member'[u].status # "NONE" => member[u].status # "NONE")
                  \/ Offer(u, member'[u].limit)
    PROVE  SumInv'
<1>1. PaidRefs' = PaidRefs
  BY DEF PaidRefs
<1>2. \A R \in SUBSET Ref : PaidOut(R)' = PaidOut(R)
  BY DEF PaidOut
<1>3. ASSUME NoOutside' PROVE budget'.spent = PaidOut(Withdrawal)' /\ budget'.spent <= budget'.funded
  <2>1. NoOutside
    BY <1>3 DEF NoOutside
  <2>2. budget.spent = PaidOut(Withdrawal) /\ budget.spent <= budget.funded
    BY <2>1 DEF SumInv, Accounts
  <2> QED BY <1>2, <2>2 DEF Withdrawal
<1>4. ASSUME NoOutside', NEW u \in User \ {Owner} PROVE Allowance(u)'
  <2>1. NoOutside
    BY <1>4 DEF NoOutside
  <2>2. Allowance(u)
    BY <2>1 DEF SumInv, Accounts
  <2>3. PaidOut(Own(u))' = PaidOut(Own(u))
    BY <1>2 DEF Own, Withdrawal
  <2> QED BY <2>2, <2>3 DEF Allowance, Offer
<1> QED BY <1>1, <1>3, <1>4 DEF SumInv, Accounts

\* Managers move members and money about, but spend nothing.
LEMMA ManagedSums == ASSUME BudgetInv, BudgetTypes', SumInv, Managed PROVE SumInv'
<1>t. /\ BudgetTypes /\ budget.spent \in Nat /\ budget.funded \in Nat /\ budget'.funded \in Nat
      /\ \A u \in User : member[u] \in MemberRow
  BY DEF BudgetInv, BudgetTypes
<1>1. ASSUME UNCHANGED <<posted, budget, member>> PROVE SumInv'
  BY <1>t, <1>1, SumSameStep
<1>2. ASSUME NEW mode \in {"AUTO", "REVIEW"}, CreateBudget(mode) PROVE SumInv'
  <2>1. budget'.spent = budget.spent /\ budget'.funded = budget.funded
    BY <1>t, <1>2 DEF CreateBudget, BudgetTypes
  <2>2. \A u \in User \ {Owner} : member'[u] = member[u]
    BY <1>t, <1>2 DEF CreateBudget, BudgetTypes
  <2> QED BY <1>t, <1>2, <2>1, <2>2, SumSameStep DEF CreateBudget, money
<1>3. ASSUME NEW u \in User, Allocate(u) PROVE SumInv'
  <2>1. budget'.spent = budget.spent /\ budget'.funded >= budget.funded
    BY <1>t, <1>3, BudgetAssumption DEF Allocate, BudgetTypes
  <2> QED BY <1>t, <1>3, <2>1, SumSameStep DEF Allocate
<1>4. ASSUME NEW u \in User, NEW p \in Patches, Patch(u, p) PROVE SumInv'
  <2>1. budget'.spent = budget.spent /\ budget'.funded = budget.funded
    BY <1>t, <1>4 DEF Patch, BudgetTypes
  <2> QED BY <1>t, <1>4, <2>1, SumSameStep DEF Patch, money
<1>5. ASSUME NEW u \in User, NEW m \in User, RemoveMember(u, m) PROVE SumInv'
  <2>1. \A v \in User : /\ member'[v].spent = member[v].spent /\ member'[v].limit = member[v].limit
                        /\ member'[v].status # "NONE" => member[v].status # "NONE"
    BY <1>t, <1>5 DEF RemoveMember, Active, BudgetTypes, MemberRow
  <2> QED BY <1>t, <1>5, <2>1, SumSameStep DEF RemoveMember, money
<1>6. ASSUME NEW i \in Invitation, Accept(i) PROVE SumInv'
  <2> DEFINE v == InviteOf[i].who
  <2>1. v \in User /\ Joined(i).spent = member[v].spent /\ Joined(i).limit = InviteOf[i].limit
    BY BudgetAssumption DEF Joined, JoinedAfresh
  <2>2. member' = [member EXCEPT ![v] = Joined(i)]
    BY <1>6 DEF Accept
  <2>3. Offer(v, InviteOf[i].limit)
    BY DEF Offer
  <2> HIDE DEF v
  <2>4. \A u \in User : u # v => member'[u] = member[u]
    BY <1>t, <2>2 DEF BudgetTypes
  <2>5. member'[v] = Joined(i)
    BY <1>t, <2>1, <2>2 DEF BudgetTypes
  <2>6. \A u \in User : /\ member'[u].spent = member[u].spent
                        /\ member'[u] = member[u] \/ Offer(u, member'[u].limit)
    BY <2>1, <2>3, <2>4, <2>5
  <2>7. UNCHANGED <<budget, posted>>
    BY <1>6 DEF Accept, money
  <2> QED BY <1>t, <2>6, <2>7, SumSameStep
<1>7. \/ UNCHANGED <<posted, budget, member>>
      \/ \E mode \in {"AUTO", "REVIEW"} : CreateBudget(mode)
      \/ \E u \in User : Allocate(u)
      \/ \E u \in User, p \in Patches : Patch(u, p)
      \/ \E u, m \in User : RemoveMember(u, m)
      \/ \E i \in Invitation : Accept(i)
  BY DEF Managed, Invite, Decline, ListDue, MarkExpired, LeaseEnds, rows, money
<1> QED BY <1>1, <1>2, <1>3, <1>4, <1>5, <1>6, <1>7

\* A withdrawal spends the same amount in the budget, in the member's row and in
\* what was withdrawn, within the funds and within the member's limit.
LEMMA WithdrawSums == ASSUME BudgetInv, SumInv, NEW h \in Handler, Withdraw(h) PROVE SumInv'
<1> DEFINE who == SpendBy(h).who
           amount == SpendBy(h).amount
           r == op[h].ref
<1>t. BudgetTypes /\ HandlerSound(h)
  BY DEF BudgetInv
<1>1. op[h].at = "executing" /\ SpendBy(h).kind = "WITHDRAW"
  BY DEF Withdraw, Doing
<1>2. r \in Ref /\ who \in User /\ amount \in Nat \ {0} /\ SpendOf[r[2]] = SpendBy(h)
  BY <1>t, <1>1, CallTypes DEF HandlerSound, SpendBy, Key
<1>3. r \in Withdrawal
  BY <1>1, <1>2 DEF Withdrawal
<1>4. member[who] \in MemberRow /\ budget.spent \in Nat /\ budget.funded \in Nat
  BY <1>t, <1>2 DEF BudgetTypes
<1>5. CASE UNCHANGED <<budget, member, money>>
  BY <1>4, <1>5, SumSameStep DEF money
<1>6. ASSUME New(r), Funded(who, amount),
             budget' = [budget EXCEPT !.spent = @ + amount],
             member' = [member EXCEPT ![who].spent = @ + amount],
             posted' = [posted EXCEPT ![r] = @ + 1]
      PROVE  SumInv'
  <2>1. posted[r] = 0 /\ IsFiniteSet(PaidRefs)
    BY <1>6 DEF New, SumInv
  <2>2. /\ IsFiniteSet(PaidRefs')
        /\ \A R \in SUBSET Ref : PaidOut(R)' = IF r \in R THEN PaidOut(R) + amount ELSE PaidOut(R)
    <3>1. /\ IsFiniteSet(PaidRefs')
          /\ \A R \in SUBSET Ref : PaidOut(R)' = IF r \in R THEN PaidOut(R) + SpendOf[r[2]].amount ELSE PaidOut(R)
      <4> HIDE DEF amount, who, r
      <4> QED BY <1>t, <1>2, <1>6, <2>1, OneMorePaid
    <3>2. SpendOf[r[2]].amount = amount
      BY <1>2
    <3> QED BY <3>1, <3>2
  <2>3. budget'.spent = budget.spent + amount /\ budget'.funded = budget.funded
    BY <1>t, <1>6 DEF BudgetTypes
  <2>4. /\ member'[who].spent = member[who].spent + amount
        /\ member'[who].limit = member[who].limit /\ member'[who].status = member[who].status
        /\ \A u \in User : u # who => member'[u] = member[u]
    BY <1>t, <1>2, <1>6 DEF BudgetTypes, MemberRow
  <2>5. ASSUME NoOutside' PROVE NoOutside
    BY <1>t, <1>3, <1>6, <2>5 DEF NoOutside, BudgetTypes
  <2>6. ASSUME NoOutside' PROVE budget'.spent = PaidOut(Withdrawal)' /\ budget'.spent <= budget'.funded
    <3>1. budget.spent = PaidOut(Withdrawal)
      BY <2>5, <2>6 DEF SumInv, Accounts
    <3>2. PaidOut(Withdrawal)' = PaidOut(Withdrawal) + amount
      BY <1>3, <2>2 DEF Withdrawal
    <3>3. budget.spent + amount <= budget.funded
      BY <1>6 DEF Funded
    <3> QED BY <2>3, <3>1, <3>2, <3>3
  <2>7. ASSUME NoOutside', NEW u \in User \ {Owner} PROVE Allowance(u)'
    <3>1. Allowance(u)
      BY <2>5, <2>7 DEF SumInv, Accounts
    <3>2. Own(u) \in SUBSET Ref
      BY DEF Own, Withdrawal
    <3>3. CASE u # who
      <4>1. r \notin Own(u)
        BY <1>2, <3>3 DEF Own
      <4>2. PaidOut(Own(u))' = PaidOut(Own(u))
        BY <2>2, <3>2, <4>1
      <4> QED BY <2>4, <3>1, <3>3, <4>2 DEF Allowance, Offer
    <3>4. CASE u = who
      <4>1. r \in Own(u)
        BY <1>2, <1>3, <3>4 DEF Own
      <4>2. PaidOut(Own(u))' = PaidOut(Own(u)) + amount
        BY <2>2, <3>2, <4>1
      <4>3. member[u].status # "NONE"
        BY <3>4 DEF Withdraw, MayWithdraw, Is, Active
      <4>4. Offer(u, member[u].limit)
        BY <3>1, <4>3 DEF Allowance
      <4>5. member[u].limit = NoLimit \/ member'[u].spent <= member[u].limit
        BY <1>6, <2>4, <3>4 DEF Funded
      <4>6. member[u].limit \in Nat
        BY <1>4, <3>4 DEF MemberRow
      <4>7. member'[u].spent = PaidOut(Own(u))'
        BY <2>4, <3>1, <3>4, <4>2 DEF Allowance
      <4>8. Offer(u, NoLimit) \/ \E n \in Nat : Offer(u, n) /\ member'[u].spent <= n
        BY <4>4, <4>5, <4>6
      <4>9. member'[u].limit = member[u].limit
        BY <2>4, <3>4
      <4> QED BY <4>4, <4>7, <4>8, <4>9 DEF Allowance, Offer
    <3> QED BY <3>3, <3>4
  <2> QED BY <2>2, <2>6, <2>7 DEF SumInv, Accounts
<1> QED BY <1>5, <1>6 DEF Withdraw, money

\* Nobody else who handles a request spends without a payment to the outside.
LEMMA HandledSums == ASSUME BudgetInv, SumInv, NEW h \in Handler, Handled(h) PROVE SumInv'
<1>t. BudgetTypes /\ HandlerSound(h) /\ budget.spent \in Nat /\ budget.funded \in Nat
  BY DEF BudgetInv, BudgetTypes
<1>1. CASE Withdraw(h)
  BY <1>1, WithdrawSums
<1>2. CASE UNCHANGED <<posted, budget, member>>
  BY <1>t, <1>2, SumSameStep
<1>o. ASSUME op[h].ref \in Ref, SpendBy(h).kind = "EXTERNAL" PROVE op[h].ref \in Ref \ Withdrawal
  BY <1>o DEF Withdrawal, SpendBy, Key
<1>3. ASSUME PayOutside(h), ~UNCHANGED posted PROVE SumInv'
  <2>1. op[h].ref \in Ref \ Withdrawal
    BY <1>t, <1>o, <1>3 DEF PayOutside, Doing, HandlerSound
  <2>2. posted' = [posted EXCEPT ![op[h].ref] = @ + 1]
    BY <1>3 DEF PayOutside, money
  <2>3. IsFiniteSet(PaidRefs')
    <3>1. CASE posted[op[h].ref] = 0
      BY <1>t, <2>1, <2>2, <3>1, OneMorePaid DEF SumInv
    <3>2. CASE posted[op[h].ref] # 0
      <4>1. \A r \in Ref : posted'[r] > 0 <=> posted[r] > 0
        BY <1>t, <2>1, <2>2, <3>2 DEF BudgetTypes
      <4>2. PaidRefs' = PaidRefs
        BY <4>1 DEF PaidRefs
      <4> QED BY <4>2 DEF SumInv
    <3> QED BY <3>1, <3>2
  <2>4. ~NoOutside'
    BY <1>t, <2>1, <2>2 DEF NoOutside, BudgetTypes
  <2> QED BY <2>3, <2>4 DEF SumInv, Accounts
<1>4. ASSUME WriteBudget(h) \/ WriteMember(h) PROVE SumInv'
  <2>1. op[h].ref \in Ref \ Withdrawal /\ posted[op[h].ref] > 0
    BY <1>t, <1>o, <1>4 DEF WriteBudget, WriteMember, Doing, HandlerSound
  <2>2. posted' = posted
    BY <1>4 DEF WriteBudget, WriteMember, money
  <2>3. ~NoOutside' /\ PaidRefs' = PaidRefs
    BY <1>t, <2>1, <2>2 DEF NoOutside, BudgetTypes, PaidRefs
  <2> QED BY <2>3 DEF SumInv, Accounts
<1>5. \/ Withdraw(h) \/ (PayOutside(h) /\ ~UNCHANGED posted) \/ WriteBudget(h) \/ WriteMember(h)
      \/ UNCHANGED <<posted, budget, member>>
  BY DEF Handled, Steps, Drop, PayOutside, RequestApproval, Reject, Claim, ExecuteApproved, FinishApproved,
         FinishFailed, Close, SpendStart, ReviewStart, rows, money
<1> QED BY <1>1, <1>2, <1>3, <1>4, <1>5

LEMMA SumsInductive == BudgetSpec => []SumInv
<1>1. BudgetInit => SumInv
  <2> SUFFICES ASSUME BudgetInit PROVE SumInv
    OBVIOUS
  <2>1. \A R \in SUBSET Ref : PaidOut(R) = 0
    <3> SUFFICES ASSUME NEW R \in SUBSET Ref PROVE PaidOut(R) = 0
      OBVIOUS
    <3>1. {x \in R : posted[x] > 0} = {}
      BY DEF BudgetInit
    <3> QED BY <3>1, SumEmpty DEF PaidOut
  <2>2. PaidRefs = {} /\ budget.spent = 0 /\ budget.funded = 0
    BY DEF BudgetInit, PaidRefs
  <2>3. \A u \in User : member[u].spent = 0 /\ member[u].status = "NONE"
    BY DEF BudgetInit, Stranger
  <2>4. Withdrawal \in SUBSET Ref /\ \A u \in User : Own(u) \in SUBSET Ref
    BY DEF Withdrawal, Own
  <2> QED BY <2>1, <2>2, <2>3, <2>4, FS_EmptySet DEF SumInv, Accounts, Allowance
<1>2. SumInv /\ BudgetInv /\ BudgetInv' /\ [BudgetNext]_budgetVars => SumInv'
  <2> SUFFICES ASSUME SumInv, BudgetInv, BudgetInv', [BudgetNext]_budgetVars PROVE SumInv'
    OBVIOUS
  <2>1. CASE Managed
    BY <2>1, ManagedSums DEF BudgetInv
  <2>2. ASSUME NEW h \in Handler, Handled(h) PROVE SumInv'
    BY <2>2, HandledSums
  <2>3. CASE UNCHANGED budgetVars
    <3>1. budget.spent \in Nat /\ budget.funded \in Nat
      BY DEF BudgetInv, BudgetTypes
    <3> QED BY <2>3, <3>1, SumSameStep DEF budgetVars, rows, money
  <2> QED BY <2>1, <2>2, <2>3, StepKinds
<1> QED BY <1>1, <1>2, BudgetInductive, PTL DEF BudgetSpec

\* As long as nobody paid an outside provider, the budget has spent exactly what
\* was withdrawn from it, and no more than it was given.
THEOREM SpentIsPaidOut == BudgetSpec => []SpentIsWithdrawn
<1>1. SumInv => SpentIsWithdrawn
  BY DEF SumInv, Accounts, NoOutside, SpentIsWithdrawn
<1> QED BY <1>1, SumsInductive, PTL

\* As long as nobody paid an outside provider, a member withdraws no more than the
\* largest limit ever offered, however often the member is removed and invited.
THEOREM RemovalKeepsTheLimit ==
    ASSUME IsFiniteSet(Invitation)
    PROVE  BudgetSpec => []LimitSurvivesRemoval
<1>1. BudgetInv /\ SumInv => LimitSurvivesRemoval
  <2> SUFFICES ASSUME BudgetInv, SumInv, NoOutside, NEW u \in User \ {Owner},
                      NEW offers, offers = {InviteOf[i].limit : i \in {j \in Invitation : InviteOf[j].who = u}},
                      offers # {}, NoLimit \notin offers
               PROVE  PaidOut({r \in Withdrawal : SpendOf[r[2]].who = u}) <= Max(offers)
    BY DEF LimitSurvivesRemoval, NoOutside
  <2>1. Allowance(u)
    BY DEF SumInv, Accounts
  <2>2. \A n : Offer(u, n) <=> n \in offers
    BY DEF Offer
  <2>3. offers \subseteq Nat /\ IsFiniteSet(offers)
    <3>1. IsFiniteSet({j \in Invitation : InviteOf[j].who = u})
      BY FS_Subset
    <3>2. IsFiniteSet(offers)
      <4> DEFINE S == {j \in Invitation : InviteOf[j].who = u}
                 f == [i \in S |-> InviteOf[i].limit]
      <4>1. f \in Surjection(S, offers)
        BY DEF Surjection
      <4> HIDE DEF S, f
      <4> QED BY <3>1, <4>1, FS_Surjection DEF S
    <3>3. offers \subseteq Nat
      BY BudgetAssumption
    <3> QED BY <3>2, <3>3
  <2>4. Max(offers) \in offers /\ \A n \in offers : n <= Max(offers)
    <3>1. \E m \in offers : \A n \in offers : n <= m
      BY <2>3, Greatest
    <3>2. \E m \in offers : \A n \in offers : m >= n
      BY <2>3, <3>1
    <3> QED BY <2>3, <3>2 DEF Max
  <2>5. member[u].spent <= Max(offers)
    <3> DEFINE most == Max(offers)
    <3>1. most \in Nat /\ \A n \in offers : n <= most
      BY <2>3, <2>4
    <3>2. member[u].spent = 0 \/ \E n \in offers : member[u].spent <= n
      BY <2>1, <2>2 DEF Allowance
    <3>3. CASE member[u].spent = 0
      BY <3>1, <3>3
    <3>4. ASSUME NEW n \in offers, member[u].spent <= n PROVE member[u].spent <= most
      <4> HIDE DEF most
      <4>1. n \in Nat /\ most \in Nat /\ n <= most /\ member[u].spent \in Nat
        BY <2>3, <3>1 DEF BudgetInv, BudgetTypes, MemberRow
      <4> QED BY <3>4, <4>1
    <3> QED BY <3>2, <3>3, <3>4
  <2> QED BY <2>1, <2>5 DEF Allowance, Own
<1> QED BY <1>1, BudgetInductive, SumsInductive, PTL

=============================================================================
