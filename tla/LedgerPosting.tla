---------------------------- MODULE LedgerPosting ----------------------------
(***************************************************************************)
(* Concurrent calls of post_transaction_v2, append_ledger_entries_v1 and   *)
(* the payout of transition_paysafe_escrow_v1, row lock by row lock: each  *)
(* call is one READ COMMITTED transaction that locks rows one by one,      *)
(* copies their balances when it locks them, inserts its unique key,       *)
(* computes the new balances from the copies and writes them all at its    *)
(* commit. A unique key of an unfinished transaction is waited for like a  *)
(* row. The other modules take each of these calls as one step; this one   *)
(* shows that it is.                                                       *)
(***************************************************************************)
EXTENDS LedgerLegs

CONSTANTS
    Kind,           \* which of the three functions each posting calls
    Opening,        \* the balances at the start
    Freezable,      \* the entities an administrator may freeze
    MaxFreezes,     \* bound on freezes
    MaxCancels      \* bound on timeouts and lost connections

ASSUME KindAssumption == Kind \in [Posting -> {"post", "append", "transition"}]
ASSUME OpeningAssumption == Opening \in [Entity -> Nat]
ASSUME FreezableAssumption == Freezable \subseteq Entity
ASSUME BoundsAssumption == MaxFreezes \in Nat /\ MaxCancels \in Nat

VARIABLES
    state,          \* running, committed or aborted
    rows,           \* the entity rows each call has locked
    keyed,          \* it has inserted its key
    copy,           \* v_balance_map: the balances it read under its locks
    bal,            \* the committed balances
    frozen,         \* the locked or frozen entities
    freezes, cancels

calls == <<state, rows, keyed, copy>>
vars == <<calls, bal, frozen, freezes, cancels>>

Init ==
    /\ state = [p \in Posting |-> "running"]
    /\ rows = [p \in Posting |-> {}]
    /\ keyed = [p \in Posting |-> FALSE]
    /\ copy = [p \in Posting |-> [e \in Entity |-> 0]]
    /\ bal = Opening
    /\ frozen = {}
    /\ freezes = 0 /\ cancels = 0

-----------------------------------------------------------------------------
(* The order of the locks. *)

Left(p) == Rows(p) \ rows[p]

\* Mutant: rows are locked in the order of the legs.
InLegOrder(p, e) ==
    \A i \in DOMAIN Legs[p] : Legs[p][i].on \in Left(p) =>
        \E j \in 1..i : Legs[p][j].on = e
\* ORDER BY entity_type, entity_id
InRowOrder(p, e) == \A f \in Left(p) : e <= f

\* The next row of a call. A post inserts its key after its rows, the others
\* before; a transition locks the vault it debits, then the other.
NextRow(p, e) ==
    /\ state[p] = "running"
    /\ e \in Left(p)
    /\ Kind[p] = "post" \/ keyed[p]
    /\ IF Kind[p] = "transition"
         THEN e = Legs[p][1].on \/ Legs[p][1].on \in rows[p]
         ELSE InRowOrder(p, e)

KeyIsNext(p) ==
    /\ state[p] = "running"
    /\ ~keyed[p]
    /\ Kind[p] = "post" => Left(p) = {}

\* Mutant: the row is read without FOR UPDATE.
AlwaysFree(e) == e \in Entity
RowFree(e) == \A q \in Posting : e \notin rows[q]

KeyFree(p) == \A q \in Posting : keyed[q] /\ Key[q] = Key[p] => state[q] # "running"
\* Mutant: the reference has no unique index.
KeyNeverUsed(p) == FALSE
KeyUsed(p) == \E q \in Posting : state[q] = "committed" /\ Key[q] = Key[p]

End(p, how) ==
    /\ state' = [state EXCEPT ![p] = how]
    /\ rows' = [rows EXCEPT ![p] = {}]

\* An exception undoes the whole call and releases its locks.
Abort(p) ==
    /\ End(p, "aborted")
    /\ keyed' = [keyed EXCEPT ![p] = FALSE]
    /\ UNCHANGED <<copy, bal, frozen, freezes>>

-----------------------------------------------------------------------------
(* The steps of a call. *)

LockRow(p, e) ==
    /\ NextRow(p, e)
    /\ e \notin frozen
    /\ RowFree(e)
    /\ rows' = [rows EXCEPT ![p] = @ \cup {e}]
    /\ copy' = [copy EXCEPT ![p] = [@ EXCEPT ![e] = bal[e]]]
    /\ UNCHANGED <<state, keyed, bal, frozen, freezes, cancels>>

\* WALLET_LOCKED, or the vault of an escrow is unavailable
RowUnavailable(p, e) ==
    /\ NextRow(p, e)
    /\ e \in frozen
    /\ Abort(p)
    /\ UNCHANGED cancels

InsertKey(p) ==
    /\ KeyIsNext(p)
    /\ KeyFree(p)
    /\ ~KeyUsed(p)
    /\ keyed' = [keyed EXCEPT ![p] = TRUE]
    /\ UNCHANGED <<state, rows, copy, bal, frozen, freezes, cancels>>

\* IDEMPOTENCY_VIOLATION, APPEND_ALREADY_APPLIED, or an escrow that is closed
KeyTaken(p) ==
    /\ KeyIsNext(p)
    /\ KeyFree(p)
    /\ KeyUsed(p)
    /\ Abort(p)
    /\ UNCHANGED cancels

Ready(p) == state[p] = "running" /\ Left(p) = {} /\ keyed[p]

Commit(p) ==
    /\ Ready(p)
    /\ Balanced(p)
    /\ Covers(p, copy[p])
    /\ bal' = [e \in Entity |-> IF e \in Rows(p) THEN Apply(p, copy[p])[e] ELSE bal[e]]
    /\ End(p, "committed")
    /\ UNCHANGED <<keyed, copy, frozen, freezes, cancels>>

\* INSUFFICIENT_FUNDS or LEDGER_OUT_OF_BALANCE
Reject(p) ==
    /\ Ready(p)
    /\ ~(Balanced(p) /\ Covers(p, copy[p]))
    /\ Abort(p)
    /\ UNCHANGED cancels

-----------------------------------------------------------------------------
(* The database and its administrators. *)

WaitsFor(p, q) ==
    /\ p # q
    /\ \/ \E e \in rows[q] : NextRow(p, e)
       \/ KeyIsNext(p) /\ keyed[q] /\ state[q] = "running" /\ Key[q] = Key[p]

Waiting == {q \in Posting : \E r \in Posting : WaitsFor(q, r)}

Deadlocked(p) ==
    \E S \in SUBSET Waiting :
        p \in S /\ \A q \in S : \E r \in S : WaitsFor(q, r)

\* The database aborts one call of a cycle (40P01).
DeadlockVictim(p) ==
    /\ Deadlocked(p)
    /\ Abort(p)
    /\ UNCHANGED cancels

\* A statement timeout or a lost connection before the commit.
Cancel(p) ==
    /\ state[p] = "running"
    /\ cancels < MaxCancels
    /\ cancels' = cancels + 1
    /\ Abort(p)

\* An administrator's update of a row needs the row's lock too.
Freeze(e) ==
    /\ e \in Freezable \ frozen
    /\ RowFree(e)
    /\ freezes < MaxFreezes
    /\ freezes' = freezes + 1
    /\ frozen' = frozen \cup {e}
    /\ UNCHANGED <<calls, bal, cancels>>

Unfreeze(e) ==
    /\ e \in frozen
    /\ frozen' = frozen \ {e}
    /\ UNCHANGED <<calls, bal, freezes, cancels>>

-----------------------------------------------------------------------------
Step(p) ==
    \/ \E e \in Entity : LockRow(p, e) \/ RowUnavailable(p, e)
    \/ InsertKey(p) \/ KeyTaken(p) \/ Commit(p) \/ Reject(p)
    \/ DeadlockVictim(p)

Next ==
    \/ \E p \in Posting : Step(p) \/ Cancel(p)
    \/ \E e \in Entity : Freeze(e) \/ Unfreeze(e)

Spec == Init /\ [][Next]_vars

-----------------------------------------------------------------------------
(* Properties *)

\* The variables keep their types; no committed balance is negative, whichever
\* postings ran at the same time on the same rows.
TypeOK ==
    /\ state \in [Posting -> {"running", "committed", "aborted"}]
    /\ rows \in [Posting -> SUBSET Entity]
    /\ keyed \in [Posting -> BOOLEAN]
    /\ copy \in [Posting -> [Entity -> Int]]
    /\ bal \in [Entity -> Nat]
    /\ frozen \subseteq Entity
    /\ freezes \in Nat /\ cancels \in Nat

committed == {p \in Posting : state[p] = "committed"}

\* The stored balance of an entity equals what its ledger rows add up to
\* (verifyWalletBalance): no concurrent posting's update is lost.
BalanceMatchesLedger ==
    \A e \in Entity :
        bal[e] = Opening[e] + SumFunction([p \in committed |-> Net(p, e)])

\* Posts and appends never wait for each other in a cycle, because both lock
\* their rows in one order and their keys at one end of it: every cycle has a
\* transition in it.
NoDeadlock ==
    \A S \in SUBSET {q \in Waiting : Kind[q] # "transition"} :
        S # {} => \E q \in S : \A r \in S : ~WaitsFor(q, r)

Promise == INSTANCE AtomicPosting WITH posted <- committed

\* The calls, interleaved lock by lock, take effect as AtomicPosting promises:
\* each commit is one posting on the balances of that moment.
ImplementsAtomicPosting == Promise!Spec
=============================================================================
