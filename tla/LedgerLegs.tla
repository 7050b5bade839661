----------------------------- MODULE LedgerLegs -----------------------------
(***************************************************************************)
(* Ledger postings and the arithmetic of their legs, as the two functions  *)
(* post_transaction_v2 and append_ledger_entries_v1 compute it.            *)
(***************************************************************************)
EXTENDS Integers, Sequences, FiniteSets, Functions

CONSTANTS
    Entity,         \* wallets, vaults and goals, numbered in the order of their locks
    Posting,        \* calls of the posting functions
    Legs,           \* the legs of each: a debit is negative, a credit positive
    Header,         \* the internal entities of wallet_id and to_wallet_id
    Key             \* reference_id of a post, append_key of an append

ASSUME EntityAssumption == Entity \subseteq Nat /\ IsFiniteSet(Entity)
ASSUME LegsAssumption == \A p \in Posting : Legs[p] \in Seq([on : Entity, by : Int])
ASSUME HeaderAssumption == Header \in [Posting -> SUBSET Entity]

\* The entities whose rows are locked and updated.
Rows(p) == {Legs[p][i].on : i \in DOMAIN Legs[p]} \cup Header[p]

Amounts(p) == [i \in DOMAIN Legs[p] |-> Legs[p][i].by]

\* What the first k legs of p do to an entity.
Upto(p, k, e) ==
    SumFunctionOnSet(Amounts(p), {i \in DOMAIN Legs[p] : i <= k /\ Legs[p][i].on = e})

Net(p, e) == Upto(p, Len(Legs[p]), e)

\* Mutant: each debit is compared with the balance before the posting.
CoversEach(p, b) == \A i \in DOMAIN Legs[p] : b[Legs[p][i].on] + Legs[p][i].by >= 0
\* No debit takes its entity below zero, the legs taken in order.
Covers(p, b) ==
    \A i \in DOMAIN Legs[p] :
        LET e == Legs[p][i].on IN Legs[p][i].by < 0 => b[e] + Upto(p, i, e) >= 0

\* Legs are not empty or zero, and the debits equal the credits.
Balanced(p) ==
    /\ Legs[p] # <<>>
    /\ \A i \in DOMAIN Legs[p] : Legs[p][i].by # 0
    /\ SumFunction(Amounts(p)) = 0

\* The balances after p, of the balances b.
Apply(p, b) == [e \in Rows(p) |-> b[e] + Net(p, e)]
=============================================================================
