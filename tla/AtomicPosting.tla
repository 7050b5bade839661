---------------------------- MODULE AtomicPosting ----------------------------
(***************************************************************************)
(* What the ledger promises its callers: a posting happens at once and as  *)
(* a whole, on the balances of that moment, or not at all; a key is posted *)
(* under once; a frozen entity takes no part. The arithmetic of the legs   *)
(* is a parameter (LedgerLegs).                                            *)
(***************************************************************************)
CONSTANTS
    Entity, Posting, Key,
    Opening,        \* the balances at the start
    Rows(_),        \* the entities of a posting
    Balanced(_),    \* its debits equal its credits
    Covers(_, _),   \* its debits are covered by some balances
    Apply(_, _)     \* the balances of its entities after it

VARIABLES
    posted,         \* the postings in the ledger
    bal,            \* the balances
    frozen          \* the locked or frozen entities

Init ==
    /\ posted = {}
    /\ bal = Opening
    /\ frozen = {}

Post(p) ==
    /\ \A q \in posted : Key[q] # Key[p]
    /\ Rows(p) \cap frozen = {}
    /\ Balanced(p)
    /\ Covers(p, bal)
    /\ posted' = posted \cup {p}
    /\ bal' = [e \in Entity |-> IF e \in Rows(p) THEN Apply(p, bal)[e] ELSE bal[e]]
    /\ UNCHANGED frozen

Freeze(e) == frozen' = frozen \cup {e} /\ UNCHANGED <<posted, bal>>

Unfreeze(e) == frozen' = frozen \ {e} /\ UNCHANGED <<posted, bal>>

Next ==
    \/ \E p \in Posting : Post(p)
    \/ \E e \in Entity : Freeze(e) \/ Unfreeze(e)

Spec == Init /\ [][Next]_<<posted, bal, frozen>>
=============================================================================
