------------------------ MODULE LedgerPosting_proofs ------------------------
(***************************************************************************)
(* Row locks make a posting atomic, for every set of entities, postings    *)
(* and legs. The argument: a row is locked by one running call at a time,  *)
(* so the copy a call took under its lock still equals the committed       *)
(* balance when the call writes, and a key that a call has inserted is     *)
(* neither used nor inserted by another. From there: the cached balances   *)
(* equal what the entries sum to, no balance is ever negative, money moves *)
(* between entities without changing in total, and calls that take their   *)
(* locks in the order of the code never wait in a circle.                  *)
(***************************************************************************)
EXTENDS LedgerPosting, SumTheorems, SequenceTheorems, FiniteSetTheorems,
        WellFoundedInduction, TLAPS

-----------------------------------------------------------------------------
(* The inductive invariant. *)

Shapes ==
    /\ state \in [Posting -> {"running", "committed", "aborted"}]
    /\ rows \in [Posting -> SUBSET Entity]
    /\ keyed \in [Posting -> BOOLEAN]
    /\ DOMAIN copy = Posting
    /\ \A p \in Posting : DOMAIN copy[p] = Entity

RowsExclusive == \A p, q \in Posting : p # q => rows[p] \cap rows[q] = {}

CopiesFresh == \A p \in Posting : \A e \in rows[p] : copy[p][e] = bal[e]

RowsRunning == \A p \in Posting : rows[p] # {} => state[p] = "running"

RowsOpen == \A p \in Posting : rows[p] \cap frozen = {}

KeysExclusive ==
    \A p, q \in Posting : p # q /\ keyed[p] /\ keyed[q] => Key[p] # Key[q]

KeysKept ==
    \A p \in Posting :
        /\ keyed[p] => state[p] \in {"running", "committed"}
        /\ state[p] = "committed" => keyed[p]

Locks == RowsExclusive /\ CopiesFresh /\ RowsRunning /\ RowsOpen

Keys == KeysExclusive /\ KeysKept

IInv == Shapes /\ Locks /\ Keys

-----------------------------------------------------------------------------
(* The initial states, and the steps that write nothing but their own rows. *)

LEMMA InitIInv == Init => IInv
BY DEF Init, IInv, Shapes, Locks, RowsExclusive, CopiesFresh, RowsRunning, RowsOpen,
       Keys, KeysExclusive, KeysKept

\* The rows of a posting are entities.
LEMMA RowsAreEntities == ASSUME NEW p \in Posting PROVE Rows(p) \subseteq Entity
<1>1. Legs[p] \in Seq([on : Entity, by : Int])
  BY LegsAssumption
<1>2. DOMAIN Legs[p] = 1..Len(Legs[p])
  BY <1>1, LenProperties
<1>3. \A i \in DOMAIN Legs[p] : Legs[p][i] \in [on : Entity, by : Int]
  BY <1>1, <1>2, ElementOfSeq
<1>4. \A i \in DOMAIN Legs[p] : Legs[p][i].on \in Entity
  BY <1>3
<1> QED BY <1>4, HeaderAssumption DEF Rows

\* An aborted call keeps nothing: rows and key go together.
LEMMA AbortKeeps ==
    ASSUME IInv, NEW p \in Posting, state[p] = "running", Abort(p)
    PROVE  IInv'
<1> USE DEF Abort, End
<1>1. Shapes'
  BY DEF IInv, Shapes
<1>2. Locks'
  BY DEF IInv, Shapes, Locks, RowsExclusive, CopiesFresh, RowsRunning, RowsOpen
<1>3. Keys'
  BY DEF IInv, Shapes, Keys, KeysExclusive, KeysKept
<1> QED BY <1>1, <1>2, <1>3 DEF IInv

LEMMA LockRowKeeps ==
    ASSUME IInv, NEW p \in Posting, NEW e \in Entity, LockRow(p, e)
    PROVE  IInv'
<1> USE DEF LockRow
<1>1. Shapes'
  BY DEF IInv, Shapes
<1>2. RowsExclusive'
  BY DEF IInv, Shapes, Locks, RowsExclusive, RowFree
<1>3. CopiesFresh'
  <2> SUFFICES ASSUME NEW q \in Posting, NEW f \in rows'[q]
               PROVE  copy'[q][f] = bal'[f]
    BY DEF CopiesFresh
  <2>1. CASE q = p /\ f = e
    BY <2>1 DEF IInv, Shapes
  <2>2. CASE ~(q = p /\ f = e)
    <3>1. f \in rows[q] /\ f \in Entity
      BY <2>2 DEF IInv, Shapes
    <3>2. copy'[q][f] = copy[q][f]
      BY <2>2, <3>1 DEF IInv, Shapes
    <3> QED BY <3>1, <3>2 DEF IInv, Locks, CopiesFresh
  <2> QED BY <2>1, <2>2
<1>4. RowsRunning'
  BY DEF IInv, Shapes, Locks, RowsRunning, NextRow
<1>5. RowsOpen'
  BY DEF IInv, Shapes, Locks, RowsOpen
<1>6. Keys'
  BY DEF IInv, Keys, KeysExclusive, KeysKept
<1> QED BY <1>1, <1>2, <1>3, <1>4, <1>5, <1>6 DEF IInv, Locks

\* No other call has the key: a running one would be waited for, a committed
\* one would make this a repetition.
LEMMA InsertKeyKeeps ==
    ASSUME IInv, NEW p \in Posting, InsertKey(p)
    PROVE  IInv'
<1> USE DEF InsertKey
<1>1. Shapes'
  BY DEF IInv, Shapes
<1>2. Locks'
  BY DEF IInv, Locks, RowsExclusive, CopiesFresh, RowsRunning, RowsOpen
<1>3. \A q \in Posting : keyed[q] => Key[q] # Key[p]
  BY DEF KeyFree, KeyUsed, IInv, Keys, KeysKept
<1>4. Keys'
  BY <1>3 DEF IInv, Shapes, Keys, KeysExclusive, KeysKept, KeyIsNext
<1> QED BY <1>1, <1>2, <1>4 DEF IInv

\* A commit changes balances of its own rows only, and gives them up.
LEMMA CommitKeeps ==
    ASSUME IInv, NEW p \in Posting, Commit(p)
    PROVE  IInv'
<1> USE DEF Commit, End
<1>1. Shapes'
  BY DEF IInv, Shapes
<1>2. RowsExclusive' /\ RowsRunning' /\ RowsOpen'
  BY DEF IInv, Shapes, Locks, RowsExclusive, RowsRunning, RowsOpen
<1>3. CopiesFresh'
  <2> SUFFICES ASSUME NEW q \in Posting, NEW f \in rows'[q]
               PROVE  copy[q][f] = bal'[f]
    BY DEF CopiesFresh
  <2>1. q # p /\ f \in rows[q] /\ f \in Entity
    BY DEF IInv, Shapes
  <2>2. Rows(p) \subseteq rows[p]
    BY DEF Ready, Left
  <2>3. f \notin Rows(p)
    BY <2>1, <2>2 DEF IInv, Locks, RowsExclusive
  <2>4. bal'[f] = bal[f]
    BY <2>1, <2>3
  <2> QED BY <2>1, <2>4 DEF IInv, Locks, CopiesFresh
<1>4. Keys'
  BY DEF IInv, Shapes, Keys, KeysExclusive, KeysKept, Ready
<1> QED BY <1>1, <1>2, <1>3, <1>4 DEF IInv, Locks

\* A frozen row is one that nobody has locked.
LEMMA FreezeKeeps ==
    ASSUME IInv, NEW e \in Entity, Freeze(e) \/ Unfreeze(e)
    PROVE  IInv'
<1> USE DEF Freeze, Unfreeze, calls
<1>1. Shapes' /\ Keys'
  BY DEF IInv, Shapes, Keys, KeysExclusive, KeysKept
<1>2. RowsExclusive' /\ CopiesFresh' /\ RowsRunning'
  BY DEF IInv, Locks, RowsExclusive, CopiesFresh, RowsRunning
<1>3. RowsOpen'
  BY DEF IInv, Locks, RowsOpen, RowFree
<1> QED BY <1>1, <1>2, <1>3 DEF IInv, Locks

\* Only a running call can be aborted.
LEMMA OnlyRunningAborts ==
    ASSUME NEW p \in Posting,
           \/ \E e \in Entity : RowUnavailable(p, e)
           \/ KeyTaken(p) \/ Reject(p) \/ DeadlockVictim(p) \/ Cancel(p)
    PROVE  state[p] = "running" /\ Abort(p)
<1>1. DeadlockVictim(p) => state[p] = "running"
  BY DEF DeadlockVictim, Deadlocked, Waiting, WaitsFor, NextRow, KeyIsNext
<1> QED BY <1>1 DEF RowUnavailable, NextRow, KeyTaken, KeyIsNext, Reject, Ready, DeadlockVictim, Cancel

LEMMA NextKeeps == IInv /\ [Next]_vars => IInv'
<1> SUFFICES ASSUME IInv, [Next]_vars PROVE IInv'
  OBVIOUS
<1>1. CASE UNCHANGED vars
  BY <1>1 DEF vars, calls, IInv, Shapes, Locks, RowsExclusive, CopiesFresh, RowsRunning,
              RowsOpen, Keys, KeysExclusive, KeysKept
<1>2. ASSUME NEW p \in Posting, Step(p) \/ Cancel(p) PROVE IInv'
  <2>1. ASSUME NEW e \in Entity, LockRow(p, e) PROVE IInv'
    BY <2>1, LockRowKeeps
  <2>2. CASE InsertKey(p)
    BY <2>2, InsertKeyKeeps
  <2>3. CASE Commit(p)
    BY <2>3, CommitKeeps
  <2>4. CASE \/ \E e \in Entity : RowUnavailable(p, e)
             \/ KeyTaken(p) \/ Reject(p) \/ DeadlockVictim(p) \/ Cancel(p)
    BY <2>4, OnlyRunningAborts, AbortKeeps
  <2> QED BY <1>2, <2>1, <2>2, <2>3, <2>4 DEF Step
<1>3. ASSUME NEW e \in Entity, Freeze(e) \/ Unfreeze(e) PROVE IInv'
  BY <1>3, FreezeKeeps
<1> QED BY <1>1, <1>2, <1>3 DEF Next

\* The locks work, for every set of calls: no row is locked by two of them, what
\* a call copied under its locks is still the committed balance, and no key is
\* inserted by two calls that run or committed.
THEOREM LocksWork == Spec => []IInv
<1> QED BY InitIInv, NextKeeps, PTL DEF Spec

-----------------------------------------------------------------------------
(* The refinement of AtomicPosting. *)

\* What a call computes from its copies is what the committed balances give.
LEMMA CopiesSuffice ==
    ASSUME IInv, NEW p \in Posting, Ready(p)
    PROVE  /\ Covers(p, copy[p]) <=> Covers(p, bal)
           /\ Apply(p, copy[p]) = Apply(p, bal)
<1>1. \A e \in Rows(p) : copy[p][e] = bal[e]
  BY DEF Ready, Left, IInv, Locks, CopiesFresh
<1>2. \A i \in DOMAIN Legs[p] : Legs[p][i].on \in Rows(p)
  BY DEF Rows
<1>3. Covers(p, copy[p]) <=> Covers(p, bal)
  BY <1>1, <1>2 DEF Covers
<1>4. Apply(p, copy[p]) = Apply(p, bal)
  BY <1>1 DEF Apply
<1> QED BY <1>3, <1>4

LEMMA CommitPosts ==
    ASSUME IInv, NEW p \in Posting, Commit(p)
    PROVE  Promise!Post(p)
<1> USE DEF Commit, End
<1>1. \A q \in committed : Key[q] # Key[p]
  BY DEF committed, Ready, IInv, Keys, KeysExclusive, KeysKept
<1>2. Rows(p) \cap frozen = {}
  BY DEF Ready, Left, IInv, Locks, RowsOpen
<1>3. Covers(p, bal) /\ Apply(p, copy[p]) = Apply(p, bal)
  BY CopiesSuffice
<1>4. committed' = committed \cup {p}
  BY DEF committed, IInv, Shapes
<1> QED BY <1>1, <1>2, <1>3, <1>4 DEF Promise!Post

\* A step that commits nothing leaves the ledger alone.
LEMMA OthersStutter ==
    ASSUME IInv, NEW p \in Posting,
           \/ \E e \in Entity : LockRow(p, e) \/ RowUnavailable(p, e)
           \/ InsertKey(p) \/ KeyTaken(p) \/ Reject(p) \/ DeadlockVictim(p) \/ Cancel(p)
    PROVE  UNCHANGED <<committed, bal, frozen>>
<1>1. CASE (\E e \in Entity : LockRow(p, e)) \/ InsertKey(p)
  BY <1>1 DEF LockRow, InsertKey, committed
<1>2. CASE state[p] = "running" /\ Abort(p)
  BY <1>2 DEF Abort, End, committed, IInv, Shapes
<1> QED BY <1>1, <1>2, OnlyRunningAborts

LEMMA StepMaps ==
    ASSUME IInv, [Next]_vars
    PROVE  [Promise!Next]_<<committed, bal, frozen>>
<1>1. CASE UNCHANGED vars
  BY <1>1 DEF vars, calls, committed
<1>2. ASSUME NEW p \in Posting, Step(p) \/ Cancel(p)
      PROVE  [Promise!Next]_<<committed, bal, frozen>>
  <2>1. CASE Commit(p)
    BY <2>1, CommitPosts DEF Promise!Next
  <2> QED BY <1>2, <2>1, OthersStutter DEF Step
<1>3. ASSUME NEW e \in Entity, Freeze(e) \/ Unfreeze(e)
      PROVE  [Promise!Next]_<<committed, bal, frozen>>
  <2>1. Promise!Freeze(e) \/ Promise!Unfreeze(e)
    BY <1>3 DEF Freeze, Unfreeze, calls, committed, Promise!Freeze, Promise!Unfreeze
  <2> QED BY <2>1 DEF Promise!Next
<1> QED BY <1>1, <1>2, <1>3 DEF Next

\* The calls, interleaved lock by lock, take effect one at a time and as a whole:
\* post_transaction_v2 and append_ledger_entries_v1 are atomic.
THEOREM Refinement == Spec => ImplementsAtomicPosting
<1>1. Init => Promise!Init
  BY DEF Init, Promise!Init, committed
<1>2. IInv /\ [Next]_vars => [Promise!Next]_<<committed, bal, frozen>>
  BY StepMaps
<1> QED BY <1>1, <1>2, LocksWork, PTL DEF Spec, ImplementsAtomicPosting, Promise!Spec

-----------------------------------------------------------------------------
(* No deadlock among posts and appends. *)

\* Rows are locked upwards; an append locks none before its key, a post locks
\* none after it.
RowsUpwards ==
    \A p \in Posting : Kind[p] # "transition" =>
        \A e \in rows[p], f \in Left(p) : e < f

KeyBeforeRows ==
    \A p \in Posting : Kind[p] # "post" /\ rows[p] # {} => keyed[p]

KeyAfterRows ==
    \A p \in Posting : Kind[p] = "post" /\ state[p] = "running" /\ keyed[p] => Left(p) = {}

Order == RowsUpwards /\ KeyBeforeRows /\ KeyAfterRows

LEMMA InitOrder == Init => Order
BY DEF Init, Order, RowsUpwards, KeyBeforeRows, KeyAfterRows

LEMMA LockRowOrdered ==
    ASSUME IInv, Order, NEW p \in Posting, NEW e \in Entity, LockRow(p, e)
    PROVE  Order'
<1> USE DEF LockRow
<1>1. RowsUpwards'
  <2> SUFFICES ASSUME NEW q \in Posting, Kind[q] # "transition",
                      NEW x \in rows'[q], NEW f \in Left(q)'
               PROVE  x < f
    BY DEF RowsUpwards
  <2>1. f \in Left(q)
    BY DEF Left, IInv, Shapes
  <2>2. CASE x \in rows[q]
    BY <2>1, <2>2 DEF Order, RowsUpwards
  <2>3. CASE x \notin rows[q]
    <3>1. q = p /\ x = e
      BY <2>3 DEF IInv, Shapes
    <3>2. e <= f
      BY <2>1, <3>1 DEF NextRow, InRowOrder
    <3>3. f # e
      BY <3>1 DEF Left, IInv, Shapes
    <3>4. e \in Nat /\ f \in Nat
      BY <2>1, RowsAreEntities, EntityAssumption DEF Left
    <3> QED BY <3>1, <3>2, <3>3, <3>4
  <2> QED BY <2>2, <2>3
<1>2. KeyBeforeRows'
  BY DEF NextRow, Order, KeyBeforeRows, IInv, Shapes
<1>3. KeyAfterRows'
  BY DEF Order, KeyAfterRows, Left, IInv, Shapes
<1> QED BY <1>1, <1>2, <1>3 DEF Order

LEMMA InsertKeyOrdered ==
    ASSUME IInv, Order, NEW p \in Posting, InsertKey(p)
    PROVE  Order'
<1> USE DEF InsertKey, KeyIsNext, Left
<1>1. RowsUpwards'
  BY DEF Order, RowsUpwards
<1>2. KeyBeforeRows'
  BY DEF Order, KeyBeforeRows, IInv, Shapes
<1>3. KeyAfterRows'
  BY DEF Order, KeyAfterRows, IInv, Shapes
<1> QED BY <1>1, <1>2, <1>3 DEF Order

\* A call that ends has no rows and waits for nothing.
LEMMA EndOrdered ==
    ASSUME IInv, Order, NEW p \in Posting, state[p] = "running", Commit(p) \/ Abort(p)
    PROVE  Order'
<1> USE DEF Commit, Abort, End, Left
<1>1. RowsUpwards'
  BY DEF Order, RowsUpwards, IInv, Shapes
<1>2. KeyBeforeRows'
  BY DEF Order, KeyBeforeRows, IInv, Shapes
<1>3. KeyAfterRows'
  BY DEF Order, KeyAfterRows, IInv, Shapes
<1> QED BY <1>1, <1>2, <1>3 DEF Order

LEMMA NextOrdered == IInv /\ Order /\ [Next]_vars => Order'
<1> SUFFICES ASSUME IInv, Order, [Next]_vars PROVE Order'
  OBVIOUS
<1>1. CASE UNCHANGED calls
  BY <1>1 DEF calls, Order, RowsUpwards, KeyBeforeRows, KeyAfterRows, Left
<1>2. ASSUME NEW p \in Posting, Step(p) \/ Cancel(p) PROVE Order'
  <2>1. ASSUME NEW e \in Entity, LockRow(p, e) PROVE Order'
    BY <2>1, LockRowOrdered
  <2>2. CASE InsertKey(p)
    BY <2>2, InsertKeyOrdered
  <2>3. CASE Commit(p)
    <3>1. state[p] = "running"
      BY <2>3 DEF Commit, Ready
    <3> QED BY <2>3, <3>1, EndOrdered
  <2>4. CASE \/ \E e \in Entity : RowUnavailable(p, e)
             \/ KeyTaken(p) \/ Reject(p) \/ DeadlockVictim(p) \/ Cancel(p)
    BY <2>4, OnlyRunningAborts, EndOrdered
  <2> QED BY <1>2, <2>1, <2>2, <2>3, <2>4 DEF Step
<1>3. ASSUME NEW e \in Entity, Freeze(e) \/ Unfreeze(e) PROVE UNCHANGED calls
  BY <1>3 DEF Freeze, Unfreeze
<1>4. CASE UNCHANGED vars
  BY <1>1, <1>4 DEF vars
<1> QED BY <1>1, <1>2, <1>3, <1>4 DEF Next

\* In a cycle of posts and appends, whoever waits for a row waits for one below
\* a row that another member of the cycle waits for.
LEMMA NoCycle ==
    ASSUME IInv, Order,
           \A p, q \in Posting : Key[p] = Key[q] => Kind[p] = Kind[q],
           NEW S \in SUBSET {q \in Waiting : Kind[q] # "transition"},
           \A q \in S : \E r \in S : WaitsFor(q, r),
           S # {}
    PROVE  FALSE
<1> DEFINE E == {e \in Entity : \E q \in S : NextRow(q, e)}
<1>0. S \subseteq Posting /\ \A q \in S : Kind[q] # "transition"
  BY DEF Waiting
<1>1. ASSUME NEW q \in S, KeyIsNext(q)
      PROVE  Kind[q] # "post" /\ ~keyed[q] /\ rows[q] = {}
  <2>1. CASE Kind[q] = "post"
    <3>1. PICK r \in S : WaitsFor(q, r)
      OBVIOUS
    <3>2. keyed[r] /\ Key[r] = Key[q] /\ state[r] = "running"
      BY <1>1, <2>1, <3>1 DEF WaitsFor, KeyIsNext, NextRow
    <3>3. Left(r) = {}
      BY <1>0, <2>1, <3>2 DEF Order, KeyAfterRows
    <3>4. \A s \in S : ~WaitsFor(r, s)
      BY <3>2, <3>3 DEF WaitsFor, NextRow, KeyIsNext
    <3> QED BY <3>4
  <2>2. CASE Kind[q] # "post"
    BY <1>0, <1>1, <2>2 DEF Order, KeyBeforeRows, KeyIsNext
  <2> QED BY <2>1, <2>2
<1>2. ASSUME NEW q \in S, keyed[q] \/ rows[q] # {}
      PROVE  \E r \in S : \E e \in rows[r] : NextRow(q, e)
  <2>1. ~KeyIsNext(q)
    BY <1>1, <1>2
  <2> QED BY <2>1 DEF WaitsFor
<1>3. \A r \in S : rows[r] \subseteq Entity
  BY <1>0 DEF IInv, Shapes
<1>4. E # {}
  <2>1. PICK p \in S : TRUE
    OBVIOUS
  <2>2. PICK r \in S : WaitsFor(p, r)
    OBVIOUS
  <2>3. CASE \E e \in rows[r] : NextRow(p, e)
    BY <2>3, <1>3
  <2>4. CASE keyed[r]
    BY <2>4, <1>2, <1>3
  <2> QED BY <2>2, <2>3, <2>4 DEF WaitsFor
<1>5. ASSUME NEW e \in E PROVE \E f \in E : e < f
  <2>1. PICK q \in S : NextRow(q, e)
    OBVIOUS
  <2>2. ~KeyIsNext(q)
    BY <1>1, <2>1 DEF NextRow
  <2>3. PICK r \in S : \E x \in rows[r] : NextRow(q, x)
    BY <2>2 DEF WaitsFor
  <2>4. PICK x \in rows[r] : NextRow(q, x)
    BY <2>3
  <2>5. e \in Nat /\ x \in Nat
    BY <1>3, EntityAssumption
  <2>6. e <= x
    BY <2>1, <2>4, <2>5 DEF NextRow, InRowOrder
  <2>7. PICK s \in S : \E f \in rows[s] : NextRow(r, f)
    BY <1>2, <2>4
  <2>8. PICK f \in rows[s] : NextRow(r, f)
    BY <2>7
  <2>9. x < f
    BY <1>0, <2>4, <2>8 DEF Order, RowsUpwards, NextRow
  <2>10. f \in E /\ f \in Nat
    BY <1>3, <2>8, EntityAssumption
  <2> QED BY <2>5, <2>6, <2>9, <2>10
<1>6. E \subseteq Nat /\ IsFiniteSet(E)
  BY EntityAssumption, FS_Subset
<1>7. PICK e \in E : \A f \in E : f <= e
  <2> HIDE DEF E
  <2> QED BY <1>4, <1>6, Greatest
<1>8. PICK f \in E : e < f
  BY <1>5
<1> QED BY <1>6, <1>7, <1>8

\* Any number of posts and appends on any rows, among any other calls: as long as
\* the keys of posts and appends differ, the lock order of the two functions leaves
\* no cycle of waiting posts and appends.
THEOREM DeadlockFree ==
    ASSUME \A p, q \in Posting : Key[p] = Key[q] => Kind[p] = Kind[q]
    PROVE  Spec => []NoDeadlock
<1>1. IInv /\ Order => NoDeadlock
  BY NoCycle DEF NoDeadlock
<1> QED BY <1>1, InitOrder, NextOrdered, LocksWork, PTL DEF Spec

-----------------------------------------------------------------------------
(* What the legs add up to. *)

\* A posting has finitely many legs, each of a whole amount on an entity.
LEMMA LegFacts ==
    ASSUME NEW p \in Posting
    PROVE  /\ Len(Legs[p]) \in Nat /\ DOMAIN Legs[p] = 1..Len(Legs[p])
           /\ IsFiniteSet(DOMAIN Legs[p])
           /\ \A i \in DOMAIN Legs[p] : Legs[p][i].on \in Entity /\ Amounts(p)[i] \in Int
<1>1. Legs[p] \in Seq([on : Entity, by : Int])
  BY LegsAssumption
<1>2. Len(Legs[p]) \in Nat /\ DOMAIN Legs[p] = 1..Len(Legs[p])
  BY <1>1, LenProperties
<1>3. \A i \in DOMAIN Legs[p] : Legs[p][i] \in [on : Entity, by : Int]
  BY <1>1, <1>2, ElementOfSeq
<1>4. \A i \in DOMAIN Legs[p] : Legs[p][i].on \in Entity /\ Amounts(p)[i] \in Int
  BY <1>3 DEF Amounts
<1>5. IsFiniteSet(DOMAIN Legs[p])
  BY <1>2, FS_Interval
<1> QED BY <1>2, <1>4, <1>5

LEMMA NetIsInt == ASSUME NEW p \in Posting, NEW e PROVE Net(p, e) \in Int
<1> DEFINE All == {i \in DOMAIN Legs[p] : i <= Len(Legs[p]) /\ Legs[p][i].on = e}
<1>1. IsFiniteSet(All) /\ \A i \in All : Amounts(p)[i] \in Int
  BY LegFacts, FS_Subset
<1> HIDE DEF All
<1>2. SumFunctionOnSet(Amounts(p), All) \in Int
  BY <1>1, SumIsInt
<1> QED BY <1>2 DEF Net, Upto, All

\* A posting does nothing to an entity that it does not name.
LEMMA NetElsewhere == ASSUME NEW p \in Posting, NEW e, e \notin Rows(p) PROVE Net(p, e) = 0
<1>1. {i \in DOMAIN Legs[p] : i <= Len(Legs[p]) /\ Legs[p][i].on = e} = {}
  BY DEF Rows
<1> QED BY <1>1, SumEmpty DEF Net, Upto

\* The entities together gain what the legs add up to.
LEMMA NetTotal ==
    ASSUME NEW p \in Posting
    PROVE  SumFunctionOnSet([e \in Entity |-> Net(p, e)], Entity) = SumFunction(Amounts(p))
<1> DEFINE S == DOMAIN Legs[p]
           of == [i \in S |-> Legs[p][i].on]
           group == [e \in Entity |-> {i \in S : of[i] = e}]
           nets == [e \in Entity |-> Net(p, e)]
<1>1. IsFiniteSet(S) /\ \A i \in S : Amounts(p)[i] \in Int /\ of[i] \in Entity
  BY LegFacts
<1>2. \A e \in Entity :
        {i \in S : of[i] = e} = {i \in S : i <= Len(Legs[p]) /\ Legs[p][i].on = e}
  BY LegFacts
<1>3. \A e \in Entity : nets[e] = SumFunctionOnSet(Amounts(p), group[e])
  BY <1>2 DEF Net, Upto
<1>4. SumFunctionOnSet(nets, Entity) = SumFunctionOnSet(Amounts(p), S)
  <2>1. Grouped(S, Entity, of, group) /\ GroupSums(Amounts(p), Entity, group, nets)
    BY <1>3 DEF Grouped, GroupSums
  <2> HIDE DEF S, of, group, nets
  <2> QED BY <1>1, <2>1, EntityAssumption, SumGroups
<1>5. SumFunction(Amounts(p)) = SumFunctionOnSet(Amounts(p), S)
  BY DEF SumFunction, Amounts
<1> HIDE DEF nets, S
<1>6. SumFunctionOnSet(nets, Entity) = SumFunction(Amounts(p))
  BY <1>4, <1>5
<1> QED BY <1>6 DEF nets

\* If no debit takes its entity below zero, in the order of the legs, then the
\* whole posting takes none below zero.
LEMMA NetCovered ==
    ASSUME NEW p \in Posting, NEW b \in [Entity -> Int], Covers(p, b),
           NEW e \in Entity, b[e] >= 0
    PROVE  b[e] + Net(p, e) >= 0
<1> DEFINE n == Len(Legs[p])
           First(k) == {i \in DOMAIN Legs[p] : i <= k /\ Legs[p][i].on = e}
           Debits == {i \in DOMAIN Legs[p] : Legs[p][i].on = e /\ Legs[p][i].by < 0}
<1>0. \A i \in DOMAIN Legs[p] :
        Amounts(p)[i] = Legs[p][i].by /\ Legs[p][i].by \in Int /\ i \in Nat /\ i <= n
  BY LegFacts DEF Amounts
<1>1. \A k : IsFiniteSet(First(k)) /\ \A i \in First(k) : Amounts(p)[i] \in Int
  BY LegFacts, FS_Subset
<1>2. \A k : Upto(p, k, e) = SumFunctionOnSet(Amounts(p), First(k))
  BY DEF Upto
<1>3. \A k : Upto(p, k, e) \in Int
  <2> HIDE DEF First
  <2> QED BY <1>1, <1>2, SumIsInt
<1>4. Net(p, e) = Upto(p, n, e)
  BY DEF Net
<1>5. CASE Debits = {}
  <2>1. \A i \in First(n) \ {} : Amounts(p)[i] >= 0
    BY <1>0, <1>5
  <2>2. SumFunctionOnSet(Amounts(p), {}) <= SumFunctionOnSet(Amounts(p), First(n))
    <3> HIDE DEF First
    <3> QED BY <1>1, <2>1, SumGrows
  <2>3. Upto(p, n, e) >= 0
    BY <1>2, <1>3, <2>2, SumEmpty
  <2> QED BY <1>3, <1>4, <2>3
<1>6. CASE Debits # {}
  <2>1. Debits \subseteq Nat /\ IsFiniteSet(Debits)
    BY <1>0, LegFacts, FS_Subset
  <2>2. PICK d \in Debits : \A i \in Debits : i <= d
    <3> HIDE DEF Debits
    <3> QED BY <1>6, <2>1, Greatest
  <2>3. b[e] + Upto(p, d, e) >= 0
    BY DEF Covers
  <2>4. First(d) \in SUBSET First(n)
    BY <1>0
  <2>5. \A i \in First(n) \ First(d) : Amounts(p)[i] >= 0
    BY <1>0, <2>2
  <2>6. SumFunctionOnSet(Amounts(p), First(d)) <= SumFunctionOnSet(Amounts(p), First(n))
    <3> HIDE DEF First
    <3> QED BY <1>1, <2>4, <2>5, SumGrows
  <2>7. Upto(p, d, e) <= Upto(p, n, e)
    BY <1>2, <2>6
  <2> QED BY <1>3, <1>4, <2>3, <2>7
<1> QED BY <1>5, <1>6

\* A commit adds to each balance what its legs do to the entity.
LEMMA CommitAdds ==
    ASSUME IInv, TypeOK, NEW p \in Posting, Commit(p)
    PROVE  \A e \in Entity : bal'[e] = bal[e] + Net(p, e)
<1> SUFFICES ASSUME NEW e \in Entity PROVE bal'[e] = bal[e] + Net(p, e)
  OBVIOUS
<1>1. Apply(p, copy[p]) = Apply(p, bal)
  BY CopiesSuffice DEF Commit
<1>2. CASE e \in Rows(p)
  <2>1. bal'[e] = Apply(p, bal)[e]
    BY <1>1, <1>2 DEF Commit
  <2> QED BY <1>2, <2>1 DEF Apply
<1>3. CASE e \notin Rows(p)
  <2>1. bal'[e] = bal[e]
    BY <1>3 DEF Commit
  <2>2. bal[e] \in Nat
    BY DEF TypeOK
  <2> QED BY <1>3, <2>1, <2>2, NetElsewhere
<1> QED BY <1>2, <1>3

-----------------------------------------------------------------------------
(* The balances. *)

\* What a commit does to the types, the balances and the sum of the ledger.
LEMMA CommitTypes == ASSUME IInv, TypeOK, NEW p \in Posting, Commit(p) PROVE TypeOK'
<1>1. \A e \in Entity : bal[e] \in Nat /\ Net(p, e) \in Int
  BY NetIsInt DEF TypeOK
<1>2. Covers(p, bal)
  BY CopiesSuffice DEF Commit
<1>3. bal \in [Entity -> Int]
  BY DEF TypeOK
<1>4. \A e \in Entity : bal[e] + Net(p, e) >= 0
  BY <1>1, <1>2, <1>3, NetCovered
<1>5. \A e \in Entity : bal'[e] \in Nat
  BY <1>1, <1>4, CommitAdds
<1>6. bal' = [e \in Entity |-> bal'[e]]
  BY DEF Commit
<1>7. bal' \in [Entity -> Nat]
  BY <1>5, <1>6
<1> QED BY <1>7 DEF Commit, End, TypeOK

LEMMA TypeStep == IInv /\ TypeOK /\ [Next]_vars => TypeOK'
<1> SUFFICES ASSUME IInv, TypeOK, [Next]_vars PROVE TypeOK'
  OBVIOUS
<1> USE DEF calls
<1>1. CASE UNCHANGED vars
  BY <1>1 DEF vars, TypeOK
<1>2. ASSUME NEW p \in Posting, Step(p) \/ Cancel(p) PROVE TypeOK'
  <2>1. ASSUME NEW e \in Entity, LockRow(p, e) PROVE TypeOK'
    BY <2>1 DEF LockRow, TypeOK
  <2>2. CASE InsertKey(p)
    BY <2>2 DEF InsertKey, TypeOK
  <2>3. CASE Commit(p)
    BY <2>3, CommitTypes
  <2>4. CASE \/ \E e \in Entity : RowUnavailable(p, e)
             \/ KeyTaken(p) \/ Reject(p) \/ DeadlockVictim(p) \/ Cancel(p)
    <3>1. Abort(p)
      BY <2>4, OnlyRunningAborts
    <3>2. cancels' \in Nat
      BY <2>4 DEF RowUnavailable, KeyTaken, Reject, DeadlockVictim, Cancel, TypeOK
    <3> QED BY <3>1, <3>2 DEF Abort, End, TypeOK
  <2> QED BY <1>2, <2>1, <2>2, <2>3, <2>4 DEF Step
<1>3. ASSUME NEW e \in Entity, Freeze(e) \/ Unfreeze(e) PROVE TypeOK'
  BY <1>3 DEF Freeze, Unfreeze, TypeOK
<1> QED BY <1>1, <1>2, <1>3 DEF Next

\* The variables keep their types, and no committed balance is ever negative: for
\* any concurrent postings of any legs on the same rows, a debit that one of them
\* found covered is still covered when it commits.
THEOREM NeverNegative == Spec => []TypeOK
<1>1. Init => TypeOK
  BY OpeningAssumption DEF Init, TypeOK
<1> QED BY <1>1, TypeStep, LocksWork, PTL DEF Spec

\* The postings in the ledger, at any time finitely many, account for every balance.
LedgerInv == IsFiniteSet(committed) /\ BalanceMatchesLedger

\* Double entry: the entities together hold what they held at the start.
Conserved == SumFunctionOnSet(bal, Entity) = SumFunctionOnSet(Opening, Entity)

LEMMA CommitAccounts ==
    ASSUME IInv, TypeOK, LedgerInv, Conserved, NEW p \in Posting, Commit(p)
    PROVE  LedgerInv' /\ Conserved'
<1>1. p \notin committed /\ committed' = committed \cup {p} /\ IsFiniteSet(committed)
  BY DEF committed, IInv, Shapes, Commit, End, Ready, LedgerInv
<1>2. IsFiniteSet(committed')
  BY <1>1, FS_AddElement
<1>3. BalanceMatchesLedger'
  <2> SUFFICES ASSUME NEW e \in Entity
               PROVE  bal'[e] = Opening[e] + SumFunction([q \in committed' |-> Net(q, e)])
    BY DEF BalanceMatchesLedger
  <2> DEFINE now == [q \in committed |-> Net(q, e)]
             then == [q \in committed' |-> Net(q, e)]
  <2>1. \A q \in committed' : then[q] \in Int
    BY <1>1, NetIsInt DEF committed
  <2>2. SumFunctionOnSet(then, committed') = SumFunctionOnSet(then, committed) + then[p]
    <3> HIDE DEF then
    <3> QED BY <1>1, <2>1, SumAdd
  <2>3. SumFunctionOnSet(then, committed) = SumFunctionOnSet(now, committed)
    <3>1. \A q \in committed : then[q] = now[q]
      BY <1>1
    <3> HIDE DEF then, now
    <3> QED BY <1>1, <3>1, SumSame
  <2>4. bal[e] = Opening[e] + SumFunctionOnSet(now, committed)
    BY DEF LedgerInv, BalanceMatchesLedger, SumFunction
  <2>5. bal'[e] = bal[e] + Net(p, e) /\ then[p] = Net(p, e) /\ Net(p, e) \in Int
    BY <1>1, CommitAdds, NetIsInt
  <2>6. Opening[e] \in Int /\ SumFunctionOnSet(now, committed) \in Int
    <3>1. \A q \in committed : now[q] \in Int
      BY NetIsInt DEF committed
    <3> HIDE DEF now
    <3> QED BY <1>1, <3>1, SumIsInt, OpeningAssumption
  <2>7. SumFunction(then) = SumFunctionOnSet(then, committed')
    BY DEF SumFunction
  <2> HIDE DEF now, then
  <2>8. bal'[e] = Opening[e] + SumFunction(then)
    <3> DEFINE a == SumFunctionOnSet(now, committed)
               c == SumFunction(then)
               x == Net(p, e)
    <3>1. c = a + x /\ bal[e] = Opening[e] + a /\ bal'[e] = bal[e] + x
      BY <2>2, <2>3, <2>4, <2>5, <2>7
    <3>2. a \in Int /\ x \in Int /\ Opening[e] \in Int
      BY <2>5, <2>6
    <3> HIDE DEF a, c, x
    <3>3. bal'[e] = Opening[e] + c
      BY <3>1, <3>2
    <3> QED BY <3>3 DEF c
  <2> QED BY <2>8 DEF then
<1>4. Conserved'
  <2> DEFINE nets == [e \in Entity |-> Net(p, e)]
  <2>1. \A e \in Entity : bal[e] \in Int /\ nets[e] \in Int /\ bal'[e] = bal[e] + nets[e]
    BY NetIsInt, CommitAdds DEF TypeOK
  <2>2. SumFunctionOnSet(nets, Entity) = 0
    BY NetTotal DEF Commit, Balanced
  <2> HIDE DEF nets
  <2>3. SumFunctionOnSet(bal', Entity)
          = SumFunctionOnSet(bal, Entity) + SumFunctionOnSet(nets, Entity)
    BY <2>1, EntityAssumption, SumPlus
  <2>4. SumFunctionOnSet(bal, Entity) \in Int
    BY <2>1, EntityAssumption, SumIsInt
  <2> QED BY <2>2, <2>3, <2>4 DEF Conserved
<1> QED BY <1>2, <1>3, <1>4 DEF LedgerInv

LEMMA LedgerStep ==
    IInv /\ TypeOK /\ LedgerInv /\ Conserved /\ [Next]_vars => LedgerInv' /\ Conserved'
<1> SUFFICES ASSUME IInv, TypeOK, LedgerInv, Conserved, [Next]_vars
             PROVE  LedgerInv' /\ Conserved'
  OBVIOUS
<1>0. ASSUME UNCHANGED <<committed, bal>> PROVE LedgerInv' /\ Conserved'
  BY <1>0 DEF LedgerInv, BalanceMatchesLedger, Conserved
<1>1. CASE UNCHANGED vars
  BY <1>0, <1>1 DEF vars, calls, committed
<1>2. ASSUME NEW p \in Posting, Step(p) \/ Cancel(p) PROVE LedgerInv' /\ Conserved'
  <2>1. CASE Commit(p)
    BY <2>1, CommitAccounts
  <2> QED BY <1>0, <1>2, <2>1, OthersStutter DEF Step
<1>3. ASSUME NEW e \in Entity, Freeze(e) \/ Unfreeze(e) PROVE LedgerInv' /\ Conserved'
  BY <1>0, <1>3 DEF Freeze, Unfreeze, calls, committed
<1> QED BY <1>1, <1>2, <1>3 DEF Next

LEMMA InitLedger == Init => LedgerInv /\ Conserved
<1> SUFFICES ASSUME Init PROVE LedgerInv /\ Conserved
  OBVIOUS
<1>1. committed = {} /\ bal = Opening
  BY DEF Init, committed
<1>2. \A e \in Entity : SumFunction([q \in committed |-> Net(q, e)]) = 0
  BY <1>1, SumEmpty DEF SumFunction
<1>3. \A e \in Entity : bal[e] = Opening[e] + 0
  BY <1>1, OpeningAssumption
<1> QED BY <1>1, <1>2, <1>3, FS_EmptySet DEF LedgerInv, BalanceMatchesLedger, Conserved

THEOREM LedgerInductive == Spec => [](LedgerInv /\ Conserved)
BY InitLedger, LedgerStep, LocksWork, NeverNegative, PTL DEF Spec

\* Every balance is its opening balance and what the committed postings did to the
\* entity, nothing more: the update of no concurrent posting is lost.
THEOREM NoLostUpdate == Spec => []BalanceMatchesLedger
<1>1. LedgerInv /\ Conserved => BalanceMatchesLedger
  BY DEF LedgerInv
<1> QED BY <1>1, LedgerInductive, PTL

\* Because each posting balances and is atomic, no interleaving of postings makes
\* money or loses it: the sum over all entities never changes.
THEOREM MoneyIsConserved == Spec => []Conserved
<1>1. LedgerInv /\ Conserved => Conserved
  OBVIOUS
<1> QED BY <1>1, LedgerInductive, PTL
=============================================================================
