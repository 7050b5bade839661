-------------------------- MODULE SharedPot_proofs --------------------------
(***************************************************************************)
(* Proofs about SharedPot, for any users, handlers, policies and bounds.   *)
(***************************************************************************)
EXTENDS SharedPot, FiniteSetTheorems, TLAPS

PotStatus == {"NONE", "ACTIVE", "PAUSED", "ARCHIVED"}
Policy == {"OWNER_ONLY", "OWNER_OR_MANAGER", "APPROVAL_REQUIRED"}
PotType == [status : PotStatus, balance : Nat, policy : Policy, need : Nat]
InviteType == [Invitation -> {"NONE", "PENDING", "ACCEPTED", "REJECTED", "EXPIRED"}]
WithdrawalType ==
    [User -> [status : {"NONE", "PENDING", "REJECTED", "EXECUTED"}, need : Nat, yes : Seq(User)]]
DeletionType ==
    [User -> [status : {"NONE", "PENDING_APPROVAL", "SCHEDULED", "CANCELLED", "REJECTED", "ARCHIVED"},
              need : Nat, yes : Seq(User)]]
HandlerType ==
    [Handler -> [at : {"idle", "governing", "inviting", "withdrawing", "asking", "reviewing", "paid",
                       "deleting", "judging", "scheduling", "archiving", "cancelling",
                       "sweeping", "emptied", "swept"},
                 user : User \cup {NoUser}, of : User \cup Invitation \cup {NoUser},
                 seen : Seq(User), need : Nat]]

Typed ==
    /\ pot \in PotType /\ invite \in InviteType
    /\ purse \in [User -> Nat] /\ posted \in [Ref -> Nat]
    /\ wreq \in WithdrawalType /\ dreq \in DeletionType
    /\ op \in HandlerType /\ endorsed \in [User -> SUBSET User]

\* A list of approvals names different users, each of whom approved.
Signed(list, q) ==
    /\ Range(list) \subseteq endorsed[q]
    /\ Cardinality(Range(list)) = Len(list)

Paid(q) == posted[<<"approved", q>>]

\* What holds of the withdrawal request of a user at any moment.
Sound(q) ==
    /\ q \notin endorsed[q]
    /\ Signed(wreq[q].yes, q)
    /\ Paid(q) > 0 => wreq[q].status # "NONE" /\ Cardinality(endorsed[q]) >= wreq[q].need
    /\ wreq[q].status = "EXECUTED" => Paid(q) = 1

\* What a handler knows of the request it has read.
Knows(h) ==
    /\ op[h].at \notin {"idle", "governing", "inviting"} => op[h].user \in User /\ op[h].of \in User
    /\ op[h].at = "inviting" => op[h].of \in Invitation
    /\ op[h].at \in {"reviewing", "paid"} =>
        /\ op[h].user # op[h].of /\ op[h].user \notin Range(op[h].seen)
        /\ Signed(op[h].seen, op[h].of)
        /\ wreq[op[h].of].status # "NONE"
    /\ op[h].at = "paid" => op[h].user \in endorsed[op[h].of] /\ Paid(op[h].of) = 1

IInv ==
    /\ Typed
    /\ PostedOnce
    /\ \A q \in User : Sound(q)
    /\ \A h \in Handler : Knows(h)

-----------------------------------------------------------------------------
\* One more name on a list of approvals.
LEMMA OneMore ==
    ASSUME NEW s \in Seq(User), NEW u \in User
    PROVE  /\ Append(s, u) \in Seq(User) /\ Len(Append(s, u)) = Len(s) + 1
           /\ Range(Append(s, u)) = Range(s) \cup {u} /\ Range(s) \subseteq User
<1>1. /\ Append(s, u) \in Seq(User) /\ Len(Append(s, u)) = Len(s) + 1 /\ Len(s) \in Nat
      /\ DOMAIN s = 1..Len(s) /\ DOMAIN Append(s, u) = 1..(Len(s) + 1)
      /\ \A i \in 1..Len(s) : Append(s, u)[i] = s[i] /\ s[i] \in User
      /\ Append(s, u)[Len(s) + 1] = u
  OBVIOUS
<1>2. \A x : x \in Range(Append(s, u)) <=> x \in Range(s) \/ x = u
  BY <1>1 DEF Range
<1> QED BY <1>1, <1>2 DEF Range

\* A user who is not on a list makes it and the set of its names one longer.
LEMMA Counted ==
    ASSUME NEW s \in Seq(User), NEW u \in User, u \notin Range(s),
           Cardinality(Range(s)) = Len(s)
    PROVE  Cardinality(Range(Append(s, u))) = Len(Append(s, u))
<1>1. Range(s) \in SUBSET User /\ Range(Append(s, u)) = Range(s) \cup {u} /\ Len(Append(s, u)) = Len(s) + 1
  BY OneMore
<1>2. IsFiniteSet(Range(s))
  BY <1>1, FS_Subset, PotAssumption
<1>3. Cardinality(Range(s) \cup {u}) = Cardinality(Range(s)) + 1
  BY <1>2, FS_AddElement
<1> QED BY <1>1, <1>3

\* A list of approvals is never longer than the set of those who approved.
LEMMA Covers ==
    ASSUME NEW S \in SUBSET User, NEW T \in SUBSET S
    PROVE  Cardinality(T) \in Nat /\ Cardinality(S) \in Nat /\ Cardinality(T) <= Cardinality(S)
<1>1. IsFiniteSet(S)
  BY FS_Subset, PotAssumption
<1>2. IsFiniteSet(T) /\ Cardinality(T) <= Cardinality(S)
  BY <1>1, FS_Subset
<1> QED BY <1>1, <1>2, FS_CardinalityType

\* Who has signed stays on the list of those who ever approved.
LEMMA SignedStays ==
    ASSUME NEW q \in User, NEW list, endorsed[q] \subseteq endorsed'[q], Signed(list, q)
    PROVE  Signed(list, q)'
BY DEF Signed

\* The invariant holds before the pot exists.
LEMMA InitIInv == PotInit => IInv
<1> SUFFICES ASSUME PotInit PROVE IInv
  OBVIOUS
<1> USE DEF PotInit
<1>e. <<>> \in Seq(User) /\ Range(<<>>) = {} /\ Len(<<>>) = 0 /\ Cardinality({}) = 0
  BY FS_EmptySet DEF Range
<1>1. Typed
  BY <1>e, PotAssumption DEF Typed, PotType, PotStatus, Policy, InviteType, WithdrawalType, DeletionType,
     HandlerType, NoRequest, Idle
<1>2. PostedOnce
  BY DEF PostedOnce
<1>3. ASSUME NEW q \in User PROVE Sound(q)
  <2>1. wreq[q] = [status |-> "NONE", need |-> 0, yes |-> <<>>] /\ endorsed[q] = {}
    BY DEF NoRequest
  <2>2. Paid(q) = 0
    BY DEF Paid, Ref
  <2>3. wreq[q].yes = <<>> /\ wreq[q].status = "NONE"
    BY <2>1
  <2>4. Signed(wreq[q].yes, q)
    BY <1>e, <2>3 DEF Signed
  <2> HIDE DEF PotInit
  <2> QED BY <2>1, <2>2, <2>3, <2>4 DEF Sound
<1>4. ASSUME NEW h \in Handler PROVE Knows(h)
  BY DEF Knows, Idle
<1> QED BY <1>1, <1>2, <1>3, <1>4 DEF IInv

-----------------------------------------------------------------------------
\* A step that leaves the withdrawal requests and what was posted alone: the
\* handlers that review stay as they are, or end.
LEMMA QuietStep ==
    ASSUME IInv, UNCHANGED <<wreq, posted, endorsed>>, Typed',
           \A h \in Handler :
               \/ op'[h] = op[h]
               \/ /\ op'[h].at \notin {"reviewing", "paid"}
                  /\ op'[h].at \notin {"idle", "governing", "inviting"} => op'[h].user \in User /\ op'[h].of \in User
                  /\ op'[h].at = "inviting" => op'[h].of \in Invitation
    PROVE  IInv'
<1>1. PostedOnce'
  BY DEF IInv, PostedOnce
<1>2. ASSUME NEW q \in User PROVE Sound(q)'
  BY DEF IInv, Sound, Signed, Paid
<1>3. ASSUME NEW h \in Handler PROVE Knows(h)'
  <2>1. CASE op'[h] = op[h]
    BY <2>1 DEF IInv, Knows, Signed, Paid
  <2>2. CASE op'[h] # op[h]
    BY <2>2 DEF Knows
  <2> QED BY <2>1, <2>2
<1> QED BY <1>1, <1>2, <1>3 DEF IInv

\* A handler begins, goes on or ends, and keeps its type.
LEMMA HandlerTyped ==
    ASSUME Typed, NEW h \in Handler
    PROVE  /\ End(h) => /\ op' \in HandlerType /\ op'[h].at = "idle"
                        /\ \A g \in Handler \ {h} : op'[g] = op[g]
           /\ \A at \in {"scheduling", "archiving", "emptied", "swept", "paid"} :
                  GoTo(h, at) => /\ op' \in HandlerType /\ op'[h].at = at
                                 /\ op'[h].user = op[h].user /\ op'[h].of = op[h].of
                                 /\ op'[h].seen = op[h].seen
                                 /\ \A g \in Handler \ {h} : op'[g] = op[g]
<1>1. ASSUME End(h)
      PROVE  op' \in HandlerType /\ op'[h].at = "idle" /\ \A g \in Handler \ {h} : op'[g] = op[g]
  <2>1. Idle \in [at : {"idle"}, user : {NoUser}, of : {NoUser}, seen : Seq(User), need : Nat]
    BY DEF Idle
  <2> QED BY <1>1, <2>1 DEF Typed, HandlerType, End
<1>2. ASSUME NEW at \in {"scheduling", "archiving", "emptied", "swept", "paid"}, GoTo(h, at)
      PROVE  /\ op' \in HandlerType /\ op'[h].at = at
             /\ op'[h].user = op[h].user /\ op'[h].of = op[h].of /\ op'[h].seen = op[h].seen
             /\ \A g \in Handler \ {h} : op'[g] = op[g]
  BY <1>2 DEF Typed, HandlerType, GoTo
<1> QED BY <1>1, <1>2

LEMMA BeginTyped ==
    ASSUME Typed, NEW h \in Handler, NEW at, NEW u \in User, NEW x, NEW seen \in Seq(User),
           at \in {"governing", "inviting", "withdrawing", "asking", "reviewing",
                   "deleting", "judging", "cancelling", "sweeping"},
           x \in User \cup Invitation \cup {NoUser}, Begin(h, at, u, x, seen)
    PROVE  /\ op' \in HandlerType /\ op'[h].at = at /\ op'[h].user = u /\ op'[h].of = x
           /\ op'[h].seen = seen /\ op[h] = Idle
           /\ \A g \in Handler \ {h} : op'[g] = op[g]
BY PotAssumption DEF Typed, HandlerType, Begin, PotType

\* A step of a handler, or of a user, that changes no withdrawal request.
LEMMA OtherSteps ==
    ASSUME IInv,
           \/ \E h \in Handler :
                  \/ Create(h) \/ Govern(h) \/ InviteInsert(h) \/ Drop(h) \/ DeleteInsert(h)
                  \/ RejectDeletion(h) \/ ApproveDeletion(h) \/ Schedule(h) \/ Archive(h) \/ Cancel(h)
                  \/ DueRead(h) \/ ArchiveDuePot(h) \/ ArchiveDueRequest(h)
           \/ \E i \in Invitation : Accept(i) \/ Decline(i) \/ ListDue(i) \/ MarkExpired(i)
           \/ \E u, m \in User : RemoveMember(u, m)
           \/ \E p \in Patches : Patch(p)
    PROVE  IInv'
<1>t. /\ Typed /\ pot \in PotType /\ invite \in InviteType /\ dreq \in DeletionType /\ op \in HandlerType
      /\ \A h \in Handler : Knows(h)
  BY DEF IInv, Typed
<1>1. ASSUME NEW h \in Handler, Create(h) PROVE IInv'
  <2>1. /\ UNCHANGED <<invite, purse, posted, wreq, dreq, endorsed>>
        /\ pot' = [pot EXCEPT !.status = "ACTIVE"] /\ Begin(h, "governing", Creator, NoUser, <<>>)
    BY <1>1 DEF Create, money
  <2>2. <<>> \in Seq(User) /\ Creator \in User
    BY PotAssumption
  <2>3. op' \in HandlerType /\ op'[h].at = "governing" /\ \A g \in Handler \ {h} : op'[g] = op[g]
    BY <1>t, <2>1, <2>2, BeginTyped
  <2>4. Typed'
    BY <1>t, <2>1, <2>3 DEF Typed, PotType, PotStatus
  <2> QED BY <2>1, <2>3, <2>4, QuietStep
<1>2. ASSUME NEW h \in Handler, Govern(h) \/ InviteInsert(h) \/ Drop(h) PROVE IInv'
  <2>1. UNCHANGED <<purse, posted, wreq, dreq, endorsed>> /\ End(h)
    BY <1>2 DEF Govern, InviteInsert, Drop, rows, money
  <2>2. pot' \in PotType /\ invite' \in InviteType
    BY <1>2, <1>t DEF Govern, InviteInsert, Drop, rows, Ruled, DefaultPolicy, DefaultNeed, PotType, InviteType, Policy
  <2>3. op' \in HandlerType /\ op'[h].at = "idle" /\ \A g \in Handler \ {h} : op'[g] = op[g]
    BY <1>t, <2>1, HandlerTyped
  <2>4. Typed'
    BY <1>t, <2>1, <2>2, <2>3 DEF Typed
  <2> QED BY <2>1, <2>3, <2>4, QuietStep
<1>3. ASSUME NEW h \in Handler,
             \/ DeleteInsert(h) \/ RejectDeletion(h) \/ ApproveDeletion(h) \/ Schedule(h) \/ Archive(h) \/ Cancel(h)
             \/ DueRead(h) \/ ArchiveDuePot(h) \/ ArchiveDueRequest(h)
      PROVE  IInv'
  <2>1. /\ UNCHANGED <<invite, purse, posted, wreq, endorsed>>
        /\ End(h) \/ \E at \in {"scheduling", "archiving", "emptied", "swept"} : GoTo(h, at)
    BY <1>3 DEF DeleteInsert, RejectDeletion, ApproveDeletion, Schedule, Archive, Cancel,
       DueRead, ArchiveDuePot, ArchiveDueRequest, rows, money
  <2>2. op[h].of \in User /\ op[h].user \in User /\ op[h].seen \in Seq(User)
        /\ Approvals(h) \in Seq(User)
    BY <1>3, <1>t, OneMore DEF Knows, DeleteInsert, RejectDeletion, ApproveDeletion, Schedule, Archive, Cancel,
       DueRead, ArchiveDuePot, ArchiveDueRequest, Doing, HandlerType, Approvals
  <2>3. pot' \in PotType
    BY <1>3, <1>t DEF DeleteInsert, RejectDeletion, ApproveDeletion, Schedule, Archive, Cancel,
       DueRead, ArchiveDuePot, ArchiveDueRequest, rows, PotType, PotStatus
  <2>4. dreq' \in DeletionType
    <3>1. \A s \in {"PENDING_APPROVAL", "SCHEDULED", "CANCELLED", "REJECTED", "ARCHIVED"}, y \in Seq(User) :
             Write(dreq, h, s, y) \in DeletionType
      BY <1>t, <2>2 DEF Write, DeletionType
    <3>2. CASE RejectDeletion(h)
      BY <2>2, <3>1, <3>2 DEF RejectDeletion
    <3>3. CASE ApproveDeletion(h)
      <4>1. Write(dreq, h, Keep(dreq, h), Approvals(h)) \in DeletionType
        BY <1>t, <2>2 DEF Write, Keep, DeletionType
      <4> QED BY <2>2, <3>1, <3>3, <4>1 DEF ApproveDeletion
    <3>4. CASE DeleteInsert(h)
      BY <1>t, <2>2, <3>4 DEF DeleteInsert, DeletionType
    <3>5. CASE Schedule(h)
      BY <1>t, <2>2, <3>5 DEF Schedule, DeletionType
    <3>6. CASE Archive(h)
      BY <1>t, <3>6 DEF Archive
    <3>7. CASE Cancel(h)
      BY <1>t, <2>2, <3>7 DEF Cancel, DeletionType
    <3>8. CASE ArchiveDueRequest(h)
      BY <1>t, <2>2, <3>8 DEF ArchiveDueRequest, DeletionType
    <3>9. CASE DueRead(h) \/ ArchiveDuePot(h)
      BY <1>t, <3>9 DEF DueRead, ArchiveDuePot, rows
    <3> QED BY <1>3, <3>2, <3>3, <3>4, <3>5, <3>6, <3>7, <3>8, <3>9
  <2>5. /\ op' \in HandlerType /\ op'[h].at \in {"idle", "scheduling", "archiving", "emptied", "swept"}
        /\ op'[h].at # "idle" => op'[h].user \in User /\ op'[h].of \in User
        /\ \A g \in Handler \ {h} : op'[g] = op[g]
    BY <1>t, <2>1, <2>2, HandlerTyped
  <2>6. Typed'
    BY <1>t, <2>1, <2>3, <2>4, <2>5 DEF Typed
  <2> QED BY <2>1, <2>5, <2>6, QuietStep
<1>4. ASSUME \/ \E i \in Invitation : Accept(i) \/ Decline(i) \/ ListDue(i) \/ MarkExpired(i)
             \/ \E u, m \in User : RemoveMember(u, m)
             \/ \E p \in Patches : Patch(p)
      PROVE  IInv'
  <2>1. UNCHANGED <<purse, posted, wreq, dreq, op, endorsed>>
    BY <1>4 DEF Accept, Decline, ListDue, MarkExpired, RemoveMember, Patch, rows, money
  <2>2. invite' \in InviteType
    BY <1>4, <1>t DEF Accept, Decline, ListDue, MarkExpired, RemoveMember, Patch, rows, InviteType
  <2>3. pot' \in PotType
    <3>1. CASE \E p \in Patches : Patch(p)
      <4>1. PICK p \in Patches : Patch(p)
        BY <3>1
      <4>2. p.status \in PotStatus /\ p.policy \in Policy /\ p.need \in Nat
        BY PotAssumption DEF PotStatus, Policy
      <4>3. pot' = [status |-> p.status, balance |-> pot.balance, policy |-> p.policy, need |-> p.need]
        BY <4>1 DEF Patch, Ruled
      <4> QED BY <1>t, <4>2, <4>3 DEF PotType
    <3>2. CASE ~\E p \in Patches : Patch(p)
      BY <1>4, <1>t, <3>2 DEF Accept, Decline, ListDue, MarkExpired, RemoveMember, rows
    <3> QED BY <3>1, <3>2
  <2>4. Typed'
    BY <1>t, <2>1, <2>2, <2>3 DEF Typed
  <2> QED BY <2>1, <2>4, QuietStep
<1> QED BY <1>1, <1>2, <1>3, <1>4

\* A request starts: its handler reads, and writes nothing.
LEMMA CallsStep ==
    ASSUME IInv, NEW h \in Handler, NEW u \in User, Calls(h, u)
    PROVE  IInv'
<1>t. Typed /\ op \in HandlerType /\ wreq \in WithdrawalType /\ dreq \in DeletionType
  BY DEF IInv, Typed
<1>e. <<>> \in Seq(User)
  OBVIOUS
<1>1. UNCHANGED <<pot, member, invite, wreq, dreq, purse, posted, endorsed>>
  BY DEF Calls, InviteStart, WithdrawStart, DeleteStart, ReviewStart, DeleteReview, CancelStart, DueStart, rows, money
<1>2. ASSUME NEW x \in User, ReviewStart(h, u, x) PROVE IInv'
  <2>1. /\ Begin(h, "reviewing", u, x, wreq[x].yes) /\ wreq[x].status = "PENDING"
        /\ u # x /\ u \notin Range(wreq[x].yes) /\ wreq[x].yes \in Seq(User)
    BY <1>t, <1>2 DEF ReviewStart, MayReview, WithdrawalType
  <2>a. PICK s \in Seq(User) : s = wreq[x].yes
    BY <2>1
  <2>b. Begin(h, "reviewing", u, x, s)
    BY <2>1, <2>a
  <2>c. /\ op' \in HandlerType /\ op'[h].at = "reviewing" /\ op'[h].user = u /\ op'[h].of = x
        /\ op'[h].seen = s /\ \A g \in Handler \ {h} : op'[g] = op[g]
    BY <1>t, <2>b, BeginTyped
  <2>2. /\ op' \in HandlerType /\ op'[h].at = "reviewing" /\ op'[h].user = u /\ op'[h].of = x
        /\ op'[h].seen = wreq[x].yes /\ \A g \in Handler \ {h} : op'[g] = op[g]
    BY <2>a, <2>c
  <2>3. Typed'
    BY <1>t, <1>1, <2>2 DEF Typed
  <2>4. PostedOnce' /\ \A q \in User : Sound(q)'
    BY <1>1 DEF IInv, PostedOnce, Sound, Signed, Paid
  <2>5. Knows(h)'
    BY <1>1, <2>1, <2>2 DEF Knows, IInv, Sound, Signed
  <2>6. ASSUME NEW g \in Handler \ {h} PROVE Knows(g)'
    BY <1>1, <2>2 DEF Knows, IInv, Signed, Paid
  <2> QED BY <2>3, <2>4, <2>5, <2>6 DEF IInv
<1>3. ASSUME NEW x \in User,
             WithdrawStart(h, u) \/ DeleteStart(h, u) \/ DeleteReview(h, u, x) \/ CancelStart(h, u, x) \/ DueStart(h, u, x)
      PROVE  IInv'
  <2>1. PICK at \in {"withdrawing", "asking", "deleting", "judging", "cancelling", "sweeping"},
             y \in User, seen \in Seq(User) : Begin(h, at, u, y, seen)
    BY <1>t, <1>e, <1>3 DEF WithdrawStart, DeleteStart, DeleteReview, CancelStart, DueStart, DeletionType
  <2>2. /\ op' \in HandlerType /\ op'[h].at = at /\ op'[h].user = u /\ op'[h].of = y
        /\ \A g \in Handler \ {h} : op'[g] = op[g]
    BY <1>t, <2>1, PotAssumption DEF Typed, HandlerType, Begin, PotType
  <2>3. Typed'
    BY <1>t, <1>1, <2>2 DEF Typed
  <2> QED BY <1>1, <2>2, <2>3, QuietStep
<1>4. ASSUME NEW i \in Invitation, InviteStart(h, u, i) PROVE IInv'
  <2>1. Begin(h, "inviting", u, i, <<>>)
    BY <1>4 DEF InviteStart
  <2>2. /\ op' \in HandlerType /\ op'[h].at = "inviting" /\ op'[h].of = i
        /\ \A g \in Handler \ {h} : op'[g] = op[g]
    BY <1>t, <1>e, <2>1, PotAssumption DEF Typed, HandlerType, Begin, PotType
  <2>3. Typed'
    BY <1>t, <1>1, <2>2 DEF Typed
  <2> QED BY <1>1, <2>2, <2>3, QuietStep
<1> QED BY <1>2, <1>3, <1>4 DEF Calls
-----------------------------------------------------------------------------
\* Money moves for another reference than that of an approved withdrawal: no
\* request, and nothing a reviewer knows, depends on it.
LEMMA OtherMoney ==
    ASSUME IInv, NEW r \in Ref, r[1] # "approved", UNCHANGED <<wreq, endorsed>>, Typed',
           (posted' = [posted EXCEPT ![r] = @ + 1] /\ New(r)) \/ posted' = posted,
           \A h \in Handler : op'[h] = op[h] \/ op'[h].at = "idle"
    PROVE  IInv'
<1>1. posted \in [Ref -> Nat] /\ PostedOnce
  BY DEF IInv, Typed
<1>2. PostedOnce'
  BY <1>1 DEF PostedOnce, New
<1>3. ASSUME NEW q \in User PROVE Paid(q)' = Paid(q)
  <2>1. <<"approved", q>> \in Ref /\ <<"approved", q>> # r
    BY DEF Ref
  <2> QED BY <1>1, <2>1 DEF Paid
<1>4. ASSUME NEW q \in User PROVE Sound(q)'
  BY <1>3 DEF IInv, Sound, Signed
<1>5. ASSUME NEW h \in Handler PROVE Knows(h)'
  <2>1. CASE op'[h] = op[h]
    BY <1>3, <2>1 DEF IInv, Knows, Signed
  <2>2. CASE op'[h].at = "idle"
    BY <2>2 DEF Knows
  <2> QED BY <2>1, <2>2
<1> QED BY <1>2, <1>4, <1>5 DEF IInv

\* A movement keeps the types: a purse that gives, or the pot, holds enough.
LEMMA MoveTyped ==
    ASSUME Typed, NEW u \in User, NEW r \in Ref, NEW a \in {0, 1}, NEW b \in {0, 1},
           Move(u, r, a, b), purse[u] + b >= a, pot.balance + a >= b
    PROVE  pot' \in PotType /\ purse' \in [User -> Nat] /\ posted' \in [Ref -> Nat]
<1>1. pot \in PotType /\ purse \in [User -> Nat] /\ posted \in [Ref -> Nat]
  BY DEF Typed
<1>2. pot.balance + a - b \in Nat /\ purse[u] + b - a \in Nat
  BY <1>1 DEF PotType
<1>3. pot' \in PotType
  BY <1>1, <1>2 DEF Move, PotType
<1>4. purse' \in [User -> Nat]
  BY <1>1, <1>2 DEF Move
<1>5. posted' \in [Ref -> Nat]
  BY <1>1 DEF Move
<1> QED BY <1>3, <1>4, <1>5

\* A withdrawal pays for a new reference, or answers a known one.
LEMMA WithdrawTyped ==
    ASSUME Typed, NEW u \in User, NEW r \in Ref, Withdraw(u, r)
    PROVE  /\ pot' \in PotType /\ purse' \in [User -> Nat] /\ posted' \in [Ref -> Nat]
           /\ \/ posted' = [posted EXCEPT ![r] = @ + 1] /\ New(r)
              \/ posted' = posted /\ posted[r] > 0
<1>1. pot \in PotType /\ purse \in [User -> Nat] /\ posted \in [Ref -> Nat]
  BY DEF Typed
<1>2. CASE New(r) /\ Covered /\ Move(u, r, 0, 1)
  <2>1. purse[u] + 1 >= 0 /\ pot.balance + 0 >= 1
    BY <1>1, <1>2 DEF Covered, PotType
  <2>2. pot' \in PotType /\ purse' \in [User -> Nat] /\ posted' \in [Ref -> Nat]
    BY <1>2, <2>1, MoveTyped
  <2> QED BY <1>2, <2>2 DEF Move
<1>3. CASE posted[r] > 0 /\ UNCHANGED <<pot, money>>
  BY <1>1, <1>3 DEF money
<1> QED BY <1>2, <1>3 DEF Withdraw

\* A contribution, and a withdrawal that needs no approval.
LEMMA DirectSteps ==
    ASSUME IInv, (\E u \in User : Contribute(u)) \/ (\E h \in Handler : WithdrawDirect(h))
    PROVE  IInv'
<1>t. Typed /\ purse \in [User -> Nat]
  BY DEF IInv, Typed
<1>1. ASSUME NEW u \in User, Contribute(u) PROVE IInv'
  <2>1. PICK r \in Ref : r = <<"contribute", u>>
    BY DEF Ref
  <2>2. /\ Move(u, r, 1, 0) /\ New(r) /\ purse[u] > 0
        /\ UNCHANGED <<member, invite, wreq, dreq, op, endorsed>>
    BY <1>1, <2>1 DEF Contribute
  <2>3. purse[u] + 0 >= 1 /\ pot.balance + 1 >= 0
    BY <1>t, <2>2 DEF Typed, PotType
  <2>4. pot' \in PotType /\ purse' \in [User -> Nat] /\ posted' \in [Ref -> Nat]
    BY <1>t, <2>2, <2>3, MoveTyped
  <2>5. Typed'
    BY <1>t, <2>2, <2>4 DEF Typed
  <2>6. posted' = [posted EXCEPT ![r] = @ + 1] /\ r[1] # "approved"
    BY <2>1, <2>2 DEF Move
  <2> QED BY <2>2, <2>5, <2>6, OtherMoney
<1>2. ASSUME NEW h \in Handler, WithdrawDirect(h) PROVE IInv'
  <2>1. op[h].user \in User
    BY <1>2 DEF IInv, Knows, WithdrawDirect, Doing
  <2>2. PICK r \in Ref : r = <<"direct", op[h].user>>
    BY <2>1 DEF Ref
  <2>3. Withdraw(op[h].user, r) /\ End(h) /\ UNCHANGED <<member, invite, wreq, dreq, endorsed>>
    BY <1>2, <2>2 DEF WithdrawDirect
  <2>4. /\ pot' \in PotType /\ purse' \in [User -> Nat] /\ posted' \in [Ref -> Nat]
        /\ \/ posted' = [posted EXCEPT ![r] = @ + 1] /\ New(r)
           \/ posted' = posted /\ posted[r] > 0
    BY <1>t, <2>1, <2>3, WithdrawTyped
  <2>5. op' \in HandlerType /\ op'[h].at = "idle" /\ \A g \in Handler \ {h} : op'[g] = op[g]
    BY <1>t, <2>3, HandlerTyped
  <2>6. Typed' /\ r[1] # "approved"
    BY <1>t, <2>2, <2>3, <2>4, <2>5 DEF Typed
  <2> QED BY <2>3, <2>4, <2>5, <2>6, OtherMoney
<1> QED BY <1>1, <1>2

-----------------------------------------------------------------------------
\* A request is written, by the handler that ends with it: the other requests
\* and what other reviewers know stay true.
LEMMA RequestWritten ==
    ASSUME IInv, NEW h \in Handler, End(h), UNCHANGED <<pot, invite, purse, posted, dreq>>,
           NEW q \in User, wreq' \in WithdrawalType, wreq'[q].status # "NONE",
           \A x \in User \ {q} : wreq'[x] = wreq[x],
           endorsed' \in [User -> SUBSET User],
           \A x \in User : endorsed[x] \subseteq endorsed'[x],
           \A x \in User \ {q} : endorsed'[x] = endorsed[x],
           Sound(q)'
    PROVE  IInv'
<1>t. Typed
  BY DEF IInv
<1>1. op' \in HandlerType /\ op'[h].at = "idle" /\ \A g \in Handler \ {h} : op'[g] = op[g]
  BY <1>t, HandlerTyped
<1>2. Typed'
  BY <1>t, <1>1 DEF Typed
<1>3. PostedOnce'
  BY DEF IInv, PostedOnce
<1>4. ASSUME NEW x \in User \ {q} PROVE Sound(x)'
  BY <1>4 DEF IInv, Sound, Signed, Paid
<1>5. Knows(h)'
  BY <1>1 DEF Knows
<1>6. ASSUME NEW g \in Handler \ {h} PROVE Knows(g)'
  <2>1. Knows(g) /\ op'[g] = op[g]
    BY <1>1 DEF IInv
  <2>2. CASE op[g].at \in {"reviewing", "paid"}
    <3>1. op[g].of \in User /\ op[g].user \in User /\ wreq[op[g].of].status # "NONE" /\ Signed(op[g].seen, op[g].of)
      BY <2>1, <2>2 DEF Knows
    <3>2. wreq'[op[g].of].status # "NONE"
      BY <3>1
    <3>3. endorsed[op[g].of] \subseteq endorsed'[op[g].of]
      BY <3>1
    <3>4. Signed(op[g].seen, op[g].of)'
      <4>1. op'[g].seen = op[g].seen /\ op'[g].of = op[g].of
        BY <2>1
      <4>2. Range(op[g].seen) \subseteq endorsed'[op[g].of] /\ Cardinality(Range(op[g].seen)) = Len(op[g].seen)
        BY <3>1, <3>3 DEF Signed
      <4> QED BY <4>1, <4>2 DEF Signed
    <3>5. op[g].at = "paid" => op[g].user \in endorsed'[op[g].of] /\ Paid(op[g].of)' = 1
      BY <2>1, <3>3 DEF Knows, Paid
    <3>6. op[g].user # op[g].of /\ op[g].user \notin Range(op[g].seen)
      BY <2>1, <2>2 DEF Knows
    <3> QED BY <2>1, <2>2, <3>1, <3>2, <3>4, <3>5, <3>6 DEF Knows, Signed
  <2>3. CASE op[g].at \notin {"reviewing", "paid"}
    BY <2>1, <2>3 DEF Knows
  <2> QED BY <2>2, <2>3
<1> QED BY <1>2, <1>3, <1>4, <1>5, <1>6 DEF IInv

\* A reviewer's list with his own name added is one that different users signed.
LEMMA ListGrows ==
    ASSUME IInv, NEW h \in Handler, op[h].at \in {"reviewing", "paid"}, NEW E \in SUBSET User,
           endorsed[op[h].of] \cup {op[h].user} \subseteq E
    PROVE  /\ Approvals(h) \in Seq(User)
           /\ Range(Approvals(h)) \subseteq E
           /\ Cardinality(Range(Approvals(h))) = Len(Approvals(h))
           /\ Cardinality(E) >= Len(Approvals(h))
<1>1. /\ op[h].user \in User /\ op[h].of \in User /\ op[h].seen \in Seq(User)
      /\ op[h].user \notin Range(op[h].seen) /\ Signed(op[h].seen, op[h].of)
  BY DEF IInv, Knows, Typed, HandlerType
<1>2. PICK s \in Seq(User), u \in User : s = op[h].seen /\ u = op[h].user
  BY <1>1
<1>3. Append(s, u) \in Seq(User) /\ Range(Append(s, u)) = Range(s) \cup {u} /\ Len(Append(s, u)) \in Nat
  BY OneMore
<1>4. Cardinality(Range(Append(s, u))) = Len(Append(s, u))
  BY <1>1, <1>2, Counted DEF Signed
<1>5. Range(Append(s, u)) \in SUBSET E
  BY <1>1, <1>2, <1>3 DEF Signed
<1>6. Cardinality(Range(Append(s, u))) <= Cardinality(E) /\ Cardinality(E) \in Nat
  BY <1>5, Covers
<1> QED BY <1>2, <1>3, <1>4, <1>5, <1>6 DEF Approvals

\* What is true of the request that a handler holds.
LEMMA RequestHeld ==
    ASSUME IInv, NEW h \in Handler, op[h].at \in {"reviewing", "paid"}
    PROVE  /\ op[h].of \in User /\ op[h].user \in User /\ op[h].user # op[h].of
           /\ Sound(op[h].of) /\ wreq[op[h].of].status \in {"PENDING", "REJECTED", "EXECUTED"}
           /\ wreq[op[h].of].need \in Nat /\ endorsed[op[h].of] \subseteq User
           /\ Paid(op[h].of) \in {0, 1}
<1>1. op[h].of \in User /\ op[h].user \in User /\ op[h].user # op[h].of /\ wreq[op[h].of].status # "NONE"
  BY DEF IInv, Knows
<1>2. wreq[op[h].of] \in [status : {"NONE", "PENDING", "REJECTED", "EXECUTED"}, need : Nat, yes : Seq(User)]
  BY <1>1 DEF IInv, Typed, WithdrawalType
<1>3. endorsed[op[h].of] \subseteq User
  BY <1>1 DEF IInv, Typed
<1>4. <<"approved", op[h].of>> \in Ref
  BY <1>1 DEF Ref
<1>5. Paid(op[h].of) \in {0, 1}
  BY <1>4 DEF IInv, Typed, PostedOnce, Paid
<1>6. Sound(op[h].of)
  BY <1>1 DEF IInv
<1> QED BY <1>1, <1>2, <1>3, <1>5, <1>6

\* A request for a withdrawal begins with an empty list.
LEMMA AskStep == ASSUME IInv, NEW h \in Handler, AskWithdrawal(h) PROVE IInv'
<1>1. PICK q \in User : q = op[h].user
  BY DEF AskWithdrawal, Doing, IInv, Knows
<1>2. /\ wreq[q].status = "NONE" /\ End(h)
      /\ wreq' = [wreq EXCEPT ![q] = [status |-> "PENDING", need |-> op[h].need, yes |-> <<>>]]
      /\ UNCHANGED <<pot, invite, dreq, purse, posted, endorsed>>
  BY <1>1 DEF AskWithdrawal, money
<1>3. op[h].need \in Nat /\ <<>> \in Seq(User) /\ wreq \in WithdrawalType /\ endorsed \in [User -> SUBSET User]
  BY DEF IInv, Typed, HandlerType
<1>4. wreq' \in WithdrawalType /\ wreq'[q] = [status |-> "PENDING", need |-> op[h].need, yes |-> <<>>]
      /\ \A x \in User \ {q} : wreq'[x] = wreq[x]
  BY <1>2, <1>3 DEF WithdrawalType
<1>5. Sound(q) /\ ~(Paid(q) > 0)
  BY <1>2 DEF IInv, Sound
<1>6. wreq'[q].yes = <<>> /\ wreq'[q].status = "PENDING"
  BY <1>4
<1>7. Range(<<>>) = {} /\ Len(<<>>) = 0 /\ Cardinality({}) = 0
  BY FS_EmptySet DEF Range
<1>8. Sound(q)'
  BY <1>2, <1>5, <1>6, <1>7 DEF Sound, Signed, Paid
<1>9. wreq'[q].status # "NONE"
  BY <1>6
<1> QED BY <1>2, <1>3, <1>4, <1>8, <1>9, RequestWritten

\* A rejection writes back the list that was read.
LEMMA RejectStep == ASSUME IInv, NEW h \in Handler, Reject(h) PROVE IInv'
<1>1. op[h].at = "reviewing" /\ End(h) /\ wreq' = Write(wreq, h, "REJECTED", op[h].seen)
      /\ UNCHANGED <<pot, invite, dreq, purse, posted, endorsed>>
  BY DEF Reject, Doing, money
<1>2. PICK q \in User : q = op[h].of
  BY <1>1, RequestHeld
<1>3. Sound(q) /\ wreq[q].status # "NONE" /\ Signed(op[h].seen, q) /\ op[h].seen \in Seq(User)
      /\ wreq \in WithdrawalType /\ endorsed \in [User -> SUBSET User]
  BY <1>1, <1>2 DEF IInv, Knows, Typed, HandlerType
<1>4. /\ wreq' \in WithdrawalType
      /\ wreq'[q] = [status |-> "REJECTED", need |-> wreq[q].need, yes |-> op[h].seen]
      /\ \A x \in User \ {q} : wreq'[x] = wreq[x]
  BY <1>1, <1>2, <1>3 DEF Write, WithdrawalType
<1>5. wreq'[q].status = "REJECTED" /\ wreq'[q].need = wreq[q].need /\ wreq'[q].yes = op[h].seen
  BY <1>4
<1>6. Sound(q)'
  BY <1>1, <1>3, <1>5 DEF Sound, Signed, Paid
<1>7. wreq'[q].status # "NONE"
  BY <1>5
<1> QED BY <1>1, <1>3, <1>4, <1>6, <1>7, RequestWritten

\* An approval that does not complete the quorum adds a name.
LEMMA AddStep == ASSUME IInv, NEW h \in Handler, AddApproval(h) PROVE IInv'
<1>1. /\ op[h].at = "reviewing" /\ End(h)
      /\ wreq' = Write(wreq, h, Keep(wreq, h), Approvals(h))
      /\ endorsed' = [endorsed EXCEPT ![op[h].of] = @ \cup {op[h].user}]
      /\ UNCHANGED <<pot, invite, dreq, purse, posted>>
  BY DEF AddApproval, Doing, money
<1>2. PICK q \in User : q = op[h].of
  BY <1>1, RequestHeld
<1>3. /\ Sound(q) /\ wreq[q].status \in {"PENDING", "REJECTED", "EXECUTED"} /\ wreq[q].need \in Nat
      /\ op[h].user \in User /\ op[h].user # q /\ endorsed[q] \subseteq User
      /\ wreq \in WithdrawalType /\ endorsed \in [User -> SUBSET User]
  BY <1>1, <1>2, RequestHeld DEF IInv, Typed
<1>4. /\ endorsed' \in [User -> SUBSET User] /\ endorsed'[q] = endorsed[q] \cup {op[h].user}
      /\ \A x \in User \ {q} : endorsed'[x] = endorsed[x]
  BY <1>1, <1>2, <1>3
<1>5. PICK E \in SUBSET User : E = endorsed[q] \cup {op[h].user}
  BY <1>3
<1>6. /\ Approvals(h) \in Seq(User) /\ Range(Approvals(h)) \subseteq E
      /\ Cardinality(Range(Approvals(h))) = Len(Approvals(h))
  BY <1>1, <1>2, <1>5, ListGrows
<1>7. /\ wreq' \in WithdrawalType
      /\ wreq'[q] = [status |-> wreq[q].status, need |-> wreq[q].need, yes |-> Approvals(h)]
      /\ \A x \in User \ {q} : wreq'[x] = wreq[x]
  BY <1>1, <1>2, <1>3, <1>6 DEF Write, Keep, WithdrawalType
<1>8. wreq'[q].status = wreq[q].status /\ wreq'[q].need = wreq[q].need /\ wreq'[q].yes = Approvals(h)
  BY <1>7
<1>9. Signed(wreq[q].yes, q)'
  BY <1>4, <1>5, <1>6, <1>8 DEF Signed
<1>10. Cardinality(endorsed[q]) <= Cardinality(E) /\ Cardinality(endorsed[q]) \in Nat /\ Cardinality(E) \in Nat
  BY <1>5, Covers
<1>11. Paid(q)' = Paid(q) /\ endorsed'[q] = E
  BY <1>1, <1>4, <1>5 DEF Paid
<1>12. Sound(q)'
  <2>1. q \notin endorsed'[q]
    BY <1>3, <1>4 DEF Sound
  <2>2. Paid(q)' > 0 => wreq'[q].status # "NONE" /\ Cardinality(endorsed'[q]) >= wreq'[q].need
    <3>1. Paid(q) > 0 => Cardinality(endorsed[q]) >= wreq[q].need
      BY <1>3 DEF Sound
    <3>2. Paid(q) > 0 => Cardinality(E) >= wreq[q].need
      BY <1>3, <1>10, <3>1
    <3> QED BY <1>3, <1>8, <1>11, <3>2
  <2>3. wreq'[q].status = "EXECUTED" => Paid(q)' = 1
    BY <1>3, <1>8, <1>11 DEF Sound
  <2> QED BY <1>9, <2>1, <2>2, <2>3 DEF Sound
<1>13. wreq'[q].status # "NONE" /\ \A x \in User : endorsed[x] \subseteq endorsed'[x]
  BY <1>3, <1>4, <1>8
<1> QED BY <1>1, <1>4, <1>7, <1>12, <1>13, RequestWritten

\* The request is closed after it was paid.
LEMMA CloseStep == ASSUME IInv, NEW h \in Handler, CloseApproved(h) PROVE IInv'
<1>1. /\ op[h].at = "paid" /\ End(h)
      /\ wreq' = Write(wreq, h, "EXECUTED", Approvals(h))
      /\ UNCHANGED <<pot, invite, dreq, purse, posted, endorsed>>
  BY DEF CloseApproved, Closing, Doing, money
<1>2. PICK q \in User : q = op[h].of
  BY <1>1, RequestHeld
<1>3. /\ Sound(q) /\ op[h].user \in endorsed[q] /\ Paid(q) = 1 /\ endorsed[q] \subseteq User
      /\ wreq[q].status # "NONE" /\ wreq \in WithdrawalType /\ endorsed \in [User -> SUBSET User]
  BY <1>1, <1>2 DEF IInv, Knows, Typed
<1>4. PICK E \in SUBSET User : E = endorsed[q]
  BY <1>3
<1>5. /\ Approvals(h) \in Seq(User) /\ Range(Approvals(h)) \subseteq E
      /\ Cardinality(Range(Approvals(h))) = Len(Approvals(h))
  BY <1>1, <1>2, <1>3, <1>4, ListGrows
<1>6. /\ wreq' \in WithdrawalType
      /\ wreq'[q] = [status |-> "EXECUTED", need |-> wreq[q].need, yes |-> Approvals(h)]
      /\ \A x \in User \ {q} : wreq'[x] = wreq[x]
  BY <1>1, <1>2, <1>3, <1>5 DEF Write, WithdrawalType
<1>7. wreq'[q].status = "EXECUTED" /\ wreq'[q].need = wreq[q].need /\ wreq'[q].yes = Approvals(h)
  BY <1>6
<1>8. Signed(wreq[q].yes, q)'
  BY <1>1, <1>4, <1>5, <1>7 DEF Signed
<1>9. Sound(q)'
  BY <1>1, <1>3, <1>7, <1>8 DEF Sound, Paid
<1>10. wreq'[q].status # "NONE"
  BY <1>7
<1> QED BY <1>1, <1>3, <1>6, <1>9, <1>10, RequestWritten

\* The approval that completes the quorum pays.
LEMMA PayStep == ASSUME IInv, NEW h \in Handler, PayApproved(h) PROVE IInv'
<1>1. /\ op[h].at = "reviewing" /\ GoTo(h, "paid") /\ Enough(h)
      /\ Withdraw(op[h].of, <<"approved", op[h].of>>)
      /\ endorsed' = [endorsed EXCEPT ![op[h].of] = @ \cup {op[h].user}]
      /\ UNCHANGED <<invite, wreq, dreq>>
  BY DEF PayApproved, Doing
<1>2. PICK q \in User : q = op[h].of
  BY <1>1, RequestHeld
<1>3. PICK r \in Ref : r = <<"approved", q>>
  BY DEF Ref
<1>4. /\ Sound(q) /\ wreq[q].status \in {"PENDING", "REJECTED", "EXECUTED"} /\ wreq[q].need \in Nat
      /\ op[h].user \in User /\ op[h].user # q /\ endorsed[q] \subseteq User /\ Paid(q) \in {0, 1}
      /\ Typed /\ PostedOnce /\ endorsed \in [User -> SUBSET User] /\ posted \in [Ref -> Nat]
  BY <1>1, <1>2, RequestHeld DEF IInv, Typed
<1>5. /\ pot' \in PotType /\ purse' \in [User -> Nat] /\ posted' \in [Ref -> Nat]
      /\ \/ posted' = [posted EXCEPT ![r] = @ + 1] /\ New(r)
         \/ posted' = posted /\ posted[r] > 0
  <2>1. Withdraw(q, r)
    BY <1>1, <1>2, <1>3
  <2> QED BY <1>4, <2>1, WithdrawTyped
<1>6. posted'[r] = 1 /\ \A x \in Ref \ {r} : posted'[x] = posted[x]
  BY <1>4, <1>5 DEF New, PostedOnce
<1>7. PostedOnce'
  BY <1>4, <1>6 DEF PostedOnce
<1>8. /\ op' \in HandlerType /\ op'[h].at = "paid" /\ op'[h].user = op[h].user /\ op'[h].of = op[h].of
      /\ op'[h].seen = op[h].seen /\ \A g \in Handler \ {h} : op'[g] = op[g]
  BY <1>1, <1>4, HandlerTyped
<1>9. PICK E \in SUBSET User : E = endorsed[q] \cup {op[h].user}
  BY <1>4
<1>10. /\ endorsed' \in [User -> SUBSET User] /\ endorsed'[q] = E
       /\ \A x \in User \ {q} : endorsed'[x] = endorsed[x]
       /\ \A x \in User : endorsed[x] \subseteq endorsed'[x]
  BY <1>1, <1>2, <1>4, <1>9
<1>11. Typed'
  BY <1>1, <1>4, <1>5, <1>8, <1>10 DEF Typed
<1>12. Paid(q)' = 1 /\ \A x \in User \ {q} : Paid(x)' = Paid(x)
  BY <1>3, <1>6 DEF Paid, Ref
<1>13. Cardinality(E) >= wreq[q].need
  <2>1. Cardinality(E) >= Len(Approvals(h)) /\ Approvals(h) \in Seq(User)
    BY <1>1, <1>2, <1>9, ListGrows
  <2>2. Len(Approvals(h)) >= wreq[q].need
    BY <1>1, <1>2 DEF Enough
  <2>3. Cardinality(E) \in Nat /\ Len(Approvals(h)) \in Nat
    BY <2>1, Covers
  <2> QED BY <1>4, <2>1, <2>2, <2>3
<1>14. Sound(q)'
  <2>1. q \notin endorsed'[q]
    BY <1>4, <1>9, <1>10 DEF Sound
  <2>2. Signed(wreq[q].yes, q)'
    BY <1>1, <1>4, <1>10 DEF Sound, Signed
  <2> QED BY <1>1, <1>4, <1>10, <1>12, <1>13, <2>1, <2>2 DEF Sound
<1>15. ASSUME NEW x \in User \ {q} PROVE Sound(x)'
  <2>1. Sound(x) /\ Paid(x)' = Paid(x) /\ endorsed'[x] = endorsed[x] /\ wreq' = wreq
    BY <1>1, <1>10, <1>12 DEF IInv
  <2>2. Signed(wreq[x].yes, x)'
    BY <2>1 DEF Sound, Signed
  <2> QED BY <2>1, <2>2 DEF Sound
<1>16. Knows(h)'
  <2>1. Knows(h) /\ Signed(op[h].seen, q)
    BY <1>1, <1>2 DEF IInv, Knows
  <2>2. Signed(op[h].seen, op[h].of)'
    BY <1>2, <1>8, <1>10, <2>1 DEF Signed
  <2>3. op'[h].user \in endorsed'[op'[h].of]
    BY <1>2, <1>8, <1>9, <1>10
  <2>4. Paid(op[h].of)' = 1
    <3>1. op'[h].of = q /\ posted'[<<"approved", q>>] = 1
      BY <1>2, <1>3, <1>6, <1>8
    <3> QED BY <3>1 DEF Paid
  <2> QED BY <1>1, <1>2, <1>4, <1>8, <2>1, <2>2, <2>3, <2>4 DEF Knows
<1>17. ASSUME NEW g \in Handler \ {h} PROVE Knows(g)'
  <2>1. Knows(g) /\ op'[g] = op[g]
    BY <1>8 DEF IInv
  <2>2. CASE op[g].at \in {"reviewing", "paid"}
    <3>1. /\ op[g].of \in User /\ op[g].user \in User /\ wreq[op[g].of].status # "NONE"
          /\ Signed(op[g].seen, op[g].of) /\ op[g].user # op[g].of /\ op[g].user \notin Range(op[g].seen)
      BY <2>1, <2>2 DEF Knows
    <3>2. endorsed[op[g].of] \subseteq endorsed'[op[g].of] /\ wreq'[op[g].of].status # "NONE"
      BY <1>1, <1>10, <3>1
    <3>3. Signed(op[g].seen, op[g].of)'
      BY <2>1, <3>1, <3>2 DEF Signed
    <3>4. op[g].at = "paid" => op[g].user \in endorsed'[op[g].of] /\ posted[<<"approved", op[g].of>>] = 1
      BY <2>1, <3>2 DEF Knows, Paid
    <3>5. <<"approved", op[g].of>> \in Ref
      BY <3>1 DEF Ref
    <3>6. op[g].at = "paid" => op[g].user \in endorsed'[op[g].of] /\ Paid(op[g].of)' = 1
      BY <1>6, <2>1, <3>4, <3>5 DEF Paid
    <3> QED BY <2>1, <2>2, <3>1, <3>2, <3>3, <3>6 DEF Knows
  <2>3. CASE op[g].at \notin {"reviewing", "paid"}
    BY <2>1, <2>3 DEF Knows
  <2> QED BY <2>2, <2>3
<1> QED BY <1>7, <1>11, <1>14, <1>15, <1>16, <1>17 DEF IInv

-----------------------------------------------------------------------------
LEMMA StepIInv == ASSUME IInv, [PotNext]_potVars PROVE IInv'
<1>1. CASE UNCHANGED potVars
  <2>1. UNCHANGED <<pot, invite, wreq, dreq, purse, posted, op, endorsed>>
    BY <1>1 DEF potVars, rows, money
  <2>2. Typed'
    BY <2>1 DEF IInv, Typed
  <2> QED BY <2>1, <2>2, QuietStep
<1>2. ASSUME NEW h \in Handler, Steps(h) PROVE IInv'
  <2>1. \/ \/ Create(h) \/ Govern(h) \/ InviteInsert(h) \/ Drop(h) \/ DeleteInsert(h)
           \/ RejectDeletion(h) \/ ApproveDeletion(h) \/ Schedule(h) \/ Archive(h) \/ Cancel(h)
           \/ DueRead(h) \/ ArchiveDuePot(h) \/ ArchiveDueRequest(h)
        \/ WithdrawDirect(h) \/ AskWithdrawal(h)
        \/ Reject(h) \/ AddApproval(h) \/ PayApproved(h) \/ CloseApproved(h)
    BY <1>2 DEF Steps
  <2> QED BY <2>1, OtherSteps, DirectSteps, AskStep, RejectStep, AddStep, PayStep, CloseStep
<1>3. ASSUME NEW h \in Handler, NEW u \in User, Calls(h, u) PROVE IInv'
  BY <1>3, CallsStep
<1>4. CASE \E u \in Payer : Contribute(u)
  BY <1>4, PotAssumption, DirectSteps
<1>5. CASE \/ \E i \in Invitation : Accept(i) \/ Decline(i) \/ ListDue(i) \/ MarkExpired(i)
           \/ \E u, m \in User : RemoveMember(u, m)
           \/ \E p \in Patches : Patch(p)
  BY <1>5, OtherSteps
<1> QED BY <1>1, <1>2, <1>3, <1>4, <1>5 DEF PotNext

THEOREM Inductive == PotSpec => []IInv
<1>1. PotInit => IInv
  BY InitIInv
<1>2. IInv /\ [PotNext]_potVars => IInv'
  BY StepIInv
<1> QED BY <1>1, <1>2, PTL DEF PotSpec

\* Rows and handlers keep their shape, and no balance goes below zero.
THEOREM PotTypes == PotSpec => []PotTypeOK
<1>1. IInv => PotTypeOK
  <2> SUFFICES ASSUME IInv PROVE PotTypeOK
    OBVIOUS
  <2>1. /\ pot \in PotType /\ invite \in InviteType /\ purse \in [User -> Nat] /\ posted \in [Ref -> Nat]
        /\ wreq \in WithdrawalType /\ dreq \in DeletionType
    BY DEF IInv, Typed
  <2>2. \A u \in User : wreq[u].status \in {"NONE", "PENDING", "REJECTED", "EXECUTED"}
    BY <2>1 DEF WithdrawalType
  <2>3. \A u \in User : dreq[u].status \in
           {"NONE", "PENDING_APPROVAL", "SCHEDULED", "CANCELLED", "REJECTED", "ARCHIVED"}
    BY <2>1 DEF DeletionType
  <2> QED BY <2>1, <2>2, <2>3 DEF PotTypeOK, PotType, PotStatus, Policy, InviteType
<1> QED BY <1>1, Inductive, PTL

\* An approved withdrawal was paid only with the quorum of different members,
\* however their writes of the list of approvals interleave.
THEOREM QuorumPaid == PotSpec => []PaidByQuorum
<1>1. IInv => PaidByQuorum
  BY DEF IInv, Sound, PaidByQuorum, Paid
<1> QED BY <1>1, Inductive, PTL

\* No reference moves money twice.
THEOREM PostedAtMostOnce == PotSpec => []PostedOnce
<1>1. IInv => PostedOnce
  BY DEF IInv
<1> QED BY <1>1, Inductive, PTL

\* A request that says EXECUTED was paid, exactly once.
THEOREM ExecutedWasPaid == PotSpec => []ExecutedIsPaid
<1>1. IInv => ExecutedIsPaid
  BY DEF IInv, Sound, ExecutedIsPaid, Paid
<1> QED BY <1>1, Inductive, PTL

\* A request that starts changes no row, and few steps change a member or the pot.
LEMMA Untouched ==
    /\ \A h \in Handler, u \in User : Calls(h, u) => UNCHANGED <<pot, member>>
    /\ \A h \in Handler :
          Steps(h) => \/ Create(h)
                      \/ /\ UNCHANGED member
                         /\ \/ UNCHANGED pot
                            \/ Govern(h) \/ Archive(h) \/ ArchiveDuePot(h) \/ WithdrawDirect(h) \/ PayApproved(h)
<1>1. ASSUME NEW h \in Handler, NEW u \in User, Calls(h, u) PROVE UNCHANGED <<pot, member>>
  BY <1>1 DEF Calls, InviteStart, WithdrawStart, DeleteStart, ReviewStart, DeleteReview, CancelStart, DueStart, rows
<1>2. ASSUME NEW h \in Handler, Steps(h), ~Create(h) PROVE UNCHANGED member
  BY <1>2 DEF Steps, Govern, InviteInsert, Drop, WithdrawDirect, AskWithdrawal, Reject, AddApproval, PayApproved,
     CloseApproved, DeleteInsert, RejectDeletion, ApproveDeletion, Schedule, Archive, Cancel,
     DueRead, ArchiveDuePot, ArchiveDueRequest, rows
<1>3. ASSUME NEW h \in Handler, Steps(h), ~Create(h),
             ~Govern(h) /\ ~Archive(h) /\ ~ArchiveDuePot(h) /\ ~WithdrawDirect(h) /\ ~PayApproved(h)
      PROVE  UNCHANGED pot
  BY <1>3 DEF Steps, InviteInsert, Drop, AskWithdrawal, Reject, AddApproval,
     CloseApproved, DeleteInsert, RejectDeletion, ApproveDeletion, Schedule, Cancel, DueRead, ArchiveDueRequest, rows
<1> QED BY <1>1, <1>2, <1>3

MemberType == [User -> [role : {"NONE", "OWNER", "MANAGER", "CONTRIBUTOR", "VIEWER"},
                        status : {"NONE", "ACTIVE", "REMOVED"}]]
MemberRows == member \in MemberType

\* Only these steps write a row of a member.
LEMMA WhoWritesMembers ==
    ASSUME [PotNext]_potVars
    PROVE  \/ UNCHANGED member
           \/ \E h \in Handler : Create(h)
           \/ \E i \in Invitation : Accept(i)
           \/ \E u, m \in User : RemoveMember(u, m)
<1>1. CASE \E h \in Handler : Steps(h) \/ \E u \in User : Calls(h, u)
  BY <1>1, Untouched
<1>2. CASE \E u \in Payer : Contribute(u)
  BY <1>2 DEF Contribute
<1>3. CASE \E i \in Invitation : Decline(i) \/ ListDue(i) \/ MarkExpired(i)
  BY <1>3 DEF Decline, ListDue, MarkExpired, rows
<1>4. CASE \E p \in Patches : Patch(p)
  BY <1>4 DEF Patch
<1>5. CASE UNCHANGED potVars
  BY <1>5 DEF potVars, rows
<1> QED BY <1>1, <1>2, <1>3, <1>4, <1>5 DEF PotNext

LEMMA MembersTyped == PotSpec => []MemberRows
<1>1. PotInit => MemberRows
  BY DEF PotInit, Stranger, MemberType, MemberRows
<1>2. ASSUME MemberRows, [PotNext]_potVars PROVE MemberRows'
  <2> USE DEF MemberRows
  <2>1. CASE UNCHANGED member
    BY <1>2, <2>1
  <2>2. CASE \E h \in Handler : Create(h)
    BY <1>2, <2>2, PotAssumption DEF Create, MemberType
  <2>3. CASE \E i \in Invitation : Accept(i)
    BY <1>2, <2>3, PotAssumption DEF Accept, MemberType
  <2>4. CASE \E u, m \in User : RemoveMember(u, m)
    BY <1>2, <2>4 DEF RemoveMember, MemberType
  <2> QED BY <1>2, <2>1, <2>2, <2>3, <2>4, WhoWritesMembers
<1> QED BY <1>1, <1>2, PTL DEF PotSpec

\* Members enter, and come back, only by an invitation that was open.
THEOREM EntryNeedsInvitation == PotSpec => EntryUsesInvitation
<1>1. ASSUME IInv, MemberRows, [PotNext]_potVars, NEW u \in User \ {Creator}, ~Active(u), Active(u)'
      PROVE  \E i \in Invitation : InviteOf[i].who = u /\ invite[i] = "PENDING" /\ invite'[i] = "ACCEPTED"
  <2>1. member' # member
    BY <1>1 DEF Active
  <2>2. \/ \E h \in Handler : Create(h)
        \/ \E i \in Invitation : Accept(i)
        \/ \E x, m \in User : RemoveMember(x, m)
    BY <1>1, <2>1, WhoWritesMembers
  <2>3. ~\E h \in Handler : Create(h)
    BY <1>1 DEF Create, Active, MemberType, MemberRows
  <2>4. ~\E x, m \in User : RemoveMember(x, m)
    BY <1>1 DEF RemoveMember, Active, MemberType, MemberRows
  <2>5. PICK i \in Invitation : Accept(i)
    BY <2>2, <2>3, <2>4
  <2>6. InviteOf[i].who = u
    BY <1>1, <2>5 DEF Accept, Active, MemberType, MemberRows
  <2>7. invite[i] = "PENDING" /\ invite'[i] = "ACCEPTED"
    BY <1>1, <2>5 DEF Accept, Open, IInv, Typed, InviteType
  <2> QED BY <2>6, <2>7
<1>2. IInv /\ MemberRows /\ [PotNext]_potVars =>
        [\A u \in User \ {Creator} : ~Active(u) /\ Active(u)' =>
            \E i \in Invitation : InviteOf[i].who = u /\ invite[i] = "PENDING" /\ invite'[i] = "ACCEPTED"]_potVars
  BY <1>1
<1> QED BY <1>2, Inductive, MembersTyped, PTL DEF PotSpec, EntryUsesInvitation

\* A pot that is not active keeps its money.
THEOREM FrozenKeepsMoney == PotSpec => FrozenPotKeepsMoney
<1>1. ASSUME IInv, [PotNext]_potVars, pot.status # "ACTIVE"
      PROVE  pot'.balance = pot.balance
  <2>0. pot \in PotType
    BY <1>1 DEF IInv, Typed
  <2>1. ~MayMove(Creator) /\ \A u : ~MayMove(u)
    BY <1>1 DEF MayMove
  <2>2. /\ \A u : ~Contribute(u)
        /\ \A u, r : ~Withdraw(u, r)
    BY <2>1 DEF Contribute, Withdraw
  <2>3. \A h \in Handler : ~WithdrawDirect(h) /\ ~PayApproved(h)
    BY <2>2 DEF WithdrawDirect, PayApproved
  <2>4. CASE UNCHANGED pot
    BY <2>4
  <2>5. CASE \E h \in Handler : Create(h) \/ Govern(h) \/ Archive(h) \/ ArchiveDuePot(h)
    BY <2>0, <2>5 DEF Create, Govern, Ruled, Archive, ArchiveDuePot, PotType
  <2>6. CASE \E p \in Patches : Patch(p)
    BY <2>0, <2>6 DEF Patch, Ruled, PotType
  <2>7. \/ UNCHANGED pot
        \/ \E h \in Handler : Create(h) \/ Govern(h) \/ Archive(h) \/ ArchiveDuePot(h)
        \/ \E p \in Patches : Patch(p)
    BY <1>1, <2>2, <2>3, Untouched DEF PotNext, Accept, Decline, ListDue, MarkExpired, RemoveMember, potVars, rows
  <2> QED BY <2>4, <2>5, <2>6, <2>7
<1>2. IInv /\ [PotNext]_potVars => [pot.status # "ACTIVE" => pot'.balance = pot.balance]_potVars
  BY <1>1
<1> QED BY <1>2, Inductive, PTL DEF PotSpec, FrozenPotKeepsMoney

=============================================================================
