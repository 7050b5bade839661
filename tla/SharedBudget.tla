---------------------------- MODULE SharedBudget ----------------------------
(***************************************************************************)
(* One shared budget ("Meza"): the money allocated to it, its members and  *)
(* their limits, spending with and without review. A withdrawal pays out   *)
(* of the budget in one database function. A payment to an outside         *)
(* provider is made by the payment engine from the spender's own wallet;   *)
(* the route then writes the spent amounts it has computed from the rows   *)
(* it read at the start.                                                   *)
(***************************************************************************)
EXTENDS Naturals, FiniteSets, FiniteSetsExt

CONSTANTS
    User,           \* everybody who calls the routes
    NoUser,         \* no user and no row
    Owner,          \* the user that creates the budget
    Invitation,     \* invitations that may be sent
    InviteOf,       \* for whom each invitation is, its role and its limit
    Spend,          \* idempotency keys of the clients
    SpendOf,        \* who spends under each key, how much and how
    Grant,          \* the amount that the owner may allocate, once
    Limit,          \* budget_limit
    Purse,          \* money of each user at the start
    Handler,        \* requests that may be in progress at once
    Patches,        \* status and approval mode that a manager may set
    MaxPatches,     \* bound on changes of the budget
    MaxLapses,      \* bound on payments under a key that the engine has forgotten
    MaxCalls        \* bound on requests that are started

NoLimit == 0

ASSUME BudgetAssumption ==
    /\ Owner \in User /\ NoUser \notin User
    /\ InviteOf \in [Invitation -> [who : User \ {Owner}, limit : Nat, role : {"MANAGER", "SPENDER", "VIEWER"}]]
    /\ SpendOf \in [Spend -> [who : User, amount : Nat \ {0}, kind : {"WITHDRAW", "EXTERNAL"}]]
    /\ Patches \subseteq [status : {"ACTIVE", "PAUSED", "ARCHIVED"}, mode : {"AUTO", "REVIEW"}]
    /\ Purse \in [User -> Nat] /\ Grant \in Nat \ {0} /\ Limit \in Nat
    /\ MaxPatches \in Nat /\ MaxLapses \in Nat /\ MaxCalls \in Nat

VARIABLES
    budget,         \* the row of the budget
    member,         \* the member row of each user
    invite,         \* status of each invitation
    approval,       \* the request for review that each key has led to
    purse,          \* operating balance of each user
    posted,         \* transaction rows per reference
    op,             \* what each handler read and has still to do
    due,            \* invitations that a listing read as pending and out of date
    patches, calls, lapses

rows == <<budget, member, invite, approval>>
money == <<purse, posted>>
counts == <<patches, calls, lapses>>
budgetVars == <<rows, money, op, due, counts>>

Manages == {"OWNER", "MANAGER"}
Spends == {"OWNER", "MANAGER", "SPENDER"}

Ref == {"direct", "approved"} \X Spend
Withdrawal == {r \in Ref : SpendOf[r[2]].kind = "WITHDRAW"}
Stranger == [role |-> "NONE", status |-> "NONE", limit |-> NoLimit, spent |-> 0]
NoApproval == [status |-> "NONE", reviewer |-> NoUser, leased |-> FALSE]
Idle == [at |-> "idle", user |-> NoUser, ref |-> <<"none", NoUser>>, funded |-> 0, spent |-> 0, seen |-> Stranger]

BudgetInit ==
    /\ budget = [status |-> "NONE", funded |-> 0, spent |-> 0, mode |-> "AUTO"]
    /\ member = [u \in User |-> Stranger]
    /\ invite = [i \in Invitation |-> "NONE"]
    /\ approval = [s \in Spend |-> NoApproval]
    /\ purse = Purse
    /\ posted = [r \in Ref |-> 0]
    /\ op = [h \in Handler |-> Idle]
    /\ due = {}
    /\ patches = 0 /\ calls = 0 /\ lapses = 0

Active(u) == member[u].status = "ACTIVE"
Is(u, roles) == Active(u) /\ member[u].role \in roles
Doing(h, at) == op[h].at = at
GoTo(h, at) == op' = [op EXCEPT ![h].at = at]
End(h) == op' = [op EXCEPT ![h] = Idle]
Key(h) == op[h].ref[2]
SpendBy(h) == SpendOf[Key(h)]
Approved(h) == op[h].ref[1] = "approved"

\* A handler ends: with its answer, with an error, or because the process stops.
Drop(h) ==
    /\ op[h] # Idle
    /\ End(h)
    /\ UNCHANGED <<rows, money, due, counts>>

-----------------------------------------------------------------------------
(* The budget and its members. *)

CreateBudget(mode) ==
    /\ budget.status = "NONE"
    /\ budget' = [budget EXCEPT !.status = "ACTIVE", !.mode = mode]
    /\ member' = [member EXCEPT ![Owner] = [Stranger EXCEPT !.role = "OWNER", !.status = "ACTIVE"]]
    /\ UNCHANGED <<invite, approval, money, op, due, counts>>

Patch(u, p) ==
    /\ Is(u, Manages) /\ patches < MaxPatches
    /\ budget' = [budget EXCEPT !.status = p.status, !.mode = p.mode]
    /\ patches' = patches + 1
    /\ UNCHANGED <<member, invite, approval, money, op, due, calls, lapses>>

\* The route looks for a member row and a pending invitation before it inserts
\* one; two managers at once may both have found nothing.
Invite(u, i) ==
    /\ Is(u, Manages) /\ invite[i] = "NONE"
    /\ invite' = [invite EXCEPT ![i] = "PENDING"]
    /\ UNCHANGED <<budget, member, approval, money, op, due, counts>>

\* Mutant: whoever comes back starts with a fresh allowance.
JoinedAfresh(i) == [role |-> InviteOf[i].role, status |-> "ACTIVE", limit |-> InviteOf[i].limit, spent |-> 0]
\* A row that exists keeps what was spent.
Joined(i) == [JoinedAfresh(i) EXCEPT !.spent = member[InviteOf[i].who].spent]

Accept(i) ==
    /\ invite[i] = "PENDING"
    /\ invite' = [invite EXCEPT ![i] = "ACCEPTED"]
    /\ member' = [member EXCEPT ![InviteOf[i].who] = Joined(i)]
    /\ UNCHANGED <<budget, approval, money, op, due, counts>>

\* An invitation out of date is refused: the function's own EXPIRED is undone by
\* the error that it raises.
Decline(i) ==
    /\ invite[i] = "PENDING"
    /\ invite' = [invite EXCEPT ![i] = "REJECTED"]
    /\ UNCHANGED <<budget, member, approval, money, op, due, counts>>

\* The invited user lists the invitations; each one that was read as pending and
\* out of date is then marked by its id, whatever has become of it.
ListDue(i) ==
    /\ invite[i] = "PENDING" /\ calls < MaxCalls
    /\ due' = due \cup {i}
    /\ calls' = calls + 1
    /\ UNCHANGED <<rows, money, op, patches, lapses>>

MarkExpired(i) ==
    /\ i \in due
    /\ invite' = [invite EXCEPT ![i] = "EXPIRED"]
    /\ due' = due \ {i}
    /\ UNCHANGED <<budget, member, approval, money, op, counts>>

RemoveMember(u, m) ==
    /\ Is(u, Manages) /\ Active(m) /\ m \notin {u, Owner}
    /\ member' = [member EXCEPT ![m].status = "REMOVED"]
    /\ UNCHANGED <<budget, invite, approval, money, op, due, counts>>

Allocatable(u) == budget.funded + Grant <= Limit /\ purse[u] >= Grant

\* shared_budget_allocate_v1, under one reference: once the budget is funded
\* the reference is known, and answered without a movement.
Allocate(u) ==
    /\ Is(u, Manages) /\ budget.status = "ACTIVE"
    /\ budget.funded = 0
    /\ Allocatable(u)
    /\ budget' = [budget EXCEPT !.funded = @ + Grant]
    /\ purse' = [purse EXCEPT ![u] = @ - Grant]
    /\ UNCHANGED <<member, invite, approval, posted, op, due, counts>>

-----------------------------------------------------------------------------
(* Spending. *)

\* What the route and the executor compare, on the rows as they were read.
Affordable(amount, funded, spent, m) ==
    /\ spent + amount <= Limit /\ spent + amount <= funded
    /\ m.limit = NoLimit \/ m.spent + amount <= m.limit

Begin(h, at, u, ref, m) ==
    /\ op[h] = Idle /\ calls < MaxCalls
    /\ calls' = calls + 1
    /\ op' = [op EXCEPT ![h] = [at |-> at, user |-> u, ref |-> ref, seen |-> m,
                               funded |-> budget.funded, spent |-> budget.spent]]

\* spend/settle reads the budget and the member; the mode decides what follows.
SpendStart(h, s) ==
    LET u == SpendOf[s].who IN
    /\ Is(u, Spends)
    /\ Affordable(SpendOf[s].amount, budget.funded, budget.spent, member[u])
    /\ Begin(h, IF budget.mode = "REVIEW" THEN "requesting" ELSE "executing", u, <<"direct", s>>, member[u])
    /\ UNCHANGED <<rows, money, due, patches, lapses>>

\* Mutant: the function trusts the member and the status that the route has read.
MayWithdrawWhenRead(u) == TRUE
\* shared_budget_withdraw_v1 locks the budget and the member.
MayWithdraw(u) == budget.status = "ACTIVE" /\ Is(u, Spends)

\* Mutant: the funds are those that the route has read.
FundedWhenRead(u, amount) == TRUE
Funded(u, amount) ==
    /\ budget.spent + amount <= budget.funded
    /\ member[u].limit = NoLimit \/ member[u].spent + amount <= member[u].limit

\* Mutant: the reference is not looked up.
NewWithoutLookup(r) == TRUE
New(r) == posted[r] = 0

Withdraw(h) ==
    LET u == SpendBy(h).who IN
    LET amount == SpendBy(h).amount IN
    /\ Doing(h, "executing") /\ SpendBy(h).kind = "WITHDRAW"
    /\ MayWithdraw(u)
    /\ \/ /\ New(op[h].ref) /\ Funded(u, amount)
          /\ budget' = [budget EXCEPT !.spent = @ + amount]
          /\ member' = [member EXCEPT ![u].spent = @ + amount]
          /\ purse' = [purse EXCEPT ![u] = @ + amount]
          /\ posted' = [posted EXCEPT ![op[h].ref] = @ + 1]
       \/ posted[op[h].ref] > 0 /\ UNCHANGED <<budget, member, money>>
    /\ GoTo(h, "done")
    /\ UNCHANGED <<invite, approval, due, counts>>

\* processSecurePayment: a key it knows is answered with the response it had. The
\* engine clears a key after an error that may pass, and goes on when it finds no
\* row: it may then pay again what it has paid. (Payments models how.)
PayOutside(h) ==
    LET u == SpendBy(h).who IN
    LET known == posted[op[h].ref] > 0 IN
    /\ Doing(h, "executing") /\ SpendBy(h).kind = "EXTERNAL"
    /\ \/ /\ known => lapses < MaxLapses
          /\ purse[u] >= SpendBy(h).amount
          /\ purse' = [purse EXCEPT ![u] = @ - SpendBy(h).amount]
          /\ posted' = [posted EXCEPT ![op[h].ref] = @ + 1]
          /\ lapses' = IF known THEN lapses + 1 ELSE lapses
       \/ known /\ UNCHANGED <<money, lapses>>
    /\ GoTo(h, "paid")
    /\ UNCHANGED <<rows, due, patches, calls>>

WriteBudget(h) ==
    /\ Doing(h, "paid")
    /\ budget' = [budget EXCEPT !.spent = op[h].spent + SpendBy(h).amount]
    /\ GoTo(h, "counted")
    /\ UNCHANGED <<member, invite, approval, money, due, counts>>

\* The member row is replaced by the one read at the start, with the new amount.
WriteMember(h) ==
    /\ Doing(h, "counted")
    /\ member' = [member EXCEPT ![SpendBy(h).who] = [op[h].seen EXCEPT !.spent = @ + SpendBy(h).amount]]
    /\ GoTo(h, "done")
    /\ UNCHANGED <<budget, invite, approval, money, due, counts>>

-----------------------------------------------------------------------------
(* Review. *)

Reserved(who) ==
    SumFunctionOnSet([s \in Spend |-> SpendOf[s].amount],
        {s \in Spend : SpendOf[s].who \in who /\ approval[s].status \in {"PENDING", "PROCESSING"}})

\* request_shared_budget_approval_v1; a request that exists is returned.
RequestApproval(h) ==
    LET u == SpendBy(h).who IN
    LET amount == SpendBy(h).amount IN
    /\ Doing(h, "requesting")
    /\ budget.status = "ACTIVE" /\ budget.mode = "REVIEW" /\ Is(u, Spends)
    /\ approval[Key(h)] = NoApproval
    /\ budget.spent + Reserved(User) + amount <= budget.funded
    /\ member[u].limit = NoLimit \/ member[u].spent + Reserved({u}) + amount <= member[u].limit
    /\ approval' = [approval EXCEPT ![Key(h)].status = "PENDING"]
    /\ End(h)
    /\ UNCHANGED <<budget, member, invite, money, due, counts>>

\* The reviewer's call reads the budget first and claims the request afterwards.
ReviewStart(h, u, s) ==
    /\ approval[s] # NoApproval /\ Is(u, Manages)
    /\ Begin(h, "reviewing", u, <<"approved", s>>, Stranger)
    /\ UNCHANGED <<rows, money, due, patches, lapses>>

\* The maker of a request is not its checker.
MayDecide(h) ==
    /\ Doing(h, "reviewing") /\ Is(op[h].user, Manages)
    /\ op[h].user # SpendBy(h).who

\* Mutant: a request that is being paid may be rejected.
RejectableWhilePaid(s) == approval[s].status \in {"PENDING", "PROCESSING"}
Rejectable(s) == approval[s].status = "PENDING"

Reject(h) ==
    /\ MayDecide(h) /\ Rejectable(Key(h))
    /\ approval' = [approval EXCEPT ![Key(h)] = [status |-> "REJECTED", reviewer |-> op[h].user, leased |-> FALSE]]
    /\ End(h)
    /\ UNCHANGED <<budget, member, invite, money, due, counts>>

Claim(h) ==
    LET a == approval[Key(h)] IN
    /\ MayDecide(h)
    /\ a.status \in {"PENDING", "PROCESSING", "FAILED"} /\ ~a.leased
    /\ approval' = [approval EXCEPT ![Key(h)] = [status |-> "PROCESSING", reviewer |-> op[h].user, leased |-> TRUE]]
    /\ GoTo(h, "claimed")
    /\ UNCHANGED <<budget, member, invite, money, due, counts>>

\* Fifteen minutes have passed since the claim.
LeaseEnds(s) ==
    /\ approval[s].leased
    /\ approval' = [approval EXCEPT ![s].leased = FALSE]
    /\ UNCHANGED <<budget, member, invite, money, op, due, counts>>

\* The requester's member row is read; the budget is the one of ReviewStart.
ExecuteApproved(h) ==
    LET m == member[SpendBy(h).who] IN
    /\ Doing(h, "claimed") /\ Active(SpendBy(h).who)
    /\ Affordable(SpendBy(h).amount, op[h].funded, op[h].spent, m)
    /\ op' = [op EXCEPT ![h].at = "executing", ![h].seen = m]
    /\ UNCHANGED <<rows, money, due, counts>>

Holds(h) == approval[Key(h)].status = "PROCESSING" /\ approval[Key(h)].reviewer = op[h].user

Close(h, status) ==
    /\ approval' = IF Holds(h) THEN [approval EXCEPT ![Key(h)].status = status, ![Key(h)].leased = FALSE]
                   ELSE approval
    /\ End(h)
    /\ UNCHANGED <<budget, member, invite, money, due, counts>>

\* Mutant: the request is marked before the money is moved.
ClosingEarly(h) == Approved(h) /\ op[h].at \in {"executing", "done"}
Closing(h) == Approved(h) /\ Doing(h, "done")

FinishApproved(h) == Closing(h) /\ Close(h, "APPROVED")

\* The executor refuses, or one of its calls answers with an error.
FinishFailed(h) ==
    /\ op[h] # Idle /\ Approved(h) /\ op[h].at \in {"claimed", "executing", "paid", "counted", "done"}
    /\ Close(h, "FAILED")

-----------------------------------------------------------------------------
Steps(h) ==
    \/ Drop(h) \/ Withdraw(h) \/ PayOutside(h) \/ WriteBudget(h) \/ WriteMember(h)
    \/ RequestApproval(h) \/ Reject(h) \/ Claim(h) \/ ExecuteApproved(h) \/ FinishApproved(h) \/ FinishFailed(h)

BudgetNext ==
    \/ \E mode \in {"AUTO", "REVIEW"} : CreateBudget(mode)
    \/ \E u \in User : Allocate(u)
    \/ \E u \in User, p \in Patches : Patch(u, p)
    \/ \E u, m \in User : RemoveMember(u, m)
    \/ \E u \in User, i \in Invitation : Invite(u, i)
    \/ \E i \in Invitation : Accept(i) \/ Decline(i) \/ ListDue(i) \/ MarkExpired(i)
    \/ \E s \in Spend : LeaseEnds(s)
    \/ \E h \in Handler :
         \/ Steps(h)
         \/ \E s \in Spend : SpendStart(h, s) \/ \E u \in User : ReviewStart(h, u, s)

BudgetSpec == BudgetInit /\ [][BudgetNext]_budgetVars

-----------------------------------------------------------------------------
(* Properties. *)

\* The budget pays each reference of a withdrawal at most once, by whichever
\* handler and however often a client or a second reviewer repeats it. (A payment
\* to the outside may be made twice.)
SpentOnce == \A r \in Withdrawal : posted[r] <= 1

\* A reviewed spend is paid only after a member other than the requester claimed
\* it, and such a request is never answered with a rejection.
PaidAfterClaim == \A s \in Spend : posted[<<"approved", s>>] > 0 =>
    /\ approval[s].reviewer \notin {NoUser, SpendOf[s].who}
    /\ approval[s].status \in {"PROCESSING", "APPROVED", "FAILED"}

\* A request that says APPROVED was paid, although a reviewer may lose the claim
\* to a second one while the payment is under way.
ApprovedIsPaid == \A s \in Spend : approval[s].status = "APPROVED" => posted[<<"approved", s>>] > 0

\* What was paid under the references of R.
PaidOut(R) == SumFunctionOnSet([r \in Ref |-> SpendOf[r[2]].amount], {r \in R : posted[r] > 0})

\* As long as nobody paid an outside provider, the budget has spent exactly what
\* was withdrawn from it and never more than was allocated to it.
SpentIsWithdrawn ==
    (\A r \in Ref \ Withdrawal : posted[r] = 0) =>
        budget.spent = PaidOut(Withdrawal) /\ budget.spent <= budget.funded

\* As long as nobody paid an outside provider, a member who is removed and
\* invited again cannot withdraw more than the largest limit ever offered.
LimitSurvivesRemoval ==
    (\A r \in Ref \ Withdrawal : posted[r] = 0) =>
        \A u \in User \ {Owner} :
            LET Offers == {InviteOf[i].limit : i \in {j \in Invitation : InviteOf[j].who = u}} IN
            (Offers # {} /\ NoLimit \notin Offers) =>
                PaidOut({r \in Withdrawal : SpendOf[r[2]].who = u}) <= Max(Offers)

\* Money leaves the budget only while it is active, and only to a member who is
\* active at that moment, whatever the handler read before.
StoppedPaysNobody == [][
    \A r \in Withdrawal : posted[r] # posted'[r] =>
        budget.status = "ACTIVE" /\ Active(SpendOf[r[2]].who)]_budgetVars

=============================================================================
