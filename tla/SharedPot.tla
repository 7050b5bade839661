----------------------------- MODULE SharedPot -----------------------------
(***************************************************************************)
(* One shared pot ("Fungu"): its members and invitations, the money put in *)
(* and taken out, withdrawals that need the approval of other members, and *)
(* the request to archive it. Money moves in one database function; the    *)
(* rest of every handler is a sequence of reads and writes of single rows, *)
(* and two handlers, also of one user, may interleave between any two.     *)
(* All movements are of one unit of money.                                 *)
(***************************************************************************)
EXTENDS Naturals, Sequences, FiniteSets, Functions

CONSTANTS
    User,           \* everybody who calls the routes
    NoUser,         \* no user and no row
    Creator,        \* the user that creates the pot
    AccessModel,    \* "INVITE", "PRIVATE" or "ORG"
    OrgRole,        \* pot role a user derives from the organization, or "NONE"
    Archiver,       \* users whose org_role lets them run process-due
    Invitation,     \* invitations that may be sent
    InviteOf,       \* who each invitation is for, and the role it offers
    Purse,          \* money of each user at the start
    Handler,        \* requests that may be in progress at once
    Payer, Taker, Asker,    \* users that contribute, withdraw, ask to archive
    Patches,        \* what the owner may write into the pot
    MaxPatches,     \* bound on changes of the pot by its owner
    MaxCalls        \* bound on requests that are started

ASSUME PotAssumption ==
    /\ Creator \in User /\ Payer \subseteq User /\ NoUser \notin User \cup Invitation
    /\ InviteOf \in [Invitation -> [who : User \ {Creator}, role : {"MANAGER", "CONTRIBUTOR", "VIEWER"}]]
    /\ OrgRole \in [User -> {"NONE", "MANAGER", "SIGNATORY", "ACCOUNTANT", "VIEWER"}]
    /\ AccessModel \in {"INVITE", "PRIVATE", "ORG"}
    /\ Patches \subseteq [status : {"ACTIVE", "PAUSED", "ARCHIVED"}, need : 1..10,
                         policy : {"OWNER_ONLY", "OWNER_OR_MANAGER", "APPROVAL_REQUIRED"}]
    /\ Purse \in [User -> Nat] /\ IsFiniteSet(User) /\ MaxPatches \in Nat /\ MaxCalls \in Nat

VARIABLES
    pot,            \* the row of the pot
    member,         \* the member row of each user
    invite,         \* status of each invitation
    purse,          \* operating balance of each user
    posted,         \* transaction rows per reference
    wreq,           \* the withdrawal request of each user
    dreq,           \* the archive request of each user
    op,             \* what each handler read and has still to do
    endorsed,       \* who ever approved the withdrawal of each user
    due,            \* invitations that a listing read as pending and out of date
    patches, calls

rows == <<pot, member, invite, wreq, dreq>>
money == <<purse, posted>>
counts == <<patches, calls>>
potVars == <<rows, money, op, endorsed, due, counts>>

Manages == {"OWNER", "MANAGER"}
Reviews == {"OWNER", "MANAGER", "SIGNATORY"}
Pays == {"OWNER", "MANAGER", "CONTRIBUTOR"}

Ref == {"contribute", "direct", "approved"} \X User
Idle == [at |-> "idle", user |-> NoUser, of |-> NoUser, seen |-> <<>>, need |-> 0]
Stranger == [role |-> "NONE", status |-> "NONE"]
NoRequest == [status |-> "NONE", need |-> 0, yes |-> <<>>]

PotInit ==
    /\ pot = [status |-> "NONE", balance |-> 0, policy |-> "OWNER_OR_MANAGER", need |-> 1]
    /\ member = [u \in User |-> Stranger]
    /\ invite = [i \in Invitation |-> "NONE"]
    /\ purse = Purse
    /\ posted = [r \in Ref |-> 0]
    /\ wreq = [u \in User |-> NoRequest]
    /\ dreq = [u \in User |-> NoRequest]
    /\ op = [h \in Handler |-> Idle]
    /\ endorsed = [u \in User |-> {}]
    /\ due = {}
    /\ patches = 0 /\ calls = 0

Active(u) == member[u].status = "ACTIVE"
\* A member row counts first, then ownership, then the role in the organization.
Role(u) == CASE Active(u) -> member[u].role
             [] ~Active(u) /\ u = Creator -> "OWNER"
             [] OTHER -> IF AccessModel = "ORG" THEN OrgRole[u] ELSE "NONE"

Begin(h, at, u, x, seen) ==
    /\ op[h] = Idle /\ calls < MaxCalls
    /\ calls' = calls + 1
    /\ op' = [op EXCEPT ![h] = [at |-> at, user |-> u, of |-> x, seen |-> seen, need |-> pot.need]]
Doing(h, at) == op[h].at = at
GoTo(h, at) == op' = [op EXCEPT ![h].at = at]
End(h) == op' = [op EXCEPT ![h] = Idle]

\* A handler ends early: an error answer of the database, or the process stops.
Drop(h) ==
    /\ op[h] # Idle
    /\ End(h)
    /\ UNCHANGED <<rows, money, endorsed, due, counts>>

-----------------------------------------------------------------------------
(* The pot. *)

DefaultPolicy == CASE AccessModel = "ORG" -> "APPROVAL_REQUIRED"
                   [] AccessModel = "PRIVATE" -> "OWNER_ONLY"
                   [] OTHER -> "OWNER_OR_MANAGER"
DefaultNeed == IF AccessModel = "ORG" THEN 2 ELSE 1

\* The pot and its owner are created together, with the column defaults.
Create(h) ==
    /\ pot.status = "NONE"
    /\ Begin(h, "governing", Creator, NoUser, <<>>)
    /\ pot' = [pot EXCEPT !.status = "ACTIVE"]
    /\ member' = [member EXCEPT ![Creator] = [role |-> "OWNER", status |-> "ACTIVE"]]
    /\ UNCHANGED <<invite, wreq, dreq, money, endorsed, due, patches>>

Ruled(status, policy, need) ==
    pot' = [status |-> status, balance |-> pot.balance, policy |-> policy, need |-> need]

\* A second statement of the route writes the governance.
Govern(h) ==
    /\ Doing(h, "governing") /\ Ruled(pot.status, DefaultPolicy, DefaultNeed)
    /\ End(h)
    /\ UNCHANGED <<member, invite, wreq, dreq, money, endorsed, due, counts>>

\* The owner updates the status or the governance.
Patch(p) ==
    /\ pot.status # "NONE" /\ patches < MaxPatches
    /\ Ruled(p.status, p.policy, p.need)
    /\ patches' = patches + 1
    /\ UNCHANGED <<member, invite, wreq, dreq, money, op, endorsed, due, calls>>

-----------------------------------------------------------------------------
(* Members. *)

\* The route reads the member and the pending invitations, then inserts.
InviteStart(h, u, i) ==
    LET who == InviteOf[i].who IN
    /\ pot.status # "NONE" /\ Role(u) \in Manages /\ AccessModel # "PRIVATE"
    /\ AccessModel = "ORG" => OrgRole[who] # "NONE"
    /\ ~Active(who)
    /\ invite[i] = "NONE"
    /\ \A j \in Invitation : InviteOf[j].who = who => invite[j] # "PENDING"
    /\ Begin(h, "inviting", u, i, <<>>)
    /\ UNCHANGED <<rows, money, endorsed, due, patches>>

InviteInsert(h) ==
    /\ Doing(h, "inviting") /\ invite[op[h].of] = "NONE"
    /\ invite' = [invite EXCEPT ![op[h].of] = "PENDING"]
    /\ End(h)
    /\ UNCHANGED <<pot, member, wreq, dreq, money, endorsed, due, counts>>

\* Mutant: an invitation that was answered can be answered again.
OpenOnceSent(i) == invite[i] # "NONE"
\* Only a pending invitation has an effect; a replayed answer is returned as it is.
Open(i) == invite[i] = "PENDING"

Accept(i) ==
    /\ Open(i)
    /\ invite' = [invite EXCEPT ![i] = "ACCEPTED"]
    /\ member' = [member EXCEPT ![InviteOf[i].who] = [role |-> InviteOf[i].role, status |-> "ACTIVE"]]
    /\ UNCHANGED <<pot, wreq, dreq, money, op, endorsed, due, counts>>

\* An invitation out of date is refused: the function's own EXPIRED is undone by
\* the error that it raises.
Decline(i) ==
    /\ Open(i)
    /\ invite' = [invite EXCEPT ![i] = "REJECTED"]
    /\ UNCHANGED <<pot, member, wreq, dreq, money, op, endorsed, due, counts>>

\* The invited user lists the invitations; each one that was read as pending and
\* out of date is then marked by its id, whatever has become of it.
ListDue(i) ==
    /\ invite[i] = "PENDING"
    /\ due' = due \cup {i}
    /\ UNCHANGED <<rows, money, op, endorsed, counts>>

MarkExpired(i) ==
    /\ i \in due
    /\ invite' = [invite EXCEPT ![i] = "EXPIRED"]
    /\ due' = due \ {i}
    /\ UNCHANGED <<pot, member, wreq, dreq, money, op, endorsed, counts>>

RemoveMember(u, m) ==
    /\ Role(u) \in Manages /\ m \notin {u, Creator} /\ Active(m)
    /\ member' = [member EXCEPT ![m].status = "REMOVED"]
    /\ UNCHANGED <<pot, invite, wreq, dreq, money, op, endorsed, due, counts>>

-----------------------------------------------------------------------------
(* Money. *)

\* Mutant: the function trusts the status that the route has read.
MayMoveWhenRead(u) == Active(u) /\ member[u].role \in Pays
\* The functions lock the pot, then require an active pot and an active member.
MayMove(u) == pot.status = "ACTIVE" /\ Active(u) /\ member[u].role \in Pays

\* Mutant: the reference of a movement is not looked up.
NewWithoutLookup(r) == TRUE
New(r) == posted[r] = 0

Move(u, r, intoPot, intoPurse) ==
    /\ pot' = [pot EXCEPT !.balance = @ + intoPot - intoPurse]
    /\ purse' = [purse EXCEPT ![u] = @ + intoPurse - intoPot]
    /\ posted' = [posted EXCEPT ![r] = @ + 1]

Contribute(u) ==
    /\ MayMove(u) /\ New(<<"contribute", u>>) /\ purse[u] > 0
    /\ Move(u, <<"contribute", u>>, 1, 0)
    /\ UNCHANGED <<member, invite, wreq, dreq, op, endorsed, due, counts>>

Covered == pot.balance > 0

\* shared_pot_withdraw_v1: a known reference is answered without a movement.
Withdraw(u, r) ==
    /\ MayMove(u)
    /\ \/ New(r) /\ Covered /\ Move(u, r, 0, 1)
       \/ posted[r] > 0 /\ UNCHANGED <<pot, money>>

Direct(role) ==
    \/ pot.policy = "OWNER_ONLY" /\ role = "OWNER"
    \/ pot.policy = "OWNER_OR_MANAGER" /\ role \in Manages

\* The policy that was read decides between a withdrawal and a request for one.
WithdrawStart(h, u) ==
    /\ pot.status # "NONE" /\ Covered
    /\ \/ Direct(Role(u)) /\ Begin(h, "withdrawing", u, u, <<>>)
       \/ ~Direct(Role(u)) /\ Role(u) \in Pays /\ Begin(h, "asking", u, u, <<>>)
    /\ UNCHANGED <<rows, money, endorsed, due, patches>>

WithdrawDirect(h) ==
    /\ Doing(h, "withdrawing")
    /\ Withdraw(op[h].user, <<"direct", op[h].user>>)
    /\ End(h)
    /\ UNCHANGED <<member, invite, wreq, dreq, endorsed, due, counts>>

\* A request of this user with this key is returned instead of a second one.
AskWithdrawal(h) ==
    /\ Doing(h, "asking") /\ wreq[op[h].user].status = "NONE"
    /\ wreq' = [wreq EXCEPT ![op[h].user] = [status |-> "PENDING", need |-> op[h].need, yes |-> <<>>]]
    /\ End(h)
    /\ UNCHANGED <<pot, member, invite, dreq, money, endorsed, due, counts>>

-----------------------------------------------------------------------------
(* Approving a withdrawal: the request is read, and written later as a whole. *)

\* Mutant: the list of approvals is not searched for the reviewer.
MayReviewAgain(u, q) == Role(u) \in Reviews /\ u # q
MayReview(u, q) == Role(u) \in Reviews /\ u # q /\ u \notin Range(wreq[q].yes)

ReviewStart(h, u, q) ==
    /\ wreq[q].status = "PENDING" /\ MayReview(u, q)
    /\ Begin(h, "reviewing", u, q, wreq[q].yes)
    /\ UNCHANGED <<rows, money, endorsed, due, patches>>

Approvals(h) == Append(op[h].seen, op[h].user)
Write(table, h, status, yes) ==
    [table EXCEPT ![op[h].of] = [status |-> status, need |-> @.need, yes |-> yes]]
Keep(table, h) == table[op[h].of].status

Reject(h) ==
    /\ Doing(h, "reviewing")
    /\ wreq' = Write(wreq, h, "REJECTED", op[h].seen)
    /\ End(h)
    /\ UNCHANGED <<pot, member, invite, dreq, money, endorsed, due, counts>>

Enough(h) == Len(Approvals(h)) >= wreq[op[h].of].need

AddApproval(h) ==
    /\ Doing(h, "reviewing") /\ ~Enough(h)
    /\ wreq' = Write(wreq, h, Keep(wreq, h), Approvals(h))
    /\ endorsed' = [endorsed EXCEPT ![op[h].of] = @ \cup {op[h].user}]
    /\ End(h)
    /\ UNCHANGED <<pot, member, invite, dreq, money, due, counts>>

\* The last approval pays first and closes the request afterwards.
PayApproved(h) ==
    /\ Doing(h, "reviewing") /\ Enough(h)
    /\ Withdraw(op[h].of, <<"approved", op[h].of>>)
    /\ endorsed' = [endorsed EXCEPT ![op[h].of] = @ \cup {op[h].user}]
    /\ GoTo(h, "paid")
    /\ UNCHANGED <<member, invite, wreq, dreq, due, counts>>

\* Mutant: the request is closed before the money is moved.
ClosingEarly(h) == Doing(h, "paid") \/ (Doing(h, "reviewing") /\ Enough(h))
Closing(h) == Doing(h, "paid")

CloseApproved(h) ==
    /\ Closing(h)
    /\ wreq' = Write(wreq, h, "EXECUTED", Approvals(h))
    /\ End(h)
    /\ UNCHANGED <<pot, member, invite, dreq, money, endorsed, due, counts>>

-----------------------------------------------------------------------------
(* Archiving the pot. *)

Empty == pot.balance = 0
OpenDeletion(d) == dreq[d].status \in {"PENDING_APPROVAL", "SCHEDULED"}

\* The balance is read, the one-time code is verified, open requests are read.
DeleteStart(h, u) ==
    /\ pot.status # "NONE" /\ Role(u) \in Manages /\ Empty
    /\ \A d \in User : ~OpenDeletion(d)
    /\ Begin(h, "deleting", u, u, <<>>)
    /\ UNCHANGED <<rows, money, endorsed, due, patches>>

DeleteInsert(h) ==
    /\ Doing(h, "deleting")
    /\ dreq' = [dreq EXCEPT ![op[h].of] = [status |-> "PENDING_APPROVAL", need |-> 3, yes |-> <<>>]]
    /\ IF AccessModel = "ORG" THEN End(h) ELSE GoTo(h, "scheduling")
    /\ UNCHANGED <<pot, member, invite, wreq, money, endorsed, due, counts>>

DeleteReview(h, u, d) ==
    /\ dreq[d].status = "PENDING_APPROVAL" /\ Role(u) \in Manages /\ Empty
    /\ u \notin Range(dreq[d].yes)
    /\ Begin(h, "judging", u, d, dreq[d].yes)
    /\ UNCHANGED <<rows, money, endorsed, due, patches>>

RejectDeletion(h) ==
    /\ Doing(h, "judging")
    /\ dreq' = Write(dreq, h, "REJECTED", op[h].seen)
    /\ End(h)
    /\ UNCHANGED <<pot, member, invite, wreq, money, endorsed, due, counts>>

EnoughToDelete(h) == Len(Approvals(h)) >= dreq[op[h].of].need

ApproveDeletion(h) ==
    /\ Doing(h, "judging")
    /\ dreq' = Write(dreq, h, Keep(dreq, h), Approvals(h))
    /\ IF EnoughToDelete(h) THEN GoTo(h, "scheduling") ELSE End(h)
    /\ UNCHANGED <<pot, member, invite, wreq, money, endorsed, due, counts>>

\* scheduleSharedPotArchive writes the request, whatever became of it meanwhile, ...
Schedule(h) ==
    /\ Doing(h, "scheduling")
    /\ dreq' = [dreq EXCEPT ![op[h].of].status = "SCHEDULED"]
    /\ GoTo(h, "archiving")
    /\ UNCHANGED <<pot, member, invite, wreq, money, endorsed, due, counts>>

\* ... and archives the pot at once, the deadline notwithstanding.
Archive(h) ==
    /\ Doing(h, "archiving")
    /\ pot' = [pot EXCEPT !.status = "ARCHIVED"]
    /\ End(h)
    /\ UNCHANGED <<member, invite, wreq, dreq, money, endorsed, due, counts>>

CancelStart(h, u, d) ==
    /\ OpenDeletion(d) /\ Role(u) \in Manages
    /\ Begin(h, "cancelling", u, d, <<>>)
    /\ UNCHANGED <<rows, money, endorsed, due, patches>>

\* The cancellation writes the request and metadata of the pot, not its status.
Cancel(h) ==
    /\ Doing(h, "cancelling")
    /\ dreq' = [dreq EXCEPT ![op[h].of].status = "CANCELLED"]
    /\ End(h)
    /\ UNCHANGED <<pot, member, invite, wreq, money, endorsed, due, counts>>

\* process-due reads a request that is due and after it the pot.
DueStart(h, u, d) ==
    /\ u \in Archiver /\ dreq[d].status = "SCHEDULED"
    /\ Begin(h, "sweeping", u, d, <<>>)
    /\ UNCHANGED <<rows, money, endorsed, due, patches>>

DueRead(h) ==
    /\ Doing(h, "sweeping") /\ Empty
    /\ GoTo(h, "emptied")
    /\ UNCHANGED <<rows, money, endorsed, due, counts>>

\* The pot is written by its id, and an error of this statement is not looked at;
\* a run that stops here leaves a scheduled request, and the next one starts over.
ArchiveDuePot(h) ==
    /\ Doing(h, "emptied")
    /\ pot' \in {pot, [pot EXCEPT !.status = "ARCHIVED"]}
    /\ GoTo(h, "swept")
    /\ UNCHANGED <<member, invite, wreq, dreq, money, endorsed, due, counts>>

ArchiveDueRequest(h) ==
    /\ Doing(h, "swept")
    /\ dreq' = [dreq EXCEPT ![op[h].of].status = "ARCHIVED"]
    /\ End(h)
    /\ UNCHANGED <<pot, member, invite, wreq, money, endorsed, due, counts>>

-----------------------------------------------------------------------------
Steps(h) ==
    \/ Create(h) \/ Govern(h) \/ InviteInsert(h) \/ Drop(h)
    \/ WithdrawDirect(h) \/ AskWithdrawal(h)
    \/ Reject(h) \/ AddApproval(h) \/ PayApproved(h) \/ CloseApproved(h)
    \/ DeleteInsert(h) \/ RejectDeletion(h) \/ ApproveDeletion(h) \/ Schedule(h) \/ Archive(h)
    \/ Cancel(h) \/ DueRead(h) \/ ArchiveDuePot(h) \/ ArchiveDueRequest(h)

Calls(h, u) ==
    \/ \E i \in Invitation : InviteStart(h, u, i)
    \/ u \in Taker /\ WithdrawStart(h, u)
    \/ u \in Asker /\ DeleteStart(h, u)
    \/ \E x \in User : ReviewStart(h, u, x) \/ DeleteReview(h, u, x) \/ CancelStart(h, u, x) \/ DueStart(h, u, x)

PotNext ==
    \/ \E h \in Handler : Steps(h) \/ \E u \in User : Calls(h, u)
    \/ \E u \in Payer : Contribute(u)
    \/ \E i \in Invitation : Accept(i) \/ Decline(i) \/ ListDue(i) \/ MarkExpired(i)
    \/ \E u, m \in User : RemoveMember(u, m)
    \/ \E p \in Patches : Patch(p)

PotSpec == PotInit /\ [][PotNext]_potVars

-----------------------------------------------------------------------------
(* Properties. *)

\* Rows and handlers keep their shape; the pot and the purses never go below zero.
PotTypeOK ==
    /\ pot \in [status : {"NONE", "ACTIVE", "PAUSED", "ARCHIVED"}, balance : Nat,
                policy : {"OWNER_ONLY", "OWNER_OR_MANAGER", "APPROVAL_REQUIRED"}, need : Nat]
    /\ invite \in [Invitation -> {"NONE", "PENDING", "ACCEPTED", "REJECTED", "EXPIRED"}]
    /\ purse \in [User -> Nat] /\ posted \in [Ref -> Nat]
    /\ \A u \in User : wreq[u].status \in {"NONE", "PENDING", "REJECTED", "EXECUTED"}
    /\ \A u \in User : dreq[u].status \in
          {"NONE", "PENDING_APPROVAL", "SCHEDULED", "CANCELLED", "REJECTED", "ARCHIVED"}

\* An approved withdrawal was paid only after as many different members as the
\* request needs had approved it, the requester not among them, although
\* reviewers overwrite each other's list of approvals.
PaidByQuorum ==
    \A q \in User : posted[<<"approved", q>>] > 0 =>
        q \notin endorsed[q] /\ Cardinality(endorsed[q]) >= wreq[q].need

\* A reference moves money at most once: repeated calls, two reviewers that both
\* complete the quorum, and a reviewer that starts over after a crash included.
PostedOnce == \A r \in Ref : posted[r] <= 1

\* A request that says EXECUTED was paid.
ExecutedIsPaid == \A q \in User : wreq[q].status = "EXECUTED" => posted[<<"approved", q>>] = 1

\* Whoever becomes a member, for the first time or after a removal, uses up an
\* invitation that was still open; an old acceptance replayed opens nothing.
EntryUsesInvitation == [][
    \A u \in User \ {Creator} : ~Active(u) /\ Active(u)' =>
        \E i \in Invitation : InviteOf[i].who = u /\ invite[i] = "PENDING" /\ invite'[i] = "ACCEPTED"]_potVars

\* The money of a pot that is paused or archived stays where it is, also when a
\* handler that read the pot while it was active goes on.
FrozenPotKeepsMoney == [][pot.status # "ACTIVE" => pot'.balance = pot.balance]_potVars
=============================================================================
