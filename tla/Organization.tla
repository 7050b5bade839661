---------------------------- MODULE Organization ----------------------------
(***************************************************************************)
(* Governance of one organization: who belongs to it and with which role,  *)
(* who is its primary administrator, and who may approve withdrawals from  *)
(* its treasury. Every change is a request of one person that others       *)
(* answer. A request is a row with a status PENDING (COOLING for the two   *)
(* cases); the rows that are still open are the members of `open`. Each    *)
(* database function locks the row it answers and is one action, except    *)
(* the removal of an approver, which counts the roster in one statement    *)
(* and changes it in a later one without a lock on either.                 *)
(***************************************************************************)
EXTENDS Integers, FiniteSets

CONSTANTS
    User,           \* the people that are or may become members
    Super,          \* the super administrators, some of them perhaps members
    Contact,        \* people outside that may become recovery contacts
    Verified,       \* the contacts that are verified at the start
    NoOne,          \* nobody
    InitRole,       \* the roles at the start, "NONE" for outsiders
    Founder,        \* the primary administrator at the start
    InitRoster,     \* the treasury approvers at the start
    Assignable,     \* the unprivileged roles in use
    MaxRequests     \* bound on requests and policy changes

Role == {"NONE", "MEMBER", "MANAGER", "ACCOUNTANT", "SIGNATORY", "FINANCE", "ADMIN"}

ASSUME RoleAssumption ==
    /\ InitRole \in [User -> Role] /\ Assignable \subseteq {"MEMBER", "MANAGER", "ACCOUNTANT"}
    /\ Founder \in User /\ InitRole[Founder] = "ADMIN"
    /\ InitRoster \subseteq {u \in User : InitRole[u] \in {"ADMIN", "FINANCE"}}
    /\ Cardinality(InitRoster) >= 2
ASSUME PeopleAssumption ==
    /\ IsFiniteSet(User) /\ Verified \subseteq Contact
    /\ NoOne \notin User
ASSUME RequestsAssumption == MaxRequests \in Nat

VARIABLES
    role,           \* users.org_role, "NONE" for a user of no organization
    active,         \* the users with account_status ACTIVE
    held,           \* the users suspended with reason ORG_RECOVERY_HOLD
    primary,        \* organizations.primary_admin_user_id
    roster,         \* treasury_approvers with status ACTIVE
    quorum,         \* min_approvals of the active treasury policy
    contact,        \* the row of each recovery contact
    open,           \* the open requests and cases
    made,           \* requests made so far
    decided,        \* who asked for and who granted the last change
    recovered       \* a recovery was executed

people == <<role, active, held, primary>>
treasury == <<roster, quorum>>
ghosts == <<decided, recovered>>
vars == <<people, treasury, contact, open, made, ghosts>>

Kind == {"invitation", "member", "leadership", "approver", "recovery", "reactivation"}
Request ==
    [kind : Kind, target : User, action : {"JOIN", "CHANGE_ROLE", "REMOVE_MEMBER", "ADD_ADMIN",
        "REMOVE_ADMIN", "TRANSFER_PRIMARY_ADMIN", "ADD", "REMOVE", "RECOVER", "REACTIVATE"},
     by : User, to : Role \cup User, need : 0..2, yes : SUBSET (User \cup Super),
     phase : {"open", "cooled", "counted", "expired"}]

ContactRow == [status : {"none", "PENDING", "VERIFIED", "REVOKED"},
               by : User \cup {NoOne}, revoker : User \cup {NoOne}]

Init ==
    /\ role = InitRole
    /\ active = User
    /\ held = {}
    /\ primary = Founder
    /\ roster = InitRoster
    /\ quorum = 2
    /\ contact = [c \in Contact |-> IF c \in Verified
                     THEN [status |-> "VERIFIED", by |-> Founder, revoker |-> NoOne]
                     ELSE [status |-> "none", by |-> NoOne, revoker |-> NoOne]]
    /\ open = {}
    /\ made = 0
    /\ decided = [target |-> NoOne, by |-> NoOne, yes |-> {}]
    /\ recovered = FALSE

-----------------------------------------------------------------------------
(* Who may do what. *)

Member(u) == u \in active /\ role[u] # "NONE"
Admin(u) == u \in active /\ role[u] = "ADMIN"
Leader(u) == u \in active /\ role[u] \in {"ADMIN", "SIGNATORY"}
Eligible == {u \in roster : u \in active /\ role[u] \in {"ADMIN", "FINANCE"}}

\* Mutant: the one who asked may answer.
IndependentOfTarget(q, u) == u # q.target
\* The one who answers is neither the one who asked nor the one it is about.
Independent(q, u) == u \notin {q.by, q.target}
\* A super administrator must be active too, where the organization can suspend it.
ActiveSuper(s) == s \in Super /\ (s \in User => s \in active)

\* A regular member change must not touch them.
Protected(t) == primary = t \/ role[t] \in {"ADMIN", "SIGNATORY"} \/ t \in roster

Verifieds == {c \in Contact : contact[c].status = "VERIFIED"}

-----------------------------------------------------------------------------
(* The life of a request. *)

\* One open request of a kind for a target; one open recovery in all.
Ask(kind, t, action, a, to, need) ==
    /\ made < MaxRequests
    /\ \A q \in open : q.kind = kind => (q.target # t /\ kind # "recovery")
    /\ made' = made + 1
    /\ open' = open \cup {[kind |-> kind, target |-> t, action |-> action, by |-> a, to |-> to,
                           need |-> need, yes |-> {}, phase |-> "open"]}

Close(q) == open' = open \ {q}

Grant(q, reviewers) ==
    /\ Close(q)
    /\ decided' = [target |-> q.target, by |-> q.by, yes |-> reviewers]

\* A refusal closes the request; no exception is raised.
Refuse(q, u) ==
    /\ Close(q)
    /\ UNCHANGED <<people, treasury, contact, made, ghosts>>

\* Past expires_at whoever answers finds it EXPIRED, and so does the next request
\* for the same target. Only the answer to an approver request raises an
\* exception right after the update, which undoes it: that row stays PENDING.
Expire(q) ==
    /\ q.phase \in {"open", "cooled"}
    /\ open' = IF q.kind = "approver"
                 THEN (open \ {q}) \cup {[q EXCEPT !.phase = "expired"]}
                 ELSE open \ {q}
    /\ UNCHANGED <<people, treasury, contact, made, ghosts>>

\* cooling_until of a recovery or reactivation case passes.
CoolDown(q) ==
    /\ q.kind \in {"recovery", "reactivation"} /\ q.phase = "open"
    /\ open' = (open \ {q}) \cup {[q EXCEPT !.phase = "cooled"]}
    /\ UNCHANGED <<people, treasury, contact, made, ghosts>>

-----------------------------------------------------------------------------
(* Invitations. *)

Invitable(a, t) == Admin(a) /\ t \in active /\ role[t] = "NONE" /\ a # t

Invite(a, t, r) ==
    /\ Invitable(a, t)
    /\ Ask("invitation", t, "JOIN", a, r, 0)
    /\ UNCHANGED <<people, treasury, contact, ghosts>>

AcceptInvitation(q) ==
    /\ q.kind = "invitation"
    /\ q.target \in active /\ role[q.target] = "NONE"
    /\ role' = [role EXCEPT ![q.target] = q.to]
    /\ Close(q)
    /\ UNCHANGED <<active, held, primary, treasury, contact, made, ghosts>>

DeclineInvitation(q) == q.kind = "invitation" /\ q.target \in active /\ Refuse(q, q.target)

-----------------------------------------------------------------------------
(* Members without privileges. *)

MemberChangeable(a, t, action, r) ==
    /\ Admin(a) /\ Member(t) /\ a # t
    /\ ~Protected(t)
    /\ action = "CHANGE_ROLE" => r # role[t]

RequestMemberChange(a, t, action, r) ==
    /\ MemberChangeable(a, t, action, r)
    /\ Ask("member", t, action, a, r, 1)
    /\ UNCHANGED <<people, treasury, contact, ghosts>>

ReviewsMember(q, u) == q.kind = "member" /\ Admin(u) /\ Independent(q, u)

\* Mutant: what protected the target is not looked at again.
GrantableOnce(q) == role[q.target] # "NONE"
\* The target is still a member, and still unprotected.
Grantable(q) == role[q.target] # "NONE" /\ ~Protected(q.target)

GrantMemberChange(q, u) ==
    /\ ReviewsMember(q, u)
    /\ Grantable(q)
    /\ role' = [role EXCEPT ![q.target] = IF q.action = "CHANGE_ROLE" THEN q.to ELSE "NONE"]
    /\ Grant(q, {u})
    /\ UNCHANGED <<active, held, primary, treasury, contact, made, recovered>>

RefuseMemberChange(q, u) == ReviewsMember(q, u) /\ Refuse(q, u)

-----------------------------------------------------------------------------
(* Administrators and the primary administrator. *)

Reviewers(a, t) == {u \in User : Leader(u)} \ {a, t}

Needed(a, t) == IF Cardinality(Reviewers(a, t)) > 1 THEN 2 ELSE 1

LeadershipChangeable(a, t, action) ==
    /\ Admin(a) /\ Member(t) /\ a # t
    /\ action = "ADD_ADMIN" => role[t] # "ADMIN"
    /\ action # "ADD_ADMIN" => role[t] = "ADMIN"
    /\ action = "REMOVE_ADMIN" => primary # t /\ t \notin roster
    /\ Reviewers(a, t) # {}

RequestLeadershipChange(a, t, action, r) ==
    /\ LeadershipChangeable(a, t, action)
    /\ Ask("leadership", t, action, a, r, Needed(a, t))
    /\ UNCHANGED <<people, treasury, contact, ghosts>>

ReviewsLeadership(q, u) ==
    q.kind = "leadership" /\ Leader(u) /\ Independent(q, u) /\ u \notin q.yes

\* An approval short of the quorum.
Endorse(q, u) ==
    /\ ReviewsLeadership(q, u)
    /\ Cardinality(q.yes) + 1 < q.need
    /\ open' = (open \ {q}) \cup {[q EXCEPT !.yes = @ \cup {u}]}
    /\ UNCHANGED <<people, treasury, contact, made, ghosts>>

\* The last approval executes the change if it is still in order.
Executable(q) ==
    /\ Member(q.target)
    /\ q.action = "REMOVE_ADMIN" =>
        primary # q.target /\ q.target \notin roster /\ Cardinality({u \in User : Admin(u)}) > 1
    /\ q.action = "TRANSFER_PRIMARY_ADMIN" => role[q.target] = "ADMIN"

ExecuteLeadershipChange(q, u) ==
    /\ ReviewsLeadership(q, u)
    /\ Cardinality(q.yes) + 1 >= q.need
    /\ Executable(q)
    /\ primary' = IF q.action = "TRANSFER_PRIMARY_ADMIN" THEN q.target ELSE primary
    /\ role' = CASE q.action = "ADD_ADMIN" -> [role EXCEPT ![q.target] = "ADMIN"]
                 [] q.action = "REMOVE_ADMIN" -> [role EXCEPT ![q.target] = q.to]
                 [] OTHER -> role
    /\ Grant(q, q.yes \cup {u})
    /\ UNCHANGED <<active, held, treasury, contact, made, recovered>>

RefuseLeadershipChange(q, u) == ReviewsLeadership(q, u) /\ Refuse(q, u)

-----------------------------------------------------------------------------
(* The approvers of the treasury and their quorum. *)

ApproverChangeable(a, t, action) ==
    /\ Admin(a) /\ t \in active /\ role[t] \in {"ADMIN", "FINANCE"}
    /\ (action = "ADD") = (t \notin roster)

RequestApproverChange(a, t, action) ==
    /\ ApproverChangeable(a, t, action)
    /\ Ask("approver", t, action, a, "NONE", 1)
    /\ UNCHANGED <<people, treasury, contact, ghosts>>

ReviewsApprover(q, u) ==
    q.kind = "approver" /\ q.phase = "open" /\ Admin(u) /\ u \in roster /\ Independent(q, u)

AddApprover(q, u) ==
    /\ ReviewsApprover(q, u) /\ q.action = "ADD"
    /\ roster' = roster \cup {q.target}
    /\ Grant(q, {u})
    /\ UNCHANGED <<people, quorum, contact, made, recovered>>

\* The statement that counts the roster ...
CountApprovers(q, u) ==
    /\ ReviewsApprover(q, u) /\ q.action = "REMOVE"
    /\ Cardinality(roster) - 1 >= quorum
    /\ open' = (open \ {q}) \cup {[[q EXCEPT !.phase = "counted"] EXCEPT !.yes = {u}]}
    /\ UNCHANGED <<people, treasury, contact, made, ghosts>>

\* ... and the one that removes the approver.
RemoveApprover(q) ==
    /\ q.phase = "counted"
    /\ roster' = roster \ {q.target}
    /\ Grant(q, q.yes)
    /\ UNCHANGED <<people, quorum, contact, made, recovered>>

RefuseApproverChange(q, u) == ReviewsApprover(q, u) /\ Refuse(q, u)

\* upsert_treasury_policy_v1: the quorum must be within reach.
SetQuorum(a, n) ==
    /\ Admin(a)
    /\ made < MaxRequests /\ made' = made + 1
    /\ n >= 2 /\ n <= Cardinality(Eligible)
    /\ quorum' = n
    /\ UNCHANGED <<people, roster, contact, open, ghosts>>

-----------------------------------------------------------------------------
(* Recovery contacts. *)

\* request_organization_recovery_contact_v1. A revoked contact can come back with
\* another type of contact.
EnrolContact(a, c) ==
    /\ a = primary /\ Member(a)
    /\ contact[c].status \in {"none", "REVOKED"}
    /\ made < MaxRequests /\ made' = made + 1
    /\ contact' = [contact EXCEPT ![c] = [status |-> "PENDING", by |-> a, revoker |-> NoOne]]
    /\ UNCHANGED <<people, treasury, open, ghosts>>

\* A later primary administrator that asks again takes the place of the first.
AskRevocation(a, c) ==
    /\ a = primary /\ a \in active
    /\ contact[c].status = "VERIFIED"
    /\ made < MaxRequests /\ made' = made + 1
    /\ contact' = [contact EXCEPT ![c].revoker = a]
    /\ UNCHANGED <<people, treasury, open, ghosts>>

\* Neither the contact nor who asked for it or for its revocation reviews it.
ReviewContact(s, c, verdict) ==
    /\ ActiveSuper(s) /\ s \notin {c, contact[c].by, contact[c].revoker}
    /\ \/ contact[c].status = "PENDING" /\ verdict \in {"VERIFIED", "REVOKED"}
       \/ contact[c].status = "VERIFIED" /\ contact[c].revoker # NoOne /\ verdict = "REVOKED"
    /\ contact' = [contact EXCEPT ![c].status = verdict]
    /\ UNCHANGED <<people, treasury, open, made, ghosts>>

-----------------------------------------------------------------------------
(* Recovery from a lost primary administrator, and the way back. *)

Recoverable(a, b) ==
    /\ Leader(a) /\ Admin(b)
    /\ a \notin {primary, b}
    /\ Cardinality(Verifieds) >= 2

RequestRecovery(a, b) ==
    /\ Recoverable(a, b)
    /\ Ask("recovery", primary, "RECOVER", a, b, 1)
    /\ UNCHANGED <<people, treasury, contact, ghosts>>

\* The treasury keeps its quorum without the old primary administrator.
QuorumWithout(t) ==
    t \in roster => Cardinality((roster \ {t}) \cap active) >= quorum

\* Nobody the case names reviews it.
ReviewsRecovery(q, s) ==
    q.kind = "recovery" /\ ActiveSuper(s) /\ Independent(q, s) /\ s # q.to

\* The role of the beneficiary is not read again.
ExecuteRecovery(q, s) ==
    /\ ReviewsRecovery(q, s) /\ q.phase = "cooled"
    /\ primary = q.target
    /\ QuorumWithout(q.target)
    /\ active' = active \ {q.target}
    /\ held' = held \cup {q.target}
    /\ primary' = q.to
    /\ recovered' = TRUE
    /\ Grant(q, {s})
    /\ UNCHANGED <<role, treasury, contact, made>>

RefuseRecovery(q, s) == ReviewsRecovery(q, s) /\ Refuse(q, s)

RequestReactivation(a, t) ==
    /\ a = primary /\ Member(a)
    /\ t \in held /\ role[t] # "NONE"
    /\ Ask("reactivation", t, "REACTIVATE", a, "MEMBER", 1)
    /\ UNCHANGED <<people, treasury, contact, ghosts>>

\* Mutant: the user comes back with the role it had.
RestoredRoleKept(q) == role[q.target]
RestoredRole(q) == "MEMBER"

ReviewsReactivation(q, s) == q.kind = "reactivation" /\ ActiveSuper(s) /\ Independent(q, s)

ExecuteReactivation(q, s) ==
    /\ ReviewsReactivation(q, s) /\ q.phase = "cooled"
    /\ primary = q.by
    /\ q.target \in held
    /\ active' = active \cup {q.target}
    /\ held' = held \ {q.target}
    /\ role' = [role EXCEPT ![q.target] = RestoredRole(q)]
    /\ Grant(q, {s})
    /\ UNCHANGED <<primary, treasury, contact, made, recovered>>

RefuseReactivation(q, s) == ReviewsReactivation(q, s) /\ Refuse(q, s)

-----------------------------------------------------------------------------
Requests ==
    \E a, t \in User :
        \/ \E r \in Assignable : Invite(a, t, r)
        \/ \E r \in Assignable : RequestMemberChange(a, t, "CHANGE_ROLE", r)
        \/ RequestMemberChange(a, t, "REMOVE_MEMBER", "NONE")
        \/ \E r \in Assignable : RequestLeadershipChange(a, t, "REMOVE_ADMIN", r)
        \/ RequestLeadershipChange(a, t, "ADD_ADMIN", "ADMIN")
        \/ RequestLeadershipChange(a, t, "TRANSFER_PRIMARY_ADMIN", "ADMIN")
        \/ \E action \in {"ADD", "REMOVE"} : RequestApproverChange(a, t, action)
        \/ RequestRecovery(a, t)
        \/ RequestReactivation(a, t)

Answers(q) ==
    \/ Expire(q) \/ CoolDown(q) \/ RemoveApprover(q)
    \/ AcceptInvitation(q) \/ DeclineInvitation(q)
    \/ \E u \in User :
        \/ GrantMemberChange(q, u) \/ RefuseMemberChange(q, u)
        \/ Endorse(q, u) \/ ExecuteLeadershipChange(q, u) \/ RefuseLeadershipChange(q, u)
        \/ AddApprover(q, u) \/ CountApprovers(q, u) \/ RefuseApproverChange(q, u)
    \/ \E s \in Super :
        \/ ExecuteRecovery(q, s) \/ RefuseRecovery(q, s)
        \/ ExecuteReactivation(q, s) \/ RefuseReactivation(q, s)

Next ==
    \/ Requests
    \/ \E q \in open : Answers(q)
    \/ \E a \in User, n \in 2..Cardinality(User) : SetQuorum(a, n)
    \/ \E c \in Contact :
        \/ \E a \in User : EnrolContact(a, c) \/ AskRevocation(a, c)
        \/ \E s \in Super, verdict \in {"VERIFIED", "REVOKED"} : ReviewContact(s, c, verdict)

Spec == Init /\ [][Next]_vars

-----------------------------------------------------------------------------
(* Properties *)

\* The variables keep their types.
TypeOK ==
    /\ role \in [User -> Role]
    /\ active \subseteq User /\ held \subseteq User
    /\ primary \in User
    /\ roster \subseteq User /\ quorum \in Nat
    /\ contact \in [Contact -> ContactRow]
    /\ open \subseteq Request
    /\ made \in 0..MaxRequests /\ recovered \in BOOLEAN

\* Until a recovery replaces it, the primary administrator is an active
\* administrator, whatever transfers, removals and role changes are decided side
\* by side: each is checked when it is asked for and again when it takes effect.
PrimaryIsAdmin == ~recovered => Admin(primary)

\* Nobody decides alone or about themselves: behind every change that took effect
\* there is somebody who asked and somebody else who agreed, and the one it is
\* about is not among those who agreed.
FourEyes == decided.target # NoOne =>
    decided.yes # {} /\ decided.yes \cap {decided.by, decided.target} = {}

\* A user that a recovery suspended is suspended until a super administrator lets
\* it back, and then as a MEMBER: a request that was open when it was suspended
\* cannot raise it meanwhile.
HeldReturnsAsMember ==
    [][\A u \in held : (u \notin held' => role'[u] = "MEMBER")
                       /\ ((u \in held' /\ primary' = u) => primary = u)]_vars

=============================================================================
