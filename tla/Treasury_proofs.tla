-------------------------- MODULE Treasury_proofs --------------------------
(***************************************************************************)
(* Proofs about an organization and its treasury, for any people, roster   *)
(* and number of requests, and any goals, withdrawals, processes and       *)
(* limits. The first part is about Organization alone; what holds of the   *)
(* organization holds of the two together.                                 *)
(***************************************************************************)
EXTENDS Treasury, SumTheorems, FiniteSetTheorems, TLAPS

-----------------------------------------------------------------------------
(* The organization. *)

\* What an open request carries from its first approval to its last.
Honest(q) ==
    /\ q.yes \cap {q.by, q.target} = {}
    /\ q.phase = "counted" => q.yes # {}
    /\ IF q.kind = "recovery" THEN q.to \in User ELSE q.to \in Role

\* What the open requests say together: one recovery at a time, and never in
\* favour of a suspended user.
Consistent ==
    /\ \A q \in open : Honest(q) /\ (q.kind = "recovery" => q.to \notin held)
    /\ \A p, q \in open : p.kind = "recovery" /\ q.kind = "recovery" => p = q

IInv ==
    /\ TypeOK
    /\ PrimaryIsAdmin
    /\ held # {} => recovered
    /\ held \cap active = {}
    /\ FourEyes
    /\ Consistent

\* The invariant holds when the organization is created.
LEMMA InitIInv == Init => IInv
<1> SUFFICES ASSUME Init PROVE IInv
  OBVIOUS
<1> USE DEF Init
<1>1. TypeOK
  <2>1. contact \in [Contact -> ContactRow]
    BY RoleAssumption DEF ContactRow
  <2>2. roster \subseteq User
    BY RoleAssumption
  <2>3. role \in [User -> Role] /\ primary \in User /\ active \subseteq User /\ held \subseteq User
    BY RoleAssumption
  <2>4. open \subseteq Request /\ quorum \in Nat /\ recovered \in BOOLEAN
    OBVIOUS
  <2>5. made \in 0..MaxRequests
    BY RequestsAssumption
  <2> QED BY <2>1, <2>2, <2>3, <2>4, <2>5 DEF TypeOK
<1>2. PrimaryIsAdmin
  BY RoleAssumption DEF PrimaryIsAdmin, Admin
<1>3. FourEyes
  BY DEF FourEyes
<1> QED BY <1>1, <1>2, <1>3 DEF IInv, Consistent

\* A new request is well typed and nobody has agreed to it yet.
LEMMA AskSafe ==
    ASSUME TypeOK, Consistent,
           NEW kind \in Kind, NEW t \in User, NEW a \in User,
           NEW action \in {"JOIN", "CHANGE_ROLE", "REMOVE_MEMBER", "ADD_ADMIN", "REMOVE_ADMIN",
               "TRANSFER_PRIMARY_ADMIN", "ADD", "REMOVE", "RECOVER", "REACTIVATE"},
           NEW to, IF kind = "recovery" THEN to \in User ELSE to \in Role, NEW need \in 0..2,
           kind = "recovery" => to \notin held, UNCHANGED held,
           Ask(kind, t, action, a, to, need)
    PROVE  open' \subseteq Request /\ Consistent' /\ made' \in 0..MaxRequests
<1> DEFINE new == [kind |-> kind, target |-> t, action |-> action, by |-> a, to |-> to,
                   need |-> need, yes |-> {}, phase |-> "open"]
<1>1. new \in Request
  BY DEF Request
<1>2. Honest(new)
  BY DEF Honest
<1>3. open' = open \cup {new}
  BY DEF Ask
<1>4. made' \in 0..MaxRequests
  BY RequestsAssumption DEF TypeOK, Ask
<1>5. \A q \in open : q.kind = kind => kind # "recovery"
  BY DEF Ask
<1>6. Consistent'
  <2>1. \A q \in open' : Honest(q)' /\ (q.kind = "recovery" => q.to \notin held')
    BY <1>2, <1>3 DEF Consistent, Honest
  <2>2. \A p, q \in open' : p.kind = "recovery" /\ q.kind = "recovery" => p = q
    <3>1. new.kind = kind
      OBVIOUS
    <3> HIDE DEF new
    <3> QED BY <1>3, <1>5, <3>1 DEF Consistent
  <2> QED BY <2>1, <2>2 DEF Consistent
<1> QED BY <1>1, <1>3, <1>4, <1>6 DEF TypeOK

\* A request changes nothing but the list of open requests.
LEMMA AskStep ==
    ASSUME IInv, open' \subseteq Request, Consistent', made' \in 0..MaxRequests,
           UNCHANGED <<people, treasury, contact, ghosts>>
    PROVE  IInv'
BY DEF IInv, TypeOK, PrimaryIsAdmin, FourEyes, Admin, people, treasury, ghosts

\* Every request keeps the invariant.
LEMMA RequestsStep == IInv /\ Requests => IInv'
<1> SUFFICES ASSUME IInv, NEW a \in User, NEW t \in User,
        \/ \E r \in Assignable : Invite(a, t, r)
        \/ \E r \in Assignable : RequestMemberChange(a, t, "CHANGE_ROLE", r)
        \/ RequestMemberChange(a, t, "REMOVE_MEMBER", "NONE")
        \/ \E r \in Assignable : RequestLeadershipChange(a, t, "REMOVE_ADMIN", r)
        \/ RequestLeadershipChange(a, t, "ADD_ADMIN", "ADMIN")
        \/ RequestLeadershipChange(a, t, "TRANSFER_PRIMARY_ADMIN", "ADMIN")
        \/ \E action \in {"ADD", "REMOVE"} : RequestApproverChange(a, t, action)
        \/ RequestRecovery(a, t)
        \/ RequestReactivation(a, t)
             PROVE  IInv'
  BY DEF Requests
<1>k. /\ TypeOK /\ Consistent /\ primary \in User /\ held \cap active = {}
      /\ Assignable \subseteq Role /\ "NONE" \in Role /\ "ADMIN" \in Role /\ "MEMBER" \in Role
  BY RoleAssumption DEF IInv, TypeOK, Role
<1>n. Needed(a, t) \in 0..2
  BY DEF Needed
<1>1. ASSUME NEW r \in Assignable, Invite(a, t, r) PROVE IInv'
  BY <1>1, <1>k, AskSafe, AskStep DEF Invite, Kind, people
<1>2. ASSUME NEW r \in Role, NEW action \in {"CHANGE_ROLE", "REMOVE_MEMBER"},
             RequestMemberChange(a, t, action, r) PROVE IInv'
  BY <1>2, <1>k, AskSafe, AskStep DEF RequestMemberChange, Kind, people
<1>3. ASSUME NEW r \in Role, NEW action \in {"REMOVE_ADMIN", "ADD_ADMIN", "TRANSFER_PRIMARY_ADMIN"},
             RequestLeadershipChange(a, t, action, r) PROVE IInv'
  BY <1>3, <1>k, <1>n, AskSafe, AskStep DEF RequestLeadershipChange, Kind, people
<1>4. ASSUME NEW action \in {"ADD", "REMOVE"}, RequestApproverChange(a, t, action) PROVE IInv'
  BY <1>4, <1>k, AskSafe, AskStep DEF RequestApproverChange, Kind, people
<1>5. ASSUME RequestRecovery(a, t) PROVE IInv'
  BY <1>5, <1>k, AskSafe, AskStep DEF RequestRecovery, Recoverable, Admin, Kind, people
<1>6. ASSUME RequestReactivation(a, t) PROVE IInv'
  BY <1>6, <1>k, AskSafe, AskStep DEF RequestReactivation, Kind, people
<1> QED BY <1>k, <1>1, <1>2, <1>3, <1>4, <1>5, <1>6

\* Closing a request keeps the others as they are.
LEMMA CloseSafe ==
    ASSUME IInv, NEW q \in open, Close(q)
    PROVE  /\ open' \subseteq Request /\ (UNCHANGED held => Consistent')
           /\ q.kind = "recovery" => Consistent'
BY DEF IInv, TypeOK, Close, Consistent

\* Rewriting one open request with an honest one keeps the invariant.
LEMMA RewriteStep ==
    ASSUME IInv, NEW q \in open, NEW n \in Request, Honest(n), n.kind = q.kind, n.to = q.to,
           open' = (open \ {q}) \cup {n} \/ open' = open \ {q},
           UNCHANGED <<people, treasury, contact, made, ghosts>>
    PROVE  IInv'
<1>1. UNCHANGED held
  BY DEF people
<1>2. Consistent'
  BY <1>1 DEF IInv, Consistent, Honest
<1> QED BY <1>2 DEF IInv, TypeOK, PrimaryIsAdmin, FourEyes, Admin, people, treasury, ghosts

\* Whoever answers a request, and the timers, keep the invariant.
LEMMA AnswersStep ==
    ASSUME IInv, NEW q \in open, Answers(q)
    PROVE  IInv'
<1>q. /\ q \in Request /\ Honest(q) /\ q.target \in User /\ q.by \in User
      /\ q.yes \subseteq User \cup Super
  BY DEF IInv, TypeOK, Consistent, Request
<1>1. ASSUME Expire(q) PROVE IInv'
  <2> DEFINE n == [q EXCEPT !.phase = "expired"]
  <2>1. n \in Request /\ Honest(n) /\ n.kind = q.kind /\ n.to = q.to
    BY <1>q DEF Request, Honest
  <2> QED BY <1>1, <2>1, RewriteStep DEF Expire
<1>2. ASSUME CoolDown(q) PROVE IInv'
  <2> DEFINE n == [q EXCEPT !.phase = "cooled"]
  <2>1. n \in Request /\ Honest(n) /\ n.kind = q.kind /\ n.to = q.to
    BY <1>q DEF Request, Honest
  <2> QED BY <1>2, <2>1, RewriteStep DEF CoolDown
<1>3. ASSUME NEW u, Refuse(q, u) PROVE IInv'
  BY <1>3, <1>q, RewriteStep DEF Refuse, Close
<1>4. ASSUME RemoveApprover(q) PROVE IInv'
  BY <1>4, <1>q, CloseSafe
     DEF RemoveApprover, Grant, Honest, IInv, TypeOK, PrimaryIsAdmin, FourEyes, Admin, people
<1>5. ASSUME AcceptInvitation(q) PROVE IInv'
  <2>1. q.to \in Role
    BY <1>5, <1>q DEF AcceptInvitation, Honest
  <2> QED BY <1>5, <1>q, <2>1, CloseSafe
     DEF AcceptInvitation, Honest, IInv, TypeOK, PrimaryIsAdmin, FourEyes, Admin, treasury, ghosts
<1>6. ASSUME DeclineInvitation(q) PROVE IInv'
  BY <1>6, <1>3 DEF DeclineInvitation
<1>7. ASSUME NEW u \in User, GrantMemberChange(q, u) PROVE IInv'
  <2>1. q.to \in Role /\ "NONE" \in Role
    BY <1>7, <1>q DEF GrantMemberChange, ReviewsMember, Honest, Role
  <2>2. role' \in [User -> Role] /\ (PrimaryIsAdmin => PrimaryIsAdmin')
    BY <1>7, <1>q, <2>1 DEF GrantMemberChange, Grantable, Protected, IInv, TypeOK, PrimaryIsAdmin, Admin, treasury
  <2>3. FourEyes'
    BY <1>7, <1>q DEF GrantMemberChange, ReviewsMember, Independent, Grant, FourEyes
  <2> QED BY <1>7, <1>q, <2>2, <2>3, CloseSafe
     DEF GrantMemberChange, Grant, IInv, TypeOK, treasury
<1>8. ASSUME NEW u \in User, RefuseMemberChange(q, u) PROVE IInv'
  BY <1>8, <1>3 DEF RefuseMemberChange
<1>9. ASSUME NEW u \in User, Endorse(q, u) PROVE IInv'
  <2> DEFINE n == [q EXCEPT !.yes = @ \cup {u}]
  <2>1. n \in Request /\ Honest(n) /\ n.kind = q.kind /\ n.to = q.to
    BY <1>q, <1>9 DEF Request, Honest, Endorse, ReviewsLeadership, Independent
  <2> QED BY <1>9, <2>1, RewriteStep DEF Endorse
<1>10. ASSUME NEW u \in User, ExecuteLeadershipChange(q, u) PROVE IInv'
  <2>1. q.to \in Role /\ "ADMIN" \in Role
    BY <1>10, <1>q DEF ExecuteLeadershipChange, ReviewsLeadership, Honest, Role
  <2>2. role' \in [User -> Role] /\ primary' \in User /\ (PrimaryIsAdmin => PrimaryIsAdmin')
    BY <1>10, <1>q, <2>1
       DEF ExecuteLeadershipChange, Executable, Member, IInv, TypeOK, PrimaryIsAdmin, Admin, treasury
  <2>3. FourEyes'
    BY <1>10, <1>q
       DEF ExecuteLeadershipChange, ReviewsLeadership, Independent, Honest, Grant, FourEyes
  <2> QED BY <1>10, <1>q, <2>2, <2>3, CloseSafe
     DEF ExecuteLeadershipChange, Grant, IInv, TypeOK, treasury
<1>11. ASSUME NEW u \in User, RefuseLeadershipChange(q, u) PROVE IInv'
  BY <1>11, <1>3 DEF RefuseLeadershipChange
<1>12. ASSUME NEW u \in User, AddApprover(q, u) PROVE IInv'
  <2>1. FourEyes'
    BY <1>12, <1>q DEF AddApprover, ReviewsApprover, Independent, Grant, FourEyes
  <2> QED BY <1>12, <1>q, <2>1, CloseSafe
     DEF AddApprover, Grant, IInv, TypeOK, PrimaryIsAdmin, Admin, people
<1>13. ASSUME NEW u \in User, CountApprovers(q, u) PROVE IInv'
  <2> DEFINE n == [[q EXCEPT !.phase = "counted"] EXCEPT !.yes = {u}]
  <2>1. n \in Request /\ Honest(n) /\ n.kind = q.kind /\ n.to = q.to
    BY <1>q, <1>13 DEF Request, Honest, CountApprovers, ReviewsApprover, Independent
  <2> QED BY <1>13, <2>1, RewriteStep DEF CountApprovers
<1>14. ASSUME NEW u \in User, RefuseApproverChange(q, u) PROVE IInv'
  BY <1>14, <1>3 DEF RefuseApproverChange
<1>15. ASSUME NEW s \in Super, ExecuteRecovery(q, s) PROVE IInv'
  <2>1. FourEyes'
    BY <1>15 DEF ExecuteRecovery, ReviewsRecovery, ActiveSuper, Independent, Grant, FourEyes
  <2>2. q.to \in User
    BY <1>15, <1>q DEF ExecuteRecovery, ReviewsRecovery, Honest
  <2> QED BY <1>15, <1>q, <2>1, <2>2, CloseSafe
     DEF ExecuteRecovery, ReviewsRecovery, Grant, IInv, TypeOK, PrimaryIsAdmin, treasury
<1>16. ASSUME NEW s \in Super, RefuseRecovery(q, s) PROVE IInv'
  BY <1>16, <1>3 DEF RefuseRecovery
<1>17. ASSUME NEW s \in Super, ExecuteReactivation(q, s) PROVE IInv'
  <2>1. FourEyes'
    BY <1>17 DEF ExecuteReactivation, ReviewsReactivation, Independent, Grant, FourEyes
  <2>2. recovered /\ recovered' /\ RestoredRole(q) \in Role
    BY <1>17 DEF ExecuteReactivation, IInv, RestoredRole, Role
  <2>3. Consistent' /\ open' \subseteq Request
    BY <1>17 DEF ExecuteReactivation, Grant, Close, IInv, TypeOK, Consistent, Honest
  <2> QED BY <1>17, <1>q, <2>1, <2>2, <2>3
     DEF ExecuteReactivation, Grant, IInv, TypeOK, PrimaryIsAdmin, treasury
<1>18. ASSUME NEW s \in Super, RefuseReactivation(q, s) PROVE IInv'
  BY <1>18, <1>3 DEF RefuseReactivation
<1> QED BY <1>1, <1>2, <1>4, <1>5, <1>6, <1>7, <1>8, <1>9, <1>10, <1>11, <1>12, <1>13, <1>14,
           <1>15, <1>16, <1>17, <1>18 DEF Answers

\* Every step keeps the invariant.
LEMMA NextIInv == IInv /\ [Next]_vars => IInv'
<1> SUFFICES ASSUME IInv, [Next]_vars PROVE IInv'
  OBVIOUS
<1>1. CASE Requests
  BY <1>1, RequestsStep
<1>2. ASSUME NEW q \in open, Answers(q) PROVE IInv'
  BY <1>2, AnswersStep
<1>3. ASSUME NEW a \in User, NEW n \in 2..Cardinality(User), SetQuorum(a, n) PROVE IInv'
  <2>1. n \in Nat
    BY FS_CardinalityType, PeopleAssumption
  <2>2. made' \in 0..MaxRequests
    BY <1>3, RequestsAssumption DEF SetQuorum, IInv, TypeOK
  <2> QED BY <1>3, <2>1, <2>2
     DEF SetQuorum, IInv, TypeOK, PrimaryIsAdmin, FourEyes, Admin, Consistent, Honest,
         people, ghosts
<1>4. ASSUME NEW c \in Contact, NEW a \in User, EnrolContact(a, c) \/ AskRevocation(a, c)
      PROVE  IInv'
  <2>1. made' \in 0..MaxRequests
    BY <1>4, RequestsAssumption DEF EnrolContact, AskRevocation, IInv, TypeOK
  <2>2. contact[c] \in ContactRow
    BY DEF IInv, TypeOK
  <2>3. PICK row \in ContactRow : contact' = [contact EXCEPT ![c] = row]
    <3>1. [status |-> "PENDING", by |-> a, revoker |-> NoOne] \in ContactRow
          /\ [contact[c] EXCEPT !.revoker = a] \in ContactRow
      BY <2>2 DEF ContactRow
    <3> QED BY <1>4, <3>1 DEF EnrolContact, AskRevocation
  <2>4. contact' \in [Contact -> ContactRow]
    BY <2>3 DEF IInv, TypeOK
  <2> QED BY <1>4, <2>1, <2>4 DEF EnrolContact, AskRevocation, IInv, TypeOK, PrimaryIsAdmin,
                                  FourEyes, Admin, Consistent, Honest, people, treasury, ghosts
<1>5. ASSUME NEW c \in Contact, NEW s \in Super, NEW verdict \in {"VERIFIED", "REVOKED"},
             ReviewContact(s, c, verdict)
      PROVE  IInv'
  <2>1. contact[c] \in ContactRow
    BY DEF IInv, TypeOK
  <2>2. [contact[c] EXCEPT !.status = verdict] \in ContactRow
    BY <2>1 DEF ContactRow
  <2>3. contact' \in [Contact -> ContactRow]
    BY <1>5, <2>2 DEF ReviewContact, IInv, TypeOK
  <2> QED BY <1>5, <2>3 DEF ReviewContact, IInv, TypeOK, PrimaryIsAdmin, FourEyes, Admin,
                            Consistent, Honest, people, treasury, ghosts
<1>6. CASE UNCHANGED vars
  BY <1>6 DEF vars, people, treasury, ghosts, IInv, TypeOK, PrimaryIsAdmin, FourEyes, Admin,
              Consistent, Honest
<1> QED BY <1>1, <1>2, <1>3, <1>4, <1>5, <1>6 DEF Next

\* Spec => []IInv, from which the theorems below follow.
LEMMA Inductive == Spec => []IInv
  BY InitIInv, NextIInv, PTL DEF Spec

\* The state of an organization keeps its types under every request and answer.
THEOREM OrganizationTypes == Spec => []TypeOK
<1>1. IInv => TypeOK
  BY DEF IInv
<1> QED BY <1>1, Inductive, PTL

\* The primary administrator is an active administrator until a recovery, however
\* transfers, removals and role changes interleave.
THEOREM PrimaryStaysAdmin == Spec => []PrimaryIsAdmin
<1>1. IInv => PrimaryIsAdmin
  BY DEF IInv
<1> QED BY <1>1, Inductive, PTL

\* Every change that took effect was asked for by one person and agreed to by
\* somebody else, never by the one it is about.
THEOREM FourEyesAlways == Spec => []FourEyes
<1>1. IInv => FourEyes
  BY DEF IInv
<1> QED BY <1>1, Inductive, PTL

\* A user suspended by a recovery comes back as a MEMBER and does not become the
\* primary administrator while suspended.
THEOREM HeldComesBackAsMember == Spec => HeldReturnsAsMember
<1> DEFINE Step == \A u \in held : (u \notin held' => role'[u] = "MEMBER")
                                  /\ ((u \in held' /\ primary' = u) => primary = u)
<1>1. IInv /\ [Next]_vars => [Step]_vars
  <2> SUFFICES ASSUME IInv, [Next]_vars, vars' # vars PROVE Step
    OBVIOUS
  <2>1. ASSUME NEW q \in open, NEW s \in Super, ExecuteRecovery(q, s) PROVE Step
    BY <2>1 DEF ExecuteRecovery, ReviewsRecovery, IInv, Consistent
  <2>2. ASSUME NEW q \in open, NEW s \in Super, ExecuteReactivation(q, s) PROVE Step
    BY <2>2 DEF ExecuteReactivation, RestoredRole, IInv, TypeOK
  <2>3. ASSUME NEW q \in open, NEW u \in User, ExecuteLeadershipChange(q, u) PROVE Step
    BY <2>3 DEF ExecuteLeadershipChange, Executable, Member, IInv
  <2>4. ASSUME UNCHANGED <<held, primary>> PROVE Step
    BY <2>4
  <2>5. ASSUME Requests PROVE UNCHANGED <<held, primary>>
    BY <2>5 DEF Requests, Invite, RequestMemberChange, RequestLeadershipChange,
                RequestApproverChange, RequestRecovery, RequestReactivation, people
  <2>6. ASSUME NEW q \in open, Answers(q) PROVE Step
    <3>1. ASSUME NEW u, Refuse(q, u) PROVE UNCHANGED <<held, primary>>
      BY <3>1 DEF Refuse, people
    <3>2. ASSUME Expire(q) \/ CoolDown(q) \/ RemoveApprover(q) \/ AcceptInvitation(q)
          PROVE  UNCHANGED <<held, primary>>
      BY <3>2 DEF Expire, CoolDown, RemoveApprover, AcceptInvitation, people
    <3>3. ASSUME NEW u \in User, GrantMemberChange(q, u) \/ Endorse(q, u) \/ AddApprover(q, u)
                                  \/ CountApprovers(q, u)
          PROVE  UNCHANGED <<held, primary>>
      BY <3>3 DEF GrantMemberChange, Endorse, AddApprover, CountApprovers, people
    <3> QED BY <2>1, <2>2, <2>3, <2>4, <2>6, <3>1, <3>2, <3>3
            DEF Answers, DeclineInvitation, RefuseMemberChange, RefuseLeadershipChange,
                RefuseApproverChange, RefuseRecovery, RefuseReactivation
  <2>7. ASSUME NEW a \in User, NEW n, SetQuorum(a, n) PROVE UNCHANGED <<held, primary>>
    BY <2>7 DEF SetQuorum, people
  <2>8. ASSUME NEW c \in Contact, NEW a, EnrolContact(a, c) \/ AskRevocation(a, c)
        PROVE  UNCHANGED <<held, primary>>
    BY <2>8 DEF EnrolContact, AskRevocation, people
  <2>9. ASSUME NEW c \in Contact, NEW s, NEW verdict, ReviewContact(s, c, verdict)
        PROVE  UNCHANGED <<held, primary>>
    BY <2>9 DEF ReviewContact, people
  <2> QED BY <2>4, <2>5, <2>6, <2>7, <2>8, <2>9 DEF Next, vars
<1> QED BY <1>1, Inductive, PTL DEF Spec, HeldReturnsAsMember

-----------------------------------------------------------------------------
(* The treasury. *)

\* The approvals of a withdrawal, and what its status says about its money.
RowSound(t) ==
    /\ wd[t].maker \notin wd[t].yes
    /\ IsFiniteSet(wd[t].yes)
    /\ wd[t].status \in {"none", "asking", "held_for_review"} => legs[t] = 0
    /\ wd[t].status \in {"processing", "completed"} =>
        Cardinality(wd[t].yes) >= 2 /\ Cardinality(wd[t].yes) >= wd[t].need
    /\ legs[t] <= 1
    /\ wd[t].status = "completed" => legs[t] = 1

\* A process that executes a withdrawal was handed it after its quorum; past the
\* append the money has moved.
WorkerSound(w) ==
    pc[w] # "idle" =>
        /\ job[w] \in Withdrawal
        /\ wd[job[w]].status \in {"processing", "completed"}
        /\ pc[w] \in {"posted", "write", "meta"} => legs[job[w]] = 1

TInv ==
    /\ TreasuryTypeOK
    /\ \A t \in Withdrawal : RowSound(t)
    /\ \A w \in Worker : WorkerSound(w)

\* The invariant holds before anything is asked for.
LEMMA InitTInv == TreasuryInit => TInv
<1> SUFFICES ASSUME TreasuryInit PROVE TInv
  OBVIOUS
<1> USE DEF TreasuryInit
<1>1. TreasuryTypeOK
  <2>1. wd \in [Withdrawal -> Row]
    BY DEF Row
  <2>2. goal \in [Goal -> Nat]
    BY WithdrawalAssumption
  <2>3. received \in [Wallet -> Nat] /\ legs \in [Withdrawal -> Nat]
    OBVIOUS
  <2>4. crashes \in 0..MaxCrashes /\ blocked \subseteq Wallet /\ blocks \in 0..MaxBlocks
    BY LimitAssumption
  <2>5. /\ pc \in [Worker -> {"idle", "claimed", "read", "append", "posted", "write", "meta"}]
        /\ job \in [Worker -> Withdrawal \cup {NoJob}]
    OBVIOUS
  <2> QED BY <2>1, <2>2, <2>3, <2>4, <2>5 DEF TreasuryTypeOK
<1>2. \A t \in Withdrawal : RowSound(t)
  <2> SUFFICES ASSUME NEW t \in Withdrawal PROVE RowSound(t)
    OBVIOUS
  <2>1. IsFiniteSet({})
    BY FS_EmptySet
  <2>2. wd[t].maker = NoOne /\ wd[t].yes = {} /\ wd[t].status = "none" /\ legs[t] = 0
    OBVIOUS
  <2> HIDE DEF TreasuryInit
  <2>3. wd[t].status \notin {"processing", "completed"} /\ wd[t].maker \notin wd[t].yes /\ IsFiniteSet(wd[t].yes)
    BY <2>1, <2>2
  <2> QED BY <2>2, <2>3 DEF RowSound
<1>3. \A w \in Worker : WorkerSound(w)
  BY DEF WorkerSound
<1> QED BY <1>1, <1>2, <1>3 DEF TInv

\* One more approver makes one more approval.
LEMMA OneMore ==
    ASSUME NEW S, IsFiniteSet(S), NEW u, u \notin S
    PROVE  IsFiniteSet(S \cup {u}) /\ Cardinality(S \cup {u}) = Cardinality(S) + 1
BY FS_AddElement

\* The quorum is at least two and at least what the policy said.
LEMMA MaxBounds == ASSUME NEW n \in Nat PROVE Max2(n) \in Nat /\ Max2(n) >= 2 /\ Max2(n) >= n
BY DEF Max2

\* A request, an approval and a lease keep the invariant.
LEMMA RequestStep ==
    ASSUME TInv, TypeOK, NEW t \in Withdrawal,
           \/ \E u \in Requester, w \in Wallet : CheckRequest(t, u, w)
           \/ InsertRequest(t) \/ LeaseExpire(t)
           \/ \E u \in User : Approve(t, u)
    PROVE  TInv'
<1> USE DEF TInv, TreasuryTypeOK, processes, money, locks
<1>q. wd[t] \in Row /\ quorum \in Nat
  BY DEF TypeOK
<1>1. ASSUME NEW u \in Requester, NEW w \in Wallet, CheckRequest(t, u, w) PROVE TInv'
  <2> DEFINE new == [status |-> "asking", maker |-> u, to |-> w, need |-> Max2(quorum),
                     yes |-> {}, lease |-> "none"]
  <2>1. new \in Row
    BY <1>q, PartiesAssumption, MaxBounds DEF Row
  <2>2. wd' = [wd EXCEPT ![t] = new]
    BY <1>1 DEF CheckRequest
  <2>3. wd' \in [Withdrawal -> Row]
    BY <2>1, <2>2
  <2>4. RowSound(t)'
    BY <1>1, <2>2, FS_EmptySet DEF CheckRequest, RowSound
  <2>5. \A p \in Withdrawal : RowSound(p)'
    BY <1>1, <2>2, <2>4 DEF CheckRequest, RowSound
  <2>6. \A v \in Worker : WorkerSound(v)'
    BY <1>1, <2>2 DEF CheckRequest, WorkerSound
  <2> QED BY <1>1, <2>3, <2>5, <2>6 DEF CheckRequest
<1>2. ASSUME InsertRequest(t) PROVE TInv'
  <2>1. wd' = [wd EXCEPT ![t] = [wd[t] EXCEPT !.status = "held_for_review"]]
    BY <1>2 DEF InsertRequest
  <2>2. wd' \in [Withdrawal -> Row]
    BY <2>1, <1>q DEF Row
  <2>3. \A p \in Withdrawal : RowSound(p)'
    BY <1>2, <2>1, <1>q DEF InsertRequest, RowSound, Row
  <2>4. \A v \in Worker : WorkerSound(v)'
    BY <1>2, <2>1, <1>q DEF InsertRequest, WorkerSound, Row
  <2> QED BY <1>2, <2>2, <2>3, <2>4 DEF InsertRequest
<1>3. ASSUME LeaseExpire(t) PROVE TInv'
  <2>1. wd' = [wd EXCEPT ![t] = [wd[t] EXCEPT !.lease = "expired"]]
    BY <1>3 DEF LeaseExpire
  <2>2. wd' \in [Withdrawal -> Row]
    BY <2>1, <1>q DEF Row
  <2>3. \A p \in Withdrawal : RowSound(p)'
    BY <1>3, <2>1, <1>q DEF LeaseExpire, RowSound, Row
  <2>4. \A v \in Worker : WorkerSound(v)'
    BY <1>3, <2>1, <1>q DEF LeaseExpire, WorkerSound, Row
  <2> QED BY <1>3, <2>2, <2>3, <2>4 DEF LeaseExpire
<1>4. ASSUME NEW u \in User, Approve(t, u) PROVE TInv'
  <2>1. wd' = [wd EXCEPT ![t] = [wd[t] EXCEPT !.yes = wd[t].yes \cup {u}]]
    BY <1>4 DEF Approve
  <2>2. wd' \in [Withdrawal -> Row]
    BY <2>1, <1>q DEF Row
  <2>3. IsFiniteSet(wd[t].yes \cup {u}) /\ wd[t].maker \notin wd[t].yes \cup {u}
    BY <1>4, OneMore DEF Approve, MayApprove, RowSound
  <2>4. \A p \in Withdrawal : RowSound(p)'
    BY <1>4, <2>1, <2>3, <1>q DEF Approve, RowSound, Row
  <2>5. \A v \in Worker : WorkerSound(v)'
    BY <1>4, <2>1, <1>q DEF Approve, WorkerSound, Row
  <2> QED BY <1>4, <2>2, <2>4, <2>5 DEF Approve
<1> QED BY <1>1, <1>2, <1>3, <1>4

\* The approval that completes a quorum keeps the invariant.
LEMMA ApproveLastStep ==
    ASSUME TInv, NEW t \in Withdrawal, NEW u \in User, NEW w \in Worker, ApproveLast(t, u, w)
    PROVE  TInv'
<1> USE DEF TInv, TreasuryTypeOK, money, locks
<1> DEFINE new == [[[wd[t] EXCEPT !.yes = wd[t].yes \cup {u}] EXCEPT !.status = "processing"]
                   EXCEPT !.lease = "active"]
<1>1. wd[t] \in Row /\ wd[t].need \in Nat /\ wd' = [wd EXCEPT ![t] = new]
  <2>1. wd[t] \in Row
    OBVIOUS
  <2>2. wd[t].need \in Nat
    BY <2>1 DEF Row
  <2>3. wd' = [wd EXCEPT ![t] = new]
    BY DEF ApproveLast
  <2> QED BY <2>1, <2>2, <2>3
<1>2. new \in Row /\ new.maker = wd[t].maker /\ new.need = wd[t].need
      /\ new.yes = wd[t].yes \cup {u} /\ new.status = "processing"
  BY <1>1 DEF Row
<1>3. wd' \in [Withdrawal -> Row] /\ wd'[t] = new
  BY <1>1, <1>2
<1>4. /\ IsFiniteSet(new.yes) /\ new.maker \notin new.yes
      /\ Cardinality(new.yes) >= 2 /\ Cardinality(new.yes) >= new.need
  <2>1. IsFiniteSet(wd[t].yes) /\ u \notin wd[t].yes /\ u # wd[t].maker
        /\ wd[t].maker \notin wd[t].yes
    BY DEF ApproveLast, MayApprove, RowSound
  <2>2. Cardinality(new.yes) = Cardinality(wd[t].yes) + 1 /\ IsFiniteSet(new.yes)
    BY <2>1, <1>2, OneMore
  <2>3. Cardinality(wd[t].yes) + 1 >= Max2(wd[t].need)
    BY DEF ApproveLast
  <2>4. Cardinality(wd[t].yes) \in Nat
    BY <2>1, FS_CardinalityType
  <2> QED BY <2>1, <2>2, <2>3, <2>4, <1>1, <1>2, MaxBounds
<1>5. RowSound(t)'
  <2> HIDE DEF new
  <2> QED BY <1>2, <1>3, <1>4 DEF ApproveLast, RowSound
<1>6. \A p \in Withdrawal : RowSound(p)'
  BY <1>1, <1>5 DEF ApproveLast, RowSound
<1>7. \A v \in Worker : WorkerSound(v)'
  <2> HIDE DEF new
  <2> QED BY <1>1, <1>2, <1>3 DEF ApproveLast, WorkerSound
<1> QED BY <1>3, <1>6, <1>7 DEF ApproveLast

\* Steps that only change where a process is keep the invariant.
LEMMA MoveStep ==
    ASSUME TInv, NEW w \in Worker, UNCHANGED rows,
           \/ Drop(w)
           \/ \E p \in {"read", "append", "posted", "write", "meta"} :
                 /\ pc[w] # "idle" /\ Goto(w, p)
                 /\ p \in {"posted", "write", "meta"} => legs[job[w]] = 1
           \/ Crash(w)
    PROVE  TInv'
<1> USE DEF TInv, TreasuryTypeOK, rows, money, locks
<1>1. CASE Drop(w)
  BY <1>1 DEF Drop, RowSound, WorkerSound
<1>2. ASSUME NEW p \in {"read", "append", "posted", "write", "meta"}, pc[w] # "idle", Goto(w, p),
             p \in {"posted", "write", "meta"} => legs[job[w]] = 1
      PROVE  TInv'
  BY <1>2 DEF Goto, RowSound, WorkerSound
<1>3. CASE Crash(w)
  <2>1. crashes' \in 0..MaxCrashes
    BY <1>3, LimitAssumption DEF Crash
  <2> QED BY <1>3, <2>1 DEF Crash, RowSound, WorkerSound
<1> QED BY <1>1, <1>2, <1>3

\* Every step of an execution keeps the invariant.
LEMMA ExecuteStep ==
    ASSUME TInv, NEW w \in Worker, Execute(w)
    PROVE  TInv'
<1> USE DEF TInv, TreasuryTypeOK, money, locks
<1>j. /\ pc[w] # "idle" /\ job[w] \in Withdrawal
      /\ wd[job[w]] \in Row /\ RowSound(job[w]) /\ WorkerSound(w)
      /\ legs[job[w]] \in Nat /\ legs[job[w]] <= 1
  BY DEF Execute, ReadRow, ReadLegs, AppendLegs, AppendRejected, CheckStatus, WriteStatus,
         FinishExecution, WorkerSound, RowSound
<1>1. CASE ReadRow(w) \/ AppendRejected(w)
  BY <1>1, <1>j, MoveStep DEF ReadRow, AppendRejected
<1>2. CASE ReadLegs(w)
  BY <1>2, <1>j, MoveStep DEF ReadLegs
<1>3. CASE CheckStatus(w)
  BY <1>3, <1>j, MoveStep DEF CheckStatus, WorkerSound
<1>4. CASE AppendLegs(w)
  <2> DEFINE t == job[w]
  <2>1. legs' = [legs EXCEPT ![t] = 1] /\ wd' = wd
    BY <1>4, <1>j DEF AppendLegs, AppendIsNew
  <2>2. goal' \in [Goal -> Nat]
    <3>1. GoalOf[t] \in Goal /\ Amount[t] \in Nat
      BY <1>j, WithdrawalAssumption
    <3>2. goal[GoalOf[t]] - Amount[t] \in Nat
      BY <1>4, <3>1 DEF AppendLegs, Postable, GoalCovers
    <3>3. goal' = [goal EXCEPT ![GoalOf[t]] = goal[GoalOf[t]] - Amount[t]]
      BY <1>4 DEF AppendLegs
    <3> QED BY <3>1, <3>2, <3>3
  <2>3. received' \in [Wallet -> Nat]
    <3>1. Amount[t] \in Nat
      BY <1>j, WithdrawalAssumption
    <3>2. received' = [received EXCEPT ![wd[t].to] = received[wd[t].to] + Amount[t]]
      BY <1>4 DEF AppendLegs
    <3>3. received' = [x \in Wallet |-> IF x = wd[t].to THEN received[x] + Amount[t] ELSE received[x]]
      BY <3>2
    <3> HIDE DEF t
    <3>4. \A x \in Wallet : received[x] \in Nat
      OBVIOUS
    <3> QED BY <3>1, <3>3, <3>4
  <2>4. \A p \in Withdrawal : RowSound(p)'
    BY <2>1, <1>j DEF RowSound, WorkerSound
  <2>5. \A v \in Worker : WorkerSound(v)'
    BY <2>1, <1>4, <1>j DEF AppendLegs, Goto, WorkerSound
  <2>6. legs' \in [Withdrawal -> Nat]
    BY <2>1
  <2>7. /\ pc' \in [Worker -> {"idle", "claimed", "read", "append", "posted", "write", "meta"}]
        /\ job' = job /\ crashes' = crashes /\ blocked' = blocked /\ blocks' = blocks
    BY <1>4 DEF AppendLegs, Goto
  <2> QED BY <2>1, <2>2, <2>3, <2>4, <2>5, <2>6, <2>7
<1>5. CASE WriteStatus(w)
  <2>1. wd' = [wd EXCEPT ![job[w]] = [wd[job[w]] EXCEPT !.status = "completed"]]
    BY <1>5 DEF WriteStatus
  <2>2. wd' \in [Withdrawal -> Row]
    BY <2>1, <1>j DEF Row
  <2>3. \A p \in Withdrawal : RowSound(p)'
    BY <1>5, <2>1, <1>j DEF WriteStatus, RowSound, WorkerSound, Row
  <2>4. \A v \in Worker : WorkerSound(v)'
    BY <1>5, <2>1, <1>j DEF WriteStatus, Goto, WorkerSound, Row
  <2> QED BY <1>5, <2>2, <2>3, <2>4 DEF WriteStatus, Goto
<1>6. CASE FinishExecution(w)
  <2> DEFINE l == IF wd[job[w]].status = "completed" THEN "none" ELSE wd[job[w]].lease
  <2>1. wd' = [wd EXCEPT ![job[w]] = [wd[job[w]] EXCEPT !.lease = l]]
    BY <1>6 DEF FinishExecution
  <2>2. l \in {"none", "active", "expired"}
    BY <1>j DEF Row
  <2> HIDE DEF l
  <2>3. wd' \in [Withdrawal -> Row]
    BY <2>1, <2>2, <1>j DEF Row
  <2>4. \A p \in Withdrawal : RowSound(p)'
    BY <1>6, <2>1, <1>j DEF FinishExecution, RowSound, Row
  <2>5. \A v \in Worker : WorkerSound(v)'
    BY <1>6, <2>1, <1>j DEF FinishExecution, Drop, WorkerSound, Row
  <2> QED BY <1>6, <2>3, <2>4, <2>5 DEF FinishExecution, Drop
<1> QED BY <1>1, <1>2, <1>3, <1>4, <1>5, <1>6 DEF Execute

\* A process that takes over a withdrawal keeps the invariant.
LEMMA ClaimStep ==
    ASSUME TInv, NEW t \in Withdrawal, NEW w \in Worker, Claim(w, t)
    PROVE  TInv'
<1> USE DEF TInv, TreasuryTypeOK, money, locks
<1>1. wd[t] \in Row /\ wd' = [wd EXCEPT ![t] = [wd[t] EXCEPT !.lease = "active"]]
  BY DEF Claim
<1>2. wd' \in [Withdrawal -> Row]
  BY <1>1 DEF Row
<1>3. \A p \in Withdrawal : RowSound(p)'
  BY <1>1 DEF Claim, RowSound, Row
<1>4. \A v \in Worker : WorkerSound(v)'
  BY <1>1 DEF Claim, Claimable, WorkerSound, Row
<1> QED BY <1>2, <1>3, <1>4 DEF Claim

\* A wallet that is locked or unlocked keeps the invariant.
LEMMA LockStep ==
    ASSUME TInv, NEW w \in Wallet, LockWallet(w) \/ UnlockWallet(w)
    PROVE  TInv'
<1>1. blocked' \subseteq Wallet /\ blocks' \in 0..MaxBlocks
  BY LimitAssumption DEF LockWallet, UnlockWallet, TInv, TreasuryTypeOK
<1> QED BY <1>1 DEF LockWallet, UnlockWallet, TInv, TreasuryTypeOK, RowSound, WorkerSound, money,
                    processes

\* A treasury is an organization: governance is not disturbed by withdrawals.
THEOREM TreasuryIsOrganization == TreasurySpec => Spec
<1>1. TreasuryInit => Init
  BY DEF TreasuryInit
<1>2. [TreasuryNext]_<<vars, treasuryVars>> => [Next]_vars
  BY DEF TreasuryNext
<1> QED BY <1>1, <1>2, PTL DEF TreasurySpec, Spec

\* Every step keeps the invariant, given the types of the organization.
LEMMA NextTInv == TInv /\ TypeOK /\ [TreasuryNext]_<<vars, treasuryVars>> => TInv'
<1> SUFFICES ASSUME TInv, TypeOK, [TreasuryNext]_<<vars, treasuryVars>> PROVE TInv'
  OBVIOUS
<1>1. CASE UNCHANGED treasuryVars
  BY <1>1 DEF treasuryVars, rows, money, locks, processes, TInv, TreasuryTypeOK, RowSound, WorkerSound
<1>2. CASE TreasuryStep
  <2>1. ASSUME NEW w \in Worker, Crash(w) PROVE TInv'
    BY <2>1, MoveStep DEF Crash
  <2>2. ASSUME NEW w \in Wallet, LockWallet(w) \/ UnlockWallet(w) PROVE TInv'
    BY <2>2, LockStep
  <2> QED BY <1>2, <2>1, <2>2, RequestStep, ApproveLastStep, ClaimStep, ExecuteStep DEF TreasuryStep
<1> QED BY <1>1, <1>2 DEF TreasuryNext

\* TreasurySpec => []TInv, from which the theorems below follow.
LEMMA TreasuryInductive == TreasurySpec => []TInv
  BY InitTInv, NextTInv, OrganizationTypes, TreasuryIsOrganization, PTL DEF TreasurySpec

\* The rows, balances and processes of the treasury keep their types; no goal is
\* overdrawn.
THEOREM TreasuryTypes == TreasurySpec => []TreasuryTypeOK
<1>1. TInv => TreasuryTypeOK
  BY DEF TInv
<1> QED BY <1>1, TreasuryInductive, PTL

\* Money leaves a goal only after a quorum of distinct people other than the maker,
\* however the roster and the policy change before the withdrawal is executed.
THEOREM QuorumFirst == TreasurySpec => []QuorumBeforeMoney
<1>1. TInv => QuorumBeforeMoney
  BY DEF TInv, TreasuryTypeOK, RowSound, QuorumBeforeMoney, Row
<1> QED BY <1>1, TreasuryInductive, PTL

\* The money of a withdrawal moves at most once, and it has moved when the
\* withdrawal is reported completed, whoever executes it and however often.
THEOREM WithdrawnAtMostOnce == TreasurySpec => []WithdrawnOnce
<1>1. TInv => WithdrawnOnce
  BY DEF TInv, RowSound, WithdrawnOnce
<1> QED BY <1>1, TreasuryInductive, PTL

-----------------------------------------------------------------------------
(* The daily limit. *)

\* Every two requests lock a row in common: the goal, the requester or the wallet.
Serialized ==
    \/ \A p, q \in Withdrawal : GoalOf[p] = GoalOf[q]
    \/ \A u, v \in Requester : u = v
    \/ \A v, w \in Wallet : v = w

Asked == {t \in Withdrawal : wd[t].status # "none"}

\* What was summed up and not inserted yet counts too, and is one request at most.
LimitInv ==
    /\ SumFunctionOnSet(Amount, Asked) <= DailyLimit
    /\ \A t \in Withdrawals({"asking"}) : wd[t].maker \in Requester /\ wd[t].to \in Wallet

LEMMA AmountsAreNumbers ==
    ASSUME NEW S \in SUBSET Withdrawal
    PROVE  /\ IsFiniteSet(S) /\ \A t \in S : Amount[t] \in Int /\ Amount[t] >= 0
           /\ SumFunctionOnSet(Amount, S) \in Int
<1>1. IsFiniteSet(S) /\ \A t \in S : Amount[t] \in Int /\ Amount[t] >= 0
  BY WithdrawalAssumption, FS_Subset
<1> QED BY <1>1, SumIsInt

\* A step that asks for nothing does not change what was asked for.
LEMMA LimitSame ==
    ASSUME LimitInv,
           \A t \in Withdrawal :
               /\ wd'[t].status = "none" <=> wd[t].status = "none"
               /\ wd'[t].status = "asking" =>
                    wd[t].status = "asking" /\ wd'[t].maker = wd[t].maker /\ wd'[t].to = wd[t].to
    PROVE  LimitInv'
<1>1. Asked' = Asked
  BY DEF Asked
<1> QED BY <1>1 DEF LimitInv, Withdrawals

\* A request waits for the one that locked its rows before it, so it counts all
\* that was asked for.
LEMMA LimitAsked ==
    ASSUME TInv, LimitInv, Serialized, NEW t \in Withdrawal, NEW u \in Requester,
           NEW w \in Wallet, CheckRequest(t, u, w)
    PROVE  LimitInv'
<1>0. wd \in [Withdrawal -> Row]
  BY DEF TInv, TreasuryTypeOK
<1>1. Withdrawals({"asking"}) = {}
  BY DEF CheckRequest, LocksFree, LimitInv, Serialized, Withdrawals
<1>2. Withdrawals({"held_for_review", "processing", "completed"}) = Asked
  <2>1. \A p \in Withdrawal : wd[p].status \in
            {"none", "asking", "held_for_review", "processing", "completed"}
    BY <1>0 DEF Row
  <2> QED BY <1>1, <2>1 DEF Withdrawals, Asked
<1>3. SumFunctionOnSet(Amount, Asked) + Amount[t] <= DailyLimit
  BY <1>2 DEF CheckRequest, Used
<1>4. t \notin Asked /\ Asked' = Asked \cup {t} /\ Asked \in SUBSET Withdrawal
  BY <1>0 DEF CheckRequest, Asked
<1>5. SumFunctionOnSet(Amount, Asked') = SumFunctionOnSet(Amount, Asked) + Amount[t]
  <2>1. IsFiniteSet(Asked) /\ (\A p \in Asked : Amount[p] \in Int) /\ Amount[t] \in Int
    BY <1>4, AmountsAreNumbers
  <2> QED BY <1>4, <2>1, SumAdd
<1>6. \A p \in Withdrawals({"asking"})' : wd'[p].maker \in Requester /\ wd'[p].to \in Wallet
  BY <1>0, <1>1 DEF CheckRequest, Withdrawals
<1> QED BY <1>3, <1>5, <1>6 DEF LimitInv

LEMMA LimitStep ==
    ASSUME TInv, LimitInv, Serialized, [TreasuryNext]_<<vars, treasuryVars>>
    PROVE  LimitInv'
<1>0. wd \in [Withdrawal -> Row]
  BY DEF TInv, TreasuryTypeOK
<1>1. CASE UNCHANGED treasuryVars
  BY <1>1, LimitSame DEF treasuryVars, rows
<1>2. CASE TreasuryStep
  <2>1. ASSUME NEW t \in Withdrawal, NEW u \in Requester, NEW w \in Wallet, CheckRequest(t, u, w)
        PROVE  LimitInv'
    BY <2>1, LimitAsked
  <2>2. ASSUME NEW t \in Withdrawal, InsertRequest(t) PROVE LimitInv'
    <3>1. wd' = [wd EXCEPT ![t] = [wd[t] EXCEPT !.status = "held_for_review"]]
      BY <2>2 DEF InsertRequest
    <3> QED BY <1>0, <2>2, <3>1, LimitSame DEF InsertRequest, Row
  <2>3. ASSUME NEW t \in Withdrawal,
               LeaseExpire(t) \/ \E w \in Worker : Claim(w, t)
        PROVE  LimitInv'
    <3>1. PICK x : wd' = [wd EXCEPT ![t] = [wd[t] EXCEPT !.lease = x]]
      BY <2>3 DEF LeaseExpire, Claim
    <3> QED BY <1>0, <3>1, LimitSame DEF Row
  <2>4. ASSUME NEW t \in Withdrawal, NEW u \in User, Approve(t, u) PROVE LimitInv'
    <3>1. wd' = [wd EXCEPT ![t] = [wd[t] EXCEPT !.yes = wd[t].yes \cup {u}]]
      BY <2>4 DEF Approve
    <3> QED BY <1>0, <3>1, LimitSame DEF Row
  <2>5. ASSUME NEW t \in Withdrawal, NEW u \in User, NEW w \in Worker, ApproveLast(t, u, w)
        PROVE  LimitInv'
    <3> DEFINE new == [[[wd[t] EXCEPT !.yes = wd[t].yes \cup {u}] EXCEPT !.status = "processing"]
                       EXCEPT !.lease = "active"]
    <3>1. wd' = [wd EXCEPT ![t] = new] /\ wd[t].status = "held_for_review"
      BY <2>5 DEF ApproveLast
    <3>2. new.status = "processing"
      BY <1>0 DEF Row
    <3> HIDE DEF new
    <3> QED BY <1>0, <3>1, <3>2, LimitSame
  <2>6. ASSUME NEW w \in Worker, Execute(w) PROVE LimitInv'
    <3>1. CASE WriteStatus(w)
      <4>1. wd' = [wd EXCEPT ![job[w]] = [wd[job[w]] EXCEPT !.status = "completed"]]
            /\ wd[job[w]].status \in {"processing", "completed"} /\ job[w] \in Withdrawal
        BY <3>1 DEF WriteStatus, TInv, WorkerSound
      <4> QED BY <1>0, <4>1, LimitSame DEF Row
    <3>2. CASE FinishExecution(w)
      <4>1. /\ wd' = [wd EXCEPT ![job[w]] = [wd[job[w]] EXCEPT !.lease =
                        IF wd[job[w]].status = "completed" THEN "none" ELSE wd[job[w]].lease]]
            /\ job[w] \in Withdrawal
        BY <3>2 DEF FinishExecution, TInv, WorkerSound
      <4> QED BY <1>0, <4>1, LimitSame DEF Row
    <3>3. CASE ~WriteStatus(w) /\ ~FinishExecution(w)
      <4>1. UNCHANGED wd
        BY <2>6, <3>3 DEF Execute, ReadRow, ReadLegs, AppendLegs, AppendRejected, CheckStatus, rows
      <4> QED BY <4>1, LimitSame
    <3> QED BY <3>1, <3>2, <3>3
  <2>7. ASSUME NEW w \in Worker, Crash(w) PROVE LimitInv'
    BY <2>7, LimitSame DEF Crash, rows
  <2>8. ASSUME NEW w \in Wallet, LockWallet(w) \/ UnlockWallet(w) PROVE LimitInv'
    BY <2>8, LimitSame DEF LockWallet, UnlockWallet
  <2> QED BY <1>2, <2>1, <2>2, <2>3, <2>4, <2>5, <2>6, <2>7, <2>8 DEF TreasuryStep
<1> QED BY <1>1, <1>2 DEF TreasuryNext

\* What is asked for in a day stays within the daily limit, as long as the requests
\* have a locked row in common: although the sum of the day and the insert are two
\* statements, no request is left out of the sum of another.
THEOREM DailyLimitHolds == ASSUME Serialized PROVE TreasurySpec => []WithinDailyLimit
<1>1. TreasuryInit => LimitInv
  <2> SUFFICES ASSUME TreasuryInit PROVE LimitInv
    OBVIOUS
  <2>1. Asked = {} /\ Withdrawals({"asking"}) = {}
    BY DEF TreasuryInit, Asked, Withdrawals
  <2>2. DailyLimit \in Nat
    BY LimitAssumption
  <2> QED BY <2>1, <2>2, SumEmpty DEF LimitInv
<1>2. LimitInv /\ TInv /\ [TreasuryNext]_<<vars, treasuryVars>> => LimitInv'
  BY LimitStep
<1>3. LimitInv => WithinDailyLimit
  <2> SUFFICES ASSUME LimitInv PROVE WithinDailyLimit
    OBVIOUS
  <2> DEFINE inserted == {t \in Withdrawal : wd[t].status \notin {"none", "asking"}}
  <2>1. inserted \in SUBSET Asked /\ Asked \in SUBSET Withdrawal
    BY DEF Asked
  <2> HIDE DEF inserted
  <2>2. /\ IsFiniteSet(Asked) /\ \A t \in Asked : Amount[t] \in Int
        /\ \A t \in Asked \ inserted : Amount[t] >= 0
    BY <2>1, AmountsAreNumbers
  <2>3. SumFunctionOnSet(Amount, inserted) <= SumFunctionOnSet(Amount, Asked)
    BY <2>1, <2>2, SumGrows
  <2>4. /\ SumFunctionOnSet(Amount, inserted) \in Int /\ SumFunctionOnSet(Amount, Asked) \in Int
        /\ DailyLimit \in Nat
    BY <2>1, AmountsAreNumbers, LimitAssumption
  <2>5. SumFunctionOnSet(Amount, inserted) <= DailyLimit
    BY <2>3, <2>4 DEF LimitInv
  <2> QED BY <2>5 DEF WithinDailyLimit, inserted
<1> QED BY <1>1, <1>2, <1>3, TreasuryInductive, PTL DEF TreasurySpec
=============================================================================
