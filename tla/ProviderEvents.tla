--------------------------- MODULE ProviderEvents ---------------------------
(***************************************************************************)
(* What payment providers report, and the movements of external funds it   *)
(* settles. A report comes late, early, twice or never; each delivery is a *)
(* call that records a receipt under the report's dedupe key, verifies,    *)
(* parses and claims it, looks for the movement, moves the money through   *)
(* the ledger and closes movement and receipt, one statement at a time.    *)
(* The dedupe key comes from the request (a header before the payload), so *)
(* two reports of one event may have two keys, and two events one key. A   *)
(* statement may throw and a node may die. The scheduler reaps movements   *)
(* nobody reports on. The ledger's posting is atomic (LedgerPosting) and   *)
(* draws a new reference each time; Redis keeps the replay keys.           *)
(***************************************************************************)
EXTENDS Naturals, FiniteSets

CONSTANTS
    Movement,       \* rows of external_fund_movements
    DirectionOf,    \* "IN", "OUT" or "RECORD" (external to external)
    Report,         \* requests that may arrive, with the headers they bring
    ReportOf,       \* what each says of which movement, its key and its route
    Key,            \* dedupe keys, one row of provider_webhook_events each
    NoReport,
    Call,           \* deliveries
    MaxFaults,      \* bound on statements that throw
    MaxUnparsed,    \* bound on deliveries stopped at parsing
    MaxCrashes      \* bound on calls whose node dies

ASSUME ProviderAssumption ==
    /\ DirectionOf \in [Movement -> {"IN", "OUT", "RECORD"}]
    /\ ReportOf \in [Report -> [of : Movement, says : {"completed", "processing", "failed"},
                                key : Key, route : {"signed", "open", "trusted"},
                                genuine : BOOLEAN]]
    /\ NoReport \notin Report /\ IsFiniteSet(Call)
    /\ MaxFaults \in Nat /\ MaxUnparsed \in Nat /\ MaxCrashes \in Nat

VARIABLES
    receipt,        \* application_status of each row of provider_webhook_events
    remembered,     \* replay keys held in Redis
    movement,       \* status of each movement, and whether it names a transaction
    call,           \* where each delivery is
    reaping,        \* movements the scheduler found stuck
    moved,          \* reports under which the ledger moved money
    posted,         \* ledger transactions posted under each key
    faults,         \* statements that threw under each key
    unparsed,       \* deliveries under each key that parsing stopped
    crashes

rows == <<receipt, movement>>
books == <<moved, posted>>
bounds == <<faults, unparsed, crashes>>
vars == <<rows, remembered, call, reaping, books, bounds>>

KeyOf(c) == ReportOf[call[c].report].key
Of(c) == ReportOf[call[c].report].of
Says(c) == ReportOf[call[c].report].says
At(c, stage) == call[c].at = stage
Go(c, stage) == call' = [call EXCEPT ![c].at = stage]
Idle == [at |-> "idle", report |-> NoReport, again |-> FALSE]

Init ==
    /\ receipt = [k \in Key |-> "NONE"] /\ remembered = {}
    /\ movement = [m \in Movement |-> [status |-> "NONE", paid |-> FALSE]]
    /\ call = [c \in Call |-> Idle] /\ reaping = {}
    /\ moved = {} /\ posted = [k \in Key |-> 0] /\ faults = [k \in Key |-> 0]
    /\ unparsed = [k \in Key |-> 0] /\ crashes = 0

Initiate(m) ==
    /\ movement[m].status = "NONE"
    /\ movement' = [movement EXCEPT ![m].status =
                        IF DirectionOf[m] = "RECORD" THEN "recorded" ELSE "initiated"]
    /\ UNCHANGED <<receipt, remembered, call, reaping, books, bounds>>

-----------------------------------------------------------------------------
(* The receipt *)

Handled == {"applied", "processing", "rejected"}
\* Mutant: a delivery is verified only if its receipt is new.
RouteByReceipt(r) ==
    IF ReportOf[r].route = "trusted" \/ receipt[ReportOf[r].key] # "NONE" THEN "claim" ELSE "verify"
Route(r) == IF ReportOf[r].route = "trusted" THEN "claim" ELSE "verify"

Receive(c, r) ==
    LET k == ReportOf[r].key IN
    /\ At(c, "idle")
    /\ receipt' = [receipt EXCEPT ![k] = IF @ = "NONE" THEN "received" ELSE @]
    /\ call' = [call EXCEPT ![c] =
                    [at |-> IF receipt[k] \in Handled THEN "done" ELSE Route(r),
                     report |-> r, again |-> FALSE]]
    /\ UNCHANGED <<movement, remembered, reaping, books, bounds>>

\* Timestamp (a late delivery is stale), signature, then the replay key. Where a
\* partner has no secret and none is required, there is no signature to check.
Verify(c) ==
    LET report == ReportOf[call[c].report]
        accepted == (report.genuine \/ report.route = "open") /\ report.key \notin remembered IN
    /\ At(c, "verify")
    /\ \/ accepted /\ Go(c, "parse") /\ remembered' = remembered \cup {report.key}
       \/ Go(c, "reject") /\ UNCHANGED remembered
    /\ UNCHANGED <<rows, reaping, books, bounds>>

Forget(k) ==
    /\ k \in remembered /\ remembered' = remembered \ {k}
    /\ UNCHANGED <<rows, call, reaping, books, bounds>>

Reject(c) ==
    /\ At(c, "reject") /\ Go(c, "done")
    /\ receipt' = [receipt EXCEPT ![KeyOf(c)] = "rejected"]
    /\ UNCHANGED <<movement, remembered, reaping, books, bounds>>

Parse(c) ==
    /\ At(c, "parse") /\ Go(c, "claim")
    /\ UNCHANGED <<rows, remembered, reaping, books, bounds>>

\* The partner's circuit is open, its bulkhead full, or the parser throws: the
\* receipt is marked failed whatever it was, also while another call applies it.
ParseFails(c) ==
    /\ At(c, "parse") /\ Go(c, "done")
    /\ \A k \in Key : unparsed[k] < MaxUnparsed
    /\ unparsed' = [unparsed EXCEPT ![KeyOf(c)] = @ + 1]
    /\ receipt' = [receipt EXCEPT ![KeyOf(c)] = "failed"]
    /\ UNCHANGED <<movement, remembered, reaping, books, faults, crashes>>

\* Mutant: the claim looks only for an event that was applied.
ClaimableUnlessApplied(k) == receipt[k] # "applied"
Claimable(k) == receipt[k] \in {"received", "failed"}

Claim(c) ==
    LET k == KeyOf(c) IN
    /\ At(c, "claim")
    /\ \/ /\ Claimable(k) /\ Go(c, "find")
          /\ receipt' = [receipt EXCEPT ![k] = "processing"]
       \/ ~ Claimable(k) /\ Go(c, "done") /\ UNCHANGED receipt
    /\ UNCHANGED <<movement, remembered, reaping, books, bounds>>

Finish(c) ==
    /\ At(c, "applied") \/ At(c, "failed")
    /\ Go(c, "done")
    /\ receipt' = [receipt EXCEPT ![KeyOf(c)] = call[c].at]
    /\ UNCHANGED <<movement, remembered, reaping, books, bounds>>

-----------------------------------------------------------------------------
(* The movement *)

Settled(m) == movement[m].paid \/ movement[m].status = "completed"
RecordOnly(m) == DirectionOf[m] = "RECORD"
Settles(says) == says = "completed"

Find(c) ==
    LET m == Of(c) IN
    /\ At(c, "find")
    /\ Go(c, CASE movement[m].status = "NONE" -> "failed"
               [] movement[m].status # "NONE" /\ Settled(m) -> "applied"
               [] OTHER -> IF Settles(Says(c)) /\ ~ RecordOnly(m) THEN "post" ELSE "write")
    /\ UNCHANGED <<rows, remembered, reaping, books, bounds>>

Write(c) ==
    /\ At(c, "write") /\ Go(c, "applied")
    /\ movement' = [movement EXCEPT ![Of(c)].status = Says(c)]
    /\ UNCHANGED <<receipt, remembered, reaping, books, bounds>>

Post(c) ==
    /\ At(c, "post") /\ Go(c, "posted")
    /\ posted' = [posted EXCEPT ![KeyOf(c)] = @ + 1] /\ moved' = moved \cup {call[c].report}
    /\ UNCHANGED <<rows, remembered, reaping, bounds>>

Complete(c) ==
    /\ At(c, "posted") /\ Go(c, "applied")
    /\ movement' = [movement EXCEPT ![Of(c)] = [status |-> "completed", paid |-> TRUE]]
    /\ UNCHANGED <<receipt, remembered, reaping, books, bounds>>

\* applyNormalizedCallback tries a deposit as a plain movement once more.
Throw(c) ==
    LET retry == DirectionOf[Of(c)] = "IN" /\ ~ call[c].again IN
    /\ At(c, "write") \/ At(c, "post") \/ At(c, "posted")
    /\ \A k \in Key : faults[k] < MaxFaults
    /\ faults' = [faults EXCEPT ![KeyOf(c)] = @ + 1]
    /\ call' = [call EXCEPT ![c] = [at |-> IF retry THEN "find" ELSE "failed",
                                    report |-> @.report, again |-> retry]]
    /\ UNCHANGED <<rows, remembered, reaping, books, unparsed, crashes>>

Crash(c) ==
    /\ call[c].at \notin {"idle", "done"} /\ Go(c, "done")
    /\ crashes < MaxCrashes /\ crashes' = crashes + 1
    /\ UNCHANGED <<rows, remembered, reaping, books, faults, unparsed>>

-----------------------------------------------------------------------------
(* The scheduler: a query for stuck movements, then one update for each *)

ReapRead(m) ==
    /\ movement[m].status \in {"initiated", "processing"} /\ ~ movement[m].paid
    /\ m \notin reaping /\ reaping' = reaping \cup {m}
    /\ UNCHANGED <<rows, remembered, call, books, bounds>>

ReapWrite(m) ==
    /\ m \in reaping /\ reaping' = reaping \ {m}
    /\ movement' = [movement EXCEPT ![m].status = "failed"]
    /\ UNCHANGED <<receipt, remembered, call, books, bounds>>

Next ==
    \/ \E m \in Movement : Initiate(m) \/ ReapRead(m) \/ ReapWrite(m)
    \/ \E k \in Key : Forget(k)
    \/ \E c \in Call :
        \/ \E r \in Report : Receive(c, r)
        \/ Verify(c) \/ Reject(c) \/ Parse(c) \/ ParseFails(c) \/ Claim(c) \/ Finish(c)
        \/ Find(c) \/ Write(c) \/ Post(c) \/ Complete(c)
        \/ Throw(c) \/ Crash(c)

ProviderSpec == Init /\ [][Next]_vars

-----------------------------------------------------------------------------
Stage == {"idle", "verify", "reject", "parse", "claim", "find", "write", "post", "posted",
          "applied", "failed", "done"}
Applying == {"find", "write", "post", "posted", "applied", "failed"}
Appliers(k) == {c \in Call : call[c].at \in Applying /\ KeyOf(c) = k}

(* Types; and a movement that says "completed" or names a transaction has    *)
(* a report under which the ledger moved money, unless it is only a record.  *)
ProviderTypeOK ==
    /\ receipt \in [Key -> Handled \cup {"NONE", "received", "failed"}]
    /\ remembered \subseteq Key
    /\ movement \in [Movement -> [status : {"NONE", "initiated", "recorded", "processing",
                                            "failed", "completed"}, paid : BOOLEAN]]
    /\ call \in [Call -> [at : Stage, report : Report \cup {NoReport}, again : BOOLEAN]]
    /\ reaping \subseteq Movement /\ moved \subseteq Report /\ crashes \in Nat
    /\ posted \in [Key -> Nat] /\ faults \in [Key -> Nat] /\ unparsed \in [Key -> Nat]
    /\ \A m \in Movement :
        Settled(m) => DirectionOf[m] = "RECORD" \/ \E r \in moved : ReportOf[r].of = m

(* One delivery at a time applies what arrived under a dedupe key, and one   *)
(* more for each delivery that parsing stopped: that marks the receipt       *)
(* failed, also while another delivery applies it, and so gives the claim    *)
(* away again. Redelivery, rejection, a crash or a failed application do     *)
(* not. Reports of one event under two keys are not kept apart by this.      *)
OneClaimAtATime == \A k \in Key : Cardinality(Appliers(k)) <= 1 + unparsed[k]

(* Under a dedupe key the ledger posts once, once more at most for each      *)
(* statement that threw while it was applied, and once more for each         *)
(* delivery that parsing stopped: redelivery, races of deliveries, a crash   *)
(* or the scheduler never add a posting.                                     *)
PostedPerKey == \A k \in Key : posted[k] <= 1 + faults[k] + unparsed[k]

(* Money moves only for a report of completion that has a receipt and that   *)
(* the route it came by may take for genuine: where signatures are checked a *)
(* forged one moves nothing, also one delivered again after it failed, and a *)
(* report that the provider is still processing moves nothing on any route.  *)
GenuineBeforeMoney ==
    \A r \in moved :
        /\ ReportOf[r].says = "completed" /\ receipt[ReportOf[r].key] # "NONE"
        /\ ReportOf[r].route = "signed" => ReportOf[r].genuine

=============================================================================
