------------------------------ MODULE Payments ------------------------------
(***************************************************************************)
(* Confirming a payment: a previewed quote is bound to the client's        *)
(* idempotency key, the payment processor takes the key's row in           *)
(* ent_idempotency_keys, posts once through the ledger, keeps its answer   *)
(* in that row and writes the outcome into the quote. Calls of one user    *)
(* run on several nodes; every statement is a step of its own, and a node  *)
(* may die between two. The ledger's commit is atomic (LedgerPosting); a   *)
(* call draws a new reference, so the ledger cannot recognise a repeat.    *)
(***************************************************************************)
EXTENDS Naturals, FiniteSets

CONSTANTS
    Quote,      \* previews one user may ask for
    Key,        \* idempotency keys the client makes up
    NoKey,
    Call,       \* calls of /transactions/settle
    MaxCrashes  \* bound on calls whose node dies

ASSUME PaymentAssumption == NoKey \notin Key /\ IsFiniteSet(Call) /\ MaxCrashes \in Nat

VARIABLES
    quote,      \* row of transaction_quotes
    late,       \* quotes past expires_at
    row,        \* answer kept for each key in ent_idempotency_keys
    call,       \* where each call is, and what it carries
    posted,     \* ledger transactions posted under each key
    paid,       \* which quotes were paid under which keys
    cleared,    \* times the row of a key was cleared
    unguarded,  \* calls that found neither a free nor a taken row
    crashes

tables == <<quote, row>>
history == <<posted, paid, cleared, unguarded>>
vars == <<tables, late, call, history, crashes>>

NoQuote == [status |-> "NONE", key |-> NoKey]
At(c, stage) == call[c].at = stage
Go(c, stage) == call' = [call EXCEPT ![c].at = stage]
Conclude(c, stage, result) ==
    call' = [call EXCEPT ![c] = [at |-> stage, quote |-> @.quote, key |-> @.key,
                                 result |-> result]]
Answer(c, result) == Conclude(c, "answer", result)

Init ==
    /\ quote = [q \in Quote |-> NoQuote] /\ late = {}
    /\ row = [k \in Key |-> "NONE"]
    /\ call \in [Call -> [at : {"idle"}, quote : Quote, key : Key, result : {"NONE"}]]
    /\ posted = [k \in Key |-> 0] /\ paid = {}
    /\ cleared = [k \in Key |-> 0] /\ unguarded = [k \in Key |-> 0]
    /\ crashes = 0

-----------------------------------------------------------------------------
(* The quote *)

Preview(q) ==
    /\ quote[q].status = "NONE"
    /\ \E s \in {"QUOTED", "BLOCKED"} : quote' = [quote EXCEPT ![q].status = s]
    /\ UNCHANGED <<row, late, call, history, crashes>>

TimePasses(q) ==
    /\ quote[q].status # "NONE" /\ q \notin late
    /\ late' = late \cup {q}
    /\ UNCHANGED <<tables, call, history, crashes>>

RetryOf(c) ==
    quote[call[c].quote] = [status |-> "CONFIRMED", key |-> call[c].key]

BindRead(c) ==
    /\ At(c, "idle")
    /\ quote[call[c].quote].status = "QUOTED" \/ RetryOf(c)
    /\ Go(c, CASE call[c].quote \in late -> "expire"
               [] RetryOf(c) -> "bound"
               [] OTHER -> "read")
    /\ UNCHANGED <<tables, late, history, crashes>>

WriteExpired(c) ==
    /\ At(c, "expire") /\ Go(c, "done")
    /\ quote' = [quote EXCEPT ![call[c].quote].status = "EXPIRED"]
    /\ UNCHANGED <<row, late, history, crashes>>

\* Mutant: a quote that is confirmed under another key is bound again.
BindableOver(q, k) == \A p \in Quote : quote[p].key # k
\* The conditional update, and the unique index on the key of a user.
Bindable(q, k) ==
    quote[q].status = "QUOTED" /\ \A p \in Quote : quote[p].key # k

BindWrite(c) ==
    LET q == call[c].quote  k == call[c].key IN
    /\ At(c, "read")
    /\ \/ /\ Bindable(q, k) /\ Go(c, "bound")
          /\ quote' = [quote EXCEPT ![q] = [status |-> "CONFIRMED", key |-> k]]
       \/ /\ ~ Bindable(q, k)
          /\ Go(c, IF RetryOf(c) THEN "bound" ELSE "done")
          /\ UNCHANGED quote
    /\ UNCHANGED <<row, late, history, crashes>>

\* Policy and KYC limits of the route: the quote stays confirmed.
Deny(c) ==
    /\ At(c, "bound") /\ Go(c, "done")
    /\ UNCHANGED <<tables, late, history, crashes>>

-----------------------------------------------------------------------------
(* The key *)

\* Mutant: only a call that is still running takes the key.
FreeUnlessTaken(k) == row[k] # "OK"
Free(k) == row[k] = "NONE"

Register(c) ==
    LET k == call[c].key IN
    /\ At(c, "bound")
    /\ \/ Free(k) /\ row' = [row EXCEPT ![k] = "PROCESSING"] /\ Go(c, "paying")
       \/ UNCHANGED row /\ Go(c, "lookup")      \* the insert fails, for any reason
    /\ UNCHANGED <<quote, late, history, crashes>>

Lookup(c) ==
    LET k == call[c].key IN
    /\ At(c, "lookup")
    /\ \/ row[k] = "PROCESSING" /\ Go(c, "done") /\ UNCHANGED unguarded
       \/ row[k] \in {"OK", "FAILED"} /\ Answer(c, row[k]) /\ UNCHANGED unguarded
       \/ /\ row[k] = "NONE" /\ Go(c, "paying")
          /\ unguarded' = [unguarded EXCEPT ![k] = @ + 1]
    /\ UNCHANGED <<tables, late, posted, paid, cleared, crashes>>

\* saveResponse is an update, and finds nothing once the row was cleared.
Kept(k, answer) == [row EXCEPT ![k] = IF @ = "NONE" THEN @ ELSE answer]

ClearKey(k) ==
    /\ row' = [row EXCEPT ![k] = "NONE"]
    /\ cleared' = [cleared EXCEPT ![k] = @ + 1]

-----------------------------------------------------------------------------
(* The payment *)

Refuse(c) ==
    /\ At(c, "paying") /\ Answer(c, "FAILED")
    /\ row' = Kept(call[c].key, "FAILED")
    /\ UNCHANGED <<quote, late, history, crashes>>

Challenge(c) ==
    /\ At(c, "paying") /\ Answer(c, "CHALLENGE") /\ ClearKey(call[c].key)
    /\ UNCHANGED <<quote, late, posted, paid, unguarded, crashes>>

\* LOCK_TIMEOUT or LEDGER_COMMIT_FAILED before the commit, or (posted) after it.
Stumble(c) ==
    /\ At(c, "paying") \/ At(c, "posted")
    /\ Answer(c, "FAILED") /\ ClearKey(call[c].key)
    /\ UNCHANGED <<quote, late, posted, paid, unguarded, crashes>>

Post(c) ==
    LET k == call[c].key IN
    /\ At(c, "paying") /\ Go(c, "posted")
    /\ posted' = [posted EXCEPT ![k] = @ + 1]
    /\ paid' = paid \cup {<<call[c].quote, k>>}
    /\ UNCHANGED <<tables, late, cleared, unguarded, crashes>>

Save(c) ==
    /\ At(c, "posted") /\ Conclude(c, "saved", "OK")
    /\ row' = Kept(call[c].key, "OK")
    /\ UNCHANGED <<quote, late, history, crashes>>

\* A check, an event or a message throws after the money moved.
Disown(c) ==
    /\ At(c, "posted") \/ At(c, "saved")
    /\ Answer(c, "FAILED") /\ row' = Kept(call[c].key, "FAILED")
    /\ UNCHANGED <<quote, late, history, crashes>>

\* Mutant: whatever did not fail is settled.
VerdictLoose(result) == IF result = "FAILED" THEN "FAILED" ELSE "SETTLED"
Verdict(result) ==
    CASE result = "OK" -> "SETTLED" [] result = "CHALLENGE" -> "CONFIRMED" [] OTHER -> "FAILED"

Mark(c) ==
    /\ At(c, "answer") \/ At(c, "saved")
    /\ Go(c, "done")
    /\ quote' = [quote EXCEPT ![call[c].quote].status = Verdict(call[c].result)]
    /\ UNCHANGED <<row, late, history, crashes>>

Crash(c) ==
    /\ call[c].at \notin {"idle", "done"} /\ Go(c, "done")
    /\ crashes < MaxCrashes /\ crashes' = crashes + 1
    /\ UNCHANGED <<tables, late, history>>

Next ==
    \/ \E q \in Quote : Preview(q) \/ TimePasses(q)
    \/ \E c \in Call :
        \/ BindRead(c) \/ WriteExpired(c) \/ BindWrite(c) \/ Deny(c)
        \/ Register(c) \/ Lookup(c)
        \/ Refuse(c) \/ Challenge(c) \/ Stumble(c) \/ Post(c)
        \/ Save(c) \/ Disown(c) \/ Mark(c) \/ Crash(c)

PaymentSpec == Init /\ [][Next]_vars

-----------------------------------------------------------------------------
Stage == {"idle", "expire", "read", "bound", "lookup", "paying", "posted", "saved",
          "answer", "done"}

(* Types; and a quote carries a key exactly while it is, or was, confirmed:  *)
(* a settled or failed quote is not offered again.                           *)
PaymentTypeOK ==
    /\ quote \in [Quote -> [status : {"NONE", "BLOCKED", "QUOTED", "CONFIRMED", "SETTLED",
                                      "FAILED", "EXPIRED"}, key : Key \cup {NoKey}]]
    /\ \A q \in Quote :
        /\ quote[q].status \in {"NONE", "BLOCKED", "QUOTED"} => quote[q].key = NoKey
        /\ quote[q].status \in {"CONFIRMED", "SETTLED", "FAILED"} => quote[q].key # NoKey
    /\ late \subseteq Quote
    /\ row \in [Key -> {"NONE", "PROCESSING", "OK", "FAILED"}]
    /\ call \in [Call -> [at : Stage, quote : Quote, key : Key,
                          result : {"NONE", "OK", "FAILED", "CHALLENGE"}]]
    /\ posted \in [Key -> Nat] /\ paid \subseteq Quote \X Key
    /\ cleared \in [Key -> Nat] /\ unguarded \in [Key -> Nat] /\ crashes \in Nat

(* A key posts once, and once more at most for each time its row was cleared *)
(* or a call went on without a row: the row in ent_idempotency_keys is the   *)
(* only thing that stands between a repeated call and a second payment.      *)
PostingsAccounted ==
    \A k \in Key : posted[k] <= 1 + cleared[k] + unguarded[k]

(* A quote is paid under the key that confirmed it and no other, whatever    *)
(* calls race to confirm it: no quote is paid under two keys.                *)
QuotePaysUnderItsKey ==
    \A p \in paid : quote[p[1]].key = p[2]

(* What the status route calls settled was paid, and so was whatever the key *)
(* answers a repeated call with.                                             *)
SettledIsPaid ==
    /\ \A q \in Quote : quote[q].status = "SETTLED" => <<q, quote[q].key>> \in paid
    /\ \A k \in Key : row[k] = "OK" => posted[k] > 0

=============================================================================
