# ORBI Institutional Core: a formal model of its money movements

TLA+ modules, TLC configurations and TLAPS proofs for the core of ORBI: the
database functions that post to the ledger, the settlement of internal
transfers, the review and reversal procedures that act on the same transfers,
the PaySafe escrows, the governance of organizations and the withdrawals from
their treasuries, shared pots and budgets, the confirmation of payments and the
events of outside providers. Paths without a prefix are relative to `src/`.
`PROJECT.json` maps each definition to the lines it models and lists the runs,
the mutants that show each property can fail, the hazards and the theorems.

## The system

ORBI is a TypeScript service over a PostgreSQL database. Several processes run
it: the API server (`server.ts`), the older backend server (`backend/server.ts`)
and the broker (`BROKER/InternalBroker.ts`). Each starts the same timers. Money
is moved only by database functions; what happens *between* two database calls
of a TypeScript procedure is not atomic, and this is where most of the
difficulty lies.

| Component | State | Operations | Hard because |
|---|---|---|---|
| Ledger posting (`database/main.sql:4090-4870`) | wallets, vaults, goals, `financial_ledger`, `ledger_append_markers` | `post_transaction_v2`, `append_ledger_entries_v1` | concurrent calls lock the same rows, copy balances and write them back; retries under one key |
| Internal transfer settlement (`backend/ledger/transactionEngine.ts:768-932`) | `transactions.status`, `settlement_lifecycle`, the sender's vault | `process`, claim, append, zero-sum check, complete | four calls per settlement, many workers, crashes, a lease of five minutes |
| Review, recall, reversal (`ledger/transactionService.ts:1853-2222`, `backend/ledger/reconciliationService.ts`, `src/routes/internal/index.ts:816-890`) | `metadata.transaction_lock`, status | hold, audit, approve, reverse, the worker's resolve and reverse routes, the reaper's two loops | no row lock at all: read in one call, write in another |
| PaySafe escrow (`ledger/escrowService.ts`, `database/main.sql:6680-7945`) | `escrow_agreements`, transaction, shared vault | create, accept, release, refund, dispute, merchant settlement | two parties, windows that end, a reaper that knows nothing of agreements |
| Organization governance (`database/main.sql:9810-10940`) | roles, primary administrator, treasury approvers, quorum, recovery contacts, requests | ask, endorse, grant, refuse, recover, reactivate | requests decided side by side, each checked twice |
| Treasury withdrawals (`backend/enterprise/treasuryService.ts`, `database/main.sql:9893-10230`) | the withdrawal's row, goal, lease | request, approve, claim, execute, recover | quorum while the roster changes; crash between claim and posting |
| Shared pots (`src/routes/public/wealthSharedPotRoutes.ts`, `...PotFinance.ts`, `database/main.sql:8384-9120`) | pot, members, invitations, withdrawal and archive requests | create, patch, invite, contribute, withdraw, review, archive | lists of approvals overwrite each other; votes race the payment |
| Shared budgets (`src/routes/public/wealthSharedBudgetRoutes.ts`, `...BudgetFinance.ts`, `database/main.sql:9210-9530, 10960-11052`) | budget, members and limits, approvals with a claim | allocate, spend, review, claim, finish | two reviewers, a claim that ends, amounts computed from old reads |
| Payment confirmation (`backend/payments/TransactionQuoteService.ts`, `backend/enterprise/...`) | `transaction_quotes`, `ent_idempotency_keys` | preview, bind, register, pay, save, mark | a key is all that stands between a repeat and a second payment |
| Provider events (`backend/payments/webhookHandler.ts`, `InstitutionalFundsService.ts`, `settlementScheduler.ts`) | `provider_webhook_events`, replay keys, `external_fund_movements` | receive, verify, parse, claim, settle, reap | reports late, twice, out of order, under a key of the request's choice; parsers and statements that throw |
| Gateway intents, settlement lifecycle | intents | create, confirm | see "Not modelled" |
| Treasury sweeps, card settlement, bill reserves | own functions | claim and sweep, authorize, adjust, settle | share the wallets with the ledger functions |
| Notification delivery | delivery rows | claim, finish, retry | lease and retry |
| Identity, OTP, sessions | challenges, refresh tokens | issue, verify, rotate | replay, expiry |
| Risk, policy, FX, wealth bookkeeping, messaging, monitoring, routes | - | score, quote, format, report | mostly pure or I/O |

How they interact: `process` stages a transfer with `post_transaction_v2` and
calls `completeSettlement` at once; `settleProcessingTransactions` does the same
every minute for what is still `processing`; `reapStuckTransactions` does it for
what is stuck and reverses what it cannot settle, and takes over treasury
withdrawals whose lease ran out; `autoReverseHeldTransactions` reverses whatever
has been `held_for_review` for 24 hours, of whatever type, so also a disputed
escrow. The settle route binds a quote and hands the payment to the enterprise
processor; a webhook settles a movement; pots, budgets and treasuries move money
by functions of their own. Everything ends in the posting functions, and every
transfer and every escrow of a sender waits in one vault, so a wrong move of one
is paid silently with the money of another.

What makes each part correct:

- postings: no update is lost, a key is posted once, locks make no cycle;
- settlement: delivered once, `completed` means delivered, only the owner of the
  newest claim decides, and nothing stays `processing`;
- review: a hold stops a settlement, money returns to the sender at most once;
- escrow: one payout, to the party the agreement says, from money that is there;
- governance: nobody decides alone or about themselves, the primary stays an
  administrator, a suspended user comes back without privileges;
- treasury: money leaves once, after the quorum, within the limit, and what is
  approved is paid while the goal covers it and the receiving wallet is usable;
- pots and budgets: one payment per request (of a budget: per withdrawal), by the
  quorum or the claim that the request needs, from what is there, and none from a
  frozen pot or budget;
- payments: a quote is paid under one key, what is reported settled was paid;
- provider events: per dedupe key one application at a time and one posting, save
  for parse failures and statements that threw; no money without a report, and
  where signatures are checked without a genuine one.

## The modules

| Module | What it is | Checked by |
|---|---|---|
| `LedgerLegs` | the arithmetic of a posting: which rows, running debits, balanced legs | `Posting` |
| `AtomicPosting` | abstract: a posting happens at once or not at all | refined by `LedgerPosting` |
| `LedgerPosting` | the posting calls lock by lock | `Posting`, `LedgerPosting_proofs` |
| `InternalTransfer` | abstract: a transfer is held once and delivered at most once | refined by `TransferSettlement` |
| `TransferSettlement` | the four calls of `completeSettlement`, with crashes and leases | `Settlement`, `TransferSettlement_proofs` |
| `SettlementReview` | extends it with staff, recall, internal routes and reaper | `Review_*`, `TransferSettlement_proofs` |
| `PaySafeEscrow` | agreements, their transactions, the shared vault and the reaper | `PaySafe_*`, `HeldMoney_proofs` |
| `Organization` | governance of one organization | `Organization`, `Treasury_proofs` |
| `Treasury` | extends it with withdrawals and their execution | `Treasury`, `Treasury_proofs` |
| `SharedPot` | one pot, read by read and write by write | `SharedPot`, `SharedPot_proofs` |
| `SharedBudget` | one budget, the same way | `SharedBudget`, `HeldMoney_proofs` |
| `Payments` | quotes, idempotency rows and payments | `Payments`, `Payments_proofs` |
| `ProviderEvents` | deliveries, receipts, movements and the scheduler | `ProviderEvents`, `ProviderEvents_proofs` |
| `SumTheorems` | lemmas about sums over finite sets, which the proofs about money share | tlapm |
| `MC*` | values of the constants for TLC | |

Each layer takes the one below it as one step: an append is one action in
`TransferSettlement`, a payment one in `Payments`, and `LedgerPosting` is the
module that shows, with locks, copies and keys, that a call is such a step.

**LedgerLegs, LedgerPosting.** A call of `post_transaction_v2` locks its rows in
the order of type and id (`main.sql:4201`), copies their balances
(`v_balance_map`), inserts the transaction under its unique reference, computes
each leg on the copies and writes them. `append_ledger_entries_v1` inserts its
marker first and then locks in the same order. `transition_paysafe_escrow_v1`
locks the agreement and then the two vaults in the order of the money's way. A
unique key of an unfinished transaction is waited for like a row. Actions:
`LockRow`, `RowUnavailable`, `InsertKey`, `KeyTaken`, `Commit`, `Reject`, the
database's `DeadlockVictim`, `Cancel` (timeout, lost connection), and an
administrator's `Freeze` and `Unfreeze`. Entities are numbered in lock order.

**TransferSettlement.** `txStatus` is `transactions.status`; `stage`, `claim`
and `lease` are the lifecycle row (`claim` numbers the fresh `worker_claim_id`s,
`lease` says `processing_at` is younger than five minutes); `marker` is the
append marker of the transfer; `pc`, `job` and `token` are where a worker is in
`completeSettlement`, for which transfer and with which claim. One action per
call and branch: `StageTransfer`, `Claim`, `ClaimAlreadySettled`,
`AppendRelease`, `AppendSkip`, `AppendRejected`, `VerifyZeroSum`, the four
branches of `complete_internal_transfer_settlement`; `Crash` between any two,
`LeaseExpire`, and a lock on the receiver's wallet. `verifyZeroSum` adds up
decrypted amounts, so its verdict is left open. A process crash, a timeout and a
lost answer are the same to the database, the next worker starts over.

**SettlementReview** adds agents whose procedures are a sequence of calls with a
local copy (`seen`) of what they read: `lockTransactionForReview`,
`recordAuditDecision`, `approveReviewedTransaction`,
`reverseTransactionWithReason`, the internal worker's resolve and reverse routes
and the two loops of the reaper. Reading the legs, posting their inverse,
checking the status and writing it are four actions. A reaper is a worker too:
its cycle first settles, and reverses when `completeSettlement` answers false
(`GivenUp`): the append was refused, the legs do not balance, whatever the
finalizing call then said. A locked receiver is thrown as a fault instead, and
the reaper leaves the transfer alone. `RouteReverse` and `RouteFail` act as
requests of `Staff`; the resolve route with the verdict `completed` calls
`completeSettlement` and is one of the workers.

**PaySafeEscrow.** Each branch of the two database functions is one action, for
they lock the agreement, the transaction and the vaults in one transaction. The
reaper's reversal of a held transaction is one action per call. `expiry` keeps
what matters of `expires_at`: unset, in the future, past.

**Organization.** A request is a record in `open` with what it asks for, who
asked, who approved and in which phase it is; its life is `Ask`, `Endorse` or
`Grant`, `Refuse`, `Expire`, `CoolDown`. The functions lock the row they answer
and are one action each, but for the removal of an approver, which counts the
roster (`CountApprovers`) and updates it (`RemoveApprover`) in two statements
with no lock on the roster. `Needed` is the quorum of a leadership change.
`decided` and `recovered` only record what happened, for the properties. A super
administrator who reviews may be a member of the organization; that it is neither
who asked nor whom the case is about is checked by `ReviewsRecovery`,
`ReviewsReactivation` and `ReviewContact`, as in the functions. An approver request that ran out stays PENDING, because the exception undoes the
update (`main.sql:10296`), and so blocks the next one for that user.

**Treasury** extends `Organization`: either the organization moves or the
treasury does. `CheckRequest` and `InsertRequest` are the sum of the day and the
insert of `request_treasury_withdrawal_v1`; what its row locks exclude is
`LocksFree`. `ApproveLast` claims the execution for the approver's server
process, `Claim` is the reaper's take-over, and the execution is a step per call:
`ReadRow`, `ReadLegs`, `AppendLegs` or `AppendRejected`, `CheckStatus`,
`WriteStatus`, `FinishExecution`, with `Crash` between any two and `LeaseExpire`
at any time. The append needs a goal that covers it and a receiving wallet that
is not locked (`Postable`), and owners and administrators lock and unlock wallets
(`LockWallet`, `UnlockWallet`). It is assumed that the maker's INTERNAL_TRANSFER vault does not
cover the withdrawal, see "Disagreements".

**SharedPot, SharedBudget.** `op[h]` is a request in progress: which user's, what
it read (`seen`, `need`, `funded`, `spent`) and what is left to do (`at`). Every
read and every write of a row through the REST client is a step; the database
functions (contribute, withdraw, respond to an invitation, allocate, claim and
finish an approval) are one step each. A crash is `Drop`, which any handler may
take at any point. `posted` counts the transactions per reference: a client's key
or the `approved_<id>` of a reviewed request. An invitation that is out of date is
listed (`ListDue`) and then marked by its id (`MarkExpired`), whatever became of
it in between. In `SharedPot` all movements are of
one unit, a user has one withdrawal and one archive request, `COMPLETED` pots
behave as `PAUSED` ones, and `contributed_amount` is left out. In `SharedBudget`
a payment to an outside provider is one step from the spender's own wallet, which
the engine may repeat under a key it has cleared or not found (`Payments` shows
how), and the route then writes the spent amounts it computed before.

**Payments.** `call` is a run of the settle route and the processor below it:
`BindRead` and `BindWrite` are the two statements of `bindSettlementQuote`,
`Register` and `Lookup` those of `checkOrRegister`, then the payment is refused,
challenged, fails (`Stumble`), or posts, is saved and marked. An insert may fail
for any reason, also with no row there. `Disown` is an exception after the
posting. `SETTLING` and `SETTLED` are one value.

**ProviderEvents.** A report is a request with its headers: what it says of which
movement, the dedupe key it brings and the route it comes by. The key is the first
of three headers, `x-request-id` among them, and only then a field of the payload
(`gatewayRoutes.ts:559`, `WebhookVerificationService.ts:115`), so `ReportOf` may
give two reports of one event two keys, and reports of two events one. `receipt`
is `provider_webhook_events.application_status` per key, `remembered` the replay
keys in Redis, `movement` the row of `external_fund_movements`. `Receive`,
`Verify`, `Reject`, `Parse` or `ParseFails`, `Claim`, `Find`, `Write` or `Post`
and `Complete`, `Finish` are the statements of a delivery. On the route `signed` the
signature is checked, on `open` there is no secret to check it with, and reports of
the `trusted` gateway are claimed at once (`Route`). `ParseFails` is a circuit that
is open, a full bulkhead or a parser that throws: it marks the receipt failed
without looking at it. `Throw` is a statement that fails:
`applyNormalizedCallback` tries a deposit once more. `Forget` (a key expires, or
there is no Redis) may happen at any time; `ReapRead` and `ReapWrite` are the
scheduler.

## The runs

| Run | Instance | Distinct states | Shows |
|---|---|---|---|
| `Settlement` | 3 transfers of 2, 1, 1 from a wallet of 3; 2 workers; 2 faults; 2 refusals | 178,283 | `ReleasedAtMostOnce`, `CompletedMeansDelivered`, `VaultCoversHeld`, `OwnerDecides`, refinement of `InternalTransfer`, and `SettlementEnds` |
| `Review_safety` | 1 transfer, a worker that is also a reaper, 1 staff member, 1 fault, 1 refusal | 6.3 million | a hold, a reversal or a failure stops a settlement in flight |
| `PaySafe_parties` | 2 personal escrows and a merchant's, every vault freezable | 32,416 | the shared vault covers the open escrows; agreement and transaction agree; consent; frozen vaults stand still |
| `PaySafe_reapers` | 1 personal, 1 merchant's escrow, 2 reapers, 1 crash | 596,448 | one payout per escrow, even while held escrows are reversed behind the agreement's back |
| `Posting` | 5 calls on 3 entities, 1 freeze, 1 cancel | 52,472 | no negative balance, no lost update, no cycle of posts and appends, refinement of `AtomicPosting` |
| `Organization` | 5 people (2 administrators, one of them a super administrator too, a signatory, finance, a member), 3 requests | 73,145 | the primary is an administrator, four eyes, return as a member |
| `Treasury` | 3 withdrawals of 2, 3, 4 from a goal of 4, daily limit 5, 3 approvers, 2 processes, 1 crash, 1 locking of the wallet, 1 governance request | 157,231 | quorum before money, withdrawn once, the daily limit, and an approved withdrawal gets paid unless its goal runs short or its wallet stays locked |
| `SharedPot` | 4 users, 2 requests in progress of 6, 2 invitations, 1 patch | 480,416 | paid by the quorum, once; EXECUTED is paid; entry uses an invitation; a frozen pot keeps its money |
| `SharedBudget` | 3 users, 2 requests in progress of 3, 3 invitations, 3 keys, 1 patch (pause, or review switched off), 1 forgotten key | 1.32 million | one payment per key of a withdrawal, after a claim, within budget and limit, none from a paused budget |
| `Payments` | 2 quotes, 2 keys, 3 calls, 1 crash | 417,998 | postings per key accounted for; a quote is paid under its key; settled is paid |
| `ProviderEvents` | a deposit, a payout, a record; 4 reports under 3 keys, 1 forged; 3 deliveries; 1 fault, 1 parse failure, 1 crash | 2.6 million | claims and postings per key accounted for; no money without a report, or with a forged one where signatures are checked |

Why the bounds are enough: every hazard needs at most two concurrent agents on
one object and a second object whose money can be taken by mistake, or a third
call that finds what two have left. In `Settlement` two faults let a first
worker die and a second be late for one transfer; three transfers let the
sender's wallet refuse one. `Review_safety` has one transfer and one worker, who
is also the reaper, because a second worker takes it beyond what TLC does in
minutes; what two workers do to each other is in `Settlement`, and the staff
member may run any number of procedures after each other. In `Posting` the five
calls share rows in both directions, two pairs share a key, one moves a row
twice, one does not balance and one is the PaySafe transition with its other lock
order, so cycles of waits do happen. In `Organization` three requests are what
it takes to have a target become protected while a change of it is open. The
`Treasury` instance exceeds both the goal and the limit: the first two
withdrawals fit the day and not the goal, the third fits only alone, and the goal
would pay the first one twice. Only one of its people is an administrator, so of
the governance the policy changes and approver requests are asked for and expire;
changes of the roster are covered by the proof. In `SharedPot` and `SharedBudget` six and three requests
are two reviewers and what comes before them, and a member may leave and return.
In `ProviderEvents` the forged report brings the key of a genuine one, the deposit
is reported under two keys, and three deliveries let the parse failure of one
reset the receipt that a second applies and a third claims.

The bounds are `MaxFaults`, `MaxRefusals` (locks and refused appends),
`MaxCrashes`, `MaxFreezes`, `MaxCancels`, `MaxRequests`, `MaxBlocks` (locked
wallets), `MaxPatches`, `MaxLapses` (payments under a forgotten key),
`MaxUnparsed` (parse failures) and `MaxCalls`: each counts one kind of event in its action's guard and nothing else
reads it. Symmetry is used in `SharedPot`, `SharedBudget`, `Payments` and
`ProviderEvents`, over handlers, calls, keys and quotes that the constants do not
tell apart, and in no run with a liveness property. `CHECK_DEADLOCK FALSE`
stands in every configuration because the systems do stop: when all transfers
are settled, all escrows closed, all calls ended, all requests made.

### Disagreements between code and documents

`Review_two_reapers` checks one statement of the repository and is violated:
`docs/ORBI_CORE_ENGINEERING_ARCHITECTURE.md:35` calls money movements
idempotent, and the cycles of two processes both reverse one held transfer,
because the inverse legs get a fresh id and reference and nothing ties them to an
earlier reversal. In the trace the transfer was released and then held over a
residual, both reversals credit the sender and debit the receiver, and the second
takes what the receiver got from another transfer. The same happens with one
reaper that dies between posting the inverse legs and writing the status: the
next cycle reverses the transfer again.

The models reach the following states too. They are told here and have no run of
their own; the lines are where the code does it.

| Statement | What the code does |
|---|---|
| `docs/BANKING_ENGINE_V2.md:89`, `completed` means delivered | held twice, `previous_status` is `held_for_review`, and an approval completes without a settlement (`ledger/transactionService.ts:2036`) |
| `docs/INTERNAL_TRANSFER_SETTLEMENT_LIFECYCLE.md:12`, state is verified under lock before the append | the append does not read the status; a hold in between does not stop it (`database/main.sql:4538`) |
| `docs/INTEGRATION_MANUAL.md:759`, reaped transactions are marked `failed` | the transition from `reversed` to `failed` is not in the table and is dropped (`backend/ledger/reconciliationService.ts:147`) |
| `docs/BANKING_ENGINE_V2.md:67`, disputed funds are frozen | after 24 hours the reaper posts the hold back and leaves the agreement `DISPUTED` |
| `ledger/escrowService.ts:518`, no response returns the funds | the sweep does not look at `RETURN_PENDING`, and nothing reads `return_auto_refund_at` |
| `docs/ORBI_CORE_ENGINEERING_ARCHITECTURE.md:233`, an escrow that expires is refunded | `createEscrow` never sets `metadata.expires_at`, so the sweep finds nothing and is no action of the model |
| `docs/ECOSYSTEM_READINESS_AND_REMAINING_SLICES.md:270`, the roster reaches the quorum | two removals of approvers both count before either writes (`database/main.sql:10311`) |
| the daily limit of a treasury policy | requests on two goals of one organization share no lock, and both fit into the day (`database/main.sql:9963`); `WithinDailyLimit` is stated for one goal |
| `docs/ORBI_CORE_ENGINEERING_ARCHITECTURE.md` §12, spending stays within the budget | an outside payment writes amounts computed from old reads, over what was written meanwhile (`wealthSharedBudgetFinance.ts:172`) |
| `backend/enterprise/infrastructure/IdempotencyLayer.ts:5`, "Prevents duplicate transactions" | a key posts twice when an error after the commit is called transient and clears the row, or a call finds no row |
| `docs/FINANCIAL_CORE_TEST_PLAN.md:164`, an external event is applied once | a statement that throws after the posting lets a deposit post again; a delivery that parsing stops gives the claim away again (`webhookHandler.ts:166`); and an event delivered under two keys, as `x-request-id` makes it, is two events that race each other (`gatewayRoutes.ts:559`) |

Others of the same kind, met while modelling:

- A treasury withdrawal that is `processing` for a minute is settled as an
  internal transfer: `settleProcessingTransactions`
  (`EnterprisePaymentProcessor.ts:524`), `completeSettlement` and the claim
  function never look at its type. If the maker's INTERNAL_TRANSFER vault covers
  the amount, that vault pays, the goal is untouched, or both pay.
- Payments: a node that dies leaves the key `PROCESSING` for ever; a transient
  failure clears the key "for retry" but marks the quote FAILED, so the retry is
  refused; a late expiry or failure is written over `SETTLED`.
- Provider events: a second delivery while the first is still `received` is
  refused as a replay, and the refusal marks the receipt rejected, so the first
  loses its claim and the event is lost; a failed event is refused by the replay
  key when delivered again; a node that dies leaves the event `processing`. A
  second delivery that cannot be parsed marks the receipt failed while the first
  applies it, or after it was applied, and a third may claim it again. One key that
  two events share drops one of them.
- Pots: a cancelled archive request may be overwritten by `SCHEDULED`, and a pot
  whose request was cancelled stays archived; a rejection may be written over a
  paid request; a contribution between the check of the balance and the archive
  leaves money in an archived pot; a crash between the creation of an
  organization's pot and its governance update leaves it with the default policy;
  an expired invitation that is answered stays PENDING, because the exception
  undoes the update, and blocks the next one until the invited user lists it;
  listing may write EXPIRED over an acceptance; the archive of what is due goes on
  when the update of the pot failed; invitations as SIGNATORY or ACCOUNTANT violate a CHECK.
- Budgets: a payment to the outside may be made twice under one key, as in
  `Payments`; listing invitations may write EXPIRED over an acceptance; a member's row is written whole after an outside payment and brings a
  removed member back; a second try after a success may end FAILED although money
  moved; a direct withdrawal ignores what is reserved; one key used in AUTO and
  then in REVIEW mode pays twice, under two references.
- Treasury: an approved withdrawal into a locked wallet is refused at every pass of
  the reaper and stays `processing` until somebody unlocks it.
- Organization: the execution of a recovery does not look at the beneficiary's
  role again, so `PrimaryIsAdmin` holds until a recovery only.
- `updateTransactionStatus` validates in one call and writes in another, so two
  agents together make transitions the table forbids
  (`docs/BANKING_ENGINE_V2.md:97`).

### Fairness

Two runs assume any. In `Settlement` the timers keep claiming each transfer that
can be claimed (`settleProcessingTransactions` runs every minute in every
process), a call that does not die goes on, five minutes pass, and an
administrator lifts a lock in the end; all are weak fairness. In `Treasury` a
process that runs goes on and a lease ends (weak), and the reaper, which goes
through all that is processing and past those that fail, claims each withdrawal
that can be claimed again and again (strong, for it is busy with another in
between). That a locked wallet is ever unlocked is not assumed: the property
allows a withdrawal to wait for one that stays locked. A process may still crash (`MaxFaults`, `MaxCrashes` times): nothing
*but* endless crashes keeps a transfer or a withdrawal in `processing`. For the
other components the code gives no such promise: a lost event, a key left
`PROCESSING` or a return request stay as they are.

## What is proved

Each theorem is for every value of the constants, so for any number of users,
calls, workers, crashes and faults. The properties are seldom inductive as they
stand; each proof module strengthens them, and TLC checked each strengthening on
an instance of the runs before it was proved.

- `SumTheorems`. How `SumFunctionOnSet` changes with an element, a value or the
  set. The sum is a recursion through `CHOOSE`, so these need induction over
  finite sets; it is had from the well-foundedness of the strict subset ordering
  (`FS_StrictSubsetOrderingWellFounded` and `WFMin`), with the *set* of the
  subsets for which a fact holds where an induction rule has a predicate.
- `LedgerPosting_proofs`. `LocksWork`: a call holds only rows of its own, a row
  has one holder, the copy of a locked row is the committed balance, and a key
  has one running or committed owner. `Refinement`: `Commit` is `AtomicPosting`'s
  `Post`. `NeverNegative`: a leg whose running balance is covered on the copy is
  covered on the balance, because the two are equal under the lock.
  `NoLostUpdate`: every balance is its opening balance and the net of what was
  committed; a commit adds one posting to that sum and its legs to the row.
  `MoneyIsConserved`: each commit adds legs that balance, so the sum of all
  balances stays. `DeadlockFree`: take the highest row anyone in a cycle waits
  for; its holder locks upwards, so it waits for a higher one, or it is a post
  that waits for a key, whose owner needs no more rows. Assumed: posts and
  appends use different keys, as their two unique indexes make sure.
- `TransferSettlement_proofs`, settlement. A worker finalizes on the strength of
  an append it made or skipped earlier, so `IInv` says that the marker is there
  exactly for a released transfer, that a worker past its append works on a
  transfer with a marker, and that no token exceeds the newest claim, so that a
  late worker's token never becomes current again. From it `TypeCorrect`,
  `NoDoubleRelease`, `CompletedIsDelivered`, `OnlyOwnerDecides` and `Refinement`:
  `StageTransfer` maps to `Hold`, `AppendRelease` to `Deliver`, everything else
  stutters. `VaultExact` adds that the transfers in the vault are finitely many.
- `TransferSettlement_proofs`, review. A status changes under a worker's feet
  here, so of `IInv` only what does not depend on it survives: `ReviewInv` keeps
  the marker, the worker's token and, for each agent, what its read copy is good
  for (an approval that is under way saw a passed audit). From it
  `HoldsStopSettlements` and `ReviewReleasesOnce`.
- `HeldMoney_proofs`, PaySafe. The append keys of a release, a refund and a
  merchant settlement differ, so it is the agreement's status that keeps a second
  payout of another kind away: `IInv` ties the payouts to the markers and the
  markers to the closed statuses, whatever the reapers do. From it `PaidOnce`,
  `PaidWithConsent`, `EscrowTypes`; `FrozenVaultsStandStill` needs no more than
  the types. `VaultExact` and `StatusesTogether` are of the parties alone, with
  the hypothesis `~DisputesLinger`: no held transaction waits a day for its
  reversal. Without it both are false, and `PaySafe_reapers` is the run for that.
- `HeldMoney_proofs`, shared budgets. `BudgetInv`: a handler past the claim works
  on a request a colleague claimed and that can no longer be rejected, one past
  the payment on a reference that was paid. From it `BudgetPaysOnce`, which is of
  withdrawals alone because the engine may repeat a payment to the outside,
  `ReviewedFirst`, `ApprovedWasPaid`, `StoppedBudgetPaysNobody`. `SumInv`: while
  no outside provider was paid, the budget and each member's row add up the paid
  withdrawals, and a member's sum is within some limit that was offered, although
  an invitation may replace the limit by a lower one than was used. From it
  `SpentIsPaidOut` and, for finitely many invitations, `RemovalKeepsTheLimit`.
- `Treasury_proofs`, the organization. `FourEyes` needs that no request is
  approved by who asked or whom it is about, which also holds of super
  administrators who are members; `PrimaryIsAdmin` that the primary is
  protected from every change while no recovery happened; `HeldReturnsAsMember`
  that a held user is not active and so cannot be granted anything.
- `Treasury_proofs`, withdrawals. `TreasuryIsOrganization`: the treasury
  implements the organization alone. `QuorumFirst`: approvers of a withdrawal
  that is past `held_for_review` are distinct, not the maker and as many as its
  row asked for, a number that is fixed when it is made. `WithdrawnAtMostOnce`: a
  process past its append works on a withdrawal whose legs are there.
  `DailyLimitHolds`: under `Serialized` (every two requests are for one goal, by
  one requester or to one wallet, so that their row locks meet) at most one
  request is between its sum and its insert. What happens without it is told
  under "Disagreements".
- `SharedPot_proofs`. What a handler read stays true enough: approvals it
  carries are of people who did approve, the quorum it needs is the request's, a
  handler that closes has paid. From it `QuorumPaid`, `PostedAtMostOnce`,
  `ExecutedWasPaid`; the action properties `EntryNeedsInvitation` and
  `FrozenKeepsMoney` follow from the functions' own checks under lock.
- `Payments_proofs`. A call past the binding carries the key its quote has, a key
  is carried by one quote (the unique index of `transaction_quotes`), and postings are counted: those made and those under
  way are no more than the registrations, clears and misses of the key.
- `ProviderEvents_proofs`. Claims are counted like money: under a key, the calls
  that apply a report and a receipt that may still be claimed are together no more
  than one and the deliveries that parsing stopped; the postings made, the calls
  that may yet post and such a receipt no more than one, the parse failures and the
  statements that threw. A step moves from one term to another or raises both
  sides. A call past verification carries a report its route may take for genuine.

Only model-checked: liveness (`SettlementEnds`, `ApprovedGetsPaid`), which is out
of the prover's reach, and `ReversedAtMostOnce`, which does not hold. Every
invariant and action property of the other runs is a theorem.

Assumptions are the named `ASSUME`s of the modules: amounts are positive,
balances start non-negative, the idle value is no transfer, entities are a
finite set of numbers, a founder is an administrator. Nothing is assumed of who is
a super administrator. TLC evaluates each in a
run. Beyond these, five theorems have a hypothesis of their own, which the cfg of
their run satisfies: `~DisputesLinger` (two of them), `Serialized`, finitely many
invitations, and for `DeadlockFree` that posts and appends use different keys.

## Not modelled, and why

- Cross-currency and fee legs of transfers; encryption of amounts; the wording
  of messages; audit logs. The legs of `LedgerLegs` are general, but
  `TransferSettlement` moves one amount.
- Staff holds on escrow transactions: the review procedures are modelled on
  internal transfers.
- In `PaySafeEscrow`, branches for a `RELEASE_PENDING` agreement that is not
  accepted: release needs acceptance, so there is none. The reaper's branch for
  directly credited transfers never meets a PaySafe lock.
- Leaving a pot or a budget (`wealthSharedPotRoutes.ts:964`,
  `wealthSharedBudgetRoutes.ts:680`): it writes the status `LEFT`, which the
  table's CHECK refuses, so the route always fails.
- The rows of automatic allocation rules and the report rows of budgets.
- Treasury sweeps (`database/main.sql:11092-11143`): claimed under a worker id
  that all replicas of one process number share, and written as absolute
  balances. A further kind of execution in `Treasury`.
- The HTTP idempotency middleware in front of the settle route: it only removes
  repeats that `Payments` lets happen. The computation of a quote (fees, limits,
  routing) is its verdict.
- In `ProviderEvents`, events about merchants' transactions and what a parser makes
  of a provider's format; that it may throw is `ParseFails`. The age of a timestamp
  is an open verdict: `Verify` may refuse any delivery. The local store of receipts
  without a database is left out.
- `settlementLifecycleManager` and the settle, confirm and dispute routes of the
  gateway: `recordExternalPayment` inserts an id that is no UUID and columns that
  do not exist, so the rows they work on are never made. Gateway intents
  (`database/main.sql:8075-8252`) and service payments
  (`src/routes/internal/index.ts:1039-1552`) are not modelled yet.
- The remaining components of the table above; `PROJECT.json` gives the reason
  or the plan for each.

## Plan

Done: the ledger functions, settlement, review with the internal routes, escrow,
organizations, treasury withdrawals, shared pots and budgets, payment
confirmation, provider events, and the proofs of every invariant and action
property that holds. Next, in this order:

1. Treasury sweeps as executions in `Treasury`, with the shared worker id.
2. The composition of `Treasury` with the settlement processor, which settles
   withdrawals it should not know.
3. Gateway intents and service payments.
4. Card settlement and bill reserves as further kinds of calls of
   `LedgerPosting`, with their own lock orders.
5. Notification delivery: claims, leases, retries.
6. Proofs of what no run states yet: that a transfer under review is returned at
   most once when one reaper runs and does not die, and an abstract escrow that
   `PaySafeEscrow` implements while no dispute lingers.
