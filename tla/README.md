# Verification of MarsPay

TLA+ models of the parts of MarsPay that move money or promise its delivery, the
TLC runs that check them on small instances, and theorems about them that TLAPS
proves for every instance. Paths such as `payment/service.go` are relative to
`internal/`.

## The system

MarsPay is a wallet and payment service: a Go HTTP API over Postgres (the ledger
and every record), Redis (the spendable balance, velocity counters, a cache of
sessions) and Kafka (events), with background workers in the same binary
(`cmd/marspay/workers.go`). Several processes may run at once; they share nothing
but these three stores.

| Component | State | Operations | Talks to |
|---|---|---|---|
| wallet cache (`wallet/`) | Redis key `balance:<account>` | Reserve, Release, Warm, Available, Invalidate | called by every debit and credit |
| ledger (`ledger/`) | `transactions`, `entries`, `accounts` | PostTx, Balance, the New... postings | inside the caller's transaction |
| payments (`payment/`) | `payments` | Create (reserve, warm, commit), reads | wallet, ledger, links, outbox, velocity |
| transfers, withdrawals, bills (`txn/`) | `transfers`, `withdrawals`, `bill_payments` | CreateTransfer, CreateWithdrawal, PayBill | wallet, ledger, biller's rail, outbox |
| top-ups, refunds (`txn/`) | `topups`, `provider_callbacks`, `refunds` | CreateTopup, ConfirmTopup, CreateRefund | ledger, wallet (Invalidate), outbox |
| idempotency (`idempotency/`) | `idempotency_keys` | Claim, Complete, Release around the handler | every endpoint that moves money |
| payment links (`merchant/charges.go`) | `charges` | Create, Lookup, MarkPaid, Cancel | called by payments, in their transaction |
| outbox (`outbox/`) | `outbox` | Write, Sweep (claim, Publish, mark), Prune | written by all of the above, read by relays, Kafka |
| payouts, float, batches (`payout/`) | `payouts`, `settlement_batches`, the float as a sum over `payouts` | Settle, RunBatch | ledger, rails |
| rails (`rail/`) | simulated | Send, Select | called by bills and payouts |
| webhooks (`webhook/`) | `webhook_deliveries` | Enqueue, DispatchBatch, Replay | fed by callers of Enqueue (tests only), read by dispatchers |
| sessions (`auth/`) | `sessions`, `devices`, `users`, `otp_challenges`, a cache in Redis | StartOTP, VerifyOTP, Login, Verify, Refresh, Logout, RevokeDevice | in front of every endpoint |
| disputes (`compliance/disputes.go`) | `disputes`, holdbacks | Open, Resolve | refunds, ledger |
| blocks, KYC, audit (`compliance/`) | `account_blocks`, a flag in Redis, `kyc_submissions`, `audit_log` | Block, Unblock, IsBlocked, Submit, Review, Record | asked by every movement of money |
| merchant keys and staff (`merchant/`) | `api_keys`, `merchant_users` | Create, Verify, Revoke, AddStaff, RevokeStaff | in front of a merchant's endpoints |
| admission (`admission/`) | a channel of slots, a counter | Middleware | in front of every endpoint |
| velocity (`velocity/`) | counters in Redis, modes in `velocity_rules` | Evaluate, Check | called by every movement of money |
| loyalty (`loyalty/`) | `point_entries`, `promo_redemptions`, a quota in Redis, `money_requests` | Redeem, Apply, ExpireStale, RequestMoney, CreateSplit | the pool of connections |
| risk (`risk/`) | scores | Evaluate | payouts |
| reconciliation (`reconcile/`) | `reconciliation_runs`, `reconciliation_discrepancies` | Compare, Run, Open, Resolve | called by tests only |
| HTTP and consoles; tools | - | routing, reads, wiring | - |

What is hard in it:

- A balance lives in two stores. Redis is written before and after the Postgres
  transaction, never with it. Every call interleaves with every other call
  between two round trips, and either side can fail alone.
- A commit can succeed while its acknowledgement is lost, and a rail can answer
  ambiguously. The code then acts on a belief.
- Clients retry, concurrently with their own first attempt; processes die between
  the claim of a key and its completion.
- Events become visible in the order of commits and carry ids in the order of
  inserts; relays run in several processes and their sweeps are cut short.
- Credits, refunds, disputes and payouts consist of several transactions each,
  with a check before the first of them.
- Dispatchers call slow endpoints inside a transaction, which a timeout rolls back
  with everything it had delivered, and go on calling when it has failed.
- Sessions rotate and are revoked under row locks, while a cache still answers for
  them; blocks live in a row, a column and a flag, written one after the other.
- Slots, places in a queue and connections of a pool are taken by some requests and
  given back on many ways out.

What makes each component correct:

- wallet and ledger: what the cache offers and what open calls hold never exceeds
  the ledger; an entry that offers too little heals; an answer is true.
- idempotency: a key has one outcome, whoever asks; the money moves once per key
  unless a client was left in doubt.
- payment links: one payment, or a cancellation, or neither; never two.
- outbox: nothing on the topic that did not commit, everything that committed on
  the topic, one relay per key, no reordering beyond the commits' own.
- top-ups, refunds, disputes: a credit per confirmed top-up, refunds within the
  payment, a dispute resolved once.
- payouts: a payout is sent once unless it was in doubt, within the float; its row says
  what the bank did.
- webhooks: at least once per endpoint and event, dead after the last attempt, asked
  again after an answer only if an attempt was rolled back.
- sessions: what is issued while a device or a chain is being revoked does not
  outlive it, a code signs in once, and the cache forgets.
- blocks, KYC, keys, audit: a block holds, a wrong flag heals, submissions wait in
  turn, the log is true.
- admission and velocity: slots come back, nobody waits for ever, what the rules let
  pass stays below their thresholds.
- loyalty: points and offers are not spent twice but by overlaps, and calls end.
- reconciliation: a run adds up, and what it found stays open until it is resolved.
- fees, postings, scores: sums to nothing, within their bounds, for every amount.

`PROJECT.json` lists every component with what is modelled of it, and under
`hazards` each of these difficulties at the line where it bites.

## The plan

In order of importance; all of it is done.

| Module | Models | Composes / implements | Theorems |
|---|---|---|---|
| `Wallet` | the money path of every debit and credit, cache and ledger | - | type, cover, honest answers |
| `Requests`, `PaymentLinks` | the idempotency middleware around payments and transfers, with the links' row locks | `Requests` implements `PaymentLinks` | type, receipts, retries, stored answers, refinement |
| `Outbox` | writers, relays, Kafka | - | type, topic, one relay per key, order |
| `Credits` | top-up callbacks, refunds, disputes over their rows | - | type and all properties |
| `Payouts` | Settle, the float, runs of the batch, rails with ambiguous answers | - | type and all properties |
| `Webhooks`, `DeliveryPromise` | Enqueue, DispatchBatch with rollback, the schedule, Replay | `Webhooks` implements `DeliveryPromise` | type, repeats, refinement |
| `Sessions` | codes, sign-in, Verify with its cache, Refresh, revocation | - | type and all safety properties |
| `Compliance` | blocks with their flag, KYC, merchant keys and staff, the audit log | - | type and all safety properties |
| `Gate` | admission control and the velocity rules behind it | composes both | type, slots and queue, rules |
| `Loyalty` | points, offers, sweeps and requests over the pool of connections | - | type and all safety properties |
| `Reconcile` | the comparison, runs and their queue | - | type and all properties |
| `Books` | fees, postings, scores, the choice of a rail, offers, splits, the balance view: pure | - | ten |

What would come next: the aggregates that a score is computed from, and the worker's
back-off.

## How modules correspond to the code

`PROJECT.json` `map` gives the lines behind every definition.

### Wallet

A call is one of payment, transfer, withdrawal, bill or credit. Its `pc` names its
next round trip:

    reserve -> [read -> warm -> retry] -> [bill] -> commit -> [invalidate] -> done
                                             \-> giveback -> refused / unknown

| Model | Code |
|---|---|
| `cache[u]` | `balance:<account>`, absent as `NotCached` |
| `balance[u]` | `SUM(amount_minor)` of the account's entries |
| `Reserve`, `Retry` | `reserveScript` of `wallet/redis.go`, called by `reserve` in `payment/service.go` and `txn/service.go` |
| `ReadLedger`, `Warm` | `warmFromLedger` and its equal in `txn/service.go`: two steps, with anything in between |
| `CallBiller` | `PayBill` and `callBiller`; the biller acts before the wallet is debited |
| `Commit` | the transaction of the call: posting, row, event. It may succeed, fail, or succeed and be reported as failed (`LosesAcks`) |
| `GiveBack` | `Release` after an error, whatever the error was |
| `Invalidate` | the payee of a transfer, the owner of a credit |
| `Die` | any dependency error answered with a 5xx, a cancelled request, a crash |
| `Expire` | the twelve hours of `cmd/marspay/main.go:75`, eviction, or a lost Redis |

`late` and `exposed` are history variables; no action's guard reads them apart from
their own updates. `late` marks a call that holds a balance a committed debit has
overtaken. `exposed` marks a user whose cache entry was rewritten over an open
reservation or from such a balance, or whose reservation was given back although
its debit had landed. These are the code's three ways to promise money twice, and
`Covered` says that there is no fourth.

The initial cache is empty: that is a state the program starts in, and Redis is
declared disposable (README.md:59). Users start with the ledger balance `Opening`.

### Requests and PaymentLinks

An attempt is one HTTP request with a key and a body; a retry is another attempt
with the same key. `Claim`, `Get`, `Store`, `Drop` are the four statements of
`idempotency/store.go`, each a step of its own: `Claim` is an insert and, when it
conflicts, a separate select, between which the row may vanish. `Store` and `Drop`
may fail and the middleware ignores it. The handler between them is the payment
of a link (`Lookup`, `Reserve`, `MarkPaid`, `Commit`), a plain payment (`Reserve`,
`Commit`) or a transfer (`Reserve`, `Commit`, `Invalidate`). What `Reserve` does to
the balance is `Wallet`'s subject: here it lets the call through, refuses or fails.

`lock[l]` is the row lock of a link, taken by `SELECT ... FOR UPDATE` in `MarkPaid`
and by the `UPDATE` of `Cancel`, held to the end of the transaction. `MarkPaid`
waits for it; `Die` frees it with the connection.

`PaymentLinks` is what a link promises: open until one payment or a cancellation,
then never anything else, and money collected exactly from the payment it names.
`Requests` is shown to implement it with `collected` as the set of link payments
whose transaction has committed.

### Outbox

`Insert`, `Commit` and `Abort` are the writer's transaction: `id` is drawn by the
insert, `commitNo` is the order in which rows become visible. A relay's sweep is `Begin`
(the snapshot of the claiming statement), `Visit` for each row in the order of ids,
`Claimed`, `Publish` or `PublishFails`, and `MarkPublished` or `MarkFailed`, which
commit. `Rollback` cuts it short at any point: the locks and marks go, what was produced
stays. The advisory lock is tried row by row during the scan, so two relays interleave
within one claiming statement. The model takes the scan of `outbox_unpublished_idx` in
id order that the statement's `ORDER BY id LIMIT` asks for. `offset` is where an event
first stands in the topic; copies are for consumers to drop. `skipped` is a history
variable: the events that a scan passed over because another relay had their key.
`Prune` is modelled from its own code; no production code calls it today. `attempts` and
`last_error` are written for people only and are left out.

### Credits

The calls that end in a consumer's wallet: a provider's callback (`ConfirmTopup`), a
refund (`CreateRefund`), and the opening and resolution of a dispute. None of them
locks the row it is about, so each statement outside of a transaction, and each
transaction, is a step:

    callback:  record -> load -> credit -> invalidate -> done
                            \-> fail -> done
    refund:    sum -> refund -> invalidate -> done
    open:      count -> insert -> done
    resolve:   load -> find -> post -> [consume] -> invalidate -> close -> done
                   \-> close -> done                 (for the merchant)

| Model | Code |
|---|---|
| `Record` | the insert into `provider_callbacks`, committed before anything else; a conflict answers with the top-up as it is |
| `LoadTopup` | `loadTopup` and the checks of status, outcome and amount |
| `CreditTopup`, `FailTopup` | the two transactions that end a top-up; the UPDATE that finds no pending row is not an error |
| `SumRefunds`, `Refund` | the sum over `refunds`, read without a lock, and the transaction |
| `CountDisputes`, `InsertDispute` | the unresolved disputes of the payment, counted, and the insert |
| `LoadDispute`, `FindHoldback`, `Post`, `Consume`, `Close` | `Resolve`: three transactions, with the search for a holdback before them |
| `Committed` | a transaction has committed, and the call goes on or never learns of it and answers 5xx |

`before[c]` is a history variable: the calls that had been answered 2xx when `c`
began. "In turn" in a property's name means that the calls it speaks of are ordered
by it. All calls are about one merchant, so that every dispute draws on the same
holdbacks. A dispute that no call opens is open from the start. Amounts of holdbacks
are left out: the code compares them with nothing.

What the model shows and no property forbids: two callbacks of one top-up with
different references that overlap both credit it; two resolutions that overlap both
pay; a payment that was refunded in full may still be disputed and paid again.

### Payouts

`Settle` pays one payout: `Decide` reads the float and chooses a mode, `Send` is the
rail's transfer, `Begin` and `Commit` are the transaction that writes row, posting and
holdback. `RunBatch` pays what waits of a day: `Group` reads it, and for one merchant
after the other `SendBatch` sends the sum and `PersistBatch` writes the batch and marks
its payouts.

    Settle:    decide -> [send] -> begin -> commit -> done
    RunBatch:  group -> (sendBatch -> persistBatch)* -> done

| Model | Code |
|---|---|
| `Outcomes`, `Verdict` | `rail/sim.go`: whether the money moved, and the error the sender sees; what Settle and sendBatch make of it. Ambiguous and timeout are both "sending", and only one of them has moved money |
| `OnFloat`, `Utilisation`, `Instant` | `Position` and `ModeFor` of `payout/float.go` |
| `risky`, `exposed`, `rail` of an input | the score's mode, `ExposureExceeded`, and whether the process has a rail at all |
| `created`, `today`, `old` | the day of `created_at`, which is the time the transaction began; the collection window of a day, which a payout leaves some time during the next |
| `MarkSettled` | the UPDATE by day and status, which marks what waits when it runs |
| `batch` | `settlement_batches`, one row for a merchant and a day, overwritten by each run |
| `bank` | the transfers that moved money |

`before[a]` is a history variable as in `Credits`: the calls that had ended, in any
way, when a run read what waits or a settlement read the float. A row is a payout, a call
of `Settle` makes one, and two calls for one payment are two payouts: nothing in the
code asks whether a payment has been paid out. `RunBatch` has no caller in the program
but its tests; it is modelled as whatever will call it may call it: several
times, at once, for any day.

What the model shows and no property forbids: a payout sent by a call that dies before
its commit leaves no trace; concurrent settlements pass the float's limit together.

### Webhooks and DeliveryPromise

`Enqueue` inserts an event and a row for each endpoint that subscribes, in a transaction
of its own; nothing but tests calls it. A dispatcher's step is one transaction: `Claim`
locks a batch of due rows and skips those that are locked, `Deliver` posts one after the
other, `Commit` writes what came of them. `CutShort` (a crash, a stop) and `OutOfTime`
(endpoints have used up the 30 seconds that the worker gives a step) roll it back:
nothing is counted, but the endpoints have had their attempts. `LoseLocks` is a
statement that fails or a connection that is lost: Postgres rolls back and frees the
rows at once, but `deliver` puts the error of `record` into a result nobody looks at,
and the dispatcher, now "broken", posts the rest of its batch (`DeliverInVain`) until its
commit fails (`FailToCommit`). `BackoffEnds` is the time of a retry, `Replay` the
operator's.

| Model | Code |
|---|---|
| `status`, `attempt`, `due`, `born` | `webhook_deliveries`; `due` is `next_retry_at <= now()` |
| `Claimable`, `Claim` | the `SELECT ... FOR UPDATE SKIP LOCKED` of `DispatchBatch` |
| `Outcome`, `NextRetry`, `MaxAttempts` | `deliver` and `schedule.go` |
| `batch` of a broken dispatcher | the claims its loop has not come to, whose rows it no longer locks |
| `taken`, `posts`, `lost` | the endpoint's side, and which attempts were never written down |

`DeliveryPromise` is what a merchant is told: a queued delivery is offered until it is
taken or was offered for the last time, and then left alone unless it is replayed. But a
dispatcher that has lost its hold on deliveries it took up while they waited (`loose`)
may ask for each of them once, whatever has become of it since. `Webhooks` implements it
with "waiting" for pending and retrying rows and the batches of broken dispatchers as
`loose`: a rollback of posted rows is a stutter, an attempt that is answered with 2xx is
`Take` or `TakeLoose`, `LoseLocks` is `Slip`, a commit is `Count`.

### Sessions

One user with devices, sessions and one-time codes. A call is one request (`token`,
`refresh`, `logout`, `verify`, `revoke` of a device, `block`, `unblock`), and its `pc`
its next statement. `lock` and `share` are Postgres' row locks: FOR UPDATE, and FOR KEY
SHARE of the user's row by the insert of a session; a statement that needs a lock
another call holds is not enabled. `Die` rolls back. A statement that updates many rows
picks them when it begins (`PickSessions`, into `seen`) and locks them one by one.

| Model | Code |
|---|---|
| `reason`, `rotated`, `age` | `revoked_reason`, `rotated_to`, `expires_at` and `refresh_expires_at` of `sessions` |
| `codes`, `spent`, `stale` | `otp_challenges` |
| `cached` | the entries of `Verify`: filled by `Fill`, dropped by `Forget` after a commit, and by time |
| `late`, `escaped`, `signins` | history |

A device is enrolled again when its owner signs in on it, and a sign-in that read the
device before it was revoked leaves a live session on it (`late`); a refresh that
commits while a replay is being revoked is not always among the heirs that the
recursive statement has read (`escaped`). The properties say that there is no other
way out. The message of a replayed token says that every session was signed out; the
code revokes the session and its heirs.

### Compliance

One user and one merchant. The statements of a request are steps, because none of them
but the decision of a review shares a transaction with another. A block is a row
(`open`), a column (`standing`, the code's `users.status`) and a flag in Redis (`flag`)
with a time to live; a payment asks the flag first and then the rows, and writes what it
has read back; a transfer reads `standing` (`ReadStatus`). `at` is a request's next
statement, `what` what it is about, and `read` what it has read and uses later. A
submission is counted among the pending ones (`CountPending`) and inserted
(`InsertSubmission`); a review picks it (`PickSubmission`) and decides (`Decide`). A
request of a merchant that names a key asks for it first (`UseKey`), then creates or
revokes a key or hires or revokes a member of the staff. `Logged` tells which changes
have an entry in `audit_log`, a statement of its own after the change.

`shut`, `overwritten`, `slipped`, `torn`, `disturbed`, `outdated` are history
variables: what held when a request came, and which requests overlapped. The audit
trail has no entry for a hired member of the staff, nor for a submission.

### Gate

Admission control and the velocity rules, one user's requests through both. The slots
are a Go channel with a buffer: `used` is its length and `line` the senders that wait
in order; whoever receives hands the slot to the head of the line (`GiveBack`).

    new -> rules -> done                         (a slot is free)
    new -> full -> select -> [waiting ->] sent -> rules -> done
              \-> leave -> done            \-> done     (the client has gone)
                               waiting -> leave -> done (the time is up)

`Rules` are the rules of the code with the modes of the table; `Observe` is one rule,
one round trip to Redis, and `Finish` ends the handler at any rule (Redis fails, the
code refuses) or after all of them. `WindowEnds` expires a counter. Counters are
added to before the request is refused, so requests that are refused fill them too.
VR-02 can never trip: no caller says that a device or a bank is new. VR-07 runs from
the request of a top-up, not from its credit. `counted` and `barred` are history
variables.

### Loyalty

Points are entries that are added up; awards expire. A call is a redemption, a grant of
an offer, a sweep of expired points or a request for money, a split included, and each
statement (`stage` names the next) is a step that needs a connection of the pool
(`Room`). Only a grant keeps one, for its transaction, and asks for a second to find the
point account while it does. A failure may end a call before any statement.

| Model | Code |
|---|---|
| `points`, `lot` | `point_entries`: the sum, and `expires_at` of each award |
| `ReadBalance`, `InsertRedeem` | the check of the balance (`Covers`), and the insert, in two statements |
| `LoadPromo`, `CountUsed`, `TakeQuota`, `BeginGrant`, `RecordRedemption`, `PointAccount`, `CommitGrant` | `Apply`: the offer, redemptions counted (`UsedUp`), the quota in Redis, the transaction, the account of points outside of it |
| `Rivals` | the unique index on the payment, behind which an insert waits |
| `FindStale`, `InsertExpire`, `ClearExpiry` | `ExpireStale`: two statements for each user; `Cleared` is what the second one matches |
| `InsertSplit`, `AskNext`, `Decide` | a split, its requests, one insert after the other, and the payer's answer |
| `FallDue`, `LoseKey` | an award passes its date; Redis loses the key of the quota |

`beside`, `cut`, `expired`, `lucky`, `swept`, `undercut` and `kept` are history
variables. A sweep takes an award in full, whether its points were spent or not, so that
a user may owe what he redeemed before it (`undercut`, which holds redemptions that have
read the balance and not yet inserted as well); he may owe what two redemptions spent
that overlapped (`beside`), and what sweeps took of his awards beyond what they gave
(`TakenTwice`). `OverdrawnHasCause` says that these add up to no less than his debt: a
later redemption that is in none of these overlaps still has to be covered. The key of
the quota is seeded by nothing but tests: while it is absent, an offer has no total
limit, and `OfferHolds` speaks of the case in which the key is there. A split that fails
half way has asked some of its payers.

### Reconcile

`Compare` adds up the lines of each reference on both sides (`Amount`) and reports what
differs (`Difference`, `Differences`) and by how much in all (`DeltaOf`); `Persist`
writes the row of the day and provider, replacing that of an earlier run, and inserts a
row for each difference, in one transaction which `RollBack` takes back; `Resolve`
closes every open row of a reference. A second run of a day inserts all its differences
again, beside those of the first, and a clean one leaves the old ones open. `Resolve`
goes by the reference alone, over all days and providers.

### Books

Pure operators without a state: what the posting constructors build from an amount and
a fee (`FeeHalfUp`, `NewMerchantPayment`, `NewInstantPayout`, `NewRefund` and the
others) and what `Validate` demands of it; `Evaluate`, from the factors of a merchant
to a holdback and a mode, with the float of the code as one of two whole numbers;
`rail.Select`; what an offer is worth and what a split asks; and the balance a user is
shown. There is nothing to explore: `WalletProofs` proves what is said about them for
every amount.

## What the runs check

| Run | Instance | Distinct states | Shows |
|---|---|---|---|
| `wallet` | 2 users, 3 calls, 5 loads, amounts up to 2 | 247,925 | `Covered`, `AnswersAreHonest`, `ShortfallEnds` |
| `requests` | 3 attempts, 2 keys, 1 link, 4 loads | 47,122 | `SecondPaymentNeedsDoubt`, `OneReceiptPerKey`, `StoredAnswerIsFinal`, `LinksKeepPromise`, `RequestsEnd` |
| `outbox` | 2 relays, 2 events of one key, batches of 2 | 5,413 | `TopicAgrees`, `OneRelayPerKey`, `OnlyLateCommitsOvertaken`, `EveryEventDelivered` |
| `credits` | 3 calls of 8 loads on 1 top-up, 2 payments, 2 disputes, 1 holdback | 8,708 | `StatusesAreBacked`, `ReferenceCreditsOnce`, `CreditedOnceInTurn`, `RefundsInTurnFit` |
| `payouts` | 2 settlements, 2 runs, 2 merchants, 2 days, 5 loads, limit 10 | 1,430,876 | `RowsAreTrue`, `PaidTwiceNeedsDoubt`, `FloatInTurn`, `UnsettledBatchConsumesNothing` |
| `webhooks` | 2 dispatchers, 2 events for an endpoint each, 2 attempts, 1 replay | 165,909 | `RepeatNeedsRollback`, `DeliveriesKeepPromise`, `DeliveriesEnd` |
| `sessions` | 3 calls of 9 loads, 2 devices, 3 sessions, 1 code | 1,049,816 | `RevokedDeviceStaysOut`, `ReplayEndsChain`, `OneSignInPerChallenge`, `RevokedIsRefused` |
| `compliance` | 3 requests of 11 loads, a key, a member of the staff | 1,148,501 | `BlocksHold`, `SubmissionsInTurn`, `LogIsTrue`, `FlagHeals` |
| `gate` | 4 requests, 2 slots, 1 place, all five rules | 212,115 | `SlotsComeBack`, `RulesHold`, `WaitingEnds` |
| `loyalty` | 3 calls, 2 users, 2 earlier awards, 2 connections, one use each, a total of 1 | 104,367 | `OverdrawnHasCause`, `AwardsExpireOnce`, `OfferHolds`, `CallsEndUnlessStarved` |
| `reconcile` | 3 runs, 2 days, 2 references, up to symmetry | 356,812 | `RunsAddUp`, `DifferencesStayOpen` |
| `loyalty_starved` | `loyalty` | stops | grants wait for each other for ever (finding) |

Every module with variables but the two abstract ones states its type invariant.
It is proved of each of them, and is not among the runs' properties.

Why the bounds are enough for what they look for. In `wallet`, three calls are the
fewest with which a reader, a debit that overtakes it and a third call that spends
from the result can be told apart; the balance of 2 admits either large debit and
not both, and a second user is needed only as the payee of a transfer. In `requests`,
three attempts give a first try, a retry that runs beside it and one that
comes after both; two keys put a second payer on the same link. In `outbox`, two
events of one key are what can be reordered, and two relays the fewest that can split a
stream or let a key go while the other scans. In `credits`, three calls are two that
overlap and one that comes after the first; the payments of 2 admit either large refund
and not both, and one holdback is fewer than the disputes that want it. In `payouts`,
two settlements give the second a float that the first has filled, below, between and
above the thresholds of a limit of 10; two runs of a day overlap or follow each other,
while payouts enter the day; a second merchant is what a run leaves over when it
stops, and a second day is when the window of the first has passed. In `webhooks`, two
deliveries stand in one batch or in two, an attempt and its retry are the first and the
last, and a second dispatcher finds rows locked. In `sessions`, three sessions are a
chain of two rotations or a rotation and a sign-in; three calls are a revocation, what
it races with, and what uses the result. In `compliance`, three requests are a block,
the reader that it overtakes, and one that comes after both. In `gate`, two requests
have slots, one waits and one is turned away; the thresholds are lowered so that two
transfers reach one, and the top-up holds the withdrawal. In `loyalty`, two grants fill
the pool of two and a third call asks; the same payment is named twice. In `reconcile`,
a day is run three times, or two days once and twice; statements of up to two lines
have a reference twice, on one side or with another amount.
The amounts, keys and counters have no other bound but `MaxReplays`.
Symmetry is used in `reconcile` only, for runs and for days, which its properties
do not tell apart.

`CHECK_DEADLOCK FALSE` is set in every run: each instance has finitely many calls,
attempts or events, and the system may stop when they have ended.

### Fairness

`Credits`, `Payouts` and `Reconcile` state no liveness: their calls are driven by clients,
and a call that dies is never taken up by the program again.

- `Wallet`: only `Expire` is fair (Redis expires a key whose time to live has
  passed). No call is obliged to finish, so `ShortfallEnds` holds even when every
  call dies with its reservation.
- `Requests`: an attempt that arrived takes its next step unless its process dies
  (`Work` is weakly fair, `Die` is not); `MarkPaid` is strongly fair, since Postgres
  queues those who wait for a row; a begun cancellation ends.
- `Outbox`: a worker loop runs its step again after every error (`worker/worker.go`).
  A sweep keeps going, a publish that is enabled again and again succeeds some time,
  and from some time on no sweep is rolled back: without the last two the loop may
  retry for ever, and the code offers nothing against that.

- `Webhooks`: as for the outbox, and time passes (`BackoffEnds`, `OutOfTime`). From some
  time on no step is cut short by a crash and no transaction is broken.
  `SpecInTime` adds that from some time on steps do not run out of time; see the last
  section for what happens when they do.
- `Sessions`, `Compliance`: only the expiry of entries in Redis is fair. No call is
  obliged to finish, so a revoked session is refused and a wrong flag heals although
  every call dies half way.
- `Gate`: only the timer of a wait is fair. Nothing says that a handler ends.
- `Loyalty`: every step of a call that has begun is strongly fair: the pool lends its
  connections in the order in which they were asked for (`pgxpool`), so that who asks
  again and again while there are some gets one.

## What is proved

The proofs assume only the `ASSUME`s of the modules, which say that constants have their
types and that model values differ; there are any number of users, calls, attempts,
keys, links, events, relays, top-ups, payments, disputes, payouts, runs, merchants,
days, dispatchers, endpoints, sessions, devices, codes, requests, slots, places, awards
and references, and the sums are over any amounts. Only what is added up or counted has
to be finite: calls, actors, events, endpoints, requests and awards. Every safety
property of a passing run is a theorem, and every refinement.

**WalletProofs.** `IInv` is `TypeOK`, `ProgressInv`, `SeenInv` and `Covered`.
`ProgressInv` ties `pc` to `landed`, `biller` and `paid`; honest answers follow from it.
`SeenInv` is why `Covered` is inductive: while a call that is not `late` carries a
balance it has read, that balance plus everything the payer's calls hold is within
the ledger, so writing it back is safe when nothing is held and exposes the user
otherwise. Amounts held are counted as a set of units, so that sums over calls
become cardinalities and the library's finite-set theorems apply.

**RequestsProofs.** Two invariants. For keys: an attempt that owns its key (`Owning`) is
the only one, the key's row carries its body, a completed row names the attempt whose
result it stores, and all receipts for a key are the same; a second movement under one
key needs an `unknown` answer. For links: who is between `MarkPaid` and `Commit` holds
the row's lock and has seen the link open, and no one else changes its status meanwhile;
expiry does not matter once the lock is held. The refinement maps `Commit` that lands to
`Pay`, `CancelEnd` to `Cancel`, and every other step to a stutter.

**OutboxProofs.** `TopicAgrees` needs that a batch holds only committed rows, that
after `Publish` all of it is delivered, and that pruned rows are published.
`OneRelayPerKey` needs that a relay holds the lock of every row in its batch and
that a lock has one holder; colliding hashes only make it hold more.
`OnlyLateCommitsOvertaken` needs that whatever a relay has left behind in its scan of a
key was committed after the snapshot or is in `skipped`, up to the publish.

**CreditsProofs.** `ProgressInv` ties `pc` to `posted` and to the rows; the backing of
statuses is inductive with it. `BeforeInv` says that the calls before a call have been
answered, and so have no step left. `CallbackInv` gives every recorded callback the one
call that processes it, which is why a reference credits once whatever fails.
`CheckedInv` and `RefundInv` carry what a call has read across the gap to its
transaction: what it checked may have changed, but not through a call that was answered
before it began. Refunded sums are cardinalities of sets of units.

**PayoutsProofs.** `ProgressInv` says for each step what a payout's row, verdict and
transfer are, and for a run that it has sent what it calls settled. `ReadAllInv`: a run
has read all that waits of calls that had ended before it, so what `MarkSettled` marks
unread came in later. `SettledInv` relates runs: a run told "settled" has settled what
it read, shares nothing with a run that read after it, and is the cause of every settled
payout another run has read. `BatchInv` names the run a batch row is of, which none that
came after it has overwritten, and which says of it what that run was told and had read
(`Wrote`); what of an unsettled batch no longer waits was settled by a second run, which
overlaps the first. `FloatInv` freezes the payouts a settlement saw: what is posted and
was made before it cannot grow, and it leaves the window with time; sums and the
quotient are monotone.

**WebhooksProofs.** The invariant says of a dispatcher's batch that its rows wait, are
locked by it alone and are no longer due, and of each row that its attempts are counted
by `posts` unless one was never written down. The batch of a broken dispatcher is free of
all that: its rows existed when it took them up. Repeats and the refinement follow:
`Commit` is `Count` of what was taken and what was not, and it can count only what a
batch under lock holds; only rows that wait slip loose (`LoseLocks`), after which each
of them is asked for once (`DeliverInVain`).

**AccessProofs.** Two invariants.

For `Sessions`: `StepsInv` says that a call takes the steps of its load, and `LockInv`
what cannot have changed under the row locks it holds: a code it checks is not spent,
a session it rotates is alive, a device it revokes is known. `SpentInv` follows from
that, since a code is spent by the sign-in that commits with it. `PickedInv` is
why revocation is complete: from the statement that picks sessions to the one that
marks them, a revoked device has no session that was not picked, since sign-ins and
refreshes lock the device first; and what of a replayed chain was not picked has
`escaped`. A chain is the least set closed under `rotated`, and adding a link to
the end of one adds one session to it (`ReachOfLink`, `ChainOfRotation`).

For `Compliance`: `StandingInv` says what the column is while a single change is under
way, which is the case until two overlap (`torn`). `FlagInv` speaks of the reader that
is about to write the flag as well as of the flag: what it has read is clear only of
blocks it need not know. `SubmissionInv` freezes what an undisturbed request has read
up to its own statement, and `KeyInv` says that no key comes back. The log's truth is
inductive with `ProgressInv`: a request that has made its change is at its entry, or has
ended.

**CountingProofs.** Everything that counts or adds up, in four parts.

*Sums.* `SumFunctionOnSet` of the community modules is defined by a recursion that takes
whichever element CHOOSE gives. What it computes is proved by a least counterexample:
strict inclusion of finite sets is well founded, so a set for which an equation fails
would contain a smallest one. `SumExists` and `SumUnique` give the recursion one
solution, `SumWithout` makes it independent of the order, and `SumFewer`, `SumUnion`,
`SumMinus` and `SumImage` are what the rest needs.

*Slots.* The requests are counted by their `pc`. `LineInv`: the line holds those
that wait, each once, which is why the head of it can be given the slot and a request
that stops waiting can be taken out. `SlotInv`: the slots are the requests that are
`sent` or at the `rules`, and if somebody waits all are taken. `QueueInv`: those that
have a place are at most as many as the limit, although the counter may be above it
while requests that are turned away have not left. One lemma (`Moves`) covers every
step that leaves the line alone, `GivesBack` the hand-over.

*Rules.* `SumInv`: a rule's counter is never less than what the requests it still counts
add to it, so what it counts and has not stopped stays below its threshold. `BarInv`: a
request for which a rule had no room still has that rule ahead of it or has been
stopped, and its window has not ended, so it is not served.

*Points and offers.* `BesideInv` says that calls of one kind that are under way are
beside each other; then what a call has read can only have been changed by a call beside
it. `PointsInv` says that a balance is the sum of what was entered for each award and
call (`Entered`), and that a redemption which was let through has the points it checked
unless one beside it or a sweep took some. After a sweep the debt is excused because of
the first part alone: what was redeemed and what was taken twice is added back, and what
remains are awards that nobody took (`NothingElseIsOwed`). `QuotaInv` counts those that
took of the quota, on their way or granted. `LotInv`, `SweepInv` and `LuckInv` follow an
award from its date to its entry: one taken and not cleared has a sweep that is about to
clear it, one found by two was found by two that are beside each other, and one cleared
without an entry fell due behind the sweep that cleared it.

*Reconciliation.* `ReconcileInv`: the row of a day is what `Compare` makes of the lines
it was last given (`RunOf`), and the rows of the queue are only appended and resolved.
That the delta is the difference of the two sides is arithmetic over sums:
lines are grouped by reference (`Grouped`), and references that agree add nothing.

**WalletProofs, second part.** The operators of `Books`. Quotients are replaced by what
defines them (`DivMod`), after which the bounds are arithmetic. `HeldIsTakenTwice` shows
the balance view to call a cache that is in step with the ledger one that disagrees
while a withdrawal is pending.

| Theorem | Establishes |
|---|---|
| `TypeCorrect` of `WalletProofs`, `RequestsProofs`, `OutboxProofs`, `CreditsProofs`, `PayoutsProofs`, `WebhooksProofs`, `AccessProofs` (of `Sessions`) | `Spec => []TypeOK` |
| `WalletProofs!ReservationsCovered` | `Spec => []Covered` |
| `WalletProofs!HonestAnswers` | `Spec => []AnswersAreHonest` |
| `RequestsProofs!ReceiptsAgree` | `Spec => []OneReceiptPerKey` |
| `RequestsProofs!PaysAgainInDoubt` | `Spec => []SecondPaymentNeedsDoubt` |
| `RequestsProofs!StoredForGood` | `Spec => StoredAnswerIsFinal` |
| `RequestsProofs!LinksRefine` | `Spec => LinksKeepPromise` |
| `OutboxProofs!TopicIsTrue` | `Spec => []TopicAgrees` |
| `OutboxProofs!RelaysShareNoKey` | `Spec => []OneRelayPerKey` |
| `OutboxProofs!OnlyLateOvertaken` | `Spec => []OnlyLateCommitsOvertaken` |
| `CreditsProofs!BackedByLedger` | `Spec => []StatusesAreBacked` |
| `CreditsProofs!ReferencesCreditOnce` | `Spec => []ReferenceCreditsOnce` |
| `CreditsProofs!TurnsCreditOnce` | `Spec => []CreditedOnceInTurn` |
| `CreditsProofs!RefundsInTurn` | `Spec => []RefundsInTurnFit` |
| `CreditsProofs!TopupsFinal` | `Spec => FinalTopupStays` |
| `PayoutsProofs!RowsCorrect` | `Spec => []RowsAreTrue` |
| `PayoutsProofs!TwiceOnlyInDoubt` | `Spec => []PaidTwiceNeedsDoubt` |
| `PayoutsProofs!FloatKept` | `Spec => []FloatInTurn` |
| `PayoutsProofs!BatchesConsumeWhatTheyPay` | `Spec => []UnsettledBatchConsumesNothing` |
| `WebhooksProofs!RepeatsAreRollbacks` | `Spec => []RepeatNeedsRollback` |
| `WebhooksProofs!DispatcherKeepsPromise` | `Spec => DeliveriesKeepPromise` |
| `AccessProofs!RevokedDevices` | `Spec => []RevokedDeviceStaysOut` |
| `AccessProofs!Replays` | `Spec => []ReplayEndsChain` |
| `AccessProofs!CodesSignInOnce` | `Spec => []OneSignInPerChallenge` |
| `AccessProofs!AccountTypes` | `AccountSpec => []AccountTypeOK` |
| `AccessProofs!BlocksAreKept` | `AccountSpec => []BlocksHold` |
| `AccessProofs!SubmissionsTakeTurns` | `AccountSpec => []SubmissionsInTurn` |
| `AccessProofs!AuditIsTrue` | `AccountSpec => []LogIsTrue` |
| `CountingProofs!SlotsAreGivenBack` | `Spec => []SlotsComeBack` |
| `CountingProofs!RulesAreKept` | `Spec => []RulesHold` |
| `CountingProofs!GateTypes` | `Spec => []TypeOK`, of `Gate` |
| `CountingProofs!PointTypes` | `LoyaltySpec => []LoyaltyTypeOK` |
| `CountingProofs!PointsAreSpentOnce` | `LoyaltySpec => []OverdrawnHasCause` |
| `CountingProofs!AwardsAreTakenOnce` | `LoyaltySpec => []AwardsExpireOnce` |
| `CountingProofs!OffersAreKept` | `LoyaltySpec => []OfferHolds` |
| `CountingProofs!ReconcileTypes` | `ReconcileSpec => []ReconcileTypeOK` |
| `CountingProofs!ReportsAddUp` | `ReconcileSpec => []RunsAddUp` |
| `CountingProofs!DifferencesAreKept` | `ReconcileSpec => []DifferencesStayOpen` |
| `WalletProofs!FeeIsNear` | a fee is within half a sen of its rate, and within the amount |
| `WalletProofs!PaymentPosts`, `PayoutPosts`, `RefundPosts` | `Validate` accepts what is built, so that no posting is refused after the money has moved |
| `WalletProofs!FullRefundReverses`, `RefundsInParts` | a refund in full leaves nothing; two parts give back at most one sen that was never taken |
| `WalletProofs!HoldbackMonotone` | more disputes or refunds never make the holdback smaller |
| `WalletProofs!DegradedOnlyWithoutFast` | when a degraded rail is taken |
| `WalletProofs!SharesLeaveOwnersPart` | a split asks for no more than the whole, and the owner's part is the largest |
| `WalletProofs!CashbackBounded` | a cashback keeps to its cap and its rate, and to what was spent if the rate is at most 100 % |

Only model-checked: the liveness properties (`ShortfallEnds`, `RequestsEnd`,
`EveryEventDelivered`, `DeliveriesEnd`, `RevokedIsRefused`, `FlagHeals`, `WaitingEnds`,
`CallsEndUnlessStarved`), since the prover has no rules for fairness and `ENABLED`.

## What was found

**Grants of points can take the whole pool** (`loyalty_starved`). `ARCHITECTURE.md:264`
says of more clients than pooled connections that every request queues while latency
climbs. `Apply` keeps the connection of its transaction and asks the pool for a second
one (`loyalty/promos.go:166`, `loyalty/points.go:61`): as many grants as there are
connections wait for each other until a client gives up. Admission control lets 512
requests in, the pool has 10 connections.

## Known behaviour that the properties allow

The properties above are stated so that they hold, and name the windows in which the
code does something else than its documents say. These windows are:

- **A wallet can be overdrawn** (`exposed` of `Covered`). `docs/stack.md:82` calls the
  Lua script the only thing between two requests and a double spend. After a miss
  the balance is read and written back in two steps, and a payment that reads
  before another's commit and writes after it restores what the other has spent.
- **A retry can pay twice** (the doubt of `SecondPaymentNeedsDoubt`).
  `ARCHITECTURE.md:289` calls a retry safe. A transfer that committed and could not
  drop its payee's cache entry answers 5xx, and the middleware releases its key.
- **A key can stay in progress for good.** `docs/api.md:85` and
  `docs/database.md:279` give keys 24 hours; `expires_at` is never read, and a key
  whose process died answers 409 for ever.
- **Events of a key can leave out of order** (`OnlyLateCommitsOvertaken`).
  `ARCHITECTURE.md:196` promises order per key by id. Ids precede commits; and with two
  relays a key that one lets go after a failed sweep is claimed from the middle by the
  other's scan.
- **Refunds can exceed a payment** (`RefundsInTurnFit`). `api/reads_test.go:122` tests
  that refunding twice beyond the total is rejected; the sum of earlier refunds is
  read outside of the transaction, and two refunds with different keys both pass it.
- **A batch in doubt is sent again** (the doubt of `PaidTwiceNeedsDoubt`).
  `payout/service_test.go:264` says that an ambiguous transfer must stay "sending"
  lest a retry pays twice. `sendBatch` keeps the batch "sending" and its payouts
  waiting, and the next run of the day sends them again.
- **A delivery can be posted after it has ended** (`loose` of `DeliveriesKeepPromise`).
  `docs/api.md:278` promises retries and then a dead letter. The loop of `DispatchBatch`
  goes on when a record has failed (`webhook/dispatcher.go:136`, `:201`) although its
  locks are gone: another dispatcher claims the rest, is answered or gives up, and the
  first one posts it again.
- **An offer may be worth more than the payment** (`CashbackBounded`). `value_bps` has no
  bound in the table (`migrations/000007_loyalty.up.sql:31`) and none in
  `loyalty/promos.go`.
- **A user can owe points** (`Excused` and `TakenTwice` of `OverdrawnHasCause`). Awards
  expire in full although their points were spent (`loyalty/points.go:240`), two
  redemptions that overlap both pass the check of the balance, and sweeps that overlap
  or are cut short take an award twice.
- **Slow endpoints hold up the others** (`SpecInTime` of `DeliveriesEnd`).
  `docs/api.md:278` promises retries and then a dead letter. Answers that do not come
  use up the 30 seconds of a step (`worker/worker.go:63`), the whole batch is rolled
  back, and the same rows are claimed first again: while the endpoints are slow, no
  attempt is counted, and those behind them in the batch are never through.

A settled batch pays money out and posts nothing in the ledger
(`payout/settlement.go:174`), and a single payout may take the float past its limit,
since the check leaves the payout itself out (`payout/service.go:88`).

## What is not modelled

The HTTP surface, the consoles and the lists: routing, encoding and read-only views.
The command-line tools. The aggregates over payments that a score's factors are
computed from, and the rows of outlets and profiles.

Within the modelled parts: the 64-bit width of amounts, which no balance approaches;
validation, limits, blocks and velocity, which are one refusal at `Reserve` in `Wallet`;
scopes of keys, which split keys between users and are part of a key; response bodies,
payloads, signatures and hashes; the rate limits of codes; velocity alerts; back-off
times and the graceful stop of workers. The library code (Postgres' locks and
commits, Redis' expiry, Kafka's acknowledgements, Go's channels, the pool) is modelled
from how the code uses it and marked external in the map.
