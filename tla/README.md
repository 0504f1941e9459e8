# RentMy: a TLA+ verification project

RentMy is a peer-to-peer rental marketplace: a Go backend (`src/backend`), a mobile
client and a small image-comparison service. This directory models what the backend
decides about money, bookings, people and its background jobs, checks the models with
TLC and proves the central ones with TLAPS.

Paths below are relative to `src/backend/internal` unless they start with `src/`.
`PRD` is `src/rentmy-prd-v8.md`.

1. [The system](#1-the-system) - components, state, interactions, what is hard
2. [The modules](#2-the-modules) - how each corresponds to the code
3. [The runs](#3-the-runs) - what each checks, bounds, fairness
4. [The proofs](#4-the-proofs)
5. [Where code and documents disagree](#5-where-code-and-documents-disagree)
6. [What is not modelled](#6-what-is-not-modelled)
7. [Plan](#7-plan)

## 1. The system

### How it runs

One Go process (`src/backend/app/server.go`) serves HTTP with one goroutine per request
and runs River workers in the same process. State lives in Postgres, and a little in
Redis (refresh tokens, calibration) and in memory (backfill counters); Stripe holds the
money. Four facts about this shape decide what can go wrong:

- **Transactions are short and few.** Most operations read a row with a plain query,
  call Stripe or a language model, and write afterwards. A row is locked
  (`SELECT ... FOR UPDATE`) only around its last write, if at all, so what was read
  first is stale by then.
- **Stripe cannot be rolled back.** Every operation on money has a window between
  Stripe's answer and the commit. `src/cross-cutting.md:39` asks for idempotency keys on
  all payment operations; none is passed.
- **Jobs run at least once.** River runs a job again *from the start* after an error or
  a crash, and several workers run at once. Most jobs are inserted best-effort after a
  commit: a failure of the insertion is logged and forgotten.
- **Workers start before the services are complete.** River is started at
  `app/server.go:274` while services that need the River client are put together until
  line 430; the notification service (`:129`) and the verification service (`:138-141`) that
  the workers have never get one.

### Components

| Component | State | Operations | Correct when |
|---|---|---|---|
| booking lifecycle (`booking`) | `transactions.status`, the auto-decline job | CreateBooking, Accept, Decline, Cancel, CheckIn, CheckOut, AutoDeclineJob | the status follows the state machine; no two live bookings of a listing overlap; a row is paid for; every request is answered |
| security hold (`payment`) | `hold_allocation`, `hold_status`, the Stripe PaymentIntent | authorization, CaptureFromHold, ReleaseHold | the allocation adds up and agrees with what Stripe captured |
| holds, fees, accounts (`payment`) | amounts of a booking, `stripe_customer_id`, `stripe_account_id` | CreateBooking's arithmetic, GetHoldEstimate, SetupRenterPayment, OnboardHost, ChargeForDamageOverflow | every cent is accounted for; a booking holds what was quoted; damage is charged to the customer with the card |
| guarantee fund (`guaranteefund`) | append-only `guarantee_fund_entries` with a running balance | Contribute, Claim, RecordCardRecovery, RecordCollectionsReferral | each balance continues the one before it |
| dispute resolution (`dispute`) | `disputes`, resolution and re-prompt jobs | FileDispute, ProcessDispute, ResolveByHuman, request for evidence, settlement over hold, card, fund, collections | what was decided is drawn exactly once and in order; nothing waiting for a human is executed by the agent |
| late returns (`latereturn`) | `late_returns`, check and escalation jobs | CheckAndCharge, EvaluateEscalation, escalateToDispute | fees are capped below the damage reserve; charging goes on while the item is out |
| referrals (`referral`) | `referrals`, `referral_payouts`, evaluation and transfer jobs | ApplyReferralCode, OnFirstRentalCompleted, EvaluateAndPayout, ProcessPayout | each party is paid, once |
| proximity (`proximity`) | `proximity_proofs` (GPS and PIN per user and handoff) | GenerateCheckInPIN, VerifyGPS, VerifyPIN, CheckHandoffComplete | no handoff without proofs of the host and of somebody else |
| agreement (`agent/agreement`) | agreements, the transaction's snapshot, acceptances | TriggerAgreement, AcceptAgreement | what an arbiter reads is what the parties were shown |
| verification (`agent/verification`) | attempts, Stripe Identity sessions, `identity_status`, timeout job | StartVerification, the webhooks, timeout and retry, escalation | one bonus per change to VERIFIED; a stalled session does not stay open |
| ratings and reputation (`rating`, `reputation`, `agent/risk`) | ratings, signals, `users.reputation_score` | SubmitRating, EmitSignal, Recalculate, the KYC bonus | the two ways of computing the score agree in the end |
| outcomes (`outcome`, `agent/decision`) | `agent_decisions`, calibration in Redis | recording, LinkOutcomes, calibrate | a judgement stands; Redis says what the log says |
| listing, appraisal (`listing`, `agent/appraisal`) | `listings`, `appraisals` | Create, Update, the status, Appraise in a job and on request | the host's prices win over suggestions |
| notification (`notification`) | `notifications`, `push_tokens`, preferences, deferred jobs | Notify, the deferred push, RegisterPushToken | quiet hours are kept, mandatory types come through |
| messaging (`messaging`) | `messages` | SendMessage, ListConversations, GetMessages | who reads a thread reads all of it |
| user accounts (`user`) | `users`, one refresh token per user in Redis | Register, Login, Refresh | a rotated token is dead; one device is in |
| fraud (`agent/fraud`) | `fraud_flags`, decisions, `users.risk_flags` | EvaluateUser, the scan, ResolveFlag | no flag on a shared network alone |
| risk rules (`agent/risk`, `booking`) | - | score, control, velocity rules, cancellation fee | monotone; nobody established is refused |
| backfill (`agent/backfill`) | three counters in memory, jobs | Trigger, Status, three workers | the status tells what is left |
| discovery (`discovery`) | a cache of drive times; the app's cursor | Feed, Search, their pages | who scrolls to the end has seen everything |
| photo comparison, router, ops, platform, wiring | rows of their own, or none | see section 6 | - |

### Interactions

- `booking.CreateBooking` asks fraud and risk, then `payment.CreateBooking` authorizes
  the hold, charges the fee, inserts the row and, in the same database transaction,
  contributes to the fund.
- `booking.Accept` schedules the first late-return check for `scheduled_end`, has the
  agreement drafted and the PIN of the pickup generated.
- `booking.CheckIn` and `CheckOut` ask `proximity.CheckHandoffComplete` first and lock
  the row later. `CheckOut` calls `referral.OnFirstRentalCompleted` after its commit and
  queues the recalculation of both reputations and the judgement of the decisions.
- `dispute` and `latereturn` both draw on the hold through `payment`, and both write
  `DISPUTED` through `payment.Service.UpdateTransactionStatus`, which asks no state
  machine.
- `dispute.CaptureAndEscalate` draws on the hold, the card, the fund and collections.
- `rating.SubmitRating` emits one risk signal per bubble, each of which writes the score,
  and then queues a recalculation that overwrites it. The verification agent adds its
  bonus to the same column, and a backfill job stores the sum of the signals in it for
  every user.
- The appraisal writes into the listing that its host is editing; `payment.CreateBooking`
  reads value and prices from that row.

### What is hard

`PROJECT.json` lists the hazards, each at its line. In kinds:

- *stale reads used across a call*: the availability check, `CheckHandoffComplete`, the
  auto-decline job's first look, the hold's allocation, the fund's balance, the late fee
  already charged, the customer a card is saved for, the listing an appraisal answers;
- *Stripe before the database*: a crash or failed commit after a capture or transfer;
- *multi-step settlements*: four sources drawn on in turn, two payout rows and two jobs,
  a status written last (or first);
- *retries from the start* of jobs that did half of their work, and webhooks that are
  repeated, late or handled twice at once;
- *jobs that may never have been queued*, and chains of jobs each of which queues the
  next;
- *writers that bypass the state machine*, and four writers of one score;
- *numbers at a boundary*: cents cut off from binary dollars, a check that is due exactly
  when it is too early, a fee capped over many checks whose rate changes, windows that
  wrap around midnight, an hour that changes between two calls, ids that are handed out
  in another order than they are inserted, pages cut by one order and sorted by another;
- *the start-up window* of the River client.

## 2. The modules

Each component has one module whose variables are the component's rows, jobs and
in-flight operations. An operation is split exactly where another actor can get in
between: at each statement that is a database transaction of its own and at each external
call. What an operation has read is kept in a record per actor (`snap`, `op`, `request`,
`worker`, `handler`, `run`, ...), so that using it later uses the *stale* value, as the
code does.

Definitions under a comment that starts with `Slip:` are plausible bugs: variants of the
action that follows them. No specification uses them; `PROJECT.json` names, for each
property, the slip that must violate it.

| Module | Models | Extends / instantiates |
|---|---|---|
| `AtomicHold` | the hold as one indivisible ledger: capture, release | - |
| `HoldLedger` | `CaptureFromHold` and `ReleaseHold` in three steps each | instance of `AtomicHold` (refinement) |
| `BookingPromise` | the documented state machine and "no overlapping bookings" | - |
| `BookingLifecycle` | every writer of `transactions.status` for one listing | instance of `BookingPromise` (refinement) |
| `Handoff` | the proofs of two handoffs, and Accept, CheckIn, CheckOut | instance of `BookingPromise`: every other move of the status |
| `AtomicFund` | the fund as a number with deposits, claims, referrals | - |
| `GuaranteeFund` | the ledger with its running balance | instance of `AtomicFund` (refinement) |
| `DisputeResolution` | disputes of one booking and their settlement | instance of `AtomicHold`: its hold |
| `LateReturn` | the check and escalation jobs of one rental | instance of `AtomicHold`: its hold |
| `ReferralPayouts` | referrals of one referrer, payouts, start-up | - |
| `Agreement` | the agreement of one booking, from drafting to acceptance | - |
| `Verification` | one user's identity: sessions, webhooks, timeout job | - |
| `Reputation` | one user's score and its four writers | - |
| `Outcome` | one transaction's decisions, their judgement, the calibration | - |
| `Fees` | the amounts of a booking, as functions | - |
| `Listing` | one listing: host, overlapping appraisals, quote and booking | `Fees` |
| `QuietHours` | the window of quiet hours, as functions | - |
| `Notification` | one user's notices, devices and preferences on a clock | `QuietHours`, `RowOrder` |
| `RowOrder` | what a query returns in order: sorting and filtering, as functions | - |
| `Messaging` | one thread, its senders and its readers | `RowOrder` |
| `Sessions` | one user's devices and the refresh token | - |
| `Accounts` | one user's customer and account at Stripe | - |
| `Fraud` | one user's facts, flags and the operators | - |
| `Risk` | who may book and what it costs to cancel, as functions | - |
| `Backfill` | jobs of one kind with their shared counters | - |
| `Discovery` | one renter's scroll through the feed or a search | - |
| `Rental_proofs`, `Trust_proofs`, `Office_proofs` | theorems about what `MC_Rental`, `MC_Trust`, `MC_Office` put together | that module, and TLAPS |
| `LateReturn_proofs`, `ReferralPayouts_proofs` | theorems about those parts of `MC_Money`, and about all of its types | `MC_Money`, and TLAPS |
| `BookingLifecycle_proofs`, `GuaranteeFund_proofs`, `DisputeResolution_proofs` | theorems about the module of that name | it, and TLAPS |
| `MC_Rental` | `HoldLedger` and `Handoff` for TLC | |
| `MC_Money` | `GuaranteeFund`, `LateReturn` and `ReferralPayouts` for TLC | |
| `MC_Trust` | `Fraud`, `Verification`, `Reputation`, `Outcome`, `Agreement` (and `Risk` on bounded inputs) for TLC | |
| `MC_Office` | `Listing`, `Notification`, `Messaging`, `Sessions`, `Accounts`, `Backfill`, `Discovery` for TLC | |
| other `MC_*` | constants and symmetry for TLC | the module of that name |

`MC_Rental`, `MC_Money`, `MC_Trust` and `MC_Office` put modules side by side that share no
state: a variable `component` is chosen at the start and only that component moves. The state
space is the *sum* of the components' own, and every property is the component's own, by name;
the type invariants of the components are one conjunction (`MoneyTypeOK`, `TrustTypeOK`,
`OfficeTypeOK`). Where components do interact, the interaction is inside a module: the hold is
instantiated by what draws on it, the booking's promise by the handoff, the fees by the
listing.

### HoldLedger - `payment/service.go`, `stripe.go`, `repository.go`

`alloc` is `hold_allocation`, `holdStatus` is `hold_status`, `intent` is what Stripe did.
`BeginCapture` is the unlocked `GetTransaction` and the check against `remaining`;
`StripeCapture` the call; `RecordCapture` the database transaction that locks the row and
overwrites it *with a value computed from the earlier read*. Release has the same three
steps. `StripeFails` and `Crash` end an operation before and after Stripe acted. The
Stripe intent (`CanCapture`, `CanCancel`) is external: it refuses a cancelled intent and
more than was authorized; `MultiCapture = FALSE` makes it take a single capture only,
Stripe's default.

`disturbed` is a history variable: whether two operations ever overlapped, or one died.
It lets the properties say both what holds always and what holds until then.

### BookingLifecycle - `booking/*.go`, `payment.CreateBooking`

Bookings are requests for one listing; `Overlapping` says whose dates collide.
`CheckAvailability` ... `ScheduleAutoDecline` are the steps of `CreateBooking`; `Refuse` stands
for every refusal that leaves nothing behind (fraud velocity, risk, declined card), after which
the renter may try again; `AuthorizeAnswerLost` is the authorization that Stripe made although
the call failed, and `ChargeFails` the charge that is refused or whose answer is lost, with a
release that may fail as well. `raced` is a history variable: which requests were under way
together, between their availability check and their row. `Commit(b, to)` is what
`UpdateStatus` and `UpdateCancellation` do: lock, validate, write. `BeginHandoff` is the moment
at which `CheckHandoffComplete` has answered TRUE; who has proved what is the subject of
`Handoff`. The four `DeclineJob...` actions are the River job with its unlocked first read, its
commit, the refusal of a transition that is no longer valid and a failed or half-acknowledged
attempt. `FileDispute`/`DisputeMarks` and `LateCheckReads`/`LateCheckEscalates` are the writers
outside the package.

### Handoff - `proximity/*.go`, `booking.Accept`, `CheckIn`, `CheckOut`

`proofs` are the rows per user and handoff, each with whether it is verified; the table has no
unique key, so a request that found no row inserts one even if another did meanwhile. `Users`
are all who are signed in: neither the handlers nor the service ask whether the caller is a
party (`VerifyGPS`, `VerifyPIN`). A request reads the latest row, and then writes what it found
out (`Begin`, `Finish`). Positions are near or far, PINs known or unknown.
`CheckHandoffComplete` looks for one verified row of the host and one of anybody else; the
renter's id is not compared. `CheckReads` and `CheckCommits` are CheckIn and CheckOut, which
ask it first and lock the row later. Other handlers move the status by any step of
`BookingPromise`.

### GuaranteeFund - `guaranteefund/service.go`, `repository.go`

`ledger` maps `created_at` stamps to entries. `created_at` defaults to `NOW()`, which
Postgres fixes when the inserting transaction *begins*: `BeginTx` takes the stamp,
`ReadPrevious` reads the latest committed `balance_after`, `InsertEntry` writes and
commits, and another entry may get in at either point. `Claim` reads the balance before
all that, through `Reported`: `int64(balance * 100)` on a binary fraction reports some
balances one cent low (`Truncated`). `AfterCommit` is the referral of a claim's
shortfall by `CaptureAndEscalate`.

### DisputeResolution - `dispute/*.go`

`status` and `charge` are the row's columns, `jobs` the two kinds of River jobs, `actor` what
is under way: a worker's job or a reviewer's request, in any mix. `TakeResolution` .. `Decide`
are `ProcessDispute`; the agent may decide any amount in `Charges` and `RouteDecision` maps it
to a route (a human is always possible: fraud flags and low confidence send any amount there).
`Settle...`, `Capture`, `ChargeCard`, `ClaimFund`, `Refer` are `executeDecision` and
`CaptureAndEscalate`; `MarkSettled` writes the status *after* the money has moved. `CardFails`
is a charge that was refused, or made although its answer was lost. `Refused` (the hold has
less by now, or the fund is empty) and `Crash` end in a retry of the job from the start. No
photo is ever found for a booking (section 5), so that a re-prompt always escalates. `drawn`
and `disturbed` are history variables: what has been drawn for each dispute, from whatever
source, and which disputes something has crossed (a second operation on the same dispute; a
request for evidence while it is queued or worked on, or after money was drawn; an operation
that fails after a draw; a charge that was made unseen; an APPROVE with another amount than the
agent's).

### LateReturn - `latereturn/*.go`

Time counts re-check intervals since `scheduled_end`; 0 is the first minute, in which the
code's guard says that nothing is late. `CheckReads` .. `Schedule` are `CheckAndCharge`
(`Price` is the query for a conflicting booking, whose failure is only logged and leaves the
rate single),
`EscalationReads` .. `MarkDisputed` are `EvaluateEscalation` and `escalateToDispute`. The
model's answer is any escalation level; a capture or a status that fails there is only
logged too (the feature `"logged"`). `DamageCharged` is a settlement drawing on the
same hold, `ConflictChanges` another booking that starts or ends and doubles the rate.

### ReferralPayouts - `referral/*.go`, `app/server.go`

`HookReads`/`HookAdvances`/`HookEnqueues` are the checkout hook, `EvaluateReads` ..
`QueueTransfers` the evaluation job (one row per statement, then PAID, then the jobs; a failed
count of the referrer's payouts counts as none), `TransferReads` .. `RecordPaid` the transfer
job, whose transfer may be made although its answer is lost (`"lost"`). `wired` is whether the
workers' service already has its River client; `Restart` and `Wire` are the start-up window.

### Agreement - `agent/agreement/*.go`

A text is the set of its item-specific clauses; the base template is the empty set.
`Drafts` are the statements of `TriggerAgreement` (the model's answer is any set of
`Clauses`, the guardrails drop those that match a `Banned` pattern or fall back to the
template), `Accepting` the acceptance by any user, of whom only the parties are let in.

### Verification - `agent/verification/*.go`, `user/service.go`

The n-th attempt has Stripe session n. `StripeReports` is an event that Stripe keeps
delivering; each delivery is a handler (`WebhookReads`, then one action per statement:
the attempt, the profile, the identity, the bonus), and what the language model makes of
an unclear event is any of its outcomes (`Outcomes`). The timeout job cancels and inserts a
new attempt, or escalates after `MaxRetries`. The check of the new attempt is never queued
(`TimeoutSkipsNext`): the service the worker has is built without a River client.

### Reputation - `reputation/*.go`, `rating/service.go`, `agent/risk/signals.go`

`facts` is what the source tables say, `signals` the log of the risk agent. A rating
inserts its row, then emits a signal per bubble (each reads the sum and writes the score)
and queues a recalculation; a recalculation reads the facts, computes (`computeScore`,
the rules engine in its five inputs) and writes. The KYC bonus reads and adds in one
statement. The backfill (`BackfillFinds`, `BackfillSets`) stores the sum of the signals as
the score, like a rating does, and queues no recalculation.

### Outcome - `outcome/*.go`, `agent/decision/*.go`

`log` are the decisions of one transaction by `created_at`, of risk, late-return and
dispute agents; a job takes those without an outcome, judges one after the other with
what the transaction, the dispute and the late return say at that moment, then computes
the calibration from the log and stores it in Redis. The other agents' decisions are
judged by the same steps, each with another question to the database, and are left out.

### Fees and Listing - `payment/hold.go`, `listing/*.go`, `agent/appraisal/*.go`

`Fees` is the arithmetic with Go's truncating divisions: the tiers of the hold, the gap
that the fund covers, fee, platform's and host's share, contribution, damage reserve and
the cap of late fees. In `Listing` a nullable column is a set of at most one value;
`Coalesce` is SQL's, and is what keeps a suggestion from overwriting a host's price.
`ShortOfACent` are prices like 19.99 whose product with 100 is a binary fraction just
below the whole number. `GetHoldEstimate` and `CreateBooking` read the row as it is.

### QuietHours and Notification - `notification/*.go`

A clock of hours (`DayLength` of them) that ticks at any point. A notice reads the
preferences, then the hour, stores its record, and is pushed or deferred to when the
window ends; the deferred job stores a record again, reads the tokens and publishes.
`Fails` and crashes end it at any statement; a receipt of a device that is gone deletes
the token.

### Messaging, Sessions, Accounts

`Messaging`: an id (a ULID) is made before its row is inserted, rows appear in the order of
`created_at`; `ListConversations` shows the last by `created_at`, `GetMessages` pages by id.
`Sessions`: a device has up to two calls in flight (`Slots`), since the app starts one refresh
for every request that is answered 401 (`src/mobile/lib/api.ts:19-27`) and logs out when one is
refused; `Refresh` reads Redis, compares, issues and stores in statements of their own.
`crowded` is a history variable: a device had two calls under way. `Accounts`: a setup reads
the customer, creates one at Stripe if there is none, and stores it; `ChargeForDamageOverflow`
uses whatever is stored.

### Fraud - `agent/fraud/*.go`

A fact is what one detector finds; any set of the detectors may fail, each silently. An
evaluation collects them, scores, logs a decision, raises a flag above the threshold and
appends to `users.risk_flags`; operators resolve flags and then, in a statement of its
own, mark the decision behind one.

### Risk and Backfill

`Risk` has no variables: the score as a sum of points clamped to 0..100, its control, the
velocity rules, `Refused` (the order in which CreateBooking asks them) and the
cancellation fee. `Backfill`: `Post` queues a job; its worker runs the query (`Begin`), stores
the three atomic counters one after the other (`StoreTotal`, `ResetDone`, `ResetErrors`) and goes
through what was found, `Crash` ends the process with its counters; `Appear`
is new work, `apart` a history variable: no two jobs of the kind have overlapped.

### Discovery - `discovery/*.go`, `src/mobile/lib/hooks/useDiscovery.ts`

Listings are their ids, which grow with time; `active` are those that the query can find.
`Query` takes the newest below the cursor, `Enrich` and `StatsFail` go through them one after
the other and leave out those of unresponsive hosts, those whose statistics cannot be read and
those too far by road (`Estimate`, which finds everything near when the routing service is
down, and otherwise remembers the answer for a cell of about a kilometre), and `Rank` sorts
what is left: the weights may put any listing last, and its id is the cursor that the app sends
next. Meanwhile listings are activated and withdrawn, and hosts get requests and let them
expire. `steady` is a history variable.

### Abstractions shared by all modules

- *Jobs are a set or a bounded count*: two jobs with equal arguments are one. River's
  retry limit and back-off are left out: a job is retried whenever it failed.
- *`events`, `faults` and `Features`*: failures and other disturbances are recorded by
  kind, and bounded by `MaxEvents` or `MaxFaults`. A property that a disturbance really
  breaks is stated for behaviours without that kind, and its comment says which. Section 5
  says what happens with it.
- *Amounts* are small integers with the proportions that matter (a cap below the hold, a
  fund that cannot cover, a charge beyond the hold); `Fees` and `Risk` keep the code's own
  numbers.
- *Language models* answer anything in their range.
- Notifications and queued recalculations at the end of a handler are best-effort; they
  are left out where nothing modelled reads them.

## 3. The runs

| Run | Checks | Instance |
|---|---|---|
| `rental_full` | `Balanced`, `NoPhantomCapture`, `ExactUndisturbed`, `Implements` of the hold; `TwoWereThere` of the handoffs | hold: three callers, 3 units, repeated captures, crashes; handoffs: host, renter and a third user, two requests in flight, up to four rows |
| `booking_full` | `OnlyRacesDoubleBook`, `PaidBeforeRow`, `KeepsPromise`, `DeclinedInTheEnd` | two requests for the same dates, at once or one after the other, all writers, one failure of five kinds, fairness |
| `booking_double` (violated) | `NoDoubleBooking` | two creations at once |
| `dispute_full` | `ChargedAsDecided`, `DrawnInOrder`, `HumanDecidesFirst`, `ProcessedInTheEnd` | two disputes, two operations at once in any mix of workers and reviewers, an empty fund or not, one disturbance of seven kinds, fairness |
| `dispute_twice` (violated) | `ChargedOnce` | one dispute, one crash |
| `money_full` | `MoneyTypeOK`; `BalancesContinue`, `Implements` of the fund; `ReserveKept`, `FeeWasCaptured`, `MonitoringGoesOn` of late fees; `PaidOnce`, `MoneyLeavesATrace` of referrals | fund: two callers, four database transactions, 28 and 29 cents; late: two workers, hold 5, cap 3, four intervals, all six disturbances; referral: one referee, two checkouts, two workers, three disturbances of eight kinds |
| `late_start` (violated) | `LateIsCharged` | a punctual worker, nothing goes wrong |
| `referral_lost` (violated) | `PaidInTheEnd` | one crash |
| `handoff_stranger` (violated) | `BothPartiesWereThere` | the same handoffs as in `rental_full` |
| `verification_chain` (violated) | `StalledIsEscalated` | one session, the code's three retries, nothing goes wrong, fairness |
| `trust_full` | `TrustTypeOK`; `FlagsHoldUp` of the fraud agent; `BonusPerUpgrade`, `StalledIsClosed` of the identity; `RatingsAreCounted` of the reputation; `OutcomeStands`, `CalibrationIsCurrent` of the outcomes; `ArbiterReadsWhatWasAccepted` of the agreement | see below; fairness for the identity; 0.5 million states |
| `office_full` | `OfficeTypeOK`; `AmountsAddUp`, `QuoteStands`; `QuietIsKept`; `ScanIsWhole`; `OneDeviceIsIn`; `CardIsTheChargedOnes`; `StatusIsTrue`; `FeedIsWhole` | see below; 1.0 million states |

### What the passing runs show, and why the bounds suffice

- **rental_full.** However captures and releases overlap and die, the stored allocation
  adds up to what was authorized and the ledger never claims money Stripe did not take.
  Until the first overlap or crash, every commit is a step of `AtomicHold` and the ledger
  is exact. Three callers are enough for a third to overwrite what two others raced for;
  with 3 units there are partial, repeated and final captures. A rental starts only after
  the host and somebody else proved the pickup and is completed only after the host and
  somebody else proved the return, although the proofs are read before the lock and rows may
  be doubled: four rows let one user have two for one handoff while others have one each. That
  somebody else is the renter does not hold: `handoff_stranger` starts a rental on the
  positions of the host and a third user.
- **booking_full.** Two requests for the same dates race, handlers hold stale handoffs, the
  auto-decline job is retried, and dispute and late return overwrite the status. What is left
  of the promise is exact: every step on a status is one of `BookingPromise`, or the row of a
  request that raced with a live booking (`RacedRequest`), or another package's `DISPUTED` on
  an existing row (`BreaksIn`); and only a race double-books (`OnlyRacesDoubleBook`), which
  `booking_double` shows to happen. A row is paid for whatever fails. Under fairness of the
  job a queued auto-decline gets its request answered although attempts fail, die after
  their commit or lose the race. Two requests suffice: the properties relate two at most, and
  a third only adds other pairs. One failure in all meets every step of every request.
- **dispute_full.** Two disputes on one hold and two operations at once: two workers, a worker
  and a reviewer, two reviewers, on one dispute or on two. For each dispute that nothing
  crossed exactly what was decided is drawn, whatever the other dispute takes meanwhile; card,
  fund and collections are used only after the hold, crossed or not; and the agent moves
  nothing while a human's answer is awaited. The hold (1) is smaller than the largest charge
  (2), and the fund is empty or smaller than what may be left. What crosses a dispute is what
  the code does not defend against: section 5, and `dispute_twice` for the commonest, a
  settlement that fails half way and is repeated. One disturbance reaches each of the seven
  kinds at every step; none is needed for two operations on one dispute.
- **money_full.** *Fund*: overlapping operations lose each other's amounts, but each balance
  continues a committed one; until the first overlap the ledger implements `AtomicFund`. 28 and
  29 cents are one amount that is represented exactly and one that is reported a cent low;
  `Truncated` is exactly the set of reachable balances for which `int64(balance * 100)` is a
  cent low (`int64(0.29 * 100) = 28`). Four transactions allow two deposits, a claim and its
  referral. *Late fees*: with one job at a time the fee of all checks and escalations stays
  below the cap although time passes while jobs wait and queueing fails; not when the writing
  of DISPUTED fails and is only logged, since the checks then go on beside the seizure. In
  every interleaving, crash and retry no row shows a fee that was not captured. Charging goes
  on while there is something to charge unless a worker died. `MaxTime` 4 with rate 1 and cap 3
  lets the fee reach the cap before and after the escalation threshold (2). *Referrals*:
  refusals, lost queue insertions, unrecorded transfers and restarts never make anyone be paid
  twice; a crash, an answer of Stripe that is lost, or two checkouts at once may. Transfers
  leave a trace in every behaviour. The velocity limit (5 in the code) is scaled to 0, so that
  one paid payout reaches it; four payout rows are two complete evaluations.
- **trust_full.** *Identity*: with webhooks handled one at a time and to the end, repeated,
  late and in any order (three deliveries of two events, on the session and on its
  replacement), each bonus belongs to a change to VERIFIED; the attempt of a queued check is
  closed in the end. That a human sees it is not so: `verification_chain`, with the code's
  three retries (`timeout_job.go:18`). *Reputation*: two ratings with a bubble each and two
  recalculations in flight, beside a rental, a dispute, the KYC bonus or a backfill; once all
  is settled and no recalculations ran beside each other, no rating is missing from the score,
  unless the score is the sum a backfill stored last. *Outcome*: three decisions, of which one
  is made while a job runs, and two jobs that follow one another with a failure; a judgement is
  never revised although what it is judged by changes, and Redis agrees with the log.
  *Agreement*: every set of clauses, every stop. *Fraud*: two facts about two other accounts,
  two evaluations at once, two flags and two operators, who may answer one flag differently.
  `Risk` is evaluated by assumptions of the module at the borders of its rules; it is proved
  for every input.
- **office_full.** *Listing*: two appraisals at once, with each other and with the host's
  edits; the values are in two tiers of the hold, the prices are free and one of those cut by a
  cent, and bookings of less than and more than a day. *Notifications*: a day of three hours
  has windows that wrap around midnight, windows that do not and hours outside both; one change
  of preferences, one loss. *Messages*: five of them on pages of two make three pages, while
  two senders insert in either order. *Sessions*: two devices with two calls each, three
  tokens, one failure. One device is in as long as none had two calls under way: otherwise
  answers may come in another order than their tokens were stored, and nobody is in.
  *Accounts*: two setups at once. *Backfill*: two items, two workers, two jobs. *Discovery*:
  three listings of two hosts on pages of two, so that pages overlap and a third follows; one
  listing is too far by road, one request per host expires. A booking ends what is examined of
  a listing (`NotBooked`).

### Fairness

- River keeps its workers going: weak fairness of each worker's next step, never of a
  crash or a failure. A retried job is not bound to succeed at any particular attempt; the
  bound on failures is what ends them.
- A started HTTP request goes on (`CreateBooking`'s next step, `FileInserts`, a
  reviewer's settlement, a webhook, the rest of `StartVerification`), since its goroutine
  runs until it returns.
- Time passes (`Tick`), and the start-up comes to its end (`Wire`).
- Nobody is obliged to book, accept, upload, review or return anything, and Stripe is not
  obliged to report.

`CHECK_DEADLOCK FALSE` is given where every request may have been answered, every job be
done and every bounded failure be used up: the system may then really stop.

## 4. The proofs

Eight modules hold theorems. Constants stay abstract; what is assumed of them is named, in
the module that declares them, and evaluated by the runs: `HoldAssumption` and
`HandoffAssumption`, `BookingAssumption`, `FundAssumption`, `DisputeAssumption`,
`MoneyAssumption` (the assumptions of `LateReturn` and `ReferralPayouts`),
`TrustAssumption` (of its five components), `FeesAssumption` and `OfficeAssumption`
(of the seven components of the office). No theorem about a specification has a further
hypothesis: where the code breaks a property, the property itself excepts the behaviours in
which it does, by a history variable or a kind of event, and says so.

35 of the 38 properties that the passing runs check are stated by a theorem; the other three
are liveness and named [below](#what-stays-with-tlc). Where a run puts components side by side
(`MC_Rental`, `MC_Money`, `MC_Trust`, `MC_Office`), the theorem is about the specification that
the run checks: a step of it is a step of one component and leaves the variables of the others
alone.

The proofs have one shape. What a property says is seldom inductive, because what a
handler writes rests on what it has read earlier. The inductive invariant therefore says,
for each step at which an operation can stand, what its private copy still guarantees.
An operation's effect is stated once, in a lemma named `...Facts` after the action, and
the proof that a step keeps the invariant has one step per action.

### Rental_proofs

The hold, for every number of workers, every authorized amount, either behaviour of
Stripe, and with or without crashes; the handoffs, for any number of users and of requests in
flight:

| Theorem | Says |
|---|---|
| `TypeCorrect` | `Spec => []TypeOK` |
| `AlwaysBalanced` | `Spec => []Balanced` |
| `NeverPhantom` | `Spec => []NoPhantomCapture` |
| `ReleasesAreReal` | `Spec => []ReleaseIsReal` |
| `ExactWhenUndisturbed` | `Spec => []ExactUndisturbed` |
| `Refinement` | `Spec => Implements`: until disturbed, each commit is a step of `AtomicHold` |
| `HandoffsHadTwo` | `RentalSpec => TwoWereThere`: no start unless the host and another user proved the pickup, no completion unless the host and another user proved the return |

None of the invariants is inductive by itself, because a write uses what was read long
before. The inductive invariant `IInv` therefore says of every worker in flight what its
snapshot still guarantees: the snapshot is balanced and its captured total was real when
read (Stripe's total only grows, so it still is), the requested amount fits in the
snapshot, and a worker past `StripeCapture` knows that the intent holds at least the
snapshot's total *plus* its own amount; a worker past `StripeRelease` knows that the
intent is cancelled. An overwrite from such a snapshot preserves the invariant whatever
happened to the row meanwhile. For undisturbed behaviours `SerialInv` adds that at most
one worker is not idle, that its snapshot *is* the stored allocation, and that ledger and
Stripe differ by exactly the operation under way.

`HandoffInv` ties the rows to the history (a verified row was verified by a request that
was seen), and says of a request that is about to commit that it *has found* a row of the host
and one of somebody else: it asked before the lock, and what it found cannot be taken back.

### BookingLifecycle_proofs

For every set of requests, every (symmetric) overlap of their dates and all failures:

| Theorem | Says |
|---|---|
| `BookingTypes` | `Spec => []TypeOK` |
| `RowsArePaid` | `Spec => []PaidBeforeRow` |
| `AnswersAreKept` | `Spec => AnswersStand`, however the job races with the host |
| `RacesAreTheOnlyWayIn` | `Spec => []OnlyRacesDoubleBook`: two live bookings for the same dates come from requests that were under way together |
| `PromiseIsKept` | `Spec => KeepsPromise`: every change of a status is a step of `BookingPromise`, the row of a request that raced with a live booking, or `DISPUTED` on an existing row |

`PaidBeforeRow` needs the step at which a creation stands: `IInv` ties each step of
`CreateBooking` to what it has achieved at Stripe, and an unguarded writer in flight to
the existence of the row it is about to overwrite. `RaceInv` adds that of two requests for the
same dates that have not raced at most one is under way or live (`PairInv`): the second one's
availability check sees the first one's row, or the first one was still under way, and then
they have raced. Both theorems speak of what is deployed, with overlapping requests and with
the writers of `dispute` and `latereturn`. They say that the query without a lock and these
two writers are the *only* obstacles to the promise.

### GuaranteeFund_proofs

For any callers, amounts, misread balances and number of transactions:

| Theorem | Says |
|---|---|
| `BalancesAlwaysContinue` | `Spec => []BalancesContinue`, overlaps and late commits included |
| `FundRefines` | `Spec => Implements`: until operations overlap or a balance is misread, each commit is a step of `AtomicFund` |

`BalancesContinue` alone says nothing of a caller between its read and its insertion.
`IInv` adds that the balance it has seen is still the balance of a committed entry
(`SeenIsCommitted`; entries are never removed), that the stamps of open transactions
differ from each other and from those of all entries (`StampsAreFresh`, so that an insertion
replaces nothing), and that a non-empty ledger has a latest entry (`HasLatest`, which is
what makes `Max` well-defined without assuming a finite ledger). For the refinement
`SerialInv` says that an operation under way is alone, saw the current balance, has the
newest stamp, and is still *due*: a claim fits in the balance, a referral finds the fund
empty (`UpToDate`). `DueIsAStep` turns that into the abstract step.

### DisputeResolution_proofs

For any number of disputes and of operations at once, any amounts and balances of the fund, and
every mixture of failures:

| Theorem | Says |
|---|---|
| `HoldComesFirst` | `Spec => []DrawnInOrder`: card, fund and collections only once nothing is left of the hold, collections only once the fund is empty |
| `HumanGoesFirst` | `Spec => HumanDecidesFirst`: no agent moves money for a dispute that waits for a human, unless something crossed it |
| `ChargesAreExact` | `Spec => []ChargedAsDecided`: what is drawn for a dispute at rest that nothing crossed is what was decided |

*Order* (`DrawnInv`): a settlement that left something for the card had asked for all that
remained of the hold, and what remains only shrinks; so when it reaches the card nothing
remains, whatever other settlements took meanwhile.

*Exact charges and human first* (`Books`): a dispute that nothing crossed has one operation at
work and no job queued, or no operation. In the first case the operation's step tells the status
of the dispute, and so whether it is an agent's or a reviewer's (`StepStatus`); up to the capture
nothing is drawn, and from then on what is drawn and what is left over make up the decision
(`AtWork`). In the second case the dispute is at rest: all or nothing is drawn, and a queued job
finds the status it is for (`AtRest`). The other dispute of the booking appears in neither, which
is the point: it shares hold, card and fund, and does not disturb the sums. What `disturbed`
excepts are gaps of the code (section 5).

### LateReturn_proofs

For any number of workers, any rate, cap, hold and horizon:

| Theorem | Says |
|---|---|
| `RowsShowWhatWasCaptured` | `MoneySpec => []FeeWasCaptured`, in every interleaving, crash and retry |
| `ReserveIsKept` | `MoneySpec => []ReserveKept` |
| `ChargingIsNotLost` | `MoneySpec => []MonitoringGoesOn` |

`CapturedInv` adds that what a worker is about to record was captured too. `ReserveInv` follows
one job: until it captures, row and hold agree; then it will record what the hold has; and an
escalation takes what the captured fee leaves of the cap, and ends the rental. The lemma
`LateFeeGrows` (the fee does not fall with time) makes a fee computed at an earlier moment
safe. `MonitorInv` is the longest: there is at most one check, queued or running, and the row
shows no more than the interval before that check allows (`Pred`), so a check that finds
nothing to charge while something is left to charge cannot occur.

### ReferralPayouts_proofs

For any referees, checkouts and workers and any bounds:

| Theorem | Says |
|---|---|
| `TransfersShow` | `MoneySpec => []MoneyLeavesATrace`, crashes included |
| `NobodyIsPaidTwice` | `MoneySpec => []PaidOnce` |
| `MoneyIsTyped` | `MoneySpec => []MoneyTypeOK`: the types of fund, late returns and referrals together |

`TraceInv`: a row is marked before its money moves, and no row goes back to PENDING.
`OnceInv` follows a referral through its three jobs: one hook at a time holds it and is the
first to touch it (`OneHook`); the evaluation it queues is the only one and has left
nothing behind (`OneQueued`); while that runs the rows of the referral are its own and
unpaid (`OneEvaluation`); and then each row has one transfer job, before whose end its
party has no money (`OneTransfer`). A crash, two checkouts at once, or a transfer whose answer
was lost break these, which is why `PaidOnce` excepts them.

### Trust_proofs

| Theorem | Says |
|---|---|
| `FlagsAlwaysHoldUp` | `TrustSpec => []FlagsHoldUp` |
| `ArbiterReadsTheAgreement` | `TrustSpec => []ArbiterReadsWhatWasAccepted` |
| `EveryRatingCounts` | `TrustSpec => []RatingsAreCounted` |
| `BonusIsEarned` | `TrustSpec => []BonusPerUpgrade` |
| `JudgedOnce`, `CalibrationFollowsTheLog` | `TrustSpec => OutcomeStands`, `TrustSpec => []CalibrationIsCurrent` |
| `TrustIsTyped` | `TrustSpec => []TrustTypeOK` |
| `RiskGrows` | no fact that speaks against a booking lowers its score or softens its control |
| `EstablishedIsServed` | a renter with a decided identity, a known account and a reputation of 300 is refused for nothing but the damage claimed by the host |
| `CancellingLaterCostsMore` | a later cancellation never costs less, and none more than the fee |

- `FraudInv`: whoever is yet to mark a decision has resolved its flag as correct, which
  holds because a flag is resolved once.
- `RatedInv`: while no recalculation is due, the one under way has read every rating, and
  without one the score was computed from every rating or is a backfill's.
- `BonusInv`: the one webhook under way owes a bonus exactly if it made the user VERIFIED,
  and what it read of the profile is still so.
- `OutcomeInv`: the one job under way has nothing to judge that was judged before; of every
  agent Redis says what the log says, or the job is yet to recalibrate it.

Two of the types do not hold by the shape of a record. That a fraud score is a natural number
is a sum over the facts found, in the order in which `CHOOSE` takes them; `SumOfSmallSets`
argues from the least size of a set of facts at which the sum would fail, since none of the
provers instantiates an induction theorem. That there is room for every session (`Replaces`,
`RoomForAttempts`): each attempt goes back to one the user opened, its root, and is known by
that root and by how often it was replaced, so that there are at most `MaxStarts * (MaxRetries
+ 1)`. Nothing in the code says so in one place: a session has one successor at most because
the timeout replaces only the deepest attempt of a root, and only while it is pending or was
just canceled by that same job. The rest of the invariants (`FraudTypes`, `ReputationTypes`,
`LinkTypes`) keep the counters within their limits: an outcome job is either queued or with a
worker, a signal belongs to a bubble that a request no longer owes.

### Office_proofs

| Theorem | Says |
|---|---|
| `HoldCoversWithGap`, `HoldGrowsWithValue` | hold and guarantee gap make up the item value; the hold never shrinks across the borders of the tiers |
| `BookingAddsUp` | for every value, price, duration and all rates, the amounts of a booking add up, and the capped late fees leave the damage reserve alone |
| `OfferStands` | `OfficeSpec => [](AmountsAddUp /\ HostPricesStand)`, for any edits and overlapping appraisals |
| `QuoteIsKept` | `OfficeSpec => QuoteStands` |
| `WaitEndsWithTheWindow`, `EndIsNotQuiet` | a deferral lasts one hour to one day and ends with the window, which is not quiet then |
| `QuietIsAlwaysKept` | `OfficeSpec => QuietIsKept` |
| `ThreadsAreReadWhole` | `OfficeSpec => [](M!TypeOK /\ ScanIsWhole)` |
| `SomeoneIsIn` | `OfficeSpec => [](S!TypeOK /\ OneDeviceIsIn)` |
| `CardsAreTheChargedOnes` | `OfficeSpec => [](A!TypeOK /\ CardIsTheChargedOnes)` |
| `StatusStaysTrue` | `OfficeSpec => [](B!TypeOK /\ StatusIsTrue)` |
| `FeedStaysWhole` | `OfficeSpec => [](D!TypeOK /\ FeedIsWhole)` |
| `OfficeIsTyped` | `OfficeSpec => []OfficeTypeOK` |

- *Listing* (`ListingInv`, `QuoteInv`): the columns are amounts, and `Coalesce` never
  replaces what a host entered. A quote with a value still shows the listing's value when
  the booking reads it: a declared value is entered once, and an estimate is
  written only where there is none.
- *Notification* (`NoticeInv`): a deferred notice that nothing disturbed becomes due when
  the window in force ends (`Timely`), and a tick of the clock keeps this (`NextHour`).
- *Messaging* (`ThreadInv`): ids belong to one row or one draft each (`IdsInv`); a reader has
  read, in ascending order and nothing twice, all rows of the thread as he opened it that his
  cursor has passed. That the next page goes on where the last one ended rests on `InOrder`:
  the rows of `RowOrder`'s `Ascending` are ascending and complete.
- *Sessions* (`SessionInv`): until a device has two calls under way or something fails, a user
  with an account has a device that holds the stored token, or is about to store or be answered
  with one.
- *Accounts* (`AccountInv`): one request at most is in flight, and every card, every
  charge and the card being saved are the one customer's.
- *Backfill* (`BackfillInv`): what the three counters are, at each step of the one job.
- *Discovery* (`FeedInv`): a listing that was there all along and has not been shown is below the
  cursor, and, while a page is enriched, on that page and not yet left out, or older than
  all of it.

### What stays with TLC

- *Liveness* (`ProcessedInTheEnd`, `DeclinedInTheEnd`, `StalledIsClosed`): temporal
  proofs under fairness are out of the prover's reach.

The operators of the library that sort and filter sequences are recursive and opaque to
the provers. `RowOrder` says what `Messaging` and `Notification` need of them as functions
on positions, of which the proofs can say what they return.

## 5. Where code and documents disagree

Shown by a run:

1. **Double booking** (`booking_double`): the availability check is a plain query; nothing
   in the schema excludes overlapping rows.
2. **A punctual late-return check ends the monitoring** (`late_start`): due at
   `scheduled_end`, it finds less than a minute of delay and queues no successor.
3. **A referral that is PAID and never paid** (`referral_lost`): PAID is committed before
   the transfers are queued, and a repeated evaluation stops at PAID.
4. **A settlement that is repeated draws twice** (`dispute_twice`): it is cut off after the
   hold was captured, and its job starts again from the beginning.
5. **A stranger's position lets a rental start** (`handoff_stranger`): `CheckHandoffComplete`
   (`proximity/service.go:172-177`) takes any verified proof that is not the host's for the
   renter's, and nobody asks whether the caller is a party.
6. **A stalled identity check never reaches a human** (`verification_chain`): the check of the
   replacement is never queued, since the timeout worker's service has no River client
   (`app/server.go:138-141`, `timeout_job.go:120`).

Seen while modelling. Where a property is stated "until" or "unless", this is its exception.

- *hold*: `CaptureFromHold` computes from the row read at `payment/service.go:189`, before
  the lock (PRD:355 asks for lock, read, compute in one transaction), so overlapping
  captures vanish from the ledger. A crash between Stripe's capture and the commit leaves
  money captured that no row shows; a retry captures again (`payment/service.go:182` says
  "atomically").
- *booking*: `DISPUTED` is written past the state machine from any status
  (`dispute/service.go:90`, `latereturn/service.go:387`; PRD:866). `CheckOut` completes a
  disputed booking before any decision (PRD:891). Completion neither releases the hold nor
  schedules the payout (PRD:342). When the auto-decline job cannot be inserted the request
  waits for ever (`booking/service.go:235`, PRD:903). An authorization whose answer is lost, a
  release that fails after a refused charge, and an insertion that fails leave a hold on the
  renter's card that no row shows (`payment/service.go:77-80`, `:124`).
- *handoff*: `booking/service.go:292` and `agent/agreement/service.go:281` say that the
  acceptances of the agreement gate the pickup; `CheckIn` never asks for them. A renter
  counts as verified by a PIN whatever GPS found, or by GPS alone, although
  `proximity/service.go:150` says "renter must also have passed PIN verification".
  `proximity/model.go` says "at most one record" per party and handoff; there is no such
  key. The PIN is never serialised, so only the SMS fallback can deliver it. Proofs of the
  return may be made before the pickup.
- *fund*: two claims at once can bring the balance below zero, and the referral entry
  (negative, though nothing leaves the fund) does so on its own (PRD:357,
  `guaranteefund/service.go:156`). An empty fund is an error of the settlement rather than
  a referral (`dispute/hold.go:84`).
- *dispute*: a settlement that fails after the hold was captured starts from the beginning on
  the retry and captures again (`dispute/hold.go:84`, `src/cross-cutting.md:39`). Two reviewers
  may settle one dispute (`dispute/service.go:374`); APPROVE with an amount charges the agent's
  amount and stores the other (`:425`); a request for evidence is granted in any status, also
  while the agent is at work (`dispute/handler.go:239`); two requests in flight open two
  disputes (`:72`); a re-prompt is satisfied by photos older than the request
  (`dispute/jobs.go:75`); what is left of the hold after a settlement is not released (`:281`,
  PRD:344). `media.transaction_id` is set by no statement, so a dispute has no photos as
  evidence, every re-prompt ends in an escalation and every photo comparison is INCONCLUSIVE.
- *late returns*: a worker that dies between `RecordCharge` and queueing the next check
  ends the chain; a capture whose `RecordCharge` is lost is repeated; a conflict that ends
  lowers the fee that is stored, so a later escalation captures past the cap;
  `RecordCharge` overwrites an escalated status; the escalation works from a stale fee,
  does not record what it took, and marks the booking DISPUTED without a dispute row. A capture
  or a mark that fails there is only logged, and a failed query for conflicts leaves the rate
  single.
- *referrals*: a crash after the transfer, a transfer whose answer is lost, or two checkouts at
  once pay twice; a velocity check that fails passes (`referral/service.go:237`); the
  velocity limit counts PAID payouts only and not what is in flight; an evaluation that
  runs while the River client is unwired (`app/server.go:274`) queues nothing; the hook fires
  on a rental as renter, PRD:1084 says host.
- *payment*: overlapping `SetupRenterPayment` calls make two customers, and every `OnboardHost`
  call makes another account. `ScheduleHostPayout` is called from nowhere. The cap of late fees
  falls back to 40 % for a reserve rate outside 0..10000 (`latereturn/service.go:426`), the
  reserve of `CreateBooking` does not. Rentals of less than a day of a listing with a daily
  price only cost nothing. A price of 19.99 is charged as 19.98.
- *listing and appraisal*: `listing/repository.go:134` says that `Update` applies the fields that
  are given, but a missing `availability` is written as an empty list (`:145`), so an edit clears
  the host's windows. No statement ever sets ACTIVE. A suggested price of 0 is
  written, and its fee is 0; the first estimate of the value sticks, and a failed later
  run erases the appraisal's own. A host's value counts whatever a reviewer decided. When
  the listing's update fails the listing stays PENDING under a COMPLETE appraisal; a late
  failure overwrites COMPLETE. Without River, `EnqueueAppraisal` skips although its
  comment says that it runs synchronously (`agent/appraisal/service.go:97`).
- *risk*: `CreateBooking` passes neither value nor start to the score, although
  `booking/service.go:203` says that the listing's value is enough; `FindTransactionDetails`
  takes the hourly price for the value; GeoMismatch, DeviceFingerprintMatch,
  CompoundNetworkSignal and VelocityFlag are never set; a REJECTED identity weighs nothing
  while a PENDING one weighs 20; `FindHostMetrics` compares `cancelled_by` with the host's
  id, and cancellations by hosts count in the renter's history. The agent blocks without
  setting `Escalated`.
- *reputation*: a positive rating lowers the score to five times the bubbles until the
  next recalculation. The KYC bonus is added after the identity was set, so a
  recalculation between the two counts it twice until the next one
  (`user/service.go:225`); the "one-time KYC bonus" (`user/service.go:223`) is given again
  after VERIFIED, REJECTED, VERIFIED. A backfill replaces every score by the sum of the user's
  signals (`agent/backfill/jobs.go:127`), which knows neither rentals nor disputes, until
  something else recalculates it. The monthly and decay jobs are never scheduled
  (`reputation/jobs.go:13`), and the monthly bonus would be erased by the next recalculation.
- *outcomes*: an APPROVE is recorded as HUMAN_OVERRIDE (`outcome/service.go:117`); a
  confidence of 1.0 lies in no bucket; decisions without a transaction id (agreement,
  verification, fraud, appraisal) are never judged; `outcome/repository.go:139` reads the
  risk score by user.
- *fraud*: "within 5 % of the hold" compares cents with dollars, so such claims never match
  (`agent/fraud/patterns.go:70`). The scheduled scan flags the same user again every six
  hours, nothing acts on SUSPEND, an exclusive pair flags the renter only, and a "full
  signal + pattern bundle" runs the signals only. `PayoutDelayed` is unused.
- *notification*: a worker's notice in quiet hours is dropped: its service has no River client,
  so it can neither push nor defer (`app/server.go:129`, `notification/service.go:41`, `:132`).
  A deferred notice is recorded twice; reminders are never scheduled; a push token stays with
  its first user; unreadable preferences mean the defaults, which push in quiet hours; the hour
  is read twice, and a change between the two delays a push by a day.
- *sessions*: the app starts a refresh for every request that is answered 401
  (`src/mobile/lib/api.ts:19-27`, `src/mobile/lib/auth.ts:101-111`), and all but the first that
  reaches Redis may be refused, which logs the device out; two that both pass may be answered
  in another order than they were stored.
- *messaging*: the last message of the list is by `created_at`, the thread is by id.
- *backfill*: River's default timeout of a minute makes the remaining items fail and the
  job still completes; a failed write of a risk score counts as success; overlapping jobs share
  counters, and the status reads the three one after the other.
- *discovery*: the app's cursor is the last listing of a page that was sorted by rank
  (`useDiscovery.ts:64`), while the query goes by id: pages repeat listings. A page whose
  listings are all left out looks like the end, and older listings are never shown
  (`FeedIsWhole` excepts it by `emptied`). A host whose only request so far expired is
  left out everywhere but on the map. While the routing service is down no listing is too far.
  A `limit` above the maximum means 20.

## 6. What is not modelled

`PROJECT.json` lists every component with its status.

- *Photo comparison* finds no photos (section 5), so each comparison is stored as
  INCONCLUSIVE; what the dispute agent makes of it is a free choice in `DisputeResolution`.
- *Router, ops agents*: the choice of a language model, monitoring; nothing that another
  component decides on.
- *Platform and wiring*: adapters. What they guarantee (a committed transaction stays;
  jobs are delivered at least once and again after a failure) is assumed; the start-up
  window is in `ReferralPayouts`, the missing River client in `Verification`.
- *Mobile app, image service, scripts* keep no state the backend relies on; what they may
  send is a free choice of the actions' inputs.

Left out of the components that are modelled in part: the prompts and evidence of a dispute
and its SLA monitor (it only logs); referral codes' expiry and use counts (the program
creates unlimited codes only); the fund's health jobs (they only read);
`ReviewOverride` of an appraisal (its verdict is read by nobody), a listing's texts and
public pages; the payout job (nothing queues it); a notification's read flag and the
reminders (nothing queues them); a profile's name, picture and password; the stored risk
score (shown, never decided on) and the monthly jobs; the map view, the fuzzed coordinates
and the weights of the rank, which are reads.

Some hazards of the list have no property because the code does not keep any: a dispute that
an escalated late return relies on, two claims on the fund at once, a balance misread by a
cent, a check that dies before it queues the next, a calibration that is not repeated, the
windows that an update clears, a worker's notice in quiet hours. The models take these steps;
their notes in `PROJECT.json` say what follows.

## 7. Plan

*Done*: the money path (hold, booking, fund, disputes, late returns, referrals), the people
path (handoff, agreement, identity, reputation, outcomes, fraud, risk), and the rest of the
backend with state of its own (listing, fees, notification, messaging, sessions, accounts,
backfill, discovery). Every safety property that a run checks is proved.

Next, in this order:

1. Monotonicity of the cancellation fee in the host's rates, in `Trust_proofs`.
2. The fund of `GuaranteeFund` instead of a number in the settlement of `DisputeResolution`.
