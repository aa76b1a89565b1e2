# Verification of the attraction booking backend

TLA+ models, TLC runs and TLAPS proofs about the booking core of the backend in
`src/`: a multi-tenant Express and MongoDB server that sells tours, packages
and bundles of several suppliers' tours, takes card payments through each
tenant's own Stripe account, distributes seats to resellers over OCTO, and
sends mail about what happened.

Every definition is translated from the source; `PROJECT.json` ("map") names
the lines each one stands for. Paths below are relative to `src/src/` unless
they begin with `src/`.

## 1. The system

### 1.1 How it runs

Express handlers and timers share one MongoDB. `app.ts` starts, in **every**
process, the timers of the expired-hold sweep, the cancellation worker, the
bundle sweeps, the mail outbox, the webhook outbox and others
(`app.ts:175-335`). Nothing elects a leader: two replicas run the same sweep at
the same time, and some sweeps overlap with themselves. Inside the program
there are no locks. Mutual exclusion comes from

* conditional updates (`findOneAndUpdate` with the expected state in its filter),
* Mongo transactions, atomic and retried as a whole, under snapshot isolation,
* fences: a counter written only so that two transactions collide on it,
* leases (a time on a row, with or without a token), which can run out under a
  live worker,
* Stripe's idempotency keys, which Stripe forgets after about 24 hours.

Accordingly in all models *one await is one step*: a transaction or one
conditional update is an atomic action; a read followed by a provider call
followed by a write is three, and everything else may happen in between. Only
`Checkout` opens a transaction up, into its snapshot and its commit, because
there the question is what a snapshot may miss.

### 1.2 Inventory

| Part | State it keeps | Operations | What is hard | What makes it correct |
|---|---|---|---|---|
| Card holds and payment sessions (`controllers/payments.controller.ts`, `services/bookingInventory.service.ts`, `bookingPaymentBinding`, `bookingPaymentFailure`, `bookingPaidEffects`, `stripe`) | `Booking.status`, `paymentStatus`, `stripePaymentIntentId`, session claimed/closed markers, inventory markers; Stripe's PaymentIntents and keys | create/resume a session, confirm, webhooks, decline, finalise, expired-hold sweep | requests, sweeps and webhooks without a lock; crash between Stripe's answer and the bind; key expiry; late events | seats never return while money can still move; one intent; money taken buys the booking; holds end |
| Booking cancellation (`services/bookingCancellation.service.ts`, `models/BookingCancellation.ts`) | durable command row: status, attempts, lease, `providerAttemptedAt` | request, claim, list refunds, attempt, refund, finalise, error | lease running out mid-call; crash after the attempt; reversal of a refund | one refund; cancelled means refunded; it ends or a person is called |
| Refund ledger (`services/bookingRefund.service.ts`, admin refund in `payments.controller.ts`) | `Booking.refundedAmount`, `paymentStatus`, the ledger per refund; `User.totalSpent` | webhook reconciliation, admin refund, ledger write, total | lists read before writes; three writers of one total | the two books agree; the ledger never claims what Stripe did not do; no step back |
| Seat inventory (`services/bookingInventory.service.ts`, `models/Availability.ts`, `controllers/attractions.controller.ts`) | `Availability` row per tour and day: slots with `booked`, `isBlocked` | reserve, release, block, unblock, stop-sale batch, calendar | two channels, two ledgers, rows made on demand, two clocks for one day | counters equal what guests hold; advertised is bookable; a stop sale stops |
| OCTO reservations (`routes/octo.routes.ts`, `models/OctoHold.ts`) | `OctoHold` status, expiry, seats | reserve, expire, confirm, cancel | confirm racing expiry; booking created without inventory markers | booking and reservation end together |
| Integrity scripts (`scripts/*-booking-integrity.ts`) | none of their own | audit, repair of missing markers | run beside live traffic | takes no seat twice |
| Mail outbox of paid bookings (`services/bookingPaidEffects.service.ts`, `models/BookingPaidEffectV1.ts`, `controllers/notificationFailures.controller.ts`) | effect per audience: status, lease, attempts, `providerAttemptedAt`, recipient fingerprint | write with payment, recover, claim, prepare, attempt, send, record, reconcile | provider without idempotency; workers that outlive their lease; edits of addresses | at most once; to the pinned address; nothing lost silently |
| Checkout of tours, packages and bundles (`controllers/bookings.controller.ts`, `controllers/packages.controller.ts`, `services/packageBooking`, `bundleOrder`, `bundleInventory`, `bundleIdempotency`, `packagePromo`, `tenantFinance`) | idempotency records, quotes, seat counters, allotments, promo use, `financeRevision`, `packageRevision`, fences | quote, claim a key, price, book in one transaction, fail, retry, return, edit fees, package and code | edits between pricing and commit; ambiguous commits; reclaimed leases | one purchase per key; sold at the present terms; books balance |
| Bundle orders and payments (`services/bundlePayment`, `bundleOperations`, `models/BundleOrder`, `BundleProviderEvent`) | order and payment status, binding, session claim, children, capture; event rows with leases | session, confirm, webhook, decline, allocate, cancel, recover, expire, review | four kinds of process on one order; sessions that die at Stripe; events claimed, lost and redelivered | whole or not at all; captured stays paid; the hold ends; a charge is recorded |
| Bundle refunds (`refundBundleOrder`, `processPendingBundleRefunds`) | refunds array with leases, `refundedMinor`, `refundPendingMinor` | reserve, claim, create or retrieve at Stripe, record, account, recover | answers lost, leases expired, keys forgotten, accounting refused | the books are backed by Stripe; a refund settles; a cancellation takes the rest |
| Bundle settlement (components, `fulfilBundleComponent` and others) | component status, refund share, settlement, dispute | fulfil, release, pay, resolve, refund | partial refunds before and after payout; rounding | shares add up; paid after service; payouts stay tracked |
| Tenant gateway (`services/tenantPayment.service.ts`, `updatePaymentGateway`) | key pair, proof of account, endpoint secret, revision, fence | read, count, save; checkouts' claims; webhook trust | counts older than the save; marks older than the settings | no open payment loses its account; trust is earned by the present settings |
| Webhook delivery, notices, reminders, bundle outbox | delivery rows, receipts | enqueue, claim, post, record | at-least-once with leases | every event delivered or failed after its attempts |
| Attendance, image queue, tenants, users, catalogue, content, statistics | records | create, read, update, delete | little | |

Interactions: a checkout takes seats and leaves a pending hold; a payment
session claims the hold at Stripe and, in the same transaction, moves the
gateway's fence; the webhook or the confirm call finalises, writing the booking
and the outbox rows in one transaction; the sweep releases what was not paid; a
cancellation refunds first and releases after; OCTO and the storefront share
the day's row. A bundle order does the same over several suppliers' departures
under one PaymentIntent, and afterwards pays the suppliers.

`PROJECT.json` lists all parts ("components") and every hazard found while
reading ("hazards") with the properties that watch it. A hazard without a
property says why.

## 2. Modules

| Module | What it is |
|---|---|
| `CardHold` | one card booking from creation to the end of its hold |
| `HoldContract` | the abstract promise: seats and money change hands together |
| `CardHoldRefinement` | the refinement mapping from `CardHold` to `HoldContract` |
| `CancelRefund` | a paid booking, its refunds and its cancellation |
| `SeatInventory` | one tour's departures on one day, both channels |
| `PaidEffects` | the mail outbox of a paid booking |
| `Checkout` | buying a tour, a package or a bundle: key, price, transaction, failure |
| `BundleOrder` | one bundle order from reservation to allocation, cancellation or expiry |
| `BundleRefund` | the refunds of a captured bundle order at Stripe |
| `BundleComponents` | the components of that order, and what must hold of them |
| `BundleSettlement` | what happens to them: portions, service, payouts, disputes |
| `BundleMoney` | the order's own fields, which both share |
| `Allocation` | `allocateProportionally`: an amount shared out in whole minor units |
| `RefundContract` | the abstract promise of both: money is set aside, then set free or paid back |
| `GatewaySwitch` | a tenant's Stripe settings changed under running payments |
| `...Proofs` | TLAPS proofs about the module of the same name; `CardHoldProofs` holds those of `CardHoldRefinement` too, and `BundleMoneyProofs` those of `Allocation`, `BundleRefund` and `BundleSettlement` |
| `MC...` | values and symmetry sets for TLC |

A module whose runs need neither has no `MC` module; `CardHold` is run from
`CardHoldRefinement`, which holds the mapping its refinement property needs.

Operators called "Mutant" in comments are plausible wrong versions of the
definition that follows them. `PROJECT.json` ("mutants") says which property
notices each; they are not part of any specification.

### 2.1 CardHold

State: `bk` is the Booking document with the fields the hold code reads;
`intent`, `made`, `key` are Stripe (state per PaymentIntent, how many were
created, what the idempotency key answers); `shown` is the intents whose client
secret a customer has; `stale` and `recoverable` are the two clocks (30-minute
window, 23-hour limit on the key); `failHook` the `payment_failed` deliveries;
`op` the unpaid cancellation; `hd[h]` and `sw[s]` the program counters and
locals of concurrent requests and sweeps.

Actions follow the code await by await: `PayRead` ... `PayBind`
(`createPaymentIntent`), `FinalizePaid` (webhook and `confirmPayment` both end
in `finalizePaidBooking`), `DeclineRead`/`DeclineApply`
(`bookingPaymentFailure`), `SweepRead` ... `SweepRelease`
(`expireStaleCardHolds`), `CancelRead`/... for an unpaid booking, and
the customer's and Stripe's own moves. `PayStops` and `SweepStops` stand for
thrown errors and process death at any await. Bookings cancelled by an older
release, before the session markers existed, are an alternative initial state:
the sweep selects them too, and `HoldContract` is silent about them.

### 2.2 CancelRefund

State: `bk` (status, payment status, `refundedAmount`, release marker, ledger
per refund), `spent` (this booking's part of `User.totalSpent`), `op` (the
durable command), `refund` (Stripe's refunds, named by the idempotency key they
were made under), `dirty` (Stripe owes an event), and workers, webhook
deliveries and admin requests with their locals. A worker's list of refunds is
read in one step and acted on in later ones; leases expire; processes die.

Abstractions: "active" stands for pending and confirmed; the attempt counter
saturates at the limit; the ledger writes of one webhook delivery (one
conditional update per refund) are one step; Stripe never forgets a refund's
key, so two equal admin refunds more than 24 hours apart are not modelled as
two; suppression of repeated events (`WebhookEvent`) is left out, which only
adds deliveries.

`CancelledIsRefunded` speaks of the step that closes a booking (cancelled, or
its seats released): the refunds that succeeded at Stripe and that the booking's
ledger does not know to be reversed must then come to the price, and the
cancellation's own refund must be one that succeeded. It does not go by
`refundedAmount`, which `Finalize` sets to the price whatever it was given. A
reversal after the worker's listing is not yet known when the booking closes;
`ReversalIsSeen` is about what becomes of it.

### 2.3 SeatInventory

State: `row` (the day's `Availability` row, keyed by UTC midnight: exists,
blocked, listed departures, `booked` per departure), `bk` (bookings with
`inventoryReservedAt` and `inventoryReleasedAt`), `hold` (OCTO reservations),
`utc` (whether the server's clock runs on UTC), `stray` (a stop-sale row of the
next day lies within this one) and `told` (what the admins were last answered
about a stop sale of this day). The booking made by confirming a reservation has
the reservation's name and no marker, as in the code; bookings older than the
markers are among the initial states, for the repair script.

A day has two keys. Bookings, OCTO, the repair script and the stop-sale batch
use UTC midnight; `blockDates` and `unblockDate` use the server's own midnight.
On a server that runs on UTC these are one. Elsewhere `BlockDates` and
`UnblockDate` report success and leave the day's row alone: a date without a
time is midnight in UTC, and the server's last midnight before that lies within
the UTC day before, east and west of Greenwich alike. Only the calendar, which
reads a range, meets the row there. `BlockNextDay` is the stop sale of the next day seen from this one.
`BlockedStaysClosed` therefore speaks of the stop sales that reach the row
(`Stopped`), and `AdvertisedIsBookable` lets a stray row hide seats. Section 5
has what this means.

`SeatsAccounted` is exact: the counter of a departure is the seats of those who
are to travel and of three leaks, which it names: bookings deleted while they
held seats, seats the repair script took a second time for a reservation's
booking, and confirmed reservations whose booking was ended on the storefront
side. Nothing else keeps or loses a seat.

Each action is one transaction. `Fits` is the filter of the update that takes
seats; `StorefrontRow` and `OctoRow` are the two different ways a missing row
is prepared; `StorefrontVacancies` and `OctoVacancies` what the calendar and
the OCTO availability call show. "live" stands for pending and confirmed.
Confirming on OCTO reads before it claims; the claim repeats the conditions,
so the two are one step. A repeated POST of the same reservation answers from
the stored document and changes nothing.

### 2.4 PaidEffects

State: `booking` (as the worker's comparison sees it), `address` (where each
audience's mail would go now), `ev` (the effect of each audience), `wk` (the
workers), `mail` (what the provider accepted, in order). `FinalizePaidBooking`
writes both effects; a worker goes `Claim`, `ReadBooking`, `Prepare`, `Start`
(the recorded attempt and the ticket event, one transaction), `Send`, `Record`;
`Throws` is an error before the provider; `Recover` is another pass finding an
expired lease; `Reconcile` is the admin endpoint. `Start` has a third outcome:
the transaction commits and its answer is lost. `Send` lets the provider accept
without the worker learning of it, and a process may die before or after it.

`nextAttemptAt` only delays and is left out. A lease token is modelled as the
worker's name: a process holds one record at a time and forgets it when it
dies, so names distinguish what the random tokens distinguish.

### 2.5 Checkout

State: `policy` and `edition` (the revisions of a site's fees and of a
package), `promo` (terms and `usageCount`), `quote`, `booked` and `reserved`
(the departure's counter and the part of it lent to bundles), `record` (the
idempotency records of both kinds), `sold` (bookings and orders), `client` (the
requests).

A request goes claim, price, transaction, in the order of its kind: a tour
claims its key first, a package prices first, a bundle was priced by its quote.
`Begin` reads and checks everything in the transaction's snapshot; `Commit`
succeeds only if nobody wrote, since, one of the documents in `WriteSet`, which
is where the fences enter: `fenceFinancePolicy` writes the site and
`fencePackageBooking` the package although neither has anything to store there.
Every step that writes documents makes the open transactions on them stale
(`Disturbed`), and a stale one starts over or gives up (`Conflict`). A commit
may be reported as failed. `AfterFailure` is what the handlers' catch leaves of
the record: both kinds only touch one that is still processing. Prices are
numbers of revisions ("terms"); two prices are equal when the revisions are.

### 2.6 BundleOrder, BundleRefund, BundleSettlement

`BundleOrder` has the order document, the children and departures of its
components, the order's one PaymentIntent, `expired` (the hold's time), the
session requests `sess`, and two kinds of process with a job and a program
counter `job[p]`: servers (cancel, recover, confirm, a webhook delivery) and
sweepers (expire, allocate). `sent`, `acked` and `row` are the two events of
the intent, Stripe's redelivery and the `BundleProviderEvent` rows with their
lease. The intermediate statuses `paid` and `allocating` are entered and left
in one transaction. `Fault` collects what a process does when it throws or
dies.

`BundleRefund` looks at one captured order and its refund operations: `op[o]`
(status, amount, lease, whether it was sent and whether the refund's id is
known), `stripe` and `first` (the refund at Stripe, and the answer its
idempotency key repeats), and the processes, requests and sweeps, which run the
same `refundBundleOrder`. Stripe forgets a key after about a day: `KeyForgotten`
makes an operation of which only the key was known be sent as a new refund, and
what its first sending came to joins `orphans`. Retries have no age limit, so
this is a matter of an outage long enough. A refund that succeeded may come
back (`StripeReverses`); no order hears of it. `revived` remembers, for the
properties only, an operation that was given up and accounted for after all.
`Aged` names the operations that these two things may happen to: in the run
one, in the proofs any. Each operation has its amount from `Amount`; the check
of the gateway's configuration and the claim of the lease, which no other
process can tell apart, are one step. `BundleSettlement` looks at the same order's
components and takes each refund as one step; the order is the same document
(`BundleMoney`), its status at the resolution each question needs. State and
properties of the components are in `BundleComponents`, which has no `Init` or
`Next` of its own, so that one proof module can speak of both models. `RefundContract`
is what the two have in common, and both implement it: whatever the processes
of `BundleRefund` go through between two awaits, the order's totals change the
way `BundleSettlement` lets them change in one step.

`Allocation` is `allocateProportionally` of `bundles/money.ts`: the floors of the
exact portions, and one unit of what they leave over for each of the heaviest
weights, the earlier one first among equals (not for the largest remainders).
The code's loop goes round the sorted weights and could give a second unit to
one of them; the model gives each one at most, and `FloorsLeave` proves that no
more is ever left over. `Portion` applies it to what each component's price has
left. A component may be free: its supplier asks nothing for these guests, and
the quote shares nothing out to it; one component of the run is. Products of
amounts are exact: JavaScript's are below 2^53, 90 million in each factor.

### 2.7 GatewaySwitch

State: `cfg` (`tenant.paymentSettings.stripe`: on, key pair, whether the
account is proved, endpoint secret, whether deliveries are verified, revision
and fence), `session`, `bound`, `intent` and `seen` (of bookings and bundle
orders: where a session stands, the keys it was claimed with, where Stripe
keeps its intent, and the settings a request goes by), `admin` (a request to
change the settings, at its reads, its two counts, its load and its save),
`hook` (the settings an event has vouched for).

`Ask`, `CountBundles`, `CountBookings`, `Load`, `Save` are the awaits of
`updatePaymentGateway` and `saveTenantStripeConfig`; each count comes from a
moment of its own. `Claim` is the transaction of a session that moves the
fence. A booking needs its account and mode, a bundle order its very keys
(`Matches`). An intent is where its keys' account is, in reality, not in the
settings.

## 3. Runs

Type invariants are not listed in the runs: they are proved for every module.

| Run | Question | Properties | Bounds and why they are enough |
|---|---|---|---|
| `card_hold` | can any interleaving lose money or seats of a hold, does it end, do the handlers implement the contract? | `ReleasedCannotCharge`, `ChargeIsFinalizable`, `OneIntentPerBooking`, `CancelExcludesPayment`, `ClosedMeansVoid`, `HoldEnds`, `ImplementsContract` | 2 requests, 1 sweep, 2 intents (one more than the property allows); more sweeps are the proofs' |
| `cancel_refund` | do two workers, a webhook and an admin's refund respect the command, close a booking only when it is paid back, and keep both books? | `OneProviderAttempt`, `CompletedMeansCancelled`, `SpentMatchesRefunds`, `LedgerIsTrue`, `CancelledIsRefunded`, `NeverBackwards` | 2 workers (one overtaken by the other), 1 webhook, 1 admin refunding half of 2, so that the cancellation refunds the other half; 1 attempt after which the limit is reached (more are the proofs' and the next run's); foreign refunds are the proofs' and the next run's |
| `cancel_refund_live` | does a cancellation end, also after a retry, and is a reversal seen? | `CancellationAnswered`, `ReversalIsSeen` | 1 worker, 1 webhook, 1 refund made in the dashboard, price 2, 2 attempts: an error, its retry by a later claim, and the limit |
| `seat_inventory` | do all writers of a day's row keep the counters? | `SeatsAccounted`, `AdvertisedIsBookable`, `ResellerCancelHolds`, `BlockedStaysClosed` | 2 bookings, 1 reservation, 2 departures, one of them among the legacy times, capacity 3, parties of 1 or 2: full, nearly full, too large a party, and a departure the row does not list; both clocks, bookings with and without markers; more reservations are the proofs' |
| `paid_effects` | can a confirmation be sent twice, elsewhere, or be recorded falsely? | `AtMostOnce`, `MailIsBacked`, `OutcomesStand` | 2 workers (one past its lease and its successor), 2 addresses and none, 2 attempts |
| `paid_effects_live` | does every effect end even if every attempt dies? | `EffectsSettle` | 1 worker, 3 attempts |
| `bundle_order` | is an order paid and held as a whole, whoever touches it? | `ConfirmedIsWhole`, `CapturedStaysPaid`, `ExpiredCannotCharge`, `HoldEnds`, `ChargeRecorded` | 2 departures, 1 session request, 1 server, 1 sweep; each starts again and again, so a request that died leaves its traces for the next; more of each is the proofs' |
| `bundle_refund` | are refunds backed, settled, and whole under a cancellation? | `RefundedIsBacked`, `CancellationRefundsRest`, `RefundSettles` | price 2, 2 operations of 1 and 2 of which the first may outlive its key or be reversed, 1 request, 1 sweep: the two meet on one operation or work on different ones, which compete for what is left; more operations and other amounts are the proofs' |
| `bundle_settlement` | do components, seats and payouts follow the refunds? | `PortionsAddUp`, `FullRefundFreesSeats`, `PaidAfterService`, `PayoutIsTracked` | 3 components for 2, 3 and nothing (floors leave a unit over or none; one weight is zero from the start, others become so), nets 1, 3 and 0, refunds of every amount; more components and other prices are the proofs' |
| `gateway_switch` | does a payment keep its account, and trust its owner? | `GatewayStands`, `TrustIsProven` | 3 key pairs of 2 accounts, 2 endpoint secrets, 1 booking, 1 order, 1 admin with 2 saves, 1 delivery; any number of admins is the proof's |
| `checkout` | is a purchase found by its key, at the present terms, in balanced books? | `FoundByKey`, `BooksBalance`, `SoldAtPresentTerms` | 2 requests, 1 ordinary and 2 bundle keys, a tour and a package, one at a time, with a promo code that has one use, a bundle for both departures, 1 seat each, 1 edit; tours and packages under several keys, competing for the code, are the proofs' |
| `bundle_cancel_race` | is a cancelled order's intent void before its seats return? | `CancelledCannotCharge` (fails) | 1 component, 1 session request, 1 server, 1 sweep |

`CHECK_DEADLOCK FALSE` appears where a booking or an order reaches a final
state after which nothing has to happen; `checkout` checks for deadlock.
Symmetry is used in safety runs only, over sets of interchangeable processes,
bookings, departures or addresses. `cancel_refund` also has a VIEW that leaves
out `dirty`: without fairness a webhook delivery may begin in any state, so no
step and none of the run's properties depends on whether Stripe owes one.
Overlapping hold sweeps (`app.ts:243`) are the proofs': the run of `CardHold`
has one sweep.

What the properties say of the code:

* **Money and seats.** `ReleasedCannotCharge`, `ExpiredCannotCharge` and
  `ClosedMeansVoid` are the order of "void at Stripe, then release";
  `ChargeIsFinalizable`, `CapturedStaysPaid` and `ConfirmedIsWhole` are the
  other direction: money that moves finds what it pays for. `ChargeRecorded`
  says a bundle's charge reaches its order through leases, crashes and
  redelivery, although `failBundleProviderEvent` has no condition and may
  reopen a completed event: the replay is harmless and the redelivery needed.
* **Once.** `OneIntentPerBooking`, `OneProviderAttempt`, `AtMostOnce`,
  `RefundedIsBacked`, `FoundByKey`.
* **Books.** `SpentMatchesRefunds`, `LedgerIsTrue`, `SeatsAccounted`,
  `BooksBalance`, `PortionsAddUp`, `PayoutIsTracked`.
* **Stale reads.** `SoldAtPresentTerms` is why the fences write documents that
  a sale only reads; `GatewayStands` is why a session's claim moves the
  gateway's fence, since the admin's counts are old when the settings are saved;
  `TrustIsProven`, `CancellationRefundsRest`, `AdvertisedIsBookable` and
  `BlockedStaysClosed` are of the same kind.
* **Ends.** `HoldEnds` (of both kinds), `CancellationAnswered`, `ReversalIsSeen`,
  `EffectsSettle`, `RefundSettles`.

`RefundSettles` excepts an order one of whose refunds has gone astray
(`Astray`): the books gave it up although Stripe took it (`Mislaid`: a process
that finds no gateway marks the operation failed while another is sending it,
and nothing looks at it again); it was given up so and accounted for after all
(`revived`); or Stripe made it under a key it has forgotten. Each of the three
can leave another refund of the order open for ever (section 5), so without any
one of them TLC finds the property violated.

## 4. Fairness

* `CardHold`: weak fairness of the sweeps' and of Stripe's and the webhook's
  steps (timers fire for ever, Stripe redelivers for days); strong fairness of
  the steps a crash can pre-empt, which says that a process does not die at the
  same await each time; the customer does not try to pay for ever. Nothing is
  assumed of payment requests or of the customer paying at all.
* `CancelRefund` (`cancel_refund_live`): the worker and webhook steps are weakly fair, leases end,
  Stripe settles pending refunds; eventually processes stop dying and live
  workers finish within their lease. Errors may be thrown for ever: the attempt
  limit has to end that.
* `PaidEffects`: leases expire, passes start again, a live worker takes its next
  step (the provider's call returns or throws). A worker may die in every
  attempt; the claim limit has to end that.
* `BundleOrder`: the sweep goes on and is started again (`app.ts:256-286`), a
  request does not stay at an await for ever, Stripe settles charges and
  redelivers a charge's event until it is acknowledged, to processes that are
  free again and again (strong fairness of `HookRead`), leases expire. In the
  long run, `<>[][Regular]_vars`: every step is one that also happens when no
  process fails, and the customer stops trying cards. Any finite number of
  crashes and throws comes before. Nobody is assumed to open a session or to
  pay.
* `BundleRefund`: the sweep comes round to every due operation (strong fairness:
  it is due again and again), goes on step by step, leases run out, Stripe
  settles, and again `<>[][Regular]_vars`. No admin is assumed to ask for
  anything.

`SeatInventory`, `BundleSettlement`, `GatewaySwitch` and `Checkout` have no
liveness property: nothing in them is scheduled, every step is somebody's
request.

## 5. Where the code and its own statements differ

**A bundle cancelled under a starting payment** (run `bundle_cancel_race`).
`cancelBundleOrder` reads the order; when it has no PaymentIntent yet, it
releases it without a call to Stripe (`services/bundleOperations.service.ts:221`),
and the release transaction accepts `payment_pending` without looking at the
intent or the session's claim again (lines 64-68). A checkout that binds its
intent between the two leaves the customer able to pay for seats that are back
on sale. `services/stripe.service.ts:236` describes the opposite order: "Cancel
an abandoned PaymentIntent before its inventory hold is released." The charge,
when it comes, is refused by `persistCapturedBundlePayment`; `ChargeRecorded`
excepts it.

Others were met while modelling and have no run:

* **A lapsed OCTO reservation** keeps its seats until somebody asks about it: no
  timer calls `sweepExpiredOctoHolds` (`routes/octo.routes.ts:457`), which the
  comment at 478 says makes expiry independent of GET traffic.
* **Cancelling the booking of a confirmed OCTO reservation** on the storefront
  side returns no seats, because the booking carries no `inventoryReservedAt`
  (`services/bookingInventory.service.ts:228`, `routes/octo.routes.ts:534`),
  although `models/OctoHold.ts:5-9` promises release on cancel; they are freed
  only if the reseller cancels too. The integrity repair reserves seats for a
  reservation's booking a second time (`scripts/repair-booking-integrity.ts:77`),
  and the reseller's cancel then returns one of the two. A super-admin's
  deletion of a booking that holds seats returns none
  (`controllers/bookings.controller.ts:1681`). These are the three leaks of
  `SeatsAccounted`, which it names and does not exclude.
* **A stop sale on a server that is not on UTC.** `blockDates` and `unblockDate`
  take the server's midnight (`controllers/attractions.controller.ts:2341`,
  2425), bookings UTC's: "Availability is keyed by a calendar day, not
  server-local midnight" (`services/bookingInventory.service.ts:62`). Off
  UTC the stop sale of a day is written under a time within the UTC day before. No booking and no OCTO request finds it there, so the day stays on
  sale in both channels, although the admin was told that it is blocked; and the
  public calendar, which keeps the last row of each UTC day
  (`controllers/attractions.controller.ts:762-767`), shows the day before as
  closed, although it can be booked. The batch of lines 2357-2412 is right.
* **A bundle refund retried after its key is forgotten** is made a second time.
  "Reusing this key makes a crash after Stripe accepted the request safe: every
  retry retrieves/returns the same provider operation"
  (`services/bundlePayment.service.ts:950-951`) holds for about a day; neither
  `refundBundleOrder` nor the sweep (1225-1316) stops after it, as the card
  holds do at 23 hours, and an operation without its gateway is rescheduled
  without end (896-933). It takes an outage, of the process or of the gateway's
  settings, that begins between Stripe's acceptance and the recorded id and
  lasts a day. The books count one of the two refunds, the other is an orphan.
  If the two exceed the price Stripe refuses and the operation stays open.
* **A refund given up and accounted for after all** takes its amount out of
  what is set aside for another one. One process finds no gateway and, by what
  it read, that the operation was not sent, and releases it
  (`services/bundlePayment.service.ts:897-905`) while another sends it; a second
  operation is reserved; the first succeeds and its transaction accepts any
  status but "succeeded" (1022) and lowers `refundPendingMinor` (1066). When the
  second has succeeded at Stripe its own transaction would take that below the
  schema's minimum of 0 and fails, now and at each retry. `RefundedIsBacked` says by exactly
  how much the reservation is short.
* **A bundle refund that comes back** stays refunded in the order: the refund
  events of the webhook look for a standalone booking of the intent and are
  ignored without one (`controllers/payments.controller.ts:575-590`).
* **A partial refund before the allocation**: the refund turns
  `paid_allocation_pending` into `partially_refunded`
  (`services/bundlePayment.service.ts:1070-1072`), which allocation treats as
  done (396-401) and the sweep no longer selects (522-526). The components are
  never confirmed, against the comment at 1056-1058 ("A partial refund must not
  make a still-booked supplier component impossible to fulfil").
* **A partial refund of an order with a free component**, one whose share of the
  price is zero: the refund leaves it `refundStatus: 'full'`, since zero of zero
  is refunded (`services/bundlePayment.service.ts:1039-1040`), and
  `fulfilBundleComponent` refuses it from then on
  (`services/bundleOperations.service.ts:561`), although nothing was paid back
  for it: against the same comment. The same happens to a component with a
  price when the portion of a partial refund, rounded up, takes all it has left.
  In the bundle of the run, refunds of 1 and of 4 out of 5 do this.
* **Seats of an order cancelled and then marked for review** can be given back
  a second time: the mark is unconditional
  (`services/bundleOperations.service.ts:38`) and the release accepts
  `manual_review` (64-68, 75-83), against `__tests__/bundle-cancellation.test.ts:118`
  ("A repeated cancellation is already terminal"). `releaseBundleInventory`
  refuses when the counter would go below zero and otherwise takes another
  party's seats.
* **Bookings whose full refund is taken back** count again as needing their
  account, but the count is by payment status at its own moment
  (`controllers/payments.controller.ts:1167-1188`, 1159-1161): a reversal that
  arrives after a switch finds the account gone. `GatewayStands` therefore
  speaks of open and paid sessions, not of "owed" ones.
* **A late decline of a partially refunded order**: only the status "succeeded"
  protects it (`services/bundlePayment.service.ts:579-585`). `LateDecline` of
  `BundleRefund` and `BundleSettlement` has the step, and `Persist` the repair
  by the next capture event.

One difference is no contradiction: for a departure the day's row does not
list, OCTO shows (and on reservation creates) full capacity while the
storefront shows none. `AdvertisedIsBookable` holds of each channel on its own.

## 6. Proofs

TLAPS checks these for every value of the constants, from the named `ASSUME`s
of the modules only (positive prices, intents, attempts or party sizes; limits
that are natural numbers; names that stand for nobody are nobody's; kinds of
items, keys and sessions do not overlap; bookings, reservations, dashboard
refunds and bundle operations are finitely many, as the documents of a database
are). In each, the property alone is not inductive: it must be said what a
process *knows* between two awaits.

**Sums.** Five of the properties compare a counter with the sum of a field over
documents. Such a sum is defined as the number of its *units*, pairs of a
document and one of its seats or minor units: `Held`/`Seats` in
`SeatInventory`, `Units` with `Amount` or `Amounts` in the two refund modules, `Minors` with
`SumOf` in `Allocation`, `SeatUnits` in `Checkout`. It is the same number, and the library's facts about
finite sets then do what induction over the documents would: a document more is
a disjoint union (`OneMore`, `SaleMore`), a field that did not change leaves the
set alone (`Unmoved`, `UnitsSame`).

**CardHold.** `IInv` = `TypeOK` and `ClaimFirst` (nothing exists at Stripe
before a claim on the booking), `SoleIntent` (there is one intent; while the key
still answers it answers with it, and when it no longer does nobody may use it),
`SweepKnows` (what a sweep has read is still true where it matters at each of
its steps), `BoundMoney` (only a bound intent was shown or paid), `Consistent`
(the booking's own fields agree). From a state in which a request holds a second
intent in its locals, the next bind would break the safety properties; `IInv`
excludes it. Proved: all five invariants of the run, that a paid booking was
charged, and that outcomes are final.

**CardHoldRefinement** (in `CardHoldProofs`). Every step maps to a step of `HoldContract` or a
stutter: `Spec => Contract!Spec`. The fairness half of `ImplementsContract` is
model-checked.

**CancelRefund.** `IInv` = `TypeOK`, what each actor goes by, and the properties
themselves. A listing or an answer is old when it is used, so an actor does not
know the state of a refund but that it *happened* (`Happened`): what was seen
succeeded has succeeded, though it may be reversed since; what was seen failed
has failed or, once more, been reversed. That is stable under every step
(`Lasting`, from `RefundSteps`: refunds only advance), and `WorkersKnow`,
`HooksKnow`, `AdminsKnow` and `LedgerKnows` say it of each place where such an
observation is kept. `FirstAttempt` is the fact behind `OneProviderAttempt`:
until the attempt is written down nobody has asked for the cancellation refund,
so the worker that writes it down is the one that asks. `BookSteps` shows that
the whole next-state relation does one of five things to the books (nothing,
closing by a full refund, applying a total, recording in the ledger, an admin's
edit), and the remaining proofs go by these five. `CancelledIsRefunded` is about
a step: what the evidence of that step added up (`SucceededIn` of a listing) is
made of refunds that succeeded and that the ledger does not have as failed, so
their sum is at most `Repaid`'s (`ClosesRepaid`, `AmountMonotone`); of the state
after it `ClosedWhole` keeps that the booking's own fields say so too. Proved:
all six safety properties of `cancel_refund`, for any number of workers, webhooks, admins and
refunds.

**PaidEffects.** `IInv` adds to the type invariant: records up for a claim have
no attempt begun (`Claimable`); a worker on its way to the provider is alone
with an unbegun record and knows its attempts (`Preparing`); at the provider's
door nothing was sent, the attempt is on record and no one else holds it
(`Sending`, `SoleSender`); a worker that reports "retry" sent nothing
(`Reported`); what was sent was begun, once, to the pinned address (`Mailed`).
Proved: `AtMostOnce`, `MailIsBacked`, `OutcomesStand`, that no edit redirects a
confirmation, and that claims never exceed the limit.

**SeatInventory.** `IInv` = `TypeOK`, `HistoryInv` (which bookings a reservation
may have left), `UnmadeInv` (a booking not made holds nothing), `ReturnedInv`
(a cancelled storefront booking is in no ledger any more), `LedgersAccounted`
(the counter is the seats of all that is in either ledger) and `StopInv` (a stop
sale that reached the row has it blocked). Every transaction leaves both ledgers
and the counter alone, adds one document with the seats taken or removes one
with the seats returned (`LedgersRest`, `BookingMore`, `BookingLess`, `HoldMore`,
`HoldLess`). `SeatsAccounted` follows: what is in the ledgers is, without
overlap, the guests' and the leaks' (`LedgersSplit`). Proved:
the type invariant (no counter above capacity or below zero), `SeatsAccounted`,
`AdvertisedIsBookable`, `ResellerCancelHolds`, `BlockedStaysClosed`, and that a
reservation's outcome is final.

**BundleOrder.** `IInv` = `TypeOK`, `BindingFirst` (the stored binding precedes
everything a session leads to), `Books` (the order's fields, children and
departures agree with Stripe), `Delivered` (what Stripe's events and their rows
say of the order), and `Knows(p)` for each process: at the persist step the
intent has succeeded, at the expire step it is unpayable for good, a charge's
event is completed only after the capture. Knowledge survives other processes'
steps because the facts it rests on are never taken back (`Lasting`). Proved:
`ConfirmedIsWhole`, `CapturedStaysPaid`, `ExpiredCannotCharge`, and that an
acknowledged charge is captured.

**BundleRefund.** `IInv` = `TypeOK`, the sums (`refundedMinor` is that of the
succeeded operations; `refundPendingMinor` and the operations taken up again
make up that of the open ones), amounts within the price, success in the books
means success at Stripe, Stripe's stored answer of success is the refund's
outcome unless it was reversed, a process that holds a success holds one of the
refund Stripe has now (`SuccessIsKnown`: a key is not forgotten under an answer
at hand), and each process's knowledge: past its read it has an
operation, past its reservation the operation is in the order, and an amount
that was all that remained still is at least that, because refunds only grow.
An operation moves from one sum to another, or out of both, in the very
transaction that moves the amount between the two fields (`MoneyStep`). Proved:
`RefundedIsBacked`, `CancellationRefundsRest`, and that the totals follow
`RefundContract`.

**Allocation.** `Proportional` says of any amount and any weights, not all zero,
that the portions are whole, add up to the amount and leave nothing for a weight
of zero; that none exceeds its weight if the amount does not exceed their sum
(a refund gives no component more than its price has left); and that none falls
below it if the amount is at least their sum (a quote gives every component its
supplier's net). No induction over the positions is needed. Sums of functions
are numbers of units: a pointwise smaller function has fewer (`SumMono`), a
pointwise sum is a disjoint union after a shift (`SumAdd`), a multiple adds up
by the least number for which it would not (`SumScale`). So the floors, times
the weights' sum, lie below the exact portions' and, with a unit more for every
weight that is not zero, above (`FloorsLeave`): less is left over than there are
such weights. And the number of positions served before a position is a
bijection onto the numbers from 0 (`Ranks`): exactly as many get a unit as there
are units.

**BundleSettlement.** The assumption: prices and nets are natural numbers, and the order
costs something. Both models have a `Spec`, so this one is an instance in
`BundleMoneyProofs`. `SettlementInv` has three parts: the types, `Balanced` (the
components' refunds add up to the order's, which with what is set aside stays
within the price; seats are back exactly when nothing is left to refund) and
`Sound` of each component by itself. `Sound` has to say more than the
properties: a component delivered has its booking completed, which is what keeps
an order that falls back from review from being allocated, and paid for, a
second time; "full" means its price and nothing less; what is disputed and what
was resolved stay within the payout together, and make it up once the component
is wholly refunded. `Refund` is the one step that touches them all:
`Proportional` keeps each portion within what is left, the sums keep the order's
total, and equal sums of pointwise ordered functions are equal functions, so
that an order is wholly refunded just when every component is. Proved: the type
invariant, all four properties of the run, and that the totals follow
`RefundContract`.

**GatewaySwitch.** `Inv` says, besides that every open session matches the
settings, what an admin's request may rely on: *as long as revision and fence
are the ones it read*, the settings are those it read and what its counts found
absent is absent, because only a claim makes a session need the account and a
claim moves the fence. A save that succeeds succeeds under that premise. Proved:
`GatewayStands` and `TrustIsProven`, for any number of admins asking for any
settings.

**Checkout.** `Inv`: what a transaction has checked in its snapshot is still so
as long as it is fresh, since every step that changes what was checked writes a
document of its write set; past its claim a request goes by a record of its own
purchase; an ordinary key is worked on by one request. `StockInv` rests on it
and adds what the transaction found on the shelf: a fresh one still finds its
seats, its allotment and its use of the code (`Stocked`), because sales and
returns write every counter they move (`ShelfSteps`) and so make stale whoever
was to move it too. Without it `BooksBalance` is not inductive: `Commit` checks
nothing again. Proved: `FoundByKey`, `SoldAtPresentTerms` and `BooksBalance`,
for any number of requests, keys, items, departures, sales and edits.

Only model-checked: all liveness, the fairness half of `ImplementsContract`
included (fairness and ENABLED are outside the prover). Every invariant and
every action property that a run checks is stated by a theorem. The two
theorems about `RefundContract` have no property of a run.

## 7. Not modelled

* `CardHold`: amounts, currencies and account binding of a payment (constants of
  a booking); several candidates in one sweep, and the error that ends a pass.
* `CancelRefund`: seats (a booking refunded in full outside the cancellation
  command keeps its seats).
* `SeatInventory`: all-day pools, deletion of a tour for good, realignment by
  the repair script.
* `PaidEffects`: rendering and address handling.
* `Checkout`: the tour's own price and travel rules (no fence protects them),
  edits of supplier offers (read in the snapshot of `createBundleOrder`),
  special offers, the expiry of completed records (24 hours for a bundle's and
  a tour's), and a request that outlives its key's 30 minutes.
* `BundleOrder`, `BundleRefund`, `BundleSettlement`: the balanced ledger lines
  and audit events written in the same transactions, two callers that give one
  operation different amounts, and the due times, which only delay.
* `GatewaySwitch`: the 72 hours a previous endpoint secret is still accepted,
  the refusal of a second rotation before the first is proved, and sessions
  older than the binding.
* Outboxes for webhooks, notices and bundles have the shape of `PaidEffects`
  with a receiver that may be told twice; they are left out, as are the parts
  marked `not_modelled` in `PROJECT.json`: records without a protocol of their
  own.
* The largest files of the repository by length are the content scripts under
  `scripts/` (texts and prices of single sites), which run once and keep no
  state; the models cover the booking, payment and settlement services.

## 8. Plan

Done, in this order: `CardHold` with its contract and proofs, `CancelRefund`,
`SeatInventory`, `PaidEffects`, `BundleOrder`, `BundleRefund`,
`BundleSettlement`, `GatewaySwitch`, `Checkout`, and the proofs named above.
What would add most next:

1. `WebhookDelivery`: at-least-once outbox, reclaim of expired rows, attempt
   limit, endpoint streak and auto-disable; notices and the bundle outbox as
   further instances, and an abstract `Outbox` that all implement.
2. `HoldSweep`: a pass over several candidates, with the error that ends it.
3. All-day pools and tour deletion in `SeatInventory`; seats in `CancelRefund`.
4. An abstract order that `BundleOrder`, `BundleRefund` and `BundleSettlement`
   all implement.
