# A TLA+ model of kurtar

kurtar sells surprise bags: a merchant publishes a daily offer of a few bags, a
consumer reserves and pays through an external provider, picks the bag up in a
window, and the merchant is paid by a nightly settlement. The backend is one
NestJS process over one PostgreSQL database; concurrency comes from HTTP
handlers, provider webhooks and twelve in-process crons, all of which move the
same rows with guarded `UPDATE ... WHERE status IN (...)` statements. This
directory models that machinery and the two pieces of client state that races can
damage, checks it with TLC on small instances, and proves its central
invariants with TLAPS for every instance.

Paths below are relative to `src/backend/src/modules/`.

## 1. Inventory

| Component | State | Operations | Hard behaviour | What makes it correct |
|---|---|---|---|---|
| **Reservations** (`reservations/`) | `Reservation.status`, `DailyOffer.qtyReserved`, `qtyRedeemed` | create, cancel, redeem, refundRedeemed, cancelAllForOffer, refundMany, no-show sweep, stock claim and release | claim races, four paths that may release the same bags, provider I/O between two transactions, crash in between | bags are conserved, never oversold, released once, redeemed once; a refund happens once |
| **Payments** (`payments/`) | `Payment.status`, `WebhookEventLog` | settle (webhook), sweepStaleIntents, expireAndRelease | lost or repeated webhooks, stale sweeper answers, wrong amounts, payment after the platform gave up | payment and reservation agree; a settled verdict is final; a known intent ends |
| **Offers** (`offers/`) | `DailyOffer.status`, `publishAt` | create, publish, schedule, close, cancel (fan-out), publish scheduler | fan-out over many reservations in one long transaction, scheduler acting on an old selection | shelf status matches the counters; a cancelled offer leaves nothing held |
| **Merchants** (`merchants/`) | `verificationStatus` | approve, reject, suspend | best-effort sweep after the suspend commit | nobody books from a suspended merchant |
| **Provider** (`payments-core/`, external) | checkouts, refunds | createIntent, queryStatus, refund, callbacks, payout | arbitrary delay, throws with or without effect | - |
| **Outbox** (`outbox/`) | event status, attempts, `claimedAt` lease | publish in a transaction, claim, dispatch, mark, reap | crash mid-dispatch, lease expiry while still working | an event ends done or dead; a late worker overwrites nobody |
| **Settlements** (`settlements/`) | batch status, lines, clawback allocations, carried-demand claims, `payoutAttemptedAt` | nightly cycle, recompute, approve, hold, retry, payout, mark settled, reconcile | recompute racing approval and payout, recomputes undoing each other's claims, retry of a payout whose answer was lost | the ledger is an identity; what is committed is owed; the provider moved what the books say |
| **Refresh tokens** (`auth/`, and `src/packages/api-client/src/engine.ts` on the device) | token rows with `rotatedAt`, `revokedAt`, family; the stored token; `inFlightRefresh` | issue, rotate, reuse detection, logout; single-flight refresh | two refreshes with one token, revocation of the family under a refresh, lost answers | reuse kills the family; one live token per family; a device is not signed out by its own retries |
| **OTP** (`otp/`) | attempts, `consumedAt`, `lockedUntil` | request, verify, lock | parallel guesses and resends, no transaction anywhere | attempt cap; a lock is earned and not lifted by a newer row |
| **Memberships** (`memberships/`) | period, outstanding balance | approve, offset against a batch, renew | offset and renewal lock the same row | a fee is recovered once or written off once |
| **Complaints** (`complaints/`) | ticket status, `refundedAt`, SLA stamps | open, respond, resolve, escalate, refund, SLA sweep | claim of a ticket around a refund, sweep over a stale subselect | one refund; nothing overdue stays unanswered |
| **Ratings** (`ratings/`) | rating status, `Store.avgStars`, `ratingCount` | create, moderate, delete, recompute the aggregate | posts and moderations of one store at once, share lock upgraded to exclusive | the aggregate matches the rows; no deadlock between customers |
| **Moderation** (`moderation/`) | report status | action, dismiss | the target is taken down in another service's transaction | ACTIONED means done |
| **Invoicing** (`invoicing/`) | invoice status | draft, issue, reissue, alert | overlapping outbox deliveries, lost provider answer | one document per batch and type |
| **Redeem queue** (`src/apps/consumer/src/lib/redeem-queue.ts`) | one AsyncStorage value | queue, clear, reconcile, global sync | read and write across awaits | a redeemed swipe leaves the queue |
| **Discovery, impact, favorites, stores, admin, notifications, sms** | caches, CRUD | queries, messages | - | - |
| **other apps, landing, packages, ops, e2e** | none shared | user interfaces, scripts | - | - |

How they interact: offers call reservations inside their cancel transaction;
merchants call offers after the suspend commit; the webhook controller and the
sweeper both call settle; complaints call refundRedeemed; reservations, offers
and merchants write outbox rows in their own transactions; settlements read
REDEEMED and NO_SHOW reservations whose payment is PAID, and use memberships
inside the recompute transaction; a SENT batch writes the outbox event from
which invoicing drafts its documents; the consumer app's sync reads the
reservations its queue waits for.

## 2. Plan

1. **Reservations, payments, offers** (done): the money and stock core, with the
   abstract specification `BagInventory`.
2. **Lock order** (done): the same transactions at the grain of row locks.
3. **OutboxWorker** (done): claim, lease, renewal, dispatch, marks, reaper; it
   implements the abstract specification `OutboxPromise`.
4. **Settlements** (done): nightly cycle, recompute with its two clawback
   ledgers and the membership offset, approval, hold, payout;
   `MembershipVat` for the rounding of the VAT inside the offset.
5. **Sessions, Otp, Ratings, Invoicing, Complaints, Moderation, RedeemQueue**
   (done): one module per service.
6. **More proofs** (done): every invariant and step property the passing runs
   check is proved, as is the refinement of both abstract specifications; liveness
   stays with TLC.
7. Next: properties that relate services a composition keeps apart (the
   outbox's redelivery and its consumers), and abstract specifications of the
   payout and of the token family.

## 3. Modules

| Module | What it is | Source |
|---|---|---|
| `Totals` | sums of amounts over sets of rows, as numbers of units | - |
| `StockUnits` | the constants every stock module shares: offers, reservations, quantities | schema |
| `BagInventory` | abstract specification: held, then kept for good or freed for good, never more than the total | - |
| `Reservations` | reservations, payments, offers, refunds: the detailed specification | `reservations/`, `payments/`, `offers/`, `merchants/` |
| `LockOrder` | the row locks of the same transactions, one UPDATE at a time | the same |
| `Settlements` | batches, lines, clawback and carried-demand ledgers, membership balance, payout | `settlements/`, `memberships/` |
| `MembershipVat` | the split of a membership offset into net and VAT under any order of recomputes | `memberships/membership-offset.service.ts` |
| `OutboxPromise` | abstract specification: handled at least once before done, given up only when tries are used up, final | - |
| `OutboxWorker` | claims, leases, renewal, marks, reaper | `outbox/` |
| `Sessions` | refresh tokens and the client engine | `auth/services/token.service.ts`, `engine.ts`, `auth-context.tsx` |
| `Otp` | one-time codes of a phone, one statement per step | `otp/otp.service.ts` |
| `Ratings` | the ratings of a store and its aggregate, with row locks | `ratings/ratings.service.ts` |
| `Invoicing` | the invoices of one sent batch | `invoicing/commission-invoice.service.ts` |
| `Moderation` | one report and two moderators | `moderation/moderation.service.ts` |
| `Complaints` | tickets of one reservation, refund and SLA sweep | `complaints/` |
| `RedeemQueue` | the consumer app's queue of offline swipes | `redeem-queue.ts`, two hooks |
| `RequestServices` | LockOrder, Sessions, Otp, Ratings, Invoicing, Moderation and MembershipVat side by side | - |
| `BackgroundServices` | OutboxWorker, Complaints and RedeemQueue side by side, with their fairness | - |
| `MCReservations`, `MCShelf`, `MCLockOrder`, `MCSettlements`, `MCRequestServices` | instances for TLC | - |
| `TotalsProofs` | lemmas about sums | - |
| `ReservationsProofs`, `SettlementsProofs` | stock and money; the ledgers and the payout | - |
| `LockProofs` | LockOrder and Ratings: everything about row locks | - |
| `AuthProofs` | Sessions and Otp | - |
| `RequestProofs` | Invoicing, Moderation, MembershipVat, and the composition `RequestServices` | - |
| `OutboxProofs`, `BackgroundProofs` | OutboxWorker and its refinement; Complaints, RedeemQueue's types and the composition `BackgroundServices` | - |

*Side by side.* No service of `RequestServices` or `BackgroundServices` reads
what another one of the same composition writes, so their interleavings add
nothing: the composition picks one service at the start and lets it run alone,
which keeps every behaviour of each and makes one run check them all. The
places where services do meet are modelled inside a module: refunds and stock in
`Reservations`, memberships in `Settlements`, redelivery (what the outbox may
do to its consumers) as `Deliver` in `Invoicing`, the outcome of
`refundRedeemed` in `Complaints`.

### Reservations

*State.* `offerStatus`, `qtyReserved`, `qtyRedeemed` are columns of
`daily_offers`; `resv`, `pay`, `refundRows` are the statuses of `reservations`,
`payments` and `refunds`; `hook` is the `webhook_event_log` row of the provider's
event together with how far its handler got; `approved` is the set of merchants
whose `verificationStatus` is APPROVED. `psp` and `pspRefunds` are the
provider's own truth. What a handler remembers between two transactions is
explicit: `creator` (create() between commit and provider call), `sweep` (an
answer of queryStatus not yet settled), `redeeming` (calls past the checks),
`refundJob`, `scheduler`, and `fan`, the open transaction of a cancel fan-out.

*Grain.* A database transaction that only writes rows of one reservation and its
offer is one action: its guarded UPDATEs start at the Payment or the
Reservation row, which every other such transaction must lock too, and the
statuses it decides on are those of the UPDATE, not of an earlier read (READ
COMMITTED re-evaluates the WHERE clause under the lock). The cancel fan-out is
the one transaction that reads candidates with a SELECT and visits them one
after the other, so it is a sequence `FanOutStart`, `FanOutPending` /
`FanOutConfirmed` per candidate in any order, `FanOutCommit`. Its writes stay in
`fan` until the commit; while it is open it holds the offer's row
(`OfferFree`) and the rows it has changed (`RowFree`), and other transactions
that need them wait. A fan-out of an offer that is not cancellable rolls back
as a whole and is no step.

*Provider I/O* is outside any transaction: a call and the transaction after it
are different actions. createIntent may throw with or without having opened the
checkout. A refund call that throws moved no money, which is what the code
assumes (`reservations.service.ts:650-652`).

| Code | Actions |
|---|---|
| `create`, `createReservationWithRetry`, `compensateFailedIntent` | `CreateReservation`, `CreateIntent`, `CreateIntentThrows`, `CompensateFailedIntent` |
| `OfferStockService.claim`, `release` | `Claimable`, `Claim`, `Release` |
| `settle`, `settleSuccess`, `expireAndRelease`, webhook controller | `WebhookArrives`, `WebhookSettles`, `Settle`, `SettleSuccess`, `ExpireAndRelease` |
| `PaymentsSweeperService.sweepOne` | `SweepQuery`, `SweepSettles` |
| `cancel` | `Cancel` |
| `cancelOne`, `cancelAllForOffer`, `refundMany` | `FanOutStart`, `FanOutPending`, `FanOutConfirmed`, `FanOutCommit` |
| `redeem`, `NoShowSweeperService.sweepOnce` | `RedeemChecks`, `RedeemCommits`, `NoShow` |
| `refundRedeemed`, `refundForCancellation` | `RefundClaim`, `RefundCall`, `RefundCallThrows`, `RefundRecords`, `RefundRecordThrows`, `RefundReleasesClaim` |
| `OffersService.publish`, `schedule`, `close`, `publishDueScheduled`, `terminalizeExpiredScheduled` | `Publish`, `Schedule`, `Close`, `SchedulerSelects`, `SchedulerPublishes`, `Terminalize` |
| `adminSuspend` | `Suspend` (the fan-outs it then starts are `FanOutStart`) |
| crash, restart, database error, deadlock victim | `CreatorDies`, `WebhookDies`, `SweepDies`, `RefundDies`, `FanOutDies` |

*Abstractions.* The clock is one `phase` per offer: early (the consumer may
still cancel), open (from the cancel deadline through the pickup window to the
end of the no-show grace), closed. `open` joins the wait, the window and the
grace, so redeem has more interleavings in the model than in the code, never
fewer; publishing is allowed until `closed`;
`CreateReservation` has no window test because `claim` has none. The ten-minute
age of a stale intent is dropped: the sweeper may query at any time. An amount
is only "the expected one" or "another" (`mispaid`). A checkout has one event:
its webhook may come late, never, or again (a duplicate changes nothing), and
an event with a fresh id and an old verdict is what the sweeper produces. PROCESSING and
PARTIALLY_REFUNDED are in the schema and no code path writes them; the
transitions that read PROCESSING keep it. The code's SENT fallback row and its
second attempt to write the status are independent outcomes of
`RefundRecordThrows`. Codes, prices, audit rows, notifications and outbox rows
written in the same transaction are left out.

### LockOrder

Each operation is the sequence of UPDATEs it runs, each on a row of a table.
`Must` ends the transaction when no row matches (the code returns or throws),
`May` goes on (the code ignores the count). `Update` takes the row lock or
waits, `Miss` matches nothing and locks nothing, `Commit` and `Rollback` free
everything. `NoWaitCycle` says that in every set of transactions somebody waits
for nobody of the set.

### Settlements

*State.* `batch` are the `settlement_batches` rows, `line`, `recovered` and
`resolved` the columns of a settlement line (its batch, `clawbackCents`,
`clawbackAppliedAt`), `alloc` the rows of `settlement_clawback_allocations`,
`claim` those of `settlement_carried_demand_claims`, `member` the subscription,
`transfer` what the provider moved for a payout reference. `cycle`, `approval`
and `exec` are what a nightly cycle, an approval and a payout remember between
two transactions.

*Grain.* `recomputeBatch` is one transaction that locks its batch, its
subscription, the lines it answers for and its carried-demand source before it
reads them, so it is one step, `Recompute`; the definitions under it
(`MembershipDue`, `LockedLines`, `RecoveredByOthers`, `CarriedDemand`,
`Settlement`, `Allocation`, `Projection`, `Writes`) follow its parts one by one.
The read of eligible lines, the creation of the batch and the recompute are
three steps of a cycle; the recompute and the guarded update are two steps of
`adminApprove`; read, stamp, provider call and `markSent` are four steps of
`executeOne`, and each may be its last.

*Abstractions.* One merchant (nothing is shared between merchants but the
cycle's loop). Bag fee, its VAT and the withholding of a line are one number. A
calendar day stands for `settlementAnchorOf`; business days, holidays and a due
date only delay `ExecReads`. `NewDay`, `Earn`, `Refund` and
`Renew` are the outside world. An edit of a merchant's fee override between two recomputes is left out (`Fee` is fixed).
`overtaken` and `misread` are history variables: they name the batches to which
one of two recorded gaps happened (the approval of a batch while another was
recomputed; finding 5), which CollectedIsCovered and PaidAsBooked leave out.
The merchant has a subscription and is not exempt. Without one nothing is due,
as with a balance of 0; an exempt batch restores what it took and takes nothing
new, as a batch of an old year does in `MembershipDue`.

*Carried demand.* A batch pins its source in its first recompute only
(`SourceOf`): the latest batch but itself, if that is HELD. `AdminHold`
asks for the status and the payout stamp alone, as the code does, so a batch may
be held before it was ever recomputed, and it and its successor may then pin each
other. Two such batches hand each other a larger demand with every recompute,
without end; `MaxDemand` is the demand at which TLC stops following them (the
theorems hold for every value of it). CollectedIsCovered is about one link: what
committed claimants took over, the row of their source still has to hand on.
CollectedOnce is about the chain, and the code does not keep it (finding 7).

### OutboxWorker

A row's `claimedAt` is compared for equality with the value RETURNING gave and
for age with the lease; the first is a counter, the second the flag `expired`,
which `LeaseExpires` sets at any time. `FOR UPDATE SKIP LOCKED` makes two
claims take disjoint rows, as running one after the other does, so `ClaimBatch`
is one step. `Abandon` is a crash or a statement that throws out of `drainOnce`.
`KeepsPromise` is the refinement of `OutboxPromise` under the mapping
`OutboxOutcome`, `OutboxTries`.

### Sessions, Otp, Ratings, Invoicing, Moderation, Complaints, RedeemQueue

`Sessions` splits a refresh into the guarded update that claims the row
(`RefreshClaims`, which waits for the row lock) and the rest of the transaction
(`RefreshCommits`), and a revocation into the moment its UPDATE takes its
snapshot (`RevokeStarts`) and the moment it has its locks (`RevokeEnds`): rows
inserted in between survive it, which is why RevokedFamilyStaysDead excepts a
revocation that overlaps a refresh. The device stores what the answer brings;
`AnswerLost` and `CallFails` are its two bad moments. `Otp` has one action per
statement that writes, because `otp.service.ts` uses no transaction. Reads that
follow each other without a write between them (the lock, the anchor and the count of `isLocked`, the
count and the newest row of `maybeTriggerLockout`) are one step, a simplification:
a write of another call is seen by all of them or by none. `Ratings` has one
action per statement that takes a lock, and `RatingWaitsFor` says who waits for
whom, the FOR KEY SHARE of a foreign key included. `Invoicing` treats a delivery
as repeatable and overlapping, since the outbox promises at least once.
`Complaints` separates the subselect of a sweep's UPDATE from its write: when
the UPDATE waits for a row, PostgreSQL repeats the outer WHERE (the id) and not
the subselect. `RedeemQueue` separates each `getItem` from its `setItem`. The sync fetches one page of 50
reservations, active ones first, then the newest; `SyncFetches` sees them all,
which is the same until 50 newer rows exist. RedeemedIsCleared says that a
redeemed pickup leaves the queue; it does not say that a swipe stays in
until then, and a stale clear may drop one that was queued meanwhile.

## 4. Runs

| Run | Instance | What it shows |
|---|---|---|
| `reservations_shelf` | one offer of two bags, two reservations of one bag (symmetric) and one of two; checkouts end paid or failed | TypeOK (the CHECK constraints never stop a statement), StockConservation, SoldOutIffFull, RedeemedCount (with the others: the CHECK `qtyRedeemed <= qtyReserved` of the migration never fires), and the refinement of BagInventory |
| `reservations_one` | one reservation, every provider answer, complaints, two crashes, FairSpec | PaymentAgrees, NoDoubleRefund, SettleableMoneyIsReal, BooksFollowMoney, SettledStaysSettled; KnownIntentResolves, ConfirmedFinishes, OwedRefundIsRecorded |
| `settlements` | three sales over two days, one of them a loss, two batches, two payouts at a time, one refund, hold or renewal | TypeOK, LedgerIdentity, PaidBatchCountsItsLines, CollectedIsCovered, MembershipConserved, PaidAsBooked |
| `request_services` | see the bounds below | RequestTypeOK; NoWaitCycle (locks); OneLiveToken, KeepsItsSession, RevokedFamilyStaysDead (sessions); BurnBudget, LockIsEarned (codes); AggregateIsFresh, NoDeadlockAcrossSales (ratings); OneDocument (invoices); ActionedMeansDone (moderation); VatConserved, VatWithinAmount |
| `background_services` | see the bounds below | BackgroundTypeOK; NoOverlapWithinLease, LiveClaimIsOwned, KeepsPromise, EveryEventSettles (outbox); OneRefund, OverdueIsEscalated (complaints); RedeemedIsCleared (queue) |
| `reservations_fanout_race` | one reservation | violated: finding 1 |
| `reservations_terminalize` | one reservation | violated: finding 2 |
| `reservations_hostage` | one reservation, one crash, FairSpec | violated: finding 3 |
| `lock_order_fanout` | one fan-out, one expiry | violated: finding 4 |
| `settlements_amount` | as `settlements`, one payout at a time | violated: finding 5 |
| `settlements_chain` | four sales over three days, three batches, one cycle, no payout and no upset | violated: finding 7 |
| `complaints_refund` | two tickets of one reservation, no process dies | violated: finding 6 |

*Bounds: reservations.* Everything but the stock of an offer is per reservation, so one
reservation with all answers, complaints and crashes covers the payment and
refund protocol. On the shelf, two reservations of one bag against a total of 2
fill it exactly, and a third that wants both makes "one of them, not both" and
"one bag free, but not two" happen. Three reservations with every interleaving are
too many states, so `MCShelf` lets a shopper of the other quantity come only
while the first ones hold or have bought a bag, which is when he must be refused; that he
comes again once the shelf is free, and then shares the offer with reservations
that have ended, is left to the proofs. Two offers would
share nothing but the merchant's approval, which is a conjunct of a guard.
Symmetry is used in safety runs with interchangeable members only.
`Answers`, `Complaints` and `MaxCrashes` are the named bounds; the proofs hold
for every value of them. The runs with crashes let a handler die between
any two of its steps. Deadlock is not checked where the system rightly stops:
with every reservation terminal, every day passed or every bound used up.

*Bounds: settlements.* The first sale loses money (a deficit to carry), the
second belongs to the same day and can be noticed late (it cures the deficit),
the third to the next day, which is also the next membership year (a successor
that inherits, a renewal between two recomputes). `MaxUpsets` = 1 allows one
refund, hold or renewal. Two executors are the least that can both have read
one batch; a single cycle already overlaps approvals, and its recompute can
fail or die. `MaxDemand` = 4 is above what the deficit of the instance can
become in a chain without a loop, and lets a loop raise it beyond that. The instance of
`settlements_chain` has a batch before, one between and one after.

*Bounds: request services.* Locks: three transactions over two reservations of
one offer. Sessions: three tokens, two calls at a time, one engine, one mishap
(a token ages or the principal is suspended); two calls are the least for a race,
three tokens the least for a successor's successor. KeepsItsSession holds for
one engine per token store, which is what the app has; two browser tabs of a
panel share one cookie and do not have it. Codes: four codes, two calls, one
attempt, threshold two, so a lock is reached twice. Ratings: three ids for two
reservations, three transactions. Invoices: three ids, two deliveries, both
types. Two moderators. VAT: a fee of 8 with 3 of VAT (no part divides evenly),
three batches of two years.

*Bounds: background services.* Outbox: two events (one without a handler), two
drains, two attempts, batch of two: reclaim, dead letter and "waited behind a
sibling" all occur. Complaints: two tickets, one sweep, a batch of one, so a full
batch leaves one behind. Queue: two swipes, one screen call and one sync, the
least that interleave a stale write.

*Fairness of reservations* (`FairSpec`). Weak fairness for the steps of a handler that is
running, for the sweeper, the no-show sweep, the transaction of a fan-out, and
for time. The crons are in-process and re-select their candidates on every tick
(`docs/operations.md:60-75`), so a candidate that stays eligible is taken. Nothing
forces a customer to pay, a webhook to arrive, a merchant or an admin to act,
the scheduler to publish, or a crash to happen or not to happen.

*Fairness of background services* (`BackgroundFairness`). Weak fairness for each
drain's own steps (the worker's cron ticks, and handlers return), for
`nextAttemptAt` and the lease to pass; no fairness against crashes, so
EveryEventSettles holds although every dispatch may die or throw. Weak fairness
for the hourly SLA sweep. For the queue, weak fairness of the storage calls and
of the 20-second tick, and strong fairness of its fetch: the phone is online again
and again. RedeemedIsCleared assumes nothing about the screens.

## 5. Where code and comments disagree

1. **A settled reservation survives the cancel of its offer**
   (`reservations.service.ts:830`). The fan-out reads a reservation as
   PENDING_PAYMENT; the webhook confirms it before the guarded update; the
   update matches nothing and the row is skipped. The comment at 781-786 says
   that whoever won has handled the stock release, but a successful settle
   releases nothing: the reservation stays CONFIRMED and paid on a CANCELLED
   offer. It ends as a NO_SHOW sale or is redeemed if the shop honours it.
2. **The scheduler can cancel a published offer with reservations**
   (`offers.service.ts:289`). The comment at 231-235 calls it impossible; an
   offer the scheduler selected as SCHEDULED may be published by hand before
   the scheduler's own attempt fails on the window, and the terminalizing
   update matches PUBLISHED and SOLD_OUT too. It runs no fan-out.
3. **Bags can be held for ever** (`payments-sweeper.service.ts:89`). If create()
   dies between its commit and createIntent, the provider does not know the
   intent, queryStatus throws on every sweep and the sweep leaves the payment
   for the next tick. The comment at 26-29 says no story holds a slot
   indefinitely.
4. **The fan-out breaks the lock order** (`offers.service.ts:449`). Comments in
   both services claim a single Payment, Reservation, DailyOffer order followed
   by every writer; cancelOne starts at DailyOffer. PostgreSQL kills one of the
   two transactions, which `FanOutDies` and `WebhookDies` in `Reservations`
   account for.
5. **An execution may pay an amount the batch no longer has**
   (`settlement-payout.service.ts:182`). Between its read and its stamp an
   admin can hold the batch, have it recomputed and approve it again; the stamp
   still matches and the provider is called with the old amount. The comment
   at 77-79 says that the stamp proves the contrary.
6. **A refused refund keeps the ticket's claim** (`complaints.service.ts:339`).
   `refundRedeemed` throws when the reservation has not ended or its payment is
   not PAID; the release is not reached, and every later attempt is answered
   COMPLAINT_ALREADY_REFUNDED although no money moved.
7. **A cured deficit is charged through a chain of batches**
   (`settlement-batch-builder.service.ts:1408`). The comment at 930-932 says
   that a recompute which would resolve away demand a successor has irrevocably
   collected is refused, and 767-771 tells the double charge of a cured
   predecessor as repaired. The check sees the claims on the recomputed batch
   itself. When b3 took over the deficit of b1 through b2, which is HELD and so
   still recomputable, and b3 is approved, a late bag may cure b1: no claim on b1
   is irrevocable, the recompute commits, and the deficit is withheld from b3 and
   paid by the bag. From then on b2 is the one whose recompute is refused.
   A second way needs no third batch. An admin may hold a batch that was
   created and never recomputed (`settlements.service.ts:201-207`); a successor
   pins it and is HELD, its own first recompute pins the successor, and every
   recompute of either makes the demand larger until one of them is paid. The run
   `settlements` contains these behaviours: CollectedOnce fails there too, also with
   no successor's successor.

Smaller things met on the way, kept in the model and not checked against any
claim of the repository: the SLA sweep may set a complaint that was resolved
while its UPDATE waited back to ESCALATED; two parallel verifications of one right
code both succeed; a report whose target was taken down may end DISMISSED; a
nightly recompute takes an admin's hold off a batch without a shortfall; an
event may be dispatched more than twice when `markDone` keeps failing; a refresh
answered by a 5xx signs the device out.

Read in a part that is not modelled: `transition` and `submit` of
`merchants.service.ts` (196-223, 466-490) read the status without a lock, wait
for the row in the guarded update and then write the status they read as
`fromStatus` of the audit event, so an approval that overlaps the merchant's
submission can leave an event DRAFT to APPROVED, although the comment at 117-120
says the trail cannot disagree with what was committed. The status itself is
right, the guard sees to that.

## 6. Proofs

All theorems hold for every value of the constants: any sets of offers,
reservations, merchants, workers, events, tickets, deliveries, transactions and
calls, any amounts, quantities, calendar, attempts and bounds. They assume only
the named assumptions of the modules, which TLC evaluates on every run:
`CatalogueAssumption` (every reservation names an offer and a positive quantity,
every offer has a positive total), `OwnershipAssumption`, `LockAssumption`,
`SettlementAssumption`, `OutboxAssumption`, `SessionAssumption`,
`OtpAssumption`, `RatingsAssumption`, `InvoicingAssumption`,
`MembershipVatAssumption` and `ComplaintsAssumption`. They say that bounds and
amounts are naturals, that a batch has a size, a code has attempts and a calendar
has a day, that there is a rating to speak of, and that the reservations, calls,
transactions and tickets of one moment are finitely many (`Offers` and the
reservations of the stock module may even be infinite). One
theorem has a hypothesis of its own, `OneEngineKeepsItsSession`: at most one
engine per token store, without which its property is false in the code too.

**Sums** (`TotalsProofs`). A sum over a set of rows is the number of its units,
so its lemmas rest on the cardinality of finite sets and not on an induction
over the rows: a row joins, leaves or changes its amount (`TotalJoin`,
`TotalLeave`, `TotalUpdate`), a subset has no larger sum (`TotalSubset`), and an
amount handed out first come, first served adds up to itself (`TotalServed`, for
which every unit is put at its place in the queue).

**Reservations** (`ReservationsProofs`).

- `TypeCorrect`, `StockIsConserved`, `ShelfIsHonest`, `RefinesInventory`.
  StockConservation alone is not inductive: a fan-out that is under way carries a
  private counter and private sets of released reservations, and its commit
  replaces the public counter by the private one. The inductive invariant
  therefore says, next to `TypeOK` and `Counted(o)` for every offer, that for an
  open fan-out (`FanOK(o)`) its buffered counter is the number of bags of the
  reservations still promised once its buffered releases are taken away, that the
  buffered sets really are reservations of that offer in the statuses they will be
  moved from, and that nobody else can move them meanwhile. Each action either
  adds a reservation to the promised ones and its units to the counter, or drops a
  set and its units, or keeps both; three lemmas (`AddsPromised`, `DropsPromised`,
  `KeepsPromised`) carry the arithmetic. Because the count is exact, the guard of
  `release` is never what saves the counter. `ShelfIsHonest` and the refinement
  of BagInventory follow from that invariant step by step.
- `PaymentsAgree`, `RefundedOnce`, `SettledMoneyIsReal`, `BooksNeverRunAhead`
  share one inductive invariant, `MoneyOK`, about one reservation at a time: which
  payment statuses go with which reservation statuses (`RowsPair`); only a checkout
  the provider reports as paid in full is booked as paid, and a stale answer the
  sweeper carries is still true when it is used (`TookMoney`); at each point of a
  refund how often the provider has carried it out, and what status it found the
  payment in (`RefundUnderWay`); and that a reservation which is neither freed nor
  claimed for a refund has none behind it (`RefundBooked`), which is what makes the
  claim PAID -> REFUND_PENDING the only door to a second refund. Of an open
  fan-out it says (`FanMoney`) that it fails the payments of the very reservations
  it expires.
- `SettledForGood` is an action property: every step obeys the inverted
  transition table (`Obeys`) whatever it read before, because each write repeats
  its guard. `RedeemedIsCounted`: only the step that leaves CONFIRMED counts bags.

**Settlements** (`SettlementsProofs`): `Types`, `LedgersAgree`,
`MembershipChargedOnce`, `LinesAreCounted`, `PaidOnce`, `ClaimsStayCovered`, from
the inductive invariant `IndInv`. Its arithmetic half says that the sums of a row
are those of its lines and, unless it is held, its net is what is left of them
(`RowAddsUp`). A recompute
leaves out what the batch itself had withheld before, so what the other batches
recovered of a line plus the line's remaining demand is its full demand, and
`TotalServed` says that the new allocations add up to exactly what the row
withholds for them.
Its other half is about time: what an execution carries between its read, its stamp,
the transfer and the mark is the frozen amount (`ExecRelies`, `RowIsPaid`), and
the batch an approval recomputed still finds its claim at its source when the
approval commits (`ApprovalOwed`), unless another recompute came between
(`overtaken`). `ClaimsStayCovered` is the strongest thing of its kind that holds:
every link is covered, whatever was held when, and also in a loop. It does not
say that a deficit is collected once, which is false (finding 7).

**Auth** (`AuthProofs`).

- `FamiliesHaveOneToken`, `RevocationsHold`. Aging only takes tokens away, so the
  invariant is about tokens that are neither rotated nor revoked (`Live`). A
  refresh that has claimed a row holds the lock of the only live token of its
  family (`Locks`, `OneLive`), so the successor it inserts is again the only one.
  For a revocation it says (`RevokesAll`) that, as long as no refresh has crossed
  it, what its UPDATE has seen is all that is unrevoked in the family and no
  refresh holds a row of it.
- `OneEngineKeepsItsSession`: while nothing went wrong, the one call under way is
  the refresh its engine waits for, it presents the very token the device holds,
  and that token, or the successor in the answer, is live or has aged
  (`RefreshIsAwaited`).
- `BurningIsBounded`: BurnBudget says nothing of the verifications that have
  passed isLocked and not counted yet, each of which may burn one more code; with
  them it is inductive (`Budget`). `LocksAreEarned`: a lock about to be written,
  like one that is, has its codes behind it (`LockEarned`).

**Rows and locks** (`LockProofs`).

- `NoDeadlockInOrder`: when the fan-out is not among the operations, the ranks of
  the rows a transaction holds are below those of the rows it has still to lock,
  so the member of a set of waiting transactions whose next row has the highest
  rank cannot be waiting for another one of the set.
- `AggregateStaysFresh`, `DeadlockOnlyInASale`. The store's exclusive lock is held
  by one transaction alone (`OneWriter`), and a rating that is being posted is
  nobody else's (`PostsAreNew`); so what a recompute read is still all there is
  when it commits (`SumIsFresh`). Whoever holds the store waits for nothing but a
  rating of the same sale.

**Requests** (`RequestProofs`).

- `OneDocumentPerType`: one row per type (the unique index, and the read before
  it), and every delivery works on a row that exists; the provider, which knows an
  invoice by its row's id, makes no second document.
- `ActionedIsDone`: whoever is about to claim a report has taken its target down.
- `FeesAreConserved`, `PartsCoverTheirVat`: what a batch withholds is never more
  than what is due (so the clamps of persistOffset never bite), and rounding
  a share of the VAT to the nearest kurus leaves at most as much VAT as there is
  money (`ShareLeavesEnough`, for every amount).
- `EachServiceRuns`: in the composition every service behaves as its own
  specification, so all theorems about one service hold of `RequestSpec`;
  `RequestTypes` collects their types.

**Background** (`OutboxProofs`, `BackgroundProofs`).

- `OutboxInvariant`, `NoOverlap`, `LiveClaimsAreOwned`, `OutboxKeepsPromise`.
  NoOverlapWithinLease says nothing of a claim whose lease has run out, and yet
  that claim is what another worker's mark could be mistaken for. The inductive
  invariant therefore follows the stamps: a row is stamped at most twice per
  attempt, a remembered claim is never younger than its row, no two workers
  remember claims of one row with one stamp (`Apart`), and a worker within its
  lease finds the row exactly as it left it (`Owned`). A claim and a renewal take
  a stamp nobody remembers, everything else only forgets claims. The refinement of
  OutboxPromise is then a case split on the actions: a handler that succeeds is the
  promise's handling, a mark its completion, and the second worker's late mark a
  stutter, because the row it would match is no longer its own.
- `RefundedOnce`: at most one refund is between its claim of the payment and its
  end, and while one is, the payment is REFUND_PENDING.
- `OutboxRunsInBackground`, `BackgroundTypes`: the same for this composition.

Every invariant and every step property that a passing run checks is thereby
proved. Only model-checked are the liveness properties, KnownIntentResolves,
ConfirmedFinishes, OwedRefundIsRecorded, EveryEventSettles, OverdueIsEscalated
and RedeemedIsCleared: fairness and ENABLED are out of the prover's reach. The runs
that expect a violation are TLC's too, a counterexample being a proof already.
Nothing here needs an induction over data or a RECURSIVE operator.

## 7. Not modelled

- **Settlements**: edits of a fee override between recomputes, the rounding of commission lines
  (`settlement-math.ts` works on whole kurus per line), business days and
  holidays, alert-only reconciliation crons, the pricing lookup.
- **Memberships**: the anniversary calendar (29 February), trials and flags.
- **Offers**: window validation and the one-offer-per-date unique index.
- **Merchants**: the approval workflow, single guarded updates of one admin.
- **Auth**: password login, guards, cookie transport. **Payments-core**: registry
  and signatures.
- **Moderation, invoicing**: their alert-only crons.
- **Reservation codes, pickup reminders**: a retry on a unique index and one
  guarded sentinel update.
- **Notifications, sms, email, push**: formatting and quiet hours; delivery is the
  outbox's.
- **Discovery, impact, favorites, stores, bag templates, exports, dashboard,
  health, seed**: queries, caches of queries and CRUD, idempotent by unique
  constraints.
- **User interfaces, generated API types, landing page, deployment scripts**:
  most of the repository's lines; apart from the session and the redeem queue they
  hold no state that outlives a request.

The crons are taken to run in one process, as `docs/operations.md` states;
guarded updates make a second replica harmless for the ones modelled here, and
the model lets every sweep step happen at any time, so it covers that too.
