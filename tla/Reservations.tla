---------------------------- MODULE Reservations ----------------------------
(***************************************************************************)
(* The paid reservation of a surprise bag: reservations.service.ts with    *)
(* the stock primitives of offer-stock.service.ts, the settle path of      *)
(* payment-settle.service.ts (webhook and sweeper), the merchant-cancel    *)
(* fan-out, redeem, the no-show sweep and the refund bookkeeping.          *)
(*                                                                         *)
(* A database transaction whose guarded UPDATEs all hit rows of one        *)
(* reservation is one action: its first statement locks the Payment or the *)
(* Reservation row, and every other writer of these rows starts there too. *)
(* The fan-out of a cancelled offer is the exception: it reads its         *)
(* candidates first and visits them one by one, so it is a sequence of     *)
(* actions that fills a private buffer `fan' which only the commit         *)
(* publishes; meanwhile the rows it wrote are locked.  Provider I/O runs   *)
(* outside any transaction, so what a handler remembers across it          *)
(* (creator, sweep, refundJob, redeeming) is state of its own and a crash  *)
(* may wipe it.                                                            *)
(***************************************************************************)
EXTENDS StockUnits

CONSTANTS
  Merchants,   \* Merchant rows
  MerchantOf,  \* the merchant that owns an offer's store
  Answers,     \* bound: how the provider's checkouts may end
  Complaints,  \* bound: reservations a complaint may be filed about
  MaxCrashes   \* bound: handlers that die before their next step

ASSUME OwnershipAssumption ==
  /\ MerchantOf \in [Offers -> Merchants]
  /\ Answers \subseteq {"paid", "mispaid", "failed"}
  /\ Complaints \subseteq Reservations
  /\ MaxCrashes \in Nat

VARIABLES
  offerStatus, qtyReserved, qtyRedeemed, phase,  \* DailyOffer rows, its clock
  approved,    \* merchants whose verificationStatus is APPROVED
  resv,        \* Reservation.status, "NONE" before the row exists
  pay,         \* Payment.status, "NONE" before the row exists
  refundRows,  \* statuses of the Refund rows of a payment
  hook,        \* WebhookEventLog entry of the provider's event for a payment
  psp,         \* the provider's own view of the payment
  pspRefunds,  \* refunds the provider has carried out
  creator,     \* what create() still has to do after its commit
  sweep,       \* what the sweeper's queryStatus answered, not yet settled
  redeeming,   \* redeem() calls past their pre-checks
  refundJob,   \* what refundForCancellation() still has to do
  fan,         \* the open transaction of an offer's cancel fan-out
  scheduler,   \* how far the publish scheduler got with an offer it selected
  crashes

offerVars   == <<offerStatus, qtyReserved, qtyRedeemed>>
rowVars     == <<resv, pay, refundRows>>
providerVars == <<psp, pspRefunds>>
offerTasks  == <<fan, scheduler>>
handlerVars == <<hook, creator, sweep, redeeming, refundJob, offerTasks>>
worldVars   == <<phase, approved, crashes>>
vars == <<offerVars, rowVars, providerVars, handlerVars, worldVars>>

-----------------------------------------------------------------------------
(* Statuses and transition tables                                          *)

OfferTransitions ==
  [DRAFT     |-> {"SCHEDULED", "PUBLISHED", "CANCELLED"},
   SCHEDULED |-> {"PUBLISHED", "CANCELLED"},
   PUBLISHED |-> {"CLOSED", "CANCELLED"},
   SOLD_OUT  |-> {"CLOSED", "CANCELLED"},
   CLOSED    |-> {},
   CANCELLED |-> {}]

ReservationTransitions ==
  [PENDING_PAYMENT       |-> {"CONFIRMED", "EXPIRED", "CANCELLED_BY_USER"},
   CONFIRMED             |-> {"REDEEMED", "CANCELLED_BY_USER",
                              "CANCELLED_BY_MERCHANT", "NO_SHOW"},
   REDEEMED              |-> {},
   CANCELLED_BY_USER     |-> {},
   CANCELLED_BY_MERCHANT |-> {},
   NO_SHOW               |-> {},
   EXPIRED               |-> {}]

AllowedFrom(transitions, to) ==
  {from \in DOMAIN transitions : to \in transitions[from]}

OfferFrom(to) == AllowedFrom(OfferTransitions, to)
ResvFrom(to)  == AllowedFrom(ReservationTransitions, to)

Live == {"INTENT", "PROCESSING"}  \* no code path ever writes PROCESSING
Actors == {"CONSUMER", "MERCHANT"}

(* Statuses of reservations whose bags still count in qtyReserved.         *)
Held == {"PENDING_PAYMENT", "CONFIRMED"}
Sold == {"REDEEMED", "NO_SHOW"}
Freed == {"CANCELLED_BY_USER", "CANCELLED_BY_MERCHANT", "EXPIRED"}

InStatus(S) == {r \in Reservations : resv[r] \in S}

(* One of the bounded number of crashes and database errors happens now.   *)
Crash == crashes < MaxCrashes /\ crashes' = crashes + 1

-----------------------------------------------------------------------------
(* The open fan-out transaction of an offer                                *)

NoFan == [on |-> FALSE, pend |-> {}, conf |-> {}, failed |-> {},
          expired |-> {}, cancelled |-> {}, qty |-> 0]

(* No fan-out holds the lock on the offer's row ...                        *)
OfferFree(o) == ~fan[o].on
(* ... or on the reservation's own rows.                                   *)
RowFree(r) ==
  LET f == fan[OfferOf[r]]
  IN  r \notin f.failed \cup f.expired \cup f.cancelled

-----------------------------------------------------------------------------
(* Stock primitives                                                        *)

(* Mutant of Claimable: asks whether any bag is left, not whether q are.   *)
ClaimableForOne(o, q) ==
  /\ offerStatus[o] = "PUBLISHED"
  /\ qtyReserved[o] < QtyTotal[o]
  /\ MerchantOf[o] \in approved

Claimable(o, q) ==
  /\ offerStatus[o] = "PUBLISHED"
  /\ qtyReserved[o] + q <= QtyTotal[o]
  /\ MerchantOf[o] \in approved

Claim(o, q) ==
  /\ qtyReserved' = [qtyReserved EXCEPT ![o] = @ + q]
  /\ offerStatus' = [offerStatus EXCEPT
       ![o] = IF qtyReserved[o] + q = QtyTotal[o] THEN "SOLD_OUT" ELSE @]

(* Mutant of Release: forgets that a sold-out offer opens up again.        *)
ReleaseKeepsSoldOut(o, q) ==
  IF qtyReserved[o] >= q
  THEN /\ qtyReserved' = [qtyReserved EXCEPT ![o] = @ - q]
       /\ UNCHANGED offerStatus
  ELSE UNCHANGED <<qtyReserved, offerStatus>>

(* The guard qtyReserved >= q makes an unmatched release a no-op.          *)
Release(o, q) ==
  IF qtyReserved[o] >= q
  THEN /\ qtyReserved' = [qtyReserved EXCEPT ![o] = @ - q]
       /\ offerStatus' = [offerStatus EXCEPT
            ![o] = IF @ = "SOLD_OUT" /\ qtyReserved[o] - q < QtyTotal[o]
                   THEN "PUBLISHED" ELSE @]
  ELSE UNCHANGED <<qtyReserved, offerStatus>>

-----------------------------------------------------------------------------
(* create(): the transaction, then the provider call, then compensation    *)

CreateReservation(r) ==
  /\ resv[r] = "NONE"
  /\ OfferFree(OfferOf[r])
  /\ Claimable(OfferOf[r], Qty[r])
  /\ Claim(OfferOf[r], Qty[r])
  /\ resv' = [resv EXCEPT ![r] = "PENDING_PAYMENT"]
  /\ pay' = [pay EXCEPT ![r] = "INTENT"]
  /\ creator' = [creator EXCEPT ![r] = "calling"]
  /\ UNCHANGED <<qtyRedeemed, refundRows, providerVars, hook, sweep,
                 redeeming, refundJob, offerTasks, worldVars>>

CreateIntent(r) ==
  /\ creator[r] = "calling"
  /\ psp' = [psp EXCEPT ![r] = "pending"]
  /\ creator' = [creator EXCEPT ![r] = "idle"]
  /\ UNCHANGED <<offerVars, rowVars, pspRefunds, hook, sweep, redeeming,
                 refundJob, offerTasks, worldVars>>

(* The call throws; the provider may or may not have opened the intent.    *)
CreateIntentThrows(r) ==
  /\ creator[r] = "calling"
  /\ psp' \in {psp, [psp EXCEPT ![r] = "pending"]}
  /\ creator' = [creator EXCEPT ![r] = "compensating"]
  /\ UNCHANGED <<offerVars, rowVars, pspRefunds, hook, sweep, redeeming,
                 refundJob, offerTasks, worldVars>>

(* Mutant of ExpireAndRelease: neither row's status is asked again.        *)
ExpireUnguarded(r) ==
  /\ OfferFree(OfferOf[r])
  /\ pay' = [pay EXCEPT ![r] = "FAILED"]
  /\ resv' = [resv EXCEPT ![r] = "EXPIRED"]
  /\ Release(OfferOf[r], Qty[r])

(* Payment live -> FAILED; the reservation expires, and only if it did its *)
(* bags are released (the body of expireAndRelease, and of the             *)
(* compensation of a failed createIntent).                                 *)
ExpireAndRelease(r) ==
  IF pay[r] \in Live
  THEN /\ pay' = [pay EXCEPT ![r] = "FAILED"]
       /\ IF resv[r] \in ResvFrom("EXPIRED")
          THEN /\ OfferFree(OfferOf[r])
               /\ resv' = [resv EXCEPT ![r] = "EXPIRED"]
               /\ Release(OfferOf[r], Qty[r])
          ELSE UNCHANGED <<resv, qtyReserved, offerStatus>>
  ELSE UNCHANGED <<pay, resv, qtyReserved, offerStatus>>

CompensateFailedIntent(r) ==
  /\ creator[r] = "compensating"
  /\ RowFree(r)
  /\ ExpireAndRelease(r)
  /\ creator' = [creator EXCEPT ![r] = "idle"]
  /\ UNCHANGED <<qtyRedeemed, refundRows, providerVars, hook, sweep,
                 redeeming, refundJob, offerTasks, worldVars>>

-----------------------------------------------------------------------------
(* The payment provider (outside src/): a checkout that was opened is paid *)
(* in full, paid with another amount, or declined, at any later time.      *)

Finished == {"paid", "mispaid", "failed"}

ProviderFinishes(r) ==
  /\ psp[r] = "pending"
  /\ psp' \in {[psp EXCEPT ![r] = answer] : answer \in Answers}
  /\ UNCHANGED <<offerVars, rowVars, pspRefunds, handlerVars, worldVars>>

-----------------------------------------------------------------------------
(* settle(): one event log row, then one transaction                       *)

(* The guarded updates of settleSuccess.  A payment that already left      *)
(* INTENT (already_terminal, charged_after_failed) or a reservation that   *)
(* is no longer confirmable (orphaned_success, rolled back) changes        *)
(* nothing.                                                                *)
SettleSuccess(r) ==
  IF pay[r] \in Live /\ resv[r] \in ResvFrom("CONFIRMED")
  THEN /\ pay' = [pay EXCEPT ![r] = "PAID"]
       /\ resv' = [resv EXCEPT ![r] = "CONFIRMED"]
       /\ UNCHANGED <<qtyReserved, offerStatus>>
  ELSE UNCHANGED <<pay, resv, qtyReserved, offerStatus>>

(* Mutant of Settle: a success event is believed whatever its amount.      *)
SettleAnyAmount(r, answer) ==
  /\ RowFree(r)
  /\ IF answer \in {"paid", "mispaid"}
     THEN SettleSuccess(r) ELSE ExpireAndRelease(r)

(* A success event whose amount differs is quarantined like a failure.     *)
Settle(r, answer) ==
  /\ RowFree(r)
  /\ IF answer = "paid" THEN SettleSuccess(r) ELSE ExpireAndRelease(r)

(* The webhook of a finished checkout arrives, late or never, and is       *)
(* logged.  A redelivery finds the row and returns "duplicate".            *)
WebhookArrives(r) ==
  /\ psp[r] \in Finished
  /\ hook[r] = "unseen"
  /\ hook' = [hook EXCEPT ![r] = "logged"]
  /\ UNCHANGED <<offerVars, rowVars, providerVars, creator, sweep, redeeming,
                 refundJob, offerTasks, worldVars>>

WebhookSettles(r) ==
  /\ hook[r] = "logged"
  /\ Settle(r, psp[r])
  /\ hook' = [hook EXCEPT ![r] = "settled"]
  /\ UNCHANGED <<qtyRedeemed, refundRows, providerVars, creator, sweep,
                 redeeming, refundJob, offerTasks, worldVars>>

-----------------------------------------------------------------------------
(* The five-minute sweeper of stale intents                                *)

(* Mutant of SweepQuery: a checkout that is still pending is left alone.   *)
SweepQueryLeavesPending(r) ==
  /\ pay[r] \in Live
  /\ sweep[r] = "idle"
  /\ psp[r] \in Finished
  /\ sweep' = [sweep EXCEPT
       ![r] = IF psp[r] = "failed" THEN "unpaid" ELSE psp[r]]
  /\ UNCHANGED <<offerVars, rowVars, providerVars, hook, creator, redeeming,
                 refundJob, offerTasks, worldVars>>

(* queryStatus throws for a payment the provider never heard of: the sweep *)
(* leaves it for the next tick, hence the guard.  "pending" is folded into *)
(* the failure branch.                                                     *)
SweepQuery(r) ==
  /\ pay[r] \in Live
  /\ sweep[r] = "idle"
  /\ psp[r] # "none"
  /\ sweep' = [sweep EXCEPT
       ![r] = IF psp[r] \in {"paid", "mispaid"} THEN psp[r] ELSE "unpaid"]
  /\ UNCHANGED <<offerVars, rowVars, providerVars, hook, creator, redeeming,
                 refundJob, offerTasks, worldVars>>

SweepSettles(r) ==
  /\ sweep[r] # "idle"
  /\ Settle(r, sweep[r])
  /\ sweep' = [sweep EXCEPT ![r] = "idle"]
  /\ UNCHANGED <<qtyRedeemed, refundRows, providerVars, hook, creator,
                 redeeming, refundJob, offerTasks, worldVars>>

-----------------------------------------------------------------------------
(* The consumer cancels                                                    *)

(* Mutants of CancelledPayment and RefundOwed: the cancel forgets the      *)
(* intent, or the money.                                                   *)
IntentSurvivesCancel(r) == pay[r]
NoRefundOwed(r) == refundJob[r]

(* The live intent dies in the same transaction as the reservation; the    *)
(* refund is owed iff the transition that matched started at CONFIRMED.    *)
CancelledPayment(r) == IF pay[r] \in Live THEN "FAILED" ELSE pay[r]
RefundOwed(r) == IF resv[r] = "CONFIRMED" THEN "calling" ELSE refundJob[r]

Cancel(r) ==
  /\ resv[r] \in ResvFrom("CANCELLED_BY_USER")
  /\ phase[OfferOf[r]] = "early"  \* cancelDeadlineAt > now
  /\ OfferFree(OfferOf[r])
  /\ RowFree(r)
  /\ pay' = [pay EXCEPT ![r] = CancelledPayment(r)]
  /\ refundJob' = [refundJob EXCEPT ![r] = RefundOwed(r)]
  /\ resv' = [resv EXCEPT ![r] = "CANCELLED_BY_USER"]
  /\ Release(OfferOf[r], Qty[r])
  /\ UNCHANGED <<qtyRedeemed, refundRows, providerVars, hook, creator, sweep,
                 redeeming, offerTasks, worldVars>>

-----------------------------------------------------------------------------
(* The merchant (or an admin, or the suspend kill-switch) cancels an offer *)

(* The candidates are what the SELECT after the guarded status update (and *)
(* its row lock) sees.                                                     *)
OpenFan(o) ==
  [on |-> TRUE, pend |-> On(o, InStatus({"PENDING_PAYMENT"})),
   conf |-> On(o, InStatus({"CONFIRMED"})), failed |-> {}, expired |-> {},
   cancelled |-> {}, qty |-> qtyReserved[o]]

FanOutStart(o) ==
  /\ OfferFree(o)
  /\ offerStatus[o] \in OfferFrom("CANCELLED")
  /\ fan' = [fan EXCEPT ![o] = OpenFan(o)]
  /\ UNCHANGED <<offerVars, rowVars, providerVars, hook, creator, sweep,
                 redeeming, refundJob, scheduler, worldVars>>

LiveIntent(r) == IF pay[r] \in Live THEN {r} ELSE {}
Movable(r, to) == IF resv[r] \in ResvFrom(to) THEN {r} ELSE {}
FanRelease(qty, r, to) ==
  IF resv[r] \in ResvFrom(to) /\ qty >= Qty[r] THEN qty - Qty[r] ELSE qty

(* A candidate read as PENDING_PAYMENT expires, unless its guarded update  *)
(* no longer matches: then it is skipped.                                  *)
ExpireInFan(f, r) ==
  [f EXCEPT !.pend = @ \ {r},
            !.failed = @ \cup LiveIntent(r),
            !.expired = @ \cup Movable(r, "EXPIRED"),
            !.qty = FanRelease(@, r, "EXPIRED")]

FanOutPending(o, r) ==
  /\ r \in fan[o].pend
  /\ fan' = [fan EXCEPT ![o] = ExpireInFan(fan[o], r)]
  /\ UNCHANGED <<offerVars, rowVars, providerVars, hook, creator, sweep,
                 redeeming, refundJob, scheduler, worldVars>>

(* One read as CONFIRMED is cancelled, likewise.                           *)
CancelInFan(f, r) ==
  [f EXCEPT !.conf = @ \ {r},
            !.failed = @ \cup LiveIntent(r),
            !.cancelled = @ \cup Movable(r, "CANCELLED_BY_MERCHANT"),
            !.qty = FanRelease(@, r, "CANCELLED_BY_MERCHANT")]

FanOutConfirmed(o, r) ==
  /\ r \in fan[o].conf
  /\ fan' = [fan EXCEPT ![o] = CancelInFan(fan[o], r)]
  /\ UNCHANGED <<offerVars, rowVars, providerVars, hook, creator, sweep,
                 redeeming, refundJob, scheduler, worldVars>>

(* The commit publishes the buffer; refundMany then owes a refund to every *)
(* reservation it cancelled.                                               *)
FanOutCommit(o) ==
  LET f == fan[o] IN
  /\ f.on /\ f.pend = {} /\ f.conf = {}
  /\ offerStatus' = [offerStatus EXCEPT ![o] = "CANCELLED"]
  /\ qtyReserved' = [qtyReserved EXCEPT ![o] = f.qty]
  /\ pay' = [r \in Reservations |-> IF r \in f.failed THEN "FAILED" ELSE pay[r]]
  /\ resv' = [r \in Reservations |->
                CASE r \in f.expired   -> "EXPIRED"
                  [] r \in f.cancelled -> "CANCELLED_BY_MERCHANT"
                  [] OTHER             -> resv[r]]
  /\ refundJob' = [r \in Reservations |->
                     IF r \in f.cancelled THEN "calling" ELSE refundJob[r]]
  /\ fan' = [fan EXCEPT ![o] = NoFan]
  /\ UNCHANGED <<qtyRedeemed, refundRows, providerVars, hook, creator, sweep,
                 redeeming, scheduler, worldVars>>

-----------------------------------------------------------------------------
(* Redeem and no-show                                                      *)

(* Status and pickup window are read before the transaction ...            *)
RedeemChecks(r, actor) ==
  /\ <<r, actor>> \notin redeeming
  /\ resv[r] \in ResvFrom("REDEEMED")
  /\ phase[OfferOf[r]] = "open"
  /\ redeeming' = redeeming \cup {<<r, actor>>}
  /\ UNCHANGED <<offerVars, rowVars, providerVars, hook, creator, sweep,
                 refundJob, offerTasks, worldVars>>

(* Mutant of RedeemCommits: trusts the status read before the transaction. *)
RedeemCommitsBlindly(r, actor) ==
  /\ <<r, actor>> \in redeeming
  /\ RowFree(r)
  /\ OfferFree(OfferOf[r])
  /\ redeeming' = redeeming \ {<<r, actor>>}
  /\ resv' = [resv EXCEPT ![r] = "REDEEMED"]
  /\ qtyRedeemed' = [qtyRedeemed EXCEPT ![OfferOf[r]] = @ + Qty[r]]
  /\ UNCHANGED <<offerStatus, qtyReserved, pay, refundRows, providerVars, hook,
                 creator, sweep, refundJob, offerTasks, worldVars>>

(* ... which only re-asserts the status; the loser changes nothing.        *)
RedeemCommits(r, actor) ==
  /\ <<r, actor>> \in redeeming
  /\ RowFree(r)
  /\ redeeming' = redeeming \ {<<r, actor>>}
  /\ IF resv[r] \in ResvFrom("REDEEMED")
     THEN /\ OfferFree(OfferOf[r])
          /\ resv' = [resv EXCEPT ![r] = "REDEEMED"]
          /\ qtyRedeemed' = [qtyRedeemed EXCEPT ![OfferOf[r]] = @ + Qty[r]]
     ELSE UNCHANGED <<resv, qtyRedeemed>>
  /\ UNCHANGED <<offerStatus, qtyReserved, pay, refundRows, providerVars,
                 hook, creator, sweep, refundJob, offerTasks, worldVars>>

(* Mutant of NoShow: only looks at offers that are still open.             *)
NoShowOfOpenOffers(r) ==
  /\ offerStatus[OfferOf[r]] \in {"PUBLISHED", "SOLD_OUT"}
  /\ phase[OfferOf[r]] = "closed"
  /\ RowFree(r)
  /\ resv[r] \in ResvFrom("NO_SHOW")
  /\ resv' = [resv EXCEPT ![r] = "NO_SHOW"]
  /\ UNCHANGED <<offerVars, pay, refundRows, providerVars, handlerVars,
                 worldVars>>

NoShow(r) ==
  /\ phase[OfferOf[r]] = "closed"
  /\ RowFree(r)
  /\ resv[r] \in ResvFrom("NO_SHOW")
  /\ resv' = [resv EXCEPT ![r] = "NO_SHOW"]
  /\ UNCHANGED <<offerVars, pay, refundRows, providerVars, handlerVars,
                 worldVars>>

-----------------------------------------------------------------------------
(* Refunds: claim (complaints only), provider call, bookkeeping            *)

(* Mutant of RefundFrom: every refund expects a payment nobody claimed.    *)
RefundFromPaid(r) == "PAID"

(* The payment status a refund is authorised to move out of.               *)
RefundFrom(r) == IF resv[r] \in Sold THEN "REFUND_PENDING" ELSE "PAID"
Refunded(r) == IF pay[r] = RefundFrom(r) THEN "REFUNDED" ELSE pay[r]

(* Mutant of RefundClaim: a payment already claimed is claimed again.      *)
RefundClaimAgain(r) ==
  /\ r \in Complaints
  /\ resv[r] \in Sold
  /\ pay[r] \in {"PAID", "REFUND_PENDING"}
  /\ pay' = [pay EXCEPT ![r] = "REFUND_PENDING"]
  /\ refundJob' = [refundJob EXCEPT ![r] = "calling"]
  /\ UNCHANGED <<offerVars, resv, refundRows, providerVars, hook, creator,
                 sweep, redeeming, offerTasks, worldVars>>

(* refundRedeemed: a complaint claims the payment before any provider I/O. *)
RefundClaim(r) ==
  /\ r \in Complaints
  /\ resv[r] \in Sold
  /\ pay[r] = "PAID"
  /\ pay' = [pay EXCEPT ![r] = "REFUND_PENDING"]
  /\ refundJob' = [refundJob EXCEPT ![r] = "calling"]
  /\ UNCHANGED <<offerVars, resv, refundRows, providerVars, hook, creator,
                 sweep, redeeming, offerTasks, worldVars>>

RefundCall(r) ==
  /\ refundJob[r] = "calling"
  /\ pspRefunds' = [pspRefunds EXCEPT ![r] = @ + 1]
  /\ refundJob' = [refundJob EXCEPT ![r] = "recording"]
  /\ UNCHANGED <<offerVars, rowVars, psp, hook, creator, sweep, redeeming,
                 offerTasks, worldVars>>

(* The provider refuses, which moves no money: a FAILED row, unless the     *)
(* database fails too; a complaint goes on to give its claim back.         *)
RefundCallThrows(r) ==
  /\ refundJob[r] = "calling"
  /\ \/ /\ refundRows' = [refundRows EXCEPT ![r] = @ \cup {"FAILED"}]
        /\ UNCHANGED crashes
     \/ Crash /\ UNCHANGED refundRows
  /\ refundJob' = [refundJob EXCEPT
       ![r] = IF resv[r] \in Sold THEN "releasing" ELSE "idle"]
  /\ UNCHANGED <<offerVars, resv, pay, providerVars, hook, creator, sweep,
                 redeeming, offerTasks, phase, approved>>

RefundReleasesClaim(r) ==
  /\ refundJob[r] = "releasing"
  /\ pay' = [pay EXCEPT ![r] = IF @ = "REFUND_PENDING" THEN "PAID" ELSE @]
  /\ refundJob' = [refundJob EXCEPT ![r] = "idle"]
  /\ UNCHANGED <<offerVars, resv, refundRows, providerVars, hook, creator,
                 sweep, redeeming, offerTasks, worldVars>>

RefundRecords(r) ==
  /\ refundJob[r] = "recording"
  /\ refundRows' = [refundRows EXCEPT ![r] = @ \cup {"DONE"}]
  /\ pay' = [pay EXCEPT ![r] = Refunded(r)]
  /\ refundJob' = [refundJob EXCEPT ![r] = "idle"]
  /\ UNCHANGED <<offerVars, resv, providerVars, hook, creator, sweep,
                 redeeming, offerTasks, worldVars>>

(* The bookkeeping transaction throws: a SENT row and the status are each  *)
(* attempted once more on their own, and each may fail.                    *)
RefundRecordThrows(r) ==
  /\ Crash
  /\ refundJob[r] = "recording"
  /\ refundRows' \in {refundRows, [refundRows EXCEPT ![r] = @ \cup {"SENT"}]}
  /\ pay' \in {pay, [pay EXCEPT ![r] = Refunded(r)]}
  /\ refundJob' = [refundJob EXCEPT ![r] = "idle"]
  /\ UNCHANGED <<offerVars, resv, providerVars, hook, creator, sweep, redeeming,
                 offerTasks, phase, approved>>

-----------------------------------------------------------------------------
(* Offer lifecycle, the merchant kill-switch, the clock                    *)

Schedule(o) ==
  /\ offerStatus[o] \in OfferFrom("SCHEDULED")
  /\ OfferFree(o)
  /\ offerStatus' = [offerStatus EXCEPT ![o] = "SCHEDULED"]
  /\ UNCHANGED <<qtyReserved, qtyRedeemed, rowVars, providerVars,
                 handlerVars, worldVars>>

(* pickupEndAt > now and a publishable status; merchant approval is not    *)
(* asked here but in every claim.                                          *)
Publishable(o) ==
  offerStatus[o] \in OfferFrom("PUBLISHED") /\ phase[o] # "closed"

Publish(o) ==
  /\ Publishable(o)
  /\ OfferFree(o)
  /\ offerStatus' = [offerStatus EXCEPT ![o] = "PUBLISHED"]
  /\ UNCHANGED <<qtyReserved, qtyRedeemed, rowVars, providerVars, handlerVars,
                 worldVars>>

(* The publish scheduler selects the due SCHEDULED offers ...              *)
SchedulerSelects(o) ==
  /\ scheduler[o] = "idle"
  /\ offerStatus[o] = "SCHEDULED"
  /\ scheduler' = [scheduler EXCEPT ![o] = "selected"]
  /\ UNCHANGED <<offerVars, rowVars, providerVars, hook, creator, sweep,
                 redeeming, refundJob, fan, worldVars>>

(* ... publishes each, unless its window has passed ...                    *)
SchedulerPublishes(o) ==
  /\ scheduler[o] = "selected"
  /\ OfferFree(o)
  /\ offerStatus' = [offerStatus EXCEPT
       ![o] = IF Publishable(o) THEN "PUBLISHED" ELSE @]
  /\ scheduler' = [scheduler EXCEPT
       ![o] = IF phase[o] = "closed" THEN "expired" ELSE "idle"]
  /\ UNCHANGED <<qtyReserved, qtyRedeemed, rowVars, providerVars, hook, creator,
                 sweep, redeeming, refundJob, fan, worldVars>>

(* ... and cancels one that came too late, with no fan-out.                *)
Terminalize(o) ==
  /\ scheduler[o] = "expired"
  /\ OfferFree(o)
  /\ offerStatus' = [offerStatus EXCEPT
       ![o] = IF @ \in OfferFrom("CANCELLED") THEN "CANCELLED" ELSE @]
  /\ scheduler' = [scheduler EXCEPT ![o] = "idle"]
  /\ UNCHANGED <<qtyReserved, qtyRedeemed, rowVars, providerVars, hook, creator,
                 sweep, redeeming, refundJob, fan, worldVars>>

Close(o) ==
  /\ offerStatus[o] \in OfferFrom("CLOSED")
  /\ OfferFree(o)
  /\ offerStatus' = [offerStatus EXCEPT ![o] = "CLOSED"]
  /\ UNCHANGED <<qtyReserved, qtyRedeemed, rowVars, providerVars,
                 handlerVars, worldVars>>

Suspend(m) ==
  /\ m \in approved
  /\ approved' = approved \ {m}
  /\ UNCHANGED <<offerVars, rowVars, providerVars, handlerVars, phase,
                 crashes>>

(* early: before cancelDeadlineAt.  open: from there, through the pickup   *)
(* window, to the end of the no-show grace.  closed: afterwards.           *)
Tick(o) ==
  /\ phase[o] # "closed"
  /\ phase' = [phase EXCEPT ![o] = IF @ = "early" THEN "open" ELSE "closed"]
  /\ UNCHANGED <<offerVars, rowVars, providerVars, handlerVars, approved,
                 crashes>>

-----------------------------------------------------------------------------
(* A handler dies (crash, restart, database error, deadlock victim) and    *)
(* nobody takes its work over.                                             *)

(* create() dies after its commit, before or after the provider heard.     *)
CreatorDies(r) ==
  /\ Crash
  /\ creator[r] # "idle"
  /\ creator' = [creator EXCEPT ![r] = "idle"]
  /\ UNCHANGED <<offerVars, rowVars, providerVars, hook, sweep, redeeming,
                 refundJob, offerTasks, phase, approved>>

(* settle() dies between its log row and its transaction.                  *)
WebhookDies(r) ==
  /\ Crash
  /\ hook[r] = "logged"
  /\ hook' = [hook EXCEPT ![r] = "settled"]
  /\ UNCHANGED <<offerVars, rowVars, providerVars, creator, sweep, redeeming,
                 refundJob, offerTasks, phase, approved>>

SweepDies(r) ==
  /\ Crash
  /\ sweep[r] # "idle"
  /\ sweep' = [sweep EXCEPT ![r] = "idle"]
  /\ UNCHANGED <<offerVars, rowVars, providerVars, hook, creator, redeeming,
                 refundJob, offerTasks, phase, approved>>

RefundDies(r) ==
  /\ Crash
  /\ refundJob[r] # "idle"
  /\ refundJob' = [refundJob EXCEPT ![r] = "idle"]
  /\ UNCHANGED <<offerVars, rowVars, providerVars, hook, creator, sweep,
                 redeeming, offerTasks, phase, approved>>

(* The open fan-out transaction rolls back.                                *)
FanOutDies(o) ==
  /\ Crash
  /\ fan[o].on
  /\ fan' = [fan EXCEPT ![o] = NoFan]
  /\ UNCHANGED <<offerVars, rowVars, providerVars, hook, creator, sweep,
                 redeeming, refundJob, scheduler, phase, approved>>

-----------------------------------------------------------------------------

Init ==
  /\ offerStatus = [o \in Offers |-> "DRAFT"]
  /\ qtyReserved = [o \in Offers |-> 0]
  /\ qtyRedeemed = [o \in Offers |-> 0]
  /\ phase = [o \in Offers |-> "early"]
  /\ approved = Merchants
  /\ resv = [r \in Reservations |-> "NONE"]
  /\ pay = [r \in Reservations |-> "NONE"]
  /\ refundRows = [r \in Reservations |-> {}]
  /\ hook = [r \in Reservations |-> "unseen"]
  /\ psp = [r \in Reservations |-> "none"]
  /\ pspRefunds = [r \in Reservations |-> 0]
  /\ creator = [r \in Reservations |-> "idle"]
  /\ sweep = [r \in Reservations |-> "idle"]
  /\ redeeming = {}
  /\ refundJob = [r \in Reservations |-> "idle"]
  /\ fan = [o \in Offers |-> NoFan]
  /\ scheduler = [o \in Offers |-> "idle"]
  /\ crashes = 0

ReservationStep(r) ==
  \/ CreateReservation(r)
  \/ CreateIntent(r)
  \/ CreateIntentThrows(r)
  \/ CompensateFailedIntent(r)
  \/ ProviderFinishes(r)
  \/ WebhookArrives(r)
  \/ WebhookSettles(r)
  \/ SweepQuery(r)
  \/ SweepSettles(r)
  \/ Cancel(r)
  \/ \E actor \in Actors : RedeemChecks(r, actor)
  \/ \E actor \in Actors : RedeemCommits(r, actor)
  \/ NoShow(r)
  \/ RefundClaim(r)
  \/ RefundCall(r)
  \/ RefundCallThrows(r)
  \/ RefundReleasesClaim(r)
  \/ RefundRecords(r)
  \/ RefundRecordThrows(r)
  \/ CreatorDies(r)
  \/ WebhookDies(r)
  \/ SweepDies(r)
  \/ RefundDies(r)

OfferStep(o) ==
  \/ Schedule(o)
  \/ Publish(o)
  \/ SchedulerSelects(o)
  \/ SchedulerPublishes(o)
  \/ Terminalize(o)
  \/ Close(o)
  \/ FanOutStart(o)
  \/ \E r \in Reservations : FanOutPending(o, r)
  \/ \E r \in Reservations : FanOutConfirmed(o, r)
  \/ FanOutCommit(o)
  \/ FanOutDies(o)
  \/ Tick(o)

Next ==
  \/ \E r \in Reservations : ReservationStep(r)
  \/ \E o \in Offers : OfferStep(o)
  \/ \E m \in Merchants : Suspend(m)

Spec == Init /\ [][Next]_vars

(* What the scheduling justifies: a handler that is not killed goes on, a  *)
(* cron keeps ticking, time passes.  Nothing makes a customer pay, a       *)
(* webhook arrive or anybody cancel.                                       *)
ReservationFairness(r) ==
  /\ WF_vars(CreateIntent(r) \/ CreateIntentThrows(r))
  /\ WF_vars(CompensateFailedIntent(r))
  /\ WF_vars(WebhookSettles(r))
  /\ WF_vars(SweepQuery(r))
  /\ WF_vars(SweepSettles(r))
  /\ WF_vars(NoShow(r))
  /\ WF_vars(RefundCall(r) \/ RefundCallThrows(r))
  /\ WF_vars(RefundReleasesClaim(r))
  /\ WF_vars(RefundRecords(r))

OfferFairness(o) ==
  /\ WF_vars(\E r \in Reservations : FanOutPending(o, r))
  /\ WF_vars(\E r \in Reservations : FanOutConfirmed(o, r))
  /\ WF_vars(FanOutCommit(o))
  /\ WF_vars(Tick(o))

FairSpec ==
  /\ Spec
  /\ \A r \in Reservations : ReservationFairness(r)
  /\ \A o \in Offers : OfferFairness(o)

-----------------------------------------------------------------------------
(* Invariants                                                              *)

ReservationStatuses == {"NONE"} \cup DOMAIN ReservationTransitions
PaymentStatuses ==
  {"NONE", "PAID", "FAILED", "REFUND_PENDING", "REFUNDED"} \cup Live
FanRecord ==
  [on : BOOLEAN, pend : SUBSET Reservations, conf : SUBSET Reservations,
   failed : SUBSET Reservations, expired : SUBSET Reservations,
   cancelled : SUBSET Reservations, qty : Nat]

(* The CHECK constraints of daily_offers on qtyReserved (never negative,   *)
(* never above qtyTotal) are never what stops a statement.                 *)
OfferTypes ==
  /\ offerStatus \in [Offers -> DOMAIN OfferTransitions]
  /\ qtyReserved \in [Offers -> Nat]
  /\ \A o \in Offers : qtyReserved[o] <= QtyTotal[o]
  /\ qtyRedeemed \in [Offers -> Nat]

RowTypes ==
  /\ resv \in [Reservations -> ReservationStatuses]
  /\ pay \in [Reservations -> PaymentStatuses]
  /\ refundRows \in [Reservations -> SUBSET {"FAILED", "DONE", "SENT"}]

ProviderTypes ==
  /\ psp \in [Reservations -> {"none", "pending"} \cup Finished]
  /\ pspRefunds \in [Reservations -> Nat]

HandlerTypes ==
  /\ hook \in [Reservations -> {"unseen", "logged", "settled"}]
  /\ creator \in [Reservations -> {"idle", "calling", "compensating"}]
  /\ sweep \in [Reservations -> {"idle", "paid", "mispaid", "unpaid"}]
  /\ redeeming \subseteq Reservations \X Actors
  /\ refundJob \in
       [Reservations -> {"idle", "calling", "recording", "releasing"}]

TaskTypes ==
  /\ fan \in [Offers -> FanRecord]
  /\ scheduler \in [Offers -> {"idle", "selected", "expired"}]

WorldTypes ==
  /\ phase \in [Offers -> {"early", "open", "closed"}]
  /\ approved \subseteq Merchants
  /\ crashes \in 0..MaxCrashes

TypeOK ==
  /\ OfferTypes
  /\ RowTypes
  /\ ProviderTypes
  /\ HandlerTypes
  /\ TaskTypes
  /\ WorldTypes

(* The reservations whose bags qtyReserved counts.                         *)
Promised(o) == On(o, InStatus(Held \cup Sold))

(* qtyReserved is exactly the bags of the reservations that hold or have   *)
(* bought some: no webhook, sweep, cancel, compensation or fan-out, in any *)
(* order, releases bags twice or forgets to.                               *)
StockConservation ==
  \A o \in Offers : qtyReserved[o] = Total(Qty, Promised(o))

(* The status a shopper sees agrees with the shelf: an open offer has a    *)
(* bag left and a sold-out one has none (the CASE of claim and release).   *)
SoldOutIffFull ==
  \A o \in Offers :
    /\ offerStatus[o] = "PUBLISHED" => qtyReserved[o] < QtyTotal[o]
    /\ offerStatus[o] = "SOLD_OUT" => qtyReserved[o] = QtyTotal[o]

(* A reservation is counted as redeemed once, even when the consumer and   *)
(* the merchant both redeem it and both passed the checks.  With           *)
(* StockConservation this gives the CHECK qtyRedeemed <= qtyReserved.      *)
RedeemedCount ==
  \A o \in Offers :
    qtyRedeemed[o] = Total(Qty, On(o, InStatus({"REDEEMED"})))

(* Payment and reservation move together: a live intent belongs to a       *)
(* reservation still waiting for it, so settleSuccess never meets its      *)
(* orphaned_success branch; a confirmed reservation is paid for; a failed  *)
(* payment leaves nothing held.                                            *)
PaymentAgrees ==
  \A r \in Reservations :
    /\ pay[r] \in Live <=> resv[r] = "PENDING_PAYMENT"
    /\ resv[r] = "CONFIRMED" => pay[r] = "PAID"
    /\ pay[r] = "FAILED" => resv[r] \in Freed

(* The provider is asked to refund a payment at most once: complaints,     *)
(* cancels and fan-outs that race never pay a customer twice.              *)
NoDoubleRefund == \A r \in Reservations : pspRefunds[r] <= 1

(* What the settlement scan will pay the merchant for (sold and PAID) is   *)
(* money the provider really took, in full, and has not given back.        *)
SettleableMoneyIsReal ==
  \A r \in InStatus(Sold) :
    pay[r] = "PAID" => psp[r] = "paid" /\ pspRefunds[r] = 0

(* The books never run ahead of the money, and a refund booked as DONE     *)
(* leaves the payment REFUNDED.                                            *)
BooksFollowMoney ==
  \A r \in Reservations :
    /\ pay[r] = "REFUNDED" \/ refundRows[r] \cap {"DONE", "SENT"} # {}
         => pspRefunds[r] = 1
    /\ "DONE" \in refundRows[r] => pay[r] = "REFUNDED"

-----------------------------------------------------------------------------
(* Action properties                                                       *)

(* No step, however stale what it read, takes back a sale, revives a freed *)
(* reservation, or fails a payment that was settled as paid.               *)
SettledStaysSettled ==
  [][\A r \in Reservations :
       /\ resv[r] \in Sold \cup Freed => resv'[r] = resv[r]
       /\ pay[r] = "FAILED" => pay'[r] = "FAILED"
       /\ pay[r] = "PAID"
            => pay'[r] \in {"PAID", "REFUND_PENDING", "REFUNDED"}]_vars

(* The whole mechanism implements the abstract inventory of bags.          *)
Inventory == INSTANCE BagInventory WITH
  held <- InStatus(Held), kept <- InStatus(Sold), freed <- InStatus(Freed)

(* Seen from outside, bags are held, then sold for good or freed for good, *)
(* and never promised beyond the offer's total.                            *)
ImplementsInventory == Inventory!InvSpec

(* Claimed by the comment above cancelAllForOffer: a candidate the fan-out *)
(* skips was settled by someone who also took care of its stock, so a      *)
(* committed fan-out leaves nothing of the offer held.                     *)
CancelLeavesNothingHeld ==
  [][\A o \in Offers :
       FanOutCommit(o) => On(o, InStatus(Held))' = {}]_vars

(* Claimed by the comment above publishDueScheduled: an offer the          *)
(* scheduler terminalizes was never published, so it is impossible for it  *)
(* to have reservations.                                                   *)
TerminalizedOfferIsUntouched ==
  [][\A o \in Offers :
       Terminalize(o) /\ offerStatus'[o] # offerStatus[o]
         => On(o, InStatus(Held)) = {}]_vars

-----------------------------------------------------------------------------
(* Liveness, under FairSpec                                                *)

(* An intent the provider knows of is settled one way or the other, even   *)
(* when its webhook never comes and handlers die.                          *)
KnownIntentResolves ==
  \A r \in Reservations :
    (pay[r] \in Live /\ psp[r] # "none") ~> pay[r] \notin Live

(* A paid reservation ends: redeemed, cancelled, or taken by the no-show   *)
(* sweep once its window is over.                                          *)
ConfirmedFinishes ==
  \A r \in Reservations : resv[r] = "CONFIRMED" ~> resv[r] # "CONFIRMED"

(* Unless a handler dies, a cancelled reservation that had been paid for   *)
(* gets a Refund row: DONE, or FAILED for a human to retry.                *)
OwedRefundIsRecorded ==
  \A r \in Reservations :
    (resv[r] \in Freed /\ pay[r] = "PAID")
      ~> (refundRows[r] # {} \/ crashes > 0)

(* Claimed by the comment on PaymentsSweeperService: no slot is held       *)
(* hostage indefinitely by an intent that never finishes.                  *)
NoSlotHostage ==
  \A r \in Reservations :
    resv[r] = "PENDING_PAYMENT" ~> resv[r] # "PENDING_PAYMENT"
=============================================================================
