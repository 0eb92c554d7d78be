------------------------------ MODULE Complaints ------------------------------
(***************************************************************************)
(* Complaint tickets about one reservation: replies, the admin's verdicts, *)
(* the refund an admin may order, and the sweep that watches the deadline. *)
(* refundRedeemed is modelled in full in Reservations; here it throws, or  *)
(* claims the payment and ends with or without a refund.                   *)
(***************************************************************************)
EXTENDS Naturals, FiniteSets

CONSTANTS
  Tickets,     \* ids of complaint_tickets rows, all of one reservation
  SlaSweeps,   \* bound: sweeps that run at the same time
  BatchLimit   \* BATCH_LIMIT

ASSUME ComplaintsAssumption == BatchLimit \in Nat \ {0} /\ IsFiniteSet(Tickets)

VARIABLES
  ticket,     \* the complaint_tickets rows
  refunding,  \* what the adminRefund of each ticket is doing
  sale,       \* the reservation, its payment, and the refunds the provider made
  slaSweep    \* what each sweep is doing and the rows its SELECT returned

complaintVars == <<ticket, refunding, sale, slaSweep>>

-----------------------------------------------------------------------------
TicketStatuses == {"none", "OPEN", "MERCHANT_RESPONDED", "ESCALATED", "RESOLVED"}

(* claimed: refundedAt is set.  warned: slaWarningSentAt is set.           *)
Ticket == [status : TicketStatuses, claimed : BOOLEAN, warned : BOOLEAN,
           deadline : {"far", "near", "past"}]

ComplaintsTypeOK ==
  /\ ticket \in [Tickets -> Ticket]
  /\ refunding \in [Tickets -> {"idle", "claimed", "asking", "refused", "releasing"}]
  /\ sale \in [ended : BOOLEAN, payment : {"PAID", "REFUND_PENDING", "REFUNDED"},
               refunds : 0 .. Cardinality(Tickets)]
  /\ slaSweep \in [SlaSweeps -> [phase : {"idle", "warning", "breached", "escalating"},
                                 rows : SUBSET Tickets]]

ComplaintsInit ==
  /\ ticket = [t \in Tickets |-> [status |-> "none", claimed |-> FALSE,
                                  warned |-> FALSE, deadline |-> "far"]]
  /\ refunding = [t \in Tickets |-> "idle"]
  /\ sale = [ended |-> FALSE, payment |-> "PAID", refunds |-> 0]
  /\ slaSweep = [s \in SlaSweeps |-> [phase |-> "idle", rows |-> {}]]

-----------------------------------------------------------------------------
(* COMPLAINT_TRANSITIONS, read backwards (allowedFromStatusesFor).         *)
AllowedFrom(to) ==
  CASE to = "MERCHANT_RESPONDED" -> {"OPEN"}
    [] to = "ESCALATED" -> {"OPEN", "MERCHANT_RESPONDED"}
    [] to = "RESOLVED" -> {"OPEN", "MERCHANT_RESPONDED", "ESCALATED"}

TicketMoves(t, to) ==
  /\ ticket[t].status \in AllowedFrom(to)
  /\ ticket' = [ticket EXCEPT ![t].status = to]
  /\ UNCHANGED <<refunding, sale, slaSweep>>

OpenComplaint(t) ==
  /\ ticket[t].status = "none"
  /\ ticket' = [ticket EXCEPT ![t].status = "OPEN"]
  /\ UNCHANGED <<refunding, sale, slaSweep>>

MerchantReplies(t) == TicketMoves(t, "MERCHANT_RESPONDED")
AdminResolves(t) == TicketMoves(t, "RESOLVED")
AdminEscalates(t) == TicketMoves(t, "ESCALATED")

-----------------------------------------------------------------------------
(* adminRefund                                                             *)

Refunding(t, to) == refunding' = [refunding EXCEPT ![t] = to]

AdminRefund(t) ==
  /\ ticket[t].status # "none"
  /\ ~ticket[t].claimed
  /\ ticket' = [ticket EXCEPT ![t].claimed = TRUE]
  /\ Refunding(t, "claimed")
  /\ UNCHANGED <<sale, slaSweep>>

(* Mutant of RefundClaimsPayment: the payment is not claimed.              *)
RefundReadsPayment(t) ==
  /\ refunding[t] = "claimed"
  /\ Refunding(t, IF sale.ended /\ sale.payment = "PAID" THEN "asking" ELSE "idle")
  /\ UNCHANGED <<ticket, sale, slaSweep>>

(* refundRedeemed throws unless the reservation has ended and is paid, and *)
(* the throw leaves adminRefund with the ticket's claim in place.          *)
RefundClaimsPayment(t) ==
  /\ refunding[t] = "claimed"
  /\ IF sale.ended /\ sale.payment = "PAID"
     THEN sale' = [sale EXCEPT !.payment = "REFUND_PENDING"] /\ Refunding(t, "asking")
     ELSE UNCHANGED sale /\ Refunding(t, "idle")
  /\ UNCHANGED <<ticket, slaSweep>>

RefundMade(t) ==
  /\ refunding[t] = "asking"
  /\ sale' = [sale EXCEPT !.payment = "REFUNDED", !.refunds = @ + 1]
  /\ Refunding(t, "idle")
  /\ UNCHANGED <<ticket, slaSweep>>

RefundRefused(t) ==
  /\ refunding[t] = "asking"
  /\ Refunding(t, "refused")
  /\ UNCHANGED <<ticket, sale, slaSweep>>

(* Both claims are released by updates whose failure is swallowed.         *)
RefundReleasesPayment(t) ==
  /\ refunding[t] = "refused"
  /\ \/ UNCHANGED sale
     \/ /\ sale.payment = "REFUND_PENDING"
        /\ sale' = [sale EXCEPT !.payment = "PAID"]
  /\ Refunding(t, "releasing")
  /\ UNCHANGED <<ticket, slaSweep>>

RefundReleasesTicket(t) ==
  /\ refunding[t] = "releasing"
  /\ ticket' \in {ticket, [ticket EXCEPT ![t].claimed = FALSE]}
  /\ Refunding(t, "idle")
  /\ UNCHANGED <<sale, slaSweep>>

-----------------------------------------------------------------------------
(* complaint-sla-sweep: warnApproaching, then escalateBreached.  Each is   *)
(* one UPDATE ... WHERE id IN (SELECT ... LIMIT): the subselect is not     *)
(* evaluated again when the UPDATE waited for another transaction's row,   *)
(* so what it selected may have changed by the time it is written.         *)

Unanswered == {"OPEN", "MERCHANT_RESPONDED"}

Selects(s, from, to, rows) ==
  /\ slaSweep[s].phase = from
  /\ \E picked \in SUBSET rows :
       /\ Cardinality(picked) <= BatchLimit
       /\ picked # rows => Cardinality(picked) = BatchLimit
       /\ slaSweep' = [slaSweep EXCEPT ![s] = [phase |-> to, rows |-> picked]]
  /\ UNCHANGED <<ticket, refunding, sale>>

WarnSelects(s) ==
  Selects(s, "idle", "warning",
          {t \in Tickets : /\ ticket[t].status \in Unanswered
                           /\ ~ticket[t].warned
                           /\ ticket[t].deadline = "near"})

Warns(s) ==
  /\ slaSweep[s].phase = "warning"
  /\ ticket' = [t \in Tickets |->
       [ticket[t] EXCEPT !.warned = @ \/ t \in slaSweep[s].rows]]
  /\ slaSweep' = [slaSweep EXCEPT ![s] = [phase |-> "breached", rows |-> {}]]
  /\ UNCHANGED <<refunding, sale>>

(* Mutant of Breached: a reply of the merchant stops the clock.            *)
BreachedUnanswered ==
  {t \in Tickets : ticket[t].status = "OPEN" /\ ticket[t].deadline = "past"}

Breached ==
  {t \in Tickets : ticket[t].status \in Unanswered /\ ticket[t].deadline = "past"}

EscalateSelects(s) == Selects(s, "breached", "escalating", Breached)

EscalatesBreached(s) ==
  /\ slaSweep[s].phase = "escalating"
  /\ ticket' = [t \in Tickets |->
       IF t \in slaSweep[s].rows THEN [ticket[t] EXCEPT !.status = "ESCALATED"]
       ELSE ticket[t]]
  /\ slaSweep' = [slaSweep EXCEPT ![s] = [phase |-> "idle", rows |-> {}]]
  /\ UNCHANGED <<refunding, sale>>

SlaSweepSteps(s) ==
  WarnSelects(s) \/ Warns(s) \/ EscalateSelects(s) \/ EscalatesBreached(s)

-----------------------------------------------------------------------------
(* The reservation is redeemed or a no-show; time passes; a process dies.  *)
SaleEnds ==
  /\ ~sale.ended
  /\ sale' = [sale EXCEPT !.ended = TRUE]
  /\ UNCHANGED <<ticket, refunding, slaSweep>>

DeadlineComes(t) ==
  /\ ticket[t].status # "none"
  /\ ticket[t].deadline # "past"
  /\ ticket' = [ticket EXCEPT ![t].deadline = IF @ = "far" THEN "near" ELSE "past"]
  /\ UNCHANGED <<refunding, sale, slaSweep>>

RefundDies(t) ==
  /\ refunding[t] # "idle"
  /\ Refunding(t, "idle")
  /\ UNCHANGED <<ticket, sale, slaSweep>>

-----------------------------------------------------------------------------
RefundSteps(t) ==
  RefundClaimsPayment(t) \/ RefundMade(t) \/ RefundRefused(t)
    \/ RefundReleasesPayment(t) \/ RefundReleasesTicket(t)

ComplaintsNextAlive ==
  \/ \E t \in Tickets :
       \/ OpenComplaint(t) \/ MerchantReplies(t) \/ AdminResolves(t) \/ AdminEscalates(t)
       \/ AdminRefund(t) \/ RefundSteps(t) \/ DeadlineComes(t)
  \/ \E s \in SlaSweeps : SlaSweepSteps(s)
  \/ SaleEnds

ComplaintsNext == ComplaintsNextAlive \/ \E t \in Tickets : RefundDies(t)

(* With every process alive: what goes wrong then is not a crash's fault.  *)
ComplaintsSpecAlive == ComplaintsInit /\ [][ComplaintsNextAlive]_complaintVars

(* The sweep runs every hour and each of its runs ends.                    *)
ComplaintsSpec ==
  /\ ComplaintsInit /\ [][ComplaintsNext]_complaintVars
  /\ \A s \in SlaSweeps : WF_complaintVars(SlaSweepSteps(s))

-----------------------------------------------------------------------------
(* Properties                                                              *)

(* Two tickets, clicks that repeat, refusals and retries, crashes anywhere *)
(* in between: the one payment is refunded at most once.                   *)
OneRefund == sale.refunds <= 1

(* No complaint passes its deadline in silence: once overdue it does not   *)
(* stay unanswered, replied to or not, however full the batches are.       *)
OverdueIsEscalated ==
  \A t \in Tickets :
    ticket[t].status \in Unanswered /\ ticket[t].deadline = "past"
      ~> ticket[t].status \notin Unanswered

(* What refundedAt is said to mean, with every process alive: the ticket's *)
(* refund was made, or is being made.                                      *)
ClaimedMeansRefunded ==
  \A t \in Tickets :
    ticket[t].claimed /\ refunding[t] = "idle" => sale.refunds > 0
=============================================================================
