--------------------------- MODULE BackgroundProofs ---------------------------
(***************************************************************************)
(* Proofs about the services that owe something to the passage of time:    *)
(* Complaints and RedeemQueue here, and that what is proved of the outbox  *)
(* in OutboxProofs holds of it next to the others.                         *)
(***************************************************************************)
EXTENDS BackgroundServices, OutboxProofs, FiniteSetTheorems

-----------------------------------------------------------------------------
(* Complaints: for any number of complaints about one reservation, the     *)
(* payment is claimed by one of their refunds at a time, and only while    *)
(* nothing was refunded.                                                   *)

(* Between claiming the payment and releasing it, or dying with it.        *)
HoldsPayment(t) == refunding[t] \in {"asking", "refused"}

PaymentClaim ==
  /\ \A t, u \in Tickets : HoldsPayment(t) /\ HoldsPayment(u) => t = u
  /\ \A t \in Tickets : HoldsPayment(t) => sale.payment = "REFUND_PENDING"

RefundsAgree ==
  /\ sale.refunds \in {0, 1}
  /\ sale.payment # "REFUNDED" => sale.refunds = 0

ComplaintsInv == ComplaintsTypeOK /\ PaymentClaim /\ RefundsAgree

Sale == [ended : BOOLEAN, payment : {"PAID", "REFUND_PENDING", "REFUNDED"},
         refunds : 0 .. Cardinality(Tickets)]

RefundPhases == {"idle", "claimed", "asking", "refused", "releasing"}

SlaPhases == {"idle", "warning", "breached", "escalating"}

-----------------------------------------------------------------------------
(* There are finitely many tickets, and one if one is refunded.            *)
LEMMA SomeTickets ==
  /\ Cardinality(Tickets) \in Nat
  /\ \A t \in Tickets : Cardinality(Tickets) >= 1
<1>1. Cardinality(Tickets) \in Nat
  BY FS_CardinalityType, ComplaintsAssumption
<1>2. \A t \in Tickets : Tickets # {}
  OBVIOUS
<1>3. Tickets # {} => Cardinality(Tickets) # 0
  BY FS_EmptySet, ComplaintsAssumption
<1> QED BY <1>1, <1>2, <1>3

(* No ticket is open yet and nothing was refunded.                         *)
LEMMA ComplaintsInit_Inv == ComplaintsInit => ComplaintsInv
BY SomeTickets DEF ComplaintsInit, ComplaintsInv, ComplaintsTypeOK, PaymentClaim, RefundsAgree,
   HoldsPayment, Ticket, TicketStatuses

(* Steps that leave the payment and the refunds alone.                     *)
LEMMA TicketsMove ==
  ASSUME ComplaintsInv, ticket' \in [Tickets -> Ticket],
         slaSweep' \in [SlaSweeps -> [phase : SlaPhases, rows : SUBSET Tickets]],
         UNCHANGED <<refunding, sale>>
  PROVE  ComplaintsInv'
BY DEF ComplaintsInv, ComplaintsTypeOK, PaymentClaim, RefundsAgree, HoldsPayment, SlaPhases

(* A refund that does not claim the payment, or gives it up.               *)
LEMMA RefundMoves ==
  ASSUME ComplaintsInv, NEW t \in Tickets, NEW to \in RefundPhases,
         Refunding(t, to), ticket' \in [Tickets -> Ticket],
         UNCHANGED <<sale, slaSweep>>,
         to \in {"asking", "refused"} => HoldsPayment(t)
  PROVE  ComplaintsInv'
<1>1. /\ refunding' \in [Tickets -> RefundPhases]
      /\ \A u \in Tickets : refunding'[u] = IF u = t THEN to ELSE refunding[u]
  BY DEF ComplaintsInv, ComplaintsTypeOK, Refunding, RefundPhases
<1>2. ComplaintsTypeOK'
  BY <1>1 DEF ComplaintsInv, ComplaintsTypeOK, RefundPhases
<1>3. PaymentClaim' /\ RefundsAgree'
  BY <1>1 DEF ComplaintsInv, PaymentClaim, RefundsAgree, HoldsPayment
<1> QED BY <1>2, <1>3 DEF ComplaintsInv

(* A refund that writes the payment.                                       *)
LEMMA PaymentMoves ==
  ASSUME ComplaintsInv, NEW t \in Tickets, NEW to \in RefundPhases,
         Refunding(t, to), sale' \in Sale, UNCHANGED <<ticket, slaSweep>>,
         \A u \in Tickets \ {t} : ~HoldsPayment(u),
         to \in {"asking", "refused"} => sale'.payment = "REFUND_PENDING",
         RefundsAgree'
  PROVE  ComplaintsInv'
<1>1. /\ refunding' \in [Tickets -> RefundPhases]
      /\ \A u \in Tickets : refunding'[u] = IF u = t THEN to ELSE refunding[u]
  BY DEF ComplaintsInv, ComplaintsTypeOK, Refunding, RefundPhases
<1>2. ComplaintsTypeOK'
  BY <1>1 DEF ComplaintsInv, ComplaintsTypeOK, RefundPhases, Sale
<1>3. PaymentClaim'
  BY <1>1 DEF PaymentClaim, HoldsPayment
<1> QED BY <1>2, <1>3 DEF ComplaintsInv

(* What consumer, merchant and admin do to a ticket moves no money.        *)
LEMMA TicketStepsKeep ==
  ASSUME ComplaintsInv, NEW t \in Tickets,
         \/ OpenComplaint(t) \/ MerchantReplies(t) \/ AdminResolves(t) \/ AdminEscalates(t)
         \/ DeadlineComes(t)
  PROVE  ComplaintsInv'
<1>0. ticket \in [Tickets -> Ticket]
      /\ slaSweep \in [SlaSweeps -> [phase : SlaPhases, rows : SUBSET Tickets]]
  BY DEF ComplaintsInv, ComplaintsTypeOK, SlaPhases
<1>1. ASSUME NEW to \in TicketStatuses, TicketMoves(t, to) PROVE ComplaintsInv'
  <2>1. ticket' \in [Tickets -> Ticket]
    BY <1>0, <1>1 DEF TicketMoves, Ticket
  <2> QED BY <1>0, <1>1, <2>1, TicketsMove DEF TicketMoves
<1>2. CASE OpenComplaint(t)
  <2>1. ticket' \in [Tickets -> Ticket]
    BY <1>0, <1>2 DEF OpenComplaint, Ticket, TicketStatuses
  <2> QED BY <1>0, <1>2, <2>1, TicketsMove DEF OpenComplaint
<1>3. CASE DeadlineComes(t)
  <2>1. ticket' \in [Tickets -> Ticket]
    BY <1>0, <1>3 DEF DeadlineComes, Ticket
  <2> QED BY <1>0, <1>3, <2>1, TicketsMove DEF DeadlineComes
<1> QED BY <1>1, <1>2, <1>3 DEF MerchantReplies, AdminResolves, AdminEscalates, TicketStatuses

(* Nor does the SLA sweep.                                                 *)
LEMMA SweepStepsKeep ==
  ASSUME ComplaintsInv, NEW s \in SlaSweeps, SlaSweepSteps(s) PROVE ComplaintsInv'
<1>0. ticket \in [Tickets -> Ticket]
      /\ slaSweep \in [SlaSweeps -> [phase : SlaPhases, rows : SUBSET Tickets]]
  BY DEF ComplaintsInv, ComplaintsTypeOK, SlaPhases
<1>1. ASSUME NEW from, NEW to \in SlaPhases, NEW rows \in SUBSET Tickets,
             Selects(s, from, to, rows)
      PROVE  ComplaintsInv'
  <2>1. slaSweep' \in [SlaSweeps -> [phase : SlaPhases, rows : SUBSET Tickets]]
    BY <1>0, <1>1 DEF Selects
  <2> QED BY <1>0, <1>1, <2>1, TicketsMove DEF Selects
<1>2. CASE WarnSelects(s)
  <2> DEFINE rows == {t \in Tickets : /\ ticket[t].status \in Unanswered
                                      /\ ~ticket[t].warned
                                      /\ ticket[t].deadline = "near"}
  <2>1. rows \in SUBSET Tickets /\ Selects(s, "idle", "warning", rows)
    BY <1>2 DEF WarnSelects
  <2> HIDE DEF rows
  <2> QED BY <1>1, <2>1 DEF SlaPhases
<1>3. CASE EscalateSelects(s)
  <2>1. Breached \in SUBSET Tickets
    BY DEF Breached
  <2> QED BY <1>1, <1>3, <2>1 DEF EscalateSelects, SlaPhases
<1>4. CASE Warns(s) \/ EscalatesBreached(s)
  <2>1. ticket' \in [Tickets -> Ticket]
    <3>1. ASSUME NEW t \in Tickets
          PROVE  /\ \A b \in BOOLEAN : [ticket[t] EXCEPT !.warned = b] \in Ticket
                 /\ [ticket[t] EXCEPT !.status = "ESCALATED"] \in Ticket
                 /\ ticket[t] \in Ticket /\ ticket[t].warned \in BOOLEAN
      BY <1>0 DEF Ticket, TicketStatuses
    <3>2. CASE Warns(s)
      <4>1. \A t \in Tickets : (ticket[t].warned \/ t \in slaSweep[s].rows) \in BOOLEAN
        OBVIOUS
      <4> QED BY <1>0, <3>1, <3>2, <4>1, Zenon DEF Warns
    <3>3. CASE EscalatesBreached(s)
      BY <1>0, <3>1, <3>3 DEF EscalatesBreached
    <3> QED BY <1>4, <3>2, <3>3
  <2>2. slaSweep' \in [SlaSweeps -> [phase : SlaPhases, rows : SUBSET Tickets]]
    BY <1>0, <1>4 DEF Warns, EscalatesBreached, SlaPhases
  <2> QED BY <1>4, <2>1, <2>2, TicketsMove DEF Warns, EscalatesBreached
<1> QED BY <1>2, <1>3, <1>4 DEF SlaSweepSteps

(* Each step of adminRefund moves the payment with its claim.              *)
LEMMA RefundStepsKeep ==
  ASSUME ComplaintsInv, NEW t \in Tickets, AdminRefund(t) \/ RefundSteps(t) \/ RefundDies(t)
  PROVE  ComplaintsInv'
<1>0. /\ ticket \in [Tickets -> Ticket] /\ sale \in Sale
      /\ refunding \in [Tickets -> RefundPhases]
  BY DEF ComplaintsInv, ComplaintsTypeOK, Sale, RefundPhases
<1>a. {"idle", "claimed", "asking", "refused", "releasing"} = RefundPhases
  BY DEF RefundPhases
<1>1. CASE AdminRefund(t)
  <2>1. ticket' \in [Tickets -> Ticket]
    BY <1>0, <1>1 DEF AdminRefund, Ticket
  <2> QED BY <1>1, <1>a, <2>1, RefundMoves DEF AdminRefund
<1>2. CASE RefundClaimsPayment(t)
  <2>1. CASE sale.ended /\ sale.payment = "PAID"
    <3> DEFINE claimed == [sale EXCEPT !.payment = "REFUND_PENDING"]
    <3>1. /\ claimed \in Sale /\ claimed.payment = "REFUND_PENDING"
          /\ claimed.refunds = sale.refunds
          /\ sale' = claimed /\ Refunding(t, "asking")
      BY <1>0, <1>2, <2>1 DEF RefundClaimsPayment, Sale
    <3> HIDE DEF claimed
    <3>2. \A u \in Tickets : ~HoldsPayment(u)
      BY <2>1 DEF ComplaintsInv, PaymentClaim
    <3>3. RefundsAgree'
      BY <2>1, <3>1 DEF ComplaintsInv, RefundsAgree
    <3> QED BY <1>2, <1>a, <3>1, <3>2, <3>3, PaymentMoves DEF RefundClaimsPayment
  <2>2. CASE ~(sale.ended /\ sale.payment = "PAID")
    BY <1>0, <1>2, <1>a, <2>2, RefundMoves DEF RefundClaimsPayment
  <2> QED BY <2>1, <2>2
<1>3. CASE RefundMade(t)
  <2> DEFINE made == [sale EXCEPT !.payment = "REFUNDED", !.refunds = sale.refunds + 1]
  <2>1. /\ HoldsPayment(t) /\ sale.payment = "REFUND_PENDING" /\ sale.refunds = 0
        /\ \A u \in Tickets \ {t} : ~HoldsPayment(u)
    BY <1>3 DEF RefundMade, HoldsPayment, ComplaintsInv, PaymentClaim, RefundsAgree
  <2>2. 1 \in 0 .. Cardinality(Tickets) /\ sale.refunds + 1 = 1
    BY SomeTickets, <2>1
  <2>3. /\ made \in Sale /\ made.payment = "REFUNDED" /\ made.refunds = 1
        /\ sale' = made /\ Refunding(t, "idle")
    BY <1>0, <1>3, <2>1, <2>2 DEF RefundMade, Sale
  <2> HIDE DEF made
  <2>4. RefundsAgree'
    BY <2>3 DEF RefundsAgree
  <2> QED BY <1>3, <1>a, <2>1, <2>3, <2>4, PaymentMoves DEF RefundMade
<1>4. CASE RefundRefused(t)
  BY <1>0, <1>4, <1>a, RefundMoves DEF RefundRefused, HoldsPayment
<1>5. CASE RefundReleasesPayment(t)
  <2>1. CASE UNCHANGED sale
    BY <1>0, <1>5, <1>a, <2>1, RefundMoves DEF RefundReleasesPayment
  <2>2. CASE sale.payment = "REFUND_PENDING" /\ sale' = [sale EXCEPT !.payment = "PAID"]
    <3>1. \A u \in Tickets \ {t} : ~HoldsPayment(u)
      BY <1>5 DEF RefundReleasesPayment, HoldsPayment, ComplaintsInv, PaymentClaim
    <3>2. sale' \in Sale /\ sale'.payment = "PAID" /\ sale'.refunds = sale.refunds
      BY <1>0, <2>2 DEF Sale
    <3>3. RefundsAgree'
      BY <2>2, <3>2 DEF ComplaintsInv, RefundsAgree
    <3> QED BY <1>5, <1>a, <3>1, <3>2, <3>3, PaymentMoves DEF RefundReleasesPayment
  <2> QED BY <1>5, <2>1, <2>2 DEF RefundReleasesPayment
<1>6. CASE RefundReleasesTicket(t)
  <2>1. ticket' \in [Tickets -> Ticket]
    BY <1>0, <1>6 DEF RefundReleasesTicket, Ticket
  <2> QED BY <1>6, <1>a, <2>1, RefundMoves DEF RefundReleasesTicket
<1>7. CASE RefundDies(t)
  BY <1>0, <1>7, <1>a, RefundMoves DEF RefundDies
<1> QED BY <1>1, <1>2, <1>3, <1>4, <1>5, <1>6, <1>7 DEF RefundSteps

(* The invariant is inductive.                                             *)
LEMMA ComplaintsNext_Inv == ComplaintsInv /\ [ComplaintsNext]_complaintVars => ComplaintsInv'
<1> SUFFICES ASSUME ComplaintsInv, [ComplaintsNext]_complaintVars PROVE ComplaintsInv'
  OBVIOUS
<1>1. CASE UNCHANGED complaintVars
  BY <1>1 DEF complaintVars, ComplaintsInv, ComplaintsTypeOK, PaymentClaim, RefundsAgree,
     HoldsPayment
<1>2. CASE SaleEnds
  <2>1. /\ sale' = [sale EXCEPT !.ended = TRUE] /\ sale \in Sale
        /\ UNCHANGED <<ticket, refunding, slaSweep>>
    BY <1>2 DEF SaleEnds, ComplaintsInv, ComplaintsTypeOK, Sale
  <2>2. /\ sale' \in Sale /\ sale'.payment = sale.payment /\ sale'.refunds = sale.refunds
    BY <2>1 DEF Sale
  <2> QED BY <2>1, <2>2 DEF ComplaintsInv, ComplaintsTypeOK, PaymentClaim, RefundsAgree,
          HoldsPayment, Sale
<1> QED BY <1>1, <1>2, TicketStepsKeep, SweepStepsKeep, RefundStepsKeep
        DEF ComplaintsNext, ComplaintsNextAlive

-----------------------------------------------------------------------------
(* However many complaints, clicks, refusals, retries and crashes: the one *)
(* payment is refunded at most once (refundRedeemed claims it first).      *)
THEOREM RefundedOnce == ComplaintsSpec => []OneRefund
<1>1. ComplaintsInv => OneRefund
  BY DEF ComplaintsInv, RefundsAgree, OneRefund
<1> QED BY <1>1, ComplaintsInit_Inv, ComplaintsNext_Inv, PTL DEF ComplaintsSpec

-----------------------------------------------------------------------------
(* RedeemQueue                                                             *)

RedeemPhases == {"idle", "queueing", "queued", "fetching", "clearing", "cleared"}

RedeemCall == [phase : RedeemPhases, todo : SUBSET Pickups, seen : SUBSET Pickups]

(* Nothing is queued yet.                                                 *)
LEMMA RedeemInit_Types == RedeemInit => RedeemTypeOK
BY DEF RedeemInit, RedeemTypeOK, NoRedeemCall

(* A call that goes on with some of the reservations of this phone.        *)
LEMMA DoingTypes ==
  ASSUME RedeemTypeOK, NEW k \in Callers, NEW phase \in RedeemPhases,
         NEW todo \in SUBSET Pickups, Doing(k, phase, todo)
  PROVE  caller' \in [Callers -> RedeemCall]
<1> DEFINE to == IF todo = {} THEN NoRedeemCall
                 ELSE [phase |-> phase, todo |-> todo, seen |-> {}]
<1>1. to \in RedeemCall
  BY DEF NoRedeemCall, RedeemCall, RedeemPhases
<1>2. caller \in [Callers -> RedeemCall] /\ caller' = [caller EXCEPT ![k] = to]
  BY DEF RedeemTypeOK, Doing, RedeemCall, RedeemPhases
<1> HIDE DEF to
<1> QED
  BY <1>1, <1>2

(* Every write is of reservations of this phone.                           *)
LEMMA RedeemNext_Types == RedeemTypeOK /\ [RedeemNext]_redeemVars => RedeemTypeOK'
<1> SUFFICES ASSUME RedeemTypeOK, [RedeemNext]_redeemVars PROVE RedeemTypeOK'
  OBVIOUS
<1>1. /\ caller \in [Callers -> RedeemCall] /\ queue \subseteq Pickups
      /\ NoRedeemCall \in RedeemCall
      /\ bag \in [Pickups -> {"CONFIRMED", "REDEEMED", "NO_SHOW"}]
  BY DEF RedeemTypeOK, RedeemCall, RedeemPhases, NoRedeemCall
<1>2. ASSUME caller' \in [Callers -> RedeemCall], queue' \subseteq Pickups,
             bag' \in [Pickups -> {"CONFIRMED", "REDEEMED", "NO_SHOW"}]
      PROVE  RedeemTypeOK'
  BY <1>2 DEF RedeemTypeOK, RedeemCall, RedeemPhases
<1>3. ASSUME NEW k \in Callers, QueueReads(k)
      PROVE  RedeemTypeOK'
  <2> DEFINE to == [caller[k] EXCEPT !.phase = "queued", !.seen = queue]
  <2>1. to \in RedeemCall
    BY <1>1, <1>3 DEF RedeemCall, RedeemPhases
  <2>2. caller' = [caller EXCEPT ![k] = NoRedeemCall] \/ caller' = [caller EXCEPT ![k] = to]
    BY <1>1, <1>3 DEF QueueReads
  <2> HIDE DEF to
  <2> QED
    BY <1>1, <1>2, <1>3, <2>1, <2>2 DEF QueueReads
<1>4. ASSUME NEW k \in Callers, QueueWrites(k)
      PROVE  RedeemTypeOK'
  <2>1. caller[k].seen \subseteq Pickups /\ caller[k].todo \subseteq Pickups
    BY <1>1 DEF RedeemCall
  <2> QED
    BY <1>1, <1>2, <1>4, <2>1 DEF QueueWrites
<1>5. ASSUME NEW k \in Callers, ClearReads(k)
      PROVE  RedeemTypeOK'
  <2>1. PICK b \in caller[k].todo :
          IF b \in queue
          THEN caller' = [caller EXCEPT ![k] =
                 [phase |-> "cleared", todo |-> @.todo \ {b}, seen |-> queue \ {b}]]
          ELSE Doing(k, "clearing", caller[k].todo \ {b})
    BY <1>5 DEF ClearReads
  <2>2. caller[k].todo \ {b} \in SUBSET Pickups /\ queue \ {b} \in SUBSET Pickups
    BY <1>1 DEF RedeemCall
  <2> DEFINE to == [phase |-> "cleared", todo |-> caller[k].todo \ {b}, seen |-> queue \ {b}]
  <2>3. to \in RedeemCall
    BY <2>2 DEF RedeemCall, RedeemPhases
  <2>4. CASE b \in queue
    <3>1. caller' = [caller EXCEPT ![k] = to]
      BY <1>1, <2>1, <2>4
    <3> HIDE DEF to
    <3> QED
      BY <1>1, <1>2, <1>5, <2>3, <3>1 DEF ClearReads
  <2>5. CASE b \notin queue
    BY <1>1, <1>2, <1>5, <2>1, <2>2, <2>5, DoingTypes DEF ClearReads, RedeemPhases
  <2> QED
    BY <2>4, <2>5
<1>6. ASSUME NEW k \in Callers, ClearWrites(k)
      PROVE  RedeemTypeOK'
  <2>1. caller[k].seen \subseteq Pickups /\ caller[k].todo \in SUBSET Pickups
    BY <1>1 DEF RedeemCall
  <2> QED
    BY <1>1, <1>2, <1>6, <2>1, DoingTypes DEF ClearWrites, RedeemPhases
<1>7. ASSUME NEW k \in Screens, NEW b \in Pickups, Swipe(k, b) \/ ScreenReconciles(k, b)
      PROVE  RedeemTypeOK'
  <2>1. k \in Callers /\ {b} \in SUBSET Pickups
    BY DEF Callers
  <2>2. \E phase \in RedeemPhases : Doing(k, phase, {b})
    BY <1>7 DEF Swipe, ScreenReconciles, RedeemPhases
  <2>3. bag' \in [Pickups -> {"CONFIRMED", "REDEEMED", "NO_SHOW"}] /\ queue' = queue
    BY <1>1, <1>7 DEF Swipe, ScreenReconciles
  <2> QED
    BY <1>1, <1>2, <2>1, <2>2, <2>3, DoingTypes
<1>8. ASSUME NEW k \in Syncs, SyncLists(k) \/ SyncFetches(k) \/ SyncIsOffline(k)
      PROVE  RedeemTypeOK'
  <2>1. k \in Callers
    BY DEF Callers
  <2>2. Reconciled(caller[k].todo) \in SUBSET Pickups
    BY <1>1, <2>1 DEF Reconciled, RedeemCall
  <2>3. UNCHANGED <<queue, bag>>
    BY <1>8 DEF SyncLists, SyncFetches, SyncIsOffline
  <2>4. caller' \in [Callers -> RedeemCall]
    <3>1. CASE SyncLists(k)
      BY <1>1, <2>1, <3>1, DoingTypes DEF SyncLists, RedeemPhases
    <3>2. CASE SyncFetches(k)
      BY <1>1, <2>1, <2>2, <3>2, DoingTypes DEF SyncFetches, RedeemPhases
    <3>3. CASE SyncIsOffline(k)
      BY <1>1, <2>1, <3>3 DEF SyncIsOffline
    <3> QED
      BY <1>8, <3>1, <3>2, <3>3
  <2> QED
    BY <1>1, <1>2, <2>3, <2>4
<1>9. ASSUME NEW b \in Pickups, ServerEnds(b)
      PROVE  RedeemTypeOK'
  BY <1>1, <1>2, <1>9 DEF ServerEnds
<1>10. CASE UNCHANGED redeemVars
  BY <1>10 DEF redeemVars, RedeemTypeOK
<1> QED
  BY <1>3, <1>4, <1>5, <1>6, <1>7, <1>8, <1>9, <1>10 DEF RedeemNext, QueueSteps

-----------------------------------------------------------------------------
(* All of them side by side                                                *)

(* Each loop starts as it does alone.                                      *)
LEMMA LoopsStart ==
  BackgroundInit => OutboxInit /\ ComplaintsInit /\ RedeemInit /\ loop \in Loops
BY DEF BackgroundInit

(* A turn of one loop is a step of that one and none of the others.        *)
LEMMA LoopsStep ==
  [BackgroundNext]_backgroundVars =>
    /\ [OutboxNext]_outboxVars
    /\ [ComplaintsNext]_complaintVars
    /\ [RedeemNext]_redeemVars
    /\ UNCHANGED loop
BY Zenon DEF BackgroundNext, Turns, backgroundVars

(* Side by side, each of the three takes only steps of its own, so what is *)
(* proved of it alone holds of it here: the outbox keeps its promise.      *)
THEOREM OutboxRunsInBackground ==
  BackgroundSpec => OutboxSpec /\ [][ComplaintsNext]_complaintVars /\ [][RedeemNext]_redeemVars
BY LoopsStart, LoopsStep, PTL DEF BackgroundSpec, OutboxSpec

(* The outbox, the SLA sweep and the queue of redemptions keep their       *)
(* variables within their types.                                           *)
THEOREM BackgroundTypes == BackgroundSpec => []BackgroundTypeOK
<1>1. loop \in Loops /\ UNCHANGED loop => (loop \in Loops)'
  OBVIOUS
<1>2. loop \in Loops /\ OutboxInv /\ ComplaintsInv /\ RedeemTypeOK => BackgroundTypeOK
  BY Zenon DEF BackgroundTypeOK, OutboxInv, ComplaintsInv
<1> QED
  BY <1>1, <1>2, LoopsStart, LoopsStep, OutboxInit_Inv, OutboxNext_Inv, ComplaintsInit_Inv,
     ComplaintsNext_Inv, RedeemInit_Types, RedeemNext_Types, PTL DEF BackgroundSpec
=============================================================================
