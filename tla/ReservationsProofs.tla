------------------------- MODULE ReservationsProofs -------------------------
(***************************************************************************)
(* Proofs about Reservations for every catalogue, every provider and any   *)
(* number of crashes: types and bounds, the conservation of stock, the     *)
(* inventory it implements, and the payments and refunds.                  *)
(***************************************************************************)
EXTENDS Reservations, TotalsProofs

(* A reservation that joins those of S adds its own bags.                  *)
LEMMA BagsJoin ==
  ASSUME NEW S \in SUBSET Reservations, IsFiniteSet(UnitsIn(Qty, S)),
         NEW r \in Reservations, r \notin S
  PROVE  /\ IsFiniteSet(UnitsIn(Qty, S \cup {r}))
         /\ Total(Qty, S \cup {r}) = Total(Qty, S) + Qty[r]
<1>1. Qty[r] \in Nat
  BY CatalogueAssumption
<1> QED
  BY <1>1, TotalJoin

(* A reservation that leaves takes them away, and they were counted.       *)
LEMMA BagsLeave ==
  ASSUME NEW S \in SUBSET Reservations, IsFiniteSet(UnitsIn(Qty, S)), NEW r \in S
  PROVE  /\ IsFiniteSet(UnitsIn(Qty, S \ {r}))
         /\ Total(Qty, S \ {r}) = Total(Qty, S) - Qty[r]
         /\ Qty[r] <= Total(Qty, S)
<1>1. Qty[r] \in Nat
  BY CatalogueAssumption
<1>2. /\ IsFiniteSet(UnitsIn(Qty, S \ {r}))
      /\ Total(Qty, S) = Total(Qty, S \ {r}) + Qty[r]
      /\ Total(Qty, S \ {r}) \in Nat
  BY <1>1, TotalLeave
<1> QED
  BY <1>1, <1>2

(* The open fan-out of an offer: its candidates are reservations of that   *)
(* offer; those it has already moved in its buffer are locked and still    *)
(* have, for everybody else, the status it found; and its private counter  *)
(* is the bags of the promised reservations it has not moved.              *)
FanOK(o) ==
  LET f == fan[o]
      moved == f.expired \cup f.cancelled
  IN  /\ ~f.on => f = NoFan
      /\ f.pend \cup f.conf \cup f.failed \cup moved
           \subseteq On(o, Reservations)
      /\ f.expired \subseteq InStatus({"PENDING_PAYMENT"})
      /\ f.cancelled \subseteq InStatus({"CONFIRMED"})
      /\ f.pend \cap f.conf = {}
      /\ (f.pend \cup f.conf) \cap moved = {}
      /\ f.on => f.qty = Total(Qty, Promised(o) \ moved)

(* The bags of an offer's promised reservations are finitely many, and the *)
(* counter of the offer is their number.                                   *)
Counted(o) ==
  /\ IsFiniteSet(UnitsIn(Qty, Promised(o)))
  /\ qtyReserved[o] = Total(Qty, Promised(o))

(* The inductive invariant.                                                *)
StockOK == \A o \in Offers : Counted(o) /\ FanOK(o)
IInv == TypeOK /\ StockOK

-----------------------------------------------------------------------------
(* The transition tables, inverted                                         *)

(* The statuses the two transition tables speak about.                     *)
LEMMA Domains ==
  /\ DOMAIN ReservationTransitions =
       {"PENDING_PAYMENT", "CONFIRMED", "REDEEMED", "CANCELLED_BY_USER",
        "CANCELLED_BY_MERCHANT", "NO_SHOW", "EXPIRED"}
  /\ DOMAIN OfferTransitions =
       {"DRAFT", "SCHEDULED", "PUBLISHED", "SOLD_OUT", "CLOSED", "CANCELLED"}
BY DEF ReservationTransitions, OfferTransitions

(* allowedFrom() of the reservation table, target by target.               *)
LEMMA ResvFromIs ==
  /\ ResvFrom("CONFIRMED") = {"PENDING_PAYMENT"}
  /\ ResvFrom("EXPIRED") = {"PENDING_PAYMENT"}
  /\ ResvFrom("CANCELLED_BY_USER") = {"PENDING_PAYMENT", "CONFIRMED"}
  /\ ResvFrom("CANCELLED_BY_MERCHANT") = {"CONFIRMED"}
  /\ ResvFrom("REDEEMED") = {"CONFIRMED"}
  /\ ResvFrom("NO_SHOW") = {"CONFIRMED"}
<1>1. ASSUME NEW to
      PROVE  ResvFrom(to) =
               {from \in DOMAIN ReservationTransitions :
                  to \in ReservationTransitions[from]}
  BY DEF ResvFrom, AllowedFrom
<1>2. /\ ReservationTransitions["PENDING_PAYMENT"]
           = {"CONFIRMED", "EXPIRED", "CANCELLED_BY_USER"}
      /\ ReservationTransitions["CONFIRMED"]
           = {"REDEEMED", "CANCELLED_BY_USER", "CANCELLED_BY_MERCHANT",
              "NO_SHOW"}
      /\ ReservationTransitions["REDEEMED"] = {}
      /\ ReservationTransitions["CANCELLED_BY_USER"] = {}
      /\ ReservationTransitions["CANCELLED_BY_MERCHANT"] = {}
      /\ ReservationTransitions["NO_SHOW"] = {}
      /\ ReservationTransitions["EXPIRED"] = {}
  BY DEF ReservationTransitions
<1> QED
  BY <1>1, <1>2, Domains

-----------------------------------------------------------------------------
(* One reservation changes its status                                      *)

(* The promised set of every offer, after reservation r moved to status s. *)
LEMMA PromisedAfterMove ==
  ASSUME TypeOK, NEW r \in Reservations, NEW s \in ReservationStatuses,
         resv' = [resv EXCEPT ![r] = s], NEW o \in Offers
  PROVE  /\ resv[r] \in Held \cup Sold /\ s \in Held \cup Sold
              => Promised(o)' = Promised(o)
         /\ s \notin Held \cup Sold => Promised(o)' = Promised(o) \ {r}
         /\ s \in Held \cup Sold /\ OfferOf[r] = o
              => Promised(o)' = Promised(o) \cup {r}
         /\ OfferOf[r] # o => Promised(o)' = Promised(o)
<1>1. resv \in [Reservations -> ReservationStatuses]
  BY DEF TypeOK, RowTypes
<1>2. \A x \in Reservations : resv'[x] = IF x = r THEN s ELSE resv[x]
  BY <1>1
<1>3. Promised(o) =
        {x \in Reservations : resv[x] \in Held \cup Sold /\ OfferOf[x] = o}
  BY DEF Promised, On, InStatus
<1>4. Promised(o)' =
        {x \in Reservations : resv'[x] \in Held \cup Sold /\ OfferOf[x] = o}
  BY DEF Promised, On, InStatus
<1> QED
  BY <1>2, <1>3, <1>4

(* A fan-out does not notice a reservation whose rows it has not written,  *)
(* as long as the promised set of its offer stays.                         *)
LEMMA FanFrame ==
  ASSUME NEW o \in Offers, FanOK(o), UNCHANGED fan,
         fan[o].on => Promised(o)' = Promised(o),
         \A x \in fan[o].expired \cup fan[o].cancelled : resv'[x] = resv[x]
  PROVE  FanOK(o)'
<1>1. fan' = fan
  OBVIOUS
<1>2. CASE fan[o].on
  BY <1>1, <1>2 DEF FanOK, InStatus
<1>3. CASE ~fan[o].on
  BY <1>1, <1>3 DEF FanOK, InStatus
<1> QED
  BY <1>2, <1>3

(* What RowFree says: the fan-out of r's offer did not move r, and no      *)
(* other fan-out could.                                                    *)
LEMMA RowFreeEverywhere ==
  ASSUME StockOK, NEW r \in Reservations, RowFree(r), NEW o \in Offers
  PROVE  r \notin fan[o].expired \cup fan[o].cancelled
<1>1. fan[o].expired \cup fan[o].cancelled \subseteq On(o, Reservations)
  BY DEF StockOK, FanOK
<1>2. CASE OfferOf[r] = o
  BY <1>2 DEF RowFree
<1>3. CASE OfferOf[r] # o
  BY <1>1, <1>3 DEF On
<1> QED
  BY <1>2, <1>3

(* A held reservation is sold, or a pending one confirmed: the counter and *)
(* the promised sets stay.                                                 *)
LEMMA KeepsPromised ==
  ASSUME TypeOK, StockOK, NEW r \in Reservations, RowFree(r),
         NEW s \in Held \cup Sold, resv[r] \in Held,
         resv' = [resv EXCEPT ![r] = s], UNCHANGED <<qtyReserved, fan>>
  PROVE  StockOK'
<1>0. s \in ReservationStatuses
  BY Domains DEF ReservationStatuses, Held, Sold
<1> SUFFICES ASSUME NEW o \in Offers PROVE (Counted(o) /\ FanOK(o))'
  BY DEF StockOK
<1>1. Promised(o)' = Promised(o)
  BY <1>0, PromisedAfterMove
<1>2. Counted(o)'
  BY <1>1 DEF StockOK, Counted
<1>3. \A x \in fan[o].expired \cup fan[o].cancelled : resv'[x] = resv[x]
  BY RowFreeEverywhere DEF TypeOK, RowTypes
<1> QED
  BY <1>1, <1>2, <1>3, FanFrame DEF StockOK

(* A held reservation is freed and its bags released, while no fan-out of  *)
(* its offer is open.                                                      *)
LEMMA DropsPromised ==
  ASSUME TypeOK, StockOK, NEW r \in Reservations,
         OfferFree(OfferOf[r]), RowFree(r),
         NEW s \in Freed, resv[r] \in Held,
         resv' = [resv EXCEPT ![r] = s],
         Release(OfferOf[r], Qty[r]), UNCHANGED fan
  PROVE  /\ StockOK'
         /\ qtyReserved' = [qtyReserved EXCEPT ![OfferOf[r]] = @ - Qty[r]]
         /\ Qty[r] <= qtyReserved[OfferOf[r]]
<1>0. s \in ReservationStatuses /\ s \notin Held \cup Sold
  BY Domains DEF ReservationStatuses, Freed, Held, Sold
<1>1. r \in Promised(OfferOf[r]) /\ OfferOf[r] \in Offers
  BY CatalogueAssumption DEF Promised, On, InStatus
<1>2. Qty[r] <= qtyReserved[OfferOf[r]]
  <2>1. Promised(OfferOf[r]) \in SUBSET Reservations
    BY DEF Promised, On, InStatus
  <2> QED
    BY <1>1, <2>1, BagsLeave DEF StockOK, Counted
<1>3. qtyReserved' = [qtyReserved EXCEPT ![OfferOf[r]] = @ - Qty[r]]
  BY <1>1, <1>2, CatalogueAssumption DEF Release, TypeOK, OfferTypes
<1>4. ASSUME NEW o \in Offers PROVE (Counted(o) /\ FanOK(o))'
  <2>1. CASE o = OfferOf[r]
    <3>1. Promised(o)' = Promised(o) \ {r}
      BY <1>0, PromisedAfterMove
    <3>2. Promised(o) \in SUBSET Reservations
      BY DEF Promised, On, InStatus
    <3>3. /\ IsFiniteSet(UnitsIn(Qty, Promised(o) \ {r}))
          /\ Total(Qty, Promised(o) \ {r})
               = Total(Qty, Promised(o)) - Qty[r]
      BY <1>1, <2>1, <3>2, BagsLeave DEF StockOK, Counted
    <3>4. Counted(o)'
      BY <1>3, <2>1, <3>1, <3>3
      DEF StockOK, Counted, TypeOK, OfferTypes
    <3>5. \A x \in fan[o].expired \cup fan[o].cancelled : resv'[x] = resv[x]
      BY RowFreeEverywhere DEF TypeOK, RowTypes
    <3> QED
      BY <2>1, <3>4, <3>5, FanFrame DEF StockOK, OfferFree
  <2>2. CASE o # OfferOf[r]
    <3>1. Promised(o)' = Promised(o)
      BY <1>0, <2>2, PromisedAfterMove
    <3>2. qtyReserved'[o] = qtyReserved[o]
      BY <1>1, <1>3, <2>2 DEF TypeOK, OfferTypes
    <3>3. \A x \in fan[o].expired \cup fan[o].cancelled : resv'[x] = resv[x]
      BY RowFreeEverywhere DEF TypeOK, RowTypes
    <3> QED
      BY <3>1, <3>2, <3>3, FanFrame DEF StockOK, Counted
  <2> QED
    BY <2>1, <2>2
<1> QED
  BY <1>2, <1>3, <1>4 DEF StockOK

(* A new reservation claims its bags, while no fan-out of its offer is     *)
(* open.                                                                   *)
LEMMA AddsPromised ==
  ASSUME TypeOK, StockOK, NEW r \in Reservations,
         OfferFree(OfferOf[r]), resv[r] = "NONE",
         resv' = [resv EXCEPT ![r] = "PENDING_PAYMENT"],
         Claim(OfferOf[r], Qty[r]), UNCHANGED fan
  PROVE  StockOK'
<1>0. /\ "PENDING_PAYMENT" \in ReservationStatuses
      /\ "PENDING_PAYMENT" \in Held \cup Sold
      /\ "NONE" \notin Held \cup Sold
  BY Domains DEF ReservationStatuses, Held, Sold
<1>1. OfferOf[r] \in Offers
  BY CatalogueAssumption
<1>2. qtyReserved' = [qtyReserved EXCEPT ![OfferOf[r]] = @ + Qty[r]]
  BY DEF Claim
<1>3. ASSUME NEW o \in Offers
      PROVE  \A x \in fan[o].expired \cup fan[o].cancelled : resv'[x] = resv[x]
  <2>1. fan[o].expired \cup fan[o].cancelled
          \subseteq InStatus({"PENDING_PAYMENT", "CONFIRMED"})
    BY DEF StockOK, FanOK, InStatus
  <2> QED
    BY <2>1 DEF TypeOK, RowTypes, InStatus
<1>4. ASSUME NEW o \in Offers PROVE (Counted(o) /\ FanOK(o))'
  <2>1. CASE o = OfferOf[r]
    <3>1. Promised(o)' = Promised(o) \cup {r}
      BY <1>0, <2>1, PromisedAfterMove
    <3>2. Promised(o) \in SUBSET Reservations /\ r \notin Promised(o)
      BY <1>0 DEF Promised, On, InStatus
    <3>3. /\ IsFiniteSet(UnitsIn(Qty, Promised(o) \cup {r}))
          /\ Total(Qty, Promised(o) \cup {r})
               = Total(Qty, Promised(o)) + Qty[r]
      BY <3>2, BagsJoin DEF StockOK, Counted
    <3>4. Counted(o)'
      BY <1>2, <2>1, <3>1, <3>3
      DEF StockOK, Counted, TypeOK, OfferTypes
    <3> QED
      BY <1>3, <2>1, <3>4, FanFrame DEF StockOK, OfferFree
  <2>2. CASE o # OfferOf[r]
    <3>1. Promised(o)' = Promised(o)
      BY <1>0, <2>2, PromisedAfterMove
    <3>2. qtyReserved'[o] = qtyReserved[o]
      BY <1>1, <1>2, <2>2 DEF TypeOK, OfferTypes
    <3> QED
      BY <1>3, <3>1, <3>2, FanFrame DEF StockOK, Counted
  <2> QED
    BY <2>1, <2>2
<1> QED
  BY <1>4 DEF StockOK

(* A step that leaves the counters, the reservations and the fan-outs      *)
(* alone cannot disturb the stock.                                         *)
LEMMA StockFrame ==
  ASSUME StockOK, UNCHANGED <<qtyReserved, resv, fan>>
  PROVE  StockOK'
<1> SUFFICES ASSUME NEW o \in Offers PROVE (Counted(o) /\ FanOK(o))'
  BY DEF StockOK
<1>1. Promised(o)' = Promised(o)
  BY DEF Promised, On, InStatus
<1> QED
  BY <1>1, FanFrame DEF StockOK, Counted

-----------------------------------------------------------------------------
(* The fan-out                                                             *)

(* Only the fan-out of offer o moved, and it is fine.                      *)
LEMMA OnlyFanMoved ==
  ASSUME TypeOK, StockOK, NEW o \in Offers, NEW f \in FanRecord,
         fan' = [fan EXCEPT ![o] = f], UNCHANGED <<qtyReserved, resv>>,
         FanOK(o)'
  PROVE  StockOK'
<1> SUFFICES ASSUME NEW q \in Offers PROVE (Counted(q) /\ FanOK(q))'
  BY DEF StockOK
<1>1. Promised(q)' = Promised(q)
  BY DEF Promised, On, InStatus
<1>2. Counted(q)'
  BY <1>1 DEF StockOK, Counted
<1>3. CASE q # o
  <2>1. fan'[q] = fan[q]
    BY <1>3 DEF TypeOK, TaskTypes
  <2>2. FanOK(q) /\ resv' = resv
    BY DEF StockOK
  <2>3. FanOK(q)'
    BY <1>1, <2>1, <2>2 DEF FanOK, InStatus
  <2> QED
    BY <1>2, <2>3
<1> QED
  BY <1>2, <1>3

(* The fan-out opens: its candidates are in place, nothing has moved yet.  *)
LEMMA FanOutStartStock ==
  ASSUME IInv, NEW o \in Offers, FanOutStart(o)
  PROVE  /\ StockOK'
         /\ fan' \in [Offers -> FanRecord]
<1> DEFINE f == OpenFan(o)
<1>2. f \in FanRecord
  BY DEF OpenFan, FanRecord, On, InStatus, IInv, TypeOK, OfferTypes
<1>3. fan' = [fan EXCEPT ![o] = f] /\ UNCHANGED <<qtyReserved, resv>>
  BY DEF FanOutStart, offerVars, rowVars
<1>4. fan'[o] = f
  BY <1>3 DEF IInv, TypeOK, TaskTypes
<1> HIDE DEF f
<1>5. Promised(o)' = Promised(o)
  BY <1>3 DEF Promised, On, InStatus
<1>6. qtyReserved[o] = Total(Qty, Promised(o) \ ({} \cup {}))
  <2>1. Promised(o) \ ({} \cup {}) = Promised(o)
    OBVIOUS
  <2> QED
    BY <2>1 DEF IInv, StockOK, Counted
<1>7. FanOK(o)'
  BY <1>3, <1>4, <1>5, <1>6 DEF f, OpenFan, FanOK, On, InStatus
<1> QED
  BY <1>2, <1>3, <1>7, OnlyFanMoved DEF IInv, TypeOK, TaskTypes

(* A candidate read as PENDING_PAYMENT expires, or is skipped.            *)
LEMMA FanOutPendingStock ==
  ASSUME IInv, NEW o \in Offers, NEW r \in Reservations, FanOutPending(o, r)
  PROVE  /\ StockOK'
         /\ fan' \in [Offers -> FanRecord]
<1> DEFINE f == fan[o]
           g == fan'[o]
<1>0. fan \in [Offers -> FanRecord]
  BY DEF IInv, TypeOK, TaskTypes
<1>1. f \in FanRecord /\ r \in f.pend /\ UNCHANGED <<qtyReserved, resv>>
  BY <1>0 DEF FanOutPending, offerVars, rowVars
<1>2. f.on /\ OfferOf[r] = o
  <2>1. f.pend \subseteq On(o, Reservations) /\ (~f.on => f = NoFan)
    BY DEF IInv, StockOK, FanOK
  <2> QED
    BY <1>1, <2>1 DEF On, NoFan
<1>3. Qty[r] \in Nat
  BY CatalogueAssumption
<1>4. Promised(o)' = Promised(o)
  BY <1>1 DEF Promised, On, InStatus
<1>5. /\ g \in FanRecord
      /\ fan' = [fan EXCEPT ![o] = g]
      /\ g.on = f.on /\ g.pend = f.pend \ {r} /\ g.conf = f.conf
      /\ g.failed = f.failed \cup LiveIntent(r)
      /\ g.cancelled = f.cancelled
      /\ g.expired = f.expired \cup Movable(r, "EXPIRED")
      /\ g.qty = FanRelease(f.qty, r, "EXPIRED")
  <2> DEFINE h == ExpireInFan(f, r)
  <2>1. fan' = [fan EXCEPT ![o] = h]
    BY DEF FanOutPending
  <2>2. g = h
    BY <1>0, <2>1
  <2>3. /\ h.on = f.on /\ h.pend = f.pend \ {r} /\ h.conf = f.conf
        /\ h.failed = f.failed \cup LiveIntent(r)
        /\ h.cancelled = f.cancelled
        /\ h.expired = f.expired \cup Movable(r, "EXPIRED")
        /\ h.qty = FanRelease(f.qty, r, "EXPIRED")
    BY <1>1 DEF FanRecord, ExpireInFan
  <2>4. /\ FanRelease(f.qty, r, "EXPIRED") \in Nat
        /\ LiveIntent(r) \subseteq Reservations
        /\ Movable(r, "EXPIRED") \subseteq Reservations
    BY <1>1, <1>3 DEF FanRecord, FanRelease, LiveIntent, Movable
  <2>5. h \in FanRecord
    BY <1>1, <2>4 DEF FanRecord, ExpireInFan
  <2> QED
    BY <2>1, <2>2, <2>3, <2>5
<1> DEFINE moved == f.expired \cup f.cancelled
           movedNow == g.expired \cup g.cancelled
<1>6. g.qty = Total(Qty, Promised(o) \ movedNow)
  <2>1. f.qty = Total(Qty, Promised(o) \ moved)
    BY <1>2 DEF IInv, StockOK, FanOK
  <2>2. CASE resv[r] \in ResvFrom("EXPIRED")
    <3>1. r \in Promised(o) \ moved
      BY <1>1, <1>2, <2>2, ResvFromIs
      DEF IInv, StockOK, FanOK, Promised, On, InStatus, Held
    <3>2. Promised(o) \ movedNow = (Promised(o) \ moved) \ {r}
      BY <1>5, <2>2 DEF Movable
    <3>3. Promised(o) \ moved \in SUBSET Reservations
      BY DEF Promised, On, InStatus
    <3>4. IsFiniteSet(UnitsIn(Qty, Promised(o) \ moved))
      <4>1. Promised(o) \ moved \in SUBSET Promised(o)
        OBVIOUS
      <4> QED
        BY <4>1, TotalSubset DEF IInv, StockOK, Counted
    <3>5. /\ Total(Qty, (Promised(o) \ moved) \ {r}) = f.qty - Qty[r]
          /\ Qty[r] <= f.qty
      BY <2>1, <3>1, <3>3, <3>4, BagsLeave
    <3> QED
      BY <1>1, <1>3, <1>5, <2>2, <3>2, <3>5 DEF FanRecord, FanRelease
  <2>3. CASE resv[r] \notin ResvFrom("EXPIRED")
    BY <1>5, <2>1, <2>3 DEF Movable, FanRelease
  <2> QED
    BY <2>2, <2>3
<1>7. FanOK(o)'
  <2>1. FanOK(o)
    BY DEF IInv, StockOK
  <2>2. LiveIntent(r) \subseteq {r} /\ Movable(r, "EXPIRED") \subseteq {r}
    BY DEF LiveIntent, Movable
  <2>3. g.expired \subseteq InStatus({"PENDING_PAYMENT"})
    BY <1>5, <2>1, ResvFromIs DEF FanOK, Movable, InStatus
  <2> QED
    BY <1>1, <1>2, <1>4, <1>5, <1>6, <2>1, <2>2, <2>3 DEF FanOK, On, InStatus
<1> QED
  BY <1>1, <1>5, <1>7, OnlyFanMoved DEF IInv, TypeOK, TaskTypes

(* A candidate read as CONFIRMED is cancelled, or is skipped.             *)
LEMMA FanOutConfirmedStock ==
  ASSUME IInv, NEW o \in Offers, NEW r \in Reservations, FanOutConfirmed(o, r)
  PROVE  /\ StockOK'
         /\ fan' \in [Offers -> FanRecord]
<1> DEFINE f == fan[o]
           g == fan'[o]
<1>0. fan \in [Offers -> FanRecord]
  BY DEF IInv, TypeOK, TaskTypes
<1>1. f \in FanRecord /\ r \in f.conf /\ UNCHANGED <<qtyReserved, resv>>
  BY <1>0 DEF FanOutConfirmed, offerVars, rowVars
<1>2. f.on /\ OfferOf[r] = o
  <2>1. f.conf \subseteq On(o, Reservations) /\ (~f.on => f = NoFan)
    BY DEF IInv, StockOK, FanOK
  <2> QED
    BY <1>1, <2>1 DEF On, NoFan
<1>3. Qty[r] \in Nat
  BY CatalogueAssumption
<1>4. Promised(o)' = Promised(o)
  BY <1>1 DEF Promised, On, InStatus
<1>5. /\ g \in FanRecord
      /\ fan' = [fan EXCEPT ![o] = g]
      /\ g.on = f.on /\ g.conf = f.conf \ {r} /\ g.pend = f.pend
      /\ g.failed = f.failed \cup LiveIntent(r)
      /\ g.expired = f.expired
      /\ g.cancelled = f.cancelled \cup Movable(r, "CANCELLED_BY_MERCHANT")
      /\ g.qty = FanRelease(f.qty, r, "CANCELLED_BY_MERCHANT")
  <2> DEFINE h == CancelInFan(f, r)
  <2>1. fan' = [fan EXCEPT ![o] = h]
    BY DEF FanOutConfirmed
  <2>2. g = h
    BY <1>0, <2>1
  <2>3. /\ h.on = f.on /\ h.conf = f.conf \ {r} /\ h.pend = f.pend
        /\ h.failed = f.failed \cup LiveIntent(r)
        /\ h.expired = f.expired
        /\ h.cancelled = f.cancelled \cup Movable(r, "CANCELLED_BY_MERCHANT")
        /\ h.qty = FanRelease(f.qty, r, "CANCELLED_BY_MERCHANT")
    BY <1>1 DEF FanRecord, CancelInFan
  <2>4. /\ FanRelease(f.qty, r, "CANCELLED_BY_MERCHANT") \in Nat
        /\ LiveIntent(r) \subseteq Reservations
        /\ Movable(r, "CANCELLED_BY_MERCHANT") \subseteq Reservations
    BY <1>1, <1>3 DEF FanRecord, FanRelease, LiveIntent, Movable
  <2>5. h \in FanRecord
    BY <1>1, <2>4 DEF FanRecord, CancelInFan
  <2> QED
    BY <2>1, <2>2, <2>3, <2>5
<1> DEFINE moved == f.expired \cup f.cancelled
           movedNow == g.expired \cup g.cancelled
<1>6. g.qty = Total(Qty, Promised(o) \ movedNow)
  <2>1. f.qty = Total(Qty, Promised(o) \ moved)
    BY <1>2 DEF IInv, StockOK, FanOK
  <2>2. CASE resv[r] \in ResvFrom("CANCELLED_BY_MERCHANT")
    <3>1. r \in Promised(o) \ moved
      BY <1>1, <1>2, <2>2, ResvFromIs
      DEF IInv, StockOK, FanOK, Promised, On, InStatus, Held
    <3>2. Promised(o) \ movedNow = (Promised(o) \ moved) \ {r}
      BY <1>5, <2>2 DEF Movable
    <3>3. Promised(o) \ moved \in SUBSET Reservations
      BY DEF Promised, On, InStatus
    <3>4. IsFiniteSet(UnitsIn(Qty, Promised(o) \ moved))
      <4>1. Promised(o) \ moved \in SUBSET Promised(o)
        OBVIOUS
      <4> QED
        BY <4>1, TotalSubset DEF IInv, StockOK, Counted
    <3>5. /\ Total(Qty, (Promised(o) \ moved) \ {r}) = f.qty - Qty[r]
          /\ Qty[r] <= f.qty
      BY <2>1, <3>1, <3>3, <3>4, BagsLeave
    <3> QED
      BY <1>1, <1>3, <1>5, <2>2, <3>2, <3>5 DEF FanRecord, FanRelease
  <2>3. CASE resv[r] \notin ResvFrom("CANCELLED_BY_MERCHANT")
    BY <1>5, <2>1, <2>3 DEF Movable, FanRelease
  <2> QED
    BY <2>2, <2>3
<1>7. FanOK(o)'
  <2>1. FanOK(o)
    BY DEF IInv, StockOK
  <2>2. /\ LiveIntent(r) \subseteq {r}
        /\ Movable(r, "CANCELLED_BY_MERCHANT") \subseteq {r}
    BY DEF LiveIntent, Movable
  <2>3. g.cancelled \subseteq InStatus({"CONFIRMED"})
    BY <1>5, <2>1, ResvFromIs DEF FanOK, Movable, InStatus
  <2> QED
    BY <1>1, <1>2, <1>4, <1>5, <1>6, <2>1, <2>2, <2>3 DEF FanOK, On, InStatus
<1> QED
  BY <1>1, <1>5, <1>7, OnlyFanMoved DEF IInv, TypeOK, TaskTypes

(* The closed fan-out is a fan-out record.                                 *)
LEMMA NoFanType == NoFan \in FanRecord
BY DEF NoFan, FanRecord

(* A closed fan-out satisfies its part of the invariant.                   *)
LEMMA NoFanOK ==
  ASSUME NEW o \in Offers, fan'[o] = NoFan
  PROVE  FanOK(o)'
BY DEF FanOK, NoFan

(* The commit moves exactly the bags its private counter gave up.          *)
LEMMA FanOutCommitStock ==
  ASSUME IInv, NEW o \in Offers, FanOutCommit(o)
  PROVE  /\ StockOK'
         /\ fan' \in [Offers -> FanRecord]
         /\ qtyReserved' = [qtyReserved EXCEPT ![o] = fan[o].qty]
         /\ fan[o].qty \in Nat /\ fan[o].qty <= qtyReserved[o]
<1> DEFINE f == fan[o]
           moved == f.expired \cup f.cancelled
<1>1. /\ fan \in [Offers -> FanRecord]
      /\ qtyReserved \in [Offers -> Nat]
      /\ resv \in [Reservations -> ReservationStatuses]
      /\ f \in FanRecord
  BY DEF IInv, TypeOK, OfferTypes, RowTypes, TaskTypes
<1>2. /\ f.on
      /\ qtyReserved' = [qtyReserved EXCEPT ![o] = f.qty]
      /\ fan' = [fan EXCEPT ![o] = NoFan]
      /\ resv' = [r \in Reservations |->
                    CASE r \in f.expired   -> "EXPIRED"
                      [] r \in f.cancelled -> "CANCELLED_BY_MERCHANT"
                      [] OTHER             -> resv[r]]
  BY DEF FanOutCommit
<1>3. \A r \in Reservations :
        /\ r \in moved => resv'[r] \in {"EXPIRED", "CANCELLED_BY_MERCHANT"}
        /\ r \notin moved => resv'[r] = resv[r]
  BY <1>2
<1>4. /\ moved \subseteq On(o, Reservations)
      /\ f.qty = Total(Qty, Promised(o) \ moved)
  BY <1>2 DEF IInv, StockOK, FanOK
<1>5. ASSUME NEW q \in Offers
      PROVE  Promised(q)' = IF q = o THEN Promised(q) \ moved ELSE Promised(q)
  <2>1. Promised(q)' =
          {r \in Reservations : resv'[r] \in Held \cup Sold /\ OfferOf[r] = q}
    BY DEF Promised, On, InStatus
  <2>2. Promised(q) =
          {r \in Reservations : resv[r] \in Held \cup Sold /\ OfferOf[r] = q}
    BY DEF Promised, On, InStatus
  <2>3. \A r \in moved : r \in Reservations /\ OfferOf[r] = o
    BY <1>4 DEF On
  <2>4. {"EXPIRED", "CANCELLED_BY_MERCHANT"} \cap (Held \cup Sold) = {}
    BY DEF Held, Sold
  <2> QED
    BY <1>3, <2>1, <2>2, <2>3, <2>4
<1>6. /\ IsFiniteSet(UnitsIn(Qty, Promised(o) \ moved))
      /\ Total(Qty, Promised(o) \ moved) <= qtyReserved[o]
  <2>1. Counted(o) /\ Promised(o) \in SUBSET Reservations
    BY DEF IInv, StockOK, Promised, On, InStatus
  <2>2. Promised(o) \ moved \in SUBSET Promised(o)
    OBVIOUS
  <2> QED
    BY <2>1, <2>2, TotalSubset DEF Counted
<1>7. ASSUME NEW q \in Offers PROVE (Counted(q) /\ FanOK(q))'
  <2>1. CASE q = o
    <3>1. Counted(q)'
      BY <1>1, <1>2, <1>4, <1>5, <1>6, <2>1 DEF Counted
    <3>2. fan'[q] = NoFan
      BY <1>1, <1>2, <2>1
    <3>3. FanOK(q)'
      BY <3>2, NoFanOK
    <3> QED
      BY <3>1, <3>3
  <2>2. CASE q # o
    <3>1. qtyReserved'[q] = qtyReserved[q] /\ fan'[q] = fan[q]
      BY <1>1, <1>2, <2>2
    <3>2. Counted(q)'
      BY <1>5, <2>2, <3>1 DEF IInv, StockOK, Counted
    <3>3. FanOK(q)
      BY DEF IInv, StockOK
    <3>4. \A r \in fan[q].expired \cup fan[q].cancelled :
            r \in Reservations /\ resv'[r] = resv[r]
      BY <1>3, <1>4, <2>2, <3>3 DEF FanOK, On
    <3>5. FanOK(q)'
      BY <1>5, <2>2, <3>1, <3>3, <3>4 DEF FanOK, InStatus
    <3> QED
      BY <3>2, <3>5
  <2> QED
    BY <2>1, <2>2
<1>8. f.qty \in Nat
  BY <1>1 DEF FanRecord
<1>9. fan' \in [Offers -> FanRecord]
  BY <1>1, <1>2, NoFanType
<1> QED
  BY <1>2, <1>4, <1>6, <1>7, <1>8, <1>9 DEF StockOK

(* A fan-out that rolls back leaves no trace.                              *)
LEMMA FanOutDiesStock ==
  ASSUME IInv, NEW o \in Offers, FanOutDies(o)
  PROVE  /\ StockOK'
         /\ fan' \in [Offers -> FanRecord]
<1>1. /\ fan \in [Offers -> FanRecord]
      /\ fan' = [fan EXCEPT ![o] = NoFan]
      /\ UNCHANGED <<qtyReserved, resv>>
  BY DEF FanOutDies, offerVars, rowVars, IInv, TypeOK, TaskTypes
<1>2. fan'[o] = NoFan
  BY <1>1
<1>3. FanOK(o)'
  BY <1>2, NoFanOK
<1> QED
  BY <1>1, <1>3, NoFanType, OnlyFanMoved DEF IInv, TypeOK, TaskTypes

-----------------------------------------------------------------------------
(* Steps that expire, settle or cancel a reservation                       *)

(* What the types say of one reservation and its offer.                    *)
LEMMA RowFacts ==
  ASSUME TypeOK, NEW r \in Reservations
  PROVE  /\ OfferOf[r] \in Offers
         /\ Qty[r] \in Nat \ {0}
         /\ qtyReserved[OfferOf[r]] \in Nat
         /\ resv[r] \in ReservationStatuses
BY CatalogueAssumption DEF TypeOK, OfferTypes, RowTypes

(* The failure branch of settle and the compensation of a failed intent    *)
(* release the bags exactly when they expire the reservation.              *)
LEMMA ExpireAndReleaseStock ==
  ASSUME TypeOK, StockOK, NEW r \in Reservations, RowFree(r),
         ExpireAndRelease(r), UNCHANGED fan
  PROVE  StockOK'
<1>1. CASE pay[r] \in Live /\ resv[r] \in ResvFrom("EXPIRED")
  <2>1. /\ OfferFree(OfferOf[r])
        /\ resv' = [resv EXCEPT ![r] = "EXPIRED"]
        /\ Release(OfferOf[r], Qty[r])
    BY <1>1 DEF ExpireAndRelease
  <2>2. resv[r] \in Held /\ "EXPIRED" \in Freed
    BY <1>1, ResvFromIs DEF Held, Freed
  <2> QED
    BY <2>1, <2>2, DropsPromised
<1>2. CASE ~(pay[r] \in Live /\ resv[r] \in ResvFrom("EXPIRED"))
  <2>1. UNCHANGED <<qtyReserved, resv, fan>>
    BY <1>2 DEF ExpireAndRelease
  <2> QED
    BY <2>1, StockFrame
<1> QED
  BY <1>1, <1>2

(* Neither outcome of settle() loses or invents a bag.                     *)
LEMMA SettleStock ==
  ASSUME TypeOK, StockOK, NEW r \in Reservations, NEW answer,
         Settle(r, answer), UNCHANGED fan
  PROVE  StockOK'
<1>1. RowFree(r)
  BY DEF Settle
<1>2. CASE answer # "paid"
  BY <1>1, <1>2, ExpireAndReleaseStock DEF Settle
<1>3. CASE answer = "paid"
  <2>1. SettleSuccess(r)
    BY <1>3 DEF Settle
  <2>2. CASE pay[r] \in Live /\ resv[r] \in ResvFrom("CONFIRMED")
    <3>1. resv' = [resv EXCEPT ![r] = "CONFIRMED"] /\ UNCHANGED qtyReserved
      BY <2>1, <2>2 DEF SettleSuccess
    <3>2. resv[r] \in Held /\ "CONFIRMED" \in Held \cup Sold
      BY <2>2, ResvFromIs DEF Held
    <3> QED
      BY <1>1, <3>1, <3>2, KeepsPromised
  <2>3. CASE ~(pay[r] \in Live /\ resv[r] \in ResvFrom("CONFIRMED"))
    <3>1. UNCHANGED <<qtyReserved, resv, fan>>
      BY <2>1, <2>3 DEF SettleSuccess
    <3> QED
      BY <3>1, StockFrame
  <2> QED
    BY <2>2, <2>3
<1> QED
  BY <1>2, <1>3

(* A consumer cancel frees the bags of the reservation it moves.           *)
LEMMA CancelStock ==
  ASSUME TypeOK, StockOK, NEW r \in Reservations, Cancel(r)
  PROVE  StockOK'
<1>1. resv[r] \in Held /\ "CANCELLED_BY_USER" \in Freed
  BY ResvFromIs DEF Cancel, Held, Freed
<1>2. /\ OfferFree(OfferOf[r]) /\ RowFree(r)
      /\ resv' = [resv EXCEPT ![r] = "CANCELLED_BY_USER"]
      /\ Release(OfferOf[r], Qty[r]) /\ UNCHANGED fan
  BY DEF Cancel, offerTasks
<1> QED
  BY <1>1, <1>2, DropsPromised

(* A redeem, won or lost, keeps the bags promised.                         *)
LEMMA RedeemCommitsStock ==
  ASSUME TypeOK, StockOK, NEW r \in Reservations, NEW actor,
         RedeemCommits(r, actor)
  PROVE  StockOK'
<1>1. RowFree(r) /\ UNCHANGED <<qtyReserved, fan>>
  BY DEF RedeemCommits, offerTasks
<1>2. CASE resv[r] \in ResvFrom("REDEEMED")
  <2>1. resv' = [resv EXCEPT ![r] = "REDEEMED"]
    BY <1>2 DEF RedeemCommits
  <2>2. resv[r] \in Held /\ "REDEEMED" \in Held \cup Sold
    BY <1>2, ResvFromIs DEF Held, Sold
  <2> QED
    BY <1>1, <2>1, <2>2, KeepsPromised
<1>3. CASE resv[r] \notin ResvFrom("REDEEMED")
  <2>1. UNCHANGED resv
    BY <1>3 DEF RedeemCommits
  <2> QED
    BY <1>1, <2>1, StockFrame
<1> QED
  BY <1>2, <1>3

(* A no-show keeps the bags promised: they were cooked for nobody.         *)
LEMMA NoShowStock ==
  ASSUME TypeOK, StockOK, NEW r \in Reservations, NoShow(r)
  PROVE  StockOK'
<1>1. resv[r] \in Held /\ "NO_SHOW" \in Held \cup Sold
  BY ResvFromIs DEF NoShow, Held, Sold
<1>2. /\ RowFree(r) /\ resv' = [resv EXCEPT ![r] = "NO_SHOW"]
      /\ UNCHANGED <<qtyReserved, fan>>
  BY DEF NoShow, offerVars, handlerVars, offerTasks
<1> QED
  BY <1>1, <1>2, KeepsPromised

-----------------------------------------------------------------------------
(* Types                                                                   *)

(* Every status an action writes belongs to its type.                      *)
LEMMA StatusMembers ==
  /\ {"NONE", "PENDING_PAYMENT", "CONFIRMED", "REDEEMED", "CANCELLED_BY_USER",
      "CANCELLED_BY_MERCHANT", "NO_SHOW", "EXPIRED"}
       \subseteq ReservationStatuses
  /\ {"NONE", "INTENT", "PAID", "FAILED", "REFUND_PENDING", "REFUNDED"}
       \subseteq PaymentStatuses
  /\ {"PUBLISHED", "SCHEDULED", "SOLD_OUT", "CLOSED", "CANCELLED", "DRAFT"}
       = DOMAIN OfferTransitions
BY Domains DEF ReservationStatuses, PaymentStatuses, Live

(* The guarded claim never takes the counter above the total.              *)
LEMMA ClaimTypes ==
  ASSUME OfferTypes, NEW r \in Reservations,
         Claimable(OfferOf[r], Qty[r]), Claim(OfferOf[r], Qty[r]),
         UNCHANGED qtyRedeemed
  PROVE  OfferTypes'
<1>1. /\ OfferOf[r] \in Offers /\ Qty[r] \in Nat
      /\ \A o \in Offers : QtyTotal[o] \in Nat
  BY CatalogueAssumption
<1>2. offerStatus' \in [Offers -> DOMAIN OfferTransitions]
  BY <1>1, StatusMembers DEF OfferTypes, Claim
<1>3. qtyReserved' \in [Offers -> Nat]
  BY <1>1 DEF OfferTypes, Claim
<1>4. \A o \in Offers : qtyReserved'[o] <= QtyTotal[o]
  BY <1>1 DEF OfferTypes, Claim, Claimable
<1> QED
  BY <1>2, <1>3, <1>4 DEF OfferTypes

(* The guarded release never takes the counter below zero.                 *)
LEMMA ReleaseTypes ==
  ASSUME OfferTypes, NEW r \in Reservations, Release(OfferOf[r], Qty[r]),
         UNCHANGED qtyRedeemed
  PROVE  OfferTypes'
<1>1. /\ OfferOf[r] \in Offers /\ Qty[r] \in Nat
      /\ \A o \in Offers : QtyTotal[o] \in Nat
  BY CatalogueAssumption
<1>2. offerStatus' \in [Offers -> DOMAIN OfferTransitions]
  BY <1>1, StatusMembers DEF OfferTypes, Release
<1>3. /\ qtyReserved' \in [Offers -> Nat]
      /\ \A o \in Offers : qtyReserved'[o] <= qtyReserved[o]
  BY <1>1 DEF OfferTypes, Release
<1>4. \A o \in Offers : qtyReserved'[o] <= QtyTotal[o]
  BY <1>1, <1>3 DEF OfferTypes
<1> QED
  BY <1>2, <1>3, <1>4 DEF OfferTypes

(* Expire-and-release keeps the types of the rows it writes.               *)
LEMMA ExpireAndReleaseTypes ==
  ASSUME OfferTypes, RowTypes, NEW r \in Reservations, ExpireAndRelease(r),
         UNCHANGED <<qtyRedeemed, refundRows>>
  PROVE  OfferTypes' /\ RowTypes'
<1>1. RowTypes'
  BY StatusMembers DEF RowTypes, ExpireAndRelease
<1>2. CASE Release(OfferOf[r], Qty[r])
  BY <1>1, <1>2, ReleaseTypes
<1>3. CASE UNCHANGED <<qtyReserved, offerStatus>>
  BY <1>1, <1>3 DEF OfferTypes
<1> QED
  BY <1>2, <1>3 DEF ExpireAndRelease

(* So does settle(), whatever the answer.                                  *)
LEMMA SettleTypes ==
  ASSUME OfferTypes, RowTypes, NEW r \in Reservations, NEW answer,
         Settle(r, answer), UNCHANGED <<qtyRedeemed, refundRows>>
  PROVE  OfferTypes' /\ RowTypes'
<1>1. CASE answer = "paid"
  <2>1. SettleSuccess(r)
    BY <1>1 DEF Settle
  <2>2. RowTypes'
    BY <2>1, StatusMembers DEF RowTypes, SettleSuccess
  <2>3. OfferTypes'
    BY <2>1 DEF OfferTypes, SettleSuccess
  <2> QED
    BY <2>2, <2>3
<1>2. CASE answer # "paid"
  BY <1>2, ExpireAndReleaseTypes DEF Settle
<1> QED
  BY <1>1, <1>2

(* Every reservation step keeps the types.                                 *)
LEMMA ReservationStepTypes ==
  ASSUME TypeOK, NEW r \in Reservations, ReservationStep(r)
  PROVE  TypeOK'
<1> USE DEF offerVars, rowVars, providerVars, handlerVars, offerTasks, worldVars
<1>0. /\ OfferTypes /\ RowTypes /\ ProviderTypes
      /\ HandlerTypes /\ TaskTypes /\ WorldTypes
  BY DEF TypeOK
<1> SUFFICES /\ OfferTypes' /\ RowTypes' /\ ProviderTypes'
             /\ HandlerTypes' /\ TaskTypes' /\ WorldTypes'
  BY DEF TypeOK
<1>1. CASE CreateReservation(r)
  <2>1. OfferTypes'
    BY <1>0, <1>1, ClaimTypes DEF CreateReservation
  <2>2. RowTypes' /\ HandlerTypes'
    BY <1>0, <1>1, StatusMembers DEF CreateReservation, RowTypes, HandlerTypes
  <2>3. ProviderTypes' /\ TaskTypes' /\ WorldTypes'
    BY <1>0, <1>1 DEF CreateReservation, ProviderTypes, TaskTypes, WorldTypes
  <2> QED
    BY <2>1, <2>2, <2>3
<1>2. CASE CompensateFailedIntent(r)
  <2>1. OfferTypes' /\ RowTypes'
    BY <1>0, <1>2, ExpireAndReleaseTypes DEF CompensateFailedIntent
  <2>2. HandlerTypes'
    BY <1>0, <1>2 DEF CompensateFailedIntent, HandlerTypes
  <2>3. ProviderTypes' /\ TaskTypes' /\ WorldTypes'
    BY <1>0, <1>2
    DEF CompensateFailedIntent, ProviderTypes, TaskTypes, WorldTypes
  <2> QED
    BY <2>1, <2>2, <2>3
<1>3. CASE WebhookSettles(r)
  <2>1. OfferTypes' /\ RowTypes'
    BY <1>0, <1>3, SettleTypes DEF WebhookSettles
  <2>2. HandlerTypes'
    BY <1>0, <1>3 DEF WebhookSettles, HandlerTypes
  <2>3. ProviderTypes' /\ TaskTypes' /\ WorldTypes'
    BY <1>0, <1>3 DEF WebhookSettles, ProviderTypes, TaskTypes, WorldTypes
  <2> QED
    BY <2>1, <2>2, <2>3
<1>4. CASE SweepSettles(r)
  <2>1. OfferTypes' /\ RowTypes'
    BY <1>0, <1>4, SettleTypes DEF SweepSettles
  <2>2. HandlerTypes'
    BY <1>0, <1>4 DEF SweepSettles, HandlerTypes
  <2>3. ProviderTypes' /\ TaskTypes' /\ WorldTypes'
    BY <1>0, <1>4 DEF SweepSettles, ProviderTypes, TaskTypes, WorldTypes
  <2> QED
    BY <2>1, <2>2, <2>3
<1>5. CASE Cancel(r)
  <2>1. OfferTypes'
    BY <1>0, <1>5, ReleaseTypes DEF Cancel
  <2>2. RowTypes' /\ HandlerTypes'
    BY <1>0, <1>5, StatusMembers
    DEF Cancel, CancelledPayment, RefundOwed, RowTypes, HandlerTypes
  <2>3. ProviderTypes' /\ TaskTypes' /\ WorldTypes'
    BY <1>0, <1>5 DEF Cancel, ProviderTypes, TaskTypes, WorldTypes
  <2> QED
    BY <2>1, <2>2, <2>3
<1>6. CASE \E actor \in Actors : RedeemChecks(r, actor)
  <2> SUFFICES ASSUME NEW actor \in Actors, RedeemChecks(r, actor)
               PROVE  /\ OfferTypes' /\ RowTypes' /\ ProviderTypes'
                      /\ HandlerTypes' /\ TaskTypes' /\ WorldTypes'
    BY <1>6
  <2>1. HandlerTypes'
    BY <1>0 DEF RedeemChecks, HandlerTypes
  <2>2. OfferTypes' /\ RowTypes' /\ ProviderTypes' /\ TaskTypes' /\ WorldTypes'
    BY <1>0 DEF RedeemChecks, OfferTypes, RowTypes, ProviderTypes, TaskTypes,
                WorldTypes
  <2> QED
    BY <2>1, <2>2
<1>7. CASE \E actor \in Actors : RedeemCommits(r, actor)
  <2> SUFFICES ASSUME NEW actor \in Actors, RedeemCommits(r, actor)
               PROVE  /\ OfferTypes' /\ RowTypes' /\ ProviderTypes'
                      /\ HandlerTypes' /\ TaskTypes' /\ WorldTypes'
    BY <1>7
  <2>1. OfferTypes' /\ RowTypes'
    BY <1>0, RowFacts, StatusMembers, CatalogueAssumption
    DEF RedeemCommits, OfferTypes, RowTypes
  <2>2. HandlerTypes'
    BY <1>0 DEF RedeemCommits, HandlerTypes
  <2>3. ProviderTypes' /\ TaskTypes' /\ WorldTypes'
    BY <1>0 DEF RedeemCommits, ProviderTypes, TaskTypes, WorldTypes
  <2> QED
    BY <2>1, <2>2, <2>3
<1>8. CASE CreateIntent(r)
  <2>1. /\ ProviderTypes'
        /\ HandlerTypes'
    BY <1>0, <1>8
    DEF CreateIntent, ProviderTypes, HandlerTypes
  <2>2. OfferTypes' /\ RowTypes' /\ TaskTypes' /\ WorldTypes'
    BY <1>0, <1>8 DEF CreateIntent, OfferTypes, RowTypes, TaskTypes, WorldTypes
  <2> QED
    BY <2>1, <2>2
<1>9. CASE CreateIntentThrows(r)
  <2>1. /\ ProviderTypes'
        /\ HandlerTypes'
    BY <1>0, <1>9
    DEF CreateIntentThrows, ProviderTypes, HandlerTypes
  <2>2. OfferTypes' /\ RowTypes' /\ TaskTypes' /\ WorldTypes'
    BY <1>0, <1>9
    DEF CreateIntentThrows, OfferTypes, RowTypes, TaskTypes, WorldTypes
  <2> QED
    BY <2>1, <2>2
<1>10. CASE ProviderFinishes(r)
  <2>1. ProviderTypes'
    BY <1>0, <1>10, OwnershipAssumption
    DEF ProviderFinishes, ProviderTypes, Finished
  <2>2. OfferTypes' /\ RowTypes' /\ HandlerTypes' /\ TaskTypes' /\ WorldTypes'
    BY <1>0, <1>10
    DEF ProviderFinishes, OfferTypes, RowTypes, HandlerTypes, TaskTypes,
        WorldTypes
  <2> QED
    BY <2>1, <2>2
<1>11. CASE WebhookArrives(r)
  <2>1. HandlerTypes'
    BY <1>0, <1>11
    DEF WebhookArrives, HandlerTypes
  <2>2. OfferTypes' /\ RowTypes' /\ ProviderTypes' /\ TaskTypes' /\ WorldTypes'
    BY <1>0, <1>11
    DEF WebhookArrives, OfferTypes, RowTypes, ProviderTypes, TaskTypes,
        WorldTypes
  <2> QED
    BY <2>1, <2>2
<1>12. CASE SweepQuery(r)
  <2>1. HandlerTypes'
    BY <1>0, <1>12
    DEF SweepQuery, HandlerTypes
  <2>2. OfferTypes' /\ RowTypes' /\ ProviderTypes' /\ TaskTypes' /\ WorldTypes'
    BY <1>0, <1>12
    DEF SweepQuery, OfferTypes, RowTypes, ProviderTypes, TaskTypes, WorldTypes
  <2> QED
    BY <2>1, <2>2
<1>13. CASE NoShow(r)
  <2>1. RowTypes'
    BY <1>0, <1>13, StatusMembers
    DEF NoShow, RowTypes
  <2>2. /\ OfferTypes' /\ ProviderTypes' /\ HandlerTypes'
        /\ TaskTypes' /\ WorldTypes'
    BY <1>0, <1>13
    DEF NoShow, OfferTypes, ProviderTypes, HandlerTypes, TaskTypes, WorldTypes
  <2> QED
    BY <2>1, <2>2
<1>14. CASE RefundClaim(r)
  <2>1. /\ RowTypes'
        /\ HandlerTypes'
    BY <1>0, <1>14, StatusMembers
    DEF RefundClaim, RowTypes, HandlerTypes
  <2>2. OfferTypes' /\ ProviderTypes' /\ TaskTypes' /\ WorldTypes'
    BY <1>0, <1>14
    DEF RefundClaim, OfferTypes, ProviderTypes, TaskTypes, WorldTypes
  <2> QED
    BY <2>1, <2>2
<1>15. CASE RefundCall(r)
  <2>1. /\ ProviderTypes'
        /\ HandlerTypes'
    BY <1>0, <1>15
    DEF RefundCall, ProviderTypes, HandlerTypes
  <2>2. OfferTypes' /\ RowTypes' /\ TaskTypes' /\ WorldTypes'
    BY <1>0, <1>15 DEF RefundCall, OfferTypes, RowTypes, TaskTypes, WorldTypes
  <2> QED
    BY <2>1, <2>2
<1>16. CASE RefundCallThrows(r)
  <2>1. /\ RowTypes'
        /\ HandlerTypes'
        /\ WorldTypes'
    BY <1>0, <1>16, OwnershipAssumption
    DEF RefundCallThrows, RowTypes, HandlerTypes, WorldTypes, Crash
  <2>2. OfferTypes' /\ ProviderTypes' /\ TaskTypes'
    BY <1>0, <1>16 DEF RefundCallThrows, OfferTypes, ProviderTypes, TaskTypes
  <2> QED
    BY <2>1, <2>2
<1>17. CASE RefundReleasesClaim(r)
  <2>1. /\ RowTypes'
        /\ HandlerTypes'
    BY <1>0, <1>17, StatusMembers
    DEF RefundReleasesClaim, RowTypes, HandlerTypes
  <2>2. OfferTypes' /\ ProviderTypes' /\ TaskTypes' /\ WorldTypes'
    BY <1>0, <1>17
    DEF RefundReleasesClaim, OfferTypes, ProviderTypes, TaskTypes, WorldTypes
  <2> QED
    BY <2>1, <2>2
<1>18. CASE RefundRecords(r)
  <2>1. /\ RowTypes'
        /\ HandlerTypes'
    BY <1>0, <1>18, StatusMembers
    DEF RefundRecords, RowTypes, HandlerTypes, Refunded
  <2>2. OfferTypes' /\ ProviderTypes' /\ TaskTypes' /\ WorldTypes'
    BY <1>0, <1>18
    DEF RefundRecords, OfferTypes, ProviderTypes, TaskTypes, WorldTypes
  <2> QED
    BY <2>1, <2>2
<1>19. CASE RefundRecordThrows(r)
  <2>1. /\ RowTypes'
        /\ HandlerTypes'
        /\ WorldTypes'
    BY <1>0, <1>19, StatusMembers, OwnershipAssumption
    DEF RefundRecordThrows, RowTypes, HandlerTypes, WorldTypes, Refunded, Crash
  <2>2. OfferTypes' /\ ProviderTypes' /\ TaskTypes'
    BY <1>0, <1>19 DEF RefundRecordThrows, OfferTypes, ProviderTypes, TaskTypes
  <2> QED
    BY <2>1, <2>2
<1>20. CASE CreatorDies(r)
  <2>1. /\ HandlerTypes'
        /\ WorldTypes'
    BY <1>0, <1>20, OwnershipAssumption
    DEF CreatorDies, HandlerTypes, WorldTypes, Crash
  <2>2. OfferTypes' /\ RowTypes' /\ ProviderTypes' /\ TaskTypes'
    BY <1>0, <1>20
    DEF CreatorDies, OfferTypes, RowTypes, ProviderTypes, TaskTypes
  <2> QED
    BY <2>1, <2>2
<1>21. CASE WebhookDies(r)
  <2>1. /\ HandlerTypes'
        /\ WorldTypes'
    BY <1>0, <1>21, OwnershipAssumption
    DEF WebhookDies, HandlerTypes, WorldTypes, Crash
  <2>2. OfferTypes' /\ RowTypes' /\ ProviderTypes' /\ TaskTypes'
    BY <1>0, <1>21
    DEF WebhookDies, OfferTypes, RowTypes, ProviderTypes, TaskTypes
  <2> QED
    BY <2>1, <2>2
<1>22. CASE SweepDies(r)
  <2>1. /\ HandlerTypes'
        /\ WorldTypes'
    BY <1>0, <1>22, OwnershipAssumption
    DEF SweepDies, HandlerTypes, WorldTypes, Crash
  <2>2. OfferTypes' /\ RowTypes' /\ ProviderTypes' /\ TaskTypes'
    BY <1>0, <1>22 DEF SweepDies, OfferTypes, RowTypes, ProviderTypes, TaskTypes
  <2> QED
    BY <2>1, <2>2
<1>23. CASE RefundDies(r)
  <2>1. /\ HandlerTypes'
        /\ WorldTypes'
    BY <1>0, <1>23, OwnershipAssumption
    DEF RefundDies, HandlerTypes, WorldTypes, Crash
  <2>2. OfferTypes' /\ RowTypes' /\ ProviderTypes' /\ TaskTypes'
    BY <1>0, <1>23
    DEF RefundDies, OfferTypes, RowTypes, ProviderTypes, TaskTypes
  <2> QED
    BY <2>1, <2>2
<1> QED
  BY <1>1, <1>2, <1>3, <1>4, <1>5, <1>6, <1>7, <1>8, <1>9, <1>10,
     <1>11, <1>12, <1>13, <1>14, <1>15, <1>16, <1>17, <1>18, <1>19, <1>20,
     <1>21, <1>22, <1>23
  DEF ReservationStep

(* So does every offer step.                                               *)
LEMMA OfferStepTypes ==
  ASSUME IInv, NEW o \in Offers, OfferStep(o)
  PROVE  TypeOK'
<1> USE DEF offerVars, rowVars, providerVars, handlerVars, offerTasks, worldVars
<1>0. /\ OfferTypes /\ RowTypes /\ ProviderTypes
      /\ HandlerTypes /\ TaskTypes /\ WorldTypes
  BY DEF IInv, TypeOK
<1> SUFFICES /\ OfferTypes' /\ RowTypes' /\ ProviderTypes'
             /\ HandlerTypes' /\ TaskTypes' /\ WorldTypes'
  BY DEF TypeOK
<1>1. CASE Schedule(o)
  <2>1. OfferTypes'
    BY <1>0, <1>1, StatusMembers
    DEF Schedule, OfferTypes
  <2>2. /\ RowTypes' /\ ProviderTypes' /\ HandlerTypes'
        /\ TaskTypes' /\ WorldTypes'
    BY <1>0, <1>1
    DEF Schedule, RowTypes, ProviderTypes, HandlerTypes, TaskTypes, WorldTypes
  <2> QED
    BY <2>1, <2>2
<1>2. CASE Publish(o)
  <2>1. OfferTypes'
    BY <1>0, <1>2, StatusMembers
    DEF Publish, OfferTypes
  <2>2. /\ RowTypes' /\ ProviderTypes' /\ HandlerTypes'
        /\ TaskTypes' /\ WorldTypes'
    BY <1>0, <1>2
    DEF Publish, RowTypes, ProviderTypes, HandlerTypes, TaskTypes, WorldTypes
  <2> QED
    BY <2>1, <2>2
<1>3. CASE SchedulerSelects(o)
  <2>1. TaskTypes'
    BY <1>0, <1>3
    DEF SchedulerSelects, TaskTypes
  <2>2. /\ OfferTypes' /\ RowTypes' /\ ProviderTypes'
        /\ HandlerTypes' /\ WorldTypes'
    BY <1>0, <1>3
    DEF SchedulerSelects, OfferTypes, RowTypes, ProviderTypes,
        HandlerTypes, WorldTypes
  <2> QED
    BY <2>1, <2>2
<1>4. CASE SchedulerPublishes(o)
  <2>1. OfferTypes' /\ TaskTypes'
    BY <1>0, <1>4, StatusMembers
    DEF SchedulerPublishes, OfferTypes, TaskTypes
  <2>2. RowTypes' /\ ProviderTypes' /\ HandlerTypes' /\ WorldTypes'
    BY <1>0, <1>4
    DEF SchedulerPublishes, RowTypes, ProviderTypes, HandlerTypes, WorldTypes
  <2> QED
    BY <2>1, <2>2
<1>5. CASE Terminalize(o)
  <2>1. OfferTypes' /\ TaskTypes'
    BY <1>0, <1>5, StatusMembers
    DEF Terminalize, OfferTypes, TaskTypes
  <2>2. RowTypes' /\ ProviderTypes' /\ HandlerTypes' /\ WorldTypes'
    BY <1>0, <1>5
    DEF Terminalize, RowTypes, ProviderTypes, HandlerTypes, WorldTypes
  <2> QED
    BY <2>1, <2>2
<1>6. CASE Close(o)
  <2>1. OfferTypes'
    BY <1>0, <1>6, StatusMembers
    DEF Close, OfferTypes
  <2>2. /\ RowTypes' /\ ProviderTypes' /\ HandlerTypes'
        /\ TaskTypes' /\ WorldTypes'
    BY <1>0, <1>6
    DEF Close, RowTypes, ProviderTypes, HandlerTypes, TaskTypes, WorldTypes
  <2> QED
    BY <2>1, <2>2
<1>7. CASE Tick(o)
  <2>1. WorldTypes'
    BY <1>0, <1>7
    DEF Tick, WorldTypes
  <2>2. /\ OfferTypes' /\ RowTypes' /\ ProviderTypes'
        /\ HandlerTypes' /\ TaskTypes'
    BY <1>0, <1>7
    DEF Tick, OfferTypes, RowTypes, ProviderTypes, HandlerTypes, TaskTypes
  <2> QED
    BY <2>1, <2>2
<1>8. CASE FanOutStart(o)
  <2>1. TaskTypes'
    BY <1>0, <1>8, FanOutStartStock DEF FanOutStart, TaskTypes
  <2>2. /\ OfferTypes' /\ RowTypes' /\ ProviderTypes'
        /\ HandlerTypes' /\ WorldTypes'
    BY <1>0, <1>8
    DEF FanOutStart, OfferTypes, RowTypes, ProviderTypes, HandlerTypes,
        WorldTypes
  <2> QED
    BY <2>1, <2>2
<1>9. CASE \E r \in Reservations : FanOutPending(o, r)
  <2> PICK r \in Reservations : FanOutPending(o, r)
    BY <1>9
  <2>1. TaskTypes'
    BY <1>0, FanOutPendingStock DEF FanOutPending, TaskTypes
  <2>2. /\ OfferTypes' /\ RowTypes' /\ ProviderTypes'
        /\ HandlerTypes' /\ WorldTypes'
    BY <1>0
    DEF FanOutPending, OfferTypes, RowTypes, ProviderTypes, HandlerTypes,
        WorldTypes
  <2> QED
    BY <2>1, <2>2
<1>10. CASE \E r \in Reservations : FanOutConfirmed(o, r)
  <2> PICK r \in Reservations : FanOutConfirmed(o, r)
    BY <1>10
  <2>1. TaskTypes'
    BY <1>0, FanOutConfirmedStock DEF FanOutConfirmed, TaskTypes
  <2>2. /\ OfferTypes' /\ RowTypes' /\ ProviderTypes'
        /\ HandlerTypes' /\ WorldTypes'
    BY <1>0
    DEF FanOutConfirmed, OfferTypes, RowTypes, ProviderTypes,
        HandlerTypes, WorldTypes
  <2> QED
    BY <2>1, <2>2
<1>11. CASE FanOutCommit(o)
  <2>1. TaskTypes'
    BY <1>0, <1>11, FanOutCommitStock DEF FanOutCommit, TaskTypes
  <2>2. OfferTypes'
    <3>1. /\ qtyReserved' = [qtyReserved EXCEPT ![o] = fan[o].qty]
          /\ fan[o].qty \in Nat /\ fan[o].qty <= qtyReserved[o]
      BY <1>11, FanOutCommitStock
    <3>2. qtyReserved' \in [Offers -> Nat]
      BY <1>0, <3>1 DEF OfferTypes
    <3>3. ASSUME NEW q \in Offers PROVE qtyReserved'[q] <= QtyTotal[q]
      <4>1. /\ qtyReserved[q] \in Nat /\ QtyTotal[q] \in Nat
            /\ qtyReserved[q] <= QtyTotal[q]
        BY <1>0, CatalogueAssumption DEF OfferTypes
      <4>2. qtyReserved'[q] \in Nat /\ qtyReserved'[q] <= qtyReserved[q]
        BY <1>0, <3>1, <4>1 DEF OfferTypes
      <4> QED
        BY <4>1, <4>2
    <3>4. /\ offerStatus' \in [Offers -> DOMAIN OfferTransitions]
          /\ qtyRedeemed' \in [Offers -> Nat]
      BY <1>0, <1>11, StatusMembers DEF FanOutCommit, OfferTypes
    <3> QED
      BY <3>2, <3>3, <3>4 DEF OfferTypes
  <2>3. RowTypes' /\ HandlerTypes'
    BY <1>0, <1>11, StatusMembers DEF FanOutCommit, RowTypes, HandlerTypes
  <2>4. ProviderTypes' /\ WorldTypes'
    BY <1>0, <1>11 DEF FanOutCommit, ProviderTypes, WorldTypes
  <2> QED
    BY <2>1, <2>2, <2>3, <2>4
<1>12. CASE FanOutDies(o)
  <2>1. TaskTypes'
    BY <1>0, <1>12, FanOutDiesStock DEF FanOutDies, TaskTypes
  <2>2. WorldTypes'
    BY <1>0, <1>12, OwnershipAssumption DEF FanOutDies, WorldTypes, Crash
  <2>3. OfferTypes' /\ RowTypes' /\ ProviderTypes' /\ HandlerTypes'
    BY <1>0, <1>12
    DEF FanOutDies, OfferTypes, RowTypes, ProviderTypes, HandlerTypes
  <2> QED
    BY <2>1, <2>2, <2>3
<1> QED
  BY <1>1, <1>2, <1>3, <1>4, <1>5, <1>6, <1>7, <1>8, <1>9, <1>10, <1>11, <1>12
  DEF OfferStep

(* A suspension and a stuttering step keep the types.                      *)
LEMMA OtherStepTypes ==
  ASSUME TypeOK, (\E m \in Merchants : Suspend(m)) \/ UNCHANGED vars
  PROVE  TypeOK'
<1> USE DEF offerVars, rowVars, providerVars, handlerVars, offerTasks, worldVars
<1>1. ASSUME NEW m \in Merchants, Suspend(m)
      PROVE  TypeOK'
  BY <1>1 DEF Suspend, TypeOK, OfferTypes, RowTypes, ProviderTypes,
              HandlerTypes, TaskTypes, WorldTypes
<1>2. CASE UNCHANGED vars
  BY <1>2 DEF vars, TypeOK, OfferTypes, RowTypes, ProviderTypes,
              HandlerTypes, TaskTypes, WorldTypes
<1> QED
  BY <1>1, <1>2

-----------------------------------------------------------------------------
(* The stock, step by step                                                 *)

(* Every reservation step keeps the stock conserved.                       *)
LEMMA ReservationStepStock ==
  ASSUME TypeOK, StockOK, NEW r \in Reservations, ReservationStep(r)
  PROVE  StockOK'
<1> USE DEF offerVars, rowVars, providerVars, handlerVars, offerTasks, worldVars
<1>1. CASE CreateReservation(r)
  BY <1>1, AddsPromised DEF CreateReservation
<1>2. CASE CompensateFailedIntent(r)
  BY <1>2, ExpireAndReleaseStock DEF CompensateFailedIntent
<1>3. CASE WebhookSettles(r)
  BY <1>3, SettleStock DEF WebhookSettles
<1>4. CASE SweepSettles(r)
  BY <1>4, SettleStock DEF SweepSettles
<1>5. CASE Cancel(r)
  BY <1>5, CancelStock
<1>6. CASE \E actor \in Actors : RedeemCommits(r, actor)
  BY <1>6, RedeemCommitsStock
<1>7. CASE NoShow(r)
  BY <1>7, NoShowStock
<1>8. CASE \/ CreateIntent(r)
           \/ CreateIntentThrows(r)
           \/ ProviderFinishes(r)
           \/ WebhookArrives(r)
           \/ SweepQuery(r)
           \/ \E actor \in Actors : RedeemChecks(r, actor)
           \/ CreatorDies(r)
           \/ WebhookDies(r)
           \/ SweepDies(r)
  <2>1. UNCHANGED <<qtyReserved, resv, fan>>
    BY <1>8 DEF CreateIntent, CreateIntentThrows, ProviderFinishes,
                WebhookArrives, SweepQuery, RedeemChecks, CreatorDies,
                WebhookDies, SweepDies
  <2> QED
    BY <2>1, StockFrame
<1>9. CASE \/ RefundClaim(r)
           \/ RefundCall(r)
           \/ RefundCallThrows(r)
           \/ RefundReleasesClaim(r)
           \/ RefundRecords(r)
           \/ RefundRecordThrows(r)
           \/ RefundDies(r)
  <2>1. UNCHANGED <<qtyReserved, resv, fan>>
    BY <1>9 DEF RefundClaim, RefundCall, RefundCallThrows,
                RefundReleasesClaim, RefundRecords, RefundRecordThrows,
                RefundDies
  <2> QED
    BY <2>1, StockFrame
<1> QED
  BY <1>1, <1>2, <1>3, <1>4, <1>5, <1>6, <1>7, <1>8, <1>9 DEF ReservationStep

(* So does every offer step.                                               *)
LEMMA OfferStepStock ==
  ASSUME IInv, NEW o \in Offers, OfferStep(o)
  PROVE  StockOK'
<1> USE DEF offerVars, rowVars, providerVars, handlerVars, offerTasks, worldVars
<1>1. CASE FanOutStart(o)
  BY <1>1, FanOutStartStock
<1>2. CASE \E r \in Reservations : FanOutPending(o, r)
  BY <1>2, FanOutPendingStock
<1>3. CASE \E r \in Reservations : FanOutConfirmed(o, r)
  BY <1>3, FanOutConfirmedStock
<1>4. CASE FanOutCommit(o)
  BY <1>4, FanOutCommitStock
<1>5. CASE FanOutDies(o)
  BY <1>5, FanOutDiesStock
<1>6. CASE \/ Schedule(o) \/ Publish(o) \/ SchedulerSelects(o)
           \/ SchedulerPublishes(o) \/ Terminalize(o) \/ Close(o) \/ Tick(o)
  <2>1. UNCHANGED <<qtyReserved, resv, fan>>
    BY <1>6 DEF Schedule, Publish, SchedulerSelects, SchedulerPublishes,
                Terminalize, Close, Tick
  <2> QED
    BY <2>1, StockFrame DEF IInv
<1> QED
  BY <1>1, <1>2, <1>3, <1>4, <1>5, <1>6 DEF OfferStep

-----------------------------------------------------------------------------
(* The invariant                                                           *)

(* The inductive invariant holds at the start ...                          *)
LEMMA IInvInit == Init => IInv
<1> SUFFICES ASSUME Init PROVE IInv
  OBVIOUS
<1>1. TypeOK
  <2>1. OfferTypes /\ RowTypes
    BY StatusMembers, CatalogueAssumption DEF Init, OfferTypes, RowTypes
  <2>2. ProviderTypes /\ HandlerTypes
    BY DEF Init, ProviderTypes, HandlerTypes
  <2>3. TaskTypes /\ WorldTypes
    BY NoFanType, OwnershipAssumption DEF Init, TaskTypes, WorldTypes
  <2> QED
    BY <2>1, <2>2, <2>3 DEF TypeOK
<1>2. ASSUME NEW o \in Offers PROVE Counted(o) /\ FanOK(o)
  <2>1. Promised(o) = {}
    BY DEF Init, Promised, On, InStatus, Held, Sold
  <2>2. Counted(o)
    BY <2>1, TotalEmpty DEF Init, Counted
  <2>3. fan[o] = NoFan
    BY DEF Init
  <2>4. FanOK(o)
    BY <2>3 DEF FanOK, NoFan
  <2> QED
    BY <2>2, <2>4
<1> QED
  BY <1>1, <1>2 DEF IInv, StockOK

(* ... and every step keeps it.                                            *)
LEMMA IInvStep == IInv /\ [Next]_vars => IInv'
<1> SUFFICES ASSUME IInv, [Next]_vars PROVE IInv'
  OBVIOUS
<1>1. ASSUME NEW r \in Reservations, ReservationStep(r) PROVE IInv'
  BY <1>1, ReservationStepTypes, ReservationStepStock DEF IInv
<1>2. ASSUME NEW o \in Offers, OfferStep(o) PROVE IInv'
  BY <1>2, OfferStepTypes, OfferStepStock DEF IInv
<1>3. CASE (\E m \in Merchants : Suspend(m)) \/ UNCHANGED vars
  <2>1. UNCHANGED <<qtyReserved, resv, fan>>
    BY <1>3 DEF Suspend, vars, offerVars, rowVars, handlerVars, offerTasks
  <2> QED
    BY <1>3, <2>1, OtherStepTypes, StockFrame DEF IInv
<1> QED
  BY <1>1, <1>2, <1>3 DEF Next

(* The types and bounds hold in every reachable state, whatever the        *)
(* catalogue: in particular no interleaving takes qtyReserved above        *)
(* qtyTotal, however many customers claim the last bag.                    *)
THEOREM TypeCorrect == Spec => []TypeOK
<1>1. IInv => TypeOK
  BY DEF IInv
<1> QED
  BY <1>1, IInvInit, IInvStep, PTL DEF Spec

(* The counter an offer sells from is exactly the bags of the reservations *)
(* that hold or have bought some, through every webhook, sweep, cancel,    *)
(* compensation and fan-out, crashed ones included.                        *)
THEOREM StockIsConserved == Spec => []StockConservation
<1>1. IInv => StockConservation
  BY DEF IInv, StockOK, Counted, StockConservation
<1> QED
  BY <1>1, IInvInit, IInvStep, PTL DEF Spec

-----------------------------------------------------------------------------
(* What the shelf shows                                                    *)

(* Beside SoldOutIffFull: nothing is promised before an offer is public,   *)
(* which is why publishing it cannot open a full one.                      *)
ShelfOK ==
  /\ SoldOutIffFull
  /\ \A o \in Offers :
       offerStatus[o] \in {"DRAFT", "SCHEDULED"} => qtyReserved[o] = 0

(* allowedFrom() of the offer table, for the statuses a step may write.    *)
LEMMA OfferFromIs ==
  /\ OfferFrom("SCHEDULED") = {"DRAFT"}
  /\ OfferFrom("PUBLISHED") = {"DRAFT", "SCHEDULED"}
<1>1. ASSUME NEW to
      PROVE  OfferFrom(to) =
               {from \in DOMAIN OfferTransitions : to \in OfferTransitions[from]}
  BY DEF OfferFrom, AllowedFrom
<1>2. /\ OfferTransitions["DRAFT"] = {"SCHEDULED", "PUBLISHED", "CANCELLED"}
      /\ OfferTransitions["SCHEDULED"] = {"PUBLISHED", "CANCELLED"}
      /\ OfferTransitions["PUBLISHED"] = {"CLOSED", "CANCELLED"}
      /\ OfferTransitions["SOLD_OUT"] = {"CLOSED", "CANCELLED"}
      /\ OfferTransitions["CLOSED"] = {}
      /\ OfferTransitions["CANCELLED"] = {}
  BY DEF OfferTransitions
<1> QED
  BY <1>1, <1>2, Domains

(* A claim that takes the last bag, and only such a claim, closes the      *)
(* shelf.                                                                  *)
LEMMA ClaimShelf ==
  ASSUME OfferTypes, ShelfOK, NEW r \in Reservations,
         Claimable(OfferOf[r], Qty[r]), Claim(OfferOf[r], Qty[r])
  PROVE  ShelfOK'
<1>1. OfferOf[r] \in Offers /\ Qty[r] \in Nat \ {0}
  BY CatalogueAssumption
<1> SUFFICES ASSUME NEW o \in Offers
             PROVE  /\ offerStatus'[o] = "PUBLISHED"
                         => qtyReserved'[o] < QtyTotal[o]
                    /\ offerStatus'[o] = "SOLD_OUT"
                         => qtyReserved'[o] = QtyTotal[o]
                    /\ offerStatus'[o] \in {"DRAFT", "SCHEDULED"}
                         => qtyReserved'[o] = 0
  BY DEF ShelfOK, SoldOutIffFull
<1>2. QtyTotal[o] \in Nat /\ qtyReserved[o] \in Nat
  BY CatalogueAssumption DEF OfferTypes
<1>3. CASE o = OfferOf[r]
  BY <1>1, <1>2, <1>3 DEF OfferTypes, Claim, Claimable
<1>4. CASE o # OfferOf[r]
  BY <1>1, <1>4 DEF OfferTypes, Claim, ShelfOK, SoldOutIffFull
<1> QED
  BY <1>3, <1>4

(* A release from a full shelf opens it again.                             *)
LEMMA ReleaseShelf ==
  ASSUME OfferTypes, ShelfOK, NEW r \in Reservations,
         Release(OfferOf[r], Qty[r])
  PROVE  ShelfOK'
<1>1. OfferOf[r] \in Offers /\ Qty[r] \in Nat \ {0}
  BY CatalogueAssumption
<1> SUFFICES ASSUME NEW o \in Offers
             PROVE  /\ offerStatus'[o] = "PUBLISHED"
                         => qtyReserved'[o] < QtyTotal[o]
                    /\ offerStatus'[o] = "SOLD_OUT"
                         => qtyReserved'[o] = QtyTotal[o]
                    /\ offerStatus'[o] \in {"DRAFT", "SCHEDULED"}
                         => qtyReserved'[o] = 0
  BY DEF ShelfOK, SoldOutIffFull
<1>2. /\ QtyTotal[o] \in Nat /\ qtyReserved[o] \in Nat
      /\ qtyReserved[o] <= QtyTotal[o]
  BY CatalogueAssumption DEF OfferTypes
<1>3. CASE o = OfferOf[r] /\ qtyReserved[o] >= Qty[r]
  <2>1. /\ qtyReserved'[o] = qtyReserved[o] - Qty[r]
        /\ offerStatus'[o] =
             IF offerStatus[o] = "SOLD_OUT"
                  /\ qtyReserved[o] - Qty[r] < QtyTotal[o]
             THEN "PUBLISHED" ELSE offerStatus[o]
    BY <1>3 DEF OfferTypes, Release
  <2>2. qtyReserved[o] - Qty[r] < QtyTotal[o] /\ qtyReserved[o] # 0
    BY <1>1, <1>2, <1>3
  <2> QED
    BY <2>1, <2>2 DEF ShelfOK
<1>4. CASE ~(o = OfferOf[r] /\ qtyReserved[o] >= Qty[r])
  <2>1. qtyReserved'[o] = qtyReserved[o] /\ offerStatus'[o] = offerStatus[o]
    BY <1>1, <1>4 DEF OfferTypes, Release
  <2> QED
    BY <2>1 DEF ShelfOK, SoldOutIffFull
<1> QED
  BY <1>3, <1>4

(* A step that leaves status and counter alone leaves the shelf alone.     *)
LEMMA ShelfFrame ==
  ASSUME ShelfOK, UNCHANGED <<offerStatus, qtyReserved>>
  PROVE  ShelfOK'
BY DEF ShelfOK, SoldOutIffFull

(* A status change of an offer that keeps its counter is harmless when it  *)
(* ends the offer, schedules a draft, or publishes one not yet public.     *)
LEMMA StatusShelf ==
  ASSUME OfferTypes, ShelfOK, NEW o \in Offers, NEW s,
         offerStatus' = [offerStatus EXCEPT ![o] = s],
         \/ s \in {"CLOSED", "CANCELLED"}
         \/ s \in {"SCHEDULED", "PUBLISHED"} /\ offerStatus[o] \in OfferFrom(s)
         \/ s = offerStatus[o],
         \A q \in Offers : q # o => qtyReserved'[q] = qtyReserved[q],
         s \notin {"CLOSED", "CANCELLED"} => qtyReserved'[o] = qtyReserved[o]
  PROVE  ShelfOK'
<1> SUFFICES ASSUME NEW q \in Offers
             PROVE  /\ offerStatus'[q] = "PUBLISHED"
                         => qtyReserved'[q] < QtyTotal[q]
                    /\ offerStatus'[q] = "SOLD_OUT"
                         => qtyReserved'[q] = QtyTotal[q]
                    /\ offerStatus'[q] \in {"DRAFT", "SCHEDULED"}
                         => qtyReserved'[q] = 0
  BY DEF ShelfOK, SoldOutIffFull
<1>1. CASE q # o
  BY <1>1 DEF OfferTypes, ShelfOK, SoldOutIffFull
<1>2. CASE q = o
  <2>1. offerStatus'[q] = s /\ QtyTotal[q] \in Nat \ {0}
    BY <1>2, CatalogueAssumption DEF OfferTypes
  <2>2. CASE s = offerStatus[o]
    BY <1>2, <2>1, <2>2 DEF ShelfOK, SoldOutIffFull
  <2>3. CASE s \in {"SCHEDULED", "PUBLISHED"} /\ offerStatus[o] \in OfferFrom(s)
    <3>1. qtyReserved'[q] = 0
      BY <1>2, <2>3, OfferFromIs DEF ShelfOK
    <3>2. 0 < QtyTotal[q]
      BY <2>1
    <3> QED
      BY <2>1, <2>3, <3>1, <3>2
  <2> QED
    BY <2>1, <2>2, <2>3
<1> QED
  BY <1>1, <1>2

(* Every step keeps the shelf honest.                                      *)
LEMMA ShelfStep == IInv /\ ShelfOK /\ [Next]_vars => ShelfOK'
<1> USE DEF offerVars, rowVars, providerVars, handlerVars, offerTasks, worldVars
<1> SUFFICES ASSUME IInv, ShelfOK, [Next]_vars PROVE ShelfOK'
  OBVIOUS
<1>0. OfferTypes
  BY DEF IInv, TypeOK
<1>1. ASSUME NEW r \in Reservations, ReservationStep(r) PROVE ShelfOK'
  <2>1. CASE CreateReservation(r)
    BY <1>0, <2>1, ClaimShelf DEF CreateReservation
  <2>2. ASSUME ExpireAndRelease(r) PROVE ShelfOK'
    <3>1. CASE Release(OfferOf[r], Qty[r])
      BY <1>0, <3>1, ReleaseShelf
    <3>2. CASE UNCHANGED <<offerStatus, qtyReserved>>
      BY <3>2, ShelfFrame
    <3> QED
      BY <2>2, <3>1, <3>2 DEF ExpireAndRelease
  <2>3. ASSUME NEW answer, Settle(r, answer) PROVE ShelfOK'
    <3>1. CASE answer = "paid"
      BY <2>3, <3>1, ShelfFrame DEF Settle, SettleSuccess
    <3>2. CASE answer # "paid"
      BY <2>2, <2>3, <3>2 DEF Settle
    <3> QED
      BY <3>1, <3>2
  <2>4. CASE CompensateFailedIntent(r)
    BY <2>2, <2>4 DEF CompensateFailedIntent
  <2>5. CASE WebhookSettles(r) \/ SweepSettles(r)
    BY <2>3, <2>5 DEF WebhookSettles, SweepSettles
  <2>6. CASE Cancel(r)
    BY <1>0, <2>6, ReleaseShelf DEF Cancel
  <2>7. CASE \/ CreateIntent(r)
             \/ CreateIntentThrows(r)
             \/ ProviderFinishes(r)
             \/ WebhookArrives(r)
             \/ SweepQuery(r)
             \/ \E actor \in Actors : RedeemChecks(r, actor)
             \/ \E actor \in Actors : RedeemCommits(r, actor)
             \/ NoShow(r)
    BY <2>7, ShelfFrame
    DEF CreateIntent, CreateIntentThrows, ProviderFinishes, WebhookArrives,
        SweepQuery, RedeemChecks, RedeemCommits, NoShow
  <2>8. CASE \/ RefundClaim(r)
             \/ RefundCall(r)
             \/ RefundCallThrows(r)
             \/ RefundReleasesClaim(r)
             \/ RefundRecords(r)
             \/ RefundRecordThrows(r)
             \/ CreatorDies(r)
             \/ WebhookDies(r)
             \/ SweepDies(r)
             \/ RefundDies(r)
    BY <2>8, ShelfFrame
    DEF RefundClaim, RefundCall, RefundCallThrows, RefundReleasesClaim,
        RefundRecords, RefundRecordThrows, CreatorDies, WebhookDies,
        SweepDies, RefundDies
  <2> QED
    BY <1>1, <2>1, <2>4, <2>5, <2>6, <2>7, <2>8 DEF ReservationStep
<1>2. ASSUME NEW o \in Offers, OfferStep(o) PROVE ShelfOK'
  <2>1. CASE Schedule(o)
    BY <1>0, <2>1, StatusShelf DEF Schedule
  <2>2. CASE Publish(o)
    BY <1>0, <2>2, StatusShelf DEF Publish, Publishable
  <2>3. CASE Close(o)
    BY <1>0, <2>3, StatusShelf DEF Close
  <2>4. CASE SchedulerPublishes(o)
    BY <1>0, <2>4, StatusShelf DEF SchedulerPublishes, Publishable
  <2>5. CASE Terminalize(o)
    BY <1>0, <2>5, StatusShelf DEF Terminalize
  <2>6. CASE FanOutCommit(o)
    <3>1. /\ offerStatus' = [offerStatus EXCEPT ![o] = "CANCELLED"]
          /\ qtyReserved' = [qtyReserved EXCEPT ![o] = fan[o].qty]
      BY <2>6 DEF FanOutCommit
    <3>2. \A q \in Offers : q # o => qtyReserved'[q] = qtyReserved[q]
      BY <1>0, <3>1 DEF OfferTypes
    <3> QED
      BY <1>0, <3>1, <3>2, StatusShelf
  <2>7. CASE \/ SchedulerSelects(o)
             \/ FanOutStart(o)
             \/ \E r \in Reservations : FanOutPending(o, r)
             \/ \E r \in Reservations : FanOutConfirmed(o, r)
             \/ FanOutDies(o)
             \/ Tick(o)
    BY <2>7, ShelfFrame
    DEF SchedulerSelects, FanOutStart, FanOutPending, FanOutConfirmed,
        FanOutDies, Tick
  <2> QED
    BY <1>2, <2>1, <2>2, <2>3, <2>4, <2>5, <2>6, <2>7 DEF OfferStep
<1>3. CASE (\E m \in Merchants : Suspend(m)) \/ UNCHANGED vars
  BY <1>3, ShelfFrame DEF Suspend, vars
<1> QED
  BY <1>1, <1>2, <1>3 DEF Next

(* An offer shown as open has a bag left and one shown as sold out has     *)
(* none, however claims, releases, publications and cancels interleave.    *)
THEOREM ShelfIsHonest == Spec => []SoldOutIffFull
<1>1. Init => ShelfOK
  BY CatalogueAssumption DEF Init, ShelfOK, SoldOutIffFull
<1>2. ShelfOK => SoldOutIffFull
  BY DEF ShelfOK
<1> QED
  BY <1>1, <1>2, IInvInit, IInvStep, ShelfStep, PTL DEF Spec

-----------------------------------------------------------------------------
(* The refinement                                                          *)

(* One reservation r moves to status s: the three sets of the abstract     *)
(* inventory lose r and the one s belongs to gains it.                     *)
LEMMA MappedMove ==
  ASSUME TypeOK, NEW r \in Reservations, NEW s \in ReservationStatuses,
         resv' = [resv EXCEPT ![r] = s], NEW S
  PROVE  InStatus(S)' =
           IF s \in S THEN InStatus(S) \cup {r} ELSE InStatus(S) \ {r}
<1>1. \A x \in Reservations : resv'[x] = IF x = r THEN s ELSE resv[x]
  BY DEF TypeOK, RowTypes
<1> QED
  BY <1>1 DEF InStatus

(* Steps that move no reservation are invisible to the inventory.          *)
LEMMA UnmovedMaps ==
  ASSUME UNCHANGED resv
  PROVE  [Inventory!InvNext]_(Inventory!invVars)
BY DEF InStatus, Inventory!invVars

(* A held reservation that is freed maps to Free, alone.                   *)
LEMMA FreedMaps ==
  ASSUME TypeOK, NEW r \in Reservations, NEW s \in Freed, resv[r] \in Held,
         resv' = [resv EXCEPT ![r] = s]
  PROVE  Inventory!InvNext
<1>1. /\ s \in ReservationStatuses /\ s \notin Held /\ s \notin Sold
      /\ resv[r] \notin Sold
  BY StatusMembers DEF Freed, Held, Sold
<1>2. /\ InStatus(Held)' = InStatus(Held) \ {r}
      /\ InStatus(Sold)' = InStatus(Sold) \ {r}
      /\ InStatus(Freed)' = InStatus(Freed) \cup {r}
  BY <1>1, MappedMove
<1>3. r \in InStatus(Held) /\ r \notin InStatus(Sold)
  BY <1>1 DEF InStatus
<1>4. Inventory!Free({r})
  BY <1>2, <1>3 DEF Inventory!Free
<1> QED
  BY <1>3, <1>4 DEF Inventory!InvNext

(* A held reservation that is redeemed or missed maps to Keep.             *)
LEMMA SoldMaps ==
  ASSUME TypeOK, NEW r \in Reservations, NEW s \in Sold, resv[r] \in Held,
         resv' = [resv EXCEPT ![r] = s]
  PROVE  Inventory!InvNext
<1>1. /\ s \in ReservationStatuses /\ s \notin Held /\ s \notin Freed
      /\ resv[r] \notin Freed
  BY StatusMembers DEF Freed, Held, Sold
<1>2. /\ InStatus(Held)' = InStatus(Held) \ {r}
      /\ InStatus(Sold)' = InStatus(Sold) \cup {r}
      /\ InStatus(Freed)' = InStatus(Freed) \ {r}
  BY <1>1, MappedMove
<1>3. r \in InStatus(Held) /\ r \notin InStatus(Freed)
  BY <1>1 DEF InStatus
<1>4. Inventory!Keep(r)
  BY <1>2, <1>3 DEF Inventory!Keep
<1> QED
  BY <1>4 DEF Inventory!InvNext

(* A pending reservation that is confirmed stays held.                     *)
LEMMA ConfirmedMaps ==
  ASSUME TypeOK, NEW r \in Reservations, resv[r] = "PENDING_PAYMENT",
         resv' = [resv EXCEPT ![r] = "CONFIRMED"]
  PROVE  UNCHANGED Inventory!invVars
<1>1. /\ "CONFIRMED" \in ReservationStatuses /\ "CONFIRMED" \in Held
      /\ "CONFIRMED" \notin Freed /\ "CONFIRMED" \notin Sold
      /\ resv[r] \in Held /\ resv[r] \notin Sold /\ resv[r] \notin Freed
  BY StatusMembers DEF Freed, Held, Sold
<1>2. /\ InStatus(Held)' = InStatus(Held) \cup {r}
      /\ InStatus(Sold)' = InStatus(Sold) \ {r}
      /\ InStatus(Freed)' = InStatus(Freed) \ {r}
  BY <1>1, MappedMove
<1>3. r \in InStatus(Held) /\ r \notin InStatus(Sold) /\ r \notin InStatus(Freed)
  BY <1>1 DEF InStatus
<1> QED
  BY <1>2, <1>3 DEF Inventory!invVars

(* A new reservation maps to Hold: the guarded claim found room for it.    *)
LEMMA CreateMaps ==
  ASSUME IInv, NEW r \in Reservations, CreateReservation(r)
  PROVE  Inventory!InvNext
<1>1. /\ resv[r] = "NONE" /\ Claimable(OfferOf[r], Qty[r])
      /\ resv' = [resv EXCEPT ![r] = "PENDING_PAYMENT"]
      /\ TypeOK /\ Counted(OfferOf[r])
  BY CatalogueAssumption DEF CreateReservation, IInv, StockOK
<1>2. /\ "PENDING_PAYMENT" \in ReservationStatuses
      /\ "PENDING_PAYMENT" \in Held
      /\ "PENDING_PAYMENT" \notin Freed /\ "PENDING_PAYMENT" \notin Sold
      /\ resv[r] \notin Held /\ resv[r] \notin Sold /\ resv[r] \notin Freed
  BY <1>1, StatusMembers DEF Freed, Held, Sold
<1>3. /\ InStatus(Held)' = InStatus(Held) \cup {r}
      /\ InStatus(Sold)' = InStatus(Sold) \ {r}
      /\ InStatus(Freed)' = InStatus(Freed) \ {r}
  BY <1>1, <1>2, MappedMove
<1>4. r \notin InStatus(Held) \cup InStatus(Sold) \cup InStatus(Freed)
  BY <1>2 DEF InStatus
<1>5. Inventory!UnitsIn(Qty, Inventory!Promised(OfferOf[r]))
        = UnitsIn(Qty, Promised(OfferOf[r]))
  <2>1. Inventory!Promised(OfferOf[r]) = Promised(OfferOf[r])
    BY DEF Inventory!Promised, Inventory!On, Promised, On, InStatus
  <2>2. \A S : Inventory!UnitsIn(Qty, S) = UnitsIn(Qty, S)
    BY DEF Inventory!UnitsIn, UnitsIn
  <2> QED
    BY <2>1, <2>2
<1>6. Total(Qty, Promised(OfferOf[r])) + Qty[r]
        <= QtyTotal[OfferOf[r]]
  BY <1>1 DEF Counted, Claimable
<1>7. \A S : Inventory!Cardinality(S) = Cardinality(S)
  BY Zenon DEF Inventory!Cardinality, Cardinality
<1>8. Inventory!Total(Qty, Inventory!Promised(OfferOf[r]))
        = Total(Qty, Promised(OfferOf[r]))
  BY <1>5, <1>7 DEF Inventory!Total, Total
<1>9. Inventory!Hold(r)
  BY <1>3, <1>4, <1>6, <1>8 DEF Inventory!Hold
<1> QED
  BY <1>9 DEF Inventory!InvNext

(* The commit of a fan-out maps to Free of all it moved, at once.          *)
LEMMA FanOutCommitMaps ==
  ASSUME IInv, NEW o \in Offers, FanOutCommit(o)
  PROVE  [Inventory!InvNext]_(Inventory!invVars)
<1> DEFINE f == fan[o]
           moved == f.expired \cup f.cancelled
<1>1. \A r \in Reservations :
        /\ r \in moved => resv'[r] \in {"EXPIRED", "CANCELLED_BY_MERCHANT"}
        /\ r \notin moved => resv'[r] = resv[r]
  BY DEF FanOutCommit
<1>2. moved \subseteq InStatus(Held)
  BY DEF IInv, StockOK, FanOK, InStatus, Held
<1>3. /\ {"EXPIRED", "CANCELLED_BY_MERCHANT"} \subseteq Freed
      /\ Freed \cap (Held \cup Sold) = {} /\ Held \cap Sold = {}
  BY DEF Freed, Held, Sold
<1>4. /\ InStatus(Held)' = InStatus(Held) \ moved
      /\ InStatus(Sold)' = InStatus(Sold)
      /\ InStatus(Freed)' = InStatus(Freed) \cup moved
  <2>1. \A r \in moved : r \in Reservations /\ resv[r] \in Held
    BY <1>2 DEF InStatus
  <2>2. \A r \in Reservations :
          /\ resv'[r] \in Held <=> resv[r] \in Held /\ r \notin moved
          /\ resv'[r] \in Sold <=> resv[r] \in Sold
          /\ resv'[r] \in Freed <=> resv[r] \in Freed \/ r \in moved
    BY <1>1, <1>3, <2>1
  <2> QED
    BY <2>1, <2>2 DEF InStatus
<1>5. CASE moved = {}
  BY <1>4, <1>5 DEF Inventory!invVars
<1>6. CASE moved # {}
  <2>1. moved \in SUBSET InStatus(Held)
    BY <1>2
  <2>2. Inventory!Free(moved)
    BY <1>2, <1>4, <1>6 DEF Inventory!Free
  <2> QED
    BY <2>1, <2>2 DEF Inventory!InvNext
<1> QED
  BY <1>5, <1>6

(* Every step maps to a step of the inventory, or to none.                 *)
LEMMA StepMaps ==
  IInv /\ [Next]_vars => [Inventory!InvNext]_(Inventory!invVars)
<1> USE DEF offerVars, rowVars, providerVars, handlerVars, offerTasks, worldVars
<1> DEFINE Maps == [Inventory!InvNext]_(Inventory!invVars)
<1> SUFFICES ASSUME IInv, [Next]_vars PROVE Maps
  OBVIOUS
<1>0. TypeOK
  BY DEF IInv
<1>1. ASSUME NEW r \in Reservations, ReservationStep(r) PROVE Maps
  <2>1. ASSUME ExpireAndRelease(r) PROVE Maps
    <3>1. CASE resv' = [resv EXCEPT ![r] = "EXPIRED"]
                 /\ resv[r] \in ResvFrom("EXPIRED")
      BY <1>0, <3>1, FreedMaps, ResvFromIs DEF Freed, Held
    <3>2. CASE UNCHANGED resv
      BY <3>2, UnmovedMaps
    <3> QED
      BY <2>1, <3>1, <3>2 DEF ExpireAndRelease
  <2>2. ASSUME NEW answer, Settle(r, answer) PROVE Maps
    <3>1. CASE answer = "paid"
      <4>1. CASE resv' = [resv EXCEPT ![r] = "CONFIRMED"]
                   /\ resv[r] \in ResvFrom("CONFIRMED")
        BY <1>0, <4>1, ConfirmedMaps, ResvFromIs
      <4>2. CASE UNCHANGED resv
        BY <4>2, UnmovedMaps
      <4> QED
        BY <2>2, <3>1, <4>1, <4>2 DEF Settle, SettleSuccess
    <3>2. CASE answer # "paid"
      BY <2>1, <2>2, <3>2 DEF Settle
    <3> QED
      BY <3>1, <3>2
  <2>3. CASE CreateReservation(r)
    BY <2>3, CreateMaps
  <2>4. CASE CompensateFailedIntent(r)
    BY <2>1, <2>4 DEF CompensateFailedIntent
  <2>5. CASE WebhookSettles(r) \/ SweepSettles(r)
    BY <2>2, <2>5 DEF WebhookSettles, SweepSettles
  <2>6. CASE Cancel(r)
    BY <1>0, <2>6, FreedMaps, ResvFromIs DEF Cancel, Freed, Held
  <2>7. CASE \E actor \in Actors : RedeemCommits(r, actor)
    <3>1. CASE resv' = [resv EXCEPT ![r] = "REDEEMED"]
                 /\ resv[r] \in ResvFrom("REDEEMED")
      BY <1>0, <3>1, SoldMaps, ResvFromIs DEF Sold, Held
    <3>2. CASE UNCHANGED resv
      BY <3>2, UnmovedMaps
    <3> QED
      BY <2>7, <3>1, <3>2 DEF RedeemCommits
  <2>8. CASE NoShow(r)
    BY <1>0, <2>8, SoldMaps, ResvFromIs DEF NoShow, Sold, Held
  <2>9. CASE \/ CreateIntent(r)
             \/ CreateIntentThrows(r)
             \/ ProviderFinishes(r)
             \/ WebhookArrives(r)
             \/ SweepQuery(r)
             \/ \E actor \in Actors : RedeemChecks(r, actor)
             \/ CreatorDies(r)
             \/ WebhookDies(r)
             \/ SweepDies(r)
    BY <2>9, UnmovedMaps
    DEF CreateIntent, CreateIntentThrows, ProviderFinishes, WebhookArrives,
        SweepQuery, RedeemChecks, CreatorDies, WebhookDies, SweepDies
  <2>10. CASE \/ RefundClaim(r)
              \/ RefundCall(r)
              \/ RefundCallThrows(r)
              \/ RefundReleasesClaim(r)
              \/ RefundRecords(r)
              \/ RefundRecordThrows(r)
              \/ RefundDies(r)
    BY <2>10, UnmovedMaps
    DEF RefundClaim, RefundCall, RefundCallThrows, RefundReleasesClaim,
        RefundRecords, RefundRecordThrows, RefundDies
  <2> QED
    BY <1>1, <2>3, <2>4, <2>5, <2>6, <2>7, <2>8, <2>9, <2>10
    DEF ReservationStep
<1>2. ASSUME NEW o \in Offers, OfferStep(o) PROVE Maps
  <2>1. CASE FanOutCommit(o)
    BY <2>1, FanOutCommitMaps
  <2>2. CASE \/ Schedule(o) \/ Publish(o) \/ SchedulerSelects(o)
             \/ SchedulerPublishes(o) \/ Terminalize(o) \/ Close(o)
             \/ FanOutStart(o)
             \/ \E r \in Reservations : FanOutPending(o, r)
             \/ \E r \in Reservations : FanOutConfirmed(o, r)
             \/ FanOutDies(o) \/ Tick(o)
    BY <2>2, UnmovedMaps
    DEF Schedule, Publish, SchedulerSelects, SchedulerPublishes, Terminalize,
        Close, FanOutStart, FanOutPending, FanOutConfirmed, FanOutDies, Tick
  <2> QED
    BY <1>2, <2>1, <2>2 DEF OfferStep
<1>3. CASE (\E m \in Merchants : Suspend(m)) \/ UNCHANGED vars
  BY <1>3, UnmovedMaps DEF Suspend, vars
<1> QED
  BY <1>1, <1>2, <1>3 DEF Next

(* The reservation subsystem implements the abstract inventory: bags are   *)
(* held, then sold for good or freed for good, and an offer never promises *)
(* more bags than it has.                                                  *)
THEOREM RefinesInventory == Spec => ImplementsInventory
<1>1. Init => Inventory!InvInit
  BY DEF Init, Inventory!InvInit, InStatus, Held, Sold, Freed
<1> QED
  BY <1>1, IInvInit, IInvStep, StepMaps, PTL
  DEF Spec, ImplementsInventory, Inventory!InvSpec

-----------------------------------------------------------------------------
(* The money                                                               *)

(* The statuses of a payment whose money was taken.                        *)
Charged == {"PAID", "REFUND_PENDING", "REFUNDED"}

(* The payment statuses a reservation of each status may have.             *)
RowsPair(r) ==
  /\ resv[r] = "NONE" => pay[r] = "NONE"
  /\ resv[r] = "PENDING_PAYMENT" => pay[r] \in Live
  /\ resv[r] = "CONFIRMED" => pay[r] = "PAID"
  /\ resv[r] \in Sold => pay[r] \in Charged
  /\ resv[r] \in Freed => pay[r] \in {"FAILED", "PAID", "REFUNDED"}

(* Only a checkout the provider reports as paid in full is booked as paid, *)
(* and it is not opened before its row exists, nor twice.                  *)
TookMoney(r) ==
  /\ pay[r] \in Charged => psp[r] = "paid"
  /\ sweep[r] = "paid" => psp[r] = "paid"
  /\ creator[r] = "calling" => psp[r] = "none" /\ resv[r] # "NONE"
  /\ resv[r] = "NONE" => psp[r] = "none"

(* What a refund under way has done so far, and what its end leaves.       *)
RefundUnderWay(r) ==
  /\ refundJob[r] \in {"calling", "releasing"} => pspRefunds[r] = 0
  /\ refundJob[r] = "recording" => pspRefunds[r] = 1
  /\ refundJob[r] # "idle" =>
       resv[r] \in Sold \cup Freed /\ pay[r] = RefundFrom(r)
  /\ refundJob[r] = "releasing" => resv[r] \in Sold

RefundBooked(r) ==
  /\ pspRefunds[r] \in {0, 1}
  /\ pay[r] = "REFUNDED" => pspRefunds[r] = 1
  /\ refundRows[r] \cap {"DONE", "SENT"} # {} => pspRefunds[r] = 1
  /\ "DONE" \in refundRows[r] => pay[r] = "REFUNDED"
  /\ resv[r] \notin Freed /\ pay[r] \notin {"REFUND_PENDING", "REFUNDED"}
       => refundJob[r] = "idle" /\ pspRefunds[r] = 0

MoneyRow(r) ==
  RowsPair(r) /\ TookMoney(r) /\ RefundUnderWay(r) /\ RefundBooked(r)

(* The fan-out fails the payments of the very reservations it expires, and *)
(* none of those it read as confirmed.                                     *)
FanMoney(o) ==
  /\ fan[o].failed = fan[o].expired
  /\ fan[o].conf \cap InStatus({"NONE", "PENDING_PAYMENT"}) = {}

(* The inductive invariant of the money.                                   *)
MoneyOK ==
  /\ \A r \in Reservations : MoneyRow(r)
  /\ \A o \in Offers : FanMoney(o)

-----------------------------------------------------------------------------
(* The money of reservation x is not touched.                              *)
MoneyStays(x) ==
  /\ resv'[x] = resv[x]
  /\ pay'[x] = pay[x]
  /\ refundRows'[x] = refundRows[x]
  /\ psp'[x] = psp[x]
  /\ pspRefunds'[x] = pspRefunds[x]
  /\ creator'[x] = creator[x]
  /\ sweep'[x] = sweep[x]
  /\ refundJob'[x] = refundJob[x]

(* Then it stays consistent.                                               *)
LEMMA MoneyFrame ==
  ASSUME NEW x \in Reservations, MoneyRow(x), MoneyStays(x)
  PROVE  MoneyRow(x)'
<1>1. RowsPair(x)'
  BY DEF MoneyRow, RowsPair, MoneyStays
<1>2. TookMoney(x)'
  BY DEF MoneyRow, TookMoney, MoneyStays
<1>3. RefundUnderWay(x)'
  BY DEF MoneyRow, RefundUnderWay, MoneyStays, RefundFrom
<1>4. RefundBooked(x)'
  BY DEF MoneyRow, RefundBooked, MoneyStays
<1> QED
  BY <1>1, <1>2, <1>3, <1>4 DEF MoneyRow

(* The types of what the money invariant speaks about.                     *)
LEMMA MoneyTypes ==
  ASSUME TypeOK
  PROVE  /\ resv \in [Reservations -> ReservationStatuses]
         /\ pay \in [Reservations -> PaymentStatuses]
         /\ refundRows \in [Reservations -> SUBSET {"FAILED", "DONE", "SENT"}]
         /\ psp \in [Reservations -> {"none", "pending"} \cup Finished]
         /\ pspRefunds \in [Reservations -> Nat]
         /\ creator \in [Reservations -> {"idle", "calling", "compensating"}]
         /\ sweep \in [Reservations -> {"idle", "paid", "mispaid", "unpaid"}]
         /\ refundJob \in
              [Reservations -> {"idle", "calling", "recording", "releasing"}]
BY DEF TypeOK, RowTypes, ProviderTypes, HandlerTypes

(* A step of one reservation touches the money of no other.                *)
LEMMA OthersKeepMoney ==
  ASSUME TypeOK, NEW r \in Reservations, ReservationStep(r),
         NEW x \in Reservations \ {r}
  PROVE  MoneyStays(x)
<1> USE MoneyTypes DEF MoneyStays, offerVars, rowVars, providerVars,
                       handlerVars, offerTasks, worldVars
<1>1. CASE CreateReservation(r) \/ CreateIntent(r) \/ CreateIntentThrows(r)
  BY <1>1 DEF CreateReservation, CreateIntent, CreateIntentThrows
<1>2. CASE CompensateFailedIntent(r)
  BY <1>2 DEF CompensateFailedIntent, ExpireAndRelease
<1>3. CASE ProviderFinishes(r) \/ WebhookArrives(r) \/ SweepQuery(r)
  BY <1>3 DEF ProviderFinishes, WebhookArrives, SweepQuery
<1>4. CASE WebhookSettles(r) \/ SweepSettles(r)
  BY <1>4 DEF WebhookSettles, SweepSettles, Settle, SettleSuccess,
              ExpireAndRelease
<1>5. CASE Cancel(r) \/ NoShow(r)
  BY <1>5 DEF Cancel, NoShow
<1>6. CASE \E actor \in Actors : RedeemChecks(r, actor) \/ RedeemCommits(r, actor)
  BY <1>6 DEF RedeemChecks, RedeemCommits
<1>7. CASE \/ RefundClaim(r) \/ RefundCall(r) \/ RefundCallThrows(r)
           \/ RefundReleasesClaim(r) \/ RefundRecords(r) \/ RefundDies(r)
  BY <1>7 DEF RefundClaim, RefundCall, RefundCallThrows, RefundReleasesClaim,
              RefundRecords, RefundDies
<1>8. CASE RefundRecordThrows(r)
  BY <1>8 DEF RefundRecordThrows
<1>9. CASE CreatorDies(r) \/ WebhookDies(r) \/ SweepDies(r)
  BY <1>9 DEF CreatorDies, WebhookDies, SweepDies
<1> QED
  BY <1>1, <1>2, <1>3, <1>4, <1>5, <1>6, <1>7, <1>8, <1>9 DEF ReservationStep

(* Whether a reservation is one a fan-out may have read as confirmed.      *)
StaysConfirmable(x) ==
  resv'[x] \in {"NONE", "PENDING_PAYMENT"} => resv[x] \in {"NONE", "PENDING_PAYMENT"}

(* A payment that was live fails with its reservation.                     *)
LEMMA ExpireAndReleaseMoney ==
  ASSUME TypeOK, NEW r \in Reservations, MoneyRow(r), ExpireAndRelease(r),
         psp' = psp, pspRefunds' = pspRefunds, refundRows' = refundRows,
         refundJob' = refundJob, sweep'[r] \in {sweep[r], "idle"},
         creator'[r] \in {creator[r], "idle"}
  PROVE  MoneyRow(r)' /\ StaysConfirmable(r)
<1> USE MoneyTypes
<1>1. CASE pay[r] \in Live
  <2>1. resv[r] = "PENDING_PAYMENT"
    BY <1>1, Domains
    DEF MoneyRow, RowsPair, Live, Charged, Sold, Freed, ReservationStatuses
  <2>2. resv'[r] = "EXPIRED" /\ pay'[r] = "FAILED"
    BY <1>1, <2>1, ResvFromIs DEF ExpireAndRelease
  <2>3. RowsPair(r)' /\ TookMoney(r)'
    BY <2>1, <2>2 DEF MoneyRow, RowsPair, TookMoney, Charged, Sold, Freed
  <2>4. RefundUnderWay(r)' /\ RefundBooked(r)'
    BY <1>1, <2>1, <2>2
    DEF MoneyRow, RefundUnderWay, RefundBooked, RefundFrom, Sold, Freed, Live
  <2> QED
    BY <2>2, <2>3, <2>4 DEF MoneyRow, StaysConfirmable
<1>2. CASE pay[r] \notin Live
  <2>1. resv'[r] = resv[r] /\ pay'[r] = pay[r]
    BY <1>2 DEF ExpireAndRelease
  <2> QED
    BY <2>1 DEF MoneyRow, RowsPair, TookMoney, RefundUnderWay, RefundBooked,
                RefundFrom, StaysConfirmable
<1> QED
  BY <1>1, <1>2

(* settle() books as paid what the provider reports as paid.               *)
LEMMA SettleMoney ==
  ASSUME TypeOK, NEW r \in Reservations, MoneyRow(r), NEW answer,
         Settle(r, answer), answer = "paid" => psp[r] = "paid",
         psp' = psp, pspRefunds' = pspRefunds, refundRows' = refundRows,
         refundJob' = refundJob, sweep'[r] \in {sweep[r], "idle"},
         creator' = creator
  PROVE  MoneyRow(r)' /\ StaysConfirmable(r)
<1> USE MoneyTypes
<1>1. CASE answer # "paid"
  BY <1>1, ExpireAndReleaseMoney DEF Settle
<1>2. CASE answer = "paid" /\ pay[r] \in Live /\ resv[r] = "PENDING_PAYMENT"
  <2>1. resv'[r] = "CONFIRMED" /\ pay'[r] = "PAID"
    BY <1>2, ResvFromIs DEF Settle, SettleSuccess
  <2>2. RowsPair(r)' /\ TookMoney(r)'
    BY <1>2, <2>1 DEF MoneyRow, RowsPair, TookMoney, Sold, Freed
  <2>3. RefundUnderWay(r)' /\ RefundBooked(r)'
    BY <1>2, <2>1
    DEF MoneyRow, RefundUnderWay, RefundBooked, RefundFrom, Sold, Freed, Live
  <2> QED
    BY <2>1, <2>2, <2>3 DEF MoneyRow, StaysConfirmable
<1>3. CASE answer = "paid" /\ ~(pay[r] \in Live /\ resv[r] = "PENDING_PAYMENT")
  <2>1. resv'[r] = resv[r] /\ pay'[r] = pay[r]
    BY <1>3, ResvFromIs DEF Settle, SettleSuccess
  <2> QED
    BY <2>1 DEF MoneyRow, RowsPair, TookMoney, RefundUnderWay, RefundBooked,
                RefundFrom, StaysConfirmable
<1> QED
  BY <1>1, <1>2, <1>3

(* The reservation's own money, step by step.                              *)
LEMMA OwnMoney ==
  ASSUME TypeOK, NEW r \in Reservations, MoneyRow(r), ReservationStep(r)
  PROVE  MoneyRow(r)' /\ StaysConfirmable(r)
<1> USE MoneyTypes DEF offerVars, rowVars, providerVars, handlerVars,
                       offerTasks, worldVars
<1>1. CASE CreateReservation(r)
  <2>1. /\ resv[r] = "NONE" /\ resv'[r] = "PENDING_PAYMENT"
        /\ pay'[r] = "INTENT" /\ creator'[r] = "calling"
        /\ refundRows' = refundRows /\ psp' = psp /\ pspRefunds' = pspRefunds
        /\ sweep' = sweep /\ refundJob' = refundJob
    BY <1>1 DEF CreateReservation
  <2>2. RowsPair(r)' /\ TookMoney(r)'
    BY <2>1 DEF MoneyRow, RowsPair, TookMoney, Charged, Sold, Freed, Live
  <2>3. RefundUnderWay(r)' /\ RefundBooked(r)'
    BY <2>1
    DEF MoneyRow, RowsPair, RefundUnderWay, RefundBooked, RefundFrom, Sold, Freed
  <2> QED
    BY <2>1, <2>2, <2>3 DEF MoneyRow, StaysConfirmable
<1>2. CASE CreateIntent(r) \/ CreateIntentThrows(r) \/ CreatorDies(r)
  <2>1. /\ resv' = resv /\ pay' = pay /\ refundRows' = refundRows
        /\ pspRefunds' = pspRefunds /\ sweep' = sweep /\ refundJob' = refundJob
        /\ creator'[r] # "calling"
        /\ psp'[r] = psp[r] \/ (creator[r] = "calling" /\ psp'[r] = "pending")
    BY <1>2 DEF CreateIntent, CreateIntentThrows, CreatorDies
  <2>2. TookMoney(r)'
    BY <2>1 DEF MoneyRow, TookMoney
  <2> QED
    BY <2>1, <2>2 DEF MoneyRow, RowsPair, RefundUnderWay, RefundBooked,
                      RefundFrom, StaysConfirmable
<1>3. CASE CompensateFailedIntent(r)
  BY <1>3, ExpireAndReleaseMoney DEF CompensateFailedIntent
<1>4. CASE ProviderFinishes(r)
  <2>1. /\ resv' = resv /\ pay' = pay /\ refundRows' = refundRows
        /\ pspRefunds' = pspRefunds /\ sweep' = sweep /\ refundJob' = refundJob
        /\ creator' = creator /\ psp[r] = "pending"
    BY <1>4 DEF ProviderFinishes
  <2>2. TookMoney(r)'
    BY <2>1 DEF MoneyRow, TookMoney
  <2> QED
    BY <2>1, <2>2 DEF MoneyRow, RowsPair, RefundUnderWay, RefundBooked,
                      RefundFrom, StaysConfirmable
<1>5. CASE WebhookSettles(r)
  BY <1>5, SettleMoney DEF WebhookSettles
<1>6. CASE SweepSettles(r)
  BY <1>6, SettleMoney DEF SweepSettles, MoneyRow, TookMoney
<1>7. CASE SweepQuery(r)
  <2>1. /\ resv' = resv /\ pay' = pay /\ refundRows' = refundRows
        /\ pspRefunds' = pspRefunds /\ psp' = psp /\ refundJob' = refundJob
        /\ creator' = creator /\ (sweep'[r] = "paid" => psp[r] = "paid")
    BY <1>7 DEF SweepQuery
  <2>2. TookMoney(r)'
    BY <2>1 DEF MoneyRow, TookMoney
  <2> QED
    BY <2>1, <2>2 DEF MoneyRow, RowsPair, RefundUnderWay, RefundBooked,
                      RefundFrom, StaysConfirmable
<1>8. CASE Cancel(r)
  <2>1. /\ resv[r] \in Held /\ resv'[r] = "CANCELLED_BY_USER"
        /\ pay'[r] = CancelledPayment(r) /\ refundJob'[r] = RefundOwed(r)
        /\ refundRows' = refundRows /\ psp' = psp /\ pspRefunds' = pspRefunds
        /\ sweep' = sweep /\ creator' = creator
    BY <1>8, ResvFromIs DEF Cancel, Held
  <2>2. /\ pay[r] \in Live => pay'[r] = "FAILED"
        /\ pay[r] = "PAID" => pay'[r] = "PAID"
        /\ resv[r] = "CONFIRMED" => pay[r] = "PAID" /\ refundJob'[r] = "calling"
        /\ resv[r] # "CONFIRMED" => pay[r] \in Live /\ refundJob'[r] = refundJob[r]
    BY <2>1 DEF CancelledPayment, RefundOwed, Live, MoneyRow, RowsPair, Held
  <2>3. RowsPair(r)' /\ TookMoney(r)'
    BY <2>1, <2>2 DEF MoneyRow, RowsPair, TookMoney, Charged, Sold, Freed, Live
  <2>4. refundJob[r] = "idle" /\ pspRefunds[r] = 0
    BY <2>1, <2>2 DEF MoneyRow, RefundBooked, Freed, Held, Live
  <2>5. RefundUnderWay(r)' /\ RefundBooked(r)'
    BY <2>1, <2>2, <2>4
    DEF MoneyRow, RefundUnderWay, RefundBooked, RefundFrom, Sold, Freed
  <2> QED
    BY <2>1, <2>3, <2>5 DEF MoneyRow, StaysConfirmable
<1>9. CASE NoShow(r) \/ \E actor \in Actors : RedeemCommits(r, actor)
  <2>1. /\ pay' = pay /\ refundRows' = refundRows /\ psp' = psp
        /\ pspRefunds' = pspRefunds /\ sweep' = sweep /\ creator' = creator
        /\ refundJob' = refundJob
        /\ resv'[r] = resv[r] \/ (resv[r] = "CONFIRMED" /\ resv'[r] \in Sold)
    BY <1>9, ResvFromIs DEF NoShow, RedeemCommits, Sold
  <2>2. RowsPair(r)' /\ TookMoney(r)'
    BY <2>1 DEF MoneyRow, RowsPair, TookMoney, Charged, Sold, Freed
  <2>3. RefundUnderWay(r)' /\ RefundBooked(r)'
    BY <2>1
    DEF MoneyRow, RowsPair, RefundUnderWay, RefundBooked, RefundFrom, Sold, Freed
  <2> QED
    BY <2>1, <2>2, <2>3 DEF MoneyRow, StaysConfirmable, Sold
<1>10. CASE RefundClaim(r)
  <2>1. /\ resv' = resv /\ refundRows' = refundRows /\ psp' = psp
        /\ pspRefunds' = pspRefunds /\ sweep' = sweep /\ creator' = creator
        /\ resv[r] \in Sold /\ pay[r] = "PAID"
        /\ pay'[r] = "REFUND_PENDING" /\ refundJob'[r] = "calling"
    BY <1>10 DEF RefundClaim
  <2>2. RowsPair(r)' /\ TookMoney(r)'
    BY <2>1 DEF MoneyRow, RowsPair, TookMoney, Charged, Sold, Freed
  <2>3. RefundUnderWay(r)' /\ RefundBooked(r)'
    BY <2>1
    DEF MoneyRow, RefundUnderWay, RefundBooked, RefundFrom, Sold, Freed
  <2> QED
    BY <2>1, <2>2, <2>3 DEF MoneyRow, StaysConfirmable
<1>11. CASE RefundCall(r) \/ RefundCallThrows(r) \/ RefundDies(r)
  <2>1. /\ resv' = resv /\ pay' = pay /\ psp' = psp
        /\ sweep' = sweep /\ creator' = creator
    BY <1>11 DEF RefundCall, RefundCallThrows, RefundDies
  <2>2. RowsPair(r)' /\ TookMoney(r)' /\ StaysConfirmable(r)
    BY <2>1 DEF MoneyRow, RowsPair, TookMoney, StaysConfirmable
  <2>3. \/ /\ refundJob[r] = "calling" /\ refundJob'[r] = "recording"
           /\ pspRefunds'[r] = pspRefunds[r] + 1 /\ refundRows' = refundRows
        \/ /\ refundJob[r] = "calling"
           /\ refundJob'[r] = IF resv[r] \in Sold THEN "releasing" ELSE "idle"
           /\ pspRefunds' = pspRefunds
           /\ refundRows'[r] \subseteq refundRows[r] \cup {"FAILED"}
        \/ /\ refundJob'[r] = "idle" /\ pspRefunds' = pspRefunds
           /\ refundRows' = refundRows
    BY <1>11 DEF RefundCall, RefundCallThrows, RefundDies
  <2>4. RefundUnderWay(r)' /\ RefundBooked(r)'
    BY <2>1, <2>3
    DEF MoneyRow, RefundUnderWay, RefundBooked, RefundFrom, Sold, Freed
  <2> QED
    BY <2>2, <2>4 DEF MoneyRow
<1>12. CASE RefundReleasesClaim(r)
  <2>1. /\ resv' = resv /\ refundRows' = refundRows /\ psp' = psp
        /\ pspRefunds' = pspRefunds /\ sweep' = sweep /\ creator' = creator
        /\ refundJob[r] = "releasing" /\ refundJob'[r] = "idle"
        /\ pay[r] = "REFUND_PENDING" => pay'[r] = "PAID"
    BY <1>12 DEF RefundReleasesClaim
  <2>2. resv[r] \in Sold /\ pay[r] = "REFUND_PENDING"
    BY <2>1 DEF MoneyRow, RefundUnderWay, RefundFrom
  <2>3. RowsPair(r)' /\ TookMoney(r)'
    BY <2>1, <2>2 DEF MoneyRow, RowsPair, TookMoney, Charged, Sold, Freed
  <2>4. RefundUnderWay(r)' /\ RefundBooked(r)'
    BY <2>1, <2>2 DEF MoneyRow, RefundUnderWay, RefundBooked, Sold, Freed
  <2> QED
    BY <2>1, <2>3, <2>4 DEF MoneyRow, StaysConfirmable
<1>13. CASE RefundRecords(r) \/ RefundRecordThrows(r)
  <2>1. /\ resv' = resv /\ psp' = psp
        /\ pspRefunds' = pspRefunds /\ sweep' = sweep /\ creator' = creator
        /\ refundJob[r] = "recording" /\ refundJob'[r] = "idle"
        /\ \/ /\ refundRows'[r] = refundRows[r] \cup {"DONE"}
              /\ pay'[r] = Refunded(r)
           \/ /\ refundRows'[r] \subseteq refundRows[r] \cup {"SENT"}
              /\ pay'[r] \in {pay[r], Refunded(r)}
    BY <1>13 DEF RefundRecords, RefundRecordThrows
  <2>2. /\ pspRefunds[r] = 1 /\ Refunded(r) = "REFUNDED"
        /\ resv[r] \in Sold => pay[r] = "REFUND_PENDING"
        /\ resv[r] \in Freed \ Sold => pay[r] = "PAID"
        /\ resv[r] \in Sold \cup Freed
    BY <2>1 DEF MoneyRow, RefundUnderWay, RefundFrom, Refunded
  <2>3. RowsPair(r)' /\ TookMoney(r)'
    BY <2>1, <2>2 DEF MoneyRow, RowsPair, TookMoney, Charged, Sold, Freed
  <2>4. RefundUnderWay(r)' /\ RefundBooked(r)'
    BY <2>1, <2>2 DEF MoneyRow, RefundUnderWay, RefundBooked, Sold, Freed
  <2> QED
    BY <2>1, <2>3, <2>4 DEF MoneyRow, StaysConfirmable
<1>14. CASE \/ WebhookArrives(r) \/ WebhookDies(r)
            \/ \E actor \in Actors : RedeemChecks(r, actor)
  <2>1. MoneyStays(r)
    BY <1>14 DEF WebhookArrives, WebhookDies, RedeemChecks, MoneyStays
  <2> QED
    BY <2>1, MoneyFrame DEF MoneyStays, StaysConfirmable
<1>15. CASE SweepDies(r)
  BY <1>15 DEF SweepDies, MoneyRow, RowsPair, TookMoney, RefundUnderWay,
               RefundBooked, RefundFrom, StaysConfirmable
<1> QED
  BY <1>1, <1>2, <1>3, <1>4, <1>5, <1>6, <1>7, <1>8, <1>9, <1>10, <1>11,
     <1>12, <1>13, <1>14, <1>15 DEF ReservationStep

(* The commit of a fan-out fails live payments, and owes a refund to the   *)
(* reservations that were paid for.                                        *)
LEMMA FanOutCommitMoney ==
  ASSUME IInv, MoneyOK, NEW o \in Offers, FanOutCommit(o),
         NEW x \in Reservations
  PROVE  MoneyRow(x)' /\ StaysConfirmable(x)
<1> DEFINE f == fan[o]
<1>1. /\ pay' = [r \in Reservations |-> IF r \in f.failed THEN "FAILED" ELSE pay[r]]
      /\ resv' = [r \in Reservations |->
                    CASE r \in f.expired   -> "EXPIRED"
                      [] r \in f.cancelled -> "CANCELLED_BY_MERCHANT"
                      [] OTHER             -> resv[r]]
      /\ refundJob' = [r \in Reservations |->
                         IF r \in f.cancelled THEN "calling" ELSE refundJob[r]]
      /\ refundRows' = refundRows /\ psp' = psp /\ pspRefunds' = pspRefunds
      /\ sweep' = sweep /\ creator' = creator
  BY DEF FanOutCommit, providerVars
<1>2. /\ f.failed = f.expired
      /\ x \in f.expired => resv[x] = "PENDING_PAYMENT"
      /\ x \in f.cancelled => resv[x] = "CONFIRMED"
      /\ MoneyRow(x)
  BY DEF IInv, StockOK, FanOK, InStatus, MoneyOK, FanMoney
<1> HIDE DEF f
<1>3. CASE x \in f.expired
  <2>1. /\ resv[x] = "PENDING_PAYMENT" /\ resv'[x] = "EXPIRED"
        /\ pay'[x] = "FAILED" /\ refundJob'[x] = refundJob[x]
    BY <1>1, <1>2, <1>3
  <2>2. RowsPair(x)' /\ TookMoney(x)'
    BY <1>1, <1>2, <2>1 DEF MoneyRow, RowsPair, TookMoney, Charged, Sold, Freed
  <2>3. RefundUnderWay(x)' /\ RefundBooked(x)'
    BY <1>1, <1>2, <2>1
    DEF MoneyRow, RowsPair, RefundUnderWay, RefundBooked, RefundFrom, Sold,
        Freed, Live
  <2> QED
    BY <2>1, <2>2, <2>3 DEF MoneyRow, StaysConfirmable
<1>4. CASE x \notin f.expired /\ x \in f.cancelled
  <2>1. /\ resv[x] = "CONFIRMED" /\ resv'[x] = "CANCELLED_BY_MERCHANT"
        /\ pay'[x] = pay[x] /\ refundJob'[x] = "calling"
    BY <1>1, <1>2, <1>4
  <2>2. RowsPair(x)' /\ TookMoney(x)'
    BY <1>1, <1>2, <2>1 DEF MoneyRow, RowsPair, TookMoney, Charged, Sold, Freed
  <2>3. RefundUnderWay(x)' /\ RefundBooked(x)'
    BY <1>1, <1>2, <2>1
    DEF MoneyRow, RowsPair, RefundUnderWay, RefundBooked, RefundFrom, Sold, Freed
  <2> QED
    BY <2>1, <2>2, <2>3 DEF MoneyRow, StaysConfirmable
<1>5. CASE x \notin f.expired /\ x \notin f.cancelled
  <2>1. MoneyStays(x)
    BY <1>1, <1>2, <1>5 DEF MoneyStays
  <2> QED
    BY <1>2, <2>1, MoneyFrame DEF MoneyStays, StaysConfirmable
<1> QED
  BY <1>3, <1>4, <1>5

(* Every other step leaves the money alone.                                *)
LEMMA OtherStepsKeepMoney ==
  ASSUME \/ \E o \in Offers : OfferStep(o) /\ ~FanOutCommit(o)
         \/ \E m \in Merchants : Suspend(m)
         \/ UNCHANGED vars,
         NEW x \in Reservations
  PROVE  MoneyStays(x)
<1> USE DEF MoneyStays, vars, offerVars, rowVars, providerVars, handlerVars,
            offerTasks, worldVars
<1>1. ASSUME NEW o \in Offers, OfferStep(o), ~FanOutCommit(o)
      PROVE  MoneyStays(x)
  BY <1>1 DEF OfferStep, Schedule, Publish, SchedulerSelects,
              SchedulerPublishes, Terminalize, Close, FanOutStart,
              FanOutPending, FanOutConfirmed, FanOutDies, Tick
<1>2. ASSUME NEW m \in Merchants, Suspend(m) PROVE MoneyStays(x)
  BY <1>2 DEF Suspend
<1>3. CASE UNCHANGED vars
  BY <1>3
<1> QED
  BY <1>1, <1>2, <1>3

(* What any step does to the money of one reservation.                     *)
LEMMA MoneyRowStep ==
  ASSUME IInv, MoneyOK, [Next]_vars, NEW x \in Reservations
  PROVE  MoneyRow(x)' /\ StaysConfirmable(x)
<1>1. ASSUME MoneyStays(x) PROVE MoneyRow(x)' /\ StaysConfirmable(x)
  BY <1>1, MoneyFrame DEF MoneyOK, MoneyStays, StaysConfirmable
<1>2. ASSUME NEW r \in Reservations, ReservationStep(r)
      PROVE  MoneyRow(x)' /\ StaysConfirmable(x)
  <2>1. CASE x = r
    BY <1>2, <2>1, OwnMoney DEF IInv, MoneyOK
  <2>2. CASE x # r
    BY <1>1, <1>2, <2>2, OthersKeepMoney DEF IInv
  <2> QED
    BY <2>1, <2>2
<1>3. CASE \/ \E o \in Offers : OfferStep(o) /\ ~FanOutCommit(o)
           \/ \E m \in Merchants : Suspend(m)
           \/ UNCHANGED vars
  BY <1>1, <1>3, OtherStepsKeepMoney
<1>4. ASSUME NEW o \in Offers, FanOutCommit(o)
      PROVE  MoneyRow(x)' /\ StaysConfirmable(x)
  BY <1>4, FanOutCommitMoney
<1> QED
  BY <1>2, <1>3, <1>4 DEF Next

(* A fan-out whose record did not change keeps its part of the invariant.  *)
LEMMA FanMoneyFrame ==
  ASSUME NEW o \in Offers, FanMoney(o), fan'[o] = fan[o],
         \A x \in Reservations : StaysConfirmable(x)
  PROVE  FanMoney(o)'
BY DEF FanMoney, InStatus, StaysConfirmable

(* No reservation step opens or closes a fan-out.                          *)
LEMMA ReservationStepKeepsFan ==
  ASSUME NEW r \in Reservations, ReservationStep(r)
  PROVE  fan' = fan
<1> USE DEF handlerVars, offerTasks
<1>1. CASE \/ CreateReservation(r) \/ CreateIntent(r) \/ CreateIntentThrows(r)
           \/ CompensateFailedIntent(r) \/ ProviderFinishes(r)
           \/ WebhookArrives(r) \/ WebhookSettles(r) \/ SweepQuery(r)
           \/ SweepSettles(r) \/ Cancel(r) \/ NoShow(r)
  BY <1>1 DEF CreateReservation, CreateIntent, CreateIntentThrows,
              CompensateFailedIntent, ProviderFinishes, WebhookArrives,
              WebhookSettles, SweepQuery, SweepSettles, Cancel, NoShow
<1>2. CASE \E actor \in Actors : RedeemChecks(r, actor) \/ RedeemCommits(r, actor)
  BY <1>2 DEF RedeemChecks, RedeemCommits
<1>3. CASE \/ RefundClaim(r) \/ RefundCall(r) \/ RefundCallThrows(r)
           \/ RefundReleasesClaim(r) \/ RefundRecords(r)
           \/ RefundRecordThrows(r) \/ CreatorDies(r) \/ WebhookDies(r)
           \/ SweepDies(r) \/ RefundDies(r)
  BY <1>3 DEF RefundClaim, RefundCall, RefundCallThrows, RefundReleasesClaim,
              RefundRecords, RefundRecordThrows, CreatorDies, WebhookDies,
              SweepDies, RefundDies
<1> QED
  BY <1>1, <1>2, <1>3 DEF ReservationStep

(* The steps of a fan-out.                                                 *)
LEMMA FanMoneyStep ==
  ASSUME IInv, MoneyOK, [Next]_vars, NEW o \in Offers
  PROVE  FanMoney(o)'
<1> USE DEF vars, offerVars, rowVars, providerVars, handlerVars,
            offerTasks, worldVars
<1>0. /\ \A x \in Reservations : StaysConfirmable(x)
      /\ fan \in [Offers -> FanRecord] /\ FanMoney(o)
  BY MoneyRowStep DEF IInv, TypeOK, TaskTypes, MoneyOK
<1>1. ASSUME fan'[o] = fan[o] PROVE FanMoney(o)'
  BY <1>0, <1>1, FanMoneyFrame
<1>2. CASE FanOutStart(o)
  <2>1. fan'[o] = OpenFan(o)
    BY <1>0, <1>2 DEF FanOutStart
  <2>2. /\ fan'[o].failed = {} /\ fan'[o].expired = {}
        /\ fan'[o].conf \subseteq InStatus({"CONFIRMED"})
    BY <2>1 DEF OpenFan, On
  <2>3. resv' = resv
    BY <1>2 DEF FanOutStart
  <2> QED
    BY <2>2, <2>3 DEF FanMoney, InStatus
<1>3. ASSUME NEW r \in Reservations, FanOutPending(o, r) PROVE FanMoney(o)'
  <2>1. fan'[o] = ExpireInFan(fan[o], r) /\ fan[o] \in FanRecord /\ resv' = resv
    BY <1>0, <1>3 DEF FanOutPending
  <2>2. /\ fan'[o].failed = fan[o].failed \cup LiveIntent(r)
        /\ fan'[o].expired = fan[o].expired \cup Movable(r, "EXPIRED")
        /\ fan'[o].conf = fan[o].conf
    BY <2>1 DEF ExpireInFan, FanRecord
  <2>3. LiveIntent(r) = Movable(r, "EXPIRED")
    <3>1. resv[r] \in ReservationStatuses /\ MoneyRow(r)
      BY DEF IInv, TypeOK, RowTypes, MoneyOK
    <3>2. pay[r] \in Live <=> resv[r] = "PENDING_PAYMENT"
      BY <3>1, Domains DEF ReservationStatuses, MoneyRow, RowsPair, Live,
                           Charged, Sold, Freed
    <3> QED
      BY <3>2, ResvFromIs DEF LiveIntent, Movable
  <2> QED
    BY <1>0, <2>1, <2>2, <2>3 DEF FanMoney, InStatus
<1>4. ASSUME NEW r \in Reservations, FanOutConfirmed(o, r) PROVE FanMoney(o)'
  <2>1. /\ fan'[o] = CancelInFan(fan[o], r) /\ fan[o] \in FanRecord
        /\ resv' = resv /\ r \in fan[o].conf
    BY <1>0, <1>4 DEF FanOutConfirmed
  <2>2. /\ fan'[o].failed = fan[o].failed \cup LiveIntent(r)
        /\ fan'[o].expired = fan[o].expired
        /\ fan'[o].conf = fan[o].conf \ {r}
    BY <2>1 DEF CancelInFan, FanRecord
  <2>3. LiveIntent(r) = {}
    <3>1. /\ resv[r] \in ReservationStatuses /\ MoneyRow(r)
          /\ resv[r] \notin {"NONE", "PENDING_PAYMENT"}
      BY <1>0, <2>1 DEF IInv, TypeOK, RowTypes, MoneyOK, FanMoney, InStatus
    <3>2. pay[r] \notin Live
      BY <3>1, Domains DEF ReservationStatuses, MoneyRow, RowsPair, Live,
                           Charged, Sold, Freed
    <3> QED
      BY <3>2 DEF LiveIntent
  <2> QED
    BY <1>0, <2>1, <2>2, <2>3 DEF FanMoney, InStatus
<1>5. CASE FanOutCommit(o) \/ FanOutDies(o)
  <2>1. fan'[o] = NoFan
    BY <1>0, <1>5 DEF FanOutCommit, FanOutDies
  <2> QED
    BY <2>1 DEF FanMoney, NoFan
<1>6. ASSUME NEW q \in Offers, OfferStep(q), q # o PROVE FanMoney(o)'
  <2>1. fan'[o] = fan[o]
    BY <1>0, <1>6
    DEF OfferStep, Schedule, Publish, SchedulerSelects, SchedulerPublishes,
        Terminalize, Close, FanOutStart, FanOutPending, FanOutConfirmed,
        FanOutCommit, FanOutDies, Tick
  <2> QED
    BY <1>1, <2>1
<1>7. CASE \/ Schedule(o) \/ Publish(o) \/ SchedulerSelects(o)
           \/ SchedulerPublishes(o) \/ Terminalize(o) \/ Close(o) \/ Tick(o)
  <2>1. fan'[o] = fan[o]
    BY <1>7 DEF Schedule, Publish, SchedulerSelects, SchedulerPublishes,
                Terminalize, Close, Tick
  <2> QED
    BY <1>1, <2>1
<1>8. ASSUME NEW r \in Reservations, ReservationStep(r) PROVE FanMoney(o)'
  <2>1. fan'[o] = fan[o]
    BY <1>8, ReservationStepKeepsFan
  <2> QED
    BY <1>1, <2>1
<1>9. CASE (\E m \in Merchants : Suspend(m)) \/ UNCHANGED vars
  <2>1. fan'[o] = fan[o]
    BY <1>9 DEF Suspend
  <2> QED
    BY <1>1, <2>1
<1> QED
  BY <1>2, <1>3, <1>4, <1>5, <1>6, <1>7, <1>8, <1>9 DEF Next, OfferStep

(* The money stays consistent through every step.                          *)
LEMMA MoneyStep == IInv /\ MoneyOK /\ [Next]_vars => MoneyOK'
<1> SUFFICES ASSUME IInv, MoneyOK, [Next]_vars PROVE MoneyOK'
  OBVIOUS
<1> QED
  BY MoneyRowStep, FanMoneyStep DEF MoneyOK

(* Nobody has paid anything yet.                                           *)
LEMMA MoneyInit == Init => MoneyOK
<1> SUFFICES ASSUME Init PROVE MoneyOK
  OBVIOUS
<1>1. ASSUME NEW r \in Reservations PROVE MoneyRow(r)
  BY DEF Init, MoneyRow, RowsPair, TookMoney, RefundUnderWay, RefundBooked,
         Charged, Sold, Freed, Live
<1>2. ASSUME NEW o \in Offers PROVE FanMoney(o)
  BY DEF Init, FanMoney, NoFan
<1> QED
  BY <1>1, <1>2 DEF MoneyOK

(* settleSuccess never meets a live intent whose reservation is gone: the  *)
(* payment and the reservation rows always move together.                  *)
THEOREM PaymentsAgree == Spec => []PaymentAgrees
<1>1. IInv /\ MoneyOK => PaymentAgrees
  <2> SUFFICES ASSUME IInv, MoneyOK, NEW r \in Reservations
               PROVE  /\ pay[r] \in Live <=> resv[r] = "PENDING_PAYMENT"
                      /\ resv[r] = "CONFIRMED" => pay[r] = "PAID"
                      /\ pay[r] = "FAILED" => resv[r] \in Freed
    BY DEF PaymentAgrees
  <2>1. resv[r] \in ReservationStatuses /\ RowsPair(r)
    BY DEF IInv, TypeOK, RowTypes, MoneyOK, MoneyRow
  <2> QED
    BY <2>1, Domains
    DEF ReservationStatuses, RowsPair, Live, Charged, Sold, Freed
<1> QED
  BY <1>1, IInvInit, IInvStep, MoneyInit, MoneyStep, PTL DEF Spec

(* However cancels, complaints, fan-outs and webhooks interleave, the      *)
(* provider is never asked twice to refund a payment.                      *)
THEOREM RefundedOnce == Spec => []NoDoubleRefund
<1>1. MoneyOK => NoDoubleRefund
  BY DEF MoneyOK, MoneyRow, RefundBooked, NoDoubleRefund
<1> QED
  BY <1>1, IInvInit, IInvStep, MoneyInit, MoneyStep, PTL DEF Spec

(* The settlement scan pays the merchant for money the provider took and   *)
(* did not give back.                                                      *)
THEOREM SettledMoneyIsReal == Spec => []SettleableMoneyIsReal
<1>1. MoneyOK => SettleableMoneyIsReal
  BY DEF MoneyOK, MoneyRow, TookMoney, RefundBooked, SettleableMoneyIsReal,
         InStatus, Charged, Sold, Freed
<1> QED
  BY <1>1, IInvInit, IInvStep, MoneyInit, MoneyStep, PTL DEF Spec

(* A refund is booked only after the provider carried it out.              *)
THEOREM BooksNeverRunAhead == Spec => []BooksFollowMoney
<1>1. MoneyOK => BooksFollowMoney
  BY DEF MoneyOK, MoneyRow, RefundBooked, BooksFollowMoney
<1> QED
  BY <1>1, IInvInit, IInvStep, MoneyInit, MoneyStep, PTL DEF Spec

-----------------------------------------------------------------------------
(* What is settled stays settled                                           *)

(* The transition table is obeyed, and a payment that was settled moves    *)
(* only the way a refund moves it.                                         *)
Obeys(x) ==
  /\ resv'[x] # resv[x] =>
       \/ resv[x] = "NONE" /\ resv'[x] = "PENDING_PAYMENT"
       \/ resv[x] \in ResvFrom(resv'[x])
  /\ pay[x] = "FAILED" => pay'[x] = "FAILED"
  /\ pay[x] = "PAID" => pay'[x] \in Charged

(* The failure branch of settle() and the compensation of an intent obey.  *)
LEMMA ExpireAndReleaseObeys ==
  ASSUME TypeOK, NEW r \in Reservations, ExpireAndRelease(r)
  PROVE  Obeys(r)
BY MoneyTypes DEF ExpireAndRelease, Obeys, Live, Charged

(* So does settle() as a whole.                                            *)
LEMMA SettleObeys ==
  ASSUME TypeOK, NEW r \in Reservations, NEW answer, Settle(r, answer)
  PROVE  Obeys(r)
<1>1. CASE answer # "paid"
  BY <1>1, ExpireAndReleaseObeys DEF Settle
<1>2. CASE answer = "paid"
  BY <1>2, MoneyTypes DEF Settle, SettleSuccess, Obeys, Live, Charged
<1> QED
  BY <1>1, <1>2

(* Every step of a reservation obeys.                                      *)
LEMMA OwnObeys ==
  ASSUME TypeOK, NEW r \in Reservations, MoneyRow(r), ReservationStep(r)
  PROVE  Obeys(r)
<1> USE MoneyTypes DEF rowVars, handlerVars
<1>1. CASE CreateReservation(r)
  BY <1>1 DEF CreateReservation, Obeys, Charged, MoneyRow, RowsPair
<1>2. CASE CompensateFailedIntent(r)
  BY <1>2, ExpireAndReleaseObeys DEF CompensateFailedIntent
<1>3. CASE WebhookSettles(r) \/ SweepSettles(r)
  BY <1>3, SettleObeys DEF WebhookSettles, SweepSettles
<1>4. CASE Cancel(r)
  BY <1>4 DEF Cancel, CancelledPayment, Obeys, Live, Charged
<1>5. CASE NoShow(r) \/ \E actor \in Actors : RedeemCommits(r, actor)
  BY <1>5 DEF NoShow, RedeemCommits, Obeys, Charged
<1>6. CASE \/ CreateIntent(r) \/ CreateIntentThrows(r) \/ ProviderFinishes(r)
           \/ WebhookArrives(r) \/ SweepQuery(r)
           \/ \E actor \in Actors : RedeemChecks(r, actor)
           \/ CreatorDies(r) \/ WebhookDies(r) \/ SweepDies(r)
           \/ RefundCall(r) \/ RefundCallThrows(r) \/ RefundDies(r)
  <2>1. resv' = resv /\ pay' = pay
    BY <1>6 DEF CreateIntent, CreateIntentThrows, ProviderFinishes,
                WebhookArrives, SweepQuery, RedeemChecks, CreatorDies,
                WebhookDies, SweepDies, RefundCall, RefundCallThrows, RefundDies
  <2> QED
    BY <2>1 DEF Obeys, Charged
<1>7. CASE \/ RefundClaim(r) \/ RefundReleasesClaim(r) \/ RefundRecords(r)
           \/ RefundRecordThrows(r)
  <2>1. /\ resv' = resv
        /\ \/ pay' = pay
           \/ pay'[r] = pay[r]
           \/ pay[r] \in Charged /\ pay'[r] \in Charged
    BY <1>7 DEF RefundClaim, RefundReleasesClaim, RefundRecords,
                RefundRecordThrows, Refunded, RefundFrom, Charged
  <2> QED
    BY <2>1 DEF Obeys, Charged
<1> QED
  BY <1>1, <1>2, <1>3, <1>4, <1>5, <1>6, <1>7 DEF ReservationStep

(* Every step obeys, for every reservation.                                *)
LEMMA StepObeys ==
  ASSUME IInv, MoneyOK, [Next]_vars, NEW x \in Reservations
  PROVE  Obeys(x)
<1>1. ASSUME MoneyStays(x) PROVE Obeys(x)
  BY <1>1 DEF MoneyStays, Obeys, Charged
<1>2. ASSUME NEW r \in Reservations, ReservationStep(r) PROVE Obeys(x)
  BY <1>1, <1>2, OwnObeys, OthersKeepMoney DEF IInv, MoneyOK
<1>3. CASE \/ \E o \in Offers : OfferStep(o) /\ ~FanOutCommit(o)
           \/ \E m \in Merchants : Suspend(m)
           \/ UNCHANGED vars
  BY <1>1, <1>3, OtherStepsKeepMoney
<1>4. ASSUME NEW o \in Offers, FanOutCommit(o) PROVE Obeys(x)
  <2> DEFINE f == fan[o]
  <2>1. /\ pay'[x] = IF x \in f.failed THEN "FAILED" ELSE pay[x]
        /\ resv'[x] = CASE x \in f.expired   -> "EXPIRED"
                        [] x \in f.cancelled -> "CANCELLED_BY_MERCHANT"
                        [] OTHER             -> resv[x]
    BY <1>4 DEF FanOutCommit
  <2>2. /\ f.failed = f.expired
        /\ x \in f.expired => resv[x] = "PENDING_PAYMENT"
        /\ x \in f.cancelled => resv[x] = "CONFIRMED"
        /\ resv[x] = "PENDING_PAYMENT" => pay[x] \in Live
    BY DEF IInv, StockOK, FanOK, InStatus, MoneyOK, FanMoney, MoneyRow, RowsPair
  <2> HIDE DEF f
  <2>3. \/ resv'[x] = resv[x]
        \/ resv[x] = "PENDING_PAYMENT" /\ resv'[x] = "EXPIRED"
        \/ resv[x] = "CONFIRMED" /\ resv'[x] = "CANCELLED_BY_MERCHANT"
    BY <2>1, <2>2
  <2>4. pay'[x] = pay[x] \/ (pay[x] \in Live /\ pay'[x] = "FAILED")
    BY <2>1, <2>2
  <2> QED
    BY <2>3, <2>4, ResvFromIs DEF Obeys, Live, Charged
<1> QED
  BY <1>2, <1>3, <1>4 DEF Next

(* No step, however stale what it read, takes back a sale, revives a freed *)
(* reservation, or fails a payment that was settled as paid.               *)
THEOREM SettledForGood == Spec => SettledStaysSettled
<1>1. IInv /\ MoneyOK /\ [Next]_vars =>
        [\A r \in Reservations :
           /\ resv[r] \in Sold \cup Freed => resv'[r] = resv[r]
           /\ pay[r] = "FAILED" => pay'[r] = "FAILED"
           /\ pay[r] = "PAID"
                => pay'[r] \in {"PAID", "REFUND_PENDING", "REFUNDED"}]_vars
  <2> SUFFICES ASSUME IInv, MoneyOK, [Next]_vars, NEW r \in Reservations
               PROVE  /\ resv[r] \in Sold \cup Freed => resv'[r] = resv[r]
                      /\ pay[r] = "FAILED" => pay'[r] = "FAILED"
                      /\ pay[r] = "PAID"
                           => pay'[r] \in {"PAID", "REFUND_PENDING", "REFUNDED"}
    OBVIOUS
  <2>1. Obeys(r)
    BY StepObeys
  <2>2. resv[r] \in Sold \cup Freed => \A to : resv[r] \notin ResvFrom(to)
    BY Domains DEF ResvFrom, AllowedFrom, ReservationTransitions, Sold, Freed
  <2> QED
    BY <2>1, <2>2 DEF Obeys, Charged, Sold, Freed
<1>2. Spec => [][\A r \in Reservations :
           /\ resv[r] \in Sold \cup Freed => resv'[r] = resv[r]
           /\ pay[r] = "FAILED" => pay'[r] = "FAILED"
           /\ pay[r] = "PAID"
                => pay'[r] \in {"PAID", "REFUND_PENDING", "REFUNDED"}]_vars
  BY <1>1, IInvInit, IInvStep, MoneyInit, MoneyStep, PTL DEF Spec
<1> QED
  BY <1>2 DEF SettledStaysSettled

-----------------------------------------------------------------------------
(* The redemptions                                                         *)

(* The reservations of an offer that were redeemed.                        *)
RedeemedOn(o) == On(o, InStatus({"REDEEMED"}))

(* The bags redeemed on an offer are finitely many, and its counter is     *)
(* their number.                                                           *)
RedeemedOK ==
  \A o \in Offers : /\ IsFiniteSet(UnitsIn(Qty, RedeemedOn(o)))
                    /\ qtyRedeemed[o] = Total(Qty, RedeemedOn(o))

(* Steps that redeem nothing.                                              *)
LEMMA RedeemedFrame ==
  ASSUME RedeemedOK, qtyRedeemed' = qtyRedeemed,
         \A x \in Reservations : resv'[x] = "REDEEMED" <=> resv[x] = "REDEEMED"
  PROVE  RedeemedOK'
<1> SUFFICES ASSUME NEW o \in Offers
             PROVE  /\ IsFiniteSet(UnitsIn(Qty, RedeemedOn(o)'))
                    /\ qtyRedeemed'[o] = Total(Qty, RedeemedOn(o)')
  BY DEF RedeemedOK, UnitsIn
<1>1. RedeemedOn(o)' = RedeemedOn(o)
  BY DEF RedeemedOn, On, InStatus
<1> QED
  BY <1>1 DEF RedeemedOK

(* Redeeming counts the bags of one reservation, once.                     *)
LEMMA RedeemCommitsCounts ==
  ASSUME TypeOK, RedeemedOK, NEW r \in Reservations, NEW actor \in Actors,
         RedeemCommits(r, actor)
  PROVE  RedeemedOK'
<1> USE MoneyTypes
<1>1. CASE resv[r] \notin ResvFrom("REDEEMED")
  BY <1>1, RedeemedFrame DEF RedeemCommits
<1>2. CASE resv[r] \in ResvFrom("REDEEMED")
  <2>1. /\ resv[r] = "CONFIRMED"
        /\ resv' = [resv EXCEPT ![r] = "REDEEMED"]
        /\ qtyRedeemed' = [qtyRedeemed EXCEPT ![OfferOf[r]] = @ + Qty[r]]
    BY <1>2, ResvFromIs DEF RedeemCommits
  <2>2. qtyRedeemed \in [Offers -> Nat]
    BY DEF TypeOK, OfferTypes
  <2> SUFFICES ASSUME NEW o \in Offers
               PROVE  /\ IsFiniteSet(UnitsIn(Qty, RedeemedOn(o)'))
                      /\ qtyRedeemed'[o] = Total(Qty, RedeemedOn(o)')
    BY DEF RedeemedOK, UnitsIn
  <2>3. RedeemedOn(o) \in SUBSET Reservations /\ r \notin RedeemedOn(o)
    BY <2>1 DEF RedeemedOn, On, InStatus
  <2>4. CASE OfferOf[r] = o
    <3>1. RedeemedOn(o)' = RedeemedOn(o) \cup {r}
      BY <2>1, <2>4 DEF RedeemedOn, On, InStatus
    <3>2. /\ IsFiniteSet(UnitsIn(Qty, RedeemedOn(o) \cup {r}))
          /\ Total(Qty, RedeemedOn(o) \cup {r})
               = Total(Qty, RedeemedOn(o)) + Qty[r]
      BY <2>3, BagsJoin DEF RedeemedOK
    <3>3. qtyRedeemed'[o] = qtyRedeemed[o] + Qty[r]
      BY <2>1, <2>2, <2>4
    <3> QED
      BY <3>1, <3>2, <3>3 DEF RedeemedOK
  <2>5. CASE OfferOf[r] # o
    <3>1. RedeemedOn(o)' = RedeemedOn(o)
      BY <2>1, <2>5 DEF RedeemedOn, On, InStatus
    <3>2. qtyRedeemed'[o] = qtyRedeemed[o]
      BY <2>1, <2>2, <2>5
    <3> QED
      BY <3>1, <3>2 DEF RedeemedOK
  <2> QED
    BY <2>4, <2>5
<1> QED
  BY <1>1, <1>2

(* Nothing but a redemption counts bags.                                   *)
LEMMA OnlyRedeemCounts ==
  ASSUME [Next]_vars,
         \A r \in Reservations, actor \in Actors : ~RedeemCommits(r, actor)
  PROVE  qtyRedeemed' = qtyRedeemed
<1> USE DEF offerVars, vars
<1>1. ASSUME NEW r \in Reservations, ReservationStep(r)
      PROVE  qtyRedeemed' = qtyRedeemed
  <2>1. CASE \/ CreateReservation(r) \/ CreateIntent(r) \/ CreateIntentThrows(r)
             \/ CompensateFailedIntent(r) \/ ProviderFinishes(r)
             \/ WebhookArrives(r) \/ WebhookSettles(r) \/ SweepQuery(r)
             \/ SweepSettles(r) \/ Cancel(r) \/ NoShow(r)
             \/ \E actor \in Actors : RedeemChecks(r, actor)
    BY <2>1 DEF CreateReservation, CreateIntent, CreateIntentThrows,
                CompensateFailedIntent, ProviderFinishes, WebhookArrives,
                WebhookSettles, SweepQuery, SweepSettles, Cancel, NoShow,
                RedeemChecks
  <2>2. CASE \/ RefundClaim(r) \/ RefundCall(r) \/ RefundCallThrows(r)
             \/ RefundReleasesClaim(r) \/ RefundRecords(r)
             \/ RefundRecordThrows(r) \/ CreatorDies(r) \/ WebhookDies(r)
             \/ SweepDies(r) \/ RefundDies(r)
    BY <2>2 DEF RefundClaim, RefundCall, RefundCallThrows, RefundReleasesClaim,
                RefundRecords, RefundRecordThrows, CreatorDies, WebhookDies,
                SweepDies, RefundDies
  <2> QED
    BY <1>1, <2>1, <2>2 DEF ReservationStep
<1>2. ASSUME NEW o \in Offers, OfferStep(o) PROVE qtyRedeemed' = qtyRedeemed
  BY <1>2 DEF OfferStep, Schedule, Publish, SchedulerSelects,
              SchedulerPublishes, Terminalize, Close, FanOutStart,
              FanOutPending, FanOutConfirmed, FanOutCommit, FanOutDies, Tick
<1>3. CASE (\E m \in Merchants : Suspend(m)) \/ UNCHANGED vars
  BY <1>3 DEF Suspend
<1> QED
  BY <1>1, <1>2, <1>3 DEF Next

(* Nothing else makes a reservation redeemed, or unmakes it.               *)
LEMMA OnlyRedeemRedeems ==
  ASSUME IInv, MoneyOK, [Next]_vars,
         \A r \in Reservations, actor \in Actors : ~RedeemCommits(r, actor),
         NEW x \in Reservations
  PROVE  resv'[x] = "REDEEMED" <=> resv[x] = "REDEEMED"
<1>0. resv[x] = "REDEEMED" => resv'[x] = "REDEEMED"
  BY StepObeys, Domains
  DEF Obeys, ResvFrom, AllowedFrom, ReservationTransitions
<1>1. ASSUME resv'[x] = resv[x] PROVE resv'[x] = "REDEEMED" <=> resv[x] = "REDEEMED"
  BY <1>1
<1>2. ASSUME NEW r \in Reservations, ReservationStep(r)
      PROVE  resv'[x] = "REDEEMED" => resv[x] = "REDEEMED"
  <2> USE MoneyTypes DEF IInv, rowVars, handlerVars
  <2>1. CASE \/ CreateReservation(r) \/ CreateIntent(r) \/ CreateIntentThrows(r)
             \/ ProviderFinishes(r) \/ WebhookArrives(r) \/ SweepQuery(r)
             \/ Cancel(r) \/ NoShow(r)
             \/ \E actor \in Actors : RedeemChecks(r, actor)
    BY <2>1 DEF CreateReservation, CreateIntent, CreateIntentThrows,
                ProviderFinishes, WebhookArrives, SweepQuery, Cancel, NoShow,
                RedeemChecks
  <2>2. CASE CompensateFailedIntent(r) \/ WebhookSettles(r) \/ SweepSettles(r)
    BY <2>2 DEF CompensateFailedIntent, WebhookSettles, SweepSettles, Settle,
                SettleSuccess, ExpireAndRelease
  <2>3. CASE \/ RefundClaim(r) \/ RefundCall(r) \/ RefundCallThrows(r)
             \/ RefundReleasesClaim(r) \/ RefundRecords(r)
             \/ RefundRecordThrows(r) \/ CreatorDies(r) \/ WebhookDies(r)
             \/ SweepDies(r) \/ RefundDies(r)
    BY <2>3 DEF RefundClaim, RefundCall, RefundCallThrows, RefundReleasesClaim,
                RefundRecords, RefundRecordThrows, CreatorDies, WebhookDies,
                SweepDies, RefundDies
  <2> QED
    BY <1>2, <2>1, <2>2, <2>3 DEF ReservationStep
<1>3. ASSUME NEW o \in Offers, FanOutCommit(o)
      PROVE  resv'[x] = "REDEEMED" => resv[x] = "REDEEMED"
  BY <1>3 DEF FanOutCommit
<1>4. CASE \/ \E o \in Offers : OfferStep(o) /\ ~FanOutCommit(o)
           \/ \E m \in Merchants : Suspend(m)
           \/ UNCHANGED vars
  BY <1>1, <1>4, OtherStepsKeepMoney DEF MoneyStays
<1> QED
  BY <1>0, <1>2, <1>3, <1>4 DEF Next

(* Every step keeps the count.                                             *)
LEMMA RedeemedStep == IInv /\ MoneyOK /\ RedeemedOK /\ [Next]_vars => RedeemedOK'
<1> SUFFICES ASSUME IInv, MoneyOK, RedeemedOK, [Next]_vars PROVE RedeemedOK'
  OBVIOUS
<1>1. CASE \E r \in Reservations, actor \in Actors : RedeemCommits(r, actor)
  BY <1>1, RedeemCommitsCounts DEF IInv
<1>2. CASE \A r \in Reservations, actor \in Actors : ~RedeemCommits(r, actor)
  BY <1>2, OnlyRedeemCounts, OnlyRedeemRedeems, RedeemedFrame
<1> QED
  BY <1>1, <1>2

(* A reservation is counted as redeemed once, however many of its redeem   *)
(* calls passed the checks.                                                *)
THEOREM RedeemedIsCounted == Spec => []RedeemedCount
<1>1. Init => RedeemedOK
  <2> SUFFICES ASSUME Init, NEW o \in Offers
               PROVE  /\ IsFiniteSet(UnitsIn(Qty, RedeemedOn(o)))
                      /\ qtyRedeemed[o] = Total(Qty, RedeemedOn(o))
    BY DEF RedeemedOK
  <2>1. RedeemedOn(o) = {}
    BY DEF Init, RedeemedOn, On, InStatus
  <2> QED
    BY <2>1, TotalEmpty DEF Init
<1>2. RedeemedOK => RedeemedCount
  BY DEF RedeemedOK, RedeemedOn, RedeemedCount
<1> QED
  BY <1>1, <1>2, IInvInit, IInvStep, MoneyInit, MoneyStep, RedeemedStep, PTL
  DEF Spec
=============================================================================
