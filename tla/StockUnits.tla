----------------------------- MODULE StockUnits -----------------------------
(***************************************************************************)
(* The catalogue every stock module speaks about: which reservation asks   *)
(* for which daily offer, for how many bags, and how many bags an offer    *)
(* has.  A reservation identifier stands for one POST /reservations: the   *)
(* offer and the quantity it names never change afterwards, so they are    *)
(* constants.  Total(Qty, S) is how many bags the reservations of S ask    *)
(* for.                                                                    *)
(***************************************************************************)
EXTENDS Naturals, FiniteSets, Totals

CONSTANTS
  Offers,        \* DailyOffer rows
  Reservations,  \* Reservation rows that may ever be created
  OfferOf,       \* Reservation.offerId
  Qty,           \* Reservation.qty
  QtyTotal       \* DailyOffer.qtyTotal

ASSUME CatalogueAssumption ==
  /\ OfferOf \in [Reservations -> Offers]
  /\ Qty \in [Reservations -> Nat \ {0}]
  /\ QtyTotal \in [Offers -> Nat \ {0}]

(* The reservations of S that are for offer o.                             *)
On(o, S) == {r \in S : OfferOf[r] = o}
=============================================================================
