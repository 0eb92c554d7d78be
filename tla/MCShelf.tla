------------------------------- MODULE MCShelf -------------------------------
(* One shelf of two bags for TLC: r1 and r2 want a bag each, big wants     *)
(* both.  Whoever wants the other quantity comes while the shelf is taken, *)
(* sees a bag left or none, and must be refused; that he comes again after *)
(* the shelf is free is left out, which keeps the instance small.          *)
EXTENDS MCReservations

CONSTANT big

ShelfQty == [r \in Reservations |-> IF r = big THEN 2 ELSE 1]

Existing == Reservations \ InStatus({"NONE"})

(* The existing reservations of the other quantity.                        *)
Rivals(r) == {q \in Existing : Qty[q] # Qty[r]}

Comers ==
  {r \in Reservations \ Existing :
     Rivals(r) = {} \/ Rivals(r) \cap InStatus(Held \cup Sold) # {}}

(* Before it exists a reservation can only be created.                     *)
ShelfNext ==
  \/ \E r \in Comers : CreateReservation(r)
  \/ \E r \in Existing : ReservationStep(r)
  \/ \E o \in Offers : OfferStep(o)
  \/ \E m \in Merchants : Suspend(m)

ShelfSpec == Init /\ [][ShelfNext]_vars

(* The reservations of one bag are alike.                                  *)
ShelfSymmetry == Permutations({r1, r2})
=============================================================================
