------------------------- MODULE MCRequestServices -------------------------
EXTENDS RequestServices, TLC

CONSTANTS o1, r1, r2, s1, s2, b1, b2, b3

(* Two reservations of the one offer (LockOrder).                          *)
OneOffer == [r \in Reservations |-> o1]

(* Two ratings of one reservation, say before and after a deletion, and a  *)
(* rating of another reservation of the same store.                        *)
TwoSales == 1 :> s1 @@ 2 :> s1 @@ 3 :> s2

(* Two batches of the first membership year, one of the second.            *)
TwoYears == b1 :> 1 @@ b2 :> 1 @@ b3 :> 2
=============================================================================
