--------------------------- MODULE MCReservations ---------------------------
(* Small instances of Reservations for TLC.                                *)
EXTENDS Reservations, TLC

CONSTANTS o1, r1, r2, m1

OneOffer == [r \in Reservations |-> o1]
OneMerchant == [o \in Offers |-> m1]
OneBagEach == [r \in Reservations |-> 1]
TwoBags == [o \in Offers |-> 2]
=============================================================================
