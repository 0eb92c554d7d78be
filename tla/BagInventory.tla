---------------------------- MODULE BagInventory ----------------------------
(***************************************************************************)
(* What the reservation subsystem promises about bags, with every          *)
(* mechanism left out: no counters, no payments, no locks.  A reservation  *)
(* is held, then either kept for good (sold) or freed for good, and an     *)
(* offer never promises more bags than it has.  Reservations implements    *)
(* this module.                                                            *)
(***************************************************************************)
EXTENDS StockUnits

VARIABLES
  held,   \* reservations whose bags are promised and may still come back
  kept,   \* reservations whose bags are sold for good
  freed   \* reservations whose bags went back to the offer

invVars == <<held, kept, freed>>

Promised(o) == On(o, held \cup kept)

InvInit == held = {} /\ kept = {} /\ freed = {}

(* A reservation nobody has seen takes bags that are still there.          *)
Hold(r) ==
  /\ r \notin held \cup kept \cup freed
  /\ held' = held \cup {r}
  /\ Total(Qty, Promised(OfferOf[r])) + Qty[r] <= QtyTotal[OfferOf[r]]
  /\ UNCHANGED <<kept, freed>>

(* Held reservations become sales.                                         *)
Keep(r) ==
  /\ r \in held
  /\ held' = held \ {r}
  /\ kept' = kept \cup {r}
  /\ UNCHANGED freed

(* Several held reservations give their bags back in one step (the fan-out *)
(* of a cancelled offer); a sale never does.                               *)
Free(S) ==
  /\ S # {}
  /\ held' = held \ S
  /\ freed' = freed \cup S
  /\ UNCHANGED kept

InvNext ==
  \/ \E r \in Reservations : Hold(r) \/ Keep(r)
  \/ \E S \in SUBSET held : Free(S)

InvSpec == InvInit /\ [][InvNext]_invVars
=============================================================================
