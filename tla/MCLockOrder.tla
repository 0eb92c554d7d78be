----------------------------- MODULE MCLockOrder -----------------------------
(* Small instances of LockOrder for TLC.                                   *)
EXTENDS LockOrder, TLC

CONSTANTS o1, r1, r2, t1, t2, t3

OneOffer == [r \in Reservations |-> o1]
Symmetry == Permutations(Transactions) \cup Permutations(Reservations)
=============================================================================
