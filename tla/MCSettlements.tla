---------------------------- MODULE MCSettlements ----------------------------
(* Small instances of Settlements for TLC.                                 *)
EXTENDS Settlements, TLC

(* The first bag earns less than its fees and leaves a deficit, the second *)
(* cures it when it is noticed late, the third belongs to the next day.    *)
MCDay == (1 :> 1) @@ (2 :> 1) @@ (3 :> 2)
MCGross == (1 :> 1) @@ (2 :> 4) @@ (3 :> 4)
MCFee == (1 :> 3) @@ (2 :> 1) @@ (3 :> 1)
MCPeriodOf == (1 :> 1) @@ (2 :> 2)

(* Two losing days, then a good one; the fourth bag belongs to the first   *)
(* day and cures it when it is noticed late.                               *)
ChainDay == (1 :> 1) @@ (2 :> 2) @@ (3 :> 3) @@ (4 :> 1)
ChainGross == (1 :> 1) @@ (2 :> 1) @@ (3 :> 6) @@ (4 :> 6)
ChainFee == (1 :> 2) @@ (2 :> 2) @@ (3 :> 1) @@ (4 :> 1)
ChainPeriodOf == [d \in Days |-> 1]

(* The concurrent cycles, and the concurrent executions, are alike.        *)
MCSymmetry == Permutations(Cycles) \cup Permutations(Executors)
=============================================================================
