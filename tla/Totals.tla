-------------------------------- MODULE Totals --------------------------------
(***************************************************************************)
(* Sums of amounts over a set of rows.  An amount of n is counted as the n *)
(* units <<row, 1>> .. <<row, n>>, so that a sum is the cardinality of a   *)
(* set: of bags for the stock, of kurus for the money.                     *)
(***************************************************************************)
EXTENDS Naturals, FiniteSets

UnitsIn(f, S) == UNION {{x} \X (1 .. f[x]) : x \in S}

Total(f, S) == Cardinality(UnitsIn(f, S))

(* The rows of S that come before row x.                                   *)
Before(S, x) == {y \in S : y < x}
=============================================================================
