----------------------------- MODULE TotalsProofs -----------------------------
(***************************************************************************)
(* How a sum over a set of rows changes when a row joins, leaves or        *)
(* changes its amount, and what a first-come allocation of an amount adds  *)
(* up to.                                                                  *)
(***************************************************************************)
EXTENDS Totals, Integers, FiniteSetTheorems, TLAPS

-----------------------------------------------------------------------------
(* The smallest and the largest of some numbers                            *)

(* Some number of a set of natural numbers is the smallest.                *)
LEMMA SmallestExists ==
  ASSUME NEW S \in SUBSET Nat, S # {}
  PROVE  \E n \in S : \A m \in S : n <= m
<1>1. PICK n \in S : \A m \in S : ~ (<<m, n>> \in OpToRel(<, Nat))
  BY NatLessThanWellFounded, WFMin, Zenon
<1>2. \A m \in S : <<m, n>> \in OpToRel(<, Nat) <=> m < n
  BY DEF OpToRel
<1>3. \A m \in S : ~ (m < n)
  BY <1>1, <1>2, Zenon
<1> QED
  BY <1>3

(* Some number of a bounded set of them is the largest: its distance to    *)
(* the bound is the smallest.                                              *)
LEMMA LargestExists ==
  ASSUME NEW N \in Nat, NEW S \in SUBSET (0 .. N), S # {}
  PROVE  \E n \in S : \A m \in S : n >= m
<1> DEFINE T == {x \in 0 .. N : N - x \in S}
<1>1. \A m \in S : N - m \in T
  <2> SUFFICES ASSUME NEW m \in S PROVE N - m \in T
    OBVIOUS
  <2>1. N - m \in 0 .. N /\ N - (N - m) = m
    OBVIOUS
  <2> QED
    BY <2>1
<1>2. T \in SUBSET Nat /\ T # {}
  <2>1. PICK m \in S : TRUE
    OBVIOUS
  <2>2. N - m \in T
    BY <1>1
  <2>3. T \in SUBSET Nat
    OBVIOUS
  <2> HIDE DEF T
  <2> QED
    BY <2>2, <2>3
<1>3. PICK n \in T : \A m \in T : n <= m
  BY <1>2, SmallestExists
<1>4. \A m \in S : n <= N - m
  BY <1>1, <1>3
<1>5. n \in 0 .. N /\ N - n \in S
  OBVIOUS
<1> QED
  BY <1>4, <1>5

-----------------------------------------------------------------------------
(* The units of one row.                                                   *)
LEMMA RowUnits ==
  ASSUME NEW x, NEW n \in Nat
  PROVE  /\ IsFiniteSet({x} \X (1 .. n))
         /\ Cardinality({x} \X (1 .. n)) = n
<1>1. IsFiniteSet({x}) /\ Cardinality({x}) = 1
  BY FS_Singleton
<1>2. IsFiniteSet(1 .. n) /\ Cardinality(1 .. n) = n
  BY FS_Interval
<1>3. /\ IsFiniteSet({x} \X (1 .. n))
      /\ Cardinality({x} \X (1 .. n)) = Cardinality({x}) * Cardinality(1 .. n)
  BY <1>1, <1>2, FS_Product, Zenon
<1>4. Cardinality({x}) * Cardinality(1 .. n) = 1 * n
  BY <1>1, <1>2, Zenon
<1>5. 1 * n = n
  OBVIOUS
<1> QED
  BY <1>3, <1>4, <1>5, Zenon

(* Which units there are.                                                  *)
LEMMA InUnits ==
  ASSUME NEW f, NEW S, NEW x, NEW i
  PROVE  <<x, i>> \in UnitsIn(f, S) <=> x \in S /\ i \in 1 .. f[x]
BY DEF UnitsIn

(* Finitely many rows have finitely many units.                            *)
LEMMA TotalType ==
  ASSUME NEW f, NEW S, IsFiniteSet(S), \A x \in S : f[x] \in Nat
  PROVE  IsFiniteSet(UnitsIn(f, S)) /\ Total(f, S) \in Nat
<1> DEFINE family == {{x} \X (1 .. f[x]) : x \in S}
           units == [x \in S |-> {x} \X (1 .. f[x])]
<1>1. units \in Surjection(S, family)
  BY DEF Surjection
<1>2. IsFiniteSet(family)
  BY <1>1, FS_Surjection
<1>3. ASSUME NEW T \in family PROVE IsFiniteSet(T)
  <2>1. PICK x \in S : T = {x} \X (1 .. f[x])
    OBVIOUS
  <2>2. IsFiniteSet({x} \X (1 .. f[x]))
    BY RowUnits
  <2> QED
    BY <2>1, <2>2, Zenon
<1>4. IsFiniteSet(UNION family)
  BY <1>2, <1>3, FS_UNION
<1> QED
  BY <1>4, FS_CardinalityType DEF UnitsIn, Total

(* No rows, no units.                                                      *)
LEMMA TotalEmpty ==
  ASSUME NEW f
  PROVE  IsFiniteSet(UnitsIn(f, {})) /\ Total(f, {}) = 0
<1>1. UnitsIn(f, {}) = {}
  BY DEF UnitsIn
<1> QED
  BY <1>1, FS_EmptySet DEF Total

(* Rows that have nothing add up to nothing.                               *)
LEMMA TotalZero ==
  ASSUME NEW f, NEW S, \A x \in S : f[x] = 0
  PROVE  Total(f, S) = 0
<1>1. UnitsIn(f, S) = {}
  BY DEF UnitsIn
<1> QED
  BY <1>1, FS_EmptySet DEF Total

(* Rows with the same amounts have the same sum.                           *)
LEMMA TotalSame ==
  ASSUME NEW f, NEW g, NEW S, \A x \in S : f[x] = g[x]
  PROVE  UnitsIn(f, S) = UnitsIn(g, S) /\ Total(f, S) = Total(g, S)
BY DEF UnitsIn, Total

(* The sum over two sets without a common row.                             *)
LEMMA TotalDisjoint ==
  ASSUME NEW f, NEW S, NEW T, IsFiniteSet(UnitsIn(f, S)),
         IsFiniteSet(UnitsIn(f, T)), S \cap T = {}
  PROVE  /\ IsFiniteSet(UnitsIn(f, S \cup T))
         /\ Total(f, S \cup T) = Total(f, S) + Total(f, T)
<1>1. UnitsIn(f, S \cup T) = UnitsIn(f, S) \cup UnitsIn(f, T)
  BY DEF UnitsIn
<1>2. UnitsIn(f, S) \cap UnitsIn(f, T) = {}
  BY DEF UnitsIn
<1>3. Cardinality(UnitsIn(f, S) \cap UnitsIn(f, T)) = 0
  BY <1>2, FS_EmptySet
<1>4. /\ IsFiniteSet(UnitsIn(f, S) \cup UnitsIn(f, T))
      /\ Cardinality(UnitsIn(f, S) \cup UnitsIn(f, T))
           = Cardinality(UnitsIn(f, S)) + Cardinality(UnitsIn(f, T))
               - Cardinality(UnitsIn(f, S) \cap UnitsIn(f, T))
  BY FS_Union
<1>5. Cardinality(UnitsIn(f, S)) \in Nat /\ Cardinality(UnitsIn(f, T)) \in Nat
  BY FS_CardinalityType
<1>6. Cardinality(UnitsIn(f, S) \cup UnitsIn(f, T))
        = Cardinality(UnitsIn(f, S)) + Cardinality(UnitsIn(f, T))
  BY <1>3, <1>4, <1>5
<1> QED
  BY <1>1, <1>4, <1>6, Zenon DEF Total

(* A row that joins adds its amount.                                       *)
LEMMA TotalJoin ==
  ASSUME NEW f, NEW S, IsFiniteSet(UnitsIn(f, S)), NEW x, x \notin S,
         f[x] \in Nat
  PROVE  /\ IsFiniteSet(UnitsIn(f, S \cup {x}))
         /\ Total(f, S \cup {x}) = Total(f, S) + f[x]
<1>1. UnitsIn(f, {x}) = {x} \X (1 .. f[x])
  BY DEF UnitsIn
<1>2. IsFiniteSet(UnitsIn(f, {x})) /\ Total(f, {x}) = f[x]
  <2>1. /\ IsFiniteSet({x} \X (1 .. f[x]))
        /\ Cardinality({x} \X (1 .. f[x])) = f[x]
    BY RowUnits
  <2> QED
    BY <1>1, <2>1, Zenon DEF Total
<1>3. S \cap {x} = {}
  OBVIOUS
<1>4. /\ IsFiniteSet(UnitsIn(f, S \cup {x}))
      /\ Total(f, S \cup {x}) = Total(f, S) + Total(f, {x})
  BY <1>2, <1>3, TotalDisjoint
<1> QED
  BY <1>2, <1>4, Zenon

(* Fewer rows have no more units.                                          *)
LEMMA TotalSubset ==
  ASSUME NEW f, NEW S, IsFiniteSet(UnitsIn(f, S)), NEW T \in SUBSET S
  PROVE  /\ IsFiniteSet(UnitsIn(f, T))
         /\ Total(f, T) <= Total(f, S)
         /\ Total(f, T) \in Nat /\ Total(f, S) \in Nat
<1>1. UnitsIn(f, T) \subseteq UnitsIn(f, S)
  BY DEF UnitsIn
<1> QED
  BY <1>1, FS_Subset, FS_CardinalityType DEF Total

(* A row that leaves takes its amount with it, which was counted.          *)
LEMMA TotalLeave ==
  ASSUME NEW f, NEW S, IsFiniteSet(UnitsIn(f, S)), NEW x \in S, f[x] \in Nat
  PROVE  /\ IsFiniteSet(UnitsIn(f, S \ {x}))
         /\ Total(f, S) = Total(f, S \ {x}) + f[x]
         /\ Total(f, S \ {x}) \in Nat
<1>1. IsFiniteSet(UnitsIn(f, S \ {x})) /\ Total(f, S \ {x}) \in Nat
  BY TotalSubset
<1>2. (S \ {x}) \cup {x} = S /\ x \notin S \ {x}
  OBVIOUS
<1>3. Total(f, (S \ {x}) \cup {x}) = Total(f, S \ {x}) + f[x]
  BY <1>1, <1>2, TotalJoin
<1> QED
  BY <1>1, <1>2, <1>3, Zenon

(* One row changes its amount.                                             *)
LEMMA TotalUpdate ==
  ASSUME NEW f, NEW g, NEW S, IsFiniteSet(S), NEW x \in S,
         \A y \in S : f[y] \in Nat, g[x] \in Nat,
         \A y \in S \ {x} : g[y] = f[y]
  PROVE  /\ Total(g, S) = Total(f, S \ {x}) + g[x]
         /\ Total(f, S) = Total(f, S \ {x}) + f[x]
         /\ Total(f, S \ {x}) \in Nat
<1>1. \A y \in S : g[y] \in Nat
  OBVIOUS
<1>2. IsFiniteSet(UnitsIn(f, S)) /\ IsFiniteSet(UnitsIn(g, S))
  BY <1>1, TotalType
<1>3. /\ Total(f, S) = Total(f, S \ {x}) + f[x]
      /\ Total(f, S \ {x}) \in Nat
      /\ Total(g, S) = Total(g, S \ {x}) + g[x]
  BY <1>2, TotalLeave
<1>4. Total(g, S \ {x}) = Total(f, S \ {x})
  BY TotalSame
<1> QED
  BY <1>3, <1>4

(* Smaller amounts have a smaller sum.                                     *)
LEMMA TotalPointwise ==
  ASSUME NEW f, NEW g, NEW S, IsFiniteSet(S),
         \A x \in S : f[x] \in Nat /\ g[x] \in Nat /\ f[x] <= g[x]
  PROVE  Total(f, S) <= Total(g, S)
<1>1. IsFiniteSet(UnitsIn(g, S))
  BY TotalType
<1>2. UnitsIn(f, S) \subseteq UnitsIn(g, S)
  BY DEF UnitsIn
<1> QED
  BY <1>1, <1>2, FS_Subset DEF Total

(* Rows are served in their order until an amount is used up: unit i of    *)
(* row x is served iff it is one of the first `amount' units.  Then what   *)
(* the rows get adds up to the amount, if they ask for that much.          *)
LEMMA TotalServed ==
  ASSUME NEW S, IsFiniteSet(S), S \subseteq Int,
         NEW f, \A x \in S : f[x] \in Nat,
         NEW amount \in Nat, amount <= Total(f, S),
         NEW g, \A x \in S : g[x] \in Nat,
         \A x \in S : \A i \in Nat \ {0} :
           i <= g[x] <=>
             /\ i <= f[x]
             /\ Total(f, Before(S, x)) + i <= amount
  PROVE  Total(g, S) = amount
<1> DEFINE before(x) == Total(f, Before(S, x))
           place == [u \in UnitsIn(f, S) |-> before(u[1]) + u[2]]
           all == Total(f, S)
<1>1. IsFiniteSet(UnitsIn(f, S)) /\ all \in Nat
  BY TotalType
<1>2. ASSUME NEW x \in S
      PROVE  before(x) \in Nat /\ before(x) + f[x] <= all
  <2>1. Before(S, x) \in SUBSET S /\ x \notin Before(S, x)
    BY DEF Before
  <2>2. IsFiniteSet(UnitsIn(f, Before(S, x))) /\ before(x) \in Nat
    BY <1>1, <2>1, TotalSubset
  <2>3. Total(f, Before(S, x) \cup {x}) = before(x) + f[x]
    BY <2>1, <2>2, TotalJoin
  <2>4. Before(S, x) \cup {x} \in SUBSET S
    BY DEF Before
  <2>5. Total(f, Before(S, x) \cup {x}) <= all
    BY <1>1, <2>4, TotalSubset
  <2> QED
    BY <2>2, <2>3, <2>5
<1>3. ASSUME NEW x \in S, NEW z \in S, x < z
      PROVE  before(x) + f[x] <= before(z)
  <2>1. Before(S, x) \in SUBSET S /\ x \notin Before(S, x)
    BY DEF Before
  <2>2. IsFiniteSet(UnitsIn(f, Before(S, x)))
    BY <1>1, <2>1, TotalSubset
  <2>3. Total(f, Before(S, x) \cup {x}) = before(x) + f[x]
    BY <2>1, <2>2, TotalJoin
  <2>4. Before(S, x) \cup {x} \in SUBSET Before(S, z)
    <3>1. \A y \in S : y < x => y < z
      BY <1>3
    <3> QED
      BY <1>3, <3>1 DEF Before
  <2>5. IsFiniteSet(UnitsIn(f, Before(S, z)))
    <3>1. Before(S, z) \in SUBSET S
      BY DEF Before
    <3> QED
      BY <1>1, <3>1, TotalSubset
  <2>6. Total(f, Before(S, x) \cup {x}) <= before(z)
    BY <2>4, <2>5, TotalSubset
  <2> QED
    BY <2>3, <2>6
<1>4. \A u \in UnitsIn(f, S) :
        /\ u = <<u[1], u[2]>> /\ u[1] \in S /\ u[2] \in 1 .. f[u[1]]
        /\ place[u] \in 1 .. all
  <2> SUFFICES ASSUME NEW u \in UnitsIn(f, S)
               PROVE  /\ u = <<u[1], u[2]>> /\ u[1] \in S /\ u[2] \in 1 .. f[u[1]]
                      /\ before(u[1]) + u[2] \in 1 .. all
    OBVIOUS
  <2>1. u = <<u[1], u[2]>> /\ u[1] \in S /\ u[2] \in 1 .. f[u[1]]
    BY DEF UnitsIn
  <2>2. /\ before(u[1]) \in Nat /\ before(u[1]) + f[u[1]] <= all
        /\ f[u[1]] \in Nat
    BY <1>2, <2>1
  <2> HIDE DEF before, all
  <2> QED
    BY <1>1, <2>1, <2>2
<1>5. ASSUME NEW u \in UnitsIn(f, S), NEW v \in UnitsIn(f, S), place[u] = place[v]
      PROVE  u = v
  <2>1. /\ u = <<u[1], u[2]>> /\ u[1] \in S /\ u[2] \in 1 .. f[u[1]]
        /\ v = <<v[1], v[2]>> /\ v[1] \in S /\ v[2] \in 1 .. f[v[1]]
    BY <1>4
  <2>2. before(u[1]) + u[2] = before(v[1]) + v[2]
    BY <1>5
  <2>3. before(u[1]) \in Nat /\ before(v[1]) \in Nat
    BY <1>2, <2>1
  <2>4. /\ u[1] < v[1] => before(u[1]) + f[u[1]] <= before(v[1])
        /\ v[1] < u[1] => before(v[1]) + f[v[1]] <= before(u[1])
        /\ f[u[1]] \in Nat /\ f[v[1]] \in Nat /\ u[1] \in Int /\ v[1] \in Int
    BY <1>3, <2>1
  <2> HIDE DEF before
  <2>5. u[1] = v[1]
    BY <2>1, <2>2, <2>3, <2>4
  <2> QED
    BY <2>1, <2>2, <2>3, <2>5
<1>6. place \in Bijection(UnitsIn(f, S), 1 .. all)
  <2>1. place \in Injection(UnitsIn(f, S), 1 .. all)
    BY <1>4, <1>5 DEF Injection, IsInjective
  <2>2. IsFiniteSet(1 .. all) /\ Cardinality(1 .. all) = all
    BY <1>1, FS_Interval
  <2>3. Cardinality(UnitsIn(f, S)) = Cardinality(1 .. all)
    BY <2>2 DEF Total
  <2> HIDE DEF place, all
  <2>4. place \in Surjection(UnitsIn(f, S), 1 .. all)
    BY <2>1, <2>2, <2>3, FS_Injection
  <2> QED
    BY <2>1, <2>4 DEF Bijection
<1> DEFINE served == UnitsIn(g, S)
           first == [u \in served |-> place[u]]
<1>7. ASSUME NEW u
      PROVE  u \in served <=> u \in UnitsIn(f, S) /\ place[u] <= amount
  <2>1. u \in served <=> \E x \in S, i \in Nat \ {0} : u = <<x, i>> /\ i <= g[x]
    BY DEF UnitsIn
  <2>2. u \in UnitsIn(f, S)
          <=> \E x \in S, i \in Nat \ {0} : u = <<x, i>> /\ i <= f[x]
    BY DEF UnitsIn
  <2>3. \A x \in S, i \in Nat \ {0} :
          <<x, i>> \in UnitsIn(f, S) => place[<<x, i>>] = before(x) + i
    OBVIOUS
  <2> QED
    BY <2>1, <2>2, <2>3
<1>8. first \in Bijection(served, 1 .. amount)
  <2>1. \A u \in served : u \in UnitsIn(f, S) /\ first[u] = place[u]
    BY <1>7
  <2>2. first \in [served -> 1 .. amount]
    <3> SUFFICES ASSUME NEW u \in served PROVE place[u] \in 1 .. amount
      OBVIOUS
    <3>1. u \in UnitsIn(f, S) /\ place[u] <= amount
      BY <1>7
    <3>2. place[u] \in 1 .. all
      BY <1>4, <3>1
    <3> QED
      BY <3>1, <3>2, <1>1
  <2>3. \A u, v \in served : first[u] = first[v] => u = v
    BY <1>5, <2>1
  <2>4. \A n \in 1 .. amount : \E u \in served : first[u] = n
    <3> SUFFICES ASSUME NEW n \in 1 .. amount
                 PROVE  \E u \in served : first[u] = n
      OBVIOUS
    <3>1. n \in 1 .. all
      BY <1>1
    <3>2. PICK u \in UnitsIn(f, S) : place[u] = n
      BY <1>6, <3>1 DEF Bijection, Surjection
    <3>3. place[u] <= amount
      BY <3>2
    <3>4. u \in served
      BY <1>7, <3>2, <3>3
    <3> QED
      BY <2>1, <3>2, <3>4
  <2> HIDE DEF first, served
  <2> QED
    BY <2>2, <2>3, <2>4 DEF Bijection, Injection, IsInjective, Surjection
<1>9. IsFiniteSet(1 .. amount) /\ Cardinality(1 .. amount) = amount
  BY FS_Interval
<1>10. IsFiniteSet(served)
  BY TotalType
<1>11. Cardinality(served) = Cardinality(1 .. amount)
  <2> HIDE DEF first, served
  <2>1. ExistsBijection(served, 1 .. amount)
    BY <1>8 DEF ExistsBijection
  <2> QED
    BY <1>10, <2>1, FS_Bijection
<1> QED
  BY <1>9, <1>11 DEF Total
=============================================================================
