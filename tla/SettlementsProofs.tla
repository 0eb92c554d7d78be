-------------------------- MODULE SettlementsProofs --------------------------
(***************************************************************************)
(* Proofs about Settlements for any reservations, calendar, amounts and    *)
(* membership price, any number of cycles, batches and executions.         *)
(***************************************************************************)
EXTENDS Settlements, TotalsProofs

-----------------------------------------------------------------------------
(* Min and Max of a bounded set of numbers are what they say.              *)
LEMMA MinMax ==
  ASSUME NEW N \in Nat, NEW S \in SUBSET (0 .. N), S # {}
  PROVE  /\ Min(S) \in S /\ \A m \in S : Min(S) <= m
         /\ Max(S) \in S /\ \A m \in S : Max(S) >= m
<1>1. S \in SUBSET Nat
  OBVIOUS
<1>2. \E n \in S : \A m \in S : n <= m
  BY <1>1, SmallestExists
<1>3. \E n \in S : \A m \in S : n >= m
  BY LargestExists
<1>4. Min(S) \in S /\ \A m \in S : Min(S) <= m
  BY <1>2, Zenon DEF Min
<1>5. Max(S) \in S /\ \A m \in S : Max(S) >= m
  BY <1>3, Zenon DEF Max
<1> QED
  BY <1>4, <1>5

-----------------------------------------------------------------------------
(* The inductive invariant                                                 *)

(* Where an operation under way stands, and what a row that does not exist *)
(* yet looks like.                                                         *)
Working ==
  /\ \A n \in Cycles : cycle[n].phase = "recompute" =>
       cycle[n].batch \in Batches /\ batch[cycle[n].batch].status # "absent"
  /\ \A x \in Executors : exec[x].phase # "idle" => exec[x].batch \in Batches
  /\ \A b \in Batches :
       /\ batch[b].status = "absent" => batch[b] = NoBatch
       /\ batch[b].source # b
  /\ approval # 0 => batch[approval].status # "absent"

(* A row's sums are those of its lines, and unless it is held its net is   *)
(* what is left of them.                                                   *)
RowAddsUp(b) ==
  /\ batch[b].gross = Total(Gross, LinesOf(b))
  /\ batch[b].fees = Total(Fee, LinesOf(b))
  /\ batch[b].status # "HELD" =>
       batch[b].net = batch[b].gross - batch[b].fees
                        - batch[b].offset - batch[b].clawback

RowsAddUp == \A b \in Batches : RowAddsUp(b)

(* An attempted row is frozen, and what was moved for it is its net.       *)
RowIsPaid(b) ==
  /\ batch[b].attempted => batch[b].status \in {"APPROVED"} \cup PaidOut
  /\ transfer[b] # 0 => batch[b].attempted
  /\ b \notin misread =>
       /\ transfer[b] # 0 => transfer[b] = batch[b].net
       /\ batch[b].status \in PaidOut => transfer[b] = batch[b].net

(* What an execution may rely on: what it read of an attempted batch, and  *)
(* of any batch from the stamp on, is the frozen amount.                   *)
ExecRelies(x) ==
  LET e == exec[x]
      b == exec[x].batch
      frozen == batch[b].attempted /\ (b \in misread \/ e.net = batch[b].net)
  IN /\ e.phase = "read" /\ e.attempted => frozen
     /\ e.phase = "pay" => frozen
     /\ e.phase = "mark" => e.net = 0 \/ (frozen /\ transfer[b] = e.net)

(* The rows and the executions of the payout, together.                    *)
PayoutOK ==
  /\ \A b \in Batches : RowIsPaid(b)
  /\ \A x \in Executors : ExecRelies(x)

(* The batches whose claim on source s counts.                             *)
ClaimersOf(s) ==
  {c \in Batches : /\ batch[c].source = s
                   /\ batch[c].status \in Committed
                   /\ c \notin overtaken}

(* The batch being approved still finds its claim at its source.           *)
ApprovalOwed ==
  \A a, s \in Batches :
    approval = a /\ a \notin overtaken
      /\ batch[a].status = "CALCULATED" /\ batch[a].source = s =>
      claim[a] + Total(claim, ClaimersOf(s)) <= Exportable(batch[s])

-----------------------------------------------------------------------------
(* The arithmetic of a recompute                                           *)

(* The sets sums are taken over are finite, and so is every subset.        *)
LEMMA FiniteRows ==
  /\ IsFiniteSet(Batches)
  /\ IsFiniteSet(Reservations) /\ Reservations \subseteq Nat
  /\ \A r \in Reservations : /\ Gross[r] \in Nat /\ Fee[r] \in Nat
                             /\ Day[r] \in Days /\ FullDemand(r) \in Nat
<1>1. MaxBatches \in Nat /\ IsFiniteSet(Reservations)
  BY SettlementAssumption
<1>2. IsFiniteSet(Batches)
  BY <1>1, FS_Interval DEF Batches
<1> QED
  BY <1>1, <1>2, SettlementAssumption DEF FullDemand, AtLeastZero

(* What the allocations say of one line.                                   *)
LEMMA RecoveredType ==
  ASSUME TypeOK, NEW b \in Batches, NEW r \in Reservations
  PROVE  /\ RecoveredByOthers(b, r) \in Nat
         /\ RemainingDemand(b, r) \in Nat
         /\ Total([c \in Batches |-> alloc[c][r]], Batches)
              = RecoveredByOthers(b, r) + alloc[b][r]
<1> DEFINE f == [c \in Batches |-> alloc[c][r]]
<1>1. \A c \in Batches : f[c] \in Nat
  BY DEF TypeOK
<1>2. IsFiniteSet(UnitsIn(f, Batches))
  BY <1>1, FiniteRows, TotalType
<1>3. f[b] = alloc[b][r] /\ f[b] \in Nat
  BY <1>1
<1> HIDE DEF f
<1>4. Total(f, Batches) = Total(f, Batches \ {b}) + f[b]
      /\ Total(f, Batches \ {b}) \in Nat
  BY <1>2, <1>3, TotalLeave
<1>5. RecoveredByOthers(b, r) = Total(f, Batches \ {b})
  BY DEF RecoveredByOthers, f
<1> QED
  BY <1>3, <1>4, <1>5, FiniteRows
  DEF f, RemainingDemand, AtLeastZero

(* What a recompute of b starts from.                                      *)
LEMMA DueType ==
  ASSUME TypeOK, NEW b \in Batches
  PROVE  /\ MembershipDue(b) \in Nat
         /\ MembershipDue(b) <= member.owed + batch[b].offset
BY DEF TypeOK, MembershipDue

(* The demand of its own lines is an amount.                               *)
LEMMA DemandType ==
  ASSUME TypeOK, NEW b \in Batches
  PROVE  /\ DirectDemand(b) \in Nat
         /\ LockedLines(b) \in SUBSET Reservations
<1> DEFINE f == [r \in Reservations |-> RemainingDemand(b, r)]
<1>1. LockedLines(b) \in SUBSET Reservations
  BY DEF LockedLines
<1>2. IsFiniteSet(LockedLines(b))
  BY <1>1, FiniteRows, FS_Subset
<1>3. \A r \in LockedLines(b) : f[r] \in Nat
  BY <1>1, RecoveredType
<1> QED
  BY <1>1, <1>2, <1>3, TotalType DEF DirectDemand

(* The source of carried demand is another batch, or none.                 *)
LEMMA SourceType ==
  ASSUME TypeOK, Working, NEW b \in Batches
  PROVE  SourceOf(b) \in 0 .. MaxBatches /\ SourceOf(b) # b
<1> DEFINE others == {c \in Batches \ {b} : batch[c].status # "absent"}
<1>1. CASE batch[b].computed
  <2>1. batch[b].source \in 0 .. MaxBatches
    BY DEF TypeOK
  <2>2. batch[b].source # b
    BY DEF Working
  <2> QED
    BY <1>1, <2>1, <2>2 DEF SourceOf
<1>2. CASE ~batch[b].computed /\ (others = {} \/ batch[Max(others)].status # "HELD")
  <2>1. SourceOf(b) = 0
    BY <1>2 DEF SourceOf, DiscoverSource
  <2> QED
    BY <2>1, SettlementAssumption DEF Batches
<1>3. CASE ~batch[b].computed /\ ~ (others = {} \/ batch[Max(others)].status # "HELD")
  <2>1. others \in SUBSET (0 .. MaxBatches) /\ others # {}
    BY <1>3, SettlementAssumption DEF Batches
  <2>2. Max(others) \in others
    BY <2>1, SettlementAssumption, MinMax
  <2>3. SourceOf(b) = Max(others)
    BY <1>3 DEF SourceOf, DiscoverSource
  <2> QED
    BY <2>2, <2>3 DEF Batches
<1> QED
  BY <1>1, <1>2, <1>3

(* The demand a batch inherits is an amount.                               *)
LEMMA CarriedType ==
  ASSUME TypeOK, Working, NEW b \in Batches
  PROVE  /\ CarriedDemand(b) \in Nat
         /\ SourceOf(b) # 0 => TakenByOthers(b, SourceOf(b)) \in Nat
<1>1. CASE SourceOf(b) = 0
  BY <1>1 DEF CarriedDemand
<1>2. CASE SourceOf(b) # 0
  <2> DEFINE s == SourceOf(b)
             takers == {c \in Batches \ {b} : batch[c].source = s}
  <2>1. s \in Batches
    BY <1>2, SourceType, SettlementAssumption DEF Batches
  <2>2. Exportable(batch[s]) \in Nat
    BY <2>1 DEF TypeOK, Exportable, OwnDeficit, AtLeastZero
  <2>3. IsFiniteSet(takers)
    BY FiniteRows, FS_Subset
  <2>4. \A c \in takers : claim[c] \in Nat
    BY DEF TypeOK
  <2>5. TakenByOthers(b, s) \in Nat
    BY <2>3, <2>4, TotalType DEF TakenByOthers
  <2> HIDE DEF s
  <2>6. CarriedDemand(b) = AtLeastZero(Exportable(batch[s]) - TakenByOthers(b, s))
    BY <1>2 DEF CarriedDemand, s
  <2> QED
    BY <2>2, <2>5, <2>6 DEF AtLeastZero, s
<1> QED
  BY <1>1, <1>2

(* The rows, as TypeOK has them.                                           *)
Rows ==
  [day : Days,
   status : {"absent", "CALCULATED", "HELD", "APPROVED", "SENT", "SETTLED"},
   gross : Nat, fees : Nat, offset : Nat, clawback : Nat, net : Nat,
   inherited : Nat, carried : Nat, source : 0 .. MaxBatches,
   computed : BOOLEAN, attempted : BOOLEAN]

(* The row a recompute of b writes.                                        *)
LEMMA NewRowFacts ==
  ASSUME TypeOK, Working, NEW b \in Batches, NEW L \in SUBSET Reservations,
         NEW row, row = NewRow(b, L)
  PROVE  /\ row \in Rows
         /\ row.day = batch[b].day /\ row.attempted = batch[b].attempted
         /\ row.source = SourceOf(b) /\ row.inherited = CarriedDemand(b)
         /\ row.carried = AtLeastZero(row.inherited - row.clawback)
         /\ row.gross = Total(Gross, L) /\ row.fees = Total(Fee, L)
         /\ row.offset <= MembershipDue(b)
         /\ row.clawback <= row.inherited + DirectDemand(b)
         /\ row.status \in Recomputable
         /\ row.status # "HELD" =>
              row.net = row.gross - row.fees - row.offset - row.clawback
<1> DEFINE s == Settlement(Total(Gross, L), Total(Fee, L), MembershipDue(b),
                           CarriedDemand(b) + DirectDemand(b))
<1>1. Total(Gross, L) \in Nat /\ Total(Fee, L) \in Nat
  BY FiniteRows, FS_Subset, TotalType
<1>2. /\ MembershipDue(b) \in Nat /\ CarriedDemand(b) \in Nat
      /\ DirectDemand(b) \in Nat
      /\ SourceOf(b) \in 0 .. MaxBatches
  BY DueType, CarriedType, DemandType, SourceType
<1>3. CarriedDemand(b) + DirectDemand(b) \in Nat
  BY <1>2
<1>4. s = Settlement(Total(Gross, L), Total(Fee, L), MembershipDue(b),
                     CarriedDemand(b) + DirectDemand(b))
  OBVIOUS
<1>5. row = SettledRow(b, s, CarriedDemand(b))
  BY DEF NewRow
<1> HIDE DEF s
<1>6. /\ s.gross = Total(Gross, L) /\ s.fees = Total(Fee, L)
      /\ s.offset \in Nat /\ s.offset <= MembershipDue(b)
      /\ s.clawback \in Nat /\ s.clawback <= CarriedDemand(b) + DirectDemand(b)
      /\ s.net \in Nat /\ s.short \in Nat
      /\ ~ (s.short > 0) =>
           s.net = Total(Gross, L) - Total(Fee, L) - s.offset - s.clawback
  <2> DEFINE g == Total(Gross, L)
             h == Total(Fee, L)
             due == MembershipDue(b)
             demand == CarriedDemand(b) + DirectDemand(b)
  <2>1. g \in Nat /\ h \in Nat /\ due \in Nat /\ demand \in Nat
    BY <1>1, <1>2, <1>3
  <2>2. s = Settlement(g, h, due, demand)
    BY <1>4
  <2> HIDE DEF g, h, due, demand
  <2>3. /\ s.gross = g /\ s.fees = h
        /\ s.offset \in Nat /\ s.offset <= due
        /\ s.clawback \in Nat /\ s.clawback <= demand
        /\ s.net \in Nat /\ s.short \in Nat
        /\ ~ (s.short > 0) => s.net = g - h - s.offset - s.clawback
    BY <2>1, <2>2 DEF Settlement, AtLeastZero, Least
  <2> QED
    BY <2>3 DEF g, h, due, demand
<1>7. batch[b] \in Rows
  BY DEF TypeOK, Rows
<1>8. /\ row.day = batch[b].day /\ row.attempted = batch[b].attempted
      /\ row.source = SourceOf(b) /\ row.inherited = CarriedDemand(b)
      /\ row.carried = AtLeastZero(row.inherited - row.clawback)
      /\ row.gross = s.gross /\ row.fees = s.fees
      /\ row.offset = s.offset /\ row.clawback = s.clawback /\ row.net = s.net
      /\ row.status = IF s.short > 0 THEN "HELD" ELSE "CALCULATED"
  BY <1>5, <1>7 DEF SettledRow, Rows
<1>9. row \in Rows
  <2> DEFINE carried == AtLeastZero(CarriedDemand(b) - s.clawback)
             status == IF s.short > 0 THEN "HELD" ELSE "CALCULATED"
  <2>1. carried \in Nat /\ status \in {"HELD", "CALCULATED"}
    BY <1>2, <1>6 DEF AtLeastZero
  <2>2. row = [day |-> batch[b].day, status |-> status, gross |-> s.gross,
               fees |-> s.fees, offset |-> s.offset, clawback |-> s.clawback,
               net |-> s.net, inherited |-> CarriedDemand(b), carried |-> carried,
               source |-> SourceOf(b), computed |-> TRUE,
               attempted |-> batch[b].attempted]
    BY <1>5, <1>7 DEF SettledRow, Rows
  <2>3. batch[b].day \in Days /\ batch[b].attempted \in BOOLEAN
    BY <1>7 DEF Rows
  <2>4. s.gross \in Nat /\ s.fees \in Nat
    BY <1>1, <1>6
  <2> HIDE DEF carried, status
  <2> QED
    BY <1>2, <1>6, <2>1, <2>2, <2>3, <2>4 DEF Rows
<1> QED
  BY <1>6, <1>8, <1>9 DEF Recomputable

(* What allocateClawback does: the entries are of locked lines, within     *)
(* what each still owes, and add up to the amount.                         *)
LEMMA AllocationFacts ==
  ASSUME TypeOK, NEW b \in Batches, NEW amount \in Nat, amount <= DirectDemand(b),
         NEW mine, mine = Allocation(b, amount)
  PROVE  /\ mine \in [Reservations -> Nat]
         /\ Total(mine, Reservations) = amount
         /\ \A r \in Reservations : /\ mine[r] <= RemainingDemand(b, r)
                                    /\ r \notin LockedLines(b) => mine[r] = 0
<1> DEFINE demand == [r \in Reservations |-> RemainingDemand(b, r)]
           candidates == {r \in LockedLines(b) : RemainingDemand(b, r) > 0}
           f == [q \in candidates |-> RemainingDemand(b, q)]
           before(r) == Total(f, Before(candidates, r))
<1>1. /\ \A r \in Reservations : RemainingDemand(b, r) \in Nat
      /\ candidates \in SUBSET Reservations
      /\ IsFiniteSet(candidates) /\ candidates \subseteq Int
  <2>1. \A r \in Reservations : RemainingDemand(b, r) \in Nat
    BY RecoveredType
  <2>2. candidates \in SUBSET Reservations
    BY DemandType
  <2> HIDE DEF candidates
  <2>3. IsFiniteSet(candidates)
    BY <2>2, FiniteRows, FS_Subset, Zenon
  <2>4. candidates \subseteq Int
    BY <2>2, SettlementAssumption
  <2> QED
    BY <2>1, <2>2, <2>3, <2>4
<1>2. \A r \in Reservations : before(r) \in Nat
  <2> SUFFICES ASSUME NEW r \in Reservations PROVE before(r) \in Nat
    OBVIOUS
  <2>1. IsFiniteSet(Before(candidates, r))
    BY <1>1, FS_Subset DEF Before
  <2>2. \A q \in Before(candidates, r) : f[q] \in Nat
    BY <1>1 DEF Before
  <2> QED
    BY <2>1, <2>2, TotalType
<1>3. \A r \in Reservations :
        mine[r] = IF r \in candidates
                  THEN Least(RemainingDemand(b, r), AtLeastZero(amount - before(r)))
                  ELSE 0
  BY DEF Allocation
<1>4. mine = [r \in Reservations |-> mine[r]]
  BY DEF Allocation
<1>5. \A r \in Reservations : mine[r] \in Nat /\ mine[r] <= RemainingDemand(b, r)
  <2> HIDE DEF before, candidates
  <2> QED
    BY <1>1, <1>2, <1>3 DEF Least, AtLeastZero
<1>6. \A r \in Reservations : r \notin LockedLines(b) => mine[r] = 0
  BY <1>3
<1>7. Total(f, candidates) = DirectDemand(b)
  <2>1. LockedLines(b) \in SUBSET Reservations /\ IsFiniteSet(LockedLines(b))
    BY DemandType, FiniteRows, FS_Subset
  <2>2. \A r \in LockedLines(b) : demand[r] \in Nat
    BY <1>1, <2>1
  <2>3. IsFiniteSet(UnitsIn(demand, LockedLines(b)))
    BY <2>1, <2>2, TotalType
  <2>4. /\ candidates \in SUBSET LockedLines(b)
        /\ LockedLines(b) \ candidates \in SUBSET LockedLines(b)
        /\ candidates \cap (LockedLines(b) \ candidates) = {}
        /\ candidates \cup (LockedLines(b) \ candidates) = LockedLines(b)
    OBVIOUS
  <2>5. /\ IsFiniteSet(UnitsIn(demand, candidates))
        /\ IsFiniteSet(UnitsIn(demand, LockedLines(b) \ candidates))
    BY <2>3, <2>4, TotalSubset
  <2>6. \A r \in LockedLines(b) \ candidates : demand[r] = 0
    BY <1>1, <2>1
  <2>7. \A r \in candidates : f[r] = demand[r]
    BY <1>1
  <2> HIDE DEF demand, candidates, f
  <2>8. Total(demand, candidates \cup (LockedLines(b) \ candidates))
          = Total(demand, candidates) + Total(demand, LockedLines(b) \ candidates)
    BY <2>4, <2>5, TotalDisjoint
  <2>9. Total(demand, LockedLines(b) \ candidates) = 0
    BY <2>6, TotalZero
  <2>10. Total(f, candidates) = Total(demand, candidates)
    BY <2>7, TotalSame
  <2>11. Total(demand, candidates) \in Nat
    BY <2>3, <2>4, TotalSubset
  <2>12. DirectDemand(b) = Total(demand, LockedLines(b))
    BY DEF DirectDemand, demand
  <2> QED
    BY <2>4, <2>8, <2>9, <2>10, <2>11, <2>12
<1>8. Total(mine, candidates) = amount
  <2>1. \A x \in candidates : f[x] \in Nat /\ mine[x] \in Nat
    BY <1>1, <1>5
  <2>2. \A x \in candidates : \A i \in Nat \ {0} :
          i <= mine[x] <=> i <= f[x] /\ Total(f, Before(candidates, x)) + i <= amount
    <3> SUFFICES ASSUME NEW x \in candidates, NEW i \in Nat \ {0}
                 PROVE  i <= mine[x] <=> i <= f[x] /\ before(x) + i <= amount
      OBVIOUS
    <3>1. /\ mine[x] = Least(RemainingDemand(b, x), AtLeastZero(amount - before(x)))
          /\ f[x] = RemainingDemand(b, x) /\ RemainingDemand(b, x) \in Nat
          /\ before(x) \in Nat
      BY <1>1, <1>2, <1>3
    <3> HIDE DEF before, f, candidates
    <3> QED
      BY <3>1 DEF Least, AtLeastZero
  <2> HIDE DEF f, candidates
  <2>3. amount <= Total(f, candidates)
    BY <1>7
  <2>4. IsFiniteSet(candidates) /\ candidates \subseteq Int
    BY <1>1
  <2> HIDE <1>1, <1>2, <1>3, <1>4, <1>5, <1>6, <1>7
  <2> QED
    BY <2>1, <2>2, <2>3, <2>4, TotalServed
<1>9. Total(mine, Reservations) = amount
  <2>1. /\ candidates \cap (Reservations \ candidates) = {}
        /\ candidates \cup (Reservations \ candidates) = Reservations
    BY <1>1
  <2>2. \A r \in Reservations \ candidates : mine[r] = 0
    BY <1>3
  <2> HIDE DEF candidates
  <2>3. IsFiniteSet(UnitsIn(mine, Reservations))
    BY <1>5, FiniteRows, TotalType
  <2>4. /\ IsFiniteSet(UnitsIn(mine, candidates))
        /\ IsFiniteSet(UnitsIn(mine, Reservations \ candidates))
    BY <1>1, <2>3, TotalSubset
  <2>5. Total(mine, candidates \cup (Reservations \ candidates))
          = Total(mine, candidates) + Total(mine, Reservations \ candidates)
    BY <2>1, <2>4, TotalDisjoint
  <2>6. Total(mine, Reservations \ candidates) = 0
    BY <2>2, TotalZero
  <2> QED
    BY <1>8, <2>1, <2>5, <2>6
<1> QED
  BY <1>4, <1>5, <1>6, <1>9

-----------------------------------------------------------------------------
(* A recompute that is written                                             *)

(* What it leaves of each table, for the row it writes and the entries of  *)
(* its clawback.                                                           *)
LEMMA WritesFacts ==
  ASSUME TypeOK, Working, NEW b \in Batches, NEW P \in SUBSET Reservations,
         Writes(b, P),
         NEW L, L = Attached(b, P),
         NEW row, row = NewRow(b, L),
         NEW amount, amount = row.clawback - (row.inherited - row.carried),
         NEW mine, mine = Allocation(b, amount)
  PROVE  /\ L \in SUBSET Reservations
         /\ amount \in Nat /\ amount <= DirectDemand(b)
         /\ batch' = [batch EXCEPT ![b] = row]
         /\ line' = [r \in Reservations |-> IF r \in L THEN b ELSE line[r]]
         /\ claim' = [claim EXCEPT ![b] = row.inherited]
         /\ member.owed + batch[b].offset - row.offset \in Nat
         /\ member' = [member EXCEPT !.owed = member.owed + batch[b].offset - row.offset]
         /\ WritesLedger(b, mine, Projection(b, mine))
         /\ overtaken' = (overtaken \ {b}) \cup (IF approval = 0 THEN {} ELSE {approval})
         /\ UNCHANGED <<holds, misread>>
<1>1. L \in SUBSET Reservations
  BY DEF Attached, LinesOf
<1>2. /\ row.clawback \in Nat /\ row.inherited \in Nat /\ row.offset \in Nat
      /\ row.carried = AtLeastZero(row.inherited - row.clawback)
      /\ row.offset <= MembershipDue(b)
      /\ row.clawback <= row.inherited + DirectDemand(b)
  BY <1>1, NewRowFacts DEF Rows
<1>3. DirectDemand(b) \in Nat
  BY DemandType
<1>4. amount \in Nat /\ amount <= DirectDemand(b)
  BY <1>2, <1>3 DEF AtLeastZero
<1>5. /\ MembershipDue(b) \in Nat
      /\ MembershipDue(b) <= member.owed + batch[b].offset
      /\ member.owed \in Nat /\ batch[b].offset \in Nat
  BY DueType DEF TypeOK
<1>6. /\ member.owed + batch[b].offset - row.offset \in Nat
      /\ MembershipLeft(b, row.offset) = member.owed + batch[b].offset - row.offset
  BY <1>2, <1>5 DEF MembershipLeft, AtLeastZero
<1>7. WritesRow(b, L, row)
  BY DEF Writes
<1> QED
  BY <1>1, <1>4, <1>6, <1>7 DEF WritesRow, held

(* The ledger keeps its identities through a recompute.                    *)
LEMMA WritesKeepLedger ==
  ASSUME TypeOK, Working, LedgerIdentity, NEW b \in Batches,
         NEW P \in SUBSET Reservations, Writes(b, P)
  PROVE  LedgerIdentity'
<1> DEFINE L == Attached(b, P)
           row == NewRow(b, L)
           amount == row.clawback - (row.inherited - row.carried)
           mine == Allocation(b, amount)
<1>1. /\ L \in SUBSET Reservations
      /\ amount \in Nat /\ amount <= DirectDemand(b)
      /\ batch' = [batch EXCEPT ![b] = row]
      /\ claim' = [claim EXCEPT ![b] = row.inherited]
      /\ WritesLedger(b, mine, Projection(b, mine))
  BY WritesFacts
<1>2. /\ row \in Rows
      /\ row.carried = AtLeastZero(row.inherited - row.clawback)
  BY <1>1, NewRowFacts
<1>3. amount = row.clawback - (row.inherited - row.carried)
  OBVIOUS
<1>4. mine = Allocation(b, amount)
  OBVIOUS
<1> HIDE DEF L, row, amount, mine
<1>5. /\ mine \in [Reservations -> Nat]
      /\ Total(mine, Reservations) = amount
      /\ \A r \in Reservations : /\ mine[r] <= RemainingDemand(b, r)
                                 /\ r \notin LockedLines(b) => mine[r] = 0
  BY <1>1, <1>4, AllocationFacts
<1>6. /\ batch \in [Batches -> Rows] /\ claim \in [Batches -> Nat]
      /\ alloc \in [Batches -> [Reservations -> Nat]]
      /\ recovered \in [Reservations -> Nat] /\ resolved \subseteq Reservations
  BY DEF TypeOK, Rows
<1>7. alloc' = [alloc EXCEPT ![b] = mine]
  BY <1>1 DEF WritesLedger
<1>8. ASSUME NEW c \in Batches
      PROVE  /\ claim'[c] = batch'[c].inherited
             /\ batch'[c].carried <= batch'[c].inherited
             /\ batch'[c].clawback = batch'[c].inherited - batch'[c].carried
                                      + Total(alloc'[c], Reservations)
  <2>1. CASE c # b
    <3>1. claim'[c] = claim[c] /\ batch'[c] = batch[c] /\ alloc'[c] = alloc[c]
      BY <1>1, <1>6, <1>7, <2>1
    <3> QED
      BY <3>1 DEF LedgerIdentity
  <2>2. CASE c = b
    <3>1. claim'[c] = row.inherited /\ batch'[c] = row /\ alloc'[c] = mine
      BY <1>1, <1>6, <1>7, <2>2
    <3>2. row.inherited \in Nat /\ row.clawback \in Nat /\ row.carried \in Nat
      BY <1>2 DEF Rows
    <3>3. row.carried <= row.inherited
      BY <1>2, <3>2 DEF AtLeastZero
    <3>4. row.clawback = row.inherited - row.carried + amount
      BY <1>3, <3>2
    <3> QED
      BY <1>5, <3>1, <3>3, <3>4
  <2> QED
    BY <2>1, <2>2
<1>9. ASSUME NEW r \in Reservations
      PROVE  /\ recovered'[r] = Total([c \in Batches |-> alloc'[c][r]], Batches)
             /\ recovered'[r] <= FullDemand(r)
             /\ r \in resolved' <=> FullDemand(r) > 0 /\ recovered'[r] = FullDemand(r)
  <2> DEFINE f == [c \in Batches |-> alloc[c][r]]
             g == [c \in Batches |-> alloc'[c][r]]
  <2>1. \A c \in Batches : f[c] \in Nat /\ (c # b => g[c] = f[c])
    BY <1>6, <1>7
  <2>2. g[b] = mine[r] /\ g[b] \in Nat
    BY <1>5, <1>6, <1>7
  <2>3. RecoveredByOthers(b, r) = Total(f, Batches \ {b})
    BY DEF RecoveredByOthers
  <2>4. /\ recovered[r] = Total(f, Batches) /\ recovered[r] <= FullDemand(r)
        /\ r \in resolved <=> FullDemand(r) > 0 /\ recovered[r] = FullDemand(r)
    BY DEF LedgerIdentity
  <2>5. f[b] = alloc[b][r] /\ alloc[b][r] \in Nat
    BY <1>6
  <2> HIDE DEF f, g
  <2>6. /\ Total(g, Batches) = Total(f, Batches \ {b}) + mine[r]
        /\ Total(f, Batches) = Total(f, Batches \ {b}) + alloc[b][r]
        /\ Total(f, Batches \ {b}) \in Nat
    <3>1. IsFiniteSet(Batches)
      BY FiniteRows
    <3>2. /\ \A y \in Batches : f[y] \in Nat
          /\ \A y \in Batches \ {b} : g[y] = f[y]
      BY <2>1
    <3>3. /\ Total(g, Batches) = Total(f, Batches \ {b}) + g[b]
          /\ Total(f, Batches) = Total(f, Batches \ {b}) + f[b]
          /\ Total(f, Batches \ {b}) \in Nat
      BY <2>2, <3>1, <3>2, TotalUpdate
    <3> QED
      BY <2>2, <2>5, <3>3
  <2>7. FullDemand(r) \in Nat
    BY FiniteRows
  <2>8. CASE r \in LockedLines(b)
    <3>1. recovered'[r] = Total(g, Batches)
      BY <1>1, <2>3, <2>6, <2>8 DEF WritesLedger, Projection
    <3>2. mine[r] <= RemainingDemand(b, r) /\ mine[r] \in Nat
      BY <1>5
    <3>3. recovered'[r] <= FullDemand(r) /\ recovered'[r] \in Nat
      BY <2>3, <2>4, <2>5, <2>6, <2>7, <3>1, <3>2 DEF RemainingDemand, AtLeastZero
    <3>4. r \in resolved' <=> FullDemand(r) > 0 /\ recovered'[r] >= FullDemand(r)
      BY <1>1, <2>8 DEF WritesLedger, Projection
    <3> QED
      BY <2>7, <3>1, <3>3, <3>4 DEF g
  <2>9. CASE r \notin LockedLines(b)
    <3>1. recovered'[r] = recovered[r] /\ (r \in resolved' <=> r \in resolved)
      BY <1>1, <2>9 DEF WritesLedger
    <3>2. mine[r] = 0 /\ alloc[b][r] = 0
      BY <1>5, <2>5, <2>9 DEF LockedLines
    <3>3. Total(g, Batches) = Total(f, Batches)
      BY <2>6, <3>2
    <3> QED
      BY <2>4, <3>1, <3>3 DEF g
  <2> QED
    BY <2>8, <2>9
<1> QED
  BY <1>8, <1>9 DEF LedgerIdentity, FullDemand

-----------------------------------------------------------------------------
(* Types                                                                   *)

(* TypeOK in parts: the world, the rows, the books, what the history       *)
(* records, the cycles, and the approval and payout under way.             *)
WorldTypes == today \in Days /\ refunded \subseteq earned /\ earned \subseteq Reservations

RowTypes == batch \in [Batches -> Rows]

BookTypes ==
  /\ line \in [Reservations -> 0 .. MaxBatches]
  /\ recovered \in [Reservations -> Nat]
  /\ resolved \subseteq Reservations
  /\ alloc \in [Batches -> [Reservations -> Nat]]
  /\ claim \in [Batches -> Nat]
  /\ member \in [owed : Nat, period : Nat, writtenOff : Nat, charged : Nat]
  /\ overtaken \subseteq Batches

HeldTypes == holds \in 0 .. MaxUpsets /\ misread \subseteq Batches

CycleTypes ==
  cycle \in [Cycles ->
     [phase : {"idle", "grouping", "recompute"},
      todo : SUBSET Reservations, batch : 0 .. MaxBatches,
      lines : SUBSET Reservations]]

PayTypes ==
  /\ approval \in 0 .. MaxBatches
  /\ exec \in [Executors ->
       [phase : {"idle", "read", "pay", "mark"}, batch : 0 .. MaxBatches,
        net : Nat, attempted : BOOLEAN]]
  /\ transfer \in [Batches -> Nat]

(* TypeOK, by the part of the state it speaks about.                       *)
LEMMA TypeParts ==
  TypeOK <=> WorldTypes /\ RowTypes /\ BookTypes /\ HeldTypes /\ CycleTypes /\ PayTypes
BY DEF TypeOK, WorldTypes, RowTypes, BookTypes, HeldTypes, CycleTypes, PayTypes, Rows

(* The parts make up the type of the next state.                           *)
LEMMA TypesNext ==
  ASSUME (WorldTypes /\ RowTypes /\ BookTypes /\ HeldTypes /\ CycleTypes /\ PayTypes)'
  PROVE  TypeOK'
BY DEF TypeOK, WorldTypes, RowTypes, BookTypes, HeldTypes, CycleTypes, PayTypes, Rows

(* What a recompute writes has the types of its tables.                    *)
LEMMA WritesTypes ==
  ASSUME TypeOK, Working, NEW b \in Batches, NEW P \in SUBSET Reservations,
         Writes(b, P)
  PROVE  (RowTypes /\ BookTypes /\ HeldTypes)'
<1> DEFINE L == Attached(b, P)
           row == NewRow(b, L)
           amount == row.clawback - (row.inherited - row.carried)
           mine == Allocation(b, amount)
<1>1. /\ L \in SUBSET Reservations
      /\ amount \in Nat /\ amount <= DirectDemand(b)
      /\ batch' = [batch EXCEPT ![b] = row]
      /\ line' = [r \in Reservations |-> IF r \in L THEN b ELSE line[r]]
      /\ claim' = [claim EXCEPT ![b] = row.inherited]
      /\ member.owed + batch[b].offset - row.offset \in Nat
      /\ member' = [member EXCEPT !.owed = member.owed + batch[b].offset - row.offset]
      /\ WritesLedger(b, mine, Projection(b, mine))
      /\ overtaken' = (overtaken \ {b}) \cup (IF approval = 0 THEN {} ELSE {approval})
      /\ UNCHANGED <<holds, misread>>
  BY WritesFacts
<1>2. row \in Rows
  BY <1>1, NewRowFacts
<1>3. mine = Allocation(b, amount)
  OBVIOUS
<1> HIDE DEF L, row, amount, mine
<1>4. mine \in [Reservations -> Nat]
  BY <1>1, <1>3, AllocationFacts
<1>5. RowTypes /\ BookTypes /\ HeldTypes /\ approval \in 0 .. MaxBatches
  BY TypeParts DEF PayTypes
<1>6. RowTypes'
  BY <1>1, <1>2, <1>5 DEF RowTypes
<1>7. HeldTypes'
  BY <1>1, <1>5 DEF HeldTypes
<1>8. line' \in [Reservations -> 0 .. MaxBatches]
  BY <1>1, <1>5, SettlementAssumption DEF BookTypes, Batches
<1>9. claim' \in [Batches -> Nat] /\ alloc' \in [Batches -> [Reservations -> Nat]]
  BY <1>1, <1>2, <1>4, <1>5 DEF BookTypes, WritesLedger, Rows
<1>10. recovered' \in [Reservations -> Nat] /\ resolved' \subseteq Reservations
  <2>1. \A r \in LockedLines(b) : r \in Reservations /\ Projection(b, mine)[r] \in Nat
    <3> SUFFICES ASSUME NEW r \in LockedLines(b)
                 PROVE  r \in Reservations /\ Projection(b, mine)[r] \in Nat
      OBVIOUS
    <3>1. r \in Reservations
      BY DemandType
    <3>2. RecoveredByOthers(b, r) \in Nat /\ mine[r] \in Nat
      BY <1>4, <3>1, RecoveredType
    <3> QED
      BY <3>1, <3>2 DEF Projection
  <2>2. \A r \in Reservations : recovered[r] \in Nat
    BY <1>5 DEF BookTypes
  <2> QED
    BY <1>1, <1>5, <2>1, <2>2 DEF WritesLedger, BookTypes
<1>11. member' \in [owed : Nat, period : Nat, writtenOff : Nat, charged : Nat]
  BY <1>1, <1>5 DEF BookTypes
<1>12. overtaken' \subseteq Batches
  BY <1>1, <1>5, SettlementAssumption DEF BookTypes, Batches
<1> QED
  BY <1>6, <1>7, <1>8, <1>9, <1>10, <1>11, <1>12 DEF BookTypes

(* A row that is written, or a field of it, has the type of a row.         *)
LEMMA RowWritten ==
  ASSUME RowTypes, NEW b \in Batches
  PROVE  /\ \A row \in Rows : batch' = [batch EXCEPT ![b] = row] => RowTypes'
         /\ \A s \in {"CALCULATED", "HELD", "APPROVED", "SENT", "SETTLED"} :
              batch' = [batch EXCEPT ![b].status = s] => RowTypes'
         /\ batch' = [batch EXCEPT ![b].attempted = TRUE] => RowTypes'
         /\ \A d \in Days : Created(b, d) => RowTypes'
<1>1. ASSUME NEW row \in Rows, batch' = [batch EXCEPT ![b] = row]
      PROVE  RowTypes'
  BY <1>1 DEF RowTypes
<1>2. batch[b] \in Rows
  BY DEF RowTypes
<1>3. ASSUME NEW s \in {"CALCULATED", "HELD", "APPROVED", "SENT", "SETTLED"},
             batch' = [batch EXCEPT ![b].status = s]
      PROVE  RowTypes'
  <2>1. [batch[b] EXCEPT !.status = s] \in Rows
    BY <1>2 DEF Rows
  <2> QED
    BY <1>3, <2>1 DEF RowTypes
<1>4. ASSUME batch' = [batch EXCEPT ![b].attempted = TRUE]
      PROVE  RowTypes'
  <2>1. [batch[b] EXCEPT !.attempted = TRUE] \in Rows
    BY <1>2 DEF Rows
  <2> QED
    BY <1>4, <2>1 DEF RowTypes
<1>5. ASSUME NEW d \in Days, Created(b, d) PROVE RowTypes'
  <2>1. [NoBatch EXCEPT !.day = d, !.status = "CALCULATED"] \in Rows
    <3>1. 1 \in Days /\ 0 \in 0 .. MaxBatches /\ 0 \in Nat
      BY SettlementAssumption DEF Days
    <3>2. NoBatch \in Rows
      BY <3>1 DEF NoBatch, Rows
    <3> QED
      BY <3>2 DEF Rows
  <2> QED
    BY <1>5, <2>1 DEF RowTypes, Created
<1> QED
  BY <1>1, <1>3, <1>4, <1>5

(* The types through a recompute that may be refused.                      *)
LEMMA RecomputeTypes ==
  ASSUME TypeOK, Working, NEW b \in Batches, NEW P \in SUBSET Reservations,
         Recompute(b, P)
  PROVE  (RowTypes /\ BookTypes /\ HeldTypes)'
<1>1. CASE UNCHANGED ledger
  BY <1>1, TypeParts
  DEF ledger, books, held, RowTypes, BookTypes, HeldTypes
<1>2. CASE Writes(b, P)
  BY <1>2, WritesTypes
<1> QED
  BY <1>1, <1>2 DEF Recompute

(* What createOrExtendBatch and the sweep pick exists.                     *)
LEMMA PickedBatch ==
  ASSUME RowTypes, NEW b \in Batches, NEW d \in Days, NEW S \in SUBSET OpenBatches,
         b \in IF S # {} THEN S ELSE NextBatch,
         IF S # {} THEN UNCHANGED batch ELSE Created(b, d)
  PROVE  /\ RowTypes'
         /\ batch'[b].status # "absent"
         /\ \A c \in Batches : c # b => batch'[c] = batch[c]
         /\ batch' = batch \/ (batch[b].status = "absent" /\ Created(b, d))
<1>1. CASE S # {}
  <2>1. b \in OpenBatches /\ batch' = batch
    BY <1>1
  <2> QED
    BY <2>1 DEF OpenBatches, Recomputable, RowTypes
<1>2. CASE S = {}
  <2>1. b \in NextBatch /\ Created(b, d)
    BY <1>2
  <2>2. RowTypes'
    BY <2>1, RowWritten
  <2>3. batch'[b].status = "CALCULATED"
    BY <2>1 DEF Created, RowTypes
  <2>4. \A c \in Batches : c # b => batch'[c] = batch[c]
    BY <2>1 DEF Created, RowTypes
  <2>5. batch[b].status = "absent"
    BY <2>1 DEF NextBatch
  <2> QED
    BY <2>1, <2>2, <2>3, <2>4, <2>5
<1> QED
  BY <1>1, <1>2

(* The steps of a nightly cycle that touch the books.                      *)
LEMMA CreateOrExtendFacts ==
  ASSUME TypeOK, NEW n \in Cycles, CreateOrExtend(n)
  PROVE  \E b \in Batches, d \in Days, L \in SUBSET Reservations :
           /\ RowTypes'
           /\ batch'[b].status # "absent"
           /\ \A c \in Batches : c # b => batch'[c] = batch[c]
           /\ batch' = batch \/ (batch[b].status = "absent" /\ Created(b, d))
           /\ Goes(n, [phase |-> "recompute", todo |-> cycle[n].todo \ L,
                       batch |-> b, lines |-> L])
<1> DEFINE d == Min({Day[r] : r \in cycle[n].todo})
           group == {r \in cycle[n].todo : Day[r] = d}
           open == {b \in OpenBatches : batch[b].day = d}
<1>1. RowTypes /\ CycleTypes
  BY TypeParts
<1>2. cycle[n].todo \in SUBSET Reservations /\ cycle[n].todo # {}
  BY <1>1 DEF CreateOrExtend, CycleTypes
<1>3. d \in Days
  <2>1. /\ {Day[r] : r \in cycle[n].todo} \in SUBSET (0 .. Today)
        /\ {Day[r] : r \in cycle[n].todo} # {}
    <3>1. \A r \in cycle[n].todo : Day[r] \in 0 .. Today
      <4> SUFFICES ASSUME NEW r \in cycle[n].todo PROVE Day[r] \in 0 .. Today
        OBVIOUS
      <4>1. Day[r] \in Days
        BY <1>2, FiniteRows
      <4> QED
        BY <4>1, SettlementAssumption DEF Days
    <3>2. PICK r \in cycle[n].todo : TRUE
      BY <1>2
    <3>3. Day[r] \in {Day[q] : q \in cycle[n].todo}
      OBVIOUS
    <3> QED
      BY <3>1, <3>3
  <2>2. d \in {Day[r] : r \in cycle[n].todo}
    BY <2>1, SettlementAssumption, MinMax
  <2> QED
    BY <1>2, <2>2, FiniteRows
<1>4. group \in SUBSET Reservations /\ open \in SUBSET OpenBatches
  BY <1>2
<1>5. PICK b \in IF open # {} THEN open ELSE NextBatch :
        /\ IF open # {} THEN UNCHANGED batch ELSE Created(b, d)
        /\ Goes(n, [phase |-> "recompute", todo |-> cycle[n].todo \ group,
                    batch |-> b, lines |-> group])
  BY DEF CreateOrExtend
<1> HIDE DEF d, group, open
<1>6. b \in Batches
  BY <1>4, <1>5 DEF OpenBatches, NextBatch
<1>7. /\ RowTypes'
      /\ batch'[b].status # "absent"
      /\ \A c \in Batches : c # b => batch'[c] = batch[c]
      /\ batch' = batch \/ (batch[b].status = "absent" /\ Created(b, d))
  BY <1>1, <1>3, <1>4, <1>5, <1>6, PickedBatch
<1> QED
  BY <1>3, <1>4, <1>5, <1>6, <1>7

(* The batch a sweep recomputes exists from then on.                       *)
LEMMA SweepFacts ==
  ASSUME TypeOK, NEW n \in Cycles, Sweep(n)
  PROVE  \E b \in Batches, d \in Days :
           /\ RowTypes'
           /\ batch'[b].status # "absent"
           /\ \A c \in Batches : c # b => batch'[c] = batch[c]
           /\ batch' = batch \/ (batch[b].status = "absent" /\ Created(b, d))
           /\ Goes(n, [IdleCycle EXCEPT !.phase = "recompute", !.batch = b])
<1> DEFINE latest == {b \in OpenBatches :
                        \A c \in OpenBatches : batch[c].day <= batch[b].day}
<1>1. RowTypes /\ today \in Days
  BY TypeParts DEF WorldTypes
<1>2. latest \in SUBSET OpenBatches
  OBVIOUS
<1>3. PICK b \in IF latest # {} THEN latest ELSE NextBatch :
        /\ IF latest # {} THEN UNCHANGED batch ELSE Created(b, today)
        /\ Goes(n, [IdleCycle EXCEPT !.phase = "recompute", !.batch = b])
  BY DEF Sweep
<1> HIDE DEF latest
<1>4. b \in Batches
  BY <1>2, <1>3 DEF OpenBatches, NextBatch
<1>5. /\ RowTypes'
      /\ batch'[b].status # "absent"
      /\ \A c \in Batches : c # b => batch'[c] = batch[c]
      /\ batch' = batch \/ (batch[b].status = "absent" /\ Created(b, today))
  BY <1>1, <1>2, <1>3, <1>4, PickedBatch
<1> QED
  BY <1>1, <1>3, <1>4, <1>5

(* What a cycle goes on to do has the type of a cycle.                     *)
LEMMA NextGroupTypes ==
  ASSUME CycleTypes, NEW n \in Cycles, NextGroup(n)
  PROVE  CycleTypes' /\ cycle'[n].phase # "recompute"
         /\ \A m \in Cycles : m # n => cycle'[m] = cycle[m]
<1>1. cycle[n] \in [phase : {"idle", "grouping", "recompute"},
                    todo : SUBSET Reservations, batch : 0 .. MaxBatches,
                    lines : SUBSET Reservations]
  BY DEF CycleTypes
<1>2. 0 \in 0 .. MaxBatches
  BY SettlementAssumption
<1>3. CASE cycle[n].todo = {}
  <2>1. cycle' = [cycle EXCEPT ![n] = IdleCycle]
    BY <1>3 DEF NextGroup, Goes
  <2> QED
    BY <1>2, <2>1 DEF CycleTypes, IdleCycle
<1>4. CASE cycle[n].todo # {}
  <2> DEFINE c == [cycle[n] EXCEPT !.phase = "grouping", !.batch = 0, !.lines = {}]
  <2>1. cycle' = [cycle EXCEPT ![n] = c]
    BY <1>4 DEF NextGroup, Goes
  <2>2. /\ c.phase # "recompute"
        /\ c \in [phase : {"idle", "grouping", "recompute"},
                  todo : SUBSET Reservations, batch : 0 .. MaxBatches,
                  lines : SUBSET Reservations]
    BY <1>1, <1>2
  <2> HIDE DEF c
  <2> QED
    BY <2>1, <2>2 DEF CycleTypes
<1> QED
  BY <1>3, <1>4

(* Types, for the steps that leave the books alone.                        *)
LEMMA WorldSteps ==
  ASSUME TypeOK,
         \/ NewDay \/ Renew
         \/ \E r \in Reservations : Earn(r) \/ Refund(r)
  PROVE  TypeOK'
<1> USE DEF ledger, books, held
<1>1. WorldTypes /\ RowTypes /\ BookTypes /\ HeldTypes /\ CycleTypes /\ PayTypes
  BY TypeParts
<1>2. UNCHANGED <<batch, cycle, approval, exec, transfer, held>>
  BY DEF NewDay, Renew, Earn, Refund
<1>3. (RowTypes /\ HeldTypes /\ CycleTypes /\ PayTypes)'
  BY <1>1, <1>2 DEF RowTypes, HeldTypes, CycleTypes, PayTypes
<1>4. WorldTypes'
  <2>1. CASE NewDay
    BY <1>1, <2>1, SettlementAssumption DEF NewDay, WorldTypes, Days
  <2>2. CASE Renew
    BY <1>1, <2>2 DEF Renew, WorldTypes, world
  <2>3. CASE \E r \in Reservations : Earn(r) \/ Refund(r)
    BY <1>1, <2>3 DEF Earn, Refund, WorldTypes
  <2> QED
    BY <2>1, <2>2, <2>3
<1>5. BookTypes'
  <2>1. CASE Renew
    <3>1. PeriodOf[today] \in Nat /\ MembershipPrice \in Nat
      BY <1>1, SettlementAssumption DEF WorldTypes
    <3>2. member' \in [owed : Nat, period : Nat, writtenOff : Nat, charged : Nat]
      BY <1>1, <2>1, <3>1 DEF Renew, BookTypes
    <3> QED
      BY <1>1, <2>1, <3>2 DEF Renew, BookTypes
  <2>2. CASE ~Renew
    BY <1>1, <2>2 DEF NewDay, Earn, Refund, BookTypes
  <2> QED
    BY <2>1, <2>2
<1> QED
  BY <1>3, <1>4, <1>5, TypesNext

(* The nightly cycle.                                                      *)
LEMMA CycleTypesStep ==
  ASSUME TypeOK, Working, NEW n \in Cycles, CycleStep(n)
  PROVE  TypeOK'
<1>1. WorldTypes /\ RowTypes /\ BookTypes /\ HeldTypes /\ CycleTypes /\ PayTypes
  BY TypeParts
<1>2. UNCHANGED <<world, approval, exec, transfer>>
  BY DEF CycleStep, Scan, CreateOrExtend, BatchGroup, BatchGroupFails, Sweep,
         CycleDies
<1>3. WorldTypes' /\ PayTypes'
  BY <1>1, <1>2 DEF WorldTypes, PayTypes, world
<1>4. ASSUME UNCHANGED ledger PROVE (RowTypes /\ BookTypes /\ HeldTypes)'
  BY <1>1, <1>4 DEF ledger, books, held, RowTypes, BookTypes, HeldTypes
<1>5. ASSUME NEW c \in [phase : {"idle", "grouping", "recompute"},
                        todo : SUBSET Reservations, batch : 0 .. MaxBatches,
                        lines : SUBSET Reservations],
             Goes(n, c)
      PROVE  CycleTypes'
  BY <1>1, <1>5 DEF CycleTypes, Goes
<1>6. IdleCycle \in [phase : {"idle", "grouping", "recompute"},
                     todo : SUBSET Reservations, batch : 0 .. MaxBatches,
                     lines : SUBSET Reservations]
  BY SettlementAssumption DEF IdleCycle
<1>7. /\ cycle[n].todo \in SUBSET Reservations
      /\ cycle[n].lines \in SUBSET Reservations
  BY <1>1 DEF CycleTypes
<1>8. CASE Scan(n)
  <2>1. Eligible \in SUBSET Reservations
    BY <1>1 DEF Eligible, WorldTypes
  <2>2. [IdleCycle EXCEPT !.phase = "grouping", !.todo = Eligible]
          \in [phase : {"idle", "grouping", "recompute"},
               todo : SUBSET Reservations, batch : 0 .. MaxBatches,
               lines : SUBSET Reservations]
    BY <1>6, <2>1
  <2>3. CycleTypes'
    BY <1>5, <1>8, <2>2 DEF Scan
  <2> QED
    BY <1>3, <1>4, <1>8, <2>3, TypesNext DEF Scan
<1>9. CASE CreateOrExtend(n)
  <2>1. PICK b \in Batches, d \in Days, L \in SUBSET Reservations :
          /\ RowTypes'
          /\ Goes(n, [phase |-> "recompute", todo |-> cycle[n].todo \ L,
                      batch |-> b, lines |-> L])
    BY <1>9, CreateOrExtendFacts
  <2>2. [phase |-> "recompute", todo |-> cycle[n].todo \ L, batch |-> b, lines |-> L]
          \in [phase : {"idle", "grouping", "recompute"},
               todo : SUBSET Reservations, batch : 0 .. MaxBatches,
               lines : SUBSET Reservations]
    BY <1>7, SettlementAssumption DEF Batches
  <2>3. CycleTypes'
    BY <1>5, <2>1, <2>2
  <2>4. (BookTypes /\ HeldTypes)'
    BY <1>1, <1>9 DEF CreateOrExtend, books, held, BookTypes, HeldTypes
  <2> QED
    BY <1>3, <2>1, <2>3, <2>4, TypesNext
<1>10. CASE BatchGroup(n)
  <2>1. cycle[n].batch \in Batches
    BY <1>10 DEF BatchGroup, Working
  <2>2. (RowTypes /\ BookTypes /\ HeldTypes)'
    BY <1>7, <1>10, <2>1, RecomputeTypes DEF BatchGroup
  <2>3. CycleTypes'
    BY <1>1, <1>10, NextGroupTypes DEF BatchGroup
  <2> QED
    BY <1>3, <2>2, <2>3, TypesNext
<1>11. CASE BatchGroupFails(n)
  <2>1. CycleTypes'
    BY <1>1, <1>11, NextGroupTypes DEF BatchGroupFails
  <2> QED
    BY <1>3, <1>4, <1>11, <2>1, TypesNext DEF BatchGroupFails
<1>12. CASE Sweep(n)
  <2>1. PICK b \in Batches, d \in Days :
          /\ RowTypes'
          /\ Goes(n, [IdleCycle EXCEPT !.phase = "recompute", !.batch = b])
    BY <1>12, SweepFacts
  <2>2. [IdleCycle EXCEPT !.phase = "recompute", !.batch = b]
          \in [phase : {"idle", "grouping", "recompute"},
               todo : SUBSET Reservations, batch : 0 .. MaxBatches,
               lines : SUBSET Reservations]
    <3>1. b \in 0 .. MaxBatches
      BY SettlementAssumption DEF Batches
    <3> QED
      BY <1>6, <3>1
  <2>3. CycleTypes'
    BY <1>5, <2>1, <2>2
  <2>4. (BookTypes /\ HeldTypes)'
    BY <1>1, <1>12 DEF Sweep, books, held, BookTypes, HeldTypes
  <2> QED
    BY <1>3, <2>1, <2>3, <2>4, TypesNext
<1>13. CASE CycleDies(n)
  <2>1. CycleTypes'
    BY <1>5, <1>6, <1>13 DEF CycleDies
  <2> QED
    BY <1>3, <1>4, <1>13, <2>1, TypesNext DEF CycleDies
<1> QED
  BY <1>8, <1>9, <1>10, <1>11, <1>12, <1>13 DEF CycleStep

(* The admin.                                                              *)
LEMMA AdminTypesStep ==
  ASSUME TypeOK, Working, AdminStep
  PROVE  TypeOK'
<1>1. WorldTypes /\ RowTypes /\ BookTypes /\ HeldTypes /\ CycleTypes /\ PayTypes
  BY TypeParts
<1>2. UNCHANGED <<world, cycle, exec, transfer>>
  BY DEF AdminStep, ApproveRecomputes, AdminHold, AdminRetry, AdminMarkSettled,
         ApproveCommits, ApprovalDies
<1>3. WorldTypes' /\ CycleTypes'
  BY <1>1, <1>2 DEF WorldTypes, CycleTypes, world
<1>4. ASSUME approval' \in 0 .. MaxBatches PROVE PayTypes'
  BY <1>1, <1>2, <1>4 DEF PayTypes
<1>5. ASSUME UNCHANGED <<books, held>> PROVE (BookTypes /\ HeldTypes)'
  BY <1>1, <1>5 DEF books, held, BookTypes, HeldTypes
<1>6. approval \in 0 .. MaxBatches
  BY <1>1 DEF PayTypes
<1>7. {} \in SUBSET Reservations
  OBVIOUS
<1>8. 0 \in 0 .. MaxBatches /\ Batches \subseteq 0 .. MaxBatches
  BY SettlementAssumption DEF Batches
<1>9. CASE \E b \in Batches : ApproveRecomputes(b)
  <2>1. PICK b \in Batches : ApproveRecomputes(b)
    BY <1>9
  <2>2. (RowTypes /\ BookTypes /\ HeldTypes)'
    BY <1>7, <2>1, RecomputeTypes DEF ApproveRecomputes
  <2>3. approval' \in 0 .. MaxBatches
    BY <1>8, <2>1 DEF ApproveRecomputes
  <2> QED
    BY <1>3, <1>4, <2>2, <2>3, TypesNext
<1>10. CASE \E b \in Batches : AdminHold(b)
  <2>1. PICK b \in Batches : AdminHold(b)
    BY <1>10
  <2>2. RowTypes'
    BY <1>1, <2>1, RowWritten DEF AdminHold
  <2>3. BookTypes' /\ PayTypes'
    BY <1>1, <1>2, <2>1 DEF AdminHold, books, BookTypes, PayTypes
  <2>4. HeldTypes'
    <3>1. Cardinality(refunded) \in Nat
      <4>1. refunded \in SUBSET Reservations
        BY <1>1 DEF WorldTypes
      <4> QED
        BY <4>1, FiniteRows, FS_Subset, FS_CardinalityType
    <3>2. Renewals \in {0, 1} /\ holds \in 0 .. MaxUpsets /\ MaxUpsets \in Nat
      BY <1>1, SettlementAssumption DEF HeldTypes, Renewals
    <3>3. holds + 1 \in 0 .. MaxUpsets
      BY <2>1, <3>1, <3>2 DEF AdminHold, MoreUpsets
    <3> QED
      BY <1>1, <2>1, <3>3 DEF AdminHold, HeldTypes
  <2> QED
    BY <1>3, <2>2, <2>3, <2>4, TypesNext
<1>11. CASE \E b \in Batches : AdminRetry(b)
  <2>1. PICK b \in Batches : AdminRetry(b)
    BY <1>11
  <2>2. (RowTypes /\ BookTypes /\ HeldTypes)'
    BY <1>7, <2>1, RecomputeTypes DEF AdminRetry
  <2>3. PayTypes'
    BY <1>4, <1>6, <2>1 DEF AdminRetry
  <2> QED
    BY <1>3, <2>2, <2>3, TypesNext
<1>12. CASE \E b \in Batches : AdminMarkSettled(b)
  <2>1. PICK b \in Batches : AdminMarkSettled(b)
    BY <1>12
  <2>2. RowTypes'
    BY <1>1, <2>1, RowWritten DEF AdminMarkSettled
  <2>3. PayTypes'
    BY <1>4, <1>6, <2>1 DEF AdminMarkSettled
  <2> QED
    BY <1>3, <1>5, <2>1, <2>2, <2>3, TypesNext DEF AdminMarkSettled
<1>13. CASE ApproveCommits
  <2>1. approval \in Batches
    BY <1>6, <1>13 DEF ApproveCommits, Batches
  <2>2. RowTypes'
    BY <1>1, <1>13, <2>1, RowWritten DEF ApproveCommits, RowTypes
  <2> QED
    BY <1>3, <1>4, <1>5, <1>8, <1>13, <2>2, TypesNext DEF ApproveCommits
<1>14. CASE ApprovalDies
  <2>1. RowTypes' /\ UNCHANGED <<books, held>>
    BY <1>1, <1>14 DEF ApprovalDies, ledger, RowTypes
  <2> QED
    BY <1>3, <1>4, <1>5, <1>8, <1>14, <2>1, TypesNext DEF ApprovalDies
<1> QED
  BY <1>9, <1>10, <1>11, <1>12, <1>13, <1>14 DEF AdminStep

(* The payout.                                                             *)
LEMMA ExecTypesStep ==
  ASSUME TypeOK, Working, NEW x \in Executors, ExecStep(x)
  PROVE  TypeOK'
<1> DEFINE Execs == [phase : {"idle", "read", "pay", "mark"}, batch : 0 .. MaxBatches,
                     net : Nat, attempted : BOOLEAN]
<1>1. WorldTypes /\ RowTypes /\ BookTypes /\ HeldTypes /\ CycleTypes /\ PayTypes
  BY TypeParts
<1>2. UNCHANGED <<world, books, holds, cycle, approval>>
  BY DEF ExecStep, ExecReads, ExecStamps, ExecPays, ExecMarks, ExecDies, ledger, held
<1>3. (WorldTypes /\ BookTypes /\ CycleTypes)'
  BY <1>1, <1>2 DEF WorldTypes, BookTypes, CycleTypes, world, books
<1>4. ASSUME NEW e \in Execs, Runs(x, e), UNCHANGED transfer
      PROVE  PayTypes'
  BY <1>1, <1>2, <1>4 DEF PayTypes, Runs
<1>5. ASSUME UNCHANGED ledger PROVE (RowTypes /\ HeldTypes)'
  BY <1>1, <1>5 DEF ledger, held, RowTypes, HeldTypes
<1>6. IdleExec \in Execs /\ exec[x] \in Execs
  BY <1>1, SettlementAssumption DEF IdleExec, PayTypes
<1>7. ASSUME Relies(x) \/ UNCHANGED misread, exec[x].batch \in Batches
      PROVE  HeldTypes'
  BY <1>1, <1>2, <1>7 DEF Relies, HeldTypes
<1>8. CASE \E b \in Batches : ExecReads(x, b)
  <2>1. PICK b \in Batches : ExecReads(x, b)
    BY <1>8
  <2> DEFINE e == [phase |-> IF batch[b].net = 0 THEN "mark" ELSE "read", batch |-> b,
                   net |-> batch[b].net, attempted |-> batch[b].attempted]
  <2>2. batch[b].net \in Nat /\ batch[b].attempted \in BOOLEAN
    BY <1>1 DEF RowTypes, Rows
  <2>3. e \in Execs
    BY <2>2, SettlementAssumption DEF Batches
  <2>4. Runs(x, e) /\ UNCHANGED transfer
    BY <2>1 DEF ExecReads
  <2> HIDE DEF e, Execs
  <2>5. PayTypes'
    BY <1>4, <2>3, <2>4
  <2> QED
    BY <1>3, <1>5, <2>1, <2>5, TypesNext DEF ExecReads
<1>9. CASE ExecStamps(x)
  <2>1. exec[x].batch \in Batches
    BY <1>9 DEF ExecStamps, Working
  <2>2. [exec[x] EXCEPT !.phase = "pay"] \in Execs
    BY <1>6
  <2>3. /\ Runs(x, [exec[x] EXCEPT !.phase = "pay"]) \/ Runs(x, IdleExec)
        /\ batch' = batch \/ batch' = [batch EXCEPT ![exec[x].batch].attempted = TRUE]
        /\ Relies(x) \/ UNCHANGED misread
        /\ UNCHANGED transfer
    BY <1>9 DEF ExecStamps
  <2> HIDE DEF Execs
  <2>4. PayTypes'
    BY <1>4, <1>6, <2>2, <2>3
  <2>5. RowTypes'
    BY <1>1, <2>1, <2>3, RowWritten DEF RowTypes
  <2> QED
    BY <1>3, <1>7, <2>1, <2>3, <2>4, <2>5, TypesNext
<1>10. CASE ExecPays(x)
  <2>1. exec[x].batch \in Batches /\ exec[x].net \in Nat
    BY <1>6, <1>10 DEF ExecPays, Working
  <2>2. [exec[x] EXCEPT !.phase = "mark"] \in Execs
    BY <1>6
  <2>3. /\ Runs(x, [exec[x] EXCEPT !.phase = "mark"]) \/ Runs(x, IdleExec)
        /\ \/ transfer' = [transfer EXCEPT ![exec[x].batch] = exec[x].net]
           \/ UNCHANGED transfer
    BY <1>10 DEF ExecPays
  <2> HIDE DEF Execs
  <2>4. PICK e \in Execs : Runs(x, e)
    BY <1>6, <2>2, <2>3
  <2>5. exec' \in [Executors -> Execs]
    BY <1>1, <2>4 DEF PayTypes, Runs, Execs
  <2>6. transfer' \in [Batches -> Nat]
    BY <1>1, <2>1, <2>3 DEF PayTypes
  <2>7. PayTypes'
    BY <1>1, <1>2, <2>5, <2>6 DEF PayTypes, Execs
  <2> QED
    BY <1>3, <1>5, <1>10, <2>7, TypesNext DEF ExecPays
<1>11. CASE ExecMarks(x)
  <2>1. exec[x].batch \in Batches
    BY <1>11 DEF ExecMarks, Working
  <2>2. /\ Runs(x, IdleExec) /\ UNCHANGED transfer
        /\ batch' = batch \/ batch' = [batch EXCEPT ![exec[x].batch].status = "SENT"]
        /\ Relies(x) \/ UNCHANGED misread
    BY <1>11 DEF ExecMarks
  <2> HIDE DEF Execs
  <2>3. PayTypes'
    BY <1>4, <1>6, <2>2
  <2>4. RowTypes'
    BY <1>1, <2>1, <2>2, RowWritten DEF RowTypes
  <2> QED
    BY <1>3, <1>7, <2>1, <2>2, <2>3, <2>4, TypesNext
<1>12. CASE ExecDies(x)
  <2> HIDE DEF Execs
  <2>1. PayTypes'
    BY <1>4, <1>6, <1>12 DEF ExecDies
  <2> QED
    BY <1>3, <1>5, <1>12, <2>1, TypesNext DEF ExecDies
<1> QED
  BY <1>8, <1>9, <1>10, <1>11, <1>12 DEF ExecStep

(* Every step keeps the types.                                             *)
LEMMA TypeStep == TypeOK /\ Working /\ [Next]_vars => TypeOK'
<1> SUFFICES ASSUME TypeOK, Working, [Next]_vars PROVE TypeOK'
  OBVIOUS
<1>1. CASE UNCHANGED vars
  BY <1>1 DEF vars, world, ledger, books, held, TypeOK
<1>2. CASE Next
  BY <1>2, WorldSteps, CycleTypesStep, AdminTypesStep, ExecTypesStep DEF Next
<1> QED
  BY <1>1, <1>2

-----------------------------------------------------------------------------
(* How a row moves                                                         *)

(* Without a recompute, a row keeps its amounts and its status moves as    *)
(* settlement-transitions.ts has it.                                       *)
SameAmounts(c) ==
  /\ batch'[c].gross = batch[c].gross /\ batch'[c].fees = batch[c].fees
  /\ batch'[c].offset = batch[c].offset /\ batch'[c].clawback = batch[c].clawback
  /\ batch'[c].net = batch[c].net /\ batch'[c].source = batch[c].source
  /\ batch'[c].inherited = batch[c].inherited
  /\ batch'[c].carried = batch[c].carried

StatusMoves(c, from, to) == batch[c].status = from /\ batch'[c].status = to

RowMoves(c) ==
  /\ SameAmounts(c)
  /\ \/ batch'[c] = batch[c]
     \/ /\ batch'[c].attempted = batch[c].attempted
        /\ \/ StatusMoves(c, "absent", "CALCULATED") /\ ~batch[c].attempted
           \/ StatusMoves(c, "CALCULATED", "APPROVED") /\ approval = c
           \/ /\ StatusMoves(c, "CALCULATED", "HELD") \/ StatusMoves(c, "APPROVED", "HELD")
              /\ ~batch[c].attempted
           \/ StatusMoves(c, "APPROVED", "SENT") /\ exec' # exec
           \/ StatusMoves(c, "SENT", "SETTLED")
     \/ /\ StatusMoves(c, "APPROVED", "APPROVED")
        /\ ~batch[c].attempted /\ batch'[c].attempted

(* The books that only a recompute writes.                                 *)
BooksStay == UNCHANGED <<line, recovered, resolved, alloc, claim, overtaken>>

(* A step that is not a recompute.                                         *)
OnlyRowsMove == BooksStay /\ \A c \in Batches : RowMoves(c)

(* A recompute of b that is neither frozen nor refused.                    *)
Written(b, P) == ~Frozen(b) /\ ~Refuses(b, P) /\ Writes(b, P)

(* A row that is not touched moves as it may.                              *)
LEMMA RowStays ==
  ASSUME NEW c \in Batches, batch'[c] = batch[c]
  PROVE  RowMoves(c)
BY DEF RowMoves, SameAmounts

(* A new status leaves the row's amounts, and the other rows, alone.       *)
LEMMA StatusSet ==
  ASSUME RowTypes, NEW b \in Batches, NEW s,
         batch' = [batch EXCEPT ![b].status = s]
  PROVE  /\ SameAmounts(b) /\ batch'[b].status = s
         /\ batch'[b].attempted = batch[b].attempted
         /\ \A c \in Batches : c # b => batch'[c] = batch[c]
<1>1. batch[b] \in Rows
  BY DEF RowTypes
<1>2. batch'[b] = [batch[b] EXCEPT !.status = s]
  BY DEF RowTypes
<1>3. \A c \in Batches : c # b => batch'[c] = batch[c]
  BY DEF RowTypes
<1> QED
  BY <1>1, <1>2, <1>3 DEF SameAmounts, Rows

(* A batch that is created is a blank row with a status.                   *)
LEMMA RowCreated ==
  ASSUME RowTypes, Working, NEW b \in Batches, NEW d, batch[b].status = "absent",
         Created(b, d)
  PROVE  RowMoves(b)
<1>1. batch[b] = NoBatch
  BY DEF Working
<1>2. batch'[b] = [NoBatch EXCEPT !.day = d, !.status = "CALCULATED"]
  BY DEF Created, RowTypes
<1> QED
  BY <1>1, <1>2 DEF NoBatch, RowMoves, SameAmounts, StatusMoves

(* A recompute of b is refused, or written.                                *)
LEMMA RecomputeWrites ==
  ASSUME NEW b \in Batches, NEW P \in SUBSET Reservations, Recompute(b, P)
  PROVE  Written(b, P) \/ (OnlyRowsMove /\ UNCHANGED ledger)
<1>1. CASE UNCHANGED ledger
  BY <1>1, RowStays DEF OnlyRowsMove, BooksStay, ledger, books
<1>2. CASE ~Frozen(b) /\ ~Refuses(b, P) /\ Writes(b, P)
  BY <1>2 DEF Written
<1> QED
  BY <1>1, <1>2 DEF Recompute

(* Every step is a recompute or moves the rows.                            *)
LEMMA StepsMoveRows ==
  ASSUME TypeOK, Working, [Next]_vars
  PROVE  \/ \E b \in Batches, P \in SUBSET Reservations : Written(b, P)
         \/ OnlyRowsMove
<1>1. RowTypes
  BY TypeParts
<1>2. ASSUME UNCHANGED <<batch, line, recovered, resolved, alloc, claim, overtaken>>
      PROVE  OnlyRowsMove
  BY <1>2, RowStays DEF OnlyRowsMove, BooksStay
<1>3. ASSUME NEW b \in Batches, BooksStay, RowMoves(b),
             \A c \in Batches : c # b => batch'[c] = batch[c]
      PROVE  OnlyRowsMove
  BY <1>3, RowStays DEF OnlyRowsMove
<1>4. CASE UNCHANGED vars
  BY <1>2, <1>4 DEF vars, ledger, books
<1>5. CASE NewDay \/ Renew \/ \E r \in Reservations : Earn(r) \/ Refund(r)
  BY <1>2, <1>5 DEF NewDay, Renew, Earn, Refund, ledger, books
<1>6. ASSUME NEW n \in Cycles, CycleStep(n)
      PROVE  \/ \E b \in Batches, P \in SUBSET Reservations : Written(b, P)
             \/ OnlyRowsMove
  <2>1. CASE Scan(n) \/ BatchGroupFails(n) \/ CycleDies(n)
    BY <1>2, <2>1 DEF Scan, BatchGroupFails, CycleDies, ledger, books
  <2>2. CASE CreateOrExtend(n)
    <3>1. PICK b \in Batches, d \in Days :
            /\ \A c \in Batches : c # b => batch'[c] = batch[c]
            /\ batch' = batch \/ (batch[b].status = "absent" /\ Created(b, d))
      BY <2>2, CreateOrExtendFacts
    <3>2. RowMoves(b)
      BY <1>1, <3>1, RowStays, RowCreated
    <3>3. BooksStay
      BY <2>2 DEF CreateOrExtend, BooksStay, books
    <3> QED
      BY <1>3, <3>1, <3>2, <3>3
  <2>3. CASE BatchGroup(n)
    <3>1. cycle[n].batch \in Batches /\ cycle[n].lines \in SUBSET Reservations
      BY <2>3, TypeParts DEF BatchGroup, Working, CycleTypes
    <3> QED
      BY <2>3, <3>1, RecomputeWrites DEF BatchGroup
  <2>4. CASE Sweep(n)
    <3>1. PICK b \in Batches, d \in Days :
            /\ \A c \in Batches : c # b => batch'[c] = batch[c]
            /\ batch' = batch \/ (batch[b].status = "absent" /\ Created(b, d))
      BY <2>4, SweepFacts
    <3>2. RowMoves(b)
      BY <1>1, <3>1, RowStays, RowCreated
    <3>3. BooksStay
      BY <2>4 DEF Sweep, BooksStay, books
    <3> QED
      BY <1>3, <3>1, <3>2, <3>3
  <2> QED
    BY <1>6, <2>1, <2>2, <2>3, <2>4 DEF CycleStep
<1>7. CASE AdminStep
  <2>1. {} \in SUBSET Reservations
    OBVIOUS
  <2>2. ASSUME NEW b \in Batches, ApproveRecomputes(b) \/ AdminRetry(b)
        PROVE  \/ \E c \in Batches, P \in SUBSET Reservations : Written(c, P)
               \/ OnlyRowsMove
    BY <2>1, <2>2, RecomputeWrites DEF ApproveRecomputes, AdminRetry
  <2>3. ASSUME NEW b \in Batches, AdminHold(b) PROVE OnlyRowsMove
    <3>1. /\ batch[b].status \in {"CALCULATED", "APPROVED"} /\ ~batch[b].attempted
          /\ batch' = [batch EXCEPT ![b].status = "HELD"] /\ BooksStay
      BY <2>3 DEF AdminHold, Holdable, BooksStay, books
    <3>2. RowMoves(b)
      BY <1>1, <3>1, StatusSet DEF RowMoves, StatusMoves
    <3> QED
      BY <1>1, <1>3, <3>1, <3>2, StatusSet
  <2>4. ASSUME NEW b \in Batches, AdminMarkSettled(b) PROVE OnlyRowsMove
    <3>1. /\ batch[b].status = "SENT"
          /\ batch' = [batch EXCEPT ![b].status = "SETTLED"] /\ BooksStay
      BY <2>4 DEF AdminMarkSettled, BooksStay, books
    <3>2. RowMoves(b)
      BY <1>1, <3>1, StatusSet DEF RowMoves, StatusMoves
    <3> QED
      BY <1>1, <1>3, <3>1, <3>2, StatusSet
  <2>5. CASE ApproveCommits
    <3>1. approval \in Batches /\ BooksStay
      BY <2>5, TypeParts DEF ApproveCommits, PayTypes, Batches, BooksStay, books
    <3>2. CASE batch[approval].status = "CALCULATED"
      <4>1. batch' = [batch EXCEPT ![approval].status = "APPROVED"]
        BY <2>5, <3>2 DEF ApproveCommits
      <4>2. RowMoves(approval)
        BY <1>1, <3>1, <3>2, <4>1, StatusSet DEF RowMoves, StatusMoves
      <4> QED
        BY <1>1, <1>3, <3>1, <4>1, <4>2, StatusSet
    <3>3. CASE batch[approval].status # "CALCULATED"
      BY <1>2, <2>5, <3>1, <3>3 DEF ApproveCommits, BooksStay
    <3> QED
      BY <3>2, <3>3
  <2>6. CASE ApprovalDies
    BY <1>2, <2>6 DEF ApprovalDies, ledger, books
  <2> QED
    BY <1>7, <2>2, <2>3, <2>4, <2>5, <2>6 DEF AdminStep
<1>8. ASSUME NEW x \in Executors, ExecStep(x) PROVE OnlyRowsMove
  <2>1. BooksStay
    BY <1>8 DEF ExecStep, ExecReads, ExecStamps, ExecPays, ExecMarks, ExecDies,
                ledger, books, BooksStay
  <2>2. CASE UNCHANGED batch
    BY <1>2, <2>1, <2>2 DEF BooksStay
  <2>3. CASE ExecStamps(x) /\ ~ UNCHANGED batch
    <3> DEFINE b == exec[x].batch
    <3>1. /\ b \in Batches
          /\ batch' = [batch EXCEPT ![b].attempted = TRUE]
          /\ batch[b].status = "APPROVED" /\ ~batch[b].attempted
      BY <2>3 DEF ExecStamps, Working
    <3> HIDE DEF b
    <3>2. /\ batch[b] \in Rows /\ batch'[b] = [batch[b] EXCEPT !.attempted = TRUE]
          /\ \A c \in Batches : c # b => batch'[c] = batch[c]
      BY <1>1, <3>1 DEF RowTypes
    <3>3. RowMoves(b)
      <4>1. /\ SameAmounts(b)
            /\ batch'[b].attempted = TRUE /\ batch'[b].status = batch[b].status
        BY <3>2 DEF SameAmounts, Rows
      <4> QED
        BY <3>1, <4>1, Zenon DEF RowMoves, StatusMoves
    <3> QED
      BY <1>3, <2>1, <3>1, <3>2, <3>3
  <2>4. CASE ExecMarks(x) /\ ~ UNCHANGED batch
    <3> DEFINE b == exec[x].batch
    <3>1. /\ b \in Batches
          /\ batch' = [batch EXCEPT ![b].status = "SENT"]
          /\ batch[b].status = "APPROVED"
      BY <2>4 DEF ExecMarks, Working
    <3> HIDE DEF b
    <3>2. exec' # exec
      BY <2>4, TypeParts DEF ExecMarks, Runs, IdleExec, PayTypes
    <3>3. RowMoves(b)
      BY <1>1, <3>1, <3>2, StatusSet DEF RowMoves, StatusMoves
    <3> QED
      BY <1>1, <1>3, <2>1, <3>1, <3>3, StatusSet
  <2> QED
    BY <1>8, <2>2, <2>3, <2>4
    DEF ExecStep, ExecReads, ExecPays, ExecDies, ledger
<1> QED
  BY <1>4, <1>5, <1>6, <1>7, <1>8 DEF Next

-----------------------------------------------------------------------------
(* What is under way                                                       *)

(* What a recompute leaves of the rows.                                    *)
LEMMA WrittenRows ==
  ASSUME TypeOK, Working, NEW b \in Batches, NEW P \in SUBSET Reservations,
         Written(b, P)
  PROVE  /\ batch'[b].status \in Recomputable
         /\ batch'[b].source = SourceOf(b) /\ batch'[b].source # b
         /\ batch'[b].inherited = CarriedDemand(b)
         /\ batch[b].status \in Recomputable /\ ~batch[b].attempted
         /\ ~batch'[b].attempted
         /\ \A c \in Batches : c # b => batch'[c] = batch[c]
<1> DEFINE row == NewRow(b, Attached(b, P))
<1>1. /\ Attached(b, P) \in SUBSET Reservations
      /\ batch' = [batch EXCEPT ![b] = row]
  BY WritesFacts DEF Written
<1>2. /\ row.source = SourceOf(b) /\ row.inherited = CarriedDemand(b)
      /\ row.status \in Recomputable /\ row.attempted = batch[b].attempted
  BY <1>1, NewRowFacts
<1>3. batch'[b] = row /\ \A c \in Batches : c # b => batch'[c] = batch[c]
  BY <1>1, TypeParts DEF RowTypes
<1> HIDE DEF row
<1>4. batch[b].status \in Recomputable /\ ~batch[b].attempted
  BY DEF Written, Frozen
<1>5. SourceOf(b) # b
  BY SourceType
<1> QED
  BY <1>2, <1>3, <1>4, <1>5

(* A row that exists goes on existing, and one that does not is blank.     *)
LEMMA RowsExist ==
  ASSUME TypeOK, Working, [Next]_vars, NEW c \in Batches
  PROVE  /\ batch[c].status # "absent" => batch'[c].status # "absent"
         /\ batch'[c].status = "absent" => batch'[c] = NoBatch
         /\ batch'[c].source # c
<1>1. /\ batch[c].status = "absent" => batch[c] = NoBatch
      /\ batch[c].source # c
  BY DEF Working
<1>2. CASE \E b \in Batches, P \in SUBSET Reservations : Written(b, P)
  <2>1. PICK b \in Batches, P \in SUBSET Reservations : Written(b, P)
    BY <1>2
  <2>2. CASE c = b
    BY <2>1, <2>2, WrittenRows DEF Recomputable
  <2>3. CASE c # b
    BY <1>1, <2>1, <2>3, WrittenRows
  <2> QED
    BY <2>2, <2>3
<1>3. CASE OnlyRowsMove
  <2>1. RowMoves(c)
    BY <1>3 DEF OnlyRowsMove
  <2> QED
    BY <1>1, <2>1 DEF RowMoves, SameAmounts, StatusMoves
<1> QED
  BY <1>2, <1>3, StepsMoveRows

(* What is under way refers to what exists.                                *)
LEMMA WorkingStep == TypeOK /\ Working /\ [Next]_vars => Working'
<1> SUFFICES ASSUME TypeOK, Working, [Next]_vars PROVE Working'
  OBVIOUS
<1>1. CycleTypes /\ RowTypes /\ PayTypes
  BY TypeParts
<1>2. ASSUME NEW n \in Cycles, cycle'[n].phase = "recompute"
      PROVE  cycle'[n].batch \in Batches /\ batch'[cycle'[n].batch].status # "absent"
  <2>1. CASE cycle'[n] = cycle[n]
    <3>1. cycle[n].batch \in Batches /\ batch[cycle[n].batch].status # "absent"
      BY <1>2, <2>1 DEF Working
    <3> QED
      BY <2>1, <3>1, RowsExist
  <2>2. CASE \E m \in Cycles : CycleStep(m) /\ cycle'[n] # cycle[n]
    <3>1. PICK m \in Cycles : CycleStep(m)
      BY <2>2
    <3>2. CASE CreateOrExtend(m)
      <4>1. PICK b \in Batches, d \in Days, L \in SUBSET Reservations :
              /\ batch'[b].status # "absent"
              /\ Goes(m, [phase |-> "recompute", todo |-> cycle[m].todo \ L,
                          batch |-> b, lines |-> L])
        BY <3>2, CreateOrExtendFacts
      <4>2. n = m /\ cycle'[n].batch = b
        BY <1>1, <2>2, <4>1 DEF Goes, CycleTypes
      <4> QED
        BY <4>1, <4>2
    <3>3. CASE Sweep(m)
      <4>1. PICK b \in Batches, d \in Days :
              /\ batch'[b].status # "absent"
              /\ Goes(m, [IdleCycle EXCEPT !.phase = "recompute", !.batch = b])
        BY <3>3, SweepFacts
      <4>2. n = m /\ cycle'[n].batch = b
        BY <1>1, <2>2, <4>1 DEF Goes, CycleTypes, IdleCycle
      <4> QED
        BY <4>1, <4>2
    <3>4. CASE BatchGroup(m) \/ BatchGroupFails(m)
      <4>1. NextGroup(m)
        BY <3>4 DEF BatchGroup, BatchGroupFails
      <4> QED
        BY <1>1, <1>2, <2>2, <4>1, NextGroupTypes
    <3>5. CASE Scan(m) \/ CycleDies(m)
      <4>1. PICK c : Goes(m, c) /\ c.phase # "recompute"
        <5>1. IdleCycle.phase # "recompute"
              /\ \A T : [IdleCycle EXCEPT !.phase = "grouping", !.todo = T].phase # "recompute"
          BY DEF IdleCycle
        <5> QED
          BY <3>5, <5>1 DEF Scan, CycleDies
      <4>2. /\ cycle'[m].phase # "recompute"
            /\ \A k \in Cycles : k # m => cycle'[k] = cycle[k]
        BY <1>1, <4>1 DEF Goes, CycleTypes
      <4> QED
        BY <1>2, <2>2, <4>2
    <3> QED
      BY <3>1, <3>2, <3>3, <3>4, <3>5 DEF CycleStep
  <2>3. CASE \A m \in Cycles : ~CycleStep(m)
    <3>1. UNCHANGED cycle
      BY <2>3 DEF Next, vars, NewDay, Renew, Earn, Refund, AdminStep, ExecStep,
                  ApproveRecomputes, AdminHold, AdminRetry, AdminMarkSettled,
                  ApproveCommits, ApprovalDies, ExecReads, ExecStamps, ExecPays,
                  ExecMarks, ExecDies
    <3> QED
      BY <2>1, <3>1
  <2> QED
    BY <2>1, <2>2, <2>3
<1>3. ASSUME NEW x \in Executors, exec'[x].phase # "idle"
      PROVE  exec'[x].batch \in Batches
  <2>1. CASE exec'[x] = exec[x]
    BY <1>3, <2>1 DEF Working
  <2>2. CASE exec'[x] # exec[x]
    <3>1. PICK y \in Executors : ExecStep(y)
      <4>1. CASE \A y \in Executors : ~ExecStep(y)
        <5>1. UNCHANGED exec
          BY <4>1 DEF Next, vars, NewDay, Renew, Earn, Refund, AdminStep, CycleStep,
                      ApproveRecomputes, AdminHold, AdminRetry, AdminMarkSettled,
                      ApproveCommits, ApprovalDies, Scan, CreateOrExtend, BatchGroup,
                      BatchGroupFails, Sweep, CycleDies
        <5> QED
          BY <2>2, <5>1
      <4> QED
        BY <4>1
    <3>2. CASE \E b \in Batches : ExecReads(y, b)
      BY <1>1, <2>2, <3>2 DEF ExecReads, Runs, PayTypes
    <3>3. CASE ExecStamps(y) \/ ExecPays(y) \/ ExecMarks(y) \/ ExecDies(y)
      <4>1. /\ exec[y].phase # "idle"
            /\ \/ \E p \in {"pay", "mark"} : Runs(y, [exec[y] EXCEPT !.phase = p])
               \/ Runs(y, IdleExec)
        BY <3>3 DEF ExecStamps, ExecPays, ExecMarks, ExecDies
      <4>2. x = y /\ (exec'[x].batch = exec[x].batch \/ exec'[x] = IdleExec)
        BY <1>1, <2>2, <4>1 DEF Runs, PayTypes
      <4> QED
        BY <1>3, <4>1, <4>2 DEF IdleExec, Working
    <3> QED
      BY <3>1, <3>2, <3>3 DEF ExecStep
  <2> QED
    BY <2>1, <2>2
<1>4. ASSUME approval' # 0 PROVE batch'[approval'].status # "absent"
  <2>1. CASE approval' = approval
    <3>1. approval \in Batches /\ batch[approval].status # "absent"
      BY <1>1, <1>4, <2>1 DEF Working, PayTypes, Batches
    <3> QED
      BY <2>1, <3>1, RowsExist
  <2>2. CASE approval' # approval
    <3>1. \E b \in Batches : ApproveRecomputes(b)
      BY <1>4, <2>2
      DEF Next, vars, NewDay, Renew, Earn, Refund, AdminStep, CycleStep, ExecStep,
          AdminHold, AdminRetry, AdminMarkSettled, ApproveCommits, ApprovalDies,
          Scan, CreateOrExtend, BatchGroup, BatchGroupFails, Sweep, CycleDies,
          ExecReads, ExecStamps, ExecPays, ExecMarks, ExecDies
    <3>2. PICK b \in Batches : ApproveRecomputes(b)
      BY <3>1
    <3> QED
      BY <1>4, <3>2 DEF ApproveRecomputes
  <2> QED
    BY <2>1, <2>2
<1> QED
  BY <1>2, <1>3, <1>4, RowsExist DEF Working

-----------------------------------------------------------------------------
(* The ledger, the membership and the sums of a row                        *)

(* The ledger keeps its identities.                                        *)
LEMMA LedgerStep ==
  TypeOK /\ Working /\ LedgerIdentity /\ [Next]_vars => LedgerIdentity'
<1> SUFFICES ASSUME TypeOK, Working, LedgerIdentity, [Next]_vars PROVE LedgerIdentity'
  OBVIOUS
<1>1. CASE \E b \in Batches, P \in SUBSET Reservations : Written(b, P)
  BY <1>1, WritesKeepLedger DEF Written
<1>2. CASE OnlyRowsMove
  <2>1. \A c \in Batches : SameAmounts(c)
    BY <1>2 DEF OnlyRowsMove, RowMoves
  <2>2. UNCHANGED <<claim, alloc, recovered, resolved>>
    BY <1>2 DEF OnlyRowsMove, BooksStay
  <2>3. ASSUME NEW c \in Batches
        PROVE  /\ claim'[c] = batch'[c].inherited
               /\ batch'[c].carried <= batch'[c].inherited
               /\ batch'[c].clawback = batch'[c].inherited - batch'[c].carried
                                        + Total(alloc'[c], Reservations)
    BY <2>1, <2>2 DEF LedgerIdentity, SameAmounts
  <2>4. ASSUME NEW r \in Reservations
        PROVE  /\ recovered'[r] = Total([c \in Batches |-> alloc'[c][r]], Batches)
               /\ recovered'[r] <= FullDemand(r)
               /\ r \in resolved' <=> FullDemand(r) > 0 /\ recovered'[r] = FullDemand(r)
    BY <2>2 DEF LedgerIdentity
  <2> QED
    BY <2>3, <2>4 DEF LedgerIdentity, FullDemand
<1> QED
  BY <1>1, <1>2, StepsMoveRows

(* What the rows withheld for the membership.                              *)
Offsets == [b \in Batches |-> batch[b].offset]

(* The membership's balance is conserved.                                  *)
LEMMA MembershipStep ==
  TypeOK /\ Working /\ MembershipConserved /\ [Next]_vars => MembershipConserved'
<1> SUFFICES ASSUME TypeOK, Working, MembershipConserved, [Next]_vars
             PROVE  MembershipConserved'
  OBVIOUS
<1>1. /\ member.charged = member.owed + member.writtenOff + Total(Offsets, Batches)
      /\ member \in [owed : Nat, period : Nat, writtenOff : Nat, charged : Nat]
  BY TypeParts DEF MembershipConserved, Offsets, BookTypes
<1>2. \A b \in Batches : Offsets[b] \in Nat
  BY DEF Offsets, TypeOK
<1>3. Total(Offsets, Batches) \in Nat
  BY <1>2, FiniteRows, TotalType
<1>4. SUFFICES member'.charged = member'.owed + member'.writtenOff + Total(Offsets', Batches)
  BY DEF MembershipConserved, Offsets
<1>5. CASE \E b \in Batches, P \in SUBSET Reservations : Written(b, P)
  <2>1. PICK b \in Batches, P \in SUBSET Reservations : Written(b, P)
    BY <1>5
  <2> DEFINE row == NewRow(b, Attached(b, P))
  <2>2. /\ Attached(b, P) \in SUBSET Reservations
        /\ batch' = [batch EXCEPT ![b] = row]
        /\ member.owed + batch[b].offset - row.offset \in Nat
        /\ member' = [member EXCEPT !.owed = member.owed + batch[b].offset - row.offset]
    BY <2>1, WritesFacts DEF Written
  <2>3. row.offset \in Nat
    BY <2>2, NewRowFacts DEF Rows
  <2> HIDE DEF row
  <2>4. \A c \in Batches : Offsets'[c] = IF c = b THEN row.offset ELSE Offsets[c]
    BY <2>2, TypeParts DEF Offsets, RowTypes
  <2>5. /\ Total(Offsets', Batches) = Total(Offsets, Batches \ {b}) + Offsets'[b]
        /\ Total(Offsets, Batches) = Total(Offsets, Batches \ {b}) + Offsets[b]
        /\ Total(Offsets, Batches \ {b}) \in Nat
    <3>1. Offsets'[b] \in Nat /\ \A y \in Batches \ {b} : Offsets'[y] = Offsets[y]
      BY <2>3, <2>4
    <3>2. IsFiniteSet(Batches)
      BY FiniteRows
    <3> QED
      BY <1>2, <3>1, <3>2, TotalUpdate
  <2>6. Offsets'[b] = row.offset /\ Offsets[b] = batch[b].offset
    BY <2>4 DEF Offsets
  <2>7. batch[b].offset \in Nat
    BY DEF TypeOK
  <2>8. /\ member'.charged = member.charged /\ member'.writtenOff = member.writtenOff
        /\ member'.owed = member.owed + batch[b].offset - row.offset
    BY <1>1, <2>2
  <2> QED
    BY <1>1, <2>3, <2>5, <2>6, <2>7, <2>8
<1>6. CASE OnlyRowsMove
  <2>1. Offsets' = Offsets
    BY <1>6 DEF OnlyRowsMove, RowMoves, SameAmounts, Offsets
  <2>2. CASE Renew
    <3>1. today \in Days /\ MembershipPrice \in Nat
      BY SettlementAssumption DEF TypeOK
    <3>2. /\ member'.charged = member.charged + MembershipPrice
          /\ member'.writtenOff = member.writtenOff + member.owed
          /\ member'.owed = MembershipPrice
      BY <2>2 DEF Renew
    <3> QED
      BY <1>1, <1>3, <2>1, <3>1, <3>2
  <2>3. CASE UNCHANGED member
    BY <1>1, <2>1, <2>3
  <2>4. CASE ~Renew /\ ~ UNCHANGED member
    <3>1. \E b \in Batches, P \in SUBSET Reservations : Recompute(b, P)
      BY <2>4, TypeParts
      DEF Next, vars, NewDay, Earn, Refund, AdminStep, CycleStep, ExecStep,
          ApproveRecomputes, AdminHold, AdminRetry, AdminMarkSettled,
          ApproveCommits, ApprovalDies, Scan, CreateOrExtend, BatchGroup,
          BatchGroupFails, Sweep, CycleDies, ExecReads, ExecStamps, ExecPays,
          ExecMarks, ExecDies, ledger, books, Working, CycleTypes
    <3>2. PICK b \in Batches, P \in SUBSET Reservations : Recompute(b, P)
      BY <3>1
    <3>3. Written(b, P)
      BY <2>4, <3>2, RecomputeWrites DEF ledger, books
    <3> QED
      BY <1>5, <3>3
  <2> QED
    BY <2>2, <2>3, <2>4
<1> QED
  BY <1>5, <1>6, StepsMoveRows

(* Every row adds up, and what is left of its lines is its net.            *)
LEMMA RowsStep == TypeOK /\ Working /\ RowsAddUp /\ [Next]_vars => RowsAddUp'
<1> SUFFICES ASSUME TypeOK, Working, RowsAddUp, [Next]_vars, NEW c \in Batches
             PROVE  RowAddsUp(c)'
  BY DEF RowsAddUp
<1>1. RowAddsUp(c)
  BY DEF RowsAddUp
<1>2. CASE \E b \in Batches, P \in SUBSET Reservations : Written(b, P)
  <2>1. PICK b \in Batches, P \in SUBSET Reservations : Written(b, P)
    BY <1>2
  <2> DEFINE L == Attached(b, P)
             row == NewRow(b, L)
  <2>2. /\ L \in SUBSET Reservations
        /\ batch' = [batch EXCEPT ![b] = row]
        /\ line' = [r \in Reservations |-> IF r \in L THEN b ELSE line[r]]
    BY <2>1, WritesFacts DEF Written
  <2>3. /\ row.gross = Total(Gross, L) /\ row.fees = Total(Fee, L)
        /\ row.status # "HELD" =>
             row.net = row.gross - row.fees - row.offset - row.clawback
    BY <2>2, NewRowFacts
  <2>4. batch'[c] = IF c = b THEN row ELSE batch[c]
    BY <2>2, TypeParts DEF RowTypes
  <2>5. b # 0 /\ c # 0
    BY DEF Batches
  <2>6. LinesOf(c)' = IF c = b THEN L ELSE LinesOf(c)
    <3>1. \A r \in L : line[r] = 0 \/ line[r] = b
      BY DEF Attached, LinesOf
    <3>2. LinesOf(b) \subseteq L
      BY DEF Attached
    <3> HIDE DEF L, row
    <3> QED
      BY <2>2, <2>5, <3>1, <3>2 DEF LinesOf
  <2> HIDE DEF L, row
  <2>7. CASE c = b
    BY <2>3, <2>4, <2>6, <2>7 DEF RowAddsUp
  <2>8. CASE c # b
    BY <1>1, <2>4, <2>6, <2>8 DEF RowAddsUp
  <2> QED
    BY <2>7, <2>8
<1>3. CASE OnlyRowsMove
  <2>1. RowMoves(c) /\ line' = line
    BY <1>3 DEF OnlyRowsMove, BooksStay
  <2>2. LinesOf(c)' = LinesOf(c)
    BY <2>1 DEF LinesOf
  <2>3. SameAmounts(c) /\ (batch'[c].status # "HELD" => batch[c].status # "HELD")
    BY <2>1 DEF RowMoves, StatusMoves
  <2> QED
    BY <1>1, <2>2, <2>3 DEF RowAddsUp, SameAmounts
<1> QED
  BY <1>2, <1>3, StepsMoveRows

-----------------------------------------------------------------------------
(* The payout                                                              *)

(* What an execution relies on stays so while an attempted row keeps its   *)
(* net and the transfer it marks stays.                                    *)
LEMMA StillRelies ==
  ASSUME Working, NEW x \in Executors, ExecRelies(x), exec'[x] = exec[x],
         misread \subseteq misread',
         \A b \in Batches : batch[b].attempted =>
           batch'[b].attempted /\ batch'[b].net = batch[b].net,
         \A b \in Batches : transfer[b] # 0 => transfer'[b] = transfer[b]
  PROVE  ExecRelies(x)'
<1>1. exec[x].phase # "idle" => exec[x].batch \in Batches
  BY DEF Working
<1> QED
  BY <1>1 DEF ExecRelies

(* An admin, a cycle or the world leaves the payout as it was.             *)
LEMMA PayoutStays ==
  ASSUME TypeOK, Working, PayoutOK, [Next]_vars,
         UNCHANGED <<exec, transfer, misread>>
  PROVE  PayoutOK'
<1>1. ASSUME NEW c \in Batches
      PROVE  /\ RowIsPaid(c)'
             /\ batch[c].attempted => batch'[c].attempted /\ batch'[c].net = batch[c].net
  <2>1. RowIsPaid(c)
    BY DEF PayoutOK
  <2>2. CASE \E b \in Batches, P \in SUBSET Reservations : Written(b, P)
    <3>1. PICK b \in Batches, P \in SUBSET Reservations : Written(b, P)
      BY <2>2
    <3>2. CASE c # b
      <4>1. batch'[c] = batch[c]
        BY <3>1, <3>2, WrittenRows
      <4> QED
        BY <2>1, <4>1 DEF RowIsPaid
    <3>3. CASE c = b
      <4>1. /\ ~batch[c].attempted /\ ~batch'[c].attempted
            /\ batch'[c].status \in Recomputable
        BY <3>1, <3>3, WrittenRows
      <4>2. transfer[c] = 0
        BY <2>1, <4>1 DEF RowIsPaid
      <4> QED
        BY <4>1, <4>2 DEF RowIsPaid, Recomputable, PaidOut
    <3> QED
      BY <3>2, <3>3
  <2>3. CASE OnlyRowsMove
    <3>1. RowMoves(c)
      BY <2>3 DEF OnlyRowsMove
    <3>2. batch'[c].net = batch[c].net
      BY <3>1 DEF RowMoves, SameAmounts
    <3>3. /\ batch[c].attempted => batch'[c].attempted
          /\ batch'[c].attempted => batch'[c].status \in {"APPROVED"} \cup PaidOut
          /\ batch'[c].status \in PaidOut => batch[c].status \in PaidOut
      BY <2>1, <3>1 DEF RowMoves, StatusMoves, RowIsPaid, PaidOut
    <3> QED
      BY <2>1, <3>2, <3>3 DEF RowIsPaid
  <2> QED
    BY <2>2, <2>3, StepsMoveRows
<1>2. ASSUME NEW x \in Executors PROVE ExecRelies(x)'
  <2>1. ExecRelies(x)
    BY DEF PayoutOK
  <2> QED
    BY <1>1, <2>1, StillRelies
<1> QED
  BY <1>1, <1>2 DEF PayoutOK

(* An execution keeps the payout's books.                                  *)
LEMMA ExecKeepsPayout ==
  ASSUME TypeOK, Working, PayoutOK, NEW x \in Executors, ExecStep(x)
  PROVE  PayoutOK'
<1> DEFINE b == exec[x].batch
<1>1. RowTypes /\ HeldTypes /\ PayTypes
  BY TypeParts
<1>2. \A c \in Batches : RowIsPaid(c)
  BY DEF PayoutOK
<1>3. \A y \in Executors : ExecRelies(y)
  BY DEF PayoutOK
<1>4. exec[x].phase # "idle" => b \in Batches
  BY DEF Working
<1>5. ASSUME NEW y \in Executors, y # x PROVE exec'[y] = exec[y]
  BY <1>1, <1>5 DEF ExecStep, ExecReads, ExecStamps, ExecPays, ExecMarks, ExecDies,
                    Runs, PayTypes
<1>6. CASE \E c \in Batches : ExecReads(x, c)
  <2>1. PICK c \in Batches : ExecReads(x, c)
    BY <1>6
  <2>2. UNCHANGED <<batch, misread, transfer>>
    BY <2>1 DEF ExecReads, ledger, held
  <2>3. exec'[x] = [phase |-> IF batch[c].net = 0 THEN "mark" ELSE "read", batch |-> c,
                    net |-> batch[c].net, attempted |-> batch[c].attempted]
    BY <1>1, <2>1 DEF ExecReads, Runs, PayTypes
  <2>4. ExecRelies(x)'
    BY <2>2, <2>3 DEF ExecRelies
  <2>5. ASSUME NEW y \in Executors, y # x PROVE ExecRelies(y)'
    BY <1>3, <1>5, <2>2, <2>5, StillRelies
  <2>6. \A d \in Batches : RowIsPaid(d)'
    BY <1>2, <2>2 DEF RowIsPaid
  <2> QED
    BY <2>4, <2>5, <2>6 DEF PayoutOK
<1>7. CASE ExecStamps(x)
  <2>1. b \in Batches /\ exec[x].phase = "read"
    BY <1>4, <1>7 DEF ExecStamps
  <2>2. UNCHANGED transfer
    BY <1>7 DEF ExecStamps
  <2>3. CASE exec[x].attempted
    <3>1. UNCHANGED <<batch, misread>> /\ exec'[x] = [exec[x] EXCEPT !.phase = "pay"]
      BY <1>1, <1>7, <2>3 DEF ExecStamps, Runs, PayTypes
    <3>2. ExecRelies(x)'
      <4>1. /\ exec'[x].phase = "pay" /\ exec'[x].batch = b
            /\ exec'[x].net = exec[x].net
        BY <1>1, <3>1 DEF PayTypes
      <4>2. batch[b].attempted /\ (b \in misread \/ exec[x].net = batch[b].net)
        BY <1>3, <2>1, <2>3 DEF ExecRelies
      <4> HIDE DEF b
      <4> QED
        BY <3>1, <4>1, <4>2 DEF ExecRelies
    <3>3. ASSUME NEW y \in Executors, y # x PROVE ExecRelies(y)'
      BY <1>3, <1>5, <2>2, <3>1, <3>3, StillRelies
    <3>4. \A d \in Batches : RowIsPaid(d)'
      BY <1>2, <2>2, <3>1 DEF RowIsPaid
    <3> QED
      BY <3>2, <3>3, <3>4 DEF PayoutOK
  <2>4. CASE ~exec[x].attempted /\ ~ (batch[b].status = "APPROVED" /\ ~batch[b].attempted)
    <3>1. UNCHANGED <<batch, misread>> /\ exec'[x] = IdleExec
      BY <1>1, <1>7, <2>4 DEF ExecStamps, Runs, PayTypes
    <3>2. ExecRelies(x)'
      BY <3>1 DEF ExecRelies, IdleExec
    <3>3. ASSUME NEW y \in Executors, y # x PROVE ExecRelies(y)'
      BY <1>3, <1>5, <2>2, <3>1, <3>3, StillRelies
    <3>4. \A d \in Batches : RowIsPaid(d)'
      BY <1>2, <2>2, <3>1 DEF RowIsPaid
    <3> QED
      BY <3>2, <3>3, <3>4 DEF PayoutOK
  <2>5. CASE ~exec[x].attempted /\ batch[b].status = "APPROVED" /\ ~batch[b].attempted
    <3>1. /\ exec'[x] = [exec[x] EXCEPT !.phase = "pay"]
          /\ batch' = [batch EXCEPT ![b].attempted = TRUE]
          /\ misread' = IF exec[x].net = batch[b].net THEN misread ELSE misread \cup {b}
      BY <1>1, <1>7, <2>5 DEF ExecStamps, Runs, Relies, PayTypes
    <3>2. /\ exec'[x].phase = "pay" /\ exec'[x].batch = b
          /\ exec'[x].net = exec[x].net
      BY <1>1, <3>1 DEF PayTypes
    <3> HIDE DEF b
    <3>3. /\ batch'[b].status = "APPROVED" /\ batch'[b].attempted = TRUE
          /\ batch'[b].net = batch[b].net
          /\ \A d \in Batches : d # b => batch'[d] = batch[d]
      <4>1. batch[b] \in Rows /\ batch'[b] = [batch[b] EXCEPT !.attempted = TRUE]
        BY <1>1, <2>1, <3>1 DEF RowTypes
      <4>2. \A d \in Batches : d # b => batch'[d] = batch[d]
        BY <1>1, <3>1 DEF RowTypes
      <4> QED
        BY <2>5, <4>1, <4>2 DEF Rows
    <3>4. ExecRelies(x)'
      BY <3>1, <3>2, <3>3 DEF ExecRelies
    <3>5. misread \subseteq misread'
      BY <3>1
    <3>6. \A d \in Batches : batch[d].attempted =>
            batch'[d].attempted /\ batch'[d].net = batch[d].net
      BY <2>1, <3>3
    <3>7. ASSUME NEW y \in Executors, y # x PROVE ExecRelies(y)'
      BY <1>3, <1>5, <2>2, <3>5, <3>6, <3>7, StillRelies
    <3>8. ASSUME NEW d \in Batches PROVE RowIsPaid(d)'
      <4>1. RowIsPaid(d)
        BY <1>2
      <4>2. CASE d = b
        <5>1. transfer[d] = 0
          BY <2>5, <4>1, <4>2 DEF RowIsPaid, b
        <5> QED
          BY <2>2, <3>3, <4>2, <5>1 DEF RowIsPaid, PaidOut
      <4>3. CASE d # b
        BY <2>2, <3>3, <3>5, <4>1, <4>3 DEF RowIsPaid
      <4> QED
        BY <4>2, <4>3
    <3> QED
      BY <3>4, <3>7, <3>8 DEF PayoutOK
  <2> QED
    BY <2>3, <2>4, <2>5
<1>8. CASE ExecPays(x)
  <2>1. b \in Batches /\ exec[x].phase = "pay" /\ UNCHANGED <<batch, misread>>
    BY <1>4, <1>8 DEF ExecPays, ledger, held
  <2>2. batch[b].attempted /\ (b \in misread \/ exec[x].net = batch[b].net)
    BY <1>3, <2>1 DEF ExecRelies
  <2>3. \/ UNCHANGED transfer
        \/ /\ transfer[b] \in {0, exec[x].net}
           /\ transfer' = [transfer EXCEPT ![b] = exec[x].net]
    BY <1>8 DEF ExecPays
  <2>4. /\ \A d \in Batches : d # b => transfer'[d] = transfer[d]
        /\ \/ transfer'[b] = transfer[b]
           \/ transfer[b] \in {0, exec[x].net} /\ transfer'[b] = exec[x].net
    BY <1>1, <2>1, <2>3 DEF PayTypes
  <2>5. ExecRelies(x)'
    <3>1. CASE exec'[x] = IdleExec
      BY <3>1 DEF ExecRelies, IdleExec
    <3>2. CASE exec'[x] = [exec[x] EXCEPT !.phase = "mark"] /\ transfer'[b] = exec[x].net
      <4>1. /\ exec'[x].phase = "mark" /\ exec'[x].batch = b
            /\ exec'[x].net = exec[x].net
        BY <1>1, <3>2 DEF PayTypes
      <4> HIDE DEF b
      <4> QED
        BY <2>1, <2>2, <3>2, <4>1 DEF ExecRelies
    <3>3. \/ exec'[x] = IdleExec
          \/ exec'[x] = [exec[x] EXCEPT !.phase = "mark"] /\ transfer'[b] = exec[x].net
      BY <1>1, <1>8, <2>1 DEF ExecPays, Runs, PayTypes
    <3> QED
      BY <3>1, <3>2, <3>3
  <2> HIDE DEF b
  <2>6. \A d \in Batches : transfer[d] # 0 => transfer'[d] = transfer[d]
    BY <2>1, <2>4
  <2>7. ASSUME NEW y \in Executors, y # x PROVE ExecRelies(y)'
    BY <1>3, <1>5, <2>1, <2>6, <2>7, StillRelies
  <2>8. ASSUME NEW d \in Batches PROVE RowIsPaid(d)'
    <3>1. RowIsPaid(d)
      BY <1>2
    <3>2. CASE d = b
      BY <2>1, <2>2, <2>4, <3>1, <3>2 DEF RowIsPaid
    <3>3. CASE d # b
      BY <2>1, <2>4, <3>1, <3>3 DEF RowIsPaid
    <3> QED
      BY <3>2, <3>3
  <2> QED
    BY <2>5, <2>7, <2>8 DEF PayoutOK
<1>9. CASE ExecMarks(x)
  <2>1. b \in Batches /\ exec[x].phase = "mark" /\ UNCHANGED transfer
        /\ exec'[x] = IdleExec
    BY <1>1, <1>4, <1>9 DEF ExecMarks, Runs, PayTypes
  <2>2. ExecRelies(x)'
    BY <2>1 DEF ExecRelies, IdleExec
  <2>3. exec[x].net = 0 \/
          /\ batch[b].attempted /\ (b \in misread \/ exec[x].net = batch[b].net)
          /\ transfer[b] = exec[x].net
    BY <1>3, <2>1 DEF ExecRelies
  <2>4. CASE UNCHANGED <<batch, misread>>
    <3>1. ASSUME NEW y \in Executors, y # x PROVE ExecRelies(y)'
      BY <1>3, <1>5, <2>1, <2>4, <3>1, StillRelies
    <3>2. \A d \in Batches : RowIsPaid(d)'
      BY <1>2, <2>1, <2>4 DEF RowIsPaid
    <3> QED
      BY <2>2, <3>1, <3>2 DEF PayoutOK
  <2>5. CASE batch[b].status = "APPROVED"
    <3>1. /\ batch' = [batch EXCEPT ![b].status = "SENT"]
          /\ misread' = IF exec[x].net = batch[b].net THEN misread ELSE misread \cup {b}
      BY <1>9, <2>5 DEF ExecMarks, Relies
    <3> HIDE DEF b
    <3>2. /\ SameAmounts(b) /\ batch'[b].status = "SENT"
          /\ batch'[b].attempted = batch[b].attempted
          /\ \A d \in Batches : d # b => batch'[d] = batch[d]
      BY <1>1, <2>1, <3>1, StatusSet
    <3>3. batch'[b].net = batch[b].net
      BY <3>2 DEF SameAmounts
    <3>4. /\ misread \subseteq misread'
          /\ \A d \in Batches : batch[d].attempted =>
               batch'[d].attempted /\ batch'[d].net = batch[d].net
      BY <2>1, <3>1, <3>2, <3>3
    <3>5. ASSUME NEW y \in Executors, y # x PROVE ExecRelies(y)'
      BY <1>3, <1>5, <2>1, <3>4, <3>5, StillRelies
    <3>6. ASSUME NEW d \in Batches PROVE RowIsPaid(d)'
      <4>1. RowIsPaid(d)
        BY <1>2
      <4>2. CASE d = b
        <5>1. b \notin misread' => b \notin misread /\ exec[x].net = batch[b].net
          BY <3>1
        <5>2. b \notin misread' => transfer[b] = batch[b].net
          BY <2>3, <4>1, <4>2, <5>1 DEF RowIsPaid
        <5>3. (batch[b].attempted => batch'[b].status \in {"APPROVED"} \cup PaidOut)
              /\ (transfer[b] # 0 => batch'[b].attempted)
          BY <3>2, <4>1, <4>2 DEF RowIsPaid, PaidOut
        <5> QED
          BY <2>1, <3>2, <3>3, <4>2, <5>2, <5>3 DEF RowIsPaid
      <4>3. CASE d # b
        BY <2>1, <3>2, <3>4, <4>1, <4>3 DEF RowIsPaid
      <4> QED
        BY <4>2, <4>3
    <3> QED
      BY <2>2, <3>5, <3>6 DEF PayoutOK
  <2> QED
    BY <1>9, <2>4, <2>5 DEF ExecMarks
<1>10. CASE ExecDies(x)
  <2>1. UNCHANGED <<batch, misread, transfer>> /\ exec'[x] = IdleExec
    BY <1>1, <1>10 DEF ExecDies, Runs, PayTypes, ledger, held
  <2>2. ExecRelies(x)'
    BY <2>1 DEF ExecRelies, IdleExec
  <2>3. ASSUME NEW y \in Executors, y # x PROVE ExecRelies(y)'
    BY <1>3, <1>5, <2>1, <2>3, StillRelies
  <2>4. \A d \in Batches : RowIsPaid(d)'
    BY <1>2, <2>1 DEF RowIsPaid
  <2> QED
    BY <2>2, <2>3, <2>4 DEF PayoutOK
<1> QED
  BY <1>6, <1>7, <1>8, <1>9, <1>10 DEF ExecStep

(* What was moved is what the batch says.                                  *)
LEMMA PayoutStep == TypeOK /\ Working /\ PayoutOK /\ [Next]_vars => PayoutOK'
<1> SUFFICES ASSUME TypeOK, Working, PayoutOK, [Next]_vars PROVE PayoutOK'
  OBVIOUS
<1>1. CASE \E x \in Executors : ExecStep(x)
  BY <1>1, ExecKeepsPayout
<1>2. ASSUME NEW b \in Batches, NEW P \in SUBSET Reservations, Recompute(b, P)
      PROVE  UNCHANGED misread
  BY <1>2, RecomputeWrites, WritesFacts DEF Written, ledger, held
<1>3. CASE ~ \E x \in Executors : ExecStep(x)
  <2>1. UNCHANGED <<exec, transfer>>
    BY <1>3 DEF Next, vars, NewDay, Renew, Earn, Refund, AdminStep, CycleStep,
                ApproveRecomputes, AdminHold, AdminRetry, AdminMarkSettled,
                ApproveCommits, ApprovalDies, Scan, CreateOrExtend, BatchGroup,
                BatchGroupFails, Sweep, CycleDies
  <2>2. UNCHANGED misread
    <3>1. CASE \E n \in Cycles : BatchGroup(n)
      BY <1>2, <3>1, TypeParts DEF BatchGroup, Working, CycleTypes
    <3>2. CASE \E b \in Batches : ApproveRecomputes(b) \/ AdminRetry(b)
      <4>1. {} \in SUBSET Reservations
        OBVIOUS
      <4> QED
        BY <1>2, <3>2, <4>1 DEF ApproveRecomputes, AdminRetry
    <3>3. CASE ~ (\E n \in Cycles : BatchGroup(n))
               /\ ~ \E b \in Batches : ApproveRecomputes(b) \/ AdminRetry(b)
      BY <1>3, <3>3 DEF Next, vars, NewDay, Renew, Earn, Refund, AdminStep, CycleStep,
                AdminHold, AdminMarkSettled, ApproveCommits, ApprovalDies, Scan,
                CreateOrExtend, BatchGroupFails, Sweep, CycleDies, ledger, held
    <3> QED
      BY <3>1, <3>2, <3>3
  <2> QED
    BY <2>1, <2>2, PayoutStays
<1> QED
  BY <1>1, <1>3

-----------------------------------------------------------------------------
(* The carried demand                                                      *)

(* Claims are amounts, and some of them are no more than all of them.      *)
LEMMA ClaimTotals ==
  ASSUME TypeOK, NEW S \in SUBSET Batches, NEW T \in SUBSET S
  PROVE  /\ Total(claim, S) \in Nat /\ Total(claim, T) \in Nat
         /\ Total(claim, T) <= Total(claim, S)
         /\ IsFiniteSet(UnitsIn(claim, T))
<1>1. IsFiniteSet(S)
  BY FiniteRows, FS_Subset
<1>2. \A c \in S : claim[c] \in Nat
  BY DEF TypeOK
<1>3. IsFiniteSet(UnitsIn(claim, S))
  BY <1>1, <1>2, TotalType
<1> QED
  BY <1>3, TotalSubset

(* What rows export is an amount.                                          *)
LEMMA ExportableType ==
  ASSUME TypeOK, NEW s \in Batches
  PROVE  Exportable(batch[s]) \in Nat
BY DEF TypeOK, Exportable, OwnDeficit, AtLeastZero

(* The claimers of a source after a step, if their claims did not move.    *)
LEMMA FewerClaimers ==
  ASSUME TypeOK, NEW S \in SUBSET Batches, NEW T \in SUBSET S,
         \A c \in T : claim'[c] = claim[c]
  PROVE  /\ Total(claim', T) <= Total(claim, S)
         /\ Total(claim', T) = Total(claim, T)
         /\ Total(claim', T) \in Nat /\ Total(claim, S) \in Nat
<1>1. Total(claim', T) = Total(claim, T)
  BY TotalSame
<1> QED
  BY <1>1, ClaimTotals

(* A recompute of b leaves every source with the claims it can serve.      *)
LEMMA WrittenOwed ==
  ASSUME TypeOK, Working, CollectedIsCovered, NEW b \in Batches,
         NEW P \in SUBSET Reservations, Written(b, P), NEW s \in Batches
  PROVE  /\ Total(claim', ClaimersOf(s)') <= Exportable(batch'[s])
         /\ s # b => ClaimersOf(s)' \in SUBSET (ClaimersOf(s) \ {b})
         /\ \A c \in Batches : c # b => claim'[c] = claim[c]
<1> DEFINE row == NewRow(b, Attached(b, P))
<1>1. /\ batch' = [batch EXCEPT ![b] = row]
      /\ claim' = [claim EXCEPT ![b] = row.inherited]
      /\ overtaken' = (overtaken \ {b}) \cup (IF approval = 0 THEN {} ELSE {approval})
  BY WritesFacts DEF Written
<1>2. /\ batch'[b].status \in Recomputable /\ batch'[b].source # b
      /\ \A c \in Batches : c # b => batch'[c] = batch[c]
  BY WrittenRows
<1>3. batch'[b] = row
  BY <1>1, TypeParts DEF RowTypes
<1>4. \A c \in Batches : c # b => claim'[c] = claim[c]
  BY <1>1, TypeParts DEF BookTypes
<1>5. Collected(b) <= Exportable(row) /\ Exportable(row) \in Nat
  <2> DEFINE more == Exportable(row)
  <2>1. ~ (Collected(b) > more)
    BY DEF Written, Refuses
  <2>2. Collected(b) \in Nat
    <3>1. {c \in Batches : /\ batch[c].source = b
                           /\ batch[c].status # "absent"
                           /\ batch[c].status \notin Recomputable} \in SUBSET Batches
      OBVIOUS
    <3> QED
      BY <3>1, ClaimTotals DEF Collected
  <2>3. more \in Nat
    <3>1. row \in Rows
      BY NewRowFacts, WritesFacts DEF Written
    <3> HIDE DEF row
    <3> QED
      BY <3>1 DEF Rows, Exportable, OwnDeficit, AtLeastZero
  <2> HIDE DEF more, row
  <2>4. Collected(b) <= more /\ more \in Nat
    BY <2>1, <2>2, <2>3
  <2> QED
    BY <2>4 DEF more
<1> HIDE DEF row
<1>6. b \notin ClaimersOf(s)'
  BY <1>2 DEF ClaimersOf, Committed, Recomputable, PaidOut
<1>7. CASE s = b
  <2> DEFINE S == {c \in Batches : /\ batch[c].source = b
                                   /\ batch[c].status # "absent"
                                   /\ batch[c].status \notin Recomputable}
  <2>1. S \in SUBSET Batches /\ Collected(b) = Total(claim, S)
    BY DEF Collected
  <2>2. ClaimersOf(s)' \in SUBSET S
    BY <1>2, <1>6, <1>7 DEF ClaimersOf, Committed, Recomputable, PaidOut
  <2>3. \A c \in ClaimersOf(s)' : claim'[c] = claim[c]
    BY <1>4, <1>6 DEF ClaimersOf
  <2> HIDE DEF S
  <2>4. /\ Total(claim', ClaimersOf(s)') <= Total(claim, S)
        /\ Total(claim', ClaimersOf(s)') \in Nat /\ Total(claim, S) \in Nat
    BY <2>1, <2>2, <2>3, FewerClaimers
  <2> QED
    BY <1>3, <1>4, <1>5, <1>7, <2>1, <2>4
<1>8. CASE s # b
  <2>1. ClaimersOf(s)' \in SUBSET (ClaimersOf(s) \ {b})
    <3>1. overtaken \ {b} \subseteq overtaken'
      BY <1>1
    <3> QED
      BY <1>2, <1>6, <3>1 DEF ClaimersOf
  <2>2. ClaimersOf(s) \in SUBSET Batches
    BY DEF ClaimersOf
  <2>3. \A c \in ClaimersOf(s)' : claim'[c] = claim[c]
    BY <1>4, <1>6 DEF ClaimersOf
  <2>4. ClaimersOf(s)' \in SUBSET ClaimersOf(s)
    BY <2>1
  <2>5. /\ Total(claim', ClaimersOf(s)') <= Total(claim, ClaimersOf(s))
        /\ Total(claim', ClaimersOf(s)') \in Nat /\ Total(claim, ClaimersOf(s)) \in Nat
    BY <2>2, <2>3, <2>4, FewerClaimers
  <2>6. Total(claim, ClaimersOf(s)) <= Exportable(batch[s])
    BY DEF CollectedIsCovered, ClaimersOf, Committed
  <2>7. batch'[s] = batch[s] /\ Exportable(batch[s]) \in Nat
    BY <1>2, <1>8, ExportableType
  <2> QED
    BY <1>4, <1>8, <2>1, <2>5, <2>6, <2>7
<1> QED
  BY <1>7, <1>8

(* A row that is not recomputed goes on exporting what it exported, and    *)
(* only the batch being approved joins the claimers.                       *)
LEMMA MovedOwed ==
  ASSUME TypeOK, OnlyRowsMove, NEW s \in Batches
  PROVE  /\ Exportable(batch'[s]) \in Nat
         /\ Exportable(batch[s]) <= Exportable(batch'[s])
         /\ ClaimersOf(s)' \subseteq
              ClaimersOf(s) \cup {c \in Batches :
                c = approval /\ c \notin overtaken /\ batch[c].source = s
                  /\ StatusMoves(c, "CALCULATED", "APPROVED")}
<1>1. \A c \in Batches : RowMoves(c)
  BY DEF OnlyRowsMove
<1>2. UNCHANGED overtaken
  BY DEF OnlyRowsMove, BooksStay
<1>3. /\ batch'[s].fees = batch[s].fees /\ batch'[s].offset = batch[s].offset
      /\ batch'[s].gross = batch[s].gross /\ batch'[s].carried = batch[s].carried
      /\ batch[s].status = "HELD" => batch'[s].status = "HELD"
  BY <1>1 DEF RowMoves, SameAmounts, StatusMoves
<1>4. /\ batch[s].fees \in Nat /\ batch[s].offset \in Nat
      /\ batch[s].gross \in Nat /\ batch[s].carried \in Nat
  BY DEF TypeOK
<1>5. /\ Exportable(batch'[s]) \in Nat
      /\ Exportable(batch[s]) <= Exportable(batch'[s])
  BY <1>3, <1>4 DEF Exportable, OwnDeficit, AtLeastZero
<1>6. ASSUME NEW c \in ClaimersOf(s)', c \notin ClaimersOf(s)
      PROVE  c \in Batches /\ c = approval /\ c \notin overtaken /\ batch[c].source = s
             /\ StatusMoves(c, "CALCULATED", "APPROVED")
  <2>1. /\ c \in Batches /\ batch'[c].source = s /\ c \notin overtaken
        /\ batch'[c].status \in Committed
    BY <1>2, <1>6 DEF ClaimersOf
  <2>2. RowMoves(c)
    BY <1>1, <2>1
  <2>3. batch[c].source = s
    BY <2>1, <2>2 DEF RowMoves, SameAmounts
  <2>4. batch[c].status \notin Committed
    BY <1>6, <2>1, <2>3 DEF ClaimersOf
  <2> QED
    BY <2>1, <2>2, <2>3, <2>4 DEF RowMoves, StatusMoves, Committed, PaidOut
<1> QED
  BY <1>5, <1>6

(* Every source still owes what was collected from it.                     *)
LEMMA CollectedStep ==
  TypeOK /\ Working /\ CollectedIsCovered /\ ApprovalOwed /\ [Next]_vars => CollectedIsCovered'
<1> SUFFICES ASSUME TypeOK, Working, CollectedIsCovered, ApprovalOwed, [Next]_vars,
                    NEW s \in Batches
             PROVE  Total(claim', ClaimersOf(s)') <= Exportable(batch'[s])
  BY DEF CollectedIsCovered, ClaimersOf, Committed
<1>1. CASE \E b \in Batches, P \in SUBSET Reservations : Written(b, P)
  BY <1>1, WrittenOwed
<1>2. CASE OnlyRowsMove
  <2>1. claim' = claim
    BY <1>2 DEF OnlyRowsMove, BooksStay
  <2>2. /\ Exportable(batch'[s]) \in Nat /\ Exportable(batch[s]) \in Nat
        /\ Exportable(batch[s]) <= Exportable(batch'[s])
    BY <1>2, MovedOwed, ExportableType
  <2>3. ClaimersOf(s) \in SUBSET Batches
    BY DEF ClaimersOf
  <2>4. Total(claim, ClaimersOf(s)) <= Exportable(batch[s])
    BY DEF CollectedIsCovered, ClaimersOf, Committed
  <2>5. CASE ClaimersOf(s)' \in SUBSET ClaimersOf(s)
    <3>1. /\ Total(claim', ClaimersOf(s)') <= Total(claim, ClaimersOf(s))
          /\ Total(claim', ClaimersOf(s)') \in Nat /\ Total(claim, ClaimersOf(s)) \in Nat
      BY <2>1, <2>3, <2>5, FewerClaimers
    <3> QED
      BY <2>2, <2>4, <3>1
  <2>6. CASE ~ (ClaimersOf(s)' \in SUBSET ClaimersOf(s))
    <3>1. /\ approval \in Batches /\ approval \notin overtaken
          /\ batch[approval].source = s /\ batch[approval].status = "CALCULATED"
          /\ ClaimersOf(s)' \subseteq ClaimersOf(s) \cup {approval}
      BY <1>2, <2>6, MovedOwed DEF StatusMoves
    <3>3. claim[approval] + Total(claim, ClaimersOf(s)) <= Exportable(batch[s])
      BY <3>1 DEF ApprovalOwed
    <3>4. approval \notin ClaimersOf(s)
      BY <3>1 DEF ClaimersOf, Committed, PaidOut
    <3>5. claim[approval] \in Nat
      BY <3>1 DEF TypeOK
    <3> DEFINE S == ClaimersOf(s) \cup {approval}
    <3>6. S \in SUBSET Batches /\ ClaimersOf(s)' \in SUBSET S
      BY <2>3, <3>1
    <3>7. ClaimersOf(s) \in SUBSET Batches /\ ClaimersOf(s) \in SUBSET ClaimersOf(s)
      BY <2>3
    <3>8. Total(claim, ClaimersOf(s)) \in Nat /\ IsFiniteSet(UnitsIn(claim, ClaimersOf(s)))
      BY <3>7, ClaimTotals
    <3>9. Total(claim, S) = Total(claim, ClaimersOf(s)) + claim[approval]
      BY <3>4, <3>5, <3>8, TotalJoin
    <3> HIDE DEF S
    <3>10. /\ Total(claim', ClaimersOf(s)') <= Total(claim, S)
           /\ Total(claim', ClaimersOf(s)') \in Nat
      BY <2>1, <3>6, FewerClaimers
    <3> QED
      BY <2>2, <3>3, <3>5, <3>8, <3>9, <3>10
  <2> QED
    BY <2>5, <2>6
<1> QED
  BY <1>1, <1>2, StepsMoveRows

(* An approval that just recomputed its batch has written it: the batch is *)
(* neither frozen nor refused.                                             *)
LEMMA ApprovalWrites ==
  ASSUME TypeOK, Working, PayoutOK, NEW b \in Batches, ApproveRecomputes(b),
         approval' # 0
  PROVE  approval = 0 /\ approval' = b /\ Written(b, {})
<1>1. /\ approval = 0 /\ approval' = b /\ Recompute(b, {})
      /\ batch[b].status = "CALCULATED" /\ ~Refuses(b, {})
  BY DEF ApproveRecomputes
<1>2. ~batch[b].attempted
  BY <1>1 DEF PayoutOK, RowIsPaid, PaidOut
<1>3. ~Frozen(b)
  BY <1>1, <1>2 DEF Frozen, Recomputable
<1> QED
  BY <1>1, <1>3 DEF Recompute, Written

(* What the recomputed batch claims is left over at its source.            *)
LEMMA ClaimIsLeft ==
  ASSUME TypeOK, Working, CollectedIsCovered, NEW b \in Batches,
         NEW P \in SUBSET Reservations, Written(b, P),
         NEW s, s = batch'[b].source, s # 0
  PROVE  claim'[b] + Total(claim', ClaimersOf(s)') <= Exportable(batch'[s])
<1>1. s = SourceOf(b) /\ s # b /\ batch'[b].inherited = CarriedDemand(b)
      /\ \A c \in Batches : c # b => batch'[c] = batch[c]
  BY WrittenRows
<1>2. s \in Batches
  BY <1>1, SourceType, SettlementAssumption DEF Batches
<1>3. claim'[b] = CarriedDemand(b)
  <2>1. claim' = [claim EXCEPT ![b] = NewRow(b, Attached(b, P)).inherited]
        /\ batch' = [batch EXCEPT ![b] = NewRow(b, Attached(b, P))]
    BY WritesFacts DEF Written
  <2>2. claim'[b] = batch'[b].inherited
    BY <2>1, TypeParts DEF BookTypes, RowTypes
  <2> QED
    BY <1>1, <2>2
<1>4. /\ Total(claim', ClaimersOf(s)') <= Exportable(batch'[s])
      /\ ClaimersOf(s)' \in SUBSET (ClaimersOf(s) \ {b})
      /\ \A c \in Batches : c # b => claim'[c] = claim[c]
  BY <1>1, <1>2, WrittenOwed
<1> DEFINE takers == {c \in Batches \ {b} : batch[c].source = s}
<1>5. TakenByOthers(b, s) = Total(claim, takers)
  BY DEF TakenByOthers
<1>6. takers \in SUBSET Batches /\ ClaimersOf(s)' \in SUBSET takers
  BY <1>4 DEF ClaimersOf
<1>7. \A c \in ClaimersOf(s)' : claim'[c] = claim[c]
  BY <1>4, <1>6
<1> HIDE DEF takers
<1>8. /\ Total(claim', ClaimersOf(s)') <= Total(claim, takers)
      /\ Total(claim', ClaimersOf(s)') \in Nat /\ Total(claim, takers) \in Nat
  BY <1>6, <1>7, FewerClaimers
<1>9. batch'[s] = batch[s] /\ Exportable(batch[s]) \in Nat
  BY <1>1, <1>2, ExportableType
<1>10. CarriedDemand(b) = AtLeastZero(Exportable(batch[s]) - Total(claim, takers))
  BY <1>1, <1>5 DEF CarriedDemand
<1> DEFINE taken == Total(claim, takers)
           now == Total(claim', ClaimersOf(s)')
           more == Exportable(batch[s])
<1>11. /\ now <= taken /\ now <= more /\ now \in Nat /\ taken \in Nat /\ more \in Nat
       /\ claim'[b] = AtLeastZero(more - taken)
  BY <1>3, <1>4, <1>8, <1>9, <1>10
<1> HIDE DEF taken, now, more
<1>12. claim'[b] + now <= more
  BY <1>11 DEF AtLeastZero
<1> QED
  BY <1>9, <1>12 DEF now, more

(* A batch that is being approved finds its claim at its source.           *)
LEMMA ApprovalStep ==
  TypeOK /\ Working /\ PayoutOK /\ CollectedIsCovered /\ ApprovalOwed /\ [Next]_vars
    => ApprovalOwed'
<1> SUFFICES ASSUME TypeOK, Working, PayoutOK, CollectedIsCovered, ApprovalOwed,
                    [Next]_vars, NEW a \in Batches, NEW s \in Batches,
                    approval' = a, a \notin overtaken',
                    batch'[a].status = "CALCULATED", batch'[a].source = s
             PROVE  claim'[a] + Total(claim', ClaimersOf(s)') <= Exportable(batch'[s])
  BY DEF ApprovalOwed
<1>1. approval' # 0 /\ s # 0
  BY DEF Batches
<1>2. CASE \E b \in Batches : ApproveRecomputes(b)
  <2>1. PICK b \in Batches : ApproveRecomputes(b)
    BY <1>2
  <2>2. {} \in SUBSET Reservations
    OBVIOUS
  <2>3. approval' = b /\ Written(b, {})
    BY <1>1, <2>1, ApprovalWrites
  <2> QED
    BY <1>1, <2>2, <2>3, ClaimIsLeft
<1>3. CASE ~ \E b \in Batches : ApproveRecomputes(b)
  <2>1. approval = a
    BY <1>1, <1>3 DEF Next, vars, NewDay, Renew, Earn, Refund, AdminStep, CycleStep,
          ExecStep, AdminHold, AdminRetry, AdminMarkSettled, ApproveCommits,
          ApprovalDies, Scan, CreateOrExtend, BatchGroup, BatchGroupFails, Sweep,
          CycleDies, ExecReads, ExecStamps, ExecPays, ExecMarks, ExecDies
  <2>2. CASE \E b \in Batches, P \in SUBSET Reservations : Written(b, P)
    <3>1. PICK b \in Batches, P \in SUBSET Reservations : Written(b, P)
      BY <2>2
    <3>2. overtaken' = (overtaken \ {b}) \cup (IF approval = 0 THEN {} ELSE {approval})
      BY <3>1, WritesFacts DEF Written
    <3> QED
      BY <1>1, <2>1, <3>2
  <2>3. CASE OnlyRowsMove
    <3>1. RowMoves(a) /\ claim' = claim /\ overtaken' = overtaken
      BY <2>3 DEF OnlyRowsMove, BooksStay
    <3>2. batch[a].source = s
      BY <3>1 DEF RowMoves, SameAmounts
    <3>3. batch[a].status # "absent"
      BY <1>1, <2>1 DEF Working
    <3>4. batch[a].status = "CALCULATED"
      BY <3>1, <3>3 DEF RowMoves, StatusMoves
    <3>5. claim[a] + Total(claim, ClaimersOf(s)) <= Exportable(batch[s])
      BY <2>1, <3>1, <3>2, <3>4 DEF ApprovalOwed
    <3>6. /\ Exportable(batch'[s]) \in Nat /\ Exportable(batch[s]) \in Nat
          /\ Exportable(batch[s]) <= Exportable(batch'[s])
      BY <2>3, MovedOwed, ExportableType
    <3>7. ClaimersOf(s)' \in SUBSET ClaimersOf(s)
      <4>1. ~StatusMoves(a, "CALCULATED", "APPROVED")
        BY DEF StatusMoves
      <4> QED
        BY <2>1, <2>3, <4>1, MovedOwed
    <3>8. ClaimersOf(s) \in SUBSET Batches /\ \A c \in ClaimersOf(s)' : claim'[c] = claim[c]
      BY <3>1 DEF ClaimersOf
    <3>9. /\ Total(claim', ClaimersOf(s)') <= Total(claim, ClaimersOf(s))
          /\ Total(claim', ClaimersOf(s)') \in Nat /\ Total(claim, ClaimersOf(s)) \in Nat
      BY <3>7, <3>8, FewerClaimers
    <3>10. claim[a] \in Nat
      BY DEF TypeOK
    <3> QED
      BY <3>1, <3>5, <3>6, <3>9, <3>10
  <2> QED
    BY <2>2, <2>3, StepsMoveRows
<1> QED
  BY <1>2, <1>3

-----------------------------------------------------------------------------
(* The theorems                                                            *)

(* What holds initially and is kept by every step.                         *)
IndInv ==
  /\ TypeOK /\ Working
  /\ LedgerIdentity /\ MembershipConserved /\ RowsAddUp
  /\ PayoutOK /\ CollectedIsCovered /\ ApprovalOwed

(* A merchant starts without batches, lines and claims.                    *)
LEMMA InitOK == Init => IndInv
<1> SUFFICES ASSUME Init PROVE IndInv
  OBVIOUS
<1>1. MaxBatches \in Nat /\ Today \in Nat \ {0} /\ 1 \in Days /\ 0 \in 0 .. MaxBatches
      /\ MembershipPrice \in Nat /\ PeriodOf[1] \in Nat /\ MaxUpsets \in Nat
  BY SettlementAssumption DEF Days
<1>2. NoBatch \in Rows
  BY <1>1 DEF NoBatch, Rows
<1>3. \A b \in Batches : batch[b] = NoBatch /\ claim[b] = 0 /\ transfer[b] = 0
  BY DEF Init
<1>4. TypeOK
  <2>1. WorldTypes /\ HeldTypes
    BY <1>1 DEF Init, WorldTypes, HeldTypes
  <2>2. RowTypes
    BY <1>2 DEF Init, RowTypes
  <2>3. BookTypes
    BY <1>1 DEF Init, BookTypes
  <2>4. CycleTypes
    BY <1>1 DEF Init, CycleTypes, IdleCycle
  <2>5. PayTypes
    BY <1>1 DEF Init, PayTypes, IdleExec
  <2> QED
    BY <2>1, <2>2, <2>3, <2>4, <2>5, TypeParts
<1>5. Working
  BY <1>3 DEF Init, Working, IdleCycle, IdleExec, NoBatch, Batches
<1>7. LedgerIdentity
  <2>1. ASSUME NEW b \in Batches PROVE Total(alloc[b], Reservations) = 0
    <3>1. \A r \in Reservations : alloc[b][r] = 0
      BY DEF Init
    <3> QED
      BY <3>1, TotalZero
  <2>2. ASSUME NEW r \in Reservations
        PROVE  Total([b \in Batches |-> alloc[b][r]], Batches) = 0
    <3>1. \A b \in Batches : [c \in Batches |-> alloc[c][r]][b] = 0
      BY DEF Init
    <3> QED
      BY <3>1, TotalZero
  <2>3. \A r \in Reservations : recovered[r] = 0 /\ r \notin resolved
    BY DEF Init
  <2>4. \A r \in Reservations : FullDemand(r) \in Nat
    BY FiniteRows
  <2> QED
    BY <1>3, <2>1, <2>2, <2>3, <2>4 DEF LedgerIdentity, NoBatch
<1>8. MembershipConserved
  <2>1. \A b \in Batches : Offsets[b] = 0
    BY <1>3 DEF Offsets, NoBatch
  <2>2. Total(Offsets, Batches) = 0
    BY <2>1, TotalZero
  <2>3. member.charged = member.owed + member.writtenOff + 0
    BY <1>1 DEF Init
  <2> QED
    BY <2>2, <2>3 DEF MembershipConserved, Offsets
<1>9. RowsAddUp
  <2>1. ASSUME NEW b \in Batches PROVE RowAddsUp(b)
    <3>1. LinesOf(b) = {}
      BY DEF Init, LinesOf, Batches
    <3>2. Total(Gross, LinesOf(b)) = 0 /\ Total(Fee, LinesOf(b)) = 0
      BY <3>1, TotalEmpty
    <3> QED
      BY <1>3, <3>2 DEF RowAddsUp, NoBatch
  <2> QED
    BY <2>1 DEF RowsAddUp
<1>10. PayoutOK
  BY <1>3 DEF Init, PayoutOK, RowIsPaid, ExecRelies, NoBatch, IdleExec, PaidOut
<1>11. CollectedIsCovered
  <2> SUFFICES ASSUME NEW s \in Batches
               PROVE  Total(claim, ClaimersOf(s)) <= Exportable(batch[s])
    BY DEF CollectedIsCovered, ClaimersOf, Committed
  <2>1. ClaimersOf(s) = {}
    BY <1>3 DEF ClaimersOf, NoBatch, Committed, PaidOut
  <2>2. Exportable(batch[s]) = 0
    BY <1>3 DEF Exportable, NoBatch
  <2>3. Total(claim, ClaimersOf(s)) = 0
    BY <2>1, TotalEmpty
  <2> QED
    BY <2>2, <2>3
<1>12. ApprovalOwed
  BY DEF Init, ApprovalOwed, Batches
<1> QED
  BY <1>4, <1>5, <1>7, <1>8, <1>9, <1>10, <1>11, <1>12 DEF IndInv

(* The invariant is inductive.                                             *)
LEMMA Inductive == IndInv /\ [Next]_vars => IndInv'
BY TypeStep, WorkingStep, LedgerStep, MembershipStep, RowsStep, PayoutStep,
   CollectedStep, ApprovalStep DEF IndInv

(* It always holds.                                                        *)
LEMMA Invariant == Spec => []IndInv
BY InitOK, Inductive, PTL DEF Spec

(* The state of a merchant's settlement keeps its type: no amount of a     *)
(* row, a claim, an allocation or the membership is ever below zero.       *)
THEOREM Types == Spec => []TypeOK
<1>1. IndInv => TypeOK
  BY DEF IndInv
<1> QED
  BY <1>1, Invariant, PTL

(* assertLedgerIdentity can never throw: what a row withheld is what its   *)
(* allocations and its claim record, and a line is resolved exactly when   *)
(* it is recovered in full.                                                *)
THEOREM LedgersAgree == Spec => []LedgerIdentity
<1>1. IndInv => LedgerIdentity
  BY DEF IndInv
<1> QED
  BY <1>1, Invariant, PTL

(* A membership year is charged once: owed, written off or withheld.       *)
THEOREM MembershipChargedOnce == Spec => []MembershipConserved
<1>1. IndInv => MembershipConserved
  BY DEF IndInv
<1> QED
  BY <1>1, Invariant, PTL

(* A batch that can no longer be recomputed accounts for all its lines.    *)
THEOREM LinesAreCounted == Spec => []PaidBatchCountsItsLines
<1>1. RowsAddUp => PaidBatchCountsItsLines
  <2>1. \A b \in Batches : batch[b].status \in {"APPROVED"} \cup PaidOut =>
          batch[b].status # "HELD"
    BY DEF PaidOut
  <2> QED
    BY <2>1 DEF RowsAddUp, RowAddsUp, PaidBatchCountsItsLines, Committed, PaidOut
<1>2. IndInv => PaidBatchCountsItsLines
  BY <1>1 DEF IndInv
<1> QED
  BY <1>2, Invariant, PTL

(* The provider moved what a SENT batch says, and nothing for a batch that *)
(* may still be held.                                                      *)
THEOREM PaidOnce == Spec => []PaidAsBooked
<1>1. PayoutOK => PaidAsBooked
  BY DEF PayoutOK, RowIsPaid, PaidAsBooked
<1>2. IndInv => PaidAsBooked
  BY <1>1 DEF IndInv
<1> QED
  BY <1>2, Invariant, PTL

(* What committed batches took over from a predecessor, its row still has  *)
(* to hand on, whoever is held, cured or recomputed: also a batch that was *)
(* held before its first recompute, and the batches it shares a loop with. *)
THEOREM ClaimsStayCovered == Spec => []CollectedIsCovered
<1>1. IndInv => CollectedIsCovered
  BY DEF IndInv
<1> QED
  BY <1>1, Invariant, PTL
=============================================================================
