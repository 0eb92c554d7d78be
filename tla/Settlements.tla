----------------------------- MODULE Settlements -----------------------------
(***************************************************************************)
(* The settlement of one merchant: the nightly cycle that batches what he  *)
(* earned, recomputeBatch with its clawback and carried-demand ledgers and *)
(* the membership offset, the admin's approve / hold / retry / settle, and *)
(* the payout.  A recompute takes the row locks of its batch, of the       *)
(* subscription and of the lines and the batch it reads, so it is one      *)
(* step; everything the code does between two transactions is a step of    *)
(* its own.                                                                *)
(***************************************************************************)
EXTENDS Integers, FiniteSets, FiniteSetsExt, Totals

CONSTANTS
  Reservations,      \* paid reservations, in the order they are earned
  Day,               \* Day[r]: settlementAnchorOf, as a calendar day
  Gross,             \* Gross[r]: totalCents
  Fee,               \* Fee[r]: bag fee, its VAT and the withholding of its line
  Today,             \* bound: the days that pass
  PeriodOf,          \* PeriodOf[d]: the membership year of a day
  MembershipPrice,   \* membershipAnnualCents and its VAT
  MaxBatches,        \* bound: batches ever created
  Cycles,            \* bound: nightly cycles that run at the same time
  Executors,         \* bound: payout executions that run at the same time
  MaxUpsets,         \* bound: refunds, admin holds and renewals, together
  MaxDemand          \* bound: the demand a recompute takes over from its source

Days == 1 .. Today
Batches == 1 .. MaxBatches

ASSUME SettlementAssumption ==
  /\ Reservations \subseteq Nat /\ IsFiniteSet(Reservations)
  /\ Today \in Nat \ {0} /\ MaxBatches \in Nat /\ MembershipPrice \in Nat
  /\ Day \in [Reservations -> Days]
  /\ Gross \in [Reservations -> Nat] /\ Fee \in [Reservations -> Nat]
  /\ PeriodOf \in [Days -> Nat]
  /\ MaxUpsets \in Nat /\ MaxDemand \in Nat

VARIABLES
  today,       \* the Istanbul calendar day
  earned,      \* reservations REDEEMED or NO_SHOW with a PAID payment
  refunded,    \* those with a DONE or SENT refund
  line,        \* line[r]: the batch of its settlement line, 0 for none
  recovered,   \* recovered[r]: clawbackCents of its line
  resolved,    \* the lines whose clawbackAppliedAt is set
  batch,       \* the settlement_batches rows, in order of creation
  alloc,       \* settlement_clawback_allocations: alloc[b][r]
  claim,       \* settlement_carried_demand_claims: what b took from its source
  member,      \* the membership subscription
  cycle,       \* what each nightly cycle is doing
  approval,    \* the batch between adminApprove's recompute and its update
  overtaken,   \* history: batches being approved while another was recomputed
  holds,       \* how often the admin held a batch
  misread,     \* history: batches stamped or marked on an amount read too early
  exec,        \* what each executeOne is doing
  transfer     \* transfer[b]: what the provider moved for payout ref b

world == <<today, earned, refunded>>
books == <<line, recovered, resolved, alloc, claim, member, overtaken>>
held == <<holds, misread>>
ledger == <<batch, books, held>>
vars == <<world, ledger, cycle, approval, exec, transfer>>

-----------------------------------------------------------------------------
(* Arithmetic and types                                                    *)

(* Mutant of AtLeastZero: an amount is not clamped.                        *)
AsIs(x) == x

AtLeastZero(x) == IF x < 0 THEN 0 ELSE x
Least(x, y) == IF x < y THEN x ELSE y

Recomputable == {"CALCULATED", "HELD"}
PaidOut == {"SENT", "SETTLED"}
Committed == {"APPROVED"} \cup PaidOut

NoBatch ==
  [day |-> 1, status |-> "absent", gross |-> 0, fees |-> 0, offset |-> 0,
   clawback |-> 0, net |-> 0, inherited |-> 0, carried |-> 0, source |-> 0,
   computed |-> FALSE, attempted |-> FALSE]

IdleCycle == [phase |-> "idle", todo |-> {}, batch |-> 0, lines |-> {}]
IdleExec == [phase |-> "idle", batch |-> 0, net |-> 0, attempted |-> FALSE]

TypeOK ==
  /\ today \in Days
  /\ refunded \subseteq earned /\ earned \subseteq Reservations
  /\ line \in [Reservations -> 0 .. MaxBatches]
  /\ recovered \in [Reservations -> Nat]
  /\ resolved \subseteq Reservations
  /\ batch \in [Batches ->
       [day : Days,
        status : {"absent", "CALCULATED", "HELD", "APPROVED", "SENT", "SETTLED"},
        gross : Nat, fees : Nat, offset : Nat, clawback : Nat, net : Nat,
        inherited : Nat, carried : Nat, source : 0 .. MaxBatches,
        computed : BOOLEAN, attempted : BOOLEAN]]
  /\ alloc \in [Batches -> [Reservations -> Nat]]
  /\ claim \in [Batches -> Nat]
  /\ member \in [owed : Nat, period : Nat, writtenOff : Nat, charged : Nat]
  /\ cycle \in [Cycles ->
       [phase : {"idle", "grouping", "recompute"},
        todo : SUBSET Reservations, batch : 0 .. MaxBatches,
        lines : SUBSET Reservations]]
  /\ approval \in 0 .. MaxBatches
  /\ exec \in [Executors ->
       [phase : {"idle", "read", "pay", "mark"}, batch : 0 .. MaxBatches,
        net : Nat, attempted : BOOLEAN]]
  /\ transfer \in [Batches -> Nat]
  /\ overtaken \subseteq Batches /\ holds \in 0 .. MaxUpsets
  /\ misread \subseteq Batches

Init ==
  /\ today = 1
  /\ earned = {} /\ refunded = {}
  /\ line = [r \in Reservations |-> 0]
  /\ recovered = [r \in Reservations |-> 0]
  /\ resolved = {}
  /\ batch = [b \in Batches |-> NoBatch]
  /\ alloc = [b \in Batches |-> [r \in Reservations |-> 0]]
  /\ claim = [b \in Batches |-> 0]
  /\ member = [owed |-> MembershipPrice, period |-> PeriodOf[1],
               writtenOff |-> 0, charged |-> MembershipPrice]
  /\ cycle = [n \in Cycles |-> IdleCycle]
  /\ approval = 0
  /\ overtaken = {} /\ holds = 0 /\ misread = {}
  /\ exec = [x \in Executors |-> IdleExec]
  /\ transfer = [b \in Batches |-> 0]

-----------------------------------------------------------------------------
(* What happens around a settlement                                        *)

Renewals == IF member.period = PeriodOf[1] THEN 0 ELSE 1

MoreUpsets == Cardinality(refunded) + holds + Renewals < MaxUpsets

NewDay ==
  /\ today < Today
  /\ today' = today + 1
  /\ UNCHANGED <<earned, refunded, ledger, cycle, approval, exec, transfer>>

(* A redemption, or a no-show the sweeper notices on a later day.          *)
Earn(r) ==
  /\ r \notin earned
  /\ Day[r] <= today
  /\ earned' = earned \cup {r}
  /\ UNCHANGED <<today, refunded, ledger, cycle, approval, exec, transfer>>

(* A complaint is refunded; from then on the payment is not PAID.          *)
Refund(r) ==
  /\ r \in earned \ refunded
  /\ MoreUpsets
  /\ refunded' = refunded \cup {r}
  /\ UNCHANGED <<today, earned, ledger, cycle, approval, exec, transfer>>

(* renewOneLocked: what is still owed is written off, a new year begins.   *)
Renew ==
  /\ PeriodOf[today] > member.period
  /\ MoreUpsets
  /\ member' = [owed |-> MembershipPrice, period |-> PeriodOf[today],
                writtenOff |-> member.writtenOff + member.owed,
                charged |-> member.charged + MembershipPrice]
  /\ UNCHANGED <<world, batch, line, recovered, resolved, alloc, claim, overtaken, held,
                 cycle, approval, exec, transfer>>

-----------------------------------------------------------------------------
(* recomputeBatch                                                          *)

FullDemand(r) == AtLeastZero(Gross[r] - Fee[r])

(* lockAndResolveDue: the balance as if this batch had taken nothing, or,  *)
(* when its year has rolled over, only what it already took.               *)
MembershipDue(b) ==
  IF PeriodOf[batch[b].day] # member.period THEN batch[b].offset
  ELSE member.owed + batch[b].offset

(* Mutant of MembershipLeft: a rolled-over year's balance is not written.  *)
MembershipLeftAlone(b, offset) ==
  IF PeriodOf[batch[b].day] # member.period THEN member.owed
  ELSE AtLeastZero(member.owed + batch[b].offset - offset)

(* persistOffset: undo what this batch took, then take what it takes now.  *)
MembershipLeft(b, offset) ==
  AtLeastZero(member.owed + batch[b].offset - offset)

(* lockAndResetOwnClawbackLedger: the lines this recompute answers for.    *)
LockedLines(b) ==
  {r \in Reservations :
     \/ alloc[b][r] > 0
     \/ /\ line[r] # 0
        /\ r \notin resolved
        /\ batch[line[r]].status \in PaidOut
        /\ r \in refunded}

(* Mutant of RecoveredByOthers: reads back this batch's own rows too.      *)
RecoveredByAnyone(b, r) == Total([c \in Batches |-> alloc[c][r]], Batches)

RecoveredByOthers(b, r) ==
  Total([c \in Batches |-> alloc[c][r]], Batches \ {b})

RemainingDemand(b, r) ==
  AtLeastZero(FullDemand(r) - RecoveredByOthers(b, r))

(* exportableCarriedDemandCents                                            *)
OwnDeficit(row) == AtLeastZero(row.fees + row.offset - row.gross)

Exportable(row) ==
  IF row.status # "HELD" THEN 0 ELSE OwnDeficit(row) + row.carried

(* discoverCarriedDemandSource: the latest other batch, if it is HELD.     *)
DiscoverSource(b) ==
  LET others == {c \in Batches \ {b} : batch[c].status # "absent"}
  IN IF others = {} \/ batch[Max(others)].status # "HELD" THEN 0
     ELSE Max(others)

SourceOf(b) == IF batch[b].computed THEN batch[b].source ELSE DiscoverSource(b)

TakenByOthers(b, s) ==
  Total(claim, {c \in Batches \ {b} : batch[c].source = s})

(* Mutant of CarriedDemand: the claim made in the first pass is frozen.    *)
CarriedDemandOnce(b) ==
  IF batch[b].computed THEN batch[b].inherited
  ELSE LET s == SourceOf(b)
       IN IF s = 0 THEN 0
          ELSE AtLeastZero(Exportable(batch[s]) - TakenByOthers(b, s))

(* resolveCarriedDemandFromSource                                          *)
CarriedDemand(b) ==
  LET s == SourceOf(b)
  IN IF s = 0 THEN 0
     ELSE AtLeastZero(Exportable(batch[s]) - TakenByOthers(b, s))

(* computeSettlement: the offset first, the clawback from what is left.    *)
Settlement(gross, fees, due, demand) ==
  LET offset == Least(due, AtLeastZero(gross - fees))
      left == gross - fees - offset
      applied == Least(demand, AtLeastZero(left))
  IN [gross |-> gross, fees |-> fees, offset |-> offset, clawback |-> applied,
      net |-> AtLeastZero(left - applied),
      short |-> AtLeastZero(-left) + AtLeastZero(demand - AtLeastZero(left))]

(* allocateClawback: oldest candidate first, one entry for every one.      *)
Allocation(b, amount) ==
  LET candidates == {r \in LockedLines(b) : RemainingDemand(b, r) > 0}
      before(r) == Total([q \in candidates |-> RemainingDemand(b, q)],
                         Before(candidates, r))
  IN [r \in Reservations |->
        IF r \in candidates
        THEN Least(RemainingDemand(b, r), AtLeastZero(amount - before(r)))
        ELSE 0]

(* The row recomputeBatch writes for b: the settlement s, and the demand   *)
(* it inherits, of which the clawback is served first.                     *)
SettledRow(b, s, inherited) ==
  [batch[b] EXCEPT
    !.gross = s.gross, !.fees = s.fees, !.offset = s.offset,
    !.clawback = s.clawback, !.net = s.net,
    !.inherited = inherited,
    !.carried = AtLeastZero(inherited - s.clawback),
    !.source = SourceOf(b), !.computed = TRUE,
    !.status = IF s.short > 0 THEN "HELD" ELSE "CALCULATED"]

DirectDemand(b) ==
  Total([r \in Reservations |-> RemainingDemand(b, r)], LockedLines(b))

(* That row when the lines L are attached.                                 *)
NewRow(b, L) ==
  SettledRow(b, Settlement(Total(Gross, L), Total(Fee, L), MembershipDue(b),
                           CarriedDemand(b) + DirectDemand(b)),
             CarriedDemand(b))

(* What batches that can no longer be recomputed took over from b.         *)
Collected(b) ==
  Total(claim, {c \in Batches : /\ batch[c].source = b
                                /\ batch[c].status # "absent"
                                /\ batch[c].status \notin Recomputable})

Frozen(b) == batch[b].status \notin Recomputable \/ batch[b].attempted

LinesOf(b) == {r \in Reservations : line[r] = b}

(* Of the lines computed for b, those nobody attached meanwhile.           *)
Attached(b, P) == LinesOf(b) \cup {r \in P : line[r] = 0}

(* assertIrrevocableClaimsHonoured                                         *)
Refuses(b, P) == Collected(b) > Exportable(NewRow(b, Attached(b, P)))

(* projectLinesFromLedger: what the ledger holds for each locked line once *)
(* b's entries are mine.                                                   *)
Projection(b, mine) ==
  [r \in LockedLines(b) |-> RecoveredByOthers(b, r) + mine[r]]

(* The ledger's side of the transaction: b's entries, and now, what every  *)
(* line it answers for has recovered with them.                            *)
WritesLedger(b, mine, now) ==
  /\ alloc' = [alloc EXCEPT ![b] = mine]
  /\ recovered' = [r \in Reservations |->
       IF r \in LockedLines(b) THEN now[r] ELSE recovered[r]]
  /\ resolved' = (resolved \ LockedLines(b)) \cup
       {r \in LockedLines(b) : FullDemand(r) > 0 /\ now[r] >= FullDemand(r)}

(* The rest of it: the lines L, the claim, the membership and the row.     *)
WritesRow(b, L, row) ==
  /\ batch' = [batch EXCEPT ![b] = row]
  /\ line' = [r \in Reservations |-> IF r \in L THEN b ELSE line[r]]
  /\ claim' = [claim EXCEPT ![b] = row.inherited]
  /\ member' = [member EXCEPT !.owed = MembershipLeft(b, row.offset)]
  /\ \E mine \in {Allocation(b, row.clawback - (row.inherited - row.carried))} :
       WritesLedger(b, mine, Projection(b, mine))
  /\ overtaken' = (overtaken \ {b}) \cup
       IF approval = 0 THEN {} ELSE {approval}
  /\ UNCHANGED held

Writes(b, P) == WritesRow(b, Attached(b, P), NewRow(b, Attached(b, P)))

Recompute(b, P) ==
  /\ CarriedDemand(b) <= MaxDemand
  /\ IF Frozen(b) \/ Refuses(b, P) THEN UNCHANGED ledger ELSE Writes(b, P)

-----------------------------------------------------------------------------
(* The nightly cycle                                                       *)

Goes(n, c) == cycle' = [cycle EXCEPT ![n] = c]

Eligible == {r \in earned \ refunded : line[r] = 0}

(* runNightlyCycle reads what is eligible, once, for all of its groups.    *)
Scan(n) ==
  /\ cycle[n].phase = "idle"
  /\ Eligible # {}
  /\ Goes(n, [IdleCycle EXCEPT !.phase = "grouping", !.todo = Eligible])
  /\ UNCHANGED <<world, ledger, approval, exec, transfer>>

OpenBatches == {b \in Batches : batch[b].status \in Recomputable}

Created(b, d) ==
  batch' = [batch EXCEPT ![b] = [NoBatch EXCEPT !.day = d, !.status = "CALCULATED"]]

NextBatch ==
  {b \in Batches : /\ batch[b].status = "absent"
                   /\ \A c \in Batches : c < b => batch[c].status # "absent"}

(* createOrExtendBatch for the oldest day of the scan that is left.        *)
CreateOrExtend(n) ==
  /\ cycle[n].phase = "grouping"
  /\ cycle[n].todo # {}
  /\ LET d == Min({Day[r] : r \in cycle[n].todo})
         group == {r \in cycle[n].todo : Day[r] = d}
         open == {b \in OpenBatches : batch[b].day = d}
     IN \E b \in IF open # {} THEN open ELSE NextBatch :
          /\ IF open # {} THEN UNCHANGED batch ELSE Created(b, d)
          /\ Goes(n, [phase |-> "recompute", todo |-> cycle[n].todo \ group,
                      batch |-> b, lines |-> group])
  /\ UNCHANGED <<world, books, held, approval, exec, transfer>>

NextGroup(n) ==
  Goes(n, IF cycle[n].todo = {} THEN IdleCycle
          ELSE [cycle[n] EXCEPT !.phase = "grouping", !.batch = 0, !.lines = {}])

(* Mutant of BatchGroup: the lines are attached before the recompute that  *)
(* may refuse them.                                                        *)
BatchGroupLinesFirst(n) ==
  /\ cycle[n].phase = "recompute"
  /\ LET b == cycle[n].batch
         P == cycle[n].lines
     IN IF Frozen(b) \/ Refuses(b, P)
        THEN /\ line' = [r \in Reservations |-> IF r \in Attached(b, P) THEN b ELSE line[r]]
             /\ UNCHANGED <<batch, recovered, resolved, alloc, claim, member, overtaken, held>>
        ELSE Writes(b, P)
  /\ NextGroup(n)
  /\ UNCHANGED <<world, approval, exec, transfer>>

BatchGroup(n) ==
  /\ cycle[n].phase = "recompute"
  /\ Recompute(cycle[n].batch, cycle[n].lines)
  /\ NextGroup(n)
  /\ UNCHANGED <<world, approval, exec, transfer>>

(* The recompute is rolled back (a deadlock victim, a lost connection);    *)
(* isolate() goes on with the next group.                                  *)
BatchGroupFails(n) ==
  /\ cycle[n].phase = "recompute"
  /\ NextGroup(n)
  /\ UNCHANGED <<world, ledger, approval, exec, transfer>>

(* findMerchantsWithPendingClawback                                        *)
PendingClawback ==
  \E r \in refunded \ resolved :
    /\ line[r] # 0
    /\ batch[line[r]].status \in PaidOut
    /\ Gross[r] - Fee[r] - recovered[r] > 0

(* No fresh lines: recompute the latest open batch, or a new one for today.*)
Sweep(n) ==
  /\ cycle[n].phase = "idle"
  /\ Eligible = {}
  /\ PendingClawback
  /\ LET latest == {b \in OpenBatches :
                      \A c \in OpenBatches : batch[c].day <= batch[b].day}
     IN \E b \in IF latest # {} THEN latest ELSE NextBatch :
          /\ IF latest # {} THEN UNCHANGED batch ELSE Created(b, today)
          /\ Goes(n, [IdleCycle EXCEPT !.phase = "recompute", !.batch = b])
  /\ UNCHANGED <<world, books, held, approval, exec, transfer>>

-----------------------------------------------------------------------------
(* The admin                                                               *)

(* adminApprove: the recompute and the guarded update are transactions of  *)
(* their own.  What happens to the batch between the status it reads first *)
(* and the recompute is undone by the recompute, as adminRetry would.      *)
ApproveRecomputes(b) ==
  /\ approval = 0
  /\ batch[b].status = "CALCULATED"
  /\ Recompute(b, {})
  /\ approval' = IF batch'[b].status = "CALCULATED" /\ ~Refuses(b, {}) THEN b ELSE 0
  /\ UNCHANGED <<world, cycle, exec, transfer>>

ApproveCommits ==
  /\ approval # 0
  /\ batch' = IF batch[approval].status = "CALCULATED"
              THEN [batch EXCEPT ![approval].status = "APPROVED"] ELSE batch
  /\ approval' = 0
  /\ UNCHANGED <<world, books, held, cycle, exec, transfer>>

(* Guarded by these alone: a batch may be held before its first recompute, *)
(* and then a successor that is held too and this batch may pin each other *)
(* as sources.  From there on every recompute hands the other a larger     *)
(* demand, which is what MaxDemand bounds.                                 *)
Holdable(b) ==
  batch[b].status \in {"CALCULATED", "APPROVED"} /\ ~batch[b].attempted

AdminHold(b) ==
  /\ MoreUpsets
  /\ Holdable(b)
  /\ batch' = [batch EXCEPT ![b].status = "HELD"]
  /\ holds' = holds + 1
  /\ UNCHANGED <<world, books, misread, cycle, approval, exec, transfer>>

(* adminRetry of a HELD batch; of an APPROVED one it is an execution.      *)
AdminRetry(b) ==
  /\ batch[b].status = "HELD"
  /\ Recompute(b, {})
  /\ UNCHANGED <<world, cycle, approval, exec, transfer>>

AdminMarkSettled(b) ==
  /\ batch[b].status = "SENT"
  /\ batch' = [batch EXCEPT ![b].status = "SETTLED"]
  /\ UNCHANGED <<world, books, held, cycle, approval, exec, transfer>>

-----------------------------------------------------------------------------
(* executeOne                                                              *)

Runs(x, e) == exec' = [exec EXCEPT ![x] = e]

(* History: x relies on an amount that a hold and a recompute have changed.*)
Relies(x) ==
  misread' = IF exec[x].net = batch[exec[x].batch].net THEN misread
             ELSE misread \cup {exec[x].batch}

(* A batch of nothing goes straight to markSent.                           *)
ExecReads(x, b) ==
  /\ exec[x].phase = "idle"
  /\ batch[b].status = "APPROVED"
  /\ Runs(x, [phase |-> IF batch[b].net = 0 THEN "mark" ELSE "read", batch |-> b,
              net |-> batch[b].net, attempted |-> batch[b].attempted])
  /\ UNCHANGED <<world, ledger, cycle, approval, transfer>>

(* Mutant of ExecStamps: the count of the guarded update is discarded.     *)
ExecStampsOrNot(x) ==
  /\ exec[x].phase = "read"
  /\ LET b == exec[x].batch
         matches == batch[b].status = "APPROVED" /\ ~batch[b].attempted
     IN IF matches
        THEN batch' = [batch EXCEPT ![b].attempted = TRUE] /\ Relies(x)
        ELSE UNCHANGED <<batch, misread>>
  /\ Runs(x, [exec[x] EXCEPT !.phase = "pay"])
  /\ UNCHANGED <<world, books, holds, cycle, approval, transfer>>

(* The stamp freezes the amount before the provider is called; when its    *)
(* update matches nothing the execution ends.                              *)
ExecStamps(x) ==
  /\ exec[x].phase = "read"
  /\ LET b == exec[x].batch
         matches == batch[b].status = "APPROVED" /\ ~batch[b].attempted
     IN \/ /\ exec[x].attempted
           /\ Runs(x, [exec[x] EXCEPT !.phase = "pay"])
           /\ UNCHANGED <<batch, misread>>
        \/ /\ ~exec[x].attempted /\ matches
           /\ Runs(x, [exec[x] EXCEPT !.phase = "pay"])
           /\ batch' = [batch EXCEPT ![b].attempted = TRUE]
           /\ Relies(x)
        \/ /\ ~exec[x].attempted /\ ~matches
           /\ Runs(x, IdleExec)
           /\ UNCHANGED <<batch, misread>>
  /\ UNCHANGED <<world, books, holds, cycle, approval, transfer>>

(* The provider moves the money of a ref once.  It throws on another       *)
(* amount; it may also fail with or without having moved the money.        *)
ExecPays(x) ==
  /\ exec[x].phase = "pay"
  /\ LET b == exec[x].batch
     IN \/ /\ transfer[b] \in {0, exec[x].net}
           /\ transfer' = [transfer EXCEPT ![b] = exec[x].net]
           /\ \/ Runs(x, [exec[x] EXCEPT !.phase = "mark"])
              \/ Runs(x, IdleExec)
        \/ /\ Runs(x, IdleExec)
           /\ UNCHANGED transfer
  /\ UNCHANGED <<world, ledger, cycle, approval>>

(* markSent                                                                *)
ExecMarks(x) ==
  /\ exec[x].phase = "mark"
  /\ LET b == exec[x].batch
     IN IF batch[b].status = "APPROVED"
        THEN batch' = [batch EXCEPT ![b].status = "SENT"] /\ Relies(x)
        ELSE UNCHANGED <<batch, misread>>
  /\ Runs(x, IdleExec)
  /\ UNCHANGED <<world, books, holds, cycle, approval, transfer>>

-----------------------------------------------------------------------------
(* The process dies in the middle of a cycle, an approval or a payout.     *)
CycleDies(n) ==
  /\ cycle[n].phase # "idle"
  /\ Goes(n, IdleCycle)
  /\ UNCHANGED <<world, ledger, approval, exec, transfer>>

ApprovalDies ==
  /\ approval # 0
  /\ approval' = 0
  /\ UNCHANGED <<world, ledger, cycle, exec, transfer>>

ExecDies(x) ==
  /\ exec[x].phase # "idle"
  /\ Runs(x, IdleExec)
  /\ UNCHANGED <<world, ledger, cycle, approval, transfer>>

CycleStep(n) ==
  \/ Scan(n) \/ CreateOrExtend(n) \/ BatchGroup(n) \/ BatchGroupFails(n)
  \/ Sweep(n) \/ CycleDies(n)

AdminStep ==
  \/ \E b \in Batches : ApproveRecomputes(b) \/ AdminHold(b) \/ AdminRetry(b)
                        \/ AdminMarkSettled(b)
  \/ ApproveCommits \/ ApprovalDies

ExecStep(x) ==
  \/ \E b \in Batches : ExecReads(x, b)
  \/ ExecStamps(x) \/ ExecPays(x) \/ ExecMarks(x) \/ ExecDies(x)

Next ==
  \/ NewDay \/ Renew
  \/ \E r \in Reservations : Earn(r) \/ Refund(r)
  \/ \E n \in Cycles : CycleStep(n)
  \/ AdminStep
  \/ \E x \in Executors : ExecStep(x)

Spec == Init /\ [][Next]_vars

-----------------------------------------------------------------------------
(* Properties                                                              *)

(* assertLedgerIdentity can never throw, and its identities survive        *)
(* everything else that happens: what a batch withheld is what its         *)
(* allocation rows and its carried claim record, a line's clawbackCents is *)
(* the sum of its allocations and never more than its full demand, and a   *)
(* line drops out of the recovery queries exactly when it is recovered.    *)
LedgerIdentity ==
  /\ \A b \in Batches :
       /\ claim[b] = batch[b].inherited
       /\ batch[b].carried <= batch[b].inherited
       /\ batch[b].clawback = batch[b].inherited - batch[b].carried
                              + Total(alloc[b], Reservations)
  /\ \A r \in Reservations :
       /\ recovered[r] = Total([b \in Batches |-> alloc[b][r]], Batches)
       /\ recovered[r] <= FullDemand(r)
       /\ r \in resolved <=> FullDemand(r) > 0 /\ recovered[r] = FullDemand(r)

(* Once a batch can no longer be recomputed it accounts for every line it  *)
(* holds, and what it pays is what is left of them.                        *)
PaidBatchCountsItsLines ==
  \A b \in Batches :
    batch[b].status \in Committed =>
      /\ batch[b].gross = Total(Gross, LinesOf(b))
      /\ batch[b].net = batch[b].gross - Total(Fee, LinesOf(b))
                        - batch[b].offset - batch[b].clawback

(* What committed batches took over from a predecessor, its own row still  *)
(* has to hand on: late lines, a hold or a claimant that is recomputed do  *)
(* not take away what a payout was already shortened for.  (Batches        *)
(* approved while another recompute ran are the exception.)  This is one   *)
(* link of the chain: it does not say that the predecessor is right about  *)
(* what it has inherited itself.                                           *)
CollectedIsCovered ==
  \A b \in Batches :
    Total(claim, {c \in Batches : /\ batch[c].source = b
                                  /\ batch[c].status \in Committed
                                  /\ c \notin overtaken})
      <= Exportable(batch[b])

(* recomputeBatch says of carried demand that a cured predecessor no       *)
(* longer has the merchant charged a second time.  Over all links: what    *)
(* committed batches withheld for deficits they inherited is no more than  *)
(* the deficits there are.                                                 *)
CollectedOnce ==
  Total([b \in Batches |-> batch[b].inherited - batch[b].carried],
        {b \in Batches \ overtaken : batch[b].status \in Committed})
    <= Total([b \in Batches |-> OwnDeficit(batch[b])],
             {b \in Batches : batch[b].status = "HELD"})

(* A membership year is charged once: what was charged is owed, written    *)
(* off or withheld from some batch, whatever is recomputed and renewed.    *)
MembershipConserved ==
  member.charged = member.owed + member.writtenOff
                   + Total([b \in Batches |-> batch[b].offset], Batches)

(* The provider has moved exactly what a SENT batch says, and nothing for  *)
(* a batch that may still be held: two executions, a hold between them, a  *)
(* crash after the transfer and its retry do not pay another amount or pay *)
(* twice.  (An execution that stamps or marks on an amount it read before  *)
(* a hold and a recompute changed it is the exception: AmountIsFrozen.)    *)
PaidAsBooked ==
  \A b \in Batches \ misread :
    /\ batch[b].status \in PaidOut => transfer[b] = batch[b].net
    /\ transfer[b] # 0 => transfer[b] = batch[b].net /\ batch[b].attempted

(* settlement-payout.service.ts says of the stamp that a retried payout()  *)
(* is provably called with the same amount every time: no execution that   *)
(* is about to pay holds another amount than the batch.                    *)
AmountIsFrozen ==
  \A x \in Executors :
    exec[x].phase = "pay" => exec[x].net = batch[exec[x].batch].net
=============================================================================
