------------------------------ MODULE LockProofs -----------------------------
(***************************************************************************)
(* Two places where row locks have to keep transactions apart. LockOrder:  *)
(* without the fan-out, no number of transactions on any number of rows    *)
(* can wait for each other in a cycle. Ratings: the store's row lock       *)
(* orders the aggregates of any number of ratings and transactions, so     *)
(* what one of them read is still all there is when it commits, and two    *)
(* transactions wait for each other only over the rating of one sale.      *)
(***************************************************************************)
EXTENDS LockOrder, Ratings, TLAPS

-----------------------------------------------------------------------------
(* LockOrder                                                               *)

Rows == [table : {"Payment", "Reservation", "DailyOffer"},
         id : Reservations \cup Offers]
Updates == [row : Rows, optional : BOOLEAN]

(* The lock order the class comments name.                                 *)
Rank(row) ==
  IF row.table = "Payment" THEN 1
  ELSE IF row.table = "Reservation" THEN 2 ELSE 3

Sorted(program) ==
  \A i, j \in 1..Len(program) :
    i < j => Rank(program[i].row) < Rank(program[j].row)

(* What a transaction still has to lock comes, in the order, after all it  *)
(* holds.                                                                  *)
InOrder(t) ==
  /\ Sorted(todo[t])
  /\ \A row \in locks[t], i \in 1..Len(todo[t]) :
       Rank(row) < Rank(todo[t][i].row)

LockTypes ==
  /\ todo \in [Transactions -> Seq(Updates)]
  /\ locks \in [Transactions -> SUBSET Rows]

LockInv == LockTypes /\ \A t \in Transactions : InOrder(t)

-----------------------------------------------------------------------------

(* The three kinds of rows have ranks 1, 2 and 3.                          *)
LEMMA RankRange == \A row : Rank(row) \in 1..3
BY DEF Rank

(* An UPDATE of one of a reservation's rows, with the rank of the row.     *)
LEMMA UpdateOf ==
  ASSUME NEW r \in Reservations
  PROVE  /\ Must(Payment(r)) \in Updates /\ May(Payment(r)) \in Updates
         /\ Must(Reservation(r)) \in Updates
         /\ Must(DailyOffer(r)) \in Updates
         /\ Rank(Must(Payment(r)).row) = 1 /\ Rank(May(Payment(r)).row) = 1
         /\ Rank(Must(Reservation(r)).row) = 2
         /\ Rank(Must(DailyOffer(r)).row) = 3
BY LockAssumption
DEF Must, May, Payment, Reservation, DailyOffer, Updates, Rows, Rank

(* One UPDATE is a sorted program; so are two ...                          *)
LEMMA OneUpdate ==
  ASSUME NEW a \in Updates
  PROVE  <<a>> \in Seq(Updates) /\ Sorted(<<a>>)
BY DEF Sorted

(* ... whose rows have growing ranks ...                                   *)
LEMMA TwoUpdates ==
  ASSUME NEW a \in Updates, NEW b \in Updates, Rank(a.row) < Rank(b.row)
  PROVE  <<a, b>> \in Seq(Updates) /\ Sorted(<<a, b>>)
BY DEF Sorted

(* ... and three.                                                          *)
LEMMA ThreeUpdates ==
  ASSUME NEW a \in Updates, NEW b \in Updates, NEW c \in Updates,
         Rank(a.row) < Rank(b.row), Rank(b.row) < Rank(c.row)
  PROVE  <<a, b, c>> \in Seq(Updates) /\ Sorted(<<a, b, c>>)
<1>1. Rank(a.row) < Rank(c.row)
  BY RankRange
<1> QED
  BY <1>1 DEF Sorted

(* Every operation on one reservation follows the order.                   *)
LEMMA ProgramsSorted ==
  ASSUME "cancelOne" \notin Operations, NEW program \in Programs
  PROVE  program \in Seq(Updates) /\ Sorted(program)
<1>1. PICK op \in Operations, r \in Reservations :
        program = ReservationLocks(op, r)
  BY DEF Programs, FanOuts
<1>2. CASE op \in {"cancel", "expireAndRelease"}
  <2>1. \/ program = <<May(Payment(r)), Must(Reservation(r)),
                       Must(DailyOffer(r))>>
        \/ program = <<Must(Payment(r)), Must(Reservation(r)),
                       Must(DailyOffer(r))>>
    BY <1>1, <1>2 DEF ReservationLocks, CancelLocks, ExpireAndReleaseLocks
  <2> QED
    BY <2>1, UpdateOf, ThreeUpdates
<1>3. CASE op \in {"settleSuccess", "redeem"}
  <2>1. \/ program = <<Must(Payment(r)), Must(Reservation(r))>>
        \/ program = <<Must(Reservation(r)), Must(DailyOffer(r))>>
    BY <1>1, <1>3 DEF ReservationLocks, SettleSuccessLocks, RedeemLocks
  <2>2. /\ Rank(Must(Payment(r)).row) < Rank(Must(Reservation(r)).row)
        /\ Rank(Must(Reservation(r)).row) < Rank(Must(DailyOffer(r)).row)
    BY UpdateOf
  <2> QED
    BY <2>1, <2>2, UpdateOf, TwoUpdates
<1>4. CASE op \in {"create", "noShow", "refund"}
  <2>1. \/ program = <<Must(Payment(r))>>
        \/ program = <<Must(Reservation(r))>>
        \/ program = <<Must(DailyOffer(r))>>
    BY <1>1, <1>4 DEF ReservationLocks, CreateLocks, NoShowLocks, RefundLocks
  <2> QED
    BY <2>1, UpdateOf, OneUpdate
<1> QED
  BY <1>2, <1>3, <1>4, LockAssumption DEF AllOperations

(* Dropping the first UPDATE of a sorted program leaves a sorted one whose *)
(* rows all come after the row dropped.                                    *)
LEMMA TailSorted ==
  ASSUME NEW program \in Seq(Updates), program # <<>>, Sorted(program)
  PROVE  /\ Tail(program) \in Seq(Updates)
         /\ Sorted(Tail(program))
         /\ \A i \in 1..Len(Tail(program)) :
              Rank(Head(program).row) < Rank(Tail(program)[i].row)
         /\ \A i \in 1..Len(Tail(program)) :
              /\ i + 1 \in 1..Len(program)
              /\ Tail(program)[i] = program[i + 1]
         /\ Head(program) = program[1] /\ 1 \in 1..Len(program)
         /\ Head(program) \in Updates
<1>1. /\ Tail(program) \in Seq(Updates)
      /\ Len(Tail(program)) = Len(program) - 1 /\ Len(program) \in Nat \ {0}
      /\ \A i \in 1..Len(Tail(program)) :
           Tail(program)[i] = program[i + 1] /\ i + 1 \in 1..Len(program)
      /\ Head(program) = program[1] /\ Head(program) \in Updates
  OBVIOUS
<1>2. Sorted(Tail(program))
  BY <1>1 DEF Sorted
<1>3. \A i \in 1..Len(Tail(program)) :
        Rank(program[1].row) < Rank(program[i + 1].row)
  BY <1>1 DEF Sorted
<1> QED
  BY <1>1, <1>2, <1>3

(* Nothing left to do is in order whatever is locked.                      *)
LEMMA EmptySorted ==
  <<>> \in Seq(Updates) /\ Sorted(<<>>) /\ 1..Len(<<>>) = {}
BY DEF Sorted

(* A transaction keeps the order it started with.                          *)
LEMMA LockStep ==
  ASSUME "cancelOne" \notin Operations, LockInv, [Next]_vars
  PROVE  LockInv'
<1>1. ASSUME NEW t \in Transactions, NEW p \in Seq(Updates),
             NEW held \in SUBSET Rows,
             todo' = [todo EXCEPT ![t] = p],
             locks' = [locks EXCEPT ![t] = held],
             Sorted(p),
             \A row \in held, i \in 1..Len(p) : Rank(row) < Rank(p[i].row)
      PROVE  LockInv'
  <2>1. LockTypes'
    BY <1>1 DEF LockInv, LockTypes
  <2>2. ASSUME NEW u \in Transactions PROVE InOrder(u)'
    <3>1. CASE u = t
      <4>1. todo'[u] = p /\ locks'[u] = held
        BY <1>1, <3>1 DEF LockInv, LockTypes
      <4> QED
        BY <1>1, <4>1 DEF InOrder
    <3>2. CASE u # t
      <4>1. todo'[u] = todo[u] /\ locks'[u] = locks[u]
        BY <1>1, <3>2 DEF LockInv, LockTypes
      <4> QED
        BY <4>1 DEF LockInv, InOrder
    <3> QED
      BY <3>1, <3>2
  <2> QED
    BY <2>1, <2>2 DEF LockInv
<1>2. ASSUME NEW t \in Transactions
      PROVE  /\ todo[t] \in Seq(Updates) /\ locks[t] \in SUBSET Rows
             /\ InOrder(t)
             /\ UNCHANGED locks => locks' = [locks EXCEPT ![t] = locks[t]]
             /\ UNCHANGED todo => todo' = [todo EXCEPT ![t] = todo[t]]
  BY DEF LockInv, LockTypes
<1>3. ASSUME NEW t \in Transactions, Begin(t) PROVE LockInv'
  <2>1. PICK program \in Programs : todo' = [todo EXCEPT ![t] = program]
    BY <1>3 DEF Begin
  <2>2. locks[t] = {} /\ UNCHANGED locks
    BY <1>3 DEF Begin, Idle
  <2> QED
    BY <1>1, <1>2, <2>1, <2>2, ProgramsSorted
<1>4. ASSUME NEW t \in Transactions, Update(t) PROVE LockInv'
  <2> DEFINE p == Tail(todo[t])
             held == locks[t] \cup {NextRow(t)}
  <2>1. /\ todo[t] # <<>>
        /\ todo' = [todo EXCEPT ![t] = p]
        /\ locks' = [locks EXCEPT ![t] = held]
    BY <1>4 DEF Update
  <2>2. Sorted(todo[t])
    BY <1>2 DEF InOrder
  <2>3. /\ p \in Seq(Updates) /\ Sorted(p)
        /\ \A i \in 1..Len(p) : Rank(NextRow(t)) < Rank(p[i].row)
        /\ \A i \in 1..Len(p) :
             i + 1 \in 1..Len(todo[t]) /\ p[i] = todo[t][i + 1]
        /\ Head(todo[t]) \in Updates
    BY <1>2, <2>1, <2>2, TailSorted DEF NextRow
  <2>4. held \in SUBSET Rows
    BY <1>2, <2>3 DEF NextRow, Updates
  <2>5. \A row \in held, i \in 1..Len(p) : Rank(row) < Rank(p[i].row)
    BY <1>2, <2>3 DEF InOrder
  <2> HIDE DEF p, held
  <2> QED
    BY <1>1, <2>1, <2>3, <2>4, <2>5
<1>5. ASSUME NEW t \in Transactions, Miss(t) PROVE LockInv'
  <2>1. /\ todo[t] # <<>> /\ UNCHANGED locks
        /\ \/ todo' = [todo EXCEPT ![t] = Tail(todo[t])]
           \/ todo' = [todo EXCEPT ![t] = <<>>]
    BY <1>5 DEF Miss
  <2>2. CASE todo' = [todo EXCEPT ![t] = Tail(todo[t])]
    <3>1. Sorted(todo[t])
      BY <1>2 DEF InOrder
    <3>2. /\ Tail(todo[t]) \in Seq(Updates) /\ Sorted(Tail(todo[t]))
          /\ \A i \in 1..Len(Tail(todo[t])) :
               /\ i + 1 \in 1..Len(todo[t])
               /\ Tail(todo[t])[i] = todo[t][i + 1]
      BY <1>2, <2>1, <3>1, TailSorted
    <3>3. \A row \in locks[t], i \in 1..Len(Tail(todo[t])) :
            Rank(row) < Rank(Tail(todo[t])[i].row)
      BY <1>2, <3>2 DEF InOrder
    <3> QED
      BY <1>1, <1>2, <2>1, <2>2, <3>2, <3>3
  <2>3. CASE todo' = [todo EXCEPT ![t] = <<>>]
    BY <1>1, <1>2, <2>1, <2>3, EmptySorted
  <2> QED
    BY <2>1, <2>2, <2>3
<1>6. ASSUME NEW t \in Transactions, Commit(t) \/ Rollback(t) PROVE LockInv'
  <2>1. /\ todo' = [todo EXCEPT ![t] = <<>>]
        /\ locks' = [locks EXCEPT ![t] = {}]
    BY <1>2, <1>6 DEF Commit, Rollback
  <2> QED
    BY <1>1, <2>1, EmptySorted
<1>7. CASE UNCHANGED vars
  BY <1>7 DEF vars, LockInv, LockTypes, InOrder
<1> QED
  BY <1>3, <1>4, <1>5, <1>6, <1>7 DEF Next

(* Transactions that lock in order never wait for each other in a cycle:   *)
(* along a chain of waits the rank of the awaited row grows, and there are *)
(* only three ranks.                                                       *)
LEMMA OrderPreventsCycles == LockInv => NoWaitCycle
<1> SUFFICES ASSUME LockInv, NEW S \in SUBSET Transactions, S # {},
                    \A t \in S : \E u \in S : WaitsFor(t, u)
             PROVE  FALSE
  BY DEF NoWaitCycle
<1>1. ASSUME NEW t \in S, NEW u \in S, WaitsFor(t, u)
      PROVE  Rank(NextRow(t)) < Rank(NextRow(u))
  <2>1. /\ NextRow(t) \in locks[u] /\ todo[u] # <<>>
        /\ todo[u] \in Seq(Updates) /\ InOrder(u)
    BY <1>1 DEF WaitsFor, LockInv, LockTypes
  <2>2. 1 \in 1..Len(todo[u]) /\ Head(todo[u]) = todo[u][1]
    BY <2>1
  <2> QED
    BY <2>1, <2>2 DEF InOrder, NextRow
<1>2. PICK t1, t2, t3, t4 \in S :
        WaitsFor(t1, t2) /\ WaitsFor(t2, t3) /\ WaitsFor(t3, t4)
  <2>1. PICK t1 \in S : TRUE
    OBVIOUS
  <2>2. PICK t2 \in S : WaitsFor(t1, t2)
    OBVIOUS
  <2>3. PICK t3 \in S : WaitsFor(t2, t3)
    OBVIOUS
  <2>4. PICK t4 \in S : WaitsFor(t3, t4)
    OBVIOUS
  <2> QED
    BY <2>2, <2>3, <2>4
<1>3. /\ Rank(NextRow(t1)) < Rank(NextRow(t2))
      /\ Rank(NextRow(t2)) < Rank(NextRow(t3))
      /\ Rank(NextRow(t3)) < Rank(NextRow(t4))
  BY <1>1, <1>2
<1> QED
  BY <1>3, RankRange

(* Without the fan-out, no set of transactions waits in a cycle: the       *)
(* single lock order the class comments state does avoid the deadlock      *)
(* between creates, cancels, settles, compensations, redeems, no-shows and *)
(* refund bookkeeping.                                                     *)
THEOREM NoDeadlockInOrder ==
  "cancelOne" \notin Operations => (Spec => []NoWaitCycle)
<1> SUFFICES ASSUME "cancelOne" \notin Operations
             PROVE  Spec => []NoWaitCycle
  OBVIOUS
<1>1. Init => LockInv
  BY EmptySorted DEF Init, LockInv, LockTypes, InOrder
<1>2. LockInv /\ [Next]_vars => LockInv'
  BY LockStep
<1> QED
  BY <1>1, <1>2, OrderPreventsCycles, PTL DEF Spec

-----------------------------------------------------------------------------
(* Ratings                                                                 *)

Phases == {"idle", "lockFirst", "insert", "foreignKey", "write", "lockStore", "aggregate",
           "commit"}

Tx == [phase : Phases, id : RatingIds, to : RatingStatuses, row : BOOLEAN,
       store : {"free", "share", "exclusive"}, sum : SUBSET RatingIds]

(* The record of a transaction that has ended need not name a rating.      *)
TxTypes ==
  /\ ratingTx = [x \in RatingTxs |-> ratingTx[x]]
  /\ \A x \in RatingTxs : ratingTx[x] \in Tx \/ ratingTx[x] = NoRatingTx
  /\ rating \in [RatingIds -> RatingStatuses]

(* What a transaction holds in each of its phases.                         *)
HoldsFor(t) ==
  /\ t.phase \in {"idle", "write", "lockFirst"} => t.store = "free" /\ ~t.row
  /\ t.phase = "lockFirst" => t.to = "APPROVED"
  /\ t.phase \in {"insert", "foreignKey"} =>
       /\ t.store # "share"
       /\ t.to = IF t.store = "free" THEN "PENDING" ELSE "APPROVED"
  /\ t.phase = "insert" => ~t.row
  /\ t.phase = "foreignKey" => t.row
  /\ t.phase = "lockStore" => t.row
  /\ t.phase = "aggregate" => t.row /\ t.store = "exclusive"
  /\ t.phase = "commit" => t.row /\ t.store # "free"
  /\ t.store = "share" => t.phase = "commit" /\ t.to = "PENDING"

Held == \A x \in RatingTxs : HoldsFor(ratingTx[x])

(* FOR UPDATE shuts everybody else out.                                    *)
OneWriter ==
  \A x, y \in RatingTxs :
    x # y /\ ratingTx[x].store = "exclusive" => ratingTx[y].store = "free"

(* A rating that is being posted is nobody else's business yet.            *)
Posting(t) == t.phase \in {"lockFirst", "insert", "foreignKey"} \/ t.store = "share"

PostsAreNew ==
  \A x \in RatingTxs : Posting(ratingTx[x]) =>
    /\ rating[ratingTx[x].id] = "none"
    /\ \A y \in RatingTxs :
         y # x /\ ratingTx[y].phase # "idle" => ratingTx[y].id # ratingTx[x].id

(* What it read is still so when it commits.                               *)
SumIsFresh ==
  \A x \in RatingTxs :
    ratingTx[x].phase = "commit" /\ ratingTx[x].store = "exclusive" =>
      \A i \in RatingIds :
        i \in ratingTx[x].sum <=>
          IF i = ratingTx[x].id THEN ratingTx[x].to = "APPROVED" ELSE rating[i] = "APPROVED"

RatingsInv ==
  /\ TxTypes /\ Held /\ OneWriter /\ PostsAreNew /\ SumIsFresh
  /\ AggregateIsFresh

-----------------------------------------------------------------------------
(* The store starts without ratings and without locks.                     *)
LEMMA RatingsInit_Inv == RatingsInit => RatingsInv
BY DEF RatingsInit, RatingsInv, TxTypes, Held, HoldsFor, OneWriter, PostsAreNew, Posting,
   SumIsFresh, AggregateIsFresh, NoRatingTx, RatingStatuses

(* An idle transaction holds no lock.                                      *)
LEMMA NoTx ==
  /\ NoRatingTx.phase = "idle" /\ NoRatingTx.store = "free" /\ ~NoRatingTx.row
  /\ HoldsFor(NoRatingTx) /\ ~Posting(NoRatingTx)
BY DEF NoRatingTx, HoldsFor, Posting

(* A statement of x that leaves what is committed alone.                   *)
LEMMA StatementKeeps ==
  ASSUME RatingsInv, NEW x \in RatingTxs, NEW t,
         t \in Tx \/ t = NoRatingTx,
         ratingTx' = [ratingTx EXCEPT ![x] = t],
         UNCHANGED <<rating, counted>>,
         HoldsFor(t),
         t.store = "exclusive" /\ ratingTx[x].store # "exclusive" =>
           \A y \in Others(x) : ratingTx[y].store = "free",
         t.store = "share" /\ ratingTx[x].store # "share" =>
           \A y \in Others(x) : ratingTx[y].store # "exclusive",
         t.phase # "idle" =>
           \/ ratingTx[x].phase # "idle" /\ t.id = ratingTx[x].id
           \/ \A y \in Others(x) : Posting(ratingTx[y]) => ratingTx[y].id # t.id,
         Posting(t) =>
           \/ Posting(ratingTx[x]) /\ t.id = ratingTx[x].id
           \/ /\ rating[t.id] = "none"
              /\ \A y \in Others(x) : ratingTx[y].phase # "idle" => ratingTx[y].id # t.id,
         t.phase = "commit" /\ t.store = "exclusive" =>
           \A i \in RatingIds :
             i \in t.sum <=> IF i = t.id THEN t.to = "APPROVED" ELSE rating[i] = "APPROVED"
  PROVE  RatingsInv'
<1> USE DEF RatingsInv
<1>1. /\ \A y \in RatingTxs : ratingTx'[y] = IF y = x THEN t ELSE ratingTx[y]
      /\ \A y \in RatingTxs : y # x <=> y \in Others(x)
  BY DEF TxTypes, Others
<1>2. TxTypes'
  BY DEF TxTypes
<1>3. Held'
  BY <1>1 DEF Held
<1>4. OneWriter'
  BY <1>1 DEF OneWriter, Held, HoldsFor, Tx, NoRatingTx
<1>5. PostsAreNew'
  BY <1>1, NoTx DEF PostsAreNew, Posting, Held, HoldsFor
<1>6. SumIsFresh'
  BY <1>1 DEF SumIsFresh
<1>7. AggregateIsFresh'
  BY DEF AggregateIsFresh
<1> QED BY <1>2, <1>3, <1>4, <1>5, <1>6, <1>7

(* What a transaction under way is.                                        *)
LEMMA TxUnderWay ==
  ASSUME RatingsInv, NEW x \in RatingTxs, ratingTx[x].phase # "idle"
  PROVE  ratingTx[x] \in Tx /\ HoldsFor(ratingTx[x])
BY NoTx DEF RatingsInv, TxTypes, Held

(* A rolled back transaction changes no row and frees its locks.           *)
LEMMA AbortKeeps ==
  ASSUME RatingsInv, NEW x \in RatingTxs, RatingAborts(x) PROVE RatingsInv'
BY NoTx, StatementKeeps DEF RatingAborts

(* The record of a transaction that begins.                                *)
LEMMA BeginsWith ==
  ASSUME RatingsInv, NEW x \in RatingTxs, ratingTx[x].phase = "idle",
         NEW phase \in Phases, NEW i \in RatingIds, NEW to \in RatingStatuses
  PROVE  LET t == [ratingTx[x] EXCEPT !.phase = phase, !.id = i, !.to = to]
         IN /\ t \in Tx /\ t.phase = phase /\ t.id = i /\ t.to = to
            /\ t.store = "free" /\ ~t.row
<1> DEFINE t == [ratingTx[x] EXCEPT !.phase = phase, !.id = i, !.to = to]
<1>1. /\ ratingTx[x] \in Tx \/ ratingTx[x] = NoRatingTx
      /\ ratingTx[x].store = "free" /\ ~ratingTx[x].row
  BY DEF RatingsInv, TxTypes, Held, HoldsFor
<1>2. CASE ratingTx[x] \in Tx
  BY <1>1, <1>2 DEF Tx
<1>3. CASE ratingTx[x] = NoRatingTx
  <2>1. PICK n : ratingTx[x] = [phase |-> "idle", id |-> n, to |-> "none", row |-> FALSE,
                                store |-> "free", sum |-> {}]
    BY <1>3 DEF NoRatingTx
  <2>2. t = [[phase |-> "idle", id |-> n, to |-> "none", row |-> FALSE,
              store |-> "free", sum |-> {}]
             EXCEPT !.phase = phase, !.id = i, !.to = to]
    BY <2>1, Zenon
  <2> HIDE DEF t
  <2>3. t = [phase |-> phase, id |-> i, to |-> to, row |-> FALSE,
             store |-> "free", sum |-> {}]
    BY <2>2
  <2>4. t \in Tx /\ t.phase = phase /\ t.id = i /\ t.to = to /\ t.store = "free" /\ ~t.row
    BY <2>3 DEF Tx
  <2> QED BY <2>4 DEF t
<1> QED BY <1>1, <1>2, <1>3

(* A create begins only for a rating that is not there.                    *)
LEMMA CreateKeeps ==
  ASSUME RatingsInv, NEW x \in RatingTxs, NEW i \in RatingIds,
         NEW to \in {"PENDING", "APPROVED"}, CreateRating(x, i, to)
  PROVE  RatingsInv'
<1> DEFINE t == [ratingTx[x] EXCEPT !.phase = FirstStatement(to), !.id = i, !.to = to]
<1>1. /\ FirstStatement(to) \in Phases /\ to \in RatingStatuses
      /\ ratingTx[x].phase = "idle"
  BY DEF CreateRating, FirstStatement, Phases, RatingStatuses
<1>2. /\ t \in Tx /\ t.phase = FirstStatement(to) /\ t.id = i /\ t.to = to
      /\ t.store = "free" /\ ~t.row
  BY <1>1, BeginsWith
<1>3. ratingTx' = [ratingTx EXCEPT ![x] = t]
  BY DEF CreateRating
<1>4. /\ UNCHANGED <<rating, counted>> /\ rating[i] = "none"
      /\ \A y \in Others(x) : ratingTx[y].phase # "idle" => ratingTx[y].id # i
  BY DEF CreateRating, Others
<1> HIDE DEF t
<1>5. HoldsFor(t)
  BY <1>2 DEF HoldsFor, FirstStatement
<1>6. \A y \in Others(x) : Posting(ratingTx[y]) => ratingTx[y].phase # "idle"
  BY DEF Posting, RatingsInv, Held, HoldsFor, Others
<1>7. t.phase # "commit"
  BY <1>2 DEF FirstStatement
<1> QED BY <1>2, <1>3, <1>4, <1>5, <1>6, <1>7, StatementKeeps

(* A create that is approved at once locks the store before its insert.    *)
LEMMA LockFirstKeeps ==
  ASSUME RatingsInv, NEW x \in RatingTxs, LockFirst(x) PROVE RatingsInv'
<1> DEFINE t == [ratingTx[x] EXCEPT !.phase = "insert", !.store = "exclusive"]
<1>1. ratingTx[x].phase = "lockFirst" /\ ratingTx[x] \in Tx /\ HoldsFor(ratingTx[x])
  BY TxUnderWay DEF LockFirst, RatingRuns
<1>2. /\ t \in Tx /\ t.phase = "insert" /\ t.store = "exclusive"
      /\ t.id = ratingTx[x].id /\ t.row = ratingTx[x].row /\ t.to = ratingTx[x].to
  BY <1>1 DEF Tx, Phases
<1>3. ratingTx' = [ratingTx EXCEPT ![x] = t] /\ UNCHANGED <<rating, counted>>
  BY DEF LockFirst
<1> HIDE DEF t
<1>4. \A y \in Others(x) : ratingTx[y].store = "free"
  <2>1. StoreHolders(x) = {}
    BY <1>1 DEF LockFirst, RatingRuns, RatingWaitsFor
  <2>2. \A y \in Others(x) : ratingTx[y].store \notin {"exclusive", "share"}
    BY <1>1, <2>1 DEF StoreHolders
  <2> QED BY <2>2, NoTx DEF RatingsInv, TxTypes, Tx, Others
<1>5. HoldsFor(t) /\ Posting(ratingTx[x])
  BY <1>1, <1>2 DEF HoldsFor, Posting
<1> QED BY <1>1, <1>2, <1>3, <1>4, <1>5, StatementKeeps

(* The inserted row is nobody else's to see, or the sale is rated already. *)
LEMMA InsertKeeps ==
  ASSUME RatingsInv, NEW x \in RatingTxs, InsertRating(x) PROVE RatingsInv'
<1>1. CASE AlreadyRated(Sale[ratingTx[x].id])
  BY <1>1, AbortKeeps DEF InsertRating
<1>2. CASE ~AlreadyRated(Sale[ratingTx[x].id])
  <2> DEFINE t == [ratingTx[x] EXCEPT !.phase = "foreignKey", !.row = TRUE]
  <2>1. ratingTx[x].phase = "insert" /\ ratingTx[x] \in Tx /\ HoldsFor(ratingTx[x])
    BY TxUnderWay DEF InsertRating, RatingRuns
  <2>2. /\ t \in Tx /\ t.phase = "foreignKey" /\ t.store = ratingTx[x].store
        /\ t.id = ratingTx[x].id /\ t.row /\ t.to = ratingTx[x].to
    BY <2>1 DEF Tx, Phases
  <2>3. ratingTx' = [ratingTx EXCEPT ![x] = t] /\ UNCHANGED <<rating, counted>>
    BY <1>2 DEF InsertRating
  <2> HIDE DEF t
  <2>4. HoldsFor(t) /\ Posting(ratingTx[x])
    BY <2>1, <2>2 DEF HoldsFor, Posting
  <2> QED BY <2>1, <2>2, <2>3, <2>4, StatementKeeps
<1> QED BY <1>1, <1>2

(* The foreign key takes a share lock on the store.                        *)
LEMMA ForeignKeyKeeps ==
  ASSUME RatingsInv, NEW x \in RatingTxs, ForeignKey(x) PROVE RatingsInv'
<1> DEFINE phase == IF ratingTx[x].to = "APPROVED" THEN "lockStore" ELSE "commit"
           store == IF ratingTx[x].store = "exclusive" THEN "exclusive" ELSE "share"
           t == [ratingTx[x] EXCEPT !.phase = phase, !.store = store]
<1>1. ratingTx[x].phase = "foreignKey" /\ ratingTx[x] \in Tx /\ HoldsFor(ratingTx[x])
  BY TxUnderWay DEF ForeignKey, RatingRuns
<1>2. /\ t \in Tx /\ t.phase = phase /\ t.store = store
      /\ t.id = ratingTx[x].id /\ t.row = ratingTx[x].row /\ t.to = ratingTx[x].to
  BY <1>1 DEF Tx, Phases
<1>3. ratingTx' = [ratingTx EXCEPT ![x] = t] /\ UNCHANGED <<rating, counted>>
  BY DEF ForeignKey
<1> HIDE DEF t
<1>4. \A y \in Others(x) : ratingTx[y].store # "exclusive"
  BY <1>1 DEF ForeignKey, RatingRuns, RatingWaitsFor, StoreHolders
<1>5. HoldsFor(t) /\ Posting(ratingTx[x])
  BY <1>1, <1>2 DEF HoldsFor, Posting, Tx, RatingStatuses
<1>6. t.phase = "commit" /\ t.store = "exclusive" => FALSE
  BY <1>1, <1>2 DEF HoldsFor
<1> QED BY <1>1, <1>2, <1>3, <1>4, <1>5, <1>6, StatementKeeps

(* A moderation or a deletion begins with a row that is there.             *)
LEMMA WriteKeeps ==
  ASSUME RatingsInv, NEW x \in RatingTxs, NEW i \in RatingIds,
         NEW to \in {"APPROVED", "REJECTED", "none"}, WriteRating(x, i, to)
  PROVE  RatingsInv'
<1> DEFINE t == [ratingTx[x] EXCEPT !.phase = "write", !.id = i, !.to = to]
<1>0. "write" \in Phases /\ to \in RatingStatuses /\ ratingTx[x].phase = "idle"
  BY DEF WriteRating, Phases, RatingStatuses
<1>1. /\ t \in Tx /\ t.phase = "write" /\ t.id = i /\ t.to = to
      /\ t.store = "free" /\ ~t.row
  BY <1>0, BeginsWith
<1>2. ratingTx' = [ratingTx EXCEPT ![x] = t] /\ UNCHANGED <<rating, counted>>
  BY DEF WriteRating
<1> HIDE DEF t
<1>3. HoldsFor(t) /\ ~Posting(t)
  BY <1>1 DEF HoldsFor, Posting
<1>4. \A y \in Others(x) : Posting(ratingTx[y]) => ratingTx[y].id # i
  BY DEF WriteRating, RatingsInv, PostsAreNew, Others
<1> QED BY <1>1, <1>2, <1>3, <1>4, StatementKeeps

(* The row is locked and written, unless it was deleted meanwhile.         *)
LEMMA RowWrittenKeeps ==
  ASSUME RatingsInv, NEW x \in RatingTxs, RowWritten(x) PROVE RatingsInv'
<1>1. CASE rating[ratingTx[x].id] = "none"
  BY <1>1, AbortKeeps DEF RowWritten
<1>2. CASE rating[ratingTx[x].id] # "none"
  <2> DEFINE t == [ratingTx[x] EXCEPT !.phase = "lockStore", !.row = TRUE]
  <2>1. ratingTx[x].phase = "write" /\ ratingTx[x] \in Tx /\ HoldsFor(ratingTx[x])
    BY TxUnderWay DEF RowWritten, RatingRuns
  <2>2. /\ t \in Tx /\ t.phase = "lockStore" /\ t.store = ratingTx[x].store
        /\ t.id = ratingTx[x].id /\ t.row /\ t.to = ratingTx[x].to
    BY <2>1 DEF Tx, Phases
  <2>3. ratingTx' = [ratingTx EXCEPT ![x] = t] /\ UNCHANGED <<rating, counted>>
    BY <1>2 DEF RowWritten
  <2> HIDE DEF t
  <2>4. HoldsFor(t) /\ ~Posting(t)
    BY <2>1, <2>2 DEF HoldsFor, Posting
  <2> QED BY <2>1, <2>2, <2>3, <2>4, StatementKeeps
<1> QED BY <1>1, <1>2

(* recomputeStoreAggregate locks the store for itself.                     *)
LEMMA LockStoreKeeps ==
  ASSUME RatingsInv, NEW x \in RatingTxs, LockStore(x) PROVE RatingsInv'
<1> DEFINE t == [ratingTx[x] EXCEPT !.phase = "aggregate", !.store = "exclusive"]
<1>1. ratingTx[x].phase = "lockStore" /\ ratingTx[x] \in Tx /\ HoldsFor(ratingTx[x])
  BY TxUnderWay DEF LockStore, RatingRuns
<1>2. /\ t \in Tx /\ t.phase = "aggregate" /\ t.store = "exclusive"
      /\ t.id = ratingTx[x].id /\ t.row = ratingTx[x].row
  BY <1>1 DEF Tx, Phases
<1>3. ratingTx' = [ratingTx EXCEPT ![x] = t] /\ UNCHANGED <<rating, counted>>
  BY DEF LockStore
<1> HIDE DEF t
<1>4. \A y \in Others(x) : ratingTx[y].store = "free"
  <2>1. StoreHolders(x) = {}
    BY <1>1 DEF LockStore, RatingRuns, RatingWaitsFor
  <2>2. \A y \in Others(x) : ratingTx[y].store \notin {"exclusive", "share"}
    BY <1>1, <2>1 DEF StoreHolders
  <2> QED BY <2>2, NoTx DEF RatingsInv, TxTypes, Tx, Others
<1>5. HoldsFor(t) /\ ~Posting(t)
  BY <1>1, <1>2 DEF HoldsFor, Posting
<1> QED BY <1>1, <1>2, <1>3, <1>4, <1>5, StatementKeeps

(* It reads the ratings under that lock.                                   *)
LEMMA AggregateKeeps ==
  ASSUME RatingsInv, NEW x \in RatingTxs, AggregateRatings(x) PROVE RatingsInv'
<1> DEFINE sum == {i \in RatingIds : StatusSeenBy(x, i) = "APPROVED"}
           t == [ratingTx[x] EXCEPT !.phase = "commit", !.sum = sum]
<1>1. ratingTx[x].phase = "aggregate" /\ ratingTx[x] \in Tx /\ HoldsFor(ratingTx[x])
  BY TxUnderWay DEF AggregateRatings, RatingRuns
<1>2. ratingTx[x].row /\ ratingTx[x].store = "exclusive"
  BY <1>1 DEF HoldsFor
<1>3. /\ t \in Tx /\ t.phase = "commit" /\ t.store = "exclusive" /\ t.sum = sum
      /\ t.id = ratingTx[x].id /\ t.row /\ t.to = ratingTx[x].to
  BY <1>1, <1>2 DEF Tx, Phases
<1>4. ratingTx' = [ratingTx EXCEPT ![x] = t] /\ UNCHANGED <<rating, counted>>
  BY DEF AggregateRatings
<1> HIDE DEF t
<1>5. \A i \in RatingIds :
        i \in t.sum <=> IF i = t.id THEN t.to = "APPROVED" ELSE rating[i] = "APPROVED"
  BY <1>2, <1>3 DEF StatusSeenBy
<1>6. HoldsFor(t) /\ ~Posting(t)
  BY <1>3 DEF HoldsFor, Posting
<1> HIDE DEF sum
<1> QED BY <1>1, <1>2, <1>3, <1>4, <1>5, <1>6, StatementKeeps

(* The row and the aggregate are committed together.                       *)
LEMMA CommitKeeps ==
  ASSUME RatingsInv, NEW x \in RatingTxs, CommitRating(x) PROVE RatingsInv'
<1> USE DEF RatingsInv
<1> DEFINE n == ratingTx[x].id
<1>1. ratingTx[x].phase = "commit" /\ ratingTx[x] \in Tx /\ HoldsFor(ratingTx[x])
  BY TxUnderWay DEF CommitRating, RatingRuns
<1>2. /\ n \in RatingIds /\ ratingTx[x].to \in RatingStatuses
      /\ rating' = [rating EXCEPT ![n] = ratingTx[x].to]
      /\ \A y \in RatingTxs : ratingTx'[y] = IF y = x THEN NoRatingTx ELSE ratingTx[y]
      /\ ratingTx' = [ratingTx EXCEPT ![x] = NoRatingTx]
  BY <1>1 DEF CommitRating, Tx, TxTypes
<1>3. TxTypes'
  BY <1>2 DEF TxTypes
<1>4. Held' /\ OneWriter'
  BY <1>2, NoTx DEF Held, OneWriter
<1>5. \A i \in RatingIds : rating'[i] = IF i = n THEN ratingTx[x].to ELSE rating[i]
  BY <1>2 DEF TxTypes
<1>6. PostsAreNew'
  <2> SUFFICES ASSUME NEW y \in RatingTxs \ {x}, Posting(ratingTx[y])
               PROVE  /\ rating'[ratingTx[y].id] = "none"
                      /\ \A z \in RatingTxs :
                           z # y /\ ratingTx'[z].phase # "idle" =>
                             ratingTx'[z].id # ratingTx[y].id
    BY <1>2, NoTx DEF PostsAreNew
  <2>1. ratingTx[y].id # n /\ ratingTx[y].phase # "idle"
    BY <1>1 DEF PostsAreNew, Held, HoldsFor, Posting
  <2>2. ratingTx[y].id \in RatingIds
    BY <2>1, TxUnderWay DEF Tx
  <2> QED BY <1>2, <1>5, <2>1, <2>2, NoTx DEF PostsAreNew
<1>7. SumIsFresh'
  <2> SUFFICES ASSUME NEW y \in RatingTxs \ {x}, ratingTx[y].store = "exclusive" PROVE FALSE
    BY <1>2, NoTx DEF SumIsFresh
  <2> QED BY <1>1 DEF OneWriter, HoldsFor
<1>8. AggregateIsFresh'
  <2>1. CASE ratingTx[x].store = "share"
    <3>1. rating[n] = "none" /\ ratingTx[x].to = "PENDING" /\ counted' = counted
      BY <1>1, <2>1 DEF PostsAreNew, Posting, HoldsFor, CommitRating
    <3> QED BY <1>5, <3>1 DEF AggregateIsFresh
  <2>2. CASE ratingTx[x].store # "share"
    <3>1. ratingTx[x].store = "exclusive" /\ counted' = ratingTx[x].sum
      BY <1>1, <2>2 DEF HoldsFor, CommitRating, Tx
    <3>2. ratingTx[x].sum \subseteq RatingIds
      BY <1>1 DEF Tx
    <3> QED BY <1>1, <1>5, <3>1, <3>2 DEF AggregateIsFresh, SumIsFresh
  <2> QED BY <2>1, <2>2
<1> QED BY <1>3, <1>4, <1>6, <1>7, <1>8

(* The invariant is inductive.                                             *)
LEMMA RatingsNext_Inv == RatingsInv /\ [RatingsNext]_ratingsVars => RatingsInv'
<1> SUFFICES ASSUME RatingsInv, [RatingsNext]_ratingsVars PROVE RatingsInv'
  OBVIOUS
<1>1. CASE UNCHANGED ratingsVars
  BY <1>1 DEF ratingsVars, RatingsInv, TxTypes, Held, OneWriter, PostsAreNew, SumIsFresh,
     AggregateIsFresh
<1>2. ASSUME NEW x \in RatingTxs, RollBackRating(x) PROVE RatingsInv'
  BY <1>2, AbortKeeps DEF RollBackRating
<1> QED BY <1>1, <1>2, CreateKeeps, LockFirstKeeps, InsertKeeps, ForeignKeyKeeps, WriteKeeps,
        RowWrittenKeeps, LockStoreKeeps, AggregateKeeps, CommitKeeps DEF RatingsNext

-----------------------------------------------------------------------------
(* The committed aggregate of the store is that of its approved ratings,   *)
(* whatever posts, moderations and deletions interleave or roll back       *)
(* (recomputeStoreAggregate).                                              *)
THEOREM AggregateStaysFresh == RatingsSpec => []AggregateIsFresh
<1>1. RatingsInv => AggregateIsFresh
  BY DEF RatingsInv
<1> QED BY <1>1, RatingsInit_Inv, RatingsNext_Inv, PTL DEF RatingsSpec

(* Two transactions wait for each other only over the rating of one sale   *)
(* (create takes the store's lock before its insert).                      *)
THEOREM DeadlockOnlyInASale == RatingsSpec => []NoDeadlockAcrossSales
<1>1. RatingsInv => NoDeadlockAcrossSales
  <2> SUFFICES ASSUME RatingsInv, NEW x \in RatingTxs, NEW y \in RatingTxs,
                      x \in RatingWaitsFor(y), y \in RatingWaitsFor(x),
                      Sale[ratingTx[x].id] # Sale[ratingTx[y].id]
               PROVE  FALSE
    BY DEF NoDeadlockAcrossSales
  <2>1. x # y /\ HoldsFor(ratingTx[x]) /\ HoldsFor(ratingTx[y])
    BY DEF RatingWaitsFor, StoreHolders, RowHolders, KeyHolders, Others, RatingsInv, Held
  <2>2. /\ ratingTx[x].phase \notin {"write", "insert"} => y \in StoreHolders(x)
        /\ ratingTx[y].phase \notin {"write", "insert"} => x \in StoreHolders(y)
        /\ ratingTx[x].phase # "commit" /\ ratingTx[y].phase # "commit"
    BY DEF RatingWaitsFor
  <2>3. /\ ratingTx[x].phase \notin {"write", "insert"}
        /\ ratingTx[y].phase \notin {"write", "insert"}
    BY DEF RatingWaitsFor, RowHolders, KeyHolders
  <2>4. ratingTx[x].store = "exclusive" /\ ratingTx[y].store = "exclusive"
    BY <2>1, <2>2, <2>3 DEF StoreHolders, HoldsFor
  <2> QED BY <2>1, <2>4 DEF RatingsInv, OneWriter
<1> QED BY <1>1, RatingsInit_Inv, RatingsNext_Inv, PTL DEF RatingsSpec
=============================================================================
