------------------------------ MODULE LockOrder ------------------------------
(***************************************************************************)
(* The row locks of the transactions that touch a payment, a reservation   *)
(* or a daily offer.  Reservations lets such a transaction commit in one   *)
(* step; here each UPDATE takes its row lock on its own, and a transaction *)
(* waits for a row another one holds.  What is left of the code is the     *)
(* order of the UPDATEs and what each does when it matches no row.         *)
(***************************************************************************)
EXTENDS Naturals, Sequences, FiniteSets

CONSTANTS
  Transactions,  \* bound: database connections that run concurrently
  Reservations,
  Offers,
  OfferOf,       \* Reservation.offerId
  Operations     \* bound: the operations that run

AllOperations ==
  {"create", "cancel", "settleSuccess", "expireAndRelease", "redeem",
   "noShow", "refund", "cancelOne"}

ASSUME LockAssumption ==
  /\ OfferOf \in [Reservations -> Offers]
  /\ Operations \subseteq AllOperations

VARIABLES
  todo,   \* the UPDATEs a transaction has still to run
  locks   \* the rows it has locked

vars == <<todo, locks>>

-----------------------------------------------------------------------------
(* Rows, and the UPDATEs on them                                           *)

Payment(r) == [table |-> "Payment", id |-> r]
Reservation(r) == [table |-> "Reservation", id |-> r]
DailyOffer(r) == [table |-> "DailyOffer", id |-> OfferOf[r]]

(* The transaction ends when Must matches no row; it goes on after May.    *)
Must(row) == [row |-> row, optional |-> FALSE]
May(row) == [row |-> row, optional |-> TRUE]

-----------------------------------------------------------------------------
(* What each operation on reservation r updates, in order                  *)

CreateLocks(r) == <<Must(DailyOffer(r))>>
CancelLocks(r) ==
  <<May(Payment(r)), Must(Reservation(r)), Must(DailyOffer(r))>>
SettleSuccessLocks(r) == <<Must(Payment(r)), Must(Reservation(r))>>

(* Also the compensation of a failed createIntent.                         *)
ExpireAndReleaseLocks(r) ==
  <<Must(Payment(r)), Must(Reservation(r)), Must(DailyOffer(r))>>

(* Mutant of RedeemLocks: counts the bag before it claims the reservation. *)
RedeemLocksOfferFirst(r) == <<Must(DailyOffer(r)), Must(Reservation(r))>>

RedeemLocks(r) == <<Must(Reservation(r)), Must(DailyOffer(r))>>
NoShowLocks(r) == <<Must(Reservation(r))>>
RefundLocks(r) == <<Must(Payment(r))>>

(* The fan-out of a cancelled offer locks the offer, then the payment and  *)
(* the reservation of one candidate after the other; s lists them in the   *)
(* order the unordered SELECT returned.                                    *)
FanOutLocks(s) ==
  [i \in 1..(2 * Len(s) + 1) |->
     IF i = 1 THEN Must(DailyOffer(s[1]))
     ELSE IF i % 2 = 0 THEN May(Payment(s[i \div 2]))
     ELSE May(Reservation(s[i \div 2]))]

(* The orders in which the reservations of a set can be listed.            *)
Listings(S) ==
  {s \in [1..Cardinality(S) -> S] : {s[i] : i \in DOMAIN s} = S}

Candidates ==
  {S \in (SUBSET Reservations) \ {{}} :
     \A r1, r2 \in S : OfferOf[r1] = OfferOf[r2]}

ReservationLocks(op, r) ==
  CASE op = "create"           -> CreateLocks(r)
    [] op = "cancel"           -> CancelLocks(r)
    [] op = "settleSuccess"    -> SettleSuccessLocks(r)
    [] op = "expireAndRelease" -> ExpireAndReleaseLocks(r)
    [] op = "redeem"           -> RedeemLocks(r)
    [] op = "noShow"           -> NoShowLocks(r)
    [] op = "refund"           -> RefundLocks(r)

FanOuts ==
  IF "cancelOne" \in Operations
  THEN {FanOutLocks(s) : s \in UNION {Listings(S) : S \in Candidates}}
  ELSE {}

Programs ==
  FanOuts \cup {ReservationLocks(op, r) :
                  op \in Operations \ {"cancelOne"}, r \in Reservations}

-----------------------------------------------------------------------------
(* The database                                                            *)

Idle(t) == todo[t] = <<>> /\ locks[t] = {}
NextRow(t) == Head(todo[t]).row

(* Transaction t waits for a row that u holds.                             *)
WaitsFor(t, u) ==
  /\ t # u
  /\ todo[t] # <<>>
  /\ NextRow(t) \in locks[u]

Begin(t) ==
  /\ Idle(t)
  /\ \E program \in Programs : todo' = [todo EXCEPT ![t] = program]
  /\ UNCHANGED locks

Update(t) ==
  /\ todo[t] # <<>>
  /\ \A u \in Transactions : ~WaitsFor(t, u)
  /\ locks' = [locks EXCEPT ![t] = @ \cup {NextRow(t)}]
  /\ todo' = [todo EXCEPT ![t] = Tail(@)]

(* The WHERE clause matches no row: nothing is locked.                     *)
Miss(t) ==
  /\ todo[t] # <<>>
  /\ todo' = [todo EXCEPT ![t] = IF Head(@).optional THEN Tail(@) ELSE <<>>]
  /\ UNCHANGED locks

Commit(t) ==
  /\ todo[t] = <<>>
  /\ locks[t] # {}
  /\ locks' = [locks EXCEPT ![t] = {}]
  /\ UNCHANGED todo

(* An error, a timeout or a lost connection.                               *)
Rollback(t) ==
  /\ todo[t] # <<>>
  /\ todo' = [todo EXCEPT ![t] = <<>>]
  /\ locks' = [locks EXCEPT ![t] = {}]

Init ==
  /\ todo = [t \in Transactions |-> <<>>]
  /\ locks = [t \in Transactions |-> {}]

Next ==
  \E t \in Transactions :
    Begin(t) \/ Update(t) \/ Miss(t) \/ Commit(t) \/ Rollback(t)

Spec == Init /\ [][Next]_vars

-----------------------------------------------------------------------------

(* Payment before Reservation before DailyOffer: no set of transactions    *)
(* wait for each other in a cycle.  Claimed by the class comments of       *)
(* ReservationsService and PaymentSettleService for every writer; it holds *)
(* as long as the fan-out (cancelOne), which starts at the offer, is not   *)
(* one of the Operations.                                                  *)
NoWaitCycle ==
  \A S \in (SUBSET Transactions) \ {{}} :
    \E t \in S : \A u \in S : ~WaitsFor(t, u)
=============================================================================
