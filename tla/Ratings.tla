------------------------------- MODULE Ratings -------------------------------
(***************************************************************************)
(* The ratings of one store, and the transactions that write them: each    *)
(* recomputes the store's aggregate before it commits.  Read committed: a  *)
(* statement sees what was committed before it and its own writes.  The    *)
(* average and the count are abstracted to the set of ratings they cover.  *)
(***************************************************************************)
EXTENDS Naturals, FiniteSets

CONSTANTS
  RatingIds,   \* bound: ids that ratings rows may get
  Sale,        \* the redeemed reservation each of them rates
  RatingTxs    \* bound: transactions that run at the same time

ASSUME RatingsAssumption ==
  RatingIds \subseteq Nat /\ RatingIds # {} /\ IsFiniteSet(RatingTxs)

VARIABLES
  rating,    \* the committed moderationStatus of each row, "none" if there is no row
  counted,   \* the ratings Store.avgStars and ratingCount were computed from
  ratingTx   \* what each transaction is doing and the locks it holds

ratingsVars == <<rating, counted, ratingTx>>

-----------------------------------------------------------------------------
RatingStatuses == {"none", "PENDING", "APPROVED", "REJECTED"}

(* id, to: the row it writes and the status it gives it.  row: it has      *)
(* written it.  store: its lock on the stores row.                         *)
RatingTx == [phase : {"idle", "lockFirst", "insert", "foreignKey", "write", "lockStore",
                      "aggregate", "commit"},
             id : RatingIds, to : RatingStatuses, row : BOOLEAN,
             store : {"free", "share", "exclusive"}, sum : SUBSET RatingIds]

NoRatingTx == [phase |-> "idle", id |-> CHOOSE i \in RatingIds : TRUE, to |-> "none",
               row |-> FALSE, store |-> "free", sum |-> {}]

RatingsTypeOK ==
  /\ rating \in [RatingIds -> RatingStatuses]
  /\ counted \subseteq RatingIds
  /\ ratingTx \in [RatingTxs -> RatingTx]

RatingsInit ==
  /\ rating = [i \in RatingIds |-> "none"]
  /\ counted = {}
  /\ ratingTx = [x \in RatingTxs |-> NoRatingTx]

-----------------------------------------------------------------------------
Others(x) == RatingTxs \ {x}

(* Who holds what the next statement of x needs: the store's row, FOR      *)
(* UPDATE or FOR KEY SHARE; the rating's row; the rating's unique key.     *)
StoreHolders(x) ==
  {y \in Others(x) : \/ ratingTx[y].store = "exclusive"
                     \/ ratingTx[y].store = "share" /\ ratingTx[x].phase # "foreignKey"}
RowHolders(x) == {y \in Others(x) : ratingTx[y].row /\ ratingTx[y].id = ratingTx[x].id}
KeyHolders(x) ==
  {y \in Others(x) : ratingTx[y].row /\ Sale[ratingTx[y].id] = Sale[ratingTx[x].id]}

RatingWaitsFor(x) ==
  CASE ratingTx[x].phase \in {"lockFirst", "lockStore", "foreignKey"} -> StoreHolders(x)
    [] ratingTx[x].phase = "write" -> RowHolders(x)
    [] ratingTx[x].phase = "insert" -> KeyHolders(x)
    [] OTHER -> {}

RatingRuns(x, phase) == ratingTx[x].phase = phase /\ RatingWaitsFor(x) = {}

RatingAborts(x) ==
  /\ ratingTx' = [ratingTx EXCEPT ![x] = NoRatingTx]
  /\ UNCHANGED <<rating, counted>>

-----------------------------------------------------------------------------
(* create: an insert; a rating without a comment is approved, and locks    *)
(* the store before it.                                                    *)

(* Mutant of FirstStatement: the lock is left to recomputeStoreAggregate.  *)
InsertFirst(to) == "insert"
FirstStatement(to) == IF to = "APPROVED" THEN "lockFirst" ELSE "insert"

CreateRating(x, i, to) ==
  /\ ratingTx[x].phase = "idle"
  /\ rating[i] = "none"
  /\ \A y \in RatingTxs : ratingTx[y].phase = "idle" \/ ratingTx[y].id # i
  /\ ratingTx' = [ratingTx EXCEPT ![x].phase = FirstStatement(to), ![x].id = i, ![x].to = to]
  /\ UNCHANGED <<rating, counted>>

LockFirst(x) ==
  /\ RatingRuns(x, "lockFirst")
  /\ ratingTx' = [ratingTx EXCEPT ![x].phase = "insert", ![x].store = "exclusive"]
  /\ UNCHANGED <<rating, counted>>

AlreadyRated(s) == \E j \in RatingIds : Sale[j] = s /\ rating[j] # "none"

(* P2002 on reservationId, or the row and then its foreign key's lock.     *)
InsertRating(x) ==
  /\ RatingRuns(x, "insert")
  /\ IF AlreadyRated(Sale[ratingTx[x].id]) THEN RatingAborts(x)
     ELSE /\ ratingTx' = [ratingTx EXCEPT ![x].phase = "foreignKey", ![x].row = TRUE]
          /\ UNCHANGED <<rating, counted>>

ForeignKey(x) ==
  /\ RatingRuns(x, "foreignKey")
  /\ ratingTx' = [ratingTx EXCEPT
       ![x].phase = IF ratingTx[x].to = "APPROVED" THEN "lockStore" ELSE "commit",
       ![x].store = IF @ = "exclusive" THEN @ ELSE "share"]
  /\ UNCHANGED <<rating, counted>>

(* moderate and adminDelete: the row first, then the store.                *)
WriteRating(x, i, to) ==
  /\ ratingTx[x].phase = "idle"
  /\ rating[i] \notin {"none", to}
  /\ ratingTx' = [ratingTx EXCEPT ![x].phase = "write", ![x].id = i, ![x].to = to]
  /\ UNCHANGED <<rating, counted>>

RowWritten(x) ==
  /\ RatingRuns(x, "write")
  /\ IF rating[ratingTx[x].id] = "none" THEN RatingAborts(x)
     ELSE /\ ratingTx' = [ratingTx EXCEPT ![x].phase = "lockStore", ![x].row = TRUE]
          /\ UNCHANGED <<rating, counted>>

-----------------------------------------------------------------------------
(* recomputeStoreAggregate                                                 *)

(* Mutant of LockStore: the aggregate is read without the row lock.        *)
NoLockStore(x) ==
  /\ ratingTx[x].phase = "lockStore"
  /\ ratingTx' = [ratingTx EXCEPT ![x].phase = "aggregate"]
  /\ UNCHANGED <<rating, counted>>

LockStore(x) ==
  /\ RatingRuns(x, "lockStore")
  /\ ratingTx' = [ratingTx EXCEPT ![x].phase = "aggregate", ![x].store = "exclusive"]
  /\ UNCHANGED <<rating, counted>>

StatusSeenBy(x, i) ==
  IF ratingTx[x].row /\ ratingTx[x].id = i THEN ratingTx[x].to ELSE rating[i]

AggregateRatings(x) ==
  /\ RatingRuns(x, "aggregate")
  /\ ratingTx' = [ratingTx EXCEPT
       ![x].phase = "commit",
       ![x].sum = {i \in RatingIds : StatusSeenBy(x, i) = "APPROVED"}]
  /\ UNCHANGED <<rating, counted>>

(* The store's update, where there is one, and the commit.                 *)
CommitRating(x) ==
  /\ RatingRuns(x, "commit")
  /\ rating' = [rating EXCEPT ![ratingTx[x].id] = ratingTx[x].to]
  /\ counted' = IF ratingTx[x].store = "share" THEN counted ELSE ratingTx[x].sum
  /\ ratingTx' = [ratingTx EXCEPT ![x] = NoRatingTx]

(* A timeout, a lost connection, or the victim of a deadlock.              *)
RollBackRating(x) == ratingTx[x].phase # "idle" /\ RatingAborts(x)

-----------------------------------------------------------------------------
RatingsNext ==
  \E x \in RatingTxs :
    \/ \E i \in RatingIds :
         \/ \E to \in {"PENDING", "APPROVED"} : CreateRating(x, i, to)
         \/ \E to \in {"APPROVED", "REJECTED", "none"} : WriteRating(x, i, to)
    \/ LockFirst(x) \/ InsertRating(x) \/ ForeignKey(x) \/ RowWritten(x)
    \/ LockStore(x) \/ AggregateRatings(x) \/ CommitRating(x) \/ RollBackRating(x)

RatingsSpec == RatingsInit /\ [][RatingsNext]_ratingsVars

-----------------------------------------------------------------------------
(* Properties                                                              *)

(* However posts, moderations and deletions interleave or roll back, the   *)
(* store's committed aggregate covers exactly its approved ratings: the    *)
(* lock of recomputeStoreAggregate leaves no undercount behind.            *)
AggregateIsFresh == counted = {i \in RatingIds : rating[i] = "APPROVED"}

(* Two transactions wait for each other only over one reservation (a post  *)
(* for a rating that another post, a moderation or a deletion is writing): *)
(* customers of one store who rate at the same time never deadlock.        *)
NoDeadlockAcrossSales ==
  \A x, y \in RatingTxs :
    x \in RatingWaitsFor(y) /\ y \in RatingWaitsFor(x) =>
      Sale[ratingTx[x].id] = Sale[ratingTx[y].id]
=============================================================================
