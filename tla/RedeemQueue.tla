----------------------------- MODULE RedeemQueue -----------------------------
(***************************************************************************)
(* The consumer app's queue of swipes that did not reach the server: one   *)
(* value in AsyncStorage that every call reads, changes and writes back,   *)
(* across awaits.  A screen queues; screen and global sync clear what the  *)
(* server says is redeemed.  Nothing sends a queued swipe again.           *)
(***************************************************************************)
EXTENDS FiniteSets

CONSTANTS
  Pickups,   \* reservations of this phone's customer
  Screens,   \* bound: calls of redeem screens at the same time
  Syncs      \* bound: ticks of the global sync at the same time

ASSUME RedeemQueueAssumption == Screens \cap Syncs = {}

VARIABLES
  queue,    \* the reservations in the stored map
  bag,      \* the status of each reservation at the server
  caller    \* what each call is doing

redeemVars == <<queue, bag, caller>>

-----------------------------------------------------------------------------
Callers == Screens \cup Syncs

(* todo: the reservations it will queue or clear.  seen: what it read.     *)
NoRedeemCall == [phase |-> "idle", todo |-> {}, seen |-> {}]

RedeemTypeOK ==
  /\ queue \subseteq Pickups
  /\ bag \in [Pickups -> {"CONFIRMED", "REDEEMED", "NO_SHOW"}]
  /\ caller \in [Callers ->
       [phase : {"idle", "queueing", "queued", "fetching", "clearing", "cleared"},
        todo : SUBSET Pickups, seen : SUBSET Pickups]]

RedeemInit ==
  /\ queue = {}
  /\ bag = [b \in Pickups |-> "CONFIRMED"]
  /\ caller = [k \in Callers |-> NoRedeemCall]

-----------------------------------------------------------------------------
Doing(k, phase, todo) ==
  caller' = [caller EXCEPT ![k] =
    IF todo = {} THEN NoRedeemCall ELSE [phase |-> phase, todo |-> todo, seen |-> {}]]

(* confirm: the server answers, or the call fails on the network, with or  *)
(* without the server having redeemed; a refusal changes nothing.          *)
Swipe(k, b) ==
  /\ caller[k].phase = "idle"
  /\ bag[b] # "NO_SHOW"
  /\ \/ /\ bag' = [bag EXCEPT ![b] = "REDEEMED"]
        /\ \E phase \in {"clearing", "queueing"} : Doing(k, phase, {b})
     \/ UNCHANGED bag /\ Doing(k, "queueing", {b})
  /\ UNCHANGED queue

(* queueLocalConfirmation: the read, then the write of what it read.       *)
QueueReads(k) ==
  /\ caller[k].phase = "queueing"
  /\ caller' = [caller EXCEPT ![k] =
       IF caller[k].todo \subseteq queue THEN NoRedeemCall
       ELSE [@ EXCEPT !.phase = "queued", !.seen = queue]]
  /\ UNCHANGED <<queue, bag>>

QueueWrites(k) ==
  /\ caller[k].phase = "queued"
  /\ queue' = caller[k].seen \cup caller[k].todo
  /\ caller' = [caller EXCEPT ![k] = NoRedeemCall]
  /\ UNCHANGED bag

(* clearQueuedConfirmation, for each reservation of the list in turn; seen *)
(* is what it will write back.                                             *)
ClearReads(k) ==
  /\ caller[k].phase = "clearing"
  /\ \E b \in caller[k].todo :
       IF b \in queue
       THEN caller' = [caller EXCEPT ![k] =
              [phase |-> "cleared", todo |-> @.todo \ {b}, seen |-> queue \ {b}]]
       ELSE Doing(k, "clearing", caller[k].todo \ {b})
  /\ UNCHANGED <<queue, bag>>

ClearWrites(k) ==
  /\ caller[k].phase = "cleared"
  /\ queue' = caller[k].seen
  /\ Doing(k, "clearing", caller[k].todo)
  /\ UNCHANGED bag

(* The screen's poll sees that its reservation was redeemed.               *)
ScreenReconciles(k, b) ==
  /\ caller[k].phase = "idle"
  /\ bag[b] = "REDEEMED"
  /\ Doing(k, "clearing", {b})
  /\ UNCHANGED <<queue, bag>>

-----------------------------------------------------------------------------
(* useGlobalRedeemSync, reconcileOnce                                      *)

SyncLists(k) ==
  /\ caller[k].phase = "idle"
  /\ queue # {}
  /\ Doing(k, "fetching", queue)
  /\ UNCHANGED <<queue, bag>>

(* Mutant of Reconciled: the list is trusted only when all of it is done.  *)
ReconciledTogether(todo) ==
  IF \A b \in todo : bag[b] = "REDEEMED" THEN todo ELSE {}

Reconciled(todo) == {b \in todo : bag[b] = "REDEEMED"}

SyncFetches(k) ==
  /\ caller[k].phase = "fetching"
  /\ Doing(k, "clearing", Reconciled(caller[k].todo))
  /\ UNCHANGED <<queue, bag>>

SyncIsOffline(k) ==
  /\ caller[k].phase = "fetching"
  /\ caller' = [caller EXCEPT ![k] = NoRedeemCall]
  /\ UNCHANGED <<queue, bag>>

-----------------------------------------------------------------------------
(* Staff redeem in the merchant panel; the no-show sweep.                  *)
ServerEnds(b) ==
  /\ bag[b] = "CONFIRMED"
  /\ \E status \in {"REDEEMED", "NO_SHOW"} : bag' = [bag EXCEPT ![b] = status]
  /\ UNCHANGED <<queue, caller>>

QueueSteps(k) == QueueReads(k) \/ QueueWrites(k) \/ ClearReads(k) \/ ClearWrites(k)

RedeemNext ==
  \/ \E k \in Callers : QueueSteps(k)
  \/ \E k \in Screens, b \in Pickups : Swipe(k, b) \/ ScreenReconciles(k, b)
  \/ \E k \in Syncs : SyncLists(k) \/ SyncFetches(k) \/ SyncIsOffline(k)
  \/ \E b \in Pickups : ServerEnds(b)

(* The app is open and its network comes back again and again.             *)
RedeemSpec ==
  /\ RedeemInit /\ [][RedeemNext]_redeemVars
  /\ \A k \in Callers : WF_redeemVars(QueueSteps(k))
  /\ \A k \in Syncs : WF_redeemVars(SyncLists(k)) /\ SF_redeemVars(SyncFetches(k))

-----------------------------------------------------------------------------
(* Properties                                                              *)

(* A swipe that the server knows to be redeemed leaves the queue, though a *)
(* stale write of another call may bring it back, and though a swipe next  *)
(* to it in the queue became a no-show and stays there.                    *)
RedeemedIsCleared ==
  \A b \in Pickups : bag[b] = "REDEEMED" /\ b \in queue ~> b \notin queue
=============================================================================
