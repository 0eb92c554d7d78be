---------------------------- MODULE OutboxPromise ----------------------------
(***************************************************************************)
(* What the transactional outbox promises, with workers, leases and        *)
(* batches left out: an event is handled at least once before it counts as *)
(* done, it is given up only when its tries are used up or nobody handles  *)
(* its type, and what is done or given up is final.  OutboxWorker          *)
(* implements this module.                                                 *)
(***************************************************************************)
EXTENDS Naturals

CONSTANTS
  Events,       \* rows of outbox_events
  Unhandled,    \* those whose type no handler is registered for
  MaxAttempts   \* MAX_OUTBOX_ATTEMPTS

VARIABLES
  outcome,   \* what became of an event
  tries,     \* how often a worker took it on
  applied    \* the events whose handler has had its effect

promiseVars == <<outcome, tries, applied>>

PromiseInit ==
  /\ outcome = [e \in Events |-> "absent"]
  /\ tries = [e \in Events |-> 0]
  /\ applied = {}

Announce(e) ==
  /\ outcome[e] = "absent"
  /\ outcome' = [outcome EXCEPT ![e] = "pending"]
  /\ UNCHANGED <<tries, applied>>

(* A worker takes several pending events on at once.                       *)
Try(S) ==
  /\ \A e \in S : outcome[e] = "pending" /\ tries[e] < MaxAttempts
  /\ tries' = [e \in Events |-> IF e \in S THEN tries[e] + 1 ELSE tries[e]]
  /\ UNCHANGED <<outcome, applied>>

(* Delivery is at least once: also of an event that is done by now.        *)
Apply(e) ==
  /\ tries[e] > 0
  /\ e \notin Unhandled
  /\ applied' = applied \cup {e}
  /\ UNCHANGED <<outcome, tries>>

Finish(e) ==
  /\ outcome[e] = "pending"
  /\ e \in applied
  /\ outcome' = [outcome EXCEPT ![e] = "done"]
  /\ UNCHANGED <<tries, applied>>

GiveUp(S) ==
  /\ \A e \in S : /\ outcome[e] = "pending"
                  /\ tries[e] = MaxAttempts \/ e \in Unhandled
  /\ outcome' = [e \in Events |-> IF e \in S THEN "dead" ELSE outcome[e]]
  /\ UNCHANGED <<tries, applied>>

PromiseNext ==
  \/ \E e \in Events : Announce(e) \/ Apply(e) \/ Finish(e)
  \/ \E S \in SUBSET Events : Try(S) \/ GiveUp(S)

PromiseSpec == PromiseInit /\ [][PromiseNext]_promiseVars
=============================================================================
