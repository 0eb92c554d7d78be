---------------------------- MODULE OutboxWorker ----------------------------
(***************************************************************************)
(* The outbox drain: rows of outbox_events, and the drains that claim a    *)
(* batch, renew the claim of each event before they handle it, and write   *)
(* down how it went.  Time is two events: a claim outlives its lease, and  *)
(* nextAttemptAt or scheduledFor arrives.  claimedAt is a stamp: the code  *)
(* compares it for equality, and for age, which is `expired`.              *)
(***************************************************************************)
EXTENDS Naturals, FiniteSets

CONSTANTS
  Events,        \* ids of outbox_events rows; a lower id is older
  Unhandled,     \* events whose type no handler is registered for
  Workers,       \* bound: drains that run at the same time, on any replica
  MaxAttempts,   \* MAX_OUTBOX_ATTEMPTS
  BatchSize      \* OUTBOX_BATCH_SIZE

ASSUME OutboxAssumption ==
  /\ Events \subseteq Nat
  /\ Unhandled \subseteq Events
  /\ MaxAttempts \in Nat \ {0}
  /\ BatchSize \in Nat \ {0}

VARIABLES
  row,      \* the outbox_events rows
  drain,    \* what each worker's drainOnce is doing
  applied   \* events whose handler has had its effect (push sent, row written)

outboxVars == <<row, drain, applied>>

-----------------------------------------------------------------------------
OutboxStatuses == {"absent", "queued", "processing", "done", "dead"}

OutboxRow == [status : OutboxStatuses, attempts : 0 .. MaxAttempts, claimedAt : 0 .. 2 * MaxAttempts,
        expired : BOOLEAN, due : BOOLEAN]

(* What a worker remembers of a row it claimed (RETURNING).                *)
Claim == [event : Events, claimedAt : 0 .. 2 * MaxAttempts, attempts : 0 .. MaxAttempts]

DrainPhases == {"idle", "claiming", "dispatching", "handling", "handled", "threw"}

(* batch: claims not yet dispatched.  current: the claim being dispatched, *)
(* as a set of at most one.  outlived: its lease ran out meanwhile.        *)
Drain == [phase : DrainPhases, batch : SUBSET Claim, current : SUBSET Claim,
          outlived : BOOLEAN]

IdleDrain == [phase |-> "idle", batch |-> {}, current |-> {}, outlived |-> FALSE]

OutboxTypeOK ==
  /\ row \in [Events -> OutboxRow]
  /\ drain \in [Workers -> Drain]
  /\ applied \subseteq Events \ Unhandled

OutboxInit ==
  /\ row = [e \in Events |->
              [status |-> "absent", attempts |-> 0, claimedAt |-> 0,
               expired |-> FALSE, due |-> FALSE]]
  /\ drain = [w \in Workers |-> IdleDrain]
  /\ applied = {}

-----------------------------------------------------------------------------
(* Producers and time                                                      *)

(* The producer's transaction commits; scheduledFor may lie ahead.         *)
Publish(e) ==
  /\ row[e].status = "absent"
  /\ \E due \in BOOLEAN :
       row' = [row EXCEPT ![e].status = "queued", ![e].due = due]
  /\ UNCHANGED <<drain, applied>>

BecomesDue(e) ==
  /\ row[e].status = "queued"
  /\ ~row[e].due
  /\ row' = [row EXCEPT ![e].due = TRUE]
  /\ UNCHANGED <<drain, applied>>

Holds(w, e) ==
  \E c \in drain[w].current : c.event = e /\ c.claimedAt = row[e].claimedAt

(* Five minutes pass since claimedAt, whatever the claimant is doing.      *)
LeaseExpires(e) ==
  /\ row[e].status = "processing"
  /\ ~row[e].expired
  /\ row' = [row EXCEPT ![e].expired = TRUE]
  /\ drain' = [w \in Workers |->
                 IF Holds(w, e) THEN [drain[w] EXCEPT !.outlived = TRUE]
                 ELSE drain[w]]
  /\ UNCHANGED applied

-----------------------------------------------------------------------------
(* One tick: reap, claim, then dispatch one event after the other          *)

Exhausted ==
  {e \in Events : /\ row[e].status = "processing"
                  /\ row[e].expired
                  /\ row[e].attempts >= MaxAttempts}

(* Mutant of Reap: the statement matches nothing.                          *)
ReapNothing(w) ==
  /\ drain[w].phase = "idle"
  /\ drain' = [drain EXCEPT ![w].phase = "claiming"]
  /\ UNCHANGED <<row, applied>>

Reap(w) ==
  /\ drain[w].phase = "idle"
  /\ \E S \in SUBSET Exhausted :
       /\ Cardinality(S) <= BatchSize
       /\ S = Exhausted \/ Cardinality(S) = BatchSize
       /\ row' = [e \in Events |->
                    IF e \in S THEN [row[e] EXCEPT !.status = "dead"] ELSE row[e]]
  /\ drain' = [drain EXCEPT ![w].phase = "claiming"]
  /\ UNCHANGED applied

(* Mutant of Claimable: no ceiling on reclaims.                            *)
ClaimableForEver ==
  {e \in Events : \/ row[e].status = "queued" /\ row[e].due
                  \/ row[e].status = "processing" /\ row[e].expired}

Claimable ==
  {e \in Events :
     \/ row[e].status = "queued" /\ row[e].due
     \/ /\ row[e].status = "processing"
        /\ row[e].expired
        /\ row[e].attempts < MaxAttempts}

(* The oldest rows first, up to the limit.                                 *)
NextBatch ==
  {e \in Claimable : Cardinality({f \in Claimable : f < e}) < BatchSize}

Claimed(r) ==
  [r EXCEPT !.status = "processing", !.attempts = r.attempts + 1,
            !.claimedAt = r.claimedAt + 1, !.expired = FALSE]

ClaimOf(e, r) == [event |-> e, claimedAt |-> r.claimedAt, attempts |-> r.attempts]

ClaimBatch(w) ==
  /\ drain[w].phase = "claiming"
  /\ row' = [e \in Events |-> IF e \in NextBatch THEN Claimed(row[e]) ELSE row[e]]
  /\ drain' = [drain EXCEPT
                 ![w].phase = "dispatching",
                 ![w].batch = {ClaimOf(e, Claimed(row[e])) : e \in NextBatch}]
  /\ UNCHANGED applied

StillClaimed(c) ==
  row[c.event].status = "processing" /\ row[c.event].claimedAt = c.claimedAt

(* Mutant of TouchClaim: the renewal asks for the status only.             *)
TouchProcessing(w, c) ==
  /\ drain[w].phase = "dispatching"
  /\ c \in drain[w].batch
  /\ row[c.event].status = "processing"
  /\ LET renewed == [row[c.event] EXCEPT !.claimedAt = @ + 1, !.expired = FALSE]
     IN /\ row' = [row EXCEPT ![c.event] = renewed]
        /\ drain' = [drain EXCEPT ![w] =
             [phase |-> "handling", batch |-> @.batch \ {c},
              current |-> {ClaimOf(c.event, renewed)}, outlived |-> FALSE]]
  /\ UNCHANGED applied

(* dispatchOne renews the claim and goes on with what RETURNING says.      *)
TouchClaim(w, c) ==
  /\ drain[w].phase = "dispatching"
  /\ c \in drain[w].batch
  /\ StillClaimed(c)
  /\ LET renewed == [row[c.event] EXCEPT !.claimedAt = @ + 1, !.expired = FALSE]
     IN /\ row' = [row EXCEPT ![c.event] = renewed]
        /\ drain' = [drain EXCEPT ![w] =
             [phase |-> "handling", batch |-> @.batch \ {c},
              current |-> {ClaimOf(c.event, renewed)}, outlived |-> FALSE]]
  /\ UNCHANGED applied

(* Someone else renewed the claim: "skipped".                              *)
Skip(w, c) ==
  /\ drain[w].phase = "dispatching"
  /\ c \in drain[w].batch
  /\ ~StillClaimed(c)
  /\ drain' = [drain EXCEPT ![w].batch = @ \ {c}]
  /\ UNCHANGED <<row, applied>>

EndBatch(w) ==
  /\ drain[w].phase = "dispatching"
  /\ drain[w].batch = {}
  /\ drain' = [drain EXCEPT ![w] = IdleDrain]
  /\ UNCHANGED <<row, applied>>

HandlerSucceeds(w) ==
  /\ drain[w].phase = "handling"
  /\ \E c \in drain[w].current :
       /\ c.event \notin Unhandled
       /\ applied' = applied \cup {c.event}
  /\ drain' = [drain EXCEPT ![w].phase = "handled"]
  /\ UNCHANGED row

(* It throws, before its effect or, when only the answer is lost, after.   *)
HandlerThrows(w) ==
  /\ drain[w].phase = "handling"
  /\ \E c \in drain[w].current :
       /\ c.event \notin Unhandled
       /\ applied' \in {applied, applied \cup {c.event}}
  /\ drain' = [drain EXCEPT ![w].phase = "threw"]
  /\ UNCHANGED row

NextDispatch(w) ==
  [drain EXCEPT ![w] = [@ EXCEPT !.phase = "dispatching", !.current = {},
                                 !.outlived = FALSE]]

(* Mutant of Mark: the update asks for the id only.                        *)
MarkById(w, c, r) ==
  /\ row' = [row EXCEPT ![c.event] = r]
  /\ drain' = NextDispatch(w)
  /\ UNCHANGED applied

(* Every mark is an update guarded by the status and by claimedAt.         *)
Mark(w, c, r) ==
  /\ row' = IF StillClaimed(c) THEN [row EXCEPT ![c.event] = r] ELSE row
  /\ drain' = NextDispatch(w)
  /\ UNCHANGED applied

MarkDone(w) ==
  /\ drain[w].phase = "handled"
  /\ \E c \in drain[w].current :
       Mark(w, c, [row[c.event] EXCEPT !.status = "done"])

(* The only statement whose failure dispatchOne swallows.                  *)
MarkDoneFails(w) ==
  /\ drain[w].phase = "handled"
  /\ drain' = NextDispatch(w)
  /\ UNCHANGED <<row, applied>>

MarkRetry(w) ==
  /\ drain[w].phase = "threw"
  /\ \E c \in drain[w].current :
       /\ c.attempts < MaxAttempts
       /\ Mark(w, c, [row[c.event] EXCEPT !.status = "queued", !.due = FALSE])

MarkDead(w) ==
  \E c \in drain[w].current :
    /\ \/ drain[w].phase = "threw" /\ c.attempts >= MaxAttempts
       \/ drain[w].phase = "handling" /\ c.event \in Unhandled
    /\ Mark(w, c, [row[c.event] EXCEPT !.status = "dead"])

(* The process dies, or a statement throws out of drainOnce: the rest of   *)
(* the batch stays claimed.                                                *)
Abandon(w) ==
  /\ drain[w].phase \in DrainPhases \ {"idle", "claiming"}
  /\ drain' = [drain EXCEPT ![w] = IdleDrain]
  /\ UNCHANGED <<row, applied>>

-----------------------------------------------------------------------------
DrainStep(w) ==
  \/ Reap(w)
  \/ ClaimBatch(w)
  \/ \E c \in drain[w].batch : TouchClaim(w, c) \/ Skip(w, c)
  \/ EndBatch(w)
  \/ HandlerSucceeds(w) \/ HandlerThrows(w)
  \/ MarkDone(w) \/ MarkDoneFails(w) \/ MarkRetry(w) \/ MarkDead(w)

OutboxNext ==
  \/ \E e \in Events : Publish(e) \/ BecomesDue(e) \/ LeaseExpires(e)
  \/ \E w \in Workers : DrainStep(w) \/ Abandon(w)

OutboxSpec == OutboxInit /\ [][OutboxNext]_outboxVars

(* Cron ticks keep coming, a handler returns (its provider calls have      *)
(* timeouts), and time passes.  Workers may still die as often as they     *)
(* like, and every handler may always throw.                               *)
OutboxFairness ==
  /\ \A w \in Workers : WF_outboxVars(DrainStep(w))
  /\ \A e \in Events : WF_outboxVars(BecomesDue(e)) /\ WF_outboxVars(LeaseExpires(e))

OutboxFairSpec == OutboxSpec /\ OutboxFairness

-----------------------------------------------------------------------------
(* Properties                                                              *)

InDispatch == {"handling", "handled", "threw"}

(* Two workers are between the start of an event's handler and its mark at *)
(* the same time only when one of them has outlived its own lease: a claim *)
(* that merely waited behind a slow sibling in its batch is given up, never*)
(* dispatched (touchClaim, "leg (a)").                                     *)
NoOverlapWithinLease ==
  \A v, w \in Workers :
    \A c \in drain[v].current, d \in drain[w].current :
      v # w /\ c.event = d.event => drain[v].outlived \/ drain[w].outlived

(* While a worker dispatches an event within its lease, only its own steps *)
(* change the row: no late mark of an earlier claimant, no reclaim and no  *)
(* reaper gets in between.                                                 *)
LiveClaimIsOwned ==
  [][\A w \in Workers : \A c \in drain[w].current :
       ~drain[w].outlived /\ row'[c.event] # row[c.event]
         => drain'[w] # drain[w]]_outboxVars

(* Every published event ends, done or dead, though workers die and        *)
(* handlers throw without end.                                             *)
EveryEventSettles ==
  \A e \in Events :
    row[e].status # "absent" ~> row[e].status \in {"done", "dead"}

(* The abstract account of it.                                             *)
OutboxOutcome ==
  [e \in Events |-> IF row[e].status \in {"queued", "processing"} THEN "pending"
                    ELSE row[e].status]

OutboxTries == [e \in Events |-> row[e].attempts]

Promise == INSTANCE OutboxPromise WITH outcome <- OutboxOutcome, tries <- OutboxTries

(* The drain implements OutboxPromise: done only after the handler had its *)
(* effect, dead only after MAX_OUTBOX_ATTEMPTS claims or without a handler,*)
(* and both for good.                                                      *)
KeepsPromise == Promise!PromiseSpec
=============================================================================
