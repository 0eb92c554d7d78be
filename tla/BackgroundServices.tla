------------------------- MODULE BackgroundServices -------------------------
(***************************************************************************)
(* The services that owe something to the passage of time, side by side:   *)
(* the outbox worker, the complaint SLA sweep and the consumer app's queue *)
(* of redemptions.  As in RequestServices, none reads what another writes. *)
(***************************************************************************)
EXTENDS OutboxWorker, Complaints, RedeemQueue

VARIABLE loop   \* the one that moves

backgroundVars == <<outboxVars, complaintVars, redeemVars, loop>>

Loops == {"outbox", "complaints", "redeem"}

BackgroundInit ==
  /\ loop \in Loops
  /\ OutboxInit /\ ComplaintsInit /\ RedeemInit

Turns(s) ==
  /\ loop = s
  /\ UNCHANGED loop
  /\ s # "outbox" => UNCHANGED outboxVars
  /\ s # "complaints" => UNCHANGED complaintVars
  /\ s # "redeem" => UNCHANGED redeemVars

BackgroundNext ==
  \/ Turns("outbox") /\ OutboxNext
  \/ Turns("complaints") /\ ComplaintsNext
  \/ Turns("redeem") /\ RedeemNext

(* The fairness of OutboxFairSpec, ComplaintsSpec and RedeemSpec.          *)
BackgroundFairness ==
  /\ \A w \in Workers : WF_backgroundVars(Turns("outbox") /\ DrainStep(w))
  /\ \A e \in Events :
       /\ WF_backgroundVars(Turns("outbox") /\ BecomesDue(e))
       /\ WF_backgroundVars(Turns("outbox") /\ LeaseExpires(e))
  /\ \A s \in SlaSweeps : WF_backgroundVars(Turns("complaints") /\ SlaSweepSteps(s))
  /\ \A k \in Callers : WF_backgroundVars(Turns("redeem") /\ QueueSteps(k))
  /\ \A k \in Syncs :
       /\ WF_backgroundVars(Turns("redeem") /\ SyncLists(k))
       /\ SF_backgroundVars(Turns("redeem") /\ SyncFetches(k))

BackgroundSpec ==
  BackgroundInit /\ [][BackgroundNext]_backgroundVars /\ BackgroundFairness

BackgroundTypeOK ==
  /\ loop \in Loops
  /\ OutboxTypeOK /\ ComplaintsTypeOK /\ RedeemTypeOK
=============================================================================
