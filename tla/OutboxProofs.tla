---------------------------- MODULE OutboxProofs ----------------------------
(***************************************************************************)
(* The drain for any events, workers, attempts and batches: the claims two *)
(* workers remember are never of the same stamp, so a worker within its    *)
(* lease owns the row it dispatches, and the drain implements              *)
(* OutboxPromise.                                                          *)
(***************************************************************************)
EXTENDS OutboxWorker, Integers, TLAPS

Claims(w) == drain[w].batch \cup drain[w].current

(* Attempts are left for what is queued; a claim stamps a row at most      *)
(* twice, when it takes it and when it renews it.                          *)
RowOK(e) ==
  /\ row[e].status = "absent" => row[e].attempts = 0
  /\ row[e].status = "queued" => row[e].attempts < MaxAttempts
  /\ row[e].claimedAt <= 2 * row[e].attempts

(* A claim is not younger than its row, and knows it if it is as young.    *)
ClaimOK(c) ==
  /\ c.claimedAt <= row[c.event].claimedAt
  /\ row[c.event].attempts > 0
  /\ c.claimedAt = row[c.event].claimedAt => c.attempts = row[c.event].attempts

(* One that waits has a renewal left.                                      *)
BatchOK(c) ==
  c.claimedAt = row[c.event].claimedAt => c.claimedAt < 2 * c.attempts

(* Within its lease the row is as the worker left it.                      *)
Owned(w) ==
  \A c \in drain[w].current : ~drain[w].outlived =>
    /\ row[c.event].status = "processing"
    /\ row[c.event].claimedAt = c.claimedAt
    /\ ~row[c.event].expired

DrainOK(w) ==
  /\ \A c, d \in drain[w].current : c = d
  /\ drain[w].phase = "handled" => \A c \in drain[w].current : c.event \in applied

(* No two workers hold a claim of the same stamp.                          *)
Apart(v, w) ==
  \A c \in Claims(v), d \in Claims(w) :
    c.event = d.event /\ c.claimedAt = d.claimedAt => v = w /\ c = d

RowsOK == \A e \in Events : RowOK(e)
ClaimsOK ==
  \A w \in Workers :
    /\ \A c \in Claims(w) : ClaimOK(c)
    /\ \A c \in drain[w].batch : BatchOK(c)
DrainsOK == \A w \in Workers : DrainOK(w) /\ Owned(w)
AllApart == \A v, w \in Workers : Apart(v, w)

OutboxInv == OutboxTypeOK /\ RowsOK /\ ClaimsOK /\ DrainsOK /\ AllApart

-----------------------------------------------------------------------------
(* There are no events and no drains yet.                                  *)
LEMMA OutboxInit_Inv == OutboxInit => OutboxInv
BY OutboxAssumption DEF OutboxInit, OutboxInv, OutboxTypeOK, RowsOK, ClaimsOK, DrainsOK,
   AllApart, RowOK, DrainOK, Owned, Apart, Claims, IdleDrain, OutboxRow, OutboxStatuses,
   Drain, DrainPhases

(* Steps of one drain that leave the rows alone and forget claims.         *)
LEMMA ForgetsClaims ==
  ASSUME OutboxInv, NEW w \in Workers, NEW d \in Drain,
         drain' = [drain EXCEPT ![w] = d],
         d.batch \subseteq drain[w].batch,
         d.current = drain[w].current \/ d.current = {},
         d.outlived = drain[w].outlived \/ d.current = {},
         d.phase = "handled" => \A c \in d.current : c.event \in applied',
         row' = row, applied \subseteq applied', applied' \subseteq Events \ Unhandled
  PROVE  OutboxInv'
<1>1. \A v \in Workers : /\ drain'[v].batch \subseteq drain[v].batch
                         /\ drain'[v].current \subseteq drain[v].current
                         /\ drain'[v].outlived = drain[v].outlived \/ drain'[v].current = {}
                         /\ drain'[v].phase = drain[v].phase \/ drain'[v] = d
                         /\ Claims(v)' \subseteq Claims(v)
  BY DEF OutboxInv, OutboxTypeOK, Claims
<1>2. OutboxTypeOK'
  BY DEF OutboxInv, OutboxTypeOK
<1>3. RowsOK'
  BY DEF OutboxInv, RowsOK, RowOK
<1>4. ClaimsOK'
  BY <1>1 DEF OutboxInv, ClaimsOK, ClaimOK, BatchOK
<1>5. DrainsOK'
  BY <1>1 DEF OutboxInv, DrainsOK, DrainOK, Owned
<1>6. AllApart'
  BY <1>1 DEF OutboxInv, AllApart, Apart
<1> QED BY <1>2, <1>3, <1>4, <1>5, <1>6 DEF OutboxInv

(* Steps that write rows without a new stamp, and no row that a worker     *)
(* within its lease owns; drains forget claims or learn that they are late.*)
LEMMA KeepsStamps ==
  ASSUME OutboxInv,
         row' \in [Events -> OutboxRow],
         drain' \in [Workers -> Drain],
         \A e \in Events : /\ row'[e].attempts = row[e].attempts
                           /\ row'[e].claimedAt = row[e].claimedAt
                           /\ RowOK(e)',
         \A w \in Workers :
           /\ drain'[w].batch \subseteq drain[w].batch
           /\ drain'[w].current \subseteq drain[w].current
           /\ drain'[w].phase = "handled" => drain[w].phase = "handled"
           /\ \A c \in drain'[w].current : ~drain'[w].outlived =>
                /\ ~drain[w].outlived
                /\ row'[c.event] = row[c.event],
         applied' = applied
  PROVE  OutboxInv'
<1>1. \A w \in Workers : Claims(w)' \subseteq Claims(w)
  BY DEF Claims
<1>2. \A w \in Workers : \A c \in Claims(w) : c.event \in Events
  BY DEF OutboxInv, OutboxTypeOK, Claims, Drain, Claim
<1>3. OutboxTypeOK'
  BY DEF OutboxInv, OutboxTypeOK
<1>4. RowsOK'
  BY DEF RowsOK
<1>5. ClaimsOK'
  BY <1>1, <1>2 DEF OutboxInv, ClaimsOK, ClaimOK, BatchOK, Claims
<1>6. DrainsOK'
  BY <1>1 DEF OutboxInv, DrainsOK, DrainOK, Owned
<1>7. AllApart'
  BY <1>1 DEF OutboxInv, AllApart, Apart
<1> QED BY <1>3, <1>4, <1>5, <1>6, <1>7 DEF OutboxInv

(* A new row is claimed by no one.                                         *)
LEMMA PublishKeeps == ASSUME OutboxInv, NEW e \in Events, Publish(e) PROVE OutboxInv'
<1> USE DEF OutboxInv, OutboxTypeOK, RowsOK
<1> PICK due \in BOOLEAN : row' = [row EXCEPT ![e].status = "queued", ![e].due = due]
  BY DEF Publish
<1> DEFINE published == [row[e] EXCEPT !.status = "queued", !.due = due]
<1>a. row' = [row EXCEPT ![e] = published]
  OBVIOUS
<1>b. /\ published \in OutboxRow /\ published.attempts = row[e].attempts
      /\ published.claimedAt = row[e].claimedAt /\ published.status = "queued"
  BY DEF OutboxRow, OutboxStatuses
<1> HIDE DEF published
<1>1. /\ row' \in [Events -> OutboxRow] /\ drain' \in [Workers -> Drain]
      /\ \A f \in Events : /\ row'[f].attempts = row[f].attempts
                           /\ row'[f].claimedAt = row[f].claimedAt
                           /\ f # e => row'[f] = row[f]
      /\ row'[e].status = "queued"
  BY <1>a, <1>b DEF Publish
<1>2. \A f \in Events : RowOK(f)'
  BY <1>1, OutboxAssumption DEF Publish, RowOK, OutboxRow
<1>3. \A w \in Workers : \A c \in drain[w].current :
        ~drain[w].outlived => row'[c.event] = row[c.event]
  BY <1>1 DEF Publish, DrainsOK, Owned, Drain, Claim
<1> QED BY <1>1, <1>2, <1>3, KeepsStamps DEF Publish

(* The backoff of a queued row ends.                                       *)
LEMMA BecomesDueKeeps == ASSUME OutboxInv, NEW e \in Events, BecomesDue(e) PROVE OutboxInv'
<1> USE DEF OutboxInv, OutboxTypeOK, RowsOK
<1>1. /\ row' \in [Events -> OutboxRow] /\ drain' \in [Workers -> Drain]
      /\ \A f \in Events : /\ row'[f].attempts = row[f].attempts
                           /\ row'[f].claimedAt = row[f].claimedAt
                           /\ row'[f].status = row[f].status
                           /\ f # e => row'[f] = row[f]
  BY DEF BecomesDue, OutboxRow, OutboxStatuses
<1>2. \A f \in Events : RowOK(f)'
  BY <1>1 DEF RowOK
<1>3. \A w \in Workers : \A c \in drain[w].current :
        ~drain[w].outlived => row'[c.event] = row[c.event]
  BY <1>1 DEF BecomesDue, DrainsOK, Owned, Drain, Claim
<1> QED BY <1>1, <1>2, <1>3, KeepsStamps DEF BecomesDue

(* A lease that runs out leaves the row as it was claimed.                 *)
LEMMA LeaseExpiresKeeps == ASSUME OutboxInv, NEW e \in Events, LeaseExpires(e) PROVE OutboxInv'
<1> USE DEF OutboxInv, OutboxTypeOK, RowsOK
<1>1. /\ row' \in [Events -> OutboxRow]
      /\ \A f \in Events : /\ row'[f].attempts = row[f].attempts
                           /\ row'[f].claimedAt = row[f].claimedAt
                           /\ row'[f].status = row[f].status
                           /\ f # e => row'[f] = row[f]
  BY DEF LeaseExpires, OutboxRow, OutboxStatuses
<1>2. \A f \in Events : RowOK(f)'
  BY <1>1 DEF RowOK
<1>3. /\ drain' \in [Workers -> Drain]
      /\ \A w \in Workers :
           /\ drain'[w].batch = drain[w].batch
           /\ drain'[w].current = drain[w].current
           /\ drain'[w].phase = drain[w].phase
           /\ ~drain'[w].outlived => ~drain[w].outlived /\ ~Holds(w, e)
  BY DEF LeaseExpires, Drain
<1>4. \A w \in Workers : \A c \in drain[w].current :
        ~drain'[w].outlived => row'[c.event] = row[c.event]
  BY <1>1, <1>3 DEF DrainsOK, Owned, Holds, Drain, Claim
<1> QED BY <1>1, <1>2, <1>3, <1>4, KeepsStamps DEF LeaseExpires

(* The reaper takes only rows whose lease has run out.                     *)
LEMMA ReapKeeps == ASSUME OutboxInv, NEW w \in Workers, Reap(w) PROVE OutboxInv'
<1> USE DEF OutboxInv, OutboxTypeOK, RowsOK
<1>1. PICK S \in SUBSET Exhausted :
        row' = [e \in Events |->
                  IF e \in S THEN [row[e] EXCEPT !.status = "dead"] ELSE row[e]]
  BY DEF Reap
<1>2. /\ row' \in [Events -> OutboxRow]
      /\ \A f \in Events : /\ row'[f].attempts = row[f].attempts
                           /\ row'[f].claimedAt = row[f].claimedAt
                           /\ row'[f].status \in {"dead", row[f].status}
                           /\ ~row[f].expired => row'[f] = row[f]
  BY <1>1 DEF Exhausted, OutboxRow, OutboxStatuses
<1>3. \A f \in Events : RowOK(f)'
  BY <1>2 DEF RowOK
<1>4. /\ drain' \in [Workers -> Drain]
      /\ \A v \in Workers :
           /\ drain'[v].batch = drain[v].batch
           /\ drain'[v].current = drain[v].current
           /\ drain'[v].outlived = drain[v].outlived
           /\ drain'[v].phase \in {"claiming", drain[v].phase}
  BY DEF Reap, Drain, DrainPhases
<1>5. \A v \in Workers : \A c \in drain[v].current :
        ~drain[v].outlived => row'[c.event] = row[c.event]
  BY <1>2 DEF DrainsOK, Owned, Drain, Claim
<1> QED BY <1>2, <1>3, <1>4, <1>5, KeepsStamps DEF Reap

(* Every mark: its row, if still claimed, gets a status that fits.         *)
LEMMA MarkKeeps ==
  ASSUME OutboxInv, NEW w \in Workers, NEW c \in drain[w].current,
         NEW r \in OutboxRow, Mark(w, c, r),
         r.attempts = row[c.event].attempts,
         r.claimedAt = row[c.event].claimedAt,
         r.status \in {"done", "dead", "queued"},
         r.status = "queued" => c.attempts < MaxAttempts
  PROVE  OutboxInv'
<1> USE DEF OutboxInv, OutboxTypeOK, RowsOK
<1>1. c \in Claims(w) /\ c.event \in Events /\ c.attempts \in Nat /\ ClaimOK(c)
  BY OutboxAssumption DEF Claims, Drain, Claim, ClaimsOK
<1>2. /\ row' \in [Events -> OutboxRow]
      /\ \A f \in Events : /\ row'[f].attempts = row[f].attempts
                           /\ row'[f].claimedAt = row[f].claimedAt
                           /\ f # c.event => row'[f] = row[f]
      /\ row'[c.event] = IF StillClaimed(c) THEN r ELSE row[c.event]
  BY <1>1 DEF Mark
<1>3. \A f \in Events : RowOK(f)'
  BY <1>1, <1>2 DEF RowOK, StillClaimed, ClaimOK
<1>4. /\ drain' \in [Workers -> Drain]
      /\ \A v \in Workers \ {w} : drain'[v] = drain[v]
      /\ drain'[w].batch = drain[w].batch
      /\ drain'[w].current = {}
      /\ drain'[w].phase = "dispatching"
  BY DEF Mark, NextDispatch, Drain, DrainPhases
<1>5. \A v \in Workers : \A d \in drain'[v].current :
        ~drain'[v].outlived => ~drain[v].outlived /\ row'[d.event] = row[d.event]
  <2> SUFFICES ASSUME NEW v \in Workers \ {w}, NEW d \in drain[v].current,
                      ~drain[v].outlived, d.event = c.event, StillClaimed(c)
               PROVE  FALSE
    BY <1>1, <1>2, <1>4 DEF Drain, Claim
  <2>1. d.claimedAt = c.claimedAt
    BY DEF DrainsOK, Owned, StillClaimed
  <2> QED BY <2>1 DEF AllApart, Apart, Claims
<1> QED BY <1>2, <1>3, <1>4, <1>5, KeepsStamps DEF Mark

(* A step of w that stamps the rows S and comes by the claims new.         *)
Stamps(w, S, d, new) ==
  /\ row' \in [Events -> OutboxRow]
  /\ drain' = [drain EXCEPT ![w] = d]
  /\ applied' = applied
  /\ \A e \in Events \ S : row'[e] = row[e]
  /\ \A e \in S : /\ row'[e].claimedAt > row[e].claimedAt
                  /\ row'[e].attempts >= row[e].attempts
                  /\ row'[e].attempts > 0
                  /\ row'[e].status = "processing"
                  /\ row'[e].claimedAt <= 2 * row'[e].attempts
                  /\ ~row'[e].expired
  /\ \A c \in new : /\ c.event \in S
                    /\ c.claimedAt = row'[c.event].claimedAt
                    /\ c.attempts = row'[c.event].attempts
  /\ \A a, b \in new : a.event = b.event => a = b
  /\ \A c \in d.batch : \/ c \in drain[w].batch
                        \/ c \in new /\ c.claimedAt < 2 * c.attempts
  /\ \/ d.current = drain[w].current /\ d.outlived = drain[w].outlived
     \/ \E c \in new : d.current = {c}
  /\ d.phase # "handled"
  /\ \A v \in Workers : \A c \in drain[v].current :
       c.event \in S => drain[v].outlived \/ (v = w /\ d.current \subseteq new)

(* A stamp is younger than every claim on its row, so the claims that come *)
(* with it are apart from all others.                                      *)
LEMMA NewStamps ==
  ASSUME OutboxInv, NEW w \in Workers, NEW S \in SUBSET Events, NEW d \in Drain,
         NEW new \in SUBSET Claim, Stamps(w, S, d, new)
  PROVE  OutboxInv'
<1> USE DEF OutboxInv, OutboxTypeOK, Stamps
<1>1. OutboxTypeOK'
  OBVIOUS
<1>2. \A v \in Workers : \A c \in Claims(v) :
        /\ c \in Claim /\ c.event \in Events
        /\ c.claimedAt \in Int /\ c.attempts \in Int
  BY DEF Claims, Drain, Claim
<1>3. \A e \in Events :
        /\ row[e].claimedAt \in Int /\ row[e].attempts \in Int
        /\ row'[e].claimedAt \in Int /\ row'[e].attempts \in Int
        /\ row'[e].claimedAt >= row[e].claimedAt
        /\ row'[e].attempts >= row[e].attempts
  BY DEF OutboxRow
<1>4. /\ \A v \in Workers : Claims(v)' \subseteq Claims(v) \cup (IF v = w THEN new ELSE {})
      /\ \A v \in Workers \ {w} : drain'[v] = drain[v]
      /\ drain'[w] = d
  BY DEF Claims
<1>5. RowsOK'
  BY <1>3 DEF RowsOK, RowOK
<1>6. ClaimsOK'
  <2>1. \A v \in Workers : \A c \in Claims(v) : ClaimOK(c)'
    BY <1>2, <1>3 DEF ClaimsOK, ClaimOK
  <2>2. \A c \in new : ClaimOK(c)'
    BY <1>3 DEF ClaimOK
  <2>3. \A v \in Workers : \A c \in drain[v].batch : BatchOK(c)'
    BY <1>2, <1>3 DEF ClaimsOK, ClaimOK, BatchOK, Claims
  <2>4. \A c \in d.batch : BatchOK(c)'
    BY <2>3 DEF BatchOK
  <2> QED BY <1>4, <2>1, <2>2, <2>3, <2>4 DEF ClaimsOK
<1>7. DrainsOK'
  <2>1. ASSUME NEW v \in Workers PROVE DrainOK(v)'
    BY <1>4 DEF DrainsOK, DrainOK
  <2>2. ASSUME NEW v \in Workers, NEW c \in drain'[v].current, ~drain'[v].outlived
        PROVE  /\ row'[c.event].status = "processing"
               /\ row'[c.event].claimedAt = c.claimedAt
               /\ ~row'[c.event].expired
    <3>1. CASE v = w /\ d.current \subseteq new
      BY <3>1, <1>4
    <3>2. CASE ~(v = w /\ d.current \subseteq new)
      <4>1. c \in drain[v].current /\ ~drain[v].outlived
        BY <2>2, <3>2, <1>4
      <4>2. c.event \in Events \ S
        BY <4>1, <3>2, <1>2 DEF Claims
      <4> QED BY <4>1, <4>2 DEF DrainsOK, Owned
    <3> QED BY <3>1, <3>2
  <2> QED BY <2>1, <2>2 DEF DrainsOK, Owned
<1>8. AllApart'
  <2> SUFFICES ASSUME NEW u \in Workers, NEW v \in Workers,
                      NEW a \in Claims(u)', NEW b \in Claims(v)',
                      a.event = b.event, a.claimedAt = b.claimedAt
               PROVE  u = v /\ a = b
    BY DEF AllApart, Apart
  <2>1. \A c \in new, x \in Workers : \A o \in Claims(x) :
          c.event = o.event => o.claimedAt < c.claimedAt
    BY <1>2, <1>3 DEF ClaimsOK, ClaimOK
  <2>2. CASE a \in Claims(u) /\ b \in Claims(v)
    BY <2>2 DEF AllApart, Apart
  <2>3. CASE a \notin Claims(u)
    BY <2>1, <2>3, <1>2, <1>4
  <2>4. CASE b \notin Claims(v)
    BY <2>1, <2>4, <1>2, <1>4
  <2> QED BY <2>2, <2>3, <2>4
<1> QED BY <1>1, <1>5, <1>6, <1>7, <1>8

(* A claim stamps its rows as no remembered claim has.                     *)
LEMMA ClaimBatchKeeps == ASSUME OutboxInv, NEW w \in Workers, ClaimBatch(w) PROVE OutboxInv'
<1> USE DEF OutboxInv, OutboxTypeOK
<1> DEFINE new == {ClaimOf(e, Claimed(row[e])) : e \in NextBatch}
           d == [drain[w] EXCEPT !.phase = "dispatching", !.batch = new]
<1>1. /\ NextBatch \in SUBSET Events
      /\ \A e \in NextBatch : /\ row[e].attempts < MaxAttempts
                              /\ row[e].claimedAt <= 2 * row[e].attempts
                              /\ row[e].status = "queued" \/ row[e].expired
  BY DEF NextBatch, Claimable, RowsOK, RowOK
<1>2. ASSUME NEW e \in NextBatch
      PROVE  /\ Claimed(row[e]) \in OutboxRow
             /\ Claimed(row[e]).claimedAt = row[e].claimedAt + 1
             /\ Claimed(row[e]).attempts = row[e].attempts + 1
             /\ Claimed(row[e]).status = "processing"
             /\ ~Claimed(row[e]).expired
             /\ row[e].claimedAt \in Nat /\ row[e].attempts \in Nat
  <2>1. e \in Events /\ row[e] \in OutboxRow
    BY <1>1
  <2>2. row[e].claimedAt \in Nat /\ row[e].attempts \in Nat
    BY <2>1 DEF OutboxRow
  <2>3. row[e].claimedAt + 1 \in 0 .. 2 * MaxAttempts /\ row[e].attempts + 1 \in 0 .. MaxAttempts
    BY <1>1, <2>2, OutboxAssumption
  <2> QED BY <2>1, <2>2, <2>3 DEF Claimed, OutboxRow, OutboxStatuses
<1>3. \A e \in NextBatch :
        /\ ClaimOf(e, Claimed(row[e])) \in Claim
        /\ ClaimOf(e, Claimed(row[e])).event = e
        /\ ClaimOf(e, Claimed(row[e])).claimedAt = Claimed(row[e]).claimedAt
        /\ ClaimOf(e, Claimed(row[e])).attempts = Claimed(row[e]).attempts
  BY <1>1, <1>2 DEF ClaimOf, Claim, OutboxRow
<1>4. /\ row' \in [Events -> OutboxRow]
      /\ \A e \in Events \ NextBatch : row'[e] = row[e]
      /\ \A e \in NextBatch : row'[e] = Claimed(row[e])
  BY <1>1, <1>2 DEF ClaimBatch
<1>5. /\ new \in SUBSET Claim
      /\ \A c \in new : c.event \in NextBatch /\ c = ClaimOf(c.event, Claimed(row[c.event]))
  BY <1>3
<1>6. /\ d \in Drain /\ d.phase = "dispatching" /\ d.batch = new
      /\ d.current = drain[w].current /\ d.outlived = drain[w].outlived
      /\ drain' = [drain EXCEPT ![w] = d]
  BY <1>5 DEF ClaimBatch, Drain, DrainPhases
<1>7. \A v \in Workers : \A c \in drain[v].current :
        c.event \in NextBatch => drain[v].outlived
  BY <1>1 DEF DrainsOK, Owned
<1>8. applied' = applied
  BY DEF ClaimBatch
<1>9. \A e \in NextBatch : /\ row'[e].claimedAt > row[e].claimedAt
                           /\ row'[e].attempts >= row[e].attempts
                           /\ row'[e].attempts > 0
                           /\ row'[e].status = "processing"
                           /\ row'[e].claimedAt < 2 * row'[e].attempts
                           /\ row'[e].claimedAt <= 2 * row'[e].attempts
                           /\ ~row'[e].expired
  BY <1>1, <1>2, <1>4
<1>10. \A c \in new : /\ c.event \in NextBatch
                      /\ c.claimedAt = row'[c.event].claimedAt
                      /\ c.attempts = row'[c.event].attempts
                      /\ c.claimedAt < 2 * c.attempts
  BY <1>3, <1>4, <1>5, <1>9
<1>11. \A a, b \in new : a.event = b.event => a = b
  BY <1>5
<1> HIDE DEF new, d
<1>12. Stamps(w, NextBatch, d, new)
  BY <1>1, <1>4, <1>5, <1>6, <1>7, <1>8, <1>9, <1>10, <1>11 DEF Stamps
<1> QED BY <1>1, <1>5, <1>6, <1>12, NewStamps

(* A renewal stamps a row that is still its own.                           *)
LEMMA TouchClaimKeeps ==
  ASSUME OutboxInv, NEW w \in Workers, NEW c \in drain[w].batch, TouchClaim(w, c)
  PROVE  OutboxInv'
<1> USE DEF OutboxInv, OutboxTypeOK
<1> DEFINE renewed == [row[c.event] EXCEPT !.claimedAt = row[c.event].claimedAt + 1,
                                           !.expired = FALSE]
           n == ClaimOf(c.event, renewed)
           d == [phase |-> "handling", batch |-> drain[w].batch \ {c},
                 current |-> {n}, outlived |-> FALSE]
<1>1. /\ c \in Claims(w) /\ c.event \in Events /\ ClaimOK(c) /\ BatchOK(c)
      /\ row[c.event] \in OutboxRow
      /\ row[c.event].claimedAt = c.claimedAt /\ row[c.event].status = "processing"
  BY DEF Claims, Drain, Claim, ClaimsOK, TouchClaim, StillClaimed
<1>2. /\ row[c.event].claimedAt < 2 * row[c.event].attempts
      /\ row[c.event].attempts > 0
      /\ row[c.event].claimedAt \in Nat /\ row[c.event].attempts \in 0 .. MaxAttempts
  BY <1>1 DEF ClaimOK, BatchOK, OutboxRow
<1>3. /\ renewed \in OutboxRow
      /\ renewed.claimedAt = row[c.event].claimedAt + 1
      /\ renewed.attempts = row[c.event].attempts
      /\ renewed.status = "processing"
      /\ ~renewed.expired
  <2>1. row[c.event].claimedAt + 1 \in 0 .. 2 * MaxAttempts
    BY <1>2, OutboxAssumption
  <2> QED BY <1>1, <2>1 DEF OutboxRow
<1>4. /\ row' = [row EXCEPT ![c.event] = renewed]
      /\ drain' = [drain EXCEPT ![w] = d]
      /\ applied' = applied
  BY DEF TouchClaim
<1>5. /\ n \in Claim /\ n.event = c.event /\ n.claimedAt = renewed.claimedAt
      /\ n.attempts = renewed.attempts
  BY <1>1, <1>3 DEF ClaimOf, Claim, OutboxRow
<1>6. /\ d \in Drain /\ d.phase = "handling" /\ d.current = {n}
      /\ d.batch \subseteq drain[w].batch
  BY <1>5 DEF Drain, DrainPhases
<1> HIDE DEF n, d, renewed
<1>7. /\ row' \in [Events -> OutboxRow]
      /\ \A e \in Events \ {c.event} : row'[e] = row[e]
      /\ row'[c.event] = renewed
  BY <1>1, <1>3, <1>4
<1>8. ASSUME NEW v \in Workers, NEW o \in drain[v].current, o.event = c.event,
             ~drain[v].outlived, v # w
      PROVE  FALSE
  <2>1. o.claimedAt = c.claimedAt
    BY <1>1, <1>8 DEF DrainsOK, Owned
  <2> QED BY <1>1, <1>8, <2>1 DEF AllApart, Apart, Claims
<1>9. Stamps(w, {c.event}, d, {n})
  BY <1>1, <1>2, <1>3, <1>4, <1>5, <1>6, <1>7, <1>8 DEF Stamps
<1> QED BY <1>1, <1>5, <1>6, <1>9, NewStamps

(* What a worker claimed has a row, and another status of it is a row too. *)
LEMMA CurrentRow ==
  ASSUME OutboxInv, NEW w \in Workers, NEW c \in drain[w].current,
         NEW s \in OutboxStatuses
  PROVE  LET r == [row[c.event] EXCEPT !.status = s]
         IN /\ c.event \in Events /\ row[c.event] \in OutboxRow
            /\ r \in OutboxRow /\ r.status = s
            /\ r.attempts = row[c.event].attempts
            /\ r.claimedAt = row[c.event].claimedAt
BY DEF OutboxInv, OutboxTypeOK, OutboxRow, Drain, Claim

(* A row that got its verdict is a row, and no longer in processing.       *)
LEMMA MarkedRow ==
  ASSUME OutboxInv, NEW w \in Workers, NEW c \in drain[w].current
  PROVE  /\ LET r == [row[c.event] EXCEPT !.status = "done"]
            IN r \in OutboxRow /\ r.status # "processing"
         /\ LET r == [row[c.event] EXCEPT !.status = "dead"]
            IN r \in OutboxRow /\ r.status # "processing"
         /\ LET r == [row[c.event] EXCEPT !.status = "queued", !.due = FALSE]
            IN r \in OutboxRow /\ r.status # "processing"
<1>1. row[c.event] \in OutboxRow
  BY CurrentRow DEF OutboxStatuses
<1> QED BY <1>1 DEF OutboxRow, OutboxStatuses

(* markDone writes the row only if the stamp is its own.                   *)
LEMMA MarkDoneKeeps == ASSUME OutboxInv, NEW w \in Workers, MarkDone(w) PROVE OutboxInv'
<1> PICK c \in drain[w].current : Mark(w, c, [row[c.event] EXCEPT !.status = "done"])
  BY DEF MarkDone
<1> DEFINE r == [row[c.event] EXCEPT !.status = "done"]
<1>1. /\ r \in OutboxRow /\ r.status = "done"
      /\ r.attempts = row[c.event].attempts /\ r.claimedAt = row[c.event].claimedAt
  BY CurrentRow DEF OutboxRow, OutboxStatuses
<1>2. Mark(w, c, r)
  OBVIOUS
<1> HIDE DEF r
<1> QED BY <1>1, <1>2, MarkKeeps

(* So does the mark of an event that is given up.                          *)
LEMMA MarkDeadKeeps == ASSUME OutboxInv, NEW w \in Workers, MarkDead(w) PROVE OutboxInv'
<1> PICK c \in drain[w].current : Mark(w, c, [row[c.event] EXCEPT !.status = "dead"])
  BY DEF MarkDead
<1> DEFINE r == [row[c.event] EXCEPT !.status = "dead"]
<1>1. /\ r \in OutboxRow /\ r.status = "dead"
      /\ r.attempts = row[c.event].attempts /\ r.claimedAt = row[c.event].claimedAt
  BY CurrentRow DEF OutboxRow, OutboxStatuses
<1>2. Mark(w, c, r)
  OBVIOUS
<1> HIDE DEF r
<1> QED BY <1>1, <1>2, MarkKeeps

(* And the mark that puts it back in the queue.                            *)
LEMMA MarkRetryKeeps == ASSUME OutboxInv, NEW w \in Workers, MarkRetry(w) PROVE OutboxInv'
<1> PICK c \in drain[w].current :
      /\ c.attempts < MaxAttempts
      /\ Mark(w, c, [row[c.event] EXCEPT !.status = "queued", !.due = FALSE])
  BY DEF MarkRetry
<1> DEFINE r == [row[c.event] EXCEPT !.status = "queued", !.due = FALSE]
<1>1. /\ r \in OutboxRow /\ r.status = "queued"
      /\ r.attempts = row[c.event].attempts /\ r.claimedAt = row[c.event].claimedAt
  BY CurrentRow DEF OutboxRow, OutboxStatuses
<1>2. Mark(w, c, r)
  OBVIOUS
<1> HIDE DEF r
<1> QED BY <1>1, <1>2, MarkKeeps

(* Steps that only forget a claim.                                         *)
LEMMA ForgetfulStepsKeep ==
  ASSUME OutboxInv, NEW w \in Workers,
         \/ \E c \in drain[w].batch : Skip(w, c)
         \/ EndBatch(w) \/ HandlerSucceeds(w) \/ HandlerThrows(w)
         \/ MarkDoneFails(w) \/ Abandon(w)
  PROVE  OutboxInv'
<1>0. /\ drain \in [Workers -> Drain] /\ drain[w] \in Drain
      /\ applied \subseteq Events \ Unhandled
      /\ \A c, d \in drain[w].current : c = d
      /\ \A c \in drain[w].current : c.event \in Events
      /\ drain[w].phase = "handled" => \A c \in drain[w].current : c.event \in applied
  BY DEF OutboxInv, OutboxTypeOK, Drain, Claim, DrainsOK, DrainOK
<1>1. ASSUME NEW c \in drain[w].batch, Skip(w, c) PROVE OutboxInv'
  <2> DEFINE d == [drain[w] EXCEPT !.batch = drain[w].batch \ {c}]
  <2>1. /\ d \in Drain /\ d.batch \subseteq drain[w].batch /\ d.current = drain[w].current
        /\ d.outlived = drain[w].outlived /\ d.phase = drain[w].phase
    BY <1>0 DEF Drain
  <2>2. drain' = [drain EXCEPT ![w] = d] /\ row' = row /\ applied' = applied
    BY <1>0, <1>1 DEF Skip
  <2> HIDE DEF d
  <2> QED BY <1>0, <2>1, <2>2, ForgetsClaims
<1>2. ASSUME EndBatch(w) \/ Abandon(w) PROVE OutboxInv'
  <2>1. /\ IdleDrain \in Drain /\ IdleDrain.batch = {} /\ IdleDrain.current = {}
        /\ IdleDrain.phase # "handled"
    BY DEF IdleDrain, Drain, DrainPhases
  <2>2. drain' = [drain EXCEPT ![w] = IdleDrain] /\ row' = row /\ applied' = applied
    BY <1>2 DEF EndBatch, Abandon
  <2> QED BY <1>0, <2>1, <2>2, ForgetsClaims
<1>3. ASSUME HandlerSucceeds(w) \/ HandlerThrows(w) PROVE OutboxInv'
  <2> DEFINE d(phase) == [drain[w] EXCEPT !.phase = phase]
  <2>1. \A p \in {"handled", "threw"} :
          /\ d(p) \in Drain /\ d(p).batch = drain[w].batch
          /\ d(p).current = drain[w].current
          /\ d(p).outlived = drain[w].outlived /\ d(p).phase = p
    BY <1>0 DEF Drain, DrainPhases
  <2>2. PICK c \in drain[w].current :
          /\ c.event \notin Unhandled
          /\ \/ drain' = [drain EXCEPT ![w] = d("handled")] /\ applied' = applied \cup {c.event}
             \/ /\ drain' = [drain EXCEPT ![w] = d("threw")]
                /\ applied' \in {applied, applied \cup {c.event}}
    BY <1>3 DEF HandlerSucceeds, HandlerThrows
  <2>3. row' = row
    BY <1>3 DEF HandlerSucceeds, HandlerThrows
  <2>4. applied \subseteq applied' /\ applied' \subseteq Events \ Unhandled
    BY <1>0, <2>2
  <2> HIDE DEF d
  <2>5. CASE drain' = [drain EXCEPT ![w] = d("handled")] /\ applied' = applied \cup {c.event}
    <3>1. \A e \in d("handled").current : e.event \in applied'
      BY <1>0, <2>1, <2>2, <2>5
    <3> QED BY <2>1, <2>3, <2>4, <2>5, <3>1, ForgetsClaims
  <2>6. CASE drain' = [drain EXCEPT ![w] = d("threw")]
    BY <2>1, <2>3, <2>4, <2>6, ForgetsClaims
  <2> QED BY <2>2, <2>5, <2>6
<1>4. ASSUME MarkDoneFails(w) PROVE OutboxInv'
  <2> DEFINE d == NextDispatch(w)[w]
  <2>1. /\ drain' = [drain EXCEPT ![w] = d] /\ d \in Drain /\ d.batch = drain[w].batch
        /\ d.current = {} /\ d.phase = "dispatching"
    BY <1>0, <1>4 DEF MarkDoneFails, NextDispatch, Drain, DrainPhases
  <2>2. row' = row /\ applied' = applied
    BY <1>4 DEF MarkDoneFails
  <2> HIDE DEF d
  <2> QED BY <1>0, <2>1, <2>2, ForgetsClaims
<1> QED BY <1>1, <1>2, <1>3, <1>4

(* The invariant is inductive.                                             *)
LEMMA OutboxNext_Inv == OutboxInv /\ [OutboxNext]_outboxVars => OutboxInv'
<1> SUFFICES ASSUME OutboxInv, [OutboxNext]_outboxVars PROVE OutboxInv'
  OBVIOUS
<1>1. CASE UNCHANGED outboxVars
  BY <1>1 DEF outboxVars, OutboxInv, OutboxTypeOK, RowsOK, ClaimsOK, DrainsOK, AllApart,
     RowOK, ClaimOK, BatchOK, DrainOK, Owned, Apart, Claims
<1>2. ASSUME NEW e \in Events, Publish(e) \/ BecomesDue(e) \/ LeaseExpires(e)
      PROVE  OutboxInv'
  BY <1>2, PublishKeeps, BecomesDueKeeps, LeaseExpiresKeeps
<1>3. ASSUME NEW w \in Workers, DrainStep(w) \/ Abandon(w) PROVE OutboxInv'
  BY <1>3, ReapKeeps, ClaimBatchKeeps, TouchClaimKeeps, ForgetfulStepsKeep,
     MarkDoneKeeps, MarkRetryKeeps, MarkDeadKeeps DEF DrainStep
<1> QED BY <1>1, <1>2, <1>3 DEF OutboxNext

-----------------------------------------------------------------------------
(* Every variable keeps its type, and no row is stamped more than twice    *)
(* for each of its MAX_OUTBOX_ATTEMPTS claims.                             *)
THEOREM OutboxInvariant == OutboxSpec => []OutboxInv
BY OutboxInit_Inv, OutboxNext_Inv, PTL DEF OutboxSpec

(* Two workers handle one event at a time only if one of them has outlived *)
(* its lease (touchClaim).                                                 *)
THEOREM NoOverlap == OutboxSpec => []NoOverlapWithinLease
<1>1. OutboxInv => NoOverlapWithinLease
  BY DEF OutboxInv, NoOverlapWithinLease, DrainsOK, Owned, AllApart, Apart, Claims
<1> QED BY <1>1, OutboxInvariant, PTL

(* While a worker is within its lease, nobody else writes the row of the   *)
(* event it dispatches (claimedAt in the WHERE of every mark and reclaim). *)
THEOREM LiveClaimsAreOwned == OutboxSpec => LiveClaimIsOwned
<1> DEFINE Step == \A w \in Workers : \A c \in drain[w].current :
                     ~drain[w].outlived /\ row'[c.event] # row[c.event]
                       => drain'[w] # drain[w]
<1>1. OutboxInv /\ OutboxInv' /\ [OutboxNext]_outboxVars => [Step]_outboxVars
  <2> SUFFICES ASSUME OutboxInv, OutboxInv', [OutboxNext]_outboxVars,
                      NEW w \in Workers, NEW c \in drain[w].current, ~drain[w].outlived,
                      drain'[w] = drain[w]
               PROVE  row'[c.event] = row[c.event]
    BY DEF outboxVars
  <2>1. /\ row[c.event].status = "processing" /\ row[c.event].claimedAt = c.claimedAt
        /\ ~row[c.event].expired /\ c.event \in Events
        /\ row'[c.event].status = "processing" /\ row'[c.event].claimedAt = c.claimedAt
        /\ ~row'[c.event].expired
        /\ row[c.event] \in OutboxRow /\ row'[c.event] \in OutboxRow
    BY DEF OutboxInv, OutboxTypeOK, DrainsOK, Owned, Drain, Claim
  <2> DEFINE e == c.event
  <2>a. row \in [Events -> OutboxRow] /\ drain \in [Workers -> Drain]
    BY DEF OutboxInv, OutboxTypeOK
  <2>2. ASSUME NEW f \in Events, Publish(f) \/ BecomesDue(f) \/ LeaseExpires(f)
        PROVE  row'[e] = row[e]
    <3>1. CASE Publish(f) \/ BecomesDue(f)
      <4>1. f # e
        BY <2>1, <3>1 DEF Publish, BecomesDue
      <4> QED BY <2>1, <2>a, <3>1, <4>1 DEF Publish, BecomesDue
    <3>2. CASE LeaseExpires(f)
      <4>1. f # e
        BY <2>1, <2>a, <3>2 DEF LeaseExpires, OutboxRow
      <4> QED BY <2>1, <2>a, <3>2, <4>1 DEF LeaseExpires
    <3> QED BY <2>2, <3>1, <3>2
  <2>3. ASSUME NEW v \in Workers, Reap(v) PROVE row'[e] = row[e]
    <3>1. e \notin Exhausted
      BY <2>1 DEF Exhausted
    <3> QED BY <2>1, <2>3, <3>1 DEF Reap
  <2>4. ASSUME NEW v \in Workers, ClaimBatch(v) PROVE row'[e] = row[e]
    <3>1. e \notin NextBatch
      BY <2>1 DEF NextBatch, Claimable
    <3> QED BY <2>1, <2>4, <3>1 DEF ClaimBatch
  <2>5. ASSUME NEW v \in Workers, NEW o \in drain[v].batch, TouchClaim(v, o)
        PROVE  row'[e] = row[e]
    <3>1. o.event # e
      <4> SUFFICES ASSUME o.event = e PROVE FALSE
        OBVIOUS
      <4>1. row'[e].claimedAt = row[e].claimedAt + 1
        BY <2>1, <2>a, <2>5 DEF TouchClaim, OutboxRow
      <4> QED BY <2>1, <4>1 DEF OutboxRow
    <3> QED BY <2>1, <2>a, <2>5, <3>1 DEF TouchClaim
  <2>6. ASSUME NEW v \in Workers, MarkDone(v) \/ MarkRetry(v) \/ MarkDead(v)
        PROVE  row'[e] = row[e]
    <3>1. PICK o \in drain[v].current, r \in OutboxRow :
            Mark(v, o, r) /\ r.status # "processing"
      BY <2>6, MarkedRow DEF MarkDone, MarkRetry, MarkDead
    <3> QED BY <2>1, <2>a, <3>1 DEF Mark
  <2>7. ASSUME NEW v \in Workers,
               \/ EndBatch(v) \/ HandlerSucceeds(v) \/ HandlerThrows(v)
               \/ MarkDoneFails(v) \/ Abandon(v)
               \/ \E o \in drain[v].batch : Skip(v, o)
        PROVE  row'[e] = row[e]
    BY <2>7 DEF EndBatch, HandlerSucceeds, HandlerThrows, MarkDoneFails, Abandon, Skip
  <2> QED
    <3> HIDE DEF e
    <3>1. CASE UNCHANGED outboxVars
      BY <3>1 DEF outboxVars, e
    <3>2. CASE OutboxNext
      BY <2>2, <2>3, <2>4, <2>5, <2>6, <2>7, <3>2 DEF OutboxNext, DrainStep, e
    <3> QED BY <3>1, <3>2
<1> QED BY <1>1, OutboxInvariant, PTL DEF OutboxSpec, LiveClaimIsOwned

-----------------------------------------------------------------------------
(* The refinement.                                                         *)

(* A row published is an event announced.                                  *)
LEMMA PublishAnnounces ==
  ASSUME OutboxInv, NEW e \in Events, Publish(e) PROVE Promise!PromiseNext
<1>1. /\ row[e].status = "absent" /\ row'[e].status = "queued"
      /\ row'[e].attempts = row[e].attempts
      /\ \A f \in Events \ {e} : row'[f] = row[f]
      /\ applied' = applied
  BY DEF Publish, OutboxInv, OutboxTypeOK, OutboxRow
<1>2. Promise!Announce(e)
  <2>1. OutboxOutcome[e] = "absent"
    BY <1>1 DEF OutboxOutcome
  <2>2. OutboxOutcome' = [OutboxOutcome EXCEPT ![e] = "pending"]
    BY <1>1 DEF OutboxOutcome
  <2>3. OutboxTries' = OutboxTries
    BY <1>1 DEF OutboxTries
  <2> QED BY <1>1, <2>1, <2>2, <2>3 DEF Promise!Announce
<1> QED BY <1>2 DEF Promise!PromiseNext

(* A step that only turns the pending events S, whose tries are used up or *)
(* which nobody handles, into dead ones.                                   *)
LEMMA DeadIsGivenUp ==
  ASSUME OutboxInv, NEW S \in SUBSET Events,
         \A e \in S : /\ row[e].status = "processing"
                      /\ row[e].attempts = MaxAttempts \/ e \in Unhandled
                      /\ row'[e].status = "dead"
                      /\ row'[e].attempts = row[e].attempts,
         \A e \in Events \ S : row'[e] = row[e],
         applied' = applied
  PROVE  Promise!PromiseNext
<1>1. \A e \in S : /\ OutboxOutcome[e] = "pending"
                   /\ OutboxTries[e] = MaxAttempts \/ e \in Unhandled
  BY DEF OutboxOutcome, OutboxTries
<1>2. OutboxOutcome' = [e \in Events |-> IF e \in S THEN "dead" ELSE OutboxOutcome[e]]
  BY DEF OutboxOutcome
<1>3. OutboxTries' = OutboxTries
  BY DEF OutboxTries
<1>4. Promise!GiveUp(S)
  BY <1>1, <1>2, <1>3 DEF Promise!GiveUp
<1> QED BY <1>4 DEF Promise!PromiseNext

(* A row reaped is an event given up, its tries being used up.             *)
LEMMA ReapGivesUp ==
  ASSUME OutboxInv, NEW w \in Workers, Reap(w) PROVE Promise!PromiseNext
<1>1. PICK S \in SUBSET Exhausted :
        row' = [e \in Events |->
                  IF e \in S THEN [row[e] EXCEPT !.status = "dead"] ELSE row[e]]
  BY DEF Reap
<1>2. \A e \in Events : row[e].attempts \in 0 .. MaxAttempts /\ row[e] \in OutboxRow
  BY DEF OutboxInv, OutboxTypeOK, OutboxRow
<1>3. \A e \in S : /\ row[e].status = "processing"
                   /\ row[e].attempts = MaxAttempts
                   /\ row'[e].status = "dead"
                   /\ row'[e].attempts = row[e].attempts
  BY <1>1, <1>2, OutboxAssumption DEF Exhausted, OutboxRow
<1>4. S \in SUBSET Events /\ \A e \in Events \ S : row'[e] = row[e]
  BY <1>1 DEF Exhausted
<1> QED BY <1>3, <1>4, DeadIsGivenUp DEF Reap

(* A claim is one more try of each of its events.                          *)
LEMMA ClaimTries ==
  ASSUME OutboxInv, NEW w \in Workers, ClaimBatch(w) PROVE Promise!PromiseNext
<1>1. /\ NextBatch \in SUBSET Events
      /\ \A e \in NextBatch : /\ row[e].status \in {"queued", "processing"}
                              /\ row[e].attempts < MaxAttempts
                              /\ row'[e].status = "processing"
                              /\ row'[e].attempts = row[e].attempts + 1
      /\ \A e \in Events \ NextBatch : row'[e] = row[e]
      /\ applied' = applied
  BY DEF ClaimBatch, NextBatch, Claimable, Claimed, OutboxInv, OutboxTypeOK, RowsOK, RowOK,
     OutboxRow
<1>2. \A e \in NextBatch : OutboxOutcome[e] = "pending" /\ OutboxTries[e] < MaxAttempts
  BY <1>1 DEF OutboxOutcome, OutboxTries
<1>3. OutboxTries' = [e \in Events |-> IF e \in NextBatch THEN OutboxTries[e] + 1
                                      ELSE OutboxTries[e]]
  BY <1>1 DEF OutboxTries
<1>4. OutboxOutcome' = OutboxOutcome
  BY <1>1 DEF OutboxOutcome
<1>5. Promise!Try(NextBatch)
  BY <1>1, <1>2, <1>3, <1>4 DEF Promise!Try
<1> QED BY <1>1, <1>5 DEF Promise!PromiseNext

(* A handler that had its effect is the promise's handling, also when it   *)
(* threw afterwards.                                                       *)
LEMMA HandlerApplies ==
  ASSUME OutboxInv, NEW w \in Workers, HandlerSucceeds(w) \/ HandlerThrows(w)
  PROVE  [Promise!PromiseNext]_<<OutboxOutcome, OutboxTries, applied>>
<1>1. PICK c \in drain[w].current :
        /\ c.event \notin Unhandled /\ row' = row
        /\ applied' = applied \/ applied' = applied \cup {c.event}
  BY DEF HandlerSucceeds, HandlerThrows
<1>2. c.event \in Events /\ row[c.event].attempts > 0
  BY DEF OutboxInv, OutboxTypeOK, ClaimsOK, ClaimOK, Claims, Drain, Claim
<1>3. OutboxOutcome' = OutboxOutcome /\ OutboxTries' = OutboxTries
  BY <1>1 DEF OutboxOutcome, OutboxTries
<1>4. CASE applied' = applied \cup {c.event}
  <2>1. Promise!Apply(c.event)
    BY <1>1, <1>2, <1>3, <1>4 DEF Promise!Apply, OutboxTries
  <2> QED BY <1>2, <2>1 DEF Promise!PromiseNext
<1> QED BY <1>1, <1>3, <1>4

(* A mark that hits its row finishes an event that was handled.            *)
LEMMA MarkDoneFinishes ==
  ASSUME OutboxInv, NEW w \in Workers, MarkDone(w)
  PROVE  [Promise!PromiseNext]_<<OutboxOutcome, OutboxTries, applied>>
<1> PICK c \in drain[w].current : Mark(w, c, [row[c.event] EXCEPT !.status = "done"])
  BY DEF MarkDone
<1>1. /\ c.event \in Events /\ row[c.event] \in OutboxRow /\ applied' = applied
      /\ row \in [Events -> OutboxRow]
  BY CurrentRow DEF Mark, OutboxStatuses, OutboxInv, OutboxTypeOK
<1>2. c.event \in applied
  BY DEF MarkDone, OutboxInv, DrainsOK, DrainOK
<1>3. CASE ~StillClaimed(c)
  BY <1>1, <1>3 DEF Mark, OutboxOutcome, OutboxTries
<1>4. CASE StillClaimed(c)
  <2>1. /\ row'[c.event].status = "done" /\ row'[c.event].attempts = row[c.event].attempts
        /\ \A e \in Events \ {c.event} : row'[e] = row[e]
    BY <1>1, <1>4 DEF Mark, OutboxRow
  <2>2. OutboxTries' = OutboxTries
    BY <2>1 DEF OutboxTries
  <2>3. OutboxOutcome' = [OutboxOutcome EXCEPT ![c.event] = "done"]
    BY <2>1 DEF OutboxOutcome
  <2>4. OutboxOutcome[c.event] = "pending"
    BY <1>1, <1>4 DEF OutboxOutcome, StillClaimed
  <2>5. Promise!Finish(c.event)
    BY <1>1, <1>2, <2>2, <2>3, <2>4 DEF Promise!Finish
  <2> QED BY <1>1, <2>5 DEF Promise!PromiseNext
<1> QED BY <1>3, <1>4

(* A retry is nothing to the promise.                                      *)
LEMMA MarkRetryStutters ==
  ASSUME OutboxInv, NEW w \in Workers, MarkRetry(w)
  PROVE  UNCHANGED <<OutboxOutcome, OutboxTries, applied>>
<1> PICK c \in drain[w].current :
      Mark(w, c, [row[c.event] EXCEPT !.status = "queued", !.due = FALSE])
  BY DEF MarkRetry
<1>1. c.event \in Events /\ row[c.event] \in OutboxRow /\ row \in [Events -> OutboxRow]
  BY CurrentRow DEF OutboxStatuses, OutboxInv, OutboxTypeOK
<1>2. \A e \in Events :
        /\ row'[e].attempts = row[e].attempts
        /\ \/ row'[e].status = row[e].status
           \/ row'[e].status = "queued" /\ row[e].status = "processing"
  BY <1>1 DEF Mark, StillClaimed, OutboxRow
<1>3. OutboxOutcome' = OutboxOutcome /\ OutboxTries' = OutboxTries
  BY <1>2 DEF OutboxOutcome, OutboxTries
<1> QED BY <1>3 DEF Mark

(* An event marked dead has used up its tries or has no handler.           *)
LEMMA MarkDeadGivesUp ==
  ASSUME OutboxInv, NEW w \in Workers, MarkDead(w)
  PROVE  [Promise!PromiseNext]_<<OutboxOutcome, OutboxTries, applied>>
<1> PICK c \in drain[w].current :
      /\ c.attempts >= MaxAttempts \/ c.event \in Unhandled
      /\ Mark(w, c, [row[c.event] EXCEPT !.status = "dead"])
  BY DEF MarkDead
<1>1. /\ c.event \in Events /\ row[c.event] \in OutboxRow /\ applied' = applied
      /\ row \in [Events -> OutboxRow] /\ ClaimOK(c)
  BY CurrentRow DEF Mark, OutboxStatuses, OutboxInv, OutboxTypeOK, ClaimsOK, Claims
<1>2. CASE ~StillClaimed(c)
  BY <1>1, <1>2 DEF Mark, OutboxOutcome, OutboxTries
<1>3. CASE StillClaimed(c)
  <2>1. /\ row'[c.event].status = "dead" /\ row'[c.event].attempts = row[c.event].attempts
        /\ row[c.event].status = "processing"
        /\ \A e \in Events \ {c.event} : row'[e] = row[e]
    BY <1>1, <1>3 DEF Mark, OutboxRow, StillClaimed
  <2>2. row[c.event].attempts = MaxAttempts \/ c.event \in Unhandled
    BY <1>1, <1>3, OutboxAssumption DEF StillClaimed, ClaimOK, OutboxRow
  <2> DEFINE S == {c.event}
  <2>3. S \in SUBSET Events /\ \A e \in S : e = c.event
    BY <1>1
  <2> HIDE DEF S
  <2>4. \A e \in Events \ S : row'[e] = row[e]
    BY <2>1 DEF S
  <2> QED BY <1>1, <2>1, <2>2, <2>3, <2>4, DeadIsGivenUp
<1> QED BY <1>2, <1>3

(* Nothing else is seen by the promise.                                    *)
LEMMA OtherStepsStutter ==
  ASSUME OutboxInv,
         \/ \E e \in Events : BecomesDue(e) \/ LeaseExpires(e)
         \/ \E w \in Workers :
              \/ \E c \in drain[w].batch : TouchClaim(w, c) \/ Skip(w, c)
              \/ EndBatch(w) \/ MarkDoneFails(w) \/ Abandon(w)
         \/ UNCHANGED outboxVars
  PROVE  UNCHANGED <<OutboxOutcome, OutboxTries, applied>>
<1> DEFINE Same == /\ applied' = applied
                   /\ \A e \in Events : /\ row'[e].attempts = row[e].attempts
                                        /\ row'[e].status = row[e].status
<1>0. row \in [Events -> OutboxRow] /\ drain \in [Workers -> Drain]
  BY DEF OutboxInv, OutboxTypeOK
<1>1. ASSUME NEW e \in Events, BecomesDue(e) \/ LeaseExpires(e) PROVE Same
  BY <1>0, <1>1 DEF BecomesDue, LeaseExpires, OutboxRow
<1>2. ASSUME NEW w \in Workers, NEW c \in drain[w].batch, TouchClaim(w, c) PROVE Same
  <2> DEFINE renewed == [row[c.event] EXCEPT !.claimedAt = row[c.event].claimedAt + 1,
                                             !.expired = FALSE]
  <2>1. c.event \in Events /\ row[c.event] \in OutboxRow
    BY <1>0 DEF Drain, Claim
  <2>2. renewed.attempts = row[c.event].attempts /\ renewed.status = row[c.event].status
    BY <2>1 DEF OutboxRow
  <2>3. applied' = applied /\ row' = [row EXCEPT ![c.event] = renewed]
    BY <1>2 DEF TouchClaim
  <2> HIDE DEF renewed
  <2> QED BY <1>0, <2>1, <2>2, <2>3
<1>3. ASSUME NEW w \in Workers,
             \/ \E c \in drain[w].batch : Skip(w, c)
             \/ EndBatch(w) \/ MarkDoneFails(w) \/ Abandon(w)
      PROVE  Same
  BY <1>3 DEF Skip, EndBatch, MarkDoneFails, Abandon
<1>4. ASSUME UNCHANGED outboxVars PROVE Same
  BY <1>4 DEF outboxVars
<1>5. Same
  <2> HIDE DEF Same
  <2> QED BY <1>1, <1>2, <1>3, <1>4
<1>6. OutboxOutcome' = OutboxOutcome
  BY <1>5 DEF OutboxOutcome
<1>7. OutboxTries' = OutboxTries
  BY <1>5 DEF OutboxTries
<1> QED BY <1>5, <1>6, <1>7

(* The drain implements OutboxPromise: an event is done only after its     *)
(* handler had its effect, dead only after MAX_OUTBOX_ATTEMPTS claims or   *)
(* for want of a handler, and both for good.                               *)
THEOREM OutboxKeepsPromise == OutboxSpec => KeepsPromise
<1>1. OutboxInit => Promise!PromiseInit
  BY DEF OutboxInit, Promise!PromiseInit, OutboxOutcome, OutboxTries
<1>2. OutboxInv /\ [OutboxNext]_outboxVars =>
        [Promise!PromiseNext]_<<OutboxOutcome, OutboxTries, applied>>
  BY PublishAnnounces, ReapGivesUp, ClaimTries, HandlerApplies, MarkDoneFinishes,
     MarkRetryStutters, MarkDeadGivesUp, OtherStepsStutter DEF OutboxNext, DrainStep
<1> QED BY <1>1, <1>2, OutboxInvariant, PTL
       DEF OutboxSpec, KeepsPromise, Promise!PromiseSpec, Promise!promiseVars
=============================================================================
