------------------------------ MODULE Sessions ------------------------------
(***************************************************************************)
(* A signed-in device: the refresh-token rows of one principal, the server *)
(* transactions that rotate and revoke them, and the client engine whose   *)
(* single-flight refresh decides which token is presented when.  Answers   *)
(* get lost, servers die, tokens age.  A revocation is one UPDATE: it sees *)
(* the rows committed when it starts and waits for the locks on them.      *)
(***************************************************************************)
EXTENDS Naturals, FiniteSets

CONSTANTS
  MaxTokens,   \* bound: refresh tokens ever minted
  Calls,       \* bound: refresh and logout calls the server has at a time
  Engines,     \* createRequestEngine instances that share one token store
  MaxMishaps   \* bound: tokens that age and principals suspended, together

ASSUME SessionAssumption ==
  /\ MaxTokens \in Nat \ {0}
  /\ MaxMishaps \in Nat

VARIABLES
  token,      \* the refresh_tokens rows, in order of creation
  active,     \* whether the principal may sign in
  held,       \* the token in the store of the device, 0 for none
  call,       \* what the server does for each call
  inFlight,   \* inFlightRefresh of each engine, as a set of at most one call
  excuse,     \* history: an answer was lost or a 5xx, or a logout asked for
  dead        \* history: families revoked without an overlapping refresh

sessionVars == <<token, active, held, call, inFlight, excuse, dead>>

-----------------------------------------------------------------------------
TokenIds == 1 .. MaxTokens

Token == [family : 0 .. MaxTokens, rotated : BOOLEAN, revoked : BOOLEAN, aged : BOOLEAN]
NoToken == [family |-> 0, rotated |-> FALSE, revoked |-> FALSE, aged |-> FALSE]

CallPhases == {"none", "sent", "claimed", "refused", "revoking", "granted", "denied"}

(* gone: a logout the device no longer waits for.                          *)
Call == [phase : CallPhases, logout : BOOLEAN, gone : BOOLEAN, token : 0 .. MaxTokens,
         seen : SUBSET TokenIds, alone : BOOLEAN, next : 0 .. MaxTokens]

NoCall == [phase |-> "none", logout |-> FALSE, gone |-> FALSE, token |-> 0, seen |-> {},
           alone |-> FALSE, next |-> 0]

SessionsTypeOK ==
  /\ token \in [TokenIds -> Token]
  /\ active \in BOOLEAN
  /\ held \in 0 .. MaxTokens
  /\ call \in [Calls -> Call]
  /\ inFlight \in [Engines -> SUBSET Calls]
  /\ excuse \in BOOLEAN
  /\ dead \subseteq TokenIds

SessionsInit ==
  /\ token = [t \in TokenIds |-> NoToken]
  /\ active = TRUE
  /\ held = 0
  /\ call = [c \in Calls |-> NoCall]
  /\ inFlight = [e \in Engines |-> {}]
  /\ excuse = FALSE
  /\ dead = {}

-----------------------------------------------------------------------------
Minted == {t \in TokenIds : token[t].family # 0}

FreshToken == {t \in TokenIds \ Minted : \A u \in TokenIds : u < t => u \in Minted}

Usable(t) ==
  /\ t \in Minted
  /\ ~token[t].rotated /\ ~token[t].revoked /\ ~token[t].aged

FamilyOf(t) == {u \in Minted : token[u].family = token[t].family}

(* The rows an uncommitted refresh holds locked.                           *)
LockedRow(t) == \E c \in Calls : call[c].phase = "claimed" /\ call[c].token = t

(* issueTokens, after a login or a verified code.                          *)
Login ==
  /\ held = 0
  /\ active
  /\ \E t \in FreshToken :
       /\ token' = [token EXCEPT ![t].family = t]
       /\ held' = t
  /\ UNCHANGED <<active, call, inFlight, excuse, dead>>

MoreMishaps ==
  Cardinality({t \in Minted : token[t].aged}) + (IF active THEN 0 ELSE 1) < MaxMishaps

Deactivate ==
  /\ active
  /\ MoreMishaps
  /\ active' = FALSE
  /\ UNCHANGED <<token, held, call, inFlight, excuse, dead>>

Age(t) ==
  /\ Usable(t)
  /\ MoreMishaps
  /\ token' = [token EXCEPT ![t].aged = TRUE]
  /\ UNCHANGED <<active, held, call, inFlight, excuse, dead>>

-----------------------------------------------------------------------------
(* The device                                                              *)

Begins(c, logout, t) ==
  /\ call[c].phase = "none"
  /\ call' = [call EXCEPT ![c] = [NoCall EXCEPT !.phase = "sent", !.logout = logout,
                                                !.token = t]]

(* Mutant of RefreshOnce: every 401 sends a refresh of its own.            *)
RefreshEachTime(e, c) ==
  /\ held # 0
  /\ Begins(c, FALSE, held)
  /\ inFlight' = [inFlight EXCEPT ![e] = @ \cup {c}]
  /\ UNCHANGED <<token, active, held, excuse, dead>>

(* A request came back 401, or the app refreshes on its own account;       *)
(* while a refresh is in flight everybody waits for that one.              *)
RefreshOnce(e, c) ==
  /\ held # 0
  /\ inFlight[e] = {}
  /\ Begins(c, FALSE, held)
  /\ inFlight' = [inFlight EXCEPT ![e] = {c}]
  /\ UNCHANGED <<token, active, held, excuse, dead>>

(* The cookie transport presents the token; the consumer app sends none.   *)
Logout(c) ==
  /\ held # 0
  /\ \E t \in {held, 0} : Begins(c, TRUE, t)
  /\ excuse' = TRUE
  /\ UNCHANGED <<token, active, held, inFlight, dead>>

Forgets(c) ==
  /\ call' = [call EXCEPT ![c] = NoCall]
  /\ inFlight' = [e \in Engines |-> inFlight[e] \ {c}]

LogoutAwaited(c) == call[c].logout /\ ~call[c].gone

(* onTokensIssued stores whatever arrives; onUnauthorized clears whatever  *)
(* is stored; a logout that is answered clears it too.  The answer of a    *)
(* refresh nobody waits for any more is dropped.                           *)
Answer(c) ==
  /\ call[c].phase \in {"granted", "denied"}
  /\ Forgets(c)
  /\ held' = IF LogoutAwaited(c) THEN 0
             ELSE IF \A e \in Engines : c \notin inFlight[e] THEN held
             ELSE IF call[c].phase = "granted" THEN call[c].next ELSE 0
  /\ UNCHANGED <<token, active, excuse, dead>>

(* The client sees a network failure; what the server does goes on.  A     *)
(* logout ends the local session all the same.                             *)
AnswerLost(c) ==
  /\ call[c].phase # "none"
  /\ \/ LogoutAwaited(c)
     \/ \E e \in Engines : c \in inFlight[e]
  /\ inFlight' = [e \in Engines |-> inFlight[e] \ {c}]
  /\ held' = IF LogoutAwaited(c) THEN 0 ELSE held
  /\ call' = [call EXCEPT ![c].gone = call[c].logout]
  /\ excuse' = TRUE
  /\ UNCHANGED <<token, active, dead>>

-----------------------------------------------------------------------------
(* The server                                                              *)

Steps(c, r) == call' = [call EXCEPT ![c] = r]

Denied(c) == [call[c] EXCEPT !.phase = "denied", !.token = 0, !.seen = {}, !.alone = FALSE]

(* Mutant of Refreshable: the claim forgets rotatedAt.                     *)
RefreshableAgain(t) == t \in Minted /\ ~token[t].revoked /\ ~token[t].aged

Refreshable(t) == Usable(t)

(* The guarded update of refresh: it waits for the row's lock, then takes  *)
(* the row or matches nothing.  Revocations of the family that have begun  *)
(* will not see what this transaction inserts.                             *)
RefreshClaims(c) ==
  /\ call[c].phase = "sent" /\ ~call[c].logout
  /\ LET t == call[c].token
     IN /\ ~LockedRow(t)
        /\ call' = [d \in Calls |->
             CASE d = c -> [call[c] EXCEPT !.phase =
                              IF Refreshable(t) THEN "claimed" ELSE "refused"]
               [] d # c /\ Refreshable(t) /\ call[d].phase = "revoking"
                  /\ call[d].seen \cap FamilyOf(t) # {} ->
                    [call[d] EXCEPT !.alone = FALSE]
               [] OTHER -> call[d]]
  /\ UNCHANGED <<token, active, held, inFlight, excuse, dead>>

(* The rest of the transaction: the principal, then the successor, or the  *)
(* revocation of the family.                                               *)
RefreshCommits(c) ==
  /\ call[c].phase = "claimed"
  /\ LET t == call[c].token
     IN IF active
        THEN \E s \in FreshToken :
               /\ token' = [token EXCEPT ![t].rotated = TRUE,
                                         ![s].family = token[t].family]
               /\ Steps(c, [NoCall EXCEPT !.phase = "granted", !.next = s])
        ELSE /\ token' = [u \in TokenIds |->
                  IF u \in FamilyOf(t)
                  THEN [token[u] EXCEPT !.revoked = TRUE,
                                        !.rotated = token[u].rotated \/ u = t]
                  ELSE token[u]]
             /\ Steps(c, Denied(c))
  /\ UNCHANGED <<active, held, inFlight, excuse, dead>>

(* Mutant of Family: only the presented token is revoked.                  *)
PresentedOnly(t) == FamilyOf(t) \cap {t}

Family(t) == FamilyOf(t)

(* handleClaimFailure and revokeFamilyByToken: find the row, then update   *)
(* the family as it is committed now.                                      *)
RevokeStarts(c) ==
  /\ \/ call[c].phase = "refused"
     \/ call[c].phase = "sent" /\ call[c].logout
  /\ LET t == call[c].token
         none == t = 0 \/ (~call[c].logout /\ token[t].aged)
     IN Steps(c,
          IF none THEN Denied(c)
          ELSE [call[c] EXCEPT
                  !.phase = "revoking",
                  !.seen = {u \in Family(t) : ~token[u].revoked},
                  !.alone = \A u \in FamilyOf(t) : ~LockedRow(u)])
  /\ UNCHANGED <<token, active, held, inFlight, excuse, dead>>

RevokeEnds(c) ==
  /\ call[c].phase = "revoking"
  /\ \A u \in call[c].seen : ~LockedRow(u)
  /\ token' = [u \in TokenIds |->
                 IF u \in call[c].seen THEN [token[u] EXCEPT !.revoked = TRUE]
                 ELSE token[u]]
  /\ dead' = dead \cup IF call[c].alone THEN {token[call[c].token].family} ELSE {}
  /\ Steps(c, Denied(c))
  /\ UNCHANGED <<active, held, inFlight, excuse>>

(* The server process dies: what is uncommitted is rolled back.            *)
CallDies(c) ==
  /\ call[c].phase \in {"sent", "claimed", "refused", "revoking"}
  /\ Forgets(c)
  /\ held' = IF LogoutAwaited(c) THEN 0 ELSE held
  /\ UNCHANGED <<token, active, excuse, dead>>

(* Its statement fails (the database is away, a deadlock victim): rolled   *)
(* back and answered with a 5xx, which to the engine is a refusal.         *)
CallFails(c) ==
  /\ call[c].phase \in {"sent", "claimed", "refused", "revoking"}
  /\ Steps(c, Denied(c))
  /\ excuse' = TRUE
  /\ UNCHANGED <<token, active, held, inFlight, dead>>

-----------------------------------------------------------------------------
SessionsNext ==
  \/ Login \/ Deactivate
  \/ \E t \in TokenIds : Age(t)
  \/ \E c \in Calls :
       \/ \E e \in Engines : RefreshOnce(e, c)
       \/ Logout(c) \/ Answer(c) \/ AnswerLost(c)
       \/ RefreshClaims(c) \/ RefreshCommits(c)
       \/ RevokeStarts(c) \/ RevokeEnds(c) \/ CallDies(c) \/ CallFails(c)

SessionsSpec == SessionsInit /\ [][SessionsNext]_sessionVars

-----------------------------------------------------------------------------
(* Properties                                                              *)

(* A family has one live token, however many refreshes present the same    *)
(* one at the same time: refresh rotates and inserts in one transaction,   *)
(* behind the lock of the row it claims.                                   *)
OneLiveToken ==
  \A t, u \in TokenIds :
    Usable(t) /\ Usable(u) /\ token[t].family = token[u].family => t = u

(* A device with one engine that lost no answer, got no 5xx and asked for  *)
(* no logout never presents a rotated token, so it is not signed out of a  *)
(* session it never left: while its principal is active, the token it      *)
(* holds, or the successor on its way to it, is live until it ages.        *)
KeepsItsSession ==
  held # 0 /\ active /\ ~excuse =>
    \/ Usable(held)
    \/ token[held].aged
    \/ \E e \in Engines : \E c \in inFlight[e] :
         /\ call[c].phase = "granted"
         /\ Usable(call[c].next) \/ token[call[c].next].aged

(* A family revoked for reuse or by a logout has no live token left, as    *)
(* long as no refresh of the family was under way during the revocation.   *)
RevokedFamilyStaysDead ==
  \A t \in TokenIds : token[t].family \in dead => ~Usable(t)
=============================================================================
