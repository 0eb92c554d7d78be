----------------------------- MODULE AuthProofs -----------------------------
(***************************************************************************)
(* Proofs about Sessions, for any number of tokens, calls and engines, and *)
(* about Otp, for any codes, calls, attempts and threshold.                *)
(***************************************************************************)
EXTENDS Sessions, Otp, TotalsProofs

-----------------------------------------------------------------------------
(* Sessions: a family never has two live tokens, because the refresh that  *)
(* inserts a successor holds the lock of the only live one, and a          *)
(* revocation that met no refresh leaves none.                             *)

Live(t) == t \in Minted /\ ~token[t].rotated /\ ~token[t].revoked

(* A family is named after its first token.                                *)
Families ==
  \A t \in Minted :
    /\ token[t].family \in TokenIds
    /\ token[token[t].family].family = token[t].family

KnownTokens ==
  /\ held # 0 => held \in Minted
  /\ \A c \in Calls :
       /\ call[c].token # 0 => call[c].token \in Minted
       /\ call[c].next # 0 => call[c].next \in Minted
       /\ call[c].phase = "revoking" => call[c].token # 0

OneLive ==
  \A t, u \in TokenIds :
    Live(t) /\ Live(u) /\ token[t].family = token[u].family => t = u

(* The row lock of a refresh.                                              *)
Locks ==
  /\ \A c \in Calls : call[c].phase = "claimed" => Live(call[c].token)
  /\ \A c, d \in Calls :
       /\ call[c].phase = "claimed" /\ call[d].phase = "claimed"
       /\ call[c].token = call[d].token
       => c = d

(* A revocation that no refresh has crossed sees all there is.             *)
RevokesAll(c) ==
  /\ \A u \in Minted :
       token[u].family = token[call[c].token].family /\ ~token[u].revoked
         => u \in call[c].seen
  /\ \A d \in Calls :
       call[d].phase = "claimed" =>
         token[call[d].token].family # token[call[c].token].family

Revocations ==
  \A c \in Calls : call[c].phase = "revoking" /\ call[c].alone => RevokesAll(c)

DeadFamilies ==
  /\ \A f \in dead : f \in Minted
  /\ \A t \in TokenIds : token[t].family \in dead => ~Live(t)

SessionsInv ==
  /\ SessionsTypeOK
  /\ Families /\ KnownTokens /\ OneLive /\ Locks /\ Revocations /\ DeadFamilies

-----------------------------------------------------------------------------
(* 0 stands for no token.                                                  *)
LEMMA Zero == 0 \notin TokenIds /\ TokenIds \subseteq 0 .. MaxTokens /\ 0 \in 0 .. MaxTokens
BY SessionAssumption DEF TokenIds

(* Before the first login there is nothing to go wrong.                    *)
LEMMA SessionsInit_Inv == SessionsInit => SessionsInv
<1> SUFFICES ASSUME SessionsInit PROVE SessionsInv
  OBVIOUS
<1>1. NoToken \in Token /\ NoToken.family = 0
  BY Zero DEF NoToken, Token
<1>2. NoCall \in Call /\ NoCall.phase = "none" /\ NoCall.token = 0 /\ NoCall.next = 0
  BY Zero DEF NoCall, Call, CallPhases
<1>3. SessionsTypeOK
  BY <1>1, <1>2, Zero DEF SessionsInit, SessionsTypeOK
<1>4. Minted = {} /\ \A t : ~Live(t)
  BY <1>1 DEF SessionsInit, Minted, Live
<1> QED BY <1>2, <1>3, <1>4 DEF SessionsInit, SessionsInv, Families, KnownTokens, OneLive,
        Locks, Revocations, DeadFamilies

(* What a step may make of a call without claiming or revoking anything.   *)
Harmless(c) ==
  \/ call'[c] = call[c]
  \/ /\ \/ call'[c].phase \notin {"claimed", "revoking"}
        \/ /\ call'[c].phase = call[c].phase
           /\ call'[c].token = call[c].token
           /\ call'[c].seen = call[c].seen
           /\ call'[c].alone => call[c].alone
     /\ call'[c].token # 0 => call'[c].token \in Minted
     /\ call'[c].next # 0 => call'[c].next \in Minted

DeviceTypeOK ==
  /\ active \in BOOLEAN /\ excuse \in BOOLEAN
  /\ held \in 0 .. MaxTokens
  /\ call \in [Calls -> Call]
  /\ inFlight \in [Engines -> SUBSET Calls]

(* Harmless steps make no call one that has claimed a row or begun a       *)
(* revocation.                                                             *)
LEMMA HarmlessCalls ==
  ASSUME SessionsInv, \A c \in Calls : Harmless(c)
  PROVE  /\ \A c \in Calls : call'[c].phase = "claimed" =>
              call[c].phase = "claimed" /\ call'[c].token = call[c].token
         /\ \A c \in Calls : call'[c].phase = "revoking" =>
              /\ call[c].phase = "revoking" /\ call'[c].token = call[c].token
              /\ call'[c].seen = call[c].seen
              /\ call'[c].alone => call[c].alone
         /\ \A c \in Calls : /\ call'[c].token # 0 => call'[c].token \in Minted
                             /\ call'[c].next # 0 => call'[c].next \in Minted
BY DEF Harmless, SessionsInv, KnownTokens

(* Steps that keep every family and take tokens out of use at most.        *)
LEMMA TokensDie ==
  ASSUME SessionsInv, DeviceTypeOK',
         token' \in [TokenIds -> Token],
         \A t \in TokenIds : /\ token'[t].family = token[t].family
                             /\ token[t].rotated => token'[t].rotated
                             /\ token[t].revoked => token'[t].revoked,
         held' # 0 => held' \in Minted,
         \A c \in Calls : Harmless(c),
         \A c \in Calls : call'[c].phase = "claimed" => Live(call[c].token)',
         \A f \in dead' : f \in Minted,
         \A f \in dead' \ dead : \A t \in TokenIds : token[t].family = f => ~Live(t)'
  PROVE  SessionsInv'
<1> USE DEF SessionsInv
<1>1. Minted' = Minted /\ \A t \in TokenIds : Live(t)' => Live(t)
  BY DEF Minted, Live
<1>2. SessionsTypeOK'
  BY DEF SessionsTypeOK, DeviceTypeOK, Minted
<1>3. Families' /\ OneLive'
  BY <1>1 DEF Families, OneLive, Minted
<1>4. KnownTokens'
  BY <1>1, HarmlessCalls DEF KnownTokens
<1>5. Locks'
  BY HarmlessCalls DEF Locks
<1>6. Revocations'
  <2> SUFFICES ASSUME NEW c \in Calls, call'[c].phase = "revoking", call'[c].alone
               PROVE  RevokesAll(c)'
    BY DEF Revocations
  <2>1. /\ RevokesAll(c) /\ call'[c].token = call[c].token /\ call'[c].seen = call[c].seen
        /\ call[c].token \in TokenIds
    BY HarmlessCalls DEF Revocations, KnownTokens, Minted
  <2>2. \A d \in Calls : call'[d].phase = "claimed" =>
          /\ call[d].phase = "claimed" /\ call'[d].token = call[d].token
          /\ call[d].token \in TokenIds
    BY HarmlessCalls DEF Locks, Live, Minted
  <2> QED BY <1>1, <2>1, <2>2 DEF RevokesAll, Minted
<1>7. DeadFamilies'
  BY <1>1 DEF DeadFamilies
<1> QED BY <1>2, <1>3, <1>4, <1>5, <1>6, <1>7

(* Steps that write no row.                                                *)
LEMMA RowsStay ==
  ASSUME SessionsInv, DeviceTypeOK', UNCHANGED <<token, dead>>,
         held' # 0 => held' \in Minted,
         \A c \in Calls : Harmless(c)
  PROVE  SessionsInv'
<1>1. \A c \in Calls : call'[c].phase = "claimed" => Live(call[c].token)'
  BY HarmlessCalls DEF SessionsInv, Locks, Live, Minted
<1>2. \A f \in dead' : f \in Minted
  BY DEF SessionsInv, DeadFamilies
<1>3. token' \in [TokenIds -> Token]
  BY DEF SessionsInv, SessionsTypeOK
<1> QED BY <1>1, <1>2, <1>3, TokensDie

-----------------------------------------------------------------------------
(* The types of what the device and its calls hold.                        *)
LEMMA DeviceTypes ==
  ASSUME SessionsInv
  PROVE  /\ call \in [Calls -> Call] /\ inFlight \in [Engines -> SUBSET Calls]
         /\ held \in 0 .. MaxTokens
         /\ held # 0 => held \in Minted
         /\ active \in BOOLEAN /\ excuse \in BOOLEAN /\ DeviceTypeOK
         /\ NoCall \in Call /\ NoCall.phase = "none" /\ NoCall.token = 0 /\ NoCall.next = 0
         /\ \A c \in Calls : /\ call[c].token # 0 => call[c].token \in Minted
                             /\ call[c].next # 0 => call[c].next \in Minted
                             /\ call[c].next \in 0 .. MaxTokens
<1>1. NoCall \in Call /\ NoCall.phase = "none" /\ NoCall.token = 0 /\ NoCall.next = 0
  BY Zero DEF NoCall, Call, CallPhases
<1> QED BY <1>1 DEF SessionsInv, SessionsTypeOK, DeviceTypeOK, KnownTokens, Call

(* The device sends a call or takes its answer: no row changes.            *)
LEMMA DeviceKeeps ==
  ASSUME SessionsInv, NEW c \in Calls,
         (\E e \in Engines : RefreshOnce(e, c)) \/ Logout(c) \/ Answer(c) \/ AnswerLost(c)
  PROVE  SessionsInv'
<1>0. /\ call \in [Calls -> Call] /\ inFlight \in [Engines -> SUBSET Calls]
      /\ held \in 0 .. MaxTokens
      /\ held # 0 => held \in Minted
      /\ active \in BOOLEAN /\ excuse \in BOOLEAN /\ DeviceTypeOK
      /\ NoCall \in Call /\ NoCall.phase = "none" /\ NoCall.token = 0 /\ NoCall.next = 0
      /\ \A d \in Calls : /\ call[d].token # 0 => call[d].token \in Minted
                          /\ call[d].next # 0 => call[d].next \in Minted
                          /\ call[d].next \in 0 .. MaxTokens
  BY DeviceTypes
<1>1. ASSUME NEW logout \in BOOLEAN, NEW t \in {held, 0}, Begins(c, logout, t)
      PROVE  call' \in [Calls -> Call] /\ \A d \in Calls : Harmless(d)
  <2> DEFINE r == [NoCall EXCEPT !.phase = "sent", !.logout = logout, !.token = t]
  <2>1. /\ r \in Call /\ r.phase = "sent" /\ r.token = t /\ r.next = 0
        /\ call' = [call EXCEPT ![c] = r]
    <3>1. t \in 0 .. MaxTokens
      BY <1>0, <1>1, Zero
    <3> QED BY <1>0, <1>1, <3>1 DEF Begins, Call, CallPhases
  <2> HIDE DEF r
  <2>2. t # 0 => t \in Minted
    BY <1>0, <1>1
  <2> QED BY <1>0, <2>1, <2>2 DEF Harmless
<1>2. ASSUME NEW e \in Engines, RefreshOnce(e, c) PROVE SessionsInv'
  <2>1. call' \in [Calls -> Call] /\ \A d \in Calls : Harmless(d)
    BY <1>1, <1>2 DEF RefreshOnce
  <2>2. DeviceTypeOK'
    BY <1>0, <1>2, <2>1 DEF RefreshOnce, DeviceTypeOK
  <2> QED BY <1>0, <1>2, <2>1, <2>2, RowsStay DEF RefreshOnce
<1>3. CASE Logout(c)
  <2>1. call' \in [Calls -> Call] /\ \A d \in Calls : Harmless(d)
    BY <1>1, <1>3 DEF Logout
  <2>2. DeviceTypeOK'
    BY <1>0, <1>3, <2>1 DEF Logout, DeviceTypeOK
  <2> QED BY <1>0, <1>3, <2>1, <2>2, RowsStay DEF Logout
<1>4. CASE Answer(c)
  <2>1. call' \in [Calls -> Call] /\ \A d \in Calls : Harmless(d)
    BY <1>0, <1>4 DEF Answer, Forgets, Harmless
  <2>2. /\ held' \in 0 .. MaxTokens
        /\ held' # 0 => held' \in Minted
    BY <1>0, <1>4, Zero DEF Answer
  <2>3. inFlight' \in [Engines -> SUBSET Calls]
    BY <1>0, <1>4 DEF Answer, Forgets
  <2>9. DeviceTypeOK'
    BY <1>0, <1>4, <2>1, <2>2, <2>3 DEF Answer, DeviceTypeOK
  <2> QED BY <1>4, <2>1, <2>2, <2>3, <2>9, RowsStay DEF Answer
<1>5. CASE AnswerLost(c)
  <2> DEFINE r == [call[c] EXCEPT !.gone = call[c].logout]
  <2>1. /\ r \in Call /\ r.phase = call[c].phase /\ r.token = call[c].token
        /\ r.next = call[c].next /\ r.seen = call[c].seen /\ r.alone = call[c].alone
        /\ call' = [call EXCEPT ![c] = r]
    BY <1>0, <1>5 DEF AnswerLost, Call
  <2> HIDE DEF r
  <2>2. call' \in [Calls -> Call] /\ \A d \in Calls : Harmless(d)
    BY <1>0, <2>1 DEF Harmless
  <2>3. /\ held' \in 0 .. MaxTokens
        /\ held' # 0 => held' \in Minted
    BY <1>0, <1>5, Zero DEF AnswerLost
  <2>4. inFlight' \in [Engines -> SUBSET Calls]
    BY <1>0, <1>5 DEF AnswerLost
  <2>9. DeviceTypeOK'
    BY <1>0, <1>5, <2>2, <2>3, <2>4 DEF AnswerLost, DeviceTypeOK
  <2> QED BY <1>5, <2>2, <2>3, <2>4, <2>9, RowsStay DEF AnswerLost
<1> QED BY <1>2, <1>3, <1>4, <1>5

(* A call that is denied presents no token.                                *)
LEMMA DeniedCall ==
  ASSUME SessionsInv, NEW c \in Calls
  PROVE  /\ Denied(c) \in Call /\ Denied(c).phase = "denied"
         /\ Denied(c).token = 0 /\ Denied(c).next = call[c].next
BY Zero DEF SessionsInv, SessionsTypeOK, Denied, Call, CallPhases

(* A call that dies or fails gives its lock back.                          *)
LEMMA EndsOfCallsKeep ==
  ASSUME SessionsInv, NEW c \in Calls, CallDies(c) \/ CallFails(c)
  PROVE  SessionsInv'
<1>0. /\ call \in [Calls -> Call] /\ inFlight \in [Engines -> SUBSET Calls]
      /\ held \in 0 .. MaxTokens
      /\ held # 0 => held \in Minted
      /\ active \in BOOLEAN /\ excuse \in BOOLEAN /\ DeviceTypeOK
      /\ NoCall \in Call /\ NoCall.phase = "none" /\ NoCall.token = 0 /\ NoCall.next = 0
      /\ \A d \in Calls : /\ call[d].token # 0 => call[d].token \in Minted
                          /\ call[d].next # 0 => call[d].next \in Minted
                          /\ call[d].next \in 0 .. MaxTokens
  BY DeviceTypes
<1>1. CASE CallDies(c)
  <2>1. call' \in [Calls -> Call] /\ \A d \in Calls : Harmless(d)
    BY <1>0, <1>1 DEF CallDies, Forgets, Harmless
  <2>2. /\ held' \in 0 .. MaxTokens
        /\ held' # 0 => held' \in Minted
        /\ inFlight' \in [Engines -> SUBSET Calls]
    BY <1>0, <1>1, Zero DEF CallDies, Forgets
  <2>9. DeviceTypeOK'
    BY <1>0, <1>1, <2>1, <2>2 DEF CallDies, DeviceTypeOK
  <2> QED BY <1>1, <2>1, <2>2, <2>9, RowsStay DEF CallDies
<1>2. CASE CallFails(c)
  <2>1. call' \in [Calls -> Call] /\ \A d \in Calls : Harmless(d)
    BY <1>0, <1>2, DeniedCall DEF CallFails, Steps, Harmless
  <2>9. DeviceTypeOK'
    BY <1>0, <1>2, <2>1 DEF CallFails, DeviceTypeOK
  <2> QED BY <1>0, <1>2, <2>1, <2>9, RowsStay DEF CallFails
<1> QED BY <1>1, <1>2

(* What every step of the server finds.                                    *)
LEMMA ServerFinds ==
  ASSUME SessionsInv
  PROVE  /\ token \in [TokenIds -> Token] /\ 0 \notin TokenIds
         /\ \A t \in Minted : /\ t \in TokenIds
                              /\ token[t].family \in Minted
                              /\ token[token[t].family].family = token[t].family
BY Zero DEF SessionsInv, SessionsTypeOK, Families, Minted

(* Aging takes a usable token away and gives none.                         *)
LEMMA AgeKeeps ==
  ASSUME SessionsInv, NEW t \in TokenIds, Age(t)
  PROVE  SessionsInv'
<1> DEFINE r == [token[t] EXCEPT !.aged = TRUE]
<1>1. /\ r \in Token /\ r.family = token[t].family
      /\ r.rotated = token[t].rotated /\ r.revoked = token[t].revoked
      /\ token' = [token EXCEPT ![t] = r]
  BY ServerFinds DEF Age, Token
<1> HIDE DEF r
<1>2. /\ token' \in [TokenIds -> Token]
      /\ \A u \in TokenIds : /\ token'[u].family = token[u].family
                             /\ token'[u].rotated = token[u].rotated
                             /\ token'[u].revoked = token[u].revoked
  BY <1>1, ServerFinds
<1>3. DeviceTypeOK' /\ (held' # 0 => held' \in Minted) /\ \A c \in Calls : Harmless(c)
  BY DeviceTypes DEF Age, DeviceTypeOK, Harmless
<1>4. \A c \in Calls : call'[c].phase = "claimed" => Live(call[c].token)'
  BY <1>2 DEF Age, SessionsInv, Locks, Live, Minted
<1>5. dead' = dead /\ \A f \in dead : f \in Minted
  BY DEF Age, SessionsInv, DeadFamilies
<1> QED BY <1>2, <1>3, <1>4, <1>5, TokensDie

(* Deactivating the principal changes no row.                              *)
LEMMA DeactivateKeeps ==
  ASSUME SessionsInv, Deactivate
  PROVE  SessionsInv'
<1>1. DeviceTypeOK' /\ (held' # 0 => held' \in Minted) /\ \A c \in Calls : Harmless(c)
  BY DeviceTypes DEF Deactivate, DeviceTypeOK, Harmless
<1> QED BY <1>1, RowsStay DEF Deactivate

(* A row is added: to a family of its own, or to one whose live token a    *)
(* refresh has locked and rotates in the same transaction.                 *)
LEMMA LoginKeeps ==
  ASSUME SessionsInv, Login
  PROVE  SessionsInv'
<1> USE DEF SessionsInv
<1>1. PICK t \in FreshToken : /\ token' = [token EXCEPT ![t].family = t]
                              /\ held' = t
  BY DEF Login
<1>2. t \in TokenIds /\ t \notin Minted /\ t \in 0 .. MaxTokens /\ t # 0
  BY Zero DEF FreshToken
<1> DEFINE r == [token[t] EXCEPT !.family = t]
<1>3. r \in Token /\ r.family = t /\ token' = [token EXCEPT ![t] = r]
  BY <1>1, <1>2, ServerFinds DEF Token
<1> HIDE DEF r
<1>4. /\ token' \in [TokenIds -> Token]
      /\ token'[t].family = t
      /\ \A u \in TokenIds : u # t => token'[u] = token[u]
  BY <1>2, <1>3, ServerFinds
<1>5. Minted' = Minted \cup {t}
  BY <1>2, <1>4 DEF Minted
<1>6. \A u \in Minted : /\ token'[u] = token[u] /\ token[u].family # t
                        /\ Live(u)' <=> Live(u)
  BY <1>2, <1>4, <1>5, ServerFinds DEF Live
<1>7. SessionsTypeOK'
  BY <1>1, <1>2, <1>4 DEF Login, SessionsTypeOK
<1>8. Families'
  BY <1>2, <1>4, <1>5, <1>6, ServerFinds DEF Families
<1>9. KnownTokens'
  BY <1>1, <1>5 DEF Login, KnownTokens
<1>10. OneLive'
  BY <1>2, <1>4, <1>5, <1>6 DEF OneLive, Live
<1>11. Locks'
  BY <1>6 DEF Login, Locks, Live
<1>12. Revocations'
  <2> SUFFICES ASSUME NEW c \in Calls, call[c].phase = "revoking", call[c].alone
               PROVE  RevokesAll(c)'
    BY DEF Login, Revocations
  <2>1. RevokesAll(c) /\ call[c].token \in Minted /\ call' = call
    BY DEF Login, Revocations, KnownTokens
  <2>2. \A d \in Calls : call[d].phase = "claimed" => call[d].token \in Minted
    BY DEF Locks, Live
  <2> QED BY <1>4, <1>5, <1>6, <2>1, <2>2 DEF RevokesAll
<1>13. DeadFamilies'
  BY <1>2, <1>4, <1>5, <1>6 DEF Login, DeadFamilies, Live
<1> QED BY <1>7, <1>8, <1>9, <1>10, <1>11, <1>12, <1>13

(* refresh claims a usable row or is refused.                              *)
LEMMA RefreshClaimsKeeps ==
  ASSUME SessionsInv, NEW c \in Calls, RefreshClaims(c)
  PROVE  SessionsInv'
<1> USE DEF SessionsInv
<1> DEFINE t == call[c].token
           wins == Refreshable(t)
           own == [call[c] EXCEPT !.phase = IF wins THEN "claimed" ELSE "refused"]
           crossed(d) == /\ d # c /\ wins /\ call[d].phase = "revoking"
                         /\ call[d].seen \cap FamilyOf(t) # {}
           other(d) == [call[d] EXCEPT !.alone = FALSE]
<1>1. /\ call[c].phase = "sent" /\ ~LockedRow(t)
      /\ call' = [d \in Calls |-> CASE d = c -> own
                                    [] crossed(d) -> other(d)
                                    [] OTHER -> call[d]]
      /\ UNCHANGED <<token, active, held, inFlight, excuse, dead>>
  BY DEF RefreshClaims
<1>2. /\ own \in Call /\ own.phase = IF wins THEN "claimed" ELSE "refused"
      /\ own.token = t /\ own.next = call[c].next
  BY DeviceTypes DEF Call, CallPhases
<1>3. \A d \in Calls :
        /\ other(d) \in Call /\ other(d).phase = call[d].phase
        /\ other(d).token = call[d].token /\ other(d).next = call[d].next
        /\ other(d).seen = call[d].seen /\ other(d).alone = FALSE
  BY DeviceTypes DEF Call
<1>4. /\ call' \in [Calls -> Call]
      /\ call'[c] = own
      /\ \A d \in Calls \ {c} :
           /\ call'[d].phase = call[d].phase /\ call'[d].token = call[d].token
           /\ call'[d].next = call[d].next /\ call'[d].seen = call[d].seen
           /\ call'[d].alone => call[d].alone /\ ~crossed(d)
  <2>1. \A d \in Calls : call'[d] = IF d = c THEN own ELSE
                                    IF crossed(d) THEN other(d) ELSE call[d]
    BY <1>1
  <2>2. call' \in [Calls -> Call]
    <3> HIDE DEF own, other, crossed
    <3> QED BY <1>1, <1>2, <1>3, DeviceTypes
  <2> HIDE DEF own, other, crossed
  <2> QED BY <1>3, <2>1, <2>2
<1> HIDE DEF own, other
<1>5. DeviceTypeOK'
  BY <1>1, <1>4, DeviceTypes DEF DeviceTypeOK
<1>6. CASE ~wins
  <2>1. \A d \in Calls : Harmless(d)
    BY <1>2, <1>4, <1>6, DeviceTypes DEF Harmless
  <2> QED BY <1>1, <1>5, <2>1, DeviceTypes, RowsStay
<1>7. CASE wins
  <2>1. Live(t) /\ t \in Minted /\ call'[c].phase = "claimed" /\ call'[c].token = t
    BY <1>2, <1>4, <1>7 DEF Refreshable, Usable, Live
  <2>2. SessionsTypeOK' /\ Families' /\ OneLive' /\ DeadFamilies'
    BY <1>1, <1>5 DEF SessionsTypeOK, DeviceTypeOK, Families, OneLive, DeadFamilies, Live, Minted
  <2>3. KnownTokens'
    <3>1. \A d \in Calls : /\ call'[d].token = call[d].token
                           /\ call'[d].next = call[d].next
                           /\ call'[d].phase = "revoking" => call[d].phase = "revoking"
      BY <1>2, <1>4, <2>1
    <3> QED BY <1>1, <3>1 DEF KnownTokens, Minted
  <2>4. Locks'
    <3>1. \A d \in Calls \ {c} : call[d].phase = "claimed" => call[d].token # t
      BY <1>1 DEF LockedRow
    <3>2. \A d \in Calls : call'[d].phase = "claimed" => Live(call'[d].token)
      BY <1>4, <2>1 DEF Locks
    <3>3. \A u : Live(u)' <=> Live(u)
      BY <1>1 DEF Live, Minted
    <3>4. \A d \in Calls : call'[d].phase = "claimed" => Live(call[d].token)'
      BY <3>2, <3>3, <1>1 DEF Live, Minted
    <3>5. \A d, e \in Calls :
             call'[d].phase = "claimed" /\ call'[e].phase = "claimed"
             /\ call'[d].token = call'[e].token => d = e
      BY <1>4, <2>1, <3>1 DEF Locks
    <3> QED BY <3>4, <3>5 DEF Locks
  <2>5. Revocations'
    <3> SUFFICES ASSUME NEW d \in Calls, call'[d].phase = "revoking", call'[d].alone
                 PROVE  RevokesAll(d)'
      BY DEF Revocations
    <3>1. d # c /\ call[d].phase = "revoking" /\ call[d].alone /\ ~crossed(d)
          /\ call'[d].token = call[d].token /\ call'[d].seen = call[d].seen
      BY <1>4, <2>1
    <3>2. RevokesAll(d)
      BY <3>1 DEF Revocations
    <3>3. token[t].family # token[call[d].token].family
      BY <1>7, <2>1, <3>1, <3>2 DEF RevokesAll, FamilyOf, Live
    <3>4. \A e \in Calls : call'[e].phase = "claimed" =>
             token[call'[e].token].family # token[call[d].token].family
      BY <1>4, <2>1, <3>2, <3>3 DEF RevokesAll
    <3> QED BY <1>1, <3>1, <3>2, <3>4 DEF RevokesAll, Minted
  <2> QED BY <2>2, <2>3, <2>4, <2>5
<1> QED BY <1>6, <1>7

(* refresh rotates its row and inserts the only successor.                 *)
LEMMA RotationKeeps ==
  ASSUME SessionsInv, NEW c \in Calls, RefreshCommits(c), active
  PROVE  SessionsInv'
<1> USE DEF SessionsInv
<1> PICK t : t = call[c].token
  OBVIOUS
<1>1. PICK s \in FreshToken :
        /\ token' = [token EXCEPT ![t].rotated = TRUE, ![s].family = token[t].family]
        /\ call' = [call EXCEPT ![c] = [NoCall EXCEPT !.phase = "granted", !.next = s]]
  BY DEF RefreshCommits, Steps
<1>2. /\ call[c].phase = "claimed"
      /\ UNCHANGED <<active, held, inFlight, excuse, dead>>
  BY DEF RefreshCommits
<1>3. /\ s \in TokenIds /\ s \notin Minted /\ s \in 0 .. MaxTokens
      /\ Live(t) /\ t \in Minted /\ t \in TokenIds /\ t # s
  BY <1>2, Zero DEF FreshToken, Locks, Live, Minted
<1> DEFINE f == token[t].family
           old == [token[t] EXCEPT !.rotated = TRUE]
           new == [token[s] EXCEPT !.family = f]
           granted == [NoCall EXCEPT !.phase = "granted", !.next = s]
<1>4. /\ old \in Token /\ old.family = f /\ old.rotated
      /\ new \in Token /\ new.family = f
      /\ granted \in Call /\ granted.phase = "granted"
      /\ granted.token = 0 /\ granted.next = s
  <2>1. f \in 0 .. MaxTokens /\ token[t] \in Token /\ token[s] \in Token
    BY <1>3, ServerFinds, Zero DEF Minted
  <2>2. /\ old \in Token /\ old.family = f /\ old.rotated
        /\ new \in Token /\ new.family = f
    BY <2>1 DEF Token
  <2>3. /\ granted \in Call /\ granted.phase = "granted"
        /\ granted.token = 0 /\ granted.next = s
    BY <1>3, DeviceTypes DEF Call, CallPhases
  <2> QED BY <2>2, <2>3
<1>5. /\ token' = [[token EXCEPT ![t] = old] EXCEPT ![s] = new]
      /\ call' = [call EXCEPT ![c] = granted]
  BY <1>1, <1>3, ServerFinds
<1>6. f \in Minted /\ token[f].family = f /\ f # s
  BY <1>3, ServerFinds
<1> HIDE DEF f, old, new, granted
<1>7. /\ token' \in [TokenIds -> Token]
      /\ token'[t] = old /\ token'[s] = new
      /\ \A u \in TokenIds \ {t, s} : token'[u] = token[u]
  BY <1>3, <1>4, <1>5, ServerFinds
<1>6a. f # 0 /\ token[t].family = f
  BY <1>6, ServerFinds DEF f, Minted
<1>8. Minted' = Minted \cup {s}
  BY <1>3, <1>4, <1>7, <1>6a DEF Minted
<1>9. /\ \A u \in Minted : token'[u].family = token[u].family
      /\ token'[s].family = f
      /\ ~Live(t)'
      /\ \A u \in TokenIds \ {t, s} : Live(u)' <=> Live(u)
  <2>1. /\ \A u \in Minted : token'[u].family = token[u].family
        /\ token'[s].family = f
    <3>1. \A u \in Minted : u = t \/ u \in TokenIds \ {t, s}
      BY <1>3 DEF Minted
    <3> QED BY <1>4, <1>7, <1>6a, <3>1
  <2>2. ~Live(t)'
    BY <1>4, <1>7 DEF Live
  <2>3. \A u \in TokenIds \ {t, s} : Live(u)' <=> Live(u)
    BY <1>7, <1>8 DEF Live
  <2> QED BY <2>1, <2>2, <2>3
<1>10. /\ call' \in [Calls -> Call] /\ call'[c] = granted
       /\ \A d \in Calls \ {c} : call'[d] = call[d]
  BY <1>4, <1>5, DeviceTypes
<1>11. \A d \in Calls \ {c} : call[d].phase = "claimed" =>
          call[d].token # t /\ Live(call[d].token)
                            /\ call[d].token \in Minted \ {t, s}
  BY <1>2, <1>3 DEF Locks, Live
<1>12. SessionsTypeOK'
  BY <1>2, <1>7, <1>10 DEF SessionsTypeOK
<1>13. Families'
  BY <1>3, <1>6, <1>8, <1>9, ServerFinds DEF Families
<1>14. KnownTokens'
  <2>1. held' # 0 => held' \in Minted'
    BY <1>2, <1>8 DEF KnownTokens
  <2>2. ASSUME NEW d \in Calls
        PROVE  /\ call'[d].token # 0 => call'[d].token \in Minted'
               /\ call'[d].next # 0 => call'[d].next \in Minted'
               /\ call'[d].phase = "revoking" => call'[d].token # 0
    <3>1. CASE d = c
      BY <1>4, <1>8, <1>10, <3>1
    <3>2. CASE d # c
      BY <1>8, <1>10, <3>2 DEF KnownTokens
    <3> QED BY <3>1, <3>2
  <2> QED BY <2>1, <2>2 DEF KnownTokens
<1>15. OneLive'
  <2>1. \A u \in TokenIds \ {t, s} : Live(u)' => token'[u].family # f
    BY <1>3, <1>9 DEF OneLive, Live, f
  <2>2. \A u, v \in TokenIds \ {t, s} :
           Live(u)' /\ Live(v)' /\ token'[u].family = token'[v].family => u = v
    BY <1>9 DEF OneLive, Live
  <2>3. \A u \in TokenIds : Live(u)' => u # t
    BY <1>9
  <2> QED BY <1>9, <2>1, <2>2, <2>3 DEF OneLive
<1>16. Locks'
  <2>1. \A d \in Calls : call'[d].phase = "claimed" => d # c
    BY <1>4, <1>10
  <2>2. \A d \in Calls : call'[d].phase = "claimed" => Live(call[d].token)'
    <3> SUFFICES ASSUME NEW d \in Calls \ {c}, call[d].phase = "claimed"
                 PROVE  Live(call[d].token)'
      BY <1>10, <2>1
    <3>1. PICK u \in TokenIds \ {t, s} : u = call[d].token /\ Live(u)
      BY <1>11 DEF Minted
    <3>2. Live(u)'
      BY <1>9, <3>1
    <3> QED BY <1>10, <3>1, <3>2 DEF Live, Minted
  <2>3. \A d, e \in Calls :
           call'[d].phase = "claimed" /\ call'[e].phase = "claimed"
           /\ call'[d].token = call'[e].token => d = e
    BY <1>10, <2>1 DEF Locks
  <2> QED BY <2>2, <2>3 DEF Locks
<1>17. Revocations'
  <2> SUFFICES ASSUME NEW d \in Calls, call'[d].phase = "revoking", call'[d].alone
               PROVE  RevokesAll(d)'
    BY DEF Revocations
  <2>1. d # c /\ call'[d] = call[d]
    BY <1>4, <1>10
  <2>2. RevokesAll(d) /\ call[d].token \in Minted
    BY <2>1 DEF Revocations, KnownTokens
  <2>3. token[call[d].token].family # f
    BY <1>2, <2>2 DEF RevokesAll, f
  <2>4. \A u \in Minted' :
          token'[u].family = token'[call[d].token].family /\ ~token'[u].revoked
            => u \in call[d].seen
    <3>1. token'[call[d].token].family = token[call[d].token].family
      BY <1>9, <2>2
    <3>2. \A u \in Minted \ {t} : token'[u] = token[u]
      BY <1>3, <1>7 DEF Minted
    <3> QED BY <1>8, <1>9, <2>2, <2>3, <3>1, <3>2 DEF RevokesAll, f
  <2>5. \A e \in Calls : call'[e].phase = "claimed" =>
          token'[call'[e].token].family # token'[call[d].token].family
    <3>1. \A e \in Calls : call'[e].phase = "claimed" =>
            /\ call'[e] = call[e] /\ call[e].token \in Minted
      BY <1>4, <1>10, <1>11
    <3> QED BY <1>9, <2>2, <3>1 DEF RevokesAll
  <2> QED BY <2>1, <2>4, <2>5 DEF RevokesAll
<1>18. DeadFamilies'
  <2>1. f \notin dead
    BY <1>3 DEF DeadFamilies, f
  <2>2. \A u \in TokenIds \ {t, s} : token'[u].family \in dead => ~Live(u)'
    BY <1>7, <1>9 DEF DeadFamilies
  <2> QED BY <1>2, <1>8, <1>9, <2>1, <2>2 DEF DeadFamilies
<1> QED BY <1>12, <1>13, <1>14, <1>15, <1>16, <1>17, <1>18

(* refresh for a principal that may not sign in revokes the family and     *)
(* inserts nothing.                                                        *)
LEMMA ExclusionKeeps ==
  ASSUME SessionsInv, NEW c \in Calls, RefreshCommits(c), ~active
  PROVE  SessionsInv'
<1> DEFINE t == call[c].token
<1>1. /\ call[c].phase = "claimed"
      /\ token' = [u \in TokenIds |->
           IF u \in FamilyOf(t)
           THEN [token[u] EXCEPT !.revoked = TRUE, !.rotated = token[u].rotated \/ u = t]
           ELSE token[u]]
      /\ call' = [call EXCEPT ![c] = Denied(c)]
      /\ UNCHANGED <<active, held, inFlight, excuse, dead>>
  BY DEF RefreshCommits, Steps
<1>2. /\ token' \in [TokenIds -> Token]
      /\ \A u \in TokenIds : /\ token'[u].family = token[u].family
                             /\ token[u].rotated => token'[u].rotated
                             /\ token[u].revoked => token'[u].revoked
                             /\ u \notin FamilyOf(t) => token'[u] = token[u]
  <2> DEFINE gone(u) == [token[u] EXCEPT !.revoked = TRUE,
                                         !.rotated = token[u].rotated \/ u = t]
  <2>1. \A u \in TokenIds : /\ gone(u) \in Token /\ gone(u).family = token[u].family
                            /\ token[u].rotated => gone(u).rotated
                            /\ gone(u).revoked
    BY ServerFinds DEF Token
  <2>2. token' = [u \in TokenIds |-> IF u \in FamilyOf(t) THEN gone(u) ELSE token[u]]
    BY <1>1
  <2> HIDE DEF gone
  <2> QED BY <2>1, <2>2, ServerFinds
<1>3. /\ call' \in [Calls -> Call] /\ call'[c].phase = "denied"
      /\ \A d \in Calls : Harmless(d)
      /\ \A d \in Calls \ {c} : call'[d] = call[d]
  BY <1>1, DeniedCall, DeviceTypes DEF Harmless
<1>4. \A d \in Calls \ {c} : call[d].phase = "claimed" =>
        /\ Live(call[d].token) /\ call[d].token \notin FamilyOf(t)
  <2>1. Live(t) /\ t \in TokenIds
    BY <1>1 DEF SessionsInv, Locks, Live, Minted
  <2> QED BY <1>1, <2>1 DEF SessionsInv, Locks, OneLive, FamilyOf, Live, Minted
<1>5. \A d \in Calls : call'[d].phase = "claimed" => Live(call[d].token)'
  BY <1>2, <1>3, <1>4 DEF Live, Minted
<1>6. DeviceTypeOK' /\ (held' # 0 => held' \in Minted)
  BY <1>1, <1>3, DeviceTypes DEF DeviceTypeOK
<1>7. dead' = dead /\ \A f \in dead : f \in Minted
  BY <1>1 DEF SessionsInv, DeadFamilies
<1> QED BY <1>2, <1>3, <1>5, <1>6, <1>7, TokensDie

(* A revocation's UPDATE takes its snapshot of the family.                 *)
LEMMA RevokeStartsKeeps ==
  ASSUME SessionsInv, NEW c \in Calls, RevokeStarts(c)
  PROVE  SessionsInv'
<1> USE DEF SessionsInv
<1> DEFINE t == call[c].token
           none == t = 0 \/ (~call[c].logout /\ token[t].aged)
           r == [call[c] EXCEPT !.phase = "revoking",
                                !.seen = {u \in Family(t) : ~token[u].revoked},
                                !.alone = \A u \in FamilyOf(t) : ~LockedRow(u)]
<1>1. /\ call' = [call EXCEPT ![c] = IF none THEN Denied(c) ELSE r]
      /\ UNCHANGED <<token, active, held, inFlight, excuse, dead>>
  BY DEF RevokeStarts, Steps
<1>2. CASE none
  <2>1. call' = [call EXCEPT ![c] = Denied(c)]
    BY <1>1, <1>2
  <2>2. call' \in [Calls -> Call] /\ \A d \in Calls : Harmless(d)
    BY <2>1, DeniedCall, DeviceTypes DEF Harmless
  <2>3. DeviceTypeOK'
    BY <1>1, <2>2, DeviceTypes DEF DeviceTypeOK
  <2> QED BY <1>1, <2>2, <2>3, DeviceTypes, RowsStay
<1>3. CASE ~none
  <2>1. t # 0 /\ t \in Minted /\ t \in TokenIds /\ call' = [call EXCEPT ![c] = r]
    BY <1>1, <1>3, DeviceTypes, ServerFinds
  <2>2. /\ r \in Call /\ r.phase = "revoking" /\ r.token = t /\ r.next = call[c].next
        /\ r.seen = {u \in FamilyOf(t) : ~token[u].revoked}
        /\ r.alone => \A u \in FamilyOf(t) : ~LockedRow(u)
    BY DeviceTypes, Zero DEF Call, CallPhases, Family, FamilyOf, Minted
  <2> HIDE DEF r
  <2>3. /\ call' \in [Calls -> Call] /\ call'[c] = r
        /\ \A d \in Calls \ {c} : call'[d] = call[d]
    BY <2>1, <2>2, DeviceTypes
  <2>4. SessionsTypeOK' /\ Families' /\ OneLive' /\ DeadFamilies'
    BY <1>1, <2>3 DEF SessionsTypeOK, Families, OneLive, DeadFamilies, Live, Minted
  <2>5. KnownTokens'
    BY <1>1, <2>1, <2>2, <2>3 DEF KnownTokens, Minted
  <2>6. Locks'
    <3>1. \A d \in Calls : call'[d].phase = "claimed" => d # c
      BY <2>2, <2>3
    <3> QED BY <1>1, <2>3, <3>1 DEF Locks, Live, Minted
  <2>7. Revocations'
    <3> SUFFICES ASSUME NEW d \in Calls, call'[d].phase = "revoking", call'[d].alone
                 PROVE  RevokesAll(d)'
      BY DEF Revocations
    <3>1. \A e \in Calls : call'[e].phase = "claimed" =>
            e # c /\ call'[e] = call[e] /\ call[e].token \in Minted
      BY <2>2, <2>3 DEF Locks, Live
    <3>2. CASE d = c
      <4>1. \A u \in FamilyOf(t) : ~LockedRow(u)
        BY <2>2, <2>3, <3>2
      <4>2. \A e \in Calls : call'[e].phase = "claimed" =>
              token[call'[e].token].family # token[t].family
        BY <2>3, <3>1, <4>1 DEF LockedRow, FamilyOf
      <4>3. \A u \in Minted : token[u].family = token[t].family /\ ~token[u].revoked
              => u \in call'[c].seen
        BY <2>2, <2>3 DEF FamilyOf
      <4> QED BY <1>1, <2>2, <2>3, <3>2, <4>2, <4>3 DEF RevokesAll, Minted
    <3>3. CASE d # c
      <4>1. call'[d] = call[d] /\ RevokesAll(d)
        BY <2>3, <3>3 DEF Revocations
      <4> QED BY <1>1, <3>1, <4>1 DEF RevokesAll, Minted
    <3> QED BY <3>2, <3>3
  <2> QED BY <2>4, <2>5, <2>6, <2>7
<1> QED BY <1>2, <1>3

(* A revocation revokes what its snapshot held.                            *)
LEMMA RevokeEndsKeeps ==
  ASSUME SessionsInv, NEW c \in Calls, RevokeEnds(c)
  PROVE  SessionsInv'
<1> DEFINE t == call[c].token
<1>1. /\ call[c].phase = "revoking"
      /\ \A u \in call[c].seen : ~LockedRow(u)
      /\ token' = [u \in TokenIds |->
           IF u \in call[c].seen THEN [token[u] EXCEPT !.revoked = TRUE] ELSE token[u]]
      /\ dead' = dead \cup IF call[c].alone THEN {token[t].family} ELSE {}
      /\ call' = [call EXCEPT ![c] = Denied(c)]
      /\ UNCHANGED <<active, held, inFlight, excuse>>
  BY DEF RevokeEnds, Steps
<1>2. /\ token' \in [TokenIds -> Token]
      /\ \A u \in TokenIds : /\ token'[u].family = token[u].family
                             /\ token'[u].rotated = token[u].rotated
                             /\ token[u].revoked => token'[u].revoked
                             /\ u \in call[c].seen => token'[u].revoked
                             /\ u \notin call[c].seen => token'[u] = token[u]
  <2> DEFINE gone(u) == [token[u] EXCEPT !.revoked = TRUE]
  <2>1. \A u \in TokenIds : /\ gone(u) \in Token /\ gone(u).family = token[u].family
                            /\ gone(u).rotated = token[u].rotated /\ gone(u).revoked
    BY ServerFinds DEF Token
  <2>2. token' = [u \in TokenIds |-> IF u \in call[c].seen THEN gone(u) ELSE token[u]]
    BY <1>1
  <2> HIDE DEF gone
  <2> QED BY <2>1, <2>2, ServerFinds
<1>3. /\ call' \in [Calls -> Call] /\ call'[c].phase = "denied"
      /\ \A d \in Calls : Harmless(d)
      /\ \A d \in Calls \ {c} : call'[d] = call[d]
  BY <1>1, DeniedCall, DeviceTypes DEF Harmless
<1>4. \A d \in Calls : call'[d].phase = "claimed" => Live(call[d].token)'
  <2>1. \A d \in Calls : call'[d].phase = "claimed" =>
          /\ call[d].phase = "claimed" /\ Live(call[d].token)
          /\ call[d].token \notin call[c].seen
    BY <1>1, <1>3 DEF LockedRow, SessionsInv, Locks
  <2> QED BY <1>2, <1>3, <2>1 DEF Live, Minted
<1>5. DeviceTypeOK' /\ (held' # 0 => held' \in Minted)
  BY <1>1, <1>3, DeviceTypes DEF DeviceTypeOK
<1>6. t \in Minted /\ token[t].family \in Minted
  BY <1>1, ServerFinds DEF SessionsInv, KnownTokens
<1>7. \A f \in dead' : f \in Minted
  BY <1>1, <1>6 DEF SessionsInv, DeadFamilies
<1>8. \A f \in dead' \ dead : \A u \in TokenIds : token[u].family = f => ~Live(u)'
  <2> SUFFICES ASSUME NEW u \in TokenIds, call[c].alone, token[u].family = token[t].family,
                      u \in Minted, ~token[u].revoked
               PROVE  token'[u].revoked
    BY <1>1, <1>2 DEF Live, Minted
  <2>1. RevokesAll(c)
    BY <1>1 DEF SessionsInv, Revocations
  <2> QED BY <1>2, <2>1 DEF RevokesAll
<1> QED BY <1>2, <1>3, <1>4, <1>5, <1>7, <1>8, TokensDie

(* The invariant is inductive.                                             *)
LEMMA SessionsNext_Inv == SessionsInv /\ [SessionsNext]_sessionVars => SessionsInv'
<1> SUFFICES ASSUME SessionsInv, [SessionsNext]_sessionVars PROVE SessionsInv'
  OBVIOUS
<1>1. CASE UNCHANGED sessionVars
  <2>1. DeviceTypeOK' /\ (held' # 0 => held' \in Minted) /\ \A c \in Calls : Harmless(c)
    BY <1>1, DeviceTypes DEF sessionVars, DeviceTypeOK, Harmless
  <2> QED BY <1>1, <2>1, RowsStay DEF sessionVars
<1>2. CASE Login \/ Deactivate \/ \E t \in TokenIds : Age(t)
  BY <1>2, LoginKeeps, DeactivateKeeps, AgeKeeps
<1>3. ASSUME NEW c \in Calls,
             (\E e \in Engines : RefreshOnce(e, c)) \/ Logout(c) \/ Answer(c) \/ AnswerLost(c)
      PROVE  SessionsInv'
  BY <1>3, DeviceKeeps
<1>4. ASSUME NEW c \in Calls, RefreshClaims(c) \/ RefreshCommits(c)
      PROVE  SessionsInv'
  BY <1>4, RefreshClaimsKeeps, RotationKeeps, ExclusionKeeps
<1>5. ASSUME NEW c \in Calls,
             RevokeStarts(c) \/ RevokeEnds(c) \/ CallDies(c) \/ CallFails(c)
      PROVE  SessionsInv'
  BY <1>5, RevokeStartsKeeps, RevokeEndsKeeps, EndsOfCallsKeep
<1> QED BY <1>1, <1>2, <1>3, <1>4, <1>5 DEF SessionsNext

(* refresh rotates and inserts in one transaction behind the lock of the   *)
(* row it claims: a family never has two live tokens.                      *)
THEOREM FamiliesHaveOneToken == SessionsSpec => []OneLiveToken
<1>1. SessionsInv => OneLiveToken
  BY DEF SessionsInv, OneLive, OneLiveToken, Live, Usable
<1> QED BY <1>1, SessionsInit_Inv, SessionsNext_Inv, PTL DEF SessionsSpec

(* handleClaimFailure and revokeFamilyByToken leave no live token of the   *)
(* family when no refresh of it was under way.                             *)
THEOREM RevocationsHold == SessionsSpec => []RevokedFamilyStaysDead
<1>1. SessionsInv => RevokedFamilyStaysDead
  BY DEF SessionsInv, DeadFamilies, RevokedFamilyStaysDead, Live, Usable
<1> QED BY <1>1, SessionsInit_Inv, SessionsNext_Inv, PTL DEF SessionsSpec

-----------------------------------------------------------------------------
(* A device that keeps its session                                         *)

(* Live, or left to age.                                                   *)
Lasts(t) == Usable(t) \/ token[t].aged

(* While the principal is active and nothing went wrong, every call is the *)
(* refresh its engine waits for, it presents the token the device holds,   *)
(* and that token, or the successor on its way, is live or has aged.       *)
RefreshIsAwaited(c) ==
  /\ ~call[c].logout /\ held # 0
  /\ \E e \in Engines : c \in inFlight[e]
  /\ call[c].phase \in {"sent", "claimed", "refused", "granted", "denied"}
  /\ call[c].phase \in {"sent", "claimed", "refused"} => call[c].token = held
  /\ call[c].phase = "refused" => token[held].aged
  /\ call[c].phase = "granted" => call[c].next \in TokenIds /\ Lasts(call[c].next)

Granted == \E c \in Calls : call[c].phase = "granted"

SessionKept ==
  /\ \A t \in TokenIds : token[t].family = 0 => token[t] = NoToken
  /\ \A e \in Engines : \A c, d \in inFlight[e] : c = d
  /\ \A c \in Calls : call[c].phase # "none" => RefreshIsAwaited(c)
  /\ held # 0 /\ ~Granted => Lasts(held)

KeepsInv == active /\ ~excuse => SessionKept

(* With one engine, one call is under way.                                 *)
LEMMA OneCall ==
  ASSUME \A d, e \in Engines : d = e, SessionKept, NEW c \in Calls, NEW d \in Calls,
         call[c].phase # "none", call[d].phase # "none"
  PROVE  c = d
BY DEF SessionKept, RefreshIsAwaited

(* A device that is signed in alone keeps its session through a step.      *)
LEMMA KeepsStep ==
  ASSUME \A d, e \in Engines : d = e,
         SessionsInv, KeepsInv, [SessionsNext]_sessionVars
  PROVE  KeepsInv'
<1> SUFFICES ASSUME active', ~excuse' PROVE SessionKept'
  BY DEF KeepsInv
<1>1. active /\ ~excuse
  <2> DEFINE lost == (~active') \/ excuse'
             same == active' = active /\ excuse' = excuse
  <2>0. ~lost
    OBVIOUS
  <2>1. CASE Login \/ Deactivate \/ \E t \in TokenIds : Age(t)
    <3>1. lost \/ same
      BY <2>1 DEF Login, Deactivate, Age
    <3>2. same
      BY <2>0, <3>1, Zenon
    <3> QED BY <3>2
  <2>2. ASSUME NEW c \in Calls,
               \/ \E e \in Engines : RefreshOnce(e, c)
               \/ Logout(c) \/ Answer(c) \/ AnswerLost(c)
        PROVE  active /\ ~excuse
    <3>1. lost \/ same
      BY <2>2 DEF RefreshOnce, Logout, Answer, AnswerLost
    <3>2. same
      BY <2>0, <3>1, Zenon
    <3> QED BY <3>2
  <2>3. ASSUME NEW c \in Calls, RefreshClaims(c) \/ RefreshCommits(c)
        PROVE  active /\ ~excuse
    <3>1. UNCHANGED <<active, excuse>>
      BY <2>3, Zenon DEF RefreshClaims, RefreshCommits
    <3> QED BY <3>1
  <2>4. ASSUME NEW c \in Calls,
               RevokeStarts(c) \/ RevokeEnds(c) \/ CallDies(c) \/ CallFails(c)
        PROVE  active /\ ~excuse
    <3>1. lost \/ same
      BY <2>4 DEF RevokeStarts, RevokeEnds, CallDies, CallFails
    <3>2. same
      BY <2>0, <3>1, Zenon
    <3> QED BY <3>2
  <2>5. CASE UNCHANGED sessionVars
    <3>1. same
      BY <2>5 DEF sessionVars
    <3> QED BY <3>1
  <2> QED BY <2>1, <2>2, <2>3, <2>4, <2>5 DEF SessionsNext
<1>2. SessionKept
  BY <1>1 DEF KeepsInv
<1>3. /\ call \in [Calls -> Call] /\ inFlight \in [Engines -> SUBSET Calls]
      /\ held # 0 => held \in Minted
      /\ token \in [TokenIds -> Token]
  BY DeviceTypes DEF SessionsInv, SessionsTypeOK
<1>4. NoCall.phase = "none" /\ 0 \notin TokenIds /\ Minted \subseteq TokenIds
  BY Zero DEF NoCall, Minted
<1>5. CASE UNCHANGED sessionVars
  BY <1>2, <1>5 DEF sessionVars, SessionKept, RefreshIsAwaited, Granted, Lasts, Usable, Minted
<1>6. ASSUME \A c \in Calls : call[c].phase = "none", UNCHANGED <<call, inFlight>>,
             \A t \in TokenIds : token'[t].family = 0 => token'[t] = NoToken,
             held' # 0 => Lasts(held)'
      PROVE  SessionKept'
  BY <1>2, <1>6 DEF SessionKept
<1>7. CASE Login
  <2>1. PICK t \in FreshToken : token' = [token EXCEPT ![t].family = t] /\ held' = t
    BY <1>7 DEF Login
  <2>2. t \in TokenIds /\ token[t] = NoToken
    BY <1>2, <2>1 DEF FreshToken, Minted, SessionKept
  <2>3. Lasts(t)'
    BY <1>3, <1>4, <2>1, <2>2 DEF Lasts, Usable, Minted, NoToken, Token
  <2>4. \A u \in TokenIds : token'[u].family = 0 => token'[u] = NoToken
    BY <1>2, <1>3, <1>4, <2>1, <2>2 DEF SessionKept, NoToken, Token
  <2>5. \A c \in Calls : call[c].phase = "none"
    BY <1>2, <1>7 DEF Login, SessionKept, RefreshIsAwaited
  <2> QED BY <1>6, <1>7, <2>1, <2>3, <2>4, <2>5 DEF Login
<1>8. ASSUME NEW t \in TokenIds, Age(t) PROVE SessionKept'
  <2>1. /\ t \in Minted /\ token' = [token EXCEPT ![t].aged = TRUE]
        /\ UNCHANGED <<held, call, inFlight>>
    BY <1>8 DEF Age, Usable
  <2>2. \A u \in TokenIds : /\ token'[u].family = token[u].family
                            /\ token'[u].aged = (token[u].aged \/ u = t)
                            /\ u # t => token'[u] = token[u]
    BY <1>3, <2>1 DEF Token
  <2>3. \A u \in TokenIds : Lasts(u) => Lasts(u)'
    BY <1>3, <2>2 DEF Lasts, Usable, Minted, Token
  <2>4. \A u \in TokenIds : token'[u].family = 0 => token'[u] = NoToken
    BY <1>2, <2>1, <2>2 DEF SessionKept, Minted
  <2>5. held # 0 => held \in TokenIds /\ (token[held].aged => token'[held].aged)
    BY <1>3, <1>4, <2>2
  <2>6. \A c \in Calls : RefreshIsAwaited(c) => RefreshIsAwaited(c)'
    BY <2>1, <2>3, <2>5 DEF RefreshIsAwaited
  <2> QED BY <1>2, <2>1, <2>3, <2>4, <2>5, <2>6 DEF SessionKept, Granted
<1>9. ASSUME NEW c \in Calls, UNCHANGED token,
             \A d \in Calls : d # c => call'[d] = call[d] /\ call[d].phase = "none",
             \A e \in Engines : \A d, f \in inFlight'[e] : d = f,
             call'[c].phase # "none" => RefreshIsAwaited(c)',
             call'[c].phase = "granted" \/ held' = 0 \/ Lasts(held)'
      PROVE  SessionKept'
  BY <1>2, <1>9 DEF SessionKept, Granted
<1>10. ASSUME NEW c \in Calls, call[c].phase # "none"
       PROVE  /\ \A d \in Calls : d # c => call[d].phase = "none"
              /\ RefreshIsAwaited(c) /\ held \in TokenIds
              /\ call[c].phase # "granted" => Lasts(held)
              /\ ~LogoutAwaited(c)
  <2>1. \A d \in Calls : d # c => call[d].phase = "none"
    BY <1>2, <1>10, OneCall
  <2>2. RefreshIsAwaited(c)
    BY <1>2, <1>10 DEF SessionKept
  <2>3. held \in TokenIds /\ ~LogoutAwaited(c)
    BY <1>3, <1>4, <2>2 DEF RefreshIsAwaited, LogoutAwaited
  <2> QED BY <1>2, <2>1, <2>2, <2>3 DEF SessionKept, Granted, RefreshIsAwaited
<1>11. ASSUME NEW c \in Calls, NEW e \in Engines, RefreshOnce(e, c) PROVE SessionKept'
  <2>1. /\ held # 0 /\ inFlight[e] = {} /\ inFlight' = [inFlight EXCEPT ![e] = {c}]
        /\ call' = [call EXCEPT ![c] = [NoCall EXCEPT !.phase = "sent", !.logout = FALSE,
                                                      !.token = held]]
        /\ UNCHANGED <<token, held>>
    BY <1>11 DEF RefreshOnce, Begins
  <2>2. \A d \in Calls : call[d].phase = "none"
    BY <1>2, <2>1 DEF SessionKept, RefreshIsAwaited
  <2>3. /\ call'[c].phase = "sent" /\ ~call'[c].logout /\ call'[c].token = held
        /\ \A d \in Calls : d # c => call'[d] = call[d]
    BY <1>3, <2>1 DEF NoCall
  <2>4. /\ inFlight'[e] = {c}
        /\ \A f \in Engines : \A d, g \in inFlight'[f] : d = g
    BY <1>3, <2>1
  <2>5. Lasts(held)
    BY <1>2, <2>1, <2>2 DEF SessionKept, Granted
  <2>6. Lasts(held)'
    BY <2>1, <2>5 DEF Lasts, Usable, Minted
  <2>7. RefreshIsAwaited(c)'
    BY <2>1, <2>3, <2>4 DEF RefreshIsAwaited
  <2> QED BY <1>9, <2>1, <2>2, <2>3, <2>4, <2>6, <2>7
<1>12. ASSUME NEW c \in Calls, Answer(c) PROVE SessionKept'
  <2>1. /\ call[c].phase \in {"granted", "denied"} /\ Forgets(c) /\ UNCHANGED token
        /\ held' = IF LogoutAwaited(c) THEN 0
                   ELSE IF \A e \in Engines : c \notin inFlight[e] THEN held
                   ELSE IF call[c].phase = "granted" THEN call[c].next ELSE 0
    BY <1>12 DEF Answer
  <2>2. /\ \A d \in Calls : d # c => call'[d] = call[d]
        /\ call'[c].phase = "none"
        /\ \A e \in Engines : \A d, f \in inFlight'[e] : d = f
    BY <1>2, <1>3, <1>4, <2>1 DEF Forgets, SessionKept
  <2>3. held' = IF call[c].phase = "granted" THEN call[c].next ELSE 0
    BY <1>10, <2>1 DEF RefreshIsAwaited
  <2>4. held' = 0 \/ Lasts(held)'
    <3>1. CASE call[c].phase = "granted"
      <4>1. held' = call[c].next /\ Lasts(call[c].next)
        BY <1>10, <2>3, <3>1 DEF RefreshIsAwaited
      <4>2. \A t : Lasts(t) => Lasts(t)'
        BY <2>1 DEF Lasts, Usable, Minted
      <4> QED BY <4>1, <4>2 DEF Lasts, Usable, Minted
    <3> QED BY <2>3, <3>1
  <2> QED BY <1>9, <1>10, <2>1, <2>2, <2>4
<1>13. ASSUME NEW c \in Calls, RefreshClaims(c) PROVE SessionKept'
  <2>1. /\ call[c].phase = "sent"
        /\ call' = [d \in Calls |->
             CASE d = c -> [call[c] EXCEPT !.phase =
                              IF Refreshable(call[c].token) THEN "claimed" ELSE "refused"]
               [] d # c /\ Refreshable(call[c].token) /\ call[d].phase = "revoking"
                  /\ call[d].seen \cap FamilyOf(call[c].token) # {} ->
                    [call[d] EXCEPT !.alone = FALSE]
               [] OTHER -> call[d]]
        /\ UNCHANGED <<token, held, inFlight>>
    BY <1>13 DEF RefreshClaims
  <2>2. /\ \A d \in Calls : d # c => call[d].phase = "none"
        /\ RefreshIsAwaited(c) /\ held \in TokenIds /\ Lasts(held)
        /\ call[c].token = held
    BY <1>10, <2>1 DEF RefreshIsAwaited
  <2>3. \A d \in Calls : d # c => call'[d] = call[d]
    BY <2>1, <2>2, Zenon
  <2>4. call'[c] = [call[c] EXCEPT !.phase = IF Usable(held) THEN "claimed" ELSE "refused"]
    BY <2>1, <2>2, Zenon DEF Refreshable
  <2>5. /\ call'[c].phase = IF Usable(held) THEN "claimed" ELSE "refused"
        /\ call'[c].logout = call[c].logout /\ call'[c].token = call[c].token
        /\ call'[c].next = call[c].next
    BY <1>3, <2>4 DEF Call
  <2>6. Lasts(held)' /\ (~Usable(held) => token'[held].aged)
    BY <2>1, <2>2 DEF Lasts, Usable, Minted
  <2>7. RefreshIsAwaited(c)'
    BY <2>1, <2>2, <2>5, <2>6 DEF RefreshIsAwaited
  <2>8. \A e \in Engines : \A d, f \in inFlight'[e] : d = f
    BY <1>2, <2>1 DEF SessionKept
  <2> QED BY <1>9, <2>1, <2>2, <2>3, <2>6, <2>7, <2>8
<1>14. ASSUME NEW c \in Calls, RefreshCommits(c) PROVE SessionKept'
  <2>1. /\ \A d \in Calls : d # c => call[d].phase = "none"
        /\ RefreshIsAwaited(c) /\ held \in TokenIds /\ call[c].token = held
    BY <1>10, <1>14 DEF RefreshCommits, RefreshIsAwaited
  <2>2. PICK s \in FreshToken :
          /\ token' = [token EXCEPT ![held].rotated = TRUE,
                                    ![s].family = token[held].family]
          /\ Steps(c, [NoCall EXCEPT !.phase = "granted", !.next = s])
          /\ UNCHANGED <<held, inFlight>>
    BY <1>1, <1>14, <2>1 DEF RefreshCommits
  <2>3. s \in TokenIds /\ token[s] = NoToken /\ held \in Minted /\ s # held
    BY <1>2, <1>3, <2>1, <2>2 DEF FreshToken, Minted, SessionKept, RefreshIsAwaited
  <2>4. /\ token'[s].family = token[held].family
        /\ token'[s].rotated = FALSE /\ token'[s].revoked = FALSE
        /\ token'[held].family = token[held].family
        /\ \A u \in TokenIds : u # s /\ u # held => token'[u] = token[u]
    BY <1>3, <2>1, <2>2, <2>3 DEF Token, NoToken
  <2>5. token[held].family # 0
    BY <2>3 DEF Minted
  <2>6. \A u \in TokenIds : token'[u].family = 0 => token'[u] = NoToken
    BY <1>2, <2>4, <2>5 DEF SessionKept
  <2>7. Lasts(s)'
    BY <2>3, <2>4, <2>5 DEF Lasts, Usable, Minted
  <2>8. /\ call'[c].phase = "granted" /\ call'[c].next = s /\ ~call'[c].logout
        /\ \A d \in Calls : d # c => call'[d] = call[d]
    BY <1>3, <2>2 DEF Steps, NoCall
  <2>9. RefreshIsAwaited(c)'
    BY <2>1, <2>2, <2>3, <2>7, <2>8 DEF RefreshIsAwaited
  <2> QED BY <1>2, <2>1, <2>2, <2>6, <2>8, <2>9 DEF SessionKept, Granted
<1>15. ASSUME NEW c \in Calls, RevokeStarts(c) PROVE SessionKept'
  <2>1. /\ RefreshIsAwaited(c) /\ call[c].phase = "refused" /\ held \in TokenIds
        /\ call[c].token = held /\ token[held].aged
        /\ \A d \in Calls : d # c => call[d].phase = "none"
    BY <1>10, <1>15 DEF RevokeStarts, RefreshIsAwaited
  <2>2. Steps(c, Denied(c)) /\ UNCHANGED <<token, held, inFlight>>
    BY <1>15, <2>1 DEF RevokeStarts, RefreshIsAwaited
  <2>3. /\ call'[c].phase = "denied" /\ call'[c].logout = call[c].logout
        /\ \A d \in Calls : d # c => call'[d] = call[d]
    BY <1>3, <2>2 DEF Steps, Denied, Call
  <2>4. RefreshIsAwaited(c)' /\ Lasts(held)'
    BY <2>1, <2>2, <2>3 DEF RefreshIsAwaited, Lasts
  <2>5. \A e \in Engines : \A d, f \in inFlight'[e] : d = f
    BY <1>2, <2>2 DEF SessionKept
  <2> QED BY <1>9, <2>1, <2>2, <2>3, <2>4, <2>5
<1>16. ASSUME NEW c \in Calls, CallDies(c) PROVE SessionKept'
  <2>1. /\ call[c].phase \in {"sent", "claimed", "refused", "revoking"} /\ Forgets(c)
        /\ UNCHANGED token
    BY <1>16 DEF CallDies
  <2>2. held' = held /\ Lasts(held) /\ \A d \in Calls : d # c => call[d].phase = "none"
    BY <1>10, <1>16, <2>1 DEF CallDies
  <2>3. /\ \A d \in Calls : d # c => call'[d] = call[d]
        /\ call'[c].phase = "none"
        /\ \A e \in Engines : \A d, f \in inFlight'[e] : d = f
    BY <1>2, <1>3, <1>4, <2>1 DEF Forgets, SessionKept
  <2>4. Lasts(held)'
    BY <2>1, <2>2 DEF Lasts, Usable, Minted
  <2> QED BY <1>9, <2>1, <2>2, <2>3, <2>4
<1>17. \A c \in Calls : ~RevokeEnds(c)
  BY <1>10 DEF RevokeEnds, RefreshIsAwaited
<1>18. ~Deactivate /\ \A c \in Calls : ~Logout(c) /\ ~AnswerLost(c) /\ ~CallFails(c)
  BY DEF Deactivate, Logout, AnswerLost, CallFails
<1> QED
  BY <1>5, <1>7, <1>8, <1>11, <1>12, <1>13, <1>14, <1>15, <1>16, <1>17, <1>18
  DEF SessionsNext

(* createRequestEngine: a device with one engine that lost no answer, got  *)
(* no 5xx and asked for no logout keeps the session it has.                *)
THEOREM OneEngineKeepsItsSession ==
  (\A d, e \in Engines : d = e) => (SessionsSpec => []KeepsItsSession)
<1> SUFFICES ASSUME \A d, e \in Engines : d = e
             PROVE  SessionsSpec => []KeepsItsSession
  OBVIOUS
<1>1. SessionsInit => KeepsInv
  BY Zero DEF SessionsInit, KeepsInv, SessionKept, NoToken, NoCall
<1>2. SessionsInv /\ KeepsInv /\ [SessionsNext]_sessionVars => KeepsInv'
  BY KeepsStep
<1>3. KeepsInv => KeepsItsSession
  <2> SUFFICES ASSUME SessionKept, held # 0, ~Lasts(held)
               PROVE  \E e \in Engines : \E c \in inFlight[e] :
                        /\ call[c].phase = "granted"
                        /\ Usable(call[c].next) \/ token[call[c].next].aged
    BY DEF KeepsInv, KeepsItsSession, Lasts
  <2>1. PICK c \in Calls : call[c].phase = "granted" /\ RefreshIsAwaited(c)
    BY DEF SessionKept, Granted
  <2> QED BY <2>1 DEF RefreshIsAwaited, Lasts
<1> QED
  BY <1>1, <1>2, <1>3, SessionsInit_Inv, SessionsNext_Inv, PTL DEF SessionsSpec

-----------------------------------------------------------------------------
(* Otp: a verification that is still to count pays for the code it may     *)
(* burn, and a lock that is written, or about to be, is earned.            *)

OtpRow ==
  [made : BOOLEAN, live : BOOLEAN, consumed : BOOLEAN, attempts : 0 .. OtpAttempts,
   lock : {"none", "live", "served"}, recent : BOOLEAN, afresh : BOOLEAN]

CallRow ==
  [phase : {"idle", "cooldown", "expiring", "creating", "finding", "counting",
            "consuming", "failed", "locking"},
   code : 0 .. MaxCodes]

(* The verifications that have passed isLocked and not counted yet.        *)
Verifying == {k \in OtpCalls : otpCall[k].phase \in {"finding", "counting"}}

(* The codes used up since the last lock was served.                       *)
Earned == {c \in Made : otp[c].afresh /\ otp[c].attempts = OtpAttempts}

LockLooms ==
  \/ \E c \in Made : otp[c].lock = "live"
  \/ \E k \in OtpCalls : otpCall[k].phase = "locking"

(* Each verification still to count may burn one more code.                *)
Budget ==
  Cardinality(BurnedInWindow) + Cardinality(Verifying)
    < LockoutThreshold + Cardinality(OtpCalls)

LockEarned == LockLooms => Cardinality(Earned) >= LockoutThreshold

CodesAreMade ==
  \A k \in OtpCalls :
    otpCall[k].phase \in {"counting", "consuming", "locking"} => otpCall[k].code \in Codes

OtpInv == OtpTypeOK /\ CodesAreMade /\ Budget /\ LockEarned

-----------------------------------------------------------------------------
(* The rows of a phone are finitely many.                                  *)
LEMMA CodesFinite == IsFiniteSet(Codes) /\ 0 \in 0 .. MaxCodes /\ Codes \subseteq 0 .. MaxCodes
BY OtpAssumption, FS_Interval DEF Codes

(* So are the codes burned or earned and the calls that count them.        *)
LEMMA OtpFinite ==
  /\ IsFiniteSet(BurnedInWindow) /\ Cardinality(BurnedInWindow) \in Nat
  /\ IsFiniteSet(Verifying) /\ Cardinality(Verifying) \in Nat
  /\ Cardinality(Verifying) <= Cardinality(OtpCalls)
  /\ IsFiniteSet(Earned) /\ Cardinality(Earned) \in Nat
  /\ Cardinality(OtpCalls) \in Nat
<1>1. IsFiniteSet(Codes)
  BY CodesFinite
<1>2. BurnedInWindow \subseteq Codes /\ Earned \subseteq Codes
  BY DEF BurnedInWindow, Earned, Made
<1>3. IsFiniteSet(OtpCalls) /\ Verifying \subseteq OtpCalls
  BY OtpAssumption DEF Verifying
<1> QED
  BY <1>1, <1>2, <1>3, FS_Subset, FS_CardinalityType

(* A row whose attempts are used up is exactly used up.                    *)
LEMMA BurnedIsEarned ==
  ASSUME OtpTypeOK
  PROVE  BurnedInWindow \subseteq Earned
<1> SUFFICES ASSUME NEW c \in BurnedInWindow PROVE c \in Earned
  OBVIOUS
<1>1. otp[c].attempts \in 0 .. OtpAttempts /\ c \in Made
  BY DEF OtpTypeOK, BurnedInWindow, Made
<1> QED
  BY <1>1, OtpAssumption DEF BurnedInWindow, Earned, InWindow

(* What a step that burns at most what it gives up does to the budget.     *)
LEMMA BudgetStays ==
  ASSUME Budget, BurnedInWindow' \subseteq BurnedInWindow, Verifying' \subseteq Verifying
  PROVE  Budget'
<1>1. /\ Cardinality(BurnedInWindow') <= Cardinality(BurnedInWindow)
      /\ Cardinality(Verifying') <= Cardinality(Verifying)
      /\ Cardinality(BurnedInWindow') \in Nat /\ Cardinality(Verifying') \in Nat
  BY OtpFinite, FS_Subset, FS_CardinalityType
<1>2. Budget' <=> Cardinality(BurnedInWindow') + Cardinality(Verifying')
                    < LockoutThreshold + Cardinality(OtpCalls)
  BY DEF Budget
<1> QED
  BY <1>1, <1>2, OtpFinite, OtpAssumption DEF Budget

(* A lock that was there, or that too many burned codes call for, is       *)
(* earned as long as no earned code is forgotten.                          *)
LEMMA LockStaysEarned ==
  ASSUME LockEarned, OtpTypeOK, Earned \subseteq Earned', IsFiniteSet(Earned'),
         LockLooms' => LockLooms \/ TooManyBurned
  PROVE  LockEarned'
<1>1. /\ Cardinality(Earned) <= Cardinality(Earned')
      /\ Cardinality(BurnedInWindow) <= Cardinality(Earned)
      /\ Cardinality(Earned') \in Nat
  BY OtpFinite, BurnedIsEarned, FS_Subset, FS_CardinalityType
<1>2. LockEarned' <=> (LockLooms' => Cardinality(Earned') >= LockoutThreshold)
  BY DEF LockEarned
<1> QED
  BY <1>1, <1>2, OtpFinite, OtpAssumption DEF LockEarned, TooManyBurned

-----------------------------------------------------------------------------
(* Nothing is burned or locked to begin with.                              *)
LEMMA OtpInit_Inv == OtpInit => OtpInv
<1> SUFFICES ASSUME OtpInit PROVE OtpInv
  OBVIOUS
<1>1. OtpTypeOK
  <2>1. NoOtp \in OtpRow /\ NoOtpCall \in CallRow
    BY OtpAssumption DEF NoOtp, NoOtpCall, OtpRow, CallRow
  <2> QED
    BY <2>1 DEF OtpInit, OtpTypeOK, OtpRow, CallRow
<1>2. CodesAreMade /\ ~LockLooms
  BY DEF OtpInit, CodesAreMade, NoOtpCall, LockLooms, Made, NoOtp
<1>3. BurnedInWindow = {} /\ Verifying = {}
  BY DEF OtpInit, BurnedInWindow, Verifying, Made, NoOtp, NoOtpCall
<1>4. Budget
  BY <1>3, OtpFinite, OtpAssumption, FS_EmptySet DEF Budget
<1> QED
  BY <1>1, <1>2, <1>4 DEF OtpInv, LockEarned

(* A step that changes no row, and locks a phone only with a reason.       *)
LEMMA RowsUntouched ==
  ASSUME OtpInv, UNCHANGED otp, OtpTypeOK', CodesAreMade',
         Verifying' \subseteq Verifying \/ ~TooManyBurned,
         LockLooms' => LockLooms \/ TooManyBurned
  PROVE  OtpInv'
<1>1. BurnedInWindow' = BurnedInWindow /\ Earned' = Earned
  BY DEF BurnedInWindow, Earned, Made, InWindow
<1>2. LockEarned'
  BY <1>1, LockStaysEarned, OtpFinite DEF OtpInv
<1>3. CASE Verifying' \subseteq Verifying
  BY <1>1, <1>2, <1>3, BudgetStays DEF OtpInv
<1>4. CASE ~TooManyBurned
  <2>1. Verifying' \subseteq OtpCalls
    BY DEF Verifying
  <2>2. /\ Cardinality(Verifying') <= Cardinality(OtpCalls)
        /\ Cardinality(Verifying') \in Nat
    BY <2>1, OtpAssumption, FS_Subset, FS_CardinalityType
  <2>3. Budget' <=> Cardinality(BurnedInWindow) + Cardinality(Verifying')
                      < LockoutThreshold + Cardinality(OtpCalls)
    BY <1>1 DEF Budget
  <2>4. Budget'
    BY <1>4, <2>2, <2>3, OtpFinite, OtpAssumption DEF TooManyBurned
  <2> QED
    BY <1>2, <2>4 DEF OtpInv
<1> QED
  BY <1>3, <1>4

(* A step that changes the rows, uses up no code and locks nothing new.    *)
LEMMA RowsChange ==
  ASSUME OtpInv, OtpTypeOK', CodesAreMade', Verifying' \subseteq Verifying,
         BurnedInWindow' \subseteq BurnedInWindow, Earned \subseteq Earned',
         LockLooms' => LockLooms
  PROVE  OtpInv'
<1>1. IsFiniteSet(Earned')
  <2>1. Earned' \subseteq Codes
    BY DEF Earned, Made
  <2> QED
    BY <2>1, CodesFinite, FS_Subset
<1> QED
  BY <1>1, BudgetStays, LockStaysEarned DEF OtpInv

(* A call that goes on, or ends, without changing a row.                   *)
LEMMA CallMoves ==
  ASSUME OtpInv, NEW k \in OtpCalls, NEW r \in CallRow,
         UNCHANGED <<otp, cooling>>, otpCall' = [otpCall EXCEPT ![k] = r],
         r.phase \in {"counting", "consuming", "locking"} => r.code \in Codes,
         r.phase \in {"finding", "counting"} => k \in Verifying \/ ~TooManyBurned,
         r.phase = "locking" => TooManyBurned
  PROVE  OtpInv'
<1>1. otpCall \in [OtpCalls -> CallRow]
  BY DEF OtpInv, OtpTypeOK, CallRow
<1>2. otpCall'[k] = r /\ \A j \in OtpCalls \ {k} : otpCall'[j] = otpCall[j]
  BY <1>1
<1>3. OtpTypeOK'
  <2>1. otpCall' \in [OtpCalls -> CallRow]
    BY <1>1
  <2> QED
    BY <2>1 DEF OtpInv, OtpTypeOK, CallRow
<1>4. CodesAreMade'
  BY <1>2 DEF OtpInv, CodesAreMade, Codes
<1>5. Verifying' \subseteq Verifying \/ ~TooManyBurned
  BY <1>2 DEF Verifying
<1>6. LockLooms' => LockLooms \/ TooManyBurned
  BY <1>2 DEF LockLooms, Made, Codes
<1> QED
  BY <1>3, <1>4, <1>5, <1>6, RowsUntouched

(* A call begins or goes on only where isLocked let it, before the         *)
(* threshold.                                                              *)
LEMMA RequestsKeep ==
  ASSUME OtpInv, NEW k \in OtpCalls,
         \/ RequestOtp(k) \/ RequestCools(k) \/ VerifyOtp(k) \/ OtpCallDies(k)
  PROVE  OtpInv'
<1>1. NoOtpCall \in CallRow /\ NoOtpCall.phase = "idle"
  BY OtpAssumption DEF NoOtpCall, CallRow
<1>2. otpCall \in [OtpCalls -> CallRow]
  BY DEF OtpInv, OtpTypeOK, CallRow
<1>3. ASSUME NEW p \in {"idle", "cooldown", "expiring", "finding"}, Proceeds(k, p),
             UNCHANGED <<otp, cooling>>, p = "finding" => ~TooManyBurned
      PROVE  OtpInv'
  <2> DEFINE r == [otpCall[k] EXCEPT !.phase = p]
  <2>1. r \in CallRow /\ r.phase = p /\ otpCall' = [otpCall EXCEPT ![k] = r]
    BY <1>2, <1>3 DEF Proceeds, CallRow
  <2> HIDE DEF r
  <2> QED
    BY <1>3, <2>1, CallMoves
<1>4. CASE RequestOtp(k) \/ VerifyOtp(k)
  BY <1>3, <1>4 DEF RequestOtp, VerifyOtp, OtpCallBegins, PhoneLocked
<1>5. CASE RequestCools(k)
  BY <1>3, <1>5 DEF RequestCools
<1>6. CASE OtpCallDies(k)
  BY <1>1, <1>6, CallMoves DEF OtpCallDies
<1> QED
  BY <1>4, <1>5, <1>6

(* Finding a code keeps a verification among those still to count.         *)
LEMMA VerifyFindsKeeps ==
  ASSUME OtpInv, NEW k \in OtpCalls, VerifyFinds(k)
  PROVE  OtpInv'
<1>1. NoOtpCall \in CallRow /\ NoOtpCall.phase = "idle"
  BY OtpAssumption DEF NoOtpCall, CallRow
<1>2. otpCall \in [OtpCalls -> CallRow] /\ k \in Verifying
  BY DEF OtpInv, OtpTypeOK, CallRow, VerifyFinds, Verifying
<1>3. CASE otpCall' = [otpCall EXCEPT ![k] = NoOtpCall]
  BY <1>1, <1>3, CallMoves DEF VerifyFinds
<1>4. CASE \E c \in Codes : otpCall' = [otpCall EXCEPT ![k].phase = "counting", ![k].code = c]
  <2>1. PICK c \in Codes : otpCall' = [otpCall EXCEPT ![k].phase = "counting", ![k].code = c]
    BY <1>4
  <2> DEFINE r == [otpCall[k] EXCEPT !.phase = "counting", !.code = c]
  <2>2. r \in CallRow /\ r.phase = "counting" /\ r.code = c
    BY <1>2, CodesFinite DEF CallRow
  <2>3. otpCall' = [otpCall EXCEPT ![k] = r]
    BY <1>2, <2>1
  <2> HIDE DEF r
  <2> QED
    BY <1>2, <2>2, <2>3, CallMoves DEF VerifyFinds
<1> QED
  BY <1>3, <1>4 DEF VerifyFinds, Newest, Made

(* A phone that has burned too many codes has a newest one.                *)
LEMMA NewestExists ==
  ASSUME TooManyBurned
  PROVE  (CHOOSE c \in Made : c \in Newest(Made)) \in Codes
<1>1. Made # {}
  <2>1. BurnedInWindow # {}
    BY OtpFinite, OtpAssumption, FS_EmptySet DEF TooManyBurned
  <2> QED
    BY <2>1 DEF BurnedInWindow
<1>2. Made \in SUBSET (0 .. MaxCodes) /\ Made \subseteq Codes
  BY CodesFinite DEF Made
<1>3. PICK n \in Made : \A m \in Made : n >= m
  BY <1>1, <1>2, OtpAssumption, LargestExists
<1>4. n \in Newest(Made)
  BY <1>2, <1>3, OtpAssumption DEF Newest
<1> QED
  BY <1>2, <1>4

(* A failed verification is about to lock only after too many burned       *)
(* codes.                                                                  *)
LEMMA VerifyFailsKeeps ==
  ASSUME OtpInv, NEW k \in OtpCalls, VerifyFails(k)
  PROVE  OtpInv'
<1>1. NoOtpCall \in CallRow /\ NoOtpCall.phase = "idle"
  BY OtpAssumption DEF NoOtpCall, CallRow
<1>2. otpCall \in [OtpCalls -> CallRow]
  BY DEF OtpInv, OtpTypeOK, CallRow
<1>3. CASE ~TooManyBurned
  BY <1>1, <1>3, CallMoves DEF VerifyFails
<1>4. CASE TooManyBurned
  <2> DEFINE c == CHOOSE d \in Made : d \in Newest(Made)
             r == [otpCall[k] EXCEPT !.phase = "locking", !.code = c]
  <2>1. c \in Codes
    BY <1>4, NewestExists
  <2>2. otpCall' = [otpCall EXCEPT ![k] = r]
    BY <1>2, <1>4 DEF VerifyFails
  <2> HIDE DEF c
  <2>3. r \in CallRow /\ r.phase = "locking" /\ r.code = c
    BY <1>2, <2>1, CodesFinite DEF CallRow
  <2> HIDE DEF r
  <2> QED
    BY <1>4, <2>1, <2>2, <2>3, CallMoves DEF VerifyFails
<1> QED
  BY <1>3, <1>4

-----------------------------------------------------------------------------
(* What the rows become, a row at a time.                                  *)
LEMMA RowsTyped ==
  ASSUME OtpInv, UNCHANGED cooling, otp' \in [Codes -> OtpRow],
         otpCall' \in [OtpCalls -> CallRow]
  PROVE  OtpTypeOK'
BY DEF OtpInv, OtpTypeOK, OtpRow, CallRow

(* What a call that is not, or no longer, a verification to be counted     *)
(* leaves behind.                                                          *)
LEMMA CallLeaves ==
  ASSUME OtpInv, NEW k \in OtpCalls, NEW r \in CallRow,
         otpCall' = [otpCall EXCEPT ![k] = r],
         r.phase \in {"idle", "creating", "failed", "consuming"},
         r.phase = "consuming" => r.code \in Codes
  PROVE  /\ otpCall' \in [OtpCalls -> CallRow]
         /\ CodesAreMade'
         /\ Verifying' \subseteq Verifying \ {k}
         /\ \A j \in OtpCalls : otpCall'[j].phase = "locking" => otpCall[j].phase = "locking"
<1>1. otpCall \in [OtpCalls -> CallRow]
  BY DEF OtpInv, OtpTypeOK, CallRow
<1>2. otpCall'[k] = r /\ \A j \in OtpCalls \ {k} : otpCall'[j] = otpCall[j]
  BY <1>1
<1>3. otpCall' \in [OtpCalls -> CallRow]
  BY <1>1
<1> QED
  BY <1>2, <1>3 DEF OtpInv, CodesAreMade, Verifying, Codes

(* Rows that keep their attempts, are consumed, leave the window or are    *)
(* locked for a reason that was there, with the calls moving on.           *)
LEMMA RowsKeep ==
  ASSUME OtpInv, UNCHANGED cooling, otp' \in [Codes -> OtpRow],
         otpCall' \in [OtpCalls -> CallRow], CodesAreMade', Verifying' \subseteq Verifying,
         \A c \in Codes :
           \/ ~otp[c].made /\ otp'[c].attempts = 0 /\ otp'[c].lock = "none"
           \/ /\ otp'[c].made = otp[c].made
              /\ otp'[c].attempts = otp[c].attempts
              /\ otp'[c].afresh = otp[c].afresh
              /\ otp[c].consumed => otp'[c].consumed
              /\ otp'[c].recent => otp[c].recent
              /\ (otp'[c].lock = "live" => otp[c].lock = "live" \/ LockLooms),
         \A j \in OtpCalls : otpCall'[j].phase = "locking" => otpCall[j].phase = "locking"
  PROVE  OtpInv'
<1>1. OtpTypeOK'
  BY RowsTyped
<1>2. BurnedInWindow' \subseteq BurnedInWindow
  BY OtpAssumption DEF BurnedInWindow, Made, InWindow
<1>3. Earned \subseteq Earned'
  BY DEF Earned, Made
<1>4. LockLooms' => LockLooms
  BY DEF LockLooms, Made
<1> QED
  BY <1>1, <1>2, <1>3, <1>4, RowsChange

(* Expiring older codes burns none.                                        *)
LEMMA RequestExpiresKeeps ==
  ASSUME OtpInv, NEW k \in OtpCalls, RequestExpires(k)
  PROVE  OtpInv'
<1>1. otp \in [Codes -> OtpRow] /\ otpCall \in [OtpCalls -> CallRow]
  BY DEF OtpInv, OtpTypeOK, OtpRow, CallRow
<1> DEFINE r == [otpCall[k] EXCEPT !.phase = "creating"]
           off(c) == [otp[c] EXCEPT !.live = FALSE]
<1>2. r \in CallRow /\ r.phase = "creating" /\ otpCall' = [otpCall EXCEPT ![k] = r]
  BY <1>1 DEF RequestExpires, Proceeds, CallRow
<1>3. \A c \in Codes : /\ off(c) \in OtpRow /\ off(c).made = otp[c].made
                       /\ off(c).attempts = otp[c].attempts /\ off(c).lock = otp[c].lock
                       /\ off(c).afresh = otp[c].afresh /\ off(c).recent = otp[c].recent
                       /\ off(c).consumed = otp[c].consumed
  BY <1>1 DEF OtpRow
<1>4. otp' = [c \in Codes |-> IF otp[c].consumed THEN otp[c] ELSE off(c)]
  BY DEF RequestExpires
<1> HIDE DEF r, off
<1>5. /\ otpCall' \in [OtpCalls -> CallRow] /\ CodesAreMade' /\ Verifying' \subseteq Verifying
      /\ \A j \in OtpCalls : otpCall'[j].phase = "locking" => otpCall[j].phase = "locking"
  BY <1>2, CallLeaves
<1>6. otp' \in [Codes -> OtpRow]
  BY <1>1, <1>3, <1>4
<1>7. \A c \in Codes : /\ otp'[c].made = otp[c].made
                       /\ otp'[c].attempts = otp[c].attempts /\ otp'[c].lock = otp[c].lock
                       /\ otp'[c].afresh = otp[c].afresh /\ otp'[c].recent = otp[c].recent
                       /\ otp'[c].consumed = otp[c].consumed
  BY <1>3, <1>4
<1> QED
  BY <1>5, <1>6, <1>7, RowsKeep DEF RequestExpires

(* A new code has no attempts to its name.                                 *)
LEMMA RequestCreatesKeeps ==
  ASSUME OtpInv, NEW k \in OtpCalls, RequestCreates(k)
  PROVE  OtpInv'
<1>1. otp \in [Codes -> OtpRow] /\ cooling' \in BOOLEAN
  BY DEF OtpInv, OtpTypeOK, OtpRow, RequestCreates
<1>2. NoOtpCall \in CallRow /\ NoOtpCall.phase = "idle"
  BY OtpAssumption DEF NoOtpCall, CallRow
<1>3. /\ otpCall' \in [OtpCalls -> CallRow] /\ CodesAreMade' /\ Verifying' \subseteq Verifying
      /\ \A j \in OtpCalls : otpCall'[j].phase = "locking" => otpCall[j].phase = "locking"
  BY <1>2, CallLeaves DEF RequestCreates
<1>4. NewOtp \in OtpRow /\ NewOtp.attempts = 0 /\ NewOtp.lock = "none" /\ NewOtp.made
  <2>1. NoOtp \in OtpRow /\ NoOtp.attempts = 0 /\ NoOtp.lock = "none"
    BY OtpAssumption DEF NoOtp, OtpRow
  <2> QED
    BY <2>1 DEF NewOtp, OtpRow
<1>5. PICK n \in Codes : ~otp[n].made /\ otp' = [otp EXCEPT ![n] = NewOtp]
  BY DEF RequestCreates, NextCode, Made
<1>6. /\ otp' \in [Codes -> OtpRow] /\ otp'[n] = NewOtp
      /\ \A c \in Codes \ {n} : otp'[c] = otp[c]
  BY <1>1, <1>4, <1>5
<1>7. OtpTypeOK'
  BY <1>1, <1>3, <1>6 DEF OtpTypeOK, OtpRow, CallRow
<1>8. BurnedInWindow' \subseteq BurnedInWindow
  BY <1>4, <1>6, OtpAssumption DEF BurnedInWindow, Made, InWindow
<1>9. Earned \subseteq Earned' /\ (LockLooms' => LockLooms)
  BY <1>3, <1>4, <1>5, <1>6 DEF Earned, LockLooms, Made
<1> QED
  BY <1>3, <1>7, <1>8, <1>9, RowsChange

(* The guarded increment gives up a verification for at most one code.     *)
LEMMA VerifyCountsKeeps ==
  ASSUME OtpInv, NEW k \in OtpCalls, VerifyCounts(k)
  PROVE  OtpInv'
<1> DEFINE c == otpCall[k].code
<1>1. /\ otp \in [Codes -> OtpRow] /\ otpCall \in [OtpCalls -> CallRow]
      /\ c \in Codes /\ k \in Verifying
  BY DEF OtpInv, OtpTypeOK, OtpRow, CallRow, CodesAreMade, VerifyCounts, Verifying
<1>2. \A p \in {"consuming", "failed"} : Proceeds(k, p) =>
        /\ otpCall' \in [OtpCalls -> CallRow] /\ CodesAreMade'
        /\ Verifying' \subseteq Verifying \ {k}
        /\ \A j \in OtpCalls : otpCall'[j].phase = "locking" => otpCall[j].phase = "locking"
  <2> SUFFICES ASSUME NEW p \in {"consuming", "failed"}, Proceeds(k, p)
               PROVE  /\ otpCall' \in [OtpCalls -> CallRow] /\ CodesAreMade'
                      /\ Verifying' \subseteq Verifying \ {k}
                      /\ \A j \in OtpCalls : otpCall'[j].phase = "locking" =>
                                                otpCall[j].phase = "locking"
    OBVIOUS
  <2> DEFINE r == [otpCall[k] EXCEPT !.phase = p]
  <2>1. /\ r \in CallRow /\ r.phase = p /\ r.code = c
        /\ otpCall' = [otpCall EXCEPT ![k] = r]
    BY <1>1 DEF Proceeds, CallRow
  <2> HIDE DEF r
  <2> QED
    BY <1>1, <2>1, CallLeaves
<1>3. /\ otpCall' \in [OtpCalls -> CallRow] /\ CodesAreMade'
      /\ Verifying' \subseteq Verifying \ {k}
      /\ \A j \in OtpCalls : otpCall'[j].phase = "locking" => otpCall[j].phase = "locking"
  BY <1>2 DEF VerifyCounts
<1>4. CASE ~Countable(c)
  BY <1>1, <1>3, <1>4, RowsKeep DEF VerifyCounts
<1>5. CASE Countable(c)
  <2> DEFINE w == [otp[c] EXCEPT !.attempts = @ + 1]
  <2>1. /\ w \in OtpRow /\ w.attempts = otp[c].attempts + 1 /\ w.lock = otp[c].lock
        /\ w.made = otp[c].made
    BY <1>1, <1>5, OtpAssumption DEF OtpRow, Countable
  <2>2. otp' = [otp EXCEPT ![c] = w]
    BY <1>1, <1>5 DEF VerifyCounts
  <2> HIDE DEF w
  <2>3. /\ otp' \in [Codes -> OtpRow] /\ otp'[c] = w
        /\ \A d \in Codes \ {c} : otp'[d] = otp[d]
    BY <1>1, <2>1, <2>2
  <2>4. OtpTypeOK'
    BY <1>3, <2>3, RowsTyped DEF VerifyCounts
  <2>5. BurnedInWindow' \subseteq BurnedInWindow \cup {c}
    BY <2>3 DEF BurnedInWindow, Made, InWindow
  <2>6. /\ Cardinality(BurnedInWindow') <= Cardinality(BurnedInWindow) + 1
        /\ Cardinality(BurnedInWindow') \in Nat
    <3>1. /\ IsFiniteSet(BurnedInWindow \cup {c})
          /\ Cardinality(BurnedInWindow \cup {c}) <= Cardinality(BurnedInWindow) + 1
      <4>1. /\ IsFiniteSet(BurnedInWindow \cup {c})
            /\ \/ Cardinality(BurnedInWindow \cup {c}) = Cardinality(BurnedInWindow)
               \/ Cardinality(BurnedInWindow \cup {c}) = Cardinality(BurnedInWindow) + 1
        BY OtpFinite, FS_AddElement, Zenon
      <4> QED
        BY <4>1, OtpFinite
    <3>2. IsFiniteSet(BurnedInWindow') /\
          Cardinality(BurnedInWindow') <= Cardinality(BurnedInWindow \cup {c})
      BY <2>5, <3>1, FS_Subset
    <3> QED
      BY <3>1, <3>2, OtpFinite, FS_CardinalityType
  <2>7. /\ Cardinality(Verifying') <= Cardinality(Verifying) - 1
        /\ Cardinality(Verifying') \in Nat
    <3>1. /\ IsFiniteSet(Verifying \ {k})
          /\ Cardinality(Verifying \ {k}) = Cardinality(Verifying) - 1
      BY <1>1, OtpFinite, FS_RemoveElement
    <3>2. IsFiniteSet(Verifying') /\ Cardinality(Verifying') <= Cardinality(Verifying \ {k})
      BY <1>3, <3>1, FS_Subset
    <3> QED
      BY <3>1, <3>2, FS_CardinalityType
  <2>8. Budget'
    <3>1. Budget' <=> Cardinality(BurnedInWindow') + Cardinality(Verifying')
                        < LockoutThreshold + Cardinality(OtpCalls)
      BY DEF Budget
    <3> QED
      BY <2>6, <2>7, <3>1, OtpFinite, OtpAssumption DEF OtpInv, Budget
  <2>9. Earned \subseteq Earned' /\ (LockLooms' => LockLooms)
    BY <1>1, <1>3, <1>5, <2>1, <2>3, OtpAssumption DEF Earned, LockLooms, Made, Countable
  <2>10. IsFiniteSet(Earned')
    <3>1. Earned' \subseteq Codes
      BY DEF Earned, Made
    <3> QED
      BY <3>1, CodesFinite, FS_Subset
  <2> QED
    BY <1>3, <2>4, <2>8, <2>9, <2>10, LockStaysEarned DEF OtpInv
<1> QED
  BY <1>4, <1>5

(* Consuming a code takes it out of the burned ones; writing the lock      *)
(* forgets no code that earned it.                                         *)
LEMMA VerifyEndsKeeps ==
  ASSUME OtpInv, NEW k \in OtpCalls, VerifyConsumes(k) \/ VerifyLocks(k)
  PROVE  OtpInv'
<1> DEFINE c == otpCall[k].code
<1>1. otp \in [Codes -> OtpRow] /\ c \in Codes
  BY DEF OtpInv, OtpTypeOK, OtpRow, CodesAreMade, VerifyConsumes, VerifyLocks
<1>2. NoOtpCall \in CallRow /\ NoOtpCall.phase = "idle"
  BY OtpAssumption DEF NoOtpCall, CallRow
<1>3. /\ otpCall' \in [OtpCalls -> CallRow] /\ CodesAreMade' /\ Verifying' \subseteq Verifying
      /\ \A j \in OtpCalls : otpCall'[j].phase = "locking" => otpCall[j].phase = "locking"
  BY <1>2, CallLeaves DEF VerifyConsumes, VerifyLocks
<1>4. PICK w \in OtpRow :
        /\ otp' = [otp EXCEPT ![c] = w]
        /\ w.made = otp[c].made /\ w.attempts = otp[c].attempts
        /\ w.afresh = otp[c].afresh /\ w.recent = otp[c].recent
        /\ otp[c].consumed => w.consumed
        /\ w.lock = otp[c].lock \/ LockLooms
  <2>1. CASE VerifyConsumes(k)
    <3> DEFINE w == [otp[c] EXCEPT !.consumed = TRUE]
    <3>1. /\ w \in OtpRow /\ w.made = otp[c].made /\ w.attempts = otp[c].attempts
          /\ w.afresh = otp[c].afresh /\ w.recent = otp[c].recent
          /\ w.consumed /\ w.lock = otp[c].lock
      BY <1>1 DEF OtpRow
    <3>2. otp' = [otp EXCEPT ![c] = w]
      BY <1>1, <2>1 DEF VerifyConsumes
    <3> HIDE DEF w
    <3> QED
      BY <3>1, <3>2
  <2>2. CASE VerifyLocks(k)
    <3> DEFINE w == [otp[c] EXCEPT !.lock = "live"]
    <3>1. /\ w \in OtpRow /\ w.made = otp[c].made /\ w.attempts = otp[c].attempts
          /\ w.afresh = otp[c].afresh /\ w.recent = otp[c].recent
          /\ w.consumed = otp[c].consumed
      BY <1>1 DEF OtpRow
    <3>2. otp' = [otp EXCEPT ![c] = w] /\ LockLooms
      BY <1>1, <2>2 DEF VerifyLocks, LockLooms
    <3> HIDE DEF w
    <3> QED
      BY <3>1, <3>2
  <2> QED
    BY <2>1, <2>2
<1>5. /\ otp' \in [Codes -> OtpRow] /\ otp'[c] = w
      /\ \A d \in Codes \ {c} : otp'[d] = otp[d]
  BY <1>1, <1>4
<1> HIDE DEF c
<1> QED
  BY <1>3, <1>4, <1>5, RowsKeep DEF VerifyConsumes, VerifyLocks

(* Time takes codes out of the window and forgets none that were earned.   *)
LEMMA TimeKeeps ==
  ASSUME OtpInv, CoolsDown \/ WindowSlides \/ \E c \in Codes : CodeExpires(c)
  PROVE  OtpInv'
<1>1. otp \in [Codes -> OtpRow] /\ otpCall \in [OtpCalls -> CallRow]
  BY DEF OtpInv, OtpTypeOK, OtpRow, CallRow
<1>2. CASE CoolsDown
  <2>1. OtpTypeOK' /\ CodesAreMade' /\ Verifying' \subseteq Verifying
    BY <1>2 DEF CoolsDown, OtpInv, OtpTypeOK, CodesAreMade, Verifying
  <2>2. LockLooms' => LockLooms
    BY <1>2 DEF CoolsDown, LockLooms, Made
  <2> QED
    BY <1>2, <2>1, <2>2, RowsUntouched DEF CoolsDown
<1>3. ASSUME NEW c \in Codes, NEW w \in OtpRow, otp' = [otp EXCEPT ![c] = w],
             w.made = otp[c].made, w.attempts = otp[c].attempts, w.afresh = otp[c].afresh,
             w.consumed = otp[c].consumed, w.lock = otp[c].lock,
             w.recent => otp[c].recent, UNCHANGED <<cooling, otpCall>>
      PROVE  OtpInv'
  <2>1. /\ otp' \in [Codes -> OtpRow] /\ otp'[c] = w
        /\ \A d \in Codes \ {c} : otp'[d] = otp[d]
    BY <1>1, <1>3
  <2>2. CodesAreMade' /\ Verifying' \subseteq Verifying /\ otpCall' \in [OtpCalls -> CallRow]
    BY <1>1, <1>3 DEF OtpInv, CodesAreMade, Verifying, Codes
  <2> QED
    BY <1>3, <2>1, <2>2, RowsKeep
<1>4. ASSUME NEW c \in Codes, CodeExpires(c)
      PROVE  OtpInv'
  <2> DEFINE w == [otp[c] EXCEPT !.live = FALSE]
  <2>1. /\ w \in OtpRow /\ w.made = otp[c].made /\ w.attempts = otp[c].attempts
        /\ w.afresh = otp[c].afresh /\ w.recent = otp[c].recent
        /\ w.consumed = otp[c].consumed /\ w.lock = otp[c].lock
    BY <1>1 DEF OtpRow
  <2>2. otp' = [otp EXCEPT ![c] = w] /\ UNCHANGED <<cooling, otpCall>>
    BY <1>1, <1>4 DEF CodeExpires
  <2> HIDE DEF w
  <2> QED
    BY <1>3, <2>1, <2>2
<1>5. CASE WindowSlides
  <2>1. PICK c \in Codes : otp' = [otp EXCEPT ![c].recent = FALSE]
    BY <1>5 DEF WindowSlides, Made
  <2> DEFINE w == [otp[c] EXCEPT !.recent = FALSE]
  <2>2. /\ w \in OtpRow /\ w.made = otp[c].made /\ w.attempts = otp[c].attempts
        /\ w.afresh = otp[c].afresh /\ ~w.recent
        /\ w.consumed = otp[c].consumed /\ w.lock = otp[c].lock
    BY <1>1 DEF OtpRow
  <2>3. otp' = [otp EXCEPT ![c] = w] /\ UNCHANGED <<cooling, otpCall>>
    BY <1>1, <1>5, <2>1 DEF WindowSlides
  <2> HIDE DEF w
  <2> QED
    BY <1>3, <2>2, <2>3
<1> QED
  BY <1>2, <1>4, <1>5

(* A served lock wipes the slate: nobody is about to write another one.    *)
LEMMA LockExpiresKeeps ==
  ASSUME OtpInv, LockExpires
  PROVE  OtpInv'
<1>1. otp \in [Codes -> OtpRow] /\ otpCall \in [OtpCalls -> CallRow]
  BY DEF OtpInv, OtpTypeOK, OtpRow, CallRow
<1> DEFINE w(c) == [otp[c] EXCEPT !.lock = IF @ = "live" THEN "served" ELSE @,
                                  !.live = FALSE, !.afresh = FALSE]
<1>2. \A c \in Codes : w(c) \in OtpRow /\ w(c).lock # "live" /\ ~w(c).afresh
  BY <1>1 DEF OtpRow
<1>3. otp' = [c \in Codes |-> w(c)] /\ UNCHANGED <<cooling, otpCall>> /\ Quiet
  BY DEF LockExpires
<1> HIDE DEF w
<1>4. OtpTypeOK'
  BY <1>1, <1>2, <1>3, RowsTyped
<1>5. BurnedInWindow' = {} /\ ~LockLooms'
  BY <1>2, <1>3 DEF BurnedInWindow, InWindow, LockLooms, Made, Quiet
<1>6. CodesAreMade' /\ Verifying' \subseteq Verifying
  BY <1>3 DEF OtpInv, CodesAreMade, Verifying, Codes
<1>7. Budget'
  BY <1>5, <1>6, BudgetStays DEF OtpInv
<1> QED
  BY <1>4, <1>5, <1>6, <1>7 DEF OtpInv, LockEarned

(* The invariant is inductive.                                             *)
LEMMA OtpNext_Inv == OtpInv /\ [OtpNext]_otpVars => OtpInv'
<1> SUFFICES ASSUME OtpInv, [OtpNext]_otpVars PROVE OtpInv'
  OBVIOUS
<1>1. CASE UNCHANGED otpVars
  <2>1. OtpTypeOK' /\ CodesAreMade' /\ Verifying' \subseteq Verifying
    BY <1>1 DEF otpVars, OtpInv, OtpTypeOK, CodesAreMade, Verifying
  <2>2. LockLooms' => LockLooms
    BY <1>1 DEF otpVars, LockLooms, Made
  <2> QED
    BY <1>1, <2>1, <2>2, RowsUntouched DEF otpVars
<1>2. ASSUME NEW k \in OtpCalls,
             RequestOtp(k) \/ RequestCools(k) \/ VerifyOtp(k) \/ OtpCallDies(k)
      PROVE  OtpInv'
  BY <1>2, RequestsKeep
<1>3. ASSUME NEW k \in OtpCalls, RequestExpires(k) \/ RequestCreates(k)
      PROVE  OtpInv'
  BY <1>3, RequestExpiresKeeps, RequestCreatesKeeps
<1>4. ASSUME NEW k \in OtpCalls,
             \/ VerifyFinds(k) \/ VerifyCounts(k) \/ VerifyConsumes(k)
             \/ VerifyFails(k) \/ VerifyLocks(k)
      PROVE  OtpInv'
  BY <1>4, VerifyFindsKeeps, VerifyCountsKeeps, VerifyEndsKeeps, VerifyFailsKeeps
<1>5. CASE CoolsDown \/ WindowSlides \/ LockExpires \/ \E c \in Codes : CodeExpires(c)
  BY <1>5, TimeKeeps, LockExpiresKeeps
<1> QED
  BY <1>1, <1>2, <1>3, <1>4, <1>5 DEF OtpNext

(* isLocked and verifyOtp: however requests and verifications race, and    *)
(* whichever die before the lock is written, the codes burned within a     *)
(* window exceed the threshold by less than the calls at the same time.    *)
THEOREM BurningIsBounded == OtpSpec => []BurnBudget
<1>1. OtpInv => BurnBudget
  BY OtpFinite, OtpAssumption DEF OtpInv, Budget, BurnBudget
<1> QED
  BY <1>1, OtpInit_Inv, OtpNext_Inv, PTL DEF OtpSpec

(* maybeTriggerLockout: a lock is written only after that many codes were  *)
(* used up since the last lock was served.                                 *)
THEOREM LocksAreEarned == OtpSpec => []LockIsEarned
<1>1. OtpInv => LockIsEarned
  BY DEF OtpInv, LockEarned, LockLooms, Earned, LockIsEarned
<1> QED
  BY <1>1, OtpInit_Inv, OtpNext_Inv, PTL DEF OtpSpec
=============================================================================
