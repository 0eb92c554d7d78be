--------------------------------- MODULE Otp ---------------------------------
(***************************************************************************)
(* One-time codes of one phone: requests and verifications run at the same *)
(* time, statement by statement and outside any transaction.  A code is    *)
(* burned when its attempts are used up; too many burned codes lock the    *)
(* phone.  Durations are events, and no call outlasts a lock.              *)
(***************************************************************************)
EXTENDS Naturals, FiniteSets

CONSTANTS
  MaxCodes,          \* bound: phone_otps rows ever created
  OtpCalls,          \* bound: requests and verifications at the same time
  OtpAttempts,       \* OTP_MAX_ATTEMPTS
  LockoutThreshold   \* OTP_FAILED_CODE_LOCKOUT_THRESHOLD

ASSUME OtpAssumption ==
  /\ MaxCodes \in Nat
  /\ OtpAttempts \in Nat \ {0}
  /\ LockoutThreshold \in Nat \ {0}
  /\ IsFiniteSet(OtpCalls)

VARIABLES
  otp,       \* the phone_otps rows, in order of creation
  cooling,   \* the newest of them is younger than the resend cooldown
  otpCall    \* what each call is doing

otpVars == <<otp, cooling, otpCall>>

-----------------------------------------------------------------------------
Codes == 1 .. MaxCodes

(* recent: created within the failure window.  afresh: created after the   *)
(* last lock that has been served.                                         *)
NoOtp == [made |-> FALSE, live |-> FALSE, consumed |-> FALSE, attempts |-> 0,
          lock |-> "none", recent |-> FALSE, afresh |-> FALSE]

NewOtp == [NoOtp EXCEPT !.made = TRUE, !.live = TRUE, !.recent = TRUE, !.afresh = TRUE]

NoOtpCall == [phase |-> "idle", code |-> 0]

OtpTypeOK ==
  /\ otp \in [Codes -> [made : BOOLEAN, live : BOOLEAN, consumed : BOOLEAN,
                        attempts : 0 .. OtpAttempts, lock : {"none", "live", "served"},
                        recent : BOOLEAN, afresh : BOOLEAN]]
  /\ cooling \in BOOLEAN
  /\ otpCall \in [OtpCalls ->
       [phase : {"idle", "cooldown", "expiring", "creating", "finding", "counting",
                 "consuming", "failed", "locking"},
        code : 0 .. MaxCodes]]

OtpInit ==
  /\ otp = [c \in Codes |-> NoOtp]
  /\ cooling = FALSE
  /\ otpCall = [k \in OtpCalls |-> NoOtpCall]

-----------------------------------------------------------------------------
Made == {c \in Codes : otp[c].made}
Newest(S) == {c \in S : \A d \in S : d <= c}
NextCode == {c \in Codes \ Made : \A d \in Codes : d < c => d \in Made}

(* Mutant of InWindow: windowAnchor without the anchor.                    *)
InRollingWindow(c) == otp[c].recent

InWindow(c) == otp[c].recent /\ otp[c].afresh

BurnedInWindow ==
  {c \in Made : /\ ~otp[c].consumed
                /\ otp[c].attempts >= OtpAttempts
                /\ InWindow(c)}

TooManyBurned == Cardinality(BurnedInWindow) >= LockoutThreshold

(* Mutant of PhoneLocked: only the newest row's lock is looked at.         *)
NewestRowLocked == \E c \in Newest(Made) : otp[c].lock = "live"

(* isLocked: any row's lock, or the count again, whatever was written.     *)
PhoneLocked == (\E c \in Made : otp[c].lock = "live") \/ TooManyBurned

Proceeds(k, phase) == otpCall' = [otpCall EXCEPT ![k].phase = phase]

OtpCallBegins(k, phase) ==
  /\ otpCall[k].phase = "idle"
  /\ ~PhoneLocked
  /\ Proceeds(k, phase)
  /\ UNCHANGED <<otp, cooling>>

-----------------------------------------------------------------------------
(* requestOtp                                                              *)

RequestOtp(k) == OtpCallBegins(k, "cooldown")

RequestCools(k) ==
  /\ otpCall[k].phase = "cooldown"
  /\ Proceeds(k, IF cooling THEN "idle" ELSE "expiring")
  /\ UNCHANGED <<otp, cooling>>

RequestExpires(k) ==
  /\ otpCall[k].phase = "expiring"
  /\ otp' = [c \in Codes |->
       IF otp[c].consumed THEN otp[c] ELSE [otp[c] EXCEPT !.live = FALSE]]
  /\ Proceeds(k, "creating")
  /\ UNCHANGED cooling

RequestCreates(k) ==
  /\ otpCall[k].phase = "creating"
  /\ \E c \in NextCode : otp' = [otp EXCEPT ![c] = NewOtp]
  /\ cooling' = TRUE
  /\ otpCall' = [otpCall EXCEPT ![k] = NoOtpCall]

-----------------------------------------------------------------------------
(* verifyOtp                                                               *)

VerifyOtp(k) == OtpCallBegins(k, "finding")

VerifyFinds(k) ==
  /\ otpCall[k].phase = "finding"
  /\ LET active == {c \in Made : otp[c].live /\ ~otp[c].consumed}
     IN IF active = {} THEN otpCall' = [otpCall EXCEPT ![k] = NoOtpCall]
        ELSE \E c \in Newest(active) :
               otpCall' = [otpCall EXCEPT ![k].phase = "counting", ![k].code = c]
  /\ UNCHANGED <<otp, cooling>>

(* Mutant of Countable: the increment does not ask for the attempts left.  *)
CountableUnconsumed(c) == ~otp[c].consumed

Countable(c) == otp[c].attempts < OtpAttempts /\ ~otp[c].consumed

(* The guarded increment, and the comparison of a code that may be right.  *)
VerifyCounts(k) ==
  /\ otpCall[k].phase = "counting"
  /\ LET c == otpCall[k].code
     IN IF Countable(c)
        THEN /\ otp' = [otp EXCEPT ![c].attempts = @ + 1]
             /\ \E phase \in {"consuming", "failed"} : Proceeds(k, phase)
        ELSE /\ Proceeds(k, "failed")
             /\ UNCHANGED otp
  /\ UNCHANGED cooling

(* The count of this update is not looked at.                              *)
VerifyConsumes(k) ==
  /\ otpCall[k].phase = "consuming"
  /\ otp' = [otp EXCEPT ![otpCall[k].code].consumed = TRUE]
  /\ otpCall' = [otpCall EXCEPT ![k] = NoOtpCall]
  /\ UNCHANGED cooling

(* maybeTriggerLockout: the count and the newest row, then the lock.       *)
VerifyFails(k) ==
  /\ otpCall[k].phase = "failed"
  /\ otpCall' = [otpCall EXCEPT ![k] =
       IF TooManyBurned
       THEN [@ EXCEPT !.phase = "locking",
                      !.code = CHOOSE c \in Made : c \in Newest(Made)]
       ELSE NoOtpCall]
  /\ UNCHANGED <<otp, cooling>>

VerifyLocks(k) ==
  /\ otpCall[k].phase = "locking"
  /\ otp' = [otp EXCEPT ![otpCall[k].code].lock = "live"]
  /\ otpCall' = [otpCall EXCEPT ![k] = NoOtpCall]
  /\ UNCHANGED cooling

-----------------------------------------------------------------------------
(* The process dies between two statements; time passes.                   *)
OtpCallDies(k) ==
  /\ otpCall[k].phase # "idle"
  /\ otpCall' = [otpCall EXCEPT ![k] = NoOtpCall]
  /\ UNCHANGED <<otp, cooling>>

CoolsDown ==
  /\ cooling
  /\ cooling' = FALSE
  /\ UNCHANGED <<otp, otpCall>>

CodeExpires(c) ==
  /\ otp[c].live
  /\ otp' = [otp EXCEPT ![c].live = FALSE]
  /\ UNCHANGED <<cooling, otpCall>>

Quiet == \A k \in OtpCalls : otpCall[k].phase = "idle"

(* The failure window slides past the oldest code in it.                   *)
WindowSlides ==
  /\ Quiet
  /\ \E c \in Made :
       /\ otp[c].recent /\ ~otp[c].live
       /\ \A d \in Made : otp[d].recent => c <= d
       /\ otp' = [otp EXCEPT ![c].recent = FALSE]
  /\ UNCHANGED <<cooling, otpCall>>

LockExpires ==
  /\ Quiet
  /\ \E c \in Made : otp[c].lock = "live"
  /\ otp' = [c \in Codes |->
       [otp[c] EXCEPT !.lock = IF @ = "live" THEN "served" ELSE @,
                      !.live = FALSE, !.afresh = FALSE]]
  /\ UNCHANGED <<cooling, otpCall>>

-----------------------------------------------------------------------------
OtpNext ==
  \/ \E k \in OtpCalls :
       \/ RequestOtp(k) \/ RequestCools(k) \/ RequestExpires(k) \/ RequestCreates(k)
       \/ VerifyOtp(k) \/ VerifyFinds(k) \/ VerifyCounts(k) \/ VerifyConsumes(k)
       \/ VerifyFails(k) \/ VerifyLocks(k) \/ OtpCallDies(k)
  \/ CoolsDown \/ WindowSlides \/ LockExpires
  \/ \E c \in Codes : CodeExpires(c)

OtpSpec == OtpInit /\ [][OtpNext]_otpVars

-----------------------------------------------------------------------------
(* Properties                                                              *)

(* However requests and verifications race, and whichever of them die      *)
(* before they write the lock, the codes burned within a window exceed the *)
(* threshold at most by the calls that had passed isLocked before it was   *)
(* reached: a racing request's newer row does not lift a lock.             *)
BurnBudget ==
  Cardinality(BurnedInWindow) < LockoutThreshold + Cardinality(OtpCalls)

(* A lock is written only after LockoutThreshold codes were used up since  *)
(* the last lock was served: what led to a served lock is not held against *)
(* the phone again (windowAnchor).                                         *)
LockIsEarned ==
  (\E c \in Made : otp[c].lock = "live") =>
    Cardinality({c \in Made : otp[c].afresh /\ otp[c].attempts = OtpAttempts})
      >= LockoutThreshold
=============================================================================
