-------------------------- MODULE RequestServices --------------------------
(***************************************************************************)
(* The services whose writers are requests, and the row locks of LockOrder,*)
(* side by side.  None reads what another writes, so a behaviour of one    *)
(* while the others stand still is every behaviour it has.                 *)
(***************************************************************************)
EXTENDS LockOrder, Sessions, Otp, Ratings, Invoicing, Moderation,
        MembershipVat

VARIABLE service   \* the one that moves

requestVars ==
  <<vars, sessionVars, otpVars, ratingsVars, invoicingVars, moderationVars,
    vatVars, service>>

RequestServiceNames ==
  {"locks", "sessions", "otp", "ratings", "invoicing", "moderation", "vat"}

RequestInit ==
  /\ service \in RequestServiceNames
  /\ Init
  /\ SessionsInit /\ OtpInit /\ RatingsInit /\ InvoicingInit /\ ModerationInit /\ VatInit

Moves(s) ==
  /\ service = s
  /\ UNCHANGED service
  /\ s # "locks" => UNCHANGED vars
  /\ s # "sessions" => UNCHANGED sessionVars
  /\ s # "otp" => UNCHANGED otpVars
  /\ s # "ratings" => UNCHANGED ratingsVars
  /\ s # "invoicing" => UNCHANGED invoicingVars
  /\ s # "moderation" => UNCHANGED moderationVars
  /\ s # "vat" => UNCHANGED vatVars

RequestNext ==
  \/ Moves("locks") /\ Next
  \/ Moves("sessions") /\ SessionsNext
  \/ Moves("otp") /\ OtpNext
  \/ Moves("ratings") /\ RatingsNext
  \/ Moves("invoicing") /\ InvoicingNext
  \/ Moves("moderation") /\ ModerationNext
  \/ Moves("vat") /\ VatNext

RequestSpec == RequestInit /\ [][RequestNext]_requestVars

RequestTypeOK ==
  /\ service \in RequestServiceNames
  /\ SessionsTypeOK /\ OtpTypeOK /\ RatingsTypeOK /\ InvoicingTypeOK
  /\ ModerationTypeOK /\ VatTypeOK
=============================================================================
