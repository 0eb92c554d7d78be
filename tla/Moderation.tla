------------------------------ MODULE Moderation ------------------------------
(***************************************************************************)
(* One content report: admins act on its target and then mark it, in two   *)
(* steps, or dismiss it.  The target's own service (RatingsService,        *)
(* StoresService, OffersService) commits before the report is claimed.     *)
(***************************************************************************)
EXTENDS FiniteSets

CONSTANT Admins   \* bound: requests about the report at the same time

VARIABLES
  report,    \* the status of the content_reports row
  hidden,    \* the target was taken down because of this report (history)
  moderator  \* what each request is doing

moderationVars == <<report, hidden, moderator>>

-----------------------------------------------------------------------------
ModerationTypeOK ==
  /\ report \in {"OPEN", "ACTIONED", "DISMISSED"}
  /\ hidden \in BOOLEAN
  /\ moderator \in [Admins -> {"idle", "acting", "claiming", "dismissing"}]

ModerationInit ==
  /\ report = "OPEN"
  /\ hidden = FALSE
  /\ moderator = [a \in Admins |-> "idle"]

OpensReport(a, phase) ==
  /\ moderator[a] = "idle"
  /\ report = "OPEN"
  /\ moderator' = [moderator EXCEPT ![a] = phase]
  /\ UNCHANGED <<report, hidden>>

(* adminAction                                                             *)
AdminAction(a) == OpensReport(a, "acting")

(* An offer that is over already counts as taken down.                     *)
ActSucceeds(a) ==
  /\ moderator[a] = "acting"
  /\ hidden' = TRUE
  /\ moderator' = [moderator EXCEPT ![a] = "claiming"]
  /\ UNCHANGED report

(* Mutant of ActFails: the failure of the target's service is caught.      *)
ActFailsQuietly(a) ==
  /\ moderator[a] = "acting"
  /\ moderator' = [moderator EXCEPT ![a] = "claiming"]
  /\ UNCHANGED <<report, hidden>>

ActFails(a) ==
  /\ moderator[a] = "acting"
  /\ moderator' = [moderator EXCEPT ![a] = "idle"]
  /\ UNCHANGED <<report, hidden>>

ClaimReport(a) ==
  /\ moderator[a] = "claiming"
  /\ report' = IF report = "OPEN" THEN "ACTIONED" ELSE report
  /\ moderator' = [moderator EXCEPT ![a] = "idle"]
  /\ UNCHANGED hidden

(* adminDismiss: the check, then an update by id alone.                    *)
AdminDismiss(a) == OpensReport(a, "dismissing")

DismissReport(a) ==
  /\ moderator[a] = "dismissing"
  /\ report' = "DISMISSED"
  /\ moderator' = [moderator EXCEPT ![a] = "idle"]
  /\ UNCHANGED hidden

ModeratorDies(a) ==
  /\ moderator[a] # "idle"
  /\ moderator' = [moderator EXCEPT ![a] = "idle"]
  /\ UNCHANGED <<report, hidden>>

ModerationNext ==
  \E a \in Admins :
    \/ AdminAction(a) \/ ActSucceeds(a) \/ ActFails(a) \/ ClaimReport(a)
    \/ AdminDismiss(a) \/ DismissReport(a) \/ ModeratorDies(a)

ModerationSpec == ModerationInit /\ [][ModerationNext]_moderationVars

-----------------------------------------------------------------------------
(* Properties                                                              *)

(* A report is never marked handled for an action that did not happen,     *)
(* whichever of several admins acted, failed, dismissed or died.           *)
ActionedMeansDone == report = "ACTIONED" => hidden
=============================================================================
