------------------------------ MODULE Outbound ------------------------------
(***************************************************************************)
(* The parts of the system that talk to other services (Braze, the         *)
(* enterprise service, S3): scheduled e-mails, utilization e-mails, the    *)
(* tasks behind assignments and activations, what follows a revocation,    *)
(* bulk enrollment, and lifecycle events.                                  *)
(*                                                                         *)
(* The parts share no state that these models keep, so an interleaving of   *)
(* two of them shows nothing that each alone does not: a behaviour is one  *)
(* of one of them, chosen by part, while the others rest.                  *)
(***************************************************************************)
EXTENDS Reminders, Utilization, Notifications, Aftermath, BulkEnrollment, Tracking

VARIABLE part   \* the part that moves

outboundVars ==
    <<part, reminderVars, utilizationVars, notificationVars, aftermathVars, enrollmentVars,
      trackingVars>>

Parts == {"reminders", "utilization", "notifications", "aftermath", "enrollment",
          "half_year", "batches"}

\* The parts that rest stay in one initial state.
OutboundInit ==
    /\ part \in Parts
    /\ RemindersInit /\ (part # "reminders" => mailRows = [k \in Pks |-> UnassignedRow])
    /\ UtilizationInit /\ (part # "utilization" => num = 1 /\ on = Off)
    /\ NotificationsInit /\ (part # "notifications" => ~optedOut)
    /\ AftermathInit /\ (part # "aftermath" => cap = NoCap /\ AllocatedSeats = {})
    /\ BulkEnrollmentInit
    /\ part # "enrollment" => roster = [p \in Plans |-> [u \in Emails |-> "none"]]
    /\ TrackingInit /\ (part # "half_year" => \A l \in TLicenses : tracked[l].user)

OthersRest ==
    /\ part' = part
    /\ part # "reminders" => UNCHANGED reminderVars
    /\ part # "utilization" => UNCHANGED utilizationVars
    /\ part # "notifications" => UNCHANGED notificationVars
    /\ part # "aftermath" => UNCHANGED aftermathVars
    /\ part # "enrollment" => UNCHANGED enrollmentVars
    /\ part \notin {"half_year", "batches"} => UNCHANGED trackingVars

OutboundNext ==
    \/ part = "reminders" /\ RemindersNext /\ OthersRest
    \/ part = "utilization" /\ UtilizationNext /\ OthersRest
    \/ part = "notifications" /\ NotificationsNext /\ OthersRest
    \/ part = "aftermath" /\ AftermathNext /\ OthersRest
    \/ part = "enrollment" /\ BulkEnrollmentNext /\ OthersRest
    \/ part = "half_year" /\ HalfYearNext /\ OthersRest
    \/ part = "batches" /\ BatchNext /\ OthersRest

\* What cron, the brokers and the workers of the part that moves are bound to do.
OutboundProgress ==
    \/ part = "reminders" /\ RemindersProgress /\ OthersRest
    \/ part = "notifications" /\ NotificationsProgress /\ OthersRest
    \/ part = "aftermath" /\ AftermathProgress /\ OthersRest
    \/ part = "enrollment" /\ TaskStep /\ OthersRest
    \/ part = "batches" /\ TrackingProgress /\ OthersRest

OutboundSpec == OutboundInit /\ [][OutboundNext]_outboundVars /\ WF_outboundVars(OutboundProgress)
=============================================================================
