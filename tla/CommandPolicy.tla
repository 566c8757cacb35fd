---------------------------- MODULE CommandPolicy ---------------------------
(***************************************************************************)
(* The transition rules of the service (network/command_policy.py).  Every *)
(* handler runs from beginning to end under the policy's RLock; each is    *)
(* one operator, but for _clear_reason.  There the control loop, which     *)
(* sets states without that lock, may come between the last snapshot and   *)
(* the recovery that rests on it, so they are steps of their own and       *)
(* clearing says that the lock is still held.  The threads that call the   *)
(* handlers are in VehicleControl.                                         *)
(*                                                                         *)
(* stops = FALSE is the outcome in which the force_stop inside the handler *)
(* raises: what the handler did before stays done, what follows it does    *)
(* not happen.                                                             *)
(***************************************************************************)
EXTENDS SafetySupervisor, ReportManager

VARIABLES
    reasons,    \* _reasons, why the vehicle is stopped in ERROR
    clearing,   \* the next step of the _clear_reason that holds _lock, or "free"
    stranded    \* history: a mission was left behind in WAITING, and neither planned
                \* anew nor stopped since

reasonVars == <<reasons, clearing, stranded>>
policyVars == <<drivingState, prevState, serviceKind, mission, motorOn,
                completeTs, errorResend, uplink, reasonVars>>

Reasons == {"control_lost", "gps_lost"}

PolicyTypeOK ==
    /\ reasons \subseteq Reasons
    /\ clearing \in {"free", "check", "recover"}
    /\ stranded \in BOOLEAN

PolicyInit == reasons = {} /\ clearing = "free" /\ stranded = FALSE

-----------------------------------------------------------------------------
(* Commands of the control server.                                         *)

\* A move is accepted only when waiting; the kind follows the previous one.
OnMove(dest) ==
    IF drivingState = "WAITING"
    THEN /\ SetMission(dest, IF serviceKind = "PICKUP" THEN "CARRY" ELSE "PICKUP")
         /\ SetDrivingState("PLANNING")
         /\ SendAccept
         /\ UNCHANGED <<motorOn, completeTs, errorResend, reasonVars>>
    ELSE UNCHANGED policyVars

\* Two slips: the complete report stays outstanding; the customer who was just
\* picked up is forgotten.
OnStopKeepsComplete ==
    IF drivingState = "ARRIVED"
    THEN /\ ClearMission(IF serviceKind = "PICKUP" THEN "PICKUP" ELSE "None")
         /\ SetDrivingState("WAITING")
         /\ stranded' = FALSE
         /\ UNCHANGED <<motorOn, completeTs, errorResend, uplink, reasons, clearing>>
    ELSE UNCHANGED policyVars
OnStopForgetsCustomer ==
    IF drivingState = "ARRIVED"
    THEN /\ ClearComplete
         /\ ClearMission("None")
         /\ SetDrivingState("WAITING")
         /\ stranded' = FALSE
         /\ UNCHANGED <<motorOn, errorResend, uplink, reasons, clearing>>
    ELSE UNCHANGED policyVars

\* A stop is accepted only as the answer to complete.
OnStop ==
    IF drivingState = "ARRIVED"
    THEN /\ ClearComplete
         /\ ClearMission(IF serviceKind = "PICKUP" THEN "PICKUP" ELSE "None")
         /\ SetDrivingState("WAITING")
         /\ stranded' = FALSE
         /\ UNCHANGED <<motorOn, errorResend, uplink, reasons, clearing>>
    ELSE UNCHANGED policyVars

\* Two slips: only a resume recovers; the first reason that is resolved recovers.
ClearReasonResumeOnly(reason) ==
    /\ reasons' = reasons \ {reason}
    /\ IF reason = "control_lost" THEN StopErrorResend ELSE UNCHANGED errorResend
    /\ clearing' = IF reasons' = {} /\ reason = "control_lost" THEN "check" ELSE "free"
    /\ UNCHANGED <<drivingState, prevState, stranded>>
ClearReasonAtOnce(reason) ==
    /\ reasons' = reasons \ {reason}
    /\ IF reason = "control_lost" THEN StopErrorResend ELSE UNCHANGED errorResend
    /\ clearing' = "check"
    /\ UNCHANGED <<drivingState, prevState, stranded>>

\* _clear_reason up to its last snapshot: with another reason left it ends here.
ClearReason(reason) ==
    /\ reasons' = reasons \ {reason}
    /\ IF reason = "control_lost" THEN StopErrorResend ELSE UNCHANGED errorResend
    /\ clearing' = IF reasons' = {} THEN "check" ELSE "free"
    /\ UNCHANGED <<drivingState, prevState, stranded>>

\* The snapshot: is the vehicle still in ERROR?
CheckStillError ==
    /\ clearing = "check"
    /\ clearing' = IF drivingState = "ERROR" THEN "recover" ELSE "free"
    /\ UNCHANGED <<drivingState, prevState, stranded>>

\* The vehicle goes back to where it was stopped.  If the control loop has set a state
\* since the snapshot, the kept one is gone and the store falls back to WAITING.
RecoverAfterCheck ==
    /\ clearing = "recover"
    /\ RecoverPreviousState
    /\ clearing' = "free"
    /\ stranded' = (stranded \/ (prevState = "None" /\ mission # NoMission))

OnResume ==
    IF drivingState = "ERROR" /\ "control_lost" \in reasons
    THEN /\ ClearReason("control_lost")
         /\ UNCHANGED <<serviceKind, mission, motorOn, completeTs, uplink>>
    ELSE UNCHANGED policyVars

-----------------------------------------------------------------------------
(* Connection and positioning events.                                      *)

\* _enter_error: the state current at the first reason is kept by the store,
\* and the motor is stopped at once.
EnterError(reason, stops) ==
    /\ reasons' = reasons \cup {reason}
    /\ SetDrivingState("ERROR")
    /\ IF drivingState = "ERROR" THEN UNCHANGED motorOn ELSE ForceStop(stops)
    /\ UNCHANGED <<serviceKind, mission, completeTs, errorResend, clearing, stranded>>

OnControlDisconnected(stops) == EnterError("control_lost", stops) /\ UNCHANGED uplink

\* A slip: the error is sent once after a reconnect and never again.
OnControlConnectedNoResend ==
    /\ UNCHANGED errorResend
    /\ uplink' = uplink \cup {r \in {Report("error", 0)} : "control_lost" \in reasons}
    /\ UNCHANGED <<drivingState, prevState, serviceKind, mission, motorOn,
                   completeTs, reasonVars>>

\* Runs with the new connection already in place.
OnControlConnected ==
    /\ errorResend' = (errorResend \/ "control_lost" \in reasons)
    /\ uplink' = uplink \cup {r \in {Report("error", 0)} : "control_lost" \in reasons}
    /\ UNCHANGED <<drivingState, prevState, serviceKind, mission, motorOn,
                   completeTs, reasonVars>>

OnGpsLost(stops) ==
    /\ EnterError("gps_lost", stops)
    /\ IF "gps_lost" \notin reasons /\ (stops \/ drivingState = "ERROR")
       THEN SendErrorOnce ELSE UNCHANGED uplink

OnGpsRecovered ==
    IF "gps_lost" \in reasons
    THEN /\ SendRecovered
         /\ ClearReason("gps_lost")
         /\ UNCHANGED <<serviceKind, mission, motorOn, completeTs>>
    ELSE UNCHANGED policyVars

-----------------------------------------------------------------------------

\* Called by the control loop; an arrival is reported only from a driving state.
NotifyArrived(now, stops) ==
    IF drivingState \in DRIVING_STATES
    THEN /\ SetDrivingState("ARRIVED")
         /\ ForceStop(stops)
         /\ IF stops THEN MarkComplete(now) ELSE UNCHANGED <<completeTs, uplink>>
         /\ UNCHANGED <<serviceKind, mission, errorResend, reasonVars>>
    ELSE UNCHANGED policyVars
=============================================================================
