---------------------------- MODULE RecoveryRace ----------------------------
(***************************************************************************)
(* The policy's handlers (network/command_policy.py) and the control loop  *)
(* (behavior/driving_worker.py) at the granularity of the store: every     *)
(* call into core/state_store.py is a step of its own.                     *)
(*                                                                         *)
(* VehicleControl takes a handler as one step, because all handlers run    *)
(* under the policy's lock.  The control loop does not take that lock to   *)
(* set the state it decided on, so the store may change between the        *)
(* snapshot of a handler and its calls.  This module keeps the lock, the   *)
(* snapshots and the calls, and leaves out the reports and the motor; the  *)
(* commands and the events of the networks come at any time.               *)
(***************************************************************************)
EXTENDS StateStore

VARIABLES
    reasons,    \* CommandPolicy._reasons
    handler,    \* the next call of the handler that holds the lock, or "free"
    target,     \* destination and kind of the move being handled
    pending,    \* the state the control loop is about to set, or "None"
    arriving,   \* the tick ends with notify_arrived
    hasRoute    \* LaneFollower.has_route

loopVars == <<pending, arriving, hasRoute>>
vars == <<storeVars, reasons, handler, target, loopVars>>

Reasons == {"control_lost", "gps_lost"}

TypeOK ==
    /\ StoreTypeOK
    /\ reasons \subseteq Reasons
    /\ handler \in {"free", "mission", "plan", "clear", "wait", "error", "check", "recover"}
    /\ target \in Missions \cup {NoMission}
    /\ pending \in {"None", "FOLLOWING_ROUTE", "APPROACHING_DESTINATION", "PLANNING",
                    "WAITING"}
    /\ arriving \in BOOLEAN /\ hasRoute \in BOOLEAN

Init ==
    /\ StoreInit
    /\ reasons = {} /\ handler = "free" /\ target = NoMission
    /\ pending = "None" /\ arriving = FALSE /\ hasRoute = FALSE

-----------------------------------------------------------------------------
(* The handlers.  The first step takes the lock and the snapshot.          *)

\* A handler's next call is the given one.
Holds(call) == handler = call /\ UNCHANGED loopVars
Releases == handler' = "free"

BeginMove(dest) ==
    /\ Holds("free") /\ drivingState = "WAITING"
    /\ target' = [dest |-> dest, kind |-> IF serviceKind = "PICKUP" THEN "CARRY" ELSE "PICKUP"]
    /\ handler' = "mission"
    /\ UNCHANGED <<storeVars, reasons>>

MoveSetsMission ==
    /\ Holds("mission")
    /\ SetMission(target.dest, target.kind)
    /\ handler' = "plan"
    /\ UNCHANGED <<drivingState, prevState, poseStale, reasons, target>>

MoveSetsPlanning ==
    /\ Holds("plan")
    /\ SetDrivingState("PLANNING")
    /\ target' = NoMission
    /\ Releases
    /\ UNCHANGED <<serviceKind, mission, poseStale, reasons>>

\* A slip: a stop is accepted in any state.
BeginStopAnytime ==
    /\ Holds("free")
    /\ handler' = "clear"
    /\ UNCHANGED <<storeVars, reasons, target>>

\* The kind of waiting that follows is taken from the snapshot; nothing else sets it.
BeginStop ==
    /\ Holds("free") /\ drivingState = "ARRIVED"
    /\ handler' = "clear"
    /\ UNCHANGED <<storeVars, reasons, target>>

StopClearsMission ==
    /\ Holds("clear")
    /\ ClearMission(IF serviceKind = "PICKUP" THEN "PICKUP" ELSE "None")
    /\ handler' = "wait"
    /\ UNCHANGED <<drivingState, prevState, poseStale, reasons, target>>

StopSetsWaiting ==
    /\ Holds("wait")
    /\ SetDrivingState("WAITING")
    /\ Releases
    /\ UNCHANGED <<serviceKind, mission, poseStale, reasons, target>>

\* _enter_error: the reason is added, then a snapshot decides whether ERROR is set.
BeginError(reason) ==
    /\ Holds("free")
    /\ reasons' = reasons \cup {reason}
    /\ handler' = IF drivingState = "ERROR" THEN "free" ELSE "error"
    /\ UNCHANGED <<storeVars, target>>

ErrorSetsState ==
    /\ Holds("error")
    /\ SetDrivingState("ERROR")
    /\ Releases
    /\ UNCHANGED <<serviceKind, mission, poseStale, reasons, target>>

\* Whether the event that resolves a reason is heeded: a resume only in ERROR.
Heeded(reason) ==
    /\ reason \in reasons
    /\ reason = "control_lost" => drivingState = "ERROR"

\* _clear_reason: the reason is dropped, and with one left the handler ends.
BeginClear(reason) ==
    /\ Holds("free") /\ Heeded(reason)
    /\ reasons' = reasons \ {reason}
    /\ handler' = IF reasons' = {} THEN "check" ELSE "free"
    /\ UNCHANGED <<storeVars, target>>

\* A slip: the recovery looks at the state that was kept instead of the current one.
ClearChecksKept ==
    /\ Holds("check")
    /\ handler' = IF prevState \in DRIVING_STATES THEN "recover" ELSE "free"
    /\ UNCHANGED <<storeVars, reasons, target>>

\* A second snapshot: is the state still ERROR?
ClearChecks ==
    /\ Holds("check")
    /\ handler' = IF drivingState = "ERROR" THEN "recover" ELSE "free"
    /\ UNCHANGED <<storeVars, reasons, target>>

ClearRecovers ==
    /\ Holds("recover")
    /\ RecoverPreviousState
    /\ Releases
    /\ UNCHANGED <<serviceKind, mission, poseStale, reasons, target>>

-----------------------------------------------------------------------------
(* The control loop; nothing it does but notify_arrived takes the lock.    *)

\* A tick takes its snapshot and decides on a state, an arrival, or neither.
Decide(state, arrival) ==
    /\ pending = "None" /\ ~arriving
    /\ pending' = state /\ arriving' = arrival
    /\ UNCHANGED <<storeVars, reasons, handler, target>>

TickPlans ==
    /\ drivingState = "PLANNING"
    /\ IF mission = NoMission
       THEN Decide("WAITING", FALSE) /\ UNCHANGED hasRoute
       ELSE ~poseStale /\ Decide("FOLLOWING_ROUTE", FALSE) /\ hasRoute' = TRUE

TickDrives(near, arrival) ==
    /\ drivingState \in {"FOLLOWING_ROUTE", "APPROACHING_DESTINATION"} /\ ~poseStale
    /\ IF hasRoute
       THEN Decide(IF near /\ drivingState = "FOLLOWING_ROUTE"
                   THEN "APPROACHING_DESTINATION" ELSE "None", arrival)
       ELSE Decide("PLANNING", FALSE)
    /\ UNCHANGED hasRoute

TickDropsRoute ==
    /\ drivingState \notin DRIVING_STATES /\ mission = NoMission /\ hasRoute
    /\ hasRoute' = FALSE
    /\ Decide("None", FALSE)

TickSetsState ==
    /\ pending # "None"
    /\ SetDrivingState(pending)
    /\ pending' = "None"
    /\ UNCHANGED <<serviceKind, mission, poseStale, reasons, handler, target, arriving, hasRoute>>

\* notify_arrived: under the lock no other handler runs, and the state is set by
\* this thread, so snapshot and call are one step.
TickArrives ==
    /\ arriving /\ pending = "None" /\ handler = "free"
    /\ IF drivingState \in DRIVING_STATES
       THEN SetDrivingState("ARRIVED") ELSE UNCHANGED <<drivingState, prevState>>
    /\ arriving' = FALSE
    /\ UNCHANGED <<serviceKind, mission, poseStale, reasons, handler, target, pending, hasRoute>>

\* The localization's own calls.
PoseChanges ==
    /\ UpdatePose \/ MarkPoseStale
    /\ UNCHANGED <<drivingState, prevState, serviceKind, mission, reasons, handler, target,
                   loopVars>>

-----------------------------------------------------------------------------

Handlers ==
    \/ \E dest \in Destinations : BeginMove(dest)
    \/ MoveSetsMission \/ MoveSetsPlanning
    \/ BeginStop \/ StopClearsMission \/ StopSetsWaiting
    \/ \E reason \in Reasons : BeginError(reason) \/ BeginClear(reason)
    \/ ErrorSetsState \/ ClearChecks \/ ClearRecovers

ControlLoop ==
    \/ TickPlans \/ TickDropsRoute
    \/ \E near, arrival \in BOOLEAN : TickDrives(near, arrival)
    \/ TickSetsState \/ TickArrives

Next == Handlers \/ ControlLoop \/ PoseChanges

Spec == Init /\ [][Next]_vars

-----------------------------------------------------------------------------

\* No handler leaves the vehicle in ERROR without a reason whose resolution would
\* bring it back, whatever the control loop sets in between.
ErrorHasReason == handler = "free" /\ drivingState = "ERROR" => reasons # {}

\* A vehicle that drives or has arrived, or was stopped there, has the mission it is
\* on: a state that is set late never revives a service that has ended.
ServiceHasMission ==
    handler = "free" /\ EffectiveState \in DRIVING_STATES \cup {"ARRIVED"}
        => mission # NoMission

\* What the documents say of a mission: it exists only while the vehicle is driving,
\* survives an error stop, and is driven on after the recovery.
MissionOnlyInService ==
    handler = "free" /\ mission # NoMission => drivingState # "WAITING"
=============================================================================
