----------------------------- MODULE StateStore -----------------------------
(***************************************************************************)
(* The vehicle's single shared state (core/state_store.py).  Every method  *)
(* of the class runs under one RLock and replaces an immutable snapshot,   *)
(* so each is one indivisible update; the operators below are those        *)
(* updates, used as conjuncts by the actions of the threads that call them.*)
(*                                                                         *)
(* Of the pose only its freshness is kept (pose_stale, which is TRUE until *)
(* the first accepted pose); coordinates, speed and time stamps belong to  *)
(* the localization.  The state BOOT is left behind by Runtime.initialize  *)
(* before any thread starts, so it is not a state of this model.           *)
(***************************************************************************)
EXTENDS Naturals

CONSTANTS
    Destinations,   \* the places a move may name
    NoMission       \* VehicleSnapshot.mission = None

VARIABLES
    drivingState,   \* VehicleSnapshot.driving_state
    prevState,      \* VehicleSnapshot.prev_state_for_recovery
    serviceKind,    \* VehicleSnapshot.service_kind
    mission,        \* VehicleSnapshot.mission
    poseStale       \* VehicleSnapshot.pose_stale

storeVars == <<drivingState, prevState, serviceKind, mission, poseStale>>

DRIVING_STATES == {"PLANNING", "FOLLOWING_ROUTE", "APPROACHING_DESTINATION"}
NormalStates   == DRIVING_STATES \cup {"WAITING", "ARRIVED"}
DrivingStates  == NormalStates \cup {"ERROR"}
ServiceKinds   == {"PICKUP", "CARRY"}
Missions       == [dest : Destinations, kind : ServiceKinds]

ASSUME DestinationsAssumption == Destinations # {}
ASSUME NoMissionAssumption == NoMission \notin Missions

StoreTypeOK ==
    /\ drivingState \in DrivingStates
    /\ prevState \in NormalStates \cup {"None"}
    /\ serviceKind \in ServiceKinds \cup {"None"}
    /\ mission \in Missions \cup {NoMission}
    /\ poseStale \in BOOLEAN

\* The store as Runtime.initialize leaves it.
StoreInit ==
    /\ drivingState = "WAITING"
    /\ prevState = "None"
    /\ serviceKind = "None"
    /\ mission = NoMission
    /\ poseStale = TRUE

-----------------------------------------------------------------------------

\* A slip: a second error overwrites the kept state with ERROR itself.
SetDrivingStateAlwaysKeeps(state) ==
    /\ drivingState' = state
    /\ prevState' = IF state = "ERROR" THEN drivingState ELSE "None"

\* The state kept for the recovery is the one that was current when ERROR was
\* entered; it is forgotten as soon as any other state is set.
SetDrivingState(state) ==
    /\ drivingState' = state
    /\ prevState' = IF state # "ERROR" THEN "None"
                    ELSE IF drivingState = "ERROR" THEN prevState
                    ELSE drivingState

\* Two slips: the recovery always goes back to WAITING; it does so never, not even
\* when no state was kept.
RecoverToWaiting == drivingState' = "WAITING" /\ prevState' = "None"

RecoverWithoutDefault == drivingState' = prevState /\ prevState' = "None"

RecoverPreviousState ==
    /\ drivingState' = IF prevState = "None" THEN "WAITING" ELSE prevState
    /\ prevState' = "None"

SetMission(dest, kind) ==
    /\ mission' = [dest |-> dest, kind |-> kind]
    /\ serviceKind' = kind

ClearMission(nextKind) ==
    /\ mission' = NoMission
    /\ serviceKind' = nextKind

UpdatePose    == poseStale' = FALSE
MarkPoseStale == poseStale' = TRUE

-----------------------------------------------------------------------------

\* The state the vehicle is in, or was stopped in by an error.
EffectiveState == IF drivingState = "ERROR" THEN prevState ELSE drivingState

\* A slip: an arrival that is not confirmed yet is told as waiting.
ServiceStateArrivedWaits ==
    CASE drivingState = "ERROR" -> "error stop"
      [] drivingState \in DRIVING_STATES /\ serviceKind # "None" -> "moving"
      [] drivingState \in NormalStates \ DRIVING_STATES /\ serviceKind = "PICKUP" ->
            "waiting to board"
      [] OTHER -> "waiting"

\* What the telemetry tells the server (core/enums.py, to_service_state); the two
\* moving states, to the caller and with the customer, are one here.
ServiceState ==
    CASE drivingState = "ERROR" -> "error stop"
      [] drivingState \in DRIVING_STATES \cup {"ARRIVED"} /\ serviceKind # "None" -> "moving"
      [] drivingState = "WAITING" /\ serviceKind = "PICKUP" -> "waiting to board"
      [] OTHER -> "waiting"
=============================================================================
