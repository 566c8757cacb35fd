------------------------ MODULE VehicleControlProofs ------------------------
(***************************************************************************)
(* The types of VehicleControl, its inductive invariant, and what follows. *)
(*                                                                         *)
(* The safety invariants are not inductive by themselves: a tick of the    *)
(* control loop carries a decision from an older snapshot across the steps *)
(* of the other threads.  What makes it harmless is TickOnRoute: no other  *)
(* thread can end the mission of a tick that is about to set a state or to *)
(* drive, because a stop is accepted only at an arrival and only the       *)
(* control loop itself brings the vehicle there; nor replace it, unless a  *)
(* recovery has stranded it in WAITING, where a move is accepted.          *)
(***************************************************************************)
EXTENDS VehicleControl, TLAPS

\* The actions of Next one by one, which every step proof below splits into.
LEMMA NextCases ==
    ASSUME [Next]_vars
    PROVE  \/ TickPlanRoute \/ TickPlanDeferred \/ TickIdle
           \/ \E throttle, near \in BOOLEAN : TickDrive(throttle, near)
           \/ TickWriteState \/ TickApplyCheck \/ TickApplyWrite
           \/ TickNotArrived
           \/ \E stops \in BOOLEAN : TickArrived(stops)
           \/ WorkerDies
           \/ ClearChecks \/ ClearRecovers
           \/ Connect \/ ReceiveCommand
           \/ \E stops \in BOOLEAN : DetectDisconnect(stops)
           \/ AcceptPose \/ MarkerNotFound
           \/ \E stops \in BOOLEAN : LoseGps(stops)
           \/ ReadResends \/ SendResends \/ WatchdogLatch \/ LinkBreaks
           \/ \E r \in uplink : DeliverReport(r)
           \/ \E d \in Destinations : ServerMove(d)
           \/ \E k \in {"stop", "resume"} : ServerAnswer(k)
           \/ \E k \in {"stop", "resume"} : ServerUnasked(k)
           \/ UNCHANGED vars
  BY DEF Next, ControlLoop, Network, Localization, Server

-----------------------------------------------------------------------------
(* What the store keeps for the recovery (StateStore.set_driving_state). *)
LEMMA SetDrivingStateFacts ==
    ASSUME NEW state, SetDrivingState(state)
    PROVE  /\ drivingState' = state
           /\ state # "ERROR" => prevState' = "None"
           /\ state = "ERROR" /\ drivingState = "ERROR" => prevState' = prevState
           /\ state = "ERROR" /\ drivingState # "ERROR" => prevState' = drivingState
  BY DEF SetDrivingState

-----------------------------------------------------------------------------
(* Type correctness.  The variables are taken in three groups, by the kind of *)
(* value they have, which the back-end provers handle best apart.          *)

TypeFlags ==
    /\ poseStale \in BOOLEAN /\ motorOn \in BOOLEAN /\ latched \in BOOLEAN
    /\ errorResend \in BOOLEAN /\ tickError \in BOOLEAN
    /\ output \in BOOLEAN /\ judge \in BOOLEAN /\ arrived \in BOOLEAN
    /\ stranded \in BOOLEAN

TypeNames ==
    /\ drivingState \in DrivingStates
    /\ prevState \in NormalStates \cup {"None"}
    /\ serviceKind \in ServiceKinds \cup {"None"}
    /\ mission \in Missions \cup {NoMission}
    /\ link \in {"down", "up", "dead"}
    /\ pc \in {"idle", "write", "check", "output", "judge", "dead"}
    /\ pending \in {"None", "FOLLOWING_ROUTE", "APPROACHING_DESTINATION",
                    "PLANNING", "WAITING"}
    /\ pc = "write" => pending # "None"
    /\ route \in Destinations \cup {NoRoute}
    /\ gps \in {"none", "ok", "lost"}
    /\ owes \subseteq {"stop", "resume"}
    /\ reasons \subseteq Reasons
    /\ clearing \in {"free", "check", "recover"}

TypeCounts ==
    /\ completeTs \in 0 .. MaxArrivals
    /\ tickComplete \in 0 .. MaxArrivals
    /\ uplink \subseteq Reports
    /\ downlink \in Seq(Commands) /\ Len(downlink) <= MaxQueue
    /\ moves \in 0 .. MaxArrivals
    /\ arrivals \in 0 .. MaxArrivals
    /\ faults \in 0 .. MaxFaults

\* TypeOK alone is not inductive: a tick about to set a state must have one.
TypeInv == TypeFlags /\ TypeNames /\ TypeCounts

LEMMA TypeInvSuffices == TypeInv => TypeOK
  BY DEF TypeInv, TypeFlags, TypeNames, TypeCounts, TypeOK, StoreTypeOK,
         SupervisorTypeOK, ReportTypeOK, PolicyTypeOK

LEMMA FlagsStep == TypeInv /\ [Next]_vars => TypeFlags'
<1> SUFFICES ASSUME TypeInv, [Next]_vars PROVE TypeFlags'
  OBVIOUS
<1>1. TypeFlags
  BY DEF TypeInv
<1> USE DEF TypeFlags,
        storeVars, reportVars, tickVars, workerVars, envVars, policyVars, reasonVars
<1>2. CASE TickPlanRoute
  BY <1>1, <1>2 DEF TickPlanRoute, Continue
<1>3. CASE TickPlanDeferred
  BY <1>1, <1>3 DEF TickPlanDeferred, Continue
<1>4. CASE TickIdle
  BY <1>1, <1>4 DEF TickIdle, Continue
<1>5. ASSUME NEW throttle \in BOOLEAN, NEW near \in BOOLEAN, TickDrive(throttle, near)
      PROVE  TypeFlags'
  BY <1>1, <1>5 DEF TickDrive, Continue
<1>6. CASE TickWriteState
  BY <1>1, <1>6 DEF TickWriteState
<1>7. CASE TickApplyCheck
  BY <1>1, <1>7 DEF TickApplyCheck, ApplyCheck, Blocked
<1>8. CASE TickApplyWrite
  BY <1>1, <1>8 DEF TickApplyWrite, ApplyWrite
<1>9. CASE TickNotArrived
  BY <1>1, <1>9 DEF TickNotArrived
<1>10. ASSUME NEW stops \in BOOLEAN, TickArrived(stops)
      PROVE  TypeFlags'
  BY <1>1, <1>10 DEF TickArrived, NotifyArrived, ForceStop
<1>11. CASE WorkerDies
  BY <1>1, <1>11 DEF WorkerDies
<1>12. CASE Connect
  BY <1>1, <1>12 DEF Connect, OnControlConnected
<1>13. CASE ReceiveCommand
  BY <1>1, <1>13 DEF ReceiveCommand, OnMove, OnStop, OnResume, ClearReason,
     StopErrorResend
<1>14. ASSUME NEW stops \in BOOLEAN, DetectDisconnect(stops)
      PROVE  TypeFlags'
  BY <1>1, <1>14 DEF DetectDisconnect, OnControlDisconnected, EnterError,
     ForceStop
<1>15. CASE AcceptPose
  BY <1>1, <1>15 DEF AcceptPose, UpdatePose, OnGpsRecovered, ClearReason,
     StopErrorResend
<1>16. CASE MarkerNotFound
  BY <1>1, <1>16 DEF MarkerNotFound, MarkPoseStale
<1>17. ASSUME NEW stops \in BOOLEAN, LoseGps(stops)
      PROVE  TypeFlags'
  BY <1>1, <1>17 DEF LoseGps, MarkPoseStale, OnGpsLost, EnterError, ForceStop
<1>18. CASE ReadResends
  BY <1>1, <1>18 DEF ReadResends, ReportTickRead
<1>19. CASE SendResends
  BY <1>1, <1>19 DEF SendResends, ReportTickSend
<1>20. CASE WatchdogLatch
  BY <1>1, <1>20 DEF WatchdogLatch, LatchStop, ForceStop
<1>21. CASE LinkBreaks
  BY <1>1, <1>21 DEF LinkBreaks
<1>22. ASSUME NEW r \in uplink, DeliverReport(r)
      PROVE  TypeFlags'
  BY <1>1, <1>22 DEF DeliverReport
<1>23. ASSUME NEW d \in Destinations, ServerMove(d)
      PROVE  TypeFlags'
  BY <1>1, <1>23 DEF ServerMove, SendCommand
<1>24. ASSUME NEW k \in {"stop", "resume"}, ServerAnswer(k)
      PROVE  TypeFlags'
  BY <1>1, <1>24 DEF ServerAnswer, SendCommand
<1>25. ASSUME NEW k \in {"stop", "resume"}, ServerUnasked(k)
      PROVE  TypeFlags'
  BY <1>1, <1>25 DEF ServerUnasked, SendCommand
<1>26. CASE UNCHANGED vars
  BY <1>1, <1>26 DEF vars
<1>27. CASE ClearChecks
  BY <1>1, <1>27 DEF ClearChecks, CheckStillError
<1>28. CASE ClearRecovers
  BY <1>1, <1>28 DEF ClearRecovers, RecoverAfterCheck
<1>29. QED
  BY <1>2, <1>3, <1>4, <1>5, <1>6, <1>7, <1>8, <1>9, <1>10, <1>11, <1>12, <1>13,
     <1>14, <1>15, <1>16, <1>17, <1>18, <1>19, <1>20, <1>21, <1>22, <1>23, <1>24,
     <1>25, <1>26, <1>27, <1>28, NextCases

LEMMA NamesStep == TypeInv /\ [Next]_vars => TypeNames'
<1> SUFFICES ASSUME TypeInv, [Next]_vars PROVE TypeNames'
  OBVIOUS
<1>1. TypeNames
  BY DEF TypeInv
<1> USE DEF TypeNames,
        storeVars, reportVars, tickVars, workerVars, envVars, policyVars, reasonVars,
        DrivingStates, NormalStates, DRIVING_STATES, ServiceKinds
<1>2. CASE TickPlanRoute
  BY <1>1, <1>2 DEF TickPlanRoute, Continue, Missions
<1>3. CASE TickPlanDeferred
  BY <1>1, <1>3 DEF TickPlanDeferred, Continue
<1>4. CASE TickIdle
  BY <1>1, <1>4 DEF TickIdle, Continue
<1>5. ASSUME NEW throttle \in BOOLEAN, NEW near \in BOOLEAN, TickDrive(throttle, near)
      PROVE  TypeNames'
  BY <1>1, <1>5 DEF TickDrive, Continue
<1>6. CASE TickWriteState
  <2>1. drivingState' = pending /\ prevState' = "None" /\ pending' = "None"
    BY <1>1, <1>6, SetDrivingStateFacts DEF TickWriteState
  <2>2. QED
    BY <1>1, <1>6, <2>1 DEF TickWriteState
<1>7. CASE TickApplyCheck
  BY <1>1, <1>7 DEF TickApplyCheck
<1>8. CASE TickApplyWrite
  BY <1>1, <1>8 DEF TickApplyWrite
<1>9. CASE TickNotArrived
  BY <1>1, <1>9 DEF TickNotArrived
<1>10. ASSUME NEW stops \in BOOLEAN, TickArrived(stops)
      PROVE  TypeNames'
  BY <1>1, <1>10 DEF TickArrived, NotifyArrived, SetDrivingState
<1>11. CASE WorkerDies
  BY <1>1, <1>11 DEF WorkerDies
<1>12. CASE Connect
  BY <1>1, <1>12 DEF Connect, OnControlConnected
<1>13. CASE ReceiveCommand
  <2>1. Head(downlink) \in Commands
    BY <1>13 DEF ReceiveCommand, TypeInv, TypeCounts
  <2>2. ASSUME NEW d \in Destinations, OnMove(d)
        PROVE  /\ drivingState' \in DrivingStates /\ prevState' \in NormalStates \cup {"None"}
               /\ serviceKind' \in ServiceKinds \cup {"None"}
               /\ mission' \in Missions \cup {NoMission} /\ reasons' \subseteq Reasons
               /\ clearing' \in {"free", "check", "recover"}
    BY <1>1, <2>2 DEF OnMove, SetMission, SetDrivingState, Missions
  <2>3. ASSUME OnStop
        PROVE  /\ drivingState' \in DrivingStates /\ prevState' \in NormalStates \cup {"None"}
               /\ serviceKind' \in ServiceKinds \cup {"None"}
               /\ mission' \in Missions \cup {NoMission} /\ reasons' \subseteq Reasons
               /\ clearing' \in {"free", "check", "recover"}
    BY <1>1, <2>3 DEF OnStop, ClearMission, SetDrivingState
  <2>4. ASSUME OnResume
        PROVE  /\ drivingState' \in DrivingStates /\ prevState' \in NormalStates \cup {"None"}
               /\ serviceKind' \in ServiceKinds \cup {"None"}
               /\ mission' \in Missions \cup {NoMission} /\ reasons' \subseteq Reasons
               /\ clearing' \in {"free", "check", "recover"}
    BY <1>1, <2>4 DEF OnResume, ClearReason
  <2>5. Head(downlink).command = "move" => Head(downlink).dest \in Destinations
    BY <2>1 DEF Commands
  <2>6. QED
    BY <1>1, <1>13, <2>2, <2>3, <2>4, <2>5 DEF ReceiveCommand
<1>14. ASSUME NEW stops \in BOOLEAN, DetectDisconnect(stops)
      PROVE  TypeNames'
  BY <1>1, <1>14 DEF DetectDisconnect, OnControlDisconnected, EnterError,
     SetDrivingState, Reasons
<1>15. CASE AcceptPose
  BY <1>1, <1>15 DEF AcceptPose, OnGpsRecovered, ClearReason
<1>16. CASE MarkerNotFound
  BY <1>1, <1>16 DEF MarkerNotFound
<1>17. ASSUME NEW stops \in BOOLEAN, LoseGps(stops)
      PROVE  TypeNames'
  BY <1>1, <1>17 DEF LoseGps, OnGpsLost, EnterError, SetDrivingState, Reasons
<1>18. CASE ReadResends
  BY <1>1, <1>18 DEF ReadResends
<1>19. CASE SendResends
  BY <1>1, <1>19 DEF SendResends
<1>20. CASE WatchdogLatch
  BY <1>1, <1>20 DEF WatchdogLatch
<1>21. CASE LinkBreaks
  BY <1>1, <1>21 DEF LinkBreaks
<1>22. ASSUME NEW r \in uplink, DeliverReport(r)
      PROVE  TypeNames'
  <2>1. owes' \subseteq {"stop", "resume"}
    BY <1>1, <1>22, Zenon DEF DeliverReport
  <2>2. QED
    BY <1>1, <1>22, <2>1 DEF DeliverReport
<1>23. ASSUME NEW d \in Destinations, ServerMove(d)
      PROVE  TypeNames'
  BY <1>1, <1>23 DEF ServerMove, SendCommand
<1>24. ASSUME NEW k \in {"stop", "resume"}, ServerAnswer(k)
      PROVE  TypeNames'
  BY <1>1, <1>24 DEF ServerAnswer, SendCommand
<1>25. ASSUME NEW k \in {"stop", "resume"}, ServerUnasked(k)
      PROVE  TypeNames'
  BY <1>1, <1>25 DEF ServerUnasked, SendCommand
<1>26. CASE UNCHANGED vars
  BY <1>1, <1>26 DEF vars
<1>27. CASE ClearChecks
  BY <1>1, <1>27 DEF ClearChecks, CheckStillError
<1>28. CASE ClearRecovers
  BY <1>1, <1>28 DEF ClearRecovers, RecoverAfterCheck, RecoverPreviousState
<1>29. QED
  BY <1>2, <1>3, <1>4, <1>5, <1>6, <1>7, <1>8, <1>9, <1>10, <1>11, <1>12, <1>13,
     <1>14, <1>15, <1>16, <1>17, <1>18, <1>19, <1>20, <1>21, <1>22, <1>23, <1>24,
     <1>25, <1>26, <1>27, <1>28, NextCases

LEMMA CountsStep == TypeInv /\ [Next]_vars => TypeCounts'
<1> SUFFICES ASSUME TypeInv, [Next]_vars PROVE TypeCounts'
  OBVIOUS
<1>1. TypeCounts
  BY DEF TypeInv
<1> USE MaxArrivalsAssumption, BoundsAssumption DEF TypeCounts,
        storeVars, reportVars, tickVars, workerVars, envVars, policyVars, reasonVars
<1>2. CASE TickPlanRoute
  BY <1>1, <1>2 DEF TickPlanRoute
<1>3. CASE TickPlanDeferred
  BY <1>1, <1>3 DEF TickPlanDeferred
<1>4. CASE TickIdle
  BY <1>1, <1>4 DEF TickIdle
<1>5. ASSUME NEW throttle \in BOOLEAN, NEW near \in BOOLEAN, TickDrive(throttle, near)
      PROVE  TypeCounts'
  BY <1>1, <1>5 DEF TickDrive
<1>6. CASE TickWriteState
  BY <1>1, <1>6 DEF TickWriteState
<1>7. CASE TickApplyCheck
  BY <1>1, <1>7 DEF TickApplyCheck
<1>8. CASE TickApplyWrite
  BY <1>1, <1>8 DEF TickApplyWrite
<1>9. CASE TickNotArrived
  BY <1>1, <1>9 DEF TickNotArrived
<1>10. ASSUME NEW stops \in BOOLEAN, TickArrived(stops)
      PROVE  TypeCounts'
  BY <1>1, <1>10 DEF TickArrived, NotifyArrived, Outcome, Fault, MarkComplete,
     SendAll, Report, Reports
<1>11. CASE WorkerDies
  BY <1>1, <1>11 DEF WorkerDies, Fault
<1>12. CASE Connect
  BY <1>1, <1>12 DEF Connect, OnControlConnected, Report, Reports
<1>13. CASE ReceiveCommand
  BY <1>1, <1>13 DEF ReceiveCommand, OnMove, OnStop, OnResume, SendAccept, SendAll,
     Report, Reports, ClearComplete
<1>14. ASSUME NEW stops \in BOOLEAN, DetectDisconnect(stops)
      PROVE  TypeCounts'
  BY <1>1, <1>14 DEF DetectDisconnect, OnControlDisconnected, EnterError, Outcome,
     Fault
<1>15. CASE AcceptPose
  BY <1>1, <1>15 DEF AcceptPose, OnGpsRecovered, SendRecovered, SendAll, Report,
     Reports
<1>16. CASE MarkerNotFound
  BY <1>1, <1>16 DEF MarkerNotFound, Fault
<1>17. ASSUME NEW stops \in BOOLEAN, LoseGps(stops)
      PROVE  TypeCounts'
  BY <1>1, <1>17 DEF LoseGps, OnGpsLost, EnterError, Fault, SendErrorOnce, SendAll,
     Report, Reports
<1>18. CASE ReadResends
  BY <1>1, <1>18 DEF ReadResends, ReportTickRead
<1>19. CASE SendResends
  BY <1>1, <1>19 DEF SendResends, ReportTickSend, SendAll, Report, Reports
<1>20. CASE WatchdogLatch
  BY <1>1, <1>20 DEF WatchdogLatch, Fault
<1>21. CASE LinkBreaks
  BY <1>1, <1>21 DEF LinkBreaks, Fault
<1>22. ASSUME NEW r \in uplink, DeliverReport(r)
      PROVE  TypeCounts'
  BY <1>1, <1>22 DEF DeliverReport
<1>23. ASSUME NEW d \in Destinations, ServerMove(d)
      PROVE  TypeCounts'
  BY <1>1, <1>23 DEF ServerMove, SendCommand, Commands
<1>24. ASSUME NEW k \in {"stop", "resume"}, ServerAnswer(k)
      PROVE  TypeCounts'
  BY <1>1, <1>24 DEF ServerAnswer, SendCommand, Answer, Commands
<1>25. ASSUME NEW k \in {"stop", "resume"}, ServerUnasked(k)
      PROVE  TypeCounts'
  BY <1>1, <1>25 DEF ServerUnasked, SendCommand, Answer, Commands, Fault
<1>26. CASE UNCHANGED vars
  BY <1>1, <1>26 DEF vars
<1>27. CASE ClearChecks
  BY <1>1, <1>27 DEF ClearChecks, CheckStillError
<1>28. CASE ClearRecovers
  BY <1>1, <1>28 DEF ClearRecovers, RecoverAfterCheck
<1>29. QED
  BY <1>2, <1>3, <1>4, <1>5, <1>6, <1>7, <1>8, <1>9, <1>10, <1>11, <1>12, <1>13,
     <1>14, <1>15, <1>16, <1>17, <1>18, <1>19, <1>20, <1>21, <1>22, <1>23, <1>24,
     <1>25, <1>26, <1>27, <1>28, NextCases

LEMMA TypeInit == Init => TypeInv
<1> USE DEF Init, StoreInit, SupervisorInit, ReportInit, PolicyInit
<1>1. Init => TypeFlags
  BY DEF TypeFlags
<1>2. Init => TypeNames
  BY DEF TypeNames, DrivingStates, NormalStates
<1>3. Init => TypeCounts
  BY MaxArrivalsAssumption, BoundsAssumption DEF TypeCounts
<1>4. QED
  BY <1>1, <1>2, <1>3 DEF TypeInv

LEMMA TypeStep == TypeInv /\ [Next]_vars => TypeInv'
  BY FlagsStep, NamesStep, CountsStep DEF TypeInv

\* Every variable of the vehicle keeps its type under every interleaving of the
\* threads, whatever the server sends and whatever fails.
THEOREM TypeCorrect == Spec => []TypeOK
  BY TypeInit, TypeStep, TypeInvSuffices, PTL DEF Spec

-----------------------------------------------------------------------------
(* The invariant.                                                          *)

\* The kept state is there exactly in ERROR (StateStore.set_driving_state).
PrevIffError == prevState = "None" <=> drivingState # "ERROR"

\* Without a mission the kind only remembers a customer who was picked up.
KindWithoutMission == mission = NoMission => serviceKind # "CARRY"

\* A recovery is under way only when no reason is left, and until it is over the
\* control loop can have set none but a driving state.
LockInv ==
    /\ clearing # "free" => reasons = {}
    /\ clearing = "recover" => drivingState \in DRIVING_STATES \cup {"ERROR"}

\* Follower states have a route, the mission's unless that was stranded, and so has
\* a tick that is about to set such a state or to ask for throttle; it sets no other
\* state and there is none at an arrival.
TickOnRoute ==
    /\ EffectiveState \in {"FOLLOWING_ROUTE", "APPROACHING_DESTINATION"} =>
           route # NoRoute /\ (stranded \/ route = mission.dest)
    /\ pending \in {"None", "FOLLOWING_ROUTE", "APPROACHING_DESTINATION"}
    /\ pc = "write" \/ (pc \in {"check", "output"} /\ output) =>
           /\ mission # NoMission /\ route # NoRoute /\ EffectiveState # "ARRIVED"
           /\ stranded \/ (EffectiveState \in DRIVING_STATES /\ route = mission.dest)

\* The parts about the service, and those about the control loop and the motor.
ServiceInv ==
    /\ PrevIffError /\ KindWithoutMission /\ LockInv
    /\ ErrorHasReason /\ MissionIffInService

DriveInv == TickOnRoute /\ MovesOnlyForItsMission

Inv == TypeInv /\ ServiceInv /\ DriveInv /\ CompleteIffArrived

-----------------------------------------------------------------------------
(* Entering and leaving ERROR does not change the effective state.         *)

LEMMA EnterErrorFacts ==
    ASSUME PrevIffError, drivingState \in DrivingStates,
           NEW reason, NEW stops, EnterError(reason, stops)
    PROVE  /\ EffectiveState' = EffectiveState
           /\ drivingState' = "ERROR" /\ prevState' # "None"
           /\ reasons' = reasons \cup {reason}
           /\ UNCHANGED <<serviceKind, mission, completeTs, clearing, stranded>>
           /\ motorOn' => motorOn
<1>1. drivingState # "None"
  BY DEF DrivingStates, NormalStates, DRIVING_STATES
<1>2. drivingState' = "ERROR" /\ prevState' = EffectiveState
  BY SetDrivingStateFacts DEF EnterError, EffectiveState
<1>3. motorOn' => motorOn
  BY DEF EnterError, ForceStop
<1>4. QED
  BY <1>1, <1>2, <1>3 DEF EnterError, EffectiveState, PrevIffError

LEMMA ClearReasonFacts ==
    ASSUME NEW reason, ClearReason(reason)
    PROVE  /\ UNCHANGED <<drivingState, prevState, EffectiveState, stranded>>
           /\ reasons' = reasons \ {reason}
           /\ clearing' = IF reasons' = {} THEN "check" ELSE "free"
  BY DEF ClearReason, EffectiveState

\* What the last step of _clear_reason does: it goes back to the kept state, or
\* strands the mission that a late tick has set driving in between.
LEMMA RecoverFacts ==
    ASSUME TypeInv, ServiceInv, RecoverAfterCheck
    PROVE  /\ prevState' = "None" /\ drivingState' \in NormalStates
           /\ clearing = "recover" /\ clearing' = "free" /\ reasons = {}
           /\ \/ /\ drivingState = "ERROR" /\ drivingState' = prevState
                 /\ UNCHANGED <<EffectiveState, stranded>>
              \/ /\ drivingState \in DRIVING_STATES /\ drivingState' = "WAITING"
                 /\ EffectiveState \in DRIVING_STATES /\ EffectiveState' = "WAITING"
                 /\ mission # NoMission /\ stranded'
<1>1. /\ clearing = "recover" /\ clearing' = "free" /\ prevState' = "None"
      /\ drivingState' = IF prevState = "None" THEN "WAITING" ELSE prevState
      /\ stranded' = (stranded \/ (prevState = "None" /\ mission # NoMission))
  BY DEF RecoverAfterCheck, RecoverPreviousState
<1>2. /\ drivingState \in DRIVING_STATES \cup {"ERROR"} /\ reasons = {}
      /\ PrevIffError /\ MissionIffInService
      /\ prevState \in NormalStates \cup {"None"} /\ stranded \in BOOLEAN
  BY <1>1 DEF ServiceInv, LockInv, TypeInv, TypeNames, TypeFlags
<1>3. CASE drivingState = "ERROR"
  <2>1. prevState # "None" /\ prevState \in NormalStates
    BY <1>2, <1>3 DEF PrevIffError
  <2>2. drivingState' = prevState /\ drivingState' # "ERROR" /\ stranded' = stranded
    BY <1>1, <1>2, <2>1 DEF NormalStates, DRIVING_STATES
  <2>3. QED
    BY <1>1, <1>2, <1>3, <2>1, <2>2 DEF EffectiveState
<1>4. CASE drivingState # "ERROR"
  <2>1. drivingState \in DRIVING_STATES /\ prevState = "None"
    BY <1>2, <1>4 DEF PrevIffError
  <2>2. EffectiveState \in DRIVING_STATES /\ mission # NoMission
    BY <1>2, <1>4, <2>1 DEF EffectiveState, MissionIffInService
  <2>3. drivingState' = "WAITING" /\ EffectiveState' = "WAITING" /\ stranded'
    BY <1>1, <2>1, <2>2 DEF EffectiveState
  <2>4. QED
    BY <1>1, <1>2, <2>1, <2>2, <2>3 DEF NormalStates
<1>5. QED
  BY <1>3, <1>4

-----------------------------------------------------------------------------
(* Every step preserves the part about the service.                        *)

serviceFrame == <<drivingState, prevState, serviceKind, mission, reasonVars>>

LEMMA ServiceStep == TypeInv /\ ServiceInv /\ DriveInv /\ [Next]_vars => ServiceInv'
<1> SUFFICES ASSUME TypeInv, ServiceInv, DriveInv, [Next]_vars PROVE ServiceInv'
  OBVIOUS
<1> USE DEF ServiceInv
<1>1. /\ drivingState \in DrivingStates /\ prevState \in NormalStates \cup {"None"}
      /\ serviceKind \in ServiceKinds \cup {"None"} /\ NoMission \notin Missions
      /\ clearing \in {"free", "check", "recover"}
  BY NoMissionAssumption DEF TypeInv, TypeNames
<1>2. CASE UNCHANGED serviceFrame
  BY <1>2 DEF serviceFrame, reasonVars, PrevIffError, KindWithoutMission, LockInv,
              ErrorHasReason, MissionIffInService, EffectiveState
<1>3. CASE TickWriteState
  <2>1. drivingState' = pending /\ prevState' = "None"
        /\ pending \in {"FOLLOWING_ROUTE", "APPROACHING_DESTINATION"}
    BY <1>3, SetDrivingStateFacts
       DEF TickWriteState, DriveInv, TickOnRoute, TypeInv, TypeNames
  <2>2. mission # NoMission /\ EffectiveState' \in DRIVING_STATES
    BY <1>3, <2>1 DEF TickWriteState, DriveInv, TickOnRoute, EffectiveState, DRIVING_STATES
  <2>3. UNCHANGED <<serviceKind, mission, reasons, clearing, stranded>>
    BY <1>3 DEF TickWriteState, reasonVars
  <2>4. QED
    BY <2>1, <2>2, <2>3 DEF PrevIffError, KindWithoutMission, LockInv, ErrorHasReason,
       MissionIffInService, DRIVING_STATES
<1>4. ASSUME NEW stops \in BOOLEAN, TickArrived(stops)
      PROVE  ServiceInv'
  <2>1. CASE drivingState \in DRIVING_STATES
    <3>1. drivingState' = "ARRIVED" /\ prevState' = "None" /\ clearing = "free"
          /\ UNCHANGED <<serviceKind, mission, reasons, clearing, stranded>>
      BY <1>4, <2>1, SetDrivingStateFacts DEF TickArrived, NotifyArrived, reasonVars
    <3>2. EffectiveState \in DRIVING_STATES /\ EffectiveState' = "ARRIVED"
      BY <2>1, <3>1 DEF EffectiveState, DRIVING_STATES
    <3>3. QED
      BY <3>1, <3>2 DEF PrevIffError, KindWithoutMission, LockInv, ErrorHasReason,
         MissionIffInService
  <2>2. CASE drivingState \notin DRIVING_STATES
    BY <1>2, <1>4, <2>2 DEF TickArrived, NotifyArrived, policyVars, serviceFrame
  <2>3. QED
    BY <2>1, <2>2
<1>5. CASE ReceiveCommand
  <2>1. ASSUME NEW d \in Destinations, OnMove(d), drivingState = "WAITING"
        PROVE  ServiceInv'
    <3>1. drivingState' = "PLANNING" /\ prevState' = "None"
          /\ UNCHANGED <<reasons, clearing, stranded>>
      BY <2>1, SetDrivingStateFacts DEF OnMove, reasonVars
    <3>2. mission' \in Missions /\ mission'.kind = serviceKind'
      BY <2>1 DEF OnMove, SetMission, Missions, ServiceKinds
    <3>3. QED
      BY <1>1, <1>5, <2>1, <3>1, <3>2 DEF ReceiveCommand, PrevIffError,
         KindWithoutMission, LockInv, ErrorHasReason, MissionIffInService, EffectiveState,
         DRIVING_STATES
  <2>2. ASSUME OnStop, drivingState = "ARRIVED"
        PROVE  ServiceInv'
    <3>1. drivingState' = "WAITING" /\ prevState' = "None" /\ mission' = NoMission
          /\ serviceKind' # "CARRY" /\ UNCHANGED <<reasons, clearing>>
      BY <2>2, SetDrivingStateFacts DEF OnStop, ClearMission
    <3>2. QED
      BY <1>1, <1>5, <2>2, <3>1 DEF ReceiveCommand, PrevIffError, KindWithoutMission,
         LockInv, ErrorHasReason, MissionIffInService, EffectiveState, DRIVING_STATES
  <2>3. ASSUME OnResume, ClearReason("control_lost"), drivingState = "ERROR",
               UNCHANGED <<serviceKind, mission>>
        PROVE  ServiceInv'
    BY <2>3, ClearReasonFacts
       DEF PrevIffError, KindWithoutMission, LockInv, ErrorHasReason, MissionIffInService
  <2>4. \/ \E d \in Destinations : OnMove(d)
        \/ OnStop
        \/ OnResume
    <3>1. Head(downlink) \in Commands
      BY <1>5 DEF ReceiveCommand, TypeInv, TypeCounts
    <3>2. QED
      BY <1>5, <3>1 DEF ReceiveCommand, Commands
  <2>5. \/ \E d \in Destinations : OnMove(d) /\ drivingState = "WAITING"
        \/ OnStop /\ drivingState = "ARRIVED"
        \/ /\ OnResume /\ ClearReason("control_lost") /\ drivingState = "ERROR"
           /\ UNCHANGED <<serviceKind, mission>>
        \/ UNCHANGED serviceFrame
    BY <2>4 DEF OnMove, OnStop, OnResume, policyVars, serviceFrame
  <2>6. QED
    BY <1>2, <2>1, <2>2, <2>3, <2>5
<1>6. ASSUME NEW reason, NEW stops \in BOOLEAN, EnterError(reason, stops), clearing = "free"
      PROVE  ServiceInv'
  BY <1>1, <1>6, EnterErrorFacts
     DEF PrevIffError, KindWithoutMission, LockInv, ErrorHasReason, MissionIffInService
<1>7. ASSUME NEW stops \in BOOLEAN, DetectDisconnect(stops)
      PROVE  ServiceInv'
  BY <1>6, <1>7 DEF DetectDisconnect, OnControlDisconnected
<1>8. ASSUME NEW stops \in BOOLEAN, LoseGps(stops)
      PROVE  ServiceInv'
  BY <1>6, <1>8 DEF LoseGps, OnGpsLost
<1>9. CASE AcceptPose
  <2>1. CASE UNCHANGED serviceFrame
    BY <1>2, <2>1
  <2>2. CASE ~UNCHANGED serviceFrame
    <3>1. ClearReason("gps_lost") /\ UNCHANGED <<serviceKind, mission>>
      BY <1>9, <2>2 DEF AcceptPose, OnGpsRecovered, policyVars, serviceFrame
    <3>2. clearing = "free"
      BY <1>9, <2>2 DEF AcceptPose, policyVars, serviceFrame
    <3>3. QED
      BY <3>1, <3>2, ClearReasonFacts
         DEF PrevIffError, KindWithoutMission, LockInv, ErrorHasReason, MissionIffInService
  <2>3. QED
    BY <2>1, <2>2
<1>10. CASE ClearChecks
  <2>1. /\ clearing = "check"
        /\ clearing' = IF drivingState = "ERROR" THEN "recover" ELSE "free"
        /\ UNCHANGED <<EffectiveState, drivingState, prevState, serviceKind, mission, reasons,
                       stranded>>
    BY <1>10 DEF ClearChecks, CheckStillError, EffectiveState
  <2>2. QED
    BY <2>1 DEF PrevIffError, KindWithoutMission, LockInv, ErrorHasReason,
       MissionIffInService
<1>11. CASE ClearRecovers
  <2>1. UNCHANGED <<serviceKind, mission, reasons>> /\ RecoverAfterCheck
    BY <1>11 DEF ClearRecovers
  <2>2. drivingState' # "ERROR" /\ prevState' = "None" /\ clearing' = "free"
    BY <2>1, RecoverFacts DEF NormalStates, DRIVING_STATES
  <2>3. MissionIffInService'
    <3>1. CASE UNCHANGED <<EffectiveState, stranded>>
      BY <2>1, <3>1 DEF MissionIffInService
    <3>2. CASE ~UNCHANGED <<EffectiveState, stranded>>
      <4>1. EffectiveState' = "WAITING" /\ stranded' /\ mission # NoMission
        BY <2>1, <3>2, RecoverFacts
      <4>2. QED
        BY <2>1, <4>1 DEF MissionIffInService, DRIVING_STATES
    <3>3. QED
      BY <3>1, <3>2
  <2>4. QED
    BY <2>1, <2>2, <2>3 DEF PrevIffError, KindWithoutMission, LockInv, ErrorHasReason
<1>12. CASE TickPlanRoute
  <2>1. /\ EffectiveState \in DRIVING_STATES
        /\ UNCHANGED <<EffectiveState, drivingState, prevState, serviceKind, mission, reasons,
                       clearing>>
    BY <1>12 DEF TickPlanRoute, EffectiveState, DRIVING_STATES, storeVars
  <2>2. QED
    BY <2>1 DEF PrevIffError, KindWithoutMission, LockInv, ErrorHasReason,
       MissionIffInService
<1>13. CASE \/ TickPlanDeferred \/ TickIdle
            \/ \E throttle, near \in BOOLEAN : TickDrive(throttle, near)
            \/ TickApplyCheck \/ TickApplyWrite \/ TickNotArrived \/ WorkerDies \/ Connect
  BY <1>2, <1>13 DEF TickPlanDeferred, TickIdle, TickDrive, TickApplyCheck, Connect,
     OnControlConnected, TickApplyWrite, TickNotArrived, WorkerDies, serviceFrame, storeVars
<1>14. CASE \/ MarkerNotFound \/ ReadResends \/ SendResends \/ WatchdogLatch \/ LinkBreaks
            \/ \E r \in uplink : DeliverReport(r)
            \/ \E d \in Destinations : ServerMove(d)
            \/ \E k \in {"stop", "resume"} : ServerAnswer(k)
            \/ \E k \in {"stop", "resume"} : ServerUnasked(k)
            \/ UNCHANGED vars
  BY <1>2, <1>14 DEF MarkerNotFound, ReadResends, SendResends, WatchdogLatch, LinkBreaks,
     DeliverReport, ServerMove, ServerAnswer, ServerUnasked, SendCommand, vars,
     serviceFrame, storeVars, policyVars
<1>15. QED
  BY <1>3, <1>4, <1>5, <1>7, <1>8, <1>9, <1>10, <1>11, <1>12, <1>13, <1>14, NextCases

-----------------------------------------------------------------------------
(* Every step preserves the part about the control loop and the motor.     *)

\* What a step of another thread leaves alone.
loopFrame == <<route, pc, pending, output>>

\* A step that keeps the mission and the effective state and does not turn the
\* motor on.
LEMMA DriveFrame ==
    ASSUME DriveInv, EffectiveState' = EffectiveState, motorOn' => motorOn,
           UNCHANGED <<mission, stranded, loopFrame>>
    PROVE  DriveInv'
<1>1. TickOnRoute'
  BY DEF DriveInv, TickOnRoute, loopFrame
<1>2. MovesOnlyForItsMission'
  BY DEF DriveInv, MovesOnlyForItsMission, loopFrame
<1>3. QED
  BY <1>1, <1>2 DEF DriveInv

\* An accepted move: only a tick of a stranded mission can be about to act.
LEMMA DriveMove ==
    ASSUME DriveInv, EffectiveState = "WAITING", EffectiveState' = "PLANNING",
           mission' # NoMission, UNCHANGED <<motorOn, stranded, loopFrame>>
    PROVE  DriveInv'
<1>1. EffectiveState \notin DRIVING_STATES
  BY DEF DRIVING_STATES
<1>2. TickOnRoute'
  BY <1>1 DEF DriveInv, TickOnRoute, loopFrame
<1>3. MovesOnlyForItsMission'
  BY <1>1 DEF DriveInv, MovesOnlyForItsMission, loopFrame
<1>4. QED
  BY <1>2, <1>3 DEF DriveInv

\* An accepted stop: at an arrival no tick is about to act.
LEMMA DriveStop ==
    ASSUME DriveInv, EffectiveState = "ARRIVED", EffectiveState' = "WAITING",
           UNCHANGED <<motorOn, loopFrame>>
    PROVE  DriveInv'
<1>1. TickOnRoute'
  BY DEF DriveInv, TickOnRoute, loopFrame
<1>2. MovesOnlyForItsMission'
  BY DEF DriveInv, MovesOnlyForItsMission, loopFrame
<1>3. QED
  BY <1>1, <1>2 DEF DriveInv

\* A recovery that strands the mission.
LEMMA DriveStrand ==
    ASSUME DriveInv, EffectiveState' = "WAITING", mission # NoMission, stranded',
           EffectiveState \in DRIVING_STATES, UNCHANGED <<mission, motorOn, loopFrame>>
    PROVE  DriveInv'
<1>1. TickOnRoute'
  BY DEF DriveInv, TickOnRoute, loopFrame
<1>2. MovesOnlyForItsMission'
  BY DEF DriveInv, MovesOnlyForItsMission, loopFrame
<1>3. QED
  BY <1>1, <1>2 DEF DriveInv

LEMMA DriveStep == TypeInv /\ ServiceInv /\ DriveInv /\ [Next]_vars => DriveInv'
<1> SUFFICES ASSUME TypeInv, ServiceInv, DriveInv, [Next]_vars PROVE DriveInv'
  OBVIOUS
<1>1. /\ drivingState \in DrivingStates /\ prevState \in NormalStates \cup {"None"}
      /\ mission \in Missions \cup {NoMission}
      /\ PrevIffError /\ ErrorHasReason /\ MissionIffInService
  BY DEF TypeInv, TypeNames, ServiceInv
<1>2. DRIVING_STATES = {"PLANNING", "FOLLOWING_ROUTE", "APPROACHING_DESTINATION"}
  BY DEF DRIVING_STATES
<1>3. CASE TickPlanRoute
  <2>1. /\ EffectiveState = "PLANNING" /\ UNCHANGED <<EffectiveState, mission, motorOn>>
        /\ route' = mission.dest /\ mission \in Missions
        /\ pending' = "FOLLOWING_ROUTE" /\ pc' = "write"
    BY <1>1, <1>3 DEF TickPlanRoute, Continue, EffectiveState, storeVars, reasonVars
  <2>2. route' # NoRoute /\ mission # NoMission
    BY <2>1, BoundsAssumption, NoMissionAssumption DEF Missions
  <2>3. TickOnRoute'
    BY <1>2, <2>1, <2>2 DEF TickOnRoute
  <2>4. MovesOnlyForItsMission'
    BY <1>2, <2>1, <2>2 DEF MovesOnlyForItsMission
  <2>5. QED
    BY <2>3, <2>4 DEF DriveInv
<1>4. CASE TickPlanDeferred
  <2>1. EffectiveState = "PLANNING" /\ UNCHANGED <<EffectiveState, mission, motorOn, route, stranded>>
    BY <1>4 DEF TickPlanDeferred, EffectiveState, storeVars, reasonVars
  <2>2. pending' = "None" /\ pc' = "check" /\ ~output' /\ pc = "idle"
    BY <1>1, <1>2, <1>4, <2>1 DEF TickPlanDeferred, Continue, MissionIffInService
  <2>3. TickOnRoute'
    BY <2>1, <2>2 DEF DriveInv, TickOnRoute
  <2>4. MovesOnlyForItsMission'
    BY <2>1, <2>2 DEF DriveInv, MovesOnlyForItsMission
  <2>5. QED
    BY <2>3, <2>4 DEF DriveInv
<1>5. CASE TickIdle
  <2>1. /\ UNCHANGED <<EffectiveState, mission, motorOn, stranded>>
        /\ pending' = "None" /\ pc' = "check" /\ ~output' /\ pc = "idle"
    BY <1>5 DEF TickIdle, Continue, EffectiveState, storeVars, reasonVars
  <2>2. CASE mission = NoMission
    <3>1. EffectiveState \notin DRIVING_STATES
      BY <1>1, <2>2 DEF MissionIffInService
    <3>2. TickOnRoute'
      BY <1>2, <2>1, <3>1 DEF TickOnRoute
    <3>3. MovesOnlyForItsMission'
      BY <2>1, <2>2 DEF DriveInv, MovesOnlyForItsMission
    <3>4. QED
      BY <3>2, <3>3 DEF DriveInv
  <2>3. CASE mission # NoMission
    <3>1. UNCHANGED route
      BY <1>5, <2>3 DEF TickIdle
    <3>2. TickOnRoute'
      BY <2>1, <3>1 DEF DriveInv, TickOnRoute
    <3>3. MovesOnlyForItsMission'
      BY <2>1, <3>1 DEF DriveInv, MovesOnlyForItsMission
    <3>4. QED
      BY <3>2, <3>3 DEF DriveInv
  <2>4. QED
    BY <2>2, <2>3
<1>6. ASSUME NEW throttle \in BOOLEAN, NEW near \in BOOLEAN, TickDrive(throttle, near)
      PROVE  DriveInv'
  <2>1. /\ EffectiveState \in {"FOLLOWING_ROUTE", "APPROACHING_DESTINATION"}
        /\ UNCHANGED <<EffectiveState, mission, motorOn, route, stranded>> /\ pc = "idle"
    BY <1>6 DEF TickDrive, EffectiveState, storeVars, reasonVars
  <2>2. mission # NoMission
    BY <1>1, <1>2, <2>1 DEF MissionIffInService
  <2>3. route # NoRoute /\ (stranded \/ route = mission.dest)
    BY <2>1 DEF DriveInv, TickOnRoute
  <2>4. pending' \in {"None", "APPROACHING_DESTINATION"}
    <3>1. CASE poseStale
      BY <1>6, <3>1 DEF TickDrive, Continue
    <3>2. CASE ~poseStale
      BY <1>6, <2>3, <3>2 DEF TickDrive, Continue
    <3>3. QED
      BY <3>1, <3>2
  <2>5. TickOnRoute'
    BY <1>2, <2>1, <2>2, <2>3, <2>4 DEF TickOnRoute
  <2>6. MovesOnlyForItsMission'
    BY <1>2, <2>1, <2>2, <2>3 DEF MovesOnlyForItsMission
  <2>7. QED
    BY <2>5, <2>6 DEF DriveInv
<1>7. CASE TickWriteState
  <2>1. drivingState' = pending /\ prevState' = "None" /\ pending' = "None"
        /\ pending \in {"FOLLOWING_ROUTE", "APPROACHING_DESTINATION"} /\ pc = "write"
    BY <1>7, SetDrivingStateFacts
       DEF TickWriteState, DriveInv, TickOnRoute, TypeInv, TypeNames
  <2>2. /\ EffectiveState' \in DRIVING_STATES /\ EffectiveState' # "ARRIVED"
        /\ mission # NoMission /\ route # NoRoute /\ (stranded \/ route = mission.dest)
        /\ UNCHANGED <<mission, route, motorOn, output, stranded>> /\ pc' = "check"
    BY <1>2, <1>7, <2>1
       DEF TickWriteState, DriveInv, TickOnRoute, EffectiveState, reasonVars
  <2>3. TickOnRoute'
    BY <2>1, <2>2 DEF TickOnRoute
  <2>4. MovesOnlyForItsMission'
    BY <2>1, <2>2 DEF DriveInv, MovesOnlyForItsMission
  <2>5. QED
    BY <2>3, <2>4 DEF DriveInv
<1>8. CASE TickApplyCheck
  <2>1. /\ UNCHANGED <<EffectiveState, mission, motorOn, route, pending, stranded>>
        /\ pc = "check" /\ pc' = "output" /\ (output' => output)
    BY <1>8 DEF TickApplyCheck, ApplyCheck, EffectiveState, storeVars, reasonVars
  <2>2. TickOnRoute'
    BY <2>1 DEF DriveInv, TickOnRoute
  <2>3. MovesOnlyForItsMission'
    BY <2>1 DEF DriveInv, MovesOnlyForItsMission
  <2>4. QED
    BY <2>2, <2>3 DEF DriveInv
<1>9. CASE TickApplyWrite
  <2>1. /\ UNCHANGED <<EffectiveState, mission, route, pending, stranded>>
        /\ pc = "output" /\ pc' \in {"judge", "idle"} /\ motorOn' = output
    BY <1>9 DEF TickApplyWrite, ApplyWrite, EffectiveState, storeVars, reasonVars
  <2>2. TickOnRoute'
    BY <2>1 DEF DriveInv, TickOnRoute
  <2>3. MovesOnlyForItsMission'
    BY <2>1 DEF DriveInv, TickOnRoute, MovesOnlyForItsMission
  <2>4. QED
    BY <2>2, <2>3 DEF DriveInv
<1>10. CASE TickNotArrived
  <2>1. /\ UNCHANGED <<EffectiveState, mission, motorOn, route, pending, stranded>>
        /\ pc = "judge" /\ pc' = "idle"
    BY <1>10 DEF TickNotArrived, EffectiveState, storeVars, reasonVars
  <2>2. TickOnRoute'
    BY <2>1 DEF DriveInv, TickOnRoute
  <2>3. MovesOnlyForItsMission'
    BY <2>1 DEF DriveInv, MovesOnlyForItsMission
  <2>4. QED
    BY <2>2, <2>3 DEF DriveInv
<1>11. ASSUME NEW stops \in BOOLEAN, TickArrived(stops)
       PROVE  DriveInv'
  <2>1. pc = "judge" /\ pc' \in {"idle", "dead"} /\ UNCHANGED <<mission, route, pending, stranded>>
    BY <1>11 DEF TickArrived, NotifyArrived, policyVars, reasonVars
  <2>2. CASE drivingState \in DRIVING_STATES
    <3>1. EffectiveState' = "ARRIVED"
      BY <1>11, <2>2, SetDrivingStateFacts DEF TickArrived, NotifyArrived, EffectiveState
    <3>2. pc' # "dead" => ~motorOn'
      BY <1>11, <2>2 DEF TickArrived, NotifyArrived, ForceStop
    <3>3. TickOnRoute'
      BY <2>1, <3>1 DEF DriveInv, TickOnRoute
    <3>4. MovesOnlyForItsMission'
      BY <3>2 DEF MovesOnlyForItsMission
    <3>5. QED
      BY <3>3, <3>4 DEF DriveInv
  <2>3. CASE drivingState \notin DRIVING_STATES
    <3>1. UNCHANGED <<EffectiveState, motorOn>>
      BY <1>11, <2>3 DEF TickArrived, NotifyArrived, policyVars, reasonVars, EffectiveState
    <3>2. TickOnRoute'
      BY <2>1, <3>1 DEF DriveInv, TickOnRoute
    <3>3. MovesOnlyForItsMission'
      BY <2>1, <3>1 DEF DriveInv, MovesOnlyForItsMission
    <3>4. QED
      BY <3>2, <3>3 DEF DriveInv
  <2>4. QED
    BY <2>2, <2>3
<1>12. CASE WorkerDies
  <2>1. /\ UNCHANGED <<EffectiveState, mission, route, pending, stranded>>
        /\ pc \in {"idle", "output"} /\ pc' = "dead"
    BY <1>12 DEF WorkerDies, EffectiveState, storeVars, reasonVars
  <2>2. TickOnRoute'
    BY <2>1 DEF DriveInv, TickOnRoute
  <2>3. MovesOnlyForItsMission'
    BY <2>1 DEF MovesOnlyForItsMission
  <2>4. QED
    BY <2>2, <2>3 DEF DriveInv
<1>13. CASE ReceiveCommand
  <2>1. UNCHANGED <<motorOn, loopFrame>>
    BY <1>13 DEF ReceiveCommand, OnMove, OnStop, OnResume, policyVars, workerVars, loopFrame
  <2>2. ASSUME NEW d, OnMove(d)
        PROVE  DriveInv'
    <3>1. CASE drivingState = "WAITING"
      <4>1. EffectiveState = "WAITING" /\ EffectiveState' = "PLANNING" /\ UNCHANGED stranded
        BY <2>2, <3>1, SetDrivingStateFacts DEF OnMove, EffectiveState, reasonVars
      <4>2. mission' # NoMission
        <5>1. ServiceInv'
          BY ServiceStep
        <5>2. QED
          BY <4>1, <5>1 DEF ServiceInv, MissionIffInService, DRIVING_STATES
      <4>3. QED
        BY <2>1, <4>1, <4>2, DriveMove
    <3>2. CASE drivingState # "WAITING"
      BY <2>1, <2>2, <3>2, DriveFrame DEF OnMove, policyVars, reasonVars, EffectiveState
    <3>3. QED
      BY <3>1, <3>2
  <2>3. CASE OnStop
    <3>1. CASE drivingState = "ARRIVED"
      <4>1. EffectiveState = "ARRIVED" /\ EffectiveState' = "WAITING"
        BY <2>3, <3>1, SetDrivingStateFacts DEF OnStop, EffectiveState
      <4>2. QED
        BY <2>1, <4>1, DriveStop
    <3>2. CASE drivingState # "ARRIVED"
      BY <2>1, <2>3, <3>2, DriveFrame DEF OnStop, policyVars, reasonVars, EffectiveState
    <3>3. QED
      BY <3>1, <3>2
  <2>4. CASE OnResume
    <3>1. UNCHANGED <<EffectiveState, mission, stranded>>
      BY <2>4, ClearReasonFacts DEF OnResume, policyVars, reasonVars, EffectiveState
    <3>2. QED
      BY <2>1, <3>1, DriveFrame
  <2>5. QED
    BY <1>13, <2>2, <2>3, <2>4 DEF ReceiveCommand
<1>14. ASSUME NEW reason, NEW stops \in BOOLEAN, EnterError(reason, stops),
              UNCHANGED workerVars
       PROVE  DriveInv'
  BY <1>1, <1>14, EnterErrorFacts, DriveFrame DEF workerVars, loopFrame
<1>15. ASSUME NEW stops \in BOOLEAN, DetectDisconnect(stops)
       PROVE  DriveInv'
  BY <1>14, <1>15 DEF DetectDisconnect, OnControlDisconnected
<1>16. ASSUME NEW stops \in BOOLEAN, LoseGps(stops)
       PROVE  DriveInv'
  BY <1>14, <1>16 DEF LoseGps, OnGpsLost
<1>17. CASE AcceptPose
  <2>1. UNCHANGED <<mission, motorOn, loopFrame>>
    BY <1>17 DEF AcceptPose, OnGpsRecovered, policyVars, workerVars, loopFrame
  <2>2. UNCHANGED <<EffectiveState, stranded>>
    BY <1>17, ClearReasonFacts
       DEF AcceptPose, OnGpsRecovered, policyVars, reasonVars, EffectiveState
  <2>3. QED
    BY <2>1, <2>2, DriveFrame
<1>18. CASE \/ Connect \/ MarkerNotFound \/ ReadResends \/ SendResends
            \/ WatchdogLatch \/ LinkBreaks
            \/ \E r \in uplink : DeliverReport(r)
            \/ \E d \in Destinations : ServerMove(d)
            \/ \E k \in {"stop", "resume"} : ServerAnswer(k)
            \/ \E k \in {"stop", "resume"} : ServerUnasked(k)
            \/ UNCHANGED vars
  <2>1. UNCHANGED <<drivingState, prevState, mission, stranded, loopFrame>>
    BY <1>18 DEF Connect, OnControlConnected, MarkerNotFound, ReadResends, SendResends,
       WatchdogLatch, LinkBreaks, DeliverReport, ServerMove, ServerAnswer, ServerUnasked,
       SendCommand, vars, storeVars, policyVars, reasonVars, workerVars, loopFrame
  <2>2. motorOn' => motorOn
    BY <1>18 DEF Connect, OnControlConnected, MarkerNotFound, ReadResends, SendResends,
       WatchdogLatch, LatchStop, ForceStop, LinkBreaks, DeliverReport, ServerMove,
       ServerAnswer, ServerUnasked, SendCommand, vars, policyVars, reasonVars
  <2>3. QED
    BY <2>1, <2>2, DriveFrame DEF EffectiveState
<1>19. CASE ClearChecks
  <2>1. UNCHANGED <<drivingState, prevState, mission, motorOn, stranded, loopFrame>>
    BY <1>19 DEF ClearChecks, CheckStillError, workerVars, loopFrame
  <2>2. QED
    BY <2>1, DriveFrame DEF EffectiveState
<1>20. CASE ClearRecovers
  <2>1. UNCHANGED <<mission, motorOn, loopFrame>> /\ RecoverAfterCheck
    BY <1>20 DEF ClearRecovers, workerVars, loopFrame
  <2>2. CASE UNCHANGED <<EffectiveState, stranded>>
    BY <2>1, <2>2, DriveFrame
  <2>3. CASE ~UNCHANGED <<EffectiveState, stranded>>
    BY <2>1, <2>3, RecoverFacts, DriveStrand
  <2>4. QED
    BY <2>2, <2>3
<1>21. QED
  BY <1>3, <1>4, <1>5, <1>6, <1>7, <1>8, <1>9, <1>10, <1>11, <1>12, <1>13, <1>15, <1>16,
     <1>17, <1>18, <1>19, <1>20, NextCases

-----------------------------------------------------------------------------
(* Every step keeps the complete report and the arrival together.          *)

LEMMA CompleteFrame ==
    ASSUME CompleteIffArrived, EffectiveState' = EffectiveState,
           UNCHANGED <<completeTs, arrivals>>, pc = "dead" => pc' = "dead"
    PROVE  CompleteIffArrived'
  BY DEF CompleteIffArrived

LEMMA CompleteStep ==
    TypeInv /\ ServiceInv /\ DriveInv /\ CompleteIffArrived /\ [Next]_vars
        => CompleteIffArrived'
<1> SUFFICES ASSUME TypeInv, ServiceInv, DriveInv, CompleteIffArrived, [Next]_vars
             PROVE  CompleteIffArrived'
  OBVIOUS
<1>1. /\ drivingState \in DrivingStates /\ prevState \in NormalStates \cup {"None"}
      /\ PrevIffError /\ ErrorHasReason
  BY DEF TypeInv, TypeNames, ServiceInv
<1>2. arrivals \in Nat /\ completeTs \in Nat
  BY MaxArrivalsAssumption DEF TypeInv, TypeCounts
<1>3. CASE TickWriteState
  <2>1. drivingState' = pending /\ pending \in {"FOLLOWING_ROUTE", "APPROACHING_DESTINATION"}
    BY <1>3, SetDrivingStateFacts
       DEF TickWriteState, DriveInv, TickOnRoute, TypeInv, TypeNames
  <2>2. EffectiveState # "ARRIVED" /\ EffectiveState' # "ARRIVED"
        /\ UNCHANGED <<completeTs, arrivals>>
    BY <1>3, <2>1 DEF TickWriteState, DriveInv, TickOnRoute, EffectiveState, reportVars
  <2>3. QED
    BY <2>2 DEF CompleteIffArrived
<1>4. ASSUME NEW stops \in BOOLEAN, TickArrived(stops)
      PROVE  CompleteIffArrived'
  <2>1. CASE drivingState \in DRIVING_STATES
    <3>1. EffectiveState' = "ARRIVED" /\ arrivals' = arrivals + 1
      BY <1>4, <2>1, SetDrivingStateFacts DEF TickArrived, NotifyArrived, EffectiveState
    <3>2. completeTs = 0
      BY <2>1 DEF CompleteIffArrived, EffectiveState, DRIVING_STATES
    <3>3. CASE stops
      <4>1. completeTs' = arrivals + 1
        BY <1>4, <2>1, <3>2, <3>3 DEF TickArrived, NotifyArrived, MarkComplete
      <4>2. QED
        BY <1>2, <3>1, <4>1 DEF CompleteIffArrived
    <3>4. CASE ~stops
      <4>1. completeTs' = 0 /\ pc' = "dead"
        BY <1>4, <2>1, <3>2, <3>4 DEF TickArrived, NotifyArrived
      <4>2. QED
        BY <4>1 DEF CompleteIffArrived
    <3>5. QED
      BY <3>3, <3>4
  <2>2. CASE drivingState \notin DRIVING_STATES
    <3>1. UNCHANGED <<EffectiveState, completeTs, arrivals>>
      BY <1>4, <2>2 DEF TickArrived, NotifyArrived, policyVars, reasonVars, EffectiveState
    <3>2. pc = "judge"
      BY <1>4 DEF TickArrived
    <3>3. QED
      BY <3>1, <3>2, CompleteFrame
  <2>3. QED
    BY <2>1, <2>2
<1>5. CASE ReceiveCommand
  <2>1. UNCHANGED <<pc, arrivals>>
    BY <1>5 DEF ReceiveCommand, workerVars
  <2>2. CASE \E d : OnMove(d)
    <3>1. \/ EffectiveState' = EffectiveState
          \/ EffectiveState = "WAITING" /\ EffectiveState' = "PLANNING"
      BY <2>2, SetDrivingStateFacts DEF OnMove, policyVars, reasonVars, EffectiveState
    <3>2. UNCHANGED completeTs
      BY <2>2 DEF OnMove, policyVars, reasonVars
    <3>3. QED
      BY <2>1, <3>1, <3>2 DEF CompleteIffArrived
  <2>3. CASE OnStop
    <3>1. \/ UNCHANGED <<EffectiveState, completeTs>>
          \/ EffectiveState' = "WAITING" /\ completeTs' = 0
      BY <2>3, SetDrivingStateFacts DEF OnStop, policyVars, reasonVars, EffectiveState, ClearComplete
    <3>2. QED
      BY <2>1, <3>1 DEF CompleteIffArrived
  <2>4. CASE OnResume
    <3>1. UNCHANGED completeTs
      BY <2>4 DEF OnResume, policyVars, reasonVars
    <3>2. EffectiveState' = EffectiveState
      BY <2>4, ClearReasonFacts DEF OnResume, policyVars, EffectiveState
    <3>3. QED
      BY <2>1, <3>1, <3>2, CompleteFrame
  <2>5. QED
    BY <1>5, <2>2, <2>3, <2>4 DEF ReceiveCommand
<1>6. ASSUME NEW reason, NEW stops \in BOOLEAN, EnterError(reason, stops),
             UNCHANGED <<pc, arrivals>>
      PROVE  CompleteIffArrived'
  BY <1>1, <1>6, EnterErrorFacts, CompleteFrame
<1>7. ASSUME NEW stops \in BOOLEAN, DetectDisconnect(stops)
      PROVE  CompleteIffArrived'
  BY <1>6, <1>7 DEF DetectDisconnect, OnControlDisconnected, workerVars
<1>8. ASSUME NEW stops \in BOOLEAN, LoseGps(stops)
      PROVE  CompleteIffArrived'
  BY <1>6, <1>8 DEF LoseGps, OnGpsLost, workerVars
<1>9. CASE AcceptPose
  <2>1. UNCHANGED <<completeTs, arrivals, pc>>
    BY <1>9 DEF AcceptPose, OnGpsRecovered, policyVars, reasonVars, workerVars
  <2>2. EffectiveState' = EffectiveState
    BY <1>9, ClearReasonFacts DEF AcceptPose, OnGpsRecovered, policyVars, EffectiveState
  <2>3. QED
    BY <2>1, <2>2, CompleteFrame
<1>10. CASE \/ TickPlanRoute \/ TickPlanDeferred \/ TickIdle
            \/ \E throttle, near \in BOOLEAN : TickDrive(throttle, near)
            \/ TickApplyCheck \/ TickApplyWrite \/ TickNotArrived \/ WorkerDies
  <2>1. UNCHANGED <<drivingState, prevState, completeTs, arrivals>>
    BY <1>10 DEF TickPlanRoute, TickPlanDeferred, TickIdle, TickDrive, TickApplyCheck,
       TickApplyWrite, TickNotArrived, WorkerDies, storeVars, reportVars
  <2>2. pc = "dead" => pc' = "dead"
    BY <1>10 DEF TickPlanRoute, TickPlanDeferred, TickIdle, TickDrive, TickApplyCheck,
       TickApplyWrite, TickNotArrived, WorkerDies
  <2>3. QED
    BY <2>1, <2>2, CompleteFrame DEF EffectiveState
<1>11. CASE \/ Connect \/ MarkerNotFound \/ ReadResends \/ SendResends
            \/ WatchdogLatch \/ LinkBreaks
            \/ \E r \in uplink : DeliverReport(r)
            \/ \E d \in Destinations : ServerMove(d)
            \/ \E k \in {"stop", "resume"} : ServerAnswer(k)
            \/ \E k \in {"stop", "resume"} : ServerUnasked(k)
            \/ UNCHANGED vars
  <2>1. UNCHANGED <<drivingState, prevState, completeTs, arrivals, pc>>
    BY <1>11 DEF Connect, OnControlConnected, MarkerNotFound, ReadResends, SendResends,
       WatchdogLatch, LinkBreaks, DeliverReport, ServerMove, ServerAnswer, ServerUnasked,
       SendCommand, vars, storeVars, policyVars, reasonVars, workerVars, reportVars
  <2>2. QED
    BY <2>1, CompleteFrame DEF EffectiveState
<1>12. CASE ClearChecks
  <2>1. UNCHANGED <<drivingState, prevState, completeTs, arrivals, pc>>
    BY <1>12 DEF ClearChecks, CheckStillError, workerVars, reportVars
  <2>2. QED
    BY <2>1, CompleteFrame DEF EffectiveState
<1>13. CASE ClearRecovers
  <2>1. UNCHANGED <<completeTs, arrivals, pc>> /\ RecoverAfterCheck
    BY <1>13 DEF ClearRecovers, workerVars, reportVars
  <2>2. CASE EffectiveState' = EffectiveState
    BY <2>1, <2>2, CompleteFrame
  <2>3. CASE EffectiveState' # EffectiveState
    <3>1. EffectiveState \in DRIVING_STATES /\ EffectiveState' = "WAITING"
      BY <2>1, <2>3, RecoverFacts
    <3>2. QED
      BY <2>1, <3>1 DEF CompleteIffArrived, DRIVING_STATES
  <2>4. QED
    BY <2>2, <2>3
<1>14. QED
  BY <1>3, <1>4, <1>5, <1>7, <1>8, <1>9, <1>10, <1>11, <1>12, <1>13, NextCases

-----------------------------------------------------------------------------
(* The theorems.                                                           *)

LEMMA InvInit == Init => Inv
<1> SUFFICES ASSUME Init PROVE Inv
  OBVIOUS
<1>1. TypeInv
  BY TypeInit
<1>2. ServiceInv
  BY DEF ServiceInv, Init, StoreInit, ReportInit, PolicyInit, PrevIffError,
     KindWithoutMission, LockInv, ErrorHasReason, MissionIffInService, EffectiveState,
     DRIVING_STATES
<1>3. DriveInv
  BY DEF DriveInv, Init, StoreInit, SupervisorInit, TickOnRoute, MovesOnlyForItsMission,
     EffectiveState
<1>4. CompleteIffArrived
  BY DEF Init, StoreInit, ReportInit, CompleteIffArrived, EffectiveState
<1>5. QED
  BY <1>1, <1>2, <1>3, <1>4 DEF Inv

LEMMA InvStep == Inv /\ [Next]_vars => Inv'
  BY TypeStep, ServiceStep, DriveStep, CompleteStep DEF Inv

\* The inductive invariant holds in every reachable state.
THEOREM Invariant == Spec => []Inv
  BY InvInit, InvStep, PTL DEF Spec

\* An error stop can always still be resolved (CommandPolicy._clear_reason): the
\* vehicle is never in ERROR without a reason, whichever events race.
THEOREM ErrorResolvable == Spec => []ErrorHasReason
<1>1. Inv => ErrorHasReason
  BY DEF Inv, ServiceInv
<1>2. QED
  BY <1>1, Invariant, PTL

\* The motor is driven only for a mission, never at an arrival, and on that mission's
\* own route unless it was stranded, although the control loop acts on snapshots that
\* may be out of date (DrivingWorker.tick, SafetySupervisor.apply).
THEOREM MotorServesMission == Spec => []MovesOnlyForItsMission
<1>1. Inv => MovesOnlyForItsMission
  BY DEF Inv, DriveInv
<1>2. QED
  BY <1>1, Invariant, PTL

\* The complete report is outstanding exactly at an arrival, and is that arrival's
\* (ReportManager.mark_complete and clear_complete).
THEOREM CompleteMatchesArrival == Spec => []CompleteIffArrived
<1>1. Inv => CompleteIffArrived
  BY DEF Inv
<1>2. QED
  BY <1>1, Invariant, PTL

\* A vehicle in service has the mission it is on; out of service it has none, but for
\* the one that a recovery without a kept state strands (CommandPolicy._on_move, _on_stop
\* and _clear_reason, StateStore.recover_previous_state).
THEOREM MissionMatchesService == Spec => []MissionIffInService
<1>1. Inv => MissionIffInService
  BY DEF Inv, ServiceInv
<1>2. QED
  BY <1>1, Invariant, PTL

\* What the telemetry tells the server agrees with what the policy accepts
\* (core/enums.py to_service_state, CommandPolicy._on_move).
THEOREM TelemetryIsTrue == Spec => []TelemetryMatchesPolicy
<1>1. Inv => TelemetryMatchesPolicy
  <2> SUFFICES ASSUME Inv PROVE TelemetryMatchesPolicy
    OBVIOUS
  <2>1. /\ drivingState \in DrivingStates /\ serviceKind \in ServiceKinds \cup {"None"}
        /\ mission \in Missions \cup {NoMission} /\ MissionIffInService
    BY DEF Inv, ServiceInv, TypeInv, TypeNames
  <2>2. mission # NoMission => serviceKind # "None"
    BY <2>1 DEF MissionIffInService, Missions, ServiceKinds
  <2>3. CASE drivingState = "ERROR"
    <3>1. ServiceState = "error stop"
      BY <2>3 DEF ServiceState, DRIVING_STATES
    <3>2. QED
      BY <2>3, <3>1 DEF TelemetryMatchesPolicy
  <2>4. CASE drivingState \in DRIVING_STATES \cup {"ARRIVED"}
    <3>1. mission # NoMission /\ drivingState \notin {"ERROR", "WAITING"}
      BY <2>1, <2>4 DEF MissionIffInService, EffectiveState, DRIVING_STATES
    <3>2. ServiceState = "moving"
      BY <2>2, <2>4, <3>1 DEF ServiceState
    <3>3. QED
      BY <3>1, <3>2 DEF TelemetryMatchesPolicy
  <2>5. CASE drivingState = "WAITING"
    <3>1. mission = NoMission \/ stranded
      BY <2>1, <2>5 DEF MissionIffInService, EffectiveState, DRIVING_STATES
    <3>2. ServiceState \in {"waiting", "waiting to board"}
      BY <2>5 DEF ServiceState, DRIVING_STATES
    <3>3. QED
      BY <2>5, <3>1, <3>2 DEF TelemetryMatchesPolicy
  <2>6. QED
    BY <2>1, <2>3, <2>4, <2>5 DEF DrivingStates, NormalStates
<1>2. QED
  BY <1>1, Invariant, PTL
-----------------------------------------------------------------------------
(***************************************************************************)
(* VehicleControl implements TaxiService, and leaves ERROR only as         *)
(* RecoveryReturns says.  Under the invariant only six kinds of steps      *)
(* change the state of the service: an accepted move, an accepted arrival, *)
(* an accepted stop, an error stop that begins or ends, a recovery that    *)
(* strands the mission, and a tick that sets its state.                    *)
(***************************************************************************)
\* The variables the refinement mapping reads.
taxiFrame == <<drivingState, prevState, serviceKind, mission>>

Moved(d) ==
    /\ drivingState = "WAITING" /\ drivingState' = "PLANNING"
    /\ mission' = [dest |-> d, kind |-> serviceKind']
    /\ serviceKind' = IF serviceKind = "PICKUP" THEN "CARRY" ELSE "PICKUP"

Reached ==
    /\ drivingState \in DRIVING_STATES /\ drivingState' = "ARRIVED"
    /\ UNCHANGED <<mission, serviceKind>>

Confirmed ==
    /\ drivingState = "ARRIVED" /\ drivingState' = "WAITING"
    /\ mission' = NoMission
    /\ serviceKind' = IF serviceKind = "PICKUP" THEN "PICKUP" ELSE "None"

\* An error stop begins, ends, or gets another reason.
Halted ==
    /\ UNCHANGED <<EffectiveState, mission, serviceKind>>
    /\ drivingState' # drivingState => drivingState = "ERROR" \/ drivingState' = "ERROR"
    /\ drivingState = "ERROR" /\ drivingState' # "ERROR" =>
           reasons' = {} /\ drivingState' = prevState

\* A recovery finds no kept state.
Stranded ==
    /\ drivingState \in DRIVING_STATES /\ drivingState' = "WAITING"
    /\ mission # NoMission
    /\ UNCHANGED <<mission, serviceKind>>

\* A tick sets the state it decided on: in a driving state, in an error stop, or
\* where the mission was stranded.
TickSet ==
    /\ pc = "write" /\ drivingState' = pending /\ pending \in DRIVING_STATES
    /\ EffectiveState # "ARRIVED" /\ mission # NoMission
    /\ UNCHANGED <<mission, serviceKind>>

LEMMA ServiceSteps ==
    ASSUME Inv, [Next]_vars
    PROVE  \/ UNCHANGED taxiFrame \/ \E d \in Destinations : Moved(d)
           \/ Reached \/ Confirmed \/ Halted \/ Stranded \/ TickSet
<1> DEFINE Goal == \/ UNCHANGED taxiFrame \/ \E d \in Destinations : Moved(d)
                   \/ Reached \/ Confirmed \/ Halted \/ Stranded \/ TickSet
<1>1. /\ drivingState \in DrivingStates /\ prevState \in NormalStates \cup {"None"}
      /\ PrevIffError /\ ErrorHasReason /\ MissionIffInService
  BY DEF Inv, TypeInv, TypeNames, ServiceInv
<1>2. CASE TickWriteState
  <2>1. TickSet
    BY <1>2, SetDrivingStateFacts
       DEF TickWriteState, TickSet, Inv, DriveInv, TickOnRoute, TypeInv, TypeNames,
           DRIVING_STATES
  <2>2. QED
    BY <2>1
<1>3. ASSUME NEW stops \in BOOLEAN, TickArrived(stops)
      PROVE  Goal
  <2>1. CASE drivingState \in DRIVING_STATES
    BY <1>3, <2>1, SetDrivingStateFacts DEF TickArrived, NotifyArrived, Reached
  <2>2. CASE drivingState \notin DRIVING_STATES
    BY <1>3, <2>2 DEF TickArrived, NotifyArrived, policyVars, taxiFrame
  <2>3. QED
    BY <2>1, <2>2
<1>4. CASE ReceiveCommand
  <2>1. Head(downlink) \in Commands
    BY <1>4 DEF ReceiveCommand, Inv, TypeInv, TypeCounts
  <2>2. ASSUME NEW d \in Destinations, OnMove(d)
        PROVE  Goal
    <3>1. CASE drivingState = "WAITING"
      BY <2>2, <3>1, SetDrivingStateFacts DEF OnMove, SetMission, Moved
    <3>2. CASE drivingState # "WAITING"
      BY <2>2, <3>2 DEF OnMove, policyVars, taxiFrame
    <3>3. QED
      BY <3>1, <3>2
  <2>3. CASE OnStop
    <3>1. CASE drivingState = "ARRIVED"
      BY <2>3, <3>1, SetDrivingStateFacts DEF OnStop, ClearMission, Confirmed
    <3>2. CASE drivingState # "ARRIVED"
      BY <2>3, <3>2 DEF OnStop, policyVars, taxiFrame
    <3>3. QED
      BY <3>1, <3>2
  <2>4. CASE OnResume
    <3>1. CASE drivingState = "ERROR" /\ "control_lost" \in reasons
      BY <2>4, <3>1, ClearReasonFacts DEF OnResume, taxiFrame
    <3>2. CASE ~(drivingState = "ERROR" /\ "control_lost" \in reasons)
      BY <2>4, <3>2 DEF OnResume, policyVars, taxiFrame
    <3>3. QED
      BY <3>1, <3>2
  <2>5. QED
    BY <1>4, <2>1, <2>2, <2>3, <2>4 DEF ReceiveCommand, Commands
<1>5. ASSUME NEW reason, NEW stops \in BOOLEAN, EnterError(reason, stops)
      PROVE  Halted
  BY <1>1, <1>5, EnterErrorFacts DEF Halted
<1>6. ASSUME NEW stops \in BOOLEAN, DetectDisconnect(stops)
      PROVE  Goal
  BY <1>5, <1>6 DEF DetectDisconnect, OnControlDisconnected
<1>7. ASSUME NEW stops \in BOOLEAN, LoseGps(stops)
      PROVE  Goal
  BY <1>5, <1>7 DEF LoseGps, OnGpsLost
<1>8. CASE AcceptPose
  <2>1. CASE ClearReason("gps_lost") /\ UNCHANGED <<mission, serviceKind>>
    BY <2>1, ClearReasonFacts DEF taxiFrame
  <2>2. CASE ~(ClearReason("gps_lost") /\ UNCHANGED <<mission, serviceKind>>)
    BY <1>8, <2>2 DEF AcceptPose, OnGpsRecovered, policyVars, taxiFrame
  <2>3. QED
    BY <2>1, <2>2
<1>9. CASE \/ TickPlanRoute \/ TickPlanDeferred \/ TickIdle
           \/ \E throttle, near \in BOOLEAN : TickDrive(throttle, near)
           \/ TickApplyCheck \/ TickApplyWrite \/ TickNotArrived \/ WorkerDies
  BY <1>9 DEF TickPlanRoute, TickPlanDeferred, TickIdle, TickDrive, TickApplyCheck,
     TickApplyWrite, TickNotArrived, WorkerDies, taxiFrame, storeVars
<1>10. CASE \/ Connect \/ MarkerNotFound \/ ReadResends \/ SendResends
            \/ WatchdogLatch \/ LinkBreaks
            \/ \E r \in uplink : DeliverReport(r)
            \/ \E d \in Destinations : ServerMove(d)
            \/ \E k \in {"stop", "resume"} : ServerAnswer(k)
            \/ \E k \in {"stop", "resume"} : ServerUnasked(k)
            \/ UNCHANGED vars
  BY <1>10 DEF Connect, OnControlConnected, MarkerNotFound, ReadResends, SendResends,
     WatchdogLatch, LinkBreaks, DeliverReport, ServerMove, ServerAnswer, ServerUnasked,
     SendCommand, vars, taxiFrame, storeVars, policyVars, reasonVars
<1>11. CASE ClearChecks
  BY <1>11 DEF ClearChecks, CheckStillError, taxiFrame
<1>12. CASE ClearRecovers
  <2>1. UNCHANGED <<mission, serviceKind, reasons>> /\ RecoverAfterCheck
    BY <1>12 DEF ClearRecovers
  <2>2. TypeInv /\ ServiceInv
    BY DEF Inv
  <2>3. Halted \/ Stranded
    BY <2>1, <2>2, RecoverFacts DEF Halted, Stranded, DRIVING_STATES
  <2>4. QED
    BY <2>3
<1>13. QED
  BY <1>2, <1>3, <1>4, <1>6, <1>7, <1>8, <1>9, <1>10, <1>11, <1>12, NextCases

-----------------------------------------------------------------------------

\* ERROR is left only when every reason is resolved, and then for the state it was
\* entered from, except by a tick that sets the state it had decided on before
\* (CommandPolicy._clear_reason, StateStore.recover_previous_state).
THEOREM RecoveryIsFaithful == Spec => RecoveryReturns
<1> DEFINE A == drivingState = "ERROR" /\ drivingState' # "ERROR" =>
                    \/ reasons' = {} /\ drivingState' = prevState
                    \/ pc = "write" /\ drivingState' = pending
<1>1. Inv /\ [Next]_vars => A
  <2> SUFFICES ASSUME Inv, [Next]_vars PROVE A
    OBVIOUS
  <2>1. CASE UNCHANGED taxiFrame
    BY <2>1 DEF taxiFrame
  <2>2. CASE \/ \E d \in Destinations : Moved(d)
             \/ Reached \/ Confirmed \/ Stranded
    BY <2>2 DEF Moved, Reached, Confirmed, Stranded, DRIVING_STATES
  <2>3. CASE Halted \/ TickSet
    BY <2>3 DEF Halted, TickSet
  <2>4. QED
    BY <2>1, <2>2, <2>3, ServiceSteps
<1>2. QED
  BY <1>1, Invariant, PTL DEF Spec, RecoveryReturns

\* What the vehicle reports is true when it is sent, also by the report tick, whose
\* copies are older than the state it tests (ReportManager.tick): an error while a
\* reason is unresolved or its recovery under way, a complete at the arrival of a
\* mission that waits for its stop.
THEOREM ReportsTellTheState == Spec => ReportsAreTrue
<1> DEFINE A == \A r \in uplink' \ uplink :
                    /\ r.report = "error" => reasons' # {} \/ clearing # "free"
                    /\ r.report = "complete" => drivingState' = "ARRIVED" /\ mission' # NoMission
<1>1. Inv /\ [Next]_vars => A
  <2> SUFFICES ASSUME Inv, [Next]_vars PROVE A
    OBVIOUS
  <2> DEFINE Adds(kind) == \A r \in uplink' \ uplink : r.report = kind
  <2>1. Adds("error") /\ (reasons' # {} \/ clearing # "free") => A
    OBVIOUS
  <2>2. Adds("complete") /\ drivingState' = "ARRIVED" => A
    <3>1. drivingState' = "ARRIVED" => mission' # NoMission
      BY InvStep DEF Inv, ServiceInv, MissionIffInService, EffectiveState
    <3>2. QED
      BY <3>1
  <2>3. uplink' \subseteq uplink => A
    OBVIOUS
  <2> HIDE DEF A
  <2>4. CASE SendResends
    <3>1. UNCHANGED <<drivingState, reasons>>
      BY <2>4 DEF SendResends, storeVars, reasonVars
    <3>2. CASE drivingState = "ERROR"
      <4>1. Adds("error")
        BY <2>4, <3>2 DEF SendResends, ReportTickSend, SendAll, Report
      <4>2. reasons # {} \/ clearing # "free"
        BY <3>2 DEF Inv, ServiceInv, ErrorHasReason
      <4>3. QED
        BY <2>1, <3>1, <4>1, <4>2
    <3>3. CASE drivingState = "ARRIVED"
      <4>1. Adds("complete")
        BY <2>4, <3>3 DEF SendResends, ReportTickSend, SendAll, Report
      <4>2. QED
        BY <2>2, <3>1, <3>3, <4>1
    <3>4. CASE drivingState \notin {"ERROR", "ARRIVED"}
      BY <2>3, <2>4, <3>4 DEF SendResends, ReportTickSend, SendAll
    <3>5. QED
      BY <3>2, <3>3, <3>4
  <2>5. ASSUME NEW stops \in BOOLEAN, TickArrived(stops)
        PROVE  A
    <3>1. CASE drivingState \in DRIVING_STATES
      <4>1. drivingState' = "ARRIVED"
        BY <2>5, <3>1, SetDrivingStateFacts DEF TickArrived, NotifyArrived
      <4>2. Adds("complete")
        BY <2>5, <3>1 DEF TickArrived, NotifyArrived, MarkComplete, SendAll, Report
      <4>3. QED
        BY <2>2, <4>1, <4>2
    <3>2. CASE drivingState \notin DRIVING_STATES
      BY <2>3, <2>5, <3>2 DEF TickArrived, NotifyArrived, policyVars
    <3>3. QED
      BY <3>1, <3>2
  <2>6. CASE Connect
    <3>1. UNCHANGED reasons /\ Adds("error")
      BY <2>6 DEF Connect, OnControlConnected, reasonVars, Report
    <3>2. CASE reasons = {}
      BY <2>3, <2>6, <3>2 DEF Connect, OnControlConnected
    <3>3. QED
      BY <2>1, <3>1, <3>2
  <2>7. ASSUME NEW stops \in BOOLEAN, LoseGps(stops)
        PROVE  A
    <3>1. reasons' # {} /\ Adds("error")
      BY <2>7 DEF LoseGps, OnGpsLost, EnterError, SendErrorOnce, SendAll, Report
    <3>2. QED
      BY <2>1, <3>1
  <2>8. CASE \/ ReceiveCommand \/ AcceptPose
             \/ \E stops \in BOOLEAN : DetectDisconnect(stops)
    <3>1. UNCHANGED uplink
      BY <2>8 DEF ReceiveCommand, OnMove, OnStop, OnResume, SendAccept, AcceptPose,
         OnGpsRecovered, SendRecovered, DetectDisconnect, OnControlDisconnected, policyVars
    <3>2. QED
      BY <2>3, <3>1
  <2>9. CASE \/ TickPlanRoute \/ TickPlanDeferred \/ TickIdle
             \/ \E throttle, near \in BOOLEAN : TickDrive(throttle, near)
             \/ TickWriteState \/ TickApplyCheck \/ TickApplyWrite \/ TickNotArrived
             \/ WorkerDies \/ ClearChecks \/ ClearRecovers
    <3>1. UNCHANGED uplink
      BY <2>9 DEF TickPlanRoute, TickPlanDeferred, TickIdle, TickDrive, TickWriteState,
         TickApplyCheck, TickApplyWrite, TickNotArrived, WorkerDies, ClearChecks,
         ClearRecovers
    <3>2. QED
      BY <2>3, <3>1
  <2>10. CASE \/ MarkerNotFound \/ ReadResends \/ WatchdogLatch \/ LinkBreaks
              \/ \E r \in uplink : DeliverReport(r)
              \/ \E d \in Destinations : ServerMove(d)
              \/ \E k \in {"stop", "resume"} : ServerAnswer(k)
              \/ \E k \in {"stop", "resume"} : ServerUnasked(k)
              \/ UNCHANGED vars
    <3>1. uplink' \subseteq uplink
      BY <2>10 DEF MarkerNotFound, ReadResends, WatchdogLatch, LinkBreaks, DeliverReport,
         ServerMove, ServerAnswer, ServerUnasked, SendCommand, vars, policyVars
    <3>2. QED
      BY <2>3, <3>1
  <2>11. QED
    BY <2>4, <2>5, <2>6, <2>7, <2>8, <2>9, <2>10, NextCases
<1>2. QED
  BY <1>1, Invariant, PTL DEF Spec, ReportsAreTrue

-----------------------------------------------------------------------------
(* The refinement, step by step.                                           *)

LEMMA TaxiInitially == Init => Taxi!TaxiInit
  BY DEF Init, StoreInit, Taxi!TaxiInit, EffectiveState

LEMMA TaxiStep == Inv /\ [Next]_vars => [Taxi!TaxiNext]_(Taxi!serviceVars)
<1> SUFFICES ASSUME Inv, [Next]_vars
             PROVE  [Taxi!TaxiNext]_(Taxi!serviceVars)
  OBVIOUS
<1>1. /\ PrevIffError /\ KindWithoutMission /\ MissionIffInService
      /\ drivingState \in DrivingStates /\ prevState \in NormalStates \cup {"None"}
      /\ serviceKind \in ServiceKinds \cup {"None"}
      /\ mission \in Missions \cup {NoMission}
      /\ NoMission \notin Missions
  BY NoMissionAssumption DEF Inv, ServiceInv, TypeInv, TypeNames
<1>2. CASE UNCHANGED taxiFrame
  BY <1>2 DEF taxiFrame, Taxi!serviceVars, EffectiveState
<1>3. ASSUME NEW d \in Destinations, Moved(d)
      PROVE  Taxi!Accept(d)
  <2>1. mission' # NoMission /\ mission'.dest = d /\ mission'.kind = serviceKind'
    BY <1>1, <1>3 DEF Moved, Missions, ServiceKinds
  <2>2. EffectiveState = "WAITING" /\ EffectiveState' = "PLANNING"
        /\ drivingState # "ERROR" /\ drivingState' # "ERROR"
    BY <1>3 DEF Moved, EffectiveState
  <2>3. serviceKind' = IF serviceKind = "PICKUP" THEN "CARRY" ELSE "PICKUP"
    BY <1>3 DEF Moved
  <2>4. CASE mission = NoMission
    BY <1>1, <2>1, <2>2, <2>3, <2>4 DEF Taxi!Accept, KindWithoutMission
  <2>5. CASE mission # NoMission
    <3>1. mission.kind = serviceKind
      BY <1>1, <2>5 DEF MissionIffInService
    <3>2. QED
      BY <1>1, <2>1, <2>2, <2>3, <2>5, <3>1 DEF Taxi!Accept
  <2>6. QED
    BY <2>4, <2>5
<1>4. CASE Reached
  BY <1>1, <1>4 DEF Reached, Taxi!TaxiNext, Taxi!Arrive, EffectiveState, DRIVING_STATES
<1>5. CASE Confirmed
  <2>1. mission # NoMission /\ mission.kind = serviceKind
    BY <1>1, <1>5 DEF Confirmed, MissionIffInService, EffectiveState
  <2>2. Taxi!Confirm
    BY <1>1, <1>5, <2>1 DEF Confirmed, Taxi!Confirm, EffectiveState
  <2>3. QED
    BY <2>2 DEF Taxi!TaxiNext
<1>6. CASE Halted
  <2>1. CASE drivingState' = drivingState
    BY <1>6, <2>1 DEF Halted, Taxi!serviceVars
  <2>2. CASE drivingState' # drivingState
    BY <1>6, <2>2 DEF Halted, Taxi!TaxiNext, Taxi!HaltOrRelease
  <2>3. QED
    BY <2>1, <2>2
<1>7. CASE Stranded
  BY <1>1, <1>7 DEF Stranded, Taxi!TaxiNext, Taxi!Strand, EffectiveState, DRIVING_STATES
<1>8. CASE TickSet
  <2>1. EffectiveState' \in DRIVING_STATES /\ drivingState' # "ERROR"
    BY <1>8 DEF TickSet, EffectiveState, DRIVING_STATES
  <2>2. UNCHANGED <<mission, serviceKind>> /\ mission # NoMission
    BY <1>8 DEF TickSet
  <2>3. CASE EffectiveState = "WAITING"
    BY <2>1, <2>2, <2>3 DEF Taxi!TaxiNext, Taxi!TakeUpAgain, DRIVING_STATES
  <2>4. CASE EffectiveState # "WAITING"
    <3>1. EffectiveState \notin {"WAITING", "ARRIVED"}
      BY <1>8, <2>4 DEF TickSet
    <3>2. CASE drivingState = "ERROR"
      BY <2>1, <2>2, <3>1, <3>2 DEF Taxi!TaxiNext, Taxi!HaltOrRelease, DRIVING_STATES
    <3>3. CASE drivingState # "ERROR"
      BY <2>1, <2>2, <3>1, <3>3 DEF Taxi!serviceVars, DRIVING_STATES
    <3>4. QED
      BY <3>2, <3>3
  <2>5. QED
    BY <2>3, <2>4
<1>9. QED
  BY <1>2, <1>3, <1>4, <1>5, <1>6, <1>7, <1>8, ServiceSteps DEF Taxi!TaxiNext

\* The vehicle implements TaxiService: whatever its threads, ticks and faults do,
\* the server sees one trip at a time, each ended by its own confirmed arrival unless
\* it is stranded.
THEOREM Refinement == Spec => ImplementsTaxiService
  BY TaxiInitially, TaxiStep, Invariant, PTL
     DEF Spec, ImplementsTaxiService, Taxi!TaxiSpec
=============================================================================
