------------------------- MODULE RecoveryRaceProofs -------------------------
(***************************************************************************)
(* What survives of the service's invariants when every call of a handler  *)
(* into the store is a step of its own.  The lock invariant says what the  *)
(* holder of the policy's lock may rely on although the control loop does  *)
(* not take it; the service invariant says that a state the loop sets late *)
(* is still one of a service that goes on.                                 *)
(***************************************************************************)
EXTENDS RecoveryRace, TLAPS

\* A move that is being handled has a target.
TypeInv == TypeOK /\ (handler = "mission" => target \in Missions)

\* ERROR is entered under the lock only, so a handler that found another state
\* still has another one; and only a clearing handler holds ERROR without a reason.
LockInv ==
    /\ handler \in {"mission", "plan", "clear", "wait", "error"} => drivingState # "ERROR"
    /\ handler = "error" => reasons # {}
    /\ drivingState = "ERROR" /\ handler \notin {"check", "recover"} => reasons # {}

\* No state is kept but in ERROR.  The mission is there as long as the service, and as
\* long as a tick is about to set a state; at an arrival no such tick is left.
ServiceInv ==
    /\ drivingState # "ERROR" => prevState = "None"
    /\ EffectiveState \in DRIVING_STATES \cup {"ARRIVED"} /\ handler # "wait"
           => mission # NoMission
    /\ pending # "None" => mission # NoMission
    /\ EffectiveState = "ARRIVED" => pending = "None" /\ ~arriving
    /\ handler \in {"clear", "wait"} => drivingState = "ARRIVED"
    /\ handler = "plan" => mission # NoMission

-----------------------------------------------------------------------------

LEMMA TypeStep == TypeInv /\ [Next]_vars => TypeInv'
<1> SUFFICES ASSUME TypeInv, [Next]_vars PROVE TypeInv'
    OBVIOUS
<1> USE DEF TypeInv, TypeOK, StoreTypeOK
<1>1. CASE UNCHANGED vars
    BY <1>1 DEF vars, storeVars, loopVars
<1>2. ASSUME NEW dest \in Destinations, BeginMove(dest) PROVE TypeInv'
    BY <1>2 DEF BeginMove, Holds, Missions, ServiceKinds, storeVars, loopVars
<1>3. CASE MoveSetsMission
    BY <1>3 DEF MoveSetsMission, Holds, SetMission, Missions, loopVars
<1>4. CASE MoveSetsPlanning \/ StopSetsWaiting
    BY <1>4 DEF MoveSetsPlanning, StopSetsWaiting, Holds, Releases, SetDrivingState, loopVars,
                DrivingStates, NormalStates, DRIVING_STATES
<1>5. CASE BeginStop
    BY <1>5 DEF BeginStop, Holds, storeVars, loopVars
<1>16. CASE ClearChecks
  <2>1. handler' \in {"recover", "free"}
    BY <1>16 DEF ClearChecks
  <2> QED BY <1>16, <2>1 DEF ClearChecks, Holds, storeVars, loopVars
<1>6. CASE StopClearsMission
    BY <1>6 DEF StopClearsMission, Holds, ClearMission, ServiceKinds, loopVars
<1>7. ASSUME NEW reason \in Reasons, BeginError(reason) \/ BeginClear(reason) PROVE TypeInv'
  <2>1. reasons' \subseteq Reasons
    BY <1>7 DEF BeginError, BeginClear
  <2>2. handler' \in {"free", "error", "check"}
    BY <1>7 DEF BeginError, BeginClear
  <2>3. UNCHANGED <<storeVars, target, loopVars>>
    BY <1>7 DEF BeginError, BeginClear, Holds
  <2> QED BY <2>1, <2>2, <2>3 DEF storeVars, loopVars
<1>8. CASE ErrorSetsState
    BY <1>8 DEF ErrorSetsState, Holds, Releases, SetDrivingState, loopVars, DrivingStates
<1>9. CASE ClearRecovers
    BY <1>9 DEF ClearRecovers, Holds, Releases, RecoverPreviousState, loopVars,
                DrivingStates, NormalStates
<1>10. CASE TickPlans
    BY <1>10 DEF TickPlans, Decide, storeVars
<1>11. ASSUME NEW near \in BOOLEAN, NEW arrival \in BOOLEAN, TickDrives(near, arrival)
       PROVE TypeInv'
    BY <1>11 DEF TickDrives, Decide, storeVars
<1>12. CASE TickDropsRoute
    BY <1>12 DEF TickDropsRoute, Decide, storeVars
<1>13. CASE TickSetsState
    BY <1>13 DEF TickSetsState, SetDrivingState, DrivingStates, NormalStates, DRIVING_STATES
<1>14. CASE TickArrives
    BY <1>14 DEF TickArrives, SetDrivingState, DrivingStates, NormalStates
<1>15. CASE PoseChanges
  <2>1. poseStale' \in BOOLEAN
    BY <1>15 DEF PoseChanges, UpdatePose, MarkPoseStale
  <2>2. UNCHANGED <<drivingState, prevState, serviceKind, mission, reasons, handler, target>>
    BY <1>15 DEF PoseChanges
  <2>3. UNCHANGED <<pending, arriving, hasRoute>>
    BY <1>15 DEF PoseChanges, loopVars
  <2> QED BY <2>1, <2>2, <2>3
<1> QED
    BY <1>1, <1>2, <1>3, <1>4, <1>5, <1>6, <1>7, <1>8, <1>9, <1>10, <1>11, <1>12, <1>13,
       <1>14, <1>15, <1>16 DEF Next, Handlers, ControlLoop

LEMMA LockStep == TypeInv /\ LockInv /\ [Next]_vars => LockInv'
<1> SUFFICES ASSUME TypeInv, LockInv, [Next]_vars PROVE LockInv'
    OBVIOUS
<1> USE DEF LockInv
<1>1. CASE UNCHANGED vars
    BY <1>1 DEF vars, storeVars
<1>2. ASSUME NEW dest \in Destinations, BeginMove(dest) PROVE LockInv'
    BY <1>2 DEF BeginMove, Holds, storeVars
<1>3. CASE MoveSetsMission \/ StopClearsMission
    BY <1>3 DEF MoveSetsMission, StopClearsMission, Holds
<1>4. CASE MoveSetsPlanning \/ StopSetsWaiting
    BY <1>4 DEF MoveSetsPlanning, StopSetsWaiting, Holds, Releases, SetDrivingState
<1>5. CASE BeginStop \/ ClearChecks
    BY <1>5 DEF BeginStop, ClearChecks, Holds, storeVars
<1>6. ASSUME NEW reason \in Reasons, BeginError(reason) \/ BeginClear(reason) PROVE LockInv'
    BY <1>6 DEF BeginError, BeginClear, Holds, storeVars
<1>7. CASE ErrorSetsState
    BY <1>7 DEF ErrorSetsState, Holds, Releases
<1>8. CASE ClearRecovers
  <2>1. drivingState' # "ERROR" /\ handler' = "free"
    BY <1>8 DEF ClearRecovers, Holds, Releases, RecoverPreviousState, TypeInv, TypeOK,
                StoreTypeOK, NormalStates, DRIVING_STATES
  <2> QED BY <2>1
<1>9. CASE TickPlans
    BY <1>9 DEF TickPlans, Decide, storeVars
<1>10. ASSUME NEW near \in BOOLEAN, NEW arrival \in BOOLEAN, TickDrives(near, arrival)
       PROVE LockInv'
    BY <1>10 DEF TickDrives, Decide, storeVars
<1>11. CASE TickDropsRoute
    BY <1>11 DEF TickDropsRoute, Decide, storeVars
<1>12. CASE TickSetsState
  <2>1. drivingState' # "ERROR" /\ UNCHANGED <<handler, reasons>>
    BY <1>12 DEF TickSetsState, SetDrivingState, TypeInv, TypeOK
  <2> QED BY <2>1
<1>13. CASE TickArrives
    BY <1>13 DEF TickArrives, SetDrivingState
<1>14. CASE PoseChanges
    BY <1>14 DEF PoseChanges
<1> QED
    BY <1>1, <1>2, <1>3, <1>4, <1>5, <1>6, <1>7, <1>8, <1>9, <1>10, <1>11, <1>12, <1>13,
       <1>14 DEF Next, Handlers, ControlLoop

LEMMA ServiceStep == TypeInv /\ LockInv /\ ServiceInv /\ [Next]_vars => ServiceInv'
<1> SUFFICES ASSUME TypeInv, LockInv, ServiceInv, [Next]_vars PROVE ServiceInv'
    OBVIOUS
<1> USE DEF ServiceInv, EffectiveState, DRIVING_STATES
<1>1. CASE UNCHANGED vars
    BY <1>1 DEF vars, storeVars, loopVars
<1>2. ASSUME NEW dest \in Destinations, BeginMove(dest) PROVE ServiceInv'
    BY <1>2 DEF BeginMove, Holds, storeVars, loopVars
<1>3. CASE MoveSetsMission
  <2>1. mission' # NoMission
    BY <1>3, NoMissionAssumption DEF MoveSetsMission, Holds, SetMission, TypeInv, Missions
  <2> QED BY <1>3, <2>1 DEF MoveSetsMission, Holds, loopVars
<1>4. CASE MoveSetsPlanning \/ StopSetsWaiting
    BY <1>4 DEF MoveSetsPlanning, StopSetsWaiting, Holds, Releases, SetDrivingState, loopVars
<1>5. CASE BeginStop \/ ClearChecks
    BY <1>5 DEF BeginStop, ClearChecks, Holds, storeVars, loopVars
<1>6. CASE StopClearsMission
    BY <1>6 DEF StopClearsMission, Holds, ClearMission, loopVars
<1>7. ASSUME NEW reason \in Reasons, BeginError(reason) \/ BeginClear(reason)
      PROVE ServiceInv'
    BY <1>7 DEF BeginError, BeginClear, Holds, storeVars, loopVars
<1>8. CASE ErrorSetsState
    BY <1>8 DEF ErrorSetsState, Holds, Releases, SetDrivingState, LockInv, loopVars
<1>9. CASE ClearRecovers
  <2>1. EffectiveState' = drivingState' /\ prevState' = "None" /\ drivingState' # "ERROR"
    BY <1>9 DEF ClearRecovers, RecoverPreviousState, TypeInv, TypeOK, StoreTypeOK, NormalStates
  <2>2. drivingState' = EffectiveState \/ drivingState' = "WAITING"
    BY <1>9 DEF ClearRecovers, RecoverPreviousState
  <2>3. handler = "recover" /\ handler' = "free" /\ UNCHANGED <<mission, pending, arriving>>
    BY <1>9 DEF ClearRecovers, Holds, Releases, loopVars
  <2> HIDE DEF EffectiveState
  <2> QED BY <2>1, <2>2, <2>3
<1>10. CASE TickPlans
    BY <1>10 DEF TickPlans, Decide, storeVars
<1>11. ASSUME NEW near \in BOOLEAN, NEW arrival \in BOOLEAN, TickDrives(near, arrival)
       PROVE ServiceInv'
    BY <1>11 DEF TickDrives, Decide, storeVars
<1>12. CASE TickDropsRoute
    BY <1>12 DEF TickDropsRoute, Decide, storeVars
<1>13. CASE TickSetsState
    BY <1>13 DEF TickSetsState, SetDrivingState, TypeInv, TypeOK
<1>14. CASE TickArrives
    BY <1>14 DEF TickArrives, SetDrivingState
<1>15. CASE PoseChanges
    BY <1>15 DEF PoseChanges, loopVars
<1> QED
    BY <1>1, <1>2, <1>3, <1>4, <1>5, <1>6, <1>7, <1>8, <1>9, <1>10, <1>11, <1>12, <1>13,
       <1>14, <1>15 DEF Next, Handlers, ControlLoop

-----------------------------------------------------------------------------

\* The three parts together are inductive.
IInv == TypeInv /\ LockInv /\ ServiceInv

\* The strengthened invariant holds in every reachable state of the policy and the
\* control loop at the granularity of the store.
THEOREM Invariant == Spec => []IInv
<1>1. Init => IInv
    BY NoMissionAssumption
    DEF Init, StoreInit, IInv, TypeInv, TypeOK, StoreTypeOK, LockInv, ServiceInv,
        EffectiveState, Reasons, DrivingStates, NormalStates, DRIVING_STATES
<1>2. IInv /\ [Next]_vars => IInv'
    BY TypeStep, LockStep, ServiceStep DEF IInv
<1> QED BY <1>1, <1>2, PTL DEF Spec

\* Every variable keeps its type, also when a recovery finds no kept state.
THEOREM TypeCorrect == Spec => []TypeOK
<1>1. IInv => TypeOK
    BY DEF IInv, TypeInv
<1> QED BY <1>1, Invariant, PTL

\* At the granularity of the store too, no handler leaves the vehicle in an ERROR that
\* nothing would resolve (CommandPolicy._enter_error, _clear_reason).
THEOREM ErrorResolvable == Spec => []ErrorHasReason
<1>1. IInv => ErrorHasReason
    BY DEF IInv, LockInv, ErrorHasReason
<1> QED BY <1>1, Invariant, PTL

\* A state the control loop sets late never revives a service that has ended
\* (DrivingWorker._plan and _drive against CommandPolicy._on_stop).
THEOREM LateTickServes == Spec => []ServiceHasMission
<1>1. IInv => ServiceHasMission
    BY DEF IInv, ServiceInv, ServiceHasMission
<1> QED BY <1>1, Invariant, PTL
=============================================================================
