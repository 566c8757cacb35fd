----------------------------- MODULE TripProofs -----------------------------
(***************************************************************************)
(* An arrival is declared only of a vehicle that stood at its stop, for    *)
(* all places, speeds, messages and settling times.                        *)
(*                                                                         *)
(* The checker's clock and latch and the vehicle's history are kept in     *)
(* step by the control loop alone.  The other threads can only suspend a   *)
(* drive (an error stop), and a drive that is resumed is the one that was  *)
(* suspended, with its mission, route and stop; or they strand it, which   *)
(* takes a state that the loop sets in the middle of a recovery.  Between  *)
(* the latch and the word to the policy they cannot end the trip: a stop   *)
(* is accepted only at an arrival, and only the loop declares one.         *)
(***************************************************************************)
EXTENDS Trip, TLAPS

\* What the policy writes, and the rest.
PolicyTypeOK ==
    /\ drivingState \in DrivingStates /\ prevState \in NormalStates \cup {"None"}
    /\ serviceKind \in ServiceKinds \cup {"None"} /\ mission \in Missions \cup {NoMission}
    /\ reasons \subseteq {"control_lost", "gps_lost"}
    /\ clearing \in {"free", "check", "recover"}
    /\ stood \in {"no", "here", "interrupted"} /\ stranded \in BOOLEAN
    /\ openFor \in 0 .. Settle

LoopTypeOK ==
    /\ poseStale \in BOOLEAN /\ place \in Places \cup {NoPlace}
    /\ hasRoute \in BOOLEAN /\ running \in BOOLEAN /\ hasStop \in BOOLEAN /\ arrived \in BOOLEAN
    /\ tick \in {"idle", "plan", "approach", "tell"}
    /\ heldFor \in {NotHeld} \cup 0 .. Settle

EstimatorInv ==
    /\ samples \in Seq(Speeds) /\ fixes \in 0 .. Window
    /\ SpeedSinceLoss

Following == {"FOLLOWING_ROUTE", "APPROACHING_DESTINATION"}

\* A drive is under way, or the loop is still at a tick of one.
Driven == EffectiveState \in Following \/ tick # "idle"

\* The state of before is kept exactly while the vehicle is stopped for an error.
StateInv == prevState = "None" <=> drivingState # "ERROR"

\* A position that is not stale is one.
PoseInv == ~poseStale => place # NoPlace

\* A drive, also one that is suspended, has a mission, and from the planning on a position and,
\* as long as the loop runs, a route and a stop.
DriveInv ==
    /\ EffectiveState \in DRIVING_STATES \cup {"ARRIVED"} => mission # NoMission
    /\ EffectiveState \in Following => place # NoPlace
    /\ Driven /\ running => hasRoute /\ hasStop

\* What a tick has still to do is for a mission that is driven, or was until it was stranded.
TickInv ==
    tick # "idle" =>
        /\ mission # NoMission /\ place # NoPlace /\ running
        /\ EffectiveState # "ARRIVED"
        /\ EffectiveState \in DRIVING_STATES \/ stranded

\* The checker has held its gate open for no longer than the vehicle was found at its stop.
HeldInv == Driven /\ heldFor # NotHeld /\ ~arrived => heldFor <= openFor

\* The checker's latch is that of this mission; and one that was not acted upon at once was set
\* before an error stop.
StoodInv ==
    /\ tick = "tell" => arrived
    /\ Driven /\ arrived /\ ~stranded =>
          \/ stood = "interrupted"
          \/ stood = "here" /\ tick \in {"approach", "tell"} /\ drivingState \in Following
    /\ drivingState = "ERROR" => stood # "here"

\* In the middle of a recovery only the loop may have set a state, and not that of an arrival,
\* which takes the lock.
RecoverInv == clearing = "recover" => drivingState \in Following \cup {"ERROR"}

Inv ==
    /\ PolicyTypeOK /\ LoopTypeOK /\ StateInv /\ PoseInv /\ DriveInv /\ TickInv /\ HeldInv /\ StoodInv
    /\ RecoverInv

\* A client has a connection exactly while its thread receives from it, or is about to; and
\* once a requested shutdown has been run, it keeps none but one that was being opened then.
LinkInv ==
    /\ phase \in [Links -> {"connect", "subscribe", "receive", "wait", "ended"}]
    /\ line \in [Links -> {"none", "alive", "dead", "closing"}]
    /\ stopping \in [Links -> BOOLEAN] /\ request \in [Links -> {"none", "asked", "done"}]
    /\ late \in [Links -> BOOLEAN]
    /\ \A l \in Links :
          /\ Open(l) <=> line[l] # "none"
          /\ request[l] # "none" => stopping[l]
          /\ request[l] = "done" => late[l] \/ (phase[l] # "connect" /\ line[l] \in {"none", "closing"})

-----------------------------------------------------------------------------
(* The policy.                                                             *)

NoArrival == drivingState \notin {"ARRIVED", "ERROR"} => drivingState' # "ARRIVED"

\* What a step of the policy may do to a trip: nothing, or suspend or resume it; begin one;
\* end one that has arrived; or strand one.
KeepsTrip ==
    /\ EffectiveState' = EffectiveState /\ mission' = mission /\ stranded' = stranded
    /\ stood' = stood \/ (stood = "here" /\ stood' = "interrupted")
    /\ drivingState' = drivingState \/ stood' # "here"
    /\ openFor <= openFor'
BeginsTrip ==
    /\ EffectiveState = "WAITING" /\ EffectiveState' = "PLANNING"
    /\ mission' # NoMission /\ stranded' = stranded
    /\ openFor <= openFor'
EndsTrip == EffectiveState = "ARRIVED" /\ EffectiveState' = "WAITING"
StrandsTrip ==
    /\ EffectiveState # "ARRIVED" /\ EffectiveState' = "WAITING"
    /\ mission' = mission
    /\ stranded' \/ mission = NoMission
    /\ openFor <= openFor'

PolicyKeeps ==
    /\ PolicyTypeOK' /\ StateInv' /\ RecoverInv' /\ NoArrival
    /\ drivingState' = "ERROR" => stood' # "here"
    /\ KeepsTrip \/ BeginsTrip \/ EndsTrip \/ StrandsTrip

LEMMA EnterErrorKeeps ==
    ASSUME Inv, NEW reason \in {"control_lost", "gps_lost"}, EnterError(reason)
    PROVE  PolicyKeeps
<1>1. openFor' \in 0 .. Settle /\ openFor <= openFor'
  BY SettleAssumption DEF Inv, PolicyTypeOK, EnterError
<1>2. drivingState' = "ERROR" /\ UNCHANGED <<serviceKind, mission, clearing, stranded>> /\ clearing = "free"
  BY DEF EnterError, SetDrivingState
<1>3. prevState' = IF drivingState = "ERROR" THEN prevState ELSE drivingState
  BY DEF EnterError, SetDrivingState
<1>4. stood' = IF stood = "here" THEN "interrupted" ELSE stood
  BY DEF EnterError
<1>5. PolicyTypeOK'
  <2>1. prevState' \in NormalStates \cup {"None"} /\ drivingState' \in DrivingStates
    BY <1>2, <1>3 DEF Inv, PolicyTypeOK, DrivingStates
  <2>2. stood' \in {"no", "here", "interrupted"}
    BY <1>4 DEF Inv, PolicyTypeOK
  <2>3. reasons' \subseteq {"control_lost", "gps_lost"}
    BY DEF Inv, PolicyTypeOK, EnterError
  <2> QED
    BY <1>1, <1>2, <2>1, <2>2, <2>3 DEF Inv, PolicyTypeOK
<1>6. StateInv' /\ EffectiveState' = EffectiveState
  BY <1>2, <1>3 DEF Inv, PolicyTypeOK, StateInv, EffectiveState, NormalStates, DRIVING_STATES, DrivingStates
<1>7. RecoverInv' /\ NoArrival
  BY <1>2 DEF RecoverInv, NoArrival
<1>8. KeepsTrip
  BY <1>1, <1>2, <1>4, <1>6 DEF KeepsTrip
<1> QED
  BY <1>4, <1>5, <1>6, <1>7, <1>8 DEF PolicyKeeps

\* A step that leaves the states and the mission alone.
LEMMA StateRestsKeeps ==
    ASSUME Inv, UNCHANGED <<drivingState, prevState, serviceKind, mission, openFor, stood, stranded>>,
           reasons' \subseteq reasons, clearing' \in {"free", "check", "recover"},
           clearing' = "recover" => clearing = "recover" \/ drivingState = "ERROR"
    PROVE  PolicyKeeps
<1>1. PolicyTypeOK' /\ StateInv'
  BY DEF Inv, PolicyTypeOK, StateInv
<1>2. RecoverInv' /\ NoArrival
  BY DEF Inv, RecoverInv, NoArrival
<1>3. openFor <= openFor'
  BY SettleAssumption DEF Inv, PolicyTypeOK
<1>4. KeepsTrip
  BY <1>3 DEF KeepsTrip, EffectiveState
<1> QED
  BY <1>1, <1>2, <1>4 DEF PolicyKeeps, Inv, StoodInv

LEMMA PolicyRestsKeeps == ASSUME Inv, PolicyRests PROVE PolicyKeeps
BY StateRestsKeeps DEF PolicyRests, policyVars, Inv, PolicyTypeOK

LEMMA ClearReasonKeeps ==
    ASSUME Inv, NEW reason, NEW l, ClearReason(reason, l)
    PROVE  PolicyKeeps
<1>1. clearing' \in {"check", clearing} /\ reasons' \subseteq reasons
  BY DEF ClearReason
<1> QED
  BY <1>1, StateRestsKeeps DEF ClearReason, Inv, PolicyTypeOK

LEMMA OnCommandKeeps ==
    ASSUME Inv, clearing = "free", NEW command, OnCommand(command)
    PROVE  PolicyKeeps
<1>1. CASE command = "move" /\ drivingState = "WAITING"
  <2>1. PICK dest \in Destinations :
            SetMission(dest, IF serviceKind = "PICKUP" THEN "CARRY" ELSE "PICKUP")
    BY <1>1 DEF OnCommand
  <2>2. mission' \in Missions /\ serviceKind' \in ServiceKinds
    BY <2>1 DEF SetMission, Missions, ServiceKinds
  <2>3. /\ drivingState' = "PLANNING" /\ prevState' = "None" /\ stood' = "no"
        /\ UNCHANGED <<reasons, clearing, openFor, stranded>>
    BY <1>1 DEF OnCommand, SetDrivingState
  <2>4. PolicyTypeOK' /\ StateInv'
    BY <2>2, <2>3 DEF Inv, PolicyTypeOK, StateInv, DrivingStates, NormalStates, DRIVING_STATES
  <2>5. RecoverInv' /\ NoArrival
    BY <2>3 DEF RecoverInv, NoArrival
  <2>6. openFor <= openFor'
    BY <2>3, SettleAssumption DEF Inv, PolicyTypeOK
  <2>7. BeginsTrip
    BY <1>1, <2>2, <2>3, <2>6, NoMissionAssumption DEF BeginsTrip, EffectiveState
  <2> QED
    BY <2>3, <2>4, <2>5, <2>7 DEF PolicyKeeps
<1>2. CASE command = "stop" /\ drivingState = "ARRIVED"
  <2>1. /\ ClearMission(IF serviceKind = "PICKUP" THEN "PICKUP" ELSE "None")
        /\ drivingState' = "WAITING" /\ prevState' = "None"
        /\ openFor' = 0 /\ stood' = "no" /\ stranded' = FALSE
        /\ UNCHANGED <<reasons, clearing>>
    BY <1>2 DEF OnCommand, SetDrivingState
  <2>2. mission' = NoMission /\ serviceKind' \in ServiceKinds \cup {"None"}
    BY <2>1 DEF ClearMission, ServiceKinds
  <2>3. openFor' \in 0 .. Settle
    BY <2>1, SettleAssumption
  <2>4. PolicyTypeOK' /\ StateInv'
    BY <2>1, <2>2, <2>3 DEF Inv, PolicyTypeOK, StateInv, DrivingStates, NormalStates, DRIVING_STATES
  <2>5. RecoverInv' /\ NoArrival
    BY <2>1 DEF RecoverInv, NoArrival
  <2>6. EndsTrip
    BY <1>2, <2>1 DEF EndsTrip, EffectiveState
  <2> QED
    BY <2>1, <2>4, <2>5, <2>6 DEF PolicyKeeps
<1>3. CASE command = "resume" /\ drivingState = "ERROR" /\ "control_lost" \in reasons
  <2>1. ClearReason("control_lost", "control")
    BY <1>3 DEF OnCommand
  <2> QED
    BY <2>1, ClearReasonKeeps
<1>4. CASE /\ ~(command = "move" /\ drivingState = "WAITING")
           /\ ~(command = "stop" /\ drivingState = "ARRIVED")
           /\ ~(command = "resume" /\ drivingState = "ERROR" /\ "control_lost" \in reasons)
  <2>1. PolicyRests
    BY <1>4 DEF OnCommand
  <2> QED
    BY <2>1, PolicyRestsKeeps
<1> QED
  BY <1>1, <1>2, <1>3, <1>4

LEMMA CheckKeeps == ASSUME Inv, PolicyStep, CheckStillError PROVE PolicyKeeps
<1>1. /\ UNCHANGED <<drivingState, prevState, serviceKind, mission, reasons, openFor, stood, stranded>>
      /\ clearing' \in {"free", "recover"} /\ (clearing' = "recover" => drivingState = "ERROR")
  BY DEF PolicyStep, CheckStillError
<1> QED
  BY <1>1, StateRestsKeeps

\* A trip is stranded only after a state that the loop has set.
LEMMA RecoverKeeps == ASSUME Inv, PolicyStep, RecoverAfterCheck PROVE PolicyKeeps
<1>1. UNCHANGED <<serviceKind, mission, reasons, openFor, stood>> /\ clearing' = "free"
  BY DEF PolicyStep, RecoverAfterCheck
<1>2. openFor <= openFor'
  BY <1>1, SettleAssumption DEF Inv, PolicyTypeOK
<1>3. /\ drivingState' = (IF prevState = "None" THEN "WAITING" ELSE prevState) /\ prevState' = "None"
      /\ stranded' = (stranded \/ (prevState = "None" /\ mission # NoMission))
      /\ drivingState \in Following \cup {"ERROR"}
  BY DEF RecoverAfterCheck, RecoverPreviousState, Inv, RecoverInv
<1>4. drivingState' \in NormalStates
  BY <1>3 DEF Inv, PolicyTypeOK, NormalStates
<1>5. PolicyTypeOK' /\ StateInv' /\ EffectiveState' = drivingState'
  <2>1. stranded' \in BOOLEAN /\ drivingState' # "ERROR"
    BY <1>3, <1>4 DEF Inv, PolicyTypeOK, NormalStates, DRIVING_STATES
  <2>2. drivingState' \in DrivingStates
    BY <1>4 DEF DrivingStates
  <2> QED
    BY <1>1, <1>3, <2>1, <2>2 DEF Inv, PolicyTypeOK, StateInv, EffectiveState
<1>6. RecoverInv' /\ drivingState' # "ERROR"
  BY <1>1, <1>3, <1>4 DEF RecoverInv, NormalStates, DRIVING_STATES
<1>7. CASE prevState = "None"
  <2>1. drivingState \in Following
    BY <1>3, <1>7 DEF Inv, StateInv
  <2>2. EffectiveState # "ARRIVED" /\ drivingState' = "WAITING" /\ (stranded' \/ mission = NoMission)
    BY <1>3, <1>7, <2>1 DEF EffectiveState, Following
  <2>3. StrandsTrip
    BY <1>1, <1>2, <1>5, <2>2 DEF StrandsTrip
  <2> QED
    BY <1>5, <1>6, <2>2, <2>3 DEF PolicyKeeps, NoArrival
<1>8. CASE prevState # "None"
  <2>1. drivingState = "ERROR"
    BY <1>8 DEF Inv, StateInv
  <2>2. /\ EffectiveState' = EffectiveState
        /\ stranded' = stranded
        /\ stood' # "here"
    BY <1>1, <1>3, <1>5, <1>8, <2>1 DEF EffectiveState, Inv, StoodInv, PolicyTypeOK
  <2>3. KeepsTrip
    BY <1>1, <1>2, <2>2 DEF KeepsTrip
  <2> QED
    BY <1>5, <1>6, <2>1, <2>3 DEF PolicyKeeps, NoArrival
<1> QED
  BY <1>7, <1>8

\* What the policy keeps is enough, when the loop's own state is left alone and the position
\* is not taken away.
LEMMA PolicyKeepsInv ==
    ASSUME Inv, PolicyKeeps, UNCHANGED <<checkerVars, hasRoute, running, tick>>,
           poseStale' \in BOOLEAN, place' \in Places \cup {NoPlace},
           place # NoPlace => place' # NoPlace, ~poseStale' => place' # NoPlace
    PROVE  Inv'
<1>1. LoopTypeOK' /\ PoseInv'
  BY DEF Inv, LoopTypeOK, PoseInv, checkerVars
<1>2. UNCHANGED <<hasStop, heldFor, arrived, hasRoute, running, tick>>
  BY DEF checkerVars
<1>3. /\ PolicyTypeOK' /\ StateInv' /\ RecoverInv'
      /\ drivingState' = "ERROR" => stood' # "here"
  BY DEF PolicyKeeps
<1>4. tick # "idle" => tick' # "idle" /\ EffectiveState' # "ARRIVED" /\ mission' # NoMission
                       /\ (EffectiveState' \in DRIVING_STATES \/ stranded') /\ openFor <= openFor'
  <2>1. CASE KeepsTrip
    BY <1>2, <2>1 DEF KeepsTrip, Inv, TickInv
  <2>2. CASE BeginsTrip
    BY <1>2, <2>2 DEF BeginsTrip, DRIVING_STATES
  <2>3. CASE EndsTrip
    BY <2>3 DEF EndsTrip, Inv, TickInv
  <2>4. CASE StrandsTrip
    BY <1>2, <2>4 DEF StrandsTrip, Inv, TickInv
  <2> QED
    BY <2>1, <2>2, <2>3, <2>4 DEF PolicyKeeps
<1>5. EffectiveState' \in Following => KeepsTrip
  BY DEF PolicyKeeps, BeginsTrip, EndsTrip, StrandsTrip, Following
<1>6. Driven' => Driven /\ openFor <= openFor'
  BY <1>2, <1>4, <1>5 DEF Driven, KeepsTrip
<1>7. DriveInv'
  <2>1. EffectiveState' \in DRIVING_STATES \cup {"ARRIVED"} => mission' # NoMission
    BY DEF PolicyKeeps, KeepsTrip, BeginsTrip, EndsTrip, StrandsTrip, Inv, DriveInv, DRIVING_STATES
  <2>2. EffectiveState' \in Following => place' # NoPlace
    BY <1>5 DEF KeepsTrip, Inv, DriveInv
  <2>3. Driven' /\ running' => hasRoute' /\ hasStop'
    BY <1>2, <1>6 DEF Inv, DriveInv
  <2> QED
    BY <2>1, <2>2, <2>3 DEF DriveInv
<1>8. TickInv'
  BY <1>2, <1>4 DEF Inv, TickInv
<1>9. HeldInv'
  <2> SUFFICES ASSUME Driven', heldFor' # NotHeld, ~arrived' PROVE heldFor' <= openFor'
    BY DEF HeldInv
  <2>1. heldFor <= openFor /\ openFor <= openFor' /\ heldFor' = heldFor
    BY <1>2, <1>6 DEF Inv, HeldInv
  <2>2. heldFor \in Int /\ openFor \in Int /\ openFor' \in Int
    BY <1>3, SettleAssumption DEF Inv, LoopTypeOK, PolicyTypeOK, NotHeld
  <2> QED
    BY <2>1, <2>2
<1>10. StoodInv'
  <2>1. tick' = "tell" => arrived'
    BY <1>2 DEF Inv, StoodInv
  <2>2. ASSUME Driven', arrived', ~stranded'
        PROVE  \/ stood' = "interrupted"
               \/ stood' = "here" /\ tick' \in {"approach", "tell"} /\ drivingState' \in Following
    <3>1. KeepsTrip
      <4>1. CASE BeginsTrip
        BY <2>2, <4>1, <1>2 DEF BeginsTrip, Driven, Following, Inv, TickInv, DRIVING_STATES
      <4>2. CASE EndsTrip
        BY <2>2, <4>2, <1>2 DEF EndsTrip, Driven, Following, Inv, TickInv
      <4>3. CASE StrandsTrip
        BY <2>2, <4>3, <1>2 DEF StrandsTrip, Driven, Following, Inv, TickInv
      <4> QED
        BY <4>1, <4>2, <4>3 DEF PolicyKeeps
    <3>2. \/ stood = "interrupted"
          \/ stood = "here" /\ tick \in {"approach", "tell"} /\ drivingState \in Following
      BY <1>2, <1>6, <2>2, <3>1 DEF KeepsTrip, Inv, StoodInv
    <3> QED
      BY <1>2, <3>1, <3>2 DEF KeepsTrip
  <2> QED
    BY <1>3, <2>1, <2>2 DEF StoodInv
<1> QED
  BY <1>1, <1>3, <1>7, <1>8, <1>9, <1>10 DEF Inv

-----------------------------------------------------------------------------
(* The steps of the two clients, and of the program's end.                 *)

LEMMA RestStep ==
    ASSUME Inv, UNCHANGED <<storeVars, checkerVars, tripVars>>
    PROVE  Inv' /\ NoArrival
<1>1. PolicyKeeps
  BY PolicyRestsKeeps DEF PolicyRests, policyVars, storeVars, tripVars, historyVars
<1>2. UNCHANGED <<poseStale, checkerVars, place, hasRoute, running, tick>>
  BY DEF storeVars, tripVars
<1> QED
  BY <1>1, <1>2, PolicyKeepsInv DEF Inv, LoopTypeOK, PoseInv, PolicyKeeps

LEMMA ControlStep == ASSUME Inv, Control PROVE Inv' /\ NoArrival
<1>1. CASE ControlConnects
  BY <1>1, RestStep DEF ControlConnects
<1>2. CASE (\E raw \in Messages : ControlMessage(raw)) \/ ControlLoss
  <2>1. PolicyKeeps
    BY <1>2, OnCommandKeeps, EnterErrorKeeps, PolicyRestsKeeps DEF ControlMessage, ControlLoss
  <2>2. UNCHANGED <<poseStale, checkerVars, place, hasRoute, running, tick>>
    BY <1>2 DEF ControlMessage, ControlLoss
  <2> QED
    BY <2>1, <2>2, PolicyKeepsInv DEF Inv, LoopTypeOK, PoseInv, PolicyKeeps
<1> QED
  BY <1>1, <1>2 DEF Control

LEMMA PositionStep == ASSUME Inv, Position PROVE Inv' /\ NoArrival
<1>1. CASE PositionConnects
  BY <1>1, RestStep DEF PositionConnects
<1>2. CASE NotFound
  <2>1. PolicyKeeps
    BY <1>2, PolicyRestsKeeps DEF NotFound, PolicyRests, policyVars, tripVars, historyVars
  <2>2. poseStale' = TRUE /\ UNCHANGED <<checkerVars, place, hasRoute, running, tick>>
    BY <1>2 DEF NotFound, MarkPoseStale, tripVars
  <2> QED
    BY <2>1, <2>2, PolicyKeepsInv DEF Inv, LoopTypeOK, PolicyKeeps
<1>3. CASE PositionLoss \/ PoseTimeout
  <2>1. UNCHANGED <<checkerVars, place, hasRoute, running, tick>>
    BY <1>3 DEF PositionLoss, PoseTimeout
  <2>2. DeclareLost \/ (PolicyRests /\ UNCHANGED poseStale)
    BY <1>3 DEF PositionLoss, PoseTimeout
  <2>3. PolicyKeeps /\ (poseStale' = TRUE \/ poseStale' = poseStale)
    BY <2>2, EnterErrorKeeps, PolicyRestsKeeps DEF DeclareLost, MarkPoseStale
  <2>4. CASE poseStale' = TRUE
    BY <2>1, <2>3, <2>4, PolicyKeepsInv DEF Inv, LoopTypeOK, PolicyKeeps
  <2>5. CASE poseStale' = poseStale
    BY <2>1, <2>3, <2>5, PolicyKeepsInv DEF Inv, LoopTypeOK, PoseInv, PolicyKeeps
  <2> QED
    BY <2>3, <2>4, <2>5
<1>4. ASSUME NEW p \in Places, NEW speed \in Speeds, NEW long \in BOOLEAN,
             PositionMessage(p, speed, long)
      PROVE  Inv' /\ NoArrival
  <2>1. place' = p /\ poseStale' = FALSE /\ UNCHANGED <<checkerVars, hasRoute, running, tick>>
    BY <1>4 DEF PositionMessage, UpdatePose
  <2>2. PolicyKeeps
    BY <1>4, ClearReasonKeeps, PolicyRestsKeeps DEF PositionMessage
  <2> QED
    BY <2>1, <2>2, PolicyKeepsInv, NoPlaceAssumption DEF Inv, PolicyKeeps
<1> QED
  BY <1>1, <1>2, <1>3, <1>4 DEF Position

LEMMA RecoveryStep == ASSUME Inv, PolicyStep PROVE Inv' /\ NoArrival
<1>1. PolicyKeeps
  BY CheckKeeps, RecoverKeeps DEF PolicyStep
<1>2. UNCHANGED <<poseStale, checkerVars, place, hasRoute, running, tick>>
  BY DEF PolicyStep
<1> QED
  BY <1>1, <1>2, PolicyKeepsInv DEF Inv, LoopTypeOK, PoseInv, PolicyKeeps

\* The loop has ended with what it kept; the policy goes on.
LEMMA ShutdownStep == ASSUME Inv, Shutdown PROVE Inv' /\ NoArrival
<1>1. /\ UNCHANGED <<storeVars, place, reasons, clearing, tick, stranded>>
      /\ running' = FALSE /\ hasRoute' = FALSE /\ hasStop' = FALSE /\ heldFor' = NotHeld
      /\ arrived' = FALSE /\ openFor' = 0 /\ stood' = "no" /\ tick = "idle"
  BY DEF Shutdown, ClearChecker, Begins
<1>2. openFor' \in 0 .. Settle /\ heldFor' \in {NotHeld} \cup 0 .. Settle
  BY <1>1, SettleAssumption
<1>3. PolicyTypeOK' /\ LoopTypeOK' /\ StateInv' /\ PoseInv' /\ RecoverInv'
  BY <1>1, <1>2 DEF Inv, PolicyTypeOK, LoopTypeOK, StateInv, PoseInv, RecoverInv, storeVars
<1>4. DriveInv' /\ TickInv' /\ HeldInv' /\ StoodInv'
  BY <1>1 DEF Inv, DriveInv, TickInv, HeldInv, StoodInv, EffectiveState, storeVars
<1> QED
  BY <1>1, <1>3, <1>4 DEF Inv, NoArrival, storeVars

LEMMA NetworkAndEndStep ==
    ASSUME Inv, Shutdown \/ StopPosition \/ (\E l \in Links : NetworkStep(l)) \/ UNCHANGED vars
    PROVE  Inv' /\ NoArrival
<1>1. CASE Shutdown
  BY <1>1, ShutdownStep
<1>2. CASE StopPosition \/ (\E l \in Links : NetworkStep(l)) \/ UNCHANGED vars
  <2>1. UNCHANGED <<storeVars, checkerVars, tripVars>>
    BY <1>2 DEF StopPosition, NetworkStep, vars
  <2> QED
    BY <2>1, RestStep
<1> QED
  BY <1>1, <1>2

\* The two clocks go on together.
LEMMA ElapseStep == ASSUME Inv, Elapse PROVE Inv' /\ NoArrival
<1>1. UNCHANGED <<storeVars, hasStop, arrived, place, reasons, clearing, hasRoute, running, tick,
                  stood, stranded>>
  BY DEF Elapse
<1>2. /\ openFor' \in 0 .. Settle /\ heldFor' \in {NotHeld} \cup 0 .. Settle
      /\ heldFor' # NotHeld => heldFor # NotHeld
      /\ heldFor # NotHeld /\ heldFor <= openFor => heldFor' <= openFor'
  BY SettleAssumption DEF Elapse, Inv, LoopTypeOK, PolicyTypeOK, NotHeld
<1>3. PolicyTypeOK' /\ LoopTypeOK' /\ StateInv' /\ PoseInv' /\ RecoverInv'
  BY <1>1, <1>2 DEF Inv, PolicyTypeOK, LoopTypeOK, StateInv, PoseInv, RecoverInv, storeVars
<1>4. EffectiveState' = EffectiveState /\ (Driven' <=> Driven)
  BY <1>1 DEF EffectiveState, Driven, storeVars
<1>5. DriveInv' /\ TickInv' /\ StoodInv'
  BY <1>1, <1>4 DEF Inv, DriveInv, TickInv, StoodInv, storeVars
<1>6. HeldInv'
  BY <1>1, <1>2, <1>4 DEF Inv, HeldInv
<1> QED
  BY <1>1, <1>3, <1>5, <1>6 DEF Inv, NoArrival, storeVars

-----------------------------------------------------------------------------
(* The control loop.                                                       *)

LEMMA TickPlanStep == ASSUME Inv, TickPlan PROVE Inv' /\ NoArrival
<1>1. /\ drivingState = "PLANNING" /\ running /\ ~poseStale
      /\ UNCHANGED <<storeVars, place, reasons, clearing, running, stood>>
      /\ hasRoute' = TRUE /\ tick' = "plan" /\ openFor' = 0 /\ stranded' = FALSE
      /\ hasStop' = TRUE /\ heldFor' = NotHeld /\ arrived' = FALSE
  BY DEF TickPlan, Begins, StartMission
<1>2. EffectiveState = "PLANNING" /\ EffectiveState' = "PLANNING"
  BY <1>1 DEF EffectiveState, storeVars
<1>3. openFor' \in 0 .. Settle /\ heldFor' \in {NotHeld} \cup 0 .. Settle
  BY <1>1, SettleAssumption
<1>4. PolicyTypeOK' /\ LoopTypeOK' /\ StateInv' /\ PoseInv' /\ RecoverInv'
  BY <1>1, <1>3 DEF Inv, PolicyTypeOK, LoopTypeOK, StateInv, PoseInv, RecoverInv, storeVars
<1>5. mission # NoMission /\ place # NoPlace
  BY <1>1, <1>2 DEF Inv, DriveInv, PoseInv, DRIVING_STATES
<1>6. DriveInv' /\ TickInv'
  BY <1>1, <1>2, <1>5 DEF DriveInv, TickInv, DRIVING_STATES, Following, storeVars
<1>7. HeldInv' /\ StoodInv'
  BY <1>1 DEF HeldInv, StoodInv, storeVars
<1> QED
  BY <1>1, <1>4, <1>6, <1>7 DEF Inv, NoArrival, storeVars

LEMMA ObserveType ==
    ASSUME Inv, NEW atStop, NEW atRest, Observe(atStop, atRest)
    PROVE  openFor' \in 0 .. Settle /\ stood' \in {"no", "here", "interrupted"}
<1>1. openFor' \in {0, openFor}
  BY DEF Observe
<1> QED
  BY <1>1, SettleAssumption DEF Observe, Inv, PolicyTypeOK

\* Both ticks of a drive begin in one, with a stop.
LEMMA DriveTickFacts ==
    ASSUME Inv, Begins, drivingState \in DRIVING_STATES \ {"PLANNING"}
    PROVE  /\ drivingState \in Following /\ EffectiveState = drivingState /\ prevState = "None"
           /\ running /\ tick = "idle" /\ Driven
           /\ mission # NoMission /\ place # NoPlace /\ hasStop /\ hasRoute
           /\ arrived /\ ~stranded => stood = "interrupted"
<1>1. /\ drivingState \in Following /\ EffectiveState = drivingState /\ prevState = "None"
      /\ running /\ tick = "idle" /\ Driven
  BY DEF Inv, StateInv, Begins, EffectiveState, Driven, DRIVING_STATES, Following
<1>2. mission # NoMission /\ place # NoPlace /\ hasStop /\ hasRoute
  BY <1>1 DEF Inv, DriveInv, DRIVING_STATES, Following
<1> QED
  BY <1>1, <1>2 DEF Inv, StoodInv

LEMMA TickStaleStep == ASSUME Inv, TickStale PROVE Inv' /\ NoArrival
<1>1. /\ Begins /\ drivingState \in DRIVING_STATES \ {"PLANNING"} /\ poseStale
      /\ UNCHANGED <<storeVars, place, reasons, clearing, hasRoute, running, tick, stranded>>
      /\ Observe(FALSE, FALSE)
  BY DEF TickStale
<1>2. /\ drivingState \in Following /\ tick = "idle" /\ place # NoPlace /\ hasStop
      /\ arrived /\ ~stranded => stood = "interrupted"
  BY <1>1, DriveTickFacts
<1>3. /\ UNCHANGED <<hasStop, arrived>>
      /\ heldFor' \in {heldFor, NotHeld}
      /\ ~arrived => heldFor' = NotHeld
  BY <1>2 DEF TickStale, UpdateChecker, Gate, GateShuts, checkerVars
<1>4. openFor' \in 0 .. Settle /\ stood' \in {"no", "here", "interrupted"}
  BY <1>1, ObserveType
<1>5. (stood = "interrupted" => stood' = "interrupted") /\ stood' # "here"
  BY <1>1 DEF Observe
<1>6. PolicyTypeOK' /\ LoopTypeOK' /\ StateInv' /\ PoseInv' /\ RecoverInv'
  BY <1>1, <1>3, <1>4 DEF Inv, PolicyTypeOK, LoopTypeOK, StateInv, PoseInv, RecoverInv, storeVars
<1>7. EffectiveState' = EffectiveState /\ (Driven' <=> Driven)
  BY <1>1 DEF EffectiveState, Driven, storeVars
<1>8. DriveInv' /\ TickInv'
  BY <1>1, <1>3, <1>7 DEF Inv, DriveInv, TickInv, storeVars
<1>9. HeldInv' /\ StoodInv'
  BY <1>1, <1>2, <1>3, <1>5 DEF HeldInv, StoodInv
<1> QED
  BY <1>1, <1>6, <1>8, <1>9 DEF Inv, NoArrival, storeVars

LEMMA TickIdleStep == ASSUME Inv, TickIdle PROVE Inv' /\ NoArrival
<1>1. /\ drivingState \notin DRIVING_STATES /\ tick = "idle"
      /\ UNCHANGED <<storeVars, place, reasons, clearing, running, tick, openFor, stood, stranded>>
  BY DEF TickIdle, Begins, historyVars
<1>2. \/ mission = NoMission /\ hasRoute' = FALSE /\ hasStop' = FALSE /\ heldFor' = NotHeld /\ arrived' = FALSE
      \/ UNCHANGED <<hasRoute, hasStop, heldFor, arrived>>
  BY DEF TickIdle, ClearChecker, checkerVars
<1>3. PolicyTypeOK' /\ StateInv' /\ PoseInv' /\ RecoverInv'
  BY <1>1 DEF Inv, PolicyTypeOK, StateInv, PoseInv, RecoverInv, storeVars
<1>4. LoopTypeOK'
  BY ZenonT(60), <1>1, <1>2 DEF Inv, LoopTypeOK, storeVars
<1>5. EffectiveState' = EffectiveState /\ (Driven' <=> Driven)
  BY <1>1 DEF EffectiveState, Driven, storeVars
<1>6. mission = NoMission => ~Driven
  BY <1>1 DEF Inv, DriveInv, Driven, Following, DRIVING_STATES
<1>7. DriveInv' /\ TickInv'
  BY <1>1, <1>2, <1>5, <1>6 DEF Inv, DriveInv, TickInv, storeVars
<1>8. HeldInv' /\ StoodInv'
  BY <1>1, <1>2, <1>5, <1>6 DEF Inv, HeldInv, StoodInv, storeVars
<1> QED
  BY <1>1, <1>3, <1>4, <1>7, <1>8 DEF Inv, NoArrival, storeVars

\* A tick that latches an arrival has found the vehicle standing at its stop.
LEMMA TickDriveChecker ==
    ASSUME Inv, NEW throttle \in BOOLEAN, NEW near \in BOOLEAN, TickDrive(throttle, near)
    PROVE  /\ hasStop' = hasStop /\ arrived' \in BOOLEAN
           /\ heldFor' \in {NotHeld} \cup 0 .. Settle
           /\ heldFor' # NotHeld /\ ~arrived' => heldFor' <= openFor'
           /\ arrived' /\ ~stranded => stood' \in {"here", "interrupted"}
<1>1. /\ Begins /\ drivingState \in DRIVING_STATES \ {"PLANNING"}
      /\ UpdateChecker(place, SpeedShown, throttle, FALSE)
      /\ Observe(Gate(place, throttle, FALSE), StandsAtStop(throttle))
  BY DEF TickDrive
<1>2. hasStop /\ Driven /\ (arrived /\ ~stranded => stood = "interrupted")
  BY <1>1, DriveTickFacts
<1>3. Settle \in Nat /\ openFor \in 0 .. Settle /\ heldFor \in {NotHeld} \cup 0 .. Settle
  BY SettleAssumption DEF Inv, LoopTypeOK, PolicyTypeOK
<1>4. CASE arrived
  BY <1>1, <1>2, <1>3, <1>4 DEF UpdateChecker, checkerVars, Observe
<1>5. CASE ~arrived /\ Gate(place, throttle, FALSE)
  <2>1. GateHolds(SpeedShown) /\ openFor' = openFor
    BY <1>1, <1>2, <1>5 DEF UpdateChecker, Observe
  <2>2. /\ heldFor' = (IF heldFor = NotHeld THEN 0 ELSE heldFor) /\ hasStop' = hasStop
        /\ arrived' = (SpeedShown # "fast" \/ heldFor' >= Settle)
    BY <2>1 DEF GateHolds
  <2>3. heldFor' \in 0 .. Settle /\ heldFor' <= openFor
    BY <1>2, <1>3, <1>5, <2>2 DEF Inv, HeldInv, NotHeld
  <2>4. heldFor' >= Settle => openFor >= Settle
    BY <1>3, <2>3
  <2>5. arrived' => StandsAtStop(throttle)
    BY <1>5, <2>2, <2>4 DEF StandsAtStop
  <2>6. StandsAtStop(throttle) => stood' \in {"here", "interrupted"}
    BY <1>1 DEF Observe
  <2>7. arrived' \in BOOLEAN
    BY <2>2
  <2> QED
    BY <2>1, <2>2, <2>3, <2>5, <2>6, <2>7
<1>6. CASE ~arrived /\ ~Gate(place, throttle, FALSE)
  <2>1. heldFor' = NotHeld /\ UNCHANGED <<hasStop, arrived>>
    BY <1>1, <1>2, <1>6 DEF UpdateChecker, GateShuts
  <2> QED
    BY <1>6, <2>1 DEF Inv, LoopTypeOK
<1> QED
  BY <1>4, <1>5, <1>6

LEMMA TickDriveStep ==
    ASSUME Inv, NEW throttle \in BOOLEAN, NEW near \in BOOLEAN, TickDrive(throttle, near)
    PROVE  Inv' /\ NoArrival
<1>1. /\ Begins /\ drivingState \in DRIVING_STATES \ {"PLANNING"}
      /\ UNCHANGED <<storeVars, place, reasons, clearing, hasRoute, running, stranded>>
      /\ Observe(Gate(place, throttle, FALSE), StandsAtStop(throttle))
  BY DEF TickDrive
<1>2. /\ drivingState \in Following /\ EffectiveState = drivingState /\ running
      /\ mission # NoMission /\ place # NoPlace /\ hasStop /\ hasRoute
  BY <1>1, DriveTickFacts
<1>3. /\ hasStop' = hasStop /\ arrived' \in BOOLEAN
      /\ heldFor' \in {NotHeld} \cup 0 .. Settle
      /\ heldFor' # NotHeld /\ ~arrived' => heldFor' <= openFor'
      /\ arrived' /\ ~stranded => stood' \in {"here", "interrupted"}
  BY TickDriveChecker
<1>4. tick' = IF near THEN "approach" ELSE AfterTest(arrived')
  BY DEF TickDrive
<1>5. /\ tick' \in {"idle", "approach", "tell"}
      /\ tick' = "tell" => arrived'
      /\ arrived' => tick' \in {"approach", "tell"}
  BY <1>3, <1>4 DEF AfterTest
<1>6. openFor' \in 0 .. Settle /\ stood' \in {"no", "here", "interrupted"}
  BY <1>1, ObserveType
<1>7. PolicyTypeOK' /\ LoopTypeOK' /\ StateInv' /\ PoseInv' /\ RecoverInv'
  BY <1>1, <1>3, <1>5, <1>6 DEF Inv, PolicyTypeOK, LoopTypeOK, StateInv, PoseInv, RecoverInv, storeVars
<1>8. EffectiveState' = EffectiveState
  BY <1>1 DEF EffectiveState, storeVars
<1>9. DriveInv' /\ TickInv'
  BY <1>1, <1>2, <1>3, <1>8 DEF DriveInv, TickInv, storeVars, Following, DRIVING_STATES
<1>10. HeldInv' /\ StoodInv'
  BY <1>1, <1>2, <1>3, <1>5 DEF HeldInv, StoodInv, storeVars, Following
<1> QED
  BY <1>1, <1>7, <1>9, <1>10 DEF Inv, NoArrival, storeVars

LEMMA TickSetStateStep == ASSUME Inv, TickSetState PROVE Inv' /\ NoArrival
<1>1. /\ UNCHANGED <<serviceKind, mission, poseStale, hasStop, heldFor, arrived, place, reasons, clearing,
                     hasRoute, running, openFor, stood, stranded>>
  BY DEF TickSetState, checkerVars, historyVars
<1>2. /\ tick \in {"plan", "approach"} /\ drivingState' \in Following /\ prevState' = "None"
      /\ tick' \in {"idle", "tell"}
      /\ tick' = "tell" => arrived
      /\ tick = "approach" /\ arrived => tick' = "tell"
  BY DEF TickSetState, SetDrivingState, Following, AfterTest
<1>3. EffectiveState' = drivingState'
  BY <1>2 DEF EffectiveState, Following
<1>4. PolicyTypeOK' /\ LoopTypeOK' /\ StateInv' /\ PoseInv' /\ RecoverInv'
  BY <1>1, <1>2 DEF Inv, PolicyTypeOK, LoopTypeOK, StateInv, PoseInv, RecoverInv, Following, DrivingStates,
                    NormalStates, DRIVING_STATES
<1>5. Driven /\ mission # NoMission /\ place # NoPlace /\ running /\ hasRoute /\ hasStop
  BY <1>2 DEF Inv, TickInv, DriveInv, Driven
<1>6. DriveInv' /\ TickInv'
  BY <1>1, <1>2, <1>3, <1>5 DEF DriveInv, TickInv, Following, DRIVING_STATES
<1>7. HeldInv'
  BY <1>1, <1>5 DEF Inv, HeldInv
<1>8. StoodInv'
  BY <1>1, <1>2, <1>5 DEF Inv, StoodInv, Following
<1> QED
  BY <1>2, <1>4, <1>6, <1>7, <1>8 DEF Inv, NoArrival, Following

\* The word to the policy is of a vehicle that stood at its stop.
LEMMA TickTellStep ==
    ASSUME Inv, TickTell
    PROVE  /\ Inv' /\ mission # NoMission
           /\ drivingState' = "ARRIVED" /\ drivingState # "ARRIVED" => stood # "no" \/ stranded
<1>1. /\ tick = "tell" /\ clearing = "free" /\ tick' = "idle"
      /\ UNCHANGED <<serviceKind, mission, poseStale, hasStop, heldFor, arrived, place, reasons, clearing,
                     hasRoute, running, openFor, stood, stranded>>
  BY DEF TickTell, checkerVars, historyVars
<1>2. arrived /\ Driven /\ mission # NoMission
  BY <1>1 DEF Inv, StoodInv, TickInv, Driven
<1>3. \/ stranded \/ stood = "interrupted"
      \/ stood = "here" /\ drivingState \in Following
  BY <1>2 DEF Inv, StoodInv
<1>4. CASE drivingState \in DRIVING_STATES
  <2>1. drivingState' = "ARRIVED" /\ prevState' = "None"
    BY <1>4 DEF TickTell, SetDrivingState
  <2>2. PolicyTypeOK' /\ LoopTypeOK' /\ StateInv' /\ PoseInv' /\ RecoverInv'
    BY <1>1, <2>1 DEF Inv, PolicyTypeOK, LoopTypeOK, StateInv, PoseInv, RecoverInv, DrivingStates, NormalStates
  <2>3. EffectiveState' = "ARRIVED" /\ ~Driven'
    BY <1>1, <2>1 DEF EffectiveState, Driven, Following
  <2>4. DriveInv' /\ TickInv' /\ HeldInv' /\ StoodInv'
    BY <1>1, <1>2, <2>1, <2>3 DEF DriveInv, TickInv, HeldInv, StoodInv, Following
  <2> QED
    BY <1>2, <1>3, <2>2, <2>4 DEF Inv
<1>5. CASE drivingState \notin DRIVING_STATES
  <2>1. UNCHANGED <<drivingState, prevState>>
    BY <1>5 DEF TickTell
  <2>2. PolicyTypeOK' /\ LoopTypeOK' /\ StateInv' /\ PoseInv' /\ RecoverInv'
    BY <1>1, <2>1 DEF Inv, PolicyTypeOK, LoopTypeOK, StateInv, PoseInv, RecoverInv
  <2>3. EffectiveState' = EffectiveState
    BY <2>1 DEF EffectiveState
  <2>4. DriveInv' /\ TickInv' /\ HeldInv'
    BY <1>1, <1>2, <2>3 DEF Inv, DriveInv, TickInv, HeldInv, Driven
  <2>5. stood # "here" \/ stranded
    BY <1>3, <1>5 DEF Following, DRIVING_STATES
  <2>6. StoodInv'
    BY <1>1, <1>3, <2>1, <2>5 DEF Inv, StoodInv
  <2> QED
    BY <1>2, <1>3, <2>1, <2>2, <2>4, <2>6 DEF Inv
<1> QED
  BY <1>4, <1>5

-----------------------------------------------------------------------------

LEMMA InvInit == Init => Inv
<1> SUFFICES ASSUME Init PROVE Inv
  OBVIOUS
<1> USE DEF Init, StoreInit, ArrivalInit
<1>1. openFor \in 0 .. Settle /\ heldFor \in {NotHeld} \cup 0 .. Settle
  BY SettleAssumption
<1>2. PolicyTypeOK /\ StateInv /\ RecoverInv
  BY <1>1 DEF PolicyTypeOK, StateInv, RecoverInv, DrivingStates, NormalStates
<1>3. LoopTypeOK /\ PoseInv
  BY <1>1 DEF LoopTypeOK, PoseInv
<1>4. DriveInv /\ TickInv /\ HeldInv /\ StoodInv
  BY DEF DriveInv, TickInv, HeldInv, StoodInv, Driven, EffectiveState, DRIVING_STATES, Following
<1> QED
  BY <1>2, <1>3, <1>4 DEF Inv

\* Of all steps from a state without an error only the loop's word declares an arrival.
LEMMA InvStep == ASSUME Inv, [Next]_vars PROVE Inv' /\ (NoArrival \/ TickTell)
<1>1. CASE Control \/ Position \/ PolicyStep
  BY <1>1, ControlStep, PositionStep, RecoveryStep
<1>2. CASE Loop
  BY <1>2, TickPlanStep, TickStaleStep, TickIdleStep, TickDriveStep, TickSetStateStep, TickTellStep DEF Loop
<1>3. CASE Elapse
  BY <1>3, ElapseStep
<1>4. CASE (\E l \in Links : NetworkStep(l)) \/ Shutdown \/ StopPosition \/ UNCHANGED vars
  BY <1>4, NetworkAndEndStep
<1> QED
  BY <1>1, <1>2, <1>3, <1>4 DEF Next

\* The branches of driving_worker.py for a planning without a mission and a drive without a
\* route are never reached (behavior/driving_worker.py:109-118): a trip has its mission from
\* the command to its end, and its stop and, as long as the loop runs, its route from the
\* planning on, across error stops and for a tick that is late.
THEOREM DrivesAreEquipped == Spec => []DriveInv
<1>1. Inv => DriveInv
  BY DEF Inv
<1> QED
  BY <1>1, InvInit, InvStep, PTL DEF Spec

\* An arrival is declared only of a mission that a tick has found standing at its stop, and
\* unless an error stop came after that tick or the mission was stranded, it is the tick that
\* declares it (arrival_checker.py:69-108, driving_worker.py:177-181, command_policy.py:118).
THEOREM ArrivalsAreSettled == Spec => ArrivalIsSettled
<1>1. ASSUME Inv, [Next]_vars
      PROVE  [drivingState \notin {"ARRIVED", "ERROR"} /\ drivingState' = "ARRIVED" =>
                 mission # NoMission /\ (stood # "no" \/ stranded)]_vars
  BY <1>1, InvStep, TickTellStep DEF NoArrival
<1> QED
  BY <1>1, InvInit, InvStep, PTL DEF Spec, ArrivalIsSettled

-----------------------------------------------------------------------------
(* The clients, and the estimator.                                         *)

ConnectionIsDone(l) == request[l] = "done" /\ ~late[l] => line[l] \notin {"alive", "dead"}

LEMMA LinkInvInit == Init => LinkInv
BY DEF Init, LinksInit, LinkInv, Open, Links

\* What the thread of one client does leaves the other alone.
LEMMA LinkInvOperation ==
    ASSUME LinkInv, NEW l \in Links,
           \/ ConnectionOpens(l) \/ OpeningFails(l) \/ Subscribed(l) \/ MessageArrives(l)
           \/ Loss(l) \/ WaitOver(l) \/ Stop(l) \/ RequestShutdown(l) \/ Breaks(l)
    PROVE  LinkInv'
<1>1. CASE ConnectionOpens(l)
  BY <1>1 DEF LinkInv, ConnectionOpens, GoTo, LineIs, Open
<1>2. CASE OpeningFails(l)
  BY <1>2 DEF LinkInv, OpeningFails, GoTo, AfterLoss, Open
<1>3. CASE Subscribed(l) \/ MessageArrives(l)
  BY <1>3 DEF LinkInv, Subscribed, MessageArrives, NextRecv, GoTo, LineIs, LeavesLoop, Open
<1>4. CASE Loss(l)
  BY <1>4 DEF LinkInv, Loss, GoTo, LineIs, AfterLoss, Open
<1>5. CASE WaitOver(l)
  BY <1>5 DEF LinkInv, WaitOver, GoTo, Open
<1>6. CASE Stop(l)
  BY <1>6 DEF LinkInv, Stop, Open
<1>7. CASE RequestShutdown(l)
  BY <1>7 DEF LinkInv, RequestShutdown, LineIs, Open
<1>8. CASE Breaks(l)
  BY <1>8 DEF LinkInv, Breaks, LineIs, Open
<1> QED
  BY <1>1, <1>2, <1>3, <1>4, <1>5, <1>6, <1>7, <1>8

LEMMA LinkInvStep == LinkInv /\ [Next]_vars => LinkInv'
<1> SUFFICES ASSUME LinkInv, [Next]_vars PROVE LinkInv'
  OBVIOUS
<1>1. CASE UNCHANGED linkVars
  BY <1>1 DEF linkVars, LinkInv, Open
<1>2. CASE Control
  <2>1. ConnectionOpens("control") \/ MessageArrives("control") \/ Loss("control")
    BY <1>2 DEF Control, ControlConnects, ControlMessage, ControlLoss
  <2> QED
    BY <2>1, LinkInvOperation DEF Links
<1>3. CASE Position
  <2>1. \/ ConnectionOpens("position") \/ Subscribed("position")
        \/ MessageArrives("position") \/ Loss("position") \/ UNCHANGED linkVars
    BY <1>3 DEF Position, PositionConnects, NotFound, PositionLoss, PoseTimeout, PositionMessage
  <2> QED
    BY <1>1, <2>1, LinkInvOperation DEF Links
<1>4. CASE PolicyStep \/ Loop \/ Elapse
  <2>1. UNCHANGED linkVars
    BY <1>4 DEF PolicyStep, Loop, TickPlan, TickStale, TickIdle, TickDrive, TickSetState, TickTell, Elapse
  <2> QED
    BY <1>1, <2>1
<1>5. CASE \E l \in Links : NetworkStep(l)
  BY <1>5, LinkInvOperation DEF NetworkStep
<1>6. CASE Shutdown \/ StopPosition
  BY <1>6, LinkInvOperation DEF Shutdown, StopPosition, Links
<1> QED
  BY <1>1, <1>2, <1>3, <1>4, <1>5, <1>6 DEF Next, vars

\* A client whose requested shutdown has been run holds no connection it could receive from,
\* unless one was being opened at that moment (control_client.py:76-92,
\* localization_client.py): what a thread does after it is asked to stop never brings one back.
THEOREM StopClosesConnections == Spec => [](\A l \in Links : ConnectionIsDone(l))
<1>1. LinkInv => \A l \in Links : ConnectionIsDone(l)
  BY DEF LinkInv, ConnectionIsDone
<1> QED
  BY <1>1, LinkInvInit, LinkInvStep, PTL DEF Spec

\* The window of the average as long as the count of positions says.
LEMMA EstimatorStep == ASSUME EstimatorInv, [Next]_vars PROVE EstimatorInv'
<1> Window \in Nat /\ Window >= 2
  BY WindowAssumption
<1> <<>> \in Seq(Speeds) /\ Len(<<>>) = 0
  OBVIOUS
<1>1. CASE UNCHANGED <<estimatorVars, fixes>>
  BY <1>1 DEF estimatorVars, EstimatorInv, SpeedSinceLoss
<1>2. CASE ResetSpeed /\ fixes' = 0
  BY <1>2 DEF ResetSpeed, EstimatorInv, SpeedSinceLoss
<1>3. ASSUME NEW speed \in Speeds, NEW long \in BOOLEAN, UpdateSpeed(speed, long),
             fixes' = IF hasPrev /\ long THEN 1 ELSE IF fixes < Window THEN fixes + 1 ELSE fixes
      PROVE  EstimatorInv'
  <2>1. /\ samples \in Seq(Speeds) /\ fixes \in 0 .. Window /\ (hasPrev <=> fixes > 0)
        /\ Len(samples) = IF fixes = 0 THEN 0 ELSE fixes - 1
    BY DEF EstimatorInv, SpeedSinceLoss
  <2>2. hasPrev' = TRUE
    BY <1>3 DEF UpdateSpeed
  <2>3. CASE ~hasPrev
    <3>1. samples' = samples /\ fixes' = 1
      BY <1>3, <2>1, <2>3 DEF UpdateSpeed
    <3> QED
      BY <2>1, <2>2, <2>3, <3>1 DEF EstimatorInv, SpeedSinceLoss
  <2>4. CASE hasPrev /\ long
    <3>1. samples' = <<>> /\ fixes' = 1
      BY <1>3, <2>4 DEF UpdateSpeed
    <3> QED
      BY <2>2, <3>1 DEF EstimatorInv, SpeedSinceLoss
  <2>5. CASE hasPrev /\ ~long /\ Len(samples) = Window - 1
    <3>1. samples' = Append(Tail(samples), speed) /\ fixes = Window /\ fixes' = Window
      BY <1>3, <2>1, <2>5 DEF UpdateSpeed
    <3>2. Tail(samples) \in Seq(Speeds) /\ Len(Tail(samples)) = Window - 2
      BY <2>1, <2>5
    <3>3. samples' \in Seq(Speeds) /\ Len(samples') = Window - 1
      BY <3>1, <3>2
    <3> QED
      BY <2>2, <3>1, <3>3 DEF EstimatorInv, SpeedSinceLoss
  <2>6. CASE hasPrev /\ ~long /\ Len(samples) # Window - 1
    <3>1. samples' = Append(samples, speed) /\ fixes' = fixes + 1 /\ fixes' \in 0 .. Window
      BY <1>3, <2>1, <2>6 DEF UpdateSpeed
    <3>2. samples' \in Seq(Speeds) /\ Len(samples') = fixes
      BY <2>1, <2>6, <3>1
    <3> QED
      BY <2>1, <2>2, <3>1, <3>2 DEF EstimatorInv, SpeedSinceLoss
  <2> QED
    BY <2>3, <2>4, <2>5, <2>6
<1>4. CASE \/ Control \/ PolicyStep \/ Loop \/ Elapse \/ Shutdown \/ StopPosition
           \/ \E l \in Links : NetworkStep(l)
  <2>1. UNCHANGED <<estimatorVars, fixes>>
    BY <1>4 DEF Control, ControlConnects, ControlMessage, ControlLoss, PolicyStep, Loop, TickPlan, TickStale,
                TickIdle, TickDrive, TickSetState, TickTell, Elapse, Shutdown, StopPosition, NetworkStep,
                tripVars, historyVars
  <2> QED
    BY <1>1, <2>1
<1>5. CASE Position
  <2>1. CASE PositionConnects \/ NotFound
    BY <1>1, <2>1 DEF PositionConnects, NotFound, tripVars, historyVars
  <2>2. CASE PositionLoss \/ PoseTimeout
    BY <1>1, <1>2, <2>2 DEF PositionLoss, PoseTimeout, DeclareLost
  <2>3. ASSUME NEW p \in Places, NEW speed \in Speeds, NEW long \in BOOLEAN, PositionMessage(p, speed, long)
        PROVE  EstimatorInv'
    BY <1>3, <2>3 DEF PositionMessage
  <2> QED
    BY <1>5, <2>1, <2>2, <2>3 DEF Position
<1>6. CASE UNCHANGED vars
  BY <1>1, <1>6 DEF vars, tripVars, historyVars
<1> QED
  BY <1>4, <1>5, <1>6 DEF Next

\* The speed that shows that the vehicle stands is an average over the positions since it was
\* last lost, or had a gap, and over none from before (motion_estimator.py:24-64,
\* localization_service.py:178): a loss empties the window and forgets the last position.
THEOREM AverageIsRecent == Spec => []SpeedSinceLoss
<1>1. Init => EstimatorInv
  <2> SUFFICES ASSUME Init PROVE EstimatorInv
    OBVIOUS
  <2>1. hasPrev = FALSE /\ samples = <<>> /\ fixes = 0 /\ 0 \in 0 .. Window
    BY WindowAssumption DEF Init, ArrivalInit
  <2> QED
    BY <2>1 DEF EstimatorInv, SpeedSinceLoss
<1>2. EstimatorInv => SpeedSinceLoss
  BY DEF EstimatorInv
<1> QED
  BY <1>1, <1>2, EstimatorStep, PTL DEF Spec
=============================================================================
