-------------------------------- MODULE Trip --------------------------------
(***************************************************************************)
(* Trips over connections that break: the two clients, the part of the     *)
(* policy their callbacks and the server's commands reach, the control     *)
(* loop up to the decision that the vehicle has arrived, and the end of    *)
(* the program, which stops the clients.                                   *)
(*                                                                         *)
(* The reports and the motor are left out, see VehicleControl.  As there,   *)
(* a tick acts on a snapshot, and the threads of the clients come in       *)
(* between: before it sets a state, and before it tells the policy of an   *)
(* arrival.  A recovery is cut where the loop may set a state in the       *)
(* middle of it.                                                           *)
(***************************************************************************)
EXTENDS StateStore, Links, Arrival

CONSTANTS
    Places,         \* where the vehicle may be, see Arrival
    NoPlace,        \* no position yet: pose is None
    Speeds,         \* what two positions may show
    Messages,       \* what the server may send
    NoCommand       \* a message that is ignored

ASSUME NoPlaceAssumption == NoPlace \notin Places

VARIABLES
    place,      \* the pose
    reasons,    \* CommandPolicy._reasons
    clearing,   \* the next step of the _clear_reason that holds _lock, or "free"
    holder,     \* the client whose thread is in it, or "nobody"
    hasRoute,   \* the follower has a route
    running,    \* the workers run
    tick        \* what the control loop's tick is about to do: to set the state of a "plan" or
                \*   of an "approach", to "tell" the policy of an arrival; "idle" between ticks

VARIABLES       \* History.
    openFor,    \* how long ago a tick of this mission last found the vehicle not at its
                \*   stop, or driven; counted up to Settle, and an error stop, in which the
                \*   loop does not look, counts as that long
    stood,      \* "here": the last tick of this mission found the vehicle standing at its
                \*   stop; "interrupted": and an error stop came right after it; or "no"
    stranded,   \* a mission was left behind in WAITING, as in CommandPolicy
    fixes       \* positions taken since there was none, or a gap; counted up to Window

policyVars  == <<drivingState, prevState, serviceKind, mission, reasons, clearing, holder>>
historyVars == <<openFor, stood, stranded, fixes>>
tripVars == <<place, reasons, clearing, holder, hasRoute, running, tick, historyVars>>
vars == <<storeVars, linkVars, checkerVars, estimatorVars, tripVars>>

Init ==
    /\ StoreInit /\ LinksInit /\ ArrivalInit
    /\ place = NoPlace /\ reasons = {} /\ clearing = "free" /\ holder = "nobody"
    /\ hasRoute = FALSE /\ running = TRUE
    /\ tick = "idle"
    /\ openFor = 0 /\ stood = "no" /\ stranded = FALSE /\ fixes = 0

-----------------------------------------------------------------------------
(* The policy (network/command_policy.py), under its lock.                 *)

EnterError(reason) ==
    /\ clearing = "free"
    /\ reasons' = reasons \cup {reason}
    /\ SetDrivingState("ERROR")
    /\ openFor' = IF drivingState \in DRIVING_STATES THEN Settle ELSE openFor
    /\ stood' = IF stood = "here" THEN "interrupted" ELSE stood
    /\ UNCHANGED <<serviceKind, mission, clearing, holder, stranded>>

\* _clear_reason, called by the thread of client l, up to its last snapshot.
ClearReason(reason, l) ==
    /\ reasons' = reasons \ {reason}
    /\ IF reasons' = {} THEN clearing' = "check" /\ holder' = l ELSE UNCHANGED <<clearing, holder>>
    /\ UNCHANGED <<drivingState, prevState, serviceKind, mission, openFor, stood, stranded>>

CheckStillError ==
    /\ clearing = "check"
    /\ IF drivingState = "ERROR" THEN clearing' = "recover" /\ UNCHANGED holder
       ELSE clearing' = "free" /\ holder' = "nobody"
    /\ UNCHANGED <<drivingState, prevState, stranded>>

\* Without a kept state, because the loop has set one since, the store falls back to WAITING.
RecoverAfterCheck ==
    /\ clearing = "recover"
    /\ RecoverPreviousState
    /\ clearing' = "free" /\ holder' = "nobody"
    /\ stranded' = (stranded \/ (prevState = "None" /\ mission # NoMission))

\* parse_command: what cannot be read or is not for this version, is no command, or names no
\* place of the map is ignored.
ParseCommand(raw) ==
    IF /\ raw.readable /\ raw.majorFits /\ raw.isCommand
       /\ raw.command \in {"move", "stop", "resume"}
       /\ raw.command = "move" => raw.loc = "inside"
    THEN raw.command ELSE NoCommand

PolicyRests == UNCHANGED <<policyVars, openFor, stood, stranded>>

OnCommand(command) ==
    CASE command = "move" /\ drivingState = "WAITING" ->
            /\ \E dest \in Destinations : SetMission(dest, IF serviceKind = "PICKUP" THEN "CARRY" ELSE "PICKUP")
            /\ SetDrivingState("PLANNING")
            /\ stood' = "no"
            /\ UNCHANGED <<reasons, clearing, holder, openFor, stranded>>
      [] command = "stop" /\ drivingState = "ARRIVED" ->
            /\ ClearMission(IF serviceKind = "PICKUP" THEN "PICKUP" ELSE "None")
            /\ SetDrivingState("WAITING")
            /\ openFor' = 0 /\ stood' = "no" /\ stranded' = FALSE
            /\ UNCHANGED <<reasons, clearing, holder>>
      [] command = "resume" /\ drivingState = "ERROR" /\ "control_lost" \in reasons ->
            ClearReason("control_lost", "control")
      [] OTHER -> PolicyRests

PolicyStep ==
    /\ CheckStillError \/ RecoverAfterCheck
    /\ UNCHANGED <<serviceKind, mission, poseStale, linkVars, checkerVars, estimatorVars, place,
                   reasons, hasRoute, running, tick, openFor, stood, fixes>>

-----------------------------------------------------------------------------
(* The control connection.  A thread that is inside a handler does nothing *)
(* else, and one that calls a handler waits for the lock.                  *)

\* on_control_connected only sends reports.
ControlConnects ==
    /\ ConnectionOpens("control")
    /\ UNCHANGED <<storeVars, checkerVars, estimatorVars, tripVars>>

ControlMessage(raw) ==
    /\ MessageArrives("control") /\ clearing = "free"
    /\ OnCommand(ParseCommand(raw))
    /\ UNCHANGED <<poseStale, checkerVars, estimatorVars, place, hasRoute, running, tick,
                   fixes>>

ControlLoss ==
    /\ Loss("control") /\ holder # "control"
    /\ IF LossIsTold("control") THEN EnterError("control_lost") ELSE PolicyRests
    /\ UNCHANGED <<poseStale, checkerVars, estimatorVars, place, hasRoute, running, tick,
                   fixes>>

-----------------------------------------------------------------------------
(* The connection to the position server, and the localization.            *)

\* No on_connected is given to this client.
PositionConnects ==
    /\ ConnectionOpens("position") \/ Subscribed("position")
    /\ UNCHANGED <<storeVars, checkerVars, estimatorVars, tripVars>>

\* on_raw with a pose that is accepted; the first one after a loss is a recovery.
PositionMessage(p, speed, long) ==
    /\ MessageArrives("position") /\ holder # "position"
    /\ UpdatePose /\ place' = p
    /\ UpdateSpeed(speed, long)
    /\ fixes' = IF hasPrev /\ long THEN 1 ELSE IF fixes < Window THEN fixes + 1 ELSE fixes
    /\ IF "gps_lost" \in reasons THEN clearing = "free" /\ ClearReason("gps_lost", "position")
       ELSE PolicyRests
    /\ UNCHANGED <<checkerVars, hasRoute, running, tick>>

\* The marker was not found.
NotFound ==
    /\ MessageArrives("position") /\ holder # "position"
    /\ MarkPoseStale
    /\ UNCHANGED <<drivingState, prevState, serviceKind, mission, checkerVars, estimatorVars, tripVars>>

\* _declare_lost, unless the position is lost already or was never there.
DeclareLost ==
    IF place # NoPlace /\ "gps_lost" \notin reasons
    THEN MarkPoseStale /\ ResetSpeed /\ fixes' = 0 /\ EnterError("gps_lost")
    ELSE PolicyRests /\ UNCHANGED <<poseStale, estimatorVars, fixes>>

PositionLoss ==
    /\ Loss("position") /\ holder # "position"
    /\ IF LossIsTold("position") THEN DeclareLost
       ELSE PolicyRests /\ UNCHANGED <<poseStale, estimatorVars, fixes>>
    /\ UNCHANGED <<checkerVars, place, hasRoute, running, tick>>

\* The service's tick finds that no pose was accepted for too long.
PoseTimeout ==
    /\ running /\ place # NoPlace /\ "gps_lost" \notin reasons
    /\ DeclareLost
    /\ UNCHANGED <<linkVars, checkerVars, place, hasRoute, running, tick>>

-----------------------------------------------------------------------------
(* The control loop (behavior/driving_worker.py).  What a tick does to the *)
(* follower and the checker depends on its snapshot and is seen by nobody  *)
(* else, so it is part of the step that takes the snapshot.                *)

Begins == running /\ tick = "idle"
AfterTest(holds) == IF holds THEN "tell" ELSE "idle"

\* A tick of a drive found the vehicle at its stop, even at rest there, or did not.
Observe(atStop, atRest) ==
    /\ openFor' = IF atStop THEN openFor ELSE 0
    /\ stood' = IF stood = "interrupted" THEN stood ELSE IF atRest THEN "here" ELSE "no"

\* (A planning without a mission, and a drive without a route, which the code guards
\* against too, are not reached: a driving state has a mission, and the later ones a route.)
\* Without a fresh pose that matches a lane the tick changes nothing.
TickPlan ==
    /\ Begins /\ drivingState = "PLANNING" /\ ~poseStale
    /\ StartMission /\ hasRoute' = TRUE
    /\ tick' = "plan"
    /\ openFor' = 0 /\ stranded' = FALSE
    /\ UNCHANGED <<storeVars, linkVars, estimatorVars, place, reasons, clearing, holder, running,
                   stood, fixes>>

\* A slip: without a fresh pose the checker is not asked.
TickStaleOnlyStops ==
    /\ Begins /\ drivingState \in DRIVING_STATES \ {"PLANNING"} /\ poseStale
    /\ Observe(FALSE, FALSE)
    /\ UNCHANGED <<storeVars, linkVars, checkerVars, estimatorVars, place, reasons, clearing, holder,
                   hasRoute, running, tick, stranded, fixes>>
TickStale ==
    /\ Begins /\ drivingState \in DRIVING_STATES \ {"PLANNING"} /\ poseStale
    /\ IF place # NoPlace THEN UpdateChecker(place, SpeedShown, FALSE, TRUE) ELSE UNCHANGED checkerVars
    /\ Observe(FALSE, FALSE)
    /\ UNCHANGED <<storeVars, linkVars, estimatorVars, place, reasons, clearing, holder, hasRoute,
                   running, tick, stranded, fixes>>

\* The snapshot shows the vehicle at its stop and, as far as its positions and the time since it
\* was seen elsewhere let one tell, at rest.
StandsAtStop(throttle) ==
    /\ Gate(place, throttle, FALSE)
    /\ SpeedShown # "fast" \/ openFor >= Settle

\* The snapshot of a tick that drives, and what the checker makes of it and of the throttle that
\* is applied; near says that the approach begins.
TickDrive(throttle, near) ==
    /\ Begins /\ drivingState \in DRIVING_STATES \ {"PLANNING"} /\ ~poseStale /\ hasRoute
    /\ near => drivingState = "FOLLOWING_ROUTE"
    /\ UpdateChecker(place, SpeedShown, throttle, FALSE)
    /\ tick' = IF near THEN "approach" ELSE AfterTest(arrived')
    /\ Observe(Gate(place, throttle, FALSE), StandsAtStop(throttle))
    /\ UNCHANGED <<storeVars, linkVars, estimatorVars, place, reasons, clearing, holder, hasRoute,
                   running, stranded, fixes>>

\* The state decided on the snapshot is set, whatever the state is by now.
TickSetState ==
    /\ \/ tick = "plan" /\ SetDrivingState("FOLLOWING_ROUTE") /\ tick' = "idle"
       \/ tick = "approach" /\ SetDrivingState("APPROACHING_DESTINATION") /\ tick' = AfterTest(arrived)
    /\ UNCHANGED <<serviceKind, mission, poseStale, linkVars, checkerVars, estimatorVars, place,
                   reasons, clearing, holder, hasRoute, running, historyVars>>

\* notify_arrived: an arrival is ignored unless the vehicle is in a driving state by now.
TickTell ==
    /\ tick = "tell" /\ clearing = "free"
    /\ IF drivingState \in DRIVING_STATES THEN SetDrivingState("ARRIVED")
       ELSE UNCHANGED <<drivingState, prevState>>
    /\ tick' = "idle"
    /\ UNCHANGED <<serviceKind, mission, poseStale, linkVars, checkerVars, estimatorVars, place,
                   reasons, clearing, holder, hasRoute, running, historyVars>>

TickIdle ==
    /\ Begins /\ drivingState \notin DRIVING_STATES
    /\ IF mission = NoMission /\ hasRoute
       THEN hasRoute' = FALSE /\ ClearChecker
       ELSE UNCHANGED <<hasRoute, checkerVars>>
    /\ UNCHANGED <<storeVars, linkVars, estimatorVars, place, reasons, clearing, holder, running,
                   tick, historyVars>>

-----------------------------------------------------------------------------
(* Time, and the end of the program.                                       *)

\* The two clocks count while somebody may read them.
Elapse ==
    /\ running /\ hasStop /\ ~arrived
    /\ heldFor' = IF heldFor \in 0 .. Settle - 1 THEN heldFor + 1 ELSE heldFor
    /\ openFor' = IF openFor < Settle THEN openFor + 1 ELSE openFor
    /\ UNCHANGED <<storeVars, linkVars, hasStop, arrived, estimatorVars, place, reasons, clearing,
                   holder, hasRoute, running, tick, stood, stranded, fixes>>

\* shutdown: the workers have ended when the clients are stopped, the control client first, and
\* what the control loop kept is of no use any more.  The join of the client may time out.
Shutdown ==
    /\ Begins /\ Stop("control")
    /\ running' = FALSE
    /\ ClearChecker /\ hasRoute' = FALSE
    /\ openFor' = 0 /\ stood' = "no"
    /\ UNCHANGED <<storeVars, estimatorVars, place, reasons, clearing, holder, tick, stranded, fixes>>
StopPosition ==
    /\ stopping["control"] /\ Stop("position")
    /\ UNCHANGED <<storeVars, checkerVars, estimatorVars, tripVars>>

NetworkStep(l) ==
    /\ OpeningFails(l) \/ WaitOver(l) \/ (RequestShutdown(l) /\ holder # l) \/ Breaks(l)
    /\ UNCHANGED <<storeVars, checkerVars, estimatorVars, tripVars>>

Control == ControlConnects \/ (\E raw \in Messages : ControlMessage(raw)) \/ ControlLoss
Position ==
    \/ PositionConnects \/ NotFound \/ PositionLoss \/ PoseTimeout
    \/ \E p \in Places, speed \in Speeds, long \in BOOLEAN : PositionMessage(p, speed, long)
Loop ==
    \/ TickPlan \/ TickStale \/ TickIdle \/ TickSetState \/ TickTell
    \/ \E throttle, near \in BOOLEAN : TickDrive(throttle, near)

Next ==
    \/ Control \/ Position \/ PolicyStep \/ Loop
    \/ \E l \in Links : NetworkStep(l)
    \/ Elapse \/ Shutdown \/ StopPosition

Spec == Init /\ [][Next]_vars

\* What a thread has been woken for it does: an attempt to connect ends one way or the other
\* (open_timeout), a wait ends, a loss is noticed (ping_timeout, close_timeout), and what is
\* asked of the event loop is run.  A handler that holds the policy's lock goes on.
Woken(l) ==
    \/ NetworkStep(l) /\ phase[l] \in {"connect", "wait"} /\ phase'[l] # phase[l]
    \/ l = "control" /\ (ControlConnects \/ (ControlLoss /\ line[l] # "alive"))
    \/ l = "position" /\ (PositionConnects \/ (PositionLoss /\ line[l] # "alive"))
RunsRequest(l) == NetworkStep(l) /\ request'[l] # request[l]

FairSpec ==
    /\ Spec
    /\ \A l \in Links : WF_vars(Woken(l)) /\ WF_vars(RunsRequest(l))
    /\ WF_vars(PolicyStep)

-----------------------------------------------------------------------------
\* An arrival is declared only of a vehicle that a tick of this very mission has found standing
\* at its stop: on a fresh position there, not driven, and slow, or for the settling time not
\* seen elsewhere.  Unless an error stop came between that tick and its word to the policy,
\* it is the same tick that declares it: the checker latches, and after the recovery the
\* next tick that drives declares the arrival wherever the vehicle has got to.  The other
\* exceptions are a settling time with an error stop in it (openFor), a speed that was not
\* measured (SpeedSinceLoss), and a mission that was stranded or followed a stranded one.
ArrivalIsSettled ==
    [][drivingState \notin {"ARRIVED", "ERROR"} /\ drivingState' = "ARRIVED" =>
          mission # NoMission /\ (stood # "no" \/ stranded)]_vars

\* The speed that shows that the vehicle stands is the average over the distances between the
\* positions, as many as there were and fit in the window, since the position was last lost or
\* had a gap: none bridges a loss, and only the first position after it goes unmeasured.
SpeedSinceLoss ==
    /\ hasPrev <=> fixes > 0
    /\ Len(samples) = IF fixes = 0 THEN 0 ELSE fixes - 1

\* A client that is stopped ends, wherever its thread is.  (The exception: a control client
\* whose connection is being opened when its shutdown is requested receives from it for as
\* long as the server lets it.)
StoppedLinksEnd ==
    \A l \in Links : stopping[l] ~> phase[l] = "ended" \/ (l = "control" /\ late[l])
=============================================================================
