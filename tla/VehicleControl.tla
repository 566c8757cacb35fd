--------------------------- MODULE VehicleControl ---------------------------
(***************************************************************************)
(* The vehicle's service core with the threads that drive it:              *)
(*                                                                         *)
(*   control loop   behavior/driving_worker.py, 50 Hz, several steps a tick*)
(*   network thread network/control_client.py, runs the policy's handlers  *)
(*   localization   pose freshness, loss and recovery                      *)
(*   report tick    network/report_manager.py, 1 Hz                        *)
(*   watchdog       safety/watchdog.py                                     *)
(*                                                                         *)
(* A tick of the control loop acts on the snapshot it took first.  All it  *)
(* does to the shared state afterwards - the state it sets, the motor      *)
(* output, the arrival it reports - are steps of their own.  Only the last *)
(* takes the policy's lock, so the handlers of the other threads may run   *)
(* in between, and the state may be set in the middle of a recovery.  What *)
(* a tick only computes from the snapshot (matching, planning, following,  *)
(* the speed and position tests of the arrival) is chosen by \E when the   *)
(* snapshot is taken.  Locals of a tick that has ended are reset.          *)
(*                                                                         *)
(* The control server and the two networks are external.                   *)
(***************************************************************************)
EXTENDS CommandPolicy, Sequences

CONSTANTS
    NoRoute,    \* the follower holds no route
    MaxFaults,  \* bound on losses, failures and unsolicited commands
    MaxQueue    \* bound on the commands in flight to the vehicle

VARIABLES
    pc,         \* where the control loop is in its tick
    pending,    \* the state this tick is about to set, or "None"
    output,     \* the throttle this tick asks for, then the one apply settled on
    judge,      \* this tick ends with the arrival test
    route,      \* LaneFollower: destination of the route, or NoRoute
    arrived,    \* ArrivalChecker._arrived
    downlink,   \* commands in flight to the vehicle
    gps,        \* LocalizationService: no pose yet, receiving, or declared lost
    owes,       \* answers the server still has to give
    moves,      \* moves sent so far
    arrivals,   \* arrivals so far; numbers the complete reports
    faults      \* faults so far

workerVars == <<pc, pending, output, judge, route, arrived>>
envVars    == <<downlink, gps, owes, moves, faults>>
vars == <<storeVars, motorOn, latched, reportVars, tickVars, link, uplink, reasonVars,
          workerVars, envVars, arrivals>>

ASSUME BoundsAssumption ==
    /\ NoRoute \notin Destinations
    /\ MaxFaults \in Nat
    /\ MaxQueue \in Nat \ {0}

Commands == [command : {"move"}, dest : Destinations]
            \cup [command : {"stop", "resume"}, dest : {NoRoute}]

Answer(kind) == [command |-> kind, dest |-> NoRoute]

TypeOK ==
    /\ StoreTypeOK /\ SupervisorTypeOK /\ ReportTypeOK /\ PolicyTypeOK
    /\ pc \in {"idle", "write", "check", "output", "judge", "dead"}
    /\ pending \in {"None", "FOLLOWING_ROUTE", "APPROACHING_DESTINATION",
                    "PLANNING", "WAITING"}
    /\ output \in BOOLEAN
    /\ judge \in BOOLEAN
    /\ route \in Destinations \cup {NoRoute}
    /\ arrived \in BOOLEAN
    /\ downlink \in Seq(Commands) /\ Len(downlink) <= MaxQueue
    /\ gps \in {"none", "ok", "lost"}
    /\ owes \subseteq {"stop", "resume"}
    /\ moves \in 0 .. MaxArrivals
    /\ arrivals \in 0 .. MaxArrivals
    /\ faults \in 0 .. MaxFaults

Init ==
    /\ StoreInit /\ SupervisorInit /\ ReportInit /\ PolicyInit
    /\ pc = "idle" /\ pending = "None" /\ output = FALSE /\ judge = FALSE
    /\ route = NoRoute /\ arrived = FALSE
    /\ downlink = <<>> /\ gps = "none" /\ owes = {}
    /\ moves = 0 /\ arrivals = 0 /\ faults = 0

\* One more of the faults that MaxFaults bounds.
Fault == faults < MaxFaults /\ faults' = faults + 1

\* The outcome of a driver call: it works, or it raises, which is a fault.
Outcome(works) == IF works THEN UNCHANGED faults ELSE Fault

-----------------------------------------------------------------------------
(* The control loop.                                                       *)

\* The rest of a tick: which state it will set, what it will ask of the motor.
Continue(state, throttle, arrival) ==
    /\ pending' = state
    /\ pc' = IF state = "None" THEN "check" ELSE "write"
    /\ output' = throttle
    /\ judge' = arrival

\* A slip: the route of the previous mission is kept if it has not been dropped yet.
TickPlanKeepsRoute ==
    /\ pc = "idle" /\ drivingState = "PLANNING"
    /\ mission # NoMission /\ ~poseStale
    /\ route' = IF route = NoRoute THEN mission.dest ELSE route
    /\ arrived' = FALSE
    /\ Continue("FOLLOWING_ROUTE", FALSE, FALSE)
    /\ stranded' = FALSE
    /\ UNCHANGED <<storeVars, motorOn, latched, reportVars, tickVars, link, uplink,
                   reasons, clearing, envVars, arrivals>>

\* PLANNING, with a fresh pose that matches a lane: a route to the mission's
\* destination is set, and the arrival test starts anew.
TickPlanRoute ==
    /\ pc = "idle" /\ drivingState = "PLANNING"
    /\ mission # NoMission /\ ~poseStale
    /\ route' = mission.dest
    /\ arrived' = FALSE
    /\ Continue("FOLLOWING_ROUTE", FALSE, FALSE)
    /\ stranded' = FALSE
    /\ UNCHANGED <<storeVars, motorOn, latched, reportVars, tickVars, link, uplink,
                   reasons, clearing, envVars, arrivals>>

\* PLANNING otherwise: no usable pose or no lane match keeps the vehicle waiting
\* for the next tick; a missing mission, which is not expected, gives up.
TickPlanDeferred ==
    /\ pc = "idle" /\ drivingState = "PLANNING"
    /\ Continue(IF mission = NoMission THEN "WAITING" ELSE "None", FALSE, FALSE)
    /\ UNCHANGED <<storeVars, motorOn, latched, reportVars, tickVars, link, uplink,
                   reasonVars, route, arrived, envVars, arrivals>>

\* FOLLOWING_ROUTE or APPROACHING_DESTINATION.  Without a fresh pose the tick
\* only asks for a stop; otherwise the follower asks for throttle or not, and the
\* approach begins when near.  A driving state without a route plans again.
TickDrive(throttle, near) ==
    /\ pc = "idle" /\ drivingState \in {"FOLLOWING_ROUTE", "APPROACHING_DESTINATION"}
    /\ CASE poseStale -> Continue("None", FALSE, FALSE)
         [] ~poseStale /\ route = NoRoute -> Continue("PLANNING", FALSE, FALSE)
         [] OTHER -> Continue(IF near /\ drivingState = "FOLLOWING_ROUTE"
                              THEN "APPROACHING_DESTINATION" ELSE "None",
                              throttle, TRUE)
    /\ UNCHANGED <<storeVars, motorOn, latched, reportVars, tickVars, link, uplink,
                   reasonVars, route, arrived, envVars, arrivals>>

\* Any other state: a route whose mission is gone is dropped; stop.
TickIdle ==
    /\ pc = "idle" /\ drivingState \in {"WAITING", "ARRIVED", "ERROR"}
    /\ IF mission = NoMission
       THEN route' = NoRoute /\ arrived' = (arrived /\ route = NoRoute)
       ELSE UNCHANGED <<route, arrived>>
    /\ Continue("None", FALSE, FALSE)
    /\ UNCHANGED <<storeVars, motorOn, latched, reportVars, tickVars, link, uplink,
                   reasonVars, envVars, arrivals>>

\* The state decided on the snapshot is set, whatever the state is by now.  The
\* tick that asks for a new plan ends here.
TickWriteState ==
    /\ pc = "write"
    /\ SetDrivingState(pending)
    /\ pending' = "None"
    /\ pc' = IF pending = "PLANNING" THEN "idle" ELSE "check"
    /\ UNCHANGED <<serviceKind, mission, poseStale, motorOn, latched, reportVars,
                   tickVars, link, uplink, reasonVars, output, judge, route, arrived,
                   envVars, arrivals>>

TickApplyCheck ==
    /\ pc = "check"
    /\ output' = ApplyCheck(output)
    /\ pc' = "output"
    /\ UNCHANGED <<storeVars, motorOn, latched, reportVars, tickVars, link, uplink,
                   reasonVars, pending, judge, route, arrived, envVars, arrivals>>

TickApplyWrite ==
    /\ pc = "output"
    /\ ApplyWrite(output)
    /\ pc' = IF judge THEN "judge" ELSE "idle"
    /\ output' = (output /\ judge) /\ judge' = FALSE
    /\ UNCHANGED <<storeVars, latched, reportVars, tickVars, link, uplink, reasonVars,
                   pending, route, arrived, envVars, arrivals>>

\* The arrival test does not hold: it needs the output to be zero, and a place,
\* a heading and a speed or a settling time that are chosen here.
TickNotArrived ==
    /\ pc = "judge" /\ ~arrived
    /\ pc' = "idle" /\ output' = FALSE
    /\ UNCHANGED <<storeVars, motorOn, latched, reportVars, tickVars, link, uplink,
                   reasonVars, pending, judge, route, arrived, envVars, arrivals>>

\* The arrival test holds, or held before (it latches): the policy is told.
TickArrived(stops) ==
    /\ pc = "judge" /\ (arrived \/ ~output)
    /\ clearing = "free"
    /\ arrivals < MaxArrivals
    /\ arrived' = TRUE
    /\ arrivals' = IF drivingState \in DRIVING_STATES THEN arrivals + 1 ELSE arrivals
    /\ Outcome(stops) /\ (stops \/ drivingState \in DRIVING_STATES)
    /\ NotifyArrived(arrivals + 1, stops)
    /\ pc' = IF stops THEN "idle" ELSE "dead"
    /\ latched' = (latched \/ ~stops)
    /\ output' = FALSE
    /\ UNCHANGED <<poseStale, tickVars, link, pending, judge, route, downlink, gps,
                   owes, moves>>

\* An exception ends the worker's thread and latches the stop: a planner error
\* in PLANNING, or a driver call of apply that raises before or after the throttle
\* was written; the forced stop may fail too.
WorkerDies ==
    /\ \/ /\ pc = "idle" /\ drivingState = "PLANNING"
          /\ motorOn' \in {FALSE, motorOn}
       \/ /\ pc = "output"
          /\ motorOn' \in {FALSE, motorOn, output}
    /\ Fault
    /\ pc' = "dead"
    /\ latched' = TRUE
    /\ output' = FALSE /\ judge' = FALSE
    /\ UNCHANGED <<storeVars, reportVars, tickVars, link, uplink, reasonVars, pending,
                   route, arrived, downlink, gps, owes, moves, arrivals>>

-----------------------------------------------------------------------------
(* The policy's lock.  A handler runs only when no _clear_reason holds it.  *)

ClearChecks ==
    /\ CheckStillError
    /\ UNCHANGED <<serviceKind, mission, poseStale, motorOn, latched, reportVars, tickVars,
                   link, uplink, reasons, workerVars, envVars, arrivals>>

ClearRecovers ==
    /\ RecoverAfterCheck
    /\ UNCHANGED <<serviceKind, mission, poseStale, motorOn, latched, reportVars, tickVars,
                   link, uplink, reasons, workerVars, envVars, arrivals>>

-----------------------------------------------------------------------------
(* The network thread: connection events, then messages, one at a time.    *)

Connect ==
    /\ link = "down" /\ clearing = "free"
    /\ link' = "up"
    /\ OnControlConnected
    /\ UNCHANGED <<poseStale, latched, tickVars, workerVars, envVars, arrivals>>

ReceiveCommand ==
    /\ link = "up" /\ downlink # <<>> /\ clearing = "free"
    /\ downlink' = Tail(downlink)
    /\ LET c == Head(downlink) IN
         \/ c.command = "move" /\ OnMove(c.dest)
         \/ c.command = "stop" /\ OnStop
         \/ c.command = "resume" /\ OnResume
    /\ UNCHANGED <<poseStale, latched, tickVars, link, workerVars, gps, owes, moves,
                   faults, arrivals>>

\* The ping times out.  An exception of the handler is logged and swallowed.
DetectDisconnect(stops) ==
    /\ link = "dead" /\ clearing = "free"
    /\ link' = "down"
    /\ Outcome(stops) /\ (stops \/ drivingState # "ERROR")
    /\ OnControlDisconnected(stops)
    /\ UNCHANGED <<poseStale, latched, tickVars, workerVars, downlink, gps, owes, moves,
                   arrivals>>

-----------------------------------------------------------------------------
(* The localization, as far as the policy sees it.                         *)

\* A valid pose is accepted; the first one after a loss ends the loss.
AcceptPose ==
    /\ poseStale \/ gps = "none"
    /\ gps = "lost" => clearing = "free"
    /\ gps' = "ok"
    /\ UpdatePose
    /\ IF gps = "lost" THEN OnGpsRecovered ELSE UNCHANGED policyVars
    /\ UNCHANGED <<latched, tickVars, link, workerVars, downlink, owes, moves, faults,
                   arrivals>>

\* The server reports that it does not see the marker: stale, not yet lost.
MarkerNotFound ==
    /\ gps = "ok" /\ ~poseStale
    /\ Fault
    /\ MarkPoseStale
    /\ UNCHANGED <<policyVars, latched, tickVars, link, workerVars, downlink, gps, owes,
                   moves, arrivals>>

\* Nothing valid for too long, or the connection broke.  When the forced stop
\* raises, the caller is a worker that dies and latches, or a callback that
\* swallows the exception.
LoseGps(stops) ==
    /\ gps = "ok" /\ clearing = "free"
    /\ Fault
    /\ gps' = "lost"
    /\ MarkPoseStale
    /\ OnGpsLost(stops)
    /\ IF stops \/ drivingState = "ERROR"
       THEN UNCHANGED latched ELSE latched' \in {latched, TRUE}
    /\ UNCHANGED <<tickVars, link, workerVars, downlink, owes, moves, arrivals>>

-----------------------------------------------------------------------------
(* The report tick and the watchdog.                                       *)

ReadResends ==
    /\ ReportTickRead
    /\ UNCHANGED <<storeVars, motorOn, latched, reportVars, link, uplink, reasonVars,
                   workerVars, envVars, arrivals>>

SendResends ==
    /\ ReportTickSend(drivingState)
    /\ UNCHANGED <<storeVars, motorOn, latched, reportVars, link, reasonVars, workerVars,
                   envVars, arrivals>>

\* A dead control loop is noticed, again at every tick; a live one that is only
\* slow for too long is a fault.  The watchdog's own forced stop works here.
WatchdogLatch ==
    /\ IF pc = "dead" THEN UNCHANGED faults ELSE ~latched /\ Fault
    /\ LatchStop(TRUE)
    /\ UNCHANGED <<storeVars, reportVars, tickVars, link, uplink, reasonVars, workerVars,
                   downlink, gps, owes, moves, arrivals>>

-----------------------------------------------------------------------------
(* External: the control server and the connection.                        *)

\* The connection breaks; what was in flight is lost.
LinkBreaks ==
    /\ link = "up"
    /\ Fault
    /\ link' = "dead"
    /\ uplink' = {}
    /\ downlink' = <<>>
    /\ UNCHANGED <<storeVars, motorOn, latched, reportVars, tickVars, reasonVars,
                   workerVars, gps, owes, moves, arrivals>>

\* The server takes a report; complete asks for a stop, error for a resume.
DeliverReport(r) ==
    /\ link = "up" /\ r \in uplink
    /\ uplink' = uplink \ {r}
    /\ owes' = owes \cup {k \in {"stop"} : r.report = "complete"}
                    \cup {k \in {"resume"} : r.report = "error"}
    /\ UNCHANGED <<storeVars, motorOn, latched, reportVars, tickVars, link, reasonVars,
                   workerVars, downlink, gps, moves, faults, arrivals>>

SendCommand(c) ==
    /\ link = "up" /\ Len(downlink) < MaxQueue
    /\ downlink' = Append(downlink, c)
    /\ UNCHANGED <<storeVars, motorOn, latched, reportVars, tickVars, link, uplink,
                   reasonVars, workerVars, gps, arrivals>>

ServerMove(d) ==
    /\ moves < MaxArrivals
    /\ moves' = moves + 1
    /\ SendCommand([command |-> "move", dest |-> d])
    /\ UNCHANGED <<owes, faults>>

ServerAnswer(k) ==
    /\ k \in owes
    /\ owes' = owes \ {k}
    /\ SendCommand(Answer(k))
    /\ UNCHANGED <<moves, faults>>

\* An operator, or a server that has lost track, sends a stop or a resume.
ServerUnasked(k) ==
    /\ Fault
    /\ SendCommand(Answer(k))
    /\ UNCHANGED <<owes, moves>>

-----------------------------------------------------------------------------

ControlLoop ==
    \/ TickPlanRoute
    \/ TickPlanDeferred
    \/ \E throttle, near \in BOOLEAN : TickDrive(throttle, near)
    \/ TickIdle
    \/ TickWriteState
    \/ TickApplyCheck
    \/ TickApplyWrite
    \/ TickNotArrived
    \/ \E stops \in BOOLEAN : TickArrived(stops)
    \/ WorkerDies

Network ==
    \/ Connect
    \/ ReceiveCommand
    \/ \E stops \in BOOLEAN : DetectDisconnect(stops)

Localization ==
    \/ AcceptPose
    \/ MarkerNotFound
    \/ \E stops \in BOOLEAN : LoseGps(stops)

Server ==
    \/ \E r \in uplink : DeliverReport(r)
    \/ \E d \in Destinations : ServerMove(d)
    \/ \E k \in {"stop", "resume"} : ServerAnswer(k) \/ ServerUnasked(k)

Next ==
    \/ ControlLoop
    \/ ClearChecks
    \/ ClearRecovers
    \/ Network
    \/ Localization
    \/ ReadResends
    \/ SendResends
    \/ WatchdogLatch
    \/ LinkBreaks
    \/ Server

Spec == Init /\ [][Next]_vars

-----------------------------------------------------------------------------
(* Fairness.  The threads are periodic and neither network holds a message  *)
(* or refuses a reconnect for ever; the server answers what it is asked.    *)
(* The last three conjuncts are about the road: while it keeps ticking in a *)
(* driving state, the loop again and again finds a lane match, a stop       *)
(* command near the target, and a position the arrival test accepts.        *)

LoopStep ==
    \/ TickPlanRoute \/ TickPlanDeferred \/ TickIdle
    \/ \E throttle, near \in BOOLEAN : TickDrive(throttle, near)
    \/ TickWriteState \/ TickApplyCheck \/ TickApplyWrite
    \/ TickNotArrived \/ TickArrived(TRUE)

DeliverKind(kind) == \E r \in uplink : r.report = kind /\ DeliverReport(r)

Fairness ==
    /\ WF_vars(LoopStep)
    /\ WF_vars(ClearChecks) /\ WF_vars(ClearRecovers)
    /\ WF_vars(Connect) /\ WF_vars(ReceiveCommand) /\ WF_vars(DetectDisconnect(TRUE))
    /\ WF_vars(AcceptPose)
    /\ WF_vars(ReadResends) /\ WF_vars(SendResends)
    /\ WF_vars(pc = "dead" /\ WatchdogLatch)
    /\ WF_vars(DeliverKind("complete")) /\ WF_vars(DeliverKind("error"))
    /\ WF_vars(ServerAnswer("stop")) /\ WF_vars(ServerAnswer("resume"))
    /\ SF_vars(TickPlanRoute)
    /\ SF_vars(TickDrive(FALSE, TRUE))
    /\ SF_vars(TickArrived(TRUE))

FairSpec == Spec /\ Fairness

-----------------------------------------------------------------------------
(* Safety.                                                                 *)

\* An error stop can always still be resolved: the vehicle is never in ERROR
\* with an empty set of reasons, where no event would bring it back, unless the
\* recovery is under way (CommandPolicy._enter_error and _clear_reason, over all
\* their callers).
ErrorHasReason == clearing = "free" /\ drivingState = "ERROR" => reasons # {}

\* The complete report is outstanding exactly while the vehicle is at an arrival,
\* through any error stop there, and its time stamp is that arrival's own.  Only an
\* arrival whose forced stop raised, which kills the control loop, goes unreported.
CompleteIffArrived ==
    /\ completeTs # 0 => EffectiveState = "ARRIVED" /\ completeTs = arrivals
    /\ EffectiveState = "ARRIVED" /\ pc # "dead" => completeTs # 0

\* What leaves the vehicle is true when it leaves: an error is reported only while
\* some reason for it is unresolved (or the recovery from the last one under way),
\* a complete only at an arrival whose mission waits for its stop.  The report
\* tick's copies are older than the state it tests, so it is the state that keeps
\* them true; which of two arrivals such a copy was taken at is not tested.
ReportsAreTrue ==
    [][\A r \in uplink' \ uplink :
          /\ r.report = "error" => reasons' # {} \/ clearing # "free"
          /\ r.report = "complete" => drivingState' = "ARRIVED" /\ mission' # NoMission]_vars

\* A vehicle that drives or has arrived, or was stopped there, has the mission it
\* is on, of the kind the telemetry tells the server; and outside the service no
\* mission is left, but for the one that a recovery without a kept state stranded.
MissionIffInService ==
    /\ EffectiveState \in DRIVING_STATES \cup {"ARRIVED"} => mission # NoMission
    /\ mission # NoMission =>
          /\ mission.kind = serviceKind
          /\ EffectiveState \in DRIVING_STATES \cup {"ARRIVED"} \/ stranded

\* The motor is driven only for a mission and never at an arrival, and only while
\* that mission is driven, on a route to its own destination, unless a recovery has
\* stranded it: a tick that read an older snapshot cannot drive on the route of the
\* previous mission or away from the customer.
MovesOnlyForItsMission ==
    motorOn /\ pc # "dead" =>
        /\ mission # NoMission /\ EffectiveState # "ARRIVED"
        /\ stranded \/ (route = mission.dest /\ EffectiveState \in DRIVING_STATES)

\* The state the telemetry tells is the one the policy goes by: the server reads
\* "waiting" or "waiting to board" exactly when a move would be accepted, and
\* "moving" only while there is a mission that no error has stopped; of such a
\* mission it reads nothing else unless the mission is stranded.
TelemetryMatchesPolicy ==
    /\ ServiceState \in {"waiting", "waiting to board"} <=> drivingState = "WAITING"
    /\ ServiceState = "moving" => mission # NoMission /\ drivingState # "ERROR"
    /\ mission # NoMission /\ drivingState # "ERROR" => ServiceState = "moving" \/ stranded

\* ERROR is left only when every reason is resolved, and then for the state it
\* was entered from; the one other way out is a tick of the control loop that set
\* the state it had decided on before the error.
RecoveryReturns ==
    [][drivingState = "ERROR" /\ drivingState' # "ERROR" =>
          \/ reasons' = {} /\ drivingState' = prevState
          \/ pc = "write" /\ drivingState' = pending]_vars

\* What the vehicle does is what TaxiService allows: the refinement mapping reads
\* the phase off the state the vehicle is in or was stopped in.
Taxi == INSTANCE TaxiService WITH
    NoDestination <- NoRoute,
    phase <- CASE EffectiveState = "WAITING" -> IF mission = NoMission THEN "waiting" ELSE "stranded"
               [] EffectiveState = "ARRIVED" -> "arrived"
               [] OTHER -> "moving",
    destination <- IF mission = NoMission THEN NoRoute ELSE mission.dest,
    trip <- IF mission = NoMission THEN "None" ELSE mission.kind,
    boarded <- serviceKind = "CARRY" \/ (serviceKind = "PICKUP" /\ mission = NoMission),
    halted <- drivingState = "ERROR"

\* The threads, handlers, ticks and faults together implement the service of
\* TaxiService; a late tick may release a halt, or strand a trip and take it up
\* again, but never skips a phase.
ImplementsTaxiService == Taxi!TaxiSpec

\* What the documents promise of a lost control connection: the vehicle stops and
\* waits for the resume (it is in ERROR as long as the loss is unresolved).
ControlLostStops == "control_lost" \in reasons => drivingState = "ERROR"

-----------------------------------------------------------------------------
(* Liveness, under FairSpec.                                               *)

\* Every accepted move ends in an accepted stop, through lost connections, lost
\* positions and lost reports, unless the emergency latch has been set or a recovery
\* strands the mission.
MissionCompletes ==
    (mission # NoMission /\ ~latched) ~> (mission = NoMission \/ latched \/ stranded)

\* No error stop lasts for ever once connection and position are back.
ErrorIsLeft == (drivingState = "ERROR") ~> (drivingState # "ERROR")

\* If output stays forbidden, the motor ends up off and stays off, also when the
\* control loop died with the motor on.
BlockedStops == <>[]Blocked => <>[]~motorOn
=============================================================================
