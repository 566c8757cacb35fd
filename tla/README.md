# Verification of the autonomous RC taxi

TLA+ models of the vehicle program in `src/rc_car`, the TLC configurations that
check them, and TLAPS proofs about them. The control server, the position server
and the simulator are outside the vehicle; they appear only as environments.

## 1. The system

One process on the vehicle, several threads around one shared store, and a
vision process that hands over images' results through files.

| Component (under `src/rc_car`) | State | Operations | Talks to |
|---|---|---|---|
| State store, `core/state_store.py`, `models.py`, `enums.py` | immutable snapshot: driving state, state kept for recovery, service kind, mission, pose and its freshness | one locked replacement per method | everybody |
| Command policy, `network/command_policy.py` | the set of reasons of the error stop | `move`, `stop`, `resume`, connection lost/back, position lost/back, arrival; all under its RLock | store, supervisor, reports |
| Report manager, `network/report_manager.py` | time stamps of the outstanding complete and error reports | one-shot reports, 1 Hz resends | control client |
| Control client, `network/control_client.py` | asyncio thread, the current websocket | connect, receive, ping timeout, reconnect; `send_json` from any thread | policy (callbacks) |
| Safety supervisor, `safety/safety_supervisor.py` | emergency latch | `apply` (filter and output), `force_stop`, `latch_stop` | drivers |
| Driving worker, `behavior/driving_worker.py` | its tick | plan, drive, idle at 50 Hz | follower, arrival checker, supervisor, policy |
| Arrival checker, `navigation/arrival_checker.py` | latch, settling clock, stop of the mission | `start_mission`, `update`, `clear` | driving worker |
| Localization, `localization/*` | last validated pose, loss flag, dead-reckoning anchor and budget | validate and accept a message, tick, tunnel feed, declare loss | store, policy |
| Lane follower, `control/lane_follower.py` | FOLLOW, ARMED or TURNING, progress on the route | `compute`, `set_route`, `clear` | driving worker |
| Planner and turn table, `navigation/*`, `mapping/*` | none (built once) | shortest route, forced routes, matching, turn look-up | driving worker |
| Watchdog and guard, `safety/watchdog.py`, `tools/guard.py` | last tick of each worker; heartbeat file | latch on a stalled worker; stop from outside the process | supervisor, drivers |
| Runtime and worker base, `app/runtime.py`, `workers/periodic_worker.py`, `main.py` | threads, stop event | initialize, start, shutdown, error hook | everything |
| Perception, `perception/*`, `src/vision_runner` | newest result file | correction of the steering, marks that fire turns | driving worker |
| Hardware drivers, `hardware/*` | last output | throttle, stop, angle, clean-up | supervisor |
| Log queue, `core/safe_logging.py` | bounded queue | drop when full | - |

What is hard here: the control loop takes a snapshot at the start of a tick and
acts on it through several unlocked calls while three other threads run the
policy's handlers; reports and commands are lost with the connection and resent;
two reasons of an error stop come and go in any order, also during an arrival;
driver calls may raise in the middle of a handler; positions are judged outside the
lock that their acceptance and the loss are under, and synthetic positions carry
extrapolated time stamps. Turns are driven blind, and have to begin and end whatever the
camera and the positions say. The process may be stopped, frozen or killed between any two
steps of its start and its shutdown, with a motor that keeps its last output. `PROJECT.json`
lists these hazards at their lines.

What makes the components correct:

- *service*: a trip ends only with a confirmed arrival, pickup and carry alternate,
  an error stop halts a trip and, but for the recovery that strands it, never changes it,
  every trip that is not stranded ends;
- *error stop*: it always has a reason that can still be resolved; only the last
  resolved reason ends it, and for the state it began in;
- *reports*: complete is outstanding exactly at an arrival; also when it is resent, an error is
  sent only while a reason for it is unresolved or being recovered from, and a complete only at
  an arrival; what the telemetry says is what the policy goes by;
- *motor*: driven only on the route of the current mission, and off in the end
  whenever output is forbidden;
- *planning*: the course leads along the map from the vehicle to the stop, by a shortest way,
  and every call that the loader's checks let through is planned;
- *driving*: every turn of the course is turned at and nothing else is, every course comes to
  its end, and no picture out of place steers;
- *arrival*: declared only of a vehicle that was found standing at the stop of the mission under way;
- *process*: whoever fails, the motor does not stay driven, and an orderly end is one;
- *vision*: what steers or fires a turn comes from a recent picture, and corrects towards the lane;
- *localization*: what is fresh is recent, losses and recoveries alternate, a
  stand-in gives way to the true position, a loss ends.

## 2. Modules

| Module | Models |
|---|---|
| `StateStore` | the store's operations, as conjuncts of the callers' actions |
| `SafetySupervisor` | `apply` in two steps, `force_stop` and `latch_stop` that may raise |
| `ReportManager` | one-shot reports, resends, the connection they leave by |
| `CommandPolicy` | every handler of the policy |
| `VehicleControl` | composes the four with the threads that call them, and the server |
| `TaxiService` | abstract: what the vehicle promises the server; `VehicleControl` implements it |
| `RecoveryRace` | policy handlers call by call against the unlocked control loop |
| `Links`, `Arrival`, `Trip` | the threads of the two clients; arrival checker and speed estimate; both composed with the policy and the loop |
| `Localization` | validator, dead reckoner and service over two threads and time |
| `PositionFeed` | abstract: what `VehicleControl` assumes of the localization; `Localization` implements it |
| `Motion` | the reckoned motion: wheel, speed, blended heading, budget (operators) |
| `LaneFollower` | legs, turns, gates and stops, method by method |
| `Actuation` | from the follower's error to the wheels: limits, drivers, boards (operators) |
| `LaneMap`, `LaneRoute`, `MainTrack` | lane graph, loader's tests, matcher and resolver; routes by lane numbers, folding, turn keys; the vehicle's own map |
| `Navigation` | start of the vehicle on the map, planning, the search step by step |
| `Polyline` | operations on centrelines (operators) |
| `LaneVision`, `Vision` | the lane read from a picture and what is made of it; the vision process, its file, the perception worker and the watchdog |
| `Lifecycle` | process, threads, watchdog and guard from start to end |
| `VehicleControlProofs`, `RecoveryRaceProofs`, `LocalizationProofs`, `LaneFollowerProofs`, `NavigationProofs`, `TripProofs`, `LifecycleProofs`, `VisionProofs` | theorems about the module named, and about the operators it uses (`LocalizationProofs`: `Motion`; `LaneFollowerProofs`: `Actuation`; `NavigationProofs`: `LaneRoute`) |
| `MC...` | bounds and symmetry for TLC, and facts about operators |

A module of operators has no behaviour of its own. What it should compute is stated as named
`ASSUME`s that TLC evaluates over bounded inputs at the start of the run of the component that
uses it: `DriversAgree`, `StopAmidTick`, `SteeringChain`, `WorldCatchesUp` and `NoJerks` (about
`Actuation`) in `MCLaneFollower`; `CutsMakeNoDifference`, `SpeedGrows`, `BudgetBoundsWay`,
`BlendIsShort` and `EstimateStaysInArc` (`Motion`) in `MCLocalization`; `WalkIsSteady`,
`ProjectionIsNearest`, `TrimIsPart` and `WaypointsAreEven` (`Polyline`, on all axis-parallel
lines of up to four points of a 3 x 3 grid) in `MCNavigation`; `EveryPictureIsRead`
(`LaneVision`) in `MCVision`; `MirrorsAreCongruent` in `MainTrack`. The other `ASSUME`s are conditions
on the constants, in the module that declares them, which TLC evaluates for the values of its runs.

### How state and actions correspond to the code

Variables carry the names of the fields they stand for, with the field named in
the comment where they differ (`prevState` is `prev_state_for_recovery`,
`completeTs` is `_complete_ts`, `reasons` is `_reasons`). A destination is a model
value. The throttle is whether the motor is driven. A report is its kind and the
number of the arrival it tells of. `EffectiveState` is the state the vehicle is in
or was stopped in.

**`VehicleControl`.** Granularity:

- A handler of the policy is one step, because each runs under the policy's RLock, but for
  `_clear_reason`, whose last check of the state (`ClearChecks`) and recovery (`ClearRecovers`) are
  steps of their own under the lock (`clearing`): the control loop sets states without it, and one
  that is set in between makes the recovery fall back to WAITING (section 4). A mission that is
  left there is `stranded`, a history variable, until it is planned anew or stopped.
  A forced stop may raise, which ends the handler there (`stops = FALSE`).
- A tick of the control loop is up to five steps: the snapshot with all that is
  computed from it (`TickPlanRoute`, `TickPlanDeferred`, `TickDrive`, `TickIdle`), the
  state it sets (`TickWriteState`), the check and the output of `apply`
  (`TickApplyCheck`, `TickApplyWrite`), and the arrival (`TickArrived`, `TickNotArrived`).
  Any other thread may run between any two. Where the vehicle is, whether a lane
  matches and what the follower asks for are choices made with the snapshot.
- The report tick copies the time stamps (`ReadResends`) and later reads the state
  and sends (`SendResends`).
- The localization's update of the store, with the speed it sets right after, and its call of
  the policy are one step.
- The reports complete and error are kept in flight; accept and recovered, which nothing is
  asked of, are not.
- The connection is up, dead (broken, not yet noticed) or down. A break loses what
  is in flight in both directions.

`RecoveryRace` cuts all handlers at every call of the store, whose methods are its only
indivisible steps, and shows that an error keeps its reason and a service its mission there too.
The other handlers are one step here because a late tick changes nothing within them: at an arrival
none is left (`TickOnRoute`), and entering an error keeps whichever state was set last.

**`Trip`** looks at the other side of the handlers: what is between two awaits of a client's
thread is one step of `Links`, the callback it makes included, with opening that fails or times
out, the retry, a loss that is noticed late, and a stop from another thread that is a request to
the event loop. A message is a record of what is wrong with it, if anything. The vehicle's place
is three facts (`Arrival`), the settling clock and the window of the speed estimate count time
units. A tick of the control loop is up to three steps: the snapshot with what the follower and the
checker make of it (`TickPlan`, `TickStale`, `TickDrive`, `TickIdle`), the state it sets
(`TickSetState`), and its word to the policy that the vehicle has arrived (`TickTell`). The clients'
threads come in between, and between the steps of a recovery as in `VehicleControl`. Of the reports
and the motor only that module tells. The history says what the ticks of this mission found
(`stood`, `openFor`), and how many positions there were since the last loss (`fixes`).

**`Localization`** keeps time relative to now: the age of the last accepted pose, and for
every stamp of the position server its lag behind that server's clock. Of positions
it tells a true one from a ghost, a distorted one that is self-consistent but too far
from where dead reckoning puts the vehicle. The tunnel mode and the heading
estimator are on and the cube mode off, as in `config/control.yaml` and `network.yaml`.
Of `within_budget` the time is modelled; the distance ends no later in the model than
the time does. A message that fails a test of the validator changes nothing except
one that says that the marker was not found. `Motion` has the vehicle model alone: in its
curve the tangent is replaced by its slope for small angles, and of the place only the length
of the way is kept.

**`LaneFollower`.** A call of `compute` is a sequence of steps, one per method it goes through
(`pc`). Places are distances along the current leg; `pos` is the vehicle's, and the code sees
it with a jitter of up to `Noise`. Where a turn lands on the next leg, and whether a heading, a
course or a mark is seen, are choices. `fallback_at_lane_end` is on, as in the configuration.
Three things the code does that are easy to overlook are in it: once a mark has fired, the
end of the lane no longer starts the turn; `corner_exit_hold` ends the recentring window
early where lane-line following is off; and the arming distance is cut to the leg, which
makes the gate's own test before arming redundant. `Actuation` has the numbers: the pursuit, slow-down and rate
limit, the supervisor's limits, three pairs of drivers as functions from a state and a call to
a state, and the channels of the boards. The servo trim of 10 degrees makes the last seven
degrees on the right unreachable while the report still shows them; the mock's clean-up does not
stop its motor, and the real steering's centres.

**`Navigation`.** Distances are integers. A step of the search is one connector relaxed, one
entry taken from the heap, or one link followed back. Of equal entries either is taken, where the
code goes by the order of the file. `MainTrack` is `map/main_track_map.yaml`, in millimetres. A
planner without a match leaves the vehicle in PLANNING.

**`Lifecycle`.** Every step of `initialize`, `start` and `shutdown` at which an exception or a
signal may strike is a step; a tick may raise or hang; the process may be frozen, thawed and
killed. Time is abstracted to "older than the limit". **`Vision`** counts time in half seconds; a
picture is rows of line positions, read by the same operators that the properties use.

## 3. Runs

| Run | Bounds | Shows |
|---|---|---|
| `vehicle_safety` | 2 destinations (symmetric), 2 arrivals, 2 faults, 1 command in flight; about 748,000 states | type, error reasons, reports that are true when they leave, mission, motor, telemetry, faithful recovery, refinement of `TaxiService` |
| `vehicle_live` | 1 destination, 1 arrival, 2 faults; about 93,000 states | trips finish, errors are left, forbidden output ends with the motor off |
| `vehicle_control_lost` | 1 fault | finding: a late tick overwrites ERROR |
| `recovery_race` | 2 destinations, nothing else needs a bound | at the store's granularity ERROR keeps a reason, and no late tick revives an ended service |
| `recovery_loses_trip` | 1 destination | finding: a recovery falls back to WAITING and strands the mission |
| `localization` | timeout 3, budget 4, tick 1, margin 2, jump test 2, latency 2, one set-back of 2; about 100,000 states | freshness, stand-ins, refinement of `PositionFeed`, the end of a loss |
| `lane_follower` | 6 legs: two turns driven as one, a turn fired by a mark, a straight crossing, a last turn; jitter 1, two routes; about 22,000 states | turns as directed, stops only past the target, the camera where it may, every route ends |
| `navigation` | the own track with every start and call, and 168 small maps; about 85,000 states | shortest routes, courses that lead there, planning ends |
| `trip` | 1 destination, window 2, settling time 2; about 295,000 states | arrivals are of a vehicle that stood at its stop, the average speed bridges no loss, stopped clients end |
| `lifecycle` | control loop, watchdog and one more worker, 3 faults (signals, raising drivers, stuck ticks, freezes) and a kill; about 373,000 states | lost control and a lost process stop the motor, an orderly end is off |
| `lifecycle_shutdown` | 1 fault | finding: a shutdown during the start breaks off |
| `vision` | 3 pictures, freshness 1, stall limit 2, one set-back of the clock; about a million states | what is used is recent and corrects towards the lane |

Why the bounds are enough. In `vehicle_*` the interesting cases need one stale tick and one or
two events of other threads; two trips give a pickup followed by a carry and a route
and an arrival report of an earlier trip that could be mistaken for the current
one; two faults give both reasons of an error stop in either order, a loss during
an arrival, and a lost report after a reconnect. Two destinations tell the old route
from the new one. `MaxFaults` bounds losses, breaks, exceptions, stalls and
unasked commands together; `MaxArrivals` numbers the arrivals and bounds the moves.
In `localization` the order of the constants is that of the configuration
(margin < timeout < budget, period < timeout), in units in which each of the
comparisons comes out both ways; `Horizon` only makes large ages alike. In `lane_follower` the
connectors are one of every kind the code tells apart, the jitter is half of the hysteresis as the
assumption allows, and a second route finds whatever the first left behind. The small maps of
`navigation` have three lanes and four connectors that lead anywhere, one of them of either length:
ties, outdated entries, two ways to one lane and ways round to the start all occur; the loader
refuses the unsound ones. In `trip` the
settling time is longer than one tick, so that the clock can be interrupted, and the window holds more
than one distance, so that an old one could stay in it. Three faults in
`lifecycle` let the control loop, its hook and the watchdog fail one after the other, which
leaves the guard. The two limits of `vision` add up as they do in the configuration.

Deadlock is checked in `vehicle_*`, `recovery_*` and `localization`: the vehicle never stops for
good. The others may stop, and say `CHECK_DEADLOCK FALSE`: a follower whose routes are
driven, a planning that is done, a program that is shut down or has ended, a vehicle whose stop
is latched.

Fairness. `VehicleControl`: weak fairness of every periodic thread (the loop, the report
tick, the watchdog once the loop is dead), of a handler that is under way, of the client's reconnect and receive loops, of
the ping timeout and of the acceptance of poses; the server answers a complete and an
error and takes what is sent on a live connection. Strong fairness of three things the road
decides: again and again a lane matches when a plan is needed, a tick near the target asks
for a stop, and the arrival test holds when it is made. Nothing is assumed about
breaks, exceptions or unasked commands, which are bounded by `MaxFaults`, and
`MissionCompletes` exempts a latched stop, which only a restart clears, and a stranded mission.
`Localization`: time passes, the tick is taken, a validated pose is handled, and true
positions that the validator does not reject keep arriving.
`LaneFollower`: the loop calls on; strong fairness of the vehicle's moving when it is driven, and
of a call that is in time. `Navigation`: weak fairness of the search's steps, one loop without
waits. `Trip`: an attempt to connect ends (`open_timeout`), waits end, a loss is noticed
(`ping_timeout`, `close_timeout`), the event loop runs what it is asked, and a handler goes on; nothing about what the
network or the server does. `Lifecycle`: threads that can run are run, files age and the guard runs; a
thread that is stuck or a process that is frozen may stay so. `Vision` has safety properties only.

Each property has a mutant in `PROJECT.json`, a plausible slip in the definition it names
("A slip" in the modules), with which TLC finds the property violated.

Some properties name an exception, which is what the code really does and no more:

- `LostControlStops`, `GoneIsStopped`: a first tick that hangs is never reported by the watchdog,
  and a heartbeat that is absent or cut off while it was written tells the guard nothing (`Unseen`).
- `OrderlyEndIsOff`: a control loop whose join timed out may still write after the clean-up.
- `MissionIffInService`, `MovesOnlyForItsMission`, `TelemetryMatchesPolicy`, `MissionCompletes` and
  the phase "stranded" of `TaxiService`: a mission that a recovery left behind in WAITING (`stranded`).
- `ErrorHasReason`, `ReportsAreTrue`: the reason is gone while the recovery from it is under way.
- `ReportsAreTrue`: a complete that is resent is the copy of an arrival that the report tick read
  before it tested the state; that the two are of the same arrival is not tested by the code, and
  not promised.
- `ArrivalIsSettled`: an error stop between the tick that found the vehicle standing and its word to
  the policy makes the policy ignore the word. The checker has latched, so that after the recovery the
  next tick that drives declares the arrival, wherever the vehicle is by then. During
  an error stop the loop does not tell the checker what it sees, and the settling clock runs on. The
  first position after a loss or a gap has no speed. And a mission that was stranded, or the one that
  was accepted over it, may be taken for arrived by the latch or a late tick of the other.
- `StoppedLinksEnd`: a control client that was connecting when it was asked to stop receives until the
  server closes. Nothing is said of the three seconds of the join.
- `UsedVisionIsRecent`: a worker held up in its first tick is not looked at. The age is that of the
  publication, not of the exposure; a file left over from an earlier run passes until it is too old.

## 4. Findings

**A late tick overwrites ERROR** (`vehicle_control_lost`, `ControlLostStops`).
`PROJECT_OVERVIEW.md:114` and the comment at `command_policy.py:86` promise an immediate
stop that lasts until the server resumes. The control loop takes its snapshot, the
connection is lost and the policy sets ERROR, and the tick then sets FOLLOWING_ROUTE
(`driving_worker.py:120`) or APPROACHING_DESTINATION (`:168`). The vehicle drives on with the
loss unresolved, and the server's resume is ignored because the state is not ERROR.

**A recovery may strand a trip** (`recovery_loses_trip`, `MissionOnlyInService`).
`_clear_reason` looks at the state and recovers in two calls. If the late tick sets its state
between them, the kept state is dropped and `recover_previous_state` falls back to WAITING
with the mission still stored (`state_store.py:54-55`, `:63`). Nobody drives the mission on,
the telemetry reports a customer who was never picked up, and the next move is taken as
carrying that customer.

**A shutdown during the start breaks off** (`lifecycle_shutdown`, `ShutdownCompletes`).
The docstring at `runtime.py:325-326` promises one order for every way to end: motor, steering,
stop event, joins, connections, clean-up. `shutdown` joins every thread in `workers`
(`:333-334`), which is filled before the last forced stop of `initialize` and before `start` has
started any. When that stop raises, or a signal arrives while `start` runs, `Thread.join` raises
for a thread that was never started, and what comes after it is left out: the connections, the
drivers' clean-up and the removal of the heartbeat.

## 5. Proofs

The theorems hold for all values of the constants under the assumptions named with each module.

**Service core** (`DestinationsAssumption`, `NoMissionAssumption`, `MaxArrivalsAssumption`,
`BoundsAssumption`). `VehicleControlProofs` proves `TypeCorrect`. `TypeOK` is not inductive alone:
writing the pending state needs it to be a state, so `TypeInv` adds that a tick at "write" has one.
It is split into flags, names and counts, so that no leaf mixes Boolean-valued variables
with arithmetic.

The second part proves that `Inv` is inductive:

- `ServiceInv`: a state is kept exactly in ERROR (`PrevIffError`); ERROR has a reason; a recovery is
  under way only when none is left, and until it is over the control loop can have set none but
  a driving state (`LockInv`), so that what is stranded is always a trip under way; mission and
  effective state agree, but for a stranded one; without a mission the kind is never carry.
- `DriveInv`: what ties a tick's old snapshot to the present. `TickOnRoute` says that a
  vehicle that follows or approaches, and a tick that is about to set such a state or to
  drive, are on the route of the current mission, and that such a tick finds the vehicle in
  a driving state or stopped in one, unless the mission was stranded: a stop is accepted only at an arrival, and an arrival
  is reported only by the loop itself at the end of a tick. Without it a late output could
  move the vehicle after its trip has ended. `MovesOnlyForItsMission` needs it.
- `CompleteIffArrived`: which needs both.

From it `ErrorResolvable`, `MotorServesMission`, `CompleteMatchesArrival`, `MissionMatchesService`,
`TelemetryIsTrue` and, for the reports that leave, `ReportsTellTheState`. The third part shows that a
step of `VehicleControl` is, under the refinement mapping, a step of `TaxiService` or a stutter
(`Refinement`), and that ERROR is left as promised (`RecoveryIsFaithful`).

`RecoveryRaceProofs` proves `TypeCorrect`, `ErrorResolvable` and `LateTickServes` for the
granularity of the store. Its invariant says what a handler may rely on under a lock that the
control loop ignores: `LockInv`, ERROR is entered under the lock only, so a handler that
found another state still has another one; and `ServiceInv`, the mission outlives every tick
that is about to set a state, and no such tick is left at an arrival.

**Localization** (`TimesAssumption`). `FreshIsRecent` is not inductive: the age of a pose grows in
`Elapse`, and only the next tick takes its freshness away. `Inv` therefore counts with the time since
the last tick (`AgeInv`: an accepted pose is younger than the timeout plus that time, or it is being
fed and within the budget plus that time), bounds every lag by the set-backs of the server's clock so far
(`LagInv`), and says what is known while synthetic poses are fed (`FeedingInv`). From it
`LocalizationTypes`, `FreshPositions`, `TrueOnesGetIn` (for a margin longer than a validated pose waits
for the lock, `Margin > 1`; with a shorter one a stand-in could shut the true position out) and
`FeedIsImplemented`, that every step is one of `PositionFeed` or a stutter. Of the reckoned motion
it is proved that it never overshoots its command, that cutting a time in two changes
nothing (the two threads cut it where they like), and that a heading is turned the short way.

**Lane follower** (`RouteAssumption`, `DistancesAssumption`, `HysteresisAssumption`).
`LaneFollowerProofs` proves one invariant for every route, table of turns and jitter, and from it
`TypeCorrect`, `StopsOnlyPassed`, `SegCorrectsStraights`, `CrossesAtExit` and `DrivenAsDirected`. The strengthening says that a turn spans turns only (also fused ones, which is
what `DrivenAsDirected` needs), that the gate of a straight connector stands until the
vehicle is close to its exit, and that the closest approach seen is at most by the jitter better than where
the vehicle is, as long as it is not past the target: with the hysteresis at
least twice the jitter (`2 * Noise <= Hysteresis`) an approach cannot look like passing.

**Actuators** (`ActuationAssumption`; in `LaneFollowerProofs`). However the channel writes of several
threads interleave on the motor's board, the motor never turns backwards; the servo angle is
monotone in the reported one and the two agree up to the trim within the servo's ends; the reported
angle is in range; the rate limit neither overshoots nor exceeds its step.

**Route planning** (`SitesAssumption`: finitely many lanes, whose successors, lengths and places are
numbers of the map; that connectors lead to lanes is what the loader tests, and the proof takes it
from there). `ShortestWay` proves `ShortestRoute`: no way from the vehicle to the stop is shorter than
the one the search has found, on every map, and with the outdated heap entries that the code leaves in
place. `Inv` has the loop's invariant while it searches (`SearchInv`): connectors of settled lanes are
relaxed up to those still to be (`RelaxedInv`), lanes are settled in the order of their distance
(`OrderInv`), and the heap has the others, next to larger entries (`HeapInv`). What remains when the
search is over is `Closed`: every lane nearer than the stop is settled. `CourseLeadsThere` proves
`CourseLeads`: the pieces handed to the follower begin where the vehicle is, end at the stop, and each
lane is followed by one of its connectors and this by its lane, as long as the route was said to be; also
for the routes given by lane numbers. Its `RouteInv` says of every reached lane that its predecessor
was settled, and at the distance that makes up its own (`PrevInv`), and of the way traced so far that it
leads from there to the stop (`TraceInv`).

A sum over a sequence is a recursive function (`Total`), and what it computes does need an
induction, over the length. The induction theorems of the library cannot be instantiated, so it is done
by hand: a set of natural numbers that is not empty has a least element (`LeastNatural`, from the
library's theorem that strict inclusion of finite sets is well-founded), and the least length at which the claim failed
would have a predecessor. `UpTo` and `Recursion` derive the recursion equation in the same way.
`WaysAreSettled` is such an argument about all ways by their number of connectors.

**Trip** (`DestinationsAssumption`, `NoPlaceAssumption`, `WindowAssumption`, `SettleAssumption`).
`ArrivalsAreSettled` proves the action property `ArrivalIsSettled` over ticks that the other threads
cut into. What a tick has still to do is for a mission that is driven, or was until it was stranded
(`TickInv`). The checker's own clock (`heldFor`) is compared with the time the ticks found the vehicle
at its stop (`openFor`): `HeldInv` says that the former is never ahead, unless an error stop
intervened. Once the checker has latched, `StoodInv` knows the tick that found the vehicle standing:
it is still under way, or an error stop came right after it, or the mission was stranded. `RecoverInv`
tells what a recovery can strand. `DriveInv`, which it all needs, is a theorem of its own
(`DrivesAreEquipped`), for late ticks too: the tick's branches for a missing mission or
route are dead code. `StopClosesConnections` is what is safe about the clients' stop. `AverageIsRecent`
proves `SpeedSinceLoss`: the window of the speed estimate has exactly the distances between the
positions that came after the last loss or gap, as many as fit.

**Process** (`BoundsAssumption` of `Lifecycle`). `OrderlyEnd` proves `OrderlyEndIsOff` for every set
of workers: once the heartbeat is being removed the motor is off for good, but for a control loop that
was given up while it was stuck. It needs `JoinedInv`: from the joins on, a loop that was not given up
has ended, or never started. `LifecycleTypes` needs `MadeInv`.

**Vision** (`LimitsAssumption`, `GainsAssumption`, `LaneAssumption`, `PicturesAssumption`).
`VisionIsRecent` proves `UsedVisionIsRecent`. Nothing bounds the age of what the adapters keep, so `Inv`
bounds it by the time since the tick that stored it began (`SinceInv`), and this by the watchdog's
patience and its own period (`WatchInv`). The property also says that the correction is towards the
lane. `PicturesAreRead` is what that rests on: whichever lines of the lane and its neighbours are hidden,
the reading is exact, if there is one. `RowsAreRead` says so of one row, by how far apart lines are; the
rest is least squares. The sums of `ComputeSeg` are folds over a finite set, so equations between
them are shown for all subsets, taking out one point at a time (`SubsetInduction`, from the library's
theorem that strict inclusion of finite sets is well-founded; `SumIsOne`), and the divisor of the slope is
positive as soon as there are two rows (`Scatter`, `SpreadIsPositive`). `PicturesAssumption` names what has to
be seen: the vehicle's axis in the lane in every row, and the lane in the nearest row; without the
latter the code's offset is that of the nearest row it has.

Only model-checked: the liveness properties and `BlockedStops` (temporal logic with
fairness and ENABLED is outside what TLAPS proves), the `ASSUME`s about `Polyline`, and the
three runs that expect a violation. Every invariant and every action property of a passing
run is a theorem. Modules that are proved about declare no recursive operator.

## 6. Not modelled

- *Geometry over reals*: the projection inside matching (`Polyline` has it alone, on axis-parallel
  lines in whole units), the loader's tests of continuity and of headings, kerbs and shapes of
  blocks, the exact curve of the vehicle model, the values in the table of turns. `Polyline` tells a
  line's last piece by its points, so a line that takes its last piece twice is outside of it; none of
  the 96 centrelines of the vehicle's map does.
- *Image processing*: the detector network, colour masks and the bird's-eye extraction.
- *Localization*: tests of a message's fields and of its speed, the place of a synthetic pose,
  and the cube mode, which the configuration switches off.
- *Follower*: the legacy waypoint follower, off unless a debugging switch is set.
- *Loading*: unknown lane ids and files that do not parse end the program at its start; one step in
  `Lifecycle`. The assembly of the parts in `initialize` is one step too.
- *Telemetry*: its periodic sender and payload; the service state that is told is in `StateStore`.
- *Configuration and logging*: configuration is read once; the log queue drops records when it is
  full, by design, and nothing in the vehicle depends on a record.
- *Tools*: scripts that build maps, simulate or measure, outside the running vehicle. The guard, though
  it lies among them, is in `Lifecycle`.
- Calls of a driver after its clean-up, which only the abandoned worker of `OrderlyEndIsOff` could make.
- Where the models meet: `Trip`, `VehicleControl`, `Localization`, `LaneFollower`, `Navigation` and
  `Lifecycle` each have the neighbour's part as a choice; only the service core and the localization
  are joined by an abstract specification (`PositionFeed`). One run of them all is out of TLC's reach.

## 7. Plan

1. Core: `VehicleControl` with its parts, `RecoveryRace`. Modelled, checked, proved.
2. `Localization`, `PositionFeed`, `Motion`. Modelled, checked, proved up to liveness.
3. `LaneFollower`, `Actuation`. Modelled, checked, proved up to liveness.
4. `Navigation`, `Trip`, `Lifecycle`, `Vision`. Modelled, checked, proved up to liveness.
5. Left: the safety core of the liveness arguments (ranking functions that every step respects), and
   the operators of `Polyline` for every line.
