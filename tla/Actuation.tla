----------------------------- MODULE Actuation -----------------------------
(***************************************************************************)
(* The numbers from the follower to the wheels: what lane_follower.py does *)
(* with an error, the limits of the supervisor, the three pairs of drivers *)
(* (hardware/mock_*, real_*, sim_driver.py), and the code of the boards    *)
(* below the real ones (hardware/vendor/).                                 *)
(*                                                                         *)
(* The drivers are functions from a state and a call to a state; a call is *)
(* a record [op, v].  Throttles are numbers up to Full.  Angles are whole  *)
(* degrees; the wheel's (right is positive) become the servo's with the    *)
(* ratio RatioNum / RatioDen, rounded down here and not rounded there.     *)
(***************************************************************************)
EXTENDS Integers, Sequences

CONSTANTS
    Full,                   \* throttle 1.0, also max_throttle, and the duty 0xFFFF
    Sign,                   \* motor_sign
    MaxWheel,               \* max_steering_deg
    Center, LeftMax, RightMax,      \* the servo as it is reported (vehicle.yaml)
    RatioNum, RatioDen,             \* wheel_angle_ratio
    HwCenter, HwLow, HwHigh         \* the servo as it is mounted (hardware.yaml)

\* load_vendor refuses to start without this; LEFT is the larger one.
VendorLoads == HwLow < HwHigh

ASSUME ActuationAssumption ==
    /\ {Full, RatioNum, RatioDen, MaxWheel} \subseteq Nat \ {0}
    /\ Sign \in {-1, 1}
    /\ {Center, LeftMax, RightMax, HwCenter, HwLow, HwHigh} \subseteq Int
    /\ LeftMax <= Center /\ Center <= RightMax
    /\ HwLow <= HwCenter /\ HwCenter <= HwHigh /\ VendorLoads

Clip(v, low, high) == IF v < low THEN low ELSE IF v > high THEN high ELSE v
Magnitude(v) == IF v < 0 THEN -v ELSE v

-----------------------------------------------------------------------------
(* The follower, and the supervisor.                                       *)

\* _pursue: an error to the left is steered against to the left, fully from lock on.
Pursue(err, lock) == -Clip((MaxWheel * err) \div lock, -MaxWheel, MaxWheel)

\* _rate_limit: on straight legs the wheel moves by at most a step between two ticks; after
\* a turn the first angle is taken as it is.  last is the angle before, if there is one.
RateLimit(last, wheel, step) ==
    IF step = 0 \/ last = <<>> THEN wheel ELSE Clip(wheel, last[1] - step, last[1] + step)

\* _slowdown_ratio, in percent: from 100 at distance from down to near at the stop.
SlowdownRatio(remaining, from, stop, near) ==
    IF remaining >= from THEN 100
    ELSE LET usable == IF from > stop THEN from - stop ELSE 1
         IN  near + ((100 - near) * Clip(remaining - stop, 0, usable)) \div usable

\* apply, when it is not blocked.
Applied(command) ==
    [throttle |-> Clip(command.throttle, 0, Full), wheel |-> Clip(command.wheel, -MaxWheel, MaxWheel)]

-----------------------------------------------------------------------------
(* The boards.                                                             *)

(***************************************************************************)
(* _set_raw_throttle: three channels are written one after another, and    *)
(* nothing keeps another thread's three from coming in between.            *)
(***************************************************************************)
Channels == {"pwm", "in1", "in2"}
RawWrites(t) ==
    << <<"pwm", Magnitude(t)>>, <<"in1", IF t > 0 THEN Full ELSE 0>>, <<"in2", IF t < 0 THEN Full ELSE 0>> >>
Write(board, w) == [board EXCEPT ![w[1]] = w[2]]
Written(board, ws) == Write(Write(Write(board, ws[1]), ws[2]), ws[3])
BoardOff == [c \in Channels |-> 0]

Forward(speed) == RawWrites(-Sign * Magnitude(speed))
StopWrites == RawWrites(0)

\* What the motor does: it turns when there is a pulse and the two inputs differ.
Turns(board) == board["pwm"] > 0 /\ board["in1"] # board["in2"]
Backwards(board) ==
    Turns(board) /\ IF Sign < 0 THEN board["in2"] > board["in1"] ELSE board["in1"] > board["in2"]

\* set_angle of the servo's board.
SetAngle(angle) == Clip(angle, HwLow, HwHigh)

-----------------------------------------------------------------------------
(* The drivers.                                                            *)

WheelToServo(wheel) == Clip(Center + ((wheel * RatioDen) \div RatioNum), LeftMax, RightMax)
ServoToWheel(servo) == ((servo - Center) * RatioNum) \div RatioDen

\* The trim of straight driving is added to what goes out, never to what is reported.
Trim == HwCenter - Center
Physical(servo) == SetAngle(servo + Trim)

\* There is no reverse: every motor driver refuses a negative throttle.
Refused(call) == call.op = "throttle" /\ call.v < 0

Capped(v) == IF v > Full THEN Full ELSE v

RealMotor(board, call) ==
    IF Refused(call) THEN board
    ELSE CASE call.op = "throttle"  -> Written(board, Forward(Capped(call.v)))
           [] call.op \in {"stop", "closeMotor"} -> Written(board, StopWrites)
           [] OTHER -> board

\* There is nothing to close: the wheels are put straight.
RealSteering(s, call) ==
    CASE call.op = "angle" -> [servo |-> WheelToServo(call.v), out |-> Physical(WheelToServo(call.v))]
      [] call.op \in {"center", "closeSteering"} -> [servo |-> Center, out |-> SetAngle(HwCenter)]
      [] OTHER -> s

MockMotor(m, call) ==
    IF Refused(call) THEN m
    ELSE CASE call.op = "throttle" ->
                 [m EXCEPT !.throttle = Capped(call.v), !.stopped = Capped(call.v) = 0]
           [] call.op = "stop"       -> [m EXCEPT !.throttle = 0, !.stopped = TRUE]
           [] call.op = "closeMotor" -> [m EXCEPT !.cleanedUp = TRUE]
           [] OTHER -> m

MockSteering(servo, call) ==
    CASE call.op = "angle"  -> WheelToServo(call.v)
      [] call.op = "center" -> Center
      [] OTHER -> servo

(***************************************************************************)
(* The simulated world is told the latest of both numbers with every call; *)
(* what is sent may not arrive.                                            *)
(***************************************************************************)
Told(link, world, arrives) == IF arrives THEN link ELSE world

SimMotor(link, call) ==
    IF Refused(call) THEN link
    ELSE CASE call.op = "throttle" -> [link EXCEPT !.throttle = Capped(call.v)]
           [] call.op \in {"stop", "closeMotor"} -> [link EXCEPT !.throttle = 0]
           [] OTHER -> link

SimSteering(s, call) ==
    CASE call.op = "angle"  -> [servo |-> WheelToServo(call.v), wheel |-> call.v]
      [] call.op = "center" -> [servo |-> Center, wheel |-> 0]
      [] OTHER -> s
=============================================================================
