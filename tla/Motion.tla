------------------------------- MODULE Motion -------------------------------
(***************************************************************************)
(* The motion that is reckoned from the commands: the model of the vehicle *)
(* that the dead reckoner (localization/dead_reckoner.py) and the heading  *)
(* estimator (localization/heading_estimator.py) share, and what each      *)
(* makes of it.                                                            *)
(*                                                                         *)
(* Numbers are whole ones in small units.  The curve of the way for a      *)
(* wheel angle (v / wheelbase * tan) is its slope for small angles, and of *)
(* the place only the length of the way is kept.                           *)
(***************************************************************************)
EXTENDS Integers, Sequences, FiniteSetsExt

CONSTANTS
    StepTime,       \* _STEP_S, as a number of time units
    ServoRate,      \* of the wheel, per time unit
    Accel,          \* of the speed, per time unit
    Bias,           \* wheel_bias_deg
    SpeedPoints     \* speed_points: pairs of throttle and speed

ASSUME MotionAssumption ==
    /\ {StepTime, ServoRate, Accel} \subseteq Nat \ {0} /\ Bias \in Int
    /\ Len(SpeedPoints) > 0
    /\ \A i \in DOMAIN SpeedPoints : SpeedPoints[i] \in Nat \X Nat
    /\ \A i \in 2 .. Len(SpeedPoints) :
          SpeedPoints[i - 1][1] < SpeedPoints[i][1] /\ SpeedPoints[i - 1][2] <= SpeedPoints[i][2]

\* The speed a throttle leads to: none up to the first point, and the last one's beyond it.
Speed(throttle) ==
    LET at == {i \in 2 .. Len(SpeedPoints) : throttle <= SpeedPoints[i][1]}
        p  == SpeedPoints[Min(at) - 1]
        q  == SpeedPoints[Min(at)]
    IN  IF throttle <= SpeedPoints[1][1] THEN 0
        ELSE IF at = {} THEN SpeedPoints[Len(SpeedPoints)][2]
        ELSE p[2] + ((q[2] - p[2]) * (throttle - p[1])) \div (q[1] - p[1])

\* A wheel and a speed follow what they are told at a limited rate.
Toward(v, target, most) ==
    IF target > v + most THEN v + most ELSE IF target < v - most THEN v - most ELSE target

Curve(v, wheel) == v * (wheel + Bias)

\* A motion is [wheel, v, heading, way, time]; one step of the integration takes dt.
Integrate(m, throttle, wheel, dt) ==
    LET w == Toward(m.wheel, wheel, ServoRate * dt)
        v == Toward(m.v, Speed(throttle), Accel * dt)
    IN  [wheel |-> w, v |-> v, heading |-> m.heading - Curve(v, w) * dt,
         way |-> m.way + v * dt, time |-> m.time + dt]

\* propagate, over a time t: whole steps, and what is left of one.
Propagate(m, throttle, wheel, t) ==
    LET whole == t \div StepTime
        Steps[k \in 0 .. whole] ==
            IF k = 0 THEN m ELSE Integrate(Steps[k - 1], throttle, wheel, StepTime)
    IN  IF t <= 0 THEN m
        ELSE IF t % StepTime = 0 THEN Steps[whole]
        ELSE Integrate(Steps[whole], throttle, wheel, t % StepTime)

-----------------------------------------------------------------------------
(* The dead reckoner.                                                      *)

AtRest == [wheel |-> 0, v |-> 0, heading |-> 0, way |-> 0, time |-> 0]

\* A pose that is trusted: a new heading and a new budget, but the same wheel and speed.
Anchor(m, heading) == [m EXCEPT !.heading = heading, !.way = 0, !.time = 0]
WithinBudget(m, maxWay, maxTime) == m.way <= maxWay /\ m.time <= maxTime

-----------------------------------------------------------------------------
(* The heading estimator.                                                  *)

\* The difference of two headings, the short way round.
HeadingDiff(a, b) == ((a - b + 180) % 360) - 180

\* percent of the short way from one heading to the other.
Blend(current, target, percent) ==
    (current + (percent * HeadingDiff(target, current)) \div 100) % 360

(***************************************************************************)
(* update: e is its motion or nothing (<<>>), seen what a pose shows: the  *)
(* heading of the marker, and the course since the last place the course   *)
(* was taken from, if that is far enough away.                             *)
(***************************************************************************)
Estimate(e, seen, command, t, alphaCourse, alphaMarker) ==
    IF e = <<>> THEN <<[AtRest EXCEPT !.heading = seen.marker % 360]>>
    ELSE LET m == Propagate(e[1], command.throttle, command.wheel, t)
             h == m.heading % 360
         IN  <<[m EXCEPT !.heading =
                  IF seen.far THEN Blend(h, seen.course, alphaCourse)
                              ELSE Blend(h, seen.marker, alphaMarker)]>>
=============================================================================
