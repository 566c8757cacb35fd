--------------------------- MODULE MCLaneFollower ---------------------------
(***************************************************************************)
(* A route with two turns driven as one, a turn with a mark, a straight    *)
(* connector and a last turn, in decimetres; see the configuration.  And   *)
(* the numbers its commands go through down to the wheels, which are       *)
(* checked as assumptions: those of the vehicle, in degrees and in tenths  *)
(* of the throttle.                                                        *)
(***************************************************************************)
EXTENDS LaneFollower, Actuation, FiniteSetsExt, SequencesExt

MCLength == <<4, 1, 4, 2, 4, 5>>
MCGap    == <<1, 1, 1, 4, 1, 1>>
MCKind   == <<"turn", "turn", "turn", "straight", "turn", "turn">>
MCArm    == <<2, 2, 2, 2, 2, 2>>
MCLead   == <<0, 0, 1, 0, 1, 0>>
MCOffset == <<0, 0, 2, 0, 0, 0>>
MCMin    == <<3, 1, 1, 0, 2, 0>>
MCMax    == <<4, 3, 3, 0, 2, 0>>
MCArc    == <<0, 0, 2, 0, 0, 0>>
MCVision == <<FALSE, TRUE, TRUE, FALSE, FALSE, FALSE>>
MCFuse   == <<TRUE, FALSE, TRUE, FALSE, TRUE, FALSE>>

-----------------------------------------------------------------------------
MCSign == -1

Calls ==
    [op : {"throttle"}, v : {-1, 0, 5, 12}] \cup [op : {"angle"}, v : {-40, 0, 20}]
        \cup [op : {"stop", "center", "closeMotor", "closeSteering"}, v : {0}]
CallSeqs == UNION {[1 .. n -> Calls] : n \in 1 .. 4}

RealMotorAfter(calls) == FoldLeft(RealMotor, BoardOff, calls)
MockMotorAfter(calls) == FoldLeft(MockMotor, [throttle |-> 0, stopped |-> TRUE, cleanedUp |-> FALSE], calls)
SimMotorAfter(calls)  == FoldLeft(SimMotor, [throttle |-> 0, wheel |-> 0], calls)
RealSteeringAfter(calls) == FoldLeft(RealSteering, [servo |-> Center, out |-> HwCenter], calls)
MockSteeringAfter(calls) == FoldLeft(MockSteering, Center, calls)
SimSteeringAfter(calls)  == FoldLeft(SimSteering, [servo |-> Center, wheel |-> 0], calls)

\* A motor is closed only after it was stopped, as the interface demands.
ClosedStopped(calls) ==
    \A i \in DOMAIN calls : calls[i].op = "closeMotor" => i > 1 /\ calls[i - 1].op = "stop"
\* Steering that is closed is not looked at any more.
SteeringOpen(calls) == \A i \in DOMAIN calls : calls[i].op # "closeSteering"

\* What is tested with the mock, or in the simulation, is what the vehicle does: after the
\* same calls the motor turns with all drivers or with none, never backwards, and all report
\* the same angle.
ASSUME DriversAgree ==
    \A calls \in CallSeqs :
        /\ ~Backwards(RealMotorAfter(calls))
        /\ ClosedStopped(calls) =>
              /\ Turns(RealMotorAfter(calls)) <=> ~MockMotorAfter(calls).stopped
              /\ MockMotorAfter(calls).throttle = SimMotorAfter(calls).throttle
              /\ RealMotorAfter(calls)["pwm"] = SimMotorAfter(calls).throttle
        /\ SteeringOpen(calls) =>
              {RealSteeringAfter(calls).servo, SimSteeringAfter(calls).servo} = {MockSteeringAfter(calls)}

\* Two threads write to the motor at once, a tick and a forced stop: whatever the order of
\* their writes to the three channels, the motor goes on, or stands; it does not turn back.
Shuffled(a, b, where) ==
    LET Before(i, s) == Cardinality({k \in 1 .. i : (k \in where) = s})
        At6(i) == IF i \in where THEN a[Before(i, TRUE)] ELSE b[Before(i, FALSE)]
        Board[i \in 0 .. 6] == IF i = 0 THEN Written(BoardOff, Forward(3)) ELSE Write(Board[i - 1], At6(i))
    IN  Board[6]
ASSUME StopAmidTick ==
    \A where \in kSubset(3, 1 .. 6) : ~Backwards(Shuffled(Forward(7), StopWrites, where))

\* Steering is monotone and straight is straight; what is reported stays in its range, and is
\* what goes out, but for the trim and the last seven degrees on the right, which the servo
\* cannot be turned to.
ASSUME SteeringChain ==
    LET wheels == -MaxWheel .. MaxWheel
        Servo(w) == WheelToServo(Applied([throttle |-> 0, wheel |-> w]).wheel)
    IN  /\ Physical(Servo(0)) = HwCenter /\ Servo(0) = Center
        /\ \A w \in wheels \ {MaxWheel} :
              Servo(w) <= Servo(w + 1) /\ Physical(Servo(w)) <= Physical(Servo(w + 1))
        /\ {w \in wheels : Physical(Servo(w)) # Servo(w) + Trim} = 27 .. 30
        /\ Physical(Servo(MaxWheel)) = RightMax + Trim - 7
        /\ \A w \in wheels : Servo(w) \in LeftMax .. RightMax /\ ServoToWheel(Servo(w)) \in {w - 1, w}

\* One call that arrives is enough for the simulated world to know both numbers, whatever was
\* lost before.
ASSUME WorldCatchesUp ==
    \A throttle \in {0, 5}, angle \in {-20, 0, 20}, lost \in BOOLEAN :
        LET off   == [throttle |-> 0, wheel |-> 0]
            first == SimMotor(off, [op |-> "throttle", v |-> throttle])
            both  == [first EXCEPT !.wheel = SimSteering([servo |-> Center, wheel |-> 0],
                                                         [op |-> "angle", v |-> angle]).wheel]
        IN  Told(both, Told(first, off, ~lost), TRUE) = [throttle |-> throttle, wheel |-> angle]

\* When another heading takes over, the wheel goes to its angle and no further, in steps that
\* add up; and the approach slows down to the ratio of the stop and not below.
ASSUME NoJerks ==
    /\ \A last \in -30 .. 30, err \in {-180, -20, 0, 10, 179}, n \in 0 .. 30 :
          LET target == Pursue(err, 30)
              Turned[k \in 0 .. n] == IF k = 0 THEN last ELSE RateLimit(<<Turned[k - 1]>>, target, 2)
          IN  /\ Abs(target - last) <= 2 * n => Turned[n] = target
              /\ Abs(target - last) > 2 * n => Abs(Turned[n] - last) = 2 * n
    /\ \A r \in 0 .. 50 :
          /\ SlowdownRatio(r, 40, 10, 75) \in 75 .. 100
          /\ SlowdownRatio(r, 40, 10, 75) <= SlowdownRatio(r + 1, 40, 10, 75)
          /\ r <= 10 => SlowdownRatio(r, 40, 10, 75) = 75
=============================================================================
