--------------------------- MODULE MCLocalization ---------------------------
(***************************************************************************)
(* Bounds for checking Localization, see the configuration; and the motion *)
(* that dead reckoning and the estimated heading come from, which is       *)
(* checked as assumptions over short times and small numbers.              *)
(***************************************************************************)
EXTENDS Localization, Motion, SequencesExt

MCBias == -1
MCSpeedPoints == << <<2, 0>>, <<4, 2>>, <<10, 5>> >>

Moving == [wheel |-> -4, v |-> 3, heading |-> 350, way |-> 7, time |-> 4]

\* The network thread and the service's tick cut the time into calls as it happens: the wheel
\* and the speed that are reckoned do not depend on it, and follow what is commanded at their
\* rates; the way differs only by what the speed can change within a step.
ASSUME CutsMakeNoDifference ==
    \A m \in {AtRest, Moving}, throttle \in {0, 3, 10}, wheel \in {-5, 0, 7}, s, t \in 0 .. 9 :
        LET once  == Propagate(m, throttle, wheel, s + t)
            twice == Propagate(Propagate(m, throttle, wheel, s), throttle, wheel, t)
            Follows(old, new, target, rate) ==
                new = IF target - old \in -(rate * (s + t)) .. rate * (s + t) THEN target
                      ELSE IF target > old THEN old + rate * (s + t) ELSE old - rate * (s + t)
        IN  /\ Follows(m.wheel, once.wheel, wheel, ServoRate)
            /\ Follows(m.v, once.v, Speed(throttle), Accel)
            /\ once.wheel = twice.wheel /\ once.v = twice.v /\ once.time = twice.time
            /\ once.way - twice.way \in -(Accel * StepTime * StepTime) .. Accel * StepTime * StepTime

\* More throttle is never less speed, also between the measured points and beyond them.
ASSUME SpeedGrows == \A t \in 0 .. 12 : Speed(t) <= Speed(t + 1) /\ Speed(t) \in 0 .. 5

\* The budget in time bounds the way, whatever is commanded, and only a trusted pose renews it.
ASSUME BudgetBoundsWay ==
    \A m \in {AtRest, Moving}, throttle \in 0 .. 12, s, t \in 0 .. 6 :
        LET unseen == Propagate(Propagate(Anchor(m, 90), throttle, 0, s), 12, 3, t)
        IN  /\ unseen.way <= 5 * unseen.time
            /\ WithinBudget(unseen, 30, 6) <=> s + t <= 6

\* A heading is pulled the short way, and not past what it is pulled to.
ASSUME BlendIsShort ==
    \A a \in {0, 1, 90, 179, 180, 181, 359}, b \in {0, 1, 89, 179, 180, 270, 359}, p \in {0, 3, 45, 100} :
        LET c == Blend(a, b, p)
            Gap(x, y) == IF HeadingDiff(x, y) < 0 THEN -HeadingDiff(x, y) ELSE HeadingDiff(x, y)
        IN  /\ c \in 0 .. 359 /\ Gap(b, c) <= Gap(b, a) /\ Gap(a, c) <= Gap(a, b)
            /\ p = 100 => c = b

\* The estimate never leaves the arc that the markers and the courses seen so far are in, also
\* when that arc is across north; and the first pose after a loss is taken as it is.
Arc(from, width) == {(from + i) % 360 : i \in 0 .. width}
ASSUME EstimateStaysInArc ==
    \A from \in {300, 340, 10}, far \in [1 .. 3 -> BOOLEAN], ends \in [1 .. 3 -> {0, 60}] :
        LET Seen(i) == [marker |-> from + ends[i], course |-> (from + 60 - ends[i]) % 360, far |-> far[i]]
            Straight == [throttle |-> 10, wheel |-> -Bias]
            After(e, i) == Estimate(e, Seen(i), Straight, 3, 45, 3)
            first == After(<<>>, 1)
        IN  /\ first[1].heading = (from + ends[1]) % 360
            /\ \A i, j \in 1 .. 3 :
                  LET e == After(After(<<[first[1] EXCEPT !.wheel = -Bias]>>, i), j)
                  IN  e[1].heading \in Arc(from, 60)
=============================================================================
