------------------------------ MODULE Arrival ------------------------------
(***************************************************************************)
(* What decides that the vehicle has arrived: the arrival checker          *)
(* (navigation/arrival_checker.py) and the speed that is estimated from    *)
(* the positions (localization/motion_estimator.py).                       *)
(*                                                                         *)
(* A place is a record of three facts: within is that it is in the radius  *)
(* of the stop, onLane that the lane it is matched to is the stop's, and   *)
(* aligned that the heading is the stop's, up to the limit.                *)
(***************************************************************************)
EXTENDS Integers, Sequences, Functions

CONSTANTS
    Settle,         \* settle_time_sec, as a number of time units
    MaxSpeed,       \* max_estimated_speed_mps
    Window          \* speed_average_window, a number of positions

VARIABLES
    hasStop,        \* _stop is not None
    heldFor,        \* how long ago _held_since was, or NotHeld
    arrived,        \* _arrived
    hasPrev,        \* MotionEstimator._prev is not None
    samples         \* MotionEstimator._samples

checkerVars   == <<hasStop, heldFor, arrived>>
estimatorVars == <<hasPrev, samples>>

ASSUME WindowAssumption == Window \in Nat /\ Window >= 2
ASSUME SettleAssumption == Settle \in Nat

NotHeld == -1

ArrivalInit ==
    /\ hasStop = FALSE /\ heldFor = NotHeld /\ arrived = FALSE
    /\ hasPrev = FALSE /\ samples = <<>>

StartMission  == hasStop' = TRUE /\ heldFor' = NotHeld /\ arrived' = FALSE
ClearChecker  == hasStop' = FALSE /\ heldFor' = NotHeld /\ arrived' = FALSE

Gate(place, throttle, stale) ==
    /\ ~stale /\ ~throttle
    /\ place.within /\ place.onLane /\ place.aligned

GateShuts == heldFor' = NotHeld /\ UNCHANGED <<hasStop, arrived>>

\* What speed_mps shows: it is 0, as of a vehicle that stands, when there is no sample.
SpeedShown ==
    IF samples = <<>> THEN "unmeasured"
    ELSE IF FoldFunction(+, 0, samples) <= MaxSpeed * Len(samples) THEN "slow" ELSE "fast"

GateHolds(speed) ==
    LET held == IF heldFor = NotHeld THEN 0 ELSE heldFor
    IN  /\ heldFor' = held
        /\ arrived' = (speed # "fast" \/ held >= Settle)
        /\ UNCHANGED hasStop

\* update: an arrival stays one until the next mission.
UpdateChecker(place, speed, throttle, stale) ==
    IF ~hasStop \/ arrived THEN UNCHANGED checkerVars
    ELSE IF Gate(place, throttle, stale) THEN GateHolds(speed) ELSE GateShuts

\* MotionEstimator.update with a pose that is speed away from the one before; long is that
\* the time between their stamps is longer than the limit.
UpdateSpeed(speed, long) ==
    /\ hasPrev' = TRUE
    /\ samples' = IF ~hasPrev THEN samples
                  ELSE IF long THEN <<>>
                  ELSE IF Len(samples) = Window - 1 THEN Append(Tail(samples), speed)
                  ELSE Append(samples, speed)

\* A slip: the last position is kept over a loss.
ResetSpeedKeepsPrev == samples' = <<>> /\ UNCHANGED hasPrev
ResetSpeed == hasPrev' = FALSE /\ samples' = <<>>
=============================================================================
