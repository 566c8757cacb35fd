-------------------------- MODULE SafetySupervisor --------------------------
(***************************************************************************)
(* The one place motor output passes through                               *)
(* (safety/safety_supervisor.py).  The throttle is abstracted to whether   *)
(* the motor is driven; the steering never decides a transition.           *)
(*                                                                         *)
(* force_stop is one indivisible step.  apply is not: it takes a snapshot, *)
(* decides, and only then writes to the motor, with no lock in between, so *)
(* it is the two operators ApplyCheck and ApplyWrite and anything may      *)
(* happen between them.                                                    *)
(***************************************************************************)
EXTENDS StateStore

VARIABLES
    motorOn,    \* the throttle last written to the driver is not zero
    latched     \* the emergency latch; nothing in the program releases it

SupervisorTypeOK == motorOn \in BOOLEAN /\ latched \in BOOLEAN

SupervisorInit == motorOn = FALSE /\ latched = FALSE

\* apply's reasons to replace any command by the stop command.
Blocked == latched \/ poseStale \/ drivingState \notin DRIVING_STATES

\* The output apply settles on for a command: throttle only if nothing blocks.
ApplyCheck(throttle) == throttle /\ ~Blocked

ApplyWrite(output) == motorOn' = output

\* force_stop stops the motor, then centres the steering, and lets exceptions of
\* the drivers through: stops is FALSE when one of the two calls raised, and the
\* motor may or may not have been stopped by then.
ForceStop(stops) == motorOn' \in {FALSE, motorOn /\ ~stops}

\* A slip: the latch is trusted to end what is driven already.
LatchStopOnlyLatches(stops) == latched' = TRUE /\ UNCHANGED motorOn

\* latch_stop sets the latch before it tries to stop the motor.
LatchStop(stops) == latched' = TRUE /\ ForceStop(stops)
=============================================================================
