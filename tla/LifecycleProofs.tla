-------------------------- MODULE LifecycleProofs --------------------------
(***************************************************************************)
(* The shutdown of the vehicle's process leaves the motor off, for every   *)
(* set of workers and every number of faults.                              *)
(*                                                                         *)
(* What is true when the heartbeat file is removed rests on what was true  *)
(* when the threads had been joined: a control loop that has not ended is  *)
(* one the shutdown has ceased to wait for, or one that was never started. *)
(***************************************************************************)
EXTENDS Lifecycle, TLAPS

\* Threads are started only once runtime.workers has been set.
MadeInv ==
    /\ ~made => \A w \in Workers : st[w] = "new"
    /\ phase \in {"start", "wait", "join"} => made

\* From the joins on the control loop writes no more, unless it was given up.
JoinedInv ==
    phase \in {"cleanup", "clear", "exit"} =>
        "control" \in abandoned \/ st["control"] \in {"new", "dead", "done"}

Inv == TypeOK /\ MadeInv /\ JoinedInv /\ OrderlyEndIsOff

-----------------------------------------------------------------------------

LEMMA FaultFacts == ASSUME TypeOK, Fault PROVE faults' \in 0 .. MaxFaults
<1>1. MaxFaults \in Nat
  BY BoundsAssumption
<1> QED
  BY <1>1 DEF Fault, TypeOK

\* What a forced stop does, whether its drivers raise or not.
LEMMA ForceStopFacts ==
    ASSUME TypeOK, NEW ok \in BOOLEAN, ForceStop(ok)
    PROVE  /\ motorOn' \in BOOLEAN /\ (motorOn' => motorOn) /\ (ok => ~motorOn')
           /\ faults' \in 0 .. MaxFaults
<1>1. faults' = faults \/ Fault
  BY DEF ForceStop
<1>2. motorOn' = FALSE \/ (~ok /\ motorOn' = motorOn)
  BY DEF ForceStop
<1>3. motorOn \in BOOLEAN /\ faults \in 0 .. MaxFaults
  BY DEF TypeOK
<1>4. faults' \in 0 .. MaxFaults
  BY <1>1, <1>3, FaultFacts
<1>5. motorOn' \in BOOLEAN
  BY <1>2, <1>3
<1>6. motorOn' => motorOn
  BY <1>2
<1>7. ok => ~motorOn'
  BY <1>2
<1> QED
  BY <1>4, <1>5, <1>6, <1>7, Zenon

LEMMA NamedWorkers == {"control", "watchdog"} \subseteq Workers
BY DEF Workers

LEMMA InvInit == Init => Inv
<1> SUFFICES ASSUME Init PROVE Inv
  OBVIOUS
<1>1. MaxFaults \in Nat
  BY BoundsAssumption
<1>2. st \in [Workers -> {"new"}]
  BY DEF Init
<1>3. st \in [Workers -> {"new", "idle", "decided", "wrote", "write", "check", "raised", "dead", "done"}]
  BY <1>2
<1>4. phase \in Phases /\ faults \in 0 .. MaxFaults
  BY <1>1 DEF Init, Phases
<1>5. TypeOK
  BY <1>3, <1>4 DEF Init, TypeOK
<1>6. MadeInv /\ JoinedInv /\ OrderlyEndIsOff
  BY DEF Init, MadeInv, JoinedInv, OrderlyEndIsOff
<1> QED
  BY <1>5, <1>6 DEF Inv

-----------------------------------------------------------------------------
(* The steps that leave the threads alone.                                 *)

LEMMA MainStep ==
    ASSUME Inv, Main \/ WaitEnds \/ Signal \/ Kill
    PROVE  Inv'
<1> USE DEF Inv
<1>1. ASSUME NEW ok \in BOOLEAN, Initialize(ok) PROVE Inv'
  <2>1. TypeOK'
    BY <1>1, ForceStopFacts, FaultFacts DEF Initialize, TypeOK, Phases, workerVars
  <2>2. MadeInv' /\ JoinedInv' /\ OrderlyEndIsOff'
    BY <1>1 DEF Initialize, MadeInv, JoinedInv, OrderlyEndIsOff, workerVars
  <2> QED BY <2>1, <2>2
<1>2. ASSUME NEW ok \in BOOLEAN, ShutdownForce(ok) PROVE Inv'
  <2>1. TypeOK'
    BY <1>2, ForceStopFacts DEF ShutdownForce, TypeOK, Phases, workerVars
  <2>2. MadeInv' /\ JoinedInv' /\ OrderlyEndIsOff'
    BY <1>2 DEF ShutdownForce, MadeInv, JoinedInv, OrderlyEndIsOff, workerVars
  <2> QED BY <2>1, <2>2
<1>3. ASSUME NEW ok \in BOOLEAN, ShutdownCleanup(ok) PROVE Inv'
  <2>1. TypeOK'
    BY <1>3, ForceStopFacts DEF ShutdownCleanup, TypeOK, Phases, workerVars
  <2>2. MadeInv' /\ JoinedInv'
    BY <1>3 DEF ShutdownCleanup, MadeInv, JoinedInv, workerVars
  <2>3. OrderlyEndIsOff'
    BY <1>3, ForceStopFacts DEF ShutdownCleanup, OrderlyEndIsOff
  <2> QED BY <2>1, <2>2, <2>3
<1>4. ASSUME NEW w \in Workers, Start(w) PROVE Inv'
  <2>1. TypeOK'
    BY <1>4 DEF Start, TypeOK, Phases
  <2>2. MadeInv' /\ JoinedInv' /\ OrderlyEndIsOff'
    BY <1>4 DEF Start, MadeInv, JoinedInv, OrderlyEndIsOff
  <2> QED BY <2>1, <2>2
<1>5. CASE ShutdownEvent
  <2>1. TypeOK'
    BY <1>5 DEF ShutdownEvent, TypeOK, Phases, workerVars
  <2>2. MadeInv' /\ JoinedInv' /\ OrderlyEndIsOff'
    BY <1>5, NamedWorkers DEF ShutdownEvent, MadeInv, JoinedInv, OrderlyEndIsOff, workerVars
  <2> QED BY <2>1, <2>2
<1>6. CASE ShutdownJoin
  <2>1. abandoned' \subseteq Workers
    BY <1>6 DEF ShutdownJoin, TypeOK
  <2>2. TypeOK'
    BY <1>6, <2>1 DEF ShutdownJoin, TypeOK, Phases, workerVars
  <2>3. MadeInv' /\ OrderlyEndIsOff'
    BY <1>6 DEF ShutdownJoin, MadeInv, OrderlyEndIsOff, workerVars
  <2>4. "control" \in abandoned' \/ st["control"] \in {"new", "dead", "done"}
    BY <1>6, NamedWorkers DEF ShutdownJoin, Waited
  <2>5. JoinedInv'
    BY <1>6, <2>4 DEF ShutdownJoin, JoinedInv, workerVars
  <2> QED BY <2>2, <2>3, <2>5
<1>7. CASE ShutdownClear \/ Exit
  <2>1. TypeOK'
    BY <1>7 DEF ShutdownClear, Exit, TypeOK, Phases, workerVars
  <2>2. MadeInv' /\ JoinedInv' /\ OrderlyEndIsOff'
    BY <1>7 DEF ShutdownClear, Exit, MadeInv, JoinedInv, OrderlyEndIsOff, workerVars
  <2> QED BY <2>1, <2>2
<1>8. CASE WaitEnds \/ Kill
  <2>1. TypeOK'
    BY <1>8 DEF WaitEnds, Kill, TypeOK, Phases, workerVars
  <2>2. MadeInv' /\ JoinedInv' /\ OrderlyEndIsOff'
    BY <1>8 DEF WaitEnds, Kill, MadeInv, JoinedInv, OrderlyEndIsOff, workerVars
  <2> QED BY <2>1, <2>2
<1>9. CASE Signal
  <2>1. phase' \in {"force", "event", "broken"} /\ UNCHANGED <<made, abandoned, workerVars, motorOn>>
    BY <1>9 DEF Signal, Runs, Ended, TypeOK, Phases, InFinally
  <2>2. TypeOK'
    BY ZenonT(60), <1>9, <2>1, FaultFacts DEF Signal, TypeOK, Phases, workerVars
  <2>3. MadeInv' /\ JoinedInv' /\ OrderlyEndIsOff'
    BY <2>1 DEF MadeInv, JoinedInv, OrderlyEndIsOff, workerVars
  <2> QED BY <2>2, <2>3
<1> QED
  BY <1>1, <1>2, <1>3, <1>4, <1>5, <1>6, <1>7, <1>8, <1>9 DEF Main

LEMMA OutsideStep ==
    ASSUME Inv, Freeze \/ Thaw \/ Age \/ Guard
    PROVE  Inv'
<1> USE DEF Inv
<1>1. ASSUME NEW ok \in BOOLEAN, GuardFire(ok) PROVE Inv'
  <2>1. TypeOK'
    BY <1>1, ForceStopFacts DEF GuardFire, TypeOK, mainVars, workerVars
  <2>2. MadeInv' /\ JoinedInv'
    BY <1>1 DEF GuardFire, MadeInv, JoinedInv, mainVars, workerVars
  <2>3. OrderlyEndIsOff'
    BY <1>1, ForceStopFacts DEF GuardFire, OrderlyEndIsOff, mainVars
  <2> QED BY <2>1, <2>2, <2>3
<1>2. CASE GuardLook \/ Age \/ Thaw
  <2>1. TypeOK'
    BY <1>2 DEF GuardLook, Age, Thaw, TypeOK, mainVars, workerVars
  <2>2. MadeInv' /\ JoinedInv' /\ OrderlyEndIsOff'
    BY <1>2 DEF GuardLook, Age, Thaw, MadeInv, JoinedInv, OrderlyEndIsOff, mainVars, workerVars
  <2> QED BY <2>1, <2>2
<1>3. CASE Freeze
  <2>1. TypeOK'
    BY <1>3, FaultFacts DEF Freeze, TypeOK, mainVars, workerVars
  <2>2. MadeInv' /\ JoinedInv' /\ OrderlyEndIsOff'
    BY <1>3 DEF Freeze, MadeInv, JoinedInv, OrderlyEndIsOff, mainVars, workerVars
  <2> QED BY <2>1, <2>2
<1> QED
  BY <1>1, <1>2, <1>3 DEF Guard

-----------------------------------------------------------------------------
(* The steps of the threads.  They write to the motor only from "decided", *)
(* and a thread that has ended does not take part any more.                *)

Busy == {"idle", "decided", "wrote", "write", "check", "raised"}

\* A thread that runs was started, and goes on to a state that is not "new".
LEMMA ThreadStep ==
    ASSUME Inv, NEW w \in Workers, st[w] \in Busy,
           NEW next \in Busy \cup {"dead", "done"}, Goes(w, next), UNCHANGED mainVars,
           motorOn' => motorOn \/ (w = "control" /\ st[w] = "decided")
    PROVE  MadeInv' /\ JoinedInv' /\ OrderlyEndIsOff'
<1> USE DEF Inv
<1>1. st' \in [Workers -> {"new", "dead", "done"} \cup Busy] /\ made /\ \A v \in Workers \ {w} : st'[v] = st[v]
  BY DEF Goes, TypeOK, MadeInv, Busy
<1>2. MadeInv'
  BY <1>1 DEF MadeInv, mainVars
<1>3. JoinedInv'
  BY <1>1, NamedWorkers DEF JoinedInv, mainVars, Busy
<1>4. OrderlyEndIsOff'
  BY NamedWorkers DEF OrderlyEndIsOff, JoinedInv, mainVars, Busy
<1> QED
  BY <1>2, <1>3, <1>4

LEMMA WorkerStep ==
    ASSUME Inv, NEW w \in Workers, NEW ok \in BOOLEAN,
           \/ LeaveLoop(w)
           \/ OtherTick(w, ok)
           \/ OnWorkerError(w, ok)
    PROVE  Inv'
<1> USE DEF Inv
<1>1. CASE LeaveLoop(w)
  <2>1. TypeOK'
    BY <1>1 DEF LeaveLoop, Goes, TypeOK, mainVars
  <2>2. MadeInv' /\ JoinedInv' /\ OrderlyEndIsOff'
    BY <1>1, ThreadStep DEF LeaveLoop, Able, Busy
  <2> QED BY <2>1, <2>2
<1>2. CASE OtherTick(w, ok)
  <2>1. TypeOK'
    BY <1>2, FaultFacts DEF OtherTick, Ticks, Goes, TypeOK, mainVars
  <2>2. MadeInv' /\ JoinedInv' /\ OrderlyEndIsOff'
    BY <1>2, ThreadStep DEF OtherTick, Ticks, Able, Busy
  <2> QED BY <2>1, <2>2
<1>3. CASE OnWorkerError(w, ok)
  <2>1. TypeOK'
    BY <1>3, ForceStopFacts DEF OnWorkerError, LatchStop, Goes, TypeOK, mainVars
  <2>2. motorOn' => motorOn
    BY <1>3, ForceStopFacts DEF OnWorkerError, LatchStop
  <2>3. MadeInv' /\ JoinedInv' /\ OrderlyEndIsOff'
    BY <1>3, <2>2, ThreadStep DEF OnWorkerError, Able, Busy
  <2> QED BY <2>1, <2>3
<1> QED
  BY <1>1, <1>2, <1>3

LEMMA ControlStep ==
    ASSUME Inv, NEW ok \in BOOLEAN, Decide \/ Write(ok) \/ EndTick
    PROVE  Inv'
<1> USE DEF Inv
<1>1. CASE Decide
  <2>1. TypeOK'
    BY <1>1, NamedWorkers DEF Decide, Goes, TypeOK, mainVars
  <2>2. MadeInv' /\ JoinedInv' /\ OrderlyEndIsOff'
    BY <1>1, ThreadStep, NamedWorkers DEF Decide, Able, Busy
  <2> QED BY <2>1, <2>2
<1>2. CASE Write(ok)
  <2>1. TypeOK'
    BY <1>2, FaultFacts, NamedWorkers DEF Write, Goes, TypeOK, mainVars
  <2>2. MadeInv' /\ JoinedInv' /\ OrderlyEndIsOff'
    BY <1>2, ThreadStep, NamedWorkers DEF Write, Able, Busy
  <2> QED BY <2>1, <2>2
<1>3. CASE EndTick
  <2>1. TypeOK'
    BY <1>3, NamedWorkers DEF EndTick, Ticks, Goes, TypeOK, mainVars
  <2>2. MadeInv' /\ JoinedInv' /\ OrderlyEndIsOff'
    BY <1>3, ThreadStep, NamedWorkers DEF EndTick, Ticks, Able, Busy
  <2> QED BY <2>1, <2>2
<1> QED
  BY <1>1, <1>2, <1>3

LEMMA WatchdogStep ==
    ASSUME Inv, NEW ok \in BOOLEAN, Beat \/ Beaten \/ Check(ok)
    PROVE  Inv'
<1> USE DEF Inv
<1>1. CASE Beat \/ Beaten
  <2>1. TypeOK'
    BY <1>1, NamedWorkers DEF Beat, Beaten, Goes, TypeOK, mainVars
  <2>2. MadeInv' /\ JoinedInv' /\ OrderlyEndIsOff'
    BY <1>1, ThreadStep, NamedWorkers DEF Beat, Beaten, Able, Busy
  <2> QED BY <2>1, <2>2
<1>2. CASE Check(ok)
  <2>1. /\ motorOn' \in BOOLEAN /\ (motorOn' => motorOn)
        /\ faults' \in 0 .. MaxFaults /\ latched' \in BOOLEAN
    BY <1>2, ForceStopFacts DEF Check, LatchStop, TypeOK
  <2>2. Goes("watchdog", "idle") \/ Goes("watchdog", "dead")
    BY <1>2 DEF Check
  <2>3. TypeOK'
    BY <1>2, <2>1, <2>2, NamedWorkers DEF Check, Goes, TypeOK, mainVars
  <2>4. MadeInv' /\ JoinedInv' /\ OrderlyEndIsOff'
    BY <1>2, <2>1, <2>2, ThreadStep, NamedWorkers DEF Check, Able, Busy
  <2> QED BY <2>3, <2>4
<1> QED
  BY <1>1, <1>2

LEMMA StuckStep ==
    ASSUME Inv, NEW w \in Workers, Hang(w) \/ Wake(w)
    PROVE  Inv'
<1> USE DEF Inv
<1>1. TypeOK'
  BY FaultFacts DEF Hang, Wake, TypeOK, mainVars
<1>2. MadeInv' /\ JoinedInv' /\ OrderlyEndIsOff'
  BY DEF Hang, Wake, MadeInv, JoinedInv, OrderlyEndIsOff, mainVars
<1> QED
  BY <1>1, <1>2

-----------------------------------------------------------------------------

LEMMA InvStep == Inv /\ [Next]_vars => Inv'
<1> SUFFICES ASSUME Inv, [Next]_vars PROVE Inv'
  OBVIOUS
<1>1. CASE Main \/ WaitEnds \/ Signal \/ Kill
  BY <1>1, MainStep
<1>2. CASE Freeze \/ Thaw \/ Age \/ Guard
  BY <1>2, OutsideStep
<1>3. CASE Control
  BY <1>3, ControlStep, WorkerStep, NamedWorkers DEF Control
<1>4. CASE Watchdog
  BY <1>4, WatchdogStep, WorkerStep, NamedWorkers DEF Watchdog
<1>5. ASSUME NEW w \in Others, Other(w) PROVE Inv'
  BY <1>5, WorkerStep DEF Other, Workers
<1>6. ASSUME NEW w \in Workers, Hang(w) \/ Wake(w) PROVE Inv'
  BY <1>6, StuckStep
<1>7. CASE UNCHANGED vars
  BY <1>7 DEF vars, mainVars, workerVars, Inv, TypeOK, MadeInv, JoinedInv, OrderlyEndIsOff
<1> QED
  BY <1>1, <1>2, <1>3, <1>4, <1>5, <1>6, <1>7 DEF Next

\* The types of the life cycle, for every set of workers (main.py, app/runtime.py,
\* workers/periodic_worker.py, safety/watchdog.py, tools/guard.py).
THEOREM LifecycleTypes == Spec => []TypeOK
<1>1. Inv => TypeOK
  BY DEF Inv
<1> QED
  BY <1>1, InvInit, InvStep, PTL DEF Spec

\* When the heartbeat file is removed, which tells the guard to look away, the motor is off
\* and stays off, whatever raised, got stuck or was interrupted before; a control loop that
\* was still stuck when the shutdown gave it up is the only one that can drive it again
\* (app/runtime.py, shutdown).
THEOREM OrderlyEnd == Spec => []OrderlyEndIsOff
<1>1. Inv => OrderlyEndIsOff
  BY DEF Inv
<1> QED
  BY <1>1, InvInit, InvStep, PTL DEF Spec
=============================================================================
