----------------------------- MODULE Lifecycle -----------------------------
(***************************************************************************)
(* The life of the vehicle's process (main.py, app/runtime.py), of its     *)
(* worker threads (workers/periodic_worker.py), of the watchdog that looks *)
(* after them (safety/watchdog.py) and of the guard, a process of its own  *)
(* that looks after the first (tools/guard.py).  What they guard is the    *)
(* motor: its driver keeps the last output for ever, also when nobody is   *)
(* left.                                                                   *)
(*                                                                         *)
(* Whether a mission wants the motor driven is a choice (VehicleControl    *)
(* has the missions); time is abstracted to what is older than a limit.    *)
(***************************************************************************)
EXTENDS Integers, Sequences

CONSTANTS
    Others,         \* the watched workers but the control loop
    MaxFaults       \* bound on what goes wrong: signals, calls of drivers that raise,
                    \*   ticks that get stuck, and stops of the whole process

Workers == Others \cup {"watchdog", "control"}
Watched == Workers \ {"watchdog"}

ASSUME BoundsAssumption ==
    /\ MaxFaults \in Nat
    /\ {"watchdog", "control"} \cap Others = {}

VARIABLES
    phase,          \* where the main thread is
    made,           \* runtime.workers has been set
    st,             \* of each worker's thread
    abandoned,      \* workers the shutdown has ceased to wait for
    late,           \* workers with a last tick older than the limit
    ticked,         \* workers with a last tick
    hung,           \* workers stuck in a tick
    out,            \* what the control loop is about to write
    latched,        \* SafetySupervisor._latched
    motorOn,        \* the motor driver's last output
    hb,             \* the heartbeat file
    guard,          \* what the guard does next
    frozen,         \* the whole process does not run
    faults          \* how much has gone wrong

mainVars   == <<phase, made, abandoned>>
workerVars == <<st, late, ticked, hung, out>>
vars == <<mainVars, workerVars, latched, motorOn, hb, guard, frozen, faults>>

Phases == {"init", "start", "wait", "force", "event", "join", "cleanup", "clear", "exit",
           "ended", "broken", "killed"}
InFinally == {"event", "join", "cleanup", "clear"}
Ended == phase \in {"ended", "broken", "killed"}
Runs  == ~Ended /\ ~frozen
stop  == phase \in {"join", "cleanup", "clear", "exit"}     \* stop_event is set

TypeOK ==
    /\ phase \in Phases /\ made \in BOOLEAN
    /\ st \in [Workers -> {"new", "idle", "decided", "wrote", "write", "check", "raised", "dead", "done"}]
    /\ {abandoned, late, ticked, hung} \subseteq SUBSET Workers
    /\ out \in BOOLEAN /\ latched \in BOOLEAN /\ motorOn \in BOOLEAN /\ frozen \in BOOLEAN
    /\ hb \in {"absent", "empty", "fresh", "stale"} /\ guard \in {"look", "fire"}
    /\ faults \in 0 .. MaxFaults

\* A file of a run before may be left over.
Init ==
    /\ phase = "init" /\ made = FALSE
    /\ st = [w \in Workers |-> "new"] /\ abandoned = {} /\ late = {} /\ ticked = {} /\ hung = {}
    /\ out = FALSE /\ latched = FALSE /\ motorOn = FALSE
    /\ hb \in {"absent", "stale"} /\ guard = "look" /\ frozen = FALSE
    /\ faults = 0

Fault == faults < MaxFaults /\ faults' = faults + 1

\* SafetySupervisor.force_stop lets the exceptions of the drivers through; by then the
\* motor may have been stopped or not.
ForceStop(ok) ==
    IF ok THEN motorOn' = FALSE /\ UNCHANGED faults
          ELSE motorOn' \in {FALSE, motorOn} /\ Fault

LatchStop(ok) == latched' = TRUE /\ ForceStop(ok)

-----------------------------------------------------------------------------
(* The main thread.                                                        *)

\* initialize reads the configuration and the map, builds every part and ends with a
\* forced stop; whatever it raises leads to the shutdown.
Initialize(ok) ==
    /\ Runs /\ phase = "init"
    /\ \/ made' = TRUE /\ ForceStop(ok) /\ phase' = IF ok THEN "start" ELSE "force"
       \/ ~ok /\ Fault /\ phase' = "force" /\ UNCHANGED <<made, motorOn>>
    /\ UNCHANGED <<abandoned, workerVars, latched, hb, guard, frozen>>

\* start: the watchdog goes first.
Startable(w) == st[w] = "new" /\ (w # "watchdog" => st["watchdog"] # "new")

Start(w) ==
    /\ Runs /\ phase = "start" /\ Startable(w)
    /\ st' = [st EXCEPT ![w] = "idle"]
    /\ phase' = IF \A v \in Workers \ {w} : st[v] # "new" THEN "wait" ELSE phase
    /\ UNCHANGED <<made, abandoned, late, ticked, hung, out, latched, motorOn, hb, guard,
                   frozen, faults>>

\* wait ends after the given time, or with the keyboard's interrupt.
WaitEnds ==
    /\ Runs /\ phase = "wait"
    /\ phase' = "force"
    /\ UNCHANGED <<made, abandoned, workerVars, latched, motorOn, hb, guard, frozen, faults>>

\* The handlers of SIGHUP and SIGTERM raise SystemExit wherever the main thread is.  Its
\* finally runs the shutdown; a signal within that leaves the forced stop for the rest of
\* the shutdown, and the rest of the shutdown for good.
Signal ==
    /\ Runs /\ phase # "exit" /\ Fault
    /\ phase' = CASE phase \in {"init", "start", "wait"} -> "force"
                  [] phase = "force"                     -> "event"
                  [] phase \in InFinally                 -> "broken"
    /\ UNCHANGED <<made, abandoned, workerVars, latched, motorOn, hb, guard, frozen>>

ShutdownForce(ok) ==
    /\ Runs /\ phase = "force"
    /\ phase' = "event"
    /\ IF made THEN ForceStop(ok) ELSE ok /\ UNCHANGED <<motorOn, faults>>
    /\ UNCHANGED <<made, abandoned, workerVars, latched, hb, guard, frozen>>

ShutdownEvent ==
    /\ Runs /\ phase = "event"
    /\ phase' = IF made THEN "join" ELSE "cleanup"
    /\ UNCHANGED <<made, abandoned, workerVars, latched, motorOn, hb, guard, frozen, faults>>

\* A slip: the shutdown does not wait for the threads to end.
ShutdownJoinAtOnce ==
    /\ Runs /\ phase = "join" /\ \A w \in Workers : st[w] # "new"
    /\ phase' = "cleanup"
    /\ UNCHANGED <<made, abandoned, workerVars, latched, motorOn, hb, guard, frozen, faults>>

\* The threads are joined in the order they were started in; for one that is stuck join
\* waits only for a while.  A thread that has not been started comes after all that were,
\* and its join raises: the shutdown ends there.
Waited(w) == st[w] \in {"new", "dead", "done"} \/ w \in hung
ShutdownJoin ==
    /\ Runs /\ phase = "join" /\ \A w \in Workers : Waited(w)
    /\ abandoned' = {w \in hung : st[w] \notin {"dead", "done"}}
    /\ phase' = IF \E w \in Workers : st[w] = "new" THEN "broken" ELSE "cleanup"
    /\ UNCHANGED <<made, workerVars, latched, motorOn, hb, guard, frozen, faults>>

\* The clients are stopped and the motor's driver is closed, which stops the motor.
ShutdownCleanup(ok) ==
    /\ Runs /\ phase = "cleanup"
    /\ ForceStop(ok)
    /\ phase' = IF ok THEN "clear" ELSE "broken"
    /\ UNCHANGED <<made, abandoned, workerVars, latched, hb, guard, frozen>>

\* Without the file the guard takes the process for ended.
ShutdownClear ==
    /\ Runs /\ phase = "clear"
    /\ hb' = "absent" /\ phase' = "exit"
    /\ UNCHANGED <<made, abandoned, workerVars, latched, motorOn, guard, frozen, faults>>

\* The workers' threads are daemons: they end with the main thread.
Exit ==
    /\ Runs /\ phase = "exit"
    /\ phase' = "ended"
    /\ UNCHANGED <<made, abandoned, workerVars, latched, motorOn, hb, guard, frozen, faults>>

Main ==
    \/ \E ok \in BOOLEAN : Initialize(ok) \/ ShutdownForce(ok) \/ ShutdownCleanup(ok)
    \/ \E w \in Workers : Start(w)
    \/ ShutdownEvent \/ ShutdownJoin \/ ShutdownClear \/ Exit

-----------------------------------------------------------------------------
(* The threads of the workers: PeriodicWorker._run.                        *)

Able(w, state) == Runs /\ st[w] = state /\ w \notin hung
Goes(w, state) == st' = [st EXCEPT ![w] = state]
\* last_tick_monotonic is set after the tick.
Ticks(w) == Goes(w, "idle") /\ ticked' = ticked \cup {w} /\ late' = late \ {w}

LeaveLoop(w) ==
    /\ Able(w, "idle") /\ stop
    /\ Goes(w, "done")
    /\ UNCHANGED <<mainVars, late, ticked, hung, out, latched, motorOn, hb, guard, frozen, faults>>

\* The control loop's apply decides, then writes.
Decide ==
    /\ Able("control", "idle") /\ ~stop
    /\ \E wants \in BOOLEAN : out' = (wants /\ ~latched)
    /\ Goes("control", "decided")
    /\ UNCHANGED <<mainVars, late, ticked, hung, latched, motorOn, hb, guard, frozen, faults>>

Write(ok) ==
    /\ Able("control", "decided")
    /\ IF ok THEN motorOn' = out /\ UNCHANGED faults
             ELSE motorOn' \in {out, motorOn} /\ Fault
    /\ out' = FALSE /\ Goes("control", IF ok THEN "wrote" ELSE "raised")
    /\ UNCHANGED <<mainVars, late, ticked, hung, latched, hb, guard, frozen>>

EndTick ==
    /\ Able("control", "wrote")
    /\ Ticks("control")
    /\ UNCHANGED <<mainVars, hung, out, latched, motorOn, hb, guard, frozen, faults>>

\* A tick of another worker ends, or raises.
OtherTick(w, ok) ==
    /\ Able(w, "idle") /\ ~stop
    /\ IF ok THEN Ticks(w) /\ UNCHANGED faults
             ELSE Goes(w, "raised") /\ Fault /\ UNCHANGED <<late, ticked>>
    /\ UNCHANGED <<mainVars, hung, out, latched, motorOn, hb, guard, frozen>>

\* on_error latches the stop; what that raises ends the thread all the same.
OnWorkerError(w, ok) ==
    /\ Able(w, "raised")
    /\ LatchStop(ok) /\ Goes(w, "dead")
    /\ UNCHANGED <<mainVars, late, ticked, hung, out, hb, guard, frozen>>

\* A tick gets stuck, for longer than every limit; it may go on some time.
Hang(w) ==
    /\ Runs /\ w \notin hung /\ st[w] \in {"decided", "wrote", "check"} \cup
                                          IF w \in Others /\ ~stop THEN {"idle"} ELSE {}
    /\ Fault
    /\ hung' = hung \cup {w} /\ late' = late \cup ({w} \cap ticked)
    /\ UNCHANGED <<mainVars, st, ticked, out, latched, motorOn, hb, guard, frozen>>

Wake(w) ==
    /\ Runs /\ w \in hung
    /\ hung' = hung \ {w}
    /\ UNCHANGED <<mainVars, st, late, ticked, out, latched, motorOn, hb, guard, frozen, faults>>

Control == Decide \/ EndTick \/ LeaveLoop("control")
               \/ \E ok \in BOOLEAN : Write(ok) \/ OnWorkerError("control", ok)
Other(w) == LeaveLoop(w) \/ \E ok \in BOOLEAN : OtherTick(w, ok) \/ OnWorkerError(w, ok)

-----------------------------------------------------------------------------
(* The watchdog, and the guard.                                            *)

\* write_text empties the file before it writes the time to it.
Beat ==
    /\ Able("watchdog", "idle") /\ ~stop
    /\ hb' = "empty" /\ Goes("watchdog", "write")
    /\ UNCHANGED <<mainVars, late, ticked, hung, out, latched, motorOn, guard, frozen, faults>>

Beaten ==
    /\ Able("watchdog", "write")
    /\ hb' = "fresh" /\ Goes("watchdog", "check")
    /\ UNCHANGED <<mainVars, late, ticked, hung, out, latched, motorOn, guard, frozen, faults>>

\* A slip: a worker that has ended is no longer looked at.
StalledAlive(w) == w \in late /\ st[w] # "dead"

\* A worker that has never ticked is taken for one that has not begun.
Stalled(w) == w \in ticked /\ (w \in late \/ st[w] = "dead")

\* The watchdog has no on_error: when the stop raises, it ends and no heart beats.
Check(ok) ==
    /\ Able("watchdog", "check")
    /\ IF \E w \in Watched : Stalled(w)
       THEN LatchStop(ok) /\ Goes("watchdog", IF ok THEN "idle" ELSE "dead")
       ELSE ok /\ Goes("watchdog", "idle") /\ UNCHANGED <<latched, motorOn, faults>>
    /\ UNCHANGED <<mainVars, late, ticked, hung, out, hb, guard, frozen>>

Watchdog == Beat \/ Beaten \/ LeaveLoop("watchdog") \/ \E ok \in BOOLEAN : Check(ok)

\* Time passes and the file is not written again.
Gone == Ended \/ frozen
Age ==
    /\ hb = "fresh"
    /\ Gone \/ st["watchdog"] \in {"dead", "done"} \/ "watchdog" \in hung
    /\ hb' = "stale"
    /\ UNCHANGED <<mainVars, workerVars, latched, motorOn, guard, frozen, faults>>

\* The guard fires at a time that is too old; what it cannot read is no time.
GuardLook ==
    /\ guard = "look" /\ hb = "stale"
    /\ guard' = "fire"
    /\ UNCHANGED <<mainVars, workerVars, latched, motorOn, hb, frozen, faults>>

\* A slip: a write that fails ends the guard.
GuardFireRaises(ok) ==
    /\ guard = "fire"
    /\ ForceStop(ok)
    /\ guard' = IF ok THEN "look" ELSE "ended"
    /\ UNCHANGED <<mainVars, workerVars, latched, hb, frozen>>

\* FULL_OFF for every channel; a write that fails leaves the motor as it was, and the
\* next round tries again.
GuardFire(ok) ==
    /\ guard = "fire"
    /\ ForceStop(ok)
    /\ guard' = "look"
    /\ UNCHANGED <<mainVars, workerVars, latched, hb, frozen>>

Guard == GuardLook \/ \E ok \in BOOLEAN : GuardFire(ok)

-----------------------------------------------------------------------------
Freeze ==
    /\ Runs /\ Fault
    /\ frozen' = TRUE
    /\ UNCHANGED <<mainVars, workerVars, latched, motorOn, hb, guard>>

\* After the freeze every tick there has been is old.
Thaw ==
    /\ frozen /\ ~Ended
    /\ frozen' = FALSE /\ late' = late \cup ticked
    /\ UNCHANGED <<mainVars, st, ticked, hung, out, latched, motorOn, hb, guard, faults>>

\* The process is killed.
Kill ==
    /\ ~Ended /\ phase' = "killed"
    /\ UNCHANGED <<made, abandoned, workerVars, latched, motorOn, hb, guard, frozen, faults>>

Next ==
    \/ Main \/ WaitEnds \/ Signal \/ Kill \/ Freeze \/ Thaw \/ Age
    \/ Control \/ Watchdog \/ Guard
    \/ \E w \in Others : Other(w)
    \/ \E w \in Workers : Hang(w) \/ Wake(w)

Spec == Init /\ [][Next]_vars

\* Threads that can run are run, and time passes; a thread that is stuck may stay so.
FairSpec ==
    /\ Spec
    /\ WF_vars(Main) /\ WF_vars(Age) /\ WF_vars(Guard)
    /\ WF_vars(Control) /\ WF_vars(Watchdog)
    /\ \A w \in Others : WF_vars(Other(w))

-----------------------------------------------------------------------------
\* No file tells the guard of a process that is gone: the watchdog had not come to write
\* one, or was stopped while it wrote.
Unseen == Gone /\ hb \in {"absent", "empty"}

\* A control loop that has ended by an exception, or is stuck in a tick that is not its
\* first, does not leave the motor driven: its hook, the watchdog or the guard stops it,
\* whichever of the drivers' calls raise.
Lost == "control" \in ticked /\ ("control" \in hung \/ st["control"] = "dead")
LostControlStops == (Lost /\ motorOn) ~> (~Lost \/ ~motorOn \/ Unseen)

\* When the whole process is gone, for whatever reason, the guard stops the motor.
GoneIsStopped ==
    (Gone /\ motorOn /\ ~Unseen) ~> (~motorOn \/ ~Gone)

\* The guard is told of an orderly end only when the motor is off for good: nobody writes
\* to it any more, but a control loop that the shutdown has ceased to wait for.
OrderlyEndIsOff ==
    phase \in {"clear", "exit"} /\ motorOn => "control" \in abandoned

\* However the process comes to end, its shutdown runs to the end (the docstring of
\* shutdown: motor, steering, stop event, joins, connections, clean-up in this order,
\* for whatever reason).
ShutdownCompletes == phase # "broken"
=============================================================================
