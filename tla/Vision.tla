------------------------------- MODULE Vision -------------------------------
(***************************************************************************)
(* The vision process and what the driving makes of its results.           *)
(*                                                                         *)
(* The vision process (vision_runner/vision_runner.py, run_csi_direct.py)  *)
(* takes pictures from the camera and publishes what it sees in a file,    *)
(* with the time by the wall clock.  It may end at any moment, and be      *)
(* started again.  The perception worker                                   *)
(* (perception/perception_worker.py) reads the file in its ticks, refuses  *)
(* what is too old, and keeps the rest for the control loop, which looks   *)
(* at no time any more: only the watchdog limits how long it is used.      *)
(***************************************************************************)
EXTENDS LaneVision

CONSTANTS
    Pictures,       \* what the camera may see: [rows, x, lean, marks], where x is the column of
                    \*   the lane's centre at the nearest row and lean its slope, per row
    Trigger,        \* the TriggerSpec of the turn ahead
    DetectRange,    \* of the mock of the vision process
    Freshness,      \* freshness_max_s, as a number of time units
    StallLimit,     \* the watchdog's limit for the perception worker
    WatchPeriod,    \* the longest time between two ticks of the watchdog
    Setback,        \* by how much the wall clock may be set back
    MaxSetbacks     \* bound on how often that happens

ASSUME LimitsAssumption == {Freshness, StallLimit, WatchPeriod, Setback, MaxSetbacks} \subseteq Nat

\* What the camera sees of a lane: its lines and those of the lanes beside it, whichever of
\* them are hidden, the vehicle's axis in the lane, and the lane in the nearest row.
LaneLines(c) == {c - 3 * LaneHalf, c - LaneHalf, c + LaneHalf, c + 3 * LaneHalf}
ShowsLane(v) ==
    LET n == Len(v.rows)
        centre(i) == v.x + v.lean * (i - n)
    IN  /\ v.x \in Int /\ v.lean \in Int /\ v.rows \in Seq(SUBSET Int)
        /\ \A i \in 1 .. n : /\ -LaneHalf < centre(i) /\ centre(i) < LaneHalf
                             /\ v.rows[i] \subseteq LaneLines(centre(i))
        /\ \E c \in Centres(v.rows) : c.row = n
ASSUME PicturesAssumption == \A p \in DOMAIN Pictures : ShowsLane(Pictures[p])

Never == -1
NoPicture == 0
NoFile == [picture |-> NoPicture, seg |-> NoLane, age |-> 0, back |-> 0]
NoSeg == [picture |-> NoPicture, seg |-> NoLane, age |-> 0]
NoMarks == [valid |-> FALSE, marks |-> {}, age |-> 0]

VARIABLES
    mode,       \* seg_mode: "real" or "mock"
    runner,     \* the vision process: "off", "wait" for the camera, "busy" with a picture
    file,       \* what is published; back is by how much the clock was set back since
    worker,     \* the perception worker: "load", "idle", within its tick "seg" or "marks", or "refused"
    heldSeg,    \* parsed, but not stored yet
    heldMarks,
    seg,        \* SegAdapter._latest
    marks,      \* MarkAdapter._latest
    begun,      \* how long ago the tick of the worker began
    lastTick,   \* how long ago its last completed tick began (last_tick_monotonic), or Never
    watchAge,   \* the age of the watchdog's last tick
    watched,    \* the watchdog has looked at the worker since its first completed tick
    latched,    \* the stop is latched
    setbacks    \* set-backs of the clock so far

adapterVars == <<heldSeg, heldMarks, seg, marks>>
workerVars  == <<worker, begun, lastTick>>
watchVars   == <<watchAge, watched, latched>>
vars == <<mode, runner, file, workerVars, adapterVars, watchVars, setbacks>>

\* No age is counted further than to where nothing depends on it any more.
TooOld == Freshness + MaxSetbacks * Setback + 1
Horizon == TooOld + StallLimit + WatchPeriod
Older(n, limit) == IF n = Never THEN Never ELSE Min({n + 1, limit})

Published(p) == [picture |-> p, seg |-> ComputeSeg(Pictures[p].rows), age |-> 0, back |-> 0]

\* A file of an earlier run of the vision process may still be there.
Init ==
    /\ mode \in {"real", "mock"}
    /\ runner = "off"
    /\ file \in {NoFile} \cup {[Published(p) EXCEPT !.age = TooOld] : p \in DOMAIN Pictures}
    /\ worker = "load" /\ begun = 0 /\ lastTick = Never
    /\ heldSeg = NoSeg /\ heldMarks = NoMarks
    /\ seg = NoSeg /\ marks = NoMarks
    /\ watchAge = 0 /\ watched = FALSE /\ latched = FALSE /\ setbacks = 0

(***************************************************************************)
(* The vision process.                                                     *)
(***************************************************************************)
RunnerStart ==
    /\ runner = "off"
    /\ runner' = "wait"
    /\ UNCHANGED <<mode, file, workerVars, adapterVars, watchVars, setbacks>>

\* The camera has sent a complete picture that can be decoded.
RunnerRead ==
    /\ runner = "wait"
    /\ runner' = "busy"
    /\ UNCHANGED <<mode, file, workerVars, adapterVars, watchVars, setbacks>>

\* The picture is worked on however long it takes; the stamp is of the end.
Publish ==
    /\ runner = "busy"
    /\ \E p \in DOMAIN Pictures : file' = Published(p)
    /\ runner' = "wait"
    /\ UNCHANGED <<mode, workerVars, adapterVars, watchVars, setbacks>>

\* The camera is silent for too long, its stream ends, or the process is ended.  The file
\* stays as it is: it is replaced as a whole or not at all (publish_atomic).
RunnerEnds ==
    /\ runner # "off"
    /\ runner' = "off"
    /\ UNCHANGED <<mode, file, workerVars, adapterVars, watchVars, setbacks>>

(***************************************************************************)
(* The perception worker.                                                  *)
(***************************************************************************)
\* load: the file has to be there; that it is being written is not looked at.
Load ==
    /\ worker = "load"
    /\ worker' = IF mode = "real" /\ file = NoFile THEN "refused" ELSE "idle"
    /\ UNCHANGED <<mode, runner, file, begun, lastTick, adapterVars, watchVars, setbacks>>

\* A slip: the age is not looked at.
InTimeAlways(f) == f # NoFile
\* By the wall clock: a stamp that lies ahead of it is in time.
InTime(f) == f # NoFile /\ f.age - f.back <= Freshness

ParseSeg(f) ==
    IF InTime(f) /\ f.seg.valid THEN [picture |-> f.picture, seg |-> f.seg, age |-> f.age] ELSE NoSeg
ParseMarks(f) ==
    IF InTime(f) THEN [valid |-> TRUE, marks |-> Pictures[f.picture].marks, age |-> f.age] ELSE NoMarks

\* The mock knows the lane from the position, if there is one, and sees it as it is; and
\* nothing far from the lane, or against its direction.
MockSeg(p) ==
    LET v == Pictures[p]
    IN  IF v.x \in -DetectRange .. DetectRange
        THEN [picture |-> p, seg |-> [valid |-> TRUE, offset |-> -v.x, heading |-> v.lean], age |-> 0]
        ELSE NoSeg

ObserveSeg ==
    /\ worker = "idle"
    /\ worker' = "seg" /\ begun' = 0
    /\ \/ mode = "real" /\ heldSeg' = ParseSeg(file)
       \/ mode = "mock" /\ \E p \in DOMAIN Pictures : heldSeg' \in {NoSeg, MockSeg(p)}
    /\ UNCHANGED <<mode, runner, file, lastTick, heldMarks, seg, marks, watchVars, setbacks>>

\* The observation is stored, and the file read again for the marks (the mock has none).
ObserveMarks ==
    /\ worker = "seg"
    /\ worker' = "marks"
    /\ seg' = heldSeg /\ heldSeg' = NoSeg
    /\ heldMarks' = IF mode = "real" THEN ParseMarks(file) ELSE NoMarks
    /\ UNCHANGED <<mode, runner, file, begun, lastTick, marks, watchVars, setbacks>>

EndTick ==
    /\ worker = "marks"
    /\ worker' = "idle"
    /\ marks' = heldMarks /\ heldMarks' = NoMarks
    /\ lastTick' = begun /\ begun' = 0
    /\ UNCHANGED <<mode, runner, file, heldSeg, seg, watchVars, setbacks>>

\* A worker that has not completed its first tick is not looked at.
Watch ==
    /\ watchAge > 0
    /\ watchAge' = 0
    /\ watched' = (lastTick # Never)
    /\ latched' = (lastTick # Never /\ lastTick > StallLimit)
    /\ UNCHANGED <<mode, runner, file, workerVars, adapterVars, setbacks>>

(***************************************************************************)
(* Time, and the wall clock.  The worker may be held up for any time.      *)
(***************************************************************************)
Elapse ==
    /\ watchAge < WatchPeriod
    /\ watchAge' = watchAge + 1
    /\ file' = IF file = NoFile THEN file ELSE [file EXCEPT !.age = Older(@, TooOld)]
    /\ heldSeg' = IF heldSeg = NoSeg THEN NoSeg ELSE [heldSeg EXCEPT !.age = Older(@, Horizon)]
    /\ seg' = IF seg = NoSeg THEN NoSeg ELSE [seg EXCEPT !.age = Older(@, Horizon)]
    /\ heldMarks' = IF heldMarks.valid THEN [heldMarks EXCEPT !.age = Older(@, Horizon)] ELSE NoMarks
    /\ marks' = IF marks.valid THEN [marks EXCEPT !.age = Older(@, Horizon)] ELSE NoMarks
    /\ begun' = IF worker \in {"seg", "marks"} THEN Older(begun, StallLimit + 1) ELSE begun
    /\ lastTick' = Older(lastTick, StallLimit + 1)
    /\ UNCHANGED <<mode, runner, worker, watched, latched, setbacks>>

SetClockBack ==
    /\ setbacks < MaxSetbacks
    /\ setbacks' = setbacks + 1
    /\ file' = IF file = NoFile THEN file ELSE [file EXCEPT !.back = @ + Setback]
    /\ UNCHANGED <<mode, runner, workerVars, adapterVars, watchVars>>

VisionProcess == RunnerStart \/ RunnerRead \/ Publish \/ RunnerEnds
Worker == Load \/ ObserveSeg \/ ObserveMarks \/ EndTick

\* Once the stop is latched the vehicle stands until its program is started again.
Next == ~latched /\ (VisionProcess \/ Worker \/ Watch \/ Elapse \/ SetClockBack)
Spec == Init /\ [][Next]_vars

-----------------------------------------------------------------------------
MaxAge == Freshness + setbacks * Setback + StallLimit + WatchPeriod

\* The control loop looks at no age (DrivingWorker._drive, LaneFollower); still, while the
\* vehicle may move, a correction of the steering is towards the lane of a picture, and the
\* mark that fires a turn was seen in one, that was published no longer ago than the limits
\* of the adapters and of the watchdog together: whatever became of the vision process or
\* of the worker since.  A worker held up in its first tick is the exception: the watchdog
\* does not look at it before it is done.
UsedVisionIsRecent ==
    ~latched /\ watched =>
        /\ LET corr == CorrectionWheel(seg.seg)
               v == Pictures[seg.picture]
           IN  corr # 0 => /\ seg.age <= MaxAge
                           /\ v.x >= 0 /\ v.lean <= 0 => corr > 0
                           /\ v.x <= 0 /\ v.lean >= 0 => corr < 0
        /\ Triggered(Trigger, marks.marks) => marks.age <= MaxAge
=============================================================================
