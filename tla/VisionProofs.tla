---------------------------- MODULE VisionProofs ----------------------------
(***************************************************************************)
(* What the driving uses of the vision is recent, for all pictures, limits *)
(* and set-backs of the clock.                                             *)
(*                                                                         *)
(* Nobody bounds the age of what the adapters keep; it is bounded by the   *)
(* time since the tick that stored it began, and this by the watchdog.     *)
(***************************************************************************)
EXTENDS Vision, FiniteSetTheorems, TLAPS

\* The oldest a result can be when an adapter accepts it.
Accepted == Freshness + setbacks * Setback

TimeInv ==
    /\ begun \in 0 .. StallLimit + 1 /\ lastTick \in {Never} \cup 0 .. StallLimit + 1
    /\ watchAge \in 0 .. WatchPeriod /\ setbacks \in 0 .. MaxSetbacks
    /\ watched \in BOOLEAN /\ latched \in BOOLEAN
    /\ watched => lastTick # Never
    \* a tick that runs began after the one completed before
    /\ worker \in {"seg", "marks"} /\ lastTick # Never => begun <= lastTick

\* Where the results come from.
FileInv ==
    \/ file = NoFile
    \/ \E p \in DOMAIN Pictures, a \in Nat, b \in 0 .. setbacks * Setback :
          file = [picture |-> p, seg |-> ComputeSeg(Pictures[p].rows), age |-> a, back |-> b]
SegKept(o) ==
    \/ o = NoSeg
    \/ \E p \in DOMAIN Pictures, a \in Nat :
          \/ o = [picture |-> p, seg |-> ComputeSeg(Pictures[p].rows), age |-> a]
          \/ o = [picture |-> p, age |-> a,
                  seg |-> [valid |-> TRUE, offset |-> -Pictures[p].x, heading |-> Pictures[p].lean]]
MarksKept(o) ==
    \/ o = NoMarks
    \/ \E p \in DOMAIN Pictures, a \in Nat : o = [valid |-> TRUE, marks |-> Pictures[p].marks, age |-> a]
KeptInv ==
    /\ FileInv
    /\ SegKept(seg) /\ SegKept(heldSeg) /\ MarksKept(marks) /\ MarksKept(heldMarks)

\* A result is no older than it was when accepted, and the time since its tick began; that
\* time is not counted beyond the watchdog's limit.
Since(o, t) == o.age <= Accepted + t \/ t > StallLimit
SinceInv ==
    /\ worker = "seg" => Since(heldSeg, begun)
    /\ worker = "marks" => Since(seg, begun) /\ Since(heldMarks, begun)
    /\ lastTick # Never => Since(seg, lastTick) /\ Since(marks, lastTick)

\* As long as the watchdog is content, its own age is all there is beyond its limit.
Content(o) == o.age <= Accepted + StallLimit + watchAge
WatchInv ==
    watched /\ ~latched =>
        /\ Content(seg) /\ Content(marks)
        /\ worker = "seg" => Content(heldSeg)
        /\ worker = "marks" => Content(heldMarks)

Inv == TimeInv /\ KeptInv /\ SinceInv /\ WatchInv

-----------------------------------------------------------------------------
(* Numbers.                                                                *)

LEMMA Limits ==
    /\ Freshness \in Nat /\ StallLimit \in Nat /\ WatchPeriod \in Nat
    /\ Setback \in Nat /\ MaxSetbacks \in Nat
BY LimitsAssumption

LEMMA MinOfTwo ==
    ASSUME NEW a \in Int, NEW b \in Int
    PROVE  Min({a, b}) = IF a <= b THEN a ELSE b
<1>1. PICK m \in {a, b} : \A y \in {a, b} : m =< y
  <2>1. CASE a <= b
    BY <2>1
  <2>2. CASE b <= a
    BY <2>2
  <2> QED
    BY <2>1, <2>2
<1>2. Min({a, b}) \in {a, b} /\ \A y \in {a, b} : Min({a, b}) =< y
  BY <1>1 DEF Min
<1> QED
  BY <1>2

LEMMA MaxOfTwo ==
    ASSUME NEW a \in Int, NEW b \in Int
    PROVE  Max({a, b}) = IF a >= b THEN a ELSE b
<1>1. PICK m \in {a, b} : \A y \in {a, b} : m >= y
  <2>1. CASE a >= b
    BY <2>1
  <2>2. CASE b >= a
    BY <2>2
  <2> QED
    BY <2>1, <2>2
<1>2. Max({a, b}) \in {a, b} /\ \A y \in {a, b} : Max({a, b}) >= y
  BY <1>1 DEF Max
<1> QED
  BY <1>2

LEMMA OlderFacts ==
    ASSUME NEW n \in Nat, NEW limit \in Nat
    PROVE  Older(n, limit) \in Nat /\ Older(n, limit) = IF n + 1 <= limit THEN n + 1 ELSE limit
<1>1. Older(n, limit) = Min({n + 1, limit})
  BY DEF Older, Never
<1>2. Min({n + 1, limit}) = IF n + 1 <= limit THEN n + 1 ELSE limit
  BY MinOfTwo
<1> QED
  BY <1>1, <1>2

LEMMA Products ==
    ASSUME NEW m \in Nat, NEW n \in Nat
    PROVE  m * n \in Nat /\ (m + 1) * n = m * n + n
OBVIOUS

LEMMA AcceptedType == TimeInv => setbacks \in Nat /\ setbacks * Setback \in Nat /\ Accepted \in Nat
<1> SUFFICES ASSUME TimeInv PROVE setbacks \in Nat /\ setbacks * Setback \in Nat /\ Accepted \in Nat
  OBVIOUS
<1>1. setbacks \in Nat
  BY Limits DEF TimeInv
<1>2. setbacks * Setback \in Nat
  BY <1>1, Limits, Products
<1> QED
  BY <1>1, <1>2, Limits DEF Accepted

LEMMA Horizons ==
    TooOld \in Nat /\ Horizon \in Nat /\ StallLimit + 1 \in Nat
<1>1. MaxSetbacks * Setback \in Nat
  BY Limits
<1> QED
  BY <1>1, Limits DEF TooOld, Horizon

LEMMA KeptAge ==
    ASSUME NEW o, SegKept(o) \/ MarksKept(o)
    PROVE  o.age \in Nat
BY DEF SegKept, MarksKept, NoSeg, NoMarks

-----------------------------------------------------------------------------
(* What the adapters accept.                                               *)

LEMMA ParsedSeg ==
    ASSUME Inv
    PROVE  SegKept(ParseSeg(file)) /\ ParseSeg(file).age <= Accepted
<1>1. Accepted \in Nat /\ setbacks * Setback \in Nat
  BY AcceptedType DEF Inv
<1>2. CASE InTime(file) /\ file.seg.valid
  <2>1. PICK p \in DOMAIN Pictures, a \in Nat, b \in 0 .. setbacks * Setback :
            file = [picture |-> p, seg |-> ComputeSeg(Pictures[p].rows), age |-> a, back |-> b]
    BY <1>2 DEF Inv, KeptInv, FileInv, InTime
  <2>2. ParseSeg(file) = [picture |-> p, seg |-> ComputeSeg(Pictures[p].rows), age |-> a]
    BY <1>2, <2>1 DEF ParseSeg
  <2>3. a - b <= Freshness
    BY <1>2, <2>1 DEF InTime
  <2>4. a <= Accepted
    BY <1>1, <2>3, Limits DEF Accepted
  <2>5. SegKept(ParseSeg(file))
    BY <2>2 DEF SegKept
  <2>6. ParseSeg(file).age = a
    BY <2>2
  <2> QED
    BY <2>4, <2>5, <2>6
<1>3. CASE ~(InTime(file) /\ file.seg.valid)
  BY <1>1, <1>3 DEF ParseSeg, SegKept, NoSeg
<1> QED
  BY <1>2, <1>3

LEMMA ParsedMarks ==
    ASSUME Inv
    PROVE  MarksKept(ParseMarks(file)) /\ ParseMarks(file).age <= Accepted
<1>1. Accepted \in Nat /\ setbacks * Setback \in Nat
  BY AcceptedType DEF Inv
<1>2. CASE InTime(file)
  <2>1. PICK p \in DOMAIN Pictures, a \in Nat, b \in 0 .. setbacks * Setback :
            file = [picture |-> p, seg |-> ComputeSeg(Pictures[p].rows), age |-> a, back |-> b]
    BY <1>2 DEF Inv, KeptInv, FileInv, InTime
  <2>2. ParseMarks(file) = [valid |-> TRUE, marks |-> Pictures[p].marks, age |-> a]
    BY <1>2, <2>1 DEF ParseMarks
  <2>3. a - b <= Freshness
    BY <1>2, <2>1 DEF InTime
  <2>4. a <= Accepted
    BY <1>1, <2>3, Limits DEF Accepted
  <2>5. MarksKept(ParseMarks(file))
    BY <2>2 DEF MarksKept
  <2>6. ParseMarks(file).age = a
    BY <2>2
  <2> QED
    BY <2>4, <2>5, <2>6
<1>3. CASE ~InTime(file)
  BY <1>1, <1>3 DEF ParseMarks, MarksKept, NoMarks
<1> QED
  BY <1>2, <1>3

LEMMA MockedSeg ==
    ASSUME Inv, NEW p \in DOMAIN Pictures, NEW o \in {NoSeg, MockSeg(p)}
    PROVE  SegKept(o) /\ o.age <= Accepted
<1>1. Accepted \in Nat
  BY AcceptedType DEF Inv
<1>2. o = NoSeg \/ o = [picture |-> p, age |-> 0,
                       seg |-> [valid |-> TRUE, offset |-> -Pictures[p].x, heading |-> Pictures[p].lean]]
  BY DEF MockSeg
<1> QED
  BY <1>1, <1>2 DEF SegKept, NoSeg

-----------------------------------------------------------------------------
(* The steps.                                                              *)

LEMMA InvInit == Init => Inv
<1> SUFFICES ASSUME Init PROVE Inv
  OBVIOUS
<1>1. TimeInv
  <2>1. 0 \in 0 .. StallLimit + 1 /\ 0 \in 0 .. WatchPeriod /\ 0 \in 0 .. MaxSetbacks
    BY Limits
  <2> QED
    BY <2>1 DEF Init, TimeInv
<1>2. FileInv
  <2>1. CASE file = NoFile
    BY <2>1 DEF FileInv
  <2>2. ASSUME NEW p \in DOMAIN Pictures, file = [Published(p) EXCEPT !.age = TooOld]
        PROVE  FileInv
    <3>1. file = [picture |-> p, seg |-> ComputeSeg(Pictures[p].rows), age |-> TooOld, back |-> 0]
      BY <2>2 DEF Published
    <3>2. 0 \in 0 .. setbacks * Setback
      BY Limits DEF Init
    <3> QED
      BY <3>1, <3>2, Horizons DEF FileInv
  <2> QED
    BY <2>1, <2>2 DEF Init
<1>3. KeptInv
  BY <1>2 DEF Init, KeptInv, SegKept, MarksKept
<1>4. SinceInv /\ WatchInv
  BY DEF Init, SinceInv, WatchInv
<1> QED
  BY <1>1, <1>3, <1>4 DEF Inv

LEMMA VisionProcessStep ==
    ASSUME Inv, VisionProcess
    PROVE  Inv'
<1>1. UNCHANGED <<mode, workerVars, adapterVars, watchVars, setbacks>>
  BY DEF VisionProcess, RunnerStart, RunnerRead, Publish, RunnerEnds
<1>2. FileInv'
  <2>1. CASE file' = file
    BY <1>1, <2>1 DEF Inv, KeptInv, FileInv
  <2>2. ASSUME NEW p \in DOMAIN Pictures, file' = Published(p)
        PROVE  FileInv'
    <3>1. 0 \in 0 .. (setbacks * Setback)'
      BY <1>1, AcceptedType DEF Inv
    <3> QED
      BY <2>2, <3>1 DEF FileInv, Published
  <2> QED
    BY <2>1, <2>2 DEF VisionProcess, RunnerStart, RunnerRead, Publish, RunnerEnds
<1>3. Accepted' = Accepted
  BY <1>1 DEF Accepted
<1> QED
  BY <1>1, <1>2, <1>3 DEF Inv, TimeInv, KeptInv, SegKept, MarksKept, SinceInv, Since, WatchInv, Content,
                          workerVars, adapterVars, watchVars

LEMMA LoadStep == ASSUME Inv, Load PROVE Inv'
<1>1. /\ worker = "load" /\ worker' \in {"refused", "idle"}
      /\ UNCHANGED <<file, begun, lastTick, adapterVars, watchVars, setbacks>>
  BY DEF Load
<1>2. Accepted' = Accepted
  BY <1>1 DEF Accepted
<1> QED
  BY <1>1, <1>2 DEF Inv, TimeInv, KeptInv, FileInv, SegKept, MarksKept, SinceInv, Since, WatchInv, Content,
                    adapterVars, watchVars

LEMMA ObserveSegStep == ASSUME Inv, ObserveSeg PROVE Inv'
<1>1. /\ worker' = "seg" /\ begun' = 0
      /\ UNCHANGED <<file, lastTick, heldMarks, seg, marks, watchVars, setbacks>>
  BY DEF ObserveSeg
<1>2. SegKept(heldSeg') /\ heldSeg'.age <= Accepted
  BY ParsedSeg, MockedSeg DEF ObserveSeg
<1>3. Accepted' = Accepted /\ Accepted \in Nat /\ heldSeg'.age \in Nat
  BY <1>1, <1>2, KeptAge, AcceptedType DEF Inv, Accepted
<1>4. TimeInv'
  BY <1>1, Limits DEF Inv, TimeInv, watchVars, Never
<1>5. KeptInv'
  BY <1>1, <1>2 DEF Inv, KeptInv, FileInv, SegKept, MarksKept
<1>6. SinceInv'
  BY <1>1, <1>2, <1>3 DEF Inv, SinceInv, Since
<1>7. WatchInv'
  <2>1. watchAge \in Nat /\ StallLimit \in Nat
    BY Limits DEF Inv, TimeInv
  <2>2. heldSeg'.age <= Accepted + StallLimit + watchAge
    BY <1>2, <1>3, <2>1
  <2> QED
    BY <1>1, <1>3, <2>2 DEF Inv, WatchInv, Content, watchVars
<1> QED
  BY <1>4, <1>5, <1>6, <1>7 DEF Inv

LEMMA ObserveMarksStep == ASSUME Inv, ObserveMarks PROVE Inv'
<1>1. /\ worker = "seg" /\ worker' = "marks" /\ seg' = heldSeg /\ heldSeg' = NoSeg
      /\ UNCHANGED <<file, begun, lastTick, marks, watchVars, setbacks>>
  BY DEF ObserveMarks
<1>2. Accepted' = Accepted /\ Accepted \in Nat
  BY <1>1, AcceptedType DEF Inv, Accepted
<1>3. MarksKept(heldMarks') /\ heldMarks'.age <= Accepted
  <2>1. MarksKept(NoMarks) /\ NoMarks.age <= Accepted
    BY <1>2 DEF MarksKept, NoMarks
  <2>2. heldMarks' = ParseMarks(file) \/ heldMarks' = NoMarks
    BY DEF ObserveMarks
  <2>3. CASE heldMarks' = ParseMarks(file)
    BY <2>3, ParsedMarks
  <2>4. CASE heldMarks' = NoMarks
    BY <2>1, <2>4
  <2> QED
    BY <2>2, <2>3, <2>4
<1>4. heldMarks'.age \in Nat /\ seg'.age \in Nat /\ heldSeg.age \in Nat
  BY <1>1, <1>3, KeptAge DEF Inv, KeptInv
<1>5. /\ begun \in Nat /\ watchAge \in Nat /\ StallLimit \in Nat
      /\ lastTick # Never => lastTick \in Nat /\ begun <= lastTick
  BY <1>1, Limits DEF Inv, TimeInv
<1>6. TimeInv'
  BY <1>1 DEF Inv, TimeInv, watchVars
<1>7. KeptInv'
  BY <1>1, <1>3 DEF Inv, KeptInv, FileInv, SegKept, MarksKept
<1>8. SinceInv'
  <2>1. heldSeg.age <= Accepted + begun \/ begun > StallLimit
    BY <1>1 DEF Inv, SinceInv, Since
  <2>2. heldMarks'.age <= Accepted + begun
    BY <1>2, <1>3, <1>4, <1>5
  <2>3. lastTick # Never => heldSeg.age <= Accepted + lastTick \/ lastTick > StallLimit
    BY <1>2, <1>4, <1>5, <2>1
  <2> QED
    BY <1>1, <1>2, <2>1, <2>2, <2>3 DEF Inv, SinceInv, Since
<1>9. WatchInv'
  <2>1. heldMarks'.age <= Accepted + StallLimit + watchAge
    BY <1>2, <1>3, <1>4, <1>5
  <2> QED
    BY <1>1, <1>2, <2>1 DEF Inv, WatchInv, Content, watchVars
<1> QED
  BY <1>6, <1>7, <1>8, <1>9 DEF Inv

LEMMA EndTickStep == ASSUME Inv, EndTick PROVE Inv'
<1>1. /\ worker = "marks" /\ worker' = "idle" /\ marks' = heldMarks /\ heldMarks' = NoMarks
      /\ lastTick' = begun /\ begun' = 0
      /\ UNCHANGED <<file, heldSeg, seg, watchVars, setbacks>>
  BY DEF EndTick
<1>2. Accepted' = Accepted
  BY <1>1 DEF Accepted
<1>3. TimeInv'
  BY <1>1, Limits DEF Inv, TimeInv, watchVars, Never
<1>4. KeptInv'
  BY <1>1 DEF Inv, KeptInv, FileInv, SegKept, MarksKept
<1>5. SinceInv'
  BY <1>1, <1>2 DEF Inv, SinceInv, Since
<1>6. WatchInv'
  BY <1>1, <1>2 DEF Inv, WatchInv, Content, watchVars
<1> QED
  BY <1>3, <1>4, <1>5, <1>6 DEF Inv

\* The watchdog is content only when the last tick began within its limit, and all that is
\* kept is at least as young as that.
LEMMA WatchStep == ASSUME Inv, Watch PROVE Inv'
<1>1. /\ watchAge' = 0 /\ watched' = (lastTick # Never)
      /\ latched' = (lastTick # Never /\ lastTick > StallLimit)
      /\ UNCHANGED <<file, workerVars, adapterVars, setbacks>>
  BY DEF Watch
<1>2. Accepted' = Accepted /\ Accepted \in Nat
  BY <1>1, AcceptedType DEF Inv, Accepted
<1>3. /\ begun \in Nat /\ StallLimit \in Nat
      /\ lastTick # Never => lastTick \in Nat
      /\ worker \in {"seg", "marks"} /\ lastTick # Never => begun <= lastTick
  BY Limits DEF Inv, TimeInv
<1>4. /\ seg.age \in Nat /\ heldSeg.age \in Nat /\ marks.age \in Nat /\ heldMarks.age \in Nat
  BY KeptAge DEF Inv, KeptInv
<1>5. TimeInv'
  BY <1>1, Limits DEF Inv, TimeInv, workerVars
<1>6. KeptInv'
  BY <1>1 DEF Inv, KeptInv, FileInv, SegKept, MarksKept, adapterVars
<1>7. SinceInv'
  BY <1>1, <1>2 DEF Inv, SinceInv, Since, workerVars, adapterVars
<1>8. WatchInv'
  <2> SUFFICES ASSUME lastTick # Never, lastTick <= StallLimit
               PROVE  /\ seg.age <= Accepted + StallLimit + 0 /\ marks.age <= Accepted + StallLimit + 0
                      /\ worker = "seg" => heldSeg.age <= Accepted + StallLimit + 0
                      /\ worker = "marks" => heldMarks.age <= Accepted + StallLimit + 0
    BY <1>1, <1>2, <1>3 DEF WatchInv, Content, workerVars, adapterVars
  <2>1. seg.age <= Accepted + lastTick /\ marks.age <= Accepted + lastTick
    BY <1>3 DEF Inv, SinceInv, Since
  <2>2. worker = "seg" => heldSeg.age <= Accepted + begun
    BY <1>3 DEF Inv, SinceInv, Since
  <2>3. worker = "marks" => heldMarks.age <= Accepted + begun
    BY <1>3 DEF Inv, SinceInv, Since
  <2> QED
    BY <1>2, <1>3, <1>4, <2>1, <2>2, <2>3
<1> QED
  BY <1>5, <1>6, <1>7, <1>8 DEF Inv

\* All ages grow by one at most.
LEMMA ElapsedSeg ==
    ASSUME NEW o, SegKept(o)
    PROVE  LET next == IF o = NoSeg THEN NoSeg ELSE [o EXCEPT !.age = Older(@, Horizon)]
           IN  SegKept(next) /\ next.age <= o.age + 1
<1>1. CASE o = NoSeg
  BY <1>1 DEF SegKept, NoSeg
<1>2. ASSUME o # NoSeg, NEW p \in DOMAIN Pictures, NEW s, NEW a \in Nat,
             o = [picture |-> p, seg |-> s, age |-> a]
      PROVE  /\ [o EXCEPT !.age = Older(@, Horizon)] = [picture |-> p, seg |-> s, age |-> Older(a, Horizon)]
             /\ Older(a, Horizon) \in Nat /\ Older(a, Horizon) <= a + 1
  BY <1>2, OlderFacts, Horizons
<1>3. CASE o # NoSeg
  <2>1. PICK p \in DOMAIN Pictures, a \in Nat :
            \E s \in {ComputeSeg(Pictures[p].rows),
                     [valid |-> TRUE, offset |-> -Pictures[p].x, heading |-> Pictures[p].lean]} :
                o = [picture |-> p, seg |-> s, age |-> a]
    BY <1>3 DEF SegKept
  <2> PICK s \in {ComputeSeg(Pictures[p].rows),
                 [valid |-> TRUE, offset |-> -Pictures[p].x, heading |-> Pictures[p].lean]} :
                o = [picture |-> p, seg |-> s, age |-> a]
    BY <2>1
  <2>2. /\ [o EXCEPT !.age = Older(@, Horizon)] = [picture |-> p, seg |-> s, age |-> Older(a, Horizon)]
        /\ Older(a, Horizon) \in Nat /\ Older(a, Horizon) <= a + 1
    BY <1>2, <1>3, <2>1
  <2>3. SegKept([picture |-> p, seg |-> s, age |-> Older(a, Horizon)])
    BY <2>1, <2>2 DEF SegKept
  <2> QED
    BY <1>3, <2>1, <2>2, <2>3
<1> QED
  BY <1>1, <1>3

LEMMA ElapsedMarks ==
    ASSUME NEW o, MarksKept(o)
    PROVE  LET next == IF o.valid THEN [o EXCEPT !.age = Older(@, Horizon)] ELSE NoMarks
           IN  MarksKept(next) /\ next.age <= o.age + 1
<1>1. CASE o = NoMarks
  BY <1>1 DEF MarksKept, NoMarks
<1>2. ASSUME NEW p \in DOMAIN Pictures, NEW a \in Nat,
             o = [valid |-> TRUE, marks |-> Pictures[p].marks, age |-> a]
      PROVE  LET next == IF o.valid THEN [o EXCEPT !.age = Older(@, Horizon)] ELSE NoMarks
             IN  MarksKept(next) /\ next.age <= o.age + 1
  <2>1. Older(a, Horizon) \in Nat /\ Older(a, Horizon) <= a + 1
    <3>1. Horizon \in Nat /\ a \in Nat
      BY Horizons
    <3>2. Older(a, Horizon) = IF a + 1 <= Horizon THEN a + 1 ELSE Horizon
      BY <3>1, OlderFacts
    <3> QED
      BY <3>1, <3>2
  <2>2. o.valid /\ [o EXCEPT !.age = Older(@, Horizon)]
                      = [valid |-> TRUE, marks |-> Pictures[p].marks, age |-> Older(a, Horizon)]
    <3>1. o.valid = TRUE /\ o.age = a
      BY <1>2
    <3>2. PICK v, m : v = TRUE /\ m = Pictures[p].marks
      OBVIOUS
    <3>3. o = [valid |-> v, marks |-> m, age |-> a]
      BY <1>2, <3>2, Zenon
    <3>4. [o EXCEPT !.age = Older(a, Horizon)] = [valid |-> v, marks |-> m, age |-> Older(a, Horizon)]
      BY <3>3
    <3>5. [o EXCEPT !.age = Older(a, Horizon)]
              = [valid |-> TRUE, marks |-> Pictures[p].marks, age |-> Older(a, Horizon)]
      BY <3>2, <3>4, Zenon
    <3> QED
      BY <3>1, <3>5
  <2>3. MarksKept([valid |-> TRUE, marks |-> Pictures[p].marks, age |-> Older(a, Horizon)])
    BY <2>1 DEF MarksKept
  <2> QED
    BY <1>2, <2>1, <2>2, <2>3
<1> QED
  BY <1>1, <1>2 DEF MarksKept

LEMMA ElapseStep == ASSUME Inv, Elapse PROVE Inv'
<1>1. /\ watchAge < WatchPeriod /\ watchAge' = watchAge + 1
      /\ UNCHANGED <<worker, watched, latched, setbacks>>
  BY DEF Elapse
<1>2. Accepted' = Accepted /\ Accepted \in Nat
  BY <1>1, AcceptedType DEF Inv, Accepted
<1>3. /\ begun \in 0 .. StallLimit + 1 /\ lastTick \in {Never} \cup 0 .. StallLimit + 1
      /\ watchAge \in Nat /\ StallLimit \in Nat /\ WatchPeriod \in Nat
  BY Limits DEF Inv, TimeInv
<1>4. /\ begun' \in 0 .. StallLimit + 1
      /\ worker \in {"seg", "marks"} =>
            begun' = IF begun + 1 <= StallLimit + 1 THEN begun + 1 ELSE StallLimit + 1
  <2>1. Older(begun, StallLimit + 1) = IF begun + 1 <= StallLimit + 1 THEN begun + 1 ELSE StallLimit + 1
    <3>1. begun \in Nat /\ StallLimit + 1 \in Nat
      BY <1>3
    <3> QED
      BY <3>1, OlderFacts
  <2> QED
    BY <1>3, <2>1 DEF Elapse
<1>5. /\ lastTick' \in {Never} \cup 0 .. StallLimit + 1 /\ (lastTick' = Never <=> lastTick = Never)
      /\ lastTick # Never =>
            lastTick' = IF lastTick + 1 <= StallLimit + 1 THEN lastTick + 1 ELSE StallLimit + 1
  <2>1. CASE lastTick = Never
    BY <2>1 DEF Elapse, Older
  <2>2. CASE lastTick # Never
    <3>1. lastTick \in 0 .. StallLimit + 1
      BY <1>3, <2>2
    <3>2. lastTick' = IF lastTick + 1 <= StallLimit + 1 THEN lastTick + 1 ELSE StallLimit + 1
      BY <1>3, <3>1, OlderFacts DEF Elapse
    <3> QED
      BY <1>3, <2>2, <3>1, <3>2 DEF Never
  <2> QED
    BY <2>1, <2>2
<1>6. TimeInv'
  BY <1>1, <1>3, <1>4, <1>5 DEF Inv, TimeInv
<1>7. FileInv'
  <2>1. CASE file = NoFile
    BY <2>1 DEF Elapse, FileInv
  <2>2. CASE file # NoFile
    <3>1. PICK p \in DOMAIN Pictures, a \in Nat, b \in 0 .. setbacks * Setback :
              file = [picture |-> p, seg |-> ComputeSeg(Pictures[p].rows), age |-> a, back |-> b]
      BY <2>2 DEF Inv, KeptInv, FileInv
    <3>2. file' = [picture |-> p, seg |-> ComputeSeg(Pictures[p].rows), age |-> Older(a, TooOld), back |-> b]
      BY <2>2, <3>1 DEF Elapse
    <3>3. Older(a, TooOld) \in Nat
      BY OlderFacts, Horizons
    <3> QED
      BY <1>1, <3>2, <3>3 DEF FileInv
  <2> QED
    BY <2>1, <2>2
<1>8. /\ SegKept(seg') /\ seg'.age <= seg.age + 1
      /\ SegKept(heldSeg') /\ heldSeg'.age <= heldSeg.age + 1
  BY ElapsedSeg DEF Elapse, Inv, KeptInv
<1>9. /\ MarksKept(marks') /\ marks'.age <= marks.age + 1
      /\ MarksKept(heldMarks') /\ heldMarks'.age <= heldMarks.age + 1
  BY ElapsedMarks DEF Elapse, Inv, KeptInv
<1>10. KeptInv'
  BY <1>7, <1>8, <1>9 DEF KeptInv, SegKept, MarksKept
<1>11. /\ seg.age \in Nat /\ heldSeg.age \in Nat /\ marks.age \in Nat /\ heldMarks.age \in Nat
       /\ seg'.age \in Nat /\ heldSeg'.age \in Nat /\ marks'.age \in Nat /\ heldMarks'.age \in Nat
  BY <1>8, <1>9, KeptAge DEF Inv, KeptInv
<1>12. SinceInv'
  <2>1. ASSUME NEW a \in Nat, NEW b \in Nat, b <= a + 1, NEW s \in Nat, NEW t,
               t = (IF s + 1 <= StallLimit + 1 THEN s + 1 ELSE StallLimit + 1),
               a <= Accepted + s \/ s > StallLimit
        PROVE  b <= Accepted + t \/ t > StallLimit
    BY <1>2, <1>3, <2>1
  <2>2. worker = "seg" => Since(heldSeg, begun)'
    BY <1>2, <1>3, <1>4, <1>8, <1>11, <2>1 DEF Inv, SinceInv, Since
  <2>3. worker = "marks" => Since(seg, begun)' /\ Since(heldMarks, begun)'
    BY <1>2, <1>3, <1>4, <1>8, <1>9, <1>11, <2>1 DEF Inv, SinceInv, Since
  <2>4. lastTick # Never => Since(seg, lastTick)' /\ Since(marks, lastTick)'
    BY <1>2, <1>3, <1>5, <1>8, <1>9, <1>11, <2>1 DEF Inv, SinceInv, Since
  <2> QED
    BY <1>1, <1>5, <2>2, <2>3, <2>4 DEF SinceInv
<1>13. WatchInv'
  <2>1. ASSUME NEW a \in Nat, NEW b \in Nat, b <= a + 1, a <= Accepted + StallLimit + watchAge
        PROVE  b <= Accepted + StallLimit + (watchAge + 1)
    BY <1>2, <1>3, <2>1
  <2> QED
    BY <1>1, <1>2, <1>8, <1>9, <1>11, <2>1 DEF Inv, WatchInv, Content
<1> QED
  BY <1>6, <1>10, <1>12, <1>13 DEF Inv

LEMMA SetClockBackStep == ASSUME Inv, SetClockBack PROVE Inv'
<1>1. /\ setbacks < MaxSetbacks /\ setbacks' = setbacks + 1
      /\ UNCHANGED <<workerVars, adapterVars, watchVars>>
  BY DEF SetClockBack
<1>2. /\ setbacks * Setback \in Nat /\ setbacks' * Setback = setbacks * Setback + Setback
      /\ Accepted \in Nat /\ Accepted' \in Nat /\ Accepted <= Accepted'
  <2>1. setbacks * Setback \in Nat /\ (setbacks + 1) * Setback = setbacks * Setback + Setback
    BY AcceptedType, Limits, Products DEF Inv
  <2> QED
    BY <1>1, <2>1, Limits DEF Accepted
<1>3. TimeInv'
  BY <1>1, Limits DEF Inv, TimeInv, workerVars, watchVars
<1>4. FileInv'
  <2>1. CASE file = NoFile
    BY <2>1 DEF SetClockBack, FileInv
  <2>2. CASE file # NoFile
    <3>1. PICK p \in DOMAIN Pictures, a \in Nat, b \in 0 .. setbacks * Setback :
              file = [picture |-> p, seg |-> ComputeSeg(Pictures[p].rows), age |-> a, back |-> b]
      BY <2>2 DEF Inv, KeptInv, FileInv
    <3>2. file' = [picture |-> p, seg |-> ComputeSeg(Pictures[p].rows), age |-> a, back |-> b + Setback]
      BY <2>2, <3>1 DEF SetClockBack
    <3>3. b + Setback \in 0 .. (setbacks * Setback)'
      BY <1>2, Limits
    <3> QED
      BY <3>2, <3>3 DEF FileInv
  <2> QED
    BY <2>1, <2>2
<1>5. KeptInv'
  BY <1>1, <1>4 DEF Inv, KeptInv, SegKept, MarksKept, adapterVars
<1>6. /\ seg.age \in Nat /\ heldSeg.age \in Nat /\ marks.age \in Nat /\ heldMarks.age \in Nat
      /\ begun \in Nat /\ watchAge \in Nat /\ StallLimit \in Nat
      /\ lastTick # Never => lastTick \in Nat
  BY KeptAge, Limits DEF Inv, KeptInv, TimeInv
<1>7. SinceInv'
  BY <1>1, <1>2, <1>6 DEF Inv, SinceInv, Since, workerVars, adapterVars
<1>8. WatchInv'
  BY <1>1, <1>2, <1>6 DEF Inv, WatchInv, Content, workerVars, adapterVars, watchVars
<1> QED
  BY <1>3, <1>5, <1>7, <1>8 DEF Inv

LEMMA InvStep == Inv /\ [Next]_vars => Inv'
<1> SUFFICES ASSUME Inv, [Next]_vars PROVE Inv'
  OBVIOUS
<1>1. CASE UNCHANGED vars
  <2>1. Accepted' = Accepted
    BY <1>1 DEF vars, Accepted
  <2> QED
    BY <1>1, <2>1 DEF vars, workerVars, adapterVars, watchVars, Inv, TimeInv, KeptInv, FileInv, SegKept,
                      MarksKept, SinceInv, Since, WatchInv, Content
<1> QED
  BY <1>1, VisionProcessStep, LoadStep, ObserveSegStep, ObserveMarksStep, EndTickStep, WatchStep, ElapseStep,
     SetClockBackStep DEF Next, Worker

-----------------------------------------------------------------------------
(* What follows of the results that are used.                              *)

\* The correction never leads away from the lane that was seen (seg_adapter.py:93-99): to the
\* right when the centre of the lane is to the right and the lane does not lead back.
LEMMA CorrectionIsTowards ==
    ASSUME NEW s, NEW x \in Int, NEW lean \in Int,
           s.valid => s.offset = -x /\ s.heading = lean
    PROVE  LET corr == CorrectionWheel(s)
           IN  corr # 0 => /\ x >= 0 /\ lean <= 0 => corr > 0
                           /\ x <= 0 /\ lean >= 0 => corr < 0
<1>1. OffsetGain \in Nat /\ HeadingGain \in Nat /\ MaxCorrection \in Nat
  BY GainsAssumption
<1>2. CASE ~s.valid
  BY <1>2 DEF CorrectionWheel
<1>3. CASE s.valid
  <2>1. PICK a \in Int, b \in Int : a = OffsetGain * (-x) /\ b = HeadingGain * lean
    BY <1>1
  <2>2. /\ x >= 0 => a <= 0
        /\ x <= 0 => a >= 0
    BY <1>1, <2>1
  <2>3. /\ lean <= 0 => b <= 0
        /\ lean >= 0 => b >= 0
    BY <1>1, <2>1
  <2>4. CorrectionWheel(s) = Max({-MaxCorrection, Min({MaxCorrection, -(a + b)})})
    BY <1>3, <2>1 DEF CorrectionWheel
  <2>5. PICK m \in Int : m = Min({MaxCorrection, -(a + b)})
                          /\ m = IF MaxCorrection <= -(a + b) THEN MaxCorrection ELSE -(a + b)
    BY <1>1, <2>1, MinOfTwo
  <2>6. PICK low \in Int : low = -MaxCorrection
    BY <1>1
  <2>7. CorrectionWheel(s) = Max({low, m})
    BY <2>4, <2>5, <2>6
  <2>8. CorrectionWheel(s) = IF low >= m THEN low ELSE m
    BY <2>7, MaxOfTwo
  <2> QED
    BY <1>1, <2>1, <2>2, <2>3, <2>5, <2>6, <2>8
<1> QED
  BY <1>2, <1>3

-----------------------------------------------------------------------------
(* Reading a row.                                                          *)

\* Whichever lines of a lane and its neighbours are hidden in a row, the centre that is read
\* from it, if one is, is that of the lane the vehicle is in: as long as the vehicle's axis is
\* in that lane, and the widths tell one lane from two (vision_runner.py, compute_seg).
THEOREM RowsAreRead ==
    ASSUME NEW x \in -LaneHalf + 1 .. LaneHalf - 1,
           NEW row \in SUBSET LaneLines(x)
    PROVE  /\ Paired(row) => PairCentre(row) = x
           /\ ~Paired(row) /\ Cardinality(Near(row)) = 1 => SingleCentre(row) = x
<1> DEFINE Line == {x - 3 * LaneHalf, x - LaneHalf, x + LaneHalf, x + 3 * LaneHalf}
<1> USE LaneAssumption DEF LaneLines
<1>1. /\ x \in Int /\ LaneHalf \in Int /\ -LaneHalf < x /\ x < LaneHalf
      /\ \A c \in row : c \in Int /\ c \in Line
  OBVIOUS
<1>2. ASSUME Paired(row)
      PROVE  PairCentre(row) = x
  <2>1. PICK l \in row, r \in row : /\ l < 0 /\ 0 < r /\ r - l \in LaneWidths
                                  /\ \A c \in row : c <= l \/ r <= c
    BY <1>2 DEF Paired
  <2>2. l = x - LaneHalf /\ r = x + LaneHalf
    <3>1. l \in {x - 3 * LaneHalf, x - LaneHalf} /\ r \in {x + LaneHalf, x + 3 * LaneHalf}
      BY <1>1, <2>1
    <3>2. r - l # 4 * LaneHalf /\ r - l # 6 * LaneHalf
      BY <2>1
    <3> QED
      BY <1>1, <3>1, <3>2
  <2>3. Max({c \in row : c < 0}) = l
    <3>1. l \in {c \in row : c < 0} /\ \A y \in {c \in row : c < 0} : y \in Int /\ l >= y
      BY <1>1, <2>1
    <3>2. PICK m : m = Max({c \in row : c < 0})
      OBVIOUS
    <3>3. m \in {c \in row : c < 0} /\ \A y \in {c \in row : c < 0} : m >= y
      BY <3>1, <3>2 DEF Max
    <3>4. m \in Int /\ l \in Int /\ m >= l /\ l >= m
      BY <3>1, <3>3
    <3> QED
      BY <3>2, <3>4
  <2>4. Min({c \in row : 0 < c}) = r
    <3>1. r \in {c \in row : 0 < c} /\ \A y \in {c \in row : 0 < c} : y \in Int /\ r =< y
      BY <1>1, <2>1
    <3>2. PICK m : m = Min({c \in row : 0 < c})
      OBVIOUS
    <3>3. m \in {c \in row : 0 < c} /\ \A y \in {c \in row : 0 < c} : m =< y
      BY <3>1, <3>2 DEF Min
    <3>4. m \in Int /\ r \in Int /\ m =< r /\ r =< m
      BY <3>1, <3>3
    <3> QED
      BY <3>2, <3>4
  <2> QED
    BY <1>1, <2>2, <2>3, <2>4 DEF PairCentre
<1>3. ASSUME Cardinality(Near(row)) = 1
      PROVE  SingleCentre(row) = x
  <2>1. IsFiniteSet(Near(row))
    <3>1. ASSUME NEW a, NEW b, NEW c, NEW d
          PROVE  IsFiniteSet({a, b, c, d})
      <4>1. IsFiniteSet({a, b})
        BY FS_Singleton, FS_AddElement, IsFiniteSet({a}), {a} \cup {b} = {a, b}
      <4>2. IsFiniteSet({a, b, c})
        BY <4>1, FS_AddElement, {a, b} \cup {c} = {a, b, c}
      <4> QED
        BY <4>2, FS_AddElement, {a, b, c} \cup {d} = {a, b, c, d}
    <3> QED
      BY <3>1, FS_Subset DEF Near
  <2>2. PICK c : Near(row) = {c}
    BY <1>3, <2>1, FS_Singleton
  <2>3. PICK d : d = CHOOSE e \in Near(row) : TRUE
    OBVIOUS
  <2>4. c \in Line /\ -SingleGate <= c /\ c <= SingleGate
    BY <1>1, <2>2 DEF Near
  <2>5. c = x - LaneHalf \/ c = x + LaneHalf
    BY <1>1, <2>4
  <2>6. SingleCentre(row) = IF c < 0 THEN c + LaneHalf ELSE c - LaneHalf
    <3>1. SingleCentre(row) = IF d < 0 THEN d + LaneHalf ELSE d - LaneHalf
      <4>1. SingleCentre(row) = IF (CHOOSE e \in Near(row) : TRUE) < 0
                                THEN (CHOOSE e \in Near(row) : TRUE) + LaneHalf
                                ELSE (CHOOSE e \in Near(row) : TRUE) - LaneHalf
        BY DEF SingleCentre
      <4> QED
        BY <2>3, <4>1, Zenon
    <3> QED
      BY <2>2, <2>3, <3>1
  <2>7. CASE c = x - LaneHalf
    BY <1>1, <2>6, <2>7
  <2>8. CASE c = x + LaneHalf
    BY <1>1, <2>6, <2>8
  <2> QED
    BY <2>5, <2>7, <2>8
<1> QED
  BY <1>2, <1>3
-----------------------------------------------------------------------------
(* Sums over finite sets.                                                   *)

\* What holds of the empty set, and of a set if it holds of that set without any of its
\* members, holds of every subset of a finite set.
LEMMA SubsetInduction ==
    ASSUME NEW S, IsFiniteSet(S), NEW Good, {} \in Good,
           \A T \in SUBSET S : T # {} /\ (\A x \in T : T \ {x} \in Good) => T \in Good
    PROVE  SUBSET S \subseteq Good
<1> SUFFICES ASSUME (SUBSET S) \ Good # {} PROVE FALSE
  OBVIOUS
<1> DEFINE Bad == (SUBSET S) \ Good
<1>1. PICK T \in Bad : \A U \in Bad : <<U, T>> \notin StrictSubsetOrdering(S)
  <2>1. IsWellFoundedOn(StrictSubsetOrdering(S), FiniteSubsetsOf(S)) /\ FiniteSubsetsOf(S) = SUBSET S
    BY FS_StrictSubsetOrderingWellFounded, FS_FiniteSubsetsOfFinite
  <2>2. Bad \subseteq FiniteSubsetsOf(S) /\ Bad # {}
    BY <2>1
  <2> HIDE DEF Bad
  <2> QED
    BY <2>1, <2>2, WFMin
<1>2. ASSUME NEW x \in T PROVE T \ {x} \in Good
  <2>1. <<T \ {x}, T>> \in StrictSubsetOrdering(S)
    BY <1>2 DEF StrictSubsetOrdering
  <2> QED
    BY <1>1, <2>1
<1>3. T \in SUBSET S /\ T \notin Good /\ T # {}
  BY <1>1
<1> QED
  BY <1>2, <1>3

\* g sums f over every set of D, taking out one member after the other.
Some(U) == CHOOSE x \in U : TRUE
Unfolded(g, D, f) == [U \in D |-> IF U = {} THEN 0 ELSE f[Some(U)] + g[U \ {Some(U)}]]
Sums(g, D, f) == g \in [D -> Int] /\ g = Unfolded(g, D, f)

LEMMA SomeIsIn == ASSUME NEW U, U # {} PROVE Some(U) \in U
BY DEF Some

LEMMA SumsExist ==
    ASSUME NEW S, IsFiniteSet(S), NEW f \in [S -> Int]
    PROVE  \E g : Sums(g, SUBSET S, f)
<1> DEFINE Upto(k) == {U \in SUBSET S : Cardinality(U) <= k}
           Good == {T \in SUBSET S : \E g : Sums(g, Upto(Cardinality(T)), f)}
<1>1. ASSUME NEW U \in SUBSET S
      PROVE  /\ IsFiniteSet(U) /\ Cardinality(U) \in Nat /\ Cardinality(U) <= Cardinality(S)
             /\ (Cardinality(U) = 0 <=> U = {})
             /\ \A x \in U : Cardinality(U \ {x}) = Cardinality(U) - 1
  BY FS_Subset, FS_CardinalityType, FS_EmptySet, FS_RemoveElement
<1>2. {} \in Good
  <2>1. Upto(0) = {{}}
    BY <1>1
  <2>2. Sums([U \in {{}} |-> 0], {{}}, f)
    BY DEF Sums, Unfolded
  <2>3. Cardinality({}) = 0
    BY <1>1
  <2> HIDE DEF Upto
  <2> QED
    BY <2>1, <2>2, <2>3
<1>3. ASSUME NEW T \in SUBSET S, NEW x \in T, T \ {x} \in Good
      PROVE  T \in Good
  <2> DEFINE k == Cardinality(T \ {x})
  <2>1. k \in Nat /\ Cardinality(T) = k + 1
    BY <1>1, T \ {x} \in SUBSET S
  <2>2. PICK g : Sums(g, Upto(k), f)
    BY <1>3
  <2> HIDE DEF k
  <2> DEFINE h == Unfolded(g, Upto(k + 1), f)
  <2>3. ASSUME NEW U \in Upto(k + 1), U # {}
        PROVE  Some(U) \in S /\ U \ {Some(U)} \in Upto(k)
    <3>1. Some(U) \in U /\ U \in SUBSET S /\ Cardinality(U) <= k + 1
      BY <2>3, SomeIsIn
    <3>2. Cardinality(U \ {Some(U)}) = Cardinality(U) - 1 /\ Cardinality(U) \in Nat
      BY <1>1, <3>1
    <3> QED
      BY <2>1, <3>1, <3>2
  <2>4. Upto(k) \subseteq Upto(k + 1)
    BY <2>1, <1>1
  <2>5. g \in [Upto(k) -> Int] /\ g = Unfolded(g, Upto(k), f)
    BY <2>2 DEF Sums
  <2> HIDE DEF Upto
  <2>6. h \in [Upto(k + 1) -> Int]
    <3>1. ASSUME NEW U \in Upto(k + 1), U # {}
          PROVE  f[Some(U)] + g[U \ {Some(U)}] \in Int
      <4>1. f[Some(U)] \in Int /\ g[U \ {Some(U)}] \in Int
        BY <2>3, <2>5, <3>1
      <4> QED
        BY <4>1
    <3> QED
      BY <3>1 DEF Unfolded
  <2>7. ASSUME NEW U \in Upto(k)
        PROVE  h[U] = g[U]
    BY <2>4, <2>5, <2>7 DEF Unfolded
  <2>8. h = Unfolded(h, Upto(k + 1), f)
    <3>1. ASSUME NEW U \in Upto(k + 1)
          PROVE  (IF U = {} THEN 0 ELSE f[Some(U)] + g[U \ {Some(U)}])
                    = (IF U = {} THEN 0 ELSE f[Some(U)] + h[U \ {Some(U)}])
      BY <2>3, <2>7
    <3> QED
      BY <3>1 DEF Unfolded
  <2> HIDE DEF h
  <2>9. Sums(h, Upto(k + 1), f)
    BY <2>6, <2>8 DEF Sums
  <2> QED
    BY <2>1, <2>9
<1>4. S \in Good
  <2> HIDE DEF Good
  <2>1. \A T \in SUBSET S : T # {} /\ (\A x \in T : T \ {x} \in Good) => T \in Good
    BY <1>3
  <2> QED
    BY <1>2, <2>1, SubsetInduction
<1>5. Upto(Cardinality(S)) = SUBSET S
  BY <1>1
<1> HIDE DEF Upto
<1> QED
  BY <1>4, <1>5

LEMMA SumsAreUnique ==
    ASSUME NEW S, IsFiniteSet(S), NEW f \in [S -> Int], NEW g, Sums(g, SUBSET S, f),
           NEW h, h = Unfolded(h, SUBSET S, f)
    PROVE  h = g
<1> DEFINE Good == {T \in SUBSET S : h[T] = g[T]}
<1>1. g = Unfolded(g, SUBSET S, f)
  BY DEF Sums
<1>2. {} \in Good
  BY <1>1 DEF Unfolded
<1>3. ASSUME NEW T \in SUBSET S, T # {}, \A x \in T : T \ {x} \in Good
      PROVE  T \in Good
  <2>1. Some(T) \in T
    BY <1>3, SomeIsIn
  <2>2. h[T \ {Some(T)}] = g[T \ {Some(T)}]
    BY <1>3, <2>1
  <2>3. h[T] = f[Some(T)] + h[T \ {Some(T)}]
    BY <1>3 DEF Unfolded
  <2>4. g[T] = f[Some(T)] + g[T \ {Some(T)}]
    BY <1>1, <1>3 DEF Unfolded
  <2> QED
    BY <2>2, <2>3, <2>4
<1>4. SUBSET S \subseteq Good
  <2> HIDE DEF Good
  <2> QED
    BY <1>2, <1>3, SubsetInduction
<1>5. \A T \in SUBSET S : h[T] = g[T]
  BY <1>4
<1>6. h = [T \in SUBSET S |-> h[T]] /\ g = [T \in SUBSET S |-> g[T]]
  BY <1>1 DEF Unfolded
<1> QED
  BY <1>5, <1>6

\* The sum over a set is one of the sums over its subsets.
LEMMA SumIsOne ==
    ASSUME NEW S, IsFiniteSet(S), NEW f \in [S -> Int]
    PROVE  \E g : Sums(g, SUBSET S, f) /\ SumFunction(f) = g[S]
<1> DEFINE Unfolds(h) == h = [s \in SUBSET S |-> IF s = {} THEN 0
                                 ELSE f[CHOOSE x \in s : TRUE] + h[s \ {CHOOSE x \in s : TRUE}]]
<1>1. PICK g : Sums(g, SUBSET S, f)
  BY SumsExist
<1>2. ASSUME NEW h PROVE Unfolds(h) <=> h = Unfolded(h, SUBSET S, f)
  BY DEF Unfolded, Some
<1>3. Unfolds(CHOOSE h : Unfolds(h))
  <2>1. Unfolds(g)
    BY <1>1, <1>2 DEF Sums
  <2> HIDE DEF Unfolds
  <2> QED
    BY <2>1, Zenon
<1>4. SumFunction(f) = (CHOOSE h : Unfolds(h))[S]
  <2>1. DOMAIN f = S
    OBVIOUS
  <2> QED
    BY <2>1 DEF SumFunction, SumFunctionOnSet, FoldFunctionOnSet, MapThenFoldSet
<1> HIDE DEF Unfolds
<1>5. (CHOOSE h : Unfolds(h)) = g
  <2> DEFINE h == CHOOSE q : Unfolds(q)
  <2>1. h = Unfolded(h, SUBSET S, f)
    BY <1>2, <1>3
  <2> HIDE DEF h
  <2>2. h = g
    BY <1>1, <2>1, SumsAreUnique
  <2> QED
    BY <2>2 DEF h
<1> QED
  BY <1>1, <1>4, <1>5

Takes(g, S, f) ==
    \A T \in SUBSET S : T # {} => g[T] = f[Some(T)] + g[T \ {Some(T)}]
LEMMA SumsUnfold ==
    ASSUME NEW S, NEW f \in [S -> Int], NEW g, Sums(g, SUBSET S, f)
    PROVE  /\ \A T \in SUBSET S : g[T] \in Int
           /\ g[{}] = 0
           /\ Takes(g, S, f)
<1>1. g \in [SUBSET S -> Int] /\ g = Unfolded(g, SUBSET S, f)
  BY DEF Sums
<1>2. \A T \in SUBSET S : g[T] \in Int
  BY <1>1
<1>3. \A T \in SUBSET S : g[T] = IF T = {} THEN 0 ELSE f[Some(T)] + g[T \ {Some(T)}]
  BY <1>1 DEF Unfolded
<1> QED
  BY <1>2, <1>3 DEF Takes

-----------------------------------------------------------------------------
(* Fitting a line to centres that lie on one.                              *)

OnLine(S, b, l) ==
    /\ \A p \in S : p.row \in Int /\ p.x = b + l * p.row
    /\ \A p, q \in S : p.row = q.row => p = q

Rows(S) == [p \in S |-> p.row]
Xs(S) == [p \in S |-> p.x]
RowRows(S) == [p \in S |-> p.row * p.row]
RowXs(S) == [p \in S |-> p.row * p.x]

LEMMA PointTypes ==
    ASSUME NEW S, NEW b \in Int, NEW l \in Int, OnLine(S, b, l)
    PROVE  /\ Rows(S) \in [S -> Int] /\ Xs(S) \in [S -> Int]
           /\ RowRows(S) \in [S -> Int] /\ RowXs(S) \in [S -> Int]
<1>1. ASSUME NEW p \in S
      PROVE  p.row \in Int /\ p.x \in Int /\ p.row * p.row \in Int /\ p.row * p.x \in Int
  <2>1. p.row \in Int /\ p.x = b + l * p.row
    BY DEF OnLine
  <2>2. p.x \in Int
    BY <2>1
  <2> QED
    BY <2>1, <2>2
<1> QED
  BY <1>1 DEF Rows, Xs, RowRows, RowXs

LEMMA LineAlgebra ==
    ASSUME NEW b \in Int, NEW l \in Int, NEW r \in Int, NEW n \in Int,
           NEW sr \in Int, NEW sx \in Int, NEW srr \in Int, NEW srx \in Int,
           sx = n * b + l * sr, srx = b * sr + l * srr
    PROVE  /\ (b + l * r) + sx = (n + 1) * b + l * (r + sr)
           /\ r * (b + l * r) + srx = b * (r + sr) + l * (r * r + srr)
OBVIOUS

\* The sums of points on a line.
LEMMA SumsOnLine ==
    ASSUME NEW S, IsFiniteSet(S), NEW b \in Int, NEW l \in Int, OnLine(S, b, l),
           NEW gr, Sums(gr, SUBSET S, Rows(S)), NEW gx, Sums(gx, SUBSET S, Xs(S)),
           NEW grr, Sums(grr, SUBSET S, RowRows(S)), NEW grx, Sums(grx, SUBSET S, RowXs(S))
    PROVE  /\ gx[S] = Cardinality(S) * b + l * gr[S]
           /\ grx[S] = b * gr[S] + l * grr[S]
<1> DEFINE Good == {T \in SUBSET S : /\ gx[T] = Cardinality(T) * b + l * gr[T]
                                     /\ grx[T] = b * gr[T] + l * grr[T]}
<1>0. Takes(gr, S, Rows(S)) /\ Takes(gx, S, Xs(S)) /\ Takes(grr, S, RowRows(S)) /\ Takes(grx, S, RowXs(S))
  BY PointTypes, SumsUnfold
<1>1. \A T \in SUBSET S : /\ gr[T] \in Int /\ gx[T] \in Int /\ grr[T] \in Int /\ grx[T] \in Int
                          /\ Cardinality(T) \in Nat
  BY PointTypes, SumsUnfold, FS_Subset, FS_CardinalityType
<1>2. {} \in Good
  <2>1. gr[{}] = 0 /\ gx[{}] = 0 /\ grr[{}] = 0 /\ grx[{}] = 0 /\ Cardinality({}) = 0
    BY PointTypes, SumsUnfold, FS_EmptySet
  <2> QED
    BY <2>1
<1>3. ASSUME NEW T \in SUBSET S, T # {}, \A x \in T : T \ {x} \in Good
      PROVE  T \in Good
  <2>1. PICK p \in S : p = Some(T) /\ p \in T
    BY <1>3, SomeIsIn
  <2>2. PICK U \in SUBSET S : U = T \ {p} /\ U \in Good
    BY <1>3, <2>1
  <2>3. p.row \in Int /\ p.x = b + l * p.row
    BY DEF OnLine
  <2>4. /\ gr[T] = p.row + gr[U] /\ gx[T] = p.x + gx[U]
        /\ grr[T] = p.row * p.row + grr[U] /\ grx[T] = p.row * p.x + grx[U]
    <3>0. ASSUME NEW f, NEW g, Takes(g, S, f)
          PROVE  g[T] = f[p] + g[U]
      <4>1. U = T \ {p}
        BY <2>2
      <4>2. g[T] = f[Some(T)] + g[T \ {Some(T)}]
        BY <2>1, <3>0 DEF Takes
      <4> QED
        BY <2>1, <4>1, <4>2
    <3>1. /\ gr[T] = Rows(S)[p] + gr[U] /\ gx[T] = Xs(S)[p] + gx[U]
          /\ grr[T] = RowRows(S)[p] + grr[U] /\ grx[T] = RowXs(S)[p] + grx[U]
      BY <1>0, <3>0
    <3> QED
      BY <3>1 DEF Rows, Xs, RowRows, RowXs
  <2>5. Cardinality(T) = Cardinality(U) + 1
    <3>1. IsFiniteSet(T) /\ Cardinality(T) \in Nat /\ Cardinality({}) = 0
      BY FS_Subset, FS_CardinalityType, FS_EmptySet
    <3>2. Cardinality(T \ {p}) = Cardinality(T) - 1
      BY <2>1, <3>1, FS_RemoveElement
    <3> QED
      BY <2>2, <3>1, <3>2
  <2>6. gx[U] = Cardinality(U) * b + l * gr[U] /\ grx[U] = b * gr[U] + l * grr[U]
    BY <2>2
  <2>7. PICK r \in Int, n \in Int, sr \in Int, sx \in Int, srr \in Int, srx \in Int :
            /\ r = p.row /\ n = Cardinality(U) /\ sr = gr[U] /\ sx = gx[U]
            /\ srr = grr[U] /\ srx = grx[U]
    <3>1. gr[U] \in Int /\ gx[U] \in Int /\ grr[U] \in Int /\ grx[U] \in Int /\ Cardinality(U) \in Int
      BY <1>1
    <3> QED
      BY <2>3, <3>1, Zenon
  <2> HIDE DEF Good
  <2>8. /\ (b + l * r) + sx = (n + 1) * b + l * (r + sr)
        /\ r * (b + l * r) + srx = b * (r + sr) + l * (r * r + srr)
    <3>1. sx = n * b + l * sr /\ srx = b * sr + l * srr
      BY <2>6, <2>7
    <3> QED
      BY <3>1, LineAlgebra
  <2>9. /\ gx[T] = Cardinality(T) * b + l * gr[T]
        /\ grx[T] = b * gr[T] + l * grr[T]
    BY <2>3, <2>4, <2>5, <2>7, <2>8
  <2> QED
    BY <2>9 DEF Good
<1>4. SUBSET S \subseteq Good
  <2> HIDE DEF Good
  <2> QED
    BY <1>2, <1>3, SubsetInduction
<1> QED
  BY <1>4

LEMMA SquareGrows ==
    ASSUME NEW n \in Int, NEW r \in Int, NEW p \in Int, NEW sr \in Int, NEW srr \in Int
    PROVE  /\ (p * p + srr) - 2 * r * (p + sr) + (n + 1) * (r * r)
                 = (srr - 2 * r * sr + n * (r * r)) + (p - r) * (p - r)
           /\ (p - r) * (p - r) >= 0 /\ (p # r => (p - r) * (p - r) > 0)
<1>1. PICK d \in Int : d = p - r
  OBVIOUS
<1>2. d * d >= 0 /\ (d # 0 => d * d > 0)
  OBVIOUS
<1> QED
  BY <1>1, <1>2

\* The squares of the distances from a row add up to something.
LEMMA Scatter ==
    ASSUME NEW S, IsFiniteSet(S), NEW b \in Int, NEW l \in Int, OnLine(S, b, l), NEW r \in Int,
           NEW gr, Sums(gr, SUBSET S, Rows(S)), NEW grr, Sums(grr, SUBSET S, RowRows(S)),
           NEW T \in SUBSET S
    PROVE  /\ grr[T] - 2 * r * gr[T] + Cardinality(T) * (r * r) >= 0
           /\ T # {} /\ (\A p \in T : p.row # r) =>
                 grr[T] - 2 * r * gr[T] + Cardinality(T) * (r * r) > 0
<1> DEFINE Q(X) == grr[X] - 2 * r * gr[X] + Cardinality(X) * (r * r)
           Good == {X \in SUBSET S : Q(X) >= 0 /\ (X # {} /\ (\A p \in X : p.row # r) => Q(X) > 0)}
<1>0. Takes(gr, S, Rows(S)) /\ Takes(grr, S, RowRows(S))
  BY PointTypes, SumsUnfold
<1>1. \A X \in SUBSET S : gr[X] \in Int /\ grr[X] \in Int /\ Cardinality(X) \in Nat
  BY PointTypes, SumsUnfold, FS_Subset, FS_CardinalityType
<1>2. {} \in Good
  <2>1. gr[{}] = 0 /\ grr[{}] = 0 /\ Cardinality({}) = 0
    BY PointTypes, SumsUnfold, FS_EmptySet
  <2> QED
    BY <2>1
<1>3. ASSUME NEW X \in SUBSET S, X # {}, \A x \in X : X \ {x} \in Good
      PROVE  X \in Good
  <2>1. PICK p \in S : p = Some(X) /\ p \in X
    BY <1>3, SomeIsIn
  <2>2. PICK U \in SUBSET S : U = X \ {p} /\ U \in Good
    BY <1>3, <2>1
  <2>3. p.row \in Int
    BY DEF OnLine
  <2>4. gr[X] = p.row + gr[U] /\ grr[X] = p.row * p.row + grr[U]
    <3>0. ASSUME NEW f, NEW g, Takes(g, S, f)
          PROVE  g[X] = f[p] + g[U]
      <4>1. U = X \ {p}
        BY <2>2
      <4>2. g[X] = f[Some(X)] + g[X \ {Some(X)}]
        BY <2>1, <3>0 DEF Takes
      <4> QED
        BY <2>1, <4>1, <4>2
    <3>1. gr[X] = Rows(S)[p] + gr[U] /\ grr[X] = RowRows(S)[p] + grr[U]
      BY <1>0, <3>0
    <3> QED
      BY <3>1 DEF Rows, RowRows
  <2>5. Cardinality(X) = Cardinality(U) + 1
    <3>1. IsFiniteSet(X) /\ Cardinality(X) \in Nat /\ Cardinality({}) = 0
      BY FS_Subset, FS_CardinalityType, FS_EmptySet
    <3>2. Cardinality(X \ {p}) = Cardinality(X) - 1
      BY <2>1, <3>1, FS_RemoveElement
    <3> QED
      BY <2>2, <3>1, <3>2
  <2>6. PICK m \in Int, n \in Int, sr \in Int, srr \in Int :
            m = p.row /\ n = Cardinality(U) /\ sr = gr[U] /\ srr = grr[U]
    BY <1>1, <2>3
  <2>7. Q(U) >= 0
    BY <2>2
  <2> HIDE DEF Good
  <2>8. Q(X) = Q(U) + (m - r) * (m - r) /\ Q(U) \in Int
    <3>1. (m * m + srr) - 2 * r * (m + sr) + (n + 1) * (r * r)
             = (srr - 2 * r * sr + n * (r * r)) + (m - r) * (m - r)
      BY SquareGrows
    <3>2. Q(U) = srr - 2 * r * sr + n * (r * r)
      BY <2>6
    <3>3. Q(X) = (m * m + srr) - 2 * r * (m + sr) + (n + 1) * (r * r)
      BY <2>4, <2>5, <2>6
    <3> HIDE DEF Q
    <3> QED
      BY <3>1, <3>2, <3>3
  <2> HIDE DEF Q
  <2>9. (m - r) * (m - r) \in Int /\ (m - r) * (m - r) >= 0 /\ (m # r => (m - r) * (m - r) > 0)
    BY SquareGrows
  <2>10. Q(X) >= 0 /\ (m # r => Q(X) > 0)
    BY <2>7, <2>8, <2>9
  <2> QED
    BY <2>1, <2>6, <2>10 DEF Good
<1>4. SUBSET S \subseteq Good
  <2> HIDE DEF Good
  <2> QED
    BY <1>2, <1>3, SubsetInduction
<1> QED
  BY <1>4

LEMMA SpreadGrows ==
    ASSUME NEW n \in Int, NEW r \in Int, NEW sr \in Int, NEW srr \in Int
    PROVE  (n + 1) * (r * r + srr) - (r + sr) * (r + sr)
              = (n * srr - sr * sr) + (srr - 2 * r * sr + n * (r * r))
OBVIOUS

\* What the slope is divided by is not zero when there are two rows.
LEMMA SpreadIsPositive ==
    ASSUME NEW S, IsFiniteSet(S), NEW b \in Int, NEW l \in Int, OnLine(S, b, l), Cardinality(S) >= 2,
           NEW gr, Sums(gr, SUBSET S, Rows(S)), NEW grr, Sums(grr, SUBSET S, RowRows(S))
    PROVE  Cardinality(S) * grr[S] - gr[S] * gr[S] > 0
<1> DEFINE D(X) == Cardinality(X) * grr[X] - gr[X] * gr[X]
           Good == {X \in SUBSET S : D(X) >= 0 /\ (Cardinality(X) >= 2 => D(X) > 0)}
<1>0. Takes(gr, S, Rows(S)) /\ Takes(grr, S, RowRows(S))
  BY PointTypes, SumsUnfold
<1>1. \A X \in SUBSET S : gr[X] \in Int /\ grr[X] \in Int /\ Cardinality(X) \in Nat
  BY PointTypes, SumsUnfold, FS_Subset, FS_CardinalityType
<1>2. {} \in Good
  <2>1. gr[{}] = 0 /\ grr[{}] = 0 /\ Cardinality({}) = 0
    BY PointTypes, SumsUnfold, FS_EmptySet
  <2> QED
    BY <2>1
<1>3. ASSUME NEW X \in SUBSET S, X # {}, \A x \in X : X \ {x} \in Good
      PROVE  X \in Good
  <2>1. PICK p \in S : p = Some(X) /\ p \in X
    BY <1>3, SomeIsIn
  <2>2. PICK U \in SUBSET S : U = X \ {p} /\ U \in Good
    BY <1>3, <2>1
  <2>3. p.row \in Int /\ \A q \in U : q.row # p.row
    BY <2>1, <2>2 DEF OnLine
  <2>4. gr[X] = p.row + gr[U] /\ grr[X] = p.row * p.row + grr[U]
    <3>0. ASSUME NEW f, NEW g, Takes(g, S, f)
          PROVE  g[X] = f[p] + g[U]
      <4>1. U = X \ {p}
        BY <2>2
      <4>2. g[X] = f[Some(X)] + g[X \ {Some(X)}]
        BY <2>1, <3>0 DEF Takes
      <4> QED
        BY <2>1, <4>1, <4>2
    <3>1. gr[X] = Rows(S)[p] + gr[U] /\ grr[X] = RowRows(S)[p] + grr[U]
      BY <1>0, <3>0
    <3> QED
      BY <3>1 DEF Rows, RowRows
  <2>5. Cardinality(X) = Cardinality(U) + 1 /\ (U = {} => Cardinality(U) = 0)
    <3>1. IsFiniteSet(X) /\ Cardinality(X) \in Nat /\ Cardinality({}) = 0
      BY FS_Subset, FS_CardinalityType, FS_EmptySet
    <3>2. Cardinality(X \ {p}) = Cardinality(X) - 1
      BY <2>1, <3>1, FS_RemoveElement
    <3> QED
      BY <2>2, <3>1, <3>2
  <2>6. PICK r \in Int, n \in Int, sr \in Int, srr \in Int :
            r = p.row /\ n = Cardinality(U) /\ sr = gr[U] /\ srr = grr[U]
    BY <1>1, <2>3
  <2>7. PICK q \in Int : /\ q = srr - 2 * r * sr + n * (r * r)
                         /\ q >= 0 /\ (U # {} => q > 0)
    <3>1. /\ grr[U] - 2 * r * gr[U] + Cardinality(U) * (r * r) >= 0
          /\ U # {} /\ (\A x \in U : x.row # r) =>
                grr[U] - 2 * r * gr[U] + Cardinality(U) * (r * r) > 0
      BY Scatter
    <3>2. \A x \in U : x.row # r
      BY <2>3, <2>6
    <3>3. srr - 2 * r * sr + n * (r * r) \in Int
      OBVIOUS
    <3> QED
      BY <2>6, <3>1, <3>2, <3>3
  <2>8. PICK d \in Int : d = D(U) /\ d >= 0 /\ d = n * srr - sr * sr
    BY <2>2, <2>6
  <2>9. D(X) = d + q
    <3>1. (n + 1) * (r * r + srr) - (r + sr) * (r + sr) = (n * srr - sr * sr) + q
      BY <2>7, SpreadGrows
    <3>2. D(X) = (n + 1) * (r * r + srr) - (r + sr) * (r + sr)
      BY <2>4, <2>5, <2>6
    <3> QED
      BY <2>8, <3>1, <3>2
  <2> HIDE DEF Good, D
  <2>10. D(X) >= 0 /\ (Cardinality(X) >= 2 => D(X) > 0)
    <3>1. CASE U = {}
      BY <2>5, <2>7, <2>8, <2>9, <3>1
    <3>2. CASE U # {}
      BY <2>7, <2>8, <2>9, <3>2
    <3> QED
      BY <3>1, <3>2
  <2> QED
    BY <2>10 DEF Good
<1>4. SUBSET S \subseteq Good
  <2> HIDE DEF Good
  <2> QED
    BY <1>2, <1>3, SubsetInduction
<1> QED
  BY <1>4

LEMMA SlopeAlgebra ==
    ASSUME NEW b \in Int, NEW l \in Int, NEW n \in Int, NEW sr \in Int, NEW sx \in Int,
           NEW srr \in Int, NEW srx \in Int, sx = n * b + l * sr, srx = b * sr + l * srr
    PROVE  n * srx - sr * sx = l * (n * srr - sr * sr)
OBVIOUS

LEMMA OffsetAlgebra ==
    ASSUME NEW b \in Int, NEW l \in Int, NEW n \in Int, NEW sr \in Int, NEW sx \in Int,
           NEW last \in Int, sx = n * b + l * sr
    PROVE  sx + l * (n * last - sr) = (b + l * last) * n
OBVIOUS

LEMMA ExactQuotient ==
    ASSUME NEW a \in Int, NEW b \in Int, b > 0
    PROVE  (a * b) \div b = a
OBVIOUS

\* The line through centres that lie on one is read off, at the nearest row.
LEMMA LineIsFitted ==
    ASSUME NEW picture, NEW S, S = Centres(picture), IsFiniteSet(S),
           NEW b \in Int, NEW l \in Int, OnLine(S, b, l),
           NEW last \in Int, \E p \in S : p.row = last, \A p \in S : p.row <= last
    PROVE  LET read == ComputeSeg(picture)
           IN  /\ read.valid \in BOOLEAN
               /\ read.valid => read.heading = l /\ read.offset = -(b + l * last)
<1>1. CASE Cardinality(S) < MinRows
  BY <1>1 DEF ComputeSeg, NoLane
<1>2. CASE Cardinality(S) >= MinRows
  <2>1. PICK gr : Sums(gr, SUBSET S, Rows(S)) /\ SumFunction(Rows(S)) = gr[S]
    BY PointTypes, SumIsOne
  <2>2. PICK gx : Sums(gx, SUBSET S, Xs(S)) /\ SumFunction(Xs(S)) = gx[S]
    BY PointTypes, SumIsOne
  <2>3. PICK grr : Sums(grr, SUBSET S, RowRows(S)) /\ SumFunction(RowRows(S)) = grr[S]
    BY PointTypes, SumIsOne
  <2>4. PICK grx : Sums(grx, SUBSET S, RowXs(S)) /\ SumFunction(RowXs(S)) = grx[S]
    BY PointTypes, SumIsOne
  <2>5. Cardinality(S) \in Nat /\ Cardinality(S) >= 2
    BY <1>2, LaneAssumption, FS_CardinalityType
  <2>6. gr[S] \in Int /\ gx[S] \in Int /\ grr[S] \in Int /\ grx[S] \in Int
    BY <2>1, <2>2, <2>3, <2>4, PointTypes, SumsUnfold
  <2>7. PICK n \in Int, sr \in Int, sx \in Int, srr \in Int, srx \in Int :
            n = Cardinality(S) /\ sr = gr[S] /\ sx = gx[S] /\ srr = grr[S] /\ srx = grx[S]
    <3>1. Cardinality(S) \in Int
      BY <2>5
    <3> QED
      BY <2>6, <3>1, Zenon
  <2>8. sx = n * b + l * sr /\ srx = b * sr + l * srr
    BY <2>1, <2>2, <2>3, <2>4, <2>7, SumsOnLine
  <2>9. n * srr - sr * sr > 0
    BY <2>1, <2>3, <2>5, <2>7, SpreadIsPositive
  <2>10. (n * srx - sr * sx) \div (n * srr - sr * sr) = l
    <3>1. n * srx - sr * sx = l * (n * srr - sr * sr)
      BY <2>8, SlopeAlgebra
    <3> QED
      BY <2>9, <3>1, ExactQuotient
  <2>11. (sx + l * (n * last - sr)) \div n = b + l * last
    <3>1. sx + l * (n * last - sr) = (b + l * last) * n
      BY <2>8, OffsetAlgebra
    <3> QED
      BY <2>5, <2>7, <3>1, ExactQuotient
  <2>12. Max({p.row : p \in S}) = last
    <3>1. last \in {p.row : p \in S} /\ \A r \in {p.row : p \in S} : r \in Int /\ last >= r
      BY DEF OnLine
    <3>2. PICK m : m = Max({p.row : p \in S})
      OBVIOUS
    <3>3. m \in {p.row : p \in S} /\ \A r \in {p.row : p \in S} : m >= r
      BY <3>1, <3>2 DEF Max
    <3>4. m \in Int /\ m >= last /\ last >= m
      BY <3>1, <3>3
    <3> QED
      BY <3>2, <3>4
  <2>13. ComputeSeg(picture) =
            IF -(b + l * last) \notin -MaxOffset .. MaxOffset \/ l \notin -MaxHeading .. MaxHeading
            THEN NoLane
            ELSE [valid |-> TRUE, offset |-> -(b + l * last), heading |-> l]
    <3>1. /\ SumFunction([p \in S |-> p.row]) = sr /\ SumFunction([p \in S |-> p.x]) = sx
          /\ SumFunction([p \in S |-> p.row * p.row]) = srr
          /\ SumFunction([p \in S |-> p.row * p.x]) = srx
      BY <2>1, <2>2, <2>3, <2>4, <2>7, Zenon DEF Rows, Xs, RowRows, RowXs
    <3>2. ~(n < MinRows)
      BY <1>2, <2>7, LaneAssumption
    <3> QED
      BY <2>7, <2>10, <2>11, <2>12, <3>1, <3>2, Zenon DEF ComputeSeg
  <2> QED
    BY <2>13 DEF NoLane
<1> QED
  BY <1>1, <1>2, LaneAssumption, FS_CardinalityType

LEMMA CentresAreOnLine ==
    ASSUME NEW v, ShowsLane(v)
    PROVE  /\ IsFiniteSet(Centres(v.rows))
           /\ OnLine(Centres(v.rows), v.x - v.lean * Len(v.rows), v.lean)
           /\ \A c \in Centres(v.rows) : c.row <= Len(v.rows)
<1> DEFINE n == Len(v.rows)
           S == Centres(v.rows)
<1>1. n \in Nat /\ DOMAIN v.rows = 1 .. n /\ v.x \in Int /\ v.lean \in Int
  BY DEF ShowsLane
<1>2. ASSUME NEW i \in 1 .. n
      PROVE  LET c == v.x + v.lean * (i - n)
             IN  /\ Paired(v.rows[i]) => PairCentre(v.rows[i]) = c
                 /\ ~Paired(v.rows[i]) /\ Cardinality(Near(v.rows[i])) = 1 =>
                       SingleCentre(v.rows[i]) = c
  <2>1. PICK c \in Int : c = v.x + v.lean * (i - n)
    BY <1>1
  <2>2. -LaneHalf < c /\ c < LaneHalf /\ v.rows[i] \subseteq LaneLines(c)
    BY <2>1 DEF ShowsLane
  <2>3. c \in -LaneHalf + 1 .. LaneHalf - 1
    BY <2>2, LaneAssumption
  <2> QED
    BY <2>1, <2>2, <2>3, RowsAreRead
<1>3. ASSUME NEW p \in S
      PROVE  p.row \in 1 .. n /\ p = [row |-> p.row, x |-> v.x + v.lean * (p.row - n)]
  <2>1. PICK i \in 1 .. n :
            \/ Paired(v.rows[i]) /\ p = [row |-> i, x |-> PairCentre(v.rows[i])]
            \/ /\ ~Paired(v.rows[i]) /\ Cardinality(Near(v.rows[i])) = 1
               /\ p = [row |-> i, x |-> SingleCentre(v.rows[i])]
    BY <1>1 DEF Centres
  <2>2. p = [row |-> i, x |-> v.x + v.lean * (i - n)]
    BY <1>2, <2>1
  <2> QED
    BY <2>2
<1> HIDE DEF S
<1>4. OnLine(S, v.x - v.lean * n, v.lean)
  <2>1. ASSUME NEW p \in S
        PROVE  p.row \in Int /\ p.x = (v.x - v.lean * n) + v.lean * p.row
    <3>1. PICK r \in Int : r = p.row
      BY <1>3
    <3>2. p.x = v.x + v.lean * (r - n)
      BY <1>3, <3>1
    <3> QED
      BY <1>1, <3>1, <3>2
  <2>2. ASSUME NEW p \in S, NEW q \in S, p.row = q.row
        PROVE  p = q
    BY <1>3, <2>2
  <2> QED
    BY <2>1, <2>2 DEF OnLine
<1>5. IsFiniteSet(S)
  <2> DEFINE f == [p \in S |-> p.row]
  <2>1. f \in Injection(S, 1 .. n)
    <3>1. f \in [S -> 1 .. n]
      BY <1>3
    <3>2. \A p, q \in S : f[p] = f[q] => p = q
      BY <1>4 DEF OnLine
    <3> QED
      BY <3>1, <3>2 DEF Injection, IsInjective
  <2>2. IsFiniteSet(1 .. n)
    BY <1>1, FS_Interval
  <2> QED
    BY <2>1, <2>2, FS_Injection
<1>6. \A c \in S : c.row <= n
  BY <1>1, <1>3
<1> QED
  BY <1>4, <1>5, <1>6 DEF S

\* The lane is read as it is, if it is read at all: by whichever rows and lines are seen.
ReadRight(v) ==
    LET read == ComputeSeg(v.rows)
    IN  read.valid \in BOOLEAN /\ (read.valid => read.offset = -v.x /\ read.heading = v.lean)
THEOREM PicturesAreRead ==
    ASSUME NEW v, ShowsLane(v)
    PROVE  ReadRight(v)
<1>1. /\ v.x \in Int /\ v.lean \in Int /\ Len(v.rows) \in Nat
      /\ \E p \in Centres(v.rows) : p.row = Len(v.rows)
  BY DEF ShowsLane
<1>2. PICK b \in Int : b = v.x - v.lean * Len(v.rows) /\ b + v.lean * Len(v.rows) = v.x
  BY <1>1
<1>3. LET read == ComputeSeg(v.rows)
      IN  /\ read.valid \in BOOLEAN
          /\ read.valid => read.heading = v.lean /\ read.offset = -(b + v.lean * Len(v.rows))
  <2>1. PICK S : S = Centres(v.rows)
    OBVIOUS
  <2>2. IsFiniteSet(S) /\ OnLine(S, b, v.lean) /\ \A c \in S : c.row <= Len(v.rows)
    BY <1>2, <2>1, CentresAreOnLine
  <2>3. PICK last \in Int : last = Len(v.rows) /\ \E p \in S : p.row = last
    BY <1>1, <2>1
  <2>4. \A p \in S : p.row <= last
    BY <2>2, <2>3
  <2> QED
    BY <1>1, <2>1, <2>2, <2>3, <2>4, LineIsFitted
<1> QED
  BY <1>2, <1>3 DEF ReadRight

-----------------------------------------------------------------------------
(* What is used.                                                           *)

LEMMA KeptIsRead ==
    ASSUME NEW o, SegKept(o), o.seg.valid
    PROVE  /\ Pictures[o.picture].x \in Int /\ Pictures[o.picture].lean \in Int
           /\ o.seg.offset = -Pictures[o.picture].x /\ o.seg.heading = Pictures[o.picture].lean
<1>1. o # NoSeg
  BY DEF NoSeg, NoLane
<1>2. PICK p \in DOMAIN Pictures, a \in Nat :
          \/ o = [picture |-> p, seg |-> ComputeSeg(Pictures[p].rows), age |-> a]
          \/ o = [picture |-> p, age |-> a,
                  seg |-> [valid |-> TRUE, offset |-> -Pictures[p].x, heading |-> Pictures[p].lean]]
  BY <1>1 DEF SegKept
<1>3. Pictures[p].x \in Int /\ Pictures[p].lean \in Int
  BY PicturesAssumption DEF ShowsLane
<1>4. CASE o = [picture |-> p, seg |-> ComputeSeg(Pictures[p].rows), age |-> a]
  <2>1. ReadRight(Pictures[p])
    BY PicturesAssumption, PicturesAreRead
  <2> QED
    BY <1>3, <1>4, <2>1 DEF ReadRight
<1>5. CASE o = [picture |-> p, age |-> a,
                seg |-> [valid |-> TRUE, offset |-> -Pictures[p].x, heading |-> Pictures[p].lean]]
  BY <1>3, <1>5
<1> QED
  BY <1>2, <1>4, <1>5

LEMMA InvGivesRecent == Inv => UsedVisionIsRecent
<1> SUFFICES ASSUME Inv, ~latched, watched PROVE UsedVisionIsRecent
  BY DEF UsedVisionIsRecent
<1>1. seg.age <= MaxAge /\ marks.age <= MaxAge
  <2>1. seg.age <= Accepted + StallLimit + watchAge /\ marks.age <= Accepted + StallLimit + watchAge
    BY DEF Inv, WatchInv, Content
  <2>2. /\ seg.age \in Nat /\ marks.age \in Nat /\ Accepted \in Nat
        /\ watchAge \in Nat /\ watchAge <= WatchPeriod
    BY KeptAge, AcceptedType, Limits DEF Inv, KeptInv, TimeInv
  <2>3. MaxAge = Accepted + StallLimit + WatchPeriod
    BY DEF MaxAge, Accepted
  <2> QED
    BY <2>1, <2>2, <2>3, Limits
<1>2. LET corr == CorrectionWheel(seg.seg)
          v == Pictures[seg.picture]
      IN  corr # 0 => /\ v.x >= 0 /\ v.lean <= 0 => corr > 0
                      /\ v.x <= 0 /\ v.lean >= 0 => corr < 0
  <2>1. CASE ~seg.seg.valid
    BY <2>1 DEF CorrectionWheel
  <2>2. CASE seg.seg.valid
    <3>1. /\ Pictures[seg.picture].x \in Int /\ Pictures[seg.picture].lean \in Int
          /\ seg.seg.offset = -Pictures[seg.picture].x /\ seg.seg.heading = Pictures[seg.picture].lean
      BY <2>2, KeptIsRead DEF Inv, KeptInv
    <3> QED
      BY <3>1, CorrectionIsTowards
  <2> QED
    BY <2>1, <2>2
<1> QED
  BY <1>1, <1>2 DEF UsedVisionIsRecent

\* Whatever becomes of the vision process, of its file, of the clock and of the worker: while
\* the vehicle may move, what it steers and turns by was seen no longer ago than the limits of
\* the adapters and of the watchdog together, and steers it towards the lane
\* (seg_adapter.py, vision_marks.py, watchdog.py:47-58).
THEOREM VisionIsRecent == Spec => []UsedVisionIsRecent
<1>1. Inv => UsedVisionIsRecent
  BY InvGivesRecent
<1> QED
  BY <1>1, InvInit, InvStep, PTL DEF Spec
=============================================================================
