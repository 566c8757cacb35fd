---------------------------- MODULE LaneFollower ----------------------------
(***************************************************************************)
(* The lane follower (control/lane_follower.py): straight legs joined by   *)
(* connectors, of which the turns are driven blind, by a fixed wheel angle *)
(* over a limited distance.                                                *)
(*                                                                         *)
(* One call of compute is a sequence of steps, one per method it goes      *)
(* through; pc tells which comes next.  Nothing runs between them, but a   *)
(* call may go through several legs.                                       *)
(*                                                                         *)
(* Places are distances along the current leg, from its entry.  pos is     *)
(* where the vehicle is, noise what the measured position adds to it; the  *)
(* code sees only At.  Where a turn puts the vehicle on the next leg, and  *)
(* whether a heading, a course or a mark is seen, are choices.             *)
(***************************************************************************)
EXTENDS Integers

CONSTANTS
    N,              \* number of legs of the route
    Length,         \* length of each leg
    Kind,           \* of the connector after each leg but the last: "turn" or "straight"
    Gap,            \* its length
    Arm, Lead, Offset, MinTurn, MaxTurn, Arc,   \* ResolvedTurn of each connector (Arc 0: none)
    Vision, Fuse,                               \* trigger.uses_vision, fuse_next
    CourseLanes, SegLanes, HoldLanes, StraightOnly,   \* legs on such lanes
    Lookahead, StopRadius, ParallelStop, Hysteresis,
    Ramp, ExitHold, Window, LineFollow, Recenter,
    Step,           \* the longest way between two calls
    Noise,          \* bound on the error of the measured position
    Land,           \* how far from the entry a turn may leave the vehicle
    Far,            \* bound on places: this far beyond the end of a leg all are alike
    MaxRoutes       \* bound on the routes set

Legs  == 1 .. N
Conns == 1 .. N - 1

ASSUME RouteAssumption ==
    /\ N \in Nat \ {0}
    /\ Length \in [Legs -> Nat] /\ Gap \in [Legs -> Nat]
    /\ Arm \in [Legs -> Nat] /\ Lead \in [Legs -> Nat] /\ Offset \in [Legs -> Nat]
    /\ MinTurn \in [Legs -> Nat] /\ MaxTurn \in [Legs -> Nat] /\ Arc \in [Legs -> Nat]
    /\ Kind \in [Legs -> {"turn", "straight"}]
    /\ Vision \in [Legs -> BOOLEAN] /\ Fuse \in [Legs -> BOOLEAN]
ASSUME DistancesAssumption ==
    /\ Lookahead \in Nat /\ StopRadius \in Nat /\ ParallelStop \in Nat /\ Hysteresis \in Nat
    /\ Ramp \in Nat /\ ExitHold \in Nat /\ Window \in Nat /\ Recenter \in Nat
    /\ Step \in Nat /\ Noise \in Nat /\ Land \in Nat /\ Far \in Nat /\ MaxRoutes \in Nat
    /\ LineFollow \in BOOLEAN
\* PASSED_HYSTERESIS_M is above what the position jitters.
ASSUME HysteresisAssumption == 2 * Noise <= Hysteresis

VARIABLES
    route,          \* _route is set
    routes,         \* routes set so far
    leg,            \* _leg
    mode,           \* _state
    fired,          \* _fired_at is set
    firedTravel,    \* _fired_travel, in ticks at the model speed
    turnTravel,     \* _turn_travel
    span,           \* _fuse_span
    gate,           \* _straight_gate is set
    hold,           \* distance from _exit_hold_from, or None
    origin,         \* distance from _origin, up to Ramp
    trail,          \* how far _follow_path reaches back from its last point, up to Window
    best,           \* _best_remaining, or None
    segOk,          \* _seg_ok_now
    cmd,            \* the command computed last
    pc,             \* "idle" between calls, else the method that comes next
    pos, noise      \* where the vehicle is, and the error of the measured position

followVars == <<leg, mode, fired, firedTravel, turnTravel, span, gate, trail>>
placeVars  == <<pos, noise>>
vars == <<route, routes, followVars, hold, origin, best, segOk, cmd, pc, placeVars>>

None == -1
Stopped == [throttle |-> "off", wheel |-> "zero", heading |-> "none", aim |-> "none"]
Commands == [throttle : {"off", "turn", "cruise"}, wheel : {"zero", "pursue", "table"},
             heading : {"none", "gps", "course", "lane", "seg"},
             aim : {"none", "gate", "centre", "ahead", "end", "beyond"}]

Abs(n) == IF n < 0 THEN -n ELSE n
UpTo(n, bound) == IF n < bound THEN n ELSE bound

At        == pos + noise
Ahead     == Length[leg] - At
IsFinal   == leg = N
Remaining == Abs(Ahead)
HasTurn   == leg < N /\ Kind[leg] = "turn"

TypeOK ==
    /\ route \in BOOLEAN /\ fired \in BOOLEAN /\ gate \in BOOLEAN /\ segOk \in BOOLEAN
    /\ routes \in 0 .. MaxRoutes
    /\ leg \in Legs /\ mode \in {"FOLLOW", "ARMED", "TURNING"} /\ span \in {1, 2}
    /\ firedTravel \in Nat /\ turnTravel \in Nat /\ origin \in Nat /\ trail \in Nat
    /\ hold \in Nat \cup {None} /\ best \in Nat \cup {None}
    /\ cmd \in Commands /\ pc \in {"idle", "leg", "turn"}
    /\ pos \in Int /\ noise \in -Noise .. Noise

-----------------------------------------------------------------------------
\* _reset_state
Reset ==
    /\ leg' = 1 /\ mode' = "FOLLOW" /\ fired' = FALSE /\ firedTravel' = 0
    /\ turnTravel' = 0 /\ span' = 1 /\ gate' = FALSE /\ trail' = 0
    /\ hold' = None /\ origin' = 0 /\ best' = None /\ segOk' = FALSE

Init ==
    /\ route = FALSE /\ routes = 0 /\ cmd = Stopped /\ pc = "idle"
    /\ pos = 0 /\ noise = 0
    /\ leg = 1 /\ mode = "FOLLOW" /\ fired = FALSE /\ firedTravel = 0
    /\ turnTravel = 0 /\ span = 1 /\ gate = FALSE /\ trail = 0
    /\ hold = None /\ origin = 0 /\ best = None /\ segOk = FALSE

\* A new route replaces the one in progress; the vehicle stands at its start or on the
\* connector before it.
SetRoute ==
    /\ pc = "idle" /\ routes < MaxRoutes
    /\ route' = TRUE /\ routes' = routes + 1 /\ cmd' = Stopped
    /\ Reset
    /\ pos' \in -Land .. 0
    /\ UNCHANGED <<pc, noise>>

Clear ==
    /\ pc = "idle" /\ route
    /\ route' = FALSE /\ cmd' = Stopped
    /\ Reset
    /\ UNCHANGED <<routes, pc, placeVars>>

\* _advance_leg: the turn, its trigger and the gate are forgotten; what is kept is the
\* exit of the last turn and the closest approach.
AdvanceLeg(n) ==
    /\ leg' = leg + n /\ mode' = "FOLLOW" /\ fired' = FALSE /\ firedTravel' = 0
    /\ turnTravel' = 0 /\ span' = 1 /\ trail' = 0

\* A slip: the gate is not set up again.
AdvanceStraightOpen ==
    /\ AdvanceLeg(1) /\ gate' = FALSE
    /\ pos' = pos - Length[leg] - Gap[leg]

\* A straight connector is no turn: the next leg begins at once, and until the vehicle
\* is past the connector its exit is the aim.
AdvanceStraight ==
    /\ AdvanceLeg(1) /\ gate' = TRUE
    /\ pos' = pos - Length[leg] - Gap[leg]

-----------------------------------------------------------------------------
\* _accumulate_travel: while turning the measured way counts (what is beyond every limit
\* is alike), otherwise the trail grows that the course is taken from.  It has a limited
\* length, to which jitter adds as well: with a new point old ones may be dropped from it,
\* so it may then reach back less far than before.
TurnCap == MaxTurn[leg] + MinTurn[leg] + Arc[leg] + Window
Travel(way) ==
    LET moved == Abs(way + noise' - noise)
    IN  IF mode = "TURNING"
        THEN turnTravel' = UpTo(turnTravel + moved, TurnCap) /\ UNCHANGED trail
        ELSE /\ trail' \in IF moved = 0 THEN {trail} ELSE 0 .. UpTo(trail + moved, Window)
             /\ UNCHANGED turnTravel

\* The vehicle has moved since the last call if it was told to; compute begins.
Compute(way, error) ==
    /\ pc = "idle" /\ route
    /\ cmd.throttle = "off" => way = 0
    /\ noise' = error
    /\ pos' = IF mode = "TURNING" THEN pos ELSE UpTo(pos + way, Length[leg] + Far)
    /\ Travel(way)
    /\ hold' = IF hold = None THEN None ELSE UpTo(hold + way, ExitHold + Recenter)
    /\ origin' = UpTo(origin + way, Ramp)
    /\ pc' = IF mode = "TURNING" THEN "turn" ELSE "leg"
    /\ UNCHANGED <<route, routes, leg, mode, fired, firedTravel, span, gate, best, segOk, cmd>>

\* _apply_throttle_rules, the last step of every command that is not a stop: near the
\* start and after a turn the throttle is that of turns.
Finish(c, ok) ==
    /\ cmd' = [c EXCEPT !.throttle =
                 IF origin < Ramp \/ (hold # None /\ hold < ExitHold) THEN "turn" ELSE @]
    /\ segOk' = (ok /\ (hold = None \/ hold >= ExitHold))
    /\ hold' = IF hold # None /\ hold >= ExitHold THEN None ELSE hold
    /\ pc' = "idle"

-----------------------------------------------------------------------------
\* _straight_gate_target releases the gate close to the connector's exit, or past it.
GateAlive == gate /\ At <= -Lookahead

\* _parallel_stop_target: in its window the distance along the lane decides.
InParallelWindow == ParallelStop > 0 /\ Remaining <= ParallelStop
AtTarget ==
    \/ InParallelWindow /\ Ahead <= StopRadius
    \/ Remaining <= StopRadius

\* A slip: any increase is taken for having passed the target.
PassedAtOnce == best # None /\ Remaining > best

Passed    == best # None /\ Remaining > best + Hysteresis
FinalStop == IsFinal /\ (AtTarget \/ Passed)

\* The closest approach is updated only where no stop is due.
BestNow == IF IsFinal /\ ~AtTarget /\ (best = None \/ Remaining < best) THEN Remaining ELSE best

LegStop ==
    /\ pc = "leg" /\ FinalStop
    /\ cmd' = Stopped /\ segOk' = FALSE /\ pc' = "idle"
    /\ gate' = GateAlive
    /\ best' = BestNow
    /\ UNCHANGED <<route, routes, leg, mode, fired, firedTravel, turnTravel, span, trail,
                   hold, origin, placeVars>>

\* The arming distance is cut to the leg, and nothing is armed before the gate.
Arming == HasTurn /\ ~GateAlive /\ Ahead <= UpTo(Arm[leg], Length[leg])
ArmedNow == HasTurn /\ (mode = "ARMED" \/ Arming)

\* _should_start_turn: a mark that has been seen decides, after Offset more ticks; ticks
\* that come late do not count.  Without a mark the end of the lane decides
\* (fallback_at_lane_end, which the table sets for every turn).
SeesMark(sees) == fired \/ (Vision[leg] /\ sees)
FiredTravel(late) ==
    IF fired /\ ~late THEN UpTo(firedTravel + 1, Offset[leg]) ELSE firedTravel
Starts(sees, late) ==
    IF SeesMark(sees) THEN FiredTravel(late) >= Offset[leg] ELSE Ahead <= Lead[leg]

\* Slips: a turn goes on whatever follows it, or where nothing follows.
FusedSpanAny     == IF Fuse[leg] /\ leg + 1 < N THEN 2 ELSE 1
FusedSpanAtEnd   == IF Fuse[leg] THEN 2 ELSE 1

\* _fused_span: the turn goes on through the next one, over the leg between them.
FusedSpan ==
    IF Fuse[leg] /\ leg + 1 < N /\ Kind[leg + 1] = "turn" THEN 2 ELSE 1

\* _begin_turn; _drive_turn follows in the same call.
LegBeginTurn(sees, late) ==
    /\ pc = "leg" /\ ArmedNow /\ Starts(sees, late)
    /\ mode' = "TURNING" /\ turnTravel' = 0 /\ trail' = 0 /\ span' = FusedSpan
    /\ fired' = SeesMark(sees) /\ firedTravel' = FiredTravel(late)
    /\ gate' = GateAlive
    /\ pc' = "turn"
    /\ UNCHANGED <<route, routes, leg, hold, origin, best, segOk, cmd, placeVars>>

LegAdvance ==
    /\ pc = "leg" /\ leg < N /\ ~HasTurn /\ Ahead <= 0
    /\ AdvanceStraight
    /\ UNCHANGED <<route, routes, hold, origin, best, segOk, cmd, pc, noise>>

-----------------------------------------------------------------------------
(* The steering of a straight leg: where it aims, and by which heading.    *)

\* _course_deg: the way behind gives a course once it is long enough.
HasCourse == trail >= Window

\* _trusted_heading: on some lanes never the measured heading (without a course the lane's;
\* the comments at the lines and in control.yaml are of an earlier state), elsewhere not
\* while it is too far from the course.
TrustedHeading(gpsAgrees) ==
    IF leg \in CourseLanes THEN IF HasCourse THEN "course" ELSE "lane"
    ELSE IF HasCourse /\ ~gpsAgrees THEN "course" ELSE "gps"

\* _pursue_heading
PursueHeading(segValid, gpsAgrees) ==
    IF leg \in SegLanes /\ segValid THEN "seg" ELSE TrustedHeading(gpsAgrees)

\* _recenter_target: on the centre line, or straight ahead where the offset is small.
Recentres == LineFollow \/ (Recenter > 0 /\ hold # None /\ hold <= Recenter)
RecenterTarget(nearCentre) ==
    IF ~Recentres THEN "end" ELSE IF nearCentre THEN "ahead" ELSE "centre"

\* The last leg's parallel stop goes before the gate, the gate before the centre line
\* until the vehicle is on the leg.
Aim(nearCentre) ==
    IF IsFinal /\ InParallelWindow THEN "beyond"
    ELSE IF GateAlive /\ ~(Recentres /\ Ahead <= Length[leg]) THEN "gate"
    ELSE RecenterTarget(nearCentre)

\* No steering on some lanes, on others not while standing, and none between a mark and
\* the turn it starts.
Wheel(armed, sees) ==
    IF leg \in StraightOnly \/ (leg \in HoldLanes /\ ~HasCourse) \/ (armed /\ SeesMark(sees))
    THEN "zero" ELSE "pursue"

LegFollow(sees, late, segValid, gpsAgrees, nearCentre) ==
    /\ pc = "leg" /\ ~FinalStop
    /\ ~(ArmedNow /\ Starts(sees, late))
    /\ ~(leg < N /\ ~HasTurn /\ Ahead <= 0)
    /\ mode' = IF ArmedNow THEN "ARMED" ELSE mode
    /\ IF ArmedNow THEN fired' = SeesMark(sees) /\ firedTravel' = FiredTravel(late)
                   ELSE UNCHANGED <<fired, firedTravel>>
    /\ gate' = GateAlive /\ best' = BestNow
    /\ Finish([throttle |-> IF ArmedNow THEN "turn" ELSE "cruise",
               wheel    |-> Wheel(ArmedNow, sees),
               heading  |-> PursueHeading(segValid, gpsAgrees),
               aim      |-> Aim(nearCentre)], ~ArmedNow /\ hold = None)
    /\ UNCHANGED <<route, routes, leg, turnTravel, span, trail, origin, placeVars>>

-----------------------------------------------------------------------------
(* A turn.                                                                 *)

\* The ways out of a turn: the edge of the map, the heading or the course of the leg the
\* turn leads to, and the arc or the limit of the distance.
Aligned(byHeading, byCourse) ==
    turnTravel >= MinTurn[leg] /\ (byHeading \/ (byCourse /\ turnTravel >= Window))
\* A slip: the limit is left out, alignment alone ends a turn.
TurnEndsAligned(edge, byHeading, byCourse) == edge \/ Aligned(byHeading, byCourse)

TurnEnds(edge, byHeading, byCourse) ==
    \/ edge \/ Aligned(byHeading, byCourse)
    \/ Arc[leg] > 0 /\ turnTravel >= Arc[leg]
    \/ turnTravel >= MaxTurn[leg]

TurnEnd(edge, byHeading, byCourse) ==
    /\ pc = "turn" /\ TurnEnds(edge, byHeading, byCourse)
    /\ AdvanceLeg(span) /\ gate' = FALSE
    /\ hold' = 0 /\ pc' = "leg"
    /\ pos' \in -Land .. Land
    /\ UNCHANGED <<route, routes, origin, best, segOk, cmd, noise>>

\* A slip: whether the camera may correct the steering is left as it was.
TurnOnKeepsSeg(edge, byHeading, byCourse) ==
    /\ pc = "turn" /\ ~TurnEnds(edge, byHeading, byCourse)
    /\ cmd' = [throttle |-> "turn", wheel |-> "table", heading |-> "none", aim |-> "none"]
    /\ pc' = "idle"
    /\ UNCHANGED <<route, routes, followVars, hold, origin, best, segOk, placeVars>>

TurnOn(edge, byHeading, byCourse) ==
    /\ pc = "turn" /\ ~TurnEnds(edge, byHeading, byCourse)
    /\ Finish([throttle |-> "turn", wheel |-> "table", heading |-> "none", aim |-> "none"], FALSE)
    /\ UNCHANGED <<route, routes, followVars, origin, best, placeVars>>

\* A leg's decision in a call that comes in time or late.
LegDecides(late) ==
    \E sees, segValid, gpsAgrees, nearCentre \in BOOLEAN :
      \/ LegBeginTurn(sees, late)
      \/ LegFollow(sees, late, segValid, gpsAgrees, nearCentre)

Leg == LegStop \/ LegAdvance \/ \E late \in BOOLEAN : LegDecides(late)

Turn ==
    \E edge, byHeading, byCourse \in BOOLEAN :
      TurnEnd(edge, byHeading, byCourse) \/ TurnOn(edge, byHeading, byCourse)

Next ==
    \/ SetRoute \/ Clear
    \/ \E way \in 0 .. Step, error \in -Noise .. Noise : Compute(way, error)
    \/ Leg \/ Turn

Spec == Init /\ [][Next]_vars

\* The loop calls on and the vehicle moves when it is driven; again and again a call
\* is in time.
FairSpec ==
    /\ Spec
    /\ WF_vars(Leg) /\ WF_vars(Turn)
    /\ WF_vars(\E way \in 0 .. Step, error \in -Noise .. Noise : Compute(way, error))
    /\ SF_vars(\E way \in 1 .. Step, error \in -Noise .. Noise : Compute(way, error))
    /\ SF_vars(LegDecides(FALSE))

-----------------------------------------------------------------------------
\* A turn is never left out: the connectors passed are turns when they were passed
\* turning, and straight ones otherwise, also where two turns are driven as one.
PassesAsDirected ==
    [][leg' > leg => \A i \in leg .. leg' - 1 : Kind[i] = "turn" <=> mode = "TURNING"]_vars

\* A stop away from the target is made only when the vehicle really is past it, however
\* the measured position jitters: approaching never looks like passing.
PassedMeansPassed ==
    pc = "leg" /\ IsFinal /\ Passed /\ ~AtTarget => pos > Length[leg]

\* The camera corrects the steering only on straight legs that are followed, away from
\* turns to come and turns just left, and never a stop (seg_allowed).
SegOnlyOnStraights ==
    pc = "idle" /\ segOk => mode = "FOLLOW" /\ hold = None /\ cmd.throttle # "off"

\* While the vehicle crosses a junction straight on, it heads for the connector's exit
\* and not for the end of the leg behind it, until it is close to the exit.
CrossingAimsAtExit ==
    /\ pc = "idle" /\ cmd.throttle # "off" /\ mode # "TURNING"
    /\ leg > 1 /\ Kind[leg - 1] = "straight" /\ pos < -(Lookahead + Noise)
    => cmd.aim = "gate" \/ (IsFinal /\ cmd.aim = "beyond")

\* Every route is driven to its end, or given up: no turn and no leg goes on for ever.
RouteEnds == route ~> (~route \/ (IsFinal /\ pc = "idle" /\ cmd.throttle = "off"))
=============================================================================
