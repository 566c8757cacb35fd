------------------------- MODULE LaneFollowerProofs -------------------------
(***************************************************************************)
(* The lane follower keeps to its route and does not take jitter for       *)
(* movement, for every route, every table of turns and every bound on the  *)
(* error of the position that HysteresisAssumption allows.                 *)
(***************************************************************************)
EXTENDS LaneFollower, Actuation, TLAPS

\* A turn is one the table knows, and a turn of two is followed by another turn; this is
\* also what keeps the leg on the route.
TurnInv ==
    /\ mode # "FOLLOW" => HasTurn
    /\ mode = "TURNING" /\ span = 2 => leg + 1 < N /\ Kind[leg + 1] = "turn"
    /\ pc = "turn" => mode = "TURNING"
    /\ pc = "leg" => mode # "TURNING"

\* The closest approach is kept on the last leg only, and until the vehicle is past the
\* target it is at most by the jitter better than where the vehicle is.
ApproachInv ==
    /\ best # None => IsFinal
    /\ best # None /\ pos <= Length[leg] => best >= Length[leg] - pos - Noise

\* The gate of a straight connector stands until the vehicle is close to its exit.
Crossing == leg > 1 /\ Kind[leg - 1] = "straight" /\ pos < -(Lookahead + Noise)
GateInv  == mode # "TURNING" /\ Crossing => gate

Inv ==
    /\ TypeOK /\ TurnInv /\ ApproachInv /\ GateInv
    /\ SegOnlyOnStraights /\ CrossingAimsAtExit

-----------------------------------------------------------------------------
(* Types.                                                                  *)

LEMMA Lengths ==
    TypeOK => /\ Length[leg] \in Nat /\ Gap[leg] \in Nat /\ Arm[leg] \in Nat
              /\ Lead[leg] \in Nat /\ Offset[leg] \in Nat /\ MinTurn[leg] \in Nat
              /\ MaxTurn[leg] \in Nat /\ Arc[leg] \in Nat
              /\ N \in Nat /\ leg \in 1 .. N
BY RouteAssumption DEF TypeOK, Legs

LEMMA BestType ==
    TypeOK => BestNow \in Nat \cup {None} /\ Remaining \in Nat /\ At \in Int /\ Ahead \in Int
<1> SUFFICES ASSUME TypeOK PROVE BestNow \in Nat \cup {None} /\ Remaining \in Nat /\ At \in Int /\ Ahead \in Int
    OBVIOUS
<1>1. At \in Int /\ Ahead \in Int
    BY Lengths DEF TypeOK, At, Ahead
<1>2. Remaining \in Nat
    BY <1>1 DEF Remaining, Abs
<1> QED BY <1>1, <1>2 DEF BestNow, TypeOK

\* The commands of a straight leg.
LEMMA FinishType ==
    ASSUME TypeOK, NEW c \in Commands, NEW ok \in BOOLEAN, Finish(c, ok)
    PROVE  cmd' \in Commands /\ segOk' \in BOOLEAN /\ hold' \in Nat \cup {None} /\ pc' = "idle"
<1>1. cmd' \in Commands
    BY DEF Finish, Commands
<1>2. hold' \in Nat \cup {None} /\ pc' = "idle"
    BY DEF Finish, TypeOK
<1>3. segOk' \in BOOLEAN
    BY DEF Finish
<1> QED BY <1>1, <1>2, <1>3

LEMMA FollowCommand ==
    ASSUME TypeOK, NEW sees \in BOOLEAN, NEW late \in BOOLEAN, NEW segValid \in BOOLEAN,
           NEW gpsAgrees \in BOOLEAN, NEW nearCentre \in BOOLEAN,
           LegFollow(sees, late, segValid, gpsAgrees, nearCentre)
    PROVE  /\ cmd' \in Commands /\ segOk' \in BOOLEAN /\ hold' \in Nat \cup {None} /\ pc' = "idle"
           /\ cmd'.heading = PursueHeading(segValid, gpsAgrees) /\ cmd'.aim = Aim(nearCentre)
           /\ segOk' => ~ArmedNow /\ hold = None
           /\ cmd'.throttle # "off"
<1> DEFINE c == [throttle |-> IF ArmedNow THEN "turn" ELSE "cruise",
                 wheel    |-> Wheel(ArmedNow, sees),
                 heading  |-> PursueHeading(segValid, gpsAgrees),
                 aim      |-> Aim(nearCentre)]
           ok == ~ArmedNow /\ hold = None
<1>1. Finish(c, ok)
    BY DEF LegFollow
<1>2. c \in Commands
    BY DEF Commands, Wheel, PursueHeading, TrustedHeading, Aim, RecenterTarget
<1>3. ok \in BOOLEAN
    OBVIOUS
<1>4. cmd'.heading = c.heading /\ cmd'.aim = c.aim /\ cmd'.throttle \in {"turn", c.throttle}
    BY <1>1 DEF Finish
<1>5. segOk' => ok
    BY <1>1 DEF Finish
<1>6. c.throttle # "off"
    OBVIOUS
<1> HIDE DEF c, ok
<1>7. cmd' \in Commands /\ segOk' \in BOOLEAN /\ hold' \in Nat \cup {None} /\ pc' = "idle"
    BY <1>1, <1>2, <1>3, FinishType
<1> USE DEF c, ok
<1> QED BY <1>4, <1>5, <1>6, <1>7

-----------------------------------------------------------------------------
(* Steps that leave most alone.                                            *)

LEMMA InitInv == Init => Inv
<1> SUFFICES ASSUME Init PROVE Inv
    OBVIOUS
<1>1. TypeOK
  <2>1. Stopped \in Commands
      BY DEF Stopped, Commands
  <2>2. 1 \in Legs /\ 0 \in 0 .. MaxRoutes /\ 0 \in -Noise .. Noise
      BY RouteAssumption, DistancesAssumption DEF Legs
  <2>3. route \in BOOLEAN /\ fired \in BOOLEAN /\ gate \in BOOLEAN /\ segOk \in BOOLEAN
      BY DEF Init
  <2>4. /\ leg = 1 /\ routes = 0 /\ cmd = Stopped /\ mode = "FOLLOW" /\ pc = "idle" /\ span = 1
        /\ firedTravel = 0 /\ turnTravel = 0 /\ origin = 0 /\ trail = 0
        /\ hold = None /\ best = None /\ pos = 0 /\ noise = 0
      BY DEF Init
  <2> QED BY <2>1, <2>2, <2>3, <2>4 DEF TypeOK
<1>2. TurnInv /\ ApproachInv /\ GateInv
    BY <1>1, DistancesAssumption DEF Init, TurnInv, ApproachInv, GateInv, Crossing
<1>3. SegOnlyOnStraights /\ CrossingAimsAtExit
    BY DEF Init, SegOnlyOnStraights, CrossingAimsAtExit, Stopped
<1> QED BY <1>1, <1>2, <1>3 DEF Inv

\* A route that begins or is given up.
LEMMA ResetStep ==
    ASSUME Inv, Reset, cmd' = Stopped, pc' = pc, pos' \in Int, noise' = noise, pc = "idle",
           route' \in BOOLEAN, routes' \in 0 .. MaxRoutes
    PROVE  Inv'
<1>1. TypeOK'
  <2>1. Stopped \in Commands
      BY DEF Stopped, Commands
  <2>2. 1 \in Legs
      BY RouteAssumption DEF Legs
  <2> QED BY <2>1, <2>2 DEF Inv, Reset, TypeOK, None
<1>2. TurnInv' /\ ApproachInv' /\ GateInv'
    BY DEF Inv, Reset, TurnInv, ApproachInv, GateInv, Crossing
<1>3. SegOnlyOnStraights' /\ CrossingAimsAtExit'
    BY DEF Reset, SegOnlyOnStraights, CrossingAimsAtExit, Stopped
<1> QED BY <1>1, <1>2, <1>3 DEF Inv

LEMMA RouteStep == Inv /\ (SetRoute \/ Clear) => Inv'
<1>1. ASSUME Inv, SetRoute PROVE Inv'
  <2>1. Reset /\ cmd' = Stopped /\ pc' = pc /\ noise' = noise /\ pc = "idle"
      BY <1>1 DEF SetRoute
  <2>2. pos' \in Int
      BY <1>1, DistancesAssumption DEF SetRoute
  <2>3. route' \in BOOLEAN
      BY <1>1 DEF SetRoute
  <2>4. routes' \in 0 .. MaxRoutes
      BY <1>1, DistancesAssumption DEF SetRoute, Inv, TypeOK
  <2> QED BY <1>1, <2>1, <2>2, <2>3, <2>4, ResetStep
<1>2. ASSUME Inv, Clear PROVE Inv'
  <2>1. Reset /\ cmd' = Stopped /\ pc' = pc /\ noise' = noise /\ pc = "idle"
      BY <1>2 DEF Clear, placeVars
  <2>2. pos' \in Int /\ routes' \in 0 .. MaxRoutes
      BY <1>2 DEF Clear, Inv, TypeOK, placeVars
  <2>3. route' \in BOOLEAN
      BY <1>2 DEF Clear
  <2> QED BY <1>2, <2>1, <2>2, <2>3, ResetStep
<1> QED BY <1>1, <1>2

\* The vehicle only ever moves on along a leg.
LEMMA ComputeStep ==
    ASSUME Inv, NEW way \in 0 .. Step, NEW error \in -Noise .. Noise, Compute(way, error)
    PROVE  Inv'
<1> USE DEF Inv
<1>1. way \in Nat /\ error \in Int
    BY DistancesAssumption
<1>2. /\ pos' \in Int
      /\ mode # "TURNING" => pos' >= pos \/ pos' = Length[leg] + Far
  <2>1. pos \in Int /\ Length[leg] \in Nat /\ Far \in Nat
      BY Lengths, DistancesAssumption DEF TypeOK
  <2>2. CASE mode = "TURNING"
      BY <2>1, <2>2 DEF Compute
  <2>3. CASE mode # "TURNING"
    <3>1. pos' = UpTo(pos + way, Length[leg] + Far)
        BY <2>3 DEF Compute
    <3> QED BY <2>1, <3>1, <1>1 DEF UpTo
  <2> QED BY <2>2, <2>3
<1>3. TypeOK'
  <2>1. turnTravel' \in Nat /\ trail' \in Nat
    <3>1. Abs(way + noise' - noise) \in Nat
        BY <1>1 DEF Abs, Compute, TypeOK
    <3>2. TurnCap \in Nat
        BY Lengths, DistancesAssumption DEF TurnCap
    <3>3. trail' \in 0 .. UpTo(trail + Abs(way + noise' - noise), Window) \/ trail' = trail
        BY DEF Compute, Travel
    <3>4. UpTo(trail + Abs(way + noise' - noise), Window) \in Nat
        BY <1>1, <3>1, DistancesAssumption DEF UpTo, TypeOK
    <3>5. turnTravel' = UpTo(turnTravel + Abs(way + noise' - noise), TurnCap) \/ turnTravel' = turnTravel
        BY DEF Compute, Travel
    <3>6. turnTravel' \in Nat
        BY <1>1, <3>1, <3>2, <3>5 DEF UpTo, TypeOK
    <3> QED BY <1>1, <3>3, <3>4, <3>6 DEF TypeOK
  <2>2. hold' \in Nat \cup {None} /\ origin' \in Nat
      BY <1>1, DistancesAssumption DEF Compute, UpTo, TypeOK
  <2>3. pc' \in {"idle", "leg", "turn"} /\ noise' \in -Noise .. Noise
      BY DEF Compute
  <2>4. UNCHANGED <<route, routes, leg, mode, fired, firedTravel, span, gate, best, segOk, cmd>>
      BY DEF Compute
  <2> QED BY <1>2, <2>1, <2>2, <2>3, <2>4 DEF TypeOK
<1>4. TurnInv'
    BY DEF Compute, TurnInv, HasTurn
<1>5. ApproachInv'
  <2>1. UNCHANGED <<best, leg, mode>>
      BY DEF Compute
  <2>2. ASSUME best # None, pos' <= Length[leg] PROVE best >= Length[leg] - pos' - Noise
    <3>1. mode # "TURNING" /\ best \in Nat
        BY <2>2, Lengths DEF ApproachInv, TurnInv, HasTurn, IsFinal, TypeOK
    <3>2. CASE pos' = Length[leg] + Far
        BY <3>1, <3>2, Lengths, DistancesAssumption
    <3>3. CASE pos' >= pos
        BY <2>2, <3>1, <3>3, <1>2, Lengths, DistancesAssumption DEF ApproachInv, TypeOK
    <3> QED BY <3>1, <3>2, <3>3, <1>2
  <2> QED BY <2>1, <2>2 DEF ApproachInv, IsFinal
<1>6. GateInv'
  <2>1. UNCHANGED <<gate, leg, mode>>
      BY DEF Compute
  <2>2. mode # "TURNING" /\ pos' < -(Lookahead + Noise) => pos < -(Lookahead + Noise)
      BY <1>2, Lengths, DistancesAssumption DEF TypeOK
  <2> QED BY <2>1, <2>2 DEF GateInv, Crossing
<1>7. SegOnlyOnStraights' /\ CrossingAimsAtExit'
    BY DEF Compute, SegOnlyOnStraights, CrossingAimsAtExit
<1> QED BY <1>3, <1>4, <1>5, <1>6, <1>7

-----------------------------------------------------------------------------
(* Steps of a straight leg.                                                *)

\* Before the target, what the closest approach was taken from was at most by the jitter
\* of two measurements better: the vehicle has not been passed for.
LEMMA Approaching ==
    ASSUME Inv, pos <= Length[leg], best # None
    PROVE  ~Passed
<1>1. best \in Nat /\ best >= Length[leg] - pos - Noise
    BY DEF Inv, ApproachInv, TypeOK, None
<1>2. Remaining <= Length[leg] - pos + Noise
  <2>1. At = pos + noise /\ noise \in -Noise .. Noise /\ pos \in Int /\ Noise \in Nat
      BY DistancesAssumption DEF Inv, TypeOK, At
  <2>2. Length[leg] \in Nat
      BY Lengths DEF Inv
  <2> QED BY <2>1, <2>2 DEF Remaining, Ahead, Abs
<1>3. Remaining \in Nat /\ Length[leg] \in Nat /\ pos \in Int
    BY BestType, Lengths DEF Inv, TypeOK
<1> QED BY <1>1, <1>2, <1>3, DistancesAssumption, HysteresisAssumption DEF Passed

\* The closest approach stays true when it is taken anew.
LEMMA BestStep ==
    ASSUME Inv, best' = BestNow, UNCHANGED <<leg, pos, noise>>
    PROVE  ApproachInv'
<1>1. BestNow # None => IsFinal
    BY DEF BestNow, Inv, ApproachInv
<1>2. ASSUME BestNow # None, pos <= Length[leg] PROVE BestNow >= Length[leg] - pos - Noise
  <2>1. Remaining >= Length[leg] - pos - Noise
    <3>1. At = pos + noise /\ noise \in -Noise .. Noise /\ pos \in Int /\ Noise \in Nat
        BY DistancesAssumption DEF Inv, TypeOK, At
    <3>2. Length[leg] \in Nat
        BY Lengths DEF Inv
    <3> QED BY <3>1, <3>2 DEF Remaining, Ahead, Abs
  <2> QED BY <1>2, <2>1 DEF BestNow, Inv, ApproachInv
<1> QED BY <1>1, <1>2 DEF ApproachInv, IsFinal

\* Until the vehicle is close to the exit, the gate stands and is what the leg aims at.
LEMMA GateStands ==
    ASSUME Inv, mode # "TURNING", Crossing
    PROVE  GateAlive /\ Ahead > Length[leg]
<1>1. gate
    BY DEF Inv, GateInv
<1>2. At < -Lookahead /\ At \in Int
  <2>1. noise \in -Noise .. Noise /\ pos \in Int
      BY DEF Inv, TypeOK
  <2> QED BY <2>1, DistancesAssumption DEF Crossing, At
<1>3. Length[leg] \in Nat
    BY Lengths DEF Inv
<1> QED BY <1>1, <1>2, <1>3, DistancesAssumption DEF GateAlive, Ahead

LEMMA LegStopStep == Inv /\ LegStop => Inv'
<1> SUFFICES ASSUME Inv, LegStop PROVE Inv'
    OBVIOUS
<1>0. UNCHANGED <<route, routes, leg, mode, fired, firedTravel, turnTravel, span, trail,
                  hold, origin, pos, noise>>
    BY DEF LegStop, placeVars
<1>1. TypeOK'
  <2>1. Stopped \in Commands
      BY DEF Stopped, Commands
  <2>2. BestNow \in Nat \cup {None}
      BY BestType DEF Inv
  <2>3. gate' \in BOOLEAN /\ segOk' \in BOOLEAN
    <3>1. GateAlive \in BOOLEAN
        BY DEF GateAlive
    <3> QED BY <3>1 DEF LegStop
  <2>4. cmd' = Stopped /\ pc' = "idle" /\ best' = BestNow
      BY DEF LegStop
  <2> QED BY <1>0, <2>1, <2>2, <2>3, <2>4 DEF Inv, TypeOK
<1>2. TurnInv'
    BY <1>0 DEF LegStop, Inv, TurnInv, HasTurn
<1>3. ApproachInv'
    BY <1>0, BestStep DEF LegStop
<1>4. GateInv'
    BY <1>0, GateStands DEF LegStop, GateInv, Crossing
<1>5. SegOnlyOnStraights' /\ CrossingAimsAtExit'
    BY DEF LegStop, SegOnlyOnStraights, CrossingAimsAtExit, Stopped
<1> QED BY <1>1, <1>2, <1>3, <1>4, <1>5 DEF Inv

LEMMA LegAdvanceStep == Inv /\ LegAdvance => Inv'
<1> SUFFICES ASSUME Inv, LegAdvance PROVE Inv'
    OBVIOUS
<1>0. /\ leg < N /\ leg' = leg + 1 /\ leg' \in Legs /\ pc = "leg" /\ pc' = "leg"
      /\ mode' = "FOLLOW" /\ gate' = TRUE /\ best' = None
      /\ UNCHANGED <<route, routes, hold, origin, segOk, cmd, noise>>
  <2>1. leg < N /\ leg' = leg + 1 /\ pc = "leg" /\ best' = best /\ mode' = "FOLLOW" /\ pc' = pc
      BY DEF LegAdvance, AdvanceStraight, AdvanceLeg
  <2>2. leg' \in Legs
      BY <2>1, Lengths DEF Inv, Legs
  <2>3. best = None
      BY <2>1, Lengths DEF Inv, ApproachInv, IsFinal
  <2> QED BY <2>1, <2>2, <2>3 DEF LegAdvance, AdvanceStraight, AdvanceLeg
<1>1. TypeOK'
  <2>1. pos' \in Int
      BY Lengths DEF LegAdvance, AdvanceStraight, Inv, TypeOK
  <2>2. fired' = FALSE /\ firedTravel' = 0 /\ turnTravel' = 0 /\ span' = 1 /\ trail' = 0
      BY DEF LegAdvance, AdvanceStraight, AdvanceLeg
  <2> QED BY <1>0, <2>1, <2>2 DEF Inv, TypeOK
<1>2. TurnInv' /\ ApproachInv' /\ GateInv'
    BY <1>0 DEF TurnInv, ApproachInv, GateInv
<1>3. SegOnlyOnStraights' /\ CrossingAimsAtExit'
    BY <1>0 DEF SegOnlyOnStraights, CrossingAimsAtExit
<1> QED BY <1>1, <1>2, <1>3 DEF Inv

LEMMA LegBeginTurnStep ==
    ASSUME Inv, NEW sees \in BOOLEAN, NEW late \in BOOLEAN, LegBeginTurn(sees, late)
    PROVE  Inv'
<1>0. /\ UNCHANGED <<route, routes, leg, hold, origin, best, segOk, cmd, pos, noise>>
      /\ HasTurn /\ mode' = "TURNING" /\ pc' = "turn"
    BY DEF LegBeginTurn, placeVars, ArmedNow, Arming
<1>1. TypeOK'
  <2>1. fired' \in BOOLEAN /\ gate' \in BOOLEAN
    <3>1. SeesMark(sees) \in BOOLEAN /\ GateAlive \in BOOLEAN
        BY RouteAssumption DEF SeesMark, GateAlive, Inv, TypeOK
    <3> QED BY <3>1 DEF LegBeginTurn
  <2>2. firedTravel' \in Nat
    <3>1. FiredTravel(late) \in Nat
        BY Lengths DEF FiredTravel, UpTo, Inv, TypeOK
    <3> QED BY <3>1 DEF LegBeginTurn
  <2>3. span' \in {1, 2} /\ turnTravel' = 0 /\ trail' = 0
      BY DEF LegBeginTurn, FusedSpan
  <2> QED BY <1>0, <2>1, <2>2, <2>3 DEF Inv, TypeOK
<1>2. TurnInv'
  <2>1. span' = 2 => leg + 1 < N /\ Kind[leg + 1] = "turn"
      BY DEF LegBeginTurn, FusedSpan
  <2> QED BY <1>0, <2>1 DEF TurnInv, HasTurn
<1>3. ApproachInv'
    BY <1>0 DEF Inv, ApproachInv, IsFinal
<1>4. GateInv' /\ SegOnlyOnStraights' /\ CrossingAimsAtExit'
    BY <1>0 DEF GateInv, SegOnlyOnStraights, CrossingAimsAtExit
<1> QED BY <1>1, <1>2, <1>3, <1>4 DEF Inv

LEMMA LegFollowStep ==
    ASSUME Inv, NEW sees \in BOOLEAN, NEW late \in BOOLEAN, NEW segValid \in BOOLEAN,
           NEW gpsAgrees \in BOOLEAN, NEW nearCentre \in BOOLEAN,
           LegFollow(sees, late, segValid, gpsAgrees, nearCentre)
    PROVE  Inv'
<1>0. /\ UNCHANGED <<route, routes, leg, turnTravel, span, trail, origin, pos, noise>>
      /\ mode' = IF ArmedNow THEN "ARMED" ELSE mode
      /\ mode # "TURNING" /\ gate' = GateAlive /\ best' = BestNow
    BY DEF LegFollow, placeVars, Inv, TurnInv
<1>c. /\ cmd' \in Commands /\ segOk' \in BOOLEAN /\ hold' \in Nat \cup {None} /\ pc' = "idle"
      /\ cmd'.heading = PursueHeading(segValid, gpsAgrees) /\ cmd'.aim = Aim(nearCentre)
      /\ segOk' => ~ArmedNow /\ hold = None
      /\ cmd'.throttle # "off"
    BY FollowCommand DEF Inv
<1>1. TypeOK'
  <2>1. fired' \in BOOLEAN /\ firedTravel' \in Nat
    <3>1. SeesMark(sees) \in BOOLEAN
        BY RouteAssumption DEF SeesMark, Inv, TypeOK
    <3>2. FiredTravel(late) \in Nat
        BY Lengths DEF FiredTravel, UpTo, Inv, TypeOK
    <3>3. CASE ArmedNow
        BY <3>1, <3>2, <3>3 DEF LegFollow
    <3>4. CASE ~ArmedNow
        BY <3>4 DEF LegFollow, Inv, TypeOK
    <3> QED BY <3>3, <3>4
  <2>2. gate' \in BOOLEAN
      BY <1>0 DEF GateAlive
  <2>3. best' \in Nat \cup {None}
      BY <1>0, BestType DEF Inv
  <2>4. mode' \in {"FOLLOW", "ARMED", "TURNING"}
      BY <1>0 DEF Inv, TypeOK
  <2> QED BY <1>0, <1>c, <2>1, <2>2, <2>3, <2>4 DEF Inv, TypeOK
<1>2. TurnInv'
    BY <1>0, <1>c DEF Inv, TurnInv, HasTurn, ArmedNow
<1>3. ApproachInv'
    BY <1>0, BestStep
<1>4. GateInv'
    BY <1>0, GateStands DEF GateInv, Crossing
<1>5. SegOnlyOnStraights'
  <2>1. segOk' => mode = "FOLLOW" /\ mode' = mode
      BY <1>0, <1>c DEF Inv, TurnInv, TypeOK, ArmedNow
  <2>2. hold = None => hold' = None
      BY DEF LegFollow, Finish
  <2> QED BY <1>c, <2>1, <2>2 DEF SegOnlyOnStraights
<1>6. CrossingAimsAtExit'
  <2>1. ASSUME Crossing PROVE cmd'.aim = "gate" \/ (IsFinal /\ cmd'.aim = "beyond")
    <3>1. GateAlive /\ ~(Ahead <= Length[leg])
      <4>1. GateAlive /\ Ahead > Length[leg]
          BY <1>0, <2>1, GateStands
      <4>2. Ahead \in Int /\ Length[leg] \in Nat
          BY BestType, Lengths DEF Inv
      <4> QED BY <4>1, <4>2
    <3> QED BY <1>c, <3>1 DEF Aim
  <2> QED BY <1>0, <2>1 DEF CrossingAimsAtExit, Crossing, IsFinal
<1> QED BY <1>1, <1>2, <1>3, <1>4, <1>5, <1>6 DEF Inv

-----------------------------------------------------------------------------
(* Steps of a turn, and the invariant.                                     *)

\* The turn, or the two turns driven as one, lead to a leg of the route.
LEMMA TurnsAhead ==
    ASSUME Inv, pc = "turn"
    PROVE  /\ mode = "TURNING" /\ span \in {1, 2} /\ leg + span \in Legs
           /\ \A i \in leg .. leg + span - 1 : Kind[i] = "turn"
<1>1. mode = "TURNING" /\ leg < N /\ Kind[leg] = "turn" /\ span \in {1, 2}
    BY DEF Inv, TurnInv, TypeOK, HasTurn
<1>2. span = 2 => leg + 1 < N /\ Kind[leg + 1] = "turn"
    BY <1>1 DEF Inv, TurnInv
<1>3. N \in Nat /\ leg \in 1 .. N
    BY Lengths DEF Inv
<1>4. leg + span \in Legs
    BY <1>1, <1>2, <1>3 DEF Legs
<1>5. ASSUME NEW i \in leg .. leg + span - 1 PROVE Kind[i] = "turn"
  <2>1. i = leg \/ (span = 2 /\ i = leg + 1)
      BY <1>1, <1>3
  <2> QED BY <1>1, <1>2, <2>1
<1> QED BY <1>1, <1>4, <1>5

LEMMA TurnEndStep ==
    ASSUME Inv, NEW edge \in BOOLEAN, NEW byHeading \in BOOLEAN, NEW byCourse \in BOOLEAN,
           TurnEnd(edge, byHeading, byCourse)
    PROVE  Inv'
<1>0. /\ pc = "turn" /\ leg' = leg + span /\ mode' = "FOLLOW" /\ pc' = "leg" /\ hold' = 0
      /\ gate' = FALSE /\ fired' = FALSE /\ firedTravel' = 0 /\ turnTravel' = 0
      /\ span' = 1 /\ trail' = 0
      /\ UNCHANGED <<route, routes, origin, best, segOk, cmd, noise>>
    BY DEF TurnEnd, AdvanceLeg
<1>1. leg' \in Legs /\ Kind[leg' - 1] = "turn"
  <2>1. leg' - 1 \in leg .. leg + span - 1
      BY <1>0, TurnsAhead, Lengths DEF Inv
  <2> QED BY <1>0, <2>1, TurnsAhead
<1>2. TypeOK'
  <2>1. pos' \in Int
      BY DistancesAssumption DEF TurnEnd
  <2> QED BY <1>0, <1>1, <2>1 DEF Inv, TypeOK
<1>3. TurnInv' /\ GateInv'
  <2>1. Kind[leg' - 1] # "straight"
      BY <1>1
  <2> QED BY <1>0, <2>1 DEF TurnInv, GateInv, Crossing
<1>4. ApproachInv'
  <2>1. best = None
      BY <1>0, TurnsAhead, Lengths DEF Inv, ApproachInv, TurnInv, HasTurn, IsFinal
  <2> QED BY <1>0, <2>1 DEF ApproachInv
<1>5. SegOnlyOnStraights' /\ CrossingAimsAtExit'
    BY <1>0 DEF SegOnlyOnStraights, CrossingAimsAtExit
<1> QED BY <1>2, <1>3, <1>4, <1>5 DEF Inv

LEMMA TurnOnStep ==
    ASSUME Inv, NEW edge \in BOOLEAN, NEW byHeading \in BOOLEAN, NEW byCourse \in BOOLEAN,
           TurnOn(edge, byHeading, byCourse)
    PROVE  Inv'
<1> DEFINE c == [throttle |-> "turn", wheel |-> "table", heading |-> "none", aim |-> "none"]
<1>0. /\ pc = "turn" /\ Finish(c, FALSE)
      /\ UNCHANGED <<route, routes, leg, mode, fired, firedTravel, turnTravel, span, gate, trail,
                     origin, best, pos, noise>>
    BY DEF TurnOn, followVars, placeVars
<1>1. cmd' \in Commands /\ segOk' \in BOOLEAN /\ hold' \in Nat \cup {None} /\ pc' = "idle"
  <2>1. c \in Commands
      BY DEF Commands
  <2> HIDE DEF c
  <2> QED BY <1>0, <2>1, FinishType DEF Inv
<1>2. ~segOk' /\ cmd'.heading = "none"
    BY <1>0 DEF Finish
<1>3. mode = "TURNING"
    BY <1>0, TurnsAhead
<1>4. TypeOK'
    BY <1>0, <1>1 DEF Inv, TypeOK
<1>5. TurnInv' /\ ApproachInv' /\ GateInv'
    BY <1>0, <1>1, <1>3 DEF Inv, TurnInv, ApproachInv, GateInv, HasTurn, IsFinal
<1>6. SegOnlyOnStraights' /\ CrossingAimsAtExit'
    BY <1>0, <1>1, <1>2, <1>3 DEF SegOnlyOnStraights, CrossingAimsAtExit
<1> QED BY <1>4, <1>5, <1>6 DEF Inv

LEMMA StutterStep == Inv /\ UNCHANGED vars => Inv'
<1> SUFFICES ASSUME Inv, UNCHANGED vars PROVE Inv'
    OBVIOUS
<1>0. UNCHANGED <<route, routes, leg, mode, fired, firedTravel, turnTravel, span, gate, trail,
                  hold, origin, best, segOk, cmd, pc, pos, noise>>
    BY DEF vars, followVars, placeVars
<1>1. TypeOK'
    BY <1>0 DEF Inv, TypeOK
<1>2. TurnInv' /\ ApproachInv' /\ GateInv'
    BY <1>0 DEF Inv, TurnInv, ApproachInv, GateInv, Crossing, HasTurn, IsFinal
<1>3. SegOnlyOnStraights' /\ CrossingAimsAtExit'
    BY <1>0 DEF Inv, SegOnlyOnStraights, CrossingAimsAtExit, IsFinal
<1> QED BY <1>1, <1>2, <1>3 DEF Inv

LEMMA NextStep == Inv /\ [Next]_vars => Inv'
<1> SUFFICES ASSUME Inv, [Next]_vars PROVE Inv'
    OBVIOUS
<1>1. CASE SetRoute \/ Clear
    BY <1>1, RouteStep
<1>2. CASE \E way \in 0 .. Step, error \in -Noise .. Noise : Compute(way, error)
    BY <1>2, ComputeStep
<1>3. CASE LegStop
    BY <1>3, LegStopStep
<1>4. CASE LegAdvance
    BY <1>4, LegAdvanceStep
<1>5. CASE \E late \in BOOLEAN : LegDecides(late)
  <2>1. PICK late, sees, segValid, gpsAgrees, nearCentre \in BOOLEAN :
            LegBeginTurn(sees, late) \/ LegFollow(sees, late, segValid, gpsAgrees, nearCentre)
      BY <1>5 DEF LegDecides
  <2> QED BY <2>1, LegBeginTurnStep, LegFollowStep
<1>6. CASE Turn
  <2>1. PICK edge, byHeading, byCourse \in BOOLEAN :
            TurnEnd(edge, byHeading, byCourse) \/ TurnOn(edge, byHeading, byCourse)
      BY <1>6 DEF Turn
  <2> QED BY <2>1, TurnEndStep, TurnOnStep
<1>7. CASE UNCHANGED vars
    BY <1>7, StutterStep
<1> QED BY <1>1, <1>2, <1>3, <1>4, <1>5, <1>6, <1>7 DEF Next, Leg

\* The invariant holds in every reachable state, on every route.
THEOREM Invariant == Spec => []Inv
<1> QED BY InitInv, NextStep, PTL DEF Spec

\* Every variable keeps its type; in particular the leg stays on the route, also over
\* turns that are driven as one.
THEOREM TypeCorrect == Spec => []TypeOK
<1>1. Inv => TypeOK
    BY DEF Inv
<1> QED BY <1>1, Invariant, PTL

\* The vehicle gives up before the target only when it is past it, whatever route it is
\* on and however the position jitters within half of the hysteresis.
THEOREM StopsOnlyPassed == Spec => []PassedMeansPassed
<1>1. Inv => PassedMeansPassed
  <2> SUFFICES ASSUME Inv, Passed, ~(pos > Length[leg]) PROVE FALSE
      BY DEF PassedMeansPassed
  <2>1. pos <= Length[leg] /\ best # None
    <3>1. pos \in Int /\ Length[leg] \in Nat
        BY Lengths DEF Inv, TypeOK
    <3>2. best # None
        BY DEF Passed
    <3> QED BY <3>1, <3>2
  <2> QED BY <2>1, Approaching
<1> QED BY <1>1, Invariant, PTL

\* The camera corrects the steering on straight legs only.
THEOREM SegCorrectsStraights == Spec => []SegOnlyOnStraights
<1>1. Inv => SegOnlyOnStraights
    BY DEF Inv
<1> QED BY <1>1, Invariant, PTL

\* A junction crossed straight on is crossed towards the connector's exit.
THEOREM CrossesAtExit == Spec => []CrossingAimsAtExit
<1>1. Inv => CrossingAimsAtExit
    BY DEF Inv
<1> QED BY <1>1, Invariant, PTL

\* No connector is passed otherwise than the route directs.
LEMMA PassStep ==
    ASSUME Inv, [Next]_vars
    PROVE  [leg' > leg => \A i \in leg .. leg' - 1 : Kind[i] = "turn" <=> mode = "TURNING"]_vars
<1> SUFFICES ASSUME Next, leg' > leg
             PROVE  \A i \in leg .. leg' - 1 : Kind[i] = "turn" <=> mode = "TURNING"
    OBVIOUS
<1>0. N \in Nat /\ leg \in 1 .. N
    BY Lengths DEF Inv
<1>1. CASE SetRoute \/ Clear
    BY <1>0, <1>1 DEF SetRoute, Clear, Reset
<1>2. CASE \E way \in 0 .. Step, error \in -Noise .. Noise : Compute(way, error)
    BY <1>0, <1>2 DEF Compute
<1>3. CASE LegStop
    BY <1>0, <1>3 DEF LegStop
<1>4. CASE LegAdvance
  <2>1. leg' = leg + 1 /\ mode # "TURNING" /\ leg < N /\ Kind[leg] # "turn"
      BY <1>4 DEF LegAdvance, AdvanceStraight, AdvanceLeg, HasTurn, Inv, TurnInv
  <2>2. \A i \in leg .. leg' - 1 : i = leg
      BY <1>0, <2>1
  <2> QED BY <2>1, <2>2
<1>5. CASE \E late \in BOOLEAN : LegDecides(late)
    BY <1>0, <1>5 DEF LegDecides, LegBeginTurn, LegFollow
<1>6. CASE Turn
  <2>1. PICK edge, byHeading, byCourse \in BOOLEAN :
            TurnEnd(edge, byHeading, byCourse) \/ TurnOn(edge, byHeading, byCourse)
      BY <1>6 DEF Turn
  <2>2. CASE TurnEnd(edge, byHeading, byCourse)
    <3>1. pc = "turn"
        BY <2>2 DEF TurnEnd
    <3>2. leg' = leg + span
        BY <2>2 DEF TurnEnd, AdvanceLeg
    <3>3. mode = "TURNING" /\ span \in {1, 2}
        BY <3>1, TurnsAhead
    <3>4. ASSUME NEW i \in leg .. leg' - 1 PROVE Kind[i] = "turn"
      <4>1. i \in leg .. leg + span - 1
          BY <1>0, <3>2, <3>3
      <4> QED BY <3>1, <4>1, TurnsAhead
    <3> QED BY <3>3, <3>4
  <2>3. CASE TurnOn(edge, byHeading, byCourse)
      BY <1>0, <2>3 DEF TurnOn, followVars
  <2> QED BY <2>1, <2>2, <2>3
<1> QED BY <1>1, <1>2, <1>3, <1>4, <1>5, <1>6 DEF Next, Leg

\* Every turn of the route is turned at, also where two are driven as one, and nothing
\* else is.
THEOREM DrivenAsDirected == Spec => PassesAsDirected
<1> QED BY Invariant, PassStep, PTL DEF Spec, PassesAsDirected

-----------------------------------------------------------------------------
(***************************************************************************)
(* What holds of the drivers and of the steering for every setting of the  *)
(* boards that ActuationAssumption allows, not only the vehicle's.         *)
(***************************************************************************)

(***************************************************************************)
(* Any number of threads may write to the channels of the motor's board at *)
(* once.  What they write are the writes of forwards and stops.            *)
(***************************************************************************)
MotorWrites ==
    {Forward(speed)[i] : speed \in 0 .. Full, i \in 1 .. 3} \cup {StopWrites[i] : i \in 1 .. 3}

\* The input for the way back is never switched on.
OneWay(board) ==
    /\ board \in [Channels -> Nat]
    /\ IF Sign < 0 THEN board["in2"] = 0 ELSE board["in1"] = 0

LEMMA WritesAreOneWay ==
    ASSUME NEW w \in MotorWrites
    PROVE  /\ w[1] \in Channels /\ w[2] \in Nat
           /\ w[1] = (IF Sign < 0 THEN "in2" ELSE "in1") => w[2] = 0
<1>1. Full \in Nat /\ Full > 0 /\ Sign \in {-1, 1}
  BY ActuationAssumption DEF ActuationAssumption
<1>2. CASE w \in {StopWrites[i] : i \in 1 .. 3}
  <2>1. PICK i \in 1 .. 3 : w = StopWrites[i]
    BY <1>2
  <2>2. w = <<"pwm", 0>> \/ w = <<"in1", 0>> \/ w = <<"in2", 0>>
    BY <2>1 DEF StopWrites, RawWrites, Magnitude
  <2> QED
    BY <2>2 DEF Channels
<1>3. CASE w \in {Forward(speed)[i] : speed \in 0 .. Full, i \in 1 .. 3}
  <2>1. PICK speed \in 0 .. Full, i \in 1 .. 3 : w = Forward(speed)[i]
    BY <1>3
  <2>2. Magnitude(speed) = speed
    BY <1>1 DEF Magnitude
  <2>3. CASE Sign < 0
    <3>1. -Sign * Magnitude(speed) = speed
      BY <1>1, <2>2, <2>3
    <3>2. Forward(speed) =
            << <<"pwm", speed>>, <<"in1", IF speed > 0 THEN Full ELSE 0>>, <<"in2", 0>> >>
      BY <1>1, <2>2, <3>1 DEF Forward, RawWrites
    <3>3. w = <<"pwm", speed>> \/ w = <<"in1", IF speed > 0 THEN Full ELSE 0>> \/ w = <<"in2", 0>>
      BY <2>1, <3>2
    <3> QED
      BY <1>1, <2>3, <3>3 DEF Channels
  <2>4. CASE ~(Sign < 0)
    <3>1. -Sign * Magnitude(speed) = -speed
      BY <1>1, <2>2, <2>4
    <3>2. Magnitude(-speed) = speed
      BY <1>1 DEF Magnitude
    <3>3. Forward(speed) =
            << <<"pwm", speed>>, <<"in1", 0>>, <<"in2", IF speed > 0 THEN Full ELSE 0>> >>
      BY <1>1, <3>1, <3>2 DEF Forward, RawWrites
    <3>4. w = <<"pwm", speed>> \/ w = <<"in1", 0>> \/ w = <<"in2", IF speed > 0 THEN Full ELSE 0>>
      BY <2>1, <3>3
    <3> QED
      BY <1>1, <2>4, <3>4 DEF Channels
  <2> QED
    BY <2>3, <2>4
<1> QED
  BY <1>2, <1>3 DEF MotorWrites

\* Whatever writes of forwards and stops come after each other, of however many threads, the
\* motor never turns backwards: the writes to the three channels need no lock for that.
THEOREM NeverBackwards ==
    /\ OneWay(BoardOff)
    /\ \A board, w : OneWay(board) /\ w \in MotorWrites => OneWay(Write(board, w))
    /\ \A board : OneWay(board) => ~Backwards(board)
<1>1. Sign \in {-1, 1}
  BY ActuationAssumption DEF ActuationAssumption
<1>2. OneWay(BoardOff)
  BY <1>1 DEF OneWay, BoardOff, Channels
<1>3. ASSUME NEW board, NEW w, OneWay(board), w \in MotorWrites
      PROVE  OneWay(Write(board, w))
  <2>1. w[1] \in Channels /\ w[2] \in Nat
    BY <1>3, WritesAreOneWay
  <2>2. Write(board, w) \in [Channels -> Nat]
    BY <1>3, <2>1 DEF OneWay, Write
  <2>3. CASE Sign < 0
    <3>1. board["in2"] = 0 /\ (w[1] = "in2" => w[2] = 0)
      BY <1>3, <2>3, WritesAreOneWay DEF OneWay
    <3>2. Write(board, w)["in2"] = 0
      BY <1>3, <2>1, <3>1 DEF OneWay, Write, Channels
    <3> QED
      BY <2>2, <2>3, <3>2 DEF OneWay
  <2>4. CASE ~(Sign < 0)
    <3>1. board["in1"] = 0 /\ (w[1] = "in1" => w[2] = 0)
      BY <1>3, <2>4, WritesAreOneWay DEF OneWay
    <3>2. Write(board, w)["in1"] = 0
      BY <1>3, <2>1, <3>1 DEF OneWay, Write, Channels
    <3> QED
      BY <2>2, <2>4, <3>2 DEF OneWay
  <2> QED
    BY <2>3, <2>4
<1>4. ASSUME NEW board, OneWay(board)
      PROVE  ~Backwards(board)
  <2>1. board["in1"] \in Nat /\ board["in2"] \in Nat
    BY <1>4 DEF OneWay, Channels
  <2> QED
    BY <1>1, <1>4, <2>1 DEF OneWay, Backwards
<1> QED
  BY <1>2, <1>3, <1>4

-----------------------------------------------------------------------------
\* The way through the steering keeps the order of the angles, leaves straight straight, and
\* stays in both ranges; and what goes out differs from what is reported by something other
\* than the trim only where the servo's own range ends.
THEOREM SteeringIsSound ==
    ASSUME NEW s \in Int, NEW t \in Int, s <= t
    PROVE  /\ Physical(s) <= Physical(t)
           /\ Physical(Center) = HwCenter
           /\ Physical(s) \in HwLow .. HwHigh
           /\ Physical(s) # s + Trim => s < HwLow - Trim \/ s > HwHigh - Trim
<1>1. /\ Center \in Int /\ HwCenter \in Int /\ HwLow \in Int /\ HwHigh \in Int
      /\ HwLow <= HwCenter /\ HwCenter <= HwHigh
  BY ActuationAssumption DEF ActuationAssumption
<1> QED
  BY <1>1 DEF Physical, SetAngle, Clip, Trim

\* What is reported for any angle of the wheel is in the reported range.
THEOREM ReportInRange ==
    ASSUME NEW wheel \in Int
    PROVE  WheelToServo(wheel) \in LeftMax .. RightMax
<1>1. /\ Center \in Int /\ LeftMax \in Int /\ RightMax \in Int
      /\ LeftMax <= Center /\ Center <= RightMax /\ RatioNum \in Nat \ {0} /\ RatioDen \in Nat \ {0}
  BY ActuationAssumption DEF ActuationAssumption
<1>2. (wheel * RatioDen) \div RatioNum \in Int
  BY <1>1
<1> QED
  BY <1>1, <1>2 DEF WheelToServo, Clip

\* A limited wheel moves towards its target, by no more than a step, and not past it.
THEOREM LimitedWheel ==
    ASSUME NEW last \in Int, NEW wheel \in Int, NEW step \in Nat, step > 0
    PROVE  LET next == RateLimit(<<last>>, wheel, step)
           IN  /\ next - last <= step /\ last - next <= step
               /\ last <= wheel => last <= next /\ next <= wheel
               /\ wheel <= last => wheel <= next /\ next <= last
<1> QED
  BY DEF RateLimit, Clip
=============================================================================
