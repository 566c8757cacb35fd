---------------------------- MODULE Localization ----------------------------
(***************************************************************************)
(* The localization service (localization/localization_service.py) with    *)
(* its validator, its dead reckoner and the part of the store it writes.   *)
(*                                                                         *)
(* Two threads: the network thread validates a message without the lock    *)
(* (pose_validator.py) and then handles the result under it; the service's *)
(* own tick declares the loss, or bridges it with a synthetic pose.        *)
(*                                                                         *)
(* Time is kept relative to now, so that it may go on for ever.  A time    *)
(* stamp of the position server is represented by its lag, how far it is   *)
(* behind the server's clock now; a later stamp has a smaller lag.  Ages   *)
(* and lags are counted up to Horizon, beyond which all are alike.         *)
(*                                                                         *)
(* Of a position only two things are told apart: "true" is where dead      *)
(* reckoning from the last true position puts the vehicle, "ghost" is a    *)
(* distorted position too far from it; both are self-consistent.  The      *)
(* tunnel mode and the heading estimator are enabled, as configured.       *)
(***************************************************************************)
EXTENDS Integers

CONSTANTS
    Timeout,        \* pose_timeout_sec, as a number of time units
    TickPeriod,     \* the longest time between two ticks of the service
    Budget,         \* max_blind_time_s (and what it takes to go max_blind_distance_m)
    Margin,         \* by how much synthetic stamps are set back
    JumpAge,        \* a ghost passes the jump test after a gap of this length
    MaxLatency,     \* bound on the lag of a message when it arrives
    Setback,        \* by how much a server's clock may be set back
    MaxSetbacks,    \* bound on how often that happens
    Horizon         \* ages and lags are counted up to here

VARIABLES
    hadPose,        \* _had_pose
    lost,           \* _lost
    poseStale,      \* StateStore: pose_stale
    acceptAge,      \* the age of _last_accept_monotonic
    place,          \* StateStore: pose, or "none"
    placeLag,       \* the lag of its source_timestamp_s
    prev,           \* PoseValidator._prev, or "none"
    prevLag,        \* the lag of its source_timestamp_s
    anchor,         \* DeadReckoner: the anchored position, or "none"
    anchorLag,      \* its stamp, as the lag it had when it was received
    blind,          \* DeadReckoner._blind_time as of the last propagation
    feeding,        \* _dr_feeding
    checked,        \* the validated pose on its way to the lock, or NoPose
    driving,        \* the driving state is one of _TUNNEL_STATES
    zone,           \* the vehicle is in a tunnel zone
    tickAge,        \* the age of the last tick
    setbacks        \* set-backs of the server's clock so far

storeVars     == <<poseStale, place, placeLag>>
validatorVars == <<prev, prevLag>>
reckonerVars  == <<anchor, anchorLag, blind>>
serviceVars   == <<hadPose, lost, acceptAge, feeding>>
envVars       == <<driving, zone, setbacks>>
vars == <<storeVars, validatorVars, reckonerVars, serviceVars, envVars, checked, tickAge>>

ASSUME TimesAssumption ==
    /\ {Timeout, TickPeriod, Budget, Margin, JumpAge} \subseteq Nat \ {0}
    /\ {MaxLatency, Setback, MaxSetbacks, Horizon} \subseteq Nat
    /\ Margin < Timeout /\ Timeout <= Budget
    /\ Horizon > Budget + TickPeriod + 1
    /\ Horizon > MaxLatency + JumpAge + Margin

Places == {"true", "ghost"}
Lags   == -(Setback * MaxSetbacks) .. Horizon
NoPose == [place |-> "none", lag |-> 0, age |-> 0, inZone |-> FALSE]
Poses  == [place : Places, lag : Lags, age : 0 .. Horizon, inZone : BOOLEAN]

Older(n) == IF n < Horizon THEN n + 1 ELSE n

TypeOK ==
    /\ {hadPose, lost, poseStale, feeding, driving, zone} \subseteq BOOLEAN
    /\ {place, prev, anchor} \subseteq Places \cup {"none"}
    /\ {placeLag, prevLag, anchorLag} \subseteq Lags
    /\ {acceptAge, blind} \subseteq 0 .. Horizon
    /\ checked \in Poses \cup {NoPose}
    /\ tickAge \in 0 .. TickPeriod
    /\ setbacks \in 0 .. MaxSetbacks

Init ==
    /\ hadPose = FALSE /\ lost = FALSE /\ poseStale = TRUE /\ feeding = FALSE
    /\ acceptAge = 0 /\ blind = 0 /\ tickAge = 0 /\ setbacks = 0
    /\ place = "none" /\ prev = "none" /\ anchor = "none"
    /\ placeLag = 0 /\ prevLag = 0 /\ anchorLag = 0
    /\ checked = NoPose /\ driving = FALSE /\ zone = FALSE

-----------------------------------------------------------------------------
(* Parts of the handlers.                                                  *)

\* StateStore.update_pose takes only a later stamp than the one it has.
StoreTakes(lag) == place = "none" \/ lag < placeLag

UpdatePose(p, lag) == poseStale' = FALSE /\ place' = p /\ placeLag' = lag

\* A slip: the pose is kept as fresh until a message says otherwise.
DeclareLostFresh ==
    /\ lost' = TRUE /\ feeding' = FALSE /\ driving' = FALSE
    /\ prev' = "none" /\ prevLag' = 0
    /\ anchor' = "none" /\ anchorLag' = 0 /\ blind' = 0
    /\ UNCHANGED <<storeVars, hadPose, acceptAge>>

\* _declare_lost after its early return.  on_lost makes the state ERROR, which is
\* not one of the tunnel states.
DeclareLost ==
    /\ lost' = TRUE /\ feeding' = FALSE /\ driving' = FALSE
    /\ poseStale' = TRUE
    /\ prev' = "none" /\ prevLag' = 0
    /\ anchor' = "none" /\ anchorLag' = 0 /\ blind' = 0
    /\ UNCHANGED <<place, placeLag, hadPose, acceptAge>>

\* _suspect: the pose is far from where dead reckoning, while it can be trusted,
\* puts the vehicle.  The budget is the one of the last propagation.
Trusted(p) == anchor # "none" /\ p.inZone /\ driving /\ blind <= Budget
Suspect(p) == Trusted(p) /\ p.place # anchor

\* A slip: the budget of blind driving is not looked at.
FeedableUnbounded ==
    /\ anchor # "none" /\ driving /\ zone
    /\ StoreTakes(anchorLag + Margin)

\* _tunnel_feed: dead reckoning may stand in for the position.
Feedable ==
    /\ anchor # "none" /\ driving /\ zone
    /\ acceptAge <= Budget
    /\ StoreTakes(anchorLag + Margin)

-----------------------------------------------------------------------------
(* The network thread.                                                     *)

\* The jump test of validate; the tolerance grows with the time between the stamps.
Jumps(p, lag) == prev # "none" /\ p # prev /\ prevLag - lag < JumpAge

\* A message whose pose passes all tests of validate, which runs before the lock is
\* taken.  Any other message but NotFound changes nothing.
Validate(p, lag, inZone) ==
    /\ checked = NoPose
    /\ prev = "none" \/ lag < prevLag
    /\ ~Jumps(p, lag)
    /\ prev' = p /\ prevLag' = lag
    /\ checked' = [place |-> p, lag |-> lag, age |-> 0, inZone |-> inZone]
    /\ UNCHANGED <<storeVars, reckonerVars, serviceVars, envVars, tickAge>>

\* A slip: the time of the last propagation is not kept, so its time counts again.
RefuseSuspectRecounts ==
    /\ checked # NoPose /\ Suspect(checked)
    /\ checked' = NoPose
    /\ blind' = blind + acceptAge
    /\ UNCHANGED <<storeVars, validatorVars, anchor, anchorLag, serviceVars, envVars, tickAge>>

\* _accept of a pose that dead reckoning contradicts.
RefuseSuspect ==
    /\ checked # NoPose /\ Suspect(checked)
    /\ checked' = NoPose
    /\ blind' = acceptAge
    /\ UNCHANGED <<storeVars, validatorVars, anchor, anchorLag, serviceVars, envVars, tickAge>>

\* _accept of a pose the store refuses, because a later one is already there.
RefuseLate ==
    /\ checked # NoPose /\ ~Suspect(checked) /\ ~StoreTakes(checked.lag)
    /\ checked' = NoPose
    /\ blind' = IF Trusted(checked) THEN acceptAge ELSE blind
    /\ UNCHANGED <<storeVars, validatorVars, anchor, anchorLag, serviceVars, envVars, tickAge>>

\* A slip: a pose that ends a loss is stored, but the loss goes on.
AcceptKeepsLost ==
    /\ checked # NoPose /\ ~Suspect(checked) /\ StoreTakes(checked.lag)
    /\ UpdatePose(checked.place, checked.lag)
    /\ acceptAge' = checked.age
    /\ anchor' = checked.place /\ anchorLag' = checked.lag - checked.age /\ blind' = 0
    /\ feeding' = FALSE /\ hadPose' = TRUE /\ lost' = lost
    /\ checked' = NoPose
    /\ UNCHANGED <<validatorVars, envVars, tickAge>>

\* _accept to its end: store, dead reckoner, first pose, end of a loss.
Accept ==
    /\ checked # NoPose /\ ~Suspect(checked) /\ StoreTakes(checked.lag)
    /\ UpdatePose(checked.place, checked.lag)
    /\ acceptAge' = checked.age
    /\ anchor' = checked.place /\ anchorLag' = checked.lag - checked.age /\ blind' = 0
    /\ feeding' = FALSE /\ hadPose' = TRUE /\ lost' = FALSE
    /\ checked' = NoPose
    /\ UNCHANGED <<validatorVars, envVars, tickAge>>

\* The server does not see the marker.
NotFound ==
    /\ checked = NoPose
    /\ poseStale' = TRUE
    /\ UNCHANGED <<place, placeLag, validatorVars, reckonerVars, serviceVars, envVars,
                   checked, tickAge>>

\* The connection to the position server breaks: lost at once, but not before the
\* first pose and not twice.
Disconnect ==
    /\ checked = NoPose
    /\ ~lost /\ hadPose
    /\ DeclareLost
    /\ UNCHANGED <<zone, setbacks, checked, tickAge>>

-----------------------------------------------------------------------------
(* The tick of the service.                                                *)

\* Nothing to do: not yet located, already lost, or a recent pose that is not stale.
TickRest ==
    /\ lost \/ ~hadPose \/ (~poseStale /\ acceptAge < Timeout)
    /\ tickAge' = 0
    /\ UNCHANGED <<storeVars, validatorVars, reckonerVars, serviceVars, envVars, checked>>

Watched == ~lost /\ hadPose /\ (poseStale \/ acceptAge >= Timeout)

\* A slip: the synthetic stamp is not set back.
TickFeedNoMargin ==
    /\ Watched /\ Feedable
    /\ UpdatePose(anchor, anchorLag)
    /\ blind' = acceptAge /\ feeding' = TRUE
    /\ tickAge' = 0
    /\ UNCHANGED <<validatorVars, anchor, anchorLag, hadPose, lost, acceptAge, envVars, checked>>

\* A synthetic pose stands in for the missing one.
TickFeed ==
    /\ Watched /\ Feedable
    /\ UpdatePose(anchor, anchorLag + Margin)
    /\ blind' = acceptAge /\ feeding' = TRUE
    /\ tickAge' = 0
    /\ UNCHANGED <<validatorVars, anchor, anchorLag, hadPose, lost, acceptAge, envVars, checked>>

\* No stand-in, but the last pose is still recent enough.
TickWait ==
    /\ Watched /\ ~Feedable /\ acceptAge < Timeout
    /\ blind' = IF anchor # "none" /\ driving THEN acceptAge ELSE blind
    /\ tickAge' = 0
    /\ UNCHANGED <<storeVars, validatorVars, anchor, anchorLag, serviceVars, envVars, checked>>

\* No stand-in and no pose for too long.
TickLose ==
    /\ Watched /\ ~Feedable /\ acceptAge >= Timeout
    /\ DeclareLost
    /\ tickAge' = 0
    /\ UNCHANGED <<zone, setbacks, checked>>

-----------------------------------------------------------------------------
(* Time, the vehicle and the server's clock.                               *)

\* One unit of time.  The tick is not late, and the lock is not waited for longer.
Elapse ==
    /\ tickAge < TickPeriod /\ checked.age = 0
    /\ tickAge' = tickAge + 1
    /\ acceptAge' = Older(acceptAge)
    /\ placeLag' = Older(placeLag)
    /\ prevLag' = Older(prevLag)
    /\ checked' = IF checked = NoPose THEN NoPose
                  ELSE [checked EXCEPT !.lag = Older(@), !.age = 1]
    /\ UNCHANGED <<poseStale, place, prev, reckonerVars, hadPose, lost, feeding, envVars>>

\* The driving state enters or leaves the tunnel states; not while it is lost.
ChangeDriving ==
    /\ ~lost
    /\ driving' = ~driving
    /\ UNCHANGED <<storeVars, validatorVars, reckonerVars, serviceVars, zone, setbacks,
                   checked, tickAge>>

ChangeZone ==
    /\ zone' = ~zone
    /\ UNCHANGED <<storeVars, validatorVars, reckonerVars, serviceVars, driving, setbacks,
                   checked, tickAge>>

\* The position server goes on with an earlier clock.
SetClockBack ==
    /\ setbacks < MaxSetbacks /\ checked = NoPose
    /\ setbacks' = setbacks + 1
    /\ placeLag' = placeLag - Setback
    /\ prevLag' = IF prev = "none" THEN prevLag ELSE prevLag - Setback
    /\ anchorLag' = IF anchor = "none" THEN anchorLag ELSE anchorLag - Setback
    /\ UNCHANGED <<poseStale, place, prev, anchor, blind, serviceVars, driving, zone,
                   checked, tickAge>>

-----------------------------------------------------------------------------

\* Ticks are apart in time: each comes after the wait of its worker.
Tick ==
    /\ tickAge > 0
    /\ TickRest \/ TickFeed \/ TickWait \/ TickLose

Handle == RefuseSuspect \/ RefuseLate \/ Accept

Next ==
    \/ \E p \in Places, lag \in 0 .. MaxLatency, inZone \in BOOLEAN : Validate(p, lag, inZone)
    \/ Handle \/ NotFound \/ Disconnect
    \/ Tick
    \/ Elapse \/ ChangeDriving \/ ChangeZone \/ SetClockBack

Spec == Init /\ [][Next]_vars

\* Time goes on, the tick is taken, a validated pose is handled, and again and again
\* a true position arrives that passes the tests of the validator.
FairSpec ==
    /\ Spec
    /\ WF_vars(Elapse) /\ WF_vars(Tick) /\ WF_vars(Handle)
    /\ SF_vars(\E inZone \in BOOLEAN : Validate("true", 0, inZone))

-----------------------------------------------------------------------------

\* A pose that may be driven on is recent: it was received less than the timeout and
\* a tick ago, or it is synthetic and its anchor is within the budget and a tick.
FreshIsRecent ==
    ~poseStale => \/ acceptAge < Timeout + TickPeriod
                  \/ feeding /\ acceptAge <= Budget + TickPeriod

\* The refinement mapping onto what VehicleControl assumes of the localization.
Feed == INSTANCE PositionFeed WITH
    gps <- IF lost THEN "lost" ELSE IF hadPose THEN "ok" ELSE "none",
    stale <- poseStale

\* Losses and recoveries are reported strictly in turn, never before the first pose,
\* and no synthetic or late pose is fresh while the position is lost.
ImplementsPositionFeed == Feed!FeedSpec

\* A synthetic pose does not shut out the true ones: a pose that was received while
\* dead reckoning stands in, and no later than its anchor had been, is not refused for
\* its stamp, though a synthetic one may get to the store before it does.
StandInGivesWay ==
    checked # NoPose /\ feeding /\ checked.lag - checked.age <= anchorLag
        => StoreTakes(checked.lag)

\* A position that is lost is found again: neither the stamps of synthetic poses nor a
\* ghost taken as the reference keeps the true positions out for ever.
LostIsFound == lost ~> ~lost
=============================================================================
