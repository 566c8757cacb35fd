------------------------- MODULE LocalizationProofs -------------------------
(***************************************************************************)
(* The invariants of Localization, and that it implements PositionFeed,    *)
(* for all times and bounds.                                               *)
(***************************************************************************)
EXTENDS Localization, Motion, TLAPS

\* The server's clock has been set back by this much in all.
Behind == Setback * setbacks

\* Stamps are never farther ahead of the server's clock than it was set back, and a pose on
\* its way waits for one unit of time at most.
LagInv ==
    /\ placeLag \in -Behind .. Horizon
    /\ prevLag \in -Behind .. Horizon
    /\ anchorLag \in -Behind .. Horizon
    /\ anchorLag <= MaxLatency
    /\ checked # NoPose => /\ checked.age \in 0 .. 1
                           /\ checked.age <= checked.lag
                           /\ checked.lag <= MaxLatency + checked.age

\* FreshIsRecent by the age of the last tick; and a fresh position is not a lost one.
AgeInv ==
    ~poseStale => /\ hadPose /\ ~lost
                  /\ \/ acceptAge < Timeout + tickAge
                     \/ feeding /\ acceptAge <= Budget + tickAge

\* While dead reckoning stands in, what it stores stays behind its anchor.
FeedingInv == feeding => anchor # "none" /\ placeLag >= anchorLag + Margin

Inv == TypeOK /\ LagInv /\ AgeInv /\ FeedingInv

-----------------------------------------------------------------------------

LEMMA Times ==
    /\ Timeout \in Nat /\ TickPeriod \in Nat /\ Budget \in Nat /\ Margin \in Nat /\ JumpAge \in Nat
    /\ MaxLatency \in Nat /\ Setback \in Nat /\ MaxSetbacks \in Nat /\ Horizon \in Nat
    /\ TickPeriod > 0 /\ Margin > 0 /\ JumpAge > 0 /\ Timeout >= 2 /\ Timeout <= Budget
    /\ Horizon > Budget + TickPeriod + 1
    /\ Horizon > MaxLatency + JumpAge + Margin /\ Horizon > MaxLatency + 2
  BY TimesAssumption DEF TimesAssumption

LEMMA BehindBounds ==
    ASSUME NEW n \in 0 .. MaxSetbacks
    PROVE  Setback * n \in Nat /\ Setback * n <= Setback * MaxSetbacks
<1>1. Setback \in Nat /\ MaxSetbacks \in Nat /\ n \in Nat /\ MaxSetbacks - n \in Nat
  BY Times
<1>2. Setback * (MaxSetbacks - n) \in Nat /\ Setback * n \in Nat
  BY <1>1
<1>3. Setback * MaxSetbacks = Setback * n + Setback * (MaxSetbacks - n)
  BY <1>1
<1> QED
  BY <1>2, <1>3

\* What is within the set-backs so far is a lag.
LEMMA LagsInRange ==
    ASSUME NEW n \in 0 .. MaxSetbacks, NEW lag \in -(Setback * n) .. Horizon
    PROVE  lag \in Lags
<1>1. PICK b \in Nat, c \in Nat : b = Setback * n /\ c = Setback * MaxSetbacks /\ b <= c
  BY BehindBounds, Times
<1>2. lag \in -b .. Horizon /\ Horizon \in Nat
  BY <1>1, Times
<1>3. lag \in -c .. Horizon
  BY <1>1, <1>2
<1> QED
  BY <1>1, <1>3 DEF Lags

LEMMA InitInv == Init => Inv
<1> SUFFICES ASSUME Init PROVE Inv
  OBVIOUS
<1>1. setbacks = 0 /\ MaxSetbacks \in Nat /\ Horizon \in Nat /\ TickPeriod \in Nat /\ MaxLatency \in Nat
  BY Times DEF Init
<1>2. 0 \in -Behind .. Horizon
  BY <1>1, Times DEF Behind
<1>3. 0 \in Lags
  BY <1>1, <1>2, LagsInRange DEF Behind
<1>4. TypeOK
  <2>1. {placeLag, prevLag, anchorLag} \subseteq Lags
    BY <1>3 DEF Init
  <2>2. /\ {hadPose, lost, poseStale, feeding, driving, zone} \subseteq BOOLEAN
        /\ {place, prev, anchor} \subseteq Places \cup {"none"} /\ checked \in Poses \cup {NoPose}
    BY DEF Init
  <2>3. {acceptAge, blind} \subseteq 0 .. Horizon /\ tickAge \in 0 .. TickPeriod /\ setbacks \in 0 .. MaxSetbacks
    BY <1>1 DEF Init
  <2> QED
    BY <2>1, <2>2, <2>3 DEF TypeOK
<1>5. LagInv
  <2>1. placeLag = 0 /\ prevLag = 0 /\ anchorLag = 0 /\ checked = NoPose
    BY DEF Init
  <2>2. 0 <= MaxLatency
    BY <1>1
  <2> QED
    BY <1>2, <2>1, <2>2 DEF LagInv
<1> QED
  BY <1>4, <1>5 DEF Inv, AgeInv, FeedingInv, Init

\* What Inv says of each variable, in the form the steps use it.
Flags ==
    /\ hadPose \in BOOLEAN /\ lost \in BOOLEAN /\ poseStale \in BOOLEAN /\ feeding \in BOOLEAN
    /\ driving \in BOOLEAN /\ zone \in BOOLEAN
Typed ==
    /\ Flags
    /\ place \in Places \cup {"none"} /\ prev \in Places \cup {"none"}
    /\ anchor \in Places \cup {"none"}
    /\ acceptAge \in 0 .. Horizon /\ blind \in 0 .. Horizon
    /\ checked \in Poses \cup {NoPose}
    /\ tickAge \in 0 .. TickPeriod /\ setbacks \in 0 .. MaxSetbacks

LEMMA InvTyped ==
    Inv => Typed /\ Behind \in Nat /\ placeLag \in Int /\ prevLag \in Int /\ anchorLag \in Int
<1> SUFFICES ASSUME Inv
             PROVE  Typed /\ Behind \in Nat /\ placeLag \in Int /\ prevLag \in Int /\ anchorLag \in Int
  OBVIOUS
<1>1. setbacks \in 0 .. MaxSetbacks
  BY DEF Inv, TypeOK
<1>2. Behind \in Nat /\ Horizon \in Nat
  BY <1>1, BehindBounds, Times DEF Behind
<1>3. placeLag \in Int /\ prevLag \in Int /\ anchorLag \in Int
  BY <1>2 DEF Inv, LagInv
<1> QED
  BY <1>1, <1>2, <1>3 DEF Inv, TypeOK, Typed, Flags

\* The types follow from those of the variables and from the bounds of the lags.
LEMMA TypesNext == ASSUME Typed', LagInv' PROVE TypeOK'
<1>1. setbacks' \in 0 .. MaxSetbacks
  BY DEF Typed
<1>2. placeLag' \in Lags /\ prevLag' \in Lags /\ anchorLag' \in Lags
  BY <1>1, LagsInRange DEF LagInv, Behind
<1> QED
  BY <1>1, <1>2 DEF Typed, Flags, TypeOK

-----------------------------------------------------------------------------
(* The steps preserve Inv.                                                 *)

Kept == Typed' /\ LagInv' /\ AgeInv' /\ FeedingInv'

LEMMA ValidateKeeps ==
    ASSUME Inv, NEW p \in Places, NEW lag \in 0 .. MaxLatency, NEW inZone \in BOOLEAN, Validate(p, lag, inZone)
    PROVE  Kept
<1>1. Typed /\ Behind \in Nat /\ placeLag \in Int /\ prevLag \in Int /\ anchorLag \in Int
  BY InvTyped
<1>2. Typed'
  BY <1>1, Times DEF Typed, Flags, Validate, storeVars, reckonerVars, serviceVars, envVars, Poses, Lags
<1>3. LagInv'
  BY <1>1, Times DEF Validate, Inv, LagInv, Behind, storeVars, reckonerVars, envVars
<1>4. AgeInv'
  BY <1>1 DEF Validate, Inv, AgeInv, storeVars, serviceVars
<1>5. FeedingInv'
  BY <1>1 DEF Validate, Inv, FeedingInv, storeVars, reckonerVars, serviceVars
<1> QED
  BY <1>2, <1>3, <1>4, <1>5 DEF Kept

LEMMA RefuseSuspectKeeps ==
    ASSUME Inv, RefuseSuspect
    PROVE  Kept
<1>1. Typed /\ Behind \in Nat /\ placeLag \in Int /\ prevLag \in Int /\ anchorLag \in Int
  BY InvTyped
<1>2. Typed'
  BY <1>1 DEF Typed, Flags, RefuseSuspect, storeVars, validatorVars, serviceVars, envVars
<1>3. LagInv'
  BY <1>1 DEF RefuseSuspect, Inv, LagInv, Behind, storeVars, validatorVars, envVars
<1>4. AgeInv'
  BY <1>1 DEF RefuseSuspect, Inv, AgeInv, storeVars, serviceVars
<1>5. FeedingInv'
  BY <1>1 DEF RefuseSuspect, Inv, FeedingInv, storeVars, serviceVars
<1> QED
  BY <1>2, <1>3, <1>4, <1>5 DEF Kept

LEMMA RefuseLateKeeps ==
    ASSUME Inv, RefuseLate
    PROVE  Kept
<1>1. Typed /\ Behind \in Nat /\ placeLag \in Int /\ prevLag \in Int /\ anchorLag \in Int
  BY InvTyped
<1>2. Typed'
  BY <1>1 DEF Typed, Flags, RefuseLate, storeVars, validatorVars, serviceVars, envVars
<1>3. LagInv'
  BY <1>1 DEF RefuseLate, Inv, LagInv, Behind, storeVars, validatorVars, envVars
<1>4. AgeInv'
  BY <1>1 DEF RefuseLate, Inv, AgeInv, storeVars, serviceVars
<1>5. FeedingInv'
  BY <1>1 DEF RefuseLate, Inv, FeedingInv, storeVars, serviceVars
<1> QED
  BY <1>2, <1>3, <1>4, <1>5 DEF Kept

LEMMA AcceptKeeps ==
    ASSUME Inv, Accept
    PROVE  Kept
<1>1. Typed /\ Behind \in Nat /\ placeLag \in Int /\ prevLag \in Int /\ anchorLag \in Int
  BY InvTyped
<1>2. Typed'
  <2>1. checked \in Poses
    BY <1>1 DEF Accept, Typed
  <2>2. checked.place \in Places /\ checked.age \in 0 .. Horizon
    BY <2>1 DEF Poses
  <2>3. /\ poseStale' = FALSE /\ place' = checked.place /\ acceptAge' = checked.age
        /\ anchor' = checked.place /\ blind' = 0
        /\ feeding' = FALSE /\ hadPose' = TRUE /\ lost' = FALSE /\ checked' = NoPose
    BY DEF Accept, UpdatePose
  <2>4. UNCHANGED <<driving, zone, setbacks, prev, tickAge>>
    BY DEF Accept, envVars, validatorVars
  <2>5. Flags'
    BY <1>1, <2>2, <2>3, <2>4 DEF Typed, Flags
  <2> QED
    BY <1>1, <2>2, <2>3, <2>4, <2>5, Times DEF Typed
<1>3. LagInv'
  <2>1. checked \in Poses /\ checked # NoPose
    BY <1>1 DEF Accept, Typed
  <2>2. checked.lag \in Int /\ checked.age \in Int
    BY <2>1 DEF Poses, Lags
  <2>3. /\ checked.age >= 0 /\ checked.age <= checked.lag /\ checked.age <= 1
        /\ checked.lag <= MaxLatency + checked.age
    BY <2>1, <2>2 DEF Inv, LagInv
  <2>4. /\ placeLag' = checked.lag /\ anchorLag' = checked.lag - checked.age
        /\ prevLag' = prevLag /\ Behind' = Behind /\ checked' = NoPose
    BY DEF Accept, UpdatePose, validatorVars, envVars, Behind
  <2>5. placeLag' \in -Behind' .. Horizon /\ anchorLag' \in -Behind' .. Horizon /\ anchorLag' <= MaxLatency
    BY <1>1, <2>2, <2>3, <2>4, Times
  <2> QED
    BY <2>4, <2>5 DEF Inv, LagInv
<1>4. AgeInv'
  BY <1>1, Times DEF Typed, Accept, UpdatePose, Inv, LagInv, AgeInv
<1>5. FeedingInv'
  BY <1>1 DEF Accept, UpdatePose, FeedingInv
<1> QED
  BY <1>2, <1>3, <1>4, <1>5 DEF Kept

LEMMA NotFoundKeeps ==
    ASSUME Inv, NotFound
    PROVE  Kept
<1>1. Typed /\ Behind \in Nat /\ placeLag \in Int /\ prevLag \in Int /\ anchorLag \in Int
  BY InvTyped
<1>2. Typed'
  BY <1>1 DEF Typed, Flags, NotFound, validatorVars, reckonerVars, serviceVars, envVars
<1>3. LagInv'
  BY <1>1 DEF NotFound, Inv, LagInv, Behind, validatorVars, reckonerVars, envVars
<1>4. AgeInv'
  BY <1>1 DEF NotFound, AgeInv
<1>5. FeedingInv'
  BY <1>1 DEF NotFound, Inv, FeedingInv, reckonerVars, serviceVars
<1> QED
  BY <1>2, <1>3, <1>4, <1>5 DEF Kept

LEMMA DisconnectKeeps ==
    ASSUME Inv, Disconnect
    PROVE  Kept
<1>1. Typed /\ Behind \in Nat /\ placeLag \in Int /\ prevLag \in Int /\ anchorLag \in Int
  BY InvTyped
<1>2. Typed'
  <2>1. /\ lost' = TRUE /\ feeding' = FALSE /\ driving' = FALSE /\ poseStale' = TRUE
        /\ prev' = "none" /\ anchor' = "none" /\ blind' = 0
    BY DEF Disconnect, DeclareLost
  <2>2. UNCHANGED <<place, hadPose, acceptAge, zone, setbacks, checked, tickAge>>
    BY DEF Disconnect, DeclareLost
  <2>3. Flags'
    BY <1>1, <2>1, <2>2 DEF Typed, Flags
  <2> QED
    BY <1>1, <2>1, <2>2, <2>3, Times DEF Typed
<1>3. LagInv'
  BY <1>1, Times DEF Disconnect, DeclareLost, Inv, LagInv, Behind
<1>4. AgeInv'
  BY <1>1 DEF Disconnect, DeclareLost, AgeInv
<1>5. FeedingInv'
  BY <1>1 DEF Disconnect, DeclareLost, FeedingInv
<1> QED
  BY <1>2, <1>3, <1>4, <1>5 DEF Kept

LEMMA TickRestKeeps ==
    ASSUME Inv, TickRest
    PROVE  Kept
<1>1. Typed /\ Behind \in Nat /\ placeLag \in Int /\ prevLag \in Int /\ anchorLag \in Int
  BY InvTyped
<1>2. Typed'
  BY <1>1, Times DEF Typed, Flags, TickRest, storeVars, validatorVars, reckonerVars, serviceVars, envVars
<1>3. LagInv'
  BY <1>1 DEF TickRest, Inv, LagInv, Behind, storeVars, validatorVars, reckonerVars, envVars
<1>4. AgeInv'
  BY Times DEF TickRest, Inv, AgeInv, storeVars, serviceVars
<1>5. FeedingInv'
  BY <1>1 DEF TickRest, Inv, FeedingInv, storeVars, reckonerVars, serviceVars
<1> QED
  BY <1>2, <1>3, <1>4, <1>5 DEF Kept

LEMMA TickFeedKeeps ==
    ASSUME Inv, TickFeed
    PROVE  Kept
<1>1. Typed /\ Behind \in Nat /\ placeLag \in Int /\ prevLag \in Int /\ anchorLag \in Int
  BY InvTyped
<1>2. Typed'
  <2>1. poseStale' = FALSE /\ place' = anchor /\ blind' = acceptAge /\ feeding' = TRUE /\ tickAge' = 0
    BY DEF TickFeed, UpdatePose
  <2>2. UNCHANGED <<hadPose, lost, acceptAge, driving, zone, setbacks, prev, anchor, checked>>
    BY DEF TickFeed, envVars, validatorVars
  <2>3. Flags'
    BY <1>1, <2>1, <2>2 DEF Typed, Flags
  <2> QED
    BY <1>1, <2>1, <2>2, <2>3, Times DEF Typed
<1>3. LagInv'
  BY <1>1, Times DEF TickFeed, UpdatePose, Watched, Feedable, Inv, LagInv, Behind, validatorVars, envVars
<1>4. AgeInv'
  BY Times DEF TickFeed, UpdatePose, Watched, Feedable, AgeInv
<1>5. FeedingInv'
  BY <1>1 DEF TickFeed, UpdatePose, Watched, Feedable, FeedingInv
<1> QED
  BY <1>2, <1>3, <1>4, <1>5 DEF Kept

LEMMA TickWaitKeeps ==
    ASSUME Inv, TickWait
    PROVE  Kept
<1>1. Typed /\ Behind \in Nat /\ placeLag \in Int /\ prevLag \in Int /\ anchorLag \in Int
  BY InvTyped
<1>2. Typed'
  BY <1>1, Times DEF Typed, Flags, TickWait, Watched, storeVars, validatorVars, serviceVars, envVars
<1>3. LagInv'
  BY <1>1 DEF TickWait, Watched, Inv, LagInv, Behind, storeVars, validatorVars, envVars
<1>4. AgeInv'
  BY Times DEF TickWait, Watched, AgeInv, serviceVars
<1>5. FeedingInv'
  BY <1>1 DEF TickWait, Watched, Inv, FeedingInv, storeVars, serviceVars
<1> QED
  BY <1>2, <1>3, <1>4, <1>5 DEF Kept

LEMMA TickLoseKeeps ==
    ASSUME Inv, TickLose
    PROVE  Kept
<1>1. Typed /\ Behind \in Nat /\ placeLag \in Int /\ prevLag \in Int /\ anchorLag \in Int
  BY InvTyped
<1>2. Typed'
  <2>1. /\ lost' = TRUE /\ feeding' = FALSE /\ driving' = FALSE /\ poseStale' = TRUE
        /\ prev' = "none" /\ anchor' = "none" /\ blind' = 0 /\ tickAge' = 0
    BY DEF TickLose, DeclareLost
  <2>2. UNCHANGED <<place, hadPose, acceptAge, zone, setbacks, checked>>
    BY DEF TickLose, DeclareLost
  <2>3. Flags'
    BY <1>1, <2>1, <2>2 DEF Typed, Flags
  <2> QED
    BY <1>1, <2>1, <2>2, <2>3, Times DEF Typed
<1>3. LagInv'
  BY <1>1, Times DEF TickLose, Watched, DeclareLost, Inv, LagInv, Behind
<1>4. AgeInv'
  BY <1>1 DEF TickLose, Watched, DeclareLost, AgeInv
<1>5. FeedingInv'
  BY <1>1 DEF TickLose, Watched, DeclareLost, FeedingInv
<1> QED
  BY <1>2, <1>3, <1>4, <1>5 DEF Kept

LEMMA ElapseKeeps ==
    ASSUME Inv, Elapse
    PROVE  Kept
<1>1. Typed /\ Behind \in Nat /\ placeLag \in Int /\ prevLag \in Int /\ anchorLag \in Int
  BY InvTyped
<1>2. Typed'
  <2>1. acceptAge' \in 0 .. Horizon /\ tickAge' \in 0 .. TickPeriod
    BY <1>1, Times DEF Typed, Elapse, Older
  <2>2. checked' \in Poses \cup {NoPose}
    <3>1. CASE checked = NoPose
      BY <3>1 DEF Elapse
    <3>2. CASE checked # NoPose
      <4>1. checked \in Poses
        BY <1>1, <3>2 DEF Typed
      <4>2. Older(checked.lag) \in Lags
        BY <4>1, Times DEF Poses, Lags, Older
      <4>3. 1 \in 0 .. Horizon
        BY Times
      <4> QED
        BY <3>2, <4>1, <4>2, <4>3 DEF Elapse, Poses
    <3> QED
      BY <3>1, <3>2
  <2>3. UNCHANGED <<hadPose, lost, poseStale, feeding, driving, zone, place, prev, anchor, blind, setbacks>>
    BY DEF Elapse, envVars, reckonerVars
  <2> QED
    BY <1>1, <2>1, <2>2, <2>3 DEF Typed, Flags
<1>3. LagInv'
  <2>1. placeLag' \in -Behind .. Horizon /\ prevLag' \in -Behind .. Horizon
    BY <1>1, Times DEF Inv, LagInv, Elapse, Older
  <2>2. Behind' = Behind /\ anchorLag' = anchorLag
    BY DEF Elapse, envVars, reckonerVars, Behind
  <2>3. ASSUME checked' # NoPose
        PROVE  checked'.age \in 0 .. 1 /\ checked'.age <= checked'.lag /\ checked'.lag <= MaxLatency + checked'.age
    <3>1. checked # NoPose /\ checked \in Poses /\ checked.age = 0
      BY <1>1, <2>3 DEF Elapse, Typed
    <3>2. checked.lag \in Lags /\ 0 <= checked.lag /\ checked.lag <= MaxLatency
      BY <3>1, Times DEF Poses, Inv, LagInv
    <3>3. checked'.lag = Older(checked.lag) /\ checked'.age = 1
      BY <3>1 DEF Elapse
    <3>4. Older(checked.lag) = checked.lag + 1
      BY <3>2, Times DEF Older, Lags
    <3> QED
      BY <3>2, <3>3, <3>4, Times DEF Lags
  <2> QED
    BY <2>1, <2>2, <2>3 DEF Inv, LagInv
<1>4. AgeInv'
  BY <1>1, Times DEF Typed, Elapse, Older, Inv, AgeInv
<1>5. FeedingInv'
  BY <1>1, Times DEF Elapse, Older, Inv, FeedingInv, reckonerVars
<1> QED
  BY <1>2, <1>3, <1>4, <1>5 DEF Kept

LEMMA ChangeDrivingKeeps ==
    ASSUME Inv, ChangeDriving
    PROVE  Kept
<1>1. Typed /\ Behind \in Nat /\ placeLag \in Int /\ prevLag \in Int /\ anchorLag \in Int
  BY InvTyped
<1>2. Typed'
  BY <1>1 DEF Typed, Flags, ChangeDriving, storeVars, validatorVars, reckonerVars, serviceVars
<1>3. LagInv'
  BY <1>1 DEF ChangeDriving, Inv, LagInv, Behind, storeVars, validatorVars, reckonerVars
<1>4. AgeInv'
  BY <1>1 DEF ChangeDriving, Inv, AgeInv, storeVars, serviceVars
<1>5. FeedingInv'
  BY <1>1 DEF ChangeDriving, Inv, FeedingInv, storeVars, reckonerVars, serviceVars
<1> QED
  BY <1>2, <1>3, <1>4, <1>5 DEF Kept

LEMMA ChangeZoneKeeps ==
    ASSUME Inv, ChangeZone
    PROVE  Kept
<1>1. Typed /\ Behind \in Nat /\ placeLag \in Int /\ prevLag \in Int /\ anchorLag \in Int
  BY InvTyped
<1>2. Typed'
  BY <1>1 DEF Typed, Flags, ChangeZone, storeVars, validatorVars, reckonerVars, serviceVars
<1>3. LagInv'
  BY <1>1 DEF ChangeZone, Inv, LagInv, Behind, storeVars, validatorVars, reckonerVars
<1>4. AgeInv'
  BY <1>1 DEF ChangeZone, Inv, AgeInv, storeVars, serviceVars
<1>5. FeedingInv'
  BY <1>1 DEF ChangeZone, Inv, FeedingInv, storeVars, reckonerVars, serviceVars
<1> QED
  BY <1>2, <1>3, <1>4, <1>5 DEF Kept

LEMMA SetClockBackKeeps ==
    ASSUME Inv, SetClockBack
    PROVE  Kept
<1>1. Typed /\ Behind \in Nat /\ placeLag \in Int /\ prevLag \in Int /\ anchorLag \in Int
  BY InvTyped
<1>2. Typed'
  BY <1>1, Times DEF Typed, Flags, SetClockBack, serviceVars
<1>3. LagInv'
  BY <1>1, Times DEF Typed, SetClockBack, Inv, LagInv, Behind
<1>4. AgeInv'
  BY <1>1 DEF SetClockBack, Inv, AgeInv, serviceVars
<1>5. FeedingInv'
  BY <1>1, Times DEF SetClockBack, Inv, FeedingInv, serviceVars
<1> QED
  BY <1>2, <1>3, <1>4, <1>5 DEF Kept

LEMMA NextInv == Inv /\ [Next]_vars => Inv'
<1> SUFFICES ASSUME Inv, [Next]_vars PROVE Kept
  BY TypesNext DEF Kept, Inv
<1>1. ASSUME NEW p \in Places, NEW lag \in 0 .. MaxLatency, NEW inZone \in BOOLEAN,
             Validate(p, lag, inZone)
      PROVE  Kept
  BY <1>1, ValidateKeeps
<1>2. ASSUME Handle PROVE Kept
  BY <1>2, RefuseSuspectKeeps, RefuseLateKeeps, AcceptKeeps DEF Handle
<1>3. CASE NotFound
  BY <1>3, NotFoundKeeps
<1>4. CASE Disconnect
  BY <1>4, DisconnectKeeps
<1>5. ASSUME Tick PROVE Kept
  BY <1>5, TickRestKeeps, TickFeedKeeps, TickWaitKeeps, TickLoseKeeps DEF Tick
<1>6. CASE Elapse
  BY <1>6, ElapseKeeps
<1>7. CASE ChangeDriving
  BY <1>7, ChangeDrivingKeeps
<1>8. CASE ChangeZone
  BY <1>8, ChangeZoneKeeps
<1>9. CASE SetClockBack
  BY <1>9, SetClockBackKeeps
<1>10. CASE UNCHANGED vars
  <2>1. Typed
    BY InvTyped
  <2> QED
    BY <1>10, <2>1 DEF Kept, Inv, Typed, Flags, LagInv, AgeInv, FeedingInv, Behind, vars,
       storeVars, validatorVars, reckonerVars, serviceVars, envVars
<1> QED
  BY <1>1, <1>2, <1>3, <1>4, <1>5, <1>6, <1>7, <1>8, <1>9, <1>10 DEF Next

\* The strengthened invariant holds in every reachable state.
THEOREM LocalizationInvariant == Spec => []Inv
  BY InitInv, NextInv, PTL DEF Spec

\* Every variable keeps its type: no lag leaves the range that the set-backs and the horizon
\* give it (localization_service.py, pose_validator.py, dead_reckoner.py).
THEOREM LocalizationTypes == Spec => []TypeOK
<1>1. Inv => TypeOK
  BY DEF Inv
<1> QED
  BY <1>1, LocalizationInvariant, PTL

\* A position that may be driven on is recent, whether it was received or reckoned
\* (localization_service.py:125-137, 247-267).
THEOREM FreshPositions == Spec => []FreshIsRecent
<1>1. Inv => FreshIsRecent
  <2> SUFFICES ASSUME Inv, ~poseStale PROVE FreshIsRecent
    BY DEF FreshIsRecent
  <2>1. tickAge \in 0 .. TickPeriod /\ acceptAge \in 0 .. Horizon
    BY InvTyped DEF Typed
  <2>2. acceptAge < Timeout + tickAge \/ (feeding /\ acceptAge <= Budget + tickAge)
    BY DEF Inv, AgeInv
  <2>3. acceptAge < Timeout + tickAge => acceptAge < Timeout + TickPeriod
    BY <2>1, Times
  <2>4. acceptAge <= Budget + tickAge => acceptAge <= Budget + TickPeriod
    BY <2>1, Times
  <2> QED
    BY <2>2, <2>3, <2>4 DEF FreshIsRecent
<1> QED
  BY <1>1, LocalizationInvariant, PTL

\* A synthetic pose does not shut out a true one that waited for the lock meanwhile, if its
\* stamp is set back by more than such a wait (dead_reckoner.py:74-75).
THEOREM TrueOnesGetIn == ASSUME Margin > 1 PROVE Spec => []StandInGivesWay
<1>1. Inv => StandInGivesWay
  <2> SUFFICES ASSUME Inv, checked # NoPose, feeding, checked.lag - checked.age <= anchorLag
               PROVE  StoreTakes(checked.lag)
    BY DEF StandInGivesWay
  <2>1. placeLag \in Int /\ anchorLag \in Int /\ checked \in Poses
    BY InvTyped DEF Typed
  <2>2. checked.lag \in Int /\ checked.age \in 0 .. 1
    BY <2>1, Times DEF Poses, Lags, Inv, LagInv
  <2>3. placeLag >= anchorLag + Margin
    BY DEF Inv, FeedingInv
  <2>4. checked.lag < placeLag
    BY <2>1, <2>2, <2>3, Times
  <2> QED
    BY <2>4 DEF StoreTakes
<1> QED
  BY <1>1, LocalizationInvariant, PTL

-----------------------------------------------------------------------------
(* The refinement: what each step is for the rest of the vehicle.          *)

Gps == IF lost THEN "lost" ELSE IF hadPose THEN "ok" ELSE "none"

LEMMA NextFeeds == Inv /\ [Next]_vars => [Feed!FeedNext]_(Feed!feedVars)
<1> SUFFICES ASSUME Inv, [Next]_vars
             PROVE  \/ Gps' = Gps /\ poseStale' = poseStale
                    \/ Gps' = "ok" /\ poseStale' = FALSE
                    \/ poseStale' = TRUE /\ Gps' = Gps
                    \/ Gps = "ok" /\ Gps' = "lost" /\ poseStale' = TRUE
  BY DEF Feed!FeedNext, Feed!Take, Feed!Hide, Feed!Lose, Feed!feedVars, Gps
<1>1. CASE UNCHANGED <<hadPose, lost, poseStale>>
  BY <1>1 DEF Gps
<1>2. CASE Accept
  BY <1>2 DEF Accept, UpdatePose, Gps
<1>3. CASE NotFound
  BY <1>3 DEF NotFound, serviceVars, Gps
<1>4. CASE Disconnect
  BY <1>4 DEF Disconnect, DeclareLost, Gps
<1>5. CASE TickLose
  BY <1>5 DEF TickLose, Watched, DeclareLost, Gps
<1>6. CASE TickFeed
  BY <1>6 DEF TickFeed, Watched, UpdatePose, Gps
<1>7. ASSUME ~(Accept \/ NotFound \/ Disconnect \/ TickLose \/ TickFeed)
      PROVE  UNCHANGED <<hadPose, lost, poseStale>>
  <2>1. ASSUME NEW p \in Places, NEW lag \in 0 .. MaxLatency, NEW inZone \in BOOLEAN,
               Validate(p, lag, inZone)
        PROVE  UNCHANGED <<hadPose, lost, poseStale>>
    BY <2>1 DEF Validate, storeVars, serviceVars
  <2>2. CASE Handle
    BY <1>7, <2>2 DEF Handle, RefuseSuspect, RefuseLate, storeVars, serviceVars
  <2>3. CASE Tick
    BY <1>7, <2>3 DEF Tick, TickRest, TickWait, storeVars, serviceVars
  <2>4. CASE Elapse \/ ChangeDriving \/ ChangeZone \/ SetClockBack
    BY <2>4 DEF Elapse, ChangeDriving, ChangeZone, SetClockBack, storeVars, serviceVars
  <2>5. CASE UNCHANGED vars
    BY <2>5 DEF vars, storeVars, serviceVars
  <2> QED
    BY <1>7, <2>1, <2>2, <2>3, <2>4, <2>5 DEF Next
<1> QED
  BY <1>1, <1>2, <1>3, <1>4, <1>5, <1>6, <1>7

\* Losses and recoveries are told to the policy in turn, never before the first position, and
\* while the position is lost nothing is fresh (localization_service.py:141-189): this is what
\* VehicleControl assumes of the localization.
THEOREM FeedIsImplemented == Spec => ImplementsPositionFeed
<1>1. Init => Feed!FeedInit
  BY DEF Init, Feed!FeedInit
<1> QED
  BY <1>1, NextFeeds, LocalizationInvariant, PTL DEF Spec, ImplementsPositionFeed, Feed!FeedSpec

-----------------------------------------------------------------------------
(***************************************************************************)
(* What holds of the reckoned motion for every rate, wheel and time: the   *)
(* two threads that reckon it may cut the time as they like, and it never  *)
(* overshoots what is commanded.                                           *)
(***************************************************************************)

\* A follower that is limited in two steps ends where it ends in one of both lengths.
LEMMA TowardAdds ==
    ASSUME NEW v \in Int, NEW target \in Int, NEW a \in Nat, NEW b \in Nat
    PROVE  Toward(Toward(v, target, a), target, b) = Toward(v, target, a + b)
<1>1. CASE target > v + a
  BY <1>1 DEF Toward
<1>2. CASE target < v - a
  BY <1>2 DEF Toward
<1>3. CASE target <= v + a /\ target >= v - a
  BY <1>3 DEF Toward
<1> QED
  BY <1>1, <1>2, <1>3

\* What follows a command stays between where it was and the command, and within its rate
\* (dead_reckoner.py:101-106).
THEOREM NeverOvershoots ==
    ASSUME NEW v \in Int, NEW target \in Int, NEW most \in Nat
    PROVE  LET next == Toward(v, target, most)
           IN  /\ next \in Int
               /\ next - v <= most /\ v - next <= most
               /\ v <= target => v <= next /\ next <= target
               /\ target <= v => target <= next /\ next <= v
<1> QED
  BY DEF Toward

Motions == [wheel : Int, v : Int, heading : Int, way : Int, time : Int]

\* Whether a time is integrated at once or cut in two, by the callback of a pose and by the
\* service's tick, the wheel, the speed and the time reckoned are the same
\* (dead_reckoner.py:98-113, heading_estimator.py:125-136).
THEOREM CutsAgree ==
    ASSUME NEW m \in Motions, NEW throttle, Speed(throttle) \in Int, NEW wheel \in Int,
           NEW s \in Nat, NEW t \in Nat
    PROVE  LET once  == Integrate(m, throttle, wheel, s + t)
               twice == Integrate(Integrate(m, throttle, wheel, s), throttle, wheel, t)
           IN  once.wheel = twice.wheel /\ once.v = twice.v /\ once.time = twice.time
<1>1. ServoRate \in Nat /\ Accel \in Nat
  BY MotionAssumption DEF MotionAssumption
<1>2. m.wheel \in Int /\ m.v \in Int /\ m.time \in Int
  BY DEF Motions
<1>3. PICK a \in Nat, b \in Nat :
          a = ServoRate * s /\ b = ServoRate * t /\ a + b = ServoRate * (s + t)
  BY <1>1
<1>4. PICK c \in Nat, d \in Nat :
          c = Accel * s /\ d = Accel * t /\ c + d = Accel * (s + t)
  BY <1>1
<1>5. PICK w \in Int, v \in Int, target \in Int :
          w = m.wheel /\ v = m.v /\ target = Speed(throttle)
  BY <1>2
<1>6. Toward(Toward(w, wheel, a), wheel, b) = Toward(w, wheel, a + b)
  BY TowardAdds
<1>7. Toward(Toward(v, target, c), target, d) = Toward(v, target, c + d)
  BY TowardAdds
<1>8. m.time + s + t = m.time + (s + t)
  BY <1>2
<1> QED
  BY <1>3, <1>4, <1>5, <1>6, <1>7, <1>8 DEF Integrate

\* The difference of two headings is the short way, and it does lead from one to the other
\* (heading_estimator.py:43-46, geometry.py:101-103).
THEOREM HeadingDiffIsShort ==
    ASSUME NEW a \in Int, NEW b \in Int
    PROVE  /\ HeadingDiff(a, b) \in -180 .. 179
           /\ (b + HeadingDiff(a, b)) % 360 = a % 360
<1>1. (a - b + 180) % 360 \in 0 .. 359
  OBVIOUS
<1>2. (b + HeadingDiff(a, b)) % 360 = a % 360
  BY DEF HeadingDiff
<1> QED
  BY <1>1, <1>2 DEF HeadingDiff
=============================================================================
