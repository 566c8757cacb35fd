---------------------------- MODULE PositionFeed ----------------------------
(***************************************************************************)
(* What the localization promises the rest of the vehicle, and what        *)
(* VehicleControl assumes of it: no loss is reported before the first      *)
(* position; losses and recoveries alternate; while lost, the position is  *)
(* stale; and a recovery makes it fresh.                                   *)
(***************************************************************************)

VARIABLES
    gps,        \* "none" before the first position, then "ok" or "lost"
    stale       \* the position must not be driven on

feedVars == <<gps, stale>>

FeedInit == gps = "none" /\ stale = TRUE

\* A position is taken; the first one after a loss is reported as a recovery.
Take == gps' = "ok" /\ stale' = FALSE

\* The position is not to be used for now.
Hide == stale' = TRUE /\ UNCHANGED gps

\* The position is reported lost.
Lose == gps = "ok" /\ gps' = "lost" /\ stale' = TRUE

FeedNext == Take \/ Hide \/ Lose

FeedSpec == FeedInit /\ [][FeedNext]_feedVars
=============================================================================
