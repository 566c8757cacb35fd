------------------------------- MODULE LaneMap -------------------------------
(***************************************************************************)
(* The lane graph (mapping/lane_map.py), what its loader checks, and the   *)
(* two ways a place is put on it: the matcher (mapping/map_matcher.py) and *)
(* the resolver of destinations (navigation/destination_resolver.py).      *)
(*                                                                         *)
(* A map m is a record: its lanes and conns; succ[l], the connectors out   *)
(* of a lane, in their order; to[c], the lane a connector leads to; len,   *)
(* turn (maneuver) and radius; ring[l], the circuit label; and stops, the  *)
(* lanes with destination_allowed.  Of coordinates only what projecting a  *)
(* point on a centreline yields is kept: distance, heading error and       *)
(* progress.                                                               *)
(***************************************************************************)
EXTENDS Integers, Sequences, FiniteSets

Outgoing(m, l) == {m.succ[l][i] : i \in DOMAIN m.succ[l]}
Follows(m, l)  == {m.to[c] : c \in Outgoing(m, l)}
Precedes(m, l) == {k \in m.lanes : l \in Follows(m, k)}
EntryLanes(m, c) == {l \in m.lanes : c \in Outgoing(m, l)}

\* Who is on a seam is taken to be on the lane before it as well as on the one after it.
ArrivalLanes(m, s) ==
    IF s \in m.lanes THEN {s} ELSE {m.to[s]} \cup EntryLanes(m, s)

\* Each round of the searches from a lane takes in the neighbours of what it has.
Spread(m, seed, neighbours) ==
    LET Seen[n \in 0 .. Cardinality(m.lanes)] ==
            IF n = 0 THEN {seed}
            ELSE LET seen == Seen[n - 1]
                 IN  seen \cup UNION {neighbours[l] : l \in seen}
    IN  Seen[Cardinality(m.lanes)]

ReferencesOk(m) ==
    /\ m.lanes # {}
    /\ \A l \in m.lanes : m.succ[l] # <<>> /\ Outgoing(m, l) \subseteq m.conns
    /\ \A c \in m.conns : m.to[c] \in m.lanes
\* A slip: that every lane can be left again is not looked at.
CircuitsForward(m) ==
    /\ {m.ring[l] : l \in m.lanes} = {"inner", "outer"}
    /\ Spread(m, CHOOSE l \in m.lanes : TRUE, [l \in m.lanes |-> Follows(m, l)]) = m.lanes
CircuitsOk(m) ==
    /\ {m.ring[l] : l \in m.lanes} = {"inner", "outer"}
    /\ LET seed == CHOOSE l \in m.lanes : TRUE
       IN  /\ Spread(m, seed, [l \in m.lanes |-> Follows(m, l)]) = m.lanes
           /\ Spread(m, seed, [l \in m.lanes |-> Precedes(m, l)]) = m.lanes
RadiusOk(m, least) == \A c \in m.conns : m.radius[c] = 0 \/ m.radius[c] >= least
Accepted(m, least) == ReferencesOk(m) /\ CircuitsOk(m) /\ RadiusOk(m, least)

(***************************************************************************)
(* A pose is seen as a set of projections, [seg, d, h, s], of the segments *)
(* near it, and whether it is inside a block.  Between equal scores the    *)
(* code takes the first of the file; here either may be taken.             *)
(***************************************************************************)
Score(v, w) == w.dist * v.d + w.head * v.h
Matches(pose, w) ==
    LET close == {v \in pose.near : v.d <= w.maxDist /\ v.h <= w.maxHead}
    IN  IF pose.blocked THEN {}
        ELSE {v \in close : \A u \in close : Score(v, w) <= Score(u, w)}

\* A call is seen as its projections, [lane, d, s], on the lanes; it is never refused.
StopPoses(m, call) ==
    LET open == {v \in call : v.lane \in m.stops}
    IN  {v \in open : \A u \in open : v.d <= u.d}
=============================================================================
