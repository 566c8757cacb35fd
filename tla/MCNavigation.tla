---------------------------- MODULE MCNavigation ----------------------------
(***************************************************************************)
(* The vehicle's own track, from both ends of every lane to the middle of  *)
(* every lane one may be called to; and small maps of three lanes and four *)
(* connectors that lead anywhere, most of which the loader has to refuse.  *)
(* What the operations on centrelines yield is checked as assumptions, on  *)
(* all lines of up to four points of a grid.                               *)
(***************************************************************************)
EXTENDS Navigation, MainTrack, Polyline

MCWeights == [dist |-> 100, head |-> 1, maxDist |-> 2, maxHead |-> 60]

Seen(seg, d, h, s) == [seg |-> seg, d |-> d, h |-> h, s |-> s]
Pose(near) == [near |-> near, blocked |-> FALSE]
OnTrack(l, s) == Pose({Seen(l, 0, 0, s)})

TrackSite ==
    LET m == TrackMap
    IN  [map |-> m, routes |-> TrackRoutes,
         poses |-> {OnTrack(l, 0) : l \in m.lanes} \cup {OnTrack(l, m.len[l]) : l \in m.lanes},
         calls |-> {{[lane |-> l, d |-> 0, s |-> m.len[l] \div 2]} : l \in m.lanes}]

\* Lane 1 has two connectors out, of which the second may be the shorter one to the same lane.
SmallConns == {11, 12, 13, 14}
SmallMap(to, len) ==
    [lanes |-> 1 .. 3, conns |-> SmallConns, to |-> to,
     succ |-> << <<11, 12>>, <<13>>, <<14>> >>,
     len |-> [s \in 1 .. 3 \cup SmallConns |-> IF s \in 1 .. 3 THEN 2 ELSE len[s]],
     turn |-> [c \in SmallConns |-> "straight"], radius |-> [c \in SmallConns |-> 0],
     ring |-> <<"inner", "outer", "outer">>, stops |-> 1 .. 3]
\* Between two lanes, on a connector, off the lanes, against the direction, in a block.
SmallPoses ==
    {Pose({Seen(1, 1, 0, 1), Seen(2, 0, 50, 0)}), Pose({Seen(11, 0, 0, 1), Seen(2, 1, 10, 0)}),
     Pose({Seen(3, 1, 0, 2), Seen(2, 1, 0, 2)}), Pose({Seen(1, 3, 0, 1), Seen(2, 0, 90, 1)}),
     [near |-> {Seen(1, 0, 0, 0)}, blocked |-> TRUE]}
SmallCalls ==
    {{[lane |-> 1, d |-> 1, s |-> 0], [lane |-> 2, d |-> 2, s |-> 1]},
     {[lane |-> 2, d |-> 1, s |-> 2], [lane |-> 3, d |-> 1, s |-> 1]}}
SmallSite(to, len) ==
    [map |-> SmallMap(to, len), poses |-> SmallPoses, calls |-> SmallCalls,
     routes |-> <<>>]
\* The i-th of the maps: the digits of i are where the connectors lead, and a length.
SmallTo(i) == [c \in SmallConns |-> 1 + ((i \div (CASE c = 11 -> 1 [] c = 12 -> 3 [] c = 13 -> 9 [] c = 14 -> 27)) % 3)]
SmallLen(i) == [c \in SmallConns |-> IF c = 11 /\ i \div 81 = 1 THEN 4 ELSE 1]
SmallSites == [i \in 1 .. 162 |-> SmallSite(SmallTo(i - 1), SmallLen(i - 1))]

\* A lane without a way out, a connector to nowhere, one circuit, a turn that is too tight,
\* a registered route with a gap; and one that is sound, and passes the lane it ends on.
Ring == [c \in SmallConns |-> CASE c \in {11, 12} -> 2 [] c = 13 -> 3 [] c = 14 -> 1]
Sound == SmallSite(Ring, [c \in SmallConns |-> 1])
OddSites ==
    <<[Sound EXCEPT !.map.succ[3] = <<>>], [Sound EXCEPT !.map.to[14] = 4],
     [Sound EXCEPT !.map.ring = <<"outer", "outer", "outer">>],
     [Sound EXCEPT !.map.radius[13] = 200],
     [Sound EXCEPT !.routes = << <<1, 3>> >>],
     [Sound EXCEPT !.routes = << <<1, 2, 3>>, <<2, 3, 1, 2>> >>]>>

MCSites == <<TrackSite>> \o SmallSites \o OddSites

-----------------------------------------------------------------------------
Grid == (0 .. 2) \X (0 .. 2)
Lines == {pts \in UNION {[1 .. n -> Grid] : n \in 2 .. 4} :
            \A i \in 1 .. Len(pts) - 1 :
                pts[i][1] = pts[i + 1][1] \/ pts[i][2] = pts[i + 1][2]}
Onto(pts, s) == Max({0, Min({s, PolylineLength(pts)})})

\* A walk along a line goes one unit for each unit of progress, the way its heading says, from
\* end to end; a line that ends with a piece it already took is told by it too early.
EndsAnew(pts) ==
    \A i \in 1 .. Len(pts) - 2 : pts[i] # pts[Len(pts) - 1] \/ pts[i + 1] # Last(pts)
ASSUME WalkIsSteady ==
    \A pts \in Lines :
        /\ \A s \in {-1, 0} : PointAt(pts, s) = pts[1]
        /\ \A s \in {0, 1} : PointAt(pts, PolylineLength(pts) + s) = Last(pts)
        /\ EndsAnew(pts) =>
              \A s \in 1 .. PolylineLength(pts) :
                  Direction(PointAt(pts, s - 1), PointAt(pts, s)) = HeadingAt(pts, s)
        /\ \A s \in 1 .. PolylineLength(pts) : Apart(PointAt(pts, s - 1), PointAt(pts, s)) = 1

\* A place is put where the line is nearest, at the first such progress: who is matched to a
\* lane there is there.
ASSUME ProjectionIsNearest ==
    \A pts \in Lines, p \in Grid :
        LET on == ProjectPoint(pts, p)
        IN  /\ on.q = PointAt(pts, on.s) /\ on.d2 = Apart2(p, on.q)
            /\ \A s \in 0 .. PolylineLength(pts) :
                  LET d2 == Apart2(p, PointAt(pts, s))
                  IN  IF s < on.s THEN d2 > on.d2 ELSE d2 >= on.d2

\* The first and the last piece of a route are the parts of their lanes from the start and up to
\* the destination: the same walk, as long as it has to be, also off the ends of the lane.
ASSUME TrimIsPart ==
    \A pts \in Lines : \A s0, s1 \in -1 .. PolylineLength(pts) + 1 : s0 <= s1 =>
        LET part == Trim(pts, s0, s1)
        IN  /\ PolylineLength(part) = Onto(pts, s1) - Onto(pts, s0)
            /\ \A t \in 0 .. PolylineLength(part) :
                  PointAt(part, t) = PointAt(pts, Onto(pts, s0) + t)

\* The waypoints of a line are no farther apart than asked, no more than that takes, and both
\* ends are among them.
ASSUME WaypointsAreEven ==
    \A pts \in Lines, spacing \in 1 .. 7 :
        LET n == Parts(pts, spacing)
            w == Resample(pts, spacing)
        IN  PolylineLength(pts) > 0 =>
            /\ w[1] = pts[1] /\ Last(w) = Last(pts)
            /\ n * spacing >= PolylineLength(pts)
            /\ n > 1 => (n - 1) * spacing < PolylineLength(pts)
            /\ PolylineLength(pts) % n = 0 =>
                  \A i \in 1 .. n : Apart(w[i], w[i + 1]) <= PolylineLength(pts) \div n
=============================================================================
