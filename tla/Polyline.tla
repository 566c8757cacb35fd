------------------------------ MODULE Polyline ------------------------------
(***************************************************************************)
(* The centrelines (mapping/geometry.py), which the matcher, the resolver  *)
(* and the waypoints of a route are computed with: on lines whose pieces   *)
(* go along an axis, in whole units, so that every length is exact.  A     *)
(* point is a pair; distances are compared by their squares.               *)
(***************************************************************************)
EXTENDS Integers, Sequences, SequencesExt

Size(n) == IF n < 0 THEN -n ELSE n
Sign(n) == IF n < 0 THEN -1 ELSE IF n > 0 THEN 1 ELSE 0
Between(n, a, b) == IF a <= b THEN Max({a, Min({n, b})}) ELSE Max({b, Min({n, a})})

Apart(p, q) == Size(q[1] - p[1]) + Size(q[2] - p[2])    \* exact along an axis
Apart2(p, q) == (q[1] - p[1]) * (q[1] - p[1]) + (q[2] - p[2]) * (q[2] - p[2])
Direction(p, q) == <<Sign(q[1] - p[1]), Sign(q[2] - p[2])>>

\* acc: the progress at each point of the line.
Traversed(pts) ==
    LET Acc[i \in DOMAIN pts] == IF i = 1 THEN 0 ELSE Acc[i - 1] + Apart(pts[i - 1], pts[i])
    IN  Acc
PolylineLength(pts) == Traversed(pts)[Len(pts)]

\* The pieces with a length, by their first point: only these are looked at.
Pieces(pts) == {i \in 1 .. Len(pts) - 1 : pts[i] # pts[i + 1]}

\* The nearest point of the first of the nearest pieces: progress, distance squared, point.
Projected(pts, i, p) ==
    LET q == <<Between(p[1], pts[i][1], pts[i + 1][1]), Between(p[2], pts[i][2], pts[i + 1][2])>>
    IN  [s |-> Traversed(pts)[i] + Apart(pts[i], q), d2 |-> Apart2(p, q), q |-> q]
ProjectPoint(pts, p) ==
    LET near == {i \in Pieces(pts) : \A j \in Pieces(pts) :
                    Projected(pts, i, p).d2 <= Projected(pts, j, p).d2}
    IN  IF Pieces(pts) = {} THEN [s |-> 0, d2 |-> Apart2(p, pts[1]), q |-> pts[1]]
        ELSE Projected(pts, Min(near), p)

\* The pieces that reach as far as s.
Reaching(pts, s) == {i \in Pieces(pts) : Traversed(pts)[i + 1] >= s}
PointAt(pts, s) ==
    IF s <= 0 THEN pts[1]
    ELSE IF Reaching(pts, s) = {} THEN Last(pts)
    ELSE LET i   == Min(Reaching(pts, s))
             on  == s - Traversed(pts)[i]
             dir == Direction(pts[i], pts[i + 1])
         IN  <<pts[i][1] + dir[1] * on, pts[i][2] + dir[2] * on>>

\* heading_at as a direction: <<1, 0>> is its 0, also where there is none.  The last piece is
\* told by its points, and serves for what is beyond the end.
HeadingAt(pts, s) ==
    LET n    == Len(pts)
        last == {i \in Pieces(pts) : <<pts[i], pts[i + 1]>> = <<pts[n - 1], pts[n]>>}
        at   == Reaching(pts, s) \cup last
    IN  IF at = {} THEN <<1, 0>> ELSE Direction(pts[Min(at)], pts[Min(at) + 1])

\* The part from s0 to s1, a point of the line not twice in a row.
Trim(pts, s0, s1) ==
    LET p0 == PointAt(pts, s0)
        p1 == PointAt(pts, s1)
        Take(out, i) ==
            IF s0 < Traversed(pts)[i] /\ Traversed(pts)[i] < s1 /\ pts[i] # Last(out)
            THEN Append(out, pts[i]) ELSE out
        inner == FoldLeft(Take, <<p0>>, [i \in 1 .. Len(pts) - 1 |-> i])
        all   == IF Last(inner) # p1 THEN Append(inner, p1) ELSE inner
    IN  IF s0 = s1 THEN <<p0>> ELSE IF Len(all) >= 2 THEN all ELSE <<p0, p1>>

\* The points of a line at equal distances, spacing or less; both ends are among them.
Parts(pts, spacing) == Max({1, (PolylineLength(pts) + spacing - 1) \div spacing})
Resample(pts, spacing) ==
    IF PolylineLength(pts) = 0 \/ spacing <= 0
    THEN IF Len(pts) >= 2 THEN <<pts[1], Last(pts)>> ELSE pts
    ELSE LET n == Parts(pts, spacing)
         IN  [i \in 1 .. n + 1 |-> PointAt(pts, (PolylineLength(pts) * (i - 1)) \div n)]
=============================================================================
