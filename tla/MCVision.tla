------------------------------ MODULE MCVision ------------------------------
(***************************************************************************)
(* Pictures of lanes 40 columns wide (a column is 6.25 mm), of which any   *)
(* lines may be hidden in some of the rows.                                *)
(***************************************************************************)
EXTENDS Vision

MCLaneWidths == 28 .. 52
Rows == 1 .. 8

\* The lines of a lane, of its neighbours too, whose centre is x at the nearest row.
Lines(x, lean, i, which) == {x + lean * (i - 8) + 40 * k - 20 : k \in which}
Picture(x, lean, which, signs) ==
    [rows |-> [i \in Rows |-> Lines(x, lean, i, which[i])], x |-> x, lean |-> lean, marks |-> signs]

Everywhere(which) == [i \in Rows |-> which]
\* The near rows show one thing, the far ones another.
Parted(far, n, near) == [i \in Rows |-> IF i <= n THEN far ELSE near]

StopLine(conf, bottom, lateral) == [cls |-> "stop_line", conf |-> conf, bottom |-> bottom, lateral |-> lateral]
MCTrigger == [cls |-> "stop_line", minConf |-> 4, nearRow |-> 7, maxLateral |-> 2]

MCPictures == <<
    Picture(12, 0, Everywhere({0, 1, 2}), {StopLine(6, 8, 1)}),
    Picture(-12, 1, Parted({1, 2}, 4, {1}), {StopLine(6, 3, 1), StopLine(2, 8, 0), StopLine(6, 8, 14)}),
    Picture(-4, 0, Parted({}, 4, {0, 1}), {})>>

\* Whichever lines are hidden, the right centre is found, if anything is, as long as the
\* centre of the lane is less than half a lane beside the axis in every row; beyond that a line
\* of the neighbouring lane can come so near that it is taken for one of the own lane.
ASSUME EveryPictureIsRead ==
    \A x \in {-18, -12, -5, 0, 5, 12, 18}, lean \in -1 .. 1, far \in SUBSET {-1, 0, 1, 2}, near \in SUBSET {-1, 0, 1, 2} :
        LET result == ComputeSeg(Picture(x, lean, Parted(far, 4, near), {}).rows)
        IN  /\ result.valid
            /\ \A i \in Rows : x + lean * (i - 8) \in -LaneHalf + 1 .. LaneHalf - 1
            => result.offset = -x /\ result.heading = lean
=============================================================================
