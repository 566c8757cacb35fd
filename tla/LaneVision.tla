----------------------------- MODULE LaneVision -----------------------------
(***************************************************************************)
(* How the vision process reads the lane from a picture                    *)
(* (vision_runner/vision_runner.py, compute_seg), and how the vehicle      *)
(* takes what it has read: the correction of the steering                  *)
(* (perception/seg_adapter.py), and the mark a turn is fired by            *)
(* (perception/vision_marks.py).                                           *)
(*                                                                         *)
(* A picture is a sequence of rows, from far to near; a row is the set of  *)
(* the columns at which it crosses a line, yellow ones found by colour and *)
(* dashed ones found by the model.  Column 0 is the vehicle's axis, and    *)
(* columns to the right are positive.                                      *)
(***************************************************************************)
EXTENDS Integers, Sequences, FiniteSets, FiniteSetsExt

CONSTANTS
    LaneWidths,     \* the widths, in columns, two lines of one lane may be apart
    LaneHalf,       \* half of the nominal width
    SingleGate,     \* how far from the axis a single line may be
    MinRows,
    MaxOffset,      \* in columns
    MaxHeading,     \* in columns per row
    OffsetGain,     \* of the correction
    HeadingGain,
    MaxCorrection

ASSUME GainsAssumption == {OffsetGain, HeadingGain, MaxCorrection} \subseteq Nat
\* The widths tell one lane from two and three, and a line is fitted to two rows at least.
ASSUME LaneAssumption ==
    /\ LaneHalf \in Nat \ {0} /\ SingleGate \in Nat /\ SingleGate <= 2 * LaneHalf
    /\ 2 * LaneHalf \in LaneWidths /\ {4 * LaneHalf, 6 * LaneHalf} \cap LaneWidths = {}
    /\ MinRows \in Nat /\ MinRows >= 2

NoLane == [valid |-> FALSE, offset |-> 0, heading |-> 0]

\* The two lines next to the axis, when they are as far apart as the lines of a lane.
Paired(row) ==
    /\ 0 \notin row
    /\ \E l \in row, r \in row :
          /\ l < 0 /\ 0 < r /\ r - l \in LaneWidths
          /\ \A c \in row : c <= l \/ r <= c
PairCentre(row) == (Max({c \in row : c < 0}) + Min({c \in row : 0 < c})) \div 2

Near(row) == {c \in row : -SingleGate <= c /\ c <= SingleGate}
\* A slip: the line that is alone is taken for the right one of the lane.
SingleCentreRight(row) == (CHOOSE c \in Near(row) : TRUE) - LaneHalf
SingleCentre(row) ==
    LET c == CHOOSE c \in Near(row) : TRUE
    IN  IF c < 0 THEN c + LaneHalf ELSE c - LaneHalf

\* The rows at which the centre of the lane is known: [row, x].
Centres(picture) ==
    {[row |-> i, x |-> PairCentre(picture[i])] : i \in {j \in DOMAIN picture : Paired(picture[j])}}
    \cup {[row |-> i, x |-> SingleCentre(picture[i])] :
            i \in {j \in DOMAIN picture : ~Paired(picture[j]) /\ Cardinality(Near(picture[j])) = 1}}

(***************************************************************************)
(* A straight line is fitted to the centres (least squares).  The offset   *)
(* is taken at the nearest row and is positive when the centre of the lane *)
(* is to the left; so is the heading when the lane leads to the left.      *)
(***************************************************************************)
ComputeSeg(picture) ==
    LET points == Centres(picture)
        n   == Cardinality(points)
        sr  == SumFunction([p \in points |-> p.row])
        sx  == SumFunction([p \in points |-> p.x])
        srr == SumFunction([p \in points |-> p.row * p.row])
        srx == SumFunction([p \in points |-> p.row * p.x])
        heading == (n * srx - sr * sx) \div (n * srr - sr * sr)
        nearest == Max({p.row : p \in points})
        offset == -((sx + heading * (n * nearest - sr)) \div n)
    IN  IF n < MinRows THEN NoLane
        ELSE IF offset \notin -MaxOffset .. MaxOffset \/ heading \notin -MaxHeading .. MaxHeading
        THEN NoLane
        ELSE [valid |-> TRUE, offset |-> offset, heading |-> heading]

\* What is added to the wheel's angle, positive to the right.
CorrectionWheel(seg) ==
    IF ~seg.valid THEN 0
    ELSE LET corr == -(OffsetGain * seg.offset + HeadingGain * seg.heading)
         IN  Max({-MaxCorrection, Min({MaxCorrection, corr})})

\* A mark of the turn's class is near enough, sure enough and not of another lane.
Triggered(spec, marks) ==
    \E m \in marks : /\ m.cls = spec.cls /\ m.conf >= spec.minConf
                     /\ m.bottom >= spec.nearRow /\ m.lateral <= spec.maxLateral
=============================================================================
