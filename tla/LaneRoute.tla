------------------------------ MODULE LaneRoute ------------------------------
(***************************************************************************)
(* Routes as lane numbers (navigation/lane_route.py): the registered       *)
(* routes, the folding of a planned route into straight legs and turns,    *)
(* and the entry of the table of turns (navigation/turn_table.py) that a   *)
(* turn is driven by.  Lanes are their numbers.                            *)
(***************************************************************************)
EXTENDS LaneMap, FiniteSetsExt, SequencesExt

\* A piece of a lane or connector, between two places on it.
Piece(kind, id, from, upto) == [kind |-> kind, id |-> id, from |-> from, upto |-> upto]
PieceLength(p) == p.upto - p.from
Total(numbers) ==
    LET Upto[k \in 1 .. Len(numbers)] == IF k = 1 THEN numbers[1] ELSE Upto[k - 1] + numbers[k]
    IN  IF numbers = <<>> THEN 0 ELSE Upto[Len(numbers)]
Length(pieces) == Total([k \in DOMAIN pieces |-> PieceLength(pieces[k])])

Linked(m, a, b) == b \in Follows(m, a)
\* The first connector of a that leads to b.
Link(m, a, b) == m.succ[a][Min({i \in DOMAIN m.succ[a] : m.to[m.succ[a][i]] = b})]

\* from_lane_numbers accepts the route: the vehicle starts only when it does.
Connected(m, nums) ==
    /\ nums # <<>>
    /\ \A i \in DOMAIN nums : nums[i] \in m.lanes
    /\ \A i \in 2 .. Len(nums) : Linked(m, nums[i - 1], nums[i])

(***************************************************************************)
(* from_route: a leg for every lane, and between two legs the last         *)
(* connector before the second.  Two lanes in a row, or none at all, are   *)
(* its LaneRouteError.  A leg of one point has from = upto.                *)
(***************************************************************************)
IsLane(p) == p.kind = "lane"
FromRoute(pieces) ==
    LET lanes == {k \in DOMAIN pieces : IsLane(pieces[k])}
        n == Cardinality(lanes)
        At(i) == CHOOSE k \in lanes : Cardinality({j \in lanes : j < k}) = i - 1
    IN  [legs |-> [i \in 1 .. n |-> pieces[At(i)]],
         turns |-> [i \in 1 .. n - 1 |->
                       [conn |-> pieces[At(i + 1) - 1].id, from |-> pieces[At(i)].id,
                        to |-> pieces[At(i + 1)].id]]]
Foldable(pieces) ==
    /\ \E k \in DOMAIN pieces : IsLane(pieces[k])
    /\ \A k \in 2 .. Len(pieces) : ~(IsLane(pieces[k - 1]) /\ IsLane(pieces[k]))

(***************************************************************************)
(* The key of the table a turn is driven by: its own, else its mirror's,   *)
(* else none, and then the defaults hold.  symmetric is SYMMETRIC_NUM.     *)
(***************************************************************************)
None == <<0, 0>>
SymmetricKey(symmetric, key) ==
    IF key[1] \in DOMAIN symmetric /\ key[2] \in DOMAIN symmetric
    THEN <<symmetric[key[1]], symmetric[key[2]]>> ELSE None
SourceKey(symmetric, tuned, key) ==
    IF key \in tuned THEN key
    ELSE IF SymmetricKey(symmetric, key) \in tuned THEN SymmetricKey(symmetric, key)
    ELSE None
=============================================================================
