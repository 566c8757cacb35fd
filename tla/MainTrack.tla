----------------------------- MODULE MainTrack -----------------------------
(***************************************************************************)
(* The lane graph the vehicle drives on (map/main_track_map.yaml), in      *)
(* millimetres.  Lanes are their numbers (NUM2ID); the connector from lane *)
(* a to lane b is the number 100 * a + b: no two join the same lanes.      *)
(***************************************************************************)
EXTENDS LaneRoute, TLC

\* Length, circuit, destination_allowed; and for each connector out of the lane the lane it
\* leads to, its maneuver, length and radius (0: none).
Track == <<
    <<1500, "outer", TRUE, <<<<2, "straight", 1020, 0>>, <<23, "left", 999, 350>>, <<21, "left", 1249, 350>>>>>>,
    <<1500, "outer", TRUE, <<<<17, "left", 549, 350>>>>>>,
    <<1210, "inner", TRUE, <<<<4, "straight", 1280, 0>>, <<21, "right", 408, 260>>, <<23, "right", 658, 260>>>>>>,
    <<1210, "inner", TRUE, <<<<29, "right", 408, 260>>>>>>,
    <<1210, "inner", TRUE, <<<<6, "straight", 1280, 0>>, <<28, "right", 408, 260>>, <<26, "right", 658, 260>>>>>>,
    <<1210, "inner", TRUE, <<<<20, "right", 408, 260>>>>>>,
    <<1340, "outer", TRUE, <<<<8, "straight", 1150, 0>>, <<24, "left", 1259, 350>>, <<22, "left", 1509, 350>>>>>>,
    <<1340, "outer", TRUE, <<<<18, "left", 869, 350>>>>>>,
    <<1340, "outer", TRUE, <<<<10, "straight", 1150, 0>>, <<26, "left", 1259, 350>>, <<28, "left", 1509, 350>>>>>>,
    <<1340, "outer", TRUE, <<<<32, "left", 869, 350>>>>>>,
    <<1210, "inner", TRUE, <<<<12, "straight", 1280, 0>>, <<22, "right", 408, 260>>, <<24, "right", 658, 260>>>>>>,
    <<1210, "inner", TRUE, <<<<30, "right", 408, 260>>>>>>,
    <<1210, "inner", TRUE, <<<<14, "straight", 1280, 0>>, <<27, "right", 408, 260>>, <<25, "right", 658, 260>>>>>>,
    <<1210, "inner", TRUE, <<<<19, "right", 408, 260>>>>>>,
    <<1500, "outer", TRUE, <<<<16, "straight", 1020, 0>>, <<25, "left", 999, 350>>, <<27, "left", 1249, 350>>>>>>,
    <<1500, "outer", TRUE, <<<<31, "left", 549, 350>>>>>>,
    <<500, "outer", TRUE, <<<<18, "straight", 1020, 0>>, <<9, "left", 999, 350>>, <<11, "left", 1249, 350>>>>>>,
    <<500, "outer", TRUE, <<<<15, "left", 549, 350>>>>>>,
    <<210, "inner", FALSE, <<<<20, "straight", 1280, 0>>, <<11, "right", 408, 260>>, <<9, "right", 658, 260>>>>>>,
    <<210, "inner", TRUE, <<<<3, "right", 408, 260>>>>>>,
    <<210, "inner", FALSE, <<<<22, "straight", 1280, 0>>, <<6, "right", 408, 260>>, <<8, "right", 658, 260>>>>>>,
    <<210, "inner", FALSE, <<<<14, "right", 408, 260>>>>>>,
    <<340, "outer", TRUE, <<<<24, "straight", 1150, 0>>, <<10, "left", 1259, 350>>, <<12, "left", 1509, 350>>>>>>,
    <<340, "outer", TRUE, <<<<16, "left", 869, 350>>>>>>,
    <<340, "outer", TRUE, <<<<26, "straight", 1150, 0>>, <<8, "left", 1259, 350>>, <<6, "left", 1509, 350>>>>>>,
    <<340, "outer", TRUE, <<<<2, "left", 869, 350>>>>>>,
    <<210, "inner", FALSE, <<<<28, "straight", 1280, 0>>, <<12, "right", 408, 260>>, <<10, "right", 658, 260>>>>>>,
    <<210, "inner", FALSE, <<<<4, "right", 408, 260>>>>>>,
    <<210, "inner", FALSE, <<<<30, "straight", 1280, 0>>, <<5, "right", 408, 260>>, <<7, "right", 658, 260>>>>>>,
    <<210, "inner", FALSE, <<<<13, "right", 408, 260>>>>>>,
    <<500, "outer", TRUE, <<<<32, "straight", 1020, 0>>, <<7, "left", 999, 350>>, <<5, "left", 1249, 350>>>>>>,
    <<500, "outer", TRUE, <<<<1, "left", 549, 350>>>>>>>>

TrackLanes == DOMAIN Track
TrackConns == UNION {{100 * l + Track[l][4][i][1] : i \in DOMAIN Track[l][4]} : l \in TrackLanes}
ConnRow(c) == LET rows == Track[c \div 100][4]
              IN  rows[CHOOSE i \in DOMAIN rows : rows[i][1] = c % 100]
TrackMap ==
    [lanes |-> TrackLanes, conns |-> TrackConns,
     succ |-> [l \in TrackLanes |-> [i \in DOMAIN Track[l][4] |-> 100 * l + Track[l][4][i][1]]],
     to |-> [c \in TrackConns |-> c % 100],
     len |-> [s \in TrackLanes \cup TrackConns |-> IF s < 100 THEN Track[s][1] ELSE ConnRow(s)[3]],
     turn |-> [c \in TrackConns |-> ConnRow(c)[2]],
     radius |-> [c \in TrackConns |-> ConnRow(c)[4]],
     ring |-> [l \in TrackLanes |-> Track[l][2]],
     stops |-> {l \in TrackLanes : Track[l][3]}]

Pairs == {<<1, 15>>, <<2, 16>>, <<3, 13>>, <<4, 14>>, <<5, 11>>, <<6, 12>>, <<7, 9>>, <<8, 10>>,
          <<17, 31>>, <<18, 32>>, <<19, 29>>, <<20, 30>>, <<21, 27>>, <<23, 25>>, <<26, 24>>,
          <<28, 22>>}
TrackSymmetric == [l \in TrackLanes |->
    CHOOSE k \in TrackLanes : <<l, k>> \in Pairs \/ <<k, l>> \in Pairs]

\* config/routes.yaml, and the keys of config/turn_table.yaml.
TrackRoutes == <<<<3, 4, 29, 7, 22, 14>>, <<14, 19, 20>>>>
TrackTuned == {<<11, 22>>, <<4, 29>>, <<29, 7>>, <<7, 22>>, <<20, 3>>, <<22, 14>>, <<14, 19>>}

\* Driving a turn by its mirror's entry is right only if the two are congruent: on this
\* track the mirror of every connector is a connector, of the same maneuver, radius and
\* length (SYMMETRIC_PAIRS); so every turn has a usable entry wherever its mirror is tuned.
ASSUME MirrorsAreCongruent ==
    \A c \in TrackConns :
        LET key == <<c \div 100, c % 100>>
            mirror == SymmetricKey(TrackSymmetric, key)
            source == SourceKey(TrackSymmetric, TrackTuned, key)
            other == 100 * mirror[1] + mirror[2]
        IN  /\ other \in TrackConns
            /\ TrackMap.turn[other] = TrackMap.turn[c]
            /\ TrackMap.radius[other] = TrackMap.radius[c]
            /\ TrackMap.len[other] = TrackMap.len[c]
            /\ TrackMap.len[mirror[1]] = TrackMap.len[key[1]]
            /\ source = None <=> key \notin TrackTuned /\ mirror \notin TrackTuned
=============================================================================
