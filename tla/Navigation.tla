----------------------------- MODULE Navigation -----------------------------
(***************************************************************************)
(* From a call to a route: the start of the vehicle on its map, the tick   *)
(* of the driving worker in PLANNING (behavior/driving_worker.py, _plan),  *)
(* and the planner (navigation/route_planner.py).                          *)
(*                                                                         *)
(* The search is Dijkstra's over the starts of the lanes, with entries of  *)
(* the heap that are outdated skipped when they come up.  A step is one    *)
(* connector relaxed, one entry taken from the heap, or one link of the    *)
(* chain followed back.  The lane the vehicle is on is entered only by     *)
(* coming round to it: a destination behind the vehicle is a whole round   *)
(* away.                                                                   *)
(***************************************************************************)
EXTENDS LaneRoute

CONSTANTS
    Sites,      \* sequence of what the vehicle may be started with: [map, routes (the
                \*   registered ones), poses and calls (those to come)]
    Weights,    \* the matcher's distance, head, maxDist and maxHead
    MinRadius   \* of the turns the vehicle can make

\* What the loader and the projections yield, also of a map that is refused later.
ASSUME SitesAssumption ==
    \A i \in DOMAIN Sites :
        LET m == Sites[i].map
        IN  /\ IsFiniteSet(m.lanes)
            /\ \A l \in m.lanes : m.succ[l] \in Seq(Outgoing(m, l))
            /\ Sites[i].routes \in Seq(Seq(Int))
            /\ \A s \in m.lanes \cup m.conns : m.len[s] \in Nat
            /\ \A pose \in Sites[i].poses : \A v \in pose.near :
                  v.seg \in m.lanes \cup m.conns /\ v.s \in 0 .. m.len[v.seg]
            /\ \A call \in Sites[i].calls : \A p \in call :
                  p.lane \in m.lanes /\ p.s \in 0 .. m.len[p.lane]

Unreached == -1
NoStep == [lane |-> 0, conn |-> 0]

VARIABLES
    site,       \* the one it is started with
    pc,         \* boot; plan, search, trace, fold; driving; or refused, error
    start,      \* start_lane, start_s
    stop,       \* the StopPose
    forced,     \* the route is a registered one
    dist, prev, heap, settled,      \* of the search
    via, base,  \* the lane whose connectors are relaxed, and the way to its end
    rest,       \* its connectors still to relax
    chain,      \* the lanes and connectors found so far, from the destination back
    pieces,     \* the route's segments
    total,      \* total_length_m
    course      \* the LaneRoute the follower has

search == <<dist, prev, heap, settled, via, base, rest>>
mission == <<site, start, stop, forced>>
vars == <<mission, pc, search, chain, pieces, total, course>>

M == site.map

Nowhere == [lane |-> 0, s |-> 0]
NoCourse == [legs |-> <<>>, turns |-> <<>>]

Init ==
    /\ \E i \in DOMAIN Sites : site = Sites[i]
    /\ pc = "boot"
    /\ start = Nowhere /\ stop = Nowhere /\ forced = FALSE
    /\ dist = <<>> /\ prev = <<>> /\ heap = {} /\ settled = {}
    /\ via = 0 /\ base = 0 /\ rest = <<>>
    /\ chain = <<>> /\ pieces = <<>> /\ total = 0
    /\ course = NoCourse

\* A map or a registered route that is broken is refused before anything moves.
Boot ==
    /\ pc = "boot"
    /\ pc' = IF Accepted(M, MinRadius) /\ \A i \in DOMAIN site.routes : Connected(M, site.routes[i])
             THEN "plan" ELSE "refused"
    /\ UNCHANGED <<mission, search, chain, pieces, total, course>>

(***************************************************************************)
(* Planning.                                                               *)
(***************************************************************************)
\* On a connector the route starts where the connector ends.
StartAt(v) ==
    IF v.seg \in M.lanes THEN [lane |-> v.seg, s |-> v.s] ELSE [lane |-> M.to[v.seg], s |-> 0]

\* A slip: the whole of the registered route is taken.
ForcedRouteWhole(a, b) ==
    LET fits == {i \in DOMAIN site.routes : Last(site.routes[i]) = b
                    /\ \E j \in 1 .. Len(site.routes[i]) - 1 : site.routes[i][j] = a}
    IN  IF fits = {} THEN <<>> ELSE site.routes[Min(fits)]
\* What remains of the first registered route that ends where a is to go and passes a.
ForcedRoute(a, b) ==
    LET Before(r) == {j \in 1 .. Len(r) - 1 : r[j] = a}
        fits == {i \in DOMAIN site.routes : Last(site.routes[i]) = b /\ Before(site.routes[i]) # {}}
    IN  IF fits = {} THEN <<>>
        ELSE LET r == site.routes[Min(fits)] IN SubSeq(r, Min(Before(r)), Len(r))

\* The route along lanes, at least two, and the connectors between them.
Along(lanes, conns, s, t) ==
    [k \in 1 .. 2 * Len(conns) + 1 |->
        LET i == (k + 1) \div 2
        IN  IF k % 2 = 0 THEN Piece("connector", conns[i], 0, M.len[conns[i]])
            ELSE Piece("lane", lanes[i], IF i = 1 THEN s ELSE 0,
                       IF i = Len(lanes) THEN t ELSE M.len[lanes[i]])]

PlanViaNumbers(nums) ==
    /\ pieces' = Along(nums, [i \in 1 .. Len(nums) - 1 |-> Link(M, nums[i], nums[i + 1])],
                       start'.s, stop'.s)
    /\ total' = Length(pieces')
    /\ pc' = "fold"
    /\ UNCHANGED search

\* The destination is ahead on the same lane.
PlanAhead ==
    /\ pieces' = <<Piece("lane", start'.lane, start'.s, stop'.s)>>
    /\ total' = stop'.s - start'.s
    /\ pc' = "fold"
    /\ UNCHANGED search

PlanSearch ==
    /\ dist' = [l \in M.lanes |-> Unreached]
    /\ prev' = [l \in M.lanes |-> NoStep]
    /\ heap' = {} /\ settled' = {}
    /\ via' = start'.lane
    /\ base' = M.len[start'.lane] - start'.s
    /\ rest' = M.succ[start'.lane]
    /\ pc' = "search"
    /\ UNCHANGED <<pieces, total>>

Plan ==
    /\ pc = "plan"
    /\ \E pose \in site.poses, call \in site.calls :
       \E v \in Matches(pose, Weights), p \in StopPoses(M, call) :
          /\ start' = StartAt(v)
          /\ stop' = [lane |-> p.lane, s |-> p.s]
          /\ LET nums == ForcedRoute(start'.lane, p.lane)
                 ahead == start'.lane = p.lane /\ p.s >= start'.s
             IN  /\ forced' = (nums # <<>>)
                 /\ \/ nums # <<>> /\ PlanViaNumbers(nums)
                    \/ nums = <<>> /\ ahead /\ PlanAhead
                    \/ nums = <<>> /\ ~ahead /\ PlanSearch
    /\ UNCHANGED <<site, chain, course>>

(***************************************************************************)
(* The search.                                                             *)
(***************************************************************************)
\* A slip: the first way found is kept.
ImprovesFirst(cost, l) == dist[l] = Unreached
Improves(cost, l) == l \notin settled /\ (dist[l] = Unreached \/ cost < dist[l])

Relax ==
    /\ pc = "search" /\ rest # <<>>
    /\ LET c == Head(rest)
           cost == base + M.len[c]
           l == M.to[c]
       IN  IF Improves(cost, l)
           THEN /\ dist' = [dist EXCEPT ![l] = cost]
                /\ prev' = [prev EXCEPT ![l] = [lane |-> via, conn |-> c]]
                /\ heap' = heap \cup {[d |-> cost, lane |-> l]}
           ELSE UNCHANGED <<dist, prev, heap>>
    /\ rest' = Tail(rest)
    /\ UNCHANGED <<mission, pc, settled, via, base, chain, pieces, total, course>>

Outdated(e) == e.lane \in settled \/ e.d > dist[e.lane]

Skip(e) ==
    /\ Outdated(e)
    /\ UNCHANGED <<pc, settled, via, base, rest, chain, total>>
Found(e) ==
    /\ ~Outdated(e) /\ e.lane = stop.lane
    /\ pc' = "trace"
    /\ total' = e.d + stop.s
    /\ chain' = <<[lane |-> e.lane, conn |-> prev[e.lane].conn]>>
    /\ UNCHANGED <<settled, via, base, rest>>
Settle(e) ==
    /\ ~Outdated(e) /\ e.lane # stop.lane
    /\ settled' = settled \cup {e.lane}
    /\ via' = e.lane
    /\ base' = e.d + M.len[e.lane]
    /\ rest' = M.succ[e.lane]
    /\ UNCHANGED <<pc, chain, total>>

\* An empty heap is a RouteError: the worker's error hook stops the vehicle.
NoRoute ==
    /\ pc' = "error"
    /\ UNCHANGED <<heap, settled, via, base, rest, chain, total>>

Pop ==
    /\ pc = "search" /\ rest = <<>>
    /\ IF heap = {} THEN NoRoute
       ELSE \E e \in heap :
               /\ \A f \in heap : e.d <= f.d
               /\ heap' = heap \ {e}
               /\ Skip(e) \/ Found(e) \/ Settle(e)
    /\ UNCHANGED <<mission, dist, prev, pieces, course>>

\* _reconstruct: an entry of prev that points to the start is the way's first step.
Trace ==
    /\ pc = "trace"
    /\ LET p == prev[Head(chain).lane]
       IN  IF p.lane = start.lane
           THEN /\ pc' = "fold"
                /\ pieces' = Along(<<start.lane>> \o [i \in DOMAIN chain |-> chain[i].lane],
                                   [i \in DOMAIN chain |-> chain[i].conn], start.s, stop.s)
                /\ UNCHANGED chain
           ELSE /\ chain' = <<[lane |-> p.lane, conn |-> prev[p.lane].conn]>> \o chain
                /\ UNCHANGED <<pc, pieces>>
    /\ UNCHANGED <<mission, search, total, course>>

\* set_route, and FOLLOWING_ROUTE.
Fold ==
    /\ pc = "fold"
    /\ IF Foldable(pieces) THEN course' = FromRoute(pieces) /\ pc' = "driving"
       ELSE pc' = "error" /\ UNCHANGED course
    /\ UNCHANGED <<mission, search, chain, pieces, total>>

Search == Relax \/ Pop \/ Trace
Next == Boot \/ Plan \/ Search \/ Fold
Spec == Init /\ [][Next]_vars
FairSpec == Spec /\ WF_vars(Search) /\ WF_vars(Fold)

-----------------------------------------------------------------------------
(***************************************************************************)
(* The reference the search is compared with: every way from the vehicle   *)
(* over n connectors, by where it leads and what it costs up to there, as  *)
(* long as it costs less than limit.  No shortest way takes more           *)
(* connectors than there are lanes.                                        *)
(***************************************************************************)
Over(l, cost, limit) ==
    {w \in {[lane |-> M.to[c], cost |-> cost + M.len[c]] : c \in Outgoing(M, l)} : w.cost < limit}
OneMore(ways, limit) == UNION {Over(w.lane, w.cost + M.len[w.lane], limit) : w \in ways}
WaysOver(limit) ==
    LET Of[n \in 1 .. Cardinality(M.lanes)] ==
            IF n = 1 THEN Over(start.lane, M.len[start.lane] - start.s, limit) ELSE OneMore(Of[n - 1], limit)
    IN  Of
Ways(limit) == UNION {WaysOver(limit)[n] : n \in 1 .. Cardinality(M.lanes)}

\* No way from where the vehicle is to where it is called is shorter than the one the
\* planner takes (plan): neither the entries skipped as outdated nor coming round to the
\* lane it starts on make it miss one.
ShortestRoute ==
    pc = "driving" /\ ~forced =>
        IF start.lane = stop.lane /\ start.s <= stop.s THEN total = stop.s - start.s
        ELSE \A w \in Ways(total - stop.s) : w.lane # stop.lane

\* The course handed to the follower leads from where the vehicle is to where it is called:
\* along the map's connectors, over the whole of every lane between, and as long as the
\* planner says; whether it was searched for or registered (plan, plan_via_numbers,
\* _forced_route, from_route).
CourseLeads ==
    pc = "driving" =>
        LET legs == course.legs
            turns == course.turns
            n == Len(legs)
        IN  /\ Len(turns) = n - 1
            /\ legs[1].id = start.lane /\ legs[1].from = start.s
            /\ legs[n].id = stop.lane /\ legs[n].upto = stop.s
            /\ \A i \in 1 .. n - 1 :
                  /\ turns[i].conn \in Outgoing(M, legs[i].id)
                  /\ M.to[turns[i].conn] = legs[i + 1].id
                  /\ legs[i].upto = M.len[legs[i].id] /\ legs[i + 1].from = 0
            /\ total = Length(legs) + Total([i \in DOMAIN turns |-> M.len[turns[i].conn]])

\* What the loader lets through is enough for the planner (from_dict, plan): no call makes
\* the search fail or go on for ever.
PlanningEnds == (pc = "search") ~> (pc = "driving")
=============================================================================
