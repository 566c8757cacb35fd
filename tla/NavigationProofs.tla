-------------------------- MODULE NavigationProofs --------------------------
(***************************************************************************)
(* The search of the planner finds a shortest way, and the course that is  *)
(* made of what was found leads to the stop, on every map that the loader  *)
(* lets through, from every start and to every stop.                       *)
(***************************************************************************)
EXTENDS Navigation, FiniteSetTheorems, SequenceTheorems, TLAPS

\* The way to the end of the lane the vehicle is on.
Base0 == M.len[start.lane] - start.s
Ahead == start.lane = stop.lane /\ start.s <= stop.s

MapInv ==
    /\ \E i \in DOMAIN Sites : site = Sites[i]
    /\ pc \notin {"boot", "refused"} => ReferencesOk(M)

PlannedInv ==
    /\ pc \in {"search", "trace", "fold", "driving"} =>
          /\ start.lane \in M.lanes /\ start.s \in 0 .. M.len[start.lane]
          /\ stop.lane \in M.lanes /\ stop.s \in Nat
    /\ pc \in {"search", "trace"} => ~forced /\ ~Ahead
    /\ pc \in {"fold", "driving"} /\ ~forced /\ Ahead => total = stop.s - start.s

SearchTypes ==
    /\ dist \in [M.lanes -> Nat \cup {Unreached}]
    /\ settled \subseteq M.lanes
    /\ \A e \in heap : e.d \in Nat /\ e.lane \in M.lanes
    /\ via \in M.lanes /\ base \in Nat
    /\ rest \in Seq(M.conns)

\* Connector c has been relaxed from a lane whose end is b away.
Relaxed(b, c) == dist[M.to[c]] # Unreached /\ dist[M.to[c]] <= b + M.len[c]

\* The lane whose connectors are relaxed, the vehicle's own at first.
FrontInv ==
    \/ settled = {} /\ via = start.lane /\ base = Base0
    \/ via \in settled /\ base = dist[via] + M.len[via]
\* The connectors of what is settled have been relaxed, up to those that are still to be.
RelaxedInv ==
    /\ \A c \in Outgoing(M, start.lane) : Relaxed(Base0, c) \/ (settled = {} /\ c \in ToSet(rest))
    /\ \A l \in settled : \A c \in Outgoing(M, l) :
          Relaxed(dist[l] + M.len[l], c) \/ (via = l /\ c \in ToSet(rest))
\* Lanes are settled in the order of their distance.
OrderInv ==
    /\ stop.lane \notin settled
    /\ \A l \in settled : /\ dist[l] # Unreached /\ dist[l] <= base
                          /\ \A e \in heap : dist[l] <= e.d
\* The heap has the others, and outdated entries of larger distances.
HeapInv ==
    /\ \A l \in M.lanes \ settled : dist[l] # Unreached => [d |-> dist[l], lane |-> l] \in heap
    /\ \A e \in heap : e.lane \notin settled => dist[e.lane] # Unreached /\ dist[e.lane] <= e.d
SearchInv == SearchTypes /\ FrontInv /\ RelaxedInv /\ OrderInv /\ HeapInv

\* What is nearer than the stop is settled, and the stop is not.
Nearer(b, c) ==
    b + M.len[c] < total - stop.s =>
        M.to[c] \in settled /\ dist[M.to[c]] <= b + M.len[c]
Closed ==
    /\ settled \subseteq M.lanes \ {stop.lane}
    /\ total \in Nat /\ \A l \in settled : dist[l] \in Nat
    /\ \A c \in Outgoing(M, start.lane) : Nearer(Base0, c)
    /\ \A l \in settled : \A c \in Outgoing(M, l) : Nearer(dist[l] + M.len[l], c)

Inv ==
    /\ MapInv /\ PlannedInv
    /\ pc = "search" => SearchInv
    /\ pc \in {"trace", "fold", "driving"} /\ ~forced /\ ~Ahead => Closed
-----------------------------------------------------------------------------
(* Sequences and the map.                                                  *)

LEMMA HeadTail ==
    ASSUME NEW S, NEW q \in Seq(S), q # <<>>
    PROVE  /\ Head(q) \in S /\ Tail(q) \in Seq(S) /\ Head(q) \in ToSet(q)
           /\ \A x \in ToSet(q) : x = Head(q) \/ x \in ToSet(Tail(q))
<1>1. Head(q) \in S /\ Tail(q) \in Seq(S) /\ Len(q) \in Nat \ {0} /\ Head(q) = q[1]
  OBVIOUS
<1>2. ASSUME NEW i \in DOMAIN q, i # 1
      PROVE  i - 1 \in DOMAIN Tail(q) /\ Tail(q)[i - 1] = q[i]
  BY <1>1, <1>2
<1>3. Head(q) \in ToSet(q)
  BY <1>1 DEF ToSet
<1>4. ASSUME NEW x \in ToSet(q)
      PROVE  x = Head(q) \/ x \in ToSet(Tail(q))
  <2>1. PICK i \in DOMAIN q : x = q[i]
    BY <1>4 DEF ToSet
  <2> QED
    BY <1>1, <1>2, <2>1 DEF ToSet
<1> QED
  BY <1>1, <1>3, <1>4

LEMMA MapFacts ==
    ASSUME MapInv
    PROVE  /\ IsFiniteSet(M.lanes)
           /\ \A l \in M.lanes : M.succ[l] \in Seq(Outgoing(M, l))
           /\ \A s \in M.lanes \cup M.conns : M.len[s] \in Nat
           /\ \A pose \in site.poses : \A v \in pose.near :
                 v.seg \in M.lanes \cup M.conns /\ v.s \in 0 .. M.len[v.seg]
           /\ \A call \in site.calls : \A p \in call :
                 p.lane \in M.lanes /\ p.s \in 0 .. M.len[p.lane]
BY SitesAssumption DEF MapInv, M

LEMMA LaneFacts ==
    ASSUME MapInv, ReferencesOk(M), NEW l \in M.lanes
    PROVE  /\ M.succ[l] \in Seq(M.conns) /\ ToSet(M.succ[l]) = Outgoing(M, l)
           /\ M.len[l] \in Nat
           /\ \A c \in Outgoing(M, l) : c \in M.conns /\ M.to[c] \in M.lanes /\ M.len[c] \in Nat
<1>1. M.succ[l] \in Seq(Outgoing(M, l)) /\ M.len[l] \in Nat /\ Outgoing(M, l) \subseteq M.conns
  BY MapFacts DEF ReferencesOk
<1>2. ToSet(M.succ[l]) = Outgoing(M, l)
  BY DEF ToSet, Outgoing
<1>3. M.succ[l] \in Seq(M.conns)
  BY <1>1
<1>4. \A c \in M.conns : M.to[c] \in M.lanes /\ M.len[c] \in Nat
  BY MapFacts DEF ReferencesOk
<1> QED
  BY <1>1, <1>2, <1>3, <1>4

-----------------------------------------------------------------------------
(* The invariant is inductive.                                             *)

LEMMA InvInit == Init => Inv
BY DEF Init, Inv, MapInv, PlannedInv

LEMMA BootStep == ASSUME Inv, Boot PROVE Inv'
<1>1. pc' \in {"plan", "refused"} /\ site' = site /\ M' = M
  BY DEF Boot, mission, M
<1>2. pc' = "plan" => ReferencesOk(M)
  BY DEF Boot, Accepted
<1>3. MapInv'
  BY <1>1, <1>2 DEF Inv, MapInv, ReferencesOk, Outgoing
<1> QED
  BY <1>1, <1>3 DEF Inv, PlannedInv

LEMMA PlanStep == ASSUME Inv, Plan PROVE Inv'
<1>1. pc = "plan" /\ site' = site /\ M' = M /\ MapInv /\ ReferencesOk(M)
  BY DEF Plan, Inv, MapInv, M
<1>2. MapInv'
  BY <1>1 DEF MapInv, ReferencesOk, Outgoing
<1>3. PICK pose \in site.poses, call \in site.calls :
          \E v \in Matches(pose, Weights), p \in StopPoses(M, call) :
              /\ start' = StartAt(v)
              /\ stop' = [lane |-> p.lane, s |-> p.s]
              /\ LET nums == ForcedRoute(start'.lane, p.lane)
                     ahead == start'.lane = p.lane /\ p.s >= start'.s
                 IN  /\ forced' = (nums # <<>>)
                     /\ \/ nums # <<>> /\ PlanViaNumbers(nums)
                        \/ nums = <<>> /\ ahead /\ PlanAhead
                        \/ nums = <<>> /\ ~ahead /\ PlanSearch
  BY DEF Plan
<1>4. PICK v \in Matches(pose, Weights), p \in StopPoses(M, call) :
              /\ start' = StartAt(v)
              /\ stop' = [lane |-> p.lane, s |-> p.s]
              /\ LET nums == ForcedRoute(start'.lane, p.lane)
                     ahead == start'.lane = p.lane /\ p.s >= start'.s
                 IN  /\ forced' = (nums # <<>>)
                     /\ \/ nums # <<>> /\ PlanViaNumbers(nums)
                        \/ nums = <<>> /\ ahead /\ PlanAhead
                        \/ nums = <<>> /\ ~ahead /\ PlanSearch
  BY <1>3
<1>5. v \in pose.near /\ p \in call
  BY DEF Matches, StopPoses
<1>6. /\ start'.lane \in M.lanes /\ start'.s \in 0 .. M.len[start'.lane]
      /\ M.len[start'.lane] \in Nat
  <2>1. CASE v.seg \in M.lanes
    BY <1>1, <1>4, <1>5, <2>1, MapFacts DEF StartAt
  <2>2. CASE v.seg \notin M.lanes
    <3>1. v.seg \in M.conns
      BY <1>1, <1>5, <2>2, MapFacts
    <3>2. M.to[v.seg] \in M.lanes
      BY <1>1, <3>1 DEF ReferencesOk
    <3>3. M.len[M.to[v.seg]] \in Nat
      BY <1>1, <3>2, MapFacts
    <3> QED
      BY <1>4, <2>2, <3>2, <3>3 DEF StartAt
  <2> QED
    BY <2>1, <2>2
<1>7. stop'.lane \in M.lanes /\ stop'.s \in Nat /\ stop'.lane = p.lane /\ stop'.s = p.s
  <2>1. p.lane \in M.lanes /\ p.s \in 0 .. M.len[p.lane] /\ M.len[p.lane] \in Nat
    BY <1>1, <1>5, MapFacts
  <2> QED
    BY <1>4, <2>1
<1>8. Ahead' <=> start'.lane = p.lane /\ p.s >= start'.s
  BY <1>6, <1>7 DEF Ahead
<1>9. CASE forced'
  <2>1. pc' = "fold"
    BY <1>4, <1>9 DEF PlanViaNumbers
  <2> QED
    BY <1>1, <1>2, <1>6, <1>7, <1>9, <2>1 DEF Inv, PlannedInv
<1>10. CASE ~forced' /\ Ahead'
  <2>1. pc' = "fold" /\ total' = stop'.s - start'.s
    BY <1>4, <1>8, <1>10 DEF PlanAhead
  <2> QED
    BY <1>1, <1>2, <1>6, <1>7, <1>10, <2>1 DEF Inv, PlannedInv
<1>11. CASE ~forced' /\ ~Ahead'
  <2>1. PlanSearch
    BY <1>4, <1>8, <1>11
  <2>2. pc' = "search" /\ settled' = {} /\ heap' = {}
    BY <2>1 DEF PlanSearch
  <2>3. /\ dist' = [l \in M.lanes |-> Unreached]
        /\ via' = start'.lane /\ base' = Base0' /\ rest' = M.succ[start'.lane]
    BY <1>1, <2>1 DEF PlanSearch, Base0
  <2>4. base' \in Nat
    BY <1>1, <1>6, <2>3 DEF Base0
  <2>5. rest' \in Seq(M.conns) /\ ToSet(rest') = Outgoing(M, start'.lane)
    BY <1>1, <1>6, <2>3, LaneFacts
  <2>6. SearchTypes'
    BY <1>1, <1>6, <2>2, <2>3, <2>4, <2>5 DEF SearchTypes, Unreached
  <2>7. FrontInv' /\ OrderInv' /\ HeapInv'
    BY <1>1, <2>2, <2>3 DEF FrontInv, OrderInv, HeapInv, Unreached
  <2>8. RelaxedInv'
    BY <1>1, <2>2, <2>5 DEF RelaxedInv
  <2> QED
    BY <1>1, <1>2, <1>6, <1>7, <1>11, <2>2, <2>6, <2>7, <2>8 DEF Inv, PlannedInv, SearchInv
<1> QED
  BY <1>9, <1>10, <1>11

\* Relaxing a connector of the front.
LEMMA RelaxStep == ASSUME Inv, Relax PROVE Inv'
<1> PICK c : c = Head(rest)
  OBVIOUS
<1> DEFINE cost == base + M.len[c]
           l == M.to[c]
<1>1. /\ pc = "search" /\ pc' = "search" /\ rest # <<>> /\ rest' = Tail(rest)
      /\ UNCHANGED <<mission, settled, via, base, total>> /\ M' = M
  BY DEF Relax, mission, M
<1>2. /\ MapInv /\ PlannedInv /\ ReferencesOk(M)
      /\ SearchTypes /\ FrontInv /\ RelaxedInv /\ OrderInv /\ HeapInv
  BY <1>1 DEF Inv, MapInv, SearchInv
<1>3. MapInv' /\ PlannedInv'
  BY <1>1, <1>2 DEF MapInv, PlannedInv, Ahead, mission, ReferencesOk, Outgoing
<1>4. /\ c \in M.conns /\ rest' \in Seq(M.conns) /\ c \in ToSet(rest)
      /\ \A x \in ToSet(rest) : x = c \/ x \in ToSet(rest')
  BY <1>1, <1>2, HeadTail DEF SearchTypes
<1>5. l \in M.lanes /\ M.len[c] \in Nat /\ cost \in Nat /\ cost >= base /\ base \in Nat
  BY <1>2, <1>4, MapFacts DEF ReferencesOk, SearchTypes
<1>6. CASE Improves(cost, l)
  <2>1. /\ l \notin settled /\ (dist[l] = Unreached \/ cost < dist[l])
        /\ dist' = [dist EXCEPT ![l] = cost]
        /\ heap' = heap \cup {[d |-> cost, lane |-> l]}
    BY <1>6 DEF Relax, Improves
  <2>2. /\ dist' \in [M.lanes -> Nat \cup {Unreached}]
        /\ dist'[l] = cost
        /\ \A k \in M.lanes \ {l} : dist'[k] = dist[k]
        /\ \A k \in settled : k \in M.lanes /\ dist'[k] = dist[k]
    BY <1>2, <1>5, <2>1 DEF SearchTypes
  <2>3. SearchTypes'
    BY <1>1, <1>2, <1>4, <1>5, <2>1, <2>2 DEF SearchTypes
  <2>4. FrontInv'
    BY <1>1, <1>2, <2>2 DEF FrontInv, Base0, mission
  <2>5. ASSUME NEW b \in Nat, NEW x \in M.conns, Relaxed(b, x)
        PROVE  Relaxed(b, x)'
    <3>1. M.to[x] \in M.lanes /\ M.len[x] \in Nat
      BY <1>2, MapFacts DEF ReferencesOk
    <3>2. dist[M.to[x]] \in Nat /\ dist[M.to[x]] <= b + M.len[x]
      BY <1>2, <2>5, <3>1 DEF Relaxed, SearchTypes
    <3>3. dist'[M.to[x]] \in Nat /\ dist'[M.to[x]] <= b + M.len[x]
      <4>1. CASE M.to[x] = l
        BY <1>5, <2>1, <2>2, <3>1, <3>2, <4>1 DEF Unreached
      <4>2. CASE M.to[x] # l
        BY <2>2, <3>1, <3>2, <4>2
      <4> QED
        BY <4>1, <4>2
    <3> QED
      BY <1>1, <3>3 DEF Relaxed, Unreached
  <2>6. Relaxed(base, c)'
    BY <1>1, <1>5, <2>2 DEF Relaxed, Unreached
  <2> QED
    <3>1. RelaxedInv'
      <4>1. Base0 \in Nat /\ start.lane \in M.lanes /\ \A k \in settled : k \in M.lanes /\ dist[k] + M.len[k] \in Nat
        BY <1>1, <1>2, MapFacts DEF Base0, PlannedInv, SearchTypes, OrderInv
      <4>2. ASSUME NEW x \in Outgoing(M, start.lane)
            PROVE  Relaxed(Base0, x)' \/ (settled = {} /\ x \in ToSet(rest'))
        <5>1. x \in M.conns
          BY <1>2, <4>1, LaneFacts
        <5> QED
          BY <1>1, <1>2, <1>4, <2>5, <2>6, <4>1, <5>1 DEF RelaxedInv, FrontInv, Base0, mission
      <4>3. ASSUME NEW k \in settled, NEW x \in Outgoing(M, k)
            PROVE  Relaxed(dist[k] + M.len[k], x)' \/ (via = k /\ x \in ToSet(rest'))
        <5>1. x \in M.conns
          BY <1>2, <4>1, LaneFacts
        <5> QED
          BY <1>1, <1>2, <1>4, <2>2, <2>5, <2>6, <4>1, <5>1 DEF RelaxedInv, FrontInv
      <4> QED
        BY <1>1, <2>2, <4>2, <4>3 DEF RelaxedInv, mission
    <3>2. OrderInv'
      <4>1. ASSUME NEW k \in settled
            PROVE  /\ dist'[k] # Unreached /\ dist'[k] <= base
                   /\ \A e \in heap' : dist'[k] <= e.d
        <5>1. /\ dist'[k] = dist[k] /\ dist[k] # Unreached /\ dist[k] <= base
              /\ \A e \in heap : dist[k] <= e.d
          BY <1>2, <2>2 DEF OrderInv
        <5>2. dist[k] \in Nat
          BY <1>2, <2>2, <5>1 DEF SearchTypes
        <5>3. dist[k] <= cost
          BY <1>5, <5>1, <5>2
        <5> QED
          BY <2>1, <5>1, <5>3
      <4> QED
        BY <1>1, <1>2, <4>1 DEF OrderInv, mission
    <3>3. HeapInv'
      <4>1. ASSUME NEW k \in M.lanes \ settled, dist'[k] # Unreached
            PROVE  [d |-> dist'[k], lane |-> k] \in heap'
        <5>1. CASE k = l
          BY <2>1, <2>2, <5>1
        <5>2. CASE k # l
          BY <1>2, <2>1, <2>2, <4>1, <5>2 DEF HeapInv
        <5> QED
          BY <5>1, <5>2
      <4>2. ASSUME NEW e \in heap', e.lane \notin settled
            PROVE  dist'[e.lane] # Unreached /\ dist'[e.lane] <= e.d
        <5>1. cost # Unreached /\ \A k \in M.lanes : dist[k] # Unreached => dist[k] \in Nat
          BY <1>2, <1>5 DEF SearchTypes, Unreached
        <5>2. CASE e = [d |-> cost, lane |-> l]
          BY <1>5, <2>2, <5>1, <5>2
        <5>3. CASE e \in heap
          <6>1. /\ e.lane \in M.lanes /\ e.d \in Nat
                /\ dist[e.lane] # Unreached /\ dist[e.lane] <= e.d
            BY <1>2, <4>2, <5>3 DEF HeapInv, SearchTypes
          <6>2. CASE e.lane = l
            BY <1>5, <2>1, <2>2, <5>1, <6>1, <6>2
          <6>3. CASE e.lane # l
            BY <2>2, <6>1, <6>3
          <6> QED
            BY <6>2, <6>3
        <5> QED
          BY <2>1, <5>2, <5>3
      <4> QED
        BY <1>1, <4>1, <4>2 DEF HeapInv
    <3> QED
      BY <1>1, <1>3, <2>3, <2>4, <3>1, <3>2, <3>3 DEF Inv, SearchInv
<1>7. CASE ~Improves(cost, l)
  <2>1. UNCHANGED <<dist, prev, heap>>
    BY <1>7 DEF Relax
  <2>2. SearchTypes' /\ FrontInv' /\ OrderInv' /\ HeapInv'
    BY <1>1, <1>2, <1>4, <2>1 DEF SearchTypes, FrontInv, OrderInv, HeapInv, Base0, mission
  <2>3. Relaxed(base, c)
    BY <1>2, <1>5, <1>7 DEF Improves, Relaxed, Unreached, SearchTypes, OrderInv
  <2>4. RelaxedInv'
    BY <1>1, <1>2, <1>4, <2>1, <2>3 DEF RelaxedInv, Relaxed, FrontInv, Base0, mission
  <2> QED
    BY <1>1, <1>3, <2>2, <2>4 DEF Inv, SearchInv
<1> QED
  BY <1>6, <1>7

\* Taking the nearest entry of the heap.
LEMMA PopStep == ASSUME Inv, Pop PROVE Inv'
<1>1. /\ pc = "search" /\ rest = <<>> /\ UNCHANGED <<mission, dist, prev, pieces, course>> /\ M' = M
  BY DEF Pop, mission, M
<1>2. /\ MapInv /\ PlannedInv /\ ReferencesOk(M)
      /\ SearchTypes /\ FrontInv /\ RelaxedInv /\ OrderInv /\ HeapInv
  BY <1>1 DEF Inv, MapInv, SearchInv
<1>3. /\ MapInv'
      /\ pc' \in {"search", "trace"} => PlannedInv'
      /\ pc' = "error" => PlannedInv'
  BY <1>1, <1>2 DEF MapInv, PlannedInv, Ahead, mission, ReferencesOk, Outgoing
<1>4. ToSet(rest) = {}
  BY <1>1 DEF ToSet
<1>5. CASE heap = {}
  <2>1. pc' = "error"
    BY <1>5 DEF Pop, NoRoute
  <2> QED
    BY <1>3, <2>1 DEF Inv
<1>6. CASE heap # {}
  <2>1. PICK e \in heap :
            /\ \A f \in heap : e.d <= f.d
            /\ heap' = heap \ {e}
            /\ Skip(e) \/ Found(e) \/ Settle(e)
    BY <1>6 DEF Pop
  <2>2. e.d \in Nat /\ e.lane \in M.lanes /\ \A f \in heap : f.d \in Nat /\ f.lane \in M.lanes
    BY <1>2 DEF SearchTypes
  <2>3. CASE Skip(e)
    <3>1. /\ pc' = "search" /\ UNCHANGED <<settled, via, base, rest, total>>
          /\ e.lane \in settled \/ e.d > dist[e.lane]
      BY <1>1, <2>3 DEF Skip, Outdated
    <3>2. SearchTypes' /\ FrontInv' /\ RelaxedInv' /\ OrderInv'
      BY <1>1, <1>2, <2>1, <3>1
         DEF SearchTypes, FrontInv, RelaxedInv, Relaxed, OrderInv, Base0, mission
    <3>3. HeapInv'
      BY <1>1, <1>2, <2>1, <2>2, <3>1 DEF HeapInv, SearchTypes, Unreached
    <3> QED
      BY <1>3, <3>1, <3>2, <3>3 DEF Inv, SearchInv
  <2>4. CASE Settle(e)
    <3>1. /\ pc' = "search" /\ settled' = settled \cup {e.lane} /\ via' = e.lane
          /\ base' = e.d + M.len[e.lane] /\ rest' = M.succ[e.lane]
          /\ e.lane \notin settled /\ ~(e.d > dist[e.lane]) /\ e.lane # stop.lane
      BY <1>1, <2>4 DEF Settle, Outdated
    <3>2. /\ M.len[e.lane] \in Nat /\ rest' \in Seq(M.conns)
          /\ ToSet(rest') = Outgoing(M, e.lane)
      BY <1>2, <2>2, <3>1, LaneFacts
    <3>3. dist[e.lane] = e.d /\ dist[e.lane] # Unreached
      BY <1>2, <2>1, <2>2, <3>1 DEF HeapInv, SearchTypes, Unreached
    <3>4. SearchTypes'
      BY <1>1, <1>2, <2>1, <2>2, <3>1, <3>2 DEF SearchTypes
    <3>5. FrontInv'
      BY <1>1, <3>1, <3>3 DEF FrontInv
    <3>6. RelaxedInv'
      BY <1>1, <1>2, <1>4, <3>1, <3>2 DEF RelaxedInv, Relaxed, Base0, mission
    <3>7. OrderInv'
      <4>1. stop'.lane \notin settled'
        BY <1>1, <1>2, <3>1 DEF OrderInv, mission
      <4>2. e.d <= base' /\ \A f \in heap' : e.d <= f.d
        BY <2>1, <2>2, <3>1, <3>2
      <4>3. ASSUME NEW k \in settled
            PROVE  dist[k] # Unreached /\ dist[k] <= e.d /\ dist[k] \in Nat
        BY <1>2, <2>1, <4>3 DEF OrderInv, SearchTypes
      <4>4. ASSUME NEW k \in settled'
            PROVE  /\ dist'[k] # Unreached /\ dist'[k] <= base'
                   /\ \A f \in heap' : dist'[k] <= f.d
        <5>1. dist'[k] # Unreached /\ dist'[k] <= e.d /\ dist'[k] \in Nat
          BY <1>1, <2>2, <3>1, <3>3, <4>3
        <5>2. base' \in Nat /\ \A f \in heap' : f.d \in Nat
          BY <3>4 DEF SearchTypes
        <5> QED
          BY <2>2, <4>2, <5>1, <5>2
      <4> QED
        BY <4>1, <4>4 DEF OrderInv
    <3>8. HeapInv'
      BY <1>1, <1>2, <2>1, <3>1, <3>3 DEF HeapInv
    <3> QED
      BY <1>3, <3>1, <3>4, <3>5, <3>6, <3>7, <3>8 DEF Inv, SearchInv
  <2>5. CASE Found(e)
    <3>1. /\ pc' = "trace" /\ total' = e.d + stop.s /\ UNCHANGED <<settled, via, base, rest>>
          /\ e.lane \notin settled /\ e.lane = stop.lane
      BY <1>1, <2>5 DEF Found, Outdated
    <3>2. stop.s \in Nat /\ total' \in Nat /\ total' - stop.s = e.d
      BY <1>1, <1>2, <2>2, <3>1 DEF PlannedInv
    <3>3. ASSUME NEW b \in Nat, NEW c \in M.conns, Relaxed(b, c)
          PROVE  Nearer(b, c)'
      <4>1. M.to[c] \in M.lanes /\ M.len[c] \in Nat
        BY <1>2, MapFacts DEF ReferencesOk
      <4>2. dist[M.to[c]] \in Nat /\ dist[M.to[c]] <= b + M.len[c]
        BY <1>2, <3>3, <4>1 DEF Relaxed, SearchTypes
      <4>3. ASSUME b + M.len[c] < e.d
            PROVE  M.to[c] \in settled
        <5>1. SUFFICES ASSUME M.to[c] \notin settled
                       PROVE  FALSE
          OBVIOUS
        <5>2. [d |-> dist[M.to[c]], lane |-> M.to[c]] \in heap
          BY <1>2, <4>1, <4>2, <5>1 DEF HeapInv, Unreached
        <5>3. e.d <= dist[M.to[c]]
          BY <2>1, <5>2
        <5> QED
          BY <2>2, <4>1, <4>2, <4>3, <5>3
      <4> QED
        BY <1>1, <3>1, <3>2, <4>2, <4>3 DEF Nearer, mission
    <3>4. Closed'
      <4>1. settled' \subseteq M.lanes \ {stop.lane}
        BY <1>2, <3>1 DEF SearchTypes, OrderInv
      <4>2. \A k \in settled : k \in M.lanes /\ dist[k] \in Nat /\ dist[k] + M.len[k] \in Nat
        BY <1>2, MapFacts DEF SearchTypes, OrderInv
      <4>3. start.lane \in M.lanes /\ Base0 \in Nat
        BY <1>1, <1>2, MapFacts DEF Base0, PlannedInv
      <4>4. ASSUME NEW c \in Outgoing(M, start.lane)
            PROVE  Nearer(Base0, c)'
        <5>1. c \in M.conns /\ Relaxed(Base0, c)
          BY <1>2, <1>4, <4>3, LaneFacts DEF RelaxedInv
        <5> QED
          BY <1>1, <3>3, <4>3, <5>1 DEF Base0, mission
      <4>5. ASSUME NEW k \in settled, NEW c \in Outgoing(M, k)
            PROVE  Nearer(dist[k] + M.len[k], c)'
        <5>1. c \in M.conns /\ Relaxed(dist[k] + M.len[k], c)
          BY <1>2, <1>4, <4>2, LaneFacts DEF RelaxedInv
        <5> QED
          BY <1>1, <3>3, <4>2, <5>1
      <4> QED
        BY <1>1, <3>1, <3>2, <4>1, <4>2, <4>4, <4>5 DEF Closed, mission
    <3> QED
      BY <1>3, <3>1, <3>4 DEF Inv
  <2> QED
    BY <2>1, <2>3, <2>4, <2>5
<1> QED
  BY <1>5, <1>6

LEMMA LateStep == ASSUME Inv, Trace \/ Fold PROVE Inv'
<1>1. /\ pc \in {"trace", "fold"} /\ pc' \in {"trace", "fold", "driving", "error"}
      /\ pc = "fold" => pc' # "trace"
      /\ UNCHANGED <<mission, search, total>> /\ M' = M
  BY DEF Trace, Fold, mission, M
<1>2. MapInv' /\ PlannedInv'
  BY <1>1 DEF Inv, MapInv, PlannedInv, Ahead, mission, ReferencesOk, Outgoing
<1>3. Closed' <=> Closed
  BY <1>1 DEF Closed, Nearer, Base0, mission, search
<1> QED
  BY <1>1, <1>2, <1>3 DEF Inv, Ahead, mission

LEMMA InvStep == Inv /\ [Next]_vars => Inv'
<1> SUFFICES ASSUME Inv, [Next]_vars PROVE Inv'
  OBVIOUS
<1>1. CASE UNCHANGED vars
  <2>1. UNCHANGED <<mission, pc, search, total>> /\ M' = M
    BY <1>1 DEF vars, mission, M
  <2> QED
    BY SMTT(30), <2>1 DEF mission, search, Inv, MapInv, ReferencesOk, Outgoing, PlannedInv, Ahead, SearchInv,
                SearchTypes, FrontInv, RelaxedInv, Relaxed, OrderInv, HeapInv, Closed, Nearer, Base0
<1> QED
  BY <1>1, BootStep, PlanStep, RelaxStep, PopStep, LateStep DEF Next, Search

-----------------------------------------------------------------------------
(* Induction, by the least counterexample; and the ways.                   *)

LEMMA LeastNatural ==
    ASSUME NEW S \in SUBSET Nat, S # {}
    PROVE  \E m \in S : \A k \in S : m <= k
<1> DEFINE Initial == {1 .. n : n \in S}
<1>1. Initial \subseteq FiniteSubsetsOf(Nat)
  BY FS_Interval DEF FiniteSubsetsOf
<1>2. PICK I \in Initial : \A J \in Initial : <<J, I>> \notin StrictSubsetOrdering(Nat)
  <2>1. Initial # {}
    OBVIOUS
  <2>2. IsWellFoundedOn(StrictSubsetOrdering(Nat), FiniteSubsetsOf(Nat))
    BY FS_StrictSubsetOrderingWellFounded
  <2> HIDE DEF Initial
  <2> QED
    BY <1>1, <2>1, <2>2, WFMin
<1>3. PICK m \in S : I = 1 .. m
  BY <1>2
<1>4. ASSUME NEW k \in S, k < m
      PROVE  FALSE
  <2>1. 1 .. k \in Initial /\ 1 .. k \subseteq 1 .. m /\ m \in 1 .. m /\ m \notin 1 .. k
    BY <1>4
  <2>2. <<1 .. k, I>> \in StrictSubsetOrdering(Nat)
    BY <1>3, <2>1 DEF StrictSubsetOrdering
  <2> QED
    BY <1>2, <2>1, <2>2
<1> QED
  BY <1>3, <1>4

\* Whatever holds of 1, and of n + 1 if of n, holds up to any number.
LEMMA UpTo ==
    ASSUME NEW N \in Nat, NEW S, 1 \in S \/ N = 0,
           \A n \in 1 .. N : n \in S /\ n + 1 <= N => n + 1 \in S
    PROVE  1 .. N \subseteq S
<1> SUFFICES ASSUME ~(1 .. N \subseteq S) PROVE FALSE
  OBVIOUS
<1>1. PICK m \in 1 .. N \ S : \A k \in 1 .. N \ S : m <= k
  <2>1. 1 .. N \ S \in SUBSET Nat /\ 1 .. N \ S # {}
    OBVIOUS
  <2> QED
    BY <2>1, LeastNatural
<1>2. m # 1 /\ m - 1 \in 1 .. N
  BY <1>1
<1>3. m - 1 \in S
  BY <1>1, <1>2
<1> QED
  BY <1>1, <1>2, <1>3

\* f begins with a, and its n-th value is made by G[n] from the one before.
GoesOn(f, k, W, a, G) ==
    f \in [1 .. k -> W] /\ \A n \in 1 .. k : f[n] = IF n = 1 THEN a ELSE G[n][f[n - 1]]

\* There is such a function.
LEMMA Recursion ==
    ASSUME NEW N \in Nat, NEW W, NEW a \in W, NEW G \in [1 .. N -> [W -> W]]
    PROVE  \E f : GoesOn(f, N, W, a, G)
<1> USE DEF GoesOn
<1> DEFINE Goes(k, f) == GoesOn(f, k, W, a, G)
           S == {k \in 1 .. N : \E f : Goes(k, f)}
<1>1. 1 \in S \/ N = 0
  <2>1. Goes(1, [n \in 1 .. 1 |-> a])
    OBVIOUS
  <2>2. N # 0 => 1 \in 1 .. N
    OBVIOUS
  <2> HIDE DEF Goes
  <2> QED
    BY <2>1, <2>2
<1>2. ASSUME NEW k \in 1 .. N, k \in S, k + 1 <= N
      PROVE  k + 1 \in S
  <2>1. PICK f : Goes(k, f)
    BY <1>2
  <2> DEFINE g == [n \in 1 .. k + 1 |-> IF n = k + 1 THEN G[n][f[k]] ELSE f[n]]
  <2>2. f[k] \in W /\ k + 1 \in 1 .. N /\ G[k + 1][f[k]] \in W
    BY <1>2, <2>1
  <2>3. g \in [1 .. k + 1 -> W]
    BY <2>1, <2>2
  <2>4. ASSUME NEW n \in 1 .. k + 1
        PROVE  g[n] = IF n = 1 THEN a ELSE G[n][g[n - 1]]
    <3>1. CASE n = k + 1
      BY <2>1, <3>1
    <3>2. CASE n # k + 1
      BY <2>1, <3>2
    <3> QED
      BY <3>1, <3>2
  <2>5. Goes(k + 1, g)
    BY <2>3, <2>4
  <2>6. k + 1 \in 1 .. N
    BY <1>2
  <2> HIDE DEF Goes, g
  <2> QED
    BY <2>5, <2>6
<1>3. 1 .. N \subseteq S
  BY <1>1, <1>2, UpTo
<1>4. CASE N = 0
  <2>1. Goes(N, [n \in 1 .. N |-> a])
    BY <1>4
  <2> QED
    BY <2>1
<1>5. CASE N # 0
  <2>1. PICK f : Goes(N, f)
    BY <1>3, <1>5
  <2> QED
    BY <2>1
<1> QED
  BY <1>4, <1>5

\* The sums of a sequence up to each of its places.
SumsOf(g, q) ==
    g \in [0 .. Len(q) -> Int] /\ g[0] = 0 /\ \A k \in 1 .. Len(q) : g[k] = g[k - 1] + q[k]

LEMMA TotalSums ==
    ASSUME NEW q \in Seq(Int)
    PROVE  \E g : SumsOf(g, q) /\ Total(q) = g[Len(q)]
<1> DEFINE N == Len(q)
           G == [n \in 1 .. N |-> [x \in Int |-> x + q[n]]]
           Unfolds(f) == f = [k \in 1 .. N |-> IF k = 1 THEN q[1] ELSE f[k - 1] + q[k]]
<1>1. CASE q = <<>>
  <2>1. SumsOf([k \in 0 .. 0 |-> 0], q)
    BY <1>1 DEF SumsOf
  <2> QED
    BY <1>1, <2>1 DEF Total
<1>2. CASE q # <<>>
  <2>1. N \in Nat /\ N >= 1 /\ \A n \in 1 .. N : q[n] \in Int
    BY <1>2
  <2>2. G \in [1 .. N -> [Int -> Int]] /\ q[1] \in Int
    BY <2>1
  <2>3. PICK f : GoesOn(f, N, Int, q[1], G)
    <3> HIDE DEF N, G
    <3> QED
      BY <2>1, <2>2, Recursion
  <2>4. f \in [1 .. N -> Int] /\ \A n \in 1 .. N : f[n] = IF n = 1 THEN q[1] ELSE f[n - 1] + q[n]
    <3>1. ASSUME NEW n \in 1 .. N, n # 1
          PROVE  n - 1 \in 1 .. N
      BY <2>1, <3>1
    <3> QED
      BY <2>3, <3>1 DEF GoesOn
  <2>5. Unfolds(f)
    <3>1. f = [n \in 1 .. N |-> f[n]]
      BY <2>4
    <3> QED
      BY <2>4, <3>1
  <2>6. PICK h : Unfolds(h) /\ Total(q) = h[N]
    <3>1. Unfolds(CHOOSE h : Unfolds(h))
      BY <2>5, Zenon
    <3>2. Total(q) = (CHOOSE h : Unfolds(h))[N]
      BY <1>2 DEF Total
    <3> QED
      BY <3>1, <3>2
  <2>7. /\ DOMAIN h = 1 .. N
        /\ \A n \in 1 .. N : h[n] = IF n = 1 THEN q[1] ELSE h[n - 1] + q[n]
    BY <2>6
  <2> DEFINE S == {n \in 1 .. N : h[n] \in Int}
  <2>8. 1 \in S
    BY <2>1, <2>7
  <2>9. \A n \in 1 .. N : n \in S /\ n + 1 <= N => n + 1 \in S
    <3>1. ASSUME NEW n \in 1 .. N, n \in S, n + 1 <= N
          PROVE  n + 1 \in S
      <4>1. n + 1 \in 1 .. N /\ n + 1 # 1 /\ (n + 1) - 1 = n
        BY <2>1, <3>1
      <4> QED
        BY <2>1, <2>7, <3>1, <4>1
    <3> QED
      BY <3>1
  <2>10. 1 .. N \subseteq S
    <3> HIDE DEF S, N
    <3> QED
      BY <2>1, <2>8, <2>9, UpTo
  <2> DEFINE g == [k \in 0 .. N |-> IF k = 0 THEN 0 ELSE h[k]]
  <2>11. g \in [0 .. N -> Int] /\ g[0] = 0 /\ g[N] = h[N]
    BY <2>1, <2>10
  <2>12. ASSUME NEW k \in 1 .. N
         PROVE  g[k] = g[k - 1] + q[k]
    <3>1. k \in 0 .. N /\ k # 0 /\ k - 1 \in 0 .. N /\ g[k] = h[k]
      BY <2>1
    <3>2. CASE k = 1
      BY <2>1, <2>7, <3>1, <3>2
    <3>3. CASE k # 1
      BY <2>1, <2>7, <3>1, <3>3
    <3> QED
      BY <3>2, <3>3
  <2>13. SumsOf(g, q)
    BY <2>11, <2>12 DEF SumsOf
  <2> QED
    BY <2>6, <2>11, <2>13
<1> QED
  BY <1>1, <1>2

\* There is only one such function: a total is found by guessing the sums.
LEMMA TotalIs ==
    ASSUME NEW q \in Seq(Int), NEW g, SumsOf(g, q)
    PROVE  Total(q) = g[Len(q)]
<1>1. PICK h : SumsOf(h, q) /\ Total(q) = h[Len(q)]
  BY TotalSums
<1> DEFINE N == Len(q)
           S == {k \in 1 .. N : g[k] = h[k]}
<1>2. N \in Nat
  OBVIOUS
<1>3. 1 \in S \/ N = 0
  BY <1>1, <1>2 DEF SumsOf
<1>4. ASSUME NEW n \in 1 .. N, n \in S, n + 1 <= N
      PROVE  n + 1 \in S
  <2>1. n + 1 \in 1 .. N /\ (n + 1) - 1 = n
    BY <1>2, <1>4
  <2> QED
    BY <1>1, <1>4, <2>1 DEF SumsOf
<1>5. 1 .. N \subseteq S
  <2> HIDE DEF N, S
  <2> QED
    BY <1>2, <1>3, <1>4, UpTo
<1> QED
  BY <1>1, <1>2, <1>5 DEF SumsOf

LEMMA OverTypes ==
    ASSUME MapInv, ReferencesOk(M), NEW l \in M.lanes, NEW cost \in Nat, NEW limit
    PROVE  Over(l, cost, limit) \subseteq [lane : M.lanes, cost : Nat]
<1>1. ASSUME NEW c \in Outgoing(M, l)
      PROVE  [lane |-> M.to[c], cost |-> cost + M.len[c]] \in [lane : M.lanes, cost : Nat]
  BY LaneFacts
<1> QED
  BY <1>1 DEF Over

\* The ways satisfy the recursion they are defined by.
LEMMA WaysUnfold ==
    ASSUME MapInv, ReferencesOk(M), start.lane \in M.lanes, Base0 \in Nat, NEW limit
    PROVE  LET N == Cardinality(M.lanes)
               ways == WaysOver(limit)
           IN  /\ N \in Nat
               /\ ways \in [1 .. N -> SUBSET [lane : M.lanes, cost : Nat]]
               /\ \A n \in 1 .. N :
                     ways[n] = IF n = 1 THEN Over(start.lane, Base0, limit) ELSE OneMore(ways[n - 1], limit)
<1> DEFINE N == Cardinality(M.lanes)
           W == SUBSET [lane : M.lanes, cost : Nat]
           first == Over(start.lane, Base0, limit)
           G == [n \in 1 .. N |-> [ways \in W |-> OneMore(ways, limit)]]
           Unfolds(f) == f = [n \in 1 .. N |-> IF n = 1 THEN first ELSE OneMore(f[n - 1], limit)]
<1>1. N \in Nat
  BY MapFacts, FS_CardinalityType
<1>2. first \in W
  BY OverTypes
<1>3. ASSUME NEW ways \in W
      PROVE  OneMore(ways, limit) \in W
  <2>1. ASSUME NEW w \in ways
        PROVE  Over(w.lane, w.cost + M.len[w.lane], limit) \subseteq [lane : M.lanes, cost : Nat]
    <3>1. w.lane \in M.lanes /\ w.cost \in Nat /\ M.len[w.lane] \in Nat
      BY MapFacts
    <3> QED
      BY <3>1, OverTypes
  <2> QED
    BY <2>1 DEF OneMore
<1>4. G \in [1 .. N -> [W -> W]]
  BY <1>3
<1> HIDE DEF N, W, first
<1>5. PICK f \in [1 .. N -> W] : \A n \in 1 .. N : f[n] = IF n = 1 THEN first ELSE G[n][f[n - 1]]
  <2>1. \E f : GoesOn(f, N, W, first, G)
    <3> HIDE DEF G
    <3> QED
      BY <1>1, <1>2, <1>4, Recursion
  <2> HIDE DEF G
  <2> QED
    BY <2>1 DEF GoesOn
<1>6. Unfolds(f)
  <2>1. ASSUME NEW n \in 1 .. N, n # 1
        PROVE  G[n][f[n - 1]] = OneMore(f[n - 1], limit)
    <3>1. n - 1 \in 1 .. N /\ f[n - 1] \in W
      BY <1>1, <2>1
    <3> QED
      BY <3>1
  <2>2. \A n \in 1 .. N : f[n] = IF n = 1 THEN first ELSE OneMore(f[n - 1], limit)
    <3> HIDE DEF G
    <3> QED
      BY <1>5, <2>1
  <2>3. f = [n \in 1 .. N |-> f[n]]
    OBVIOUS
  <2> QED
    BY <2>2, <2>3
<1>7. WaysOver(limit) = CHOOSE g : Unfolds(g)
  BY DEF WaysOver, N, first, Base0
<1>8. Unfolds(WaysOver(limit))
  BY <1>6, <1>7, Zenon
<1> DEFINE ways == WaysOver(limit)
<1>9. /\ DOMAIN ways = 1 .. N
      /\ \A n \in 1 .. N : ways[n] = IF n = 1 THEN first ELSE OneMore(ways[n - 1], limit)
  BY <1>8
<1>10. ways = [n \in 1 .. N |-> ways[n]]
  BY <1>8
<1> HIDE DEF ways
<1>11. 1 .. N \subseteq {n \in 1 .. N : ways[n] \in W}
  <2>1. N # 0 => 1 \in {n \in 1 .. N : ways[n] \in W}
    BY <1>1, <1>2, <1>9
  <2>2. ASSUME NEW n \in 1 .. N, ways[n] \in W, n + 1 <= N
        PROVE  ways[n + 1] \in W
    <3>1. n + 1 \in 1 .. N /\ n + 1 # 1 /\ (n + 1) - 1 = n
      BY <1>1, <2>2
    <3>2. ways[n + 1] = OneMore(ways[n], limit)
      BY <1>9, <3>1
    <3> QED
      BY <1>3, <2>2, <3>2
  <2> DEFINE S == {n \in 1 .. N : ways[n] \in W}
  <2>3. 1 \in S \/ N = 0
    BY <2>1
  <2>4. \A n \in 1 .. N : n \in S /\ n + 1 <= N => n + 1 \in S
    BY <1>1, <2>2
  <2> HIDE DEF S
  <2> QED
    BY <1>1, <2>3, <2>4, UpTo DEF S
<1> QED
  BY <1>1, <1>9, <1>10, <1>11 DEF N, W, first, ways

\* Nothing settled is left out: every way that is shorter than the one found leads to a lane
\* that is settled, no farther away.
LEMMA WaysAreSettled ==
    ASSUME MapInv, ReferencesOk(M), start.lane \in M.lanes, Base0 \in Nat, Closed,
           total - stop.s \in Int
    PROVE  \A w \in Ways(total - stop.s) : w.lane \in settled
<1> DEFINE N == Cardinality(M.lanes)
           limit == total - stop.s
           ways == WaysOver(limit)
           Good(w) == w.lane \in settled /\ dist[w.lane] <= w.cost
           S == {n \in 1 .. N : \A w \in ways[n] : Good(w)}
<1>1. /\ N \in Nat
      /\ ways \in [1 .. N -> SUBSET [lane : M.lanes, cost : Nat]]
      /\ \A n \in 1 .. N :
            ways[n] = IF n = 1 THEN Over(start.lane, Base0, limit) ELSE OneMore(ways[n - 1], limit)
  BY WaysUnfold
<1>2. ASSUME NEW w \in Over(start.lane, Base0, limit)
      PROVE  Good(w)
  <2>1. PICK c \in Outgoing(M, start.lane) :
            w = [lane |-> M.to[c], cost |-> Base0 + M.len[c]] /\ w.cost < limit
    BY DEF Over
  <2> QED
    BY <2>1 DEF Closed, Nearer
<1>3. ASSUME NEW ways1 \in SUBSET [lane : M.lanes, cost : Nat], \A w \in ways1 : Good(w),
             NEW v \in OneMore(ways1, limit)
      PROVE  Good(v)
  <2>1. PICK w \in ways1 : v \in Over(w.lane, w.cost + M.len[w.lane], limit)
    BY DEF OneMore
  <2>2. PICK c \in Outgoing(M, w.lane) :
            v = [lane |-> M.to[c], cost |-> w.cost + M.len[w.lane] + M.len[c]] /\ v.cost < limit
    BY <2>1 DEF Over
  <2>3. /\ w.lane \in settled /\ dist[w.lane] <= w.cost /\ dist[w.lane] \in Nat
        /\ w.lane \in M.lanes /\ w.cost \in Nat
    BY <1>3 DEF Closed
  <2>4. M.len[w.lane] \in Nat /\ M.len[c] \in Nat /\ M.to[c] \in M.lanes
    BY <2>3, LaneFacts
  <2>5. dist[w.lane] + M.len[w.lane] + M.len[c] <= v.cost /\ v.cost < limit /\ v.cost \in Nat
    BY <2>2, <2>3, <2>4
  <2>6. /\ M.to[c] \in settled /\ dist[M.to[c]] \in Nat
        /\ dist[M.to[c]] <= dist[w.lane] + M.len[w.lane] + M.len[c]
    <3>1. Nearer(dist[w.lane] + M.len[w.lane], c)
      BY <2>3 DEF Closed
    <3>2. limit \in Int /\ dist[w.lane] + M.len[w.lane] + M.len[c] < limit
      BY <2>3, <2>4, <2>5
    <3> QED
      BY <3>1, <3>2 DEF Closed, Nearer
  <2> QED
    BY <2>2, <2>3, <2>4, <2>5, <2>6
<1> HIDE DEF N, ways, limit, Good
<1>4. 1 \in S \/ N = 0
  BY <1>1, <1>2
<1>5. ASSUME NEW n \in 1 .. N, n \in S, n + 1 <= N
      PROVE  n + 1 \in S
  <2>1. n + 1 \in 1 .. N /\ ways[n + 1] = OneMore(ways[n], limit)
    <3>1. n + 1 \in 1 .. N /\ n + 1 # 1 /\ (n + 1) - 1 = n
      BY <1>1, <1>5
    <3> QED
      BY <1>1, <3>1
  <2> QED
    BY <1>1, <1>3, <1>5, <2>1
<1>6. 1 .. N \subseteq S
  <2> HIDE DEF S
  <2> QED
    BY <1>1, <1>4, <1>5, UpTo
<1>7. \A n \in 1 .. N : \A w \in ways[n] : w.lane \in settled
  BY <1>6 DEF Good
<1> QED
  BY <1>7 DEF Ways, N, ways, limit

\* No way is shorter than the one the planner takes, on any map that the loader lets through,
\* with connectors and lanes of any length, among them parallel ones and ways that come round
\* to the lane the vehicle is on (route_planner.py, plan).
THEOREM ShortestWay == Spec => []ShortestRoute
<1>1. Inv => ShortestRoute
  <2> SUFFICES ASSUME Inv, pc = "driving", ~forced PROVE ShortestRoute
    BY DEF ShortestRoute
  <2>1. /\ MapInv /\ ReferencesOk(M) /\ start.lane \in M.lanes /\ stop.s \in Nat
        /\ start.s \in 0 .. M.len[start.lane] /\ M.len[start.lane] \in Nat
    BY MapFacts DEF Inv, MapInv, PlannedInv
  <2>2. Base0 \in Nat
    BY <2>1 DEF Base0
  <2>3. CASE Ahead
    BY <2>3 DEF Inv, PlannedInv, ShortestRoute, Ahead
  <2>4. CASE ~Ahead
    <3>1. Closed /\ total - stop.s \in Int
      BY <2>1, <2>4 DEF Inv, Closed
    <3>2. \A w \in Ways(total - stop.s) : w.lane \in settled
      BY <2>1, <2>2, <3>1, WaysAreSettled
    <3> QED
      BY <2>4, <3>1, <3>2 DEF ShortestRoute, Ahead, Closed
  <2> QED
    BY <2>3, <2>4
<1> QED
  BY <1>1, InvInit, InvStep, PTL DEF Spec

-----------------------------------------------------------------------------
(* Registered routes.                                                      *)

LEMMA SmallestOf ==
    ASSUME NEW S \in SUBSET Nat, S # {}
    PROVE  Min(S) \in S /\ \A k \in S : Min(S) <= k
<1>1. PICK m \in S : \A k \in S : m <= k
  BY LeastNatural
<1> QED
  BY <1>1 DEF Min

LEMMA LinkFacts ==
    ASSUME MapInv, NEW a \in M.lanes, NEW b \in Follows(M, a)
    PROVE  Link(M, a, b) \in Outgoing(M, a) /\ M.to[Link(M, a, b)] = b
<1> DEFINE S == {i \in DOMAIN M.succ[a] : M.to[M.succ[a][i]] = b}
<1>1. S \subseteq Nat /\ S \subseteq DOMAIN M.succ[a]
  <2>1. M.succ[a] \in Seq(Outgoing(M, a))
    BY MapFacts
  <2> QED
    BY <2>1
<1>2. S # {}
  BY DEF Follows, Outgoing
<1>3. Min(S) \in S
  BY <1>1, <1>2, SmallestOf
<1>4. Link(M, a, b) = M.succ[a][Min(S)]
  BY DEF Link
<1> QED
  BY <1>1, <1>3, <1>4 DEF Outgoing

\* The lanes of a route and the connectors from each to the next.
Joined(m, lanes, conns) ==
    /\ conns \in Seq(m.conns)
    /\ lanes \in Seq(m.lanes) /\ Len(lanes) = Len(conns) + 1
    /\ \A i \in 1 .. Len(conns) : conns[i] \in Outgoing(m, lanes[i]) /\ m.to[conns[i]] = lanes[i + 1]

LEMMA SuffixFacts ==
    ASSUME NEW S, NEW r \in Seq(S), NEW m \in 1 .. Len(r) - 1, NEW q, q = SubSeq(r, m, Len(r))
    PROVE  /\ q \in Seq(S) /\ Len(q) = Len(r) - m + 1 /\ Len(q) \in Nat /\ Len(q) >= 2
           /\ \A i \in 1 .. Len(q) : q[i] = r[m + i - 1] /\ m + i - 1 \in 1 .. Len(r)
<1>1. Len(r) \in Nat /\ m \in Nat /\ m >= 1 /\ m <= Len(r)
  OBVIOUS
<1>2. \A i \in m .. Len(r) : r[i] \in S
  BY <1>1
<1>3. /\ q \in Seq(S) /\ Len(q) = Len(r) - m + 1
      /\ \A i \in 1 .. Len(r) - m + 1 : q[i] = r[m + i - 1]
  BY <1>1, <1>2, SubSeqProperties
<1> QED
  BY <1>1, <1>3

LEMMA InSeq ==
    ASSUME NEW S, NEW T, NEW q \in Seq(S), \A i \in 1 .. Len(q) : q[i] \in T
    PROVE  q \in Seq(T)
OBVIOUS

\* Two lanes or more, from one to another, that each leads on to the next.
Leading(q, a, b) ==
    /\ q \in Seq(M.lanes) /\ Len(q) \in Nat /\ Len(q) >= 2
    /\ q[1] = a /\ q[Len(q)] = b
    /\ \A i \in 1 .. Len(q) - 1 : q[i + 1] \in Follows(M, q[i])

LEMMA ConnectedSuffix ==
    ASSUME NEW S, NEW r \in Seq(S), Connected(M, r), NEW m \in 1 .. Len(r) - 1
    PROVE  Leading(SubSeq(r, m, Len(r)), r[m], r[Len(r)])
<1> PICK q : q = SubSeq(r, m, Len(r))
  OBVIOUS
<1>1. /\ q \in Seq(S) /\ Len(q) = Len(r) - m + 1 /\ Len(q) \in Nat /\ Len(q) >= 2
      /\ \A i \in 1 .. Len(q) : q[i] = r[m + i - 1] /\ m + i - 1 \in 1 .. Len(r)
  BY SuffixFacts
<1>2. Len(r) \in Nat /\ m \in Nat /\ m >= 1
  BY LenProperties
<1>3. \A i \in 1 .. Len(q) : q[i] \in M.lanes
  BY <1>1 DEF Connected
<1>4. q \in Seq(M.lanes)
  BY <1>1, <1>3, InSeq
<1>5. q[1] = r[m] /\ q[Len(q)] = r[Len(r)]
  <2>1. 1 \in 1 .. Len(q) /\ Len(q) \in 1 .. Len(q) /\ m + 1 - 1 = m /\ m + Len(q) - 1 = Len(r)
    BY <1>1, <1>2
  <2> QED
    BY <1>1, <2>1
<1>6. ASSUME NEW i \in 1 .. Len(q) - 1
      PROVE  q[i + 1] \in Follows(M, q[i])
  <2>1. /\ i \in 1 .. Len(q) /\ i + 1 \in 1 .. Len(q) /\ m + i \in 2 .. Len(r)
        /\ m + i - 1 = (m + i) - 1 /\ m + (i + 1) - 1 = m + i
    BY <1>1, <1>2
  <2>2. q[i] = r[(m + i) - 1] /\ q[i + 1] = r[m + i]
    BY <1>1, <2>1
  <2>3. r[m + i] \in Follows(M, r[(m + i) - 1])
    BY <2>1 DEF Connected, Linked
  <2> QED
    BY <2>2, <2>3
<1> QED
  BY <1>1, <1>4, <1>5, <1>6 DEF Leading

\* The connectors of a registered route.
Links(m, nums) == [i \in 1 .. Len(nums) - 1 |-> Link(m, nums[i], nums[i + 1])]

LEMMA ForcedFacts ==
    ASSUME MapInv, ReferencesOk(M),
           \A i \in DOMAIN site.routes : Connected(M, site.routes[i]),
           NEW a, NEW b, NEW nums, nums = ForcedRoute(a, b), nums # <<>>
    PROVE  /\ Joined(M, nums, Links(M, nums))
           /\ nums[1] = a /\ nums[Len(nums)] = b
<1> DEFINE Before(r) == {j \in 1 .. Len(r) - 1 : r[j] = a}
           fits == {i \in DOMAIN site.routes : Last(site.routes[i]) = b /\ Before(site.routes[i]) # {}}
<1>1. /\ fits # {}
      /\ nums = LET r == site.routes[Min(fits)] IN SubSeq(r, Min(Before(r)), Len(r))
  BY DEF ForcedRoute
<1>2. site.routes \in Seq(Seq(Int))
  BY SitesAssumption DEF MapInv
<1>3. fits \subseteq Nat
  BY <1>2
<1>4. Min(fits) \in fits
  <2> HIDE DEF fits
  <2> QED
    BY <1>1, <1>3, SmallestOf
<1>5. PICK r : r = site.routes[Min(fits)]
  OBVIOUS
<1>6. r \in Seq(Int) /\ Last(r) = b /\ Before(r) # {} /\ Connected(M, r)
  <2>1. Min(fits) \in DOMAIN site.routes
    BY <1>4
  <2>2. Last(site.routes[Min(fits)]) = b /\ Before(site.routes[Min(fits)]) # {}
    BY <1>4
  <2> HIDE DEF fits, Before
  <2> QED
    BY <1>2, <1>5, <2>1, <2>2
<1>7. Before(r) \subseteq Nat /\ Len(r) \in Nat
  <2> HIDE DEF fits
  <2> QED
    BY <1>6
<1>8. PICK m : m = Min(Before(r))
  OBVIOUS
<1>9. m \in Before(r)
  <2> HIDE DEF Before
  <2> QED
    BY <1>6, <1>7, <1>8, SmallestOf
<1>10. nums = SubSeq(r, m, Len(r))
  <2> HIDE DEF Before, fits
  <2> QED
    BY <1>1, <1>5, <1>8
<1>11. m \in 1 .. Len(r) - 1 /\ r[m] = a
  BY <1>9
<1> HIDE DEF Before, fits
<1>12. Leading(nums, a, r[Len(r)])
  <2> PICK S : r \in Seq(S)
    BY <1>6
  <2> QED
    BY <1>6, <1>10, <1>11, ConnectedSuffix
<1> DEFINE conns == [i \in 1 .. Len(nums) - 1 |-> Link(M, nums[i], nums[i + 1])]
<1>13. ASSUME NEW i \in 1 .. Len(nums) - 1
       PROVE  /\ conns[i] \in Outgoing(M, nums[i]) /\ M.to[conns[i]] = nums[i + 1]
              /\ conns[i] \in M.conns
  <2>1. nums[i] \in M.lanes /\ nums[i + 1] \in Follows(M, nums[i])
    BY SMTT(30), <1>12 DEF Leading
  <2>2. conns[i] = Link(M, nums[i], nums[i + 1])
    OBVIOUS
  <2>3. conns[i] \in Outgoing(M, nums[i]) /\ M.to[conns[i]] = nums[i + 1]
    <3> HIDE DEF conns
    <3> QED
      BY <2>1, <2>2, LinkFacts
  <2> HIDE DEF conns
  <2> QED
    BY <2>1, <2>3, LaneFacts
<1>14. conns \in Seq(M.conns) /\ Len(conns) = Len(nums) - 1
  <2>1. Len(nums) - 1 \in Nat /\ \A i \in 1 .. Len(nums) - 1 : conns[i] \in M.conns
    BY <1>12, <1>13 DEF Leading
  <2> QED
    BY <2>1
<1>15. Joined(M, nums, conns)
  <2> HIDE DEF conns
  <2> QED
    BY <1>12, <1>13, <1>14 DEF Joined, Leading
<1> QED
  BY <1>6, <1>12, <1>15 DEF Last, Leading, Links

-----------------------------------------------------------------------------
(* Sums.                                                                   *)

LEMMA TotalInt == ASSUME NEW q \in Seq(Int) PROVE Total(q) \in Int
<1>1. PICK g : SumsOf(g, q) /\ Total(q) = g[Len(q)]
  BY TotalSums
<1> QED
  BY <1>1 DEF SumsOf

LEMMA TotalOne == ASSUME NEW x \in Int PROVE Total(<<x>>) = x
<1> DEFINE q == <<x>>
           g == [k \in 0 .. 1 |-> IF k = 0 THEN 0 ELSE x]
<1>1. q \in Seq(Int) /\ Len(q) = 1 /\ q[1] = x
  OBVIOUS
<1>2. SumsOf(g, q) /\ g[1] = x
  <2>1. g \in [0 .. 1 -> Int] /\ g[0] = 0 /\ g[1] = x
    OBVIOUS
  <2> HIDE DEF g, q
  <2> QED
    BY <1>1, <2>1 DEF SumsOf
<1> HIDE DEF g, q
<1>3. Total(q) = x
  BY <1>1, <1>2, TotalIs
<1> QED
  BY <1>3 DEF q

\* p is x and then q.
Prepended(p, x, q) == Len(p) = Len(q) + 1 /\ p[1] = x /\ \A k \in 1 .. Len(q) : p[k + 1] = q[k]

LEMMA TotalCons ==
    ASSUME NEW q \in Seq(Int), NEW x \in Int, NEW p \in Seq(Int), Prepended(p, x, q)
    PROVE  Total(p) = x + Total(q)
<1> PICK n \in Nat : n = Len(q)
  OBVIOUS
<1> USE DEF Prepended
<1>1. PICK h : SumsOf(h, q) /\ Total(q) = h[n]
  BY TotalSums
<1>2. /\ h \in [0 .. n -> Int] /\ h[0] = 0 /\ \A k \in 1 .. n : h[k] = h[k - 1] + q[k]
  BY <1>1 DEF SumsOf
<1> DEFINE g == [k \in 0 .. n + 1 |-> IF k = 0 THEN 0 ELSE x + h[k - 1]]
<1>3. g \in [0 .. n + 1 -> Int] /\ g[0] = 0 /\ g[n + 1] = x + h[n]
  BY <1>2
<1>4. ASSUME NEW k \in 1 .. n + 1
      PROVE  g[k] = g[k - 1] + p[k]
  <2>1. CASE k = 1
    BY <1>2, <2>1
  <2>2. CASE k # 1
    <3>1. k - 1 \in 1 .. n /\ (k - 1) + 1 = k /\ k - 1 # 0 /\ k - 1 \in 0 .. n + 1 /\ k \in 0 .. n + 1 /\ k # 0
      BY <2>2
    <3>2. p[k] = q[k - 1] /\ h[k - 1] = h[(k - 1) - 1] + q[k - 1]
      BY <1>2, <3>1
    <3>3. g[k] = x + h[k - 1] /\ g[k - 1] = x + h[(k - 1) - 1]
      BY <3>1
    <3>4. h[(k - 1) - 1] \in Int /\ q[k - 1] \in Int
      <4>1. (k - 1) - 1 \in 0 .. n
        BY <3>1
      <4>2. q[k - 1] \in Int
        BY <3>1
      <4> QED
        BY <1>2, <4>1, <4>2
    <3> HIDE DEF g
    <3> QED
      BY SMTT(30), <3>2, <3>3, <3>4
  <2> QED
    BY <2>1, <2>2
<1> HIDE DEF g
<1>5. SumsOf(g, p)
  BY <1>3, <1>4 DEF SumsOf
<1>6. Total(p) = g[Len(p)]
  BY <1>5, TotalIs
<1> QED
  BY <1>1, <1>3, <1>6

LEMMA Halves ==
    ASSUME NEW n \in Nat, NEW k \in 1 .. 2 * n + 1
    PROVE  (\E i \in 1 .. n + 1 : k = 2 * i - 1) \/ \E i \in 1 .. n : k = 2 * i
<1>1. PICK d \in 0 .. n : k = 2 * d \/ k = 2 * d + 1
  <2>1. k \div 2 \in 0 .. n /\ (k = 2 * (k \div 2) \/ k = 2 * (k \div 2) + 1)
    OBVIOUS
  <2> QED
    BY <2>1
<1>2. CASE k = 2 * d
  <2>1. d \in 1 .. n
    BY <1>2
  <2> QED
    BY <1>2, <2>1
<1>3. CASE k = 2 * d + 1
  <2>1. d + 1 \in 1 .. n + 1 /\ k = 2 * (d + 1) - 1
    BY <1>3
  <2> QED
    BY <2>1
<1> QED
  BY <1>1, <1>2, <1>3

\* The sum of two sequences, one between the numbers of the other.
LEMMA TotalWoven ==
    ASSUME NEW n \in Nat, NEW p \in Seq(Int), Len(p) = 2 * n + 1,
           NEW h \in Seq(Int), Len(h) = n + 1, NEW t \in Seq(Int), Len(t) = n,
           \A i \in 1 .. n + 1 : p[2 * i - 1] = h[i],
           \A i \in 1 .. n : p[2 * i] = t[i]
    PROVE  Total(p) = Total(h) + Total(t)
<1>1. PICK H : SumsOf(H, h) /\ Total(h) = H[n + 1]
  BY TotalSums
<1>2. PICK T : SumsOf(T, t) /\ Total(t) = T[n]
  BY TotalSums
<1>3. /\ H \in [0 .. n + 1 -> Int] /\ H[0] = 0 /\ \A k \in 1 .. n + 1 : H[k] = H[k - 1] + h[k]
      /\ T \in [0 .. n -> Int] /\ T[0] = 0 /\ \A k \in 1 .. n : T[k] = T[k - 1] + t[k]
  BY <1>1, <1>2 DEF SumsOf
<1> DEFINE Up(k) == (k + 1) \div 2
           Down(k) == k \div 2
<1>4. /\ Up(0) = 0 /\ Down(0) = 0 /\ Up(2 * n + 1) = n + 1 /\ Down(2 * n + 1) = n
      /\ \A k \in 0 .. 2 * n + 1 : Up(k) \in 0 .. n + 1 /\ Down(k) \in 0 .. n
      /\ \A i \in 1 .. n + 1 : /\ Up(2 * i - 1) = i /\ Down(2 * i - 1) = i - 1
                               /\ Up((2 * i - 1) - 1) = i - 1 /\ Down((2 * i - 1) - 1) = i - 1
      /\ \A i \in 1 .. n : /\ Up(2 * i) = i /\ Down(2 * i) = i
                           /\ Up(2 * i - 1) = i /\ Down(2 * i - 1) = i - 1
  BY SMTT(30)
<1> HIDE DEF Up, Down
<1> DEFINE g == [k \in 0 .. 2 * n + 1 |-> H[Up(k)] + T[Down(k)]]
<1>5. g \in [0 .. 2 * n + 1 -> Int] /\ g[0] = 0 /\ g[2 * n + 1] = H[n + 1] + T[n]
  <2>1. ASSUME NEW k \in 0 .. 2 * n + 1
        PROVE  H[Up(k)] + T[Down(k)] \in Int
    <3>1. H[Up(k)] \in Int /\ T[Down(k)] \in Int
      BY <1>3, <1>4
    <3> QED
      BY <3>1
  <2>2. g \in [0 .. 2 * n + 1 -> Int]
    BY <2>1
  <2>3. 0 \in 0 .. 2 * n + 1 /\ 2 * n + 1 \in 0 .. 2 * n + 1
    OBVIOUS
  <2>4. g[0] = H[0] + T[0] /\ g[2 * n + 1] = H[n + 1] + T[n]
    BY <1>4, <2>3
  <2> HIDE DEF g
  <2> QED
    BY <1>3, <2>2, <2>4
<1>6. ASSUME NEW k \in 1 .. 2 * n + 1
      PROVE  g[k] = g[k - 1] + p[k]
  <2>1. k \in 0 .. 2 * n + 1 /\ k - 1 \in 0 .. 2 * n + 1
    OBVIOUS
  <2>2. g[k] = H[Up(k)] + T[Down(k)] /\ g[k - 1] = H[Up(k - 1)] + T[Down(k - 1)]
    BY <2>1
  <2> HIDE DEF g
  <2>3. CASE \E i \in 1 .. n + 1 : k = 2 * i - 1
    <3>1. PICK i \in 1 .. n + 1 : k = 2 * i - 1
      BY <2>3
    <3>2. g[k] = H[i] + T[i - 1] /\ g[k - 1] = H[i - 1] + T[i - 1]
      BY <1>4, <2>2, <3>1
    <3>3. H[i] = H[i - 1] + h[i] /\ p[k] = h[i]
      BY <1>3, <3>1
    <3>4. H[i - 1] \in Int /\ T[i - 1] \in Int /\ h[i] \in Int
      <4>1. i - 1 \in 0 .. n /\ i - 1 \in 0 .. n + 1
        BY <3>1
      <4>2. h[i] \in Int
        OBVIOUS
      <4> QED
        BY <1>3, <4>1, <4>2
    <3> QED
      BY SMTT(30), <3>2, <3>3, <3>4
  <2>4. CASE \E i \in 1 .. n : k = 2 * i
    <3>1. PICK i \in 1 .. n : k = 2 * i
      BY <2>4
    <3>2. g[k] = H[i] + T[i] /\ g[k - 1] = H[i] + T[i - 1]
      BY <1>4, <2>2, <3>1
    <3>3. T[i] = T[i - 1] + t[i] /\ p[k] = t[i]
      BY <1>3, <3>1
    <3>4. H[i] \in Int /\ T[i - 1] \in Int /\ t[i] \in Int
      <4>1. i - 1 \in 0 .. n /\ i \in 0 .. n + 1
        BY <3>1
      <4>2. t[i] \in Int
        OBVIOUS
      <4> QED
        BY <1>3, <4>1, <4>2
    <3>5. PICK x \in Int, y \in Int, z \in Int : x = H[i] /\ y = T[i - 1] /\ z = t[i]
      BY <3>4
    <3>6. g[k] = x + (y + z) /\ g[k - 1] = x + y /\ p[k] = z
      BY <3>2, <3>3, <3>5
    <3> QED
      BY <3>6
  <2> QED
    BY <2>3, <2>4, Halves
<1> HIDE DEF g
<1>7. SumsOf(g, p)
  BY <1>5, <1>6 DEF SumsOf
<1>8. Total(p) = g[Len(p)]
  BY <1>7, TotalIs
<1> QED
  BY <1>1, <1>2, <1>5, <1>8

-----------------------------------------------------------------------------
(* Routes laid along lanes, and folded again.                              *)

\* The first odd numbers: the places of the lanes among the pieces.
Odds(i) == {2 * j - 1 : j \in 1 .. i}

LEMMA OddsCount ==
    ASSUME NEW n \in Nat
    PROVE  IsFiniteSet(Odds(n)) /\ Cardinality(Odds(n)) = n
<1> DEFINE S == {i \in 1 .. n : IsFiniteSet(Odds(i)) /\ Cardinality(Odds(i)) = i}
<1>1. IsFiniteSet(Odds(0)) /\ Cardinality(Odds(0)) = 0
  <2>1. Odds(0) = {}
    BY DEF Odds
  <2> QED
    BY <2>1, FS_EmptySet
<1>2. ASSUME NEW i \in 0 .. n, IsFiniteSet(Odds(i)), Cardinality(Odds(i)) = i
      PROVE  IsFiniteSet(Odds(i + 1)) /\ Cardinality(Odds(i + 1)) = i + 1
  <2>1. Odds(i + 1) = Odds(i) \cup {2 * (i + 1) - 1}
    <3>1. 1 .. i + 1 = (1 .. i) \cup {i + 1}
      BY <1>2
    <3> QED
      BY <3>1 DEF Odds
  <2>2. 2 * (i + 1) - 1 \notin Odds(i)
    BY DEF Odds
  <2> QED
    BY <1>2, <2>1, <2>2, FS_AddElement
<1>3. 1 \in S \/ n = 0
  <2>1. 0 \in 0 .. n /\ 0 + 1 = 1
    OBVIOUS
  <2>2. IsFiniteSet(Odds(1)) /\ Cardinality(Odds(1)) = 1
    BY <1>1, <1>2, <2>1
  <2> QED
    BY <2>2
<1>4. \A i \in 1 .. n : i \in S /\ i + 1 <= n => i + 1 \in S
  BY <1>2
<1>5. 1 .. n \subseteq S
  <2> HIDE DEF S
  <2> QED
    BY <1>3, <1>4, UpTo
<1> QED
  BY <1>1, <1>5

\* The i-th of a set of places.
Place(S, i) == CHOOSE k \in S : Cardinality({j \in S : j < k}) = i - 1

LEMMA OddsBelow ==
    ASSUME NEW n \in Nat, NEW i \in 1 .. n
    PROVE  Place(Odds(n), i) = 2 * i - 1
<1>1. ASSUME NEW a \in 1 .. n
      PROVE  Cardinality({j \in Odds(n) : j < 2 * a - 1}) = a - 1
  <2>1. {j \in Odds(n) : j < 2 * a - 1} = Odds(a - 1)
    <3>1. \A b \in 1 .. n : 2 * b - 1 < 2 * a - 1 <=> b \in 1 .. a - 1
      OBVIOUS
    <3>2. 1 .. a - 1 \subseteq 1 .. n
      OBVIOUS
    <3> QED
      BY <3>1, <3>2 DEF Odds
  <2>2. a - 1 \in Nat
    OBVIOUS
  <2> QED
    BY <2>1, <2>2, OddsCount
<1>2. 2 * i - 1 \in Odds(n) /\ Cardinality({j \in Odds(n) : j < 2 * i - 1}) = i - 1
  BY <1>1 DEF Odds
<1>3. ASSUME NEW k \in Odds(n), Cardinality({j \in Odds(n) : j < k}) = i - 1
      PROVE  k = 2 * i - 1
  <2>1. PICK a \in 1 .. n : k = 2 * a - 1
    BY DEF Odds
  <2>2. a - 1 = i - 1
    BY <1>1, <1>3, <2>1
  <2> QED
    BY <2>1, <2>2
<1> QED
  BY <1>2, <1>3 DEF Place

\* The leg over the i-th of the lanes.
LegOf(m, lanes, i, s, t) ==
    Piece("lane", lanes[i], IF i = 1 THEN s ELSE 0, IF i = Len(lanes) THEN t ELSE m.len[lanes[i]])

\* q is laid along lanes, with a connector between two of them.
Laid(m, q, lanes, conns, s, t) ==
    LET n == Len(conns)
    IN  /\ n \in Nat /\ DOMAIN q = 1 .. 2 * n + 1 /\ Len(q) = 2 * n + 1
        /\ q = [k \in 1 .. 2 * n + 1 |-> q[k]]
        /\ \A i \in 1 .. n + 1 : 2 * i - 1 \in DOMAIN q /\ q[2 * i - 1] = LegOf(m, lanes, i, s, t)
        /\ \A i \in 1 .. n :
              2 * i \in DOMAIN q /\ q[2 * i] = Piece("connector", conns[i], 0, m.len[conns[i]])

LEMMA AlongIsLaid ==
    ASSUME NEW lanes, NEW conns, Joined(M, lanes, conns), NEW s, NEW t
    PROVE  Laid(M, Along(lanes, conns, s, t), lanes, conns, s, t)
<1> PICK n : n = Len(conns)
  OBVIOUS
<1> PICK q : q = Along(lanes, conns, s, t)
  OBVIOUS
<1>1. n \in Nat
  BY DEF Joined
<1>2. /\ DOMAIN q = 1 .. 2 * n + 1 /\ q = [k \in 1 .. 2 * n + 1 |-> q[k]]
      /\ \A k \in 1 .. 2 * n + 1 :
            q[k] = IF k % 2 = 0 THEN Piece("connector", conns[(k + 1) \div 2], 0, M.len[conns[(k + 1) \div 2]])
                   ELSE LegOf(M, lanes, (k + 1) \div 2, s, t)
  BY DEF Along, LegOf
<1>3. Len(q) = 2 * n + 1
  BY <1>1, <1>2
<1>4. ASSUME NEW i \in 1 .. n + 1
      PROVE  2 * i - 1 \in DOMAIN q /\ q[2 * i - 1] = LegOf(M, lanes, i, s, t)
  <2>1. 2 * i - 1 \in 1 .. 2 * n + 1 /\ ((2 * i - 1) + 1) \div 2 = i /\ (2 * i - 1) % 2 # 0
    BY <1>1
  <2> QED
    BY <1>2, <2>1
<1>5. ASSUME NEW i \in 1 .. n
      PROVE  2 * i \in DOMAIN q /\ q[2 * i] = Piece("connector", conns[i], 0, M.len[conns[i]])
  <2>1. 2 * i \in 1 .. 2 * n + 1 /\ (2 * i + 1) \div 2 = i /\ (2 * i) % 2 = 0
    BY <1>1
  <2> QED
    BY <1>2, <2>1
<1> QED
  BY <1>1, <1>2, <1>3, <1>4, <1>5 DEF Laid

\* What folding q yields has the lanes for legs and the connectors for turns.
Folds(m, q, lanes, conns, s, t) ==
    LET n == Len(conns)
    IN  /\ Foldable(q)
        /\ FromRoute(q).legs = [i \in 1 .. n + 1 |-> LegOf(m, lanes, i, s, t)]
        /\ DOMAIN FromRoute(q).turns = 1 .. n /\ Len(FromRoute(q).turns) = n
        /\ \A i \in 1 .. n : FromRoute(q).turns[i].conn = conns[i]

LEMMA FromLaid ==
    ASSUME NEW lanes, NEW conns, NEW s, NEW t, NEW q, NEW m, Laid(m, q, lanes, conns, s, t)
    PROVE  Folds(m, q, lanes, conns, s, t)
<1> PICK n : n = Len(conns)
  OBVIOUS
<1>1. /\ n \in Nat /\ DOMAIN q = 1 .. 2 * n + 1 /\ Len(q) = 2 * n + 1
      /\ \A i \in 1 .. n + 1 : 2 * i - 1 \in DOMAIN q /\ q[2 * i - 1] = LegOf(m, lanes, i, s, t)
      /\ \A i \in 1 .. n :
            2 * i \in DOMAIN q /\ q[2 * i] = Piece("connector", conns[i], 0, m.len[conns[i]])
  BY DEF Laid
<1>2. /\ \A i \in 1 .. n + 1 : IsLane(q[2 * i - 1])
      /\ \A i \in 1 .. n : ~IsLane(q[2 * i]) /\ q[2 * i].id = conns[i]
  <2>1. ASSUME NEW i \in 1 .. n + 1
        PROVE  IsLane(q[2 * i - 1])
    <3>1. q[2 * i - 1] = LegOf(m, lanes, i, s, t)
      BY <1>1
    <3>2. LegOf(m, lanes, i, s, t).kind = "lane"
      BY DEF LegOf, Piece
    <3> QED
      BY <3>1, <3>2 DEF IsLane
  <2>2. ASSUME NEW i \in 1 .. n
        PROVE  ~IsLane(q[2 * i]) /\ q[2 * i].id = conns[i]
    <3>1. q[2 * i] = Piece("connector", conns[i], 0, m.len[conns[i]])
      BY <1>1
    <3>2. q[2 * i].kind = "connector" /\ q[2 * i].id = conns[i]
      BY <3>1 DEF Piece
    <3> QED
      BY <3>2 DEF IsLane
  <2> QED
    BY <2>1, <2>2
<1> DEFINE odd == {k \in DOMAIN q : IsLane(q[k])}
           At(i) == Place(odd, i)
<1>3. odd = Odds(n + 1)
  <2>1. ASSUME NEW k \in DOMAIN q
        PROVE  IsLane(q[k]) <=> k \in Odds(n + 1)
    <3>1. CASE \E i \in 1 .. n + 1 : k = 2 * i - 1
      BY <1>2, <3>1 DEF Odds
    <3>2. CASE \E i \in 1 .. n : k = 2 * i
      <4>1. PICK i \in 1 .. n : k = 2 * i
        BY <3>2
      <4>2. k \notin Odds(n + 1)
        BY <1>1, <4>1 DEF Odds
      <4> QED
        BY <1>2, <4>1, <4>2
    <3> QED
      BY <1>1, <3>1, <3>2, Halves
  <2>2. Odds(n + 1) \subseteq DOMAIN q
    BY <1>1 DEF Odds
  <2> QED
    BY <2>1, <2>2
<1>4. n + 1 \in Nat /\ Cardinality(odd) = n + 1
  <2>1. n + 1 \in Nat
    BY <1>1
  <2> QED
    BY <1>3, <2>1, OddsCount
<1>5. \A i \in 1 .. n + 1 : At(i) = 2 * i - 1
  BY <1>3, <1>4, OddsBelow
<1>6. FromRoute(q) =
        [legs |-> [i \in 1 .. Cardinality(odd) |-> q[At(i)]],
         turns |-> [i \in 1 .. Cardinality(odd) - 1 |->
                       [conn |-> q[At(i + 1) - 1].id, from |-> q[At(i)].id, to |-> q[At(i + 1)].id]]]
  BY DEF FromRoute, Place
<1> HIDE DEF odd, At
<1>7. FromRoute(q).legs = [i \in 1 .. n + 1 |-> q[At(i)]]
  BY <1>4, <1>6
<1>8. FromRoute(q).legs = [i \in 1 .. n + 1 |-> LegOf(m, lanes, i, s, t)]
  BY <1>1, <1>5, <1>7
<1>9. FromRoute(q).turns = [i \in 1 .. n |->
         [conn |-> q[At(i + 1) - 1].id, from |-> q[At(i)].id, to |-> q[At(i + 1)].id]]
  <2>1. Cardinality(odd) - 1 = n
    BY <1>1, <1>4
  <2> QED
    BY <1>6, <2>1
<1>10. DOMAIN FromRoute(q).turns = 1 .. n /\ Len(FromRoute(q).turns) = n
  <2>1. DOMAIN FromRoute(q).turns = 1 .. n
    BY <1>9
  <2>2. Len(FromRoute(q).turns) = n
    BY <1>1, <1>9
  <2> QED
    BY <2>1, <2>2
<1>11. ASSUME NEW i \in 1 .. n
       PROVE  FromRoute(q).turns[i].conn = conns[i]
  <2>1. i + 1 \in 1 .. n + 1 /\ At(i + 1) - 1 = 2 * i
    <3>1. i + 1 \in 1 .. n + 1
      BY <1>1
    <3>2. (2 * (i + 1) - 1) - 1 = 2 * i
      BY <1>1
    <3> QED
      BY <1>5, <3>1, <3>2
  <2>2. FromRoute(q).turns[i].conn = q[2 * i].id
    BY <1>9, <2>1
  <2> QED
    BY <1>2, <2>2
<1>12. Foldable(q)
  <2>1. \E k \in DOMAIN q : IsLane(q[k])
    <3>1. 1 \in 1 .. n + 1 /\ 2 * 1 - 1 = 1
      BY <1>1
    <3> QED
      BY <1>1, <1>2, <3>1
  <2>2. ASSUME NEW k \in 2 .. Len(q), IsLane(q[k - 1]), IsLane(q[k])
        PROVE  FALSE
    <3>1. k \in DOMAIN q /\ k - 1 \in DOMAIN q
      BY <1>1
    <3>2. k \in Odds(n + 1) /\ k - 1 \in Odds(n + 1)
      BY <1>3, <2>2, <3>1 DEF odd
    <3> QED
      BY <1>1, <3>2 DEF Odds
  <2> QED
    BY <2>1, <2>2 DEF Foldable
<1> QED
  BY <1>8, <1>10, <1>11, <1>12 DEF Folds

LegLengths(m, lanes, s, t) == [i \in 1 .. Len(lanes) |-> PieceLength(LegOf(m, lanes, i, s, t))]
ConnLengths(m, conns) == [i \in 1 .. Len(conns) |-> m.len[conns[i]]]
\* The lanes and connectors lead from a to b, and are of that length.
Leads(m, lanes, conns, a, b, length) ==
    /\ Joined(m, lanes, conns)
    /\ lanes[1] = a.lane /\ lanes[Len(lanes)] = b.lane
    /\ length = Total(LegLengths(m, lanes, a.s, b.s)) + Total(ConnLengths(m, conns))

\* Lengths are whole numbers.
Measured(m) == \A s \in m.lanes \cup m.conns : m.len[s] \in Nat

Numbers(q, n) == n \in Nat /\ q \in Seq(Int) /\ Len(q) = n

LEMMA LengthTypes ==
    ASSUME NEW m, Measured(m), NEW lanes, NEW conns, Joined(m, lanes, conns), NEW s \in Int, NEW t \in Int
    PROVE  /\ Numbers(LegLengths(m, lanes, s, t), Len(conns) + 1)
           /\ Numbers(ConnLengths(m, conns), Len(conns))
<1>1. /\ Len(conns) \in Nat /\ Len(lanes) = Len(conns) + 1
      /\ \A i \in 1 .. Len(lanes) : lanes[i] \in m.lanes
      /\ \A i \in 1 .. Len(conns) : conns[i] \in m.conns
  BY DEF Joined
<1>2. ASSUME NEW i \in 1 .. Len(lanes)
      PROVE  PieceLength(LegOf(m, lanes, i, s, t)) \in Int
  <2>1. m.len[lanes[i]] \in Int
    BY <1>1 DEF Measured
  <2> QED
    BY <2>1 DEF LegOf, Piece, PieceLength
<1>3. ASSUME NEW i \in 1 .. Len(conns)
      PROVE  m.len[conns[i]] \in Int
  BY <1>1 DEF Measured
<1>4. LegLengths(m, lanes, s, t) \in Seq(Int) /\ Len(LegLengths(m, lanes, s, t)) = Len(lanes)
  <2> PICK n \in Nat : n = Len(lanes)
    BY <1>1
  <2> DEFINE q == [i \in 1 .. n |-> PieceLength(LegOf(m, lanes, i, s, t))]
  <2>1. q \in Seq(Int) /\ Len(q) = n
    BY <1>2
  <2> QED
    BY <2>1 DEF LegLengths
<1>5. ConnLengths(m, conns) \in Seq(Int) /\ Len(ConnLengths(m, conns)) = Len(conns)
  <2> PICK n \in Nat : n = Len(conns)
    BY <1>1
  <2> DEFINE q == [i \in 1 .. n |-> m.len[conns[i]]]
  <2>1. q \in Seq(Int) /\ Len(q) = n
    BY <1>3
  <2> QED
    BY <2>1 DEF ConnLengths
<1> QED
  BY <1>1, <1>4, <1>5 DEF Numbers

\* The length of the pieces is that of the lanes and that of the connectors.
LEMMA LaidLength ==
    ASSUME NEW m, Measured(m), NEW lanes, NEW conns, Joined(m, lanes, conns), NEW s \in Int, NEW t \in Int,
           NEW q, Laid(m, q, lanes, conns, s, t)
    PROVE  Length(q) = Total(LegLengths(m, lanes, s, t)) + Total(ConnLengths(m, conns))
<1> PICK n : n = Len(conns)
  OBVIOUS
<1> PICK h : h = LegLengths(m, lanes, s, t)
  OBVIOUS
<1> PICK c : c = ConnLengths(m, conns)
  OBVIOUS
<1>1. /\ h \in Seq(Int) /\ Len(h) = n + 1 /\ c \in Seq(Int) /\ Len(c) = n /\ n \in Nat
      /\ Len(lanes) = n + 1
  <2>1. Numbers(h, n + 1) /\ Numbers(c, n)
    BY LengthTypes
  <2> QED
    BY <2>1 DEF Numbers, Joined
<1>2. /\ DOMAIN q = 1 .. 2 * n + 1
      /\ \A i \in 1 .. n + 1 : 2 * i - 1 \in DOMAIN q /\ q[2 * i - 1] = LegOf(m, lanes, i, s, t)
      /\ \A i \in 1 .. n :
            2 * i \in DOMAIN q /\ q[2 * i] = Piece("connector", conns[i], 0, m.len[conns[i]])
  BY DEF Laid
<1> DEFINE p == [k \in DOMAIN q |-> PieceLength(q[k])]
<1>3. ASSUME NEW i \in 1 .. n + 1
      PROVE  2 * i - 1 \in DOMAIN q /\ p[2 * i - 1] = h[i] /\ h[i] \in Int
  <2>1. h[i] = PieceLength(LegOf(m, lanes, i, s, t)) /\ h[i] \in Int
    <3>1. h[i] = PieceLength(LegOf(m, lanes, i, s, t))
      BY <1>1 DEF LegLengths
    <3>2. h[i] \in Int
      BY <1>1
    <3> QED
      BY <3>1, <3>2
  <2> QED
    BY <1>2, <2>1
<1>4. ASSUME NEW i \in 1 .. n
      PROVE  2 * i \in DOMAIN q /\ p[2 * i] = c[i] /\ c[i] \in Int
  <2>1. c[i] = m.len[conns[i]]
    BY <1>1 DEF ConnLengths
  <2>2. c[i] \in Int
    BY <1>1
  <2>3. p[2 * i] = PieceLength(Piece("connector", conns[i], 0, m.len[conns[i]]))
    BY <1>2
  <2>4. p[2 * i] = m.len[conns[i]] - 0
    BY <2>3 DEF PieceLength, Piece
  <2> QED
    BY <1>2, <2>1, <2>2, <2>4
<1>5. p \in Seq(Int) /\ Len(p) = 2 * n + 1
  <2>1. ASSUME NEW k \in 1 .. 2 * n + 1
        PROVE  p[k] \in Int
    <3>1. (\E i \in 1 .. n + 1 : k = 2 * i - 1) \/ \E i \in 1 .. n : k = 2 * i
      BY <1>1, Halves
    <3> HIDE DEF p
    <3> QED
      BY <1>3, <1>4, <3>1
  <2>2. p = [k \in 1 .. 2 * n + 1 |-> p[k]] /\ 2 * n + 1 \in Nat
    BY <1>1, <1>2
  <2> HIDE DEF p
  <2>3. p \in [1 .. 2 * n + 1 -> Int]
    BY <2>1, <2>2
  <2> PICK N \in Nat : N = 2 * n + 1
    BY <2>2
  <2>4. p \in [1 .. N -> Int]
    BY <2>3
  <2>5. p \in Seq(Int) /\ Len(p) = N
    BY <2>4
  <2> QED
    BY <2>5
<1> HIDE DEF p
<1>6. Total(p) = Total(h) + Total(c)
  <2>1. (\A i \in 1 .. n + 1 : p[2 * i - 1] = h[i]) /\ \A i \in 1 .. n : p[2 * i] = c[i]
    BY <1>3, <1>4
  <2> QED
    BY ZenonT(60), <1>1, <1>5, <2>1, TotalWoven
<1> QED
  BY <1>6 DEF Length, p

\* A course that is laid like that leads there.
LEMMA CourseFollows ==
    ASSUME NEW lanes, NEW conns, Leads(M, lanes, conns, start, stop, total),
           Laid(M, pieces, lanes, conns, start.s, stop.s), course = FromRoute(pieces)
    PROVE  CourseLeads
<1> PICK n : n = Len(conns)
  OBVIOUS
<1>1. /\ n \in Nat /\ Len(lanes) = n + 1 /\ lanes[1] = start.lane /\ lanes[n + 1] = stop.lane
      /\ \A i \in 1 .. n : conns[i] \in Outgoing(M, lanes[i]) /\ M.to[conns[i]] = lanes[i + 1]
      /\ total = Total(LegLengths(M, lanes, start.s, stop.s)) + Total(ConnLengths(M, conns))
  BY DEF Leads, Joined
<1> PICK legs : legs = course.legs
  OBVIOUS
<1> PICK turns : turns = course.turns
  OBVIOUS
<1>2. /\ legs = [i \in 1 .. n + 1 |-> LegOf(M, lanes, i, start.s, stop.s)]
      /\ DOMAIN turns = 1 .. n /\ Len(turns) = n /\ \A i \in 1 .. n : turns[i].conn = conns[i]
  BY FromLaid DEF Folds
<1>3. /\ DOMAIN legs = 1 .. n + 1 /\ Len(legs) = n + 1 /\ Len(turns) = Len(legs) - 1
      /\ \A i \in 1 .. n + 1 :
            /\ legs[i].id = lanes[i]
            /\ legs[i].from = IF i = 1 THEN start.s ELSE 0
            /\ legs[i].upto = IF i = n + 1 THEN stop.s ELSE M.len[lanes[i]]
  <2>1. DOMAIN legs = 1 .. n + 1 /\ Len(legs) = n + 1
    BY <1>1, <1>2
  <2>2. Len(turns) = Len(legs) - 1
    BY <1>1, <1>2, <2>1
  <2>3. ASSUME NEW i \in 1 .. n + 1
        PROVE  /\ legs[i].id = lanes[i]
               /\ legs[i].from = IF i = 1 THEN start.s ELSE 0
               /\ legs[i].upto = IF i = n + 1 THEN stop.s ELSE M.len[lanes[i]]
    <3>1. legs[i] = LegOf(M, lanes, i, start.s, stop.s)
      BY <1>2
    <3> QED
      BY <1>1, <3>1 DEF LegOf, Piece
  <2> QED
    BY <2>1, <2>2, <2>3
<1>4. legs[1].id = start.lane /\ legs[1].from = start.s
  BY <1>1, <1>3
<1>5. legs[n + 1].id = stop.lane /\ legs[n + 1].upto = stop.s
  BY <1>1, <1>3
<1>6. ASSUME NEW i \in 1 .. n
      PROVE  /\ turns[i].conn \in Outgoing(M, legs[i].id) /\ M.to[turns[i].conn] = legs[i + 1].id
             /\ legs[i].upto = M.len[legs[i].id] /\ legs[i + 1].from = 0
  <2>1. i \in 1 .. n + 1 /\ i + 1 \in 1 .. n + 1 /\ i # n + 1 /\ i + 1 # 1
    BY <1>1
  <2> QED
    BY <1>1, <1>2, <1>3, <2>1
<1>7. Length(legs) = Total(LegLengths(M, lanes, start.s, stop.s))
  <2>1. [k \in DOMAIN legs |-> PieceLength(legs[k])] = LegLengths(M, lanes, start.s, stop.s)
    BY <1>1, <1>2 DEF LegLengths
  <2> QED
    BY <2>1 DEF Length
<1>8. [i \in DOMAIN turns |-> M.len[turns[i].conn]] = ConnLengths(M, conns)
  BY <1>2 DEF ConnLengths
<1>9. /\ Len(turns) = Len(legs) - 1 /\ Len(legs) = n + 1 /\ Len(legs) - 1 = n
      /\ total = Length(legs) + Total([i \in DOMAIN turns |-> M.len[turns[i].conn]])
  <2>1. Len(turns) = Len(legs) - 1 /\ Len(legs) = n + 1 /\ Len(legs) - 1 = n
    BY <1>1, <1>3
  <2> PICK x : x = [i \in DOMAIN turns |-> M.len[turns[i].conn]]
    OBVIOUS
  <2>2. total = Length(legs) + Total(x)
    BY <1>1, <1>7, <1>8
  <2> QED
    BY <2>1, <2>2
<1>10. /\ legs[Len(legs)].id = stop.lane /\ legs[Len(legs)].upto = stop.s
       /\ \A i \in 1 .. Len(legs) - 1 :
             /\ turns[i].conn \in Outgoing(M, legs[i].id)
             /\ M.to[turns[i].conn] = legs[i + 1].id
             /\ legs[i].upto = M.len[legs[i].id] /\ legs[i + 1].from = 0
  BY <1>5, <1>6, <1>9
<1> QED
  BY <1>4, <1>9, <1>10 DEF CourseLeads

-----------------------------------------------------------------------------
(* Ways followed back.                                                     *)

\* The end of a way, from the connector it is followed back to: each connector leads to the
\* lane it is with, and the next is one of that lane's.
Trail(m, ch, b) ==
    /\ ch \in Seq([lane : m.lanes, conn : m.conns]) /\ Len(ch) >= 1
    /\ ch[Len(ch)].lane = b.lane
    /\ \A i \in 1 .. Len(ch) : m.to[ch[i].conn] = ch[i].lane
    /\ \A i \in 1 .. Len(ch) - 1 : ch[i + 1].conn \in Outgoing(m, ch[i].lane)
TrailLegs(m, ch, t) == [i \in 1 .. Len(ch) |-> IF i = Len(ch) THEN t ELSE m.len[ch[i].lane]]
TrailConns(m, ch) == [i \in 1 .. Len(ch) |-> m.len[ch[i].conn]]
TrailLength(m, ch, t) == Total(TrailLegs(m, ch, t)) + Total(TrailConns(m, ch))

LEMMA SeqAt ==
    ASSUME NEW S, NEW q \in Seq(S)
    PROVE  Len(q) \in Nat /\ DOMAIN q = 1 .. Len(q) /\ \A i \in 1 .. Len(q) : q[i] \in S
OBVIOUS

LEMMA AsSeq ==
    ASSUME NEW S, NEW n \in Nat, NEW q \in [1 .. n -> S]
    PROVE  q \in Seq(S) /\ Len(q) = n
OBVIOUS

LEMMA OneIn ==
    ASSUME NEW S, NEW x \in S
    PROVE  <<x>> \in Seq(S) /\ Len(<<x>>) = 1 /\ <<x>>[1] = x
OBVIOUS

LEMMA TrailTypes ==
    ASSUME NEW m, Measured(m), NEW ch \in Seq([lane : m.lanes, conn : m.conns]), NEW t \in Int
    PROVE  /\ Numbers(TrailLegs(m, ch, t), Len(ch)) /\ Numbers(TrailConns(m, ch), Len(ch))
           /\ TrailLength(m, ch, t) \in Int
<1> PICK S : S = [lane : m.lanes, conn : m.conns]
  OBVIOUS
<1> PICK n \in Nat : n = Len(ch)
  BY SeqAt
<1> DEFINE p == [i \in 1 .. n |-> IF i = n THEN t ELSE m.len[ch[i].lane]]
           q == [i \in 1 .. n |-> m.len[ch[i].conn]]
<1>1. ASSUME NEW i \in 1 .. n
      PROVE  m.len[ch[i].lane] \in Int /\ m.len[ch[i].conn] \in Int
  <2>1. ch[i] \in [lane : m.lanes, conn : m.conns]
    BY SeqAt
  <2> QED
    BY <2>1 DEF Measured
<1>2. p \in Seq(Int) /\ Len(p) = n /\ q \in Seq(Int) /\ Len(q) = n
  BY <1>1
<1>3. p = TrailLegs(m, ch, t) /\ q = TrailConns(m, ch)
  BY DEF TrailLegs, TrailConns
<1> HIDE DEF p, q
<1> QED
  BY <1>2, <1>3, TotalInt DEF TrailLength, Numbers

LEMMA TrailOne ==
    ASSUME NEW m, Measured(m), NEW e \in [lane : m.lanes, conn : m.conns], NEW b,
           m.to[e.conn] = e.lane, e.lane = b.lane, b.s \in Int
    PROVE  Trail(m, <<e>>, b) /\ TrailLength(m, <<e>>, b.s) = b.s + m.len[e.conn]
<1> PICK ch : ch = <<e>>
  OBVIOUS
<1>1. ch \in Seq([lane : m.lanes, conn : m.conns]) /\ Len(ch) = 1 /\ ch[1] = e
  OBVIOUS
<1>2. Trail(m, ch, b)
  BY <1>1 DEF Trail
<1>3. m.len[e.conn] \in Int
  BY DEF Measured
<1>4. TrailLegs(m, ch, b.s) = <<b.s>>
  BY <1>1 DEF TrailLegs
<1>5. TrailConns(m, ch) = <<m.len[e.conn]>>
  BY <1>1 DEF TrailConns
<1>6. Total(<<b.s>>) = b.s
  BY TotalOne
<1>7. Total(<<m.len[e.conn]>>) = m.len[e.conn]
  BY <1>3, TotalOne
<1> QED
  BY <1>2, <1>4, <1>5, <1>6, <1>7 DEF TrailLength

LEMMA TrailMore ==
    ASSUME NEW m, Measured(m), NEW b, b.s \in Int, NEW ch, Trail(m, ch, b),
           NEW e \in [lane : m.lanes, conn : m.conns], m.to[e.conn] = e.lane,
           ch[1].conn \in Outgoing(m, e.lane)
    PROVE  /\ Trail(m, <<e>> \o ch, b)
           /\ TrailLength(m, <<e>> \o ch, b.s) =
                 m.len[e.lane] + m.len[e.conn] + TrailLength(m, ch, b.s)
<1> PICK S : S = [lane : m.lanes, conn : m.conns]
  OBVIOUS
<1> PICK d : d = <<e>> \o ch
  OBVIOUS
<1> PICK n \in Nat : n = Len(ch) /\ n >= 1
  <2>1. ch \in Seq([lane : m.lanes, conn : m.conns]) /\ Len(ch) >= 1
    BY DEF Trail
  <2>2. Len(ch) \in Nat
    BY <2>1, SeqAt
  <2> QED
    BY <2>1, <2>2
<1>1. /\ ch \in Seq(S) /\ d \in Seq(S) /\ Len(d) = n + 1 /\ d[1] = e
      /\ \A i \in 1 .. n : d[i + 1] = ch[i] /\ ch[i] \in S
  <2>1. ch \in Seq(S) /\ e \in S /\ <<e>> \in Seq(S) /\ Len(<<e>>) = 1 /\ <<e>>[1] = e
    BY DEF Trail
  <2>2. /\ d \in Seq(S) /\ Len(d) = 1 + n
        /\ \A i \in 1 .. 1 + n : d[i] = IF i <= 1 THEN <<e>>[i] ELSE ch[i - 1]
    BY <2>1, ConcatProperties
  <2>3. \A i \in 1 .. n : i + 1 \in 1 .. 1 + n /\ ~(i + 1 <= 1) /\ (i + 1) - 1 = i
    OBVIOUS
  <2>4. \A i \in 1 .. n : ch[i] \in S
    BY <2>1, SeqAt
  <2>5. d[1] = e
    BY <2>1, <2>2
  <2>6. \A i \in 1 .. n : d[i + 1] = ch[i]
    BY <2>2, <2>3
  <2> QED
    BY <2>1, <2>2, <2>4, <2>5, <2>6
<1>2. /\ ch[n].lane = b.lane
      /\ \A i \in 1 .. n : m.to[ch[i].conn] = ch[i].lane
      /\ \A i \in 1 .. n - 1 : ch[i + 1].conn \in Outgoing(m, ch[i].lane)
  BY DEF Trail
<1>3. \A j \in 1 .. n + 1 : j = 1 \/ (j - 1 \in 1 .. n /\ (j - 1) + 1 = j)
  OBVIOUS
<1>4. Trail(m, d, b)
  <2>1. d[n + 1].lane = b.lane
    BY <1>1, <1>2
  <2>2. ASSUME NEW j \in 1 .. n + 1
        PROVE  m.to[d[j].conn] = d[j].lane
    BY <1>1, <1>2, <1>3
  <2>3. ASSUME NEW j \in 1 .. n
        PROVE  d[j + 1].conn \in Outgoing(m, d[j].lane)
    <3>1. CASE j = 1
      BY <1>1, <3>1
    <3>2. CASE j # 1
      <4>1. j - 1 \in 1 .. n - 1 /\ (j - 1) + 1 = j
        BY <3>2
      <4>2. d[j] = ch[j - 1] /\ d[j + 1] = ch[j]
        BY <1>1, <4>1
      <4> QED
        BY <1>2, <4>1, <4>2
    <3> QED
      BY <3>1, <3>2
  <2>4. Len(d) - 1 = n /\ Len(d) >= 1
    BY <1>1
  <2> QED
    BY <1>1, <2>1, <2>2, <2>3, <2>4 DEF Trail
<1>5. m.len[e.lane] \in Int /\ m.len[e.conn] \in Int
  BY DEF Measured
<1>6. /\ TrailLegs(m, ch, b.s) \in Seq(Int) /\ Len(TrailLegs(m, ch, b.s)) = n
      /\ TrailConns(m, ch) \in Seq(Int) /\ Len(TrailConns(m, ch)) = n
      /\ TrailLegs(m, d, b.s) \in Seq(Int) /\ Len(TrailLegs(m, d, b.s)) = n + 1
      /\ TrailConns(m, d) \in Seq(Int) /\ Len(TrailConns(m, d)) = n + 1
  <2>1. /\ Numbers(TrailLegs(m, ch, b.s), Len(ch)) /\ Numbers(TrailConns(m, ch), Len(ch))
        /\ Numbers(TrailLegs(m, d, b.s), Len(d)) /\ Numbers(TrailConns(m, d), Len(d))
    BY <1>1, TrailTypes
  <2> QED
    BY <1>1, <2>1 DEF Numbers
<1>7. Total(TrailLegs(m, d, b.s)) = m.len[e.lane] + Total(TrailLegs(m, ch, b.s))
  <2>1. TrailLegs(m, d, b.s)[1] = m.len[e.lane]
    BY <1>1 DEF TrailLegs
  <2>2. ASSUME NEW k \in 1 .. n
        PROVE  TrailLegs(m, d, b.s)[k + 1] = TrailLegs(m, ch, b.s)[k]
    <3>1. k + 1 \in 1 .. n + 1 /\ (k + 1 = n + 1 <=> k = n)
      OBVIOUS
    <3> QED
      BY <1>1, <3>1 DEF TrailLegs
  <2>3. Prepended(TrailLegs(m, d, b.s), m.len[e.lane], TrailLegs(m, ch, b.s))
    BY <1>6, <2>1, <2>2 DEF Prepended
  <2> QED
    BY <1>5, <1>6, <2>3, TotalCons
<1>8. Total(TrailConns(m, d)) = m.len[e.conn] + Total(TrailConns(m, ch))
  <2>1. TrailConns(m, d)[1] = m.len[e.conn]
    BY <1>1 DEF TrailConns
  <2>2. ASSUME NEW k \in 1 .. n
        PROVE  TrailConns(m, d)[k + 1] = TrailConns(m, ch)[k]
    <3>1. k + 1 \in 1 .. n + 1
      OBVIOUS
    <3> QED
      BY <1>1, <3>1 DEF TrailConns
  <2>3. Prepended(TrailConns(m, d), m.len[e.conn], TrailConns(m, ch))
    BY <1>6, <2>1, <2>2 DEF Prepended
  <2> QED
    BY <1>5, <1>6, <2>3, TotalCons
<1>9. Total(TrailLegs(m, ch, b.s)) \in Int /\ Total(TrailConns(m, ch)) \in Int
  BY <1>6, TotalInt
<1>10. TrailLength(m, d, b.s) = m.len[e.lane] + m.len[e.conn] + TrailLength(m, ch, b.s)
  BY <1>5, <1>7, <1>8, <1>9 DEF TrailLength
<1> QED
  BY <1>4, <1>10

\* Followed back to a connector out of the lane of the start, it is a way from there.
LEMMA TrailJoins ==
    ASSUME NEW m, Measured(m), NEW a, a.lane \in m.lanes, a.s \in Int,
           NEW b, b.s \in Int, NEW ch, Trail(m, ch, b), ch[1].conn \in Outgoing(m, a.lane),
           NEW lanes, lanes = <<a.lane>> \o [i \in DOMAIN ch |-> ch[i].lane],
           NEW conns, conns = [i \in DOMAIN ch |-> ch[i].conn]
    PROVE  Leads(m, lanes, conns, a, b, (m.len[a.lane] - a.s) + TrailLength(m, ch, b.s))
<1> PICK n \in Nat : n = Len(ch) /\ n >= 1
  <2>1. ch \in Seq([lane : m.lanes, conn : m.conns]) /\ Len(ch) >= 1
    BY DEF Trail
  <2>2. Len(ch) \in Nat
    BY <2>1, SeqAt
  <2> QED
    BY <2>1, <2>2
<1>1. /\ DOMAIN ch = 1 .. n /\ \A i \in 1 .. n : ch[i].lane \in m.lanes /\ ch[i].conn \in m.conns
  <2>1. ch \in Seq([lane : m.lanes, conn : m.conns])
    BY DEF Trail
  <2>2. DOMAIN ch = 1 .. n /\ \A i \in 1 .. n : ch[i] \in [lane : m.lanes, conn : m.conns]
    BY <2>1, SeqAt
  <2> QED
    BY <2>2
<1>2. conns \in Seq(m.conns) /\ Len(conns) = n /\ \A i \in 1 .. n : conns[i] = ch[i].conn
  <2>1. conns \in [1 .. n -> m.conns]
    BY <1>1
  <2>2. \A i \in 1 .. n : conns[i] = ch[i].conn
    BY <1>1
  <2> QED
    BY <2>1, <2>2, AsSeq
<1>3. /\ lanes \in Seq(m.lanes) /\ Len(lanes) = n + 1 /\ lanes[1] = a.lane
      /\ \A i \in 1 .. n : lanes[i + 1] = ch[i].lane
  <2> PICK r : r = [i \in DOMAIN ch |-> ch[i].lane]
    OBVIOUS
  <2> PICK u : u = <<a.lane>>
    OBVIOUS
  <2>1. r \in Seq(m.lanes) /\ Len(r) = n /\ \A i \in 1 .. n : r[i] = ch[i].lane
    <3>1. r \in [1 .. n -> m.lanes]
      BY <1>1
    <3>2. \A i \in 1 .. n : r[i] = ch[i].lane
      BY <1>1
    <3> QED
      BY <3>1, <3>2, AsSeq
  <2>2. u \in Seq(m.lanes) /\ Len(u) = 1 /\ u[1] = a.lane /\ lanes = u \o r
    BY OneIn
  <2>3. /\ lanes \in Seq(m.lanes) /\ Len(lanes) = 1 + n
        /\ \A i \in 1 .. 1 + n : lanes[i] = IF i <= 1 THEN u[i] ELSE r[i - 1]
    BY <2>1, <2>2, ConcatProperties
  <2>4. \A i \in 1 .. n : i + 1 \in 1 .. 1 + n /\ ~(i + 1 <= 1) /\ (i + 1) - 1 = i
    OBVIOUS
  <2>5. lanes[1] = a.lane
    BY <2>2, <2>3
  <2> QED
    BY <2>1, <2>3, <2>4, <2>5
<1>4. /\ ch[n].lane = b.lane
      /\ \A i \in 1 .. n : m.to[ch[i].conn] = ch[i].lane
      /\ \A i \in 1 .. n - 1 : ch[i + 1].conn \in Outgoing(m, ch[i].lane)
  BY DEF Trail
<1>5. Joined(m, lanes, conns)
  <2>1. ASSUME NEW i \in 1 .. n
        PROVE  conns[i] \in Outgoing(m, lanes[i]) /\ m.to[conns[i]] = lanes[i + 1]
    <3>1. CASE i = 1
      BY <1>2, <1>3, <1>4, <3>1
    <3>2. CASE i # 1
      <4>1. i - 1 \in 1 .. n - 1 /\ i - 1 \in 1 .. n /\ (i - 1) + 1 = i
        BY <3>2
      <4>2. lanes[i] = ch[i - 1].lane /\ ch[i].conn \in Outgoing(m, ch[i - 1].lane)
        BY <1>3, <1>4, <4>1
      <4> QED
        BY <1>2, <1>3, <1>4, <4>2
    <3> QED
      BY <3>1, <3>2
  <2> QED
    BY <1>2, <1>3, <2>1 DEF Joined
<1>6. lanes[Len(lanes)] = b.lane
  BY <1>3, <1>4
<1> PICK h : h = LegLengths(m, lanes, a.s, b.s)
  OBVIOUS
<1> PICK p : p = TrailLegs(m, ch, b.s)
  OBVIOUS
<1>7. ch \in Seq([lane : m.lanes, conn : m.conns])
  BY DEF Trail
<1>8. h \in Seq(Int) /\ Len(h) = n + 1 /\ p \in Seq(Int) /\ Len(p) = n
  <2>1. Numbers(h, n + 1)
    <3>1. Numbers(h, Len(conns) + 1)
      BY <1>5, LengthTypes
    <3> QED
      BY <1>2, <3>1
  <2>2. Numbers(p, n)
    BY <1>7, TrailTypes
  <2> QED
    BY <2>1, <2>2 DEF Numbers
<1>9. m.len[a.lane] \in Int /\ \A i \in 1 .. n : m.len[ch[i].lane] \in Int
  BY <1>1 DEF Measured
<1>10. Total(h) = (m.len[a.lane] - a.s) + Total(p)
  <2>1. h[1] = m.len[a.lane] - a.s
    <3>1. h[1] = PieceLength(LegOf(m, lanes, 1, a.s, b.s))
      BY <1>3 DEF LegLengths
    <3> QED
      BY <1>3, <3>1 DEF LegOf, Piece, PieceLength
  <2>2. ASSUME NEW k \in 1 .. n
        PROVE  h[k + 1] = p[k]
    <3>1. k + 1 \in 1 .. n + 1 /\ (k + 1 = n + 1 <=> k = n) /\ k + 1 # 1
      OBVIOUS
    <3>2. h[k + 1] = PieceLength(LegOf(m, lanes, k + 1, a.s, b.s))
      BY <1>3, <3>1 DEF LegLengths
    <3>3. h[k + 1] = (IF k = n THEN b.s ELSE m.len[ch[k].lane]) - 0
      BY <1>3, <3>1, <3>2 DEF LegOf, Piece, PieceLength
    <3>4. p[k] = IF k = n THEN b.s ELSE m.len[ch[k].lane]
      BY DEF TrailLegs
    <3> QED
      BY <1>9, <3>3, <3>4
  <2> PICK x \in Int : x = m.len[a.lane] - a.s
    BY <1>9
  <2>3. Prepended(h, x, p)
    BY <1>8, <2>1, <2>2 DEF Prepended
  <2>4. Total(h) = x + Total(p)
    BY <1>8, <2>3, TotalCons
  <2> QED
    BY <2>4
<1>11. ConnLengths(m, conns) = TrailConns(m, ch)
  BY <1>1, <1>2 DEF ConnLengths, TrailConns
<1>12. Total(p) \in Int /\ Total(TrailConns(m, ch)) \in Int
  BY <1>7, <1>8, TotalInt, TrailTypes DEF Numbers
<1>13. (m.len[a.lane] - a.s) + TrailLength(m, ch, b.s) = Total(h) + Total(ConnLengths(m, conns))
  BY <1>9, <1>10, <1>11, <1>12 DEF TrailLength
<1> QED
  BY <1>3, <1>5, <1>6, <1>13 DEF Leads

-----------------------------------------------------------------------------
(* The course leads to the stop.                                           *)

RoutesInv ==
    pc \notin {"boot", "refused"} => \A i \in DOMAIN site.routes : Connected(M, site.routes[i])

\* The entry of l in prev says where its distance comes from.
Stems(l) ==
    LET p == prev[l]
    IN  /\ p.lane \in M.lanes /\ p.conn \in Outgoing(M, p.lane) /\ M.to[p.conn] = l
        /\ \/ p.lane = start.lane /\ dist[l] = Base0 + M.len[p.conn]
           \/ /\ p.lane # start.lane /\ p.lane \in settled
              /\ dist[l] = dist[p.lane] + M.len[p.lane] + M.len[p.conn]
PrevInv ==
    /\ DOMAIN prev = M.lanes
    /\ dist \in [M.lanes -> Nat \cup {Unreached}]
    /\ \A l \in M.lanes : dist[l] # Unreached => Stems(l)
RestInv == ToSet(rest) \subseteq Outgoing(M, via)

\* What has been followed back, from a lane whose entry is the first connector.
TraceInv ==
    /\ Trail(M, chain, stop)
    /\ chain[1].lane \in M.lanes /\ dist[chain[1].lane] # Unreached
    /\ chain[1].conn = prev[chain[1].lane].conn
    /\ total = dist[chain[1].lane] - M.len[chain[1].conn] + TrailLength(M, chain, stop.s)

\* The pieces of the route lead to the stop.
PiecesInv ==
    \E lanes, conns :
        Leads(M, lanes, conns, start, stop, total) /\ Laid(M, pieces, lanes, conns, start.s, stop.s)

RouteInv ==
    /\ RoutesInv
    /\ pc \in {"search", "trace"} => PrevInv
    /\ pc = "search" => RestInv
    /\ pc = "trace" => TraceInv
    /\ pc \in {"fold", "driving"} => PiecesInv
    /\ pc = "driving" => course = FromRoute(pieces)

LEMMA RouteInit == Init => RouteInv
BY DEF Init, RouteInv, RoutesInv

LEMMA RouteBoot == ASSUME Inv, RouteInv, Boot PROVE RouteInv'
<1>1. pc' \in {"plan", "refused"} /\ site' = site /\ M' = M
  BY DEF Boot, mission, M
<1>2. pc' = "plan" => \A i \in DOMAIN site.routes : Connected(M, site.routes[i])
  BY DEF Boot
<1> QED
  BY <1>1, <1>2 DEF RouteInv, RoutesInv

LEMMA MeasuredMap == MapInv => Measured(M)
BY MapFacts DEF Measured

\* One lane ahead, and no connector.
LEMMA AheadLeads ==
    ASSUME NEW m, NEW a, NEW b, a.lane \in m.lanes, a.lane = b.lane, a.s \in Int, b.s \in Int
    PROVE  /\ Leads(m, <<a.lane>>, <<>>, a, b, b.s - a.s)
           /\ Laid(m, <<Piece("lane", a.lane, a.s, b.s)>>, <<a.lane>>, <<>>, a.s, b.s)
<1> PICK lanes : lanes = <<a.lane>>
  OBVIOUS
<1> PICK conns : conns = <<>>
  OBVIOUS
<1> PICK q : q = <<Piece("lane", a.lane, a.s, b.s)>>
  OBVIOUS
<1>1. lanes \in Seq(m.lanes) /\ Len(lanes) = 1 /\ lanes[1] = a.lane
  BY OneIn
<1>2. conns \in Seq(m.conns) /\ Len(conns) = 0 /\ DOMAIN conns = {} /\ 1 .. 0 = {}
  OBVIOUS
<1>3. Joined(m, lanes, conns)
  BY <1>1, <1>2 DEF Joined
<1>4. LegOf(m, lanes, 1, a.s, b.s) = Piece("lane", a.lane, a.s, b.s)
  BY <1>1 DEF LegOf
<1>5. LegLengths(m, lanes, a.s, b.s) = <<b.s - a.s>>
  <2>1. LegLengths(m, lanes, a.s, b.s) = [i \in 1 .. 1 |-> PieceLength(LegOf(m, lanes, i, a.s, b.s))]
    BY <1>1 DEF LegLengths
  <2>2. PieceLength(LegOf(m, lanes, 1, a.s, b.s)) = b.s - a.s
    BY <1>4 DEF PieceLength, Piece
  <2> QED
    BY <2>1, <2>2
<1>6. Total(LegLengths(m, lanes, a.s, b.s)) = b.s - a.s
  <2>1. b.s - a.s \in Int
    OBVIOUS
  <2> QED
    BY <1>5, <2>1, TotalOne
<1>7. Total(ConnLengths(m, conns)) = 0
  <2>1. ConnLengths(m, conns) = <<>>
    BY <1>2 DEF ConnLengths
  <2> QED
    BY <2>1 DEF Total
<1>8. Leads(m, lanes, conns, a, b, b.s - a.s)
  BY <1>1, <1>3, <1>6, <1>7 DEF Leads
<1>9. Laid(m, q, lanes, conns, a.s, b.s)
  <2>1. DOMAIN q = 1 .. 1 /\ Len(q) = 1 /\ q[1] = LegOf(m, lanes, 1, a.s, b.s) /\ q = [k \in 1 .. 1 |-> q[k]]
    BY <1>4
  <2>2. 2 * 0 + 1 = 1 /\ 0 + 1 = 1 /\ 2 * 1 - 1 = 1 /\ 1 .. 1 = {1}
    OBVIOUS
  <2> QED
    BY <1>2, <2>1, <2>2 DEF Laid
<1> QED
  BY <1>8, <1>9

LEMMA RoutePlan == ASSUME Inv, RouteInv, Plan, Inv' PROVE RouteInv'
<1>1. pc = "plan" /\ site' = site /\ M' = M /\ MapInv /\ ReferencesOk(M) /\ Measured(M)
  BY MeasuredMap DEF Plan, Inv, MapInv, M
<1>2. RoutesInv' /\ \A i \in DOMAIN site.routes : Connected(M, site.routes[i])
  BY <1>1 DEF RouteInv, RoutesInv
<1>3. PICK p : /\ stop' = [lane |-> p.lane, s |-> p.s]
               /\ LET nums == ForcedRoute(start'.lane, p.lane)
                      ahead == start'.lane = p.lane /\ p.s >= start'.s
                  IN  \/ nums # <<>> /\ PlanViaNumbers(nums)
                      \/ nums = <<>> /\ ahead /\ PlanAhead
                      \/ nums = <<>> /\ ~ahead /\ PlanSearch
  BY DEF Plan
<1>4. pc' \in {"search", "fold"}
  BY <1>3 DEF PlanViaNumbers, PlanAhead, PlanSearch
<1> PICK a : a = start'
  OBVIOUS
<1> PICK b : b = stop'
  OBVIOUS
<1>5. a.lane \in M.lanes /\ a.s \in Int /\ b.lane \in M.lanes /\ b.s \in Int
  <2>1. PlannedInv'
    BY DEF Inv
  <2>2. M.len[a.lane] \in Nat
    BY <1>1, <1>4, <2>1, MapFacts DEF PlannedInv
  <2> QED
    BY <1>1, <1>4, <2>1, <2>2 DEF PlannedInv
<1>6. ASSUME NEW nums, nums = ForcedRoute(a.lane, b.lane), nums # <<>>, PlanViaNumbers(nums)
      PROVE  RouteInv'
  <2> PICK conns : conns = Links(M, nums)
    OBVIOUS
  <2>1. Joined(M, nums, conns) /\ nums[1] = a.lane /\ nums[Len(nums)] = b.lane
    BY <1>1, <1>2, <1>6, ForcedFacts
  <2> PICK q : q = Along(nums, conns, a.s, b.s)
    OBVIOUS
  <2>2. pieces' = q /\ total' = Length(q) /\ pc' = "fold"
    BY <1>6 DEF PlanViaNumbers, Links
  <2>3. Laid(M, q, nums, conns, a.s, b.s)
    BY <2>1, AlongIsLaid
  <2>4. Leads(M, nums, conns, a, b, Length(q))
    BY <1>1, <1>5, <2>1, <2>3, LaidLength DEF Leads
  <2>5. PiecesInv'
    BY <1>1, <2>2, <2>3, <2>4 DEF PiecesInv
  <2> QED
    BY <1>2, <2>2, <2>5 DEF RouteInv
<1>7. CASE PlanAhead /\ a.lane = b.lane
  <2>1. /\ pieces' = <<Piece("lane", a.lane, a.s, b.s)>> /\ total' = b.s - a.s /\ pc' = "fold"
    BY <1>7 DEF PlanAhead
  <2>2. /\ Leads(M, <<a.lane>>, <<>>, a, b, b.s - a.s)
        /\ Laid(M, <<Piece("lane", a.lane, a.s, b.s)>>, <<a.lane>>, <<>>, a.s, b.s)
    BY <1>5, <1>7, AheadLeads
  <2>3. PiecesInv'
    BY <1>1, <2>1, <2>2 DEF PiecesInv
  <2> QED
    BY <1>2, <2>1, <2>3 DEF RouteInv
<1>8. CASE PlanSearch
  <2>1. /\ dist' = [l \in M.lanes |-> Unreached] /\ prev' = [l \in M.lanes |-> NoStep]
        /\ via' = a.lane /\ rest' = M.succ[a.lane] /\ pc' = "search"
    BY <1>8 DEF PlanSearch
  <2>2. PrevInv'
    BY <1>1, <2>1 DEF PrevInv, Unreached
  <2>3. RestInv'
    <3>1. ToSet(M.succ[a.lane]) = Outgoing(M, a.lane)
      BY <1>1, <1>5, LaneFacts
    <3> QED
      BY <1>1, <2>1, <3>1 DEF RestInv
  <2> QED
    BY <1>2, <2>1, <2>2, <2>3 DEF RouteInv
<1>9. b.lane = p.lane
  BY <1>3
<1> QED
  BY <1>3, <1>6, <1>7, <1>8, <1>9

LEMMA RouteRelax == ASSUME Inv, RouteInv, Relax PROVE RouteInv'
<1> PICK c : c = Head(rest)
  OBVIOUS
<1> DEFINE cost == base + M.len[c]
           l == M.to[c]
<1>1. /\ pc = "search" /\ pc' = "search" /\ rest # <<>> /\ rest' = Tail(rest)
      /\ UNCHANGED <<mission, settled, via, base, total>> /\ M' = M
  BY DEF Relax, mission, M
<1>2. /\ MapInv /\ PlannedInv /\ ReferencesOk(M)
      /\ SearchTypes /\ FrontInv /\ RelaxedInv /\ OrderInv /\ HeapInv
      /\ PrevInv /\ RestInv /\ RoutesInv
  BY <1>1 DEF Inv, MapInv, SearchInv, RouteInv
<1>3. RoutesInv'
  BY <1>1, <1>2 DEF RoutesInv, mission
<1>4. c \in M.conns /\ c \in Outgoing(M, via) /\ ToSet(rest') \subseteq ToSet(rest)
  <2>1. c \in M.conns /\ c \in ToSet(rest) /\ rest' \in Seq(M.conns)
    BY <1>1, <1>2, HeadTail DEF SearchTypes
  <2>2. ToSet(rest') \subseteq ToSet(rest)
    <3>1. ASSUME NEW i \in DOMAIN rest'
          PROVE  rest'[i] \in ToSet(rest)
      <4>1. i + 1 \in DOMAIN rest /\ rest'[i] = rest[i + 1]
        BY <1>1, <1>2 DEF SearchTypes
      <4> QED
        BY <4>1 DEF ToSet
    <3> QED
      BY <3>1 DEF ToSet
  <2> QED
    BY <1>2, <2>1, <2>2 DEF RestInv
<1>5. RestInv'
  BY <1>1, <1>2, <1>4 DEF RestInv, Outgoing
<1>6. l \in M.lanes /\ M.len[c] \in Nat /\ cost \in Nat /\ cost >= base /\ base \in Nat /\ via \in M.lanes
  BY <1>2, <1>4, MapFacts DEF ReferencesOk, SearchTypes
<1>7. CASE Improves(cost, l)
  <2>1. /\ l \notin settled /\ (dist[l] = Unreached \/ cost < dist[l])
        /\ dist' = [dist EXCEPT ![l] = cost]
        /\ prev' = [prev EXCEPT ![l] = [lane |-> via, conn |-> c]]
    BY <1>7 DEF Relax, Improves
  <2>2. /\ dist' \in [M.lanes -> Nat \cup {Unreached}] /\ DOMAIN prev' = M.lanes
        /\ dist'[l] = cost /\ prev'[l] = [lane |-> via, conn |-> c]
        /\ \A k \in M.lanes \ {l} : dist'[k] = dist[k] /\ prev'[k] = prev[k]
        /\ \A k \in settled : k \in M.lanes /\ dist'[k] = dist[k]
    BY <1>2, <1>6, <2>1 DEF SearchTypes, PrevInv
  <2>3. via # start.lane \/ base = Base0
    <3>1. SUFFICES ASSUME via = start.lane, via \in settled, base = dist[via] + M.len[via]
                   PROVE  FALSE
      BY <1>2 DEF FrontInv
    <3>2. Relaxed(Base0, c)
      BY <1>2, <1>4, <3>1 DEF RelaxedInv
    <3>3. /\ dist[via] \in Nat /\ M.len[via] \in Nat /\ start.s \in Nat
      BY <1>1, <1>2, <1>6, <3>1, MapFacts DEF SearchTypes, OrderInv, PlannedInv
    <3>4. dist[l] \in Nat /\ dist[l] <= Base0 + M.len[c] /\ dist[l] # Unreached
      BY <1>2, <1>6, <3>2 DEF Relaxed, SearchTypes
    <3>5. cost < dist[l]
      BY <2>1, <3>4
    <3> QED
      BY <1>6, <3>1, <3>3, <3>4, <3>5 DEF Base0
  <2>4. via = start.lane \/ (via \in settled /\ base = dist[via] + M.len[via])
    BY <1>2 DEF FrontInv
  <2>5. ASSUME NEW k \in M.lanes, dist'[k] # Unreached
        PROVE  Stems(k)'
    <3>1. CASE k = l
      <4>1. prev'[k].lane = via /\ prev'[k].conn = c
        BY <2>2, <3>1
      <4>2. CASE via = start.lane
        BY <1>1, <1>4, <1>6, <2>2, <2>3, <3>1, <4>1, <4>2 DEF Stems, Outgoing, Base0, mission
      <4>3. CASE via # start.lane
        <5>1. via \in settled' /\ start' = start /\ dist'[via] = dist[via]
          BY <1>1, <2>2, <2>4, <4>3 DEF mission
        <5>2. dist'[k] = dist'[via] + M.len[via] + M.len[c]
          BY <2>2, <2>4, <3>1, <4>3, <5>1
        <5>3. M'.to[c] = k /\ c \in Outgoing(M', via) /\ via \in M'.lanes /\ M' = M
          BY <1>1, <1>4, <1>6, <3>1
        <5> QED
          BY <4>1, <4>3, <5>1, <5>2, <5>3 DEF Stems
      <4> QED
        BY <4>2, <4>3
    <3>2. CASE k # l
      <4>1. Stems(k) /\ dist'[k] = dist[k] /\ prev'[k] = prev[k]
        BY <1>2, <2>2, <2>5, <3>2 DEF PrevInv
      <4>2. M' = M /\ start' = start /\ Base0' = Base0 /\ \A a \in settled : a \in settled' /\ dist'[a] = dist[a]
        BY <1>1, <2>2 DEF Base0, mission
      <4> QED
        BY <4>1, <4>2 DEF Stems, Outgoing
    <3> QED
      BY <3>1, <3>2
  <2>6. PrevInv'
    BY <1>1, <2>2, <2>5 DEF PrevInv
  <2> QED
    BY <1>1, <1>3, <1>5, <2>6 DEF RouteInv
<1>8. CASE ~Improves(cost, l)
  <2>1. UNCHANGED <<dist, prev>>
    BY <1>8 DEF Relax
  <2>2. PrevInv'
    BY SMTT(30), <1>1, <1>2, <2>1 DEF PrevInv, Stems, Outgoing, Base0, mission
  <2> QED
    BY <1>1, <1>3, <1>5, <2>2 DEF RouteInv
<1> QED
  BY <1>7, <1>8

LEMMA RoutePop == ASSUME Inv, RouteInv, Pop PROVE RouteInv'
<1>1. /\ pc = "search" /\ rest = <<>> /\ UNCHANGED <<mission, dist, prev, pieces, course>> /\ M' = M
  BY DEF Pop, mission, M
<1>2. /\ MapInv /\ PlannedInv /\ ReferencesOk(M) /\ Measured(M)
      /\ SearchTypes /\ HeapInv /\ PrevInv /\ RestInv /\ RoutesInv
  BY <1>1, MeasuredMap DEF Inv, MapInv, SearchInv, RouteInv
<1>3. RoutesInv'
  BY <1>1, <1>2 DEF RoutesInv, mission
<1>4. settled \subseteq settled' => PrevInv'
  BY <1>1, <1>2 DEF PrevInv, Stems, Outgoing, Base0, mission
<1>5. CASE heap = {}
  <2>1. pc' = "error"
    BY <1>5 DEF Pop, NoRoute
  <2> QED
    BY <1>3, <2>1 DEF RouteInv
<1>6. CASE heap # {}
  <2>1. PICK e \in heap : Skip(e) \/ Found(e) \/ Settle(e)
    BY <1>6 DEF Pop
  <2>2. e.d \in Nat /\ e.lane \in M.lanes
    BY <1>2 DEF SearchTypes
  <2>3. CASE Skip(e)
    <3>1. pc' = "search" /\ UNCHANGED <<settled, via, rest>>
      BY <1>1, <2>3 DEF Skip
    <3>2. RestInv'
      BY <1>1, <1>2, <3>1 DEF RestInv, Outgoing
    <3> QED
      BY <1>3, <1>4, <3>1, <3>2 DEF RouteInv
  <2>4. CASE Settle(e)
    <3>1. pc' = "search" /\ settled \subseteq settled' /\ via' = e.lane /\ rest' = M.succ[e.lane]
      BY <1>1, <2>4 DEF Settle
    <3>2. RestInv'
      BY <1>1, <3>1 DEF RestInv, Outgoing, ToSet
    <3> QED
      BY <1>3, <1>4, <3>1, <3>2 DEF RouteInv
  <2>5. CASE Found(e)
    <3> PICK f : f = [lane |-> e.lane, conn |-> prev[e.lane].conn]
      OBVIOUS
    <3>1. /\ pc' = "trace" /\ total' = e.d + stop.s /\ settled' = settled /\ chain' = <<f>>
          /\ e.lane \notin settled /\ e.lane = stop.lane /\ ~(e.d > dist[e.lane])
      BY <2>5 DEF Found, Outdated
    <3>2. dist[e.lane] # Unreached /\ dist[e.lane] = e.d
      BY <1>2, <2>2, <3>1 DEF HeapInv, SearchTypes, Unreached
    <3>3. Stems(e.lane)
      BY <1>2, <2>2, <3>2 DEF PrevInv
    <3>4. f.lane = e.lane /\ f.conn = prev[e.lane].conn /\ M.to[f.conn] = f.lane /\ f.conn \in M.conns
      <4>1. prev[e.lane].conn \in M.conns
        BY <1>2, <3>3, LaneFacts DEF Stems
      <4> QED
        BY <3>3, <4>1 DEF Stems
    <3>5. f \in [lane : M.lanes, conn : M.conns]
      BY <2>2, <3>4
    <3>6. stop.s \in Int
      BY <1>1, <1>2 DEF PlannedInv
    <3>7. Trail(M, chain', stop) /\ TrailLength(M, chain', stop.s) = stop.s + M.len[f.conn]
      BY <1>2, <3>1, <3>4, <3>5, <3>6, TrailOne
    <3>8. chain'[1] = f
      BY <3>1
    <3>9. M.len[f.conn] \in Int
      BY <1>2, <3>4 DEF Measured
    <3>10. TraceInv'
      <4>1. total' = dist[f.lane] - M.len[f.conn] + TrailLength(M, chain', stop.s)
        BY <2>2, <3>1, <3>2, <3>4, <3>6, <3>7, <3>9
      <4> QED
        BY <1>1, <2>2, <3>2, <3>4, <3>7, <3>8, <4>1 DEF TraceInv, mission
    <3> QED
      BY <1>3, <1>4, <3>1, <3>10 DEF RouteInv
  <2> QED
    BY <2>1, <2>3, <2>4, <2>5
<1> QED
  BY <1>5, <1>6

LEMMA RouteTrace == ASSUME Inv, RouteInv, Trace PROVE RouteInv'
<1> PICK p : p = prev[Head(chain).lane]
  OBVIOUS
<1>1. pc = "trace" /\ UNCHANGED <<mission, search, total, course>> /\ M' = M
  BY DEF Trace, mission, M
<1>2. /\ MapInv /\ PlannedInv /\ ReferencesOk(M) /\ Measured(M) /\ Closed
      /\ PrevInv /\ TraceInv /\ RoutesInv
  BY <1>1, MeasuredMap DEF Inv, MapInv, PlannedInv, RouteInv
<1>3. RoutesInv'
  BY <1>1, <1>2 DEF RoutesInv, mission, Trace
<1> PICK e : e = chain[1]
  OBVIOUS
<1>4. /\ Head(chain) = e /\ e.lane \in M.lanes /\ dist[e.lane] # Unreached /\ p = prev[e.lane]
      /\ e.conn = p.conn /\ Stems(e.lane)
  <2>1. Head(chain) = chain[1]
    BY <1>2 DEF TraceInv, Trail
  <2> QED
    BY <1>2, <2>1 DEF TraceInv, PrevInv
<1>5. /\ p.lane \in M.lanes /\ e.conn \in Outgoing(M, p.lane) /\ M.to[p.conn] = e.lane
      /\ \/ p.lane = start.lane /\ dist[e.lane] = Base0 + M.len[p.conn]
         \/ /\ p.lane # start.lane /\ p.lane \in settled
            /\ dist[e.lane] = dist[p.lane] + M.len[p.lane] + M.len[p.conn]
  BY <1>4 DEF Stems
<1>6. /\ stop.s \in Int /\ start.s \in Int /\ start.lane \in M.lanes
      /\ M.len[start.lane] \in Int /\ M.len[p.lane] \in Int
  <2>1. M.len[start.lane] \in Nat /\ M.len[p.lane] \in Nat
    BY <1>1, <1>2, <1>5 DEF PlannedInv, Measured
  <2> QED
    BY <1>1, <1>2, <2>1 DEF PlannedInv
<1>7. M.len[p.conn] \in Int /\ p.conn \in M.conns
  <2>1. p.conn \in M.conns
    BY <1>2, <1>4, <1>5, LaneFacts
  <2> QED
    BY <1>2, <2>1 DEF Measured
<1>8. Trail(M, chain, stop) /\ total = dist[e.lane] - M.len[p.conn] + TrailLength(M, chain, stop.s)
  BY <1>2, <1>4 DEF TraceInv
<1>9. TrailLength(M, chain, stop.s) \in Int
  BY <1>2, <1>6, <1>8, TrailTypes DEF Trail
<1>10. CASE p.lane = start.lane
  <2> PICK lanes : lanes = <<start.lane>> \o [i \in DOMAIN chain |-> chain[i].lane]
    OBVIOUS
  <2> PICK conns : conns = [i \in DOMAIN chain |-> chain[i].conn]
    OBVIOUS
  <2>1. pc' = "fold" /\ pieces' = Along(lanes, conns, start.s, stop.s)
    BY <1>10 DEF Trace
  <2>2. Leads(M, lanes, conns, start, stop, (M.len[start.lane] - start.s) + TrailLength(M, chain, stop.s))
    BY <1>2, <1>4, <1>5, <1>6, <1>8, <1>10, TrailJoins
  <2>3. total = (M.len[start.lane] - start.s) + TrailLength(M, chain, stop.s)
    <3>1. PICK r \in Int : r = TrailLength(M, chain, stop.s)
      BY <1>9
    <3>2. PICK u \in Int : u = M.len[start.lane]
      BY <1>6
    <3>3. PICK v \in Int : v = M.len[p.conn]
      BY <1>7
    <3>4. PICK a \in Int : a = start.s
      BY <1>6
    <3>5. total = (u - a + v) - v + r
      BY <1>5, <1>8, <1>10, <3>1, <3>2, <3>3, <3>4 DEF Base0
    <3>6. (u - a + v) - v + r = (u - a) + r
      OBVIOUS
    <3> QED
      BY <3>1, <3>2, <3>4, <3>5, <3>6
  <2>4. Laid(M, pieces', lanes, conns, start.s, stop.s)
    BY <2>1, <2>2, AlongIsLaid DEF Leads
  <2>5. PiecesInv'
    BY <1>1, <2>2, <2>3, <2>4 DEF PiecesInv, mission
  <2> QED
    BY <1>3, <2>1, <2>5 DEF RouteInv
<1>11. CASE p.lane # start.lane
  <2> PICK f : f = [lane |-> p.lane, conn |-> prev[p.lane].conn]
    OBVIOUS
  <2>1. pc' = "trace" /\ chain' = <<f>> \o chain
    BY <1>1, <1>11 DEF Trace
  <2>2. p.lane \in settled /\ dist[p.lane] \in Nat /\ dist[p.lane] # Unreached
    BY <1>2, <1>5, <1>11 DEF Closed, Unreached
  <2>3. Stems(p.lane)
    BY <1>2, <1>5, <2>2 DEF PrevInv
  <2>4. f.lane = p.lane /\ f.conn = prev[p.lane].conn /\ M.to[f.conn] = f.lane /\ f.conn \in M.conns
    <3>1. prev[p.lane].conn \in M.conns
      BY <1>2, <2>3, LaneFacts DEF Stems
    <3> QED
      BY <2>3, <3>1 DEF Stems
  <2>5. f \in [lane : M.lanes, conn : M.conns]
    BY <1>5, <2>4
  <2>6. /\ Trail(M, chain', stop)
        /\ TrailLength(M, chain', stop.s) = M.len[f.lane] + M.len[f.conn] + TrailLength(M, chain, stop.s)
    BY ZenonT(60), <1>2, <1>4, <1>5, <1>6, <1>8, <2>1, <2>4, <2>5, TrailMore
  <2>7. chain'[1] = f
    <3>1. PICK R : f \in R /\ chain \in Seq(R)
      <4>1. chain \in Seq([lane : M.lanes, conn : M.conns])
        BY <1>8 DEF Trail
      <4> QED
        BY <2>5, <4>1, Zenon
    <3>2. ASSUME NEW q, q \in Seq(R)
          PROVE  (<<f>> \o q)[1] = f
      BY <3>1, <3>2
    <3> QED
      BY <2>1, <3>1, <3>2, Zenon
  <2>8. M.len[f.conn] \in Int
    <3>1. f.conn \in M.conns
      BY <2>4
    <3> QED
      BY <1>2, <3>1 DEF Measured
  <2>9. total = dist[f.lane] - M.len[f.conn] + TrailLength(M, chain', stop.s)
    <3>1. PICK r \in Int : r = TrailLength(M, chain, stop.s)
      BY <1>9
    <3>2. PICK d \in Int : d = dist[p.lane]
      BY <2>2
    <3>3. PICK u \in Int : u = M.len[p.lane]
      BY <1>6
    <3>4. PICK v \in Int : v = M.len[p.conn]
      BY <1>7
    <3>5. PICK w \in Int : w = M.len[f.conn]
      BY <2>8
    <3>6. total = (d + u + v) - v + r
      BY <1>5, <1>8, <1>11, <3>1, <3>2, <3>3, <3>4
    <3>7. TrailLength(M, chain', stop.s) = u + w + r
      BY <2>4, <2>6, <3>1, <3>3, <3>5
    <3>8. (d + u + v) - v + r = d - w + (u + w + r)
      OBVIOUS
    <3> QED
      BY <2>4, <3>2, <3>5, <3>6, <3>7, <3>8
  <2>10. TraceInv'
    BY <1>1, <1>5, <2>2, <2>4, <2>6, <2>7, <2>9 DEF TraceInv, mission, search
  <2>11. PrevInv'
    BY <1>1, <1>2 DEF PrevInv, Stems, Outgoing, Base0, mission, search
  <2> QED
    BY <1>3, <2>1, <2>10, <2>11 DEF RouteInv
<1> QED
  BY <1>10, <1>11

LEMMA RouteFold == ASSUME Inv, RouteInv, Fold PROVE RouteInv'
<1>1. /\ pc = "fold" /\ UNCHANGED <<mission, search, chain, pieces, total>> /\ M' = M
      /\ pc' = "error" \/ (pc' = "driving" /\ course' = FromRoute(pieces))
  BY DEF Fold, mission, M
<1>2. PiecesInv' /\ RoutesInv'
  BY <1>1 DEF RouteInv, PiecesInv, RoutesInv, mission
<1> QED
  BY <1>1, <1>2 DEF RouteInv

LEMMA RouteStep == Inv /\ RouteInv /\ [Next]_vars /\ Inv' => RouteInv'
<1> SUFFICES ASSUME Inv, RouteInv, [Next]_vars, Inv' PROVE RouteInv'
  OBVIOUS
<1>1. CASE UNCHANGED vars
  <2>1. UNCHANGED <<mission, pc, search, chain, pieces, total, course>> /\ M' = M
    BY <1>1 DEF vars, mission, M
  <2> QED
    BY <2>1 DEF mission, search, RouteInv, RoutesInv, PrevInv, Stems, Outgoing, Base0, RestInv, TraceInv,
                PiecesInv
<1> QED
  BY <1>1, RouteBoot, RoutePlan, RouteRelax, RoutePop, RouteTrace, RouteFold DEF Next, Search

\* The course leads from the vehicle to the stop, on every map that the loader lets through,
\* over lanes and connectors of any length, along a registered route or one that was searched
\* for (route_planner.py, _reconstruct, plan_via_numbers; lane_route.py, from_route).
THEOREM CourseLeadsThere == Spec => []CourseLeads
<1>1. RouteInv => CourseLeads
  <2> SUFFICES ASSUME RouteInv, pc = "driving" PROVE CourseLeads
    BY DEF CourseLeads
  <2>1. PiecesInv /\ course = FromRoute(pieces)
    BY DEF RouteInv
  <2> QED
    BY <2>1, CourseFollows DEF PiecesInv
<1>2. Inv /\ RouteInv /\ [Next]_vars => (Inv /\ RouteInv)'
  BY InvStep, RouteStep
<1> QED
  BY <1>1, <1>2, InvInit, RouteInit, PTL DEF Spec
=============================================================================
