---------------------------- MODULE RoutingProofs ----------------------------
(***************************************************************************)
(* Proofs about what is built on RoutingRegistry: the fairness of its      *)
(* round robin and what the gateway announces of it, for every             *)
(* configuration.                                                          *)
(***************************************************************************)
EXTENDS RoundRobin, Discovery, RegistryProofs, FiniteSetTheorems

\* The distances of the fairness argument are the offsets of the scan.
LEMMA DistanceIsOffset ==
    /\ \A m, i : Distance(m, i) = OffsetOf(m, i)
    /\ \A m : Positions(m) = Places(m)
    /\ \A m, excluded :
         SelectedIndex(m, excluded) = IndexAt(m, FirstCandidate(m, excluded))
BY DEF Distance, OffsetOf, Positions, Places, SelectedIndex

-----------------------------------------------------------------------------
(* Fairness of the round robin.                                             *)

PassedOverType ==
    /\ DOMAIN passed_over = Models
    /\ \A m \in Models : passed_over[m] \in [Positions(m) -> Nat]

\* The inductive invariant: NoStarvation needs nothing but the types.
RRInv == TypeOK /\ PassedOverType /\ NoStarvation

\* Nobody was passed over yet.
LEMMA RRInvInit == RRInit => RRInv
<1> SUFFICES ASSUME RRInit PROVE RRInv
    OBVIOUS
<1>1. TypeOK
    BY RoutingTypeInit DEF RRInit
<1>2. PassedOverType
    BY DEF RRInit, PassedOverType
<1>3. NoStarvation
    <2> SUFFICES ASSUME NEW m \in Models, NEW i \in Positions(m)
                 PROVE  passed_over[m][i] + Distance(m, i) < PoolSize(m)
        BY DEF NoStarvation
    <2>1. passed_over[m][i] = 0
        BY DEF RRInit
    <2>2. Distance(m, i) \in 0..(PoolSize(m) - 1) /\ PoolSize(m) \in Nat
        BY <1>1, DistanceIsOffset, ScanCoversPool, PoolType DEF Positions
    <2> QED
        BY <2>1, <2>2
<1> QED
    BY <1>1, <1>2, <1>3 DEF RRInv

\* A selection brings the scan nearer to every member it passes over by at
\* least the one place its count goes up.
LEMMA SelectKeepsFair ==
    ASSUME RRInv, NEW m \in Models, NEW excluded \in SUBSET Upstreams,
           Select(m, excluded)
    PROVE  RRInv'
<1> DEFINE o == FirstCandidate(m, excluded)
           s == SelectedIndex(m, excluded)
           n == PoolSize(m)
           p == round_robin_index[m]
<1>1. PICK u \in Upstreams : SelectUpstream(m, excluded, u)
    BY DEF Select
<1>2. TypeOK
    BY DEF RRInv
<1>3. /\ TypeOK'
      /\ round_robin_index' = [round_robin_index EXCEPT ![m] = (s + 1) % n]
      /\ o \in Positions(m)
      /\ \A c \in Candidates(m, excluded) : o <= c
    BY <1>1, <1>2, DistanceIsOffset, SelectMoves
<1>4. /\ s \in Positions(m)
      /\ Distance(m, s) = o
    BY <1>2, <1>3, DistanceIsOffset, OffsetsLeadIntoPool DEF SelectedIndex
<1>5. passed_over' = [passed_over EXCEPT ![m] =
         [i \in Positions(m) |->
            IF i # s /\ Eligible(Pool[m][i + 1], excluded)
            THEN passed_over[m][i] + 1 ELSE 0]]
    BY DEF Select, RRInv, PassedOverType
<1>6. PassedOverType'
    BY <1>5 DEF RRInv, PassedOverType, Positions, PoolSize
<1>7. ASSUME NEW q \in Models, NEW i \in Positions(q)
      PROVE  passed_over'[q][i] + Distance(q, i)' < PoolSize(q)
    <2>1. passed_over[q][i] + Distance(q, i) < PoolSize(q)
        BY DEF RRInv, NoStarvation
    <2>2. CASE q # m
        <3>1. passed_over'[q] = passed_over[q]
            BY <1>5, <2>2 DEF RRInv, PassedOverType
        <3>2. round_robin_index'[q] = round_robin_index[q]
            BY <1>2, <1>3, <2>2 DEF TypeOK
        <3> QED
            BY <2>1, <3>1, <3>2 DEF Distance, PoolSize
    <2>3. CASE q = m
        <3>1. n \in Nat \ {0} /\ p \in 0..(n - 1) /\ i \in 0..(n - 1) /\ s \in 0..(n - 1)
            BY <1>2, <1>4, <2>3, PoolType DEF TypeOK, Positions
        <3> DEFINE next == (s + 1) % n
        <3>2. round_robin_index'[m] = next
            BY <1>2, <1>3 DEF TypeOK
        <3>3. next = IF s + 1 < n THEN s + 1 ELSE 0
            BY <3>1
        <3>4. next \in 0..(n - 1)
            BY <3>1, <3>3
        <3>5. Distance(m, i)' = (i - next) % n
            BY <3>2 DEF Distance, PoolSize
        <3>6. Distance(m, i)' = IF i >= next THEN i - next ELSE i - next + n
            <4> HIDE DEF next
            <4> QED
                BY <3>1, <3>4, <3>5, AroundTheCircle
        <3>7. /\ Distance(m, i) = IF i >= p THEN i - p ELSE i - p + n
              /\ o = IF s >= p THEN s - p ELSE s - p + n
            BY <1>4, <3>1, AroundTheCircle DEF Distance
        <3>8. CASE i # s /\ Eligible(Pool[m][i + 1], excluded)
            <4>1. o <= Distance(m, i)
                BY <1>2, <1>3, <2>3, <3>8, DistanceIsOffset, CandidatesAreEligible
            <4>2. Distance(m, i)' = Distance(m, i) - o - 1
                <5> HIDE DEF next, p, n
                <5> QED
                    BY <3>1, <3>3, <3>6, <3>7, <3>8, <4>1
            <4>3. passed_over'[m][i] = passed_over[m][i] + 1 /\ passed_over[m][i] \in Nat
                BY <1>5, <2>3, <3>8 DEF RRInv, PassedOverType
            <4>4. o \in Nat /\ Distance(m, i) \in Int
                BY <3>1, <3>7
            <4> QED
                BY <2>1, <2>3, <3>1, <4>2, <4>3, <4>4
        <3>9. CASE ~(i # s /\ Eligible(Pool[m][i + 1], excluded))
            <4>1. passed_over'[m][i] = 0
                BY <1>5, <2>3, <3>9 DEF RRInv, PassedOverType
            <4>2. Distance(m, i)' \in 0..(n - 1)
                BY <3>1, <3>4, <3>6
            <4> QED
                BY <2>3, <3>1, <4>1, <4>2
        <3> QED
            BY <3>8, <3>9
    <2> QED
        BY <2>2, <2>3
<1>8. NoStarvation'
    BY <1>7 DEF NoStarvation, Positions, PoolSize
<1> QED
    BY <1>3, <1>6, <1>8 DEF RRInv

\* A selection passes over no member that is a turn of the pool behind already.
LEMMA RRInvNext == RRInv /\ [RRNext]_rrVars => RRInv'
<1> SUFFICES ASSUME RRInv, [RRNext]_rrVars PROVE RRInv'
    OBVIOUS
<1>1. ASSUME NEW m \in Models, NEW excluded \in SUBSET Upstreams, Select(m, excluded)
      PROVE  RRInv'
    BY <1>1, SelectKeepsFair
<1>2. ASSUME UNCHANGED <<round_robin_index, passed_over>>,
             healthy' \in [Upstreams -> BOOLEAN]
      PROVE  RRInv'
    BY <1>2 DEF RRInv, TypeOK, PassedOverType, NoStarvation, Distance, Positions, PoolSize
<1>3. ASSUME NEW m \in Models, NEW excluded \in SUBSET Upstreams, Refuse(m, excluded)
      PROVE  RRInv'
    BY <1>2, <1>3 DEF Refuse, NoHealthyUpstream, vars, RRInv, TypeOK
<1>4. ASSUME NEW verdict \in [Upstreams -> BOOLEAN], Refresh(verdict)
      PROVE  RRInv'
    BY <1>2, <1>4 DEF Refresh, SetUpstreamHealth
<1>5. CASE UNCHANGED rrVars
    BY <1>2, <1>5 DEF rrVars, vars, RRInv, TypeOK
<1> QED
    BY <1>1, <1>3, <1>4, <1>5 DEF RRNext

\* No pool member that select_upstream() may choose is passed over for a whole
\* turn of the pool, whatever failovers exclude and however health flaps.
THEOREM RoundRobinIsFair == RRSpec => []NoStarvation
<1>1. RRInv => NoStarvation
    BY DEF RRInv
<1> QED
    BY RRInvInit, RRInvNext, <1>1, PTL DEF RRSpec

-----------------------------------------------------------------------------
(* What the gateway announces.                                              *)

\* The places of the pool that list_models() counts as healthy.
HealthyPlaces(m) == {i \in DOMAIN Pool[m] : healthy[Pool[m][i]]}

\* Something can be selected exactly when some place of the pool is healthy,
\* and what can be selected are the upstreams at those places.
LEMMA RoutableByPlaces ==
    ASSUME TypeOK, NEW m \in Models
    PROVE  /\ Candidates(m, {}) # {} <=> HealthyPlaces(m) # {}
           /\ {MemberAt(m, o) : o \in Candidates(m, {})}
                = {Pool[m][i] : i \in HealthyPlaces(m)}
<1>1. ASSUME NEW i \in HealthyPlaces(m)
      PROVE  /\ Distance(m, i - 1) \in Candidates(m, {})
             /\ MemberAt(m, Distance(m, i - 1)) = Pool[m][i]
    <2>1. i - 1 \in Positions(m) /\ (i - 1) + 1 = i
        BY PoolType DEF HealthyPlaces, Positions
    <2>2. Eligible(Pool[m][(i - 1) + 1], {})
        BY <2>1 DEF HealthyPlaces, Eligible
    <2> QED
        BY <2>1, <2>2, DistanceIsOffset, CandidatesAreEligible, ScanCoversPool
<1>2. ASSUME NEW o \in Candidates(m, {})
      PROVE  /\ IndexAt(m, o) + 1 \in HealthyPlaces(m)
             /\ MemberAt(m, o) = Pool[m][IndexAt(m, o) + 1]
    <2>1. o \in Positions(m) /\ healthy[MemberAt(m, o)]
        BY DEF Candidates, Positions, Eligible
    <2>2. IndexAt(m, o) \in Positions(m) /\ MemberAt(m, o) = Pool[m][IndexAt(m, o) + 1]
        BY <2>1, DistanceIsOffset, OffsetsLeadIntoPool
    <2>3. IndexAt(m, o) + 1 \in DOMAIN Pool[m]
        BY <2>2, PoolType DEF Positions
    <2> QED
        BY <2>1, <2>2, <2>3 DEF HealthyPlaces
<1> QED
    BY <1>1, <1>2

\* The counts of list_models(), by places.
LEMMA CountsByPlaces ==
    ASSUME NEW m \in Models
    PROVE  /\ HealthyUpstreamCount(m) \in 0..TotalUpstreamCount(m)
           /\ HealthyUpstreamCount(m) = 0 <=> HealthyPlaces(m) = {}
           /\ HealthyUpstreamCount(m) = TotalUpstreamCount(m)
                <=> HealthyPlaces(m) = DOMAIN Pool[m]
<1> DEFINE D == DOMAIN Pool[m]
           H == HealthyPlaces(m)
<1>1. D = 1..TotalUpstreamCount(m) /\ TotalUpstreamCount(m) \in Nat
    BY PoolType DEF PoolSize, TotalUpstreamCount
<1>2. IsFiniteSet(D) /\ Cardinality(D) = TotalUpstreamCount(m)
    BY <1>1, FS_Interval
<1>3. H \in SUBSET D
    BY DEF HealthyPlaces
<1>4. /\ IsFiniteSet(H) /\ Cardinality(H) \in Nat
      /\ Cardinality(H) <= Cardinality(D)
      /\ Cardinality(H) = Cardinality(D) => H = D
    BY <1>2, <1>3, FS_Subset, FS_CardinalityType
<1>5. Cardinality(H) = 0 <=> H = {}
    BY <1>4, FS_EmptySet
<1>6. HealthyUpstreamCount(m) = Cardinality(H)
    BY DEF HealthyUpstreamCount, HealthyPlaces
<1> QED
    BY <1>1, <1>2, <1>4, <1>5, <1>6

\* What is announced is read from the same tables as the selection.
LEMMA TypesGiveDiscovery == TypeOK => DiscoveryMatchesRouting
<1> SUFFICES ASSUME TypeOK PROVE DiscoveryMatchesRouting
    OBVIOUS
<1>1. ASSUME NEW m \in Models
      PROVE  LET routable == Candidates(m, {}) # {}
                 selected == {MemberAt(m, o) : o \in Candidates(m, {})}
                 pool == {u \in Upstreams : Serves(u, m)}
             IN  /\ ModelStatus(m) = "online" <=> routable
                 /\ CatalogStatus(m) = "offline" <=> ~routable
                 /\ CatalogStatus(m) = "degraded" <=> routable /\ selected # pool
    <2> DEFINE H == HealthyPlaces(m)
               D == DOMAIN Pool[m]
               selected == {MemberAt(m, o) : o \in Candidates(m, {})}
               pool == {u \in Upstreams : Serves(u, m)}
               healthyCount == HealthyUpstreamCount(m)
               totalCount == TotalUpstreamCount(m)
    <2>1. /\ Candidates(m, {}) # {} <=> H # {}
          /\ selected = {Pool[m][i] : i \in H}
        BY <1>1, RoutableByPlaces
    <2>2. /\ healthyCount \in 0..totalCount /\ totalCount \in Nat
          /\ healthyCount = 0 <=> H = {}
          /\ healthyCount = totalCount <=> H = D
        BY CountsByPlaces, PoolType DEF TotalUpstreamCount, PoolSize
    <2>3. selected # pool <=> H # D
        <3>1. \A i \in D : Pool[m][i] \in pool
            BY PoolAssumption DEF Serves
        <3>2. \A u \in pool : \E i \in D : Pool[m][i] = u
            BY DEF Serves
        <3>3. H = {i \in D : healthy[Pool[m][i]]}
            BY DEF HealthyPlaces
        <3>4. ASSUME H = D PROVE selected = pool
            BY <2>1, <3>1, <3>2, <3>4
        <3>5. ASSUME selected = pool PROVE H = D
            <4>1. ASSUME NEW i \in D PROVE healthy[Pool[m][i]]
                BY <2>1, <3>1, <3>3, <3>5
            <4> QED
                BY <3>3, <4>1
        <3> QED
            BY <3>4, <3>5
    <2>4. ModelStatus(m) = "online" <=> H # {}
        BY <2>2 DEF ModelStatus
    <2>5. CatalogStatus(m) = "offline" <=> H = {}
        BY <2>2 DEF CatalogStatus
    <2>6. CatalogStatus(m) = "degraded" <=> H # {} /\ H # D
        BY <2>2 DEF CatalogStatus
    <2> QED
        BY <2>1, <2>3, <2>4, <2>5, <2>6
<1>2. Ready <=> \E m \in Models : Candidates(m, {}) # {}
    <2> DEFINE W == {u \in Upstreams : healthy[u]}
    <2>1. IsFiniteSet(W) /\ Cardinality(W) \in Nat
        BY ServingAssumption, FS_Subset, FS_CardinalityType
    <2>2. Ready <=> W # {}
        BY <2>1, FS_EmptySet DEF Ready
    <2>3. \A m \in Models : Candidates(m, {}) # {} <=> HealthyPlaces(m) # {}
        BY RoutableByPlaces
    <2>4. ASSUME W # {} PROVE \E m \in Models : HealthyPlaces(m) # {}
        <3>1. PICK u \in W : TRUE
            BY <2>4
        <3>2. PICK m \in Models : \E i \in DOMAIN Pool[m] : Pool[m][i] = u
            BY ServingAssumption DEF Serves
        <3> QED
            BY <3>1, <3>2 DEF HealthyPlaces
    <2>5. ASSUME NEW m \in Models, HealthyPlaces(m) # {} PROVE W # {}
        <3>1. PICK i \in DOMAIN Pool[m] : healthy[Pool[m][i]]
            BY <2>5 DEF HealthyPlaces
        <3>2. Pool[m][i] \in Upstreams
            BY PoolAssumption
        <3> QED
            BY <3>1, <3>2
    <2> QED
        BY <2>2, <2>3, <2>4, <2>5
<1> QED
    BY <1>1, <1>2 DEF DiscoveryMatchesRouting

\* GET /v1/models, the catalog and the readiness probe announce what routing
\* does, in every state of the registry.
THEOREM DiscoveryIsTruthful == Spec => []DiscoveryMatchesRouting
<1> QED
    BY RoutingTypeCorrect, TypesGiveDiscovery, PTL
=============================================================================
