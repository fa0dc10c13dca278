---------------------------- MODULE RegistryProofs ----------------------------
(***************************************************************************)
(* Proofs about RoutingRegistry for every configuration: any upstreams and *)
(* models, any pools, repeated members included.                           *)
(***************************************************************************)
EXTENDS Routing, WellFoundedInduction, TLAPS

-----------------------------------------------------------------------------
(* The scan of select_upstream().                                           *)

\* The places of a pool, counted from 0, and how far the scan is from place i.
Places(m) == 0..(PoolSize(m) - 1)
OffsetOf(m, i) == (i - round_robin_index[m]) % PoolSize(m)

\* A pool is not empty and holds upstreams.
LEMMA PoolType ==
    ASSUME NEW m \in Models
    PROVE  /\ PoolSize(m) \in Nat \ {0}
           /\ DOMAIN Pool[m] = 1..PoolSize(m)
           /\ \A i \in Places(m) : Pool[m][i + 1] \in Upstreams
BY PoolAssumption DEF PoolSize, Places

\* A place in a circle of n counted from place p, without division.
LEMMA AroundTheCircle ==
    ASSUME NEW n \in Nat \ {0}, NEW p \in 0..(n - 1), NEW i \in 0..(n - 1)
    PROVE  /\ (p + i) % n = IF p + i < n THEN p + i ELSE p + i - n
           /\ (i - p) % n = IF i >= p THEN i - p ELSE i - p + n
<1>1. (p + i) % n = IF p + i < n THEN p + i ELSE p + i - n
    OBVIOUS
<1>2. (i - p) % n = IF i >= p THEN i - p ELSE i - p + n
    OBVIOUS
<1> QED
    BY <1>1, <1>2

\* The scan reaches every position of the pool: position i at offset
\* OffsetOf(m, i), and at no other.
LEMMA ScanCoversPool ==
    ASSUME TypeOK, NEW m \in Models, NEW i \in Places(m)
    PROVE  /\ OffsetOf(m, i) \in Places(m)
           /\ IndexAt(m, OffsetOf(m, i)) = i
           /\ MemberAt(m, OffsetOf(m, i)) = Pool[m][i + 1]
<1> DEFINE n == PoolSize(m)
           p == round_robin_index[m]
           d == OffsetOf(m, i)
<1>1. n \in Nat \ {0} /\ p \in 0..(n - 1) /\ i \in 0..(n - 1)
    BY PoolType DEF TypeOK, Places
<1>2. d = IF i >= p THEN i - p ELSE i - p + n
    BY <1>1, AroundTheCircle DEF OffsetOf
<1>3. d \in 0..(n - 1)
    BY <1>1, <1>2
<1>4. IndexAt(m, d) = IF p + d < n THEN p + d ELSE p + d - n
    BY <1>1, <1>3, AroundTheCircle DEF IndexAt
<1>5. IndexAt(m, d) = i
    BY <1>1, <1>2, <1>4
<1> QED
    BY <1>3, <1>5 DEF MemberAt, Places

\* Offsets lead to positions of the pool.
LEMMA OffsetsLeadIntoPool ==
    ASSUME TypeOK, NEW m \in Models, NEW o \in Places(m)
    PROVE  /\ IndexAt(m, o) \in Places(m)
           /\ OffsetOf(m, IndexAt(m, o)) = o
           /\ MemberAt(m, o) = Pool[m][IndexAt(m, o) + 1]
<1> DEFINE n == PoolSize(m)
           p == round_robin_index[m]
           j == IndexAt(m, o)
<1>1. n \in Nat \ {0} /\ p \in 0..(n - 1) /\ o \in 0..(n - 1)
    BY PoolType DEF TypeOK, Places
<1>2. j = IF p + o < n THEN p + o ELSE p + o - n
    BY <1>1, AroundTheCircle DEF IndexAt
<1>3. j \in 0..(n - 1)
    BY <1>1, <1>2
<1>4. OffsetOf(m, j) = IF j >= p THEN j - p ELSE j - p + n
    BY <1>1, <1>3, AroundTheCircle DEF OffsetOf
<1>5. OffsetOf(m, j) = o
    BY <1>1, <1>2, <1>4
<1> QED
    BY <1>3, <1>5 DEF MemberAt, Places

\* The candidates of a scan are exactly the eligible members of the pool.
LEMMA CandidatesAreEligible ==
    ASSUME TypeOK, NEW m \in Models, NEW excluded, NEW i \in Places(m)
    PROVE  OffsetOf(m, i) \in Candidates(m, excluded)
             <=> Eligible(Pool[m][i + 1], excluded)
BY ScanCoversPool DEF Candidates, Places

\* When anything can be selected, the scan stops at the nearest candidate.
LEMMA FirstCandidateIsNearest ==
    ASSUME NEW m \in Models, NEW excluded, Candidates(m, excluded) # {}
    PROVE  /\ FirstCandidate(m, excluded) \in Candidates(m, excluded)
           /\ \A o \in Candidates(m, excluded) : FirstCandidate(m, excluded) <= o
<1> DEFINE C == Candidates(m, excluded)
<1>1. C \subseteq Nat
    BY PoolType DEF Candidates
<1>2. PICK o \in C : \A p \in C : ~ (<<p, o>> \in OpToRel(<, Nat))
    BY <1>1, WFMin, NatLessThanWellFounded
<1>3. \A p \in C : ~ (p < o)
    BY <1>1, <1>2 DEF OpToRel
<1>4. \A p \in C : o <= p
    BY <1>1, <1>3
<1> QED
    BY <1>4 DEF FirstCandidate

\* What select_upstream() returns is in the pool, healthy and not excluded.
LEMMA SelectedIsEligible ==
    ASSUME TypeOK, NEW m \in Models, NEW excluded, NEW u,
           SelectUpstream(m, excluded, u)
    PROVE  /\ u \in {Pool[m][i] : i \in DOMAIN Pool[m]}
           /\ Eligible(u, excluded)
<1> DEFINE o == FirstCandidate(m, excluded)
<1>1. Candidates(m, excluded) # {} /\ u = MemberAt(m, o)
    BY DEF SelectUpstream
<1>2. o \in Places(m) /\ Eligible(u, excluded)
    BY <1>1, FirstCandidateIsNearest DEF Candidates, Places
<1>3. IndexAt(m, o) + 1 \in DOMAIN Pool[m] /\ u = Pool[m][IndexAt(m, o) + 1]
    BY <1>1, <1>2, OffsetsLeadIntoPool, PoolType DEF Places
<1> QED
    BY <1>2, <1>3

\* It refuses only if every upstream of the pool is excluded or unhealthy.
LEMMA RefusedMeansNoneLeft ==
    ASSUME TypeOK, NEW m \in Models, NEW excluded, Candidates(m, excluded) = {},
           NEW i \in DOMAIN Pool[m]
    PROVE  ~Eligible(Pool[m][i], excluded)
<1>1. i - 1 \in Places(m) /\ (i - 1) + 1 = i
    BY PoolType DEF Places
<1> QED
    BY <1>1, CandidatesAreEligible

-----------------------------------------------------------------------------
(* Types.                                                                   *)

\* A selection moves one position of the round robin, to just behind the
\* member selected, and leaves the health of the upstreams alone.
LEMMA SelectMoves ==
    ASSUME TypeOK, NEW m \in Models, NEW excluded, NEW u,
           SelectUpstream(m, excluded, u)
    PROVE  /\ TypeOK'
           /\ round_robin_index' = [round_robin_index EXCEPT ![m] =
                 (IndexAt(m, FirstCandidate(m, excluded)) + 1) % PoolSize(m)]
           /\ FirstCandidate(m, excluded) \in Candidates(m, excluded)
           /\ FirstCandidate(m, excluded) \in Places(m)
           /\ \A o \in Candidates(m, excluded) : FirstCandidate(m, excluded) <= o
<1> DEFINE s == IndexAt(m, FirstCandidate(m, excluded))
           o == FirstCandidate(m, excluded)
<1>1. /\ Candidates(m, excluded) # {}
      /\ round_robin_index' =
           [round_robin_index EXCEPT ![m] = (s + 1) % PoolSize(m)]
      /\ healthy' = healthy
    BY DEF SelectUpstream
<1>2. /\ o \in Candidates(m, excluded)
      /\ \A p \in Candidates(m, excluded) : o <= p
    BY <1>1, FirstCandidateIsNearest
<1>3. o \in Places(m)
    BY <1>2 DEF Candidates, Places
<1>4. s \in Places(m)
    BY <1>3, OffsetsLeadIntoPool
<1>5. (s + 1) % PoolSize(m) \in 0..(PoolSize(m) - 1)
    <2>1. PoolSize(m) \in Nat \ {0} /\ s + 1 \in Int
        BY <1>4, PoolType DEF Places
    <2> QED
        BY <2>1
<1>6. TypeOK'
    <2>1. PoolSize(m)' = PoolSize(m)
        BY DEF PoolSize
    <2> QED
        BY <1>1, <1>5, PoolType DEF TypeOK, PoolSize
<1> QED
    BY <1>1, <1>2, <1>3, <1>6

\* TypeOK is preserved by every step of the registry.
LEMMA RoutingTypeStep == TypeOK /\ [Next]_vars => TypeOK'
<1> SUFFICES ASSUME TypeOK, [Next]_vars PROVE TypeOK'
    OBVIOUS
<1>1. ASSUME NEW m \in Models, NEW excluded \in SUBSET Upstreams, NEW u \in Upstreams,
             SelectUpstream(m, excluded, u)
      PROVE  TypeOK'
    BY <1>1, SelectMoves
<1>2. ASSUME NEW m \in Models, NEW excluded \in SUBSET Upstreams,
             NoHealthyUpstream(m, excluded)
      PROVE  TypeOK'
    BY <1>2 DEF NoHealthyUpstream, TypeOK, vars, PoolSize
<1>3. ASSUME NEW verdict \in [Upstreams -> BOOLEAN], SetUpstreamHealth(verdict)
      PROVE  TypeOK'
    BY <1>3 DEF SetUpstreamHealth, TypeOK, PoolSize
<1>4. CASE UNCHANGED vars
    BY <1>4 DEF vars, TypeOK, PoolSize
<1> QED
    BY <1>1, <1>2, <1>3, <1>4 DEF Next

\* The registry starts at the first place of every pool.
LEMMA RoutingTypeInit == Init => TypeOK
BY PoolType DEF Init, TypeOK

\* Whatever selections, failovers and health changes do, the round-robin
\* position of every model points into its pool: select_upstream() never
\* indexes outside it.
THEOREM RoutingTypeCorrect == Spec => []TypeOK
<1> QED
    BY RoutingTypeInit, RoutingTypeStep, PTL DEF Spec
=============================================================================
