--------------------------- MODULE AdmissionProofs ---------------------------
(***************************************************************************)
(* Proofs about AdmissionController for every configuration: any finite    *)
(* set of callers, any departments, models, limits, budgets and guard.     *)
(*                                                                         *)
(* First the slots and limits.  Then the sliding windows: dropping a       *)
(* prefix of a queue drops exactly what is out of the window, the running  *)
(* totals are exact, and so are the decisions taken from them.  With that  *)
(* the controller implements Quota, which knows no queues.                 *)
(***************************************************************************)
EXTENDS AdmissionQuota, FiniteSetTheorems, SequenceTheorems, FunctionTheorems,
        WellFoundedInduction, TLAPS

-----------------------------------------------------------------------------
(* Windows.                                                                 *)

\* The pop-left loop removes between none and all of the entries.
LEMMA ExpiredCountType ==
    ASSUME NEW n \in Nat, NEW times, DOMAIN times = 1..n, NEW window
    PROVE  ExpiredCount(times, window) \in 0..n
<1> DEFINE E == {j \in DOMAIN times : \A i \in 1..j : now - times[i] > window}
<1>1. /\ IsFiniteSet(1..n)
      /\ Cardinality(1..n) = n
    BY FS_Interval
<1>2. E \in SUBSET (1..n)
    OBVIOUS
<1>3. IsFiniteSet(E) /\ Cardinality(E) <= n
    BY <1>1, <1>2, FS_Subset
<1>4. Cardinality(E) \in Nat
    BY <1>3, FS_CardinalityType
<1> QED
    BY <1>3, <1>4 DEF ExpiredCount

\* Dropping a prefix leaves a sequence of the same kind.
LEMMA DropFirstType ==
    ASSUME NEW S, NEW q \in Seq(S), NEW n \in 0..Len(q)
    PROVE  /\ DropFirst(q, n) \in Seq(S)
           /\ Len(DropFirst(q, n)) = Len(q) - n
<1>1. Len(q) \in Nat /\ \A i \in 1..Len(q) : q[i] \in S
    BY LenProperties
<1>2. \A i \in (n + 1)..Len(q) : q[i] \in S
    BY <1>1
<1>3. n + 1 \in Int /\ Len(q) \in Int
    BY <1>1
<1>4. /\ SubSeq(q, n + 1, Len(q)) \in Seq(S)
      /\ Len(SubSeq(q, n + 1, Len(q)))
           = IF n + 1 <= Len(q) THEN Len(q) - (n + 1) + 1 ELSE 0
    BY <1>2, <1>3, SubSeqProperties
<1> QED
    BY <1>1, <1>4 DEF DropFirst

\* Tokens are counted over finitely many places.
LEMMA TokensAtType ==
    ASSUME NEW events, NEW places, IsFiniteSet(places)
    PROVE  /\ IsFiniteSet({u \in places \X (1..MaxUsage) : u[2] <= events[u[1]].tokens})
           /\ TokensAt(events, places) \in Nat
<1> DEFINE P == places \X (1..MaxUsage)
           U == {u \in P : u[2] <= events[u[1]].tokens}
<1>1. MaxUsage \in Nat
    BY SizeAssumption DEF MaxUsage
<1>2. IsFiniteSet(1..MaxUsage)
    BY <1>1, FS_Interval
<1>3. IsFiniteSet(P)
    BY <1>2, FS_Product
<1>4. IsFiniteSet(U)
    <2>1. U \in SUBSET P
        OBVIOUS
    <2> QED
        BY <1>3, <2>1, FS_Subset
<1> QED
    BY <1>4, FS_CardinalityType DEF TokensAt

\* The tokens that leave a window are a natural number.
LEMMA TokensOfFirstType ==
    ASSUME NEW events, NEW n \in Nat
    PROVE  TokensOfFirst(events, n) \in Nat
<1>1. IsFiniteSet(1..n)
    BY FS_Interval
<1> QED
    BY <1>1, TokensAtType DEF TokensOfFirst

TokenEvent == [at : Nat, tokens : 1..MaxUsage]

\* Trimming a budget's window keeps it well formed and never raises its total.
LEMMA FreshWindow ==
    ASSUME TypeOK, NEW k \in Keys
    PROVE  /\ FreshEvents(k) \in Seq(TokenEvent)
           /\ FreshTotal(k) \in Nat
           /\ FreshTotal(k) <= token_totals[k]
<1>1. token_events[k] \in Seq(TokenEvent) /\ token_totals[k] \in Nat
    BY DEF TypeOK, TokenEvent
<1>2. ExpiredEvents(k) \in 0..Len(token_events[k])
    <2>1. Len(token_events[k]) \in Nat /\ DOMAIN token_events[k] = 1..Len(token_events[k])
        BY <1>1, LenProperties
    <2> DEFINE T == [i \in DOMAIN token_events[k] |-> token_events[k][i].at]
    <2>2. DOMAIN T = 1..Len(token_events[k])
        BY <2>1
    <2> HIDE DEF T
    <2>3. ExpiredCount(T, TokenBudget[k].window_seconds) \in 0..Len(token_events[k])
        BY <2>1, <2>2, ExpiredCountType
    <2> QED
        BY <2>3 DEF ExpiredEvents, T
<1>3. FreshEvents(k) \in Seq(TokenEvent)
    BY <1>1, <1>2, DropFirstType DEF FreshEvents
<1>4. TokensOfFirst(token_events[k], ExpiredEvents(k)) \in Nat
    BY <1>1, <1>2, LenProperties, TokensOfFirstType
<1> QED
    BY <1>1, <1>3, <1>4 DEF FreshTotal, MaxZero

\* The retry queue after one more failure is a non-empty queue of times.
LEMMA RetryQueueType ==
    ASSUME TypeOK, NEW k \in Keys
    PROVE  RetryQueue(k) \in Seq(Nat)
<1>1. retry_events[k] \in Seq(Nat) /\ now \in Nat
    BY DEF TypeOK
<1>2. Len(retry_events[k]) \in Nat /\ DOMAIN retry_events[k] = 1..Len(retry_events[k])
    BY <1>1, LenProperties
<1>3. ExpiredCount(retry_events[k], RetryGuard.window_seconds) \in 0..Len(retry_events[k])
    BY <1>2, ExpiredCountType
<1> DEFINE D == DropFirst(retry_events[k],
                  ExpiredCount(retry_events[k], RetryGuard.window_seconds))
<1>4. D \in Seq(Nat)
    BY <1>1, <1>3, DropFirstType
<1> HIDE DEF D
<1>5. Append(D, now) \in Seq(Nat)
    BY <1>1, <1>4, AppendProperties
<1> QED
    BY <1>5 DEF RetryQueue, D

-----------------------------------------------------------------------------
(* Counting lease holders.                                                  *)

HoldersIn(f, S) == {q \in Requests : f[q] \in S}

\* The callers with a lease in S are finitely many, as the callers are.
LEMMA HoldersFinite ==
    ASSUME NEW f, NEW S
    PROVE  IsFiniteSet(HoldersIn(f, S)) /\ Cardinality(HoldersIn(f, S)) \in Nat
<1>1. HoldersIn(f, S) \in SUBSET Requests
    BY DEF HoldersIn
<1>2. IsFiniteSet(HoldersIn(f, S))
    BY <1>1, SizeAssumption, FS_Subset
<1> QED
    BY <1>2, FS_CardinalityType

\* A caller that gives its lease back leaves exactly the groups its lease
\* belongs to.
LEMMA HolderRemoved ==
    ASSUME NEW f \in [Requests -> Leases \cup {NoLease}], NEW S \in SUBSET Leases,
           NEW r \in Requests, f[r] # NoLease
    PROVE  /\ Cardinality(HoldersIn([f EXCEPT ![r] = NoLease], S))
                = Cardinality(HoldersIn(f, S)) - (IF f[r] \in S THEN 1 ELSE 0)
           /\ f[r] \in S => Cardinality(HoldersIn(f, S)) >= 1
<1> DEFINE H == HoldersIn(f, S)
           G == HoldersIn([f EXCEPT ![r] = NoLease], S)
<1>1. IsFiniteSet(H) /\ Cardinality(H) \in Nat
    BY HoldersFinite
<1>2. NoLease \notin S
    BY SizeAssumption
<1>3. CASE f[r] \in S
    <2>1. r \in H
        BY <1>3 DEF HoldersIn
    <2>2. G = H \ {r}
        BY <1>2 DEF HoldersIn
    <2>3. Cardinality(H \ {r}) = Cardinality(H) - 1
        BY <1>1, <2>1, FS_RemoveElement
    <2>4. Cardinality(H) # 0
        BY <1>1, <2>1, FS_EmptySet
    <2>5. Cardinality(G) = Cardinality(H) - 1
        BY <2>2, <2>3
    <2>6. Cardinality(H) >= 1
        BY <1>1, <2>4
    <2> QED
        BY <1>3, <2>5, <2>6
<1>4. CASE f[r] \notin S
    <2>1. G = H
        BY <1>2, <1>4 DEF HoldersIn
    <2> QED
        BY <1>1, <1>4, <2>1
<1> QED
    BY <1>3, <1>4

OfModel(m) == {l \in Leases : l.model_name = m}
OfKey(k) == {l \in Leases : Key(l) = k}

SlotType ==
    /\ lease \in [Requests -> Leases \cup {NoLease}]
    /\ active_by_model \in [Models -> Nat]
    /\ active_by_department_model \in [Keys -> Nat]
    /\ inflight \in [Leases -> Nat]

\* The three groups of lease holders that the counters stand for (of a model, of
\* a (department, model) pair, of the labels of the gauge) are of that form.
LEMMA HoldersAreGroups ==
    ASSUME lease \in [Requests -> Leases \cup {NoLease}]
    PROVE  /\ \A m : HoldersOfModel(m) = HoldersIn(lease, OfModel(m))
           /\ \A k : HoldersOfKey(k) = HoldersIn(lease, OfKey(k))
           /\ \A l \in Leases : HoldersOfLabels(l) = HoldersIn(lease, {l})
BY SizeAssumption
   DEF HoldersOfModel, HoldersOfKey, HoldersOfLabels, Holders, HoldersIn,
       OfModel, OfKey

\* The same of the state after a step.
LEMMA PrimedGroups ==
    ASSUME lease' \in [Requests -> Leases \cup {NoLease}]
    PROVE  /\ \A m : HoldersOfModel(m)' = HoldersIn(lease', OfModel(m))
           /\ \A k : HoldersOfKey(k)' = HoldersIn(lease', OfKey(k))
           /\ \A l \in Leases : HoldersOfLabels(l)' = HoldersIn(lease', {l})
BY SizeAssumption
   DEF HoldersOfModel, HoldersOfKey, HoldersOfLabels, Holders, HoldersIn,
       OfModel, OfKey

\* The labels of a lease name a model and a (department, model) key.
LEMMA LeaseKey ==
    ASSUME NEW l \in Leases
    PROVE  l.model_name \in Models /\ Key(l) \in Keys /\ Key(l)[2] = l.model_name
BY DEF Leases, Key, Keys

-----------------------------------------------------------------------------
(* The slot operations keep counters, gauge and leases in step.             *)

\* acquire(): three increments match the one lease handed out.
LEMMA TakeSlotStep ==
    ASSUME SlotType, SlotsMatchLeases, NEW r \in Requests, NEW l \in Leases,
           lease[r] = NoLease, TakeSlot(r, l)
    PROVE  SlotType' /\ SlotsMatchLeases'
<1>0. l.model_name \in Models /\ Key(l) \in Keys
    BY LeaseKey
<1>1. SlotType'
    BY <1>0 DEF SlotType, TakeSlot
<1>2. /\ lease \in [Requests -> Leases \cup {NoLease}]
      /\ lease' = [lease EXCEPT ![r] = l]
    BY DEF SlotType, TakeSlot
<1>3. ASSUME NEW S \in SUBSET Leases
      PROVE  Cardinality(HoldersIn(lease', S))
               = Cardinality(HoldersIn(lease, S)) + (IF l \in S THEN 1 ELSE 0)
    <2> DEFINE H == HoldersIn(lease, S)
               G == HoldersIn(lease', S)
    <2>1. IsFiniteSet(H) /\ Cardinality(H) \in Nat
        BY HoldersFinite
    <2>2. lease[r] \notin S
        BY SizeAssumption
    <2>3. r \notin H
        BY <2>2 DEF HoldersIn
    <2>4. CASE l \in S
        <3>1. G = H \cup {r}
            BY <1>2, <2>4 DEF HoldersIn
        <3>2. Cardinality(H \cup {r}) = Cardinality(H) + 1
            BY <2>1, <2>3, FS_AddElement
        <3> QED
            BY <2>4, <3>1, <3>2
    <2>5. CASE l \notin S
        <3>1. G = H
            BY <1>2, <2>2, <2>5 DEF HoldersIn
        <3> QED
            BY <2>1, <2>5, <3>1
    <2> QED
        BY <2>4, <2>5
<1>4. ASSUME NEW m \in Models
      PROVE  active_by_model'[m] = Cardinality(HoldersOfModel(m)')
    <2>1. HoldersOfModel(m) = HoldersIn(lease, OfModel(m))
        BY <1>2, HoldersAreGroups
    <2>2. HoldersOfModel(m)' = HoldersIn(lease', OfModel(m))
        BY <1>1, PrimedGroups DEF SlotType
    <2>3. active_by_model'[m] = active_by_model[m] + (IF l.model_name = m THEN 1 ELSE 0)
        BY <1>0 DEF SlotType, TakeSlot
    <2>4. active_by_model[m] = Cardinality(HoldersOfModel(m))
        BY DEF SlotsMatchLeases
    <2>5. OfModel(m) \in SUBSET Leases /\ (l \in OfModel(m) <=> l.model_name = m)
        BY DEF OfModel
    <2> QED
        BY <1>3, <2>1, <2>2, <2>3, <2>4, <2>5
<1>5. ASSUME NEW k \in Keys
      PROVE  active_by_department_model'[k] = Cardinality(HoldersOfKey(k)')
    <2>1. HoldersOfKey(k) = HoldersIn(lease, OfKey(k))
        BY <1>2, HoldersAreGroups
    <2>2. HoldersOfKey(k)' = HoldersIn(lease', OfKey(k))
        BY <1>1, PrimedGroups DEF SlotType
    <2>3. active_by_department_model'[k]
            = active_by_department_model[k] + (IF Key(l) = k THEN 1 ELSE 0)
        BY <1>0 DEF SlotType, TakeSlot
    <2>4. active_by_department_model[k] = Cardinality(HoldersOfKey(k))
        BY DEF SlotsMatchLeases
    <2>5. OfKey(k) \in SUBSET Leases /\ (l \in OfKey(k) <=> Key(l) = k)
        BY DEF OfKey
    <2> QED
        BY <1>3, <2>1, <2>2, <2>3, <2>4, <2>5
<1>6. ASSUME NEW g \in Leases
      PROVE  inflight'[g] = Cardinality(HoldersOfLabels(g)')
    <2>1. HoldersOfLabels(g) = HoldersIn(lease, {g})
        BY <1>2, HoldersAreGroups
    <2>2. HoldersOfLabels(g)' = HoldersIn(lease', {g})
        BY <1>1, PrimedGroups DEF SlotType
    <2>3. inflight'[g] = inflight[g] + (IF l \in {g} THEN 1 ELSE 0)
        BY DEF SlotType, TakeSlot
    <2>4. inflight[g] = Cardinality(HoldersOfLabels(g))
        BY DEF SlotsMatchLeases
    <2> QED
        BY <1>3, <2>1, <2>2, <2>3, <2>4
<1> QED
    BY <1>1, <1>4, <1>5, <1>6 DEF SlotsMatchLeases

\* release(): the three decrements match the one lease given back, and never
\* meet a counter that is already zero.
LEMMA ReleaseStep ==
    ASSUME SlotType, SlotsMatchLeases, NEW r \in Requests,
           lease[r] # NoLease, Release(r)
    PROVE  /\ SlotType' /\ SlotsMatchLeases'
           /\ active_by_department_model[Key(lease[r])] >= 1
           /\ active_by_department_model' = [active_by_department_model EXCEPT
                ![Key(lease[r])] = @ - 1]
<1> DEFINE l == lease[r]
<1>0. l \in Leases /\ l.model_name \in Models /\ Key(l) \in Keys
    BY LeaseKey DEF SlotType
<1>2. /\ lease \in [Requests -> Leases \cup {NoLease}]
      /\ lease' = [lease EXCEPT ![r] = NoLease]
    BY DEF SlotType, Release
<1> HIDE DEF l
<1>3. ASSUME NEW S \in SUBSET Leases
      PROVE  /\ Cardinality(HoldersIn(lease', S))
                   = Cardinality(HoldersIn(lease, S)) - (IF l \in S THEN 1 ELSE 0)
             /\ l \in S => Cardinality(HoldersIn(lease, S)) >= 1
    <2>1. /\ Cardinality(HoldersIn([lease EXCEPT ![r] = NoLease], S))
               = Cardinality(HoldersIn(lease, S)) - (IF lease[r] \in S THEN 1 ELSE 0)
          /\ lease[r] \in S => Cardinality(HoldersIn(lease, S)) >= 1
        BY <1>2, HolderRemoved
    <2> QED
        BY <1>2, <2>1 DEF l
<1>t. lease' \in [Requests -> Leases \cup {NoLease}]
    BY <1>2
<1>4. ASSUME NEW m \in Models
      PROVE  /\ active_by_model'[m] = Cardinality(HoldersOfModel(m)')
             /\ active_by_model'[m] \in Nat
    <2>1. HoldersOfModel(m) = HoldersIn(lease, OfModel(m))
        BY <1>2, HoldersAreGroups
    <2>2. HoldersOfModel(m)' = HoldersIn(lease', OfModel(m))
        BY <1>t, PrimedGroups
    <2>3. active_by_model[m] = Cardinality(HoldersOfModel(m)) /\ active_by_model[m] \in Nat
        BY DEF SlotsMatchLeases, SlotType
    <2>4. OfModel(m) \in SUBSET Leases /\ (l \in OfModel(m) <=> l.model_name = m)
        BY <1>0 DEF OfModel
    <2>5. l.model_name = m => active_by_model[m] >= 1
        BY <1>3, <2>1, <2>3, <2>4
    <2>6. active_by_model'[m] = active_by_model[m] - (IF l.model_name = m THEN 1 ELSE 0)
        BY <1>0, <2>3, <2>5 DEF SlotType, Release, MaxZero, l
    <2> QED
        BY <1>3, <2>1, <2>2, <2>3, <2>4, <2>5, <2>6
<1>5. ASSUME NEW k \in Keys
      PROVE  /\ active_by_department_model'[k] = Cardinality(HoldersOfKey(k)')
             /\ active_by_department_model'[k] \in Nat
             /\ Key(l) = k => active_by_department_model[k] >= 1
             /\ active_by_department_model'[k]
                  = active_by_department_model[k] - (IF Key(l) = k THEN 1 ELSE 0)
    <2>1. HoldersOfKey(k) = HoldersIn(lease, OfKey(k))
        BY <1>2, HoldersAreGroups
    <2>2. HoldersOfKey(k)' = HoldersIn(lease', OfKey(k))
        BY <1>t, PrimedGroups
    <2>3. /\ active_by_department_model[k] = Cardinality(HoldersOfKey(k))
          /\ active_by_department_model[k] \in Nat
        BY DEF SlotsMatchLeases, SlotType
    <2>4. OfKey(k) \in SUBSET Leases /\ (l \in OfKey(k) <=> Key(l) = k)
        BY <1>0 DEF OfKey
    <2>5. Key(l) = k => active_by_department_model[k] >= 1
        BY <1>3, <2>1, <2>3, <2>4
    <2>6. active_by_department_model'[k]
            = active_by_department_model[k] - (IF Key(l) = k THEN 1 ELSE 0)
        BY <1>0, <2>3, <2>5 DEF SlotType, Release, MaxZero, l
    <2> QED
        BY <1>3, <2>1, <2>2, <2>3, <2>4, <2>5, <2>6
<1>6. ASSUME NEW g \in Leases
      PROVE  inflight'[g] = Cardinality(HoldersOfLabels(g)') /\ inflight'[g] \in Nat
    <2>1. HoldersOfLabels(g) = HoldersIn(lease, {g})
        BY <1>2, HoldersAreGroups
    <2>2. HoldersOfLabels(g)' = HoldersIn(lease', {g})
        BY <1>t, PrimedGroups
    <2>3. inflight[g] = Cardinality(HoldersOfLabels(g)) /\ inflight[g] \in Nat
        BY DEF SlotsMatchLeases, SlotType
    <2>4. l \in {g} => inflight[g] >= 1
        BY <1>3, <2>1, <2>3
    <2>5. inflight'[g] = inflight[g] - (IF l \in {g} THEN 1 ELSE 0)
        BY <1>0, <2>3 DEF SlotType, Release, l
    <2> QED
        BY <1>3, <2>1, <2>2, <2>3, <2>4, <2>5
<1>7. SlotType'
    BY <1>0, <1>t, <1>4, <1>5, <1>6 DEF SlotType, Release, l
<1>8. SlotsMatchLeases'
    BY <1>4, <1>5, <1>6 DEF SlotsMatchLeases
<1>9. active_by_department_model' = [active_by_department_model EXCEPT ![Key(l)] = @ - 1]
    BY <1>0, <1>5 DEF SlotType, Release, l
<1> QED
    BY <1>0, <1>5, <1>7, <1>8, <1>9 DEF l

-----------------------------------------------------------------------------
(* The token and guard operations keep their queues well formed.            *)

TokenType ==
    /\ token_events \in [Keys -> Seq(TokenEvent)]
    /\ token_totals \in [Keys -> Nat]

GuardType ==
    /\ retry_events \in [Keys -> Seq(Nat)]
    /\ cooldown_until \in [Keys -> Nat]

\* The type invariant, by the three parts that acquire() and the record methods
\* change independently of each other.
LEMMA TypeParts == TypeOK <=> now \in Nat /\ SlotType /\ TokenType /\ GuardType
BY DEF TypeOK, SlotType, TokenType, GuardType, TokenEvent

\* The three parts after a step give the type invariant after it.
LEMMA TypePartsPrimed ==
    (now' \in Nat /\ SlotType' /\ TokenType' /\ GuardType') => TypeOK'
BY DEF TypeOK, SlotType, TokenType, GuardType, TokenEvent

\* Trimming during acquire() never raises a total.
LEMMA DropOldStep ==
    ASSUME TypeOK, NEW k \in Keys, DropOldTokenEvents(k)
    PROVE  /\ TokenType'
           /\ \A q \in Keys : token_totals'[q] <= token_totals[q]
           /\ k \in DOMAIN TokenBudget => token_totals'[k] = FreshTotal(k)
<1>1. /\ FreshEvents(k) \in Seq(TokenEvent)
      /\ FreshTotal(k) \in Nat
      /\ FreshTotal(k) <= token_totals[k]
    BY FreshWindow
<1>2. TokenType
    BY TypeParts
<1>3. CASE k \in DOMAIN TokenBudget
    <2>1. /\ token_events' = [token_events EXCEPT ![k] = FreshEvents(k)]
          /\ token_totals' = [token_totals EXCEPT ![k] = FreshTotal(k)]
        BY <1>3 DEF DropOldTokenEvents
    <2>2. TokenType'
        BY <1>1, <1>2, <2>1 DEF TokenType
    <2>3. \A q \in Keys : token_totals'[q] <= token_totals[q]
        BY <1>1, <1>2, <2>1 DEF TokenType
    <2>4. token_totals'[k] = FreshTotal(k)
        BY <1>2, <2>1 DEF TokenType
    <2> QED
        BY <2>2, <2>3, <2>4
<1>4. CASE k \notin DOMAIN TokenBudget
    BY <1>2, <1>4 DEF TokenType, DropOldTokenEvents, tokenVars
<1> QED
    BY <1>3, <1>4

\* record_tokens() raises the total of its key by at most what it is given.
LEMMA RecordTokensStep ==
    ASSUME TypeOK, NEW k \in Keys, NEW tokens \in 0..MaxUsage, RecordTokens(k, tokens)
    PROVE  /\ TokenType'
           /\ token_totals'[k] <= token_totals[k] + tokens
           /\ \A q \in Keys \ {k} : token_totals'[q] = token_totals[q]
<1>1. /\ FreshEvents(k) \in Seq(TokenEvent)
      /\ FreshTotal(k) \in Nat
      /\ FreshTotal(k) <= token_totals[k]
    BY FreshWindow
<1>2. TokenType /\ now \in Nat
    BY TypeParts
<1>3. MaxUsage \in Nat
    BY SizeAssumption DEF MaxUsage
<1>4. CASE tokens > 0
    <2> DEFINE e == [at |-> now, tokens |-> tokens]
    <2>1. e \in TokenEvent
        BY <1>2, <1>3, <1>4 DEF TokenEvent
    <2> HIDE DEF e
    <2>2. Append(FreshEvents(k), e) \in Seq(TokenEvent)
        BY <1>1, <2>1, AppendProperties
    <2>3. CASE Enabled /\ k \in DOMAIN TokenBudget
        <3>1. /\ token_events' = [token_events EXCEPT ![k] = Append(FreshEvents(k), e)]
              /\ token_totals' = [token_totals EXCEPT ![k] = FreshTotal(k) + tokens]
            BY <1>4, <2>3 DEF RecordTokens, e
        <3>2. FreshTotal(k) + tokens \in Nat
            BY <1>1, <1>3
        <3>3. TokenType'
            BY <1>2, <2>2, <3>1, <3>2 DEF TokenType
        <3>4. /\ token_totals'[k] = FreshTotal(k) + tokens
              /\ \A q \in Keys \ {k} : token_totals'[q] = token_totals[q]
            BY <1>2, <3>1 DEF TokenType
        <3>5. token_totals[k] \in Nat
            BY <1>2 DEF TokenType
        <3> QED
            BY <1>1, <1>3, <3>3, <3>4, <3>5
    <2>4. CASE ~(Enabled /\ k \in DOMAIN TokenBudget)
        BY <1>2, <1>3, <2>4 DEF TokenType, RecordTokens, tokenVars
    <2> QED
        BY <2>3, <2>4
<1>5. CASE ~(tokens > 0)
    BY <1>2, <1>3, <1>5 DEF TokenType, RecordTokens, tokenVars
<1> QED
    BY <1>4, <1>5

\* record_retry_event() keeps the retry queues and cooldowns well formed.
LEMMA RetryEventStep ==
    ASSUME TypeOK, NEW k \in Keys, RecordRetryEvent(k)
    PROVE  GuardType'
<1>1. RetryQueue(k) \in Seq(Nat)
    BY RetryQueueType
<1>2. GuardType /\ now \in Nat
    BY TypeParts
<1>3. now + RetryGuard.cooldown_seconds \in Nat
    BY <1>2, GuardAssumption DEF Positive
<1>4. <<>> \in Seq(Nat)
    BY EmptySeq
<1> QED
    BY <1>1, <1>2, <1>3, <1>4 DEF GuardType, RecordRetryEvent, guardVars

-----------------------------------------------------------------------------
(* The inductive invariant.                                                 *)

Inv == TypeOK /\ SlotsMatchLeases /\ WithinLimits /\ BudgetReserve

\* The limits are about leases, the checks of acquire() about counters.
CountersWithin ==
    /\ \A m \in DOMAIN ModelLimit : active_by_model[m] <= ModelLimit[m]
    /\ \A k \in DOMAIN DepartmentModelLimit :
         active_by_department_model[k] <= DepartmentModelLimit[k]

\* As the counters are right, a limit on leases is a limit on a counter, which is
\* what acquire() compares.
LEMMA LimitsAsCounters ==
    /\ SlotsMatchLeases => (WithinLimits <=> CountersWithin)
    /\ SlotsMatchLeases' => (WithinLimits' <=> CountersWithin')
BY LimitAssumption DEF SlotsMatchLeases, WithinLimits, CountersWithin

\* A cap on the active requests of a key is a number.
LEMMA CapPositive ==
    ASSUME NEW k \in Keys, Capped(k)
    PROVE  Cap(k) \in Nat
BY LimitAssumption DEF Capped, Cap, Positive, Keys

\* An admitted request leaves its key within the cap, itself included.
LEMMA AdmittedWithinCap ==
    ASSUME SlotType, SlotsMatchLeases, NEW k \in Keys, Capped(k), ReachesBudget(k)
    PROVE  active_by_department_model[k] + 1 <= Cap(k)
<1>1. k[2] \in Models /\ active_by_department_model[k] \in Nat /\ active_by_model[k[2]] \in Nat
    BY DEF SlotType, Keys
<1>2. CASE k \in DOMAIN DepartmentModelLimit
    BY <1>1, <1>2, LimitAssumption
       DEF ReachesBudget, DepartmentModelFull, Cap, Positive
<1>3. CASE k \notin DOMAIN DepartmentModelLimit
    <2>1. k[2] \in DOMAIN ModelLimit
        BY <1>3 DEF Capped
    <2>2. active_by_model[k[2]] + 1 <= ModelLimit[k[2]]
        BY <1>1, <2>1, LimitAssumption DEF ReachesBudget, ModelFull, Positive
    <2>3. HoldersOfKey(k) \in SUBSET HoldersOfModel(k[2])
        BY DEF HoldersOfKey, HoldersOfModel, Key, Keys
    <2>4. IsFiniteSet(HoldersOfModel(k[2]))
        BY HoldersAreGroups, HoldersFinite DEF SlotType
    <2>5. Cardinality(HoldersOfKey(k)) <= Cardinality(HoldersOfModel(k[2]))
        BY <2>3, <2>4, FS_Subset
    <2>6. active_by_department_model[k] <= active_by_model[k[2]]
        BY <1>1, <2>5 DEF SlotsMatchLeases
    <2> QED
        BY <1>1, <1>3, <2>1, <2>2, <2>6, LimitAssumption DEF Cap, Positive
<1> QED
    BY <1>2, <1>3

\* One more slot in use reserves at most one more usage.
LEMMA Reserve ==
    ASSUME NEW a \in Nat, NEW c \in Nat, NEW u \in Nat, a <= c
    PROVE  /\ a * u <= c * u
           /\ a * u \in Nat /\ c * u \in Nat
           /\ (a + 1) * u = a * u + u
BY SMT

\* A controller without a history satisfies the invariant.
LEMMA InvInit == Init => Inv
<1> SUFFICES ASSUME Init PROVE Inv
    OBVIOUS
<1> USE DEF Init
<1>1. TypeOK
    BY SizeAssumption DEF TypeOK
<1>3. SlotsMatchLeases
    <2>1. \A m \in Models : HoldersOfModel(m) = {}
        BY DEF HoldersOfModel, Holders
    <2>2. \A k \in Keys : HoldersOfKey(k) = {}
        BY DEF HoldersOfKey, Holders
    <2>3. \A l \in Leases : HoldersOfLabels(l) = {}
        BY DEF HoldersOfLabels, Holders
    <2> QED
        BY <2>1, <2>2, <2>3, FS_EmptySet DEF SlotsMatchLeases
<1>4. CountersWithin
    BY LimitAssumption DEF CountersWithin, Positive
<1>5. BudgetReserve
    <2> SUFFICES ASSUME NEW k \in DOMAIN TokenBudget, Capped(k)
                 PROVE  token_totals[k] + active_by_department_model[k] * MaxUsage
                          < TokenBudget[k].max_tokens + Cap(k) * MaxUsage
        BY DEF BudgetReserve
    <2>1. k \in Keys /\ TokenBudget[k].max_tokens \in Nat \ {0}
        BY BudgetAssumption DEF Positive
    <2>2. Cap(k) \in Nat /\ MaxUsage \in Nat
        BY <2>1, CapPositive, SizeAssumption DEF MaxUsage
    <2>3. Cap(k) * MaxUsage \in Nat /\ 0 * MaxUsage = 0
        BY <2>2, Reserve
    <2> QED
        BY <2>1, <2>3
<1> QED
    BY <1>1, <1>3, <1>4, <1>5, LimitsAsCounters DEF Inv

\* Steps that leave the slots alone and raise no total preserve the limits
\* and the reserve.
LEMMA SlotsUntouched ==
    ASSUME Inv, TypeOK', UNCHANGED slotVars,
           \A q \in Keys : token_totals'[q] <= token_totals[q]
    PROVE  Inv'
<1>1. SlotsMatchLeases'
    BY DEF Inv, slotVars, SlotsMatchLeases, HoldersOfModel, HoldersOfKey,
           HoldersOfLabels, Holders
<1>2. CountersWithin'
    BY LimitsAsCounters DEF Inv, slotVars, CountersWithin
<1>3. BudgetReserve'
    <2> SUFFICES ASSUME NEW k \in DOMAIN TokenBudget, Capped(k)
                 PROVE  token_totals'[k] + active_by_department_model[k] * MaxUsage
                          < TokenBudget[k].max_tokens + Cap(k) * MaxUsage
        BY DEF BudgetReserve, slotVars
    <2>1. k \in Keys /\ TokenBudget[k].max_tokens \in Nat
        BY BudgetAssumption DEF Positive
    <2>2. Cap(k) \in Nat /\ MaxUsage \in Nat
        BY <2>1, CapPositive, SizeAssumption DEF MaxUsage
    <2>3. /\ active_by_department_model[k] \in Nat
          /\ token_totals[k] \in Nat /\ token_totals'[k] \in Nat
        BY <2>1 DEF Inv, TypeOK
    <2>4. active_by_department_model[k] * MaxUsage \in Nat /\ Cap(k) * MaxUsage \in Nat
        BY <2>2, <2>3, Reserve
    <2>5. token_totals[k] + active_by_department_model[k] * MaxUsage
            < TokenBudget[k].max_tokens + Cap(k) * MaxUsage
        BY DEF Inv, BudgetReserve
    <2>6. token_totals'[k] <= token_totals[k]
        BY <2>1
    <2> QED
        BY <2>1, <2>3, <2>4, <2>5, <2>6
<1> QED
    BY <1>1, <1>2, <1>3, LimitsAsCounters DEF Inv

\* An admission keeps the invariant: its slot was free, and the most it may ever
\* charge goes into the reserve of its key.
LEMMA AdmitStep ==
    ASSUME Inv, NEW r \in Requests, NEW l \in Leases, Admit(r, l)
    PROVE  Inv'
<1> DEFINE key == Key(l)
<1>0. key \in Keys /\ key[2] = l.model_name /\ l.model_name \in Models
    BY LeaseKey
<1> USE DEF Admit, AcquireAdmitted
<1>1. now \in Nat /\ SlotType /\ TokenType /\ GuardType /\ SlotsMatchLeases
    BY TypeParts DEF Inv
<1>2. SlotType' /\ SlotsMatchLeases'
    BY <1>1, TakeSlotStep
<1>3. /\ TokenType'
      /\ \A q \in Keys : token_totals'[q] <= token_totals[q]
      /\ key \in DOMAIN TokenBudget => token_totals'[key] = FreshTotal(key)
    BY <1>0, DropOldStep DEF Inv
<1>4. TypeOK'
    BY <1>1, <1>2, <1>3, TypePartsPrimed DEF GuardType, guardVars
<1>5. \A q \in Keys : active_by_department_model'[q]
                      = active_by_department_model[q] + (IF q = key THEN 1 ELSE 0)
    BY <1>0, <1>1 DEF TakeSlot, SlotType
<1>6. CountersWithin'
    <2>1. CountersWithin
        BY LimitsAsCounters DEF Inv
    <2>2. ASSUME NEW m \in DOMAIN ModelLimit
          PROVE  active_by_model'[m] <= ModelLimit[m]
        <3>1. m \in Models /\ ModelLimit[m] \in Nat
            BY LimitAssumption DEF Positive
        <3>2. active_by_model[m] \in Nat /\ active_by_model[m] <= ModelLimit[m]
            BY <1>1, <2>1, <3>1 DEF SlotType, CountersWithin
        <3>3. CASE m = l.model_name
            BY <1>0, <1>1, <3>1, <3>2, <3>3
               DEF TakeSlot, SlotType, Admits, ReachesBudget, ModelFull
        <3>4. CASE m # l.model_name
            BY <1>0, <1>1, <3>1, <3>2, <3>4 DEF TakeSlot, SlotType
        <3> QED
            BY <3>3, <3>4
    <2>3. ASSUME NEW k \in DOMAIN DepartmentModelLimit
          PROVE  active_by_department_model'[k] <= DepartmentModelLimit[k]
        <3>1. k \in Keys /\ DepartmentModelLimit[k] \in Nat
            BY LimitAssumption DEF Positive
        <3>2. /\ active_by_department_model[k] \in Nat
              /\ active_by_department_model[k] <= DepartmentModelLimit[k]
            BY <1>1, <2>1, <3>1 DEF SlotType, CountersWithin
        <3>3. CASE k = key
            BY <1>5, <3>1, <3>2, <3>3 DEF Admits, ReachesBudget, DepartmentModelFull
        <3>4. CASE k # key
            BY <1>5, <3>1, <3>2, <3>4
        <3> QED
            BY <3>3, <3>4
    <2> QED
        BY <2>2, <2>3 DEF CountersWithin
<1>7. BudgetReserve'
    <2> SUFFICES ASSUME NEW k \in DOMAIN TokenBudget, Capped(k)
                 PROVE  token_totals'[k] + active_by_department_model'[k] * MaxUsage
                          < TokenBudget[k].max_tokens + Cap(k) * MaxUsage
        BY DEF BudgetReserve
    <2> DEFINE a == active_by_department_model[k]
               c == Cap(k)
               u == MaxUsage
    <2>1. k \in Keys /\ TokenBudget[k].max_tokens \in Nat
        BY BudgetAssumption DEF Positive
    <2>2. c \in Nat /\ u \in Nat
        BY <2>1, CapPositive, SizeAssumption DEF MaxUsage
    <2>3. a \in Nat /\ token_totals[k] \in Nat /\ token_totals'[k] \in Nat
        BY <1>1, <1>3, <2>1 DEF SlotType, TokenType
    <2>4. a * u \in Nat /\ c * u \in Nat
        BY <2>2, <2>3, Reserve
    <2>5. CASE k = key
        <3>1. a + 1 <= c
            BY <1>1, <2>1, <2>5, AdmittedWithinCap DEF Admits
        <3>2. token_totals'[k] < TokenBudget[k].max_tokens
            BY <1>3, <2>1, <2>3, <2>5 DEF Admits, BudgetSpent
        <3>3. active_by_department_model'[k] = a + 1
            BY <1>5, <2>1, <2>5
        <3> HIDE DEF a, c, u
        <3>4. (a + 1) * u <= c * u /\ (a + 1) * u \in Nat
            BY <2>2, <2>3, <3>1, Reserve
        <3>5. token_totals'[k] + (a + 1) * u < TokenBudget[k].max_tokens + c * u
            BY <2>1, <2>3, <2>4, <3>2, <3>4
        <3> QED
            BY <3>3, <3>5 DEF c, u
    <2>6. CASE k # key
        <3>1. active_by_department_model'[k] = a
            BY <1>5, <2>1, <2>3, <2>6
        <3>2. token_totals[k] + a * u < TokenBudget[k].max_tokens + c * u
            BY DEF Inv, BudgetReserve
        <3>3. token_totals'[k] <= token_totals[k]
            BY <1>3, <2>1
        <3> HIDE DEF a, c, u
        <3>4. token_totals'[k] + a * u < TokenBudget[k].max_tokens + c * u
            BY <2>1, <2>3, <2>4, <3>2, <3>3
        <3> QED
            BY <3>1, <3>4 DEF c, u
    <2> QED
        BY <2>5, <2>6
<1> QED
    BY <1>2, <1>4, <1>6, <1>7, LimitsAsCounters DEF Inv

\* The end of a request keeps the invariant: what it charges was in the reserve.
LEMMA FinishStep ==
    ASSUME Inv, NEW r \in Requests, NEW tokens \in 0..MaxUsage, NEW failed \in BOOLEAN,
           Finish(r, tokens, failed)
    PROVE  Inv'
<1> DEFINE key == Key(lease[r])
<1> USE DEF Finish
<1>1. now \in Nat /\ SlotType /\ TokenType /\ GuardType /\ SlotsMatchLeases
    BY TypeParts DEF Inv
<1>2. lease[r] \in Leases /\ key \in Keys
    BY <1>1, LeaseKey DEF SlotType
<1>3. /\ SlotType' /\ SlotsMatchLeases'
      /\ active_by_department_model[key] >= 1
      /\ active_by_department_model'
           = [active_by_department_model EXCEPT ![key] = @ - 1]
    BY <1>1, ReleaseStep
<1>4. /\ TokenType'
      /\ token_totals'[key] <= token_totals[key] + tokens
      /\ \A q \in Keys \ {key} : token_totals'[q] = token_totals[q]
    BY <1>2, RecordTokensStep DEF Inv
<1>5. GuardType'
    BY <1>1, <1>2, RetryEventStep DEF Inv, GuardType, guardVars
<1>6. TypeOK'
    BY <1>1, <1>3, <1>4, <1>5, TypePartsPrimed
<1>7. CountersWithin'
    <2>1. CountersWithin
        BY LimitsAsCounters DEF Inv
    <2>2. ASSUME NEW m \in DOMAIN ModelLimit
          PROVE  active_by_model'[m] <= ModelLimit[m]
        <3>1. m \in Models /\ ModelLimit[m] \in Nat
            BY LimitAssumption DEF Positive
        <3>2. active_by_model[m] \in Nat /\ active_by_model[m] <= ModelLimit[m]
            BY <1>1, <2>1, <3>1 DEF SlotType, CountersWithin
        <3>3. active_by_model'[m] <= active_by_model[m]
            BY <1>1, <1>2, <3>1, <3>2, LeaseKey, SizeAssumption
               DEF Release, SlotType, MaxZero
        <3>4. active_by_model'[m] \in Nat
            BY <1>3, <3>1 DEF SlotType
        <3> QED
            BY <3>1, <3>2, <3>3, <3>4
    <2>3. ASSUME NEW k \in DOMAIN DepartmentModelLimit
          PROVE  active_by_department_model'[k] <= DepartmentModelLimit[k]
        <3>1. k \in Keys /\ DepartmentModelLimit[k] \in Nat
            BY LimitAssumption DEF Positive
        <3>2. /\ active_by_department_model[k] \in Nat
              /\ active_by_department_model[k] <= DepartmentModelLimit[k]
            BY <1>1, <2>1, <3>1 DEF SlotType, CountersWithin
        <3>3. active_by_department_model'[k]
                = active_by_department_model[k] - (IF k = key THEN 1 ELSE 0)
            BY <1>1, <1>3, <3>1 DEF SlotType
        <3> QED
            BY <3>1, <3>2, <3>3
    <2> QED
        BY <2>2, <2>3 DEF CountersWithin
<1>8. BudgetReserve'
    <2> SUFFICES ASSUME NEW k \in DOMAIN TokenBudget, Capped(k)
                 PROVE  token_totals'[k] + active_by_department_model'[k] * MaxUsage
                          < TokenBudget[k].max_tokens + Cap(k) * MaxUsage
        BY DEF BudgetReserve
    <2> DEFINE b == active_by_department_model'[k]
               c == Cap(k)
               u == MaxUsage
    <2>1. k \in Keys /\ TokenBudget[k].max_tokens \in Nat
        BY BudgetAssumption DEF Positive
    <2>2. c \in Nat /\ u \in Nat
        BY <2>1, CapPositive, SizeAssumption DEF MaxUsage
    <2>3. /\ active_by_department_model[k] \in Nat /\ b \in Nat
          /\ token_totals[k] \in Nat /\ token_totals'[k] \in Nat
        BY <1>1, <1>3, <1>4, <2>1 DEF SlotType, TokenType
    <2>4. token_totals[k] + active_by_department_model[k] * u
            < TokenBudget[k].max_tokens + c * u
        BY DEF Inv, BudgetReserve
    <2>5. CASE k = key
        <3>1. active_by_department_model[k] = b + 1
            BY <1>1, <1>3, <2>1, <2>3, <2>5 DEF SlotType
        <3>2. token_totals'[k] <= token_totals[k] + u
            BY <1>4, <2>2, <2>3, <2>5
        <3> HIDE DEF b, c, u
        <3>3. (b + 1) * u = b * u + u /\ b * u \in Nat /\ c * u \in Nat
            BY <2>2, <2>3, Reserve
        <3>4. token_totals[k] + (b * u + u) < TokenBudget[k].max_tokens + c * u
            BY <2>4, <3>1, <3>3
        <3>5. token_totals'[k] + b * u < TokenBudget[k].max_tokens + c * u
            BY <2>1, <2>2, <2>3, <3>2, <3>3, <3>4
        <3> QED
            BY <3>5 DEF b, c, u
    <2>6. CASE k # key
        <3>1. active_by_department_model[k] = b
            BY <1>1, <1>3, <2>1, <2>3, <2>6 DEF SlotType
        <3>2. token_totals'[k] = token_totals[k]
            BY <1>4, <2>1, <2>6
        <3> QED
            BY <2>4, <3>1, <3>2
    <2> QED
        BY <2>5, <2>6
<1> QED
    BY <1>3, <1>6, <1>7, <1>8, LimitsAsCounters DEF Inv

\* Every step of the controller keeps the invariant.
LEMMA InvNext == Inv /\ [Next]_vars => Inv'
<1> SUFFICES ASSUME Inv, [Next]_vars PROVE Inv'
    OBVIOUS
<1>0. /\ now \in Nat /\ SlotType /\ TokenType /\ GuardType
      /\ \A q \in Keys : token_totals[q] <= token_totals[q]
    BY TypeParts DEF Inv, TokenType
<1>1. ASSUME NEW r \in Requests, NEW l \in Leases, Admit(r, l)
      PROVE  Inv'
    BY <1>1, AdmitStep
<1>2. ASSUME NEW l \in Leases, Reject(l)
      PROVE  Inv'
    <2>1. TokenType' /\ \A q \in Keys : token_totals'[q] <= token_totals[q]
        BY <1>0, <1>2, DropOldStep, LeaseKey
           DEF Reject, AcquireRejected, Inv, TokenType, tokenVars
    <2>2. TypeOK'
        BY <1>0, <1>2, <2>1, TypePartsPrimed
           DEF Reject, AcquireRejected, SlotType, GuardType, slotVars, guardVars
    <2> QED
        BY <1>2, <2>1, <2>2, SlotsUntouched DEF Reject, AcquireRejected
<1>3. ASSUME NEW l \in Leases, AdmitAndGiveBack(l)
      PROVE  Inv'
    <2>1. TokenType' /\ \A q \in Keys : token_totals'[q] <= token_totals[q]
        BY <1>3, DropOldStep, LeaseKey DEF AdmitAndGiveBack, Inv
    <2>2. TypeOK'
        BY <1>0, <1>3, <2>1, TypePartsPrimed
           DEF AdmitAndGiveBack, SlotType, GuardType, slotVars, guardVars
    <2> QED
        BY <1>3, <2>1, <2>2, SlotsUntouched DEF AdmitAndGiveBack
<1>4. ASSUME NEW r \in Requests, NEW tokens \in 0..MaxUsage, NEW failed \in BOOLEAN,
             Finish(r, tokens, failed)
      PROVE  Inv'
    BY <1>4, FinishStep
<1>5. ASSUME NEW r \in Requests, FailedHeader(r)
      PROVE  Inv'
    <2>1. GuardType'
        BY <1>0, <1>5, RetryEventStep, LeaseKey DEF FailedHeader, SlotType, Inv
    <2>2. TypeOK'
        BY <1>0, <1>5, <2>1, TypePartsPrimed
           DEF FailedHeader, SlotType, TokenType, slotVars, tokenVars
    <2> QED
        BY <1>0, <1>5, <2>2, SlotsUntouched DEF FailedHeader, tokenVars
<1>6. CASE Tick
    <2>1. TypeOK'
        BY <1>0, <1>6, TypePartsPrimed
           DEF Tick, SlotType, TokenType, GuardType, slotVars, tokenVars, guardVars
    <2> QED
        BY <1>0, <1>6, <2>1, SlotsUntouched DEF Tick, tokenVars
<1>7. CASE UNCHANGED vars
    <2>1. TypeOK'
        BY <1>0, <1>7, TypePartsPrimed
           DEF vars, SlotType, TokenType, GuardType, slotVars, tokenVars, guardVars
    <2> QED
        BY <1>0, <1>7, <2>1, SlotsUntouched DEF vars, tokenVars
<1> QED
    BY <1>1, <1>2, <1>3, <1>4, <1>5, <1>6, <1>7 DEF Next

-----------------------------------------------------------------------------
(* Results.                                                                 *)

\* The invariant holds in every reachable state of the controller.
THEOREM Invariance == Spec => []Inv
<1>1. Init => Inv
    BY InvInit
<1>2. Inv /\ [Next]_vars => Inv'
    BY InvNext
<1> QED
    BY <1>1, <1>2, PTL DEF Spec

\* Counters, gauge and queues stay well formed; in particular neither a counter
\* nor the in-flight gauge ever goes below zero.
THEOREM TypeCorrect == Spec => []TypeOK
<1>1. Inv => TypeOK
    BY DEF Inv
<1> QED
    BY <1>1, Invariance, PTL

\* Counters and gauge always equal the number of leases outstanding.
THEOREM SlotAccounting == Spec => []SlotsMatchLeases
<1>1. Inv => SlotsMatchLeases
    BY DEF Inv
<1> QED
    BY <1>1, Invariance, PTL

\* No configured concurrency limit is ever exceeded by the leases handed out.
THEOREM LimitsRespected == Spec => []WithinLimits
<1>1. Inv => WithinLimits
    BY DEF Inv
<1> QED
    BY <1>1, Invariance, PTL

\* A token budget is overrun by less than the concurrency cap times the usage
\* of one request.
THEOREM BudgetOverrunBounded == Spec => []OversubscriptionBounded
<1>1. Inv => OversubscriptionBounded
    <2> SUFFICES ASSUME Inv, NEW k \in DOMAIN TokenBudget, Capped(k)
                 PROVE  token_totals[k] < TokenBudget[k].max_tokens + Cap(k) * MaxUsage
        BY DEF OversubscriptionBounded
    <2>1. k \in Keys /\ TokenBudget[k].max_tokens \in Nat
        BY BudgetAssumption DEF Positive
    <2>2. Cap(k) \in Nat /\ MaxUsage \in Nat
        BY <2>1, CapPositive, SizeAssumption DEF MaxUsage
    <2>3. active_by_department_model[k] \in Nat /\ token_totals[k] \in Nat
        BY <2>1 DEF Inv, TypeOK
    <2>4. active_by_department_model[k] * MaxUsage \in Nat /\ Cap(k) * MaxUsage \in Nat
        BY <2>2, <2>3, Reserve
    <2>5. token_totals[k] + active_by_department_model[k] * MaxUsage
            < TokenBudget[k].max_tokens + Cap(k) * MaxUsage
        BY DEF Inv, BudgetReserve
    <2> QED
        BY <2>1, <2>3, <2>4, <2>5
<1> QED
    BY <1>1, Invariance, PTL

-----------------------------------------------------------------------------
(* Queues in the order of time.                                             *)

\* The entries of a queue came in the order of the clock.
Ordered(times) ==
    /\ \A i \in DOMAIN times : times[i] \in Nat /\ times[i] <= now
    /\ \A i, j \in DOMAIN times : i <= j => times[i] <= times[j]

\* A set of positions closed to the left is a prefix.
LEMMA PrefixOfPositions ==
    ASSUME NEW n \in Nat, NEW E \in SUBSET (1..n),
           \A j \in E : \A i \in 1..j : i \in E
    PROVE  /\ Cardinality(E) \in 0..n
           /\ E = 1..Cardinality(E)
<1>1. CASE E = 1..n
    <2>1. Cardinality(1..n) = n
        BY FS_Interval
    <2> QED
        BY <1>1, <2>1
<1>2. CASE E # 1..n
    <2> DEFINE Missing == (1..n) \ E
    <2>0. Missing # {}
        <3>1. E \subseteq 1..n
            OBVIOUS
        <3> QED
            BY <1>2, <3>1, Zenon
    <2>1. Missing # {} /\ Missing \subseteq Nat
        BY <2>0
    <2>2. PICK b \in Missing : \A p \in Missing : ~ (<<p, b>> \in OpToRel(<, Nat))
        BY <2>1, WFMin, NatLessThanWellFounded
    <2>3. \A p \in Missing : ~ (p < b)
        BY <2>1, <2>2 DEF OpToRel
    <2>4. E = 1..(b - 1)
        <3>1. b \in 1..n /\ b \notin E
            OBVIOUS
        <3>2. ASSUME NEW i \in E
              PROVE  i \in 1..(b - 1)
            <4>1. i \in 1..n
                OBVIOUS
            <4>2. ~ (b <= i)
                BY <3>1, <4>1
            <4> QED
                BY <3>1, <4>1, <4>2
        <3>3. ASSUME NEW i \in 1..(b - 1)
              PROVE  i \in E
            BY <2>3, <3>1
        <3> QED
            BY <3>2, <3>3
    <2>5. Cardinality(1..(b - 1)) = b - 1
        BY FS_Interval
    <2> QED
        BY <2>1, <2>4, <2>5
<1> QED
    BY <1>1, <1>2

\* The pop-left loop removes exactly what is out of the window.
LEMMA ExpiredPrefix ==
    ASSUME NEW n \in Nat, NEW times, DOMAIN times = 1..n, Ordered(times), now \in Nat,
           NEW window \in Nat
    PROVE  /\ ExpiredCount(times, window) \in 0..n
           /\ \A i \in 1..n :
                 i <= ExpiredCount(times, window) <=> now - times[i] > window
<1> DEFINE E == {j \in DOMAIN times : \A i \in 1..j : now - times[i] > window}
<1>1. /\ Cardinality(E) \in 0..n
      /\ E = 1..Cardinality(E)
    <2>1. E \in SUBSET (1..n)
        OBVIOUS
    <2>2. \A j \in E : \A i \in 1..j : i \in E
        OBVIOUS
    <2> HIDE DEF E
    <2> QED
        BY <2>1, <2>2, PrefixOfPositions
<1>2. ASSUME NEW i \in 1..n
      PROVE  i \in E <=> now - times[i] > window
    <2>1. \A h \in 1..i : h \in 1..n /\ times[h] \in Nat /\ times[h] <= times[i]
        BY DEF Ordered
    <2> QED
        BY <2>1
<1>3. ExpiredCount(times, window) = Cardinality(E)
    BY DEF ExpiredCount
<1>4. \A i \in 1..n : i \in E <=> i <= Cardinality(E)
    <2> HIDE DEF E
    <2> QED
        BY <1>1
<1> HIDE DEF E
<1> QED
    BY <1>1, <1>2, <1>3, <1>4

-----------------------------------------------------------------------------
(* Counting tokens.                                                         *)

\* What TokensAt counts.
Units(events, places) ==
    {u \in places \X (1..MaxUsage) : u[2] <= events[u[1]].tokens}

\* A unit is a place and the number of a token.
LEMMA SameUnit ==
    ASSUME NEW events, NEW places, NEW u \in Units(events, places),
           NEW v \in Units(events, places), u[1] = v[1], u[2] = v[2]
    PROVE  u = v
<1>1. u = <<u[1], u[2]>> /\ v = <<v[1], v[2]>>
    BY DEF Units
<1> QED
    BY <1>1

\* Tokens at disjoint places add up.
LEMMA TokensAddUp ==
    ASSUME NEW events, NEW I, NEW J, IsFiniteSet(I), IsFiniteSet(J), I \cap J = {}
    PROVE  TokensAt(events, I \cup J) = TokensAt(events, I) + TokensAt(events, J)
<1>1. IsFiniteSet(Units(events, I)) /\ IsFiniteSet(Units(events, J))
    BY TokensAtType DEF Units
<1>2. Units(events, I \cup J) = Units(events, I) \cup Units(events, J)
    BY DEF Units
<1>3. Units(events, I) \cap Units(events, J) = {}
    BY DEF Units
<1>4. Cardinality(Units(events, I) \cap Units(events, J)) = 0
    BY <1>3, FS_EmptySet
<1>5. Cardinality(Units(events, I)) \in Nat /\ Cardinality(Units(events, J)) \in Nat
    BY <1>1, FS_CardinalityType
<1>6. Cardinality(Units(events, I) \cup Units(events, J))
        = Cardinality(Units(events, I)) + Cardinality(Units(events, J))
    <2> DEFINE A == Units(events, I)
               B == Units(events, J)
    <2>1. Cardinality(A \cup B) = Cardinality(A) + Cardinality(B) - Cardinality(A \cap B)
        BY <1>1, FS_Union
    <2> QED
        BY <1>4, <1>5, <2>1
<1> QED
    BY <1>2, <1>6 DEF TokensAt, Units

\* One event counts for the tokens it was charged with.
LEMMA TokensOfOne ==
    ASSUME NEW events, NEW i, events[i].tokens \in 0..MaxUsage
    PROVE  TokensAt(events, {i}) = events[i].tokens
<1> DEFINE t == events[i].tokens
<1>0. MaxUsage \in Nat
    BY SizeAssumption DEF MaxUsage
<1>1. Units(events, {i}) = {i} \X (1..t)
    BY <1>0 DEF Units
<1>2. IsFiniteSet({i}) /\ Cardinality({i}) = 1
    BY FS_Singleton
<1>3. IsFiniteSet(1..t) /\ Cardinality(1..t) = t
    <2>1. t \in Nat
        BY <1>0
    <2> HIDE DEF t
    <2> QED
        BY <2>1, FS_Interval
<1>4. Cardinality({i} \X (1..t)) = 1 * t
    BY <1>2, <1>3, FS_Product
<1> HIDE DEF t
<1>5. t \in Nat
    BY <1>0 DEF t
<1>6. Cardinality(Units(events, {i})) = t
    <2>1. 1 * t = t
        BY <1>5
    <2>2. Cardinality(Units(events, {i})) = 1 * t
        BY <1>1, <1>4, Zenon
    <2> QED
        BY <2>1, <2>2
<1> QED
    BY <1>6 DEF TokensAt, Units, t

\* The count depends on the tokens at the places only.
LEMMA SameTokens ==
    ASSUME NEW e, NEW f, NEW I, \A i \in I : e[i].tokens = f[i].tokens
    PROVE  TokensAt(e, I) = TokensAt(f, I)
<1>1. Units(e, I) = Units(f, I)
    BY DEF Units
<1> QED
    BY <1>1 DEF TokensAt, Units

\* Events that move up together keep their tokens.
LEMMA TokensShifted ==
    ASSUME NEW e, NEW f, NEW I, NEW J, IsFiniteSet(I), NEW n \in Int,
           I \subseteq Int, J = {i + n : i \in I},
           \A i \in I : e[i].tokens = f[i + n].tokens
    PROVE  TokensAt(e, I) = TokensAt(f, J)
<1> DEFINE g == [u \in Units(e, I) |-> <<u[1] + n, u[2]>>]
<1>1. IsFiniteSet(Units(e, I))
    BY TokensAtType DEF Units
<1>2. g \in Bijection(Units(e, I), Units(f, J))
    <2>1. \A u \in Units(e, I) : g[u] \in Units(f, J)
        BY DEF Units
    <2>2. ASSUME NEW u \in Units(e, I), NEW v \in Units(e, I), g[u] = g[v]
          PROVE  u = v
        <3>1. u[1] \in Int /\ v[1] \in Int
            BY DEF Units
        <3>2. u[1] + n = v[1] + n /\ u[2] = v[2]
            BY <2>2
        <3>3. u[1] = v[1]
            BY <3>1, <3>2
        <3> HIDE DEF g
        <3> QED
            BY <3>2, <3>3, SameUnit
    <2>3. ASSUME NEW w \in Units(f, J)
          PROVE  \E u \in Units(e, I) : g[u] = w
        <3>1. w = <<w[1], w[2]>> /\ w[1] \in J /\ w[2] \in 1..MaxUsage
              /\ w[2] <= f[w[1]].tokens
            BY DEF Units
        <3>2. PICK i \in I : w[1] = i + n
            BY <3>1
        <3>3. <<i, w[2]>> \in Units(e, I)
            BY <3>1, <3>2 DEF Units
        <3>4. g[<<i, w[2]>>] = <<i + n, w[2]>>
            BY <3>3
        <3> QED
            BY <3>1, <3>2, <3>3, <3>4
    <2> HIDE DEF g
    <2> QED
        <3>1. g \in [Units(e, I) -> Units(f, J)]
            BY <2>1 DEF g
        <3> QED
            BY <2>2, <2>3, <3>1, Fun_IsBij
<1>3. ExistsBijection(Units(e, I), Units(f, J))
    BY <1>2 DEF ExistsBijection
<1> QED
    BY <1>1, <1>3, FS_Bijection DEF TokensAt, Units

-----------------------------------------------------------------------------
(* What trimming and appending do to the entries of a queue.                *)

\* Dropping the first n entries moves the others up by n places.
LEMMA DropFirstEntries ==
    ASSUME NEW S, NEW q \in Seq(S), NEW n \in 0..Len(q)
    PROVE  /\ DropFirst(q, n) \in Seq(S)
           /\ Len(DropFirst(q, n)) = Len(q) - n
           /\ DOMAIN DropFirst(q, n) = 1..(Len(q) - n)
           /\ \A i \in 1..(Len(q) - n) : DropFirst(q, n)[i] = q[i + n]
<1>1. Len(q) \in Nat /\ \A i \in (n + 1)..Len(q) : q[i] \in S
    BY LenProperties
<1>2. n + 1 \in Int /\ Len(q) \in Int
    BY <1>1
<1>3. \A i \in 1..(Len(q) - (n + 1) + 1) :
         SubSeq(q, n + 1, Len(q))[i] = q[(n + 1) + i - 1]
    BY <1>1, <1>2, SubSeqProperties
<1>4. DropFirst(q, n) \in Seq(S) /\ Len(DropFirst(q, n)) = Len(q) - n
    BY DropFirstType
<1>5. DOMAIN DropFirst(q, n) = 1..(Len(q) - n)
    BY <1>4, LenProperties
<1>6. ASSUME NEW i \in 1..(Len(q) - n)
      PROVE  DropFirst(q, n)[i] = q[i + n]
    <2>1. i \in 1..(Len(q) - (n + 1) + 1) /\ (n + 1) + i - 1 = i + n
        BY <1>1
    <2> QED
        BY <1>3, <2>1 DEF DropFirst
<1> QED
    BY <1>4, <1>5, <1>6

\* An appended entry comes last.
LEMMA AppendEntries ==
    ASSUME NEW S, NEW q \in Seq(S), NEW e \in S
    PROVE  /\ Append(q, e) \in Seq(S)
           /\ Len(Append(q, e)) = Len(q) + 1
           /\ DOMAIN Append(q, e) = 1..(Len(q) + 1)
           /\ \A i \in 1..Len(q) : Append(q, e)[i] = q[i]
           /\ Append(q, e)[Len(q) + 1] = e
<1>1. Len(q) \in Nat
    BY LenProperties
<1>2. Append(q, e) \in Seq(S) /\ Len(Append(q, e)) = Len(q) + 1
    BY <1>1
<1>3. DOMAIN Append(q, e) = 1..(Len(q) + 1)
    BY <1>2, LenProperties
<1> QED
    BY <1>1, <1>2, <1>3

\* A trimmed queue, with the present time appended, is still in order.
LEMMA TrimmedInOrder ==
    ASSUME NEW f, NEW L \in Nat, DOMAIN f = 1..L, Ordered(f), now \in Nat,
           NEW n \in 0..L, NEW g
    PROVE  /\ (DOMAIN g = 1..(L - n) /\ \A i \in 1..(L - n) : g[i] = f[i + n]) => Ordered(g)
           /\ (/\ DOMAIN g = 1..(L - n + 1)
               /\ \A i \in 1..(L - n) : g[i] = f[i + n]
               /\ g[L - n + 1] = now) => Ordered(g)
<1>1. ASSUME NEW i \in 1..(L - n)
      PROVE  /\ i + n \in 1..L /\ f[i + n] \in Nat /\ f[i + n] <= now
             /\ \A j \in 1..(L - n) : i <= j => f[i + n] <= f[j + n]
    BY DEF Ordered
<1>2. CASE DOMAIN g = 1..(L - n) /\ \A i \in 1..(L - n) : g[i] = f[i + n]
    BY <1>1, <1>2 DEF Ordered
<1>3. CASE /\ DOMAIN g = 1..(L - n + 1)
           /\ \A i \in 1..(L - n) : g[i] = f[i + n]
           /\ g[L - n + 1] = now
    <2>1. \A i \in 1..(L - n + 1) : i \in 1..(L - n) \/ i = L - n + 1
        OBVIOUS
    <2>2. \A i \in 1..(L - n + 1) : g[i] \in Nat /\ g[i] <= now
        BY <1>1, <1>3, <2>1
    <2>3. ASSUME NEW i \in 1..(L - n + 1), NEW j \in 1..(L - n + 1), i <= j
          PROVE  g[i] <= g[j]
        <3>1. CASE j = L - n + 1
            BY <1>3, <2>2, <3>1
        <3>2. CASE j \in 1..(L - n)
            <4>1. i \in 1..(L - n)
                BY <2>3, <3>2
            <4> QED
                BY <1>1, <1>3, <2>3, <3>2, <4>1
        <3> QED
            BY <2>1, <3>1, <3>2
    <2> QED
        BY <1>3, <2>2, <2>3 DEF Ordered
<1> QED
    BY <1>2, <1>3

-----------------------------------------------------------------------------
(* The token windows.                                                       *)

\* Intervals are finite.
LEMMA IntervalFinite == \A a, b \in Int : IsFiniteSet(a..b)
BY FS_Interval

\* When the events of a key were charged.
ChargeTimes(k) == [i \in DOMAIN token_events[k] |-> token_events[k][i].at]

\* The deque is in order of time and the running total is the sum over it.
WindowOK(k) ==
    /\ Ordered(ChargeTimes(k))
    /\ token_totals[k] = TokensAt(token_events[k], DOMAIN token_events[k])

\* What _drop_old_token_events leaves behind is the window, no more and no less.
LEMMA FreshExact ==
    ASSUME TypeOK, NEW k \in DOMAIN TokenBudget, WindowOK(k),
           NEW L, L = Len(token_events[k]), NEW x, x = ExpiredEvents(k)
    PROVE  /\ L \in Nat /\ x \in 0..L /\ DOMAIN token_events[k] = 1..L
           /\ \A i \in 1..L :
                i > x <=> now - token_events[k][i].at <= TokenBudget[k].window_seconds
           /\ FreshTotal(k) = TokensAt(token_events[k], (x + 1)..L)
           /\ FreshEvents(k) \in Seq(TokenEvent)
           /\ Len(FreshEvents(k)) = L - x
           /\ DOMAIN FreshEvents(k) = 1..(L - x)
           /\ \A i \in 1..(L - x) : FreshEvents(k)[i] = token_events[k][i + x]
           /\ FreshTotal(k) = TokensAt(FreshEvents(k), DOMAIN FreshEvents(k))
<1> DEFINE ev == token_events[k]
           window == TokenBudget[k].window_seconds
<1>1. /\ k \in Keys /\ ev \in Seq(TokenEvent) /\ now \in Nat
      /\ token_totals[k] \in Nat /\ window \in Nat
    BY BudgetAssumption DEF TypeOK, TokenEvent, Positive
<1>2. L \in Nat /\ DOMAIN ev = 1..L /\ \A i \in 1..L : ev[i] \in TokenEvent
    BY <1>1, LenProperties
<1>3. DOMAIN ChargeTimes(k) = 1..L /\ \A i \in 1..L : ChargeTimes(k)[i] = ev[i].at
    BY <1>2 DEF ChargeTimes
<1>4. x = ExpiredCount(ChargeTimes(k), window)
    BY DEF ExpiredEvents, ChargeTimes
<1>5. /\ x \in 0..L
      /\ \A i \in 1..L : i <= x <=> now - ChargeTimes(k)[i] > window
    BY <1>1, <1>2, <1>3, <1>4, ExpiredPrefix DEF WindowOK
<1>6. ASSUME NEW i \in 1..L
      PROVE  i > x <=> now - ev[i].at <= window
    <2>1. ev[i].at \in Nat
        BY <1>2 DEF TokenEvent
    <2> HIDE DEF ev, window
    <2> QED
        BY <1>1, <1>2, <1>3, <1>5, <2>1
<1>7. FreshTotal(k) = TokensAt(ev, (x + 1)..L)
    <2>0. x \in Int /\ x + 1 \in Int /\ L \in Int
        BY <1>2, <1>5
    <2>1. IsFiniteSet(1..x) /\ IsFiniteSet((x + 1)..L)
        BY <2>0, IntervalFinite
    <2>2. (1..x) \cap ((x + 1)..L) = {} /\ (1..x) \cup ((x + 1)..L) = 1..L
        BY <1>2, <1>5
    <2>3. TokensAt(ev, 1..L) = TokensAt(ev, 1..x) + TokensAt(ev, (x + 1)..L)
        <3> HIDE DEF ev
        <3>1. TokensAt(ev, (1..x) \cup ((x + 1)..L))
                = TokensAt(ev, 1..x) + TokensAt(ev, (x + 1)..L)
            BY <2>1, <2>2, TokensAddUp
        <3> QED
            BY <2>2, <3>1
    <2>4. TokensAt(ev, 1..x) \in Nat /\ TokensAt(ev, (x + 1)..L) \in Nat
        BY <2>1, TokensAtType
    <2>5. token_totals[k] = TokensAt(ev, 1..L)
        BY <1>2 DEF WindowOK
    <2>6. FreshTotal(k) = MaxZero(token_totals[k] - TokensAt(ev, 1..x))
        BY DEF FreshTotal, TokensOfFirst
    <2> QED
        BY <2>3, <2>4, <2>5, <2>6 DEF MaxZero
<1>8. /\ FreshEvents(k) \in Seq(TokenEvent)
      /\ Len(FreshEvents(k)) = L - x
      /\ DOMAIN FreshEvents(k) = 1..(L - x)
      /\ \A i \in 1..(L - x) : FreshEvents(k)[i] = ev[i + x]
    BY <1>1, <1>5, DropFirstEntries DEF FreshEvents
<1>9. TokensAt(FreshEvents(k), 1..(L - x)) = TokensAt(ev, (x + 1)..L)
    <2>0. x \in Int /\ L - x \in Int /\ 1..(L - x) \subseteq Int
        BY <1>2, <1>5
    <2>1. IsFiniteSet(1..(L - x))
        BY <2>0, IntervalFinite
    <2>2. (x + 1)..L = {i + x : i \in 1..(L - x)}
        <3>1. ASSUME NEW j \in (x + 1)..L
              PROVE  j - x \in 1..(L - x) /\ j = (j - x) + x
            BY <1>2, <1>5
        <3>2. \A i \in 1..(L - x) : i + x \in (x + 1)..L
            BY <1>2, <1>5
        <3> QED
            BY <3>1, <3>2
    <2>3. \A i \in 1..(L - x) : FreshEvents(k)[i].tokens = ev[i + x].tokens
        BY <1>8
    <2> DEFINE e == FreshEvents(k)
               I == 1..(L - x)
               J == (x + 1)..L
    <2>4. /\ IsFiniteSet(I) /\ x \in Int /\ I \subseteq Int
          /\ J = {i + x : i \in I}
          /\ \A i \in I : e[i].tokens = ev[i + x].tokens
        BY <2>0, <2>1, <2>2, <2>3
    <2>5. TokensAt(e, I) = TokensAt(ev, J)
        <3> HIDE DEF ev, e, I, J
        <3> QED
            BY <2>4, TokensShifted
    <2> QED
        BY <2>5
<1> QED
    BY <1>2, <1>5, <1>6, <1>7, <1>8, <1>9

\* acquire() refuses on the budget exactly when the tokens in the window
\* reach it.
LEMMA BudgetDecision ==
    ASSUME TypeOK, NEW k \in DOMAIN TokenBudget, WindowOK(k)
    PROVE  FreshTotal(k) =
             TokensAt(token_events[k],
                      {i \in DOMAIN token_events[k] :
                         now - token_events[k][i].at <= TokenBudget[k].window_seconds})
<1> DEFINE L == Len(token_events[k])
           x == ExpiredEvents(k)
           W == {i \in DOMAIN token_events[k] :
                   now - token_events[k][i].at <= TokenBudget[k].window_seconds}
<1>1. /\ L \in Nat /\ x \in 0..L /\ DOMAIN token_events[k] = 1..L
      /\ \A i \in 1..L :
           i > x <=> now - token_events[k][i].at <= TokenBudget[k].window_seconds
      /\ FreshTotal(k) = TokensAt(token_events[k], (x + 1)..L)
    BY FreshExact
<1>2. W = (x + 1)..L
    <2>1. W = {i \in 1..L : i > x}
        BY <1>1
    <2> HIDE DEF W, L, x
    <2> QED
        BY <1>1, <2>1
<1> HIDE DEF L, x
<1> QED
    BY <1>1, <1>2

-----------------------------------------------------------------------------
(* The calls keep the windows in order and the totals exact.                *)

\* Time passes, and other keys are served.
LEMMA WindowUntouched ==
    ASSUME TypeOK, NEW k \in Keys, WindowOK(k), now' \in Nat, now <= now',
           token_events'[k] = token_events[k], token_totals'[k] = token_totals[k]
    PROVE  WindowOK(k)'
<1>1. ChargeTimes(k)' = ChargeTimes(k)
    BY DEF ChargeTimes
<1>2. Ordered(ChargeTimes(k))'
    <2> DEFINE T == ChargeTimes(k)
    <2>1. Ordered(T) /\ now \in Nat
        BY DEF WindowOK, TypeOK
    <2>2. T' = T
        BY <1>1
    <2> HIDE DEF T
    <2>3. Ordered(T)'
        BY <2>1, <2>2 DEF Ordered
    <2> QED
        BY <2>3 DEF T
<1>3. token_totals'[k] = TokensAt(token_events'[k], DOMAIN token_events'[k])
    BY DEF WindowOK
<1> QED
    BY <1>2, <1>3 DEF WindowOK, TokensAt

\* acquire() trims the window of its key.
LEMMA DropKeepsWindow ==
    ASSUME TypeOK, NEW k \in DOMAIN TokenBudget, WindowOK(k), DropOldTokenEvents(k),
           now' = now
    PROVE  WindowOK(k)'
<1> DEFINE L == Len(token_events[k])
           x == ExpiredEvents(k)
           F == FreshEvents(k)
<1>1. /\ L \in Nat /\ x \in 0..L /\ DOMAIN token_events[k] = 1..L
      /\ F \in Seq(TokenEvent) /\ Len(F) = L - x /\ DOMAIN F = 1..(L - x)
      /\ \A i \in 1..(L - x) : F[i] = token_events[k][i + x]
      /\ FreshTotal(k) = TokensAt(F, DOMAIN F)
    <2>1. L = Len(token_events[k]) /\ x = ExpiredEvents(k)
        OBVIOUS
    <2> HIDE DEF L, x
    <2> QED
        BY <2>1, FreshExact
<1>2. k \in Keys /\ now \in Nat
    BY BudgetAssumption DEF TypeOK
<1>3. token_events'[k] = F /\ token_totals'[k] = FreshTotal(k)
    BY <1>2 DEF DropOldTokenEvents, TypeOK
<1> HIDE DEF F, x, L
<1>4. Ordered(ChargeTimes(k)')
    <2>1. /\ DOMAIN ChargeTimes(k) = 1..L /\ Ordered(ChargeTimes(k))
          /\ \A i \in 1..L : ChargeTimes(k)[i] = token_events[k][i].at
        BY <1>1 DEF ChargeTimes, WindowOK
    <2>2. /\ DOMAIN ChargeTimes(k)' = 1..(L - x)
          /\ \A i \in 1..(L - x) : ChargeTimes(k)'[i] = token_events[k][i + x].at
        BY <1>1, <1>3 DEF ChargeTimes
    <2>3. \A i \in 1..(L - x) : ChargeTimes(k)'[i] = ChargeTimes(k)[i + x]
        <3>1. \A i \in 1..(L - x) : i + x \in 1..L
            BY <1>1
        <3> QED
            BY <2>1, <2>2, <3>1
    <2> QED
        BY <1>1, <1>2, <2>1, <2>2, <2>3, TrimmedInOrder
<1>5. Ordered(ChargeTimes(k))'
    BY <1>4 DEF Ordered
<1> QED
    BY <1>1, <1>3, <1>5 DEF WindowOK, TokensAt

\* record_tokens() trims the window of its key and charges it.
LEMMA ChargeKeepsWindow ==
    ASSUME TypeOK, NEW k \in DOMAIN TokenBudget, WindowOK(k),
           NEW tokens \in 1..MaxUsage, Enabled, RecordTokens(k, tokens), now' = now
    PROVE  WindowOK(k)'
<1> DEFINE L == Len(token_events[k])
           x == ExpiredEvents(k)
           F == FreshEvents(k)
           n == L - x
           e == [at |-> now, tokens |-> tokens]
           G == Append(F, e)
<1>1. /\ L \in Nat /\ x \in 0..L /\ DOMAIN token_events[k] = 1..L
      /\ F \in Seq(TokenEvent) /\ Len(F) = L - x /\ DOMAIN F = 1..(L - x)
      /\ \A i \in 1..(L - x) : F[i] = token_events[k][i + x]
      /\ FreshTotal(k) = TokensAt(F, DOMAIN F)
    BY FreshExact
<1>2. k \in Keys /\ now \in Nat /\ MaxUsage \in Nat
    BY BudgetAssumption, SizeAssumption DEF TypeOK, MaxUsage
<1>3. token_events'[k] = G /\ token_totals'[k] = FreshTotal(k) + tokens
    BY <1>2 DEF RecordTokens, TypeOK
<1>4. n \in Nat /\ n + 1 \in Nat /\ n \in Int /\ n + 1 \in Int
    BY <1>1
<1>5. e \in TokenEvent
    BY <1>2 DEF TokenEvent
<1>6. /\ DOMAIN G = 1..(n + 1)
      /\ \A i \in 1..n : G[i] = F[i]
      /\ G[n + 1] = e
    BY <1>1, <1>5, AppendEntries
<1>7. G[n + 1].tokens = tokens /\ G[n + 1].at = now
    <2>1. e.tokens = tokens /\ e.at = now
        OBVIOUS
    <2> HIDE DEF e, G, n
    <2> QED
        BY <1>6, <2>1
<1>8. /\ DOMAIN ChargeTimes(k) = 1..L /\ Ordered(ChargeTimes(k))
      /\ \A i \in 1..L : ChargeTimes(k)[i] = token_events[k][i].at
    BY <1>1 DEF ChargeTimes, WindowOK
<1>9. \A i \in 1..n : G[i].at = ChargeTimes(k)[i + x]
    <2>1. \A i \in 1..n : i + x \in 1..L
        BY <1>1
    <2> HIDE DEF F, G, e, L, x
    <2> QED
        BY <1>1, <1>6, <1>8, <2>1
<1>10. \A i \in 1..n : F[i].tokens = G[i].tokens
    BY <1>6
<1>11. FreshTotal(k) = TokensAt(F, 1..n)
    BY <1>1
<1> HIDE DEF F, G, e
<1>12. Ordered(ChargeTimes(k)')
    <2>1. /\ DOMAIN ChargeTimes(k)' = 1..(n + 1)
          /\ \A i \in 1..(n + 1) : ChargeTimes(k)'[i] = G[i].at
        BY <1>3, <1>6 DEF ChargeTimes
    <2>2. /\ \A i \in 1..n : ChargeTimes(k)'[i] = ChargeTimes(k)[i + x]
          /\ ChargeTimes(k)'[n + 1] = now
        BY <1>4, <1>7, <1>9, <2>1
    <2> HIDE DEF L, x
    <2> QED
        BY <1>1, <1>2, <1>8, <2>1, <2>2, TrimmedInOrder
<1>13. Ordered(ChargeTimes(k))'
    BY <1>12 DEF Ordered
<1> HIDE DEF n, L, x
<1>14. TokensAt(G, 1..(n + 1)) = FreshTotal(k) + tokens
    <2>1. IsFiniteSet(1..n) /\ IsFiniteSet({n + 1})
        <3>1. IsFiniteSet(1..n)
            BY <1>4, IntervalFinite
        <3> QED
            BY <3>1, FS_Singleton
    <2>2. (1..n) \cap {n + 1} = {} /\ (1..n) \cup {n + 1} = 1..(n + 1)
        BY <1>4
    <2>3. TokensAt(G, (1..n) \cup {n + 1}) = TokensAt(G, 1..n) + TokensAt(G, {n + 1})
        BY <2>1, <2>2, TokensAddUp
    <2>4. TokensAt(G, {n + 1}) = tokens
        <3>1. G[n + 1].tokens \in 0..MaxUsage
            BY <1>2, <1>7
        <3> QED
            BY <1>7, <3>1, TokensOfOne
    <2>5. TokensAt(F, 1..n) = TokensAt(G, 1..n)
        BY <1>10, SameTokens
    <2> QED
        BY <1>11, <2>2, <2>3, <2>4, <2>5
<1> QED
    BY <1>3, <1>6, <1>13, <1>14 DEF WindowOK, TokensAt

-----------------------------------------------------------------------------
(* The retry guard.                                                         *)

\* The retry queues are in order of time, short, and empty while the guard is
\* open.
GuardInv ==
    /\ \A k \in Keys : Ordered(retry_events[k])
    /\ RetryQueueBelowThreshold

\* The queue after one more failure: the failures still in the window, in
\* order, and the present one.
LEMMA RetryQueueEntries ==
    ASSUME TypeOK, NEW k \in Keys, Ordered(retry_events[k]),
           NEW L, L = Len(retry_events[k]),
           NEW x, x = ExpiredCount(retry_events[k], RetryGuard.window_seconds)
    PROVE  /\ L \in Nat /\ x \in 0..L /\ DOMAIN retry_events[k] = 1..L
           /\ \A i \in 1..L :
                i > x <=> now - retry_events[k][i] <= RetryGuard.window_seconds
           /\ Len(RetryQueue(k)) = L - x + 1
           /\ Ordered(RetryQueue(k))
<1> DEFINE ev == retry_events[k]
           window == RetryGuard.window_seconds
           D == DropFirst(ev, x)
<1>1. ev \in Seq(Nat) /\ now \in Nat /\ window \in Nat
    BY GuardAssumption DEF TypeOK, Positive
<1>2. L \in Nat /\ DOMAIN ev = 1..L /\ \A i \in 1..L : ev[i] \in Nat
    BY <1>1, LenProperties
<1>3. /\ x \in 0..L
      /\ \A i \in 1..L : i <= x <=> now - ev[i] > window
    BY <1>1, <1>2, ExpiredPrefix
<1>4. ASSUME NEW i \in 1..L
      PROVE  i > x <=> now - ev[i] <= window
    <2>1. ev[i] \in Nat /\ (i <= x <=> now - ev[i] > window)
        BY <1>2, <1>3
    <2> HIDE DEF ev, window
    <2> QED
        BY <1>1, <1>2, <1>3, <2>1
<1>5. /\ D \in Seq(Nat) /\ Len(D) = L - x
      /\ \A i \in 1..(L - x) : D[i] = ev[i + x]
    BY <1>1, <1>3, DropFirstEntries
<1>6. RetryQueue(k) = Append(D, now)
    BY DEF RetryQueue
<1> HIDE DEF D
<1>7. /\ Len(Append(D, now)) = L - x + 1
      /\ DOMAIN Append(D, now) = 1..(L - x + 1)
      /\ \A i \in 1..(L - x) : Append(D, now)[i] = D[i]
      /\ Append(D, now)[L - x + 1] = now
    BY <1>1, <1>5, AppendEntries
<1> DEFINE G == Append(D, now)
<1>8. /\ DOMAIN G = 1..(L - x + 1)
      /\ \A i \in 1..(L - x) : G[i] = ev[i + x]
      /\ G[L - x + 1] = now
    BY <1>5, <1>7
<1>9. Ordered(G)
    <2> HIDE DEF G, ev
    <2>1. Ordered(ev)
        BY DEF ev
    <2> QED
        BY <1>1, <1>2, <1>3, <1>8, <2>1, TrimmedInOrder
<1> QED
    BY <1>2, <1>3, <1>4, <1>6, <1>7, <1>9

\* Time passes; no failure is recorded.
LEMMA GuardUntouched ==
    ASSUME TypeOK, GuardInv, UNCHANGED guardVars, now' \in Nat, now <= now'
    PROVE  GuardInv'
<1>1. ASSUME NEW k \in Keys
      PROVE  Ordered(retry_events[k])'
    <2> DEFINE T == retry_events[k]
    <2>1. Ordered(T) /\ now \in Nat
        BY DEF GuardInv, TypeOK
    <2>2. T' = T
        BY DEF guardVars
    <2> HIDE DEF T
    <2>3. Ordered(T)'
        BY <2>1, <2>2 DEF Ordered
    <2> QED
        BY <2>3 DEF T
<1>2. RetryQueueBelowThreshold'
    BY DEF GuardInv, RetryQueueBelowThreshold, GuardOpen, guardVars, TypeOK
<1> QED
    BY <1>1, <1>2 DEF GuardInv

\* record_retry_event() keeps the queue short: it is emptied when it reaches
\* max_events, and left alone while the guard is open.
LEMMA RetryKeepsGuard ==
    ASSUME TypeOK, GuardInv, NEW k \in Keys, RecordRetryEvent(k), now' = now
    PROVE  GuardInv'
<1>0. /\ RetryGuard.max_events \in Positive /\ now \in Nat
      /\ retry_events \in [Keys -> Seq(Nat)] /\ cooldown_until \in [Keys -> Nat]
    BY GuardAssumption DEF TypeOK
<1>1. CASE ~Enabled \/ ~RetryGuard.enabled \/ GuardOpen(k)
    BY <1>0, <1>1, GuardUntouched DEF RecordRetryEvent
<1>2. CASE /\ ~(~Enabled \/ ~RetryGuard.enabled \/ GuardOpen(k))
           /\ Len(RetryQueue(k)) >= RetryGuard.max_events
    <2>1. /\ cooldown_until' =
               [cooldown_until EXCEPT ![k] = now + RetryGuard.cooldown_seconds]
          /\ retry_events' = [retry_events EXCEPT ![k] = <<>>]
        BY <1>2 DEF RecordRetryEvent
    <2>2. \A q \in Keys : /\ q = k => retry_events'[q] = <<>>
                          /\ q # k => /\ retry_events'[q] = retry_events[q]
                                       /\ cooldown_until'[q] = cooldown_until[q]
        BY <1>0, <2>1
    <2>3. \A q \in Keys : Ordered(retry_events'[q])
        BY <2>2 DEF Ordered, GuardInv
    <2>4. \A q \in Keys : Ordered(retry_events[q])'
        BY <2>3 DEF Ordered
    <2>5. RetryQueueBelowThreshold'
        BY <1>0, <2>2 DEF RetryQueueBelowThreshold, GuardInv, GuardOpen, Positive
    <2> QED
        BY <2>4, <2>5 DEF GuardInv
<1>3. CASE /\ ~(~Enabled \/ ~RetryGuard.enabled \/ GuardOpen(k))
           /\ ~(Len(RetryQueue(k)) >= RetryGuard.max_events)
    <2>1. /\ retry_events' = [retry_events EXCEPT ![k] = RetryQueue(k)]
          /\ cooldown_until' = cooldown_until
        BY <1>3 DEF RecordRetryEvent
    <2>2. \A q \in Keys : /\ q = k => retry_events'[q] = RetryQueue(k)
                          /\ q # k => retry_events'[q] = retry_events[q]
        BY <1>0, <2>1
    <2>3. Ordered(RetryQueue(k)) /\ RetryQueue(k) \in Seq(Nat)
        BY RetryQueueEntries, RetryQueueType DEF GuardInv
    <2>4. \A q \in Keys : Ordered(retry_events'[q])
        BY <2>2, <2>3 DEF GuardInv
    <2>5. \A q \in Keys : Ordered(retry_events[q])'
        BY <2>4 DEF Ordered
    <2>6. Len(RetryQueue(k)) < RetryGuard.max_events
        BY <1>0, <1>3, <2>3, LenProperties DEF Positive
    <2>7. RetryQueueBelowThreshold'
        BY <1>0, <1>3, <2>1, <2>2, <2>6 DEF RetryQueueBelowThreshold, GuardInv, GuardOpen
    <2> QED
        BY <2>5, <2>7 DEF GuardInv
<1> QED
    BY <1>1, <1>2, <1>3

\* A cooldown starts only with the failure that completes a burst.
LEMMA RetryOpensOnBurst ==
    ASSUME TypeOK, GuardInv, NEW k \in Keys, RecordRetryEvent(k)
    PROVE  BurstStep
<1> DEFINE L == Len(retry_events[k])
           x == ExpiredCount(retry_events[k], RetryGuard.window_seconds)
           recent == {i \in DOMAIN retry_events[k] :
                        now - retry_events[k][i] <= RetryGuard.window_seconds}
<1>0. /\ RetryGuard.max_events \in Positive
      /\ cooldown_until \in [Keys -> Nat]
    BY GuardAssumption DEF TypeOK
<1>1. SUFFICES ASSUME NEW q \in Keys, cooldown_until'[q] # cooldown_until[q]
               PROVE  /\ q = k
                      /\ ~GuardOpen(k)
                      /\ cooldown_until'[k] = now + RetryGuard.cooldown_seconds
                      /\ Cardinality(recent) = RetryGuard.max_events - 1
    BY DEF BurstStep
<1>2. /\ ~GuardOpen(k)
      /\ Len(RetryQueue(k)) >= RetryGuard.max_events
      /\ cooldown_until' =
           [cooldown_until EXCEPT ![k] = now + RetryGuard.cooldown_seconds]
    BY <1>1 DEF RecordRetryEvent, guardVars
<1>3. q = k /\ cooldown_until'[k] = now + RetryGuard.cooldown_seconds
    BY <1>0, <1>1, <1>2
<1>4. L < RetryGuard.max_events
    BY DEF GuardInv, RetryQueueBelowThreshold
<1>5. /\ L \in Nat /\ x \in 0..L /\ DOMAIN retry_events[k] = 1..L
      /\ \A i \in 1..L :
           i > x <=> now - retry_events[k][i] <= RetryGuard.window_seconds
      /\ Len(RetryQueue(k)) = L - x + 1
    BY RetryQueueEntries DEF GuardInv
<1>6. recent = {i \in 1..L : i > x}
    BY <1>5
<1> HIDE DEF L, x, recent
<1>7. x = 0 /\ L = RetryGuard.max_events - 1
    BY <1>0, <1>2, <1>4, <1>5 DEF Positive
<1>8. recent = 1..L
    BY <1>5, <1>6, <1>7
<1>9. Cardinality(1..L) = L
    BY <1>5, FS_Interval
<1> QED
    BY <1>2, <1>3, <1>7, <1>8, <1>9

-----------------------------------------------------------------------------
(* The inductive invariant.                                                 *)

WindowsOK == \A k \in DOMAIN TokenBudget : WindowOK(k)

WindowInv == Inv /\ WindowsOK /\ GuardInv

\* Time passes; no token is charged and no window trimmed.
LEMMA WindowsUntouched ==
    ASSUME TypeOK, WindowsOK, UNCHANGED tokenVars, now' \in Nat, now <= now'
    PROVE  WindowsOK'
<1>1. ASSUME NEW k \in DOMAIN TokenBudget
      PROVE  WindowOK(k)'
    <2>1. k \in Keys /\ WindowOK(k)
        BY BudgetAssumption DEF WindowsOK
    <2> QED
        BY <2>1, WindowUntouched DEF tokenVars
<1> QED
    BY <1>1 DEF WindowsOK

\* acquire() keeps every window, that of its own key included.
LEMMA DropKeepsWindows ==
    ASSUME TypeOK, WindowsOK, NEW key \in Keys, DropOldTokenEvents(key), now' = now
    PROVE  WindowsOK'
<1>1. CASE key \in DOMAIN TokenBudget
    <2>1. ASSUME NEW k \in DOMAIN TokenBudget
          PROVE  WindowOK(k)'
        <3>1. k \in Keys /\ WindowOK(k)
            BY BudgetAssumption DEF WindowsOK
        <3>2. CASE k = key
            BY <3>1, <3>2, DropKeepsWindow
        <3>3. CASE k # key
            <4>1. token_events'[k] = token_events[k] /\ token_totals'[k] = token_totals[k]
                BY <1>1, <3>1, <3>3 DEF DropOldTokenEvents, TypeOK
            <4>2. now' \in Nat /\ now <= now'
                BY DEF TypeOK
            <4> QED
                BY <3>1, <4>1, <4>2, WindowUntouched
        <3> QED
            BY <3>2, <3>3
    <2> QED
        BY <2>1 DEF WindowsOK
<1>2. CASE key \notin DOMAIN TokenBudget
    <2>1. UNCHANGED tokenVars
        BY <1>2 DEF DropOldTokenEvents
    <2>2. now' \in Nat /\ now <= now'
        BY DEF TypeOK
    <2> QED
        BY <2>1, <2>2, WindowsUntouched
<1> QED
    BY <1>1, <1>2

\* record_tokens() keeps every window, that of its own key included.
LEMMA ChargeKeepsWindows ==
    ASSUME TypeOK, WindowsOK, NEW key \in Keys, NEW tokens \in 0..MaxUsage,
           RecordTokens(key, tokens), now' = now
    PROVE  WindowsOK'
<1>0. MaxUsage \in Nat /\ now' \in Nat /\ now <= now'
    BY SizeAssumption DEF TypeOK, MaxUsage
<1>1. CASE Enabled /\ tokens > 0 /\ key \in DOMAIN TokenBudget
    <2>0. tokens \in 1..MaxUsage
        BY <1>0, <1>1
    <2>1. ASSUME NEW k \in DOMAIN TokenBudget
          PROVE  WindowOK(k)'
        <3>1. k \in Keys /\ WindowOK(k)
            BY BudgetAssumption DEF WindowsOK
        <3>2. CASE k = key
            BY <1>1, <2>0, <3>1, <3>2, ChargeKeepsWindow
        <3>3. CASE k # key
            <4>1. token_events'[k] = token_events[k] /\ token_totals'[k] = token_totals[k]
                BY <1>1, <3>1, <3>3 DEF RecordTokens, TypeOK
            <4> QED
                BY <1>0, <3>1, <4>1, WindowUntouched
        <3> QED
            BY <3>2, <3>3
    <2> QED
        BY <2>1 DEF WindowsOK
<1>2. CASE ~(Enabled /\ tokens > 0 /\ key \in DOMAIN TokenBudget)
    BY <1>0, <1>2, WindowsUntouched DEF RecordTokens
<1> QED
    BY <1>1, <1>2

\* A controller without a history has empty queues.
LEMMA WindowInvInit == Init => WindowInv
<1> SUFFICES ASSUME Init PROVE WindowInv
    OBVIOUS
<1>1. Inv
    BY InvInit
<1>2. ASSUME NEW k \in DOMAIN TokenBudget
      PROVE  WindowOK(k)
    <2>1. k \in Keys /\ token_events[k] = <<>> /\ token_totals[k] = 0
        BY BudgetAssumption DEF Init
    <2>2. ChargeTimes(k) = <<>>
        BY <2>1 DEF ChargeTimes
    <2>3. DOMAIN token_events[k] = {}
        BY <2>1
    <2>4. TokensAt(token_events[k], {}) = 0
        <3>1. {u \in {} \X (1..MaxUsage) : u[2] <= token_events[k][u[1]].tokens} = {}
            OBVIOUS
        <3> QED
            BY <3>1, FS_EmptySet DEF TokensAt
    <2> QED
        BY <2>1, <2>2, <2>3, <2>4 DEF WindowOK, Ordered
<1>3. GuardInv
    BY GuardAssumption
       DEF Init, GuardInv, Ordered, RetryQueueBelowThreshold, GuardOpen, Positive
<1> QED
    BY <1>1, <1>2, <1>3 DEF WindowInv, WindowsOK

\* One step per operation of the controller.
LEMMA WindowInvNext == WindowInv /\ [Next]_vars => WindowInv'
<1> SUFFICES ASSUME WindowInv, [Next]_vars PROVE WindowInv'
    OBVIOUS
<1>0. Inv /\ TypeOK /\ WindowsOK /\ GuardInv /\ now \in Nat /\ now <= now
    <2>1. Inv /\ TypeOK /\ WindowsOK /\ GuardInv
        BY DEF WindowInv, Inv
    <2>2. now \in Nat
        BY <2>1 DEF TypeOK
    <2> QED
        BY <2>1, <2>2
<1>1. Inv'
    BY <1>0, InvNext
<1>2. ASSUME NEW r \in Requests, NEW l \in Leases, Admit(r, l)
      PROVE  WindowsOK' /\ GuardInv'
    BY <1>0, <1>2, LeaseKey, DropKeepsWindows, GuardUntouched DEF Admit, AcquireAdmitted
<1>3. ASSUME NEW l \in Leases, Reject(l)
      PROVE  WindowsOK' /\ GuardInv'
    <2>1. CASE ReachesBudget(Key(l))
        BY <1>0, <1>3, <2>1, LeaseKey, DropKeepsWindows, GuardUntouched
           DEF Reject, AcquireRejected
    <2>2. CASE ~ReachesBudget(Key(l))
        BY <1>0, <1>3, <2>2, WindowsUntouched, GuardUntouched DEF Reject, AcquireRejected
    <2> QED
        BY <2>1, <2>2
<1>4. ASSUME NEW l \in Leases, AdmitAndGiveBack(l)
      PROVE  WindowsOK' /\ GuardInv'
    BY <1>0, <1>4, LeaseKey, DropKeepsWindows, GuardUntouched DEF AdmitAndGiveBack
<1>5. ASSUME NEW r \in Requests, NEW tokens \in 0..MaxUsage, NEW failed \in BOOLEAN,
             Finish(r, tokens, failed)
      PROVE  WindowsOK' /\ GuardInv'
    <2>1. Key(lease[r]) \in Keys
        BY <1>0, <1>5, LeaseKey DEF Finish, TypeOK
    <2>2. RecordTokens(Key(lease[r]), tokens) /\ now' = now
        BY <1>5 DEF Finish
    <2>3. WindowsOK'
        BY <1>0, <2>1, <2>2, ChargeKeepsWindows
    <2>4. RecordRetryEvent(Key(lease[r])) \/ UNCHANGED guardVars
        BY <1>5 DEF Finish
    <2>5. GuardInv'
        BY <1>0, <2>1, <2>2, <2>4, RetryKeepsGuard, GuardUntouched
    <2> QED
        BY <2>3, <2>5
<1>6. ASSUME NEW r \in Requests, FailedHeader(r)
      PROVE  WindowsOK' /\ GuardInv'
    BY <1>0, <1>6, LeaseKey, RetryKeepsGuard, WindowsUntouched DEF FailedHeader, TypeOK
<1>7. CASE Tick
    <2>1. now' \in Nat /\ now <= now'
        BY <1>0, <1>7 DEF Tick
    <2> QED
        BY <1>0, <1>1, <1>7, <2>1, WindowsUntouched, GuardUntouched DEF Tick, WindowInv
<1>8. CASE UNCHANGED vars
    BY <1>0, <1>1, <1>8, WindowsUntouched, GuardUntouched DEF vars, WindowInv
<1> QED
    BY <1>1, <1>2, <1>3, <1>4, <1>5, <1>6, <1>7, <1>8 DEF Next, WindowInv

-----------------------------------------------------------------------------
(* Results.                                                                 *)

\* Every queue is in the order of time, every running total is the sum over
\* its queue, and the retry queues stay below the threshold.
THEOREM WindowInvariance == Spec => []WindowInv
<1>1. Init => WindowInv
    BY WindowInvInit
<1>2. WindowInv /\ [Next]_vars => WindowInv'
    BY WindowInvNext
<1> QED
    BY <1>1, <1>2, PTL DEF Spec

\* acquire() refuses on the token budget exactly when the events of the last
\* window_seconds add up to max_tokens.
THEOREM BudgetDecidedExactly == Spec => []BudgetDecisionExact
<1>1. WindowInv => BudgetDecisionExact
    <2> SUFFICES ASSUME WindowInv, NEW k \in DOMAIN TokenBudget
                 PROVE  BudgetSpent(k) <=>
                          TokensAt(token_events[k],
                            {i \in DOMAIN token_events[k] :
                               now - token_events[k][i].at <= TokenBudget[k].window_seconds})
                          >= TokenBudget[k].max_tokens
        BY DEF BudgetDecisionExact
    <2>1. TypeOK /\ WindowOK(k)
        BY DEF WindowInv, Inv, WindowsOK
    <2> QED
        BY <2>1, BudgetDecision DEF BudgetSpent
<1> QED
    BY <1>1, WindowInvariance, PTL

\* The retry queue is shorter than max_events, and empty while the guard is
\* open.
THEOREM RetryQueueShort == Spec => []RetryQueueBelowThreshold
<1>1. WindowInv => RetryQueueBelowThreshold
    BY DEF WindowInv, GuardInv
<1> QED
    BY <1>1, WindowInvariance, PTL

\* A cooldown starts only when the guard is closed and max_events failures lie
\* within window_seconds.
THEOREM CooldownNeedsBurst == Spec => GuardOpensOnBurst
<1>1. WindowInv /\ [Next]_vars => [BurstStep]_vars
    <2> SUFFICES ASSUME WindowInv, Next PROVE BurstStep
        OBVIOUS
    <2>0. TypeOK /\ GuardInv
        BY DEF WindowInv, Inv
    <2>1. CASE \E r \in Requests, tokens \in 0..MaxUsage, failed \in BOOLEAN :
                 Finish(r, tokens, failed)
        <3>1. PICK r \in Requests, tokens \in 0..MaxUsage, failed \in BOOLEAN :
                Finish(r, tokens, failed)
            BY <2>1
        <3>2. Key(lease[r]) \in Keys
            BY <2>0, <3>1, LeaseKey DEF Finish, TypeOK
        <3>3. RecordRetryEvent(Key(lease[r])) \/ UNCHANGED guardVars
            BY <3>1 DEF Finish
        <3>4. CASE RecordRetryEvent(Key(lease[r]))
            BY <2>0, <3>2, <3>4, RetryOpensOnBurst
        <3>5. CASE UNCHANGED guardVars
            BY <3>5 DEF guardVars, BurstStep
        <3> QED
            BY <3>3, <3>4, <3>5
    <2>2. CASE \E r \in Requests : FailedHeader(r)
        BY <2>0, <2>2, LeaseKey, RetryOpensOnBurst DEF FailedHeader, TypeOK
    <2>3. CASE UNCHANGED guardVars
        BY <2>3 DEF guardVars, BurstStep
    <2>4. \/ \E r \in Requests, tokens \in 0..MaxUsage, failed \in BOOLEAN :
               Finish(r, tokens, failed)
          \/ \E r \in Requests : FailedHeader(r)
          \/ UNCHANGED guardVars
        BY DEF Next, Admit, Reject, AdmitAndGiveBack, Tick
    <2> QED
        BY <2>1, <2>2, <2>3, <2>4
<1> QED
    BY <1>1, WindowInvariance, PTL DEF Spec, GuardOpensOnBurst

\* A key at rest is served: nothing that earlier traffic left behind refuses
\* a request once no slot is taken, the cooldown is over and the recorded
\* events are out of the window.
THEOREM IdleKeysAdmit == Spec => []IdleKeyAdmits
<1>1. WindowInv => IdleKeyAdmits
    <2> SUFFICES ASSUME WindowInv, NEW k \in Keys, HoldersOfModel(k[2]) = {},
                        cooldown_until[k] <= now,
                        k \in DOMAIN TokenBudget =>
                          \A i \in DOMAIN token_events[k] :
                            now - token_events[k][i].at > TokenBudget[k].window_seconds
                 PROVE  Admits(k)
        BY DEF IdleKeyAdmits
    <2>0. TypeOK /\ SlotsMatchLeases /\ WindowsOK
        BY DEF WindowInv, Inv
    <2>1. k[2] \in Models
        BY DEF Keys
    <2>2. Cardinality({}) = 0
        BY FS_EmptySet
    <2>3. ~GuardOpen(k)
        BY <2>0 DEF GuardOpen, TypeOK
    <2>4. ~ModelFull(k[2])
        <3>1. active_by_model[k[2]] = 0
            BY <2>0, <2>1, <2>2 DEF SlotsMatchLeases
        <3> QED
            BY <3>1, LimitAssumption DEF ModelFull, Positive
    <2>5. ~DepartmentModelFull(k)
        <3>1. HoldersOfKey(k) = {}
            BY DEF HoldersOfKey, HoldersOfModel, Key
        <3>2. active_by_department_model[k] = 0
            BY <2>0, <2>2, <3>1 DEF SlotsMatchLeases
        <3> QED
            BY <3>2, LimitAssumption DEF DepartmentModelFull, Positive
    <2>6. ~BudgetSpent(k)
        <3> SUFFICES ASSUME k \in DOMAIN TokenBudget
                     PROVE  ~(FreshTotal(k) >= TokenBudget[k].max_tokens)
            BY DEF BudgetSpent
        <3> DEFINE W == {i \in DOMAIN token_events[k] :
                           now - token_events[k][i].at <= TokenBudget[k].window_seconds}
        <3>1. token_events[k] \in Seq(TokenEvent) /\ now \in Nat
            BY <2>0 DEF TypeOK, TokenEvent
        <3>2. TokenBudget[k].window_seconds \in Nat /\ TokenBudget[k].max_tokens \in Positive
            BY BudgetAssumption DEF Positive
        <3>3. \A i \in DOMAIN token_events[k] : token_events[k][i].at \in Nat
            <4>1. \A i \in DOMAIN token_events[k] : token_events[k][i] \in TokenEvent
                BY <3>1, LenProperties
            <4> QED
                BY <4>1 DEF TokenEvent
        <3>4. W = {}
            BY <3>1, <3>2, <3>3
        <3>5. FreshTotal(k) = TokensAt(token_events[k], W)
            BY <2>0, BudgetDecision DEF WindowsOK
        <3>6. {u \in {} \X (1..MaxUsage) : u[2] <= token_events[k][u[1]].tokens} = {}
            OBVIOUS
        <3>7. TokensAt(token_events[k], {}) = 0
            BY <2>2, <3>6 DEF TokensAt
        <3> HIDE DEF W
        <3>8. FreshTotal(k) = 0
            BY <3>4, <3>5, <3>7
        <3> QED
            BY <3>2, <3>8 DEF Positive
    <2> QED
        BY <2>3, <2>4, <2>5, <2>6 DEF Admits, ReachesBudget
<1> QED
    BY <1>1, WindowInvariance, PTL

-----------------------------------------------------------------------------
(* The queues by age.                                                       *)

\* A sum over the ages 0..W is what its partial sums end with.
LEMMA TotalOfSums ==
    ASSUME NEW W \in Nat, NEW f \in [0..W -> Nat], NEW g, g[0] = 0,
           \A a \in 0..W : g[a + 1] = g[a] + f[a]
    PROVE  Abstract!Total(f) = g[W + 1]
<1> DEFINE U(n) == UNION {{a} \X (1..f[a]) : a \in 0..(n - 1)}
           Exact(n) == IsFiniteSet(U(n)) /\ Cardinality(U(n)) = g[n] /\ g[n] \in Nat
           Bad == {n \in 0..(W + 1) : ~Exact(n)}
<1>1. Exact(0)
    <2>1. U(0) = {}
        <3>1. 0..(0 - 1) = {}
            OBVIOUS
        <3> QED
            BY <3>1
    <2>2. IsFiniteSet({}) /\ Cardinality({}) = 0
        BY FS_EmptySet
    <2>3. Cardinality({}) = g[0] /\ g[0] \in Nat
        BY <2>2
    <2> QED
        BY <2>1, <2>2, <2>3, Zenon
<1>2. ASSUME NEW n \in 0..W, Exact(n)
      PROVE  Exact(n + 1)
    <2> DEFINE P == {n} \X (1..f[n])
    <2>1. f[n] \in Nat
        OBVIOUS
    <2>2. IsFiniteSet(P) /\ Cardinality(P) = f[n]
        <3>1. IsFiniteSet({n}) /\ Cardinality({n}) = 1
            BY FS_Singleton
        <3>2. IsFiniteSet(1..f[n]) /\ Cardinality(1..f[n]) = f[n]
            BY <2>1, FS_Interval
        <3> DEFINE one == {n}
                   units == 1..f[n]
        <3>3. IsFiniteSet(one \X units) /\ Cardinality(one \X units) = 1 * f[n]
            <4> HIDE DEF one, units
            <4>1. IsFiniteSet(one) /\ IsFiniteSet(units)
                BY <3>1, <3>2 DEF one, units
            <4>2. /\ IsFiniteSet(one \X units)
                  /\ Cardinality(one \X units) = Cardinality(one) * Cardinality(units)
                BY <4>1, FS_Product
            <4> QED
                BY <3>1, <3>2, <4>2 DEF one, units
        <3>4. 1 * f[n] = f[n]
            BY <2>1
        <3> QED
            BY <3>3, <3>4
    <2>3. U(n + 1) = U(n) \cup P
        <3>1. n \in Nat /\ 0..(n + 1 - 1) = (0..(n - 1)) \cup {n}
            OBVIOUS
        <3>2. U(n + 1) = UNION {{a} \X (1..f[a]) : a \in (0..(n - 1)) \cup {n}}
            BY <3>1
        <3> QED
            BY <3>2
    <2>4. U(n) \cap P = {}
        <3>1. \A a \in 0..(n - 1) : a # n
            OBVIOUS
        <3> QED
            BY <3>1
    <2> HIDE DEF U, P
    <2>5. Cardinality(U(n) \cap P) = 0
        BY <2>4, FS_EmptySet
    <2>6. /\ IsFiniteSet(U(n) \cup P)
          /\ Cardinality(U(n) \cup P)
               = Cardinality(U(n)) + Cardinality(P) - Cardinality(U(n) \cap P)
        BY <1>2, <2>2, FS_Union
    <2>7. g[n + 1] = g[n] + f[n]
        OBVIOUS
    <2>8. Cardinality(U(n)) = g[n] /\ g[n] \in Nat
        BY <1>2
    <2>9. IsFiniteSet(U(n) \cup P) /\ Cardinality(U(n) \cup P) = g[n + 1] /\ g[n + 1] \in Nat
        BY <2>1, <2>2, <2>5, <2>6, <2>7, <2>8
    <2>10. IsFiniteSet(U(n + 1)) /\ Cardinality(U(n + 1)) = g[n + 1] /\ g[n + 1] \in Nat
        BY <2>3, <2>9, Zenon
    <2> QED
        BY <2>10, Zenon
<1>3. Bad = {}
    <2> HIDE DEF Exact
    <2>1. SUFFICES ASSUME Bad # {} PROVE FALSE
        OBVIOUS
    <2>2. Bad \subseteq Nat
        OBVIOUS
    <2> HIDE DEF Bad
    <2>3. PICK b \in Bad : \A p \in Bad : ~ (<<p, b>> \in OpToRel(<, Nat))
        BY <2>1, <2>2, WFMin, NatLessThanWellFounded
    <2>4. \A p \in Bad : ~ (p < b)
        BY <2>2, <2>3 DEF OpToRel
    <2>5. b \in 0..(W + 1) /\ ~Exact(b)
        BY DEF Bad
    <2>6. b # 0
        BY <1>1, <2>5
    <2>7. b - 1 \in 0..W /\ b - 1 < b /\ b - 1 + 1 = b
        BY <2>5, <2>6
    <2>8. Exact(b - 1)
        BY <2>4, <2>7 DEF Bad
    <2>9. Exact(b - 1 + 1)
        BY <1>2, <2>7, <2>8
    <2> QED
        BY <2>5, <2>7, <2>9
<1>4. Exact(W + 1)
    <2>1. W + 1 \in 0..(W + 1)
        OBVIOUS
    <2> HIDE DEF Exact
    <2> QED
        BY <1>3, <2>1
<1>5. U(W + 1) = UNION {{age} \X (1..f[age]) : age \in DOMAIN f}
    <2>1. 0..(W + 1 - 1) = 0..W /\ DOMAIN f = 0..W
        OBVIOUS
    <2> QED
        BY <2>1
<1>6. Cardinality(U(W + 1)) = g[W + 1]
    BY <1>4
<1> HIDE DEF U
<1> QED
    <2>1. Abstract!Total(f) = Cardinality(UNION {{age} \X (1..f[age]) : age \in DOMAIN f})
        BY DEF Abstract!Total, Abstract!Cardinality, Cardinality
    <2> QED
        BY <1>5, <1>6, <2>1, Zenon

\* The queues of a key, by age.
Spent(k) == [age \in 0..TokenBudget[k].window_seconds |-> TokensOfAge(k, age)]
Failures(k) == [age \in 0..RetryGuard.window_seconds |-> FailuresOfAge(k, age)]
Shut(k) == MaxZero(cooldown_until[k] - now)

\* An age counts finitely many entries.
LEMMA AgesFinite ==
    ASSUME TypeOK, NEW k \in Keys
    PROVE  /\ \A age : TokensOfAge(k, age) \in Nat
           /\ \A age : FailuresOfAge(k, age) \in Nat
           /\ IsFiniteSet(DOMAIN token_events[k]) /\ IsFiniteSet(DOMAIN retry_events[k])
<1>1. token_events[k] \in Seq(TokenEvent) /\ retry_events[k] \in Seq(Nat)
    BY DEF TypeOK, TokenEvent
<1>2. /\ DOMAIN token_events[k] = 1..Len(token_events[k]) /\ Len(token_events[k]) \in Nat
      /\ DOMAIN retry_events[k] = 1..Len(retry_events[k]) /\ Len(retry_events[k]) \in Nat
    BY <1>1, LenProperties
<1>3. IsFiniteSet(DOMAIN token_events[k]) /\ IsFiniteSet(DOMAIN retry_events[k])
    BY <1>2, FS_Interval
<1>4. ASSUME NEW age
      PROVE  TokensOfAge(k, age) \in Nat
    <2> DEFINE I == {i \in DOMAIN token_events[k] : now - token_events[k][i].at = age}
    <2>1. IsFiniteSet(I)
        BY <1>3, FS_Subset
    <2> QED
        BY <2>1, TokensAtType DEF TokensOfAge
<1>5. ASSUME NEW age
      PROVE  FailuresOfAge(k, age) \in Nat
    <2> DEFINE I == {i \in DOMAIN retry_events[k] : now - retry_events[k][i] = age}
    <2>1. IsFiniteSet(I)
        BY <1>3, FS_Subset
    <2> QED
        BY <2>1, FS_CardinalityType DEF FailuresOfAge
<1> QED
    BY <1>3, <1>4, <1>5

\* The tokens of all ages in the window are what acquire() compares with the
\* budget.
LEMMA SpentTotal ==
    ASSUME TypeOK, NEW k \in DOMAIN TokenBudget, WindowOK(k)
    PROVE  Abstract!Total(Spent(k)) = FreshTotal(k)
<1> DEFINE ev == token_events[k]
           W == TokenBudget[k].window_seconds
           Younger(n) == {i \in DOMAIN ev : now - ev[i].at < n}
           Aged(n) == {i \in DOMAIN ev : now - ev[i].at = n}
           g == [n \in 0..(W + 1) |-> TokensAt(ev, Younger(n))]
<1>1. k \in Keys /\ W \in Nat /\ now \in Nat /\ ev \in Seq(TokenEvent)
    BY BudgetAssumption DEF TypeOK, TokenEvent, Positive
<1>2. \A i \in DOMAIN ev : ev[i].at \in Nat /\ ev[i].at <= now
    BY DEF WindowOK, Ordered, ChargeTimes
<1>3. IsFiniteSet(DOMAIN ev)
    BY <1>1, AgesFinite
<1>4. ASSUME NEW n
      PROVE  IsFiniteSet(Younger(n)) /\ IsFiniteSet(Aged(n))
    BY <1>3, FS_Subset
<1> HIDE DEF ev, W
<1>5. g[0] = 0
    <2>1. Younger(0) = {}
        BY <1>1, <1>2
    <2>2. TokensAt(ev, {}) = 0
        <3>1. {u \in {} \X (1..MaxUsage) : u[2] <= ev[u[1]].tokens} = {}
            OBVIOUS
        <3> QED
            BY <3>1, FS_EmptySet DEF TokensAt
    <2>3. 0 \in 0..(W + 1)
        BY <1>1
    <2> HIDE DEF Younger
    <2> QED
        BY <2>1, <2>2, <2>3
<1>6. ASSUME NEW a \in 0..W
      PROVE  g[a + 1] = g[a] + Spent(k)[a]
    <2>1. a \in 0..(W + 1) /\ a + 1 \in 0..(W + 1)
        BY <1>1
    <2>2. Younger(a + 1) = Younger(a) \cup Aged(a) /\ Younger(a) \cap Aged(a) = {}
        BY <1>1, <1>2
    <2>3. Spent(k)[a] = TokensAt(ev, Aged(a))
        BY DEF Spent, TokensOfAge, ev, W
    <2> HIDE DEF Younger, Aged
    <2>4. TokensAt(ev, Younger(a) \cup Aged(a)) = TokensAt(ev, Younger(a)) + TokensAt(ev, Aged(a))
        BY <1>4, <2>2, TokensAddUp
    <2> QED
        BY <2>1, <2>2, <2>3, <2>4
<1>7. Spent(k) \in [0..W -> Nat]
    BY <1>1, AgesFinite DEF Spent, W
<1>8. Abstract!Total(Spent(k)) = g[W + 1]
    <2> HIDE DEF g
    <2> QED
        BY <1>1, <1>5, <1>6, <1>7, TotalOfSums
<1>9. Younger(W + 1) = {i \in DOMAIN ev : now - ev[i].at <= W}
    BY <1>1, <1>2
<1>10. FreshTotal(k) = TokensAt(ev, {i \in DOMAIN ev : now - ev[i].at <= W})
    BY BudgetDecision DEF ev, W
<1>11. W + 1 \in 0..(W + 1)
    BY <1>1
<1> QED
    BY <1>8, <1>9, <1>10, <1>11

\* The failures of all ages in the window are those in the retry queue after
\* one more, save that one.
LEMMA FailuresTotal ==
    ASSUME TypeOK, NEW k \in Keys, Ordered(retry_events[k])
    PROVE  Abstract!Total(Failures(k)) + 1 = Len(RetryQueue(k))
<1> DEFINE ev == retry_events[k]
           W == RetryGuard.window_seconds
           Younger(n) == {i \in DOMAIN ev : now - ev[i] < n}
           Aged(n) == {i \in DOMAIN ev : now - ev[i] = n}
           g == [n \in 0..(W + 1) |-> Cardinality(Younger(n))]
           L == Len(retry_events[k])
           x == ExpiredCount(retry_events[k], RetryGuard.window_seconds)
<1>1. W \in Nat /\ now \in Nat
    BY GuardAssumption DEF TypeOK, Positive
<1>2. \A i \in DOMAIN ev : ev[i] \in Nat /\ ev[i] <= now
    BY DEF Ordered
<1>3. IsFiniteSet(DOMAIN ev)
    BY AgesFinite
<1>4. ASSUME NEW n
      PROVE  IsFiniteSet(Younger(n)) /\ IsFiniteSet(Aged(n))
    BY <1>3, FS_Subset
<1>0. /\ L \in Nat /\ x \in 0..L /\ DOMAIN ev = 1..L
      /\ \A i \in 1..L : i > x <=> now - ev[i] <= W
      /\ Len(RetryQueue(k)) = L - x + 1
    BY RetryQueueEntries
<1> HIDE DEF ev, W, L, x
<1>5. g[0] = 0
    <2>1. Younger(0) = {}
        BY <1>1, <1>2
    <2>2. 0 \in 0..(W + 1)
        BY <1>1
    <2> HIDE DEF Younger
    <2> QED
        BY <2>1, <2>2, FS_EmptySet
<1>6. ASSUME NEW a \in 0..W
      PROVE  g[a + 1] = g[a] + Failures(k)[a]
    <2>1. a \in 0..(W + 1) /\ a + 1 \in 0..(W + 1)
        BY <1>1
    <2>2. Younger(a + 1) = Younger(a) \cup Aged(a) /\ Younger(a) \cap Aged(a) = {}
        BY <1>1, <1>2
    <2>3. Failures(k)[a] = Cardinality(Aged(a))
        BY DEF Failures, FailuresOfAge, ev, W
    <2> HIDE DEF Younger, Aged
    <2>4. Cardinality(Younger(a) \cap Aged(a)) = 0
        BY <2>2, FS_EmptySet
    <2>5. Cardinality(Younger(a)) \in Nat /\ Cardinality(Aged(a)) \in Nat
        BY <1>4, FS_CardinalityType
    <2>6. Cardinality(Younger(a) \cup Aged(a))
            = Cardinality(Younger(a)) + Cardinality(Aged(a)) - Cardinality(Younger(a) \cap Aged(a))
        BY <1>4, FS_Union
    <2>7. g[a] = Cardinality(Younger(a)) /\ g[a + 1] = Cardinality(Younger(a) \cup Aged(a))
        BY <2>1, <2>2
    <2> HIDE DEF g
    <2> QED
        BY <2>3, <2>4, <2>5, <2>6, <2>7
<1>7. Failures(k) \in [0..W -> Nat]
    BY <1>1, AgesFinite DEF Failures, W
<1>8. Abstract!Total(Failures(k)) = g[W + 1]
    <2> HIDE DEF g
    <2> QED
        BY <1>1, <1>5, <1>6, <1>7, TotalOfSums
<1>9. Younger(W + 1) = (x + 1)..L
    <2>1. \A i \in 1..L : now - ev[i] < W + 1 <=> i > x
        BY <1>0, <1>1, <1>2
    <2>2. Younger(W + 1) = {i \in 1..L : i > x}
        BY <1>0, <2>1
    <2> QED
        BY <1>0, <2>2
<1>10. Cardinality((x + 1)..L) = L - x
    <2>1. x + 1 \in Int /\ L \in Int /\ x \in Int
        BY <1>0
    <2>2. Cardinality((x + 1)..L) = IF x + 1 > L THEN 0 ELSE L - (x + 1) + 1
        BY <2>1, FS_Interval
    <2> QED
        BY <1>0, <2>1, <2>2
<1>11. W + 1 \in 0..(W + 1)
    BY <1>1
<1>12. g[W + 1] = L - x
    BY <1>9, <1>10, <1>11
<1> HIDE DEF g
<1> QED
    BY <1>0, <1>8, <1>12

-----------------------------------------------------------------------------
(* What the calls do to the ages.                                           *)

\* Trimming keeps every age in the window.
LEMMA FreshByAge ==
    ASSUME TypeOK, NEW k \in DOMAIN TokenBudget, WindowOK(k),
           NEW age \in 0..TokenBudget[k].window_seconds,
           NEW F, F = FreshEvents(k)
    PROVE  TokensAt(F, {i \in DOMAIN F : now - F[i].at = age}) = TokensOfAge(k, age)
<1> DEFINE ev == token_events[k]
           W == TokenBudget[k].window_seconds
           L == Len(token_events[k])
           x == ExpiredEvents(k)
           I == {i \in DOMAIN F : now - F[i].at = age}
           J == {i \in DOMAIN ev : now - ev[i].at = age}
<1>1. /\ L \in Nat /\ x \in 0..L /\ DOMAIN ev = 1..L
      /\ \A i \in 1..L : i > x <=> now - ev[i].at <= W
      /\ DOMAIN F = 1..(L - x)
      /\ \A i \in 1..(L - x) : F[i] = ev[i + x]
    <2>1. L = Len(token_events[k]) /\ x = ExpiredEvents(k)
        OBVIOUS
    <2> HIDE DEF L, x
    <2> QED
        BY <2>1, FreshExact
<1>2. W \in Nat /\ age \in 0..W
    BY BudgetAssumption DEF Positive
<1> HIDE DEF ev, W, L, x
<1>3. J = {i + x : i \in I}
    <2>1. ASSUME NEW j \in J
          PROVE  j - x \in I /\ j = (j - x) + x
        <3>1. j \in 1..L /\ now - ev[j].at = age /\ age <= W
            BY <1>1, <1>2
        <3>2. j > x
            BY <1>1, <3>1
        <3>3. j - x \in 1..(L - x) /\ j = (j - x) + x
            BY <1>1, <3>1, <3>2
        <3> QED
            BY <1>1, <3>1, <3>3
    <2>2. ASSUME NEW i \in I
          PROVE  i + x \in J
        BY <1>1
    <2> HIDE DEF I, J
    <2> QED
        BY <2>1, <2>2
<1>4. IsFiniteSet(I) /\ I \subseteq Int /\ x \in Int
    <2>1. L - x \in Int
        BY <1>1
    <2>2. IsFiniteSet(1..(L - x))
        BY <2>1, IntervalFinite
    <2>3. I \subseteq 1..(L - x)
        BY <1>1
    <2> QED
        BY <1>1, <2>2, <2>3, FS_Subset
<1>5. \A i \in I : F[i].tokens = ev[i + x].tokens
    BY <1>1
<1>6. TokensAt(F, I) = TokensAt(ev, J)
    <2> HIDE DEF I, J
    <2> QED
        BY <1>3, <1>4, <1>5, TokensShifted
<1> QED
    BY <1>6 DEF TokensOfAge, ev

\* acquire() and its trimming leave the tokens of every age in the window.
LEMMA DropKeepsAges ==
    ASSUME TypeOK, WindowsOK, NEW key \in Keys, DropOldTokenEvents(key), now' = now
    PROVE  \A k \in DOMAIN TokenBudget : Spent(k)' = Spent(k)
<1> SUFFICES ASSUME NEW k \in DOMAIN TokenBudget PROVE Spent(k)' = Spent(k)
    OBVIOUS
<1>1. k \in Keys /\ WindowOK(k)
    BY BudgetAssumption DEF WindowsOK
<1>2. CASE key = k
    <2> DEFINE F == FreshEvents(k)
    <2>1. token_events'[k] = F
        BY <1>1, <1>2 DEF DropOldTokenEvents, TypeOK
    <2>2. F = FreshEvents(k)
        OBVIOUS
    <2> HIDE DEF F
    <2>3. ASSUME NEW age \in 0..TokenBudget[k].window_seconds
          PROVE  TokensOfAge(k, age)' = TokensOfAge(k, age)
        <3>1. TokensOfAge(k, age)' = TokensAt(F, {i \in DOMAIN F : now - F[i].at = age})
            BY <2>1 DEF TokensOfAge, TokensAt
        <3> QED
            BY <1>1, <2>2, <3>1, FreshByAge
    <2> QED
        BY <2>3 DEF Spent
<1>3. CASE key # k
    <2>1. token_events'[k] = token_events[k]
        BY <1>1, <1>3 DEF DropOldTokenEvents, TypeOK, tokenVars
    <2> QED
        BY <2>1 DEF Spent, TokensOfAge, TokensAt
<1> QED
    BY <1>2, <1>3

\* record_tokens() adds to the present second.
LEMMA ChargeAddsToPresent ==
    ASSUME TypeOK, WindowsOK, NEW key \in Keys, NEW tokens \in 0..MaxUsage, Enabled,
           RecordTokens(key, tokens), now' = now, NEW k \in DOMAIN TokenBudget
    PROVE  /\ k # key => Spent(k)' = Spent(k)
           /\ k = key => Spent(k)' = [Spent(k) EXCEPT ![0] = @ + tokens]
<1>1. k \in Keys /\ WindowOK(k) /\ now \in Nat /\ MaxUsage \in Nat
    BY BudgetAssumption, SizeAssumption DEF WindowsOK, TypeOK, MaxUsage
<1>2. TokenBudget[k].window_seconds \in Nat
    BY BudgetAssumption DEF Positive
<1>3. CASE k # key
    <2>1. token_events'[k] = token_events[k]
        BY <1>1, <1>3 DEF RecordTokens, TypeOK, tokenVars
    <2> QED
        BY <1>3, <2>1 DEF Spent, TokensOfAge, TokensAt
<1>4. CASE k = key /\ tokens = 0
    <2>1. token_events'[k] = token_events[k]
        BY <1>4 DEF RecordTokens, tokenVars
    <2>2. Spent(k)' = Spent(k)
        BY <2>1 DEF Spent, TokensOfAge, TokensAt
    <2>3. Spent(k)[0] + tokens = Spent(k)[0] /\ DOMAIN Spent(k) = 0..TokenBudget[k].window_seconds
        BY <1>1, <1>2, <1>4, AgesFinite DEF Spent
    <2>4. [Spent(k) EXCEPT ![0] = @ + tokens] = Spent(k)
        BY <2>3 DEF Spent
    <2> QED
        BY <1>4, <2>2, <2>4
<1>5. CASE k = key /\ tokens > 0
    <2> DEFINE F == FreshEvents(k)
               n == Len(F)
               e == [at |-> now, tokens |-> tokens]
               G == Append(F, e)
    <2>1. token_events'[k] = G
        BY <1>1, <1>5 DEF RecordTokens, TypeOK
    <2>2. e \in TokenEvent /\ e.at = now /\ e.tokens = tokens
        BY <1>1, <1>5 DEF TokenEvent
    <2>3. F = FreshEvents(k) /\ F \in Seq(TokenEvent) /\ n \in Nat /\ DOMAIN F = 1..n
        BY <1>1, FreshWindow, LenProperties
    <2>4. /\ DOMAIN G = 1..(n + 1)
          /\ \A i \in 1..n : G[i] = F[i]
          /\ G[n + 1] = e
        BY <2>2, <2>3, AppendEntries
    <2> HIDE DEF F, n, e, G
    <2>5. ASSUME NEW age \in 0..TokenBudget[k].window_seconds
          PROVE  TokensOfAge(k, age)' = TokensOfAge(k, age) + (IF age = 0 THEN tokens ELSE 0)
        <3> DEFINE I == {i \in DOMAIN F : now - F[i].at = age}
                   J == {i \in DOMAIN G : now - G[i].at = age}
        <3>1. TokensOfAge(k, age)' = TokensAt(G, J)
            BY <2>1 DEF TokensOfAge, TokensAt
        <3>2. TokensAt(F, I) = TokensOfAge(k, age) /\ TokensOfAge(k, age) \in Nat
            BY <1>1, <2>3, FreshByAge, AgesFinite
        <3>3. IsFiniteSet(I) /\ I \subseteq 1..n
            <4>1. IsFiniteSet(1..n)
                BY <2>3, FS_Interval
            <4> QED
                BY <2>3, <4>1, FS_Subset
        <3>4. TokensAt(G, I) = TokensAt(F, I)
            <4>1. \A i \in I : F[i].tokens = G[i].tokens
                BY <2>4, <3>3
            <4> HIDE DEF I
            <4> QED
                BY <4>1, SameTokens
        <3>5. CASE age = 0
            <4>1. J = I \cup {n + 1} /\ n + 1 \notin I
                BY <1>1, <2>2, <2>3, <2>4, <3>5
            <4>2. TokensAt(G, {n + 1}) = tokens
                BY <2>2, <2>4, TokensOfOne
            <4> HIDE DEF I, J
            <4>3. IsFiniteSet({n + 1}) /\ I \cap {n + 1} = {}
                BY <4>1, FS_Singleton
            <4>4. TokensAt(G, I \cup {n + 1}) = TokensAt(G, I) + TokensAt(G, {n + 1})
                BY <3>3, <4>3, TokensAddUp
            <4> QED
                BY <3>1, <3>2, <3>4, <3>5, <4>1, <4>2, <4>4
        <3>6. CASE age # 0
            <4>1. J = I
                BY <1>1, <2>2, <2>3, <2>4, <3>6
            <4> HIDE DEF I, J
            <4> QED
                BY <3>1, <3>2, <3>4, <3>6, <4>1
        <3> QED
            BY <3>5, <3>6
    <2>6. \A age \in 0..TokenBudget[k].window_seconds : TokensOfAge(k, age) \in Nat
        BY <1>1, AgesFinite
    <2>7. Spent(k)' = [age \in 0..TokenBudget[k].window_seconds |->
                         TokensOfAge(k, age) + (IF age = 0 THEN tokens ELSE 0)]
        BY <2>5 DEF Spent
    <2>8. [Spent(k) EXCEPT ![0] = @ + tokens]
            = [age \in 0..TokenBudget[k].window_seconds |->
                 TokensOfAge(k, age) + (IF age = 0 THEN tokens ELSE 0)]
        BY <1>2, <2>6 DEF Spent
    <2> QED
        BY <1>5, <2>7, <2>8
<1> QED
    BY <1>3, <1>4, <1>5

\* A bijection between places keeps their number.
LEMMA PlacesShifted ==
    ASSUME NEW I, NEW J, IsFiniteSet(I), I \subseteq Int, NEW n \in Int,
           J = {i + n : i \in I}
    PROVE  Cardinality(I) = Cardinality(J)
<1> DEFINE g == [i \in I |-> i + n]
<1>1. g \in Bijection(I, J)
    <2>1. g \in [I -> J]
        OBVIOUS
    <2>2. \A i, j \in I : g[i] = g[j] => i = j
        OBVIOUS
    <2>3. \A j \in J : \E i \in I : g[i] = j
        OBVIOUS
    <2> HIDE DEF g
    <2> QED
        BY <2>1, <2>2, <2>3, Fun_IsBij
<1>2. ExistsBijection(I, J)
    BY <1>1 DEF ExistsBijection
<1> QED
    BY <1>2, FS_Bijection

\* record_retry_event() adds to the present second, unless the burst is
\* complete: then it forgets the burst.
LEMMA FailureAddsToPresent ==
    ASSUME TypeOK, NEW k \in Keys, Ordered(retry_events[k]),
           retry_events'[k] = RetryQueue(k), now' = now
    PROVE  Failures(k)' = [Failures(k) EXCEPT ![0] = @ + 1]
<1> DEFINE ev == retry_events[k]
           W == RetryGuard.window_seconds
           L == Len(retry_events[k])
           x == ExpiredCount(retry_events[k], RetryGuard.window_seconds)
           D == DropFirst(ev, x)
           G == Append(D, now)
<1>1. W \in Nat /\ now \in Nat /\ ev \in Seq(Nat)
    BY GuardAssumption DEF TypeOK, Positive
<1>2. /\ L \in Nat /\ x \in 0..L /\ DOMAIN ev = 1..L
      /\ \A i \in 1..L : i > x <=> now - ev[i] <= W
    BY RetryQueueEntries
<1>3. /\ D \in Seq(Nat) /\ Len(D) = L - x
      /\ \A i \in 1..(L - x) : D[i] = ev[i + x]
    BY <1>1, <1>2, DropFirstEntries
<1>4. retry_events'[k] = G
    BY DEF RetryQueue
<1> HIDE DEF D
<1>5. /\ DOMAIN G = 1..(L - x + 1)
      /\ \A i \in 1..(L - x) : G[i] = D[i]
      /\ G[L - x + 1] = now
    BY <1>1, <1>3, AppendEntries
<1>6. \A i \in DOMAIN ev : ev[i] \in Nat /\ ev[i] <= now
    BY DEF Ordered
<1> HIDE DEF ev, W, L, x, G
<1>7. ASSUME NEW age \in 0..W
      PROVE  /\ FailuresOfAge(k, age)' = FailuresOfAge(k, age) + (IF age = 0 THEN 1 ELSE 0)
             /\ FailuresOfAge(k, age) \in Nat
    <2> DEFINE J == {i \in DOMAIN ev : now - ev[i] = age}
               I == {i \in 1..(L - x) : now - G[i] = age}
               K == {i \in DOMAIN G : now - G[i] = age}
    <2>1. FailuresOfAge(k, age)' = Cardinality(K)
        BY <1>4 DEF FailuresOfAge
    <2>2. FailuresOfAge(k, age) = Cardinality(J) /\ FailuresOfAge(k, age) \in Nat
        BY AgesFinite DEF FailuresOfAge, ev
    <2>3. J = {i + x : i \in I}
        <3>1. ASSUME NEW j \in J
              PROVE  j - x \in I /\ j = (j - x) + x
            <4>1. j \in 1..L /\ now - ev[j] = age /\ age <= W
                BY <1>1, <1>2
            <4>2. j > x
                BY <1>2, <4>1
            <4>3. j - x \in 1..(L - x) /\ j = (j - x) + x
                BY <1>2, <4>1, <4>2
            <4> QED
                BY <1>3, <1>5, <4>1, <4>3
        <3>2. ASSUME NEW i \in I
              PROVE  i + x \in J
            BY <1>2, <1>3, <1>5
        <3> HIDE DEF I, J
        <3> QED
            BY <3>1, <3>2
    <2>4. IsFiniteSet(I) /\ I \subseteq Int /\ x \in Int /\ I \subseteq 1..(L - x)
        <3>1. L - x \in Int /\ x \in Int
            BY <1>2
        <3>2. IsFiniteSet(1..(L - x))
            BY <3>1, IntervalFinite
        <3> QED
            BY <3>1, <3>2, FS_Subset
    <2>5. Cardinality(I) = Cardinality(J)
        <3> HIDE DEF I, J
        <3> QED
            BY <2>3, <2>4, PlacesShifted
    <2>6. CASE age = 0
        <3>1. K = I \cup {L - x + 1} /\ L - x + 1 \notin I
            BY <1>1, <1>2, <1>5, <2>6
        <3> HIDE DEF I, J, K
        <3>2. Cardinality(I \cup {L - x + 1}) = Cardinality(I) + 1
            BY <2>4, <3>1, FS_AddElement
        <3> QED
            BY <2>1, <2>2, <2>5, <2>6, <3>1, <3>2
    <2>7. CASE age # 0
        <3>1. K = I
            BY <1>1, <1>2, <1>5, <2>7
        <3> HIDE DEF I, J, K
        <3> QED
            BY <2>1, <2>2, <2>5, <2>7, <3>1
    <2> QED
        BY <2>6, <2>7
<1>8. Failures(k)' = [age \in 0..W |-> FailuresOfAge(k, age) + (IF age = 0 THEN 1 ELSE 0)]
    BY <1>7 DEF Failures, W
<1>9. [Failures(k) EXCEPT ![0] = @ + 1]
        = [age \in 0..W |-> FailuresOfAge(k, age) + (IF age = 0 THEN 1 ELSE 0)]
    <2>1. \A age \in 0..W : FailuresOfAge(k, age) \in Nat
        BY <1>7
    <2>2. Failures(k) = [age \in 0..W |-> FailuresOfAge(k, age)]
        BY DEF Failures, W
    <2>3. 0 \in 0..W
        BY <1>1
    <2> DEFINE A == 0..W
               h == [age \in A |-> FailuresOfAge(k, age)]
    <2>4. h \in [A -> Nat] /\ 0 \in A
        BY <2>1, <2>3
    <2>5. [age \in A |-> h[age] + (IF age = 0 THEN 1 ELSE 0)]
            = [age \in A |-> FailuresOfAge(k, age) + (IF age = 0 THEN 1 ELSE 0)]
        OBVIOUS
    <2> HIDE DEF A, h
    <2>6. [h EXCEPT ![0] = @ + 1] = [age \in A |-> h[age] + (IF age = 0 THEN 1 ELSE 0)]
        <3>1. \A age \in A : h[age] \in Nat
            BY <2>4
        <3>2. \A age \in A : age # 0 => h[age] + (IF age = 0 THEN 1 ELSE 0) = h[age]
            BY <3>1
        <3>3. \A age \in A : age = 0 => h[age] + (IF age = 0 THEN 1 ELSE 0) = h[0] + 1
            OBVIOUS
        <3> QED
            BY <2>4, <3>2, <3>3
    <2> QED
        BY <2>2, <2>5, <2>6 DEF h, A
<1> QED
    BY <1>8, <1>9

\* A key whose queue and clock stand still keeps its failures.
LEMMA FailuresUntouched ==
    ASSUME NEW k \in Keys, retry_events'[k] = retry_events[k], now' = now
    PROVE  Failures(k)' = Failures(k)
BY DEF Failures, FailuresOfAge

\* record_retry_event() counts and shuts as Quota does.
LEMMA RetryImplementsCount ==
    ASSUME TypeOK, GuardInv, NEW key \in Keys, Enabled, RecordRetryEvent(key), now' = now,
           NEW failures, failures = [k \in Keys |-> Failures(k)],
           NEW shut, shut = [k \in Keys |-> Shut(k)],
           NEW failed, failed = [k \in Keys |-> Failures(k)'],
           NEW closed, closed = [k \in Keys |-> Shut(k)']
    PROVE  IF ~RetryGuard.enabled \/ shut[key] > 0
           THEN failed = failures /\ closed = shut
           ELSE IF Abstract!Total(failures[key]) + 1 >= RetryGuard.max_events
           THEN /\ closed = [shut EXCEPT ![key] = RetryGuard.cooldown_seconds]
                /\ failed = [failures EXCEPT ![key] =
                               Abstract!Nothing(RetryGuard.window_seconds)]
           ELSE /\ failed = [failures EXCEPT ![key][0] = @ + 1]
                /\ closed = shut
<1>0. /\ RetryGuard.cooldown_seconds \in Nat /\ RetryGuard.cooldown_seconds > 0
      /\ RetryGuard.max_events \in Nat /\ RetryGuard.window_seconds \in Nat
      /\ now \in Nat /\ cooldown_until \in [Keys -> Nat]
      /\ retry_events \in [Keys -> Seq(Nat)]
    BY GuardAssumption DEF TypeOK, Positive
<1>1. shut[key] > 0 <=> GuardOpen(key)
    BY <1>0 DEF Shut, MaxZero, GuardOpen
<1>2. Abstract!Total(failures[key]) + 1 = Len(RetryQueue(key))
    BY FailuresTotal DEF GuardInv
<1>3. CASE ~RetryGuard.enabled \/ GuardOpen(key)
    <2>1. UNCHANGED guardVars
        BY <1>3 DEF RecordRetryEvent
    <2>2. \A k \in Keys : Failures(k)' = Failures(k) /\ Shut(k)' = Shut(k)
        BY <2>1, FailuresUntouched DEF guardVars, Shut
    <2> QED
        BY <1>1, <1>3, <2>2
<1>4. CASE ~(~RetryGuard.enabled \/ GuardOpen(key)) /\ Len(RetryQueue(key)) >= RetryGuard.max_events
    <2>1. /\ cooldown_until' =
               [cooldown_until EXCEPT ![key] = now + RetryGuard.cooldown_seconds]
          /\ retry_events' = [retry_events EXCEPT ![key] = <<>>]
        BY <1>4 DEF RecordRetryEvent
    <2>2. Failures(key)' = Abstract!Nothing(RetryGuard.window_seconds)
        <3>1. retry_events'[key] = <<>>
            BY <1>0, <2>1
        <3>2. \A age : FailuresOfAge(key, age)' = 0
            <4>1. \A age : {i \in {} : now' - retry_events'[key][i] = age} = {}
                OBVIOUS
            <4> QED
                BY <3>1, <4>1, FS_EmptySet DEF FailuresOfAge
        <3> QED
            BY <3>2 DEF Failures, Abstract!Nothing
    <2>3. \A k \in Keys : k # key => Failures(k)' = Failures(k) /\ Shut(k)' = Shut(k)
        BY <1>0, <2>1, FailuresUntouched DEF Shut
    <2>4. Shut(key)' = RetryGuard.cooldown_seconds
        BY <1>0, <2>1 DEF Shut, MaxZero
    <2> QED
        BY <1>1, <1>2, <1>4, <2>2, <2>3, <2>4
<1>5. CASE ~(~RetryGuard.enabled \/ GuardOpen(key)) /\ ~(Len(RetryQueue(key)) >= RetryGuard.max_events)
    <2>1. /\ retry_events' = [retry_events EXCEPT ![key] = RetryQueue(key)]
          /\ cooldown_until' = cooldown_until
        BY <1>5 DEF RecordRetryEvent
    <2>2. retry_events'[key] = RetryQueue(key)
        BY <1>0, <2>1
    <2>3. Failures(key)' = [Failures(key) EXCEPT ![0] = @ + 1]
        BY <2>2, FailureAddsToPresent DEF GuardInv
    <2>4. \A k \in Keys : k # key => Failures(k)' = Failures(k)
        BY <1>0, <2>1, FailuresUntouched
    <2>5. \A k \in Keys : Shut(k)' = Shut(k)
        BY <2>1 DEF Shut
    <2> QED
        BY <1>1, <1>2, <1>5, <2>3, <2>4, <2>5
<1> QED
    BY <1>3, <1>4, <1>5

\* A second passes: every entry of the window is one second older, and none
\* is younger than that.
LEMMA TickAges ==
    ASSUME TypeOK, WindowsOK, GuardInv, Tick
    PROVE  /\ \A k \in DOMAIN TokenBudget : Spent(k)' = Abstract!OneSecondOlder(Spent(k))
           /\ \A k \in Keys : Failures(k)' = Abstract!OneSecondOlder(Failures(k))
           /\ \A k \in Keys : Shut(k)' = IF Shut(k) = 0 THEN 0 ELSE Shut(k) - 1
<1>0. /\ now \in Nat /\ now' = now + 1 /\ token_events' = token_events
      /\ retry_events' = retry_events /\ cooldown_until' = cooldown_until
      /\ cooldown_until \in [Keys -> Nat]
    BY DEF TypeOK, Tick, tokenVars, guardVars
<1>1. ASSUME NEW k \in DOMAIN TokenBudget
      PROVE  Spent(k)' = Abstract!OneSecondOlder(Spent(k))
    <2> DEFINE W == TokenBudget[k].window_seconds
               ev == token_events[k]
    <2>1. W \in Nat /\ WindowOK(k)
        BY BudgetAssumption DEF Positive, WindowsOK
    <2>2. \A i \in DOMAIN ev : ev[i].at \in Nat /\ ev[i].at <= now
        BY <2>1 DEF WindowOK, Ordered, ChargeTimes
    <2>3. ASSUME NEW age \in 0..W
          PROVE  TokensOfAge(k, age)' = IF age = 0 THEN 0 ELSE TokensOfAge(k, age - 1)
        <3> DEFINE I == {i \in DOMAIN ev : now + 1 - ev[i].at = age}
                   J == {i \in DOMAIN ev : now - ev[i].at = age - 1}
        <3>1. TokensOfAge(k, age)' = TokensAt(ev, I)
            <4>0. token_events'[k] = ev /\ now' = now + 1
                BY <1>0
            <4>1. {i \in DOMAIN token_events'[k] : now' - token_events'[k][i].at = age} = I
                BY <1>0, <2>2
            <4>2. TokensOfAge(k, age)'
                    = TokensAt(token_events'[k],
                        {i \in DOMAIN token_events'[k] : now' - token_events'[k][i].at = age})
                BY DEF TokensOfAge, TokensAt
            <4> HIDE DEF I
            <4> QED
                BY <1>0, <4>1, <4>2
        <3>2. CASE age = 0
            <4>1. I = {}
                BY <1>0, <2>2, <3>2
            <4>2. TokensAt(ev, {}) = 0
                <5>1. {u \in {} \X (1..MaxUsage) : u[2] <= ev[u[1]].tokens} = {}
                    OBVIOUS
                <5> QED
                    BY <5>1, FS_EmptySet DEF TokensAt
            <4> HIDE DEF I, ev
            <4> QED
                BY <3>1, <3>2, <4>1, <4>2
        <3>3. CASE age # 0
            <4>1. I = J
                BY <1>0, <2>2, <3>3
            <4>2. TokensOfAge(k, age - 1) = TokensAt(ev, J)
                BY DEF TokensOfAge
            <4> HIDE DEF I, J, ev
            <4> QED
                BY <3>1, <3>3, <4>1, <4>2
        <3> QED
            BY <3>2, <3>3
    <2>4. Spent(k)' = [age \in 0..W |-> IF age = 0 THEN 0 ELSE TokensOfAge(k, age - 1)]
        BY <2>3 DEF Spent
    <2>5. Abstract!OneSecondOlder(Spent(k))
            = [age \in 0..W |-> IF age = 0 THEN 0 ELSE Spent(k)[age - 1]]
        BY DEF Abstract!OneSecondOlder, Spent
    <2>6. \A age \in 0..W : age # 0 => Spent(k)[age - 1] = TokensOfAge(k, age - 1)
        BY <2>1 DEF Spent
    <2> QED
        BY <2>4, <2>5, <2>6
<1>2. ASSUME NEW k \in Keys
      PROVE  Failures(k)' = Abstract!OneSecondOlder(Failures(k))
    <2> DEFINE W == RetryGuard.window_seconds
               ev == retry_events[k]
    <2>1. W \in Nat
        BY GuardAssumption DEF Positive
    <2>2. \A i \in DOMAIN ev : ev[i] \in Nat /\ ev[i] <= now
        BY DEF GuardInv, Ordered
    <2>3. ASSUME NEW age \in 0..W
          PROVE  FailuresOfAge(k, age)' = IF age = 0 THEN 0 ELSE FailuresOfAge(k, age - 1)
        <3> DEFINE I == {i \in DOMAIN ev : now + 1 - ev[i] = age}
                   J == {i \in DOMAIN ev : now - ev[i] = age - 1}
        <3>1. FailuresOfAge(k, age)' = Cardinality(I)
            <4>0. retry_events'[k] = ev /\ now' = now + 1
                BY <1>0
            <4>1. {i \in DOMAIN retry_events'[k] : now' - retry_events'[k][i] = age} = I
                BY <1>0, <2>2
            <4> HIDE DEF I
            <4> QED
                BY <4>1 DEF FailuresOfAge
        <3>2. CASE age = 0
            <4>1. I = {}
                BY <1>0, <2>2, <3>2
            <4> HIDE DEF I
            <4> QED
                BY <3>1, <3>2, <4>1, FS_EmptySet
        <3>3. CASE age # 0
            <4>1. I = J
                BY <1>0, <2>2, <3>3
            <4>2. FailuresOfAge(k, age - 1) = Cardinality(J)
                BY DEF FailuresOfAge
            <4> HIDE DEF I, J
            <4> QED
                BY <3>1, <3>3, <4>1, <4>2
        <3> QED
            BY <3>2, <3>3
    <2>4. Failures(k)' = [age \in 0..W |-> IF age = 0 THEN 0 ELSE FailuresOfAge(k, age - 1)]
        BY <2>3 DEF Failures
    <2>5. Abstract!OneSecondOlder(Failures(k))
            = [age \in 0..W |-> IF age = 0 THEN 0 ELSE Failures(k)[age - 1]]
        BY DEF Abstract!OneSecondOlder, Failures
    <2>6. \A age \in 0..W : age # 0 => Failures(k)[age - 1] = FailuresOfAge(k, age - 1)
        BY <2>1 DEF Failures
    <2> QED
        BY <2>4, <2>5, <2>6
<1>3. ASSUME NEW k \in Keys
      PROVE  Shut(k)' = IF Shut(k) = 0 THEN 0 ELSE Shut(k) - 1
    BY <1>0 DEF Shut, MaxZero
<1> QED
    BY <1>1, <1>2, <1>3

-----------------------------------------------------------------------------
(* The refinement.                                                          *)

\* A disabled controller hands out no lease.
QuotaInv == WindowInv /\ \A r \in Requests : lease[r] # NoLease => Enabled

\* The lease of a caller changes in acquire() and release() only.
LEMMA QuotaInvariance == Spec => []QuotaInv
<1>1. Init => QuotaInv
    BY WindowInvInit DEF Init, QuotaInv
<1>2. QuotaInv /\ [Next]_vars => QuotaInv'
    <2> SUFFICES ASSUME QuotaInv, [Next]_vars PROVE QuotaInv'
        OBVIOUS
    <2>1. WindowInv'
        BY WindowInvNext DEF QuotaInv
    <2>2. lease \in [Requests -> Leases \cup {NoLease}]
        BY DEF QuotaInv, WindowInv, Inv, TypeOK
    <2>3. \A r \in Requests : lease'[r] # NoLease => Enabled
        BY <2>2 DEF QuotaInv, Next, Admit, AcquireAdmitted, TakeSlot, Reject, AcquireRejected,
                    AdmitAndGiveBack, Finish, Release, FailedHeader, Tick, vars, slotVars
    <2> QED
        BY <2>1, <2>3 DEF QuotaInv
<1> QED
    BY <1>1, <1>2, PTL DEF Spec

\* acquire() admits when Quota does.
LEMMA AdmitImplements ==
    ASSUME QuotaInv, NEW r \in Requests, NEW l \in Leases, Admit(r, l)
    PROVE  Abstract!Admit(r, l)
<1>0. TypeOK /\ WindowsOK /\ GuardInv /\ SlotsMatchLeases
    BY DEF QuotaInv, WindowInv, Inv
<1>1. Key(l) \in Keys /\ Key(l)[2] = l.model_name /\ l.model_name \in Models
    BY LeaseKey
<1>2. Enabled /\ lease[r] = NoLease /\ lease' = [lease EXCEPT ![r] = l]
      /\ DropOldTokenEvents(Key(l)) /\ UNCHANGED <<now, guardVars>> /\ Admits(Key(l))
    BY DEF Admit, AcquireAdmitted, TakeSlot
<1>3. Shut(Key(l)) = 0
    BY <1>0, <1>1, <1>2 DEF Admits, ReachesBudget, GuardOpen, Shut, MaxZero, TypeOK
<1>4. l.model_name \in DOMAIN ModelLimit =>
        Cardinality({h \in Requests : lease[h] # NoLease /\ lease[h].model_name = l.model_name})
          < ModelLimit[l.model_name]
    <2>1. {h \in Requests : lease[h] # NoLease /\ lease[h].model_name = l.model_name}
            = HoldersOfModel(l.model_name)
        BY DEF HoldersOfModel, Holders
    <2>2. /\ active_by_model[l.model_name] \in Nat
          /\ active_by_model[l.model_name] = Cardinality(HoldersOfModel(l.model_name))
        BY <1>0, <1>1 DEF TypeOK, SlotsMatchLeases
    <2>3. l.model_name \in DOMAIN ModelLimit =>
            active_by_model[l.model_name] < ModelLimit[l.model_name]
        BY <1>1, <1>2, <2>2, LimitAssumption DEF Admits, ReachesBudget, ModelFull, Positive
    <2> QED
        BY <2>1, <2>2, <2>3
<1>5. Key(l) \in DOMAIN DepartmentModelLimit =>
        Cardinality({h \in Requests : lease[h] # NoLease /\ Key(lease[h]) = Key(l)})
          < DepartmentModelLimit[Key(l)]
    <2>1. {h \in Requests : lease[h] # NoLease /\ Key(lease[h]) = Key(l)} = HoldersOfKey(Key(l))
        BY DEF HoldersOfKey, Holders
    <2>2. /\ active_by_department_model[Key(l)] \in Nat
          /\ active_by_department_model[Key(l)] = Cardinality(HoldersOfKey(Key(l)))
        BY <1>0, <1>1 DEF TypeOK, SlotsMatchLeases
    <2>3. Key(l) \in DOMAIN DepartmentModelLimit =>
            active_by_department_model[Key(l)] < DepartmentModelLimit[Key(l)]
        BY <1>1, <1>2, <2>2, LimitAssumption
           DEF Admits, ReachesBudget, DepartmentModelFull, Positive
    <2> QED
        BY <2>1, <2>2, <2>3
<1>6. Key(l) \in DOMAIN TokenBudget =>
        Abstract!Total(Spent(Key(l))) < TokenBudget[Key(l)].max_tokens
    <2> SUFFICES ASSUME Key(l) \in DOMAIN TokenBudget
                 PROVE  Abstract!Total(Spent(Key(l))) < TokenBudget[Key(l)].max_tokens
        OBVIOUS
    <2>1. Abstract!Total(Spent(Key(l))) = FreshTotal(Key(l))
        BY <1>0, SpentTotal DEF WindowsOK
    <2>2. FreshTotal(Key(l)) \in Nat /\ TokenBudget[Key(l)].max_tokens \in Nat
        BY <1>0, <1>1, FreshWindow, BudgetAssumption DEF Positive
    <2> QED
        BY <1>2, <2>1, <2>2 DEF Admits, BudgetSpent
<1>7. Abstract!MayAdmit(l)
    <2>1. Abstract!Key(l) = Key(l)
        BY DEF Abstract!Key, Key
    <2>2. Abstract!Holding(LAMBDA h : h.model_name = l.model_name)
            = Cardinality({h \in Requests : lease[h] # NoLease /\ lease[h].model_name = l.model_name})
        BY DEF Abstract!Holding, Abstract!Cardinality, Cardinality
    <2>3. Abstract!Holding(LAMBDA h : Abstract!Key(h) = Abstract!Key(l))
            = Cardinality({h \in Requests : lease[h] # NoLease /\ Key(lease[h]) = Key(l)})
        BY DEF Abstract!Holding, Abstract!Cardinality, Cardinality, Abstract!Key, Key
    <2> QED
        BY <1>1, <1>2, <1>3, <1>4, <1>5, <1>6, <2>1, <2>2, <2>3
           DEF Abstract!MayAdmit, Spent, Shut
<1>8. \A k \in DOMAIN TokenBudget : Spent(k)' = Spent(k)
    BY <1>0, <1>1, <1>2, DropKeepsAges
<1>9. \A k \in Keys : Failures(k)' = Failures(k) /\ Shut(k)' = Shut(k)
    BY <1>2, FailuresUntouched DEF guardVars, Shut
<1> QED
    BY <1>2, <1>7, <1>8, <1>9 DEF Abstract!Admit, Spent, Failures, Shut

\* A refused request, and one that gives its slot back at once, are no step
\* of Quota.
LEMMA TrimmingIsInvisible ==
    ASSUME QuotaInv, NEW key \in Keys, DropOldTokenEvents(key) \/ UNCHANGED tokenVars,
           UNCHANGED <<now, lease, guardVars>>
    PROVE  UNCHANGED Abstract!vars
<1>0. TypeOK /\ WindowsOK
    BY DEF QuotaInv, WindowInv, Inv
<1>1. \A k \in DOMAIN TokenBudget : Spent(k)' = Spent(k)
    <2>1. CASE DropOldTokenEvents(key)
        BY <1>0, <2>1, DropKeepsAges
    <2>2. CASE UNCHANGED tokenVars
        BY <2>2 DEF tokenVars, Spent, TokensOfAge, TokensAt
    <2> QED
        BY <2>1, <2>2
<1>2. \A k \in Keys : Failures(k)' = Failures(k) /\ Shut(k)' = Shut(k)
    BY FailuresUntouched DEF guardVars, Shut
<1> QED
    BY <1>1, <1>2 DEF Abstract!vars, Spent, Failures, Shut

\* A failure counts in Quota as it does in the controller.
LEMMA CountImplements ==
    ASSUME QuotaInv, NEW key \in Keys, Enabled, RecordRetryEvent(key), now' = now
    PROVE  Abstract!CountFailure(key)
<1> DEFINE failures == [k \in Keys |-> Failures(k)]
           shut == [k \in Keys |-> Shut(k)]
           failed == [k \in Keys |-> Failures(k)']
           closed == [k \in Keys |-> Shut(k)']
<1>0. TypeOK /\ GuardInv
    BY DEF QuotaInv, WindowInv, Inv
<1>1. IF ~RetryGuard.enabled \/ shut[key] > 0
      THEN failed = failures /\ closed = shut
      ELSE IF Abstract!Total(failures[key]) + 1 >= RetryGuard.max_events
      THEN /\ closed = [shut EXCEPT ![key] = RetryGuard.cooldown_seconds]
           /\ failed = [failures EXCEPT ![key] = Abstract!Nothing(RetryGuard.window_seconds)]
      ELSE /\ failed = [failures EXCEPT ![key][0] = @ + 1]
           /\ closed = shut
    BY <1>0, RetryImplementsCount
<1> QED
    BY <1>1 DEF Abstract!CountFailure, Failures, Shut

\* The end of a request charges, or counts, as in Quota.
LEMMA FinishImplements ==
    ASSUME QuotaInv, NEW r \in Requests, NEW tokens \in 0..MaxUsage, NEW failed \in BOOLEAN,
           Finish(r, tokens, failed)
    PROVE  Abstract!Finish(r, tokens)
<1> DEFINE key == Key(lease[r])
<1>0. TypeOK /\ WindowsOK /\ GuardInv /\ Enabled
    BY DEF QuotaInv, WindowInv, Inv, Finish
<1>1. key \in Keys /\ lease[r] # NoLease /\ now' = now
    BY <1>0, LeaseKey DEF Finish, TypeOK
<1>2. lease' = [lease EXCEPT ![r] = NoLease]
    BY <1>1 DEF Finish, Release
<1>3. Abstract!Key(lease[r]) = key
    BY DEF Abstract!Key, Key
<1> HIDE DEF key
<1>4. RecordTokens(key, tokens)
    BY DEF Finish, key
<1>5. CASE failed
    <2>1. tokens = 0 /\ RecordRetryEvent(key)
        BY <1>5 DEF Finish, key
    <2>2. UNCHANGED tokenVars
        BY <1>4, <2>1 DEF RecordTokens
    <2>3. Abstract!CountFailure(key)
        BY <1>0, <1>1, <2>1, CountImplements
    <2>4. \A k \in DOMAIN TokenBudget : Spent(k)' = Spent(k)
        BY <1>1, <2>2 DEF tokenVars, Spent, TokensOfAge, TokensAt
    <2> QED
        BY <1>1, <1>2, <1>3, <2>3, <2>4 DEF Abstract!Finish, Spent
<1>6. CASE ~failed
    <2>1. UNCHANGED guardVars
        BY <1>6 DEF Finish
    <2>2. \A k \in Keys : Failures(k)' = Failures(k) /\ Shut(k)' = Shut(k)
        BY <1>1, <2>1, FailuresUntouched DEF guardVars, Shut
    <2>3. \A k \in DOMAIN TokenBudget :
             /\ k # key => Spent(k)' = Spent(k)
             /\ k = key => Spent(k)' = [Spent(k) EXCEPT ![0] = @ + tokens]
        BY <1>0, <1>1, <1>4, ChargeAddsToPresent
    <2>4. Abstract!Charge(key, tokens)
        <3> DEFINE spent == [k \in DOMAIN TokenBudget |-> Spent(k)]
                   charged == [k \in DOMAIN TokenBudget |-> Spent(k)']
        <3>1. CASE key \in DOMAIN TokenBudget
            <4>1. charged = [spent EXCEPT ![key] = [spent[key] EXCEPT ![0] = @ + tokens]]
                BY <2>3, <3>1
            <4> QED
                BY <3>1, <4>1 DEF Abstract!Charge, Spent
        <3>2. CASE key \notin DOMAIN TokenBudget
            <4>1. charged = spent
                BY <2>3, <3>2
            <4> QED
                BY <3>2, <4>1 DEF Abstract!Charge, Spent
        <3> QED
            BY <3>1, <3>2
    <2> QED
        BY <1>1, <1>2, <1>3, <2>2, <2>4 DEF Abstract!Finish, Failures, Shut
<1> QED
    BY <1>5, <1>6

\* Every step of the controller is a step of Quota or none.
LEMMA StepImplements ==
    ASSUME QuotaInv, [Next]_vars
    PROVE  [Abstract!Next]_(Abstract!vars)
<1>0. TypeOK /\ WindowsOK /\ GuardInv
    BY DEF QuotaInv, WindowInv, Inv
<1>1. ASSUME NEW r \in Requests, NEW l \in Leases, Admit(r, l)
      PROVE  Abstract!Next
    <2>1. l \in Abstract!Leases
        BY DEF Leases, Abstract!Leases
    <2> QED
        BY <1>1, <2>1, AdmitImplements DEF Abstract!Next
<1>2. ASSUME NEW l \in Leases, Reject(l)
      PROVE  UNCHANGED Abstract!vars
    <2>1. DropOldTokenEvents(Key(l)) \/ UNCHANGED tokenVars
        BY <1>2 DEF Reject, AcquireRejected
    <2>2. UNCHANGED <<now, lease, guardVars>>
        BY <1>2 DEF Reject, AcquireRejected, slotVars
    <2> QED
        BY <2>1, <2>2, LeaseKey, TrimmingIsInvisible
<1>3. ASSUME NEW l \in Leases, AdmitAndGiveBack(l)
      PROVE  UNCHANGED Abstract!vars
    <2>1. UNCHANGED <<now, lease, guardVars>>
        BY <1>3 DEF AdmitAndGiveBack, slotVars
    <2> QED
        BY <1>3, <2>1, LeaseKey, TrimmingIsInvisible DEF AdmitAndGiveBack
<1>4. ASSUME NEW r \in Requests, NEW tokens \in 0..MaxUsage, NEW failed \in BOOLEAN,
             Finish(r, tokens, failed)
      PROVE  Abstract!Next
    <2>1. Abstract!Finish(r, tokens)
        BY <1>4, FinishImplements
    <2> QED
        BY <2>1 DEF Abstract!Next, MaxUsage
<1>5. ASSUME NEW r \in Requests, FailedHeader(r)
      PROVE  Abstract!Next
    <2>1. /\ lease[r] # NoLease /\ Key(lease[r]) \in Keys /\ Enabled
          /\ RecordRetryEvent(Key(lease[r])) /\ UNCHANGED <<now, slotVars, tokenVars>>
        BY <1>0, <1>5, LeaseKey DEF FailedHeader, TypeOK, QuotaInv
    <2>2. Abstract!CountFailure(Key(lease[r]))
        BY <2>1, CountImplements
    <2>3. \A k \in DOMAIN TokenBudget : Spent(k)' = Spent(k)
        BY <2>1 DEF tokenVars, Spent, TokensOfAge, TokensAt
    <2>4. Abstract!Key(lease[r]) = Key(lease[r])
        BY DEF Abstract!Key, Key
    <2>5. Abstract!FailEarly(r)
        BY <2>1, <2>2, <2>3, <2>4 DEF Abstract!FailEarly, Spent, slotVars
    <2> QED
        BY <2>5 DEF Abstract!Next
<1>6. CASE Tick
    <2>1. lease' = lease
        BY <1>6 DEF Tick, slotVars
    <2>2. Abstract!Keys = Keys
        BY DEF Abstract!Keys, Keys
    <2>3. Abstract!Pass
        BY <1>0, <1>6, <2>1, <2>2, TickAges DEF Abstract!Pass, Spent, Failures, Shut
    <2> QED
        BY <2>3 DEF Abstract!Next
<1>7. CASE UNCHANGED vars
    <2>1. UNCHANGED tokenVars /\ UNCHANGED <<now, lease, guardVars>>
        BY <1>7 DEF vars, slotVars
    <2>2. \A k \in DOMAIN TokenBudget : Spent(k)' = Spent(k)
        BY <2>1 DEF tokenVars, Spent, TokensOfAge, TokensAt
    <2>3. \A k \in Keys : Failures(k)' = Failures(k) /\ Shut(k)' = Shut(k)
        BY <2>1, FailuresUntouched DEF guardVars, Shut
    <2> QED
        BY <2>1, <2>2, <2>3 DEF Abstract!vars, Spent, Failures, Shut
<1> QED
    BY <1>1, <1>2, <1>3, <1>4, <1>5, <1>6, <1>7 DEF Next

\* The controller starts as Quota does.
LEMMA InitImplements == Init => Abstract!Init
<1> SUFFICES ASSUME Init PROVE Abstract!Init
    OBVIOUS
<1>1. ASSUME NEW k \in DOMAIN TokenBudget
      PROVE  Spent(k) = Abstract!Nothing(TokenBudget[k].window_seconds)
    <2>1. k \in Keys /\ token_events[k] = <<>>
        BY BudgetAssumption DEF Init
    <2>2. \A age : TokensOfAge(k, age) = 0
        <3>1. \A age : {u \in {i \in {} : now - token_events[k][i].at = age} \X (1..MaxUsage) :
                          u[2] <= token_events[k][u[1]].tokens} = {}
            OBVIOUS
        <3>2. DOMAIN token_events[k] = {}
            BY <2>1
        <3> QED
            BY <3>1, <3>2, FS_EmptySet DEF TokensOfAge, TokensAt
    <2> QED
        BY <2>2 DEF Spent, Abstract!Nothing
<1>2. ASSUME NEW k \in Keys
      PROVE  Failures(k) = Abstract!Nothing(RetryGuard.window_seconds) /\ Shut(k) = 0
    <2>1. \A age : FailuresOfAge(k, age) = 0
        <3>1. \A age : {i \in {} : now - retry_events[k][i] = age} = {}
            OBVIOUS
        <3>2. DOMAIN retry_events[k] = {}
            BY DEF Init
        <3> QED
            BY <3>1, <3>2, FS_EmptySet DEF FailuresOfAge
    <2> QED
        BY <2>1 DEF Init, Failures, Shut, MaxZero, Abstract!Nothing
<1>3. lease = [r \in Requests |-> NoLease] /\ Abstract!Keys = Keys
    BY DEF Init, Abstract!Keys, Keys
<1> QED
    BY <1>1, <1>2, <1>3 DEF Abstract!Init, Spent, Failures, Shut

\* Trimming lazily, keeping running totals and comparing time stamps, the
\* controller admits, charges, counts and shuts exactly as Quota does by age.
THEOREM ControllerImplementsQuota == Spec => ImplementsQuota
<1>1. Init => Abstract!Init
    BY InitImplements
<1>2. QuotaInv /\ [Next]_vars => [Abstract!Next]_(Abstract!vars)
    BY StepImplements
<1> QED
    BY <1>1, <1>2, QuotaInvariance, PTL DEF Spec, ImplementsQuota, Abstract!Spec
=============================================================================
