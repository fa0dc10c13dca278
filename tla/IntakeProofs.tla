----------------------------- MODULE IntakeProofs -----------------------------
(***************************************************************************)
(* Proofs about the configuration and the intake of requests, for every    *)
(* set of configuration files, environments, headers and payloads.         *)
(***************************************************************************)
EXTENDS Intake, FiniteSetTheorems, SequenceTheorems, WellFoundedInduction, TLAPS

-----------------------------------------------------------------------------
(* Lists, and the largest and smallest of some places.                      *)

\* The places of a list.
LEMMA ListPlaces ==
    ASSUME NEW s, IsList(s)
    PROVE  Len(s) \in Nat /\ DOMAIN s = 1..Len(s)
BY LenProperties DEF IsList

\* A non-empty set of natural numbers has a smallest element.
LEMMA MinOf ==
    ASSUME NEW S, S \subseteq Nat, S # {}
    PROVE  Min(S) \in S /\ \A x \in S : Min(S) <= x
<1>1. PICK b \in S : \A p \in S : ~ (<<p, b>> \in OpToRel(<, Nat))
    BY WFMin, NatLessThanWellFounded
<1>2. \A p \in S : ~ (p < b)
    BY <1>1 DEF OpToRel
<1>3. \A x \in S : b <= x
    BY <1>2
<1> QED
    BY <1>3 DEF Min

\* So has a bounded one a largest.
LEMMA MaxOf ==
    ASSUME NEW S, S \subseteq Nat, S # {}, NEW n \in Nat, \A x \in S : x <= n
    PROVE  Max(S) \in S /\ \A x \in S : x <= Max(S)
<1> DEFINE T == {n - x : x \in S}
<1>1. T \subseteq Nat /\ T # {}
    <2>1. \A x \in S : n - x \in Nat
        OBVIOUS
    <2>2. PICK x \in S : TRUE
        OBVIOUS
    <2>3. n - x \in T
        BY <2>2
    <2> QED
        BY <2>1, <2>3
<1>2. Min(T) \in T /\ \A y \in T : Min(T) <= y
    <2> HIDE DEF T
    <2> QED
        BY <1>1, MinOf
<1>3. PICK b \in S : Min(T) = n - b
    BY <1>2
<1>4. \A x \in S : x <= b
    BY <1>2, <1>3
<1> QED
    BY <1>4 DEF Max

-----------------------------------------------------------------------------
(* Lists put together.                                                      *)

\* What FlattenSeq computes is a list that is as long as each of its parts.
LEMMA FlattenKeeps ==
    ASSUME NEW S, NEW parts, NEW N \in Nat, N > 0, parts \in [1..N -> Seq(S)]
    PROVE  \A i \in 1..N : Len(FlattenSeq(parts)) >= Len(parts[i])
<1> DEFINE IsFold(f, n) ==
             f = [i \in 1..n |-> IF i = 1 THEN parts[i] ELSE f[i - 1] \o parts[i]]
           Bad == {n \in 0..N : ~ \E f : IsFold(f, n)}
<1>0. parts \in Seq(Seq(S)) /\ Len(parts) = N /\ DOMAIN parts = 1..N
    BY LenProperties
<1>1. \E f : IsFold(f, 0)
    <2> DEFINE f == [i \in 1..0 |-> parts[i]]
    <2>1. 1..0 = {}
        OBVIOUS
    <2>2. f = [i \in 1..0 |-> IF i = 1 THEN parts[i] ELSE f[i - 1] \o parts[i]]
        BY <2>1
    <2> QED
        BY <2>2
<1>2. ASSUME NEW n \in 0..(N - 1), NEW f, IsFold(f, n)
      PROVE  \E g : IsFold(g, n + 1)
    <2> DEFINE g == [i \in 1..(n + 1) |->
                       IF i <= n THEN f[i]
                       ELSE IF i = 1 THEN parts[i] ELSE f[i - 1] \o parts[i]]
    <2>1. ASSUME NEW i \in 1..(n + 1)
          PROVE  g[i] = IF i = 1 THEN parts[i] ELSE g[i - 1] \o parts[i]
        <3>1. CASE i <= n
            <4>1. g[i] = f[i] /\ i \in 1..n
                BY <3>1
            <4>2. f[i] = IF i = 1 THEN parts[i] ELSE f[i - 1] \o parts[i]
                BY <1>2, <4>1
            <4>3. i # 1 => g[i - 1] = f[i - 1]
                BY <3>1
            <4> QED
                BY <4>1, <4>2, <4>3
        <3>2. CASE ~ (i <= n)
            <4>1. i = n + 1 /\ g[i] = IF i = 1 THEN parts[i] ELSE f[i - 1] \o parts[i]
                BY <3>2
            <4>2. i # 1 => g[i - 1] = f[i - 1]
                BY <4>1
            <4> QED
                BY <4>1, <4>2
        <3> QED
            BY <3>1, <3>2
    <2>2. DOMAIN g = 1..(n + 1) /\ g = [i \in 1..(n + 1) |-> g[i]]
        OBVIOUS
    <2> HIDE DEF g
    <2>3. g = [i \in 1..(n + 1) |-> IF i = 1 THEN parts[i] ELSE g[i - 1] \o parts[i]]
        BY <2>1, <2>2
    <2> QED
        BY <2>3
<1>3. Bad = {}
    <2> HIDE DEF IsFold
    <2>1. SUFFICES ASSUME Bad # {} PROVE FALSE
        OBVIOUS
    <2>2. Bad \subseteq Nat
        OBVIOUS
    <2>3. PICK b \in Bad : \A p \in Bad : ~ (<<p, b>> \in OpToRel(<, Nat))
        <3> HIDE DEF Bad
        <3> QED
            BY <2>1, <2>2, WFMin, NatLessThanWellFounded
    <2>4. \A p \in Bad : ~ (p < b)
        BY <2>2, <2>3 DEF OpToRel
    <2>5. b \in 0..N /\ b # 0
        BY <1>1
    <2>6. b - 1 \in 0..(N - 1) /\ b - 1 < b /\ b - 1 \in 0..N /\ b - 1 + 1 = b
        BY <2>5
    <2>7. b - 1 \notin Bad
        BY <2>4, <2>6
    <2>8. PICK f : IsFold(f, b - 1)
        BY <2>6, <2>7
    <2>9. \E g : IsFold(g, b - 1 + 1)
        BY <1>2, <2>6, <2>8
    <2> QED
        BY <2>6, <2>9
<1> DEFINE fold == CHOOSE f : IsFold(f, N)
<1>4. IsFold(fold, N)
    <2>1. \E f : IsFold(f, N)
        <3>1. N \in 0..N
            OBVIOUS
        <3> HIDE DEF IsFold
        <3> QED
            BY <1>3, <3>1
    <2> HIDE DEF IsFold
    <2> QED
        BY <2>1
<1>5. FlattenSeq(parts) = fold[N]
    BY <1>0 DEF FlattenSeq
<1> HIDE DEF fold
<1>6. \A i \in 1..N : fold[i] = IF i = 1 THEN parts[i] ELSE fold[i - 1] \o parts[i]
    BY <1>4
<1> DEFINE Good(i) == /\ fold[i] \in Seq(S)
                      /\ \A j \in 1..i : Len(fold[i]) >= Len(parts[j])
           Worse == {i \in 1..N : ~Good(i)}
<1>7. Worse = {}
    <2>1. SUFFICES ASSUME Worse # {} PROVE FALSE
        OBVIOUS
    <2>2. Worse \subseteq Nat
        OBVIOUS
    <2>3. PICK b \in Worse : \A p \in Worse : ~ (<<p, b>> \in OpToRel(<, Nat))
        <3> HIDE DEF Worse
        <3> QED
            BY <2>1, <2>2, WFMin, NatLessThanWellFounded
    <2>4. \A p \in Worse : ~ (p < b)
        <3> HIDE DEF Good
        <3> QED
            BY <2>2, <2>3 DEF OpToRel
    <2>5. b \in 1..N /\ ~Good(b) /\ parts[b] \in Seq(S) /\ Len(parts[b]) \in Nat
        OBVIOUS
    <2>6. CASE b = 1
        <3>1. fold[b] = parts[b]
            BY <1>6, <2>5, <2>6
        <3>2. ASSUME NEW j \in 1..b
              PROVE  Len(fold[b]) >= Len(parts[j])
            <4>1. j = b
                BY <2>6
            <4> QED
                BY <2>5, <3>1, <4>1
        <3>3. fold[b] \in Seq(S)
            BY <2>5, <3>1
        <3> QED
            BY <2>5, <3>2, <3>3
    <2>7. CASE b # 1
        <3>1. b - 1 \in 1..N /\ b - 1 < b
            BY <2>5, <2>7
        <3>2. Good(b - 1)
            <4> HIDE DEF Good
            <4> QED
                BY <2>4, <3>1
        <3>3. fold[b] = fold[b - 1] \o parts[b]
            BY <1>6, <2>5, <2>7
        <3>4. /\ fold[b] \in Seq(S)
              /\ Len(fold[b]) = Len(fold[b - 1]) + Len(parts[b])
              /\ Len(fold[b - 1]) \in Nat
            BY <2>5, <3>2, <3>3, ConcatProperties
        <3>5. ASSUME NEW j \in 1..b
              PROVE  Len(fold[b]) >= Len(parts[j])
            <4>1. Len(parts[j]) \in Nat
                BY <2>5
            <4>2. CASE j = b
                BY <2>5, <3>4, <4>2
            <4>3. CASE j \in 1..(b - 1)
                BY <2>5, <3>2, <3>4, <4>1, <4>3
            <4> QED
                BY <2>5, <4>2, <4>3
        <3> QED
            BY <2>5, <3>4, <3>5
    <2> QED
        BY <2>6, <2>7
<1>8. Good(N)
    <2> HIDE DEF Good
    <2> QED
        BY <1>7
<1> QED
    BY <1>5, <1>8

-----------------------------------------------------------------------------
(* The settings.                                                            *)

\* Of the entries that name a model, the last one counts: no entry is lost,
\* unless a later one spells the same model differently.
LEMMA LastEntryCounts ==
    ASSUME NEW entries, IsList(entries), NEW i \in DOMAIN entries
    PROVE  \E j \in i..Len(entries) :
             /\ Strip(entries[j].model) = Strip(entries[i].model)
             /\ ByModel(entries)[Strip(entries[i].model)] = entries[j].limit
<1> DEFINE m == Strip(entries[i].model)
           P == {j \in DOMAIN entries : Strip(entries[j].model) = m}
<1>1. Len(entries) \in Nat /\ DOMAIN entries = 1..Len(entries)
    BY ListPlaces
<1>2. P \subseteq Nat /\ i \in P /\ \A x \in P : x <= Len(entries)
    BY <1>1
<1>3. Max(P) \in P /\ i <= Max(P)
    <2> HIDE DEF P
    <2> QED
        BY <1>1, <1>2, MaxOf
<1>4. m \in {Strip(e.model) : e \in ToSet(entries)}
    BY DEF ToSet
<1>5. ByModel(entries)[m] = entries[Max(P)].limit
    <2> HIDE DEF m
    <2> QED
        BY <1>4 DEF ByModel, m
<1>6. Max(P) \in i..Len(entries) /\ Strip(entries[Max(P)].model) = m
    <2>1. Max(P) \in 1..Len(entries) /\ Strip(entries[Max(P)].model) = m
        BY <1>1, <1>3
    <2> HIDE DEF P, m
    <2> QED
        BY <1>1, <1>3, <2>1
<1> QED
    BY <1>5, <1>6

\* A pair that is listed once has the limit of its entry.
LEMMA OnlyEntryCounts ==
    ASSUME NEW entries, IsList(entries), Distinct(Pairs(entries)), NEW e \in ToSet(entries)
    PROVE  Pair(e) \in DOMAIN ByPair(entries) /\ ByPair(entries)[Pair(e)] = e.limit
<1> DEFINE k == Pair(e)
           P == {j \in DOMAIN entries : Pair(entries[j]) = k}
<1>1. Len(entries) \in Nat /\ DOMAIN entries = 1..Len(entries)
    BY ListPlaces
<1>2. PICK i \in DOMAIN entries : e = entries[i]
    BY DEF ToSet
<1>3. P = {i}
    <2>1. \A j \in DOMAIN entries : Pair(entries[j]) = Pair(entries[i]) => j = i
        BY DEF Distinct, IsInjective, Pairs
    <2> QED
        BY <1>2, <2>1
<1>4. Min(P) = i
    <2>1. {i} \subseteq Nat
        BY <1>1
    <2> QED
        BY <1>3, <2>1, MinOf
<1>5. k \in ToSet(Pairs(entries))
    BY <1>2 DEF Pairs, ToSet
<1>6. ByPair(entries)[k] = entries[Min(P)].limit
    <2> HIDE DEF k
    <2> QED
        BY <1>5 DEF ByPair, k
<1> QED
    BY <1>2, <1>4, <1>5, <1>6 DEF ByPair

\* What is known of the file and the environment before they are validated.
Given == file \in Files /\ env \in Environments

\* One of the keys that department d declares.
Declares(d, key) == key \in ToSet(ApiKeys(d))

\* The sections of a file that was read are lists.
LEMMA FileLists ==
    ASSUME Given, file # None
    PROVE  /\ IsList(file.upstreams) /\ IsList(file.departments)
           /\ IsList(file.global_model_limits) /\ IsList(file.request_shape_limits)
           /\ IsList(file.department_model_limits) /\ IsList(file.token_budgets)
BY FileAssumption DEF Given

\* A key of the file is one that a department declares, and the other way
\* round.
LEMMA KeysAreDeclared ==
    ASSUME NEW key
    PROVE  key \in ToSet(KeysOfFile) <=> \E d \in ToSet(file.departments) : Declares(d, key)
<1>1. \A p : p \in KeyPlaces <=> \E i \in DOMAIN file.departments :
                                \E a \in DOMAIN ApiKeys(file.departments[i]) : p = <<i, a>>
    BY DEF KeyPlaces
<1>2. KeysOfFile = [p \in KeyPlaces |-> ApiKeys(file.departments[p[1]])[p[2]]]
    BY DEF KeysOfFile
<1>3. ASSUME key \in ToSet(KeysOfFile)
      PROVE  \E d \in ToSet(file.departments) : Declares(d, key)
    <2>1. PICK p \in KeyPlaces : key = KeysOfFile[p]
        BY <1>2, <1>3 DEF ToSet
    <2>2. PICK i \in DOMAIN file.departments :
             \E a \in DOMAIN ApiKeys(file.departments[i]) : p = <<i, a>>
        BY <1>1, <2>1
    <2>3. PICK a \in DOMAIN ApiKeys(file.departments[i]) : p = <<i, a>>
        BY <2>2
    <2>4. key = ApiKeys(file.departments[i])[a]
        BY <1>2, <2>1, <2>3
    <2> QED
        BY <2>4 DEF ToSet, Declares
<1>4. ASSUME NEW d \in ToSet(file.departments), Declares(d, key)
      PROVE  key \in ToSet(KeysOfFile)
    <2>1. PICK i \in DOMAIN file.departments : d = file.departments[i]
        BY DEF ToSet
    <2>2. PICK a \in DOMAIN ApiKeys(d) : key = ApiKeys(d)[a]
        BY <1>4 DEF ToSet, Declares
    <2>3. <<i, a>> \in KeyPlaces
        BY <1>1, <2>1, <2>2
    <2>4. KeysOfFile[<<i, a>>] = key
        BY <1>2, <2>1, <2>2, <2>3
    <2> QED
        BY <1>2, <2>3, <2>4 DEF ToSet
<1> QED
    BY <1>3, <1>4

\* No two departments of a file that loads declare the same key.
LEMMA OneOwner ==
    ASSUME UniqueKeys, NEW key,
           NEW d \in ToSet(file.departments), NEW e \in ToSet(file.departments),
           Declares(d, key), Declares(e, key)
    PROVE  d = e
<1>1. \A i \in DOMAIN file.departments : \A a \in DOMAIN ApiKeys(file.departments[i]) :
         <<i, a>> \in KeyPlaces
    BY DEF KeyPlaces
<1>2. KeysOfFile = [p \in KeyPlaces |-> ApiKeys(file.departments[p[1]])[p[2]]]
    BY DEF KeysOfFile
<1>3. PICK i \in DOMAIN file.departments : d = file.departments[i]
    BY DEF ToSet
<1>4. PICK j \in DOMAIN file.departments : e = file.departments[j]
    BY DEF ToSet
<1>5. PICK a \in DOMAIN ApiKeys(d) : key = ApiKeys(d)[a]
    BY DEF ToSet, Declares
<1>6. PICK b \in DOMAIN ApiKeys(e) : key = ApiKeys(e)[b]
    BY DEF ToSet, Declares
<1>7. <<i, a>> \in KeyPlaces /\ <<j, b>> \in KeyPlaces
    BY <1>1, <1>3, <1>4, <1>5, <1>6
<1>8. KeysOfFile[<<i, a>>] = key /\ KeysOfFile[<<j, b>>] = key
    BY <1>2, <1>3, <1>4, <1>5, <1>6, <1>7
<1>9. <<i, a>> = <<j, b>>
    BY <1>2, <1>7, <1>8 DEF UniqueKeys, Distinct, IsInjective
<1>10. i = j
    BY <1>9
<1> QED
    BY <1>3, <1>4, <1>10

\* The department of a key is the one that declares it.
LEMMA OwnerOfKey ==
    ASSUME UniqueKeys, NEW key, NEW d \in ToSet(file.departments), Declares(d, key)
    PROVE  DepartmentOf(key) = Strip(d.name)
<1> DEFINE c == CHOOSE e \in ToSet(file.departments) : key \in ToSet(ApiKeys(e))
<1>1. c \in ToSet(file.departments) /\ Declares(c, key)
    BY DEF Declares
<1>2. c = d
    <2> HIDE DEF c
    <2> QED
        BY <1>1, OneOwner
<1> HIDE DEF c
<1> QED
    BY <1>2 DEF DepartmentOf, c

\* No key is None or blank.
LEMMA KeysAreNames ==
    ASSUME Given, Loadable, NEW key \in ToSet(KeysOfFile)
    PROVE  key \notin {None, Blank}
<1>1. PICK d \in ToSet(file.departments) : Declares(d, key)
    BY KeysAreDeclared
<1>2. /\ file \in Files \ {None} /\ env \in Environments /\ ValidDepartment(d)
    BY DEF Loadable, Given
<1> DEFINE strings == IF d.api_keys_from_env = None THEN d.api_keys
                                                   ELSE env[d.api_keys_from_env].keys
<1>3. \A s \in ToSet(strings) : s.core # None
    <2>1. CASE d.api_keys_from_env = None
        <3>1. d.api_keys # None /\ strings = d.api_keys
            BY <1>2, <2>1 DEF ValidDepartment
        <3> QED
            BY <1>2, <3>1, KeyAssumption
    <2>2. CASE d.api_keys_from_env # None
        <3>1. d.api_keys_from_env \in DOMAIN env /\ strings = env[d.api_keys_from_env].keys
            BY <1>2, <2>2, KeyAssumption
        <3> QED
            BY <1>2, <3>1, KeyAssumption
    <2> QED
        BY <2>1, <2>2
<1> HIDE DEF strings
<1>4. key \in ToSet(Stripped(strings))
    BY <1>1 DEF Declares, ApiKeys, strings
<1>5. PICK i \in DOMAIN strings : ~IsBlank(strings[i]) /\ key = Strip(strings[i])
    BY <1>4 DEF Stripped, ToSet
<1>6. strings[i] \in ToSet(strings)
    BY DEF ToSet
<1> QED
    BY <1>3, <1>5, <1>6 DEF IsBlank, Strip

\* Some key leads to every department of a file that loads.
LEMMA DepartmentsHaveKeys ==
    ASSUME Loadable, NEW name \in KnownDepartments
    PROVE  \E key \in ToSet(KeysOfFile) : DepartmentOf(key) = name
<1>1. PICK d \in ToSet(file.departments) : name = Strip(d.name)
    BY DEF KnownDepartments
<1>2. ValidDepartment(d) /\ UniqueKeys
    BY DEF Loadable
<1>3. PICK key : Declares(d, key)
    BY <1>2 DEF ValidDepartment, Declares
<1>4. DepartmentOf(key) = name
    BY <1>1, <1>2, <1>3, OwnerOfKey
<1> QED
    BY <1>3, <1>4, KeysAreDeclared

\* Every model that an upstream names has an upstream to go to.
LEMMA PoolsAreFilled ==
    ASSUME Given, Loadable, NEW m \in KnownModels
    PROVE  PoolOf(m) # <<>>
<1> DEFINE ups == file.upstreams
           Listed(i) == {j \in DOMAIN Stripped(ups[i].models) : Stripped(ups[i].models)[j] = m}
           parts == [i \in DOMAIN ups |-> [n \in 1..Cardinality(Listed(i)) |-> ups[i].name]]
           names == {ups[i].name : i \in DOMAIN ups}
<1>1. Len(ups) \in Nat /\ DOMAIN ups = 1..Len(ups) /\ file \in Files \ {None}
    BY FileLists, ListPlaces DEF Loadable, Given
<1>2. \A i \in DOMAIN ups : IsFiniteSet(Listed(i)) /\ Cardinality(Listed(i)) \in Nat
    <2> SUFFICES ASSUME NEW i \in DOMAIN ups
                 PROVE  IsFiniteSet(Listed(i)) /\ Cardinality(Listed(i)) \in Nat
        OBVIOUS
    <2>1. ups[i] \in ToSet(ups)
        BY DEF ToSet
    <2>2. IsList(ups[i].models)
        BY <1>1, <2>1, FileAssumption
    <2>3. IsFiniteSet(DOMAIN ups[i].models)
        <3> DEFINE n == Len(ups[i].models)
        <3>1. n \in Nat /\ DOMAIN ups[i].models = 1..n
            BY <2>2, ListPlaces
        <3> HIDE DEF n
        <3>2. IsFiniteSet(1..n)
            BY <3>1, FS_Interval
        <3> QED
            BY <3>1, <3>2, Zenon
    <2>4. Listed(i) \subseteq DOMAIN ups[i].models
        BY DEF Stripped
    <2> HIDE DEF Listed
    <2> QED
        BY <2>3, <2>4, FS_Subset, FS_CardinalityType
<1>3. PICK i \in DOMAIN ups : Listed(i) # {}
    <2>1. PICK u \in ToSet(ups) : m \in ToSet(Stripped(u.models))
        BY DEF KnownModels
    <2>2. PICK i \in DOMAIN ups : u = ups[i]
        BY DEF ToSet
    <2>3. PICK j \in DOMAIN Stripped(ups[i].models) : m = Stripped(ups[i].models)[j]
        BY <2>1, <2>2 DEF ToSet
    <2> QED
        BY <2>3
<1>4. PoolOf(m) = FlattenSeq(parts)
    BY DEF PoolOf
<1>5. parts \in [1..Len(ups) -> Seq(names)]
    <2>1. ASSUME NEW h \in DOMAIN ups
          PROVE  parts[h] \in Seq(names)
        <3>1. Cardinality(Listed(h)) \in Nat /\ ups[h].name \in names
            BY <1>2
        <3>2. parts[h] = [n \in 1..Cardinality(Listed(h)) |-> ups[h].name]
            OBVIOUS
        <3> HIDE DEF Listed, parts, names
        <3>3. parts[h] \in [1..Cardinality(Listed(h)) -> names]
            BY <3>1, <3>2
        <3> QED
            BY <3>1, <3>3
    <2>2. DOMAIN parts = 1..Len(ups) /\ parts = [h \in DOMAIN ups |-> parts[h]]
        BY <1>1
    <2> HIDE DEF parts, names
    <2> QED
        BY <1>1, <2>1, <2>2
<1>6. Len(parts[i]) > 0
    <2>1. Cardinality(Listed(i)) \in Nat /\ Cardinality(Listed(i)) # 0
        <3> HIDE DEF Listed
        <3> QED
            BY <1>2, <1>3, FS_EmptySet
    <2>2. parts[i] = [n \in 1..Cardinality(Listed(i)) |-> ups[i].name]
        OBVIOUS
    <2> HIDE DEF Listed, parts
    <2>3. Len(parts[i]) = Cardinality(Listed(i))
        BY <2>1, <2>2
    <2> QED
        BY <2>1, <2>3
<1>7. Len(FlattenSeq(parts)) >= Len(parts[i])
    <2> HIDE DEF parts, names
    <2>1. i \in 1..Len(ups) /\ Len(ups) > 0
        BY <1>1
    <2> QED
        BY <1>1, <1>5, <2>1, FlattenKeeps
<1> HIDE DEF parts
<1>8. FlattenSeq(parts) # <<>>
    <2>1. Len(<<>>) = 0
        OBVIOUS
    <2>2. parts[i] \in Seq(names)
        BY <1>1, <1>5
    <2>3. Len(parts[i]) \in Nat
        BY <2>2
    <2> QED
        BY <1>6, <1>7, <2>1, <2>3
<1> QED
    BY <1>4, <1>8

-----------------------------------------------------------------------------
(* The inductive invariant: what is in force is what the file says, and the *)
(* request at hand was resolved and checked against it.                     *)

IntakeInv ==
    /\ Given
    /\ Serving => Loadable /\ app = Settings
    /\ source # None =>
         /\ Serving
         /\ source = Resolution(ExtractApiKey(headers.x_api_key, headers.authorization))
    /\ sent # None =>
         /\ Serving /\ payload \in Payloads
         /\ sent = [status |-> Refusal(payload),
                    payload |-> IF Refusal(payload) = 0 THEN Forwarded(payload) ELSE payload]

\* The invariant holds in every state of the intake.
THEOREM IntakeInvariance == Spec => []IntakeInv
<1>1. IntakeInit => IntakeInv
    BY DEF IntakeInit, Init, IntakeInv, Given, Serving
<1>2. IntakeInv /\ [Next]_vars => IntakeInv'
    <2> SUFFICES ASSUME IntakeInv, [Next]_vars PROVE IntakeInv'
        OBVIOUS
    <2>1. CASE Load /\ UNCHANGED intakeVars
        <3>1. ~Serving /\ file' = file /\ env' = env /\ source = None /\ sent = None
            BY <2>1 DEF Load, IntakeInv, Serving
        <3>2. Serving' => Loadable /\ app' = Settings
            BY <2>1, <3>1 DEF Load, Serving
        <3>3. Loadable' = Loadable /\ Settings' = Settings
            BY <3>1 DEF Loadable, Settings, ValidUpstream, ValidDepartment, ApiKeys, UniqueKeys,
                        KeysOfFile, KeyPlaces, KnownModels, KnownDepartments, LimitedModels,
                        NamedLimits, KnownLimits, PoolOf, DepartmentOf
        <3> QED
            BY <2>1, <3>1, <3>2, <3>3 DEF IntakeInv, Given, intakeVars
    <2>2. ASSUME NEW x \in ApiKeyHeaders, NEW a \in Authorizations, Arrive(x, a)
          PROVE  IntakeInv'
        <3>1. UNCHANGED configVars /\ Serving /\ sent' = None
            BY <2>2 DEF Arrive, Serving
        <3>2. headers'.x_api_key = x /\ headers'.authorization = a
            BY <2>2 DEF Arrive
        <3>3. source' = Resolution(ExtractApiKey(x, a)) /\ app' = app
            BY <2>2 DEF Arrive, configVars
        <3>4. Loadable' = Loadable /\ Settings' = Settings
            BY <3>1 DEF configVars, Loadable, Settings, ValidUpstream, ValidDepartment, ApiKeys,
                        UniqueKeys, KeysOfFile, KeyPlaces, KnownModels, KnownDepartments,
                        LimitedModels, NamedLimits, KnownLimits, PoolOf, DepartmentOf
        <3>5. Resolution(ExtractApiKey(headers.x_api_key, headers.authorization))'
                = Resolution(ExtractApiKey(x, a))
            BY <3>2, <3>3 DEF Resolution, ExtractApiKey, KeyIn, IsEmpty, IsBlank
        <3> QED
            BY <3>1, <3>3, <3>4, <3>5 DEF IntakeInv, Given, Serving, configVars
    <2>3. ASSUME NEW p \in Payloads, CheckShape(p)
          PROVE  IntakeInv'
        <3>1. /\ UNCHANGED configVars /\ headers' = headers /\ source' = source
              /\ source # None /\ payload' = p
              /\ sent' = [status |-> Refusal(p),
                          payload |-> IF Refusal(p) = 0 THEN Forwarded(p) ELSE p]
            BY <2>3 DEF CheckShape
        <3>2. Serving /\ app' = app
            BY <3>1 DEF IntakeInv, configVars
        <3>3. Loadable' = Loadable /\ Settings' = Settings
            BY <3>1 DEF configVars, Loadable, Settings, ValidUpstream, ValidDepartment, ApiKeys,
                        UniqueKeys, KeysOfFile, KeyPlaces, KnownModels, KnownDepartments,
                        LimitedModels, NamedLimits, KnownLimits, PoolOf, DepartmentOf
        <3>4. Refusal(payload)' = Refusal(p) /\ Forwarded(payload)' = Forwarded(p)
            BY <3>1, <3>2 DEF Refusal, Forwarded, HasShapeLimit
        <3>5. Resolution(ExtractApiKey(headers.x_api_key, headers.authorization))'
                = Resolution(ExtractApiKey(headers.x_api_key, headers.authorization))
            BY <3>1, <3>2 DEF Resolution, ExtractApiKey, KeyIn, IsEmpty, IsBlank
        <3> QED
            BY <3>1, <3>2, <3>3, <3>4, <3>5 DEF IntakeInv, Given, Serving, configVars
    <2>4. CASE UNCHANGED vars
        <3>1. UNCHANGED configVars /\ UNCHANGED intakeVars
            BY <2>4 DEF vars
        <3>2. Loadable' = Loadable /\ Settings' = Settings
            BY <3>1 DEF configVars, Loadable, Settings, ValidUpstream, ValidDepartment, ApiKeys,
                        UniqueKeys, KeysOfFile, KeyPlaces, KnownModels, KnownDepartments,
                        LimitedModels, NamedLimits, KnownLimits, PoolOf, DepartmentOf
        <3>3. /\ Refusal(payload)' = Refusal(payload) /\ Forwarded(payload)' = Forwarded(payload)
              /\ Resolution(ExtractApiKey(headers.x_api_key, headers.authorization))'
                   = Resolution(ExtractApiKey(headers.x_api_key, headers.authorization))
            BY <3>1 DEF configVars, intakeVars, Refusal, Forwarded, HasShapeLimit, Resolution,
                        ExtractApiKey, KeyIn, IsEmpty, IsBlank
        <3> QED
            BY <3>1, <3>2, <3>3 DEF IntakeInv, Given, Serving, configVars, intakeVars
    <2> QED
        BY <2>1, <2>2, <2>3, <2>4 DEF Next
<1> QED
    BY <1>1, <1>2, PTL DEF Spec

-----------------------------------------------------------------------------
(* What the invariant gives.                                                *)

\* The settings in force, table by table.
LEMMA InForce ==
    ASSUME IntakeInv, Serving
    PROVE  /\ Given /\ Loadable /\ file # None
           /\ app.pool = [m \in KnownModels |-> PoolOf(m)]
           /\ app.department = [key \in ToSet(KeysOfFile) |-> DepartmentOf(key)]
           /\ app.enabled = file.enabled
           /\ app.model_limit = ByModel(file.global_model_limits)
           /\ app.shape_limit = ByModel(file.request_shape_limits)
           /\ app.pair_limit = ByPair(file.department_model_limits)
           /\ app.budget = ByPair(file.token_budgets)
<1>1. Given /\ Loadable /\ app = Settings
    BY DEF IntakeInv
<1> QED
    BY <1>1 DEF Loadable, Settings

\* The two tables of pairs name departments and models of the file only.
LEMMA PairsAreKnown ==
    ASSUME Given, file # None, KnownLimits
    PROVE  ToSet(Pairs(file.department_model_limits)) \cup ToSet(Pairs(file.token_budgets))
             \subseteq KnownDepartments \X KnownModels
<1> DEFINE l == Pairs(file.department_model_limits)
           b == Pairs(file.token_budgets)
<1>1. IsList(file.department_model_limits) /\ IsList(file.token_budgets)
    BY FileLists
<1>2. ToSet(l \o b) \subseteq KnownDepartments \X KnownModels
    BY DEF KnownLimits
<1>3. ASSUME NEW s, IsList(s)
      PROVE  Pairs(s) \in Seq(ToSet(Pairs(s)))
    <2>1. Len(s) \in Nat /\ DOMAIN s = 1..Len(s)
        BY <1>3, ListPlaces
    <2>2. Pairs(s) \in [1..Len(s) -> ToSet(Pairs(s))]
        BY <2>1 DEF Pairs, ToSet
    <2> QED
        BY <2>1, <2>2
<1>4. l \in Seq(ToSet(l)) /\ b \in Seq(ToSet(b))
    BY <1>1, <1>3
<1> DEFINE A == ToSet(l)
           B == ToSet(b)
<1> HIDE DEF l, b
<1>5. l \in Seq(A \cup B) /\ b \in Seq(A \cup B)
    <2>1. A \subseteq A \cup B /\ B \subseteq A \cup B
        OBVIOUS
    <2>2. \A i \in 1..Len(l) : l[i] \in A
        BY <1>4
    <2>3. \A i \in 1..Len(b) : b[i] \in B
        BY <1>4
    <2>4. Len(l) \in Nat /\ Len(b) \in Nat /\ l = [i \in 1..Len(l) |-> l[i]]
          /\ b = [i \in 1..Len(b) |-> b[i]]
        BY <1>4
    <2> HIDE DEF A, B
    <2>5. l \in [1..Len(l) -> A \cup B] /\ b \in [1..Len(b) -> A \cup B]
        BY <2>2, <2>3, <2>4
    <2> QED
        BY <2>4, <2>5
<1>6. /\ l \o b \in Seq(A \cup B) /\ Len(l \o b) = Len(l) + Len(b)
      /\ \A i \in 1..(Len(l) + Len(b)) :
           (l \o b)[i] = IF i <= Len(l) THEN l[i] ELSE b[i - Len(l)]
      /\ Len(l) \in Nat /\ Len(b) \in Nat
      /\ DOMAIN l = 1..Len(l) /\ DOMAIN b = 1..Len(b)
      /\ DOMAIN (l \o b) = 1..(Len(l) + Len(b))
    <2> HIDE DEF A, B
    <2>1. Len(l) \in Nat /\ Len(b) \in Nat /\ DOMAIN l = 1..Len(l) /\ DOMAIN b = 1..Len(b)
        BY <1>5
    <2>2. l \o b \in Seq(A \cup B) /\ Len(l \o b) = Len(l) + Len(b)
        BY <1>5, ConcatProperties
    <2>3. \A i \in 1..(Len(l) + Len(b)) :
             (l \o b)[i] = IF i <= Len(l) THEN l[i] ELSE b[i - Len(l)]
        BY <1>5, ConcatProperties
    <2>4. DOMAIN (l \o b) = 1..(Len(l) + Len(b))
        BY <2>1, <2>2
    <2> QED
        BY <2>1, <2>2, <2>3, <2>4
<1>7. ASSUME NEW k \in A PROVE k \in ToSet(l \o b)
    <2>1. PICK i \in 1..Len(l) : k = l[i]
        BY <1>6 DEF ToSet
    <2>2. i \in DOMAIN (l \o b) /\ (l \o b)[i] = k
        BY <1>6, <2>1
    <2> QED
        BY <2>2 DEF ToSet
<1>8. ASSUME NEW k \in B PROVE k \in ToSet(l \o b)
    <2>1. PICK i \in 1..Len(b) : k = b[i]
        BY <1>6 DEF ToSet
    <2>2. Len(l) + i \in DOMAIN (l \o b) /\ ~ (Len(l) + i <= Len(l)) /\ Len(l) + i - Len(l) = i
        BY <1>6
    <2>3. (l \o b)[Len(l) + i] = k
        BY <1>6, <2>1, <2>2
    <2> QED
        BY <2>2, <2>3 DEF ToSet
<1> HIDE DEF A, B
<1>9. A \cup B \subseteq KnownDepartments \X KnownModels
    BY <1>2, <1>7, <1>8
<1> QED
    BY <1>9 DEF A, B, l, b

\* Every limit in force is for a served model and a department that some key
\* leads to, and no limit of the file is lost on the way into force.
THEOREM LimitsComeIntoForce == Spec => []LimitsInForce
<1>1. IntakeInv => LimitsInForce
    <2> SUFFICES ASSUME IntakeInv PROVE LimitsInForce
        OBVIOUS
    <2> SUFFICES ASSUME Serving
                 PROVE  LimitsInForce
        BY DEF LimitsInForce
    <2>1. \A m \in DOMAIN app.pool : app.pool[m] # <<>>
        BY InForce, PoolsAreFilled
    <2>2. ASSUME NEW i \in DOMAIN file.global_model_limits
          PROVE  \E j \in i..Len(file.global_model_limits) :
                   LET m == Strip(file.global_model_limits[i].model)
                       e == file.global_model_limits[j]
                   IN  Strip(e.model) = m /\ app.model_limit[m] = e.limit
        <3> DEFINE limits == file.global_model_limits
        <3>1. IsList(limits) /\ i \in DOMAIN limits /\ app.model_limit = ByModel(limits)
            BY InForce, FileLists
        <3> HIDE DEF limits
        <3>2. \E j \in i..Len(limits) :
                 /\ Strip(limits[j].model) = Strip(limits[i].model)
                 /\ ByModel(limits)[Strip(limits[i].model)] = limits[j].limit
            BY <3>1, LastEntryCounts
        <3>3. \E j \in i..Len(limits) :
                 /\ Strip(limits[j].model) = Strip(limits[i].model)
                 /\ app.model_limit[Strip(limits[i].model)] = limits[j].limit
            BY <3>1, <3>2
        <3> QED
            BY <3>3 DEF limits
    <2>3. ASSUME NEW i \in DOMAIN file.request_shape_limits
          PROVE  \E j \in i..Len(file.request_shape_limits) :
                   LET m == Strip(file.request_shape_limits[i].model)
                       e == file.request_shape_limits[j]
                   IN  Strip(e.model) = m /\ app.shape_limit[m] = e.limit
        <3> DEFINE limits == file.request_shape_limits
        <3>1. IsList(limits) /\ i \in DOMAIN limits /\ app.shape_limit = ByModel(limits)
            BY InForce, FileLists
        <3> HIDE DEF limits
        <3>2. \E j \in i..Len(limits) :
                 /\ Strip(limits[j].model) = Strip(limits[i].model)
                 /\ ByModel(limits)[Strip(limits[i].model)] = limits[j].limit
            BY <3>1, LastEntryCounts
        <3>3. \E j \in i..Len(limits) :
                 /\ Strip(limits[j].model) = Strip(limits[i].model)
                 /\ app.shape_limit[Strip(limits[i].model)] = limits[j].limit
            BY <3>1, <3>2
        <3> QED
            BY <3>3 DEF limits
    <2>4. ASSUME app.enabled
          PROVE  /\ DOMAIN app.model_limit \cup DOMAIN app.shape_limit \subseteq DOMAIN app.pool
                 /\ DOMAIN app.pair_limit \cup DOMAIN app.budget
                      \subseteq {app.department[k] : k \in DOMAIN app.department}
                                  \X DOMAIN app.pool
                 /\ \A e \in ToSet(file.department_model_limits) :
                      app.pair_limit[Pair(e)] = e.limit
                 /\ \A e \in ToSet(file.token_budgets) : app.budget[Pair(e)] = e.limit
        <3>1. KnownLimits
            BY <2>4, InForce DEF Loadable
        <3>2. DOMAIN app.pool = KnownModels /\ DOMAIN app.department = ToSet(KeysOfFile)
            BY InForce
        <3>3. DOMAIN app.model_limit \cup DOMAIN app.shape_limit \subseteq DOMAIN app.pool
            <4>1. /\ DOMAIN app.model_limit
                       = {Strip(e.model) : e \in ToSet(file.global_model_limits)}
                  /\ DOMAIN app.shape_limit
                       = {Strip(e.model) : e \in ToSet(file.request_shape_limits)}
                BY InForce DEF ByModel
            <4> QED
                BY <3>1, <3>2, <4>1 DEF KnownLimits, LimitedModels
        <3>4. KnownDepartments \subseteq {app.department[k] : k \in DOMAIN app.department}
            BY <3>2, InForce, DepartmentsHaveKeys
        <3>5. /\ DOMAIN app.pair_limit = ToSet(Pairs(file.department_model_limits))
              /\ DOMAIN app.budget = ToSet(Pairs(file.token_budgets))
            BY InForce DEF ByPair
        <3>6. DOMAIN app.pair_limit \cup DOMAIN app.budget
                \subseteq {app.department[k] : k \in DOMAIN app.department} \X DOMAIN app.pool
            <4>1. DOMAIN app.pair_limit \cup DOMAIN app.budget
                    \subseteq KnownDepartments \X DOMAIN app.pool
                BY <3>1, <3>2, <3>5, InForce, PairsAreKnown
            <4> QED
                BY <3>4, <4>1
        <3>7. /\ IsList(file.department_model_limits) /\ IsList(file.token_budgets)
              /\ Distinct(Pairs(file.department_model_limits))
              /\ Distinct(Pairs(file.token_budgets))
            BY <3>1, InForce, FileLists DEF KnownLimits
        <3>8. \A e \in ToSet(file.department_model_limits) : app.pair_limit[Pair(e)] = e.limit
            BY <3>7, InForce, OnlyEntryCounts
        <3>9. \A e \in ToSet(file.token_budgets) : app.budget[Pair(e)] = e.limit
            BY <3>7, InForce, OnlyEntryCounts
        <3> QED
            BY <3>3, <3>6, <3>8, <3>9
    <2> QED
        BY <2>1, <2>2, <2>3, <2>4 DEF LimitsInForce
<1> QED
    BY <1>1, IntakeInvariance, PTL

\* A request is charged to the department that declares its key, and to none if
\* none does.
THEOREM KeysLeadToOwners == Spec => []KeyLeadsToOwner
<1>1. IntakeInv => KeyLeadsToOwner
    <2> SUFFICES ASSUME IntakeInv, source # None PROVE KeyLeadsToOwner
        BY DEF KeyLeadsToOwner
    <2> DEFINE bearer == IF headers.authorization = None THEN Blank
                         ELSE IF headers.authorization.scheme # "bearer" THEN Blank
                         ELSE Strip(headers.authorization.value)
               key == IF headers.x_api_key = None THEN bearer
                      ELSE IF IsEmpty(headers.x_api_key) THEN bearer
                      ELSE Strip(headers.x_api_key)
               found == ExtractApiKey(headers.x_api_key, headers.authorization)
               holders == {d \in ToSet(file.departments) : key \in ToSet(ApiKeys(d))}
               owners == {Strip(d.name) : d \in holders}
    <2>1. Serving /\ source = Resolution(found)
        BY DEF IntakeInv
    <2>2. found = key \/ (found = None /\ key = Blank)
        BY DEF ExtractApiKey, KeyIn, IsBlank
    <2> HIDE DEF key, found, holders
    <2>3. /\ Given /\ Loadable /\ UniqueKeys
          /\ app.department = [k \in ToSet(KeysOfFile) |-> DepartmentOf(k)]
        BY <2>1, InForce DEF Loadable
    <2>4. None \notin ToSet(KeysOfFile) /\ Blank \notin ToSet(KeysOfFile)
        BY <2>3, KeysAreNames
    <2>5. found \in ToSet(KeysOfFile) <=> key \in ToSet(KeysOfFile)
        BY <2>2, <2>4
    <2>6. key \in ToSet(KeysOfFile) <=> holders # {}
        BY KeysAreDeclared DEF Declares, holders
    <2>7. CASE key \in ToSet(KeysOfFile)
        <3>1. PICK d \in holders : TRUE
            BY <2>6, <2>7
        <3>2. \A e \in holders : e = d
            BY <2>3, <3>1, OneOwner DEF holders, Declares
        <3>3. owners = {Strip(d.name)}
            BY <3>1, <3>2
        <3>4. found = key
            BY <2>2, <2>4, <2>7
        <3>5. source = [department |-> DepartmentOf(key), resolution_source |-> "api_key"]
            BY <2>1, <2>3, <2>7, <3>4 DEF Resolution
        <3>6. DepartmentOf(key) = Strip(d.name)
            BY <2>3, <3>1, OwnerOfKey DEF holders, Declares
        <3>7. owners = IF source.resolution_source = "api_key" THEN {source.department} ELSE {}
            BY <3>3, <3>5, <3>6
        <3> QED
            BY <3>7 DEF KeyLeadsToOwner, key, holders
    <2>8. CASE key \notin ToSet(KeysOfFile)
        <3>1. owners = {}
            BY <2>6, <2>8
        <3>2. source.resolution_source = "unknown"
            BY <2>1, <2>3, <2>5, <2>8 DEF Resolution
        <3>3. owners = IF source.resolution_source = "api_key" THEN {source.department} ELSE {}
            BY <3>1, <3>2
        <3> QED
            BY <3>3 DEF KeyLeadsToOwner, key, holders
    <2> QED
        BY <2>7, <2>8
<1> QED
    BY <1>1, IntakeInvariance, PTL

\* No limit or budget of a department applies to a request without a known key,
\* as long as no department is called "unknown".
THEOREM UnknownIsUnlimited == Spec => []UnknownHasNoDepartmentLimit
<1>1. IntakeInv => UnknownHasNoDepartmentLimit
    <2> SUFFICES ASSUME IntakeInv, Serving, app.enabled,
                        source # None, source.resolution_source = "unknown",
                        \A d \in ToSet(file.departments) : Strip(d.name) # UNKNOWN_DEPARTMENT,
                        NEW k \in DOMAIN app.pair_limit \cup DOMAIN app.budget
                 PROVE  k[1] # source.department
        BY DEF UnknownHasNoDepartmentLimit
    <2>1. source.department = UNKNOWN_DEPARTMENT
        <3>1. source = Resolution(ExtractApiKey(headers.x_api_key, headers.authorization))
            BY DEF IntakeInv
        <3> QED
            BY <3>1 DEF Resolution
    <2>2. k \in ToSet(Pairs(file.department_model_limits)) \cup ToSet(Pairs(file.token_budgets))
        BY InForce DEF ByPair
    <2>3. k \in KnownDepartments \X KnownModels
        BY <2>2, InForce, PairsAreKnown DEF Loadable
    <2>4. k[1] \in KnownDepartments
        BY <2>3
    <2>5. UNKNOWN_DEPARTMENT \notin KnownDepartments
        BY DEF KnownDepartments
    <2> QED
        BY <2>1, <2>4, <2>5
<1> QED
    BY <1>1, IntakeInvariance, PTL

\* The cap of a model is the last one the file gives it, hence a positive
\* number if it is set.
LEMMA CapsArePositive ==
    ASSUME IntakeInv, Serving, NEW m \in DOMAIN app.shape_limit
    PROVE  app.shape_limit[m].max_output_tokens \in {None} \cup (Nat \ {0})
<1> DEFINE entries == file.request_shape_limits
<1>1. /\ IsList(entries) /\ app.shape_limit = ByModel(entries)
      /\ \A e \in ToSet(entries) : e.limit.max_output_tokens \in {None} \cup (Nat \ {0})
    <2>1. file \in Files \ {None}
        BY InForce DEF Given
    <2> QED
        BY <2>1, InForce, FileLists, FileAssumption
<1> HIDE DEF entries
<1>2. PICK e \in ToSet(entries) : m = Strip(e.model)
    BY <1>1 DEF ByModel
<1>3. PICK i \in DOMAIN entries : e = entries[i]
    BY DEF ToSet
<1>4. Len(entries) \in Nat /\ DOMAIN entries = 1..Len(entries)
    BY <1>1, ListPlaces
<1>5. PICK j \in i..Len(entries) : ByModel(entries)[Strip(entries[i].model)] = entries[j].limit
    BY <1>1, LastEntryCounts
<1>6. j \in DOMAIN entries
    BY <1>4
<1>7. entries[j] \in ToSet(entries)
    BY <1>6 DEF ToSet
<1> QED
    BY <1>1, <1>2, <1>3, <1>5, <1>7

\* A model's output cap holds in the field its upstream reads, unless the
\* payload caps itself in the other field, and no cap of the client is changed.
THEOREM OutputCapsHold == Spec => []OutputCapHolds
<1>1. IntakeInv => OutputCapHolds
    <2> SUFFICES ASSUME IntakeInv, sent # None, HasShapeLimit(payload), sent.status = 0
                 PROVE  OutputCapHolds
        BY DEF OutputCapHolds
    <2> DEFINE cap == app.shape_limit[payload.model].max_output_tokens
               field == OutputKey(payload.endpoint)
               own == {"max_tokens", "max_output_tokens"} \ {field}
               caps == OutputCaps(payload)
    <2>1. Serving /\ payload \in Payloads /\ Refusal(payload) = 0
          /\ sent.payload = Forwarded(payload)
        BY DEF IntakeInv
    <2>2. cap \in {None} \cup (Nat \ {0})
        BY <2>1, CapsArePositive DEF HasShapeLimit
    <2>3. /\ None \notin Nat
          /\ {"max_tokens", "max_output_tokens"} \subseteq DOMAIN payload
          /\ payload["max_tokens"] \in Nat \cup {None}
          /\ payload["max_output_tokens"] \in Nat \cup {None}
        BY <2>1, PayloadAssumption
    <2>4. field \in {"max_tokens", "max_output_tokens"}
        BY DEF OutputKey
    <2>5. caps = {payload["max_tokens"], payload["max_output_tokens"]} \ {None}
        BY DEF OutputCaps
    <2>6. sent.payload = IF cap # None /\ caps = {} THEN [payload EXCEPT ![field] = cap]
                                                    ELSE payload
        BY <2>1 DEF Forwarded
    <2>7. cap # None /\ caps # {} => 0 \notin caps /\ ~ (Max(caps) > cap)
        BY <2>1 DEF Refusal
    <2> HIDE DEF cap, field, caps
    <2>8. ASSUME cap # None
          PROVE  \/ sent.payload[field] \in 1..cap
                 \/ payload[field] = None /\ \E f \in own : payload[f] # None
        <3>1. CASE caps = {}
            <4>1. sent.payload = [payload EXCEPT ![field] = cap]
                BY <2>6, <2>8, <3>1
            <4>2. sent.payload[field] = cap
                BY <2>3, <2>4, <4>1
            <4> QED
                BY <2>2, <2>8, <4>2
        <3>2. CASE caps # {} /\ payload[field] # None
            <4>1. sent.payload = payload
                BY <2>6, <3>2
            <4>2. payload[field] \in caps /\ payload[field] \in Nat /\ payload[field] # 0
                BY <2>3, <2>4, <2>5, <2>7, <2>8, <3>2
            <4>3. caps \subseteq Nat
                BY <2>3, <2>5
            <4>4. PICK n \in Nat : \A x \in caps : x <= n
                <5> DEFINE Of(x) == IF x = None THEN 0 ELSE x
                           n == Of(payload["max_tokens"]) + Of(payload["max_output_tokens"])
                <5>1. /\ Of(payload["max_tokens"]) \in Nat
                      /\ Of(payload["max_output_tokens"]) \in Nat
                    BY <2>3
                <5>2. \A x \in caps : Of(x) = x
                    BY <2>5
                <5>3. \A x \in caps : \/ x = Of(payload["max_tokens"])
                                      \/ x = Of(payload["max_output_tokens"])
                    BY <2>5
                <5> HIDE DEF Of
                <5>4. n \in Nat /\ \A x \in caps : x <= n
                    BY <5>1, <5>3
                <5> QED
                    BY <5>4
            <4>5. Max(caps) \in caps /\ payload[field] <= Max(caps)
                BY <4>2, <4>3, <4>4, MaxOf
            <4>6. cap \in Nat /\ Max(caps) \in Nat /\ ~ (Max(caps) > cap)
                BY <2>2, <2>7, <2>8, <3>2, <4>3, <4>5
            <4>7. payload[field] \in 1..cap
                BY <4>2, <4>5, <4>6
            <4> QED
                BY <4>1, <4>7
        <3>3. CASE caps # {} /\ payload[field] = None
            <4>1. \E f \in own : payload[f] # None
                BY <2>4, <2>5, <3>3
            <4> QED
                BY <3>3, <4>1
        <3> QED
            BY <3>1, <3>2, <3>3
    <2>9. \A f \in own \cup {field} : payload[f] # None => sent.payload[f] = payload[f]
        <3>1. CASE caps = {}
            <4>1. payload["max_tokens"] = None /\ payload["max_output_tokens"] = None
                BY <2>5, <3>1
            <4> QED
                BY <2>4, <4>1
        <3>2. CASE caps # {}
            BY <2>6, <3>2
        <3> QED
            BY <3>1, <3>2
    <2> QED
        BY <2>8, <2>9 DEF OutputCapHolds, cap, field
<1> QED
    BY <1>1, IntakeInvariance, PTL
=============================================================================
