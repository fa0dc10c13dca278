-------------------------- MODULE SseParserProofs --------------------------
(***************************************************************************)
(* Proofs about the usage parser for answers of any length, cut in any     *)
(* way: the buffer is bounded, the usage does not depend on the cuts, only *)
(* an event too long for the buffer overflows it, and Gateway allows for   *)
(* all that the parser may do.                                             *)
(***************************************************************************)
EXTENDS SseParser, SequenceTheorems, WellFoundedInduction, TLAPS

-----------------------------------------------------------------------------
(* Counting up, and functions that are defined by it.                       *)

\* What holds at 0 and is handed on from place to place holds at all of them.
LEMMA UpTo ==
    ASSUME NEW n \in Nat, NEW G, 0 \in G, \A i \in 1..n : i - 1 \in G => i \in G
    PROVE  \A i \in 0..n : i \in G
<1> DEFINE Bad == {i \in 0..n : i \notin G}
<1>1. SUFFICES ASSUME Bad # {} PROVE FALSE
    OBVIOUS
<1>0. Bad \subseteq Nat
    OBVIOUS
<1>2. PICK b \in Bad : \A p \in Bad : ~ (<<p, b>> \in OpToRel(<, Nat))
    <2> HIDE DEF Bad
    <2> QED
        BY <1>0, <1>1, WFMin, NatLessThanWellFounded
<1>3. \A p \in Bad : ~ (p < b)
    <2> HIDE DEF Bad
    <2> QED
        BY <1>0, <1>2 DEF OpToRel
<1>4. b \in 1..n /\ b - 1 \in 0..n /\ b - 1 < b
    OBVIOUS
<1>5. b - 1 \in G
    BY <1>3, <1>4
<1> QED
    BY <1>4, <1>5

\* f starts with base and goes on as g says.
Stepwise(f, n, T, base, g) ==
    /\ f \in [0..n -> T]
    /\ f[0] = base
    /\ \A i \in 1..n : f[i] = g[<<i, f[i - 1]>>]

\* A function that is defined from place to place exists.
LEMMA StepwiseExists ==
    ASSUME NEW n \in Nat, NEW T, NEW base \in T, NEW g \in [(1..n) \X T -> T]
    PROVE  \E f : Stepwise(f, n, T, base, g)
<1> DEFINE Is(f, k) == f[0] = base /\ \A i \in 1..k : f[i] = g[<<i, f[i - 1]>>]
           G == {k \in 0..n : \E f \in [0..k -> T] : Is(f, k)}
<1>1. 0 \in G
    <2> DEFINE f == [i \in 0..0 |-> base]
    <2>1. 0..0 = {0} /\ 1..0 = {}
        OBVIOUS
    <2>2. f \in [0..0 -> T] /\ f[0] = base
        BY <2>1
    <2> HIDE DEF f
    <2>3. Is(f, 0)
        BY <2>1, <2>2
    <2>4. 0 \in 0..n
        OBVIOUS
    <2> HIDE DEF Is
    <2> QED
        BY <2>2, <2>3, <2>4
<1>2. ASSUME NEW k \in 1..n, k - 1 \in G
      PROVE  k \in G
    <2>1. PICK f \in [0..(k - 1) -> T] : Is(f, k - 1)
        BY <1>2
    <2> DEFINE h == [i \in 0..k |-> IF i = k THEN g[<<k, f[k - 1]>>] ELSE f[i]]
    <2>2. f[k - 1] \in T /\ g[<<k, f[k - 1]>>] \in T
        BY <2>1
    <2>3. h \in [0..k -> T]
        BY <2>2
    <2>4. \A i \in 0..(k - 1) : h[i] = f[i]
        OBVIOUS
    <2>5. h[k] = g[<<k, f[k - 1]>>]
        OBVIOUS
    <2> HIDE DEF h
    <2>6. h[0] = base
        BY <2>1, <2>4
    <2>7. ASSUME NEW i \in 1..k
          PROVE  h[i] = g[<<i, h[i - 1]>>]
        <3>1. CASE i = k
            BY <2>4, <2>5, <3>1
        <3>2. CASE i # k
            BY <2>1, <2>4, <3>2
        <3> QED
            BY <3>1, <3>2
    <2> QED
        BY <2>3, <2>6, <2>7
<1>3. n \in G
    <2> HIDE DEF G
    <2> QED
        BY <1>1, <1>2, UpTo
<1> QED
    BY <1>3 DEF Stepwise

-----------------------------------------------------------------------------
(* Line ends.                                                               *)

\* A CR that belongs to the LF after it.
InPair(s, i) == s[i] = CR /\ i < Len(s) /\ s[i + 1] = LF

\* The function that Normalized computes.
IsKept(f, s) ==
    /\ f[0] = <<>>
    /\ \A i \in 1..Len(s) :
         f[i] = IF InPair(s, i) THEN f[i - 1] ELSE Append(f[i - 1], s[i])

\* What Normalized returns is built piece by piece.
LEMMA NormalizedIs ==
    ASSUME NEW P, NEW s \in Seq(P)
    PROVE  \E f \in [0..Len(s) -> Seq(P)] : IsKept(f, s) /\ Normalized(s) = f[Len(s)]
<1> DEFINE n == Len(s)
           Eq(f) == f = [i \in 0..n |-> IF i = 0 THEN <<>>
                                         ELSE IF InPair(s, i) THEN f[i - 1]
                                         ELSE Append(f[i - 1], s[i])]
           g == [p \in (1..n) \X Seq(P) |-> IF InPair(s, p[1]) THEN p[2]
                                             ELSE Append(p[2], s[p[1]])]
           kept == CHOOSE f : Eq(f)
<1>1. n \in Nat /\ \A i \in 1..n : s[i] \in P
    OBVIOUS
<1>2. g \in [(1..n) \X Seq(P) -> Seq(P)]
    <2>1. ASSUME NEW p \in (1..n) \X Seq(P)
          PROVE  (IF InPair(s, p[1]) THEN p[2] ELSE Append(p[2], s[p[1]])) \in Seq(P)
        BY <1>1
    <2> QED
        BY <2>1
<1>3. PICK f \in [0..n -> Seq(P)] :
         f[0] = <<>> /\ \A i \in 1..n : f[i] = g[<<i, f[i - 1]>>]
    <2>1. <<>> \in Seq(P)
        OBVIOUS
    <2> DEFINE e == <<>>
               T == Seq(P)
    <2> HIDE DEF g, n, e, T
    <2>2. n \in Nat /\ e \in T /\ g \in [(1..n) \X T -> T]
        BY <1>1, <1>2, <2>1 DEF e, T
    <2>3. \E f : Stepwise(f, n, T, e, g)
        BY <2>2, StepwiseExists
    <2> QED
        BY <2>3 DEF e, T, Stepwise
<1>4. Eq(f)
    <2>1. ASSUME NEW i \in 1..n
          PROVE  f[i] = IF InPair(s, i) THEN f[i - 1] ELSE Append(f[i - 1], s[i])
        <3>1. f[i] = g[<<i, f[i - 1]>>]
            BY <1>3
        <3>2. i - 1 \in 0..n
            BY <1>1
        <3>3. f[i - 1] \in Seq(P)
            BY <1>3, <3>2
        <3>4. <<i, f[i - 1]>> \in (1..n) \X Seq(P)
            BY <3>3
        <3> HIDE DEF n
        <3> QED
            BY <3>1, <3>4
    <2>2. DOMAIN f = 0..n /\ f = [i \in 0..n |-> f[i]]
        BY <1>3
    <2>3. \A i \in 0..n : i # 0 => i \in 1..n
        BY <1>1
    <2> HIDE DEF n
    <2>4. \A i \in 0..n : f[i] = IF i = 0 THEN <<>> ELSE IF InPair(s, i) THEN f[i - 1]
                                                    ELSE Append(f[i - 1], s[i])
        BY <1>3, <2>1, <2>3
    <2> QED
        BY <2>2, <2>4
<1>5. Eq(kept)
    <2> HIDE DEF Eq
    <2> QED
        BY <1>4
<1>6. Normalized(s) = kept[n]
    BY DEF Normalized, InPair
<1> HIDE DEF kept
<1>7. IsKept(kept, s)
    <2>1. 0 \in 0..n /\ \A i \in 1..n : i \in 0..n /\ i # 0
        BY <1>1
    <2>2. \A i \in 0..n : kept[i] = IF i = 0 THEN <<>> ELSE IF InPair(s, i) THEN kept[i - 1]
                                                       ELSE Append(kept[i - 1], s[i])
        BY <1>5
    <2> QED
        BY <2>1, <2>2 DEF IsKept
<1>8. \A i \in 0..n : kept[i] \in Seq(P)
    <2> DEFINE G == {i \in 0..n : kept[i] \in Seq(P)}
    <2>1. 0 \in G
        <3>1. kept[0] \in Seq(P) /\ 0 \in 0..n
            BY <1>1, <1>7 DEF IsKept
        <3> QED
            BY <3>1
    <2>2. ASSUME NEW i \in 1..n, i - 1 \in G
          PROVE  i \in G
        <3>1. kept[i - 1] \in Seq(P) /\ s[i] \in P
            BY <1>1, <2>2
        <3>2. kept[i] = IF InPair(s, i) THEN kept[i - 1] ELSE Append(kept[i - 1], s[i])
            BY <1>7 DEF IsKept
        <3>3. kept[i] \in Seq(P)
            BY <3>1, <3>2
        <3>4. i \in 0..n
            BY <1>1
        <3> QED
            BY <3>3, <3>4
    <2>3. \A i \in 0..n : i \in G
        <3> HIDE DEF G, n
        <3> QED
            BY <1>1, <2>1, <2>2, UpTo
    <2> QED
        BY <2>3
<1>9. kept \in [0..n -> Seq(P)]
    <2>1. kept = [i \in 0..n |-> kept[i]]
        BY <1>5
    <2> HIDE DEF n, Eq
    <2> QED
        BY <1>8, <2>1
<1> QED
    BY <1>6, <1>7, <1>9

\* And nothing else is.
LEMMA NormalizedAlong ==
    ASSUME NEW P, NEW s \in Seq(P), NEW f, IsKept(f, s)
    PROVE  Normalized(s) = f[Len(s)]
<1>1. PICK h \in [0..Len(s) -> Seq(P)] : IsKept(h, s) /\ Normalized(s) = h[Len(s)]
    BY NormalizedIs
<1> DEFINE n == Len(s)
           G == {i \in 0..n : f[i] = h[i]}
<1>2. n \in Nat
    OBVIOUS
<1>3. 0 \in G
    BY <1>1, <1>2 DEF IsKept
<1>4. ASSUME NEW i \in 1..n, i - 1 \in G
      PROVE  i \in G
    <2>1. f[i - 1] = h[i - 1] /\ i \in 0..n
        BY <1>2, <1>4
    <2> QED
        BY <1>1, <2>1 DEF IsKept
<1>5. \A i \in 0..n : i \in G
    <2> HIDE DEF G, n
    <2> QED
        BY <1>2, <1>3, <1>4, UpTo
<1> QED
    BY <1>1, <1>2, <1>5

-----------------------------------------------------------------------------
(* What remains of a text.                                                  *)

Increasing(f, n) == \A i, j \in 1..n : i < j => f[i] < f[j]

\* Some pieces of t remain in s, f telling where they were.  From the first of
\* them on, no LF is missing.
Remains(f, s, t) ==
    /\ f \in [1..Len(s) -> 1..Len(t)]
    /\ Increasing(f, Len(s))
    /\ \A i \in 1..Len(s) : s[i] = t[f[i]]
    /\ \A i \in 1..Len(s), j \in 1..Len(t) :
         f[i] <= j /\ t[j] = LF => \E k \in 1..Len(s) : f[k] = j

\* An increasing function on places grows by one at least from each to the next.
LEMMA IncreasingGrows ==
    ASSUME NEW n \in Nat, NEW f \in [1..n -> Nat], Increasing(f, n)
    PROVE  \A i \in 1..n : f[1] + i <= f[i] + 1
<1> DEFINE G == {i \in 0..n : i = 0 \/ f[1] + i <= f[i] + 1}
<1>1. 0 \in G
    OBVIOUS
<1>2. ASSUME NEW i \in 1..n, i - 1 \in G
      PROVE  i \in G
    <2>1. i \in 0..n /\ 1 \in 1..n /\ f[1] \in Nat /\ f[i] \in Nat
        OBVIOUS
    <2>2. CASE i = 1
        BY <2>1, <2>2
    <2>3. CASE i # 1
        <3>1. i - 1 \in 1..n /\ i - 1 < i /\ i - 1 # 0
            BY <2>3
        <3>2. f[i - 1] \in Nat /\ f[i - 1] < f[i]
            BY <3>1 DEF Increasing
        <3>3. f[1] + (i - 1) <= f[i - 1] + 1
            BY <1>2, <3>1
        <3> QED
            BY <2>1, <3>2, <3>3
    <2> QED
        BY <2>2, <2>3
<1>3. \A i \in 0..n : i \in G
    <2> HIDE DEF G
    <2> QED
        BY <1>1, <1>2, UpTo
<1>4. \A i \in 1..n : i \in 0..n /\ i # 0
    OBVIOUS
<1> QED
    BY <1>3, <1>4

\* No more remains than there was.
LEMMA RemainsShorter ==
    ASSUME NEW s \in Seq(Pieces), NEW t \in Seq(Pieces), NEW f, Remains(f, s, t)
    PROVE  Len(s) <= Len(t)
<1> DEFINE n == Len(s)
           m == Len(t)
<1>1. n \in Nat /\ m \in Nat
    OBVIOUS
<1>2. f \in [1..n -> 1..m] /\ Increasing(f, n)
    BY DEF Remains
<1> HIDE DEF n, m
<1>3. CASE n = 0
    BY <1>1, <1>3 DEF n, m
<1>4. CASE n # 0
    <2>1. 1 \in 1..n /\ n \in 1..n /\ f \in [1..n -> Nat]
        BY <1>1, <1>2, <1>4
    <2>2. f[1] + n <= f[n] + 1
        BY <1>1, <1>2, <2>1, IncreasingGrows
    <2>3. f[1] \in 1..m /\ f[n] \in 1..m
        BY <1>2, <2>1
    <2>4. n <= m
        BY <1>1, <2>2, <2>3
    <2> QED
        BY <2>4 DEF n, m
<1> QED
    BY <1>3, <1>4

\* What remains of what remains.
LEMMA RemainsTwice ==
    ASSUME NEW s \in Seq(Pieces), NEW t \in Seq(Pieces), NEW u \in Seq(Pieces),
           NEW f, NEW g, Remains(f, s, t), Remains(g, t, u)
    PROVE  Remains([i \in 1..Len(s) |-> g[f[i]]], s, u)
<1> DEFINE h == [i \in 1..Len(s) |-> g[f[i]]]
           n == Len(s)
           m == Len(t)
           l == Len(u)
<1>1. n \in Nat /\ m \in Nat /\ l \in Nat
    OBVIOUS
<1>2. /\ f \in [1..n -> 1..m] /\ Increasing(f, n)
      /\ g \in [1..m -> 1..l] /\ Increasing(g, m)
    BY DEF Remains
<1>3. \A i \in 1..n : h[i] = g[f[i]] /\ f[i] \in 1..m /\ g[f[i]] \in 1..l
    BY <1>2
<1>4. h \in [1..n -> 1..l]
    BY <1>3
<1> HIDE DEF h
<1>5. Increasing(h, n)
    <2>1. ASSUME NEW i \in 1..n, NEW j \in 1..n, i < j
          PROVE  h[i] < h[j]
        <3>1. f[i] < f[j] /\ f[i] \in 1..m /\ f[j] \in 1..m
            BY <1>2, <2>1 DEF Increasing
        <3>2. g[f[i]] < g[f[j]]
            BY <1>2, <3>1 DEF Increasing
        <3> QED
            BY <1>3, <3>2
    <2> QED
        BY <2>1 DEF Increasing
<1>6. \A i \in 1..n : s[i] = u[h[i]]
    <2>1. ASSUME NEW i \in 1..n
          PROVE  s[i] = u[h[i]]
        <3>1. s[i] = t[f[i]]
            BY DEF Remains
        <3>2. t[f[i]] = u[g[f[i]]]
            BY <1>3 DEF Remains
        <3> QED
            BY <1>3, <3>1, <3>2
    <2> QED
        BY <2>1
<1>7. ASSUME NEW i \in 1..n, NEW j \in 1..l, h[i] <= j, u[j] = LF
      PROVE  \E k \in 1..n : h[k] = j
    <2>1. g[f[i]] <= j /\ f[i] \in 1..m
        BY <1>3, <1>7
    <2>2. PICK k \in 1..m : g[k] = j
        BY <1>7, <2>1 DEF Remains
    <2>3. t[k] = LF
        BY <1>7, <2>2 DEF Remains
    <2>4. f[i] <= k
        <3>1. f[i] \in Nat /\ k \in Nat /\ g[f[i]] \in Nat /\ g[k] \in Nat
            BY <1>2, <2>1, <2>2
        <3>2. k < f[i] => g[k] < g[f[i]]
            BY <1>2, <2>1 DEF Increasing
        <3> QED
            BY <2>1, <2>2, <3>1, <3>2
    <2>5. PICK p \in 1..n : f[p] = k
        BY <2>3, <2>4 DEF Remains
    <2> QED
        BY <1>3, <2>2, <2>5
<1>8. Remains(h, s, u)
    BY <1>4, <1>5, <1>6, <1>7 DEF Remains
<1> QED
    BY <1>8 DEF h

\* The end of a text, from place k on, remains of it.
LEMMA RestRemains ==
    ASSUME NEW s \in Seq(Pieces), NEW k \in 1..(Len(s) + 1)
    PROVE  \E f : Remains(f, SubSeq(s, k, Len(s)), s)
<1> DEFINE r == SubSeq(s, k, Len(s))
           n == Len(s)
           m == Len(r)
           f == [i \in 1..m |-> k + i - 1]
<1>1. n \in Nat /\ r \in Seq(Pieces) /\ m = n - k + 1 /\ \A i \in 1..m : r[i] = s[k + i - 1]
    OBVIOUS
<1>2. m \in Nat /\ k \in Nat \ {0}
    BY <1>1
<1> HIDE DEF n, m
<1>3. \A i \in 1..m : f[i] = k + i - 1
    OBVIOUS
<1>4. f \in [1..m -> 1..n]
    BY <1>1, <1>2
<1> HIDE DEF f
<1>5. Increasing(f, m)
    BY <1>2, <1>3 DEF Increasing
<1>6. \A i \in 1..m : r[i] = s[f[i]]
    <2> HIDE DEF r
    <2> QED
        BY <1>1, <1>3
<1>7. ASSUME NEW i \in 1..m, NEW j \in 1..n, f[i] <= j
      PROVE  \E p \in 1..m : f[p] = j
    <2>1. k + i - 1 <= j
        BY <1>3, <1>7
    <2>2. j - k + 1 \in 1..m /\ k + (j - k + 1) - 1 = j
        BY <1>1, <1>2, <2>1
    <2> QED
        BY <1>3, <2>2
<1>8. Remains(f, r, s)
    <2> HIDE DEF r
    <2> QED
        BY <1>4, <1>5, <1>6, <1>7 DEF Remains, m, n
<1> QED
    BY <1>8

\* All of a text remains of it.
LEMMA AllRemains ==
    ASSUME NEW s \in Seq(Pieces)
    PROVE  \E f : Remains(f, s, s)
<1>1. 1 \in 1..(Len(s) + 1) /\ SubSeq(s, 1, Len(s)) = s
    OBVIOUS
<1>2. \E f : Remains(f, SubSeq(s, 1, Len(s)), s)
    BY <1>1, RestRemains
<1> QED
    BY <1>1, <1>2

\* Normalizing leaves everything but the CR of each CR LF.
LEMMA NormalizedRemains ==
    ASSUME NEW s \in Seq(Pieces)
    PROVE  /\ Normalized(s) \in Seq(Pieces)
           /\ \E f : /\ Remains(f, Normalized(s), s)
                     /\ \A j \in 1..Len(s) :
                          ~InPair(s, j) <=> \E i \in 1..Len(Normalized(s)) : f[i] = j
<1> DEFINE n == Len(s)
<1>1. PICK kept \in [0..n -> Seq(Pieces)] : IsKept(kept, s) /\ Normalized(s) = kept[n]
    BY NormalizedIs
<1>2. n \in Nat /\ CR # LF
    BY DEF CR, LF
<1> DEFINE Is(f, k, i) ==
               /\ f \in [1..k -> 1..i]
               /\ Increasing(f, k)
               /\ \A j \in 1..i : ~InPair(s, j) <=> \E p \in 1..k : f[p] = j
           Says(f, t) == \A p \in 1..Len(t) : t[p] = s[f[p]]
           G == {i \in 0..n : \E f : Is(f, Len(kept[i]), i) /\ Says(f, kept[i])}
<1>3. 0 \in G
    <2> DEFINE f == [p \in 1..0 |-> 1]
    <2>1. kept[0] = <<>> /\ Len(kept[0]) = 0 /\ 0 \in 0..n
        BY <1>1, <1>2 DEF IsKept
    <2>2. Is(f, 0, 0) /\ Says(f, kept[0])
        BY <2>1 DEF Increasing
    <2> HIDE DEF Is, Says, f
    <2> QED
        BY <2>1, <2>2
<1>4. ASSUME NEW i \in 1..n, i - 1 \in G
      PROVE  i \in G
    <2> DEFINE t == kept[i - 1]
               k == Len(t)
    <2>1. i \in 0..n /\ i - 1 \in 0..n /\ i \in Nat
        <3> HIDE DEF n
        <3> QED
            BY <1>2
    <2>2. t \in Seq(Pieces) /\ k \in Nat /\ s[i] \in Pieces
        <3>1. t \in Seq(Pieces)
            <4> HIDE DEF n
            <4> QED
                BY <1>1, <2>1
        <3> HIDE DEF t
        <3> QED
            BY <3>1
    <2>3. PICK f : Is(f, k, i - 1) /\ Says(f, t)
        <3> HIDE DEF n, Is, Says
        <3> QED
            BY <1>4
    <2>4. \A j \in 1..i : j = i \/ j \in 1..(i - 1)
        BY <2>1
    <2>5. CASE InPair(s, i)
        <3>1. kept[i] = t
            BY <1>1, <2>5 DEF IsKept
        <3>2. \A p \in 1..k : f[p] \in 1..(i - 1) /\ f[p] \in 1..i /\ f[p] # i
            <4> HIDE DEF t, k
            <4> QED
                BY <2>1, <2>3
        <3>3. f \in [1..k -> 1..i]
            <4> HIDE DEF t, k
            <4> QED
                BY <2>3, <3>2
        <3>4. \A j \in 1..i : ~InPair(s, j) <=> \E p \in 1..k : f[p] = j
            <4> HIDE DEF t, k
            <4> QED
                BY <2>3, <2>4, <2>5, <3>2
        <3>5. Is(f, k, i)
            <4> HIDE DEF t, k
            <4> QED
                BY <2>3, <3>3, <3>4
        <3> HIDE DEF Is, Says, n
        <3> QED
            BY <2>1, <2>3, <3>1, <3>5
    <2>6. CASE ~InPair(s, i)
        <3> DEFINE h == [p \in 1..(k + 1) |-> IF p = k + 1 THEN i ELSE f[p]]
        <3>1. kept[i] = Append(t, s[i])
            BY <1>1, <2>6 DEF IsKept
        <3> HIDE DEF t
        <3>2. /\ Len(Append(t, s[i])) = k + 1
              /\ Append(t, s[i])[k + 1] = s[i]
              /\ \A p \in 1..k : Append(t, s[i])[p] = t[p]
            BY <2>2
        <3> HIDE DEF k
        <3>3. /\ \A p \in 1..(k + 1) : p = k + 1 \/ p \in 1..k
              /\ k + 1 \in 1..(k + 1)
              /\ \A p \in 1..k : p \in 1..(k + 1) /\ p # k + 1 /\ p < k + 1
              /\ i \in 1..i /\ \A j \in 1..(i - 1) : j \in 1..i /\ j < i /\ j # i
            BY <2>1, <2>2
        <3>4. /\ h[k + 1] = i
              /\ \A p \in 1..k : h[p] = f[p]
            BY <3>3
        <3>5. \A p \in 1..k : f[p] \in 1..(i - 1)
            BY <2>3
        <3>6. h \in [1..(k + 1) -> 1..i]
            BY <3>3, <3>5
        <3> HIDE DEF h
        <3>7. Increasing(h, k + 1)
            <4>1. ASSUME NEW p \in 1..(k + 1), NEW q \in 1..(k + 1), p < q
                  PROVE  h[p] < h[q]
                <5>1. p \in 1..k
                    BY <2>2, <4>1
                <5>2. CASE q = k + 1
                    BY <3>3, <3>4, <3>5, <5>1, <5>2
                <5>3. CASE q \in 1..k
                    BY <2>3, <3>4, <4>1, <5>1, <5>3 DEF Increasing
                <5> QED
                    BY <3>3, <5>2, <5>3
            <4> QED
                BY <4>1 DEF Increasing
        <3>8. \A j \in 1..i : ~InPair(s, j) <=> \E p \in 1..(k + 1) : h[p] = j
            <4>1. ASSUME NEW j \in 1..(i - 1)
                  PROVE  ~InPair(s, j) <=> \E p \in 1..(k + 1) : h[p] = j
                <5>1. ~InPair(s, j) <=> \E p \in 1..k : f[p] = j
                    BY <2>3
                <5>2. (\E p \in 1..k : f[p] = j) <=> \E p \in 1..(k + 1) : h[p] = j
                    BY <3>3, <3>4
                <5> QED
                    BY <5>1, <5>2
            <4>2. \E p \in 1..(k + 1) : h[p] = i
                BY <3>3, <3>4
            <4> QED
                BY <2>4, <2>6, <4>1, <4>2
        <3>9. Is(h, k + 1, i)
            BY <3>6, <3>7, <3>8
        <3>10. Says(h, Append(t, s[i]))
            <4>1. ASSUME NEW p \in 1..(k + 1)
                  PROVE  Append(t, s[i])[p] = s[h[p]]
                <5>1. CASE p = k + 1
                    BY <3>2, <3>4, <5>1
                <5>2. CASE p \in 1..k
                    BY <2>3, <3>2, <3>4, <5>2 DEF k
                <5> QED
                    BY <3>3, <5>1, <5>2
            <4> QED
                BY <3>2, <4>1
        <3> HIDE DEF Is, Says, n
        <3>11. Is(h, Len(kept[i]), i) /\ Says(h, kept[i])
            BY <3>1, <3>2, <3>9, <3>10
        <3> QED
            BY <2>1, <3>11
    <2> QED
        BY <2>5, <2>6
<1>5. n \in G
    <2>1. \A i \in 0..n : i \in G
        <3> HIDE DEF G, n
        <3> QED
            BY <1>2, <1>3, <1>4, UpTo
    <2>2. n \in 0..n
        <3> HIDE DEF n
        <3> QED
            BY <1>2
    <2> HIDE DEF G, n
    <2> QED
        BY <2>1, <2>2
<1> DEFINE t == Normalized(s)
<1>6. PICK f : Is(f, Len(t), n) /\ Says(f, t)
    <2> HIDE DEF Is, Says, n
    <2> QED
        BY <1>1, <1>5
<1>7. t \in Seq(Pieces)
    <2> HIDE DEF n, t
    <2>1. n \in 0..n
        BY <1>2
    <2> QED
        BY <1>1, <2>1 DEF t
<1>8. Remains(f, t, s)
    <2>1. ASSUME NEW j \in 1..n, s[j] = LF
          PROVE  \E k \in 1..Len(t) : f[k] = j
        <3>1. ~InPair(s, j)
            BY <1>2, <2>1 DEF InPair
        <3> HIDE DEF t
        <3> QED
            BY <1>6, <3>1
    <2> HIDE DEF t
    <2> QED
        BY <1>6, <2>1 DEF Remains
<1> QED
    BY <1>6, <1>7, <1>8
\* A text with a fragment, of what remains of the text with the fragment.
LEMMA FragmentRemains ==
    ASSUME NEW b \in Seq(Pieces), NEW t \in Seq(Pieces), NEW g \in Seq(Pieces), NEW f,
           Remains(f, b, t), \A i \in 1..Len(b) : ~InPair(t, f[i])
    PROVE  \E h : /\ Remains(h, b \o g, t \o g)
                  /\ \A i \in 1..Len(b \o g) : InPair(t \o g, h[i]) => InPair(b \o g, i)
<1> DEFINE x == b \o g
           y == t \o g
           n == Len(b)
           m == Len(t)
           l == Len(g)
           h == [i \in 1..(n + l) |-> IF i <= n THEN f[i] ELSE m + (i - n)]
<1>1. /\ n \in Nat /\ m \in Nat /\ l \in Nat
      /\ x \in Seq(Pieces) /\ y \in Seq(Pieces) /\ Len(x) = n + l /\ Len(y) = m + l
    OBVIOUS
<1>2. /\ \A i \in 1..n : x[i] = b[i]
      /\ \A i \in 1..m : y[i] = t[i]
      /\ \A i \in 1..l : x[n + i] = g[i] /\ y[m + i] = g[i]
    OBVIOUS
<1>3. f \in [1..n -> 1..m] /\ Increasing(f, n) /\ \A i \in 1..n : b[i] = t[f[i]]
    BY DEF Remains
<1>4. /\ \A i \in 1..n, j \in 1..m : f[i] <= j /\ t[j] = LF => \E k \in 1..n : f[k] = j
      /\ \A i \in 1..n : ~InPair(t, f[i])
    BY DEF Remains
<1> HIDE DEF n, m, l, x, y
<1>5. /\ \A i \in 1..n : i \in 1..(n + l)
      /\ \A i \in 1..l : n + i \in 1..(n + l) /\ ~ (n + i <= n) /\ n + i - n = i
      /\ \A i \in 1..m : i \in 1..(m + l)
      /\ \A i \in 1..l : m + i \in 1..(m + l)
    BY <1>1
<1>6. ASSUME NEW i \in 1..(n + l)
      PROVE  i \in 1..n \/ \E k \in 1..l : i = n + k
    <2>1. CASE i <= n
        BY <1>1, <2>1
    <2>2. CASE ~ (i <= n)
        <3>1. i - n \in 1..l /\ i = n + (i - n)
            BY <1>1, <2>2
        <3> QED
            BY <3>1
    <2> QED
        BY <2>1, <2>2
<1>7. ASSUME NEW i \in 1..(m + l)
      PROVE  i \in 1..m \/ \E k \in 1..l : i = m + k
    <2>1. CASE i <= m
        BY <1>1, <2>1
    <2>2. CASE ~ (i <= m)
        <3>1. i - m \in 1..l /\ i = m + (i - m)
            BY <1>1, <2>2
        <3> QED
            BY <3>1
    <2> QED
        BY <2>1, <2>2
<1>8. \A i \in 1..n : h[i] = f[i] /\ f[i] \in 1..m
    BY <1>3, <1>5
<1>9. \A i \in 1..l : h[n + i] = m + i
    BY <1>1, <1>5
<1>10. h \in [1..(n + l) -> 1..(m + l)]
    <2>1. ASSUME NEW i \in 1..(n + l)
          PROVE  h[i] \in 1..(m + l)
        <3> HIDE DEF h
        <3>1. CASE i \in 1..n
            BY <1>5, <1>8, <3>1
        <3>2. CASE \E k \in 1..l : i = n + k
            BY <1>5, <1>9, <3>2
        <3> QED
            BY <1>6, <3>1, <3>2
    <2> QED
        BY <2>1
<1> HIDE DEF h
<1>11. Increasing(h, n + l)
    <2>1. ASSUME NEW i \in 1..(n + l), NEW j \in 1..(n + l), i < j
          PROVE  h[i] < h[j]
        <3>1. CASE j \in 1..n
            <4>1. i \in 1..n
                BY <1>1, <2>1, <3>1
            <4> QED
                BY <1>3, <1>8, <2>1, <3>1, <4>1 DEF Increasing
        <3>2. CASE i \in 1..n /\ \E k \in 1..l : j = n + k
            <4>1. PICK k \in 1..l : j = n + k
                BY <3>2
            <4>2. h[i] \in 1..m /\ h[j] = m + k
                BY <1>8, <1>9, <3>2, <4>1
            <4> QED
                BY <1>1, <4>2
        <3>3. CASE (\E k \in 1..l : i = n + k) /\ \E k \in 1..l : j = n + k
            <4>1. PICK k \in 1..l : i = n + k
                BY <3>3
            <4>2. PICK p \in 1..l : j = n + p
                BY <3>3
            <4>3. k < p
                BY <1>1, <2>1, <4>1, <4>2
            <4>4. h[i] = m + k /\ h[j] = m + p
                BY <1>9, <4>1, <4>2
            <4> QED
                BY <1>1, <4>3, <4>4
        <3> QED
            BY <1>6, <3>1, <3>2, <3>3
    <2> QED
        BY <2>1 DEF Increasing
<1>12. ASSUME NEW i \in 1..(n + l)
       PROVE  x[i] = y[h[i]]
    <2>1. CASE i \in 1..n
        BY <1>2, <1>3, <1>8, <2>1
    <2>2. CASE \E k \in 1..l : i = n + k
        BY <1>2, <1>9, <2>2
    <2> QED
        BY <1>6, <2>1, <2>2
<1>13. ASSUME NEW i \in 1..(n + l), NEW j \in 1..(m + l), h[i] <= j, y[j] = LF
       PROVE  \E k \in 1..(n + l) : h[k] = j
    <2>1. CASE j \in 1..m
        <3>1. i \in 1..n
            <4>1. ASSUME NEW k \in 1..l, i = n + k
                  PROVE  FALSE
                <5>1. h[i] = m + k
                    BY <1>9, <4>1
                <5> QED
                    BY <1>1, <1>13, <2>1, <5>1
            <4> QED
                BY <1>6, <4>1
        <3>2. t[j] = LF /\ f[i] <= j
            BY <1>2, <1>8, <1>13, <2>1, <3>1
        <3>3. PICK k \in 1..n : f[k] = j
            BY <1>4, <2>1, <3>1, <3>2
        <3> QED
            BY <1>5, <1>8, <3>3
    <2>2. CASE \E k \in 1..l : j = m + k
        BY <1>5, <1>9, <2>2
    <2> QED
        BY <1>7, <2>1, <2>2
<1>14. ASSUME NEW i \in 1..(n + l), InPair(y, h[i])
       PROVE  InPair(x, i)
    <2>1. /\ y[h[i]] = CR /\ h[i] < m + l /\ y[h[i] + 1] = LF
          /\ x[i] = CR
        BY <1>1, <1>12, <1>14 DEF InPair
    <2>2. CASE i \in 1..n
        <3>1. h[i] = f[i] /\ f[i] \in 1..m /\ ~InPair(t, f[i])
            BY <1>4, <1>8, <2>2
        <3>2. ~ (f[i] < m)
            <4>1. SUFFICES ASSUME f[i] < m PROVE FALSE
                OBVIOUS
            <4>2. f[i] + 1 \in 1..m
                BY <1>1, <3>1, <4>1
            <4>3. t[f[i]] = CR /\ t[f[i] + 1] = LF
                BY <1>2, <2>1, <3>1, <4>2
            <4> QED
                BY <3>1, <4>1, <4>3 DEF InPair, m
        <3>3. f[i] = m /\ 0 < l /\ 1 \in 1..l
            BY <1>1, <2>1, <3>1, <3>2
        <3>4. i = n
            <4>1. SUFFICES ASSUME i # n PROVE FALSE
                OBVIOUS
            <4>2. n \in 1..n /\ i < n
                BY <1>1, <2>2, <4>1
            <4>3. f[i] < f[n] /\ f[n] \in 1..m
                BY <1>3, <2>2, <4>2 DEF Increasing
            <4> QED
                BY <1>1, <3>3, <4>3
        <3>5. x[n + 1] = g[1] /\ y[m + 1] = g[1]
            BY <1>2, <3>3
        <3>6. i < n + l
            BY <1>1, <3>3, <3>4
        <3> QED
            BY <1>1, <2>1, <3>1, <3>3, <3>4, <3>5, <3>6 DEF InPair
    <2>3. CASE \E k \in 1..l : i = n + k
        <3>1. PICK k \in 1..l : i = n + k
            BY <2>3
        <3>2. h[i] = m + k
            BY <1>9, <3>1
        <3>3. k + 1 \in 1..l /\ i < n + l /\ m + k + 1 = m + (k + 1) /\ i + 1 = n + (k + 1)
            <4>1. m + k < m + l
                BY <2>1, <3>2
            <4> QED
                BY <1>1, <3>1, <4>1
        <3>4. x[n + (k + 1)] = g[k + 1] /\ y[m + (k + 1)] = g[k + 1]
            BY <1>2, <3>3
        <3> QED
            BY <1>1, <2>1, <3>2, <3>3, <3>4 DEF InPair
    <2> QED
        BY <1>6, <2>2, <2>3
<1>15. Remains(h, x, y)
    BY <1>1, <1>10, <1>11, <1>12, <1>13 DEF Remains
<1>16. \A i \in 1..Len(x) : InPair(y, h[i]) => InPair(x, i)
    BY <1>1, <1>14
<1> QED
    BY <1>15, <1>16 DEF x, y

-----------------------------------------------------------------------------
(* Reading.                                                                 *)

Readers == [line : {"start", "cr", "data", "other"}, data : Seq(Pieces),
            usage : Usages \cup {None}, raised : BOOLEAN]

\* A blank line leaves a reader at the start of a line without data.
LEMMA BlankLineType ==
    ASSUME NEW q \in Readers
    PROVE  BlankLine(q) \in Readers
<1>1. ASSUME NEW u \in Usages, q.data = <<u>>
      PROVE  q.data[1] \in Usages
    BY <1>1
<1>2. (IF \E u \in Usages : q.data = <<u>> THEN q.data[1] ELSE q.usage) \in Usages \cup {None}
    BY <1>1 DEF Readers
<1>3. <<>> \in Seq(Pieces)
    OBVIOUS
<1> QED
    BY <1>2, <1>3 DEF BlankLine, Readers

\* What one piece does to a reader, case by case.
LEMMA ReadPieceIs ==
    ASSUME NEW q \in Readers, NEW p \in Pieces
    PROVE  /\ p = LF /\ q.line \in {"start", "cr"} => ReadPiece(q, p) = BlankLine(q)
           /\ p = LF /\ q.line \in {"data", "other"}
                => ReadPiece(q, p) = [q EXCEPT !.line = "start"]
           /\ p # LF /\ q.line = "start"
                => ReadPiece(q, p) = [q EXCEPT !.line = IF p = "data:" THEN "data"
                                                        ELSE IF p = CR THEN "cr" ELSE "other"]
           /\ p # LF /\ q.line = "data"
                => ReadPiece(q, p) = [q EXCEPT !.data = IF p = CR THEN @ ELSE Append(@, p)]
           /\ p # LF /\ q.line \in {"cr", "other"}
                => ReadPiece(q, p) = [q EXCEPT !.line = "other"]
BY DEF ReadPiece

\* A reader stays one.
LEMMA ReadPieceType ==
    ASSUME NEW q \in Readers, NEW p \in Pieces
    PROVE  ReadPiece(q, p) \in Readers
<1>1. q.line \in {"start", "cr", "data", "other"}
    BY DEF Readers
<1>2. CASE p = LF /\ q.line \in {"start", "cr"}
    BY <1>2, ReadPieceIs, BlankLineType
<1>3. CASE p = LF /\ q.line \in {"data", "other"}
    BY <1>3, ReadPieceIs DEF Readers
<1>4. CASE p # LF /\ q.line = "start"
    BY <1>4, ReadPieceIs DEF Readers
<1>5. CASE p # LF /\ q.line = "data"
    <2>1. ReadPiece(q, p) = [q EXCEPT !.data = IF p = CR THEN @ ELSE Append(@, p)]
        BY <1>5, ReadPieceIs
    <2>2. (IF p = CR THEN q.data ELSE Append(q.data, p)) \in Seq(Pieces)
        BY DEF Readers
    <2> QED
        BY <2>1, <2>2 DEF Readers
<1>6. CASE p # LF /\ q.line \in {"cr", "other"}
    BY <1>6, ReadPieceIs DEF Readers
<1> QED
    BY <1>1, <1>2, <1>3, <1>4, <1>5, <1>6

\* f is the course of a reader through a text.
IsCourse(f, q, text) ==
    f[0] = q /\ \A i \in 1..Len(text) : f[i] = ReadPiece(f[i - 1], text[i])

\* Every reader has a course through a text, and Read is its end.
LEMMA ReadIs ==
    ASSUME NEW q \in Readers, NEW text \in Seq(Pieces)
    PROVE  \E f \in [0..Len(text) -> Readers] :
             IsCourse(f, q, text) /\ Read(q, text) = f[Len(text)]
<1> DEFINE n == Len(text)
           Eq(f) == f = [i \in 0..n |-> IF i = 0 THEN q ELSE ReadPiece(f[i - 1], text[i])]
           g == [p \in (1..n) \X Readers |-> ReadPiece(p[2], text[p[1]])]
           read == CHOOSE f : Eq(f)
<1>1. n \in Nat /\ \A i \in 1..n : text[i] \in Pieces
    OBVIOUS
<1>2. g \in [(1..n) \X Readers -> Readers]
    <2>1. ASSUME NEW p \in (1..n) \X Readers
          PROVE  ReadPiece(p[2], text[p[1]]) \in Readers
        BY <1>1, ReadPieceType
    <2> HIDE DEF n
    <2> QED
        BY <2>1
<1>3. PICK f : Stepwise(f, n, Readers, q, g)
    <2> HIDE DEF g, n
    <2> QED
        BY <1>1, <1>2, StepwiseExists
<1>4. Eq(f)
    <2>1. ASSUME NEW i \in 1..n
          PROVE  f[i] = ReadPiece(f[i - 1], text[i])
        <3>1. f[i] = g[<<i, f[i - 1]>>]
            BY <1>3 DEF Stepwise
        <3>2. i - 1 \in 0..n
            BY <1>1
        <3>3. f[i - 1] \in Readers
            BY <1>3, <3>2 DEF Stepwise
        <3>4. <<i, f[i - 1]>> \in (1..n) \X Readers
            BY <3>3
        <3> HIDE DEF n
        <3> QED
            BY <3>1, <3>4
    <2>2. DOMAIN f = 0..n /\ f = [i \in 0..n |-> f[i]] /\ f[0] = q
        BY <1>3 DEF Stepwise
    <2>3. \A i \in 0..n : i # 0 => i \in 1..n
        BY <1>1
    <2> HIDE DEF n
    <2>4. \A i \in 0..n : f[i] = IF i = 0 THEN q ELSE ReadPiece(f[i - 1], text[i])
        BY <2>1, <2>2, <2>3
    <2> QED
        BY <2>2, <2>4
<1>5. Eq(read)
    <2> HIDE DEF Eq
    <2> QED
        BY <1>4
<1>6. Read(q, text) = read[n]
    BY DEF Read
<1> HIDE DEF read
<1>7. IsCourse(read, q, text)
    <2>1. 0 \in 0..n /\ \A i \in 1..n : i \in 0..n /\ i # 0
        BY <1>1
    <2>2. \A i \in 0..n : read[i] = IF i = 0 THEN q ELSE ReadPiece(read[i - 1], text[i])
        BY <1>5
    <2> QED
        BY <2>1, <2>2 DEF IsCourse
<1>8. \A i \in 0..n : read[i] \in Readers
    <2> DEFINE G == {i \in 0..n : read[i] \in Readers}
    <2>1. 0 \in G
        BY <1>1, <1>7 DEF IsCourse
    <2>2. ASSUME NEW i \in 1..n, i - 1 \in G
          PROVE  i \in G
        <3>1. read[i - 1] \in Readers /\ text[i] \in Pieces /\ i \in 0..n
            BY <1>1, <2>2
        <3>2. read[i] = ReadPiece(read[i - 1], text[i])
            BY <1>7 DEF IsCourse
        <3> QED
            BY <3>1, <3>2, ReadPieceType
    <2>3. \A i \in 0..n : i \in G
        <3> HIDE DEF G, n
        <3> QED
            BY <1>1, <2>1, <2>2, UpTo
    <2> QED
        BY <2>3
<1>9. read \in [0..n -> Readers]
    <2>1. read = [i \in 0..n |-> read[i]]
        BY <1>5
    <2> HIDE DEF n, Eq
    <2> QED
        BY <1>8, <2>1
<1> QED
    BY <1>6, <1>7, <1>9

\* There is no other course.
LEMMA ReadAlong ==
    ASSUME NEW q \in Readers, NEW text \in Seq(Pieces), NEW f, IsCourse(f, q, text)
    PROVE  Read(q, text) = f[Len(text)] /\ Read(q, text) \in Readers
<1>1. PICK h \in [0..Len(text) -> Readers] :
         IsCourse(h, q, text) /\ Read(q, text) = h[Len(text)]
    BY ReadIs
<1> DEFINE n == Len(text)
           G == {i \in 0..n : f[i] = h[i]}
<1>2. n \in Nat
    OBVIOUS
<1>3. 0 \in G
    BY <1>1, <1>2 DEF IsCourse
<1>4. ASSUME NEW i \in 1..n, i - 1 \in G
      PROVE  i \in G
    <2>1. f[i - 1] = h[i - 1] /\ i \in 0..n
        BY <1>2, <1>4
    <2> QED
        BY <1>1, <2>1 DEF IsCourse
<1>5. \A i \in 0..n : i \in G
    <2> HIDE DEF G, n
    <2> QED
        BY <1>2, <1>3, <1>4, UpTo
<1> QED
    BY <1>1, <1>2, <1>5

\* Reading on.
LEMMA ReadConcat ==
    ASSUME NEW q \in Readers, NEW x \in Seq(Pieces), NEW y \in Seq(Pieces)
    PROVE  /\ Read(q, x) \in Readers
           /\ Read(q, x \o y) = Read(Read(q, x), y)
<1>1. /\ x \o y \in Seq(Pieces) /\ Len(x \o y) = Len(x) + Len(y)
      /\ Len(x) \in Nat /\ Len(y) \in Nat
      /\ \A i \in 1..Len(x) : (x \o y)[i] = x[i]
      /\ \A i \in 1..Len(y) : (x \o y)[Len(x) + i] = y[i]
    OBVIOUS
<1>2. PICK h \in [0..Len(x \o y) -> Readers] :
         IsCourse(h, q, x \o y) /\ Read(q, x \o y) = h[Len(x \o y)]
    BY <1>1, ReadIs
<1>3. h[0] = q /\ \A i \in 1..(Len(x) + Len(y)) : h[i] = ReadPiece(h[i - 1], (x \o y)[i])
    BY <1>1, <1>2 DEF IsCourse
<1>4. IsCourse(h, q, x)
    BY <1>1, <1>3 DEF IsCourse
<1>5. Read(q, x) = h[Len(x)] /\ Read(q, x) \in Readers
    BY <1>4, ReadAlong
<1> DEFINE f == [i \in 0..Len(y) |-> h[Len(x) + i]]
<1>6. \A i \in 0..Len(y) : f[i] = h[Len(x) + i]
    OBVIOUS
<1>7. IsCourse(f, Read(q, x), y)
    <2>1. f[0] = Read(q, x)
        BY <1>1, <1>5, <1>6
    <2> HIDE DEF f
    <2>2. ASSUME NEW i \in 1..Len(y)
          PROVE  f[i] = ReadPiece(f[i - 1], y[i])
        <3>1. Len(x) + i \in 1..(Len(x) + Len(y)) /\ Len(x) + i - 1 = Len(x) + (i - 1)
              /\ i \in 0..Len(y) /\ i - 1 \in 0..Len(y)
            BY <1>1
        <3>2. h[Len(x) + i] = ReadPiece(h[Len(x) + i - 1], (x \o y)[Len(x) + i])
            <4> DEFINE k == Len(x) + i
            <4>1. k \in 1..(Len(x) + Len(y))
                BY <3>1
            <4> HIDE DEF k
            <4>2. h[k] = ReadPiece(h[k - 1], (x \o y)[k])
                BY <1>3, <4>1
            <4> QED
                BY <4>2 DEF k
        <3>3. f[i] = h[Len(x) + i] /\ f[i - 1] = h[Len(x) + (i - 1)]
            BY <1>6, <3>1
        <3> QED
            BY <1>1, <3>1, <3>2, <3>3
    <2> QED
        BY <2>1, <2>2 DEF IsCourse
<1>8. Read(Read(q, x), y) = f[Len(y)]
    <2> HIDE DEF f
    <2> QED
        BY <1>5, <1>7, ReadAlong
<1>9. f[Len(y)] = h[Len(x) + Len(y)]
    BY <1>1, <1>6
<1> QED
    BY <1>1, <1>2, <1>5, <1>8, <1>9

\* To read nothing.
LEMMA ReadNothing ==
    ASSUME NEW q \in Readers
    PROVE  Read(q, <<>>) = q
<1>1. <<>> \in Seq(Pieces) /\ Len(<<>>) = 0
    OBVIOUS
<1>2. PICK f \in [0..Len(<<>>) -> Readers] :
         IsCourse(f, q, <<>>) /\ Read(q, <<>>) = f[Len(<<>>)]
    BY <1>1, ReadIs
<1> QED
    BY <1>1, <1>2 DEF IsCourse

\* To read one piece more.
LEMMA ReadAppend ==
    ASSUME NEW q \in Readers, NEW x \in Seq(Pieces), NEW p \in Pieces
    PROVE  Read(q, Append(x, p)) = ReadPiece(Read(q, x), p)
<1>1. /\ Append(x, p) \in Seq(Pieces) /\ Len(Append(x, p)) = Len(x) + 1 /\ Len(x) \in Nat
      /\ \A i \in 1..Len(x) : Append(x, p)[i] = x[i]
      /\ Append(x, p)[Len(x) + 1] = p
    OBVIOUS
<1>2. PICK f \in [0..Len(Append(x, p)) -> Readers] :
         IsCourse(f, q, Append(x, p)) /\ Read(q, Append(x, p)) = f[Len(Append(x, p))]
    BY <1>1, ReadIs
<1>3. /\ f[0] = q
      /\ \A i \in 1..(Len(x) + 1) : f[i] = ReadPiece(f[i - 1], Append(x, p)[i])
    BY <1>1, <1>2 DEF IsCourse
<1>4. IsCourse(f, q, x)
    BY <1>1, <1>3 DEF IsCourse
<1>5. Read(q, x) = f[Len(x)]
    BY <1>4, ReadAlong
<1>6. Len(x) + 1 \in 1..(Len(x) + 1) /\ Len(x) + 1 - 1 = Len(x)
    BY <1>1
<1>7. f[Len(x) + 1] = ReadPiece(f[Len(x) + 1 - 1], Append(x, p)[Len(x) + 1])
    BY <1>3, <1>6
<1> QED
    BY <1>1, <1>2, <1>5, <1>6, <1>7

\* A CR before a LF says nothing, unless the line begins with another CR.
LEMMA CrLfIsLf ==
    ASSUME NEW q \in Readers, q.line # "cr"
    PROVE  ReadPiece(ReadPiece(q, CR), LF) = ReadPiece(q, LF)
<1>1. CR \in Pieces /\ LF \in Pieces /\ CR # LF /\ CR # "data:"
    BY DEF Pieces, CR, LF
<1>2. q.line \in {"start", "data", "other"}
    BY DEF Readers
<1>3. ReadPiece(q, CR) \in Readers
    BY <1>1, ReadPieceType
<1>4. CASE q.line = "start"
    <2>1. ReadPiece(q, CR) = [q EXCEPT !.line = "cr"]
        BY <1>1, <1>4, ReadPieceIs
    <2>2. ReadPiece(ReadPiece(q, CR), LF) = BlankLine([q EXCEPT !.line = "cr"])
        <3>1. ReadPiece(q, CR).line = "cr"
            BY <2>1 DEF Readers
        <3> QED
            BY <1>1, <1>3, <2>1, <3>1, ReadPieceIs
    <2>3. BlankLine([q EXCEPT !.line = "cr"]) = BlankLine(q)
        BY DEF BlankLine, Readers
    <2> QED
        BY <1>1, <1>4, <2>2, <2>3, ReadPieceIs
<1>5. CASE q.line = "data"
    <2>1. ReadPiece(q, CR) = [q EXCEPT !.data = @]
        BY <1>1, <1>5, ReadPieceIs
    <2>2. [q EXCEPT !.data = @] = q
        BY DEF Readers
    <2> QED
        BY <2>1, <2>2
<1>6. CASE q.line = "other"
    <2>1. ReadPiece(q, CR) = [q EXCEPT !.line = "other"]
        BY <1>1, <1>6, ReadPieceIs
    <2>2. [q EXCEPT !.line = "other"] = q
        BY <1>6 DEF Readers
    <2> QED
        BY <2>1, <2>2
<1> QED
    BY <1>2, <1>4, <1>5, <1>6

\* A reader that waits at a CR has just read it.
LEMMA WaitsAtCr ==
    ASSUME NEW q \in Readers, NEW p \in Pieces, ReadPiece(q, p).line = "cr"
    PROVE  p = CR
<1>1. q.line \in {"start", "cr", "data", "other"}
    BY DEF Readers
<1>2. CASE p = LF /\ q.line \in {"start", "cr"}
    BY <1>2, ReadPieceIs DEF BlankLine
<1>3. CASE p = LF /\ q.line \in {"data", "other"}
    BY <1>3, ReadPieceIs DEF Readers
<1>4. CASE p # LF /\ q.line = "start"
    <2>1. ReadPiece(q, p).line = IF p = "data:" THEN "data" ELSE IF p = CR THEN "cr" ELSE "other"
        BY <1>4, ReadPieceIs DEF Readers
    <2> QED
        BY <2>1
<1>5. CASE p # LF /\ q.line = "data"
    <2>1. ReadPiece(q, p) = [q EXCEPT !.data = IF p = CR THEN @ ELSE Append(@, p)]
        BY <1>5, ReadPieceIs
    <2>2. ReadPiece(q, p).line = q.line
        BY <2>1 DEF Readers
    <2> QED
        BY <1>5, <2>2
<1>6. CASE p # LF /\ q.line \in {"cr", "other"}
    BY <1>6, ReadPieceIs DEF Readers
<1> QED
    BY <1>1, <1>2, <1>3, <1>4, <1>5, <1>6

\* A reader who starts with a line gets the same out of a regular text and of its
\* normalized form.
LEMMA NormalizedReads ==
    ASSUME NEW x \in Seq(Pieces), Regular(x), NEW q \in Readers, q.line = "start"
    PROVE  Normalized(x) \in Seq(Pieces) /\ Read(q, Normalized(x)) = Read(q, x)
<1> DEFINE n == Len(x)
<1>1. PICK kept \in [0..n -> Seq(Pieces)] : IsKept(kept, x) /\ Normalized(x) = kept[n]
    BY NormalizedIs
<1>2. PICK f \in [0..n -> Readers] : IsCourse(f, q, x) /\ Read(q, x) = f[n]
    BY ReadIs
<1>3. n \in Nat /\ (\A i \in 1..n : x[i] \in Pieces) /\ CR # LF
    BY DEF CR, LF
<1> DEFINE Reached(i) == IF i > 0 /\ InPair(x, i) THEN f[i - 1] ELSE f[i]
           G == {i \in 0..n : Read(q, kept[i]) = Reached(i)}
<1>4. 0 \in G
    BY <1>1, <1>2, <1>3, ReadNothing DEF IsKept, IsCourse
<1>5. ASSUME NEW i \in 1..n, i - 1 \in G
      PROVE  i \in G
    <2>1. i \in 0..n /\ i - 1 \in 0..n /\ i > 0
        <3> HIDE DEF n
        <3> QED
            BY <1>3
    <2>2. Read(q, kept[i - 1]) = Reached(i - 1)
        <3> HIDE DEF n, Reached
        <3> QED
            BY <1>5
    <2>3. kept[i - 1] \in Seq(Pieces) /\ f[i - 1] \in Readers /\ x[i] \in Pieces
        <3> HIDE DEF n
        <3> QED
            BY <1>1, <1>2, <1>3, <2>1
    <2>4. f[i] = ReadPiece(f[i - 1], x[i])
        BY <1>2 DEF IsCourse
    <2>5. CASE InPair(x, i)
        <3>1. kept[i] = kept[i - 1]
            BY <1>1, <2>5 DEF IsKept
        <3>2. ~InPair(x, i - 1)
            BY <1>3, <2>5 DEF InPair
        <3>3. Reached(i - 1) = f[i - 1]
            BY <3>2
        <3> QED
            BY <2>1, <2>2, <2>5, <3>1, <3>3
    <2>6. CASE ~InPair(x, i)
        <3>1. kept[i] = Append(kept[i - 1], x[i])
            BY <1>1, <2>6 DEF IsKept
        <3>2. Read(q, kept[i]) = ReadPiece(Reached(i - 1), x[i])
            BY <2>2, <2>3, <3>1, ReadAppend
        <3>3. CASE i - 1 > 0 /\ InPair(x, i - 1)
            <4>1. x[i] = LF /\ x[i - 1] = CR /\ i - 1 \in 1..n /\ i - 1 - 1 \in 0..n
                BY <1>3, <3>3 DEF InPair
            <4>2. f[i - 1] = ReadPiece(f[i - 1 - 1], CR) /\ f[i - 1 - 1] \in Readers
                BY <1>2, <4>1 DEF IsCourse
            <4>3. f[i - 1 - 1].line # "cr"
                <5>1. CASE i - 1 - 1 = 0
                    BY <1>2, <5>1 DEF IsCourse
                <5>2. CASE i - 1 - 1 # 0
                    <6>1. i - 2 \in 1..n /\ i - 2 - 1 \in 0..n /\ i - 1 - 1 = i - 2
                        BY <1>3, <4>1, <5>2
                    <6>2. f[i - 2] = ReadPiece(f[i - 2 - 1], x[i - 2]) /\ f[i - 2 - 1] \in Readers
                        BY <1>2, <6>1 DEF IsCourse
                    <6>3. x[i - 2] # CR
                        <7>1. i - 2 \in 1..(n - 2) /\ i - 2 + 1 = i - 1 /\ i - 2 + 2 = i
                            BY <1>3, <6>1
                        <7> QED
                            BY <4>1, <7>1 DEF Regular
                    <6> QED
                        BY <1>3, <6>1, <6>2, <6>3, WaitsAtCr
                <5> QED
                    BY <5>1, <5>2
            <4>4. ReadPiece(ReadPiece(f[i - 1 - 1], CR), LF) = ReadPiece(f[i - 1 - 1], LF)
                BY <4>2, <4>3, CrLfIsLf
            <4>5. Reached(i - 1) = f[i - 1 - 1]
                BY <3>3
            <4>6. Read(q, kept[i]) = f[i]
                BY <2>4, <3>2, <4>1, <4>2, <4>4, <4>5
            <4> QED
                BY <2>1, <2>6, <4>6
        <3>4. CASE ~ (i - 1 > 0 /\ InPair(x, i - 1))
            <4>1. Reached(i - 1) = f[i - 1]
                BY <3>4
            <4> QED
                BY <2>1, <2>4, <2>6, <3>2, <4>1
        <3> QED
            BY <3>3, <3>4
    <2> QED
        BY <2>5, <2>6
<1>6. n \in G
    <2>1. \A i \in 0..n : i \in G
        <3> HIDE DEF G, n
        <3> QED
            BY <1>3, <1>4, <1>5, UpTo
    <2> QED
        BY <1>3, <2>1
<1>7. ~InPair(x, n)
    BY <1>3 DEF InPair
<1> QED
    BY <1>1, <1>2, <1>3, <1>6, <1>7

NoCrLf(s) == \A i \in 1..(Len(s) - 1) : ~ (s[i] = CR /\ s[i + 1] = LF)

\* s ends with k CR.
EndsInCr(s, k) == k <= Len(s) /\ \A i \in (Len(s) - k + 1)..Len(s) : s[i] = CR

\* Normalizing a regular text leaves no CR LF, and it ends with no more CR than
\* the text does.
LEMMA NormalizedShape ==
    ASSUME NEW x \in Seq(Pieces), Regular(x)
    PROVE  /\ NoCrLf(Normalized(x))
           /\ \A k \in 1..2 : EndsInCr(Normalized(x), k) => EndsInCr(x, k)
<1> DEFINE n == Len(x)
<1>1. PICK kept \in [0..n -> Seq(Pieces)] : IsKept(kept, x) /\ Normalized(x) = kept[n]
    BY NormalizedIs
<1>2. n \in Nat /\ (\A i \in 1..n : x[i] \in Pieces) /\ CR # LF
    BY DEF CR, LF
<1> DEFINE Shaped(i) ==
               /\ NoCrLf(kept[i])
               /\ kept[i] # <<>> /\ kept[i][Len(kept[i])] = CR
                    => i > 0 /\ x[i] = CR /\ ~InPair(x, i)
           G == {i \in 0..n : Shaped(i)}
<1>3. 0 \in G
    BY <1>1, <1>2 DEF IsKept, NoCrLf
<1>4. ASSUME NEW i \in 1..n, i - 1 \in G
      PROVE  i \in G
    <2>1. i \in 0..n /\ i - 1 \in 0..n /\ i > 0
        <3> HIDE DEF n
        <3> QED
            BY <1>2
    <2>2. Shaped(i - 1)
        <3> HIDE DEF n, Shaped
        <3> QED
            BY <1>4
    <2>3. kept[i - 1] \in Seq(Pieces) /\ x[i] \in Pieces
        <3> HIDE DEF n
        <3> QED
            BY <1>1, <1>2, <2>1
    <2>4. CASE InPair(x, i)
        <3>1. kept[i] = kept[i - 1]
            BY <1>1, <2>4 DEF IsKept
        <3>2. ~ (i - 1 > 0 /\ x[i - 1] = CR)
            <4>1. SUFFICES ASSUME i - 1 > 0, x[i - 1] = CR PROVE FALSE
                OBVIOUS
            <4>2. i - 1 \in 1..(n - 2) /\ i - 1 + 1 = i /\ i - 1 + 2 = i + 1
                BY <1>2, <2>1, <2>4, <4>1 DEF InPair
            <4> QED
                BY <2>4, <4>1, <4>2 DEF Regular, InPair
        <3>3. Shaped(i)
            BY <2>2, <3>1, <3>2
        <3> QED
            BY <2>1, <3>3
    <2>5. CASE ~InPair(x, i)
        <3> DEFINE t == kept[i - 1]
        <3>1. kept[i] = Append(t, x[i])
            BY <1>1, <2>5 DEF IsKept
        <3>2. t \in Seq(Pieces)
            BY <2>3
        <3>3. ~ (t # <<>> /\ t[Len(t)] = CR /\ x[i] = LF)
            <4>1. SUFFICES ASSUME t # <<>>, t[Len(t)] = CR, x[i] = LF PROVE FALSE
                OBVIOUS
            <4>2. i - 1 > 0 /\ x[i - 1] = CR /\ ~InPair(x, i - 1)
                BY <2>2, <4>1
            <4> QED
                BY <1>2, <2>1, <4>1, <4>2 DEF InPair
        <3>4. NoCrLf(t)
            BY <2>2
        <3> HIDE DEF t
        <3>5. NoCrLf(Append(t, x[i]))
            <4>1. ASSUME NEW j \in 1..(Len(Append(t, x[i])) - 1)
                  PROVE  ~ (Append(t, x[i])[j] = CR /\ Append(t, x[i])[j + 1] = LF)
                <5>1. /\ Len(Append(t, x[i])) = Len(t) + 1 /\ Len(t) \in Nat /\ j \in 1..Len(t)
                      /\ Append(t, x[i])[j] = t[j]
                      /\ j # Len(t) => Append(t, x[i])[j + 1] = t[j + 1]
                      /\ j = Len(t) => Append(t, x[i])[j + 1] = x[i]
                    BY <2>3, <3>2
                <5>2. CASE j = Len(t)
                    BY <3>2, <3>3, <5>1, <5>2
                <5>3. CASE j # Len(t)
                    BY <3>4, <5>1, <5>3 DEF NoCrLf
                <5> QED
                    BY <5>2, <5>3
            <4> QED
                BY <4>1 DEF NoCrLf
        <3>6. Append(t, x[i])[Len(Append(t, x[i]))] = x[i]
            BY <2>3, <3>2
        <3>7. Shaped(i)
            BY <2>1, <2>5, <3>1, <3>5, <3>6
        <3> QED
            BY <2>1, <3>7
    <2> QED
        BY <2>4, <2>5
<1>5. Shaped(n)
    <2>1. \A i \in 0..n : i \in G
        <3> HIDE DEF G, n
        <3> QED
            BY <1>2, <1>3, <1>4, UpTo
    <2> QED
        BY <1>2, <2>1
<1>6. ASSUME EndsInCr(kept[n], 1)
      PROVE  n > 0 /\ x[n] = CR /\ EndsInCr(x, 1)
    <2>1. kept[n] # <<>> /\ kept[n][Len(kept[n])] = CR
        <3>1. kept[n] \in Seq(Pieces) /\ Len(kept[n]) \in Nat /\ 1 <= Len(kept[n])
            BY <1>1, <1>2, <1>6 DEF EndsInCr
        <3> QED
            BY <1>6, <3>1 DEF EndsInCr
    <2>2. n > 0 /\ x[n] = CR
        BY <1>5, <2>1
    <2> QED
        BY <1>2, <2>2 DEF EndsInCr
<1>7. ASSUME EndsInCr(kept[n], 2)
      PROVE  EndsInCr(x, 2)
    <2> DEFINE t == kept[n - 1]
    <2>1. kept[n] \in Seq(Pieces) /\ 2 <= Len(kept[n]) /\ Len(kept[n]) \in Nat
          /\ kept[n][Len(kept[n])] = CR /\ kept[n][Len(kept[n]) - 1] = CR
        <3>1. kept[n] \in Seq(Pieces) /\ 2 <= Len(kept[n]) /\ Len(kept[n]) \in Nat
            BY <1>1, <1>2, <1>7 DEF EndsInCr
        <3> QED
            BY <1>7, <3>1 DEF EndsInCr
    <2>2. EndsInCr(kept[n], 1)
        BY <2>1 DEF EndsInCr
    <2>3. n > 0 /\ x[n] = CR /\ n - 1 \in 0..n
        BY <1>2, <1>6, <2>2
    <2>4. kept[n] = Append(t, x[n]) /\ t \in Seq(Pieces)
        <3>1. ~InPair(x, n) /\ n \in 1..n
            BY <1>2, <2>3 DEF InPair
        <3> QED
            BY <1>1, <2>3, <3>1 DEF IsKept
    <2>5. t # <<>> /\ t[Len(t)] = CR
        <3> HIDE DEF t
        <3>1. Len(Append(t, x[n])) = Len(t) + 1 /\ Len(t) \in Nat
              /\ \A j \in 1..Len(t) : Append(t, x[n])[j] = t[j]
            BY <2>4
        <3> QED
            BY <2>1, <2>4, <3>1
    <2>6. Shaped(n - 1)
        <3>1. \A i \in 0..n : i \in G
            <4> HIDE DEF G, n
            <4> QED
                BY <1>2, <1>3, <1>4, UpTo
        <3> QED
            BY <2>3, <3>1
    <2>7. n - 1 > 0 /\ x[n - 1] = CR
        BY <2>5, <2>6
    <2> QED
        BY <1>2, <2>3, <2>7 DEF EndsInCr
<1> QED
    BY <1>1, <1>5, <1>6, <1>7

-----------------------------------------------------------------------------
(* Events.                                                                  *)

\* A set of natural numbers that is not empty has a least element.
LEMMA LeastIs ==
    ASSUME NEW S, S \subseteq Nat, S # {}
    PROVE  Min(S) \in S /\ \A y \in S : Min(S) <= y
<1>1. PICK b \in S : \A p \in S : ~ (<<p, b>> \in OpToRel(<, Nat))
    BY WFMin, NatLessThanWellFounded
<1>2. \A y \in S : b <= y
    <2>1. \A p \in S : ~ (p < b)
        BY <1>1 DEF OpToRel
    <2>2. \A y \in S : y \in Nat /\ b \in Nat
        BY <1>1
    <2> QED
        BY <2>1, <2>2
<1>3. \E z \in S : \A y \in S : z <= y
    BY <1>2
<1> QED
    BY <1>3 DEF Min

\* Two LF in a row at place i.
BlankAt(s, i) == s[i] = LF /\ s[i + 1] = LF

\* EventEnd finds the first of them.
LEMMA EventEndIs ==
    ASSUME NEW s \in Seq(Pieces)
    PROVE  /\ EventEnd(s) \in Nat
           /\ EventEnd(s) = 0 => \A i \in 1..(Len(s) - 1) : ~BlankAt(s, i)
           /\ EventEnd(s) # 0 => /\ EventEnd(s) \in 1..(Len(s) - 1)
                                 /\ BlankAt(s, EventEnd(s))
                                 /\ \A i \in 1..(EventEnd(s) - 1) : ~BlankAt(s, i)
<1> DEFINE ends == {i \in 1..(Len(s) - 1) : s[i] = LF /\ s[i + 1] = LF}
<1>1. Len(s) \in Nat
    OBVIOUS
<1>2. EventEnd(s) = IF ends = {} THEN 0 ELSE Min(ends)
    BY DEF EventEnd
<1>3. CASE ends = {}
    <2>1. EventEnd(s) = 0
        BY <1>2, <1>3
    <2>2. \A i \in 1..(Len(s) - 1) : ~BlankAt(s, i)
        BY <1>3 DEF BlankAt
    <2> QED
        BY <2>1, <2>2
<1>4. CASE ends # {}
    <2>1. ends \subseteq Nat
        OBVIOUS
    <2>2. Min(ends) \in ends /\ \A y \in ends : Min(ends) <= y
        <3> HIDE DEF ends
        <3> QED
            BY <1>4, <2>1, LeastIs
    <2>3. EventEnd(s) = Min(ends)
        BY <1>2, <1>4
    <2> DEFINE m == Min(ends)
    <2> HIDE DEF m
    <2>4. m \in 1..(Len(s) - 1) /\ s[m] = LF /\ s[m + 1] = LF
        BY <2>2 DEF m
    <2>5. ASSUME NEW i \in 1..(m - 1)
          PROVE  ~BlankAt(s, i)
        <3>1. i \in 1..(Len(s) - 1) /\ ~ (m <= i)
            BY <1>1, <2>4
        <3>2. i \notin ends
            <4> HIDE DEF ends
            <4> QED
                BY <2>2, <3>1 DEF m
        <3> QED
            BY <3>1, <3>2 DEF BlankAt
    <2>6. EventEnd(s) = m /\ BlankAt(s, m) /\ m \in Nat /\ m # 0
        BY <1>1, <2>3, <2>4 DEF m, BlankAt
    <2>7. EventEnd(s) \in 1..(Len(s) - 1) /\ BlankAt(s, EventEnd(s)) /\ EventEnd(s) \in Nat
        BY <2>4, <2>6
    <2>8. \A i \in 1..(EventEnd(s) - 1) : ~BlankAt(s, i)
        BY <2>5, <2>6
    <2> HIDE DEF ends
    <2> QED
        BY <2>7, <2>8, <2>6
<1> QED
    BY <1>3, <1>4

\* A set of natural numbers up to n that is not empty has a greatest element.
LEMMA GreatestIs ==
    ASSUME NEW n \in Nat, NEW S, S \subseteq 0..n, S # {}
    PROVE  Max(S) \in S /\ \A y \in S : y <= Max(S)
<1> DEFINE T == {n - y : y \in S}
<1>1. T \subseteq Nat /\ T # {}
    <2>1. \A y \in S : n - y \in Nat
        OBVIOUS
    <2> QED
        BY <2>1
<1>2. Min(T) \in T /\ \A y \in T : Min(T) <= y
    <2> HIDE DEF T
    <2> QED
        BY <1>1, LeastIs
<1>3. PICK b \in S : Min(T) = n - b
    <2> DEFINE k == Min(T)
    <2>1. k \in T
        BY <1>2
    <2> HIDE DEF k
    <2> QED
        BY <2>1 DEF k
<1>4. ASSUME NEW y \in S
      PROVE  b >= y
    <2>1. n - y \in T
        OBVIOUS
    <2> HIDE DEF T
    <2>2. n - b <= n - y /\ b \in 0..n /\ y \in 0..n
        BY <1>2, <1>3, <2>1
    <2> QED
        BY <2>2
<1>5. \E z \in S : \A y \in S : z >= y
    BY <1>4
<1>6. Max(S) \in S /\ \A y \in S : Max(S) >= y
    BY <1>5 DEF Max
<1>7. ASSUME NEW y \in S
      PROVE  y <= Max(S)
    <2>1. Max(S) \in 0..n /\ y \in 0..n /\ Max(S) >= y
        BY <1>6
    <2> QED
        BY <2>1
<1> QED
    BY <1>6, <1>7

\* A stretch without two LF in a row is within one event.
LEMMA LongestEventCovers ==
    ASSUME NEW s \in Seq(Pieces), NEW p \in 1..(Len(s) + 1), NEW q \in 0..Len(s), p <= q + 1,
           \A i \in p..(q - 1) : ~BlankAt(s, i)
    PROVE  LongestEvent(s) \in Nat /\ q + 1 - p <= LongestEvent(s)
<1> DEFINE n == Len(s)
           stretches == {r \in (1..(n + 1)) \X (0..n) : r[1] <= r[2] + 1}
           within == {r \in stretches : EventEnd(SubSeq(s, r[1], r[2])) = 0}
           S == {r[2] + 1 - r[1] : r \in within}
           e == SubSeq(s, p, q)
<1>1. n \in Nat /\ p \in Nat /\ q \in Nat
    OBVIOUS
<1>2. LongestEvent(s) = Max(S)
    BY DEF LongestEvent
<1>3. e \in Seq(Pieces) /\ Len(e) = q + 1 - p /\ \A i \in 1..Len(e) : e[i] = s[p + i - 1]
    OBVIOUS
<1>4. EventEnd(e) = 0
    <2> DEFINE end == EventEnd(e)
    <2>1. SUFFICES ASSUME end # 0 PROVE FALSE
        OBVIOUS
    <2>2. end \in 1..(Len(e) - 1) /\ e[end] = LF /\ e[end + 1] = LF
        <3> HIDE DEF e
        <3> QED
            BY <1>3, <2>1, EventEndIs DEF BlankAt
    <2> HIDE DEF end, e
    <2>3. /\ end \in 1..Len(e) /\ end + 1 \in 1..Len(e)
          /\ p + end - 1 \in p..(q - 1) /\ p + (end + 1) - 1 = p + end - 1 + 1
        <3> DEFINE k == Len(e)
        <3>1. k = q + 1 - p /\ end \in 1..(k - 1)
            BY <1>3, <2>2
        <3> HIDE DEF k
        <3>2. /\ end \in 1..k /\ end + 1 \in 1..k
              /\ p + end - 1 \in p..(q - 1) /\ p + (end + 1) - 1 = p + end - 1 + 1
            BY <1>1, <3>1
        <3> QED
            BY <3>2 DEF k
    <2>4. s[p + end - 1] = LF /\ s[p + end - 1 + 1] = LF
        <3>1. e[end] = s[p + end - 1] /\ e[end + 1] = s[p + (end + 1) - 1]
            BY <1>3, <2>3
        <3> QED
            BY <2>2, <2>3, <3>1
    <2> QED
        BY <2>3, <2>4 DEF BlankAt
<1>5. S \subseteq 0..(n + 1)
    <2>1. ASSUME NEW r \in within
          PROVE  r[2] + 1 - r[1] \in 0..(n + 1)
        <3>1. r[1] \in 1..(n + 1) /\ r[2] \in 0..n /\ r[1] <= r[2] + 1
            OBVIOUS
        <3> HIDE DEF n
        <3> QED
            BY <1>1, <3>1
    <2> HIDE DEF within, n
    <2> QED
        BY <2>1
<1>6. q + 1 - p \in S
    <2> DEFINE r == <<p, q>>
    <2>1. r \in (1..(n + 1)) \X (0..n) /\ r[1] = p /\ r[2] = q
        OBVIOUS
    <2>2. r \in within
        <3> HIDE DEF r
        <3> QED
            BY <1>4, <2>1
    <2> HIDE DEF r, within
    <2> QED
        BY <2>1, <2>2
<1>7. Max(S) \in S /\ q + 1 - p <= Max(S)
    <2>1. n + 1 \in Nat
        BY <1>1
    <2> HIDE DEF S, n
    <2> QED
        BY <1>5, <1>6, <2>1, GreatestIs
<1>8. Max(S) \in Nat
    <2>1. \A k \in 0..(n + 1) : k \in Nat
        BY <1>1
    <2> HIDE DEF S, n
    <2> QED
        BY <1>5, <1>7, <2>1
<1> HIDE DEF S
<1> QED
    BY <1>2, <1>7, <1>8

\* What remains of a beginning of an answer, if it holds no event, shows that one
\* event of the answer is as long, but for the last piece.
LEMMA RemainsIsLong ==
    ASSUME NEW y \in Seq(Pieces), NEW l \in 0..Len(y), NEW b \in Seq(Pieces), NEW f,
           Remains(f, b, SubSeq(y, 1, l)), EventEnd(b) = 0,
           \A i \in 1..Len(b) : ~InPair(SubSeq(y, 1, l), f[i])
    PROVE  LongestEvent(Normalized(y)) \in Nat /\ Len(b) <= LongestEvent(Normalized(y)) + 1
<1> DEFINE t == SubSeq(y, 1, l)
           s == Normalized(y)
           n == Len(s)
           m == Len(b) - 1
<1>1. /\ Len(y) \in Nat /\ l \in Nat /\ Len(b) \in Nat /\ m \in Int /\ Len(b) = m + 1
      /\ t \in Seq(Pieces) /\ Len(t) = l /\ \A i \in 1..l : t[i] = y[i]
    OBVIOUS
<1>2. s \in Seq(Pieces)
    BY NormalizedRemains
<1>3. PICK psi : /\ Remains(psi, s, y)
                 /\ \A j \in 1..Len(y) : ~InPair(y, j) <=> \E i \in 1..n : psi[i] = j
    BY NormalizedRemains
<1>4. /\ psi \in [1..n -> 1..Len(y)] /\ Increasing(psi, n) /\ n \in Nat
      /\ \A i \in 1..n : s[i] = y[psi[i]]
    <2> HIDE DEF s
    <2> QED
        BY <1>2, <1>3 DEF Remains
<1> HIDE DEF s, n, m, t
<1>5. /\ f \in [1..(m + 1) -> 1..l] /\ Increasing(f, m + 1)
      /\ \A i \in 1..(m + 1) : b[i] = t[f[i]]
      /\ \A i \in 1..(m + 1), j \in 1..l : f[i] <= j /\ t[j] = LF => \E k \in 1..(m + 1) : f[k] = j
      /\ \A i \in 1..(m + 1) : ~InPair(t, f[i])
    BY <1>1 DEF Remains, t
<1>6. CASE m <= 0
    <2>1. LongestEvent(s) \in Nat /\ 0 + 1 - 1 <= LongestEvent(s)
        <3>1. 1 \in 1..(n + 1) /\ 0 \in 0..n /\ 1 <= 0 + 1 /\ \A i \in 1..(0 - 1) : FALSE
            BY <1>4
        <3> QED
            BY <1>2, <3>1, LongestEventCovers DEF n
    <2> QED
        BY <1>1, <1>6, <2>1 DEF s
<1>7. CASE ~ (m <= 0)
    <2>1. m \in Nat /\ 1 \in 1..m /\ m \in 1..m /\ \A i \in 1..m : i \in 1..(m + 1) /\ i < m + 1
        BY <1>1, <1>7
    <2>2. ASSUME NEW i \in 1..m
          PROVE  \E k \in 1..n : psi[k] = f[i]
        <3>1. f[i] < f[m + 1] /\ f[i] \in 1..l /\ f[m + 1] \in 1..l
            <4>1. i \in 1..(m + 1) /\ m + 1 \in 1..(m + 1) /\ i < m + 1
                BY <2>1
            <4> QED
                BY <1>5, <4>1 DEF Increasing
        <3>2. f[i] < l /\ f[i] + 1 \in 1..l /\ f[i] \in 1..Len(y)
            BY <1>1, <3>1
        <3>3. InPair(y, f[i]) => InPair(t, f[i])
            <4>1. t[f[i]] = y[f[i]] /\ t[f[i] + 1] = y[f[i] + 1]
                BY <1>1, <3>1, <3>2
            <4> QED
                BY <1>1, <3>2, <4>1 DEF InPair
        <3>4. ~InPair(y, f[i])
            BY <1>5, <2>1, <3>3
        <3> QED
            BY <1>3, <3>2, <3>4
    <2> DEFINE theta == [i \in 1..m |-> CHOOSE k \in 1..n : psi[k] = f[i]]
    <2>3. \A i \in 1..m : theta[i] \in 1..n /\ psi[theta[i]] = f[i]
        BY <2>2
    <2>4. theta \in [1..m -> Nat]
        BY <2>3, <1>4
    <2> HIDE DEF theta
    <2>5. ASSUME NEW i \in 1..m, NEW j \in 1..m, i < j
          PROVE  theta[i] < theta[j]
        <3>1. f[i] < f[j] /\ f[i] \in Nat /\ f[j] \in Nat
            BY <1>5, <2>1, <2>5 DEF Increasing
        <3>2. theta[i] \in 1..n /\ theta[j] \in 1..n
            BY <2>3
        <3>3. theta[i] # theta[j]
            BY <2>3, <3>1
        <3>4. theta[j] < theta[i] => f[j] < f[i]
            BY <1>4, <2>3, <3>2 DEF Increasing
        <3>5. ~ (theta[j] < theta[i])
            BY <3>1, <3>4
        <3> QED
            BY <3>2, <3>3, <3>5
    <2>6. Increasing(theta, m)
        BY <2>5 DEF Increasing
    <2>7. theta[1] + m <= theta[m] + 1
        BY <2>1, <2>4, <2>6, IncreasingGrows
    <2> DEFINE p == theta[1]
               q == theta[m]
    <2>8. p \in 1..n /\ q \in 1..n /\ p + m <= q + 1 /\ psi[p] = f[1] /\ psi[q] = f[m]
        BY <2>1, <2>3, <2>7
    <2> HIDE DEF p, q
    <2>9. ASSUME NEW j \in p..q, s[j] = LF
          PROVE  \E i \in 1..m : f[i] = psi[j]
        <3>1. j \in 1..n
            BY <1>4, <2>8
        <3>2. psi[p] <= psi[j] /\ psi[j] <= psi[q] /\ psi[j] \in 1..Len(y)
            <4>1. psi[j] \in 1..Len(y) /\ psi[p] \in 1..Len(y) /\ psi[q] \in 1..Len(y)
                BY <1>4, <2>8, <3>1
            <4>2. p = j \/ p < j
                BY <2>8, <3>1
            <4>3. q = j \/ j < q
                BY <2>8, <3>1
            <4>4. psi[p] = psi[j] \/ psi[p] < psi[j]
                BY <1>4, <2>8, <3>1, <4>2 DEF Increasing
            <4>5. psi[q] = psi[j] \/ psi[j] < psi[q]
                BY <1>4, <2>8, <3>1, <4>3 DEF Increasing
            <4> QED
                BY <4>1, <4>4, <4>5
        <3>3. f[1] \in 1..l /\ f[m] \in 1..l /\ f[m + 1] \in 1..l /\ f[m] < f[m + 1]
            <4>1. 1 \in 1..(m + 1) /\ m \in 1..(m + 1) /\ m + 1 \in 1..(m + 1) /\ m < m + 1
                BY <2>1
            <4> QED
                BY <1>5, <4>1 DEF Increasing
        <3>4. psi[j] \in 1..l /\ f[1] <= psi[j] /\ psi[j] < f[m + 1]
            <4>1. f[1] <= psi[j] /\ psi[j] <= f[m] /\ psi[j] \in Nat /\ 1 <= psi[j]
                BY <2>8, <3>2
            <4> QED
                BY <1>1, <3>3, <4>1
        <3>5. t[psi[j]] = LF
            BY <1>1, <1>4, <2>9, <3>1, <3>4
        <3>6. PICK k \in 1..(m + 1) : f[k] = psi[j]
            BY <1>5, <2>1, <3>4, <3>5
        <3>7. k # m + 1
            BY <3>3, <3>4, <3>6
        <3>8. k \in 1..m
            BY <2>1, <3>6, <3>7
        <3> QED
            BY <3>6, <3>8
    <2>10. ASSUME NEW j \in p..(q - 1), BlankAt(s, j)
           PROVE  FALSE
        <3>1. j \in p..q /\ j + 1 \in p..q /\ j \in 1..n /\ j + 1 \in 1..n /\ j < j + 1
            BY <1>4, <2>8
        <3>2. PICK i \in 1..m : f[i] = psi[j]
            BY <2>9, <2>10, <3>1 DEF BlankAt
        <3>3. PICK k \in 1..m : f[k] = psi[j + 1]
            BY <2>9, <2>10, <3>1 DEF BlankAt
        <3>4. theta[i] = j /\ theta[k] = j + 1
            <4>1. ASSUME NEW r \in 1..n, NEW r2 \in 1..n, psi[r] = psi[r2]
                  PROVE  r = r2
                <5>1. psi[r] \in Nat /\ psi[r2] \in Nat
                    BY <1>4
                <5>2. ~ (r < r2) /\ ~ (r2 < r)
                    BY <1>4, <4>1, <5>1 DEF Increasing
                <5> QED
                    BY <5>2
            <4> QED
                BY <2>3, <3>1, <3>2, <3>3, <4>1
        <3>5. i < k
            <4>1. k < i => theta[k] < theta[i]
                BY <2>5
            <4>2. k = i => theta[k] = theta[i]
                OBVIOUS
            <4> QED
                BY <3>1, <3>4, <4>1, <4>2
        <3>6. k = i + 1
            <4>1. SUFFICES ASSUME k # i + 1 PROVE FALSE
                OBVIOUS
            <4>2. i + 1 \in 1..m /\ i < i + 1 /\ i + 1 < k
                BY <2>1, <3>5, <4>1
            <4>3. theta[i] < theta[i + 1] /\ theta[i + 1] < theta[k] /\ theta[i + 1] \in 1..n
                BY <2>3, <2>5, <4>2
            <4> QED
                BY <3>1, <3>4, <4>3
        <3>7. b[i] = LF /\ b[i + 1] = LF
            <4>1. /\ i \in 1..(m + 1) /\ k \in 1..(m + 1)
                  /\ f[i] \in 1..l /\ f[k] \in 1..l
                BY <1>5, <2>1
            <4>2. b[i] = y[psi[j]] /\ b[k] = y[psi[j + 1]]
                <5>1. b[i] = t[f[i]] /\ b[k] = t[f[k]]
                    BY <1>5, <4>1
                <5>2. t[f[i]] = y[f[i]] /\ t[f[k]] = y[f[k]]
                    BY <1>1, <4>1
                <5> QED
                    BY <3>2, <3>3, <5>1, <5>2
            <4> QED
                BY <1>4, <2>10, <3>1, <3>6, <4>2 DEF BlankAt
        <3>8. i \in 1..(Len(b) - 1)
            BY <1>1
        <3> QED
            BY <3>7, <3>8, EventEndIs DEF BlankAt
    <2>11. LongestEvent(s) \in Nat /\ q + 1 - p <= LongestEvent(s)
        <3>1. p \in 1..(n + 1) /\ q \in 0..n /\ p <= q + 1
            BY <1>4, <2>1, <2>8
        <3> QED
            BY <1>2, <2>10, <3>1, LongestEventCovers DEF n
    <2>12. m + 1 <= LongestEvent(s) + 1
        BY <2>1, <2>8, <2>11
    <2> QED
        BY <1>1, <2>11, <2>12 DEF s
<1> QED
    BY <1>6, <1>7

\* The reader between two events.
Clean(usage) == [line |-> "start", data |-> <<>>, usage |-> usage, raised |-> FALSE]

\* The place i of an event is on a line with data.
OnDataLine(e, i) ==
    \E j \in 1..(i - 1) : /\ LineStart(e, j) /\ e[j] = "data:"
                          /\ \A k \in j..i : e[k] # LF

\* Along a text without CR LF and without a blank line after the first piece,
\* a reader collects what EventPayload shows, and nothing else.
AlongEvent(f, e, usage, i) ==
    /\ f[i].usage = usage /\ f[i].raised = FALSE
    /\ i = 0 => f[i].data = <<>>
    /\ i > 0 => f[i].data = IF e[i] # CR /\ OnDataLine(e, i) THEN Append(f[i - 1].data, e[i])
                            ELSE f[i - 1].data
    /\ f[i].line = "start" <=> i = 0 \/ e[i] = LF
    /\ f[i].line = "cr" => i > 0 /\ e[i] = CR
    /\ f[i].line = "data" <=> \E j \in 1..i : /\ LineStart(e, j) /\ e[j] = "data:"
                                              /\ \A k \in j..i : e[k] # LF

\* Each piece of an event keeps the reader along it.
LEMMA AlongEventStep ==
    ASSUME NEW e \in Seq(Pieces), NoCrLf(e), \A i \in 1..(Len(e) - 1) : ~BlankAt(e, i),
           NEW usage \in Usages \cup {None},
           NEW f \in [0..Len(e) -> Readers], IsCourse(f, Clean(usage), e),
           NEW i \in 1..Len(e), AlongEvent(f, e, usage, i - 1)
    PROVE  AlongEvent(f, e, usage, i)
<1> DEFINE q == f[i - 1]
           Here(m) == \E j \in 1..m : /\ LineStart(e, j) /\ e[j] = "data:"
                                      /\ \A k \in j..m : e[k] # LF
<1>1. /\ Len(e) \in Nat /\ i - 1 \in 0..Len(e) /\ i \in 0..Len(e) /\ i # 0 /\ i > 0
      /\ \A j \in 1..Len(e) : e[j] \in Pieces
    OBVIOUS
<1>2. q \in Readers /\ e[i] \in Pieces /\ f[i] = ReadPiece(q, e[i]) /\ f[i] \in Readers
    BY <1>1 DEF IsCourse
<1>3. CR # LF /\ "data:" # LF /\ "data:" # CR
    BY DEF CR, LF
<1>4. /\ q.usage = usage /\ q.raised = FALSE
      /\ q.line = "start" <=> i = 1 \/ e[i - 1] = LF
      /\ q.line = "cr" => i > 1 /\ e[i - 1] = CR
      /\ q.line = "data" <=> Here(i - 1)
      /\ i = 1 => q.data = <<>>
    BY <1>1 DEF AlongEvent
<1>5. q.line \in {"start", "cr", "data", "other"}
    BY <1>2 DEF Readers
<1>6. OnDataLine(e, i) <=> e[i] # LF /\ q.line = "data"
    <2>1. ASSUME OnDataLine(e, i)
          PROVE  e[i] # LF /\ Here(i - 1)
        BY <1>1, <2>1 DEF OnDataLine
    <2>2. ASSUME e[i] # LF, Here(i - 1)
          PROVE  OnDataLine(e, i)
        <3>1. PICK j \in 1..(i - 1) : /\ LineStart(e, j) /\ e[j] = "data:"
                                     /\ \A k \in j..(i - 1) : e[k] # LF
            BY <2>2
        <3>2. \A k \in j..i : k = i \/ k \in j..(i - 1)
            BY <1>1
        <3> QED
            BY <2>2, <3>1, <3>2 DEF OnDataLine
    <2> HIDE DEF Here
    <2> QED
        BY <1>4, <2>1, <2>2
<1>7. Here(i) <=> OnDataLine(e, i) \/ (e[i] = "data:" /\ LineStart(e, i))
    <2>1. ASSUME Here(i)
          PROVE  OnDataLine(e, i) \/ (e[i] = "data:" /\ LineStart(e, i))
        <3>1. PICK j \in 1..i : /\ LineStart(e, j) /\ e[j] = "data:"
                               /\ \A k \in j..i : e[k] # LF
            BY <2>1
        <3>2. CASE j = i
            BY <3>1, <3>2
        <3>3. CASE j # i
            <4>1. j \in 1..(i - 1)
                BY <1>1, <3>3
            <4> QED
                BY <3>1, <4>1 DEF OnDataLine
        <3> QED
            BY <3>2, <3>3
    <2>2. ASSUME OnDataLine(e, i)
          PROVE  Here(i)
        BY <1>1, <2>2 DEF OnDataLine
    <2>3. ASSUME e[i] = "data:", LineStart(e, i)
          PROVE  Here(i)
        <3>1. i \in 1..i /\ \A k \in i..i : e[k] # LF
            BY <1>1, <1>3, <2>3
        <3> QED
            BY <2>3, <3>1
    <2> HIDE DEF Here
    <2> QED
        BY <2>1, <2>2, <2>3
<1>8. LineStart(e, i) <=> q.line = "start"
    BY <1>4 DEF LineStart
<1> HIDE DEF Here
<1>9. SUFFICES /\ f[i].usage = usage /\ f[i].raised = FALSE
               /\ f[i].data = IF e[i] # CR /\ OnDataLine(e, i) THEN Append(q.data, e[i]) ELSE q.data
               /\ f[i].line = "start" <=> e[i] = LF
               /\ f[i].line = "cr" => e[i] = CR
               /\ f[i].line = "data" <=> Here(i)
    BY <1>1 DEF AlongEvent, Here
<1> HIDE DEF q
<1>10. CASE e[i] = LF /\ q.line = "start"
    <2>1. i = 1
        <3>1. CASE i # 1
            <4>1. i - 1 \in 1..(Len(e) - 1) /\ e[i - 1] = LF /\ i - 1 + 1 = i
                BY <1>1, <1>4, <1>10, <3>1
            <4> QED
                BY <1>10, <4>1 DEF BlankAt
        <3> QED
            BY <3>1
    <2>2. f[i] = BlankLine(q) /\ q.data = <<>>
        BY <1>2, <1>4, <1>10, <2>1, ReadPieceIs
    <2>3. /\ BlankLine(q).line = "start" /\ BlankLine(q).data = <<>>
          /\ BlankLine(q).usage = usage /\ BlankLine(q).raised = FALSE
        <3>1. ~ (\E u \in Usages : q.data = <<u>>) /\ q.data # <<"list">>
            BY <2>2
        <3> QED
            BY <1>4, <3>1 DEF BlankLine
    <2> QED
        BY <1>3, <1>6, <1>7, <1>10, <2>2, <2>3
<1>11. CASE e[i] = LF /\ q.line = "cr"
    <2>1. i - 1 \in 1..(Len(e) - 1) /\ e[i - 1] = CR /\ i - 1 + 1 = i
        BY <1>1, <1>4, <1>11
    <2> QED
        BY <1>11, <2>1 DEF NoCrLf
<1>12. CASE e[i] = LF /\ q.line \in {"data", "other"}
    <2>1. f[i] = [q EXCEPT !.line = "start"]
        BY <1>2, <1>12, ReadPieceIs
    <2>2. /\ f[i].line = "start" /\ f[i].data = q.data /\ f[i].usage = q.usage
          /\ f[i].raised = q.raised
        BY <1>2, <2>1 DEF Readers
    <2> QED
        BY <1>3, <1>4, <1>6, <1>7, <1>12, <2>2
<1>13. CASE e[i] # LF /\ q.line = "start"
    <2>1. f[i] = [q EXCEPT !.line = IF e[i] = "data:" THEN "data"
                                    ELSE IF e[i] = CR THEN "cr" ELSE "other"]
        BY <1>2, <1>13, ReadPieceIs
    <2>2. /\ f[i].line = IF e[i] = "data:" THEN "data" ELSE IF e[i] = CR THEN "cr" ELSE "other"
          /\ f[i].data = q.data /\ f[i].usage = q.usage /\ f[i].raised = q.raised
        BY <1>2, <2>1 DEF Readers
    <2> QED
        BY <1>4, <1>6, <1>7, <1>8, <1>13, <2>2
<1>14. CASE e[i] # LF /\ q.line = "data"
    <2>1. f[i] = [q EXCEPT !.data = IF e[i] = CR THEN @ ELSE Append(@, e[i])]
        BY <1>2, <1>14, ReadPieceIs
    <2>2. /\ f[i].data = IF e[i] = CR THEN q.data ELSE Append(q.data, e[i])
          /\ f[i].line = q.line /\ f[i].usage = q.usage /\ f[i].raised = q.raised
        BY <1>2, <2>1 DEF Readers
    <2> QED
        BY <1>4, <1>6, <1>7, <1>14, <2>2
<1>15. CASE e[i] # LF /\ q.line \in {"cr", "other"}
    <2>1. f[i] = [q EXCEPT !.line = "other"]
        BY <1>2, <1>15, ReadPieceIs
    <2>2. /\ f[i].line = "other" /\ f[i].data = q.data /\ f[i].usage = q.usage
          /\ f[i].raised = q.raised
        BY <1>2, <2>1 DEF Readers
    <2> QED
        BY <1>4, <1>6, <1>7, <1>8, <1>15, <2>2
<1> QED
    BY <1>5, <1>10, <1>11, <1>12, <1>13, <1>14, <1>15

\* The reader between two events is a reader.
LEMMA CleanType ==
    ASSUME NEW usage \in Usages \cup {None}
    PROVE  Clean(usage) \in Readers
<1>1. <<>> \in Seq(Pieces)
    OBVIOUS
<1> QED
    BY <1>1 DEF Clean, Readers

\* What a reader knows at the end of such a text e, having begun with usage.
EventIsRead(q, e, usage) ==
    /\ q \in Readers /\ q.usage = usage /\ q.raised = FALSE
    /\ q.data = EventPayload(e)
    /\ q.line = "start" <=> e = <<>> \/ e[Len(e)] = LF
    /\ q.line = "cr" => e # <<>> /\ e[Len(e)] = CR

\* It has collected the payload of the event, and knows how the last line began.
LEMMA EventReads ==
    ASSUME NEW e \in Seq(Pieces), NoCrLf(e), \A i \in 1..(Len(e) - 1) : ~BlankAt(e, i),
           NEW usage \in Usages \cup {None}
    PROVE  EventIsRead(Read(Clean(usage), e), e, usage)
<1> DEFINE n == Len(e)
           q == Read(Clean(usage), e)
<1> HIDE DEF q
<1>1. PICK f \in [0..n -> Readers] : IsCourse(f, Clean(usage), e) /\ q = f[n]
    BY CleanType, ReadIs DEF q
<1>2. n \in Nat
    OBVIOUS
<1>3. \A i \in 0..n : AlongEvent(f, e, usage, i)
    <2> DEFINE G == {i \in 0..n : AlongEvent(f, e, usage, i)}
    <2>1. 0 \in G
        <3>1. f[0] = Clean(usage)
            BY <1>1 DEF IsCourse
        <3>2. AlongEvent(f, e, usage, 0)
            BY <3>1 DEF AlongEvent, Clean
        <3> QED
            BY <1>2, <3>2
    <2>2. ASSUME NEW i \in 1..n, i - 1 \in G
          PROVE  i \in G
        <3>1. i \in 0..n
            BY <1>2
        <3>2. AlongEvent(f, e, usage, i)
            BY <1>1, <2>2, AlongEventStep
        <3> QED
            BY <3>1, <3>2
    <2>3. \A i \in 0..n : i \in G
        <3> HIDE DEF G, n
        <3> QED
            BY <1>2, <2>1, <2>2, UpTo
    <2> QED
        BY <2>3
<1> DEFINE Eq(h) == h = [i \in 0..n |-> IF i = 0 THEN <<>>
                                         ELSE IF e[i] # CR /\ OnDataLine(e, i)
                                              THEN Append(h[i - 1], e[i])
                                         ELSE h[i - 1]]
           shown == CHOOSE h : Eq(h)
           data  == [i \in 0..n |-> f[i].data]
<1>4. EventPayload(e) = shown[n]
    BY DEF EventPayload, OnDataLine
<1>5. \A i \in 0..n : data[i] = IF i = 0 THEN <<>>
                               ELSE IF e[i] # CR /\ OnDataLine(e, i)
                                    THEN Append(data[i - 1], e[i])
                               ELSE data[i - 1]
    <2>1. ASSUME NEW i \in 0..n
          PROVE  data[i] = IF i = 0 THEN <<>>
                           ELSE IF e[i] # CR /\ OnDataLine(e, i)
                                THEN Append(data[i - 1], e[i])
                           ELSE data[i - 1]
        <3>1. AlongEvent(f, e, usage, i) /\ data[i] = f[i].data
            BY <1>3
        <3>2. CASE i = 0
            BY <3>1, <3>2 DEF AlongEvent
        <3>3. CASE i # 0
            <4>1. i > 0 /\ i - 1 \in 0..n
                BY <1>2, <3>3
            <4>2. data[i - 1] = f[i - 1].data
                BY <4>1
            <4> HIDE DEF data, n
            <4> QED
                BY <3>1, <3>3, <4>1, <4>2 DEF AlongEvent
        <3> QED
            BY <3>2, <3>3
    <2> HIDE DEF data, n
    <2> QED
        BY <2>1
<1>6. Eq(data)
    <2>1. data = [i \in 0..n |-> data[i]]
        OBVIOUS
    <2> HIDE DEF data, n
    <2> QED
        BY <1>5, <2>1
<1>7. Eq(shown)
    <2> HIDE DEF Eq
    <2> QED
        BY <1>6
<1> HIDE DEF shown, data
<1>8. shown[n] = data[n]
    <2> DEFINE G == {i \in 0..n : shown[i] = data[i]}
    <2>0. \A i \in 0..n : shown[i] = IF i = 0 THEN <<>>
                                    ELSE IF e[i] # CR /\ OnDataLine(e, i)
                                         THEN Append(shown[i - 1], e[i])
                                    ELSE shown[i - 1]
        <3> HIDE DEF n
        <3> QED
            BY <1>7
    <2>1. 0 \in G
        BY <1>2, <1>5, <2>0
    <2>2. ASSUME NEW i \in 1..n, i - 1 \in G
          PROVE  i \in G
        <3>1. i \in 0..n /\ i # 0 /\ shown[i - 1] = data[i - 1]
            BY <1>2, <2>2
        <3> HIDE DEF n
        <3> QED
            BY <1>5, <2>0, <3>1
    <2>3. \A i \in 0..n : i \in G
        <3> HIDE DEF G, n
        <3> QED
            BY <1>2, <2>1, <2>2, UpTo
    <2> QED
        BY <1>2, <2>3
<1>9. q.data = EventPayload(e)
    BY <1>1, <1>2, <1>4, <1>8 DEF data
<1>10. AlongEvent(f, e, usage, n) /\ f[n] \in Readers
    BY <1>1, <1>2, <1>3
<1>11. n = 0 <=> e = <<>>
    OBVIOUS
<1> QED
    BY <1>1, <1>2, <1>9, <1>10, <1>11 DEF AlongEvent, EventIsRead, q

\* A reader who reads a complete event takes from it what Turn takes.
LEMMA EventRead ==
    ASSUME NEW s \in Seq(Pieces), NoCrLf(s), NEW usage \in Usages \cup {None},
           NEW end, end = EventEnd(s), end # 0,
           NEW payload, payload = EventPayload(SubSeq(s, 1, end - 1))
    PROVE  /\ payload \in Seq(Pieces)
           /\ Extracted(payload, usage) \in Usages \cup {None}
           /\ payload # <<"list">>
                => Read(Clean(usage), s)
                     = Read(Clean(Extracted(payload, usage)), SubSeq(s, end + 2, Len(s)))
<1>1. /\ end \in 1..(Len(s) - 1) /\ BlankAt(s, end) /\ Len(s) \in Nat
      /\ \A i \in 1..(end - 1) : ~BlankAt(s, i)
    BY EventEndIs
<1> DEFINE e == SubSeq(s, 1, end - 1)
           rest == SubSeq(s, end + 2, Len(s))
           q == Read(Clean(usage), e)
<1>2. /\ e \in Seq(Pieces) /\ Len(e) = end - 1
      /\ \A i \in 1..(end - 1) : e[i] = s[i]
    BY <1>1
<1>3. rest \in Seq(Pieces)
    BY <1>1
<1>4. s = Append(Append(e, LF), LF) \o rest
    <2>1. Append(Append(e, LF), LF) \o rest \in Seq(Pieces)
        <3>1. LF \in Pieces
            BY DEF Pieces
        <3> HIDE DEF e, rest
        <3> QED
            BY <1>2, <1>3, <3>1
    <2>2. Len(rest) = Len(s) - end - 1 /\ \A i \in 1..Len(rest) : rest[i] = s[end + 1 + i]
        <3>1. end \in Nat /\ Len(s) \in Nat /\ end + 2 <= Len(s) + 1
            BY <1>1
        <3> DEFINE k == end + 2
        <3>2. k \in 1..(Len(s) + 1) /\ rest = SubSeq(s, k, Len(s))
            BY <3>1
        <3> HIDE DEF k, rest
        <3>3. Len(rest) = Len(s) - k + 1 /\ \A i \in 1..Len(rest) : rest[i] = s[k + i - 1]
            BY <3>1, <3>2
        <3>4. Len(rest) = Len(s) - end - 1
            BY <3>1, <3>3 DEF k
        <3>5. \A i \in 1..Len(rest) : k + i - 1 = end + 1 + i
            BY <3>1 DEF k
        <3> QED
            BY <3>3, <3>4, <3>5
    <2> DEFINE t == Append(Append(e, LF), LF) \o rest
    <2>3. Len(t) = Len(s)
        <3> HIDE DEF e, rest
        <3> QED
            BY <1>1, <1>2, <1>3, <2>2
    <2>4. ASSUME NEW i \in 1..Len(s)
          PROVE  t[i] = s[i]
        <3>1. CASE i <= end - 1
            <4> HIDE DEF e, rest
            <4>1. t[i] = e[i]
                BY <1>1, <1>2, <1>3, <3>1
            <4> QED
                BY <1>1, <1>2, <3>1, <4>1
        <3>2. CASE i = end \/ i = end + 1
            <4> HIDE DEF e, rest
            <4>1. t[i] = LF
                BY <1>1, <1>2, <1>3, <3>2
            <4> QED
                BY <1>1, <3>2, <4>1 DEF BlankAt
        <3>3. CASE i > end + 1
            <4> HIDE DEF e, rest
            <4>1. PICK j \in 1..Len(rest) : i = end + 1 + j
                <5>1. /\ Len(s) \in Nat /\ end \in 1..(Len(s) - 1) /\ i \in 1..Len(s)
                      /\ Len(rest) = Len(s) - end - 1
                    BY <1>1, <2>2
                <5>2. i - end - 1 \in 1..Len(rest)
                    BY <3>3, <5>1
                <5>3. i = end + 1 + (i - end - 1)
                    BY <5>1
                <5> QED
                    BY <5>2, <5>3
            <4>2. t[i] = rest[j]
                <5> DEFINE u == Append(Append(e, LF), LF)
                <5>1. u \in Seq(Pieces) /\ Len(u) = end + 1
                    <6>1. LF \in Pieces
                        BY DEF Pieces
                    <6> QED
                        BY <1>1, <1>2, <6>1
                <5> HIDE DEF u
                <5>2. (u \o rest)[Len(u) + j] = rest[j]
                    BY <1>3, <4>1, <5>1
                <5> QED
                    BY <4>1, <5>1, <5>2 DEF u
            <4>3. rest[j] = s[end + 1 + j]
                BY <2>2
            <4> QED
                BY <4>1, <4>2, <4>3
        <3>4. i <= end - 1 \/ i = end \/ i = end + 1 \/ i > end + 1
            BY <1>1
        <3> HIDE DEF t
        <3> QED
            BY <3>1, <3>2, <3>3, <3>4
    <2> HIDE DEF t
    <2> QED
        BY <2>1, <2>3, <2>4, SeqEqual DEF t
<1>5. NoCrLf(e) /\ \A i \in 1..(Len(e) - 1) : ~BlankAt(e, i)
    <2> HIDE DEF e
    <2>1. \A i \in 1..(Len(e) - 1) : /\ i \in 1..(Len(s) - 1) /\ i \in 1..(end - 1)
                                     /\ e[i] = s[i] /\ e[i + 1] = s[i + 1]
        BY <1>1, <1>2
    <2> QED
        BY <1>1, <2>1 DEF NoCrLf, BlankAt
<1>6. /\ q \in Readers /\ q.usage = usage /\ q.raised = FALSE /\ q.data = payload
      /\ q.line = "start" <=> e = <<>> \/ e[Len(e)] = LF
      /\ q.line = "cr" => e # <<>> /\ e[Len(e)] = CR
    <2> HIDE DEF e
    <2>1. payload = EventPayload(e)
        BY DEF e
    <2>2. q = Read(Clean(usage), e)
        OBVIOUS
    <2>3. EventIsRead(q, e, usage)
        BY <1>2, <1>5, <2>2, EventReads
    <2> HIDE DEF q
    <2> QED
        BY <2>1, <2>3 DEF EventIsRead
<1>7. payload \in Seq(Pieces)
    BY <1>6 DEF Readers
<1>8. Extracted(payload, usage) \in Usages \cup {None}
    <2>1. ASSUME NEW u \in Usages, payload = <<u>>
          PROVE  payload[1] \in Usages
        BY <2>1
    <2> QED
        BY <2>1 DEF Extracted
<1> HIDE DEF q
<1>9. ASSUME payload # <<"list">>
      PROVE  ReadPiece(ReadPiece(q, LF), LF) = Clean(Extracted(payload, usage))
    <2>0. LF \in Pieces
        BY DEF Pieces
    <2>1. q.line # "cr"
        <3>1. ASSUME e # <<>>
              PROVE  e[Len(e)] # CR
            <4>1. end - 1 \in 1..(Len(s) - 1) /\ end - 1 + 1 = end /\ e[Len(e)] = s[end - 1]
                <5> HIDE DEF e
                <5>1. Len(e) # 0
                    BY <1>2, <3>1
                <5> QED
                    BY <1>1, <1>2, <5>1
            <4> QED
                BY <1>1, <4>1 DEF NoCrLf, BlankAt
        <3> QED
            BY <1>6, <3>1
    <2>2. ASSUME NEW r \in Readers, r.usage = usage, r.raised = FALSE, r.data = payload
          PROVE  BlankLine(r) = Clean(Extracted(payload, usage))
        BY <1>9, <2>2 DEF BlankLine, Clean, Extracted
    <2>3. CASE q.line = "start"
        <3>1. e = <<>>
            <4>1. ASSUME e # <<>>
                  PROVE  FALSE
                <5>1. end - 1 \in 1..(end - 1) /\ end - 1 + 1 = end /\ e[Len(e)] = s[end - 1]
                    <6> HIDE DEF e
                    <6>1. Len(e) # 0
                        BY <1>2, <4>1
                    <6> QED
                        BY <1>1, <1>2, <6>1
                <5>2. e[Len(e)] = LF
                    BY <1>6, <2>3, <4>1
                <5> QED
                    BY <1>1, <5>1, <5>2 DEF BlankAt
            <4> QED
                BY <4>1
        <3>2. q = Clean(usage)
            <4>1. q = Read(Clean(usage), <<>>)
                BY <3>1 DEF q
            <4> QED
                BY <4>1, CleanType, ReadNothing
        <3>3. payload = <<>>
            BY <1>6, <3>2 DEF Clean
        <3>4. Extracted(payload, usage) = usage
            BY <3>3 DEF Extracted
        <3>5. ReadPiece(q, LF) = Clean(usage)
            BY <1>6, <2>0, <2>2, <2>3, <3>4, ReadPieceIs
        <3> QED
            BY <3>2, <3>5, <3>4
    <2>4. CASE q.line \in {"data", "other"}
        <3> DEFINE r == ReadPiece(q, LF)
        <3>1. r = [q EXCEPT !.line = "start"]
            BY <1>6, <2>0, <2>4, ReadPieceIs
        <3>2. /\ r \in Readers /\ r.line = "start" /\ r.usage = usage /\ r.raised = FALSE
              /\ r.data = payload
            BY <1>6, <3>1 DEF Readers
        <3> HIDE DEF r
        <3>3. ReadPiece(r, LF) = BlankLine(r)
            BY <2>0, <3>2, ReadPieceIs
        <3> QED
            BY <2>2, <3>2, <3>3 DEF r
    <2> QED
        BY <1>6, <2>1, <2>3, <2>4 DEF Readers
<1>10. Read(Clean(usage), Append(Append(e, LF), LF)) = ReadPiece(ReadPiece(q, LF), LF)
    <2>1. LF \in Pieces /\ Append(e, LF) \in Seq(Pieces)
        <3>1. LF \in Pieces
            BY DEF Pieces
        <3> HIDE DEF e
        <3> QED
            BY <1>2, <3>1
    <2> HIDE DEF e
    <2> QED
        BY <1>2, <2>1, CleanType, ReadAppend DEF q
<1>11. ASSUME payload # <<"list">>
       PROVE  Read(Clean(usage), s) = Read(Clean(Extracted(payload, usage)), rest)
    <2>1. LF \in Pieces
        BY DEF Pieces
    <2> DEFINE t == Append(Append(e, LF), LF)
    <2>2. t \in Seq(Pieces)
        <3> HIDE DEF e
        <3> QED
            BY <1>2, <2>1
    <2>3. s = t \o rest /\ Read(Clean(usage), t) = Clean(Extracted(payload, usage))
        BY <1>4, <1>9, <1>10, <1>11
    <2> HIDE DEF t, rest, e
    <2> QED
        BY <1>3, <2>2, <2>3, CleanType, ReadConcat
<1> QED
    BY <1>7, <1>8, <1>11

-----------------------------------------------------------------------------
(* Searching the buffer.                                                    *)

Drains == [rest : Seq(Pieces), usage : Usages \cup {None}, raised : BOOLEAN]

\* The end of a text, from place k on.
LEMMA RestShape ==
    ASSUME NEW s \in Seq(Pieces), NEW k \in 1..(Len(s) + 1)
    PROVE  LET r == SubSeq(s, k, Len(s))
           IN  /\ r \in Seq(Pieces) /\ Len(r) = Len(s) - k + 1
               /\ NoCrLf(s) => NoCrLf(r)
               /\ \A m \in 1..2 : EndsInCr(r, m) => EndsInCr(s, m)
<1> DEFINE r == SubSeq(s, k, Len(s))
<1>1. /\ Len(s) \in Nat /\ r \in Seq(Pieces) /\ Len(r) = Len(s) - k + 1
      /\ \A i \in 1..Len(r) : r[i] = s[k + i - 1]
    OBVIOUS
<1> HIDE DEF r
<1>2. ASSUME NoCrLf(s)
      PROVE  NoCrLf(r)
    <2>1. ASSUME NEW i \in 1..(Len(r) - 1)
          PROVE  ~ (r[i] = CR /\ r[i + 1] = LF)
        <3>1. /\ k + i - 1 \in 1..(Len(s) - 1) /\ k + i - 1 + 1 = k + (i + 1) - 1
              /\ i \in 1..Len(r) /\ i + 1 \in 1..Len(r)
            BY <1>1
        <3>2. r[i] = s[k + i - 1] /\ r[i + 1] = s[k + i - 1 + 1]
            BY <1>1, <3>1
        <3> QED
            BY <1>2, <3>1, <3>2 DEF NoCrLf
    <2> QED
        BY <2>1 DEF NoCrLf
<1>3. ASSUME NEW m \in 1..2, EndsInCr(r, m)
      PROVE  EndsInCr(s, m)
    <2>1. m <= Len(r) /\ \A i \in (Len(r) - m + 1)..Len(r) : r[i] = CR
        BY <1>3 DEF EndsInCr
    <2>2. m <= Len(s)
        BY <1>1, <2>1
    <2>3. ASSUME NEW j \in (Len(s) - m + 1)..Len(s)
          PROVE  s[j] = CR
        <3>1. /\ j - k + 1 \in (Len(r) - m + 1)..Len(r) /\ j - k + 1 \in 1..Len(r)
              /\ k + (j - k + 1) - 1 = j
            BY <1>1, <2>1
        <3>2. r[j - k + 1] = s[k + (j - k + 1) - 1]
            BY <1>1, <3>1
        <3>3. r[j - k + 1] = CR
            BY <2>1, <3>1
        <3> QED
            BY <3>1, <3>2, <3>3
    <2> QED
        BY <2>2, <2>3 DEF EndsInCr
<1> QED
    BY <1>1, <1>2, <1>3 DEF r

\* Only usage is extracted.
LEMMA ExtractedType ==
    ASSUME NEW payload, NEW usage \in Usages \cup {None}
    PROVE  /\ Extracted(payload, usage) \in Usages \cup {None}
           /\ Extracted(payload, usage) \in Usages \cup {usage}
<1>1. ASSUME NEW u \in Usages, payload = <<u>>
      PROVE  payload[1] \in Usages
    BY <1>1
<1> QED
    BY <1>1 DEF Extracted

\* d2 is what a search may make of d1: a rest of it, that says the same to a
\* reader.
Searched(d1, d2) ==
    /\ d2 \in Drains
    /\ Len(d2.rest) <= Len(d1.rest)
    /\ \E f : Remains(f, d2.rest, d1.rest)
    /\ d2.usage \in Usages \cup {d1.usage}
    /\ NoCrLf(d1.rest) => NoCrLf(d2.rest)
    /\ \A m \in 1..2 : EndsInCr(d2.rest, m) => EndsInCr(d1.rest, m)
    /\ NoCrLf(d1.rest) /\ ~d2.raised
         => Read(Clean(d2.usage), d2.rest) = Read(Clean(d1.usage), d1.rest)
    /\ d1.raised => d2.raised

\* One turn of the loop.
LEMMA TurnSearches ==
    ASSUME NEW d \in Drains
    PROVE  /\ Searched(d, Turn(d))
           /\ d.raised \/ EventEnd(d.rest) = 0 => Turn(d) = d
           /\ d.raised \/ EventEnd(d.rest) = 0
                \/ Turn(d).raised \/ Len(Turn(d).rest) < Len(d.rest)
<1> DEFINE s == d.rest
           end == EventEnd(s)
           payload == EventPayload(SubSeq(s, 1, end - 1))
<1>1. s \in Seq(Pieces) /\ d.usage \in Usages \cup {None} /\ d.raised \in BOOLEAN /\ Len(s) \in Nat
    BY DEF Drains
<1>0. \E f : Remains(f, s, s)
    <2> HIDE DEF s
    <2> QED
        BY <1>1, AllRemains
<1>2. CASE d.raised \/ end = 0
    <2>1. Turn(d) = d
        BY <1>2 DEF Turn
    <2>2. Searched(d, d)
        BY <1>0, <1>1 DEF Searched
    <2> QED
        BY <1>2, <2>1, <2>2
<1>3. CASE ~d.raised /\ end # 0 /\ payload = <<"list">>
    <2>1. Turn(d) = [d EXCEPT !.raised = TRUE]
        BY <1>3 DEF Turn
    <2>2. /\ Turn(d) \in Drains /\ Turn(d).rest = d.rest /\ Turn(d).usage = d.usage
          /\ Turn(d).raised
        BY <2>1 DEF Drains
    <2>3. Searched(d, Turn(d))
        BY <1>0, <1>1, <2>2 DEF Searched
    <2> QED
        BY <1>3, <2>2, <2>3
<1>4. CASE ~d.raised /\ end # 0 /\ payload # <<"list">>
    <2> DEFINE r == SubSeq(s, end + 2, Len(s))
               usage == Extracted(payload, d.usage)
    <2>1. Turn(d) = [d EXCEPT !.rest = r, !.usage = usage]
        BY <1>4 DEF Turn
    <2>2. end \in 1..(Len(s) - 1)
        <3> HIDE DEF s
        <3> QED
            BY <1>1, <1>4, EventEndIs
    <2>3. /\ r \in Seq(Pieces) /\ Len(r) = Len(s) - (end + 2) + 1
          /\ \E f : Remains(f, r, s)
          /\ NoCrLf(s) => NoCrLf(r)
          /\ \A m \in 1..2 : EndsInCr(r, m) => EndsInCr(s, m)
        <3>1. end + 2 \in 1..(Len(s) + 1)
            <4> HIDE DEF s, end
            <4> QED
                BY <1>1, <2>2
        <3> DEFINE k == end + 2
        <3>2. k \in 1..(Len(s) + 1) /\ r = SubSeq(s, k, Len(s))
            BY <3>1
        <3> HIDE DEF s, k, r
        <3>3. /\ r \in Seq(Pieces) /\ Len(r) = Len(s) - k + 1
              /\ \E f : Remains(f, r, s)
              /\ NoCrLf(s) => NoCrLf(r)
              /\ \A m \in 1..2 : EndsInCr(r, m) => EndsInCr(s, m)
            BY <1>1, <3>2, RestShape, RestRemains
        <3> QED
            BY <3>3 DEF k
    <2>4. usage \in Usages \cup {None} /\ usage \in Usages \cup {d.usage}
        <3> HIDE DEF payload
        <3> QED
            BY <1>1, ExtractedType
    <2>5. NoCrLf(s) => Read(Clean(d.usage), s) = Read(Clean(usage), r)
        <3> HIDE DEF s
        <3> QED
            BY <1>1, <1>4, EventRead
    <2>6. Turn(d).rest = r /\ Turn(d).usage = usage /\ Turn(d).raised = FALSE /\ Turn(d) \in Drains
        <3> HIDE DEF r, usage
        <3> QED
            BY <1>1, <1>4, <2>1, <2>3, <2>4 DEF Drains
    <2>7. Len(r) < Len(s)
        <3> HIDE DEF r, s, end
        <3> QED
            BY <1>1, <2>2, <2>3
    <2>8. Searched(d, Turn(d))
        <3>1. d.rest = s
            OBVIOUS
        <3> HIDE DEF r, usage, s, end
        <3>2. Len(r) <= Len(s)
            BY <1>1, <2>2, <2>3
        <3> QED
            BY <1>4, <2>3, <2>4, <2>5, <2>6, <3>1, <3>2 DEF Searched
    <2>9. Len(Turn(d).rest) < Len(d.rest)
        <3> HIDE DEF r
        <3> QED
            BY <2>6, <2>7
    <2>10. ~ (d.raised \/ EventEnd(d.rest) = 0)
        BY <1>4
    <2> QED
        BY <2>8, <2>9, <2>10
<1> QED
    BY <1>2, <1>3, <1>4

\* One search after another.
LEMMA SearchedOn ==
    ASSUME NEW d1 \in Drains, NEW d2, NEW d3, Searched(d1, d2), Searched(d2, d3)
    PROVE  Searched(d1, d3)
<1>1. /\ d2 \in Drains /\ d3 \in Drains
      /\ Len(d1.rest) \in Nat /\ Len(d2.rest) \in Nat /\ Len(d3.rest) \in Nat
    BY DEF Searched, Drains
<1>2. Len(d3.rest) <= Len(d1.rest)
    BY <1>1 DEF Searched
<1>3. \E f : Remains(f, d3.rest, d1.rest)
    <2>1. d1.rest \in Seq(Pieces) /\ d2.rest \in Seq(Pieces) /\ d3.rest \in Seq(Pieces)
        BY <1>1 DEF Drains
    <2>2. PICK f : Remains(f, d3.rest, d2.rest)
        BY DEF Searched
    <2>3. PICK g : Remains(g, d2.rest, d1.rest)
        BY DEF Searched
    <2> QED
        BY <2>1, <2>2, <2>3, RemainsTwice
<1> QED
    BY <1>2, <1>3 DEF Searched

\* The whole loop: no event is left, unless the extractor has raised.
LEMMA DrainedIs ==
    ASSUME NEW text \in Seq(Pieces), NEW latest \in Usages \cup {None}
    PROVE  LET d == Drained(text, latest)
           IN  /\ Searched([rest |-> text, usage |-> latest, raised |-> FALSE], d)
               /\ ~d.raised => EventEnd(d.rest) = 0
<1> DEFINE n == Len(text)
           d0 == [rest |-> text, usage |-> latest, raised |-> FALSE]
           Eq(f) == f = [i \in 0..n |-> IF i = 0 THEN d0 ELSE Turn(f[i - 1])]
           g == [p \in (1..n) \X Drains |-> Turn(p[2])]
           turn == CHOOSE f : Eq(f)
<1>1. n \in Nat /\ d0 \in Drains
    BY DEF Drains
<1>2. g \in [(1..n) \X Drains -> Drains]
    <2>1. ASSUME NEW p \in (1..n) \X Drains
          PROVE  Turn(p[2]) \in Drains
        BY TurnSearches DEF Searched
    <2> HIDE DEF n
    <2> QED
        BY <2>1
<1> HIDE DEF d0
<1>3. PICK f : Stepwise(f, n, Drains, d0, g)
    <2> HIDE DEF g, n
    <2> QED
        BY <1>1, <1>2, StepwiseExists
<1>4. Eq(f)
    <2>1. ASSUME NEW i \in 1..n
          PROVE  f[i] = Turn(f[i - 1])
        <3>1. f[i] = g[<<i, f[i - 1]>>]
            BY <1>3 DEF Stepwise
        <3>2. i - 1 \in 0..n
            BY <1>1
        <3>3. f[i - 1] \in Drains
            BY <1>3, <3>2 DEF Stepwise
        <3>4. <<i, f[i - 1]>> \in (1..n) \X Drains
            BY <3>3
        <3> HIDE DEF n
        <3> QED
            BY <3>1, <3>4
    <2>2. DOMAIN f = 0..n /\ f = [i \in 0..n |-> f[i]] /\ f[0] = d0
        BY <1>3 DEF Stepwise
    <2>3. \A i \in 0..n : i # 0 => i \in 1..n
        BY <1>1
    <2> HIDE DEF n
    <2>4. \A i \in 0..n : f[i] = IF i = 0 THEN d0 ELSE Turn(f[i - 1])
        BY <2>1, <2>2, <2>3
    <2> QED
        BY <2>2, <2>4
<1>5. Eq(turn)
    <2> HIDE DEF Eq
    <2> QED
        BY <1>4
<1>6. Drained(text, latest) = turn[n]
    BY DEF Drained, d0
<1> HIDE DEF turn
<1>7. \A i \in 0..n : turn[i] = IF i = 0 THEN d0 ELSE Turn(turn[i - 1])
    <2> HIDE DEF n
    <2> QED
        BY <1>5
<1> DEFINE Left(i) == /\ Searched(d0, turn[i])
                      /\ \/ turn[i].raised \/ EventEnd(turn[i].rest) = 0
                         \/ Len(turn[i].rest) <= n - i
           G == {i \in 0..n : Left(i)}
<1>8. 0 \in G
    <2>1. turn[0] = d0 /\ 0 \in 0..n
        BY <1>1, <1>7
    <2>2. Searched(d0, d0)
        <3>1. \E h : Remains(h, d0.rest, d0.rest)
            BY <1>1, AllRemains DEF Drains
        <3> QED
            BY <1>1, <3>1 DEF Searched, Drains
    <2>3. Len(d0.rest) <= n - 0
        BY <1>1 DEF d0
    <2> QED
        BY <2>1, <2>2, <2>3
<1>9. ASSUME NEW i \in 1..n, i - 1 \in G
      PROVE  i \in G
    <2> DEFINE t == turn[i - 1]
    <2>1. /\ Searched(d0, t)
          /\ t.raised \/ EventEnd(t.rest) = 0 \/ Len(t.rest) <= n - (i - 1)
        <3> HIDE DEF n
        <3> QED
            BY <1>9
    <2>2. turn[i] = Turn(t) /\ i \in 0..n
        BY <1>1, <1>7
    <2>3. t \in Drains
        <3> HIDE DEF t
        <3> QED
            BY <2>1 DEF Searched
    <2> HIDE DEF t, turn, n
    <2>4. Searched(t, Turn(t))
        BY <2>3, TurnSearches
    <2>5. Searched(d0, Turn(t))
        BY <1>1, <2>1, <2>4, SearchedOn
    <2>6. \/ Turn(t).raised \/ EventEnd(Turn(t).rest) = 0
          \/ Len(Turn(t).rest) <= n - i
        <3>1. CASE t.raised \/ EventEnd(t.rest) = 0
            <4>1. Turn(t) = t
                BY <2>3, <3>1, TurnSearches
            <4> QED
                BY <3>1, <4>1
        <3>2. CASE ~ (t.raised \/ EventEnd(t.rest) = 0)
            <4>1. Turn(t).raised \/ Len(Turn(t).rest) < Len(t.rest)
                BY <2>3, <3>2, TurnSearches
            <4>2. Turn(t) \in Drains
                BY <2>4 DEF Searched
            <4>3. Len(Turn(t).rest) \in Nat /\ Len(t.rest) \in Nat
                BY <2>3, <4>2 DEF Drains
            <4>4. Len(t.rest) <= n - (i - 1)
                BY <2>1, <3>2
            <4> QED
                BY <1>1, <4>1, <4>3, <4>4
        <3> QED
            BY <3>1, <3>2
    <2> QED
        BY <2>2, <2>5, <2>6
<1>10. Left(n)
    <2>1. \A i \in 0..n : i \in G
        <3> HIDE DEF G, n
        <3> QED
            BY <1>1, <1>8, <1>9, UpTo
    <2> QED
        BY <1>1, <2>1
<1>11. ASSUME ~turn[n].raised
       PROVE  EventEnd(turn[n].rest) = 0
    <2>1. CASE EventEnd(turn[n].rest) = 0
        BY <2>1
    <2>2. CASE Len(turn[n].rest) <= n - n
        <3>1. turn[n].rest \in Seq(Pieces)
            <4>1. turn[n] \in Drains
                BY <1>10 DEF Searched
            <4> QED
                BY <4>1 DEF Drains
        <3> DEFINE r == turn[n].rest
        <3> HIDE DEF r
        <3>2. r \in Seq(Pieces) /\ Len(r) = 0
            <4>1. n - n = 0
                BY <1>1
            <4> QED
                BY <2>2, <3>1, <4>1 DEF r
        <3>3. EventEnd(r) = 0
            <4>1. EventEnd(r) # 0 => EventEnd(r) \in 1..(Len(r) - 1)
                BY <3>2, EventEndIs
            <4>2. \A j \in 1..(Len(r) - 1) : FALSE
                BY <3>2
            <4> QED
                BY <4>1, <4>2
        <3> QED
            BY <3>3 DEF r
    <2> QED
        BY <1>10, <1>11, <2>1, <2>2
<1> QED
    BY <1>6, <1>10, <1>11 DEF d0

-----------------------------------------------------------------------------
(* The invariant.                                                           *)

\* What the decoder has let through: all that has arrived, but for an
\* incomplete character.
Fed == SubSeq(stream, 1, IF DecoderHolds THEN taken - 1 ELSE taken)

\* To a reader, what is kept of a text says the same as the text.
SaysTheSame(buffer, usage, text) ==
    /\ NoCrLf(buffer)
    /\ \A m \in 1..2 : EndsInCr(buffer, m) => EndsInCr(text, m)
    /\ Read(Clean(usage), buffer) = Read(Fresh, text)

Types ==
    /\ stream \in Seq(Pieces) /\ taken \in 0..Len(stream)
    /\ decode_buffer \in Seq(Pieces)
    /\ latest_usage \in Usages \cup {None}
    /\ parsing_enabled \in BOOLEAN

BufferFollowsText ==
    parsing_enabled /\ outcome # "broken" /\ Regular(Fed)
        => SaysTheSame(decode_buffer, latest_usage, Fed)

SseInv == Types /\ BufferBounded /\ BufferFollowsText

\* EndsInCr for one and for two CR.
LEMMA EndsInCrIs ==
    ASSUME NEW s \in Seq(Pieces)
    PROVE  /\ EndsInCr(s, 1) <=> 1 <= Len(s) /\ s[Len(s)] = CR
           /\ EndsInCr(s, 2) <=> 2 <= Len(s) /\ s[Len(s)] = CR /\ s[Len(s) - 1] = CR
<1>1. Len(s) \in Nat
    OBVIOUS
<1>2. \A i \in (Len(s) - 1 + 1)..Len(s) : i = Len(s)
    BY <1>1
<1>3. Len(s) \in (Len(s) - 1 + 1)..Len(s)
    BY <1>1
<1>4. \A i \in (Len(s) - 2 + 1)..Len(s) : i = Len(s) \/ i = Len(s) - 1
    BY <1>1
<1>5. Len(s) \in (Len(s) - 2 + 1)..Len(s) /\ Len(s) - 1 \in (Len(s) - 2 + 1)..Len(s)
    BY <1>1
<1>6. EndsInCr(s, 1) <=> 1 <= Len(s) /\ s[Len(s)] = CR
    BY <1>2, <1>3 DEF EndsInCr
<1>7. EndsInCr(s, 2) <=> 2 <= Len(s) /\ s[Len(s)] = CR /\ s[Len(s) - 1] = CR
    BY <1>4, <1>5 DEF EndsInCr
<1> QED
    BY <1>6, <1>7

\* A new fragment is as regular after the buffer as after the text.
LEMMA FragmentRegular ==
    ASSUME NEW b \in Seq(Pieces), NEW t \in Seq(Pieces), NEW frag \in Seq(Pieces),
           NoCrLf(b), \A m \in 1..2 : EndsInCr(b, m) => EndsInCr(t, m),
           Regular(t \o frag)
    PROVE  /\ Regular(b \o frag)
           /\ \A m \in 1..2 : EndsInCr(b \o frag, m) => EndsInCr(t \o frag, m)
<1> DEFINE x == b \o frag
           y == t \o frag
<1>1. /\ Len(b) \in Nat /\ Len(t) \in Nat /\ Len(frag) \in Nat
      /\ x \in Seq(Pieces) /\ Len(x) = Len(b) + Len(frag)
      /\ y \in Seq(Pieces) /\ Len(y) = Len(t) + Len(frag)
      /\ \A i \in 1..Len(b) : x[i] = b[i]
      /\ \A i \in 1..Len(t) : y[i] = t[i]
      /\ \A i \in 1..Len(frag) : x[Len(b) + i] = frag[i] /\ y[Len(t) + i] = frag[i]
    OBVIOUS
<1>2. CR # LF
    BY DEF CR, LF
<1> HIDE DEF x, y
<1>3. EndsInCr(b, 1) => Len(t) >= 1 /\ y[Len(t)] = CR
    <2>1. EndsInCr(b, 1) => Len(t) >= 1 /\ t[Len(t)] = CR
        BY <1>1, EndsInCrIs
    <2>2. Len(t) >= 1 => y[Len(t)] = t[Len(t)]
        BY <1>1
    <2> QED
        BY <2>1, <2>2
<1>4. EndsInCr(b, 2) => Len(t) >= 2 /\ y[Len(t)] = CR /\ y[Len(t) - 1] = CR
    <2>1. EndsInCr(b, 2) => Len(t) >= 2 /\ t[Len(t)] = CR /\ t[Len(t) - 1] = CR
        BY <1>1, EndsInCrIs
    <2>2. Len(t) >= 2 => Len(t) \in 1..Len(t) /\ Len(t) - 1 \in 1..Len(t)
        BY <1>1
    <2>3. Len(t) >= 2 => y[Len(t)] = t[Len(t)] /\ y[Len(t) - 1] = t[Len(t) - 1]
        BY <1>1, <2>2
    <2> QED
        BY <2>1, <2>3
<1>5. ASSUME NEW i \in 1..(Len(x) - 2), x[i] = CR, x[i + 1] = CR, x[i + 2] = LF
      PROVE  FALSE
    <2>1. CASE i + 2 <= Len(b)
        <3>1. i + 1 \in 1..(Len(b) - 1) /\ i + 1 + 1 = i + 2
            BY <1>1, <2>1
        <3>2. b[i + 1] = CR /\ b[i + 2] = LF
            <4>1. i + 1 \in 1..Len(b) /\ i + 2 \in 1..Len(b)
                BY <1>1, <2>1
            <4>2. b[i + 1] = x[i + 1] /\ b[i + 2] = x[i + 2]
                BY <1>1, <4>1
            <4> QED
                BY <1>5, <4>2
        <3> QED
            BY <3>1, <3>2 DEF NoCrLf
    <2>2. CASE i + 1 = Len(b)
        <3>1. EndsInCr(b, 2)
            <4>1. b[i] = CR /\ b[i + 1] = CR
                <5>1. i \in 1..Len(b) /\ i + 1 \in 1..Len(b)
                    BY <1>1, <2>2
                <5>2. x[i] = b[i] /\ x[i + 1] = b[i + 1]
                    BY <1>1, <5>1
                <5> QED
                    BY <1>5, <5>2
            <4>2. \A j \in (Len(b) - 2 + 1)..Len(b) : j = i \/ j = i + 1
                BY <1>1, <2>2
            <4>3. 2 <= Len(b)
                BY <1>1, <2>2
            <4> QED
                BY <4>1, <4>2, <4>3 DEF EndsInCr
        <3>2. frag[1] = LF /\ 1 \in 1..Len(frag)
            BY <1>1, <1>5, <2>2
        <3>3. y[Len(t) + 1] = LF
            BY <1>1, <3>2
        <3>4. Len(t) - 1 \in 1..(Len(y) - 2) /\ Len(t) - 1 + 1 = Len(t) /\ Len(t) - 1 + 2 = Len(t) + 1
            BY <1>1, <1>4, <3>1, <3>2
        <3> QED
            BY <1>4, <3>1, <3>3, <3>4 DEF Regular, y
    <2>3. CASE i = Len(b)
        <3>1. EndsInCr(b, 1)
            <4>1. b[i] = CR
                BY <1>1, <1>5, <2>3
            <4>2. \A j \in (Len(b) - 1 + 1)..Len(b) : j = i
                BY <1>1, <2>3
            <4>3. 1 <= Len(b)
                BY <1>1, <2>3
            <4> QED
                BY <4>1, <4>2, <4>3 DEF EndsInCr
        <3>2. frag[1] = CR /\ frag[2] = LF /\ 1 \in 1..Len(frag) /\ 2 \in 1..Len(frag)
            BY <1>1, <1>5, <2>3
        <3>3. y[Len(t) + 1] = CR /\ y[Len(t) + 2] = LF
            BY <1>1, <3>2
        <3>4. Len(t) \in 1..(Len(y) - 2)
            BY <1>1, <1>3, <3>1, <3>2
        <3> QED
            BY <1>3, <3>1, <3>3, <3>4 DEF Regular, y
    <2>4. CASE i > Len(b)
        <3>1. PICK j \in 1..(Len(frag) - 2) : i = Len(b) + j
            <4>1. i - Len(b) \in 1..(Len(frag) - 2) /\ i = Len(b) + (i - Len(b))
                BY <1>1, <2>4
            <4> QED
                BY <4>1
        <3>2. /\ j \in 1..Len(frag) /\ j + 1 \in 1..Len(frag) /\ j + 2 \in 1..Len(frag)
              /\ Len(b) + (j + 1) = i + 1 /\ Len(b) + (j + 2) = i + 2
              /\ Len(t) + (j + 1) = Len(t) + j + 1 /\ Len(t) + (j + 2) = Len(t) + j + 2
            BY <1>1, <3>1
        <3>5. /\ x[i] = y[Len(t) + j] /\ x[i + 1] = y[Len(t) + (j + 1)]
              /\ x[i + 2] = y[Len(t) + (j + 2)]
            <4>1. x[i] = frag[j] /\ y[Len(t) + j] = frag[j]
                BY <1>1, <3>1, <3>2
            <4>2. x[Len(b) + (j + 1)] = frag[j + 1] /\ y[Len(t) + (j + 1)] = frag[j + 1]
                BY <1>1, <3>2
            <4>3. x[Len(b) + (j + 2)] = frag[j + 2] /\ y[Len(t) + (j + 2)] = frag[j + 2]
                BY <1>1, <3>2
            <4> QED
                BY <3>2, <4>1, <4>2, <4>3
        <3>3. y[Len(t) + j] = CR /\ y[Len(t) + j + 1] = CR /\ y[Len(t) + j + 2] = LF
            BY <1>5, <3>2, <3>5
        <3>4. Len(t) + j \in 1..(Len(y) - 2)
            BY <1>1, <3>1
        <3> QED
            BY <3>3, <3>4 DEF Regular, y
    <2> QED
        BY <1>1, <2>1, <2>2, <2>3, <2>4
<1>6. Regular(x)
    BY <1>5 DEF Regular
<1>7. /\ Len(b) \in Nat /\ Len(t) \in Nat /\ Len(frag) \in Nat
      /\ x \in Seq(Pieces) /\ Len(x) = Len(b) + Len(frag)
      /\ y \in Seq(Pieces) /\ Len(y) = Len(t) + Len(frag)
    BY <1>1
<1>8. ASSUME EndsInCr(x, 1)
      PROVE  EndsInCr(y, 1)
    <2>1. 1 <= Len(x) /\ x[Len(x)] = CR
        BY <1>8, <1>7, EndsInCrIs
    <2>2. CASE Len(frag) = 0
        <3>1. EndsInCr(b, 1)
            BY <1>1, <2>1, <2>2 DEF EndsInCr
        <3> QED
            BY <1>1, <1>3, <2>2, <3>1 DEF EndsInCr
    <2>3. CASE Len(frag) > 0
        <3>1. /\ Len(frag) \in 1..Len(frag) /\ Len(y) >= 1
              /\ Len(x) = Len(b) + Len(frag) /\ Len(y) = Len(t) + Len(frag)
            BY <1>7, <2>3
        <3>2. x[Len(x)] = frag[Len(frag)] /\ y[Len(y)] = frag[Len(frag)]
            BY <1>1, <3>1
        <3> QED
            BY <1>7, <2>1, <3>1, <3>2, EndsInCrIs
    <2> QED
        BY <1>1, <2>2, <2>3
<1>9. ASSUME EndsInCr(x, 2)
      PROVE  EndsInCr(y, 2)
    <2>1. 2 <= Len(x) /\ x[Len(x)] = CR /\ x[Len(x) - 1] = CR
        BY <1>9, <1>7, EndsInCrIs
    <2>2. Len(y) >= 2 /\ y[Len(y)] = CR /\ y[Len(y) - 1] = CR
        <3>1. CASE Len(frag) = 0
            <4>0. /\ Len(x) = Len(b) /\ Len(y) = Len(t) /\ 2 <= Len(b)
                  /\ Len(b) \in 1..Len(b) /\ Len(b) - 1 \in 1..Len(b)
                BY <1>1, <2>1, <3>1
            <4>1. b[Len(b)] = CR /\ b[Len(b) - 1] = CR
                BY <1>1, <2>1, <4>0
            <4>2. EndsInCr(b, 2)
                BY <4>0, <4>1, EndsInCrIs
            <4> QED
                BY <1>4, <4>0, <4>2
        <3>2. CASE Len(frag) = 1
            <4>1. Len(b) >= 1 /\ b[Len(b)] = CR
                <5>1. Len(x) - 1 = Len(b) /\ Len(b) >= 1 /\ Len(b) \in 1..Len(b)
                    BY <1>1, <2>1, <3>2
                <5>2. x[Len(b)] = b[Len(b)]
                    BY <1>1, <5>1
                <5> QED
                    BY <2>1, <5>1, <5>2
            <4>2. Len(t) >= 1 /\ y[Len(t)] = CR
                BY <1>3, <4>1, EndsInCrIs
            <4>3. y[Len(y)] = CR
                <5>1. Len(x) = Len(b) + 1 /\ Len(y) = Len(t) + 1 /\ 1 \in 1..Len(frag)
                    BY <1>1, <3>2
                <5>2. x[Len(b) + 1] = frag[1] /\ y[Len(t) + 1] = frag[1]
                    BY <1>1, <5>1
                <5> QED
                    BY <2>1, <5>1, <5>2
            <4>4. Len(y) - 1 = Len(t) /\ Len(y) >= 2
                BY <1>1, <3>2, <4>2
            <4> QED
                BY <4>2, <4>3, <4>4
        <3>3. CASE Len(frag) > 1
            <4>1. y[Len(y)] = CR
                <5>1. /\ Len(frag) \in 1..Len(frag)
                      /\ Len(x) = Len(b) + Len(frag) /\ Len(y) = Len(t) + Len(frag)
                    BY <1>7, <3>3
                <5>2. x[Len(x)] = frag[Len(frag)] /\ y[Len(y)] = frag[Len(frag)]
                    BY <1>1, <5>1
                <5> QED
                    BY <2>1, <5>2
            <4>2. Len(frag) - 1 \in 1..Len(frag) /\ Len(b) + (Len(frag) - 1) = Len(x) - 1
                  /\ Len(t) + (Len(frag) - 1) = Len(y) - 1 /\ Len(y) >= 2
                BY <1>1, <3>3
            <4>3. x[Len(x) - 1] = frag[Len(frag) - 1] /\ y[Len(y) - 1] = frag[Len(frag) - 1]
                BY <1>1, <4>2
            <4> QED
                BY <2>1, <4>1, <4>2, <4>3
        <3>4. Len(frag) = 0 \/ Len(frag) = 1 \/ Len(frag) > 1
            <4> DEFINE k == Len(frag)
            <4>1. k \in Nat
                BY <1>1
            <4> HIDE DEF k
            <4>2. k = 0 \/ k = 1 \/ k > 1
                BY <4>1
            <4> QED
                BY <4>2 DEF k
        <3> QED
            BY <3>1, <3>2, <3>3, <3>4
    <2> QED
        BY <1>7, <2>2, EndsInCrIs
<1> QED
    BY <1>6, <1>8, <1>9 DEF x, y

\* A part of a regular text is regular.
LEMMA PrefixRegular ==
    ASSUME NEW t \in Seq(Pieces), NEW frag \in Seq(Pieces), Regular(t \o frag)
    PROVE  Regular(t)
<1> DEFINE y == t \o frag
<1>1. /\ Len(t) \in Nat /\ Len(frag) \in Nat /\ Len(y) = Len(t) + Len(frag)
      /\ \A i \in 1..Len(t) : y[i] = t[i]
    OBVIOUS
<1>2. Regular(y)
    OBVIOUS
<1> HIDE DEF y
<1>3. ASSUME NEW i \in 1..(Len(t) - 2)
      PROVE  ~ (t[i] = CR /\ t[i + 1] = CR /\ t[i + 2] = LF)
    <2>1. /\ i \in 1..(Len(y) - 2)
          /\ i \in 1..Len(t) /\ i + 1 \in 1..Len(t) /\ i + 2 \in 1..Len(t)
        BY <1>1
    <2>2. y[i] = t[i] /\ y[i + 1] = t[i + 1] /\ y[i + 2] = t[i + 2]
        BY <1>1, <2>1
    <2> QED
        BY <1>2, <2>1, <2>2 DEF Regular
<1> QED
    BY <1>3 DEF Regular

\* A search of the buffer with a new fragment keeps to the text with the fragment.
LEMMA ConsumeKeeps ==
    ASSUME Types, BufferBounded, NEW text \in Seq(Pieces),
           Regular(text) => SaysTheSame(decode_buffer, latest_usage, text),
           NEW fragment \in Seq(Pieces), NEW next, Consume(fragment, next)
    PROVE  /\ decode_buffer' \in Seq(Pieces) /\ latest_usage' \in Usages \cup {None}
           /\ BufferBounded'
           /\ outcome' # "broken" /\ Regular(text \o fragment)
                => SaysTheSame(decode_buffer', latest_usage', text \o fragment)
<1> DEFINE x == decode_buffer \o fragment
           all == Buffered(fragment)
           d == Drained(all, latest_usage)
           d0 == [rest |-> all, usage |-> latest_usage, raised |-> FALSE]
<1>1. x \in Seq(Pieces) /\ all = Normalized(x)
    BY DEF Types, Buffered
<1>2. all \in Seq(Pieces)
    <2> HIDE DEF x, all
    <2>1. PICK f \in [0..Len(x) -> Seq(Pieces)] : IsKept(f, x) /\ Normalized(x) = f[Len(x)]
        BY <1>1, NormalizedIs
    <2>2. Len(x) \in 0..Len(x)
        BY <1>1
    <2> QED
        BY <1>1, <2>1, <2>2
<1>3. Searched(d0, d) /\ (~d.raised => EventEnd(d.rest) = 0)
    <2> HIDE DEF all
    <2> QED
        BY <1>2, DrainedIs DEF Types
<1>4. /\ Len(all) <= MaxBufferBytes /\ Len(all) \in Nat
      /\ d.raised => /\ outcome' = "broken"
                     /\ decode_buffer' = decode_buffer /\ latest_usage' = latest_usage
      /\ ~d.raised => decode_buffer' = d.rest /\ latest_usage' = d.usage
    <2>1. ~ (Len(all) > MaxBufferBytes)
        BY DEF Consume, Overflows
    <2>2. Len(all) \in Nat /\ MaxBufferBytes \in Nat
        <3> HIDE DEF all
        <3> QED
            BY <1>2, ParserAssumption
    <2>3. Len(all) <= MaxBufferBytes
        <3> HIDE DEF all
        <3> QED
            BY <2>1, <2>2
    <2> QED
        BY <2>2, <2>3 DEF Consume
<1>5. d \in Drains /\ d0 \in Drains /\ d0.rest = all /\ d0.usage = latest_usage
    <2> HIDE DEF d, all
    <2> QED
        BY <1>2, <1>3 DEF Searched, Types, Drains
<1>6. CASE d.raised
    BY <1>4, <1>6 DEF Types, BufferBounded
<1>7. CASE ~d.raised
    <2> HIDE DEF d, d0, all
    <2>1. /\ decode_buffer' = d.rest /\ latest_usage' = d.usage
          /\ decode_buffer' \in Seq(Pieces) /\ latest_usage' \in Usages \cup {None}
        BY <1>4, <1>5, <1>7 DEF Drains
    <2>2. BufferBounded'
        <3>1. Len(d.rest) <= Len(all) /\ Len(d.rest) \in Nat
            BY <1>3, <1>5 DEF Searched, Drains
        <3>2. Len(d.rest) <= MaxBufferBytes
            BY <1>4, <3>1, ParserAssumption
        <3>3. EventEnd(d.rest) = 0
            BY <1>3, <1>7
        <3>4. EventEnd(decode_buffer)' = 0
            BY <2>1, <3>3 DEF EventEnd
        <3> QED
            BY <2>1, <3>2, <3>4 DEF BufferBounded
    <2>3. ASSUME Regular(text \o fragment)
          PROVE  SaysTheSame(d.rest, d.usage, text \o fragment)
        <3>1. Regular(text)
            BY <2>3, PrefixRegular
        <3>2. /\ NoCrLf(decode_buffer)
              /\ \A m \in 1..2 : EndsInCr(decode_buffer, m) => EndsInCr(text, m)
              /\ Read(Clean(latest_usage), decode_buffer) = Read(Fresh, text)
            BY <3>1 DEF SaysTheSame
        <3>3. /\ Regular(x)
              /\ \A m \in 1..2 : EndsInCr(x, m) => EndsInCr(text \o fragment, m)
            BY <2>3, <3>2, FragmentRegular DEF Types
        <3> DEFINE q == Clean(latest_usage)
        <3>4. q \in Readers /\ q.line = "start"
            <4>1. q \in Readers
                BY CleanType DEF Types
            <4> QED
                BY <4>1 DEF Clean
        <3>5. Fresh \in Readers
            <4>1. Fresh = Clean(None)
                BY DEF Fresh, Clean
            <4> QED
                BY <4>1, CleanType
        <3> HIDE DEF q
        <3>6. Read(q, x) = Read(Fresh, text \o fragment)
            <4>1. Read(q, x) = Read(Read(q, decode_buffer), fragment)
                BY <3>4, ReadConcat DEF Types
            <4>2. Read(Fresh, text \o fragment) = Read(Read(Fresh, text), fragment)
                BY <3>5, ReadConcat
            <4> QED
                BY <3>2, <4>1, <4>2 DEF q
        <3> HIDE DEF x
        <3>7. Read(q, all) = Read(q, x)
            BY <1>1, <3>3, <3>4, NormalizedReads
        <3>8. NoCrLf(all) /\ \A m \in 1..2 : EndsInCr(all, m) => EndsInCr(x, m)
            BY <1>1, <3>3, NormalizedShape
        <3>9. /\ NoCrLf(d.rest)
              /\ \A m \in 1..2 : EndsInCr(d.rest, m) => EndsInCr(all, m)
              /\ Read(Clean(d.usage), d.rest) = Read(q, all)
            BY <1>3, <1>5, <1>7, <3>8 DEF Searched, q
        <3> QED
            BY <3>3, <3>6, <3>7, <3>8, <3>9 DEF SaysTheSame
    <2> QED
        BY <2>1, <2>2, <2>3
<1> QED
    BY <1>6, <1>7

\* At first nothing has been read.
LEMMA SseInit ==
    Init => SseInv
<1> SUFFICES ASSUME Init PROVE SseInv
    OBVIOUS
<1>1. <<>> \in Seq(Pieces) /\ Len(<<>>) = 0
    OBVIOUS
<1>2. stream \in Seq(Pieces) /\ Len(stream) \in Nat
    <2>1. stream \in Seq(Pieces)
        BY ParserAssumption DEF Init
    <2> QED
        BY <2>1
<1>3. Types
    BY <1>1, <1>2 DEF Init, Types
<1>4. BufferBounded
    <2>1. EventEnd(<<>>) # 0 => EventEnd(<<>>) \in 1..(Len(<<>>) - 1)
        BY <1>1, EventEndIs
    <2>2. \A j \in 1..(Len(<<>>) - 1) : FALSE
        BY <1>1
    <2>3. EventEnd(<<>>) = 0
        BY <2>1, <2>2
    <2> QED
        BY <1>1, <2>3, ParserAssumption DEF Init, BufferBounded
<1>5. Fed = <<>>
    <2>1. Fed = SubSeq(stream, 1, 0)
        BY DEF Init, Fed, DecoderHolds
    <2> QED
        BY <1>2, <2>1
<1>6. SaysTheSame(decode_buffer, latest_usage, Fed)
    <2>1. Fresh = Clean(latest_usage) /\ decode_buffer = <<>>
        BY DEF Init, Fresh, Clean
    <2> QED
        BY <1>1, <1>5, <2>1 DEF SaysTheSame, NoCrLf, EndsInCr
<1> QED
    BY <1>3, <1>4, <1>6 DEF SseInv, BufferFollowsText

\* The buffer stays bounded when the parser gives up.
LEMMA GiveUpKeeps ==
    ASSUME Types, BufferBounded, NEW overflow, NEW next, GiveUp(overflow, next)
    PROVE  /\ decode_buffer' \in Seq(Pieces) /\ latest_usage' \in Usages \cup {None}
           /\ parsing_enabled' = FALSE
           /\ BufferBounded'
<1>1. <<>> \in Seq(Pieces) /\ Len(<<>>) = 0
    OBVIOUS
<1>2. EventEnd(<<>>) = 0
    <2>1. EventEnd(<<>>) # 0 => EventEnd(<<>>) \in 1..(Len(<<>>) - 1)
        BY <1>1, EventEndIs
    <2>2. \A j \in 1..(Len(<<>>) - 1) : FALSE
        BY <1>1
    <2> QED
        BY <2>1, <2>2
<1>3. decode_buffer' = <<>> \/ decode_buffer' = decode_buffer
    BY DEF GiveUp
<1>4. Len(decode_buffer') <= MaxBufferBytes
    BY <1>1, <1>3, ParserAssumption DEF BufferBounded
<1>5. EventEnd(decode_buffer)' = 0
    <2>1. EventEnd(decode_buffer') = 0
        BY <1>2, <1>3 DEF BufferBounded
    <2> QED
        BY <2>1 DEF EventEnd
<1> QED
    BY <1>1, <1>3, <1>4, <1>5 DEF GiveUp, Types, BufferBounded

\* A chunk adds to the text what the decoder lets through.
LEMMA FedGrows ==
    ASSUME Types, NEW n \in 1..MaxChunk, taken + n <= Len(stream),
           taken' = taken + n, stream' = stream, ~DecoderHolds
    PROVE  /\ Fragment(Chunk(n)) \in Seq(Pieces)
           /\ Fed \in Seq(Pieces)
           /\ Fed' = Fed \o Fragment(Chunk(n))
<1>1. /\ n \in Nat \ {0} /\ taken \in Nat /\ Len(stream) \in Nat
      /\ stream \in Seq(Pieces) /\ taken + n \in 1..Len(stream)
    BY ParserAssumption DEF Types
<1>2. /\ Fed = SubSeq(stream, 1, taken)
      /\ Fed' = SubSeq(stream, 1, IF stream[taken + n] = "half" THEN taken + n - 1 ELSE taken + n)
    BY <1>1 DEF Fed, DecoderHolds
<1>3. Chunk(n) \in Seq(Pieces) /\ Len(Chunk(n)) = n /\ Last(Chunk(n)) = stream[taken + n]
    BY <1>1 DEF Chunk, Last
<1>4. Front(Chunk(n)) = SubSeq(stream, taken + 1, taken + n - 1)
    <2>1. Front(Chunk(n)) = SubSeq(SubSeq(stream, taken + 1, taken + n), 1, n - 1)
        BY <1>3 DEF Front, Chunk
    <2> DEFINE a == SubSeq(SubSeq(stream, taken + 1, taken + n), 1, n - 1)
               b == SubSeq(stream, taken + 1, taken + n - 1)
    <2>2. /\ a \in Seq(Pieces) /\ Len(a) = n - 1
          /\ \A i \in 1..(n - 1) : a[i] = stream[taken + i]
        <3> DEFINE c == SubSeq(stream, taken + 1, taken + n)
        <3>1. /\ c \in Seq(Pieces) /\ Len(c) = n
              /\ \A i \in 1..n : c[i] = stream[taken + i]
            BY <1>1
        <3> HIDE DEF c
        <3>2. /\ SubSeq(c, 1, n - 1) \in Seq(Pieces) /\ Len(SubSeq(c, 1, n - 1)) = n - 1
              /\ \A i \in 1..(n - 1) : SubSeq(c, 1, n - 1)[i] = c[i]
            BY <1>1, <3>1
        <3>3. \A i \in 1..(n - 1) : i \in 1..n
            BY <1>1
        <3>4. a = SubSeq(c, 1, n - 1)
            BY DEF c
        <3> HIDE DEF a
        <3> QED
            BY <3>1, <3>2, <3>3, <3>4
    <2>3. /\ b \in Seq(Pieces) /\ Len(b) = n - 1
          /\ \A i \in 1..(n - 1) : b[i] = stream[taken + i]
        BY <1>1
    <2> HIDE DEF a, b
    <2>4. a = b
        BY <2>2, <2>3, SeqEqual
    <2> QED
        BY <2>1, <2>4 DEF a, b
<1>5. ASSUME NEW m \in {taken + n - 1, taken + n}
      PROVE  /\ SubSeq(stream, taken + 1, m) \in Seq(Pieces)
             /\ SubSeq(stream, 1, m) = SubSeq(stream, 1, taken) \o SubSeq(stream, taken + 1, m)
    <2> DEFINE u == SubSeq(stream, 1, taken)
               v == SubSeq(stream, taken + 1, m)
               w == SubSeq(stream, 1, m)
    <2>1. m \in Nat /\ taken <= m /\ m <= Len(stream)
        BY <1>1
    <2>2. u \in Seq(Pieces) /\ Len(u) = taken /\ \A i \in 1..taken : u[i] = stream[i]
        BY <1>1
    <2>3. v \in Seq(Pieces) /\ Len(v) = m - taken /\ \A i \in 1..(m - taken) : v[i] = stream[taken + i]
        BY <1>1, <2>1
    <2>4. w \in Seq(Pieces) /\ Len(w) = m /\ \A i \in 1..m : w[i] = stream[i]
        BY <1>1, <2>1
    <2> HIDE DEF u, v, w
    <2>5. u \o v \in Seq(Pieces) /\ Len(u \o v) = m
        BY <1>1, <2>1, <2>2, <2>3
    <2>6. ASSUME NEW i \in 1..m
          PROVE  w[i] = (u \o v)[i]
        <3>1. CASE i <= taken
            <4>1. (u \o v)[i] = u[i]
                BY <1>1, <2>1, <2>2, <2>3, <3>1
            <4> QED
                BY <1>1, <2>1, <2>2, <2>4, <3>1, <4>1
        <3>2. CASE i > taken
            <4>1. PICK j \in 1..(m - taken) : i = taken + j
                <5>1. i - taken \in 1..(m - taken) /\ i = taken + (i - taken)
                    BY <1>1, <2>1, <3>2
                <5> QED
                    BY <5>1
            <4>2. (u \o v)[taken + j] = v[j]
                BY <1>1, <2>1, <2>2, <2>3, <4>1
            <4> QED
                BY <2>3, <2>4, <4>1, <4>2
        <3>3. i <= taken \/ i > taken
            <4>1. i \in Nat /\ taken \in Nat
                BY <1>1, <2>1
            <4> QED
                BY <4>1
        <3> QED
            BY <3>1, <3>2, <3>3
    <2>7. w = u \o v
        BY <2>4, <2>5, <2>6, SeqEqual
    <2> QED
        BY <2>3, <2>7 DEF u, v, w
<1>6. SubSeq(stream, 1, taken) \in Seq(Pieces)
    BY <1>1
<1>7. CASE stream[taken + n] = "half"
    <2>1. Fragment(Chunk(n)) = SubSeq(stream, taken + 1, taken + n - 1)
        BY <1>3, <1>4, <1>7 DEF Fragment
    <2>2. Fed' = SubSeq(stream, 1, taken + n - 1)
        BY <1>2, <1>7
    <2> QED
        BY <1>2, <1>5, <1>6, <2>1, <2>2
<1>8. CASE stream[taken + n] # "half"
    <2>1. Fragment(Chunk(n)) = SubSeq(stream, taken + 1, taken + n)
        BY <1>3, <1>8 DEF Fragment, Chunk
    <2>2. Fed' = SubSeq(stream, 1, taken + n)
        BY <1>2, <1>8
    <2> QED
        BY <1>2, <1>5, <1>6, <2>1, <2>2
<1> QED
    BY <1>7, <1>8

\* The arrival of a chunk preserves the invariant.
LEMMA ChunkKeeps ==
    ASSUME SseInv, NEW n \in 1..MaxChunk, ChunkArrives(n)
    PROVE  SseInv'
<1> DEFINE chunk == Chunk(n)
           fragment == Fragment(chunk)
<1>1. /\ taken + n <= Len(stream) /\ taken' = taken + n /\ stream' = stream
      /\ outcome = "open"
    BY DEF ChunkArrives
<1>2. Types /\ BufferBounded /\ BufferFollowsText
    BY DEF SseInv
<1>3. stream' \in Seq(Pieces) /\ taken' \in 0..Len(stream')
    <2>1. n \in Nat /\ taken \in Nat /\ Len(stream) \in Nat /\ stream \in Seq(Pieces)
        BY <1>2, ParserAssumption DEF Types
    <2> QED
        BY <1>1, <2>1
<1> HIDE DEF chunk, fragment
<1>4. CASE /\ ~parsing_enabled
           /\ UNCHANGED <<decode_buffer, latest_usage, parsing_enabled, outcome>>
    <2>1. Types'
        BY <1>2, <1>3, <1>4 DEF Types
    <2>2. BufferBounded'
        BY <1>2, <1>4 DEF BufferBounded, EventEnd
    <2>3. ~parsing_enabled'
        BY <1>4
    <2> QED
        BY <2>1, <2>2, <2>3 DEF SseInv, BufferFollowsText
<1>5. ASSUME NEW overflow, GiveUp(overflow, "open")
      PROVE  SseInv'
    <2>1. /\ decode_buffer' \in Seq(Pieces) /\ latest_usage' \in Usages \cup {None}
          /\ parsing_enabled' = FALSE
          /\ BufferBounded'
        BY <1>2, <1>5, GiveUpKeeps
    <2> QED
        BY <1>3, <2>1 DEF SseInv, Types, BufferFollowsText
<1>6. CASE parsing_enabled /\ ~Undecodable(chunk) /\ Consume(fragment, "open")
    <2>1. ~DecoderHolds
        BY <1>6 DEF Undecodable
    <2>2. /\ fragment \in Seq(Pieces) /\ Fed \in Seq(Pieces)
          /\ Fed' = Fed \o fragment
        BY <1>1, <1>2, <2>1, FedGrows DEF chunk, fragment
    <2>3. Regular(Fed) => SaysTheSame(decode_buffer, latest_usage, Fed)
        BY <1>1, <1>2, <1>6 DEF BufferFollowsText
    <2>4. /\ decode_buffer' \in Seq(Pieces) /\ latest_usage' \in Usages \cup {None}
          /\ BufferBounded'
          /\ outcome' # "broken" /\ Regular(Fed \o fragment)
               => SaysTheSame(decode_buffer', latest_usage', Fed \o fragment)
        BY <1>2, <1>6, <2>2, <2>3, ConsumeKeeps
    <2>5. parsing_enabled' \in BOOLEAN
        BY <1>2, <1>6 DEF Consume, Types
    <2>6. outcome' # "broken" /\ Regular(Fed')
            => SaysTheSame(decode_buffer', latest_usage', Fed')
        BY <2>2, <2>4
    <2>7. BufferFollowsText'
        BY <2>6 DEF BufferFollowsText, Regular, SaysTheSame, NoCrLf, EndsInCr, Read, Clean, Fresh,
                    ReadPiece, BlankLine
    <2> QED
        BY <1>3, <2>4, <2>5, <2>7 DEF SseInv, Types
<1> QED
    BY <1>4, <1>5, <1>6 DEF ChunkArrives, chunk, fragment

\* The end of the stream preserves it, too.
LEMMA EndKeeps ==
    ASSUME SseInv, StreamEnds
    PROVE  SseInv'
<1>1. taken' = taken /\ stream' = stream /\ outcome = "open"
    BY DEF StreamEnds
<1>2. Types /\ BufferBounded /\ BufferFollowsText
    BY DEF SseInv
<1>3. stream' \in Seq(Pieces) /\ taken' \in 0..Len(stream')
    BY <1>1, <1>2 DEF Types
<1>4. CASE ~parsing_enabled /\ UNCHANGED <<decode_buffer, latest_usage, parsing_enabled>>
    <2>1. Types'
        BY <1>2, <1>3, <1>4 DEF Types
    <2>2. BufferBounded'
        BY <1>2, <1>4 DEF BufferBounded, EventEnd
    <2>3. ~parsing_enabled'
        BY <1>4
    <2> QED
        BY <2>1, <2>2, <2>3 DEF SseInv, BufferFollowsText
<1>5. CASE GiveUp(FALSE, "complete")
    <2>1. /\ decode_buffer' \in Seq(Pieces) /\ latest_usage' \in Usages \cup {None}
          /\ parsing_enabled' = FALSE
          /\ BufferBounded'
        BY <1>2, <1>5, GiveUpKeeps
    <2> QED
        BY <1>3, <2>1 DEF SseInv, Types, BufferFollowsText
<1>6. CASE parsing_enabled /\ ~DecoderHolds /\ Consume(<<>>, "complete")
    <2>1. <<>> \in Seq(Pieces)
        OBVIOUS
    <2>2. Fed \in Seq(Pieces) /\ Fed' = Fed
        <3>1. Fed = SubSeq(stream, 1, taken)
            BY <1>6 DEF Fed
        <3>2. Fed' = Fed
            BY <1>1 DEF Fed, DecoderHolds
        <3>3. SubSeq(stream, 1, taken) \in Seq(Pieces)
            BY <1>2 DEF Types
        <3> QED
            BY <3>1, <3>2, <3>3
    <2>3. Fed \o <<>> = Fed
        BY <2>2
    <2>4. Regular(Fed) => SaysTheSame(decode_buffer, latest_usage, Fed)
        BY <1>1, <1>2, <1>6 DEF BufferFollowsText
    <2>5. /\ decode_buffer' \in Seq(Pieces) /\ latest_usage' \in Usages \cup {None}
          /\ BufferBounded'
          /\ outcome' # "broken" /\ Regular(Fed \o <<>>)
               => SaysTheSame(decode_buffer', latest_usage', Fed \o <<>>)
        BY <1>2, <1>6, <2>1, <2>2, <2>4, ConsumeKeeps
    <2>6. parsing_enabled' \in BOOLEAN
        BY <1>2, <1>6 DEF Consume, Types
    <2>7. outcome' # "broken" /\ Regular(Fed')
            => SaysTheSame(decode_buffer', latest_usage', Fed')
        BY <2>2, <2>3, <2>5
    <2>8. BufferFollowsText'
        BY <2>7 DEF BufferFollowsText, Regular, SaysTheSame, NoCrLf, EndsInCr, Read, Clean, Fresh,
                    ReadPiece, BlankLine
    <2> QED
        BY <1>3, <2>5, <2>6, <2>8 DEF SseInv, Types
<1> QED
    BY <1>4, <1>5, <1>6 DEF StreamEnds

\* So every step does.
LEMMA SseStep ==
    SseInv /\ [Next]_vars => SseInv'
<1> SUFFICES ASSUME SseInv, [Next]_vars PROVE SseInv'
    OBVIOUS
<1>1. CASE StreamEnds
    BY <1>1, EndKeeps
<1>2. CASE \E n \in 1 .. MaxChunk : ChunkArrives(n)
    BY <1>2, ChunkKeeps
<1>3. CASE UNCHANGED vars
    <2>1. Types'
        BY <1>3 DEF vars, SseInv, Types
    <2>2. BufferBounded'
        BY <1>3 DEF vars, SseInv, BufferBounded, EventEnd
    <2>3. Fed' = Fed
        BY <1>3 DEF vars, Fed, DecoderHolds
    <2>4. parsing_enabled' /\ outcome' # "broken" /\ Regular(Fed')
            => SaysTheSame(decode_buffer', latest_usage', Fed')
        BY <1>3, <2>3 DEF vars, SseInv, BufferFollowsText
    <2>5. BufferFollowsText'
        BY <2>4 DEF BufferFollowsText, Regular, SaysTheSame, NoCrLf, EndsInCr, Read, Clean, Fresh,
                    ReadPiece, BlankLine
    <2> QED
        BY <2>1, <2>2, <2>5 DEF SseInv
<1> QED
    BY <1>1, <1>2, <1>3 DEF Next

\* The invariant holds throughout.
LEMMA SseInvariance ==
    Spec => []SseInv
<1> QED
    BY SseInit, SseStep, PTL DEF Spec

\* With the invariant, the usage at hand is what a reader of the text knows.
LEMMA ReaderAgrees ==
    SseInv => UsageIndependentOfChunks
<1> SUFFICES ASSUME SseInv, parsing_enabled, outcome # "broken", Regular(Arrived)
             PROVE  /\ ~Read(Fresh, Arrived).raised
                    /\ latest_usage = Read(Fresh, Arrived).usage
    BY DEF UsageIndependentOfChunks
<1>1. /\ stream \in Seq(Pieces) /\ taken \in Nat /\ Len(stream) \in Nat /\ taken <= Len(stream)
      /\ decode_buffer \in Seq(Pieces) /\ latest_usage \in Usages \cup {None}
    BY DEF SseInv, Types
<1>2. \/ Fed = Arrived /\ Fed \in Seq(Pieces)
      \/ Fed \in Seq(Pieces) /\ Arrived = Append(Fed, "half")
    <2>1. CASE ~DecoderHolds
        BY <1>1, <2>1 DEF Fed, Arrived
    <2>2. CASE DecoderHolds
        <3>1. Fed = SubSeq(stream, 1, taken - 1) /\ taken > 0 /\ stream[taken] = "half"
            BY <2>2 DEF Fed, DecoderHolds
        <3>2. Arrived = Append(SubSeq(stream, 1, taken - 1), stream[taken])
            BY <1>1, <3>1 DEF Arrived
        <3>3. SubSeq(stream, 1, taken - 1) \in Seq(Pieces)
            BY <1>1, <3>1
        <3> QED
            BY <3>1, <3>2, <3>3
    <2> QED
        BY <2>1, <2>2
<1>3. "half" \in Pieces /\ "half" # LF
    BY DEF Pieces, LF
<1>4. Regular(Fed)
    <2>1. CASE Arrived = Append(Fed, "half") /\ Fed \in Seq(Pieces)
        <3>1. <<"half">> \in Seq(Pieces) /\ Append(Fed, "half") = Fed \o <<"half">>
            BY <1>3, <2>1
        <3>2. Regular(Fed \o <<"half">>)
            BY <2>1, <3>1
        <3> QED
            BY <2>1, <3>1, <3>2, PrefixRegular
    <2> QED
        BY <1>2, <2>1
<1> DEFINE q == Read(Fresh, Fed)
<1>5. q \in Readers /\ q.usage = latest_usage /\ q.raised = FALSE
    <2>1. SaysTheSame(decode_buffer, latest_usage, Fed)
        BY <1>4 DEF SseInv, BufferFollowsText
    <2>2. \A i \in 1..(Len(decode_buffer) - 1) : ~BlankAt(decode_buffer, i)
        BY <1>1, EventEndIs DEF SseInv, BufferBounded
    <2>3. EventIsRead(Read(Clean(latest_usage), decode_buffer), decode_buffer, latest_usage)
        BY <1>1, <2>1, <2>2, EventReads DEF SaysTheSame
    <2>4. q = Read(Clean(latest_usage), decode_buffer)
        BY <2>1 DEF SaysTheSame
    <2> HIDE DEF q
    <2> QED
        BY <2>3, <2>4 DEF EventIsRead
<1>6. CASE Arrived = Fed
    BY <1>5, <1>6
<1>7. CASE Arrived = Append(Fed, "half") /\ Fed \in Seq(Pieces)
    <2>1. Fresh \in Readers
        <3>1. Fresh = Clean(None)
            BY DEF Fresh, Clean
        <3> QED
            BY <3>1, CleanType
    <2>2. Read(Fresh, Arrived) = ReadPiece(q, "half")
        BY <1>3, <1>7, <2>1, ReadAppend
    <2> HIDE DEF q
    <2>3. ReadPiece(q, "half").usage = q.usage /\ ReadPiece(q, "half").raised = q.raised
        <3>1. q.line \in {"start", "cr", "data", "other"}
            BY <1>5 DEF Readers
        <3>2. CASE q.line = "start"
            <4>1. PICK l : ReadPiece(q, "half") = [q EXCEPT !.line = l]
                BY <1>3, <1>5, <3>2, ReadPieceIs
            <4> QED
                BY <1>5, <4>1 DEF Readers
        <3>3. CASE q.line = "data"
            <4>1. PICK l : ReadPiece(q, "half") = [q EXCEPT !.data = l]
                BY <1>3, <1>5, <3>3, ReadPieceIs
            <4> QED
                BY <1>5, <4>1 DEF Readers
        <3>4. CASE q.line \in {"cr", "other"}
            <4>1. ReadPiece(q, "half") = [q EXCEPT !.line = "other"]
                BY <1>3, <1>5, <3>4, ReadPieceIs
            <4> QED
                BY <1>5, <4>1 DEF Readers
        <3> QED
            BY <3>1, <3>2, <3>3, <3>4
    <2> QED
        BY <1>5, <2>2, <2>3
<1> QED
    BY <1>2, <1>6, <1>7

-----------------------------------------------------------------------------
(* Giving up.                                                               *)

\* Something of the text remains in buffer, without the CR of a CR LF.
RemainsOf(buffer, text) ==
    \E f : Remains(f, buffer, text) /\ \A i \in 1..Len(buffer) : ~InPair(text, f[i])

BufferRemains ==
    parsing_enabled /\ outcome # "broken" => RemainsOf(decode_buffer, Fed)

\* Either a byte could not be decoded, or what remained of some beginning of the
\* answer held no event and had, with one more chunk, no place in the buffer.
GivenUpRightly ==
    ~parsing_enabled =>
        \/ \E i \in 1..taken : stream[i] = "half"
        \/ \E l \in 0..taken, b \in Seq(Pieces) :
             /\ RemainsOf(b, SubSeq(stream, 1, l))
             /\ EventEnd(b) = 0
             /\ MaxBufferBytes < Len(b) + MaxChunk

LongInv == SseInv /\ BufferRemains /\ GivenUpRightly

\* What a search leaves of the buffer with a fragment remains of the text with
\* the fragment.
LEMMA SearchRemains ==
    ASSUME NEW b \in Seq(Pieces), NEW t \in Seq(Pieces), NEW g \in Seq(Pieces), NEW r \in Seq(Pieces),
           RemainsOf(b, t), \E f : Remains(f, r, Normalized(b \o g))
    PROVE  RemainsOf(r, t \o g)
<1> DEFINE x == b \o g
           y == t \o g
           s == Normalized(x)
<1>1. x \in Seq(Pieces) /\ y \in Seq(Pieces)
    OBVIOUS
<1>2. PICK h : Remains(h, x, y) /\ \A i \in 1..Len(x) : InPair(y, h[i]) => InPair(x, i)
    BY FragmentRemains DEF RemainsOf
<1>3. PICK f : Remains(f, r, s)
    OBVIOUS
<1> HIDE DEF x, y
<1>4. s \in Seq(Pieces)
    BY <1>1, NormalizedRemains
<1>5. PICK psi : /\ Remains(psi, s, x)
                 /\ \A j \in 1..Len(x) : ~InPair(x, j) <=> \E i \in 1..Len(s) : psi[i] = j
    BY <1>1, NormalizedRemains
<1> HIDE DEF s
<1> DEFINE n == Len(r)
           p == [i \in 1..n |-> psi[f[i]]]
           q == [i \in 1..n |-> h[p[i]]]
<1>6. Remains(p, r, x)
    <2>1. Remains(f, r, s) /\ Remains(psi, s, x)
        BY <1>3, <1>5
    <2>2. Remains([i \in 1..Len(r) |-> psi[f[i]]], r, x)
        BY <1>1, <1>4, <2>1, RemainsTwice
    <2> QED
        BY <2>2
<1>7. Remains(q, r, y)
    <2> HIDE DEF p
    <2> QED
        BY <1>1, <1>2, <1>6, RemainsTwice
<1>8. ASSUME NEW i \in 1..n
      PROVE  ~InPair(y, q[i])
    <2>1. f[i] \in 1..Len(s)
        BY <1>3 DEF Remains
    <2>2. psi[f[i]] \in 1..Len(x)
        BY <1>5, <2>1 DEF Remains
    <2>3. ~InPair(x, psi[f[i]])
        BY <1>5, <2>1, <2>2
    <2>4. q[i] = h[psi[f[i]]]
        OBVIOUS
    <2> HIDE DEF q
    <2> QED
        BY <1>2, <2>2, <2>3, <2>4
<1> HIDE DEF q
<1> QED
    BY <1>7, <1>8 DEF RemainsOf, y

\* Normalizing does not lengthen a text.
LEMMA NormalizedShorter ==
    ASSUME NEW s \in Seq(Pieces)
    PROVE  Normalized(s) \in Seq(Pieces) /\ Len(Normalized(s)) <= Len(s)
<1>1. Normalized(s) \in Seq(Pieces)
    BY NormalizedRemains
<1>2. PICK f : Remains(f, Normalized(s), s)
    BY NormalizedRemains
<1> QED
    BY <1>1, <1>2, RemainsShorter

\* A search of the buffer keeps to what remains of the text.
LEMMA ConsumeRemains ==
    ASSUME Types, NEW text \in Seq(Pieces), RemainsOf(decode_buffer, text),
           NEW fragment \in Seq(Pieces), NEW next, Consume(fragment, next)
    PROVE  outcome' # "broken" => RemainsOf(decode_buffer', text \o fragment)
<1> DEFINE all == Buffered(fragment)
           d == Drained(all, latest_usage)
           d0 == [rest |-> all, usage |-> latest_usage, raised |-> FALSE]
<1>1. SUFFICES ASSUME outcome' # "broken"
               PROVE  RemainsOf(decode_buffer', text \o fragment)
    OBVIOUS
<1>2. all = Normalized(decode_buffer \o fragment) /\ decode_buffer \o fragment \in Seq(Pieces)
    BY DEF Buffered, Types
<1>3. decode_buffer' = d.rest
    BY <1>1 DEF Consume
<1> HIDE DEF all
<1>4. all \in Seq(Pieces)
    BY <1>2, NormalizedShorter
<1>5. Searched(d0, d)
    BY <1>4, DrainedIs DEF Types
<1> HIDE DEF d
<1>6. d.rest \in Seq(Pieces) /\ \E f : Remains(f, d.rest, all)
    BY <1>5 DEF Searched, Drains
<1>7. d.rest \in Seq(Pieces) /\ \E f : Remains(f, d.rest, Normalized(decode_buffer \o fragment))
    BY <1>2, <1>6
<1> DEFINE r == d.rest
<1> HIDE DEF r
<1>8. RemainsOf(r, text \o fragment)
    BY <1>7, SearchRemains DEF Types, r
<1> QED
    BY <1>3, <1>8 DEF r

\* At first nothing remains of nothing.
LEMMA LongInit ==
    Init => LongInv
<1> SUFFICES ASSUME Init PROVE LongInv
    OBVIOUS
<1>1. SseInv
    BY SseInit
<1>2. Fed = <<>> /\ decode_buffer = <<>> /\ parsing_enabled = TRUE
    <2>1. Fed = SubSeq(stream, 1, 0)
        BY DEF Init, Fed, DecoderHolds
    <2>2. SubSeq(stream, 1, 0) = <<>>
        BY <1>1 DEF SseInv, Types
    <2> QED
        BY <2>1, <2>2 DEF Init
<1>3. RemainsOf(<<>>, <<>>)
    <2>1. <<>> \in Seq(Pieces)
        OBVIOUS
    <2>2. PICK f : Remains(f, <<>>, <<>>)
        BY <2>1, AllRemains
    <2>3. \A i \in 1..Len(<<>>) : FALSE
        OBVIOUS
    <2> QED
        BY <2>2, <2>3 DEF RemainsOf
<1> QED
    BY <1>1, <1>2, <1>3 DEF LongInv, BufferRemains, GivenUpRightly

\* The decoder keeps nothing back but an incomplete character, so a fragment is
\* no longer than its chunk; and one that is undecodable holds half a character.
LEMMA FragmentFits ==
    ASSUME Types, NEW n \in 1..MaxChunk, taken + n <= Len(stream)
    PROVE  /\ Len(Fragment(Chunk(n))) <= MaxChunk
           /\ Undecodable(Chunk(n)) => \E i \in 1..(taken + n) : stream[i] = "half"
<1> DEFINE c == Chunk(n)
<1>1. /\ n \in Nat \ {0} /\ n <= MaxChunk /\ MaxChunk \in Nat
      /\ taken \in Nat /\ Len(stream) \in Nat /\ stream \in Seq(Pieces)
    BY ParserAssumption DEF Types
<1>2. c \in Seq(Pieces) /\ Len(c) = n /\ \A i \in 1..n : c[i] = stream[taken + i]
    BY <1>1 DEF Chunk
<1> HIDE DEF c
<1>3. /\ Front(c) \in Seq(Pieces) /\ Len(Front(c)) = n - 1
      /\ \A i \in 1..(n - 1) : Front(c)[i] = c[i]
    BY <1>1, <1>2 DEF Front
<1>4. Len(Fragment(c)) <= MaxChunk
    <2>1. Fragment(c) = c \/ Fragment(c) = Front(c)
        BY DEF Fragment
    <2> QED
        BY <1>1, <1>2, <1>3, <2>1
<1>5. ASSUME Undecodable(c)
      PROVE  \E i \in 1..(taken + n) : stream[i] = "half"
    <2>1. CASE DecoderHolds
        <3>1. taken \in 1..(taken + n) /\ stream[taken] = "half"
            BY <1>1, <2>1 DEF DecoderHolds
        <3> QED
            BY <3>1
    <2>2. CASE "half" \in ToSet(Front(c))
        <3>1. PICK i \in 1..Len(Front(c)) : Front(c)[i] = "half"
            BY <2>2 DEF ToSet
        <3>2. i \in 1..(n - 1) /\ i \in 1..n /\ taken + i \in 1..(taken + n)
            <4>1. i \in 1..(n - 1)
                BY <1>3, <3>1
            <4> QED
                BY <1>1, <4>1
        <3>3. stream[taken + i] = "half"
            BY <1>2, <1>3, <3>1, <3>2
        <3> QED
            BY <3>2, <3>3
    <2> QED
        BY <1>5, <2>1, <2>2 DEF Undecodable
<1> QED
    BY <1>4, <1>5 DEF c

\* An overflow is due to a long buffer and one chunk.
LEMMA OverflowIsLong ==
    ASSUME Types, NEW fragment \in Seq(Pieces), Len(fragment) <= MaxChunk, Overflows(fragment)
    PROVE  MaxBufferBytes < Len(decode_buffer) + MaxChunk
<1> DEFINE x == decode_buffer \o fragment
           s == Normalized(x)
<1>1. /\ x \in Seq(Pieces) /\ Len(x) = Len(decode_buffer) + Len(fragment)
      /\ Len(decode_buffer) \in Nat /\ Len(fragment) \in Nat
      /\ MaxBufferBytes \in Nat /\ MaxChunk \in Nat
    BY ParserAssumption DEF Types
<1>2. s \in Seq(Pieces) /\ Len(s) <= Len(x)
    <2> HIDE DEF x
    <2> QED
        BY <1>1, NormalizedShorter
<1>3. Len(s) > MaxBufferBytes
    BY DEF Overflows, Buffered
<1> HIDE DEF x, s
<1>4. Len(s) \in Nat
    BY <1>2
<1> QED
    BY <1>1, <1>2, <1>3, <1>4

\* Once given up rightly, given up rightly: more of the answer changes nothing.
LEMMA GivenUpStays ==
    ASSUME Types, GivenUpRightly, ~parsing_enabled, stream' = stream, taken' \in Nat, taken <= taken'
    PROVE  GivenUpRightly'
<1>1. taken \in Nat /\ (\A i \in 1..taken : i \in 1..taken') /\ \A l \in 0..taken : l \in 0..taken'
    BY DEF Types
<1>2. \/ \E i \in 1..taken' : stream'[i] = "half"
      \/ \E l \in 0..taken', b \in Seq(Pieces) :
           /\ RemainsOf(b, SubSeq(stream', 1, l))
           /\ EventEnd(b) = 0
           /\ MaxBufferBytes < Len(b) + MaxChunk
    BY <1>1 DEF GivenUpRightly
<1> QED
    BY <1>2 DEF GivenUpRightly, RemainsOf, Remains, InPair, EventEnd, Increasing

\* The arrival of a chunk preserves it.
LEMMA ChunkKeepsLong ==
    ASSUME LongInv, NEW n \in 1..MaxChunk, ChunkArrives(n)
    PROVE  LongInv'
<1> DEFINE fragment == Fragment(Chunk(n))
<1>0. SseInv' /\ SseInv /\ Types /\ BufferBounded /\ BufferRemains /\ GivenUpRightly
    BY ChunkKeeps DEF LongInv, SseInv
<1>1. /\ taken + n <= Len(stream) /\ taken' = taken + n /\ stream' = stream
      /\ outcome = "open" /\ taken' \in Nat /\ taken \in Nat /\ taken <= taken'
    <2>1. taken \in Nat /\ n \in Nat
        BY <1>0, ParserAssumption DEF Types
    <2> QED
        BY <2>1 DEF ChunkArrives
<1>2. /\ Len(fragment) <= MaxChunk
      /\ Undecodable(Chunk(n)) => \E i \in 1..(taken + n) : stream[i] = "half"
    BY <1>0, <1>1, FragmentFits
<1>3. ASSUME ~DecoderHolds
      PROVE  fragment \in Seq(Pieces) /\ Fed \in Seq(Pieces) /\ Fed' = Fed \o fragment
    BY <1>0, <1>1, <1>3, FedGrows
<1>4. parsing_enabled => RemainsOf(decode_buffer, Fed)
    BY <1>0, <1>1 DEF BufferRemains
<1> HIDE DEF fragment
<1>5. CASE ~parsing_enabled /\ UNCHANGED <<decode_buffer, latest_usage, parsing_enabled, outcome>>
    <2>1. GivenUpRightly'
        BY <1>0, <1>1, <1>5, GivenUpStays
    <2>2. ~parsing_enabled'
        BY <1>5
    <2> QED
        BY <1>0, <2>1, <2>2 DEF LongInv, BufferRemains
<1>6. CASE parsing_enabled /\ Undecodable(Chunk(n)) /\ GiveUp(FALSE, "open")
    <2>1. \E i \in 1..taken' : stream'[i] = "half"
        BY <1>1, <1>2, <1>6
    <2>2. ~parsing_enabled'
        BY <1>6 DEF GiveUp
    <2> QED
        BY <1>0, <2>1, <2>2 DEF LongInv, BufferRemains, GivenUpRightly
<1>7. CASE parsing_enabled /\ ~Undecodable(Chunk(n)) /\ Consume(fragment, "open")
    <2>1. ~DecoderHolds
        BY <1>7 DEF Undecodable
    <2>2. outcome' # "broken" => RemainsOf(decode_buffer', Fed')
        <3>1. outcome' # "broken" => RemainsOf(decode_buffer', Fed \o fragment)
            BY <1>0, <1>3, <1>4, <1>7, <2>1, ConsumeRemains
        <3> QED
            BY <1>3, <2>1, <3>1
    <2>3. parsing_enabled'
        BY <1>7 DEF Consume
    <2>4. BufferRemains'
        BY <2>2 DEF BufferRemains, RemainsOf, Remains, InPair, Increasing
    <2> QED
        BY <1>0, <2>3, <2>4 DEF LongInv, GivenUpRightly
<1>8. CASE /\ parsing_enabled /\ ~Undecodable(Chunk(n))
           /\ Overflows(fragment) /\ GiveUp(TRUE, "open")
    <2>1. ~DecoderHolds
        BY <1>8 DEF Undecodable
    <2>2. MaxBufferBytes < Len(decode_buffer) + MaxChunk
        BY <1>0, <1>2, <1>3, <1>8, <2>1, OverflowIsLong
    <2>3. RemainsOf(decode_buffer, SubSeq(stream, 1, taken)) /\ EventEnd(decode_buffer) = 0
        BY <1>0, <1>4, <1>8, <2>1 DEF Fed, BufferBounded
    <2>4. taken \in 0..taken' /\ decode_buffer \in Seq(Pieces)
        BY <1>0, <1>1 DEF Types
    <2>5. \E l \in 0..taken', b \in Seq(Pieces) :
             /\ RemainsOf(b, SubSeq(stream', 1, l))
             /\ EventEnd(b) = 0
             /\ MaxBufferBytes < Len(b) + MaxChunk
        BY <1>1, <2>2, <2>3, <2>4
    <2>6. GivenUpRightly'
        BY <2>5 DEF GivenUpRightly, RemainsOf, Remains, InPair, EventEnd, Increasing
    <2>7. ~parsing_enabled'
        BY <1>8 DEF GiveUp
    <2> QED
        BY <1>0, <2>6, <2>7 DEF LongInv, BufferRemains
<1> QED
    BY <1>5, <1>6, <1>7, <1>8 DEF ChunkArrives, fragment

\* The end of the stream preserves it.
LEMMA EndKeepsLong ==
    ASSUME LongInv, StreamEnds
    PROVE  LongInv'
<1>0. SseInv' /\ SseInv /\ Types /\ BufferRemains /\ GivenUpRightly
    BY EndKeeps DEF LongInv, SseInv
<1>1. /\ taken' = taken /\ stream' = stream /\ outcome = "open"
      /\ taken \in Nat /\ taken' \in Nat /\ taken <= taken'
    <2>1. taken \in Nat
        BY <1>0 DEF Types
    <2> QED
        BY <2>1 DEF StreamEnds
<1>2. CASE ~parsing_enabled /\ UNCHANGED <<decode_buffer, latest_usage, parsing_enabled>>
    <2>1. GivenUpRightly'
        BY <1>0, <1>1, <1>2, GivenUpStays
    <2>2. ~parsing_enabled'
        BY <1>2
    <2> QED
        BY <1>0, <2>1, <2>2 DEF LongInv, BufferRemains
<1>3. CASE parsing_enabled /\ DecoderHolds /\ GiveUp(FALSE, "complete")
    <2>1. taken \in 1..taken /\ stream[taken] = "half"
        BY <1>1, <1>3 DEF DecoderHolds
    <2>2. \E i \in 1..taken' : stream'[i] = "half"
        BY <1>1, <2>1
    <2>3. ~parsing_enabled'
        BY <1>3 DEF GiveUp
    <2> QED
        BY <1>0, <2>2, <2>3 DEF LongInv, BufferRemains, GivenUpRightly
<1>4. CASE parsing_enabled /\ ~DecoderHolds /\ Consume(<<>>, "complete")
    <2>1. Fed' = Fed /\ Fed \in Seq(Pieces) /\ <<>> \in Seq(Pieces) /\ Fed \o <<>> = Fed
        <3>1. Fed = SubSeq(stream, 1, taken) /\ Fed' = Fed
            BY <1>1, <1>4 DEF Fed, DecoderHolds
        <3>2. SubSeq(stream, 1, taken) \in Seq(Pieces)
            BY <1>0 DEF Types
        <3>3. Fed \in Seq(Pieces)
            BY <3>1, <3>2
        <3>4. Fed \o <<>> = Fed
            BY <3>3
        <3> QED
            BY <3>1, <3>3, <3>4
    <2>2. RemainsOf(decode_buffer, Fed)
        BY <1>0, <1>1, <1>4 DEF BufferRemains
    <2>3. outcome' # "broken" => RemainsOf(decode_buffer', Fed')
        <3>1. outcome' # "broken" => RemainsOf(decode_buffer', Fed \o <<>>)
            BY <1>0, <1>4, <2>1, <2>2, ConsumeRemains
        <3> QED
            BY <2>1, <3>1
    <2>4. parsing_enabled'
        BY <1>4 DEF Consume
    <2>5. BufferRemains'
        BY <2>3 DEF BufferRemains, RemainsOf, Remains, InPair, Increasing
    <2> QED
        BY <1>0, <2>4, <2>5 DEF LongInv, GivenUpRightly
<1> QED
    BY <1>2, <1>3, <1>4 DEF StreamEnds

\* So every step does.
LEMMA LongStep ==
    LongInv /\ [Next]_vars => LongInv'
<1> SUFFICES ASSUME LongInv, [Next]_vars PROVE LongInv'
    OBVIOUS
<1>1. CASE StreamEnds
    BY <1>1, EndKeepsLong
<1>2. CASE \E n \in 1 .. MaxChunk : ChunkArrives(n)
    BY <1>2, ChunkKeepsLong
<1>3. CASE UNCHANGED vars
    <2>1. SseInv'
        BY <1>3, SseStep DEF LongInv
    <2>2. Fed' = Fed
        BY <1>3 DEF vars, Fed, DecoderHolds
    <2>3. parsing_enabled' /\ outcome' # "broken" => RemainsOf(decode_buffer', Fed')
        BY <1>3, <2>2 DEF vars, LongInv, BufferRemains
    <2>4. BufferRemains'
        BY <2>3 DEF BufferRemains, RemainsOf, Remains, InPair, Increasing
    <2>5. GivenUpRightly'
        <3>1. CASE ~parsing_enabled
            <4>1. Types /\ GivenUpRightly /\ taken \in Nat
                BY DEF LongInv, SseInv, Types
            <4>2. stream' = stream /\ taken' \in Nat /\ taken <= taken'
                BY <1>3, <4>1 DEF vars
            <4> QED
                BY <3>1, <4>1, <4>2, GivenUpStays
        <3>2. CASE parsing_enabled
            BY <1>3, <3>2 DEF vars, GivenUpRightly
        <3> QED
            BY <3>1, <3>2
    <2> QED
        BY <2>1, <2>4, <2>5 DEF LongInv
<1> QED
    BY <1>1, <1>2, <1>3 DEF Next

\* The invariant explains why the parser has given up.
LEMMA GivenUpOverLength ==
    LongInv => GivesUpOnLongEventsOnly
<1> SUFFICES ASSUME LongInv, ~parsing_enabled
             PROVE  \/ "half" \in ToSet(Arrived)
                    \/ LongestEvent(Normalized(Arrived)) >= MaxBufferBytes - MaxChunk
    BY DEF GivesUpOnLongEventsOnly
<1>1. /\ stream \in Seq(Pieces) /\ taken \in Nat /\ Len(stream) \in Nat /\ taken <= Len(stream)
      /\ MaxBufferBytes \in Nat /\ MaxChunk \in Nat
    BY ParserAssumption DEF LongInv, SseInv, Types
<1> DEFINE y == Arrived
<1>2. y \in Seq(Pieces) /\ Len(y) = taken /\ \A i \in 1..taken : y[i] = stream[i]
    BY <1>1 DEF Arrived
<1> HIDE DEF y
<1>3. CASE \E i \in 1..taken : stream[i] = "half"
    <2>1. PICK i \in 1..taken : stream[i] = "half"
        BY <1>3
    <2>2. i \in 1..Len(y) /\ y[i] = "half"
        BY <1>2, <2>1
    <2>3. "half" \in ToSet(y)
        BY <2>2 DEF ToSet
    <2> QED
        BY <2>3 DEF y
<1>4. CASE \E l \in 0..taken, b \in Seq(Pieces) :
             /\ RemainsOf(b, SubSeq(stream, 1, l))
             /\ EventEnd(b) = 0
             /\ MaxBufferBytes < Len(b) + MaxChunk
    <2>1. PICK l \in 0..taken, b \in Seq(Pieces) :
             /\ RemainsOf(b, SubSeq(stream, 1, l))
             /\ EventEnd(b) = 0
             /\ MaxBufferBytes < Len(b) + MaxChunk
        BY <1>4
    <2>2. l \in 0..Len(y) /\ SubSeq(y, 1, l) = SubSeq(stream, 1, l)
        <3>1. l \in 0..Len(y)
            BY <1>2
        <3> DEFINE u == SubSeq(y, 1, l)
                   v == SubSeq(stream, 1, l)
        <3>2. u \in Seq(Pieces) /\ Len(u) = l /\ \A i \in 1..l : u[i] = y[i]
            BY <1>1, <1>2
        <3>3. v \in Seq(Pieces) /\ Len(v) = l /\ \A i \in 1..l : v[i] = stream[i]
            BY <1>1
        <3>4. \A i \in 1..l : i \in 1..taken
            BY <1>1
        <3> HIDE DEF u, v
        <3>5. u = v
            BY <1>2, <3>2, <3>3, <3>4, SeqEqual
        <3> QED
            BY <3>1, <3>5 DEF u, v
    <2>3. PICK f : /\ Remains(f, b, SubSeq(y, 1, l))
                   /\ \A i \in 1..Len(b) : ~InPair(SubSeq(y, 1, l), f[i])
        BY <2>1, <2>2 DEF RemainsOf
    <2>4. LongestEvent(Normalized(y)) \in Nat /\ Len(b) <= LongestEvent(Normalized(y)) + 1
        BY <1>2, <2>1, <2>2, <2>3, RemainsIsLong
    <2>5. Len(b) \in Nat
        OBVIOUS
    <2>6. LongestEvent(Normalized(y)) >= MaxBufferBytes - MaxChunk
        BY <1>1, <2>1, <2>4, <2>5
    <2> QED
        BY <2>6 DEF y
<1> QED
    BY <1>3, <1>4 DEF LongInv, GivenUpRightly

\* What the buffer holds already fits when it is searched a last time: no text is
\* left to be added then, so the overflow that _consume_sse_events() may report
\* at the end of the stream never happens.
LEMMA NothingFits ==
    SseInv => ~Overflows(<<>>)
<1> SUFFICES ASSUME SseInv PROVE ~Overflows(<<>>)
    OBVIOUS
<1>1. /\ decode_buffer \in Seq(Pieces) /\ decode_buffer \o <<>> = decode_buffer
      /\ Len(decode_buffer) <= MaxBufferBytes
    BY DEF SseInv, Types, BufferBounded
<1> DEFINE s == Normalized(decode_buffer)
<1>2. Len(s) \in Nat /\ Len(s) <= Len(decode_buffer) /\ Len(decode_buffer) \in Nat
      /\ MaxBufferBytes \in Nat
    <2>1. s \in Seq(Pieces) /\ Len(s) <= Len(decode_buffer)
        BY <1>1, NormalizedShorter
    <2> HIDE DEF s
    <2> QED
        BY <1>1, <2>1, ParserAssumption
<1>3. Overflows(<<>>) <=> Len(s) > MaxBufferBytes
    BY <1>1 DEF Overflows, Buffered
<1> HIDE DEF s
<1> QED
    BY <1>1, <1>2, <1>3

\* What Gateway takes a chunk, or the end of the stream, to do to the usage of a
\* request: events are consumed, parsing is given up, or the extractor raises or
\* parsing was given up before, and then nothing changes.
GatewayParse ==
    \/ /\ parsing_enabled /\ parsing_enabled' /\ outcome' # "broken"
       /\ latest_usage' \in Usages \cup {latest_usage}
    \/ /\ parsing_enabled /\ ~parsing_enabled' /\ outcome' # "broken"
       /\ latest_usage' = latest_usage
    \/ /\ outcome' = "broken" => parsing_enabled
       /\ UNCHANGED <<latest_usage, parsing_enabled>>

\* A search of the buffer finds new usage or keeps the old.
LEMMA ConsumeParses ==
    ASSUME Types, parsing_enabled, NEW fragment \in Seq(Pieces), NEW next, next # "broken",
           Consume(fragment, next)
    PROVE  GatewayParse
<1> DEFINE all == Buffered(fragment)
           d == Drained(all, latest_usage)
           d0 == [rest |-> all, usage |-> latest_usage, raised |-> FALSE]
<1>1. all \in Seq(Pieces)
    <2>1. decode_buffer \o fragment \in Seq(Pieces)
        BY DEF Types
    <2> QED
        BY <2>1, NormalizedShorter DEF Buffered
<1>2. /\ parsing_enabled'
      /\ d.raised => outcome' = "broken" /\ latest_usage' = latest_usage
      /\ ~d.raised => outcome' = next /\ latest_usage' = d.usage
    BY DEF Consume
<1> HIDE DEF all
<1>3. Searched(d0, d)
    BY <1>1, DrainedIs DEF Types
<1>4. d.usage \in Usages \cup {latest_usage}
    <2> HIDE DEF d
    <2> QED
        BY <1>3 DEF Searched
<1> HIDE DEF d
<1>5. CASE d.raised
    BY <1>2, <1>5 DEF GatewayParse, Types
<1>6. CASE ~d.raised
    BY <1>2, <1>4, <1>6 DEF GatewayParse
<1> QED
    BY <1>5, <1>6

\* Every step of the parser is one that Gateway expects.
LEMMA EveryStepParses ==
    SseInv /\ [Next]_vars => [GatewayParse]_vars
<1> SUFFICES ASSUME SseInv, Next PROVE GatewayParse
    OBVIOUS
<1>1. Types
    BY DEF SseInv
<1>2. ASSUME NEW overflow, NEW next \in {"open", "complete"}, parsing_enabled,
             GiveUp(overflow, next)
      PROVE  GatewayParse
    BY <1>2 DEF GiveUp, GatewayParse
<1>3. CASE StreamEnds
    <2>1. <<>> \in Seq(Pieces)
        OBVIOUS
    <2>2. CASE parsing_enabled /\ Consume(<<>>, "complete")
        BY <1>1, <2>1, <2>2, ConsumeParses
    <2>3. CASE /\ ~parsing_enabled /\ outcome' = "complete"
               /\ UNCHANGED <<latest_usage, parsing_enabled>>
        BY <2>3 DEF GatewayParse
    <2>4. CASE parsing_enabled /\ GiveUp(FALSE, "complete")
        BY <1>2, <2>4
    <2> QED
        BY <1>3, <2>2, <2>3, <2>4 DEF StreamEnds
<1>4. ASSUME NEW n \in 1..MaxChunk, ChunkArrives(n)
      PROVE  GatewayParse
    <2> DEFINE fragment == Fragment(Chunk(n))
    <2>1. taken + n <= Len(stream) /\ taken' = taken + n /\ stream' = stream /\ outcome = "open"
        BY <1>4 DEF ChunkArrives
    <2>2. ~DecoderHolds => fragment \in Seq(Pieces)
        BY <1>1, <2>1, FedGrows
    <2> HIDE DEF fragment
    <2>3. CASE parsing_enabled /\ ~Undecodable(Chunk(n)) /\ Consume(fragment, "open")
        <3>1. fragment \in Seq(Pieces)
            BY <2>2, <2>3 DEF Undecodable
        <3> QED
            BY <1>1, <2>3, <3>1, ConsumeParses
    <2>4. CASE ~parsing_enabled /\ UNCHANGED <<latest_usage, parsing_enabled, outcome>>
        BY <2>1, <2>4 DEF GatewayParse
    <2>5. ASSUME NEW overflow, parsing_enabled, GiveUp(overflow, "open")
          PROVE  GatewayParse
        BY <1>2, <2>5
    <2> QED
        BY <1>4, <2>3, <2>4, <2>5 DEF ChunkArrives, fragment
<1> QED
    BY <1>3, <1>4 DEF Next

-----------------------------------------------------------------------------
(* The results.                                                             *)

\* The buffer kept between two chunks never exceeds its bound and never holds a
\* complete event, whatever the answer and the chunks are (BufferBounded).
THEOREM BufferStaysBounded ==
    Spec => []BufferBounded
<1>1. SseInv => BufferBounded
    BY DEF SseInv
<1> QED
    BY <1>1, SseInvariance, PTL

\* However an answer of any length is cut into chunks, the usage at hand is the
\* one a reader of the text in one piece knows (UsageIndependentOfChunks).
THEOREM ChunksDoNotMatter ==
    Spec => []UsageIndependentOfChunks
<1> QED
    BY ReaderAgrees, SseInvariance, PTL

\* The parser gives a response up only over bytes it cannot decode or over an
\* event that, with one more chunk, is too long for the buffer, whatever the
\* answer and the chunks are (GivesUpOnLongEventsOnly).
THEOREM ShortEventsNeverGivenUp ==
    Spec => []GivesUpOnLongEventsOnly
<1>1. Init => LongInv
    BY LongInit
<1>2. LongInv /\ [Next]_vars => LongInv'
    BY LongStep
<1>3. LongInv => GivesUpOnLongEventsOnly
    BY GivenUpOverLength
<1> QED
    BY <1>1, <1>2, <1>3, PTL DEF Spec

\* When the stream is over, the buffer cannot overflow any more: StreamEnds needs
\* no case for the overflow that its code provides for.
THEOREM EndCannotOverflow ==
    Spec => []~Overflows(<<>>)
<1> QED
    BY NothingFits, SseInvariance, PTL

\* The choices that Gateway leaves open for what a chunk does to the usage of a
\* request (its Parse and StreamBreaks) cover all that the parser does: no
\* usage found is ever lost, and parsing that was given up is never resumed.
THEOREM ParserServesGateway ==
    Spec => [][GatewayParse]_vars
<1> QED
    BY EveryStepParses, SseInvariance, PTL DEF Spec
=============================================================================
