-------------------------- MODULE AlgorithmProofs --------------------------
(***************************************************************************)
(* What the loop of Filtering returns, for every sequence: the elements    *)
(* that are kept, each at its rank; what Sorting returns, for every finite *)
(* set: each element once; and what the table of EditDistance holds, for   *)
(* any two sequences: a distance of two at most where two edits lead from  *)
(* one to the other, and nowhere else.  The proofs are inductions over the *)
(* length, the size or the table, by the least counterexample.             *)
(***************************************************************************)
EXTENDS Filtering, Sorting, EditDistance, FiniteSetTheorems, WellFoundedInduction, TLAPS

\* Every set of naturals that is not empty has a least element.
LEMMA LeastNat ==
    ASSUME NEW T, T \subseteq Nat, T # {}
    PROVE  \E x \in T : \A y \in T : x <= y
<1>1. IsWellFoundedOn(OpToRel(<, Nat), Nat)
  BY NatLessThanWellFounded, Zenon
<1>2. ASSUME NEW x \in Nat, NEW y \in Nat, ~(<<y, x>> \in OpToRel(<, Nat)) PROVE x <= y
  <2>1. ~(y < x)
    BY <1>2 DEF OpToRel
  <2> QED BY <2>1
<1>3. PICK x \in T : \A y \in T : ~ (<<y, x>> \in OpToRel(<, Nat))
  BY <1>1, WFMin, Zenon
<1>4. \A y \in T : x <= y
  <2> TAKE y \in T
  <2>1. ~ (<<y, x>> \in OpToRel(<, Nat))
    BY <1>3, Zenon
  <2>2. x \in Nat /\ y \in Nat
    OBVIOUS
  <2> QED BY <2>1, <2>2, <1>2, Zenon
<1> QED BY <1>4

\* Induction, for a property given by the set of the numbers that have it.
LEMMA SetInduction ==
    ASSUME NEW S, NEW n \in Nat, 0 \in S, \A i \in 0..(n - 1) : i \in S => i + 1 \in S
    PROVE  \A i \in 0..n : i \in S
<1> SUFFICES ASSUME NEW m \in 0..n, m \notin S PROVE FALSE
  OBVIOUS
<1> DEFINE T == {i \in 0..n : i \notin S}
<1>1. PICK x \in T : \A y \in T : x <= y
  <2>1. T \subseteq Nat /\ T # {}
    OBVIOUS
  <2> HIDE DEF T
  <2> QED BY <2>1, LeastNat
<1>2. x # 0 /\ x \in 0..n
  OBVIOUS
<1>3. x - 1 \in 0..(n - 1) /\ x - 1 \notin T
  BY <1>1, <1>2
<1> QED BY <1>2, <1>3

\* The loop, when it has seen the first n elements.
Loop(f, s, D, n) ==
    f = [i \in 0..n |-> IF i = 0 THEN << >>
                        ELSE IF s[i] \in D THEN f[i - 1] ELSE Append(f[i - 1], s[i])]

LEMMA LoopAt ==
    ASSUME NEW f, NEW s, NEW D, NEW n \in Nat, Loop(f, s, D, n), NEW i \in 0..n
    PROVE  f[i] = IF i = 0 THEN << >>
                  ELSE IF s[i] \in D THEN f[i - 1] ELSE Append(f[i - 1], s[i])
<1> DEFINE h == [j \in 0..n |-> IF j = 0 THEN << >>
                        ELSE IF s[j] \in D THEN f[j - 1] ELSE Append(f[j - 1], s[j])]
<1>1. h[i] = IF i = 0 THEN << >>
             ELSE IF s[i] \in D THEN f[i - 1] ELSE Append(f[i - 1], s[i])
  OBVIOUS
<1>2. f = h
  BY DEF Loop
<1> HIDE DEF h
<1> QED BY <1>1, <1>2

LEMMA LoopExists ==
    ASSUME NEW s, NEW D, NEW n \in Nat
    PROVE  \E f : Loop(f, s, D, n)
<1> DEFINE S == {m \in 0..n : \E f : Loop(f, s, D, m)}
<1>1. 0 \in S
  <2> DEFINE f == [i \in 0..0 |-> << >>]
  <2>1. Loop(f, s, D, 0)
    BY DEF Loop
  <2> QED BY <2>1
<1>2. ASSUME NEW m \in 0..(n - 1), m \in S PROVE m + 1 \in S
  <2>1. PICK f : Loop(f, s, D, m)
    BY <1>2
  <2> DEFINE g == [i \in 0..(m + 1) |-> IF i <= m THEN f[i]
                       ELSE IF s[i] \in D THEN f[m] ELSE Append(f[m], s[i])]
  <2>2. Loop(g, s, D, m + 1)
    <3> SUFFICES ASSUME NEW i \in 0..(m + 1)
                 PROVE  g[i] = IF i = 0 THEN << >>
                        ELSE IF s[i] \in D THEN g[i - 1] ELSE Append(g[i - 1], s[i])
      BY DEF Loop
    <3>1. CASE i <= m
      <4>1. f[i] = IF i = 0 THEN << >>
                        ELSE IF s[i] \in D THEN f[i - 1] ELSE Append(f[i - 1], s[i])
        BY <2>1, <3>1, LoopAt
      <4>2. g[i] = f[i] /\ (i # 0 => g[i - 1] = f[i - 1])
        BY <3>1
      <4> QED BY <4>1, <4>2
    <3>2. CASE i = m + 1
      <4>1. i # 0 /\ g[i - 1] = f[m]
        BY <3>2
      <4> QED BY <4>1, <3>2
    <3> QED BY <3>1, <3>2
  <2> QED BY <2>2
<1>3. \A i \in 0..n : i \in S
  <2> HIDE DEF S
  <2> QED BY <1>1, <1>2, SetInduction
<1> QED BY <1>3

LEMMA WithoutLoop ==
    ASSUME NEW s, NEW D, Len(s) \in Nat
    PROVE  \E f : Loop(f, s, D, Len(s)) /\ Without(s, D) = f[Len(s)]
<1> DEFINE f == CHOOSE f : Loop(f, s, D, Len(s))
<1>1. Loop(f, s, D, Len(s))
  BY LoopExists
<1>2. Without(s, D) = f[Len(s)]
  BY DEF Without, Loop
<1> QED BY <1>1, <1>2

\* The places of the elements that are kept, among the first m.
Kept(s, D, m) == {j \in 1..m : s[j] \notin D}
Rank(s, D, i) == Cardinality(Kept(s, D, i))

\* x holds the elements kept among the first m of s, each at its rank.
Ranked(x, s, D, m) ==
    /\ Len(x) = Rank(s, D, m)
    /\ \A i \in Kept(s, D, m) : Rank(s, D, i) \in 1..Len(x) /\ x[Rank(s, D, i)] = s[i]
    /\ \A k \in 1..Len(x) : \E i \in Kept(s, D, m) : Rank(s, D, i) = k

LEMMA KeptFinite ==
    ASSUME NEW s, NEW D, NEW m \in Nat
    PROVE  IsFiniteSet(Kept(s, D, m)) /\ Rank(s, D, m) \in Nat /\ Rank(s, D, m) <= m
<1>1. IsFiniteSet(1..m) /\ Cardinality(1..m) = m
  BY FS_Interval
<1>2. Kept(s, D, m) \subseteq 1..m
  BY DEF Kept
<1>3. IsFiniteSet(Kept(s, D, m)) /\ Cardinality(Kept(s, D, m)) <= Cardinality(1..m)
  BY <1>1, <1>2, FS_Subset
<1>4. Cardinality(Kept(s, D, m)) \in Nat
  BY <1>3, FS_CardinalityType
<1> QED BY <1>1, <1>3, <1>4 DEF Rank

LEMMA KeptNext ==
    ASSUME NEW s, NEW D, NEW m \in Nat
    PROVE  /\ s[m + 1] \in D => Kept(s, D, m + 1) = Kept(s, D, m) /\ Rank(s, D, m + 1) = Rank(s, D, m)
           /\ s[m + 1] \notin D => /\ Kept(s, D, m + 1) = Kept(s, D, m) \cup {m + 1}
                                   /\ Rank(s, D, m + 1) = Rank(s, D, m) + 1
<1>1. s[m + 1] \in D => Kept(s, D, m + 1) = Kept(s, D, m)
  BY DEF Kept
<1>2. s[m + 1] \notin D => Kept(s, D, m + 1) = Kept(s, D, m) \cup {m + 1}
  BY DEF Kept
<1>3. m + 1 \notin Kept(s, D, m)
  BY DEF Kept
<1>4. Cardinality(Kept(s, D, m) \cup {m + 1}) = Cardinality(Kept(s, D, m)) + 1
  BY <1>3, KeptFinite, FS_AddElement
<1> QED BY <1>1, <1>2, <1>4 DEF Rank

LEMMA LoopRanked ==
    ASSUME NEW S, NEW s \in Seq(S), NEW D, NEW f, Loop(f, s, D, Len(s))
    PROVE  \A m \in 0..Len(s) : f[m] \in Seq(S) /\ Ranked(f[m], s, D, m)
<1> DEFINE n == Len(s)
           T == {m \in 0..n : f[m] \in Seq(S) /\ Ranked(f[m], s, D, m)}
<1>0. n \in Nat
  OBVIOUS
<1>1. 0 \in T
  <2>1. f[0] = << >>
    BY <1>0, LoopAt
  <2>2. Kept(s, D, 0) = {}
    BY DEF Kept
  <2>3. Rank(s, D, 0) = 0
    BY <2>2, FS_EmptySet DEF Rank
  <2>4. f[0] \in Seq(S) /\ Len(f[0]) = 0
    BY <2>1
  <2>5. Ranked(f[0], s, D, 0)
    BY <2>2, <2>3, <2>4 DEF Ranked
  <2> QED BY <1>0, <2>4, <2>5
<1>2. ASSUME NEW m \in 0..(n - 1), m \in T PROVE m + 1 \in T
  <2> DEFINE x == f[m]
             y == f[m + 1]
  <2>1. m \in Nat /\ m + 1 \in 0..n /\ s[m + 1] \in S
    OBVIOUS
  <2>2. x \in Seq(S) /\ Ranked(x, s, D, m)
    BY <1>2
  <2>3. y = IF s[m + 1] \in D THEN x ELSE Append(x, s[m + 1])
    <3>1. f[m + 1] = IF m + 1 = 0 THEN << >>
                     ELSE IF s[m + 1] \in D THEN f[(m + 1) - 1] ELSE Append(f[(m + 1) - 1], s[m + 1])
      BY <1>0, <2>1, LoopAt
    <3> QED BY <2>1, <3>1
  <2> HIDE DEF x, y
  <2>4. CASE s[m + 1] \in D
    <3>1. y \in Seq(S) /\ Ranked(y, s, D, m + 1)
      BY <2>1, <2>2, <2>3, <2>4, KeptNext DEF Ranked
    <3> QED BY <2>1, <3>1 DEF y
  <2>5. CASE s[m + 1] \notin D
    <3>1. y \in Seq(S) /\ Len(y) = Len(x) + 1 /\ Len(x) \in Nat
      BY <2>1, <2>2, <2>3, <2>5
    <3>2. /\ \A k \in 1..Len(x) : y[k] = x[k]
          /\ y[Len(x) + 1] = s[m + 1]
      BY <2>1, <2>2, <2>3, <2>5
    <3>3. /\ Kept(s, D, m + 1) = Kept(s, D, m) \cup {m + 1}
          /\ Rank(s, D, m + 1) = Rank(s, D, m) + 1
      BY <2>1, <2>5, KeptNext
    <3>4. Len(y) = Rank(s, D, m + 1)
      BY <2>2, <3>1, <3>3 DEF Ranked
    <3>5. ASSUME NEW i \in Kept(s, D, m + 1)
          PROVE  Rank(s, D, i) \in 1..Len(y) /\ y[Rank(s, D, i)] = s[i]
      <4>1. CASE i = m + 1
        BY <4>1, <3>1, <3>2, <3>4
      <4>2. CASE i \in Kept(s, D, m)
        BY <4>2, <2>2, <3>1, <3>2 DEF Ranked
      <4> QED BY <4>1, <4>2, <3>3
    <3>6. ASSUME NEW k \in 1..Len(y)
          PROVE  \E i \in Kept(s, D, m + 1) : Rank(s, D, i) = k
      <4>1. CASE k \in 1..Len(x)
        BY <4>1, <2>2, <3>3 DEF Ranked
      <4>2. CASE k = Len(x) + 1
        BY <4>2, <3>1, <3>3, <3>4
      <4> QED BY <4>1, <4>2, <3>1
    <3>7. Ranked(y, s, D, m + 1)
      BY <3>4, <3>5, <3>6 DEF Ranked
    <3> QED BY <2>1, <3>1, <3>7 DEF y
  <2> QED BY <2>4, <2>5
<1>3. \A m \in 0..n : m \in T
  <2> HIDE DEF T, n
  <2> QED BY <1>0, <1>1, <1>2, SetInduction
<1> QED BY <1>3

\* What the loop returns: the elements kept, each at its rank.
LEMMA WithoutRanked ==
    ASSUME NEW S, NEW s \in Seq(S), NEW D
    PROVE  Without(s, D) \in Seq(S) /\ Ranked(Without(s, D), s, D, Len(s))
<1>1. PICK f : Loop(f, s, D, Len(s)) /\ Without(s, D) = f[Len(s)]
  BY WithoutLoop
<1> QED BY <1>1, LoopRanked

LEMMA RankMonotone ==
    ASSUME NEW s, NEW D, NEW n \in Nat, NEW i \in Kept(s, D, n), NEW j \in Kept(s, D, n), i < j
    PROVE  Rank(s, D, i) < Rank(s, D, j)
<1>1. i \in Nat /\ j \in Nat /\ j \notin Kept(s, D, i)
  BY DEF Kept
<1>2. Kept(s, D, i) \cup {j} \subseteq Kept(s, D, j)
  BY DEF Kept
<1>3. Cardinality(Kept(s, D, i) \cup {j}) = Cardinality(Kept(s, D, i)) + 1
  BY <1>1, KeptFinite, FS_AddElement
<1>4. Cardinality(Kept(s, D, i) \cup {j}) <= Cardinality(Kept(s, D, j))
  BY <1>1, <1>2, KeptFinite, FS_Subset
<1>5. Rank(s, D, i) \in Nat /\ Rank(s, D, j) \in Nat
  BY <1>1, KeptFinite
<1> QED BY <1>3, <1>4, <1>5 DEF Rank

\* The loop keeps what is not in D, no more elements than there were, and
\* gives no element twice unless it was there twice.
LEMMA WithoutElements ==
    ASSUME NEW S, NEW s \in Seq(S), NEW D
    PROVE  /\ Without(s, D) \in Seq(S \ D)
           /\ Len(Without(s, D)) <= Len(s)
           /\ \A x : (\E k \in 1..Len(Without(s, D)) : Without(s, D)[k] = x)
                        <=> x \notin D /\ \E i \in 1..Len(s) : s[i] = x
           /\ (\A i, j \in 1..Len(s) : s[i] = s[j] => i = j) =>
                  \A k, l \in 1..Len(Without(s, D)) :
                      Without(s, D)[k] = Without(s, D)[l] => k = l
<1> DEFINE w == Without(s, D)
           n == Len(s)
<1>1. w \in Seq(S) /\ Ranked(w, s, D, n) /\ n \in Nat
  BY WithoutRanked
<1> HIDE DEF w
<1>2. Len(w) <= n
  BY <1>1, KeptFinite DEF Ranked
<1>3. ASSUME NEW k \in 1..Len(w)
      PROVE  \E i \in Kept(s, D, n) : Rank(s, D, i) = k /\ w[k] = s[i]
  BY <1>1 DEF Ranked
<1>4. \A k \in 1..Len(w) : w[k] \notin D /\ \E i \in 1..n : s[i] = w[k]
  BY <1>3 DEF Kept
<1>5. ASSUME NEW i \in 1..n, s[i] \notin D
      PROVE  \E k \in 1..Len(w) : w[k] = s[i]
  <2>1. i \in Kept(s, D, n)
    BY <1>5 DEF Kept
  <2> QED BY <1>1, <2>1 DEF Ranked
<1>6. w \in Seq(S \ D)
  <2>1. \A k \in 1..Len(w) : w[k] \in S \ D
    BY <1>1, <1>4
  <2> QED BY <1>1, <2>1
<1>7. ASSUME \A i, j \in 1..n : s[i] = s[j] => i = j, NEW k \in 1..Len(w), NEW l \in 1..Len(w), w[k] = w[l]
      PROVE  k = l
  <2>1. PICK i \in Kept(s, D, n) : Rank(s, D, i) = k /\ w[k] = s[i]
    BY <1>3
  <2>2. PICK j \in Kept(s, D, n) : Rank(s, D, j) = l /\ w[l] = s[j]
    BY <1>3
  <2>3. i = j
    BY <1>7, <2>1, <2>2 DEF Kept
  <2> QED BY <2>1, <2>2, <2>3
<1> QED BY <1>2, <1>4, <1>5, <1>6, <1>7 DEF w

\* A part of a sequence.
LEMMA Slice ==
    ASSUME NEW S, NEW x \in Seq(S), NEW a \in Nat, NEW b \in 0..Len(x), a <= b
    PROVE  /\ SubSeq(x, a + 1, b) \in Seq(S) /\ Len(SubSeq(x, a + 1, b)) = b - a
           /\ \A i \in 1..(b - a) : SubSeq(x, a + 1, b)[i] = x[a + i]
OBVIOUS

-----------------------------------------------------------------------------
(* Sorting. *)

\* Of two elements one comes first, and what comes before what is consistent.
Orders(R, S) ==
    /\ \A x, y \in S : x # y => <<x, y>> \in R \/ <<y, x>> \in R
    /\ \A x, y \in S : ~ (<<x, y>> \in R /\ <<y, x>> \in R)
    /\ \A x, y, z \in S : <<x, y>> \in R /\ <<y, z>> \in R => <<x, z>> \in R

\* A finite set has an element that comes last.
LEMMA LastExists ==
    ASSUME NEW S, IsFiniteSet(S), S # {}, NEW R, Orders(R, S)
    PROVE  \E m \in S : \A x \in S \ {m} : <<x, m>> \in R
<1> DEFINE HasLast(T) == \E m \in T : \A x \in T \ {m} : <<x, m>> \in R
           G == {k \in Nat : \A T \in SUBSET S : Cardinality(T) = k /\ T # {} => HasLast(T)}
<1>0. \A T \in SUBSET S : IsFiniteSet(T) /\ Cardinality(T) \in Nat
  BY FS_Subset, FS_CardinalityType
<1>1. 0 \in G
  BY <1>0, FS_EmptySet
<1>2. ASSUME NEW k \in Nat, k \in G PROVE k + 1 \in G
  <2> SUFFICES ASSUME NEW T \in SUBSET S, Cardinality(T) = k + 1, T # {} PROVE HasLast(T)
    OBVIOUS
  <2>1. PICK y \in T : TRUE
    OBVIOUS
  <2>2. T \ {y} \in SUBSET S /\ Cardinality(T \ {y}) = k
    BY <1>0, FS_RemoveElement
  <2>3. CASE T \ {y} = {}
    BY <2>3
  <2>4. CASE T \ {y} # {}
    <3>1. PICK m \in T \ {y} : \A x \in (T \ {y}) \ {m} : <<x, m>> \in R
      BY <1>2, <2>2, <2>4
    <3>2. m \in S /\ y \in S /\ m # y
      OBVIOUS
    <3>3. CASE <<y, m>> \in R
      <4>1. \A x \in T \ {m} : <<x, m>> \in R
        BY <3>1, <3>3
      <4> QED BY <4>1
    <3>4. CASE <<m, y>> \in R
      <4>1. \A x \in T \ {y} : <<x, y>> \in R
        <5> TAKE x \in T \ {y}
        <5>1. x = m \/ <<x, m>> \in R
          BY <3>1
        <5>2. x \in S
          OBVIOUS
        <5> QED BY <5>1, <5>2, <3>2, <3>4 DEF Orders
      <4> QED BY <4>1
    <3> QED BY <3>2, <3>3, <3>4 DEF Orders
  <2> QED BY <2>3, <2>4
<1>3. Cardinality(S) \in G
  <2>1. Cardinality(S) \in Nat
    BY <1>0
  <2> HIDE DEF G
  <2>2. \A i \in 0..Cardinality(S) : i \in G
    BY <2>1, <1>1, <1>2, SetInduction
  <2> QED BY <2>1, <2>2
<1> QED BY <1>3

Arranged(s, S, R) ==
    /\ s \in [1..Cardinality(S) -> S]
    /\ \A i, j \in 1..Cardinality(S) : i < j => <<s[i], s[j]>> \in R

LEMMA SortedExists ==
    ASSUME NEW S, IsFiniteSet(S), NEW R, Orders(R, S)
    PROVE  \E s : Arranged(s, S, R)
<1> DEFINE G == {k \in Nat : \A T \in SUBSET S : Cardinality(T) = k => \E s : Arranged(s, T, R)}
<1>0. \A T \in SUBSET S : IsFiniteSet(T) /\ Cardinality(T) \in Nat
  BY FS_Subset, FS_CardinalityType
<1>1. 0 \in G
  <2> SUFFICES ASSUME NEW T \in SUBSET S, Cardinality(T) = 0 PROVE \E s : Arranged(s, T, R)
    OBVIOUS
  <2> DEFINE s == [i \in 1..0 |-> i]
  <2>1. Arranged(s, T, R)
    BY DEF Arranged
  <2> QED BY <2>1
<1>2. ASSUME NEW k \in Nat, k \in G PROVE k + 1 \in G
  <2> SUFFICES ASSUME NEW T \in SUBSET S, Cardinality(T) = k + 1 PROVE \E s : Arranged(s, T, R)
    OBVIOUS
  <2>1. T # {} /\ IsFiniteSet(T) /\ Orders(R, T)
    <3>1. Orders(R, T)
      BY DEF Orders
    <3>2. Cardinality(T) # 0
      <4>1. \A i \in Nat : i + 1 # 0
        OBVIOUS
      <4> QED BY <4>1, Zenon
    <3>3. T # {}
      BY <3>2, FS_EmptySet, Zenon
    <3>4. IsFiniteSet(T)
      BY <1>0
    <3> QED BY <3>1, <3>3, <3>4
  <2>2. PICK m \in T : \A x \in T \ {m} : <<x, m>> \in R
    BY <2>1, LastExists
  <2>3. T \ {m} \in SUBSET S /\ Cardinality(T \ {m}) = k
    <3>1. Cardinality(T \ {m}) = Cardinality(T) - 1
      BY <2>1, FS_RemoveElement
    <3> QED BY <3>1
  <2>4. PICK s : Arranged(s, T \ {m}, R)
    BY <1>2, <2>3
  <2> DEFINE t == [i \in 1..(k + 1) |-> IF i <= k THEN s[i] ELSE m]
  <2>5. \A i \in 1..k : s[i] \in T \ {m}
    BY <2>3, <2>4 DEF Arranged
  <2>6. t \in [1..(k + 1) -> T]
    BY <2>5
  <2>7. ASSUME NEW i \in 1..(k + 1), NEW j \in 1..(k + 1), i < j PROVE <<t[i], t[j]>> \in R
    <3>1. CASE j <= k
      <4>1. t[i] = s[i] /\ t[j] = s[j] /\ i \in 1..k /\ j \in 1..k
        BY <2>7, <3>1
      <4> QED BY <2>3, <2>4, <2>7, <4>1 DEF Arranged
    <3>2. CASE j = k + 1
      <4>1. i \in 1..k /\ t[i] = s[i] /\ t[j] = m
        BY <2>7, <3>2
      <4> QED BY <2>2, <2>5, <4>1
    <3> QED BY <3>1, <3>2
  <2> HIDE DEF t
  <2>8. Arranged(t, T, R)
    BY <2>6, <2>7 DEF Arranged
  <2> QED BY <2>8
<1>3. Cardinality(S) \in G
  <2>1. Cardinality(S) \in Nat
    BY <1>0
  <2> HIDE DEF G
  <2>2. \A i \in 0..Cardinality(S) : i \in G
    BY <2>1, <1>1, <1>2, SetInduction
  <2> QED BY <2>1, <2>2
<1> QED BY <1>3

\* Sorting gives every element once.
LEMMA SortedElements ==
    ASSUME NEW S, IsFiniteSet(S), NEW R, Orders(R, S)
    PROVE  /\ Sorted(S, R) \in Seq(S) /\ Len(Sorted(S, R)) = Cardinality(S)
           /\ \A x : x \in S <=> \E i \in 1..Cardinality(S) : Sorted(S, R)[i] = x
<1> DEFINE s == Sorted(S, R)
           n == Cardinality(S)
<1>1. Arranged(s, S, R)
  <2>1. PICK t : Arranged(t, S, R)
    BY SortedExists
  <2> QED BY <2>1 DEF Arranged, Sorted
<1>2. n \in Nat
  BY FS_CardinalityType
<1> HIDE DEF s
<1>3. s \in [1..n -> S]
  BY <1>1 DEF Arranged
<1>4. \A i, j \in 1..n : i # j => s[i] # s[j]
  <2> SUFFICES ASSUME NEW i \in 1..n, NEW j \in 1..n, i < j, s[i] = s[j] PROVE FALSE
    BY <1>2
  <2>1. <<s[i], s[j]>> \in R /\ s[i] \in S
    BY <1>1, <1>3 DEF Arranged
  <2> QED BY <2>1 DEF Orders
<1>5. s \in Injection(1..n, S)
  BY <1>3, <1>4 DEF Injection, IsInjective
<1>6. IsFiniteSet(1..n) /\ Cardinality(1..n) = n
  BY <1>2, FS_Interval
<1>7. s \in Surjection(1..n, S)
  BY <1>5, <1>6, FS_Injection
<1>8. \A x \in S : \E i \in 1..n : s[i] = x
  BY <1>7 DEF Surjection
<1>9. s \in Seq(S) /\ Len(s) = n
  BY <1>2, <1>3
<1> QED BY <1>3, <1>8, <1>9 DEF s

-----------------------------------------------------------------------------
(* The edit distance. *)

\* Induction over a table whose entries depend on entries nearer to the corner.
LEMMA GridInduction ==
    ASSUME NEW a \in Nat, NEW b \in Nat, NEW P,
           \A i \in 0..a, j \in 0..b :
               (\A p \in 0..a, q \in 0..b : p + q < i + j => <<p, q>> \in P) => <<i, j>> \in P
    PROVE  \A i \in 0..a, j \in 0..b : <<i, j>> \in P
<1> SUFFICES ASSUME NEW i \in 0..a, NEW j \in 0..b, <<i, j>> \notin P PROVE FALSE
  OBVIOUS
<1> DEFINE T == {n \in Nat : \E p \in 0..a, q \in 0..b : n = p + q /\ <<p, q>> \notin P}
<1>0. ASSUME NEW p \in 0..a, NEW q \in 0..b, <<p, q>> \notin P PROVE p + q \in T
  <2>1. p + q \in Nat
    OBVIOUS
  <2> QED BY <1>0, <2>1, Zenon
<1>1. T \subseteq Nat /\ i + j \in T
  BY <1>0
<1>2. PICK n \in T : \A m \in T : n <= m
  <2> HIDE DEF T
  <2> QED BY <1>1, LeastNat
<1>3. PICK p \in 0..a, q \in 0..b : n = p + q /\ <<p, q>> \notin P
  OBVIOUS
<1>4. ASSUME NEW p2 \in 0..a, NEW q2 \in 0..b, p2 + q2 < p + q PROVE <<p2, q2>> \in P
  <2> SUFFICES ASSUME <<p2, q2>> \notin P PROVE FALSE
    OBVIOUS
  <2>1. p2 + q2 \in T
    BY <1>0
  <2>2. n <= p2 + q2
    BY <1>2, <2>1
  <2> QED BY <2>2, <1>3, <1>4
<1> QED BY <1>3, <1>4

Cost(x, y) == IF x # y THEN 1 ELSE 0

Cell(d, l, r, i, j) ==
    IF i = 0 THEN j ELSE IF j = 0 THEN i
    ELSE Min({d[<<i - 1, j>>] + 1, d[<<i, j - 1>>] + 1, d[<<i - 1, j - 1>>] + (IF l[i] # r[j] THEN 1 ELSE 0)})

Computed(d, l, r) == d = [c \in (0..Len(l)) \X (0..Len(r)) |-> Cell(d, l, r, c[1], c[2])]

LEMMA ComputedExists ==
    ASSUME NEW l, NEW r, Len(l) \in Nat, Len(r) \in Nat
    PROVE  \E d : Computed(d, l, r)
<1> DEFINE I == 0..Len(l)
           J == 0..Len(r)
           Upto(d, n) == \A i \in I, j \in J : i + j <= n => d[<<i, j>>] = Cell(d, l, r, i, j)
           Is(d, e) == d = [c \in I \X J |-> e[c]]
           S == {n \in Nat : \E d : Is(d, d) /\ Upto(d, n)}
<1>1. 0 \in S
  <2> DEFINE d == [c \in I \X J |-> 0]
  <2>1. \A i \in I, j \in J : d[<<i, j>>] = 0
    OBVIOUS
  <2>2. Is(d, d)
    OBVIOUS
  <2>3. Upto(d, 0)
    <3> HIDE DEF d
    <3> QED BY <2>1 DEF Cell
  <2> QED BY <2>2, <2>3
<1>2. ASSUME NEW n \in Nat, n \in S PROVE n + 1 \in S
  <2>1. PICK d : Is(d, d) /\ Upto(d, n)
    BY <1>2
  <2> DEFINE e == [c \in I \X J |-> IF c[1] + c[2] <= n THEN d[c] ELSE Cell(d, l, r, c[1], c[2])]
  <2>2. \A i \in I, j \in J : e[<<i, j>>] = IF i + j <= n THEN d[<<i, j>>] ELSE Cell(d, l, r, i, j)
    OBVIOUS
  <2>3. Is(e, e)
    OBVIOUS
  <2> HIDE DEF e
  <2>4. ASSUME NEW i \in I, NEW j \in J, i + j <= n + 1 PROVE e[<<i, j>>] = Cell(e, l, r, i, j)
    <3>1. e[<<i, j>>] = Cell(d, l, r, i, j)
      BY <2>1, <2>2
    <3>2. CASE i = 0 \/ j = 0
      BY <3>1, <3>2 DEF Cell
    <3>3. CASE i # 0 /\ j # 0
      <4>1. /\ i - 1 \in I /\ j - 1 \in J /\ (i - 1) + j <= n /\ i + (j - 1) <= n
            /\ (i - 1) + (j - 1) <= n
        BY <2>4, <3>3
      <4>2. e[<<i - 1, j>>] = d[<<i - 1, j>>] /\ e[<<i, j - 1>>] = d[<<i, j - 1>>] /\ e[<<i - 1, j - 1>>] = d[<<i - 1, j - 1>>]
        BY <4>1, <2>2
      <4> QED BY <3>1, <3>3, <4>2 DEF Cell
    <3> QED BY <3>2, <3>3
  <2>5. Upto(e, n + 1)
    BY <2>4, Zenon
  <2>6. n + 1 \in Nat
    OBVIOUS
  <2> HIDE DEF Upto, Is
  <2> QED BY <2>3, <2>5, <2>6, Zenon
<1>3. Len(l) + Len(r) \in S
  <2>1. Len(l) + Len(r) \in Nat
    OBVIOUS
  <2> HIDE DEF S
  <2> QED BY <2>1, <1>1, <1>2, SetInduction
<1>4. PICK d : Is(d, d) /\ Upto(d, Len(l) + Len(r))
  BY <1>3
<1>5. \A i \in I, j \in J : d[<<i, j>>] = Cell(d, l, r, i, j)
  <2>1. \A i \in I, j \in J : i + j <= Len(l) + Len(r)
    OBVIOUS
  <2> QED BY <1>4, <2>1
<1>6. d = [c \in I \X J |-> Cell(d, l, r, c[1], c[2])]
  <2>1. \A c \in I \X J : c[1] \in I /\ c[2] \in J /\ c = <<c[1], c[2]>>
    OBVIOUS
  <2>2. \A c \in I \X J : d[c] = Cell(d, l, r, c[1], c[2])
    BY <1>5, <2>1, Zenon
  <2>3. d = [c \in I \X J |-> d[c]]
    BY <1>4
  <2> QED BY <2>2, <2>3, Zenon
<1> QED BY <1>6 DEF Computed

\* What the two loops compute: an entry v from its neighbours.
Entry(v, up, left, diagonal, cost) ==
    /\ v <= up + 1 /\ v <= left + 1 /\ v <= diagonal + cost
    /\ v = up + 1 \/ v = left + 1 \/ v = diagonal + cost

Table(d, l, r) ==
    \A i \in 0..Len(l), j \in 0..Len(r) :
        /\ d[<<i, j>>] \in Nat
        /\ i = 0 => d[<<i, j>>] = j
        /\ j = 0 => d[<<i, j>>] = i
        /\ i # 0 /\ j # 0 =>
               Entry(d[<<i, j>>], d[<<i - 1, j>>], d[<<i, j - 1>>], d[<<i - 1, j - 1>>],
                     Cost(l[i], r[j]))

LEMMA LeastOfThree ==
    ASSUME NEW a \in Nat, NEW b \in Nat, NEW c \in Nat
    PROVE  /\ Min({a, b, c}) \in {a, b, c}
           /\ Min({a, b, c}) <= a /\ Min({a, b, c}) <= b /\ Min({a, b, c}) <= c
<1>1. \E x \in {a, b, c} : \A y \in {a, b, c} : x <= y
  OBVIOUS
<1> QED BY <1>1 DEF Min

LEMMA DistanceTable ==
    ASSUME NEW l, NEW r, Len(l) \in Nat, Len(r) \in Nat
    PROVE  \E d : Table(d, l, r) /\ LevenshteinDistance(l, r) = d[<<Len(l), Len(r)>>]
<1> DEFINE d == CHOOSE d : Computed(d, l, r)
           I == 0..Len(l)
           J == 0..Len(r)
<1>1. Computed(d, l, r)
  BY ComputedExists
<1>2. LevenshteinDistance(l, r) = d[<<Len(l), Len(r)>>]
  BY Zenon DEF LevenshteinDistance, Computed, Cell
<1> HIDE DEF d
<1>3. \A i \in I, j \in J : d[<<i, j>>] = Cell(d, l, r, i, j)
  <2> DEFINE e == [c \in I \X J |-> Cell(d, l, r, c[1], c[2])]
  <2>1. d = e
    BY <1>1 DEF Computed
  <2>2. \A i \in I, j \in J : e[<<i, j>>] = Cell(d, l, r, i, j)
    OBVIOUS
  <2> HIDE DEF e
  <2> QED BY <2>1, <2>2
<1> DEFINE P == {p \in I \X J : d[p] \in Nat}
<1>4. ASSUME NEW i \in I, NEW j \in J, i # 0, j # 0,
             d[<<i - 1, j>>] \in Nat, d[<<i, j - 1>>] \in Nat, d[<<i - 1, j - 1>>] \in Nat
      PROVE  /\ d[<<i, j>>] \in Nat
             /\ Entry(d[<<i, j>>], d[<<i - 1, j>>], d[<<i, j - 1>>], d[<<i - 1, j - 1>>],
                      Cost(l[i], r[j]))
  <2> DEFINE a == d[<<i - 1, j>>] + 1
             b == d[<<i, j - 1>>] + 1
             c == d[<<i - 1, j - 1>>] + Cost(l[i], r[j])
  <2>1. a \in Nat /\ b \in Nat /\ c \in Nat
    <3>1. Cost(l[i], r[j]) \in Nat
      BY DEF Cost
    <3>2. \A u, v \in Nat : u + 1 \in Nat /\ u + v \in Nat
      OBVIOUS
    <3> QED BY <1>4, <3>1, <3>2, Zenon
  <2>2. d[<<i, j>>] = Min({a, b, c})
    BY <1>3, <1>4, Zenon DEF Cell, Cost
  <2> HIDE DEF a, b, c
  <2>3. /\ d[<<i, j>>] \in {a, b, c} /\ d[<<i, j>>] <= a /\ d[<<i, j>>] <= b /\ d[<<i, j>>] <= c
    BY <2>1, <2>2, LeastOfThree
  <2>4. d[<<i, j>>] \in Nat
    BY <2>1, <2>3
  <2>5. d[<<i, j>>] = a \/ d[<<i, j>>] = b \/ d[<<i, j>>] = c
    BY <2>3
  <2> QED BY <2>3, <2>4, <2>5, Zenon DEF a, b, c, Entry
<1>5. \A i \in I, j \in J : (i = 0 => d[<<i, j>>] = j) /\ (j = 0 => d[<<i, j>>] = i)
  BY <1>3 DEF Cell
<1>6. ASSUME NEW i \in I, NEW j \in J,
             \A p \in I, q \in J : p + q < i + j => <<p, q>> \in P
      PROVE  <<i, j>> \in P
  <2>1. CASE i = 0 \/ j = 0
    BY <1>5, <2>1
  <2>2. CASE i # 0 /\ j # 0
    <3>1. /\ i - 1 \in I /\ j - 1 \in J /\ (i - 1) + j < i + j /\ i + (j - 1) < i + j
          /\ (i - 1) + (j - 1) < i + j
      BY <2>2
    <3>2. d[<<i - 1, j>>] \in Nat /\ d[<<i, j - 1>>] \in Nat /\ d[<<i - 1, j - 1>>] \in Nat
      BY <1>6, <3>1
    <3> QED BY <1>4, <2>2, <3>2
  <2> QED BY <2>1, <2>2
<1>7. \A i \in I, j \in J : <<i, j>> \in P
  <2> HIDE DEF P
  <2> QED BY <1>6, GridInduction
<1>8. \A i \in I, j \in J : d[<<i, j>>] \in Nat
  BY <1>7
<1>9. ASSUME NEW i \in I, NEW j \in J, i # 0, j # 0
      PROVE  d[<<i - 1, j>>] \in Nat /\ d[<<i, j - 1>>] \in Nat /\ d[<<i - 1, j - 1>>] \in Nat
  <2>1. i - 1 \in I /\ j - 1 \in J
    BY <1>9
  <2> QED BY <1>8, <2>1
<1>10. Table(d, l, r)
  BY <1>4, <1>5, <1>8, <1>9 DEF Table
<1> QED BY <1>2, <1>10

LEMMA CostType == \A x, y : Cost(x, y) \in Nat /\ Cost(x, y) <= 1
BY DEF Cost

\* The table as rows of entries, for the first a elements of x and b of y.
Grid(g, x, a, y, b) ==
    \A i \in 0..a, j \in 0..b :
        /\ g[i][j] \in Nat
        /\ i = 0 => g[i][j] = j
        /\ j = 0 => g[i][j] = i
        /\ i # 0 /\ j # 0 =>
               Entry(g[i][j], g[i - 1][j], g[i][j - 1], g[i - 1][j - 1], Cost(x[i], y[j]))

LEMMA DistanceGrid ==
    ASSUME NEW x, NEW y, Len(x) \in Nat, Len(y) \in Nat
    PROVE  \E g : Grid(g, x, Len(x), y, Len(y)) /\ LevenshteinDistance(x, y) = g[Len(x)][Len(y)]
<1>1. PICK d : Table(d, x, y) /\ LevenshteinDistance(x, y) = d[<<Len(x), Len(y)>>]
  BY DistanceTable
<1> DEFINE I == 0..Len(x)
           J == 0..Len(y)
           g == [i \in I |-> [j \in J |-> d[<<i, j>>]]]
<1>2. \A i \in I, j \in J : g[i][j] = d[<<i, j>>]
  OBVIOUS
<1>3. Len(x) \in I /\ Len(y) \in J
  OBVIOUS
<1> HIDE DEF g
<1>4. ASSUME NEW i \in I, NEW j \in J
      PROVE  /\ g[i][j] \in Nat
             /\ i = 0 => g[i][j] = j
             /\ j = 0 => g[i][j] = i
             /\ i # 0 /\ j # 0 =>
                  Entry(g[i][j], g[i - 1][j], g[i][j - 1], g[i - 1][j - 1], Cost(x[i], y[j]))
  <2>1. /\ d[<<i, j>>] \in Nat
        /\ i = 0 => d[<<i, j>>] = j
        /\ j = 0 => d[<<i, j>>] = i
        /\ i # 0 /\ j # 0 =>
             Entry(d[<<i, j>>], d[<<i - 1, j>>], d[<<i, j - 1>>], d[<<i - 1, j - 1>>],
                   Cost(x[i], y[j]))
    BY <1>1, Zenon DEF Table
  <2>2. i # 0 /\ j # 0 => i - 1 \in I /\ j - 1 \in J
    OBVIOUS
  <2>3. i # 0 /\ j # 0 => /\ g[i - 1][j] = d[<<i - 1, j>>] /\ g[i][j - 1] = d[<<i, j - 1>>]
                          /\ g[i - 1][j - 1] = d[<<i - 1, j - 1>>]
    BY <1>2, <2>2, Zenon
  <2>4. g[i][j] = d[<<i, j>>]
    BY <1>2
  <2> QED BY <2>1, <2>3, <2>4, Zenon
<1>5. Grid(g, x, Len(x), y, Len(y))
  BY <1>4, Zenon DEF Grid
<1>6. LevenshteinDistance(x, y) = g[Len(x)][Len(y)]
  BY <1>1, <1>2, <1>3, Zenon
<1> QED BY <1>5, <1>6, Zenon

LEMMA GridAt ==
    ASSUME NEW g, NEW x, NEW a \in Nat, NEW y, NEW b \in Nat, Grid(g, x, a, y, b),
           NEW i \in 1..a, NEW j \in 1..b
    PROVE  /\ g[i][j] \in Nat /\ g[i - 1][j] \in Nat /\ g[i][j - 1] \in Nat
           /\ g[i - 1][j - 1] \in Nat
           /\ Entry(g[i][j], g[i - 1][j], g[i][j - 1], g[i - 1][j - 1], Cost(x[i], y[j]))
<1>1. i - 1 \in 0..a /\ j - 1 \in 0..b /\ i \in 0..a /\ j \in 0..b /\ i # 0 /\ j # 0
  OBVIOUS
<1> QED BY <1>1, Zenon DEF Grid

LEMMA GridEdge ==
    ASSUME NEW g, NEW x, NEW a, NEW y, NEW b, Grid(g, x, a, y, b), NEW i \in 0..a, NEW j \in 0..b
    PROVE  g[i][j] \in Nat /\ (i = 0 => g[i][j] = j) /\ (j = 0 => g[i][j] = i)
BY Zenon DEF Grid

LEMMA EntryUnique ==
    ASSUME NEW v \in Nat, NEW w \in Nat, NEW a \in Nat, NEW b \in Nat, NEW c \in Nat, NEW k \in Nat,
           Entry(v, a, b, c, k), Entry(w, a, b, c, k)
    PROVE  v = w
BY DEF Entry

Agree(x, z, n) == \A i \in 1..n : x[i] = z[i]

\* Two tables agree up to row n.
SameTo(g, h, n, b) == \A i \in 0..n, j \in 0..b : g[i][j] = h[i][j]

\* Tables of sequences that begin alike do, too.
LEMMA SamePrefix ==
    ASSUME NEW x, NEW a \in Nat, NEW z, NEW c \in Nat, NEW y, NEW b \in Nat,
           NEW g, Grid(g, x, a, y, b), NEW h, Grid(h, z, c, y, b),
           NEW n \in Nat, n <= a, n <= c, Agree(x, z, n)
    PROVE  SameTo(g, h, n, b)
<1> DEFINE P == {p \in (0..n) \X (0..b) : g[p[1]][p[2]] = h[p[1]][p[2]]}
<1>1. ASSUME NEW i \in 0..n, NEW j \in 0..b,
             \A p \in 0..n, q \in 0..b : p + q < i + j => <<p, q>> \in P
      PROVE  <<i, j>> \in P
  <2>0. i \in 0..a /\ i \in 0..c
    OBVIOUS
  <2>1. CASE i = 0 \/ j = 0
    <3>1. g[i][j] = h[i][j]
      BY <2>0, <2>1, GridEdge
    <3> QED BY <3>1
  <2>2. CASE i # 0 /\ j # 0
    <3>1. /\ i - 1 \in 0..n /\ j - 1 \in 0..b
          /\ (i - 1) + j < i + j /\ i + (j - 1) < i + j /\ (i - 1) + (j - 1) < i + j
      BY <2>2
    <3>2. <<i - 1, j>> \in P /\ <<i, j - 1>> \in P /\ <<i - 1, j - 1>> \in P
      <4> HIDE DEF P
      <4> QED BY <1>1, <3>1
    <3>3. g[i - 1][j] = h[i - 1][j] /\ g[i][j - 1] = h[i][j - 1] /\ g[i - 1][j - 1] = h[i - 1][j - 1]
      BY <3>2
    <3>4. i \in 1..a /\ i \in 1..c /\ j \in 1..b /\ x[i] = z[i]
      BY <2>2 DEF Agree
    <3>5. g[i][j] = h[i][j]
      <4>1. /\ g[i][j] \in Nat /\ g[i - 1][j] \in Nat /\ g[i][j - 1] \in Nat
            /\ g[i - 1][j - 1] \in Nat
            /\ Entry(g[i][j], g[i - 1][j], g[i][j - 1], g[i - 1][j - 1], Cost(x[i], y[j]))
        BY <3>4, GridAt
      <4>2. /\ h[i][j] \in Nat
            /\ Entry(h[i][j], g[i - 1][j], g[i][j - 1], g[i - 1][j - 1], Cost(x[i], y[j]))
        BY <3>3, <3>4, GridAt
      <4> QED BY <4>1, <4>2, EntryUnique, CostType
    <3> QED BY <3>5
  <2> QED BY <2>1, <2>2
<1>2. \A i \in 0..n, j \in 0..b : <<i, j>> \in P
  <2> HIDE DEF P
  <2> QED BY <1>1, GridInduction
<1> QED BY <1>2 DEF SameTo

\* What one edit makes of the first a elements of x: the first c of z.
Removed(x, a, z, c, p) ==
    /\ p \in 1..a /\ a = c + 1
    /\ \A i \in 1..c : z[i] = IF i < p THEN x[i] ELSE x[i + 1]
Replaced(x, a, z, c, p) ==
    /\ p \in 1..a /\ a = c
    /\ \A i \in 1..a : i # p => z[i] = x[i]

\* One edit of the first sequence moves the distance by one at most.
LEMMA RemovedNear ==
    ASSUME NEW x, NEW a \in Nat, NEW z, NEW c \in Nat, NEW y, NEW b \in Nat,
           NEW g, Grid(g, x, a, y, b), NEW h, Grid(h, z, c, y, b),
           NEW p, Removed(x, a, z, c, p)
    PROVE  g[a][b] <= h[c][b] + 1
<1> DEFINE P == {u \in (0..c) \X (0..b) : u[1] >= p - 1 => g[u[1] + 1][u[2]] <= h[u[1]][u[2]] + 1}
<1>1. p \in 1..a /\ a = c + 1 /\ p \in Nat
  BY DEF Removed
<1>2. \A i \in 0..(p - 1), j \in 0..b : g[i][j] = h[i][j]
  <2>1. PICK n \in Nat : n = p - 1
    BY <1>1
  <2>2. n <= a /\ n <= c
    BY <1>1, <2>1
  <2>3. Agree(x, z, n)
    BY <1>1, <2>1 DEF Removed, Agree
  <2>4. SameTo(g, h, n, b)
    BY <2>2, <2>3, SamePrefix
  <2> QED BY <2>1, <2>4 DEF SameTo
<1>3. ASSUME NEW i \in 0..c, NEW j \in 0..b,
             \A m \in 0..c, q \in 0..b : m + q < i + j => <<m, q>> \in P
      PROVE  <<i, j>> \in P
  <2>0. SUFFICES ASSUME i >= p - 1 PROVE g[i + 1][j] <= h[i][j] + 1
    OBVIOUS
  <2>1. i + 1 \in 0..a /\ i \in 0..a /\ i + 1 # 0 /\ (i + 1) - 1 = i
    BY <1>1
  <2>2. CASE j = 0
    <3>1. g[i + 1][j] = i + 1 /\ h[i][j] = i
      BY <2>1, <2>2, GridEdge
    <3> QED BY <3>1
  <2>3. CASE j # 0
    <3>1. /\ j \in 1..b /\ i + 1 \in 1..a /\ (i + 1) - 1 = i
          /\ j - 1 \in 0..b /\ i + (j - 1) < i + j
      BY <2>1, <2>3
    <3>2. /\ g[i + 1][j] \in Nat /\ g[i][j] \in Nat /\ g[i + 1][j - 1] \in Nat
          /\ g[i][j - 1] \in Nat
          /\ Entry(g[i + 1][j], g[i][j], g[i + 1][j - 1], g[i][j - 1], Cost(x[i + 1], y[j]))
      <4>1. PICK n \in 1..a : n = i + 1 /\ n - 1 = i
        BY <3>1
      <4>2. /\ g[n][j] \in Nat /\ g[n - 1][j] \in Nat /\ g[n][j - 1] \in Nat
            /\ g[n - 1][j - 1] \in Nat
            /\ Entry(g[n][j], g[n - 1][j], g[n][j - 1], g[n - 1][j - 1], Cost(x[n], y[j]))
        BY <3>1, GridAt
      <4> QED BY <4>1, <4>2
    <3>3. CASE i = p - 1
      <4>1. g[i][j] = h[i][j]
        BY <1>1, <1>2, <3>3
      <4>2. g[i + 1][j] <= g[i][j] + 1
        BY <3>2 DEF Entry
      <4> QED BY <4>1, <4>2
    <3>4. CASE i # p - 1
      <4>1. /\ i \in 1..c /\ i - 1 \in 0..c /\ i - 1 >= p - 1 /\ (i - 1) + 1 = i
            /\ (i - 1) + j < i + j /\ (i - 1) + (j - 1) < i + j
        BY <1>1, <2>0, <2>3, <3>4
      <4>2. <<i - 1, j>> \in P /\ <<i, j - 1>> \in P /\ <<i - 1, j - 1>> \in P
        <5> HIDE DEF P
        <5> QED BY <1>3, <3>1, <4>1
      <4>3. /\ g[i][j] <= h[i - 1][j] + 1 /\ g[i + 1][j - 1] <= h[i][j - 1] + 1
            /\ g[i][j - 1] <= h[i - 1][j - 1] + 1
        BY <2>0, <4>1, <4>2
      <4>4. z[i] = x[i + 1]
        BY <1>1, <2>0, <3>4, <4>1 DEF Removed
      <4>5. /\ h[i][j] \in Nat /\ h[i - 1][j] \in Nat /\ h[i][j - 1] \in Nat
            /\ h[i - 1][j - 1] \in Nat
            /\ Entry(h[i][j], h[i - 1][j], h[i][j - 1], h[i - 1][j - 1], Cost(x[i + 1], y[j]))
        BY <3>1, <4>1, <4>4, GridAt
      <4>6. Cost(x[i + 1], y[j]) \in Nat /\ Cost(x[i + 1], y[j]) <= 1
        BY CostType
      <4> HIDE DEF P
      <4> QED BY <3>2, <4>3, <4>5, <4>6 DEF Entry
    <3> QED BY <3>3, <3>4
  <2> QED BY <2>2, <2>3
<1>4. \A i \in 0..c, j \in 0..b : <<i, j>> \in P
  <2> HIDE DEF P
  <2> QED BY <1>3, GridInduction
<1>5. <<c, b>> \in P /\ c >= p - 1 /\ c + 1 = a
  BY <1>1, <1>4
<1> QED BY <1>5

LEMMA ReplacedNear ==
    ASSUME NEW x, NEW a \in Nat, NEW z, NEW c \in Nat, NEW y, NEW b \in Nat,
           NEW g, Grid(g, x, a, y, b), NEW h, Grid(h, z, c, y, b),
           NEW p, Replaced(x, a, z, c, p)
    PROVE  g[a][b] <= h[c][b] + 1
<1> DEFINE P == {u \in (0..c) \X (0..b) : g[u[1]][u[2]] <= h[u[1]][u[2]] + 1}
<1>1. p \in 1..a /\ a = c /\ p \in Nat
  BY DEF Replaced
<1>2. \A i \in 0..(p - 1), j \in 0..b : g[i][j] = h[i][j]
  <2>1. PICK n \in Nat : n = p - 1
    BY <1>1
  <2>2. n <= a /\ n <= c
    BY <1>1, <2>1
  <2>3. Agree(x, z, n)
    BY <1>1, <2>1 DEF Replaced, Agree
  <2>4. SameTo(g, h, n, b)
    BY <2>2, <2>3, SamePrefix
  <2> QED BY <2>1, <2>4 DEF SameTo
<1>3. ASSUME NEW i \in 0..c, NEW j \in 0..b,
             \A m \in 0..c, q \in 0..b : m + q < i + j => <<m, q>> \in P
      PROVE  <<i, j>> \in P
  <2>0. SUFFICES g[i][j] <= h[i][j] + 1
    OBVIOUS
  <2>1. CASE i = 0 \/ j = 0
    <3>1. g[i][j] = h[i][j] /\ h[i][j] \in Nat
      BY <1>1, <2>1, GridEdge
    <3> QED BY <3>1
  <2>2. CASE i # 0 /\ j # 0
    <3>1. /\ i - 1 \in 0..c /\ j - 1 \in 0..b /\ i \in 1..a /\ i \in 1..c /\ j \in 1..b
          /\ (i - 1) + j < i + j /\ i + (j - 1) < i + j /\ (i - 1) + (j - 1) < i + j
      BY <1>1, <2>2
    <3>2. <<i - 1, j>> \in P /\ <<i, j - 1>> \in P /\ <<i - 1, j - 1>> \in P
      <4> HIDE DEF P
      <4> QED BY <1>3, <3>1
    <3>3. /\ g[i - 1][j] <= h[i - 1][j] + 1 /\ g[i][j - 1] <= h[i][j - 1] + 1
          /\ g[i - 1][j - 1] <= h[i - 1][j - 1] + 1
      BY <3>2
    <3>4. /\ g[i][j] \in Nat /\ g[i - 1][j] \in Nat /\ g[i][j - 1] \in Nat
          /\ g[i - 1][j - 1] \in Nat
          /\ Entry(g[i][j], g[i - 1][j], g[i][j - 1], g[i - 1][j - 1], Cost(x[i], y[j]))
      BY <3>1, GridAt
    <3>5. /\ h[i][j] \in Nat /\ h[i - 1][j] \in Nat /\ h[i][j - 1] \in Nat
          /\ h[i - 1][j - 1] \in Nat
          /\ Entry(h[i][j], h[i - 1][j], h[i][j - 1], h[i - 1][j - 1], Cost(z[i], y[j]))
      BY <3>1, GridAt
    <3>6. Cost(x[i], y[j]) = Cost(z[i], y[j]) \/ g[i - 1][j - 1] = h[i - 1][j - 1]
      <4>1. CASE i = p
        <5>1. i - 1 \in 0..(p - 1)
          BY <1>1, <4>1
        <5> QED BY <1>2, <3>1, <5>1
      <4>2. CASE i # p
        <5>1. x[i] = z[i]
          BY <3>1, <4>2 DEF Replaced
        <5> QED BY <5>1
      <4> QED BY <4>1, <4>2
    <3>7. /\ Cost(x[i], y[j]) \in Nat /\ Cost(x[i], y[j]) <= 1
          /\ Cost(z[i], y[j]) \in Nat /\ Cost(z[i], y[j]) <= 1
      BY CostType
    <3> HIDE DEF P
    <3> QED BY <3>3, <3>4, <3>5, <3>6, <3>7 DEF Entry
  <2> QED BY <2>1, <2>2
<1>4. \A i \in 0..c, j \in 0..b : <<i, j>> \in P
  <2> HIDE DEF P
  <2> QED BY <1>3, GridInduction
<1>5. <<c, b>> \in P /\ c = a
  BY <1>1, <1>4
<1> QED BY <1>5

LEMMA InsertedNear ==
    ASSUME NEW x, NEW a \in Nat, NEW z, NEW c \in Nat, NEW y, NEW b \in Nat,
           NEW g, Grid(g, x, a, y, b), NEW h, Grid(h, z, c, y, b),
           NEW p, Removed(z, c, x, a, p)
    PROVE  g[a][b] <= h[c][b] + 1
<1> DEFINE P == {u \in (0..a) \X (0..b) : u[1] >= p - 1 => g[u[1]][u[2]] <= h[u[1] + 1][u[2]] + 1}
<1>1. p \in 1..c /\ c = a + 1 /\ p \in Nat
  BY DEF Removed
<1>2. \A i \in 0..(p - 1), j \in 0..b : g[i][j] = h[i][j]
  <2>1. PICK n \in Nat : n = p - 1
    BY <1>1
  <2>2. n <= a /\ n <= c
    BY <1>1, <2>1
  <2>3. Agree(x, z, n)
    BY <1>1, <2>1 DEF Removed, Agree
  <2>4. SameTo(g, h, n, b)
    BY <2>2, <2>3, SamePrefix
  <2> QED BY <2>1, <2>4 DEF SameTo
<1>3. ASSUME NEW i \in 0..a, NEW j \in 0..b,
             \A m \in 0..a, q \in 0..b : m + q < i + j => <<m, q>> \in P
      PROVE  <<i, j>> \in P
  <2>0. SUFFICES ASSUME i >= p - 1 PROVE g[i][j] <= h[i + 1][j] + 1
    OBVIOUS
  <2>1. i + 1 \in 0..c /\ i \in 0..c /\ i + 1 # 0
    BY <1>1
  <2>2. CASE j = 0
    <3>1. g[i][j] = i /\ h[i + 1][j] = i + 1
      BY <2>1, <2>2, GridEdge
    <3> QED BY <3>1
  <2>3. CASE j # 0
    <3>1. /\ j \in 1..b /\ i + 1 \in 1..c /\ j - 1 \in 0..b /\ i + (j - 1) < i + j
      BY <2>1, <2>3
    <3>2. g[i][j - 1] <= h[i + 1][j - 1] + 1
      <4>1. <<i, j - 1>> \in P
        <5> HIDE DEF P
        <5> QED BY <1>3, <3>1
      <4> QED BY <2>0, <4>1
    <3>3. /\ h[i + 1][j] \in Nat /\ h[i][j] \in Nat /\ h[i + 1][j - 1] \in Nat
          /\ h[i][j - 1] \in Nat
          /\ Entry(h[i + 1][j], h[i][j], h[i + 1][j - 1], h[i][j - 1], Cost(z[i + 1], y[j]))
      <4>1. PICK n \in 1..c : n = i + 1 /\ n - 1 = i
        BY <3>1
      <4>2. /\ h[n][j] \in Nat /\ h[n - 1][j] \in Nat /\ h[n][j - 1] \in Nat
            /\ h[n - 1][j - 1] \in Nat
            /\ Entry(h[n][j], h[n - 1][j], h[n][j - 1], h[n - 1][j - 1], Cost(z[n], y[j]))
        BY <3>1, GridAt
      <4> QED BY <4>1, <4>2
    <3>4. Cost(z[i + 1], y[j]) \in Nat /\ Cost(z[i + 1], y[j]) <= 1
      BY CostType
    <3>5. /\ g[i][j] \in Nat /\ g[i][j - 1] \in Nat /\ g[i][j] <= g[i][j - 1] + 1
      <4>1. CASE i = 0
        <5>1. g[i][j] = j /\ g[i][j - 1] = j - 1
          BY <3>1, <4>1, GridEdge
        <5> QED BY <3>1, <5>1
      <4>2. CASE i # 0
        <5>1. i \in 1..a
          BY <4>2
        <5>2. /\ g[i][j] \in Nat /\ g[i][j - 1] \in Nat
              /\ Entry(g[i][j], g[i - 1][j], g[i][j - 1], g[i - 1][j - 1], Cost(x[i], y[j]))
          BY <3>1, <5>1, GridAt
        <5> QED BY <5>2 DEF Entry
      <4> QED BY <4>1, <4>2
    <3>6. CASE i = p - 1
      <4>1. g[i][j] = h[i][j] /\ g[i][j - 1] = h[i][j - 1]
        BY <1>1, <1>2, <3>1, <3>6
      <4> HIDE DEF P
      <4> QED BY <3>2, <3>3, <3>4, <3>5, <4>1 DEF Entry
    <3>7. CASE i # p - 1
      <4>1. /\ i \in 1..a /\ i - 1 \in 0..a /\ i - 1 >= p - 1 /\ (i - 1) + 1 = i
            /\ (i - 1) + j < i + j /\ (i - 1) + (j - 1) < i + j
        BY <1>1, <2>0, <2>3, <3>7
      <4>2. <<i - 1, j>> \in P /\ <<i - 1, j - 1>> \in P
        <5> HIDE DEF P
        <5> QED BY <1>3, <3>1, <4>1
      <4>3. g[i - 1][j] <= h[i][j] + 1 /\ g[i - 1][j - 1] <= h[i][j - 1] + 1
        BY <2>0, <4>1, <4>2
      <4>4. x[i] = z[i + 1]
        BY <1>1, <2>0, <3>7, <4>1 DEF Removed
      <4>5. /\ g[i][j] \in Nat /\ g[i - 1][j] \in Nat /\ g[i][j - 1] \in Nat
            /\ g[i - 1][j - 1] \in Nat
            /\ Entry(g[i][j], g[i - 1][j], g[i][j - 1], g[i - 1][j - 1], Cost(z[i + 1], y[j]))
        BY <3>1, <4>1, <4>4, GridAt
      <4> HIDE DEF P
      <4> QED BY <3>2, <3>3, <3>4, <4>3, <4>5 DEF Entry
    <3> QED BY <3>6, <3>7
  <2> QED BY <2>2, <2>3
<1>4. \A i \in 0..a, j \in 0..b : <<i, j>> \in P
  <2> HIDE DEF P
  <2> QED BY <1>3, GridInduction
<1>5. <<a, b>> \in P /\ a >= p - 1 /\ c = a + 1
  BY <1>1, <1>4
<1> QED BY <1>5

\* No edit, or one: the first c elements of z from the first a of x.
Edited(x, a, z, c) ==
    \/ a = c /\ Agree(x, z, a)
    \/ \E p \in Nat : Removed(x, a, z, c, p) \/ Replaced(x, a, z, c, p) \/ Removed(z, c, x, a, p)

LEMMA EditedNear ==
    ASSUME NEW x, NEW a \in Nat, NEW z, NEW c \in Nat, NEW y, NEW b \in Nat,
           NEW g, Grid(g, x, a, y, b), NEW h, Grid(h, z, c, y, b), Edited(x, a, z, c)
    PROVE  g[a][b] <= h[c][b] + 1
<1>1. CASE a = c /\ Agree(x, z, a)
  <2>1. PICK n \in Nat : n = a
    OBVIOUS
  <2>2. n <= a /\ n <= c /\ Agree(x, z, n)
    BY <1>1, <2>1
  <2>3. SameTo(g, h, n, b)
    BY <2>2, SamePrefix
  <2>4. g[a][b] \in Nat /\ n \in 0..n /\ b \in 0..b
    BY GridEdge
  <2> QED BY <1>1, <2>1, <2>3, <2>4 DEF SameTo
<1>2. CASE \E p \in Nat : Removed(x, a, z, c, p)
  BY <1>2, RemovedNear
<1>3. CASE \E p \in Nat : Replaced(x, a, z, c, p)
  BY <1>3, ReplacedNear
<1>4. CASE \E p \in Nat : Removed(z, c, x, a, p)
  BY <1>4, InsertedNear
<1> QED BY <1>1, <1>2, <1>3, <1>4 DEF Edited

\* A sequence is at no distance from itself.
LEMMA SameDistance ==
    ASSUME NEW x, NEW y, NEW a \in Nat, NEW g, Grid(g, x, a, y, a), Agree(x, y, a)
    PROVE  g[a][a] = 0
<1> DEFINE S == {n \in Nat : n <= a => g[n][n] = 0}
<1>1. 0 \in S
  BY GridEdge
<1>2. ASSUME NEW n \in Nat, n \in S PROVE n + 1 \in S
  <2> SUFFICES ASSUME n + 1 <= a PROVE g[n + 1][n + 1] = 0
    OBVIOUS
  <2>1. PICK m \in 1..a : m = n + 1 /\ m - 1 = n
    OBVIOUS
  <2>2. g[n][n] = 0
    BY <1>2
  <2>3. g[m][m] \in Nat /\ Entry(g[m][m], g[m - 1][m], g[m][m - 1], g[m - 1][m - 1], Cost(x[m], y[m]))
    BY GridAt
  <2>4. Cost(x[m], y[m]) = 0
    BY DEF Agree, Cost
  <2>5. g[m][m] <= g[m - 1][m - 1] + Cost(x[m], y[m])
    BY <2>3 DEF Entry
  <2> QED BY <2>1, <2>2, <2>3, <2>4, <2>5
<1>3. a \in S
  <2> HIDE DEF S
  <2> QED BY <1>1, <1>2, SetInduction
<1> QED BY <1>3

\* Two edits are a distance of two at most.
LEMMA EditsBound ==
    ASSUME NEW x, NEW y, NEW z, Len(x) \in Nat, Len(y) \in Nat, Len(z) \in Nat,
           Edited(x, Len(x), z, Len(z)), Edited(z, Len(z), y, Len(y))
    PROVE  LevenshteinDistance(x, y) <= 2
<1>1. PICK g : Grid(g, x, Len(x), y, Len(y)) /\ LevenshteinDistance(x, y) = g[Len(x)][Len(y)]
  BY DistanceGrid
<1>2. PICK h : Grid(h, z, Len(z), y, Len(y))
  BY DistanceGrid
<1>3. PICK k : Grid(k, y, Len(y), y, Len(y))
  BY DistanceGrid
<1>4. g[Len(x)][Len(y)] <= h[Len(z)][Len(y)] + 1
  BY <1>1, <1>2, EditedNear
<1>5. h[Len(z)][Len(y)] <= k[Len(y)][Len(y)] + 1
  BY <1>2, <1>3, EditedNear
<1>6. k[Len(y)][Len(y)] = 0
  BY <1>3, SameDistance DEF Agree
<1>7. g[Len(x)][Len(y)] \in Nat /\ h[Len(z)][Len(y)] \in Nat
  <2>1. Len(x) \in 0..Len(x) /\ Len(y) \in 0..Len(y) /\ Len(z) \in 0..Len(z)
    OBVIOUS
  <2> QED BY <1>1, <1>2, <2>1, GridEdge
<1> QED BY <1>1, <1>4, <1>5, <1>6, <1>7

\* The elements behind the counted ones do not matter.
LEMMA EditedAlike ==
    ASSUME NEW x, NEW u, NEW a \in Nat, Agree(x, u, a), NEW z, NEW v, NEW c \in Nat, Agree(z, v, c),
           Edited(x, a, z, c)
    PROVE  Edited(u, a, v, c)
<1>1. CASE a = c /\ Agree(x, z, a)
  BY <1>1 DEF Agree, Edited
<1>2. ASSUME NEW p \in Nat, Removed(x, a, z, c, p) PROVE Removed(u, a, v, c, p)
  BY <1>2 DEF Agree, Removed
<1>3. ASSUME NEW p \in Nat, Replaced(x, a, z, c, p) PROVE Replaced(u, a, v, c, p)
  BY <1>3 DEF Agree, Replaced
<1>4. ASSUME NEW p \in Nat, Removed(z, c, x, a, p) PROVE Removed(v, c, u, a, p)
  BY <1>4 DEF Agree, Removed
<1> QED BY <1>1, <1>2, <1>3, <1>4 DEF Edited

\* The same element behind both makes no difference.
LEMMA EditedBefore ==
    ASSUME NEW x, NEW z, NEW a \in Nat, NEW c \in Nat, a # 0, c # 0, x[a] = z[c],
           Edited(x, a - 1, z, c - 1)
    PROVE  Edited(x, a, z, c)
<1>1. CASE a - 1 = c - 1 /\ Agree(x, z, a - 1)
  BY <1>1 DEF Agree, Edited
<1>2. ASSUME NEW p \in Nat, Removed(x, a - 1, z, c - 1, p) PROVE Removed(x, a, z, c, p)
  BY <1>2 DEF Removed
<1>3. ASSUME NEW p \in Nat, Replaced(x, a - 1, z, c - 1, p) PROVE Replaced(x, a, z, c, p)
  BY <1>3 DEF Replaced
<1>4. ASSUME NEW p \in Nat, Removed(z, c - 1, x, a - 1, p) PROVE Removed(z, c, x, a, p)
  BY <1>4 DEF Removed
<1> QED BY <1>1, <1>2, <1>3, <1>4 DEF Edited

\* The last element is one edit.
LEMMA LastEdited ==
    ASSUME NEW x, NEW z, NEW a \in Nat, NEW c \in Nat, NEW n \in Nat, Agree(x, z, n),
           (a = n + 1 /\ c = n) \/ (a = n /\ c = n + 1) \/ (a = n + 1 /\ c = n + 1)
    PROVE  Edited(x, a, z, c)
<1>1. CASE a = n + 1 /\ c = n
  <2>1. Removed(x, a, z, c, a)
    BY <1>1 DEF Agree, Removed
  <2> QED BY <2>1 DEF Edited
<1>2. CASE a = n /\ c = n + 1
  <2>1. Removed(z, c, x, a, c)
    BY <1>2 DEF Agree, Removed
  <2> QED BY <2>1 DEF Edited
<1>3. CASE a = n + 1 /\ c = n + 1
  <2>1. Replaced(x, a, z, c, a)
    BY <1>3 DEF Agree, Replaced
  <2> QED BY <2>1 DEF Edited
<1> QED BY <1>1, <1>2, <1>3

LEMMA NoDistance ==
    ASSUME NEW x, NEW a \in Nat, NEW y, NEW b \in Nat, NEW g, Grid(g, x, a, y, b)
    PROVE  \A i \in 0..a, j \in 0..b : g[i][j] = 0 => i = j /\ Agree(x, y, i)
<1> DEFINE P == {u \in (0..a) \X (0..b) : g[u[1]][u[2]] = 0 => u[1] = u[2] /\ Agree(x, y, u[1])}
<1>1. ASSUME NEW i \in 0..a, NEW j \in 0..b,
             \A m \in 0..a, q \in 0..b : m + q < i + j => <<m, q>> \in P
      PROVE  <<i, j>> \in P
  <2>0. SUFFICES ASSUME g[i][j] = 0 PROVE i = j /\ Agree(x, y, i)
    OBVIOUS
  <2>1. CASE i = 0 \/ j = 0
    <3>1. i = 0 /\ j = 0
      BY <2>0, <2>1, GridEdge
    <3> QED BY <3>1 DEF Agree
  <2>2. CASE i # 0 /\ j # 0
    <3>1. /\ i \in 1..a /\ j \in 1..b /\ i - 1 \in 0..a /\ j - 1 \in 0..b
          /\ (i - 1) + (j - 1) < i + j
      BY <2>2
    <3>2. <<i - 1, j - 1>> \in P
      <4> HIDE DEF P
      <4> QED BY <1>1, <3>1
    <3>3. /\ g[i][j] \in Nat /\ g[i - 1][j] \in Nat /\ g[i][j - 1] \in Nat
          /\ g[i - 1][j - 1] \in Nat
          /\ Entry(g[i][j], g[i - 1][j], g[i][j - 1], g[i - 1][j - 1], Cost(x[i], y[j]))
      BY <3>1, GridAt
    <3>4. Cost(x[i], y[j]) \in Nat
      BY CostType
    <3>5. g[i - 1][j - 1] = 0 /\ Cost(x[i], y[j]) = 0
      <4> HIDE DEF P
      <4> QED BY <2>0, <3>3, <3>4 DEF Entry
    <3>6. i - 1 = j - 1 /\ Agree(x, y, i - 1)
      BY <3>2, <3>5
    <3>7. x[i] = y[j]
      BY <3>5 DEF Cost
    <3> QED BY <3>6, <3>7 DEF Agree
  <2> QED BY <2>1, <2>2
<1>2. \A i \in 0..a, j \in 0..b : <<i, j>> \in P
  <2> HIDE DEF P
  <2> QED BY <1>1, GridInduction
<1> QED BY <1>2

\* Where an entry comes from.
LEMMA GridCases ==
    ASSUME NEW g, NEW x, NEW a \in Nat, NEW y, NEW b \in Nat, Grid(g, x, a, y, b),
           NEW i \in 1..a, NEW j \in 1..b
    PROVE  /\ i - 1 \in 0..a /\ j - 1 \in 0..b /\ (i - 1) + (j - 1) < i + j
           /\ g[i][j] \in Nat /\ g[i - 1][j] \in Nat /\ g[i][j - 1] \in Nat /\ g[i - 1][j - 1] \in Nat
           /\ \/ g[i][j] = g[i - 1][j] + 1 \/ g[i][j] = g[i][j - 1] + 1
              \/ g[i][j] = g[i - 1][j - 1] + 1 \/ (g[i][j] = g[i - 1][j - 1] /\ x[i] = y[j])
<1>1. /\ g[i][j] \in Nat /\ g[i - 1][j] \in Nat /\ g[i][j - 1] \in Nat
      /\ g[i - 1][j - 1] \in Nat
      /\ Entry(g[i][j], g[i - 1][j], g[i][j - 1], g[i - 1][j - 1], Cost(x[i], y[j]))
  BY GridAt
<1>2. \/ g[i][j] = g[i - 1][j] + 1 \/ g[i][j] = g[i][j - 1] + 1
      \/ g[i][j] = g[i - 1][j - 1] + Cost(x[i], y[j])
  BY <1>1 DEF Entry
<1>3. CASE x[i] = y[j]
  <2>1. Cost(x[i], y[j]) = 0
    BY <1>3 DEF Cost
  <2> QED BY <1>1, <1>2, <1>3, <2>1
<1>4. CASE x[i] # y[j]
  <2>1. Cost(x[i], y[j]) = 1
    BY <1>4 DEF Cost
  <2> QED BY <1>1, <1>2, <2>1
<1> QED BY <1>3, <1>4

LEMMA OneDistance ==
    ASSUME NEW x, NEW a \in Nat, NEW y, NEW b \in Nat, NEW g, Grid(g, x, a, y, b)
    PROVE  \A i \in 0..a, j \in 0..b : g[i][j] <= 1 => Edited(x, i, y, j)
<1> DEFINE P == {u \in (0..a) \X (0..b) : g[u[1]][u[2]] <= 1 => Edited(x, u[1], y, u[2])}
<1>0. \A i \in 0..a, j \in 0..b : g[i][j] \in Nat /\ (g[i][j] <= 0 => i = j /\ Agree(x, y, i))
  BY NoDistance, GridEdge
<1>1. ASSUME NEW i \in 0..a, NEW j \in 0..b,
             \A m \in 0..a, q \in 0..b : m + q < i + j => <<m, q>> \in P
      PROVE  <<i, j>> \in P
  <2>0. SUFFICES ASSUME g[i][j] <= 1 PROVE Edited(x, i, y, j)
    OBVIOUS
  <2>1. CASE i = 0 \/ j = 0
    <3>1. i + j <= 1
      BY <2>0, <2>1, GridEdge
    <3>2. CASE i = j
      BY <3>1, <3>2 DEF Edited, Agree
    <3>3. CASE (i = 1 /\ j = 0) \/ (i = 0 /\ j = 1)
      <4>1. Agree(x, y, 0)
        BY DEF Agree
      <4> QED BY <3>3, <4>1, LastEdited
    <3>4. i = j \/ (i = 1 /\ j = 0) \/ (i = 0 /\ j = 1)
      <4> HIDE DEF P
      <4>1. i \in Nat /\ j \in Nat
        OBVIOUS
      <4> QED BY <2>1, <3>1, <4>1
    <3> QED BY <3>2, <3>3, <3>4
  <2>2. CASE i # 0 /\ j # 0
    <3>1. i \in 1..a /\ j \in 1..b
      BY <2>2
    <3>2. /\ i - 1 \in 0..a /\ j - 1 \in 0..b /\ (i - 1) + (j - 1) < i + j
          /\ \/ g[i - 1][j] <= 0 \/ g[i][j - 1] <= 0 \/ g[i - 1][j - 1] <= 0
             \/ g[i - 1][j - 1] <= 1 /\ x[i] = y[j]
      <4>1. /\ i - 1 \in 0..a /\ j - 1 \in 0..b /\ (i - 1) + (j - 1) < i + j
            /\ g[i][j] \in Nat /\ g[i - 1][j] \in Nat /\ g[i][j - 1] \in Nat /\ g[i - 1][j - 1] \in Nat
            /\ \/ g[i][j] = g[i - 1][j] + 1 \/ g[i][j] = g[i][j - 1] + 1
               \/ g[i][j] = g[i - 1][j - 1] + 1 \/ (g[i][j] = g[i - 1][j - 1] /\ x[i] = y[j])
        BY <3>1, GridCases
      <4> HIDE DEF P
      <4> QED BY <2>0, <4>1
    <3>3. CASE g[i - 1][j] <= 0
      <4>1. i = j + 1 /\ Agree(x, y, j)
        BY <1>0, <3>2, <3>3
      <4> QED BY <2>2, <4>1, LastEdited
    <3>4. CASE g[i][j - 1] <= 0
      <4>1. j = i + 1 /\ Agree(x, y, i)
        BY <1>0, <3>2, <3>4
      <4> QED BY <2>2, <4>1, LastEdited
    <3>5. CASE g[i - 1][j - 1] <= 0
      <4>1. PICK n \in Nat : n = i - 1
        BY <2>2
      <4>2. i = n + 1 /\ j = n + 1 /\ Agree(x, y, n)
        BY <1>0, <3>2, <3>5, <4>1
      <4> QED BY <4>2, LastEdited
    <3>6. CASE g[i - 1][j - 1] <= 1 /\ x[i] = y[j]
      <4>1. <<i - 1, j - 1>> \in P
        <5> HIDE DEF P
        <5> QED BY <1>1, <3>2
      <4>2. Edited(x, i - 1, y, j - 1)
        BY <3>6, <4>1
      <4>3. i \in Nat /\ j \in Nat
        OBVIOUS
      <4> HIDE DEF P
      <4> QED BY <2>2, <3>6, <4>2, <4>3, EditedBefore
    <3> QED BY <3>2, <3>3, <3>4, <3>5, <3>6
  <2> QED BY <2>1, <2>2
<1>2. \A i \in 0..a, j \in 0..b : <<i, j>> \in P
  <2> HIDE DEF P
  <2> QED BY <1>1, GridInduction
<1> QED BY <1>2

\* z, with c elements of S, is between the first i elements of x and the first j of y.
Between(x, i, y, j, z, c, S) ==
    /\ c \in Nat /\ \A m \in 1..c : z[m] \in S
    /\ Edited(x, i, z, c) /\ Edited(z, c, y, j)

LEMMA TwoDistance ==
    ASSUME NEW x, NEW a \in Nat, NEW y, NEW b \in Nat, NEW g, Grid(g, x, a, y, b), NEW S,
           \A m \in 1..a : x[m] \in S, \A m \in 1..b : y[m] \in S
    PROVE  \A i \in 0..a, j \in 0..b : g[i][j] <= 2 => \E z, c : Between(x, i, y, j, z, c, S)
<1> DEFINE Q(i, j) == \E z, c : Between(x, i, y, j, z, c, S)
           P == {u \in (0..a) \X (0..b) : g[u[1]][u[2]] <= 2 => Q(u[1], u[2])}
<1>0. \A i \in 0..a, j \in 0..b : g[i][j] <= 1 => Edited(x, i, y, j)
  BY OneDistance
\* The last element of x is deleted first.
<1>1. ASSUME NEW i \in 0..a, NEW j \in 0..b, i # 0, Edited(x, i - 1, y, j) PROVE Q(i, j)
  <2>1. PICK n \in Nat : n = i - 1 /\ i = n + 1
    BY <1>1
  <2>2. Edited(x, i, x, n)
    <3>1. Agree(x, x, n)
      BY DEF Agree
    <3> QED BY <2>1, <3>1, LastEdited
  <2>3. \A m \in 1..n : x[m] \in S
    BY <2>1
  <2>4. Between(x, i, y, j, x, n, S)
    BY <1>1, <2>1, <2>2, <2>3 DEF Between
  <2> QED BY <2>4
\* The last element of y is inserted last.
<1>2. ASSUME NEW i \in 0..a, NEW j \in 0..b, j # 0, Edited(x, i, y, j - 1) PROVE Q(i, j)
  <2>1. PICK n \in Nat : n = j - 1 /\ j = n + 1
    BY <1>2
  <2>2. Edited(y, n, y, j)
    <3>1. Agree(y, y, n)
      BY DEF Agree
    <3> QED BY <2>1, <3>1, LastEdited
  <2>3. \A m \in 1..n : y[m] \in S
    BY <2>1
  <2>4. Between(x, i, y, j, y, n, S)
    BY <1>2, <2>1, <2>2, <2>3 DEF Between
  <2> QED BY <2>4
\* The last element is replaced last.
<1>3. ASSUME NEW i \in 0..a, NEW j \in 0..b, i # 0, j # 0, Edited(x, i - 1, y, j - 1) PROVE Q(i, j)
  <2>1. PICK n \in Nat, k \in Nat : n = j - 1 /\ j = n + 1 /\ k = i - 1 /\ i = k + 1
    BY <1>3
  <2> DEFINE z == [m \in 1..j |-> IF m = j THEN x[i] ELSE y[m]]
  <2>2. /\ \A m \in 1..j : z[m] = IF m = j THEN x[i] ELSE y[m]
        /\ j \in 1..j
    BY <2>1
  <2> HIDE DEF z
  <2>3. Agree(y, z, n) /\ Agree(z, y, n) /\ z[j] = x[i]
    BY <2>1, <2>2 DEF Agree
  <2>4. Edited(x, k, z, n)
    <3>1. Edited(x, k, y, n) /\ Agree(x, x, k)
      BY <1>3, <2>1 DEF Agree
    <3> QED BY <2>3, <3>1, EditedAlike
  <2>5. Edited(x, i, z, j)
    <3>1. Edited(x, i - 1, z, j - 1)
      BY <2>1, <2>4
    <3> QED BY <1>3, <2>3, <3>1, EditedBefore
  <2>6. Edited(z, j, y, j)
    BY <2>1, <2>3, LastEdited
  <2>7. \A m \in 1..j : z[m] \in S
    BY <1>3, <2>2
  <2>8. Between(x, i, y, j, z, j, S)
    BY <2>5, <2>6, <2>7 DEF Between
  <2> QED BY <2>8
\* Equal elements at the end.
<1>4. ASSUME NEW i \in 0..a, NEW j \in 0..b, i # 0, j # 0, x[i] = y[j], Q(i - 1, j - 1) PROVE Q(i, j)
  <2>1. PICK w, n : Between(x, i - 1, y, j - 1, w, n, S)
    BY <1>4
  <2>2. PICK c \in Nat : c = n + 1 /\ n = c - 1 /\ c # 0 /\ n \in Nat
    BY <2>1 DEF Between
  <2> DEFINE z == [m \in 1..c |-> IF m = c THEN x[i] ELSE w[m]]
  <2>3. /\ \A m \in 1..c : z[m] = IF m = c THEN x[i] ELSE w[m]
        /\ c \in 1..c
    BY <2>2
  <2> HIDE DEF z
  <2>4. Agree(w, z, n) /\ z[c] = x[i]
    BY <2>2, <2>3 DEF Agree
  <2>5. Edited(x, i - 1, z, n) /\ Edited(z, n, y, j - 1)
    <3>1. PICK k \in Nat, l \in Nat : k = i - 1 /\ l = j - 1
      BY <1>4
    <3>2. Edited(x, k, w, n) /\ Edited(w, n, y, l) /\ Agree(x, x, k) /\ Agree(y, y, l)
      BY <2>1, <3>1 DEF Agree, Between
    <3>3. Edited(x, k, z, n) /\ Edited(z, n, y, l)
      BY <2>2, <2>4, <3>2, EditedAlike
    <3> QED BY <3>1, <3>3
  <2>6. Edited(x, i, z, c) /\ Edited(z, c, y, j)
    <3>1. Edited(x, i - 1, z, c - 1) /\ Edited(z, c - 1, y, j - 1) /\ i \in Nat /\ j \in Nat
      BY <2>2, <2>5
    <3> QED BY <1>4, <2>2, <2>4, <3>1, EditedBefore
  <2>7. \A m \in 1..c : z[m] \in S
    BY <1>4, <2>1, <2>2, <2>3 DEF Between
  <2>8. Between(x, i, y, j, z, c, S)
    BY <2>6, <2>7 DEF Between
  <2> QED BY <2>8
<1>5. ASSUME NEW i \in 0..a, NEW j \in 0..b, Edited(x, i, y, j) PROVE Q(i, j)
  <2>1. Edited(y, j, y, j) /\ j \in Nat /\ \A m \in 1..j : y[m] \in S
    BY DEF Edited, Agree
  <2>2. Between(x, i, y, j, y, j, S)
    BY <1>5, <2>1 DEF Between
  <2> QED BY <2>2
<1> HIDE DEF Q
<1>6. ASSUME NEW i \in 0..a, NEW j \in 0..b,
             \A m \in 0..a, q \in 0..b : m + q < i + j => <<m, q>> \in P
      PROVE  <<i, j>> \in P
  <2>0. SUFFICES ASSUME g[i][j] <= 2 PROVE Q(i, j)
    OBVIOUS
  <2>1. CASE i = 0 \/ j = 0
    <3>1. g[i][j] = i + j
      BY <2>1, GridEdge
    <3>2. CASE i + j <= 1
      BY <1>0, <1>5, <3>1, <3>2
    <3>3. CASE i = 0 /\ j # 0
      <4>1. j - 1 \in 0..b /\ j - 1 <= 1
        BY <2>0, <3>1, <3>3
      <4>2. g[i][j - 1] = j - 1
        BY <3>3, <4>1, GridEdge
      <4>3. Edited(x, i, y, j - 1)
        BY <1>0, <4>1, <4>2
      <4> QED BY <1>2, <3>3, <4>3
    <3>4. CASE j = 0 /\ i # 0
      <4>1. i - 1 \in 0..a /\ i - 1 <= 1
        BY <2>0, <3>1, <3>4
      <4>2. g[i - 1][j] = i - 1
        BY <3>4, <4>1, GridEdge
      <4>3. Edited(x, i - 1, y, j)
        BY <1>0, <4>1, <4>2
      <4> QED BY <1>1, <3>4, <4>3
    <3> QED BY <2>1, <3>2, <3>3, <3>4
  <2>2. CASE i # 0 /\ j # 0
    <3>1. i \in 1..a /\ j \in 1..b
      BY <2>2
    <3>2. /\ i - 1 \in 0..a /\ j - 1 \in 0..b /\ (i - 1) + (j - 1) < i + j
          /\ \/ g[i - 1][j] <= 1 \/ g[i][j - 1] <= 1 \/ g[i - 1][j - 1] <= 1
             \/ (g[i - 1][j - 1] <= 2 /\ x[i] = y[j])
      <4>1. /\ i - 1 \in 0..a /\ j - 1 \in 0..b /\ (i - 1) + (j - 1) < i + j
            /\ g[i][j] \in Nat /\ g[i - 1][j] \in Nat /\ g[i][j - 1] \in Nat /\ g[i - 1][j - 1] \in Nat
            /\ \/ g[i][j] = g[i - 1][j] + 1 \/ g[i][j] = g[i][j - 1] + 1
               \/ g[i][j] = g[i - 1][j - 1] + 1 \/ (g[i][j] = g[i - 1][j - 1] /\ x[i] = y[j])
        BY <3>1, GridCases
      <4> HIDE DEF P
      <4> QED BY <2>0, <4>1
    <3>3. CASE g[i - 1][j] <= 1
      BY <1>0, <1>1, <2>2, <3>2, <3>3
    <3>4. CASE g[i][j - 1] <= 1
      BY <1>0, <1>2, <2>2, <3>2, <3>4
    <3>5. CASE g[i - 1][j - 1] <= 1
      BY <1>0, <1>3, <2>2, <3>2, <3>5
    <3>6. CASE g[i - 1][j - 1] <= 2 /\ x[i] = y[j]
      <4>1. <<i - 1, j - 1>> \in P
        <5> HIDE DEF P
        <5> QED BY <1>6, <3>2
      <4>2. Q(i - 1, j - 1)
        BY <3>6, <4>1
      <4> QED BY <1>4, <2>2, <3>6, <4>2
    <3> QED BY <3>2, <3>3, <3>4, <3>5, <3>6
  <2> QED BY <2>1, <2>2
<1>7. \A i \in 0..a, j \in 0..b : <<i, j>> \in P
  <2> HIDE DEF P
  <2> QED BY <1>6, GridInduction
<1> QED BY <1>7 DEF Q
=============================================================================
