--------------------------- MODULE SequenceLemmas ---------------------------
(***************************************************************************)
(* Lemmas about finite sets in the order of their keys and about the       *)
(* concatenation of sequences.  They stand for inductions: each looks at   *)
(* the least number for which it would fail.                               *)
(***************************************************************************)
EXTENDS KeyOrder, SequencesExt, SequenceTheorems, FiniteSetTheorems,
        NaturalsInduction, WellFoundedInduction, TLAPS

-----------------------------------------------------------------------------
(* Numbers *)

\* A set of numbers has a least one.
LEMMA Least ==
    ASSUME NEW S \in SUBSET Nat, S # {}
    PROVE  \E x \in S : \A y \in S : x <= y
<1>. DEFINE R == OpToRel(<, Nat)
<1>1. \A x, y \in Nat : <<y, x>> \in R <=> y < x
  BY DEF OpToRel
<1>2. IsWellFoundedOn(R, Nat)
  BY NatLessThanWellFounded
<1>. HIDE DEF R
<1>3. PICK x \in S : \A y \in S : ~ (<<y, x>> \in R)
  BY <1>2, WFMin
<1>4. ASSUME NEW y \in S PROVE x <= y
  <2>1. x \in Nat /\ y \in Nat /\ ~ (y < x)
    BY <1>1, <1>3
  <2>. QED BY <2>1
<1>. QED BY <1>4

\* Of the numbers of a set with a bound one is the greatest.
LEMMA Greatest ==
    ASSUME NEW n \in Nat, NEW D \in SUBSET (1 .. n), D # {}
    PROVE  \E q \in D : \A j \in D : j <= q
<1>. DEFINE M == {n - q : q \in D}
<1>1. M \in SUBSET Nat /\ M # {}
  <2>1. \A q \in D : n - q \in Nat
    OBVIOUS
  <2>2. M \in SUBSET Nat
    BY <2>1, Zenon
  <2>3. M # {}
    BY Zenon
  <2>. QED BY <2>2, <2>3
<1>2. PICK m \in M : \A x \in M : m <= x
  <2>. HIDE DEF M
  <2>. QED BY <1>1, Least
<1>3. PICK q \in D : m = n - q
  BY <1>2
<1>4. ASSUME NEW j \in D PROVE j <= q
  <2>1. n - q <= n - j
    BY <1>2, <1>3
  <2>2. j \in Int /\ q \in Int
    OBVIOUS
  <2>. QED BY <2>1, <2>2
<1>. QED BY <1>4

\* What holds of 0, and with each number below n of the next, holds up to n.
LEMMA UpTo ==
    ASSUME NEW n \in Nat, NEW S, 0 \in S, \A k \in 0 .. n - 1 : k \in S => k + 1 \in S
    PROVE  \A k \in 0 .. n : k \in S
<1>. DEFINE D == {k \in 0 .. n : k \notin S}
<1>1. SUFFICES ASSUME D # {} PROVE FALSE
  OBVIOUS
<1>2. PICK k \in D : \A m \in D : k <= m
  <2>1. D \in SUBSET Nat
    OBVIOUS
  <2>. HIDE DEF D
  <2>. QED BY <1>1, <2>1, Least
<1>3. k \in 1 .. n /\ k \notin S
  BY <1>2
<1>4. k - 1 \in 0 .. n - 1 /\ k - 1 \in 0 .. n /\ (k - 1) + 1 = k /\ ~ (k <= k - 1)
  BY <1>3
<1>5. k - 1 \notin D
  BY <1>2, <1>4
<1>. QED BY <1>3, <1>4, <1>5

\* What increases from each number to the next increases.
LEMMA Increasing ==
    ASSUME NEW n \in Nat, NEW f \in [1 .. n -> Int],
           \A k \in 1 .. n - 1 : f[k] < f[k + 1],
           NEW i \in 1 .. n, NEW j \in 1 .. n, i < j
    PROVE  f[i] < f[j]
<1>. DEFINE D == {k \in i + 1 .. n : ~ (f[i] < f[k])}
<1>1. SUFFICES ASSUME ~ (f[i] < f[j]) PROVE FALSE
  OBVIOUS
<1>. j \in D
  BY <1>1
<1>2. D \in SUBSET Nat
  OBVIOUS
<1>3. PICK k \in D : \A m \in D : k <= m
  BY <1>1, <1>2, Least
<1>4. k \in i + 1 .. n /\ ~ (f[i] < f[k]) /\ k - 1 \in i .. n - 1 /\ k - 1 \in 1 .. n - 1
  BY <1>3
<1>5. f[k - 1] < f[k]
  <2>1. f[k - 1] < f[(k - 1) + 1] /\ (k - 1) + 1 = k
    BY <1>4
  <2>. QED BY <2>1
<1>6. f[i] <= f[k - 1]
  <2>1. CASE k - 1 = i
    BY <2>1, <1>4
  <2>2. CASE k - 1 \in i + 1 .. n
    <3>1. k - 1 \notin D
      BY <1>3, <1>4
    <3>. QED BY <2>2, <3>1, <1>4
  <2>. QED BY <2>1, <2>2, <1>4
<1>7. f[i] \in Int /\ f[k - 1] \in Int /\ f[k] \in Int
  BY <1>4
<1>. QED BY <1>4, <1>5, <1>6, <1>7

-----------------------------------------------------------------------------
(* Order *)

\* How many elements come before each of them.
Rank(S, key) == [x \in S |-> Cardinality({y \in S : key[y] < key[x]})]

\* When the keys are distinct, each number below the size is the rank of one.
LEMMA Ranks ==
    ASSUME NEW S, IsFiniteSet(S), NEW key \in [S -> Int],
           \A x, y \in S : key[x] = key[y] => x = y
    PROVE  /\ Cardinality(S) \in Nat
           /\ \A x \in S : Rank(S, key)[x] \in 0 .. Cardinality(S) - 1
           /\ \A x, y \in S : key[x] < key[y] => Rank(S, key)[x] < Rank(S, key)[y]
           /\ \A x, y \in S : Rank(S, key)[x] = Rank(S, key)[y] => x = y
           /\ \A k \in 0 .. Cardinality(S) - 1 : \E x \in S : Rank(S, key)[x] = k
<1>. DEFINE Below(x) == {y \in S : key[y] < key[x]}
            n == Cardinality(S)
            rank == Rank(S, key)
<1>0. n \in Nat
  BY FS_CardinalityType
<1>1. \A x \in S : IsFiniteSet(Below(x)) /\ Cardinality(Below(x)) \in Nat /\ rank[x] = Cardinality(Below(x))
  <2>1. ASSUME NEW x \in S
        PROVE  IsFiniteSet(Below(x)) /\ Cardinality(Below(x)) \in Nat /\ rank[x] = Cardinality(Below(x))
    <3>1. Below(x) \in SUBSET S
      OBVIOUS
    <3>2. IsFiniteSet(Below(x))
      BY <3>1, FS_Subset
    <3>. QED BY <3>2, FS_CardinalityType DEF Rank
  <2>. QED BY <2>1
<1>7. rank = [x \in S |-> rank[x]]
  BY DEF Rank
<1>. HIDE DEF rank
<1>2. ASSUME NEW T \in SUBSET S, NEW U \in SUBSET T, NEW z \in T, z \notin U
      PROVE  Cardinality(U) < Cardinality(T)
  <2>1. IsFiniteSet(T) /\ Cardinality(T) \in Nat
    BY FS_Subset, FS_CardinalityType
  <2>2. IsFiniteSet(U) /\ Cardinality(U) \in Nat /\ Cardinality(U) <= Cardinality(T)
    BY <2>1, FS_Subset, FS_CardinalityType
  <2>3. Cardinality(U) # Cardinality(T)
    BY <2>1, <1>2, FS_Subset
  <2>. QED BY <2>1, <2>2, <2>3
<1>3. ASSUME NEW x \in S PROVE rank[x] \in 0 .. n - 1
  <2>1. Below(x) \in SUBSET S /\ x \notin Below(x)
    OBVIOUS
  <2>2. Cardinality(Below(x)) < Cardinality(S)
    BY <2>1, <1>2
  <2>. QED BY <1>0, <1>1, <2>2
<1>4. ASSUME NEW x \in S, NEW y \in S, key[x] < key[y] PROVE rank[x] < rank[y]
  <2>1. key[x] \in Int /\ key[y] \in Int /\ \A z \in S : key[z] \in Int
    OBVIOUS
  <2>2. Below(x) \in SUBSET Below(y) /\ Below(y) \in SUBSET S
    BY <2>1, <1>4
  <2>3. x \in Below(y) /\ x \notin Below(x)
    BY <2>1, <1>4
  <2>4. /\ Cardinality(Below(x)) \in Nat /\ rank[x] = Cardinality(Below(x))
        /\ Cardinality(Below(y)) \in Nat /\ rank[y] = Cardinality(Below(y))
    BY <1>1
  <2>. HIDE DEF Below
  <2>5. Cardinality(Below(x)) < Cardinality(Below(y))
    BY <2>2, <2>3, <1>2
  <2>. QED BY <2>4, <2>5
<1>5. ASSUME NEW x \in S, NEW y \in S, rank[x] = rank[y] PROVE x = y
  <2>1. rank[x] \in Int /\ key[x] \in Int /\ key[y] \in Int
    BY <1>0, <1>3
  <2>2. ~ (key[x] < key[y]) /\ ~ (key[y] < key[x])
    BY <1>4, <1>5, <2>1
  <2>. QED BY <2>1, <2>2
<1>6. ASSUME NEW k \in 0 .. n - 1 PROVE \E x \in S : rank[x] = k
  <2>1. IsFiniteSet(0 .. n - 1) /\ Cardinality(0 .. n - 1) = n
    BY <1>0, FS_Interval
  <2>2. rank \in [S -> 0 .. n - 1]
    BY <1>3, <1>7
  <2>3. rank \in Injection(S, 0 .. n - 1)
    BY <2>2, <1>5 DEF Injection, IsInjective
  <2>4. rank \in Surjection(S, 0 .. n - 1)
    BY <2>1, <2>3, FS_Injection
  <2>. QED BY <2>4 DEF Surjection
<1>. QED BY <1>0, <1>3, <1>4, <1>5, <1>6 DEF rank

\* The keys of a finite set are distinct numbers.
Keyed(S, key) ==
    /\ IsFiniteSet(S) /\ key \in [S -> Int]
    /\ \A x, y \in S : key[x] = key[y] => x = y

\* Sequence t gives each of S once, in the order of the keys.
Listing(t, n, S, key) ==
    /\ n \in Nat /\ key \in [S -> Int] /\ t \in [1 .. n -> S]
    /\ \A j, k \in 1 .. n : j < k => key[t[j]] < key[t[k]]
    /\ \A x \in S : \E k \in 1 .. n : t[k] = x

\* InOrder does, and gives each at its rank.
LEMMA InOrderFacts ==
    ASSUME NEW S, NEW key, Keyed(S, key)
    PROVE  /\ Listing(InOrder(S, key), Cardinality(S), S, key)
           /\ \A k \in 1 .. Cardinality(S) : Rank(S, key)[InOrder(S, key)[k]] = k - 1
<1>0. /\ IsFiniteSet(S) /\ key \in [S -> Int]
      /\ \A x, y \in S : key[x] = key[y] => x = y
  BY DEF Keyed
<1>. USE <1>0
<1>. DEFINE rank == Rank(S, key)
            n == Cardinality(S)
            s == InOrder(S, key)
            At(k) == CHOOSE x \in S : Cardinality({y \in S : key[y] < key[x]}) = k - 1
<1>1. /\ n \in Nat
      /\ \A x \in S : rank[x] \in 0 .. n - 1
      /\ \A x, y \in S : key[x] < key[y] => rank[x] < rank[y]
      /\ \A x, y \in S : rank[x] = rank[y] => x = y
      /\ \A k \in 0 .. n - 1 : \E x \in S : rank[x] = k
  BY Ranks
<1>. HIDE DEF rank
<1>2. ASSUME NEW k \in 1 .. n PROVE s[k] \in S /\ rank[s[k]] = k - 1
  <2>1. \E x \in S : Cardinality({y \in S : key[y] < key[x]}) = k - 1
    <3>1. k - 1 \in 0 .. n - 1
      BY <1>1
    <3>2. PICK x \in S : rank[x] = k - 1
      BY <1>1, <3>1
    <3>. QED BY <3>2 DEF rank, Rank
  <2>2. s[k] = At(k)
    BY DEF InOrder
  <2>3. s[k] \in S /\ Cardinality({y \in S : key[y] < key[s[k]]}) = k - 1
    BY <2>1, <2>2
  <2>. QED BY <2>3 DEF rank, Rank
<1>3. s = [k \in 1 .. n |-> At(k)]
  BY DEF InOrder
<1>. HIDE DEF At, s
<1>4. s \in [1 .. n -> S]
  BY <1>2, <1>3
<1>5. ASSUME NEW j \in 1 .. n, NEW k \in 1 .. n, j < k PROVE key[s[j]] < key[s[k]]
  <2>1. /\ s[j] \in S /\ s[k] \in S /\ rank[s[j]] = j - 1 /\ rank[s[k]] = k - 1
        /\ key[s[j]] \in Int /\ key[s[k]] \in Int
    BY <1>2
  <2>2. rank[s[j]] # rank[s[k]] /\ ~ (rank[s[k]] < rank[s[j]])
    BY <2>1, <1>1, <1>5
  <2>3. ~ (key[s[k]] < key[s[j]]) /\ s[j] # s[k]
    BY <2>1, <2>2, <1>1
  <2>. QED BY <2>1, <2>3
<1>6. ASSUME NEW x \in S PROVE \E k \in 1 .. n : s[k] = x
  <2>1. rank[x] \in 0 .. n - 1 /\ rank[x] + 1 \in 1 .. n /\ (rank[x] + 1) - 1 = rank[x]
    BY <1>1
  <2>2. s[rank[x] + 1] \in S /\ rank[s[rank[x] + 1]] = rank[x]
    BY <1>2, <2>1
  <2>. QED BY <2>1, <2>2, <1>1
<1>8. \A k \in 1 .. n : Rank(S, key)[s[k]] = k - 1
  BY <1>2 DEF rank
<1>. QED BY <1>1, <1>4, <1>5, <1>6, <1>8 DEF s, Listing

\* There is no other such sequence.
LEMMA InOrderUnique ==
    ASSUME NEW S, NEW key, NEW n, NEW t, Listing(t, n, S, key)
    PROVE  IsFiniteSet(S) /\ Cardinality(S) = n /\ InOrder(S, key) = t
<1>0. /\ n \in Nat /\ key \in [S -> Int] /\ t \in [1 .. n -> S]
      /\ \A j, k \in 1 .. n : j < k => key[t[j]] < key[t[k]]
      /\ \A x \in S : \E k \in 1 .. n : t[k] = x
  BY DEF Listing
<1>. USE <1>0
<1>1. ASSUME NEW j \in 1 .. n, NEW k \in 1 .. n PROVE key[t[j]] < key[t[k]] <=> j < k
  <2>1. key[t[j]] \in Int /\ key[t[k]] \in Int
    OBVIOUS
  <2>2. j < k \/ j = k \/ k < j
    OBVIOUS
  <2>. QED BY <2>1, <2>2
<1>2. \A j, k \in 1 .. n : t[j] = t[k] => j = k
  BY <1>1
<1>3. ASSUME NEW m \in 0 .. n, NEW T, T = {t[j] : j \in 1 .. m}
      PROVE  IsFiniteSet(T) /\ Cardinality(T) = m
  <2>. DEFINE f == [j \in 1 .. m |-> t[j]]
  <2>1. f \in Surjection(1 .. m, T) /\ f \in Injection(1 .. m, T)
    BY <1>2, <1>3 DEF Surjection, Injection, IsInjective
  <2>2. ExistsBijection(1 .. m, T)
    BY <2>1 DEF ExistsBijection, Bijection
  <2>3. IsFiniteSet(T)
    BY <2>2, FS_NatBijection
  <2>. QED BY <2>2, <2>3, FS_CountingElements
<1>4. IsFiniteSet(S) /\ Cardinality(S) = n
  <2>1. S = {t[j] : j \in 1 .. n}
    OBVIOUS
  <2>2. n \in 0 .. n
    OBVIOUS
  <2>. QED BY <2>1, <2>2, <1>3
<1>5. ASSUME NEW k \in 1 .. n PROVE Cardinality({y \in S : key[y] < key[t[k]]}) = k - 1
  <2>1. {y \in S : key[y] < key[t[k]]} = {t[j] : j \in 1 .. k - 1}
    <3>1. ASSUME NEW y \in S, key[y] < key[t[k]] PROVE y \in {t[j] : j \in 1 .. k - 1}
      <4>1. PICK j \in 1 .. n : t[j] = y
        OBVIOUS
      <4>2. j < k
        BY <4>1, <3>1, <1>1
      <4>. QED BY <4>1, <4>2
    <3>2. ASSUME NEW j \in 1 .. k - 1 PROVE t[j] \in S /\ key[t[j]] < key[t[k]]
      <4>1. j \in 1 .. n
        OBVIOUS
      <4>. QED BY <4>1, <1>1
    <3>. QED BY <3>1, <3>2
  <2>2. k - 1 \in 0 .. n
    OBVIOUS
  <2>. QED BY <2>1, <2>2, <1>3
<1>6. \A x, y \in S : key[x] = key[y] => x = y
  <2>1. ASSUME NEW x \in S, NEW y \in S, key[x] = key[y] PROVE x = y
    <3>1. PICK j \in 1 .. n : t[j] = x
      OBVIOUS
    <3>2. PICK k \in 1 .. n : t[k] = y
      OBVIOUS
    <3>3. ~ (j < k) /\ ~ (k < j)
      BY <3>1, <3>2, <2>1, <1>1
    <3>. QED BY <3>1, <3>2, <3>3
  <2>. QED BY <2>1
<1>. DEFINE rank == Rank(S, key)
            s == InOrder(S, key)
<1>7. \A x, y \in S : rank[x] = rank[y] => x = y
  BY <1>4, <1>6, Ranks
<1>8. s \in [1 .. n -> S] /\ \A k \in 1 .. n : rank[s[k]] = k - 1
  <2>1. Keyed(S, key)
    BY <1>4, <1>6 DEF Keyed
  <2>2. /\ Listing(s, Cardinality(S), S, key)
        /\ \A k \in 1 .. Cardinality(S) : rank[s[k]] = k - 1
    BY <2>1, InOrderFacts
  <2>. HIDE DEF s, rank
  <2>. QED BY <1>4, <2>2 DEF Listing
<1>9. ASSUME NEW k \in 1 .. n PROVE s[k] = t[k]
  <2>1. s[k] \in S /\ t[k] \in S
    BY <1>8
  <2>2. rank[s[k]] = k - 1 /\ rank[t[k]] = k - 1
    BY <2>1, <1>5, <1>8 DEF Rank
  <2>. HIDE DEF rank, s
  <2>. QED BY <2>1, <2>2, <1>7
<1>. HIDE DEF s
<1>10. s = t
  BY <1>8, <1>9
<1>. QED BY <1>4, <1>10 DEF s

\* Function f numbers the elements of S, whose keys are distinct.
Numbering(f, n, S, key) ==
    /\ n \in Nat /\ key \in [S -> Int] /\ f \in [1 .. n -> S]
    /\ \A x \in S : \E k \in 1 .. n : f[k] = x
    /\ \A j, k \in 1 .. n : key[f[j]] = key[f[k]] => j = k

\* Sequence s has each element at the place of its number.
InPlace(s, f, n, key) ==
    /\ Len(s) = n
    /\ \A i \in 1 .. n : \E k \in 1 .. n :
          /\ s[i] = f[k]
          /\ Cardinality({j \in 1 .. n : key[f[j]] < key[f[k]]}) = i - 1

\* The place of an element in the order of S is that of its number in the order
\* of the numbers.
LEMMA InOrderOfNumbered ==
    ASSUME NEW n, NEW S, NEW key, NEW f, Numbering(f, n, S, key)
    PROVE  InPlace(InOrder(S, key), f, n, key)
<1>0. /\ n \in Nat /\ key \in [S -> Int] /\ f \in [1 .. n -> S]
      /\ \A x \in S : \E k \in 1 .. n : f[k] = x
      /\ \A j, k \in 1 .. n : key[f[j]] = key[f[k]] => j = k
  BY DEF Numbering
<1>. DEFINE K == 1 .. n
            byNumber == [k \in K |-> key[f[k]]]
<1>1. IsFiniteSet(K) /\ Cardinality(K) = n
  BY <1>0, FS_Interval
<1>2. byNumber \in [K -> Int] /\ \A x, y \in K : byNumber[x] = byNumber[y] => x = y
  BY <1>0
<1>3. Keyed(K, byNumber)
  <2>. HIDE DEF K, byNumber
  <2>. QED BY <1>1, <1>2 DEF Keyed
<1>. USE <1>0
<1>. DEFINE t == InOrder(K, byNumber)
            g == [i \in 1 .. n |-> f[t[i]]]
<1>4. /\ t \in [1 .. n -> K]
      /\ \A j, k \in 1 .. n : j < k => byNumber[t[j]] < byNumber[t[k]]
      /\ \A x \in K : \E k \in 1 .. n : t[k] = x
      /\ \A k \in 1 .. n : Rank(K, byNumber)[t[k]] = k - 1
  <2>. HIDE DEF K, byNumber
  <2>1. /\ Listing(t, Cardinality(K), K, byNumber)
        /\ \A k \in 1 .. Cardinality(K) : Rank(K, byNumber)[t[k]] = k - 1
    BY <1>3, InOrderFacts
  <2>. HIDE DEF t
  <2>. QED BY <1>1, <2>1 DEF Listing
<1>. HIDE DEF t
<1>5. Listing(g, n, S, key)
  <2>1. g \in [1 .. n -> S]
    BY <1>4
  <2>2. \A j, k \in 1 .. n : j < k => key[g[j]] < key[g[k]]
    BY <1>4
  <2>3. \A x \in S : \E k \in 1 .. n : g[k] = x
    BY <1>4
  <2>. HIDE DEF g
  <2>. QED BY <2>1, <2>2, <2>3 DEF Listing
<1>6. InOrder(S, key) = g
  <2>. HIDE DEF g
  <2>. QED BY <1>5, InOrderUnique
<1>7. ASSUME NEW i \in 1 .. n
      PROVE  \E k \in 1 .. n : /\ g[i] = f[k]
                               /\ Cardinality({j \in 1 .. n : key[f[j]] < key[f[k]]}) = i - 1
  <2>1. t[i] \in 1 .. n /\ g[i] = f[t[i]]
    BY <1>4
  <2>2. Cardinality({j \in K : byNumber[j] < byNumber[t[i]]}) = i - 1
    BY <1>4, <2>1 DEF Rank
  <2>3. {j \in K : byNumber[j] < byNumber[t[i]]} = {j \in 1 .. n : key[f[j]] < key[f[t[i]]]}
    BY <2>1
  <2>. HIDE DEF K, byNumber, g
  <2>. QED BY <2>1, <2>2, <2>3
<1>8. Len(g) = n
  <2>1. g \in [1 .. n -> S]
    BY <1>4
  <2>. HIDE DEF g
  <2>. QED BY <2>1
<1>9. /\ Len(g) = n
      /\ \A i \in 1 .. n : \E k \in 1 .. n :
            /\ g[i] = f[k]
            /\ Cardinality({j \in 1 .. n : key[f[j]] < key[f[k]]}) = i - 1
  <2>. HIDE DEF g
  <2>. QED BY ONLY <1>7, <1>8
<1>. HIDE DEF g
<1>10. InPlace(g, f, n, key)
  BY ONLY <1>9, Zenon DEF InPlace
<1>. QED BY <1>6, <1>10, Zenon

-----------------------------------------------------------------------------
(* Concatenation *)

\* The middle one of three.
LEMMA Middle ==
    ASSUME NEW T, NEW a \in Seq(T), NEW b \in Seq(T), NEW c \in Seq(T),
           NEW s, s = (a \o b) \o c
    PROVE  /\ Len(a) \in Nat /\ s \in Seq(T) /\ Len(s) \in Nat
           /\ Len(s) = Len(a) + Len(b) + Len(c) /\ Len(c) \in Nat
           /\ \A i \in 1 .. Len(b) : s[Len(a) + i] = b[i]
           /\ Len(a \o b) = Len(a) + Len(b)
<1>. DEFINE front == a \o b
<1>1. /\ front \in Seq(T) /\ Len(front) = Len(a) + Len(b)
      /\ \A i \in 1 .. Len(b) : front[Len(a) + i] = b[i]
      /\ Len(a) \in Nat /\ Len(b) \in Nat /\ Len(c) \in Nat
  OBVIOUS
<1>. HIDE DEF front
<1>2. s = front \o c
  BY DEF front
<1>3. /\ s \in Seq(T) /\ Len(s) = Len(front) + Len(c)
      /\ \A i \in 1 .. Len(front) : s[i] = front[i]
  <2>1. ASSUME NEW f \in Seq(T)
        PROVE  /\ f \o c \in Seq(T) /\ Len(f \o c) = Len(f) + Len(c)
               /\ \A i \in 1 .. Len(f) : (f \o c)[i] = f[i]
    OBVIOUS
  <2>. QED BY <1>1, <1>2, <2>1, Zenon
<1>4. ASSUME NEW i \in 1 .. Len(b) PROVE s[Len(a) + i] = b[i]
  <2>1. Len(a) + i \in 1 .. Len(front)
    BY <1>1
  <2>. QED BY <1>1, <1>3, <2>1
<1>. QED BY <1>1, <1>3, <1>4 DEF front

\* A part is what it holds.
LEMMA SubSeqIs ==
    ASSUME NEW T, NEW s \in Seq(T), NEW w \in Seq(T), NEW o \in Nat,
           o + Len(w) <= Len(s), \A i \in 1 .. Len(w) : s[o + i] = w[i]
    PROVE  SubSeq(s, o + 1, o + Len(w)) = w
<1>. DEFINE m == o + 1
            n == o + Len(w)
            part == SubSeq(s, m, n)
<1>1. /\ m \in Int /\ n \in Int /\ n - m + 1 = Len(w) /\ Len(w) \in Nat /\ Len(s) \in Nat
      /\ (m <= n <=> Len(w) > 0)
      /\ \A i \in 1 .. Len(w) : m + i - 1 = o + i
  OBVIOUS
<1>2. ASSUME NEW i \in m .. n PROVE s[i] \in T
  <2>1. i \in 1 .. Len(s)
    BY <1>1
  <2>. QED BY <2>1
<1>. HIDE DEF m, n
<1>3. /\ part \in Seq(T)
      /\ Len(part) = IF m <= n THEN n - m + 1 ELSE 0
      /\ \A i \in 1 .. n - m + 1 : part[i] = s[m + i - 1]
  BY <1>1, <1>2, SubSeqProperties
<1>. HIDE DEF part
<1>4. Len(part) = Len(w)
  BY <1>1, <1>3
<1>6. ASSUME NEW i \in 1 .. Len(w) PROVE part[i] = w[i]
  <2>1. part[i] = s[m + i - 1] /\ m + i - 1 = o + i
    BY <1>1, <1>3
  <2>. QED BY <2>1
<1>5. part = w
  BY <1>3, <1>4, <1>6
<1>. QED BY <1>5 DEF part, m, n

\* What FlattenSeq defines by recursion: the concatenations of the first i.
IsFlattening(f, seqs) ==
    f = [i \in 1 .. Len(seqs) |-> IF i = 1 THEN seqs[i] ELSE f[i - 1] \o seqs[i]]

LEMMA FlatteningExists ==
    ASSUME NEW seqs, Len(seqs) \in Nat
    PROVE  \E f : IsFlattening(f, seqs)
<1>. DEFINE Good(n) == \E f : f = [i \in 1 .. n |-> IF i = 1 THEN seqs[i]
                                                   ELSE f[i - 1] \o seqs[i]]
            D == {n \in Nat : ~ Good(n)}
<1>1. SUFFICES ASSUME D # {} PROVE FALSE
  BY DEF IsFlattening
<1>2. PICK n \in D : \A m \in D : n <= m
  <2>1. D \in SUBSET Nat
    OBVIOUS
  <2>. HIDE DEF D
  <2>. QED BY <1>1, <2>1, Least
<1>3. Good(0)
  <2>. DEFINE e == [i \in 1 .. 0 |-> 0]
  <2>1. e = [i \in 1 .. 0 |-> IF i = 1 THEN seqs[i] ELSE e[i - 1] \o seqs[i]]
    OBVIOUS
  <2>. QED BY <2>1
<1>. HIDE DEF Good
<1>4. n \in Nat \ {0} /\ n - 1 \in Nat /\ ~ Good(n)
  BY <1>2, <1>3
<1>5. Good(n - 1)
  <2>1. ~ (n <= n - 1)
    BY <1>4
  <2>2. n - 1 \notin D
    BY <1>2, <2>1
  <2>. QED BY <2>2, <1>4
<1>6. PICK f : f = [i \in 1 .. n - 1 |-> IF i = 1 THEN seqs[i] ELSE f[i - 1] \o seqs[i]]
  BY <1>5 DEF Good
<1>. DEFINE last == IF n = 1 THEN seqs[n] ELSE f[n - 1] \o seqs[n]
            g == [i \in 1 .. n |-> IF i = n THEN last ELSE f[i]]
<1>7. ASSUME NEW i \in 1 .. n
      PROVE  g[i] = IF i = 1 THEN seqs[i] ELSE g[i - 1] \o seqs[i]
  <2>1. CASE i = n
    <3>1. i # 1 => i - 1 \in 1 .. n /\ i - 1 # n
      BY <1>4, <2>1
    <3>2. i # 1 => g[i - 1] = f[i - 1]
      BY <3>1
    <3>. QED BY <2>1, <3>2
  <2>2. CASE i # n
    <3>1. i \in 1 .. n - 1 /\ (i # 1 => i - 1 \in 1 .. n /\ i - 1 # n)
      BY <1>4, <2>2
    <3>2. g[i] = f[i] /\ (i # 1 => g[i - 1] = f[i - 1])
      BY <2>2, <3>1
    <3>3. f[i] = IF i = 1 THEN seqs[i] ELSE f[i - 1] \o seqs[i]
      BY <3>1, <1>6
    <3>. QED BY <3>2, <3>3
  <2>. QED BY <2>1, <2>2
<1>8. g = [i \in 1 .. n |-> g[i]]
  OBVIOUS
<1>. HIDE DEF g
<1>9. g = [i \in 1 .. n |-> IF i = 1 THEN seqs[i] ELSE g[i - 1] \o seqs[i]]
  BY <1>7, <1>8
<1>. QED BY <1>4, <1>9 DEF Good

LEMMA FlatteningUnique ==
    ASSUME NEW seqs, NEW more, Len(seqs) \in Nat, Len(more) \in Nat, Len(seqs) <= Len(more),
           \A i \in 1 .. Len(seqs) : more[i] = seqs[i],
           NEW f, NEW g, IsFlattening(f, seqs), IsFlattening(g, more)
    PROVE  \A i \in 1 .. Len(seqs) : f[i] = g[i]
<1>. DEFINE D == {i \in 1 .. Len(seqs) : f[i] # g[i]}
<1>1. SUFFICES ASSUME D # {} PROVE FALSE
  OBVIOUS
<1>2. PICK n \in D : \A m \in D : n <= m
  <2>1. D \in SUBSET Nat
    OBVIOUS
  <2>. HIDE DEF D
  <2>. QED BY <1>1, <2>1, Least
<1>3. n \in 1 .. Len(seqs) /\ n \in 1 .. Len(more) /\ f[n] # g[n]
  BY <1>2
<1>4. f[n] = IF n = 1 THEN seqs[n] ELSE f[n - 1] \o seqs[n]
  BY <1>3 DEF IsFlattening
<1>5. g[n] = IF n = 1 THEN more[n] ELSE g[n - 1] \o more[n]
  BY <1>3 DEF IsFlattening
<1>6. n # 1 => f[n - 1] = g[n - 1]
  <2>1. SUFFICES ASSUME n # 1 PROVE f[n - 1] = g[n - 1]
    OBVIOUS
  <2>2. n - 1 \in 1 .. Len(seqs) /\ ~ (n <= n - 1)
    BY <1>3, <2>1
  <2>3. n - 1 \notin D
    BY <1>2, <2>2
  <2>. QED BY <2>2, <2>3
<1>. QED BY <1>3, <1>4, <1>5, <1>6

LEMMA FlattenIsFlattening ==
    ASSUME NEW seqs, Len(seqs) \in Nat \ {0}
    PROVE  \E f : IsFlattening(f, seqs) /\ FlattenSeq(seqs) = f[Len(seqs)]
<1>. DEFINE c == CHOOSE f : f = [i \in 1 .. Len(seqs) |->
                                    IF i = 1 THEN seqs[i] ELSE f[i - 1] \o seqs[i]]
<1>1. \E f : f = [i \in 1 .. Len(seqs) |-> IF i = 1 THEN seqs[i] ELSE f[i - 1] \o seqs[i]]
  BY FlatteningExists DEF IsFlattening
<1>2. IsFlattening(c, seqs)
  BY <1>1 DEF IsFlattening
<1>3. FlattenSeq(seqs) = c[Len(seqs)]
  BY DEF FlattenSeq
<1>. QED BY <1>2, <1>3

\* The concatenation of no sequences is empty, and of one more it is longer by
\* that one.
LEMMA FlattenEmpty == FlattenSeq(<<>>) = <<>>
BY DEF FlattenSeq

LEMMA FlattenAppend ==
    ASSUME NEW T, NEW seqs \in Seq(Seq(T)), NEW s \in Seq(T)
    PROVE  FlattenSeq(Append(seqs, s)) = FlattenSeq(seqs) \o s
<1>. DEFINE more == Append(seqs, s)
            n == Len(seqs)
<1>1. /\ n \in Nat /\ Len(more) = n + 1 /\ more[n + 1] = s
      /\ Len(more) \in Nat \ {0} /\ n + 1 \in 1 .. Len(more)
      /\ \A i \in 1 .. n : more[i] = seqs[i]
  OBVIOUS
<1>. HIDE DEF more
<1>2. PICK g : IsFlattening(g, more) /\ FlattenSeq(more) = g[n + 1]
  BY <1>1, FlattenIsFlattening
<1>3. g[n + 1] = IF n + 1 = 1 THEN s ELSE g[(n + 1) - 1] \o s
  BY <1>1, <1>2 DEF IsFlattening
<1>4. CASE n = 0
  <2>1. seqs = <<>>
    BY <1>4
  <2>2. FlattenSeq(seqs) = <<>>
    BY <2>1, FlattenEmpty
  <2>3. <<>> \o s = s
    BY ConcatEmptySeq
  <2>. QED BY <1>2, <1>3, <1>4, <2>2, <2>3 DEF more
<1>5. CASE n # 0
  <2>1. PICK f : IsFlattening(f, seqs) /\ FlattenSeq(seqs) = f[n]
    BY <1>1, <1>5, FlattenIsFlattening
  <2>2. \A i \in 1 .. n : f[i] = g[i]
    <3>1. Len(seqs) \in Nat /\ Len(more) \in Nat /\ Len(seqs) <= Len(more)
      BY <1>1
    <3>2. IsFlattening(f, seqs) /\ IsFlattening(g, more)
      BY <1>2, <2>1
    <3>3. \A i \in 1 .. Len(seqs) : more[i] = seqs[i]
      BY <1>1
    <3>. QED BY ONLY <3>1, <3>2, <3>3, FlatteningUnique
  <2>3. n \in 1 .. n /\ (n + 1) - 1 = n /\ n + 1 # 1
    BY <1>1, <1>5
  <2>. QED BY <1>2, <1>3, <2>1, <2>2, <2>3 DEF more
<1>. QED BY <1>4, <1>5

LEMMA FlattenType ==
    ASSUME NEW T, NEW seqs \in Seq(Seq(T))
    PROVE  FlattenSeq(seqs) \in Seq(T)
<1>1. CASE seqs = <<>>
  <2>1. FlattenSeq(seqs) = <<>>
    BY <1>1, FlattenEmpty, Zenon
  <2>. QED BY <2>1, EmptySeq, Zenon
<1>2. CASE seqs # <<>>
  <2>. DEFINE n == Len(seqs)
  <2>1. n \in Nat \ {0} /\ \A i \in 1 .. n : seqs[i] \in Seq(T)
    BY <1>2
  <2>2. PICK f : IsFlattening(f, seqs) /\ FlattenSeq(seqs) = f[n]
    BY <2>1, FlattenIsFlattening
  <2>. DEFINE D == {i \in 1 .. n : f[i] \notin Seq(T)}
  <2>3. SUFFICES ASSUME D # {} PROVE FALSE
    BY <2>1, <2>2
  <2>4. PICK k \in D : \A m \in D : k <= m
    <3>1. D \in SUBSET Nat
      OBVIOUS
    <3>. HIDE DEF D
    <3>. QED BY <2>3, <3>1, Least
  <2>5. k \in 1 .. n /\ f[k] \notin Seq(T)
    BY <2>4
  <2>6. f[k] = IF k = 1 THEN seqs[k] ELSE f[k - 1] \o seqs[k]
    BY <2>2, <2>5 DEF IsFlattening
  <2>7. k # 1 => f[k - 1] \in Seq(T)
    <3>1. SUFFICES ASSUME k # 1 PROVE f[k - 1] \in Seq(T)
      OBVIOUS
    <3>2. k - 1 \in 1 .. n /\ ~ (k <= k - 1)
      BY <2>5, <3>1
    <3>3. k - 1 \notin D
      BY <2>4, <3>2
    <3>. QED BY <3>2, <3>3
  <2>8. seqs[k] \in Seq(T)
    BY <2>1, <2>5
  <2>. QED BY <2>5, <2>6, <2>7, <2>8
<1>. QED BY <1>1, <1>2
\* The concatenation of the first n and of one more; the first n come first.
LEMMA FlattenStep ==
    ASSUME NEW T, NEW seqs \in Seq(Seq(T)), NEW n \in 0 .. Len(seqs) - 1
    PROVE  FlattenSeq(SubSeq(seqs, 1, n + 1)) = FlattenSeq(SubSeq(seqs, 1, n)) \o seqs[n + 1]
<1>. DEFINE before == SubSeq(seqs, 1, n)
            s == seqs[n + 1]
<1>1. before \in Seq(Seq(T)) /\ s \in Seq(T)
  OBVIOUS
<1>2. SubSeq(seqs, 1, n + 1) = Append(before, s)
  OBVIOUS
<1>. HIDE DEF before, s
<1>3. FlattenSeq(Append(before, s)) = FlattenSeq(before) \o s
  BY <1>1, FlattenAppend
<1>. QED BY <1>2, <1>3 DEF before, s

LEMMA FlattenSplit ==
    ASSUME NEW T, NEW seqs \in Seq(Seq(T)), NEW n \in 0 .. Len(seqs)
    PROVE  \E rest \in Seq(T) : FlattenSeq(seqs) = FlattenSeq(SubSeq(seqs, 1, n)) \o rest
<1>. DEFINE W(k) == FlattenSeq(SubSeq(seqs, 1, k))
            Good(d) == \E rest \in Seq(T) : FlattenSeq(seqs) = W(Len(seqs) - d) \o rest
            D == {d \in 0 .. Len(seqs) : ~ Good(d)}
<1>1. ASSUME NEW k \in 0 .. Len(seqs)
      PROVE  W(k) \in Seq(T) /\ (k < Len(seqs) => /\ W(k + 1) = W(k) \o seqs[k + 1]
                                                  /\ seqs[k + 1] \in Seq(T))
  <2>1. SubSeq(seqs, 1, k) \in Seq(Seq(T))
    OBVIOUS
  <2>2. W(k) \in Seq(T)
    BY <2>1, FlattenType
  <2>3. k < Len(seqs) => k \in 0 .. Len(seqs) - 1 /\ seqs[k + 1] \in Seq(T)
    OBVIOUS
  <2>. QED BY <2>2, <2>3, FlattenStep
<1>2. W(Len(seqs)) = FlattenSeq(seqs)
  <2>1. SubSeq(seqs, 1, Len(seqs)) = seqs
    OBVIOUS
  <2>. QED BY <2>1
<1>. HIDE DEF W
<1>3. Good(0)
  <2>1. Len(seqs) - 0 = Len(seqs) /\ Len(seqs) \in 0 .. Len(seqs)
    OBVIOUS
  <2>2. W(Len(seqs)) \in Seq(T)
    BY <1>1, <2>1
  <2>3. FlattenSeq(seqs) = W(Len(seqs) - 0) \o <<>> /\ <<>> \in Seq(T)
    BY <1>2, <2>1, <2>2
  <2>. QED BY <2>3
<1>. HIDE DEF Good
<1>4. D = {}
  <2>1. SUFFICES ASSUME D # {} PROVE FALSE
    OBVIOUS
  <2>2. PICK d \in D : \A m \in D : d <= m
    <3>1. D \in SUBSET Nat
      OBVIOUS
    <3>. HIDE DEF D
    <3>. QED BY <2>1, <3>1, Least
  <2>3. d \in 1 .. Len(seqs) /\ ~ Good(d)
    <3>1. d \in 0 .. Len(seqs) /\ ~ Good(d)
      BY <2>2
    <3>2. d # 0
      BY <1>3, <3>1
    <3>. QED BY <3>1, <3>2
  <2>4. Good(d - 1)
    <3>1. d - 1 \in 0 .. Len(seqs) /\ ~ (d <= d - 1)
      BY <2>3
    <3>2. d - 1 \notin D
      BY <2>2, <3>1
    <3>. QED BY <3>1, <3>2
  <2>. DEFINE k == Len(seqs) - d
  <2>5. k \in 0 .. Len(seqs) /\ k < Len(seqs) /\ Len(seqs) - (d - 1) = k + 1
    BY <2>3
  <2>6. PICK rest \in Seq(T) : FlattenSeq(seqs) = W(k + 1) \o rest
    BY <2>4, <2>5 DEF Good
  <2>. DEFINE front == W(k)
              middle == seqs[k + 1]
              more == middle \o rest
  <2>7. front \in Seq(T) /\ middle \in Seq(T) /\ W(k + 1) = front \o middle
    BY <1>1, <2>5
  <2>8. more \in Seq(T)
    BY <2>7
  <2>9. FlattenSeq(seqs) = front \o more
    <3>0. front \in Seq(T) /\ middle \in Seq(T) /\ rest \in Seq(T)
      BY <2>7
    <3>. HIDE DEF front, middle
    <3>1. (front \o middle) \o rest = front \o (middle \o rest)
      BY ONLY <3>0, ConcatAssociative
    <3>. QED BY <2>6, <2>7, <3>1
  <2>10. Good(d)
    BY <2>8, <2>9 DEF Good
  <2>. QED BY <2>3, <2>10
<1>5. Good(Len(seqs) - n)
  <2>1. Len(seqs) - n \in 0 .. Len(seqs)
    OBVIOUS
  <2>2. Len(seqs) - n \notin D
    BY <1>4
  <2>. QED BY <2>1, <2>2
<1>6. Len(seqs) - (Len(seqs) - n) = n
  OBVIOUS
<1>. QED BY <1>5, <1>6 DEF Good, W

\* The elements of two sequences are those of their concatenation.
LEMMA ConcatElements ==
    ASSUME NEW T, NEW a \in Seq(T), NEW b \in Seq(T)
    PROVE  ToSet(a \o b) = ToSet(a) \cup ToSet(b)
<1>. DEFINE s == a \o b
<1>1. /\ s \in Seq(T) /\ Len(s) = Len(a) + Len(b) /\ Len(a) \in Nat /\ Len(b) \in Nat
      /\ \A i \in 1 .. Len(a) + Len(b) : s[i] = IF i <= Len(a) THEN a[i] ELSE b[i - Len(a)]
  BY ConcatProperties, LenProperties
<1>. HIDE DEF s
<1>2. /\ ToSet(s) = {s[i] : i \in 1 .. Len(s)} /\ ToSet(a) = {a[i] : i \in 1 .. Len(a)}
      /\ ToSet(b) = {b[i] : i \in 1 .. Len(b)}
  <2>1. DOMAIN s = 1 .. Len(s) /\ DOMAIN a = 1 .. Len(a) /\ DOMAIN b = 1 .. Len(b)
    BY <1>1
  <2>. QED BY <2>1, Zenon DEF ToSet
<1>3. ASSUME NEW i \in 1 .. Len(s) PROVE s[i] \in ToSet(a) \cup ToSet(b)
  <2>1. CASE i <= Len(a)
    BY <1>1, <1>2, <2>1
  <2>2. CASE ~ (i <= Len(a))
    <3>1. i - Len(a) \in 1 .. Len(b) /\ s[i] = b[i - Len(a)]
      BY <1>1, <2>2
    <3>. QED BY <1>2, <3>1
  <2>. QED BY <2>1, <2>2
<1>4. ASSUME NEW i \in 1 .. Len(a) PROVE a[i] \in ToSet(s)
  <2>1. i \in 1 .. Len(s) /\ s[i] = a[i]
    BY <1>1
  <2>. QED BY <1>2, <2>1
<1>5. ASSUME NEW i \in 1 .. Len(b) PROVE b[i] \in ToSet(s)
  <2>1. /\ Len(a) + i \in 1 .. Len(s) /\ ~ (Len(a) + i <= Len(a)) /\ (Len(a) + i) - Len(a) = i
    BY <1>1
  <2>2. s[Len(a) + i] = b[i]
    BY <1>1, <2>1
  <2>. QED BY <1>2, <2>1, <2>2
<1>. QED BY <1>2, <1>3, <1>4, <1>5 DEF s

\* A concatenation has the elements of its parts and no others.
LEMMA FlattenElements ==
    ASSUME NEW T, NEW seqs \in Seq(Seq(T))
    PROVE  ToSet(FlattenSeq(seqs)) = UNION {ToSet(seqs[k]) : k \in 1 .. Len(seqs)}
<1>. DEFINE W(k) == FlattenSeq(SubSeq(seqs, 1, k))
            U(k) == UNION {ToSet(seqs[j]) : j \in 1 .. k}
            N == Len(seqs)
            S == {k \in 0 .. N : ToSet(W(k)) = U(k)}
<1>1. 0 \in S
  <2>1. W(0) = <<>>
    <3>1. SubSeq(seqs, 1, 0) = <<>>
      OBVIOUS
    <3>. QED BY <3>1, FlattenEmpty
  <2>2. ToSet(W(0)) = {}
    BY <2>1 DEF ToSet
  <2>3. U(0) = {}
    OBVIOUS
  <2>. QED BY <2>2, <2>3
<1>2. ASSUME NEW k \in 0 .. N - 1, k \in S PROVE k + 1 \in S
  <2>1. W(k) \in Seq(T) /\ W(k + 1) = W(k) \o seqs[k + 1] /\ seqs[k + 1] \in Seq(T)
    <3>1. SubSeq(seqs, 1, k) \in Seq(Seq(T))
      OBVIOUS
    <3>2. W(k) \in Seq(T)
      BY <3>1, FlattenType
    <3>3. W(k + 1) = W(k) \o seqs[k + 1]
      BY FlattenStep
    <3>4. seqs[k + 1] \in Seq(T)
      OBVIOUS
    <3>. QED BY <3>2, <3>3, <3>4
  <2>. HIDE DEF W
  <2>2. ToSet(W(k + 1)) = ToSet(W(k)) \cup ToSet(seqs[k + 1])
    <3>. DEFINE a == W(k)
                b == seqs[k + 1]
    <3>1. a \in Seq(T) /\ b \in Seq(T) /\ W(k + 1) = a \o b
      BY <2>1
    <3>. HIDE DEF a, b
    <3>2. ToSet(a \o b) = ToSet(a) \cup ToSet(b)
      BY ONLY <3>1, ConcatElements
    <3>3. ToSet(W(k + 1)) = ToSet(a) \cup ToSet(b)
      BY ONLY <3>1, <3>2
    <3>. QED BY <3>3 DEF a, b
  <2>3. U(k + 1) = U(k) \cup ToSet(seqs[k + 1])
    <3>1. 1 .. k + 1 = 1 .. k \cup {k + 1}
      OBVIOUS
    <3>. QED BY <3>1
  <2>4. ToSet(W(k)) = U(k)
    BY <1>2
  <2>5. ToSet(W(k + 1)) = U(k + 1)
    BY <2>2, <2>3, <2>4
  <2>. HIDE DEF U
  <2>. QED BY <2>5
<1>3. N \in Nat /\ N \in 0 .. N
  OBVIOUS
<1>4. N \in S
  <2>. HIDE DEF S, N
  <2>1. \A k \in 0 .. N : k \in S
    BY <1>1, <1>2, <1>3, UpTo
  <2>. QED BY <1>3, <2>1
<1>5. W(N) = FlattenSeq(seqs)
  <2>1. SubSeq(seqs, 1, Len(seqs)) = seqs
    OBVIOUS
  <2>. QED BY <2>1
<1>. QED BY <1>4, <1>5

\* Taking the next element over from what is left.
LEMMA MoveHead ==
    ASSUME NEW T, NEW s \in Seq(T), NEW t \in Seq(T), t # <<>>
    PROVE  Append(s, Head(t)) \o Tail(t) = s \o t
<1>1. /\ Head(t) \in T /\ Tail(t) \in Seq(T) /\ Len(Tail(t)) = Len(t) - 1
      /\ \A i \in 1 .. Len(Tail(t)) : Tail(t)[i] = t[i + 1]
      /\ Head(t) = t[1] /\ Len(t) \in Nat \ {0} /\ Len(s) \in Nat
  BY HeadTailProperties, EmptySeq
<1>. DEFINE h == Head(t)
            r == Tail(t)
            a == Append(s, h)
<1>. HIDE DEF h, r
<1>2. /\ h \in T /\ r \in Seq(T) /\ Len(r) = Len(t) - 1
      /\ \A i \in 1 .. Len(r) : r[i] = t[i + 1]
      /\ h = t[1]
  BY <1>1 DEF h, r
<1>3. /\ a \in Seq(T) /\ Len(a) = Len(s) + 1 /\ a[Len(s) + 1] = h
      /\ \A i \in 1 .. Len(s) : a[i] = s[i]
  BY <1>1, <1>2
<1>. HIDE DEF a
<1>. DEFINE x == a \o r
            y == s \o t
<1>4. /\ x \in Seq(T) /\ Len(x) = Len(a) + Len(r)
      /\ \A i \in 1 .. Len(a) + Len(r) : x[i] = IF i <= Len(a) THEN a[i] ELSE r[i - Len(a)]
  BY <1>2, <1>3, ConcatProperties
<1>5. /\ y \in Seq(T) /\ Len(y) = Len(s) + Len(t)
      /\ \A i \in 1 .. Len(s) + Len(t) : y[i] = IF i <= Len(s) THEN s[i] ELSE t[i - Len(s)]
  BY ConcatProperties
<1>. HIDE DEF x, y
<1>6. ASSUME NEW i \in 1 .. Len(s) + Len(t) PROVE x[i] = y[i]
  <2>0. i \in Int /\ i \in 1 .. Len(a) + Len(r)
    BY <1>1, <1>2, <1>3
  <2>1. CASE i <= Len(s)
    BY <1>1, <1>3, <1>4, <1>5, <2>0, <2>1
  <2>2. CASE i = Len(s) + 1
    BY <1>1, <1>2, <1>3, <1>4, <1>5, <2>0, <2>2
  <2>3. CASE i > Len(s) + 1
    <3>1. /\ i - Len(a) \in 1 .. Len(r)
          /\ (i - Len(a)) + 1 = i - Len(s)
      BY <1>1, <1>2, <1>3, <2>0, <2>3
    <3>2. r[i - Len(a)] = t[i - Len(s)]
      BY <1>2, <3>1
    <3>3. x[i] = r[i - Len(a)]
      BY <1>1, <1>3, <1>4, <2>0, <2>3
    <3>4. y[i] = t[i - Len(s)]
      BY <1>1, <1>5, <2>0, <2>3
    <3>. QED BY <3>2, <3>3, <3>4
  <2>. QED BY <1>1, <2>0, <2>1, <2>2, <2>3
<1>7. x = y
  <2>1. Len(x) = Len(s) + Len(t) /\ Len(y) = Len(s) + Len(t)
    BY <1>1, <1>2, <1>3, <1>4, <1>5
  <2>2. \A i \in 1 .. Len(x) : x[i] = y[i]
    BY <1>6, <2>1
  <2>. QED BY <1>4, <1>5, <2>1, <2>2, SeqEqual
<1>. QED BY <1>7 DEF x, y, a, h, r
=============================================================================
