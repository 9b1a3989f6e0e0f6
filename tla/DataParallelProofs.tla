-------------------------- MODULE DataParallelProofs --------------------------
(***************************************************************************)
(* However a batch is sorted, cut into shards and microbatches and spread  *)
(* over the workers: what a worker puts through the model fits the token   *)
(* budget and is complete, the workers enter the same collectives in the   *)
(* same order, an update is made of a chunk of the caller's batch, and the *)
(* rows that come back are the caller's.                                   *)
(***************************************************************************)
EXTENDS DataParallelStep, FiniteSetTheorems, SequenceTheorems, WellFoundedInduction, TLAPS

USE DEF Positive

-----------------------------------------------------------------------------
(***************************************************************************)
(* Arithmetic: a position in a list of blocks of d is a block and a place  *)
(* in it.                                                                  *)
(***************************************************************************)
LEMMA DivFacts ==
  ASSUME NEW a \in Nat, NEW d \in Nat \ {0}
  PROVE  /\ a \div d \in Nat /\ (a % d) \in 0..d - 1
         /\ a = (a \div d) * d + (a % d)
OBVIOUS

LEMMA DivExact ==
  ASSUME NEW a \in Nat, NEW d \in Nat \ {0}, a % d = 0
  PROVE  a \div d \in Nat /\ a = (a \div d) * d
BY DivFacts

LEMMA MulMono ==
  ASSUME NEW a \in Nat, NEW b \in Nat, a <= b, NEW d \in Nat
  PROVE  a * d <= b * d
OBVIOUS

LEMMA MulStep ==
  ASSUME NEW a \in Nat, NEW d \in Nat
  PROVE  (a + 1) * d = a * d + d /\ a * d \in Nat
OBVIOUS

LEMMA BlockUnique ==
  \A d \in Nat \ {0} : \A q, p \in Nat, r, s \in 0..d - 1 :
    q * d + r = p * d + s => p = q /\ r = s
<1> SUFFICES ASSUME NEW d \in Nat \ {0}, NEW q \in Nat, NEW p \in Nat,
                    NEW r \in 0..d - 1, NEW s \in 0..d - 1, q * d + r = p * d + s
             PROVE  p = q /\ r = s
  OBVIOUS
<1>0. p * d \in Nat /\ q * d \in Nat
  OBVIOUS
<1>1. ASSUME p < q PROVE FALSE
  <2>1. (p + 1) * d <= q * d
    BY <1>1, MulMono
  <2>2. (p + 1) * d = p * d + d
    BY MulStep
  <2> QED BY <1>0, <2>1, <2>2
<1>2. ASSUME q < p PROVE FALSE
  <2>1. (q + 1) * d <= p * d
    BY <1>2, MulMono
  <2>2. (q + 1) * d = q * d + d
    BY MulStep
  <2> QED BY <1>0, <2>1, <2>2
<1>3. p = q
  BY <1>1, <1>2
<1> QED BY <1>0, <1>3

LEMMA DivBlock ==
  ASSUME NEW q \in Nat, NEW d \in Nat \ {0}, NEW r \in 0..d - 1
  PROVE  (q * d + r) \div d = q /\ (q * d + r) % d = r
<1> DEFINE a == q * d + r
           u == a \div d
           v == a % d
<1>1. a \in Nat
  OBVIOUS
<1>2. u \in Nat /\ v \in 0..d - 1 /\ a = u * d + v
  <2> HIDE DEF a
  <2> QED BY <1>1, DivFacts
<1>3. q * d + r = u * d + v
  BY <1>2
<1>4. u = q /\ v = r
  <2> HIDE DEF u, v
  <2> QED BY <1>2, <1>3, BlockUnique
<1> QED BY <1>4

\* Place j of block k, and the block and place of a position.
LEMMA BlockPlace ==
  ASSUME NEW n \in Nat, NEW d \in Nat, NEW k \in 1..n, NEW j \in 1..d
  PROVE  (k - 1) * d + j \in 1..n * d
<1>1. k - 1 \in Nat /\ (k - 1) * d \in Nat /\ k * d <= n * d /\ n * d \in Nat
  BY MulMono
<1>2. ((k - 1) + 1) * d = (k - 1) * d + d
  <2>1. k - 1 \in Nat
    OBVIOUS
  <2> QED BY <2>1, MulStep
<1>3. (k - 1) + 1 = k
  OBVIOUS
<1> QED BY <1>1, <1>2, <1>3

LEMMA PlaceBlock ==
  ASSUME NEW n \in Nat, NEW d \in Nat, NEW i \in 1..n * d
  PROVE  \E k \in 1..n, j \in 1..d : i = (k - 1) * d + j
<1>1. d # 0
  BY n * 0 = 0
<1> DEFINE u == (i - 1) \div d
           v == (i - 1) % d
<1>2. i - 1 \in Nat /\ n * d \in Nat
  OBVIOUS
<1>3. u \in Nat /\ v \in 0..d - 1 /\ i - 1 = u * d + v
  BY <1>1, <1>2, DivFacts
<1> HIDE DEF u, v
<1>4. u < n
  <2> SUFFICES ASSUME n <= u PROVE FALSE
    BY <1>3
  <2>1. n * d <= u * d
    BY <1>3, MulMono
  <2> QED BY <1>2, <1>3, <2>1
<1>5. u + 1 \in 1..n /\ v + 1 \in 1..d /\ i = ((u + 1) - 1) * d + (v + 1)
  BY <1>3, <1>4
<1> QED BY <1>5

-----------------------------------------------------------------------------
(***************************************************************************)
(* Lists of blocks of one size, one after the other.  Induction over the   *)
(* blocks is by a least counterexample.                                    *)
(***************************************************************************)

\* A set of naturals that is not empty has a least element.
LEMMA LeastNatural ==
  ASSUME NEW S \in SUBSET Nat, S # {}
  PROVE  \E m \in S : \A k \in S : m <= k
<1> DEFINE R == {ss \in Nat \X Nat : ss[1] < ss[2]}
<1>1. IsWellFoundedOn(R, Nat)
  BY NatLessThanWellFounded DEF OpToRel
<1>2. S \subseteq Nat /\ S # {}
  OBVIOUS
<1>3. \E m \in S : \A k \in S : ~(<<k, m>> \in R)
  <2> HIDE DEF R
  <2> QED BY <1>1, <1>2, WFMin
<1>4. PICK m \in S : \A k \in S : ~(<<k, m>> \in R)
  BY <1>3
<1>5. \A k \in S : m <= k
  <2> TAKE k \in S
  <2>1. <<k, m>> \notin R /\ k \in Nat /\ m \in Nat
    BY <1>2, <1>4
  <2> QED BY <2>1
<1> QED BY <1>5

\* The first n blocks can be joined one after the other.
Joins(g, fs, n) ==
  g = [i \in 1..n |-> IF i = 1 THEN fs[i] ELSE g[i - 1] \o fs[i]]

LEMMA JoinsExist == ASSUME NEW fs PROVE \A n \in Nat : \E g : Joins(g, fs, n)
<1> DEFINE S == {n \in Nat : ~ \E g : Joins(g, fs, n)}
<1> SUFFICES ASSUME S # {} PROVE FALSE
  OBVIOUS
<1>0. S \in SUBSET Nat
  OBVIOUS
<1>1. PICK m \in S : \A k \in S : m <= k
  <2> HIDE DEF S
  <2> QED BY <1>0, LeastNatural
<1>2. m \in Nat /\ ~ \E g : Joins(g, fs, m)
  OBVIOUS
<1>3. CASE m = 0
  <2>1. Joins(<< >>, fs, 0)
    BY DEF Joins
  <2> QED BY <1>2, <1>3, <2>1
<1>4. CASE m # 0
  <2>1. m - 1 \in Nat /\ m - 1 \notin S
    BY <1>1, <1>2, <1>4
  <2>2. PICK g : Joins(g, fs, m - 1)
    BY <2>1
  <2> DEFINE e == IF m = 1 THEN fs[m] ELSE g[m - 1] \o fs[m]
             h == [i \in 1..m |-> IF i = m THEN e ELSE g[i]]
  <2>3. \A i \in 1..m : i # 1 => h[i - 1] = g[i - 1]
    BY <1>2
  <2>4. \A i \in 1..m - 1 : g[i] = IF i = 1 THEN fs[i] ELSE g[i - 1] \o fs[i]
    BY <2>2 DEF Joins
  <2>5. \A i \in 1..m : h[i] = IF i = 1 THEN fs[i] ELSE h[i - 1] \o fs[i]
    <3> HIDE DEF S
    <3> TAKE i \in 1..m
    <3>1. CASE i = m
      BY <1>2, <1>4, <2>3, <3>1
    <3>2. CASE i # m
      <4>1. i \in 1..m - 1
        BY <1>2, <3>2
      <4> QED BY <1>2, <2>3, <2>4, <3>2, <4>1
    <3> QED BY <3>1, <3>2
  <2>6. Joins(h, fs, m)
    <3> HIDE DEF S
    <3> QED BY <2>5 DEF Joins
  <2> QED BY <1>2, <2>6
<1> QED BY <1>3, <1>4

LEMMA FlattenIs ==
  ASSUME NEW fs, Len(fs) \in Nat \ {0}
  PROVE  \E g : Joins(g, fs, Len(fs)) /\ FlattenSeq(fs) = g[Len(fs)]
<1>1. \E g : Joins(g, fs, Len(fs))
  BY JoinsExist
<1> DEFINE f == CHOOSE g : Joins(g, fs, Len(fs))
<1>2. Joins(f, fs, Len(fs))
  BY <1>1
<1>3. FlattenSeq(fs) = f[Len(fs)]
  BY DEF FlattenSeq, Joins
<1> QED BY <1>2, <1>3


\* s is the first n blocks of fs, each of d elements of S, one after the other.
Blocks(S, s, fs, n, d) ==
  /\ s \in Seq(S) /\ Len(s) = n * d
  /\ \A k \in 1..n, j \in 1..d : s[(k - 1) * d + j] = fs[k][j]

LEMMA BlockJoined ==
  ASSUME NEW S, NEW d \in Nat, NEW n \in Nat, NEW fs, NEW s, Blocks(S, s, fs, n, d),
         fs[n + 1] \in Seq(S), Len(fs[n + 1]) = d
  PROVE  Blocks(S, s \o fs[n + 1], fs, n + 1, d)
<1> DEFINE e == fs[n + 1]
           t == s \o e
<1>1. /\ s \in Seq(S) /\ Len(s) = n * d /\ e \in Seq(S) /\ Len(e) = d
      /\ n * d \in Nat /\ (n + 1) * d = n * d + d
  BY MulStep DEF Blocks
<1> HIDE DEF e
<1>2. /\ t \in Seq(S) /\ Len(t) = n * d + d
      /\ \A i \in 1..n * d : t[i] = s[i]
      /\ \A j \in 1..d : t[n * d + j] = e[j]
  <2>1. /\ t \in Seq(S) /\ Len(t) = Len(s) + Len(e)
        /\ \A i \in 1..Len(s) + Len(e) : t[i] = IF i <= Len(s) THEN s[i] ELSE e[i - Len(s)]
    BY <1>1, ConcatProperties
  <2> HIDE DEF t
  <2> DEFINE l == n * d
  <2>2. Len(s) = l /\ l \in Nat /\ Len(e) = d
    BY <1>1
  <2> HIDE DEF l
  <2>3. Len(t) = l + d /\ \A i \in 1..l : t[i] = s[i]
    BY <2>1, <2>2
  <2>4. ASSUME NEW j \in 1..d PROVE t[l + j] = e[j]
    <3>1. l + j \in 1..l + d /\ ~(l + j <= l) /\ (l + j) - l = j
      BY <2>2
    <3> QED BY <2>1, <2>2, <3>1
  <2> QED BY <2>1, <2>3, <2>4 DEF l
<1> HIDE DEF t
<1>3. ASSUME NEW k \in 1..n + 1, NEW j \in 1..d PROVE t[(k - 1) * d + j] = fs[k][j]
  <2>1. CASE k = n + 1
    <3>1. k - 1 = n
      BY <2>1
    <3> QED BY <1>2, <2>1, <3>1 DEF e
  <2>2. CASE k # n + 1
    <3>1. k \in 1..n
      BY <2>2
    <3>2. (k - 1) * d + j \in 1..n * d
      BY <3>1, BlockPlace
    <3> QED BY <1>2, <3>1, <3>2 DEF Blocks
  <2> QED BY <2>1, <2>2
<1>4. Blocks(S, t, fs, n + 1, d)
  BY <1>1, <1>2, <1>3 DEF Blocks
<1> QED BY <1>4 DEF t, e

LEMMA FlattenBlocks ==
  ASSUME NEW S, NEW d \in Nat, NEW fs, Len(fs) \in Nat \ {0},
         \A k \in 1..Len(fs) : fs[k] \in Seq(S) /\ Len(fs[k]) = d
  PROVE  Blocks(S, FlattenSeq(fs), fs, Len(fs), d)
<1> DEFINE n == Len(fs)
<1>1. PICK g : Joins(g, fs, n) /\ FlattenSeq(fs) = g[n]
  BY FlattenIs
<1>2. \A i \in 1..n : g[i] = IF i = 1 THEN fs[i] ELSE g[i - 1] \o fs[i]
  BY <1>1 DEF Joins
<1> DEFINE Bad == {i \in 1..n : ~ Blocks(S, g[i], fs, i, d)}
<1>3. Bad = {}
  <2> SUFFICES ASSUME Bad # {} PROVE FALSE
    OBVIOUS
  <2>1. Bad \in SUBSET Nat
    OBVIOUS
  <2>2. PICK m \in Bad : \A k \in Bad : m <= k
    <3> HIDE DEF Bad
    <3> QED BY <2>1, LeastNatural
  <2>3. m \in 1..n /\ ~ Blocks(S, g[m], fs, m, d)
    OBVIOUS
  <2>4. CASE m = 1
    <3>1. g[1] = fs[1] /\ fs[1] \in Seq(S) /\ Len(fs[1]) = d
      BY <1>2, <2>3, <2>4
    <3>2. 1 * d = d /\ \A j \in 1..d : (1 - 1) * d + j = j
      OBVIOUS
    <3>3. Blocks(S, g[1], fs, 1, d)
      BY <3>1, <3>2 DEF Blocks
    <3> QED BY <2>3, <2>4, <3>3
  <2>5. CASE m # 1
    <3>1. m - 1 \in 1..n /\ m - 1 \notin Bad /\ m - 1 \in Nat
      BY <2>2, <2>3, <2>5
    <3>2. Blocks(S, g[m - 1], fs, m - 1, d)
      BY <3>1
    <3> HIDE DEF Bad
    <3>3. (m - 1) + 1 = m /\ fs[m] \in Seq(S) /\ Len(fs[m]) = d
      BY <2>3
    <3>4. Blocks(S, g[m - 1] \o fs[m], fs, m, d)
      BY <3>1, <3>2, <3>3, BlockJoined
    <3>5. g[m] = g[m - 1] \o fs[m]
      BY <1>2, <2>3, <2>5
    <3> QED BY <2>3, <3>4, <3>5
  <2> QED BY <2>4, <2>5
<1>4. n \in 1..n
  OBVIOUS
<1> QED BY <1>1, <1>3, <1>4


-----------------------------------------------------------------------------
(***************************************************************************)
(* The order of dynamic batching: a chunk sorted by length has each of its *)
(* samples once, for no two come at the same place.                        *)
(***************************************************************************)
Lengths(len, C) == \A y \in C : len[y] \in Nat

\* s is a list of n elements of C that has all of them.
Lists(s, C, n) == s \in Seq(C) /\ Len(s) = n /\ \A x \in C : \E i \in 1..n : s[i] = x

LEMMA BeforeDiffer ==
  ASSUME NEW S, IsFiniteSet(S), NEW len, NEW x \in S, NEW y \in S, S \subseteq Nat,
         \A z \in S : len[z] \in Nat, x # y
  PROVE  Cardinality(Before(len, S, x)) # Cardinality(Before(len, S, y))
<1>1. ASSUME NEW u \in S, NEW v \in S, u \in Before(len, S, v)
      PROVE  Cardinality(Before(len, S, u)) # Cardinality(Before(len, S, v))
  <2>1. ASSUME NEW w \in Before(len, S, u) PROVE w \in Before(len, S, v)
    <3>1. /\ w \in S /\ {len[w], len[u], len[v], w, u, v} \subseteq Nat
          /\ len[w] < len[u] \/ (len[w] = len[u] /\ w < u)
          /\ len[u] < len[v] \/ (len[u] = len[v] /\ u < v)
      BY <1>1 DEF Before
    <3>2. len[w] < len[v] \/ (len[w] = len[v] /\ w < v)
      BY <3>1
    <3> QED BY <3>1, <3>2 DEF Before
  <2>2. u \notin Before(len, S, u)
    BY DEF Before
  <2>3. IsFiniteSet(Before(len, S, v))
    BY FS_Subset DEF Before
  <2>4. Before(len, S, u) \subseteq Before(len, S, v)
    BY <2>1
  <2> QED BY <1>1, <2>2, <2>3, <2>4, FS_Subset
<1>2. x \in Before(len, S, y) \/ y \in Before(len, S, x)
  BY DEF Before
<1> QED BY <1>1, <1>2

LEMMA SortedFacts ==
  ASSUME NEW len, NEW a \in Nat \ {0}, NEW to \in Int, NEW n \in Nat, to = a + n - 1,
         Lengths(len, a..to)
  PROVE  Lists(Sorted(len, a, to), a..to, n)
<1> DEFINE C == a..to
           r == [x \in C |-> Cardinality(Before(len, C, x))]
           s == Sorted(len, a, to)
<1>1. IsFiniteSet(C) /\ Cardinality(C) = n /\ C \subseteq Nat
  <2>1. Cardinality(C) = IF a > to THEN 0 ELSE to - a + 1
    BY FS_Interval
  <2> QED BY <2>1, FS_Interval
<1>2. IsFiniteSet(0..n - 1) /\ Cardinality(0..n - 1) = n
  <2>1. Cardinality(0..n - 1) = IF 0 > n - 1 THEN 0 ELSE (n - 1) - 0 + 1
    BY FS_Interval
  <2> QED BY <2>1, FS_Interval
<1> HIDE DEF C
<1>3. \A x \in C : len[x] \in Nat
  BY DEF C, Lengths
<1>4. ASSUME NEW x \in C PROVE Cardinality(Before(len, C, x)) \in 0..n - 1
  <2>1. Before(len, C, x) \subseteq C /\ x \notin Before(len, C, x)
    BY <1>1, <1>3 DEF Before
  <2>2. /\ IsFiniteSet(Before(len, C, x)) /\ Cardinality(Before(len, C, x)) <= n
        /\ Cardinality(Before(len, C, x)) # n
    BY <1>1, <2>1, FS_Subset
  <2>3. Cardinality(Before(len, C, x)) \in Nat
    BY <2>2, FS_CardinalityType
  <2> QED BY <2>2, <2>3
<1>5. r \in Injection(C, 0..n - 1)
  <2>1. r \in [C -> 0..n - 1]
    BY <1>4
  <2>2. \A x, y \in C : x # y => r[x] # r[y]
    BY <1>1, <1>3, BeforeDiffer
  <2> HIDE DEF r
  <2> QED BY <2>1, <2>2 DEF Injection, IsInjective
<1>6. r \in Surjection(C, 0..n - 1)
  <2> HIDE DEF r
  <2> QED BY <1>1, <1>2, <1>5, FS_Injection
<1>7. s = [i \in 1..n |-> CHOOSE x \in C : Cardinality(Before(len, C, x)) = i - 1]
  <2>1. to - a + 1 = n
    OBVIOUS
  <2> QED BY <2>1 DEF Sorted, C
<1>8. ASSUME NEW i \in 1..n PROVE s[i] \in C /\ r[s[i]] = i - 1
  <2>1. i - 1 \in 0..n - 1
    OBVIOUS
  <2>2. \E x \in C : r[x] = i - 1
    <3> HIDE DEF r
    <3> QED BY <1>6, <2>1 DEF Surjection
  <2>3. \E x \in C : Cardinality(Before(len, C, x)) = i - 1
    BY <2>2
  <2> HIDE DEF s
  <2> QED BY <1>7, <2>3
<1>9. ASSUME NEW x \in C PROVE \E i \in 1..n : s[i] = x
  <2>1. r[x] + 1 \in 1..n /\ (r[x] + 1) - 1 = r[x]
    BY <1>4
  <2>2. s[r[x] + 1] \in C /\ r[s[r[x] + 1]] = r[x]
    <3> HIDE DEF r, s
    <3> QED BY <1>8, <2>1
  <2>3. s[r[x] + 1] = x
    <3> HIDE DEF r, s
    <3> QED BY <1>5, <2>2 DEF Injection, IsInjective
  <2> QED BY <2>1, <2>3
<1>10. s \in Seq(C) /\ Len(s) = n
  <2>1. s = [i \in 1..n |-> s[i]]
    <3> DEFINE h == [i \in 1..n |-> CHOOSE x \in C : Cardinality(Before(len, C, x)) = i - 1]
    <3>1. h = [i \in 1..n |-> h[i]]
      OBVIOUS
    <3> HIDE DEF h
    <3> QED BY <1>7, <3>1 DEF h
  <2> HIDE DEF s, r
  <2>2. \A i \in 1..n : s[i] \in C
    BY <1>8
  <2> QED BY <2>1, <2>2
<1> QED BY <1>9, <1>10 DEF C, Lists


Product(b, d, n) == b = d * n

\* A list dealt to n shards, d elements each, in strides has all its elements.

LEMMA StridedFacts ==
  ASSUME NEW S, NEW s, NEW b \in Nat, Lists(s, S, b), NEW n \in Nat \ {0}, NEW d \in Nat,
         Product(b, d, n)
  PROVE  Lists(Strided(s, n), S, b)
<1> DEFINE stride(k) == [j \in 1..CeilDiv(Len(s) - k + 1, n) |-> s[k + (j - 1) * n]]
           fs == [k \in 1..n |-> stride(k)]
<1>0. Len(s) = d * n /\ s \in Seq(S) /\ n * d = b /\ \A x \in S : \E i \in 1..b : s[i] = x
  BY DEF Product, Lists
<1>1. ASSUME NEW k \in 1..n PROVE CeilDiv(Len(s) - k + 1, n) = d
  <2>1. d * n \in Nat /\ n - k \in 0..n - 1
    OBVIOUS
  <2>2. (d * n - k + 1) + n - 1 = d * n + (n - k)
    BY <2>1
  <2>3. (d * n + (n - k)) \div n = d
    BY <2>1, DivBlock
  <2> QED BY <1>0, <2>2, <2>3 DEF CeilDiv
<1>2. ASSUME NEW k \in 1..n, NEW j \in 1..d
      PROVE  k + (j - 1) * n \in 1..d * n /\ fs[k][j] = s[k + (j - 1) * n]
  <2>1. (j - 1) * n + k \in 1..d * n
    BY BlockPlace
  <2>2. k + (j - 1) * n = (j - 1) * n + k
    OBVIOUS
  <2> QED BY <1>1, <2>1, <2>2
<1>3. ASSUME NEW k \in 1..n PROVE fs[k] \in Seq(S) /\ Len(fs[k]) = d
  <2>1. fs[k] = [j \in 1..d |-> fs[k][j]]
    BY <1>1
  <2>2. \A j \in 1..d : fs[k][j] \in S
    <3>1. \A x \in 1..d * n : s[x] \in S
      BY <1>0
    <3> HIDE DEF fs
    <3> QED BY <1>2, <3>1
  <2> HIDE DEF fs
  <2> QED BY <2>1, <2>2
<1>4. Len(fs) = n
  OBVIOUS
<1>5. Strided(s, n) = FlattenSeq(fs)
  BY DEF Strided
<1>6. Blocks(S, Strided(s, n), fs, n, d)
  <2> HIDE DEF fs
  <2> QED BY <1>3, <1>4, <1>5, FlattenBlocks
<1>7. ASSUME NEW x \in 1..d * n PROVE \E i \in 1..n * d : Strided(s, n)[i] = s[x]
  <2>1. PICK j \in 1..d, k \in 1..n : x = (j - 1) * n + k
    BY PlaceBlock
  <2>2. (k - 1) * d + j \in 1..n * d
    BY BlockPlace
  <2>3. Strided(s, n)[(k - 1) * d + j] = fs[k][j]
    BY <1>6 DEF Blocks
  <2>4. k + (j - 1) * n = x
    BY <2>1
  <2> QED BY <1>2, <2>2, <2>3, <2>4
<1>8. ASSUME NEW y \in S PROVE \E i \in 1..b : Strided(s, n)[i] = y
  <2>1. PICK x \in 1..d * n : s[x] = y
    BY <1>0
  <2> QED BY <1>0, <1>7, <2>1
<1>9. Strided(s, n) \in Seq(S) /\ Len(Strided(s, n)) = b
  BY <1>0, <1>6 DEF Blocks
<1> QED BY <1>8, <1>9 DEF Lists

\* Chunk c of a batch cut into chunks of b.
ChunkOf(c, b) == ((c - 1) * b + 1)..(c * b)

LEMMA ChunkFacts ==
  ASSUME NEW n \in Nat, NEW b \in Nat \ {0}, NEW c \in 1..n
  PROVE  /\ (c - 1) * b + 1 \in Nat \ {0} /\ c * b = ((c - 1) * b + 1) + b - 1
         /\ ChunkOf(c, b) \subseteq 1..n * b
         /\ \A i \in 1..b : (c - 1) * b + i \in ChunkOf(c, b)
<1>1. (c - 1) * b \in Nat /\ ((c - 1) + 1) * b = (c - 1) * b + b
  BY MulStep
<1>2. (c - 1) + 1 = c
  OBVIOUS
<1>3. c * b <= n * b
  BY MulMono
<1>4. c * b = (c - 1) * b + b /\ n * b \in Nat /\ c * b \in Nat
  BY <1>1, <1>2
<1> DEFINE u == (c - 1) * b
           v == c * b
           w == n * b
<1>5. u \in Nat /\ v = u + b /\ v <= w /\ w \in Nat
  BY <1>1, <1>3, <1>4
<1> HIDE DEF u, v, w
<1>6. /\ u + 1 \in Nat \ {0} /\ v = (u + 1) + b - 1 /\ (u + 1)..v \subseteq 1..w
      /\ \A i \in 1..b : u + i \in (u + 1)..v
  BY <1>5
<1> QED BY <1>6 DEF ChunkOf, u, v, w

\* One chunk, sorted and dealt.
LEMMA DealtChunk ==
  ASSUME NEW len, NEW a \in Nat \ {0}, NEW n \in Nat \ {0}, NEW d \in Nat, NEW to \in Int,
         NEW b \in Nat, Product(b, d, n), to = a + b - 1, Lengths(len, a..to)
  PROVE  Lists(Strided(Sorted(len, a, to), n), a..to, b)
<1>1. Lists(Sorted(len, a, to), a..to, b)
  BY SortedFacts
<1> QED BY <1>1, StridedFacts

\* Chunks stay together, and o has every sample of a chunk in its place.
Dealt(o, m, b) ==
  /\ o \in Seq(1..m * b) /\ Len(o) = m * b
  /\ \A c \in 1..m : \A i \in 1..b : o[(c - 1) * b + i] \in ChunkOf(c, b)
  /\ \A c \in 1..m : \A x \in ChunkOf(c, b) : \E i \in 1..b : o[(c - 1) * b + i] = x

\* Sorting and dealing keeps every chunk together and every sample in it.
LEMMA SortedDealt ==
  ASSUME NEW n \in Nat \ {0}, NEW d \in Nat \ {0}, NEW m \in Nat \ {0}, NEW b \in Nat \ {0},
         Product(b, d, n), NEW len \in Seq(Nat), Product(Len(len), m, b)
  PROVE  Dealt(SortedIndices(len, n, b), m, b)
<1> DEFINE o == SortedIndices(len, n, b)
           part(c) == Strided(Sorted(len, (c - 1) * b + 1, c * b), n)
           fs == [c \in 1..m |-> part(c)]
<1>1. Len(len) = m * b
  BY DEF Product
<1>2. Len(len) \div b = m
  <2>1. (m * b + 0) \div b = m
    <3>1. 0 \in 0..b - 1
      OBVIOUS
    <3> QED BY <3>1, DivBlock
  <2>2. Len(len) = m * b + 0
    BY <1>1
  <2> QED BY <2>1, <2>2
<1>3. o = FlattenSeq(fs)
  BY <1>2 DEF SortedIndices
<1>4. \A i \in 1..m * b : len[i] \in Nat
  BY <1>1
<1>5. ASSUME NEW c \in 1..m
      PROVE  Lists(part(c), ChunkOf(c, b), b)
  <2> DEFINE a == (c - 1) * b + 1
             to == c * b
  <2>1. a \in Nat \ {0} /\ to = a + b - 1 /\ ChunkOf(c, b) \subseteq 1..m * b
    BY ChunkFacts
  <2>2. ChunkOf(c, b) = a..to
    BY DEF ChunkOf
  <2>3. part(c) = Strided(Sorted(len, a, to), n)
    OBVIOUS
  <2> HIDE DEF a, to, part
  <2>4. to \in Int
    BY <2>1
  <2>5. Lengths(len, a..to)
    BY <1>4, <2>1, <2>2 DEF Lengths
  <2>6. Lists(Strided(Sorted(len, a, to), n), a..to, b)
    BY <2>1, <2>4, <2>5, DealtChunk
  <2> QED BY <2>2, <2>3, <2>6
<1> HIDE DEF part
<1>6. ASSUME NEW c \in 1..m PROVE fs[c] \in Seq(1..m * b) /\ Len(fs[c]) = b
  <2>1. ChunkOf(c, b) \subseteq 1..m * b
    BY ChunkFacts
  <2>2. Lists(fs[c], ChunkOf(c, b), b)
    BY <1>5
  <2>3. fs[c] \in Seq(ChunkOf(c, b)) /\ Len(fs[c]) = b
    BY <2>2 DEF Lists
  <2> HIDE DEF fs
  <2> QED BY <2>1, <2>3
<1>7. Len(fs) = m
  OBVIOUS
<1>8. Blocks(1..m * b, o, fs, m, b)
  <2> HIDE DEF fs, o
  <2> QED BY <1>3, <1>6, <1>7, FlattenBlocks
<1>9. ASSUME NEW c \in 1..m, NEW i \in 1..b
      PROVE  o[(c - 1) * b + i] = part(c)[i] /\ part(c)[i] \in ChunkOf(c, b)
  <2> HIDE DEF o
  <2>1. fs[c] = part(c)
    OBVIOUS
  <2> HIDE DEF fs
  <2>2. o[(c - 1) * b + i] = fs[c][i]
    BY <1>8 DEF Blocks
  <2>3. part(c)[i] \in ChunkOf(c, b)
    BY <1>5 DEF Lists
  <2> QED BY <2>1, <2>2, <2>3
<1> HIDE DEF fs, o
<1>10. o \in Seq(1..m * b) /\ Len(o) = m * b
  BY <1>8 DEF Blocks
<1>11. \A c \in 1..m : \A i \in 1..b : o[(c - 1) * b + i] \in ChunkOf(c, b)
  BY <1>9
<1>12. \A c \in 1..m : \A x \in ChunkOf(c, b) : \E i \in 1..b : o[(c - 1) * b + i] = x
  <2> SUFFICES ASSUME NEW c \in 1..m, NEW x \in ChunkOf(c, b)
               PROVE  \E i \in 1..b : o[(c - 1) * b + i] = x
    OBVIOUS
  <2>1. PICK i \in 1..b : part(c)[i] = x
    BY <1>5 DEF Lists
  <2> QED BY <1>9, <2>1
<1> QED BY <1>10, <1>11, <1>12 DEF Dealt, o

-----------------------------------------------------------------------------
(***************************************************************************)
(* Cutting: what a slice, a shard and a chunk of a shard hold.             *)
(***************************************************************************)
SliceIs(t, s, S, from, d) ==
  t \in Seq(S) /\ Len(t) = d /\ \A j \in 1..d : t[j] = s[from + j]

LEMMA SliceFacts ==
  ASSUME NEW S, NEW s \in Seq(S), NEW from \in Nat, NEW d \in Nat, NEW to \in Nat,
         to = from + d, to <= Len(s)
  PROVE  SliceIs(Slice(s, from, to), s, S, from, d)
<1>1. Smaller(to, Len(s)) = to
  BY DEF Smaller
<1>2. Slice(s, from, to) = [j \in 1..d |-> s[j + from]]
  <2>1. Slice(s, from, to) = SubSeq(s, from + 1, to)
    BY <1>1 DEF Slice
  <2>2. from + 1 \in 1..Len(s) + 1 /\ to \in from..Len(s)
    OBVIOUS
  <2>3. SubSeq(s, from + 1, to) = [j \in 1..(1 + to - (from + 1)) |-> s[(from + 1) + j - 1]]
    OBVIOUS
  <2>4. 1 + to - (from + 1) = d /\ \A j \in 1..d : (from + 1) + j - 1 = j + from
    OBVIOUS
  <2> QED BY <2>1, <2>3, <2>4
<1>3. ASSUME NEW j \in 1..d PROVE s[j + from] = s[from + j] /\ s[from + j] \in S
  <2>1. from + j \in 1..Len(s) /\ j + from = from + j
    OBVIOUS
  <2> QED BY <2>1
<1>4. \A j \in 1..d : Slice(s, from, to)[j] = s[from + j]
  BY <1>2, <1>3
<1>5. Slice(s, from, to) \in Seq(S) /\ Len(Slice(s, from, to)) = d
  <2>1. [j \in 1..d |-> s[j + from]] \in [1..d -> S]
    BY <1>3
  <2>2. [j \in 1..d |-> s[j + from]] \in Seq(S) /\ Len([j \in 1..d |-> s[j + from]]) = d
    BY <2>1
  <2> QED BY <1>2, <2>2
<1> QED BY <1>4, <1>5 DEF SliceIs

\* t has, of each of the m chunks of s of size b, the k-th d elements.
ShardIs(t, s, S, k, m, d, b) ==
  /\ t \in Seq(S) /\ Len(t) = m * d
  /\ \A c \in 1..m, j \in 1..d : t[(c - 1) * d + j] = s[(c - 1) * b + (k - 1) * d + j]

LEMMA ShardFacts ==
  ASSUME NEW S, NEW s \in Seq(S), NEW n \in Nat \ {0}, NEW d \in Nat \ {0}, NEW m \in Nat \ {0},
         NEW b \in Nat \ {0}, Product(b, d, n), Product(Len(s), m, b), NEW k \in 1..n
  PROVE  ShardIs(Shard(s, k, n, b), s, S, k, m, d, b)
<1> DEFINE start(c) == (c - 1) * b + (k - 1) * d
           fs == [c \in 1..m |-> Slice(s, start(c), start(c) + d)]
<1>1. b = d * n /\ b = n * d /\ Len(s) = m * b
  BY DEF Product
<1>2. ShardSize(b, n) = d
  <2>1. (d * n + (n - 1)) \div n = d
    <3>1. n - 1 \in 0..n - 1
      OBVIOUS
    <3> QED BY <3>1, DivBlock
  <2>2. b + n - 1 = d * n + (n - 1)
    BY <1>1
  <2> QED BY <2>1, <2>2 DEF ShardSize, CeilDiv
<1>3. Len(s) \div b = m
  <2>1. (m * b + 0) \div b = m
    <3>1. 0 \in 0..b - 1
      OBVIOUS
    <3> QED BY <3>1, DivBlock
  <2>2. Len(s) = m * b + 0
    BY <1>1
  <2> QED BY <2>1, <2>2
<1>4. Shard(s, k, n, b) = FlattenSeq(fs)
  BY <1>2, <1>3 DEF Shard
<1>5. ASSUME NEW c \in 1..m PROVE SliceIs(fs[c], s, S, start(c), d)
  <2>1. (c - 1) * b \in Nat /\ (k - 1) * d \in Nat
    OBVIOUS
  <2>2. ((c - 1) + 1) * b = (c - 1) * b + b /\ (c - 1) + 1 = c
    BY MulStep
  <2>3. ((k - 1) + 1) * d = (k - 1) * d + d /\ (k - 1) + 1 = k
    BY MulStep
  <2>4. k * d <= n * d /\ c * b <= m * b
    BY MulMono
  <2>5. k * d = (k - 1) * d + d /\ c * b = (c - 1) * b + b
    BY <2>2, <2>3
  <2> DEFINE u == (c - 1) * b
             v == (k - 1) * d
             w == m * b
  <2>6. u \in Nat /\ v \in Nat /\ v + d <= b /\ u + b <= w /\ Len(s) = w
    BY <1>1, <2>1, <2>4, <2>5
  <2> HIDE DEF u, v, w
  <2>7. u + v \in Nat /\ u + v + d \in Nat /\ u + v + d <= Len(s)
    BY <2>6
  <2>8. SliceIs(Slice(s, u + v, u + v + d), s, S, u + v, d)
    BY <2>7, SliceFacts
  <2> QED BY <2>8 DEF u, v
<1> HIDE DEF start
<1>6. Len(fs) = m /\ \A c \in 1..m : fs[c] \in Seq(S) /\ Len(fs[c]) = d
  <2>1. Len(fs) = m
    OBVIOUS
  <2> HIDE DEF fs
  <2> QED BY <1>5, <2>1 DEF SliceIs
<1>7. Blocks(S, Shard(s, k, n, b), fs, m, d)
  <2> HIDE DEF fs
  <2> QED BY <1>4, <1>6, FlattenBlocks
<1>8. ASSUME NEW c \in 1..m, NEW j \in 1..d
      PROVE  Shard(s, k, n, b)[(c - 1) * d + j] = s[(c - 1) * b + (k - 1) * d + j]
  <2> HIDE DEF fs
  <2>1. Shard(s, k, n, b)[(c - 1) * d + j] = fs[c][j]
    BY <1>7 DEF Blocks
  <2>2. fs[c][j] = s[start(c) + j]
    BY <1>5 DEF SliceIs
  <2> QED BY <2>1, <2>2 DEF start
<1> HIDE DEF fs
<1> QED BY <1>7, <1>8 DEF Blocks, ShardIs

\* Chunk c of a list of m chunks.
LEMMA GetBatchFacts ==
  ASSUME NEW S, NEW s \in Seq(S), NEW d \in Nat, NEW m \in Nat, Product(Len(s), m, d), NEW c \in 1..m
  PROVE  SliceIs(GetBatch(s, c, d), s, S, (c - 1) * d, d)
<1>1. (c - 1) * d \in Nat /\ ((c - 1) + 1) * d = (c - 1) * d + d /\ (c - 1) + 1 = c
  BY MulStep
<1>2. c * d <= m * d /\ Len(s) = m * d
  BY MulMono DEF Product
<1> DEFINE u == (c - 1) * d
           v == c * d
<1>3. u \in Nat /\ v = u + d /\ v <= Len(s) /\ v \in Nat
  BY <1>1, <1>2
<1>4. GetBatch(s, c, d) = Slice(s, u, v)
  BY DEF GetBatch
<1> HIDE DEF u, v
<1>5. SliceIs(Slice(s, u, v), s, S, u, d)
  BY <1>3, SliceFacts
<1> QED BY <1>4, <1>5 DEF u


-----------------------------------------------------------------------------
(***************************************************************************)
(* Microbatches: they cover the rows in their order, and those of dynamic  *)
(* batching fit the budget and are as wide as their widest row.            *)
(***************************************************************************)
Microbatch3 == [from : Nat, to : Nat, len : Nat]

Covers(mbs, n) ==
  /\ mbs \in Seq(Microbatch3) /\ Len(mbs) > 0
  /\ mbs[1].from = 0 /\ mbs[Len(mbs)].to = n
  /\ \A i \in 1..Len(mbs) : mbs[i].from <= mbs[i].to /\ mbs[i].to <= n
  /\ \A i \in 1..Len(mbs) - 1 : mbs[i + 1].from = mbs[i].to

Fits(mbs, rows, budget) ==
  \A i \in 1..Len(mbs) :
    /\ (mbs[i].to - mbs[i].from) * mbs[i].len <= budget
    /\ \A j \in (mbs[i].from + 1)..mbs[i].to : rows[j] <= mbs[i].len

LEMMA AddRowFits ==
  ASSUME NEW rows \in Seq(Nat), NEW budget \in Nat, NEW row \in 1..Len(rows),
         rows[row] <= budget, NEW mbs, Covers(mbs, row - 1), Fits(mbs, rows, budget)
  PROVE  LET next == AddRow(mbs, row, rows[row], budget)
         IN Covers(next, row) /\ Fits(next, rows, budget)
<1> DEFINE last == mbs[Len(mbs)]
           length == rows[row]
           longest == Larger(last.len, length)
           next == AddRow(mbs, row, length, budget)
           wider == [from |-> last.from, to |-> last.to + 1, len |-> longest]
           fresh == [from |-> row - 1, to |-> row, len |-> length]
           n == Len(mbs)
<1>1. /\ n \in Nat \ {0} /\ mbs \in Seq(Microbatch3) /\ length \in Nat /\ last \in Microbatch3
      /\ last.to = row - 1 /\ last.from <= last.to
  BY DEF Covers
<1>2. /\ longest \in Nat /\ last.len <= longest /\ length <= longest
      /\ last.from \in Nat /\ last.to \in Nat /\ last.len \in Nat
  <2>1. last.from \in Nat /\ last.to \in Nat /\ last.len \in Nat
    BY <1>1 DEF Microbatch3
  <2> DEFINE l == last.len
  <2>2. l \in Nat /\ length \in Nat
    BY <1>1, <2>1
  <2> HIDE DEF l, length, last
  <2>3. Larger(l, length) \in Nat /\ l <= Larger(l, length) /\ length <= Larger(l, length)
    BY <2>2 DEF Larger
  <2> QED BY <2>1, <2>3 DEF l
<1>3. \A j \in (last.from + 1)..(row - 1) : rows[j] <= last.len
  BY <1>1 DEF Fits
<1>4. CASE (last.to - last.from + 1) * longest <= budget
  <2>1. next = [mbs EXCEPT ![n] = wider]
    BY <1>4 DEF AddRow
  <2>2. /\ wider \in Microbatch3 /\ wider.from = last.from /\ wider.to = row
        /\ wider.len = longest
    <3>1. last.to + 1 = row /\ row \in Nat
      BY <1>1
    <3> HIDE DEF last, longest
    <3> QED BY <1>2, <3>1 DEF Microbatch3
  <2> HIDE DEF wider, longest, last, next
  <2>3. /\ next \in Seq(Microbatch3) /\ Len(next) = n
        /\ \A i \in 1..n : next[i] = IF i = n THEN wider ELSE mbs[i]
    BY <1>1, <2>1, <2>2
  <2>4. Covers(next, row)
    <3>1. next[1].from = 0 /\ next[n].to = row
      BY <1>1, <2>2, <2>3 DEF Covers, last
    <3>2. \A i \in 1..n : next[i].from <= next[i].to /\ next[i].to <= row
      <4> TAKE i \in 1..n
      <4>1. CASE i = n
        <5>1. next[i].from = last.from /\ next[i].to = row
          BY <2>2, <2>3, <4>1
        <5>2. last.from \in Nat /\ last.to \in Nat /\ last.from <= last.to /\ last.to = row - 1
          BY <1>1, <1>2
        <5>3. row \in Nat
          OBVIOUS
        <5> QED BY <5>1, <5>2, <5>3
      <4>2. CASE i # n
        <5>1. mbs[i] \in Microbatch3 /\ mbs[i].from <= mbs[i].to /\ mbs[i].to <= row - 1
          BY <1>1 DEF Covers
        <5>2. mbs[i].to \in Nat /\ next[i] = mbs[i]
          BY <2>3, <4>2, <5>1 DEF Microbatch3
        <5> QED BY <5>1, <5>2
      <4> QED BY <4>1, <4>2
    <3>3. \A i \in 1..n - 1 : next[i + 1].from = next[i].to
      <4> TAKE i \in 1..n - 1
      <4>1. mbs[i + 1].from = mbs[i].to /\ i \in 1..n /\ i + 1 \in 1..n /\ i # n
        BY <1>1 DEF Covers
      <4>2. next[i] = mbs[i] /\ next[i + 1].from = mbs[i + 1].from
        BY <2>2, <2>3, <4>1 DEF last
      <4> QED BY <4>1, <4>2
    <3> QED BY <1>1, <2>3, <3>1, <3>2, <3>3 DEF Covers
  <2>5. Fits(next, rows, budget)
    <3> SUFFICES ASSUME NEW i \in 1..n
                 PROVE  /\ (next[i].to - next[i].from) * next[i].len <= budget
                        /\ \A j \in (next[i].from + 1)..next[i].to : rows[j] <= next[i].len
      BY <2>3 DEF Fits
    <3>1. CASE i = n
      <4>1. next[i].to - next[i].from = last.to - last.from + 1 /\ next[i].len = longest
        <5>1. next[i] = wider
          BY <2>3, <3>1
        <5> QED BY <1>1, <1>2, <2>2, <5>1
      <4>2. \A j \in (next[i].from + 1)..next[i].to : rows[j] <= next[i].len
        <5> SUFFICES ASSUME NEW j \in (last.from + 1)..row PROVE rows[j] <= longest
          BY <2>2, <2>3, <3>1
        <5>1. rows[j] \in Nat
          <6>1. j \in 1..Len(rows)
            <7>1. last.from \in Nat /\ row <= Len(rows) /\ Len(rows) \in Nat
              BY <1>2
            <7>2. j \in Nat /\ last.from + 1 <= j /\ j <= row
              BY <7>1
            <7> QED BY <7>1, <7>2
          <6> QED BY <6>1
        <5>2. CASE j = row
          BY <1>2, <5>2
        <5>3. CASE j # row
          <6>1. j \in (last.from + 1)..(row - 1)
            BY <1>2, <5>3
          <6>2. rows[j] <= last.len
            BY <1>3, <6>1
          <6> QED BY <1>2, <5>1, <6>2
        <5> QED BY <5>2, <5>3
      <4> QED BY <1>4, <4>1, <4>2
    <3>2. CASE i # n
      BY <1>1, <2>3, <3>2 DEF Fits
    <3> QED BY <3>1, <3>2
  <2> QED BY <2>4, <2>5 DEF next
<1>5. CASE ~((last.to - last.from + 1) * longest <= budget)
  <2>1. next = Append(mbs, fresh)
    BY <1>5 DEF AddRow
  <2>2. /\ fresh \in Microbatch3 /\ fresh.from = row - 1 /\ fresh.to = row
        /\ fresh.len = length
    BY <1>1 DEF Microbatch3
  <2> HIDE DEF fresh, longest, next
  <2>3. /\ next \in Seq(Microbatch3) /\ Len(next) = n + 1
        /\ \A i \in 1..n + 1 : next[i] = IF i = n + 1 THEN fresh ELSE mbs[i]
    BY <1>1, <2>1, <2>2
  <2> HIDE DEF last
  <2>4. Covers(next, row)
    <3>1. next[1].from = 0 /\ next[n + 1].to = row
      <4>1. 1 \in 1..n + 1 /\ n + 1 \in 1..n + 1 /\ 1 # n + 1
        BY <1>1
      <4>2. next[1] = mbs[1] /\ next[n + 1] = fresh
        BY <2>3, <4>1
      <4>3. mbs[1].from = 0
        BY DEF Covers
      <4> QED BY <2>2, <4>2, <4>3
    <3>2. \A i \in 1..n + 1 : next[i].from <= next[i].to /\ next[i].to <= row
      <4> TAKE i \in 1..n + 1
      <4>1. CASE i = n + 1
        <5>1. row \in Nat /\ row - 1 <= row
          OBVIOUS
        <5>2. next[i] = fresh
          BY <2>3, <4>1
        <5> QED BY <2>2, <5>1, <5>2
      <4>2. CASE i # n + 1
        <5>1. i \in 1..n
          BY <1>1, <4>2
        <5>2. mbs[i] \in Microbatch3 /\ mbs[i].from <= mbs[i].to /\ mbs[i].to <= row - 1
          BY <1>1, <5>1 DEF Covers
        <5>3. mbs[i].to \in Nat /\ next[i] = mbs[i]
          BY <2>3, <4>2, <5>2 DEF Microbatch3
        <5>4. row \in Nat
          OBVIOUS
        <5> QED BY <5>2, <5>3, <5>4
      <4> QED BY <4>1, <4>2
    <3>3. \A i \in 1..n : next[i + 1].from = next[i].to
      <4> TAKE i \in 1..n
      <4>1. next[i] = mbs[i]
        BY <1>1, <2>3
      <4>2. CASE i = n
        <5>1. next[i + 1] = fresh
          BY <1>1, <2>3, <4>2
        <5> QED BY <1>1, <2>2, <4>1, <4>2, <5>1 DEF last
      <4>3. CASE i # n
        <5>1. mbs[i + 1].from = mbs[i].to
          BY <1>1, <4>3 DEF Covers
        <5>2. next[i + 1] = mbs[i + 1]
          <6>1. i + 1 \in 1..n + 1 /\ i + 1 # n + 1
            BY <1>1, <4>3
          <6> QED BY <2>3, <6>1
        <5> QED BY <4>1, <5>1, <5>2
      <4> QED BY <4>2, <4>3
    <3> QED BY <1>1, <2>3, <3>1, <3>2, <3>3 DEF Covers
  <2>5. Fits(next, rows, budget)
    <3> SUFFICES ASSUME NEW i \in 1..n + 1
                 PROVE  /\ (next[i].to - next[i].from) * next[i].len <= budget
                        /\ \A j \in (next[i].from + 1)..next[i].to : rows[j] <= next[i].len
      BY <2>3 DEF Fits
    <3>1. CASE i = n + 1
      <4>1. next[i] = fresh
        BY <1>1, <2>3, <3>1
      <4>2. (fresh.to - fresh.from) * fresh.len = length
        BY <1>1, <2>2
      <4>3. \A j \in (fresh.from + 1)..fresh.to : rows[j] <= fresh.len
        BY <1>1, <2>2
      <4> QED BY <4>1, <4>2, <4>3
    <3>2. CASE i # n + 1
      <4>1. i \in 1..n /\ next[i] = mbs[i]
        BY <1>1, <2>3, <3>2
      <4> QED BY <4>1 DEF Fits
    <3> QED BY <3>1, <3>2
  <2> QED BY <2>4, <2>5 DEF next
<1> QED BY <1>4, <1>5


\* The first n rows can be added one after the other.
RowsAdded(g, rows, budget, n) ==
  g = [row \in 0..n |->
        IF row = 0 THEN << [from |-> 0, to |-> 0, len |-> 0] >>
                   ELSE AddRow(g[row - 1], row, rows[row], budget)]

LEMMA RowsAddedExist ==
  ASSUME NEW rows, NEW budget PROVE \A n \in Nat : \E g : RowsAdded(g, rows, budget, n)
<1> DEFINE S == {n \in Nat : ~ \E g : RowsAdded(g, rows, budget, n)}
           none == << [from |-> 0, to |-> 0, len |-> 0] >>
<1> HIDE DEF none
<1> SUFFICES ASSUME S # {} PROVE FALSE
  OBVIOUS
<1>0. S \in SUBSET Nat
  OBVIOUS
<1>1. PICK m \in S : \A k \in S : m <= k
  <2> HIDE DEF S
  <2> QED BY <1>0, LeastNatural
<1>2. m \in Nat /\ ~ \E g : RowsAdded(g, rows, budget, m)
  OBVIOUS
<1>3. CASE m = 0
  <2> DEFINE h == [row \in 0..0 |-> none]
  <2>1. RowsAdded(h, rows, budget, 0)
    BY DEF RowsAdded, none
  <2> QED BY <1>2, <1>3, <2>1
<1>4. CASE m # 0
  <2>1. m - 1 \in Nat /\ m - 1 \notin S
    BY <1>1, <1>2, <1>4
  <2>2. PICK g : RowsAdded(g, rows, budget, m - 1)
    BY <2>1
  <2> DEFINE h == [row \in 0..m |-> IF row = m THEN AddRow(g[m - 1], m, rows[m], budget) ELSE g[row]]
  <2>3. \A row \in 0..m : row # 0 => h[row - 1] = g[row - 1]
    BY <1>2
  <2>4. \A row \in 0..m - 1 :
          g[row] = IF row = 0 THEN none ELSE AddRow(g[row - 1], row, rows[row], budget)
    BY <2>2 DEF RowsAdded, none
  <2>5. \A row \in 0..m :
          h[row] = IF row = 0 THEN none ELSE AddRow(h[row - 1], row, rows[row], budget)
    <3> HIDE DEF S
    <3> TAKE row \in 0..m
    <3>1. CASE row = m
      BY <1>2, <1>4, <2>3, <3>1
    <3>2. CASE row # m
      <4>1. row \in 0..m - 1
        BY <1>2, <3>2
      <4> QED BY <1>2, <2>3, <2>4, <3>2, <4>1
    <3> QED BY <3>1, <3>2
  <2>6. RowsAdded(h, rows, budget, m)
    <3> HIDE DEF S
    <3> QED BY <2>5 DEF RowsAdded, none
  <2> QED BY <1>2, <2>6
<1> QED BY <1>3, <1>4

AtMost(rows, budget) == rows \in Seq(Nat) /\ \A i \in 1..Len(rows) : rows[i] <= budget

\* shard_by_batch_size (batched_data_dict.py 432-454): the microbatches of a
\* chunk whose rows fit the budget one by one.
LEMMA GroupedFits ==
  ASSUME NEW rows, NEW budget \in Nat, AtMost(rows, budget)
  PROVE  Covers(Grouped(rows, budget), Len(rows)) /\ Fits(Grouped(rows, budget), rows, budget)
<1> DEFINE n == Len(rows)
           none == << [from |-> 0, to |-> 0, len |-> 0] >>
           f == CHOOSE g : RowsAdded(g, rows, budget, n)
<1>1. rows \in Seq(Nat) /\ n \in Nat /\ \A i \in 1..n : rows[i] <= budget
  BY DEF AtMost
<1>2. RowsAdded(f, rows, budget, n)
  BY <1>1, RowsAddedExist
<1>3. Grouped(rows, budget) = f[n]
  BY DEF Grouped, RowsAdded
<1> HIDE DEF f
<1>4. \A row \in 0..n :
        f[row] = IF row = 0 THEN none ELSE AddRow(f[row - 1], row, rows[row], budget)
  <2>1. \A g : RowsAdded(g, rows, budget, n) =>
          \A row \in 0..n :
            g[row] = IF row = 0 THEN none ELSE AddRow(g[row - 1], row, rows[row], budget)
    BY DEF RowsAdded
  <2> QED BY <1>2, <2>1
<1> DEFINE Good(row) == Covers(f[row], row) /\ Fits(f[row], rows, budget)
           Bad == {row \in 0..n : ~ Good(row)}
<1>5. Bad = {}
  <2> SUFFICES ASSUME Bad # {} PROVE FALSE
    OBVIOUS
  <2>1. Bad \in SUBSET Nat
    OBVIOUS
  <2>2. PICK m \in Bad : \A k \in Bad : m <= k
    <3> HIDE DEF Bad
    <3> QED BY <2>1, LeastNatural
  <2>3. m \in 0..n /\ ~ Good(m)
    OBVIOUS
  <2>4. CASE m = 0
    <3>1. f[0] = none
      BY <1>1, <1>4
    <3>2. Covers(none, 0) /\ Fits(none, rows, budget)
      <4>1. none \in Seq(Microbatch3) /\ Len(none) = 1 /\ none[1] = [from |-> 0, to |-> 0, len |-> 0]
        BY DEF Microbatch3
      <4> HIDE DEF none
      <4> QED BY <4>1 DEF Covers, Fits
    <3> QED BY <2>3, <2>4, <3>1, <3>2
  <2>5. CASE m # 0
    <3>1. m - 1 \in 0..n /\ m - 1 \notin Bad /\ m \in 1..n
      BY <2>2, <2>3, <2>5
    <3>2. Good(m - 1)
      BY <3>1
    <3> HIDE DEF Bad
    <3>3. Covers(f[m - 1], m - 1) /\ Fits(f[m - 1], rows, budget)
      BY <3>2
    <3>4. f[m] = AddRow(f[m - 1], m, rows[m], budget)
      BY <1>4, <2>5, <3>1
    <3>5. rows[m] <= budget
      BY <1>1, <3>1
    <3>6. Good(m)
      BY <1>1, <3>1, <3>3, <3>4, <3>5, AddRowFits
    <3> QED BY <2>3, <3>6
  <2> QED BY <2>4, <2>5
<1>6. Good(n)
  BY <1>1, <1>5
<1> QED BY <1>3, <1>6

\* make_microbatch_iterator: equal cuts cover the rows if they divide them.
LEMMA EvenCutsCover ==
  ASSUME NEW n \in Nat \ {0}, NEW size \in Nat \ {0}, NEW width \in Nat, n % size = 0
  PROVE  /\ Covers(EvenCuts(n, size, width), n)
         /\ \A i \in 1..Len(EvenCuts(n, size, width)) : EvenCuts(n, size, width)[i].len = width
<1> DEFINE q == n \div size
           mbs == EvenCuts(n, size, width)
<1>1. q \in Nat /\ n = q * size
  BY DivFacts
<1>2. q # 0
  BY <1>1
<1> HIDE DEF q
<1>3. mbs = [i \in 1..q |-> [from |-> (i - 1) * size, to |-> i * size, len |-> width]]
  BY DEF EvenCuts, q
<1>4. ASSUME NEW i \in 1..q
      PROVE  /\ mbs[i] \in Microbatch3 /\ mbs[i].from = (i - 1) * size /\ mbs[i].to = i * size
             /\ mbs[i].len = width /\ (i - 1) * size <= i * size /\ i * size <= n
  <2>1. (i - 1) * size \in Nat /\ i * size \in Nat
    OBVIOUS
  <2>2. (i - 1) * size <= i * size /\ i * size <= q * size
    <3>1. i - 1 \in Nat /\ i \in Nat /\ i - 1 <= i /\ i <= q
      BY <1>1
    <3> QED BY <1>1, <3>1, MulMono
  <2> HIDE DEF mbs
  <2> QED BY <1>1, <1>3, <2>1, <2>2 DEF Microbatch3
<1>5. Len(mbs) = q /\ mbs \in Seq(Microbatch3)
  <2>1. mbs = [i \in 1..q |-> mbs[i]]
    BY <1>3
  <2> HIDE DEF mbs
  <2>2. \A i \in 1..q : mbs[i] \in Microbatch3
    BY <1>4
  <2>3. mbs \in [1..q -> Microbatch3]
    BY <2>1, <2>2
  <2> QED BY <1>1, <2>3
<1>6. mbs[1].from = 0 /\ mbs[q].to = n
  <2>1. 1 \in 1..q /\ q \in 1..q /\ (1 - 1) * size = 0
    BY <1>1, <1>2
  <2> HIDE DEF mbs
  <2> QED BY <1>1, <1>4, <2>1
<1>7. \A i \in 1..q - 1 : mbs[i + 1].from = mbs[i].to
  <2> TAKE i \in 1..q - 1
  <2>1. i \in 1..q /\ i + 1 \in 1..q /\ (i + 1) - 1 = i
    BY <1>1
  <2> HIDE DEF mbs
  <2> QED BY <1>4, <2>1
<1> HIDE DEF mbs
<1>8. \A i \in 1..q : mbs[i].from <= mbs[i].to /\ mbs[i].to <= n /\ mbs[i].len = width
  BY <1>4
<1>9. Covers(mbs, n)
  BY <1>1, <1>2, <1>5, <1>6, <1>7, <1>8 DEF Covers
<1> QED BY <1>5, <1>8, <1>9 DEF mbs


-----------------------------------------------------------------------------
(***************************************************************************)
(* One call: the sizes of its shards and what each worker is sent.         *)
(***************************************************************************)
LEMMA CallTypes ==
  ASSUME ask \in Calls, batch \in Batches
  PROVE  /\ {ask.dp, ask.cp, ask.mp, ask.gbs, ask.mbs} \subseteq Nat \ {0}
         /\ ask.call \in {"train", "eval", "logprobs", "reference", "generate"}
         /\ ask.worker \in {"dtensor", "fsdp1", "megatron"} /\ ask.dynamic \in BOOLEAN
         /\ batch.len \in Seq(Nat) /\ batch.audio \in Seq(Nat)
         /\ N \in Nat \ {0} /\ Len(batch.audio) = N /\ Samples = 1..N
<1>1. batch.len \in Seq(Nat) /\ Len(batch.len) \in Nat \ {0}
  BY StepAssumption
<1>2. DOMAIN batch.len = 1..Len(batch.len)
  BY <1>1
<1> QED BY <1>1, <1>2, StepAssumption DEF N, Samples

LEMMA SizeTypes ==
  ASSUME ask \in Calls, batch \in Batches
  PROVE  /\ RowPeers \in Nat \ {0} /\ Shards \in Nat \ {0} /\ BatchSize \in Nat \ {0}
         /\ Shards = ask.dp * RowPeers
<1>1. /\ ask.dp \in Nat \ {0} /\ ask.cp \in Nat \ {0} /\ ask.gbs \in Nat \ {0}
      /\ N \in Nat \ {0}
  BY CallTypes
<1>2. RowPeers \in Nat \ {0}
  BY <1>1 DEF RowPeers
<1>3. ask.dp * RowPeers \in Nat \ {0}
  BY <1>1, <1>2
<1> QED BY <1>1, <1>2, <1>3 DEF Shards, BatchSize

\* The assertions of shard_by_batch_size make all shards and chunks equal.
LEMMA SizeFacts ==
  ASSUME ask \in Calls, batch \in Batches, Accepted
  PROVE  /\ LocalSize \in Nat \ {0} /\ GlobalBatches \in Nat \ {0}
         /\ Product(BatchSize, LocalSize, Shards)
         /\ Product(N, GlobalBatches, BatchSize)
         /\ RowsOut => GlobalBatches = 1 /\ BatchSize = N
<1>1. Shards \in Nat \ {0} /\ BatchSize \in Nat \ {0} /\ N \in Nat \ {0}
  BY SizeTypes, CallTypes
<1>2. N % BatchSize = 0 /\ BatchSize % Shards = 0
  BY DEF Accepted, Shardable
<1>3. LocalSize \in Nat /\ BatchSize = LocalSize * Shards
  BY <1>1, <1>2, DivExact DEF LocalSize
<1>4. GlobalBatches \in Nat /\ N = GlobalBatches * BatchSize
  BY <1>1, <1>2, DivExact DEF GlobalBatches
<1>5. LocalSize # 0 /\ GlobalBatches # 0
  BY <1>1, <1>3, <1>4
<1>6. ASSUME RowsOut PROVE GlobalBatches = 1 /\ BatchSize = N
  <2>1. BatchSize = N
    BY <1>6 DEF BatchSize
  <2>2. (1 * N + 0) \div N = 1
    <3>1. 0 \in 0..N - 1
      BY <1>1
    <3> QED BY <1>1, <3>1, DivBlock
  <2>3. 1 * N + 0 = N
    BY <1>1
  <2> QED BY <2>1, <2>2, <2>3 DEF GlobalBatches
<1> QED BY <1>3, <1>4, <1>5, <1>6 DEF Product

LEMMA PlainDealt ==
  ASSUME NEW m \in Nat \ {0}, NEW b \in Nat \ {0}, NEW n \in Nat, Product(n, m, b)
  PROVE  Dealt([i \in 1..n |-> i], m, b)
<1> DEFINE o == [i \in 1..n |-> i]
<1>1. n = m * b
  BY DEF Product
<1>2. o \in Seq(1..n) /\ Len(o) = n
  <2>1. o \in [1..n -> 1..n]
    OBVIOUS
  <2> HIDE DEF o
  <2> QED BY <2>1
<1>3. ASSUME NEW c \in 1..m, NEW i \in 1..b
      PROVE  o[(c - 1) * b + i] = (c - 1) * b + i /\ (c - 1) * b + i \in ChunkOf(c, b)
  <2>1. (c - 1) * b + i \in ChunkOf(c, b) /\ ChunkOf(c, b) \subseteq 1..m * b
    BY ChunkFacts
  <2> QED BY <1>1, <2>1
<1>4. ASSUME NEW c \in 1..m, NEW x \in ChunkOf(c, b)
      PROVE  \E i \in 1..b : (c - 1) * b + i = x
  <2>1. (c - 1) * b \in Nat /\ c * b = ((c - 1) * b + 1) + b - 1
    BY ChunkFacts
  <2> DEFINE u == (c - 1) * b
  <2>2. x \in (u + 1)..(u + b) /\ u \in Nat
    BY <2>1 DEF ChunkOf
  <2> HIDE DEF u
  <2>3. x - u \in 1..b /\ u + (x - u) = x
    BY <2>2
  <2> QED BY <2>3 DEF u
<1>5. \A c \in 1..m : \A x \in ChunkOf(c, b) : \E i \in 1..b : o[(c - 1) * b + i] = x
  <2> SUFFICES ASSUME NEW c \in 1..m, NEW x \in ChunkOf(c, b)
               PROVE  \E i \in 1..b : o[(c - 1) * b + i] = x
    OBVIOUS
  <2>1. PICK i \in 1..b : (c - 1) * b + i = x
    BY <1>4
  <2> HIDE DEF o
  <2> QED BY <1>3, <2>1
<1> HIDE DEF o
<1> QED BY <1>1, <1>2, <1>3, <1>5 DEF Dealt, o

LEMMA OrderFacts ==
  ASSUME ask \in Calls, batch \in Batches, Accepted
  PROVE  Dealt(Order, GlobalBatches, BatchSize)
<1>1. /\ Shards \in Nat \ {0} /\ BatchSize \in Nat \ {0} /\ N \in Nat \ {0}
      /\ batch.len \in Seq(Nat) /\ Len(batch.len) = N
  BY SizeTypes, CallTypes DEF N
<1>2. /\ LocalSize \in Nat \ {0} /\ GlobalBatches \in Nat \ {0}
      /\ Product(BatchSize, LocalSize, Shards) /\ Product(N, GlobalBatches, BatchSize)
  BY SizeFacts
<1>3. Dealt(SortedIndices(batch.len, Shards, BatchSize), GlobalBatches, BatchSize)
  BY <1>1, <1>2, SortedDealt
<1>4. Dealt([i \in 1..N |-> i], GlobalBatches, BatchSize)
  BY <1>1, <1>2, PlainDealt
<1> QED BY <1>3, <1>4 DEF Order

LEMMA RowsFacts ==
  ASSUME ask \in Calls, batch \in Batches, Accepted, NEW k \in 1..Shards
  PROVE  ShardIs(Rows(k), Order, 1..N, k, GlobalBatches, LocalSize, BatchSize)
<1>1. Shards \in Nat \ {0} /\ BatchSize \in Nat \ {0}
  BY SizeTypes
<1>2. /\ LocalSize \in Nat \ {0} /\ GlobalBatches \in Nat \ {0}
      /\ Product(BatchSize, LocalSize, Shards) /\ N = GlobalBatches * BatchSize
  BY SizeFacts DEF Product
<1>3. Order \in Seq(1..N) /\ Product(Len(Order), GlobalBatches, BatchSize)
  BY <1>2, OrderFacts DEF Dealt, Product
<1>4. ShardIs(Shard(Order, k, Shards, BatchSize), Order, 1..N, k, GlobalBatches, LocalSize,
              BatchSize)
  BY <1>1, <1>2, <1>3, ShardFacts
<1> QED BY <1>4 DEF Rows

\* A worker has a shard, and every shard has a worker whose rows are taken.
LEMMA ShardOfFacts ==
  ASSUME ask \in Calls, batch \in Batches
  PROVE  /\ \A w \in Workers : ShardOf(w) \in 1..Shards
         /\ \A k \in 1..Shards : SenderOf(k) \in Workers /\ ShardOf(SenderOf(k)) = k
<1>1. /\ ask.dp \in Nat \ {0} /\ ask.cp \in Nat \ {0} /\ ask.mp \in Nat \ {0}
      /\ RowPeers \in Nat \ {0} /\ Shards = ask.dp * RowPeers
  BY CallTypes, SizeTypes
<1>2. RowPeers = IF Scoring THEN ask.cp ELSE 1
  BY DEF RowPeers
<1>3. ASSUME NEW w \in Workers PROVE ShardOf(w) \in 1..Shards
  <2>1. w[1] \in 1..ask.dp /\ w[2] \in 1..ask.cp
    BY DEF Workers
  <2>2. (w[1] - 1) * ask.cp + w[2] \in 1..ask.dp * ask.cp
    BY <1>1, <2>1, BlockPlace
  <2>3. ~Scoring => Shards = ask.dp
    BY <1>1, <1>2
  <2> QED BY <1>1, <1>2, <2>1, <2>2, <2>3 DEF ShardOf
<1>4. ASSUME NEW k \in 1..Shards PROVE SenderOf(k) \in Workers /\ ShardOf(SenderOf(k)) = k
  <2>0. ask.dp \in Nat /\ RowPeers \in Nat /\ k \in 1..ask.dp * RowPeers
    BY <1>1
  <2>1. PICK q \in 1..ask.dp, j \in 1..RowPeers : k = (q - 1) * RowPeers + j
    BY <2>0, PlaceBlock
  <2>2. q - 1 \in Nat /\ j - 1 \in 0..RowPeers - 1 /\ k - 1 = (q - 1) * RowPeers + (j - 1)
    BY <1>1, <2>1
  <2>3. (k - 1) \div RowPeers = q - 1 /\ (k - 1) % RowPeers = j - 1
    <3> DEFINE u == q - 1
               v == j - 1
    <3>1. u \in Nat /\ v \in 0..RowPeers - 1 /\ k - 1 = u * RowPeers + v
      BY <2>2
    <3> HIDE DEF u, v
    <3>2. (u * RowPeers + v) \div RowPeers = u /\ (u * RowPeers + v) % RowPeers = v
      BY <1>1, <3>1, DivBlock
    <3> QED BY <3>1, <3>2 DEF u, v
  <2>4. (q - 1) + 1 = q /\ (j - 1) + 1 = j
    BY <1>1, <2>1
  <2>5. SenderOf(k) = <<q, j, 1>>
    BY <2>3, <2>4 DEF SenderOf
  <2>6. j \in 1..ask.cp /\ 1 \in 1..ask.mp
    BY <1>1, <1>2
  <2>7. SenderOf(k) \in Workers
    BY <2>5, <2>6 DEF Workers
  <2>8. CASE Scoring
    <3>1. ShardOf(<<q, j, 1>>) = (q - 1) * ask.cp + j
      BY <2>8 DEF ShardOf
    <3>2. RowPeers = ask.cp
      BY <1>2, <2>8
    <3>3. k = (q - 1) * ask.cp + j
      BY <2>1, <3>2, Zenon
    <3> QED BY <2>5, <2>7, <3>1, <3>3, Zenon
  <2>9. CASE ~Scoring
    <3>1. ShardOf(<<q, j, 1>>) = q
      BY <2>9 DEF ShardOf
    <3>2. RowPeers = 1 /\ j = 1
      BY <1>2, <2>9
    <3>3. (q - 1) * 1 + 1 = q
      OBVIOUS
    <3>4. k = (q - 1) * 1 + 1
      BY <2>1, <3>2, Zenon
    <3> QED BY <2>5, <2>7, <3>1, <3>3, <3>4, Zenon
  <2> QED BY <2>7, <2>8, <2>9
<1> QED BY <1>3, <1>4

\* What GetBatch finds of global batch g in shard k.
Gets(t, k, g) ==
  /\ SliceIs(t, Rows(k), 1..N, (g - 1) * LocalSize, LocalSize)
  /\ \A j \in 1..LocalSize : /\ t[j] = Order[(g - 1) * BatchSize + (k - 1) * LocalSize + j]
                             /\ t[j] \in ChunkOf(g, BatchSize)

LEMMA GetsFacts ==
  ASSUME ask \in Calls, batch \in Batches, Accepted, NEW k \in 1..Shards,
         NEW g \in 1..GlobalBatches
  PROVE  Gets(GetBatch(Rows(k), g, LocalSize), k, g)
<1> DEFINE t == GetBatch(Rows(k), g, LocalSize)
<1>1. /\ LocalSize \in Nat \ {0} /\ GlobalBatches \in Nat \ {0} /\ Shards \in Nat \ {0}
      /\ BatchSize = LocalSize * Shards
  BY SizeFacts, SizeTypes DEF Product
<1>2. ShardIs(Rows(k), Order, 1..N, k, GlobalBatches, LocalSize, BatchSize)
  BY RowsFacts
<1>3. Dealt(Order, GlobalBatches, BatchSize)
  BY OrderFacts
<1>4. SliceIs(t, Rows(k), 1..N, (g - 1) * LocalSize, LocalSize)
  <2>1. Rows(k) \in Seq(1..N) /\ Product(Len(Rows(k)), GlobalBatches, LocalSize)
    BY <1>2 DEF ShardIs, Product
  <2> QED BY <1>1, <2>1, GetBatchFacts
<1> HIDE DEF t
<1>5. ASSUME NEW j \in 1..LocalSize
      PROVE  /\ t[j] = Order[(g - 1) * BatchSize + (k - 1) * LocalSize + j]
             /\ t[j] \in ChunkOf(g, BatchSize)
  <2>1. t[j] = Rows(k)[(g - 1) * LocalSize + j]
    BY <1>4 DEF SliceIs
  <2>2. t[j] = Order[(g - 1) * BatchSize + (k - 1) * LocalSize + j]
    BY <1>2, <2>1 DEF ShardIs
  <2>3. (k - 1) * LocalSize + j \in 1..BatchSize
    <3>1. (k - 1) * LocalSize + j \in 1..Shards * LocalSize
      BY <1>1, BlockPlace
    <3> QED BY <1>1, <3>1
  <2> DEFINE i == (k - 1) * LocalSize + j
             u == (g - 1) * BatchSize
  <2>4. Order[u + i] \in ChunkOf(g, BatchSize)
    <3> HIDE DEF i, u
    <3>1. i \in 1..BatchSize
      BY <2>3 DEF i
    <3> QED BY <1>3, <3>1 DEF Dealt, u
  <2>5. u + i = (g - 1) * BatchSize + (k - 1) * LocalSize + j
    <3>1. u \in Int /\ (k - 1) * LocalSize \in Int /\ j \in Int
      BY <1>1, SizeTypes
    <3> QED BY <3>1
  <2> QED BY <2>2, <2>4, <2>5
<1>6. Gets(t, k, g)
  BY <1>4, <1>5 DEF Gets
<1> QED BY <1>6 DEF t

\* Of n numbers, one is the largest.
LEMMA Largest ==
  ASSUME NEW f, NEW n \in Nat \ {0}, \A i \in 1..n : f[i] \in Nat
  PROVE  \E i \in 1..n : \A j \in 1..n : f[j] <= f[i]
<1> DEFINE Top(m, i) == \A j \in 1..m : f[j] <= f[i]
           Bad == {m \in 1..n : ~ \E i \in 1..m : Top(m, i)}
<1>1. Bad = {}
  <2> SUFFICES ASSUME Bad # {} PROVE FALSE
    OBVIOUS
  <2>1. Bad \in SUBSET Nat
    OBVIOUS
  <2>2. PICK m \in Bad : \A k \in Bad : m <= k
    <3> HIDE DEF Bad
    <3> QED BY <2>1, LeastNatural
  <2>3. m \in 1..n /\ ~ \E i \in 1..m : Top(m, i)
    OBVIOUS
  <2>4. CASE m = 1
    <3>1. Top(1, 1)
      OBVIOUS
    <3> QED BY <2>3, <2>4, <3>1
  <2>5. CASE m # 1
    <3>1. m - 1 \in 1..n /\ m - 1 \notin Bad
      <4> HIDE DEF Bad
      <4> QED BY <2>2, <2>3, <2>5
    <3>2. PICK i \in 1..m - 1 : Top(m - 1, i)
      BY <3>1
    <3> HIDE DEF Bad
    <3>3. i \in 1..m /\ m \in 1..m /\ \A j \in 1..m : j = m \/ j \in 1..m - 1
      BY <2>3, <2>5
    <3>4. f[i] \in Nat /\ f[m] \in Nat /\ \A j \in 1..m : f[j] \in Nat
      BY <2>3, <3>3
    <3>5. Top(m, i) \/ Top(m, m)
      BY <3>2, <3>3, <3>4
    <3> QED BY <2>3, <3>3, <3>5
  <2> QED BY <2>4, <2>5
<1>2. n \in 1..n
  OBVIOUS
<1> QED BY <1>1, <1>2

LEMMA MaxFacts ==
  ASSUME NEW f, NEW n \in Nat \ {0}, \A i \in 1..n : f[i] \in Nat
  PROVE  /\ Max({f[i] : i \in 1..n}) \in Nat
         /\ \A j \in 1..n : f[j] <= Max({f[i] : i \in 1..n})
<1> DEFINE S == {f[i] : i \in 1..n}
<1>1. PICK i \in 1..n : \A j \in 1..n : f[j] <= f[i]
  BY Largest
<1>2. f[i] \in S /\ \A y \in S : f[i] >= y
  BY <1>1
<1>3. Max(S) \in S /\ \A y \in S : Max(S) >= y
  <2>1. Max(S) = CHOOSE x \in S : \A y \in S : x >= y
    BY DEF Max
  <2> HIDE DEF S
  <2> QED BY <1>2, <2>1
<1>4. ASSUME NEW j \in 1..n PROVE f[j] \in S
  OBVIOUS
<1>5. S \subseteq Nat
  OBVIOUS
<1> HIDE DEF S
<1>6. Max(S) \in Nat /\ \A j \in 1..n : f[j] <= Max(S)
  BY <1>3, <1>4, <1>5
<1> QED BY <1>6 DEF S

\* Rounded up, a length is not less, and no sample is longer than the tensors.
LEMMA RoundedUp ==
  ASSUME NEW a \in Nat, NEW r \in Nat \ {0}
  PROVE  CeilDiv(a, r) * r \in Nat /\ a <= CeilDiv(a, r) * r
<1> DEFINE n == a + r - 1
           u == n \div r
           v == n % r
<1>1. n \in Nat
  OBVIOUS
<1>2. u \in Nat /\ v \in 0..r - 1 /\ n = u * r + v
  <2> HIDE DEF n
  <2> QED BY <1>1, DivFacts
<1>3. CeilDiv(a, r) = u
  BY DEF CeilDiv
<1> HIDE DEF u, v
<1>4. u * r \in Nat
  BY <1>2
<1>5. a <= u * r
  BY <1>2, <1>4
<1> QED BY <1>3, <1>4, <1>5

LEMMA WidthFacts ==
  ASSUME ask \in Calls, batch \in Batches
  PROVE  Width \in Nat /\ \A s \in 1..N : batch.len[s] \in Nat /\ batch.len[s] <= Width
<1>1. batch.len \in Seq(Nat) /\ N \in Nat \ {0} /\ N = Len(batch.len) /\ DOMAIN batch.len = 1..N
  BY CallTypes DEF N, Samples
<1>2. \A s \in 1..N : batch.len[s] \in Nat
  BY <1>1
<1>3. Range(batch.len) = {batch.len[i] : i \in 1..N}
  BY <1>1 DEF Range
<1>4. /\ Max({batch.len[i] : i \in 1..N}) \in Nat
      /\ \A j \in 1..N : batch.len[j] <= Max({batch.len[i] : i \in 1..N})
  <2> DEFINE f == batch.len
  <2>1. \A s \in 1..N : f[s] \in Nat
    BY <1>2
  <2> HIDE DEF f
  <2>2. Max({f[i] : i \in 1..N}) \in Nat /\ \A j \in 1..N : f[j] <= Max({f[i] : i \in 1..N})
    BY <1>1, <2>1, MaxFacts
  <2> QED BY <2>2 DEF f
<1>5. Width = Max({batch.len[i] : i \in 1..N})
  BY <1>3 DEF Width
<1> QED BY <1>2, <1>4, <1>5

\* The rows of all shards are padded to one length, which no sample exceeds.
Padded(rows, g) ==
  /\ rows \in Seq(Nat) /\ Len(rows) = LocalSize
  /\ \A k \in 1..Shards, j \in 1..LocalSize :
       batch.len[Rows(k)[(g - 1) * LocalSize + j]] <= rows[j]

LEMMA RowLengthsFacts ==
  ASSUME ask \in Calls, batch \in Batches, Accepted, NEW g \in 1..GlobalBatches
  PROVE  /\ Padded(RowLengths(1..Shards, g), g)
         /\ ask.dynamic => AtMost(RowLengths(1..Shards, g), Budget)
<1> DEFINE ln(k, j) == batch.len[Rows(k)[(g - 1) * LocalSize + j]]
           lens(j) == {ln(k, j) : k \in 1..Shards}
           rows == [j \in 1..LocalSize |-> RowLength(lens(j), Round, Width)]
<1>1. /\ LocalSize \in Nat \ {0} /\ GlobalBatches \in Nat \ {0} /\ Shards \in Nat \ {0}
      /\ Width \in Nat /\ Round \in Nat \ {0}
  BY SizeFacts, SizeTypes, WidthFacts, StepAssumption
<1>2. RowLengths(1..Shards, g) = rows
  BY DEF RowLengths
<1>3. ASSUME NEW k \in 1..Shards, NEW j \in 1..LocalSize
      PROVE  ln(k, j) \in Nat /\ ln(k, j) <= Width
  <2>1. ShardIs(Rows(k), Order, 1..N, k, GlobalBatches, LocalSize, BatchSize)
    BY RowsFacts
  <2>2. (g - 1) * LocalSize + j \in 1..GlobalBatches * LocalSize
    BY <1>1, BlockPlace
  <2> DEFINE i == (g - 1) * LocalSize + j
             l == GlobalBatches * LocalSize
  <2>3. Rows(k) \in Seq(1..N) /\ Len(Rows(k)) = l /\ i \in 1..l
    BY <2>1, <2>2 DEF ShardIs
  <2> HIDE DEF i, l
  <2>4. Rows(k)[i] \in 1..N
    <3>1. Rows(k) \in Seq(1..N) /\ i \in 1..Len(Rows(k))
      BY <2>3
    <3> QED BY <3>1, ElementOfSeq
  <2> QED BY <2>4, WidthFacts DEF i
<1> HIDE DEF ln
<1>4. ASSUME NEW j \in 1..LocalSize
      PROVE  /\ RowLength(lens(j), Round, Width) \in Nat
             /\ \A k \in 1..Shards : ln(k, j) <= RowLength(lens(j), Round, Width)
  <2> DEFINE f == [k \in 1..Shards |-> ln(k, j)]
             top == Max(lens(j))
             up == CeilDiv(top, Round) * Round
  <2>1. \A k \in 1..Shards : f[k] \in Nat /\ f[k] = ln(k, j)
    BY <1>3
  <2>2. lens(j) = {f[k] : k \in 1..Shards}
    BY <2>1
  <2>3. top \in Nat /\ \A k \in 1..Shards : f[k] <= top
    <3> HIDE DEF f, lens
    <3> QED BY <1>1, <2>1, <2>2, MaxFacts
  <2>4. up \in Nat /\ top <= up
    <3> HIDE DEF top
    <3> QED BY <1>1, <2>3, RoundedUp
  <2>5. RowLength(lens(j), Round, Width) = Smaller(up, Width)
    BY DEF RowLength
  <2> HIDE DEF f, lens, top, up
  <2>6. ASSUME NEW k \in 1..Shards PROVE ln(k, j) <= up /\ ln(k, j) <= Width /\ ln(k, j) \in Nat
    BY <1>3, <2>1, <2>3, <2>4
  <2> QED BY <1>1, <2>4, <2>5, <2>6 DEF Smaller
<1> HIDE DEF lens
<1>5. rows \in Seq(Nat) /\ Len(rows) = LocalSize
  <2>1. rows \in [1..LocalSize -> Nat]
    BY <1>4
  <2> HIDE DEF rows
  <2> QED BY <1>1, <2>1
<1>6. \A k \in 1..Shards, j \in 1..LocalSize : ln(k, j) <= rows[j]
  BY <1>4
<1>7. ASSUME ask.dynamic PROVE AtMost(rows, Budget)
  <2>1. \A j \in 1..LocalSize : RowLengths(1..Shards, g)[j] <= Budget
    BY <1>7 DEF Accepted
  <2> HIDE DEF rows
  <2> QED BY <1>2, <1>5, <2>1 DEF AtMost
<1> HIDE DEF rows
<1>8. Padded(rows, g)
  BY <1>5, <1>6 DEF Padded, ln
<1> QED BY <1>2, <1>7, <1>8

\* The width of even cuts, and where they end, also if they do not cover all.
LEMMA EvenCutsWide ==
  ASSUME NEW n \in Nat, NEW size \in Nat \ {0}, NEW width \in Nat
  PROVE  \A i \in DOMAIN EvenCuts(n, size, width) :
           /\ EvenCuts(n, size, width)[i].len = width
           /\ EvenCuts(n, size, width)[i].from \in Nat
           /\ EvenCuts(n, size, width)[i].to \in 0..n
<1> DEFINE q == n \div size
           r == n % size
<1>1. q \in Nat /\ r \in 0..size - 1 /\ n = q * size + r
  BY DivFacts
<1> HIDE DEF q, r
<1>2. EvenCuts(n, size, width) =
        [i \in 1..q |-> [from |-> (i - 1) * size, to |-> i * size, len |-> width]]
  BY DEF EvenCuts, q
<1>3. ASSUME NEW i \in 1..q PROVE (i - 1) * size \in Nat /\ i * size \in 0..n
  <2>1. i * size <= q * size /\ i * size \in Nat /\ q * size \in Nat
    BY <1>1, MulMono
  <2>2. i - 1 \in Nat
    OBVIOUS
  <2> QED BY <1>1, <2>1, <2>2
<1> QED BY <1>2, <1>3

\* What a worker iterates over of its global batch.
Sent == shards = [k \in 1..Shards |-> ShardData(k)]
Wide(w) ==
  \A i \in DOMAIN Microbatches(w) :
    LET m == Microbatches(w)[i] IN
    /\ m.from \in Nat /\ m.to \in 0..LocalSize
    /\ ask.dynamic => (m.to - m.from) * m.len <= Budget
    /\ \A j \in (m.from + 1)..m.to : batch.len[LocalBatch(w)[j]] <= m.len

LEMMA WorkFacts ==
  ASSUME ask \in Calls, batch \in Batches, Accepted, Sent, NEW w \in Workers,
         gb[w] \in 1..GlobalBatches
  PROVE  /\ Gets(LocalBatch(w), ShardOf(w), gb[w])
         /\ Wide(w) /\ (~Uneven => Covers(Microbatches(w), LocalSize))
<1> DEFINE k == ShardOf(w)
           g == gb[w]
           t == LocalBatch(w)
           mbs == Microbatches(w)
<1>1. k \in 1..Shards /\ g \in 1..GlobalBatches
  BY ShardOfFacts
<1>2. shards[k] = ShardData(k)
  BY <1>1 DEF Sent
<1>3. shards[k].rows = Rows(k) /\ (ask.dynamic => shards[k].mbs = MicrobatchesOf(k))
  BY <1>2 DEF ShardData
<1>4. Gets(t, k, g)
  <2>1. t = GetBatch(Rows(k), g, LocalSize)
    BY <1>3 DEF LocalBatch
  <2> HIDE DEF k, g, t
  <2> QED BY <1>1, <2>1, GetsFacts
<1>5. /\ LocalSize \in Nat \ {0} /\ Width \in Nat /\ ask.mbs \in Nat \ {0} /\ Budget \in Nat
      /\ ask.dynamic \in BOOLEAN
  BY CallTypes, SizeFacts, WidthFacts, StepAssumption
<1>6. \A j \in 1..LocalSize : t[j] \in 1..N /\ t[j] = Rows(k)[(g - 1) * LocalSize + j]
  <2> HIDE DEF k, g, t
  <2> TAKE j \in 1..LocalSize
  <2>1. t \in Seq(1..N) /\ Len(t) = LocalSize /\ t[j] = Rows(k)[(g - 1) * LocalSize + j]
    BY <1>4 DEF Gets, SliceIs
  <2> QED BY <2>1, ElementOfSeq
<1>7. CASE ask.dynamic
  <2> DEFINE rows == RowLengths(1..Shards, g)
  <2>1. mbs = Grouped(rows, Budget)
    BY <1>1, <1>3, <1>7 DEF Microbatches, MicrobatchesOf
  <2> HIDE DEF k, g, t, mbs
  <2>2. Padded(rows, g) /\ AtMost(rows, Budget)
    BY <1>1, <1>7, RowLengthsFacts
  <2> HIDE DEF rows
  <2>3. Covers(mbs, LocalSize) /\ Fits(mbs, rows, Budget)
    <3>1. Len(rows) = LocalSize
      BY <2>2 DEF Padded
    <3> QED BY <1>5, <2>1, <2>2, <3>1, GroupedFits
  <2>4. ASSUME NEW i \in DOMAIN mbs
        PROVE  /\ mbs[i].from \in Nat /\ mbs[i].to \in 0..LocalSize
               /\ (mbs[i].to - mbs[i].from) * mbs[i].len <= Budget
               /\ \A j \in (mbs[i].from + 1)..mbs[i].to : batch.len[t[j]] <= mbs[i].len
    <3>1. mbs \in Seq(Microbatch3) /\ i \in 1..Len(mbs)
      BY <2>3 DEF Covers
    <3>2. mbs[i] \in Microbatch3
      BY <3>1, ElementOfSeq
    <3>3. /\ mbs[i].from \in Nat /\ mbs[i].len \in Nat /\ mbs[i].to \in Nat
          /\ mbs[i].to <= LocalSize
      BY <2>3, <3>1, <3>2 DEF Covers, Microbatch3
    <3>4. /\ (mbs[i].to - mbs[i].from) * mbs[i].len <= Budget
          /\ \A j \in (mbs[i].from + 1)..mbs[i].to : rows[j] <= mbs[i].len
      BY <2>3, <3>1 DEF Fits
    <3>5. ASSUME NEW j \in (mbs[i].from + 1)..mbs[i].to PROVE batch.len[t[j]] <= mbs[i].len
      <4>1. j \in 1..LocalSize /\ rows[j] <= mbs[i].len
        BY <1>5, <3>3, <3>4
      <4>2. batch.len[Rows(k)[(g - 1) * LocalSize + j]] <= rows[j]
        BY <1>1, <2>2, <4>1 DEF Padded
      <4>3. batch.len[t[j]] <= rows[j] /\ batch.len[t[j]] \in Nat
        BY <1>6, <4>1, <4>2, WidthFacts
      <4>4. rows[j] \in Nat
        <5>1. rows \in Seq(Nat) /\ Len(rows) = LocalSize
          BY <2>2 DEF Padded
        <5> QED BY <4>1, <5>1, ElementOfSeq
      <4> QED BY <3>3, <4>1, <4>3, <4>4
    <3> QED BY <1>5, <3>3, <3>4, <3>5
  <2>5. Wide(w)
    BY <2>4 DEF Wide, mbs, t
  <2> QED BY <1>4, <2>3, <2>5 DEF k, g, t, mbs
<1>8. CASE ~ask.dynamic
  <2>1. mbs = EvenCuts(LocalSize, ask.mbs, Width)
    BY <1>8 DEF Microbatches
  <2> HIDE DEF k, g, t, mbs
  <2>2. \A i \in DOMAIN mbs : mbs[i].len = Width /\ mbs[i].from \in Nat /\ mbs[i].to \in 0..LocalSize
    BY <1>5, <2>1, EvenCutsWide
  <2>3. ASSUME NEW i \in DOMAIN mbs, NEW j \in (mbs[i].from + 1)..mbs[i].to
        PROVE  batch.len[t[j]] <= mbs[i].len
    <3>1. j \in 1..LocalSize /\ mbs[i].len = Width
      BY <1>5, <2>2
    <3> QED BY <1>6, <3>1, WidthFacts
  <2>4. Wide(w)
    BY <1>8, <2>2, <2>3 DEF Wide, mbs, t
  <2>5. ~Uneven => Covers(mbs, LocalSize)
    <3>1. ~Uneven => LocalSize % ask.mbs = 0
      BY <1>8 DEF Uneven
    <3> QED BY <1>5, <2>1, <3>1, EvenCutsCover
  <2> QED BY <1>4, <2>4, <2>5 DEF k, g, t, mbs
<1> QED BY <1>5, <1>7, <1>8

-----------------------------------------------------------------------------
(***************************************************************************)
(* Workers start with the shards of the driver (Placed).                   *)
(***************************************************************************)

\* What is asked for does not change, nor does what follows from it.
LEMMA HeldFacts ==
  ASSUME held' = held
  PROVE  /\ ask' = ask /\ batch' = batch /\ Workers' = Workers /\ N' = N /\ Samples' = Samples
         /\ Recordings' = Recordings /\ Shards' = Shards /\ BatchSize' = BatchSize
         /\ LocalSize' = LocalSize /\ GlobalBatches' = GlobalBatches /\ Order' = Order
         /\ RowPeers' = RowPeers
         /\ (Scoring' <=> Scoring) /\ (RowsOut' <=> RowsOut) /\ (Uneven' <=> Uneven)
         /\ (Accepted' <=> Accepted) /\ Width' = Width
         /\ \A k : ShardData(k)' = ShardData(k) /\ Rows(k)' = Rows(k)
<1>1. ask' = ask /\ batch' = batch
  BY DEF held
<1>2. /\ Workers' = Workers /\ N' = N /\ Samples' = Samples /\ Width' = Width
      /\ (Scoring' <=> Scoring)
  BY <1>1 DEF Workers, N, Samples, Width, Scoring
<1>3. Recordings' = Recordings
  BY <1>1, <1>2 DEF Recordings
<1>4. (RowsOut' <=> RowsOut) /\ RowPeers' = RowPeers
  BY <1>1, <1>2 DEF RowsOut, RowPeers
<1>5. Shards' = Shards /\ BatchSize' = BatchSize
  BY <1>1, <1>2, <1>4 DEF Shards, BatchSize
<1>6. LocalSize' = LocalSize /\ GlobalBatches' = GlobalBatches /\ Order' = Order
  BY <1>1, <1>2, <1>5 DEF LocalSize, GlobalBatches, Order
<1>7. \A k : Rows(k)' = Rows(k)
  BY <1>5, <1>6 DEF Rows
<1>8. Uneven' <=> Uneven
  BY <1>1, <1>6 DEF Uneven
<1>9. \A ks, g : RowLengths(ks, g)' = RowLengths(ks, g)
  BY <1>1, <1>2, <1>6, <1>7 DEF RowLengths
<1>10. Accepted' <=> Accepted
  BY <1>1, <1>2, <1>5, <1>6, <1>9 DEF Accepted
<1>11. \A k : MicrobatchesOf(k)' = MicrobatchesOf(k)
  BY <1>5, <1>6, <1>9 DEF MicrobatchesOf
<1>12. \A k : ShardData(k)' = ShardData(k)
  BY <1>1, <1>7, <1>11 DEF ShardData
<1> QED BY <1>1, <1>2, <1>3, <1>4, <1>5, <1>6, <1>7, <1>8, <1>10, <1>12

\* A step of a worker moves it, on to its next global batch in a training
\* call only.
Moves(w, to) ==
  /\ at[w] \notin {"idle", "returned", "raised"} /\ to \in Places \ {"idle", "called"} /\ at' = [at EXCEPT ![w] = to]
  /\ UNCHANGED kept
  /\ RowsOut => gb' = gb /\ to \in Scored \cup {"returned", "raised"}
  /\ ~RowsOut => \/ gb' = gb /\ (to \in InBatch => gb[w] <= GlobalBatches)
                 \/ to = "batch" /\ gb' = [gb EXCEPT ![w] = @ + 1]

LEMMA WorkerMoves ==
  ASSUME Placed, NEW w \in Workers, Work(w)
  PROVE  \E to \in Places : Moves(w, to)
<1> USE DEF kept, atWork, Goes
<1>0. /\ ask.call \in {"train", "eval", "logprobs", "reference", "generate"}
      /\ at[w] \in Places
      /\ RowsOut => at[w] \in Scored \cup {"idle", "called", "returned", "raised"}
      /\ ~RowsOut /\ at[w] \in InBatch => gb[w] <= GlobalBatches
  BY CallTypes DEF Placed
<1>1. CASE StartTrain(w)
  <2>1. Moves(w, "batch")
    BY <1>0, <1>1 DEF StartTrain, Moves, Places, Scored, InBatch, RowsOut, Scoring
  <2> QED BY <2>1 DEF Moves
<1>2. CASE StartRows(w)
  <2>1. Moves(w, "forward")
    BY <1>0, <1>2 DEF StartRows, Moves, Places, Scored, InBatch, RowsOut, Scoring
  <2> QED BY <2>1 DEF Moves
<1>3. CASE SwapReference(w)
  <2>1. Moves(w, "forward")
    BY <1>0, <1>3 DEF SwapReference, Moves, Places, Scored, InBatch, RowsOut, Scoring
  <2> QED BY <2>1 DEF Moves
<1>4. CASE NextBatch(w)
  <2>1. Moves(w, "normalise")
    BY <1>0, <1>4 DEF NextBatch, Moves, Places, Scored, InBatch
  <2> QED BY <2>1 DEF Moves
<1>5. CASE Normalise(w)
  <2>1. Moves(w, "forward")
    BY <1>0, <1>5 DEF Normalise, Moves, Places, Scored, InBatch
  <2> QED BY <2>1 DEF Moves
<1>6. CASE UnevenRaises(w)
  <2>1. Moves(w, "raised")
    BY <1>0, <1>6 DEF UnevenRaises, Moves, Places, Scored, InBatch
  <2> QED BY <2>1 DEF Moves
<1>7. CASE NextEval(w)
  <2>1. Moves(w, "batch")
    BY <1>0, <1>7 DEF NextEval, Forwarded, Moves, Places, Scored, InBatch, RowsOut, Scoring
  <2> QED BY <2>1 DEF Moves
<1>8. CASE SumLosses(w)
  <2>1. Moves(w, "losses")
    BY <1>0, <1>8 DEF SumLosses, Moves, Places, Scored, InBatch
  <2> QED BY <2>1 DEF Moves
<1>9. CASE ReturnLosses(w)
  <2>1. Moves(w, "returned")
    BY <1>0, <1>9 DEF ReturnLosses, Moves, Places, Scored, InBatch
  <2> QED BY <2>1 DEF Moves
<1>10. CASE ReturnRows(w)
  <2>1. Moves(w, "returned")
    BY <1>0, <1>10 DEF ReturnRows, Forwarded, Moves, Places, Scored, InBatch
  <2> QED BY <2>1 DEF Moves
<1>11. CASE \/ DTensorTrainForward(w) \/ DTensorScore(w) \/ FSDP1TrainForward(w)
            \/ FSDP1Score(w) \/ FSDP1Generate(w) \/ MegatronSchedule(w) \/ MegatronScore(w)
  <2>1. /\ at[w] \in {"forward", "backward"} /\ at' = [at EXCEPT ![w] = "backward"]
        /\ UNCHANGED <<kept, gb>>
    BY <1>11 DEF DTensorTrainForward, DTensorScore, FSDP1TrainForward, FSDP1Score, FSDP1Generate,
       MegatronSchedule, MegatronScore, DTensorForward, FSDP1Through, NextForward, ThroughModel
  <2>2. Moves(w, "backward")
    BY <1>0, <2>1 DEF Moves, Places, Scored, InBatch
  <2> QED BY <2>2 DEF Moves
<1>12. CASE EmbeddingRaises(w)
  <2>1. Moves(w, "raised")
    BY <1>0, <1>12 DEF EmbeddingRaises, NextForward, Moves, Places, Scored, InBatch
  <2> QED BY <2>1 DEF Moves
<1>13. CASE DTensorGradNorm(w) \/ FSDP1GradNorm(w) \/ MegatronGradNorm(w)
  <2>1. Moves(w, "step")
    BY <1>0, <1>13 DEF DTensorGradNorm, FSDP1GradNorm, MegatronGradNorm, Forwarded, Moves, Places,
       Scored, InBatch, RowsOut, Scoring
  <2> QED BY <2>1 DEF Moves
<1>14. CASE DTensorStep(w) \/ FSDP1Step(w) \/ ShareMetrics(w)
  <2>1. Moves(w, "batch")
    BY <1>0, <1>14 DEF DTensorStep, FSDP1Step, ShareMetrics, Moves, Places, Scored, InBatch
  <2> QED BY <2>1 DEF Moves
<1>15. CASE MegatronStart(w)
  <2>1. Moves(w, "sized")
    BY <1>0, <1>15 DEF MegatronStart, Moves, Places, Scored, InBatch, RowsOut, Scoring
  <2> QED BY <2>1 DEF Moves
<1>16. CASE MegatronStep(w)
  <2>1. Moves(w, "share")
    BY <1>0, <1>16 DEF MegatronStep, Moves, Places, Scored, InBatch
  <2> QED BY <2>1 DEF Moves
<1>17. CASE MegatronStepRaises(w)
  <2>1. Moves(w, "raised")
    BY <1>0, <1>17 DEF MegatronStepRaises, Moves, Places, Scored, InBatch
  <2> QED BY <2>1 DEF Moves
<1>18. CASE ShareRows(w)
  <2>1. Moves(w, "rows")
    BY <1>0, <1>18 DEF ShareRows, Forwarded, Moves, Places, Scored, InBatch, RowsOut, Scoring
  <2> QED BY <2>1 DEF Moves
<1> QED BY <1>1, <1>2, <1>3, <1>4, <1>5, <1>6, <1>7, <1>8, <1>9, <1>10, <1>11, <1>12, <1>13, <1>14,
           <1>15, <1>16, <1>17, <1>18 DEF Work

LEMMA PlacedInit == Init => Placed
<1> SUFFICES ASSUME Init PROVE Placed
  OBVIOUS
<1>1. ask \in Calls /\ batch \in Batches /\ pc = "call"
      /\ at = [w \in Workers |-> "idle"] /\ gb = [w \in Workers |-> 1]
  BY DEF Init
<1>2. at \in [Workers -> Places] /\ gb \in [Workers -> Nat \ {0}]
  BY <1>1 DEF Places
<1> QED BY <1>1, <1>2 DEF Placed, InBatch

LEMMA PlacedKept ==
  ASSUME Placed, held' = held, gb' = gb, at' = at,
         \/ pc' = pc /\ shards' = shards
         \/ pc = "call" /\ pc' = "refused"
         \/ pc = "wait" /\ pc' \in {"done", "raised"} /\ shards' = shards
  PROVE  Placed'
BY HeldFacts DEF Placed, InBatch, Scored

LEMMA PlacedNext == Placed /\ [Next]_vars => Placed'
<1> SUFFICES ASSUME Placed, [Next]_vars PROVE Placed'
  OBVIOUS
<1>1. CASE CallTrain \/ CallLogprobs \/ CallReference \/ CallGenerate
  <2>1. /\ Accepted /\ pc' = "wait" /\ shards' = [k \in 1..Shards |-> ShardData(k)]
        /\ at' = [w \in Workers |-> "called"] /\ UNCHANGED <<held, gb>> /\ pc = "call"
    BY <1>1 DEF CallTrain, CallLogprobs, CallReference, CallGenerate, Dispatch, atWork
  <2>2. /\ ask' = ask /\ batch' = batch /\ Workers' = Workers /\ (Accepted' <=> Accepted)
        /\ Shards' = Shards /\ GlobalBatches' = GlobalBatches /\ (RowsOut' <=> RowsOut)
        /\ \A k : ShardData(k)' = ShardData(k)
    BY <2>1, HeldFacts
  <2>3. shards' = [k \in 1..Shards' |-> ShardData(k)']
    BY <2>1, <2>2
  <2>4. at' \in [Workers -> Places] /\ gb' \in [Workers -> Nat \ {0}]
    BY <2>1 DEF Placed, Places
  <2>5. \A w \in Workers : at'[w] = "called" /\ (RowsOut => gb[w] = 1)
    BY <2>1 DEF Placed
  <2> QED BY <2>1, <2>2, <2>3, <2>4, <2>5 DEF Placed, InBatch
<1>2. CASE Refuse
  BY <1>2, PlacedKept DEF Refuse, atWork
<1>3. CASE Gathering
  BY <1>3, PlacedKept
     DEF Gathering, CollectTrain, CollectRows, CollectRaises, AllReturned, atWork
<1>4. ASSUME NEW w \in Workers, Work(w) PROVE Placed'
  <2>1. PICK to \in Places : Moves(w, to)
    BY <1>4, WorkerMoves
  <2>2. /\ at[w] # "idle" /\ to \notin {"idle", "called"} /\ at' = [at EXCEPT ![w] = to]
        /\ held' = held /\ pc' = pc /\ shards' = shards
        /\ RowsOut => gb' = gb /\ to \in Scored \cup {"returned", "raised"}
        /\ ~RowsOut => \/ gb' = gb /\ (to \in InBatch => gb[w] <= GlobalBatches)
                       \/ to = "batch" /\ gb' = [gb EXCEPT ![w] = @ + 1]
    BY <2>1 DEF Moves, kept
  <2>3. /\ ask' = ask /\ batch' = batch /\ Workers' = Workers /\ (Accepted' <=> Accepted)
        /\ Shards' = Shards /\ GlobalBatches' = GlobalBatches /\ (RowsOut' <=> RowsOut)
        /\ \A k : ShardData(k)' = ShardData(k)
    BY <2>2, HeldFacts
  <2>4. at \in [Workers -> Places] /\ gb \in [Workers -> Nat \ {0}] /\ w \in Workers
    BY <1>4 DEF Placed
  <2>5. pc' \notin {"call", "refused"} /\ Accepted' /\ shards' = [k \in 1..Shards' |-> ShardData(k)']
    <3>1. pc \notin {"call", "refused"}
      BY <2>2 DEF Placed
    <3>2. Accepted /\ shards = [k \in 1..Shards |-> ShardData(k)]
      BY <3>1 DEF Placed
    <3> QED BY <2>2, <2>3, <3>1, <3>2
  <2>6. at' \in [Workers' -> Places] /\ gb' \in [Workers' -> Nat \ {0}]
    BY <2>2, <2>3, <2>4
  <2>7. ASSUME NEW v \in Workers
        PROVE  /\ RowsOut => at'[v] \in Scored \cup {"idle", "called", "returned", "raised"}
                             /\ gb'[v] = 1
               /\ ~RowsOut /\ at'[v] \in InBatch => gb'[v] <= GlobalBatches
    <3>1. /\ RowsOut => at[v] \in Scored \cup {"idle", "called", "returned", "raised"} /\ gb[v] = 1
          /\ ~RowsOut /\ at[v] \in InBatch => gb[v] <= GlobalBatches
      BY DEF Placed
    <3>2. CASE v = w
      <4>1. at'[v] = to
        BY <2>2, <2>4, <3>2
      <4>2. "batch" \notin InBatch
        BY DEF InBatch
      <4> QED BY <2>2, <3>1, <3>2, <4>1, <4>2
    <3>3. CASE v # w
      <4>1. at'[v] = at[v] /\ gb'[v] = gb[v]
        BY <2>2, <2>4, <3>3
      <4> QED BY <3>1, <4>1
    <3> QED BY <3>2, <3>3
  <2>8. ask' \in Calls /\ batch' \in Batches
    BY <2>3 DEF Placed
  <2> QED BY <2>3, <2>5, <2>6, <2>7, <2>8 DEF Placed
<1>5. CASE UNCHANGED vars
  BY <1>5, PlacedKept DEF vars, held
<1> QED BY <1>1, <1>2, <1>3, <1>4, <1>5 DEF Next, Calling

\* A worker that is about to go on is at a global batch it has been sent.
LEMMA PlacedWorker ==
  ASSUME Placed, NEW w \in Workers, at[w] \in InBatch \/ (RowsOut /\ at[w] # "idle")
  PROVE  Accepted /\ Sent /\ gb[w] \in 1..GlobalBatches
<1>1. pc \notin {"call", "refused"} /\ Accepted /\ Sent /\ gb[w] \in Nat \ {0}
  BY DEF Placed, Sent, Scored, InBatch
<1>2. GlobalBatches \in Nat \ {0} /\ (RowsOut => GlobalBatches = 1)
  BY <1>1, SizeFacts DEF Placed
<1>3. gb[w] <= GlobalBatches
  <2>1. CASE RowsOut
    BY <1>2, <2>1 DEF Placed
  <2>2. CASE ~RowsOut
    BY <2>2 DEF Placed, Scored, InBatch
  <2> QED BY <2>1, <2>2
<1> QED BY <1>1, <1>2, <1>3

\* A dynamic microbatch fits the token budget and cuts no sample short, and
\* the microbatches cover the shard (batched_data_dict.py 415-454).
THEOREM MicrobatchesFit == Spec => []WithinBudget
<1>1. Placed => WithinBudget
  <2> SUFFICES ASSUME Placed, NEW w \in Workers, at[w] = "forward"
               PROVE  LET mbs == Microbatches(w) IN
                      /\ Uneven \/ \E i \in DOMAIN mbs : mbs[i].to = LocalSize
                      /\ \A i \in DOMAIN mbs :
                           /\ ask.dynamic => (mbs[i].to - mbs[i].from) * mbs[i].len <= Budget
                           /\ \A j \in (mbs[i].from + 1)..mbs[i].to :
                                batch.len[LocalBatch(w)[j]] <= mbs[i].len
    BY DEF WithinBudget
  <2> DEFINE mbs == Microbatches(w)
  <2>1. Wide(w) /\ (~Uneven => Covers(mbs, LocalSize))
    <3>1. Accepted /\ Sent /\ gb[w] \in 1..GlobalBatches
      BY PlacedWorker DEF InBatch
    <3> QED BY <3>1, WorkFacts DEF Placed
  <2>2. ~Uneven => \E i \in DOMAIN mbs : mbs[i].to = LocalSize
    <3> HIDE DEF mbs
    <3> SUFFICES ASSUME Covers(mbs, LocalSize) PROVE \E i \in DOMAIN mbs : mbs[i].to = LocalSize
      BY <2>1
    <3>1. Len(mbs) \in DOMAIN mbs /\ mbs[Len(mbs)].to = LocalSize
      BY DEF Covers
    <3> QED BY <3>1
  <2> QED BY <2>1, <2>2 DEF Wide
<1> QED BY <1>1, PlacedInit, PlacedNext, PTL DEF Spec

-----------------------------------------------------------------------------
(***************************************************************************)
(* A worker keeps the rows of the microbatches behind it (RowsKept).       *)
(***************************************************************************)
LEMMA SameWork ==
  ASSUME held' = held, shards' = shards, NEW v \in Workers, gb'[v] = gb[v]
  PROVE  /\ ShardOf(v)' = ShardOf(v) /\ LocalBatch(v)' = LocalBatch(v)
         /\ Microbatches(v)' = Microbatches(v)
<1>1. ShardOf(v)' = ShardOf(v)
  BY HeldFacts DEF ShardOf
<1> QED BY <1>1, HeldFacts DEF LocalBatch, Microbatches

\* The first n rows of t, and all rows of one microbatch, each with weights x.
FirstRows(t, n, x) == [i \in 1..n |-> <<t[i], x>>]
AllRows(rows, x) == [i \in DOMAIN rows |-> <<rows[i], x>>]

LEMMA RowsAppended ==
  ASSUME NEW S, NEW t \in Seq(S), NEW from \in Nat, NEW to \in Nat, from <= to, to <= Len(t), NEW x,
         NEW rows, SliceIs(rows, t, S, from, to - from)
  PROVE  FirstRows(t, from, x) \o AllRows(rows, x) = FirstRows(t, to, x)
<1> DEFINE a == [i \in 1..from |-> <<t[i], x>>]
           b == [i \in DOMAIN rows |-> <<rows[i], x>>]
           c == [i \in 1..to |-> <<t[i], x>>]
           d == to - from
           P == S \X {x}
<1>1. d \in Nat /\ from + d = to
  OBVIOUS
<1>2. rows \in Seq(S) /\ Len(rows) = d /\ DOMAIN rows = 1..d /\ \A j \in 1..d : rows[j] = t[from + j]
  BY <1>1 DEF SliceIs
<1>3. \A i \in 1..to : t[i] \in S
  BY ElementOfSeq
<1> HIDE DEF d
<1>4. a \in [1..from -> P]
  BY <1>3
<1>5. b \in [1..d -> P]
  <2>1. \A i \in 1..d : rows[i] \in S
    BY <1>2, ElementOfSeq
  <2> QED BY <1>2, <2>1
<1>6. a \in Seq(P) /\ Len(a) = from /\ b \in Seq(P) /\ Len(b) = d
  <2> HIDE DEF a, b, P
  <2> QED BY <1>1, <1>4, <1>5
<1>7. /\ \A i \in 1..from : a[i] = <<t[i], x>>
      /\ \A i \in 1..d : b[i] = <<t[from + i], x>>
  BY <1>2
<1> HIDE DEF a, b, P
<1>8. /\ a \o b \in Seq(P) /\ Len(a \o b) = from + d
      /\ \A i \in 1..from + d : (a \o b)[i] = IF i <= from THEN a[i] ELSE b[i - from]
  BY <1>6, ConcatProperties
<1>9. ASSUME NEW i \in 1..to PROVE (a \o b)[i] = <<t[i], x>>
  <2>1. CASE i <= from
    <3>1. i \in 1..from /\ i \in 1..from + d
      BY <1>1, <2>1
    <3> QED BY <1>7, <1>8, <2>1, <3>1
  <2>2. CASE ~(i <= from)
    <3>1. i - from \in 1..d /\ from + (i - from) = i
      BY <1>1, <2>2
    <3> QED BY <1>1, <1>7, <1>8, <2>2, <3>1
  <2> QED BY <2>1, <2>2
<1>10. a \o b = [i \in 1..to |-> (a \o b)[i]]
  <2> DEFINE s == a \o b
  <2>1. s \in Seq(P) /\ Len(s) = to
    BY <1>1, <1>8
  <2> HIDE DEF s
  <2>2. s = [i \in 1..to |-> s[i]]
    BY <2>1
  <2> QED BY <2>2 DEF s
<1> QED BY <1>9, <1>10 DEF a, b, FirstRows, AllRows

\* A worker's next microbatch follows on the rows behind it.
LEMMA NextMicrobatch ==
  ASSUME Placed, NEW w \in Workers, at[w] \in InBatch \/ (RowsOut /\ at[w] # "idle"), ~Uneven,
         mb[w] \in Nat, mb[w] < Len(Microbatches(w))
  PROVE  /\ LocalBatch(w) \in Seq(1..N) /\ Len(LocalBatch(w)) = LocalSize
         /\ Passed(w) \in Nat /\ Microbatches(w)[mb[w] + 1].from = Passed(w)
         /\ Microbatches(w)[mb[w] + 1].to \in Passed(w)..LocalSize
         /\ SliceIs(Microbatch(w), LocalBatch(w), 1..N, Passed(w),
                    Microbatches(w)[mb[w] + 1].to - Passed(w))
<1> DEFINE mbs == Microbatches(w)
           m == mbs[mb[w] + 1]
           t == LocalBatch(w)
<1>1. ask \in Calls /\ batch \in Batches /\ Accepted /\ Sent /\ gb[w] \in 1..GlobalBatches
  BY PlacedWorker DEF Placed
<1>2. Gets(t, ShardOf(w), gb[w]) /\ Covers(mbs, LocalSize) /\ LocalSize \in Nat
  BY <1>1, WorkFacts, SizeFacts
<1>3. t \in Seq(1..N) /\ Len(t) = LocalSize
  <2> HIDE DEF t
  <2> QED BY <1>2 DEF Gets, SliceIs
<1>4. mbs \in Seq(Microbatch3) /\ mb[w] + 1 \in 1..Len(mbs)
  BY <1>2 DEF Covers
<1> HIDE DEF mbs, t
<1>5. m \in Microbatch3 /\ m.from \in Nat /\ m.to \in Nat /\ m.from <= m.to /\ m.to <= LocalSize
  <2>1. m \in Microbatch3
    BY <1>4, ElementOfSeq
  <2> QED BY <1>2, <1>4, <2>1 DEF Covers, Microbatch3
<1>6. m.from = Passed(w)
  <2>1. CASE mb[w] = 0
    BY <1>2, <2>1 DEF Covers, Passed
  <2>2. CASE mb[w] # 0
    <3>1. mb[w] \in 1..Len(mbs) - 1
      BY <1>4, <2>2
    <3>2. mbs[mb[w] + 1].from = mbs[mb[w]].to
      BY <1>2, <3>1 DEF Covers
    <3> QED BY <2>2, <3>2 DEF Passed, mbs
  <2> QED BY <2>1, <2>2
<1>7. SliceIs(Slice(t, m.from, m.to), t, 1..N, m.from, m.to - m.from)
  <2>1. m.to - m.from \in Nat /\ m.to = m.from + (m.to - m.from)
    BY <1>5
  <2> HIDE DEF m
  <2> QED BY <1>3, <1>5, <2>1, SliceFacts
<1>8. Microbatch(w) = Slice(t, m.from, m.to)
  BY DEF Microbatch, t, mbs
<1> HIDE DEF m
<1>9. m.to \in Passed(w)..LocalSize /\ Passed(w) \in Nat
  BY <1>2, <1>5, <1>6
<1>10. SliceIs(Microbatch(w), t, 1..N, Passed(w), m.to - Passed(w))
  BY <1>6, <1>7, <1>8
<1> QED BY <1>3, <1>6, <1>9, <1>10 DEF m, mbs, t

\* What a step of a worker does to its rows and weights.
RowsMove(w) ==
  /\ loaded' = [loaded EXCEPT ![w] = IF at'[w] \in Scored THEN Asked ELSE "policy"]
  /\ ~RowsOut => mb' \in [Workers -> Nat] /\ out' = out
  /\ RowsOut =>
       \/ at[w] = "called" /\ at'[w] = "forward" /\ mb' = mb /\ out' = out
       \/ /\ at[w] \in {"forward", "backward"} /\ at'[w] = "backward" /\ ~Uneven
          /\ mb[w] < Len(Microbatches(w)) /\ mb' = [mb EXCEPT ![w] = @ + 1]
          /\ out' = [out EXCEPT ![w] = @ \o [i \in DOMAIN Microbatch(w) |->
                                                <<Microbatch(w)[i], Asked>>]]
       \/ /\ at[w] = "rows" \/ (at[w] = "backward" /\ mb[w] = Len(Microbatches(w)))
          /\ at'[w] \in {"rows", "returned"} /\ mb' = mb /\ out' = out
       \/ at'[w] = "raised" /\ mb' = mb /\ out' = out

LEMMA RowsMoves ==
  ASSUME Placed, RowsKept, NEW w \in Workers, Work(w)
  PROVE  RowsMove(w)
<1> USE DEF kept, atWork, Goes
<1>0. /\ ask.call \in {"train", "eval", "logprobs", "reference", "generate"}
      /\ at \in [Workers -> Places] /\ mb \in [Workers -> Nat]
      /\ RowsOut => at[w] \in Scored \cup {"idle", "called", "returned", "raised"}
      /\ loaded = [v \in Workers |-> IF at[v] \in Scored THEN Asked ELSE "policy"]
  BY CallTypes DEF Placed, RowsKept
<1>1. /\ ~RowsOut => Asked = "policy" /\ ask.call \in {"train", "eval"}
      /\ loaded[w] = IF at[w] \in Scored THEN Asked ELSE "policy"
      /\ loaded = [loaded EXCEPT ![w] = loaded[w]]
      /\ ask.call # "reference" => Asked = "policy"
  BY <1>0 DEF RowsOut, Scoring, Asked
<1>2. CASE StartTrain(w)
  <2>1. /\ at[w] = "called" /\ ask.call \in {"train", "eval"} /\ at'[w] = "batch"
        /\ mb' = mb /\ out' = out /\ loaded' = loaded
    BY <1>0, <1>2 DEF StartTrain
  <2>2. ~RowsOut
    BY <2>1 DEF RowsOut, Scoring
  <2>3. loaded[w] = "policy" /\ at'[w] \notin Scored
    BY <1>0, <1>1, <2>1, <2>2 DEF Scored
  <2> HIDE DEF kept, atWork, Goes
  <2> QED BY <1>0, <1>1, <2>1, <2>2, <2>3 DEF RowsMove
<1>3. CASE StartRows(w)
  <2>1. /\ at[w] = "called" /\ ask.call \in {"logprobs", "generate"} /\ at'[w] = "forward"
        /\ mb' = mb /\ out' = out /\ loaded' = loaded
    BY <1>0, <1>3 DEF StartRows
  <2>2. RowsOut
    BY <2>1 DEF RowsOut, Scoring
  <2>3. loaded[w] = Asked /\ at'[w] \in Scored
    <3>1. "called" \notin Scored /\ "forward" \in Scored
      BY DEF Scored
    <3>2. loaded[w] = "policy"
      BY <1>0, <2>1, <3>1
    <3>3. Asked = "policy"
      BY <1>1, <2>1
    <3> QED BY <2>1, <3>1, <3>2, <3>3
  <2> HIDE DEF kept, atWork, Goes
  <2>4. loaded' = [loaded EXCEPT ![w] = IF at'[w] \in Scored THEN Asked ELSE "policy"]
    BY <1>1, <2>1, <2>3
  <2>5. at'[w] = "forward" /\ at[w] = "called" /\ mb' = mb /\ out' = out
    BY <2>1
  <2> QED BY <2>2, <2>4, <2>5 DEF RowsMove
<1>4. CASE SwapReference(w)
  BY <1>0, <1>1, <1>4 DEF SwapReference, RowsMove, RowsOut, Scoring, Scored, Asked
<1>5. CASE NextBatch(w) \/ Normalise(w) \/ SumLosses(w) \/ ReturnLosses(w)
  <2>1. at[w] \in {"batch", "sized", "normalise", "losses"}
    BY <1>5 DEF NextBatch, Normalise, SumLosses, ReturnLosses
  <2>2. ~RowsOut /\ at[w] \notin Scored
    BY <1>0, <2>1 DEF Scored
  <2>3. Asked = "policy" /\ loaded[w] = "policy"
    BY <1>1, <2>2
  <2>4. loaded' = loaded /\ out' = out
    BY <1>5 DEF NextBatch, Normalise, SumLosses, ReturnLosses
  <2>5. mb' \in [Workers -> Nat]
    <3>1. mb' = mb \/ mb' = [mb EXCEPT ![w] = 0]
      BY <1>5 DEF NextBatch, Normalise, SumLosses, ReturnLosses
    <3> QED BY <1>0, <3>1
  <2>6. loaded' = [loaded EXCEPT ![w] = IF at'[w] \in Scored THEN Asked ELSE "policy"]
    BY <1>1, <2>3, <2>4
  <2> QED BY <2>2, <2>4, <2>5, <2>6 DEF RowsMove
<1>6. CASE UnevenRaises(w) \/ EmbeddingRaises(w)
  <2>1. /\ at'[w] = "raised" /\ mb' = mb /\ out' = out
        /\ loaded' = [loaded EXCEPT ![w] = "policy"]
    BY <1>0, <1>6 DEF UnevenRaises, EmbeddingRaises, SwapBack
  <2>2. at'[w] \notin Scored
    BY <2>1 DEF Scored
  <2>3. mb' \in [Workers -> Nat]
    BY <1>0, <2>1
  <2> QED BY <2>1, <2>2, <2>3 DEF RowsMove
<1>7. CASE NextEval(w) \/ DTensorGradNorm(w) \/ FSDP1GradNorm(w) \/ MegatronGradNorm(w)
  BY <1>0, <1>1, <1>7
     DEF NextEval, DTensorGradNorm, FSDP1GradNorm, MegatronGradNorm, Forwarded, RowsMove, RowsOut,
     Scoring, Scored
<1>8. CASE ReturnRows(w)
  <2>1. /\ at'[w] = "returned" /\ mb' = mb /\ out' = out
        /\ loaded' = [loaded EXCEPT ![w] = "policy"]
    BY <1>0, <1>8 DEF ReturnRows, SwapBack
  <2>2. \/ at[w] = "rows"
        \/ at[w] = "backward" /\ mb[w] = Len(Microbatches(w))
        \/ ~RowsOut
    BY <1>8 DEF ReturnRows, Forwarded
  <2>3. at'[w] \notin Scored /\ mb' \in [Workers -> Nat]
    BY <1>0, <2>1 DEF Scored
  <2> QED BY <2>1, <2>2, <2>3 DEF RowsMove
<1>9. CASE \/ DTensorTrainForward(w) \/ DTensorScore(w) \/ FSDP1TrainForward(w)
            \/ FSDP1Score(w) \/ FSDP1Generate(w) \/ MegatronSchedule(w) \/ MegatronScore(w)
  <2>1. /\ at[w] \in {"forward", "backward"} /\ ~Uneven /\ mb[w] < Len(Microbatches(w))
        /\ ThroughModel(w, Microbatch(w)) /\ UNCHANGED <<kept, gb, loaded>>
    BY <1>9 DEF DTensorTrainForward, DTensorScore, FSDP1TrainForward, FSDP1Score, FSDP1Generate,
       MegatronSchedule, MegatronScore, DTensorForward, FSDP1Through, NextForward
  <2>2. at' = [at EXCEPT ![w] = "backward"] /\ mb' = [mb EXCEPT ![w] = @ + 1]
    BY <2>1 DEF ThroughModel
  <2>3. /\ ~RowsOut => out' = out
        /\ RowsOut => out' = [out EXCEPT ![w] = @ \o [i \in DOMAIN Microbatch(w) |->
                                                         <<Microbatch(w)[i], loaded[w]>>]]
    BY <2>1 DEF ThroughModel
  <2>4. RowsOut => loaded[w] = Asked
    BY <1>0, <1>1, <2>1 DEF Scored
  <2>5. at'[w] = "backward" /\ mb' \in [Workers -> Nat]
    BY <1>0, <2>2
  <2>6. loaded' = [loaded EXCEPT ![w] = Asked]
    BY <1>1, <2>1, <2>4 DEF Scored
  <2> QED BY <2>1, <2>2, <2>3, <2>4, <2>5, <2>6 DEF RowsMove, Scored
<1>10. CASE DTensorStep(w) \/ FSDP1Step(w) \/ ShareMetrics(w)
  BY <1>0, <1>1, <1>10 DEF DTensorStep, FSDP1Step, ShareMetrics, RowsMove, Scored
<1>11. CASE MegatronStart(w)
  BY <1>0, <1>1, <1>11 DEF MegatronStart, RowsMove, RowsOut, Scoring, Scored
<1>12. CASE MegatronStep(w) \/ MegatronStepRaises(w)
  BY <1>0, <1>1, <1>12 DEF MegatronStep, MegatronStepRaises, RowsMove, Scored
<1>13. CASE ShareRows(w)
  BY <1>0, <1>1, <1>13 DEF ShareRows, Forwarded, RowsMove, RowsOut, Scoring, Scored
<1> QED BY <1>2, <1>3, <1>4, <1>5, <1>6, <1>7, <1>8, <1>9, <1>10, <1>11, <1>12, <1>13 DEF Work

LEMMA RowsKeptInit == Init => RowsKept
<1> SUFFICES ASSUME Init PROVE RowsKept
  OBVIOUS
<1>1. /\ mb = [w \in Workers |-> 0] /\ out = [w \in Workers |-> << >>] /\ pc = "call"
      /\ loaded = [w \in Workers |-> "policy"] /\ at = [w \in Workers |-> "idle"]
  BY DEF Init
<1> QED BY <1>1 DEF RowsKept, RowsKeptBy, Scored

\* Nothing a worker keeps changes if neither its place nor its rows do.
LEMMA RowsKeptBySame ==
  ASSUME held' = held, shards' = shards, NEW v \in Workers, gb'[v] = gb[v], at'[v] = at[v],
         mb'[v] = mb[v], out'[v] = out[v], RowsKeptBy(v)
  PROVE  RowsKeptBy(v)'
<1>1. LocalBatch(v)' = LocalBatch(v) /\ Microbatches(v)' = Microbatches(v)
      /\ (Uneven' <=> Uneven) /\ ask' = ask
  BY SameWork, HeldFacts
<1>2. Passed(v)' = Passed(v) /\ Asked' = Asked
  BY <1>1 DEF Passed, Asked
<1> QED BY <1>1, <1>2 DEF RowsKeptBy

LEMMA InOrderSame == ASSUME held' = held, out' = out PROVE InOrder' = InOrder
<1>1. Gathered' = Gathered
  BY HeldFacts DEF Gathered, SenderOf
<1> QED BY <1>1, HeldFacts DEF InOrder

\* The rows a worker has after a step are those of the microbatches behind it.
LEMMA RowsKeptByMove ==
  ASSUME Placed, RowsKept, NEW w \in Workers, Work(w), RowsOut
  PROVE  RowsKeptBy(w)'
<1>1. PICK to \in Places : Moves(w, to)
  BY WorkerMoves
<1>2. RowsMove(w)
  BY RowsMoves
<1>3. /\ at' = [at EXCEPT ![w] = to] /\ held' = held /\ shards' = shards /\ gb' = gb
      /\ at[w] # "idle" /\ to # "called" /\ at \in [Workers -> Places]
  BY <1>1 DEF Moves, kept, Placed
<1>4. /\ LocalBatch(w)' = LocalBatch(w) /\ Microbatches(w)' = Microbatches(w)
      /\ (Uneven' <=> Uneven) /\ ask' = ask /\ Asked' = Asked
  BY <1>3, SameWork, HeldFacts DEF Asked
<1>5. RowsKeptBy(w) /\ mb \in [Workers -> Nat] /\ out = [v \in Workers |-> out[v]]
  BY DEF RowsKept
<1>6. at'[w] = to
  BY <1>3
<1>7. CASE at[w] = "called" /\ at'[w] = "forward" /\ mb' = mb /\ out' = out
  <2>1. mb'[w] = 0 /\ out'[w] = << >>
    BY <1>5, <1>7 DEF RowsKeptBy
  <2>2. Passed(w)' = 0
    BY <2>1 DEF Passed
  <2>3. Len(Microbatches(w)) \in Nat
    <3>1. Accepted /\ Sent /\ gb[w] \in 1..GlobalBatches
      BY <1>3, PlacedWorker
    <3>2. Uneven \/ Covers(Microbatches(w), LocalSize)
      BY <3>1, WorkFacts DEF Placed
    <3>3. CASE Uneven
      <4>1. ~ask.dynamic /\ ask.mbs \in Nat \ {0} /\ LocalSize \in Nat
        BY <3>1, <3>3, CallTypes, SizeFacts DEF Uneven, Placed
      <4>2. LocalSize \div ask.mbs \in Nat
        BY <4>1, DivFacts
      <4>3. Microbatches(w) = EvenCuts(LocalSize, ask.mbs, Width)
        BY <4>1 DEF Microbatches
      <4> QED BY <4>2, <4>3 DEF EvenCuts
    <3>4. CASE ~Uneven
      BY <3>2, <3>4 DEF Covers
    <3> QED BY <3>3, <3>4
  <2>4. [i \in 1..0 |-> <<LocalBatch(w)[i], Asked>>] = << >>
    OBVIOUS
  <2> QED BY <1>4, <1>7, <2>1, <2>2, <2>3, <2>4 DEF RowsKeptBy
<1>8. CASE /\ at[w] \in {"forward", "backward"} /\ at'[w] = "backward" /\ ~Uneven
           /\ mb[w] < Len(Microbatches(w)) /\ mb' = [mb EXCEPT ![w] = @ + 1]
           /\ out' = [out EXCEPT ![w] = @ \o [i \in DOMAIN Microbatch(w) |->
                                                 <<Microbatch(w)[i], Asked>>]]
  <2> DEFINE t == LocalBatch(w)
             m == Microbatches(w)[mb[w] + 1]
  <2>1. /\ t \in Seq(1..N) /\ Len(t) = LocalSize /\ Passed(w) \in Nat
        /\ m.to \in Passed(w)..LocalSize
        /\ SliceIs(Microbatch(w), t, 1..N, Passed(w), m.to - Passed(w))
    BY <1>3, <1>5, <1>8, NextMicrobatch
  <2>2. mb'[w] = mb[w] + 1 /\ mb'[w] # 0 /\ mb'[w] \in 0..Len(Microbatches(w))
    <3>1. Len(Microbatches(w)) \in Nat
      <4>1. Accepted /\ Sent /\ gb[w] \in 1..GlobalBatches
        BY <1>3, PlacedWorker
      <4>2. Covers(Microbatches(w), LocalSize)
        BY <1>8, <4>1, WorkFacts DEF Placed
      <4> QED BY <4>2 DEF Covers
    <3> QED BY <1>5, <1>8, <3>1
  <2>3. Passed(w)' = m.to
    BY <1>4, <2>2 DEF Passed
  <2>4. out[w] = [i \in 1..Passed(w) |-> <<t[i], Asked>>]
    BY <1>5, <1>8 DEF RowsKeptBy
  <2>5. out'[w] = out[w] \o [i \in DOMAIN Microbatch(w) |-> <<Microbatch(w)[i], Asked>>]
    BY <1>5, <1>8
  <2> HIDE DEF t, m
  <2>6. m.to \in Nat /\ Passed(w) <= m.to /\ m.to <= Len(t)
    BY <2>1
  <2>7. out'[w] = [i \in 1..m.to |-> <<t[i], Asked>>]
    <3> DEFINE p == Passed(w)
               e == m.to
               x == Asked
               rows == Microbatch(w)
    <3>1. /\ t \in Seq(1..N) /\ p \in Nat /\ e \in Nat /\ p <= e /\ e <= Len(t)
          /\ SliceIs(rows, t, 1..N, p, e - p)
      BY <2>1, <2>6
    <3> HIDE DEF p, e, x, rows
    <3>2. FirstRows(t, p, x) \o AllRows(rows, x) = FirstRows(t, e, x)
      BY <3>1, RowsAppended
    <3> QED BY <2>4, <2>5, <3>2 DEF p, e, x, rows, FirstRows, AllRows
  <2> QED BY <1>4, <1>8, <2>2, <2>3, <2>7 DEF RowsKeptBy, t
<1>9. CASE /\ at[w] = "rows" \/ (at[w] = "backward" /\ mb[w] = Len(Microbatches(w)))
           /\ at'[w] \in {"rows", "returned"} /\ mb' = mb /\ out' = out
  <2>1. Passed(w)' = Passed(w)
    BY <1>4, <1>9 DEF Passed
  <2> QED BY <1>4, <1>5, <1>9, <2>1 DEF RowsKeptBy
<1>10. CASE at'[w] = "raised"
  BY <1>10 DEF RowsKeptBy
<1> QED BY <1>2, <1>7, <1>8, <1>9, <1>10 DEF RowsMove

LEMMA RowsKeptNext == Placed /\ RowsKept /\ [Next]_vars => RowsKept'
<1> SUFFICES ASSUME Placed, RowsKept, [Next]_vars PROVE RowsKept'
  OBVIOUS
<1>0. /\ mb \in [Workers -> Nat] /\ out = [w \in Workers |-> out[w]]
      /\ loaded = [w \in Workers |-> IF at[w] \in Scored THEN Asked ELSE "policy"]
      /\ RowsOut => \A w \in Workers : RowsKeptBy(w)
      /\ pc = "done" /\ RowsOut => result = InOrder /\ \A w \in Workers : at[w] = "returned"
      /\ at \in [Workers -> Places]
      /\ pc \in {"call", "refused"} => \A w \in Workers : at[w] = "idle"
  BY DEF RowsKept, Placed
<1>1. ASSUME Calling, ~Refuse PROVE RowsKept'
  <2>1. /\ pc = "call" /\ pc' = "wait" /\ at' = [w \in Workers |-> "called"] /\ held' = held
        /\ gb' = gb /\ mb' = mb /\ out' = out /\ loaded' = loaded
    BY <1>1 DEF Calling, CallTrain, CallLogprobs, CallReference, CallGenerate, Dispatch, atWork
  <2>2. Workers' = Workers /\ ask' = ask /\ Asked' = Asked /\ (RowsOut' <=> RowsOut)
    BY <2>1, HeldFacts DEF Asked
  <2>3. \A w \in Workers : at[w] = "idle" /\ at'[w] = "called"
    BY <1>0, <2>1
  <2>4. loaded' = [w \in Workers' |-> IF at'[w] \in Scored THEN Asked' ELSE "policy"]
    BY <1>0, <2>1, <2>2, <2>3 DEF Scored
  <2>5. ASSUME RowsOut, NEW w \in Workers PROVE RowsKeptBy(w)'
    BY <1>0, <2>1, <2>3, <2>5 DEF RowsKeptBy
  <2> QED BY <1>0, <2>1, <2>2, <2>4, <2>5 DEF RowsKept
<1>2. ASSUME \/ Refuse \/ Gathering \/ UNCHANGED vars PROVE RowsKept'
  <2>1. /\ held' = held /\ shards' = shards /\ at' = at /\ gb' = gb /\ mb' = mb /\ out' = out
        /\ loaded' = loaded
    BY <1>2 DEF Refuse, Gathering, CollectTrain, CollectRows, CollectRaises, atWork, vars, held
  <2>2. Workers' = Workers /\ ask' = ask /\ Asked' = Asked /\ (RowsOut' <=> RowsOut)
        /\ InOrder' = InOrder
    BY <2>1, HeldFacts, InOrderSame DEF Asked
  <2>3. ASSUME RowsOut, NEW w \in Workers PROVE RowsKeptBy(w)'
    BY <1>0, <2>1, <2>3, RowsKeptBySame
  <2>4. pc' = "done" /\ RowsOut => result' = InOrder /\ \A w \in Workers : at[w] = "returned"
    BY <1>0, <1>2 DEF Refuse, Gathering, CollectTrain, CollectRows, CollectRaises, AllReturned,
       atWork, vars
  <2>5. loaded' = [w \in Workers' |-> IF at'[w] \in Scored THEN Asked' ELSE "policy"]
    BY <1>0, <2>1, <2>2
  <2> QED BY <1>0, <2>1, <2>2, <2>3, <2>4, <2>5 DEF RowsKept
<1>3. ASSUME NEW w \in Workers, Work(w) PROVE RowsKept'
  <2>1. PICK to \in Places : Moves(w, to)
    BY <1>3, WorkerMoves
  <2>2. RowsMove(w)
    BY <1>3, RowsMoves
  <2>3. /\ at' = [at EXCEPT ![w] = to] /\ held' = held /\ shards' = shards /\ pc' = pc
        /\ at[w] \notin {"idle", "returned"} /\ (RowsOut => gb' = gb)
    BY <2>1 DEF Moves, kept
  <2>4. Workers' = Workers /\ ask' = ask /\ Asked' = Asked /\ (RowsOut' <=> RowsOut)
    BY <2>3, HeldFacts DEF Asked
  <2>5. mb' \in [Workers -> Nat] /\ out' = [v \in Workers |-> out'[v]]
    BY <1>0, <2>2 DEF RowsMove
  <2>6. loaded' = [v \in Workers' |-> IF at'[v] \in Scored THEN Asked' ELSE "policy"]
    <3>1. loaded' = [loaded EXCEPT ![w] = IF at'[w] \in Scored THEN Asked ELSE "policy"]
      BY <2>2 DEF RowsMove
    <3>2. \A v \in Workers : v # w => at'[v] = at[v]
      BY <1>0, <2>3
    <3> QED BY <1>0, <2>4, <3>1, <3>2
  <2>7. ASSUME RowsOut, NEW v \in Workers PROVE RowsKeptBy(v)'
    <3>1. CASE v = w
      BY <1>3, <2>7, <3>1, RowsKeptByMove
    <3>2. CASE v # w
      <4>1. at'[v] = at[v] /\ gb'[v] = gb[v]
        BY <1>0, <2>3, <2>7, <3>2
      <4>2. mb'[v] = mb[v] /\ out'[v] = out[v]
        BY <1>0, <2>2, <2>7, <3>2 DEF RowsMove
      <4> QED BY <1>0, <2>3, <2>7, <4>1, <4>2, RowsKeptBySame
    <3> QED BY <3>1, <3>2
  <2>8. ~(pc' = "done" /\ RowsOut')
    BY <1>0, <1>3, <2>3, <2>4
  <2> QED BY <2>4, <2>5, <2>6, <2>7, <2>8 DEF RowsKept
<1> QED BY <1>1, <1>2, <1>3 DEF Next, Calling

\* All rows of a worker that has returned, in the order of the shards.
LEMMA Returned ==
  ASSUME Placed, RowsKept, RowsOut, NEW k \in 1..Shards, at[SenderOf(k)] = "returned"
  PROVE  /\ out[SenderOf(k)] \in Seq((1..N) \X {Asked}) /\ Len(out[SenderOf(k)]) = LocalSize
         /\ \A j \in 1..LocalSize :
              out[SenderOf(k)][j] = <<Order[(k - 1) * LocalSize + j], Asked>>
<1> DEFINE w == SenderOf(k)
           t == LocalBatch(w)
           mbs == Microbatches(w)
<1>1. w \in Workers /\ ShardOf(w) = k /\ ask \in Calls /\ batch \in Batches
  BY ShardOfFacts DEF Placed
<1>2. /\ mb[w] = Len(mbs) /\ out[w] = [i \in 1..Passed(w) |-> <<t[i], Asked>>] /\ ~Uneven
      /\ gb[w] = 1
  <2> HIDE DEF w
  <2> QED BY <1>1 DEF RowsKept, RowsKeptBy, Placed, w
<1> HIDE DEF w
<1>3. at[w] = "returned"
  BY DEF w
<1>4. Accepted /\ Sent /\ gb[w] \in 1..GlobalBatches
  BY <1>1, <1>3, PlacedWorker
<1>5. Gets(t, k, 1) /\ Covers(mbs, LocalSize)
  BY <1>1, <1>2, <1>4, WorkFacts
<1>6. LocalSize \in Nat /\ BatchSize \in Nat
  BY <1>1, <1>4, SizeFacts, SizeTypes
<1> HIDE DEF t, mbs
<1>7. Passed(w) = LocalSize
  <2>1. mb[w] # 0 /\ mbs[mb[w]].to = LocalSize
    BY <1>2, <1>5 DEF Covers
  <2> QED BY <2>1 DEF Passed, mbs
<1>8. ASSUME NEW j \in 1..LocalSize
      PROVE  t[j] = Order[(k - 1) * LocalSize + j] /\ t[j] \in 1..N
  <2>1. t \in Seq(1..N) /\ Len(t) = LocalSize
    BY <1>5 DEF Gets, SliceIs
  <2>2. t[j] = Order[(1 - 1) * BatchSize + (k - 1) * LocalSize + j]
    BY <1>5 DEF Gets
  <2>3. (1 - 1) * BatchSize + (k - 1) * LocalSize + j = (k - 1) * LocalSize + j
    <3> DEFINE u == (k - 1) * LocalSize
    <3>1. u \in Int /\ (1 - 1) * BatchSize = 0
      BY <1>1, <1>6, SizeTypes
    <3> HIDE DEF u
    <3>2. 0 + u + j = u + j
      BY <3>1
    <3> QED BY <3>1, <3>2 DEF u
  <2> QED BY <2>1, <2>2, <2>3, ElementOfSeq
<1>9. out[w] = [i \in 1..LocalSize |-> <<t[i], Asked>>]
  BY <1>2, <1>7
<1>10. out[w] \in [1..LocalSize -> (1..N) \X {Asked}]
  BY <1>8, <1>9
<1>11. out[w] \in Seq((1..N) \X {Asked}) /\ Len(out[w]) = LocalSize
  BY <1>6, <1>10
<1>12. \A j \in 1..LocalSize : out[w][j] = <<Order[(k - 1) * LocalSize + j], Asked>>
  BY <1>8, <1>9
<1> QED BY <1>11, <1>12 DEF w

\* The rows the driver gathers are those of the order it has sent.
LEMMA GatheredFacts ==
  ASSUME Placed, RowsKept, RowsOut, Accepted, \A w \in Workers : at[w] = "returned"
  PROVE  Gathered = [i \in 1..N |-> <<Order[i], Asked>>]
<1> DEFINE P == (1..N) \X {Asked}
           fs == [k \in 1..Shards |-> out[SenderOf(k)]]
<1>1. ask \in Calls /\ batch \in Batches
  BY DEF Placed
<1>2. /\ Shards \in Nat \ {0} /\ LocalSize \in Nat \ {0} /\ N = LocalSize * Shards
      /\ N \in Nat
  BY <1>1, SizeTypes, SizeFacts, CallTypes DEF Product
<1>3. N = Shards * LocalSize
  BY <1>2
<1>4. ASSUME NEW k \in 1..Shards
      PROVE  /\ fs[k] \in Seq(P) /\ Len(fs[k]) = LocalSize
             /\ \A j \in 1..LocalSize : fs[k][j] = <<Order[(k - 1) * LocalSize + j], Asked>>
  <2>1. at[SenderOf(k)] = "returned"
    BY <1>1, ShardOfFacts
  <2>2. fs[k] = out[SenderOf(k)]
    OBVIOUS
  <2> HIDE DEF fs
  <2> QED BY <2>1, <2>2, Returned
<1>5. Len(fs) = Shards
  BY <1>2
<1>6. Gathered = FlattenSeq(fs)
  BY DEF Gathered
<1> HIDE DEF fs, P
<1>7. Blocks(P, Gathered, fs, Shards, LocalSize)
  BY <1>2, <1>4, <1>5, <1>6, FlattenBlocks
<1>8. Gathered \in Seq(P) /\ Len(Gathered) = N
  BY <1>3, <1>7 DEF Blocks
<1>9. ASSUME NEW i \in 1..N PROVE Gathered[i] = <<Order[i], Asked>>
  <2>1. PICK k \in 1..Shards, j \in 1..LocalSize : i = (k - 1) * LocalSize + j
    <3>1. i \in 1..Shards * LocalSize
      BY <1>3
    <3>2. Shards \in Nat /\ LocalSize \in Nat
      BY <1>2
    <3> QED BY <3>1, <3>2, PlaceBlock
  <2>2. Gathered[(k - 1) * LocalSize + j] = fs[k][j]
    BY <1>7 DEF Blocks
  <2>3. fs[k][j] = <<Order[(k - 1) * LocalSize + j], Asked>>
    BY <1>4
  <2> QED BY <2>1, <2>2, <2>3, Zenon
<1>10. Gathered = [i \in 1..N |-> Gathered[i]]
  <2> DEFINE s == Gathered
  <2>1. s \in Seq(P) /\ Len(s) = N
    BY <1>8
  <2> HIDE DEF s
  <2>2. s = [i \in 1..N |-> s[i]]
    BY <2>1
  <2> QED BY <2>2 DEF s
<1> QED BY <1>9, <1>10, Zenon

\* get_logprobs, get_reference_policy_logprobs and generate return row i for
\* sample i, computed with the weights asked for, and leave the policy's
\* weights in place (lm_policy.py 180-303).
THEOREM RowsComeBack == Spec => []RowsInCallersOrder
<1>1. Placed /\ RowsKept => RowsInCallersOrder
  <2> SUFFICES ASSUME Placed, RowsKept PROVE RowsInCallersOrder
    OBVIOUS
  <2>1. ASSUME NEW w \in Workers, at[w] \in {"returned", "raised"} PROVE loaded[w] = "policy"
    BY <2>1 DEF RowsKept, Scored
  <2>2. ASSUME pc = "done", RowsOut PROVE result = [i \in 1..N |-> <<i, Asked>>]
    <3>1. result = InOrder /\ \A w \in Workers : at[w] = "returned"
      BY <2>2 DEF RowsKept
    <3>2. ask \in Calls /\ batch \in Batches /\ Accepted
      BY <2>2 DEF Placed
    <3>3. Gathered = [i \in 1..N |-> <<Order[i], Asked>>]
      BY <2>2, <3>1, <3>2, GatheredFacts
    <3>4. CASE ~ask.dynamic
      <4>1. Order = [i \in 1..N |-> i] /\ InOrder = Gathered
        BY <3>4 DEF Order, InOrder
      <4> QED BY <3>1, <3>3, <4>1
    <3>5. CASE ask.dynamic
      <4>1. InOrder = Reorder(Gathered, Order)
        BY <3>5 DEF InOrder
      <4>2. DOMAIN Gathered = 1..N
        BY <3>3
      <4>3. BatchSize = N /\ GlobalBatches = 1 /\ N \in Nat \ {0}
        BY <2>2, <3>2, SizeFacts, CallTypes
      <4>4. Dealt(Order, 1, N)
        BY <3>2, <4>3, OrderFacts
      <4>5. DOMAIN Order = 1..N
        <5>1. Order \in Seq(1..1 * N) /\ Len(Order) = 1 * N
          BY <4>4 DEF Dealt
        <5> DEFINE o == Order
        <5>2. o \in Seq(1..1 * N) /\ Len(o) = N
          BY <4>3, <5>1
        <5> HIDE DEF o
        <5>3. DOMAIN o = 1..N
          BY <5>2
        <5> QED BY <5>3 DEF o
      <4>6. ASSUME NEW i \in 1..N PROVE \E j \in 1..N : Order[j] = i
        <5>1. i \in ChunkOf(1, N) /\ 1 \in 1..1
          BY <4>3 DEF ChunkOf
        <5>2. PICK j \in 1..N : Order[(1 - 1) * N + j] = i
          BY <4>4, <5>1 DEF Dealt
        <5>3. (1 - 1) * N + j = j
          BY <4>3
        <5> QED BY <5>2, <5>3
      <4>7. ASSUME NEW i \in 1..N
            PROVE  Gathered[CHOOSE j \in 1..N : Order[j] = i] = <<i, Asked>>
        <5> DEFINE j == CHOOSE x \in 1..N : Order[x] = i
        <5>1. j \in 1..N /\ Order[j] = i
          BY <4>6
        <5> HIDE DEF j
        <5>2. Gathered[j] = <<i, Asked>>
          BY <3>3, <5>1
        <5> QED BY <5>2 DEF j
      <4>8. Reorder(Gathered, Order)
              = [i \in 1..N |-> Gathered[CHOOSE j \in 1..N : Order[j] = i]]
        BY <4>2, <4>5 DEF Reorder
      <4> DEFINE back(i) == Gathered[CHOOSE j \in 1..N : Order[j] = i]
      <4>9. [i \in 1..N |-> back(i)] = [i \in 1..N |-> <<i, Asked>>]
        <5>1. \A i \in 1..N : back(i) = <<i, Asked>>
          BY <4>7
        <5> HIDE DEF back
        <5> QED BY <5>1, Zenon
      <4>10. InOrder = [i \in 1..N |-> <<i, Asked>>]
        BY <4>1, <4>8, <4>9, Zenon
      <4> QED BY <3>1, <4>10, Zenon
    <3> QED BY <3>4, <3>5
  <2> QED BY <2>1, <2>2 DEF RowsInCallersOrder, Asked
<1> QED BY <1>1, PlacedInit, PlacedNext, RowsKeptInit, RowsKeptNext, PTL DEF Spec

-----------------------------------------------------------------------------
(***************************************************************************)
(* The frames a worker keeps of a recording are those of a sample of the   *)
(* batch it is at (FramesKept).                                            *)
(***************************************************************************)
LEMMA InChunk ==
  ASSUME NEW g \in Nat \ {0}, NEW b \in Nat \ {0}, NEW s \in ChunkOf(g, b)
  PROVE  (s - 1) \div b = g - 1
<1> DEFINE q == g - 1
           u == q * b
           r == s - 1 - u
<1>1. q \in Nat /\ g = q + 1 /\ u \in Nat /\ g * b = u + b
  <2>1. q \in Nat /\ g = q + 1
    OBVIOUS
  <2> HIDE DEF q
  <2> QED BY <2>1, MulStep
<1>2. s \in (u + 1)..(u + b)
  BY <1>1 DEF ChunkOf
<1> HIDE DEF u
<1>3. r \in 0..b - 1 /\ s - 1 = u + r
  BY <1>1, <1>2
<1> HIDE DEF q, r
<1>4. (q * b + r) \div b = q
  BY <1>1, <1>3, DivBlock
<1> QED BY <1>3, <1>4 DEF u, q

\* The samples of a worker's next microbatch.
LEMMA MicrobatchRows ==
  ASSUME Placed, NEW w \in Workers, NextForward(w), mb[w] \in Nat
  PROVE  /\ Microbatch(w) \in Seq(1..N)
         /\ \A s \in Range(Microbatch(w)) : s \in Samples /\ InScope(w, s)
<1> DEFINE t == LocalBatch(w)
           rows == Microbatch(w)
           m == Microbatches(w)[mb[w] + 1]
<1>1. at[w] \in InBatch /\ ~Uneven /\ mb[w] < Len(Microbatches(w))
  BY DEF NextForward, InBatch
<1>2. /\ t \in Seq(1..N) /\ Len(t) = LocalSize /\ Passed(w) \in Nat
      /\ m.to \in Passed(w)..LocalSize /\ SliceIs(rows, t, 1..N, Passed(w), m.to - Passed(w))
  BY <1>1, NextMicrobatch
<1>3. /\ ask \in Calls /\ batch \in Batches /\ Accepted /\ Sent /\ gb[w] \in 1..GlobalBatches
      /\ LocalSize \in Nat
  <2>1. ask \in Calls /\ batch \in Batches /\ Accepted /\ Sent /\ gb[w] \in 1..GlobalBatches
    BY <1>1, PlacedWorker DEF Placed
  <2> QED BY <2>1, SizeFacts
<1>4. Gets(t, ShardOf(w), gb[w])
  BY <1>3, WorkFacts
<1>5. Samples = 1..N /\ ask.gbs \in Nat \ {0} /\ gb[w] \in Nat \ {0}
  BY <1>3, CallTypes DEF Placed
<1> HIDE DEF t, rows, m
<1>6. rows \in Seq(1..N) /\ Len(rows) = m.to - Passed(w)
  BY <1>2 DEF SliceIs
<1>7. ASSUME NEW s \in Range(rows) PROVE s \in 1..N /\ InScope(w, s)
  <2>1. PICK i \in 1..Len(rows) : rows[i] = s
    BY <1>6 DEF Range
  <2>2. i \in 1..m.to - Passed(w) /\ Passed(w) + i \in 1..LocalSize
    BY <1>2, <1>3, <1>6
  <2>3. s = t[Passed(w) + i]
    BY <1>2, <2>1, <2>2 DEF SliceIs
  <2>4. s \in ChunkOf(gb[w], BatchSize)
    BY <1>4, <2>2, <2>3 DEF Gets
  <2>5. s \in 1..N
    BY <1>6, <2>1, ElementOfSeq
  <2>6. ~RowsOut => (s - 1) \div ask.gbs = gb[w] - 1
    BY <1>5, <2>4, InChunk DEF BatchSize
  <2> QED BY <2>5, <2>6 DEF InScope
<1> QED BY <1>5, <1>6, <1>7 DEF rows

\* The frames of a recording in a microbatch are those of a sample that has it.
LEMMA FramesOf ==
  ASSUME Placed, FramesKept, NEW w \in Workers, NextForward(w), mb[w] \in Nat,
         NEW r \in HeardIn(Microbatch(w))
  PROVE  /\ r \in Recordings /\ Frames(w, Microbatch(w), r) \in Nat
         /\ \E v \in Samples : /\ batch.rec[v] = r /\ InScope(w, v)
                               /\ batch.audio[v] = Frames(w, Microbatch(w), r)
<1> DEFINE rows == Microbatch(w)
           I == {i \in DOMAIN rows : batch.rec[rows[i]] = r}
<1>1. /\ rows \in Seq(1..N) /\ \A s \in Range(rows) : s \in Samples /\ InScope(w, s)
  BY MicrobatchRows
<1>2. /\ batch.audio \in Seq(Nat) /\ Len(batch.audio) = N /\ Samples = 1..N
  BY CallTypes DEF Placed
<1> HIDE DEF rows
<1>3. \A i \in DOMAIN rows : rows[i] \in Range(rows)
  BY DEF Range
<1>4. PICK s \in Range(rows) : r = batch.rec[s]
  BY DEF HeardIn, rows
<1>5. r \in Recordings
  BY <1>1, <1>4 DEF Recordings
<1>6. CASE cache[w][r] # 0
  <2>1. Frames(w, rows, r) = cache[w][r]
    BY <1>6 DEF Frames
  <2>2. at[w] \in {"forward", "backward"} /\ FramesKeptBy(w)
    BY DEF NextForward, FramesKept
  <2>3. \E v \in Samples : batch.rec[v] = r /\ batch.audio[v] = cache[w][r] /\ InScope(w, v)
    BY <1>5, <1>6, <2>2 DEF FramesKeptBy
  <2>4. cache[w][r] \in Nat
    BY <1>5 DEF FramesKept
  <2> QED BY <1>5, <2>1, <2>3, <2>4 DEF rows
<1>7. CASE cache[w][r] = 0
  <2>1. Frames(w, rows, r) = batch.audio[rows[Min(I)]]
    BY <1>7 DEF Frames
  <2>2. I \in SUBSET Nat /\ I # {}
    <3>1. DOMAIN rows = 1..Len(rows)
      BY <1>1
    <3>2. PICK i \in DOMAIN rows : rows[i] = s
      BY DEF Range
    <3>3. i \in I
      BY <1>4, <3>2
    <3> QED BY <3>1, <3>3
  <2>3. Min(I) \in I
    <3> HIDE DEF I
    <3>1. \E x \in I : \A y \in I : x <= y
      BY <2>2, LeastNatural
    <3> QED BY <3>1 DEF Min
  <2>4. rows[Min(I)] \in Range(rows) /\ batch.rec[rows[Min(I)]] = r
    BY <1>3, <2>3
  <2> DEFINE v == rows[Min(I)]
  <2> HIDE DEF v
  <2>5. v \in Samples /\ InScope(w, v) /\ batch.rec[v] = r /\ batch.audio[v] = Frames(w, rows, r)
    BY <1>1, <2>1, <2>4 DEF v
  <2>6. batch.audio[v] \in Nat
    BY <1>2, <2>5, ElementOfSeq
  <2> QED BY <1>5, <2>5, <2>6 DEF rows
<1> QED BY <1>6, <1>7

\* FramesKept, one worker at a time.
HeardFor(w) ==
  \A s \in Samples : heard[w][s] \notin {0, batch.audio[s]} => Shared(w, s, FALSE)
RaisedFor(w) ==
  at[w] = "raised" =>
    \/ Uneven
    \/ ask.worker = "megatron" /\ 1 \in ask.overflow /\ applied[w] = << >>
    \/ ask.worker = "dtensor" /\ \E s \in Samples : Shared(w, s, TRUE)
KeptFor(w) == FramesKeptBy(w) /\ HeardFor(w) /\ RaisedFor(w)

LEMMA KeptForAll ==
  FramesKept <=> /\ cache \in [Workers -> [Recordings -> Nat]]
                 /\ heard \in [Workers -> [Samples -> Nat]]
                 /\ \A w \in Workers : KeptFor(w)
BY DEF FramesKept, KeptFor, FailsForCause, HeardFor, RaisedFor

\* Updates are appended to lists.
Updated == \E S : applied \in [Workers -> Seq(S)]

\* What sharing is does not change.
LEMMA SharedSame ==
  ASSUME held' = held
  PROVE  \A v, s : /\ (Shared(v, s, TRUE)' <=> Shared(v, s, TRUE))
                  /\ (Shared(v, s, FALSE)' <=> Shared(v, s, FALSE))
BY HeldFacts DEF Shared

LEMMA KeptForSame ==
  ASSUME held' = held, NEW v \in Workers, gb'[v] = gb[v], at'[v] = at[v], cache'[v] = cache[v],
         heard'[v] = heard[v], applied'[v] = applied[v], KeptFor(v)
  PROVE  KeptFor(v)'
<1>1. /\ ask' = ask /\ batch' = batch /\ Samples' = Samples /\ Recordings' = Recordings
      /\ (RowsOut' <=> RowsOut) /\ (Uneven' <=> Uneven)
  BY HeldFacts
<1>2. \A u : InScope(v, u)' <=> InScope(v, u)
  BY <1>1 DEF InScope
<1>3. FramesKeptBy(v)'
  BY <1>1, <1>2 DEF FramesKeptBy, KeptFor
<1>4. HeardFor(v)'
  BY <1>1, SharedSame DEF HeardFor, KeptFor
<1>5. RaisedFor(v)'
  BY <1>1, SharedSame DEF RaisedFor, KeptFor
<1> QED BY <1>3, <1>4, <1>5 DEF KeptFor

\* A step that neither hears nor updates nor raises.
Quiet(w) ==
  /\ held' = held /\ cache' = cache /\ heard' = heard /\ applied' = applied
  /\ at'[w] # "raised"
  /\ at'[w] \in {"idle", "called", "normalise", "forward", "backward"} =>
       (at[w] \in {"idle", "called", "normalise", "forward", "backward"} /\ gb'[w] = gb[w])
  /\ at'[w] = "share" => at[w] = "share"
  /\ ask.worker = "megatron" /\ gb'[w] # gb[w] => at[w] = "share"

LEMMA QuietKeeps ==
  ASSUME NEW w \in Workers, Quiet(w), KeptFor(w)
  PROVE  KeptFor(w)'
<1>1. /\ ask' = ask /\ batch' = batch /\ Samples' = Samples /\ Recordings' = Recordings
      /\ (RowsOut' <=> RowsOut)
  BY HeldFacts DEF Quiet
<1>2. FramesKeptBy(w)'
  <2>1. ASSUME at'[w] \in {"idle", "called", "normalise", "forward", "backward"},
               NEW r \in Recordings, cache'[w][r] # 0
        PROVE  \E v \in Samples : batch.rec[v] = r /\ batch.audio[v] = cache'[w][r] /\ InScope(w, v)'
    <3>1. /\ at[w] \in {"idle", "called", "normalise", "forward", "backward"}
          /\ gb'[w] = gb[w] /\ cache' = cache
      BY <2>1 DEF Quiet
    <3>2. PICK v \in Samples : batch.rec[v] = r /\ batch.audio[v] = cache[w][r] /\ InScope(w, v)
      BY <2>1, <3>1 DEF KeptFor, FramesKeptBy
    <3>3. InScope(w, v)'
      BY <1>1, <3>1, <3>2 DEF InScope
    <3> QED BY <3>1, <3>2, <3>3
  <2>2. ask.worker = "megatron" /\ ~RowsOut /\ (gb'[w] > 1 \/ at'[w] = "share")
          /\ applied'[w] = << >> => 1 \in ask.overflow
    BY DEF Quiet, KeptFor, FramesKeptBy
  <2> QED BY <1>1, <2>1, <2>2 DEF FramesKeptBy
<1>3. HeardFor(w)'
  BY <1>1, SharedSame DEF HeardFor, KeptFor, Quiet
<1>4. RaisedFor(w)'
  BY DEF RaisedFor, Quiet
<1> QED BY <1>2, <1>3, <1>4 DEF KeptFor

LEMMA QuietSteps ==
  ASSUME NEW w \in Workers, at \in [Workers -> Places], gb \in [Workers -> Nat \ {0}],
         \/ StartTrain(w) \/ StartRows(w) \/ SwapReference(w) \/ Normalise(w) \/ NextEval(w)
         \/ SumLosses(w) \/ ReturnLosses(w) \/ ReturnRows(w) \/ DTensorGradNorm(w)
         \/ FSDP1TrainForward(w) \/ FSDP1Score(w) \/ FSDP1Generate(w) \/ FSDP1GradNorm(w)
         \/ MegatronStart(w) \/ MegatronSchedule(w) \/ MegatronGradNorm(w) \/ ShareMetrics(w)
         \/ MegatronScore(w) \/ ShareRows(w)
  PROVE  Quiet(w)
<1> USE DEF kept, atWork, Goes, held
<1>1. CASE StartTrain(w) \/ StartRows(w) \/ SwapReference(w) \/ Normalise(w) \/ NextEval(w)
  BY <1>1 DEF StartTrain, StartRows, SwapReference, Normalise, NextEval, Quiet
<1>2. CASE SumLosses(w) \/ ReturnLosses(w) \/ ReturnRows(w) \/ DTensorGradNorm(w)
  BY <1>2 DEF SumLosses, ReturnLosses, ReturnRows, DTensorGradNorm, Quiet
<1>3. CASE FSDP1TrainForward(w) \/ FSDP1Score(w) \/ FSDP1Generate(w) \/ MegatronSchedule(w)
             \/ MegatronScore(w)
  BY <1>3 DEF FSDP1TrainForward, FSDP1Score, FSDP1Generate, MegatronSchedule, MegatronScore,
     FSDP1Through, ThroughModel, NextForward, Quiet
<1>4. CASE FSDP1GradNorm(w) \/ MegatronStart(w) \/ MegatronGradNorm(w) \/ ShareMetrics(w)
             \/ ShareRows(w)
  BY <1>4 DEF FSDP1GradNorm, MegatronStart, MegatronGradNorm, ShareMetrics, ShareRows, Quiet
<1> QED BY <1>1, <1>2, <1>3, <1>4

\* The steps after which a worker has raised.
LEMMA RaisingKeeps ==
  ASSUME Placed, FramesKept, NEW w \in Workers, mb[w] \in Nat,
         UnevenRaises(w) \/ EmbeddingRaises(w) \/ MegatronStepRaises(w)
  PROVE  KeptFor(w)'
<1> USE DEF kept, atWork, Goes, held
<1>0. /\ at \in [Workers -> Places] /\ gb \in [Workers -> Nat \ {0}] /\ KeptFor(w)
  BY KeptForAll DEF Placed
<1>1. /\ held' = held /\ at'[w] = "raised" /\ gb' = gb /\ heard' = heard /\ applied' = applied
  BY <1>0 DEF UnevenRaises, EmbeddingRaises, MegatronStepRaises
<1>2. /\ ask' = ask /\ batch' = batch /\ Samples' = Samples /\ (RowsOut' <=> RowsOut)
      /\ (Uneven' <=> Uneven)
  BY <1>1, HeldFacts
<1>3. HeardFor(w)'
  BY <1>0, <1>1, <1>2, SharedSame DEF HeardFor, KeptFor
<1>4. FramesKeptBy(w)'
  BY <1>0, <1>1, <1>2 DEF FramesKeptBy, KeptFor
<1>5. \/ Uneven
      \/ ask.worker = "megatron" /\ 1 \in ask.overflow /\ applied[w] = << >>
      \/ ask.worker = "dtensor" /\ \E s \in Samples : Shared(w, s, TRUE)
  <2>1. CASE UnevenRaises(w)
    BY <2>1 DEF UnevenRaises
  <2>2. CASE MegatronStepRaises(w)
    <3>1. ask.worker = "megatron" /\ gb[w] \in ask.overflow /\ applied[w] = << >> /\ ~RowsOut
      <4>1. at[w] = "step"
        BY <2>2 DEF MegatronStepRaises
      <4>2. ~RowsOut
        BY <4>1 DEF Placed, Scored
      <4> QED BY <2>2, <4>2 DEF MegatronStepRaises, Overflowed
    <3>2. CASE gb[w] > 1
      BY <1>0, <3>1, <3>2 DEF KeptFor, FramesKeptBy
    <3>3. CASE ~(gb[w] > 1)
      <4>1. gb[w] = 1
        BY <1>0, <3>3
      <4> QED BY <3>1, <4>1
    <3> QED BY <3>2, <3>3
  <2>3. CASE EmbeddingRaises(w)
    <3> DEFINE rows == Microbatch(w)
    <3>1. ask.worker = "dtensor" /\ NextForward(w) /\ ~Embeds(w, rows)
      BY <2>3 DEF EmbeddingRaises
    <3>2. \A s \in Range(rows) : s \in Samples /\ InScope(w, s)
      BY <3>1, MicrobatchRows
    <3>3. PICK s \in Range(rows) : ~(Frames(w, rows, batch.rec[s]) <= batch.audio[s])
      BY <3>1 DEF Embeds
    <3>4. batch.rec[s] \in HeardIn(rows)
      BY DEF HeardIn
    <3>5. PICK v \in Samples : /\ batch.rec[v] = batch.rec[s] /\ InScope(w, v)
                              /\ batch.audio[v] = Frames(w, rows, batch.rec[s])
      BY <3>1, <3>4, FramesOf
    <3>6. s \in Samples /\ InScope(w, s)
      BY <3>2
    <3> HIDE DEF rows
    <3>7. batch.audio[v] \in Nat /\ batch.audio[s] \in Nat
      <4>1. batch.audio \in Seq(Nat) /\ Len(batch.audio) = N /\ Samples = 1..N
        BY CallTypes DEF Placed
      <4> QED BY <3>6, <4>1, ElementOfSeq
    <3>8. batch.audio[v] > batch.audio[s] /\ v # s
      BY <3>3, <3>5, <3>7
    <3>9. ~RowsOut => (v - 1) \div ask.gbs = (s - 1) \div ask.gbs
      BY <3>5, <3>6 DEF InScope
    <3>10. Shared(w, s, TRUE)
      BY <3>5, <3>8, <3>9 DEF Shared
    <3> QED BY <3>1, <3>6, <3>10
  <2> QED BY <2>1, <2>2, <2>3
<1>6. RaisedFor(w)'
  BY <1>1, <1>2, <1>5, SharedSame DEF RaisedFor
<1> QED BY <1>3, <1>4, <1>6 DEF KeptFor

\* The steps that update the weights, and the start of a global batch.
LEMMA UpdatingKeeps ==
  ASSUME Placed, FramesKept, Updated, NEW w \in Workers,
         NextBatch(w) \/ DTensorStep(w) \/ FSDP1Step(w) \/ MegatronStep(w)
  PROVE  KeptFor(w)'
<1> USE DEF kept, atWork, Goes, held
<1>0. /\ at \in [Workers -> Places] /\ gb \in [Workers -> Nat \ {0}] /\ KeptFor(w)
      /\ cache \in [Workers -> [Recordings -> Nat]]
  BY KeptForAll DEF Placed
<1>1. held' = held /\ heard' = heard /\ at'[w] \in {"normalise", "batch", "share"}
  BY <1>0 DEF NextBatch, DTensorStep, FSDP1Step, MegatronStep
<1>2. /\ ask' = ask /\ batch' = batch /\ Samples' = Samples /\ Recordings' = Recordings
      /\ (RowsOut' <=> RowsOut)
  BY <1>1, HeldFacts
<1>3. HeardFor(w)' /\ RaisedFor(w)'
  BY <1>0, <1>1, <1>2, SharedSame DEF HeardFor, RaisedFor, KeptFor
<1>4. CASE NextBatch(w)
  <2>1. \A r \in Recordings : cache'[w][r] = 0
    BY <1>0, <1>4 DEF NextBatch, ClearCache
  <2>2. applied' = applied /\ gb' = gb /\ at'[w] = "normalise"
    BY <1>0, <1>4 DEF NextBatch
  <2> QED BY <1>0, <1>2, <1>3, <2>1, <2>2 DEF FramesKeptBy, KeptFor
<1>5. CASE DTensorStep(w) \/ FSDP1Step(w)
  <2>1. ask.worker # "megatron" /\ at'[w] = "batch"
    BY <1>0, <1>5 DEF DTensorStep, FSDP1Step
  <2> QED BY <1>2, <1>3, <2>1 DEF FramesKeptBy, KeptFor
<1>6. CASE MegatronStep(w)
  <2>1. /\ gb' = gb /\ at'[w] = "share"
        /\ applied' = IF Overflowed(w) THEN applied
                      ELSE [applied EXCEPT ![w] = Append(@, Summed(w))]
    BY <1>0, <1>6 DEF MegatronStep
  <2>2. CASE Overflowed(w)
    <3>1. applied' = applied /\ gb[w] \in ask.overflow
      BY <2>1, <2>2 DEF Overflowed
    <3>2. gb[w] > 1 \/ gb[w] = 1
      <4>1. gb[w] \in Nat /\ gb[w] # 0
        BY <1>0
      <4> QED BY <4>1
    <3>3. ask.worker = "megatron" /\ ~RowsOut /\ applied[w] = << >> => 1 \in ask.overflow
      BY <1>0, <3>1, <3>2 DEF KeptFor, FramesKeptBy
    <3> QED BY <1>2, <1>3, <2>1, <3>1, <3>3 DEF FramesKeptBy, KeptFor
  <2>3. CASE ~Overflowed(w)
    <3>1. PICK S : applied \in [Workers -> Seq(S)]
      BY DEF Updated
    <3>2. applied'[w] = Append(applied[w], Summed(w)) /\ applied[w] \in Seq(S)
      BY <2>1, <2>3, <3>1
    <3>3. applied'[w] # << >>
      <4> DEFINE l == applied[w]
                 e == Summed(w)
                 T == S \cup {e}
      <4>1. l \in Seq(T) /\ e \in T
        BY <3>2
      <4> HIDE DEF l, e, T
      <4>2. Len(Append(l, e)) = Len(l) + 1 /\ Len(l) \in Nat
        BY <4>1
      <4>3. Append(l, e) # << >>
        BY <4>2
      <4> QED BY <3>2, <4>3 DEF l, e
    <3> QED BY <1>2, <1>3, <2>1, <3>3 DEF FramesKeptBy, KeptFor
  <2> QED BY <2>2, <2>3
<1> QED BY <1>4, <1>5, <1>6

\* The step that hears: what it hears less of, it has for another sample.
LEMMA HearingKeeps ==
  ASSUME Placed, FramesKept, NEW w \in Workers, mb[w] \in Nat, DTensorForward(w)
  PROVE  /\ cache' \in [Workers -> [Recordings -> Nat]]
         /\ heard' \in [Workers -> [Samples -> Nat]]
         /\ KeptFor(w)'
         /\ \A v \in Workers : v # w => cache'[v] = cache[v] /\ heard'[v] = heard[v]
<1> DEFINE rows == Microbatch(w)
           fr(r) == Frames(w, rows, r)
<1>0. /\ at \in [Workers -> Places] /\ KeptFor(w)
      /\ cache \in [Workers -> [Recordings -> Nat]] /\ heard \in [Workers -> [Samples -> Nat]]
  BY KeptForAll DEF Placed
<1>1. /\ held' = held /\ gb' = gb /\ applied' = applied /\ at'[w] = "backward"
      /\ ask.worker = "dtensor" /\ NextForward(w) /\ Embeds(w, rows)
      /\ cache' = [cache EXCEPT ![w] = [r \in Recordings |->
                     IF r \in HeardIn(rows) THEN fr(r) ELSE @[r]]]
      /\ heard' = [heard EXCEPT ![w] = [s \in Samples |->
                     IF s \in Range(rows)
                     THEN Smaller(fr(batch.rec[s]), batch.audio[s]) ELSE @[s]]]
  BY <1>0 DEF DTensorForward, ThroughModel, Goes, kept, held
<1>2. \A s \in Range(rows) : s \in Samples /\ InScope(w, s)
  BY <1>1, MicrobatchRows
<1>3. ASSUME NEW r \in HeardIn(rows)
      PROVE  /\ r \in Recordings /\ fr(r) \in Nat
             /\ \E v \in Samples : batch.rec[v] = r /\ InScope(w, v) /\ batch.audio[v] = fr(r)
  BY <1>1, FramesOf
<1>4. \A s \in Samples : batch.audio[s] \in Nat
  <2>1. batch.audio \in Seq(Nat) /\ Len(batch.audio) = N /\ Samples = 1..N
    BY CallTypes DEF Placed
  <2> QED BY <2>1, ElementOfSeq
<1>5. \A s \in Range(rows) : batch.rec[s] \in HeardIn(rows) /\ fr(batch.rec[s]) <= batch.audio[s]
  BY <1>1 DEF HeardIn, Embeds
<1> HIDE DEF fr, rows
<1>6. /\ ask' = ask /\ batch' = batch /\ Samples' = Samples /\ Recordings' = Recordings
      /\ (RowsOut' <=> RowsOut)
  BY <1>1, HeldFacts
<1>7. ASSUME NEW s \in Range(rows)
      PROVE  Smaller(fr(batch.rec[s]), batch.audio[s]) = fr(batch.rec[s]) /\ fr(batch.rec[s]) \in Nat
  <2>1. fr(batch.rec[s]) \in Nat /\ batch.audio[s] \in Nat /\ fr(batch.rec[s]) <= batch.audio[s]
    BY <1>2, <1>3, <1>4, <1>5
  <2> QED BY <2>1 DEF Smaller
<1>8. cache' \in [Workers -> [Recordings -> Nat]]
  <2> DEFINE c == [r \in Recordings |-> IF r \in HeardIn(rows) THEN fr(r) ELSE cache[w][r]]
  <2>1. c \in [Recordings -> Nat]
    BY <1>0, <1>3
  <2>2. cache' = [cache EXCEPT ![w] = c]
    BY <1>0, <1>1
  <2> HIDE DEF c
  <2> QED BY <1>0, <2>1, <2>2
<1>9. heard' \in [Workers -> [Samples -> Nat]]
  <2> DEFINE h == [s \in Samples |-> IF s \in Range(rows)
                     THEN Smaller(fr(batch.rec[s]), batch.audio[s]) ELSE heard[w][s]]
  <2>1. h \in [Samples -> Nat]
    BY <1>0, <1>7
  <2>2. heard' = [heard EXCEPT ![w] = h]
    BY <1>0, <1>1
  <2> HIDE DEF h
  <2> QED BY <1>0, <2>1, <2>2
<1>10. \A r \in Recordings : cache'[w][r] = IF r \in HeardIn(rows) THEN fr(r) ELSE cache[w][r]
  BY <1>0, <1>1
<1>11. \A s \in Samples : heard'[w][s] = IF s \in Range(rows) THEN fr(batch.rec[s]) ELSE heard[w][s]
  BY <1>0, <1>1, <1>7
<1>12. FramesKeptBy(w)'
  <2>1. ASSUME NEW r \in Recordings, cache'[w][r] # 0
        PROVE  \E v \in Samples : batch.rec[v] = r /\ batch.audio[v] = cache'[w][r] /\ InScope(w, v)
    <3>1. CASE r \in HeardIn(rows)
      BY <1>3, <1>10, <3>1
    <3>2. CASE r \notin HeardIn(rows)
      <4>1. cache'[w][r] = cache[w][r] /\ at[w] \in {"forward", "backward"}
        BY <1>1, <1>10, <3>2 DEF NextForward
      <4> QED BY <1>0, <2>1, <4>1 DEF KeptFor, FramesKeptBy
    <3> QED BY <3>1, <3>2
  <2>2. \A v : InScope(w, v)' <=> InScope(w, v)
    BY <1>1, <1>6 DEF InScope
  <2> QED BY <1>1, <1>6, <2>1, <2>2 DEF FramesKeptBy
<1>13. HeardFor(w)'
  <2>1. ASSUME NEW s \in Samples, heard'[w][s] \notin {0, batch.audio[s]} PROVE Shared(w, s, FALSE)
    <3>1. CASE s \in Range(rows)
      <4>1. fr(batch.rec[s]) # batch.audio[s] /\ InScope(w, s)
        BY <1>2, <1>11, <2>1, <3>1
      <4>2. PICK v \in Samples : /\ batch.rec[v] = batch.rec[s] /\ InScope(w, v)
                                /\ batch.audio[v] = fr(batch.rec[s])
        BY <1>3, <1>5, <3>1
      <4>3. fr(batch.rec[s]) <= batch.audio[s] /\ fr(batch.rec[s]) \in Nat /\ batch.audio[s] \in Nat
        BY <1>4, <1>5, <1>7, <3>1
      <4>4. batch.audio[v] < batch.audio[s] /\ v # s
        BY <4>1, <4>2, <4>3
      <4>5. ~RowsOut => (v - 1) \div ask.gbs = (s - 1) \div ask.gbs
        BY <4>1, <4>2 DEF InScope
      <4> QED BY <4>2, <4>4, <4>5 DEF Shared
    <3>2. CASE s \notin Range(rows)
      BY <1>0, <1>11, <2>1, <3>2 DEF KeptFor, HeardFor
    <3> QED BY <3>1, <3>2
  <2> QED BY <1>1, <1>6, <2>1, SharedSame DEF HeardFor
<1>14. RaisedFor(w)'
  BY <1>1 DEF RaisedFor
<1>15. \A v \in Workers : v # w => cache'[v] = cache[v] /\ heard'[v] = heard[v]
  BY <1>0, <1>1
<1> QED BY <1>8, <1>9, <1>12, <1>13, <1>14, <1>15 DEF KeptFor

LEMMA FramesKeptInit == Init => FramesKept /\ Updated
<1> SUFFICES ASSUME Init PROVE FramesKept /\ Updated
  OBVIOUS
<1>1. /\ cache = [w \in Workers |-> [r \in Recordings |-> 0]]
      /\ heard = [w \in Workers |-> [s \in Samples |-> 0]]
      /\ at = [w \in Workers |-> "idle"] /\ gb = [w \in Workers |-> 1]
      /\ applied = [w \in Workers |-> << >>]
  BY DEF Init
<1>2. ASSUME NEW w \in Workers PROVE KeptFor(w)
  <2>1. /\ \A r \in Recordings : cache[w][r] = 0
        /\ \A s \in Samples : heard[w][s] = 0
        /\ at[w] = "idle" /\ gb[w] = 1
    BY <1>1
  <2>2. FramesKeptBy(w)
    BY <2>1 DEF FramesKeptBy
  <2>3. HeardFor(w)
    BY <2>1 DEF HeardFor
  <2>4. RaisedFor(w)
    BY <2>1 DEF RaisedFor
  <2> QED BY <2>2, <2>3, <2>4 DEF KeptFor
<1>3. cache \in [Workers -> [Recordings -> Nat]] /\ heard \in [Workers -> [Samples -> Nat]]
  BY <1>1
<1>4. applied \in [Workers -> Seq({})]
  BY <1>1
<1> QED BY <1>2, <1>3, <1>4, KeptForAll DEF Updated

LEMMA UpdatedNext == Updated /\ [Next]_vars => Updated'
<1> SUFFICES ASSUME Updated, [Next]_vars PROVE Updated'
  OBVIOUS
<1>1. PICK S : applied \in [Workers -> Seq(S)]
  BY DEF Updated
<1>2. ASSUME applied' = applied, held' = held PROVE Updated'
  BY <1>1, <1>2, HeldFacts DEF Updated
<1>3. ASSUME NEW w \in Workers, applied' = [applied EXCEPT ![w] = Append(@, Summed(w))], held' = held
      PROVE  Updated'
  <2> DEFINE e == Summed(w)
             T == S \cup {e}
  <2>1. Append(applied[w], e) \in Seq(T)
    <3>1. applied[w] \in Seq(T) /\ e \in T
      BY <1>1
    <3> HIDE DEF e, T
    <3> QED BY <3>1
  <2>2. \A v \in Workers : applied[v] \in Seq(T)
    BY <1>1
  <2>3. applied' \in [Workers -> Seq(T)]
    <3> HIDE DEF e, T
    <3>1. applied' = [applied EXCEPT ![w] = Append(applied[w], e)]
      BY <1>1, <1>3 DEF e
    <3> QED BY <1>1, <2>1, <2>2, <3>1
  <2> QED BY <1>3, <2>3, HeldFacts DEF Updated
<1>4. CASE Calling \/ Gathering \/ UNCHANGED vars
  BY <1>2, <1>4 DEF Calling, CallTrain, CallLogprobs, CallReference, CallGenerate, Dispatch, Refuse,
     Gathering, CollectTrain, CollectRows, CollectRaises, atWork, vars, held
<1>5. ASSUME NEW w \in Workers, Work(w) PROVE Updated'
  <2>1. CASE DTensorStep(w) \/ FSDP1Step(w) \/ MegatronStep(w)
    BY <1>2, <1>3, <2>1 DEF DTensorStep, FSDP1Step, MegatronStep, kept, held
  <2>2. CASE ~(DTensorStep(w) \/ FSDP1Step(w) \/ MegatronStep(w))
    <3>1. held' = held /\ applied' = applied
      BY <1>5, <2>2
         DEF Work, StartTrain, StartRows, SwapReference, NextBatch, Normalise, UnevenRaises, NextEval,
         SumLosses, ReturnLosses, ReturnRows, DTensorTrainForward, DTensorScore, DTensorForward,
         EmbeddingRaises, DTensorGradNorm, FSDP1TrainForward, FSDP1Score, FSDP1Generate,
         FSDP1Through, FSDP1GradNorm, MegatronStart, MegatronSchedule, MegatronGradNorm,
         MegatronStepRaises, ShareMetrics, MegatronScore, ShareRows, kept, atWork, held
    <3> QED BY <1>2, <3>1
  <2> QED BY <2>1, <2>2
<1> QED BY <1>4, <1>5 DEF Next

LEMMA FramesKeptNext ==
  Placed /\ RowsKept /\ FramesKept /\ Updated /\ [Next]_vars => FramesKept'
<1> SUFFICES ASSUME Placed, RowsKept, FramesKept, Updated, [Next]_vars PROVE FramesKept'
  OBVIOUS
<1>0. /\ cache \in [Workers -> [Recordings -> Nat]] /\ heard \in [Workers -> [Samples -> Nat]]
      /\ \A w \in Workers : KeptFor(w)
      /\ at \in [Workers -> Places] /\ gb \in [Workers -> Nat \ {0}] /\ mb \in [Workers -> Nat]
      /\ pc \in {"call", "refused"} => \A w \in Workers : at[w] = "idle"
  BY KeptForAll DEF Placed, RowsKept
<1>1. ASSUME NEW w \in Workers, held' = held,
             cache' \in [Workers -> [Recordings -> Nat]], heard' \in [Workers -> [Samples -> Nat]],
             KeptFor(w)', \A v \in Workers : v # w => KeptFor(v)'
      PROVE  FramesKept'
  <2>1. Workers' = Workers /\ Samples' = Samples /\ Recordings' = Recordings
    BY <1>1, HeldFacts
  <2>2. \A v \in Workers : KeptFor(v)'
    BY <1>1
  <2>3. FramesKept' <=> /\ cache' \in [Workers' -> [Recordings' -> Nat]]
                       /\ heard' \in [Workers' -> [Samples' -> Nat]]
                       /\ \A v \in Workers' : KeptFor(v)'
    BY KeptForAll DEF FramesKept, KeptFor, FailsForCause, HeardFor, RaisedFor
  <2> QED BY <1>1, <2>1, <2>2, <2>3
<1>2. ASSUME held' = held, gb' = gb, cache' = cache, heard' = heard, applied' = applied,
             \A w \in Workers : at'[w] = at[w] \/ (at[w] = "idle" /\ at'[w] = "called")
      PROVE  FramesKept'
  <2>1. Workers' = Workers /\ Samples' = Samples /\ Recordings' = Recordings
    BY <1>2, HeldFacts
  <2>2. ASSUME NEW w \in Workers PROVE KeptFor(w)'
    <3>1. CASE at'[w] = at[w]
      BY <1>0, <1>2, <3>1, KeptForSame
    <3>2. CASE at[w] = "idle" /\ at'[w] = "called"
      <4>1. Quiet(w)
        BY <1>2, <3>2 DEF Quiet
      <4> QED BY <1>0, <4>1, QuietKeeps
    <3> QED BY <1>2, <3>1, <3>2
  <2>3. FramesKept' <=> /\ cache' \in [Workers' -> [Recordings' -> Nat]]
                       /\ heard' \in [Workers' -> [Samples' -> Nat]]
                       /\ \A v \in Workers' : KeptFor(v)'
    BY DEF FramesKept, KeptFor, FailsForCause, HeardFor, RaisedFor
  <2> QED BY <1>0, <1>2, <2>1, <2>2, <2>3
<1>3. CASE Calling
  <2>1. /\ held' = held /\ gb' = gb /\ cache' = cache /\ heard' = heard /\ applied' = applied
        /\ pc = "call" /\ (at' = at \/ at' = [w \in Workers |-> "called"])
    BY <1>3 DEF Calling, CallTrain, CallLogprobs, CallReference, CallGenerate, Dispatch, Refuse, atWork
  <2> QED BY <1>0, <1>2, <2>1
<1>4. CASE Gathering \/ UNCHANGED vars
  BY <1>2, <1>4 DEF Gathering, CollectTrain, CollectRows, CollectRaises, atWork, vars, held
<1>5. ASSUME NEW w \in Workers, Work(w) PROVE FramesKept'
  <2>1. PICK to \in Places : Moves(w, to)
    BY <1>5, WorkerMoves
  <2>2. /\ held' = held /\ at' = [at EXCEPT ![w] = to]
        /\ gb' = gb \/ gb' = [gb EXCEPT ![w] = @ + 1]
    BY <2>1 DEF Moves, kept
  <2>3. \A v \in Workers : v # w => at'[v] = at[v] /\ gb'[v] = gb[v]
    BY <1>0, <2>2
  <2>4. ASSUME ~DTensorForward(w)
        PROVE  /\ cache' = cache \/ \E c \in [Recordings -> Nat] : cache' = [cache EXCEPT ![w] = c]
               /\ heard' = heard
               /\ \A v \in Workers : v # w => applied'[v] = applied[v]
               /\ KeptFor(w)'
    <3>1. CASE NextBatch(w) \/ DTensorStep(w) \/ FSDP1Step(w) \/ MegatronStep(w)
      <4>1. KeptFor(w)'
        BY <3>1, UpdatingKeeps
      <4>2. [r \in Recordings |-> 0] \in [Recordings -> Nat]
        OBVIOUS
      <4>3. cache' = cache \/ \E c \in [Recordings -> Nat] : cache' = [cache EXCEPT ![w] = c]
        BY <3>1, <4>2 DEF NextBatch, ClearCache, DTensorStep, FSDP1Step, MegatronStep
      <4>4. heard' = heard
        BY <3>1 DEF NextBatch, DTensorStep, FSDP1Step, MegatronStep
      <4>5. PICK S : applied \in [Workers -> Seq(S)]
        BY DEF Updated
      <4>6. applied' = applied \/ applied' = [applied EXCEPT ![w] = Append(@, Summed(w))]
        BY <3>1 DEF NextBatch, DTensorStep, FSDP1Step, MegatronStep
      <4>7. \A v \in Workers : v # w => applied'[v] = applied[v]
        BY <4>5, <4>6
      <4> QED BY <4>1, <4>3, <4>4, <4>7
    <3>2. CASE UnevenRaises(w) \/ EmbeddingRaises(w) \/ MegatronStepRaises(w)
      <4>1. KeptFor(w)'
        BY <1>0, <3>2, RaisingKeeps
      <4>2. cache' = cache /\ heard' = heard /\ applied' = applied
        BY <3>2 DEF UnevenRaises, EmbeddingRaises, MegatronStepRaises, atWork
      <4> QED BY <4>1, <4>2
    <3>3. CASE DTensorTrainForward(w) \/ DTensorScore(w)
      BY <2>4, <3>3 DEF DTensorTrainForward, DTensorScore
    <3>4. CASE ~(\/ NextBatch(w) \/ DTensorStep(w) \/ FSDP1Step(w) \/ MegatronStep(w)
                 \/ UnevenRaises(w) \/ EmbeddingRaises(w) \/ MegatronStepRaises(w)
                 \/ DTensorTrainForward(w) \/ DTensorScore(w))
      <4>1. Quiet(w)
        BY <1>0, <1>5, <3>4, QuietSteps DEF Work
      <4>2. KeptFor(w)'
        BY <1>0, <4>1, QuietKeeps
      <4> QED BY <4>1, <4>2 DEF Quiet
    <3> QED BY <3>1, <3>2, <3>3, <3>4
  <2>5. CASE DTensorForward(w)
    <3>1. /\ cache' \in [Workers -> [Recordings -> Nat]] /\ heard' \in [Workers -> [Samples -> Nat]]
          /\ KeptFor(w)' /\ \A v \in Workers : v # w => cache'[v] = cache[v] /\ heard'[v] = heard[v]
      BY <1>0, <2>5, HearingKeeps
    <3>2. applied' = applied
      BY <2>5 DEF DTensorForward
    <3>3. \A v \in Workers : v # w => KeptFor(v)'
      BY <1>0, <2>2, <2>3, <3>1, <3>2, KeptForSame
    <3> QED BY <1>1, <2>2, <3>1, <3>3
  <2>6. CASE ~DTensorForward(w)
    <3>1. /\ cache' = cache \/ \E c \in [Recordings -> Nat] : cache' = [cache EXCEPT ![w] = c]
          /\ heard' = heard
          /\ \A v \in Workers : v # w => applied'[v] = applied[v]
          /\ KeptFor(w)'
      BY <2>4, <2>6
    <3>2. cache' \in [Workers -> [Recordings -> Nat]] /\ \A v \in Workers : v # w => cache'[v] = cache[v]
      BY <1>0, <3>1
    <3>3. \A v \in Workers : v # w => KeptFor(v)'
      BY <1>0, <2>2, <2>3, <3>1, <3>2, KeptForSame
    <3> QED BY <1>0, <1>1, <2>2, <3>1, <3>2, <3>3
  <2> QED BY <2>5, <2>6
<1> QED BY <1>3, <1>4, <1>5 DEF Next

\* Audio is cut short, and a worker raises over it, only where a recording is
\* heard for different times in one batch (dtensor_policy_worker.py 519, 739);
\* else a worker raises over an uneven cut or an overflow of the first update.
THEOREM FailuresExplained == Spec => []FailsForCause
<1>1. FramesKept => FailsForCause
  BY DEF FramesKept
<1> QED BY <1>1, PlacedInit, PlacedNext, RowsKeptInit, RowsKeptNext, FramesKeptInit, FramesKeptNext,
           UpdatedNext, PTL DEF Spec

-----------------------------------------------------------------------------
(***************************************************************************)
(* All workers enter one sequence of collectives (InStep).                 *)
(***************************************************************************)

\* The number of microbatches of a global batch is the same for all workers.
LEMMA NumberFacts ==
  ASSUME ask \in Calls, batch \in Batches, Accepted, Sent, NEW w \in Workers,
         gb[w] \in 1..GlobalBatches
  PROVE  Len(Microbatches(w)) = Number(gb[w])
<1>1. ShardOf(w) \in 1..Shards /\ Shards \in Nat \ {0}
  BY ShardOfFacts, SizeTypes
<1>2. CASE ask.dynamic
  <2> DEFINE mbs == [g \in 1..GlobalBatches |-> Grouped(RowLengths(1..Shards, g), Budget)]
  <2>1. ASSUME NEW k \in 1..Shards PROVE shards[k].mbs = mbs
    <3>1. shards[k] = ShardData(k)
      BY DEF Sent
    <3> QED BY <1>2, <3>1 DEF ShardData, MicrobatchesOf
  <2> HIDE DEF mbs
  <2>2. shards[ShardOf(w)].mbs = shards[1].mbs
    BY <1>1, <2>1
  <2> QED BY <1>2, <2>2 DEF Microbatches, Number
<1>3. CASE ~ask.dynamic
  <2>1. LocalSize \in Nat /\ ask.mbs \in Nat \ {0}
    BY SizeFacts, CallTypes
  <2>2. LocalSize \div ask.mbs \in Nat
    BY <2>1, DivFacts
  <2>3. Microbatches(w) = EvenCuts(LocalSize, ask.mbs, Width)
    BY <1>3 DEF Microbatches
  <2>4. Len(EvenCuts(LocalSize, ask.mbs, Width)) = LocalSize \div ask.mbs
    BY <2>2 DEF EvenCuts
  <2> QED BY <1>3, <2>3, <2>4 DEF Number
<1> QED BY <1>2, <1>3

\* What a collective is can be read off it.
Kind(e) == <<e[1], e[2][1]>>
LEMMA Kinds ==
  /\ Kind(Size) = <<"dp", "size">>
  /\ \A g : /\ Kind(Valid(g)) = <<"dp", "valid">> /\ Valid(g)[2][2] = g
            /\ Kind(Norm(g)) = <<"world", "norm">> /\ Norm(g)[2][2] = g
            /\ Kind(Metrics(g)) = <<"pp", "metrics">> /\ Metrics(g)[2][2] = g
            /\ \A m : /\ Kind(Forward(g, m)) = <<"model", "forward">>
                      /\ Forward(g, m)[2][2] = g /\ Forward(g, m)[2][3] = m
  /\ Kind(Losses) = <<"dp", "losses">> /\ Kind(RowsShared) = <<"pp", "rows">>
BY DEF Kind, Size, Valid, Norm, Metrics, Forward, Losses, RowsShared

\* Nothing is entered after one collective but one other.
LEMMA FollowsOnce ==
  ASSUME NEW e, NEW f, NEW h, Follows(e, f), Follows(e, h)
  PROVE  f = h
<1>1. CASE e = Size
  <2>1. /\ \A g : e # Valid(g) /\ e # Norm(g) /\ e # Metrics(g)
        /\ \A g, m : e # Forward(g, m)
    BY <1>1, Kinds
  <2>2. ASSUME NEW x, Follows(e, x) PROVE x = Valid(1)
    BY <2>1, <2>2, Zenon DEF Follows
  <2> QED BY <2>2
<1>2. ASSUME NEW g \in 1..GlobalBatches, e = Valid(g) PROVE f = h
  <2>1. e # Size /\ \A b, m : (e = Valid(b) => b = g) /\ e # Norm(b) /\ e # Metrics(b) /\ e # Forward(b, m)
    BY <1>2, Kinds
  <2> QED BY <2>1 DEF Follows
<1>3. ASSUME NEW g \in 1..GlobalBatches, NEW m \in 0..(Number(g) - 1), e = Forward(g, m) PROVE f = h
  <2>1. /\ e # Size
        /\ \A b, n : e # Valid(b) /\ e # Norm(b) /\ e # Metrics(b) /\ (e = Forward(b, n) => b = g /\ n = m)
    BY <1>3, Kinds
  <2> QED BY <2>1 DEF Follows
<1>4. ASSUME NEW g \in 1..GlobalBatches, e = Norm(g) PROVE f = h
  <2>1. /\ e # Size /\ \A b, m : e # Forward(b, m)
        /\ \A b : (e = Norm(b) => b = g) /\ e # Valid(b) /\ e # Metrics(b)
    BY <1>4, Kinds
  <2> DEFINE y == IF ask.worker = "megatron" THEN Metrics(g) ELSE After(g)
  <2>2. ASSUME NEW x, Follows(e, x) PROVE x = y
    BY <2>1, <2>2 DEF Follows
  <2> HIDE DEF y
  <2> QED BY <2>2
<1>5. ASSUME NEW g \in 1..GlobalBatches, e = Metrics(g) PROVE f = h
  <2>1. /\ e # Size /\ \A b, m : e # Forward(b, m)
        /\ \A b : (e = Metrics(b) => b = g) /\ e # Valid(b) /\ e # Norm(b)
    BY <1>5, Kinds
  <2>2. ASSUME NEW x, Follows(e, x) PROVE x = After(g)
    BY <2>1, <2>2 DEF Follows
  <2> QED BY <2>2
<1> QED BY <1>1, <1>2, <1>3, <1>4, <1>5 DEF Follows

\* A list of collectives that grows by the one that follows.
LEMMA ChainGrows ==
  ASSUME NEW S, NEW s \in Seq(S), NEW e \in S, Chain(s),
         \/ s = << >> /\ e = Opening
         \/ s # << >> /\ Follows(s[Len(s)], e)
  PROVE  /\ Chain(Append(s, e)) /\ Append(s, e) # << >>
         /\ Append(s, e)[Len(Append(s, e))] = e
<1> DEFINE t == Append(s, e)
<1>1. /\ Len(s) \in Nat /\ Len(t) = Len(s) + 1 /\ t[Len(s) + 1] = e
      /\ \A i \in 1..Len(s) : t[i] = s[i]
  OBVIOUS
<1>2. s = << >> <=> Len(s) = 0
  OBVIOUS
<1> HIDE DEF t
<1>3. t[1] = Opening
  <2>1. CASE s = << >>
    BY <1>1, <1>2, <2>1
  <2>2. CASE s # << >>
    BY <1>1, <1>2, <2>2 DEF Chain
  <2> QED BY <2>1, <2>2
<1>4. ASSUME NEW i \in 1..(Len(t) - 1) PROVE Follows(t[i], t[i + 1])
  <2>1. i \in 1..Len(s) /\ s # << >>
    BY <1>1, <1>2
  <2>2. CASE i = Len(s)
    BY <1>1, <2>1, <2>2
  <2>3. CASE i # Len(s)
    <3>1. i \in 1..(Len(s) - 1) /\ i + 1 \in 1..Len(s)
      BY <1>1, <2>1, <2>3
    <3>2. t[i] = s[i] /\ t[i + 1] = s[i + 1]
      BY <1>1, <2>1, <3>1
    <3> QED BY <3>1, <3>2 DEF Chain
  <2> QED BY <2>2, <2>3
<1>5. t # << >> /\ t[Len(t)] = e
  BY <1>1 DEF t
<1> QED BY <1>3, <1>4, <1>5 DEF Chain, t

\* Two chains agree as far as both go.
LEMMA ChainsAgree ==
  ASSUME NEW S, NEW s \in Seq(S), NEW t \in Seq(S), Chain(s), Chain(t)
  PROVE  \A i \in Nat \ {0} : i <= Len(s) /\ i <= Len(t) => s[i] = t[i]
<1> DEFINE Bad == {i \in Nat \ {0} : i <= Len(s) /\ i <= Len(t) /\ s[i] # t[i]}
<1> SUFFICES ASSUME Bad # {} PROVE FALSE
  OBVIOUS
<1>1. PICK m \in Bad : \A k \in Bad : m <= k
  <2>1. Bad \in SUBSET Nat
    OBVIOUS
  <2> HIDE DEF Bad
  <2> QED BY <2>1, LeastNatural
<1>2. m \in Nat \ {0} /\ m <= Len(s) /\ m <= Len(t) /\ s[m] # t[m] /\ Len(s) \in Nat /\ Len(t) \in Nat
  BY <1>1
<1>3. m # 1
  <2>1. s # << >> /\ t # << >>
    BY <1>2
  <2> QED BY <1>2, <2>1 DEF Chain
<1> DEFINE k == m - 1
<1>4. k \in Nat \ {0} /\ k < m /\ m = k + 1 /\ k \in 1..(Len(s) - 1) /\ k \in 1..(Len(t) - 1)
  BY <1>2, <1>3
<1>5. s[k] = t[k]
  BY <1>1, <1>2, <1>4
<1> HIDE DEF k
<1>6. Follows(s[k], s[m]) /\ Follows(t[k], t[m])
  BY <1>4 DEF Chain
<1> QED BY <1>2, <1>5, <1>6, FollowsOnce


LEMMA FollowsSame ==
  ASSUME held' = held, shards' = shards
  PROVE  /\ \A e, f : Follows(e, f)' <=> Follows(e, f)
         /\ Opening' = Opening /\ (Stepping' <=> Stepping)
         /\ \A g : /\ Closing(g)' = Closing(g) /\ Number(g)' = Number(g)
                   /\ Valid(g)' = Valid(g) /\ Norm(g)' = Norm(g) /\ Metrics(g)' = Metrics(g)
                   /\ \A m : Forward(g, m)' = Forward(g, m)
<1>1. /\ ask' = ask /\ GlobalBatches' = GlobalBatches /\ (RowsOut' <=> RowsOut)
      /\ LocalSize' = LocalSize
  BY HeldFacts
<1>2. Stepping' <=> Stepping
  BY <1>1 DEF Stepping
<1>3. \A g : /\ Number(g)' = Number(g) /\ After(g)' = After(g)
            /\ Valid(g)' = Valid(g) /\ Norm(g)' = Norm(g) /\ Metrics(g)' = Metrics(g)
            /\ \A m : Forward(g, m)' = Forward(g, m)
  BY <1>1 DEF Number, After, Valid, Norm, Metrics, Forward, Losses
<1>4. Size' = Size /\ RowsShared' = RowsShared
  BY DEF Size, RowsShared
<1>5. \A g, m : AfterForward(g, m)' = AfterForward(g, m)
  BY <1>1, <1>2, <1>3, <1>4 DEF AfterForward
<1>6. Opening' = Opening /\ \A g : Closing(g)' = Closing(g)
  BY <1>1, <1>2, <1>3, <1>4 DEF Opening, Closing
<1>7. \A e, f : Follows(e, f)' <=> Follows(e, f)
  BY <1>1, <1>3, <1>4, <1>5 DEF Follows
<1> QED BY <1>2, <1>3, <1>6, <1>7

LEMMA ChainSame ==
  ASSUME held' = held, shards' = shards, NEW w, Chain(entered[w]), entered'[w] = entered[w]
  PROVE  Chain(entered[w])'
BY FollowsSame DEF Chain

\* Workers enter lists of collectives.
Entered == \E S : entered \in [Workers -> Seq(S)]

LEMMA GrowsBy ==
  ASSUME Entered, held' = held, shards' = shards, NEW w \in Workers, NEW e, Chain(entered[w]),
         entered' = [entered EXCEPT ![w] = Append(@, e)],
         \/ entered[w] = << >> /\ e = Opening
         \/ \E l : Latest(w, l) /\ Follows(l, e)
  PROVE  /\ Chain(entered[w])' /\ Entered'
         /\ entered'[w] # << >> /\ entered'[w][Len(entered'[w])] = e
         /\ \A v \in Workers : v # w => entered'[v] = entered[v]
<1>1. PICK S : entered \in [Workers -> Seq(S)]
  BY DEF Entered
<1> DEFINE T == S \cup {e}
           s == entered[w]
<1>2. \A v \in Workers : entered[v] \in Seq(T)
  <2>1. ASSUME NEW r \in Seq(S) PROVE r \in Seq(T)
    OBVIOUS
  <2> HIDE DEF T
  <2> QED BY <1>1, <2>1
<1>3. s \in Seq(T) /\ e \in T
  BY <1>2
<1> HIDE DEF T
<1>4. /\ entered'[w] = Append(s, e)
      /\ \A v \in Workers : v # w => entered'[v] = entered[v]
      /\ entered' = [v \in Workers |-> IF v = w THEN Append(s, e) ELSE entered[v]]
  BY <1>1
<1>5. \/ s = << >> /\ e = Opening
      \/ s # << >> /\ Follows(s[Len(s)], e)
  BY DEF Latest
<1>6. Chain(s)
  OBVIOUS
<1> HIDE DEF s
<1>7. /\ Chain(Append(s, e)) /\ Append(s, e) # << >>
      /\ Append(s, e)[Len(Append(s, e))] = e
  BY <1>3, <1>5, <1>6, ChainGrows
<1>8. Append(s, e) \in Seq(T)
  BY <1>3
<1>9. Entered'
  <2>1. entered' \in [Workers -> Seq(T)] /\ Workers' = Workers
    BY <1>2, <1>4, <1>8, HeldFacts
  <2> QED BY <2>1 DEF Entered
<1>10. Chain(entered[w])'
  <2> DEFINE t == Append(s, e)
  <2>1. Chain(t) /\ entered'[w] = t
    BY <1>4, <1>7
  <2> HIDE DEF t
  <2> QED BY <2>1, FollowsSame DEF Chain
<1> QED BY <1>4, <1>7, <1>9, <1>10

\* What InStep knows of a worker about to go on.
LEMMA InStepPlace ==
  ASSUME Placed, RowsKept, NEW w \in Workers, InStepBy(w), Work(w)
  PROVE  /\ held' = held /\ shards' = shards
         /\ at \in [Workers -> Places] /\ gb \in [Workers -> Nat \ {0}] /\ mb \in [Workers -> Nat]
         /\ gb[w] \in Nat \ {0} /\ mb[w] \in Nat /\ GlobalBatches \in Nat \ {0}
         /\ RowsOut => at[w] \in Scored \cup {"called", "returned", "raised"} /\ gb[w] = 1
         /\ at[w] \in {"normalise", "forward", "backward", "step", "share"} =>
              gb[w] \in 1..GlobalBatches /\ Len(Microbatches(w)) = Number(gb[w])
         /\ RowsOut /\ at[w] = "called" => mb[w] = 0
<1>1. PICK to \in Places : Moves(w, to)
  BY WorkerMoves
<1>2. held' = held /\ shards' = shards /\ at[w] # "idle"
  BY <1>1 DEF Moves, kept
<1>3. /\ at \in [Workers -> Places] /\ gb \in [Workers -> Nat \ {0}] /\ mb \in [Workers -> Nat]
      /\ RowsOut => at[w] \in Scored \cup {"idle", "called", "returned", "raised"} /\ gb[w] = 1
      /\ RowsOut => RowsKeptBy(w)
      /\ ask \in Calls /\ batch \in Batches
  BY DEF Placed, RowsKept
<1>4. RowsOut /\ at[w] = "called" => mb[w] = 0
  BY <1>3 DEF RowsKeptBy
<1>5. Accepted
  BY <1>2 DEF Placed
<1>6. GlobalBatches \in Nat \ {0}
  BY <1>3, <1>5, SizeFacts
<1>7. ASSUME at[w] \in {"normalise", "forward", "backward", "step", "share"}
      PROVE  gb[w] \in 1..GlobalBatches /\ Len(Microbatches(w)) = Number(gb[w])
  <2>1. Sent /\ gb[w] \in 1..GlobalBatches
    BY <1>7, PlacedWorker DEF InBatch
  <2> QED BY <1>3, <1>5, <2>1, NumberFacts
<1> QED BY <1>2, <1>3, <1>4, <1>6, <1>7

\* A worker that has entered one more collective is in step at the place it
\* goes to.
EntersTo(w, to, e) ==
  /\ to \in {"normalise", "backward", "sized", "step", "share", "losses", "rows"}
  /\ to = "normalise" => e = Valid(gb[w]) /\ mb'[w] = 0
  /\ to = "backward" => mb'[w] \in 1..Number(gb[w]) /\ e = Forward(gb[w], mb'[w] - 1)
  /\ to = "sized" => e = Size /\ gb[w] = 1 /\ ask.worker = "megatron"
  /\ to = "step" => e = Norm(gb[w]) /\ Stepping
  /\ to = "share" => e = Metrics(gb[w]) /\ ask.worker = "megatron"

Grown(w) ==
  /\ InStepBy(w)' /\ Entered'
  /\ \A v \in Workers : v # w => entered'[v] = entered[v]

LEMMA InStepEntering ==
  ASSUME Entered, held' = held, shards' = shards, at \in [Workers -> Places], NEW w \in Workers,
         InStepBy(w), NEW to, NEW e, EntersTo(w, to, e),
         at' = [at EXCEPT ![w] = to], gb' = gb,
         entered' = [entered EXCEPT ![w] = Append(@, e)],
         \/ entered[w] = << >> /\ e = Opening
         \/ \E l : Latest(w, l) /\ Follows(l, e)
  PROVE  Grown(w)
<1>1. /\ Chain(entered[w])' /\ Entered' /\ Latest(w, e)'
      /\ \A v \in Workers : v # w => entered'[v] = entered[v]
  <2>1. Chain(entered[w])
    BY DEF InStepBy
  <2>2. /\ Chain(entered[w])' /\ Entered'
        /\ entered'[w] # << >> /\ entered'[w][Len(entered'[w])] = e
        /\ \A v \in Workers : v # w => entered'[v] = entered[v]
    BY <2>1, GrowsBy
  <2> QED BY <2>2 DEF Latest
<1>2. at'[w] = to /\ gb'[w] = gb[w]
  OBVIOUS
<1>3. /\ ask' = ask /\ (Stepping' <=> Stepping)
      /\ Number(gb[w])' = Number(gb[w]) /\ Valid(gb[w])' = Valid(gb[w]) /\ Norm(gb[w])' = Norm(gb[w])
      /\ Metrics(gb[w])' = Metrics(gb[w]) /\ \A m : Forward(gb[w], m)' = Forward(gb[w], m)
      /\ Size' = Size
  BY HeldFacts, FollowsSame, <1>2 DEF Size, Number, Valid, Norm, Metrics, Forward
<1>4. /\ to = "normalise" => Latest(w, Valid(gb[w]))' /\ mb'[w] = 0
      /\ to = "backward" => mb'[w] \in 1..(Number(gb[w])') /\ Latest(w, Forward(gb[w], mb[w] - 1))'
      /\ to = "sized" => Latest(w, Size)' /\ gb'[w] = 1 /\ ask'.worker = "megatron"
      /\ to = "step" => Latest(w, Norm(gb[w]))' /\ Stepping'
      /\ to = "share" => Latest(w, Metrics(gb[w]))' /\ ask'.worker = "megatron"
  BY <1>1, <1>2, <1>3 DEF EntersTo, Latest, Valid, Forward, Size, Norm, Metrics
<1>5. to \notin {"idle", "called", "batch", "forward"}
  BY DEF EntersTo
<1> QED BY <1>1, <1>2, <1>4, <1>5 DEF InStepBy, Grown

\* ... and one that has entered none too.
StaysTo(w, to) ==
  \/ to \in {"returned", "raised"}
  \/ /\ to = "batch" /\ gb'[w] = 1 /\ entered[w] = << >> /\ ask.worker # "megatron"
  \/ /\ to = "batch" /\ gb'[w] # 1 /\ gb'[w] <= GlobalBatches + 1 /\ Latest(w, Closing(gb'[w] - 1))
     /\ Stepping \/ Number(gb'[w] - 1) \in Nat \ {0}
  \/ /\ to = "forward" /\ mb'[w] = 0
     /\ IF RowsOut THEN entered[w] = << >> ELSE Latest(w, Valid(gb'[w]))

LEMMA InStepStaying ==
  ASSUME Entered, held' = held, shards' = shards, at \in [Workers -> Places], NEW w \in Workers,
         InStepBy(w), NEW to, StaysTo(w, to),
         at' = [at EXCEPT ![w] = to], entered' = entered
  PROVE  Grown(w)
<1>1. at'[w] = to
  OBVIOUS
<1>2. /\ ask' = ask /\ (Stepping' <=> Stepping) /\ GlobalBatches' = GlobalBatches
      /\ (RowsOut' <=> RowsOut) /\ Workers' = Workers
      /\ \A g : Number(g)' = Number(g) /\ Closing(g)' = Closing(g) /\ Valid(g)' = Valid(g)
  BY HeldFacts, FollowsSame
<1>3. Chain(entered[w])' /\ Entered'
  <2>1. Chain(entered[w])
    BY DEF InStepBy
  <2> QED BY <1>2, <2>1, ChainSame DEF Entered
<1>4. \A e : Latest(w, e)' <=> Latest(w, e)
  BY DEF Latest
<1> DEFINE h == gb'[w]
<1>5. /\ Closing(gb[w] - 1)' = Closing(h - 1) /\ Number(gb[w] - 1)' = Number(h - 1)
      /\ Valid(gb[w])' = Valid(h)
  BY FollowsSame, HeldFacts DEF Closing, Number, Valid, Metrics, Norm, Forward
<1>6. (Latest(w, Closing(gb[w] - 1))' <=> Latest(w, Closing(h - 1)))
      /\ (Latest(w, Valid(gb[w]))' <=> Latest(w, Valid(h)))
  BY <1>5 DEF Latest
<1>7. CASE to = "batch"
  BY <1>1, <1>2, <1>3, <1>5, <1>6, <1>7 DEF InStepBy, StaysTo, Grown
<1>8. CASE to = "forward"
  BY <1>1, <1>2, <1>3, <1>5, <1>6, <1>8 DEF InStepBy, StaysTo, Grown
<1>9. CASE to \in {"returned", "raised"}
  BY <1>1, <1>3, <1>9 DEF InStepBy, StaysTo, Grown
<1> QED BY <1>7, <1>8, <1>9 DEF StaysTo

LEMMA FollowsAll ==
  /\ Follows(Size, Valid(1))
  /\ \A g \in 1..GlobalBatches :
       /\ Follows(Valid(g), Forward(g, 0))
       /\ \A m \in 0..(Number(g) - 1) : Follows(Forward(g, m), AfterForward(g, m))
       /\ Follows(Norm(g), IF ask.worker = "megatron" THEN Metrics(g) ELSE After(g))
       /\ Follows(Metrics(g), After(g))
BY DEF Follows

\* Behind the last collective of a global batch come the next one's valid
\* samples, or the losses.
LEMMA ClosingFollows ==
  ASSUME NEW g \in 1..GlobalBatches, ~RowsOut, Stepping \/ Number(g) \in Nat \ {0}
  PROVE  Follows(Closing(g), After(g))
<1>1. CASE ask.worker = "megatron"
  BY <1>1, FollowsAll DEF Closing
<1>2. CASE ask.worker # "megatron" /\ Stepping
  BY <1>2, FollowsAll DEF Closing
<1>3. CASE ask.worker # "megatron" /\ ~Stepping
  <2>1. Number(g) - 1 \in 0..(Number(g) - 1) /\ ~((Number(g) - 1) + 1 < Number(g))
    BY <1>3
  <2>2. AfterForward(g, Number(g) - 1) = After(g)
    BY <1>3, <2>1 DEF AfterForward
  <2>3. Closing(g) = Forward(g, Number(g) - 1)
    BY <1>3 DEF Closing
  <2> QED BY <2>1, <2>2, <2>3, FollowsAll
<1> QED BY <1>1, <1>2, <1>3

\* The microbatches a worker has put through: the next follows, or what comes
\* behind the last of them.
LEMMA ForwardFollows ==
  ASSUME NEW g \in 1..GlobalBatches, NEW m \in 1..Number(g), Number(g) \in Nat
  PROVE  /\ m < Number(g) => Follows(Forward(g, m - 1), Forward(g, m))
         /\ m = Number(g) => Follows(Forward(g, m - 1),
              IF RowsOut THEN RowsShared ELSE IF Stepping THEN Norm(g) ELSE After(g))
<1>1. m - 1 \in 0..(Number(g) - 1) /\ (m - 1) + 1 = m
  OBVIOUS
<1>2. Follows(Forward(g, m - 1), AfterForward(g, m - 1))
  BY <1>1, FollowsAll
<1> QED BY <1>1, <1>2 DEF AfterForward

LEMMA MicrobatchCount ==
  ASSUME Placed, NEW w \in Workers, at[w] \in InBatch \/ (RowsOut /\ at[w] # "idle"), ~Uneven
  PROVE  Len(Microbatches(w)) \in Nat
<1> DEFINE mbs == Microbatches(w)
<1>1. ask \in Calls /\ batch \in Batches /\ Accepted /\ Sent /\ gb[w] \in 1..GlobalBatches
  BY PlacedWorker DEF Placed
<1>2. Covers(mbs, LocalSize)
  BY <1>1, WorkFacts
<1> HIDE DEF mbs
<1>3. Len(mbs) \in Nat
  BY <1>2 DEF Covers
<1> QED BY <1>3 DEF mbs

LEMMA InStepKept ==
  ASSUME Placed, RowsKept, Entered, NEW w \in Workers, InStepBy(w), Work(w)
  PROVE  Grown(w)
<1> USE DEF kept, atWork, Goes
<1>0. /\ held' = held /\ shards' = shards
      /\ at \in [Workers -> Places] /\ gb \in [Workers -> Nat \ {0}] /\ mb \in [Workers -> Nat]
      /\ gb[w] \in Nat \ {0} /\ mb[w] \in Nat /\ GlobalBatches \in Nat \ {0}
      /\ RowsOut => at[w] \in Scored \cup {"called", "returned", "raised"} /\ gb[w] = 1
      /\ at[w] \in {"normalise", "forward", "backward", "step", "share"} =>
           gb[w] \in 1..GlobalBatches /\ Len(Microbatches(w)) = Number(gb[w])
      /\ RowsOut /\ at[w] = "called" => mb[w] = 0
  BY InStepPlace
<1>1. /\ at[w] \in {"idle", "called"} => entered[w] = << >> /\ gb[w] = 1
      /\ at[w] = "sized" => Latest(w, Size) /\ gb[w] = 1 /\ ask.worker = "megatron"
      /\ at[w] = "batch" => IF gb[w] = 1 THEN entered[w] = << >> /\ ask.worker # "megatron"
                            ELSE /\ gb[w] <= GlobalBatches + 1 /\ Latest(w, Closing(gb[w] - 1))
                                 /\ Stepping \/ Number(gb[w] - 1) \in Nat \ {0}
      /\ at[w] = "normalise" => Latest(w, Valid(gb[w])) /\ mb[w] = 0
      /\ at[w] = "forward" => mb[w] = 0 /\ IF RowsOut THEN entered[w] = << >> ELSE Latest(w, Valid(gb[w]))
      /\ at[w] = "backward" => /\ mb[w] \in 1..Number(gb[w])
                               /\ Latest(w, Forward(gb[w], mb[w] - 1))
      /\ at[w] = "step" => Latest(w, Norm(gb[w])) /\ Stepping
      /\ at[w] = "share" => Latest(w, Metrics(gb[w])) /\ ask.worker = "megatron"
  BY DEF InStepBy
<1>2. /\ ask.call \in {"train", "eval", "logprobs", "reference", "generate"}
      /\ RowsOut <=> ask.call \in {"logprobs", "reference", "generate"}
  BY CallTypes DEF Placed, RowsOut, Scoring
<1>3. CASE StartTrain(w)
  <2>1. at' = [at EXCEPT ![w] = "batch"] /\ entered' = entered /\ gb' = gb
        /\ at[w] = "called" /\ ask.worker # "megatron"
    BY <1>3 DEF StartTrain
  <2>2. StaysTo(w, "batch")
    BY <1>1, <2>1 DEF StaysTo
  <2> QED BY <1>0, <2>1, <2>2, InStepStaying
<1>4. CASE StartRows(w) \/ SwapReference(w)
  <2>1. at' = [at EXCEPT ![w] = "forward"] /\ entered' = entered /\ gb' = gb /\ mb' = mb
        /\ at[w] = "called" /\ RowsOut
    BY <1>2, <1>4 DEF StartRows, SwapReference
  <2>2. StaysTo(w, "forward")
    BY <1>0, <1>1, <2>1 DEF StaysTo
  <2> QED BY <1>0, <2>1, <2>2, InStepStaying
<1>5. CASE NextBatch(w)
  <2>1. /\ at[w] \in {"batch", "sized"} /\ gb[w] <= GlobalBatches /\ gb' = gb
        /\ at' = [at EXCEPT ![w] = "normalise"] /\ mb'[w] = 0
        /\ entered' = [entered EXCEPT ![w] = Append(@, Valid(gb[w]))]
    BY <1>0, <1>5 DEF NextBatch, Enter, Valid
  <2>2. ~RowsOut
    BY <1>0, <2>1 DEF Scored
  <2>3. EntersTo(w, "normalise", Valid(gb[w]))
    BY <2>1 DEF EntersTo
  <2>4. \/ entered[w] = << >> /\ Valid(gb[w]) = Opening
        \/ \E l : Latest(w, l) /\ Follows(l, Valid(gb[w]))
    <3>1. CASE at[w] = "sized"
      BY <1>1, <3>1, FollowsAll
    <3>2. CASE at[w] = "batch" /\ gb[w] = 1
      BY <1>1, <2>2, <3>2 DEF Opening
    <3>3. CASE at[w] = "batch" /\ gb[w] # 1
      <4>1. gb[w] - 1 \in 1..GlobalBatches /\ gb[w] - 1 < GlobalBatches /\ (gb[w] - 1) + 1 = gb[w]
        BY <1>0, <2>1, <3>3
      <4>2. Latest(w, Closing(gb[w] - 1)) /\ (Stepping \/ Number(gb[w] - 1) \in Nat \ {0})
        BY <1>1, <3>3
      <4>3. Follows(Closing(gb[w] - 1), After(gb[w] - 1))
        BY <2>2, <4>1, <4>2, ClosingFollows
      <4> QED BY <4>1, <4>2, <4>3 DEF After
    <3> QED BY <2>1, <3>1, <3>2, <3>3
  <2> QED BY <1>0, <2>1, <2>3, <2>4, InStepEntering
<1>6. CASE Normalise(w)
  <2>1. /\ at[w] = "normalise" /\ at' = [at EXCEPT ![w] = "forward"] /\ entered' = entered
        /\ gb' = gb /\ mb' = mb
    BY <1>6 DEF Normalise
  <2>2. ~RowsOut
    BY <1>0, <2>1 DEF Scored
  <2>3. StaysTo(w, "forward")
    BY <1>1, <2>1, <2>2 DEF StaysTo
  <2> QED BY <1>0, <2>1, <2>3, InStepStaying
<1>7. CASE UnevenRaises(w) \/ EmbeddingRaises(w) \/ MegatronStepRaises(w)
  <2>1. at' = [at EXCEPT ![w] = "raised"] /\ entered' = entered
    BY <1>7 DEF UnevenRaises, EmbeddingRaises, MegatronStepRaises
  <2>2. StaysTo(w, "raised")
    BY DEF StaysTo
  <2> QED BY <1>0, <2>1, <2>2, InStepStaying
<1>8. CASE ReturnLosses(w) \/ ReturnRows(w)
  <2>1. at' = [at EXCEPT ![w] = "returned"] /\ entered' = entered
    BY <1>8 DEF ReturnLosses, ReturnRows
  <2>2. StaysTo(w, "returned")
    BY DEF StaysTo
  <2> QED BY <1>0, <2>1, <2>2, InStepStaying
<1>9. CASE NextEval(w)
  <2>1. /\ at[w] = "backward" /\ mb[w] = Len(Microbatches(w)) /\ ~Stepping /\ ~RowsOut
        /\ at' = [at EXCEPT ![w] = "batch"] /\ entered' = entered /\ gb' = [gb EXCEPT ![w] = @ + 1]
        /\ ask.worker # "megatron"
    BY <1>2, <1>9 DEF NextEval, Forwarded, Stepping
  <2>2. /\ gb'[w] = gb[w] + 1 /\ gb'[w] - 1 = gb[w] /\ gb[w] \in 1..GlobalBatches
        /\ Number(gb[w]) = mb[w] /\ Number(gb[w]) \in Nat \ {0}
    <3>1. gb'[w] = gb[w] + 1 /\ gb[w] \in Nat
      BY <1>0, <2>1
    <3>2. gb[w] \in 1..GlobalBatches /\ Number(gb[w]) = mb[w]
      BY <1>0, <2>1
    <3>3. mb[w] \in 1..Number(gb[w])
      BY <1>1, <2>1
    <3> QED BY <1>0, <3>1, <3>2, <3>3
  <2>3. Closing(gb[w]) = Forward(gb[w], mb[w] - 1)
    BY <2>1, <2>2 DEF Closing
  <2>4. StaysTo(w, "batch")
    BY <1>0, <1>1, <2>1, <2>2, <2>3 DEF StaysTo
  <2> QED BY <1>0, <2>1, <2>4, InStepStaying
<1>10. CASE DTensorStep(w) \/ FSDP1Step(w) \/ ShareMetrics(w)
  <2>1. /\ at[w] \in {"step", "share"} /\ (at[w] = "step" => ask.worker # "megatron")
        /\ at' = [at EXCEPT ![w] = "batch"] /\ entered' = entered /\ gb' = [gb EXCEPT ![w] = @ + 1]
    BY <1>10 DEF DTensorStep, FSDP1Step, ShareMetrics
  <2>2. gb'[w] = gb[w] + 1 /\ gb'[w] - 1 = gb[w] /\ gb[w] \in 1..GlobalBatches
    <3>1. gb'[w] = gb[w] + 1 /\ gb[w] \in Nat
      BY <1>0, <2>1
    <3>2. gb[w] \in 1..GlobalBatches
      BY <1>0, <2>1
    <3> QED BY <3>1, <3>2
  <2>3. Latest(w, Closing(gb[w])) /\ Stepping
    BY <1>1, <2>1 DEF Closing, Stepping
  <2>4. StaysTo(w, "batch")
    BY <1>0, <2>1, <2>2, <2>3 DEF StaysTo
  <2> QED BY <1>0, <2>1, <2>4, InStepStaying
<1>11. CASE SumLosses(w)
  <2>1. /\ at[w] \in {"batch", "sized"} /\ gb[w] > GlobalBatches /\ gb' = gb
        /\ at' = [at EXCEPT ![w] = "losses"]
        /\ entered' = [entered EXCEPT ![w] = Append(@, Losses)]
    BY <1>11 DEF SumLosses, Enter, Losses
  <2>2. ~RowsOut
    BY <1>0, <2>1 DEF Scored
  <2>3. EntersTo(w, "losses", Losses)
    BY DEF EntersTo
  <2>4. at[w] = "batch" /\ gb[w] # 1 /\ gb[w] - 1 = GlobalBatches
    BY <1>0, <1>1, <2>1
  <2>5. Latest(w, Closing(GlobalBatches)) /\ (Stepping \/ Number(GlobalBatches) \in Nat \ {0})
    BY <1>1, <2>4
  <2>6. Follows(Closing(GlobalBatches), Losses)
    <3>1. GlobalBatches \in 1..GlobalBatches /\ After(GlobalBatches) = Losses
      BY <1>0 DEF After
    <3> QED BY <2>2, <2>5, <3>1, ClosingFollows
  <2> QED BY <1>0, <2>1, <2>3, <2>5, <2>6, InStepEntering
<1>12. CASE \/ DTensorTrainForward(w) \/ DTensorScore(w) \/ FSDP1TrainForward(w)
            \/ FSDP1Score(w) \/ FSDP1Generate(w) \/ MegatronSchedule(w) \/ MegatronScore(w)
  <2>1. /\ at[w] \in {"forward", "backward"} /\ mb[w] < Len(Microbatches(w)) /\ gb' = gb /\ ~Uneven
        /\ ThroughModel(w, Microbatch(w))
    BY <1>12 DEF DTensorTrainForward, DTensorScore, FSDP1TrainForward, FSDP1Score, FSDP1Generate,
       MegatronSchedule, MegatronScore, DTensorForward, FSDP1Through, NextForward
  <2>2. /\ at' = [at EXCEPT ![w] = "backward"] /\ mb' = [mb EXCEPT ![w] = @ + 1]
        /\ entered' = [entered EXCEPT ![w] = Append(@, Forward(gb[w], mb[w]))]
    BY <2>1 DEF ThroughModel, Enter, Forward
  <2>3. /\ gb[w] \in 1..GlobalBatches /\ Number(gb[w]) = Len(Microbatches(w)) /\ Number(gb[w]) \in Nat
        /\ mb'[w] = mb[w] + 1 /\ mb'[w] - 1 = mb[w] /\ mb[w] < Number(gb[w])
    <3>1. gb[w] \in 1..GlobalBatches /\ Number(gb[w]) = Len(Microbatches(w))
      BY <1>0, <2>1
    <3>2. Len(Microbatches(w)) \in Nat
      BY <2>1, MicrobatchCount DEF InBatch
    <3> QED BY <1>0, <2>1, <2>2, <3>1, <3>2
  <2>4. EntersTo(w, "backward", Forward(gb[w], mb[w]))
    BY <1>0, <2>3 DEF EntersTo
  <2>5. \/ entered[w] = << >> /\ Forward(gb[w], mb[w]) = Opening
        \/ \E l : Latest(w, l) /\ Follows(l, Forward(gb[w], mb[w]))
    <3>1. CASE at[w] = "forward" /\ RowsOut
      BY <1>0, <1>1, <3>1 DEF Opening
    <3>2. CASE at[w] = "forward" /\ ~RowsOut
      BY <1>1, <2>3, <3>2, FollowsAll
    <3>3. CASE at[w] = "backward"
      BY <1>1, <2>3, <3>3, ForwardFollows
    <3> QED BY <2>1, <3>1, <3>2, <3>3
  <2> QED BY <1>0, <2>1, <2>2, <2>4, <2>5, InStepEntering
<1>13. CASE DTensorGradNorm(w) \/ FSDP1GradNorm(w) \/ MegatronGradNorm(w)
  <2>1. /\ at[w] = "backward" /\ mb[w] = Len(Microbatches(w)) /\ gb' = gb /\ Stepping /\ ~RowsOut
        /\ at' = [at EXCEPT ![w] = "step"]
        /\ entered' = [entered EXCEPT ![w] = Append(@, Norm(gb[w]))]
    BY <1>2, <1>13 DEF DTensorGradNorm, FSDP1GradNorm, MegatronGradNorm, Forwarded, Enter, Norm, Stepping
  <2>2. EntersTo(w, "step", Norm(gb[w]))
    BY <2>1 DEF EntersTo
  <2>3. Latest(w, Forward(gb[w], mb[w] - 1)) /\ Follows(Forward(gb[w], mb[w] - 1), Norm(gb[w]))
    BY <1>0, <1>1, <2>1, ForwardFollows
  <2> QED BY <1>0, <2>1, <2>2, <2>3, InStepEntering
<1>14. CASE MegatronStart(w)
  <2>1. /\ at[w] = "called" /\ ask.worker = "megatron" /\ ~RowsOut /\ gb' = gb
        /\ at' = [at EXCEPT ![w] = "sized"] /\ entered' = [entered EXCEPT ![w] = Append(@, Size)]
    BY <1>2, <1>14 DEF MegatronStart, Enter, Size
  <2>2. EntersTo(w, "sized", Size)
    BY <1>1, <2>1 DEF EntersTo
  <2>3. entered[w] = << >> /\ Size = Opening
    BY <1>1, <2>1 DEF Opening
  <2> QED BY <1>0, <2>1, <2>2, <2>3, InStepEntering
<1>15. CASE MegatronStep(w)
  <2>1. /\ at[w] = "step" /\ ask.worker = "megatron" /\ gb' = gb
        /\ at' = [at EXCEPT ![w] = "share"]
        /\ entered' = [entered EXCEPT ![w] = Append(@, Metrics(gb[w]))]
    BY <1>15 DEF MegatronStep, Enter, Metrics
  <2>2. EntersTo(w, "share", Metrics(gb[w]))
    BY <2>1 DEF EntersTo
  <2>3. Latest(w, Norm(gb[w])) /\ Follows(Norm(gb[w]), Metrics(gb[w]))
    BY <1>0, <1>1, <2>1, FollowsAll
  <2> QED BY <1>0, <2>1, <2>2, <2>3, InStepEntering
<1>16. CASE ShareRows(w)
  <2>1. /\ at[w] = "backward" /\ mb[w] = Len(Microbatches(w)) /\ RowsOut /\ gb' = gb
        /\ at' = [at EXCEPT ![w] = "rows"]
        /\ entered' = [entered EXCEPT ![w] = Append(@, RowsShared)]
    BY <1>2, <1>16 DEF ShareRows, Forwarded, Enter, RowsShared
  <2>2. EntersTo(w, "rows", RowsShared)
    BY DEF EntersTo
  <2>3. Latest(w, Forward(gb[w], mb[w] - 1)) /\ Follows(Forward(gb[w], mb[w] - 1), RowsShared)
    BY <1>0, <1>1, <2>1, ForwardFollows
  <2> QED BY <1>0, <2>1, <2>2, <2>3, InStepEntering
<1> QED BY <1>3, <1>4, <1>5, <1>6, <1>7, <1>8, <1>9, <1>10, <1>11, <1>12, <1>13, <1>14, <1>15, <1>16
        DEF Work

LEMMA InStepInit == Init => InStep /\ Entered
<1> SUFFICES ASSUME Init PROVE InStep /\ Entered
  OBVIOUS
<1>1. /\ at = [w \in Workers |-> "idle"] /\ gb = [w \in Workers |-> 1]
      /\ entered = [w \in Workers |-> << >>]
  BY DEF Init
<1>2. Chain(<< >>)
  BY DEF Chain
<1>3. Entered
  <2>1. entered \in [Workers -> Seq({})]
    BY <1>1
  <2> QED BY <2>1 DEF Entered
<1>4. ASSUME NEW w \in Workers PROVE InStepBy(w)
  <2>1. at[w] = "idle" /\ gb[w] = 1 /\ entered[w] = << >>
    BY <1>1
  <2> QED BY <1>2, <2>1 DEF InStepBy
<1> QED BY <1>3, <1>4 DEF InStep

LEMMA InStepSame ==
  ASSUME held' = held, shards' = shards, NEW w, InStepBy(w), at'[w] = at[w], gb'[w] = gb[w],
         mb'[w] = mb[w], entered'[w] = entered[w]
  PROVE  InStepBy(w)'
<1>1. /\ ask' = ask /\ (Stepping' <=> Stepping) /\ GlobalBatches' = GlobalBatches
      /\ (RowsOut' <=> RowsOut)
  BY HeldFacts, FollowsSame
<1>2. Chain(entered[w])'
  BY ChainSame DEF InStepBy
<1>3. /\ Number(gb[w])' = Number(gb[w]) /\ Number(gb[w] - 1)' = Number(gb[w] - 1)
      /\ Closing(gb[w] - 1)' = Closing(gb[w] - 1) /\ Valid(gb[w])' = Valid(gb[w])
      /\ Norm(gb[w])' = Norm(gb[w]) /\ Metrics(gb[w])' = Metrics(gb[w]) /\ Size' = Size
      /\ Forward(gb[w], mb[w] - 1)' = Forward(gb[w], mb[w] - 1)
  <2>1. /\ Number(gb[w])' = Number(gb[w]) /\ Number(gb[w] - 1)' = Number(gb[w] - 1)
        /\ Closing(gb[w] - 1)' = Closing(gb[w] - 1)
    <3>1. LocalSize' = LocalSize
      BY HeldFacts
    <3>2. Number(gb[w])' = Number(gb[w]) /\ Number(gb[w] - 1)' = Number(gb[w] - 1)
      BY <1>1, <3>1 DEF Number
    <3>3. Closing(gb[w] - 1)' = Closing(gb[w] - 1)
      BY <1>1, <3>2 DEF Closing, Metrics, Norm, Forward
    <3> QED BY <3>2, <3>3
  <2>2. /\ Valid(gb[w])' = Valid(gb[w]) /\ Norm(gb[w])' = Norm(gb[w]) /\ Size' = Size
        /\ Metrics(gb[w])' = Metrics(gb[w]) /\ Forward(gb[w], mb[w] - 1)' = Forward(gb[w], mb[w] - 1)
    BY DEF Valid, Metrics, Norm, Forward, Size
  <2> QED BY <2>1, <2>2
<1>4. /\ Latest(w, Closing(gb[w] - 1))' <=> Latest(w, Closing(gb[w] - 1))
      /\ Latest(w, Valid(gb[w]))' <=> Latest(w, Valid(gb[w]))
      /\ Latest(w, Norm(gb[w]))' <=> Latest(w, Norm(gb[w]))
      /\ Latest(w, Metrics(gb[w]))' <=> Latest(w, Metrics(gb[w]))
      /\ Latest(w, Size)' <=> Latest(w, Size)
      /\ Latest(w, Forward(gb[w], mb[w] - 1))' <=> Latest(w, Forward(gb[w], mb[w] - 1))
  BY <1>3 DEF Latest
<1> QED BY <1>1, <1>2, <1>3, <1>4 DEF InStepBy

\* A step of a worker is its own.
LEMMA OthersKept ==
  ASSUME NEW w \in Workers, Work(w), mb \in [Workers -> Nat]
  PROVE  \A v \in Workers : v # w => mb'[v] = mb[v]
<1> USE DEF kept, atWork
<1>1. mb' = mb \/ \E n : mb' = [mb EXCEPT ![w] = n]
  <2>1. CASE \/ StartTrain(w) \/ StartRows(w) \/ SwapReference(w) \/ Normalise(w) \/ UnevenRaises(w)
             \/ NextEval(w) \/ SumLosses(w) \/ ReturnLosses(w) \/ ReturnRows(w)
    BY <2>1 DEF StartTrain, StartRows, SwapReference, Normalise, UnevenRaises, NextEval, SumLosses,
       ReturnLosses, ReturnRows
  <2>2. CASE \/ EmbeddingRaises(w) \/ DTensorGradNorm(w) \/ DTensorStep(w) \/ FSDP1GradNorm(w)
             \/ FSDP1Step(w) \/ MegatronStart(w) \/ MegatronGradNorm(w) \/ MegatronStep(w)
             \/ MegatronStepRaises(w) \/ ShareMetrics(w) \/ ShareRows(w)
    BY <2>2 DEF EmbeddingRaises, DTensorGradNorm, DTensorStep, FSDP1GradNorm, FSDP1Step,
       MegatronStart, MegatronGradNorm, MegatronStep, MegatronStepRaises, ShareMetrics, ShareRows
  <2>3. CASE NextBatch(w)
    BY <2>3 DEF NextBatch
  <2>4. CASE \/ DTensorTrainForward(w) \/ DTensorScore(w) \/ FSDP1TrainForward(w)
             \/ FSDP1Score(w) \/ FSDP1Generate(w) \/ MegatronSchedule(w) \/ MegatronScore(w)
    <3>1. ThroughModel(w, Microbatch(w))
      BY <2>4 DEF DTensorTrainForward, DTensorScore, FSDP1TrainForward, FSDP1Score, FSDP1Generate,
         MegatronSchedule, MegatronScore, DTensorForward, FSDP1Through
    <3>2. mb' = [mb EXCEPT ![w] = mb[w] + 1]
      BY <3>1 DEF ThroughModel
    <3> QED BY <3>2
  <2> QED BY <2>1, <2>2, <2>3, <2>4 DEF Work
<1> QED BY <1>1

LEMMA InStepNext == Placed /\ RowsKept /\ InStep /\ Entered /\ [Next]_vars => InStep' /\ Entered'
<1> SUFFICES ASSUME Placed, RowsKept, InStep, Entered, [Next]_vars PROVE InStep' /\ Entered'
  OBVIOUS
<1>0. /\ at \in [Workers -> Places] /\ gb \in [Workers -> Nat \ {0}] /\ mb \in [Workers -> Nat]
      /\ \A w \in Workers : InStepBy(w)
      /\ pc \in {"call", "refused"} => \A w \in Workers : at[w] = "idle"
  BY DEF InStep, Placed, RowsKept
<1>1. ASSUME Calling, ~Refuse PROVE InStep' /\ Entered'
  <2>1. /\ pc = "call" /\ at' = [w \in Workers |-> "called"] /\ held' = held /\ gb' = gb
        /\ entered' = entered
    BY <1>1 DEF Calling, CallTrain, CallLogprobs, CallReference, CallGenerate, Dispatch, atWork
  <2>2. Workers' = Workers
    BY <2>1, HeldFacts
  <2>3. ASSUME NEW w \in Workers PROVE InStepBy(w)'
    <3>1. at[w] = "idle"
      BY <1>0, <2>1
    <3>2. entered[w] = << >> /\ gb[w] = 1
      BY <1>0, <3>1 DEF InStepBy
    <3>3. entered'[w] = << >> /\ gb'[w] = 1 /\ at'[w] = "called"
      BY <2>1, <3>2
    <3>4. Chain(entered[w])'
      BY <3>3 DEF Chain
    <3> QED BY <3>3, <3>4 DEF InStepBy
  <2> QED BY <2>1, <2>2, <2>3 DEF InStep, Entered
<1>2. ASSUME \/ Refuse \/ Gathering \/ UNCHANGED vars PROVE InStep' /\ Entered'
  <2>1. /\ held' = held /\ shards' = shards /\ at' = at /\ gb' = gb /\ mb' = mb
        /\ entered' = entered
    BY <1>2 DEF Refuse, Gathering, CollectTrain, CollectRows, CollectRaises, atWork, vars, held
  <2>2. Workers' = Workers
    BY <2>1, HeldFacts
  <2>3. ASSUME NEW w \in Workers PROVE InStepBy(w)'
    BY <1>0, <2>1, InStepSame
  <2> QED BY <2>1, <2>2, <2>3 DEF InStep, Entered
<1>3. ASSUME NEW w \in Workers, Work(w) PROVE InStep' /\ Entered'
  <2>1. Grown(w)
    BY <1>0, <1>3, InStepKept
  <2>2. PICK to \in Places : Moves(w, to)
    BY <1>3, WorkerMoves
  <2>3. /\ held' = held /\ shards' = shards /\ at' = [at EXCEPT ![w] = to]
        /\ gb' = gb \/ gb' = [gb EXCEPT ![w] = gb[w] + 1]
    BY <2>2 DEF Moves, kept
  <2>4. Workers' = Workers
    BY <2>3, HeldFacts
  <2>5. ASSUME NEW v \in Workers, v # w PROVE InStepBy(v)'
    <3>1. at'[v] = at[v] /\ gb'[v] = gb[v]
      BY <1>0, <2>3, <2>5
    <3>2. mb'[v] = mb[v]
      BY <1>0, <1>3, <2>5, OthersKept
    <3>3. entered'[v] = entered[v]
      BY <2>1, <2>5 DEF Grown
    <3> QED BY <1>0, <2>3, <3>1, <3>2, <3>3, InStepSame
  <2> QED BY <2>1, <2>4, <2>5 DEF InStep, Grown
<1> QED BY <1>1, <1>2, <1>3 DEF Next, Calling

\* The calls counted up to one of them are fewer than up to the next.
CallsTo(s, C, i) == {k \in 1..i : s[k][1] \in C}
LEMMA CallsFinite == ASSUME NEW s, NEW C, NEW i \in Nat PROVE IsFiniteSet(CallsTo(s, C, i))
<1>1. IsFiniteSet(1..i) /\ CallsTo(s, C, i) \subseteq 1..i
  BY FS_Interval DEF CallsTo
<1> QED BY <1>1, FS_Subset

LEMMA CallsCounted ==
  ASSUME NEW s, NEW C, NEW i \in Nat, NEW j \in Nat, i < j, s[j][1] \in C
  PROVE  Cardinality(CallsTo(s, C, i)) < Cardinality(CallsTo(s, C, j))
<1>1. IsFiniteSet(CallsTo(s, C, j))
  BY CallsFinite
<1>2. CallsTo(s, C, i) \subseteq CallsTo(s, C, j) /\ j \in CallsTo(s, C, j) /\ j \notin CallsTo(s, C, i)
  BY DEF CallsTo
<1>3. /\ Cardinality(CallsTo(s, C, i)) <= Cardinality(CallsTo(s, C, j))
      /\ Cardinality(CallsTo(s, C, i)) # Cardinality(CallsTo(s, C, j))
      /\ IsFiniteSet(CallsTo(s, C, i))
  BY <1>1, <1>2, FS_Subset
<1>4. Cardinality(CallsTo(s, C, i)) \in Nat /\ Cardinality(CallsTo(s, C, j)) \in Nat
  BY <1>1, <1>3, FS_CardinalityType
<1> QED BY <1>3, <1>4

\* The same calls of the two, as long as both go.
LEMMA CallsAgree ==
  ASSUME NEW s, NEW t, NEW C, NEW i \in Nat, \A k \in 1..i : s[k] = t[k]
  PROVE  CallsTo(s, C, i) = CallsTo(t, C, i)
BY DEF CallsTo

LEMMA SameNumber ==
  ASSUME NEW S, NEW s \in Seq(S), NEW t \in Seq(S), Chain(s), Chain(t), NEW C,
         NEW i \in DOMAIN s, NEW j \in DOMAIN t, s[i][1] \in C, t[j][1] \in C,
         Cardinality(CallsTo(s, C, i)) = Cardinality(CallsTo(t, C, j))
  PROVE  s[i] = t[j]
<1>1. \A k \in Nat \ {0} : k <= Len(s) /\ k <= Len(t) => s[k] = t[k]
  BY ChainsAgree
<1>2. /\ i \in Nat \ {0} /\ j \in Nat \ {0} /\ i <= Len(s) /\ j <= Len(t)
      /\ Len(s) \in Nat /\ Len(t) \in Nat
  OBVIOUS
<1>3. CASE i = j
  BY <1>1, <1>2, <1>3
<1>4. CASE i < j
  <2>1. \A k \in 1..i : s[k] = t[k]
    BY <1>1, <1>2, <1>4
  <2>2. CallsTo(s, C, i) = CallsTo(t, C, i)
    BY <1>2, <2>1, CallsAgree
  <2>3. Cardinality(CallsTo(t, C, i)) < Cardinality(CallsTo(t, C, j))
    BY <1>2, <1>4, CallsCounted
  <2>4. IsFiniteSet(CallsTo(t, C, j))
    BY <1>2, CallsFinite
  <2> QED BY <2>2, <2>3, <2>4, FS_CardinalityType
<1>5. CASE j < i
  <2>1. \A k \in 1..j : s[k] = t[k]
    BY <1>1, <1>2, <1>5
  <2>2. CallsTo(s, C, j) = CallsTo(t, C, j)
    BY <1>2, <2>1, CallsAgree
  <2>3. Cardinality(CallsTo(s, C, j)) < Cardinality(CallsTo(s, C, i))
    BY <1>2, <1>5, CallsCounted
  <2>4. IsFiniteSet(CallsTo(s, C, i))
    BY <1>2, CallsFinite
  <2> QED BY <2>2, <2>3, <2>4, FS_CardinalityType
<1> QED BY <1>2, <1>3, <1>4, <1>5

\* Workers never meet in different collectives: call number n of two workers
\* on the communicators they share is the same (batched_data_dict.py 400-411).
THEOREM CollectivesAgree == Spec => []CollectivesMatch
<1>1. InStep /\ Entered => CollectivesMatch
  <2> SUFFICES ASSUME InStep, Entered, NEW w \in Workers, NEW v \in Workers,
                      NEW shared, shared = {c \in Comms : v \in Members(c, w)},
                      NEW i \in DOMAIN entered[w], NEW j \in DOMAIN entered[v],
                      entered[w][i][1] \in shared, entered[v][j][1] \in shared,
                      NumberOn(w, shared, i) = NumberOn(v, shared, j)
               PROVE  entered[w][i] = entered[v][j]
    BY DEF CollectivesMatch
  <2>1. PICK S : entered \in [Workers -> Seq(S)]
    BY DEF Entered
  <2>2. entered[w] \in Seq(S) /\ entered[v] \in Seq(S)
    BY <2>1
  <2>3. Chain(entered[w]) /\ Chain(entered[v])
    BY DEF InStep, InStepBy
  <2>4. \A u, k : NumberOn(u, shared, k) = Cardinality(CallsTo(entered[u], shared, k))
    BY DEF NumberOn, CallsTo
  <2> QED BY <2>2, <2>3, <2>4, SameNumber
<1> QED BY <1>1, PlacedInit, PlacedNext, RowsKeptInit, RowsKeptNext, InStepInit, InStepNext, PTL
        DEF Spec

-----------------------------------------------------------------------------
(***************************************************************************)
(* The shards of a global batch hold the caller's chunk, every sample once.*)
(***************************************************************************)

\* A bijection finds as many elements of a part of its range as there are.
LEMMA CountThrough ==
  ASSUME NEW S, NEW T, IsFiniteSet(S), NEW f \in [S -> T], NEW P \in SUBSET T,
         \A x, y \in S : f[x] = f[y] => x = y, \A t \in T : \E x \in S : f[x] = t
  PROVE  Cardinality({x \in S : f[x] \in P}) = Cardinality(P)
<1> DEFINE Q == {x \in S : f[x] \in P}
           h == [x \in Q |-> f[x]]
<1>1. IsFiniteSet(Q)
  BY FS_Subset
<1>2. h \in Bijection(Q, P)
  <2>1. h \in [Q -> P]
    OBVIOUS
  <2>2. \A x, y \in Q : h[x] = h[y] => x = y
    OBVIOUS
  <2>3. \A t \in P : \E x \in Q : h[x] = t
    OBVIOUS
  <2> HIDE DEF h, Q
  <2> QED BY <2>1, <2>2, <2>3 DEF Bijection, Injection, Surjection, IsInjective
<1>3. ExistsBijection(Q, P)
  BY <1>2 DEF ExistsBijection
<1> HIDE DEF Q
<1>4. Cardinality(P) = Cardinality(Q)
  BY <1>1, <1>3, FS_Bijection
<1> QED BY <1>4 DEF Q

LEMMA CountUpTo ==
  ASSUME NEW n \in Nat PROVE IsFiniteSet(1..n) /\ Cardinality(1..n) = n
<1>1. 1 \in Int /\ n \in Int
  OBVIOUS
<1>2. IsFiniteSet(1..n) /\ Cardinality(1..n) = IF 1 > n THEN 0 ELSE n - 1 + 1
  BY <1>1, FS_Interval
<1> QED BY <1>2

LEMMA CountPairs ==
  ASSUME NEW m \in Nat, NEW n \in Nat, NEW b, m * n = b
  PROVE  IsFiniteSet((1..m) \X (1..n)) /\ Cardinality((1..m) \X (1..n)) = b
<1>1. IsFiniteSet(1..m) /\ Cardinality(1..m) = m /\ IsFiniteSet(1..n) /\ Cardinality(1..n) = n
  BY CountUpTo
<1>2. /\ IsFiniteSet((1..m) \X (1..n))
      /\ Cardinality((1..m) \X (1..n)) = Cardinality(1..m) * Cardinality(1..n)
  BY <1>1, FS_Product
<1>3. Cardinality(1..m) * Cardinality(1..n) = b
  BY <1>1
<1> QED BY <1>2, <1>3

\* The sample a data parallel rank has as its i-th of global batch g.
Place(g, d, i) == Order[(g - 1) * BatchSize + (d - 1) * LocalSize + i]
Pairs == (1..ask.dp) \X (1..LocalSize)
Spread(g) ==
  /\ \A p \in Pairs : Place(g, p[1], p[2]) \in Chunk(g)
  /\ \A s \in Chunk(g) : \E p \in Pairs : Place(g, p[1], p[2]) = s
  /\ \A p, q \in Pairs : Place(g, p[1], p[2]) = Place(g, q[1], q[2]) => p = q

LEMMA TrainSizes ==
  ASSUME ask \in Calls, batch \in Batches, Accepted, ~RowsOut
  PROVE  /\ Shards = ask.dp /\ ask.dp \in Nat \ {0} /\ BatchSize = ask.gbs /\ ask.gbs \in Nat \ {0}
         /\ LocalSize \in Nat \ {0} /\ ask.dp * LocalSize = ask.gbs
         /\ IsFiniteSet(Pairs) /\ Cardinality(Pairs) = ask.gbs
         /\ GlobalBatches \in Nat \ {0} /\ N \div ask.gbs = GlobalBatches
         /\ \A w \in Workers : ShardOf(w) = w[1] /\ w[1] \in 1..ask.dp
<1>1. /\ RowPeers = 1 /\ BatchSize = ask.gbs /\ ~Scoring
  BY DEF RowPeers, BatchSize, RowsOut
<1>2. ask.dp \in Nat \ {0} /\ ask.gbs \in Nat \ {0}
  BY CallTypes
<1>3. Shards = ask.dp
  BY <1>1, <1>2, SizeTypes
<1>4. /\ LocalSize \in Nat \ {0} /\ GlobalBatches \in Nat \ {0} /\ BatchSize = LocalSize * Shards
  BY SizeFacts DEF Product
<1>5. ask.dp * LocalSize = ask.gbs
  <2>1. LocalSize * ask.dp = ask.dp * LocalSize
    BY <1>2, <1>4
  <2> QED BY <1>1, <1>3, <1>4, <2>1
<1>6. IsFiniteSet(Pairs) /\ Cardinality(Pairs) = ask.gbs
  <2> DEFINE m == ask.dp
             n == LocalSize
             b == ask.gbs
  <2>1. m \in Nat /\ n \in Nat /\ m * n = b
    BY <1>2, <1>4, <1>5
  <2>2. Pairs = (1..m) \X (1..n)
    BY DEF Pairs
  <2> HIDE DEF m, n, b
  <2>3. IsFiniteSet(Pairs) /\ Cardinality(Pairs) = b
    BY <2>1, <2>2, CountPairs
  <2> QED BY <2>3 DEF b
<1>7. N \div ask.gbs = GlobalBatches
  BY <1>1 DEF GlobalBatches
<1>8. \A w \in Workers : ShardOf(w) = w[1] /\ w[1] \in 1..ask.dp
  BY <1>1 DEF ShardOf, Workers
<1> QED BY <1>1, <1>2, <1>3, <1>4, <1>5, <1>6, <1>7, <1>8

LEMMA ChunkSpread ==
  ASSUME ask \in Calls, batch \in Batches, Accepted, ~RowsOut, NEW g \in 1..GlobalBatches
  PROVE  /\ Spread(g) /\ Chunk(g) = ChunkOf(g, ask.gbs)
         /\ IsFiniteSet(Chunk(g)) /\ Cardinality(Chunk(g)) = ask.gbs
<1>1. /\ Shards = ask.dp /\ ask.dp \in Nat \ {0} /\ BatchSize = ask.gbs /\ ask.gbs \in Nat \ {0}
      /\ LocalSize \in Nat \ {0} /\ ask.dp * LocalSize = ask.gbs
      /\ IsFiniteSet(Pairs) /\ Cardinality(Pairs) = ask.gbs /\ GlobalBatches \in Nat \ {0}
  BY TrainSizes
<1>2. Chunk(g) = ChunkOf(g, ask.gbs)
  BY DEF Chunk, ChunkOf
<1>3. IsFiniteSet(Chunk(g)) /\ Cardinality(Chunk(g)) = ask.gbs
  <2> DEFINE a == (g - 1) * ask.gbs + 1
             b == g * ask.gbs
  <2>1. a \in Nat \ {0} /\ b = a + ask.gbs - 1
    BY <1>1, ChunkFacts
  <2>2. Chunk(g) = a..b
    BY DEF Chunk
  <2> HIDE DEF a, b
  <2>3. a \in Int /\ b \in Int
    BY <1>1, <2>1
  <2>4. IsFiniteSet(a..b) /\ Cardinality(a..b) = IF a > b THEN 0 ELSE b - a + 1
    BY <2>3, FS_Interval
  <2> QED BY <1>1, <2>1, <2>2, <2>4
<1>4. Dealt(Order, GlobalBatches, ask.gbs)
  BY <1>1, OrderFacts
<1> DEFINE u == (g - 1) * ask.gbs
<1>5. u \in Nat
  BY <1>1
<1>6. ASSUME NEW d \in 1..ask.dp, NEW i \in 1..LocalSize
      PROVE  Place(g, d, i) = Order[u + ((d - 1) * LocalSize + i)]
  <2> DEFINE v == (d - 1) * LocalSize
  <2>1. v \in Nat
    BY <1>1
  <2>2. Place(g, d, i) = Order[u + v + i]
    BY <1>1 DEF Place
  <2> HIDE DEF u, v
  <2>3. u + v + i = u + (v + i)
    BY <1>5, <2>1
  <2> QED BY <2>2, <2>3 DEF v
<1>7. \A i \in 1..ask.gbs : Order[u + i] \in ChunkOf(g, ask.gbs)
  BY <1>4 DEF Dealt
<1>8. \A x \in ChunkOf(g, ask.gbs) : \E i \in 1..ask.gbs : Order[u + i] = x
  BY <1>4 DEF Dealt
<1> HIDE DEF u
<1>9. ASSUME NEW p \in Pairs PROVE Place(g, p[1], p[2]) \in Chunk(g)
  <2>1. p[1] \in 1..ask.dp /\ p[2] \in 1..LocalSize
    BY DEF Pairs
  <2>2. (p[1] - 1) * LocalSize + p[2] \in 1..ask.gbs
    BY <1>1, <2>1, BlockPlace
  <2> QED BY <1>2, <1>6, <1>7, <2>1, <2>2
<1>10. ASSUME NEW s \in Chunk(g) PROVE \E p \in Pairs : Place(g, p[1], p[2]) = s
  <2>1. PICK j \in 1..ask.gbs : Order[u + j] = s
    BY <1>2, <1>8
  <2>2. PICK d \in 1..ask.dp, i \in 1..LocalSize : j = (d - 1) * LocalSize + i
    <3>1. j \in 1..ask.dp * LocalSize /\ ask.dp \in Nat /\ LocalSize \in Nat
      BY <1>1
    <3> QED BY <3>1, PlaceBlock
  <2>3. Place(g, d, i) = s
    BY <1>6, <2>1, <2>2
  <2>4. <<d, i>> \in Pairs
    BY DEF Pairs
  <2> QED BY <2>3, <2>4
<1> DEFINE f == [p \in Pairs |-> Place(g, p[1], p[2])]
<1>11. f \in Surjection(Pairs, Chunk(g))
  <2>1. f \in [Pairs -> Chunk(g)]
    BY <1>9
  <2>2. \A s \in Chunk(g) : \E p \in Pairs : f[p] = s
    BY <1>10
  <2> HIDE DEF f
  <2> QED BY <2>1, <2>2 DEF Surjection
<1>12. f \in Injection(Pairs, Chunk(g))
  <2> HIDE DEF f
  <2> QED BY <1>1, <1>3, <1>11, FS_SurjSameCardinalityImpliesInj
<1>13. \A p, q \in Pairs : Place(g, p[1], p[2]) = Place(g, q[1], q[2]) => p = q
  <2>1. \A p, q \in Pairs : f[p] = f[q] => p = q
    <3> HIDE DEF f
    <3> QED BY <1>12 DEF Injection, IsInjective
  <2> QED BY <2>1
<1> QED BY <1>2, <1>3, <1>9, <1>10, <1>13 DEF Spread

\* What a worker reads of its shard.
LEMMA PlaceRead ==
  ASSUME ask \in Calls, batch \in Batches, Accepted, ~RowsOut, Sent, NEW g \in 1..GlobalBatches,
         NEW w \in Workers, NEW i \in 1..LocalSize
  PROVE  /\ shards[ShardOf(w)].rows[(g - 1) * LocalSize + i] = Place(g, w[1], i)
         /\ GetBatch(shards[ShardOf(w)].rows, g, LocalSize)[i] = Place(g, w[1], i)
<1> DEFINE d == w[1]
<1>1. ShardOf(w) = d /\ d \in 1..Shards
  BY TrainSizes
<1>2. shards[ShardOf(w)].rows = Rows(d)
  <2>1. shards[d] = ShardData(d)
    BY <1>1 DEF Sent
  <2> QED BY <1>1, <2>1 DEF ShardData
<1> HIDE DEF d
<1>3. ShardIs(Rows(d), Order, 1..N, d, GlobalBatches, LocalSize, BatchSize)
  BY <1>1, RowsFacts
<1>4. Rows(d)[(g - 1) * LocalSize + i] = Place(g, d, i)
  BY <1>3 DEF ShardIs, Place
<1>5. GetBatch(Rows(d), g, LocalSize)[i] = Place(g, d, i)
  <2>1. Gets(GetBatch(Rows(d), g, LocalSize), d, g)
    BY <1>1, GetsFacts
  <2> QED BY <2>1 DEF Gets, Place
<1> QED BY <1>2, <1>4, <1>5 DEF d

\* The sum over the data parallel ranks is that over the chunk.
LEMMA ValidCounted ==
  ASSUME ask \in Calls, batch \in Batches, Accepted, ~RowsOut, Sent, NEW w \in Workers,
         gb[w] \in 1..GlobalBatches
  PROVE  GlobalValid(w) = ValidOf(gb[w])
<1> DEFINE g == gb[w]
           f == [p \in Pairs |-> Place(g, p[1], p[2])]
           P == {s \in Chunk(g) : batch.valid[s]}
           V == {e \in Pairs : e[2] \in ValidIn(<<e[1], w[2], w[3]>>, g)}
           Q == {p \in Pairs : f[p] \in P}
<1>1. Spread(g) /\ IsFiniteSet(Pairs)
  BY ChunkSpread, TrainSizes
<1>2. Cardinality(Q) = Cardinality(P)
  <2>1. f \in [Pairs -> Chunk(g)]
    BY <1>1 DEF Spread
  <2>2. \A p, q \in Pairs : f[p] = f[q] => p = q
    BY <1>1 DEF Spread
  <2>3. \A s \in Chunk(g) : \E p \in Pairs : f[p] = s
    BY <1>1 DEF Spread
  <2>4. P \in SUBSET Chunk(g)
    OBVIOUS
  <2> HIDE DEF f, P
  <2> QED BY <1>1, <2>1, <2>2, <2>3, <2>4, CountThrough
<1>3. ASSUME NEW e \in Pairs PROVE e \in V <=> e \in Q
  <2> DEFINE v == <<e[1], w[2], w[3]>>
  <2>1. e[1] \in 1..ask.dp /\ e[2] \in 1..LocalSize /\ v \in Workers /\ v[1] = e[1]
    BY DEF Pairs, Workers
  <2>2. e \in V <=> e[2] \in ValidIn(v, g)
    OBVIOUS
  <2>3. shards[ShardOf(v)].rows[(g - 1) * LocalSize + e[2]] = Place(g, e[1], e[2])
    BY <2>1, PlaceRead
  <2>4. Place(g, e[1], e[2]) \in Chunk(g)
    BY <1>1 DEF Spread
  <2> HIDE DEF v
  <2>5. e[2] \in ValidIn(v, g) <=> batch.valid[Place(g, e[1], e[2])]
    BY <2>1, <2>3, Zenon DEF ValidIn
  <2>6. e \in Q <=> batch.valid[Place(g, e[1], e[2])]
    BY <2>4
  <2> QED BY <2>2, <2>5, <2>6
<1>4. V = Q
  BY <1>3
<1>5. GlobalValid(w) = Cardinality(V)
  BY DEF GlobalValid, Pairs
<1>6. ValidOf(g) = Cardinality(P)
  BY DEF ValidOf
<1> QED BY <1>2, <1>4, <1>5, <1>6

\* The contributions of all ranks are those of the chunk.
LEMMA SummedIs ==
  ASSUME ask \in Calls, batch \in Batches, Accepted, ~RowsOut, Sent, NEW w \in Workers,
         gb[w] \in 1..GlobalBatches,
         \A v \in Workers : grad[v][gb[w]] = Part(v, gb[w])
  PROVE  IsUpdateOf(Summed(w), gb[w])
<1> DEFINE g == gb[w]
           x == ValidOf(g)
           Entry(p) == <<p[1], p[2], <<Place(g, p[1], p[2]), x>>>>
           u == {Entry(p) : p \in Pairs}
           peers == {<<d, w[2], w[3]>> : d \in 1..ask.dp}
           Of(v) == {<<v[1], i, grad[v][g][i]>> : i \in DOMAIN grad[v][g]}
<1>1. Spread(g) /\ IsFiniteSet(Pairs) /\ Cardinality(Pairs) = ask.gbs
  BY ChunkSpread, TrainSizes
<1>2. ASSUME NEW v \in peers
      PROVE  /\ v[1] \in 1..ask.dp /\ DOMAIN grad[v][g] = 1..LocalSize
             /\ \A i \in 1..LocalSize : grad[v][g][i] = <<Place(g, v[1], i), x>>
  <2>1. v \in Workers /\ v[1] \in 1..ask.dp
    BY DEF Workers
  <2>2. grad[v][g] = Part(v, g)
    BY <2>1
  <2>3. ASSUME NEW i \in 1..LocalSize
        PROVE  Part(v, g)[i] = <<Place(g, v[1], i), x>>
    BY <2>1, PlaceRead DEF Part
  <2>4. DOMAIN Part(v, g) = 1..LocalSize
    BY DEF Part
  <2> QED BY <2>1, <2>2, <2>3, <2>4
<1>3. ASSUME NEW d \in 1..ask.dp PROVE \E v \in peers : v[1] = d
  <2>1. <<d, w[2], w[3]>> \in peers /\ <<d, w[2], w[3]>>[1] = d
    OBVIOUS
  <2> QED BY <2>1
<1>4. Summed(w) = UNION {Of(v) : v \in peers}
  BY DEF Summed
<1> HIDE DEF peers
<1>5. Summed(w) = u
  <2>1. ASSUME NEW e \in u PROVE e \in UNION {Of(v) : v \in peers}
    <3>1. PICK p \in Pairs : e = Entry(p)
      OBVIOUS
    <3>2. p[1] \in 1..ask.dp /\ p[2] \in 1..LocalSize
      BY DEF Pairs
    <3>3. PICK v \in peers : v[1] = p[1]
      BY <1>3, <3>2
    <3>4. e = <<v[1], p[2], grad[v][g][p[2]]>> /\ p[2] \in DOMAIN grad[v][g]
      BY <1>2, <3>1, <3>2, <3>3
    <3>5. e \in Of(v)
      BY <3>4
    <3> QED BY <3>5
  <2>2. ASSUME NEW v \in peers, NEW e \in Of(v) PROVE e \in u
    <3>1. PICK i \in 1..LocalSize : e = <<v[1], i, grad[v][g][i]>>
      BY <1>2
    <3>2. <<v[1], i>> \in Pairs
      BY <1>2 DEF Pairs
    <3>3. e = Entry(<<v[1], i>>)
      BY <1>2, <3>1
    <3> QED BY <3>2, <3>3
  <2> HIDE DEF u, Of
  <2> QED BY <1>4, <2>1, <2>2
<1>6. Cardinality(u) = ask.gbs
  <2> DEFINE f == [p \in Pairs |-> Entry(p)]
  <2>1. f \in [Pairs -> u]
    OBVIOUS
  <2>2. \A p, q \in Pairs : f[p] = f[q] => p = q
    <3> SUFFICES ASSUME NEW p \in Pairs, NEW q \in Pairs, f[p] = f[q] PROVE p = q
      OBVIOUS
    <3>1. p[1] = q[1] /\ p[2] = q[2]
      OBVIOUS
    <3> QED BY <3>1 DEF Pairs
  <2>3. \A e \in u : \E p \in Pairs : f[p] = e
    OBVIOUS
  <2> HIDE DEF f, u
  <2>4. f \in Bijection(Pairs, u)
    BY <2>1, <2>2, <2>3 DEF Bijection, Injection, Surjection, IsInjective
  <2>5. ExistsBijection(Pairs, u)
    BY <2>4 DEF ExistsBijection
  <2> QED BY <1>1, <2>5, FS_Bijection
<1>7. {e[3] : e \in u} = Chunk(g) \X {x}
  <2>1. ASSUME NEW e \in u PROVE e[3] \in Chunk(g) \X {x}
    <3>1. PICK p \in Pairs : e = Entry(p)
      OBVIOUS
    <3>2. e[3] = <<Place(g, p[1], p[2]), x>>
      BY <3>1
    <3> QED BY <1>1, <3>2 DEF Spread
  <2>2. ASSUME NEW y \in Chunk(g) \X {x} PROVE \E e \in u : e[3] = y
    <3>1. y = <<y[1], x>> /\ y[1] \in Chunk(g)
      OBVIOUS
    <3>2. PICK p \in Pairs : Place(g, p[1], p[2]) = y[1]
      BY <1>1, <3>1 DEF Spread
    <3>3. Entry(p) \in u /\ Entry(p)[3] = y
      BY <3>1, <3>2
    <3> QED BY <3>3
  <2> HIDE DEF u
  <2> QED BY <2>1, <2>2
<1> HIDE DEF u, x
<1> QED BY <1>5, <1>6, <1>7 DEF IsUpdateOf, x

-----------------------------------------------------------------------------
(***************************************************************************)
(* The gradients of a global batch (Gradients).                            *)
(***************************************************************************)

\* A worker is behind the reduction of the norm only when all workers have
\* entered it.
NormIn(w, g) == \E i \in DOMAIN entered[w] : entered[w][i] = Norm(g)

LEMMA AllInNorm ==
  ASSUME InStep, Entered, NEW w \in Workers, NEW g, Latest(w, Norm(g)), Complete(w, "world"),
         NEW v \in Workers
  PROVE  NormIn(v, g)
<1>1. PICK S : entered \in [Workers -> Seq(S)]
  BY DEF Entered
<1> DEFINE s == entered[w]
           t == entered[v]
           C == {"world"}
<1>2. s \in Seq(S) /\ t \in Seq(S) /\ Len(s) \in Nat /\ Len(t) \in Nat
  BY <1>1
<1>3. Chain(s) /\ Chain(t)
  BY DEF InStep, InStepBy
<1>4. /\ CallsOn(w, "world") = Cardinality(CallsTo(s, C, Len(s)))
      /\ CallsOn(v, "world") = Cardinality(CallsTo(t, C, Len(t)))
  BY DEF CallsOn, NumberOn, CallsTo
<1>5. CallsOn(v, "world") >= CallsOn(w, "world")
  BY DEF Complete, Members
<1>6. s # << >> /\ s[Len(s)] = Norm(g) /\ s[Len(s)][1] \in C
  BY DEF Latest, Norm
<1> HIDE DEF s, t, C
<1>7. \A k \in Nat \ {0} : k <= Len(s) /\ k <= Len(t) => s[k] = t[k]
  BY <1>2, <1>3, ChainsAgree
<1>8. Len(s) \in 1..Len(t)
  <2>1. Len(s) # 0
    BY <1>2, <1>6
  <2>2. ASSUME Len(t) < Len(s) PROVE FALSE
    <3>1. \A k \in 1..Len(t) : s[k] = t[k]
      BY <1>2, <1>7, <2>2
    <3>2. CallsTo(s, C, Len(t)) = CallsTo(t, C, Len(t))
      BY <1>2, <3>1, CallsAgree
    <3>3. Cardinality(CallsTo(s, C, Len(t))) < Cardinality(CallsTo(s, C, Len(s)))
      BY <1>2, <1>6, <2>2, CallsCounted
    <3>4. Cardinality(CallsTo(s, C, Len(s))) \in Nat /\ Cardinality(CallsTo(t, C, Len(t))) \in Nat
      BY <1>2, CallsFinite, FS_CardinalityType
    <3> QED BY <1>4, <1>5, <3>2, <3>3, <3>4
  <2> QED BY <1>2, <2>1, <2>2
<1>9. t[Len(s)] = Norm(g)
  BY <1>2, <1>6, <1>7, <1>8
<1>10. Len(s) \in DOMAIN t
  BY <1>2, <1>8
<1> QED BY <1>9, <1>10 DEF NormIn, t

GradShape == DOMAIN grad = Workers /\ DOMAIN norm = Workers
             /\ \A w \in Workers : DOMAIN grad[w] = 1..GlobalBatches

\* What Gradients says of one global batch and one worker.
Reduced(w, g) == g < gb[w] \/ (g = gb[w] /\ at[w] \in {"step", "share", "raised"})
Untouched(w, g) ==
  g > gb[w] \/ (g = gb[w] /\ at[w] \notin {"backward", "step", "share", "raised"})

LEMMA GradientsSplit ==
  ASSUME NEW w
  PROVE  GradientsBy(w) <=>
           /\ \A g \in 1..GlobalBatches : NormIn(w, g) => Reduced(w, g) /\ grad[w][g] = Part(w, g)
           /\ \A g \in 1..GlobalBatches : Untouched(w, g) => grad[w][g] = << >>
           /\ at[w] \in {"forward", "backward"} => norm[w] = ValidOf(gb[w])
           /\ at[w] = "backward" => ~Uneven /\ grad[w][gb[w]] = Gradient(w, Passed(w))
BY DEF GradientsBy, NormIn, Reduced, Untouched

\* Parts and the numbers of valid samples do not change.
LEMMA PartsSame ==
  ASSUME held' = held, shards' = shards
  PROVE  /\ \A g : ValidOf(g)' = ValidOf(g) /\ \A w : Part(w, g)' = Part(w, g)
         /\ GlobalBatches' = GlobalBatches /\ Workers' = Workers /\ ask' = ask /\ (Uneven' <=> Uneven)
<1>1. ask' = ask /\ batch' = batch /\ LocalSize' = LocalSize /\ GlobalBatches' = GlobalBatches
      /\ Workers' = Workers /\ (Uneven' <=> Uneven) /\ (Scoring' <=> Scoring)
  BY HeldFacts
<1>2. \A g : ValidOf(g)' = ValidOf(g)
  BY <1>1 DEF ValidOf, Chunk
<1>3. \A w : ShardOf(w)' = ShardOf(w)
  BY <1>1 DEF ShardOf
<1>4. \A g, w : Part(w, g)' = Part(w, g)
  BY <1>1, <1>2, <1>3 DEF Part
<1> QED BY <1>1, <1>2, <1>4

\* Entering a collective adds it.
LEMMA NormsGrow ==
  ASSUME Entered, NEW w \in Workers, NEW e, entered' = [entered EXCEPT ![w] = Append(@, e)]
  PROVE  \A g : NormIn(w, g)' <=> NormIn(w, g) \/ e = Norm(g)
<1>1. PICK S : entered \in [Workers -> Seq(S)]
  BY DEF Entered
<1> DEFINE s == entered[w]
           t == Append(s, e)
<1>2. s \in Seq(S) /\ entered'[w] = t
  BY <1>1
<1>3. Len(s) \in Nat /\ DOMAIN s = 1..Len(s)
  BY <1>2
<1>4. /\ DOMAIN t = 1..(Len(s) + 1) /\ t[Len(s) + 1] = e /\ \A i \in 1..Len(s) : t[i] = s[i]
  BY <1>2
<1> HIDE DEF t
<1>5. ASSUME NEW x PROVE (\E i \in DOMAIN t : t[i] = x) <=> (\E i \in DOMAIN s : s[i] = x) \/ e = x
  <2> HIDE DEF s
  <2>1. ASSUME NEW i \in DOMAIN t, t[i] = x PROVE (\E j \in DOMAIN s : s[j] = x) \/ e = x
    BY <1>3, <1>4, <2>1
  <2>2. ASSUME NEW i \in DOMAIN s, s[i] = x PROVE \E j \in DOMAIN t : t[j] = x
    BY <1>3, <1>4, <2>2
  <2>3. ASSUME e = x PROVE \E j \in DOMAIN t : t[j] = x
    <3>1. Len(s) + 1 \in DOMAIN t
      BY <1>3, <1>4
    <3> QED BY <1>4, <2>3, <3>1
  <2> QED BY <2>1, <2>2, <2>3
<1>6. \A g : Norm(g)' = Norm(g)
  BY DEF Norm
<1> QED BY <1>2, <1>5, <1>6 DEF NormIn

\* A step that leaves a worker's gradients alone.
LEMMA GradientsQuiet ==
  ASSUME held' = held, shards' = shards, NEW w \in Workers, GradientsBy(w), grad'[w] = grad[w],
         \A g \in 1..GlobalBatches : NormIn(w, g)' => NormIn(w, g),
         \A g \in 1..GlobalBatches : Reduced(w, g) /\ NormIn(w, g) => Reduced(w, g)',
         \A g \in 1..GlobalBatches : Untouched(w, g)' => Untouched(w, g),
         at'[w] # "backward", at'[w] = "forward" => norm'[w] = ValidOf(gb'[w])
  PROVE  GradientsBy(w)'
<1>1. /\ \A g : ValidOf(g)' = ValidOf(g) /\ Part(w, g)' = Part(w, g)
      /\ GlobalBatches' = GlobalBatches
  BY PartsSame
<1>2. ValidOf(gb[w])' = ValidOf(gb'[w])
  BY PartsSame, HeldFacts DEF ValidOf, Chunk
<1>3. /\ \A g \in 1..GlobalBatches : NormIn(w, g) => Reduced(w, g) /\ grad[w][g] = Part(w, g)
      /\ \A g \in 1..GlobalBatches : Untouched(w, g) => grad[w][g] = << >>
  BY GradientsSplit
<1>4. \A g \in 1..GlobalBatches : NormIn(w, g)' => Reduced(w, g)' /\ grad'[w][g] = Part(w, g)'
  BY <1>1, <1>3
<1>5. \A g \in 1..GlobalBatches : Untouched(w, g)' => grad'[w][g] = << >>
  BY <1>3
<1>6. GradientsBy(w)' <=>
        /\ \A g \in 1..(GlobalBatches') :
             NormIn(w, g)' => Reduced(w, g)' /\ grad'[w][g] = Part(w, g)'
        /\ \A g \in 1..(GlobalBatches') : Untouched(w, g)' => grad'[w][g] = << >>
        /\ at'[w] \in {"forward", "backward"} => norm'[w] = ValidOf(gb[w])'
        /\ at'[w] = "backward" => ~Uneven' /\ grad'[w][gb'[w]] = Gradient(w, Passed(w))'
  BY DEF GradientsBy, NormIn, Reduced, Untouched
<1> QED BY <1>1, <1>2, <1>4, <1>5, <1>6

\* A microbatch adds its samples to the gradient.
LEMMA GradientsForward ==
  ASSUME Placed, RowsKept, InStep, Entered, GradShape, ask.call = "train", NEW w \in Workers,
         GradientsBy(w), held' = held, shards' = shards, gb' = gb, norm' = norm,
         at[w] \in {"forward", "backward"}, ~Uneven, mb[w] < Len(Microbatches(w)),
         ThroughModel(w, Microbatch(w))
  PROVE  GradientsBy(w)' /\ GradShape' /\ \A v \in Workers : v # w => grad'[v] = grad[v]
<1> DEFINE g == gb[w]
           x == ValidOf(g)
           t == LocalBatch(w)
           rows == Microbatch(w)
           to == Microbatches(w)[mb[w] + 1].to
<1>1. /\ at \in [Workers -> Places] /\ gb[w] \in Nat \ {0} /\ mb \in [Workers -> Nat]
      /\ at[w] \in InBatch /\ InStepBy(w)
  BY DEF Placed, RowsKept, InStep, InBatch
<1>2. g \in 1..GlobalBatches
  BY <1>1, PlacedWorker
<1>3. /\ at' = [at EXCEPT ![w] = "backward"] /\ mb' = [mb EXCEPT ![w] = @ + 1]
      /\ grad' = [grad EXCEPT ![w][g] = @ \o AllRows(rows, norm[w])]
      /\ entered' = [entered EXCEPT ![w] = Append(@, Forward(g, mb[w]))]
  BY DEF ThroughModel, Goes, Enter, AllRows, Forward
<1>4. at'[w] = "backward" /\ mb'[w] = mb[w] + 1 /\ mb[w] \in Nat /\ gb'[w] = g
  BY <1>1, <1>3
<1>5. /\ t \in Seq(1..N) /\ Len(t) = LocalSize /\ Passed(w) \in Nat /\ to \in Passed(w)..LocalSize
      /\ SliceIs(rows, t, 1..N, Passed(w), to - Passed(w))
  <2>1. /\ LocalBatch(w) \in Seq(1..N) /\ Len(LocalBatch(w)) = LocalSize
        /\ Passed(w) \in Nat
        /\ Microbatches(w)[mb[w] + 1].to \in Passed(w)..LocalSize
        /\ SliceIs(Microbatch(w), LocalBatch(w), 1..N, Passed(w),
                   Microbatches(w)[mb[w] + 1].to - Passed(w))
    BY <1>1, <1>4, NextMicrobatch
  <2> QED BY <2>1
<1>6. ask \in Calls /\ batch \in Batches /\ Accepted
  BY <1>1, PlacedWorker DEF Placed
<1>7. LocalSize \in Nat
  BY <1>6, SizeFacts
<1>8. norm[w] = x /\ norm'[w] = x
  BY GradientsSplit
<1>9. grad[w][g] = FirstRows(t, Passed(w), x)
  <2>1. CASE at[w] = "forward"
    <3>1. Untouched(w, g)
      BY <2>1 DEF Untouched
    <3>2. grad[w][g] = << >>
      BY <1>2, <3>1, GradientsSplit
    <3>3. Passed(w) = 0
      BY <1>1, <2>1 DEF InStepBy, Passed
    <3> QED BY <3>2, <3>3 DEF FirstRows
  <2>2. CASE at[w] = "backward"
    BY <2>2, GradientsSplit DEF Gradient, FirstRows
  <2> QED BY <2>1, <2>2
<1> HIDE DEF t, rows, to, x
<1>10. FirstRows(t, Passed(w), x) \o AllRows(rows, x) = FirstRows(t, to, x)
  <2>1. to \in Nat /\ Passed(w) <= to /\ to <= Len(t)
    BY <1>5, <1>7
  <2> DEFINE from == Passed(w)
             S == 1..N
  <2>2. /\ t \in Seq(S) /\ from \in Nat /\ to \in Nat /\ from <= to /\ to <= Len(t)
        /\ SliceIs(rows, t, S, from, to - from)
    BY <1>5, <2>1
  <2> HIDE DEF from, S
  <2>3. FirstRows(t, from, x) \o AllRows(rows, x) = FirstRows(t, to, x)
    BY <2>2, RowsAppended
  <2> QED BY <2>3 DEF from
<1>11. /\ DOMAIN grad' = DOMAIN grad /\ \A v \in Workers : DOMAIN grad'[v] = DOMAIN grad[v]
       /\ \A v \in Workers : v # w => grad'[v] = grad[v]
       /\ \A h \in 1..GlobalBatches : h # g => grad'[w][h] = grad[w][h]
       /\ grad'[w][g] = grad[w][g] \o AllRows(rows, norm[w])
  <2> DEFINE r == [grad[w] EXCEPT ![g] = @ \o AllRows(rows, norm[w])]
  <2>1. grad' = [grad EXCEPT ![w] = r]
    BY <1>3
  <2>2. DOMAIN grad = Workers /\ DOMAIN grad[w] = 1..GlobalBatches
    BY DEF GradShape
  <2>3. /\ DOMAIN r = DOMAIN grad[w] /\ r[g] = grad[w][g] \o AllRows(rows, norm[w])
        /\ \A h \in 1..GlobalBatches : h # g => r[h] = grad[w][h]
    BY <1>2, <2>2
  <2> HIDE DEF r, g
  <2>4. /\ DOMAIN grad' = DOMAIN grad /\ grad'[w] = r
        /\ \A v \in Workers : v # w => grad'[v] = grad[v]
    BY <2>1, <2>2
  <2> QED BY <2>3, <2>4
<1>12. grad'[w][g] = FirstRows(t, to, x)
  BY <1>8, <1>9, <1>10, <1>11
<1>13. GradShape'
  BY <1>11, HeldFacts DEF GradShape
<1>14. \A h : NormIn(w, h)' <=> NormIn(w, h)
  <2>1. \A h : NormIn(w, h)' <=> NormIn(w, h) \/ Forward(g, mb[w]) = Norm(h)
    BY <1>3, NormsGrow
  <2>2. \A h : Forward(g, mb[w]) # Norm(h)
    BY Kinds
  <2> QED BY <2>1, <2>2
<1>15. Gradient(w, Passed(w))' = FirstRows(t, to, x)
  <2>1. ask' = ask /\ LocalSize' = LocalSize /\ (Scoring' <=> Scoring)
    BY HeldFacts
  <2>2. /\ Microbatches(w)' = Microbatches(w) /\ LocalBatch(w)' = LocalBatch(w)
        /\ ValidOf(gb[w])' = ValidOf(gb[w])
    <3>1. ShardOf(w)' = ShardOf(w) /\ Width' = Width
      BY <2>1, HeldFacts DEF ShardOf
    <3>2. LocalBatch(w)' = LocalBatch(w)
      BY <1>4, <2>1, <3>1 DEF LocalBatch
    <3>3. Microbatches(w)' = Microbatches(w)
      BY <1>4, <2>1, <3>1 DEF Microbatches
    <3>4. ValidOf(gb[w])' = ValidOf(gb[w])
      BY <1>4, HeldFacts DEF ValidOf, Chunk
    <3> QED BY <3>2, <3>3, <3>4
  <2>3. Passed(w)' = to
    <3>1. mb'[w] # 0
      BY <1>4
    <3>2. Passed(w)' = Microbatches(w)'[mb'[w]].to
      BY <3>1 DEF Passed
    <3> QED BY <1>4, <2>2, <3>2 DEF to
  <2>4. Gradient(w, Passed(w))' = [i \in 1..(Passed(w)') |-> <<LocalBatch(w)'[i], ValidOf(gb[w])'>>]
    BY DEF Gradient
  <2> QED BY <2>2, <2>3, <2>4 DEF FirstRows, t, x
<1>16. \A h \in 1..GlobalBatches : NormIn(w, h) => Reduced(w, h) /\ grad[w][h] = Part(w, h)
  BY GradientsSplit
<1>17. \A h \in 1..GlobalBatches : NormIn(w, h) => h < g
  BY <1>16 DEF Reduced
<1>18. ASSUME NEW h \in 1..GlobalBatches, NormIn(w, h)'
       PROVE  Reduced(w, h)' /\ grad'[w][h] = Part(w, h)'
  <2>1. h < g /\ grad[w][h] = Part(w, h)
    BY <1>14, <1>16, <1>17, <1>18
  <2>2. h # g
    BY <1>1, <2>1
  <2>3. grad'[w][h] = Part(w, h)'
    BY <1>11, <2>1, <2>2, PartsSame
  <2> QED BY <1>4, <2>1, <2>3 DEF Reduced
<1>19. ASSUME NEW h \in 1..GlobalBatches, Untouched(w, h)' PROVE grad'[w][h] = << >>
  <2>1. h > g
    BY <1>4, <1>19 DEF Untouched
  <2>2. h # g /\ Untouched(w, h)
    BY <1>1, <2>1 DEF Untouched
  <2> QED BY <1>11, <2>2, GradientsSplit
<1>20. /\ GlobalBatches' = GlobalBatches /\ ValidOf(gb[w])' = x /\ (Uneven' <=> Uneven)
  BY <1>4, PartsSame, HeldFacts DEF ValidOf, Chunk, x
<1>21. GradientsBy(w)' <=>
        /\ \A h \in 1..(GlobalBatches') :
             NormIn(w, h)' => Reduced(w, h)' /\ grad'[w][h] = Part(w, h)'
        /\ \A h \in 1..(GlobalBatches') : Untouched(w, h)' => grad'[w][h] = << >>
        /\ at'[w] \in {"forward", "backward"} => norm'[w] = ValidOf(gb[w])'
        /\ at'[w] = "backward" => ~Uneven' /\ grad'[w][gb'[w]] = Gradient(w, Passed(w))'
  BY DEF GradientsBy, NormIn, Reduced, Untouched
<1> HIDE DEF g
<1>22. GradientsBy(w)'
  BY <1>4, <1>8, <1>12, <1>15, <1>18, <1>19, <1>20, <1>21
<1> QED BY <1>11, <1>13, <1>22

\* Behind the last microbatch the gradient is that of the worker's part.
LEMMA GradientsReduce ==
  ASSUME Placed, RowsKept, InStep, Entered, ask.call = "train", NEW w \in Workers,
         GradientsBy(w), held' = held, shards' = shards, gb' = gb, grad' = grad, norm' = norm,
         at[w] = "backward", mb[w] = Len(Microbatches(w)), at' = [at EXCEPT ![w] = "step"],
         entered' = [entered EXCEPT ![w] = Append(@, Norm(gb[w]))]
  PROVE  GradientsBy(w)'
<1> DEFINE g == gb[w]
           mbs == Microbatches(w)
<1>1. /\ at \in [Workers -> Places] /\ gb[w] \in Nat \ {0} /\ at[w] \in InBatch
  BY DEF Placed, InBatch
<1>2. g \in 1..GlobalBatches /\ ask \in Calls /\ batch \in Batches /\ Accepted /\ Sent
  BY <1>1, PlacedWorker DEF Placed
<1>3. ~Uneven /\ grad[w][g] = Gradient(w, Passed(w))
  BY GradientsSplit
<1>4. Passed(w) = LocalSize
  <2>1. Covers(mbs, LocalSize)
    BY <1>2, <1>3, WorkFacts
  <2>2. Passed(w) = IF Len(mbs) = 0 THEN 0 ELSE mbs[Len(mbs)].to
    BY DEF Passed
  <2> HIDE DEF mbs
  <2> QED BY <2>1, <2>2 DEF Covers
<1>5. grad[w][g] = Part(w, g)
  BY <1>3, <1>4 DEF Gradient, Part, LocalBatch
<1>6. \A h : NormIn(w, h)' <=> NormIn(w, h) \/ h = g
  <2>1. \A h : NormIn(w, h)' <=> NormIn(w, h) \/ Norm(g) = Norm(h)
    BY NormsGrow
  <2>2. \A h : Norm(g) = Norm(h) <=> g = h
    BY Kinds
  <2> QED BY <2>1, <2>2
<1>7. at'[w] = "step" /\ gb'[w] = g
  BY <1>1
<1>8. /\ \A h \in 1..GlobalBatches : NormIn(w, h) => Reduced(w, h) /\ grad[w][h] = Part(w, h)
      /\ \A h \in 1..GlobalBatches : Untouched(w, h) => grad[w][h] = << >>
  BY GradientsSplit
<1>9. \A h \in 1..GlobalBatches : NormIn(w, h)' => Reduced(w, h)' /\ grad'[w][h] = Part(w, h)'
  BY <1>5, <1>6, <1>7, <1>8, PartsSame DEF Reduced
<1>10. \A h \in 1..GlobalBatches : Untouched(w, h)' => grad'[w][h] = << >>
  BY <1>7, <1>8 DEF Untouched
<1>11. GlobalBatches' = GlobalBatches
  BY HeldFacts
<1>12. GradientsBy(w)' <=>
        /\ \A h \in 1..(GlobalBatches') :
             NormIn(w, h)' => Reduced(w, h)' /\ grad'[w][h] = Part(w, h)'
        /\ \A h \in 1..(GlobalBatches') : Untouched(w, h)' => grad'[w][h] = << >>
        /\ at'[w] \in {"forward", "backward"} => norm'[w] = ValidOf(gb[w])'
        /\ at'[w] = "backward" => ~Uneven' /\ grad'[w][gb'[w]] = Gradient(w, Passed(w))'
  BY DEF GradientsBy, NormIn, Reduced, Untouched
<1> HIDE DEF g
<1> QED BY <1>7, <1>9, <1>10, <1>11, <1>12

\* A step that moves a worker without touching a gradient: one that starts
\* or ends a global batch, one that raises, one that enters no reduction of
\* the norm.
GradientsLeft(w) ==
  /\ grad' = grad
  /\ \/ entered' = entered
     \/ \E e : entered' = [entered EXCEPT ![w] = Append(@, e)] /\ \A g : e # Norm(g)
  /\ at'[w] # "backward"
  /\ at'[w] = "forward" => norm'[w] = ValidOf(gb'[w])
  /\ at'[w] \notin {"step", "share", "raised"} =>
       (at[w] \in {"backward", "step", "share", "raised"} => gb'[w] = gb[w] + 1)
  /\ at[w] \notin {"step", "share", "raised"} => gb'[w] = gb[w]
  /\ gb'[w] \in {gb[w], gb[w] + 1}

LEMMA GradientsLeave ==
  ASSUME Entered, held' = held, shards' = shards, NEW w \in Workers, GradientsBy(w),
         GradientsLeft(w), gb[w] \in Nat
  PROVE  GradientsBy(w)'
<1>1. \A g : NormIn(w, g)' => NormIn(w, g)
  <2>1. CASE entered' = entered
    BY <2>1 DEF NormIn, Norm
  <2>2. CASE \E e : entered' = [entered EXCEPT ![w] = Append(@, e)] /\ \A g : e # Norm(g)
    BY <2>2, NormsGrow
  <2> QED BY <2>1, <2>2 DEF GradientsLeft
<1>2. ASSUME NEW g \in 1..GlobalBatches, Reduced(w, g), NormIn(w, g) PROVE Reduced(w, g)'
  <2>1. CASE g < gb[w]
    <3>1. g < gb'[w]
      BY <2>1 DEF GradientsLeft
    <3> QED BY <3>1 DEF Reduced
  <2>2. CASE g = gb[w] /\ at[w] \in {"step", "share", "raised"}
    <3>1. gb'[w] = gb[w] + 1 \/ (gb'[w] = gb[w] /\ at'[w] \in {"step", "share", "raised"})
      BY <2>2 DEF GradientsLeft
    <3> QED BY <2>2, <3>1 DEF Reduced
  <2> QED BY <1>2, <2>1, <2>2 DEF Reduced
<1>3. ASSUME NEW g \in 1..GlobalBatches, Untouched(w, g)' PROVE Untouched(w, g)
  <2>1. CASE g > gb'[w]
    <3>1. g > gb[w]
      BY <2>1 DEF GradientsLeft
    <3> QED BY <3>1 DEF Untouched
  <2>2. CASE g = gb'[w] /\ at'[w] \notin {"backward", "step", "share", "raised"}
    <3>1. gb'[w] = gb[w] + 1
          \/ (gb'[w] = gb[w] /\ at[w] \notin {"backward", "step", "share", "raised"})
      BY <2>2 DEF GradientsLeft
    <3> QED BY <2>2, <3>1 DEF Untouched
  <2> QED BY <1>3, <2>1, <2>2 DEF Untouched
<1>4. grad'[w] = grad[w] /\ at'[w] # "backward" /\ (at'[w] = "forward" => norm'[w] = ValidOf(gb'[w]))
  BY DEF GradientsLeft
<1> QED BY <1>1, <1>2, <1>3, <1>4, GradientsQuiet

LEMMA GradientsSame ==
  ASSUME held' = held, shards' = shards, NEW w, GradientsBy(w), at'[w] = at[w], gb'[w] = gb[w],
         mb'[w] = mb[w], grad'[w] = grad[w], norm'[w] = norm[w], entered'[w] = entered[w]
  PROVE  GradientsBy(w)'
<1>1. /\ \A g : ValidOf(g)' = ValidOf(g) /\ Part(w, g)' = Part(w, g)
      /\ GlobalBatches' = GlobalBatches /\ ask' = ask /\ (Uneven' <=> Uneven)
  BY PartsSame
<1>2. ValidOf(gb[w])' = ValidOf(gb[w])
  BY HeldFacts DEF ValidOf, Chunk
<1>3. /\ LocalSize' = LocalSize /\ (Scoring' <=> Scoring) /\ Width' = Width
  BY HeldFacts
<1>4. ShardOf(w)' = ShardOf(w)
  BY <1>1, <1>3 DEF ShardOf
<1>5. LocalBatch(w)' = LocalBatch(w) /\ Microbatches(w)' = Microbatches(w)
  BY <1>1, <1>3, <1>4 DEF LocalBatch, Microbatches
<1>6. Gradient(w, Passed(w))' = Gradient(w, Passed(w))
  <2>1. Passed(w)' = Passed(w)
    BY <1>5 DEF Passed
  <2> QED BY <1>2, <1>5, <2>1 DEF Gradient
<1>7. \A g : Norm(g)' = Norm(g)
  BY DEF Norm
<1> QED BY <1>1, <1>2, <1>6, <1>7 DEF GradientsBy

LEMMA GradientsKept ==
  ASSUME Placed, RowsKept, InStep, Entered, GradShape, ask.call = "train", NEW w \in Workers,
         GradientsBy(w), Work(w)
  PROVE  /\ GradientsBy(w)' /\ GradShape'
         /\ \A v \in Workers : v # w => grad'[v] = grad[v] /\ norm'[v] = norm[v]
<1> USE DEF kept, atWork, Goes
<1>0. /\ at \in [Workers -> Places] /\ gb \in [Workers -> Nat \ {0}] /\ DOMAIN norm = Workers
      /\ held' = held /\ shards' = shards /\ ~RowsOut
      /\ gb[w] \in Nat \ {0} /\ InStepBy(w)
  BY InStepPlace DEF Placed, InStep, RowsOut, Scoring, GradShape
<1>1. grad' = grad /\ norm' = norm => GradShape'
  BY <1>0, HeldFacts DEF GradShape
<1>2. \A to : at' = [at EXCEPT ![w] = to] => at'[w] = to
  BY <1>0
<1>3. CASE StartTrain(w) \/ ReturnLosses(w) \/ ReturnRows(w)
  <2>1. /\ at[w] \notin {"step", "share", "raised", "backward"} /\ at'[w] \in {"batch", "returned"}
        /\ entered' = entered /\ grad' = grad /\ norm' = norm /\ gb' = gb
    BY <1>0, <1>2, <1>3 DEF StartTrain, ReturnLosses, ReturnRows, Forwarded
  <2>2. GradientsLeft(w)
    BY <2>1 DEF GradientsLeft
  <2> QED BY <1>0, <1>1, <2>1, <2>2, GradientsLeave
<1>4. CASE NextBatch(w) \/ SumLosses(w) \/ MegatronStart(w)
  <2>1. /\ at[w] \notin {"step", "share", "raised", "backward"}
        /\ at'[w] \in {"normalise", "losses", "sized"} /\ grad' = grad /\ norm' = norm /\ gb' = gb
    BY <1>2, <1>4 DEF NextBatch, SumLosses, MegatronStart
  <2>2. PICK e \in {Valid(gb[w]), Losses, Size} : entered' = [entered EXCEPT ![w] = Append(@, e)]
    BY <1>4 DEF NextBatch, SumLosses, MegatronStart, Enter, Valid, Losses, Size
  <2>3. \A g : e # Norm(g)
    BY Kinds
  <2>4. GradientsLeft(w)
    BY <2>1, <2>2, <2>3 DEF GradientsLeft
  <2> QED BY <1>0, <1>1, <2>1, <2>4, GradientsLeave
<1>5. CASE Normalise(w)
  <2>1. /\ at[w] = "normalise" /\ at'[w] = "forward" /\ entered' = entered /\ grad' = grad
        /\ norm' = [norm EXCEPT ![w] = GlobalValid(w)] /\ gb' = gb
    BY <1>2, <1>5 DEF Normalise
  <2>2. GlobalValid(w) = ValidOf(gb[w])
    <3>1. Accepted /\ Sent /\ gb[w] \in 1..GlobalBatches
      BY <2>1, PlacedWorker DEF InBatch
    <3> QED BY <1>0, <3>1, ValidCounted DEF Placed
  <2>3. norm'[w] = ValidOf(gb'[w])
    BY <1>0, <2>1, <2>2
  <2>4. GradientsLeft(w)
    BY <2>1, <2>3 DEF GradientsLeft
  <2>5. GradShape'
    BY <2>1, <1>0, HeldFacts DEF GradShape
  <2>6. \A v \in Workers : v # w => grad'[v] = grad[v] /\ norm'[v] = norm[v]
    BY <1>0, <2>1
  <2>7. GradientsBy(w)'
    BY <1>0, <2>4, GradientsLeave
  <2> QED BY <2>5, <2>6, <2>7
<1>6. CASE UnevenRaises(w) \/ EmbeddingRaises(w) \/ MegatronStepRaises(w)
  <2>1. /\ at'[w] = "raised" /\ entered' = entered /\ grad' = grad /\ norm' = norm /\ gb' = gb
    BY <1>2, <1>6 DEF UnevenRaises, EmbeddingRaises, MegatronStepRaises
  <2>2. GradientsLeft(w)
    BY <2>1 DEF GradientsLeft
  <2> QED BY <1>0, <1>1, <2>1, <2>2, GradientsLeave
<1>7. CASE \/ DTensorTrainForward(w) \/ DTensorScore(w) \/ FSDP1TrainForward(w)
           \/ FSDP1Score(w) \/ FSDP1Generate(w) \/ MegatronSchedule(w) \/ MegatronScore(w)
  <2>1. /\ at[w] \in {"forward", "backward"} /\ mb[w] < Len(Microbatches(w)) /\ gb' = gb /\ ~Uneven
        /\ ThroughModel(w, Microbatch(w)) /\ norm' = norm
    BY <1>7 DEF DTensorTrainForward, DTensorScore, FSDP1TrainForward, FSDP1Score, FSDP1Generate,
       MegatronSchedule, MegatronScore, DTensorForward, FSDP1Through, NextForward
  <2> QED BY <1>0, <2>1, GradientsForward
<1>8. CASE DTensorGradNorm(w) \/ FSDP1GradNorm(w) \/ MegatronGradNorm(w)
  <2>1. /\ at[w] = "backward" /\ mb[w] = Len(Microbatches(w)) /\ gb' = gb /\ grad' = grad /\ norm' = norm
        /\ at' = [at EXCEPT ![w] = "step"]
        /\ entered' = [entered EXCEPT ![w] = Append(@, Norm(gb[w]))]
    BY <1>8 DEF DTensorGradNorm, FSDP1GradNorm, MegatronGradNorm, Forwarded, Enter, Norm
  <2> QED BY <1>0, <1>1, <2>1, GradientsReduce
<1>9. CASE DTensorStep(w) \/ FSDP1Step(w) \/ ShareMetrics(w)
  <2>1. /\ at[w] \in {"step", "share"} /\ at'[w] = "batch" /\ entered' = entered /\ grad' = grad
        /\ norm' = norm /\ gb'[w] = gb[w] + 1
    BY <1>0, <1>2, <1>9 DEF DTensorStep, FSDP1Step, ShareMetrics
  <2>2. GradientsLeft(w)
    BY <2>1 DEF GradientsLeft
  <2> QED BY <1>0, <1>1, <2>1, <2>2, GradientsLeave
<1>10. CASE MegatronStep(w)
  <2>1. /\ at[w] = "step" /\ at'[w] = "share" /\ grad' = grad /\ norm' = norm /\ gb' = gb
        /\ entered' = [entered EXCEPT ![w] = Append(@, Metrics(gb[w]))]
    BY <1>2, <1>10 DEF MegatronStep, Enter, Metrics
  <2>2. \A g : Metrics(gb[w]) # Norm(g)
    BY Kinds
  <2>3. GradientsLeft(w)
    BY <2>1, <2>2 DEF GradientsLeft
  <2> QED BY <1>0, <1>1, <2>1, <2>3, GradientsLeave
<1>11. ~(StartRows(w) \/ SwapReference(w) \/ NextEval(w) \/ ShareRows(w))
  BY DEF StartRows, SwapReference, NextEval, ShareRows
<1> QED BY <1>3, <1>4, <1>5, <1>6, <1>7, <1>8, <1>9, <1>10, <1>11 DEF Work

GradTyped == ask.call = "train" => GradShape

LEMMA GradientsInit == Init => Gradients /\ GradTyped
<1> SUFFICES ASSUME Init PROVE Gradients /\ GradTyped
  OBVIOUS
<1>1. /\ at = [w \in Workers |-> "idle"] /\ norm = [w \in Workers |-> 0]
      /\ grad = [w \in Workers |-> [g \in 1..GlobalBatches |-> << >>]]
      /\ entered = [w \in Workers |-> << >>]
  BY DEF Init
<1>2. GradShape
  BY <1>1 DEF GradShape
<1>3. ASSUME NEW w \in Workers PROVE GradientsBy(w)
  <2>1. at[w] = "idle" /\ entered[w] = << >> /\ \A g \in 1..GlobalBatches : grad[w][g] = << >>
    BY <1>1
  <2>2. DOMAIN entered[w] = {}
    BY <2>1
  <2> QED BY <2>1, <2>2 DEF GradientsBy
<1> QED BY <1>2, <1>3 DEF Gradients, GradTyped

LEMMA GradientsNext ==
  /\ Placed /\ RowsKept /\ InStep /\ Entered /\ Gradients /\ GradTyped /\ [Next]_vars
  => Gradients' /\ GradTyped'
<1> SUFFICES ASSUME Placed, RowsKept, InStep, Entered, Gradients, GradTyped, [Next]_vars
             PROVE  Gradients' /\ GradTyped'
  OBVIOUS
<1>0. /\ at \in [Workers -> Places] /\ gb \in [Workers -> Nat \ {0}] /\ mb \in [Workers -> Nat]
      /\ pc \in {"call", "refused"} => \A w \in Workers : at[w] = "idle"
      /\ ask.call = "train" => \A w \in Workers : GradientsBy(w)
      /\ \A w \in Workers : InStepBy(w)
      /\ ask.call = "train" => GradShape
  BY DEF Placed, RowsKept, Gradients, InStep, GradTyped
<1>1. ASSUME Calling, ~Refuse PROVE Gradients' /\ GradTyped'
  <2>1. /\ pc = "call" /\ at' = [w \in Workers |-> "called"] /\ held' = held /\ gb' = gb
        /\ entered' = entered /\ grad' = grad /\ norm' = norm
    BY <1>1 DEF Calling, CallTrain, CallLogprobs, CallReference, CallGenerate, Dispatch, atWork
  <2>2. Workers' = Workers /\ GlobalBatches' = GlobalBatches /\ ask' = ask
    BY <2>1, HeldFacts
  <2>3. ASSUME NEW w \in Workers, ask.call = "train" PROVE GradientsBy(w)'
    <3>1. at[w] = "idle" /\ at'[w] = "called" /\ entered'[w] = << >> /\ gb'[w] = gb[w]
      BY <1>0, <2>1 DEF InStepBy
    <3>2. \A g \in 1..GlobalBatches :
            g > gb[w] \/ (g = gb[w] /\ at[w] \notin {"backward", "step", "share", "raised"}) =>
              grad[w][g] = << >>
      BY <1>0, <2>3 DEF GradientsBy
    <3>3. DOMAIN entered'[w] = {}
      BY <3>1
    <3>4. \A g \in 1..GlobalBatches : g > gb[w] \/ g = gb[w] => grad'[w][g] = << >>
      BY <2>1, <3>1, <3>2
    <3> QED BY <2>2, <3>1, <3>3, <3>4 DEF GradientsBy
  <2>4. ASSUME ask.call = "train" PROVE GradShape'
    BY <1>0, <2>1, <2>2, <2>4 DEF GradShape
  <2> QED BY <2>2, <2>3, <2>4 DEF Gradients, GradTyped
<1>2. ASSUME \/ Refuse \/ Gathering \/ UNCHANGED vars PROVE Gradients' /\ GradTyped'
  <2>1. /\ held' = held /\ shards' = shards /\ at' = at /\ gb' = gb /\ mb' = mb
        /\ entered' = entered /\ grad' = grad /\ norm' = norm
    BY <1>2 DEF Refuse, Gathering, CollectTrain, CollectRows, CollectRaises, atWork, vars, held
  <2>2. Workers' = Workers /\ GlobalBatches' = GlobalBatches /\ ask' = ask
    BY <2>1, HeldFacts
  <2>3. ASSUME NEW w \in Workers, ask.call = "train" PROVE GradientsBy(w)'
    BY <1>0, <2>1, <2>3, GradientsSame
  <2>4. ASSUME ask.call = "train" PROVE GradShape'
    BY <1>0, <2>1, <2>2, <2>4 DEF GradShape
  <2> QED BY <2>2, <2>3, <2>4 DEF Gradients, GradTyped
<1>3. ASSUME NEW w \in Workers, Work(w) PROVE Gradients' /\ GradTyped'
  <2>1. PICK to \in Places : Moves(w, to)
    BY <1>3, WorkerMoves
  <2>2. /\ held' = held /\ shards' = shards /\ at' = [at EXCEPT ![w] = to]
        /\ gb' = gb \/ gb' = [gb EXCEPT ![w] = gb[w] + 1]
    BY <2>1 DEF Moves, kept
  <2>3. Workers' = Workers /\ ask' = ask
    BY <2>2, HeldFacts
  <2>4. ASSUME ask.call = "train"
        PROVE  /\ GradientsBy(w)' /\ GradShape'
               /\ \A v \in Workers : v # w => grad'[v] = grad[v] /\ norm'[v] = norm[v]
    BY <1>0, <1>3, <2>4, GradientsKept
  <2>5. ASSUME ask.call = "train", NEW v \in Workers, v # w PROVE GradientsBy(v)'
    <3>1. at'[v] = at[v] /\ gb'[v] = gb[v]
      BY <1>0, <2>2, <2>5
    <3>2. mb'[v] = mb[v]
      BY <1>0, <1>3, <2>5, OthersKept
    <3>3. entered'[v] = entered[v]
      BY <1>0, <1>3, <2>5, InStepKept DEF Grown
    <3> QED BY <1>0, <2>2, <2>4, <2>5, <3>1, <3>2, <3>3, GradientsSame
  <2> QED BY <2>3, <2>4, <2>5 DEF Gradients, GradTyped
<1> QED BY <1>1, <1>2, <1>3 DEF Next, Calling

-----------------------------------------------------------------------------
(***************************************************************************)
(* The updates a training call makes (Applied).                            *)
(***************************************************************************)

\* The number of an update, and how many there are behind a worker.
LEMMA UpdatesNumbered ==
  ASSUME NEW U \in SUBSET Nat, IsFiniteSet(U)
  PROVE  /\ \A g \in Nat : /\ IsFiniteSet({h \in U : h < g}) /\ IsFiniteSet({h \in U : h <= g})
                           /\ Cardinality({h \in U : h < g}) \in Nat
                           /\ Cardinality({h \in U : h <= g}) \in Nat
         /\ \A g \in U : Cardinality({h \in U : h <= g}) = Cardinality({h \in U : h < g}) + 1
         /\ \A g, k \in Nat : g < k =>
              Cardinality({h \in U : h <= g}) <= Cardinality({h \in U : h < k})
<1>1. \A g \in Nat : IsFiniteSet({h \in U : h < g}) /\ IsFiniteSet({h \in U : h <= g})
  BY FS_Subset
<1>2. ASSUME NEW g \in U
      PROVE  Cardinality({h \in U : h <= g}) = Cardinality({h \in U : h < g}) + 1
  <2> DEFINE A == {h \in U : h < g}
  <2>0. g \in Nat /\ \A h \in U : h \in Nat
    OBVIOUS
  <2>1. IsFiniteSet(A) /\ g \notin A
    <3>1. g \notin A
      BY <2>0
    <3>2. IsFiniteSet({h \in U : h < g})
      BY <1>1, <2>0
    <3> QED BY <3>1, <3>2
  <2>2. {h \in U : h <= g} = A \cup {g}
    <3>1. \A h \in U : h <= g <=> h < g \/ h = g
      BY <2>0
    <3> QED BY <3>1
  <2> HIDE DEF A
  <2>3. Cardinality(A \cup {g}) = Cardinality(A) + 1
    BY <2>1, FS_AddElement
  <2> QED BY <2>2, <2>3 DEF A
<1>3. ASSUME NEW g \in Nat, NEW k \in Nat, g < k
      PROVE  Cardinality({h \in U : h <= g}) <= Cardinality({h \in U : h < k})
  <2>1. {h \in U : h <= g} \subseteq {h \in U : h < k}
    <3>1. \A h \in U : h \in Nat
      OBVIOUS
    <3>2. \A h \in U : h <= g => h < k
      BY <1>3, <3>1
    <3> QED BY <3>2
  <2> QED BY <1>1, <2>1, FS_Subset
<1> QED BY <1>1, <1>2, <1>3, FS_CardinalityType

LEMMA UpdatingFacts ==
  ASSUME ask \in Calls, batch \in Batches, ~RowsOut
  PROVE  /\ Updating \in SUBSET Nat /\ IsFiniteSet(Updating) /\ GlobalBatches \in Nat
         /\ \A g \in Updating : g \in 1..GlobalBatches
<1>1. N \div ask.gbs = GlobalBatches /\ GlobalBatches \in Nat
  <2>1. N \in Nat /\ ask.gbs \in Nat \ {0} /\ BatchSize = ask.gbs
    BY CallTypes DEF BatchSize
  <2>2. N \div ask.gbs \in Nat
    BY <2>1, DivFacts
  <2> QED BY <2>1, <2>2 DEF GlobalBatches
<1>2. Updating \subseteq 1..GlobalBatches
  BY <1>1 DEF Updating
<1>3. IsFiniteSet(1..GlobalBatches)
  BY <1>1, CountUpTo
<1>4. IsFiniteSet(Updating)
  BY <1>2, <1>3, FS_Subset
<1>5. 1..GlobalBatches \subseteq Nat
  OBVIOUS
<1> QED BY <1>1, <1>2, <1>4, <1>5

\* What a training call's worker has applied, by the batches behind it.
Made(w, B) ==
  /\ Len(applied[w]) = Cardinality(B)
  /\ \A g \in B : IsUpdateOf(applied[w][UpdateOf(g)], g)
Below(k) == {g \in Updating : g < k}

LEMMA BehindIs ==
  ASSUME NEW w, gb[w] \in Nat
  PROVE  Behind(w) = IF at[w] = "share" THEN Below(gb[w] + 1) ELSE Below(gb[w])
<1>1. Updating \subseteq Int
  BY DEF Updating
<1>2. ASSUME NEW g \in Updating PROVE g < gb[w] + 1 <=> g < gb[w] \/ g = gb[w]
  BY <1>1
<1> QED BY <1>2 DEF Behind, Below

\* A batch that is updated adds an update, one that is not adds none.
LEMMA MadeOne ==
  ASSUME ask \in Calls, batch \in Batches, Accepted, ~RowsOut, NEW S, NEW w,
         applied[w] \in Seq(S), NEW k \in Updating, NEW u, IsUpdateOf(u, k), Made(w, Below(k)),
         held' = held, applied'[w] = Append(applied[w], u)
  PROVE  Made(w, Below(k + 1))'
<1> DEFINE U == Updating
           s == applied[w]
<1>1. U \in SUBSET Nat /\ IsFiniteSet(U)
  BY UpdatingFacts
<1>2. k \in Nat /\ Len(s) \in Nat
  BY <1>1
<1>3. Below(k + 1) = {h \in U : h <= k} /\ Below(k) = {h \in U : h < k}
  <2>0. \A h \in U : h \in Nat
    BY <1>1
  <2>1. \A h \in U : h < k + 1 <=> h <= k
    BY <1>2, <2>0
  <2> QED BY <2>1 DEF Below
<1>4. /\ Cardinality(Below(k + 1)) = Cardinality(Below(k)) + 1
      /\ UpdateOf(k) = Cardinality(Below(k)) + 1 /\ Cardinality(Below(k)) \in Nat
  <2>1. /\ Cardinality({h \in U : h <= k}) = Cardinality({h \in U : h < k}) + 1
        /\ Cardinality({h \in U : h < k}) \in Nat
    BY <1>1, <1>2, UpdatesNumbered
  <2> QED BY <1>3, <2>1 DEF UpdateOf
<1>5. ASSUME NEW g \in Below(k)
      PROVE  UpdateOf(g) \in 1..Cardinality(Below(k))
  <2>1. g \in U /\ g \in Nat /\ g < k
    BY <1>1 DEF Below
  <2>2. /\ UpdateOf(g) = Cardinality({h \in U : h < g}) + 1 /\ Cardinality({h \in U : h < g}) \in Nat
        /\ UpdateOf(g) <= Cardinality({h \in U : h < k})
    BY <1>1, <1>2, <2>1, UpdatesNumbered DEF UpdateOf
  <2> QED BY <1>3, <1>4, <2>2
<1>6. Len(s) = Cardinality(Below(k)) /\ \A g \in Below(k) : IsUpdateOf(s[UpdateOf(g)], g)
  BY DEF Made
<1>7. /\ Len(Append(s, u)) = Len(s) + 1 /\ Append(s, u)[Len(s) + 1] = u
      /\ \A i \in 1..Len(s) : Append(s, u)[i] = s[i]
  OBVIOUS
<1>8. applied'[w] = Append(s, u)
  OBVIOUS
<1> HIDE DEF s, U
<1>9. Len(applied'[w]) = Cardinality(Below(k + 1))
  BY <1>4, <1>6, <1>7, <1>8
<1>10. ASSUME NEW g \in Below(k + 1) PROVE IsUpdateOf(applied'[w][UpdateOf(g)], g)
  <2>1. CASE g = k
    <3>1. applied'[w][UpdateOf(k)] = u
      BY <1>4, <1>6, <1>7, <1>8
    <3> QED BY <2>1, <3>1
  <2>2. CASE g # k
    <3>1. g \in Below(k)
      BY <1>1, <1>2, <2>2 DEF Below, U
    <3>2. applied'[w][UpdateOf(g)] = s[UpdateOf(g)]
      BY <1>5, <1>6, <1>7, <1>8, <3>1
    <3> QED BY <1>6, <3>1, <3>2
  <2> QED BY <2>1, <2>2
<1>11. /\ Below(k + 1)' = Below(k + 1)
       /\ \A g : UpdateOf(g)' = UpdateOf(g) /\ Chunk(g)' = Chunk(g) /\ ValidOf(g)' = ValidOf(g)
       /\ ask' = ask
  <2>1. ask' = ask /\ batch' = batch /\ N' = N
    BY HeldFacts
  <2>2. Updating' = Updating
    BY <2>1 DEF Updating
  <2> QED BY <2>1, <2>2 DEF Below, UpdateOf, Chunk, ValidOf
<1>12. ASSUME NEW g \in Below(k + 1) PROVE IsUpdateOf(applied[w][UpdateOf(g)], g)'
  BY <1>10, <1>11 DEF IsUpdateOf
<1> QED BY <1>9, <1>11, <1>12 DEF Made

LEMMA MadeSame ==
  ASSUME held' = held, NEW w, applied'[w] = applied[w], NEW k, Made(w, Below(k))
  PROVE  Made(w, Below(k))'
<1>1. ask' = ask /\ batch' = batch /\ N' = N
  BY HeldFacts
<1>2. Updating' = Updating
  BY <1>1 DEF Updating
<1>3. /\ Below(k)' = Below(k)
      /\ \A g : UpdateOf(g)' = UpdateOf(g) /\ Chunk(g)' = Chunk(g) /\ ValidOf(g)' = ValidOf(g)
  BY <1>1, <1>2 DEF Below, UpdateOf, Chunk, ValidOf
<1>4. ASSUME NEW g \in Below(k) PROVE IsUpdateOf(applied[w][UpdateOf(g)], g)'
  <2>1. IsUpdateOf(applied[w][UpdateOf(g)], g)
    BY DEF Made
  <2> QED BY <1>1, <1>3, <2>1 DEF IsUpdateOf
<1> QED BY <1>3, <1>4 DEF Made

\* The batches a worker has put behind it: those before its own, and its own
\* once it shares the metrics.
Done(w) == IF at[w] = "share" THEN gb[w] + 1 ELSE gb[w]
LEMMA AppliedSplit ==
  ASSUME NEW w, gb[w] \in Nat
  PROVE  AppliedBy(w) <=> /\ Made(w, Below(Done(w))) /\ at[w] # "rows"
                          /\ at[w] \in {"losses", "returned"} => gb[w] > GlobalBatches
BY BehindIs DEF AppliedBy, Made, Done

\* The next batch done, whether it is updated or lost to an overflow.
MadeNext(w) ==
  \/ applied' = applied /\ Done(w)' = Done(w)
  \/ /\ Done(w) \in 1..GlobalBatches /\ Done(w)' = Done(w) + 1
     /\ \/ applied' = applied /\ Done(w) \notin Updating
        \/ /\ Done(w) \in Updating /\ IsUpdateOf(Summed(w), Done(w))
           /\ applied' = [applied EXCEPT ![w] = Append(@, Summed(w))]

LEMMA AppliedKept ==
  ASSUME Placed, RowsKept, InStep, Entered, Gradients, Updated, ask.call = "train",
         NEW w \in Workers, AppliedBy(w), Work(w)
  PROVE  /\ MadeNext(w) /\ at'[w] # "rows" /\ gb'[w] \in Nat
         /\ at'[w] \in {"losses", "returned"} => gb'[w] > GlobalBatches
<1> USE DEF kept, atWork, Goes
<1>0. /\ at \in [Workers -> Places] /\ gb \in [Workers -> Nat \ {0}]
      /\ held' = held /\ shards' = shards /\ ~RowsOut /\ ask \in Calls /\ batch \in Batches
      /\ gb[w] \in Nat \ {0} /\ InStepBy(w) /\ at[w] # "rows" /\ GlobalBatches \in Nat \ {0}
      /\ \A v \in Workers : GradientsBy(v)
  BY InStepPlace DEF Placed, InStep, RowsOut, Scoring, Gradients, AppliedBy
<1>1. \A to : at' = [at EXCEPT ![w] = to] => at'[w] = to
  BY <1>0
<1>2. ASSUME applied' = applied, gb' = gb, at[w] # "share", at'[w] # "share"
      PROVE  MadeNext(w) /\ gb'[w] \in Nat
  BY <1>0, <1>2 DEF MadeNext, Done
\* The update of a worker behind the norm's reduction.
<1>3. ASSUME at[w] = "step", Complete(w, "world")
      PROVE  gb[w] \in 1..GlobalBatches /\ IsUpdateOf(Summed(w), gb[w])
  <2>1. Accepted /\ Sent /\ gb[w] \in 1..GlobalBatches
    BY <1>3, PlacedWorker DEF InBatch
  <2>2. Latest(w, Norm(gb[w]))
    BY <1>0, <1>3 DEF InStepBy
  <2>3. ASSUME NEW v \in Workers PROVE grad[v][gb[w]] = Part(v, gb[w])
    <3>1. NormIn(v, gb[w])
      BY <1>3, <2>2, AllInNorm
    <3> QED BY <1>0, <2>1, <3>1, GradientsSplit
  <2> QED BY <1>0, <2>1, <2>3, SummedIs
<1>4. CASE StartTrain(w) \/ NextBatch(w) \/ MegatronStart(w) \/ Normalise(w)
  <2>1. /\ applied' = applied /\ gb' = gb /\ at[w] # "share"
        /\ at'[w] \in {"batch", "normalise", "sized", "forward"}
    BY <1>1, <1>4 DEF StartTrain, NextBatch, MegatronStart, Normalise
  <2> QED BY <1>2, <2>1
<1>5. CASE UnevenRaises(w) \/ EmbeddingRaises(w) \/ MegatronStepRaises(w)
  <2>1. applied' = applied /\ gb' = gb /\ at[w] # "share" /\ at'[w] = "raised"
    BY <1>1, <1>5 DEF UnevenRaises, EmbeddingRaises, MegatronStepRaises, NextForward
  <2> QED BY <1>2, <2>1
<1>6. CASE \/ DTensorTrainForward(w) \/ DTensorScore(w) \/ FSDP1TrainForward(w)
           \/ FSDP1Score(w) \/ FSDP1Generate(w) \/ MegatronSchedule(w) \/ MegatronScore(w)
  <2>1. /\ at[w] \in {"forward", "backward"} /\ gb' = gb /\ applied' = applied
        /\ ThroughModel(w, Microbatch(w))
    BY <1>6 DEF DTensorTrainForward, DTensorScore, FSDP1TrainForward, FSDP1Score, FSDP1Generate,
       MegatronSchedule, MegatronScore, DTensorForward, FSDP1Through, NextForward
  <2>2. at'[w] = "backward"
    BY <1>1, <2>1 DEF ThroughModel
  <2> QED BY <1>2, <2>1, <2>2
<1>7. CASE DTensorGradNorm(w) \/ FSDP1GradNorm(w) \/ MegatronGradNorm(w)
  <2>1. applied' = applied /\ gb' = gb /\ at[w] # "share" /\ at'[w] = "step"
    BY <1>1, <1>7 DEF DTensorGradNorm, FSDP1GradNorm, MegatronGradNorm, Forwarded
  <2> QED BY <1>2, <2>1
<1>8. CASE SumLosses(w)
  <2>1. /\ applied' = applied /\ gb' = gb /\ at[w] # "share" /\ at'[w] = "losses"
        /\ gb[w] > GlobalBatches
    BY <1>1, <1>8 DEF SumLosses
  <2> QED BY <1>2, <2>1
<1>9. CASE ReturnLosses(w)
  <2>1. applied' = applied /\ gb' = gb /\ at[w] = "losses" /\ at'[w] = "returned"
    BY <1>1, <1>9 DEF ReturnLosses
  <2>2. gb[w] > GlobalBatches
    BY <2>1 DEF AppliedBy
  <2> QED BY <1>2, <2>1, <2>2
<1>10. CASE DTensorStep(w) \/ FSDP1Step(w)
  <2>1. /\ at[w] = "step" /\ Complete(w, "world") /\ ask.worker # "megatron" /\ at'[w] = "batch"
        /\ gb'[w] = gb[w] + 1 /\ applied' = [applied EXCEPT ![w] = Append(@, Summed(w))]
    BY <1>0, <1>1, <1>10 DEF DTensorStep, FSDP1Step
  <2>2. gb[w] \in 1..GlobalBatches /\ IsUpdateOf(Summed(w), gb[w])
    BY <1>3, <2>1
  <2>3. gb[w] \in Updating
    <3>1. Accepted
      BY <2>1, PlacedWorker DEF InBatch
    <3> QED BY <1>0, <2>1, <2>2, <3>1, TrainSizes DEF Updating
  <2>4. Done(w) = gb[w] /\ Done(w)' = gb[w] + 1
    BY <2>1 DEF Done
  <2> QED BY <1>0, <2>1, <2>2, <2>3, <2>4 DEF MadeNext
<1>11. CASE MegatronStep(w)
  <2>1. /\ at[w] = "step" /\ Complete(w, "world") /\ ask.worker = "megatron" /\ at'[w] = "share"
        /\ gb'[w] = gb[w]
        /\ applied' = IF Overflowed(w) THEN applied ELSE [applied EXCEPT ![w] = Append(@, Summed(w))]
    BY <1>0, <1>1, <1>11 DEF MegatronStep
  <2>2. gb[w] \in 1..GlobalBatches /\ IsUpdateOf(Summed(w), gb[w])
    BY <1>3, <2>1
  <2>3. gb[w] \in Updating <=> ~Overflowed(w)
    <3>1. Accepted
      BY <2>1, PlacedWorker DEF InBatch
    <3> QED BY <1>0, <2>1, <2>2, <3>1, TrainSizes DEF Updating, Overflowed
  <2>4. Done(w) = gb[w] /\ Done(w)' = gb[w] + 1
    BY <2>1 DEF Done
  <2> QED BY <1>0, <2>1, <2>2, <2>3, <2>4 DEF MadeNext
<1>12. CASE ShareMetrics(w)
  <2>1. at[w] = "share" /\ at'[w] = "batch" /\ gb'[w] = gb[w] + 1 /\ applied' = applied
    BY <1>0, <1>1, <1>12 DEF ShareMetrics
  <2>2. Done(w) = gb[w] + 1 /\ Done(w)' = gb[w] + 1
    BY <2>1 DEF Done
  <2> QED BY <1>0, <2>1, <2>2 DEF MadeNext
<1>13. ~(StartRows(w) \/ SwapReference(w) \/ NextEval(w) \/ ShareRows(w) \/ ReturnRows(w))
  BY <1>0 DEF StartRows, SwapReference, NextEval, ShareRows, ReturnRows
<1> QED BY <1>4, <1>5, <1>6, <1>7, <1>8, <1>9, <1>10, <1>11, <1>12, <1>13 DEF Work

LEMMA AppliedInit == Init => Applied
<1> SUFFICES ASSUME Init PROVE Applied
  OBVIOUS
<1>1. /\ at = [w \in Workers |-> "idle"] /\ gb = [w \in Workers |-> 1] /\ pc = "call"
      /\ applied = [w \in Workers |-> << >>] /\ ask \in Calls /\ batch \in Batches
  BY DEF Init
<1>2. ASSUME NEW w \in Workers PROVE AppliedBy(w)
  <2>1. at[w] = "idle" /\ gb[w] = 1 /\ applied[w] = << >>
    BY <1>1
  <2>2. ask.gbs \in Nat \ {0} /\ N \in Nat
    BY <1>1, CallTypes
  <2>3. Behind(w) = {}
    <3>1. ASSUME NEW g \in Updating PROVE ~(g < 1)
      BY DEF Updating
    <3> QED BY <2>1, <3>1 DEF Behind
  <2>4. Cardinality(Behind(w)) = 0
    BY <2>3, FS_EmptySet
  <2> QED BY <2>1, <2>3, <2>4 DEF AppliedBy
<1> QED BY <1>1, <1>2 DEF Applied

\* A step that leaves a worker where it is.
LEMMA AppliedSplitPrime ==
  ASSUME NEW w, gb'[w] \in Nat
  PROVE  AppliedBy(w)' <=> /\ Made(w, Below(Done(w)))' /\ at'[w] # "rows"
                           /\ at'[w] \in {"losses", "returned"} => gb'[w] > GlobalBatches'
<1>1. Behind(w)' = IF at'[w] = "share" THEN Below(gb[w] + 1)' ELSE Below(gb[w])'
  <2>1. Updating' \subseteq Int
    BY DEF Updating
  <2>2. ASSUME NEW g \in Updating' PROVE g < gb'[w] + 1 <=> g < gb'[w] \/ g = gb'[w]
    BY <2>1
  <2> QED BY <2>2 DEF Behind, Below
<1> QED BY <1>1 DEF AppliedBy, Made, Done

\* Made, said of the batches done after a step.
LEMMA MadeDone ==
  ASSUME NEW w, NEW k, Done(w)' = k, Made(w, Below(k))'
  PROVE  Made(w, Below(Done(w)))'
BY DEF Made, Below

LEMMA AppliedSame ==
  ASSUME held' = held, NEW w, gb[w] \in Nat, AppliedBy(w), gb'[w] \in Nat,
         Done(w)' = Done(w), applied'[w] = applied[w], at'[w] # "rows",
         at'[w] \in {"losses", "returned"} => gb'[w] > GlobalBatches
  PROVE  AppliedBy(w)'
<1>1. Made(w, Below(Done(w)))
  BY AppliedSplit
<1>2. PICK k : k = Done(w)
  OBVIOUS
<1>3. Made(w, Below(k))'
  BY <1>1, <1>2, MadeSame
<1>4. Made(w, Below(Done(w)))'
  BY <1>2, <1>3, MadeDone
<1>5. GlobalBatches' = GlobalBatches
  BY HeldFacts
<1> QED BY <1>4, <1>5, AppliedSplitPrime

LEMMA AppliedMore ==
  ASSUME Placed, RowsKept, InStep, Entered, Gradients, Updated, ask.call = "train",
         NEW w \in Workers, AppliedBy(w), Work(w)
  PROVE  AppliedBy(w)' /\ \A v \in Workers : v # w => applied'[v] = applied[v]
<1>0. /\ held' = held /\ ~RowsOut /\ ask \in Calls /\ batch \in Batches /\ gb[w] \in Nat \ {0}
      /\ at[w] \notin {"idle"} /\ GlobalBatches' = GlobalBatches
  <2>1. PICK to \in Places : Moves(w, to)
    BY WorkerMoves
  <2>2. held' = held /\ at[w] # "idle"
    BY <2>1 DEF Moves, kept
  <2> QED BY <2>2, HeldFacts DEF Placed, RowsOut, Scoring
<1>1. PICK S : applied \in [Workers -> Seq(S)]
  BY DEF Updated
<1>2. /\ MadeNext(w) /\ at'[w] # "rows" /\ gb'[w] \in Nat
      /\ at'[w] \in {"losses", "returned"} => gb'[w] > GlobalBatches
  BY AppliedKept
<1>3. Made(w, Below(Done(w)))
  BY <1>0, AppliedSplit
<1>4. PICK k : k = Done(w)
  OBVIOUS
<1>5. CASE applied' = applied /\ Done(w)' = Done(w)
  BY <1>0, <1>2, <1>5, AppliedSame
<1>6. CASE /\ k \in 1..GlobalBatches /\ Done(w)' = k + 1
           /\ applied' = applied /\ k \notin Updating
  <2>1. Below(k + 1) = Below(k)
    <3>1. \A g \in Updating : g < k + 1 <=> g < k
      <4>1. \A g \in Updating : g \in Int /\ g # k
        BY <1>6 DEF Updating
      <4> QED BY <1>6, <4>1
    <3> QED BY <3>1 DEF Below
  <2>2. Made(w, Below(k + 1))
    BY <1>3, <1>4, <2>1
  <2>3. Made(w, Below(k + 1))'
    BY <1>0, <1>6, <2>2, MadeSame
  <2>4. Made(w, Below(Done(w)))'
    BY <1>6, <2>3, MadeDone
  <2> QED BY <1>0, <1>2, <1>6, <2>4, AppliedSplitPrime
<1>7. CASE /\ k \in 1..GlobalBatches /\ Done(w)' = k + 1
           /\ k \in Updating /\ IsUpdateOf(Summed(w), k)
           /\ applied' = [applied EXCEPT ![w] = Append(@, Summed(w))]
  <2>1. Accepted
    <3>1. pc \notin {"call", "refused"}
      BY <1>0 DEF Placed
    <3> QED BY <3>1 DEF Placed
  <2> DEFINE u == Summed(w)
  <2>2. applied[w] \in Seq(S) /\ applied'[w] = Append(applied[w], u) /\ IsUpdateOf(u, k)
        /\ \A v \in Workers : v # w => applied'[v] = applied[v]
    BY <1>1, <1>7
  <2>3. Made(w, Below(k))
    BY <1>3, <1>4
  <2> HIDE DEF u
  <2>4. Made(w, Below(k + 1))'
    BY <1>0, <1>7, <2>1, <2>2, <2>3, MadeOne
  <2>5. Made(w, Below(Done(w)))'
    BY <1>7, <2>4, MadeDone
  <2> QED BY <1>0, <1>2, <2>2, <2>5, AppliedSplitPrime
<1> QED BY <1>2, <1>4, <1>5, <1>6, <1>7 DEF MadeNext

\* An evaluation, or a call for rows, makes no update but Megatron's.
LEMMA NotApplied ==
  ASSUME Placed, InStep, ask.call # "train", ask.worker # "megatron", NEW w \in Workers, Work(w)
  PROVE  applied' = applied
<1> USE DEF kept, atWork
<1>1. at[w] # "step"
  BY DEF InStep, InStepBy, Stepping
<1>2. CASE \/ StartTrain(w) \/ StartRows(w) \/ SwapReference(w) \/ NextBatch(w) \/ Normalise(w)
           \/ UnevenRaises(w) \/ NextEval(w) \/ SumLosses(w) \/ ReturnLosses(w) \/ ReturnRows(w)
  BY <1>2 DEF StartTrain, StartRows, SwapReference, NextBatch, Normalise, UnevenRaises, NextEval,
     SumLosses, ReturnLosses, ReturnRows
<1>3. CASE \/ DTensorTrainForward(w) \/ DTensorScore(w) \/ EmbeddingRaises(w) \/ DTensorGradNorm(w)
           \/ FSDP1TrainForward(w) \/ FSDP1Score(w) \/ FSDP1Generate(w) \/ FSDP1GradNorm(w)
  BY <1>3 DEF DTensorTrainForward, DTensorScore, DTensorForward, EmbeddingRaises, DTensorGradNorm,
     FSDP1TrainForward, FSDP1Score, FSDP1Generate, FSDP1Through, FSDP1GradNorm
<1>4. ~(\/ DTensorStep(w) \/ FSDP1Step(w) \/ MegatronStart(w) \/ MegatronSchedule(w)
        \/ MegatronGradNorm(w) \/ MegatronStep(w) \/ MegatronStepRaises(w) \/ MegatronScore(w)
        \/ ShareRows(w))
  BY <1>1 DEF DTensorStep, FSDP1Step, MegatronStart, MegatronSchedule, MegatronGradNorm,
     MegatronStep, MegatronStepRaises, MegatronScore, ShareRows
<1>5. CASE ShareMetrics(w)
  BY <1>5 DEF ShareMetrics
<1> QED BY <1>2, <1>3, <1>4, <1>5 DEF Work

LEMMA AppliedNext ==
  /\ Placed /\ RowsKept /\ InStep /\ Entered /\ Gradients /\ Updated /\ Applied /\ [Next]_vars
  => Applied'
<1> SUFFICES ASSUME Placed, RowsKept, InStep, Entered, Gradients, Updated, Applied, [Next]_vars
             PROVE  Applied'
  OBVIOUS
<1>0. /\ at \in [Workers -> Places] /\ gb \in [Workers -> Nat \ {0}]
      /\ pc \in {"call", "refused"} => \A w \in Workers : at[w] = "idle"
      /\ ask.call = "train" => \A w \in Workers : AppliedBy(w)
      /\ ask.call # "train" /\ ask.worker # "megatron" => \A w \in Workers : applied[w] = << >>
      /\ pc = "done" => \A w \in Workers : at[w] = "returned"
  BY DEF Placed, Applied
<1>1. ASSUME Calling \/ Gathering \/ UNCHANGED vars PROVE Applied'
  <2>1. /\ held' = held /\ gb' = gb /\ applied' = applied
        /\ at' = at \/ (pc = "call" /\ at' = [w \in Workers |-> "called"])
        /\ pc' = "done" => \A w \in Workers : at'[w] = "returned"
    BY <1>0, <1>1 DEF Calling, CallTrain, CallLogprobs, CallReference, CallGenerate, Dispatch, Refuse,
       Gathering, CollectTrain, CollectRows, CollectRaises, AllReturned, atWork, vars, held
  <2>2. Workers' = Workers /\ ask' = ask
    BY <2>1, HeldFacts
  <2>3. ASSUME NEW w \in Workers, ask.call = "train" PROVE AppliedBy(w)'
    <3>1. gb[w] \in Nat /\ gb'[w] \in Nat /\ gb'[w] = gb[w] /\ applied'[w] = applied[w]
      BY <1>0, <2>1
    <3>2. AppliedBy(w)
      BY <1>0, <2>3
    <3>3. at'[w] = at[w] \/ (at[w] = "idle" /\ at'[w] = "called")
      BY <1>0, <2>1
    <3>4. Done(w)' = Done(w)
      BY <3>1, <3>3 DEF Done
    <3>5. /\ at'[w] # "rows"
          /\ at'[w] \in {"losses", "returned"} => gb'[w] > GlobalBatches
      BY <3>1, <3>2, <3>3 DEF AppliedBy
    <3> QED BY <2>1, <3>1, <3>2, <3>4, <3>5, AppliedSame
  <2> QED BY <1>0, <2>1, <2>2, <2>3 DEF Applied
<1>2. ASSUME NEW w \in Workers, Work(w) PROVE Applied'
  <2>1. PICK to \in Places : Moves(w, to)
    BY <1>2, WorkerMoves
  <2>2. /\ held' = held /\ at' = [at EXCEPT ![w] = to] /\ pc' = pc /\ at[w] # "returned"
        /\ gb' = gb \/ gb' = [gb EXCEPT ![w] = gb[w] + 1]
    BY <2>1 DEF Moves, kept
  <2>3. Workers' = Workers /\ ask' = ask
    BY <2>2, HeldFacts
  <2>4. pc' # "done"
    BY <1>0, <1>2, <2>2
  <2>5. ASSUME ask.call = "train", NEW v \in Workers PROVE AppliedBy(v)'
    <3>1. AppliedBy(w)' /\ \A x \in Workers : x # w => applied'[x] = applied[x]
      BY <1>0, <1>2, <2>5, AppliedMore
    <3>2. CASE v # w
      <4>1. at'[v] = at[v] /\ gb'[v] = gb[v] /\ gb[v] \in Nat /\ applied'[v] = applied[v]
        BY <1>0, <2>2, <2>5, <3>1, <3>2
      <4>2. AppliedBy(v) /\ Done(v)' = Done(v)
        BY <1>0, <2>5, <4>1 DEF Done
      <4>3. /\ at'[v] # "rows"
            /\ at'[v] \in {"losses", "returned"} => gb'[v] > GlobalBatches
        BY <4>1, <4>2 DEF AppliedBy
      <4> QED BY <2>2, <4>1, <4>2, <4>3, AppliedSame
    <3> QED BY <3>1, <3>2
  <2>6. ASSUME ask.call # "train", ask.worker # "megatron" PROVE applied' = applied
    BY <1>2, <2>6, NotApplied
  <2> QED BY <1>0, <2>3, <2>4, <2>5, <2>6 DEF Applied
<1> QED BY <1>1, <1>2 DEF Next

\* The updates made so far are the first of those to make.
LEMMA FirstUpdates ==
  ASSUME ask \in Calls, batch \in Batches, ~RowsOut, NEW k \in Nat
  PROVE  /\ Cardinality(Below(k)) <= Cardinality(Updating)
         /\ \A g \in Updating : UpdateOf(g) <= Cardinality(Below(k)) => g \in Below(k)
         /\ k > GlobalBatches => Below(k) = Updating
<1> DEFINE U == Updating
<1>1. U \in SUBSET Nat /\ IsFiniteSet(U) /\ \A g \in U : g \in 1..GlobalBatches
  BY UpdatingFacts
<1>2. Below(k) = {h \in U : h < k} /\ Below(k) \subseteq U
  BY DEF Below
<1>3. Cardinality(Below(k)) <= Cardinality(U)
  BY <1>1, <1>2, FS_Subset
<1>4. ASSUME NEW g \in U, g \notin Below(k) PROVE ~(UpdateOf(g) <= Cardinality(Below(k)))
  <2>1. g \in Nat /\ k <= g
    BY <1>1, <1>2, <1>4
  <2>2. /\ UpdateOf(g) = Cardinality({h \in U : h < g}) + 1
        /\ Cardinality({h \in U : h < g}) \in Nat /\ Cardinality({h \in U : h < k}) \in Nat
        /\ IsFiniteSet({h \in U : h < g})
    BY <1>1, <2>1, UpdatesNumbered DEF UpdateOf
  <2>3. {h \in U : h < k} \subseteq {h \in U : h < g}
    <3>1. \A h \in U : h \in Nat
      BY <1>1
    <3>2. \A h \in U : h < k => h < g
      BY <2>1, <3>1
    <3> QED BY <3>2
  <2>4. Cardinality({h \in U : h < k}) <= Cardinality({h \in U : h < g})
    BY <2>2, <2>3, FS_Subset
  <2> QED BY <1>2, <2>2, <2>4
<1>5. ASSUME k > GlobalBatches PROVE Below(k) = U
  <2>1. GlobalBatches \in Nat
    BY UpdatingFacts
  <2>2. \A g \in U : g < k
    BY <1>1, <1>5, <2>1
  <2> QED BY <1>2, <2>2
<1> QED BY <1>3, <1>4, <1>5

\* However a batch is cut, reordered or padded, the updates of a training
\* call are the sums over the caller's chunks, in their order, normalised by
\* the valid samples of the whole chunk, on every worker; an evaluation of a
\* DTensor or FSDP1 policy makes none.
THEOREM UpdatesAreChunks == Spec => []UpdatesFollowChunks
<1>1. Placed /\ Applied => UpdatesFollowChunks
  <2> SUFFICES ASSUME Placed, Applied, NEW w \in Workers
               PROVE  IF ask.call = "train"
                      THEN /\ Len(applied[w]) <= Cardinality(Updating)
                           /\ \A g \in Updating : UpdateOf(g) <= Len(applied[w]) =>
                                IsUpdateOf(applied[w][UpdateOf(g)], g)
                           /\ pc = "done" => Len(applied[w]) = Cardinality(Updating)
                      ELSE ask.worker # "megatron" => applied[w] = << >>
    BY DEF UpdatesFollowChunks
  <2>1. CASE ask.call # "train"
    BY <2>1 DEF Applied
  <2>2. CASE ask.call = "train"
    <3>1. ask \in Calls /\ batch \in Batches /\ gb[w] \in Nat \ {0} /\ ~RowsOut
      BY <2>2 DEF Placed, RowsOut, Scoring
    <3>2. AppliedBy(w) /\ (pc = "done" => at[w] = "returned" /\ gb[w] > GlobalBatches)
      BY <2>2 DEF Applied, AppliedBy
    <3> DEFINE k == Done(w)
    <3>3. /\ Len(applied[w]) = Cardinality(Below(k))
          /\ \A g \in Below(k) : IsUpdateOf(applied[w][UpdateOf(g)], g)
          /\ pc = "done" => k > GlobalBatches
      BY <3>1, <3>2, AppliedSplit DEF Made, Done
    <3>4. k \in Nat
      BY <3>1 DEF Done
    <3> HIDE DEF k
    <3>5. /\ Cardinality(Below(k)) <= Cardinality(Updating)
          /\ \A g \in Updating : UpdateOf(g) <= Cardinality(Below(k)) => g \in Below(k)
          /\ k > GlobalBatches => Below(k) = Updating
      BY <3>1, <3>4, FirstUpdates
    <3> QED BY <2>2, <3>3, <3>5
  <2> QED BY <2>1, <2>2
<1> QED BY <1>1, PlacedInit, PlacedNext, RowsKeptInit, RowsKeptNext, InStepInit, InStepNext,
           FramesKeptInit, UpdatedNext, GradientsInit, GradientsNext, AppliedInit, AppliedNext, PTL
        DEF Spec
=============================================================================
