---------------------------- MODULE RolloutProofs ----------------------------
(***************************************************************************)
(* The lockstep rollout gives every sample an episode of its own, and its  *)
(* log holds nothing of another's, for every batch, every number of tasks  *)
(* and scorers and every limit of turns.                                   *)
(***************************************************************************)
EXTENDS Rollout, FiniteSetTheorems, SequenceTheorems, WellFoundedInduction, TLAPS

USE RolloutAssumption DEF Samples

-----------------------------------------------------------------------------
(* Lists.                                                                  *)

\* A function of the places 1..n is a list.
LEMMA MapLists ==
  ASSUME NEW C, NEW n \in Nat, NEW s \in [1..n -> C]
  PROVE  s \in Seq(C) /\ Len(s) = n
OBVIOUS

Below(S, x) == {y \in S : y < x}

\* As many elements are below two others only if these are one.
LEMMA BelowDiffer ==
  ASSUME NEW S \in SUBSET Nat, IsFiniteSet(S), NEW x \in S, NEW y \in S, x # y
  PROVE  Cardinality(Below(S, x)) # Cardinality(Below(S, y))
<1>1. ASSUME NEW u \in S, NEW v \in S, u < v
      PROVE  Cardinality(Below(S, u)) # Cardinality(Below(S, v))
  <2>1. Below(S, u) \subseteq Below(S, v)
    <3> SUFFICES ASSUME NEW z \in S, z < u PROVE z < v
      BY DEF Below
    <3>1. {z, u, v} \subseteq Nat
      OBVIOUS
    <3> QED BY <1>1, <3>1
  <2>2. u \in Below(S, v) /\ u \notin Below(S, u)
    BY <1>1 DEF Below
  <2>3. IsFiniteSet(Below(S, v))
    BY FS_Subset DEF Below
  <2> QED BY <2>1, <2>2, <2>3, FS_Subset
<1>2. x < y \/ y < x
  <2>1. x \in Nat /\ y \in Nat
    OBVIOUS
  <2> QED BY <2>1
<1> QED BY <1>1, <1>2

\* s has n places, every element of C, and none twice.
Lists(s, C, n) ==
  /\ s \in Seq(C) /\ Len(s) = n
  /\ \A x \in C : \E k \in 1..n : s[k] = x
  /\ \A j, k \in 1..n : s[j] = s[k] => j = k

\* A set, listed in its order.
LEMMA AscendingFacts ==
  ASSUME NEW S \in SUBSET Nat, IsFiniteSet(S)
  PROVE  Lists(Ascending(S), S, Cardinality(S))
<1> DEFINE n == Cardinality(S)
           r == [x \in S |-> Cardinality(Below(S, x))]
           s == Ascending(S)
<1>1. n \in Nat
  BY FS_CardinalityType
<1>2. IsFiniteSet(0..n - 1) /\ Cardinality(0..n - 1) = n
  <2> HIDE DEF n
  <2>1. 0 \in Int /\ n - 1 \in Int
    BY <1>1
  <2>2. IsFiniteSet(0..n - 1) /\ Cardinality(0..n - 1) = IF 0 > n - 1 THEN 0 ELSE (n - 1) - 0 + 1
    BY <2>1, FS_Interval
  <2>3. (IF 0 > n - 1 THEN 0 ELSE (n - 1) - 0 + 1) = n
    BY <1>1
  <2> QED BY <2>2, <2>3
<1>3. ASSUME NEW x \in S PROVE Cardinality(Below(S, x)) \in 0..n - 1
  <2>1. Below(S, x) \subseteq S /\ x \notin Below(S, x)
    BY DEF Below
  <2>2. /\ IsFiniteSet(Below(S, x)) /\ Cardinality(Below(S, x)) <= n
        /\ Cardinality(Below(S, x)) # n
    BY <2>1, FS_Subset
  <2>3. Cardinality(Below(S, x)) \in Nat
    BY <2>2, FS_CardinalityType
  <2> HIDE DEF n
  <2> QED BY <1>1, <2>2, <2>3
<1>4. r \in Injection(S, 0..n - 1)
  <2>1. r \in [S -> 0..n - 1]
    BY <1>3
  <2>2. \A x, y \in S : x # y => r[x] # r[y]
    BY BelowDiffer
  <2> HIDE DEF r
  <2> QED BY <2>1, <2>2 DEF Injection, IsInjective
<1>5. r \in Surjection(S, 0..n - 1)
  <2> HIDE DEF r
  <2> QED BY <1>2, <1>4, FS_Injection
<1>6. s = [k \in 1..n |-> CHOOSE x \in S : Cardinality(Below(S, x)) = k - 1]
  BY DEF Ascending, Below
<1> HIDE DEF n
<1>7. ASSUME NEW k \in 1..n PROVE s[k] \in S /\ r[s[k]] = k - 1
  <2>1. k - 1 \in 0..n - 1
    BY <1>1
  <2>2. \E x \in S : r[x] = k - 1
    <3> HIDE DEF r
    <3> QED BY <1>5, <2>1 DEF Surjection
  <2>3. \E x \in S : Cardinality(Below(S, x)) = k - 1
    BY <2>2
  <2> HIDE DEF s
  <2> QED BY <1>6, <2>3
<1>8. \A x \in S : r[x] + 1 \in 1..n /\ (r[x] + 1) - 1 = r[x]
  BY <1>1, <1>3
<1>9. s \in Seq(S) /\ Len(s) = n
  <2>1. s = [k \in 1..n |-> s[k]]
    <3> DEFINE h == [k \in 1..n |-> CHOOSE x \in S : Cardinality(Below(S, x)) = k - 1]
    <3>1. h = [k \in 1..n |-> h[k]]
      OBVIOUS
    <3> HIDE DEF h
    <3> QED BY <1>6, <3>1 DEF h
  <2>2. \A k \in 1..n : s[k] \in S
    BY <1>7
  <2> HIDE DEF s, r
  <2>3. s \in [1..n -> S]
    BY <2>1, <2>2
  <2> QED BY <1>1, <2>3, MapLists
<1> HIDE DEF s, r
<1>10. ASSUME NEW x \in S PROVE \E k \in 1..n : s[k] = x
  <2>1. s[r[x] + 1] \in S /\ r[s[r[x] + 1]] = r[x]
    BY <1>7, <1>8
  <2>2. s[r[x] + 1] = x
    BY <1>4, <2>1 DEF Injection, IsInjective
  <2> QED BY <1>8, <2>2
<1>11. ASSUME NEW j \in 1..n, NEW k \in 1..n, s[j] = s[k] PROVE j = k
  <2>1. j - 1 = k - 1 /\ j \in Nat /\ k \in Nat
    BY <1>7, <1>11
  <2> QED BY <2>1
<1> QED BY <1>9, <1>10, <1>11 DEF s, n, Lists

\* Numbers that exist have a least one.
LEMMA LeastNatural ==
  ASSUME NEW S \in SUBSET Nat, S # {}
  PROVE  \E m \in S : \A k \in S : m <= k
<1> DEFINE R == {ss \in Nat \X Nat : ss[1] < ss[2]}
<1>1. IsWellFoundedOn(R, Nat)
  BY NatLessThanWellFounded DEF OpToRel
<1>2. S \subseteq Nat /\ S # {}
  OBVIOUS
<1>3. \E m \in S : \A k \in S : ~(<<k, m>> \in R)
  <2> HIDE DEF R
  <2> QED BY <1>1, <1>2, WFMin
<1>4. PICK m \in S : \A k \in S : ~(<<k, m>> \in R)
  BY <1>3
<1>5. \A k \in S : m <= k
  <2> TAKE k \in S
  <2>1. <<k, m>> \notin R /\ k \in Nat /\ m \in Nat
    BY <1>2, <1>4
  <2> QED BY <2>1
<1> QED BY <1>5

\* g[i] is the first i lists of fs joined.
Joins(g, fs, n) ==
  g = [i \in 1..n |-> IF i = 1 THEN fs[i] ELSE g[i - 1] \o fs[i]]

\* Such partial joins exist for every number of lists.
LEMMA JoinsExist == ASSUME NEW fs PROVE \A n \in Nat : \E g : Joins(g, fs, n)
<1> DEFINE S == {n \in Nat : ~ \E g : Joins(g, fs, n)}
<1> SUFFICES ASSUME S # {} PROVE FALSE
  OBVIOUS
<1>0. S \in SUBSET Nat
  OBVIOUS
<1>1. PICK m \in S : \A k \in S : m <= k
  <2> HIDE DEF S
  <2> QED BY <1>0, LeastNatural
<1>2. m \in Nat /\ ~ \E g : Joins(g, fs, m)
  OBVIOUS
<1>3. CASE m = 0
  <2>1. Joins(<< >>, fs, 0)
    BY DEF Joins
  <2> QED BY <1>2, <1>3, <2>1
<1>4. CASE m # 0
  <2>1. m - 1 \in Nat /\ m - 1 \notin S
    BY <1>1, <1>2, <1>4
  <2>2. PICK g : Joins(g, fs, m - 1)
    BY <2>1
  <2> DEFINE e == IF m = 1 THEN fs[m] ELSE g[m - 1] \o fs[m]
             h == [i \in 1..m |-> IF i = m THEN e ELSE g[i]]
  <2>3. \A i \in 1..m : i # 1 => h[i - 1] = g[i - 1]
    BY <1>2
  <2>4. \A i \in 1..m - 1 : g[i] = IF i = 1 THEN fs[i] ELSE g[i - 1] \o fs[i]
    BY <2>2 DEF Joins
  <2>5. \A i \in 1..m : h[i] = IF i = 1 THEN fs[i] ELSE h[i - 1] \o fs[i]
    <3> HIDE DEF S
    <3> TAKE i \in 1..m
    <3>1. CASE i = m
      BY <1>2, <1>4, <2>3, <3>1
    <3>2. CASE i # m
      <4>1. i \in 1..m - 1
        BY <1>2, <3>2
      <4> QED BY <1>2, <2>3, <2>4, <3>2, <4>1
    <3> QED BY <3>1, <3>2
  <2>6. Joins(h, fs, m)
    <3> HIDE DEF S
    <3> QED BY <2>5 DEF Joins
  <2> QED BY <1>2, <2>6
<1> QED BY <1>3, <1>4

\* FlattenSeq is the last partial join.
LEMMA FlattenIs ==
  ASSUME NEW fs, Len(fs) \in Nat \ {0}
  PROVE  \E g : Joins(g, fs, Len(fs)) /\ FlattenSeq(fs) = g[Len(fs)]
<1>1. \E g : Joins(g, fs, Len(fs))
  BY JoinsExist
<1> DEFINE f == CHOOSE g : Joins(g, fs, Len(fs))
<1>2. Joins(f, fs, Len(fs))
  BY <1>1
<1>3. FlattenSeq(fs) = f[Len(fs)]
  BY DEF FlattenSeq, Joins
<1> QED BY <1>2, <1>3


\* F and G are the n lists of fs and of gs joined, and their elements lie
\* side by side as in these.
Paired(S, T, F, G, fs, gs, n) ==
  /\ F \in Seq(S) /\ G \in Seq(T) /\ Len(F) = Len(G)
  /\ \A k \in 1..Len(F) : \E i \in 1..n : \E j \in 1..Len(fs[i]) :
       F[k] = fs[i][j] /\ G[k] = gs[i][j]
  /\ \A i \in 1..n : \A j \in 1..Len(fs[i]) : \E k \in 1..Len(F) : F[k] = fs[i][j]

\* Where the elements of two joined lists lie.
Concat(S, c, a, b) ==
  /\ c \in Seq(S) /\ Len(c) = Len(a) + Len(b)
  /\ \A k \in 1..Len(a) : k \in 1..Len(c) /\ c[k] = a[k]
  /\ \A j \in 1..Len(b) : Len(a) + j \in 1..Len(c) /\ c[Len(a) + j] = b[j]
  /\ \A k \in 1..Len(c) : k \in 1..Len(a) \/ \E j \in 1..Len(b) : k = Len(a) + j

LEMMA ConcatPlaces ==
  ASSUME NEW S, NEW a \in Seq(S), NEW b \in Seq(S) PROVE Concat(S, a \o b, a, b)
<1> DEFINE c == a \o b
           m == Len(a)
           n == Len(b)
<1>1. /\ c \in Seq(S) /\ Len(c) = m + n
      /\ \A k \in 1..(m + n) : c[k] = IF k <= m THEN a[k] ELSE b[k - m]
  BY ConcatProperties
<1>2. m \in Nat /\ n \in Nat
  OBVIOUS
<1> HIDE DEF c, m, n
<1>3. \A k \in 1..m : k \in 1..(m + n) /\ c[k] = a[k]
  BY <1>1, <1>2
<1>4. ASSUME NEW j \in 1..n PROVE m + j \in 1..(m + n) /\ c[m + j] = b[j]
  <2>1. m + j \in 1..(m + n) /\ ~(m + j <= m) /\ (m + j) - m = j
    BY <1>2
  <2> QED BY <1>1, <2>1
<1>5. ASSUME NEW k \in 1..(m + n) PROVE k \in 1..m \/ \E j \in 1..n : k = m + j
  <2>1. CASE k > m
    <3>1. k - m \in 1..n /\ k = m + (k - m)
      BY <1>2, <2>1
    <3> QED BY <3>1
  <2>2. CASE k <= m
    BY <1>2, <2>2
  <2>3. k \in Nat
    BY <1>2
  <2> QED BY <1>2, <2>1, <2>2, <2>3
<1> QED BY <1>1, <1>3, <1>4, <1>5 DEF c, m, n, Concat

\* One more list on either side keeps them side by side.
LEMMA PairedJoined ==
  ASSUME NEW S, NEW T, NEW F, NEW G, NEW fs, NEW gs, NEW n \in Nat,
         Paired(S, T, F, G, fs, gs, n),
         fs[n + 1] \in Seq(S), gs[n + 1] \in Seq(T), Len(fs[n + 1]) = Len(gs[n + 1])
  PROVE  Paired(S, T, F \o fs[n + 1], G \o gs[n + 1], fs, gs, n + 1)
<1> DEFINE a == fs[n + 1]
           b == gs[n + 1]
           P == F \o a
           Q == G \o b
<1>1. /\ F \in Seq(S) /\ G \in Seq(T) /\ Len(F) = Len(G)
      /\ a \in Seq(S) /\ b \in Seq(T) /\ Len(a) = Len(b)
  BY DEF Paired
<1>2. /\ P \in Seq(S) /\ Len(P) = Len(F) + Len(a)
      /\ \A k \in 1..Len(F) : k \in 1..Len(P) /\ P[k] = F[k]
      /\ \A j \in 1..Len(a) : Len(F) + j \in 1..Len(P) /\ P[Len(F) + j] = a[j]
      /\ \A k \in 1..Len(P) : k \in 1..Len(F) \/ \E j \in 1..Len(a) : k = Len(F) + j
  <2> HIDE DEF a
  <2>1. Concat(S, F \o a, F, a)
    BY <1>1, ConcatPlaces
  <2> QED BY <2>1 DEF Concat
<1>3. /\ Q \in Seq(T) /\ Len(Q) = Len(G) + Len(b)
      /\ \A k \in 1..Len(G) : k \in 1..Len(Q) /\ Q[k] = G[k]
      /\ \A j \in 1..Len(b) : Len(G) + j \in 1..Len(Q) /\ Q[Len(G) + j] = b[j]
  <2> HIDE DEF b
  <2>1. Concat(T, G \o b, G, b)
    BY <1>1, ConcatPlaces
  <2> QED BY <2>1 DEF Concat
<1>4. n + 1 \in 1..(n + 1) /\ 1..n \subseteq 1..(n + 1)
      /\ \A i \in 1..(n + 1) : i \in 1..n \/ i = n + 1
  OBVIOUS
<1> HIDE DEF P, Q
<1>5. ASSUME NEW k \in 1..Len(P)
      PROVE  \E i \in 1..(n + 1) : \E j \in 1..Len(fs[i]) : P[k] = fs[i][j] /\ Q[k] = gs[i][j]
  <2>1. CASE k \in 1..Len(F)
    <3>1. PICK i \in 1..n : \E j \in 1..Len(fs[i]) : F[k] = fs[i][j] /\ G[k] = gs[i][j]
      BY <2>1 DEF Paired
    <3>2. P[k] = F[k] /\ Q[k] = G[k]
      BY <1>1, <1>2, <1>3, <2>1
    <3> QED BY <1>4, <3>1, <3>2
  <2>2. CASE \E j \in 1..Len(a) : k = Len(F) + j
    <3>1. PICK j \in 1..Len(a) : k = Len(F) + j
      BY <2>2
    <3>2. P[k] = a[j] /\ Q[k] = b[j]
      BY <1>1, <1>2, <1>3, <3>1
    <3> QED BY <1>4, <3>2
  <2> QED BY <1>2, <2>1, <2>2
<1>6. ASSUME NEW i \in 1..(n + 1), NEW j \in 1..Len(fs[i])
      PROVE  \E k \in 1..Len(P) : P[k] = fs[i][j]
  <2>1. CASE i \in 1..n
    <3>1. PICK k \in 1..Len(F) : F[k] = fs[i][j]
      BY <2>1 DEF Paired
    <3> QED BY <1>2, <3>1
  <2>2. CASE i = n + 1
    BY <1>2, <2>2
  <2> QED BY <1>4, <2>1, <2>2
<1>7. Len(P) = Len(Q)
  BY <1>1, <1>2, <1>3
<1> HIDE DEF a, b
<1> QED BY <1>2, <1>3, <1>5, <1>6, <1>7 DEF Paired, P, Q, a, b

\* Two flattened lists of lists of the same lengths lie side by side.
LEMMA FlattenPaired ==
  ASSUME NEW S, NEW T, NEW fs, NEW gs, Len(fs) \in Nat \ {0}, Len(gs) = Len(fs),
         \A i \in 1..Len(fs) : fs[i] \in Seq(S) /\ gs[i] \in Seq(T) /\ Len(fs[i]) = Len(gs[i])
  PROVE  Paired(S, T, FlattenSeq(fs), FlattenSeq(gs), fs, gs, Len(fs))
<1> DEFINE n == Len(fs)
<1>1. PICK f : Joins(f, fs, n) /\ FlattenSeq(fs) = f[n]
  BY FlattenIs
<1>2. PICK g : Joins(g, gs, n) /\ FlattenSeq(gs) = g[n]
  <2>1. Len(gs) \in Nat \ {0}
    OBVIOUS
  <2> QED BY <2>1, FlattenIs
<1>3. n \in Nat \ {0} /\ n \in 1..n
  OBVIOUS
<1> HIDE DEF n
<1>4. /\ \A i \in 1..n : f[i] = IF i = 1 THEN fs[i] ELSE f[i - 1] \o fs[i]
      /\ \A i \in 1..n : g[i] = IF i = 1 THEN gs[i] ELSE g[i - 1] \o gs[i]
  BY <1>1, <1>2 DEF Joins
<1>5. \A i \in 1..n : fs[i] \in Seq(S) /\ gs[i] \in Seq(T) /\ Len(fs[i]) = Len(gs[i])
  BY DEF n
<1> DEFINE Bad == {i \in 1..n : ~ Paired(S, T, f[i], g[i], fs, gs, i)}
<1>6. Bad = {}
  <2> SUFFICES ASSUME Bad # {} PROVE FALSE
    OBVIOUS
  <2>1. Bad \in SUBSET Nat
    OBVIOUS
  <2>2. PICK m \in Bad : \A k \in Bad : m <= k
    <3> HIDE DEF Bad
    <3> QED BY <2>1, LeastNatural
  <2>3. m \in 1..n /\ ~ Paired(S, T, f[m], g[m], fs, gs, m)
    OBVIOUS
  <2>4. CASE m = 1
    <3>1. f[1] = fs[1] /\ g[1] = gs[1]
      BY <1>4, <2>3, <2>4
    <3>2. fs[1] \in Seq(S) /\ gs[1] \in Seq(T) /\ Len(fs[1]) = Len(gs[1])
      BY <1>5, <2>3, <2>4
    <3>3. 1 \in 1..1 /\ \A i \in 1..1 : i = 1
      OBVIOUS
    <3> HIDE DEF Bad
    <3>4. Paired(S, T, f[1], g[1], fs, gs, 1)
      BY <3>1, <3>2, <3>3 DEF Paired
    <3> QED BY <2>3, <2>4, <3>4
  <2>5. CASE m # 1
    <3>1. m - 1 \in 1..n /\ m - 1 \in Nat /\ (m - 1) + 1 = m /\ ~(m <= m - 1)
      BY <1>3, <2>3, <2>5
    <3>2. m - 1 \notin Bad
      BY <2>2, <3>1
    <3>3. Paired(S, T, f[m - 1], g[m - 1], fs, gs, m - 1)
      BY <3>1, <3>2
    <3> HIDE DEF Bad
    <3>4. fs[m] \in Seq(S) /\ gs[m] \in Seq(T) /\ Len(fs[m]) = Len(gs[m])
      BY <1>5, <2>3
    <3> DEFINE p == m - 1
    <3>5. /\ p \in Nat /\ Paired(S, T, f[p], g[p], fs, gs, p)
          /\ fs[p + 1] \in Seq(S) /\ gs[p + 1] \in Seq(T) /\ Len(fs[p + 1]) = Len(gs[p + 1])
      BY <3>1, <3>3, <3>4
    <3> HIDE DEF p
    <3>6. Paired(S, T, f[p] \o fs[p + 1], g[p] \o gs[p + 1], fs, gs, p + 1)
      BY <3>5, PairedJoined
    <3>7. f[m] = f[m - 1] \o fs[m] /\ g[m] = g[m - 1] \o gs[m]
      BY <1>4, <2>3, <2>5
    <3>8. p = m - 1 /\ p + 1 = m
      BY <3>1 DEF p
    <3> QED BY <2>3, <3>6, <3>7, <3>8
  <2> QED BY <2>4, <2>5
<1>7. Paired(S, T, f[n], g[n], fs, gs, n)
  BY <1>3, <1>6
<1> QED BY <1>1, <1>2, <1>7 DEF n

\* G is made of lists gs[i] none longer than fs[i], those of which F is made;
\* it is as long as F only if each is as long.
Shorter(F, G, fs, gs, n) ==
  /\ Len(F) \in Nat /\ Len(G) \in Nat /\ Len(G) <= Len(F)
  /\ \A i \in 1..n : Len(gs[i]) <= Len(G)
  /\ Len(G) = Len(F) => \A i \in 1..n : Len(gs[i]) = Len(fs[i])

LEMMA ShorterJoined ==
  ASSUME NEW S, NEW T, NEW F \in Seq(S), NEW G \in Seq(T), NEW fs, NEW gs, NEW n \in Nat,
         Shorter(F, G, fs, gs, n), \A i \in 1..n : Len(gs[i]) \in Nat,
         fs[n + 1] \in Seq(S), gs[n + 1] \in Seq(T), Len(gs[n + 1]) <= Len(fs[n + 1])
  PROVE  Shorter(F \o fs[n + 1], G \o gs[n + 1], fs, gs, n + 1)
<1> DEFINE a == fs[n + 1]
           b == gs[n + 1]
           P == F \o a
           Q == G \o b
<1>1. /\ Len(F) \in Nat /\ Len(G) \in Nat /\ Len(a) \in Nat /\ Len(b) \in Nat
      /\ Len(G) <= Len(F) /\ Len(b) <= Len(a)
  BY DEF Shorter
<1>2. Len(P) = Len(F) + Len(a) /\ Len(Q) = Len(G) + Len(b)
  <2> HIDE DEF a, b
  <2>1. a \in Seq(S) /\ b \in Seq(T)
    BY DEF a, b
  <2> QED BY <2>1
<1>3. \A i \in 1..(n + 1) : i \in 1..n \/ i = n + 1
  OBVIOUS
<1> HIDE DEF P, Q
<1>4. ASSUME NEW i \in 1..(n + 1) PROVE Len(gs[i]) <= Len(Q)
  <2>1. CASE i \in 1..n
    <3>1. Len(gs[i]) <= Len(G) /\ Len(gs[i]) \in Nat
      BY <2>1 DEF Shorter
    <3> QED BY <1>1, <1>2, <3>1
  <2>2. CASE i = n + 1
    <3>1. Len(gs[i]) = Len(b)
      BY <2>2
    <3> HIDE DEF b
    <3> QED BY <1>1, <1>2, <3>1
  <2> QED BY <1>3, <2>1, <2>2
<1>5. ASSUME Len(Q) = Len(P), NEW i \in 1..(n + 1) PROVE Len(gs[i]) = Len(fs[i])
  <2>1. Len(G) = Len(F) /\ Len(b) = Len(a)
    <3> HIDE DEF a, b
    <3> QED BY <1>1, <1>2, <1>5
  <2>2. CASE i \in 1..n
    BY <2>1, <2>2 DEF Shorter
  <2>3. CASE i = n + 1
    BY <2>1, <2>3
  <2> QED BY <1>3, <2>2, <2>3
<1>6. Len(P) \in Nat /\ Len(Q) \in Nat /\ Len(Q) <= Len(P)
  <2> HIDE DEF a, b
  <2> QED BY <1>1, <1>2
<1> HIDE DEF a, b
<1> QED BY <1>4, <1>5, <1>6 DEF Shorter, P, Q, a, b

\* Lists that are never longer, flattened.
LEMMA FlattenShorter ==
  ASSUME NEW S, NEW T, NEW fs, NEW gs, Len(fs) \in Nat \ {0}, Len(gs) = Len(fs),
         \A i \in 1..Len(fs) : fs[i] \in Seq(S) /\ gs[i] \in Seq(T) /\ Len(gs[i]) <= Len(fs[i])
  PROVE  /\ FlattenSeq(gs) \in Seq(T)
         /\ Shorter(FlattenSeq(fs), FlattenSeq(gs), fs, gs, Len(fs))
<1> DEFINE n == Len(fs)
<1>1. PICK f : Joins(f, fs, n) /\ FlattenSeq(fs) = f[n]
  BY FlattenIs
<1>2. PICK g : Joins(g, gs, n) /\ FlattenSeq(gs) = g[n]
  <2>1. Len(gs) \in Nat \ {0}
    OBVIOUS
  <2> QED BY <2>1, FlattenIs
<1>3. n \in Nat \ {0} /\ n \in 1..n
  OBVIOUS
<1>5. \A i \in 1..n : fs[i] \in Seq(S) /\ gs[i] \in Seq(T) /\ Len(gs[i]) <= Len(fs[i])
  OBVIOUS
<1> HIDE DEF n
<1>4. /\ \A i \in 1..n : f[i] = IF i = 1 THEN fs[i] ELSE f[i - 1] \o fs[i]
      /\ \A i \in 1..n : g[i] = IF i = 1 THEN gs[i] ELSE g[i - 1] \o gs[i]
  BY <1>1, <1>2 DEF Joins
<1> DEFINE Good(i) == f[i] \in Seq(S) /\ g[i] \in Seq(T) /\ Shorter(f[i], g[i], fs, gs, i)
           Bad == {i \in 1..n : ~ Good(i)}
<1>6. Bad = {}
  <2> SUFFICES ASSUME Bad # {} PROVE FALSE
    OBVIOUS
  <2>1. Bad \in SUBSET Nat
    OBVIOUS
  <2>2. PICK m \in Bad : \A k \in Bad : m <= k
    <3> HIDE DEF Bad
    <3> QED BY <2>1, LeastNatural
  <2>3. m \in 1..n /\ ~ Good(m)
    OBVIOUS
  <2>4. CASE m = 1
    <3>1. f[1] = fs[1] /\ g[1] = gs[1]
      BY <1>4, <2>3, <2>4
    <3>2. fs[1] \in Seq(S) /\ gs[1] \in Seq(T) /\ Len(gs[1]) <= Len(fs[1])
      BY <1>5, <2>3, <2>4
    <3>3. Len(fs[1]) \in Nat /\ Len(gs[1]) \in Nat /\ \A i \in 1..1 : i = 1
      BY <3>2
    <3> HIDE DEF Bad
    <3>4. Shorter(f[1], g[1], fs, gs, 1)
      BY <3>1, <3>2, <3>3 DEF Shorter
    <3> QED BY <2>3, <2>4, <3>1, <3>2, <3>4
  <2>5. CASE m # 1
    <3>1. m - 1 \in 1..n /\ m - 1 \in Nat /\ (m - 1) + 1 = m /\ ~(m <= m - 1)
          /\ \A i \in 1..(m - 1) : i \in 1..n
      BY <1>3, <2>3, <2>5
    <3>2. m - 1 \notin Bad
      BY <2>2, <3>1
    <3>3. Good(m - 1)
      BY <3>1, <3>2
    <3> HIDE DEF Bad
    <3>4. fs[m] \in Seq(S) /\ gs[m] \in Seq(T) /\ Len(gs[m]) <= Len(fs[m])
      BY <1>5, <2>3
    <3>9. \A i \in 1..(m - 1) : Len(gs[i]) \in Nat
      <4> TAKE i \in 1..(m - 1)
      <4>1. gs[i] \in Seq(T)
        BY <1>5, <3>1
      <4> QED BY <4>1
    <3> DEFINE p == m - 1
    <3>5. /\ p \in Nat /\ f[p] \in Seq(S) /\ g[p] \in Seq(T) /\ Shorter(f[p], g[p], fs, gs, p)
          /\ fs[p + 1] \in Seq(S) /\ gs[p + 1] \in Seq(T) /\ Len(gs[p + 1]) <= Len(fs[p + 1])
          /\ \A i \in 1..p : Len(gs[i]) \in Nat
      BY <3>1, <3>3, <3>4, <3>9
    <3> HIDE DEF p, Good
    <3>6. Shorter(f[p] \o fs[p + 1], g[p] \o gs[p + 1], fs, gs, p + 1)
      BY <3>5, ShorterJoined
    <3>10. f[p] \o fs[p + 1] \in Seq(S) /\ g[p] \o gs[p + 1] \in Seq(T)
      <4>1. /\ f[p] \in Seq(S) /\ fs[p + 1] \in Seq(S)
            /\ g[p] \in Seq(T) /\ gs[p + 1] \in Seq(T)
        BY <3>5
      <4> QED BY <4>1
    <3>7. f[m] = f[m - 1] \o fs[m] /\ g[m] = g[m - 1] \o gs[m]
      BY <1>4, <2>3, <2>5
    <3>8. p = m - 1 /\ p + 1 = m
      BY <3>1 DEF p
    <3> QED BY <2>3, <3>6, <3>7, <3>8, <3>10 DEF Good
  <2> QED BY <2>4, <2>5
<1>7. Good(n)
  <2> HIDE DEF Good
  <2> QED BY <1>3, <1>6
<1> QED BY <1>1, <1>2, <1>7 DEF n

-----------------------------------------------------------------------------
(* The environment deals its rows to the scorers and puts their scores     *)
(* back in the order of the rows.                                          *)

LEMMA DivFacts ==
  ASSUME NEW a \in Nat, NEW d \in Nat \ {0}
  PROVE  /\ a \div d \in Nat /\ (a % d) \in 0..d - 1
         /\ a = (a \div d) * d + (a % d)
OBVIOUS

LEMMA MulMono ==
  ASSUME NEW a \in Nat, NEW b \in Nat, a <= b, NEW d \in Nat
  PROVE  a * d <= b * d
OBVIOUS

LEMMA MulStep ==
  ASSUME NEW a \in Nat, NEW d \in Nat
  PROVE  (a + 1) * d = a * d + d /\ a * d \in Nat
OBVIOUS

\* j blocks of d fit into a.
LEMMA DivAtLeast ==
  ASSUME NEW a \in Nat, NEW d \in Nat \ {0}, NEW j \in Nat, j * d <= a
  PROVE  j <= a \div d
<1> DEFINE q == a \div d
           r == a % d
<1>1. q \in Nat /\ r \in 0..d - 1 /\ a = q * d + r
  BY DivFacts
<1> HIDE DEF q, r
<1>2. ASSUME q < j PROVE FALSE
  <2>1. q + 1 \in Nat /\ q + 1 <= j /\ d \in Nat
    BY <1>1, <1>2
  <2>2. (q + 1) * d <= j * d
    BY <2>1, MulMono
  <2>3. (q + 1) * d = q * d + d /\ q * d \in Nat
    BY <1>1, MulStep
  <2>4. j * d \in Nat
    BY MulStep
  <2> DEFINE u == q * d
             v == j * d
  <2>5. u \in Nat /\ v \in Nat /\ u + d <= v /\ v <= a /\ a = u + r
    BY <1>1, <2>2, <2>3, <2>4
  <2> HIDE DEF u, v
  <2> QED BY <1>1, <2>5
<1>3. j <= q
  BY <1>1, <1>2
<1> QED BY <1>3 DEF q

\* Row i is the j-th of those that scorer w is given.
LEMMA StridePlace ==
  ASSUME NEW k \in Nat, NEW i \in 1..k
  PROVE  LET w == ((i - 1) % NScorers) + 1
             j == ((i - 1) \div NScorers) + 1
         IN  /\ j \in 1..Len(Stride(k, w))
             /\ Stride(k, w)[j] = i
<1> DEFINE n == NScorers
           a == i - 1
           q == a \div n
           r == a % n
           w == r + 1
           j == q + 1
           b == k + n - w
<1>1. n \in Nat \ {0}
  BY DEF RolloutAssumption
<1>2. a \in Nat /\ a + 1 = i /\ a + 1 <= k
  OBVIOUS
<1>3. Stride(k, w) = [p \in 1..(b \div n) |-> w + (p - 1) * n]
  BY DEF Stride
<1> HIDE DEF n, a
<1>4. q \in Nat /\ r \in 0..n - 1 /\ a = q * n + r
  BY <1>1, <1>2, DivFacts
<1> HIDE DEF q, r
<1>5. j \in Nat /\ j * n = q * n + n /\ q * n \in Nat
  BY <1>1, <1>4, MulStep
<1> DEFINE u == q * n
<1>6. u \in Nat /\ j * n = u + n /\ a = u + r
  BY <1>4, <1>5
<1> HIDE DEF u
<1>7. b \in Nat /\ j * n <= b
  BY <1>1, <1>2, <1>4, <1>6
<1> HIDE DEF b
<1>8. j <= b \div n /\ b \div n \in Nat
  <2> HIDE DEF j
  <2> QED BY <1>1, <1>5, <1>7, DivAtLeast, DivFacts
<1> DEFINE m == b \div n
<1>9. m \in Nat /\ j \in 1..m
  BY <1>4, <1>8
<1> HIDE DEF m
<1>10. Stride(k, w) = [p \in 1..m |-> w + (p - 1) * n]
  BY <1>3 DEF m
<1>11. Len(Stride(k, w)) = m
  <2> DEFINE h == [p \in 1..m |-> w + (p - 1) * n]
  <2>1. DOMAIN h = 1..m
    OBVIOUS
  <2>2. h \in Seq({h[p] : p \in 1..m}) /\ Len(h) = m
    <3> DEFINE C == {h[p] : p \in 1..m}
    <3>1. h \in [1..m -> C]
      OBVIOUS
    <3> HIDE DEF h, C
    <3> QED BY <1>9, <3>1, MapLists DEF C
  <2> QED BY <1>10, <2>2
<1>12. Stride(k, w)[j] = w + (j - 1) * n
  BY <1>9, <1>10
<1>13. w + (j - 1) * n = i
  <2>1. j - 1 = q
    BY <1>4
  <2>2. (j - 1) * n = u
    BY <2>1 DEF u
  <2> HIDE DEF j
  <2> QED BY <1>1, <1>2, <1>4, <1>6, <2>2
<1> QED BY <1>9, <1>11, <1>12, <1>13 DEF n, a, q, r

\* The score of every row is that of its own sample.
LEMMA ComputeRewardIs ==
  ASSUME NEW rows, Len(rows) \in Nat
  PROVE  ComputeReward(rows) = [i \in 1..Len(rows) |-> rows[i].sample]
<1> DEFINE k == Len(rows)
           w(i) == ((i - 1) % NScorers) + 1
           j(i) == ((i - 1) \div NScorers) + 1
<1>1. ComputeReward(rows) =
        [i \in 1..k |->
           [p \in 1..Len(Stride(k, w(i))) |-> rows[Stride(k, w(i))[p]].sample][j(i)]]
  BY DEF ComputeReward, Score
<1>2. k \in Nat
  OBVIOUS
<1> HIDE DEF k
<1>3. ASSUME NEW i \in 1..k
      PROVE  j(i) \in 1..Len(Stride(k, w(i))) /\ Stride(k, w(i))[j(i)] = i
  BY <1>2, StridePlace
<1> HIDE DEF w, j
<1>4. ASSUME NEW i \in 1..k
      PROVE  [p \in 1..Len(Stride(k, w(i))) |-> rows[Stride(k, w(i))[p]].sample][j(i)]
             = rows[i].sample
  BY <1>3
<1> QED BY <1>1, <1>4 DEF k

-----------------------------------------------------------------------------
(* The active samples and the groups of their tasks.                       *)

Batch ==
  /\ task \in [Samples -> Tasks]
  /\ active \in Seq(Samples)
  /\ \A i, j \in Positions : active[i] = active[j] => i = j

\* The positions of a task's rows.
PositionsOf(t) == {i \in Positions : task[active[i]] = t}

LEMMA PositionFacts ==
  ASSUME Batch
  PROVE  /\ Len(active) \in Nat /\ Positions \in SUBSET Nat /\ IsFiniteSet(Positions)
         /\ \A i \in Positions : active[i] \in Samples /\ task[active[i]] \in Tasks
<1>1. active \in Seq(Samples) /\ task \in [Samples -> Tasks]
  BY DEF Batch
<1>2. Len(active) \in Nat
  BY <1>1
<1>3. IsFiniteSet(1..Len(active))
  <2>1. 1 \in Int /\ Len(active) \in Int
    BY <1>2
  <2> QED BY <2>1, FS_Interval
<1>4. \A i \in 1..Len(active) : active[i] \in Samples
  BY <1>1
<1> QED BY <1>1, <1>2, <1>3, <1>4 DEF Positions

\* A group's positions: none of another task, none left out.
LEMMA IndicesFacts ==
  ASSUME Batch, NEW t
  PROVE  /\ Indices(t) \in Seq(Positions)
         /\ \A j \in 1..Len(Indices(t)) : task[active[Indices(t)[j]]] = t
         /\ \A i \in Positions :
              task[active[i]] = t => \E j \in 1..Len(Indices(t)) : Indices(t)[j] = i
<1>1. PositionsOf(t) \in SUBSET Nat /\ PositionsOf(t) \subseteq Positions
      /\ IsFiniteSet(PositionsOf(t))
  <2>1. PositionsOf(t) \subseteq Positions
    BY DEF PositionsOf
  <2> QED BY <2>1, PositionFacts, FS_Subset
<1>2. Lists(Indices(t), PositionsOf(t), Cardinality(PositionsOf(t)))
  <2>1. Lists(Ascending(PositionsOf(t)), PositionsOf(t), Cardinality(PositionsOf(t)))
    BY <1>1, AscendingFacts
  <2> QED BY <2>1 DEF Indices, PositionsOf
<1>3. /\ Indices(t) \in Seq(PositionsOf(t))
      /\ \A i \in PositionsOf(t) : \E j \in 1..Len(Indices(t)) : Indices(t)[j] = i
  BY <1>2 DEF Lists
<1>4. \A j \in 1..Len(Indices(t)) : Indices(t)[j] \in PositionsOf(t)
  <2> DEFINE s == Indices(t)
             C == PositionsOf(t)
  <2>1. s \in Seq(C)
    BY <1>3
  <2> HIDE DEF s, C
  <2>2. \A j \in 1..Len(s) : s[j] \in C
    BY <2>1
  <2> QED BY <2>2 DEF s, C
<1>5. Indices(t) \in Seq(Positions)
  <2> DEFINE s == Indices(t)
             C == PositionsOf(t)
             D == Positions
  <2>1. s \in Seq(C) /\ C \subseteq D
    BY <1>1, <1>3
  <2> HIDE DEF s, C, D
  <2>2. s \in Seq(D)
    BY <2>1
  <2> QED BY <2>2 DEF s, D
<1> QED BY <1>3, <1>4, <1>5 DEF PositionsOf

\* Every active sample's task has a group, and every group a sample.
LEMMA TaskGroupsFacts ==
  ASSUME Batch
  PROVE  /\ TaskGroups \in Seq(Tasks)
         /\ \A i \in Positions : \E g \in 1..Len(TaskGroups) : TaskGroups[g] = task[active[i]]
         /\ \A g \in 1..Len(TaskGroups) : \E i \in Positions : task[active[i]] = TaskGroups[g]
<1> DEFINE first == Ascending(FirstOfTask)
           n == Cardinality(FirstOfTask)
<1>1. FirstOfTask \subseteq Positions
  BY DEF FirstOfTask
<1>2. FirstOfTask \in SUBSET Nat /\ IsFiniteSet(FirstOfTask)
  BY <1>1, PositionFacts, FS_Subset
<1>3. Lists(first, FirstOfTask, n) /\ n \in Nat
  BY <1>2, AscendingFacts, FS_CardinalityType
<1>4. TaskGroups = [g \in DOMAIN first |-> task[active[first[g]]]]
  BY DEF TaskGroups
<1> HIDE DEF first, n
<1>5. DOMAIN first = 1..n /\ \A g \in 1..n : first[g] \in FirstOfTask
  <2>1. first \in Seq(FirstOfTask) /\ Len(first) = n
    BY <1>3 DEF Lists
  <2> QED BY <2>1
<1>6. TaskGroups = [g \in 1..n |-> task[active[first[g]]]]
  BY <1>4, <1>5
<1>7. \A g \in 1..n : first[g] \in Positions /\ task[active[first[g]]] \in Tasks
  BY <1>1, <1>5, PositionFacts
<1>8. TaskGroups \in Seq(Tasks) /\ Len(TaskGroups) = n
  <2> DEFINE h == TaskGroups
  <2>1. h \in [1..n -> Tasks]
    BY <1>6, <1>7
  <2> HIDE DEF h
  <2>2. h \in Seq(Tasks) /\ Len(h) = n
    BY <1>3, <2>1, MapLists
  <2> QED BY <2>2 DEF h
<1>9. ASSUME NEW i \in Positions PROVE \E m \in FirstOfTask : task[active[m]] = task[active[i]]
  <2> DEFINE S == {k \in Positions : task[active[k]] = task[active[i]]}
  <2>1. S \in SUBSET Nat /\ S # {}
    BY PositionFacts
  <2>2. PICK m \in S : \A k \in S : m <= k
    <3> HIDE DEF S
    <3> QED BY <2>1, LeastNatural
  <2>3. m \in Positions /\ task[active[m]] = task[active[i]]
    OBVIOUS
  <2>4. ASSUME NEW j \in 1..(m - 1) PROVE task[active[j]] # task[active[m]]
    <3>1. j \in Positions /\ ~(m <= j)
      BY <2>3, PositionFacts DEF Positions
    <3>2. j \notin S
      BY <2>2, <3>1
    <3> QED BY <2>3, <3>1, <3>2
  <2>5. m \in FirstOfTask
    BY <2>3, <2>4 DEF FirstOfTask
  <2> QED BY <2>3, <2>5
<1>10. ASSUME NEW i \in Positions PROVE \E g \in 1..n : TaskGroups[g] = task[active[i]]
  <2>1. PICK m \in FirstOfTask : task[active[m]] = task[active[i]]
    BY <1>9
  <2>2. PICK g \in 1..n : first[g] = m
    BY <1>3 DEF Lists
  <2> QED BY <1>6, <2>1, <2>2
<1>11. \A g \in 1..n : \E i \in Positions : task[active[i]] = TaskGroups[g]
  BY <1>6, <1>7
<1> QED BY <1>8, <1>10, <1>11

\* What every task's group answers, the groups one after the other.
Grouped(X) == FlattenSeq([g \in DOMAIN TaskGroups |-> X[TaskGroups[g]]])

\* A value for every row of every group.
RowValues(X, T) ==
  \A g \in 1..Len(TaskGroups) :
    X[TaskGroups[g]] \in Seq(T) /\ Len(X[TaskGroups[g]]) = Len(Indices(TaskGroups[g]))

\* Sorted, position i has the value of its own row.
RowBack(X, i) ==
  \E j \in 1..Len(Indices(task[active[i]])) :
    /\ Indices(task[active[i]])[j] = i
    /\ Sorted(Grouped(X))[i] = X[task[active[i]]][j]

\* Values grouped by task, as many as its rows, go back to these rows.
LEMMA SortedBack ==
  ASSUME Batch, NEW T, NEW X, RowValues(X, T), NEW i \in Positions
  PROVE  RowBack(X, i)
<1> DEFINE groups == TaskGroups
           n == Len(groups)
           P == Positions
           fs == [g \in 1..n |-> Indices(groups[g])]
           gs == [g \in 1..n |-> X[groups[g]]]
           F == FlattenSeq(fs)
           G == FlattenSeq(gs)
           t == task[active[i]]
<1>1. groups \in Seq(Tasks) /\ n \in Nat
  BY TaskGroupsFacts
<1>2. DOMAIN groups = 1..n /\ \A g \in 1..n : groups[g] \in Tasks
  <2> HIDE DEF groups
  <2> QED BY <1>1
<1>3. \E g \in 1..n : groups[g] = t
  BY TaskGroupsFacts
<1>4. IndicesOrder = F
  BY <1>2 DEF IndicesOrder, InGroups
<1>5. Grouped(X) = G
  BY <1>2 DEF Grouped
<1>6. \A g \in 1..n : /\ fs[g] \in Seq(P)
                      /\ \A j \in 1..Len(fs[g]) : task[active[fs[g][j]]] = groups[g]
                      /\ \A p \in P : task[active[p]] = groups[g] =>
                           \E j \in 1..Len(fs[g]) : fs[g][j] = p
  BY IndicesFacts
<1>7. \A g \in 1..n : gs[g] \in Seq(T) /\ Len(fs[g]) = Len(gs[g])
  BY <1>2 DEF RowValues
<1>8. \A g \in 1..n : fs[g] = Indices(groups[g]) /\ gs[g] = X[groups[g]]
  OBVIOUS
<1>9. n \in Nat \ {0}
  BY <1>1, <1>3
<1>10. Len(fs) = n /\ Len(gs) = n
  <2>1. fs \in [1..n -> Seq(P)] /\ gs \in [1..n -> Seq(T)]
    BY <1>6, <1>7
  <2> HIDE DEF fs, gs, n
  <2> QED BY <1>1, <2>1, MapLists
<1> HIDE DEF fs, gs, n, F, G, P, groups
<1>11. Paired(P, T, F, G, fs, gs, n)
  <2>1. Len(fs) \in Nat \ {0} /\ Len(gs) = Len(fs)
    BY <1>9, <1>10
  <2>2. \A g \in 1..Len(fs) : fs[g] \in Seq(P) /\ gs[g] \in Seq(T) /\ Len(fs[g]) = Len(gs[g])
    BY <1>6, <1>7, <1>10
  <2>3. Paired(P, T, FlattenSeq(fs), FlattenSeq(gs), fs, gs, Len(fs))
    BY <2>1, <2>2, FlattenPaired
  <2> QED BY <1>10, <2>3 DEF F, G
<1>12. F \in Seq(P) /\ DOMAIN F = 1..Len(F)
  <2>1. F \in Seq(P)
    BY <1>11 DEF Paired
  <2> QED BY <2>1
<1>13. i \in P
  BY DEF P
<1>14. \E k \in DOMAIN F : F[k] = i
  <2>1. PICK g \in 1..n : groups[g] = t
    BY <1>3
  <2>2. PICK j \in 1..Len(fs[g]) : fs[g][j] = i
    BY <1>6, <1>13, <2>1
  <2>3. \E m \in 1..Len(F) : F[m] = fs[g][j]
    BY <1>11, <2>2 DEF Paired
  <2>4. PICK m \in 1..Len(F) : F[m] = i
    BY <2>2, <2>3
  <2>5. m \in DOMAIN F
    BY <1>12
  <2> QED BY <2>4, <2>5
<1> DEFINE k == CHOOSE k \in DOMAIN F : F[k] = i
<1>15. k \in 1..Len(F) /\ F[k] = i
  BY <1>12, <1>14
<1>16. Sorted(G)[i] = G[k]
  BY <1>4 DEF Sorted
<1> HIDE DEF k
<1>17. PICK g \in 1..n : \E j \in 1..Len(fs[g]) : F[k] = fs[g][j] /\ G[k] = gs[g][j]
  BY <1>11, <1>15 DEF Paired
<1>18. PICK j \in 1..Len(fs[g]) : fs[g][j] = i /\ G[k] = gs[g][j]
  BY <1>15, <1>17
<1>19. groups[g] = t
  BY <1>6, <1>18
<1> QED BY <1>5, <1>8, <1>16, <1>18, <1>19 DEF RowBack

\* A group answers for all of its rows or for none.
LEMMA AllOrNothing ==
  ASSUME Batch, active # << >>, NEW T, NEW X,
         \A g \in 1..Len(TaskGroups) : X[TaskGroups[g]] \in Seq(T),
         \A g \in 1..Len(TaskGroups) : Len(X[TaskGroups[g]]) <= Len(Indices(TaskGroups[g])),
         Len(Grouped(X)) \in {0, Len(IndicesOrder)}
  PROVE  /\ Grouped(X) = << >> =>
              \A g \in 1..Len(TaskGroups) : Len(X[TaskGroups[g]]) = 0
         /\ Grouped(X) # << >> =>
              \A g \in 1..Len(TaskGroups) : Len(X[TaskGroups[g]]) = Len(Indices(TaskGroups[g]))
<1> DEFINE groups == TaskGroups
           n == Len(groups)
           P == Positions
           fs == [g \in 1..n |-> Indices(groups[g])]
           gs == [g \in 1..n |-> X[groups[g]]]
           F == FlattenSeq(fs)
           G == FlattenSeq(gs)
<1>1. groups \in Seq(Tasks) /\ n \in Nat
  BY TaskGroupsFacts
<1>2. DOMAIN groups = 1..n /\ \A g \in 1..n : groups[g] \in Tasks
  <2> HIDE DEF groups
  <2> QED BY <1>1
<1>3. n # 0
  <2>1. active \in Seq(Samples)
    BY DEF Batch
  <2>2. 1 \in Positions
    BY <2>1 DEF Positions
  <2>3. \E g \in 1..n : groups[g] = task[active[1]]
    BY <2>2, TaskGroupsFacts
  <2> HIDE DEF n
  <2> QED BY <1>1, <2>3
<1>4. IndicesOrder = F
  BY <1>2 DEF IndicesOrder, InGroups
<1>5. Grouped(X) = G
  BY <1>2 DEF Grouped
<1>6. \A g \in 1..n : fs[g] \in Seq(P)
  BY IndicesFacts
<1>7. \A g \in 1..n : gs[g] \in Seq(T) /\ Len(gs[g]) <= Len(fs[g])
  BY <1>2
<1>8. \A g \in 1..n : fs[g] = Indices(groups[g]) /\ gs[g] = X[groups[g]]
  OBVIOUS
<1>9. n \in Nat \ {0}
  BY <1>1, <1>3
<1>10. Len(fs) = n /\ Len(gs) = n
  <2>1. fs \in [1..n -> Seq(P)] /\ gs \in [1..n -> Seq(T)]
    BY <1>6, <1>7
  <2> HIDE DEF fs, gs, n
  <2> QED BY <1>1, <2>1, MapLists
<1> HIDE DEF fs, gs, n, F, G, P, groups
<1>11. G \in Seq(T) /\ Shorter(F, G, fs, gs, n)
  <2>1. Len(fs) \in Nat \ {0} /\ Len(gs) = Len(fs)
    BY <1>9, <1>10
  <2>2. \A g \in 1..Len(fs) : fs[g] \in Seq(P) /\ gs[g] \in Seq(T) /\ Len(gs[g]) <= Len(fs[g])
    BY <1>6, <1>7, <1>10
  <2>3. FlattenSeq(gs) \in Seq(T) /\ Shorter(FlattenSeq(fs), FlattenSeq(gs), fs, gs, Len(fs))
    BY <2>1, <2>2, FlattenShorter
  <2> QED BY <1>10, <2>3 DEF F, G
<1>12. ASSUME G = << >>, NEW g \in 1..n PROVE Len(gs[g]) = 0
  <2>1. Len(gs[g]) <= Len(G) /\ Len(G) = 0
    BY <1>11, <1>12 DEF Shorter
  <2>2. Len(gs[g]) \in Nat
    <3>1. gs[g] \in Seq(T)
      BY <1>7
    <3> QED BY <3>1
  <2> QED BY <2>1, <2>2
<1>13. ASSUME G # << >>, NEW g \in 1..n PROVE Len(gs[g]) = Len(fs[g])
  <2>1. Len(G) # 0
    BY <1>11, <1>13
  <2>2. Len(G) = Len(F)
    BY <1>4, <1>5, <2>1
  <2> QED BY <1>11, <2>2 DEF Shorter
<1> QED BY <1>5, <1>8, <1>12, <1>13 DEF groups, n

-----------------------------------------------------------------------------
(* What is true between steps.                                             *)

RolloutTypes ==
  /\ pc \in {"turn", "wait", "returned", "raised"}
  /\ envTurns \in [Tasks -> TurnChoices]
  /\ turn \in Nat /\ turn <= TurnLimit
  /\ {total, turns, meta, metric} \subseteq [Samples -> Nat]
  /\ reply = [t \in Tasks |-> reply[t]]
  /\ call = [t \in Tasks |-> call[t]]
  /\ log \in [Samples -> Seq({"assistant", "user"} \X Samples)]

\* All active samples are in the driver's turn, none has been paid, and none
\* has had its environment's last turn.
Underway ==
  \A s \in Samples : Contains(active, s) =>
    /\ turns[s] = turn /\ meta[s] = turn
    /\ total[s] = 0 /\ metric[s] = 0
    /\ turn < envTurns[task[s]]

\* Between a call and its collection the rows are those of the samples that
\* are active now, and an answer is the one to them.
Exchange ==
  /\ pc = "wait" => Continues /\ call = Calls
  /\ pc # "wait" => call = [t \in Tasks |-> << >>]
  /\ \A t \in Tasks :
       call[t] # << >> => reply[t] \in {NoReply, Raised, EnvReply(t, call[t])}

RolloutInv == RolloutTypes /\ Batch /\ Underway /\ Exchange /\ LogsOwn

-----------------------------------------------------------------------------
(* What the driver collects.                                               *)

Collected ==
  /\ pc = "wait" /\ AllAnswered
  /\ \A t \in Tasks : reply[t] # Raised
  /\ ~MetricsRagged

\* The samples of a group's rows, and whether this is its last turn.
SamplesOf(t) == [j \in 1..Len(Indices(t)) |-> active[Indices(t)[j]]]
FinalTurn(t)      == turn + 1 = envTurns[t]

\* What the environment of a group has answered.
Answered(t) ==
  /\ reply[t].observation = SamplesOf(t)
  /\ reply[t].metadata = [j \in 1..Len(Indices(t)) |-> turn + 1]
  /\ reply[t].reward = IF FinalTurn(t) THEN SamplesOf(t) ELSE [j \in 1..Len(Indices(t)) |-> 0]
  /\ reply[t].terminated = [j \in 1..Len(Indices(t)) |-> FinalTurn(t)]
  /\ reply[t].metric = IF FinalTurn(t) THEN SamplesOf(t) ELSE << >>

LEMMA AnsweredFacts ==
  ASSUME RolloutInv, Collected, NEW g \in 1..Len(TaskGroups)
  PROVE  Answered(TaskGroups[g]) /\ Len(Indices(TaskGroups[g])) \in Nat \ {0}
<1> DEFINE t == TaskGroups[g]
           k == Len(Indices(t))
           rows == call[t]
<1>0. Batch
  BY DEF RolloutInv
<1>1. t \in Tasks
  <2>1. TaskGroups \in Seq(Tasks)
    BY <1>0, TaskGroupsFacts
  <2> QED BY <2>1
<1>2. PICK i \in Positions : task[active[i]] = t
  BY <1>0, TaskGroupsFacts
<1>3. /\ Indices(t) \in Seq(Positions)
      /\ \E j \in 1..k : Indices(t)[j] = i
  BY <1>0, <1>2, IndicesFacts
<1>4. k \in Nat \ {0}
  <2>1. k \in Nat
    BY <1>3
  <2>2. k # 0
    <3> HIDE DEF k
    <3> QED BY <1>3, <2>1
  <2> QED BY <2>1, <2>2
<1>5. rows = [j \in 1..k |-> [sample |-> active[Indices(t)[j]], step |-> meta[active[Indices(t)[j]]]]]
  <2>1. call = Calls
    BY DEF RolloutInv, Exchange, Collected
  <2> QED BY <1>1, <2>1 DEF Calls
<1>6. \A j \in 1..k : Indices(t)[j] \in Positions
  <2> DEFINE s == Indices(t)
             P == Positions
  <2>1. s \in Seq(P)
    BY <1>3
  <2> HIDE DEF s, P
  <2>2. \A j \in 1..Len(s) : s[j] \in P
    BY <2>1
  <2> QED BY <2>2 DEF s, P
<1>7. \A j \in 1..k : meta[active[Indices(t)[j]]] = turn
  <2> TAKE j \in 1..k
  <2> DEFINE p == Indices(t)[j]
  <2>1. p \in Positions
    BY <1>6
  <2> HIDE DEF p
  <2>2. active[p] \in Samples /\ Contains(active, active[p])
    BY <1>0, <2>1, PositionFacts DEF Contains, Positions
  <2>3. meta[active[p]] = turn
    BY <2>2 DEF RolloutInv, Underway
  <2> QED BY <2>3 DEF p
<1>8. rows = [j \in 1..k |-> [sample |-> active[Indices(t)[j]], step |-> turn]]
  BY <1>5, <1>7
<1> HIDE DEF k, rows
<1>9. Len(rows) = k
  <2> DEFINE h == [j \in 1..k |-> [sample |-> active[Indices(t)[j]], step |-> turn]]
             C == {h[j] : j \in 1..k}
  <2>1. h \in [1..k -> C]
    OBVIOUS
  <2> HIDE DEF h, C
  <2>2. Len(h) = k
    BY <1>4, <2>1, MapLists
  <2> QED BY <1>8, <2>2 DEF h
<1>10. rows # << >>
  BY <1>4, <1>9
<1>11. reply[t] = EnvReply(t, rows)
  <2>1. reply[t] # NoReply
    BY <1>1, <1>10 DEF Collected, AllAnswered, rows
  <2>2. reply[t] # Raised
    BY <1>1 DEF Collected
  <2>3. reply[t] \in {NoReply, Raised, EnvReply(t, rows)}
    BY <1>1, <1>10 DEF RolloutInv, Exchange, rows
  <2> QED BY <2>1, <2>2, <2>3
<1>12. \A j \in 1..k : rows[j].sample = active[Indices(t)[j]] /\ rows[j].step = turn
  BY <1>8
<1>13. IsLast(t, rows) <=> FinalTurn(t)
  <2>1. rows[1].step = turn
    BY <1>4, <1>12
  <2> QED BY <2>1 DEF IsLast, FinalTurn
<1>14. ComputeReward(rows) = SamplesOf(t)
  <2>1. ComputeReward(rows) = [j \in 1..k |-> rows[j].sample]
    BY <1>4, <1>9, ComputeRewardIs
  <2> QED BY <1>12, <2>1 DEF SamplesOf, k
<1>15. [j \in 1..k |-> rows[j].sample] = SamplesOf(t)
  BY <1>12 DEF SamplesOf, k
<1>16. [j \in 1..k |-> rows[j].step + 1] = [j \in 1..k |-> turn + 1]
  BY <1>12
<1> DEFINE scores == ComputeReward(rows)
           last == IsLast(t, rows)
<1>17. reply[t] =
         [kind        |-> "return",
          observation |-> [j \in 1..k |-> rows[j].sample],
          metadata    |-> [j \in 1..k |-> rows[j].step + 1],
          reward      |-> IF last THEN scores ELSE [j \in 1..k |-> 0],
          terminated  |-> [j \in 1..k |-> last],
          metric      |-> IF last THEN scores ELSE << >>]
  BY <1>9, <1>11 DEF EnvReply
<1>18. scores = SamplesOf(t) /\ (last <=> FinalTurn(t))
  BY <1>13, <1>14
<1>19. last \in BOOLEAN /\ FinalTurn(t) \in BOOLEAN
  BY DEF IsLast, FinalTurn
<1> HIDE DEF t, scores, last
<1>20. last = FinalTurn(t)
  BY <1>18, <1>19
<1>21. /\ reply[t].observation = SamplesOf(t)
       /\ reply[t].metadata = [j \in 1..k |-> turn + 1]
       /\ reply[t].reward = IF FinalTurn(t) THEN SamplesOf(t) ELSE [j \in 1..k |-> 0]
       /\ reply[t].terminated = [j \in 1..k |-> FinalTurn(t)]
       /\ reply[t].metric = IF FinalTurn(t) THEN SamplesOf(t) ELSE << >>
  BY <1>15, <1>16, <1>17, <1>18, <1>20
<1> QED BY <1>4, <1>21 DEF Answered, k, t

LEMMA SamplesOfFacts ==
  ASSUME Batch, NEW t
  PROVE  /\ SamplesOf(t) \in Seq(Samples) /\ Len(SamplesOf(t)) = Len(Indices(t))
         /\ \A j \in 1..Len(Indices(t)) : SamplesOf(t)[j] = active[Indices(t)[j]]
<1> DEFINE k == Len(Indices(t))
<1>1. Indices(t) \in Seq(Positions)
  BY IndicesFacts
<1>2. k \in Nat
  BY <1>1
<1>3. \A j \in 1..k : Indices(t)[j] \in Positions
  <2> DEFINE s == Indices(t)
             P == Positions
  <2>1. s \in Seq(P)
    BY <1>1
  <2> HIDE DEF s, P
  <2>2. \A j \in 1..Len(s) : s[j] \in P
    BY <2>1
  <2> QED BY <2>2 DEF s, P
<1>4. \A j \in 1..k : active[Indices(t)[j]] \in Samples
  BY <1>3, PositionFacts
<1> HIDE DEF k
<1>5. SamplesOf(t) = [j \in 1..k |-> active[Indices(t)[j]]]
  BY DEF SamplesOf, k
<1> DEFINE h == SamplesOf(t)
<1>6. h \in [1..k -> Samples]
  BY <1>4, <1>5
<1> HIDE DEF h
<1>7. h \in Seq(Samples) /\ Len(h) = k
  BY <1>2, <1>6, MapLists
<1> QED BY <1>5, <1>7 DEF h, k

\* The same value at every place of a group.
LEMMA ConstantList ==
  ASSUME NEW T, NEW n \in Nat, NEW v \in T
  PROVE  /\ [j \in 1..n |-> v] \in Seq(T) /\ Len([j \in 1..n |-> v]) = n
<1> DEFINE h == [j \in 1..n |-> v]
<1>1. h \in [1..n -> T]
  OBVIOUS
<1> HIDE DEF h
<1>2. h \in Seq(T) /\ Len(h) = n
  BY <1>1, MapLists
<1> QED BY <1>2 DEF h

\* The groups' lists, whatever field of the answers they are.
LEMMA GroupedField ==
  ASSUME Batch
  PROVE  /\ Rewards = Sorted(Grouped([t \in Tasks |-> reply[t].reward]))
         /\ Observations = Sorted(Grouped([t \in Tasks |-> reply[t].observation]))
         /\ Metadata = Sorted(Grouped([t \in Tasks |-> reply[t].metadata]))
         /\ Terminateds = Sorted(Grouped([t \in Tasks |-> reply[t].terminated]))
         /\ MetricValues = Grouped([t \in Tasks |-> reply[t].metric])
<1>1. \A g \in DOMAIN TaskGroups : TaskGroups[g] \in Tasks
  <2> DEFINE s == TaskGroups
  <2>1. s \in Seq(Tasks)
    BY TaskGroupsFacts
  <2> HIDE DEF s
  <2>2. \A g \in DOMAIN s : s[g] \in Tasks
    BY <2>1
  <2> QED BY <2>2 DEF s
<1>2. /\ [g \in DOMAIN TaskGroups |-> [t \in Tasks |-> reply[t].reward][TaskGroups[g]]]
         = [g \in DOMAIN TaskGroups |-> reply[TaskGroups[g]].reward]
      /\ [g \in DOMAIN TaskGroups |-> [t \in Tasks |-> reply[t].observation][TaskGroups[g]]]
         = [g \in DOMAIN TaskGroups |-> reply[TaskGroups[g]].observation]
      /\ [g \in DOMAIN TaskGroups |-> [t \in Tasks |-> reply[t].metadata][TaskGroups[g]]]
         = [g \in DOMAIN TaskGroups |-> reply[TaskGroups[g]].metadata]
      /\ [g \in DOMAIN TaskGroups |-> [t \in Tasks |-> reply[t].terminated][TaskGroups[g]]]
         = [g \in DOMAIN TaskGroups |-> reply[TaskGroups[g]].terminated]
      /\ [g \in DOMAIN TaskGroups |-> [t \in Tasks |-> reply[t].metric][TaskGroups[g]]]
         = [g \in DOMAIN TaskGroups |-> reply[TaskGroups[g]].metric]
  BY <1>1
<1>3. Rewards = Sorted(Grouped([t \in Tasks |-> reply[t].reward]))
  BY <1>2 DEF Rewards, InGroups, Grouped
<1>4. Observations = Sorted(Grouped([t \in Tasks |-> reply[t].observation]))
  BY <1>2 DEF Observations, InGroups, Grouped
<1>5. Metadata = Sorted(Grouped([t \in Tasks |-> reply[t].metadata]))
  BY <1>2 DEF Metadata, InGroups, Grouped
<1>6. Terminateds = Sorted(Grouped([t \in Tasks |-> reply[t].terminated]))
  BY <1>2 DEF Terminateds, InGroups, Grouped
<1>7. MetricValues = Grouped([t \in Tasks |-> reply[t].metric])
  BY <1>2 DEF MetricValues, InGroups, Grouped
<1> QED BY <1>3, <1>4, <1>5, <1>6, <1>7

\* The lists of an answer, and what is in their places.
Fields(t) ==
  LET k == Len(Indices(t)) IN
  /\ reply[t].observation \in Seq(Samples) /\ Len(reply[t].observation) = k
  /\ reply[t].metadata \in Seq(Nat) /\ Len(reply[t].metadata) = k
  /\ reply[t].terminated \in Seq(BOOLEAN) /\ Len(reply[t].terminated) = k
  /\ reply[t].reward \in Seq(Nat) /\ Len(reply[t].reward) = k
  /\ reply[t].metric \in Seq(Nat) /\ Len(reply[t].metric) = IF FinalTurn(t) THEN k ELSE 0
  /\ \A j \in 1..k :
       /\ reply[t].observation[j] = active[Indices(t)[j]]
       /\ reply[t].metadata[j] = turn + 1
       /\ reply[t].terminated[j] = FinalTurn(t)
       /\ reply[t].reward[j] = IF FinalTurn(t) THEN active[Indices(t)[j]] ELSE 0
       /\ FinalTurn(t) => reply[t].metric[j] = active[Indices(t)[j]]

LEMMA AnsweredFields ==
  ASSUME Batch, turn \in Nat, NEW t, Answered(t), Len(Indices(t)) \in Nat \ {0}
  PROVE  Fields(t)
<1> DEFINE k == Len(Indices(t))
           m == SamplesOf(t)
           zeros == [j \in 1..k |-> 0]
           next == [j \in 1..k |-> turn + 1]
           flags == [j \in 1..k |-> FinalTurn(t)]
           r == reply[t]
<1>1. /\ r.observation = m /\ r.metadata = next /\ r.terminated = flags
      /\ r.reward = IF FinalTurn(t) THEN m ELSE zeros
      /\ r.metric = IF FinalTurn(t) THEN m ELSE << >>
  BY DEF Answered
<1>2. /\ m \in Seq(Samples) /\ Len(m) = k
      /\ \A j \in 1..k : m[j] = active[Indices(t)[j]]
  BY SamplesOfFacts
<1>3. m \in Seq(Nat)
  <2> HIDE DEF m
  <2>1. Samples \subseteq Nat
    OBVIOUS
  <2> QED BY <1>2, <2>1
<1>4. k \in Nat /\ turn + 1 \in Nat /\ 0 \in Nat /\ FinalTurn(t) \in BOOLEAN
  BY DEF FinalTurn
<1>5. /\ \A j \in 1..k : zeros[j] = 0
      /\ \A j \in 1..k : next[j] = turn + 1
  OBVIOUS
<1>6. \A j \in 1..k : flags[j] = FinalTurn(t)
  OBVIOUS
<1>7. /\ zeros \in Seq(Nat) /\ Len(zeros) = k
      /\ next \in Seq(Nat) /\ Len(next) = k
  <2> HIDE DEF k
  <2> QED BY <1>4, ConstantList
<1>8. flags \in Seq(BOOLEAN) /\ Len(flags) = k
  <2> HIDE DEF k
  <2> QED BY <1>4, ConstantList
<1>9. << >> \in Seq(Nat) /\ Len(<< >>) = 0
  OBVIOUS
<1> HIDE DEF k, m, zeros, next, flags, r
<1>10. /\ r.reward \in Seq(Nat) /\ Len(r.reward) = k
       /\ \A j \in 1..k : r.reward[j] = IF FinalTurn(t) THEN active[Indices(t)[j]] ELSE 0
  <2>1. CASE FinalTurn(t)
    BY <1>1, <1>2, <1>3, <2>1
  <2>2. CASE ~FinalTurn(t)
    BY <1>1, <1>5, <1>7, <2>2
  <2> QED BY <2>1, <2>2
<1>11. /\ r.metric \in Seq(Nat) /\ Len(r.metric) = IF FinalTurn(t) THEN k ELSE 0
       /\ \A j \in 1..k : FinalTurn(t) => r.metric[j] = active[Indices(t)[j]]
  <2>1. CASE FinalTurn(t)
    BY <1>1, <1>2, <1>3, <2>1
  <2>2. CASE ~FinalTurn(t)
    BY <1>1, <1>9, <2>2
  <2> QED BY <2>1, <2>2
<1>12. /\ r.observation \in Seq(Samples) /\ Len(r.observation) = k
       /\ \A j \in 1..k : r.observation[j] = active[Indices(t)[j]]
  BY <1>1, <1>2
<1>13. /\ r.metadata \in Seq(Nat) /\ Len(r.metadata) = k
       /\ \A j \in 1..k : r.metadata[j] = turn + 1
  BY <1>1, <1>5, <1>7
<1>14. /\ r.terminated \in Seq(BOOLEAN) /\ Len(r.terminated) = k
       /\ \A j \in 1..k : r.terminated[j] = FinalTurn(t)
  BY <1>1, <1>6, <1>8
<1> QED BY <1>10, <1>11, <1>12, <1>13, <1>14 DEF Fields, r, k

\* What row i is given back: its own sample's.
Back(i) ==
  LET s    == active[i]
      last == FinalTurn(task[s])
  IN  /\ Observations[i] = s
      /\ Metadata[i] = turn + 1
      /\ Terminateds[i] = last
      /\ Rewards[i] = IF last THEN s ELSE 0
      /\ MetricValues = << >> => ~last
      /\ MetricValues # << >> => last /\ Sorted(MetricValues)[i] = s

LEMMA CollectedBack ==
  ASSUME RolloutInv, Collected, active # << >>, NEW i \in Positions
  PROVE  Back(i)
<1> DEFINE s == active[i]
           t == task[s]
           n == Len(TaskGroups)
           k == Len(Indices(t))
<1>1. Batch /\ turn \in Nat
  BY DEF RolloutInv, RolloutTypes
<1>2. \A g \in 1..n : Fields(TaskGroups[g]) /\ Len(Indices(TaskGroups[g])) \in Nat \ {0}
  BY <1>1, AnsweredFacts, AnsweredFields
<1>3. \A g \in 1..n : TaskGroups[g] \in Tasks
  <2> DEFINE q == TaskGroups
  <2>1. q \in Seq(Tasks)
    BY <1>1, TaskGroupsFacts
  <2> HIDE DEF q
  <2>2. \A g \in 1..Len(q) : q[g] \in Tasks
    BY <2>1
  <2> QED BY <2>2 DEF q
<1>4. PICK g \in 1..n : TaskGroups[g] = t
  BY <1>1, TaskGroupsFacts
<1>5. Fields(t) /\ t \in Tasks /\ k \in Nat \ {0}
  BY <1>2, <1>3, <1>4
<1> HIDE DEF n, k, t
<1>6. Observations[i] = s
  <2> DEFINE X == [x \in Tasks |-> reply[x].observation]
  <2>1. ASSUME NEW h \in 1..n
        PROVE  X[TaskGroups[h]] \in Seq(Samples)
               /\ Len(X[TaskGroups[h]]) = Len(Indices(TaskGroups[h]))
    BY <1>2, <1>3 DEF Fields
  <2>2. \A j \in 1..k : X[t][j] = active[Indices(t)[j]]
    BY <1>5 DEF Fields, k
  <2>3. Observations = Sorted(Grouped(X))
    BY <1>1, GroupedField
  <2> HIDE DEF X
  <2>4. \E j \in 1..k : Indices(t)[j] = i /\ Sorted(Grouped(X))[i] = X[t][j]
    <3>1. RowValues(X, Samples)
      BY <2>1 DEF RowValues, n
    <3>2. RowBack(X, i)
      BY <1>1, <3>1, SortedBack
    <3> QED BY <3>2 DEF RowBack, k, t
  <2> QED BY <2>2, <2>3, <2>4
<1>7. Metadata[i] = turn + 1
  <2> DEFINE X == [x \in Tasks |-> reply[x].metadata]
  <2>1. ASSUME NEW h \in 1..n
        PROVE  X[TaskGroups[h]] \in Seq(Nat)
               /\ Len(X[TaskGroups[h]]) = Len(Indices(TaskGroups[h]))
    BY <1>2, <1>3 DEF Fields
  <2>2. \A j \in 1..k : X[t][j] = turn + 1
    BY <1>5 DEF Fields, k
  <2>3. Metadata = Sorted(Grouped(X))
    BY <1>1, GroupedField
  <2> HIDE DEF X
  <2>4. \E j \in 1..k : Indices(t)[j] = i /\ Sorted(Grouped(X))[i] = X[t][j]
    <3>1. RowValues(X, Nat)
      BY <2>1 DEF RowValues, n
    <3>2. RowBack(X, i)
      BY <1>1, <3>1, SortedBack
    <3> QED BY <3>2 DEF RowBack, k, t
  <2> QED BY <2>2, <2>3, <2>4
<1>8. Terminateds[i] = FinalTurn(t)
  <2> DEFINE X == [x \in Tasks |-> reply[x].terminated]
  <2>1. ASSUME NEW h \in 1..n
        PROVE  X[TaskGroups[h]] \in Seq(BOOLEAN)
               /\ Len(X[TaskGroups[h]]) = Len(Indices(TaskGroups[h]))
    BY <1>2, <1>3 DEF Fields
  <2>2. \A j \in 1..k : X[t][j] = FinalTurn(t)
    BY <1>5 DEF Fields, k
  <2>3. Terminateds = Sorted(Grouped(X))
    BY <1>1, GroupedField
  <2> HIDE DEF X
  <2>4. \E j \in 1..k : Indices(t)[j] = i /\ Sorted(Grouped(X))[i] = X[t][j]
    <3>1. RowValues(X, BOOLEAN)
      BY <2>1 DEF RowValues, n
    <3>2. RowBack(X, i)
      BY <1>1, <3>1, SortedBack
    <3> QED BY <3>2 DEF RowBack, k, t
  <2> QED BY <2>2, <2>3, <2>4
<1>9. Rewards[i] = IF FinalTurn(t) THEN s ELSE 0
  <2> DEFINE X == [x \in Tasks |-> reply[x].reward]
  <2>1. ASSUME NEW h \in 1..n
        PROVE  X[TaskGroups[h]] \in Seq(Nat)
               /\ Len(X[TaskGroups[h]]) = Len(Indices(TaskGroups[h]))
    BY <1>2, <1>3 DEF Fields
  <2>2. \A j \in 1..k : X[t][j] = IF FinalTurn(t) THEN active[Indices(t)[j]] ELSE 0
    BY <1>5 DEF Fields, k
  <2>3. Rewards = Sorted(Grouped(X))
    BY <1>1, GroupedField
  <2> HIDE DEF X
  <2>4. \E j \in 1..k : Indices(t)[j] = i /\ Sorted(Grouped(X))[i] = X[t][j]
    <3>1. RowValues(X, Nat)
      BY <2>1 DEF RowValues, n
    <3>2. RowBack(X, i)
      BY <1>1, <3>1, SortedBack
    <3> QED BY <3>2 DEF RowBack, k, t
  <2> QED BY <2>2, <2>3, <2>4
<1>10. /\ MetricValues = << >> => ~FinalTurn(t)
       /\ MetricValues # << >> => FinalTurn(t) /\ Sorted(MetricValues)[i] = s
  <2> DEFINE X == [x \in Tasks |-> reply[x].metric]
  <2>1. ASSUME NEW h \in 1..n
        PROVE  /\ X[TaskGroups[h]] \in Seq(Nat)
               /\ Len(X[TaskGroups[h]]) <= Len(Indices(TaskGroups[h]))
    <3>1. /\ X[TaskGroups[h]] \in Seq(Nat)
          /\ Len(X[TaskGroups[h]]) \in {0, Len(Indices(TaskGroups[h]))}
      BY <1>2, <1>3 DEF Fields
    <3>2. Len(Indices(TaskGroups[h])) \in Nat
      BY <1>2
    <3> QED BY <3>1, <3>2
  <2>2. /\ Len(X[t]) = IF FinalTurn(t) THEN k ELSE 0
        /\ \A j \in 1..k : FinalTurn(t) => X[t][j] = active[Indices(t)[j]]
    BY <1>5 DEF Fields, k
  <2>3. MetricValues = Grouped(X)
    BY <1>1, GroupedField
  <2>4. Len(Grouped(X)) \in {0, Len(IndicesOrder)}
    BY <2>3 DEF Collected, MetricsRagged
  <2> HIDE DEF X
  <2>5. /\ Grouped(X) = << >> => \A h \in 1..n : Len(X[TaskGroups[h]]) = 0
        /\ Grouped(X) # << >> =>
             \A h \in 1..n : Len(X[TaskGroups[h]]) = Len(Indices(TaskGroups[h]))
    BY <1>1, <2>1, <2>4, AllOrNothing DEF n
  <2>6. ASSUME MetricValues = << >> PROVE ~FinalTurn(t)
    <3>1. Len(X[t]) = 0
      BY <1>4, <2>3, <2>5, <2>6
    <3> QED BY <1>5, <2>2, <3>1
  <2>7. ASSUME MetricValues # << >> PROVE FinalTurn(t) /\ Sorted(MetricValues)[i] = s
    <3>1. \A h \in 1..n : Len(X[TaskGroups[h]]) = Len(Indices(TaskGroups[h]))
      BY <2>3, <2>5, <2>7
    <3>2. Len(X[t]) = k
      BY <1>4, <3>1 DEF k
    <3>3. FinalTurn(t)
      BY <1>5, <2>2, <3>2
    <3>4. \E j \in 1..k : Indices(t)[j] = i /\ Sorted(Grouped(X))[i] = X[t][j]
      <4>1. RowValues(X, Nat)
        BY <2>1, <3>1 DEF RowValues, n
      <4>2. RowBack(X, i)
        BY <1>1, <4>1, SortedBack
      <4> QED BY <4>2 DEF RowBack, k, t
    <3> QED BY <2>2, <2>3, <3>3, <3>4
  <2> QED BY <2>6, <2>7
<1> QED BY <1>6, <1>7, <1>8, <1>9, <1>10 DEF Back, t

-----------------------------------------------------------------------------
(* Collecting a turn.                                                      *)

\* The place of an active sample.
LEMMA AtFacts ==
  ASSUME Batch
  PROVE  /\ \A s : Contains(active, s) => At(s) \in Positions /\ active[At(s)] = s
         /\ \A i \in Positions : Contains(active, active[i]) /\ At(active[i]) = i
<1>1. \A s : Contains(active, s) => \E i \in Positions : active[i] = s
  BY DEF Contains, Positions
<1>2. \A s : Contains(active, s) => At(s) \in Positions /\ active[At(s)] = s
  BY <1>1 DEF At
<1>3. ASSUME NEW i \in Positions PROVE Contains(active, active[i])
  BY DEF Contains, Positions
<1>4. ASSUME NEW i \in Positions PROVE At(active[i]) = i
  BY <1>2, <1>3 DEF Batch
<1> QED BY <1>2, <1>3, <1>4

\* The samples at the positions that are kept.
Kept(K, a) ==
  /\ a \in Seq(Samples)
  /\ \A i, j \in 1..Len(a) : a[i] = a[j] => i = j
  /\ \A s : Contains(a, s) <=> \E i \in K : active[i] = s

LEMMA KeptList ==
  ASSUME Batch, NEW K \in SUBSET Positions, NEW n \in Nat, NEW next, Lists(next, K, n),
         NEW a, a \in [1..n -> Samples], \A k \in 1..n : a[k] = active[next[k]]
  PROVE  Kept(K, a)
<1>1. \A k \in 1..n : next[k] \in K
  <2>1. next \in Seq(K) /\ Len(next) = n
    BY DEF Lists
  <2> QED BY <2>1
<1>2. a \in Seq(Samples) /\ Len(a) = n
  BY MapLists
<1>3. ASSUME NEW i \in 1..n, NEW j \in 1..n, a[i] = a[j] PROVE i = j
  <2>1. active[next[i]] = active[next[j]]
    BY <1>3
  <2>2. next[i] = next[j]
    BY <1>1, <2>1 DEF Batch
  <2> QED BY <2>2 DEF Lists
<1>4. ASSUME NEW s, Contains(a, s) PROVE \E i \in K : active[i] = s
  <2>1. PICK k \in 1..n : a[k] = s
    BY <1>2, <1>4 DEF Contains
  <2> QED BY <1>1, <2>1
<1>5. ASSUME NEW i \in K PROVE Contains(a, active[i])
  <2>1. PICK k \in 1..n : next[k] = i
    BY DEF Lists
  <2>2. a[k] = active[i]
    BY <2>1
  <2> QED BY <1>2, <2>2 DEF Contains
<1> QED BY <1>2, <1>3, <1>4, <1>5 DEF Kept

LEMMA KeptActive ==
  ASSUME Batch, NEW K \in SUBSET Positions
  PROVE  Kept(K, [k \in DOMAIN Ascending(K) |-> active[Ascending(K)[k]]])
<1> DEFINE next == Ascending(K)
           n == Cardinality(K)
           a == [k \in DOMAIN next |-> active[next[k]]]
<1>1. K \in SUBSET Nat /\ IsFiniteSet(K)
  BY PositionFacts, FS_Subset
<1>2. Lists(next, K, n) /\ n \in Nat
  BY <1>1, AscendingFacts, FS_CardinalityType
<1> HIDE DEF next, n
<1>3. DOMAIN next = 1..n /\ \A k \in 1..n : next[k] \in K
  <2>1. next \in Seq(K) /\ Len(next) = n
    BY <1>2 DEF Lists
  <2> QED BY <2>1
<1>4. \A k \in 1..n : next[k] \in Positions /\ active[next[k]] \in Samples
  BY <1>3, PositionFacts
<1>5. a \in [1..n -> Samples] /\ \A k \in 1..n : a[k] = active[next[k]]
  BY <1>3, <1>4
<1> HIDE DEF a
<1>6. Kept(K, a)
  BY <1>2, <1>5, KeptList
<1> QED BY <1>6 DEF a, next

\* What a turn is to a sample that takes it.
Moved(s, cut) ==
  LET last == FinalTurn(task[s]) IN
  /\ total'[s] = IF last THEN s ELSE 0
  /\ metric'[s] = IF last THEN s ELSE 0
  /\ log'[s] = Append(log[s], <<"user", s>>)
  /\ turns'[s] = turn + 1
  /\ Contains(active', s) <=> ~cut /\ ~last
  /\ Contains(active', s) => meta'[s] = turn + 1

\* And to one that does not.
Rests(s) ==
  /\ total'[s] = total[s] /\ metric'[s] = metric[s] /\ log'[s] = log[s]
  /\ turns'[s] = turns[s] /\ meta'[s] = meta[s]
  /\ ~Contains(active', s)

LEMMA CollectCases ==
  ASSUME RolloutInv, NEW overflow \in SUBSET Positions, Collect(overflow), NEW s \in Samples
  PROVE  IF Contains(active, s) THEN Moved(s, At(s) \in overflow) ELSE Rests(s)
<1> DEFINE K == {i \in Positions : ~(i \in overflow \/ Terminateds[i])}
           i == At(s)
<1>1. Batch
  BY DEF RolloutInv
<1>2. Collected /\ active # << >>
  BY DEF Collect, Collected, RolloutInv, Exchange, Continues
<1>3. active' = [k \in DOMAIN Ascending(K) |-> active[Ascending(K)[k]]]
  BY DEF Collect
<1>4. K \in SUBSET Positions
  OBVIOUS
<1>5. \A x : Contains(active', x) <=> \E p \in K : active[p] = x
  <2> HIDE DEF K
  <2>1. Kept(K, active')
    BY <1>1, <1>3, <1>4, KeptActive
  <2> QED BY <2>1 DEF Kept
<1>6. /\ total' = [x \in Samples |-> IF Contains(active, x) THEN total[x] + Rewards[At(x)]
                                                            ELSE total[x]]
      /\ metric' = [x \in Samples |->
                      IF Contains(active, x) /\ MetricValues # << >>
                      THEN Sorted(MetricValues)[At(x)] ELSE metric[x]]
      /\ log' = [x \in Samples |->
                   IF Contains(active, x) THEN Append(log[x], <<"user", Observations[At(x)]>>)
                                          ELSE log[x]]
      /\ turns' = [x \in Samples |-> IF Contains(active, x) THEN turns[x] + 1 ELSE turns[x]]
      /\ meta' = [x \in Samples |-> IF Contains(active', x) THEN Metadata[At(x)] ELSE meta[x]]
  BY DEF Collect
<1>7. CASE Contains(active, s)
  <2>1. i \in Positions /\ active[i] = s
    BY <1>1, <1>7, AtFacts
  <2>2. Back(i)
    BY <1>2, <2>1, CollectedBack
  <2>3. turns[s] = turn /\ total[s] = 0 /\ metric[s] = 0
    BY <1>7 DEF RolloutInv, Underway
  <2>4. Contains(active', s) <=> i \in K
    BY <1>1, <1>4, <1>5, <2>1 DEF Batch
  <2>5. i \in K <=> ~(i \in overflow) /\ ~Terminateds[i]
    BY <2>1
  <2>6. Terminateds[i] = FinalTurn(task[s]) /\ Metadata[i] = turn + 1 /\ Observations[i] = s
        /\ Rewards[i] = IF FinalTurn(task[s]) THEN s ELSE 0
    BY <2>1, <2>2 DEF Back
  <2>7. total'[s] = total[s] + Rewards[i]
    BY <1>6, <1>7
  <2>8. total'[s] = IF FinalTurn(task[s]) THEN s ELSE 0
    BY <2>3, <2>6, <2>7
  <2>9. metric'[s] = IF FinalTurn(task[s]) THEN s ELSE 0
    <3>1. metric'[s] = IF MetricValues # << >> THEN Sorted(MetricValues)[i] ELSE 0
      BY <1>6, <1>7, <2>3
    <3>2. /\ MetricValues = << >> => ~FinalTurn(task[s])
          /\ MetricValues # << >> => FinalTurn(task[s]) /\ Sorted(MetricValues)[i] = s
      BY <2>1, <2>2 DEF Back
    <3> QED BY <3>1, <3>2
  <2>10. log'[s] = Append(log[s], <<"user", s>>)
    BY <1>6, <1>7, <2>6
  <2>11. turns'[s] = turn + 1
    BY <1>6, <1>7, <2>3
  <2>12. Contains(active', s) => meta'[s] = turn + 1
    BY <1>6, <2>6
  <2>13. Contains(active', s) <=> ~(i \in overflow) /\ ~FinalTurn(task[s])
    BY <2>4, <2>5, <2>6
  <2> QED BY <1>7, <2>8, <2>9, <2>10, <2>11, <2>12, <2>13 DEF Moved
<1>8. CASE ~Contains(active, s)
  <2>1. ~Contains(active', s)
    BY <1>1, <1>4, <1>5, <1>8, AtFacts
  <2>2. /\ total'[s] = total[s] /\ metric'[s] = metric[s] /\ log'[s] = log[s]
        /\ turns'[s] = turns[s] /\ meta'[s] = meta[s]
    BY <1>6, <1>8, <2>1
  <2> QED BY <1>8, <2>1, <2>2 DEF Rests
<1> QED BY <1>7, <1>8

-----------------------------------------------------------------------------
(* The invariant.                                                          *)

LEMMA Parity == \A k \in Nat : (2 * k + 1) % 2 = 1 /\ (2 * k + 2) % 2 = 0
OBVIOUS

\* A log's entries, in turns.
LogOf(s, n, l) ==
  /\ Len(l) = n
  /\ \A i \in DOMAIN l : l[i] = <<IF i % 2 = 1 THEN "assistant" ELSE "user", s>>

Entries == {"assistant", "user"} \X Samples

LEMMA LogGrows ==
  ASSUME NEW s \in Samples, NEW n \in Nat, NEW l \in Seq(Entries), LogOf(s, n, l),
         NEW role \in {"assistant", "user"},
         role = IF (n + 1) % 2 = 1 THEN "assistant" ELSE "user"
  PROVE  /\ Append(l, <<role, s>>) \in Seq(Entries)
         /\ LogOf(s, n + 1, Append(l, <<role, s>>))
<1> DEFINE e == <<role, s>>
           m == Append(l, e)
<1>1. e \in Entries
  BY DEF Entries
<1>2. Len(l) = n /\ DOMAIN l = 1..n
  BY DEF LogOf
<1> HIDE DEF e
<1>3. /\ m \in Seq(Entries) /\ Len(m) = n + 1 /\ DOMAIN m = 1..(n + 1)
      /\ \A i \in 1..n : m[i] = l[i]
      /\ m[n + 1] = e
  BY <1>1, <1>2
<1>4. \A i \in 1..(n + 1) : i \in 1..n \/ i = n + 1
  OBVIOUS
<1> HIDE DEF m
<1>5. ASSUME NEW i \in 1..(n + 1)
      PROVE  m[i] = <<IF i % 2 = 1 THEN "assistant" ELSE "user", s>>
  <2>1. CASE i \in 1..n
    BY <1>2, <1>3, <2>1 DEF LogOf
  <2>2. CASE i = n + 1
    BY <1>3, <2>2 DEF e
  <2> QED BY <1>4, <2>1, <2>2
<1>6. LogOf(s, n + 1, m)
  BY <1>3, <1>5 DEF LogOf
<1> QED BY <1>3, <1>6 DEF e, m

\* LogsOwn, sample by sample.
Expecting(s) == pc \in {"wait", "raised"} /\ Contains(active, s)
LogIs(s) == LogOf(s, 2 * turns[s] + (IF Expecting(s) THEN 1 ELSE 0), log[s])

LEMMA LogsAre == LogsOwn <=> \A s \in Samples : LogIs(s)
BY DEF LogsOwn, LogIs, LogOf, Expecting

LEMMA InitInv == Init => RolloutInv
<1> SUFFICES ASSUME Init PROVE RolloutInv
  OBVIOUS
<1>1. N \in Nat /\ TurnLimit \in Nat /\ TurnChoices \subseteq Nat \ {0}
  BY DEF RolloutAssumption
<1>2. /\ pc = "turn" /\ turn = 0
      /\ task \in [Samples -> Tasks] /\ envTurns \in [Tasks -> TurnChoices]
      /\ call = [t \in Tasks |-> << >>]
      /\ reply = [t \in Tasks |-> NoReply]
      /\ total = [s \in Samples |-> 0] /\ turns = [s \in Samples |-> 0]
      /\ meta = [s \in Samples |-> 0] /\ metric = [s \in Samples |-> 0]
      /\ log = [s \in Samples |-> << >>]
  BY DEF Init
<1>3. active = [i \in 1..N |-> i]
  BY DEF Init
<1>4. active \in Seq(Samples) /\ Len(active) = N
  <2>1. active \in [1..N -> Samples]
    BY <1>3
  <2> HIDE DEF Samples
  <2> QED BY <1>1, <2>1, MapLists
<1>5. Batch
  <2>1. \A i, j \in Positions : active[i] = active[j] => i = j
    BY <1>3, <1>4 DEF Positions
  <2> QED BY <1>2, <1>4, <2>1 DEF Batch
<1>6. Underway
  <2> SUFFICES ASSUME NEW s \in Samples PROVE turn < envTurns[task[s]] /\ turns[s] = turn
                                              /\ meta[s] = turn /\ total[s] = 0 /\ metric[s] = 0
    BY DEF Underway
  <2>1. task[s] \in Tasks
    BY <1>2
  <2>2. envTurns[task[s]] \in Nat \ {0}
    BY <1>1, <1>2, <2>1
  <2> QED BY <1>2, <2>2
<1>7. Exchange
  BY <1>2 DEF Exchange
<1>8. \A s \in Samples : LogIs(s)
  BY <1>2 DEF LogIs, LogOf, Expecting
<1>9. RolloutTypes
  BY <1>1, <1>2 DEF RolloutTypes
<1> QED BY <1>5, <1>6, <1>7, <1>8, <1>9, LogsAre DEF RolloutInv

\* The rows depend on these variables only.
LEMMA SameCalls == UNCHANGED <<task, active, meta>> => Calls' = Calls
<1> SUFFICES ASSUME task' = task, active' = active, meta' = meta PROVE Calls' = Calls
  OBVIOUS
<1>1. \A t : {i \in 1..Len(active) : task[active[i]] = t}' = {i \in 1..Len(active) : task[active[i]] = t}
  OBVIOUS
<1>2. \A t : Indices(t)' = Indices(t)
  BY <1>1 DEF Indices, Positions
<1> QED BY <1>2 DEF Calls

LEMMA SameReply == envTurns' = envTurns => \A t, rows : EnvReply(t, rows)' = EnvReply(t, rows)
BY DEF EnvReply, IsLast

LEMMA SameBatch == Batch /\ UNCHANGED <<task, active>> => Batch'
BY DEF Batch, Positions

LEMMA SameUnderway ==
  Underway /\ UNCHANGED <<task, envTurns, turn, active, turns, meta, total, metric>> => Underway'
BY DEF Underway

\* The driver sends the active samples' rows.
LEMMA GenerateInv == RolloutInv /\ Generate => RolloutInv'
<1> SUFFICES ASSUME RolloutInv, Generate PROVE RolloutInv'
  OBVIOUS
<1>1. /\ pc = "turn" /\ Continues /\ pc' = "wait"
      /\ log' = [s \in Samples |-> IF Contains(active, s)
                                   THEN Append(log[s], <<"assistant", s>>) ELSE log[s]]
      /\ call' = Calls
      /\ reply' = [t \in Tasks |-> NoReply]
      /\ UNCHANGED <<task, envTurns, turn, active>>
      /\ UNCHANGED <<total, turns, meta, metric, terminated, truncated, maxed>>
  BY DEF Generate, static, samples
<1>2. RolloutTypes /\ Batch /\ Underway /\ \A s \in Samples : LogIs(s)
  BY LogsAre DEF RolloutInv
<1>3. Batch' /\ Underway'
  BY <1>1, <1>2, SameBatch, SameUnderway
<1>4. Exchange'
  <2>1. Calls' = Calls
    BY <1>1, SameCalls
  <2>2. Continues'
    BY <1>1 DEF Continues
  <2>3. \A t \in Tasks : reply'[t] = NoReply
    BY <1>1
  <2> QED BY <1>1, <2>1, <2>2, <2>3 DEF Exchange
<1>5. ASSUME NEW s \in Samples PROVE log'[s] \in Seq(Entries) /\ LogIs(s)'
  <2>1. turns[s] \in Nat /\ log[s] \in Seq(Entries)
    BY <1>2 DEF RolloutTypes, Entries
  <2>2. LogOf(s, 2 * turns[s], log[s])
    <3>1. LogOf(s, 2 * turns[s] + 0, log[s])
      BY <1>1, <1>2 DEF LogIs, Expecting
    <3>2. 2 * turns[s] + 0 = 2 * turns[s]
      BY <2>1
    <3> QED BY <3>1, <3>2
  <2>3. CASE Contains(active, s)
    <3> DEFINE n == 2 * turns[s]
    <3>1. n \in Nat /\ (n + 1) % 2 = 1
      BY <2>1, Parity
    <3>2. LogOf(s, n, log[s])
      BY <2>2
    <3>3. log'[s] = Append(log[s], <<"assistant", s>>)
      BY <1>1, <2>3
    <3> HIDE DEF n
    <3>4. log'[s] \in Seq(Entries) /\ LogOf(s, n + 1, log'[s])
      BY <2>1, <3>1, <3>2, <3>3, LogGrows
    <3>5. Expecting(s)' /\ turns'[s] = turns[s]
      BY <1>1, <2>3 DEF Expecting
    <3> QED BY <3>4, <3>5 DEF LogIs, n
  <2>4. CASE ~Contains(active, s)
    <3>1. ~Expecting(s)' /\ turns'[s] = turns[s] /\ log'[s] = log[s]
      BY <1>1, <2>4 DEF Expecting
    <3>2. 2 * turns[s] + 0 = 2 * turns[s]
      BY <2>1
    <3> QED BY <2>1, <2>2, <3>1, <3>2 DEF LogIs
  <2> QED BY <2>3, <2>4
<1>6. (\A s \in Samples : LogIs(s))'
  BY <1>5
<1>7. LogsOwn'
  BY <1>6 DEF LogsOwn, LogIs, LogOf, Expecting
<1>8. log' \in [Samples -> Seq(Entries)]
  BY <1>1, <1>5
<1>9. RolloutTypes'
  <2>1. call' = [t \in Tasks |-> call'[t]]
    BY <1>1 DEF Calls
  <2>2. reply' = [t \in Tasks |-> reply'[t]]
    BY <1>1
  <2> QED BY <1>1, <1>2, <1>8, <2>1, <2>2 DEF RolloutTypes, Entries
<1> QED BY <1>3, <1>4, <1>7, <1>9 DEF RolloutInv

\* An environment answers its rows, or raises.
LEMMA EnvironmentInv ==
  ASSUME RolloutInv, NEW t \in Tasks, Environment(t) PROVE RolloutInv'
<1>1. /\ call[t] # << >>
      /\ reply' = [reply EXCEPT ![t] = reply'[t]]
      /\ reply'[t] \in {Raised, EnvReply(t, call[t])}
      /\ UNCHANGED <<pc, task, envTurns, turn, active, call, log>>
      /\ UNCHANGED <<total, turns, meta, metric, terminated, truncated, maxed>>
  <2>1. reply = [x \in Tasks |-> reply[x]]
    BY DEF RolloutInv, RolloutTypes
  <2>2. CASE EnvStep(t)
    BY <2>1, <2>2 DEF EnvStep, static, samples
  <2>3. CASE EnvRaises(t)
    BY <2>1, <2>3 DEF EnvRaises, static, samples
  <2> QED BY <2>2, <2>3 DEF Environment
<1>2. Batch' /\ Underway'
  BY <1>1, SameBatch, SameUnderway DEF RolloutInv
<1>3. reply' = [x \in Tasks |-> reply'[x]] /\ \A x \in Tasks : x # t => reply'[x] = reply[x]
  <2>1. reply = [x \in Tasks |-> reply[x]]
    BY DEF RolloutInv, RolloutTypes
  <2> QED BY <1>1, <2>1
<1>4. Exchange'
  <2>1. Calls' = Calls
    BY <1>1, SameCalls
  <2>2. Continues' = Continues
    BY <1>1 DEF Continues
  <2>3. ASSUME NEW x \in Tasks, call[x] # << >>
        PROVE  reply'[x] \in {NoReply, Raised, EnvReply(x, call[x])}
    <3>1. CASE x = t
      BY <1>1, <3>1
    <3>2. CASE x # t
      BY <1>3, <2>3, <3>2 DEF RolloutInv, Exchange
    <3> QED BY <3>1, <3>2
  <2>4. \A x \in Tasks : EnvReply(x, call[x])' = EnvReply(x, call[x])
    BY <1>1 DEF EnvReply, IsLast
  <2>5. ASSUME NEW x \in Tasks, (call[x] # << >>)'
        PROVE  (reply[x] \in {NoReply, Raised, EnvReply(x, call[x])})'
    BY <1>1, <2>3, <2>4, <2>5
  <2> QED BY <1>1, <2>1, <2>2, <2>5 DEF RolloutInv, Exchange
<1>5. LogsOwn'
  BY <1>1 DEF RolloutInv, LogsOwn
<1>6. RolloutTypes'
  BY <1>1, <1>3 DEF RolloutInv, RolloutTypes
<1> QED BY <1>2, <1>4, <1>5, <1>6 DEF RolloutInv

\* The driver gives up, or has no one left or no turn left.
LEMMA EndInv == RolloutInv /\ (CollectRaises \/ Finish) => RolloutInv'
<1> SUFFICES ASSUME RolloutInv, CollectRaises \/ Finish PROVE RolloutInv'
  OBVIOUS
<1>1. /\ UNCHANGED <<task, envTurns, turn, active, reply, log, total, turns, meta, metric>>
      /\ \/ pc = "wait" /\ pc' = "raised"
         \/ pc = "turn" /\ pc' = "returned"
      /\ call' = [x \in Tasks |-> << >>]
  <2>1. CASE CollectRaises
    BY <2>1 DEF CollectRaises, static, samples
  <2>2. CASE Finish
    BY <2>2 DEF Finish, static, RolloutInv, Exchange
  <2> QED BY <2>1, <2>2
<1>2. Batch' /\ Underway'
  BY <1>1, SameBatch, SameUnderway DEF RolloutInv
<1>3. Exchange'
  BY <1>1 DEF Exchange
<1>4. LogsOwn'
  BY <1>1 DEF RolloutInv, LogsOwn
<1>5. RolloutTypes'
  BY <1>1 DEF RolloutInv, RolloutTypes
<1> QED BY <1>2, <1>3, <1>4, <1>5 DEF RolloutInv

\* Everything that a collected turn changes.
LEMMA CollectInv ==
  ASSUME RolloutInv, NEW overflow \in SUBSET Positions, Collect(overflow) PROVE RolloutInv'
<1>1. /\ pc = "wait" /\ pc' = "turn" /\ turn' = turn + 1
      /\ call' = [t \in Tasks |-> << >>]
      /\ reply' = [t \in Tasks |-> NoReply]
      /\ UNCHANGED <<task, envTurns>>
  BY DEF Collect, static
<1>2. RolloutTypes /\ Batch /\ Underway /\ (\A s \in Samples : LogIs(s)) /\ turn < TurnLimit
  BY <1>1, LogsAre DEF RolloutInv, Exchange, Continues
<1>3. TurnLimit \in Nat /\ TurnChoices \subseteq Nat /\ Samples \subseteq Nat
  BY DEF RolloutAssumption
<1>4. \A s \in Samples : IF Contains(active, s) THEN Moved(s, At(s) \in overflow) ELSE Rests(s)
  BY CollectCases
<1> DEFINE K == {i \in Positions : ~(i \in overflow \/ Terminateds[i])}
<1>5. Kept(K, active')
  <2>1. active' = [k \in DOMAIN Ascending(K) |-> active[Ascending(K)[k]]]
    BY DEF Collect
  <2>2. K \in SUBSET Positions
    OBVIOUS
  <2> HIDE DEF K
  <2>3. Kept(K, [k \in DOMAIN Ascending(K) |-> active[Ascending(K)[k]]])
    BY <1>2, <2>2, KeptActive
  <2> QED BY <2>1, <2>3
<1> HIDE DEF K
<1>6. Batch'
  <2>1. active' \in Seq(Samples)
    BY <1>5 DEF Kept
  <2>2. \A i, j \in 1..Len(active') : active'[i] = active'[j] => i = j
    BY <1>5 DEF Kept
  <2>3. task' \in [Samples -> Tasks]
    BY <1>1, <1>2 DEF Batch
  <2> QED BY <2>1, <2>2, <2>3 DEF Batch, Positions
<1>7. Underway'
  <2> SUFFICES ASSUME NEW s \in Samples, Contains(active', s)
               PROVE  /\ turns'[s] = turn' /\ meta'[s] = turn'
                      /\ total'[s] = 0 /\ metric'[s] = 0
                      /\ turn' < envTurns'[task'[s]]
    BY DEF Underway
  <2>1. Contains(active, s) /\ Moved(s, At(s) \in overflow)
    BY <1>4 DEF Rests
  <2>2. ~FinalTurn(task[s])
    BY <2>1 DEF Moved
  <2>3. turn < envTurns[task[s]]
    BY <1>2, <2>1 DEF Underway
  <2>4. envTurns[task[s]] \in Nat /\ turn \in Nat
    BY <1>2, <1>3 DEF RolloutTypes, Batch
  <2>5. turn + 1 < envTurns[task[s]]
    BY <2>2, <2>3, <2>4 DEF FinalTurn
  <2> QED BY <1>1, <2>1, <2>2, <2>5 DEF Moved
<1>8. Exchange'
  BY <1>1 DEF Exchange
<1>9. ASSUME NEW s \in Samples
      PROVE  /\ log'[s] \in Seq(Entries) /\ LogIs(s)'
             /\ total'[s] \in Nat /\ turns'[s] \in Nat /\ meta'[s] \in Nat /\ metric'[s] \in Nat
  <2>1. /\ total[s] \in Nat /\ turns[s] \in Nat /\ meta[s] \in Nat /\ metric[s] \in Nat
        /\ turn \in Nat /\ log[s] \in Seq(Entries) /\ s \in Nat
    BY <1>2, <1>3 DEF RolloutTypes, Entries
  <2>2. ~Expecting(s)'
    BY <1>1 DEF Expecting
  <2>3. CASE Contains(active, s)
    <3>1. Moved(s, At(s) \in overflow)
      BY <1>4, <2>3
    <3>2. turns[s] = turn /\ meta[s] = turn
      BY <1>2, <2>3 DEF Underway
    <3> DEFINE n == 2 * turn + 1
    <3>3. n \in Nat /\ n + 1 = 2 * (turn + 1) /\ (n + 1) % 2 # 1
      <4>1. (2 * turn + 2) % 2 = 0
        BY <2>1, Parity
      <4>2. n + 1 = 2 * turn + 2 /\ n \in Nat /\ n + 1 = 2 * (turn + 1)
        BY <2>1
      <4> QED BY <4>1, <4>2
    <3>4. LogOf(s, n, log[s])
      BY <1>1, <1>2, <2>3, <3>2 DEF LogIs, Expecting
    <3> HIDE DEF n
    <3>5. log'[s] = Append(log[s], <<"user", s>>)
      BY <3>1 DEF Moved
    <3>6. log'[s] \in Seq(Entries) /\ LogOf(s, n + 1, log'[s])
      BY <2>1, <3>3, <3>4, <3>5, LogGrows
    <3>7. turns'[s] = turn + 1 /\ turn + 1 \in Nat
      BY <2>1, <3>1 DEF Moved
    <3>8. 2 * turns'[s] + 0 = n + 1
      BY <3>3, <3>7
    <3>9. LogIs(s)'
      BY <2>2, <3>6, <3>8 DEF LogIs
    <3>10. total'[s] \in Nat /\ metric'[s] \in Nat
      BY <2>1, <3>1 DEF Moved
    <3>11. meta'[s] \in Nat
      <4>1. CASE Contains(active', s)
        BY <3>1, <3>7, <4>1 DEF Moved
      <4>2. CASE ~Contains(active', s)
        <5>1. meta'[s] = meta[s]
          BY <4>2 DEF Collect
        <5> QED BY <2>1, <5>1
      <4> QED BY <4>1, <4>2
    <3> QED BY <3>6, <3>7, <3>9, <3>10, <3>11
  <2>4. CASE ~Contains(active, s)
    <3>1. Rests(s)
      BY <1>4, <2>4
    <3>2. LogOf(s, 2 * turns[s] + 0, log[s])
      BY <1>2, <2>4 DEF LogIs, Expecting
    <3>3. LogIs(s)'
      BY <2>2, <3>1, <3>2 DEF LogIs, Rests
    <3> QED BY <2>1, <3>1, <3>3 DEF Rests
  <2> QED BY <2>3, <2>4
<1>10. (\A s \in Samples : LogIs(s))'
  BY <1>9
<1>11. LogsOwn'
  BY <1>10 DEF LogsOwn, LogIs, LogOf, Expecting
<1>12. /\ log' \in [Samples -> Seq(Entries)]
       /\ {total', turns', meta', metric'} \subseteq [Samples -> Nat]
  <2>1. /\ log' = [s \in Samples |-> log'[s]]
        /\ total' = [s \in Samples |-> total'[s]]
        /\ turns' = [s \in Samples |-> turns'[s]]
        /\ meta' = [s \in Samples |-> meta'[s]]
        /\ metric' = [s \in Samples |-> metric'[s]]
    BY DEF Collect
  <2> QED BY <1>9, <2>1
<1>13. turn' \in Nat /\ turn' <= TurnLimit
  BY <1>1, <1>2, <1>3 DEF RolloutTypes
<1>14. RolloutTypes'
  BY <1>1, <1>2, <1>12, <1>13 DEF RolloutTypes, Entries
<1> QED BY <1>6, <1>7, <1>8, <1>11, <1>14 DEF RolloutInv

LEMMA NextInv == RolloutInv /\ [Next]_vars => RolloutInv'
<1> SUFFICES ASSUME RolloutInv, [Next]_vars PROVE RolloutInv'
  OBVIOUS
<1>1. CASE Generate
  BY <1>1, GenerateInv
<1>2. CASE \E overflow \in SUBSET Positions : Collect(overflow)
  BY <1>2, CollectInv
<1>3. CASE CollectRaises \/ Finish
  BY <1>3, EndInv
<1>4. CASE \E t \in Tasks : Environment(t)
  BY <1>4, EnvironmentInv
<1>5. CASE UNCHANGED vars
  <2>1. UNCHANGED <<pc, task, envTurns, turn, active, call, reply, log>>
        /\ UNCHANGED <<total, turns, meta, metric>>
    BY <1>5 DEF vars, static, samples
  <2>2. Batch' /\ Underway'
    BY <2>1, SameBatch, SameUnderway DEF RolloutInv
  <2>3. Exchange'
    <3>1. Calls' = Calls
      BY <2>1, SameCalls
    <3>2. \A t \in Tasks : EnvReply(t, call[t])' = EnvReply(t, call[t])
      BY <2>1 DEF EnvReply, IsLast
    <3>3. Continues' = Continues
      BY <2>1 DEF Continues
    <3> QED BY <2>1, <3>1, <3>2, <3>3 DEF RolloutInv, Exchange
  <2>4. LogsOwn'
    BY <2>1 DEF RolloutInv, LogsOwn
  <2>5. RolloutTypes'
    BY <2>1 DEF RolloutInv, RolloutTypes
  <2> QED BY <2>2, <2>3, <2>4, <2>5 DEF RolloutInv
<1> QED BY <1>1, <1>2, <1>3, <1>4, <1>5 DEF Next, Driver

\* No sample's log ever holds a response or an observation of another's,
\* whatever tasks are mixed and however many samples have dropped out
\* (rollouts.py:407-459).
THEOREM LogsStayOwn == Spec => []LogsOwn
<1>1. RolloutInv => LogsOwn
  BY DEF RolloutInv
<1> QED BY <1>1, InitInv, NextInv, PTL DEF Spec

-----------------------------------------------------------------------------
(* The lockstep rollout implements Episodes.                               *)

Fate(s) ==
  IF Contains(active, s) THEN "open" ELSE IF metric[s] # 0 THEN "terminated" ELSE "truncated"
Episode(s)   == [step |-> turns[s], reward |-> total[s], ended |-> Fate(s)]
EpisodesNow  == [s \in Samples |-> Episode(s)]
TurnsOfOwner == [s \in Samples |-> envTurns[task[s]]]

LEMMA InitStart == Init => E!Start
<1> SUFFICES ASSUME Init PROVE E!Start
  OBVIOUS
<1>1. /\ task \in [Samples -> Tasks] /\ envTurns \in [Tasks -> TurnChoices]
      /\ total = [s \in Samples |-> 0] /\ turns = [s \in Samples |-> 0]
      /\ active = [i \in 1..N |-> i]
  BY DEF Init
<1>2. \A s \in Samples : Contains(active, s)
  <2>1. N \in Nat /\ active \in [1..N -> 1..N]
    BY <1>1 DEF RolloutAssumption
  <2>2. Len(active) = N
    BY <2>1, MapLists
  <2>3. \A s \in 1..N : active[s] = s
    BY <1>1
  <2> QED BY <2>2, <2>3 DEF Contains
<1>3. TurnsOfOwner \in [Samples -> TurnChoices]
  BY <1>1 DEF TurnsOfOwner
<1>4. EpisodesNow = [s \in Samples |-> [step |-> 0, reward |-> 0, ended |-> "open"]]
  BY <1>1, <1>2 DEF EpisodesNow, Episode, Fate
<1> QED BY <1>3, <1>4 DEF E!Start, E!Fresh, EpisodesNow, Episode, Fate, TurnsOfOwner

\* Whoever collects plays a turn with all that are active.
LEMMA CollectPlays ==
  ASSUME RolloutInv, NEW overflow \in SUBSET Positions, Collect(overflow)
  PROVE  E!Step
<1> DEFINE S == {s \in Samples : Contains(active, s)}
           O == {s \in Samples : Contains(active, s) /\ At(s) \in overflow}
<1>1. UNCHANGED <<task, envTurns>> /\ turn < TurnLimit
  BY DEF Collect, static, RolloutInv, Exchange, Continues
<1>2. Underway
  BY DEF RolloutInv
<1>3. ASSUME NEW s \in S
      PROVE  /\ Episode(s) = [step |-> turn, reward |-> 0, ended |-> "open"]
             /\ Episode(s)' = E!Turn(Episode(s), s, envTurns[task[s]], s \in O)
  <2>1. Contains(active, s) /\ s \in Samples /\ s # 0 /\ s \in Nat
    OBVIOUS
  <2>2. Moved(s, At(s) \in overflow)
    BY <2>1, CollectCases
  <2>3. turns[s] = turn /\ total[s] = 0
    BY <1>2, <2>1 DEF Underway
  <2>4. Episode(s) = [step |-> turn, reward |-> 0, ended |-> "open"]
    BY <2>1, <2>3 DEF Episode, Fate
  <2>5. s \in O <=> At(s) \in overflow
    BY <2>1
  <2> HIDE DEF S, O
  <2> DEFINE last == FinalTurn(task[s])
  <2>6. /\ turns'[s] = turn + 1
        /\ total'[s] = IF last THEN s ELSE 0
    BY <2>2 DEF Moved
  <2>7. Fate(s)' = IF last THEN "terminated" ELSE IF s \in O THEN "truncated" ELSE "open"
    <3>1. /\ Contains(active', s) <=> ~(At(s) \in overflow) /\ ~last
          /\ metric'[s] = IF last THEN s ELSE 0
      BY <2>2 DEF Moved
    <3> HIDE DEF last
    <3>2. Fate(s)' = IF Contains(active', s) THEN "open"
                     ELSE IF metric'[s] # 0 THEN "terminated" ELSE "truncated"
      BY DEF Fate
    <3>3. CASE last
      BY <2>1, <3>1, <3>2, <3>3
    <3>4. CASE ~last
      BY <2>5, <3>1, <3>2, <3>4
    <3> QED BY <3>3, <3>4
  <2>8. last <=> turn + 1 = envTurns[task[s]]
    BY DEF FinalTurn
  <2> HIDE DEF last
  <2>9. 0 + (IF last THEN s ELSE 0) = IF last THEN s ELSE 0
    BY <2>1
  <2>10. E!Turn(Episode(s), s, envTurns[task[s]], s \in O)
           = [step |-> turn + 1, reward |-> IF last THEN s ELSE 0,
              ended |-> IF last THEN "terminated" ELSE IF s \in O THEN "truncated" ELSE "open"]
    BY <2>4, <2>8, <2>9 DEF E!Turn, E!Score
  <2>11. Episode(s)' = [step |-> turns'[s], reward |-> total'[s], ended |-> Fate(s)']
    BY DEF Episode
  <2> QED BY <2>4, <2>6, <2>7, <2>10, <2>11
<1>4. ASSUME NEW s \in Samples, s \notin S PROVE Episode(s)' = Episode(s)
  <2>1. ~Contains(active, s)
    BY <1>4
  <2>2. Rests(s)
    BY <2>1, CollectCases
  <2> QED BY <2>1, <2>2 DEF Episode, Fate, Rests
<1>5. S \in SUBSET Samples /\ O \in SUBSET Samples
  OBVIOUS
<1> HIDE DEF S, O
<1>6. \A s \in S : EpisodesNow[s].ended = "open" /\ EpisodesNow[s].step < TurnLimit
  BY <1>1, <1>3, <1>5 DEF EpisodesNow
<1>7. EpisodesNow' = [s \in Samples |-> IF s \in S
                                        THEN E!Turn(EpisodesNow[s], s, TurnsOfOwner[s], s \in O)
                                        ELSE EpisodesNow[s]]
  <2>1. /\ EpisodesNow' = [s \in Samples |-> EpisodesNow'[s]]
        /\ \A s \in Samples : EpisodesNow'[s] = Episode(s)'
    BY DEF EpisodesNow, Episode
  <2>2. \A s \in Samples : EpisodesNow[s] = Episode(s) /\ TurnsOfOwner[s] = envTurns[task[s]]
    BY DEF EpisodesNow, TurnsOfOwner
  <2> DEFINE next(s) == IF s \in S THEN E!Turn(EpisodesNow[s], s, TurnsOfOwner[s], s \in O)
                                   ELSE EpisodesNow[s]
             now == EpisodesNow'
  <2>3. \A s \in Samples : now[s] = next(s)
    BY <1>3, <1>4, <2>1, <2>2
  <2>4. now = [s \in Samples |-> now[s]]
    BY <2>1
  <2> HIDE DEF next, now
  <2>5. now = [s \in Samples |-> next(s)]
    BY <2>3, <2>4
  <2> QED BY <2>5 DEF next, now
<1>8. TurnsOfOwner' = TurnsOfOwner
  BY <1>1 DEF TurnsOfOwner
<1>9. PICK A \in SUBSET Samples, B \in SUBSET Samples : A = S /\ B = O
  BY <1>5
<1>10. E!Play(A, B)
  BY <1>6, <1>7, <1>8, <1>9 DEF E!Play, E!CanTurn, EpisodesNow, Episode, Fate, TurnsOfOwner
<1> QED BY <1>10 DEF E!Step

LEMMA OtherStutters ==
  ASSUME UNCHANGED <<task, envTurns, active, turns, total, metric>>
  PROVE  UNCHANGED <<TurnsOfOwner, EpisodesNow>>
BY DEF TurnsOfOwner, EpisodesNow, Episode, Fate

LEMMA NextStep ==
  RolloutInv /\ [Next]_vars => E!Step \/ UNCHANGED <<TurnsOfOwner, EpisodesNow>>
<1> SUFFICES ASSUME RolloutInv, [Next]_vars
             PROVE  E!Step \/ UNCHANGED <<TurnsOfOwner, EpisodesNow>>
  OBVIOUS
<1>1. CASE \E overflow \in SUBSET Positions : Collect(overflow)
  BY <1>1, CollectPlays
<1>2. CASE Generate
  <2>1. UNCHANGED <<task, envTurns, active, turns, total, metric>>
    BY <1>2 DEF Generate, static, samples
  <2> QED BY <2>1, OtherStutters
<1>3. CASE CollectRaises \/ Finish
  <2>1. UNCHANGED <<task, envTurns, active, turns, total, metric>>
    BY <1>3 DEF CollectRaises, Finish, static, samples
  <2> QED BY <2>1, OtherStutters
<1>4. CASE \E t \in Tasks : Environment(t)
  <2>1. UNCHANGED <<task, envTurns, active, turns, total, metric>>
    BY <1>4 DEF Environment, EnvStep, EnvRaises, static, samples
  <2> QED BY <2>1, OtherStutters
<1>5. CASE UNCHANGED vars
  <2>1. UNCHANGED <<task, envTurns, active, turns, total, metric>>
    BY <1>5 DEF vars, static, samples
  <2> QED BY <2>1, OtherStutters
<1> QED BY <1>1, <1>2, <1>3, <1>4, <1>5 DEF Next, Driver

\* Taking their turns together, with regrouping, dealing and sorting in
\* between, gives every sample the episode it would have had alone
\* (rollouts.py:391-490).
THEOREM LockstepImplementsEpisodes == Spec => ImplementsEpisodes
<1>1. Init => RolloutInv /\ E!Start
  BY InitInv, InitStart
<1>2. RolloutInv /\ [Next]_vars => RolloutInv' /\ [E!Step]_<<TurnsOfOwner, EpisodesNow>>
  BY NextInv, NextStep
<1> QED BY <1>1, <1>2, PTL
        DEF Spec, ImplementsEpisodes, E!Spec, TurnsOfOwner, EpisodesNow, Episode, Fate
=============================================================================
