----------------------------- MODULE ClusterProofs -----------------------------
(***************************************************************************)
(* For every set of configurations, number of retries, of shutdowns and of *)
(* rows, and behaviour of the Ray cluster: Ray holds placement groups only *)
(* for a virtual cluster that knows them or is waiting for them, and none  *)
(* in the end, when nobody lists a worker; the replicas of the engine are  *)
(* whole, on one node if they fit, share no bundle and no seed, and their  *)
(* ranks fill the collective; the rows of a generation come back in order; *)
(* and what the shutdowns of a group answered tells whether its workers    *)
(* finished their cleanup or were killed.                                  *)
(***************************************************************************)
EXTENDS ClusterSetup, FiniteSetTheorems, SequenceTheorems, WellFoundedInduction, TLAPS

\* The groups that a virtual cluster knows, and those it waits for.
Held == UNION {Range(held[c]) : c \in Sides}
Asked == IF pc = "ready" THEN Range(PgIds(cluster)) ELSE {}

\* What the bookkeeping of groups relies on: a cluster asks for groups only
\* when it has none, and the driver ends only after both have given theirs up.
Inv ==
  /\ which \in Sides
  /\ held = [c \in Sides |-> held[c]]
  /\ pc = "ready" => held[cluster] = << >>
  /\ pc = "ended" => DOMAIN ray = {}
  /\ GroupsAccounted

\* An empty list of groups has no members.
LEMMA NoneHeld == Range(<< >>) = {}
BY DEF Range

\* The cluster the driver works on is one of the two.
LEMMA ClusterIsSide == ASSUME which \in Sides PROVE cluster \in Sides
BY DEF cluster, ClusterOf, Sides

LEMMA Accounted == GroupsAccounted <=> DOMAIN ray \subseteq Held \cup Asked
BY DEF GroupsAccounted, Held, Asked

LEMMA AccountedNext == GroupsAccounted' <=> DOMAIN ray' \subseteq Held' \cup Asked'
BY DEF GroupsAccounted, Held, Asked

LEMMA InvInit == Init => Inv
<1> SUFFICES ASSUME Init PROVE Inv
  OBVIOUS
<1>1. which \in Sides /\ pc = "configure" /\ held = [c \in Sides |-> << >>]
  BY DEF Init, Sides
<1>2. DOMAIN ray = {}
  BY DEF Init
<1> QED
  BY <1>1, <1>2 DEF Inv, GroupsAccounted

\* Nothing about groups changes, but what may be known of the driver's place.
LEMMA InvSame ==
  ASSUME Inv, UNCHANGED <<setup, ray, held>>, which' \in Sides,
         pc' # "ended", pc' # "ready", pc # "ready"
  PROVE  Inv'
<1>1. held' = [c \in Sides |-> held'[c]]
  BY DEF Inv
<1>2. GroupsAccounted'
  <2>1. DOMAIN ray \subseteq Held \cup Asked /\ Asked = {}
    BY Accounted DEF Inv, Asked
  <2>2. Held' = Held
    BY DEF Held
  <2> QED
    BY <2>1, <2>2, AccountedNext
<1> QED
  BY <1>1, <1>2 DEF Inv

\* A step that touches neither the driver's place nor the groups' names.
LEMMA InvStutter ==
  ASSUME Inv, UNCHANGED <<setup, pc, which, held>>, DOMAIN ray' = DOMAIN ray
  PROVE  Inv'
<1>1. UNCHANGED cluster
  BY DEF cluster, ClusterOf
<1>2. UNCHANGED PgIds(cluster)
  BY <1>1 DEF PgIds, PgCount, Unified, GpusPerNode, NodeCount, Shared
<1> QED
  BY <1>1, <1>2 DEF Inv, GroupsAccounted

LEMMA InvRequest == ASSUME Inv, Request PROVE Inv'
<1>1. UNCHANGED <<setup, which, held>> /\ pc' = "ready" /\ pc = "place"
  BY DEF Request
<1>2. UNCHANGED cluster
  BY <1>1 DEF cluster, ClusterOf
<1>3. UNCHANGED PgIds(cluster)
  BY <1>1, <1>2 DEF PgIds, PgCount, Unified, GpusPerNode, NodeCount, Shared
<1>4. DOMAIN ray' = DOMAIN ray \cup Range(PgIds(cluster))
  BY DEF Request
<1>5. DOMAIN ray \subseteq Held
  BY <1>1, Accounted DEF Inv, Asked
<1>6. Held' = Held
  BY <1>1 DEF Held
<1>7. Asked' = Range(PgIds(cluster))
  BY <1>1, <1>3 DEF Asked
<1>8. GroupsAccounted'
  BY <1>4, <1>5, <1>6, <1>7, AccountedNext
<1> QED
  BY <1>1, <1>2, <1>8 DEF Inv, Request

LEMMA InvReady == ASSUME Inv, Ready PROVE Inv'
<1>1. cluster \in Sides
  BY ClusterIsSide DEF Inv
<1>2. held' = [c \in Sides |-> IF c = cluster THEN PgIds(cluster) ELSE held[c]]
  BY <1>1 DEF Ready, Inv
<1>3. held[cluster] = << >> /\ pc = "ready" /\ pc' = "create" /\ UNCHANGED <<ray, which>>
  BY DEF Inv, Ready
<1>4. DOMAIN ray \subseteq Held \cup Range(PgIds(cluster))
  BY <1>3, Accounted DEF Inv, Asked
<1>5. Held \cup Range(PgIds(cluster)) \subseteq Held'
  <2>1. SUFFICES ASSUME NEW p \in Held \cup Range(PgIds(cluster)) PROVE p \in Held'
    OBVIOUS
  <2>2. CASE p \in Range(PgIds(cluster))
    BY <1>1, <1>2, <2>2 DEF Held
  <2>3. CASE p \in Held
    <3>1. PICK c \in Sides : p \in Range(held[c])
      BY <2>3 DEF Held
    <3>2. c # cluster
      BY <3>1, <1>3, NoneHeld
    <3> QED
      BY <3>1, <3>2, <1>2 DEF Held
  <2> QED
    BY <2>1, <2>2, <2>3
<1>6. GroupsAccounted'
  BY <1>3, <1>4, <1>5, AccountedNext
<1> QED
  BY <1>2, <1>3, <1>6 DEF Inv

LEMMA InvTimesOut == ASSUME Inv, ReadyTimesOut PROVE Inv'
<1>1. UNCHANGED <<setup, which, held>> /\ pc' = "raised" /\ pc = "ready"
  BY DEF ReadyTimesOut
<1>2. DOMAIN ray' = DOMAIN ray \ Range(PgIds(cluster))
  BY DEF ReadyTimesOut, RemoveGroups, Without
<1>3. DOMAIN ray \subseteq Held \cup Range(PgIds(cluster))
  BY <1>1, Accounted DEF Inv, Asked
<1>4. Held' = Held
  BY <1>1 DEF Held
<1>5. GroupsAccounted'
  BY <1>2, <1>3, <1>4, AccountedNext
<1> QED
  BY <1>1, <1>5 DEF Inv

LEMMA InvShutdownClusters == ASSUME Inv, ShutdownClusters PROVE Inv'
<1>1. pc = "leaving" /\ pc' = "ended" /\ UNCHANGED which
  BY DEF ShutdownClusters
<1>2. held' = [c \in Sides |-> << >>]
  BY DEF ShutdownClusters
<1>3. DOMAIN ray' = DOMAIN ray \ (Range(held["engine"]) \cup Range(held["train"]))
  BY DEF ShutdownClusters, Without
<1>4. DOMAIN ray \subseteq Range(held["engine"]) \cup Range(held["train"])
  BY <1>1 DEF Inv, GroupsAccounted, Sides
<1>5. DOMAIN ray' = {}
  BY <1>3, <1>4
<1> QED
  BY <1>1, <1>2, <1>5 DEF Inv, GroupsAccounted

\* Every step keeps the invariant.
LEMMA InvNext == Inv /\ [Next]_vars => Inv'
<1> SUFFICES ASSUME Inv, [Next]_vars PROVE Inv'
  OBVIOUS
<1>1. CASE Configure \/ RefuseConfig \/ Reuse \/ Insufficient
  BY <1>1, InvSame DEF Configure, RefuseConfig, Reuse, Insufficient, built, closing, Inv
<1>2. CASE Request
  BY <1>2, InvRequest
<1>3. CASE Ready
  BY <1>3, InvReady
<1>4. CASE ReadyTimesOut
  BY <1>4, InvTimesOut
<1>5. CASE Create
  <2>1. UNCHANGED <<setup, ray, held>> /\ pc = "create" /\ pc' \in {"place", "up", "join"}
    BY <1>5 DEF Create
  <2>2. which' \in Sides
    BY <1>5 DEF Create, Sides, Inv
  <2> QED
    BY <2>1, <2>2, InvSame
<1>6. CASE CreateRaises \/ Join \/ JoinRaises
  BY <1>6, InvSame DEF CreateRaises, Join, JoinRaises, built, closing, Inv
<1>7. CASE Generate
  BY <1>7, InvStutter DEF Generate, built
<1>8. CASE (\E w \in Sides : UserShutdown(w)) \/ Leave \/ DropEngine \/ DropPolicy
  <2>1. /\ UNCHANGED <<setup, ray, held>> /\ which' \in Sides
        /\ pc' \notin {"ended", "ready"} /\ pc # "ready"
    BY <1>8 DEF UserShutdown, Shutdown, Leave, DropEngine, DropPolicy, alive, built, closing,
                Inv, Sides
  <2> QED
    BY <2>1, InvSame
<1>9. CASE GracefulEnds \/ Escalate \/ GracefulLost
  BY <1>9, InvSame DEF GracefulEnds, Escalate, GracefulLost, Resumes, alive, Inv
<1>10. CASE ShutdownClusters
  BY <1>10, InvShutdownClusters
<1>11. CASE Worker
  BY <1>11, InvStutter DEF Worker, CleanupFails, CleansUp, WorkerDies, alive
<1>12. CASE NodeJoins
  BY <1>12, InvStutter DEF NodeJoins, built, closing
<1>13. CASE PlaceGroup
  BY <1>13, InvStutter DEF PlaceGroup, built, closing
<1>14. CASE \E w \in Sides : Reap(w)
  BY <1>14, InvStutter DEF Reap, alive
<1>15. CASE UNCHANGED vars
  BY <1>15, InvStutter DEF vars
<1> QED
  BY <1>1, <1>2, <1>3, <1>4, <1>5, <1>6, <1>7, <1>8, <1>9, <1>10, <1>11, <1>12, <1>13,
     <1>14, <1>15 DEF Next, Driver, Ray

-----------------------------------------------------------------------------
(***************************************************************************)
(* What leaves the scope of the program leaves it for good.                *)
(***************************************************************************)

\* The program itself runs, or waits for a shutdown it called.
InUse == pc = "up" \/ (pc = "closing" /\ which \notin dropped)

\* Objects are deleted only after the program has left; one that was deleted
\* lists workers only as long as its own shutdown goes on.
ScopeInv ==
  /\ listed = [w \in Sides |-> listed[w]]
  /\ dropped # {} => pc \in {"leaving", "ended"} \/ (pc = "closing" /\ which \in dropped)
  /\ \A w \in Sides : listed[w] /\ w \in dropped => pc = "closing" /\ which = w
  /\ pc = "closing" => listed[which]
  /\ pc = "ended" => \A w \in Sides : ~listed[w]

LEMMA ScopeInit == Init => ScopeInv
BY DEF Init, ScopeInv

\* Nothing is deleted, listed or called.
LEMMA ScopeSame ==
  ASSUME ScopeInv, UNCHANGED <<listed, dropped>>,
         UNCHANGED <<pc, which>> \/ (pc \notin {"leaving", "closing", "ended"} /\ pc' \notin {"closing", "ended"})
  PROVE  ScopeInv'
BY DEF ScopeInv

\* A call of shutdown.
LEMMA ScopeShutdown ==
  ASSUME Inv, ScopeInv, NEW w \in Sides, UserShutdown(w) \/ (w = "engine" /\ DropEngine) PROVE ScopeInv'
<1>1. /\ UNCHANGED listed /\ pc \in {"up", "leaving"}
      /\ \/ listed[w] /\ pc' = "closing" /\ which' = w
         \/ ~listed[w] /\ UNCHANGED <<pc, which>>
  BY DEF UserShutdown, DropEngine, Shutdown
<1>2. \/ pc = "up" /\ dropped' = dropped
      \/ pc = "leaving" /\ dropped' = dropped \cup {w}
  BY DEF UserShutdown, DropEngine
<1>3. \A v \in Sides : ~(listed[v] /\ v \in dropped)
  BY <1>1 DEF ScopeInv
<1>4. CASE pc = "up"
  <2>1. dropped = {}
    BY <1>4 DEF ScopeInv
  <2> QED BY <1>1, <1>2, <1>4, <2>1 DEF ScopeInv
<1>5. CASE pc = "leaving"
  BY <1>1, <1>2, <1>3, <1>5 DEF ScopeInv
<1> QED BY <1>1, <1>4, <1>5

\* Its end.
LEMMA ScopeResumes ==
  ASSUME Inv, ScopeInv, GracefulEnds \/ Escalate \/ GracefulLost PROVE ScopeInv'
<1>1. /\ pc = "closing" /\ UNCHANGED <<which, dropped>> /\ which \in Sides
      /\ pc' = IF which \in dropped THEN "leaving" ELSE "up"
      /\ \E b \in BOOLEAN : listed' = [listed EXCEPT ![which] = b] /\ (b => which \notin dropped)
  BY DEF GracefulEnds, Escalate, GracefulLost, Resumes, Inv
<1>2. PICK b \in BOOLEAN : listed' = [listed EXCEPT ![which] = b] /\ (b => which \notin dropped)
  BY <1>1
<1>3. listed = [w \in Sides |-> listed[w]]
  BY DEF ScopeInv
<1>4. /\ listed' = [w \in Sides |-> listed'[w]] /\ listed'[which] = b
      /\ \A w \in Sides : w # which => listed'[w] = listed[w]
  BY <1>1, <1>2, <1>3
<1>5. \A w \in Sides : ~(listed'[w] /\ w \in dropped)
  BY <1>1, <1>2, <1>4 DEF ScopeInv
<1>6. which \notin dropped => dropped = {}
  BY <1>1 DEF ScopeInv
<1> QED BY <1>1, <1>4, <1>5, <1>6 DEF ScopeInv

\* Every step keeps it.
LEMMA ScopeNext == ASSUME Inv, ScopeInv, [Next]_vars PROVE ScopeInv'
<1>1. CASE Configure \/ RefuseConfig \/ Reuse \/ Insufficient \/ Request \/ Ready \/ ReadyTimesOut
           \/ CreateRaises \/ Join \/ JoinRaises \/ Leave
  <2>1. /\ UNCHANGED <<listed, dropped>>
        /\ pc \notin {"leaving", "closing", "ended"} /\ pc' \notin {"closing", "ended"}
    BY <1>1 DEF Configure, RefuseConfig, Reuse, Insufficient, Request, Ready, ReadyTimesOut,
                CreateRaises, Join, JoinRaises, Leave, built, closing
  <2> QED BY <2>1, ScopeSame
<1>2. CASE Create
  <2>1. /\ pc = "create" /\ pc' \in {"place", "up", "join"} /\ UNCHANGED dropped /\ which \in Sides
        /\ listed' = [listed EXCEPT ![which] = TRUE]
    BY <1>2 DEF Create, closing, Inv
  <2>2. dropped = {}
    BY <2>1 DEF ScopeInv
  <2> QED BY <2>1, <2>2 DEF ScopeInv
<1>3. CASE (\E w \in Sides : UserShutdown(w)) \/ DropEngine
  BY <1>3, ScopeShutdown DEF Sides
<1>4. CASE GracefulEnds \/ Escalate \/ GracefulLost
  BY <1>4, ScopeResumes
<1>5. CASE DropPolicy
  <2>1. /\ pc = "leaving" /\ UNCHANGED <<pc, which>> /\ dropped' = dropped \cup {"train"}
        /\ listed' = [listed EXCEPT !["train"] = FALSE]
    BY <1>5 DEF DropPolicy
  <2> QED BY <2>1 DEF ScopeInv
<1>6. CASE ShutdownClusters
  <2>1. /\ pc = "leaving" /\ pc' = "ended" /\ UNCHANGED <<which, listed, dropped>>
        /\ \A w \in Sides : listed[w] => w \in dropped
    BY <1>6 DEF ShutdownClusters, Made, built, closing
  <2> QED BY <2>1 DEF ScopeInv
<1>7. CASE Generate \/ Worker \/ NodeJoins \/ PlaceGroup \/ (\E w \in Sides : Reap(w)) \/ UNCHANGED vars
  <2>1. UNCHANGED <<pc, which, listed, dropped>>
    BY <1>7 DEF Generate, Worker, CleanupFails, CleansUp, WorkerDies, NodeJoins, PlaceGroup, Reap,
                vars, alive, built, closing
  <2> QED BY <2>1, ScopeSame
<1> QED BY <1>1, <1>2, <1>3, <1>4, <1>5, <1>6, <1>7 DEF Next, Driver, Ray

-----------------------------------------------------------------------------
(***************************************************************************)
(* Arithmetic, joined lists, the stable sort and slices.                   *)
(***************************************************************************)

\* A number is a quotient and a remainder.
LEMMA DivFacts ==
  ASSUME NEW a \in Nat, NEW d \in Nat \ {0}
  PROVE  /\ a \div d \in Nat /\ (a % d) \in 0..d - 1
         /\ a = (a \div d) * d + (a % d)
OBVIOUS

\* Multiplying keeps an order.
LEMMA MulMono ==
  ASSUME NEW a \in Nat, NEW b \in Nat, a <= b, NEW d \in Nat
  PROVE  a * d <= b * d
OBVIOUS

\* One more block is d more places.
LEMMA MulStep ==
  ASSUME NEW a \in Nat, NEW d \in Nat
  PROVE  (a + 1) * d = a * d + d /\ a * d \in Nat
OBVIOUS

\* A place belongs to one block.
LEMMA BlockUnique ==
  \A d \in Nat \ {0} : \A q, p \in Nat, r, s \in 0..d - 1 :
    q * d + r = p * d + s => p = q /\ r = s
<1> SUFFICES ASSUME NEW d \in Nat \ {0}, NEW q \in Nat, NEW p \in Nat,
                    NEW r \in 0..d - 1, NEW s \in 0..d - 1, q * d + r = p * d + s
             PROVE  p = q /\ r = s
  OBVIOUS
<1>0. p * d \in Nat /\ q * d \in Nat
  OBVIOUS
<1>1. ASSUME p < q PROVE FALSE
  <2>1. (p + 1) * d <= q * d
    BY <1>1, MulMono
  <2>2. (p + 1) * d = p * d + d
    BY MulStep
  <2> QED BY <1>0, <2>1, <2>2
<1>2. ASSUME q < p PROVE FALSE
  <2>1. (q + 1) * d <= p * d
    BY <1>2, MulMono
  <2>2. (q + 1) * d = q * d + d
    BY MulStep
  <2> QED BY <1>0, <2>1, <2>2
<1>3. p = q
  BY <1>1, <1>2
<1> QED BY <1>0, <1>3

\* The block and the place in it that division gives.
LEMMA DivBlock ==
  ASSUME NEW q \in Nat, NEW d \in Nat \ {0}, NEW r \in 0..d - 1
  PROVE  (q * d + r) \div d = q /\ (q * d + r) % d = r
<1> DEFINE a == q * d + r
           u == a \div d
           v == a % d
<1>1. a \in Nat
  OBVIOUS
<1>2. u \in Nat /\ v \in 0..d - 1 /\ a = u * d + v
  <2> HIDE DEF a
  <2> QED BY <1>1, DivFacts
<1>3. q * d + r = u * d + v
  BY <1>2
<1>4. u = q /\ v = r
  <2> HIDE DEF u, v
  <2> QED BY <1>2, <1>3, BlockUnique
<1> QED BY <1>4

\* Place j of block k is one of the n * d places.
LEMMA BlockPlace ==
  ASSUME NEW n \in Nat, NEW d \in Nat, NEW k \in 1..n, NEW j \in 1..d
  PROVE  (k - 1) * d + j \in 1..n * d
<1>1. k - 1 \in Nat /\ (k - 1) * d \in Nat /\ k * d <= n * d /\ n * d \in Nat
  BY MulMono
<1>2. ((k - 1) + 1) * d = (k - 1) * d + d
  <2>1. k - 1 \in Nat
    OBVIOUS
  <2> QED BY <2>1, MulStep
<1>3. (k - 1) + 1 = k
  OBVIOUS
<1> QED BY <1>1, <1>2, <1>3

\* Every place is one of some block.
LEMMA PlaceBlock ==
  ASSUME NEW n \in Nat, NEW d \in Nat, NEW i \in 1..n * d
  PROVE  \E k \in 1..n, j \in 1..d : i = (k - 1) * d + j
<1>1. d # 0
  BY n * 0 = 0
<1> DEFINE u == (i - 1) \div d
           v == (i - 1) % d
<1>2. i - 1 \in Nat /\ n * d \in Nat
  OBVIOUS
<1>3. u \in Nat /\ v \in 0..d - 1 /\ i - 1 = u * d + v
  BY <1>1, <1>2, DivFacts
<1> HIDE DEF u, v
<1>4. u < n
  <2> SUFFICES ASSUME n <= u PROVE FALSE
    BY <1>3
  <2>1. n * d <= u * d
    BY <1>3, MulMono
  <2> QED BY <1>2, <1>3, <2>1
<1>5. u + 1 \in 1..n /\ v + 1 \in 1..d /\ i = ((u + 1) - 1) * d + (v + 1)
  BY <1>3, <1>4
<1> QED BY <1>5

\* Numbers that exist have a least one.
LEMMA LeastNatural ==
  ASSUME NEW S \in SUBSET Nat, S # {}
  PROVE  \E m \in S : \A k \in S : m <= k
<1> DEFINE R == {ss \in Nat \X Nat : ss[1] < ss[2]}
<1>1. IsWellFoundedOn(R, Nat)
  BY NatLessThanWellFounded DEF OpToRel
<1>2. S \subseteq Nat /\ S # {}
  OBVIOUS
<1>3. \E m \in S : \A k \in S : ~(<<k, m>> \in R)
  <2> HIDE DEF R
  <2> QED BY <1>1, <1>2, WFMin
<1>4. PICK m \in S : \A k \in S : ~(<<k, m>> \in R)
  BY <1>3
<1>5. \A k \in S : m <= k
  <2> TAKE k \in S
  <2>1. <<k, m>> \notin R /\ k \in Nat /\ m \in Nat
    BY <1>2, <1>4
  <2> QED BY <2>1
<1> QED BY <1>5

\* g[i] is the first i lists of fs joined.
Joins(g, fs, n) ==
  g = [i \in 1..n |-> IF i = 1 THEN fs[i] ELSE g[i - 1] \o fs[i]]

\* Such partial joins exist for every number of lists.
LEMMA JoinsExist == ASSUME NEW fs PROVE \A n \in Nat : \E g : Joins(g, fs, n)
<1> DEFINE S == {n \in Nat : ~ \E g : Joins(g, fs, n)}
<1> SUFFICES ASSUME S # {} PROVE FALSE
  OBVIOUS
<1>0. S \in SUBSET Nat
  OBVIOUS
<1>1. PICK m \in S : \A k \in S : m <= k
  <2> HIDE DEF S
  <2> QED BY <1>0, LeastNatural
<1>2. m \in Nat /\ ~ \E g : Joins(g, fs, m)
  OBVIOUS
<1>3. CASE m = 0
  <2>1. Joins(<< >>, fs, 0)
    BY DEF Joins
  <2> QED BY <1>2, <1>3, <2>1
<1>4. CASE m # 0
  <2>1. m - 1 \in Nat /\ m - 1 \notin S
    BY <1>1, <1>2, <1>4
  <2>2. PICK g : Joins(g, fs, m - 1)
    BY <2>1
  <2> DEFINE e == IF m = 1 THEN fs[m] ELSE g[m - 1] \o fs[m]
             h == [i \in 1..m |-> IF i = m THEN e ELSE g[i]]
  <2>3. \A i \in 1..m : i # 1 => h[i - 1] = g[i - 1]
    BY <1>2
  <2>4. \A i \in 1..m - 1 : g[i] = IF i = 1 THEN fs[i] ELSE g[i - 1] \o fs[i]
    BY <2>2 DEF Joins
  <2>5. \A i \in 1..m : h[i] = IF i = 1 THEN fs[i] ELSE h[i - 1] \o fs[i]
    <3> HIDE DEF S
    <3> TAKE i \in 1..m
    <3>1. CASE i = m
      BY <1>2, <1>4, <2>3, <3>1
    <3>2. CASE i # m
      <4>1. i \in 1..m - 1
        BY <1>2, <3>2
      <4> QED BY <1>2, <2>3, <2>4, <3>2, <4>1
    <3> QED BY <3>1, <3>2
  <2>6. Joins(h, fs, m)
    <3> HIDE DEF S
    <3> QED BY <2>5 DEF Joins
  <2> QED BY <1>2, <2>6
<1> QED BY <1>3, <1>4

\* FlattenSeq is the last partial join.
LEMMA FlattenIs ==
  ASSUME NEW fs, Len(fs) \in Nat \ {0}
  PROVE  \E g : Joins(g, fs, Len(fs)) /\ FlattenSeq(fs) = g[Len(fs)]
<1>1. \E g : Joins(g, fs, Len(fs))
  BY JoinsExist
<1> DEFINE f == CHOOSE g : Joins(g, fs, Len(fs))
<1>2. Joins(f, fs, Len(fs))
  BY <1>1
<1>3. FlattenSeq(fs) = f[Len(fs)]
  BY DEF FlattenSeq, Joins
<1> QED BY <1>2, <1>3

\* s is n lists of d elements, joined.
Blocks(S, s, fs, n, d) ==
  /\ s \in Seq(S) /\ Len(s) = n * d
  /\ \A k \in 1..n, j \in 1..d : s[(k - 1) * d + j] = fs[k][j]

\* Joining one more list keeps the blocks.
LEMMA BlockJoined ==
  ASSUME NEW S, NEW d \in Nat, NEW n \in Nat, NEW fs, NEW s, Blocks(S, s, fs, n, d),
         fs[n + 1] \in Seq(S), Len(fs[n + 1]) = d
  PROVE  Blocks(S, s \o fs[n + 1], fs, n + 1, d)
<1> DEFINE e == fs[n + 1]
           t == s \o e
<1>1. /\ s \in Seq(S) /\ Len(s) = n * d /\ e \in Seq(S) /\ Len(e) = d
      /\ n * d \in Nat /\ (n + 1) * d = n * d + d
  BY MulStep DEF Blocks
<1> HIDE DEF e
<1>2. /\ t \in Seq(S) /\ Len(t) = n * d + d
      /\ \A i \in 1..n * d : t[i] = s[i]
      /\ \A j \in 1..d : t[n * d + j] = e[j]
  <2>1. /\ t \in Seq(S) /\ Len(t) = Len(s) + Len(e)
        /\ \A i \in 1..Len(s) + Len(e) : t[i] = IF i <= Len(s) THEN s[i] ELSE e[i - Len(s)]
    BY <1>1, ConcatProperties
  <2> HIDE DEF t
  <2> DEFINE l == n * d
  <2>2. Len(s) = l /\ l \in Nat /\ Len(e) = d
    BY <1>1
  <2> HIDE DEF l
  <2>3. Len(t) = l + d /\ \A i \in 1..l : t[i] = s[i]
    BY <2>1, <2>2
  <2>4. ASSUME NEW j \in 1..d PROVE t[l + j] = e[j]
    <3>1. l + j \in 1..l + d /\ ~(l + j <= l) /\ (l + j) - l = j
      BY <2>2
    <3> QED BY <2>1, <2>2, <3>1
  <2> QED BY <2>1, <2>3, <2>4 DEF l
<1> HIDE DEF t
<1>3. ASSUME NEW k \in 1..n + 1, NEW j \in 1..d PROVE t[(k - 1) * d + j] = fs[k][j]
  <2>1. CASE k = n + 1
    <3>1. k - 1 = n
      BY <2>1
    <3> QED BY <1>2, <2>1, <3>1 DEF e
  <2>2. CASE k # n + 1
    <3>1. k \in 1..n
      BY <2>2
    <3>2. (k - 1) * d + j \in 1..n * d
      BY <3>1, BlockPlace
    <3> QED BY <1>2, <3>1, <3>2 DEF Blocks
  <2> QED BY <2>1, <2>2
<1>4. Blocks(S, t, fs, n + 1, d)
  BY <1>1, <1>2, <1>3 DEF Blocks
<1> QED BY <1>4 DEF t, e

\* Lists of one length, flattened, are blocks.
LEMMA FlattenBlocks ==
  ASSUME NEW S, NEW d \in Nat, NEW fs, Len(fs) \in Nat \ {0},
         \A k \in 1..Len(fs) : fs[k] \in Seq(S) /\ Len(fs[k]) = d
  PROVE  Blocks(S, FlattenSeq(fs), fs, Len(fs), d)
<1> DEFINE n == Len(fs)
<1>1. PICK g : Joins(g, fs, n) /\ FlattenSeq(fs) = g[n]
  BY FlattenIs
<1>2. \A i \in 1..n : g[i] = IF i = 1 THEN fs[i] ELSE g[i - 1] \o fs[i]
  BY <1>1 DEF Joins
<1> DEFINE Bad == {i \in 1..n : ~ Blocks(S, g[i], fs, i, d)}
<1>3. Bad = {}
  <2> SUFFICES ASSUME Bad # {} PROVE FALSE
    OBVIOUS
  <2>1. Bad \in SUBSET Nat
    OBVIOUS
  <2>2. PICK m \in Bad : \A k \in Bad : m <= k
    <3> HIDE DEF Bad
    <3> QED BY <2>1, LeastNatural
  <2>3. m \in 1..n /\ ~ Blocks(S, g[m], fs, m, d)
    OBVIOUS
  <2>4. CASE m = 1
    <3>1. g[1] = fs[1] /\ fs[1] \in Seq(S) /\ Len(fs[1]) = d
      BY <1>2, <2>3, <2>4
    <3>2. 1 * d = d /\ \A j \in 1..d : (1 - 1) * d + j = j
      OBVIOUS
    <3>3. Blocks(S, g[1], fs, 1, d)
      BY <3>1, <3>2 DEF Blocks
    <3> QED BY <2>3, <2>4, <3>3
  <2>5. CASE m # 1
    <3>1. m - 1 \in 1..n /\ m - 1 \notin Bad /\ m - 1 \in Nat
      BY <2>2, <2>3, <2>5
    <3>2. Blocks(S, g[m - 1], fs, m - 1, d)
      BY <3>1
    <3> HIDE DEF Bad
    <3>3. (m - 1) + 1 = m /\ fs[m] \in Seq(S) /\ Len(fs[m]) = d
      BY <2>3
    <3>4. Blocks(S, g[m - 1] \o fs[m], fs, m, d)
      BY <3>1, <3>2, <3>3, BlockJoined
    <3>5. g[m] = g[m - 1] \o fs[m]
      BY <1>2, <2>3, <2>5
    <3> QED BY <2>3, <3>4, <3>5
  <2> QED BY <2>4, <2>5
<1>4. n \in 1..n
  OBVIOUS
<1> QED BY <1>1, <1>3, <1>4

\* The elements of C are sorted by natural numbers.
Lengths(len, C) == \A y \in C : len[y] \in Nat

\* s has n places and every element of C.
Lists(s, C, n) == s \in Seq(C) /\ Len(s) = n /\ \A x \in C : \E i \in 1..n : s[i] = x

\* Place i has the element that i - 1 others come before.
Ranked(s, len, C, n) == \A i \in 1..n : Cardinality(Before(len, C, s[i])) = i - 1

\* As many come before two elements only if they are one.
LEMMA BeforeDiffer ==
  ASSUME NEW S, IsFiniteSet(S), NEW len, NEW x \in S, NEW y \in S, S \subseteq Nat,
         \A z \in S : len[z] \in Nat, x # y
  PROVE  Cardinality(Before(len, S, x)) # Cardinality(Before(len, S, y))
<1>1. ASSUME NEW u \in S, NEW v \in S, u \in Before(len, S, v)
      PROVE  Cardinality(Before(len, S, u)) # Cardinality(Before(len, S, v))
  <2>1. ASSUME NEW w \in Before(len, S, u) PROVE w \in Before(len, S, v)
    <3>1. /\ w \in S /\ {len[w], len[u], len[v], w, u, v} \subseteq Nat
          /\ len[w] < len[u] \/ (len[w] = len[u] /\ w < u)
          /\ len[u] < len[v] \/ (len[u] = len[v] /\ u < v)
      BY <1>1 DEF Before
    <3>2. len[w] < len[v] \/ (len[w] = len[v] /\ w < v)
      BY <3>1
    <3> QED BY <3>1, <3>2 DEF Before
  <2>2. u \notin Before(len, S, u)
    BY DEF Before
  <2>3. IsFiniteSet(Before(len, S, v))
    BY FS_Subset DEF Before
  <2>4. Before(len, S, u) \subseteq Before(len, S, v)
    BY <2>1
  <2> QED BY <1>1, <2>2, <2>3, <2>4, FS_Subset
<1>2. x \in Before(len, S, y) \/ y \in Before(len, S, x)
  BY DEF Before
<1> QED BY <1>1, <1>2

\* The stable sort lists every element, each behind those before it.
LEMMA SortedFacts ==
  ASSUME NEW len, NEW a \in Nat \ {0}, NEW to \in Int, NEW n \in Nat, to = a + n - 1,
         Lengths(len, a..to)
  PROVE  /\ Lists(Sorted(len, a, to), a..to, n)
         /\ Ranked(Sorted(len, a, to), len, a..to, n)
<1> DEFINE C == a..to
           r == [x \in C |-> Cardinality(Before(len, C, x))]
           s == Sorted(len, a, to)
<1>1. IsFiniteSet(C) /\ Cardinality(C) = n /\ C \subseteq Nat
  <2>1. Cardinality(C) = IF a > to THEN 0 ELSE to - a + 1
    BY FS_Interval
  <2> QED BY <2>1, FS_Interval
<1>2. IsFiniteSet(0..n - 1) /\ Cardinality(0..n - 1) = n
  <2>1. Cardinality(0..n - 1) = IF 0 > n - 1 THEN 0 ELSE (n - 1) - 0 + 1
    BY FS_Interval
  <2> QED BY <2>1, FS_Interval
<1> HIDE DEF C
<1>3. \A x \in C : len[x] \in Nat
  BY DEF C, Lengths
<1>4. ASSUME NEW x \in C PROVE Cardinality(Before(len, C, x)) \in 0..n - 1
  <2>1. Before(len, C, x) \subseteq C /\ x \notin Before(len, C, x)
    BY <1>1, <1>3 DEF Before
  <2>2. /\ IsFiniteSet(Before(len, C, x)) /\ Cardinality(Before(len, C, x)) <= n
        /\ Cardinality(Before(len, C, x)) # n
    BY <1>1, <2>1, FS_Subset
  <2>3. Cardinality(Before(len, C, x)) \in Nat
    BY <2>2, FS_CardinalityType
  <2> QED BY <2>2, <2>3
<1>5. r \in Injection(C, 0..n - 1)
  <2>1. r \in [C -> 0..n - 1]
    BY <1>4
  <2>2. \A x, y \in C : x # y => r[x] # r[y]
    BY <1>1, <1>3, BeforeDiffer
  <2> HIDE DEF r
  <2> QED BY <2>1, <2>2 DEF Injection, IsInjective
<1>6. r \in Surjection(C, 0..n - 1)
  <2> HIDE DEF r
  <2> QED BY <1>1, <1>2, <1>5, FS_Injection
<1>7. s = [i \in 1..n |-> CHOOSE x \in C : Cardinality(Before(len, C, x)) = i - 1]
  <2>1. to - a + 1 = n
    OBVIOUS
  <2> QED BY <2>1 DEF Sorted, C
<1>8. ASSUME NEW i \in 1..n PROVE s[i] \in C /\ r[s[i]] = i - 1
  <2>1. i - 1 \in 0..n - 1
    OBVIOUS
  <2>2. \E x \in C : r[x] = i - 1
    <3> HIDE DEF r
    <3> QED BY <1>6, <2>1 DEF Surjection
  <2>3. \E x \in C : Cardinality(Before(len, C, x)) = i - 1
    BY <2>2
  <2> HIDE DEF s
  <2> QED BY <1>7, <2>3
<1>9. ASSUME NEW x \in C PROVE \E i \in 1..n : s[i] = x
  <2>1. r[x] + 1 \in 1..n /\ (r[x] + 1) - 1 = r[x]
    BY <1>4
  <2>2. s[r[x] + 1] \in C /\ r[s[r[x] + 1]] = r[x]
    <3> HIDE DEF r, s
    <3> QED BY <1>8, <2>1
  <2>3. s[r[x] + 1] = x
    <3> HIDE DEF r, s
    <3> QED BY <1>5, <2>2 DEF Injection, IsInjective
  <2> QED BY <2>1, <2>3
<1>10. s \in Seq(C) /\ Len(s) = n
  <2>1. s = [i \in 1..n |-> s[i]]
    <3> DEFINE h == [i \in 1..n |-> CHOOSE x \in C : Cardinality(Before(len, C, x)) = i - 1]
    <3>1. h = [i \in 1..n |-> h[i]]
      OBVIOUS
    <3> HIDE DEF h
    <3> QED BY <1>7, <3>1 DEF h
  <2> HIDE DEF s, r
  <2>2. \A i \in 1..n : s[i] \in C
    BY <1>8
  <2> QED BY <2>1, <2>2
<1>11. Ranked(s, len, C, n)
  <2> HIDE DEF s
  <2> QED BY <1>8 DEF Ranked
<1> QED BY <1>9, <1>10, <1>11 DEF C, Lists

\* t is the d elements of s behind place from.
SliceIs(t, s, S, from, d) ==
  t \in Seq(S) /\ Len(t) = d /\ \A j \in 1..d : t[j] = s[from + j]

\* A slice within a list has them.
LEMMA SliceFacts ==
  ASSUME NEW S, NEW s \in Seq(S), NEW from \in Nat, NEW d \in Nat, NEW to \in Nat,
         to = from + d, to <= Len(s)
  PROVE  SliceIs(Slice(s, from, to), s, S, from, d)
<1>1. Smaller(to, Len(s)) = to
  BY DEF Smaller
<1>2. Slice(s, from, to) = [j \in 1..d |-> s[j + from]]
  <2>1. Slice(s, from, to) = SubSeq(s, from + 1, to)
    BY <1>1 DEF Slice
  <2>2. from + 1 \in 1..Len(s) + 1 /\ to \in from..Len(s)
    OBVIOUS
  <2>3. SubSeq(s, from + 1, to) = [j \in 1..(1 + to - (from + 1)) |-> s[(from + 1) + j - 1]]
    OBVIOUS
  <2>4. 1 + to - (from + 1) = d /\ \A j \in 1..d : (from + 1) + j - 1 = j + from
    OBVIOUS
  <2> QED BY <2>1, <2>3, <2>4
<1>3. ASSUME NEW j \in 1..d PROVE s[j + from] = s[from + j] /\ s[from + j] \in S
  <2>1. from + j \in 1..Len(s) /\ j + from = from + j
    OBVIOUS
  <2> QED BY <2>1
<1>4. \A j \in 1..d : Slice(s, from, to)[j] = s[from + j]
  BY <1>2, <1>3
<1>5. Slice(s, from, to) \in Seq(S) /\ Len(Slice(s, from, to)) = d
  <2>1. [j \in 1..d |-> s[j + from]] \in [1..d -> S]
    BY <1>3
  <2>2. [j \in 1..d |-> s[j + from]] \in Seq(S) /\ Len([j \in 1..d |-> s[j + from]]) = d
    BY <2>1
  <2> QED BY <1>2, <2>2
<1> QED BY <1>4, <1>5 DEF SliceIs

-----------------------------------------------------------------------------
(***************************************************************************)
(* The bundles of a group in the order of their nodes.                     *)
(***************************************************************************)

\* A list is a function of its places.
LEMMA ListMaps ==
  ASSUME NEW C, NEW n \in Nat, NEW s \in Seq(C), Len(s) = n
  PROVE  s \in [1..n -> C]
OBVIOUS

\* The order of the bundles 1..n by their nodes.
LEMMA OrderFacts ==
  ASSUME NEW n \in Nat, NEW node \in [1..n -> Nat]
  PROVE  LET o == Sorted(node, 1, n) IN
         /\ o \in [1..n -> 1..n] /\ o \in Seq(1..n) /\ Len(o) = n
         /\ \A i, j \in 1..n : o[i] = o[j] => i = j
         /\ \A i, j \in 1..n : i < j =>
              node[o[i]] < node[o[j]] \/ (node[o[i]] = node[o[j]] /\ o[i] < o[j])
<1> DEFINE o == Sorted(node, 1, n)
<1>1. Lists(o, 1..n, n) /\ Ranked(o, node, 1..n, n)
  <2>1. Lengths(node, 1..n)
    BY DEF Lengths
  <2>2. n = 1 + n - 1 /\ 1 \in Nat \ {0} /\ n \in Int
    OBVIOUS
  <2> QED BY <2>1, <2>2, SortedFacts
<1> HIDE DEF o
<1>2. o \in [1..n -> 1..n] /\ o \in Seq(1..n) /\ Len(o) = n
  <2>1. o \in Seq(1..n) /\ Len(o) = n
    BY <1>1 DEF Lists
  <2> QED BY <2>1, ListMaps
<1>3. \A i \in 1..n : o[i] \in 1..n /\ Cardinality(Before(node, 1..n, o[i])) = i - 1
  BY <1>1, <1>2 DEF Ranked
<1>4. ASSUME NEW i \in 1..n, NEW j \in 1..n, o[i] = o[j] PROVE i = j
  <2>1. i - 1 = j - 1
    BY <1>3, <1>4
  <2> QED BY <2>1
<1>5. ASSUME NEW i \in 1..n, NEW j \in 1..n, i < j
      PROVE  node[o[i]] < node[o[j]] \/ (node[o[i]] = node[o[j]] /\ o[i] < o[j])
  <2> DEFINE x == o[i]
             y == o[j]
  <2>1. /\ x \in 1..n /\ y \in 1..n /\ x # y
        /\ Cardinality(Before(node, 1..n, x)) = i - 1 /\ Cardinality(Before(node, 1..n, y)) = j - 1
    BY <1>3, <1>4, <1>5
  <2> HIDE DEF x, y
  <2>2. node[x] \in Nat /\ node[y] \in Nat
    BY <2>1
  <2>3. ASSUME node[y] < node[x] \/ (node[y] = node[x] /\ y < x) PROVE FALSE
    <3>1. ASSUME NEW z \in Before(node, 1..n, y) PROVE z \in Before(node, 1..n, x)
      <4>1. /\ z \in 1..n /\ node[z] \in Nat
            /\ node[z] < node[y] \/ (node[z] = node[y] /\ z < y)
        BY DEF Before
      <4>2. node[z] < node[x] \/ (node[z] = node[x] /\ z < x)
        BY <2>1, <2>2, <2>3, <4>1
      <4> QED BY <4>1, <4>2 DEF Before
    <3>2. IsFiniteSet(1..n) /\ Before(node, 1..n, x) \subseteq 1..n
      <4>1. 1 \in Int /\ n \in Int
        OBVIOUS
      <4> QED BY <4>1, FS_Interval DEF Before
    <3>3. IsFiniteSet(Before(node, 1..n, x))
      BY <3>2, FS_Subset
    <3>4. Before(node, 1..n, y) \subseteq Before(node, 1..n, x)
      BY <3>1
    <3>5. Cardinality(Before(node, 1..n, y)) <= Cardinality(Before(node, 1..n, x))
      BY <3>3, <3>4, FS_Subset
    <3> QED BY <1>5, <2>1, <3>5
  <2>4. node[x] < node[y] \/ (node[x] = node[y] /\ x < y)
    BY <2>1, <2>2, <2>3
  <2> QED BY <2>4 DEF x, y
<1> QED BY <1>2, <1>4, <1>5 DEF o

\* On one node, the order of the bundles is their own.
LEMMA OrderOfOneNode ==
  ASSUME NEW n \in Nat, NEW node \in [1..n -> Nat], \A i, j \in 1..n : node[i] = node[j]
  PROVE  \A i \in 1..n : Sorted(node, 1, n)[i] = i
<1> SUFFICES ASSUME NEW i \in 1..n PROVE Sorted(node, 1, n)[i] = i
  OBVIOUS
<1> DEFINE o == Sorted(node, 1, n)
<1>1. Ranked(o, node, 1..n, n) /\ Lists(o, 1..n, n)
  <2>1. Lengths(node, 1..n)
    BY DEF Lengths
  <2>2. n = 1 + n - 1 /\ 1 \in Nat \ {0} /\ n \in Int
    OBVIOUS
  <2> QED BY <2>1, <2>2, SortedFacts
<1> DEFINE x == o[i]
<1>2. x \in 1..n /\ Cardinality(Before(node, 1..n, x)) = i - 1
  <2> HIDE DEF o
  <2>1. o \in Seq(1..n) /\ Len(o) = n
    BY <1>1 DEF Lists
  <2>2. o \in [1..n -> 1..n]
    BY <2>1, ListMaps
  <2> QED BY <1>1, <2>2 DEF Ranked
<1> HIDE DEF x
<1>3. Before(node, 1..n, x) = 1..(x - 1)
  <2>1. ASSUME NEW z \in Before(node, 1..n, x) PROVE z \in 1..(x - 1)
    <3>1. z \in 1..n /\ (node[z] < node[x] \/ z < x) /\ node[z] = node[x] /\ node[x] \in Nat
      BY <1>2 DEF Before
    <3> QED BY <1>2, <3>1
  <2>2. ASSUME NEW z \in 1..(x - 1) PROVE z \in Before(node, 1..n, x)
    <3>1. z \in 1..n /\ z < x /\ node[z] = node[x]
      BY <1>2
    <3> QED BY <3>1 DEF Before
  <2> QED BY <2>1, <2>2
<1>4. Cardinality(1..(x - 1)) = x - 1
  <2>1. x - 1 \in Int /\ 1 \in Int
    BY <1>2
  <2>2. Cardinality(1..(x - 1)) = IF 1 > x - 1 THEN 0 ELSE (x - 1) - 1 + 1
    BY <2>1, FS_Interval
  <2> QED BY <1>2, <2>2
<1>5. x = i
  BY <1>2, <1>3, <1>4
<1> QED BY <1>5 DEF x, o

\* Places i to j of the order are on one node if both ends are.
LEMMA NodeIsRun ==
  ASSUME NEW n \in Nat, NEW node \in [1..n -> Nat], NEW i \in 1..n, NEW j \in 1..n, i < j,
         NEW g \in Nat, \A m \in Nat : Cardinality({b \in 1..n : node[b] = m}) <= g,
         node[Sorted(node, 1, n)[i]] = node[Sorted(node, 1, n)[j]]
  PROVE  j - i + 1 <= g
<1> DEFINE o == Sorted(node, 1, n)
<1>1. /\ o \in [1..n -> 1..n]
      /\ \A k, l \in 1..n : o[k] = o[l] => k = l
      /\ \A k, l \in 1..n : k < l =>
           node[o[k]] < node[o[l]] \/ (node[o[k]] = node[o[l]] /\ o[k] < o[l])
  BY OrderFacts
<1>2. node[o[i]] = node[o[j]]
  OBVIOUS
<1> HIDE DEF o
<1> DEFINE v == node[o[i]]
           T == {b \in 1..n : node[b] = v}
           f == [k \in i..j |-> o[k]]
<1>3. v \in Nat
  BY <1>1
<1>4. ASSUME NEW k \in i..j PROVE o[k] \in T
  <2>0. k \in 1..n /\ i <= k /\ k <= j
    OBVIOUS
  <2>1. /\ o[k] \in 1..n /\ o[i] \in 1..n /\ o[j] \in 1..n
    BY <1>1, <2>0
  <2>5. node[o[k]] \in Nat /\ node[o[i]] \in Nat /\ node[o[j]] \in Nat
    BY <2>1
  <2>2. node[o[i]] <= node[o[k]]
    <3>1. i = k \/ i < k
      BY <2>0
    <3>2. i < k => node[o[i]] < node[o[k]] \/ node[o[i]] = node[o[k]]
      BY <1>1, <2>0
    <3> QED BY <2>5, <3>1, <3>2
  <2>3. node[o[k]] <= node[o[j]]
    <3>1. j = k \/ k < j
      BY <2>0
    <3>2. k < j => node[o[k]] < node[o[j]] \/ node[o[k]] = node[o[j]]
      BY <1>1, <2>0
    <3> QED BY <2>5, <3>1, <3>2
  <2> QED BY <1>2, <2>1, <2>5, <2>2, <2>3
<1>5. f \in Injection(i..j, T)
  <2>1. f \in [i..j -> T]
    BY <1>4
  <2>2. ASSUME NEW k \in i..j, NEW l \in i..j, f[k] = f[l] PROVE k = l
    <3>1. k \in 1..n /\ l \in 1..n /\ o[k] = o[l]
      BY <2>2
    <3> QED BY <1>1, <3>1
  <2> HIDE DEF f, T
  <2> QED BY <2>1, <2>2 DEF Injection, IsInjective
<1>6. IsFiniteSet(T)
  <2>1. IsFiniteSet(1..n) /\ T \subseteq 1..n
    BY FS_Interval
  <2> QED BY <2>1, FS_Subset
<1>7. Cardinality(i..j) <= Cardinality(T)
  <2> HIDE DEF f, T
  <2> QED BY <1>5, <1>6, FS_Injection
<1>8. Cardinality(i..j) = j - i + 1
  <2>1. Cardinality(i..j) = IF i > j THEN 0 ELSE j - i + 1
    BY FS_Interval
  <2> QED BY <2>1
<1>9. Cardinality(T) <= g /\ Cardinality(T) \in Nat
  BY <1>3, <1>6, FS_CardinalityType
<1> QED BY <1>7, <1>8, <1>9

-----------------------------------------------------------------------------
(***************************************************************************)
(* Replicas as the layouts cut them out of the bundles.                    *)
(***************************************************************************)

\* A bundle is the number of one of the groups of a cluster and a number in it.
Places == (Sides \X Nat) \X Nat

\* gs is n replicas of m bundles.
Shape(gs, n, m) ==
  /\ n \in Nat /\ m \in Nat /\ gs \in Seq(Seq(Places)) /\ Len(gs) = n
  /\ \A i \in 1..n : gs[i] \in Seq(Places) /\ Len(gs[i]) = m

\* No two of them share one.
Apart(gs, n, m) ==
  \A i, j \in 1..n : \A r, t \in 1..m : gs[i][r] = gs[j][t] => i = j /\ r = t

\* Replicas of equal size, flattened, are blocks of workers.
LEMMA FlatShape ==
  ASSUME NEW n \in Nat, NEW m \in Nat, NEW gs, Shape(gs, n, m)
  PROVE  /\ WorkersIn(gs) = n * m
         /\ n # 0 => Blocks(Places, FlattenSeq(gs), gs, n, m)
<1>1. CASE n = 0
  <2>1. gs = << >> /\ n * m = 0
    BY <1>1 DEF Shape
  <2>2. FlattenSeq(<< >>) = << >>
    BY DEF FlattenSeq
  <2> QED BY <1>1, <2>1, <2>2 DEF WorkersIn
<1>2. CASE n # 0
  <2>1. Blocks(Places, FlattenSeq(gs), gs, n, m)
    BY <1>2, FlattenBlocks DEF Shape
  <2> QED BY <2>1 DEF Blocks, WorkersIn
<1> QED BY <1>1, <1>2

\* Replicas that share no bundle give each worker its own.
LEMMA FlatInjective ==
  ASSUME NEW n \in Nat, NEW m \in Nat, NEW gs, Shape(gs, n, m), Apart(gs, n, m)
  PROVE  IsInjective(FlattenSeq(gs))
<1> DEFINE f == FlattenSeq(gs)
<1>1. CASE n = 0
  <2>1. gs = << >>
    BY <1>1 DEF Shape
  <2>2. f = << >>
    BY <2>1 DEF FlattenSeq
  <2> HIDE DEF f
  <2> QED BY <2>2 DEF IsInjective, f
<1>2. CASE n # 0
  <2>1. Blocks(Places, f, gs, n, m)
    BY <1>2, FlatShape
  <2> HIDE DEF f
  <2>2. f \in Seq(Places) /\ Len(f) = n * m /\ n * m \in Nat
    BY <2>1 DEF Blocks
  <2>3. DOMAIN f = 1..n * m
    BY <2>2
  <2>4. ASSUME NEW a \in DOMAIN f, NEW b \in DOMAIN f, f[a] = f[b] PROVE a = b
    <3>0. a \in 1..n * m /\ b \in 1..n * m
      BY <2>3
    <3>1. PICK i \in 1..n, r \in 1..m : a = (i - 1) * m + r
      BY <3>0, PlaceBlock
    <3>2. PICK j \in 1..n, t \in 1..m : b = (j - 1) * m + t
      BY <3>0, PlaceBlock
    <3>3. f[(i - 1) * m + r] = gs[i][r] /\ f[(j - 1) * m + t] = gs[j][t]
      BY <2>1 DEF Blocks
    <3>4. i = j /\ r = t
      BY <2>4, <3>1, <3>2, <3>3 DEF Apart
    <3> QED BY <3>1, <3>2, <3>4
  <2> QED BY <2>4 DEF IsInjective, f
<1> QED BY <1>1, <1>2

\* Slices of a list.
LEMMA SlicesFacts ==
  ASSUME NEW S, NEW s \in Seq(S), NEW m \in Nat \ {0}
  PROVE  /\ Slices(s, m) \in Seq(Seq(S)) /\ Len(Slices(s, m)) = Len(s) \div m
         /\ \A j \in 1..(Len(s) \div m) : SliceIs(Slices(s, m)[j], s, S, (j - 1) * m, m)
<1> DEFINE n == Len(s) \div m
           t == Slices(s, m)
<1>1. n \in Nat /\ n * m <= Len(s)
  <2>0. Len(s) \in Nat
    OBVIOUS
  <2>1. n \in Nat /\ (Len(s) % m) \in 0..m - 1 /\ Len(s) = n * m + (Len(s) % m)
    BY <2>0, DivFacts
  <2> HIDE DEF n
  <2>2. n * m \in Nat
    BY <2>1
  <2> QED BY <2>1, <2>2
<1>2. t = [i \in 1..n |-> Slice(s, (i - 1) * m, i * m)]
  BY DEF Slices, GetBatch
<1> HIDE DEF n, t
<1>3. ASSUME NEW j \in 1..n PROVE SliceIs(t[j], s, S, (j - 1) * m, m)
  <2>1. j - 1 \in Nat /\ (j - 1) + 1 = j /\ j \in Nat
    BY <1>1
  <2>2. (j - 1) * m \in Nat /\ j * m = (j - 1) * m + m
    BY <2>1, MulStep
  <2>3. j * m <= n * m /\ n * m \in Nat
    BY <1>1, MulMono
  <2>4. j * m \in Nat /\ j * m <= Len(s)
    BY <1>1, <2>2, <2>3
  <2>5. SliceIs(Slice(s, (j - 1) * m, j * m), s, S, (j - 1) * m, m)
    BY <2>2, <2>4, SliceFacts
  <2> QED BY <1>2, <2>5
<1>4. t \in Seq(Seq(S)) /\ Len(t) = n
  <2>1. \A j \in 1..n : t[j] \in Seq(S)
    BY <1>3 DEF SliceIs
  <2>2. t \in [1..n -> Seq(S)]
    <3> DEFINE h == [i \in 1..n |-> Slice(s, (i - 1) * m, i * m)]
    <3>1. h = [i \in 1..n |-> h[i]]
      OBVIOUS
    <3>2. t = h
      BY <1>2
    <3> HIDE DEF h
    <3>3. t = [i \in 1..n |-> t[i]]
      BY <3>1, <3>2
    <3> QED BY <2>1, <3>3
  <2> QED BY <1>1, <2>2
<1> QED BY <1>3, <1>4 DEF n, t

\* Cluster c knows its groups, and Ray has placed them.
Settled(c) ==
  /\ held[c] = PgIds(c) /\ PgCount(c) \in Nat \ {0} /\ PgSize(c) \in Nat
  /\ \A k \in 1..PgCount(c) : ray[<<c, k>>] \in [1..PgSize(c) -> Nat]

\* gs is, for each of K groups of cluster c, q replicas of m consecutive bundles.
Local(gs, c, K, q, m) ==
  /\ Shape(gs, K * q, m)
  /\ \A k \in 1..K, j \in 1..q, r \in 1..m :
       gs[(k - 1) * q + j][r] = <<<<c, k>>, (j - 1) * m + r>>

\* A function of the places 1..n is a list.
LEMMA MapLists ==
  ASSUME NEW C, NEW n \in Nat, NEW s \in [1..n -> C]
  PROVE  s \in Seq(C) /\ Len(s) = n
OBVIOUS

\* The bundles of a group, in their own order.
LEMMA BundlesOf ==
  ASSUME NEW c \in Sides, NEW k \in Nat, NEW n \in Nat, ray[<<c, k>>] \in [1..n -> Nat]
  PROVE  /\ OfOnePg(<<c, k>>) \in Seq(Places) /\ Len(OfOnePg(<<c, k>>)) = n
         /\ \A b \in 1..n : OfOnePg(<<c, k>>)[b] = <<<<c, k>>, b>>
<1>1. Len(ray[<<c, k>>]) = n
  OBVIOUS
<1>2. OfOnePg(<<c, k>>) = [b \in 1..n |-> <<<<c, k>>, b>>]
  BY <1>1 DEF OfOnePg
<1>3. \A b \in 1..n : <<<<c, k>>, b>> \in Places
  BY DEF Places
<1>4. OfOnePg(<<c, k>>) \in [1..n -> Places]
  BY <1>2, <1>3
<1>5. OfOnePg(<<c, k>>) \in Seq(Places) /\ Len(OfOnePg(<<c, k>>)) = n
  BY <1>4, MapLists
<1> QED BY <1>2, <1>5

\* The bundles of a cluster: group after group, each in order.
LEMMA AllBundlesFacts ==
  ASSUME NEW w \in Sides, NEW c \in Sides, c = ClusterOf(w), Settled(c)
  PROVE  /\ AllBundles(w) \in Seq(Places) /\ Len(AllBundles(w)) = PgCount(c) * PgSize(c)
         /\ \A k \in 1..PgCount(c), j \in 1..PgSize(c) :
              AllBundles(w)[(k - 1) * PgSize(c) + j] = <<<<c, k>>, j>>
<1> DEFINE K == PgCount(c)
           n == PgSize(c)
           pgs == held[ClusterOf(w)]
           fs == [i \in DOMAIN pgs |-> OfOnePg(pgs[i])]
           a == AllBundles(w)
<1>1. K \in Nat \ {0} /\ n \in Nat /\ \A k \in 1..K : ray[<<c, k>>] \in [1..n -> Nat]
  BY DEF Settled
<1>2. pgs = [i \in 1..K |-> <<c, i>>]
  BY DEF Settled, PgIds
<1>3. a = FlattenSeq(fs)
  BY DEF AllBundles
<1> HIDE DEF K, n, pgs, a
<1>4. fs = [i \in 1..K |-> OfOnePg(<<c, i>>)]
  BY <1>2
<1>5. Len(fs) = K
  BY <1>1, <1>4
<1>6. \A k \in 1..K : /\ fs[k] \in Seq(Places) /\ Len(fs[k]) = n
                      /\ \A b \in 1..n : fs[k][b] = <<<<c, k>>, b>>
  <2> TAKE k \in 1..K
  <2>1. fs[k] = OfOnePg(<<c, k>>) /\ k \in Nat /\ ray[<<c, k>>] \in [1..n -> Nat]
    <3>1. fs[k] = OfOnePg(<<c, k>>)
      BY <1>4
    <3>2. k \in Nat
      BY <1>1
    <3>3. ray[<<c, k>>] \in [1..n -> Nat]
      BY <1>1
    <3> QED BY <3>1, <3>2, <3>3
  <2>2. /\ OfOnePg(<<c, k>>) \in Seq(Places) /\ Len(OfOnePg(<<c, k>>)) = n
        /\ \A b \in 1..n : OfOnePg(<<c, k>>)[b] = <<<<c, k>>, b>>
    <3>1. c \in Sides /\ k \in Nat /\ n \in Nat /\ ray[<<c, k>>] \in [1..n -> Nat]
      BY <1>1, <2>1
    <3> QED BY <3>1, BundlesOf
  <2> HIDE DEF fs
  <2> QED BY <2>1, <2>2
<1> HIDE DEF fs
<1>7. Blocks(Places, a, fs, K, n)
  BY <1>1, <1>3, <1>5, <1>6, FlattenBlocks
<1>8. \A k \in 1..K, j \in 1..n : a[(k - 1) * n + j] = <<<<c, k>>, j>>
  BY <1>6, <1>7 DEF Blocks
<1> QED BY <1>7, <1>8 DEF Blocks, K, n, a

\* Plain workers: one replica of one bundle for each.
LEMMA PlainFacts ==
  ASSUME NEW w \in Sides, NEW c \in Sides, c = ClusterOf(w), Settled(c)
  PROVE  Local(PlainGroups(w), c, PgCount(c), PgSize(c), 1)
<1> DEFINE K == PgCount(c)
           n == PgSize(c)
           a == AllBundles(w)
           gs == PlainGroups(w)
<1>1. /\ a \in Seq(Places) /\ Len(a) = K * n /\ K \in Nat /\ n \in Nat
      /\ \A k \in 1..K, j \in 1..n : a[(k - 1) * n + j] = <<<<c, k>>, j>>
  BY AllBundlesFacts DEF Settled
<1>2. gs = [i \in DOMAIN a |-> <<a[i]>>]
  BY DEF PlainGroups
<1> HIDE DEF K, n, a, gs
<1>3. K * n \in Nat
  BY <1>1
<1>4. gs = [i \in 1..K * n |-> <<a[i]>>]
  BY <1>1, <1>2
<1>5. \A i \in 1..K * n : a[i] \in Places
  BY <1>1
<1>6. Shape(gs, K * n, 1)
  <2>1. \A i \in 1..K * n : gs[i] = <<a[i]>> /\ <<a[i]>> \in Seq(Places) /\ Len(<<a[i]>>) = 1
    BY <1>4, <1>5
  <2>2. gs \in Seq(Seq(Places)) /\ Len(gs) = K * n
    <3>1. gs \in [1..K * n -> Seq(Places)]
      BY <1>4, <1>5
    <3> QED BY <1>3, <3>1
  <2> QED BY <1>3, <2>1, <2>2 DEF Shape
<1>7. ASSUME NEW k \in 1..K, NEW j \in 1..n, NEW r \in 1..1
      PROVE  gs[(k - 1) * n + j][r] = <<<<c, k>>, (j - 1) * 1 + r>>
  <2>1. (k - 1) * n + j \in 1..K * n
    BY <1>1, BlockPlace
  <2>2. (j - 1) * 1 + r = j /\ r = 1
    OBVIOUS
  <2> QED BY <1>1, <1>4, <2>1, <2>2
<1> QED BY <1>6, <1>7 DEF Local, K, n, gs

\* Replicas of one worker are as many as the bundles.
LEMMA DivByOne == ASSUME NEW a \in Nat PROVE a \div 1 = a
OBVIOUS

\* Tied workers over groups of one node each: replicas of
\* consecutive bundles of a group (vllm.py:1433-1459).
LEMMA TiedFacts ==
  ASSUME Settled("engine"), ~Unified("engine"), setup.mp \in Nat \ {0}, ClusterOf("engine") = "engine",
         PgCount("engine") = 1 =>
           \A b, d \in 1..PgSize("engine") : ray[<<"engine", 1>>][b] = ray[<<"engine", 1>>][d]
  PROVE  Local(TiedGroups("engine"), "engine", PgCount("engine"),
               PgSize("engine") \div setup.mp, setup.mp)
<1> DEFINE K == PgCount("engine")
           n == PgSize("engine")
           m == setup.mp
           q == n \div m
           pgs == held["engine"]
           gs == TiedGroups("engine")
           p(k) == <<"engine", k>>
<1>0. "engine" \in Sides
  BY DEF Sides
<1>1. /\ K \in Nat \ {0} /\ n \in Nat /\ m \in Nat \ {0} /\ q \in Nat
      /\ \A k \in 1..K : ray[p(k)] \in [1..n -> Nat]
  BY DivFacts DEF Settled
<1>2. pgs = [i \in 1..K |-> p(i)] /\ Len(pgs) = K
  BY DEF Settled, PgIds
<1>3. \A k \in 1..K : /\ OfOnePg(p(k)) \in Seq(Places) /\ Len(OfOnePg(p(k))) = n
                      /\ \A b \in 1..n : OfOnePg(p(k))[b] = <<p(k), b>>
  <2> TAKE k \in 1..K
  <2>1. ray[p(k)] \in [1..n -> Nat] /\ k \in Nat
    <3>1. \A i \in 1..K : ray[p(i)] \in [1..n -> Nat]
      BY <1>1
    <3> HIDE DEF p, n, K
    <3> QED BY <1>1, <3>1
  <2> QED BY <1>0, <1>1, <2>1, BundlesOf
<1>4. gs = IF Len(pgs) = 1 THEN Slices(InNodeOrder(pgs[1]), m)
           ELSE FlattenSeq([i \in DOMAIN pgs |-> Slices(OfOnePg(pgs[i]), m)])
  BY DEF TiedGroups
<1> HIDE DEF K, n, m, pgs, gs, p
<1>5. ASSUME NEW s \in Seq(Places), NEW k \in 1..K, Len(s) = n, \A b \in 1..n : s[b] = <<p(k), b>>
      PROVE  /\ Slices(s, m) \in Seq(Seq(Places)) /\ Len(Slices(s, m)) = q
             /\ \A j \in 1..q : /\ Slices(s, m)[j] \in Seq(Places) /\ Len(Slices(s, m)[j]) = m
                                /\ \A r \in 1..m : Slices(s, m)[j][r] = <<p(k), (j - 1) * m + r>>
  <2>1. /\ Slices(s, m) \in Seq(Seq(Places)) /\ Len(Slices(s, m)) = q
        /\ \A j \in 1..q : SliceIs(Slices(s, m)[j], s, Places, (j - 1) * m, m)
    BY <1>1, <1>5, SlicesFacts
  <2>2. ASSUME NEW j \in 1..q, NEW r \in 1..m PROVE Slices(s, m)[j][r] = <<p(k), (j - 1) * m + r>>
    <3>1. Slices(s, m)[j][r] = s[(j - 1) * m + r]
      BY <2>1 DEF SliceIs
    <3>2. (j - 1) * m + r \in 1..q * m
      BY <1>1, BlockPlace
    <3>3. q * m <= n /\ q * m \in Nat
      <4>0. n \in Nat /\ m \in Nat \ {0} /\ q \in Nat
        BY <1>1
      <4>1. n = q * m + (n % m) /\ (n % m) \in 0..m - 1
        BY <4>0, DivFacts
      <4>2. q * m \in Nat
        BY <4>0
      <4> HIDE DEF q
      <4> QED BY <4>0, <4>1, <4>2
    <3>4. (j - 1) * m + r \in 1..n
      BY <1>1, <3>2, <3>3
    <3> QED BY <1>5, <3>1, <3>4
  <2> QED BY <2>1, <2>2 DEF SliceIs
<1>6. CASE K = 1
  <2> DEFINE node == ray[p(1)]
             o == Sorted(node, 1, n)
             s == InNodeOrder(p(1))
  <2>1. node \in [1..n -> Nat] /\ 1 \in 1..K /\ Len(node) = n
    BY <1>1, <1>6
  <2>2. \A b, d \in 1..n : node[b] = node[d]
    BY <1>6 DEF K, n, p
  <2> HIDE DEF node
  <2>3. o \in [1..n -> 1..n] /\ \A i \in 1..n : o[i] = i
    <3>1. o \in [1..n -> 1..n]
      BY <1>1, <2>1, OrderFacts
    <3>2. \A i \in 1..n : o[i] = i
      <4>1. n \in Nat
        BY <1>1
      <4> QED BY <2>1, <2>2, <4>1, OrderOfOneNode
    <3> QED BY <3>1, <3>2
  <2>4. s = [j \in DOMAIN o |-> OfOnePg(p(1))[o[j]]]
    BY <2>1 DEF InNodeOrder, SelectIndices, node
  <2> HIDE DEF o, s
  <2>5. s = [j \in 1..n |-> OfOnePg(p(1))[j]]
    BY <2>3, <2>4
  <2>6. s = OfOnePg(p(1))
    <3>1. OfOnePg(p(1)) = [j \in 1..n |-> OfOnePg(p(1))[j]]
      BY <1>3, <2>1
    <3> QED BY <2>5, <3>1
  <2>7. gs = Slices(OfOnePg(p(1)), m)
    <3>1. Len(pgs) = 1 /\ pgs[1] = p(1)
      BY <1>2, <1>6
    <3> QED BY <1>4, <2>6, <3>1 DEF s
  <2>8. /\ gs \in Seq(Seq(Places)) /\ Len(gs) = q
        /\ \A j \in 1..q : /\ gs[j] \in Seq(Places) /\ Len(gs[j]) = m
                           /\ \A r \in 1..m : gs[j][r] = <<p(1), (j - 1) * m + r>>
    <3> DEFINE t == OfOnePg(p(1))
    <3>1. t \in Seq(Places) /\ Len(t) = n /\ \A b \in 1..n : t[b] = <<p(1), b>>
      BY <1>3, <2>1
    <3>2. gs = Slices(t, m) /\ 1 \in 1..K
      BY <2>1, <2>7
    <3> HIDE DEF t, q
    <3>3. /\ Slices(t, m) \in Seq(Seq(Places)) /\ Len(Slices(t, m)) = q
          /\ \A j \in 1..q : /\ Slices(t, m)[j] \in Seq(Places) /\ Len(Slices(t, m)[j]) = m
                             /\ \A r \in 1..m : Slices(t, m)[j][r] = <<p(1), (j - 1) * m + r>>
      BY <1>5, <3>1, <3>2
    <3> QED BY <3>2, <3>3
  <2> HIDE DEF q
  <2>9. K * q = q /\ \A k \in 1..K, j \in 1..q : (k - 1) * q + j = j /\ k = 1
    BY <1>1, <1>6
  <2>10. Shape(gs, K * q, m)
    BY <1>1, <2>8, <2>9 DEF Shape
  <2>11. Local(gs, "engine", K, q, m)
    <3>1. ASSUME NEW k \in 1..K, NEW j \in 1..q, NEW r \in 1..m
          PROVE  gs[(k - 1) * q + j][r] = <<<<"engine", k>>, (j - 1) * m + r>>
      <4>1. (k - 1) * q + j = j /\ k = 1
        BY <2>9
      <4> QED BY <2>8, <4>1 DEF p
    <3> QED BY <2>10, <3>1 DEF Local
  <2> QED BY <2>11 DEF K, n, m, q, gs
<1>7. CASE K # 1
  <2> DEFINE fs == [i \in 1..K |-> Slices(OfOnePg(p(i)), m)]
  <2>1. gs = FlattenSeq(fs) /\ Len(fs) = K
    <3>1. Len(pgs) # 1 /\ [i \in DOMAIN pgs |-> Slices(OfOnePg(pgs[i]), m)] = fs
      BY <1>2, <1>7
    <3> QED BY <1>1, <1>4, <3>1
  <2>2. \A k \in 1..K :
          /\ fs[k] \in Seq(Seq(Places)) /\ Len(fs[k]) = q
          /\ \A j \in 1..q : /\ fs[k][j] \in Seq(Places) /\ Len(fs[k][j]) = m
                             /\ \A r \in 1..m : fs[k][j][r] = <<p(k), (j - 1) * m + r>>
    <3> TAKE k \in 1..K
    <3> DEFINE s == OfOnePg(p(k))
    <3>1. fs[k] = Slices(s, m)
      OBVIOUS
    <3>2. s \in Seq(Places) /\ Len(s) = n /\ \A b \in 1..n : s[b] = <<p(k), b>>
      BY <1>3
    <3> HIDE DEF fs, q, s
    <3>3. /\ Slices(s, m) \in Seq(Seq(Places)) /\ Len(Slices(s, m)) = q
          /\ \A j \in 1..q : /\ Slices(s, m)[j] \in Seq(Places) /\ Len(Slices(s, m)[j]) = m
                             /\ \A r \in 1..m : Slices(s, m)[j][r] = <<p(k), (j - 1) * m + r>>
      BY <1>5, <3>2
    <3> QED BY <3>1, <3>3
  <2> HIDE DEF fs, q
  <2>3. Blocks(Seq(Places), gs, fs, K, q)
    BY <1>1, <2>1, <2>2, FlattenBlocks
  <2>4. /\ gs \in Seq(Seq(Places)) /\ Len(gs) = K * q /\ K * q \in Nat
        /\ \A k \in 1..K, j \in 1..q : gs[(k - 1) * q + j] = fs[k][j]
    BY <1>1, <2>3 DEF Blocks
  <2>5. ASSUME NEW i \in 1..K * q PROVE gs[i] \in Seq(Places) /\ Len(gs[i]) = m
    <3>0. K \in Nat /\ q \in Nat /\ i \in 1..K * q
      BY <1>1
    <3>1. PICK k \in 1..K, j \in 1..q : i = (k - 1) * q + j
      BY <3>0, PlaceBlock
    <3>2. gs[i] = fs[k][j]
      BY <2>4, <3>1
    <3>3. fs[k][j] \in Seq(Places) /\ Len(fs[k][j]) = m
      BY <2>2
    <3> QED BY <3>2, <3>3
  <2>6. Shape(gs, K * q, m)
    BY <1>1, <2>4, <2>5 DEF Shape
  <2>7. Local(gs, "engine", K, q, m)
    <3>1. ASSUME NEW k \in 1..K, NEW j \in 1..q, NEW r \in 1..m
          PROVE  gs[(k - 1) * q + j][r] = <<<<"engine", k>>, (j - 1) * m + r>>
      <4>1. gs[(k - 1) * q + j] = fs[k][j]
        BY <2>4
      <4> QED BY <2>2, <4>1 DEF p
    <3> QED BY <2>6, <3>1 DEF Local
  <2> QED BY <2>7 DEF K, n, m, q, gs
<1> QED BY <1>6, <1>7

\* gs is n replicas of m bundles of one group, in the order o.
Tied(gs, o, n, m) ==
  /\ Shape(gs, n, m)
  /\ \A j \in 1..n, r \in 1..m : gs[j][r] = <<<<"engine", 1>>, o[(j - 1) * m + r]>>

\* Tied workers over one group: slices of its bundles by node
\* (vllm.py:1361-1431).
LEMMA UnifiedFacts ==
  ASSUME Settled("engine"), PgCount("engine") = 1, setup.mp \in Nat \ {0},
         ClusterOf("engine") = "engine"
  PROVE  Tied(TiedGroups("engine"), Sorted(ray[<<"engine", 1>>], 1, PgSize("engine")),
                 PgSize("engine") \div setup.mp, setup.mp)
<1> DEFINE n == PgSize("engine")
           m == setup.mp
           q == n \div m
           p == <<"engine", 1>>
           node == ray[p]
           o == Sorted(node, 1, n)
           all == OfOnePg(p)
           s == InNodeOrder(p)
           gs == TiedGroups("engine")
<1>1. n \in Nat /\ m \in Nat \ {0} /\ node \in [1..n -> Nat] /\ Len(node) = n
  BY DEF Settled
<1>2. held["engine"] = <<p>>
  BY DEF Settled, PgIds
<1>3. gs = Slices(s, m)
  BY <1>2 DEF TiedGroups
<1>4. /\ all \in Seq(Places) /\ Len(all) = n /\ \A b \in 1..n : all[b] = <<p, b>>
  <2>1. "engine" \in Sides /\ 1 \in Nat
    BY DEF Sides
  <2>2. n \in Nat /\ ray[<<"engine", 1>>] \in [1..n -> Nat]
    BY <1>1
  <2> HIDE DEF n
  <2> QED BY <2>1, <2>2, BundlesOf, ZenonT(60)
<1>5. s = [j \in DOMAIN o |-> all[o[j]]]
  BY <1>1 DEF InNodeOrder, SelectIndices
<1> HIDE DEF n, m, p, node, all, s, gs
<1>6. o \in [1..n -> 1..n]
  BY <1>1, OrderFacts
<1> HIDE DEF o
<1>7. s = [j \in 1..n |-> <<p, o[j]>>]
  BY <1>4, <1>5, <1>6
<1>8. s \in Seq(Places) /\ Len(s) = n
  <2>1. s \in [1..n -> Places]
    <3>1. \A j \in 1..n : <<p, o[j]>> \in Places
      BY <1>4, <1>6 DEF Places, Sides, p
    <3> QED BY <1>7, <3>1
  <2> QED BY <1>1, <2>1, MapLists
<1>9. /\ gs \in Seq(Seq(Places)) /\ Len(gs) = q
      /\ \A j \in 1..q : SliceIs(gs[j], s, Places, (j - 1) * m, m)
  BY <1>1, <1>3, <1>8, SlicesFacts
<1>10. n \in Nat /\ m \in Nat \ {0}
  BY <1>1
<1>11. q \in Nat /\ q * m <= n /\ q * m \in Nat
  <2>1. n = q * m + (n % m) /\ (n % m) \in 0..m - 1 /\ q \in Nat
    BY <1>10, DivFacts
  <2> HIDE DEF q
  <2>2. q * m \in Nat
    BY <1>10, <2>1
  <2> QED BY <1>10, <2>1, <2>2
<1> HIDE DEF q
<1>12. Shape(gs, q, m)
  BY <1>9, <1>10, <1>11 DEF Shape, SliceIs
<1>13. ASSUME NEW j \in 1..q, NEW r \in 1..m PROVE gs[j][r] = <<p, o[(j - 1) * m + r]>>
  <2>1. (j - 1) * m + r \in 1..q * m
    BY <1>10, <1>11, BlockPlace
  <2>2. (j - 1) * m + r \in 1..n
    BY <1>10, <1>11, <2>1
  <2>3. gs[j][r] = s[(j - 1) * m + r]
    BY <1>9 DEF SliceIs
  <2> QED BY <1>7, <2>2, <2>3
<1>14. Tied(gs, o, q, m)
  BY <1>12, <1>13 DEF Tied, p
<1> QED BY <1>14 DEF o, n, m, q, gs, node, p

\* Replicas of consecutive bundles share none.
LEMMA LocalApart ==
  ASSUME NEW c, NEW K \in Nat, NEW q \in Nat, NEW m \in Nat, NEW gs, Local(gs, c, K, q, m)
  PROVE  Apart(gs, K * q, m)
<1> SUFFICES ASSUME NEW i \in 1..K * q, NEW j \in 1..K * q, NEW r \in 1..m, NEW t \in 1..m,
                    gs[i][r] = gs[j][t]
             PROVE  i = j /\ r = t
  BY DEF Apart
<1>1. PICK k \in 1..K, a \in 1..q : i = (k - 1) * q + a
  BY PlaceBlock
<1>2. PICK l \in 1..K, b \in 1..q : j = (l - 1) * q + b
  BY PlaceBlock
<1>3. <<<<c, k>>, (a - 1) * m + r>> = <<<<c, l>>, (b - 1) * m + t>>
  <2>1. gs[(k - 1) * q + a][r] = <<<<c, k>>, (a - 1) * m + r>>
    BY DEF Local
  <2>2. gs[(l - 1) * q + b][t] = <<<<c, l>>, (b - 1) * m + t>>
    BY DEF Local
  <2> QED BY <1>1, <1>2, <2>1, <2>2
<1>4. k = l /\ (a - 1) * m + r = (b - 1) * m + t
  BY <1>3
<1>5. a - 1 \in Nat /\ b - 1 \in Nat /\ r - 1 \in 0..m - 1 /\ t - 1 \in 0..m - 1 /\ m \in Nat \ {0}
  OBVIOUS
<1>6. (a - 1) * m \in Nat /\ (b - 1) * m \in Nat
  BY <1>5
<1>7. (a - 1) * m + (r - 1) = (b - 1) * m + (t - 1)
  BY <1>4, <1>6
<1>8. a - 1 = b - 1 /\ r - 1 = t - 1
  BY <1>5, <1>7, BlockUnique
<1> QED BY <1>1, <1>2, <1>4, <1>8

\* Neither do slices of an order of the bundles.
LEMMA TiedApart ==
  ASSUME NEW n \in Nat, NEW m \in Nat, NEW N \in Nat, n * m <= N, NEW gs, NEW o, Tied(gs, o, n, m),
         \A i, j \in 1..N : o[i] = o[j] => i = j
  PROVE  Apart(gs, n, m)
<1> SUFFICES ASSUME NEW i \in 1..n, NEW j \in 1..n, NEW r \in 1..m, NEW t \in 1..m,
                    gs[i][r] = gs[j][t]
             PROVE  i = j /\ r = t
  BY DEF Apart
<1>1. o[(i - 1) * m + r] = o[(j - 1) * m + t]
  BY DEF Tied
<1>2. (i - 1) * m + r \in 1..n * m /\ (j - 1) * m + t \in 1..n * m /\ n * m \in Nat
  BY BlockPlace
<1>3. (i - 1) * m + r = (j - 1) * m + t
  BY <1>1, <1>2
<1>5. i - 1 \in Nat /\ j - 1 \in Nat /\ r - 1 \in 0..m - 1 /\ t - 1 \in 0..m - 1 /\ m \in Nat \ {0}
  OBVIOUS
<1>6. (i - 1) * m \in Nat /\ (j - 1) * m \in Nat
  BY <1>5
<1>7. (i - 1) * m + (r - 1) = (j - 1) * m + (t - 1)
  BY <1>3, <1>6
<1>8. i - 1 = j - 1 /\ r - 1 = t - 1
  BY <1>5, <1>7, BlockUnique
<1> QED BY <1>8

-----------------------------------------------------------------------------
(***************************************************************************)
(* What an accepted set-up decides: sizes and numbers of groups.           *)
(***************************************************************************)

\* What configurations can be, and what the accepted ones have.
LEMMA SetupTypes ==
  ASSUME setup \in Setups
  PROVE  /\ setup.nodes \in Nat \ {0} /\ setup.gpus \in Nat \ {0} /\ setup.mp \in Nat \ {0}
         /\ setup.inference \in Nat /\ setup.colocated \in BOOLEAN
         /\ setup.gpus <= 1024
         /\ setup.mp > setup.gpus =>
              Larger(setup.nodes, setup.inference) * setup.gpus <= 1024 * setup.mp
BY SetupAssumption, SeedAssumption

\* The sizes of the engine's cluster in an accepted set-up.
LEMMA SetupSizes ==
  ASSUME setup \in Setups, Valid
  PROVE  /\ ClusterOf("engine") = "engine"
         /\ GpusPerNode("engine") \in Nat \ {0} /\ NodeCount("engine") \in Nat \ {0}
         /\ GpusPerNode("engine") <= setup.gpus
         /\ Shared => NodeCount("engine") = 1
         /\ ~Shared => GpusPerNode("engine") = setup.gpus
         /\ NodeCount("engine") <= Larger(setup.nodes, setup.inference)
         /\ World("engine") \in Nat \ {0} /\ World("engine") % setup.mp = 0
         /\ ~setup.colocated => GpusPerNode("train") \in Nat \ {0} /\ NodeCount("train") \in Nat
<1>1. /\ setup.nodes \in Nat \ {0} /\ setup.gpus \in Nat \ {0} /\ setup.mp \in Nat \ {0}
      /\ setup.inference \in Nat /\ setup.colocated \in BOOLEAN
  BY SetupTypes
<1>2. ClusterOf("engine") = "engine"
  BY DEF ClusterOf
<1>3. /\ GpusPerNode("engine") \in Nat \ {0} /\ GpusPerNode("engine") <= setup.gpus
      /\ ~Shared => GpusPerNode("engine") = setup.gpus
  <2>1. CASE Shared
    <3>1. GpusPerNode("engine") = setup.inference
      BY <2>1 DEF GpusPerNode
    <3>2. setup.inference > 0 /\ setup.gpus > setup.inference
      BY <2>1 DEF Shared, Valid
    <3> QED BY <1>1, <2>1, <3>1, <3>2
  <2>2. CASE ~Shared
    <3>1. GpusPerNode("engine") = setup.gpus
      BY <2>2 DEF GpusPerNode
    <3> QED BY <1>1, <3>1
  <2> QED BY <2>1, <2>2
<1>4. /\ NodeCount("engine") \in Nat \ {0}
      /\ Shared => NodeCount("engine") = 1
      /\ NodeCount("engine") <= Larger(setup.nodes, setup.inference)
  <2>1. CASE setup.colocated \/ Shared
    <3>1. NodeCount("engine") = setup.nodes
      BY <2>1 DEF NodeCount
    <3>2. Shared => setup.nodes = 1
      BY DEF Shared
    <3> QED BY <1>1, <3>1, <3>2 DEF Larger
  <2>2. CASE ~(setup.colocated \/ Shared)
    <3>1. NodeCount("engine") = setup.inference
      BY <2>2 DEF NodeCount
    <3>2. setup.inference > 0 /\ ~Shared
      BY <2>2 DEF Valid
    <3> QED BY <1>1, <3>1, <3>2 DEF Larger
  <2> QED BY <2>1, <2>2
<1>5. World("engine") \in Nat \ {0}
  <2> DEFINE a == NodeCount("engine")
             b == GpusPerNode("engine")
  <2>1. a \in Nat \ {0} /\ b \in Nat \ {0}
    BY <1>3, <1>4
  <2> HIDE DEF a, b
  <2>2. a * b \in Nat /\ a * b # 0
    BY <2>1
  <2> QED BY <2>2 DEF World, a, b
<1>6. World("engine") % setup.mp = 0
  BY <1>2 DEF Valid
<1>7. ~setup.colocated => GpusPerNode("train") \in Nat \ {0} /\ NodeCount("train") \in Nat
  <2> SUFFICES ASSUME ~setup.colocated PROVE GpusPerNode("train") \in Nat \ {0} /\ NodeCount("train") \in Nat
    OBVIOUS
  <2>1. GpusPerNode("train") \in Nat \ {0}
    BY <1>1 DEF GpusPerNode, Shared, Valid
  <2>2. NodeCount("train") \in Nat
    BY <1>1 DEF NodeCount, Shared, Larger
  <2> QED BY <2>1, <2>2
<1> QED BY <1>2, <1>3, <1>4, <1>5, <1>6, <1>7

\* A replica is larger than a node only where the nodes are whole ones.
LEMMA UnifiedSizes ==
  ASSUME setup \in Setups, Valid, Unified("engine")
  PROVE  /\ PgCount("engine") = 1 /\ PgSize("engine") = World("engine")
         /\ GpusPerNode("engine") = setup.gpus /\ setup.gpus < setup.mp
         /\ World("engine") <= 1024 * setup.mp
<1>1. /\ setup.mp \in Nat \ {0} /\ setup.gpus \in Nat \ {0} /\ setup.mp > GpusPerNode("engine")
      /\ setup.nodes \in Nat \ {0} /\ setup.inference \in Nat
  BY SetupTypes DEF Unified
<1>2. ~Shared
  <2> SUFFICES ASSUME Shared PROVE FALSE
    OBVIOUS
  <2>1. NodeCount("engine") = 1 /\ GpusPerNode("engine") \in Nat \ {0}
    BY SetupSizes
  <2>2. World("engine") = GpusPerNode("engine")
    BY <2>1 DEF World
  <2> DEFINE a == World("engine")
             m == setup.mp
  <2>3. a \in Nat /\ a # 0 /\ a < m /\ m \in Nat \ {0} /\ a % m = 0
    BY <1>1, <2>1, <2>2, SetupSizes
  <2> HIDE DEF a, m
  <2>4. (0 * m + a) % m = a
    <3>1. a \in 0..m - 1 /\ 0 \in Nat
      BY <2>3
    <3> QED BY <2>3, <3>1, DivBlock
  <2>5. 0 * m + a = a
    BY <2>3
  <2> QED BY <2>3, <2>4, <2>5
<1>3. GpusPerNode("engine") = setup.gpus
  BY <1>2, SetupSizes
<1>4. setup.gpus < setup.mp
  BY <1>1, <1>3
<1>5. World("engine") <= 1024 * setup.mp
  <2> DEFINE a == NodeCount("engine")
             l == Larger(setup.nodes, setup.inference)
             g == setup.gpus
  <2>1. a \in Nat /\ l \in Nat /\ a <= l /\ g \in Nat
    BY <1>1, SetupSizes DEF Larger
  <2>2. l * g <= 1024 * setup.mp
    BY <1>4, <1>1, SetupTypes
  <2>3. World("engine") = a * g
    BY <1>3 DEF World
  <2> HIDE DEF a, l, g
  <2>4. a * g <= l * g /\ a * g \in Nat /\ l * g \in Nat /\ 1024 * setup.mp \in Nat
    BY <1>1, <2>1, MulMono
  <2> QED BY <2>2, <2>3, <2>4
<1> QED BY <1>3, <1>4, <1>5 DEF PgCount, PgSize

\* The number and the size of its groups.
LEMMA PgSizes ==
  ASSUME setup \in Setups, Valid
  PROVE  /\ PgCount("engine") \in Nat \ {0} /\ PgSize("engine") \in Nat \ {0}
         /\ ~Unified("engine") => /\ PgCount("engine") = NodeCount("engine")
                                  /\ PgSize("engine") = GpusPerNode("engine")
                                  /\ setup.mp <= GpusPerNode("engine")
         /\ ~setup.colocated => PgCount("train") \in Nat /\ PgSize("train") \in Nat \ {0}
<1>1. ~Unified("train")
  BY DEF Unified
<1>2. ~Unified("engine") => setup.mp <= GpusPerNode("engine")
  <2>1. setup.mp \in Nat /\ GpusPerNode("engine") \in Nat
    BY SetupTypes, SetupSizes
  <2> QED BY <2>1 DEF Unified
<1> QED BY <1>1, <1>2, SetupSizes DEF PgCount, PgSize

-----------------------------------------------------------------------------
(***************************************************************************)
(* The replicas made are laid out on groups that Ray has placed.           *)
(***************************************************************************)

\* Ray has placed the engine's groups: the replicas of a unified group over
\* nodes of which none has more bundles than GPUs, any other on one node.
Seats ==
  /\ Settled("engine")
  /\ IF Unified("engine")
     THEN \A n \in Nat :
            Cardinality({b \in 1..World("engine") : ray[<<"engine", 1>>][b] = n}) <= setup.gpus
     ELSE \A k \in 1..PgCount("engine") : \A b, d \in 1..PgSize("engine") :
            ray[<<"engine", k>>][b] = ray[<<"engine", k>>][d]

\* o orders all bundles of the engine, each once.
Orders(o) ==
  /\ o \in [1..World("engine") -> 1..World("engine")]
  /\ \A i, j \in 1..World("engine") : o[i] = o[j] => i = j

\* The engine's replicas are slices of the order of the bundles.
Laid ==
  LET gs == groups["engine"] IN
  gs # << >> =>
    IF Unified("engine")
    THEN \E o : /\ Orders(o)
                /\ Tied(gs, o, World("engine") \div setup.mp, setup.mp)
                /\ listed["engine"] => o = Sorted(ray[<<"engine", 1>>], 1, World("engine"))
    ELSE Local(gs, "engine", PgCount("engine"), PgSize("engine") \div setup.mp, setup.mp)

\* What is in the end known of the engine's replicas.
Whole(gs) ==
  \E n \in Nat :
    /\ Shape(gs, n, setup.mp) /\ Apart(gs, n, setup.mp)
    /\ n * setup.mp <= World("engine")
    /\ Evenly => n * setup.mp = World("engine")

\* Products may be regrouped.
LEMMA MulAssoc == ASSUME NEW a \in Nat, NEW b \in Nat, NEW c \in Nat PROVE (a * b) * c = a * (b * c)
OBVIOUS

\* Products may be swapped.
LEMMA MulCommutes == ASSUME NEW a \in Nat, NEW b \in Nat PROVE a * b = b * a /\ a * b \in Nat
OBVIOUS

\* Whole replicas fit the bundles, exactly if none is left over.
LEMMA FloorFits ==
  ASSUME NEW a \in Nat, NEW m \in Nat \ {0}
  PROVE  /\ a \div m \in Nat /\ (a \div m) * m \in Nat /\ (a \div m) * m <= a
         /\ a % m = 0 => (a \div m) * m = a
<1> DEFINE q == a \div m
           r == a % m
<1>1. q \in Nat /\ r \in 0..m - 1 /\ a = q * m + r
  BY DivFacts
<1> HIDE DEF q, r
<1>2. q * m \in Nat
  BY <1>1
<1>3. q \in Nat /\ q * m \in Nat /\ q * m <= a /\ (r = 0 => q * m = a)
  BY <1>1, <1>2
<1> QED BY <1>3 DEF q, r

\* Laid out so, replicas are complete, share no bundle and leave
\* fewer bundles than a replica.
LEMMA LaidWhole ==
  ASSUME setup \in Setups, Valid, Laid, groups["engine"] # << >>
  PROVE  Whole(groups["engine"])
<1> DEFINE gs == groups["engine"]
           m == setup.mp
           W == World("engine")
<1>1. m \in Nat \ {0} /\ W \in Nat \ {0} /\ W % m = 0
  BY SetupTypes, SetupSizes
<1>2. CASE Unified("engine")
  <2>1. PICK o : Orders(o) /\ Tied(gs, o, W \div m, m)
    BY <1>2 DEF Laid
  <2> DEFINE n == W \div m
  <2>2. n \in Nat /\ n * m = W /\ n * m <= W
    BY <1>1, FloorFits
  <2>3. Shape(gs, n, m)
    BY <2>1 DEF Tied
  <2>4. Apart(gs, n, m)
    <3>1. \A i, j \in 1..W : o[i] = o[j] => i = j
      BY <2>1 DEF Orders
    <3>2. Tied(gs, o, n, m)
      BY <2>1
    <3> HIDE DEF n, m, gs, W
    <3> QED BY <1>1, <2>2, <3>1, <3>2, TiedApart
  <2> HIDE DEF n
  <2> QED BY <2>2, <2>3, <2>4 DEF Whole
<1>3. CASE ~Unified("engine")
  <2> DEFINE K == PgCount("engine")
             g == PgSize("engine")
             q == g \div m
  <2>1. Local(gs, "engine", K, q, m)
    BY <1>3 DEF Laid
  <2>2. /\ K \in Nat /\ g \in Nat /\ W = K * g
        /\ Evenly => g % m = 0
    <3>1. K = NodeCount("engine") /\ g = GpusPerNode("engine") /\ K \in Nat /\ g \in Nat
      BY <1>3, PgSizes
    <3>2. Evenly => GpusPerNode("engine") % m = 0
      BY <1>3, SetupSizes DEF Evenly
    <3> QED BY <3>1, <3>2 DEF World
  <2> HIDE DEF K, g, gs, W, m
  <2>3. q \in Nat /\ q * m \in Nat /\ q * m <= g /\ (g % m = 0 => q * m = g)
    BY <1>1, <2>2, FloorFits
  <2> HIDE DEF q
  <2>4. (K * q) * m = K * (q * m) /\ K * q \in Nat
    BY <1>1, <2>2, <2>3, MulAssoc
  <2>5. K * (q * m) <= K * g
    <3>1. (q * m) * K <= g * K
      BY <2>2, <2>3, MulMono
    <3> QED BY <2>2, <2>3, <3>1, MulCommutes
  <2>6. Shape(gs, K * q, m) /\ Apart(gs, K * q, m)
    <3>1. m \in Nat /\ K \in Nat /\ q \in Nat
      BY <1>1, <2>2, <2>3
    <3>2. Local(gs, "engine", K, q, m)
      BY <2>1 DEF q
    <3>3. Apart(gs, K * q, m)
      BY <3>1, <3>2, LocalApart
    <3> QED BY <3>2, <3>3 DEF Local
  <2>7. (K * q) * m <= W /\ (Evenly => (K * q) * m = W)
    BY <2>2, <2>3, <2>4, <2>5
  <2> QED BY <2>4, <2>6, <2>7 DEF Whole, gs, m, W
<1> QED BY <1>2, <1>3

\* The groups the engine's workers are made in.
LEMMA GroupsLaid ==
  ASSUME setup \in Setups, Valid, Seats
  PROVE  LET gs == GroupsOf("engine") IN
         IF Unified("engine")
         THEN LET o == Sorted(ray[<<"engine", 1>>], 1, World("engine"))
              IN Orders(o) /\ Tied(gs, o, World("engine") \div setup.mp, setup.mp)
         ELSE Local(gs, "engine", PgCount("engine"), PgSize("engine") \div setup.mp, setup.mp)
<1>1. /\ ClusterOf("engine") = "engine" /\ setup.mp \in Nat \ {0} /\ "engine" \in Sides
      /\ Settled("engine")
  BY SetupSizes, SetupTypes DEF Seats, Sides
<1>2. CASE Unified("engine")
  <2>1. /\ PgCount("engine") = 1 /\ PgSize("engine") = World("engine")
        /\ GpusPerNode("engine") = setup.gpus /\ setup.gpus < setup.mp /\ setup.gpus \in Nat \ {0}
    BY <1>2, UnifiedSizes, SetupTypes
  <2>2. GroupsOf("engine") = TiedGroups("engine")
    BY <1>1, <2>1 DEF GroupsOf
  <2> DEFINE o == Sorted(ray[<<"engine", 1>>], 1, World("engine"))
             n == World("engine")
  <2>3. Orders(o)
    <3>1. n \in Nat /\ 1 \in 1..PgCount("engine")
      BY <2>1, SetupSizes
    <3>2. ray[<<"engine", 1>>] \in [1..n -> Nat]
      BY <1>1, <2>1, <3>1 DEF Settled
    <3>3. o \in [1..n -> 1..n] /\ \A i, j \in 1..n : o[i] = o[j] => i = j
      BY <3>1, <3>2, OrderFacts
    <3> QED BY <3>3 DEF Orders
  <2>4. Tied(GroupsOf("engine"), o, n \div setup.mp, setup.mp)
    BY <1>1, <2>1, <2>2, UnifiedFacts
  <2> QED BY <1>2, <2>3, <2>4
<1>3. CASE ~Unified("engine")
  <2>1. PgSize("engine") \in Nat /\ PgCount("engine") \in Nat \ {0}
    BY PgSizes
  <2>2. CASE setup.mp = 1
    <3>1. Local(PlainGroups("engine"), "engine", PgCount("engine"), PgSize("engine"), 1)
      BY <1>1, PlainFacts
    <3>2. PgSize("engine") \div 1 = PgSize("engine")
      BY <2>1, DivByOne
    <3>3. GroupsOf("engine") = PlainGroups("engine")
      BY <2>2 DEF GroupsOf
    <3> QED BY <1>3, <2>2, <3>1, <3>2, <3>3
  <2>3. CASE setup.mp # 1
    <3>1. GroupsOf("engine") = TiedGroups("engine")
      BY <1>1, <2>3 DEF GroupsOf
    <3>2. PgCount("engine") = 1 =>
            \A b, d \in 1..PgSize("engine") : ray[<<"engine", 1>>][b] = ray[<<"engine", 1>>][d]
      BY <1>3 DEF Seats
    <3>3. Local(TiedGroups("engine"), "engine", PgCount("engine"),
               PgSize("engine") \div setup.mp, setup.mp)
      BY <1>1, <1>3, <3>2, TiedFacts
    <3> QED BY <1>3, <3>1, <3>3
  <2> QED BY <2>2, <2>3
<1> QED BY <1>2, <1>3

-----------------------------------------------------------------------------
(***************************************************************************)
(* Different replicas have different seeds.                                *)
(***************************************************************************)

\* The nodes of R before x.
Below(R, x) == {n \in R : n < x}

\* The place of a node among those of a group tells nodes apart.
LEMMA IndexDiffers ==
  ASSUME NEW R, R \subseteq Nat, IsFiniteSet(R), NEW x \in R, NEW y \in R,
         Cardinality(Below(R, x)) = Cardinality(Below(R, y))
  PROVE  x = y
<1>1. ASSUME NEW u \in R, NEW v \in R, u < v
      PROVE  Cardinality({n \in R : n < u}) # Cardinality({n \in R : n < v})
  <2> DEFINE U == {n \in R : n < u}
             V == {n \in R : n < v}
  <2>1. U \subseteq V
    <3>1. SUFFICES ASSUME NEW n \in R, n < u PROVE n < v
      OBVIOUS
    <3>2. n \in Nat /\ u \in Nat /\ v \in Nat
      OBVIOUS
    <3> QED BY <1>1, <3>1, <3>2
  <2>2. u \in V /\ u \notin U
    <3>1. u \in Nat
      OBVIOUS
    <3> QED BY <1>1, <3>1
  <2>3. IsFiniteSet(V)
    <3>1. V \subseteq R
      OBVIOUS
    <3> QED BY <3>1, FS_Subset
  <2> HIDE DEF U, V
  <2>4. Cardinality(U) # Cardinality(V)
    BY <2>1, <2>2, <2>3, FS_Subset
  <2> QED BY <2>4 DEF U, V
<1>2. x \in Nat /\ y \in Nat
  OBVIOUS
<1>3. ~(x < y)
  BY <1>1 DEF Below
<1>4. ~(y < x)
  BY <1>1 DEF Below
<1> QED BY <1>2, <1>3, <1>4

\* The nodes of a group are finitely many numbers.
LEMMA BundleNodes ==
  ASSUME NEW n \in Nat, NEW f \in [1..n -> Nat]
  PROVE  Range(f) \subseteq Nat /\ IsFiniteSet(Range(f)) /\ \A b \in 1..n : f[b] \in Range(f)
<1>1. Range(f) = {f[b] : b \in 1..n}
  BY DEF Range
<1>2. f \in Surjection(1..n, Range(f))
  BY <1>1 DEF Surjection
<1>3. IsFiniteSet(1..n)
  BY FS_Interval
<1>4. IsFiniteSet(Range(f))
  BY <1>2, <1>3, FS_Surjection
<1> QED BY <1>1, <1>4

\* Replicas of groups of one node have different seeds.
LEMMA SeedsLocal ==
  ASSUME setup \in Setups, Valid, Laid, Seats, groups["engine"] # << >>, ~Unified("engine")
  PROVE  LET gs == groups["engine"]
         IN \A i, j \in 1..Len(gs) : Seed("engine", gs[i]) = Seed("engine", gs[j]) => i = j
<1> DEFINE gs == groups["engine"]
           K == PgCount("engine")
           g == PgSize("engine")
           m == setup.mp
           q == g \div m
<1>1. /\ m \in Nat \ {0} /\ K \in Nat \ {0} /\ g \in Nat \ {0} /\ g <= 1024
      /\ ClusterOf("engine") = "engine"
  <2>1. setup.gpus <= 1024 /\ GpusPerNode("engine") <= setup.gpus /\ setup.gpus \in Nat
    BY SetupTypes, SetupSizes
  <2> QED BY <2>1, SetupTypes, SetupSizes, PgSizes
<1>2. Local(gs, "engine", K, q, m)
  BY DEF Laid
<1>3. /\ Len(held["engine"]) = K
      /\ \A k \in 1..K : ray[<<"engine", k>>] \in [1..g -> Nat]
      /\ \A k \in 1..K : \A b, d \in 1..g : ray[<<"engine", k>>][b] = ray[<<"engine", k>>][d]
  <2>1. held["engine"] = PgIds("engine")
    BY DEF Seats, Settled
  <2>2. PgIds("engine") = [i \in 1..K |-> <<"engine", i>>]
    BY DEF PgIds
  <2>3. Len([i \in 1..K |-> <<"engine", i>>]) = K
    BY <1>1
  <2>4. \A k \in 1..K : ray[<<"engine", k>>] \in [1..g -> Nat]
    BY DEF Seats, Settled
  <2>5. \A k \in 1..K : \A b, d \in 1..g : ray[<<"engine", k>>][b] = ray[<<"engine", k>>][d]
    BY DEF Seats
  <2> QED BY <2>1, <2>2, <2>3, <2>4, <2>5
<1> HIDE DEF gs, K, g, m
<1>4. q \in Nat /\ q * m \in Nat /\ q * m <= g
  BY <1>1, FloorFits
<1> HIDE DEF q
<1>5. ASSUME NEW k \in 1..K, NEW j \in 1..q
      PROVE  Seed("engine", gs[(k - 1) * q + j]) = (k - 1) * 1024 + (j - 1)
  <2> DEFINE r == gs[(k - 1) * q + j]
  <2>1. (k - 1) * q + j \in 1..K * q
    BY <1>1, <1>4, BlockPlace
  <2>2. Len(r) = m
    BY <1>2, <2>1 DEF Local, Shape
  <2>3. r[1] = <<<<"engine", k>>, (j - 1) * m + 1>>
    <3>1. 1 \in 1..m
      BY <1>1
    <3> QED BY <1>2, <3>1 DEF Local
  <2> HIDE DEF r
  <2>4. ((j - 1) * m + 1 - 1) \div m = j - 1
    <3>1. j - 1 \in Nat /\ (j - 1) * m \in Nat /\ 0 \in 0..m - 1
      BY <1>1
    <3>2. ((j - 1) * m + 0) \div m = j - 1
      BY <1>1, <3>1, DivBlock
    <3>3. (j - 1) * m + 1 - 1 = (j - 1) * m + 0
      BY <3>1
    <3> QED BY <3>2, <3>3
  <2>5. NodeIndex("engine", r) = k - 1
    <3>1. CASE Len(r) > 1 /\ Len(held["engine"]) = 1
      <4> DEFINE f == ray[<<"engine", k>>]
                 b == (j - 1) * m + 1
                 R == Range(f)
      <4>1. NodeIndex("engine", r) = Cardinality({n \in R : n < f[b]})
        BY <1>1, <2>3, <3>1 DEF NodeIndex
      <4>2. k = 1
        BY <1>1, <1>3, <3>1
      <4>3. b \in 1..g
        <5>1. 1 \in 1..m
          BY <1>1
        <5>2. (j - 1) * m + 1 \in 1..q * m
          BY <1>1, <1>4, <5>1, BlockPlace
        <5> QED BY <1>1, <1>4, <5>2
      <4>4. f \in [1..g -> Nat] /\ \A c, d \in 1..g : f[c] = f[d]
        BY <1>3
      <4> HIDE DEF f, b
      <4>5. {n \in R : n < f[b]} = {}
        <5> SUFFICES ASSUME NEW c \in 1..g PROVE ~(f[c] < f[b])
          BY <4>4 DEF Range
        <5>1. f[c] = f[b] /\ f[b] \in Nat
          BY <4>3, <4>4
        <5> QED BY <5>1
      <4>6. Cardinality({n \in R : n < f[b]}) = 0
        BY <4>5, FS_EmptySet
      <4> QED BY <4>1, <4>2, <4>6
    <3>2. CASE ~(Len(r) > 1 /\ Len(held["engine"]) = 1)
      BY <1>1, <2>3, <3>2 DEF NodeIndex
    <3> QED BY <3>1, <3>2
  <2>6. Seed("engine", r) = 1024 * (k - 1) + (j - 1)
    BY <2>2, <2>3, <2>4, <2>5 DEF Seed
  <2> QED BY <2>6 DEF r
<1>6. SUFFICES ASSUME NEW i \in 1..Len(gs), NEW j \in 1..Len(gs),
                      Seed("engine", gs[i]) = Seed("engine", gs[j])
               PROVE  i = j
  BY DEF gs
<1>7. Len(gs) = K * q
  BY <1>2 DEF Local, Shape
<1> HIDE DEF gs
<1>12. i \in 1..K * q /\ j \in 1..K * q /\ K \in Nat
  BY <1>1, <1>6, <1>7
<1>8. PICK k \in 1..K, a \in 1..q : i = (k - 1) * q + a
  BY <1>4, <1>12, PlaceBlock
<1>9. PICK l \in 1..K, b \in 1..q : j = (l - 1) * q + b
  BY <1>4, <1>12, PlaceBlock
<1>10. (k - 1) * 1024 + (a - 1) = (l - 1) * 1024 + (b - 1)
  BY <1>5, <1>6, <1>8, <1>9
<1>11. q <= 1024
  <2>1. q <= q * m
    <3>1. 1 * q <= m * q
      BY <1>1, <1>4, MulMono
    <3> QED BY <1>1, <1>4, <3>1, MulCommutes
  <2> QED BY <1>1, <1>4, <2>1
<1>13. k = l /\ a = b
  BY <1>1, <1>4, <1>10, <1>11
<1> QED BY <1>8, <1>9, <1>13

\* The seed of a part of a node.
Parts == 0..1023
SeedOf(node, part) == 1024 * node + part

\* The part of a seed that comes from a bundle is below 1024.
LEMMA SeedPart ==
  ASSUME NEW m \in Nat \ {0}, NEW W \in Nat, W <= 1024 * m, NEW b \in 1..W
  PROVE  (b - 1) \div m \in Parts
<1> DEFINE c == b - 1
           d == c \div m
           e == c % m
<1>1. c \in Nat /\ c < 1024 * m /\ 1024 * m \in Nat
  OBVIOUS
<1> HIDE DEF c
<1>2. d \in Nat /\ e \in 0..m - 1 /\ c = d * m + e
  BY <1>1, DivFacts
<1> HIDE DEF d, e
<1>3. ASSUME d >= 1024 PROVE FALSE
  <2>1. 1024 * m <= d * m
    BY <1>2, <1>3, MulMono
  <2>2. d * m \in Nat
    BY <1>2
  <2> QED BY <1>1, <1>2, <2>1, <2>2
<1>4. d \in 0..1023
  BY <1>2, <1>3
<1> QED BY <1>4 DEF Parts, d, c

\* Seeds of one node's 1024 are not those of another.
LEMMA SeedParts ==
  \A a, b \in Nat : \A c, d \in Parts : SeedOf(a, c) = SeedOf(b, d) => a = b
<1> SUFFICES ASSUME NEW a \in Nat, NEW b \in Nat, NEW c \in Parts, NEW d \in Parts,
                    SeedOf(a, c) = SeedOf(b, d)
             PROVE  a = b
  OBVIOUS
<1>1. 1024 * a + c = 1024 * b + d
  BY DEF SeedOf
<1>2. c \in 0..1023 /\ d \in 0..1023
  BY DEF Parts
<1>3. ASSUME a < b PROVE FALSE
  <2>1. 1024 * a + 1024 <= 1024 * b
    BY <1>3
  <2> QED BY <1>1, <1>2, <2>1
<1>4. ASSUME b < a PROVE FALSE
  <2>1. 1024 * b + 1024 <= 1024 * a
    BY <1>4
  <2> QED BY <1>1, <1>2, <2>1
<1> QED BY <1>3, <1>4

\* One slice ends before the next one starts.
LEMMA StartsApart ==
  ASSUME NEW m \in Nat, NEW i \in Nat \ {0}, NEW j \in Nat \ {0}, i < j
  PROVE  (i - 1) * m + 1 + m <= (j - 1) * m + 1
<1> DEFINE a == i - 1
           b == j - 1
<1>1. a \in Nat /\ b \in Nat /\ a + 1 <= b
  OBVIOUS
<1> HIDE DEF a, b
<1>2. (a + 1) * m <= b * m
  BY <1>1, MulMono
<1>3. (a + 1) * m = a * m + m /\ a * m \in Nat /\ b * m \in Nat
  BY <1>1, MulStep
<1>4. a * m + 1 + m <= b * m + 1
  BY <1>2, <1>3
<1> QED BY <1>4 DEF a, b

\* Replicas sliced from one group have different seeds: on one node by
\* their first bundle, else by the node.
LEMMA SeedsUnified ==
  ASSUME setup \in Setups, Valid, Laid, Seats, groups["engine"] # << >>, Unified("engine"),
         listed["engine"]
  PROVE  LET gs == groups["engine"]
         IN \A i, j \in 1..Len(gs) : Seed("engine", gs[i]) = Seed("engine", gs[j]) => i = j
<1> DEFINE gs == groups["engine"]
           W == World("engine")
           m == setup.mp
           q == W \div m
           f == ray[<<"engine", 1>>]
           o == Sorted(f, 1, W)
<1>1. /\ m \in Nat \ {0} /\ W \in Nat \ {0} /\ W <= 1024 * m /\ W % m = 0
      /\ PgCount("engine") = 1 /\ PgSize("engine") = W
      /\ setup.gpus \in Nat /\ setup.gpus < m /\ ClusterOf("engine") = "engine"
  BY SetupTypes, SetupSizes, UnifiedSizes
<1>2. Tied(gs, o, q, m)
  BY DEF Laid
<1>3. /\ Len(held["engine"]) = 1
      /\ f \in [1..W -> Nat]
      /\ \A n \in Nat : Cardinality({b \in 1..W : f[b] = n}) <= setup.gpus
  <2>1. held["engine"] = PgIds("engine")
    BY DEF Seats, Settled
  <2>2. PgIds("engine") = [i \in 1..1 |-> <<"engine", i>>]
    BY <1>1 DEF PgIds
  <2>3. Len([i \in 1..1 |-> <<"engine", i>>]) = 1
    OBVIOUS
  <2>4. f \in [1..W -> Nat]
    BY <1>1 DEF Seats, Settled
  <2>5. \A n \in Nat : Cardinality({b \in 1..W : f[b] = n}) <= setup.gpus
    BY DEF Seats
  <2> QED BY <2>1, <2>2, <2>3, <2>4, <2>5
<1>4. q \in Nat /\ q * m = W
  <2>1. W \in Nat /\ m \in Nat \ {0}
    BY <1>1
  <2>2. W % m = 0
    BY <1>1
  <2> HIDE DEF W, m
  <2>3. W \div m \in Nat /\ (W % m = 0 => (W \div m) * m = W)
    BY <2>1, FloorFits, ZenonT(60)
  <2> QED BY <2>2, <2>3
<1>5. o \in [1..W -> 1..W]
  <2>1. W \in Nat
    BY <1>1
  <2>2. f \in [1..W -> Nat]
    BY <1>3
  <2> HIDE DEF W, f
  <2> QED BY <2>1, <2>2, OrderFacts
<1> DEFINE R == Range(f)
           Idx(b) == Cardinality({n \in R : n < f[b]})
<1>6. R \subseteq Nat /\ IsFiniteSet(R) /\ \A b \in 1..W : f[b] \in R
  <2>1. W \in Nat
    BY <1>1
  <2>2. f \in [1..W -> Nat]
    BY <1>3
  <2> HIDE DEF W, f
  <2> QED BY <2>1, <2>2, BundleNodes
<1>7. \A b \in 1..W : Idx(b) \in Nat
  <2> SUFFICES ASSUME NEW b \in 1..W PROVE Idx(b) \in Nat
    OBVIOUS
  <2>1. {n \in R : n < f[b]} \subseteq R
    OBVIOUS
  <2>2. IsFiniteSet({n \in R : n < f[b]})
    BY <1>6, <2>1, FS_Subset
  <2> QED BY <2>2, FS_CardinalityType
<1>8. f = ray[<<"engine", 1>>] /\ o = Sorted(f, 1, W) /\ R = Range(f)
  OBVIOUS
<1> HIDE DEF gs, W, m, q, o, f, R
<1> DEFINE P(j) == (j - 1) * m + 1
           B(j) == o[P(j)]
           Part(j) == (B(j) - 1) \div m
<1>9. ASSUME NEW j \in 1..q
      PROVE  /\ P(j) \in 1..W
             /\ B(j) \in 1..W
             /\ Seed("engine", gs[j]) = SeedOf(Idx(B(j)), Part(j))
             /\ Part(j) \in Parts
  <2> DEFINE r == gs[j]
             b == B(j)
  <2>1. P(j) \in 1..W
    <3>1. 1 \in 1..m
      BY <1>1
    <3>2. P(j) \in 1..q * m
      BY <1>1, <1>4, <3>1, BlockPlace
    <3> QED BY <1>4, <3>2
  <2>2. Len(r) = m /\ r[1] = <<<<"engine", 1>>, b>>
    <3>1. 1 \in 1..m
      BY <1>1
    <3> QED BY <1>2, <3>1 DEF Tied, Shape
  <2>3. b \in 1..W
    BY <1>5, <2>1
  <2> HIDE DEF P, r, b
  <2>7. (b - 1) \div m \in Parts
    <3>1. W \in Nat
      BY <1>1
    <3> QED BY <1>1, <2>3, <3>1, SeedPart
  <2>4. m > 1
    <3>1. setup.gpus # 0
      BY SetupTypes
    <3> QED BY <1>1, <3>1
  <2>5. NodeIndex("engine", r) = Idx(b)
    BY <1>1, <1>3, <1>8, <2>2, <2>4 DEF NodeIndex
  <2>6. Seed("engine", r) = SeedOf(Idx(b), (b - 1) \div m)
    BY <2>2, <2>5 DEF Seed, SeedOf
  <2>8. Part(j) = (b - 1) \div m
    BY DEF b
  <2> HIDE DEF B, Part, Idx
  <2> QED BY <2>1, <2>3, <2>6, <2>7, <2>8 DEF r, b
<1> HIDE DEF P, B, Part, Idx
<1>10. ASSUME NEW i \in 1..q, NEW j \in 1..q, i < j, f[B(i)] = f[B(j)]
       PROVE  FALSE
  <2>1. P(i) \in 1..W /\ P(j) \in 1..W
    BY <1>9
  <2>2. P(i) + m <= P(j)
    <3>1. i \in Nat \ {0} /\ j \in Nat \ {0} /\ m \in Nat
      BY <1>1
    <3> QED BY <1>10, <3>1, StartsApart DEF P
  <2>3. f[o[P(i)]] = f[o[P(j)]]
    BY <1>10 DEF B
  <2>4. P(i) < P(j)
    BY <1>1, <2>1, <2>2
  <2>5. P(j) - P(i) + 1 <= setup.gpus
    <3> DEFINE x == P(i)
               y == P(j)
    <3>1. f[Sorted(f, 1, W)[x]] = f[Sorted(f, 1, W)[y]]
      BY <1>8, <2>3
    <3>2. W \in Nat /\ x \in 1..W /\ y \in 1..W /\ x < y /\ setup.gpus \in Nat
      BY <1>1, <2>1, <2>4
    <3> HIDE DEF x, y
    <3>3. y - x + 1 <= setup.gpus
      BY <1>3, <3>1, <3>2, NodeIsRun
    <3> QED BY <3>3 DEF x, y
  <2> QED BY <1>1, <2>1, <2>2, <2>5
<1>11. Len(gs) = q
  BY <1>2 DEF Tied, Shape
<1>12. SUFFICES ASSUME NEW i \in 1..q, NEW j \in 1..q,
                      Seed("engine", gs[i]) = Seed("engine", gs[j])
                PROVE  i = j
  BY <1>11 DEF gs
<1>13. B(i) \in 1..W /\ B(j) \in 1..W /\ Part(i) \in Parts /\ Part(j) \in Parts
  BY <1>9
<1>14. Idx(B(i)) = Idx(B(j))
  <2>1. SeedOf(Idx(B(i)), Part(i)) = SeedOf(Idx(B(j)), Part(j))
    <3>1. Seed("engine", gs[i]) = SeedOf(Idx(B(i)), Part(i))
      BY <1>9
    <3>2. Seed("engine", gs[j]) = SeedOf(Idx(B(j)), Part(j))
      BY <1>9
    <3> QED BY <1>12, <3>1, <3>2
  <2>3. Idx(B(i)) \in Nat /\ Idx(B(j)) \in Nat
    BY <1>7, <1>13
  <2> DEFINE x == Idx(B(i))
             y == Idx(B(j))
             c == Part(i)
             d == Part(j)
  <2>4. SeedOf(x, c) = SeedOf(y, d)
    BY <2>1
  <2>5. x \in Nat /\ y \in Nat /\ c \in Parts /\ d \in Parts
    BY <1>13, <2>3
  <2> HIDE DEF x, y, c, d
  <2>6. x = y
    BY <2>4, <2>5, SeedParts, ZenonT(60)
  <2> QED BY <2>6 DEF x, y
<1>15. f[B(i)] = f[B(j)]
  <2> DEFINE x == f[B(i)]
             y == f[B(j)]
  <2>1. x \in R /\ y \in R
    BY <1>6, <1>13
  <2>2. Cardinality(Below(R, x)) = Cardinality(Below(R, y))
    <3>1. Idx(B(i)) = Cardinality(Below(R, x)) /\ Idx(B(j)) = Cardinality(Below(R, y))
      BY DEF Idx, Below
    <3> QED BY <1>14, <3>1
  <2> HIDE DEF x, y
  <2>4. R \subseteq Nat /\ IsFiniteSet(R)
    BY <1>6
  <2>3. x = y
    BY <2>1, <2>2, <2>4, IndexDiffers
  <2> QED BY <2>3 DEF x, y
<1>16. ~(i < j) /\ ~(j < i)
  BY <1>10, <1>15
<1> QED BY <1>16

\* A replica no larger than a node is on one.
LEMMA OneNode ==
  ASSUME setup \in Setups, Valid, Laid, Seats, groups["engine"] # << >>,
         setup.mp <= GpusPerNode("engine")
  PROVE  LET gs == groups["engine"]
         IN \A i \in 1..Len(gs) : Cardinality({ray[b[1]][b[2]] : b \in Range(gs[i])}) = 1
<1> DEFINE gs == groups["engine"]
           K == PgCount("engine")
           g == PgSize("engine")
           m == setup.mp
           q == g \div m
<1>1. /\ m \in Nat \ {0} /\ K \in Nat \ {0} /\ g \in Nat \ {0} /\ ~Unified("engine")
  <2>1. ~Unified("engine")
    <3>1. GpusPerNode("engine") \in Nat /\ setup.mp \in Nat
      BY SetupTypes, SetupSizes
    <3> QED BY <3>1 DEF Unified
  <2> QED BY <2>1, SetupTypes, PgSizes
<1>2. Local(gs, "engine", K, q, m)
  BY <1>1 DEF Laid
<1>3. \A k \in 1..K : \A b, d \in 1..g : ray[<<"engine", k>>][b] = ray[<<"engine", k>>][d]
  BY <1>1 DEF Seats
<1> HIDE DEF gs, K, g, m
<1>4. q \in Nat /\ q * m \in Nat /\ q * m <= g
  BY <1>1, FloorFits
<1> HIDE DEF q
<1>5. Len(gs) = K * q
  BY <1>2 DEF Local, Shape
<1>6. SUFFICES ASSUME NEW i \in 1..Len(gs)
               PROVE  Cardinality({ray[b[1]][b[2]] : b \in Range(gs[i])}) = 1
  BY DEF gs
<1>7. i \in 1..K * q /\ K \in Nat
  BY <1>1, <1>5, <1>6
<1>8. PICK k \in 1..K, j \in 1..q : i = (k - 1) * q + j
  BY <1>4, <1>7, PlaceBlock
<1> DEFINE t == gs[i]
           x == ray[<<"engine", k>>][1]
<1>9. t \in Seq(Places) /\ Len(t) = m /\ \A r \in 1..m : t[r] = <<<<"engine", k>>, (j - 1) * m + r>>
  BY <1>2, <1>7, <1>8 DEF Local, Shape
<1>10. \A r \in 1..m : (j - 1) * m + r \in 1..g
  <2> SUFFICES ASSUME NEW r \in 1..m PROVE (j - 1) * m + r \in 1..g
    OBVIOUS
  <2>1. (j - 1) * m + r \in 1..q * m
    BY <1>1, <1>4, BlockPlace
  <2> QED BY <1>1, <1>4, <2>1
<1>11. Range(t) = {t[r] : r \in 1..m}
  BY <1>9 DEF Range
<1>12. 1 \in 1..g /\ 1 \in 1..m
  BY <1>1
<1>14. \A r \in 1..m : ray[t[r][1]][t[r][2]] = x
  <2> SUFFICES ASSUME NEW r \in 1..m PROVE ray[t[r][1]][t[r][2]] = x
    OBVIOUS
  <2>1. t[r] = <<<<"engine", k>>, (j - 1) * m + r>>
    BY <1>9
  <2>2. ray[t[r][1]][t[r][2]] = ray[<<"engine", k>>][(j - 1) * m + r]
    BY <2>1
  <2> QED BY <1>3, <1>10, <1>12, <2>2
<1> HIDE DEF t, x
<1>13. {ray[b[1]][b[2]] : b \in Range(t)} = {x}
  BY <1>11, <1>12, <1>14
<1> QED BY <1>13, FS_Singleton DEF t

-----------------------------------------------------------------------------
(***************************************************************************)
(* The ranks of the collective.                                            *)
(***************************************************************************)

\* Workers per replica, as init_collective computes them.
LEMMA GroupWidth ==
  ASSUME setup \in Setups, NEW n \in Nat, NEW gs, Shape(gs, n, setup.mp), gs # << >>
  PROVE  /\ n # 0 /\ DOMAIN gs = 1..n /\ WorkersIn(gs) = n * setup.mp
         /\ PerGroup(gs) = setup.mp
<1> DEFINE m == setup.mp
<1>1. m \in Nat \ {0}
  BY SetupTypes
<1>2. gs \in Seq(Seq(Places)) /\ Len(gs) = n
  BY DEF Shape
<1>3. n # 0 /\ DOMAIN gs = 1..n
  <2> HIDE DEF m
  <2> QED BY <1>2
<1>4. WorkersIn(gs) = n * m
  BY <1>1, FlatShape
<1>5. PerGroup(gs) = (n * m) \div n
  BY <1>2, <1>4 DEF PerGroup
<1>6. (n * m) \div n = m
  <2> HIDE DEF m
  <2>1. n \in Nat \ {0} /\ m \in Nat /\ 0 \in 0..n - 1
    BY <1>1, <1>3
  <2>2. (m * n + 0) \div n = m
    BY <2>1, DivBlock
  <2>3. m * n + 0 = n * m
    BY <2>1
  <2> QED BY <2>2, <2>3
<1> QED BY <1>3, <1>4, <1>5, <1>6

\* The workers that get a rank prefix are the first of each replica.
LEMMA FirstWorkers ==
  ASSUME setup \in Setups, NEW n \in Nat, NEW gs, Shape(gs, n, setup.mp), gs # << >>
  PROVE  {k \in 1..WorkersIn(gs) : IsRankZero(k)} = {PrefixOf(gs, i) + 1 : i \in DOMAIN gs}
<1> DEFINE m == setup.mp
<1>1. m \in Nat \ {0}
  BY SetupTypes
<1>2. DOMAIN gs = 1..n /\ WorkersIn(gs) = n * m /\ PerGroup(gs) = m
  BY GroupWidth
<1>3. \A i \in 1..n : PrefixOf(gs, i) = (i - 1) * m
  BY <1>2 DEF PrefixOf
<1>4. \A k : IsRankZero(k) <=> (k - 1) % m = 0
  BY DEF IsRankZero
<1> HIDE DEF m
<1>5. ASSUME NEW i \in 1..n
      PROVE  (i - 1) * m + 1 \in 1..n * m /\ (((i - 1) * m + 1) - 1) % m = 0
  <2>1. 1 \in 1..m /\ i - 1 \in Nat /\ 0 \in 0..m - 1 /\ m \in Nat
    BY <1>1
  <2>2. (i - 1) * m + 1 \in 1..n * m
    BY <2>1, BlockPlace
  <2>3. ((i - 1) * m + 0) % m = 0
    BY <1>1, <2>1, DivBlock
  <2>4. ((i - 1) * m + 1) - 1 = (i - 1) * m + 0
    BY <2>1
  <2> QED BY <2>2, <2>3, <2>4
<1>6. ASSUME NEW k \in 1..n * m, (k - 1) % m = 0
      PROVE  \E i \in 1..n : k = (i - 1) * m + 1
  <2>1. PICK i \in 1..n, r \in 1..m : k = (i - 1) * m + r
    BY <1>1, PlaceBlock
  <2>2. i - 1 \in Nat /\ r - 1 \in 0..m - 1 /\ k - 1 = (i - 1) * m + (r - 1)
    BY <1>1, <2>1
  <2> DEFINE s == r - 1
             a == i - 1
  <2>3. s \in 0..m - 1 /\ a \in Nat /\ k - 1 = a * m + s
    BY <2>2
  <2> HIDE DEF s, a
  <2>4. (a * m + s) % m = s
    BY <1>1, <2>3, DivBlock
  <2>5. s = 0
    BY <1>6, <2>3, <2>4
  <2>6. r = 1
    BY <2>5 DEF s
  <2> QED BY <2>1, <2>6
<1>7. {k \in 1..n * m : IsRankZero(k)} \subseteq {PrefixOf(gs, i) + 1 : i \in 1..n}
  <2> SUFFICES ASSUME NEW k \in 1..n * m, IsRankZero(k)
               PROVE  \E i \in 1..n : k = PrefixOf(gs, i) + 1
    OBVIOUS
  <2>1. (k - 1) % m = 0
    BY <1>4
  <2>2. PICK i \in 1..n : k = (i - 1) * m + 1
    BY <1>6, <2>1
  <2> QED BY <1>3, <2>2
<1>8. {PrefixOf(gs, i) + 1 : i \in 1..n} \subseteq {k \in 1..n * m : IsRankZero(k)}
  <2> SUFFICES ASSUME NEW i \in 1..n
               PROVE  PrefixOf(gs, i) + 1 \in 1..n * m /\ IsRankZero(PrefixOf(gs, i) + 1)
    OBVIOUS
  <2>1. PrefixOf(gs, i) = (i - 1) * m
    BY <1>3
  <2>2. (i - 1) * m + 1 \in 1..n * m /\ (((i - 1) * m + 1) - 1) % m = 0
    BY <1>5
  <2>3. IsRankZero((i - 1) * m + 1)
    <3> DEFINE k == (i - 1) * m + 1
    <3>1. (k - 1) % m = 0
      BY <2>2
    <3> HIDE DEF k
    <3>2. IsRankZero(k)
      BY <1>4, <3>1
    <3> QED BY <3>2 DEF k
  <2> QED BY <2>1, <2>2, <2>3
<1> QED BY <1>2, <1>7, <1>8

\* The ranks of the collective but its head, one for each worker.
LEMMA RanksWhole ==
  ASSUME setup \in Setups, NEW n \in Nat, NEW gs, Shape(gs, n, setup.mp), gs # << >>
  PROVE  /\ {r[1] : r \in RanksJoining(gs)} = 0..n * setup.mp
         /\ Cardinality(RanksJoining(gs)) = n * setup.mp + 1
<1> DEFINE m == setup.mp
           rank(i, r) == <<(i - 1) * m + r, i, r>>
           J == RanksJoining(gs)
           F == [k \in 0..n * m |-> CHOOSE x \in J : x[1] = k]
<1>1. m \in Nat \ {0} /\ n * m \in Nat
  BY SetupTypes
<1>2. J = {<<0, 0, 0>>} \cup {rank(i, r) : i \in 1..n, r \in 1..m}
  <2>1. DOMAIN gs = 1..n /\ PerGroup(gs) = m
    BY GroupWidth
  <2> QED BY <2>1 DEF RanksJoining, PrefixOf
<1> HIDE DEF J, m
<1>3. \A i \in 1..n, r \in 1..m : (i - 1) * m + r \in 1..n * m
  <2> SUFFICES ASSUME NEW i \in 1..n, NEW r \in 1..m PROVE (i - 1) * m + r \in 1..n * m
    OBVIOUS
  <2> QED BY <1>1, BlockPlace
<1>4. ASSUME NEW x \in J
      PROVE  /\ x = <<0, 0, 0>> \/ \E i \in 1..n, r \in 1..m : x = rank(i, r)
             /\ x[1] \in 0..n * m /\ (x[1] = 0 => x = <<0, 0, 0>>)
  <2>1. CASE x = <<0, 0, 0>>
    BY <1>1, <2>1
  <2>2. CASE \E i \in 1..n, r \in 1..m : x = rank(i, r)
    <3>1. PICK i \in 1..n, r \in 1..m : x = rank(i, r)
      BY <2>2
    <3>2. x[1] = (i - 1) * m + r
      BY <3>1
    <3>3. x[1] \in 1..n * m
      BY <1>3, <3>2
    <3> QED BY <1>1, <2>2, <3>3
  <2> QED BY <1>2, <2>1, <2>2
<1>5. ASSUME NEW k \in 0..n * m PROVE \E x \in J : x[1] = k
  <2>1. CASE k = 0
    <3>1. <<0, 0, 0>> \in J /\ <<0, 0, 0>>[1] = 0
      BY <1>2
    <3> QED BY <2>1, <3>1
  <2>2. CASE k # 0
    <3>1. k \in 1..n * m /\ m \in Nat
      BY <1>1, <2>2
    <3>2. PICK i \in 1..n, r \in 1..m : k = (i - 1) * m + r
      BY <3>1, PlaceBlock
    <3>3. rank(i, r) \in J /\ rank(i, r)[1] = k
      BY <1>2, <3>2
    <3> QED BY <3>3
  <2> QED BY <2>1, <2>2
<1>6. ASSUME NEW x \in J, NEW y \in J, x[1] = y[1] PROVE x = y
  <2>1. CASE x[1] = 0
    BY <1>4, <1>6, <2>1
  <2>2. CASE x[1] # 0
    <3>1. PICK i \in 1..n, r \in 1..m : x = rank(i, r)
      <4>1. x # <<0, 0, 0>>
        BY <2>2
      <4> QED BY <1>4, <4>1
    <3>2. PICK j \in 1..n, s \in 1..m : y = rank(j, s)
      <4>1. y # <<0, 0, 0>>
        BY <1>6, <2>2
      <4> QED BY <1>4, <4>1
    <3> DEFINE a == i - 1
               b == j - 1
               p == r - 1
               q == s - 1
    <3>3. (i - 1) * m + r = (j - 1) * m + s
      BY <1>6, <3>1, <3>2
    <3>4. a \in Nat /\ b \in Nat /\ p \in 0..m - 1 /\ q \in 0..m - 1
      BY <1>1
    <3>5. a * m + p = b * m + q
      <4>1. (i - 1) * m \in Nat /\ (j - 1) * m \in Nat
        BY <1>1
      <4> QED BY <3>3, <4>1
    <3> HIDE DEF a, b, p, q
    <3>6. a = b /\ p = q
      BY <1>1, <3>4, <3>5, BlockUnique
    <3>7. i = j /\ r = s
      BY <3>6 DEF a, b, p, q
    <3> QED BY <3>1, <3>2, <3>7
  <2> QED BY <2>1, <2>2
<1>7. \A k \in 0..n * m : F[k] \in J /\ F[k][1] = k
  BY <1>5
<1>8. {x[1] : x \in J} = 0..n * m
  BY <1>4, <1>5
<1>9. F \in Bijection(0..n * m, J)
  <2> HIDE DEF F
  <2>1. F \in [0..n * m -> J]
    <3>1. F = [k \in 0..n * m |-> F[k]]
      BY DEF F
    <3> QED BY <1>7, <3>1
  <2>2. \A a, b \in 0..n * m : F[a] = F[b] => a = b
    BY <1>7
  <2>3. \A x \in J : \E a \in 0..n * m : F[a] = x
    <3> SUFFICES ASSUME NEW x \in J PROVE \E a \in 0..n * m : F[a] = x
      OBVIOUS
    <3>1. x[1] \in 0..n * m
      BY <1>4
    <3>2. F[x[1]] \in J /\ F[x[1]][1] = x[1]
      BY <1>7, <3>1
    <3> QED BY <1>6, <3>1, <3>2
  <2> DEFINE D == 0..n * m
  <2>4. F \in [D -> J] /\ (\A a, b \in D : F[a] = F[b] => a = b) /\ (\A x \in J : \E a \in D : F[a] = x)
    BY <2>1, <2>2, <2>3
  <2> HIDE DEF D
  <2>5. F \in Bijection(D, J)
    BY <2>4 DEF Bijection, Injection, Surjection, IsInjective
  <2> QED BY <2>5 DEF D
<1>10. IsFiniteSet(0..n * m) /\ Cardinality(0..n * m) = n * m + 1
  <2> DEFINE N == n * m
  <2>1. N \in Nat
    BY <1>1
  <2> HIDE DEF N
  <2>2. IsFiniteSet(0..N) /\ Cardinality(0..N) = N + 1
    BY <2>1, FS_Interval
  <2> QED BY <2>2 DEF N
<1>11. Cardinality(J) = n * m + 1
  <2> HIDE DEF F
  <2>1. Cardinality(0..n * m) = Cardinality(J)
    <3> DEFINE D == 0..n * m
    <3>1. IsFiniteSet(D) /\ ExistsBijection(D, J)
      BY <1>9, <1>10 DEF ExistsBijection
    <3> HIDE DEF D
    <3>2. Cardinality(D) = Cardinality(J)
      BY <3>1, FS_Bijection
    <3> QED BY <3>2 DEF D
  <2> QED BY <1>10, <2>1
<1> QED BY <1>8, <1>11 DEF J, m

\* The collective that came up had every rank it waits for.
Joined ==
  InUse /\ ~setup.colocated =>
    Cardinality(RanksJoining(groups["engine"])) = WorldOfCollective

\* Complete replicas, placed by Ray, whose collective has come up.
LEMMA PlacedWell ==
  ASSUME setup \in Setups, groups["engine"] # << >> => Valid, Laid, listed["engine"] => Seats,
         Joined
  PROVE  ReplicasPlaced
<1> SUFFICES ASSUME groups["engine"] # << >> PROVE ReplicasPlaced
  BY DEF ReplicasPlaced
<1> DEFINE gs == groups["engine"]
           m == setup.mp
<1>1. Valid /\ m \in Nat \ {0}
  BY SetupTypes
<1>2. PICK n \in Nat : /\ Shape(gs, n, m) /\ Apart(gs, n, m)
                       /\ n * m <= World("engine")
                       /\ Evenly => n * m = World("engine")
  BY <1>1, LaidWhole DEF Whole
<1>3. IsInjective(FlattenSeq(gs))
  BY <1>1, <1>2, FlatInjective
<1>4. DOMAIN gs = 1..n /\ Len(gs) = n
  BY <1>2, GroupWidth DEF Shape
<1>5. \A i \in DOMAIN gs : Len(gs[i]) = m
  BY <1>2, <1>4 DEF Shape
<1>6. ASSUME listed["engine"], m <= GpusPerNode("engine"), NEW i \in DOMAIN gs
      PROVE  Cardinality({ray[b[1]][b[2]] : b \in Range(gs[i])}) = 1
  BY <1>1, <1>4, <1>6, OneNode
<1>7. ASSUME listed["engine"]
      PROVE  IsInjective([i \in DOMAIN gs |-> Seed("engine", gs[i])])
  <2>1. \A i, j \in 1..Len(gs) : Seed("engine", gs[i]) = Seed("engine", gs[j]) => i = j
    BY <1>1, <1>7, SeedsLocal, SeedsUnified
  <2> QED BY <1>4, <2>1 DEF IsInjective
<1>8. {k \in 1..WorkersIn(gs) : IsRankZero(k)} = {PrefixOf(gs, i) + 1 : i \in DOMAIN gs}
  BY <1>2, FirstWorkers
<1>9. ASSUME ~setup.colocated, pc = "up"
      PROVE  {r[1] : r \in RanksJoining(gs)} = 0..(WorldOfCollective - 1)
  <2>1. {r[1] : r \in RanksJoining(gs)} = 0..n * m /\ Cardinality(RanksJoining(gs)) = n * m + 1
    BY <1>2, RanksWhole
  <2>2. n * m + 1 = WorldOfCollective
    BY <1>9, <2>1 DEF Joined, InUse
  <2>3. n * m = WorldOfCollective - 1
    <3> DEFINE N == n * m
    <3>1. N \in Nat
      BY <1>1
    <3> HIDE DEF N
    <3>2. N = (N + 1) - 1
      BY <3>1
    <3> QED BY <2>2, <3>2 DEF N
  <2> QED BY <2>1, <2>3
<1>10. ClusterOf("engine") = "engine"
  BY <1>1, SetupSizes
<1> QED BY <1>3, <1>5, <1>6, <1>7, <1>8, <1>9, <1>10 DEF ReplicasPlaced

-----------------------------------------------------------------------------
(***************************************************************************)
(* Ray always finds a free node for a group of the size of one: nodes with *)
(* as many GPUs as were asked for exist, and groups take one node each.    *)
(***************************************************************************)

\* A group of the engine that Ray has placed.
Seated(k) ==
  LET f == ray[<<"engine", k>>] IN
  /\ f \in [1..PgSize("engine") -> Nat]
  /\ IF Unified("engine")
     THEN \A n \in Nat : Cardinality({b \in 1..World("engine") : f[b] = n}) <= setup.gpus
     ELSE \A b, d \in 1..PgSize("engine") : f[b] = f[d]

\* The engine's cluster waits for its groups, alone.
Waiting ==
  /\ Valid
  /\ DOMAIN ray = Range(PgIds("engine"))
  /\ PgCount("engine") <= Cardinality(joined)
  /\ \A k \in 1..PgCount("engine") : Seated(k) \/ ray[<<"engine", k>>] = << >>

\* Nodes that joined are finitely many, and there is one.
Nodes == joined \subseteq Nat /\ IsFiniteSet(joined) /\ joined # {}

\* The names of the engine's groups.
LEMMA IdsOf ==
  Range(PgIds("engine")) = {<<"engine", k>> : k \in 1..PgCount("engine")}
BY DEF Range, PgIds

\* A node that no bundle is on has all its GPUs free.
LEMMA NoneUsed ==
  ASSUME setup \in Setups, NEW n, \A p \in DOMAIN ray : \A b \in DOMAIN ray[p] : ray[p][b] # n
  PROVE  Free(n) = setup.gpus
<1> DEFINE U == {b \in Placed : ray[b[1]][b[2]] = n}
<1>1. U = {}
  <2> SUFFICES ASSUME NEW b \in Placed, ray[b[1]][b[2]] = n PROVE FALSE
    OBVIOUS
  <2>1. PICK p \in DOMAIN ray : b \in {p} \X DOMAIN ray[p]
    BY DEF Placed
  <2>2. b[1] = p /\ b[2] \in DOMAIN ray[p]
    BY <2>1
  <2> QED BY <2>2
<1>2. Cardinality(U) = 0
  BY <1>1, FS_EmptySet
<1>3. setup.gpus \in Nat
  BY SetupTypes
<1> HIDE DEF U
<1>4. setup.gpus - Cardinality(U) = setup.gpus
  BY <1>2, <1>3
<1> QED BY <1>4 DEF Free, Used, U

\* A group that waits finds a free node: the others take one each.
LEMMA FreeNode ==
  ASSUME setup \in Setups, Waiting, Nodes, ~Unified("engine"),
         NEW k \in 1..PgCount("engine"), ray[<<"engine", k>>] = << >>
  PROVE  \E n \in joined : Free(n) >= PgSize("engine")
<1> DEFINE K == PgCount("engine")
           g == PgSize("engine")
           S == (1..K) \ {k}
           F == [l \in S |-> ray[<<"engine", l>>][1]]
           T == {F[l] : l \in S}
<1>1. K \in Nat \ {0} /\ g \in Nat \ {0} /\ g <= setup.gpus /\ setup.gpus \in Nat
  BY PgSizes, SetupSizes, SetupTypes DEF Waiting
<1>2. IsFiniteSet(S) /\ Cardinality(S) = K - 1
  <2> HIDE DEF K
  <2>1. IsFiniteSet(1..K) /\ Cardinality(1..K) = K
    <3>1. K \in Int /\ 1 \in Int /\ ~(1 > K)
      BY <1>1
    <3>2. IsFiniteSet(1..K) /\ Cardinality(1..K) = IF 1 > K THEN 0 ELSE K - 1 + 1
      BY <3>1, FS_Interval
    <3> QED BY <3>1, <3>2
  <2>2. (1..K) \cap {k} = {k}
    BY DEF K
  <2>3. Cardinality({k}) = 1
    BY FS_Singleton
  <2>4. IsFiniteSet(S) /\ Cardinality(S) = Cardinality(1..K) - Cardinality((1..K) \cap {k})
    BY <2>1, FS_Difference
  <2> QED BY <2>1, <2>2, <2>3, <2>4
<1>3. IsFiniteSet(T) /\ Cardinality(T) <= K - 1
  <2>1. F \in Surjection(S, T)
    BY DEF Surjection
  <2> HIDE DEF S, F, T, K
  <2> QED BY <1>2, <2>1, FS_Surjection
<1>4. PICK n \in joined : n \notin T
  <2>1. CASE joined \subseteq T
    <3>1. Cardinality(joined) <= Cardinality(T)
      BY <1>3, <2>1, FS_Subset
    <3>2. Cardinality(joined) \in Nat /\ Cardinality(T) \in Nat /\ K <= Cardinality(joined)
      BY <1>3, FS_CardinalityType DEF Waiting, Nodes
    <3> HIDE DEF T, K
    <3> QED BY <1>1, <1>3, <3>1, <3>2
  <2> QED BY <2>1
<1>5. ASSUME NEW p \in DOMAIN ray, NEW b \in DOMAIN ray[p], ray[p][b] = n PROVE FALSE
  <2>1. PICK l \in 1..K : p = <<"engine", l>>
    BY IdsOf DEF Waiting
  <2>2. l # k
    BY <1>5, <2>1
  <2>3. Seated(l)
    BY <1>5, <2>1 DEF Waiting
  <2>4. b \in 1..g /\ 1 \in 1..g
    BY <1>1, <1>5, <2>1, <2>3 DEF Seated
  <2>5. ray[<<"engine", l>>][b] = ray[<<"engine", l>>][1]
    BY <2>3, <2>4 DEF Seated
  <2>6. F[l] = n /\ l \in S
    BY <1>5, <2>1, <2>2, <2>5
  <2> QED BY <1>4, <2>6
<1>6. Free(n) = setup.gpus
  BY <1>5, NoneUsed
<1> QED BY <1>1, <1>4, <1>6

\* Bundles on one node in all are on the same one.
LEMMA OneElement ==
  ASSUME NEW n \in Nat, NEW C, NEW f \in [1..n -> C], Cardinality(Range(f)) = 1
  PROVE  \A b, d \in 1..n : f[b] = f[d]
<1>1. f \in Surjection(1..n, Range(f))
  BY DEF Surjection, Range
<1>2. IsFiniteSet(1..n)
  BY FS_Interval
<1>3. IsFiniteSet(Range(f))
  BY <1>1, <1>2, FS_Surjection
<1>4. PICK x : Range(f) = {x}
  BY <1>3, FS_Singleton
<1>5. \A b \in 1..n : f[b] \in Range(f)
  BY DEF Range
<1> QED BY <1>4, <1>5

\* Ray's choice for a group of the engine.
LEMMA PlacementSeats ==
  ASSUME setup \in Setups, Waiting, Nodes,
         NEW k \in 1..PgCount("engine"), ray[<<"engine", k>>] = << >>,
         NEW f \in Placements(<<"engine", k>>)
  PROVE  /\ f \in [1..PgSize("engine") -> Nat]
         /\ IF Unified("engine")
            THEN \A n \in Nat : Cardinality({b \in 1..World("engine") : f[b] = n}) <= setup.gpus
            ELSE \A b, d \in 1..PgSize("engine") : f[b] = f[d]
<1> DEFINE g == PgSize("engine")
<1>1. /\ f \in [1..g -> joined]
      /\ \A n \in joined : Cardinality({b \in 1..g : f[b] = n}) <= Free(n)
      /\ ~Unified("engine") /\ (\E n \in joined : Free(n) >= g) => Cardinality(Range(f)) = 1
  <2>1. <<"engine", k>>[1] = "engine"
    OBVIOUS
  <2> QED BY <2>1 DEF Placements
<1>2. f \in [1..g -> Nat]
  BY <1>1 DEF Nodes
<1>3. g \in Nat \ {0} /\ setup.gpus \in Nat
  BY PgSizes, SetupTypes DEF Waiting
<1>4. CASE Unified("engine")
  <2>1. PgCount("engine") = 1 /\ g = World("engine")
    BY <1>4, UnifiedSizes DEF Waiting
  <2>2. k = 1
    BY <2>1
  <2>3. DOMAIN ray = {<<"engine", 1>>}
    BY <2>1, IdsOf DEF Waiting
  <2>4. \A n \in Nat : Free(n) = setup.gpus
    BY <2>2, <2>3, NoneUsed
  <2>5. ASSUME NEW n \in Nat PROVE Cardinality({b \in 1..g : f[b] = n}) <= setup.gpus
    <3>1. CASE n \in joined
      BY <1>1, <2>4, <3>1
    <3>2. CASE n \notin joined
      <4>1. {b \in 1..g : f[b] = n} = {}
        BY <1>1, <3>2
      <4>2. Cardinality({b \in 1..g : f[b] = n}) = 0
        BY <4>1, FS_EmptySet
      <4> QED BY <1>3, <4>2
    <3> QED BY <3>1, <3>2
  <2> QED BY <1>2, <1>4, <2>1, <2>5
<1>5. CASE ~Unified("engine")
  <2>1. \E n \in joined : Free(n) >= g
    BY <1>5, FreeNode
  <2>2. Cardinality(Range(f)) = 1
    BY <1>1, <1>5, <2>1
  <2> HIDE DEF g
  <2>3. \A b, d \in 1..g : f[b] = f[d]
    BY <1>2, <1>3, <2>2, OneElement
  <2> QED BY <1>2, <1>5, <2>3 DEF g
<1> QED BY <1>4, <1>5

-----------------------------------------------------------------------------
(***************************************************************************)
(* The inductive invariant of ReplicasPlaced.                              *)
(***************************************************************************)

\* The names of the groups of the engine's cluster.
EngineIds == {<<"engine", k>> : k \in 1..PgCount("engine")}

\* setup() goes on, or has come up.
Accepted == pc \in {"place", "ready", "create", "join"} \/ InUse

\* What the replicas rely on.
PlaceInv ==
  /\ setup \in Setups /\ Nodes
  /\ groups = [w \in Sides |-> groups[w]] /\ listed = [w \in Sides |-> listed[w]]
  /\ Accepted => Valid
  /\ groups["engine"] # << >> => Valid
  /\ held["engine"] # << >> => Valid /\ Seats /\ EngineIds \subseteq DOMAIN ray
  /\ pc = "configure" => which = "engine"
  /\ which = "engine" /\ pc \in {"configure", "place"} => DOMAIN ray = {} /\ held["engine"] = << >>
  /\ which = "engine" /\ pc = "ready" => Waiting
  /\ which = "train" /\ pc \in {"place", "ready", "create"} => listed["engine"]
  /\ listed["engine"] => held["engine"] # << >>
  /\ Laid
  /\ Joined

\* What the set-up alone decides.
LEMMA SizesSame ==
  ASSUME UNCHANGED setup
  PROVE  /\ UNCHANGED <<Valid, ClusterOf("engine"), ClusterOf("train")>>
         /\ UNCHANGED <<PgCount("engine"), PgSize("engine"), World("engine"), Unified("engine")>>
         /\ UNCHANGED <<PgIds("engine"), EngineIds, WorldOfCollective>>
         /\ UNCHANGED GpusPerNode("engine")
BY DEF Valid, ClusterOf, PgCount, PgSize, World, Unified, PgIds, EngineIds, WorldOfCollective,
       GpusPerNode, NodeCount, Shared

\* No group of the engine is moved.
EngineRaySame == \A k \in 1..PgCount("engine") : ray'[<<"engine", k>>] = ray[<<"engine", k>>]

\* Groups that stay where they are stay well placed.
LEMMA SeatsSame ==
  ASSUME Seats, UNCHANGED <<setup, held["engine"]>>, EngineRaySame
  PROVE  Seats'
<1>1. UNCHANGED <<PgCount("engine"), PgSize("engine"), World("engine"), Unified("engine"),
                  PgIds("engine"), setup.gpus>>
  BY SizesSame
<1>2. Settled("engine")'
  BY <1>1 DEF Seats, Settled, EngineRaySame
<1>3. CASE Unified("engine")
  <2>1. 1 \in 1..PgCount("engine")
    BY <1>3 DEF PgCount
  <2>2. ray'[<<"engine", 1>>] = ray[<<"engine", 1>>]
    BY <2>1 DEF EngineRaySame
  <2> QED BY <1>1, <1>2, <1>3, <2>2 DEF Seats
<1>4. CASE ~Unified("engine")
  BY <1>1, <1>2, <1>4 DEF Seats, EngineRaySame
<1> QED BY <1>3, <1>4

\* Replicas stay laid out while their groups stay.
LEMMA LaidSame ==
  ASSUME Laid, UNCHANGED <<setup, groups["engine"]>>, listed'["engine"] => listed["engine"],
         listed'["engine"] => EngineRaySame
  PROVE  Laid'
<1> SUFFICES ASSUME groups["engine"] # << >> PROVE Laid'
  BY DEF Laid
<1>1. UNCHANGED <<PgCount("engine"), PgSize("engine"), World("engine"), Unified("engine"),
                  setup.mp>>
  BY SizesSame
<1>2. CASE Unified("engine")
  <2>1. PICK o : /\ Orders(o)
                 /\ Tied(groups["engine"], o, World("engine") \div setup.mp, setup.mp)
                 /\ listed["engine"] => o = Sorted(ray[<<"engine", 1>>], 1, World("engine"))
    BY <1>2 DEF Laid
  <2>2. Orders(o)'
    BY <1>1, <2>1 DEF Orders
  <2>3. listed'["engine"] => o = Sorted(ray'[<<"engine", 1>>], 1, World("engine"))
    <3> SUFFICES ASSUME listed'["engine"]
                 PROVE  o = Sorted(ray'[<<"engine", 1>>], 1, World("engine"))
      OBVIOUS
    <3>1. 1 \in 1..PgCount("engine")
      BY <1>2 DEF PgCount
    <3>2. ray'[<<"engine", 1>>] = ray[<<"engine", 1>>]
      BY <3>1 DEF EngineRaySame
    <3> QED BY <2>1, <3>2
  <2> QED BY <1>1, <1>2, <2>1, <2>2, <2>3 DEF Laid
<1>3. CASE ~Unified("engine")
  BY <1>1, <1>3 DEF Laid
<1> QED BY <1>2, <1>3

\* A cluster goes on waiting.
LEMMA WaitingSame ==
  ASSUME Waiting, UNCHANGED <<setup, ray, joined>> PROVE Waiting'
<1>1. UNCHANGED <<PgCount("engine"), PgSize("engine"), World("engine"), Unified("engine"),
                  PgIds("engine"), setup.gpus, Valid>>
  BY SizesSame
<1> QED BY <1>1 DEF Waiting, Seated

\* A step of the driver that makes and removes nothing.
LEMMA PlaceSame ==
  ASSUME Inv, PlaceInv, UNCHANGED <<setup, joined, ray, held, groups>>, which' \in Sides,
         listed' = [w \in Sides |-> listed'[w]], listed'["engine"] => listed["engine"],
         pc' \notin {"configure", "ready"},
         which' = "engine" /\ pc' = "place" => which = "engine" /\ pc \in {"configure", "place"},
         which' = "train" /\ pc' \in {"place", "create"} =>
           which = "train" /\ pc \in {"place", "create"} /\ UNCHANGED listed,
         Accepted' => Valid,
         InUse' =>
           \/ InUse \/ setup.colocated
           \/ Cardinality(RanksJoining(groups["engine"])) = WorldOfCollective
  PROVE  PlaceInv'
<1>1. UNCHANGED <<Valid, EngineIds, WorldOfCollective>>
  BY SizesSame
<1>2. EngineRaySame
  BY DEF EngineRaySame
<1>3. Laid'
  BY <1>2, LaidSame DEF PlaceInv
<1>4. Seats => Seats'
  BY <1>2, SeatsSame
<1>5. Joined'
  BY <1>1 DEF PlaceInv, Joined, RanksJoining, PrefixOf, PerGroup, WorkersIn
<1>6. Nodes'
  BY DEF PlaceInv, Nodes
<1> QED BY <1>1, <1>3, <1>4, <1>5, <1>6 DEF PlaceInv, Sides

\* A step of the workers only.
LEMMA PlaceStutter ==
  ASSUME PlaceInv, UNCHANGED <<setup, pc, which, joined, ray, held, groups, listed, dropped>>
  PROVE  PlaceInv'
<1>1. UNCHANGED <<Valid, EngineIds, WorldOfCollective>>
  BY SizesSame
<1>2. EngineRaySame
  BY DEF EngineRaySame
<1>3. Laid'
  BY <1>2, LaidSame DEF PlaceInv
<1>4. Seats => Seats'
  BY <1>2, SeatsSame
<1>5. Joined'
  BY <1>1 DEF PlaceInv, Joined, InUse, RanksJoining, PrefixOf, PerGroup, WorkersIn
<1>6. Nodes'
  BY DEF PlaceInv, Nodes
<1>7. Waiting => Waiting'
  BY WaitingSame
<1>8. Accepted' = Accepted
  BY DEF Accepted, InUse
<1> QED BY <1>1, <1>3, <1>4, <1>5, <1>6, <1>7, <1>8 DEF PlaceInv

\* The engine's workers use its cluster, a trainer may use its own.
LEMMA ClusterIs ==
  ASSUME which \in Sides
  PROVE  /\ which = "engine" => cluster = "engine"
         /\ cluster \in {"engine", "train"} /\ (cluster = "train" => which = "train")
BY DEF cluster, ClusterOf, Sides

\* Enough GPUs in all mean a node for every group.
LEMMA EnoughNodes ==
  ASSUME setup \in Setups, Valid, Nodes, World("engine") <= TotalGpus
  PROVE  PgCount("engine") <= Cardinality(joined)
<1> DEFINE c == Cardinality(joined)
           K == NodeCount("engine")
           g == setup.gpus
<1>1. c \in Nat /\ c # 0
  BY FS_CardinalityType, FS_EmptySet DEF Nodes
<1>2. g \in Nat \ {0} /\ K \in Nat /\ (Shared => K = 1)
  BY SetupTypes, SetupSizes
<1>3. CASE Unified("engine") \/ Shared
  <2>1. PgCount("engine") = 1
    BY <1>2, <1>3 DEF PgCount
  <2> QED BY <1>1, <2>1
<1>4. CASE ~Unified("engine") /\ ~Shared
  <2>1. PgCount("engine") = K
    BY <1>4 DEF PgCount
  <2>2. K * g <= g * c
    BY <1>4, SetupSizes DEF World, TotalGpus
  <2> HIDE DEF c, K, g
  <2>3. g * c = c * g /\ c * g \in Nat /\ K * g \in Nat
    BY <1>1, <1>2, MulCommutes
  <2>4. ASSUME c + 1 <= K PROVE FALSE
    <3>1. (c + 1) * g <= K * g
      BY <1>1, <1>2, <2>4, MulMono
    <3>2. (c + 1) * g = c * g + g
      BY <1>1, <1>2, MulStep
    <3> QED BY <1>2, <2>2, <2>3, <3>1, <3>2
  <2>5. K <= c
    BY <1>1, <1>2, <2>4
  <2> QED BY <2>1, <2>5 DEF c
<1> QED BY <1>3, <1>4

\* One lemma for each step that changes groups, nodes or workers.
LEMMA PlaceRequest == ASSUME Inv, PlaceInv, Request PROVE PlaceInv'
<1>1. /\ UNCHANGED <<setup, which, joined, held, groups, listed>>
      /\ pc = "place" /\ pc' = "ready" /\ held[cluster] = << >> /\ World(cluster) <= TotalGpus
      /\ ray' = [p \in DOMAIN ray \cup Range(PgIds(cluster)) |->
                   IF p \in DOMAIN ray THEN ray[p] ELSE << >>]
  BY DEF Request, built, closing
<1>2. UNCHANGED <<Valid, EngineIds, WorldOfCollective, PgCount("engine"), PgIds("engine")>>
  BY <1>1, SizesSame
<1>3. held["engine"] # << >> => EngineRaySame
  BY <1>1 DEF PlaceInv, EngineIds, EngineRaySame
<1>4. listed["engine"] => held["engine"] # << >>
  BY DEF PlaceInv
<1>5. Laid'
  BY <1>1, <1>3, <1>4, LaidSame DEF PlaceInv
<1>6. held["engine"] # << >> => Seats'
  BY <1>1, <1>3, SeatsSame DEF PlaceInv
<1>7. Nodes'
  BY <1>1 DEF PlaceInv, Nodes
<1>8. which = "engine" => Waiting'
  <2> SUFFICES ASSUME which = "engine" PROVE Waiting'
    OBVIOUS
  <2>1. cluster = "engine" /\ DOMAIN ray = {} /\ Valid
    BY <1>1, ClusterIs DEF Inv, PlaceInv, Accepted
  <2>2. PgCount("engine") <= Cardinality(joined)
    BY <1>1, <2>1, EnoughNodes DEF PlaceInv
  <2>3. DOMAIN ray' = Range(PgIds("engine"))
    BY <1>1, <2>1
  <2>4. \A k \in 1..PgCount("engine") : ray'[<<"engine", k>>] = << >>
    BY <1>1, <2>1, IdsOf
  <2> QED BY <1>1, <1>2, <2>1, <2>2, <2>3, <2>4 DEF Waiting
<1>9. Joined' /\ (Accepted' => Valid)
  BY <1>1 DEF Joined, InUse, Accepted, PlaceInv
<1>10. DOMAIN ray \subseteq DOMAIN ray'
  BY <1>1
<1> QED BY <1>1, <1>2, <1>5, <1>6, <1>7, <1>8, <1>9, <1>10 DEF PlaceInv

\* The groups are placed and become the cluster's.
LEMMA PlaceReady == ASSUME Inv, PlaceInv, Ready PROVE PlaceInv'
<1>1. /\ UNCHANGED <<setup, which, joined, ray, groups, listed>>
      /\ pc = "ready" /\ pc' = "create" /\ Pending = {}
      /\ held' = [held EXCEPT ![cluster] = PgIds(cluster)]
      /\ which \in Sides /\ held[cluster] = << >>
  BY DEF Ready, built, closing, Inv
<1>2. UNCHANGED <<Valid, EngineIds, WorldOfCollective, PgCount("engine"), PgIds("engine"),
                  PgSize("engine"), Unified("engine"), World("engine"), setup.gpus>>
  BY <1>1, SizesSame
<1>3. EngineRaySame
  BY <1>1 DEF EngineRaySame
<1>4. Laid'
  BY <1>1, <1>3, LaidSame DEF PlaceInv
<1>5. Nodes' /\ Joined' /\ Valid
  BY <1>1 DEF PlaceInv, Nodes, Joined, InUse, Accepted
<1>6. CASE which = "engine"
  <2>1. cluster = "engine" /\ Waiting /\ Valid
    BY <1>1, <1>5, <1>6, ClusterIs DEF PlaceInv
  <2>2. held'["engine"] = PgIds("engine")
    BY <1>1, <2>1 DEF Inv, Sides
  <2>3. \A k \in 1..PgCount("engine") : <<"engine", k>> \in DOMAIN ray /\ Seated(k)
    <3>1. \A k \in 1..PgCount("engine") : <<"engine", k>> \in Range(PgIds("engine"))
      BY IdsOf
    <3> QED BY <1>1, <2>1, <3>1 DEF Waiting, Pending
  <2>4. PgCount("engine") \in Nat \ {0} /\ PgSize("engine") \in Nat \ {0} /\ setup \in Setups
    BY <2>1, PgSizes DEF PlaceInv
  <2>5. Settled("engine")'
    BY <1>1, <1>2, <2>2, <2>3, <2>4 DEF Settled, Seated
  <2>6. Seats'
    <3>1. CASE Unified("engine")
      <4>1. 1 \in 1..PgCount("engine")
        BY <2>4
      <4> QED BY <1>1, <1>2, <2>3, <2>5, <3>1, <4>1 DEF Seats, Seated
    <3>2. CASE ~Unified("engine")
      BY <1>1, <1>2, <2>3, <2>5, <3>2 DEF Seats, Seated
    <3> QED BY <3>1, <3>2
  <2>7. held'["engine"] # << >>
    BY <2>2, <2>4 DEF PgIds
  <2>8. EngineIds \subseteq DOMAIN ray
    BY <2>3 DEF EngineIds
  <2> QED BY <1>1, <1>2, <1>4, <1>5, <1>6, <2>1, <2>6, <2>7, <2>8 DEF PlaceInv
<1>7. CASE which = "train"
  <2>1. held["engine"] # << >>
    BY <1>1, <1>7 DEF PlaceInv
  <2>2. cluster = "train"
    BY <1>1, <2>1, ClusterIs
  <2>3. held'["engine"] = held["engine"]
    BY <1>1, <2>2 DEF Inv, Sides
  <2>4. Seats'
    BY <1>1, <1>3, <2>1, <2>3, SeatsSame DEF PlaceInv
  <2> QED BY <1>1, <1>2, <1>4, <1>5, <1>7, <2>1, <2>3, <2>4 DEF PlaceInv
<1> QED BY <1>1, <1>6, <1>7 DEF Sides

\* The groups asked for are removed.
LEMMA PlaceTimesOut == ASSUME Inv, PlaceInv, ReadyTimesOut PROVE PlaceInv'
<1>1. /\ UNCHANGED <<setup, which, joined, held, groups, listed>>
      /\ pc = "ready" /\ pc' = "raised"
      /\ ray' = [p \in DOMAIN ray \ Range(PgIds(cluster)) |-> ray[p]]
      /\ which \in Sides /\ held[cluster] = << >>
  BY DEF ReadyTimesOut, RemoveGroups, Without, built, closing, Inv
<1>2. UNCHANGED <<Valid, EngineIds, WorldOfCollective>>
  BY <1>1, SizesSame
<1>3. held["engine"] # << >> => EngineRaySame /\ EngineIds \subseteq DOMAIN ray'
  <2> SUFFICES ASSUME held["engine"] # << >> PROVE EngineRaySame /\ EngineIds \subseteq DOMAIN ray'
    OBVIOUS
  <2>1. cluster = "train"
    BY <1>1, ClusterIs
  <2>2. \A k \in 1..PgCount("engine") : <<"engine", k>> \notin Range(PgIds("train"))
    BY DEF Range, PgIds
  <2>3. \A k \in 1..PgCount("engine") : <<"engine", k>> \in DOMAIN ray
    BY DEF PlaceInv, EngineIds
  <2> QED BY <1>1, <2>1, <2>2, <2>3 DEF EngineRaySame, EngineIds
<1>4. listed["engine"] => held["engine"] # << >>
  BY DEF PlaceInv
<1>5. Laid'
  BY <1>1, <1>3, <1>4, LaidSame DEF PlaceInv
<1>6. held["engine"] # << >> => Seats'
  BY <1>1, <1>3, SeatsSame DEF PlaceInv
<1>7. Nodes' /\ Joined' /\ ~Accepted'
  BY <1>1 DEF PlaceInv, Nodes, Joined, InUse, Accepted
<1> QED BY <1>1, <1>2, <1>3, <1>5, <1>6, <1>7 DEF PlaceInv

\* Workers are made in the groups.
LEMMA PlaceCreate == ASSUME Inv, PlaceInv, Create PROVE PlaceInv'
<1>1. /\ UNCHANGED <<setup, joined, ray, held>> /\ pc = "create"
      /\ Allocatable(which) /\ which \in Sides
      /\ groups' = [groups EXCEPT ![which] = GroupsOf(which)]
      /\ listed' = [listed EXCEPT ![which] = TRUE]
  BY DEF Create, closing, Inv
<1>2. UNCHANGED <<Valid, EngineIds, WorldOfCollective, PgCount("engine"), PgIds("engine"),
                  PgSize("engine"), Unified("engine"), World("engine"), setup.mp>>
  BY <1>1, SizesSame
<1>3. EngineRaySame
  BY <1>1 DEF EngineRaySame
<1>4. held["engine"] # << >> => Seats'
  BY <1>1, <1>3, SeatsSame DEF PlaceInv
<1>5. Nodes'
  BY <1>1 DEF PlaceInv, Nodes
<1>6. Valid
  BY <1>1 DEF PlaceInv, Accepted
<1>7. /\ groups' = [w \in Sides |-> groups'[w]] /\ listed' = [w \in Sides |-> listed'[w]]
  BY <1>1 DEF PlaceInv
<1>8. CASE which = "engine"
  <2>1. pc' = "place" /\ which' = "train" /\ Joined'
    BY <1>8 DEF Create, Joined, InUse
  <2>2. held["engine"] # << >>
    BY <1>1, <1>8, <1>6, SetupSizes DEF Allocatable, PlaceInv
  <2>3. Seats /\ setup \in Setups
    BY <2>2 DEF PlaceInv
  <2>4. groups'["engine"] = GroupsOf("engine") /\ listed'["engine"]
    BY <1>1, <1>8 DEF PlaceInv, Sides
  <2>5. Laid'
    <3>1. CASE Unified("engine")
      <4>0. PICK o : o = Sorted(ray[<<"engine", 1>>], 1, World("engine"))
        OBVIOUS
      <4>1. /\ Orders(o)
            /\ Tied(groups'["engine"], o, World("engine") \div setup.mp, setup.mp)
        BY <1>6, <2>3, <2>4, <3>1, <4>0, GroupsLaid
      <4>2. o = Sorted(ray'[<<"engine", 1>>], 1, World("engine")')
        BY <1>1, <1>2, <4>0
      <4>3. Orders(o)'
        BY <1>2, <4>1 DEF Orders
      <4> QED BY <1>2, <3>1, <4>1, <4>2, <4>3 DEF Laid
    <3>2. CASE ~Unified("engine")
      <4>1. Local(groups'["engine"], "engine", PgCount("engine"),
                  PgSize("engine") \div setup.mp, setup.mp)
        BY <1>6, <2>3, <2>4, <3>2, GroupsLaid
      <4> QED BY <1>2, <3>2, <4>1 DEF Laid
    <3> QED BY <3>1, <3>2
  <2> QED BY <1>1, <1>2, <1>4, <1>5, <1>6, <1>7, <2>1, <2>2, <2>4, <2>5 DEF PlaceInv
<1>9. CASE which = "train"
  <2>1. pc' = (IF setup.colocated THEN "up" ELSE "join") /\ which' = "train"
    BY <1>9 DEF Create
  <2>2. listed["engine"] /\ held["engine"] # << >>
    BY <1>1, <1>9 DEF PlaceInv
  <2>3. UNCHANGED groups["engine"] /\ UNCHANGED listed["engine"]
    BY <1>1, <1>9 DEF PlaceInv, Sides
  <2>4. Laid'
    BY <1>1, <1>3, <2>3, LaidSame DEF PlaceInv
  <2>5. Joined'
    BY <1>1, <2>1 DEF Joined, InUse
  <2> QED BY <1>1, <1>2, <1>4, <1>5, <1>6, <1>7, <2>1, <2>2, <2>3, <2>4, <2>5 DEF PlaceInv
<1> QED BY <1>1, <1>8, <1>9 DEF Sides

\* Both clusters give up their groups.
LEMMA PlaceEnds == ASSUME Inv, ScopeInv, PlaceInv, ShutdownClusters PROVE PlaceInv'
<1>1. /\ UNCHANGED <<setup, joined, which, groups, listed>>
      /\ pc = "leaving" /\ pc' = "ended" /\ held' = [c \in Sides |-> << >>]
  BY DEF ShutdownClusters, built, closing
<1>2. UNCHANGED <<Valid, EngineIds>>
  BY <1>1, SizesSame
<1>3. ~listed["engine"]
  BY <1>1 DEF ShutdownClusters, Made, ScopeInv, Sides
<1>4. Laid'
  BY <1>1, <1>3, LaidSame DEF PlaceInv
<1>5. Nodes' /\ Joined' /\ ~Accepted'
  BY <1>1 DEF PlaceInv, Nodes, Joined, InUse, Accepted
<1>6. held'["engine"] = << >>
  BY <1>1 DEF Sides
<1> QED BY <1>1, <1>2, <1>3, <1>4, <1>5, <1>6 DEF PlaceInv

\* One more node.
LEMMA PlaceNodeJoins == ASSUME Inv, PlaceInv, NodeJoins PROVE PlaceInv'
<1>1. /\ UNCHANGED <<setup, pc, which, ray, held, groups, listed, dropped>>
      /\ pc \notin {"configure", "up", "closing"}
  BY DEF NodeJoins, built, closing
<1>2. UNCHANGED <<Valid, EngineIds, PgCount("engine"), PgIds("engine"), PgSize("engine"),
                  Unified("engine"), World("engine"), setup.gpus>>
  BY <1>1, SizesSame
<1>3. EngineRaySame
  BY <1>1 DEF EngineRaySame
<1>4. Laid'
  BY <1>1, <1>3, LaidSame DEF PlaceInv
<1>5. held["engine"] # << >> => Seats'
  BY <1>1, <1>3, SeatsSame DEF PlaceInv
<1>6. PICK n \in 1..setup.real : joined' = joined \cup {n} /\ n \notin joined
  BY DEF NodeJoins
<1>7. Nodes' /\ Cardinality(joined') = Cardinality(joined) + 1
  <2>1. joined \subseteq Nat /\ IsFiniteSet(joined) /\ n \in Nat
    BY <1>6 DEF PlaceInv, Nodes
  <2>2. IsFiniteSet(joined \cup {n}) /\ Cardinality(joined \cup {n}) = Cardinality(joined) + 1
    BY <1>6, <2>1, FS_AddElement
  <2> QED BY <1>6, <2>1, <2>2 DEF Nodes
<1>8. Waiting => Waiting'
  <2> SUFFICES ASSUME Waiting PROVE Waiting'
    OBVIOUS
  <2>1. PgCount("engine") \in Nat /\ Cardinality(joined) \in Nat
    BY PgSizes, FS_CardinalityType DEF Waiting, PlaceInv, Nodes
  <2>2. PgCount("engine") <= Cardinality(joined')
    BY <1>7, <2>1 DEF Waiting
  <2> QED BY <1>1, <1>2, <2>2 DEF Waiting, Seated
<1>9. Joined' /\ Accepted' = Accepted
  BY <1>1 DEF Joined, InUse, Accepted
<1> QED BY <1>1, <1>2, <1>4, <1>5, <1>7, <1>8, <1>9 DEF PlaceInv

\* Ray places a group: on a node that is free, or over several.
LEMMA PlacePlaceGroup == ASSUME Inv, PlaceInv, PlaceGroup PROVE PlaceInv'
<1>1. UNCHANGED <<setup, pc, which, joined, held, groups, listed, dropped>>
  BY DEF PlaceGroup, built, closing
<1>2. UNCHANGED <<Valid, EngineIds, WorldOfCollective, PgCount("engine"), PgIds("engine"),
                  PgSize("engine"), Unified("engine"), World("engine"), setup.gpus>>
  BY <1>1, SizesSame
<1>3. PICK p \in DOMAIN ray : ray[p] = << >> /\ \E f \in Placements(p) : ray' = [ray EXCEPT ![p] = f]
  BY DEF PlaceGroup
<1>4. PICK f \in Placements(p) : ray' = [ray EXCEPT ![p] = f]
  BY <1>3
<1>5. DOMAIN ray' = DOMAIN ray /\ ray'[p] = f /\ \A s \in DOMAIN ray : s # p => ray'[s] = ray[s]
  BY <1>3, <1>4
<1>6. held["engine"] # << >> => EngineRaySame
  <2> SUFFICES ASSUME held["engine"] # << >>, NEW k \in 1..PgCount("engine")
               PROVE  ray'[<<"engine", k>>] = ray[<<"engine", k>>]
    BY DEF EngineRaySame
  <2>1. Seats /\ Valid /\ setup \in Setups /\ <<"engine", k>> \in DOMAIN ray
    BY DEF PlaceInv, EngineIds
  <2>2. ray[<<"engine", k>>] \in [1..PgSize("engine") -> Nat] /\ PgSize("engine") \in Nat \ {0}
    BY <2>1, PgSizes DEF Seats, Settled
  <2>3. ray[<<"engine", k>>] # << >>
    <3>1. DOMAIN ray[<<"engine", k>>] = 1..PgSize("engine")
      BY <2>2
    <3>2. 1 \in DOMAIN ray[<<"engine", k>>]
      BY <2>2, <3>1
    <3> QED BY <3>2
  <2>4. p # <<"engine", k>>
    BY <1>3, <2>3
  <2> QED BY <1>5, <2>1, <2>4
<1>7. listed["engine"] => held["engine"] # << >>
  BY DEF PlaceInv
<1>8. Laid'
  BY <1>1, <1>6, <1>7, LaidSame DEF PlaceInv
<1>9. held["engine"] # << >> => Seats'
  BY <1>1, <1>6, SeatsSame DEF PlaceInv
<1>10. Nodes'
  BY <1>1 DEF PlaceInv, Nodes
<1>11. Joined' /\ Accepted' = Accepted
  BY <1>1, <1>2 DEF PlaceInv, Joined, InUse, Accepted, RanksJoining, PrefixOf, PerGroup, WorkersIn
<1>12. Waiting => Waiting'
  <2> SUFFICES ASSUME Waiting PROVE Waiting'
    OBVIOUS
  <2>1. PICK k \in 1..PgCount("engine") : p = <<"engine", k>>
    BY <1>3, IdsOf DEF Waiting
  <2>2. /\ f \in [1..PgSize("engine") -> Nat]
        /\ IF Unified("engine")
           THEN \A n \in Nat : Cardinality({b \in 1..World("engine") : f[b] = n}) <= setup.gpus
           ELSE \A b, d \in 1..PgSize("engine") : f[b] = f[d]
    BY <1>3, <1>4, <2>1, PlacementSeats DEF PlaceInv
  <2>3. Seated(k)'
    BY <1>1, <1>2, <1>5, <2>1, <2>2 DEF Seated
  <2>4. ASSUME NEW l \in 1..PgCount("engine"), l # k
        PROVE  Seated(l)' \/ ray'[<<"engine", l>>] = << >>
    <3>1. <<"engine", l>> \in DOMAIN ray /\ <<"engine", l>> # p
      BY <2>1, <2>4, IdsOf DEF Waiting
    <3>2. ray'[<<"engine", l>>] = ray[<<"engine", l>>]
      BY <1>5, <3>1
    <3>3. Seated(l) \/ ray[<<"engine", l>>] = << >>
      BY DEF Waiting
    <3> QED BY <1>2, <3>2, <3>3 DEF Seated
  <2> QED BY <1>1, <1>2, <1>5, <2>3, <2>4 DEF Waiting
<1>13. DOMAIN ray' = DOMAIN ray
  BY <1>5
<1>14. DOMAIN ray # {}
  BY <1>3
<1> QED BY <1>1, <1>2, <1>8, <1>9, <1>10, <1>11, <1>12, <1>13, <1>14 DEF PlaceInv

\* There is nothing at first but a node.
LEMMA PlaceInit == Init => PlaceInv
<1> SUFFICES ASSUME Init PROVE PlaceInv
  OBVIOUS
<1>1. /\ setup \in Setups /\ pc = "configure" /\ which = "engine" /\ DOMAIN ray = {}
      /\ held = [c \in Sides |-> << >>] /\ groups = [w \in Sides |-> << >>]
      /\ listed = [w \in Sides |-> FALSE]
  BY DEF Init
<1>2. PICK n \in 1..setup.real : joined = 1..n
  BY DEF Init
<1>3. Nodes
  <2>1. n \in Nat \ {0}
    BY <1>2
  <2>2. IsFiniteSet(1..n) /\ 1 \in 1..n
    BY <2>1, FS_Interval
  <2> QED BY <1>2, <2>2 DEF Nodes
<1>4. Laid /\ Joined /\ held["engine"] = << >> /\ groups["engine"] = << >> /\ ~listed["engine"]
  BY <1>1 DEF Laid, Joined, InUse, Sides
<1>5. ~Accepted
  BY <1>1 DEF Accepted, InUse
<1> QED BY <1>1, <1>3, <1>4, <1>5 DEF PlaceInv

\* Every step keeps what the replicas rely on.
LEMMA PlaceNext == ASSUME Inv, ScopeInv, PlaceInv, [Next]_vars PROVE PlaceInv'
<1>0. which \in Sides /\ listed = [w \in Sides |-> listed[w]] /\ "engine" \in Sides
  BY DEF Inv, PlaceInv, Sides
<1>1. CASE Configure \/ RefuseConfig \/ Reuse \/ Insufficient \/ CreateRaises \/ Join \/ JoinRaises
  <2>1. /\ UNCHANGED <<setup, joined, ray, held, groups, which, listed, dropped>>
        /\ pc' \notin {"configure", "ready", "closing"}
    BY <1>1 DEF Configure, RefuseConfig, Reuse, Insufficient, CreateRaises, Join, JoinRaises,
                built, closing
  <2>2. which = "engine" /\ pc' = "place" => pc \in {"configure", "place"}
    BY <1>1 DEF Configure, RefuseConfig, Reuse, Insufficient, CreateRaises, Join, JoinRaises
  <2>3. which = "train" /\ pc' \in {"place", "create"} => pc \in {"place", "create"}
    BY <1>1 DEF Configure, RefuseConfig, Reuse, Insufficient, CreateRaises, Join, JoinRaises,
                PlaceInv
  <2>4. Accepted' => Valid
    BY <1>1 DEF Configure, RefuseConfig, Reuse, Insufficient, CreateRaises, Join, JoinRaises,
                PlaceInv, Accepted, InUse
  <2>5. InUse' => Cardinality(RanksJoining(groups["engine"])) = WorldOfCollective
    BY <1>1 DEF Configure, RefuseConfig, Reuse, Insufficient, CreateRaises, Join, JoinRaises,
                InUse
  <2> QED BY <1>0, <2>1, <2>2, <2>3, <2>4, <2>5, PlaceSame
<1>2. CASE Request
  BY <1>2, PlaceRequest
<1>3. CASE Ready
  BY <1>3, PlaceReady
<1>4. CASE ReadyTimesOut
  BY <1>4, PlaceTimesOut
<1>5. CASE Create
  BY <1>5, PlaceCreate
<1>6. CASE (\E w \in Sides : UserShutdown(w)) \/ Leave \/ DropEngine \/ DropPolicy
  <2>1. /\ UNCHANGED <<setup, joined, ray, held, groups>> /\ which' \in Sides
        /\ listed' = listed \/ listed' = [listed EXCEPT !["train"] = FALSE]
        /\ pc' \in {"up", "closing", "leaving"}
    BY <1>0, <1>6 DEF UserShutdown, Shutdown, Leave, DropEngine, DropPolicy, alive, built, closing,
                      Sides
  <2>2. listed' = [w \in Sides |-> listed'[w]] /\ (listed'["engine"] => listed["engine"])
    BY <1>0, <2>1 DEF Sides
  <2>3. InUse' => InUse
    <3>1. CASE \E w \in Sides : UserShutdown(w)
      BY <3>1 DEF UserShutdown, InUse
    <3>2. CASE Leave \/ DropPolicy
      BY <3>2 DEF Leave, DropPolicy, InUse
    <3>3. CASE DropEngine
      BY <3>3 DEF DropEngine, Shutdown, InUse
    <3> QED BY <1>6, <3>1, <3>2, <3>3
  <2>4. Accepted' => Valid
    BY <2>1, <2>3 DEF Accepted, PlaceInv
  <2> QED BY <2>1, <2>2, <2>3, <2>4, PlaceSame
<1>7. CASE GracefulEnds \/ Escalate \/ GracefulLost
  <2>1. /\ UNCHANGED <<setup, joined, ray, held, groups, which, dropped>>
        /\ pc = "closing" /\ pc' \in {"up", "leaving"} /\ (pc' = "up" => which \notin dropped)
        /\ \E b \in BOOLEAN : listed' = [listed EXCEPT ![which] = b]
    BY <1>7 DEF GracefulEnds, Escalate, GracefulLost, Resumes, alive
  <2>2. listed' = [w \in Sides |-> listed'[w]] /\ (listed'["engine"] => listed["engine"])
    BY <1>0, <2>1 DEF ScopeInv
  <2>3. InUse' => InUse
    BY <2>1 DEF InUse
  <2>4. Accepted' => Valid
    BY <2>1, <2>3 DEF Accepted, PlaceInv
  <2> QED BY <1>0, <2>1, <2>2, <2>3, <2>4, PlaceSame
<1>8. CASE ShutdownClusters
  BY <1>8, PlaceEnds
<1>9. CASE NodeJoins
  BY <1>9, PlaceNodeJoins
<1>10. CASE PlaceGroup
  BY <1>10, PlacePlaceGroup
<1>11. CASE Generate \/ Worker \/ \E w \in Sides : Reap(w)
  <2>1. UNCHANGED <<setup, pc, which, joined, ray, held, groups, listed, dropped>>
    BY <1>11 DEF Generate, Worker, CleanupFails, CleansUp, WorkerDies, Reap, alive, built
  <2> QED BY <2>1, PlaceStutter
<1>12. CASE UNCHANGED vars
  BY <1>12, PlaceStutter DEF vars
<1> QED
  BY <1>1, <1>2, <1>3, <1>4, <1>5, <1>6, <1>7, <1>8, <1>9, <1>10, <1>11, <1>12
  DEF Next, Driver, Ray

\* It is enough.
LEMMA PlaceInvPlaces == PlaceInv => ReplicasPlaced
BY PlacedWell DEF PlaceInv

-----------------------------------------------------------------------------
(***************************************************************************)
(* The rows of a generation.                                               *)
(***************************************************************************)

\* The first a rows.
UpTo(a) == [i \in 1..a |-> i]

\* They are a list of a numbers.
LEMMA UpToFacts ==
  ASSUME NEW a \in Nat PROVE UpTo(a) \in Seq(Nat) /\ Len(UpTo(a)) = a /\ \A i \in 1..a : UpTo(a)[i] = i
<1>1. UpTo(a) \in [1..a -> Nat] /\ \A i \in 1..a : UpTo(a)[i] = i
  BY DEF UpTo
<1> QED BY <1>1, MapLists

\* The rows of the next shard follow those before it.
LEMMA NextRows ==
  ASSUME NEW R \in Nat, NEW a \in Nat, NEW d \in Nat
  PROVE  UpTo(Smaller(R, a)) \o Slice(UpTo(R), a, a + d) = UpTo(Smaller(R, a + d))
<1> DEFINE t == Slice(UpTo(R), a, a + d)
           b == Smaller(a + d, R)
<1>1. t = SubSeq(UpTo(R), a + 1, b) /\ b \in Nat /\ b <= R
  <2>1. Len(UpTo(R)) = R
    BY UpToFacts
  <2>2. t = SubSeq(UpTo(R), a + 1, b)
    <3> DEFINE s == UpTo(R)
    <3> HIDE DEF s
    <3>1. Slice(s, a, a + d) = SubSeq(s, a + 1, Smaller(a + d, Len(s)))
      BY DEF Slice
    <3>2. Smaller(a + d, Len(s)) = b
      BY <2>1 DEF s
    <3>3. Slice(s, a, a + d) = SubSeq(s, a + 1, b)
      BY <3>1, <3>2
    <3> QED BY <3>3 DEF s
  <2>3. b \in Nat /\ b <= R
    BY DEF Smaller
  <2> QED BY <2>2, <2>3
<1>2. CASE a < R
  <2>1. Smaller(R, a) = a /\ Smaller(R, a + d) = b /\ a <= b
    BY <1>2 DEF Smaller
  <2> HIDE DEF t, b
  <2>2. t \in Seq(Nat) /\ Len(t) = b - a /\ \A i \in 1..b - a : t[i] = a + i
    <3> DEFINE s == UpTo(R)
               e == b - a
    <3>1. s \in Seq(Nat) /\ Len(s) = R /\ \A i \in 1..R : s[i] = i
      BY UpToFacts
    <3>2. t = Slice(s, a, b)
      <4>1. Smaller(b, R) = b
        BY <1>1 DEF Smaller
      <4> HIDE DEF s
      <4>2. Slice(s, a, b) = SubSeq(s, a + 1, b)
        BY <3>1, <4>1 DEF Slice
      <4> QED BY <1>1, <4>2 DEF s
    <3> HIDE DEF s
    <3>3. e \in Nat /\ b = a + e /\ b <= Len(s)
      BY <1>1, <2>1, <3>1
    <3> HIDE DEF e
    <3>4. SliceIs(t, s, Nat, a, e)
      BY <1>1, <3>1, <3>2, <3>3, SliceFacts
    <3>5. \A i \in 1..e : a + i \in 1..R /\ s[a + i] = a + i
      BY <3>1, <3>3
    <3> QED BY <3>4, <3>5 DEF SliceIs, e
  <2>3. UpTo(a) \o t \in Seq(Nat) /\ Len(UpTo(a) \o t) = b
        /\ \A i \in 1..b : (UpTo(a) \o t)[i] = i
    <3> DEFINE s == UpTo(a)
    <3>1. s \in Seq(Nat) /\ Len(s) = a /\ \A i \in 1..a : s[i] = i
      BY UpToFacts
    <3> HIDE DEF s
    <3>2. s \o t \in Seq(Nat) /\ Len(s \o t) = a + (b - a)
      <4>1. t \in Seq(Nat) /\ Len(t) = b - a
        BY <2>2
      <4>2. s \in Seq(Nat) /\ Len(s) = a
        BY <3>1
      <4> QED BY <4>1, <4>2, ConcatProperties
    <3>3. ASSUME NEW i \in 1..b PROVE (s \o t)[i] = i
      <4>1. CASE i <= a
        BY <2>2, <3>1, <4>1, <1>1
      <4>2. CASE i > a
        <5>1. i - a \in 1..b - a /\ i \in 1..Len(s) + Len(t)
          BY <1>1, <2>1, <2>2, <3>1, <4>2
        <5>2. (s \o t)[i] = t[i - a]
          BY <2>2, <3>1, <4>2, <5>1
        <5> QED BY <2>2, <5>1, <5>2
      <4>3. i <= a \/ i > a
        <5>1. i \in Nat /\ a \in Nat
          OBVIOUS
        <5> QED BY <5>1
      <4> QED BY <4>1, <4>2, <4>3
    <3>4. a + (b - a) = b
      BY <1>1
    <3> QED BY <3>2, <3>3, <3>4 DEF s
  <2>4. UpTo(b) \in Seq(Nat) /\ Len(UpTo(b)) = b /\ \A i \in 1..b : UpTo(b)[i] = i
    BY <1>1, UpToFacts
  <2>5. UpTo(a) \o t = UpTo(b)
    <3> DEFINE x == UpTo(a) \o t
               y == UpTo(b)
    <3>1. x \in Seq(Nat) /\ y \in Seq(Nat) /\ Len(x) = b /\ Len(y) = b /\ \A i \in 1..b : x[i] = y[i]
      BY <2>3, <2>4
    <3> HIDE DEF x, y
    <3>2. x = y
      BY <3>1, <1>1
    <3> QED BY <3>2 DEF x, y
  <2> QED BY <2>1, <2>5 DEF t, b
<1>3. CASE ~(a < R)
  <2>1. Smaller(R, a) = R /\ Smaller(R, a + d) = R /\ b = R
    BY <1>3 DEF Smaller
  <2>2. t = << >>
    <3> DEFINE s == UpTo(R)
    <3>1. t = SubSeq(s, a + 1, R)
      BY <1>1, <2>1
    <3> HIDE DEF s, t
    <3>2. SubSeq(s, a + 1, R) = [j \in 1..(1 + R - (a + 1)) |-> s[(a + 1) + j - 1]]
      OBVIOUS
    <3>3. 1..(1 + R - (a + 1)) = {}
      BY <1>3
    <3> QED BY <3>1, <3>2, <3>3
  <2> HIDE DEF t
  <2>3. UpTo(R) \o t = UpTo(R)
    BY <2>2, UpToFacts
  <2> QED BY <2>1, <2>3 DEF t
<1> QED BY <1>2, <1>3

\* One list, flattened, is itself.
LEMMA OneFlat == ASSUME NEW x PROVE FlattenSeq([c \in 1..1 |-> x]) = x
<1> DEFINE fs == [c \in 1..1 |-> x]
<1>1. Len(fs) = 1 /\ fs[1] = x
  OBVIOUS
<1> HIDE DEF fs
<1>4. \E g : Joins(g, fs, Len(fs)) /\ FlattenSeq(fs) = g[Len(fs)]
  <2>1. Len(fs) \in Nat \ {0}
    BY <1>1
  <2> QED BY <2>1, FlattenIs
<1>2. PICK g : Joins(g, fs, 1) /\ FlattenSeq(fs) = g[1]
  BY <1>1, <1>4
<1>3. g[1] = fs[1]
  BY <1>2 DEF Joins
<1> QED BY <1>1, <1>2, <1>3 DEF fs

\* Shards rounded up cover the rows.
LEMMA CeilCovers ==
  ASSUME NEW R \in Nat, NEW D \in Nat \ {0}
  PROVE  CeilDiv(R, D) \in Nat /\ CeilDiv(R, D) * D \in Nat /\ R <= CeilDiv(R, D) * D
<1> DEFINE a == R + D - 1
           q == a \div D
           r == a % D
<1>1. a \in Nat
  OBVIOUS
<1>2. q \in Nat /\ r \in 0..D - 1 /\ a = q * D + r
  <2> HIDE DEF a
  <2> QED BY <1>1, DivFacts
<1> HIDE DEF q, r
<1>3. q * D \in Nat
  BY <1>2
<1>4. R <= q * D
  BY <1>2, <1>3
<1> QED BY <1>2, <1>3, <1>4 DEF CeilDiv, q

\* The rows of one replica.
LEMMA ShardIsSlice ==
  ASSUME NEW k \in Nat \ {0}, DpSize \in Nat \ {0}
  PROVE  LET size == CeilDiv(Rows, DpSize)
         IN RowsOfShard(k) = Slice(UpTo(Rows), (k - 1) * size, (k - 1) * size + size)
<1> DEFINE size == CeilDiv(Rows, DpSize)
           start(c) == (c - 1) * Rows + (k - 1) * size
           x(c) == Slice(UpTo(Rows), start(c), start(c) + size)
<1>1. Rows \in Nat \ {0} /\ Len(UpTo(Rows)) = Rows
  BY SetupAssumption, UpToFacts
<1>2. Rows \div Rows = 1
  <2>1. (1 * Rows + 0) \div Rows = 1
    BY <1>1, DivBlock
  <2> QED BY <1>1, <2>1
<1>3. RowsOfShard(k) = FlattenSeq([c \in 1..1 |-> x(c)])
  BY <1>1, <1>2 DEF RowsOfShard, Shard, ShardSize, UpTo
<1>5. size \in Nat
  BY <1>1, CeilCovers
<1> HIDE DEF size
<1>4. start(1) = (k - 1) * size
  <2>1. (k - 1) * size \in Nat /\ (1 - 1) * Rows = 0
    BY <1>1, <1>5
  <2> QED BY <2>1
<1>6. FlattenSeq([c \in 1..1 |-> x(c)]) = x(1)
  <2> DEFINE y == x(1)
  <2>1. [c \in 1..1 |-> x(c)] = [c \in 1..1 |-> y]
    OBVIOUS
  <2> HIDE DEF y
  <2>2. FlattenSeq([c \in 1..1 |-> y]) = y
    BY OneFlat
  <2> QED BY <2>1, <2>2 DEF y
<1> QED BY <1>3, <1>4, <1>6 DEF size

\* The coordinate of a worker grows by one at each first of a replica.
LEMMA CoordStep ==
  ASSUME NEW m \in Nat \ {0}, NEW k \in Nat \ {0}
  PROVE  /\ k % m # 0 => k \div m = (k - 1) \div m
         /\ k % m = 0 => k \div m = (k - 1) \div m + 1
<1> DEFINE c == k - 1
           a == c \div m
           r == c % m
<1>1. c \in Nat /\ k = c + 1
  OBVIOUS
<1> HIDE DEF c
<1>2. a \in Nat /\ r \in 0..m - 1 /\ c = a * m + r
  BY <1>1, DivFacts
<1> HIDE DEF a, r
<1>3. a * m \in Nat /\ (a + 1) * m = a * m + m
  BY <1>2, MulStep
<1>4. CASE r + 1 < m
  <2> DEFINE s == r + 1
  <2>1. s \in 0..m - 1 /\ s # 0 /\ k = a * m + s
    BY <1>1, <1>2, <1>3, <1>4
  <2> HIDE DEF s
  <2>2. k \div m = a /\ k % m = s
    BY <1>2, <2>1, DivBlock
  <2> QED BY <2>1, <2>2 DEF a, c
<1>5. CASE ~(r + 1 < m)
  <2> DEFINE b == a + 1
  <2>1. b \in Nat /\ 0 \in 0..m - 1 /\ k = b * m + 0
    BY <1>1, <1>2, <1>3, <1>5
  <2>2. b = a + 1
    OBVIOUS
  <2> HIDE DEF b
  <2>3. k \div m = b /\ k % m = 0
    BY <2>1, DivBlock
  <2> QED BY <2>2, <2>3 DEF a, c
<1> QED BY <1>4, <1>5

\* The shards of the leaders, in the order of the workers, are the rows.
LEMMA Generated ==
  ASSUME setup \in Setups, DpSize \in Nat \ {0}, NEW n \in Nat \ {0}, NEW W, W = n * setup.mp
  PROVE  FlattenSeq([k \in 1..W |-> LeaderRows(k)]) = UpTo(Smaller(Rows, n * CeilDiv(Rows, DpSize)))
<1> DEFINE m == setup.mp
           size == CeilDiv(Rows, DpSize)
           fs == [k \in 1..W |-> LeaderRows(k)]
           L(k) == UpTo(Smaller(Rows, (DpCoord(k) + 1) * size))
<1>1. m \in Nat \ {0} /\ Rows \in Nat \ {0} /\ W = n * m
  BY SetupTypes, SetupAssumption
<1>2. size \in Nat
  BY <1>1, CeilCovers
<1>3. W \in Nat \ {0}
  <2> HIDE DEF m
  <2>1. n * m \in Nat /\ n * m >= 1
    <3>1. 1 * m <= n * m
      BY <1>1, MulMono
    <3>2. n * m \in Nat
      BY <1>1
    <3> QED BY <1>1, <3>1, <3>2
  <2> QED BY <1>1, <2>1
<1>4. \A k \in 1..W : /\ DpCoord(k) = (k - 1) \div m
                      /\ fs[k] = IF (k - 1) % m = 0 THEN RowsOfShard(DpCoord(k) + 1) ELSE << >>
  BY DEF LeaderRows, IsRankZero, DpCoord
<1>5. \A k \in 1..W : DpCoord(k) \in Nat
  <2> SUFFICES ASSUME NEW k \in 1..W PROVE DpCoord(k) \in Nat
    OBVIOUS
  <2> DEFINE c == k - 1
  <2>1. c \in Nat
    BY <1>3
  <2> HIDE DEF c, m
  <2>2. c \div m \in Nat
    BY <1>1, <2>1, DivFacts
  <2> QED BY <1>4, <2>2 DEF c
<1>6. \A k \in Nat \ {0} : RowsOfShard(k) = Slice(UpTo(Rows), (k - 1) * size, (k - 1) * size + size)
  BY ShardIsSlice
<1> DEFINE D(k) == DpCoord(k)
<1>7. Len(fs) = W
  BY <1>3
<1>8. PICK g : Joins(g, fs, W) /\ FlattenSeq(fs) = g[W]
  <2> HIDE DEF fs
  <2> QED BY <1>3, <1>7, FlattenIs
<1>9. \A k \in 1..W : g[k] = IF k = 1 THEN fs[k] ELSE g[k - 1] \o fs[k]
  BY <1>8 DEF Joins
<1> HIDE DEF fs, m, size
<1>10. g[1] = L(1)
  <2>1. 1 \in 1..W /\ 1 - 1 = 0
    BY <1>3
  <2>2. (0 * m + 0) \div m = 0 /\ (0 * m + 0) % m = 0
    BY <1>1, DivBlock
  <2>3. 0 * m + 0 = 0
    BY <1>1
  <2>4. DpCoord(1) = 0 /\ fs[1] = RowsOfShard(0 + 1)
    BY <1>4, <2>1, <2>2, <2>3
  <2>5. RowsOfShard(1) = Slice(UpTo(Rows), 0, 0 + size)
    <3>1. (1 - 1) * size = 0
      BY <1>2
    <3> QED BY <1>6, <3>1
  <2>6. UpTo(Smaller(Rows, 0)) \o Slice(UpTo(Rows), 0, 0 + size) = UpTo(Smaller(Rows, 0 + size))
    BY <1>1, <1>2, NextRows
  <2>7. Smaller(Rows, 0) = 0
    BY <1>1 DEF Smaller
  <2>8. UpTo(0) = << >>
    BY DEF UpTo
  <2>9. Slice(UpTo(Rows), 0, 0 + size) \in Seq(Nat)
    <3> DEFINE s == UpTo(Rows)
               t == Smaller(0 + size, Len(s))
    <3>1. s \in Seq(Nat) /\ Len(s) = Rows
      BY <1>1, UpToFacts
    <3> HIDE DEF s
    <3>2. t \in Nat /\ t <= Len(s)
      BY <1>1, <1>2, <3>1 DEF Smaller
    <3>3. Slice(s, 0, 0 + size) = SubSeq(s, 1, t)
      BY DEF Slice
    <3> HIDE DEF t
    <3>4. SubSeq(s, 1, t) \in Seq(Nat)
      BY <3>1, <3>2
    <3> QED BY <3>3, <3>4 DEF s
  <2>10. Slice(UpTo(Rows), 0, 0 + size) = UpTo(Smaller(Rows, 0 + size))
    <3> DEFINE t == Slice(UpTo(Rows), 0, 0 + size)
    <3>1. t \in Seq(Nat) /\ << >> \o t = UpTo(Smaller(Rows, 0 + size))
      BY <2>6, <2>7, <2>8, <2>9
    <3> HIDE DEF t
    <3>2. << >> \o t = t
      BY <3>1
    <3> QED BY <3>1, <3>2 DEF t
  <2>11. (0 + 1) * size = 0 + size
    BY <1>2
  <2>12. g[1] = fs[1]
    BY <1>9, <2>1
  <2> QED BY <2>4, <2>5, <2>10, <2>11, <2>12
<1>11. ASSUME NEW k \in 1..W, k # 1, g[k - 1] = L(k - 1) PROVE g[k] = L(k)
  <2> DEFINE j == k - 1
  <2>1. j \in 1..W /\ j \in Nat \ {0}
    BY <1>3, <1>11
  <2>2. DpCoord(k) = j \div m /\ DpCoord(j) = (j - 1) \div m
        /\ fs[k] = IF j % m = 0 THEN RowsOfShard(DpCoord(k) + 1) ELSE << >>
    BY <1>4, <2>1
  <2>3. g[k] = g[j] \o fs[k] /\ g[j] = L(j)
    BY <1>9, <1>11
  <2> HIDE DEF j
  <2>4. CASE j % m # 0
    <3>1. DpCoord(k) = DpCoord(j)
      BY <1>1, <2>1, <2>2, <2>4, CoordStep
    <3>2. fs[k] = << >>
      BY <2>2, <2>4
    <3>3. Smaller(Rows, (DpCoord(j) + 1) * size) \in Nat
      <4> DEFINE p == (DpCoord(j) + 1) * size
      <4>1. p \in Nat
        BY <1>2, <1>5, <2>1
      <4> HIDE DEF p
      <4>2. Smaller(Rows, p) \in Nat
        BY <1>1, <4>1 DEF Smaller
      <4> QED BY <4>2 DEF p
    <3>4. L(j) \in Seq(Nat)
      BY <3>3, UpToFacts
    <3>5. L(j) \o << >> = L(j)
      <4> HIDE DEF L
      <4> QED BY <3>4
    <3> QED BY <2>3, <3>1, <3>2, <3>5
  <2>5. CASE j % m = 0
    <3>0. DpCoord(k) = DpCoord(j) + 1
      <4>1. j \div m = (j - 1) \div m + 1
        BY <1>1, <2>1, <2>5, CoordStep
      <4> QED BY <2>2, <4>1
    <3> DEFINE d == DpCoord(j) + 1
               a == d * size
    <3>1. DpCoord(k) = d
      BY <3>0
    <3>2. d \in Nat \ {0} /\ d + 1 \in Nat \ {0} /\ (d + 1) - 1 = d
      BY <1>5, <2>1
    <3>3. L(j) = UpTo(Smaller(Rows, a))
      OBVIOUS
    <3>4. L(k) = UpTo(Smaller(Rows, (d + 1) * size))
      BY <3>1
    <3>5. fs[k] = RowsOfShard(d + 1)
      BY <2>2, <2>5, <3>1
    <3> HIDE DEF d, L
    <3>6. a \in Nat
      BY <1>2, <3>2, MulStep
    <3>7. (d + 1) * size = a + size
      BY <1>2, <3>2, MulStep
    <3>8. RowsOfShard(d + 1) = Slice(UpTo(Rows), a, a + size)
      BY <1>6, <3>2
    <3> HIDE DEF a, size
    <3>9. UpTo(Smaller(Rows, a)) \o Slice(UpTo(Rows), a, a + size) = UpTo(Smaller(Rows, a + size))
      BY <1>1, <1>2, <3>6, NextRows
    <3>10. L(k) = UpTo(Smaller(Rows, a + size))
      BY <3>4, <3>7
    <3>11. L(j) \o fs[k] = L(k)
      BY <3>3, <3>5, <3>8, <3>9, <3>10
    <3> QED BY <2>3, <3>11
  <2> QED BY <2>4, <2>5
<1>12. \A k \in 1..W : g[k] = L(k)
  <2> DEFINE Bad == {k \in 1..W : g[k] # L(k)}
  <2>1. Bad \in SUBSET Nat
    BY <1>3
  <2>2. CASE Bad # {}
    <3>1. PICK k \in Bad : \A i \in Bad : k <= i
      BY <2>1, <2>2, LeastNatural
    <3> HIDE DEF L
    <3>2. k \in 1..W /\ g[k] # L(k)
      BY <3>1
    <3>3. k # 1
      BY <1>10, <3>2
    <3>4. k - 1 \in 1..W /\ ~(k <= k - 1)
      BY <1>3, <3>2, <3>3
    <3>5. g[k - 1] = L(k - 1)
      BY <3>1, <3>4
    <3> QED BY <1>11, <3>2, <3>3, <3>5
  <2> QED BY <2>2
<1>13. DpCoord(W) + 1 = n
  <2> DEFINE a == n - 1
             r == m - 1
  <2>1. a \in Nat /\ r \in 0..m - 1
    BY <1>1
  <2>2. W - 1 = a * m + r
    <3>1. (a + 1) * m = a * m + m /\ a * m \in Nat
      BY <1>1, <2>1, MulStep
    <3>2. a + 1 = n /\ r = m - 1
      BY <1>1
    <3> HIDE DEF a, r
    <3> QED BY <1>1, <1>3, <3>1, <3>2
  <2>3. a + 1 = n
    OBVIOUS
  <2> HIDE DEF a, r
  <2>4. (a * m + r) \div m = a
    BY <1>1, <2>1, DivBlock
  <2>5. W \in 1..W
    BY <1>3
  <2> QED BY <1>4, <2>2, <2>3, <2>4, <2>5
<1>14. g[W] = L(W)
  BY <1>3, <1>12
<1> QED BY <1>8, <1>13, <1>14 DEF fs, size

\* A step that generates nothing.
LEMMA RowsSame == ASSUME RowsInOrder, UNCHANGED <<setup, rows>> PROVE RowsInOrder'
<1>1. UNCHANGED Evenly
  BY SizesSame DEF Evenly, Unified, GpusPerNode, Shared, ClusterOf
<1> QED BY <1>1 DEF RowsInOrder

\* A generation returns the rows in the caller's order.
LEMMA RowsGenerate == ASSUME PlaceInv, Generate PROVE RowsInOrder'
<1> DEFINE gs == groups["engine"]
           m == setup.mp
           W == WorkersIn(gs)
           size == CeilDiv(Rows, DpSize)
<1>1. /\ rows' = FlattenSeq([k \in 1..W |-> LeaderRows(k)]) /\ pc = "up" /\ UNCHANGED setup
      /\ setup \in Setups /\ Valid /\ Laid
  BY DEF Generate, PlaceInv, Accepted, InUse
<1>2. UNCHANGED Evenly
  BY <1>1 DEF Evenly, Unified, GpusPerNode, Shared, ClusterOf
<1>3. CASE gs = << >>
  <2>1. FlattenSeq(<< >>) = << >>
    BY DEF FlattenSeq
  <2>2. W = 0
    BY <1>3, <2>1 DEF WorkersIn
  <2>3. [k \in 1..W |-> LeaderRows(k)] = << >>
    BY <2>2
  <2>4. rows' = << >>
    BY <1>1, <2>1, <2>3
  <2> QED BY <2>4 DEF RowsInOrder
<1>4. CASE gs # << >>
  <2>1. PICK n \in Nat : /\ Shape(gs, n, m)
                         /\ n * m <= World("engine")
                         /\ Evenly => n * m = World("engine")
    BY <1>1, <1>4, LaidWhole DEF Whole
  <2>2. n \in Nat \ {0} /\ W = n * m
    BY <1>1, <1>4, <2>1, GroupWidth
  <2>3. ClusterOf("engine") = "engine" /\ World("engine") \in Nat \ {0} /\ World("engine") % m = 0
        /\ m \in Nat \ {0} /\ Rows \in Nat \ {0}
    BY <1>1, SetupSizes, SetupTypes, SetupAssumption
  <2> DEFINE D == DpSize
  <2>4. D \in Nat /\ D * m = World("engine")
    <3>1. D = World("engine") \div m
      BY <2>3 DEF DpSize
    <3> HIDE DEF D, m
    <3> QED BY <2>3, <3>1, FloorFits
  <2>5. D # 0
    <3>1. 0 * m = 0
      BY <2>3
    <3> QED BY <2>3, <2>4, <3>1
  <2>6. Evenly => n = D
    <3> HIDE DEF D, m
    <3> SUFFICES ASSUME Evenly PROVE n = D
      OBVIOUS
    <3>1. n * m + 0 = D * m + 0 /\ 0 \in 0..m - 1
      BY <2>1, <2>2, <2>3, <2>4
    <3> QED BY <2>2, <2>3, <2>4, <3>1, BlockUnique
  <2>7. rows' = UpTo(Smaller(Rows, n * size))
    BY <1>1, <2>2, <2>4, <2>5, Generated
  <2> HIDE DEF D, m, gs, W
  <2>8. size \in Nat /\ size * D \in Nat /\ Rows <= size * D
    BY <2>3, <2>4, <2>5, CeilCovers DEF D
  <2> HIDE DEF size
  <2> DEFINE b == Smaller(Rows, n * size)
  <2>9. b \in Nat /\ (Evenly => b = Rows)
    <3> DEFINE p == n * size
    <3>1. p \in Nat
      BY <2>2, <2>8
    <3>2. Evenly => p = size * D
      BY <2>4, <2>6, <2>8
    <3> HIDE DEF p
    <3>3. Smaller(Rows, p) \in Nat /\ (Evenly => Smaller(Rows, p) = Rows)
      BY <2>3, <2>8, <3>1, <3>2 DEF Smaller
    <3> QED BY <3>3 DEF p
  <2> HIDE DEF b
  <2>10. Len(UpTo(b)) = b /\ DOMAIN UpTo(b) = 1..b /\ \A i \in 1..b : UpTo(b)[i] = i
    <3>1. Len(UpTo(b)) = b /\ \A i \in 1..b : UpTo(b)[i] = i
      BY <2>9, UpToFacts
    <3>2. DOMAIN UpTo(b) = 1..b
      BY DEF UpTo
    <3> QED BY <3>1, <3>2
  <2>11. \A i, j \in DOMAIN UpTo(b) : i < j => UpTo(b)[i] < UpTo(b)[j]
    BY <2>10
  <2>12. rows' = UpTo(b)
    BY <2>7 DEF b
  <2>13. Len(rows') = b /\ \A i, j \in DOMAIN rows' : i < j => rows'[i] < rows'[j]
    BY <2>10, <2>11, <2>12
  <2>14. Evenly' => Len(rows') = Rows
    BY <1>2, <2>9, <2>13
  <2> QED BY <2>13, <2>14 DEF RowsInOrder
<1> QED BY <1>3, <1>4

\* Every step keeps it.
LEMMA RowsNext == ASSUME PlaceInv, RowsInOrder, [Next]_vars PROVE RowsInOrder'
<1>1. CASE Generate
  BY <1>1, RowsGenerate
<1>2. CASE ~Generate
  <2>1. UNCHANGED <<setup, rows>>
    BY <1>2
    DEF Next, Driver, Worker, Ray, vars, built, closing, alive, Configure, RefuseConfig, Reuse,
        Insufficient, Request, Ready, ReadyTimesOut, Create, CreateRaises, Join, JoinRaises,
        UserShutdown, GracefulEnds, Escalate, GracefulLost, Leave, DropEngine, DropPolicy,
        ShutdownClusters, CleanupFails, CleansUp, WorkerDies, NodeJoins, PlaceGroup, Reap
  <2> QED BY <2>1, RowsSame
<1> QED BY <1>1, <1>2

\* Nothing was generated at first.
LEMMA RowsInit == Init => RowsInOrder
BY DEF Init, RowsInOrder

-----------------------------------------------------------------------------
(***************************************************************************)
(* The groups of both clusters are whole once they are known.              *)
(***************************************************************************)

\* What Ray holds, and what the train cluster knows of it.
RayInv ==
  /\ \A p \in DOMAIN ray : /\ p[1] \in Sides /\ (p[1] = "train" => ~setup.colocated)
                           /\ ray[p] = << >> \/ ray[p] \in [1..PgSize(p[1]) -> Nat]
  /\ pc = "ready" => Range(PgIds(cluster)) \subseteq DOMAIN ray
  /\ held["train"] # << >> =>
       /\ ~setup.colocated /\ held["train"] = PgIds("train")
       /\ \A k \in 1..PgCount("train") :
            <<"train", k>> \in DOMAIN ray /\ ray[<<"train", k>>] # << >>

\* The names of the trainer's groups.
LEMMA IdsOfTrain ==
  Range(PgIds("train")) = {<<"train", k>> : k \in 1..PgCount("train")}
BY DEF Range, PgIds

\* What the set-up alone decides of the trainer.
LEMMA TrainSizesSame ==
  ASSUME UNCHANGED setup
  PROVE  /\ UNCHANGED <<PgCount("train"), PgIds("train"), PgSize("train"), PgSize("engine")>>
         /\ UNCHANGED which => UNCHANGED <<cluster, PgIds(cluster)>>
BY DEF ClusterOf, PgCount, PgSize, World, Unified, PgIds, GpusPerNode, NodeCount, Shared, cluster

\* A step that changes no group.
LEMMA RaySame ==
  ASSUME RayInv, UNCHANGED <<setup, ray, held>>, pc' = "ready" => pc = "ready" /\ UNCHANGED which
  PROVE  RayInv'
<1>1. UNCHANGED <<PgCount("train"), PgIds("train"), PgSize("train"), PgSize("engine")>>
  BY TrainSizesSame
<1>2. pc' = "ready" => UNCHANGED PgIds(cluster)
  BY TrainSizesSame
<1>3. \A p \in DOMAIN ray : PgSize(p[1])' = PgSize(p[1])
  BY <1>1 DEF RayInv, Sides
<1> QED BY <1>1, <1>2, <1>3 DEF RayInv

\* One lemma for each step that changes groups.
LEMMA RayRequest == ASSUME Inv, RayInv, Request PROVE RayInv'
<1>1. /\ UNCHANGED <<setup, which, held>> /\ which \in Sides
      /\ ray' = [p \in DOMAIN ray \cup Range(PgIds(cluster)) |->
                   IF p \in DOMAIN ray THEN ray[p] ELSE << >>]
  BY DEF Request, Inv
<1>2. UNCHANGED <<PgCount("train"), PgIds("train"), PgSize("train"), PgSize("engine"), cluster,
                  PgIds(cluster)>>
  BY <1>1, TrainSizesSame
<1>3. \A p \in Range(PgIds(cluster)) : p[1] = cluster
  BY DEF Range, PgIds
<1>4. cluster \in Sides /\ (cluster = "train" => ~setup.colocated)
  BY <1>1 DEF cluster, ClusterOf, Sides
<1>5. ASSUME NEW p \in DOMAIN ray'
      PROVE  /\ p[1] \in Sides /\ (p[1] = "train" => ~setup.colocated)
             /\ ray'[p] = << >> \/ ray'[p] \in [1..PgSize(p[1]) -> Nat]
  <2>1. CASE p \in DOMAIN ray
    BY <1>1, <2>1 DEF RayInv
  <2>2. CASE p \notin DOMAIN ray
    BY <1>1, <1>3, <1>4, <2>2
  <2> QED BY <2>1, <2>2
<1>6. \A p \in DOMAIN ray' : PgSize(p[1])' = PgSize(p[1])
  BY <1>2, <1>5 DEF Sides
<1>7. Range(PgIds(cluster)) \subseteq DOMAIN ray'
  BY <1>1
<1>8. \A k \in 1..PgCount("train") :
        <<"train", k>> \in DOMAIN ray => <<"train", k>> \in DOMAIN ray'
                                           /\ ray'[<<"train", k>>] = ray[<<"train", k>>]
  BY <1>1
<1> QED BY <1>1, <1>2, <1>5, <1>6, <1>7, <1>8 DEF RayInv

\* The groups become the cluster's.
LEMMA RayReady == ASSUME Inv, RayInv, Ready PROVE RayInv'
<1>1. /\ UNCHANGED <<setup, which, ray>> /\ which \in Sides /\ pc = "ready" /\ pc' = "create"
      /\ held' = [held EXCEPT ![cluster] = PgIds(cluster)] /\ Pending = {}
  BY DEF Ready, Inv
<1>2. UNCHANGED <<PgCount("train"), PgIds("train"), PgSize("train"), PgSize("engine")>>
  BY <1>1, TrainSizesSame
<1>3. \A p \in DOMAIN ray : PgSize(p[1])' = PgSize(p[1])
  BY <1>2 DEF RayInv, Sides
<1>4. cluster \in Sides /\ (cluster = "train" => ~setup.colocated)
  BY <1>1 DEF cluster, ClusterOf, Sides
<1>5. CASE cluster = "train"
  <2>1. held'["train"] = PgIds("train")
    BY <1>1, <1>5 DEF Inv, Sides
  <2>2. \A k \in 1..PgCount("train") : <<"train", k>> \in DOMAIN ray /\ ray[<<"train", k>>] # << >>
    BY <1>1, <1>5, IdsOfTrain DEF RayInv, Pending
  <2> QED BY <1>1, <1>2, <1>3, <1>4, <1>5, <2>1, <2>2 DEF RayInv
<1>6. CASE cluster = "engine"
  <2>1. held'["train"] = held["train"]
    BY <1>1, <1>6 DEF Inv, Sides
  <2> QED BY <1>1, <1>2, <1>3, <2>1 DEF RayInv
<1> QED BY <1>4, <1>5, <1>6 DEF Sides

\* The groups asked for are removed.
LEMMA RayTimesOut == ASSUME Inv, RayInv, ReadyTimesOut PROVE RayInv'
<1>1. /\ UNCHANGED <<setup, which, held>> /\ which \in Sides /\ pc = "ready" /\ pc' = "raised"
      /\ ray' = [p \in DOMAIN ray \ Range(PgIds(cluster)) |-> ray[p]] /\ held[cluster] = << >>
  BY DEF ReadyTimesOut, Inv, RemoveGroups, Without
<1>2. UNCHANGED <<PgCount("train"), PgIds("train"), PgSize("train"), PgSize("engine")>>
  BY <1>1, TrainSizesSame
<1>3. \A p \in DOMAIN ray : PgSize(p[1])' = PgSize(p[1])
  BY <1>2 DEF RayInv, Sides
<1>4. held["train"] # << >> => \A k \in 1..PgCount("train") : <<"train", k>> \notin Range(PgIds(cluster))
  <2> SUFFICES ASSUME held["train"] # << >>
               PROVE  \A k \in 1..PgCount("train") : <<"train", k>> \notin Range(PgIds(cluster))
    OBVIOUS
  <2>1. cluster = "engine"
    BY <1>1, ClusterIs
  <2> QED BY <2>1, IdsOf
<1> QED BY <1>1, <1>2, <1>3, <1>4 DEF RayInv

\* All groups are removed.
LEMMA RayEnds == ASSUME Inv, RayInv, ShutdownClusters PROVE RayInv'
<1>1. /\ UNCHANGED <<setup, which>> /\ pc' = "ended" /\ held' = [c \in Sides |-> << >>]
      /\ ray' = [p \in DOMAIN ray \ (Range(held["engine"]) \cup Range(held["train"])) |-> ray[p]]
  BY DEF ShutdownClusters, Without
<1>2. UNCHANGED <<PgSize("train"), PgSize("engine")>>
  BY <1>1, TrainSizesSame
<1>3. \A p \in DOMAIN ray : PgSize(p[1])' = PgSize(p[1])
  BY <1>2 DEF RayInv, Sides
<1>4. held'["train"] = << >>
  BY <1>1 DEF Sides
<1> QED BY <1>1, <1>3, <1>4 DEF RayInv

\* A group is placed with all its bundles.
LEMMA RayPlaceGroup == ASSUME Inv, PlaceInv, RayInv, PlaceGroup PROVE RayInv'
<1>1. UNCHANGED <<setup, which, pc, held, joined>>
  BY DEF PlaceGroup, built, closing
<1>2. UNCHANGED <<PgCount("train"), PgIds("train"), PgSize("train"), PgSize("engine"), cluster,
                  PgIds(cluster)>>
  BY <1>1, TrainSizesSame
<1>3. PICK p \in DOMAIN ray : ray[p] = << >> /\ \E f \in Placements(p) : ray' = [ray EXCEPT ![p] = f]
  BY DEF PlaceGroup
<1>4. PICK f \in Placements(p) : ray' = [ray EXCEPT ![p] = f]
  BY <1>3
<1>5. DOMAIN ray' = DOMAIN ray /\ ray'[p] = f /\ \A s \in DOMAIN ray : s # p => ray'[s] = ray[s]
  BY <1>3, <1>4
<1>6. f \in [1..PgSize(p[1]) -> Nat]
  <2>1. f \in [1..PgSize(p[1]) -> joined] /\ joined \subseteq Nat
    BY DEF Placements, PlaceInv, Nodes
  <2> QED BY <2>1
<1>7. \A s \in DOMAIN ray : PgSize(s[1])' = PgSize(s[1])
  BY <1>2 DEF RayInv, Sides
<1>8. ASSUME NEW s \in DOMAIN ray
      PROVE  ray'[s] = << >> \/ ray'[s] \in [1..PgSize(s[1]) -> Nat]
  BY <1>5, <1>6 DEF RayInv
<1>9. held["train"] # << >> => \A k \in 1..PgCount("train") :
        <<"train", k>> \in DOMAIN ray /\ ray'[<<"train", k>>] # << >>
  <2> SUFFICES ASSUME held["train"] # << >>, NEW k \in 1..PgCount("train")
               PROVE  <<"train", k>> \in DOMAIN ray /\ ray'[<<"train", k>>] # << >>
    OBVIOUS
  <2>1. <<"train", k>> \in DOMAIN ray /\ ray[<<"train", k>>] # << >>
    BY DEF RayInv
  <2>2. <<"train", k>> # p
    BY <1>3, <2>1
  <2> QED BY <1>5, <2>1, <2>2
<1> QED BY <1>1, <1>2, <1>5, <1>7, <1>8, <1>9 DEF RayInv

\* Every step keeps the groups whole.
LEMMA RayNext == ASSUME Inv, PlaceInv, RayInv, [Next]_vars PROVE RayInv'
<1>1. CASE Request
  BY <1>1, RayRequest
<1>2. CASE Ready
  BY <1>2, RayReady
<1>3. CASE ReadyTimesOut
  BY <1>3, RayTimesOut
<1>4. CASE ShutdownClusters
  BY <1>4, RayEnds
<1>5. CASE PlaceGroup
  BY <1>5, RayPlaceGroup
<1>6. CASE ~(Request \/ Ready \/ ReadyTimesOut \/ ShutdownClusters \/ PlaceGroup)
  <2>1. /\ UNCHANGED <<setup, ray, held>>
        /\ pc' = "ready" => pc = "ready" /\ UNCHANGED which
    BY <1>6
    DEF Next, Driver, Worker, Ray, vars, built, closing, alive, Configure, RefuseConfig, Reuse,
        Insufficient, Create, CreateRaises, Join, JoinRaises, Generate,
        UserShutdown, Shutdown, GracefulEnds, Escalate, GracefulLost, Resumes, Leave, DropEngine,
        DropPolicy, CleanupFails, CleansUp, WorkerDies, NodeJoins, Reap
  <2> QED BY <2>1, RaySame
<1> QED BY <1>1, <1>2, <1>3, <1>4, <1>5, <1>6

\* There are none at first.
LEMMA RayInit == Init => RayInv
BY DEF Init, RayInv, Sides

\* The number of workers made is one.
LEMMA WorkersCounted ==
  ASSUME Inv, PlaceInv, RayInv, pc = "create", Allocatable(which)
  PROVE  WorkersIn(GroupsOf(which)) \in Nat
<1>1. which \in Sides /\ Valid /\ setup \in Setups /\ held[ClusterOf(which)] # << >>
  BY DEF Inv, PlaceInv, Accepted, Allocatable
<1>2. ClusterOf("engine") = "engine" /\ setup.mp \in Nat \ {0} /\ World("engine") \in Nat
  BY <1>1, SetupSizes, SetupTypes
<1>3. CASE which = "engine"
  <2>1. Seats
    BY <1>1, <1>2, <1>3 DEF PlaceInv
  <2>2. \E n \in Nat : Shape(GroupsOf("engine"), n, setup.mp)
    <3>1. CASE Unified("engine")
      <4>1. World("engine") \div setup.mp \in Nat
        BY <1>2, FloorFits
      <4>2. Shape(GroupsOf("engine"), World("engine") \div setup.mp, setup.mp)
        BY <1>1, <2>1, <3>1, GroupsLaid DEF Tied
      <4> QED BY <4>1, <4>2
    <3>2. CASE ~Unified("engine")
      <4> DEFINE q == PgSize("engine") \div setup.mp
      <4>1. Shape(GroupsOf("engine"), PgCount("engine") * q, setup.mp)
        BY <1>1, <2>1, <3>2, GroupsLaid DEF Local
      <4> QED BY <4>1 DEF Shape
    <3> QED BY <3>1, <3>2
  <2>3. PICK n \in Nat : Shape(GroupsOf("engine"), n, setup.mp)
    BY <2>2
  <2>4. WorkersIn(GroupsOf("engine")) = n * setup.mp
    BY <1>2, <2>3, FlatShape
  <2>5. n * setup.mp \in Nat
    BY <1>2
  <2> QED BY <1>3, <2>4, <2>5
<1>4. CASE which = "train"
  <2> DEFINE c == ClusterOf("train")
  <2>1. c \in Sides
    BY DEF ClusterOf, Sides
  <2>2. Settled(c)
    <3>1. CASE setup.colocated
      <4>1. c = "engine"
        BY <3>1 DEF ClusterOf
      <4> QED BY <1>1, <1>4, <4>1 DEF PlaceInv, Seats
    <3>2. CASE ~setup.colocated
      <4>1. c = "train"
        BY <3>2 DEF ClusterOf
      <4>2. /\ held["train"] = PgIds("train")
            /\ \A k \in 1..PgCount("train") : <<"train", k>> \in DOMAIN ray /\ ray[<<"train", k>>] # << >>
        BY <1>1, <1>4, <4>1 DEF RayInv
      <4>3. PgCount("train") \in Nat /\ PgSize("train") \in Nat
        BY <1>1, <3>2, PgSizes
      <4>4. PgCount("train") # 0
        <5>1. CASE PgCount("train") = 0
          <6>1. PgIds("train") = << >>
            BY <5>1 DEF PgIds
          <6> QED BY <1>1, <1>4, <4>1, <4>2, <6>1
        <5> QED BY <5>1
      <4>5. \A k \in 1..PgCount("train") : ray[<<"train", k>>] \in [1..PgSize("train") -> Nat]
        <5> SUFFICES ASSUME NEW k \in 1..PgCount("train")
                     PROVE  ray[<<"train", k>>] \in [1..PgSize("train") -> Nat]
          OBVIOUS
        <5>1. <<"train", k>>[1] = "train"
          OBVIOUS
        <5> QED BY <4>2, <5>1 DEF RayInv
      <4> QED BY <4>1, <4>2, <4>3, <4>4, <4>5 DEF Settled
    <3> QED BY <3>1, <3>2
  <2>3. Shape(PlainGroups("train"), PgCount(c) * PgSize(c), 1)
    BY <2>1, <2>2, PlainFacts DEF Local, Sides
  <2>4. PgCount(c) * PgSize(c) \in Nat
    BY <2>3 DEF Shape
  <2>5. WorkersIn(PlainGroups("train")) = (PgCount(c) * PgSize(c)) * 1
    BY <2>3, <2>4, FlatShape
  <2>6. GroupsOf("train") = PlainGroups("train")
    BY DEF GroupsOf
  <2> QED BY <1>4, <2>4, <2>5, <2>6
<1> QED BY <1>1, <1>3, <1>4 DEF Sides

-----------------------------------------------------------------------------
(***************************************************************************)
(* The inductive invariant of ShutdownTruthful: every worker is counted,   *)
(* and each answer that was given says something of the count.             *)
(***************************************************************************)

\* The workers of a group, by their fates.
Total(s) == s.up + s.cleaning + s.cleaned + s.failed + s.killed + s.gone + s.dead
\* A number for each fate.
Tallies == [Fates -> Nat]
\* Before both groups of workers exist.
Setting == {"configure", "place", "ready", "create"}
\* What the shutdowns of a group have returned.
Words == {"true", "false"}
Said(w) == Range(answers[w])

\* True: the list is empty; and if nothing else was said, no worker can meet
\* another fate.  False: one is dead, or they were killed, unless the __del__
\* that was told so has gone.  Both: they were killed.
Told(w) ==
  /\ "true" \in Said(w) =>
       /\ ~listed[w]
       /\ IF "false" \in Said(w) THEN status[w].killed = Size(w)
          ELSE status[w].up = 0 /\ status[w].cleaning = 0 /\ status[w].killed = 0
               /\ status[w].dead = 0
  /\ "false" \in Said(w) =>
       IF listed[w] THEN status[w].dead > 0 ELSE w \in dropped \/ status[w].killed = Size(w)

\* Every worker has met one fate, and the answers are true of it.
TallyInv ==
  /\ status \in [Sides -> Tallies]
  /\ answers \in [Sides -> Seq(Words)]
  /\ \A w \in Sides : Total(status[w]) = Size(w)
  /\ pc \in Setting =>
       /\ status[which] = NoWorkers
       /\ which = "engine" => status["train"] = NoWorkers
       /\ \A w \in Sides : Said(w) = {}
  /\ pc = "join" => \A w \in Sides : Said(w) = {}
  /\ \A w \in Sides : Told(w)

\* Every one of them is a number.
LEMMA TalliesAre ==
  ASSUME NEW s \in Tallies
  PROVE  /\ s.up \in Nat /\ s.cleaning \in Nat /\ s.cleaned \in Nat /\ s.failed \in Nat
         /\ s.killed \in Nat /\ s.gone \in Nat /\ s.dead \in Nat
         /\ Total(s) \in Nat
BY DEF Tallies, Fates, Total

\* A group not yet made has no worker.
LEMMA Nobody == NoWorkers \in Tallies /\ Total(NoWorkers) = 0
<1>1. NoWorkers \in Tallies
  BY DEF NoWorkers, Tallies
<1>2. \A f \in Fates : NoWorkers[f] = 0
  BY DEF NoWorkers
<1> QED BY <1>1, <1>2 DEF Total, Fates

\* Parts that alone make up the sum leave nothing for the others.
LEMMA NothingElse ==
  ASSUME NEW a \in Nat, NEW b \in Nat, NEW c \in Nat, NEW d \in Nat, NEW e \in Nat,
         NEW n \in Nat, n + a + b + c + d + e = n
  PROVE  a = 0 /\ b = 0 /\ c = 0 /\ d = 0 /\ e = 0
OBVIOUS

\* If all were killed no worker met another fate.
LEMMA OnlyKilled ==
  ASSUME NEW s \in Tallies, s.killed = Total(s)
  PROVE  s.up = 0 /\ s.cleaning = 0 /\ s.cleaned = 0 /\ s.failed = 0 /\ s.gone = 0 /\ s.dead = 0
<1> DEFINE a == s.up
           b == s.cleaning
           c == s.cleaned + s.failed
           d == s.gone
           e == s.dead
           n == s.killed
<1>1. a \in Nat /\ b \in Nat /\ c \in Nat /\ d \in Nat /\ e \in Nat /\ n \in Nat
  BY TalliesAre
<1>2. Total(s) = n + a + b + c + d + e
  BY TalliesAre DEF Total
<1>3. n + a + b + c + d + e = n
  BY <1>2
<1> HIDE DEF a, b, c, d, e, n
<1>4. a = 0 /\ b = 0 /\ c = 0 /\ d = 0 /\ e = 0
  BY <1>1, <1>3, NothingElse
<1>5. s.cleaned = 0 /\ s.failed = 0
  BY <1>4, TalliesAre DEF c
<1> QED BY <1>4, <1>5 DEF a, b, d, e

\* If all have cleaned up, well or not, neither.
LEMMA OnlyCleaned ==
  ASSUME NEW s \in Tallies, s.cleaned + s.failed = Total(s)
  PROVE  s.up = 0 /\ s.cleaning = 0 /\ s.killed = 0 /\ s.dead = 0
<1> DEFINE a == s.up
           b == s.cleaning
           c == s.killed
           d == s.gone
           e == s.dead
           n == s.cleaned + s.failed
<1>1. a \in Nat /\ b \in Nat /\ c \in Nat /\ d \in Nat /\ e \in Nat /\ n \in Nat
  BY TalliesAre
<1>2. Total(s) = n + a + b + c + d + e
  BY TalliesAre DEF Total
<1>3. n + a + b + c + d + e = n
  BY <1>2
<1> HIDE DEF a, b, c, d, e, n
<1>4. a = 0 /\ b = 0 /\ c = 0 /\ d = 0 /\ e = 0
  BY <1>1, <1>3, NothingElse
<1> QED BY <1>4 DEF a, b, c, e

\* One more answer.
LEMMA SaidMore ==
  ASSUME NEW s \in Seq(Words), NEW b \in Words
  PROVE  Append(s, b) \in Seq(Words) /\ Range(Append(s, b)) = Range(s) \cup {b}
<1>1. /\ Append(s, b) \in Seq(Words) /\ Len(Append(s, b)) = Len(s) + 1
      /\ \A i \in 1..Len(s) : Append(s, b)[i] = s[i]
      /\ Append(s, b)[Len(s) + 1] = b
  BY AppendProperties
<1> DEFINE t == Append(s, b)
<1> HIDE DEF t
<1>2. DOMAIN s = 1..Len(s) /\ Len(s) \in Nat /\ DOMAIN t = 1..(Len(s) + 1)
  BY <1>1 DEF t
<1>3. 1..(Len(s) + 1) = 1..Len(s) \cup {Len(s) + 1}
  BY <1>2
<1>4. Range(t) = Range(s) \cup {b}
  BY <1>1, <1>2, <1>3 DEF Range, t
<1> QED BY <1>1, <1>4 DEF t

\* Nothing was said as long as there is no answer.
LEMMA SaidNothing ==
  ASSUME NEW s \in Seq(Words) PROVE Range(s) \subseteq Words /\ (Range(s) = {} <=> s = << >>)
<1>1. DOMAIN s = 1..Len(s) /\ Len(s) \in Nat /\ \A i \in 1..Len(s) : s[i] \in Words
  BY ElementOfSeq
<1>2. ASSUME s # << >> PROVE Range(s) # {}
  <2>1. 1 \in DOMAIN s
    BY <1>1, <1>2, EmptySeq
  <2> QED BY <2>1 DEF Range
<1>3. Range(<< >>) = {}
  BY NoneHeld
<1>4. Range(s) \subseteq Words
  BY <1>1 DEF Range
<1> QED BY <1>2, <1>3, <1>4

\* It is enough.
LEMMA TallyTruthful == TallyInv => ShutdownTruthful
<1> SUFFICES ASSUME TallyInv, NEW w \in Sides, "true" \in Said(w)
             PROVE  IF "false" \in Said(w) THEN status[w].killed = Size(w)
                    ELSE status[w].cleaned + status[w].failed + status[w].gone = Size(w)
  BY DEF ShutdownTruthful, Said
<1>1. CASE "false" \in Said(w)
  BY <1>1 DEF TallyInv, Told
<1>2. CASE "false" \notin Said(w)
  <2> DEFINE s == status[w]
  <2>1. s \in Tallies /\ Total(s) = Size(w)
        /\ s.up = 0 /\ s.cleaning = 0 /\ s.killed = 0 /\ s.dead = 0
    BY <1>2 DEF TallyInv, Told
  <2> HIDE DEF s
  <2>2. s.cleaned + s.failed + s.gone = Total(s)
    BY <2>1, TalliesAre DEF Total
  <2> QED BY <1>2, <2>1, <2>2 DEF s
<1> QED BY <1>1, <1>2

\* One worker goes from one fate to another.
LEMMA MoveKeeps ==
  ASSUME NEW s \in Tallies, NEW a \in Fates, NEW b \in Fates, a # b, s[a] > 0
  PROVE  LET t == [s EXCEPT ![a] = @ - 1, ![b] = @ + 1] IN t \in Tallies /\ Total(t) = Total(s)
<1> DEFINE t == [s EXCEPT ![a] = @ - 1, ![b] = @ + 1]
<1>1. \A f \in Fates : s[f] \in Nat
  BY DEF Tallies
<1>2. t \in Tallies
  BY <1>1 DEF Tallies
<1>3. \A f \in Fates : t[f] = IF f = a THEN s[a] - 1 ELSE IF f = b THEN s[b] + 1 ELSE s[f]
  BY DEF Tallies
<1> HIDE DEF t
<1>4. Total(t) = Total(s)
  BY <1>1, <1>3 DEF Total, Fates
<1> QED BY <1>2, <1>4 DEF t

\* The numbers of workers.
LEMMA SizesAre ==
  ASSUME TallyInv, NEW w \in Sides
  PROVE  Size(w) \in Nat /\ status[w] \in Tallies /\ Total(status[w]) = Size(w)
<1>1. status[w] \in Tallies /\ Total(status[w]) = Size(w)
  BY DEF TallyInv
<1> QED BY <1>1, TalliesAre

\* A step that changes what one group's workers met, what it said of them,
\* and whether it lists them.
LEMMA TallyStep ==
  ASSUME TallyInv, UNCHANGED groups, dropped \subseteq dropped', NEW w \in Sides,
         NEW t \in Tallies, status' = [status EXCEPT ![w] = t], Total(t) = Size(w),
         answers' \in [Sides -> Seq(Words)],
         \A v \in Sides : v # w => answers'[v] = answers[v] /\ listed'[v] = listed[v],
         pc' \in Setting => UNCHANGED <<pc, which, answers>> /\ status[w] # NoWorkers,
         pc' = "join" => UNCHANGED <<pc, answers>>,
         Told(w)'
  PROVE  TallyInv'
<1>1. status \in [Sides -> Tallies]
  BY DEF TallyInv
<1>2. status' \in [Sides -> Tallies] /\ status'[w] = t /\ \A v \in Sides : v # w => status'[v] = status[v]
  BY <1>1
<1>3. \A v \in Sides : Size(v)' = Size(v)
  BY DEF Size, WorkersIn
<1>4. \A v \in Sides : Total(status'[v]) = Size(v)'
  BY <1>2, <1>3 DEF TallyInv
<1>5. ASSUME NEW v \in Sides PROVE Told(v)'
  <2>1. CASE v = w
    BY <2>1
  <2>2. CASE v # w
    <3>1. Said(v)' = Said(v) /\ status'[v] = status[v] /\ listed'[v] = listed[v]
      BY <1>2, <2>2 DEF Said
    <3> QED BY <1>3, <3>1 DEF Told, TallyInv
  <2> QED BY <2>1, <2>2
<1>6. pc' \in Setting => /\ status'[which'] = NoWorkers
                         /\ which' = "engine" => status'["train"] = NoWorkers
                         /\ \A v \in Sides : Said(v)' = {}
  <2> SUFFICES ASSUME pc' \in Setting
               PROVE  /\ status'[which] = NoWorkers
                      /\ which = "engine" => status'["train"] = NoWorkers
                      /\ \A v \in Sides : Said(v)' = {}
    OBVIOUS
  <2>1. /\ status[which] = NoWorkers /\ (which = "engine" => status["train"] = NoWorkers)
        /\ \A v \in Sides : Said(v) = {}
    BY DEF TallyInv
  <2>2. w # which /\ ~(which = "engine" /\ w = "train")
    BY <2>1
  <2>3. which = "engine" => status'["train"] = NoWorkers
    BY <1>2, <2>1, <2>2 DEF Sides
  <2>4. status'[which] = status[which]
    BY <1>1, <2>2
  <2>5. \A v \in Sides : Said(v)' = Said(v)
    BY DEF Said
  <2> QED BY <2>1, <2>3, <2>4, <2>5
<1>7. pc' = "join" => \A v \in Sides : Said(v)' = {}
  BY DEF TallyInv, Said
<1> QED BY <1>2, <1>4, <1>5, <1>6, <1>7 DEF TallyInv

\* A step that changes nothing of this.
LEMMA TallySame ==
  ASSUME TallyInv, UNCHANGED <<groups, status, answers, listed>>, dropped \subseteq dropped',
         pc' \in Setting => pc \in Setting /\ UNCHANGED which,
         pc' = "join" => pc \in Setting \cup {"join"}
  PROVE  TallyInv'
<1>1. \A w \in Sides : Size(w)' = Size(w) /\ Said(w)' = Said(w)
  BY DEF Size, WorkersIn, Said
<1>2. \A w \in Sides : Total(status'[w]) = Size(w)'
  BY <1>1 DEF TallyInv
<1>3. pc' \in Setting => status'[which'] = NoWorkers /\ (which' = "engine" => status'["train"] = NoWorkers)
  BY DEF TallyInv
<1>4. \A w \in Sides : Told(w)'
  BY <1>1 DEF TallyInv, Told
<1>5. pc' \in Setting \cup {"join"} => \A w \in Sides : Said(w)' = {}
  BY <1>1 DEF TallyInv
<1> QED BY <1>2, <1>3, <1>4, <1>5 DEF TallyInv

\* A worker changes its fate.
LEMMA TallyMove ==
  ASSUME TallyInv, UNCHANGED <<groups, answers, listed, dropped, pc, which>>, NEW w \in Sides,
         NEW a \in {"up", "cleaning"}, NEW b \in {"cleaned", "failed", "dead"}, Move(w, a, b)
  PROVE  TallyInv'
<1> DEFINE s == status[w]
           t == [s EXCEPT ![a] = @ - 1, ![b] = @ + 1]
<1>1. /\ status \in [Sides -> Tallies] /\ s \in Tallies /\ Total(s) = Size(w) /\ s[a] > 0
      /\ a \in Fates /\ b \in Fates /\ a # b
  BY DEF TallyInv, Move, Fates
<1>2. status' = [status EXCEPT ![w] = t]
  <2>1. status' = [status EXCEPT ![w][a] = @ - 1, ![w][b] = @ + 1]
    BY DEF Move
  <2> QED BY <1>1, <2>1
<1>3. t \in Tallies /\ Total(t) = Total(s)
  <2> HIDE DEF s
  <2> QED BY <1>1, MoveKeeps
<1>4. s # NoWorkers
  BY <1>1 DEF NoWorkers
<1>5. s.killed # Total(s)
  <2> HIDE DEF s
  <2> QED BY <1>1, OnlyKilled
<1>6. "true" \notin Said(w) /\ ("false" \in Said(w) => IF listed[w] THEN s.dead > 0 ELSE w \in dropped)
  BY <1>1, <1>5 DEF TallyInv, Told
<1>7. s.dead > 0 => t.dead > 0
  <2>1. t.dead = IF b = "dead" THEN s.dead + 1 ELSE s.dead
    BY <1>1 DEF Tallies, Fates
  <2> HIDE DEF s, t
  <2> QED BY <1>1, <2>1, TalliesAre
<1>8. Told(w)'
  <2>1. Said(w)' = Said(w) /\ status'[w] = t
    BY <1>1, <1>2 DEF Said
  <2> HIDE DEF s, t
  <2> QED BY <1>6, <1>7, <2>1 DEF Told
<1> HIDE DEF s, t
<1> QED BY <1>1, <1>2, <1>3, <1>4, <1>8, TallyStep DEF s, TallyInv

\* Ray ends the workers that nobody refers to.
LEMMA TallyReap == ASSUME TallyInv, NEW w \in Sides, Reap(w) PROVE TallyInv'
<1> DEFINE s == status[w]
           t == [NoWorkers EXCEPT !.gone = s.gone + s.cleaned + s.failed, !.dead = s.dead,
                                  !.killed = s.killed + s.up + s.cleaning]
<1>1. /\ UNCHANGED <<groups, answers, listed, dropped, pc, which>> /\ ~listed[w]
      /\ status' = [status EXCEPT ![w] = t]
      /\ \E fate \in {"up", "cleaning", "cleaned", "failed"} : s[fate] > 0
  BY DEF Reap, alive
<1>2. s \in Tallies /\ Total(s) = Size(w) /\ status \in [Sides -> Tallies]
  BY DEF TallyInv
<1>3. /\ t \in Tallies /\ t.up = 0 /\ t.cleaning = 0 /\ t.cleaned = 0 /\ t.failed = 0
      /\ t.gone = s.gone + s.cleaned + s.failed /\ t.dead = s.dead
      /\ t.killed = s.killed + s.up + s.cleaning
  <2> HIDE DEF s
  <2>1. NoWorkers \in Tallies /\ \A f \in Fates : NoWorkers[f] = 0
    BY Nobody DEF NoWorkers
  <2> DEFINE g == s.gone + s.cleaned + s.failed
             d == s.dead
             k == s.killed + s.up + s.cleaning
  <2>2. g \in Nat /\ d \in Nat /\ k \in Nat
    BY <1>2, TalliesAre
  <2> HIDE DEF g, d, k
  <2>3. NoWorkers = [f \in Fates |-> 0]
    BY DEF NoWorkers
  <2> DEFINE u == [NoWorkers EXCEPT !.gone = g, !.dead = d, !.killed = k]
  <2>4. \A f \in Fates : u[f] = IF f = "gone" THEN g ELSE IF f = "dead" THEN d
                                ELSE IF f = "killed" THEN k ELSE 0
    BY <2>3
  <2>5. u = [f \in Fates |-> u[f]]
    BY <2>3
  <2> HIDE DEF u
  <2>6. \A f \in Fates : u[f] \in Nat
    BY <2>2, <2>4
  <2>7. u \in Tallies
    BY <2>5, <2>6 DEF Tallies
  <2>8. u.up = 0 /\ u.cleaning = 0 /\ u.cleaned = 0 /\ u.failed = 0 /\ u.gone = g /\ u.dead = d /\ u.killed = k
    BY <2>4 DEF Fates
  <2> QED BY <2>7, <2>8 DEF u, g, d, k
<1> HIDE DEF t
<1>4. Total(t) = Total(s)
  <2> HIDE DEF s
  <2> QED BY <1>2, <1>3, TalliesAre DEF Total
<1>5. s # NoWorkers
  BY <1>1 DEF NoWorkers, Fates
<1>6. s.killed # Total(s)
  <2> HIDE DEF s
  <2> QED BY <1>1, <1>2, OnlyKilled
<1>7. /\ "true" \in Said(w) =>
           "false" \notin Said(w) /\ s.up = 0 /\ s.cleaning = 0 /\ s.killed = 0 /\ s.dead = 0
      /\ "false" \in Said(w) => w \in dropped
  BY <1>1, <1>2, <1>6 DEF TallyInv, Told
<1>8. Told(w)'
  <2>1. Said(w)' = Said(w) /\ status'[w] = t
    BY <1>1, <1>2 DEF Said
  <2> HIDE DEF s
  <2> QED BY <1>1, <1>3, <1>7, <2>1 DEF Told
<1> HIDE DEF s
<1> QED BY <1>1, <1>2, <1>3, <1>4, <1>5, <1>8, TallyStep DEF s, TallyInv

\* All were killed.
LEMMA Killed ==
  ASSUME NEW n \in Nat
  PROVE  LET t == [NoWorkers EXCEPT !.killed = n]
         IN t \in Tallies /\ Total(t) = n /\ t.killed = n
<1> DEFINE t == [NoWorkers EXCEPT !.killed = n]
<1>1. NoWorkers = [f \in Fates |-> 0]
  BY DEF NoWorkers
<1>2. \A f \in Fates : t[f] = IF f = "killed" THEN n ELSE 0
  BY <1>1
<1>3. t = [f \in Fates |-> t[f]]
  BY <1>1
<1> HIDE DEF t
<1>4. t \in Tallies
  BY <1>2, <1>3 DEF Tallies
<1>5. t.up = 0 /\ t.cleaning = 0 /\ t.cleaned = 0 /\ t.failed = 0 /\ t.gone = 0 /\ t.dead = 0
      /\ t.killed = n
  BY <1>2 DEF Fates
<1>6. Total(t) = n
  BY <1>5 DEF Total
<1> QED BY <1>4, <1>5, <1>6 DEF t

\* All were made.
LEMMA AllUp ==
  ASSUME NEW n \in Nat
  PROVE  LET t == [NoWorkers EXCEPT !.up = n] IN t \in Tallies /\ Total(t) = n
<1> DEFINE t == [NoWorkers EXCEPT !.up = n]
<1>1. NoWorkers = [f \in Fates |-> 0]
  BY DEF NoWorkers
<1>2. \A f \in Fates : t[f] = IF f = "up" THEN n ELSE 0
  BY <1>1
<1>3. t = [f \in Fates |-> t[f]]
  BY <1>1
<1> HIDE DEF t
<1>4. t \in Tallies
  BY <1>2, <1>3 DEF Tallies
<1>5. t.up = n /\ t.cleaning = 0 /\ t.cleaned = 0 /\ t.failed = 0 /\ t.gone = 0 /\ t.dead = 0
      /\ t.killed = 0
  BY <1>2 DEF Fates
<1>6. Total(t) = n
  BY <1>5 DEF Total
<1> QED BY <1>4, <1>6 DEF t

\* All that live were asked to clean up.
LEMMA Called ==
  ASSUME NEW s \in Tallies
  PROVE  LET t == [s EXCEPT !.up = 0, !.cleaned = 0, !.failed = 0,
                            !.cleaning = s.up + s.cleaning + s.cleaned + s.failed]
         IN t \in Tallies /\ Total(t) = Total(s) /\ t.dead = s.dead
<1> DEFINE n == s.up + s.cleaning + s.cleaned + s.failed
<1>1. n \in Nat
  BY TalliesAre
<1> HIDE DEF n
<1> DEFINE t == [s EXCEPT !.up = 0, !.cleaned = 0, !.failed = 0, !.cleaning = n]
<1>2. \A f \in Fates : s[f] \in Nat
  BY DEF Tallies
<1>3. \A f \in Fates : t[f] = IF f \in {"up", "cleaned", "failed"} THEN 0
                              ELSE IF f = "cleaning" THEN n ELSE s[f]
  BY DEF Tallies
<1>4. t = [f \in Fates |-> t[f]]
  BY DEF Tallies
<1> HIDE DEF t
<1>5. t \in Tallies
  <2>1. \A f \in Fates : t[f] \in Nat
    BY <1>1, <1>2, <1>3 DEF Fates
  <2> QED BY <1>4, <2>1 DEF Tallies
<1>6. t.up = 0 /\ t.cleaning = n /\ t.cleaned = 0 /\ t.failed = 0
      /\ t.gone = s.gone /\ t.dead = s.dead /\ t.killed = s.killed
  BY <1>3 DEF Fates
<1>7. Total(t) = Total(s)
  BY <1>6, TalliesAre DEF Total, n
<1> QED BY <1>5, <1>6, <1>7 DEF t, n

\* One lemma for each step that changes workers or answers.
LEMMA TallyCreate == ASSUME Inv, PlaceInv, RayInv, TallyInv, Create PROVE TallyInv'
<1> DEFINE n == WorkersIn(GroupsOf(which))
           t == [NoWorkers EXCEPT !.up = n]
<1>1. /\ pc = "create" /\ which \in Sides /\ Allocatable(which) /\ UNCHANGED <<answers, dropped>>
      /\ groups' = [groups EXCEPT ![which] = GroupsOf(which)]
      /\ status' = [status EXCEPT ![which].up = n]
      /\ pc' \in {"place", "up", "join"}
  BY DEF Create, Inv, closing
<1>2. n \in Nat
  BY <1>1, WorkersCounted
<1>3. /\ status[which] = NoWorkers /\ (which = "engine" => status["train"] = NoWorkers)
      /\ status \in [Sides -> Tallies]
      /\ \A v \in Sides : Said(v)' = {}
  BY <1>1 DEF TallyInv, Setting, Said
<1>4. status' = [status EXCEPT ![which] = t]
  BY <1>1, <1>3
<1>5. groups'[which] = GroupsOf(which) /\ \A v \in Sides : v # which => groups'[v] = groups[v]
  BY <1>1 DEF PlaceInv
<1>6. \A v \in Sides : Size(v)' = IF v = which THEN n ELSE Size(v)
  <2>1. \A v \in Sides : Size(v)' = WorkersIn(groups'[v]) /\ Size(v) = WorkersIn(groups[v])
    BY DEF Size, WorkersIn
  <2> QED BY <1>5, <2>1
<1>7. t \in Tallies /\ Total(t) = n
  <2> HIDE DEF n
  <2> QED BY <1>2, AllUp
<1> HIDE DEF t, n
<1>8. /\ status' \in [Sides -> Tallies]
      /\ \A v \in Sides : status'[v] = IF v = which THEN t ELSE status[v]
  BY <1>1, <1>3, <1>4, <1>7
<1>9. \A v \in Sides : Total(status'[v]) = Size(v)'
  BY <1>6, <1>7, <1>8 DEF TallyInv
<1>10. \A v \in Sides : Told(v)'
  BY <1>3 DEF Told
<1>11. answers' \in [Sides -> Seq(Words)]
  BY <1>1 DEF TallyInv
<1>12. pc' \in Setting => which' = "train" /\ status'["train"] = NoWorkers
  <2> SUFFICES ASSUME pc' \in Setting PROVE which' = "train" /\ status'["train"] = NoWorkers
    OBVIOUS
  <2>1. which = "engine" /\ which' = "train"
    BY DEF Create, Setting
  <2> QED BY <1>3, <1>8, <2>1 DEF Sides
<1> QED BY <1>3, <1>8, <1>9, <1>10, <1>11, <1>12 DEF TallyInv

\* The group answers, in this step.
LEMMA AnswerGiven ==
  ASSUME TallyInv, NEW w \in Sides, NEW b \in Words, Answered(w, b)
  PROVE  /\ answers' \in [Sides -> Seq(Words)]
         /\ Said(w)' = Said(w) \cup {b}
         /\ \A v \in Sides : v # w => answers'[v] = answers[v]
<1>1. answers \in [Sides -> Seq(Words)] /\ answers[w] \in Seq(Words)
  BY DEF TallyInv
<1>2. answers' = [answers EXCEPT ![w] = Append(answers[w], b)]
  BY DEF Answered
<1>3. Append(answers[w], b) \in Seq(Words) /\ Range(Append(answers[w], b)) = Range(answers[w]) \cup {b}
  BY <1>1, SaidMore
<1>4. answers'[w] = Append(answers[w], b) /\ \A v \in Sides : v # w => answers'[v] = answers[v]
  BY <1>1, <1>2
<1> QED BY <1>1, <1>2, <1>3, <1>4 DEF Said

\* A call of shutdown: the workers are asked to clean up, or the empty list
\* answers for them as it did before.
LEMMA TallyShutdown ==
  ASSUME Inv, ScopeInv, TallyInv, NEW w \in Sides,
         UserShutdown(w) \/ (w = "engine" /\ DropEngine)
  PROVE  TallyInv'
<1> DEFINE s == status[w]
           t == [s EXCEPT !.up = 0, !.cleaned = 0, !.failed = 0,
                          !.cleaning = s.up + s.cleaning + s.cleaned + s.failed]
<1>1. /\ UNCHANGED <<groups, listed>> /\ dropped \subseteq dropped' /\ w \notin dropped
      /\ pc \in {"up", "leaving"} /\ pc' \in {"up", "leaving", "closing"}
      /\ Shutdown(w) /\ (listed[w] \/ answers[w] # << >>)
  BY DEF UserShutdown, DropEngine, Shutdown, Made, alive, ScopeInv
<1>2. s \in Tallies /\ Total(s) = Size(w) /\ status \in [Sides -> Tallies]
  BY DEF TallyInv
<1>3. CASE listed[w]
  <2>1. UNCHANGED answers /\ status' = [status EXCEPT ![w] = t]
    BY <1>1, <1>2, <1>3 DEF Shutdown, CallAll, Running
  <2>2. t \in Tallies /\ Total(t) = Total(s) /\ t.dead = s.dead
    <3> HIDE DEF s
    <3> QED BY <1>2, Called
  <2> HIDE DEF s, t
  <2>3. Told(w)'
    <3>1. "true" \notin Said(w) /\ ("false" \in Said(w) => s.dead > 0)
      BY <1>3 DEF TallyInv, Told, s
    <3>2. Said(w)' = Said(w) /\ status'[w] = t /\ listed'[w]
      BY <1>1, <1>2, <1>3, <2>1 DEF Said
    <3> QED BY <2>2, <3>1, <3>2 DEF Told
  <2>4. answers' \in [Sides -> Seq(Words)]
    BY <2>1 DEF TallyInv
  <2> QED BY <1>1, <1>2, <2>1, <2>2, <2>3, <2>4, TallyStep DEF Setting
<1>4. CASE ~listed[w]
  <2>1. UNCHANGED status /\ Answered(w, "true")
    BY <1>1, <1>4 DEF Shutdown
  <2>2. /\ answers' \in [Sides -> Seq(Words)] /\ Said(w)' = Said(w) \cup {"true"}
        /\ \A v \in Sides : v # w => answers'[v] = answers[v]
    BY <2>1, AnswerGiven DEF Words
  <2>3. "true" \in Said(w) \/ "false" \in Said(w)
    <3>1. answers[w] \in Seq(Words)
      BY DEF TallyInv
    <3>2. Said(w) # {} /\ Said(w) \subseteq Words
      BY <1>1, <1>4, <3>1, SaidNothing DEF Said
    <3> QED BY <3>2 DEF Words
  <2>4. Size(w)' = Size(w)
    BY <1>1 DEF Size, WorkersIn
  <2>5. Told(w)'
    <3>1. CASE "false" \in Said(w)
      <4>1. status[w].killed = Size(w)
        BY <1>1, <1>4, <3>1 DEF TallyInv, Told
      <4> QED BY <1>1, <1>4, <2>1, <2>2, <2>4, <3>1, <4>1 DEF Told
    <3>2. CASE "false" \notin Said(w)
      <4>1. status[w].up = 0 /\ status[w].cleaning = 0 /\ status[w].killed = 0 /\ status[w].dead = 0
        BY <2>3, <3>2 DEF TallyInv, Told
      <4> QED BY <1>1, <1>4, <2>1, <2>2, <3>2, <4>1 DEF Told
    <3> QED BY <3>1, <3>2
  <2>6. status' = [status EXCEPT ![w] = s]
    BY <1>2, <2>1
  <2> HIDE DEF s
  <2> QED BY <1>1, <1>2, <2>2, <2>5, <2>6, TallyStep DEF Setting
<1> QED BY <1>3, <1>4

\* All have cleaned up or failed to: none is dead, so no call was told so.
LEMMA TallyEnds == ASSUME Inv, ScopeInv, TallyInv, GracefulEnds PROVE TallyInv'
<1>0. PICK w \in Sides : w = which
  BY DEF Inv
<1>1. /\ pc = "closing" /\ pc' \in {"up", "leaving"} /\ UNCHANGED <<groups, dropped, status>>
      /\ status[w].cleaned + status[w].failed = Size(w)
      /\ listed' = [listed EXCEPT ![w] = FALSE]
      /\ Answered(w, "true")
  BY <1>0 DEF GracefulEnds, Resumes, alive
<1> DEFINE s == status[w]
<1>2. /\ s \in Tallies /\ Total(s) = Size(w) /\ s.cleaned + s.failed = Size(w)
      /\ status' = [status EXCEPT ![w] = s]
  BY <1>1 DEF TallyInv
<1>3. s.up = 0 /\ s.cleaning = 0 /\ s.killed = 0 /\ s.dead = 0
  <2> HIDE DEF s
  <2> QED BY <1>2, OnlyCleaned
<1>4. "false" \notin Said(w)
  BY <1>0, <1>1, <1>3 DEF ScopeInv, TallyInv, Told
<1>5. /\ answers' \in [Sides -> Seq(Words)] /\ Said(w)' = Said(w) \cup {"true"}
      /\ \A v \in Sides : v # w => answers'[v] = answers[v]
  BY <1>1, AnswerGiven DEF Words
<1>6. ~listed'[w] /\ \A v \in Sides : v # w => listed'[v] = listed[v]
  BY <1>1 DEF ScopeInv
<1>7. Told(w)'
  BY <1>1, <1>3, <1>4, <1>5, <1>6 DEF Told
<1> HIDE DEF s
<1> QED BY <1>1, <1>2, <1>5, <1>6, <1>7, TallyStep DEF Setting

\* All are killed.
LEMMA TallyEscalate == ASSUME Inv, ScopeInv, TallyInv, Escalate PROVE TallyInv'
<1>0. PICK w \in Sides : w = which
  BY DEF Inv
<1> DEFINE n == Size(w)
           t == [NoWorkers EXCEPT !.killed = n]
<1>1. /\ pc = "closing" /\ pc' \in {"up", "leaving"} /\ UNCHANGED <<groups, dropped>>
      /\ status' = [status EXCEPT ![w] = t]
      /\ listed' = [listed EXCEPT ![w] = FALSE]
      /\ Answered(w, "false")
  BY <1>0 DEF Escalate, AnswerFalse, Resumes, KillAll, alive
<1>2. t \in Tallies /\ Total(t) = n /\ t.killed = n
  <2>1. n \in Nat
    BY SizesAre
  <2> HIDE DEF n
  <2> QED BY <2>1, Killed
<1> HIDE DEF t
<1>3. "true" \notin Said(w)
  BY <1>0, <1>1 DEF ScopeInv, TallyInv, Told
<1>4. /\ answers' \in [Sides -> Seq(Words)] /\ Said(w)' = Said(w) \cup {"false"}
      /\ \A v \in Sides : v # w => answers'[v] = answers[v]
  BY <1>1, AnswerGiven DEF Words
<1>5. ~listed'[w] /\ \A v \in Sides : v # w => listed'[v] = listed[v]
  BY <1>1 DEF ScopeInv
<1>6. status'[w] = t /\ Size(w)' = n
  <2>1. status \in [Sides -> Tallies]
    BY DEF TallyInv
  <2> QED BY <1>1, <2>1 DEF Size, WorkersIn
<1>7. Told(w)'
  BY <1>2, <1>3, <1>4, <1>5, <1>6 DEF Told
<1> QED BY <1>1, <1>2, <1>4, <1>5, <1>7, TallyStep DEF Setting

\* A worker is missing: the answer is no.
LEMMA TallyLost == ASSUME Inv, ScopeInv, TallyInv, GracefulLost PROVE TallyInv'
<1>0. PICK w \in Sides : w = which
  BY DEF Inv
<1>1. /\ pc = "closing" /\ pc' \in {"up", "leaving"} /\ UNCHANGED <<groups, dropped, status>>
      /\ listed' = [listed EXCEPT ![w] = w \notin dropped]
      /\ status[w].dead > 0
      /\ Answered(w, "false")
  BY <1>0 DEF GracefulLost, AnswerFalse, Here, Resumes, alive
<1> DEFINE s == status[w]
<1>2. s \in Tallies /\ Total(s) = Size(w) /\ status' = [status EXCEPT ![w] = s]
  BY <1>1 DEF TallyInv
<1> HIDE DEF s
<1>3. "true" \notin Said(w)
  BY <1>0, <1>1 DEF ScopeInv, TallyInv, Told
<1>4. /\ answers' \in [Sides -> Seq(Words)] /\ Said(w)' = Said(w) \cup {"false"}
      /\ \A v \in Sides : v # w => answers'[v] = answers[v]
  BY <1>1, AnswerGiven DEF Words
<1>5. (~listed'[w] => w \in dropped) /\ \A v \in Sides : v # w => listed'[v] = listed[v]
  BY <1>1 DEF ScopeInv
<1>6. Told(w)'
  BY <1>1, <1>3, <1>4, <1>5 DEF Told
<1> QED BY <1>1, <1>2, <1>4, <1>5, <1>6, TallyStep DEF Setting

\* The trainer's workers are killed if they are still listed.
LEMMA TallyDropPolicy == ASSUME Inv, ScopeInv, TallyInv, DropPolicy PROVE TallyInv'
<1>1. /\ pc = "leaving" /\ UNCHANGED <<pc, groups, answers>>
      /\ dropped' = dropped \cup {"train"}
      /\ listed' = [listed EXCEPT !["train"] = FALSE]
      /\ status' = IF listed["train"] THEN KillAll("train") ELSE status
  BY DEF DropPolicy, alive
<1>2. PICK w \in Sides : w = "train"
  BY DEF Sides
<1>3. ~listed'[w] /\ \A v \in Sides : v # w => listed'[v] = listed[v]
  BY <1>1, <1>2 DEF ScopeInv
<1>4. answers' \in [Sides -> Seq(Words)] /\ Said(w)' = Said(w)
  BY <1>1 DEF TallyInv, Said
<1>5. status \in [Sides -> Tallies] /\ Size(w)' = Size(w)
  BY <1>1 DEF TallyInv, Size, WorkersIn
<1>6. CASE ~listed[w]
  <2> DEFINE s == status[w]
  <2>1. s \in Tallies /\ Total(s) = Size(w) /\ status' = [status EXCEPT ![w] = s]
    BY <1>1, <1>2, <1>6 DEF TallyInv
  <2> HIDE DEF s
  <2>2. Told(w)'
    BY <1>1, <1>2, <1>3, <1>4, <1>5, <1>6 DEF TallyInv, Told
  <2> QED BY <1>1, <1>3, <1>4, <2>1, <2>2, TallyStep DEF Setting
<1>7. CASE listed[w]
  <2> DEFINE n == Size(w)
             t == [NoWorkers EXCEPT !.killed = n]
  <2>1. status' = [status EXCEPT ![w] = t]
    BY <1>1, <1>2, <1>7 DEF KillAll
  <2>2. t \in Tallies /\ Total(t) = n /\ t.killed = n
    <3>1. n \in Nat
      BY SizesAre
    <3> HIDE DEF n
    <3> QED BY <3>1, Killed
  <2> HIDE DEF t
  <2>3. "true" \notin Said(w)
    BY <1>7 DEF TallyInv, Told
  <2>4. status'[w] = t
    BY <1>5, <2>1
  <2>5. Told(w)'
    BY <1>1, <1>2, <1>3, <1>4, <1>5, <2>2, <2>3, <2>4 DEF Told
  <2> QED BY <1>1, <1>3, <1>4, <2>1, <2>2, <2>5, TallyStep DEF Setting
<1> QED BY <1>6, <1>7

\* There is no worker at first.
LEMMA TallyInit == Init => TallyInv
<1> SUFFICES ASSUME Init PROVE TallyInv
  OBVIOUS
<1>1. /\ pc = "configure" /\ which = "engine" /\ groups = [w \in Sides |-> << >>]
      /\ status = [w \in Sides |-> NoWorkers] /\ answers = [w \in Sides |-> << >>]
  BY DEF Init
<1>2. NoWorkers \in Tallies /\ Total(NoWorkers) = 0
  BY Nobody
<1>3. FlattenSeq(<< >>) = << >>
  BY DEF FlattenSeq
<1>4. \A w \in Sides : Size(w) = 0
  BY <1>1, <1>3 DEF Size, WorkersIn
<1>5. \A w \in Sides : status[w] = NoWorkers /\ Said(w) = {}
  BY <1>1, NoneHeld DEF Said
<1>6. status \in [Sides -> Tallies] /\ answers \in [Sides -> Seq(Words)]
  BY <1>1, <1>2
<1>7. \A w \in Sides : Told(w)
  BY <1>5 DEF Told
<1> QED BY <1>1, <1>2, <1>4, <1>5, <1>6, <1>7 DEF TallyInv, Setting, Sides

\* Every step keeps the tally.
LEMMA TallyNext ==
  ASSUME Inv, ScopeInv, PlaceInv, RayInv, TallyInv, [Next]_vars PROVE TallyInv'
<1>1. CASE Create
  BY <1>1, TallyCreate
<1>2. CASE (\E w \in Sides : UserShutdown(w)) \/ DropEngine
  BY <1>2, TallyShutdown DEF Sides
<1>3. CASE GracefulEnds
  BY <1>3, TallyEnds
<1>4. CASE Escalate
  BY <1>4, TallyEscalate
<1>5. CASE GracefulLost
  BY <1>5, TallyLost
<1>6. CASE DropPolicy
  BY <1>6, TallyDropPolicy
<1>7. CASE Worker
  <2>1. PICK w \in Sides, a \in {"up", "cleaning"}, b \in {"cleaned", "failed", "dead"} :
          Move(w, a, b) /\ UNCHANGED <<groups, answers, listed, dropped, pc, which>>
    BY <1>7 DEF Worker, CleanupFails, CleansUp, WorkerDies, alive, Sides
  <2> QED BY <2>1, TallyMove
<1>8. CASE \E w \in Sides : Reap(w)
  BY <1>8, TallyReap
<1>9. CASE Configure \/ RefuseConfig \/ Reuse \/ Insufficient \/ Request \/ Ready \/ ReadyTimesOut
           \/ CreateRaises \/ Join \/ JoinRaises
  <2>1. /\ UNCHANGED <<groups, status, answers, listed, dropped, which>>
        /\ pc \in {"configure", "place", "ready", "create", "join"}
        /\ pc' \in {"place", "raised", "create", "ready", "up"}
        /\ pc = "join" => pc' \in {"up", "raised"}
    BY <1>9 DEF Configure, RefuseConfig, Reuse, Insufficient, Request, Ready, ReadyTimesOut,
                CreateRaises, Join, JoinRaises, built, closing
  <2> QED BY <2>1, TallySame DEF Setting
<1>10. CASE Generate \/ NodeJoins \/ PlaceGroup \/ UNCHANGED vars
  <2>1. UNCHANGED <<groups, status, answers, listed, dropped, pc, which>>
    BY <1>10 DEF Generate, NodeJoins, PlaceGroup, vars, built, closing
  <2> QED BY <2>1, TallySame DEF Setting
<1>11. CASE Leave \/ ShutdownClusters
  <2>1. UNCHANGED <<groups, status, answers, listed, dropped, which>> /\ pc' \in {"leaving", "ended"}
    BY <1>11 DEF Leave, ShutdownClusters, built, closing
  <2> QED BY <2>1, TallySame DEF Setting
<1> QED
  BY <1>1, <1>2, <1>3, <1>4, <1>5, <1>6, <1>7, <1>8, <1>9, <1>10, <1>11 DEF Next, Driver, Ray

-----------------------------------------------------------------------------
\* A failed attempt, a timeout, a set-up that raises and a shutdown leave no
\* placement group that no virtual cluster knows (virtual_cluster.py:237-334,
\* 380-408).
THEOREM NoGroupLost == Spec => []GroupsAccounted
<1>1. Inv => GroupsAccounted
  BY DEF Inv
<1> QED
  BY InvInit, InvNext, <1>1, PTL DEF Spec

\* Once the objects of a run are gone, whether its set-up came up, was
\* refused or raised after some groups were placed and some workers made, and
\* whatever its shutdowns answered, Ray holds no group of theirs and nobody
\* lists a worker, so that Ray may end them all (virtual_cluster.py:380-408,
\* vllm.py:1852-1859, lm_policy.py:537-544).
NobodyHeld == pc = "ended" => DOMAIN ray = {} /\ \A w \in Sides : ~listed[w]
THEOREM NoGroupLeft == Spec => []NobodyHeld
<1>1. Inv /\ ScopeInv => NobodyHeld
  BY DEF Inv, ScopeInv, NobodyHeld
<1>2. Inv /\ ScopeInv /\ [Next]_vars => ScopeInv'
  BY ScopeNext
<1> QED
  BY InvInit, InvNext, ScopeInit, <1>1, <1>2, PTL DEF Spec

\* Every replica of the engine is complete, on one node if it is no larger,
\* has bundles and a seed of its own and one worker that takes a rank prefix;
\* the collective that comes up has every rank it waits for (vllm.py:91-134,
\* 1346-1459, 1477-1509; vllm_backend.py:29-42).
THEOREM ReplicasAreWhole == Spec => []ReplicasPlaced
<1>1. Inv /\ ScopeInv /\ [Next]_vars => ScopeInv'
  BY ScopeNext
<1>2. Inv /\ ScopeInv /\ PlaceInv /\ [Next]_vars => PlaceInv'
  BY PlaceNext
<1> QED
  BY InvInit, InvNext, ScopeInit, <1>1, PlaceInit, <1>2, PlaceInvPlaces, PTL DEF Spec

\* Uneven or empty shards, spread over replicas of several workers and joined
\* again, are the rows of the caller in their order (vllm.py:1511-1541,
\* worker_groups.py:745-785).
THEOREM GenerationInOrder == Spec => []RowsInOrder
<1>1. Inv /\ ScopeInv /\ [Next]_vars => ScopeInv'
  BY ScopeNext
<1>2. Inv /\ ScopeInv /\ PlaceInv /\ [Next]_vars => PlaceInv'
  BY PlaceNext
<1>3. PlaceInv /\ RowsInOrder /\ [Next]_vars => RowsInOrder'
  BY RowsNext
<1> QED
  BY InvInit, InvNext, ScopeInit, <1>1, PlaceInit, <1>2, RowsInit, <1>3, PTL DEF Spec

\* A group whose shutdowns have answered nothing but True had every worker go
\* through its cleanup, well or not; one that answers True after a False had
\* all its workers killed: none was left running or found dead.  However often
\* shutdown is called, by the user and once more by __del__, and whatever
\* worker died, hung or was killed meanwhile (worker_groups.py:844-898,
\* vllm.py:1765-1772, 1852-1859).
THEOREM ShutdownTellsTruth == Spec => []ShutdownTruthful
<1>1. Inv /\ ScopeInv /\ [Next]_vars => ScopeInv'
  BY ScopeNext
<1>2. Inv /\ ScopeInv /\ PlaceInv /\ [Next]_vars => PlaceInv'
  BY PlaceNext
<1>3. Inv /\ PlaceInv /\ RayInv /\ [Next]_vars => RayInv'
  BY RayNext
<1>4. Inv /\ ScopeInv /\ PlaceInv /\ RayInv /\ TallyInv /\ [Next]_vars => TallyInv'
  BY TallyNext
<1> QED
  BY InvInit, InvNext, ScopeInit, <1>1, PlaceInit, <1>2, RayInit, <1>3, TallyInit, <1>4,
     TallyTruthful, PTL DEF Spec
=============================================================================
