----------------------------- MODULE ClusterSetup -----------------------------
(***************************************************************************)
(* The actors of a run, from setup() in algorithms/grpo.py to their end:   *)
(* virtual clusters of placement groups (distributed/virtual_cluster.py),  *)
(* the groups of engine and policy workers on them                         *)
(* (distributed/worker_groups.py, models/generation/vllm.py), the group    *)
(* of ranks that receives weights when inference is not colocated, the     *)
(* shards a generation is cut into, and the shutdown of a worker group     *)
(* with its escalation: by the user, as often as he likes, and again when  *)
(* its objects go out of scope, whether the run came up or raised.         *)
(*                                                                         *)
(* Ray is external: it places the bundles of a group on nodes, each bundle *)
(* one GPU, and ends actors nobody holds.  Nodes may join late.            *)
(***************************************************************************)
EXTENDS BatchSharding, FiniteSets

CONSTANTS
  Setups,       \* records [nodes, gpus, real, colocated, inference, mp]
  MaxRetries,   \* NRL_VIRTUAL_CLUSTER_MAX_RETRIES
  MaxShutdowns, \* bound on the user's calls of shutdown
  Rows          \* prompts of a generation

ASSUME SetupAssumption ==
  /\ MaxRetries \in Nat \ {0} /\ MaxShutdowns \in Nat /\ Rows \in Nat \ {0}
  /\ Setups \subseteq [nodes : Nat \ {0}, gpus : Nat \ {0}, real : Nat, colocated : BOOLEAN,
                       inference : Nat, mp : Nat \ {0}]

\* configure_worker numbers 1024 seeds per node.
ASSUME SeedAssumption ==
  \A s \in Setups :
    /\ s.gpus <= 1024
    /\ s.mp > s.gpus => Larger(s.nodes, s.inference) * s.gpus <= 1024 * s.mp

VARIABLES
  setup,        \* the configuration, and the nodes the Ray cluster really has
  pc,           \* where the driver is
  which,        \* the worker group it works on: "engine" or "train"
  joined,       \* nodes of the Ray cluster that are up
  tries,        \* attempts at the placement groups of this cluster
  ray,          \* placement group -> node of each bundle, << >> while pending
  held,         \* cluster -> _node_placement_groups, << >> for None
  groups,       \* worker group -> its tied groups, sequences of bundles
  status,       \* worker group -> how many of its workers met each fate
  listed,       \* worker group -> its workers are in _workers
  answers,      \* worker group -> what each shutdown returned
  dropped,      \* worker groups whose __del__ has been called
  rows          \* the rows generated

vars == <<setup, pc, which, joined, tries, ray, held, groups, status, listed, answers, dropped,
          rows>>

Sides == {"engine", "train"}
Fates == {"up", "cleaning", "cleaned", "failed", "killed", "gone", "dead"}
NoWorkers == [fate \in Fates |-> 0]
\* Colocated, one cluster serves both.
ClusterOf(w) == IF setup.colocated THEN "engine" ELSE w

-----------------------------------------------------------------------------
(* Clusters.                                                               *)

\* bundle_ct_per_node_list, GpusPerNode for each of NodeCount nodes.  One
\* node shares its GPUs, several are divided.
Shared == ~setup.colocated /\ setup.nodes = 1
GpusPerNode(cluster) ==
  IF ~Shared THEN setup.gpus
  ELSE IF cluster = "engine" THEN setup.inference ELSE setup.gpus - setup.inference
NodeCount(cluster) ==
  IF setup.colocated \/ Shared THEN setup.nodes
  ELSE IF cluster = "engine" THEN setup.inference ELSE Larger(0, setup.nodes - setup.inference)
World(cluster) == NodeCount(cluster) * GpusPerNode(cluster)

\* A single placement group when a replica is larger than a node.
Unified(cluster) == cluster = "engine" /\ setup.mp > GpusPerNode(cluster)
PgCount(cluster) == IF Unified(cluster) THEN 1 ELSE NodeCount(cluster)
PgSize(cluster)  == IF Unified(cluster) THEN World(cluster) ELSE GpusPerNode(cluster)
PgIds(cluster) == [i \in 1..PgCount(cluster) |-> <<cluster, i>>]

Placed == UNION {{p} \X DOMAIN ray[p] : p \in DOMAIN ray}
Used(n) == Cardinality({b \in Placed : ray[b[1]][b[2]] = n})
Free(n) == setup.gpus - Used(n)

\* Where Ray may put the bundles of a group: PACK keeps them on one node
\* if one has room for all, SPREAD is free.
Placements(p) ==
  LET size == PgSize(p[1]) IN
  {f \in [1..size -> joined] :
    /\ \A n \in joined : Cardinality({b \in 1..size : f[b] = n}) <= Free(n)
    /\ ~Unified(p[1]) /\ (\E n \in joined : Free(n) >= size) => Cardinality(Range(f)) = 1}

-----------------------------------------------------------------------------
(* Tied groups.  A worker's bundle is <<placement group, bundle>>.         *)

OfOnePg(p) == [b \in 1..Len(ray[p]) |-> <<p, b>>]
AllBundles(w) ==
  LET pgs == held[ClusterOf(w)] IN FlattenSeq([i \in DOMAIN pgs |-> OfOnePg(pgs[i])])

Slices(s, size) == [i \in 1..(Len(s) \div size) |-> GetBatch(s, i, size)]

\* allocate_worker_groups: the bundles of one placement group, node by node.
InNodeOrder(p) == SelectIndices(OfOnePg(p), Sorted(ray[p], 1, Len(ray[p])))
EqualNodes(p) ==
  \A m, n \in Range(ray[p]) : Cardinality({b \in DOMAIN ray[p] : ray[p][b] = m})
                              = Cardinality({b \in DOMAIN ray[p] : ray[p][b] = n})

PlainGroups(w) == LET all == AllBundles(w) IN [i \in DOMAIN all |-> <<all[i]>>]

AcrossPgs(w) == Slices(AllBundles(w), setup.mp)      \* faulty: not node by node
TiedGroups(w) ==
  LET pgs == held[ClusterOf(w)]
  IN IF Len(pgs) = 1 THEN Slices(InNodeOrder(pgs[1]), setup.mp)
     ELSE FlattenSeq([i \in DOMAIN pgs |-> Slices(OfOnePg(pgs[i]), setup.mp)])

GroupsOf(w) == IF w = "engine" /\ setup.mp > 1 THEN TiedGroups(w) ELSE PlainGroups(w)

\* The ValueErrors, assertions and index errors on the way to the workers.
Allocatable(w) ==
  /\ held[ClusterOf(w)] # << >>
  /\ w = "engine" /\ setup.mp > 1 =>
       /\ Len(held[ClusterOf(w)]) = 1 => EqualNodes(held[ClusterOf(w)][1])
       /\ TiedGroups(w) # << >>

\* configure_worker: the seed of a replica, from its first bundle.
NodeIndex(w, g) ==
  LET p == g[1][1] IN
  IF Len(g) > 1 /\ Len(held[ClusterOf(w)]) = 1
  THEN Cardinality({n \in Range(ray[p]) : n < ray[p][g[1][2]]}) ELSE p[2] - 1
Seed(w, g) == 1024 * NodeIndex(w, g) + (g[1][2] - 1) \div Len(g)

WorkersIn(gs) == Len(FlattenSeq(gs))

\* Workers are numbered group by group; the layout of VllmGeneration's
\* sharding annotations gives number k its coordinates.
DpSize       == World(ClusterOf("engine")) \div setup.mp
DpCoord(k)   == (k - 1) \div setup.mp
IsRankZero(k) == (k - 1) % setup.mp = 0

\* Ranks in the collective for weights: the head of the train cluster is 0,
\* the local ranks of group i follow its prefix.
PerGroup(gs) == WorkersIn(gs) \div Len(gs)
PrefixOf(gs, i) == (i - 1) * PerGroup(gs)
RanksJoining(gs) ==
  {<<0, 0, 0>>} \cup {<<PrefixOf(gs, i) + r, i, r>> : i \in DOMAIN gs, r \in 1..setup.mp}
WorldOfCollective == World("engine") + 1

-----------------------------------------------------------------------------
(* setup().                                                                *)

Init ==
  /\ setup \in Setups
  /\ pc = "configure" /\ which = "engine"
  /\ joined \in {1..n : n \in 1..setup.real}
  /\ tries = 0
  /\ ray = << >>
  /\ held = [c \in Sides |-> << >>]
  /\ groups = [w \in Sides |-> << >>]
  /\ status = [w \in Sides |-> NoWorkers]
  /\ listed = [w \in Sides |-> FALSE]
  /\ answers = [w \in Sides |-> << >>]
  /\ dropped = {}
  /\ rows = << >>

closing == <<answers, dropped, rows>>
built   == <<groups, status, listed>>

\* The assertions on the resources, and the layout of the engine's workers.
Valid ==
  /\ ~setup.colocated => /\ setup.inference > 0
                         /\ setup.nodes = 1 => setup.gpus > setup.inference
  /\ World(ClusterOf("engine")) % setup.mp = 0

Configure ==
  /\ pc = "configure"
  /\ Valid
  /\ pc' = "place"
  /\ UNCHANGED <<setup, which, joined, tries, ray, held, built, closing>>

RefuseConfig ==
  /\ pc = "configure"
  /\ ~Valid
  /\ pc' = "raised"
  /\ UNCHANGED <<setup, which, joined, tries, ray, held, built, closing>>

cluster == ClusterOf(which)

\* _init_placement_groups returns the groups it has.
Reuse ==
  /\ pc = "place"
  /\ held[cluster] # << >>
  /\ pc' = "create"
  /\ UNCHANGED <<setup, which, joined, tries, ray, held, built, closing>>

\* ray.cluster_resources: what the nodes have, used or not.
TotalGpus == setup.gpus * Cardinality(joined)

\* ResourceInsufficientError: sleep and try again, at most MaxRetries times.
Insufficient ==
  /\ pc = "place"
  /\ held[cluster] = << >>
  /\ World(cluster) > TotalGpus
  /\ tries' = tries + 1
  /\ pc' = IF tries' = MaxRetries THEN "raised" ELSE "place"
  /\ UNCHANGED <<setup, which, joined, ray, held, built, closing>>

Request ==
  /\ pc = "place"
  /\ held[cluster] = << >>
  /\ World(cluster) <= TotalGpus
  /\ pc' = "ready"
  /\ ray' = [p \in DOMAIN ray \cup Range(PgIds(cluster)) |->
              IF p \in DOMAIN ray THEN ray[p] ELSE << >>]
  /\ UNCHANGED <<setup, which, joined, tries, held, built, closing>>

Pending == {p \in Range(PgIds(cluster)) : ray[p] = << >>}

Ready ==
  /\ pc = "ready"
  /\ Pending = {}
  /\ pc' = "create"
  /\ held' = [held EXCEPT ![cluster] = PgIds(cluster)]
  /\ tries' = 0
  /\ UNCHANGED <<setup, which, joined, ray, built, closing>>

\* After 180 seconds; not tried again.
Without(ps) == [p \in DOMAIN ray \ ps |-> ray[p]]
LeavePlaced(ps) == Without(Pending)                  \* faulty: keeps what was placed
RemoveGroups(ps) == Without(ps)
ReadyTimesOut ==
  /\ pc = "ready"
  /\ Pending # {}
  /\ ray' = RemoveGroups(Range(PgIds(cluster)))
  /\ pc' = "raised"
  /\ UNCHANGED <<setup, which, joined, tries, held, built, closing>>

\* RayWorkerGroup.__init__, and the first calls that need its workers.
Create ==
  /\ pc = "create"
  /\ Allocatable(which)
  /\ groups' = [groups EXCEPT ![which] = GroupsOf(which)]
  /\ status' = [status EXCEPT ![which].up = WorkersIn(GroupsOf(which))]
  /\ listed' = [listed EXCEPT ![which] = TRUE]
  /\ IF which = "engine" THEN pc' = "place" /\ which' = "train"
     ELSE pc' = (IF setup.colocated THEN "up" ELSE "join") /\ which' = which
  /\ UNCHANGED <<setup, joined, tries, ray, held, closing>>

\* No group can be made, or a worker does not start.
CreateRaises ==
  /\ pc = "create"
  /\ pc' = "raised"
  /\ UNCHANGED <<setup, which, joined, tries, ray, held, built, closing>>

\* Every rank waits until the whole world has come.
Join ==
  /\ pc = "join"
  /\ Cardinality(RanksJoining(groups["engine"])) = WorldOfCollective
  /\ pc' = "up"
  /\ UNCHANGED <<setup, which, joined, tries, ray, held, built, closing>>

JoinRaises ==
  /\ pc = "join"
  /\ Cardinality(RanksJoining(groups["engine"])) # WorldOfCollective
  /\ pc' = "raised"
  /\ UNCHANGED <<setup, which, joined, tries, ray, held, built, closing>>

-----------------------------------------------------------------------------
(* Use.                                                                    *)

\* VllmGeneration.generate: as many shards as the layout has replicas, each
\* to the first worker of its coordinates; the last may be short or empty.
EvenShard(k) ==                                      \* faulty: drops the remainder
  LET size == Rows \div DpSize IN GetBatch([i \in 1..Rows |-> i], k, size)
RowsOfShard(k) == Shard([i \in 1..Rows |-> i], k, DpSize, Rows)
LeaderRows(k) == IF IsRankZero(k) THEN RowsOfShard(DpCoord(k) + 1) ELSE << >>

Generate ==
  /\ pc = "up" /\ rows = << >> /\ listed["engine"]
  /\ answers["engine"] = << >> /\ status["engine"].dead = 0
  /\ rows' = FlattenSeq([k \in 1..WorkersIn(groups["engine"]) |-> LeaderRows(k)])
  /\ UNCHANGED <<setup, pc, which, joined, tries, ray, held, built, answers, dropped>>

-----------------------------------------------------------------------------
(* Shutdown.                                                               *)

alive == <<setup, joined, tries, ray, held, groups, rows>>
Size(w) == WorkersIn(groups[w])
KillAll(w) == [status EXCEPT ![w] = [NoWorkers EXCEPT !.killed = Size(w)]]
Move(w, from, to) ==
  /\ status[w][from] > 0
  /\ status' = [status EXCEPT ![w][from] = @ - 1, ![w][to] = @ + 1]

\* Every worker that lives is called, also one that was called before.
Running(w) == status[w].up + status[w].cleaning + status[w].cleaned + status[w].failed
CallAll(w) ==
  [status EXCEPT ![w] = [@ EXCEPT !.up = 0, !.cleaned = 0, !.failed = 0, !.cleaning = Running(w)]]
Answered(w, b) == answers' = [answers EXCEPT ![w] = Append(@, b)]

\* shutdown(cleanup_method="shutdown"): True at once if no worker is listed.
Shutdown(w) ==
  \/ /\ listed[w]
     /\ pc' = "closing" /\ which' = w
     /\ status' = CallAll(w)
     /\ UNCHANGED answers
  \/ /\ ~listed[w]
     /\ Answered(w, "true")
     /\ UNCHANGED <<pc, which, status>>

\* VllmGeneration or Policy exists: it lists its workers, or has shut them down.
Made(w) == listed[w] \/ answers[w] # << >>

UserShutdown(w) ==
  /\ pc = "up" /\ Made(w)
  /\ Len(answers["engine"]) + Len(answers["train"]) < MaxShutdowns
  /\ Shutdown(w)
  /\ UNCHANGED <<alive, listed, dropped>>

CleansUp(w) ==
  /\ Move(w, "cleaning", "cleaned")
  /\ UNCHANGED <<alive, pc, which, listed, answers, dropped>>

\* The engine's cleanup returns False for any error, which nobody reads; the
\* policy's does nothing.
CleanupFails ==
  /\ Move("engine", "cleaning", "failed")
  /\ UNCHANGED <<alive, pc, which, listed, answers, dropped>>

Here(fate) == status[which][fate] > 0
\* Back in the program, or in the __del__ that called.
Resumes == pc' = IF which \in dropped THEN "leaving" ELSE "up"

GracefulEnds ==
  /\ pc = "closing"
  /\ status[which].cleaned + status[which].failed = Size(which)
  /\ listed' = [listed EXCEPT ![which] = FALSE]
  /\ Answered(which, "true")
  /\ Resumes
  /\ UNCHANGED <<alive, which, status, dropped>>

\* After 30 seconds: kill all workers and initializers.
AnswerTrue(w, b) == Answered(w, "true")              \* faulty: success not reset
AnswerFalse(w, b) == Answered(w, b)
NoTimeout == FALSE                                   \* faulty: waits for every cleanup
TimesOut == Here("cleaning")
Escalate ==
  /\ pc = "closing"
  /\ TimesOut
  /\ status' = KillAll(which)
  /\ listed' = [listed EXCEPT ![which] = FALSE]
  /\ AnswerFalse(which, "false")
  /\ Resumes
  /\ UNCHANGED <<alive, which, dropped>>

\* The error of a dead actor is of neither class: only the caller catches
\* it, and the other workers stay as they are, and listed; but who holds
\* them is gone after a __del__.
GracefulLost ==
  /\ pc = "closing"
  /\ Here("dead")
  /\ AnswerFalse(which, "false")
  /\ listed' = [listed EXCEPT ![which] = which \notin dropped]
  /\ Resumes
  /\ UNCHANGED <<alive, which, status, dropped>>

-----------------------------------------------------------------------------
(* The objects go out of scope, at the end of the program or as an error   *)
(* ends it, in any order but that a worker group holds its cluster.        *)

Leave ==
  /\ pc \in {"up", "raised"}
  /\ pc' = "leaving"
  /\ UNCHANGED <<setup, which, joined, tries, ray, held, built, closing>>

\* VllmGeneration.__del__ is another shutdown().
DropEngine ==
  /\ pc = "leaving" /\ Made("engine") /\ "engine" \notin dropped
  /\ dropped' = dropped \cup {"engine"}
  /\ Shutdown("engine")
  /\ UNCHANGED <<alive, listed>>

\* Policy.__del__ kills the workers that are still listed.
DropPolicy ==
  /\ pc = "leaving" /\ Made("train") /\ "train" \notin dropped
  /\ dropped' = dropped \cup {"train"}
  /\ status' = IF listed["train"] THEN KillAll("train") ELSE status
  /\ listed' = [listed EXCEPT !["train"] = FALSE]
  /\ UNCHANGED <<alive, pc, which, answers>>

\* RayVirtualCluster.shutdown of both clusters.
ShutdownClusters ==
  /\ pc = "leaving"
  /\ \A w \in Sides : Made(w) => w \in dropped
  /\ pc' = "ended"
  /\ ray' = Without(Range(held["engine"]) \cup Range(held["train"]))
  /\ held' = [c \in Sides |-> << >>]
  /\ UNCHANGED <<setup, which, joined, tries, built, closing>>

-----------------------------------------------------------------------------
(* Ray.                                                                    *)

NodeJoins ==
  /\ pc \notin {"configure", "up", "closing", "leaving", "ended", "raised"}
  /\ \E n \in 1..setup.real : n \notin joined /\ joined' = joined \cup {n}
  /\ UNCHANGED <<setup, pc, which, tries, ray, held, built, closing>>

PlaceGroup ==
  /\ \E p \in DOMAIN ray :
       /\ ray[p] = << >>
       /\ \E f \in Placements(p) : ray' = [ray EXCEPT ![p] = f]
  /\ UNCHANGED <<setup, pc, which, joined, tries, held, built, closing>>

\* One that has cleaned up has answered its call; only the next can miss it.
WorkerDies(w) ==
  /\ pc \in {"up", "closing", "leaving"}
  /\ Move(w, "up", "dead") \/ Move(w, "cleaning", "dead")
  /\ UNCHANGED <<alive, pc, which, listed, answers, dropped>>

\* An actor whose handles are gone ends.
Reap(w) ==
  /\ ~listed[w]
  /\ \E fate \in {"up", "cleaning", "cleaned", "failed"} : status[w][fate] > 0
  /\ status' = [status EXCEPT ![w] =
                 [NoWorkers EXCEPT !.gone = status[w].gone + status[w].cleaned
                                            + status[w].failed,
                                   !.dead = status[w].dead,
                                   !.killed = status[w].killed + status[w].up
                                              + status[w].cleaning]]
  /\ UNCHANGED <<alive, pc, which, listed, answers, dropped>>

-----------------------------------------------------------------------------

Driver ==
  \/ Configure \/ RefuseConfig \/ Reuse \/ Insufficient \/ Request \/ Ready \/ ReadyTimesOut
  \/ Create \/ CreateRaises \/ Join \/ JoinRaises \/ Generate
  \/ \E w \in Sides : UserShutdown(w)
  \/ GracefulEnds \/ Escalate \/ GracefulLost
  \/ Leave \/ DropEngine \/ DropPolicy \/ ShutdownClusters

Worker == CleanupFails \/ \E w \in Sides : CleansUp(w) \/ WorkerDies(w)

Ray == NodeJoins \/ PlaceGroup \/ \E w \in Sides : Reap(w)

Next == Driver \/ Worker \/ Ray

\* The driver goes on, and Ray collects actors nobody holds.  The waits for
\* placement groups and for cleanups have timeouts; those for workers to start
\* (worker_groups.py:537) and for the collective (grpo.py:361) have none, and
\* are taken to end, well or with an error.  No node has to join, no group to
\* be placed, no cleanup to end.
Fairness == WF_vars(Driver) /\ \A w \in Sides : WF_vars(Reap(w))
Spec == Init /\ [][Next]_vars /\ Fairness

-----------------------------------------------------------------------------
(* Properties.                                                             *)

\* The replicas of the engine are made of different bundles, mp each, and
\* stay on one node if they fit; no two sample with one seed ("compute a
\* unique seed", vllm.py:121); their first workers are exactly those the
\* sharding annotations put at rank 0 of the parallel axes, which calls with
\* run_rank_0_only_axes reach; and a collective that came up has every rank
\* of its world once.
ReplicasPlaced ==
  LET gs == groups["engine"] IN
  gs # << >> =>
    /\ IsInjective(FlattenSeq(gs))
    /\ \A i \in DOMAIN gs :
         /\ Len(gs[i]) = setup.mp
         /\ listed["engine"] /\ setup.mp <= GpusPerNode(ClusterOf("engine")) =>
              Cardinality({ray[b[1]][b[2]] : b \in Range(gs[i])}) = 1
    /\ listed["engine"] => IsInjective([i \in DOMAIN gs |-> Seed("engine", gs[i])])
    /\ {k \in 1..WorkersIn(gs) : IsRankZero(k)} = {PrefixOf(gs, i) + 1 : i \in DOMAIN gs}
    /\ ~setup.colocated /\ pc = "up" =>
         {r[1] : r \in RanksJoining(gs)} = 0..(WorldOfCollective - 1)

\* A generation returns rows in the caller's order, none twice, and all of
\* them unless GPUs of a node are left over by the replicas.
Evenly == Unified(ClusterOf("engine")) \/ GpusPerNode(ClusterOf("engine")) % setup.mp = 0
RowsInOrder ==
  rows # << >> =>
    /\ \A i, j \in DOMAIN rows : i < j => rows[i] < rows[j]
    /\ Evenly => Len(rows) = Rows

\* Ray holds placement groups only for a cluster that knows them, or while
\* one is being set up: a failed attempt and a shutdown leave none behind.
GroupsAccounted ==
  DOMAIN ray \subseteq (UNION {Range(held[c]) : c \in Sides})
                         \cup (IF pc = "ready" THEN Range(PgIds(cluster)) ELSE {})

\* shutdown() tells what became of the workers ("True if all workers were
\* successfully shut down", worker_groups.py:843): a group that has answered
\* nothing but True had each of its workers go through its cleanup, well or
\* not.  A True that comes after a False says less: the list is empty, as the
\* workers have all been killed; never that some were left, or that one died.
ShutdownTruthful ==
  \A w \in Sides : "true" \in Range(answers[w]) =>
    IF "false" \in Range(answers[w]) THEN status[w].killed = Size(w)
    ELSE status[w].cleaned + status[w].failed + status[w].gone = Size(w)

\* In the end no worker and no placement group is left, whether setup() came
\* up, was refused or raised half way, and however often and with whatever
\* outcome the worker groups were shut down.
NothingLeft ==
  /\ pc = "ended" /\ DOMAIN ray = {}
  /\ \A w \in Sides : status[w].gone + status[w].killed + status[w].dead = Size(w)
Ends == pc = "configure" ~> NothingLeft
=============================================================================
