---------------------------- MODULE CollectiveRefit ----------------------------
(***************************************************************************)
(* The transfer of weights to an engine on its own GPUs: the else branch   *)
(* of refit_policy_generation, broadcast_weights_for_collective of the     *)
(* trainer's workers and update_weights_from_collective of the engine's    *)
(* ranks, over some training steps.                                        *)
(*                                                                         *)
(* Rank 0 of the trainer and every rank of the engine form one group.  A   *)
(* broadcast is queued on the GPU of each member and runs when it is at    *)
(* the head of all the queues; the method that queued it goes on, and may  *)
(* return before it has run, as far as the queue allows.  Queues and       *)
(* collectives are NCCL's and external.                                    *)
(***************************************************************************)
EXTENDS EngineRanks, FiniteSets

CONSTANTS
  NTrainers,   \* workers of the policy
  Depths,      \* operations a GPU may have queued
  MaxSteps,    \* training steps, each after a refit
  MaxRaises    \* methods that may raise in a refit

ASSUME CollectiveAssumption ==
  /\ NTrainers \in Nat \ {0}
  /\ Depths \subseteq Nat \ {0} /\ MaxSteps \in Nat \ {0}
  /\ MaxRaises \in Nat

Trainers == 0..NTrainers - 1
Done     == NParams + 1      \* a method that has returned

VARIABLES
  pc,       \* where the driver is
  version,  \* training steps the policy has taken
  sharded,  \* the parameters that are DTensors
  depth,    \* how far methods run ahead of their GPU
  at,       \* per trainer worker, the parameter its method is at
  queue,    \* per trainer worker, the operations on its GPU: [does, param]
  next,     \* per engine rank, the parameter its method is at
  ops,      \* per engine rank, the broadcasts on its GPU: [param, load]
  failed,   \* trainer workers and engine ranks whose method raised
  loaded    \* per engine rank, what each parameter holds: <<param, version>>

given   == <<sharded, depth>>
trainer == <<at, queue>>
engine  == <<next, ops, loaded>>
vars == <<pc, version, given, trainer, engine, failed>>

Init ==
  /\ pc = "info"
  /\ version = 1
  /\ sharded \in SUBSET Params
  /\ depth \in Depths
  /\ at = [t \in Trainers |-> Done]
  /\ queue = [t \in Trainers |-> <<>>]
  /\ next = [d \in Devices |-> Done]
  /\ ops = [d \in Devices |-> <<>>]
  /\ failed = [trainers |-> {}, ranks |-> {}]
  /\ loaded = [d \in Devices |-> [p \in Params |-> <<p, 0>>]]

-----------------------------------------------------------------------------
(* The driver.                                                             *)

\* The names in the state dict, from the first worker: all have the same.
PrepareInfo ==
  /\ pc = "info"
  /\ pc' = "call_trainers"
  /\ UNCHANGED <<version, given, trainer, engine, failed>>

CallTrainers ==
  /\ pc = "call_trainers"
  /\ at' = [t \in Trainers |-> 1]
  /\ pc' = "call_engine"
  /\ UNCHANGED <<version, given, queue, engine, failed>>

\* To the leader of each replica, and by collective_rpc to all its ranks.
CallEngine ==
  /\ pc = "call_engine"
  /\ next' = [d \in Devices |-> 1]
  /\ failed' = [failed EXCEPT !.ranks = {}]
  /\ pc' = "wait_trainers"
  /\ UNCHANGED <<version, given, trainer, ops, loaded>>

WaitTrainers ==
  /\ pc = "wait_trainers"
  /\ \/ failed.trainers # {} /\ pc' = "raised"
     \/ failed.trainers = {} /\ (\A t \in Trainers : at[t] = Done) /\ pc' = "wait_engine"
  /\ UNCHANGED <<version, given, trainer, engine, failed>>

\* A leader answers with its own rank's result, when all its ranks have one.
Result(r) == <<r, 0>> \notin failed.ranks
SomeSucceeded == \E r \in Replicas : Result(r)           \* faulty: any for all
Succeeded == \A r \in Replicas : Result(r)
WaitEngine ==
  /\ pc = "wait_engine"
  /\ \A d \in Devices : next[d] = Done
  /\ pc' = IF Succeeded THEN "generate" ELSE "raised"
  /\ UNCHANGED <<version, given, trainer, engine, failed>>

\* Rollouts with the new weights, behind what is queued.
Generate ==
  /\ pc = "generate"
  /\ \A d \in Devices : ops[d] = <<>>
  /\ pc' = "train"
  /\ UNCHANGED <<version, given, trainer, engine, failed>>

Train ==
  /\ pc = "train"
  /\ \A t \in Trainers : queue[t] = <<>>
  /\ version' = version + 1
  /\ pc' = IF version = MaxSteps THEN "end" ELSE "info"
  /\ UNCHANGED <<given, trainer, engine, failed>>

-----------------------------------------------------------------------------
(* broadcast_weights_for_collective: all workers gather a DTensor, and     *)
(* rank 0 sends it.                                                        *)

Send(p) == [does |-> "send", param |-> p]
Gather(p) == IF p \in sharded THEN <<[does |-> "gather", param |-> p]>> ELSE <<>>
OnlyOfRankZero(t, p) == IF t = 0 THEN Append(Gather(p), Send(p)) ELSE <<>>  \* faulty
OperationsFor(t, p) == IF t = 0 THEN Append(Gather(p), Send(p)) ELSE Gather(p)

Room(q) == Len(q) < depth
MayRaise == Cardinality(failed.trainers) + Cardinality(failed.ranks) < MaxRaises

TrainerIssues(t) ==
  /\ at[t] \in Params /\ t \notin failed.trainers
  /\ Room(queue[t])
  /\ queue' = [queue EXCEPT ![t] = @ \o OperationsFor(t, at[t])]
  /\ at' = [at EXCEPT ![t] = @ + 1]
  /\ UNCHANGED <<pc, version, given, engine, failed>>

TrainerRaises(t) ==
  /\ at[t] \in Params /\ t \notin failed.trainers /\ MayRaise
  /\ failed' = [failed EXCEPT !.trainers = @ \cup {t}]
  /\ UNCHANGED <<pc, version, given, trainer, engine>>

-----------------------------------------------------------------------------
(* update_weights_from_collective: one broadcast for each name, and its    *)
(* weight loaded.  An exception ends the loop.                             *)

Queued(d, load) == ops' = [ops EXCEPT ![d] = Append(@, [param |-> next[d], load |-> load])]

RankIssues(d) ==
  /\ next[d] \in Params
  /\ Room(ops[d])
  /\ Queued(d, TRUE)
  /\ next' = [next EXCEPT ![d] = @ + 1]
  /\ UNCHANGED <<pc, version, given, trainer, loaded, failed>>

SkipsParam(d) == next[d] + 1                             \* faulty: goes on with the rest
LeavesLoop(d) == Done

\* Before the broadcast, for want of memory, or after it, in load_weights.
RankRaises(d) ==
  /\ next[d] \in Params /\ MayRaise
  /\ UNCHANGED ops \/ (Room(ops[d]) /\ Queued(d, FALSE))
  /\ next' = [next EXCEPT ![d] = LeavesLoop(d)]
  /\ failed' = [failed EXCEPT !.ranks = @ \cup {d}]
  /\ UNCHANGED <<pc, version, given, trainer, loaded>>

-----------------------------------------------------------------------------
(* The GPUs.                                                               *)

Heads(does) == \A t \in Trainers : queue[t] # <<>> /\ Head(queue[t]).does = does

RunGather ==
  /\ Heads("gather")
  /\ queue' = [t \in Trainers |-> Tail(queue[t])]
  /\ UNCHANGED <<pc, version, given, at, engine, failed>>

RunBroadcast ==
  /\ queue[0] # <<>> /\ Head(queue[0]).does = "send"
  /\ \A d \in Devices : ops[d] # <<>>
  /\ queue' = [queue EXCEPT ![0] = Tail(@)]
  /\ ops' = [d \in Devices |-> Tail(ops[d])]
  /\ loaded' = [d \in Devices |->
       IF Head(ops[d]).load
       THEN [loaded[d] EXCEPT ![Head(ops[d]).param] = <<Head(queue[0]).param, version>>]
       ELSE loaded[d]]
  /\ UNCHANGED <<pc, version, given, at, next, failed>>

-----------------------------------------------------------------------------

Driver == \/ PrepareInfo \/ CallTrainers \/ CallEngine \/ WaitTrainers \/ WaitEngine
          \/ Generate \/ Train
Gpus == RunGather \/ RunBroadcast

Next ==
  \/ Driver \/ Gpus
  \/ \E t \in Trainers : TrainerIssues(t) \/ TrainerRaises(t)
  \/ \E d \in Devices : RankIssues(d) \/ RankRaises(d)

\* The driver's thread, the workers' processes and the GPUs run.
Spec ==
  /\ Init /\ [][Next]_vars
  /\ WF_vars(Driver) /\ WF_vars(RunGather) /\ WF_vars(RunBroadcast)
  /\ \A t \in Trainers : WF_vars(TrainerIssues(t))
  /\ \A d \in Devices : WF_vars(RankIssues(d))

-----------------------------------------------------------------------------
(* Properties.                                                             *)

\* No rank ever holds a weight under another's name, although methods return
\* before their broadcasts have run and one that raises leaves the others in
\* the middle of theirs; and a generation that ends has sampled from the
\* weights of the last training step, all of them, on every rank that did not
\* raise, every leader among them.
CurrentWeights ==
  /\ \A d \in Devices : \A p \in Params : loaded[d][p][1] = p
  /\ pc = "train" =>
       /\ \A r \in Replicas : <<r, 0>> \notin failed.ranks
       /\ \A d \in Devices \ failed.ranks : \A p \in Params : loaded[d][p][2] = version

\* Unless a method raises, training goes on to its end: no order in which
\* the methods run or are called leaves two members waiting for each other.
Served == <>(pc = "end" \/ failed.trainers # {} \/ failed.ranks # {})

-----------------------------------------------------------------------------
(* The inductive invariant behind CurrentWeights.                          *)

Operation == [does : {"gather", "send"}, param : Params]
Broadcast == [param : Params, load : BOOLEAN]

TypeOK ==
  /\ pc \in {"info", "call_trainers", "call_engine", "wait_trainers", "wait_engine",
             "generate", "train", "raised", "end"}
  /\ version \in Nat \ {0} /\ sharded \in SUBSET Params /\ depth \in Depths
  /\ at \in [Trainers -> 1..Done] /\ queue \in [Trainers -> Seq(Operation)]
  /\ next \in [Devices -> 1..Done] /\ ops \in [Devices -> Seq(Broadcast)]
  /\ failed \in [trainers : SUBSET Trainers, ranks : SUBSET Devices]
  /\ loaded \in [Devices -> [Params -> Params \X Nat]]

\* The sends on a queue are those of the parameters from s up to, not
\* including, n, in that order; gathers may stand between them.
Sends(q, s, n) ==
  /\ s \in 1..n
  /\ \A i \in 1..Len(q) : q[i].does = "send" => q[i].param \in s..(n - 1)
  /\ \A p \in s..(n - 1) : \E i \in 1..Len(q) : q[i] = Send(p)
  /\ \A i, j \in 1..Len(q) :
       i < j /\ q[i].does = "send" /\ q[j].does = "send" => q[i].param < q[j].param

\* A rank waits for the parameters from s on, in the same order; one that has
\* not raised for all it has passed, and it holds the ones before.
Receives(d, s) ==
  /\ \A i \in 1..Len(ops[d]) : ops[d][i].param = s + i - 1
  /\ d \notin failed.ranks =>
       /\ next[d] = s + Len(ops[d])
       /\ \A i \in 1..Len(ops[d]) : ops[d][i].load
       /\ \A p \in Params : p < s => loaded[d][p] = <<p, version>>
  /\ d \in failed.ranks => next[d] = Done

Idle(d) == next[d] = Done /\ ops[d] = <<>>

\* Between the rounds nothing is queued; the trainer may start a round before
\* the engine is called; then both are at the same parameter, s.
Aligned ==
  /\ pc \in {"info", "call_trainers"} =>
       /\ \A t \in Trainers : queue[t] = <<>>
       /\ \A d \in Devices : Idle(d)
  /\ pc = "call_engine" =>
       \E s \in 1..Done :
         Sends(queue[0], s, at[0]) /\ \A d \in Devices : s = 1 /\ Idle(d)
  /\ pc \in {"wait_trainers", "wait_engine", "generate", "train", "raised"} =>
       \E s \in 1..Done :
         Sends(queue[0], s, at[0]) /\ \A d \in Devices : Receives(d, s)

\* What the driver knows once it has waited.
Waited ==
  /\ pc \in {"info", "call_trainers", "wait_engine", "generate", "train", "end"} =>
       \A t \in Trainers : at[t] = Done
  /\ pc \in {"generate", "train", "end"} => \A d \in Devices : next[d] = Done
  /\ pc \in {"train", "end"} => \A d \in Devices : ops[d] = <<>>
  /\ pc \in {"generate", "train"} => Succeeded

OwnName == \A d \in Devices : \A p \in Params : loaded[d][p][1] = p

Inv == TypeOK /\ Aligned /\ Waited /\ OwnName
================================================================================
