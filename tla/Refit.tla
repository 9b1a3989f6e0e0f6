-------------------------------- MODULE Refit --------------------------------
(***************************************************************************)
(* The transfer of the policy's weights to a colocated engine, which       *)
(* GrpoTrain takes for one step: the middle of refit_policy_generation,    *)
(* the trainer's workers (prepare_weights_for_ipc, get_weights_ipc_handles)*)
(* and the engine's (update_weights down to the rank that loads).          *)
(*                                                                         *)
(* A device hosts one trainer worker and one engine rank.  The engine is   *)
(* made of replicas; rank 0 of a replica leads it, and is the only one the *)
(* driver talks to.  A group of parameters is gathered into full tensors   *)
(* on every device, their addresses are handed to the rank of the same     *)
(* device, and the tensors are dropped when the next group is asked for.   *)
(***************************************************************************)
EXTENDS EngineRanks

CONSTANTS
  ParamBytes,  \* sizes a parameter may have
  FreeBytes,   \* free memory a device may report
  MayFail      \* whether loading may raise in an engine rank

ASSUME RefitAssumption ==
  /\ ParamBytes \subseteq Nat
  /\ FreeBytes \subseteq Nat
  /\ MayFail \in BOOLEAN

VARIABLES
  driver,   \* where the driver is
  bytes,    \* sizes of the parameters
  free,     \* free memory each device reports
  todo,     \* groups not yet handed over
  worker,   \* per device, its trainer worker's part of the current call
  held,     \* per device, the full tensors its trainer worker keeps alive
  rank,     \* per device, its engine rank's part of the current call
  received, \* per device, the parameters whose new value the rank has
  reply     \* per replica, what its leader returned

sizes == <<bytes, free>>
loading == <<rank, received, reply>>
refitVars == <<driver, sizes, todo, worker, held, loading>>

Smallest(S) == CHOOSE x \in S : \A y \in S : x <= y

-----------------------------------------------------------------------------
(***************************************************************************)
(* The grouping: parameters in their order, a group closed when the next   *)
(* one does not fit.                                                       *)
(***************************************************************************)
Buffer == Smallest({free[d] : d \in Devices})

AddParam(g, p) ==
  LET full == bytes[p] > g.left
      open == IF full THEN {} ELSE g.keys
      left == IF full THEN Buffer ELSE g.left
  IN [done |-> IF full /\ g.keys # {} THEN Append(g.done, g.keys) ELSE g.done,
      keys |-> open \cup {p},
      left |-> left - bytes[p]]

\* What is grouped after the first p parameters.
grouping[p \in 0..NParams] ==
  IF p = 0 THEN [done |-> <<>>, keys |-> {}, left |-> Buffer]
           ELSE AddParam(grouping[p - 1], p)

GroupedWithoutLast == grouping[NParams].done              \* faulty: rest dropped
Grouped ==
  LET g == grouping[NParams]
  IN IF g.keys # {} THEN Append(g.done, g.keys) ELSE g.done

-----------------------------------------------------------------------------
RefitInit ==
  /\ driver = "prepare"
  /\ bytes \in [Params -> ParamBytes]
  /\ free \in [Devices -> FreeBytes]
  /\ todo = <<>>
  /\ worker = [d \in Devices |-> "idle"]
  /\ held = [d \in Devices |-> {}]
  /\ rank = [d \in Devices |-> "idle"]
  /\ received = [d \in Devices |-> {}]
  /\ reply = [r \in Replicas |-> "none"]

\* Every worker reports its sizes and its free memory; the driver groups.
PrepareWeights ==
  /\ driver = "prepare"
  /\ todo' = Grouped
  /\ driver' = "next"
  /\ UNCHANGED <<sizes, worker, held, loading>>

\* The loop over the groups: ask every worker for handles to the next one.
AskHandles ==
  /\ driver = "next"
  /\ todo # <<>>
  /\ worker' = [d \in Devices |-> "asked"]
  /\ driver' = "handles"
  /\ UNCHANGED <<sizes, todo, held, loading>>

\* A worker drops the previous group before it gathers this one.
AlsoKeep(d) == held[d] \cup Head(todo)                    \* faulty: nothing dropped
OnlyKeep(d) == Head(todo)

ServeHandles(d) ==
  /\ worker[d] = "asked"
  /\ worker' = [worker EXCEPT ![d] = "idle"]
  /\ held' = [held EXCEPT ![d] = OnlyKeep(d)]
  /\ UNCHANGED <<driver, sizes, todo, loading>>

\* With the handles of all devices, each leader gets those of its own.
Update ==
  /\ driver = "handles"
  /\ \A d \in Devices : worker[d] = "idle"
  /\ rank' = [d \in Devices |-> "called"]
  /\ reply' = [r \in Replicas |-> "none"]
  /\ driver' = "update"
  /\ UNCHANGED <<sizes, todo, worker, held, received>>

StartLoad(d) ==
  /\ rank[d] = "called"
  /\ rank' = [rank EXCEPT ![d] = "reading"]
  /\ UNCHANGED <<driver, sizes, todo, worker, held, received, reply>>

\* load_weights and synchronize; an exception becomes False.
Load(d) ==
  /\ rank[d] = "reading"
  /\ rank' = [rank EXCEPT ![d] = "true"]
  /\ received' = [received EXCEPT ![d] = @ \cup Head(todo)]
  /\ UNCHANGED <<driver, sizes, todo, worker, held, reply>>

\* It may be raised before any parameter of the group is loaded, or after some.
LoadRaises(d) ==
  /\ MayFail
  /\ rank[d] = "reading"
  /\ rank' = [rank EXCEPT ![d] = "false"]
  /\ \E some \in SUBSET Head(todo) :
       received' = [received EXCEPT ![d] = @ \cup some]
  /\ UNCHANGED <<driver, sizes, todo, worker, held, reply>>

\* collective_rpc waits for all ranks; the leader looks at the first result.
OwnAnswered(r) == rank[<<r, 0>>] \in {"true", "false"}    \* faulty: only its own
AllSucceeded(r) == \A t \in Ranks : rank[<<r, t>>] = "true"  \* faulty: failure lost
AllAnswered(r) == \A t \in Ranks : rank[<<r, t>>] \in {"true", "false"}

LeaderReturns(r) ==
  /\ driver = "update"
  /\ reply[r] = "none"
  /\ AllAnswered(r)
  /\ reply' = [reply EXCEPT ![r] = rank[<<r, 0>>]]
  /\ UNCHANGED <<driver, sizes, todo, worker, held, rank, received>>

LeadersSucceeded == \A r \in Replicas : reply[r] = "true"

\* The driver waits for every leader, and stops at the first failed group.
Collect ==
  /\ driver = "update"
  /\ \A r \in Replicas : reply[r] # "none"
  /\ IF LeadersSucceeded
     THEN /\ todo' = Tail(todo)
          /\ driver' = "next"
     ELSE /\ driver' = "raised"
          /\ UNCHANGED todo
  /\ UNCHANGED <<sizes, worker, held, loading>>

\* The last group is done; offload_after_refit drops what is still held.
Offload ==
  /\ driver = "next"
  /\ todo = <<>>
  /\ held' = [d \in Devices |-> {}]
  /\ driver' = "refitted"
  /\ UNCHANGED <<sizes, todo, worker, loading>>

RefitNext ==
  \/ PrepareWeights \/ AskHandles \/ Update \/ Collect \/ Offload
  \/ \E d \in Devices : ServeHandles(d) \/ StartLoad(d) \/ Load(d) \/ LoadRaises(d)
  \/ \E r \in Replicas : LeaderReturns(r)

\* The driver's thread and every worker process run what they were asked to.
RefitSpec ==
  /\ RefitInit /\ [][RefitNext]_refitVars
  /\ WF_refitVars(PrepareWeights \/ AskHandles \/ Update \/ Collect \/ Offload)
  /\ \A d \in Devices : WF_refitVars(ServeHandles(d)) /\ WF_refitVars(StartLoad(d))
                        /\ WF_refitVars(Load(d) \/ LoadRaises(d))
  /\ \A r \in Replicas : WF_refitVars(LeaderReturns(r))

-----------------------------------------------------------------------------
(***************************************************************************)
(* Properties                                                              *)
(***************************************************************************)

\* Every variable has its type: no leader answers before its ranks have.
RefitTypeOK ==
  /\ driver \in {"prepare", "next", "handles", "update", "raised", "refitted"}
  /\ bytes \in [Params -> ParamBytes] /\ free \in [Devices -> FreeBytes]
  /\ todo \in Seq(SUBSET Params)
  /\ worker \in [Devices -> {"idle", "asked"}]
  /\ held \in [Devices -> SUBSET Params]
  /\ rank \in [Devices -> {"idle", "called", "reading", "true", "false"}]
  /\ received \in [Devices -> SUBSET Params]
  /\ reply \in [Replicas -> {"none", "true", "false"}]

\* While a rank reads tensors through the handles, the trainer worker of its
\* device keeps exactly those alive: no slow rank reads freed memory.
HandlesAlive ==
  \A d \in Devices : rank[d] = "reading" => held[d] = Head(todo)

\* A refit that ends without an error has given every parameter to the ranks
\* whose result is looked at, whatever the others do.
LeadersUpdated == driver = "refitted" => \A r \in Replicas : received[<<r, 0>>] = Params

\* A refit ends, whether or not a rank fails.
Ends == <>(driver \in {"refitted", "raised"})

-----------------------------------------------------------------------------
(***************************************************************************)
(* The inductive invariant behind HandlesAlive.                            *)
(***************************************************************************)

\* Who is asked, who holds what and who has answered, in each phase.
Handover ==
  /\ worker \in [Devices -> {"idle", "asked"}]
  /\ rank \in [Devices -> {"idle", "called", "reading", "true", "false"}]
  /\ held = [d \in Devices |-> held[d]] /\ reply = [r \in Replicas |-> reply[r]]
  /\ driver # "handles" => \A d \in Devices : worker[d] = "idle"
  /\ driver = "handles" => \A d \in Devices : worker[d] = "idle" => held[d] = Head(todo)
  /\ driver = "update" => \A d \in Devices : held[d] = Head(todo)
  /\ driver # "update" => \A d \in Devices : rank[d] \in {"idle", "true", "false"}
  /\ driver = "update" =>
       \A r \in Replicas : reply[r] # "none" =>
         \A t \in Ranks : rank[<<r, t>>] \in {"true", "false"}

-----------------------------------------------------------------------------
(***************************************************************************)
(* The inductive invariant behind LeadersUpdated: what a leader lacks is   *)
(* still to be handed over.                                                *)
(***************************************************************************)

\* The parameters of a sequence of groups.
Keys(groups) == UNION {groups[k] : k \in 1..Len(groups)}

\* Nothing is lost: a leader that answered True has the group in transfer.
Delivery ==
  /\ todo \in Seq(SUBSET Params)
  /\ received \in [Devices -> SUBSET Params]
  /\ driver # "prepare" => \A r \in Replicas : received[<<r, 0>>] \cup Keys(todo) = Params
  /\ driver \in {"handles", "update"} => todo # <<>>
  /\ driver = "refitted" => todo = <<>>
  /\ driver = "update" => \A r \in Replicas :
       /\ rank[<<r, 0>>] = "true" => Head(todo) \subseteq received[<<r, 0>>]
       /\ reply[r] = "true" => rank[<<r, 0>>] = "true"

=============================================================================
