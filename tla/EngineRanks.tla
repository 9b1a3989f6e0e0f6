----------------------------- MODULE EngineRanks -----------------------------
(***************************************************************************)
(* What both transfers of weights to the engine speak of: replicas of some *)
(* ranks each, rank 0 leading, one device per rank, and the parameters of  *)
(* the policy's state dict in their order.                                 *)
(***************************************************************************)
EXTENDS Integers, Sequences

CONSTANTS
  Replicas,  \* data parallel replicas of the engine
  NRanks,    \* tensor and pipeline ranks of a replica
  NParams    \* length of the state dict

ASSUME EngineAssumption == NRanks \in Nat \ {0} /\ NParams \in Nat \ {0}

Params  == 1..NParams
Ranks   == 0..NRanks - 1
Devices == Replicas \X Ranks

==============================================================================
