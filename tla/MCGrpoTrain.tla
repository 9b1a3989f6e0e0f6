----------------------------- MODULE MCGrpoTrain -----------------------------
(***************************************************************************)
(* The GRPO driver for TLC: the configurations a run may be started with.  *)
(***************************************************************************)
EXTENDS GrpoTrain

Vllm(colocated, worker, mayRefuse) ==
  [backend |-> "vllm", colocated |-> colocated, worker |-> worker,
   mayRefuse |-> mayRefuse]

\* Every worker class shares its GPUs with an engine; one of them is
\* disaggregated, with an engine that may refuse to reset its cache.
CheckedConfigs ==
  {Vllm(TRUE, w, FALSE) : w \in {"dtensor", "fsdp1", "megatron"}}
    \cup {Vllm(FALSE, "dtensor", TRUE), Vllm(TRUE, "dtensor", TRUE),
          [backend |-> "hf", colocated |-> TRUE, worker |-> "fsdp1", mayRefuse |-> FALSE]}
=============================================================================
