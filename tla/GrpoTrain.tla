------------------------------ MODULE GrpoTrain ------------------------------
(***************************************************************************)
(* The GRPO driver: setup, grpo_train and refit_policy_generation of       *)
(* algorithms/grpo.py, with the parts of the policy worker and of the      *)
(* generation engine whose state the driver moves (which weights each      *)
(* holds, what sits on the GPU, what the prefix cache was computed with)   *)
(* and the set of finished checkpoints a restarted driver resumes from.    *)
(*                                                                         *)
(* A weight version is the number of optimizer steps that produced it: the *)
(* base model is version 0 and policy.train moves the policy from v to     *)
(* v + 1.  The driver is one thread that waits for every remote call, so   *)
(* pc is where that thread is.  Losing the process is an action of its own *)
(* that may happen anywhere.                                               *)
(***************************************************************************)
EXTENDS Integers, FiniteSets

CONSTANTS
  MaxSteps,        \* grpo.max_num_steps
  LoaderLen,       \* len(dataloader): batches in the single epoch
  ValPeriod,       \* grpo.val_period
  SavePeriod,      \* checkpointing.save_period
  ValAtStart,      \* grpo.val_at_start
  Configs,         \* the configurations a run may be started with
  MaxCrashes       \* bound: how often the process is lost and relaunched

(***************************************************************************)
(* A configuration names the generation backend ("hf": the policy          *)
(* generates for itself), whether generation shares the policy's GPUs      *)
(* (generation.colocated.enabled), the policy's worker class, and whether  *)
(* a sleep or reset call of the engine may raise, which finish_generation  *)
(* swallows.  setup refuses a disaggregated hf backend, and only the       *)
(* DTensor worker has the calls of the collective transfer.                *)
(***************************************************************************)
Configurations ==
  {c \in [backend : {"vllm", "hf"}, colocated : BOOLEAN,
          worker : {"dtensor", "fsdp1", "megatron"}, mayRefuse : BOOLEAN] :
     ~c.colocated => c.backend = "vllm" /\ c.worker = "dtensor"}

ASSUME GrpoAssumption ==
  /\ MaxSteps \in Nat \ {0}
  /\ LoaderLen \in Nat \ {0}
  /\ ValPeriod \in Nat \ {0}
  /\ SavePeriod \in Nat \ {0}
  /\ SavePeriod % ValPeriod = 0          \* asserted by setup
  /\ ValAtStart \in BOOLEAN
  /\ Configs \subseteq Configurations
  /\ MaxCrashes \in Nat

VARIABLES
  config,     \* the configuration of this run
  pc,         \* where the driver thread is
  ret,        \* what the generation now being prepared is for
  step,       \* grpo_train's step
  consumed,   \* consumed_samples, in batches
  loader,     \* batches the StatefulDataLoader has handed out
  stale,      \* POLICY_GENERATION_STALE
  polVer,     \* version of the policy's weights
  polModel,   \* device of the policy's parameters
  polGrads,   \* device of the gradients, "none" before there are any
  polOptim,   \* device of the optimizer state
  refVer,     \* version of the reference policy's weights
  held,       \* the policy holds tensors behind exported IPC handles
  genWeights, \* is the engine's weight memory mapped
  genKV,      \* is the engine's KV cache mapped
  genVer,     \* version of the engine's weights
  genCache,   \* versions that computed the blocks of the prefix cache
  batchVer,   \* version that generated the current batch
  lpVer,      \* version that computed prev_logprobs of the current batch
  refLpVer,   \* version that computed its reference logprobs
  valVer,     \* version val_metrics was measured on
  ckpts,      \* finished checkpoints, the contents of each step_N directory
  crashes

driver == <<step, consumed, loader, stale>>
placed == <<polModel, polGrads, polOptim>>
policy == <<polVer, refVer, placed, held>>
engine == <<genWeights, genKV, genVer, genCache>>
data   == <<batchVer, lpVer, refLpVer, valVer>>
vars   == <<config, pc, ret, driver, policy, engine, data, ckpts, crashes>>

NoVersion == -1

RefitPcs == {"refit", "wakeWeights", "transfer", "offloadAfter", "wakeKV", "broadcast"}
GenPcs   == {"valStart", "rollout", "validate"}
Building == {"build", "reference", "restore"}
Pcs == {"down", "start", "batch", "logprobs", "trainPrep", "train", "trained",
        "checkpoint", "save", "endStep", "finish", "done"}
       \cup Building \cup RefitPcs \cup GenPcs

Version    == Nat \cup {NoVersion}
Count      == 0..LoaderLen
Checkpoint ==
  [step : Count, ver : Count, loader : Count, consumed : Count, valVer : Version]

Lesser(a, b) == IF a < b THEN a ELSE b

Backend         == config.backend
Colocated       == config.colocated
EngineMayRefuse == config.mayRefuse

NeedRefit == Backend = "vllm"

\* The version the next token is sampled from.
GenVersion == IF NeedRefit THEN genVer ELSE polVer

IsLastStep == step + 1 = Lesser(MaxSteps, LoaderLen)

ValDuePeriodOnly == (step + 1) % ValPeriod = 0           \* faulty: no last step
ValDue == IsLastStep \/ (step + 1) % ValPeriod = 0

SaveDue == IsLastStep \/ (step + 1) % SavePeriod = 0

BatchLeftOffByOne == loader <= LoaderLen                 \* faulty: one too many
BatchLeft == loader < LoaderLen

FinishedOffByOne == step + 1 > MaxSteps                  \* faulty: one too many
Finished == step + 1 >= MaxSteps

\* get_latest_checkpoint_path: the directory with the highest step.
IsOldest(c) == \A d \in ckpts : c.step <= d.step         \* faulty: wrong end
IsLatest(c) == \A d \in ckpts : d.step <= c.step

\* _default_grpo_save_state, with an untouched loader and the base weights.
DefaultSaveState ==
  [step |-> 0, ver |-> 0, loader |-> 0, consumed |-> 0, valVer |-> NoVersion]

ResumePoints == IF ckpts = {} THEN {DefaultSaveState} ELSE {c \in ckpts : IsLatest(c)}

-----------------------------------------------------------------------------
Init ==
  /\ config \in Configs
  /\ pc = "down" /\ ret = "rollout"
  /\ step = 0 /\ consumed = 0 /\ loader = 0 /\ stale = TRUE
  /\ polVer = 0 /\ refVer = NoVersion /\ held = FALSE
  /\ polModel = "cpu" /\ polGrads = "none" /\ polOptim = "cpu"
  /\ genWeights = "asleep" /\ genKV = "asleep" /\ genVer = NoVersion /\ genCache = {}
  /\ batchVer = NoVersion /\ lpVer = NoVersion /\ refLpVer = NoVersion
  /\ valVer = NoVersion
  /\ ckpts = {}
  /\ crashes = 0

(***************************************************************************)
(* setup: read the newest checkpoint, build the engine and put it to sleep *)
(* (a non-colocated engine only resets its prefix cache and stays awake),  *)
(* then build the policy, from that checkpoint if there is one.            *)
(***************************************************************************)
EngineAsleep == IF Colocated THEN "asleep" ELSE "awake"

Setup ==
  /\ pc = "down"
  /\ pc' = "build"
  /\ \E c \in ResumePoints :
       step' = c.step /\ consumed' = c.consumed /\ loader' = c.loader
  /\ stale' = TRUE
  /\ held' = FALSE
  /\ genWeights' = EngineAsleep /\ genKV' = EngineAsleep
  /\ genVer' = NoVersion /\ genCache' = {}
  /\ batchVer' = NoVersion /\ lpVer' = NoVersion /\ refLpVer' = NoVersion
  /\ valVer' = NoVersion
  /\ UNCHANGED <<ret, polVer, refVer, placed, ckpts, crashes>>

-----------------------------------------------------------------------------
(***************************************************************************)
(* What the worker classes move.  A module's gradients go wherever its     *)
(* parameters go (move_to_device of the DTensor worker, the manual moves   *)
(* of the FSDP1 worker); the buffers of the Megatron worker move by kind.  *)
(***************************************************************************)
Along(d) == IF polGrads = "none" THEN "none" ELSE d

MoveToDevice(d) == polModel' = d /\ polGrads' = Along(d)
ManualMove(d)   == polModel' = d /\ polGrads' = Along(d)
MoveBuffers(params, grads) == polModel' = params /\ polGrads' = grads

\* prepare_for_lp_inference: parameters to the GPU, optimizer to the CPU.
\* The Megatron worker's offload also takes the gradients away.
LpDTensor  == config.worker = "dtensor" /\ MoveToDevice("gpu") /\ polOptim' = "cpu"
LpFsdp1    == config.worker = "fsdp1" /\ ManualMove("gpu") /\ polOptim' = "cpu"
LpMegatron == config.worker = "megatron" /\ MoveBuffers("gpu", "cpu") /\ polOptim' = "cpu"

PrepareForLpInference == LpDTensor \/ LpFsdp1 \/ LpMegatron

\* prepare_for_training: everything to the GPU.
LoadDTensor  == config.worker = "dtensor" /\ MoveToDevice("gpu") /\ polOptim' = "gpu"
LoadFsdp1    == config.worker = "fsdp1" /\ ManualMove("gpu") /\ polOptim' = "gpu"
LoadMegatron == config.worker = "megatron" /\ MoveBuffers("gpu", "gpu") /\ polOptim' = "gpu"

LoadForTraining == LoadDTensor \/ LoadFsdp1 \/ LoadMegatron

\* offload_before_refit.  The DTensor and FSDP1 workers leave gradients to
\* the parameters.
OffloadDTensor ==
  config.worker = "dtensor" /\ polOptim' = "cpu" /\ UNCHANGED <<polModel, polGrads>>
OffloadFsdp1 ==
  config.worker = "fsdp1" /\ polOptim' = "cpu" /\ UNCHANGED <<polModel, polGrads>>
OffloadMegatron ==
  config.worker = "megatron" /\ polOptim' = "cpu" /\ MoveBuffers(polModel, "cpu")

OffloadOptimizer == OffloadDTensor \/ OffloadFsdp1 \/ OffloadMegatron

\* offload_after_refit: everything to the CPU, and the tensors kept alive for
\* the exported handles are released.
ParkDTensor  == config.worker = "dtensor" /\ MoveToDevice("cpu") /\ polOptim' = "cpu"
ParkFsdp1    == config.worker = "fsdp1" /\ ManualMove("cpu") /\ polOptim' = "cpu"
ParkMegatron == config.worker = "megatron" /\ MoveBuffers("cpu", "cpu") /\ polOptim' = "cpu"

ParkOptimizerOnly == OffloadOptimizer /\ held' = FALSE       \* faulty: weights stay
Park == (ParkDTensor \/ ParkFsdp1 \/ ParkMegatron) /\ held' = FALSE

\* prepare_weights_for_ipc loads the parameters first, except that of the
\* Megatron worker and of an FSDP-wrapped model, which export them where they
\* are.
ExportDTensor  == config.worker = "dtensor" /\ MoveToDevice("gpu")
ExportFsdp1 ==
  /\ config.worker = "fsdp1"
  /\ ManualMove("gpu") \/ UNCHANGED <<polModel, polGrads>>
ExportMegatron == config.worker = "megatron" /\ UNCHANGED <<polModel, polGrads>>

LoadForExport == ExportDTensor \/ ExportFsdp1 \/ ExportMegatron

-----------------------------------------------------------------------------
(***************************************************************************)
(* The workers' constructors.  The DTensor worker loads the base model,    *)
(* copies it as the reference and restores the checkpoint last.  The FSDP1 *)
(* worker loads the base model twice, and brings the policy to the GPU     *)
(* once the reference is off it.  The Megatron worker loads the checkpoint *)
(* where it builds the model, and the reference from the imported base     *)
(* model, with the policy off the GPU meanwhile.  The optimizer state of a *)
(* fresh policy is empty, that of a restored one is on the GPU; only the   *)
(* Megatron worker has gradient buffers before the first update.           *)
(***************************************************************************)
BaseVersion == 0

RestoredOptimizer == polOptim' = IF ckpts = {} THEN "cpu" ELSE "gpu"
LoadCheckpoint ==
  /\ \E c \in ResumePoints : polVer' = c.ver
  /\ RestoredOptimizer

BuildDTensor ==
  /\ config.worker = "dtensor"
  /\ polVer' = BaseVersion
  /\ polModel' = "gpu" /\ polGrads' = "none" /\ polOptim' = "cpu"

BuildFsdp1 ==
  /\ config.worker = "fsdp1"
  /\ polVer' = BaseVersion
  /\ polModel' = "cpu" /\ polGrads' = "none" /\ polOptim' = "cpu"

SetupMegatronModel == LoadCheckpoint /\ polModel' = "gpu" /\ polGrads' = "gpu"

BuildMegatron == config.worker = "megatron" /\ SetupMegatronModel

BuildPolicy ==
  /\ pc = "build"
  /\ BuildDTensor \/ BuildFsdp1 \/ BuildMegatron
  /\ pc' = "reference"
  /\ UNCHANGED <<ret, driver, refVer, held, engine, data, ckpts, crashes>>

ReferenceDTensor ==
  config.worker = "dtensor" /\ refVer' = polVer /\ UNCHANGED placed

ReferenceFsdp1 ==
  /\ config.worker = "fsdp1"
  /\ refVer' = BaseVersion
  /\ ManualMove("gpu") /\ UNCHANGED polOptim

\* Copying the model it built, as the DTensor worker may.
ReferenceOfRestored ==                                   \* faulty
  config.worker = "megatron" /\ refVer' = polVer /\ UNCHANGED placed

ReferenceMegatron ==
  /\ config.worker = "megatron"
  /\ refVer' = BaseVersion
  /\ MoveBuffers("gpu", "gpu") /\ UNCHANGED polOptim

BuildReference ==
  /\ pc = "reference"
  /\ ReferenceDTensor \/ ReferenceFsdp1 \/ ReferenceMegatron
  /\ pc' = "restore"
  /\ UNCHANGED <<ret, driver, polVer, held, engine, data, ckpts, crashes>>

RestorePolicy ==
  /\ pc = "restore"
  /\ IF config.worker = "megatron" THEN UNCHANGED <<polVer, polOptim>> ELSE LoadCheckpoint
  /\ pc' = "start"
  /\ UNCHANGED <<ret, driver, refVer, polModel, polGrads, held, engine, data, ckpts,
                 crashes>>

-----------------------------------------------------------------------------
(***************************************************************************)
(* What the engine does: wake_up maps the memory of the given tags, sleep  *)
(* empties the prefix cache and unmaps everything, reset_prefix_cache only *)
(* empties the cache.                                                      *)
(***************************************************************************)
EngineWake(tags) ==
  /\ genWeights' = IF "weights" \in tags THEN "awake" ELSE genWeights
  /\ genKV' = IF "kv_cache" \in tags THEN "awake" ELSE genKV

KeepCache == UNCHANGED genCache                          \* faulty: no reset
ResetCache == genCache' = {}

EngineSleep == ResetCache /\ genWeights' = "asleep" /\ genKV' = "asleep"
EngineReset == ResetCache /\ UNCHANGED <<genWeights, genKV>>

-----------------------------------------------------------------------------
\* Before every generation: refit a stale engine, otherwise just wake it.
\* Waking is a no-op without colocation and for the hf backend.
EnterGeneration(r) ==
  /\ ret' = r
  /\ IF NeedRefit /\ stale
     THEN /\ pc' = IF Colocated THEN "refit" ELSE "broadcast"
          /\ UNCHANGED <<genWeights, genKV>>
     ELSE /\ pc' = r
          /\ IF NeedRefit /\ Colocated
             THEN EngineWake({"weights", "kv_cache"})
             ELSE UNCHANGED <<genWeights, genKV>>

\* grpo_train before its loop: validate an untrained policy when asked to.
Begin ==
  /\ pc = "start"
  /\ IF ValAtStart /\ step = 0
     THEN EnterGeneration("valStart")
     ELSE pc' = "batch" /\ UNCHANGED <<ret, genWeights, genKV>>
  /\ UNCHANGED <<driver, policy, genVer, genCache, data, ckpts, crashes>>

\* The head of the loop: take a batch, forget the last validation, prepare
\* to generate.  An exhausted loader ends the run.
FetchBatch ==
  /\ pc = "batch"
  /\ BatchLeft
  /\ loader' = loader + 1
  /\ valVer' = NoVersion
  /\ EnterGeneration("rollout")
  /\ UNCHANGED <<step, consumed, stale, policy, genVer, genCache, batchVer, lpVer,
                 refLpVer, ckpts, crashes>>

LoaderExhausted ==
  /\ pc = "batch"
  /\ ~BatchLeft
  /\ pc' = "done"
  /\ UNCHANGED <<ret, driver, policy, engine, data, ckpts, crashes>>

-----------------------------------------------------------------------------
(***************************************************************************)
(* refit_policy_generation, colocated: free the optimizer's GPU memory,    *)
(* map the engine's weights, hand them over through IPC handles, offload   *)
(* the policy, and only then map the KV cache.                             *)
(***************************************************************************)
OffloadBeforeRefit ==
  /\ pc = "refit"
  /\ OffloadOptimizer
  /\ pc' = "wakeWeights"
  /\ UNCHANGED <<ret, driver, polVer, refVer, held, engine, data, ckpts, crashes>>

WakeWeights ==
  /\ pc = "wakeWeights"
  /\ EngineWake({"weights"})
  /\ pc' = "transfer"
  /\ UNCHANGED <<ret, driver, policy, genVer, genCache, data, ckpts, crashes>>

\* prepare_weights_for_ipc and the loop over the parameter groups.  A failed
\* update raises, which the driver does not survive: see Crash.
TransferWeights ==
  /\ pc = "transfer"
  /\ LoadForExport /\ held' = TRUE
  /\ genVer' = polVer
  /\ pc' = "offloadAfter"
  /\ UNCHANGED <<ret, driver, polVer, refVer, polOptim, genWeights, genKV, genCache,
                 data, ckpts, crashes>>

OffloadAfterRefit ==
  /\ pc = "offloadAfter"
  /\ Park
  /\ pc' = "wakeKV"
  /\ UNCHANGED <<ret, driver, polVer, refVer, engine, data, ckpts, crashes>>

Refitted == stale' = FALSE

WakeKV ==
  /\ pc = "wakeKV"
  /\ EngineWake({"kv_cache"})
  /\ Refitted
  /\ pc' = ret
  /\ UNCHANGED <<ret, step, consumed, loader, policy, genVer, genCache, data, ckpts,
                 crashes>>

\* refit_policy_generation, not colocated: NCCL broadcast from policy rank 0.
BroadcastWeights ==
  /\ pc = "broadcast"
  /\ MoveToDevice("gpu")
  /\ genVer' = polVer
  /\ Refitted
  /\ pc' = ret
  /\ UNCHANGED <<ret, step, consumed, loader, polVer, refVer, polOptim, held, genWeights,
                 genKV, genCache, data, ckpts, crashes>>

-----------------------------------------------------------------------------
\* The engine generates; every version it generates with leaves its blocks
\* in the prefix cache.
FillCache == genCache' = IF NeedRefit THEN genCache \cup {genVer} ELSE genCache

Rollout ==
  /\ pc = "rollout"
  /\ batchVer' = GenVersion
  /\ FillCache
  /\ pc' = "finish"
  /\ UNCHANGED <<ret, driver, policy, genWeights, genKV, genVer, lpVer, refLpVer,
                 valVer, ckpts, crashes>>

\* validate: measure the metrics on what the engine generates.
Validate ==
  /\ pc \in {"valStart", "validate"}
  /\ valVer' = GenVersion
  /\ FillCache
  /\ pc' = "finish"
  /\ UNCHANGED <<ret, driver, policy, genWeights, genKV, genVer, batchVer, lpVer,
                 refLpVer, ckpts, crashes>>

AfterGeneration ==
  IF ret = "valStart" THEN "batch"
  ELSE IF ret = "rollout" THEN "logprobs" ELSE "checkpoint"

\* finish_generation: reset the prefix cache and, colocated, sleep.
FinishGeneration ==
  /\ pc = "finish"
  /\ IF NeedRefit
     THEN IF Colocated THEN EngineSleep ELSE EngineReset
     ELSE UNCHANGED <<genCache, genWeights, genKV>>
  /\ pc' = AfterGeneration
  /\ UNCHANGED <<ret, driver, policy, genVer, data, ckpts, crashes>>

\* The call raised, before or after it emptied the cache: finish_generation
\* catches it, returns False, and no caller looks at the result.
FinishRefused ==
  /\ EngineMayRefuse /\ NeedRefit
  /\ pc = "finish"
  /\ genCache' \in {genCache, {}}
  /\ pc' = AfterGeneration
  /\ UNCHANGED <<ret, driver, policy, genWeights, genKV, genVer, data, ckpts, crashes>>

-----------------------------------------------------------------------------
\* prepare_for_lp_inference, get_logprobs, get_reference_policy_logprobs.
Logprobs ==
  /\ pc = "logprobs"
  /\ PrepareForLpInference
  /\ lpVer' = polVer /\ refLpVer' = refVer
  /\ pc' = "trainPrep"
  /\ UNCHANGED <<ret, driver, polVer, refVer, held, engine, batchVer, valVer, ckpts, crashes>>

LeaveFresh == UNCHANGED stale                            \* faulty: flag not set
MarkStale == stale' = TRUE

PrepareForTraining ==
  /\ pc = "trainPrep"
  /\ LoadForTraining
  /\ MarkStale
  /\ pc' = "train"
  /\ UNCHANGED <<ret, step, consumed, loader, polVer, refVer, held, engine, data, ckpts,
                 crashes>>

\* policy.train: backward leaves gradients next to the parameters.
Train ==
  /\ pc = "train"
  /\ polVer' = polVer + 1
  /\ polGrads' = polModel
  /\ pc' = "trained"
  /\ UNCHANGED <<ret, driver, refVer, polModel, polOptim, held, engine, data, ckpts,
                 crashes>>

\* Validate on the last step and every ValPeriod steps.
DecideValidation ==
  /\ pc = "trained"
  /\ IF ValDue
     THEN EnterGeneration("validate")
     ELSE pc' = "checkpoint" /\ UNCHANGED <<ret, genWeights, genKV>>
  /\ UNCHANGED <<driver, policy, genVer, genCache, data, ckpts, crashes>>

\* Count the batch, and if a checkpoint is due bring the policy and its
\* optimizer back to the GPU for it.
DecideCheckpoint ==
  /\ pc = "checkpoint"
  /\ consumed' = consumed + 1
  /\ IF SaveDue
     THEN pc' = "save" /\ LoadForTraining
     ELSE pc' = "endStep" /\ UNCHANGED placed
  /\ UNCHANGED <<ret, step, loader, stale, polVer, refVer, held, engine, data, ckpts,
                 crashes>>

CheckpointOfFinishedStep ==                              \* faulty: stale step
  [step |-> step, ver |-> polVer, loader |-> loader, consumed |-> consumed,
   valVer |-> valVer]
CheckpointNow ==
  [step |-> step + 1, ver |-> polVer, loader |-> loader, consumed |-> consumed,
   valVer |-> valVer]

(***************************************************************************)
(* The checkpoint, seen from its finalize_checkpoint: it replaces one of   *)
(* the same step and lets the manager drop older ones, never the newest.   *)
(* Iterating val_metrics when it is None raises, so a save needs metrics.  *)
(***************************************************************************)
SaveCheckpoint ==
  /\ pc = "save"
  /\ valVer # NoVersion
  /\ \E kept \in SUBSET {c \in ckpts : c.step # step + 1} :
       ckpts' = kept \cup {CheckpointNow}
  /\ Park
  /\ pc' = "endStep"
  /\ UNCHANGED <<ret, driver, polVer, refVer, engine, data, crashes>>

EndStep ==
  /\ pc = "endStep"
  /\ step' = step + 1
  /\ pc' = IF Finished THEN "done" ELSE "batch"
  /\ UNCHANGED <<ret, consumed, loader, stale, policy, engine, data, ckpts, crashes>>

\* The process is lost (or raises) anywhere, a finished run is relaunched:
\* everything but the checkpoints is gone.
Crash ==
  /\ pc # "down"
  /\ crashes < MaxCrashes
  /\ crashes' = crashes + 1
  /\ pc' = "down"
  /\ UNCHANGED <<config, ret, driver, policy, engine, data, ckpts>>

Work ==
  /\ UNCHANGED config
  /\ \/ Setup \/ BuildPolicy \/ BuildReference \/ RestorePolicy
     \/ Begin \/ FetchBatch \/ LoaderExhausted
     \/ OffloadBeforeRefit \/ WakeWeights \/ TransferWeights \/ OffloadAfterRefit
     \/ WakeKV \/ BroadcastWeights
     \/ Rollout \/ Validate \/ FinishGeneration \/ FinishRefused
     \/ Logprobs \/ PrepareForTraining \/ Train
     \/ DecideValidation \/ DecideCheckpoint \/ SaveCheckpoint \/ EndStep

Next == Work \/ Crash

\* Every remote call the driver waits for returns or raises, so the driver
\* thread is never stuck while it has a step to take.
Spec == Init /\ [][Next]_vars /\ WF_vars(Work)

-----------------------------------------------------------------------------
(***************************************************************************)
(* Properties                                                              *)
(***************************************************************************)

\* Every variable has its type; no more batches are taken than the epoch has.
TypeOK ==
  /\ config \in Configs
  /\ pc \in Pcs /\ ret \in GenPcs
  /\ step \in Count /\ consumed \in Count /\ loader \in Count /\ stale \in BOOLEAN
  /\ polVer \in Count /\ refVer \in Version
  /\ polModel \in {"cpu", "gpu"} /\ polGrads \in {"none", "cpu", "gpu"}
  /\ polOptim \in {"cpu", "gpu"} /\ held \in BOOLEAN
  /\ genWeights \in {"asleep", "awake"} /\ genKV \in {"asleep", "awake"}
  /\ genVer \in Version /\ genCache \subseteq Version
  /\ batchVer \in Version /\ lpVer \in Version /\ refLpVer \in Version /\ valVer \in Version
  /\ ckpts \subseteq Checkpoint
  /\ crashes \in 0..MaxCrashes

\* A batch is trained on by the very weights that generated it and that
\* computed its prev_logprobs, and its reference logprobs are those of the
\* base model, whichever refit, validation, checkpoint or restart came in
\* between.
OnPolicyTraining ==
  pc = "train" => batchVer = polVer /\ lpVer = polVer /\ refLpVer = BaseVersion

\* Colocated, the engine's KV cache never shares the GPU with the policy's
\* parameters or gradients, nor its weights with the optimizer state or, for
\* the Megatron worker, the gradients, unless a call that puts the engine to
\* sleep raised.
ExclusiveMemory ==
  Backend = "vllm" /\ Colocated /\ ~EngineMayRefuse /\ pc # "down" =>
    /\ genKV = "awake" => polModel = "cpu" /\ polGrads # "gpu" /\ ~held
    /\ genWeights = "awake" => polOptim = "cpu"
    /\ genWeights = "awake" /\ config.worker = "megatron" => polGrads = "cpu"

\* No token is sampled against a prefix cache block that other weights
\* computed: sleeping or resetting empties the cache before the weights move
\* ("Reset the prefix cache to ensure that prefix cache is not reused after
\* weights are updated").
PrefixCacheFresh ==
  pc \in GenPcs => genCache \subseteq {genVer}

\* The same, as long as no call that resets the cache raises.
FreshUnlessRefused == ~EngineMayRefuse => PrefixCacheFresh

\* The Megatron worker only ever exports parameters that are on the GPU:
\* nothing brings them back after a checkpoint has parked them, so that the
\* engine must have been refitted by the validation before the checkpoint.
ExportsResident ==
  pc = "transfer" /\ config.worker = "megatron" => polModel = "gpu"

\* What a checkpoint holds belongs together: N optimizer steps, N batches
\* consumed, the loader at N, and a validation metric measured on exactly
\* these weights, however many restarts the run had.
CheckpointConsistent ==
  \A c \in ckpts :
    c.ver = c.step /\ c.loader = c.step /\ c.consumed = c.step /\ c.valVer = c.ver

\* Losing the process loses at most SavePeriod optimizer steps.
LostWorkBounded ==
  pc \notin Building \cup {"down"} =>
    \A c \in ResumePoints : polVer - c.ver <= SavePeriod

\* The step limit is only tested after a step, so a relaunch of a run that
\* had reached it trains once more: at most one extra step per relaunch.
ExtraStepsBounded ==
  polVer <= MaxSteps + crashes

\* What a relaunch may cost: work done again, and work beyond the limit.
RelaunchCostBounded == LostWorkBounded /\ ExtraStepsBounded

\* The driver implements the OnPolicy contract: data in hand is the rollout
\* batch from its generation to the update that consumes it, and the weights
\* of a driver that is down or building its policy are those on disk.
WeightsOnDisk == (CHOOSE c \in ResumePoints : TRUE).ver
WeightsNow    == IF pc \in Building \cup {"down"} THEN WeightsOnDisk ELSE polVer
DataInHand    == IF pc \in {"finish", "logprobs", "trainPrep", "train"} /\ ret = "rollout"
                 THEN batchVer ELSE NoVersion
Stored        == {[version |-> c.ver, measured |-> c.valVer] : c \in ckpts}

Contract == INSTANCE OnPolicy WITH
  version <- WeightsNow, data <- DataInHand, saved <- Stored

ImplementsOnPolicy == Contract!Spec

\* With finitely many crashes the run ends and stays ended.
Terminates == <>[](pc = "done")

-----------------------------------------------------------------------------
(***************************************************************************)
(* The inductive invariant behind the safety properties                    *)
(***************************************************************************)
Generating(r) == ret = r /\ pc \in RefitPcs \cup {r, "finish"}

BeforeBatch == pc \in {"start", "batch", "done"} \/ Generating("valStart")
InBatch     == pc \in {"logprobs", "trainPrep", "train"} \/ Generating("rollout")
AfterUpdate == pc \in {"trained", "checkpoint"} \/ Generating("validate")
Counted     == pc \in {"save", "endStep"}

\* Every counter the driver keeps is a function of the batches it has taken.
Lockstep ==
  /\ pc \in GenPcs => pc = ret
  /\ pc \in Building \cup {"down"} \/ BeforeBatch \/ InBatch \/ AfterUpdate \/ Counted
  /\ pc \in Building =>
       /\ loader = step /\ consumed = step
       /\ \A c \in ResumePoints : c.step = step
  /\ BeforeBatch => loader = step /\ polVer = step /\ consumed = step
  /\ InBatch => loader = step + 1 /\ polVer = step /\ consumed = step
  /\ AfterUpdate => loader = step + 1 /\ polVer = step + 1 /\ consumed = step
  /\ Counted => loader = step + 1 /\ polVer = step + 1 /\ consumed = step + 1

\* A fresh engine holds the policy's weights, and what was generated or
\* measured since the last update was generated by them.
Versions ==
  /\ pc \in RefitPcs => NeedRefit /\ (pc = "broadcast" <=> ~Colocated)
  /\ NeedRefit /\ pc # "down" /\ (~stale \/ pc \in {"offloadAfter", "wakeKV"})
       => genVer = polVer
  /\ NeedRefit /\ pc \in GenPcs \cup {"finish", "logprobs"} => ~stale
  /\ pc \in {"train", "trained"} => stale
  /\ InBatch /\ pc \in {"finish", "logprobs", "trainPrep", "train"} => batchVer = polVer
  /\ pc \in {"trainPrep", "train"} => lpVer = polVer
  /\ InBatch => valVer = NoVersion
  /\ AfterUpdate \/ Counted => valVer \in {NoVersion, polVer}

\* The reference is always the base model, although the DTensor worker copies
\* it from the policy and the Megatron worker loads the policy before it.
References ==
  /\ pc = "reference" /\ config.worker = "dtensor" => polVer = BaseVersion
  /\ pc \in {"reference", "restore"} /\ config.worker = "megatron" => polVer = step
  /\ pc \notin {"down", "build", "reference"} => refVer = BaseVersion
  /\ pc \in {"trainPrep", "train"} => refLpVer = BaseVersion

Parked == polModel = "cpu" /\ polGrads # "gpu" /\ polOptim = "cpu" /\ ~held


\* Where the colocated engine may have its memory mapped, and where the
\* policy is off the GPU; what a refused sleep breaks.
Residency ==
  NeedRefit /\ Colocated /\ ~EngineMayRefuse /\ pc # "down" =>
    /\ genKV = "awake" => pc \in GenPcs \cup {"finish"}
    /\ genWeights = "awake" =>
         pc \in GenPcs \cup {"finish", "transfer", "offloadAfter", "wakeKV"}
    /\ pc \in {"wakeWeights", "transfer", "offloadAfter"} =>
         polOptim = "cpu" /\ (config.worker = "megatron" => polGrads = "cpu")
    /\ config.worker = "megatron" /\ pc # "build" => polGrads # "none"
    /\ pc \in GenPcs \cup {"finish", "wakeKV"} => Parked
    /\ ~stale /\ pc \in {"start", "batch", "trained", "checkpoint", "endStep"} => Parked
    /\ held => pc = "offloadAfter"

\* A policy whose weights the engine does not have yet is on the GPU.
StaleResident ==
  /\ pc \in RefitPcs \cup Building => stale
  /\ NeedRefit /\ stale /\ pc \notin {"down", "build", "reference", "wakeKV"}
       => polModel = "gpu"
  /\ pc = "reference" /\ config.worker = "dtensor" => polModel = "gpu"
  /\ (AfterUpdate \/ Counted) /\ NeedRefit /\ valVer # NoVersion => ~stale

CacheEmpty ==
  ~EngineMayRefuse /\ pc # "down" /\ (NeedRefit => pc # "finish") => genCache = {}

Inv ==
  /\ TypeOK /\ Lockstep /\ Versions /\ References
  /\ Residency /\ StaleResident /\ CacheEmpty /\ CheckpointConsistent

\* The newest checkpoint is never ahead of the driver and never more than the
\* steps since the last due save behind it; pc = "endStep" has saved already.
Newest ==
  /\ ckpts # {} => ResumePoints # {}
  /\ pc \notin {"down", "endStep"} => \A c \in ckpts : c.step <= step
  /\ pc = "endStep" => \A c \in ckpts : c.step <= step + 1
  /\ pc \notin Building \cup {"down", "endStep"} =>
       \A c \in ResumePoints : step - c.step <= step % SavePeriod
  /\ pc = "endStep" =>
       \A c \in ResumePoints : (step + 1) - c.step <= (step + 1) % SavePeriod

\* Only a relaunch takes the driver into the loop at or past the step limit.
Overrun ==
  /\ polVer <= MaxSteps + crashes
  /\ \A c \in ckpts : c.step <= MaxSteps + crashes
  /\ pc = "down" => \A c \in ResumePoints : c.step < MaxSteps + crashes
  /\ pc \notin {"down", "done"} => step < MaxSteps + crashes

\* The batch being trained on came from a rollout, never from a validation.
FromRollout == pc \in {"logprobs", "trainPrep", "train"} => ret = "rollout"

\* Behind RelaunchCostBounded and the OnPolicy contract.
CostInv == Inv /\ Newest /\ Overrun /\ FromRollout
=============================================================================
