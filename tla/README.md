# A TLA+ verification of NeMo-RL with simultaneous translation

The repository is a NeMo-RL tree that post-trains a speech translation model
with GRPO (it also carries the SFT and DPO drivers). A training run is one
driver process that commands groups of Ray workers: trainer workers that hold
the policy, a vLLM engine that samples from it, and environment actors that
score what was sampled. Nearly all the state that matters, and all the ways to
get it wrong without an exception, lie between these parts: which weights the
engine holds, what sits on a GPU both share, what a checkpoint contains when
the job is killed, which worker enters which collective, which token or sample
a reward belongs to.

This directory holds TLA+ modules for those parts, TLC configurations that
check them on small instances, and TLAPS proofs of the main results for every
value of the constants. Paths below are relative to `src/`.

Contents: [Inventory](#inventory), [Modules](#modules), [Runs](#runs),
[Fairness](#fairness), [Proofs](#proofs),
[Disagreement](#a-disagreement-between-code-and-comment),
[Observations](#observations-without-a-run),
[Not modelled](#what-is-not-modelled), [Next](#what-could-come-next),
[Running it](#running-the-checks).

## Inventory

| Component | State | Operations | Interacts with | What is hard | What makes it correct |
|---|---|---|---|---|---|
| GRPO driver, `nemo_rl/algorithms/grpo.py` | step, consumed samples, `POLICY_GENERATION_STALE`, save state | `setup`, `refit_policy_generation`, `grpo_train`, `validate` | policy, engine, rollouts, checkpoints | order of residency changes, staleness on every path, killed and relaunched | every update uses data of the current weights; GPU memory is never shared; checkpoints consistent |
| SFT and DPO drivers, `algorithms/sft.py`, `dpo.py` | epoch, step in epoch, total steps, loader position | `setup`, the epoch and batch loops, `validate`, saves | policy, checkpoints | relaunch at an epoch boundary, two bounds at once, a reference copied from the policy that is trained | no batch repeated or skipped, no step too many, last step saved, reference is the base model |
| Checkpoint manager, `utils/checkpoint.py` | `step_N`, `tmp_step_N`, `old_step_N` directories | `init_tmp_checkpoint`, `finalize_checkpoint`, `remove_old_checkpoints`, latest, best | drivers, file system | the process lost between two system calls | the latest checkpoint is always complete; the best k survive |
| Weight transfer to a colocated engine, `grpo.py`, `lm_policy.py`, `dtensor_policy_worker.py`, `vllm.py`, `vllm_backend.py` | groups of parameters, tensors kept alive, what each rank has loaded | `prepare_weights_for_ipc`, `get_weights_ipc_handles`, `update_weights` | trainer workers, engine ranks | memory freed while another process reads it; one rank failing | every rank whose result counts gets every parameter, or the refit fails |
| Megatron export, `megatron_policy_worker.py`, `models/megatron/` | parameter lists, gathered tensors | `prepare_weights_for_ipc`, `gather_params`, conversion | pipeline and tensor parallel ranks, engine ranks | uneven stages, two crossing kinds of groups, local and global layer numbers | collectives match; the engine is given the whole model, once, in order |
| Weight transfer to a separate engine, `grpo.py:446-457`, `dtensor_policy_worker.py`, `vllm_backend.py` | broadcasts queued on GPUs | `broadcast_weights_for_collective`, `update_weights_from_collective` | trainer workers, engine ranks, NCCL | methods return before their broadcasts ran; one that raises leaves the rest in theirs | no weight under another's name; a generation samples from current weights |
| Data-parallel calls, `models/policy/lm_policy.py`, `distributed/batched_data_dict.py`, `models/policy/*_worker.py` | global batch, microbatch, feature cache, loaded weights of each worker | sharding, dynamic batching, `train`, `get_logprobs`, `get_reference_policy_logprobs`, `generate` | worker groups, NCCL | reordering and putting back, collectives inside data-dependent loops | updates are those of the caller's chunks, rows in the caller's order, nobody waits alone |
| Multi-turn rollouts, `experience/rollouts.py` | message logs, per-sample flags and counters | lockstep and per-sample drivers, `calculate_rewards` | engine, environments | re-indexing when samples drop out; interleaved coroutines | each sample has the episode it would have alone |
| Asynchronous generation, `models/generation/vllm.py:1600-1718` | round-robin index, queue, flag, timer per request | `generate_async`, `_async_generate_base` | rollouts, leaders of the shards | flag and queue race; a timer races an answer that a blocked loop cannot read | no answer lost; even dispatch; a hung leader does not hang the run |
| InfiniSST environment and its rewards, `environments/games/infinisst.py`, `games/lcme/` | turn counter in the sample's metadata, files of the aligner, scorer actors | `step`, `compute_reward`, `predict` | rollouts, scorers, vecalign | one row decides for the call; scorers share file names; delays dealt to pieces of a re-cut text | the score is paid once, to its own sample, from its own alignment and delays |
| Training batches and losses, `data/llm_message_utils.py`, `algorithms/loss_functions.py`, `algorithms/utils.py` | message logs, flattened columns | chat templates, preprocessing, collation, masks, padding, shifts, the three losses | drivers, policy | columns that come different ways and are shifted differently; pairs told apart by parity | each term combines values of one token; pairs compare answers to one prompt |
| Virtual cluster and worker groups, `distributed/virtual_cluster.py`, `worker_groups.py`, `named_sharding.py` | placement groups, workers, tied groups, shardings | creation with retries, reuse, `run_*_workers_*`, `shutdown` | Ray, everything remote | nodes join late, bundles in any order, escalation of a shutdown | replicas on one node, shards to the right workers, no group leaked, a truthful answer |
| Policy workers, `models/policy/dtensor_`, `fsdp1_`, `megatron_policy_worker.py` | weights, gradients, optimizer, reference weights, held tensors | build, restore, offload, prepare, save, and the calls above | facade | residency differs by class; order of reference copy and restore | what the driver assumes of them |
| vLLM generation, `models/generation/vllm.py`, `vllm_backend.py` | engine asleep or awake, prefix cache, weights | `generate`, `sleep`, `wake_up`, update, reset | driver, ranks | swallowed failures | fresh cache, current weights, rows in order |
| Math and sliding puzzle environments; evaluation; logging, timing, configuration; model definitions; translation scorers | mostly none | pure functions and I/O | | | see [Not modelled](#what-is-not-modelled) |

How a GRPO step runs through them: the driver takes a batch from its loader;
if the engine is stale it offloads the optimizer, wakes the engine's weight
memory, transfers the policy group by group, offloads the policy and wakes the
KV cache; a rollout plays all samples against the environments, and the last
turn scores the translations; the engine is put to sleep; rewards become
advantages and message logs a padded batch; the policy returns to the GPU,
computes `prev_logprobs` and reference logprobs, trains one step and makes the
engine stale; then, when due, validation (another refit) and a checkpoint. The
process may be killed anywhere and is relaunched by the cluster from its newest
checkpoint.

The hazards this list leads to are in `PROJECT.json` (`hazards`), each at the
line where it bites and with the properties that would catch it; every one is
covered by a run.

## Modules

```
              OnPolicy (contract)              CheckpointStore (contract)
                  ^ implemented by                 ^ implemented by
  MCGrpoTrain > GrpoTrain ---- one step ---->  CheckpointManager
                  |  \-------- one step ---->  Refit, MegatronExport, CollectiveRefit
                  |  \-------- one step ---->  Rollout, AsyncRollout > Episodes (contract)
                  |  \-------- one step ---->  DataParallelStep > BatchSharding
                  |  \-------- one step ---->  TrainingBatch > TranslationRewards > Translations
  EpochTrain      |                                \--> ChatFormat, Responses > BatchSharding
  ClusterSetup > BatchSharding
```

(`A > B`: A extends, or instantiates, B. An arrow "one step" says which module
opens a step the driver takes at once.)

### `GrpoTrain`: the GRPO driver

`pc` is where the driver's single thread is; every remote call is waited for,
so an action is one call with the bookkeeping around it. A weight version is
the number of optimizer steps behind it (0 is the base model). What runs is a
`config`: the generation backend, colocated or not, the policy's worker class,
and whether the engine may refuse to sleep.

| TLA+ | Code |
|---|---|
| `step`, `consumed`, `loader`, `stale` | `step`, `consumed_samples`, position of the `StatefulDataLoader`, `POLICY_GENERATION_STALE` |
| `polVer`, `refVer`, `polModel`, `polGrads`, `polOptim`, `held` | versions of the policy and of the reference copy, devices of parameters, gradients and optimizer, tensors behind exported IPC handles |
| `genWeights`, `genKV`, `genVer`, `genCache` | is the engine's weight and KV memory mapped, version it holds, versions behind its prefix cache blocks |
| `batchVer`, `lpVer`, `refLpVer`, `valVer` | versions that generated the batch, computed its logprobs and reference logprobs, were measured by `val_metrics` |
| `ckpts` | contents of the finished `step_N` directories |
| `Setup`, `BuildPolicy`, `BuildReference`, `RestorePolicy`, `Begin`, `FetchBatch`, `LoaderExhausted` | `setup` with the constructor of each worker class, the start of `grpo_train`, the `for` over the loader |
| `OffloadBeforeRefit` ... `WakeKV`, `BroadcastWeights` | `refit_policy_generation`, both transports |
| `Rollout`, `Validate`, `FinishGeneration`, `FinishRefused` | generation and what `finish_generation` does, the swallowed failure included |
| `Logprobs`, `PrepareForTraining`, `Train`, `DecideValidation`, `DecideCheckpoint`, `SaveCheckpoint`, `EndStep` | the rest of the step |
| `Crash` | the process is lost |

The worker classes differ in what a call moves: DTensor moves parameters and
optimizer, FSDP1 may leave or move wrapped parameters on export (both are
allowed), Megatron keeps gradient buffers of its own and moves them with its
optimizer. `cpu_offload` and `fsdp_offload_enabled` are taken to be off.

**`OnPolicy`** is the contract without engines and devices (collect, update with
current data only, save, lose, restart); `GrpoTrain` implements it under the
mapping `Contract`.

### `EpochTrain`: the SFT and DPO drivers

The two loops have one control flow and are one module, with `algo` for what
differs: the reference policy of DPO, which `CopyReference` takes after building
the policy and before `LoadCheckpoint`, and what a validation batch does to the
metric. `epoch`, `step` (within the epoch), `total`, `consumed`, the loader's
`pos`; the validation loop batch by batch (`valSeen`); checkpoints, crash and
relaunch. The loader is torchdata's, outside the repository: its state is the
number of batches its iterator has yielded. A validation in which no batch has a
valid sample has the metric `EmptyMetric`, which the code computes as 0.

### `CheckpointManager` and `CheckpointStore`

`CheckpointManager` is `utils/checkpoint.py` system call by system call:
`InitTmp`, `WriteInfo`, `WriteFiles`, then `Publish` (plain rename) or
`SetAside`, `Swap`, `DropOld` (the override), then `Prune` and one
`RemoveVictim` per entry of each directory deleted. `rename` is atomic, `rmtree`
and the writing of a file are not. `Crash` may fall between any two of them,
and `Resume` picks the latest directory by name, as the code does. A behaviour
is that of a training loop, which only saves later steps, or of a caller that
also saves a step again (`resaves`). `CheckpointStore` is what training loops
rely on: checkpoints appear whole, the latest never goes back, one is given up
only when k better ones are there.

### `EngineRanks`, `Refit`, `CollectiveRefit`, `MegatronExport`

`EngineRanks` names the replicas, ranks and parameters of both transfers, which
have disjoint variables. `Refit` is the colocated transfer. A device hosts one
trainer worker and one engine rank. `Grouped` is the greedy grouping by free
memory (with `grouping`, a recursive function over the parameters); then, per
group, the driver asks all trainer workers for handles (`ServeHandles` gathers
the tensors, dropping the previous ones), replicas load them rank by rank
(`StartLoad`, `Load`, `LoadRaises`), a leader returns the first of its ranks'
results, and the driver tests the leaders' results only.

`MegatronExport` is what `ServeHandles` does when the trainer is a Megatron
worker. A parameter is the sequence of its rows, each named by projection, true
layer and place. Workers meet in collectives (`Meet`), each at its own pace,
over the groups `gather_params` uses; `Converted` is the conversion to Hugging
Face names of Qwen2 and Llama, with the splits of fused projections.

`CollectiveRefit` is the transfer to an engine on its own GPUs. A broadcast is
queued on the GPU of each member and runs when it is at the head of all queues;
the methods that queue them run ahead, as far as a queue allows. It spans
training steps, so that what a failed refit leaves in the queues meets the next.

### `DataParallelStep` and `BatchSharding`

`BatchSharding` is the list arithmetic of `batched_data_dict.py`: shards,
stable sort (each sample at its rank) and strided deal of dynamic batching,
microbatches by token budget, putting back. `DataParallelStep` is one call of the policy on top of it: the
shards are sent to the workers of the coordinates `worker_groups.py` chooses,
each goes through its global batches and microbatches and enters collectives on
its communicators, updates, or raises. One left alone in a collective stays
there. The worker classes and calls (train, evaluation, logprobs, reference
logprobs, generation) are alternatives of the `ask`. The audio feature cache
keeps, per recording, the frames the first sample of a call needed.

### `Episodes`, `Rollout`, `AsyncRollout`

`Episodes` says what a rollout is, whatever drives it: every sample has an
episode of its own, is paid its score once, in its environment's last turn, and
does not move after its end. `Rollout` is the lockstep driver: all active
samples take a turn, arrays are indexed by position among the active, regrouped
by task in `calculate_rewards`, dealt by stride to scorers, sorted back. A
response or score stands for the sample whose messages it was made from, so a
mix-up at any index shows. `AsyncRollout` is the per-sample driver over
`generate_async`: one coroutine per sample on one loop, a reading task with a
queue and a flag, a timer, and the blocking `ray.get` of the environment call,
which freezes the loop but neither the leaders nor the clocks. Both are shown
to implement `Episodes`.

### `ChatFormat`, `Responses`, `Translations`, `TranslationRewards`, `TrainingBatch`

One pipeline, traced instead of computed. `ChatFormat` (pure operators) finds
what a chat template adds for each message by comparing ever longer renderings,
as `get_formatted_message_log` does, and cuts what is too long. `Responses`
(pure operators, the model a parameter) carries the tokens an engine makes into
a message: vLLM's outputs behind unpadded prompts, those of its asynchronous
engine for one sample, and FSDP1's, whose prompts go to Hugging Face padded on
the left in microbatches and come back padded per microbatch, shard and batch.
`TrainingBatch` has the turns of an episode generated through it, and truncates
observations; no episode of its instances is full before its last turn, since
only episodes that end together are scored together. `Translations`
(pure operators over texts whose characters remember the turn they were written
in) joins the turns of an episode, cuts them into sentences and deals delays.
`TranslationRewards` is `compute_reward`: scorer actors on one node align at the
same time, for LCME through files in a directory they share; scores are
collected in order, hinged, and normalised prompt by prompt in an arbitrary
order. `TrainingBatch` goes on to the terms of the loss: baselines, masks,
flattening, padding, the columns that come from the engine and from two passes
of the policy, shards and microbatches, the shifts in the three losses, DPO's
pairs. An entry of a tensor is named by the token it is of, an advantage by the
sample whose reward it was made from. SFT and DPO jobs start from conversations.

### `ClusterSetup`

`setup()` from placement groups to running worker groups and back: attempts
with exponential back-off against a Ray cluster whose nodes join while it asks,
bundles returned in any order, the engine's tied groups (of one node, or of
several), the ranks that join the collective, the shards of a generation, and
`shutdown` with its escalation from cleanup to kill. The user may repeat a
shutdown: an emptied list answers `True` at once (`worker_groups.py:844`), a list
that was kept is called again. Then, also after a set-up that was refused or
raised half way, the objects go out of scope (`Leave`): `VllmGeneration.__del__`
is one more shutdown, `Policy.__del__` kills whom it still lists, and at last the
clusters give their groups up.

Operators marked `faulty` in a module are plausible bugs of the definition that
follows them (a dropped bound, a lost sort, a missing reset). They are used
nowhere: each exists so that one can put it in the definition's place and see
the property fail; `PROJECT.json` pairs them with the properties.

## Runs

| Run | Instance | Distinct states | What it shows |
|---|---|---|---|
| `grpo` | six configurations (each worker class colocated with vLLM, an engine that may refuse to sleep colocated and apart, the hf backend), 5 steps over 6 batches, validation every 2 steps and at the start, a save every 4, 3 crashes | 10 355 | `OnPolicyTraining`, `ExclusiveMemory`, `FreshUnlessRefused`, `CheckpointConsistent`, `RelaunchCostBounded`, `ImplementsOnPolicy`, `Terminates` |
| `checkpoint` | steps 1 to 4, the best one of two metric values kept, steps saved once or again, 1 crash | 161 623 | `LatestLoadable`; `ImplementsStore`: the best survives every pruning; `CopyKept`: through the override's renames a complete copy is always there |
| `epoch_train` | both drivers, 3 epochs of 3 batches, at most 12 steps, validation (2 batches, each with or without valid samples) and saves every 2, 3 crashes | 36 499 | `EveryBatchOnce`, `NeverBeyondTarget`, `FinalCheckpointSaved`, `Terminates` |
| `refit_transfer` | one replica of 2 ranks, all state dicts of 3 parameters of 1 to 3 units, free memory 2 or 4 per device, ranks that raise | 36 194 | `HandlesAlive`, `LeadersUpdated`, `Ends` |
| `megatron_export` | 56 models: 8 even and uneven splits over 1 to 4 stages, with and without tensor parallelism, buffers of one tensor to all, Qwen2 and Llama | 7 873 | `ExportedWhole` |
| `collective_refit` | 2 trainers, 2 replicas of 2 ranks, 2 parameters, queues of 1 and 2, 2 training steps, 2 raises per refit | 811 198 | `CurrentWeights`, `Served` |
| `data_parallel` | 26 kinds of calls (three worker classes, two data parallel workers, context, tensor or pipeline peers) on 8 samples of every length pattern of four, invalid samples, a recording heard for different times | 19 346 | `CollectivesMatch`, `UpdatesFollowChunks`, `RowsInCallersOrder`, `WithinBudget`, `FailsForCause`, `Returns` |
| `megatron_eval` | an evaluation on Megatron workers | | violation, see below |
| `rollout_lockstep` | 3 samples over 2 tasks, episodes of 1 to 3 turns under a limit of 2, 2 scorers | 4 440 | `LogsOwn`, `ImplementsEpisodes`, `Returns` |
| `rollout_async` | 2 samples, episodes of 1 to 3 turns under a limit of 2, 2 shards | 106 345 | `DroppedForCause`, `ImplementsEpisodes`, `Returns` |
| `training_batch` | 1 874 jobs: four episodes of one or two turns, answered by one to three shards of vLLM, by its asynchronous engine or by FSDP1 in one to four microbatches, with answers that end in every way, over two scorers; tidy and untidy texts in languages of words and of characters, both segmenters, every way rewards are used; conversations and preferences under four templates | 54 892 | `AlignmentsOwn`, `DelaysOwn`, `RewardsOwn`, `TermsOwn` |
| `cluster` | 13 set-ups of 1 to 3 nodes (replicas of a GPU, a node, two nodes, with GPUs left over; colocated and apart; refused ones), 2 attempts, 5 prompts, up to 2 shutdowns by the user and that of `__del__` | 782 517 | `ReplicasPlaced`, `RowsInOrder`, `ShutdownTruthful`, `Ends` |

Why the bounds are enough:

- *Drivers.* The step counts are chosen so that each coincidence happens: a
  step with neither validation nor save, with one, with both, a last step that
  is on neither period (5 with periods 2 and 4), a loader with a batch left when
  the limit is reached and, by relaunches of the finished run, one that runs out.
  In `epoch_train` a save falls inside an epoch (2, 4, 8) and at the end of one
  (6, 9), and the step limit of 12 lies beyond the 9 batches there are. Three
  crashes allow a run to be lost before its first checkpoint, between two, and
  after its end. The proofs remove the bound.
- *Checkpoints.* Four steps with one kept and two metric values give a latest
  outside the best and ties. A crash falls in a save, in a pruning, between the
  renames of an override, or before the pruning, so that the next has more than
  one victim. A second crash would need a directory damaged twice; the proof of
  `LatestLoadable` covers it.
- *Refits.* Every grouping of three parameters occurs, including a parameter
  larger than any device's memory and devices that differ. Two ranks are one
  whose result is looked at and one whose is not; replicas do not interact but
  through the driver's wait for all (`Refit`) or through the broadcast
  (`CollectiveRefit`, which has two). Two steps let what one refit left queued
  meet the next.
- *Megatron.* Layers and stages are few, but each rule of the layer numbering
  (short first stage, short last, both, even) has a split with a middle stage;
  each kind of parameter is there, with two query groups of two heads so that
  interleaved rows can be confused.
- *Data parallel calls.* Eight samples are two chunks of four on two workers, and
  do not divide by three; two are enough for a worker to be alone in a
  collective, and lengths 1 to 4 under a budget of 4 give microbatches of one to
  four rows and different numbers of them in different shards.
- *Rollouts.* Three samples let one drop out of the front, middle or back of the
  active ones, and give a scorer two rows; two tasks give a group that empties
  first. In the asynchronous driver, samples interact only through the loop, the
  round-robin index and the clock, and two show all three.
- *Training batches.* Two scorers with two episodes each interleave on the files
  of one document; two prompts show a normalisation over the wrong group, groups
  of four and of three and one the corner of the leave-one-out baseline. A
  microbatch of one or two rows shows padding of rows that differ in length.
  Conversations are those in which a generation prompt is followed by an answer,
  as in the data sets the repository has.
- *Clusters.* One node, replicas that share one, and replicas over two are the
  cases of the layout code; a second attempt is enough for a node that joins late.
  Two shutdowns by the user and the one of `__del__` give a group three: one that
  fails, one that meets what it left, and one after that. Any number of workers may
  die.
- A metric is one of two values, a weight its version, a tensor entry the token
  it is of. No property distinguishes more.
- `CHECK_DEADLOCK FALSE` is used where the programs end (a driver that is done and
  cannot be relaunched more often, a refit or a rollout that has returned) or may
  be left waiting, which the liveness properties look at. `training_batch` and
  `megatron_export` end in a step that repeats, and there TLC looks for deadlock:
  it is how waiting for ever in `gather_params` would show.

## Fairness

- `GrpoTrain`, `EpochTrain`: weak fairness of the driver's own thread. It has
  always one next call; that a remote call returns or raises is assumed, as the
  code's `ray.get` without a timeout does. Crashes are not fair, and bounded.
- `Refit`: weak fairness of the driver, of each trainer worker, rank and leader,
  separate processes that are asked by the driver and answer. A rank may raise.
- `CollectiveRefit`: weak fairness of the driver, of each method, and of the GPUs,
  which run what is at the head of all queues concerned. What is not at the head
  of all never runs, and nothing forces a method to raise.
- `DataParallelStep`: weak fairness of the driver's gathering and of each worker
  that is not inside a collective without its peers.
- `Rollout`: weak fairness of the driver and of each environment, which answers
  or raises.
- `AsyncRollout`: weak fairness of the loop's callbacks (asyncio's ready queue is
  FIFO), of timers and of environment calls. **Nothing** is assumed of leaders:
  they may hang with or without having streamed their answer, and `Returns`
  shows that the timer alone makes the rollout end.
- `ClusterSetup`: weak fairness of the driver and of Ray ending actors nobody
  holds. Nodes need not join, groups need not be placed, workers need not clean up:
  the waits for them have timeouts. The waits for new workers
  (`worker_groups.py:537`) and for the collective (`grpo.py:361`) have none; the
  model assumes that they end, well or with an error.
- `CheckpointManager`, `TrainingBatch`, `MegatronExport` and the contracts state no
  fairness; no liveness is claimed of them.

## Proofs

Each component's theorems are in a module of its own, but for the two weight
transfers, which share one. All hold for every value of the constants that
satisfies the named assumption of the module.

**`GrpoTrainProofs`.** `OnPolicyTraining` is not inductive: it says something
only of the moment before the update. The inductive `Inv` adds `Lockstep` (in
each phase of a step, how far the loader, the weights and the sample counter are
ahead of `step`: the four advance at four different moments), `Versions` (a fresh
engine holds the policy's version; what was generated since the last update has
it too), `References` (the copy is the base model, in each worker class's order of
building, copying and restoring), `Residency` (at which calls the engine's memory
may be mapped, and that the policy is parked there), `StaleResident` (where the
engine is stale a Megatron policy is on the GPU) and `CacheEmpty`.
`CheckpointConsistent` is part of it because a relaunch takes its counters from a
checkpoint. From `InvAlways`: `TypeCorrect`, `TrainsOnPolicy`,
`CheckpointsConsistent` for every configuration and period; `ExportsOnGpu`; and,
for an engine that never refuses to sleep, `MemoryExclusive` and `CacheFresh`.
`RelaunchIsCheap` adds to `Inv` that the newest checkpoint is behind the run by at
most `step % SavePeriod` (`Newest`), which is an argument about remainders
(`RemainderGrows`), and that a finished run that is relaunched overruns the step
limit by one step per relaunch (`Overrun`). `DriverImplementsContract` is the refinement of `OnPolicy`:
each action of the driver is, under `Inv`, one step of the contract or a stutter.

**`CheckpointProofs`.** `LatestAlwaysLoadable`, for a caller that saves ever later
steps, as the training loops do. The strengthening `SavePhases` says that the
directory being written has a step above all visible ones and what it already
contains, and that while pruning the latest is complete and above every victim.
For the same callers `ManagerImplementsStore`: directory by directory, through
crashes in a write, in the renames and in a deletion, what can be loaded behaves
like `CheckpointStore`; `StoreInv` adds that what is being deleted, and what a
crash left half deleted, has k complete better ones beside it (`DroppedOnly`). `OneCopyKept` is for callers that save a step again:
`CopyInv` follows the old and the new directory through the two renames.

**`EpochProofs`.** `BatchesOnce`, `WithinTarget`, `EndsSaved`, `ReferenceKept`,
`TypeCorrect` from one `Inv`: the position in the whole run is
`Batches(epoch) + pos` and `step` is `pos`, except that a checkpoint of the last
batch of an epoch has `step = 0`, the epoch not advanced and the loader at its
end; `References` places the copy between building and restoring; `NoneAhead`
keeps the resumed run from being behind a later checkpoint. `Batches` is a product
and is opened only in `BatchesFacts`; everything else uses its three linear facts.

**`WeightTransferProofs`.** For broadcasts, `BroadcastsCurrent`: an engine that samples after a
refit that succeeded has, under each name, the weight of that name and of the
policy's current version. The broadcasts that are queued are a segment of the
state dict on every member (`Sends`, `Receives`), and all segments begin at one
parameter (`Aligned`), however far the methods run ahead and whichever raise: a
rank that raised has a shorter segment, and nothing beyond its end can run.

For handles, `HandlesStayAlive`: a rank that reads does so while the trainer
worker of its device holds the very group it reads, for any grouping, number of
replicas and ranks, and with failures. `Handover` says who is asked, holds and
has answered in each phase. `RefitUpdatesLeaders`: when a refit succeeds every
leader has loaded every parameter. `Delivery` says that what a leader lacks is
still to be handed over; at the start that is everything, because the groups
contain every parameter of the state dict, whatever the sizes and the free memory.

**`DataParallelProofs`.** `MicrobatchesFit`, `RowsComeBack`, `FailuresExplained`,
`CollectivesAgree` and `UpdatesAreChunks`, for every number of workers of each
kind, batch size, pattern of lengths, token budget and rounding. `Placed` says
where the workers may be, `RowsKept` that what a worker is to return are the rows
of the microbatches behind it, `FramesKept` whose audio the cache holds. Underneath
are facts about the list arithmetic of `BatchSharding`: the sort by rank is a
permutation of the chunk and in order, the strided deal gives each element to one
shard, shards of a concatenation are those of the parts, the microbatches of a
grouping follow each other without a gap and fit the budget, and putting back
inverts the permutation.

`CollectivesAgree` needs that all workers walk along one chain: `InStep` says that
what a worker has entered starts with the call's first collective, that each entry
is followed by the one `Follows` allows, and which entry is the latest at each place
of the worker. Chains of one successor relation agree wherever both are long enough
(by the least number of a call at which they would not), and a worker's calls on
shared communicators are numbered alike. What makes the relation a function is that
the number of forward passes is that of shard 1 on every worker: a dynamic batch is
grouped by the longest row of all shards, hence in the same way on each (`Number`).

`UpdatesAreChunks` needs what a worker accumulates: `Gradients` says that its
gradient of a global batch holds the rows of the microbatches behind it, each
divided by the valid samples of the chunk, and all of its part once it has entered
the norm's reduction; `Applied` that the updates made are those of the chunks behind
the worker. The sum over the data parallel workers is the chunk because the pairs
of a worker and a place are mapped onto the chunk by the deal, and there are as many
pairs as samples: a surjection between sets of one size counts each sample once.

**`AsyncRolloutProofs`.** `AsyncImplementsEpisodes` is the safety refinement for
any number of samples, turns and shards: each step of the loop, a leader or a
timer is one sample's turn, one sample's abandonment, or a stutter. The
invariant relates the driver's turn counter to the environment's, which is
behind by one exactly while a turn is under way. `DispatchEven`: the shards below
the round-robin index have been sent one request more than the others.
`RequestsDropForCause`: an episode is given up only because its leader failed or
its timer ran out, and no leader is left busy otherwise. `DropInv` says where a
response in transit is (`InTransit`): with the leader, in the stream, in the
queue, or announced by the flag.

**`RolloutProofs`.** `LogsStayOwn` and, the safety refinement,
`LockstepImplementsEpisodes`, for any number of samples, tasks, scorers and turns:
a batch that is regrouped by task, dealt to scorers, put back, joined and sorted
gives each sample its own answer (`RewardsAre` and its neighbours). Three facts
carry it. The list of a set in ascending order has each member once (`Ascending`);
the deal by stride and the reading of `results[i % n][i // n]` are inverse
(`ComputeRewardIs`); and the concatenation of the groups pairs each position with
its value, so that looking a position up finds that value (`SortedBack`). In
`RolloutInv`, `Exchange` says that the rows in flight are those of the samples now
active and what an environment may have answered to them, and `Underway` that all
active samples are in the driver's turn, unpaid, and before their environment's
last turn: that is why the first row of a call may decide for all. A metric that
only some groups return raises, so that a collected turn has all or none
(`AllOrNothing`).

**`ClusterProofs`.** `NoGroupLost` and `NoGroupLeft`: whatever the set-up, the
number of attempts and what Ray does, each placement group Ray holds is known to
a cluster object or asked for by it; and once the objects of a run are gone,
whether its set-up came up, was refused or raised after groups were placed and
workers made, Ray holds none and nobody lists a worker. `Inv` needs that a cluster
asks for groups only when it has none, and that the driver ends only after both
clusters gave theirs up. `ScopeInv` adds that what was deleted lists workers only
while its own shutdown goes on, and that nothing is deleted before the program
leaves.

`ReplicasAreWhole`: the replicas of the engine are complete, on one node if they
fit one, share no bundle and no seed, and a collective that comes up has all its
ranks, for any set-up, node numbers, late nodes and choice of Ray's. `PlaceInv`
carries three facts: an accepted set-up (`Valid`) has sizes that divide as the
layout code needs; groups that Ray has placed stay well seated (`Seats`); and the
replicas are slices of an order of the bundles (`Laid`). A group of one node's size is on one
node because PACK keeps it there if a node is free, and one is: fewer groups than
nodes are placed, and each takes one node (`FreeNode`, by counting). A replica
larger than a node, of a group over several, begins on a node that no other begins
on: the order is by node, and no node has more bundles than GPUs (`NodeIsRun`).
Seeds differ by node, or by the place in it, as long as a node's 1024 seeds do not
run into the next one's: `configure_worker` (`vllm.py:121-133`) numbers them so, and
`SeedAssumption` bounds the GPUs of a node, or the replicas of a group over
several nodes, by 1024, beyond which two replicas can get one seed.

`GenerationInOrder`: shards of any sizes, some empty, given to the first worker of
each replica and joined again are the rows in their order; the coordinate of a
worker grows by one at each such worker (`CoordStep`). `ShutdownTellsTruth`, for
any number of shutdowns: a group that has answered nothing but `True` had every
worker go through its cleanup, and one that answers `True` after a `False` had all
of them killed. `TallyInv` counts: every worker has met exactly one fate, and each
answer says something of the count (`Told`). After `False` either a worker is dead
and the list is kept, so that no later shutdown can end gracefully, or all were
killed and the list is empty, so that the next answers `True` at once; after `True`
alone none can meet another fate. Only a group that a failed `__del__` has let go
of fits neither, and `ScopeInv` says that it is not asked again. The number of
workers made comes from `RayInv` (known groups have all their bundles).

**Facts about data.** The library's induction theorems take an operator as a
parameter, which the provers cannot instantiate. What a recursive *function* or
`FlattenSeq` computes is proved by the least counterexample instead: the set of
lengths for which a claim fails has a least element if it has any, and the claim
for the one before it is one unfolding away (`grouping` in `Refit`, `Grouped`,
`Strided` and the shards in `BatchSharding`, the joined groups of `Rollout`). That is why these operators are
recursive functions, sets of a rank, and concatenations, rather than folds.

**Only model-checked.** All liveness (`Terminates`, `Ends`, `Returns`, `Served`):
ENABLED is beyond the provers. What rests on folds and other operators with an
operator parameter, for which there is no least counterexample to unfold:
`AlignmentsOwn`, `DelaysOwn`, `RewardsOwn`, `TermsOwn`, `ExportedWhole`.

## A disagreement between code and comment

`megatron_eval`: `sft.py:275` (and the same comment in `dpo.py`) runs a validation
as a call of `policy.train(..., eval_mode=True)` and says it will "just run model
fwd". DTensor and FSDP1 workers leave their optimizer alone then. The Megatron
worker steps it in any case (`megatron_policy_worker.py:798`), with whatever
gradients its buffers hold.

### Observations without a run

Each of these was met while modelling; the models do what the code does.

*Drivers and engine.*
- `finish_generation` swallows a failed sleep (`vllm.py:1761`) and the driver
  ignores the result, so that the next weights may generate against the old
  weights' prefix cache, which `vllm.py:1190` says must not be;
  `prepare_for_generation` swallows a failed wake in the same way. That is why
  `FreshUnlessRefused` and `ExclusiveMemory` speak of engines that do not refuse.
- After every checkpoint `offload_after_refit` (`grpo.py:742`) moves the policy to
  the CPU, and with the hf backend, where the policy itself generates,
  `prepare_for_generation` (`lm_policy.py:395`) does nothing about it.
- `validate` reads `val_batch["metrics"]` (`grpo.py:865`), which the
  asynchronous rollout does not return (`rollouts.py:821-840`), nor does that
  path pass `features` to the engine; `GrpoTrain` describes runs with the
  lockstep rollout.
- `validate()` of SFT and DPO returns `None` without a validation set, and its
  callers unpack it. A validation without any valid sample, or of a set smaller
  than a batch, saves the metric 0.0, which for a loss is the best there is.

*Checkpoints.*
- After a crash between `Swap` and the deletion of `old_step_N`, the next save of
  step N raises at `checkpoint.py:148` (`SetAsideRaises`); a person has to remove
  the directory. The step itself stays loadable.
- A directory whose `training_info.json` an interrupted deletion had removed is
  invisible to every later pruning (`checkpoint.py:270`), so more than the top k
  stays.

*Transfers of weights.*
- `update_weights` keeps the result of rank 0 only (`vllm.py:1025`); another
  rank's failure goes unnoticed and the replica samples with ranks of two
  policies. Hence `LeadersUpdated`.
- On the broadcast path a rank that raised leaves the others with a broadcast
  that never runs, and nothing has a timeout.
- The import of a model into Megatron takes an existing `iter_0000000` for a
  complete one (`megatron_policy_worker.py:375`), and the other ranks wait if
  rank 0's import raises. `GrpoTrain` takes the import for one step.
- Megatron: the learning rate scheduler advances by the size of the whole data
  set per global batch; a manual `no_grad` is not undone by an exception;
  `save_checkpoint` leaves the model in train mode.

*Data-parallel calls.*
- The audio features of a recording are cached for a batch or a call, as many
  frames as its first sample needed: a later sample of the same recording with more
  audio gets those frames alone, one with less raises, since more frames than tokens
  cannot be assigned (`dtensor_policy_worker.py:519`). `FailsForCause` allows for
  exactly that.
- `vllm.py:1522` cuts a batch into as many shards as the layout has, and sends
  them to as many replicas as the placement groups gave; with GPUs left over on
  each node the last shards are not generated. `RowsInOrder` says when.
- FSDP1 computes with an attention mask of ones; its `generate` uses the union of
  all stop strings, and counts padding as generated after one that is not eos. Its
  answers are bounded by `max_new_tokens` alone, so the assertion at
  `rollouts.py:440` can fail, and `lm_policy.py:365` refuses a number of episodes
  the workers do not divide (`ObserveRefused`, `GenerateRefused`).

*Rollouts and rewards.*
- `vllm.py:1684` says "Worker has not finished" when a timer wins; the worker may
  have finished while another sample's environment call held the loop. A failed
  generation ends its episode without a word.
- A batch that mixes tasks whose episodes differ in length raises `IndexError` in
  `calculate_rewards` (`rollouts.py:303`), which the lockstep model does too.
- The two rollout drivers count "natural termination" and "max turns reached"
  differently.
- A line break or doubled blanks in a translation shift the delays of what
  follows, and a segment without any may divide by zero (`infinisst.py:494`);
  `DelaysOwn` speaks of plain texts.
- Under seqpo the clipping is applied to the whole array inside the loop over
  prompts (`infinisst.py:750`): what is normalised later sees clipped values, in
  an order that depends on salted hashes.
- Two InfiniSST environments on one node share the file names of the aligner, as
  output files are never removed. Spanish is in `WORD_LANGS` and not in
  `SENT_SPLITTERS`. The baseline is computed with a mask of ones, so that samples
  masked out of the loss count in it (`grpo.py:601`).
- With `add_generation_prompt`, two user messages in a row (or a task prompt that
  turns a system message into one) are cut so that the first ends with an answer's
  header and the second lacks the start of its own.

*Clusters.*
- Whether a Ray cluster has enough GPUs is asked of its totals, so a second virtual
  cluster finds out by the timeout of 180 s only; more nodes than configured can
  fail the assertion of identical bundle counts; `train_nodes = 0` is caught by an
  `IndexError`. GPUs that no replica uses make the collective wait for ranks that
  never come.
- `shutdown` does not look at a cleanup that returns `False`
  (`worker_groups.py:842`), and an actor that died makes the graceful part raise.
- A shutdown that timed out kills the workers, empties the list and answers
  `False`; the next answers `True` at once (`worker_groups.py:844`), for workers
  that were cut short. `VllmGeneration.__del__` makes that call itself
  (`vllm.py:1859`). So `True` alone does not say that cleanups were finished,
  only an unbroken sequence of it does; `ShutdownTruthful` states both cases.

## What is not modelled

- *Math and sliding puzzle environments*: at this commit neither `step` returns,
  both build `EnvironmentReturn` without its field `metrics`, which has no default.
- *Evaluation*: one pass without state over components modelled elsewhere.
- *Logging, timing, configuration, environments of processes*: I/O that no other
  component reads back.
- *Model definitions, parallelisation plans, translation scorers*: tensor programs
  and tables; what they are given and where the results go is modelled.
- Within modelled components: the arithmetic on tensors (losses, gradients,
  optimizers, learning rates, scores); tokenising, the data sets and the
  preprocessing of GRPO prompts; token counts, rates and stop strings of the
  rollouts; the configuration of vLLM, the patches it is given; how an IPC handle is made and opened; Megatron's import and its own
  generation (whose outputs depend on Megatron-Core's), mixtures of experts; builders of actors, addresses and ports;
  `cpu_offload`, context parallel buffers; the textual order of directory names
  (the code sorts by `int`). Contents of messages have no blanks at their ends.

## What could come next

Composition of `GrpoTrain` with `CheckpointStore` instead of an atomic save; then
more theorems: `ExportedWhole` once `MegatronExport` fills its buffers by a
recursive function, and `RewardsOwn` once `TranslationRewards` joins its prompts
in the same way.

## Running the checks

    tlc -config Grpo.cfg MCGrpoTrain.tla
    tlapm GrpoTrainProofs.tla

and likewise for the other configurations and proof modules; `PROJECT.json` lists
which configuration belongs to which module, and which source lines each
definition translates. `cluster` takes about two minutes, `collective_refit`,
`training_batch` and `megatron_export` a minute or less, the other runs seconds; the proofs
some minutes in all.
