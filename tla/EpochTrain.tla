------------------------------ MODULE EpochTrain ------------------------------
(***************************************************************************)
(* The supervised and the preference driver: sft_train and dpo_train, with *)
(* the setup that resumes them.  Both run several epochs over a stateful   *)
(* loader, count steps within the epoch and in total, and are bounded by   *)
(* both.  dpo_train keeps a reference policy and draws its batches, for    *)
(* training and for validation, through add_ref_logprobs_to_data, which    *)
(* attaches log probabilities of that reference.                           *)
(*                                                                         *)
(* The loader is torchdata's: its state is how many batches the iterator   *)
(* has yielded, and iterating after a restore yields the remaining ones    *)
(* (none, if the state was taken after the last).                          *)
(***************************************************************************)
EXTENDS Integers, FiniteSets

CONSTANTS
  MaxEpochs,   \* max_num_epochs
  MaxSteps,    \* max_num_steps
  LoaderLen,   \* len(train_dataloader)
  ValPeriod,   \* val_period
  SavePeriod,  \* checkpointing.save_period
  ValAtStart,  \* val_at_start
  ValLen,      \* len(val_dataloader)
  ValBatches,  \* val_batches: how many of them to validate on, 0 for all
  MaxCrashes   \* bound: how often the process is lost and relaunched

ASSUME EpochAssumption ==
  /\ MaxEpochs \in Nat \ {0}
  /\ MaxSteps \in Nat \ {0}
  /\ LoaderLen \in Nat \ {0}
  /\ ValPeriod \in Nat \ {0}
  /\ SavePeriod \in Nat \ {0}
  /\ SavePeriod % ValPeriod = 0          \* asserted by setup
  /\ ValAtStart \in BOOLEAN
  /\ ValLen \in Nat /\ ValBatches \in Nat
  /\ MaxCrashes \in Nat

VARIABLES
  algo,      \* which driver this is, "sft" or "dpo"
  pc,        \* where the driver thread is
  epoch,     \* current_epoch
  step,      \* current_step, within the epoch
  total,     \* total_steps
  consumed,  \* save_state["consumed_samples"], in batches
  pos,       \* batches the loader's iterator has yielded
  polVer,    \* optimizer steps behind the policy's weights
  refVer,    \* version of the reference policy's weights
  batchRef,  \* version that computed the batch's reference logprobs
  valVer,    \* version val_metrics was measured on
  valSeen,   \* batches the running validation has seen
  ckpts,     \* finished checkpoints
  crashes

counters == <<epoch, step, total, consumed>>
weights  == <<polVer, refVer>>
metric   == <<valVer, valSeen>>
vars == <<algo, pc, counters, pos, weights, batchRef, metric, ckpts, crashes>>

NoVersion   == -1    \* nothing was computed: None
EmptyMetric == -2    \* a validation found no valid sample: a loss of 0.0
BaseVersion == 0

Lesser(a, b) == IF a < b THEN a ELSE b

Batches(epochs) == epochs * LoaderLen

\* The batches the configuration asks for.
Target == Lesser(MaxSteps, Batches(MaxEpochs))

StepLimitOnly == total + 1 >= MaxSteps                   \* faulty: epochs forgotten
IsLastStep ==
  \/ total + 1 >= MaxSteps
  \/ epoch + 1 = MaxEpochs /\ step + 1 = LoaderLen

ValDuePeriodOnly == (total + 1) % ValPeriod = 0          \* faulty: last step forgotten
ValDue == IsLastStep \/ (total + 1) % ValPeriod = 0
SaveDue == IsLastStep \/ (total + 1) % SavePeriod = 0

\* The condition of the loop over epochs.
StepLeftOnly == total < MaxSteps                         \* faulty: epochs forgotten
MoreToDo == epoch < MaxEpochs /\ total < MaxSteps

IsLatest(c) == \A d \in ckpts : d.total <= c.total

DefaultSaveState ==
  [epoch |-> 0, step |-> 0, total |-> 0, consumed |-> 0, pos |-> 0, ver |-> 0,
   valVer |-> NoVersion]

ResumePoints == IF ckpts = {} THEN {DefaultSaveState} ELSE {c \in ckpts : IsLatest(c)}

-----------------------------------------------------------------------------
Init ==
  /\ algo \in {"sft", "dpo"}
  /\ pc = "down"
  /\ epoch = 0 /\ step = 0 /\ total = 0 /\ consumed = 0 /\ pos = 0
  /\ polVer = 0 /\ refVer = NoVersion /\ batchRef = NoVersion
  /\ valVer = NoVersion /\ valSeen = 0
  /\ ckpts = {}
  /\ crashes = 0

\* setup reads the newest checkpoint and builds the policy from the base
\* model.
ReadSaveState ==
  \E c \in ResumePoints :
    /\ epoch' = c.epoch /\ step' = c.step /\ total' = c.total
    /\ consumed' = c.consumed
    /\ pos' = c.pos

SetupSft ==
  /\ pc = "down" /\ algo = "sft"
  /\ ReadSaveState
  /\ polVer' = BaseVersion /\ refVer' = NoVersion
  /\ batchRef' = NoVersion /\ valVer' = NoVersion /\ valSeen' = 0
  /\ pc' = "restore"
  /\ UNCHANGED <<ckpts, crashes>>

SetupDpo ==
  /\ pc = "down" /\ algo = "dpo"
  /\ ReadSaveState
  /\ polVer' = BaseVersion /\ refVer' = NoVersion
  /\ batchRef' = NoVersion /\ valVer' = NoVersion /\ valSeen' = 0
  /\ pc' = "reference"
  /\ UNCHANGED <<ckpts, crashes>>

\* The worker keeps a copy of the weights it was built with as the reference
\* policy, and only then loads the checkpoint.
CopyReference ==
  /\ pc = "reference"
  /\ refVer' = polVer
  /\ pc' = "restore"
  /\ UNCHANGED <<counters, pos, polVer, batchRef, metric, ckpts, crashes>>

LoadCheckpoint ==
  /\ pc = "restore"
  /\ \E c \in ResumePoints : polVer' = c.ver
  /\ pc' = "start"
  /\ UNCHANGED <<counters, pos, refVer, batchRef, metric, ckpts, crashes>>

\* Before the loop over epochs: validate an untrained policy when asked to.
StartValidation == valVer' = EmptyMetric /\ valSeen' = 0

Begin ==
  /\ pc = "start"
  /\ IF ValAtStart /\ total = 0
     THEN pc' = "valStart" /\ StartValidation
     ELSE pc' = "epoch" /\ UNCHANGED metric
  /\ UNCHANGED <<counters, pos, weights, batchRef, ckpts, crashes>>

StartEpoch ==
  /\ pc = "epoch"
  /\ pc' = IF MoreToDo THEN "batch" ELSE "done"
  /\ UNCHANGED <<counters, pos, weights, batchRef, metric, ckpts, crashes>>

\* The next batch; dpo scores it with the reference policy before yielding it.
ScoreWithReference == batchRef' = refVer

FetchBatch ==
  /\ pc = "batch"
  /\ pos < LoaderLen
  /\ pos' = pos + 1
  /\ IF algo = "dpo" THEN ScoreWithReference ELSE UNCHANGED batchRef
  /\ valVer' = NoVersion
  /\ pc' = "train"
  /\ UNCHANGED <<counters, weights, valSeen, ckpts, crashes>>

ResetStep == step' = 0

\* StopIteration: the next epoch iterates the loader from its start.
EndEpoch ==
  /\ pc = "batch"
  /\ pos = LoaderLen
  /\ pos' = 0
  /\ epoch' = epoch + 1
  /\ ResetStep
  /\ pc' = "epoch"
  /\ UNCHANGED <<total, consumed, weights, batchRef, metric, ckpts, crashes>>

\* policy.train, and validation when it is due.
TrainStep ==
  /\ pc = "train"
  /\ polVer' = polVer + 1
  /\ IF ValDue
     THEN pc' = "validate" /\ StartValidation
     ELSE pc' = "count" /\ UNCHANGED metric
  /\ UNCHANGED <<counters, pos, refVer, batchRef, ckpts, crashes>>

-----------------------------------------------------------------------------
\* validate: a forward pass over the first batches of the validation loader.
\* A batch without a valid sample adds nothing to the metric.
ValCount == IF ValBatches > 0 THEN Lesser(ValBatches, ValLen) ELSE ValLen

AddToMetric == \E valid \in BOOLEAN : valVer' = IF valid THEN polVer ELSE valVer

ValidateBatchSft ==
  /\ pc \in {"valStart", "validate"} /\ algo = "sft"
  /\ valSeen < ValCount
  /\ valSeen' = valSeen + 1
  /\ AddToMetric
  /\ UNCHANGED <<pc, counters, pos, weights, batchRef, ckpts, crashes>>

ValidateBatchDpo ==
  /\ pc \in {"valStart", "validate"} /\ algo = "dpo"
  /\ valSeen < ValCount
  /\ valSeen' = valSeen + 1
  /\ ScoreWithReference
  /\ AddToMetric
  /\ UNCHANGED <<pc, counters, pos, weights, ckpts, crashes>>

EndValidation ==
  /\ pc \in {"valStart", "validate"}
  /\ valSeen = ValCount
  /\ pc' = IF pc = "valStart" THEN "epoch" ELSE "count"
  /\ UNCHANGED <<counters, pos, weights, batchRef, metric, ckpts, crashes>>

-----------------------------------------------------------------------------
\* The batch is counted, and a checkpoint taken if it is due.
CountBatch ==
  /\ pc = "count"
  /\ consumed' = consumed + 1
  /\ pc' = IF SaveDue THEN "save" ELSE "endStep"
  /\ UNCHANGED <<epoch, step, total, pos, weights, batchRef, metric, ckpts, crashes>>

CheckpointOfNextEpoch ==                                 \* faulty: epoch closed twice
  [epoch |-> IF step + 1 = LoaderLen THEN epoch + 1 ELSE epoch,
   step |-> (step + 1) % LoaderLen, total |-> total + 1, consumed |-> consumed,
   pos |-> pos, ver |-> polVer, valVer |-> valVer]
CheckpointNow ==
  [epoch |-> epoch, step |-> (step + 1) % LoaderLen, total |-> total + 1,
   consumed |-> consumed, pos |-> pos, ver |-> polVer, valVer |-> valVer]

\* Seen from finalize_checkpoint: the manager may drop older checkpoints.
\* val_metrics["val_loss"] of None raises, so a save needs metrics.
SaveCheckpoint ==
  /\ pc = "save"
  /\ valVer # NoVersion
  /\ \E kept \in SUBSET ckpts : ckpts' = kept \cup {CheckpointNow}
  /\ pc' = "endStep"
  /\ UNCHANGED <<counters, pos, weights, batchRef, metric, crashes>>

EndStep ==
  /\ pc = "endStep"
  /\ step' = step + 1
  /\ total' = total + 1
  /\ pc' = IF total + 1 >= MaxSteps THEN "done" ELSE "batch"
  /\ UNCHANGED <<epoch, consumed, pos, weights, batchRef, metric, ckpts, crashes>>

\* The process is lost anywhere, or a finished run is relaunched.
Crash ==
  /\ pc # "down"
  /\ crashes < MaxCrashes
  /\ crashes' = crashes + 1
  /\ pc' = "down"
  /\ UNCHANGED <<algo, counters, pos, weights, batchRef, metric, ckpts>>

Work ==
  /\ UNCHANGED algo
  /\ \/ SetupSft \/ SetupDpo \/ CopyReference \/ LoadCheckpoint \/ Begin
     \/ StartEpoch \/ FetchBatch \/ EndEpoch \/ TrainStep
     \/ ValidateBatchSft \/ ValidateBatchDpo \/ EndValidation
     \/ CountBatch \/ SaveCheckpoint \/ EndStep

Next == Work \/ Crash

\* One thread that waits for each remote call: it is never stuck.
Spec == Init /\ [][Next]_vars /\ WF_vars(Work)

-----------------------------------------------------------------------------
(***************************************************************************)
(* Properties                                                              *)
(***************************************************************************)

Version == Nat \cup {NoVersion}
Metric  == Nat \cup {NoVersion, EmptyMetric}
Checkpoint ==
  [epoch : 0..MaxEpochs - 1, step : 0..LoaderLen - 1, total : 1..MaxSteps,
   consumed : Nat, pos : 1..LoaderLen, ver : Nat,
   valVer : Nat \cup {EmptyMetric}]

\* Every variable has its type; the epoch and the step stay within the bounds
\* the configuration sets.
TypeOK ==
  /\ algo \in {"sft", "dpo"}
  /\ pc \in {"down", "reference", "restore", "start", "valStart", "epoch", "batch",
             "train", "validate", "count", "save", "endStep", "done"}
  /\ epoch \in 0..MaxEpochs /\ step \in 0..LoaderLen /\ total \in 0..MaxSteps
  /\ consumed \in Nat /\ pos \in 0..LoaderLen
  /\ polVer \in Nat /\ refVer \in Version /\ batchRef \in Version
  /\ valVer \in Metric /\ valSeen \in 0..ValCount
  /\ ckpts \subseteq Checkpoint
  /\ crashes \in 0..MaxCrashes

\* Wherever a run resumes, also at an epoch boundary, the epoch, the loader's
\* place in it, the total and the weights agree: no batch of an epoch is
\* trained on twice or skipped in the history of the current weights.
EveryBatchOnce ==
  pc \in {"epoch", "batch"} =>
    /\ total = Batches(epoch) + pos
    /\ consumed = total /\ polVer = total
    /\ step % LoaderLen = pos % LoaderLen

\* However often a run is relaunched, finished or not, it never trains beyond
\* the steps and the epochs it was asked for.
NeverBeyondTarget == polVer <= Target

\* A run that ends has a checkpoint of its last step, with a metric measured
\* on exactly those weights, or none if no validation batch had a valid sample.
FinalCheckpointSaved ==
  pc = "done" =>
    \E c \in ckpts :
      c.total = Target /\ c.ver = Target /\ c.valVer \in {Target, EmptyMetric}

\* The preference loss always compares with the weights training started
\* from, also after a relaunch, although the reference is copied from the
\* policy that is trained.
ReferenceIsBase == pc = "train" /\ algo = "dpo" => batchRef = BaseVersion

\* With finitely many crashes the run ends and stays ended.
Terminates == <>[](pc = "done")

-----------------------------------------------------------------------------
(***************************************************************************)
(* The inductive invariant behind the safety properties.                   *)
(***************************************************************************)

\* The counters agree in every phase; inside a step the loader is one ahead.
Building == {"reference", "restore"}
Between  == {"start", "valStart", "epoch", "batch"}
InStep   == {"train", "validate", "count", "save", "endStep"}

Lockstep ==
  /\ pc \in Building \cup Between =>
       /\ total = Batches(epoch) + pos /\ consumed = total
       /\ step = pos \/ (step = 0 /\ pos = LoaderLen)
  /\ pc \in Between => polVer = total
  /\ pc \in InStep =>
       /\ total + 1 = Batches(epoch) + pos /\ step + 1 = pos
       /\ consumed = IF pc \in {"save", "endStep"} THEN total + 1 ELSE total
       /\ polVer = IF pc = "train" THEN total ELSE total + 1
  /\ pc \in Building => \A c \in ResumePoints : c.total = total
  /\ pc \in Between /\ epoch = MaxEpochs => pos = 0
  /\ pc \in {"batch"} \cup InStep => epoch < MaxEpochs /\ total < MaxSteps
  /\ pc = "train" => valVer = NoVersion
  /\ pc \in {"validate", "count", "save"} => valVer \in {polVer, NoVersion, EmptyMetric}

\* The reference is copied before the checkpoint is loaded.
References ==
  /\ pc = "reference" => polVer = BaseVersion
  /\ algo = "dpo" /\ pc \notin {"down", "reference"} => refVer = BaseVersion
  /\ algo = "dpo" /\ pc \in InStep => batchRef = BaseVersion

\* The four counters of a checkpoint agree with its weights and metric.
CheckpointAgrees(c) ==
  /\ c.total = Batches(c.epoch) + c.pos
  /\ c.consumed = c.total /\ c.ver = c.total /\ c.valVer \in {c.total, EmptyMetric}
  /\ c.step = IF c.pos = LoaderLen THEN 0 ELSE c.pos

\* No checkpoint is ahead of the run that resumed from the latest one.
NoneAhead ==
  \A c \in ckpts :
    /\ pc \in Building \cup Between \cup {"train", "validate", "count", "save"}
         => c.total <= total
    /\ pc = "endStep" => c.total <= total + 1

FinalSaved == \E c \in ckpts : c.total = Target
LastStepSaved ==
  /\ pc \in Building \cup Between /\ total = Target => FinalSaved
  /\ pc = "endStep" /\ total + 1 = Target => FinalSaved
  /\ pc = "done" => FinalSaved

Inv ==
  /\ TypeOK
  /\ Lockstep
  /\ References
  /\ \A c \in ckpts : CheckpointAgrees(c)
  /\ NoneAhead
  /\ LastStepSaved
  /\ NeverBeyondTarget

=============================================================================
