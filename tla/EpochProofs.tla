----------------------------- MODULE EpochProofs -----------------------------
(***************************************************************************)
(* Safety of the SFT and DPO drivers for every number of epochs and steps, *)
(* every loader length, period and number of crashes: the inductive        *)
(* invariant Inv of EpochTrain and the properties that follow from it.     *)
(* Products are kept behind Batches: the steps below use only the three    *)
(* facts BatchesFacts states.                                              *)
(***************************************************************************)
EXTENDS EpochTrain, TLAPS

USE EpochAssumption
DEF vars, counters, weights, metric, NoVersion, EmptyMetric, BaseVersion, Version,
    Metric, Building, Between, InStep

\* Batches counts whole epochs.
LEMMA BatchesFacts ==
  /\ Batches(0) = 0
  /\ \A e \in Nat : Batches(e) \in Nat /\ Batches(e + 1) = Batches(e) + LoaderLen
  /\ \A e, f \in Nat : e < f => Batches(e) + LoaderLen <= Batches(f)
<1>1. Batches(0) = 0
  BY DEF Batches
<1>2. ASSUME NEW e \in Nat
      PROVE  Batches(e) \in Nat /\ Batches(e + 1) = Batches(e) + LoaderLen
  BY DEF Batches
<1>3. ASSUME NEW e \in Nat, NEW f \in Nat, e < f
      PROVE  Batches(e) + LoaderLen <= Batches(f)
  <2>1. PICK d \in Nat : f = (e + 1) + d
    <3>1. f - (e + 1) \in Nat /\ f = (e + 1) + (f - (e + 1))
      BY <1>3
    <3> QED BY <3>1
  <2>2. Batches(f) = Batches(e + 1) + d * LoaderLen
    BY <2>1 DEF Batches
  <2>3. d * LoaderLen \in Nat
    OBVIOUS
  <2>4. Batches(e + 1) = Batches(e) + LoaderLen /\ Batches(e) \in Nat
    BY <1>2
  <2> QED BY <2>2, <2>3, <2>4
<1> QED BY <1>1, <1>2, <1>3

\* The place in the epoch after a batch, as the save state records it.
LEMMA PlaceInEpoch ==
  ASSUME NEW n \in 0..LoaderLen
  PROVE  n % LoaderLen = IF n = LoaderLen THEN 0 ELSE n
OBVIOUS

\* The target is reached by one of the two bounds, and exceeds neither.
LEMMA TargetFacts ==
  /\ Target \in Nat \ {0}
  /\ Target <= MaxSteps /\ Target <= Batches(MaxEpochs)
  /\ Target = MaxSteps \/ Target = Batches(MaxEpochs)
<1>1. Batches(0) = 0 /\ Batches(MaxEpochs) \in Nat
  BY BatchesFacts
<1>2. Batches(0) + LoaderLen <= Batches(MaxEpochs)
  BY BatchesFacts
<1> QED BY <1>1, <1>2 DEF Target, Lesser

-----------------------------------------------------------------------------
\* The untouched driver satisfies the invariant.
LEMMA InvInit == Init => Inv
BY TargetFacts, BatchesFacts
DEF Init, Inv, TypeOK, Lockstep, References, NoneAhead, LastStepSaved, FinalSaved,
    NeverBeyondTarget, ValCount, Lesser

\* Validation sees a number of batches.
LEMMA ValCountFacts == ValCount \in Nat
BY DEF ValCount, Lesser

\* Whatever a run resumes from is within the bounds, and its counters agree.
LEMMA ResumePointFacts ==
  ASSUME Inv, NEW c \in ResumePoints
  PROVE  /\ c.epoch \in 0..MaxEpochs - 1 /\ c.pos \in 0..LoaderLen
         /\ c.total \in 0..MaxSteps /\ c.total = Batches(c.epoch) + c.pos
         /\ c.consumed = c.total /\ c.ver = c.total
         /\ c.step = c.pos \/ (c.step = 0 /\ c.pos = LoaderLen)
         /\ c.step \in 0..LoaderLen
         /\ \A d \in ckpts : d.total <= c.total
         /\ c.total = Target => FinalSaved
         /\ c.total <= Target
<1>1. CASE ckpts = {}
  <2>1. c = DefaultSaveState
    BY <1>1 DEF ResumePoints
  <2> QED BY <1>1, <2>1, BatchesFacts, TargetFacts DEF DefaultSaveState
<1>2. CASE ckpts # {}
  <2>1. c \in ckpts /\ IsLatest(c)
    BY <1>2 DEF ResumePoints
  <2>2. c \in Checkpoint /\ CheckpointAgrees(c)
    BY <2>1 DEF Inv, TypeOK
  <2>3. /\ c.epoch \in 0..MaxEpochs - 1 /\ c.pos \in 1..LoaderLen
        /\ c.total \in 1..MaxSteps /\ c.step \in 0..LoaderLen - 1
    BY <2>2 DEF Checkpoint
  <2>4. c.total <= Target
    <3>0. c.epoch \in Nat /\ c.epoch < MaxEpochs /\ MaxEpochs \in Nat
      BY <2>3
    <3>1. Batches(c.epoch) + LoaderLen <= Batches(MaxEpochs) /\ Batches(c.epoch) \in Nat
      BY <3>0, BatchesFacts
    <3>2. Batches(MaxEpochs) \in Nat /\ c.total = Batches(c.epoch) + c.pos
      BY <2>2, BatchesFacts DEF CheckpointAgrees
    <3> QED BY <2>3, <3>1, <3>2, TargetFacts
  <2> QED BY <2>1, <2>2, <2>3, <2>4 DEF CheckpointAgrees, IsLatest, FinalSaved
<1> QED BY <1>1, <1>2

\* All points a run may resume from are equally far.
LEMMA ResumeAlike ==
  ASSUME Inv, NEW c \in ResumePoints, NEW d \in ResumePoints
  PROVE  d.total = c.total
<1>1. CASE ckpts = {}
  BY <1>1 DEF ResumePoints
<1>2. CASE ckpts # {}
  <2>1. c \in ckpts /\ d \in ckpts /\ c.total <= d.total /\ d.total <= c.total
    BY <1>2 DEF ResumePoints, IsLatest
  <2>2. c.total \in Nat /\ d.total \in Nat
    BY ResumePointFacts
  <2> QED BY <2>1, <2>2
<1> QED BY <1>1, <1>2

\* Inside a step the target is not passed yet, and the step that reaches it is
\* recognised as the last.
LEMMA InStepFacts ==
  ASSUME Inv, pc \in InStep
  PROVE  /\ epoch \in 0..MaxEpochs - 1 /\ pos \in 1..LoaderLen
         /\ total \in 0..MaxSteps - 1 /\ step \in 0..LoaderLen - 1
         /\ total + 1 = Batches(epoch) + pos /\ step + 1 = pos
         /\ total + 1 <= Target
         /\ total + 1 = Target => IsLastStep
<1>1. /\ epoch \in 0..MaxEpochs - 1 /\ pos \in 1..LoaderLen
      /\ total \in 0..MaxSteps - 1 /\ step \in 0..LoaderLen - 1
      /\ total + 1 = Batches(epoch) + pos /\ step + 1 = pos
  BY DEF Inv, TypeOK, Lockstep
<1>2. epoch \in Nat /\ MaxEpochs \in Nat /\ epoch < MaxEpochs
  BY <1>1
<1>3. /\ Batches(epoch) \in Nat /\ Batches(MaxEpochs) \in Nat
      /\ Batches(epoch + 1) = Batches(epoch) + LoaderLen
  BY <1>2, BatchesFacts
<1>4. Batches(epoch) + LoaderLen <= Batches(MaxEpochs)
  BY <1>2, BatchesFacts
<1>5. total + 1 <= Target
  BY <1>1, <1>3, <1>4, TargetFacts
<1>6. ASSUME total + 1 = Target PROVE IsLastStep
  <2>1. CASE Target = MaxSteps
    BY <1>1, <1>6, <2>1 DEF IsLastStep
  <2>2. CASE Target = Batches(MaxEpochs)
    <3>1. epoch + 1 = MaxEpochs
      <4>1. SUFFICES ASSUME epoch + 1 # MaxEpochs PROVE FALSE
        OBVIOUS
      <4>2. epoch + 1 \in Nat /\ epoch + 1 < MaxEpochs
        BY <1>2, <4>1
      <4>3. Batches(epoch + 1) + LoaderLen <= Batches(MaxEpochs)
        BY <1>2, <4>2, BatchesFacts
      <4> QED BY <1>1, <1>3, <1>6, <2>2, <4>3
    <3>2. pos = LoaderLen
      BY <1>1, <1>3, <1>6, <2>2, <3>1
    <3> QED BY <1>1, <3>1, <3>2 DEF IsLastStep
  <2> QED BY <2>1, <2>2, TargetFacts
<1> QED BY <1>1, <1>5, <1>6

\* Between two steps the target is not passed, and once the epochs are used up
\* it is reached.
LEMMA BetweenFacts ==
  ASSUME Inv, pc \in Between
  PROVE  /\ epoch \in Nat /\ pos \in 0..LoaderLen /\ total \in 0..MaxSteps
         /\ Batches(epoch) \in Nat /\ Batches(epoch + 1) = Batches(epoch) + LoaderLen
         /\ total <= Target
         /\ pc = "epoch" /\ ~MoreToDo => total = Target
<1>1. /\ epoch \in 0..MaxEpochs /\ pos \in 0..LoaderLen /\ total \in 0..MaxSteps
      /\ total = Batches(epoch) + pos /\ polVer = total /\ polVer <= Target
      /\ pc = "epoch" /\ epoch = MaxEpochs => pos = 0
  BY DEF Inv, TypeOK, Lockstep, NeverBeyondTarget
<1>2. epoch \in Nat
  BY <1>1
<1>3. Batches(epoch) \in Nat /\ Batches(epoch + 1) = Batches(epoch) + LoaderLen
  BY <1>2, BatchesFacts
<1>4. ASSUME pc = "epoch", ~MoreToDo PROVE total = Target
  BY <1>1, <1>3, <1>4, TargetFacts DEF MoreToDo
<1> QED BY <1>1, <1>2, <1>3, <1>4

-----------------------------------------------------------------------------
\* Each action preserves the invariant, conjunct by conjunct.

\* Both setups read the newest checkpoint and build the base model.
LEMMA SetupInv == Inv /\ (SetupSft \/ SetupDpo) /\ UNCHANGED algo => Inv'
<1> SUFFICES ASSUME Inv, SetupSft \/ SetupDpo, UNCHANGED algo PROVE Inv'
  OBVIOUS
<1>1. PICK c \in ResumePoints :
        /\ epoch' = c.epoch /\ step' = c.step /\ total' = c.total
        /\ consumed' = c.consumed /\ pos' = c.pos
  BY DEF SetupSft, SetupDpo, ReadSaveState
<1>2. /\ polVer' = 0 /\ refVer' = -1 /\ batchRef' = -1 /\ valVer' = -1 /\ valSeen' = 0
      /\ pc' \in {"reference", "restore"} /\ (algo = "dpo" => pc' = "reference")
      /\ ckpts' = ckpts /\ crashes' = crashes /\ algo' = algo
  BY DEF SetupSft, SetupDpo
<1>4. /\ c.epoch \in 0..MaxEpochs - 1 /\ c.pos \in 0..LoaderLen
      /\ c.total \in 0..MaxSteps /\ c.total = Batches(c.epoch) + c.pos
      /\ c.consumed = c.total
      /\ c.step = c.pos \/ (c.step = 0 /\ c.pos = LoaderLen)
      /\ c.step \in 0..LoaderLen
      /\ \A d \in ckpts : d.total <= c.total
      /\ c.total = Target => FinalSaved
  BY ResumePointFacts
<1>5. TypeOK'
  BY <1>1, <1>2, <1>4, ValCountFacts DEF Inv, TypeOK
<1>6. Lockstep'
  <2>1. (\A d \in ResumePoints : d.total = total)'
    BY <1>1, <1>2, ResumeAlike DEF ResumePoints, IsLatest
  <2> QED BY <1>1, <1>2, <1>4, <2>1 DEF Lockstep
<1>7. (\A d \in ckpts : CheckpointAgrees(d))'
  BY <1>2 DEF Inv, CheckpointAgrees
<1>8. References' /\ NoneAhead' /\ LastStepSaved' /\ NeverBeyondTarget'
  BY <1>1, <1>2, <1>4, TargetFacts
  DEF References, NoneAhead, LastStepSaved, FinalSaved, NeverBeyondTarget
<1> QED BY <1>5, <1>6, <1>7, <1>8 DEF Inv

\* The policy the reference is copied from is the base model.
LEMMA CopyReferenceInv == Inv /\ CopyReference /\ UNCHANGED algo => Inv'
<1> SUFFICES ASSUME Inv, CopyReference, UNCHANGED algo PROVE Inv'
  OBVIOUS
<1> USE DEF CopyReference
<1>1. TypeOK'
  BY DEF Inv, TypeOK
<1>2. Lockstep'
  BY DEF Inv, Lockstep, ResumePoints, IsLatest
<1>3. (\A c \in ckpts : CheckpointAgrees(c))'
  BY DEF Inv, CheckpointAgrees
<1>4. References' /\ NoneAhead' /\ LastStepSaved' /\ NeverBeyondTarget'
  BY DEF Inv, References, NoneAhead, LastStepSaved, FinalSaved, NeverBeyondTarget
<1> QED BY <1>1, <1>2, <1>3, <1>4 DEF Inv

\* The weights loaded are those the save state counts.
LEMMA LoadCheckpointInv == Inv /\ LoadCheckpoint /\ UNCHANGED algo => Inv'
<1> SUFFICES ASSUME Inv, LoadCheckpoint, UNCHANGED algo PROVE Inv'
  OBVIOUS
<1> USE DEF LoadCheckpoint
<1>1. PICK c \in ResumePoints : polVer' = c.ver
  OBVIOUS
<1>2. /\ c.ver = c.total /\ c.total = total /\ total \in 0..MaxSteps
      /\ c.total <= Target
  BY ResumePointFacts DEF Inv, TypeOK, Lockstep
<1>3. /\ c.epoch \in 0..MaxEpochs - 1 /\ c.pos \in 0..LoaderLen
      /\ total = Batches(c.epoch) + c.pos
  BY <1>2, ResumePointFacts
<1>4. epoch = MaxEpochs => pos = 0
  <2> SUFFICES ASSUME epoch = MaxEpochs PROVE pos = 0
    OBVIOUS
  <2>1. total = Batches(MaxEpochs) + pos /\ pos \in 0..LoaderLen
    BY DEF Inv, TypeOK, Lockstep
  <2>2. c.epoch \in Nat /\ MaxEpochs \in Nat /\ c.epoch < MaxEpochs
    BY <1>3
  <2>3. Batches(c.epoch) + LoaderLen <= Batches(MaxEpochs) /\ Batches(c.epoch) \in Nat
        /\ Batches(MaxEpochs) \in Nat
    BY <2>2, BatchesFacts
  <2> QED BY <1>3, <2>1, <2>3
<1>5. TypeOK'
  BY <1>1, <1>2 DEF Inv, TypeOK
<1>6. Lockstep'
  BY <1>1, <1>2, <1>4 DEF Inv, Lockstep
<1>7. (\A d \in ckpts : CheckpointAgrees(d))'
  BY DEF Inv, CheckpointAgrees
<1>8. References' /\ NoneAhead' /\ LastStepSaved' /\ NeverBeyondTarget'
  BY <1>1, <1>2 DEF Inv, References, NoneAhead, LastStepSaved, FinalSaved, NeverBeyondTarget
<1> QED BY <1>5, <1>6, <1>7, <1>8 DEF Inv

LEMMA BeginInv == Inv /\ Begin /\ UNCHANGED algo => Inv'
<1> SUFFICES ASSUME Inv, Begin, UNCHANGED algo PROVE Inv'
  OBVIOUS
<1> USE DEF Begin, StartValidation
<1>1. TypeOK'
  BY ValCountFacts DEF Inv, TypeOK
<1>2. Lockstep'
  BY DEF Inv, Lockstep
<1>3. (\A c \in ckpts : CheckpointAgrees(c))'
  BY DEF Inv, CheckpointAgrees
<1>4. References' /\ NoneAhead' /\ LastStepSaved' /\ NeverBeyondTarget'
  BY DEF Inv, References, NoneAhead, LastStepSaved, FinalSaved, NeverBeyondTarget
<1> QED BY <1>1, <1>2, <1>3, <1>4 DEF Inv

LEMMA StartEpochInv == Inv /\ StartEpoch /\ UNCHANGED algo => Inv'
<1> SUFFICES ASSUME Inv, StartEpoch, UNCHANGED algo PROVE Inv'
  OBVIOUS
<1>1. TypeOK'
  BY DEF StartEpoch, Inv, TypeOK
<1>2. Lockstep'
  BY DEF StartEpoch, MoreToDo, Inv, TypeOK, Lockstep
<1>3. (\A c \in ckpts : CheckpointAgrees(c))'
  BY DEF StartEpoch, Inv, CheckpointAgrees
<1>4. References' /\ NoneAhead'
  BY DEF StartEpoch, Inv, References, NoneAhead
<1>5. LastStepSaved'
  BY BetweenFacts DEF StartEpoch, Inv, LastStepSaved, FinalSaved
<1>6. NeverBeyondTarget'
  BY DEF StartEpoch, Inv, NeverBeyondTarget
<1> QED BY <1>1, <1>2, <1>3, <1>4, <1>5, <1>6 DEF Inv

LEMMA FetchBatchInv == Inv /\ FetchBatch /\ UNCHANGED algo => Inv'
<1> SUFFICES ASSUME Inv, FetchBatch, UNCHANGED algo PROVE Inv'
  OBVIOUS
<1>1. TypeOK'
  BY DEF FetchBatch, ScoreWithReference, Inv, TypeOK
<1>2. Lockstep'
  BY BetweenFacts DEF FetchBatch, Inv, TypeOK, Lockstep
<1>3. (\A c \in ckpts : CheckpointAgrees(c))'
  BY DEF FetchBatch, Inv, CheckpointAgrees
<1>4. References' /\ NoneAhead' /\ LastStepSaved' /\ NeverBeyondTarget'
  BY DEF FetchBatch, ScoreWithReference, Inv, References, NoneAhead, LastStepSaved,
         NeverBeyondTarget
<1> QED BY <1>1, <1>2, <1>3, <1>4 DEF Inv

LEMMA EndEpochInv == Inv /\ EndEpoch /\ UNCHANGED algo => Inv'
<1> SUFFICES ASSUME Inv, EndEpoch, UNCHANGED algo PROVE Inv'
  OBVIOUS
<1>1. TypeOK'
  BY DEF EndEpoch, ResetStep, Inv, TypeOK, Lockstep
<1>2. Lockstep'
  BY BetweenFacts DEF EndEpoch, ResetStep, Inv, Lockstep
<1>3. (\A c \in ckpts : CheckpointAgrees(c))'
  BY DEF EndEpoch, Inv, CheckpointAgrees
<1>4. References' /\ NoneAhead' /\ LastStepSaved' /\ NeverBeyondTarget'
  BY DEF EndEpoch, Inv, References, NoneAhead, LastStepSaved, FinalSaved, NeverBeyondTarget
<1> QED BY <1>1, <1>2, <1>3, <1>4 DEF Inv

LEMMA TrainStepInv == Inv /\ TrainStep /\ UNCHANGED algo => Inv'
<1> SUFFICES ASSUME Inv, TrainStep, UNCHANGED algo PROVE Inv'
  OBVIOUS
<1> USE DEF TrainStep, StartValidation
<1>1. polVer \in Nat /\ total \in Nat /\ polVer = total /\ polVer' = total + 1
      /\ consumed = total /\ total' = total
  BY DEF Inv, TypeOK, Lockstep
<1>2. TypeOK'
  BY <1>1, ValCountFacts DEF Inv, TypeOK
<1>3. Lockstep'
  <2>1. valVer' \in {valVer, EmptyMetric} /\ pc' \in {"validate", "count"}
    OBVIOUS
  <2>2. valVer = NoVersion
    BY DEF Inv, Lockstep
  <2> QED BY <1>1, <2>1, <2>2, InStepFacts DEF Inv, Lockstep
<1>4. (\A c \in ckpts : CheckpointAgrees(c))'
  BY DEF Inv, CheckpointAgrees
<1>5. References' /\ NoneAhead' /\ LastStepSaved'
  BY DEF Inv, References, NoneAhead, LastStepSaved
<1>6. NeverBeyondTarget'
  BY <1>1, InStepFacts DEF NeverBeyondTarget
<1> QED BY <1>2, <1>3, <1>4, <1>5, <1>6 DEF Inv

\* Validation changes the metric only, to one of the weights just trained.
LEMMA ValidateInv ==
  Inv /\ (ValidateBatchSft \/ ValidateBatchDpo \/ EndValidation) /\ UNCHANGED algo => Inv'
<1> SUFFICES ASSUME Inv, UNCHANGED algo,
                    ValidateBatchSft \/ ValidateBatchDpo \/ EndValidation
             PROVE  Inv'
  OBVIOUS
<1>1. /\ UNCHANGED <<counters, pos, weights, ckpts, crashes>>
      /\ valVer' \in {valVer, polVer} /\ batchRef' \in {batchRef, refVer}
      /\ pc \in {"valStart", "validate"}
      /\ pc' = pc \/ pc' = IF pc = "valStart" THEN "epoch" ELSE "count"
  BY DEF ValidateBatchSft, ValidateBatchDpo, EndValidation, AddToMetric, ScoreWithReference
<1>2. valSeen' \in 0..ValCount
  BY ValCountFacts DEF ValidateBatchSft, ValidateBatchDpo, EndValidation, Inv, TypeOK
<1>3. TypeOK'
  BY <1>1, <1>2 DEF Inv, TypeOK
<1>4. Lockstep'
  BY <1>1 DEF Inv, Lockstep
<1>5. (\A c \in ckpts : CheckpointAgrees(c))'
  BY <1>1 DEF Inv, CheckpointAgrees
<1>6. References' /\ NoneAhead' /\ LastStepSaved' /\ NeverBeyondTarget'
  BY <1>1 DEF Inv, References, NoneAhead, LastStepSaved, FinalSaved, NeverBeyondTarget
<1> QED BY <1>3, <1>4, <1>5, <1>6 DEF Inv

\* The step that reaches the target is due for a save: none is forgotten.
LEMMA CountBatchInv == Inv /\ CountBatch /\ UNCHANGED algo => Inv'
<1> SUFFICES ASSUME Inv, CountBatch, UNCHANGED algo PROVE Inv'
  OBVIOUS
<1>1. /\ total \in Nat /\ consumed = total /\ consumed' = total + 1 /\ total' = total
      /\ UNCHANGED <<algo, epoch, step, pos, weights, batchRef, metric, ckpts, crashes>>
      /\ pc = "count" /\ pc' \in {"save", "endStep"}
  BY DEF CountBatch, Inv, TypeOK, Lockstep
<1>2. TypeOK'
  BY <1>1 DEF Inv, TypeOK
<1>3. Lockstep'
  BY <1>1 DEF Inv, Lockstep
<1>4. (\A c \in ckpts : CheckpointAgrees(c))'
  BY <1>1 DEF Inv, CheckpointAgrees
<1>5. NoneAhead'
  <2>1. ASSUME NEW c \in ckpts PROVE c.total <= total /\ c.total <= total + 1
    <3>1. c.total <= total /\ c.total \in Nat
      BY <1>1 DEF Inv, NoneAhead, TypeOK, Checkpoint
    <3> QED BY <1>1, <3>1
  <2> QED BY <1>1, <2>1 DEF NoneAhead
<1>6. References' /\ NeverBeyondTarget'
  BY <1>1 DEF Inv, References, NeverBeyondTarget
<1>7. LastStepSaved'
  BY InStepFacts DEF CountBatch, SaveDue, LastStepSaved
<1> QED BY <1>2, <1>3, <1>4, <1>5, <1>6, <1>7 DEF Inv

\* What is saved is the latest checkpoint, and consistent.
LEMMA SaveCheckpointInv == Inv /\ SaveCheckpoint /\ UNCHANGED algo => Inv'
<1> SUFFICES ASSUME Inv, SaveCheckpoint, UNCHANGED algo PROVE Inv'
  OBVIOUS
<1>1. PICK kept \in SUBSET ckpts : ckpts' = kept \cup {CheckpointNow}
  BY DEF SaveCheckpoint
<1>2. /\ epoch \in 0..MaxEpochs - 1 /\ pos \in 1..LoaderLen
      /\ total \in 0..MaxSteps - 1 /\ step \in 0..LoaderLen - 1
      /\ total + 1 = Batches(epoch) + pos /\ step + 1 = pos
  BY InStepFacts DEF SaveCheckpoint
<1>3. /\ consumed = total + 1 /\ polVer = total + 1 /\ consumed \in Nat
      /\ valVer \in {total + 1, EmptyMetric} /\ polVer \in Nat
  BY DEF SaveCheckpoint, Inv, TypeOK, Lockstep
<1>4. (step + 1) % LoaderLen = IF pos = LoaderLen THEN 0 ELSE pos
  BY <1>2, PlaceInEpoch
<1>5. /\ CheckpointNow.epoch = epoch /\ CheckpointNow.pos = pos
      /\ CheckpointNow.step = (step + 1) % LoaderLen
      /\ CheckpointNow.total = total + 1 /\ CheckpointNow.consumed = consumed
      /\ CheckpointNow.ver = polVer /\ CheckpointNow.valVer = valVer
  BY DEF CheckpointNow
<1>6. CheckpointNow \in Checkpoint
  <2>1. (step + 1) % LoaderLen \in 0..LoaderLen - 1 /\ total + 1 \in 1..MaxSteps
    BY <1>2, <1>4
  <2> QED BY <1>2, <1>3, <2>1 DEF CheckpointNow, Checkpoint
<1>7. CheckpointAgrees(CheckpointNow)
  BY <1>2, <1>3, <1>4, <1>5 DEF CheckpointAgrees
<1>8. TypeOK'
  BY <1>1, <1>6 DEF SaveCheckpoint, Inv, TypeOK
<1>9. Lockstep'
  BY DEF SaveCheckpoint, Inv, Lockstep
<1>10. (\A c \in ckpts : CheckpointAgrees(c))'
  BY <1>1, <1>7 DEF Inv, CheckpointAgrees
<1>11. NoneAhead'
  <2>1. ASSUME NEW c \in ckpts PROVE c.total <= total /\ c.total \in Nat
    BY <2>1 DEF SaveCheckpoint, Inv, NoneAhead, TypeOK, Checkpoint
  <2>2. ASSUME NEW c \in ckpts PROVE c.total <= total + 1
    BY <1>2, <2>1
  <2>3. CheckpointNow.total <= total + 1
    BY <1>2, <1>5
  <2> QED BY <1>1, <2>2, <2>3 DEF SaveCheckpoint, NoneAhead
<1>12. LastStepSaved'
  BY <1>1, <1>5 DEF SaveCheckpoint, LastStepSaved, FinalSaved
<1>13. References' /\ NeverBeyondTarget'
  BY DEF SaveCheckpoint, Inv, References, NeverBeyondTarget
<1> QED BY <1>8, <1>9, <1>10, <1>11, <1>12, <1>13 DEF Inv

LEMMA EndStepInv == Inv /\ EndStep /\ UNCHANGED algo => Inv'
<1> SUFFICES ASSUME Inv, EndStep, UNCHANGED algo PROVE Inv'
  OBVIOUS
<1>1. /\ epoch \in 0..MaxEpochs - 1 /\ pos \in 1..LoaderLen
      /\ total \in 0..MaxSteps - 1 /\ step \in 0..LoaderLen - 1
      /\ total + 1 = Batches(epoch) + pos /\ step + 1 = pos
      /\ total + 1 <= Target
  BY InStepFacts DEF EndStep
<1>2. TypeOK'
  BY <1>1 DEF EndStep, Inv, TypeOK
<1>3. Lockstep'
  BY <1>1 DEF EndStep, Inv, TypeOK, Lockstep
<1>4. (\A c \in ckpts : CheckpointAgrees(c))'
  BY DEF EndStep, Inv, CheckpointAgrees
<1>5. NoneAhead'
  BY DEF EndStep, Inv, NoneAhead
<1>6. LastStepSaved'
  BY <1>1, TargetFacts DEF EndStep, Inv, LastStepSaved, FinalSaved
<1>7. References' /\ NeverBeyondTarget'
  BY DEF EndStep, Inv, References, NeverBeyondTarget
<1> QED BY <1>2, <1>3, <1>4, <1>5, <1>6, <1>7 DEF Inv

LEMMA CrashInv == Inv /\ Crash => Inv'
BY DEF Crash, Inv, TypeOK, Lockstep, References, CheckpointAgrees, NoneAhead, LastStepSaved,
       FinalSaved, NeverBeyondTarget

LEMMA InvNext == Inv /\ [Next]_vars => Inv'
<1> SUFFICES ASSUME Inv, [Next]_vars PROVE Inv'
  OBVIOUS
<1>1. CASE Work
  BY <1>1, SetupInv, CopyReferenceInv, LoadCheckpointInv, BeginInv, StartEpochInv,
     FetchBatchInv, EndEpochInv, TrainStepInv, ValidateInv, CountBatchInv,
     SaveCheckpointInv, EndStepInv DEF Work
<1>2. CASE Crash
  BY <1>2, CrashInv
<1>3. CASE UNCHANGED vars
  BY <1>3 DEF Inv, TypeOK, Lockstep, References, ResumePoints, IsLatest,
              CheckpointAgrees, NoneAhead, LastStepSaved,
              FinalSaved, NeverBeyondTarget
<1> QED BY <1>1, <1>2, <1>3 DEF Next

-----------------------------------------------------------------------------
\* The driver always satisfies its invariant.
THEOREM InvAlways == Spec => []Inv
BY InvInit, InvNext, PTL DEF Spec

\* Types, for every configuration and any number of crashes.
THEOREM TypeCorrect == Spec => []TypeOK
<1>1. Inv => TypeOK
  BY DEF Inv
<1> QED BY <1>1, InvAlways, PTL

\* Wherever a run resumes, epoch, loader, total and weights agree: no batch of
\* an epoch is trained on twice or skipped (sft.py:461-463).
THEOREM BatchesOnce == Spec => []EveryBatchOnce
<1>1. Inv => EveryBatchOnce
  <2> SUFFICES ASSUME Inv, pc \in {"epoch", "batch"} PROVE step % LoaderLen = pos % LoaderLen
    BY DEF EveryBatchOnce, Inv, Lockstep
  <2>1. /\ step = pos \/ (step = 0 /\ pos = LoaderLen)
        /\ step \in 0..LoaderLen /\ pos \in 0..LoaderLen
    BY DEF Inv, Lockstep, TypeOK
  <2> QED BY <2>1, PlaceInEpoch
<1> QED BY <1>1, InvAlways, PTL

\* No relaunch trains beyond the steps and the epochs asked for.
THEOREM WithinTarget == Spec => []NeverBeyondTarget
<1>1. Inv => NeverBeyondTarget
  BY DEF Inv
<1> QED BY <1>1, InvAlways, PTL

\* A run that ends has saved its last step, with a metric of those weights or
\* an empty one.
THEOREM EndsSaved == Spec => []FinalCheckpointSaved
<1>1. Inv => FinalCheckpointSaved
  BY DEF Inv, LastStepSaved, FinalSaved, FinalCheckpointSaved, CheckpointAgrees
<1> QED BY <1>1, InvAlways, PTL

\* The preference loss compares with the weights training started from: the
\* reference is copied after the policy is built and before it is restored.
THEOREM ReferenceKept == Spec => []ReferenceIsBase
<1>1. Inv => ReferenceIsBase
  BY DEF Inv, References, ReferenceIsBase
<1> QED BY <1>1, InvAlways, PTL
=============================================================================
