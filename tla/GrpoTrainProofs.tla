--------------------------- MODULE GrpoTrainProofs ---------------------------
(***************************************************************************)
(* Safety of the GRPO driver for every step limit, epoch length, period    *)
(* and number of crashes: the inductive invariant Inv of GrpoTrain, and    *)
(* the properties that follow from it.                                     *)
(***************************************************************************)
EXTENDS GrpoTrain, TLAPS

\* Every step needs the assumption on the constants and the phases of a step.
USE GrpoAssumption
    DEF vars, driver, policy, placed, engine, data, BaseVersion, NeedRefit, Backend,
        Colocated, EngineMayRefuse, Pcs, Building, RefitPcs, GenPcs,
        Generating, BeforeBatch, InBatch, AfterUpdate, Counted, Parked,
        Along, MoveToDevice, ManualMove, MoveBuffers

\* The marker of an absent version, and every count, is a version.
LEMMA VersionFacts == NoVersion \in Version /\ NoVersion \notin Nat /\ Count \subseteq Version
BY DEF NoVersion, Version, Count

-----------------------------------------------------------------------------
\* The untouched driver satisfies the invariant.
LEMMA InvInit == Init => Inv
<1> SUFFICES ASSUME Init PROVE Inv
  OBVIOUS
<1>1. TypeOK
  <2>1. config \in Configs /\ pc \in Pcs /\ ret \in GenPcs /\ stale \in BOOLEAN
    BY DEF Init
  <2>2. /\ step \in Count /\ consumed \in Count /\ loader \in Count
        /\ polVer \in Count /\ refVer \in Version
    BY VersionFacts DEF Init, Count
  <2>3. /\ polModel \in {"cpu", "gpu"} /\ polGrads \in {"none", "cpu", "gpu"}
        /\ polOptim \in {"cpu", "gpu"} /\ held \in BOOLEAN
        /\ genWeights \in {"asleep", "awake"} /\ genKV \in {"asleep", "awake"}
    BY DEF Init
  <2>4. /\ genVer \in Version /\ genCache \subseteq Version
        /\ batchVer \in Version /\ lpVer \in Version /\ refLpVer \in Version
        /\ valVer \in Version
    BY VersionFacts DEF Init
  <2>5. ckpts \subseteq Checkpoint /\ crashes \in 0..MaxCrashes
    BY DEF Init
  <2> QED BY <2>1, <2>2, <2>3, <2>4, <2>5 DEF TypeOK
<1>2. Lockstep
  BY DEF Init, Lockstep
<1>3. Versions
  BY DEF Init, Versions
<1>8. References
  BY DEF Init, References
<1>4. Residency
  BY DEF Init, Residency
<1>7. StaleResident
  BY DEF Init, StaleResident
<1>5. CacheEmpty
  BY DEF Init, CacheEmpty
<1>6. CheckpointConsistent
  BY DEF Init, CheckpointConsistent
<1> QED BY <1>1, <1>2, <1>3, <1>4, <1>5, <1>6, <1>7, <1>8 DEF Inv

\* Whatever a driver resumes from, its four counters agree.
LEMMA ResumePointType ==
  ASSUME Inv, NEW c \in ResumePoints
  PROVE  /\ c.step \in Count /\ c.ver = c.step
         /\ c.loader = c.step /\ c.consumed = c.step
<1>1. CASE ckpts = {}
  BY <1>1 DEF ResumePoints, DefaultSaveState, Count
<1>2. CASE ckpts # {}
  <2>1. c \in ckpts
    BY <1>2 DEF ResumePoints
  <2>2. c \in Checkpoint
    BY <2>1 DEF Inv, TypeOK
  <2>3. c.step \in Count
    BY <2>2 DEF Checkpoint
  <2> QED BY <2>1, <2>3 DEF Inv, CheckpointConsistent
<1> QED BY <1>1, <1>2

-----------------------------------------------------------------------------
\* Each action preserves the invariant.  Where the provers need it, a lemma
\* proves the conjuncts one by one.

LEMMA SetupInv == Inv /\ UNCHANGED config /\ Setup => Inv'
<1> SUFFICES ASSUME Inv, UNCHANGED config, Setup PROVE Inv'
  OBVIOUS
<1> USE DEF Setup, EngineAsleep
<1>1. TypeOK'
  BY VersionFacts, ResumePointType, ZenonT(60) DEF Inv, TypeOK, Lockstep, Count
<1>2. Lockstep'
  <2>1. ResumePoints' = ResumePoints
    BY DEF Setup, ResumePoints, IsLatest
  <2>2. PICK c \in ResumePoints :
          step' = c.step /\ consumed' = c.consumed /\ loader' = c.loader
    BY DEF Setup
  <2>3. \A d \in ResumePoints : d.step = c.step
    BY ResumePointType, <2>2 DEF ResumePoints, IsLatest, Count
  <2> QED BY <2>1, <2>2, <2>3, ResumePointType DEF Setup, Lockstep
<1>3. Versions'
  BY VersionFacts, ResumePointType DEF Inv, TypeOK, Lockstep, Versions
<1>8. References'
  BY VersionFacts, ResumePointType DEF Inv, TypeOK, Lockstep, Versions, References
<1>4. Residency'
  BY VersionFacts, ResumePointType DEF Inv, TypeOK, Lockstep, Versions, Residency
<1>7. StaleResident'
  BY VersionFacts, ResumePointType DEF Inv, TypeOK, Lockstep, Versions, StaleResident
<1>5. CacheEmpty'
  BY VersionFacts, ResumePointType DEF Inv, CacheEmpty
<1>6. CheckpointConsistent'
  BY VersionFacts, ResumePointType DEF Inv, CheckpointConsistent
<1> QED BY <1>1, <1>2, <1>3, <1>4, <1>5, <1>6, <1>7, <1>8 DEF Inv

\* Building the policy, where each worker class loads in its own order.
LEMMA BuildPolicyInv == Inv /\ UNCHANGED config /\ BuildPolicy => Inv'
<1> SUFFICES ASSUME Inv, UNCHANGED config, BuildPolicy PROVE Inv'
  OBVIOUS
<1> USE DEF BuildPolicy, BuildDTensor, BuildFsdp1, BuildMegatron, SetupMegatronModel, LoadCheckpoint,
    RestoredOptimizer
<1>0. \A c \in ResumePoints : c.ver = step /\ c.ver \in Count
  BY ResumePointType DEF Inv, Lockstep
<1>r. ResumePoints' = ResumePoints
  BY DEF ResumePoints, IsLatest
<1>z. 0 \in Count
  BY DEF Count
<1>1. TypeOK'
  BY VersionFacts, <1>0, <1>z DEF Inv, TypeOK
<1>2. Lockstep'
  BY VersionFacts, <1>r DEF Inv, TypeOK, Lockstep
<1>3. Versions'
  BY DEF Inv, Versions, StaleResident
<1>8. References'
  BY <1>0 DEF Inv, References
<1>4. Residency'
  BY DEF Inv, Residency
<1>7. StaleResident'
  BY DEF Inv, StaleResident
<1>5. CacheEmpty'
  BY DEF Inv, CacheEmpty
<1>6. CheckpointConsistent'
  BY DEF Inv, CheckpointConsistent
<1> QED BY <1>1, <1>2, <1>3, <1>4, <1>5, <1>6, <1>7, <1>8 DEF Inv

LEMMA BuildReferenceInv == Inv /\ UNCHANGED config /\ BuildReference => Inv'
<1> SUFFICES ASSUME Inv, UNCHANGED config, BuildReference PROVE Inv'
  OBVIOUS
<1> USE DEF BuildReference, ReferenceDTensor, ReferenceFsdp1, ReferenceMegatron
<1>r. ResumePoints' = ResumePoints
  BY DEF ResumePoints, IsLatest
<1>z. 0 \in Version
  BY DEF Version
<1>1. TypeOK'
  BY VersionFacts, <1>z DEF Inv, TypeOK
<1>2. Lockstep'
  BY VersionFacts, <1>r DEF Inv, TypeOK, Lockstep
<1>3. Versions'
  BY DEF Inv, Versions
<1>8. References'
  BY DEF Inv, References
<1>4. Residency'
  BY DEF Inv, Residency
<1>7. StaleResident'
  BY DEF Inv, StaleResident
<1>5. CacheEmpty'
  BY DEF Inv, CacheEmpty
<1>6. CheckpointConsistent'
  BY DEF Inv, CheckpointConsistent
<1> QED BY <1>1, <1>2, <1>3, <1>4, <1>5, <1>6, <1>7, <1>8 DEF Inv

LEMMA RestorePolicyInv == Inv /\ UNCHANGED config /\ RestorePolicy => Inv'
<1> SUFFICES ASSUME Inv, UNCHANGED config, RestorePolicy PROVE Inv'
  OBVIOUS
<1> USE DEF RestorePolicy, LoadCheckpoint, RestoredOptimizer
<1>0. \A c \in ResumePoints : c.ver = step /\ c.ver \in Count
  BY ResumePointType DEF Inv, Lockstep
<1>p. polVer' = step
  BY <1>0 DEF Inv, References
<1>1. TypeOK'
  BY VersionFacts, <1>0 DEF Inv, TypeOK
<1>2. Lockstep'
  BY VersionFacts, <1>p DEF Inv, TypeOK, Lockstep
<1>3. Versions'
  BY DEF Inv, Versions, StaleResident
<1>8. References'
  BY DEF Inv, References
<1>4. Residency'
  BY DEF Inv, Residency, StaleResident
<1>7. StaleResident'
  BY DEF Inv, StaleResident
<1>5. CacheEmpty'
  BY DEF Inv, CacheEmpty
<1>6. CheckpointConsistent'
  BY DEF Inv, CheckpointConsistent
<1> QED BY <1>1, <1>2, <1>3, <1>4, <1>5, <1>6, <1>7, <1>8 DEF Inv

LEMMA BeginInv == Inv /\ UNCHANGED config /\ Begin => Inv'
BY VersionFacts
DEF Begin, EnterGeneration, EngineWake, Inv, TypeOK, Lockstep, Versions, References,
    Residency, StaleResident, CacheEmpty, CheckpointConsistent

LEMMA FetchBatchInv == Inv /\ UNCHANGED config /\ FetchBatch => Inv'
<1> SUFFICES ASSUME Inv, UNCHANGED config, FetchBatch PROVE Inv'
  OBVIOUS
<1> USE DEF FetchBatch, EnterGeneration, EngineWake, BatchLeft
<1>1. TypeOK'
  BY VersionFacts DEF Inv, TypeOK, Lockstep, Count
<1>2. Lockstep'
  BY VersionFacts DEF Inv, TypeOK, Lockstep, Count
<1>3. Versions'
  BY VersionFacts DEF Inv, TypeOK, Lockstep, Versions
<1>8. References'
  BY VersionFacts DEF Inv, TypeOK, Lockstep, Versions, References
<1>4. Residency'
  BY VersionFacts DEF Inv, TypeOK, Lockstep, Versions, Residency
<1>7. StaleResident'
  BY VersionFacts DEF Inv, TypeOK, Lockstep, Versions, StaleResident
<1>5. CacheEmpty'
  BY VersionFacts DEF Inv, CacheEmpty
<1>6. CheckpointConsistent'
  BY VersionFacts DEF Inv, CheckpointConsistent
<1> QED BY <1>1, <1>2, <1>3, <1>4, <1>5, <1>6, <1>7, <1>8 DEF Inv

LEMMA LoaderExhaustedInv == Inv /\ UNCHANGED config /\ LoaderExhausted => Inv'
BY VersionFacts
DEF LoaderExhausted, BatchLeft, Inv, TypeOK, Lockstep, Versions, References,
    Residency, StaleResident, CacheEmpty, CheckpointConsistent

LEMMA OffloadBeforeRefitInv == Inv /\ UNCHANGED config /\ OffloadBeforeRefit => Inv'
BY VersionFacts
DEF OffloadBeforeRefit, OffloadOptimizer, OffloadDTensor, OffloadFsdp1,
    OffloadMegatron, Inv, TypeOK, Lockstep, Versions, References, Residency,
    StaleResident, CacheEmpty, CheckpointConsistent

LEMMA WakeWeightsInv == Inv /\ UNCHANGED config /\ WakeWeights => Inv'
BY VersionFacts
DEF WakeWeights, EngineWake, Inv, TypeOK, Lockstep, Versions, References, Residency,
    StaleResident, CacheEmpty, CheckpointConsistent

LEMMA TransferWeightsInv == Inv /\ UNCHANGED config /\ TransferWeights => Inv'
BY VersionFacts
DEF TransferWeights, LoadForExport, ExportDTensor, ExportFsdp1, ExportMegatron, Inv,
    TypeOK, Lockstep, Versions, References, Residency, StaleResident, CacheEmpty,
    CheckpointConsistent

LEMMA OffloadAfterRefitInv == Inv /\ UNCHANGED config /\ OffloadAfterRefit => Inv'
<1> SUFFICES ASSUME Inv, UNCHANGED config, OffloadAfterRefit PROVE Inv'
  OBVIOUS
<1> USE DEF OffloadAfterRefit, Park, ParkDTensor, ParkFsdp1, ParkMegatron
<1>1. TypeOK'
  BY VersionFacts DEF Inv, TypeOK, Lockstep, Count
<1>2. Lockstep'
  BY VersionFacts DEF Inv, TypeOK, Lockstep, Count
<1>3. Versions'
  BY VersionFacts DEF Inv, TypeOK, Lockstep, Versions
<1>8. References'
  BY VersionFacts DEF Inv, TypeOK, Lockstep, Versions, References
<1>4. Residency'
  BY VersionFacts DEF Inv, TypeOK, Lockstep, Versions, Residency
<1>7. StaleResident'
  BY VersionFacts DEF Inv, TypeOK, Lockstep, Versions, StaleResident
<1>5. CacheEmpty'
  BY VersionFacts DEF Inv, CacheEmpty
<1>6. CheckpointConsistent'
  BY VersionFacts DEF Inv, CheckpointConsistent
<1> QED BY <1>1, <1>2, <1>3, <1>4, <1>5, <1>6, <1>7, <1>8 DEF Inv

LEMMA WakeKVInv == Inv /\ UNCHANGED config /\ WakeKV => Inv'
<1> SUFFICES ASSUME Inv, UNCHANGED config, WakeKV PROVE Inv'
  OBVIOUS
<1> USE DEF WakeKV, EngineWake, Refitted
<1>1. TypeOK'
  BY VersionFacts DEF Inv, TypeOK, Lockstep, Count
<1>2. Lockstep'
  BY VersionFacts DEF Inv, TypeOK, Lockstep, Count
<1>3. Versions'
  BY VersionFacts DEF Inv, TypeOK, Lockstep, Versions
<1>8. References'
  BY VersionFacts DEF Inv, TypeOK, Lockstep, Versions, References
<1>4. Residency'
  BY VersionFacts DEF Inv, TypeOK, Lockstep, Versions, Residency
<1>7. StaleResident'
  BY VersionFacts DEF Inv, TypeOK, Lockstep, Versions, StaleResident
<1>5. CacheEmpty'
  BY VersionFacts DEF Inv, CacheEmpty
<1>6. CheckpointConsistent'
  BY VersionFacts DEF Inv, CheckpointConsistent
<1> QED BY <1>1, <1>2, <1>3, <1>4, <1>5, <1>6, <1>7, <1>8 DEF Inv

LEMMA BroadcastWeightsInv == Inv /\ UNCHANGED config /\ BroadcastWeights => Inv'
<1> SUFFICES ASSUME Inv, UNCHANGED config, BroadcastWeights PROVE Inv'
  OBVIOUS
<1> USE DEF BroadcastWeights, Refitted
<1>1. TypeOK'
  BY VersionFacts DEF Inv, TypeOK, Lockstep, Count
<1>2. Lockstep'
  BY VersionFacts DEF Inv, TypeOK, Lockstep, Count
<1>3. Versions'
  BY VersionFacts DEF Inv, TypeOK, Lockstep, Versions
<1>8. References'
  BY VersionFacts DEF Inv, TypeOK, Lockstep, Versions, References
<1>4. Residency'
  BY VersionFacts DEF Inv, TypeOK, Lockstep, Versions, Residency
<1>7. StaleResident'
  BY VersionFacts DEF Inv, TypeOK, Lockstep, Versions, StaleResident
<1>5. CacheEmpty'
  BY VersionFacts DEF Inv, CacheEmpty
<1>6. CheckpointConsistent'
  BY VersionFacts DEF Inv, CheckpointConsistent
<1> QED BY <1>1, <1>2, <1>3, <1>4, <1>5, <1>6, <1>7, <1>8 DEF Inv

LEMMA RolloutInv == Inv /\ UNCHANGED config /\ Rollout => Inv'
BY VersionFacts
DEF Rollout, FillCache, GenVersion, Inv, TypeOK, Lockstep, Versions, References,
    Residency, StaleResident, CacheEmpty, CheckpointConsistent

LEMMA ValidateInv == Inv /\ UNCHANGED config /\ Validate => Inv'
BY VersionFacts
DEF Validate, FillCache, GenVersion, Inv, TypeOK, Lockstep, Versions, References,
    Residency, StaleResident, CacheEmpty, CheckpointConsistent

LEMMA FinishGenerationInv == Inv /\ UNCHANGED config /\ FinishGeneration => Inv'
<1> SUFFICES ASSUME Inv, UNCHANGED config, FinishGeneration PROVE Inv'
  OBVIOUS
<1> USE DEF FinishGeneration, AfterGeneration, ResetCache, EngineSleep, EngineReset,
    EngineAsleep
<1>1. TypeOK'
  BY VersionFacts DEF Inv, TypeOK, Lockstep, Count
<1>2. Lockstep'
  BY VersionFacts DEF Inv, TypeOK, Lockstep, Count
<1>3. Versions'
  BY VersionFacts DEF Inv, TypeOK, Lockstep, Versions
<1>8. References'
  BY VersionFacts DEF Inv, TypeOK, Lockstep, Versions, References
<1>4. Residency'
  BY VersionFacts DEF Inv, TypeOK, Lockstep, Versions, Residency
<1>7. StaleResident'
  BY VersionFacts DEF Inv, TypeOK, Lockstep, Versions, StaleResident
<1>5. CacheEmpty'
  BY VersionFacts DEF Inv, CacheEmpty
<1>6. CheckpointConsistent'
  BY VersionFacts DEF Inv, CheckpointConsistent
<1> QED BY <1>1, <1>2, <1>3, <1>4, <1>5, <1>6, <1>7, <1>8 DEF Inv

LEMMA FinishRefusedInv == Inv /\ UNCHANGED config /\ FinishRefused => Inv'
BY VersionFacts
DEF FinishRefused, AfterGeneration, Inv, TypeOK, Lockstep, Versions, References,
    Residency, StaleResident, CacheEmpty, CheckpointConsistent

LEMMA LogprobsInv == Inv /\ UNCHANGED config /\ Logprobs => Inv'
BY VersionFacts
DEF Logprobs, PrepareForLpInference, LpDTensor, LpFsdp1, LpMegatron, Inv, TypeOK,
    Lockstep, Versions, References, Residency, StaleResident, CacheEmpty,
    CheckpointConsistent

LEMMA PrepareForTrainingInv == Inv /\ UNCHANGED config /\ PrepareForTraining => Inv'
BY VersionFacts
DEF PrepareForTraining, MarkStale, LoadForTraining, LoadDTensor, LoadFsdp1,
    LoadMegatron, Inv, TypeOK, Lockstep, Versions, References, Residency,
    StaleResident, CacheEmpty, CheckpointConsistent

LEMMA TrainInv == Inv /\ UNCHANGED config /\ Train => Inv'
BY VersionFacts
DEF Train, Inv, TypeOK, Lockstep, Versions, References, Residency, StaleResident,
    CacheEmpty, CheckpointConsistent

LEMMA DecideValidationInv == Inv /\ UNCHANGED config /\ DecideValidation => Inv'
BY VersionFacts
DEF DecideValidation, EnterGeneration, EngineWake, Inv, TypeOK, Lockstep, Versions,
    References, Residency, StaleResident, CacheEmpty, CheckpointConsistent

LEMMA DecideCheckpointInv == Inv /\ UNCHANGED config /\ DecideCheckpoint => Inv'
BY VersionFacts
DEF DecideCheckpoint, LoadForTraining, LoadDTensor, LoadFsdp1, LoadMegatron, Inv,
    TypeOK, Lockstep, Versions, References, Residency, StaleResident, CacheEmpty,
    CheckpointConsistent

LEMMA SaveCheckpointInv == Inv /\ UNCHANGED config /\ SaveCheckpoint => Inv'
<1> SUFFICES ASSUME Inv, UNCHANGED config, SaveCheckpoint PROVE Inv'
  OBVIOUS
<1> USE DEF SaveCheckpoint, Park, ParkDTensor, ParkFsdp1, ParkMegatron
<1>0. CheckpointNow \in Checkpoint /\ CheckpointNow.ver = CheckpointNow.step
      /\ CheckpointNow.loader = CheckpointNow.step
      /\ CheckpointNow.consumed = CheckpointNow.step
      /\ CheckpointNow.valVer = CheckpointNow.ver
  <2>1. /\ loader = step + 1 /\ polVer = step + 1 /\ consumed = step + 1
        /\ loader \in Count /\ valVer \in Version
    BY DEF SaveCheckpoint, Inv, TypeOK, Lockstep
  <2>2. valVer = polVer
    BY DEF SaveCheckpoint, Inv, Versions
  <2> QED BY <2>1, <2>2 DEF CheckpointNow, Checkpoint
<1>c. ckpts' \subseteq ckpts \cup {CheckpointNow}
  BY DEF SaveCheckpoint
<1>1. TypeOK'
  BY VersionFacts, <1>0, <1>c DEF Inv, TypeOK, Lockstep, Count
<1>2. Lockstep'
  BY VersionFacts DEF Inv, TypeOK, Lockstep, Count
<1>3. Versions'
  BY VersionFacts DEF Inv, TypeOK, Lockstep, Versions
<1>8. References'
  BY VersionFacts DEF Inv, TypeOK, Lockstep, Versions, References
<1>4. Residency'
  BY VersionFacts DEF Inv, TypeOK, Lockstep, Versions, Residency
<1>7. StaleResident'
  BY VersionFacts DEF Inv, TypeOK, Lockstep, Versions, StaleResident
<1>5. CacheEmpty'
  BY VersionFacts DEF Inv, CacheEmpty
<1>6. CheckpointConsistent'
  BY VersionFacts, <1>0, <1>c DEF Inv, CheckpointConsistent
<1> QED BY <1>1, <1>2, <1>3, <1>4, <1>5, <1>6, <1>7, <1>8 DEF Inv

LEMMA EndStepInv == Inv /\ UNCHANGED config /\ EndStep => Inv'
BY VersionFacts
DEF EndStep, Finished, Inv, TypeOK, Lockstep, Versions, References, Residency,
    StaleResident, CacheEmpty, CheckpointConsistent

LEMMA CrashInv == Inv /\ Crash => Inv'
BY VersionFacts
DEF Crash, Inv, TypeOK, Lockstep, Versions, References, Residency, StaleResident,
    CacheEmpty, CheckpointConsistent

-----------------------------------------------------------------------------
\* No step of the driver, and no crash, leaves the invariant.
LEMMA InvNext == Inv /\ [Next]_vars => Inv'
<1> SUFFICES ASSUME Inv, [Next]_vars PROVE Inv'
  OBVIOUS
<1>1. CASE UNCHANGED vars
  BY <1>1 DEF ResumePoints, IsLatest, Inv, TypeOK, Lockstep, Versions, References,
      Residency, StaleResident, CacheEmpty, CheckpointConsistent
<1>2. CASE Work
  BY <1>2, SetupInv, BuildPolicyInv, BuildReferenceInv, RestorePolicyInv, BeginInv,
      FetchBatchInv, LoaderExhaustedInv, OffloadBeforeRefitInv, WakeWeightsInv,
      TransferWeightsInv, OffloadAfterRefitInv, WakeKVInv, BroadcastWeightsInv,
      RolloutInv, ValidateInv, FinishGenerationInv, FinishRefusedInv, LogprobsInv,
      PrepareForTrainingInv, TrainInv, DecideValidationInv, DecideCheckpointInv,
      SaveCheckpointInv,
      EndStepInv DEF Work
<1>3. CASE Crash
  BY <1>3, CrashInv
<1> QED BY <1>1, <1>2, <1>3 DEF Next

\* The driver's inductive invariant holds in every reachable state.
THEOREM InvAlways == Spec => []Inv
BY InvInit, InvNext, PTL DEF Spec

\* Every variable keeps its type; in particular no batch past the epoch is taken.
THEOREM TypeCorrect == Spec => []TypeOK
<1>1. Inv => TypeOK
  BY DEF Inv
<1> QED BY <1>1, InvAlways, PTL

\* policy.train always sees a batch its own weights generated and scored, for
\* both backends, colocated or not, even when the engine refuses to sleep.
THEOREM TrainsOnPolicy == Spec => []OnPolicyTraining
<1>1. Inv => OnPolicyTraining
  <2> SUFFICES ASSUME Inv, pc = "train" PROVE /\ batchVer = polVer /\ lpVer = polVer
                                              /\ refLpVer = BaseVersion
    BY DEF OnPolicyTraining
  <2>1. InBatch
    BY DEF Inv, Lockstep
  <2> QED BY <2>1 DEF Inv, Versions, References
<1> QED BY <1>1, InvAlways, PTL

\* A checkpoint's weights, loader, sample count and metric belong to one step.
THEOREM CheckpointsConsistent == Spec => []CheckpointConsistent
<1>1. Inv => CheckpointConsistent
  BY DEF Inv
<1> QED BY <1>1, InvAlways, PTL

\* An engine that never refuses to sleep never shares the GPU with the
\* policy's weights or optimizer.
THEOREM MemoryExclusive == Spec => []ExclusiveMemory
<1>1. Inv => ExclusiveMemory
  BY DEF Inv, TypeOK, Residency, ExclusiveMemory
<1> QED BY <1>1, InvAlways, PTL

\* With an engine that never refuses to sleep, no token is sampled against
\* blocks that other weights computed.
THEOREM CacheFresh == Spec => []FreshUnlessRefused
<1>1. Inv => FreshUnlessRefused
  BY DEF Inv, CacheEmpty, FreshUnlessRefused, PrefixCacheFresh
<1> QED BY <1>1, InvAlways, PTL

\* The Megatron worker never exports parameters that a checkpoint parked.
THEOREM ExportsOnGpu == Spec => []ExportsResident
<1>1. Inv => ExportsResident
  <2> SUFFICES ASSUME Inv, pc = "transfer" PROVE polModel = "gpu" \/ config.worker # "megatron"
    BY DEF ExportsResident
  <2> QED BY DEF Inv, Versions, StaleResident, Lockstep
<1> QED BY <1>1, InvAlways, PTL

-----------------------------------------------------------------------------
(***************************************************************************)
(* What a relaunch costs.  The steps since the newest checkpoint are at    *)
(* most the remainder of the step number by the save period: it grows by   *)
(* one with every step that saves nothing, and is never negative after one *)
(* that does.                                                              *)
(***************************************************************************)
LEMMA QuotientFacts ==
  ASSUME NEW n \in Nat, NEW p \in Nat \ {0}
  PROVE  n = p * (n \div p) + (n % p) /\ n \div p \in Int /\ n % p \in 0..(p - 1)
BY SMT

LEMMA RemainderUnique ==
  ASSUME NEW p \in Nat \ {0}, NEW q \in Int, NEW r \in Int,
         NEW k \in 0..(p - 1), NEW m \in 0..(p - 1), p * q + k = p * r + m
  PROVE  k = m
<1>1. p * (q - r) = m - k /\ p * (r - q) = k - m
  BY SMT
<1>2. CASE q = r
  BY <1>2, SMT
<1>3. CASE q > r
  <2>1. p * (q - r) >= p
    BY <1>3, SMT
  <2> QED BY <1>1, <2>1
<1>4. CASE q < r
  <2>1. p * (r - q) >= p
    BY <1>4, SMT
  <2> QED BY <1>1, <2>1
<1> QED BY <1>2, <1>3, <1>4

\* A step that is no multiple of the period moves the remainder up by one.
LEMMA RemainderGrows ==
  ASSUME NEW n \in Nat, NEW p \in Nat \ {0}, (n + 1) % p # 0
  PROVE  (n + 1) % p = (n % p) + 1
<1> DEFINE q == n \div p
           r == (n + 1) \div p
<1>1. n = p * q + (n % p) /\ q \in Int /\ n % p \in 0..(p - 1)
  BY QuotientFacts
<1>2. n + 1 \in Nat
  OBVIOUS
<1>3. n + 1 = p * r + ((n + 1) % p) /\ r \in Int /\ (n + 1) % p \in 0..(p - 1)
  BY <1>2, QuotientFacts
<1>4. ((n + 1) % p) - 1 \in 0..(p - 1)
  BY <1>3
<1>5. p * q + (n % p) = p * r + (((n + 1) % p) - 1)
  BY <1>1, <1>3
<1>6. q \in Int /\ r \in Int /\ n % p \in 0..(p - 1)
  BY <1>1, <1>3
<1> HIDE DEF q, r
<1>7. n % p = ((n + 1) % p) - 1
  <2> DEFINE k == n % p
             m == ((n + 1) % p) - 1
  <2>1. k \in 0..(p - 1) /\ m \in 0..(p - 1) /\ p * q + k = p * r + m
    BY <1>4, <1>5, <1>6
  <2> HIDE DEF k, m
  <2>2. k = m
    BY <1>6, <2>1, RemainderUnique, SMTT(30)
  <2> QED BY <2>2 DEF k, m
<1> QED BY <1>3, <1>6, <1>7

\* The steps that leave the checkpoints alone leave the resume points alone.
LEMMA SameResumePoints == ckpts' = ckpts => ResumePoints' = ResumePoints
BY DEF ResumePoints, IsLatest

LEMMA CostInit == Init => Newest /\ Overrun /\ FromRollout
BY DEF Init, Newest, Overrun, FromRollout, ResumePoints, DefaultSaveState

\* Reading a checkpoint: the driver starts where the newest one stopped.
LEMMA SetupCost == CostInv /\ UNCHANGED config /\ Setup => (Newest /\ Overrun)'
<1> SUFFICES ASSUME CostInv, UNCHANGED config, Setup PROVE (Newest /\ Overrun)'
  OBVIOUS
<1>1. ResumePoints' = ResumePoints /\ ckpts' = ckpts /\ polVer' = polVer
      /\ crashes' = crashes /\ pc' = "build" /\ pc = "down"
  BY SameResumePoints DEF Setup
<1>2. PICK c \in ResumePoints : step' = c.step
  BY DEF Setup
<1>3. \A d \in ckpts : d.step <= c.step
  BY <1>2 DEF ResumePoints, IsLatest
<1>4. Newest'
  BY <1>1, <1>2, <1>3 DEF CostInv, Newest
<1>5. Overrun'
  BY <1>1, <1>2 DEF CostInv, Overrun
<1> QED BY <1>4, <1>5

\* Building the policy leaves the step alone and loads weights that are at it.
LEMMA BuildingCost ==
  CostInv /\ UNCHANGED config /\ (BuildPolicy \/ BuildReference \/ RestorePolicy)
    => (Newest /\ Overrun)'
<1> SUFFICES ASSUME CostInv, UNCHANGED config,
                    BuildPolicy \/ BuildReference \/ RestorePolicy
             PROVE  (Newest /\ Overrun)'
  OBVIOUS
<1>1. /\ ResumePoints' = ResumePoints /\ ckpts' = ckpts /\ crashes' = crashes
      /\ step' = step /\ pc \in Building /\ pc' \in {"reference", "restore", "start"}
  BY SameResumePoints DEF BuildPolicy, BuildReference, RestorePolicy
<1>2. \A c \in ResumePoints : c.ver = step /\ c.step = step
  BY <1>1, ResumePointType DEF CostInv, Inv, Lockstep
<1>3. polVer' \in {0, step, polVer}
  BY <1>2 DEF BuildPolicy, BuildDTensor, BuildFsdp1, BuildMegatron, SetupMegatronModel,
     LoadCheckpoint, BuildReference, RestorePolicy
<1>4. step \in Count /\ polVer \in Count /\ crashes \in Nat
  BY DEF CostInv, Inv, TypeOK
<1>5. step % SavePeriod \in 0..(SavePeriod - 1)
  BY <1>4, QuotientFacts DEF Count
<1>6. Newest'
  BY <1>1, <1>2, <1>4, <1>5 DEF CostInv, Newest, Count
<1>7. Overrun'
  BY <1>1, <1>3, <1>4 DEF CostInv, Overrun, Count
<1> QED BY <1>6, <1>7

\* Inside a step nothing that the cost depends on moves, ...
LEMMA StillCost ==
  ASSUME CostInv, ckpts' = ckpts, crashes' = crashes, step' = step, polVer' = polVer,
         pc \notin Building \cup {"down", "endStep"},
         pc' \notin Building \cup {"down", "endStep"},
         pc = "done" => pc' = "done"
  PROVE  (Newest /\ Overrun)'
BY SameResumePoints DEF CostInv, Newest, Overrun

\* ... except that the update moves the weights.
LEMMA TrainCost == CostInv /\ UNCHANGED config /\ Train => (Newest /\ Overrun)'
<1> SUFFICES ASSUME CostInv, UNCHANGED config, Train PROVE (Newest /\ Overrun)'
  OBVIOUS
<1>1. /\ ResumePoints' = ResumePoints /\ ckpts' = ckpts /\ crashes' = crashes
      /\ step' = step /\ pc = "train" /\ pc' = "trained" /\ polVer' = polVer + 1
  BY SameResumePoints DEF Train
<1>2. polVer = step /\ step \in Nat /\ crashes \in Nat
  BY <1>1 DEF CostInv, Inv, TypeOK, Lockstep, Count
<1>3. Newest'
  BY <1>1 DEF CostInv, Newest
<1>4. Overrun'
  BY <1>1, <1>2 DEF CostInv, Overrun
<1> QED BY <1>3, <1>4

\* Counting the batch: without a save the step is no multiple of the period.
LEMMA DecideCheckpointCost ==
  CostInv /\ UNCHANGED config /\ DecideCheckpoint => (Newest /\ Overrun)'
<1> SUFFICES ASSUME CostInv, UNCHANGED config, DecideCheckpoint PROVE (Newest /\ Overrun)'
  OBVIOUS
<1>1. /\ ResumePoints' = ResumePoints /\ ckpts' = ckpts /\ crashes' = crashes
      /\ step' = step /\ polVer' = polVer /\ pc = "checkpoint"
      /\ pc' = IF SaveDue THEN "save" ELSE "endStep"
  BY SameResumePoints DEF DecideCheckpoint
<1>2. step \in Nat
  BY DEF CostInv, Inv, TypeOK, Count
<1>3. CASE SaveDue
  BY <1>1, <1>3, StillCost
<1>4. CASE ~SaveDue
  <2>1. (step + 1) % SavePeriod = (step % SavePeriod) + 1
    BY <1>2, <1>4, RemainderGrows DEF SaveDue
  <2>2. \A c \in ckpts : c.step \in Nat
    BY DEF CostInv, Inv, TypeOK, Checkpoint, Count
  <2>3. \A c \in ResumePoints : c.step \in Nat
    BY ResumePointType DEF CostInv, Count
  <2>4. step % SavePeriod \in 0..(SavePeriod - 1)
    BY <1>2, QuotientFacts
  <2>5. \A c \in ResumePoints' : (step' + 1) - c.step <= (step' + 1) % SavePeriod
    <3> SUFFICES ASSUME NEW c \in ResumePoints
                 PROVE  (step + 1) - c.step <= (step + 1) % SavePeriod
      BY <1>1
    <3>1. step - c.step <= step % SavePeriod
      BY <1>1 DEF CostInv, Newest
    <3> HIDE DEF ResumePoints
    <3> QED BY <1>2, <2>1, <2>3, <2>4, <3>1
  <2>6. Newest'
    BY <1>1, <1>2, <1>4, <2>2, <2>5 DEF CostInv, Newest
  <2>7. Overrun'
    BY <1>1, <1>4 DEF CostInv, Overrun
  <2> QED BY <2>6, <2>7
<1> QED BY <1>3, <1>4

\* The checkpoint just stored is the newest, and it is at the step that ends.
LEMMA SaveCheckpointCost ==
  CostInv /\ UNCHANGED config /\ SaveCheckpoint => (Newest /\ Overrun)'
<1> SUFFICES ASSUME CostInv, UNCHANGED config, SaveCheckpoint PROVE (Newest /\ Overrun)'
  OBVIOUS
<1>1. /\ crashes' = crashes /\ step' = step /\ polVer' = polVer
      /\ pc = "save" /\ pc' = "endStep"
  BY DEF SaveCheckpoint
<1>2. PICK kept \in SUBSET {c \in ckpts : c.step # step + 1} :
         ckpts' = kept \cup {CheckpointNow}
  BY DEF SaveCheckpoint
<1>3. CheckpointNow.step = step + 1
  BY DEF CheckpointNow
<1>4. step \in Nat /\ crashes \in Nat /\ \A c \in ckpts : c.step \in Nat
  BY DEF CostInv, Inv, TypeOK, Checkpoint, Count
<1>5. \A c \in ckpts : c.step <= step
  BY <1>1 DEF CostInv, Newest
<1>6. \A c \in ckpts' : c.step \in Nat /\ c.step <= step + 1
  BY <1>2, <1>3, <1>4, <1>5
<1>7. ckpts' # {} /\ CheckpointNow \in ckpts'
  BY <1>2
<1>8. \A d \in ckpts' : d.step <= CheckpointNow.step
  BY <1>3, <1>6
<1>9. CheckpointNow \in ResumePoints'
  BY <1>7, <1>8 DEF ResumePoints, IsLatest
<1>10. \A c \in ResumePoints' : c.step = step + 1
  BY <1>3, <1>4, <1>6, <1>7 DEF ResumePoints, IsLatest
<1>11. (step + 1) % SavePeriod \in 0..(SavePeriod - 1)
  BY <1>4, QuotientFacts
<1>12. Newest'
  BY <1>1, <1>4, <1>6, <1>9, <1>10, <1>11 DEF Newest
<1>13. Overrun'
  BY <1>1, <1>4, <1>6 DEF CostInv, Overrun
<1> QED BY <1>12, <1>13

LEMMA EndStepCost == CostInv /\ UNCHANGED config /\ EndStep => (Newest /\ Overrun)'
<1> SUFFICES ASSUME CostInv, UNCHANGED config, EndStep PROVE (Newest /\ Overrun)'
  OBVIOUS
<1>1. /\ ResumePoints' = ResumePoints /\ ckpts' = ckpts /\ crashes' = crashes
      /\ step' = step + 1 /\ polVer' = polVer /\ pc = "endStep"
      /\ pc' = IF Finished THEN "done" ELSE "batch"
  BY SameResumePoints DEF EndStep
<1>2. step \in Nat /\ crashes \in Nat
  BY DEF CostInv, Inv, TypeOK, Count
<1>3. Newest'
  BY <1>1 DEF CostInv, Newest
<1>4. Overrun'
  BY <1>1, <1>2 DEF CostInv, Overrun, Finished
<1> QED BY <1>3, <1>4

\* A crash makes room for one more step.
LEMMA CrashCost == CostInv /\ Crash => (Newest /\ Overrun)'
<1> SUFFICES ASSUME CostInv, Crash PROVE (Newest /\ Overrun)'
  OBVIOUS
<1>1. /\ ResumePoints' = ResumePoints /\ ckpts' = ckpts /\ crashes' = crashes + 1
      /\ step' = step /\ polVer' = polVer /\ pc' = "down"
  BY SameResumePoints DEF Crash
<1>2. crashes \in Nat /\ polVer \in Nat /\ \A c \in ckpts : c.step \in Nat
  BY DEF CostInv, Inv, TypeOK, Checkpoint, Count
<1>3. \A c \in ResumePoints : c.step <= MaxSteps + crashes
  BY <1>2 DEF CostInv, Overrun, ResumePoints, DefaultSaveState
<1>4. \A c \in ResumePoints : c.step \in Nat
  BY ResumePointType DEF CostInv, Count
<1>5. Newest'
  BY <1>1 DEF CostInv, Newest
<1>6. Overrun'
  BY <1>1, <1>2, <1>3, <1>4 DEF CostInv, Overrun
<1> QED BY <1>5, <1>6

\* The actions of the driver inside a step, all but the update and the save.
LEMMA WithinStep ==
  ASSUME CostInv, UNCHANGED config,
         \/ Begin \/ FetchBatch \/ LoaderExhausted
         \/ OffloadBeforeRefit \/ WakeWeights \/ TransferWeights \/ OffloadAfterRefit
         \/ WakeKV \/ BroadcastWeights
         \/ Rollout \/ Validate \/ FinishGeneration \/ FinishRefused
         \/ Logprobs \/ PrepareForTraining \/ DecideValidation
  PROVE  /\ ckpts' = ckpts /\ crashes' = crashes /\ step' = step /\ polVer' = polVer
         /\ pc \notin Building \cup {"down", "endStep", "done"}
         /\ pc' \notin Building \cup {"down", "endStep"}
<1>1. ret \in GenPcs
  BY DEF CostInv, Inv, TypeOK
<1>2. CASE Begin \/ FetchBatch \/ LoaderExhausted \/ DecideValidation
  BY <1>2 DEF Begin, FetchBatch, LoaderExhausted, DecideValidation, EnterGeneration
<1>3. CASE \/ OffloadBeforeRefit \/ WakeWeights \/ TransferWeights \/ OffloadAfterRefit
           \/ WakeKV \/ BroadcastWeights
  BY <1>1, <1>3 DEF OffloadBeforeRefit, WakeWeights, TransferWeights, OffloadAfterRefit,
     WakeKV, BroadcastWeights
<1>4. CASE \/ Rollout \/ Validate \/ FinishGeneration \/ FinishRefused
           \/ Logprobs \/ PrepareForTraining
  BY <1>4 DEF Rollout, Validate, FinishGeneration, FinishRefused, AfterGeneration,
     Logprobs, PrepareForTraining
<1> QED BY <1>2, <1>3, <1>4

LEMMA FromRolloutNext == CostInv /\ [Next]_vars => FromRollout'
<1> SUFFICES ASSUME CostInv, [Next]_vars PROVE FromRollout'
  OBVIOUS
<1>1. ret \in GenPcs
  BY DEF CostInv, Inv, TypeOK
<1>2. CASE \/ FinishGeneration \/ FinishRefused
  BY <1>2 DEF FinishGeneration, FinishRefused, AfterGeneration, FromRollout
<1>3. CASE \/ Logprobs \/ PrepareForTraining \/ Train \/ Rollout \/ Validate
           \/ DecideCheckpoint \/ SaveCheckpoint \/ EndStep
  BY <1>3 DEF CostInv, Logprobs, PrepareForTraining, Train, Rollout, Validate,
     DecideCheckpoint, SaveCheckpoint, EndStep, Finished, FromRollout
<1>4. CASE \/ Setup \/ BuildPolicy \/ BuildReference \/ RestorePolicy \/ Crash
           \/ UNCHANGED vars
  BY <1>4 DEF CostInv, Setup, BuildPolicy, BuildReference, RestorePolicy, Crash, FromRollout
<1>5. CASE \/ Begin \/ FetchBatch \/ LoaderExhausted \/ DecideValidation
           \/ OffloadBeforeRefit \/ WakeWeights \/ TransferWeights \/ OffloadAfterRefit
           \/ WakeKV \/ BroadcastWeights
  BY <1>1, <1>5 DEF Begin, FetchBatch, LoaderExhausted, DecideValidation, EnterGeneration,
     OffloadBeforeRefit, WakeWeights, TransferWeights, OffloadAfterRefit, WakeKV,
     BroadcastWeights, FromRollout
<1> QED BY <1>2, <1>3, <1>4, <1>5 DEF Next, Work

LEMMA CostNext == CostInv /\ [Next]_vars => CostInv'
<1> SUFFICES ASSUME CostInv, [Next]_vars PROVE (Newest /\ Overrun)'
  BY InvNext, FromRolloutNext DEF CostInv
<1>1. CASE UNCHANGED vars
  BY <1>1, SameResumePoints DEF CostInv, Newest, Overrun
<1>2. CASE Crash
  BY <1>2, CrashCost
<1>3. CASE Work
  <2>1. CASE Setup \/ BuildPolicy \/ BuildReference \/ RestorePolicy
    BY <1>3, <2>1, SetupCost, BuildingCost DEF Work
  <2>2. CASE Train \/ DecideCheckpoint \/ SaveCheckpoint \/ EndStep
    BY <1>3, <2>2, TrainCost, DecideCheckpointCost, SaveCheckpointCost, EndStepCost DEF Work
  <2>3. CASE \/ Begin \/ FetchBatch \/ LoaderExhausted
             \/ OffloadBeforeRefit \/ WakeWeights \/ TransferWeights \/ OffloadAfterRefit
             \/ WakeKV \/ BroadcastWeights
             \/ Rollout \/ Validate \/ FinishGeneration \/ FinishRefused
             \/ Logprobs \/ PrepareForTraining \/ DecideValidation
    BY <1>3, <2>3, WithinStep, StillCost DEF Work
  <2> QED BY <1>3, <2>1, <2>2, <2>3 DEF Work
<1> QED BY <1>1, <1>2, <1>3 DEF Next

LEMMA CostAlways == Spec => []CostInv
<1>1. Init => CostInv
  BY InvInit, CostInit DEF CostInv
<1> QED BY <1>1, CostNext, PTL DEF Spec

\* Whenever the process is lost, at most SavePeriod optimizer steps are lost
\* with it, and a relaunch trains at most one step past the limit: for every
\* limit, epoch length, period and number of relaunches.
THEOREM RelaunchIsCheap == Spec => []RelaunchCostBounded
<1>1. CostInv => LostWorkBounded
  <2> SUFFICES ASSUME CostInv, pc \notin Building \cup {"down"}, NEW c \in ResumePoints
               PROVE  polVer - c.ver <= SavePeriod
    BY DEF LostWorkBounded
  <2>1. c.step \in Nat /\ c.ver = c.step /\ step \in Nat
    BY ResumePointType DEF CostInv, Inv, TypeOK, Count
  <2>2. step + 1 \in Nat
    BY <2>1
  <2>3. step % SavePeriod \in 0..(SavePeriod - 1) /\ (step + 1) % SavePeriod \in 0..(SavePeriod - 1)
    BY <2>1, <2>2, QuotientFacts
  <2>4. pc = "endStep" => polVer = step + 1 /\ (step + 1) - c.step <= (step + 1) % SavePeriod
    BY DEF CostInv, Newest, Inv, Lockstep
  <2>5. pc # "endStep" => polVer \in {step, step + 1} /\ step - c.step <= step % SavePeriod
    BY DEF CostInv, Newest, Inv, Lockstep
  <2> HIDE DEF ResumePoints
  <2> QED BY <2>1, <2>3, <2>4, <2>5
<1>2. CostInv => ExtraStepsBounded
  BY DEF CostInv, Overrun, ExtraStepsBounded
<1>3. CostInv => RelaunchCostBounded
  BY <1>1, <1>2 DEF RelaunchCostBounded
<1> QED BY <1>3, CostAlways, PTL

-----------------------------------------------------------------------------
(***************************************************************************)
(* The driver implements the OnPolicy contract, step by step: a rollout is *)
(* Collect, the update is Update, a checkpoint is Save, a crash takes the  *)
(* weights back to those on disk (Restart), and the rest stutters.         *)
(***************************************************************************)

\* All checkpoints a driver may resume from hold the same weights.
LEMMA OneResumePoint ==
  ASSUME CostInv
  PROVE  \A c \in ResumePoints : c.ver = WeightsOnDisk
<1>1. ResumePoints # {}
  BY DEF CostInv, Newest, ResumePoints
<1>2. PICK l \in ResumePoints : WeightsOnDisk = l.ver
  BY <1>1 DEF WeightsOnDisk
<1>3. CASE ckpts = {}
  BY <1>2, <1>3 DEF ResumePoints
<1>4. CASE ckpts # {}
  <2> SUFFICES ASSUME NEW c \in ResumePoints PROVE c.ver = l.ver
    BY <1>2
  <2>1. c \in ckpts /\ l \in ckpts /\ c.step <= l.step /\ l.step <= c.step
    BY <1>4 DEF ResumePoints, IsLatest
  <2>2. c.step \in Nat /\ l.step \in Nat /\ c.ver = c.step /\ l.ver = l.step
    BY ResumePointType DEF CostInv, Count
  <2> QED BY <2>1, <2>2
<1> QED BY <1>3, <1>4

\* They are what the contract calls the newest version.
LEMMA NewestOnDisk ==
  ASSUME CostInv
  PROVE  Contract!NewestVersion = WeightsOnDisk
<1>1. PICK l \in ResumePoints : WeightsOnDisk = l.ver
  BY OneResumePoint DEF CostInv, Newest, ResumePoints
<1>2. CASE ckpts = {}
  <2>1. Stored = {} /\ l.ver = 0
    BY <1>1, <1>2 DEF Stored, ResumePoints, DefaultSaveState
  <2> QED BY <1>1, <2>1 DEF Contract!NewestVersion
<1>3. CASE ckpts # {}
  <2> DEFINE Dominates(r) == \A d \in Stored : d.version <= r.version
             top == [version |-> l.ver, measured |-> l.valVer]
  <2>1. l \in ckpts /\ \A d \in ckpts : d.step <= l.step
    BY <1>3 DEF ResumePoints, IsLatest
  <2>2. \A d \in ckpts : d.ver = d.step /\ d.step \in Nat
    BY DEF CostInv, Inv, TypeOK, Checkpoint, Count, CheckpointConsistent
  <2>3. \A r \in Stored : r.version \in Nat /\ r.version <= top.version
    BY <2>1, <2>2 DEF Stored
  <2>4. top \in Stored /\ Dominates(top)
    BY <2>1, <2>3 DEF Stored
  <2>5. PICK r \in Stored : Dominates(r) /\ Contract!NewestVersion = r.version
    <3> DEFINE r == CHOOSE c \in Stored : Dominates(c)
    <3>1. r \in Stored /\ Dominates(r)
      BY <2>4, Zenon
    <3>2. Contract!NewestVersion = r.version
      BY <2>4 DEF Contract!NewestVersion
    <3> QED BY <3>1, <3>2
  <2>6. top.version <= r.version /\ r.version <= top.version
    BY <2>3, <2>4, <2>5
  <2> QED BY <1>1, <2>3, <2>4, <2>5, <2>6
<1> QED BY <1>2, <1>3

LEMMA ContractInit == Init => Contract!Init
<1> SUFFICES ASSUME Init PROVE Contract!Init
  OBVIOUS
<1>1. pc = "down" /\ ckpts = {}
  BY DEF Init
<1>2. ResumePoints = {DefaultSaveState}
  BY <1>1 DEF ResumePoints
<1>3. WeightsNow = 0
  <2>1. WeightsOnDisk = DefaultSaveState.ver
    BY <1>2 DEF WeightsOnDisk
  <2> QED BY <1>1, <2>1 DEF WeightsNow, DefaultSaveState
<1>4. DataInHand = -1 /\ Stored = {}
  BY <1>1 DEF DataInHand, NoVersion, Stored
<1> QED BY <1>3, <1>4 DEF Contract!Init, Contract!NoData

\* The steps that leave the checkpoints and what the contract sees alone.
LEMMA SameOnDisk ==
  ckpts' = ckpts => WeightsOnDisk' = WeightsOnDisk /\ Stored' = Stored
BY SameResumePoints DEF WeightsOnDisk, Stored

\* Until the policy is restored the weights are those on disk.
LEMMA BuildingContract ==
  ASSUME CostInv, CostInv', UNCHANGED config,
         Setup \/ BuildPolicy \/ BuildReference \/ RestorePolicy
  PROVE  UNCHANGED Contract!abstractVars
<1>1. /\ ckpts' = ckpts
      /\ pc \in Building \cup {"down"} /\ pc' \in Building \cup {"start"}
      /\ pc' = "start" => pc = "restore" /\ step' = step
  BY DEF Setup, BuildPolicy, BuildReference, RestorePolicy
<1>2. DataInHand' = DataInHand
  BY <1>1 DEF DataInHand
<1>3. pc' = "start" => polVer' = WeightsOnDisk
  <2> SUFFICES ASSUME pc' = "start" PROVE polVer' = WeightsOnDisk
    OBVIOUS
  <2>1. polVer' = step' /\ step' = step /\ pc = "restore"
    BY <1>1 DEF CostInv, Inv, Lockstep
  <2>2. PICK c \in ResumePoints : c.ver = WeightsOnDisk
    BY OneResumePoint DEF CostInv, Newest, ResumePoints
  <2>3. c.ver = step
    BY <2>1, <2>2, ResumePointType DEF CostInv, Inv, Lockstep
  <2> QED BY <2>1, <2>2, <2>3
<1>4. WeightsNow' = WeightsNow
  BY <1>1, <1>3, SameOnDisk DEF WeightsNow
<1> QED BY <1>1, <1>2, <1>4, SameOnDisk DEF Contract!abstractVars

\* Only a rollout changes what the contract sees, of the actions within a step.
LEMMA RolloutContract == CostInv /\ Rollout => Contract!Collect
<1> SUFFICES ASSUME CostInv, Rollout PROVE Contract!Collect
  OBVIOUS
<1>1. /\ pc = "rollout" /\ pc' = "finish" /\ ret' = ret /\ ckpts' = ckpts
      /\ polVer' = polVer /\ batchVer' = GenVersion
  BY DEF Rollout
<1>2. ret = "rollout"
  BY <1>1 DEF CostInv, Inv, Lockstep
<1>3. GenVersion = polVer
  BY <1>1 DEF CostInv, Inv, Versions, GenVersion
<1>4. WeightsNow = polVer /\ WeightsNow' = polVer /\ DataInHand' = polVer
  BY <1>1, <1>2, <1>3 DEF WeightsNow, DataInHand
<1> QED BY <1>1, <1>4, SameOnDisk DEF Contract!Collect

\* The other actions within a step stutter.
LEMMA WithinStepContract ==
  ASSUME CostInv, UNCHANGED config,
         \/ Begin \/ FetchBatch \/ LoaderExhausted
         \/ OffloadBeforeRefit \/ WakeWeights \/ TransferWeights \/ OffloadAfterRefit
         \/ WakeKV \/ BroadcastWeights
         \/ Validate \/ FinishGeneration \/ FinishRefused
         \/ Logprobs \/ PrepareForTraining \/ DecideValidation
  PROVE  UNCHANGED Contract!abstractVars
<1>1. /\ ckpts' = ckpts /\ polVer' = polVer
      /\ pc \notin Building \cup {"down"} /\ pc' \notin Building \cup {"down"}
  BY WithinStep
<1>2. ret \in GenPcs /\ (pc \in GenPcs => pc = ret)
  BY DEF CostInv, Inv, TypeOK, Lockstep
<1>3. DataInHand' = DataInHand
  <2>1. CASE Begin \/ FetchBatch \/ LoaderExhausted \/ DecideValidation
    BY <1>2, <2>1 DEF Begin, FetchBatch, LoaderExhausted, DecideValidation,
       EnterGeneration, DataInHand
  <2>2. CASE \/ OffloadBeforeRefit \/ WakeWeights \/ TransferWeights \/ OffloadAfterRefit
             \/ WakeKV \/ BroadcastWeights
    BY <1>2, <2>2 DEF OffloadBeforeRefit, WakeWeights, TransferWeights, OffloadAfterRefit,
       WakeKV, BroadcastWeights, DataInHand
  <2>3. CASE Validate
    BY <1>2, <2>3 DEF Validate, DataInHand
  <2>4. CASE FinishGeneration \/ FinishRefused
    BY <1>2, <2>4 DEF FinishGeneration, FinishRefused, AfterGeneration, DataInHand
  <2>5. CASE Logprobs \/ PrepareForTraining
    BY <2>5 DEF Logprobs, PrepareForTraining, DataInHand
  <2> QED BY <2>1, <2>2, <2>3, <2>4, <2>5
<1>4. WeightsNow' = WeightsNow
  BY <1>1 DEF WeightsNow
<1> QED BY <1>1, <1>3, <1>4, SameOnDisk DEF Contract!abstractVars

LEMMA TrainContract == CostInv /\ Train => Contract!Update
<1> SUFFICES ASSUME CostInv, Train PROVE Contract!Update
  OBVIOUS
<1>1. /\ pc = "train" /\ pc' = "trained" /\ ckpts' = ckpts /\ polVer' = polVer + 1
  BY DEF Train
<1>2. ret = "rollout" /\ batchVer = polVer
  BY <1>1 DEF CostInv, FromRollout, Inv, Versions
<1>3. DataInHand = polVer /\ DataInHand' = -1
  BY <1>1, <1>2 DEF DataInHand, NoVersion
<1>4. WeightsNow = polVer /\ WeightsNow' = polVer + 1
  BY <1>1 DEF WeightsNow
<1> QED BY <1>1, <1>3, <1>4, SameOnDisk DEF Contract!Update, Contract!NoData

LEMMA SaveContract == CostInv /\ SaveCheckpoint => Contract!Save
<1> SUFFICES ASSUME CostInv, SaveCheckpoint PROVE Contract!Save
  OBVIOUS
<1>1. pc = "save" /\ pc' = "endStep" /\ polVer' = polVer
  BY DEF SaveCheckpoint
<1>2. PICK kept \in SUBSET {c \in ckpts : c.step # step + 1} :
         ckpts' = kept \cup {CheckpointNow}
  BY DEF SaveCheckpoint
<1>3. valVer = polVer
  BY DEF SaveCheckpoint, CostInv, Inv, Versions
<1>4. CheckpointNow.ver = polVer /\ CheckpointNow.valVer = polVer
  BY <1>3 DEF CheckpointNow
<1> DEFINE old == {[version |-> c.ver, measured |-> c.valVer] : c \in kept}
<1>5. old \in SUBSET Stored
  BY DEF Stored
<1>6. Stored' = old \cup {[version |-> polVer, measured |-> polVer]}
  BY <1>2, <1>4 DEF Stored
<1>7. WeightsNow = polVer /\ WeightsNow' = WeightsNow /\ DataInHand' = DataInHand
  BY <1>1 DEF WeightsNow, DataInHand
<1> QED BY <1>5, <1>6, <1>7 DEF Contract!Save

LEMMA CrashContract == CostInv /\ Crash => Contract!Restart
<1> SUFFICES ASSUME CostInv, Crash PROVE Contract!Restart
  OBVIOUS
<1>1. pc' = "down" /\ ckpts' = ckpts
  BY DEF Crash
<1>2. WeightsNow' = WeightsOnDisk /\ DataInHand' = -1
  BY <1>1, SameOnDisk DEF WeightsNow, DataInHand, NoVersion
<1> QED BY <1>1, <1>2, SameOnDisk, NewestOnDisk DEF Contract!Restart, Contract!NoData

\* Deciding on a checkpoint and ending the step move nothing it sees.
LEMMA BetweenContract ==
  DecideCheckpoint \/ EndStep \/ UNCHANGED vars => UNCHANGED Contract!abstractVars
<1>1. DecideCheckpoint \/ EndStep \/ UNCHANGED vars =>
        ckpts' = ckpts /\ WeightsNow' = WeightsNow /\ DataInHand' = DataInHand
  BY SameOnDisk DEF DecideCheckpoint, EndStep, Finished, WeightsNow, DataInHand
<1> QED BY <1>1, SameOnDisk DEF Contract!abstractVars

LEMMA ContractNext ==
  CostInv /\ CostInv' /\ [Next]_vars => [Contract!Next]_(Contract!abstractVars)
<1> SUFFICES ASSUME CostInv, CostInv', [Next]_vars
             PROVE  Contract!Next \/ UNCHANGED Contract!abstractVars
  OBVIOUS
<1>1. CASE UNCHANGED vars
  BY <1>1, BetweenContract
<1>2. CASE Crash
  BY <1>2, CrashContract DEF Contract!Next
<1>3. CASE Work
  <2>1. CASE Setup \/ BuildPolicy \/ BuildReference \/ RestorePolicy
    BY <1>3, <2>1, BuildingContract DEF Work
  <2>2. CASE Rollout \/ Train \/ SaveCheckpoint
    BY <2>2, RolloutContract, TrainContract, SaveContract DEF Contract!Next
  <2>3. CASE DecideCheckpoint \/ EndStep
    BY <2>3, BetweenContract
  <2>4. CASE \/ Begin \/ FetchBatch \/ LoaderExhausted
             \/ OffloadBeforeRefit \/ WakeWeights \/ TransferWeights \/ OffloadAfterRefit
             \/ WakeKV \/ BroadcastWeights
             \/ Validate \/ FinishGeneration \/ FinishRefused
             \/ Logprobs \/ PrepareForTraining \/ DecideValidation
    BY <1>3, <2>4, WithinStepContract DEF Work
  <2> QED BY <1>3, <2>1, <2>2, <2>3, <2>4 DEF Work
<1> QED BY <1>1, <1>2, <1>3 DEF Next

\* Whatever the configuration, the periods and the relaunches: every update
\* consumes data of the very weights it updates, and a restart goes back to
\* the newest weights whose metric was measured on them.
THEOREM DriverImplementsContract == Spec => ImplementsOnPolicy
<1>1. Init => CostInv /\ Contract!Init
  BY InvInit, CostInit, ContractInit DEF CostInv
<1>2. CostInv /\ [Next]_vars => CostInv' /\ [Contract!Next]_(Contract!abstractVars)
  BY CostNext, ContractNext
<1> QED BY <1>1, <1>2, PTL DEF Spec, ImplementsOnPolicy, Contract!Spec
=============================================================================
