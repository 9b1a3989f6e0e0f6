-------------------------- MODULE CheckpointManager --------------------------
(***************************************************************************)
(* CheckpointManager of utils/checkpoint.py on a file system whose rename  *)
(* is atomic and whose rmtree is not, used by a training loop that can be  *)
(* lost between any two system calls and then resumes from the directory   *)
(* get_latest_checkpoint_path names.                                       *)
(*                                                                         *)
(* A directory is what matters of its content: training_info.json (absent, *)
(* torn, or holding a metric) and everything policy.save_checkpoint and    *)
(* the dataloader put beside it (none, part or all of it).  Steps are      *)
(* numbers, so the textual order of step_9 and step_10 is not represented: *)
(* the code sorts by int().                                                *)
(***************************************************************************)
EXTENDS Integers, FiniteSets

CONSTANTS
  MaxStep,     \* bound: steps a loop may save
  KeepTopK,    \* checkpointing.keep_top_k, KeepAll when it is null
  Metrics,     \* values of the tracked metric, a larger one is better
  MaxCrashes   \* bound: how often the process is lost

KeepAll == -1

ASSUME CheckpointAssumption ==
  /\ MaxStep \in Nat \ {0}
  /\ KeepTopK \in Nat \cup {KeepAll}
  /\ Metrics \subseteq Nat /\ Metrics # {}
  /\ MaxCrashes \in Nat

VARIABLES
  resaves,  \* does the caller save steps again, unlike a training loop
  pc,       \* where the process is, "down" when there is none
  cur,      \* the step being saved
  fs,       \* fs[<<k, s>>]: the directory k_s, or Absent
  victims,  \* checkpoints remove_old_checkpoints has still to delete
  victim,   \* the one it is deleting
  crashes

vars == <<resaves, pc, cur, fs, victims, victim, crashes>>

Steps   == 1..MaxStep
Kinds   == {"tmp_step", "step", "old_step"}
Paths   == Kinds \X Steps
NoInfo  == -1
Torn    == -2
Infos   == Metrics \cup {NoInfo, Torn}
Content == [info : Infos, files : {"none", "part", "all"}]
Absent  == [info |-> NoInfo, files |-> "absent"]
Empty   == [info |-> NoInfo, files |-> "none"]

Tmp(s)  == <<"tmp_step", s>>
Step(s) == <<"step", s>>
Old(s)  == <<"old_step", s>>

Exists(p) == fs[p] # Absent
Intact(p) == Exists(p) /\ fs[p].info \in Metrics /\ fs[p].files = "all"

StepDirs == {s \in Steps : Exists(Step(s))}

\* get_latest_checkpoint_path: the step_* directory with the highest number.
IsLatest(s) == s \in StepDirs /\ \A t \in StepDirs : t <= s
LatestStep  == IF StepDirs = {} THEN 0 ELSE CHOOSE s \in StepDirs : IsLatest(s)

\* _load_checkpoint_history: the step_* directories with a training_info.json.
History == {s \in StepDirs : fs[Step(s)].info \in Metrics}

Metric(s) == fs[Step(s)].info

\* The sort of remove_old_checkpoints.
WorseFirst(s, t) == Metric(s) < Metric(t) \/ (Metric(s) = Metric(t) /\ s > t)  \* faulty
Before(s, t) == Metric(s) > Metric(t) \/ (Metric(s) = Metric(t) /\ s > t)

First(s, V) == \A t \in V : t = s \/ Before(s, t)

Rank(s) == Cardinality({t \in History : Before(t, s)})
TopK == {s \in History : Rank(s) < KeepTopK}

VictimsWithLatest == IF KeepTopK = KeepAll THEN {} ELSE History \ TopK   \* faulty
Victims ==
  IF KeepTopK = KeepAll THEN {}
  ELSE {s \in History \ TopK : \E t \in History : t > s}

\* What one unlink or rmdir inside a directory may leave of it.
Unlinked(c) ==
  {d \in Content :
     \/ c.info # NoInfo /\ d = [c EXCEPT !.info = NoInfo]
     \/ c.files = "all" /\ d = [c EXCEPT !.files = "part"]
     \/ c.files = "part" /\ d = [c EXCEPT !.files = "none"]}

-----------------------------------------------------------------------------
Init ==
  /\ resaves \in BOOLEAN
  /\ pc = "down"
  /\ cur = 1
  /\ fs = [p \in Paths |-> Absent]
  /\ victims = {} /\ victim = 1
  /\ crashes = 0

\* setup: find the latest checkpoint and load its training info.  Without
\* one the load raises and the process does not start.
Resume ==
  /\ pc = "down"
  /\ \A s \in Steps : IsLatest(s) => s \in History
  /\ pc' = "idle"
  /\ UNCHANGED <<cur, fs, victims, victim, crashes>>

\* A training loop saves ever later steps than the one it resumed from.
MaySave(s) == resaves \/ \A t \in StepDirs : t < s

InPlace(s) == Step(s)                                    \* faulty: no tmp directory
Scratch(s) == Tmp(s)

\* init_tmp_checkpoint, up to open(..., "w"): the directory may be left over
\* from a save that was lost, with whatever that one had written.
InitTmp(s) ==
  /\ pc = "idle"
  /\ MaySave(s)
  /\ cur' = s
  /\ fs' = [fs EXCEPT ![Scratch(s)] =
              [info |-> Torn,
               files |-> IF Exists(Scratch(s)) THEN fs[Scratch(s)].files ELSE "none"]]
  /\ pc' = "info"
  /\ UNCHANGED <<victims, victim, crashes>>

WriteInfo ==
  /\ pc = "info"
  /\ \E m \in Metrics : fs' = [fs EXCEPT ![Scratch(cur)].info = m]
  /\ pc' = "files"
  /\ UNCHANGED <<cur, victims, victim, crashes>>

\* policy.save_checkpoint and torch.save of the loader overwrite file by file.
WriteFiles ==
  /\ pc \in {"files", "moreFiles"}
  /\ fs' = [fs EXCEPT ![Scratch(cur)].files = IF pc = "files" THEN "part" ELSE "all"]
  /\ pc' = IF pc = "files" THEN "moreFiles" ELSE "finalize"
  /\ UNCHANGED <<cur, victims, victim, crashes>>

-----------------------------------------------------------------------------
\* os.rename of a directory over Absent or an empty directory succeeds.
Rename(p, q) == fs' = [fs EXCEPT ![q] = fs[p], ![p] = Absent]

\* finalize_checkpoint, no checkpoint of this step yet.
Publish ==
  /\ pc = "finalize"
  /\ ~Exists(Step(cur))
  /\ Rename(Scratch(cur), Step(cur))
  /\ pc' = "prune"
  /\ UNCHANGED <<cur, victims, victim, crashes>>

\* finalize_checkpoint over a checkpoint of this step: put that one aside.
SetAside ==
  /\ pc = "finalize"
  /\ Exists(Step(cur))
  /\ fs[Old(cur)] \in {Absent, Empty}
  /\ Rename(Step(cur), Old(cur))
  /\ pc' = "swap"
  /\ UNCHANGED <<cur, victims, victim, crashes>>

\* os.rename refuses a target that is a non-empty directory.
SetAsideRaises ==
  /\ pc = "finalize"
  /\ Exists(Step(cur))
  /\ fs[Old(cur)] \notin {Absent, Empty}
  /\ pc' = "failed"
  /\ UNCHANGED <<cur, fs, victims, victim, crashes>>

Swap ==
  /\ pc = "swap"
  /\ Rename(Scratch(cur), Step(cur))
  /\ pc' = "dropOld"
  /\ UNCHANGED <<cur, victims, victim, crashes>>

\* shutil.rmtree, one entry at a time in the order the directory lists them.
RemoveEntry(p) ==
  /\ fs[p] # Empty
  /\ \E c \in Unlinked(fs[p]) : fs' = [fs EXCEPT ![p] = c]

RemoveDirectory(p) == fs[p] = Empty /\ fs' = [fs EXCEPT ![p] = Absent]

DropOld ==
  /\ pc = "dropOld"
  /\ \/ RemoveEntry(Old(cur)) /\ UNCHANGED pc
     \/ RemoveDirectory(Old(cur)) /\ pc' = "prune"
  /\ UNCHANGED <<cur, victims, victim, crashes>>

\* remove_old_checkpoints: decide once, then delete in the order of the sort.
StartRemoval(V) ==
  /\ victims' = V
  /\ IF V = {}
     THEN pc' = "idle" /\ UNCHANGED victim
     ELSE pc' = "remove" /\ \E s \in V : First(s, V) /\ victim' = s

Prune ==
  /\ pc = "prune"
  /\ StartRemoval(Victims)
  /\ UNCHANGED <<cur, fs, crashes>>

RemoveVictim ==
  /\ pc = "remove"
  /\ \/ RemoveEntry(Step(victim)) /\ UNCHANGED <<victims, victim, pc>>
     \/ RemoveDirectory(Step(victim)) /\ StartRemoval(victims \ {victim})
  /\ UNCHANGED <<cur, crashes>>

\* The process is lost; a failed one is relaunched as well.
Crash ==
  /\ pc # "down"
  /\ crashes < MaxCrashes
  /\ crashes' = crashes + 1
  /\ pc' = "down"
  /\ UNCHANGED <<cur, fs, victims, victim>>

Next ==
  /\ UNCHANGED resaves
  /\ \/ Resume
     \/ \E s \in Steps : InitTmp(s)
     \/ WriteInfo \/ WriteFiles
     \/ Publish \/ SetAside \/ SetAsideRaises \/ Swap \/ DropOld
     \/ Prune \/ RemoveVictim
     \/ Crash

Spec == Init /\ [][Next]_vars

-----------------------------------------------------------------------------
(***************************************************************************)
(* Properties                                                              *)
(***************************************************************************)

\* Every variable has its type; no published directory has a torn info file.
TypeOK ==
  /\ resaves \in BOOLEAN
  /\ pc \in {"down", "idle", "info", "files", "moreFiles", "finalize", "swap",
             "dropOld", "prune", "remove", "failed"}
  /\ cur \in Steps /\ victims \subseteq Steps /\ victim \in Steps
  /\ fs \in [Paths -> Content \cup {Absent}]
  /\ \A s \in Steps : fs[Step(s)].info # Torn /\ fs[Old(s)].info # Torn
  /\ crashes \in 0..MaxCrashes

\* A training loop that is lost at any point of a save or of the pruning
\* resumes: the directory get_latest_checkpoint_path names is complete.
LatestComplete == \A s \in Steps : IsLatest(s) => Intact(Step(s))
LatestLoadable == ~resaves => LatestComplete

\* The k best complete checkpoints of a training loop survive the pruning:
\* whenever a complete one other than the latest is gone, k better ones are there.
CompleteSteps == {s \in Steps : Intact(Step(s))}
Saved == {[step |-> s, metric |-> Metric(s)] : s \in CompleteSteps}

Store == INSTANCE CheckpointStore WITH saved <- Saved, latest <- LatestStep

ImplementsStore == Store!Init /\ [][resaves \/ Store!Next]_<<Store!storeVars>>

\* A save of a step that has a checkpoint keeps a complete copy of it, the old
\* or the new one, at every moment ("pseudo-atomic"), crashes included.
Copies(s) == {k \in {"step", "old_step"} : Intact(<<k, s>>)}
CopyKept ==
  [][\A s \in Steps : Copies(s) # {} /\ (pc # "remove" \/ victim # s) => Copies(s)' # {}]_vars

-----------------------------------------------------------------------------
(***************************************************************************)
(* The inductive invariant behind LatestLoadable, for a loop that only     *)
(* saves ever later steps                                                  *)
(***************************************************************************)
Saving == pc \in {"info", "files", "moreFiles", "finalize"}

\* The directory being written is invisible and newer than all others; the
\* one just published is complete, the newest, and never a victim.
SavePhases ==
  /\ pc \notin {"swap", "dropOld", "failed"}
  /\ Saving => Exists(Tmp(cur)) /\ \A t \in StepDirs : t < cur
  /\ pc \in {"files", "moreFiles", "finalize"} => fs[Tmp(cur)].info \in Metrics
  /\ pc = "finalize" => fs[Tmp(cur)].files = "all"
  /\ pc \in {"prune", "remove"} => IsLatest(cur) /\ Intact(Step(cur))
  /\ pc = "remove" => victim \in victims /\ \A t \in victims : t < cur

LoopInv == TypeOK /\ SavePhases /\ LatestComplete

Inv == ~resaves => LoopInv

\* Behind CopyKept, for any caller: what a save has written is complete before
\* the old copy is touched.
CopyPhases ==
  /\ Saving => Exists(Tmp(cur))
  /\ pc \in {"files", "moreFiles", "finalize", "swap"} => fs[Tmp(cur)].info \in Metrics
  /\ pc \in {"finalize", "swap"} => Intact(Tmp(cur))
  /\ pc = "dropOld" => Intact(Step(cur))

CopyInv == TypeOK /\ CopyPhases

\* Behind ImplementsStore: what remove_old_checkpoints is about to delete, and
\* what a crash left half deleted, has KeepTopK better ones beside it.  The
\* half deleted still count as history for the next pruning.
BetterThan(v)  == {t \in CompleteSteps : Before(t, v)}
Dispensable(v) == Cardinality(BetterThan(v)) >= KeepTopK

DroppedOnly ==
  /\ StepDirs # {} => \E s \in Steps : IsLatest(s)
  /\ pc = "remove" => KeepTopK # KeepAll
  /\ KeepTopK # KeepAll =>
       \A v \in History :
         v \notin CompleteSteps \/ (pc = "remove" /\ v \in victims) => Dispensable(v)

StoreInv == LoopInv /\ DroppedOnly
=============================================================================
