--------------------------- MODULE CheckpointProofs ---------------------------
(***************************************************************************)
(* For every number of steps, metric, top-k setting and crash:             *)
(*  - a training loop that only saves ever later steps always finds a      *)
(*    complete latest checkpoint (LoopInv of CheckpointManager),           *)
(*  - a save over an existing checkpoint never loses the last complete     *)
(*    copy of it (CopyInv),                                                *)
(*  - the manager of such a loop implements CheckpointStore (StoreInv).    *)
(***************************************************************************)
EXTENDS CheckpointManager, FiniteSetTheorems, TLAPS

USE CheckpointAssumption DEF vars

\* The three directories of a step are three paths, and no two steps share one.
LEMMA PathFacts ==
  ASSUME NEW s \in Steps, NEW t \in Steps
  PROVE  /\ Tmp(s) \in Paths /\ Step(s) \in Paths /\ Old(s) \in Paths
         /\ Tmp(s) # Step(t) /\ Tmp(s) # Old(t) /\ Step(s) # Old(t)
         /\ Step(s) = Step(t) => s = t
         /\ Tmp(s) = Tmp(t) => s = t
BY DEF Tmp, Step, Old, Paths, Kinds

\* An absent or emptied directory is not a checkpoint, and Absent is no content.
LEMMA ContentFacts ==
  /\ Absent \notin Content /\ Empty \in Content
  /\ Absent.info = NoInfo /\ Empty.info = NoInfo
  /\ NoInfo \notin Metrics /\ Torn \notin Metrics /\ NoInfo # Torn
BY DEF Absent, Empty, Content, Infos, NoInfo, Torn

\* Nothing exists before the first save.
LEMMA InvInit == Init => LoopInv
<1> SUFFICES ASSUME Init PROVE LoopInv
  OBVIOUS
<1>1. \A s \in Steps : fs[Step(s)] = Absent /\ fs[Old(s)] = Absent /\ fs[Tmp(s)] = Absent
  BY PathFacts DEF Init
<1>2. StepDirs = {}
  BY <1>1 DEF StepDirs, Exists
<1>3. TypeOK
  <2>1. cur \in Steps /\ victim \in Steps
    BY DEF Init, Steps
  <2>2. fs \in [Paths -> Content \cup {Absent}]
    BY DEF Init
  <2> QED BY <1>1, <2>1, <2>2, ContentFacts DEF Init, TypeOK
<1>4. SavePhases
  BY DEF Init, SavePhases, Saving
<1>5. LatestComplete
  BY <1>2 DEF LatestComplete, IsLatest
<1> QED BY <1>3, <1>4, <1>5 DEF LoopInv

-----------------------------------------------------------------------------
\* Writing a directory changes that directory and keeps the type of fs.
LEMMA WriteDirectory ==
  ASSUME fs \in [Paths -> Content \cup {Absent}], NEW p \in Paths,
         NEW c \in Content \cup {Absent}, fs' = [fs EXCEPT ![p] = c]
  PROVE  /\ fs' \in [Paths -> Content \cup {Absent}]
         /\ fs'[p] = c
         /\ \A q \in Paths : q # p => fs'[q] = fs[q]
OBVIOUS

\* Nothing about the step_* directories changes when none of them does.
LEMMA SameSteps ==
  ASSUME \A t \in Steps : fs'[Step(t)] = fs[Step(t)]
  PROVE  /\ StepDirs' = StepDirs
         /\ \A t \in Steps : IsLatest(t)' <=> IsLatest(t)
         /\ \A t \in Steps : Intact(Step(t))' <=> Intact(Step(t))
         /\ LatestComplete => LatestComplete'
<1>1. StepDirs' = StepDirs
  BY DEF StepDirs, Exists
<1>2. \A t \in Steps : IsLatest(t)' <=> IsLatest(t)
  BY <1>1 DEF IsLatest
<1>3. \A t \in Steps : Intact(Step(t))' <=> Intact(Step(t))
  BY DEF Intact, Exists
<1> QED BY <1>1, <1>2, <1>3 DEF LatestComplete

\* A save writes tmp_step_N alone, which no reader of checkpoints looks at.
LEMMA ScratchWrite ==
  ASSUME TypeOK, NEW s \in Steps, NEW c \in Content, fs' = [fs EXCEPT ![Tmp(s)] = c]
  PROVE  /\ fs' \in [Paths -> Content \cup {Absent}]
         /\ fs'[Tmp(s)] = c /\ Exists(Tmp(s))'
         /\ \A t \in Steps : fs'[Step(t)] = fs[Step(t)] /\ fs'[Old(t)] = fs[Old(t)]
<1>1. fs \in [Paths -> Content \cup {Absent}] /\ Tmp(s) \in Paths
  BY PathFacts DEF TypeOK
<1>2. /\ fs' \in [Paths -> Content \cup {Absent}]
      /\ fs'[Tmp(s)] = c
      /\ \A q \in Paths : q # Tmp(s) => fs'[q] = fs[q]
  BY <1>1, WriteDirectory
<1> QED BY <1>2, PathFacts, ContentFacts DEF Exists

\* Starting a save leaves the checkpoints alone and picks a newer step.
LEMMA InitTmpInv ==
  ASSUME LoopInv, ~resaves, UNCHANGED resaves, NEW s \in Steps, InitTmp(s)
  PROVE  LoopInv'
<1> DEFINE c == [info |-> Torn,
                 files |-> IF Exists(Tmp(s)) THEN fs[Tmp(s)].files ELSE "none"]
<1>1. c \in Content
  <2>1. fs[Tmp(s)] \in Content \cup {Absent}
    BY PathFacts DEF LoopInv, TypeOK
  <2> QED BY <2>1 DEF Content, Infos, Exists
<1>2. TypeOK /\ fs' = [fs EXCEPT ![Tmp(s)] = c]
  BY DEF LoopInv, InitTmp, Scratch
<1>3. /\ fs' \in [Paths -> Content \cup {Absent}]
      /\ Exists(Tmp(s))'
      /\ \A t \in Steps : fs'[Step(t)] = fs[Step(t)] /\ fs'[Old(t)] = fs[Old(t)]
  BY <1>1, <1>2, ScratchWrite
<1>4. TypeOK'
  BY <1>3 DEF LoopInv, TypeOK, InitTmp
<1>5. StepDirs' = StepDirs /\ LatestComplete'
  BY <1>3, SameSteps DEF LoopInv
<1>6. SavePhases'
  BY <1>3, <1>5 DEF LoopInv, SavePhases, Saving, InitTmp, MaySave
<1> QED BY <1>4, <1>5, <1>6 DEF LoopInv

\* Writing training_info.json completes it.
LEMMA WriteInfoInv == UNCHANGED resaves /\ LoopInv /\ WriteInfo => LoopInv'
<1> SUFFICES ASSUME UNCHANGED resaves, LoopInv, WriteInfo PROVE LoopInv'
  OBVIOUS
<1>0. PICK k \in Steps : k = cur /\ k = cur'
  BY DEF LoopInv, TypeOK, WriteInfo
<1>1. PICK m \in Metrics : fs' = [fs EXCEPT ![Tmp(k)].info = m]
  BY <1>0 DEF WriteInfo, Scratch
<1> DEFINE c == [fs[Tmp(k)] EXCEPT !.info = m]
<1>2. TypeOK /\ fs' = [fs EXCEPT ![Tmp(k)] = c]
  BY <1>1 DEF LoopInv
<1>3. fs[Tmp(k)] \in Content
  <2>1. Exists(Tmp(k)) /\ fs[Tmp(k)] \in Content \cup {Absent}
    BY <1>0, PathFacts DEF LoopInv, TypeOK, SavePhases, Saving, WriteInfo
  <2> QED BY <2>1 DEF Exists
<1>4. c \in Content /\ c.info = m
  BY <1>3 DEF Content, Infos
<1> HIDE DEF c
<1>5. /\ fs' \in [Paths -> Content \cup {Absent}]
      /\ fs'[Tmp(k)] = c /\ Exists(Tmp(k))'
      /\ \A t \in Steps : fs'[Step(t)] = fs[Step(t)] /\ fs'[Old(t)] = fs[Old(t)]
  BY <1>2, <1>4, ScratchWrite
<1>6. TypeOK'
  BY <1>5 DEF LoopInv, TypeOK, WriteInfo
<1>7. StepDirs' = StepDirs /\ LatestComplete'
  BY <1>5, SameSteps DEF LoopInv
<1>8. SavePhases'
  BY <1>0, <1>4, <1>5, <1>7 DEF LoopInv, SavePhases, Saving, WriteInfo, Tmp
<1> QED BY <1>6, <1>7, <1>8 DEF LoopInv

\* Writing the weights and the loader completes the directory.
LEMMA WriteFilesInv == UNCHANGED resaves /\ LoopInv /\ WriteFiles => LoopInv'
<1> SUFFICES ASSUME UNCHANGED resaves, LoopInv, WriteFiles PROVE LoopInv'
  OBVIOUS
<1>0. PICK k \in Steps : k = cur /\ k = cur'
  BY DEF LoopInv, TypeOK, WriteFiles
<1> DEFINE f == IF pc = "files" THEN "part" ELSE "all"
<1> DEFINE c == [fs[Tmp(k)] EXCEPT !.files = f]
<1>2. TypeOK /\ fs' = [fs EXCEPT ![Tmp(k)] = c]
  BY <1>0 DEF LoopInv, WriteFiles, Scratch
<1>3. fs[Tmp(k)] \in Content /\ fs[Tmp(k)].info \in Metrics
  <2>1. /\ Exists(Tmp(k)) /\ fs[Tmp(k)] \in Content \cup {Absent}
        /\ fs[Tmp(k)].info \in Metrics
    BY <1>0, PathFacts DEF LoopInv, TypeOK, SavePhases, Saving, WriteFiles
  <2> QED BY <2>1 DEF Exists
<1>4. c \in Content /\ c.info = fs[Tmp(k)].info /\ c.files = f
  BY <1>3 DEF Content
<1> HIDE DEF c
<1>5. /\ fs' \in [Paths -> Content \cup {Absent}]
      /\ fs'[Tmp(k)] = c /\ Exists(Tmp(k))'
      /\ \A t \in Steps : fs'[Step(t)] = fs[Step(t)] /\ fs'[Old(t)] = fs[Old(t)]
  BY <1>2, <1>4, ScratchWrite
<1>6. TypeOK'
  BY <1>5 DEF LoopInv, TypeOK, WriteFiles
<1>7. StepDirs' = StepDirs /\ LatestComplete'
  BY <1>5, SameSteps DEF LoopInv
<1>8. SavePhases'
  BY <1>0, <1>3, <1>4, <1>5, <1>7 DEF LoopInv, SavePhases, Saving, WriteFiles, Tmp
<1> QED BY <1>6, <1>7, <1>8 DEF LoopInv

-----------------------------------------------------------------------------
\* The rename makes a complete directory the step_* directory of the save.
LEMMA PublishFacts ==
  ASSUME LoopInv, Publish
  PROVE  /\ cur \in Steps /\ cur' = cur /\ \A t \in StepDirs : t < cur
         /\ fs' \in [Paths -> Content \cup {Absent}]
         /\ Intact(Step(cur))' /\ fs'[Step(cur)].info \in Metrics
         /\ \A t \in Steps : t # cur => fs'[Step(t)] = fs[Step(t)]
         /\ \A t \in Steps : fs'[Old(t)] = fs[Old(t)]
         /\ IsLatest(cur)' /\ StepDirs' = StepDirs \cup {cur}
<1>0. PICK k \in Steps : k = cur /\ k = cur'
  BY DEF LoopInv, TypeOK, Publish
<1>1. /\ fs[Tmp(k)] \in Content /\ fs[Tmp(k)].info \in Metrics /\ fs[Tmp(k)].files = "all"
      /\ \A t \in StepDirs : t < k
  <2>1. fs[Tmp(k)] \in Content \cup {Absent}
    BY <1>0, PathFacts DEF LoopInv, TypeOK
  <2> QED BY <1>0, <2>1 DEF LoopInv, SavePhases, Saving, Publish, Exists
<1>2. /\ fs' \in [Paths -> Content \cup {Absent}]
      /\ fs'[Step(k)] = fs[Tmp(k)]
      /\ \A q \in Paths : q # Step(k) /\ q # Tmp(k) => fs'[q] = fs[q]
  <2>1. fs' = [fs EXCEPT ![Step(k)] = fs[Tmp(k)], ![Tmp(k)] = Absent]
    BY <1>0 DEF Publish, Rename, Scratch
  <2> QED BY <1>1, <2>1, PathFacts DEF LoopInv, TypeOK
<1>3. /\ \A t \in Steps : t # k => fs'[Step(t)] = fs[Step(t)]
      /\ \A t \in Steps : fs'[Old(t)] = fs[Old(t)]
  BY <1>2, PathFacts
<1>4. Exists(Step(k))' /\ Intact(Step(k))' /\ fs'[Step(k)].info \in Metrics
  BY <1>1, <1>2, ContentFacts DEF Exists, Intact
<1>5. StepDirs' = StepDirs \cup {k}
  BY <1>3, <1>4 DEF StepDirs, Exists
<1>6. IsLatest(k)'
  <2>1. \A t \in StepDirs' : t <= k
    BY <1>1, <1>5 DEF StepDirs, Steps
  <2> QED BY <1>5, <2>1 DEF IsLatest
<1>7. Intact(Step(cur))' /\ IsLatest(cur)'
  BY <1>0, <1>4, <1>6 DEF Intact, Exists, IsLatest
<1> QED BY <1>0, <1>1, <1>2, <1>3, <1>4, <1>5, <1>7

\* The rename publishes a complete directory as the newest checkpoint.
LEMMA PublishInv == UNCHANGED resaves /\ LoopInv /\ Publish => LoopInv'
<1> SUFFICES ASSUME UNCHANGED resaves, LoopInv, Publish PROVE LoopInv'
  OBVIOUS
<1>1. TypeOK'
  <2>1. \A s \in Steps : fs'[Step(s)].info # Torn
    BY PublishFacts, ContentFacts DEF LoopInv, TypeOK
  <2> QED BY <2>1, PublishFacts DEF LoopInv, TypeOK, Publish
<1>2. LatestComplete'
  <2> SUFFICES ASSUME NEW s \in Steps, IsLatest(s)' PROVE Intact(Step(s))'
    BY DEF LatestComplete
  <2>0. PICK k \in Steps : k = cur /\ k = cur'
    BY PublishFacts
  <2>1. s = k
    BY <2>0, PublishFacts DEF IsLatest, Steps
  <2> QED BY <2>0, <2>1, PublishFacts DEF Intact, Exists
<1>3. SavePhases'
  BY PublishFacts DEF Publish, SavePhases, Saving
<1> QED BY <1>1, <1>2, <1>3 DEF LoopInv

\* The next victim, when there is one, is a victim.
LEMMA StartRemovalFacts ==
  ASSUME NEW V \in SUBSET Steps, StartRemoval(V), victim \in Steps
  PROVE  /\ victims' = V /\ victim' \in Steps
         /\ pc' \in {"idle", "remove"}
         /\ pc' = "remove" => victim' \in V
BY DEF StartRemoval

\* Pruning never picks the newest checkpoint.
LEMMA PruneInv == UNCHANGED resaves /\ LoopInv /\ Prune => LoopInv'
<1> SUFFICES ASSUME UNCHANGED resaves, LoopInv, Prune PROVE LoopInv'
  OBVIOUS
<1>1. /\ IsLatest(cur) /\ Intact(Step(cur)) /\ victim \in Steps
      /\ UNCHANGED <<cur, fs, crashes>>
  BY DEF LoopInv, SavePhases, TypeOK, Prune
<1>2. Victims \in SUBSET Steps /\ \A s \in Victims : s < cur
  <2>1. Victims \subseteq Steps /\ \A s \in Victims : \E t \in StepDirs : t > s
    BY DEF Victims, History, StepDirs
  <2> QED BY <1>1, <2>1 DEF IsLatest, StepDirs, Steps
<1>3. /\ victims' = Victims /\ victim' \in Steps
      /\ pc' \in {"idle", "remove"}
      /\ pc' = "remove" => victim' \in Victims
  BY <1>1, <1>2, StartRemovalFacts DEF Prune
<1>4. TypeOK'
  BY <1>1, <1>2, <1>3 DEF LoopInv, TypeOK
<1>5. \A t \in Steps : fs'[Step(t)] = fs[Step(t)]
  BY <1>1
<1>6. LatestComplete' /\ IsLatest(cur)' /\ Intact(Step(cur))'
  BY <1>1, <1>5, SameSteps DEF LoopInv, IsLatest, StepDirs, Intact, Exists
<1>7. SavePhases'
  BY <1>1, <1>2, <1>3, <1>6 DEF SavePhases, Saving
<1> QED BY <1>4, <1>6, <1>7 DEF LoopInv

\* What an unlink leaves of a directory is a directory without a torn info.
LEMMA UnlinkedFacts ==
  ASSUME NEW c, NEW d \in Unlinked(c), c.info # Torn
  PROVE  d \in Content /\ d.info # Torn
BY ContentFacts DEF Unlinked, Content

\* Deleting a victim touches neither the newest checkpoint nor its place.
LEMMA RemoveVictimInv == UNCHANGED resaves /\ LoopInv /\ RemoveVictim => LoopInv'
<1> SUFFICES ASSUME UNCHANGED resaves, LoopInv, RemoveVictim PROVE LoopInv'
  OBVIOUS
<1>0. PICK k \in Steps, v \in Steps : k = cur /\ k = cur' /\ v = victim
  BY DEF LoopInv, TypeOK, RemoveVictim
<1>1. /\ v \in victims /\ (\A t \in victims : t < k) /\ victims \subseteq Steps
      /\ IsLatest(k) /\ Intact(Step(k)) /\ crashes' = crashes
  BY <1>0 DEF LoopInv, SavePhases, TypeOK, RemoveVictim
<1>2. PICK c \in Content \cup {Absent} :
        fs' = [fs EXCEPT ![Step(v)] = c] /\ c.info # Torn
  <2>1. CASE RemoveEntry(Step(victim))
    <3>1. PICK c \in Unlinked(fs[Step(v)]) : fs' = [fs EXCEPT ![Step(v)] = c]
      BY <1>0, <2>1 DEF RemoveEntry
    <3>2. c \in Content /\ c.info # Torn
      BY <1>0, <3>1, UnlinkedFacts DEF LoopInv, TypeOK
    <3> QED BY <3>1, <3>2
  <2>2. CASE RemoveDirectory(Step(victim))
    BY <1>0, <2>2, ContentFacts DEF RemoveDirectory
  <2> QED BY <2>1, <2>2 DEF RemoveVictim
<1>3. /\ fs' \in [Paths -> Content \cup {Absent}]
      /\ fs'[Step(v)] = c
      /\ \A t \in Steps : t # v => fs'[Step(t)] = fs[Step(t)]
      /\ \A t \in Steps : fs'[Old(t)] = fs[Old(t)]
  <2>1. /\ fs' \in [Paths -> Content \cup {Absent}]
        /\ fs'[Step(v)] = c
        /\ \A q \in Paths : q # Step(v) => fs'[q] = fs[q]
    BY <1>2, PathFacts, WriteDirectory DEF LoopInv, TypeOK
  <2> QED BY <2>1, PathFacts
<1>4. /\ victims' \subseteq victims /\ victim' \in Steps
      /\ pc' \in {"idle", "remove"}
      /\ pc' = "remove" => victim' \in victims'
  <2>1. CASE RemoveEntry(Step(victim)) /\ UNCHANGED <<victims, victim, pc>>
    BY <1>0, <1>1, <2>1 DEF RemoveVictim
  <2>2. CASE StartRemoval(victims \ {victim})
    <3>1. victims \ {v} \in SUBSET Steps
      BY <1>1
    <3>2. StartRemoval(victims \ {v}) /\ victim \in Steps
      BY <1>0, <2>2
    <3> QED BY <3>1, <3>2 DEF StartRemoval
  <2> QED BY <2>1, <2>2 DEF RemoveVictim
<1>5. TypeOK'
  <2>1. \A s \in Steps : fs'[Step(s)].info # Torn
    BY <1>2, <1>3 DEF LoopInv, TypeOK
  <2> QED BY <1>0, <1>1, <1>3, <1>4, <2>1 DEF LoopInv, TypeOK
<1>6. Intact(Step(k))' /\ IsLatest(k)'
  <2>1. v # k
    BY <1>1 DEF Steps
  <2>2. Intact(Step(k))' /\ Exists(Step(k))'
    BY <1>1, <1>3, <2>1 DEF Intact, Exists
  <2>3. StepDirs' \subseteq StepDirs \cup {v}
    BY <1>3 DEF StepDirs, Exists
  <2>4. v <= k
    BY <1>1 DEF Steps
  <2> QED BY <1>1, <2>2, <2>3, <2>4 DEF IsLatest, StepDirs
<1>7. LatestComplete'
  <2> SUFFICES ASSUME NEW s \in Steps, IsLatest(s)' PROVE Intact(Step(s))'
    BY DEF LatestComplete
  <2>1. s = k
    BY <1>6 DEF IsLatest, Steps
  <2> QED BY <1>6, <2>1
<1>8. SavePhases'
  BY <1>0, <1>1, <1>4, <1>6 DEF SavePhases, Saving
<1> QED BY <1>5, <1>7, <1>8 DEF LoopInv

-----------------------------------------------------------------------------
\* Steps that leave every directory alone.
LEMMA FrozenInv ==
  ASSUME LoopInv, UNCHANGED <<resaves, fs, cur, victims, victim>>,
         crashes' \in 0..MaxCrashes, pc' \in {"idle", "down"}
  PROVE  LoopInv'
<1>1. TypeOK'
  BY DEF LoopInv, TypeOK
<1>2. LatestComplete'
  BY SameSteps DEF LoopInv
<1>3. SavePhases'
  BY DEF SavePhases, Saving
<1> QED BY <1>1, <1>2, <1>3 DEF LoopInv

LEMMA InvNext ==
  ASSUME LoopInv, ~resaves, [Next]_vars
  PROVE  LoopInv'
<1>0. UNCHANGED resaves
  BY DEF Next
<1>1. CASE UNCHANGED vars
  <2>1. TypeOK' /\ SavePhases'
    BY <1>1 DEF LoopInv, TypeOK, SavePhases, Saving, IsLatest, StepDirs, Intact, Exists
  <2> QED BY <1>1, <2>1, SameSteps DEF LoopInv
<1>2. CASE Resume
  BY <1>0, <1>2, FrozenInv DEF Resume, LoopInv, TypeOK
<1>3. ASSUME NEW s \in Steps, InitTmp(s) PROVE LoopInv'
  BY <1>0, <1>3, InitTmpInv
<1>4. CASE SetAside \/ SetAsideRaises
  <2>1. pc = "finalize" /\ cur \in Steps /\ Exists(Step(cur))
    BY <1>4 DEF SetAside, SetAsideRaises, LoopInv, TypeOK
  <2>2. cur \in StepDirs /\ cur < cur
    BY <2>1 DEF StepDirs, LoopInv, SavePhases, Saving
  <2> QED BY <2>1, <2>2 DEF Steps
<1>5. CASE Swap \/ DropOld
  BY <1>5 DEF Swap, DropOld, LoopInv, SavePhases
<1>6. CASE Crash
  <2>1. crashes' \in 0..MaxCrashes
    BY <1>6 DEF Crash, LoopInv, TypeOK
  <2> QED BY <1>0, <1>6, <2>1, FrozenInv DEF Crash
<1> QED
  BY <1>0, <1>1, <1>2, <1>3, <1>4, <1>5, <1>6, WriteInfoInv, WriteFilesInv, PublishInv,
     PruneInv, RemoveVictimInv DEF Next

\* However often and wherever a training loop is lost while it saves and
\* prunes, the checkpoint it will resume from is complete.
THEOREM LatestAlwaysLoadable == Spec => []LatestLoadable
<1>1. Init => Inv
  BY InvInit DEF Inv
<1>2. Inv /\ [Next]_vars => Inv'
  <2> SUFFICES ASSUME Inv, [Next]_vars, ~resaves' PROVE LoopInv'
    BY DEF Inv
  <2>1. ~resaves
    BY DEF Next
  <2> QED BY <2>1, InvNext DEF Inv
<1>3. Inv => LatestLoadable
  BY DEF Inv, LoopInv, LatestLoadable
<1> QED BY <1>1, <1>2, <1>3, PTL DEF Spec

-----------------------------------------------------------------------------
(***************************************************************************)
(* Saving a step again, which no training loop does but the tests do: a    *)
(* complete copy, the old or the new one, is there at every moment.        *)
(***************************************************************************)

\* os.rename moves one directory and touches no third.
LEMMA RenameFacts ==
  ASSUME TypeOK, NEW p \in Paths, NEW q \in Paths, p # q, Rename(p, q)
  PROVE  /\ fs' \in [Paths -> Content \cup {Absent}]
         /\ fs'[q] = fs[p] /\ fs'[p] = Absent
         /\ \A r \in Paths : r # p /\ r # q => fs'[r] = fs[r]
<1>1. fs \in [Paths -> Content \cup {Absent}]
  BY DEF TypeOK
<1> QED BY <1>1 DEF Rename

LEMMA CopyInit == Init => CopyInv
<1>1. Init => TypeOK
  BY InvInit DEF LoopInv
<1>2. Init => CopyPhases
  BY DEF Init, CopyPhases, Saving
<1> QED BY <1>1, <1>2 DEF CopyInv

\* A write into tmp_step_N leaves every copy alone.
LEMMA InitTmpCopy ==
  ASSUME CopyInv, NEW s \in Steps, InitTmp(s), UNCHANGED resaves
  PROVE  /\ CopyInv'
         /\ \A t \in Steps : fs'[Step(t)] = fs[Step(t)] /\ fs'[Old(t)] = fs[Old(t)]
<1> DEFINE c == [info |-> Torn,
                 files |-> IF Exists(Tmp(s)) THEN fs[Tmp(s)].files ELSE "none"]
<1>1. c \in Content
  <2>1. fs[Tmp(s)] \in Content \cup {Absent}
    BY PathFacts DEF CopyInv, TypeOK
  <2> QED BY <2>1 DEF Content, Infos, Exists
<1>2. TypeOK /\ fs' = [fs EXCEPT ![Tmp(s)] = c]
  BY DEF CopyInv, InitTmp, Scratch
<1>3. /\ fs' \in [Paths -> Content \cup {Absent}]
      /\ Exists(Tmp(s))'
      /\ \A t \in Steps : fs'[Step(t)] = fs[Step(t)] /\ fs'[Old(t)] = fs[Old(t)]
  BY <1>1, <1>2, ScratchWrite
<1>4. TypeOK'
  BY <1>3 DEF CopyInv, TypeOK, InitTmp
<1>5. CopyPhases'
  BY <1>3 DEF CopyPhases, Saving, InitTmp
<1> QED BY <1>3, <1>4, <1>5 DEF CopyInv

LEMMA WriteCopy ==
  ASSUME CopyInv, WriteInfo \/ WriteFiles, UNCHANGED resaves
  PROVE  /\ CopyInv'
         /\ \A t \in Steps : fs'[Step(t)] = fs[Step(t)] /\ fs'[Old(t)] = fs[Old(t)]
<1>0. PICK k \in Steps : k = cur /\ k = cur'
  BY DEF CopyInv, TypeOK, WriteInfo, WriteFiles
<1>1. fs[Tmp(k)] \in Content
  <2>1. Exists(Tmp(k)) /\ fs[Tmp(k)] \in Content \cup {Absent}
    BY <1>0, PathFacts DEF CopyInv, TypeOK, CopyPhases, Saving, WriteInfo, WriteFiles
  <2> QED BY <2>1 DEF Exists
<1>2. PICK c \in Content :
        /\ fs' = [fs EXCEPT ![Tmp(k)] = c] /\ c.info \in Metrics
        /\ pc' = "finalize" => c.files = "all"
  <2>1. CASE WriteInfo
    <3>1. PICK m \in Metrics : fs' = [fs EXCEPT ![Tmp(k)].info = m]
      BY <1>0, <2>1 DEF WriteInfo, Scratch
    <3>2. fs' = [fs EXCEPT ![Tmp(k)] = [fs[Tmp(k)] EXCEPT !.info = m]]
      BY <3>1 DEF CopyInv, TypeOK
    <3>3. [fs[Tmp(k)] EXCEPT !.info = m] \in Content /\ [fs[Tmp(k)] EXCEPT !.info = m].info = m
      BY <1>1 DEF Content, Infos
    <3> QED BY <2>1, <3>2, <3>3 DEF WriteInfo
  <2>2. CASE WriteFiles
    <3> DEFINE f == IF pc = "files" THEN "part" ELSE "all"
    <3>1. fs' = [fs EXCEPT ![Tmp(k)] = [fs[Tmp(k)] EXCEPT !.files = f]]
      BY <1>0, <2>2 DEF WriteFiles, Scratch, CopyInv, TypeOK
    <3>2. fs[Tmp(k)].info \in Metrics
      BY <1>0, <2>2 DEF CopyInv, CopyPhases, WriteFiles
    <3>3. /\ [fs[Tmp(k)] EXCEPT !.files = f] \in Content
          /\ [fs[Tmp(k)] EXCEPT !.files = f].info = fs[Tmp(k)].info
          /\ [fs[Tmp(k)] EXCEPT !.files = f].files = f
      BY <1>1 DEF Content
    <3> QED BY <2>2, <3>1, <3>2, <3>3 DEF WriteFiles
  <2> QED BY <2>1, <2>2
<1>3. /\ fs' \in [Paths -> Content \cup {Absent}]
      /\ fs'[Tmp(k)] = c /\ Exists(Tmp(k))'
      /\ \A t \in Steps : fs'[Step(t)] = fs[Step(t)] /\ fs'[Old(t)] = fs[Old(t)]
  BY <1>2, ScratchWrite DEF CopyInv
<1>4. TypeOK'
  BY <1>3 DEF CopyInv, TypeOK, WriteInfo, WriteFiles
<1>5. CopyPhases'
  BY <1>0, <1>2, <1>3 DEF CopyPhases, Saving, Intact, WriteInfo, WriteFiles
<1> QED BY <1>3, <1>4, <1>5 DEF CopyInv

\* The renames of a save: what appears under a name is complete.
LEMMA PublishCopy ==
  ASSUME CopyInv, Publish \/ Swap, UNCHANGED resaves
  PROVE  /\ CopyInv' /\ Intact(Step(cur))'
         /\ \A t \in Steps : t # cur => fs'[Step(t)] = fs[Step(t)]
         /\ \A t \in Steps : fs'[Old(t)] = fs[Old(t)]
<1>0. PICK k \in Steps : k = cur /\ k = cur'
  BY DEF CopyInv, TypeOK, Publish, Swap
<1>1. Intact(Tmp(k)) /\ fs[Tmp(k)] \in Content \cup {Absent}
  BY <1>0, PathFacts DEF CopyInv, CopyPhases, TypeOK, Publish, Swap
<1>2. /\ fs' \in [Paths -> Content \cup {Absent}]
      /\ fs'[Step(k)] = fs[Tmp(k)]
      /\ \A r \in Paths : r # Step(k) /\ r # Tmp(k) => fs'[r] = fs[r]
  <2>1. Rename(Tmp(k), Step(k)) /\ Tmp(k) \in Paths /\ Step(k) \in Paths /\ Tmp(k) # Step(k)
    BY <1>0, PathFacts DEF Publish, Swap, Scratch
  <2> QED BY <2>1, RenameFacts DEF CopyInv
<1>3. /\ \A t \in Steps : t # k => fs'[Step(t)] = fs[Step(t)]
      /\ \A t \in Steps : fs'[Old(t)] = fs[Old(t)]
  BY <1>2, PathFacts
<1>4. Intact(Step(k))'
  BY <1>1, <1>2 DEF Intact, Exists
<1>5. TypeOK'
  <2>1. \A t \in Steps : fs'[Step(t)].info # Torn /\ fs'[Old(t)].info # Torn
    BY <1>1, <1>2, <1>3, ContentFacts DEF CopyInv, TypeOK, Intact
  <2> QED BY <1>2, <2>1 DEF CopyInv, TypeOK, Publish, Swap
<1>6. CopyPhases'
  BY <1>0, <1>4 DEF CopyPhases, Saving, Publish, Swap
<1> QED BY <1>0, <1>3, <1>4, <1>5, <1>6 DEF CopyInv

LEMMA SetAsideCopy ==
  ASSUME CopyInv, SetAside, UNCHANGED resaves
  PROVE  /\ CopyInv' /\ fs'[Old(cur)] = fs[Step(cur)] /\ fs[Old(cur)] \in {Absent, Empty}
         /\ \A t \in Steps : t # cur => fs'[Step(t)] = fs[Step(t)] /\ fs'[Old(t)] = fs[Old(t)]
<1>0. PICK k \in Steps : k = cur /\ k = cur'
  BY DEF CopyInv, TypeOK, SetAside
<1>1. /\ fs' \in [Paths -> Content \cup {Absent}]
      /\ fs'[Old(k)] = fs[Step(k)] /\ fs'[Step(k)] = Absent
      /\ \A r \in Paths : r # Step(k) /\ r # Old(k) => fs'[r] = fs[r]
  <2>1. Rename(Step(k), Old(k)) /\ Old(k) \in Paths /\ Step(k) \in Paths /\ Old(k) # Step(k)
    BY <1>0, PathFacts DEF SetAside
  <2> QED BY <2>1, RenameFacts DEF CopyInv
<1>2. \A t \in Steps : t # k => fs'[Step(t)] = fs[Step(t)] /\ fs'[Old(t)] = fs[Old(t)]
  BY <1>1, PathFacts DEF Old, Step
<1>3. fs'[Tmp(k)] = fs[Tmp(k)]
  BY <1>1, PathFacts
<1>4. TypeOK'
  <2>1. \A t \in Steps : fs'[Step(t)].info # Torn /\ fs'[Old(t)].info # Torn
    BY <1>1, <1>2, ContentFacts DEF CopyInv, TypeOK
  <2> QED BY <1>1, <2>1 DEF CopyInv, TypeOK, SetAside
<1>5. CopyPhases'
  BY <1>0, <1>3 DEF CopyInv, CopyPhases, Saving, SetAside, Intact, Exists
<1> QED BY <1>0, <1>1, <1>2, <1>4, <1>5 DEF CopyInv, SetAside

\* Deleting inside one directory touches no other.
LEMMA DeleteCopy ==
  ASSUME TypeOK, NEW p \in Paths, fs[p].info # Torn, RemoveEntry(p) \/ RemoveDirectory(p)
  PROVE  /\ fs' \in [Paths -> Content \cup {Absent}] /\ fs'[p].info # Torn
         /\ \A r \in Paths : r # p => fs'[r] = fs[r]
<1>1. PICK c \in Content \cup {Absent} : fs' = [fs EXCEPT ![p] = c] /\ c.info # Torn
  <2>1. CASE RemoveEntry(p)
    BY <2>1, UnlinkedFacts DEF RemoveEntry
  <2>2. CASE RemoveDirectory(p)
    BY <2>2, ContentFacts DEF RemoveDirectory
  <2> QED BY <2>1, <2>2
<1> QED BY <1>1, WriteDirectory DEF TypeOK

LEMMA DropOldCopy ==
  ASSUME CopyInv, DropOld, UNCHANGED resaves
  PROVE  /\ CopyInv' /\ Intact(Step(cur)) /\ fs'[Step(cur)] = fs[Step(cur)]
         /\ \A t \in Steps : t # cur => fs'[Step(t)] = fs[Step(t)] /\ fs'[Old(t)] = fs[Old(t)]
<1>0. PICK k \in Steps : k = cur /\ k = cur'
  BY DEF CopyInv, TypeOK, DropOld
<1>1. Old(k) \in Paths /\ fs[Old(k)].info # Torn /\ Intact(Step(k))
  BY <1>0, PathFacts DEF CopyInv, TypeOK, CopyPhases, DropOld
<1>2. /\ fs' \in [Paths -> Content \cup {Absent}] /\ fs'[Old(k)].info # Torn
      /\ \A r \in Paths : r # Old(k) => fs'[r] = fs[r]
  BY <1>0, <1>1, DeleteCopy DEF CopyInv, DropOld
<1>3. /\ \A t \in Steps : t # k => fs'[Old(t)] = fs[Old(t)]
      /\ \A t \in Steps : fs'[Step(t)] = fs[Step(t)]
  BY <1>2, PathFacts DEF Old
<1>4. TypeOK'
  <2>1. \A t \in Steps : fs'[Step(t)].info # Torn /\ fs'[Old(t)].info # Torn
    BY <1>2, <1>3 DEF CopyInv, TypeOK
  <2> QED BY <1>2, <2>1 DEF CopyInv, TypeOK, DropOld
<1>5. CopyPhases'
  BY <1>0, <1>1, <1>3 DEF CopyPhases, Saving, DropOld, Intact, Exists
<1> QED BY <1>0, <1>1, <1>3, <1>4, <1>5 DEF CopyInv

LEMMA RemoveVictimCopy ==
  ASSUME CopyInv, RemoveVictim, UNCHANGED resaves
  PROVE  /\ CopyInv' /\ pc = "remove"
         /\ \A t \in Steps : fs'[Old(t)] = fs[Old(t)]
         /\ \A t \in Steps : t # victim => fs'[Step(t)] = fs[Step(t)]
<1>0. PICK v \in Steps : v = victim
  BY DEF CopyInv, TypeOK
<1>1. /\ fs' \in [Paths -> Content \cup {Absent}] /\ fs'[Step(v)].info # Torn
      /\ \A r \in Paths : r # Step(v) => fs'[r] = fs[r]
  <2>1. Step(v) \in Paths /\ fs[Step(v)].info # Torn
    BY PathFacts DEF CopyInv, TypeOK
  <2> QED BY <1>0, <2>1, DeleteCopy DEF CopyInv, RemoveVictim
<1>2. /\ \A t \in Steps : fs'[Old(t)] = fs[Old(t)]
      /\ \A t \in Steps : t # v => fs'[Step(t)] = fs[Step(t)]
  BY <1>1, PathFacts
<1>3. victims' \subseteq victims /\ victim' \in Steps /\ pc' \in {"idle", "remove"}
  <2>1. victims \ {victim} \in SUBSET Steps /\ victim \in Steps
    BY DEF CopyInv, TypeOK
  <2>2. CASE RemoveEntry(Step(victim)) /\ UNCHANGED <<victims, victim, pc>>
    BY <2>1, <2>2 DEF RemoveVictim
  <2>3. CASE StartRemoval(victims \ {victim})
    BY <2>1, <2>3, StartRemovalFacts
  <2> QED BY <2>2, <2>3 DEF RemoveVictim
<1>4. TypeOK'
  <2>1. \A t \in Steps : fs'[Step(t)].info # Torn /\ fs'[Old(t)].info # Torn
    BY <1>1, <1>2 DEF CopyInv, TypeOK
  <2> QED BY <1>1, <1>3, <2>1 DEF CopyInv, TypeOK, RemoveVictim
<1>5. CopyPhases'
  BY <1>3 DEF CopyPhases, Saving
<1> QED BY <1>0, <1>2, <1>4, <1>5 DEF CopyInv, RemoveVictim

\* The steps that leave every directory alone.
LEMMA FrozenCopy ==
  ASSUME CopyInv, Resume \/ SetAsideRaises \/ Prune \/ Crash \/ UNCHANGED vars,
         UNCHANGED resaves
  PROVE  CopyInv' /\ fs' = fs
<1>1. CASE Resume \/ SetAsideRaises \/ Crash
  BY <1>1 DEF CopyInv, TypeOK, CopyPhases, Saving, Resume, SetAsideRaises, Crash
<1>2. CASE Prune
  <2>1. Victims \in SUBSET Steps /\ victim \in Steps
    BY DEF Victims, History, StepDirs, CopyInv, TypeOK
  <2>2. victims' = Victims /\ victim' \in Steps /\ pc' \in {"idle", "remove"}
    BY <1>2, <2>1, StartRemovalFacts DEF Prune
  <2>3. CopyPhases'
    BY <2>2 DEF CopyPhases, Saving
  <2> QED BY <1>2, <2>1, <2>2, <2>3 DEF CopyInv, TypeOK, Prune
<1>3. CASE UNCHANGED vars
  BY <1>3 DEF CopyInv, TypeOK, CopyPhases, Saving, Intact, Exists
<1> QED BY <1>1, <1>2, <1>3

\* One step neither leaves the invariant nor loses the last copy of a step.
LEMMA CopyStep ==
  ASSUME CopyInv, [Next]_vars
  PROVE  /\ CopyInv'
         /\ \A s \in Steps :
              Copies(s) # {} /\ (pc # "remove" \/ victim # s) => Copies(s)' # {}
<1>0. UNCHANGED resaves
  BY DEF Next
<1>1. \A s \in Steps : Copies(s) # {} <=> Intact(Step(s)) \/ Intact(Old(s))
  BY DEF Copies, Step, Old
<1>2. \A s \in Steps : Copies(s)' # {} <=> Intact(Step(s))' \/ Intact(Old(s))'
  BY DEF Copies, Step, Old
<1>3. ASSUME NEW s \in Steps, fs'[Step(s)] = fs[Step(s)], fs'[Old(s)] = fs[Old(s)]
      PROVE  Copies(s) # {} => Copies(s)' # {}
  BY <1>1, <1>2, <1>3 DEF Intact, Exists
<1>4. CASE Resume \/ SetAsideRaises \/ Prune \/ Crash \/ UNCHANGED vars
  BY <1>0, <1>3, <1>4, FrozenCopy
<1>5. ASSUME NEW s \in Steps, InitTmp(s)
      PROVE  CopyInv' /\ \A t \in Steps : Copies(t) # {} => Copies(t)' # {}
  BY <1>0, <1>3, <1>5, InitTmpCopy
<1>6. CASE WriteInfo \/ WriteFiles
  BY <1>0, <1>3, <1>6, WriteCopy
<1>7. CASE Publish \/ Swap
  <2>1. \A t \in Steps : t # cur => (Copies(t) # {} => Copies(t)' # {})
    BY <1>0, <1>3, <1>7, PublishCopy
  <2>2. CopyInv' /\ Intact(Step(cur))' /\ cur \in Steps /\ cur' = cur
    BY <1>0, <1>7, PublishCopy DEF CopyInv, TypeOK, Publish, Swap
  <2>3. Copies(cur)' # {}
    BY <1>2, <2>2
  <2>4. \A t \in Steps : Copies(t) # {} => Copies(t)' # {}
    BY <2>1, <2>2, <2>3, Zenon DEF Copies
  <2> QED BY <2>2, <2>4
<1>8. CASE SetAside
  <2>1. \A t \in Steps : t # cur => (Copies(t) # {} => Copies(t)' # {})
    BY <1>0, <1>3, <1>8, SetAsideCopy
  <2>2. cur \in Steps /\ ~Intact(Old(cur)) /\ fs'[Old(cur)] = fs[Step(cur)] /\ cur' = cur
    BY <1>0, <1>8, SetAsideCopy, ContentFacts DEF CopyInv, TypeOK, Intact, SetAside
  <2>3. Intact(Step(cur)) => Intact(Old(cur))'
    BY <2>2 DEF Intact, Exists
  <2>4. Copies(cur) # {} => Copies(cur)' # {}
    BY <1>1, <1>2, <2>2, <2>3
  <2>5. CopyInv'
    BY <1>0, <1>8, SetAsideCopy
  <2>6. cur' = cur
    BY <2>2
  <2>7. \A t \in Steps : Copies(t) # {} => Copies(t)' # {}
    BY <2>1, <2>2, <2>4, <2>6 DEF Copies
  <2> QED BY <2>5, <2>7
<1>9. CASE DropOld
  <2>1. \A t \in Steps : t # cur => (Copies(t) # {} => Copies(t)' # {})
    BY <1>0, <1>3, <1>9, DropOldCopy
  <2>2. cur \in Steps /\ Intact(Step(cur)) /\ fs'[Step(cur)] = fs[Step(cur)] /\ cur' = cur
    BY <1>0, <1>9, DropOldCopy DEF CopyInv, TypeOK, DropOld
  <2>3. Intact(Step(cur))'
    BY <2>2 DEF Intact, Exists
  <2> QED BY <1>0, <1>2, <1>9, <2>1, <2>2, <2>3, DropOldCopy
<1>10. CASE RemoveVictim
  BY <1>0, <1>3, <1>10, RemoveVictimCopy
<1> QED BY <1>4, <1>5, <1>6, <1>7, <1>8, <1>9, <1>10 DEF Next

\* A save over an existing checkpoint, lost wherever it may be, never loses
\* the last complete copy of a step; only the pruning deletes one.
THEOREM OneCopyKept == Spec => CopyKept
<1>1. CopyInv /\ [Next]_vars =>
        CopyInv' /\ [\A s \in Steps : Copies(s) # {} /\ (pc # "remove" \/ victim # s)
                        => Copies(s)' # {}]_vars
  BY CopyStep
<1> QED BY CopyInit, <1>1, PTL DEF Spec, CopyKept

-----------------------------------------------------------------------------
(***************************************************************************)
(* A training loop's manager implements the store.  What makes a deletion  *)
(* a Drop is that KeepTopK better complete checkpoints are still there     *)
(* when it happens, after the other deletions of the same pruning and      *)
(* after crashes that left some half done: better ones than one that goes  *)
(* are better than all it was better than.                                 *)
(***************************************************************************)

LEMMA Countable ==
  /\ \A S \in SUBSET Steps : IsFiniteSet(S) /\ Cardinality(S) \in Nat
  /\ \A S, T \in SUBSET Steps : S \subseteq T => Cardinality(S) <= Cardinality(T)
<1>1. IsFiniteSet(Steps)
  BY FS_Interval DEF Steps
<1>2. \A S \in SUBSET Steps : IsFiniteSet(S)
  BY <1>1, FS_Subset
<1> QED BY <1>2, FS_Subset, FS_CardinalityType

LEMMA CompleteFacts ==
  /\ CompleteSteps \subseteq History /\ History \subseteq StepDirs /\ StepDirs \subseteq Steps
  /\ \A s \in History : Metric(s) \in Nat
BY DEF CompleteSteps, History, StepDirs, Metric, Intact

\* The order of the pruning is a strict order.
LEMMA BeforeOrder ==
  /\ \A s \in History : ~Before(s, s)
  /\ \A s, t, u \in History : Before(s, t) /\ Before(t, u) => Before(s, u)
<1>1. \A s \in History : Metric(s) \in Nat /\ s \in Int
  BY CompleteFacts DEF Steps
<1> QED BY <1>1 DEF Before

\* A worse one has at least as many better ones.
LEMMA WorseHasMore ==
  ASSUME NEW v \in History, NEW w \in History, Before(w, v), Dispensable(w),
         KeepTopK \in Nat, NEW S \in SUBSET Steps, BetterThan(w) \subseteq S
  PROVE  Cardinality(S) >= KeepTopK
<1>1. BetterThan(w) \in SUBSET Steps
  BY CompleteFacts DEF BetterThan
<1>2. Cardinality(BetterThan(w)) <= Cardinality(S)
  BY <1>1, Countable
<1>3. Cardinality(BetterThan(w)) >= KeepTopK /\ Cardinality(BetterThan(w)) \in Nat
  BY <1>1, Countable DEF Dispensable
<1>4. Cardinality(S) \in Nat
  BY Countable
<1> QED BY <1>2, <1>3, <1>4

LEMMA StoreInvInit == Init /\ ~resaves => StoreInv
<1>1. Init => StepDirs = {} /\ History = {}
  BY PathFacts DEF Init, StepDirs, History, Exists, Step
<1> QED BY <1>1, InvInit DEF StoreInv, DroppedOnly, Init

\* Steps that leave the step_* directories alone.
LEMMA SameHistory ==
  ASSUME \A t \in Steps : fs'[Step(t)] = fs[Step(t)]
  PROVE  /\ StepDirs' = StepDirs /\ History' = History /\ CompleteSteps' = CompleteSteps
         /\ \A s \in Steps : IsLatest(s)' <=> IsLatest(s)
         /\ \A s \in Steps : Metric(s)' = Metric(s)
         /\ \A s \in Steps : BetterThan(s)' = BetterThan(s)
         /\ \A s \in Steps : Dispensable(s)' <=> Dispensable(s)
         /\ LatestStep' = LatestStep /\ Saved' = Saved
<1>1. /\ StepDirs' = StepDirs /\ CompleteSteps' = CompleteSteps
      /\ \A s \in Steps : IsLatest(s)' <=> IsLatest(s)
  BY SameSteps DEF CompleteSteps
<1>2. \A s \in Steps : Metric(s)' = Metric(s)
  BY DEF Metric
<1>3. History' = History
  BY <1>1 DEF History, StepDirs
<1>4. \A s \in Steps : BetterThan(s)' = BetterThan(s)
  BY <1>1, <1>2 DEF BetterThan, Before, CompleteSteps
<1>5. \A s \in Steps : Dispensable(s)' <=> Dispensable(s)
  BY <1>4 DEF Dispensable
<1>6. LatestStep' = LatestStep
  BY <1>1 DEF LatestStep, IsLatest
<1>7. Saved' = Saved
  BY <1>1, <1>2 DEF Saved, CompleteSteps
<1> QED BY <1>1, <1>2, <1>3, <1>4, <1>5, <1>6, <1>7

LEMMA SameStore ==
  ASSUME StoreInv, \A t \in Steps : fs'[Step(t)] = fs[Step(t)],
         pc' = "remove" => pc = "remove" /\ victims' = victims
  PROVE  DroppedOnly' /\ UNCHANGED <<Store!storeVars>>
<1>1. DroppedOnly'
  BY SameHistory, CompleteFacts DEF StoreInv, DroppedOnly
<1> QED BY <1>1, SameHistory DEF Store!storeVars

LEMMA LatestIs ==
  ASSUME NEW s \in Steps
  PROVE  /\ IsLatest(s) => LatestStep = s
         /\ IsLatest(s)' => LatestStep' = s
<1>1. /\ \A t, u \in StepDirs : IsLatest(t) /\ IsLatest(u) => t = u
      /\ \A t, u \in StepDirs' : IsLatest(t)' /\ IsLatest(u)' => t = u
  BY DEF IsLatest, StepDirs, Steps
<1>2. IsLatest(s) => s \in StepDirs /\ StepDirs # {}
  BY DEF IsLatest
<1>3. IsLatest(s)' => s \in StepDirs' /\ StepDirs' # {}
  BY DEF IsLatest
<1>4. ASSUME IsLatest(s) PROVE LatestStep = s
  BY <1>1, <1>2, <1>4 DEF LatestStep
<1>5. ASSUME IsLatest(s)' PROVE LatestStep' = s
  BY <1>1, <1>3, <1>5 DEF LatestStep
<1> QED BY <1>4, <1>5

\* The rename is the store's Publish; the new checkpoint is complete, so what
\* had KeepTopK better ones has them still.
LEMMA PublishStore ==
  ASSUME StoreInv, Publish
  PROVE  DroppedOnly' /\ Store!Next
<1>0. PICK k \in Steps : k = cur /\ k = cur'
  BY PublishFacts DEF StoreInv
<1>1. /\ \A t \in StepDirs : t < k
      /\ fs'[Step(k)].info \in Metrics
      /\ \A t \in Steps : t # k => fs'[Step(t)] = fs[Step(t)]
      /\ StepDirs' = StepDirs \cup {k}
  BY <1>0, PublishFacts DEF StoreInv
<1>2. Intact(Step(k))' /\ IsLatest(k)' /\ pc' = "prune"
  BY <1>0, PublishFacts DEF StoreInv, Intact, Exists, IsLatest, Publish
<1>3. k \notin StepDirs
  BY <1>1 DEF Steps
<1>4. \A t \in Steps : t # k => (Intact(Step(t))' <=> Intact(Step(t)))
  BY <1>1 DEF Intact, Exists
<1>5. CompleteSteps' = CompleteSteps \cup {k} /\ History' = History \cup {k}
  <2>1. CompleteSteps' = CompleteSteps \cup {k}
    BY <1>2, <1>4 DEF CompleteSteps
  <2>2. History' = History \cup {k}
    BY <1>1, <1>3 DEF History, StepDirs
  <2> QED BY <2>1, <2>2
<1>6. \A t \in Steps : t # k => Metric(t)' = Metric(t)
  BY <1>1 DEF Metric
<1>7. k \notin CompleteSteps /\ k \notin History
  BY <1>3, CompleteFacts
<1>8. ASSUME NEW v \in History, Dispensable(v), KeepTopK \in Nat
      PROVE  Dispensable(v)'
  <2>1. v # k /\ v \in Steps
    BY <1>7, CompleteFacts
  <2>2. BetterThan(v) \subseteq BetterThan(v)'
    BY <1>5, <1>6, <1>7, <2>1, CompleteFacts DEF BetterThan, Before
  <2>3. BetterThan(v) \in SUBSET Steps /\ BetterThan(v)' \in SUBSET Steps
    BY <1>5, CompleteFacts DEF BetterThan
  <2>4. Cardinality(BetterThan(v)) <= Cardinality(BetterThan(v)')
    BY <2>2, <2>3, Countable
  <2>5. Cardinality(BetterThan(v)) \in Nat /\ Cardinality(BetterThan(v)') \in Nat
    BY <2>3, Countable
  <2>6. Cardinality(BetterThan(v)') >= KeepTopK
    BY <1>8, <2>4, <2>5 DEF Dispensable
  <2> QED BY <2>6 DEF Dispensable
<1>9. DroppedOnly'
  <2>1. StepDirs' # {} => \E s \in Steps : IsLatest(s)'
    BY <1>2
  <2>2. ASSUME NEW v \in History', v \notin CompleteSteps', KeepTopK # KeepAll
        PROVE  Dispensable(v)'
    BY <1>5, <1>8, <2>2, CheckpointAssumption DEF StoreInv, DroppedOnly
  <2> QED BY <1>2, <2>1, <2>2 DEF DroppedOnly
<1>10. LatestStep' = k /\ k \in Nat /\ k > LatestStep
  <2>1. LatestStep' = k
    BY <1>2, LatestIs
  <2>2. CASE StepDirs = {}
    BY <2>1, <2>2 DEF LatestStep, Steps
  <2>3. CASE StepDirs # {}
    <3>1. PICK l \in Steps : IsLatest(l)
      BY <2>3 DEF StoreInv, DroppedOnly
    <3>2. LatestStep = l /\ l \in StepDirs
      BY <3>1, LatestIs DEF IsLatest
    <3> QED BY <1>1, <2>1, <3>2 DEF Steps
  <2> QED BY <2>2, <2>3
<1>11. Saved' = Saved \cup {[step |-> k, metric |-> fs'[Step(k)].info]}
  <2>1. Metric(k)' = fs'[Step(k)].info
    BY DEF Metric
  <2>2. \A t \in CompleteSteps : Metric(t)' = Metric(t)
    BY <1>6, <1>7, CompleteFacts
  <2> QED BY <1>5, <2>1, <2>2 DEF Saved
<1> QED BY <1>1, <1>9, <1>10, <1>11 DEF Store!Next, Store!Publish

\* The pruning decides to delete what has KeepTopK better ones in the history;
\* those of them that are half deleted have KeepTopK better complete ones.
LEMMA PruneStore ==
  ASSUME StoreInv, Prune
  PROVE  DroppedOnly' /\ UNCHANGED <<Store!storeVars>>
<1>0. \A t \in Steps : fs'[Step(t)] = fs[Step(t)]
  BY DEF Prune
<1>1. ASSUME NEW v \in Victims PROVE KeepTopK \in Nat /\ v \in History /\ Dispensable(v)
  <2> DEFINE S == {t \in History : Before(t, v)}
  <2>1. KeepTopK # KeepAll /\ v \in History /\ v \notin TopK
    BY <1>1 DEF Victims
  <2>2. S \in SUBSET Steps /\ Cardinality(S) \in Nat
    BY CompleteFacts, Countable
  <2>3. KeepTopK \in Nat /\ Cardinality(S) >= KeepTopK
    BY <2>1, <2>2, CheckpointAssumption DEF TopK, Rank
  <2>4. CASE S \subseteq CompleteSteps
    <3>1. BetterThan(v) = S
      BY <2>4, CompleteFacts DEF BetterThan
    <3> QED BY <2>1, <2>3, <3>1 DEF Dispensable
  <2>5. CASE ~(S \subseteq CompleteSteps)
    <3>1. PICK t \in S : t \notin CompleteSteps
      BY <2>5
    <3>2. t \in History /\ Before(t, v)
      BY <3>1
    <3>3. Dispensable(t)
      BY <2>1, <3>1, <3>2 DEF StoreInv, DroppedOnly
    <3>4. BetterThan(t) \subseteq BetterThan(v) /\ BetterThan(v) \in SUBSET Steps
      BY <2>1, <3>2, BeforeOrder, CompleteFacts DEF BetterThan
    <3>5. Cardinality(BetterThan(v)) >= KeepTopK
      BY <2>1, <2>3, <3>2, <3>3, <3>4, WorseHasMore
    <3> QED BY <2>1, <2>3, <3>5 DEF Dispensable
  <2> QED BY <2>4, <2>5
<1>2. Victims # {} => KeepTopK # KeepAll
  BY DEF Victims
<1>3. victims' = Victims /\ (pc' = "remove" => Victims # {})
  BY DEF Prune, StartRemoval
<1>4. ASSUME NEW v \in History', KeepTopK # KeepAll,
             v \notin CompleteSteps' \/ (pc' = "remove" /\ v \in victims')
      PROVE  Dispensable(v)'
  <2>1. v \in History /\ v \in Steps
    BY <1>0, SameHistory, CompleteFacts
  <2>2. Dispensable(v)
    BY <1>0, <1>1, <1>3, <1>4, <2>1, SameHistory DEF StoreInv, DroppedOnly
  <2> QED BY <1>0, <2>1, <2>2, SameHistory
<1>5. StepDirs' # {} => \E s \in Steps : IsLatest(s)'
  BY <1>0, SameHistory DEF StoreInv, DroppedOnly
<1>6. DroppedOnly'
  BY <1>2, <1>3, <1>4, <1>5 DEF DroppedOnly
<1> QED BY <1>0, <1>6, SameHistory DEF Store!storeVars

\* What one deletion inside a victim leaves: the others as they are, and of
\* the victim an incomplete checkpoint with the metric it had, or none.
LEMMA RemovalFacts ==
  ASSUME LoopInv, RemoveVictim
  PROVE  /\ pc = "remove" /\ victim \in victims /\ victim \in Steps /\ victims' \subseteq victims
         /\ IsLatest(cur) /\ IsLatest(cur)' /\ cur \in Steps /\ victim # cur
         /\ \A t \in Steps : t # victim => fs'[Step(t)] = fs[Step(t)]
         /\ CompleteSteps' = CompleteSteps \ {victim}
         /\ History' \subseteq History /\ \A t \in History' : Metric(t)' = Metric(t)
<1>0. PICK k \in Steps, w \in Steps : k = cur /\ k = cur' /\ w = victim
  BY DEF LoopInv, TypeOK, RemoveVictim
<1>1. /\ pc = "remove" /\ w \in victims /\ (\A t \in victims : t < k) /\ victims \subseteq Steps
      /\ IsLatest(k)
  BY <1>0 DEF LoopInv, SavePhases, TypeOK, RemoveVictim
<1>2. /\ Step(w) \in Paths /\ fs[Step(w)].info # Torn
      /\ RemoveEntry(Step(w)) \/ RemoveDirectory(Step(w))
  BY <1>0, PathFacts DEF LoopInv, TypeOK, RemoveVictim
<1>3. \A t \in Steps : t # w => fs'[Step(t)] = fs[Step(t)]
  <2>1. \A r \in Paths : r # Step(w) => fs'[r] = fs[r]
    BY <1>2, DeleteCopy DEF LoopInv
  <2> QED BY <2>1, PathFacts
<1>4. /\ ~Intact(Step(w))'
      /\ fs'[Step(w)].info \in Metrics =>
           Exists(Step(w)) /\ fs'[Step(w)].info = fs[Step(w)].info
  <2>1. CASE RemoveEntry(Step(w))
    <3>1. PICK c \in Unlinked(fs[Step(w)]) : fs'[Step(w)] = c
      BY <1>2, <2>1 DEF RemoveEntry, LoopInv, TypeOK
    <3>2. fs[Step(w)] \in Content
      <4>1. Unlinked(Absent) = {}
        BY DEF Unlinked, Absent
      <4> QED BY <1>2, <3>1, <4>1 DEF LoopInv, TypeOK
    <3>3. /\ c.info \in Metrics => c.info = fs[Step(w)].info
          /\ c.info \in Metrics => c.files # "all"
      BY <3>1, <3>2, ContentFacts DEF Unlinked, Content
    <3> QED BY <3>1, <3>2, <3>3, ContentFacts DEF Intact, Exists
  <2>2. CASE RemoveDirectory(Step(w))
    <3>1. fs'[Step(w)] = Absent
      BY <1>2, <2>2 DEF RemoveDirectory, LoopInv, TypeOK
    <3> QED BY <3>1, ContentFacts DEF Intact, Exists
  <2> QED BY <1>2, <2>1, <2>2
<1>5. w # k /\ IsLatest(k)'
  <2>1. w # k /\ w <= k
    BY <1>1 DEF Steps
  <2>2. StepDirs' \subseteq StepDirs \cup {w} /\ k \in StepDirs'
    BY <1>1, <1>3, <2>1 DEF StepDirs, Exists, IsLatest
  <2> QED BY <1>1, <2>1, <2>2 DEF IsLatest
<1>6. CompleteSteps' = CompleteSteps \ {w}
  BY <1>3, <1>4 DEF CompleteSteps, Intact, Exists
<1>7. History' \subseteq History /\ \A t \in History' : Metric(t)' = Metric(t)
  BY <1>3, <1>4 DEF History, StepDirs, Exists, Metric
<1>8. victims' \subseteq victims
  BY <1>1 DEF RemoveVictim, StartRemoval
<1>9. IsLatest(cur) /\ IsLatest(cur)'
  BY <1>0, <1>1, <1>5 DEF IsLatest
<1> QED BY <1>0, <1>1, <1>3, <1>5, <1>6, <1>7, <1>8, <1>9

\* The store counts as FiniteSets does.
LEMMA StoreCounts == \A S : Store!Cardinality(S) = Cardinality(S)
BY DEF Store!Cardinality, Cardinality

\* The checkpoints the store prefers to one are the better complete ones.
LEMMA BetterSaved ==
  ASSUME NEW w \in CompleteSteps
  PROVE  Store!Cardinality({d \in Saved : Store!Better(d, [step |-> w, metric |-> Metric(w)])})
           = Cardinality(BetterThan(w))
<1> DEFINE rec(t) == [step |-> t, metric |-> Metric(t)]
           D == {d \in Saved : Store!Better(d, rec(w))}
           f == [t \in BetterThan(w) |-> rec(t)]
<1>1. BetterThan(w) \subseteq CompleteSteps /\ IsFiniteSet(BetterThan(w))
  BY CompleteFacts, Countable DEF BetterThan
<1>2. \A t \in CompleteSteps : Store!Better(rec(t), rec(w)) <=> Before(t, w)
  BY DEF Store!Better, Before
<1>3. \A t \in BetterThan(w) : rec(t) \in D
  BY <1>1, <1>2 DEF BetterThan, Saved
<1>4. \A d \in D : \E t \in BetterThan(w) : d = rec(t)
  BY <1>2 DEF BetterThan, Saved
<1>5. f \in Injection(BetterThan(w), D)
  BY <1>3 DEF Injection, IsInjective
<1>6. f \in Surjection(BetterThan(w), D)
  BY <1>3, <1>4 DEF Surjection
<1>7. ExistsBijection(BetterThan(w), D)
  BY <1>5, <1>6 DEF ExistsBijection, Bijection
<1> HIDE DEF D
<1>8. Cardinality(D) = Cardinality(BetterThan(w))
  BY <1>1, <1>7, FS_Bijection
<1> QED BY <1>8, StoreCounts DEF D

\* The first deletion inside a complete victim is the store's Drop, any other
\* one a stutter; and whatever the victim was better than is worse than those
\* the victim itself was given up for.
LEMMA RemoveVictimStore ==
  ASSUME StoreInv, RemoveVictim
  PROVE  DroppedOnly' /\ [Store!Next]_<<Store!storeVars>>
<1>0. PICK w \in Steps : w = victim
  BY RemovalFacts DEF StoreInv
<1>1. /\ pc = "remove" /\ w \in victims /\ victims' \subseteq victims
      /\ cur \in Steps /\ IsLatest(cur) /\ w # cur
      /\ \A t \in Steps : t # w => fs'[Step(t)] = fs[Step(t)]
      /\ CompleteSteps' = CompleteSteps \ {w}
      /\ History' \subseteq History /\ \A t \in History' : Metric(t)' = Metric(t)
  BY <1>0, RemovalFacts DEF StoreInv
<1>2. KeepTopK # KeepAll /\ KeepTopK \in Nat
  BY <1>1, CheckpointAssumption DEF StoreInv, DroppedOnly
<1>3. \A v \in History :
        v \notin CompleteSteps \/ v \in victims => Dispensable(v)
  BY <1>1, <1>2 DEF StoreInv, DroppedOnly
<1>4. CompleteSteps' \subseteq History'
  BY DEF CompleteSteps, History, StepDirs, Intact
<1>5. ASSUME NEW v \in History' PROVE BetterThan(v)' = BetterThan(v) \ {w}
  BY <1>1, <1>4, <1>5 DEF BetterThan, Before
<1>6. ASSUME NEW v \in History', v \notin CompleteSteps' \/ v \in victims'
      PROVE  Dispensable(v)'
  <2>1. v \in History /\ Dispensable(v)
    <3>1. v \in History
      BY <1>1, <1>6
    <3>2. CASE v = w
      BY <1>1, <1>3, <3>1, <3>2
    <3>3. CASE v # w
      BY <1>1, <1>3, <1>6, <3>1, <3>3
    <3> QED BY <3>1, <3>2, <3>3
  <2>2. CASE w \notin BetterThan(v)
    <3>1. BetterThan(v)' = BetterThan(v)
      BY <1>5, <2>2
    <3> QED BY <2>1, <3>1 DEF Dispensable
  <2>3. CASE w \in BetterThan(v)
    <3>1. w \in CompleteSteps /\ w \in History /\ Before(w, v)
      BY <2>3, CompleteFacts DEF BetterThan
    <3>2. Dispensable(w)
      BY <1>1, <1>3, <3>1
    <3>3. BetterThan(w) \subseteq BetterThan(v) \ {w}
      BY <2>1, <3>1, BeforeOrder, CompleteFacts DEF BetterThan
    <3>4. BetterThan(v) \ {w} \in SUBSET Steps
      BY CompleteFacts DEF BetterThan
    <3>5. Cardinality(BetterThan(v) \ {w}) >= KeepTopK
      BY <1>2, <2>1, <3>1, <3>2, <3>3, <3>4, WorseHasMore
    <3>6. BetterThan(v)' = BetterThan(v) \ {w}
      BY <1>5
    <3> QED BY <3>5, <3>6 DEF Dispensable
  <2> QED BY <2>2, <2>3
<1>7. LatestStep = cur /\ LatestStep' = cur /\ IsLatest(cur)'
  <2>1. IsLatest(cur)' /\ cur' = cur
    BY RemovalFacts DEF StoreInv, RemoveVictim
  <2>2. PICK k \in Steps : k = cur /\ k = cur'
    BY <1>1, <2>1
  <2>3. IsLatest(k) /\ IsLatest(k)'
    BY <1>1, <2>1, <2>2 DEF IsLatest
  <2> QED BY <2>1, <2>2, <2>3, LatestIs
<1>8. DroppedOnly'
  <2>1. cur' \in Steps /\ IsLatest(cur)'
    BY <1>1, <1>7 DEF RemoveVictim
  <2>2. \E s \in Steps : IsLatest(s)'
    BY <1>1, <2>1 DEF RemoveVictim, IsLatest
  <2> QED BY <1>2, <1>6, <2>2 DEF DroppedOnly
<1>9. \A t \in CompleteSteps' : Metric(t)' = Metric(t)
  BY <1>1, <1>4
<1>10. CASE w \in CompleteSteps
  <2> DEFINE c == [step |-> w, metric |-> Metric(w)]
  <2>1. c \in Saved /\ Saved' = Saved \ {c}
    BY <1>1, <1>9, <1>10 DEF Saved
  <2>2. Store!Cardinality({d \in Saved : Store!Better(d, c)}) >= KeepTopK
    <3>1. Dispensable(w)
      BY <1>1, <1>3, <1>10, CompleteFacts
    <3> QED BY <1>10, <3>1, BetterSaved DEF Dispensable
  <2>3. c.step # LatestStep /\ LatestStep' = LatestStep
    BY <1>1, <1>7
  <2>4. KeepTopK # Store!KeepAll
    BY <1>2 DEF KeepAll, Store!KeepAll
  <2>5. Store!Drop(c)
    BY <2>1, <2>2, <2>3, <2>4 DEF Store!Drop
  <2> QED BY <1>8, <2>1, <2>5 DEF Store!Next
<1>11. CASE w \notin CompleteSteps
  <2>1. CompleteSteps' = CompleteSteps
    BY <1>1, <1>11
  <2>2. Saved' = Saved
    BY <1>9, <2>1 DEF Saved
  <2> QED BY <1>7, <1>8, <2>2 DEF Store!storeVars
<1> QED BY <1>10, <1>11

\* Every step of a training loop's manager is a step of the store or none.
LEMMA StoreStep ==
  ASSUME StoreInv, ~resaves, [Next]_vars
  PROVE  StoreInv' /\ [Store!Next]_<<Store!storeVars>>
<1>0. LoopInv' /\ UNCHANGED resaves
  BY InvNext DEF StoreInv, Next
<1>1. ASSUME NEW s \in Steps, InitTmp(s)
      PROVE  DroppedOnly' /\ UNCHANGED <<Store!storeVars>>
  <2>1. fs \in [Paths -> Content \cup {Absent}] /\ Tmp(s) \in Paths
    BY PathFacts DEF StoreInv, LoopInv, TypeOK
  <2>2. \A r \in Paths : r # Tmp(s) => fs'[r] = fs[r]
    BY <1>1, <2>1 DEF InitTmp, Scratch
  <2>3. \A t \in Steps : fs'[Step(t)] = fs[Step(t)]
    BY <2>2, PathFacts
  <2>4. pc' # "remove"
    BY <1>1 DEF InitTmp
  <2> QED BY <2>3, <2>4, SameStore
<1>2. CASE WriteInfo \/ WriteFiles
  <2>1. cur \in Steps /\ fs \in [Paths -> Content \cup {Absent}] /\ Tmp(cur) \in Paths
    BY PathFacts DEF StoreInv, LoopInv, TypeOK
  <2>2. \A r \in Paths : r # Tmp(cur) => fs'[r] = fs[r]
    BY <1>2, <2>1 DEF WriteInfo, WriteFiles, Scratch
  <2>3. \A t \in Steps : fs'[Step(t)] = fs[Step(t)]
    BY <2>1, <2>2, PathFacts
  <2>4. pc' # "remove"
    BY <1>2 DEF WriteInfo, WriteFiles
  <2> QED BY <1>0, <2>3, <2>4, SameStore DEF StoreInv
<1>3. CASE Publish
  BY <1>0, <1>3, PublishStore DEF StoreInv
<1>4. CASE SetAside \/ SetAsideRaises \/ Swap \/ DropOld
  <2>1. pc = "finalize" /\ Exists(Step(cur)) /\ cur \in Steps
    BY <1>4 DEF SetAside, SetAsideRaises, Swap, DropOld, StoreInv, LoopInv, TypeOK, SavePhases
  <2>2. cur \in StepDirs /\ cur < cur
    BY <2>1 DEF StepDirs, StoreInv, LoopInv, SavePhases, Saving
  <2> QED BY <2>1, <2>2 DEF Steps
<1>5. CASE Prune
  BY <1>0, <1>5, PruneStore DEF StoreInv
<1>6. CASE RemoveVictim
  BY <1>0, <1>6, RemoveVictimStore DEF StoreInv
<1>7. CASE Resume \/ Crash \/ UNCHANGED vars
  <2>1. \A t \in Steps : fs'[Step(t)] = fs[Step(t)]
    BY <1>7 DEF Resume, Crash
  <2>2. pc' = "remove" => pc = "remove" /\ victims' = victims
    BY <1>7 DEF Resume, Crash
  <2> QED BY <1>0, <2>1, <2>2, SameStore DEF StoreInv
<1> QED BY <1>0, <1>1, <1>2, <1>3, <1>4, <1>5, <1>6, <1>7, Zenon DEF Next, StoreInv

\* Under a training loop the directories behave as the store promises: a
\* checkpoint appears whole and is the latest, and one is given up only when
\* KeepTopK better complete ones are there, crashes and half done deletions
\* included.
THEOREM ManagerImplementsStore == Spec => ImplementsStore
<1>1. Init => Store!Init
  <2> SUFFICES ASSUME Init PROVE Store!Init
    OBVIOUS
  <2>1. StepDirs = {}
    BY PathFacts DEF Init, StepDirs, Exists, Step
  <2>2. CompleteSteps = {}
    BY <2>1, CompleteFacts
  <2> QED BY <2>1, <2>2 DEF Store!Init, Saved, LatestStep
<1>2. Init => (resaves \/ StoreInv)
  BY StoreInvInit
<1>3. (resaves \/ StoreInv) /\ [Next]_vars =>
        (resaves \/ StoreInv)' /\ [resaves \/ Store!Next]_<<Store!storeVars>>
  <2>1. [Next]_vars => resaves' = resaves
    BY DEF Next
  <2> QED BY <2>1, StoreStep
<1> QED BY <1>1, <1>2, <1>3, PTL DEF Spec, ImplementsStore
=============================================================================
