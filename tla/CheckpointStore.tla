--------------------------- MODULE CheckpointStore ---------------------------
(***************************************************************************)
(* What the checkpoint manager promises the training loops, without        *)
(* directories: a checkpoint appears all at once and is then the latest,   *)
(* the latest never goes back, and a checkpoint is given up only when      *)
(* KeepTopK better ones are there.                                         *)
(***************************************************************************)
EXTENDS Integers, FiniteSets

CONSTANTS
  KeepTopK,    \* checkpointing.keep_top_k, KeepAll when it is null
  Metrics      \* values of the tracked metric, a larger one is better

KeepAll == -1

VARIABLES
  saved,   \* complete checkpoints, as [step, metric] records
  latest   \* step of the newest checkpoint, 0 when there is none

storeVars == <<saved, latest>>

\* Equal metrics: the more recent checkpoint is preferred.
Better(c, d) == c.metric > d.metric \/ (c.metric = d.metric /\ c.step > d.step)

Init == saved = {} /\ latest = 0

Publish(s, m) ==
  /\ s > latest
  /\ latest' = s
  /\ saved' = saved \cup {[step |-> s, metric |-> m]}

Drop(c) ==
  /\ KeepTopK # KeepAll
  /\ c.step # latest
  /\ Cardinality({d \in saved : Better(d, c)}) >= KeepTopK
  /\ saved' = saved \ {c}
  /\ UNCHANGED latest

Next ==
  \/ \E m \in Metrics : latest' \in Nat /\ Publish(latest', m)
  \/ \E c \in saved : Drop(c)

Spec == Init /\ [][Next]_storeVars
=============================================================================
