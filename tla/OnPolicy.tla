------------------------------- MODULE OnPolicy -------------------------------
(***************************************************************************)
(* What the GRPO driver promises, without engines, devices or refits: data *)
(* is collected with the current weights, an update consumes data of the   *)
(* current weights only, a checkpoint stores the current weights with a    *)
(* metric measured on them, and a restart resumes from the newest one.     *)
(***************************************************************************)
EXTENDS Integers

VARIABLES
  version,  \* version of the weights being trained
  data,     \* version that produced the data in hand, NoData when there is none
  saved     \* checkpoints: version and the version its metric was measured on

abstractVars == <<version, data, saved>>

NoData == -1

NewestVersion ==
  IF saved = {} THEN 0
  ELSE (CHOOSE c \in saved : \A d \in saved : d.version <= c.version).version

Init == version = 0 /\ data = NoData /\ saved = {}

Collect == data' = version /\ UNCHANGED <<version, saved>>

Update ==
  /\ data = version
  /\ version' = version + 1
  /\ data' = NoData
  /\ UNCHANGED saved

\* Older checkpoints may be dropped whenever a new one is stored.
Save ==
  /\ \E kept \in SUBSET saved :
       saved' = kept \cup {[version |-> version, measured |-> version]}
  /\ UNCHANGED <<version, data>>

\* The process is lost, and with it the data in hand.
Lose == data' = NoData /\ UNCHANGED <<version, saved>>

Restart == version' = NewestVersion /\ data' = NoData /\ UNCHANGED saved

Next == Collect \/ Update \/ Save \/ Lose \/ Restart

Spec == Init /\ [][Next]_abstractVars
=============================================================================
