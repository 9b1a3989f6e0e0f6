------------------------------- MODULE Episodes -------------------------------
(***************************************************************************)
(* What a multi-turn rollout promises, whatever drives it: each sample has *)
(* an episode of its own with its environment, a turn of one sample never  *)
(* touches another's, an ended episode stays as it is, and the score is    *)
(* paid once, in the turn the environment ends the episode.                *)
(*                                                                         *)
(* The environment is InfiniSSTEnv: it counts the turns in the sample's    *)
(* metadata and ends the episode, with a score, in turn envTurns[s].       *)
(* Scores are only told apart: sample s scores s.                          *)
(***************************************************************************)
EXTENDS Integers

CONSTANTS
  Samples,      \* indices of the batch, positive numbers
  TurnLimit,    \* max_rollout_turns
  TurnChoices   \* values of the environment's max_turns to consider

VARIABLES
  envTurns,  \* envTurns[s]: max_turns of the environment of sample s
  ep         \* ep[s]: the episode of sample s

Ends == {"open", "terminated", "truncated", "abandoned"}

Score(s) == s

Fresh == [step |-> 0, reward |-> 0, ended |-> "open"]

Start ==
  /\ envTurns \in [Samples -> TurnChoices]
  /\ ep = [s \in Samples |-> Fresh]

\* One turn of sample s: the environment answers, and the sequence may have
\* reached its maximal length.
Turn(e, s, n, overflow) ==
  LET last == e.step + 1 = n
  IN  [step   |-> e.step + 1,
       reward |-> e.reward + (IF last THEN Score(s) ELSE 0),
       ended  |-> IF last THEN "terminated"
                  ELSE IF overflow THEN "truncated" ELSE "open"]

CanTurn(s) == ep[s].ended = "open" /\ ep[s].step < TurnLimit

\* Some samples take a turn, together or alone.
Play(S, overflows) ==
  /\ \A s \in S : CanTurn(s)
  /\ ep' = [s \in Samples |->
              IF s \in S THEN Turn(ep[s], s, envTurns[s], s \in overflows) ELSE ep[s]]
  /\ UNCHANGED envTurns

\* A response could not be generated: the episode stays as far as it got.
Abandon(s) ==
  /\ CanTurn(s)
  /\ ep' = [ep EXCEPT ![s].ended = "abandoned"]
  /\ UNCHANGED envTurns

Step ==
  \/ \E S \in SUBSET Samples, overflows \in SUBSET Samples : Play(S, overflows)
  \/ \E s \in Samples : Abandon(s)

Spec == Start /\ [][Step]_<<envTurns, ep>>

===============================================================================
