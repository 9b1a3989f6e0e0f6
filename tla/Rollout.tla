------------------------------- MODULE Rollout -------------------------------
(***************************************************************************)
(* run_multi_turn_rollout (experience/rollouts.py) with InfiniSSTEnv: all  *)
(* samples of the batch that are still active take their turn together.    *)
(* Every array of a turn is indexed by position among the active samples,  *)
(* calculate_rewards regroups it by task for the environment actors and    *)
(* sorts the answers back, and an environment deals its rows to scorers    *)
(* and puts the scores back together.                                      *)
(*                                                                         *)
(* Positions count from 1.  A response, an observation and a score stand   *)
(* for the sample whose messages they were made from; that scores are      *)
(* normalised within the samples of a prompt is left out.  Every task of   *)
(* the batch has an environment in task_to_env.                            *)
(***************************************************************************)
EXTENDS Integers, Sequences, SequencesExt, FiniteSets

CONSTANTS
  N,            \* samples in the batch
  Tasks,        \* task names, one environment actor each
  TurnLimit,    \* max_rollout_turns
  TurnChoices,  \* max_turns an environment may be configured with
  NScorers      \* scorer workers of an environment

ASSUME RolloutAssumption ==
  /\ {N, TurnLimit, NScorers} \subseteq Nat \ {0}
  /\ TurnChoices \subseteq Nat \ {0}

Samples == 1..N

VARIABLES
  pc,
  task,       \* task[s]: task_name of sample s
  envTurns,   \* envTurns[t]: max_turns of the environment of task t
  turn,       \* turns the driver has taken
  active,     \* active_indices
  call,       \* call[t]: rows handed to the environment of t in this turn
  reply,      \* reply[t]: its EnvironmentReturn, NoReply or Raised
  total,      \* total_rewards
  turns,      \* sample_turn_counts
  meta,       \* extra_env_info: the step the environment counts
  metric,     \* sample_metrics, 0 where never set
  terminated, \* sample_terminated
  truncated,  \* sample_truncated
  maxed,      \* sample_max_turns_reached
  log         \* message_log

static == <<task, envTurns>>
samples == <<total, turns, meta, metric, terminated, truncated, maxed>>
vars == <<pc, static, turn, active, call, reply, samples, log>>

NoReply == [kind |-> "none"]
Raised  == [kind |-> "raised"]

Score(s) == s
Positions == 1..Len(active)

\* A set of numbers as a list, the least first.
Ascending(S) ==
  [k \in 1..Cardinality(S) |-> CHOOSE x \in S : Cardinality({y \in S : y < x}) = k - 1]

Init ==
  /\ pc = "turn" /\ turn = 0
  /\ task \in [Samples -> Tasks]
  /\ envTurns \in [Tasks -> TurnChoices]
  /\ active = [i \in Samples |-> i]
  /\ call = [t \in Tasks |-> << >>]
  /\ reply = [t \in Tasks |-> NoReply]
  /\ total = [s \in Samples |-> 0]
  /\ turns = [s \in Samples |-> 0]
  /\ meta = [s \in Samples |-> 0]
  /\ metric = [s \in Samples |-> 0]
  /\ terminated = [s \in Samples |-> FALSE]
  /\ truncated = [s \in Samples |-> FALSE]
  /\ maxed = [s \in Samples |-> FALSE]
  /\ log = [s \in Samples |-> << >>]

-----------------------------------------------------------------------------
(* The environment actor: InfiniSSTEnv.                                    *)

\* scorer_data[w::n]: the positions worker w is given.
Stride(k, w) == [j \in 1..((k + NScorers - w) \div NScorers) |-> w + (j - 1) * NScorers]

\* compute_reward: deal, score, and read results[i % n][i // n].
ComputeReward(rows) ==
  LET results(w) == [j \in 1..Len(Stride(Len(rows), w)) |->
                       Score(rows[Stride(Len(rows), w)[j]].sample)]
  IN  [i \in 1..Len(rows) |->
         results(((i - 1) % NScorers) + 1)[((i - 1) \div NScorers) + 1]]

\* step: every row's metadata counts one more turn; the first row decides
\* for the whole batch of rows.
LastBeforeCounting(t, rows) == rows[1].step = envTurns[t]          \* faulty
IsLast(t, rows) == rows[1].step + 1 = envTurns[t]

EnvReply(t, rows) ==
  LET scores == ComputeReward(rows)
      k      == Len(rows)
  IN  [kind        |-> "return",
       observation |-> [i \in 1..k |-> rows[i].sample],
       metadata    |-> [i \in 1..k |-> rows[i].step + 1],
       reward      |-> IF IsLast(t, rows) THEN scores ELSE [i \in 1..k |-> 0],
       terminated  |-> [i \in 1..k |-> IsLast(t, rows)],
       metric      |-> IF IsLast(t, rows) THEN scores ELSE << >>]

EnvStep(t) ==
  /\ call[t] # << >> /\ reply[t] = NoReply
  /\ reply' = [reply EXCEPT ![t] = EnvReply(t, call[t])]
  /\ UNCHANGED <<pc, static, turn, active, call, samples, log>>

\* A scorer or the environment itself raises.
EnvRaises(t) ==
  /\ call[t] # << >> /\ reply[t] = NoReply
  /\ reply' = [reply EXCEPT ![t] = Raised]
  /\ UNCHANGED <<pc, static, turn, active, call, samples, log>>

-----------------------------------------------------------------------------
(* calculate_rewards.                                                      *)

\* Positions of the active samples of task t, and the tasks in the order in
\* which they first occur.
Indices(t) == Ascending({i \in Positions : task[active[i]] = t})

FirstOfTask == {i \in Positions : \A j \in 1..(i - 1) : task[active[j]] # task[active[i]]}
TaskGroups ==
  LET first == Ascending(FirstOfTask) IN [g \in DOMAIN first |-> task[active[first[g]]]]

\* The results of all groups one after the other, and their positions.
InGroups(Of(_)) ==
  LET groups == TaskGroups IN FlattenSeq([g \in DOMAIN groups |-> Of(groups[g])])
IndicesOrder == InGroups(Indices)

\* all_x sorted by position in the batch.
LeftInGroupOrder(values) == values                                 \* faulty
Sorted(values) ==
  LET order == IndicesOrder
  IN [i \in Positions |-> values[CHOOSE k \in DOMAIN order : order[k] = i]]

Rewards      == LET Of(t) == reply[t].reward      IN Sorted(InGroups(Of))
Observations == LET Of(t) == reply[t].observation IN Sorted(InGroups(Of))
Metadata     == LET Of(t) == reply[t].metadata    IN Sorted(InGroups(Of))
Terminateds  == LET Of(t) == reply[t].terminated  IN Sorted(InGroups(Of))
MetricValues == LET Of(t) == reply[t].metric      IN InGroups(Of)

\* Sorting a metric that only some of the groups returned is an IndexError.
MetricsRagged == Len(MetricValues) \notin {0, Len(IndicesOrder)}

Calls == [t \in Tasks |->
            [j \in 1..Len(Indices(t)) |->
               LET s == active[Indices(t)[j]] IN [sample |-> s, step |-> meta[s]]]]

-----------------------------------------------------------------------------
(* run_multi_turn_rollout.                                                 *)

Continues == active # << >> /\ turn < TurnLimit

\* generate_responses appends to the lists the batch and its selection
\* share; then step.remote for every task.
Generate ==
  /\ pc = "turn" /\ Continues
  /\ log' = [s \in Samples |->
               IF Contains(active, s) THEN Append(log[s], <<"assistant", s>>) ELSE log[s]]
  /\ call' = Calls
  /\ reply' = [t \in Tasks |-> NoReply]
  /\ pc' = "wait"
  /\ UNCHANGED <<static, turn, active, samples>>

EveryTaskAnswered == \A t \in Tasks : reply[t] # NoReply           \* faulty
AllAnswered == \A t \in Tasks : call[t] # << >> => reply[t] # NoReply

\* ray.get of the futures raises, or calculate_rewards does.
CollectRaises ==
  /\ pc = "wait" /\ AllAnswered
  /\ \/ \E t \in Tasks : reply[t] = Raised
     \/ (\A t \in Tasks : reply[t] # Raised) /\ MetricsRagged
  /\ pc' = "raised"
  /\ call' = [t \in Tasks |-> << >>]
  /\ UNCHANGED <<static, turn, active, reply, samples, log>>

\* The position of an active sample.
At(s) == CHOOSE i \in Positions : active[i] = s

\* Samples that reach the maximal length with this observation: positions.
Collect(overflow) ==
  LET isActive(s) == Contains(active, s)
      done(i) == i \in overflow \/ Terminateds[i]
      next == Ascending({i \in Positions : ~done(i)})
  IN
  /\ pc = "wait" /\ AllAnswered
  /\ \A t \in Tasks : reply[t] # Raised
  /\ ~MetricsRagged
  /\ total' = [s \in Samples |-> IF isActive(s) THEN total[s] + Rewards[At(s)] ELSE total[s]]
  /\ metric' = [s \in Samples |->
                  IF isActive(s) /\ MetricValues # << >>
                  THEN Sorted(MetricValues)[At(s)] ELSE metric[s]]
  /\ log' = [s \in Samples |->
               IF isActive(s) THEN Append(log[s], <<"user", Observations[At(s)]>>) ELSE log[s]]
  /\ turns' = [s \in Samples |-> IF isActive(s) THEN turns[s] + 1 ELSE turns[s]]
  /\ truncated' = [s \in Samples |-> truncated[s] \/ (isActive(s) /\ At(s) \in overflow)]
  /\ terminated' = [s \in Samples |-> terminated[s] \/ (isActive(s) /\ done(At(s)))]
  /\ active' = [k \in DOMAIN next |-> active[next[k]]]
  /\ meta' = [s \in Samples |-> IF Contains(active', s) THEN Metadata[At(s)] ELSE meta[s]]
  /\ turn' = turn + 1
  /\ pc' = "turn"
  /\ call' = [t \in Tasks |-> << >>]
  /\ reply' = [t \in Tasks |-> NoReply]
  /\ UNCHANGED <<static, maxed>>

\* Who is still active has used up its turns.
Finish ==
  /\ pc = "turn" /\ ~Continues
  /\ maxed' = [s \in Samples |-> maxed[s] \/ Contains(active, s)]
  /\ pc' = "returned"
  /\ UNCHANGED <<static, turn, active, call, reply, log,
                 total, turns, meta, metric, terminated, truncated>>

Driver ==
  \/ Generate
  \/ \E overflow \in SUBSET Positions : Collect(overflow)
  \/ CollectRaises
  \/ Finish
Environment(t) == EnvStep(t) \/ EnvRaises(t)
Next == Driver \/ \E t \in Tasks : Environment(t)

\* The driver is a program that runs on; an environment call answers or
\* raises.
Fairness ==
  /\ WF_vars(Driver)
  /\ \A t \in Tasks : WF_vars(Environment(t))

Spec == Init /\ [][Next]_vars /\ Fairness

-----------------------------------------------------------------------------
TypeOK ==
  /\ pc \in {"turn", "wait", "returned", "raised"}
  /\ task \in [Samples -> Tasks]
  /\ envTurns \in [Tasks -> TurnChoices]
  /\ turn \in 0..TurnLimit
  /\ active \in BoundedSeq(Samples, N)
  /\ \A f \in {total, turns, meta, metric} : f \in [Samples -> Nat]
  /\ \A f \in {terminated, truncated, maxed} : f \in [Samples -> BOOLEAN]

\* However many samples have dropped out, in whatever order, and whatever
\* tasks are mixed, a sample's log holds a response to its own prompt and an
\* observation of its own episode, in turns (rollouts.py:407-459).
LogsOwn ==
  \A s \in Samples :
    /\ Len(log[s]) = 2 * turns[s] + (IF pc \in {"wait", "raised"} /\ Contains(active, s)
                                     THEN 1 ELSE 0)
    /\ \A i \in DOMAIN log[s] :
         log[s][i] = <<IF i % 2 = 1 THEN "assistant" ELSE "user", s>>

\* The lockstep driver gives every sample the episode it would have had
\* alone: it ends with its own environment's last turn, is paid its own score
\* once, and moves no more after its end.
E == INSTANCE Episodes WITH
  envTurns <- [s \in Samples |-> envTurns[task[s]]],
  ep <- [s \in Samples |->
           [step   |-> turns[s],
            reward |-> total[s],
            ended  |-> IF Contains(active, s) THEN "open"
                       ELSE IF metric[s] # 0 THEN "terminated" ELSE "truncated"]]

ImplementsEpisodes == E!Spec

\* Whatever the lengths of the episodes, the rollout comes to an end.
Returns == <>(pc \in {"returned", "raised"})

===============================================================================
