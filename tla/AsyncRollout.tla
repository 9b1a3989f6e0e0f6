----------------------------- MODULE AsyncRollout -----------------------------
(***************************************************************************)
(* run_async_multi_turn_rollout (experience/rollouts.py) over              *)
(* VllmGeneration.generate_async (models/generation/vllm.py): one          *)
(* coroutine per sample on one event loop.  A coroutine sends its turn to  *)
(* the leader of a data-parallel shard, a task of its own moves what the   *)
(* leader streams back into a queue, and the coroutine reads the queue     *)
(* with a timeout.  The environment call that follows is a blocking        *)
(* ray.get: while it lasts the whole loop stands still, the leaders and    *)
(* the timers do not.                                                      *)
(*                                                                         *)
(* Between two suspension points a callback is one step.  The leader       *)
(* (another process) answers, ends its stream, fails, or hangs.            *)
(***************************************************************************)
EXTENDS Integers, Sequences, SequencesExt

CONSTANTS
  Samples,      \* indices of the batch
  TurnLimit,    \* max_rollout_turns
  TurnChoices,  \* max_turns the environment may be configured with
  NShards       \* dp_size of the engine

ASSUME AsyncRolloutAssumption ==
  /\ Samples \subseteq Nat \ {0}
  /\ {TurnLimit, NShards} \subseteq Nat \ {0}
  /\ TurnChoices \subseteq Nat \ {0}

VARIABLES
  outcome,   \* of the whole rollout
  envTurns,  \* max_turns of each sample's environment
  pc,        \* pc[s]: where the coroutine of s is
  loop,      \* the coroutine whose blocking call holds the loop, or Idle
  turnCount, \* turn_count
  meta,      \* the step in current_extra_env_info, counted by the environment
  total,     \* total_reward
  terminated, truncated,
  abandoned, \* history: did an exception of the generation end the episode
  shard,     \* current_generate_dp_shard_idx
  load,      \* requests each shard was ever sent
  leader,    \* leader[s]: what the leader does for the request of s
  stream,    \* stream[s]: what it streamed and nobody has read
  queue,     \* result_queue
  finished,  \* the flag the reader of the queue looks at
  outputs,   \* collected_indexed_outputs: how many
  expired    \* has the timer of the current wait run out

episode  == <<turnCount, meta, total, terminated, truncated, abandoned>>
dispatch == <<shard, load>>
reading  == <<queue, finished, outputs, expired>>
vars == <<outcome, envTurns, pc, loop, episode, dispatch, leader, stream, reading>>

Idle == 0
Score(s) == s
Pcs     == {"new", "waiting", "env", "done"}
Items   == {"sample", "error", "worker_done"}
Leaders == {"none", "running", "answered", "finished", "failed"}

Init ==
  /\ outcome = "running"
  /\ envTurns \in [Samples -> TurnChoices]
  /\ pc = [s \in Samples |-> "new"]
  /\ loop = Idle
  /\ turnCount = [s \in Samples |-> 0]
  /\ meta = [s \in Samples |-> 0]
  /\ total = [s \in Samples |-> 0]
  /\ terminated = [s \in Samples |-> FALSE]
  /\ truncated = [s \in Samples |-> FALSE]
  /\ abandoned = [s \in Samples |-> FALSE]
  /\ shard = 0
  /\ load = [d \in 0..(NShards - 1) |-> 0]
  /\ leader = [s \in Samples |-> "none"]
  /\ stream = [s \in Samples |-> << >>]
  /\ queue = [s \in Samples |-> << >>]
  /\ finished = [s \in Samples |-> FALSE]
  /\ outputs = [s \in Samples |-> 0]
  /\ expired = [s \in Samples |-> FALSE]

Free == outcome = "running" /\ loop = Idle

-----------------------------------------------------------------------------
(* The coroutine of a sample.                                              *)

\* generate_async up to its first wait: the request goes to the leader of
\* the current shard, the index moves on, queue and flag are new.
NextShard  == (shard + 1) % NShards

Launch(s) ==
  /\ turnCount' = [turnCount EXCEPT ![s] = @ + 1]
  /\ load' = [load EXCEPT ![shard] = @ + 1]
  /\ shard' = NextShard
  /\ leader' = [leader EXCEPT ![s] = "running"]
  /\ stream' = [stream EXCEPT ![s] = << >>]
  /\ queue' = [queue EXCEPT ![s] = << >>]
  /\ finished' = [finished EXCEPT ![s] = FALSE]
  /\ outputs' = [outputs EXCEPT ![s] = 0]
  /\ expired' = [expired EXCEPT ![s] = FALSE]
  /\ pc' = [pc EXCEPT ![s] = "waiting"]

Begin(s) ==
  /\ Free /\ pc[s] = "new"
  /\ Launch(s)
  /\ UNCHANGED <<outcome, envTurns, loop, meta, total, terminated, truncated, abandoned>>

\* consume_worker_generator: it may find several items at once.  Whatever
\* ends the stream, the flag is set before the last item is queued, with no
\* suspension in between.
MarkerFirst(items) ==                                             \* faulty
  IF Last(items) = "sample" THEN items
  ELSE <<"worker_done">> \o (IF Last(items) = "end" THEN Front(items) ELSE items)
Moved(items) ==
  IF Last(items) = "sample" THEN items
  ELSE IF Last(items) = "end" THEN Append(Front(items), "worker_done")
       ELSE Append(items, "worker_done")

Consume(s, k) ==
  LET items == SubSeq(stream[s], 1, k)
  IN
  /\ Free /\ pc[s] = "waiting" /\ ~finished[s]
  /\ queue' = [queue EXCEPT ![s] = @ \o Moved(items)]
  /\ finished' = [finished EXCEPT ![s] = Last(items) # "sample"]
  /\ stream' = [stream EXCEPT ![s] = SubSeq(@, k + 1, Len(@))]
  /\ UNCHANGED <<outcome, envTurns, pc, loop, episode, dispatch, leader, outputs, expired>>

\* The response is complete: on to the environment, with a call that blocks.
CallEnv(s) ==
  /\ pc' = [pc EXCEPT ![s] = "env"]
  /\ loop' = s

\* An exception of the generation ends the episode; the sample is returned
\* with what it has.
Break(s) ==
  /\ abandoned' = [abandoned EXCEPT ![s] = TRUE]
  /\ pc' = [pc EXCEPT ![s] = "done"]
  /\ loop' = Idle

Leaves(s, n) == finished[s]

\* while not finished: an item is read; the flag decides whether another one
\* is waited for, with a new timer.
ReadItem(s) ==
  LET item == Head(queue[s])
      n    == outputs[s] + (IF item = "sample" THEN 1 ELSE 0)
  IN
  /\ Free /\ pc[s] = "waiting" /\ queue[s] # << >>
  /\ queue' = [queue EXCEPT ![s] = Tail(@)]
  /\ outputs' = [outputs EXCEPT ![s] = n]
  /\ expired' = [expired EXCEPT ![s] = FALSE]
  /\ \/ (item = "error" \/ (Leaves(s, n) /\ n = 0)) /\ Break(s)
     \/ item # "error" /\ Leaves(s, n) /\ n > 0 /\ CallEnv(s) /\ UNCHANGED abandoned
     \/ item # "error" /\ ~Leaves(s, n) /\ UNCHANGED <<pc, loop, abandoned>>
  /\ UNCHANGED <<outcome, envTurns, turnCount, meta, total, terminated, truncated,
                 dispatch, leader, stream, finished>>

\* The timeout wins against an item that is queued but not yet read: the
\* cancellation reaches the coroutine first.  The reading task is cancelled,
\* which sets the flag; the request itself is not.
GivesUpIfEmpty(s) == expired[s] /\ outputs[s] = 0                  \* faulty
GivesUp(s) == expired[s]

TimeOut(s) ==
  /\ Free /\ pc[s] = "waiting" /\ GivesUp(s)
  /\ finished' = [finished EXCEPT ![s] = TRUE]
  /\ Break(s)
  /\ UNCHANGED <<outcome, envTurns, turnCount, meta, total, terminated, truncated,
                 dispatch, leader, stream, queue, outputs, expired>>

-----------------------------------------------------------------------------
(* The environment call.                                                   *)

OverByEnvOnly(s, overflow) == meta[s] + 1 = envTurns[s]            \* faulty
Over(s, overflow) == meta[s] + 1 = envTurns[s] \/ overflow

\* The answer to the blocking call: the turn is accounted for, and either
\* the episode is over or the coroutine goes straight on to its next request.
EnvAnswers(s, overflow) ==
  LET last == meta[s] + 1 = envTurns[s]
  IN
  /\ outcome = "running" /\ pc[s] = "env"
  /\ total' = [total EXCEPT ![s] = @ + (IF last THEN Score(s) ELSE 0)]
  /\ terminated' = [terminated EXCEPT ![s] = last]
  /\ truncated' = [truncated EXCEPT ![s] = overflow]
  /\ meta' = [meta EXCEPT ![s] = IF Over(s, overflow) THEN @ ELSE @ + 1]
  /\ loop' = Idle
  /\ IF Over(s, overflow) \/ turnCount[s] = TurnLimit
     THEN /\ pc' = [pc EXCEPT ![s] = "done"]
          /\ UNCHANGED <<turnCount, dispatch, leader, stream, reading>>
     ELSE Launch(s)
  /\ UNCHANGED <<outcome, envTurns, abandoned>>

\* An exception outside the generation is re-raised and ends them all.
EnvRaises(s) ==
  /\ outcome = "running" /\ pc[s] = "env"
  /\ outcome' = "raised"
  /\ UNCHANGED <<envTurns, pc, loop, episode, dispatch, leader, stream, reading>>

Gather ==
  /\ Free /\ \A s \in Samples : pc[s] = "done"
  /\ outcome' = "returned"
  /\ UNCHANGED <<envTurns, pc, loop, episode, dispatch, leader, stream, reading>>

-----------------------------------------------------------------------------
(* The leader's process, and time.                                         *)

Streams(s, item, state) ==
  /\ outcome = "running"
  /\ stream' = [stream EXCEPT ![s] = Append(@, item)]
  /\ leader' = [leader EXCEPT ![s] = state]
  /\ UNCHANGED <<outcome, envTurns, pc, loop, episode, dispatch, reading>>

Answers(s)    == leader[s] = "running"  /\ Streams(s, "sample", "answered")
EndsStream(s) == leader[s] = "answered" /\ Streams(s, "end", "finished")
Fails(s)      == leader[s] \in {"running", "answered"} /\ Streams(s, "error", "failed")

\* A timer of minutes runs out only while there is nothing to read, or while
\* the loop stands still.
NothingToRead(s) == queue[s] = << >> /\ (stream[s] = << >> \/ finished[s])

Expire(s) ==
  /\ outcome = "running" /\ pc[s] = "waiting" /\ ~expired[s]
  /\ NothingToRead(s) \/ loop # Idle
  /\ expired' = [expired EXCEPT ![s] = TRUE]
  /\ UNCHANGED <<outcome, envTurns, pc, loop, episode, dispatch, leader, stream,
                 queue, finished, outputs>>

-----------------------------------------------------------------------------
Next ==
  \/ \E s \in Samples :
       \/ Begin(s) \/ ReadItem(s) \/ TimeOut(s) \/ EnvRaises(s)
       \/ \E k \in 1..Len(stream[s]) : Consume(s, k)
       \/ \E overflow \in BOOLEAN : EnvAnswers(s, overflow)
       \/ Answers(s) \/ EndsStream(s) \/ Fails(s) \/ Expire(s)
  \/ Gather

\* The loop runs its callbacks, timers run out and the environment answers.
\* Nothing is assumed of the leaders.
Fairness ==
  /\ WF_vars(Gather)
  /\ \A s \in Samples :
       /\ WF_vars(Begin(s)) /\ WF_vars(ReadItem(s)) /\ WF_vars(TimeOut(s)) /\ WF_vars(Expire(s))
       /\ WF_vars(\E k \in 1..Len(stream[s]) : Consume(s, k))
       /\ WF_vars(\E overflow \in BOOLEAN : EnvAnswers(s, overflow))

Spec == Init /\ [][Next]_vars /\ Fairness

-----------------------------------------------------------------------------
TypeOK ==
  /\ outcome \in {"running", "returned", "raised"}
  /\ envTurns \in [Samples -> TurnChoices]
  /\ pc \in [Samples -> Pcs]
  /\ loop \in Samples \cup {Idle}
  /\ turnCount \in [Samples -> 0..TurnLimit]
  /\ meta \in [Samples -> Nat]
  /\ total \in [Samples -> Nat]
  /\ \A f \in {terminated, truncated, abandoned, finished, expired} : f \in [Samples -> BOOLEAN]
  /\ shard \in 0..(NShards - 1)
  /\ load \in [0..(NShards - 1) -> Nat]
  /\ leader \in [Samples -> Leaders]
  /\ queue \in [Samples -> BoundedSeq(Items, 3)]
  /\ outputs \in [Samples -> {0, 1}]

\* A sample is given up only after its leader failed or a timer ran out: the
\* reader leaves its loop as soon as the flag is set, with items still in
\* the queue, and yet the response is never among those (vllm.py:1673-1712,
\* the assertion of rollouts.py:155).
AbandonedForCause == \A s \in Samples : abandoned[s] => expired[s] \/ leader[s] = "failed"

\* When the rollout returns, and the engine is put to sleep (grpo.py:588),
\* no leader is still busy with a request, except one that was given up after
\* a timeout.
QuietUnlessTimedOut ==
  outcome = "returned" =>
    \A s \in Samples : leader[s] \in {"running", "answered"} => expired[s]

\* No request is dropped on either side without a timeout or a failure.
DroppedForCause == AbandonedForCause /\ QuietUnlessTimedOut

\* Coroutines share the round-robin index, and still no shard is ever two
\* requests ahead of another (vllm.py:1624-1639).
EvenDispatch == \A d, e \in DOMAIN load : load[d] <= load[e] + 1

\* The episode of s as the coroutine's variables tell it.  turn_count runs
\* ahead of the environment while a turn is under way.
TurnsPlayed(s) ==
  IF pc[s] \in {"waiting", "env"} \/ abandoned[s] THEN turnCount[s] - 1 ELSE turnCount[s]

Fate(s) ==
  IF abandoned[s] THEN "abandoned"
  ELSE IF terminated[s] THEN "terminated"
  ELSE IF truncated[s] THEN "truncated" ELSE "open"

Episode(s) == [step |-> TurnsPlayed(s), reward |-> total[s], ended |-> Fate(s)]

E == INSTANCE Episodes WITH ep <- [s \in Samples |-> Episode(s)]

\* Every sample has the episode of its own the lockstep driver would give
\* it, up to the turn in which it may be given up.
ImplementsEpisodes == E!Spec

\* The rollout ends although a leader may hang for ever, because every wait
\* for one has a timer.
Returns == <>(outcome # "running")

-----------------------------------------------------------------------------
(***************************************************************************)
(* The inductive invariant behind DroppedForCause                          *)
(***************************************************************************)

\* <<leader, outputs, queue, stream>> of a request being waited for: what the
\* leader sent is read already, queued, or still to be moved, in this order.
UnderWay ==
  {<<"running", 0, << >>, << >>>>,
   <<"answered", 0, << >>, <<"sample">>>>,
   <<"answered", 0, <<"sample">>, << >>>>,
   <<"answered", 1, << >>, << >>>>,
   <<"finished", 0, << >>, <<"sample", "end">>>>,
   <<"finished", 0, <<"sample">>, <<"end">>>>,
   <<"finished", 1, << >>, <<"end">>>>,
   <<"failed", 0, << >>, <<"error">>>>,
   <<"failed", 0, << >>, <<"sample", "error">>>>,
   <<"failed", 0, <<"sample">>, <<"error">>>>,
   <<"failed", 1, << >>, <<"error">>>>}

\* <<leader, outputs, queue>> once the flag is set and nothing more comes: the
\* marker is behind everything, the response at the head unless it was read.
Ending ==
  {<<"finished", 0, <<"sample", "worker_done">>>>,
   <<"finished", 1, <<"worker_done">>>>,
   <<"failed", 0, <<"error", "worker_done">>>>,
   <<"failed", 0, <<"sample", "error", "worker_done">>>>,
   <<"failed", 1, <<"error", "worker_done">>>>}

InTransit(s) ==
  IF finished[s]
  THEN stream[s] = << >> /\ <<leader[s], outputs[s], queue[s]>> \in Ending
  ELSE <<leader[s], outputs[s], queue[s], stream[s]>> \in UnderWay

\* The leader is through with a request whose response reached the
\* environment, and with one given up unless a timer ran out.
Settled(s) == leader[s] \in {"finished", "failed"}

RequestInv(s) ==
  /\ pc[s] # "done" => ~abandoned[s]
  /\ pc[s] = "waiting" => InTransit(s)
  /\ pc[s] = "env" => Settled(s)
  /\ pc[s] = "done" => Settled(s) \/ expired[s]
  /\ abandoned[s] => expired[s] \/ leader[s] = "failed"

DropInv ==
  /\ \A s \in Samples : RequestInv(s)
  /\ outcome = "returned" => \A s \in Samples : pc[s] = "done"

===============================================================================
