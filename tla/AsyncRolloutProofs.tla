-------------------------- MODULE AsyncRolloutProofs --------------------------
(***************************************************************************)
(* For any number of samples, turns and shards: the coroutines of          *)
(* AsyncRollout implement Episodes, their requests are spread evenly, and  *)
(* none is given up without a cause.                                       *)
(***************************************************************************)
EXTENDS AsyncRollout, SequenceTheorems, TLAPS

\* A coroutine's turn_count against the environment's count.
EpisodeTypes ==
  /\ envTurns \in [Samples -> TurnChoices]
  /\ pc \in [Samples -> Pcs]
  /\ turnCount \in [Samples -> 0..TurnLimit]
  /\ meta \in [Samples -> Nat]
  /\ total \in [Samples -> Nat]
  /\ \A f \in {terminated, truncated, abandoned} : f \in [Samples -> BOOLEAN]

Untouched(s) == turnCount[s] = 0 /\ meta[s] = 0
Underway(s)  == turnCount[s] = meta[s] + 1
Open(s)      == ~terminated[s] /\ ~truncated[s] /\ ~abandoned[s]

EpisodeInv ==
  /\ EpisodeTypes
  /\ \A s \in Samples :
       /\ pc[s] = "new" => Untouched(s) /\ Open(s)
       /\ pc[s] \in {"waiting", "env"} => Underway(s) /\ Open(s)

-----------------------------------------------------------------------------
(* What a step does to one episode, and to nobody else's.                  *)

EpisodeVars == <<envTurns, pc, turnCount, meta, total, terminated, truncated, abandoned>>

LEMMA InitInv == Init => EpisodeInv
  BY AsyncRolloutAssumption
     DEF Init, EpisodeInv, EpisodeTypes, Pcs, Untouched, Open, AsyncRolloutAssumption

\* Actions that change no variable of an episode.
LEMMA QuietSteps ==
  ASSUME NEW s \in Samples,
         \/ \E k \in 1..Len(stream[s]) : Consume(s, k)
         \/ EnvRaises(s) \/ Answers(s) \/ EndsStream(s) \/ Fails(s) \/ Expire(s)
  PROVE  UNCHANGED EpisodeVars
  BY DEF Consume, EnvRaises, Answers, EndsStream, Fails, Expire, Streams, EpisodeVars,
         episode, reading, dispatch

LEMMA GatherQuiet == Gather => UNCHANGED EpisodeVars
  BY DEF Gather, EpisodeVars, episode

LEMMA BeginInv ==
  ASSUME EpisodeInv, NEW s \in Samples, Begin(s)
  PROVE  EpisodeInv'
  BY AsyncRolloutAssumption
     DEF Begin, Launch, EpisodeInv, EpisodeTypes, Pcs, Untouched, Underway, Open,
         AsyncRolloutAssumption

\* What reading an item amounts to.
LEMMA ReadItemCases ==
  ASSUME NEW s \in Samples, ReadItem(s)
  PROVE  /\ pc[s] = "waiting"
         /\ UNCHANGED <<envTurns, turnCount, meta, total, terminated, truncated, shard, load>>
         /\ \/ pc' = [pc EXCEPT ![s] = "env"] /\ UNCHANGED abandoned
            \/ Break(s)
            \/ UNCHANGED <<pc, abandoned>>
  BY DEF ReadItem, CallEnv, dispatch

LEMMA ReadItemInv ==
  ASSUME EpisodeInv, NEW s \in Samples, ReadItem(s)
  PROVE  EpisodeInv'
  <1>1. /\ pc[s] = "waiting"
        /\ UNCHANGED <<envTurns, turnCount, meta, total, terminated, truncated>>
    BY ReadItemCases
  <1>2. CASE pc' = [pc EXCEPT ![s] = "env"] /\ UNCHANGED abandoned
    BY <1>1, <1>2 DEF EpisodeInv, EpisodeTypes, Pcs, Untouched, Underway, Open
  <1>3. CASE Break(s)
    BY <1>1, <1>3 DEF Break, EpisodeInv, EpisodeTypes, Pcs, Untouched, Underway, Open
  <1>4. CASE UNCHANGED <<pc, abandoned>>
    BY <1>1, <1>4 DEF EpisodeInv, EpisodeTypes, Untouched, Underway, Open
  <1> QED BY <1>2, <1>3, <1>4, ReadItemCases

LEMMA TimeOutInv ==
  ASSUME EpisodeInv, NEW s \in Samples, TimeOut(s)
  PROVE  EpisodeInv'
  BY DEF TimeOut, Break, EpisodeInv, EpisodeTypes, Pcs, Untouched, Underway, Open, dispatch

\* The answer of the environment, as far as episodes go.
LEMMA EnvAnswersCases ==
  ASSUME EpisodeInv, NEW s \in Samples, NEW overflow \in BOOLEAN, EnvAnswers(s, overflow)
  PROVE  LET last == meta[s] + 1 = envTurns[s]
         IN  /\ pc[s] = "env"
             /\ UNCHANGED <<envTurns, abandoned>>
             /\ total' = [total EXCEPT ![s] = @ + (IF last THEN s ELSE 0)]
             /\ terminated' = [terminated EXCEPT ![s] = last]
             /\ truncated' = [truncated EXCEPT ![s] = overflow]
             /\ meta' = [meta EXCEPT ![s] = IF last \/ overflow THEN @ ELSE @ + 1]
             /\ \/ /\ last \/ overflow \/ turnCount[s] = TurnLimit
                   /\ pc' = [pc EXCEPT ![s] = "done"]
                   /\ UNCHANGED <<turnCount, shard, load>>
                \/ /\ ~last /\ ~overflow /\ turnCount[s] # TurnLimit
                   /\ Launch(s)
  BY DEF EnvAnswers, Over, Score, dispatch

LEMMA EnvAnswersInv ==
  ASSUME EpisodeInv, NEW s \in Samples, NEW overflow \in BOOLEAN, EnvAnswers(s, overflow)
  PROVE  EpisodeInv'
  <1> DEFINE last == meta[s] + 1 = envTurns[s]
  <1>0. EpisodeTypes /\ s \in Nat /\ TurnLimit \in Nat /\ TurnChoices \subseteq Nat
    BY AsyncRolloutAssumption DEF EpisodeInv, AsyncRolloutAssumption
  <1>1. turnCount[s] = meta[s] + 1 /\ Open(s)
    BY EnvAnswersCases DEF EpisodeInv, Underway
  <1>2. EpisodeTypes'
    <2>1. /\ envTurns' \in [Samples -> TurnChoices]
          /\ meta' \in [Samples -> Nat]
          /\ total' \in [Samples -> Nat]
      BY EnvAnswersCases, <1>0 DEF EpisodeTypes
    <2>2. /\ terminated' \in [Samples -> BOOLEAN]
          /\ truncated' \in [Samples -> BOOLEAN]
          /\ abandoned' \in [Samples -> BOOLEAN]
      BY EnvAnswersCases, <1>0, Zenon DEF EpisodeTypes
    <2>3. pc' \in [Samples -> Pcs] /\ turnCount' \in [Samples -> 0..TurnLimit]
      <3>1. CASE pc' = [pc EXCEPT ![s] = "done"] /\ UNCHANGED turnCount
        BY <3>1, <1>0 DEF EpisodeTypes, Pcs
      <3>2. CASE turnCount[s] # TurnLimit /\ Launch(s)
        <4>1. /\ turnCount' = [turnCount EXCEPT ![s] = turnCount[s] + 1]
              /\ pc' = [pc EXCEPT ![s] = "waiting"]
          BY <3>2 DEF Launch
        <4>2. turnCount[s] + 1 \in 0..TurnLimit
          BY <3>2, <1>0 DEF EpisodeTypes
        <4> QED BY <4>1, <4>2, <1>0 DEF EpisodeTypes, Pcs
      <3> QED BY <3>1, <3>2, EnvAnswersCases
    <2> QED BY <2>1, <2>2, <2>3 DEF EpisodeTypes
  <1>3. ASSUME NEW u \in Samples
        PROVE  /\ pc'[u] = "new" => Untouched(u)' /\ Open(u)'
               /\ pc'[u] \in {"waiting", "env"} => Underway(u)' /\ Open(u)'
    <2>1. CASE u # s
      <3>1. /\ pc'[u] = pc[u] /\ turnCount'[u] = turnCount[u] /\ meta'[u] = meta[u]
            /\ terminated'[u] = terminated[u] /\ truncated'[u] = truncated[u]
            /\ abandoned'[u] = abandoned[u]
        BY EnvAnswersCases, <1>0, <2>1 DEF EpisodeTypes, Launch
      <3> QED BY <3>1 DEF EpisodeInv, Untouched, Underway, Open
    <2>2. CASE u = s /\ (last \/ overflow \/ turnCount[s] = TurnLimit)
      BY EnvAnswersCases, <1>0, <2>2 DEF EpisodeTypes
    <2>3. CASE u = s /\ ~last /\ ~overflow /\ turnCount[s] # TurnLimit
      <3>1. /\ pc'[s] = "waiting" /\ turnCount'[s] = turnCount[s] + 1 /\ meta'[s] = meta[s] + 1
            /\ ~terminated'[s] /\ ~truncated'[s] /\ abandoned'[s] = abandoned[s]
        BY EnvAnswersCases, <1>0, <2>3 DEF EpisodeTypes, Launch
      <3> QED BY <3>1, <1>1, <2>3 DEF Underway, Open
    <2> QED BY <2>1, <2>2, <2>3
  <1> QED BY <1>2, <1>3 DEF EpisodeInv

LEMMA NextInv == EpisodeInv /\ [Next]_vars => EpisodeInv'
  <1> SUFFICES ASSUME EpisodeInv, [Next]_vars PROVE EpisodeInv'
    OBVIOUS
  <1>1. ASSUME UNCHANGED EpisodeVars PROVE EpisodeInv'
    BY <1>1 DEF EpisodeInv, EpisodeTypes, EpisodeVars, Untouched, Underway, Open
  <1>2. CASE UNCHANGED vars
    BY <1>1, <1>2 DEF vars, EpisodeVars, episode
  <1>3. CASE \E s \in Samples : Begin(s)
    BY <1>3, BeginInv
  <1>4. CASE \E s \in Samples : ReadItem(s)
    BY <1>4, ReadItemInv
  <1>5. CASE \E s \in Samples : TimeOut(s)
    BY <1>5, TimeOutInv
  <1>6. CASE \E s \in Samples, overflow \in BOOLEAN : EnvAnswers(s, overflow)
    BY <1>6, EnvAnswersInv
  <1>7. CASE \/ Gather
             \/ \E s \in Samples :
                  \/ \E k \in 1..Len(stream[s]) : Consume(s, k)
                  \/ EnvRaises(s) \/ Answers(s) \/ EndsStream(s) \/ Fails(s) \/ Expire(s)
    <2>1. UNCHANGED EpisodeVars
      BY <1>7, QuietSteps, GatherQuiet
    <2> QED BY <1>1, <2>1
  <1> QED BY <1>2, <1>3, <1>4, <1>5, <1>6, <1>7 DEF Next

-----------------------------------------------------------------------------
(* Every step is a turn, the end of an episode, or nothing, to Episodes.   *)

Episodes == [s \in Samples |-> Episode(s)]

LEMMA StutterStep ==
  ASSUME UNCHANGED EpisodeVars PROVE UNCHANGED <<envTurns, Episodes>>
  BY DEF EpisodeVars, Episodes, Episode, TurnsPlayed, Fate

LEMMA BeginStep ==
  ASSUME EpisodeInv, NEW s \in Samples, Begin(s)
  PROVE  UNCHANGED <<envTurns, Episodes>>
  <1>1. /\ pc[s] = "new" /\ pc' = [pc EXCEPT ![s] = "waiting"]
        /\ turnCount' = [turnCount EXCEPT ![s] = turnCount[s] + 1]
        /\ UNCHANGED <<envTurns, total, terminated, truncated, abandoned>>
    BY DEF Begin, Launch
  <1>2. turnCount[s] = 0 /\ ~abandoned[s]
    BY <1>1 DEF EpisodeInv, Untouched, Open
  <1>3. ASSUME NEW u \in Samples PROVE Episode(u)' = Episode(u)
    <2>1. Fate(u)' = Fate(u) /\ total'[u] = total[u]
      BY <1>1 DEF Fate
    <2>2. TurnsPlayed(u)' = TurnsPlayed(u)
      BY <1>1, <1>2 DEF TurnsPlayed, EpisodeInv, EpisodeTypes
    <2> QED BY <2>1, <2>2 DEF Episode
  <1> QED BY <1>1, <1>3 DEF Episodes

\* A failed generation is an Abandon.
LEMMA BreakStep ==
  ASSUME EpisodeInv, NEW s \in Samples, pc[s] = "waiting", Break(s),
         UNCHANGED <<envTurns, turnCount, meta, total, terminated, truncated>>
  PROVE  E!Abandon(s)
  <1>1. /\ turnCount[s] \in 1..TurnLimit /\ Open(s)
        /\ TurnLimit \in Nat
    BY AsyncRolloutAssumption
       DEF EpisodeInv, EpisodeTypes, Underway, AsyncRolloutAssumption
  <1>2. /\ abandoned' = [abandoned EXCEPT ![s] = TRUE]
        /\ pc' = [pc EXCEPT ![s] = "done"]
    BY DEF Break
  <1>3. Episode(s) = [step |-> turnCount[s] - 1, reward |-> total[s], ended |-> "open"]
    BY <1>1 DEF Episode, TurnsPlayed, Fate, Open
  <1>4. Episode(s)' = [step |-> turnCount[s] - 1, reward |-> total[s], ended |-> "abandoned"]
    BY <1>2 DEF Episode, TurnsPlayed, Fate, EpisodeInv, EpisodeTypes
  <1>5. ASSUME NEW u \in Samples, u # s PROVE Episode(u)' = Episode(u)
    BY <1>2, <1>5 DEF Episode, TurnsPlayed, Fate, EpisodeInv, EpisodeTypes
  <1>6. E!CanTurn(s)
    BY <1>1, <1>3 DEF E!CanTurn
  <1>7. Episode(s)' = [Episode(s) EXCEPT !.ended = "abandoned"]
    BY <1>3, <1>4
  <1>8. [u \in Samples |-> Episode(u)]' = [[u \in Samples |-> Episode(u)] EXCEPT ![s].ended = "abandoned"]
    BY <1>5, <1>7, Zenon
  <1> QED BY <1>6, <1>8 DEF E!Abandon

\* The environment's answer is a turn of this sample alone.
LEMMA AnswerStep ==
  ASSUME EpisodeInv, NEW s \in Samples, NEW overflow \in BOOLEAN, EnvAnswers(s, overflow)
  PROVE  E!Play({s}, IF overflow THEN {s} ELSE {})
  <1> DEFINE last == meta[s] + 1 = envTurns[s]
  <1>0. /\ turnCount[s] \in 1..TurnLimit /\ Open(s)
        /\ turnCount[s] = meta[s] + 1 /\ meta[s] \in Nat
        /\ TurnLimit \in Nat
    BY EnvAnswersCases, AsyncRolloutAssumption
       DEF EpisodeInv, EpisodeTypes, Underway, AsyncRolloutAssumption
  <1>1. Episode(s) = [step |-> meta[s], reward |-> total[s], ended |-> "open"]
    BY EnvAnswersCases, <1>0 DEF Episode, TurnsPlayed, Fate, Open
  <1>2. TurnsPlayed(s)' = meta[s] + 1
    <2>1. CASE pc' = [pc EXCEPT ![s] = "done"] /\ UNCHANGED turnCount
      BY <2>1, <1>0, EnvAnswersCases DEF TurnsPlayed, EpisodeInv, EpisodeTypes, Open
    <2>2. CASE Launch(s)
      BY <2>2, <1>0 DEF Launch, TurnsPlayed, EpisodeInv, EpisodeTypes
    <2> QED BY <2>1, <2>2, EnvAnswersCases
  <1>3. Fate(s)' = IF last THEN "terminated" ELSE IF overflow THEN "truncated" ELSE "open"
    <2>1. /\ terminated \in [Samples -> BOOLEAN] /\ truncated \in [Samples -> BOOLEAN]
          /\ s \in Samples
      BY Zenon DEF EpisodeInv, EpisodeTypes
    <2>2. /\ terminated' = [terminated EXCEPT ![s] = last]
          /\ truncated' = [truncated EXCEPT ![s] = overflow]
          /\ abandoned' = abandoned
      BY EnvAnswersCases
    <2>3. terminated'[s] = last /\ truncated'[s] = overflow /\ abandoned'[s] = abandoned[s]
      BY <2>1, <2>2, Zenon
    <2> QED BY <2>3, <1>0, Zenon DEF Fate, Open
  <1>4. total'[s] = total[s] + (IF last THEN s ELSE 0)
    BY EnvAnswersCases DEF EpisodeInv, EpisodeTypes
  <1>5. Episode(s)' = E!Turn(Episode(s), s, envTurns[s], overflow)
    BY <1>1, <1>2, <1>3, <1>4 DEF Episode, E!Turn, E!Score
  <1>6. ASSUME NEW u \in Samples, u # s PROVE Episode(u)' = Episode(u)
    <2>1. /\ pc'[u] = pc[u] /\ turnCount'[u] = turnCount[u] /\ total'[u] = total[u]
          /\ terminated'[u] = terminated[u] /\ truncated'[u] = truncated[u]
          /\ abandoned'[u] = abandoned[u]
      BY EnvAnswersCases, <1>6 DEF EpisodeInv, EpisodeTypes, Launch
    <2> QED BY <2>1 DEF Episode, TurnsPlayed, Fate
  <1>7. E!CanTurn(s)
    BY <1>0, <1>1 DEF E!CanTurn
  <1>8. overflow = (s \in IF overflow THEN {s} ELSE {})
    OBVIOUS
  <1> QED BY <1>5, <1>6, <1>7, <1>8, EnvAnswersCases DEF E!Play

LEMMA NextStep ==
  EpisodeInv /\ [Next]_vars => E!Step \/ UNCHANGED <<envTurns, Episodes>>
  <1> SUFFICES ASSUME EpisodeInv, [Next]_vars
               PROVE  E!Step \/ UNCHANGED <<envTurns, Episodes>>
    OBVIOUS
  <1>1. CASE UNCHANGED EpisodeVars
    BY <1>1, StutterStep
  <1>2. CASE \E s \in Samples : Begin(s)
    BY <1>2, BeginStep
  <1>3. CASE \E s \in Samples : ReadItem(s)
    <2>1. PICK s \in Samples : ReadItem(s)
      BY <1>3
    <2>2. CASE Break(s)
      BY <2>1, <2>2, BreakStep, ReadItemCases DEF E!Step
    <2>3. CASE pc' = [pc EXCEPT ![s] = "env"] /\ UNCHANGED abandoned
      <3>1. ASSUME NEW u \in Samples PROVE Episode(u)' = Episode(u)
        BY <2>1, <2>3, ReadItemCases DEF Episode, TurnsPlayed, Fate, EpisodeInv, EpisodeTypes
      <3> QED BY <2>1, <3>1, ReadItemCases DEF Episodes
    <2>4. CASE UNCHANGED <<pc, abandoned>>
      BY <2>1, <2>4, ReadItemCases, StutterStep DEF EpisodeVars
    <2> QED BY <2>1, <2>2, <2>3, <2>4, ReadItemCases
  <1>4. CASE \E s \in Samples : TimeOut(s)
    <2>1. PICK s \in Samples : TimeOut(s)
      BY <1>4
    <2>2. /\ pc[s] = "waiting" /\ Break(s)
          /\ UNCHANGED <<envTurns, turnCount, meta, total, terminated, truncated>>
      BY <2>1 DEF TimeOut
    <2> QED BY <2>2, BreakStep DEF E!Step
  <1>5. CASE \E s \in Samples, overflow \in BOOLEAN : EnvAnswers(s, overflow)
    <2>1. PICK s \in Samples, overflow \in BOOLEAN : EnvAnswers(s, overflow)
      BY <1>5
    <2>2. {s} \in SUBSET Samples /\ (IF overflow THEN {s} ELSE {}) \in SUBSET Samples
      OBVIOUS
    <2> QED BY <2>1, <2>2, AnswerStep DEF E!Step
  <1> QED BY <1>1, <1>2, <1>3, <1>4, <1>5, QuietSteps, GatherQuiet
       DEF Next, vars, EpisodeVars, episode

LEMMA InitStart == Init => E!Start
  BY DEF Init, E!Start, E!Fresh, Episode, TurnsPlayed, Fate

\* The concurrent coroutines give every sample an episode of its own, with
\* failing and hanging leaders and in any order of callbacks
\* (rollouts.py:596-743).
THEOREM AsyncImplementsEpisodes == Spec => ImplementsEpisodes
  <1>1. Init => EpisodeInv /\ E!Start
    BY InitInv, InitStart
  <1>2. EpisodeInv /\ [Next]_vars => EpisodeInv' /\ [E!Step]_<<envTurns, Episodes>>
    BY NextInv, NextStep
  <1> QED BY <1>1, <1>2, PTL DEF Spec, ImplementsEpisodes, E!Spec, Episodes

-----------------------------------------------------------------------------
(* The round robin: shards below the index are one request ahead.          *)

Shards == 0..(NShards - 1)

Rounds(q) == \A d \in Shards : load[d] = q + (IF d < shard THEN 1 ELSE 0)

DispatchInv ==
  /\ shard \in Shards
  /\ load \in [Shards -> Nat]
  /\ \E q \in Nat : Rounds(q)

LEMMA LaunchDispatch ==
  ASSUME DispatchInv, NEW s \in Samples, Launch(s)
  PROVE  DispatchInv'
  <1>0. /\ NShards \in Nat \ {0}
        /\ shard \in Shards /\ load \in [Shards -> Nat]
    BY AsyncRolloutAssumption DEF DispatchInv, AsyncRolloutAssumption
  <1>1. /\ load' = [load EXCEPT ![shard] = load[shard] + 1]
        /\ shard' = (shard + 1) % NShards
    BY DEF Launch, NextShard
  <1>2. PICK q \in Nat : Rounds(q)
    BY DEF DispatchInv
  <1>3. load' \in [Shards -> Nat]
    BY <1>0, <1>1
  <1>4. CASE shard + 1 = NShards
    <2>1. shard' = 0
      BY <1>0, <1>1, <1>4
    <2>2. \A d \in Shards : load'[d] = q + 1
      BY <1>0, <1>1, <1>2, <1>4 DEF Rounds, Shards
    <2>3. q + 1 \in Nat /\ Rounds(q + 1)'
      BY <2>1, <2>2 DEF Rounds, Shards
    <2> QED BY <1>0, <1>3, <2>1, <2>3 DEF DispatchInv, Shards
  <1>5. CASE shard + 1 # NShards
    <2>1. shard' = shard + 1 /\ shard' \in Shards
      <3>1. shard + 1 \in 1..(NShards - 1) /\ NShards \in Nat
        BY <1>0, <1>5 DEF Shards
      <3>2. (shard + 1) % NShards = shard + 1
        BY <3>1
      <3> QED BY <3>1, <3>2, <1>1 DEF Shards
    <2>2. Rounds(q)'
      BY <1>0, <1>1, <1>2, <2>1 DEF Rounds, Shards
    <2> QED BY <1>3, <2>1, <2>2 DEF DispatchInv
  <1> QED BY <1>4, <1>5

LEMMA NextDispatch == DispatchInv /\ [Next]_vars => DispatchInv'
  <1> SUFFICES ASSUME DispatchInv, [Next]_vars PROVE DispatchInv'
    OBVIOUS
  <1>1. CASE UNCHANGED dispatch
    BY <1>1 DEF dispatch, DispatchInv, Rounds
  <1>2. CASE \E s \in Samples : Launch(s)
    BY <1>2, LaunchDispatch
  <1>3. (\E s \in Samples : Launch(s)) \/ UNCHANGED dispatch
    BY ZenonT(60) DEF Next, vars, Begin, ReadItem, TimeOut, EnvRaises, Consume, EnvAnswers, Answers,
           EndsStream, Fails, Streams, Expire, Gather, dispatch
  <1> QED BY <1>1, <1>2, <1>3

\* The requests of all coroutines together are spread evenly over the shards,
\* for any number of both (vllm.py:1624-1639).
THEOREM DispatchEven == Spec => []EvenDispatch
  <1>1. Init => DispatchInv
    <2> SUFFICES ASSUME Init PROVE DispatchInv
      OBVIOUS
    <2>1. 0 \in Shards
      BY AsyncRolloutAssumption DEF Shards, AsyncRolloutAssumption
    <2>2. Rounds(0)
      BY DEF Init, Rounds, Shards
    <2> QED BY <2>1, <2>2 DEF Init, DispatchInv, Shards
  <1>2. DispatchInv => EvenDispatch
    <2> SUFFICES ASSUME DispatchInv PROVE EvenDispatch
      OBVIOUS
    <2>1. PICK q \in Nat : Rounds(q)
      BY DEF DispatchInv
    <2>2. DOMAIN load = Shards
      BY DEF DispatchInv
    <2>3. ASSUME NEW d \in Shards, NEW e \in Shards PROVE load[d] <= load[e] + 1
      BY <2>1 DEF Rounds
    <2> QED BY <2>2, <2>3 DEF EvenDispatch
  <1> QED BY <1>1, <1>2, NextDispatch, PTL DEF Spec

-----------------------------------------------------------------------------
(***************************************************************************)
(* No request is dropped without a cause.  A request passes through        *)
(* finitely many stages, whatever the interleaving of its leader, its two  *)
(* callbacks and its timer; UnderWay and Ending list them.                 *)
(***************************************************************************)

\* A function of the samples, written once for each variable that is one.
OfSamples(f) == f = [s \in Samples |-> f[s]]

RequestVars == <<pc, abandoned, leader, stream, queue, finished, outputs, expired>>

Functions ==
  /\ OfSamples(pc) /\ OfSamples(abandoned) /\ OfSamples(leader) /\ OfSamples(stream)
  /\ OfSamples(queue) /\ OfSamples(finished) /\ OfSamples(outputs) /\ OfSamples(expired)

RequestsInv == Functions /\ DropInv

\* What a step leaves of a sample it does not concern.
Same(s) ==
  /\ pc'[s] = pc[s] /\ abandoned'[s] = abandoned[s] /\ leader'[s] = leader[s]
  /\ stream'[s] = stream[s] /\ queue'[s] = queue[s] /\ finished'[s] = finished[s]
  /\ outputs'[s] = outputs[s] /\ expired'[s] = expired[s]

LEMMA SameRequest ==
  ASSUME NEW s \in Samples, RequestInv(s), Same(s)
  PROVE  RequestInv(s)'
  BY DEF Same, RequestInv, InTransit, Settled

\* A sequence of one to three items is the tuple of its items.
LEMMA OneItem ==
  ASSUME NEW S, NEW q \in Seq(S), Len(q) = 1
  PROVE  q = <<q[1]>>
  BY SeqEqual

LEMMA TwoItems ==
  ASSUME NEW S, NEW q \in Seq(S), Len(q) = 2
  PROVE  q = <<q[1], q[2]>>
  <1>1. q[1] \in S /\ q[2] \in S
    BY ElementOfSeq
  <1>2. <<q[1], q[2]>> \in Seq(S) /\ Len(<<q[1], q[2]>>) = 2
    BY <1>1
  <1>3. \A i \in 1..2 : q[i] = <<q[1], q[2]>>[i]
    OBVIOUS
  <1> QED BY <1>2, <1>3, SeqEqual

LEMMA ThreeItems ==
  ASSUME NEW S, NEW q \in Seq(S), Len(q) = 3
  PROVE  q = <<q[1], q[2], q[3]>>
  <1>1. \A i \in 1..3 : q[i] \in S
    BY ElementOfSeq
  <1>2. <<q[1], q[2], q[3]>> \in Seq(S) /\ Len(<<q[1], q[2], q[3]>>) = 3
    BY <1>1
  <1>3. \A i \in 1..3 : q[i] = <<q[1], q[2], q[3]>>[i]
    OBVIOUS
  <1> QED BY <1>2, <1>3, SeqEqual

\* What a callback may find in the stream and take of it.
LEMMA Cuts ==
  ASSUME NEW a, NEW b
  PROVE  /\ SubSeq(<<a>>, 1, 1) = <<a>> /\ SubSeq(<<a>>, 2, 1) = << >>
         /\ SubSeq(<<a, b>>, 1, 1) = <<a>> /\ SubSeq(<<a, b>>, 2, 2) = <<b>>
         /\ SubSeq(<<a, b>>, 1, 2) = <<a, b>> /\ SubSeq(<<a, b>>, 3, 2) = << >>
  <1>1. <<a>> \in Seq({a, b}) /\ Len(<<a>>) = 1
    OBVIOUS
  <1>2. <<a, b>> \in Seq({a, b}) /\ Len(<<a, b>>) = 2
    OBVIOUS
  <1>3. ASSUME NEW i \in 1..2 PROVE SubSeq(<<a, b>>, i, i) = <<(<<a, b>>[i])>>
    <2>1. /\ SubSeq(<<a, b>>, i, i) \in Seq({a, b}) /\ Len(SubSeq(<<a, b>>, i, i)) = 1
          /\ SubSeq(<<a, b>>, i, i)[1] = <<a, b>>[i]
      BY <1>2, SubSeqProperties
    <2> QED BY <2>1, OneItem
  <1>4. SubSeq(<<a>>, 2, 1) = << >> /\ SubSeq(<<a, b>>, 3, 2) = << >>
    BY SubSeqEmpty
  <1>5. SubSeq(<<a, b>>, 1, 1) = <<a>> /\ SubSeq(<<a, b>>, 2, 2) = <<b>>
    BY <1>3
  <1>6. SubSeq(<<a>>, 1, 1) = <<a>> /\ SubSeq(<<a, b>>, 1, 2) = <<a, b>>
    BY <1>1, <1>2, SubSeqFull
  <1> QED BY <1>4, <1>5, <1>6

LEMMA CutOne ==
  ASSUME NEW a, NEW q, q = <<a>>, NEW k \in 1..Len(q)
  PROVE  k = 1 /\ SubSeq(q, 1, k) = <<a>> /\ SubSeq(q, k + 1, Len(q)) = << >>
  <1>1. k = 1 /\ k + 1 = 2 /\ Len(q) = 1
    OBVIOUS
  <1> QED BY <1>1, Cuts

LEMMA CutTwo ==
  ASSUME NEW a, NEW b
  PROVE  \A q : q = <<a, b>> =>
           \A k \in 1..Len(q) :
             \/ SubSeq(q, 1, k) = <<a>> /\ SubSeq(q, k + 1, Len(q)) = <<b>>
             \/ SubSeq(q, 1, k) = <<a, b>> /\ SubSeq(q, k + 1, Len(q)) = << >>
  <1> SUFFICES ASSUME NEW q, q = <<a, b>>, NEW k \in 1..Len(q)
               PROVE  \/ SubSeq(q, 1, k) = <<a>> /\ SubSeq(q, k + 1, Len(q)) = <<b>>
                      \/ SubSeq(q, 1, k) = <<a, b>> /\ SubSeq(q, k + 1, Len(q)) = << >>
    OBVIOUS
  <1>1. Len(q) = 2 /\ k \in {1, 2}
    OBVIOUS
  <1> DEFINE s == <<a, b>>
  <1>2. /\ SubSeq(s, 1, 1) = <<a>> /\ SubSeq(s, 2, 2) = <<b>>
        /\ SubSeq(s, 1, 2) = <<a, b>> /\ SubSeq(s, 3, 2) = << >>
    BY Cuts
  <1>3. q = s
    OBVIOUS
  <1> HIDE DEF s
  <1>4. CASE k = 1
    <2>1. k + 1 = 2
      BY <1>4
    <2> QED BY <1>1, <1>2, <1>3, <1>4, <2>1
  <1>5. CASE k = 2
    <2>1. k + 1 = 3
      BY <1>5
    <2> QED BY <1>1, <1>2, <1>3, <1>5, <2>1
  <1> QED BY <1>1, <1>4, <1>5

LEMMA Appended ==
  ASSUME NEW a, NEW b, NEW c
  PROVE  /\ Append(<< >>, a) = <<a>>
         /\ Append(<<a>>, b) = <<a, b>> /\ Append(<<a, b>>, c) = <<a, b, c>>
  <1>1. <<a>> \in Seq({a, b, c}) /\ Len(<<a>>) = 1 /\ 1 \in 1..Len(<<a>>)
    OBVIOUS
  <1>2. /\ <<a, b>> \in Seq({a, b, c}) /\ Len(<<a, b>>) = 2
        /\ 1 \in 1..Len(<<a, b>>) /\ 2 \in 1..Len(<<a, b>>)
    OBVIOUS
  <1>3. Append(<<a>>, b) = <<a, b>>
    <2> DEFINE q == Append(<<a>>, b)
    <2>1. q \in Seq({a, b, c}) /\ Len(q) = 2
      BY <1>1, AppendProperties
    <2>2. q[1] = a /\ q[2] = b
      BY <1>1, AppendProperties
    <2> QED BY <2>1, <2>2, TwoItems
  <1>4. Append(<<a, b>>, c) = <<a, b, c>>
    <2> DEFINE q == Append(<<a, b>>, c)
    <2>1. q \in Seq({a, b, c}) /\ Len(q) = 3
      BY <1>2, AppendProperties
    <2>2. q[1] = a /\ q[2] = b /\ q[3] = c
      BY <1>2, AppendProperties
    <2> QED BY <2>1, <2>2, ThreeItems
  <1> QED BY <1>3, <1>4

LEMMA JoinedTwo ==
  ASSUME NEW a, NEW b
  PROVE  <<a>> \o <<b>> = <<a, b>>
  <1> DEFINE q == <<a>> \o <<b>>
  <1>1. <<a>> \in Seq({a, b}) /\ Len(<<a>>) = 1 /\ <<b>> \in Seq({a, b}) /\ Len(<<b>>) = 1
    OBVIOUS
  <1>2. q \in Seq({a, b}) /\ Len(q) = 2
    BY <1>1, ConcatProperties
  <1>3. q[1] = a /\ q[2] = b
    BY <1>1, ConcatProperties
  <1> QED BY <1>2, <1>3, TwoItems

LEMMA JoinedThree ==
  ASSUME NEW a, NEW b, NEW c
  PROVE  <<a>> \o <<b, c>> = <<a, b, c>>
  <1> DEFINE q == <<a>> \o <<b, c>>
  <1>1. <<a>> \in Seq({a, b, c}) /\ Len(<<a>>) = 1
    OBVIOUS
  <1>2. <<b, c>> \in Seq({a, b, c}) /\ Len(<<b, c>>) = 2
    OBVIOUS
  <1>3. q \in Seq({a, b, c}) /\ Len(q) = 3
    BY <1>1, <1>2, ConcatProperties
  <1>4. q[1] = a /\ q[2] = b /\ q[3] = c
    BY <1>1, <1>2, ConcatProperties
  <1> QED BY <1>3, <1>4, ThreeItems

\* What the callback puts into the queue for what it found.
LEMMA MovedItems ==
  /\ Moved(<<"sample">>) = <<"sample">> /\ Last(<<"sample">>) = "sample"
  /\ Moved(<<"end">>) = <<"worker_done">> /\ Last(<<"end">>) = "end"
  /\ Moved(<<"error">>) = <<"error", "worker_done">> /\ Last(<<"error">>) = "error"
  /\ Moved(<<"sample", "end">>) = <<"sample", "worker_done">>
  /\ Last(<<"sample", "end">>) = "end"
  /\ Moved(<<"sample", "error">>) = <<"sample", "error", "worker_done">>
  /\ Last(<<"sample", "error">>) = "error"
  <1>1. \A a : Last(<<a>>) = a /\ Front(<<a>>) = << >>
    BY SubSeqEmpty DEF Last, Front
  <1>2. \A a, b : Last(<<a, b>>) = b /\ Front(<<a, b>>) = <<a>>
    <2> SUFFICES ASSUME NEW a, NEW b PROVE Last(<<a, b>>) = b /\ Front(<<a, b>>) = <<a>>
      OBVIOUS
    <2>1. Len(<<a, b>>) = 2 /\ Len(<<a, b>>) - 1 = 1
      OBVIOUS
    <2> QED BY <2>1, Cuts DEF Last, Front
  <1>3. Moved(<<"sample">>) = <<"sample">>
    BY <1>1 DEF Moved
  <1>4. /\ Moved(<<"end">>) = <<"worker_done">>
        /\ Moved(<<"error">>) = <<"error", "worker_done">>
    BY <1>1, Appended DEF Moved
  <1>5. /\ Moved(<<"sample", "end">>) = <<"sample", "worker_done">>
        /\ Moved(<<"sample", "error">>) = <<"sample", "error", "worker_done">>
    <2>1. /\ Last(<<"sample", "end">>) = "end" /\ Front(<<"sample", "end">>) = <<"sample">>
          /\ Last(<<"sample", "error">>) = "error"
      BY <1>2
    <2>2. /\ Append(<<"sample">>, "worker_done") = <<"sample", "worker_done">>
          /\ Append(<<"sample", "error">>, "worker_done") = <<"sample", "error", "worker_done">>
      BY Appended
    <2> QED BY <2>1, <2>2 DEF Moved
  <1> QED BY <1>1, <1>2, <1>3, <1>4, <1>5

\* A step concerns one request; the others are as they were.
LEMMA OneRequest ==
  ASSUME RequestsInv, NEW s \in Samples, RequestInv(s)',
         \A u \in Samples : u # s => Same(u)
  PROVE  \A u \in Samples : RequestInv(u)'
  BY SameRequest, Zenon DEF RequestsInv, DropInv

\* A new request, its leader working and nothing sent.
LEMMA LaunchRequest ==
  ASSUME Functions, NEW s \in Samples, Launch(s), ~abandoned[s], abandoned' = abandoned
  PROVE  Functions' /\ RequestInv(s)' /\ \A u \in Samples : u # s => Same(u)
  <1>1. /\ Functions'
        /\ pc'[s] = "waiting" /\ leader'[s] = "running" /\ stream'[s] = << >>
        /\ queue'[s] = << >> /\ ~finished'[s] /\ outputs'[s] = 0
    BY DEF Launch, Functions, OfSamples
  <1>2. \A u \in Samples : u # s => Same(u)
    BY DEF Launch, Functions, OfSamples, Same
  <1>3. InTransit(s)'
    BY <1>1 DEF InTransit, UnderWay
  <1> QED BY <1>1, <1>2, <1>3 DEF RequestInv

\* One callback moves all or some of what the leader sent.
LEMMA ConsumeRequest ==
  ASSUME RequestsInv, NEW s \in Samples, NEW k \in 1..Len(stream[s]), Consume(s, k)
  PROVE  Functions' /\ RequestInv(s)' /\ \A u \in Samples : u # s => Same(u)
  <1> DEFINE items == SubSeq(stream[s], 1, k)
  <1>1. /\ pc[s] = "waiting" /\ ~finished[s] /\ ~abandoned[s]
        /\ UNCHANGED <<pc, abandoned, leader, outputs, expired>>
    BY DEF Consume, episode, RequestsInv, DropInv, RequestInv
  <1>2. /\ queue' = [queue EXCEPT ![s] = @ \o Moved(items)]
        /\ finished' = [finished EXCEPT ![s] = Last(items) # "sample"]
        /\ stream' = [stream EXCEPT ![s] = SubSeq(@, k + 1, Len(@))]
    BY DEF Consume
  <1>3. Functions' /\ \A u \in Samples : u # s => Same(u)
    BY <1>1, <1>2 DEF RequestsInv, Functions, OfSamples, Same
  <1>4. /\ queue'[s] = queue[s] \o Moved(items)
        /\ finished'[s] <=> Last(items) # "sample"
        /\ stream'[s] = SubSeq(stream[s], k + 1, Len(stream[s]))
    BY <1>2 DEF RequestsInv, Functions, OfSamples
  <1>5. <<leader[s], outputs[s], queue[s], stream[s]>> \in UnderWay
    BY <1>1 DEF RequestsInv, DropInv, RequestInv, InTransit
  <1>6. InTransit(s)'
    <2>1. CASE stream[s] = <<"sample">>
      <3>1. leader[s] = "answered" /\ outputs[s] = 0 /\ queue[s] = << >>
        BY <1>5, <2>1 DEF UnderWay
      <3>2. items = <<"sample">> /\ stream'[s] = << >>
        BY <1>4, <2>1, CutOne
      <3>3. queue'[s] = << >> \o <<"sample">> /\ ~finished'[s]
        BY <1>4, <3>1, <3>2, MovedItems
      <3>4. queue'[s] = <<"sample">>
        BY <3>3
      <3> QED BY <1>1, <3>1, <3>2, <3>3, <3>4 DEF UnderWay, InTransit
    <2>2. CASE stream[s] = <<"end">>
      <3>1. /\ leader[s] = "finished"
            /\ \/ outputs[s] = 0 /\ queue[s] = <<"sample">>
               \/ outputs[s] = 1 /\ queue[s] = << >>
        BY <1>5, <2>2 DEF UnderWay
      <3>2. items = <<"end">> /\ stream'[s] = << >>
        BY <1>4, <2>2, CutOne
      <3>3. finished'[s] /\ queue'[s] = queue[s] \o <<"worker_done">>
        BY <1>4, <3>2, MovedItems
      <3>4. CASE outputs[s] = 0 /\ queue[s] = <<"sample">>
        <4>1. queue'[s] = <<"sample", "worker_done">>
          BY <3>3, <3>4, JoinedTwo
        <4> QED BY <1>1, <3>1, <3>2, <3>3, <3>4, <4>1 DEF InTransit, Ending
      <3>5. CASE outputs[s] = 1 /\ queue[s] = << >>
        <4>1. queue'[s] = <<"worker_done">>
          BY <3>3, <3>5
        <4> QED BY <1>1, <3>1, <3>2, <3>3, <3>5, <4>1 DEF InTransit, Ending
      <3> QED BY <3>1, <3>4, <3>5
    <2>3. CASE stream[s] = <<"error">>
      <3>1. /\ leader[s] = "failed"
            /\ \/ outputs[s] = 0 /\ queue[s] = <<"sample">>
               \/ outputs[s] \in {0, 1} /\ queue[s] = << >>
        BY <1>5, <2>3 DEF UnderWay
      <3>2. items = <<"error">> /\ stream'[s] = << >>
        BY <1>4, <2>3, CutOne
      <3>3. finished'[s] /\ queue'[s] = queue[s] \o <<"error", "worker_done">>
        BY <1>4, <3>2, MovedItems
      <3>4. CASE outputs[s] = 0 /\ queue[s] = <<"sample">>
        <4>1. queue'[s] = <<"sample", "error", "worker_done">>
          BY <3>3, <3>4, JoinedThree
        <4> QED BY <1>1, <3>1, <3>2, <3>3, <3>4, <4>1 DEF InTransit, Ending
      <3>5. CASE outputs[s] \in {0, 1} /\ queue[s] = << >>
        <4>1. queue'[s] = <<"error", "worker_done">>
          BY <3>3, <3>5
        <4> QED BY <1>1, <3>1, <3>2, <3>3, <3>5, <4>1 DEF InTransit, Ending
      <3> QED BY <3>1, <3>4, <3>5
    <2>4. CASE stream[s] = <<"sample", "end">>
      <3>1. leader[s] = "finished" /\ outputs[s] = 0 /\ queue[s] = << >>
        BY <1>5, <2>4 DEF UnderWay
      <3>2. \/ items = <<"sample">> /\ stream'[s] = <<"end">>
            \/ items = <<"sample", "end">> /\ stream'[s] = << >>
        <4>1. \/ /\ items = <<"sample">>
                 /\ SubSeq(stream[s], k + 1, Len(stream[s])) = <<"end">>
              \/ /\ items = <<"sample", "end">>
                 /\ SubSeq(stream[s], k + 1, Len(stream[s])) = << >>
          <5>1. \A q : q = <<"sample", "end">> =>
                  \A j \in 1..Len(q) :
                    \/ SubSeq(q, 1, j) = <<"sample">> /\ SubSeq(q, j + 1, Len(q)) = <<"end">>
                    \/ /\ SubSeq(q, 1, j) = <<"sample", "end">>
                       /\ SubSeq(q, j + 1, Len(q)) = << >>
            BY CutTwo
          <5> QED BY <2>4, <5>1
        <4> QED BY <1>4, <4>1
      <3>3. CASE items = <<"sample">> /\ stream'[s] = <<"end">>
        <4>1. queue'[s] = << >> \o <<"sample">> /\ ~finished'[s]
          BY <1>4, <3>1, <3>3, MovedItems
        <4>2. queue'[s] = <<"sample">>
          BY <4>1
        <4> QED BY <1>1, <3>1, <3>3, <4>1, <4>2 DEF UnderWay, InTransit
      <3>4. CASE items = <<"sample", "end">> /\ stream'[s] = << >>
        <4>1. queue'[s] = << >> \o <<"sample", "worker_done">> /\ finished'[s]
          BY <1>4, <3>1, <3>4, MovedItems
        <4>2. queue'[s] = <<"sample", "worker_done">>
          BY <4>1
        <4> QED BY <1>1, <3>1, <3>4, <4>1, <4>2 DEF InTransit, Ending
      <3> QED BY <3>2, <3>3, <3>4
    <2>5. CASE stream[s] = <<"sample", "error">>
      <3>1. leader[s] = "failed" /\ outputs[s] = 0 /\ queue[s] = << >>
        BY <1>5, <2>5 DEF UnderWay
      <3>2. \/ items = <<"sample">> /\ stream'[s] = <<"error">>
            \/ items = <<"sample", "error">> /\ stream'[s] = << >>
        <4>1. \/ /\ items = <<"sample">>
                 /\ SubSeq(stream[s], k + 1, Len(stream[s])) = <<"error">>
              \/ /\ items = <<"sample", "error">>
                 /\ SubSeq(stream[s], k + 1, Len(stream[s])) = << >>
          <5>1. \A q : q = <<"sample", "error">> =>
                  \A j \in 1..Len(q) :
                    \/ SubSeq(q, 1, j) = <<"sample">> /\ SubSeq(q, j + 1, Len(q)) = <<"error">>
                    \/ /\ SubSeq(q, 1, j) = <<"sample", "error">>
                       /\ SubSeq(q, j + 1, Len(q)) = << >>
            BY CutTwo
          <5> QED BY <2>5, <5>1
        <4> QED BY <1>4, <4>1
      <3>3. CASE items = <<"sample">> /\ stream'[s] = <<"error">>
        <4>1. queue'[s] = << >> \o <<"sample">> /\ ~finished'[s]
          BY <1>4, <3>1, <3>3, MovedItems
        <4>2. queue'[s] = <<"sample">>
          BY <4>1
        <4> QED BY <1>1, <3>1, <3>3, <4>1, <4>2 DEF UnderWay, InTransit
      <3>4. CASE items = <<"sample", "error">> /\ stream'[s] = << >>
        <4>1. queue'[s] = << >> \o <<"sample", "error", "worker_done">> /\ finished'[s]
          BY <1>4, <3>1, <3>4, MovedItems
        <4>2. queue'[s] = <<"sample", "error", "worker_done">>
          BY <4>1
        <4> QED BY <1>1, <3>1, <3>4, <4>1, <4>2 DEF InTransit, Ending
      <3> QED BY <3>2, <3>3, <3>4
    <2>6. CASE stream[s] = << >>
      BY <2>6
    <2> QED BY <1>5, <2>1, <2>2, <2>3, <2>4, <2>5, <2>6 DEF UnderWay
  <1> QED BY <1>1, <1>3, <1>6 DEF RequestInv

\* What the reader can find at the head of the queue.
LEMMA HeadItem ==
  ASSUME NEW s \in Samples, InTransit(s), queue[s] # << >>
  PROVE  \/ /\ ~finished[s] /\ Head(queue[s]) = "sample" /\ outputs[s] = 0
            /\ <<leader[s], 1, Tail(queue[s]), stream[s]>> \in UnderWay
         \/ /\ finished[s] /\ Settled(s) /\ outputs[s] \in {0, 1}
            /\ Head(queue[s]) = "error" => leader[s] = "failed"
            /\ Head(queue[s]) \notin {"error", "sample"} => outputs[s] = 1
  <1>1. CASE ~finished[s]
    <2>1. /\ queue[s] = <<"sample">> /\ outputs[s] = 0
          /\ <<leader[s], 1, << >>, stream[s]>> \in UnderWay
      BY <1>1 DEF InTransit, UnderWay
    <2>2. Head(queue[s]) = "sample" /\ Tail(queue[s]) = << >>
      BY <2>1
    <2> QED BY <1>1, <2>1, <2>2
  <1>2. CASE finished[s]
    <2>1. Settled(s) /\ outputs[s] \in {0, 1}
      BY <1>2 DEF InTransit, Ending, Settled
    <2>2. <<leader[s], outputs[s], queue[s]>> \in Ending
      BY <1>2 DEF InTransit
    <2>3. \/ outputs[s] = 0 /\ Head(queue[s]) = "sample"
          \/ outputs[s] = 1 /\ Head(queue[s]) = "worker_done"
          \/ leader[s] = "failed" /\ Head(queue[s]) = "error"
      BY <2>2 DEF Ending
    <2> QED BY <1>2, <2>1, <2>3
  <1> QED BY <1>1, <1>2

\* Reading goes on to the environment with a response, and breaks off only
\* at an error.
LEMMA ReadItemRequest ==
  ASSUME RequestsInv, NEW s \in Samples, ReadItem(s)
  PROVE  Functions' /\ RequestInv(s)' /\ \A u \in Samples : u # s => Same(u)
  <1> DEFINE item == Head(queue[s])
             n    == outputs[s] + (IF item = "sample" THEN 1 ELSE 0)
  <1>1. /\ pc[s] = "waiting" /\ queue[s] # << >> /\ ~abandoned[s] /\ InTransit(s)
        /\ UNCHANGED <<leader, stream, finished>>
    BY DEF ReadItem, RequestsInv, DropInv, RequestInv
  <1>2. /\ queue' = [queue EXCEPT ![s] = Tail(@)]
        /\ outputs' = [outputs EXCEPT ![s] = n]
        /\ expired' = [expired EXCEPT ![s] = FALSE]
        /\ \/ (item = "error" \/ (finished[s] /\ n = 0)) /\ Break(s)
           \/ item # "error" /\ finished[s] /\ n > 0 /\ CallEnv(s) /\ UNCHANGED abandoned
           \/ item # "error" /\ ~finished[s] /\ UNCHANGED <<pc, loop, abandoned>>
    BY DEF ReadItem, Leaves
  <1>3. Functions' /\ \A u \in Samples : u # s => Same(u)
    BY <1>1, <1>2 DEF RequestsInv, Functions, OfSamples, Same, Break, CallEnv
  <1>4. queue'[s] = Tail(queue[s]) /\ outputs'[s] = n
    BY <1>2 DEF RequestsInv, Functions, OfSamples
  <1>5. CASE ~finished[s]
    <2>1. /\ item = "sample" /\ n = 1 /\ UNCHANGED <<pc, abandoned>>
          /\ <<leader[s], 1, Tail(queue[s]), stream[s]>> \in UnderWay
      <3>1. /\ item = "sample" /\ outputs[s] = 0
            /\ <<leader[s], 1, Tail(queue[s]), stream[s]>> \in UnderWay
        BY <1>1, <1>5, HeadItem
      <3>2. item # "error" /\ n = 1
        BY <3>1
      <3> HIDE DEF item, n
      <3> QED BY <1>2, <1>5, <3>1, <3>2
    <2>2. InTransit(s)'
      BY <1>1, <1>4, <1>5, <2>1 DEF InTransit
    <2> QED BY <1>1, <1>3, <2>1, <2>2 DEF RequestInv
  <1>6. CASE finished[s] /\ item = "error"
    <2>1. leader[s] = "failed" /\ Break(s)
      BY <1>1, <1>2, <1>6, HeadItem
    <2>2. pc'[s] = "done" /\ leader'[s] = "failed"
      BY <1>1, <2>1 DEF Break, RequestsInv, Functions, OfSamples
    <2> QED BY <1>3, <2>2 DEF RequestInv, Settled
  <1>7. CASE finished[s] /\ item # "error"
    <2>1. n > 0 /\ Settled(s)
      <3>1. /\ Settled(s) /\ outputs[s] \in {0, 1}
            /\ item # "sample" => outputs[s] = 1
        BY <1>1, <1>7, HeadItem
      <3> QED BY <3>1
    <2>2. pc' = [pc EXCEPT ![s] = "env"] /\ UNCHANGED abandoned
      BY <1>2, <1>7, <2>1 DEF CallEnv
    <2>3. pc'[s] = "env" /\ ~abandoned'[s] /\ Settled(s)'
      BY <1>1, <2>1, <2>2 DEF Settled, RequestsInv, Functions, OfSamples
    <2> QED BY <1>3, <2>3 DEF RequestInv
  <1> QED BY <1>5, <1>6, <1>7

\* Giving up after a timeout has the timer for a cause.
LEMMA TimeOutRequest ==
  ASSUME RequestsInv, NEW s \in Samples, TimeOut(s)
  PROVE  Functions' /\ RequestInv(s)' /\ \A u \in Samples : u # s => Same(u)
  <1>1. /\ expired[s] /\ UNCHANGED <<leader, stream, queue, outputs, expired>>
        /\ finished' = [finished EXCEPT ![s] = TRUE]
        /\ abandoned' = [abandoned EXCEPT ![s] = TRUE]
        /\ pc' = [pc EXCEPT ![s] = "done"]
    BY DEF TimeOut, GivesUp, Break
  <1>2. Functions' /\ \A u \in Samples : u # s => Same(u)
    BY <1>1 DEF RequestsInv, Functions, OfSamples, Same
  <1>3. pc'[s] = "done" /\ expired'[s]
    BY <1>1 DEF RequestsInv, Functions, OfSamples
  <1> QED BY <1>2, <1>3 DEF RequestInv

LEMMA EnvAnswersRequest ==
  ASSUME RequestsInv, NEW s \in Samples, NEW overflow \in BOOLEAN, EnvAnswers(s, overflow)
  PROVE  Functions' /\ RequestInv(s)' /\ \A u \in Samples : u # s => Same(u)
  <1>1. /\ pc[s] = "env" /\ ~abandoned[s] /\ Settled(s) /\ UNCHANGED abandoned
        /\ \/ /\ pc' = [pc EXCEPT ![s] = "done"]
              /\ UNCHANGED <<leader, stream, queue, finished, outputs, expired>>
           \/ Launch(s)
    BY DEF EnvAnswers, reading, RequestsInv, DropInv, RequestInv
  <1>2. CASE Launch(s)
    BY <1>1, <1>2, LaunchRequest DEF RequestsInv
  <1>3. CASE /\ pc' = [pc EXCEPT ![s] = "done"]
             /\ UNCHANGED <<leader, stream, queue, finished, outputs, expired>>
    <2>1. Functions' /\ \A u \in Samples : u # s => Same(u)
      BY <1>1, <1>3 DEF RequestsInv, Functions, OfSamples, Same
    <2>2. pc'[s] = "done" /\ Settled(s)' /\ ~abandoned'[s]
      BY <1>1, <1>3 DEF RequestsInv, Functions, OfSamples, Settled
    <2> QED BY <2>1, <2>2 DEF RequestInv
  <1> QED BY <1>1, <1>2, <1>3

\* The leader moves on, also when nobody waits for it any more.
LEMMA LeaderRequest ==
  ASSUME RequestsInv, NEW s \in Samples, Answers(s) \/ EndsStream(s) \/ Fails(s)
  PROVE  Functions' /\ RequestInv(s)' /\ \A u \in Samples : u # s => Same(u)
  <1>1. PICK item, state :
          /\ \/ leader[s] = "running" /\ item = "sample" /\ state = "answered"
             \/ leader[s] = "answered" /\ item = "end" /\ state = "finished"
             \/ leader[s] \in {"running", "answered"} /\ item = "error" /\ state = "failed"
          /\ Streams(s, item, state)
    BY DEF Answers, EndsStream, Fails
  <1>2. /\ stream' = [stream EXCEPT ![s] = Append(@, item)]
        /\ leader' = [leader EXCEPT ![s] = state]
        /\ UNCHANGED <<pc, abandoned, queue, finished, outputs, expired>>
    BY <1>1 DEF Streams, episode, reading
  <1>3. Functions' /\ \A u \in Samples : u # s => Same(u)
    BY <1>2 DEF RequestsInv, Functions, OfSamples, Same
  <1>4. stream'[s] = Append(stream[s], item) /\ leader'[s] = state
    BY <1>2 DEF RequestsInv, Functions, OfSamples
  <1>5. RequestInv(s)
    BY DEF RequestsInv, DropInv
  <1>6. CASE pc[s] = "waiting"
    <2>1. ~finished[s] /\ <<leader[s], outputs[s], queue[s], stream[s]>> \in UnderWay
      BY <1>1, <1>5, <1>6 DEF RequestInv, InTransit, Ending
    <2>2. CASE leader[s] = "running"
      <3>1. outputs[s] = 0 /\ queue[s] = << >> /\ stream[s] = << >>
        BY <2>1, <2>2 DEF UnderWay
      <3>2. stream'[s] = <<item>>
        BY <1>4, <3>1
      <3> QED BY <1>1, <1>2, <1>3, <1>4, <1>5, <1>6, <2>1, <2>2, <3>1, <3>2
           DEF RequestInv, InTransit, UnderWay
    <2>3. CASE leader[s] = "answered" /\ stream[s] = <<"sample">>
      <3>1. outputs[s] = 0 /\ queue[s] = << >>
        BY <2>1, <2>3 DEF UnderWay
      <3>2. stream'[s] = <<"sample", item>>
        BY <1>4, <2>3, Appended
      <3> QED BY <1>1, <1>2, <1>3, <1>4, <1>5, <1>6, <2>1, <2>3, <3>1, <3>2
           DEF RequestInv, InTransit, UnderWay
    <2>4. CASE leader[s] = "answered" /\ stream[s] = << >>
      <3>1. \/ outputs[s] = 0 /\ queue[s] = <<"sample">>
            \/ outputs[s] = 1 /\ queue[s] = << >>
        BY <2>1, <2>4 DEF UnderWay
      <3>2. stream'[s] = <<item>>
        BY <1>4, <2>4
      <3> QED BY <1>1, <1>2, <1>3, <1>4, <1>5, <1>6, <2>1, <2>4, <3>1, <3>2
           DEF RequestInv, InTransit, UnderWay
    <2>5. leader[s] = "answered" => stream[s] = <<"sample">> \/ stream[s] = << >>
      BY <2>1 DEF UnderWay
    <2> QED BY <1>1, <2>2, <2>3, <2>4, <2>5
  <1>7. CASE pc[s] # "waiting"
    <2>1. /\ ~Settled(s) /\ pc[s] # "env"
          /\ pc[s] = "done" => expired[s]
      BY <1>1, <1>5 DEF RequestInv, Settled
    <2>2. RequestInv(s)'
      BY <1>1, <1>2, <1>4, <1>5, <1>7, <2>1 DEF RequestInv
    <2> QED BY <1>3, <2>2
  <1> QED BY <1>6, <1>7

LEMMA ExpireRequest ==
  ASSUME RequestsInv, NEW s \in Samples, Expire(s)
  PROVE  Functions' /\ RequestInv(s)' /\ \A u \in Samples : u # s => Same(u)
  <1>1. /\ expired' = [expired EXCEPT ![s] = TRUE]
        /\ UNCHANGED <<pc, abandoned, leader, stream, queue, finished, outputs>>
    BY DEF Expire, episode
  <1>2. Functions' /\ \A u \in Samples : u # s => Same(u)
    BY <1>1 DEF RequestsInv, Functions, OfSamples, Same
  <1>3. RequestInv(s) /\ expired'[s]
    BY <1>1 DEF RequestsInv, DropInv, Functions, OfSamples
  <1>4. RequestInv(s)'
    BY <1>1, <1>3 DEF RequestInv, InTransit, Settled
  <1> QED BY <1>2, <1>4

LEMMA RequestsInit == Init => RequestsInv
  BY DEF Init, RequestsInv, Functions, OfSamples, DropInv, RequestInv

LEMMA RequestsNext == RequestsInv /\ [Next]_vars => RequestsInv'
  <1> SUFFICES ASSUME RequestsInv, [Next]_vars PROVE RequestsInv'
    OBVIOUS
  <1>1. ASSUME NEW s \in Samples, Functions', RequestInv(s)', outcome' = "running",
               \A u \in Samples : u # s => Same(u)
        PROVE  RequestsInv'
    BY <1>1, OneRequest DEF RequestsInv, DropInv
  <1>2. ASSUME NEW s \in Samples, Begin(s) PROVE RequestsInv'
    <2>1. /\ Launch(s) /\ ~abandoned[s] /\ abandoned' = abandoned
          /\ outcome' = "running"
      BY <1>2 DEF Begin, Free, RequestsInv, DropInv, RequestInv
    <2> QED BY <1>1, <2>1, LaunchRequest DEF RequestsInv
  <1>3. ASSUME NEW s \in Samples, NEW k \in 1..Len(stream[s]), Consume(s, k)
        PROVE  RequestsInv'
    <2>1. outcome' = "running"
      BY <1>3 DEF Consume, Free
    <2> QED BY <1>1, <1>3, <2>1, ConsumeRequest
  <1>4. ASSUME NEW s \in Samples, ReadItem(s) PROVE RequestsInv'
    <2>1. outcome' = "running"
      BY <1>4 DEF ReadItem, Free
    <2> QED BY <1>1, <1>4, <2>1, ReadItemRequest
  <1>5. ASSUME NEW s \in Samples, TimeOut(s) PROVE RequestsInv'
    <2>1. outcome' = "running"
      BY <1>5 DEF TimeOut, Free
    <2> QED BY <1>1, <1>5, <2>1, TimeOutRequest
  <1>6. ASSUME NEW s \in Samples, NEW overflow \in BOOLEAN, EnvAnswers(s, overflow)
        PROVE  RequestsInv'
    <2>1. outcome' = "running"
      BY <1>6 DEF EnvAnswers
    <2> QED BY <1>1, <1>6, <2>1, EnvAnswersRequest
  <1>7. ASSUME NEW s \in Samples, Answers(s) \/ EndsStream(s) \/ Fails(s)
        PROVE  RequestsInv'
    <2>1. outcome' = "running"
      BY <1>7 DEF Answers, EndsStream, Fails, Streams
    <2> QED BY <1>1, <1>7, <2>1, LeaderRequest
  <1>8. ASSUME NEW s \in Samples, Expire(s) PROVE RequestsInv'
    <2>1. outcome' = "running"
      BY <1>8 DEF Expire
    <2> QED BY <1>1, <1>8, <2>1, ExpireRequest
  <1>9. ASSUME UNCHANGED RequestVars, outcome' = "returned" => \A s \in Samples : pc[s] = "done"
        PROVE  RequestsInv'
    <2>1. Functions' /\ \A s \in Samples : Same(s)
      BY <1>9 DEF RequestVars, RequestsInv, Functions, OfSamples, Same
    <2>2. \A s \in Samples : RequestInv(s)'
      BY <2>1, SameRequest DEF RequestsInv, DropInv
    <2> QED BY <1>9, <2>1, <2>2 DEF RequestsInv, DropInv, RequestVars
  <1>10. ASSUME NEW s \in Samples, EnvRaises(s) PROVE RequestsInv'
    BY <1>9, <1>10 DEF EnvRaises, RequestVars, episode, reading
  <1>11. CASE Gather
    BY <1>9, <1>11 DEF Gather, RequestVars, episode, reading
  <1>12. CASE UNCHANGED vars
    BY <1>9, <1>12 DEF vars, RequestVars, episode, reading, RequestsInv, DropInv
  <1> QED BY <1>2, <1>3, <1>4, <1>5, <1>6, <1>7, <1>8, <1>10, <1>11, <1>12 DEF Next

\* A sample is given up only for a failure or a timeout, and the rollout never
\* returns over a leader at work unless it was given up after a timeout: the
\* flag set before the marker is queued never hides a response, and no order
\* of the callbacks loses one (vllm.py:1624-1712, rollouts.py:155).
THEOREM RequestsDropForCause == Spec => []DroppedForCause
  <1>1. RequestsInv => DroppedForCause
    BY DEF RequestsInv, DropInv, RequestInv, Settled, DroppedForCause, AbandonedForCause,
           QuietUnlessTimedOut
  <1> QED BY RequestsInit, RequestsNext, <1>1, PTL DEF Spec
===============================================================================
