------------------------- MODULE WeightTransferProofs -------------------------
(***************************************************************************)
(* The two ways the policy's weights take to the engine, for every number  *)
(* of replicas, ranks and parameters.                                      *)
(*                                                                         *)
(* By broadcasts (CollectiveRefit), for every number of trainer workers,   *)
(* queue depths and steps: every rank is left with current weights.  The   *)
(* sends of the trainer's rank 0 and the receives of each engine rank are  *)
(* aligned at one parameter, however far each method runs ahead of its GPU *)
(* and whichever of them raise.                                            *)
(*                                                                         *)
(* By handles (Refit, the second half of this module): no engine rank      *)
(* reads a tensor its trainer worker has dropped, however the parameters   *)
(* are grouped and whether or not loading fails; and a refit that ends     *)
(* well has given every parameter to every leader.                         *)
(***************************************************************************)
EXTENDS CollectiveRefit, Refit, WellFoundedInduction, TLAPS

USE EngineAssumption, CollectiveAssumption DEF given, trainer, engine, vars

-----------------------------------------------------------------------------
(* What a GPU's queue holds.                                               *)

LEMMA SendFacts ==
  \A p, r : Send(p).does = "send" /\ Send(p).param = p /\ (Send(p) = Send(r) => p = r)
BY DEF Send

\* The head of the queue, when it is a send, is that of the first parameter,
\* and the rest are those of the others.
LEMMA SendRuns ==
  ASSUME NEW s \in Nat, NEW n \in Nat, NEW q \in Seq(Operation), Sends(q, s, n),
         q # <<>>, Head(q).does = "send"
  PROVE  /\ Head(q).param = s
         /\ s + 1 \in 1..n
         /\ Sends(Tail(q), s + 1, n)
<1>1. Len(q) \in Nat /\ Len(q) >= 1 /\ Head(q) = q[1]
  BY DEF Operation
<1>2. q[1].param \in s..(n - 1)
  BY <1>1 DEF Sends
<1>3. PICK i \in 1..Len(q) : q[i] = Send(s)
  BY <1>2 DEF Sends
<1>4. i = 1
  <2> SUFFICES ASSUME i # 1 PROVE FALSE
    OBVIOUS
  <2>1. 1 < i /\ 1 \in 1..Len(q)
    BY <1>1
  <2>2. q[1].param < q[i].param
    BY <1>1, <1>3, <2>1, SendFacts DEF Sends
  <2>3. q[i].param = s
    BY <1>3, SendFacts
  <2> QED BY <1>2, <2>2, <2>3
<1>5. Head(q).param = s
  BY <1>1, <1>3, <1>4, SendFacts
<1>6. s + 1 \in 1..n
  BY <1>2 DEF Sends
<1>7. /\ Len(Tail(q)) = Len(q) - 1
      /\ \A j \in 1..(Len(q) - 1) : Tail(q)[j] = q[j + 1]
  BY <1>1
<1>8. \A j \in 1..Len(Tail(q)) : j + 1 \in 1..Len(q) /\ Tail(q)[j] = q[j + 1] /\ 1 < j + 1
  BY <1>1, <1>7
<1>9. \A j \in 1..Len(Tail(q)) :
        Tail(q)[j].does = "send" => Tail(q)[j].param \in (s + 1)..(n - 1)
  <2> SUFFICES ASSUME NEW j \in 1..Len(Tail(q)), q[j + 1].does = "send"
               PROVE  q[j + 1].param \in (s + 1)..(n - 1)
    BY <1>8
  <2>1. q[j + 1].param \in s..(n - 1)
    BY <1>8 DEF Sends
  <2>2. q[1].param < q[j + 1].param
    BY <1>1, <1>8 DEF Sends
  <2> QED BY <1>1, <1>5, <2>1, <2>2
<1>10. \A p \in (s + 1)..(n - 1) : \E j \in 1..Len(Tail(q)) : Tail(q)[j] = Send(p)
  <2> SUFFICES ASSUME NEW p \in (s + 1)..(n - 1)
               PROVE  \E j \in 1..Len(Tail(q)) : Tail(q)[j] = Send(p)
    OBVIOUS
  <2>1. PICK k \in 1..Len(q) : q[k] = Send(p)
    BY DEF Sends
  <2>2. k # 1
    BY <1>3, <1>4, <2>1, SendFacts
  <2>3. k - 1 \in 1..Len(Tail(q)) /\ Tail(q)[k - 1] = q[k]
    BY <1>1, <1>7, <2>2
  <2> QED BY <2>1, <2>3
<1>11. \A j, k \in 1..Len(Tail(q)) :
         j < k /\ Tail(q)[j].does = "send" /\ Tail(q)[k].does = "send"
           => Tail(q)[j].param < Tail(q)[k].param
  <2> SUFFICES ASSUME NEW j \in 1..Len(Tail(q)), NEW k \in 1..Len(Tail(q)), j < k,
                      q[j + 1].does = "send", q[k + 1].does = "send"
               PROVE  q[j + 1].param < q[k + 1].param
    BY <1>8
  <2>1. j + 1 < k + 1 /\ j + 1 \in 1..Len(q) /\ k + 1 \in 1..Len(q)
    BY <1>8, <1>1
  <2> QED BY <2>1 DEF Sends
<1> QED BY <1>5, <1>6, <1>9, <1>10, <1>11 DEF Sends

\* A gather that runs leaves the sends as they were.
LEMMA GatherRuns ==
  ASSUME NEW s \in Nat, NEW n \in Nat, NEW q \in Seq(Operation), Sends(q, s, n),
         q # <<>>, Head(q).does = "gather"
  PROVE  Sends(Tail(q), s, n)
<1>1. Len(q) \in Nat /\ Len(q) >= 1 /\ Head(q) = q[1]
  BY DEF Operation
<1>2. /\ Len(Tail(q)) = Len(q) - 1
      /\ \A j \in 1..(Len(q) - 1) : Tail(q)[j] = q[j + 1]
  BY <1>1
<1>3. \A j \in 1..Len(Tail(q)) : j + 1 \in 1..Len(q) /\ Tail(q)[j] = q[j + 1]
  BY <1>1, <1>2
<1>4. \A p \in s..(n - 1) : \E j \in 1..Len(Tail(q)) : Tail(q)[j] = Send(p)
  <2> SUFFICES ASSUME NEW p \in s..(n - 1)
               PROVE  \E j \in 1..Len(Tail(q)) : Tail(q)[j] = Send(p)
    OBVIOUS
  <2>1. PICK k \in 1..Len(q) : q[k] = Send(p)
    BY DEF Sends
  <2>2. k # 1
    BY <1>1, <2>1, SendFacts
  <2>3. k - 1 \in 1..Len(Tail(q)) /\ Tail(q)[k - 1] = q[k]
    BY <1>1, <1>2, <2>2
  <2> QED BY <2>1, <2>3
<1>5. \A j \in 1..Len(Tail(q)) : Tail(q)[j].does = "send" => Tail(q)[j].param \in s..(n - 1)
  BY <1>3 DEF Sends
<1>6. \A j, k \in 1..Len(Tail(q)) :
        j < k /\ Tail(q)[j].does = "send" /\ Tail(q)[k].does = "send"
          => Tail(q)[j].param < Tail(q)[k].param
  <2> SUFFICES ASSUME NEW j \in 1..Len(Tail(q)), NEW k \in 1..Len(Tail(q)), j < k,
                      q[j + 1].does = "send", q[k + 1].does = "send"
               PROVE  q[j + 1].param < q[k + 1].param
    BY <1>3
  <2>1. j + 1 < k + 1 /\ j + 1 \in 1..Len(q) /\ k + 1 \in 1..Len(q)
    BY <1>3, <1>1
  <2> QED BY <2>1 DEF Sends
<1> QED BY <1>4, <1>5, <1>6 DEF Sends

\* Queueing a parameter's operations on rank 0 adds its send at the end.
LEMMA GatherQueued ==
  ASSUME NEW s \in Nat, NEW n \in Nat, NEW q \in Seq(Operation), Sends(q, s, n),
         NEW op \in Operation, op.does = "gather"
  PROVE  Sends(Append(q, op), s, n)
<1> DEFINE r == Append(q, op)
<1>1. /\ Len(q) \in Nat /\ Len(r) = Len(q) + 1 /\ r[Len(q) + 1] = op
      /\ \A i \in 1..Len(q) : r[i] = q[i] /\ i \in 1..Len(r)
  OBVIOUS
<1>2. \A i \in 1..Len(r) : r[i].does = "send" => i \in 1..Len(q)
  BY <1>1
<1> HIDE DEF r
<1>3. \A i \in 1..Len(r) : r[i].does = "send" => r[i].param \in s..(n - 1)
  BY <1>1, <1>2 DEF Sends
<1>4. \A p \in s..(n - 1) : \E i \in 1..Len(r) : r[i] = Send(p)
  BY <1>1 DEF Sends
<1>5. \A i, j \in 1..Len(r) :
        i < j /\ r[i].does = "send" /\ r[j].does = "send" => r[i].param < r[j].param
  BY <1>1, <1>2 DEF Sends
<1>6. Sends(r, s, n)
  BY <1>3, <1>4, <1>5 DEF Sends
<1> QED BY <1>6 DEF r

LEMMA SendQueued ==
  ASSUME NEW s \in Nat, NEW n \in Nat, NEW q \in Seq(Operation), Sends(q, s, n)
  PROVE  Sends(Append(q, Send(n)), s, n + 1)
<1> DEFINE r == Append(q, Send(n))
<1>1. /\ Len(q) \in Nat /\ Len(r) = Len(q) + 1 /\ r[Len(q) + 1] = Send(n)
      /\ \A i \in 1..Len(q) : r[i] = q[i] /\ i \in 1..Len(r)
  OBVIOUS
<1>2. \A i \in 1..Len(r) : i \in 1..Len(q) \/ i = Len(q) + 1
  BY <1>1
<1> HIDE DEF r
<1>3. \A i \in 1..Len(r) : r[i].does = "send" => r[i].param \in s..((n + 1) - 1)
  <2> SUFFICES ASSUME NEW i \in 1..Len(r), r[i].does = "send"
               PROVE  r[i].param \in s..((n + 1) - 1)
    OBVIOUS
  <2>1. CASE i \in 1..Len(q)
    <3>1. q[i].param \in s..(n - 1)
      BY <1>1, <2>1 DEF Sends
    <3> QED BY <1>1, <2>1, <3>1
  <2>2. CASE i = Len(q) + 1
    BY <1>1, <2>2, SendFacts DEF Sends
  <2> QED BY <1>2, <2>1, <2>2
<1>4. \A p \in s..((n + 1) - 1) : \E i \in 1..Len(r) : r[i] = Send(p)
  <2> SUFFICES ASSUME NEW p \in s..((n + 1) - 1) PROVE \E i \in 1..Len(r) : r[i] = Send(p)
    OBVIOUS
  <2>1. CASE p = n
    BY <1>1, <2>1
  <2>2. CASE p \in s..(n - 1)
    BY <1>1, <2>2 DEF Sends
  <2> QED BY <2>1, <2>2
<1>5. \A i, j \in 1..Len(r) :
        i < j /\ r[i].does = "send" /\ r[j].does = "send" => r[i].param < r[j].param
  <2> SUFFICES ASSUME NEW i \in 1..Len(r), NEW j \in 1..Len(r), i < j,
                      r[i].does = "send", r[j].does = "send"
               PROVE  r[i].param < r[j].param
    OBVIOUS
  <2>1. i \in 1..Len(q) /\ r[i] = q[i] /\ q[i].param \in s..(n - 1)
    BY <1>1 DEF Sends
  <2>2. CASE j \in 1..Len(q)
    BY <1>1, <2>1, <2>2 DEF Sends
  <2>3. CASE j = Len(q) + 1
    BY <1>1, <2>1, <2>3, SendFacts
  <2> QED BY <1>2, <2>2, <2>3
<1>6. s \in 1..(n + 1)
  BY DEF Sends
<1>7. Sends(r, s, n + 1)
  BY <1>3, <1>4, <1>5, <1>6 DEF Sends
<1> QED BY <1>7 DEF r

\* Both at once: what TrainerIssues appends on rank 0.
LEMMA OperationsQueued ==
  ASSUME NEW s \in Nat, NEW n \in Params, NEW q \in Seq(Operation), Sends(q, s, n)
  PROVE  Sends(q \o OperationsFor(0, n), s, n + 1)
<1>1. n \in Nat /\ Send(n) \in Operation
  BY DEF Params, Send, Operation
<1>2. CASE n \in sharded
  <2> DEFINE g == [does |-> "gather", param |-> n]
  <2>1. g \in Operation /\ g.does = "gather"
    BY DEF Operation
  <2>2. OperationsFor(0, n) = <<g, Send(n)>>
    <3>1. OperationsFor(0, n) = Append(<<g>>, Send(n))
      BY <1>2 DEF OperationsFor, Gather
    <3> HIDE DEF g
    <3> QED BY <3>1
  <2>3. q \o <<g, Send(n)>> = Append(Append(q, g), Send(n))
    BY <1>1, <2>1
  <2>4. Sends(Append(q, g), s, n) /\ Append(q, g) \in Seq(Operation)
    BY <1>1, <2>1, GatherQueued
  <2> HIDE DEF g
  <2>5. Sends(Append(Append(q, g), Send(n)), s, n + 1)
    BY <1>1, <2>4, SendQueued
  <2> QED BY <2>2, <2>3, <2>5
<1>3. CASE n \notin sharded
  <2>1. OperationsFor(0, n) = <<Send(n)>>
    BY <1>3 DEF OperationsFor, Gather
  <2>2. q \o <<Send(n)>> = Append(q, Send(n))
    BY <1>1
  <2> QED BY <1>1, <2>1, <2>2, SendQueued
<1> QED BY <1>2, <1>3

LEMMA OperationsType ==
  ASSUME NEW t \in Trainers, NEW n \in Params
  PROVE  OperationsFor(t, n) \in Seq(Operation)
<1>1. Send(n) \in Operation /\ [does |-> "gather", param |-> n] \in Operation
  BY DEF Send, Operation
<1>2. Gather(n) \in Seq(Operation)
  BY <1>1 DEF Gather
<1>3. Append(Gather(n), Send(n)) \in Seq(Operation)
  BY <1>1, <1>2
<1> QED BY <1>2, <1>3 DEF OperationsFor

-----------------------------------------------------------------------------
(* The state in which the system starts, and each action.                  *)

LEMMA ZeroTrains == 0 \in Trainers
BY DEF Trainers

LEMMA InvInit == Init => Inv
<1> SUFFICES ASSUME Init PROVE Inv
  OBVIOUS
<1>1. TypeOK
  BY DEF Init, TypeOK, Done, Params
<1>2. Aligned
  BY DEF Init, Aligned, Idle
<1>3. Waited
  BY DEF Init, Waited
<1>4. OwnName
  BY DEF Init, OwnName
<1> QED BY <1>1, <1>2, <1>3, <1>4 DEF Inv

LEMMA PrepareInfoInv == Inv /\ PrepareInfo => Inv'
BY DEF PrepareInfo, Inv, TypeOK, Aligned, Waited, OwnName, Idle

\* The trainers start a round: rank 0 is at the first parameter, with nothing
\* queued.
LEMMA CallTrainersInv == Inv /\ CallTrainers => Inv'
<1> SUFFICES ASSUME Inv, CallTrainers PROVE Inv'
  OBVIOUS
<1>1. TypeOK'
  BY DEF CallTrainers, Inv, TypeOK, Done
<1>2. Aligned'
  <2>1. queue[0] = <<>> /\ at'[0] = 1
    BY ZeroTrains DEF CallTrainers, Inv, Aligned
  <2>2. Sends(queue[0], 1, 1)
    BY <2>1 DEF Sends
  <2>3. \A d \in Devices : Idle(d)'
    BY DEF CallTrainers, Inv, Aligned, Idle
  <2>4. 1 \in 1..Done /\ pc' = "call_engine" /\ queue' = queue
    BY DEF CallTrainers, Done
  <2>5. Sends(queue[0], 1, 1)'
    BY <2>2, <2>4 DEF Sends, Send
  <2> QED BY <2>1, <2>3, <2>4, <2>5 DEF Aligned
<1>3. Waited'
  BY DEF CallTrainers, Waited
<1>4. OwnName'
  BY DEF CallTrainers, Inv, OwnName
<1> QED BY <1>1, <1>2, <1>3, <1>4 DEF Inv

LEMMA CallEngineInv == Inv /\ CallEngine => Inv'
<1> SUFFICES ASSUME Inv, CallEngine PROVE Inv'
  OBVIOUS
<1>1. TypeOK'
  <2>1. next' \in [Devices -> 1..Done]
    BY DEF CallEngine, Done
  <2>2. failed' \in [trainers : SUBSET Trainers, ranks : SUBSET Devices]
    BY DEF CallEngine, Inv, TypeOK
  <2> QED BY <2>1, <2>2 DEF CallEngine, Inv, TypeOK
<1>2. Aligned'
  <2>1. PICK s \in 1..Done :
          Sends(queue[0], s, at[0]) /\ \A d \in Devices : s = 1 /\ Idle(d)
    BY DEF CallEngine, Inv, Aligned
  <2>2. Sends(queue[0], s, at[0])'
    BY <2>1 DEF CallEngine, Sends, Send
  <2>3. ASSUME NEW d \in Devices
        PROVE  Receives(d, s)'
    <3>1. s = 1 /\ ops'[d] = <<>> /\ next'[d] = 1 /\ failed'.ranks = {}
      BY <2>1 DEF CallEngine, Idle, Inv, TypeOK
    <3> QED BY <3>1 DEF Receives, Params
  <2> QED BY <2>2, <2>3 DEF CallEngine, Aligned
<1>3. Waited'
  BY DEF CallEngine, Waited
<1>4. OwnName'
  BY DEF CallEngine, Inv, OwnName
<1> QED BY <1>1, <1>2, <1>3, <1>4 DEF Inv

LEMMA WaitTrainersInv == Inv /\ WaitTrainers => Inv'
<1> SUFFICES ASSUME Inv, WaitTrainers PROVE Inv'
  OBVIOUS
<1>1. TypeOK'
  BY DEF WaitTrainers, Inv, TypeOK
<1>2. Aligned'
  BY DEF WaitTrainers, Inv, Aligned, Receives, Sends, Send
<1>3. Waited'
  BY DEF WaitTrainers, Waited
<1>4. OwnName'
  BY DEF WaitTrainers, Inv, OwnName
<1> QED BY <1>1, <1>2, <1>3, <1>4 DEF Inv

LEMMA WaitEngineInv == Inv /\ WaitEngine => Inv'
<1> SUFFICES ASSUME Inv, WaitEngine PROVE Inv'
  OBVIOUS
<1>1. TypeOK'
  BY DEF WaitEngine, Inv, TypeOK
<1>2. Aligned'
  BY DEF WaitEngine, Inv, Aligned, Receives, Sends, Send
<1>3. Waited'
  BY DEF WaitEngine, Inv, Waited, Succeeded, Result
<1>4. OwnName'
  BY DEF WaitEngine, Inv, OwnName
<1> QED BY <1>1, <1>2, <1>3, <1>4 DEF Inv

LEMMA GenerateInv == Inv /\ Generate => Inv'
<1> SUFFICES ASSUME Inv, Generate PROVE Inv'
  OBVIOUS
<1>1. TypeOK'
  BY DEF Generate, Inv, TypeOK
<1>2. Aligned'
  BY DEF Generate, Inv, Aligned, Receives, Sends, Send
<1>3. Waited'
  BY DEF Generate, Inv, Waited, Succeeded, Result
<1>4. OwnName'
  BY DEF Generate, Inv, OwnName
<1> QED BY <1>1, <1>2, <1>3, <1>4 DEF Inv

\* The step ends the round: nothing is queued on either side.
LEMMA TrainInv == Inv /\ Train => Inv'
<1> SUFFICES ASSUME Inv, Train PROVE Inv'
  OBVIOUS
<1>1. TypeOK'
  BY DEF Train, Inv, TypeOK
<1>2. Aligned'
  BY DEF Train, Inv, Aligned, Waited, Idle
<1>3. Waited'
  BY DEF Train, Inv, Waited
<1>4. OwnName'
  BY DEF Train, Inv, OwnName
<1> QED BY <1>1, <1>2, <1>3, <1>4 DEF Inv

-----------------------------------------------------------------------------
(* The methods.                                                            *)

\* The rounds in which the engine's methods run.
InRound == {"wait_trainers", "wait_engine", "generate", "train", "raised"}

\* A trainer queues a parameter's operations; only rank 0's are sends.
LEMMA TrainerIssuesInv == ASSUME NEW t \in Trainers, Inv, TrainerIssues(t) PROVE Inv'
<1>1. /\ at[t] \in Params /\ at[t] \in Nat /\ queue[t] \in Seq(Operation)
      /\ at' = [at EXCEPT ![t] = at[t] + 1]
      /\ queue' = [queue EXCEPT ![t] = queue[t] \o OperationsFor(t, at[t])]
  BY DEF TrainerIssues, Inv, TypeOK, Params
<1>2. /\ UNCHANGED <<pc, version, sharded, depth, next, ops, loaded, failed>>
      /\ at \in [Trainers -> 1..Done] /\ queue \in [Trainers -> Seq(Operation)]
  BY DEF TrainerIssues, Inv, TypeOK
<1>3. TypeOK'
  <2>1. at[t] + 1 \in 1..Done
    BY <1>1 DEF Params, Done
  <2>2. queue[t] \o OperationsFor(t, at[t]) \in Seq(Operation)
    BY <1>1, OperationsType
  <2> QED BY <1>1, <1>2, <2>1, <2>2 DEF Inv, TypeOK
<1>4. pc \notin {"info", "call_trainers", "wait_engine", "generate", "train", "end"}
  BY <1>1 DEF Inv, Waited, Done, Params
<1>5. ASSUME NEW s \in 1..Done, Sends(queue[0], s, at[0])
      PROVE  Sends(queue[0], s, at[0])'
  <2>1. CASE t = 0
    <3>1. queue'[0] = queue[0] \o OperationsFor(0, at[0]) /\ at'[0] = at[0] + 1
      BY <1>1, <1>2, <2>1
    <3>2. Sends(queue[0] \o OperationsFor(0, at[0]), s, at[0] + 1)
      BY <1>1, <1>5, <2>1, OperationsQueued
    <3> QED BY <3>1, <3>2 DEF Sends, Send
  <2>2. CASE t # 0
    <3>1. queue'[0] = queue[0] /\ at'[0] = at[0]
      BY <1>1, <1>2, <2>2, ZeroTrains
    <3> QED BY <1>5, <3>1 DEF Sends, Send
  <2> QED BY <2>1, <2>2
<1>6. \A d \in Devices, s \in 1..Done : Receives(d, s) => Receives(d, s)'
  BY <1>2 DEF Receives
<1>7. \A d \in Devices : Idle(d) => Idle(d)'
  BY <1>2 DEF Idle
<1>8. Aligned'
  <2>1. CASE pc = "call_engine"
    <3>1. PICK s \in 1..Done :
            Sends(queue[0], s, at[0]) /\ \A d \in Devices : s = 1 /\ Idle(d)
      BY <2>1 DEF Inv, Aligned
    <3> QED BY <1>2, <1>5, <1>7, <2>1, <3>1 DEF Aligned
  <2>2. CASE pc \in InRound
    <3>1. PICK s \in 1..Done :
            Sends(queue[0], s, at[0]) /\ \A d \in Devices : Receives(d, s)
      BY <2>2 DEF Inv, Aligned, InRound
    <3>2. Sends(queue[0], s, at[0])' /\ \A d \in Devices : Receives(d, s)'
      BY <1>5, <1>6, <3>1
    <3> QED BY <1>2, <1>4, <2>2, <3>2 DEF Aligned, InRound
  <2> QED BY <1>2, <1>4, <2>1, <2>2 DEF Aligned, InRound, Inv, TypeOK
<1>9. Waited'
  BY <1>2, <1>4 DEF Waited
<1>10. OwnName'
  BY <1>2 DEF Inv, OwnName
<1> QED BY <1>3, <1>8, <1>9, <1>10 DEF Inv

LEMMA TrainerRaisesInv == ASSUME NEW t \in Trainers, Inv, TrainerRaises(t) PROVE Inv'
<1>1. /\ UNCHANGED <<pc, version, sharded, depth, at, queue, next, ops, loaded>>
      /\ failed' = [failed EXCEPT !.trainers = @ \cup {t}]
  BY DEF TrainerRaises
<1>2. failed'.ranks = failed.ranks /\ failed' \in [trainers : SUBSET Trainers, ranks : SUBSET Devices]
  BY <1>1 DEF Inv, TypeOK
<1>3. TypeOK'
  BY <1>1, <1>2 DEF Inv, TypeOK
<1>4. Aligned'
  <2>1. \A s \in 1..Done : Sends(queue[0], s, at[0]) => Sends(queue[0], s, at[0])'
    BY <1>1 DEF Sends, Send
  <2>2. \A d \in Devices, s \in 1..Done : Receives(d, s) => Receives(d, s)'
    BY <1>1, <1>2 DEF Receives
  <2>3. \A d \in Devices : Idle(d) => Idle(d)'
    BY <1>1, <1>2 DEF Idle
  <2>4. CASE pc = "call_engine"
    <3>1. PICK s \in 1..Done :
            Sends(queue[0], s, at[0]) /\ \A d \in Devices : s = 1 /\ Idle(d)
      BY <2>4 DEF Inv, Aligned
    <3> QED BY <1>1, <2>1, <2>3, <2>4, <3>1 DEF Aligned
  <2>5. CASE pc \in InRound
    <3>1. PICK s \in 1..Done :
            Sends(queue[0], s, at[0]) /\ \A d \in Devices : Receives(d, s)
      BY <2>5 DEF Inv, Aligned, InRound
    <3>2. Sends(queue[0], s, at[0])' /\ \A d \in Devices : Receives(d, s)'
      BY <2>1, <2>2, <3>1
    <3> QED BY <1>1, <2>5, <3>2 DEF Aligned, InRound
  <2>6. CASE pc \notin InRound \cup {"call_engine"}
    BY <1>1, <2>6 DEF Inv, Aligned, InRound, Idle
  <2> QED BY <2>4, <2>5, <2>6
<1>5. Waited'
  BY <1>1, <1>2 DEF Inv, Waited, Succeeded, Result
<1>6. OwnName'
  BY <1>1 DEF Inv, OwnName
<1> QED BY <1>3, <1>4, <1>5, <1>6 DEF Inv

\* A rank that still issues is in a round, and has not raised.
LEMMA IssuingRank ==
  ASSUME Inv, NEW d \in Devices, next[d] \in Params
  PROVE  /\ pc \in {"wait_trainers", "wait_engine", "raised"}
         /\ next[d] # Done /\ d \notin failed.ranks
<1>1. next[d] # Done
  BY DEF Params, Done
<1>2. pc \in {"wait_trainers", "wait_engine", "raised"}
  BY <1>1 DEF Inv, TypeOK, Aligned, Waited, Idle
<1>3. \E s \in 1..Done : Receives(d, s)
  BY <1>2 DEF Inv, Aligned
<1> QED BY <1>1, <1>2, <1>3 DEF Receives

LEMMA QueuedType ==
  ASSUME TypeOK, NEW d \in Devices, next[d] \in Params, NEW load \in BOOLEAN, Queued(d, load)
  PROVE  /\ ops' \in [Devices -> Seq(Broadcast)]
         /\ ops'[d] = Append(ops[d], [param |-> next[d], load |-> load])
         /\ \A e \in Devices : e # d => ops'[e] = ops[e]
<1>1. [param |-> next[d], load |-> load] \in Broadcast
  BY DEF Broadcast
<1>2. ops[d] \in Seq(Broadcast)
  BY DEF TypeOK
<1>3. Append(ops[d], [param |-> next[d], load |-> load]) \in Seq(Broadcast)
  BY <1>1, <1>2
<1> QED BY <1>3 DEF Queued, TypeOK

LEMMA RankIssuesInv == ASSUME NEW d \in Devices, Inv, RankIssues(d) PROVE Inv'
<1>q. Queued(d, TRUE)
  BY Zenon DEF RankIssues
<1>1. /\ next[d] \in Params /\ next[d] \in Nat
      /\ next' = [next EXCEPT ![d] = next[d] + 1]
      /\ UNCHANGED <<pc, version, sharded, depth, at, queue, loaded, failed>>
  BY DEF RankIssues, Params, Queued
<1>2. pc \in {"wait_trainers", "wait_engine", "raised"} /\ d \notin failed.ranks
  BY <1>1, IssuingRank
<1>3. /\ ops' \in [Devices -> Seq(Broadcast)]
      /\ ops'[d] = Append(ops[d], [param |-> next[d], load |-> TRUE])
      /\ \A e \in Devices : e # d => ops'[e] = ops[e]
  BY <1>1, <1>q, QueuedType DEF Inv
<1>4. TypeOK'
  <2>1. next[d] + 1 \in 1..Done
    BY <1>1 DEF Params, Done
  <2> QED BY <1>1, <1>3, <2>1 DEF Inv, TypeOK
<1>5. PICK s \in 1..Done :
        Sends(queue[0], s, at[0]) /\ \A e \in Devices : Receives(e, s)
  BY <1>2 DEF Inv, Aligned
<1>6. ASSUME NEW e \in Devices PROVE Receives(e, s)'
  <2>1. CASE e # d
    <3>1. ops'[e] = ops[e] /\ next'[e] = next[e]
      BY <1>1, <1>3, <2>1 DEF Inv, TypeOK
    <3> QED BY <1>1, <1>5, <3>1 DEF Receives
  <2>2. CASE e = d
    <3>1. /\ ops[d] \in Seq(Broadcast) /\ Len(ops[d]) \in Nat
          /\ Len(ops'[d]) = Len(ops[d]) + 1
          /\ ops'[d][Len(ops[d]) + 1] = [param |-> next[d], load |-> TRUE]
          /\ \A i \in 1..Len(ops[d]) : ops'[d][i] = ops[d][i]
      BY <1>3 DEF Inv, TypeOK
    <3>2. next[d] = s + Len(ops[d]) /\ next'[d] = next[d] + 1
      BY <1>1, <1>2, <1>5 DEF Receives, Inv, TypeOK
    <3>3. \A i \in 1..Len(ops'[d]) : ops'[d][i].param = s + i - 1 /\ ops'[d][i].load
      <4> SUFFICES ASSUME NEW i \in 1..Len(ops'[d])
                   PROVE  ops'[d][i].param = s + i - 1 /\ ops'[d][i].load
        OBVIOUS
      <4>1. CASE i \in 1..Len(ops[d])
        <5>1. ops[d][i].param = s + i - 1 /\ ops[d][i].load
          BY <1>2, <1>5, <4>1 DEF Receives
        <5> QED BY <3>1, <4>1, <5>1
      <4>2. CASE i = Len(ops[d]) + 1
        BY <1>1, <3>1, <3>2, <4>2
      <4> QED BY <3>1, <4>1, <4>2
    <3>4. next'[d] = s + Len(ops'[d])
      BY <1>1, <3>1, <3>2
    <3> QED BY <1>1, <1>2, <1>5, <2>2, <3>3, <3>4 DEF Receives
  <2> QED BY <2>1, <2>2
<1>7. Aligned'
  BY <1>1, <1>2, <1>5, <1>6 DEF Aligned, Sends, Send
<1>8. Waited'
  BY <1>1, <1>2 DEF Inv, Waited
<1>9. OwnName'
  BY <1>1 DEF Inv, OwnName
<1> QED BY <1>4, <1>7, <1>8, <1>9 DEF Inv

\* A rank that raises leaves its queue a prefix of what the others queue.
LEMMA RankRaisesInv == ASSUME NEW d \in Devices, Inv, RankRaises(d) PROVE Inv'
<1>q. ops' = ops \/ Queued(d, FALSE)
  BY Zenon DEF RankRaises
<1>1. /\ next[d] \in Params /\ next[d] \in Nat
      /\ next' = [next EXCEPT ![d] = Done]
      /\ failed' = [failed EXCEPT !.ranks = @ \cup {d}]
      /\ UNCHANGED <<pc, version, sharded, depth, at, queue, loaded>>
  BY DEF RankRaises, LeavesLoop, Params, Queued
<1>2. pc \in {"wait_trainers", "wait_engine", "raised"} /\ d \notin failed.ranks
  BY <1>1, IssuingRank
<1>3. /\ failed' \in [trainers : SUBSET Trainers, ranks : SUBSET Devices]
      /\ failed'.ranks = failed.ranks \cup {d}
  BY <1>1 DEF Inv, TypeOK
<1>4. /\ ops' \in [Devices -> Seq(Broadcast)]
      /\ ops'[d] = ops[d] \/ ops'[d] = Append(ops[d], [param |-> next[d], load |-> FALSE])
      /\ \A e \in Devices : e # d => ops'[e] = ops[e]
  <2>1. CASE ops' = ops
    BY <2>1 DEF Inv, TypeOK
  <2>2. CASE Queued(d, FALSE)
    BY <1>1, <2>2, QueuedType DEF Inv
  <2> QED BY <1>q, <2>1, <2>2
<1>5. TypeOK'
  <2>1. next' \in [Devices -> 1..Done]
    BY <1>1 DEF Inv, TypeOK, Done
  <2> QED BY <1>1, <1>3, <1>4, <2>1 DEF Inv, TypeOK
<1>6. PICK s \in 1..Done :
        Sends(queue[0], s, at[0]) /\ \A e \in Devices : Receives(e, s)
  BY <1>2 DEF Inv, Aligned
<1>7. ASSUME NEW e \in Devices PROVE Receives(e, s)'
  <2>1. CASE e # d
    <3>1. ops'[e] = ops[e] /\ next'[e] = next[e] /\ (e \in failed'.ranks <=> e \in failed.ranks)
      BY <1>1, <1>3, <1>4, <2>1 DEF Inv, TypeOK
    <3> QED BY <1>1, <1>6, <3>1 DEF Receives
  <2>2. CASE e = d
    <3>1. next'[d] = Done /\ d \in failed'.ranks
      BY <1>1, <1>3 DEF Inv, TypeOK
    <3>2. next[d] = s + Len(ops[d]) /\ \A i \in 1..Len(ops[d]) : ops[d][i].param = s + i - 1
      BY <1>2, <1>6 DEF Receives
    <3>3. \A i \in 1..Len(ops'[d]) : ops'[d][i].param = s + i - 1
      <4>1. CASE ops'[d] = ops[d]
        BY <3>2, <4>1
      <4>2. CASE ops'[d] = Append(ops[d], [param |-> next[d], load |-> FALSE])
        <5>1. /\ ops[d] \in Seq(Broadcast) /\ Len(ops[d]) \in Nat
              /\ Len(ops'[d]) = Len(ops[d]) + 1
              /\ ops'[d][Len(ops[d]) + 1] = [param |-> next[d], load |-> FALSE]
              /\ \A i \in 1..Len(ops[d]) : ops'[d][i] = ops[d][i]
          BY <4>2 DEF Inv, TypeOK
        <5> SUFFICES ASSUME NEW i \in 1..Len(ops'[d]) PROVE ops'[d][i].param = s + i - 1
          OBVIOUS
        <5>2. CASE i \in 1..Len(ops[d])
          BY <3>2, <5>1, <5>2
        <5>3. CASE i = Len(ops[d]) + 1
          <6>1. ops'[d][i].param = next[d]
            BY <5>1, <5>3
          <6>2. next[d] = s + i - 1
            BY <3>2, <5>1, <5>3
          <6> QED BY <6>1, <6>2
        <5> QED BY <5>1, <5>2, <5>3
      <4> QED BY <1>4, <4>1, <4>2
    <3> QED BY <2>2, <3>1, <3>3 DEF Receives
  <2> QED BY <2>1, <2>2
<1>8. Aligned'
  BY <1>1, <1>2, <1>6, <1>7 DEF Aligned, Sends, Send
<1>9. Waited'
  BY <1>1, <1>2 DEF Inv, Waited
<1>10. OwnName'
  BY <1>1 DEF Inv, OwnName
<1> QED BY <1>5, <1>8, <1>9, <1>10 DEF Inv

-----------------------------------------------------------------------------
(* The GPUs.                                                               *)

LEMMA HeadOfQueue ==
  ASSUME TypeOK, NEW t \in Trainers, queue[t] # <<>>
  PROVE  queue[t] \in Seq(Operation) /\ Tail(queue[t]) \in Seq(Operation)
BY DEF TypeOK

\* Between the rounds and before them no GPU has anything to run.
LEMMA RunGatherInv == Inv /\ RunGather => Inv'
<1> SUFFICES ASSUME Inv, RunGather PROVE Inv'
  OBVIOUS
<1>1. /\ \A t \in Trainers : queue[t] # <<>> /\ Head(queue[t]).does = "gather"
      /\ queue' = [t \in Trainers |-> Tail(queue[t])]
      /\ UNCHANGED <<pc, version, sharded, depth, at, next, ops, loaded, failed>>
  BY DEF RunGather, Heads
<1>2. TypeOK'
  <2>1. queue' \in [Trainers -> Seq(Operation)]
    BY <1>1, HeadOfQueue DEF Inv
  <2> QED BY <1>1, <2>1 DEF Inv, TypeOK
<1>3. queue[0] # <<>> /\ Head(queue[0]).does = "gather" /\ queue'[0] = Tail(queue[0])
  BY <1>1, ZeroTrains
<1>4. ASSUME NEW s \in 1..Done, Sends(queue[0], s, at[0])
      PROVE  Sends(queue[0], s, at[0])'
  <2>1. s \in Nat /\ at[0] \in Nat /\ queue[0] \in Seq(Operation) /\ at'[0] = at[0]
    BY <1>1, ZeroTrains DEF Inv, TypeOK, Done
  <2>2. Sends(Tail(queue[0]), s, at[0])
    BY <1>3, <1>4, <2>1, GatherRuns
  <2> QED BY <1>3, <2>1, <2>2 DEF Sends, Send
<1>5. \A d \in Devices : \A s \in 1..Done : Receives(d, s) => Receives(d, s)'
  BY <1>1 DEF Receives
<1>6. Aligned'
  <2>1. CASE pc \in {"info", "call_trainers"}
    BY <1>3, <2>1, ZeroTrains DEF Inv, Aligned
  <2>2. CASE pc = "call_engine"
    <3>1. PICK s \in 1..Done :
            Sends(queue[0], s, at[0]) /\ \A d \in Devices : s = 1 /\ Idle(d)
      BY <2>2 DEF Inv, Aligned
    <3>2. \A d \in Devices : Idle(d)'
      BY <1>1, <3>1 DEF Idle
    <3> QED BY <1>1, <1>4, <2>2, <3>1, <3>2 DEF Aligned
  <2>3. CASE pc \in InRound
    <3>1. PICK s \in 1..Done :
            Sends(queue[0], s, at[0]) /\ \A d \in Devices : Receives(d, s)
      BY <2>3 DEF Inv, Aligned, InRound
    <3>2. Sends(queue[0], s, at[0])' /\ \A d \in Devices : Receives(d, s)'
      BY <1>4, <1>5, <3>1
    <3> QED BY <1>1, <2>3, <3>2 DEF Aligned, InRound
  <2>4. CASE pc = "end"
    BY <1>1, <2>4 DEF Aligned
  <2> QED BY <2>1, <2>2, <2>3, <2>4 DEF Inv, TypeOK, InRound
<1>7. Waited'
  BY <1>1 DEF Inv, Waited, Succeeded, Result
<1>8. OwnName'
  BY <1>1 DEF Inv, OwnName
<1> QED BY <1>2, <1>6, <1>7, <1>8 DEF Inv

\* A broadcast carries the parameter s from rank 0 to every rank that loads
\* under the name s; whoever has not raised then holds it.
LEMMA RunBroadcastInv == Inv /\ RunBroadcast => Inv'
<1> SUFFICES ASSUME Inv, RunBroadcast PROVE Inv'
  OBVIOUS
<1>1. /\ queue[0] # <<>> /\ Head(queue[0]).does = "send"
      /\ queue' = [queue EXCEPT ![0] = Tail(queue[0])]
      /\ \A d \in Devices : ops[d] # <<>>
      /\ ops' = [d \in Devices |-> Tail(ops[d])]
      /\ loaded' = [d \in Devices |->
           IF Head(ops[d]).load
           THEN [loaded[d] EXCEPT ![Head(ops[d]).param] = <<Head(queue[0]).param, version>>]
           ELSE loaded[d]]
      /\ UNCHANGED <<pc, version, sharded, depth, at, next, failed>>
  BY DEF RunBroadcast
<1>2. /\ queue[0] \in Seq(Operation) /\ Tail(queue[0]) \in Seq(Operation)
      /\ queue'[0] = Tail(queue[0]) /\ at[0] \in Nat /\ at'[0] = at[0] /\ version \in Nat
  BY <1>1, ZeroTrains DEF Inv, TypeOK, Done
<1>3. ASSUME NEW d \in Devices
      PROVE  /\ ops[d] \in Seq(Broadcast) /\ Len(ops[d]) \in Nat /\ Len(ops[d]) >= 1
             /\ Head(ops[d]) = ops[d][1] /\ Head(ops[d]) \in Broadcast
             /\ ops'[d] = Tail(ops[d]) /\ ops'[d] \in Seq(Broadcast)
             /\ Len(ops'[d]) = Len(ops[d]) - 1
             /\ \A i \in 1..Len(ops'[d]) : ops'[d][i] = ops[d][i + 1] /\ i + 1 \in 1..Len(ops[d])
  <2>1. ops[d] \in Seq(Broadcast) /\ ops[d] # <<>> /\ ops'[d] = Tail(ops[d])
    BY <1>1 DEF Inv, TypeOK
  <2> QED BY <2>1
<1>4. Head(queue[0]) \in Operation
  BY <1>1, <1>2
<1>5. TypeOK'
  <2>1. queue' \in [Trainers -> Seq(Operation)]
    BY <1>1, <1>2 DEF Inv, TypeOK
  <2>2. ops' \in [Devices -> Seq(Broadcast)]
    BY <1>1, <1>3
  <2>3. loaded' \in [Devices -> [Params -> Params \X Nat]]
    <3> SUFFICES ASSUME NEW d \in Devices PROVE loaded'[d] \in [Params -> Params \X Nat]
      BY <1>1
    <3>1. loaded[d] \in [Params -> Params \X Nat]
      BY DEF Inv, TypeOK
    <3>2. Head(queue[0]).param \in Params /\ Head(ops[d]).param \in Params
      BY <1>3, <1>4 DEF Operation, Broadcast
    <3>3. <<Head(queue[0]).param, version>> \in Params \X Nat
      BY <1>2, <3>2
    <3> QED BY <1>1, <3>1, <3>2, <3>3
  <2> QED BY <1>1, <2>1, <2>2, <2>3 DEF Inv, TypeOK
<1>6. ASSUME NEW s \in 1..Done, Sends(queue[0], s, at[0])
      PROVE  /\ Head(queue[0]).param = s /\ s + 1 \in 1..Done
             /\ Sends(queue[0], s + 1, at[0])'
  <2>1. s \in Nat
    OBVIOUS
  <2>2. /\ Head(queue[0]).param = s /\ s + 1 \in 1..at[0]
        /\ Sends(Tail(queue[0]), s + 1, at[0])
    BY <1>1, <1>2, <1>6, <2>1, SendRuns
  <2>3. at[0] \in 1..Done
    BY ZeroTrains DEF Inv, TypeOK
  <2>4. Sends(queue[0], s + 1, at[0])'
    BY <1>2, <2>2 DEF Sends, Send
  <2> QED BY <2>2, <2>3, <2>4 DEF Done
<1>7. ASSUME NEW s \in 1..Done, Sends(queue[0], s, at[0]),
             NEW d \in Devices, Receives(d, s)
      PROVE  /\ Head(ops[d]).param = s
             /\ Receives(d, s + 1)'
  <2>1. Head(ops[d]).param = s
    BY <1>3, <1>7 DEF Receives
  <2>2. \A i \in 1..Len(ops'[d]) : ops'[d][i].param = (s + 1) + i - 1
    <3> SUFFICES ASSUME NEW i \in 1..Len(ops'[d])
                 PROVE  ops'[d][i].param = (s + 1) + i - 1
      OBVIOUS
    <3>1. ops'[d][i] = ops[d][i + 1] /\ i + 1 \in 1..Len(ops[d])
      BY <1>3
    <3>2. ops[d][i + 1].param = s + (i + 1) - 1
      BY <1>7, <3>1 DEF Receives
    <3>3. s + (i + 1) - 1 = (s + 1) + i - 1
      OBVIOUS
    <3> QED BY <3>1, <3>2, <3>3
  <2>3. ASSUME d \notin failed.ranks
        PROVE  /\ next'[d] = (s + 1) + Len(ops'[d])
               /\ \A i \in 1..Len(ops'[d]) : ops'[d][i].load
               /\ \A p \in Params : p < s + 1 => loaded'[d][p] = <<p, version>>
    <3>1. next'[d] = (s + 1) + Len(ops'[d])
      <4>1. next'[d] = next[d] /\ next[d] = s + Len(ops[d])
        BY <1>1, <1>7, <2>3 DEF Receives
      <4>2. Len(ops'[d]) = Len(ops[d]) - 1 /\ Len(ops[d]) \in Nat
        BY <1>3
      <4>3. \A n \in Nat : s + n = (s + 1) + (n - 1)
        OBVIOUS
      <4>4. s + Len(ops[d]) = (s + 1) + (Len(ops[d]) - 1)
        BY <4>2, <4>3
      <4> QED BY <4>1, <4>2, <4>4, Zenon
    <3>2. \A i \in 1..Len(ops'[d]) : ops'[d][i].load
      BY <1>3, <1>7, <2>3 DEF Receives
    <3>3. Head(ops[d]).load
      BY <1>3, <1>7, <2>3 DEF Receives
    <3>4. loaded'[d] = [loaded[d] EXCEPT ![s] = <<s, version>>]
      BY <1>1, <1>6, <1>7, <2>1, <3>3
    <3>5. loaded[d] \in [Params -> Params \X Nat]
      BY DEF Inv, TypeOK
    <3>6. \A p \in Params : p < s => loaded[d][p] = <<p, version>>
      BY <1>7, <2>3 DEF Receives
    <3>7. \A p \in Params : p < s + 1 => loaded'[d][p] = <<p, version>>
      <4> SUFFICES ASSUME NEW p \in Params, p < s + 1
                   PROVE  loaded'[d][p] = <<p, version>>
        OBVIOUS
      <4>1. CASE p = s
        BY <3>4, <3>5, <4>1
      <4>2. CASE p < s
        BY <3>4, <3>5, <3>6, <4>2
      <4> QED BY <4>1, <4>2 DEF Params
    <3> QED BY <3>1, <3>2, <3>7
  <2>4. d \in failed.ranks => next'[d] = Done
    BY <1>1, <1>7 DEF Receives
  <2>5. Receives(d, s + 1)'
    BY <1>1, <2>2, <2>3, <2>4 DEF Receives
  <2> QED BY <2>1, <2>5
<1>8. pc \notin {"info", "call_trainers"}
  BY <1>1, ZeroTrains DEF Inv, Aligned
<1>9. Aligned'
  <2>1. CASE pc = "call_engine"
    <3>1. PICK s \in 1..Done :
            Sends(queue[0], s, at[0]) /\ \A d \in Devices : s = 1 /\ Idle(d)
      BY <2>1 DEF Inv, Aligned
    <3>2. Devices = {}
      BY <1>1, <3>1 DEF Idle
    <3> QED BY <1>1, <1>6, <2>1, <3>1, <3>2 DEF Aligned
  <2>2. CASE pc \in InRound
    <3>1. PICK s \in 1..Done :
            Sends(queue[0], s, at[0]) /\ \A d \in Devices : Receives(d, s)
      BY <2>2 DEF Inv, Aligned, InRound
    <3>2. s + 1 \in 1..Done /\ Sends(queue[0], s + 1, at[0])'
          /\ \A d \in Devices : Receives(d, s + 1)'
      BY <1>6, <1>7, <3>1
    <3> QED BY <1>1, <2>2, <3>2 DEF Aligned, InRound
  <2>3. CASE pc = "end"
    BY <1>1, <2>3 DEF Aligned
  <2> QED BY <1>8, <2>1, <2>2, <2>3 DEF Inv, TypeOK, InRound
<1>10. Waited'
  <2>1. pc \in {"train", "end"} => Devices = {}
    BY <1>1 DEF Inv, Waited
  <2> QED BY <1>1, <2>1 DEF Inv, Waited, Succeeded, Result
<1>11. OwnName'
  <2> SUFFICES ASSUME NEW d \in Devices, NEW p \in Params PROVE loaded'[d][p][1] = p
    BY DEF OwnName
  <2>1. loaded[d] \in [Params -> Params \X Nat] /\ loaded[d][p][1] = p
    BY DEF Inv, TypeOK, OwnName
  <2>2. Head(ops[d]).param = Head(queue[0]).param
    <3>1. ops[d] # <<>>
      BY <1>1
    <3>2. pc \in InRound
      BY <1>8, <3>1 DEF Inv, TypeOK, Aligned, Waited, Idle, InRound
    <3>3. PICK s \in 1..Done :
            Sends(queue[0], s, at[0]) /\ \A e \in Devices : Receives(e, s)
      BY <3>2 DEF Inv, Aligned, InRound
    <3> QED BY <1>6, <1>7, <3>3
  <2>3. loaded'[d] \in {loaded[d],
          [loaded[d] EXCEPT ![Head(queue[0]).param] = <<Head(queue[0]).param, version>>]}
    BY <1>1, <2>2
  <2> QED BY <2>1, <2>3
<1> QED BY <1>5, <1>9, <1>10, <1>11 DEF Inv

-----------------------------------------------------------------------------
LEMMA InvNext == Inv /\ [Next]_vars => Inv'
<1> SUFFICES ASSUME Inv, [Next]_vars PROVE Inv'
  OBVIOUS
<1>1. CASE UNCHANGED vars
  <2>1. TypeOK'
    BY <1>1 DEF Inv, TypeOK
  <2>2. Aligned'
    BY <1>1 DEF Inv, Aligned, Receives, Sends, Send, Idle
  <2>3. Waited' /\ OwnName'
    BY <1>1 DEF Inv, Waited, OwnName, Succeeded, Result
  <2> QED BY <2>1, <2>2, <2>3 DEF Inv
<1>2. CASE Driver
  BY <1>2, PrepareInfoInv, CallTrainersInv, CallEngineInv, WaitTrainersInv, WaitEngineInv,
     GenerateInv, TrainInv DEF Driver
<1>3. CASE Gpus
  BY <1>3, RunGatherInv, RunBroadcastInv DEF Gpus
<1>4. CASE \E t \in Trainers : TrainerIssues(t) \/ TrainerRaises(t)
  BY <1>4, TrainerIssuesInv, TrainerRaisesInv
<1>5. CASE \E d \in Devices : RankIssues(d) \/ RankRaises(d)
  BY <1>5, RankIssuesInv, RankRaisesInv
<1> QED BY <1>1, <1>2, <1>3, <1>4, <1>5 DEF Next

\* The trainer's sends and every rank's receives stay aligned at one parameter.
LEMMA InvAlways == Spec => []Inv
BY InvInit, InvNext, PTL DEF Spec

\* No rank ever holds a weight under another's name, and a generation that ends
\* has used the weights of the last step on every rank that did not raise.
THEOREM BroadcastsCurrent == Spec => []CurrentWeights
<1>1. Inv => CurrentWeights
  <2> SUFFICES ASSUME Inv, pc = "train"
               PROVE  /\ \A r \in Replicas : <<r, 0>> \notin failed.ranks
                      /\ \A d \in Devices \ failed.ranks :
                           \A p \in Params : loaded[d][p][2] = version
    BY DEF CurrentWeights, Inv, OwnName
  <2>1. \A r \in Replicas : <<r, 0>> \notin failed.ranks
    BY DEF Inv, Waited, Succeeded, Result
  <2>2. PICK s \in 1..Done : \A d \in Devices : Receives(d, s)
    BY DEF Inv, Aligned
  <2>3. ASSUME NEW d \in Devices \ failed.ranks, NEW p \in Params
        PROVE  loaded[d][p][2] = version
    <3>1. next[d] = Done /\ ops[d] = <<>>
      BY DEF Inv, Waited
    <3>2. s = Done
      BY <2>2, <3>1 DEF Receives
    <3>3. p < s
      BY <3>2 DEF Params, Done
    <3>4. loaded[d][p] = <<p, version>>
      BY <2>2, <3>3 DEF Receives
    <3> QED BY <3>4
  <2> QED BY <2>1, <2>3
<1> QED BY <1>1, InvAlways, PTL

-----------------------------------------------------------------------------
(***************************************************************************)
(* The transfer by handles.                                                *)
(***************************************************************************)
USE DEF refitVars, sizes, loading

\* A device of the engine is a rank of a replica.
LEMMA DeviceFacts ==
  /\ \A d \in Devices : \E r \in Replicas, t \in Ranks : d = <<r, t>>
  /\ \A r \in Replicas, t \in Ranks : <<r, t>> \in Devices
BY DEF Devices

LEMMA HandoverInit == RefitInit => Handover
BY DEF RefitInit, Handover

LEMMA ServeHandlesStep ==
  ASSUME Handover, NEW d \in Devices, ServeHandles(d) PROVE Handover'
BY DEF Handover, ServeHandles, OnlyKeep

LEMMA StartLoadStep ==
  ASSUME Handover, NEW d \in Devices, StartLoad(d) PROVE Handover'
BY DeviceFacts DEF Handover, StartLoad

LEMMA LoadStep ==
  ASSUME Handover, NEW d \in Devices, Load(d) \/ LoadRaises(d) PROVE Handover'
BY DeviceFacts DEF Handover, Load, LoadRaises

LEMMA LeaderReturnsStep ==
  ASSUME Handover, NEW r \in Replicas, LeaderReturns(r) PROVE Handover'
BY DEF Handover, LeaderReturns, AllAnswered

\* Once every leader has answered, no rank is reading any more.
LEMMA CollectStep ==
  ASSUME Handover, Collect PROVE Handover'
<1>1. \A d \in Devices : rank[d] \in {"true", "false"}
  BY DeviceFacts DEF Handover, Collect
<1> QED BY <1>1 DEF Handover, Collect

LEMMA HandoverNext == Handover /\ [RefitNext]_refitVars => Handover'
<1> SUFFICES ASSUME Handover, [RefitNext]_refitVars PROVE Handover'
  OBVIOUS
<1>1. CASE PrepareWeights
  BY <1>1 DEF Handover, PrepareWeights
<1>2. CASE AskHandles
  BY <1>2 DEF Handover, AskHandles
<1>3. CASE Update
  BY <1>3 DEF Handover, Update
<1>4. CASE Collect
  BY <1>4, CollectStep
<1>5. CASE Offload
  BY <1>5 DEF Handover, Offload
<1>6. CASE \E d \in Devices : ServeHandles(d) \/ StartLoad(d) \/ Load(d) \/ LoadRaises(d)
  BY <1>6, ServeHandlesStep, StartLoadStep, LoadStep
<1>7. CASE \E r \in Replicas : LeaderReturns(r)
  BY <1>7, LeaderReturnsStep
<1>8. CASE UNCHANGED refitVars
  BY <1>8 DEF Handover
<1> QED BY <1>1, <1>2, <1>3, <1>4, <1>5, <1>6, <1>7, <1>8 DEF RefitNext

\* get_weights_ipc_handles drops the previous group (dtensor_policy_worker.py
\* 916-919) only when no rank of any replica can still be reading it.
THEOREM HandlesStayAlive == RefitSpec => []HandlesAlive
<1>1. Handover => HandlesAlive
  BY DEF Handover, HandlesAlive
<1> QED BY <1>1, HandoverInit, HandoverNext, PTL DEF RefitSpec

-----------------------------------------------------------------------------
(***************************************************************************)
(* The groups together are the state dict.  Induction over the parameters  *)
(* is by a least counterexample.                                           *)
(***************************************************************************)

\* A set of naturals that is not empty has a least element.
LEMMA LeastNatural ==
  ASSUME NEW S \in SUBSET Nat, S # {}
  PROVE  \E m \in S : \A k \in S : m <= k
<1> DEFINE R == {ss \in Nat \X Nat : ss[1] < ss[2]}
<1>1. IsWellFoundedOn(R, Nat)
  BY NatLessThanWellFounded DEF OpToRel
<1>2. S \subseteq Nat /\ S # {}
  OBVIOUS
<1>3. \E m \in S : \A k \in S : ~(<<k, m>> \in R)
  <2> HIDE DEF R
  <2> QED BY <1>1, <1>2, WFMin
<1>4. PICK m \in S : \A k \in S : ~(<<k, m>> \in R)
  BY <1>3
<1>5. \A k \in S : m <= k
  <2> TAKE k \in S
  <2>1. <<k, m>> \notin R /\ k \in Nat /\ m \in Nat
    BY <1>2, <1>4
  <2> QED BY <2>1
<1> QED BY <1>5

\* The first n parameters can be grouped one after the other.
Groups(g, n) ==
  g = [p \in 0..n |-> IF p = 0 THEN [done |-> <<>>, keys |-> {}, left |-> Buffer]
                               ELSE AddParam(g[p - 1], p)]

LEMMA GroupsExist == \A n \in Nat : \E g : Groups(g, n)
<1> DEFINE S == {n \in Nat : ~ \E g : Groups(g, n)}
<1> SUFFICES ASSUME S # {} PROVE FALSE
  OBVIOUS
<1>1. PICK m \in S : \A k \in S : m <= k
  BY LeastNatural
<1>2. m \in Nat /\ ~ \E g : Groups(g, m)
  OBVIOUS
<1>3. CASE m = 0
  <2> DEFINE First == [done |-> <<>>, keys |-> {}, left |-> Buffer]
             h == [p \in 0..0 |-> First]
  <2>1. Groups(h, 0)
    BY DEF Groups
  <2> QED BY <1>2, <1>3, <2>1
<1>4. CASE m # 0
  <2>1. m - 1 \in Nat /\ m - 1 \notin S
    BY <1>1, <1>2, <1>4
  <2>2. PICK g : Groups(g, m - 1)
    BY <2>1
  <2> DEFINE h == [p \in 0..m |-> IF p = m THEN AddParam(g[m - 1], m) ELSE g[p]]
  <2>3. \A p \in 0..m : p # 0 => h[p - 1] = g[p - 1]
    BY <1>2
  <2>4. \A p \in 0..m - 1 :
          g[p] = IF p = 0 THEN [done |-> <<>>, keys |-> {}, left |-> Buffer]
                          ELSE AddParam(g[p - 1], p)
    BY <2>2 DEF Groups
  <2>5. \A p \in 0..m :
          h[p] = IF p = 0 THEN [done |-> <<>>, keys |-> {}, left |-> Buffer]
                          ELSE AddParam(h[p - 1], p)
    <3> HIDE DEF S
    <3> TAKE p \in 0..m
    <3>1. CASE p = m
      BY <1>2, <1>4, <2>3, <3>1
    <3>2. CASE p # m
      <4>1. p \in 0..m - 1
        BY <1>2, <3>2
      <4> QED BY <1>2, <2>3, <2>4, <3>2, <4>1
    <3> QED BY <3>1, <3>2
  <2>6. Groups(h, m)
    <3> HIDE DEF S
    <3> QED BY <2>5 DEF Groups
  <2> QED BY <1>2, <2>6
<1> QED BY <1>3, <1>4

LEMMA GroupingIs ==
  /\ grouping[0] = [done |-> <<>>, keys |-> {}, left |-> Buffer]
  /\ \A p \in Params : grouping[p] = AddParam(grouping[p - 1], p)
<1>1. \E g : Groups(g, NParams)
  BY GroupsExist
<1>2. Groups(grouping, NParams)
  BY <1>1 DEF grouping, Groups
<1>3. \A g : Groups(g, NParams) => \A p \in 0..NParams :
        g[p] = IF p = 0 THEN [done |-> <<>>, keys |-> {}, left |-> Buffer]
                        ELSE AddParam(g[p - 1], p)
  BY DEF Groups
<1>4. \A p \in 0..NParams :
        grouping[p] = IF p = 0 THEN [done |-> <<>>, keys |-> {}, left |-> Buffer]
                               ELSE AddParam(grouping[p - 1], p)
  BY <1>2, <1>3
<1>5. 0 \in 0..NParams /\ \A p \in Params : p \in 0..NParams /\ p # 0
  BY DEF Params
<1> QED BY <1>4, <1>5

\* The parameters of a sequence of groups, when one is added or removed.
LEMMA KeysOfNone == Keys(<<>>) = {}
BY DEF Keys

LEMMA KeysAppended ==
  ASSUME NEW s \in Seq(SUBSET Params), NEW e \in SUBSET Params
  PROVE  /\ Append(s, e) \in Seq(SUBSET Params)
         /\ Keys(Append(s, e)) = Keys(s) \cup e
<1>1. /\ Append(s, e) \in Seq(SUBSET Params)
      /\ Len(Append(s, e)) = Len(s) + 1
      /\ \A k \in 1..Len(s) : Append(s, e)[k] = s[k]
      /\ Append(s, e)[Len(s) + 1] = e
      /\ Len(s) \in Nat
  OBVIOUS
<1>2. \A x : x \in Keys(Append(s, e)) <=> x \in Keys(s) \/ x \in e
  <2>1. ASSUME NEW x, x \in Keys(Append(s, e)) PROVE x \in Keys(s) \/ x \in e
    <3>1. PICK k \in 1..Len(s) + 1 : x \in Append(s, e)[k]
      BY <1>1, <2>1 DEF Keys
    <3>2. k \in 1..Len(s) \/ k = Len(s) + 1
      BY <1>1
    <3> QED BY <1>1, <3>1, <3>2 DEF Keys
  <2>2. ASSUME NEW x, x \in Keys(s) PROVE x \in Keys(Append(s, e))
    <3>1. PICK k \in 1..Len(s) : x \in s[k]
      BY <2>2 DEF Keys
    <3>2. k \in 1..Len(Append(s, e)) /\ x \in Append(s, e)[k]
      BY <1>1, <3>1
    <3> QED BY <3>2 DEF Keys
  <2>3. ASSUME NEW x, x \in e PROVE x \in Keys(Append(s, e))
    <3>1. Len(s) + 1 \in 1..Len(Append(s, e)) /\ x \in Append(s, e)[Len(s) + 1]
      BY <1>1, <2>3
    <3> QED BY <3>1 DEF Keys
  <2> QED BY <2>1, <2>2, <2>3
<1> QED BY <1>1, <1>2

LEMMA KeysOfTail ==
  ASSUME NEW s \in Seq(SUBSET Params), s # <<>>
  PROVE  /\ Tail(s) \in Seq(SUBSET Params) /\ Head(s) \in SUBSET Params
         /\ Keys(s) = Head(s) \cup Keys(Tail(s))
<1>1. /\ Tail(s) \in Seq(SUBSET Params) /\ Head(s) \in SUBSET Params
      /\ Len(s) \in Nat /\ Len(s) > 0 /\ Len(Tail(s)) = Len(s) - 1
      /\ Head(s) = s[1]
      /\ \A k \in 1..Len(s) - 1 : Tail(s)[k] = s[k + 1]
  OBVIOUS
<1>2. ASSUME NEW x, x \in Keys(s) PROVE x \in Head(s) \cup Keys(Tail(s))
  <2>1. PICK k \in 1..Len(s) : x \in s[k]
    BY <1>2 DEF Keys
  <2>2. CASE k = 1
    BY <1>1, <2>1, <2>2
  <2>3. CASE k # 1
    <3>1. k - 1 \in 1..Len(Tail(s)) /\ x \in Tail(s)[k - 1]
      BY <1>1, <2>1, <2>3
    <3> QED BY <3>1 DEF Keys
  <2> QED BY <2>2, <2>3
<1>3. ASSUME NEW x, x \in Head(s) \cup Keys(Tail(s)) PROVE x \in Keys(s)
  <2>1. CASE x \in Head(s)
    <3>1. 1 \in 1..Len(s) /\ x \in s[1]
      BY <1>1, <2>1
    <3> QED BY <3>1 DEF Keys
  <2>2. CASE x \in Keys(Tail(s))
    <3>1. PICK k \in 1..Len(Tail(s)) : x \in Tail(s)[k]
      BY <2>2 DEF Keys
    <3>2. k + 1 \in 1..Len(s) /\ x \in s[k + 1]
      BY <1>1, <3>1
    <3> QED BY <3>2 DEF Keys
  <2> QED BY <1>3, <2>1, <2>2
<1> QED BY <1>1, <1>2, <1>3

\* After p parameters, what is grouped or open is exactly the first p.
Covers(p) ==
  LET g == grouping[p]
  IN /\ g.done \in Seq(SUBSET Params) /\ g.keys \in SUBSET Params
     /\ Keys(g.done) \cup g.keys = 1..p

LEMMA GroupingCovers == \A p \in 0..NParams : Covers(p)
<1> DEFINE S == {p \in 0..NParams : ~ Covers(p)}
<1> SUFFICES ASSUME S # {} PROVE FALSE
  OBVIOUS
<1>0. S \in SUBSET Nat
  OBVIOUS
<1>1. PICK m \in S : \A k \in S : m <= k
  <2> HIDE DEF S
  <2> QED BY <1>0, LeastNatural
<1>2. m \in 0..NParams /\ ~ Covers(m)
  OBVIOUS
<1>3. CASE m = 0
  <2>1. Covers(0)
    BY GroupingIs, KeysOfNone DEF Covers
  <2> QED BY <1>2, <1>3, <2>1
<1>4. CASE m # 0
  <2>1. m - 1 \in 0..NParams /\ m - 1 \notin S /\ m \in Params
    BY <1>1, <1>2, <1>4 DEF Params
  <2>2. Covers(m - 1)
    BY <2>1
  <2> HIDE DEF S
  <2> DEFINE g == grouping[m - 1]
             full == bytes[m] > g.left
  <2>3. /\ g.done \in Seq(SUBSET Params) /\ g.keys \in SUBSET Params
        /\ Keys(g.done) \cup g.keys = 1..m - 1
    BY <2>2 DEF Covers
  <2>4. /\ grouping[m].done = IF full /\ g.keys # {} THEN Append(g.done, g.keys) ELSE g.done
        /\ grouping[m].keys = (IF full THEN {} ELSE g.keys) \cup {m}
    <3>1. grouping[m] = AddParam(g, m)
      BY GroupingIs, <2>1
    <3> QED BY <3>1 DEF AddParam
  <2>5. 1..m = (1..m - 1) \cup {m}
    BY <2>1 DEF Params
  <2> HIDE DEF g, full
  <2>6. CASE full /\ g.keys # {}
    <3>1. Keys(Append(g.done, g.keys)) = Keys(g.done) \cup g.keys
      BY <2>3, KeysAppended
    <3>2. Append(g.done, g.keys) \in Seq(SUBSET Params)
      BY <2>3, KeysAppended
    <3> QED BY <1>2, <2>1, <2>3, <2>4, <2>5, <2>6, <3>1, <3>2 DEF Covers
  <2>7. CASE ~(full /\ g.keys # {})
    BY <1>2, <2>1, <2>3, <2>4, <2>5, <2>7 DEF Covers
  <2> QED BY <2>6, <2>7
<1> QED BY <1>2, <1>3, <1>4

\* prepare_weights_for_ipc (lm_policy.py 426-459) returns groups that contain
\* every parameter, the last group included.
LEMMA GroupedCovers == Grouped \in Seq(SUBSET Params) /\ Keys(Grouped) = Params
<1>1. NParams \in 0..NParams
  OBVIOUS
<1> DEFINE g == grouping[NParams]
<1>2. /\ g.done \in Seq(SUBSET Params) /\ g.keys \in SUBSET Params
      /\ Keys(g.done) \cup g.keys = Params
  BY <1>1, GroupingCovers DEF Covers, Params
<1>3. Grouped = IF g.keys # {} THEN Append(g.done, g.keys) ELSE g.done
  BY DEF Grouped
<1> HIDE DEF g
<1> QED BY <1>2, <1>3, KeysAppended


-----------------------------------------------------------------------------
(***************************************************************************)
(* Nothing is lost on the way: what a leader lacks is still to be handed   *)
(* over, and it answers True only with the whole group.                    *)
(***************************************************************************)
LEMMA LeaderDevice == \A r \in Replicas : <<r, 0>> \in Devices
<1>1. 0 \in Ranks
  BY DEF Ranks
<1> QED BY <1>1, DeviceFacts

LEMMA DeliveryInit == RefitInit => Delivery
BY DEF RefitInit, Delivery

LEMMA DeliveryPrepare ==
  ASSUME Delivery, PrepareWeights PROVE Delivery'
<1>1. /\ todo' \in Seq(SUBSET Params) /\ Keys(todo') = Params
      /\ driver' = "next" /\ UNCHANGED <<rank, received, reply>>
  BY GroupedCovers DEF PrepareWeights
<1>2. \A r \in Replicas : received[<<r, 0>>] \subseteq Params
  BY LeaderDevice DEF Delivery
<1> QED BY <1>1, <1>2 DEF Delivery, Keys

LEMMA DeliveryLoad ==
  ASSUME Handover, Delivery, NEW d \in Devices, Load(d) \/ LoadRaises(d) PROVE Delivery'
<1>1. driver = "update" /\ rank[d] = "reading"
  BY DEF Handover, Load, LoadRaises
<1>2. Head(todo) \in SUBSET Params /\ Head(todo) \subseteq Keys(todo)
  BY <1>1, KeysOfTail DEF Delivery
<1>3. PICK some \in SUBSET Head(todo) :
        /\ received' = [received EXCEPT ![d] = @ \cup some]
        /\ \/ rank' = [rank EXCEPT ![d] = "true"] /\ some = Head(todo)
           \/ rank' = [rank EXCEPT ![d] = "false"]
        /\ UNCHANGED <<driver, todo, reply>>
  BY DEF Load, LoadRaises
<1>4. received' \in [Devices -> SUBSET Params]
  BY <1>2, <1>3 DEF Delivery
<1>5. \A r \in Replicas : received'[<<r, 0>>] \cup Keys(todo) = Params
  BY <1>1, <1>2, <1>3, LeaderDevice DEF Delivery
<1>6. ASSUME NEW r \in Replicas
      PROVE  /\ rank'[<<r, 0>>] = "true" => Head(todo) \subseteq received'[<<r, 0>>]
             /\ reply[r] = "true" => rank'[<<r, 0>>] = "true"
  BY <1>1, <1>3, LeaderDevice DEF Delivery, Handover
<1>7. Keys(todo') = Keys(todo)
  BY <1>3 DEF Keys
<1> QED BY <1>1, <1>3, <1>4, <1>5, <1>6, <1>7 DEF Delivery

\* The group that leaves the queue is the one every leader has loaded.
LEMMA DeliveryCollect ==
  ASSUME Delivery, Collect PROVE Delivery'
<1>1. CASE LeadersSucceeded
  <2>1. \A r \in Replicas : Head(todo) \subseteq received[<<r, 0>>]
    BY <1>1 DEF Collect, LeadersSucceeded, Delivery
  <2>2. /\ todo' = Tail(todo) /\ driver' = "next" /\ driver = "update" /\ todo # <<>>
        /\ UNCHANGED <<rank, received, reply>>
    BY <1>1 DEF Collect, Delivery
  <2>3. /\ Tail(todo) \in Seq(SUBSET Params)
        /\ Keys(todo) = Head(todo) \cup Keys(Tail(todo))
    BY <2>2, KeysOfTail DEF Delivery
  <2>4. Keys(todo') = Keys(Tail(todo))
    BY <2>2 DEF Keys
  <2>5. \A r \in Replicas : received[<<r, 0>>] \cup Keys(todo) = Params
    BY <2>2 DEF Delivery
  <2>6. \A r \in Replicas : received[<<r, 0>>] \cup Keys(Tail(todo)) = Params
    BY <2>1, <2>3, <2>5
  <2> QED BY <2>2, <2>3, <2>4, <2>6 DEF Delivery
<1>2. CASE ~LeadersSucceeded
  BY <1>2 DEF Collect, Delivery, Keys
<1> QED BY <1>1, <1>2

LEMMA DeliveryNext == Handover /\ Delivery /\ [RefitNext]_refitVars => Delivery'
<1> SUFFICES ASSUME Handover, Delivery, [RefitNext]_refitVars PROVE Delivery'
  OBVIOUS
<1>1. CASE PrepareWeights
  BY <1>1, DeliveryPrepare
<1>2. CASE AskHandles
  BY <1>2 DEF Delivery, AskHandles, Keys
<1>3. CASE Update
  BY <1>3, LeaderDevice DEF Delivery, Update, Keys
<1>4. CASE Collect
  BY <1>4, DeliveryCollect
<1>5. CASE Offload
  BY <1>5 DEF Delivery, Offload, Keys
<1>6. ASSUME NEW d \in Devices, ServeHandles(d) PROVE Delivery'
  BY <1>6 DEF Delivery, ServeHandles, Keys
<1>7. ASSUME NEW d \in Devices, StartLoad(d) PROVE Delivery'
  BY <1>7, LeaderDevice DEF Delivery, Handover, StartLoad, Keys
<1>8. ASSUME NEW d \in Devices, Load(d) \/ LoadRaises(d) PROVE Delivery'
  BY <1>8, DeliveryLoad
<1>9. ASSUME NEW r \in Replicas, LeaderReturns(r) PROVE Delivery'
  <2>1. \A q \in Replicas : reply'[q] = IF q = r THEN rank[<<q, 0>>] ELSE reply[q]
    BY <1>9 DEF Handover, LeaderReturns
  <2>2. driver = "update" /\ UNCHANGED <<driver, todo, rank, received>>
    BY <1>9 DEF LeaderReturns
  <2>3. \A q \in Replicas : reply'[q] = "true" => rank[<<q, 0>>] = "true"
    BY <2>1, <2>2 DEF Delivery
  <2> QED BY <2>2, <2>3 DEF Delivery, Keys
<1>10. CASE UNCHANGED refitVars
  BY <1>10 DEF Delivery, Keys
<1> QED BY <1>1, <1>2, <1>3, <1>4, <1>5, <1>6, <1>7, <1>8, <1>9, <1>10 DEF RefitNext

\* refit_policy_generation ends without an error (grpo.py 434-458) only when
\* the leader of every replica has the new value of every parameter.
THEOREM RefitUpdatesLeaders == RefitSpec => []LeadersUpdated
<1>1. Delivery => LeadersUpdated
  BY KeysOfNone DEF Delivery, LeadersUpdated
<1>2. RefitInit => Handover /\ Delivery
  BY HandoverInit, DeliveryInit
<1>3. Handover /\ Delivery /\ [RefitNext]_refitVars => (Handover /\ Delivery)'
  BY HandoverNext, DeliveryNext
<1> QED BY <1>1, <1>2, <1>3, PTL DEF RefitSpec

=============================================================================
