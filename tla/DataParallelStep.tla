-------------------------- MODULE DataParallelStep --------------------------
(***************************************************************************)
(* One call of Policy.train, get_logprobs, get_reference_policy_logprobs   *)
(* or generate (models/policy/lm_policy.py): the driver's sharding of the  *)
(* batch, the workers of the group (worker_groups.py), which go through    *)
(* their global batches and microbatches and meet in collectives, and the  *)
(* results in the caller's order.                                          *)
(*                                                                         *)
(* A worker is the triple of its coordinates <<d, c, m>>: data parallel,   *)
(* context parallel, and m for the axes along which shards are replicated  *)
(* (tensor parallel for DTensor, pipeline stage for Megatron).  A          *)
(* collective is left only when every member of its communicator has       *)
(* entered its own call of the same number on it, as in NCCL; whether      *)
(* those calls match is a property.  A worker that raises enters no        *)
(* further collective.                                                     *)
(***************************************************************************)
EXTENDS BatchSharding, FiniteSets

CONSTANTS
  Calls,        \* what may be asked: records [worker, call, dynamic, dp, cp, mp, gbs, mbs, overflow]
  Batches,      \* of what: records [len, audio, rec, valid] of sequences
  Budget,       \* train_mb_tokens and logprob_mb_tokens
  Round         \* sequence_length_round

Positive == Nat \ {0}

ASSUME StepAssumption ==
  /\ Budget \in Positive /\ Round \in Positive
  /\ \A k \in Calls :
       /\ k.worker \in {"dtensor", "fsdp1", "megatron"}
       /\ k.call \in {"train", "eval", "logprobs", "reference", "generate"}
       /\ k.dynamic \in BOOLEAN
       /\ {k.dp, k.cp, k.mp, k.gbs, k.mbs} \subseteq Positive
  /\ \A b \in Batches :
       /\ b.len \in Seq(Nat) /\ b.audio \in Seq(Nat)
       /\ Len(b.len) \in Positive /\ Len(b.audio) = Len(b.len)

VARIABLES
  ask,          \* the call
  batch,        \* its data
  pc,           \* the driver: "call", "wait", "done", "refused", "raised"
  result,       \* what it returns
  at,           \* worker -> where it is
  shards,       \* the shards sent, each with its microbatches
  gb,           \* worker -> number of the global batch
  mb,           \* worker -> microbatches of it begun
  cache,        \* worker -> recording -> frames in pathrow2features, 0 if absent
  heard,        \* worker -> sample -> audio frames embedded for it
  norm,         \* worker -> samples the loss is divided by
  grad,         \* worker -> global batch -> samples back-propagated
  applied,      \* worker -> the updates made to its weights
  loaded,       \* worker -> the weights in self.model: "policy" or "reference"
  out,          \* worker -> the rows it returns
  entered       \* worker -> collectives entered, each <<communicator, what>>

vars == <<ask, batch, pc, result, at, shards, gb, mb, cache, heard, norm, grad, applied,
          loaded, out, entered>>
held == <<ask, batch>>

Samples == DOMAIN batch.len
N       == Len(batch.len)
Width   == Max(Range(batch.len))
Recordings == {batch.rec[s] : s \in Samples}

Workers == (1..ask.dp) \X (1..ask.cp) \X (1..ask.mp)
First   == {w \in Workers : w[3] = 1}                 \* output_is_replicated along m
LastStage(w) == w[3] = ask.mp

Scoring == ask.call \in {"logprobs", "reference"}
RowsOut == Scoring \/ ask.call = "generate"

-----------------------------------------------------------------------------
(* Sharding.                                                               *)

\* get_logprobs cuts along the context-parallel axis too; train replicates.
RowPeers  == IF Scoring THEN ask.cp ELSE 1
Shards    == ask.dp * RowPeers
BatchSize == IF RowsOut THEN N ELSE ask.gbs
ShardOf(w) == IF Scoring THEN (w[1] - 1) * ask.cp + w[2] ELSE w[1]

Order == IF ask.dynamic THEN SortedIndices(batch.len, Shards, BatchSize)
                        ELSE [i \in 1..N |-> i]
Rows(k) == Shard(Order, k, Shards, BatchSize)

LocalSize == BatchSize \div Shards
GlobalBatches == N \div BatchSize
LocalBatch(w) == GetBatch(shards[ShardOf(w)].rows, gb[w], LocalSize)

\* Lengths of the rows of chunk g of shards ks.
RowLengths(ks, g) ==
  [row \in 1..LocalSize |->
    RowLength({batch.len[Rows(k)[(g - 1) * LocalSize + row]] : k \in ks}, Round, Width)]

\* micro_batch_indices and micro_batch_lengths of shard k: those of all.
MicrobatchesOfOwn(k) ==                         \* faulty: by its own samples
  [g \in 1..GlobalBatches |-> Grouped(RowLengths({k}, g), Budget)]
MicrobatchesOf(k) ==
  [g \in 1..GlobalBatches |-> Grouped(RowLengths(1..Shards, g), Budget)]

ShardData(k) == [rows |-> Rows(k), mbs |-> IF ask.dynamic THEN MicrobatchesOf(k) ELSE << >>]

\* What the worker iterates over.
ValidMicrobatches(w) ==                         \* faulty: skips those without valid samples
  IF ask.dynamic THEN shards[ShardOf(w)].mbs[gb[w]]
  ELSE SelectSeq(EvenCuts(LocalSize, ask.mbs, Width), LAMBDA m :
         \E i \in (m.from + 1)..m.to : batch.valid[LocalBatch(w)[i]])
Microbatches(w) == IF ask.dynamic THEN shards[ShardOf(w)].mbs[gb[w]]
                                  ELSE EvenCuts(LocalSize, ask.mbs, Width)

\* The assertions of shard_by_batch_size.
Accepted ==
  /\ Shardable(N, Shards, BatchSize, FALSE)
  /\ ask.dynamic => \A g \in 1..GlobalBatches : \A row \in 1..LocalSize :
                      RowLengths(1..Shards, g)[row] <= Budget

-----------------------------------------------------------------------------
(* Collectives.                                                            *)

Comms == {"dp", "model", "world", "pp"}

Members(comm, w) ==
  CASE comm = "dp"    -> {v \in Workers : v[2] = w[2] /\ v[3] = w[3]}
    [] comm = "pp"    -> {v \in Workers : v[1] = w[1] /\ v[2] = w[2]}
    [] comm = "model" -> IF ask.worker = "megatron"     \* parameters are not sharded
                         THEN {v \in Workers : v[1] = w[1] /\ v[2] = w[2]}
                         ELSE Workers                   \* every forward gathers them
    [] comm = "world" -> Workers

Enter(w, comm, what) == entered' = [entered EXCEPT ![w] = Append(@, <<comm, what>>)]

\* The number, among w's calls on comms, of the one it entered as its i-th.
NumberOn(w, comms, i) == Cardinality({j \in 1..i : entered[w][j][1] \in comms})
CallsOn(w, comm) == NumberOn(w, {comm}, Len(entered[w]))

\* Worker w's last call on comm is complete.
Complete(w, comm) == \A v \in Members(comm, w) : CallsOn(v, comm) >= CallsOn(w, comm)

-----------------------------------------------------------------------------
(* The driver.                                                             *)

Init ==
  /\ ask \in Calls
  /\ batch \in Batches
  /\ pc = "call"
  /\ result = << >>
  /\ shards = << >>
  /\ at = [w \in Workers |-> "idle"]
  /\ gb = [w \in Workers |-> 1]
  /\ mb = [w \in Workers |-> 0]
  /\ cache = [w \in Workers |-> [r \in Recordings |-> 0]]
  /\ heard = [w \in Workers |-> [s \in Samples |-> 0]]
  /\ norm = [w \in Workers |-> 0]
  /\ grad = [w \in Workers |-> [g \in 1..GlobalBatches |-> << >>]]
  /\ applied = [w \in Workers |-> << >>]
  /\ loaded = [w \in Workers |-> "policy"]
  /\ out = [w \in Workers |-> << >>]
  /\ entered = [w \in Workers |-> << >>]

atWork == <<gb, mb, cache, heard, norm, grad, applied, loaded, out, entered>>

\* shard_by_batch_size, then run_all_workers_sharded_data: a shard goes to
\* all workers along the replicated axes.
Dispatch ==
  /\ Accepted
  /\ pc' = "wait"
  /\ shards' = [k \in 1..Shards |-> ShardData(k)]
  /\ at' = [w \in Workers |-> "called"]
  /\ UNCHANGED <<held, result, atWork>>

CallTrain     == pc = "call" /\ ask.call \in {"train", "eval"} /\ Dispatch
CallLogprobs  == pc = "call" /\ ask.call = "logprobs" /\ Dispatch
CallReference == pc = "call" /\ ask.call = "reference" /\ Dispatch
CallGenerate  == pc = "call" /\ ask.call = "generate" /\ Dispatch

\* An assertion of shard_by_batch_size fails.
Refuse ==
  /\ pc = "call"
  /\ ~Accepted
  /\ pc' = "refused"
  /\ UNCHANGED <<held, result, shards, at, atWork>>

\* The first workers' rows in the order of the workers.
SenderOf(k) == <<(k - 1) \div RowPeers + 1, ((k - 1) % RowPeers) + 1, 1>>
Gathered == FlattenSeq([k \in 1..Shards |-> out[SenderOf(k)]])
InOrder == IF ask.dynamic THEN Reorder(Gathered, Order) ELSE Gathered

AllReturned == pc = "wait" /\ \A w \in Workers : at[w] = "returned"

CollectTrain ==
  /\ AllReturned /\ ~RowsOut
  /\ pc' = "done"
  /\ UNCHANGED <<held, result, shards, at, atWork>>

CollectRows ==
  /\ AllReturned /\ RowsOut
  /\ pc' = "done"
  /\ result' = InOrder
  /\ UNCHANGED <<held, shards, at, atWork>>

\* ray.get over all futures raises as soon as one of them failed.
CollectRaises ==
  /\ pc = "wait"
  /\ \E w \in Workers : at[w] = "raised"
  /\ pc' = "raised"
  /\ UNCHANGED <<held, result, shards, at, atWork>>

-----------------------------------------------------------------------------
(* A worker: the parts its three classes share.                            *)

kept == <<held, pc, result, shards>>

Microbatch(w) == LET m == Microbatches(w)[mb[w] + 1] IN Slice(LocalBatch(w), m.from, m.to)

Goes(w, to) == at' = [at EXCEPT ![w] = to]

\* make_microbatch_iterator asserts that the cuts are even.
Uneven == ~ask.dynamic /\ LocalSize % ask.mbs # 0

\* At the start of a microbatch of a train or scoring loop.
NextForward(w) ==
  /\ ~Uneven
  /\ \/ at[w] = "forward"
     \/ at[w] = "backward" /\ Complete(w, "model")
  /\ mb[w] < Len(Microbatches(w))

Forwarded(w) ==
  /\ at[w] = "backward" /\ Complete(w, "model")
  /\ mb[w] = Len(Microbatches(w))

\* Rows go through the model: their losses, divided by the valid samples of
\* the global batch, are back-propagated, or their outputs kept.
ThroughModel(w, rows) ==
  /\ grad' = IF ask.call = "train"
             THEN [grad EXCEPT ![w][gb[w]] = @ \o [i \in DOMAIN rows |-> <<rows[i], norm[w]>>]]
             ELSE grad
  /\ out' = IF RowsOut
            THEN [out EXCEPT ![w] = @ \o [i \in DOMAIN rows |-> <<rows[i], loaded[w]>>]]
            ELSE out
  /\ mb' = [mb EXCEPT ![w] = @ + 1]
  /\ Goes(w, "backward")
  /\ Enter(w, "model", <<"forward", gb[w], mb[w]>>)

StartTrain(w) ==
  /\ at[w] = "called" /\ ask.call \in {"train", "eval"} /\ ask.worker # "megatron"
  /\ Goes(w, "batch")
  /\ UNCHANGED <<kept, atWork>>

StartRows(w) ==
  /\ at[w] = "called" /\ ask.call \in {"logprobs", "generate"}
  /\ Goes(w, "forward")
  /\ UNCHANGED <<kept, atWork>>

\* use_reference_model: the reference's weights take the policy's place.
SwapReference(w) ==
  /\ at[w] = "called" /\ ask.call = "reference"
  /\ loaded' = [loaded EXCEPT ![w] = "reference"]
  /\ Goes(w, "forward")
  /\ UNCHANGED <<kept, gb, mb, cache, heard, norm, grad, applied, out, entered>>

\* ... and give it back in a finally clause, also when get_logprobs raises.
SwapBack(w) == loaded' = [loaded EXCEPT ![w] = "policy"]

\* The next global batch of train; the feature cache is a new one. Valid
\* samples are added up over the data parallel workers.
KeepCache(w) == UNCHANGED cache                \* faulty: as in get_logprobs
ClearCache(w) == cache' = [cache EXCEPT ![w] = [r \in Recordings |-> 0]]

NextBatch(w) ==
  /\ \/ at[w] = "batch"
     \/ at[w] = "sized" /\ Complete(w, "dp")
  /\ gb[w] <= GlobalBatches
  /\ Goes(w, "normalise")
  /\ mb' = [mb EXCEPT ![w] = 0]
  /\ ClearCache(w)
  /\ Enter(w, "dp", <<"valid", gb[w]>>)
  /\ UNCHANGED <<kept, gb, heard, norm, grad, applied, loaded, out>>

ValidIn(v, g) ==
  {i \in 1..LocalSize : batch.valid[shards[ShardOf(v)].rows[(g - 1) * LocalSize + i]]}
LocalValid(w) == Cardinality(ValidIn(w, gb[w]))    \* faulty: not reduced
GlobalValid(w) == Cardinality({e \in (1..ask.dp) \X (1..LocalSize) :
                                 e[2] \in ValidIn(<<e[1], w[2], w[3]>>, gb[w])})

Normalise(w) ==
  /\ at[w] = "normalise" /\ Complete(w, "dp")
  /\ norm' = [norm EXCEPT ![w] = GlobalValid(w)]
  /\ Goes(w, "forward")
  /\ UNCHANGED <<kept, gb, mb, cache, heard, grad, applied, loaded, out, entered>>

UnevenRaises(w) ==
  /\ at[w] = "forward"
  /\ Uneven
  /\ Goes(w, "raised")
  /\ SwapBack(w)
  /\ UNCHANGED <<kept, gb, mb, cache, heard, norm, grad, applied, out, entered>>

\* The summed gradient of a global batch: the contributions of all data
\* parallel workers (context and model parallel peers hold parts of them).
Summed(w) ==
  LET peers == {<<d, w[2], w[3]>> : d \in 1..ask.dp}
  IN UNION {{<<v[1], i, grad[v][gb[w]][i]>> : i \in DOMAIN grad[v][gb[w]]} : v \in peers}

SumLosses(w) ==
  /\ \/ at[w] = "batch"
     \/ at[w] = "sized" /\ Complete(w, "dp")
  /\ gb[w] > GlobalBatches
  /\ Goes(w, "losses")
  /\ Enter(w, "dp", <<"losses">>)
  /\ UNCHANGED <<kept, gb, mb, cache, heard, norm, grad, applied, loaded, out>>

ReturnLosses(w) ==
  /\ at[w] = "losses" /\ Complete(w, "dp")
  /\ Goes(w, "returned")
  /\ UNCHANGED <<kept, atWork>>

ReturnRows(w) ==
  /\ \/ at[w] = "rows" /\ Complete(w, "pp")
     \/ Forwarded(w) /\ RowsOut /\ ask.worker # "megatron"
  /\ Goes(w, "returned")
  /\ SwapBack(w)
  /\ UNCHANGED <<kept, gb, mb, cache, heard, norm, grad, applied, out, entered>>

-----------------------------------------------------------------------------
(* DTensor workers embed the audio of each sample themselves: the frames   *)
(* of a recording are read for the first sample that has it, as many as    *)
(* that sample has audio tokens; a later sample uses those. More frames    *)
(* than tokens cannot be assigned.                                         *)

Frames(w, rows, r) ==
  IF cache[w][r] # 0 THEN cache[w][r]
  ELSE batch.audio[rows[Min({i \in DOMAIN rows : batch.rec[rows[i]] = r})]]
HeardIn(rows) == {batch.rec[s] : s \in Range(rows)}
Embeds(w, rows) ==
  \A s \in Range(rows) : Frames(w, rows, batch.rec[s]) <= batch.audio[s]

DTensorForward(w) ==
  /\ ask.worker = "dtensor" /\ NextForward(w)
  /\ LET rows == Microbatch(w) IN
     /\ Embeds(w, rows)
     /\ cache' = [cache EXCEPT ![w] = [r \in Recordings |->
                    IF r \in HeardIn(rows) THEN Frames(w, rows, r) ELSE @[r]]]
     /\ heard' = [heard EXCEPT ![w] = [s \in Samples |->
                    IF s \in Range(rows)
                    THEN Smaller(Frames(w, rows, batch.rec[s]), batch.audio[s]) ELSE @[s]]]
     /\ ThroughModel(w, rows)
  /\ UNCHANGED <<kept, gb, norm, applied, loaded>>

DTensorTrainForward(w) == ask.call \in {"train", "eval"} /\ DTensorForward(w)
DTensorScore(w)        == ask.call \in {"logprobs", "reference"} /\ DTensorForward(w)

EmbeddingRaises(w) ==
  /\ ask.worker = "dtensor" /\ NextForward(w)
  /\ ~Embeds(w, Microbatch(w))
  /\ Goes(w, "raised")
  /\ SwapBack(w)
  /\ UNCHANGED <<kept, gb, mb, cache, heard, norm, grad, applied, out, entered>>

\* The norm of the gradients is reduced over all workers.
DTensorGradNorm(w) ==
  /\ ask.worker = "dtensor" /\ ask.call = "train" /\ Forwarded(w)
  /\ Goes(w, "step")
  /\ Enter(w, "world", <<"norm", gb[w]>>)
  /\ UNCHANGED <<kept, gb, mb, cache, heard, norm, grad, applied, loaded, out>>

DTensorStep(w) ==
  /\ ask.worker = "dtensor" /\ at[w] = "step" /\ Complete(w, "world")
  /\ applied' = [applied EXCEPT ![w] = Append(@, Summed(w))]
  /\ gb' = [gb EXCEPT ![w] = @ + 1]
  /\ Goes(w, "batch")
  /\ UNCHANGED <<kept, mb, cache, heard, norm, grad, loaded, out, entered>>

\* eval_mode: no step.
NextEval(w) ==
  /\ ask.worker # "megatron" /\ ask.call = "eval" /\ Forwarded(w)
  /\ gb' = [gb EXCEPT ![w] = @ + 1]
  /\ Goes(w, "batch")
  /\ UNCHANGED <<kept, mb, cache, heard, norm, grad, applied, loaded, out, entered>>

-----------------------------------------------------------------------------
(* FSDP1 workers: text only.                                               *)

FSDP1Through(w) ==
  /\ ask.worker = "fsdp1" /\ NextForward(w)
  /\ ThroughModel(w, Microbatch(w))
  /\ UNCHANGED <<kept, gb, cache, heard, norm, applied, loaded>>

FSDP1TrainForward(w) == ask.call \in {"train", "eval"} /\ FSDP1Through(w)
FSDP1Score(w)        == ask.call \in {"logprobs", "reference"} /\ FSDP1Through(w)
\* Sampling keeps all workers in step until the last is done (synced_gpus).
FSDP1Generate(w)     == ask.call = "generate" /\ FSDP1Through(w)

FSDP1GradNorm(w) ==
  /\ ask.worker = "fsdp1" /\ ask.call = "train" /\ Forwarded(w)
  /\ Goes(w, "step")
  /\ Enter(w, "world", <<"norm", gb[w]>>)
  /\ UNCHANGED <<kept, gb, mb, cache, heard, norm, grad, applied, loaded, out>>

FSDP1Step(w) ==
  /\ ask.worker = "fsdp1" /\ at[w] = "step" /\ Complete(w, "world")
  /\ applied' = [applied EXCEPT ![w] = Append(@, Summed(w))]
  /\ gb' = [gb EXCEPT ![w] = @ + 1]
  /\ Goes(w, "batch")
  /\ UNCHANGED <<kept, mb, cache, heard, norm, grad, loaded, out, entered>>

-----------------------------------------------------------------------------
(* Megatron workers: pipeline stages run all microbatches of a global      *)
(* batch in one schedule, and share the last stage's results.              *)

\* train begins by adding up the sizes of all shards.
MegatronStart(w) ==
  /\ at[w] = "called" /\ ask.call \in {"train", "eval"} /\ ask.worker = "megatron"
  /\ Goes(w, "sized")
  /\ Enter(w, "dp", <<"size">>)
  /\ UNCHANGED <<kept, gb, mb, cache, heard, norm, grad, applied, loaded, out>>

MegatronSchedule(w) ==
  /\ ask.worker = "megatron" /\ ask.call \in {"train", "eval"} /\ NextForward(w)
  /\ ThroughModel(w, Microbatch(w))
  /\ UNCHANGED <<kept, gb, cache, heard, norm, applied, loaded>>

\* optimizer.step whatever the mode is: the gradients of an evaluation,
\* which is forward_only, are zero.
MegatronGradNorm(w) ==
  /\ ask.worker = "megatron" /\ ask.call \in {"train", "eval"} /\ Forwarded(w)
  /\ Goes(w, "step")
  /\ Enter(w, "world", <<"norm", gb[w]>>)
  /\ UNCHANGED <<kept, gb, mb, cache, heard, norm, grad, applied, loaded, out>>

Overflowed(w) == gb[w] \in ask.overflow

\* An update with an overflow is left out on all workers.  The last stage
\* then reads curr_lr, which only a successful update sets.
MegatronStep(w) ==
  /\ ask.worker = "megatron" /\ at[w] = "step" /\ Complete(w, "world")
  /\ ~(LastStage(w) /\ Overflowed(w) /\ applied[w] = << >>)
  /\ applied' = IF Overflowed(w) THEN applied ELSE [applied EXCEPT ![w] = Append(@, Summed(w))]
  /\ Goes(w, "share")
  /\ Enter(w, "pp", <<"metrics", gb[w]>>)
  /\ UNCHANGED <<kept, gb, mb, cache, heard, norm, grad, loaded, out>>

MegatronStepRaises(w) ==
  /\ ask.worker = "megatron" /\ at[w] = "step" /\ Complete(w, "world")
  /\ LastStage(w) /\ Overflowed(w) /\ applied[w] = << >>
  /\ Goes(w, "raised")
  /\ UNCHANGED <<kept, atWork>>

ShareMetrics(w) ==
  /\ at[w] = "share" /\ Complete(w, "pp")
  /\ gb' = [gb EXCEPT ![w] = @ + 1]
  /\ Goes(w, "batch")
  /\ UNCHANGED <<kept, mb, cache, heard, norm, grad, applied, loaded, out, entered>>

MegatronScore(w) ==
  /\ ask.worker = "megatron" /\ ask.call \in {"logprobs", "reference"} /\ NextForward(w)
  /\ ThroughModel(w, Microbatch(w))
  /\ UNCHANGED <<kept, gb, cache, heard, norm, applied, loaded>>

ShareRows(w) ==
  /\ ask.worker = "megatron" /\ ask.call \in {"logprobs", "reference"} /\ Forwarded(w)
  /\ Goes(w, "rows")
  /\ Enter(w, "pp", <<"rows">>)
  /\ UNCHANGED <<kept, gb, mb, cache, heard, norm, grad, applied, loaded, out>>

-----------------------------------------------------------------------------

Work(w) ==
  \/ StartTrain(w) \/ StartRows(w) \/ SwapReference(w) \/ NextBatch(w) \/ Normalise(w)
  \/ UnevenRaises(w) \/ NextEval(w) \/ SumLosses(w) \/ ReturnLosses(w) \/ ReturnRows(w)
  \/ DTensorTrainForward(w) \/ DTensorScore(w) \/ EmbeddingRaises(w)
  \/ DTensorGradNorm(w) \/ DTensorStep(w)
  \/ FSDP1TrainForward(w) \/ FSDP1Score(w) \/ FSDP1Generate(w)
  \/ FSDP1GradNorm(w) \/ FSDP1Step(w)
  \/ MegatronStart(w) \/ MegatronSchedule(w) \/ MegatronGradNorm(w) \/ MegatronStep(w)
  \/ MegatronStepRaises(w) \/ ShareMetrics(w) \/ MegatronScore(w) \/ ShareRows(w)

Calling == CallTrain \/ CallLogprobs \/ CallReference \/ CallGenerate \/ Refuse
Gathering == CollectTrain \/ CollectRows \/ CollectRaises
Next == Calling \/ Gathering \/ \E w \in Workers : Work(w)

\* Every worker is a process of its own, and the driver blocks in ray.get.
AllWorkers == UNION {(1..k.dp) \X (1..k.cp) \X (1..k.mp) : k \in Calls}
Fairness == WF_vars(Gathering) /\ \A w \in AllWorkers : WF_vars(w \in Workers /\ Work(w))
Spec == Init /\ [][Next]_vars /\ Fairness

-----------------------------------------------------------------------------
(* Properties.                                                             *)

\* Two workers make the same calls in the same order on the communicators
\* they share: call number n of the one is call number n of the other. With
\* dynamic batching this needs the same number of microbatches on every
\* shard (batched_data_dict.py:400-411), without it the same sizes.
CollectivesMatch ==
  \A w, v \in Workers :
    LET shared == {c \in Comms : v \in Members(c, w)} IN
    \A i \in DOMAIN entered[w], j \in DOMAIN entered[v] :
      /\ entered[w][i][1] \in shared /\ entered[v][j][1] \in shared
      /\ NumberOn(w, shared, i) = NumberOn(v, shared, j)
      => entered[w][i] = entered[v][j]

\* What an update of a training call should be made of: every sample of a
\* chunk of the caller's batch once, divided by the valid samples of the
\* whole chunk; an update per chunk (those lost to an overflow left out).
Chunk(g) == ((g - 1) * ask.gbs + 1)..(g * ask.gbs)
ValidOf(g) == Cardinality({s \in Chunk(g) : batch.valid[s]})
Updating == {g \in 1..(N \div ask.gbs) : ask.worker # "megatron" \/ g \notin ask.overflow}
UpdateOf(g) == Cardinality({h \in Updating : h <= g})
IsUpdateOf(u, g) ==
  /\ Cardinality(u) = ask.gbs
  /\ {e[3] : e \in u} = Chunk(g) \X {ValidOf(g)}

\* However the batch is cut into shards and microbatches, reordered or
\* padded, the updates are those of the caller's chunks in their order on
\* every worker, and an evaluation of a DTensor or FSDP1 policy makes none.
UpdatesFollowChunks ==
  \A w \in Workers :
    IF ask.call = "train"
    THEN /\ Len(applied[w]) <= Cardinality(Updating)
         /\ \A g \in Updating : UpdateOf(g) <= Len(applied[w]) =>
              IsUpdateOf(applied[w][UpdateOf(g)], g)
         /\ pc = "done" => Len(applied[w]) = Cardinality(Updating)
    ELSE ask.worker # "megatron" => applied[w] = << >>

\* get_logprobs and get_reference_policy_logprobs return row i for sample i,
\* computed with the weights asked for; when a worker is out of the call, by
\* returning or raising, the policy's weights are back in place.
RowsInCallersOrder ==
  /\ pc = "done" /\ RowsOut =>
       result = [i \in 1..N |-> <<i, IF ask.call = "reference" THEN "reference" ELSE "policy">>]
  /\ \A w \in Workers : at[w] \in {"returned", "raised"} => loaded[w] = "policy"

\* A dynamic microbatch fits the token budget and cuts no sample short, and
\* microbatches cover the shard.
WithinBudget ==
  \A w \in Workers : at[w] = "forward" =>
    LET mbs == Microbatches(w) IN
    /\ Uneven \/ \E i \in DOMAIN mbs : mbs[i].to = LocalSize
    /\ \A i \in DOMAIN mbs :
         /\ ask.dynamic => (mbs[i].to - mbs[i].from) * mbs[i].len <= Budget
         /\ \A j \in (mbs[i].from + 1)..mbs[i].to :
              batch.len[LocalBatch(w)[j]] <= mbs[i].len

\* A sample is scored or trained on with less audio than it has, and a
\* worker raises over it, only because another sample of the same recording
\* came first in the same call (the same global batch, in train) with a
\* different number of audio tokens (dtensor_policy_worker.py:519, 739); else
\* it raises only over an uneven cut, or an overflow of the first update.
Shared(w, s, longer) ==
  \E v \in Samples : /\ v # s /\ batch.rec[v] = batch.rec[s]
                     /\ IF longer THEN batch.audio[v] > batch.audio[s]
                                  ELSE batch.audio[v] < batch.audio[s]
                     /\ ~RowsOut => (v - 1) \div ask.gbs = (s - 1) \div ask.gbs
FailsForCause ==
  /\ \A w \in Workers : \A s \in Samples :
       heard[w][s] \notin {0, batch.audio[s]} => Shared(w, s, FALSE)
  /\ \A w \in Workers : at[w] = "raised" =>
       \/ Uneven
       \/ ask.worker = "megatron" /\ 1 \in ask.overflow /\ applied[w] = << >>
       \/ ask.worker = "dtensor" /\ \E s \in Samples : Shared(w, s, TRUE)

\* Every call that was dispatched comes back: workers that wait for one that
\* raised are left in a collective, but the driver hears of it.
Returns == pc = "wait" ~> pc \in {"done", "raised"}

\* sft.py:270 runs validation as "just run model fwd": no weights change.
EvalOnlyForward == ask.call = "eval" => \A w \in Workers : applied[w] = << >>

-----------------------------------------------------------------------------
(***************************************************************************)
(* The inductive invariants behind the properties: WithinBudget,           *)
(* RowsInCallersOrder and FailsForCause need the first three,              *)
(* CollectivesMatch the fourth, UpdatesFollowChunks the last two.          *)
(***************************************************************************)

Scored == {"forward", "backward", "rows"}
InBatch == {"normalise", "forward", "backward", "step", "share"}
Places == Scored \cup InBatch
            \cup {"idle", "called", "batch", "sized", "losses", "returned", "raised"}

\* Workers start with the shards of the driver, and a worker of a training
\* call is at one of its global batches.
Placed ==
  /\ ask \in Calls /\ batch \in Batches
  /\ at \in [Workers -> Places]
  /\ gb \in [Workers -> Nat \ {0}]
  /\ pc \in {"call", "refused"} => \A w \in Workers : at[w] = "idle"
  /\ pc \notin {"call", "refused"} =>
       Accepted /\ shards = [k \in 1..Shards |-> ShardData(k)]
  /\ \A w \in Workers :
       /\ RowsOut => at[w] \in Scored \cup {"idle", "called", "returned", "raised"} /\ gb[w] = 1
       /\ ~RowsOut /\ at[w] \in InBatch => gb[w] <= GlobalBatches

\* What a worker is to return are the rows of the microbatches behind it,
\* computed with the weights asked for; they are all of its rows in the end.
Asked == IF ask.call = "reference" THEN "reference" ELSE "policy"
Passed(w) == IF mb[w] = 0 THEN 0 ELSE Microbatches(w)[mb[w]].to
RowsKeptBy(w) ==
  /\ at[w] \in {"idle", "called"} => mb[w] = 0 /\ out[w] = << >>
  /\ at[w] \in {"forward", "backward", "rows", "returned"} =>
       /\ mb[w] \in 0..Len(Microbatches(w))
       /\ out[w] = [i \in 1..Passed(w) |-> <<LocalBatch(w)[i], Asked>>]
  /\ at[w] \in {"backward", "rows", "returned"} => ~Uneven
  /\ at[w] \in {"rows", "returned"} => mb[w] = Len(Microbatches(w))
RowsKept ==
  /\ mb \in [Workers -> Nat]
  /\ out = [w \in Workers |-> out[w]]
  /\ loaded = [w \in Workers |-> IF at[w] \in Scored THEN Asked ELSE "policy"]
  /\ RowsOut => \A w \in Workers : RowsKeptBy(w)
  /\ pc = "done" /\ RowsOut => result = InOrder /\ \A w \in Workers : at[w] = "returned"

\* The frames kept of a recording are those of a sample that has it, of the
\* same global batch in train; a missing first update has been overflowed.
InScope(w, v) == RowsOut \/ (v - 1) \div ask.gbs = gb[w] - 1
FramesKeptBy(w) ==
  /\ at[w] \in {"idle", "called", "normalise", "forward", "backward"} =>
       \A r \in Recordings : cache[w][r] # 0 =>
         \E v \in Samples : batch.rec[v] = r /\ batch.audio[v] = cache[w][r] /\ InScope(w, v)
  /\ ask.worker = "megatron" /\ ~RowsOut /\ (gb[w] > 1 \/ at[w] = "share")
       /\ applied[w] = << >> => 1 \in ask.overflow
FramesKept ==
  /\ cache \in [Workers -> [Recordings -> Nat]]
  /\ heard \in [Workers -> [Samples -> Nat]]
  /\ \A w \in Workers : FramesKeptBy(w)
  /\ FailsForCause

\* The collectives of a call, and which one each worker enters after which.
Size        == <<"dp", <<"size">>>>
Valid(g)    == <<"dp", <<"valid", g>>>>
Losses      == <<"dp", <<"losses">>>>
Forward(g, m) == <<"model", <<"forward", g, m>>>>
Norm(g)     == <<"world", <<"norm", g>>>>
Metrics(g)  == <<"pp", <<"metrics", g>>>>
RowsShared  == <<"pp", <<"rows">>>>

Stepping  == ask.call = "train" \/ ask.worker = "megatron"
Number(g) == IF ask.dynamic THEN Len(shards[1].mbs[g]) ELSE LocalSize \div ask.mbs
After(g)  == IF g < GlobalBatches THEN Valid(g + 1) ELSE Losses
Opening   == IF RowsOut THEN Forward(1, 0) ELSE IF ask.worker = "megatron" THEN Size ELSE Valid(1)
Closing(g) == IF ask.worker = "megatron" THEN Metrics(g)
              ELSE IF Stepping THEN Norm(g) ELSE Forward(g, Number(g) - 1)
AfterForward(g, m) ==
  IF m + 1 < Number(g) THEN Forward(g, m + 1)
  ELSE IF RowsOut THEN RowsShared
  ELSE IF Stepping THEN Norm(g) ELSE After(g)

Follows(e, f) ==
  \/ e = Size /\ f = Valid(1)
  \/ \E g \in 1..GlobalBatches :
       \/ e = Valid(g) /\ f = Forward(g, 0)
       \/ \E m \in 0..(Number(g) - 1) : e = Forward(g, m) /\ f = AfterForward(g, m)
       \/ e = Norm(g) /\ f = (IF ask.worker = "megatron" THEN Metrics(g) ELSE After(g))
       \/ e = Metrics(g) /\ f = After(g)

Chain(s) ==
  /\ s # << >> => s[1] = Opening
  /\ \A i \in 1..(Len(s) - 1) : Follows(s[i], s[i + 1])

\* A worker has entered its collectives one after the other up to the place
\* it is at.
Latest(w, e) == entered[w] # << >> /\ entered[w][Len(entered[w])] = e
InStepBy(w) ==
  /\ Chain(entered[w])
  /\ at[w] \in {"idle", "called"} => entered[w] = << >> /\ gb[w] = 1
  /\ at[w] = "sized" => Latest(w, Size) /\ gb[w] = 1 /\ ask.worker = "megatron"
  /\ at[w] = "batch" => IF gb[w] = 1 THEN entered[w] = << >> /\ ask.worker # "megatron"
                        ELSE /\ gb[w] <= GlobalBatches + 1 /\ Latest(w, Closing(gb[w] - 1))
                             /\ Stepping \/ Number(gb[w] - 1) \in Nat \ {0}
  /\ at[w] = "normalise" => Latest(w, Valid(gb[w])) /\ mb[w] = 0
  /\ at[w] = "forward" => mb[w] = 0 /\ IF RowsOut THEN entered[w] = << >> ELSE Latest(w, Valid(gb[w]))
  /\ at[w] = "backward" => /\ mb[w] \in 1..Number(gb[w])
                           /\ Latest(w, Forward(gb[w], mb[w] - 1))
  /\ at[w] = "step" => Latest(w, Norm(gb[w])) /\ Stepping
  /\ at[w] = "share" => Latest(w, Metrics(gb[w])) /\ ask.worker = "megatron"
InStep == \A w \in Workers : InStepBy(w)

\* The gradient of a global batch is that of the microbatches behind the
\* worker; once it has entered the norm's reduction, that of its whole part.
Gradient(w, n) == [i \in 1..n |-> <<LocalBatch(w)[i], ValidOf(gb[w])>>]
Part(w, g) ==
  [i \in 1..LocalSize |-> <<GetBatch(shards[ShardOf(w)].rows, g, LocalSize)[i], ValidOf(g)>>]
GradientsBy(w) ==
  /\ \A g \in 1..GlobalBatches :
       /\ (\E i \in DOMAIN entered[w] : entered[w][i] = Norm(g)) =>
            /\ g < gb[w] \/ (g = gb[w] /\ at[w] \in {"step", "share", "raised"})
            /\ grad[w][g] = Part(w, g)
       /\ g > gb[w] \/ (g = gb[w] /\ at[w] \notin {"backward", "step", "share", "raised"}) =>
            grad[w][g] = << >>
  /\ at[w] \in {"forward", "backward"} => norm[w] = ValidOf(gb[w])
  /\ at[w] = "backward" => ~Uneven /\ grad[w][gb[w]] = Gradient(w, Passed(w))
Gradients == ask.call = "train" => \A w \in Workers : GradientsBy(w)

\* The updates made so far are those of the global batches behind the worker.
Behind(w) == {g \in Updating : g < gb[w] \/ (g = gb[w] /\ at[w] = "share")}
AppliedBy(w) ==
  /\ Len(applied[w]) = Cardinality(Behind(w))
  /\ \A g \in Behind(w) : IsUpdateOf(applied[w][UpdateOf(g)], g)
  /\ at[w] # "rows" /\ (at[w] \in {"losses", "returned"} => gb[w] > GlobalBatches)
Applied ==
  /\ ask.call = "train" => \A w \in Workers : AppliedBy(w)
  /\ ask.call # "train" /\ ask.worker # "megatron" => \A w \in Workers : applied[w] = << >>
  /\ pc = "done" => \A w \in Workers : at[w] = "returned"
=============================================================================
