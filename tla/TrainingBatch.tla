--------------------------- MODULE TrainingBatch ---------------------------
(***************************************************************************)
(* From message logs to the terms of the loss: what grpo_train, sft_train  *)
(* and dpo_train (algorithms/*.py) do with a batch around                  *)
(* data/llm_message_utils.py, and what algorithms/loss_functions.py makes  *)
(* of a microbatch.  GRPO first has its episodes written and scored, see   *)
(* Responses and TranslationRewards; SFT and DPO begin with conversations, *)
(* see ChatFormat.                                                         *)
(*                                                                         *)
(* A tensor over the positions of a row is traced by what each entry is    *)
(* of: a log-probability is named by the token it is the probability of,   *)
(* an advantage by the sample whose reward it was made from.  Shifts,      *)
(* rolls, paddings and missing entries are those of the code; whether they *)
(* meet again at the same token is a property.                             *)
(***************************************************************************)
EXTENDS TranslationRewards, BatchSharding, ChatFormat

CONSTANT DivisibleBy      \* make_sequence_length_divisible_by

ASSUME DivisibleAssumption == DivisibleBy \in Nat \ {0}

VARIABLES
  batch,       \* rows: [log, valid, of] with messages [role, n, ...]; [ids, logprobs] if generated
  advantages,  \* sample -> [of, baseline, scaled]
  flat,        \* column -> row -> entries by position, once flattened
  scored,      \* prev_logprobs and reference_policy_logprobs, likewise
  terms,       \* the terms of the loss, each with its microbatch
  paired       \* DPO: the rows compared with each other

lossVars  == <<advantages, flat, scored, terms, paired>>
batchVars == <<batch, lossVars>>
vars == <<job, pc, rewardVars, batchVars>>

Rows     == DOMAIN batch
Log(r)   == batch[r].log
Valid(r) == batch[r].valid

Init ==
  /\ job \in Jobs
  /\ pc = IF job.algo = "grpo" THEN "generating" ELSE "fetching"
  /\ RewardInit
  /\ batch = [r \in DOMAIN job.log |-> [log |-> job.log[r], valid |-> job.valid[r], of |-> <<r>>]]
  /\ advantages = << >> /\ flat = << >> /\ scored = << >> /\ terms = {} /\ paired = {}

Tokens(r, m) ==
  IF "ids" \in DOMAIN Log(r)[m] THEN Log(r)[m].ids ELSE [k \in 1..Log(r)[m].n |-> <<r, m, k>>]
\* The first n messages of a row.
Context(r, n) == FlattenSeq([m \in 1..n |-> Tokens(r, m)])

-----------------------------------------------------------------------------
(* rollouts.py: a turn of all episodes, in lockstep or one by one (see     *)
(* Rollout and AsyncRollout for their bookkeeping).  No episode is full    *)
(* before its last turn here, so that they all reach compute_reward.       *)

\* max_new_tokens, and what vLLM leaves of it near the end of its context.
Allowed(prompt) ==
  IF job.gen.backend = "hf" THEN job.gen.maxNew
  ELSE Larger(0, Smaller(job.gen.maxNew, job.gen.maxSeq - Len(prompt)))

\* The model (external) continues the prompt it is given, up to an
\* end-of-sequence token, a stop string or the limit.
Answer(prompt) ==
  LET r    == prompt[1][1]
      m    == Last(prompt)[2] + 1
      made == job.gen.made[r][m \div 2]
      n    == Smaller(made.n, Allowed(prompt))
  IN [k \in 1..n |-> IF k = made.n /\ made.end = "eos" THEN <<r, m, k, "eos">> ELSE <<r, m, k>>]

INSTANCE Responses   \* with this Answer

Heard(r) == Context(r, Len(Log(r)))
\* batched_message_log_to_flat_message
Prompts == LET heard == [r \in Rows |-> Heard(r)]
           IN [r \in Rows |-> Row(heard[r], Longest(heard))]

\* verify_right_padding raises unless told not to, and no caller tells it
\* (interfaces.py:28), so that FSDP1's warning is not reached.
\* Policy.generate shards evenly; its workers cut microbatches.
Generable ==
  /\ \A r \in Rows : RightPadded(Prompts[r])
  /\ job.gen.backend = "hf" => /\ Shardable(Len(batch), job.gen.dp, Len(batch), FALSE)
                               /\ (Len(batch) \div job.gen.dp) % job.gen.mbs = 0

\* generate of VllmGeneration or Policy: the outputs of the shards together.
GenerateSharded ==
  LET shard(d) == Shard(Prompts, d, job.gen.dp, Len(batch))
  IN FromBatches([d \in 1..job.gen.dp |->
       IF job.gen.backend = "vllm" THEN VllmGenerate(shard(d))
       ELSE HfGenerate(shard(d), job.gen.mbs)])

\* async_generate_response_for_sample_turn
GenerateAlone(r) ==
  LET row == Row(Heard(r), Len(Heard(r)))
  IN FromBatches(<<GenerateAsync(row, Allowed(Heard(r)))>>)

With(r, message) == [batch[r] EXCEPT !.log = Append(@, message)]

Generate ==
  /\ pc = "generating" /\ Generable
  /\ batch' = IF job.gen.backend = "async"
              THEN [r \in Rows |-> With(r, Response(GenerateAlone(r), 1, Len(Heard(r))))]
              ELSE LET out == GenerateSharded
                   IN [r \in Rows |-> With(r, Response(out, r, Len(Heard(r))))]
  /\ pc' = "observing"
  /\ UNCHANGED <<job, rewardVars, lossVars>>

GenerateRefused ==
  /\ pc = "generating" /\ ~Generable
  /\ pc' = "raised"
  /\ UNCHANGED <<job, rewardVars, batchVars>>

\* Tokens left for the observation; only the rollout of single samples takes
\* less than none for none.
Left(r) == job.gen.maxSeq - Len(Heard(r))
Overfull == job.gen.backend # "async" /\ \E r \in Rows : Left(r) < 0

Observe ==
  /\ pc = "observing" /\ ~Overfull
  /\ batch' = [r \in Rows |->
       With(r, [role |-> "user", n |-> Smaller(job.gen.obs, Larger(0, Left(r)))])]
  /\ pc' = IF \A r \in Rows : Len(Log(r)) = 2 * Len(job.turns[r]) THEN "called" ELSE "generating"
  /\ UNCHANGED <<job, rewardVars, lossVars>>

ObserveRefused ==
  /\ pc = "observing" /\ Overfull
  /\ pc' = "raised"
  /\ UNCHANGED <<job, rewardVars, batchVars>>

-----------------------------------------------------------------------------
(* datasets.py: examples of the data set collated into a batch.            *)

\* rl_collate_fn
CollateSft ==
  /\ pc = "fetching" /\ job.algo = "sft"
  /\ batch' = [r \in DOMAIN job.data |->
       SftExample(job.format, job.data[r], job.maxLen) @@ [of |-> <<r>>]]
  /\ pc' = "assembling"
  /\ UNCHANGED <<job, rewardVars, lossVars>>

\* dpo_collate_fn: chosen and rejected answers in turn.
CollateDpo ==
  /\ pc = "fetching" /\ job.algo = "dpo"
  /\ batch' = FlattenSeq([e \in DOMAIN job.data |->
       LET x == DpoExample(job.format, job.data[e], job.maxLen)
       IN <<[log |-> x.chosen,   valid |-> x.valid, of |-> <<e, "chosen">>],
            [log |-> x.rejected, valid |-> x.valid, of |-> <<e, "rejected">>]>>])
  /\ pc' = "assembling"
  /\ UNCHANGED <<job, rewardVars, lossVars>>

-----------------------------------------------------------------------------
(* grpo.py: rewards, baselines, advantages.                                *)

Reward ==
  /\ pc = "normalising" /\ pending = {}
  /\ pc' = "rewarded"
  /\ UNCHANGED <<job, rewardVars, batchVars>>

\* calculate_baseline_and_std_per_prompt, every sample counted as valid; the
\* mean of the others, or the sample's own reward if it is alone.
Baseline(i) ==
  IF Cardinality(SamePrompt(i)) <= 1 THEN {i}
  ELSE IF job.leaveOneOut THEN SamePrompt(i) \ {i} ELSE SamePrompt(i)

\* A group without variance is not scaled; nor is a sample alone.
Advantages ==
  /\ pc = "rewarded"
  /\ advantages' = [i \in Samples |-> [of |-> i, baseline |-> IF job.reduce THEN Baseline(i) ELSE {}]]
  /\ pc' = "assembling"
  /\ UNCHANGED <<job, batch, rewardVars, flat, scored, terms, paired>>

-----------------------------------------------------------------------------
(* llm_message_utils.py: masks, flattening, padding.                       *)

Trained(r, m) ==
  IF job.algo = "dpo" THEN m = Len(Log(r))            \* only_unmask_final
  ELSE Log(r)[m].role = "assistant"                   \* roles_to_train_on

\* faulty: left to the messages that were generated
NotFilled(r, m) == IF "logprobs" \in DOMAIN Log(r)[m] THEN Log(r)[m].logprobs ELSE << >>
\* Log-probabilities of the engine, zeros for what it did not generate.
Generated(r, m) ==
  IF "logprobs" \in DOMAIN Log(r)[m] THEN Log(r)[m].logprobs ELSE Zeros(Log(r)[m].n)

\* One message's entries of a column.
Entries(column, r, m) ==
  CASE column = "ids"  -> Tokens(r, m)
    [] column = "mask" -> [k \in 1..Log(r)[m].n |-> IF Trained(r, m) THEN 1 ELSE 0]
    [] column = "gen"  -> Generated(r, m)
    [] column = "adv"  -> [k \in 1..Log(r)[m].n |-> advantages[r]]

Columns == {"ids", "mask"} \cup (IF job.algo = "grpo" THEN {"gen", "adv"} ELSE {})

\* message_log_to_flat_messages
Flattened(column, r) == FlattenSeq([m \in DOMAIN Log(r) |-> Entries(column, r, m)])
\* The longest tensor of the row, the tokens of the others being fewer if a
\* message lacks the column.
InputLength(r) == Max({Len(Flattened(c, r)) : c \in Columns})
PaddedLength == CeilDiv(Max({InputLength(r) : r \in Rows}), DivisibleBy) * DivisibleBy
PadValue(column) == IF column = "mask" THEN 0 ELSE IF column = "ids" THEN Pad ELSE Zero

\* batched_message_log_to_flat_message
Assemble ==
  /\ pc = "assembling"
  /\ flat' = [c \in Columns |->
       [r \in Rows |-> Padded(Flattened(c, r), PaddedLength, PadValue(c))]]
  /\ pc' = IF job.algo = "sft" THEN "training" ELSE "inferring"
  /\ UNCHANGED <<job, batch, rewardVars, advantages, scored, terms, paired>>

-----------------------------------------------------------------------------
(* The policy workers' get_logprobs; its rows come back in order, see      *)
(* DataParallelStep.                                                       *)

\* The logits of a position say how probable the next token is.
NextTokens(r) == Tail(flat["ids"][r])
\* One zero in front, then masked beyond the length of the row.
Logprobs(r) ==
  LET shifted == <<Zero>> \o NextTokens(r)
  IN [t \in DOMAIN shifted |-> IF t <= InputLength(r) THEN shifted[t] ELSE Zero]

\* torch.roll(logprobs, -1)
Rolled(s) == Tail(s) \o <<s[1]>>

Infer ==
  /\ pc = "inferring"
  /\ scored' = IF job.algo = "grpo"
               THEN [prev |-> [r \in Rows |-> Logprobs(r)], ref |-> [r \in Rows |-> Logprobs(r)]]
               ELSE [ref |-> [r \in Rows |-> Rolled(Logprobs(r))]]
  /\ pc' = "training"
  /\ UNCHANGED <<job, batch, rewardVars, advantages, flat, terms, paired>>

-----------------------------------------------------------------------------
(* Policy.train over microbatches, and the losses.                         *)

\* dpo_train doubles the sizes of the configuration.
Sizes == IF job.algo = "dpo" THEN [gbs |-> 2 * job.gbs, mbs |-> 2 * job.mbs]
         ELSE [gbs |-> job.gbs, mbs |-> job.mbs]

\* The assertions of the sharding, and of the iterators over a worker's share.
SizesFit ==
  /\ Shardable(Cardinality(Rows), job.dp, Sizes.gbs, FALSE)
  /\ (Sizes.gbs \div job.dp) % Sizes.mbs = 0

\* Microbatch b of worker d: the rows as they lie in its shard.
Microbatch(d, b) == GetBatch(Shard(Ids(Cardinality(Rows)), d, job.dp, Sizes.gbs), b, Sizes.mbs)
Microbatches ==
  {<<d, b>> : d \in 1..job.dp, b \in 1..((Cardinality(Rows) \div job.dp) \div Sizes.mbs)}

Counted(r, t) == flat["mask"][r][t] = 1 /\ Valid(r)
Positions == 1..(PaddedLength - 1)

\* token_mask[:, 1:], logits[:, :-1], input_ids[:, 1:]
NllTerms(x) ==
  {[mb |-> x, at |-> t, row |-> r, tok |-> NextTokens(r)[t]] :
     <<r, t>> \in {y \in Range(Microbatch(x[1], x[2])) \X Positions : Counted(y[1], y[2] + 1)}}

\* ClippedPGLossFn: every column but the logits shifted by one.
PgTerms(x) ==
  {n @@ [prev |-> scored["prev"][n.row][n.at + 1], ref |-> scored["ref"][n.row][n.at + 1],
         gen |-> flat["gen"][n.row][n.at + 1], adv |-> flat["adv"][n.row][n.at + 1]] :
     n \in NllTerms(x)}

\* _preference_loss: reference_policy_logprobs[:, :-1], as they were rolled.
DpoTerms(x) == {n @@ [ref |-> scored["ref"][n.row][n.at]] : n \in NllTerms(x)}
\* split_output_tensor: rewards[::2], rewards[1::2]
PairsOf(x) ==
  LET rows == Microbatch(x[1], x[2])
  IN {<<rows[k], rows[k + 1]>> : k \in {n \in 1..(Len(rows) - 1) : n % 2 = 1}}

Train ==
  /\ pc = "training" /\ SizesFit
  /\ terms' = UNION {CASE job.algo = "grpo" -> PgTerms(x)
                       [] job.algo = "sft"  -> NllTerms(x)
                       [] job.algo = "dpo"  -> DpoTerms(x) : x \in Microbatches}
  /\ paired' = IF job.algo = "dpo" THEN UNION {PairsOf(x) : x \in Microbatches} ELSE {}
  /\ pc' = "trained"
  /\ UNCHANGED <<job, batch, rewardVars, advantages, flat, scored>>

TrainRefused ==
  /\ pc = "training" /\ ~SizesFit
  /\ pc' = "raised"
  /\ UNCHANGED <<job, rewardVars, batchVars>>

Done == pc \in {"trained", "raised"} /\ UNCHANGED vars

Driver == \/ Generate \/ GenerateRefused \/ Observe \/ ObserveRefused
          \/ CollateSft \/ CollateDpo \/ Reward \/ Advantages \/ Assemble \/ Infer \/ Train \/ TrainRefused
Next == \/ RewardNext /\ UNCHANGED batchVars
        \/ Driver
        \/ Done
Spec == Init /\ [][Next]_vars

-----------------------------------------------------------------------------
(* Properties.                                                             *)

\* The tokens that are to be learned: of trained messages of valid rows, but
\* for a token no logits come before.
Learned == {tok \in UNION {Range(Tokens(r, m)) : <<r, m>> \in {y \in Rows \X (1..5) :
               y[2] \in DOMAIN Log(y[1]) /\ Trained(y[1], y[2]) /\ Valid(y[1])}} :
             tok # Pad /\ flat["ids"][tok[1]][1] # tok}

\* Every preference is decided between the chosen and the rejected answer of
\* one example, whatever the sharding and the microbatches: all examples, once.
PairsTogether ==
  pc = "trained" /\ job.algo = "dpo" =>
    {<<batch[x[1]].of, batch[x[2]].of>> : x \in paired}
      = {<< <<e, "chosen">>, <<e, "rejected">> >> : e \in DOMAIN job.data}

\* The rows trained on read as the chat template writes their conversations.
ConversationsKept ==
  job.algo # "grpo" => \A r \in Rows : Valid(r) => ReadsAsWritten(job.format, Log(r))

\* Every answer in the log is, token by token, what the engine made after the
\* messages before it.  FSDP1 looks for an end-of-sequence token only: after a
\* stop string it counts the padding in.
AnswersKept ==
  \A r \in Rows : \A m \in {x \in DOMAIN Log(r) : "ids" \in DOMAIN Log(r)[x]} :
    LET made == Answer(Context(r, m - 1))
    IN \/ Log(r)[m].ids = made
       \/ /\ job.gen.backend = "hf" /\ job.gen.made[r][m \div 2].end = "stop"
          /\ SelectSeq(Log(r)[m].ids, LAMBDA tok : tok # Pad) = made
          /\ IsPrefix(made, Log(r)[m].ids)

\* Though each column of the loss comes another way (the message log, the
\* engine, two passes of the policy, the rewards) with shifts of its own, every
\* term combines values of one and the same token, the logits are those right
\* before it, its advantage is made from the reward of its own episode against
\* others of the same prompt, and each learned token has exactly one term
\* (llm_message_utils.py:208-340, grpo.py:596-660, dpo.py:239-263,
\* loss_functions.py:119-164, 319-350, 470-502); the tokens of a message are
\* those the engine made (vllm.py:560-618, fsdp1_policy_worker.py:674-773) or
\* its template writes for it (llm_message_utils.py:396-463); and preferences
\* pair the two answers to one prompt (datasets.py:216-224, dpo.py:424-429,
\* loss_functions.py:458-459).
TermsOwn ==
  pc = "trained" =>
    LET real == {x \in terms : x.tok # Pad} IN
    /\ PairsTogether /\ ConversationsKept /\ AnswersKept
    /\ {x.tok : x \in real} = Learned
    /\ \A x, y \in real : x.tok = y.tok => x = y
    /\ \A x \in real : LET logits == flat["ids"][x.row]
         IN /\ x.tok[1] = x.row /\ logits[x.at + 1] = x.tok
            /\ "prev" \in DOMAIN x => x.prev = x.tok
            /\ "ref" \in DOMAIN x => x.ref = x.tok
            /\ "gen" \in DOMAIN x => x.gen = x.tok
            /\ "adv" \in DOMAIN x => /\ x.adv.of = x.row
                                     /\ x.adv.baseline \subseteq SamePrompt(x.row)
                                     /\ job.leaveOneOut /\ x.row \in x.adv.baseline
                                          => SamePrompt(x.row) = {x.row}
=============================================================================
