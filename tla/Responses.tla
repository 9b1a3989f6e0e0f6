----------------------------- MODULE Responses -----------------------------
(***************************************************************************)
(* What becomes of the tokens an engine generates on their way into a      *)
(* message: generate of the vLLM worker (models/generation/vllm.py), its   *)
(* generate_async, and generate of the FSDP1 worker, which hands Hugging   *)
(* Face left-padded prompts in microbatches                                *)
(* (models/policy/fsdp1_policy_worker.py).  Their outputs are padded per   *)
(* microbatch, shard and batch by BatchedDataDict.from_batches and cut out *)
(* by lengths again (experience/rollouts.py).                              *)
(*                                                                         *)
(* A token is <<row, message, position>>, followed by "eos" if it is the   *)
(* end-of-sequence token; a log-probability is named by its token.         *)
(***************************************************************************)
LOCAL INSTANCE BatchSharding
LOCAL INSTANCE Integers
LOCAL INSTANCE SequencesExt

CONSTANT Answer(_)   \* the tokens the model makes of a prompt

\* What no token is.
Pad  == <<0, 0, 0>>
Zero == <<0, 0, 1>>
IsEos(tok) == Len(tok) = 4

Padded(s, n, value) == [t \in 1..n |-> IF t <= Len(s) THEN s[t] ELSE value]
Zeros(n) == [t \in 1..n |-> Zero]
Longest(rows) == Max({Len(rows[i]) : i \in DOMAIN rows})
\* torch.nn.utils.rnn.pad_sequence
PadSequence(rows, value) == [i \in DOMAIN rows |-> Padded(rows[i], Longest(rows), value)]

\* Tensors of two dimensions are padded to one width, those of one are joined.
FromBatches(batches) ==
  LET joined(c) == FlattenSeq([b \in DOMAIN batches |-> batches[b][c]])
  IN [c \in DOMAIN batches[1] |->
        CASE c = "ids"      -> PadSequence(joined(c), Pad)
          [] c = "logprobs" -> PadSequence(joined(c), Zero)
          [] OTHER          -> joined(c)]

\* A row of the input: its padded tokens and how many they are.
Row(ids, width) == [ids |-> Padded(ids, width, Pad), length |-> Len(ids)]
\* verify_right_padding
RightPadded(row) ==
  /\ row.length <= Len(row.ids)
  /\ \A t \in (row.length + 1)..Len(row.ids) : row.ids[t] = Pad
Prompt(row) == SubSeq(row.ids, 1, row.length)

-----------------------------------------------------------------------------
(* vLLM: outputs [ids, logprobs, total], the answers right after the       *)
(* prompts, as wide as the padded input and the longest answer of the      *)
(* shard.                                                                  *)

VllmGenerate(rows) ==
  LET answer == [i \in DOMAIN rows |-> Answer(Prompt(rows[i]))]
      width  == Len(rows[1].ids) + Longest(answer)
  IN [ids      |-> [i \in DOMAIN rows |-> Padded(Prompt(rows[i]) \o answer[i], width, Pad)],
      logprobs |-> [i \in DOMAIN rows |-> Padded(Zeros(rows[i].length) \o answer[i], width, Zero)],
      total    |-> [i \in DOMAIN rows |-> rows[i].length + Len(answer[i])]]

\* One sample, without padding; nothing is asked for if no context is left.
GenerateAsync(row, allowed) ==
  LET answer == IF allowed = 0 THEN << >> ELSE Answer(Prompt(row))
  IN [ids      |-> <<Prompt(row) \o answer>>,
      logprobs |-> <<Zeros(row.length) \o answer>>,
      total    |-> <<row.length + Len(answer)>>]

-----------------------------------------------------------------------------
(* FSDP1.                                                                  *)

LeftPadded(row) ==
  LET gap == Len(row.ids) - row.length
  IN [t \in DOMAIN row.ids |-> IF t <= gap THEN Pad ELSE row.ids[t - gap]]

\* Hugging Face pads the answers to the longest of the microbatch, and scores
\* the padding too.
HfMicrobatch(rows) ==
  LET left   == [i \in DOMAIN rows |-> LeftPadded(rows[i])]
      asked(i) == SubSeq(left[i], Len(left[i]) - rows[i].length + 1, Len(left[i]))
      answer == PadSequence([i \in DOMAIN rows |-> Answer(asked(i))], Pad)
  IN [ids      |-> [i \in DOMAIN rows |-> left[i] \o answer[i]],
      logprobs |-> answer,
      length   |-> [i \in DOMAIN rows |-> rows[i].length]]

\* faulty: all that was generated for the microbatch
AllGenerated(generated) == Len(generated)
\* Up to the first end-of-sequence token, to the end if there is none.
GenerationLength(generated) ==
  Min({t \in DOMAIN generated : IsEos(generated[t])} \cup {Len(generated)})

\* The columns of the microbatches together; prompt and answer are then moved
\* to the left, to lie as vLLM's do.
HfGenerate(rows, size) ==
  LET input == Len(rows[1].ids)
      mbs   == [b \in 1..(Len(rows) \div size) |-> HfMicrobatch(GetBatch(rows, b, size))]
      made  == FromBatches(mbs)
      width == Longest(made.ids)
      n     == [i \in DOMAIN rows |-> GenerationLength(SubSeq(made.ids[i], input + 1, width))]
  IN [ids      |-> [i \in DOMAIN rows |->
                      Padded(SubSeq(made.ids[i], input - made.length[i] + 1, input + n[i]), width, Pad)],
      logprobs |-> [i \in DOMAIN rows |->
                      Padded(Zeros(made.length[i]) \o SubSeq(made.logprobs[i], 1, n[i]), width, Zero)],
      total    |-> [i \in DOMAIN rows |-> made.length[i] + n[i]]]

-----------------------------------------------------------------------------
\* generate_responses: the part of an output behind the prompt.
Response(out, i, length) ==
  [role |-> "assistant", n |-> out.total[i] - length,
   ids      |-> SubSeq(out.ids[i], length + 1, out.total[i]),
   logprobs |-> SubSeq(out.logprobs[i], length + 1, out.total[i])]
=============================================================================
