------------------------- MODULE MCDataParallelStep -------------------------
EXTENDS DataParallelStep

Dtensor(call, dynamic, dp, cp, mp, gbs) ==
  [worker |-> "dtensor", call |-> call, dynamic |-> dynamic, dp |-> dp, cp |-> cp, mp |-> mp,
   gbs |-> gbs, mbs |-> 1, overflow |-> {}]

CheckedCalls ==
  \* two chunks of four on two workers, and a chunk that does not divide
  {Dtensor("train", dyn, 2, 1, 1, 4) : dyn \in BOOLEAN}
    \cup {Dtensor("train", FALSE, 2, 1, 1, 3)}
  \* context and tensor parallel peers
    \cup {Dtensor(call, TRUE, 1, 2, 1, 4) : call \in {"train", "reference"}}
    \cup {Dtensor("logprobs", TRUE, 1, 1, 2, 4)}
  \* scoring and evaluation
    \cup {Dtensor(call, dyn, 2, 1, 1, 4) : call \in {"logprobs", "reference"}, dyn \in BOOLEAN}
    \cup {[Dtensor(call, FALSE, 2, 1, 1, 4) EXCEPT !.worker = "fsdp1", !.mbs = 2] :
            call \in {"train", "eval", "reference", "generate"}}
    \cup {[Dtensor("reference", FALSE, 2, 1, 1, 4) EXCEPT !.worker = "fsdp1", !.mbs = 3]}
    \cup {Dtensor("eval", TRUE, 2, 1, 1, 4)}
  \* Megatron, with two replicas or two pipeline stages
    \cup {[Dtensor("train", TRUE, 2, 1, 1, 4) EXCEPT !.worker = "megatron", !.overflow = o] :
            o \in {{}, {1}, {2}}}
    \cup {[Dtensor(call, FALSE, 1, 1, 2, 4) EXCEPT !.worker = "megatron", !.mbs = 2, !.overflow = o] :
            call \in {"train", "reference"}, o \in {{}, {1}}}

MegatronEval ==
  {[Dtensor("eval", FALSE, dp, 1, mp, 4) EXCEPT !.worker = "megatron"] : dp, mp \in {1, 2}}

Data(lens, audios, valid) ==
  [len |-> lens, audio |-> audios, rec |-> <<"a", "a", "b", "b", "c", "c", "d", "a">>,
   valid |-> valid]
AllValid == [i \in 1..8 |-> TRUE]
Plain == <<2, 2, 1, 1, 2, 2, 2, 2>>

\* Lengths of every pattern, one invalid sample, one recording that is heard
\* for different times.
CheckedBatches ==
  {Data(l \o l, Plain, AllValid) : l \in {k \in [1..4 -> {1, 3}] : k[1] = 3}}
    \cup {Data(<<3, 1, 2, 4, 3, 4, 1, 2>>, Plain, AllValid)}
    \cup {Data(<<3, 1, 2, 1, 3, 2, 1, 2>>, Plain, [AllValid EXCEPT ![i] = FALSE]) : i \in 1..8}
    \cup {Data(<<3, 1, 2, 1, 3, 2, 1, 2>>, [Plain EXCEPT ![i] = 3 - @], AllValid) : i \in {1, 2, 5, 8}}
=============================================================================
