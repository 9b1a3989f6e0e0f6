-------------------------- MODULE MCTrainingBatch --------------------------
EXTENDS TrainingBatch

\* An episode is the texts of its two turns.
Word == { << <<"w", " ", "w", ".">>, <<"w", ".", " ", "w">> >>,
          << <<" ", "w">>, <<" ", "w", ".">> >>,
          << << >>, <<"w", ".", " ", "w", ".">> >>,
          << << >>, << >> >> }
Char == { << <<"w", "w", ".">>, <<"w", ".", "w">> >>,
          << <<"w", ".", ".">>, <<"w">> >>,
          << << >>, <<".", "w", ".">> >> }
\* A line break or doubled blanks inside a message, a blank one.
Untidy == { << <<"w", "\n", "w">>, <<"w", ".">> >>,
            << <<"w", ".", " ", " ", "w">>, <<" ">> >>,
            << <<"w", "\n", "w">>, << >> >> }

Made(n, end) == [n |-> n, end |-> end]
\* Who generates, on how many workers, and what the model would say: row by
\* row, in either turn.
Gen(backend, dp, mbs, a, b, maxSeq) ==
  [backend |-> backend, dp |-> dp, mbs |-> mbs, maxNew |-> 3, maxSeq |-> maxSeq, obs |-> 1,
   made |-> << <<a, b>>, <<b, a>>, <<a, a>>, <<b, b>> >>]
Asking(lengths) == [r \in 1..4 |-> << [role |-> "user", n |-> lengths[r]] >>]

Turned(texts, lang, segmenter, prompt, shape, cost) ==
  [algo |-> "grpo", turns |-> texts, lang |-> lang, segmenter |-> segmenter, prompt |-> prompt,
   sources |-> <<2, 1>>, shape |-> shape, cost |-> cost, hinge |-> "sentence",
   normalize |-> TRUE, seqpo |-> FALSE, reduce |-> TRUE, leaveOneOut |-> TRUE,
   log |-> Asking(<<1, 1, 1, 1>>),
   gen |-> Gen("vllm", 2, 2, Made(1, "eos"), Made(2, "eos"), 100),
   valid |-> <<TRUE, TRUE, TRUE, TRUE>>, dp |-> 2, gbs |-> 4, mbs |-> 1]

TwoPrompts == <<1, 1, 2, 2>>
Tidy(lang) == IF lang = "word" THEN Word ELSE Char
Batch(a, b) == <<a, b, b, a>>

ScoredJobs ==
  {Turned(Batch(a, b), lang, "lcme", TwoPrompts, shape, <<60, 50>>) :
     <<a, b, lang>> \in UNION {{<<x, y, l>> : x, y \in Tidy(l)} : l \in {"word", "char"}},
     shape \in {<<"pairs", "block">>, <<"late", "pairs">>}}
  \cup {Turned(Batch(a, b), lang, "mwersegmenter", TwoPrompts, <<shape>>, <<60>>) :
     <<a, b, lang>> \in UNION {{<<x, y, l>> : x, y \in Tidy(l)} : l \in {"word", "char"}},
     shape \in {"pairs", "block", "late"}}
  \cup {Turned(Batch(a, b), "word", seg, TwoPrompts, <<"pairs", "block">>, <<60, 50>>) :
     a, b \in Untidy, seg \in {"lcme", "mwersegmenter"}}

First == << <<"w", " ", "w", ".">>, <<"w", ".", " ", "w">> >>
Other == << <<"w">>, <<" ", "w", ".">> >>
Base  == Turned(Batch(First, Other), "word", "mwersegmenter", TwoPrompts, <<"pairs">>, <<60>>)

\* The ways the rewards are used; groups of four, and of three and one.
ConfiguredJobs ==
  {[Base EXCEPT !.hinge = h, !.normalize = n, !.seqpo = s, !.reduce = r, !.leaveOneOut = l,
                !.prompt = p, !.valid[2] = v, !.dp = d, !.gbs = g, !.mbs = m] :
     h \in {"none", "document"}, n, s, r, l, v \in BOOLEAN,
     p \in {TwoPrompts, <<1, 2, 1, 2>>, <<1, 1, 1, 1>>, <<1, 2, 1, 1>>},
     <<d, g, m>> \in {<<1, 4, 2>>, <<2, 2, 1>>, <<2, 4, 4>>}}

\* Answers that end every way, one over the limit of three tokens; three
\* shards of four rows; room for eight tokens truncates the last observation.
GenerationJobs ==
  {[Base EXCEPT !.gen = Gen(x[1], x[2], x[3], a, b, m), !.log = Asking(l)] :
     x \in {<<"vllm", 1, 1>>, <<"vllm", 2, 1>>, <<"vllm", 3, 1>>, <<"async", 1, 1>>}
        \cup {"hf"} \X {1, 2, 3} \X {1, 2, 4},
     a, b \in {Made(1, "eos"), Made(2, "eos"), Made(2, "stop"), Made(4, "eos")},
     m \in {8, 100}, l \in {<<1, 2, 1, 2>>, <<2, 1, 1, 1>>}}
  \cup
  \* One turn, after prompts that leave no room for an answer.
  {[Base EXCEPT !.turns = Batch(<<First[1]>>, << << >> >>), !.log = Asking(<<1, 3, 3, 2>>),
                !.gen = Gen("async", 1, 1, Made(n, "eos"), Made(2, "eos"), 3)] : n \in 1..3}

Says(role, content) == [role |-> role, content |-> content]
System == Says("system", <<"a">>)
Asked  == Says("user", <<"b", "c">>)
Told   == Says("assistant", <<"d", "e">>)
\* Two to four messages, an empty one, two answers in a row.
Talks == << <<System, Asked, Told>>, <<Asked, Says("assistant", << >>), Says("user", <<"f">>), Told>>,
            <<Says("user", <<"f">>), Says("assistant", <<"g">>)>>, <<Asked, Told, Says("assistant", <<"g">>)>> >>
Preferences == << [prompt |-> <<System, Asked>>, chosen |-> <<"x">>, rejected |-> <<"y", "z">>],
              [prompt |-> <<Asked, Told, Says("user", << >>)>>, chosen |-> << >>, rejected |-> <<"x">>] >>

Formats ==
  {[template |-> "simple_role_header", bos |-> "<bos>", eos |-> "<eot>", prompt |-> << >>,
    generationPrompt |-> g] : g \in BOOLEAN}
  \cup {[template |-> "qwen", bos |-> "none", eos |-> "<im_end>", prompt |-> p[1],
          generationPrompt |-> p[2]] : p \in {<< << >>, TRUE>>, << << >>, FALSE>>, << <<"do">>, FALSE>>}}
  \cup {[template |-> t, bos |-> b, eos |-> "</s>", prompt |-> << >>, generationPrompt |-> FALSE] :
           t \in {"passthrough_prompt_response", "sft"}, b \in {"none", "<bos>"}}

\* At 20 tokens the longer examples are masked out, at 100 none is.
PlainJobs ==
  {[Base EXCEPT !.algo = "sft", !.turns = << >>, !.prompt = << >>, !.log = << >>, !.valid = << >>,
                !.dp = d, !.gbs = g, !.mbs = m] @@ [data |-> Talks, format |-> f, maxLen |-> n] :
     f \in Formats, n \in {20, 100},
     <<d, g, m>> \in {<<1, 2, 1>>, <<2, 2, 1>>, <<2, 1, 1>>, <<2, 4, 2>>}}
  \cup
  {[Base EXCEPT !.algo = "dpo", !.turns = << >>, !.prompt = << >>, !.log = << >>, !.valid = << >>,
                !.dp = d, !.gbs = g, !.mbs = m] @@ [data |-> Preferences, format |-> f, maxLen |-> n] :
     f \in {x \in Formats : ~x.generationPrompt}, n \in {20, 100},
     <<d, g, m>> \in {<<1, 2, 1>>, <<2, 2, 1>>, <<2, 1, 1>>, <<1, 1, 2>>}}

CheckedJobs == ScoredJobs \cup ConfiguredJobs \cup GenerationJobs \cup PlainJobs
=============================================================================
