----------------------------- MODULE ChatFormat -----------------------------
(***************************************************************************)
(* From the conversations of a data set to tokenised examples:             *)
(* get_formatted_message_log (data/llm_message_utils.py), which finds out  *)
(* what a chat template adds for a message by formatting ever longer parts *)
(* of the conversation, and the preprocessors of examples/run_sft.py and   *)
(* run_dpo.py.                                                             *)
(*                                                                         *)
(* A text is a sequence of the pieces templates and contents are made of,  *)
(* each of which is a token; contents carry no blanks at their ends.       *)
(***************************************************************************)
EXTENDS Integers, SequencesExt

LOCAL Least(a, b) == IF a < b THEN a ELSE b

\* One message under a template, and the header of an answer to come.
Header(template, role) ==
  CASE template = "simple_role_header" -> <<"<start>", role, "<end>", "\n", "\n">>
    [] template = "qwen"               -> <<"<im_start>", role, "\n">>
    [] template = "passthrough_prompt_response" -> << >>
    [] template = "sft" -> IF role = "user" THEN <<"Question:">>
                           ELSE IF role = "assistant" THEN <<" ">> ELSE <<"Context:">>
Footer(template, role) ==
  CASE template = "simple_role_header" -> <<"<eot>">>
    [] template = "qwen"               -> <<"<im_end>", "\n">>
    [] template = "passthrough_prompt_response" -> << >>
    [] template = "sft" -> IF role = "user" THEN <<"Answer:">> ELSE << >>
GenerationPrompt(template) ==
  IF template \in {"simple_role_header", "qwen"} THEN Header(template, "assistant") ELSE << >>

\* apply_chat_template
ApplyTemplate(f, messages, prompted) ==
  (IF f.template = "simple_role_header" THEN <<f.bos>> ELSE << >>)
    \o FlattenSeq([i \in DOMAIN messages |->
         Header(f.template, messages[i].role) \o messages[i].content
           \o Footer(f.template, messages[i].role)])
    \o (IF prompted THEN GenerationPrompt(f.template) ELSE << >>)

\* The prompt of the task around the first content, said by a user.
WithPrompt(f, messages) ==
  IF f.prompt = << >> THEN messages
  ELSE <<[role |-> "user", content |-> f.prompt \o messages[1].content]>> \o Tail(messages)

\* The conversation up to message i, nothing before the first.
Formatted(f, messages, i) ==
  IF i = 0 THEN << >>
  ELSE ApplyTemplate(f, SubSeq(messages, 1, i), f.generationPrompt /\ messages[i].role = "user")

\* get_first_index_that_differs
FirstDiffering(s, t) ==
  LET n == Least(Len(s), Len(t))
  IN Min({k \in 0..n : k = n \/ s[k + 1] # t[k + 1]})

WithBos(f, chunk) ==
  IF f.bos = "none" \/ IsPrefix(<<f.bos>>, chunk) THEN chunk ELSE <<f.bos>> \o chunk
WithEos(f, chunk) ==
  IF f.eos = "none" \/ IsSuffix(<<f.eos>>, chunk) THEN chunk ELSE chunk \o <<f.eos>>
RightStripped(chunk) ==
  SubSeq(chunk, 1, Max({0} \cup {k \in DOMAIN chunk : chunk[k] # "\n"}))

\* What formatting one more message adds.
Chunk(f, messages, i) ==
  LET now   == Formatted(f, messages, i)
      added == SubSeq(now, FirstDiffering(Formatted(f, messages, i - 1), now) + 1, Len(now))
      first == IF i = 1 THEN WithBos(f, added) ELSE added
  IN IF i = Len(messages) THEN WithEos(f, RightStripped(first)) ELSE first

FormattedLog(f, messages) ==
  LET said == WithPrompt(f, messages)
      text == [i \in DOMAIN said |-> Chunk(f, said, i)]
  IN [i \in DOMAIN said |->
        [role |-> said[i].role, content |-> said[i].content, text |-> text[i], n |-> Len(text[i])]]

-----------------------------------------------------------------------------
(* The preprocessors: what is too long is cut short and masked out.        *)

LengthOf(log) == FoldLeft(LAMBDA n, m : n + m.n, 0, log)
CutShort(log, maxLen) == [i \in DOMAIN log |-> [log[i] EXCEPT !.n = Least(@, Least(4, maxLen \div Len(log)))]]

SftExample(f, messages, maxLen) ==
  LET log == FormattedLog(f, messages)
  IN IF LengthOf(log) > maxLen THEN [log |-> CutShort(log, maxLen), valid |-> FALSE]
     ELSE [log |-> log, valid |-> TRUE]

\* A prompt with both answers.
DpoExample(f, e, maxLen) ==
  LET answered(a) == FormattedLog(f, e.prompt \o <<[role |-> "assistant", content |-> a]>>)
      chosen == answered(e.chosen)
      rejected == answered(e.rejected)
  IN IF LengthOf(chosen) > maxLen \/ LengthOf(rejected) > maxLen
     THEN [chosen |-> CutShort(chosen, maxLen), rejected |-> CutShort(rejected, maxLen), valid |-> FALSE]
     ELSE [chosen |-> chosen, rejected |-> rejected, valid |-> TRUE]

-----------------------------------------------------------------------------
\* Without the mark the text begins with, and the one it ends with.
Unmarked(f, s) ==
  LET t == IF s # << >> /\ s[1] = f.bos THEN Tail(s) ELSE s
  IN IF t # << >> /\ Last(t) = f.eos THEN Front(t) ELSE t

\* The chunks of a conversation read, one after the other, as the template
\* writes the whole, marked once at each end, and each contains its own
\* message's content and no piece of another's: a mask on messages trains on
\* what the assistant said.
ReadsAsWritten(f, log) ==
  LET said   == [i \in DOMAIN log |-> [role |-> log[i].role, content |-> log[i].content]]
      read   == FlattenSeq([i \in DOMAIN log |-> log[i].text])
      pieces == UNION {{log[i].content[k] : k \in DOMAIN log[i].content} : i \in DOMAIN log}
  IN /\ Unmarked(f, read) = Unmarked(f, RightStripped(ApplyTemplate(f, said, FALSE)))
     /\ f.bos # "none" => read[1] = f.bos
     /\ f.eos # "none" => Last(read) = f.eos
     /\ \A i \in DOMAIN log :
          SelectSeq(log[i].text, LAMBDA p : p \in pieces) = log[i].content
=============================================================================
