---------------------------- MODULE Translations ----------------------------
(***************************************************************************)
(* The text and list operations of environments/games/infinisst.py and of  *)
(* its sentence aligner (environments/games/lcme): joining the turns of an *)
(* episode into a translation, cutting that into sentences and units with  *)
(* a delay each, and choosing among alignments.  A text is a sequence of   *)
(* characters [c, at]: c is "w" (a letter), "." (one of SENT_SPLITTERS),   *)
(* " " or "\n"; at is the number of chunks the model had heard when it     *)
(* wrote the character, which the code does not see (0 for a separator put *)
(* in later).                                                              *)
(***************************************************************************)
EXTENDS Integers, Sequences, SequencesExt

Blank(ch)  == ch.c \in {" ", "\n"}
\* str.strip
Strip(t) == LET ink == {i \in DOMAIN t : ~Blank(t[i])}
            IN IF ink = {} THEN << >> ELSE SubSeq(t, Min(ink), Max(ink))
Written(t) == t # << >>

\* str.split(sep)
Split(t, sep) ==
  FoldLeft(LAMBDA ps, ch : IF ch.c = sep THEN Append(ps, << >>)
                           ELSE [ps EXCEPT ![Len(ps)] = Append(@, ch)],
           << << >> >>, t)

\* sep.join
Join(ts, sep) ==
  FoldLeft(LAMBDA s, t : IF s = << >> THEN t ELSE s \o <<[c |-> sep, at |-> 0]>> \o t, << >>, ts)

\* What a delay is counted for: words, or characters in CHAR_LANGS.
Units(t, lang) == IF lang = "word" THEN Split(t, " ") ELSE [i \in DOMAIN t |-> <<t[i]>>]

-----------------------------------------------------------------------------
(* compute_reward: the assistant's messages of an episode, in turn.        *)

Said(turns) == SelectSeq(turns, LAMBDA t : Written(Strip(t)))

Translation(turns, lang) ==
  IF lang = "char" THEN FlattenSeq(turns)
  ELSE LET said == Said(turns) IN Join([k \in DOMAIN said |-> Strip(said[k])], " ")

\* faulty: units of the unstripped message
UnitsOfRawMessage(t, lang) == Units(t, lang)
\* A message is stripped before it is split into words, not into characters.
UnitsOfMessage(t, lang) == IF lang = "word" THEN Units(Strip(t), lang) ELSE Units(t, lang)

\* The chunk count of the turn, once per unit of the message.
Delays(turns, lang) ==
  FlattenSeq([k \in DOMAIN turns |->
     IF Written(Strip(turns[k]))
     THEN [u \in DOMAIN UnitsOfMessage(turns[k], lang) |-> k] ELSE << >>])

-----------------------------------------------------------------------------
(* InfiniSSTScorer.predict: paragraphs into sentences, each with its part  *)
(* of the delays.                                                          *)

EndsSentence(p, i, lang) ==
  /\ p[i].c = "."
  /\ \/ i = Len(p)
     \/ lang = "char" /\ p[i + 1].c # "."
     \/ lang = "word" /\ p[i + 1].c = " "

SentencesOf(p, lang) ==
  LET cut(ss, i) == LET grown == [ss EXCEPT ![Len(ss)] = Append(@, p[i])]
                    IN IF EndsSentence(p, i, lang) THEN Append(grown, << >>) ELSE grown
      raw == FoldLeft(cut, << << >> >>, [i \in DOMAIN p |-> i])
  IN SelectSeq([k \in DOMAIN raw |-> Strip(raw[k])], Written)

Sentences(text, lang) ==
  LET ps == Split(text, "\n")
  IN FlattenSeq([k \in DOMAIN ps |-> SentencesOf(ps[k], lang)])

\* delays[:n], delays[n:] for one text after the other.
Take(s, n) == SubSeq(s, 1, IF n < Len(s) THEN n ELSE Len(s))
Drop(s, n) == SubSeq(s, n + 1, Len(s))
Portions(texts, delays, lang) ==
  FoldLeft(LAMBDA acc, t : LET n == Len(Units(t, lang))
                           IN [got |-> Append(acc.got, Take(acc.rest, n)), rest |-> Drop(acc.rest, n)],
           [got |-> << >>, rest |-> delays], texts).got

\* The chunk each unit was really written after: what a delay should say.
TrueDelays(t, lang) == LET us == Units(t, lang) IN [u \in DOMAIN us |-> us[u][1].at]

\* No line break, no blank inside a word language's message but single ones
\* between words, and none in a character language.
Plain(t, lang) ==
  LET s == Strip(t)
  IN IF lang = "char" THEN \A i \in DOMAIN t : ~Blank(t[i])
     ELSE \A i \in DOMAIN s : /\ s[i].c # "\n"
                              /\ i < Len(s) => ~(Blank(s[i]) /\ Blank(s[i + 1]))

-----------------------------------------------------------------------------
(* vecalign (games/lcme/) answers with lines [src, tgt]: every sentence of *)
(* either side in one line, both sides in order.  Its search over sentence *)
(* embeddings is abstracted to a choice among a few shapes of the path.    *)

Ids(n) == [i \in 1..n |-> i]
Line(src, tgt) == [src |-> src, tgt |-> tgt]
Inserted(from, m) == [j \in 1..(m - from) |-> Line(<< >>, <<from + j>>)]
Deleted(from, n)  == [j \in 1..(n - from) |-> Line(<<from + j>>, << >>)]

Aligned(n, m, shape) ==
  LET both == IF n < m THEN n ELSE m
  IN CASE shape = "block" /\ m > 0 -> <<Line(Ids(n), Ids(m))>>
       [] shape = "late" /\ m > 0  -> Deleted(0, n - 1) \o <<Line(<<n>>, <<1>>)>> \o Inserted(1, m)
       [] OTHER -> [k \in 1..both |-> Line(<<k>>, <<k>>)] \o Deleted(both, n) \o Inserted(both, m)

OneSided(line) == line.src = << >> \/ line.tgt = << >>

\* compute_alignment_stats, in hundredths: a deletion or insertion has cost 0.
Stats(lines, cost) ==
  LET zeros == Len(SelectSeq(lines, OneSided))
  IN [zero |-> (100 * zeros) \div Len(lines), avg |-> IF zeros = Len(lines) THEN 0 ELSE cost]

\* find_best_alignment: the results from the largest deletion percentile to
\* the smallest, until a jump; the first one has nothing to jump from.
Stops(r, prev) ==
  \/ prev.zero # 0 /\ 2 * r.zero > 3 * prev.zero
  \/ r.zero - prev.zero > 15
  \/ r.avg > prev.avg
  \/ r.avg < 30
  \/ r.zero > 70

FindBest(results) ==
  LET look(acc, r) ==
        IF acc.stopped \/ (acc.prev # << >> /\ Stops(r, acc.prev[1]))
        THEN [acc EXCEPT !.stopped = TRUE]
        ELSE [stopped |-> FALSE, prev |-> <<r>>,
              best |-> IF acc.best = << >> \/ r.avg < acc.best[1].avg THEN <<r>> ELSE acc.best]
  IN FoldLeft(look, [stopped |-> FALSE, prev |-> << >>, best |-> << >>], results).best[1].lines

\* mwerSegmenter (external): the words of the text, in order, over as many
\* segments as there are references.  By shape the first segment takes one
\* word, all of them, or the tool left no file and every segment is empty.
Resegmented(text, nref, shape, lang) ==
  LET words == SelectSeq(IF lang = "char" THEN Units(text, lang)
                         ELSE FlattenSeq([k \in DOMAIN Split(text, "\n") |-> Split(Split(text, "\n")[k], " ")]),
                         LAMBDA u : Written(Strip(u)))
      glue(us) == IF lang = "char" THEN FlattenSeq(us) ELSE Join(us, " ")
      first == IF shape = "block" \/ nref = 1 THEN Len(words) ELSE 1
  IN IF shape = "late" \/ words = << >> THEN [j \in 1..nref |-> << >>]
     ELSE [j \in 1..nref |-> IF j = 1 THEN glue(Take(words, first))
                             ELSE IF j = 2 THEN glue(Drop(words, first)) ELSE << >>]
=============================================================================
