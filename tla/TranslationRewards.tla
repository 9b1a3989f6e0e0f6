------------------------- MODULE TranslationRewards -------------------------
(***************************************************************************)
(* InfiniSSTEnv.compute_reward (environments/games/infinisst.py): at the   *)
(* end of the last turn the episodes of a batch are dealt to scorer        *)
(* actors, which run at the same time on one node.  An LCME scorer has     *)
(* each translation aligned by vecalign through files in /tmp/vecalign     *)
(* that all scorers of the node share, exploring several settings over     *)
(* the same files; a mwerSegmenter scorer works in fresh directories.      *)
(* The driver collects the scores in the order of the batch and normalises *)
(* them prompt by prompt, in the order a set of hashes is iterated in.     *)
(*                                                                         *)
(* What is scored is traced, not computed: a score says which sample and   *)
(* which segment with which delays it is of, a normalised score over which *)
(* samples it was normalised.                                              *)
(***************************************************************************)
EXTENDS Translations, FiniteSets

CONSTANTS
  Jobs,      \* what is to be trained on: records, see MCTrainingBatch
  NScorers,  \* num_gpus
  Rounds     \* settings of the deletion percentile that are explored

ASSUME RewardAssumption == {NScorers, Rounds} \subseteq Nat \ {0}

VARIABLES
  job,      \* the batch and the configuration, fixed
  pc,       \* the driver
  inputs,   \* document id -> the sample whose texts its input files hold, 0 if removed
  output,   \* document id -> lines and cost its output file holds
  scorer,   \* scorer -> where it is in its list
  result,   \* sample -> its score, once collected
  pending,  \* prompts not normalised yet
  ops       \* sample -> what happened to its score since

rewardVars == <<inputs, output, scorer, result, pending, ops>>

Samples  == DOMAIN job.turns
Scorers  == 1..NScorers
SamePrompt(i) == {j \in Samples : job.prompt[j] = job.prompt[i]}
\* The assistant's messages, each character with its turn.
Turns(i) == [k \in DOMAIN job.turns[i] |->
               [c \in DOMAIN job.turns[i][k] |-> [c |-> job.turns[i][k][c], at |-> k]]]
NSources(i) == job.sources[job.prompt[i]]

Stale == [lines |-> << >>, cost |-> 0]       \* left by the last batch
Start(step) == [k |-> 1, step |-> step, found |-> << >>, aligned |-> << >>]

RewardInit ==
  /\ inputs = [i \in Samples |-> 0]
  /\ output = [i \in Samples |-> Stale]
  /\ scorer = [w \in Scorers |-> Start("idle")]
  /\ result = << >>
  /\ pending = {}
  /\ ops = [i \in Samples |-> << >>]

-----------------------------------------------------------------------------
(* The data of a sample.                                                   *)

TgtText(i)   == Translation(Turns(i), job.lang)
TgtDelays(i) == Delays(Turns(i), job.lang)
TgtSents(i)  == Sentences(TgtText(i), job.lang)

\* scorer_data[i::n_worker]
Dealt(w) ==
  [k \in 1..((Cardinality(Samples) + NScorers - w) \div NScorers) |-> w + (k - 1) * NScorers]
Current(w) == Dealt(w)[scorer[w].k]

\* faulty: numbered within the list of the scorer
DocInList(w) == scorer[w].k
\* The number after the features in the instance's id: of the whole batch.
Doc(w) == Current(w)

-----------------------------------------------------------------------------
(* A scorer: LCME.segment over run_vecalign_explore, or MwerSegmenter.     *)

Deal ==
  /\ pc = "called"
  /\ pc' = "scoring"
  /\ scorer' = [w \in Scorers |->
                  Start(IF Dealt(w) = << >> THEN "score"
                        ELSE IF job.segmenter = "lcme" THEN "write" ELSE "resegment")]
  /\ UNCHANGED <<job, inputs, output, result, pending, ops>>

Go(w, step) == scorer' = [scorer EXCEPT ![w].step = step]
ScorerOnly == UNCHANGED <<job, pc, result, pending, ops>>

WriteInputs(w) ==
  /\ scorer[w].step = "write"
  /\ inputs' = [inputs EXCEPT ![Doc(w)] = Current(w)]
  /\ Go(w, "run")
  /\ ScorerOnly /\ UNCHANGED output

\* vecalign_main opens the files again in every round; it fails if they are
\* gone.
RunVecalign(w) ==
  LET of == inputs[Doc(w)]
      round == Len(scorer[w].found) + 1
  IN /\ scorer[w].step = "run"
     /\ output' = IF of = 0 THEN output
                  ELSE [output EXCEPT ![Doc(w)] =
                          [lines |-> Aligned(NSources(of), Len(TgtSents(of)), job.shape[round]),
                           cost |-> job.cost[round]]]
     /\ Go(w, IF of = 0 THEN "failed" ELSE "read")
     /\ ScorerOnly /\ UNCHANGED inputs

ReadOutput(w) ==
  LET got  == output[Doc(w)]
      more == Append(scorer[w].found, [lines |-> got.lines] @@ Stats(got.lines, got.cost))
  IN /\ scorer[w].step = "read"
     /\ scorer' = [scorer EXCEPT ![w] =
          [@ EXCEPT !.found = more, !.step = IF Len(more) = Rounds THEN "remove" ELSE "run"]]
     /\ ScorerOnly /\ UNCHANGED <<inputs, output>>

\* The alignment a is the last the current instance needed.
NextInstance(w, a, again) ==
  scorer' = [scorer EXCEPT ![w] =
    [k |-> @.k + 1, found |-> << >>, aligned |-> Append(@.aligned, a),
     step |-> IF @.k = Len(Dealt(w)) THEN "score" ELSE again]]

\* The output file stays behind.
RemoveInputs(w) ==
  /\ scorer[w].step = "remove"
  /\ inputs' = [inputs EXCEPT ![Doc(w)] = 0]
  /\ NextInstance(w, FindBest(scorer[w].found), "write")
  /\ ScorerOnly /\ UNCHANGED output

Resegment(w) ==
  /\ scorer[w].step = "resegment"
  /\ NextInstance(w, Resegmented(TgtText(Current(w)), NSources(Current(w)), job.shape[1], job.lang),
                  "resegment")
  /\ ScorerOnly /\ UNCHANGED <<inputs, output>>

-----------------------------------------------------------------------------
(* InfiniSSTScorer.predict, from the alignments on.                        *)

\* What is scored of sample i: [seg, empty, texts, delays] per segment.
LcmeSegments(i, a) ==
  LET sents == TgtSents(i)
      parts == Portions(sents, TgtDelays(i), job.lang)
  IN [s \in DOMAIN a |->
        [seg |-> s, empty |-> OneSided(a[s]),
         texts  |-> [j \in DOMAIN a[s].tgt |-> sents[a[s].tgt[j]]],
         delays |-> FlattenSeq([j \in DOMAIN a[s].tgt |-> parts[a[s].tgt[j]]])]]

\* Only the segments with text use up delays.
MwerSegments(i, a) ==
  LET full(n) == SelectSeq(Take(a, n), LAMBDA t : Written(Strip(t)))
      parts   == Portions(full(Len(a)), TgtDelays(i), job.lang)
  IN [s \in DOMAIN a |->
        IF Written(Strip(a[s]))
        THEN [seg |-> s, empty |-> FALSE, texts |-> <<a[s]>>, delays |-> parts[Len(full(s))]]
        ELSE [seg |-> s, empty |-> TRUE, texts |-> << >>, delays |-> << >>]]

Segments(i, a) == IF job.segmenter = "lcme" THEN LcmeSegments(i, a) ELSE MwerSegments(i, a)
Empty(segs) == SelectSeq(segs, LAMBDA s : s.empty)
Full(segs)  == SelectSeq(segs, LAMBDA s : ~s.empty)

\* max_latency at once, the others after the loop.
LatencyList(segs) ==
  LET e == Empty(segs) f == Full(segs)
  IN [k \in DOMAIN e |-> [seg |-> e[k].seg, of |-> "max_latency"]]
       \o [k \in DOMAIN f |-> [seg |-> f[k].seg, of |-> f[k].delays]]

\* faulty: in the order of the segments
QualityInOrder(segs) ==
  [k \in DOMAIN segs |-> [seg |-> segs[k].seg, of |-> IF segs[k].empty THEN "worst_score" ELSE "score"]]
QualityList(segs) ==
  LET e == Empty(segs) f == Full(segs)
  IN [k \in DOMAIN e |-> [seg |-> e[k].seg, of |-> "worst_score"]]
       \o [k \in DOMAIN f |-> [seg |-> f[k].seg, of |-> "score"]]

\* hinged: which quality decides over which latency, sentence by sentence.
ScoreOf(i, a) ==
  LET segs == Segments(i, a)
      q == QualityList(segs)
      l == LatencyList(segs)
  IN [sample |-> i, aligned |-> a, quality |-> q, latency |-> l,
      hinged |-> IF job.hinge = "sentence" THEN [k \in DOMAIN l |-> <<q[k].seg, l[k].seg>>] ELSE << >>]

\* latency /= len(delays)
DividesByZero(i, a) == \E s \in Range(Full(Segments(i, a))) : s.delays = << >>
\* An alignment that names a sentence the sample has not.
OutOfRange(i, a) ==
  /\ job.segmenter = "lcme"
  /\ \E s \in DOMAIN a : \/ ~(Range(a[s].tgt) \subseteq DOMAIN TgtSents(i))
                        \/ ~(Range(a[s].src) \subseteq 1..NSources(i))
Failing(i, a) == OutOfRange(i, a) \/ DividesByZero(i, a)

Score(w) ==
  /\ scorer[w].step = "score"
  /\ LET bad == \E k \in DOMAIN Dealt(w) : Failing(Dealt(w)[k], scorer[w].aligned[k])
     IN Go(w, IF bad THEN "failed" ELSE "done")
  /\ ScorerOnly /\ UNCHANGED <<inputs, output>>

Scores(w) == [k \in DOMAIN Dealt(w) |-> ScoreOf(Dealt(w)[k], scorer[w].aligned[k])]

-----------------------------------------------------------------------------
(* compute_reward, from the results on.                                    *)

\* results[i % n_worker][i // n_worker]
Collect ==
  /\ pc = "scoring"
  /\ \A w \in Scorers : scorer[w].step = "done"
  /\ result' = [i \in Samples |-> Scores(((i - 1) % NScorers) + 1)[((i - 1) \div NScorers) + 1]]
  /\ pending' = IF job.normalize THEN Range(job.prompt) ELSE {}
  /\ pc' = "normalising"
  /\ UNCHANGED <<job, inputs, output, scorer, ops>>

CollectRaises ==
  /\ pc = "scoring"
  /\ \E w \in Scorers : scorer[w].step = "failed"
  /\ pc' = "raised"
  /\ UNCHANGED <<job, rewardVars>>

Mask(p) == {i \in Samples : job.prompt[i] = p}

\* Under seqpo the latencies of all samples are clipped after each prompt.
Normalised(p) ==
  [i \in Samples |-> ops[i] \o (IF i \in Mask(p) THEN <<[op |-> "normalise", over |-> Mask(p)]>> ELSE << >>)
                            \o (IF job.seqpo THEN <<[op |-> "clip", over |-> Samples]>> ELSE << >>)]

Normalise(p) ==
  /\ pc = "normalising" /\ p \in pending
  /\ ops' = Normalised(p)
  /\ pending' = pending \ {p}
  /\ UNCHANGED <<job, pc, inputs, output, scorer, result>>

Scorer(w) == \/ WriteInputs(w) \/ RunVecalign(w) \/ ReadOutput(w)
             \/ RemoveInputs(w) \/ Resegment(w) \/ Score(w)

RewardNext ==
  \/ Deal \/ Collect \/ CollectRaises
  \/ \E w \in Scorers : Scorer(w)
  \/ \E p \in pending : Normalise(p)

-----------------------------------------------------------------------------
(* Properties.                                                             *)

\* Though the scorers work on files with common names at the same time, each
\* sample is scored by the alignment of its own text (infinisst.py:148-163,
\* wmtAlign.py:318-394): the lines cover all its source sentences and all its
\* own target sentences, once and in order, and no scorer finds a file gone.
AlignmentsOwn ==
  /\ \A w \in Scorers : job.segmenter = "lcme" =>
       \A k \in DOMAIN scorer[w].aligned :
         LET a == scorer[w].aligned[k]
         IN /\ FlattenSeq([s \in DOMAIN a |-> a[s].tgt]) = Ids(Len(TgtSents(Dealt(w)[k])))
            /\ FlattenSeq([s \in DOMAIN a |-> a[s].src]) = Ids(NSources(Dealt(w)[k]))
  /\ \A i \in DOMAIN result : result[i].sample = i

\* Latency is computed from the delays of the very units of the segment
\* (infinisst.py:441-452, 464-468, 703-712), however turns, sentences and
\* segments cut the text, as long as the texts are plain; and then nothing
\* divides by zero.
DelaysOwn ==
  \A w \in Scorers : \A k \in DOMAIN scorer[w].aligned :
    LET i == Dealt(w)[k]
    IN (\A t \in Range(Turns(i)) : Plain(t, job.lang)) /\ ~OutOfRange(i, scorer[w].aligned[k]) =>
         \A s \in Range(Full(Segments(i, scorer[w].aligned[k]))) :
           /\ s.delays = FlattenSeq([j \in DOMAIN s.texts |-> TrueDelays(s.texts[j], job.lang)])
           /\ s.delays # << >>

\* Sentence by sentence, a latency is hinged on the quality of the same segment,
\* though penalties for unaligned sentences are listed before all scores
\* (infinisst.py:433-437, 499, 617-618, 628-633); and when the rewards are
\* computed each score has been normalised exactly once, over all samples of
\* its own prompt and no other, whatever order the prompts came in; under
\* seqpo the clipping has the last word (735-753).
RewardsOwn ==
  /\ \A i \in DOMAIN result : \A pair \in Range(result[i].hinged) : pair[1] = pair[2]
  /\ pc = "rewarded" =>
       \A i \in Samples :
         /\ result[i].sample = i
         /\ SelectSeq(ops[i], LAMBDA o : o.op = "normalise") =
              IF job.normalize THEN <<[op |-> "normalise", over |-> SamePrompt(i)]>> ELSE << >>
         /\ job.normalize /\ job.seqpo => Last(ops[i]).op = "clip"
=============================================================================
