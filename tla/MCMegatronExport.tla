-------------------------- MODULE MCMegatronExport --------------------------
EXTENDS MegatronExport

Split(layers, pp, first, last) == [layers |-> layers, pp |-> pp, first |-> first, last |-> last]
\* Even stages, a short first or last stage, both; one stage to four.
Splits == {Split(2, 1, 0, 0), Split(2, 2, 0, 0), Split(3, 2, 1, 0), Split(3, 2, 0, 1),
           Split(5, 3, 1, 0), Split(5, 3, 0, 1), Split(4, 3, 1, 1), Split(4, 4, 0, 0)}

\* Buffers of one tensor, of a few, of all.
CheckedModels ==
  {s @@ [tp |-> tp, arch |-> "qwen2", tied |-> tp = 2, buffer |-> buffer] :
     s \in Splits, tp \in {1, 2}, buffer \in {1, 40, 1000}}
    \cup {s @@ [tp |-> 2, arch |-> "llama", tied |-> FALSE, buffer |-> 60] : s \in Splits}
=============================================================================
