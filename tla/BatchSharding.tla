--------------------------- MODULE BatchSharding ---------------------------
(***************************************************************************)
(* The list arithmetic of distributed/batched_data_dict.py: cutting a      *)
(* batch into shards, sorting it by length for dynamic batching, grouping  *)
(* a shard into microbatches and putting results back in order.  A batch   *)
(* is the sequence of its samples; every tensor of the dictionary is cut   *)
(* the same way.                                                           *)
(***************************************************************************)
EXTENDS Integers, Sequences, SequencesExt

CeilDiv(a, b) == (a + b - 1) \div b
Smaller(a, b) == IF a < b THEN a ELSE b
Larger(a, b) == IF a > b THEN a ELSE b

\* data[from:to], whose bounds Python clips at the end of the list.
Slice(data, from, to) == SubSeq(data, from + 1, Smaller(to, Len(data)))
GetBatch(data, i, size) == Slice(data, (i - 1) * size, i * size)

\* The assertions shard_by_batch_size makes of its sizes.
Shardable(n, shards, batchSize, uneven) ==
  /\ n % batchSize = 0
  /\ uneven \/ batchSize % shards = 0

ShardSize(batchSize, shards) == CeilDiv(batchSize, shards)

\* Shard k: its part of every chunk of batchSize samples, in turn.
Shard(data, k, shards, batchSize) ==
  LET size     == ShardSize(batchSize, shards)
      start(c) == (c - 1) * batchSize + (k - 1) * size
  IN FlattenSeq([c \in 1..(Len(data) \div batchSize) |->
                   Slice(data, start(c), start(c) + size)])

-----------------------------------------------------------------------------
(* Dynamic batching.                                                       *)

\* indices[k::shards], the strides one after the other.
Strided(s, shards) ==
  FlattenSeq([k \in 1..shards |->
    [j \in 1..CeilDiv(Len(s) - k + 1, shards) |-> s[k + (j - 1) * shards]]])

\* Python's stable sort of one chunk by length.
Before(len, chunk, x) == {y \in chunk : len[y] < len[x] \/ (len[y] = len[x] /\ y < x)}
Sorted(len, from, to) ==
  [i \in 1..(to - from + 1) |->
    CHOOSE x \in from..to : Cardinality(Before(len, from..to, x)) = i - 1]

\* Every chunk sorted, and dealt to the shards.
SortedIndices(len, shards, batchSize) ==
  FlattenSeq([c \in 1..(Len(len) \div batchSize) |->
    Strided(Sorted(len, (c - 1) * batchSize + 1, c * batchSize), shards)])

SelectIndices(data, indices) == [j \in DOMAIN indices |-> data[indices[j]]]

\* faulty: applies the permutation once more instead of inverting it
ReorderForward(data, indices) == SelectIndices(data, indices)
\* reorder_data: element j goes to the place indices[j] it came from.
Reorder(data, indices) ==
  [i \in DOMAIN data |-> data[CHOOSE j \in DOMAIN indices : indices[j] = i]]

\* The length one row of the shards is padded to: the longest of the shards'
\* samples in this row, rounded up, at most the width of the tensor.
RowLength(lens, round, width) == Smaller(CeilDiv(Max(lens), round) * round, width)

\* faulty: the tokens of the rows before this one
AddRowUncounted(mbs, row, length, budget) ==
  LET last    == mbs[Len(mbs)]
      longest == Larger(last.len, length)
  IN IF (last.to - last.from) * longest <= budget
     THEN [mbs EXCEPT ![Len(mbs)] = [from |-> last.from, to |-> last.to + 1, len |-> longest]]
     ELSE Append(mbs, [from |-> row - 1, to |-> row, len |-> length])
\* Microbatches [from, to, len] of one chunk of a shard: rows are added as
\* long as rows times longest row fit the token budget.  One grouping for
\* all shards.
AddRow(mbs, row, length, budget) ==
  LET last    == mbs[Len(mbs)]
      longest == Larger(last.len, length)
  IN IF (last.to - last.from + 1) * longest <= budget
     THEN [mbs EXCEPT ![Len(mbs)] = [from |-> last.from, to |-> last.to + 1, len |-> longest]]
     ELSE Append(mbs, [from |-> row - 1, to |-> row, len |-> length])

Grouped(rowLens, budget) ==
  LET upTo[row \in 0..Len(rowLens)] ==
        IF row = 0 THEN << [from |-> 0, to |-> 0, len |-> 0] >>
                   ELSE AddRow(upTo[row - 1], row, rowLens[row], budget)
  IN upTo[Len(rowLens)]

\* make_microbatch_iterator: equal cuts, each as wide as the tensors.
EvenCuts(n, size, width) ==
  [i \in 1..(n \div size) |-> [from |-> (i - 1) * size, to |-> i * size, len |-> width]]
=============================================================================
