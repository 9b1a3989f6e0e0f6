--------------------------- MODULE MegatronExport ---------------------------
(***************************************************************************)
(* A refit of a colocated engine from Megatron workers: prepare_weights_-  *)
(* for_ipc and get_weights_ipc_handles (models/policy/megatron_policy_-    *)
(* worker.py), gather_params (models/megatron/refit_utils.py) and the      *)
(* conversion to Hugging Face names (models/megatron/converters), driven   *)
(* by refit_policy_generation through Policy (models/policy/lm_policy.py). *)
(*                                                                         *)
(* A worker <<p, t>> holds the layers of pipeline stage p, numbered from   *)
(* 0, and part t of every tensor that is parallel.  A parameter is the     *)
(* sequence of its rows (columns where it is cut by columns), each named   *)
(* by the projection, the true layer of the model and the place it belongs *)
(* to, so that a wrong number, order or cut shows.  Workers meet in        *)
(* collectives: one runs when all members of its group stand before one    *)
(* on that group, as in NCCL; whether they mean the same is a property.    *)
(***************************************************************************)
EXTENDS Integers, Sequences, SequencesExt, FiniteSets

CONSTANT Models     \* records [arch, layers, pp, tp, first, last, tied, buffer]; 0 for None

VARIABLES
  model,
  pc,        \* the driver: "prepare", "handles", "done"
  infos,     \* worker -> merged parameter info
  groups,    \* grouped_param_keys
  g,         \* the group under way
  at,        \* worker -> collectives left behind in the current call
  full,      \* worker -> the parameter gathered over its tensor-parallel group
  names,     \* worker -> global keys gathered over its pipeline group
  gathered,  \* worker -> gathered_params of the current call
  loaded     \* worker -> what its engine was given: sequence of <<HF key, rows>>

vars == <<model, pc, infos, groups, g, at, full, names, gathered, loaded>>

Stages  == 0..(model.pp - 1)
Tps     == 0..(model.tp - 1)
Workers == Stages \X Tps
TpGroup(w) == {w[1]} \X Tps
PpGroup(w) == Stages \X {w[2]}
RankWorker == <<0, 0>>                        \* worker_group.workers[0]

-----------------------------------------------------------------------------
(* Megatron (external): which layers a stage has, and the parameters.      *)

Even == model.first = 0 /\ model.last = 0
StageLayers(p) ==
  LET given == {s \in Stages : (s = 0 /\ model.first # 0) \/ (s = model.pp - 1 /\ model.last # 0)}
      rest  == model.layers - (IF 0 \in given THEN model.first ELSE 0)
                            - (IF model.pp - 1 \in given THEN model.last ELSE 0)
  IN IF p \notin given THEN rest \div (model.pp - Cardinality(given))
     ELSE IF p = 0 THEN model.first ELSE model.last
Layer(p, l) == l + FoldLeft(+, 0, [s \in 1..p |-> StageLayers(s - 1)])

\* A key is <<kind, local layer>>, of layer -1 outside the layers; one order
\* of the names does for the state_dict and for sorted().
LayerKinds == {"qkv", "proj", "ln1", "ln2", "fc1", "fc2"} \cup (IF model.arch = "qwen2" THEN {"qkvb"} ELSE {})
Holds(p, kind, l) ==
  CASE kind = "embed" -> p = 0 /\ l = -1
    [] kind = "norm" -> p = model.pp - 1 /\ l = -1
    [] kind = "out"  -> p = model.pp - 1 /\ l = -1 /\ ~(model.tied /\ model.pp = 1)  \* shares the embedding's
    [] OTHER -> kind \in LayerKinds /\ l \in 0..(StageLayers(p) - 1)
AllKinds == <<"embed", "ln1", "qkv", "qkvb", "proj", "ln2", "fc1", "fc2", "norm", "out">>
Place(k) == CHOOSE n \in DOMAIN AllKinds : AllKinds[n] = k[1]
KindsAt(p, l) == SelectSeq(AllKinds, LAMBDA kind : Holds(p, kind, l))
KeyBefore(a, b) == a[2] < b[2] \/ (a[2] = b[2] /\ Place(a) < Place(b))

Groups == 2
HeadsPerGroup == 2
Ffn == 4
Vocab == 3
PaddedVocab == 4
Named(what, layer, from, n) == [j \in 1..n |-> <<what, layer, from + j - 1>>]
Part(what, layer, n, t) == Named(what, layer, t * (n \div model.tp), n \div model.tp)

\* The rows of the query groups of part t, interleaved.
Interleaved(q, k, v, layer, t) ==
  FlattenSeq([j \in 1..(Groups \div model.tp) |->
     LET grp == t * (Groups \div model.tp) + j - 1
     IN Named(q, layer, grp * HeadsPerGroup, HeadsPerGroup) \o <<<<k, layer, grp>>, <<v, layer, grp>>>>])

\* state_dict[key] on part t
Local(kind, layer, t) ==
  CASE kind = "qkv"   -> Interleaved("q", "k", "v", layer, t)
    [] kind = "qkvb"  -> Interleaved("qb", "kb", "vb", layer, t)
    [] kind = "fc1"   -> Part("gate", layer, Ffn, t) \o Part("up", layer, Ffn, t)
    [] kind = "proj"  -> Part("o", layer, Ffn, t)
    [] kind = "fc2"   -> Part("down", layer, Ffn, t)
    [] kind = "embed" -> Part("embed_tokens", -1, PaddedVocab, t)
    [] kind = "out"   -> Part("lm_head", -1, PaddedVocab, t)
    [] kind = "ln1"   -> Named("input_layernorm", layer, 0, 1)
    [] kind = "ln2"   -> Named("post_attention_layernorm", layer, 0, 1)
    [] kind = "norm"  -> Named("norm", -1, 0, 1)

\* get_tp_dim is not None
Sharded(kind) == kind \notin {"ln1", "ln2", "norm"}
Param(w, key) == Local(key[1], IF key[2] = -1 THEN -1 ELSE Layer(w[1], key[2]), w[2])
Has(w, key) == Holds(w[1], key[1], key[2])

-----------------------------------------------------------------------------
(* converters/common.py.                                                   *)

\* faulty: the middle stages counted from the first
OffsetCounted(p) ==
  IF p = 0 THEN 0 ELSE IF p = model.pp - 1 THEN model.layers - StageLayers(p)
  ELSE StageLayers(0) + p * StageLayers(p)
\* get_global_layer_num: the layers before stage p, from the configuration.
Offset(p) ==
  LET first == IF Even THEN model.layers \div model.pp
               ELSE IF model.first = 0 THEN (model.layers - model.last) \div (model.pp - 1) ELSE model.first
      last  == IF Even THEN first
               ELSE IF model.last = 0 THEN (model.layers - model.first) \div (model.pp - 1) ELSE model.last
  IN IF p = 0 THEN 0
     ELSE IF p = model.pp - 1 THEN model.layers - last
     ELSE first + (p - 1) * ((model.layers - first - last) \div (model.pp - 2))

\* get_global_key_from_local_key
GlobalKey(p, key) == IF key[2] = -1 THEN key ELSE <<key[1], Offset(p) + key[2]>>

\* The export mapping and transforms of the architecture: HF names by kind.
HfNames(kind) ==
  CASE kind = "qkv"  -> <<"q", "k", "v">>
    [] kind = "qkvb" -> <<"qb", "kb", "vb">>
    [] kind = "fc1"  -> <<"gate", "up">>
    [] kind = "proj" -> <<"o">>
    [] kind = "fc2"  -> <<"down">>
    [] kind = "ln1"  -> <<"input_layernorm">>
    [] kind = "ln2"  -> <<"post_attention_layernorm">>
    [] kind = "norm" -> <<"norm">>
    [] kind = "embed" -> <<"embed_tokens">>
    [] kind = "out"  -> IF model.tied THEN << >> ELSE <<"lm_head">>

\* megatron_keys_to_hf_keys, for the keys of all stages.
HfKeys(key) == {<<h, key[2]>> : h \in Range(HfNames(key[1]))}

\* split_fc1_tp: (t c d) -> c (t d)
SplitFc1(rows) ==
  LET d == Len(rows) \div (2 * model.tp)
      half(c) == FlattenSeq([t \in 1..model.tp |->
                    SubSeq(rows, ((t - 1) * 2 + c) * d + 1, ((t - 1) * 2 + c + 1) * d)])
  IN [gate |-> half(0), up |-> half(1)]

\* split_qkv_gpu, split_qkv_bias_gpu, by their slices
SplitQkv(rows) ==
  LET width == HeadsPerGroup + 2
      every(from) == [n \in 1..Groups |-> rows[from + (n - 1) * width]]
  IN [q |-> FlattenSeq([n \in 1..Groups |-> SubSeq(rows, (n - 1) * width + 1, (n - 1) * width + HeadsPerGroup)]),
      k |-> every(HeadsPerGroup + 1), v |-> every(HeadsPerGroup + 2)]

\* What a transform makes of a source for one HF name; plain mappings copy.
Transformed(kind, h, rows) ==
  CASE kind = "fc1"  -> SplitFc1(rows)[h]
    [] kind = "qkv"  -> SplitQkv(rows)[h]
    [] kind = "qkvb" -> SplitQkv(rows)[CASE h = "qb" -> "q" [] h = "kb" -> "k" [] h = "vb" -> "v"]
    [] kind \in {"embed", "out"} -> SubSeq(rows, 1, Vocab)         \* prune_padding
    [] OTHER -> rows

InOrder(S) == SelectSeq([n \in 1..(model.layers + 1) |-> n - 2], LAMBDA n : n \in S)
\* convert: an expression with a wildcard pairs the layers it finds among the
\* sources, in order, with those it finds among the targets of these sources.
Converted(state) ==
  LET targets == UNION {HfKeys(k) : k \in DOMAIN state}
      layers(kind) == InOrder({k[2] : k \in {x \in DOMAIN state : x[1] = kind}})
      placed(h) == InOrder({x[2] : x \in {y \in targets : y[1] = h}})
      made(kind, h) == [n \in DOMAIN layers(kind) |->
                          <<<<h, placed(h)[n]>>, Transformed(kind, h, state[<<kind, layers(kind)[n]>>])>>]
      of(kind) == FlattenSeq([n \in DOMAIN HfNames(kind) |-> made(kind, HfNames(kind)[n])])
  IN FlattenSeq([n \in DOMAIN AllKinds |->
        IF layers(AllKinds[n]) = << >> THEN << >> ELSE of(AllKinds[n])])

-----------------------------------------------------------------------------
(* The collectives of a worker in the current call, in program order.      *)

Op(comm, what, key) == [comm |-> comm, what |-> what, key |-> key]
NoKey == <<"infos", -1>>

\* "params that may not be on every rank" take part with an empty tensor.
PpOps(w, key) == <<Op(PpGroup(w), "keys", key), Op(PpGroup(w), "params", key)>>
OpsOf(w, key) ==
  (IF Has(w, key) /\ Sharded(key[1]) THEN <<Op(TpGroup(w), "slices", key)>> ELSE << >>) \o PpOps(w, key)

\* for ... in sorted(keys)
GatherProgram(w) ==
  LET keys == SortSeq(groups[g], KeyBefore)
  IN FlattenSeq([n \in DOMAIN keys |-> OpsOf(w, keys[n])])
Program(w) == IF pc = "prepare" THEN <<Op(PpGroup(w), "infos", NoKey)>>
              ELSE IF pc = "handles" THEN GatherProgram(w) ELSE << >>
Finished(w) == at[w] = Len(Program(w))
Now(w) == Program(w)[at[w] + 1]

Init ==
  /\ model \in Models
  /\ pc = "prepare"
  /\ infos = [w \in Workers |-> << >>] /\ groups = << >> /\ g = 0
  /\ at = [w \in Workers |-> 0]
  /\ full = [w \in Workers |-> << >>] /\ names = [w \in Workers |-> << >>]
  /\ gathered = [w \in Workers |-> << >>]
  /\ loaded = [w \in Workers |-> << >>]

\* The workers of w's groups, by rank.
TpRanks(w) == [t \in 1..model.tp |-> <<w[1], t - 1>>]
PpRanks(w) == [p \in 1..model.pp |-> <<p - 1, w[2]>>]

\* The parameters of a stage, state_dict order; then of all stages, each
\* (name, shape, dtype) once.  Local names of layers recur in every stage.
ParamInfo(w) ==
  FlattenSeq([n \in 1..(StageLayers(w[1]) + 1) |->
     [k \in DOMAIN KindsAt(w[1], n - 2) |-> <<KindsAt(w[1], n - 2)[k], n - 2>>]])
Merged(w) == FoldLeft(LAMBDA s, k : IF Contains(s, k) THEN s ELSE Append(s, k), << >>,
                      FlattenSeq([p \in 1..model.pp |-> ParamInfo(PpRanks(w)[p])]))

None == <<"none", -1>>
MyGlobalKey(w) == LET k == Now(w).key IN IF Has(w, k) THEN GlobalKey(w[1], k) ELSE None
\* full_param: gathered, the only copy, or an empty tensor
FullParam(w) == LET k == Now(w).key
                IN IF ~Has(w, k) THEN << >> ELSE IF Sharded(k[1]) THEN full[w] ELSE Param(w, k)
MySlice(w) == Param(w, Now(w).key)
WithParams(w) ==
  LET ps == [p \in 1..model.pp |-> FullParam(PpRanks(w)[p])]
  IN FoldLeft(LAMBDA f, p : IF names[w][p] = None THEN f ELSE (names[w][p] :> ps[p]) @@ f,
              gathered[w], [p \in 1..model.pp |-> p])

Meet(c) ==
  /\ \A w \in c : ~Finished(w) /\ Now(w).comm = c
  /\ at' = [w \in Workers |-> IF w \in c THEN at[w] + 1 ELSE at[w]]
  /\ LET here(what) == \A w \in c : Now(w).what = what
         set(f, v(_)) == [w \in Workers |-> IF w \in c THEN v(w) ELSE f[w]]
         slices(w) == FlattenSeq([t \in 1..model.tp |-> MySlice(TpRanks(w)[t])])
         keys(w) == [p \in 1..model.pp |-> MyGlobalKey(PpRanks(w)[p])]
     IN /\ infos' = IF here("infos") THEN set(infos, Merged) ELSE infos
        /\ full' = IF here("slices") THEN set(full, slices) ELSE full
        /\ names' = IF here("keys") THEN set(names, keys) ELSE names
        /\ gathered' = IF here("params") THEN set(gathered, WithParams) ELSE gathered
  /\ UNCHANGED <<model, pc, groups, g, loaded>>

Communicators == {TpGroup(w) : w \in Workers} \cup {PpGroup(w) : w \in Workers}

-----------------------------------------------------------------------------
(* The driver.                                                             *)

\* Bytes of the shard times both group sizes.
Size(key) == Len(Local(key[1], 0, 0)) * (IF Sharded(key[1]) THEN model.tp ELSE 1) * model.pp

\* Policy.prepare_weights_for_ipc: the first worker's list, cut where the
\* buffer is full; a tensor larger than the buffer goes by itself.
Grouped(keys) ==
  LET add(acc, k) ==
        IF Size(k) > acc.room /\ acc.keys # << >>
        THEN [done |-> Append(acc.done, acc.keys), keys |-> <<k>>, room |-> model.buffer - Size(k)]
        ELSE [acc EXCEPT !.keys = Append(@, k),
                         !.room = (IF Size(k) > @ THEN model.buffer ELSE @) - Size(k)]
      end == FoldLeft(add, [done |-> << >>, keys |-> << >>, room |-> model.buffer], keys)
  IN IF end.keys = << >> THEN end.done ELSE Append(end.done, end.keys)

Group ==
  /\ pc = "prepare" /\ \A w \in Workers : Finished(w)
  /\ groups' = Grouped(infos[RankWorker])
  /\ g' = 1 /\ pc' = "handles"
  /\ at' = [w \in Workers |-> 0]
  /\ UNCHANGED <<model, infos, full, names, gathered, loaded>>

\* get_weights_ipc_handles of all workers, then update_weights: each engine
\* rank loads what the trainer on its GPU converted.
Update ==
  /\ pc = "handles" /\ \A w \in Workers : Finished(w)
  /\ loaded' = [w \in Workers |-> loaded[w] \o Converted(gathered[w])]
  /\ gathered' = [w \in Workers |-> << >>]
  /\ at' = [w \in Workers |-> 0]
  /\ IF g < Len(groups) THEN g' = g + 1 /\ pc' = pc ELSE g' = g /\ pc' = "done"
  /\ UNCHANGED <<model, infos, groups, full, names>>

Done == pc = "done" /\ UNCHANGED vars

Next == \/ Group \/ Update \/ Done
        \/ \E c \in Communicators : Meet(c)
Spec == Init /\ [][Next]_vars

-----------------------------------------------------------------------------
(* Properties.                                                             *)

\* The whole matrices of the trained model, by HF name and layer.
Whole(h, layer) ==
  CASE h \in {"q", "qb"} -> Named(h, layer, 0, Groups * HeadsPerGroup)
    [] h \in {"k", "kb", "v", "vb"} -> Named(h, layer, 0, Groups)
    [] h \in {"gate", "up", "o", "down"} -> Named(h, layer, 0, Ffn)
    [] h \in {"embed_tokens", "lm_head"} -> Named(h, -1, 0, Vocab)
    [] OTHER -> Named(h, layer, 0, 1)
HfModel ==
  {<<<<h, l>>, Whole(h, l)>> : h \in UNION {Range(HfNames(k)) : k \in LayerKinds}, l \in 0..(model.layers - 1)}
    \cup {<<<<h, -1>>, Whole(h, -1)>> : h \in UNION {Range(HfNames(k)) : k \in {"embed", "norm", "out"}}}

\* The members of a collective all mean the same one and the same parameter.
GathersMatch ==
  \A c \in Communicators :
    (\A w \in c : ~Finished(w) /\ Now(w).comm = c) =>
      \A v, w \in c : Now(v).what = Now(w).what /\ Now(v).key = Now(w).key

\* Gathers always match, though a stage may have fewer layers than another or
\* no embedding and the two kinds of groups cross (refit_utils.py:92-137), and
\* as nothing deadlocks none waits for ever; when the refit ends, every engine
\* rank was given every parameter of the Hugging Face model, exactly once,
\* under its name and global layer, with all rows in order, whatever the
\* groups of parameters, the uneven stages and the tensor parallel cut
\* (converters/common.py:46-171, 386-436, lm_policy.py:441-459).
ExportedWhole ==
  /\ GathersMatch
  /\ pc = "done" => \A w \in Workers : /\ Range(loaded[w]) = HfModel
                                       /\ Len(loaded[w]) = Cardinality(HfModel)
=============================================================================
