---------------------------- MODULE WeightLoader ----------------------------
(***************************************************************************)
(* Loading a checkpoint on every tensor-parallel rank: each tensor is cut  *)
(* to the rank's shard, projections are merged, experts are packed, and    *)
(* the result must fit the parameters the model was built with.            *)
(*                                                                         *)
(* A tensor is known by the layer, the expert (None outside experts, Every *)
(* for a packed parameter) and the projection of its name.  Its value is   *)
(* the sequence of the rows (of the columns, for o and down) the code      *)
(* cuts: <<tensor, index>>.  A parameter is a sequence of such values, one *)
(* per expert when packed.  Shapes are those of the configuration; names   *)
(* are those of unfused checkpoints, "bias" being one no layer knows.      *)
(*                                                                         *)
(* The ranks share nothing while they load, so the model lets them load    *)
(* one after the other; each reads the tensors in any order (the files     *)
(* come from glob, the names from each file).                              *)
(***************************************************************************)
EXTENDS Integers, Sequences, FiniteSets, SequencesExt

CONSTANTS
  Models,   \* model configurations, with the checkpoint each is loaded from
  None,     \* no expert, no layer
  Every     \* all experts: the parameter that packs them

ASSUME MarksAssumption == None \notin Nat /\ Every \notin Nat /\ None # Every

Tensors ==
  [layer : Nat \cup {None}, expert : Nat \cup {None},
   name : {"q", "k", "v", "o", "norm", "gate", "up", "down", "router", "embed", "head",
           "vision", "bias"}]

ASSUME ModelsAssumption ==
  \A m \in Models :
    /\ {m.n, m.heads, m.kvHeads, m.headDim, m.inter, m.vocab} \subseteq Nat \ {0}
    /\ m.layers \in Nat /\ m.experts \in Nat /\ m.tied \in BOOLEAN
    /\ m.checkpoint \subseteq Tensors

VARIABLES
  model,     \* the configuration and checkpoint of this start
  rank,      \* the rank that is loading
  todo,      \* tensors of the checkpoint it has not read
  mergeBuf,  \* merge_buf: slots of incomplete merge groups
  expertBuf, \* expert_buf: experts of incomplete stacks
  state,     \* the state dict load_weight has yielded
  params,    \* the parameters of the ranks that have loaded
  failed     \* some rank raised

vars == <<model, rank, todo, mergeBuf, expertBuf, state, params, failed>>

Rank == 0 .. model.n - 1

(***************************************************************************)
(* The model's layers                                                      *)
(***************************************************************************)
DivCeil(a, b) == (a + b - 1) \div b

\* div_even asserts; Even says that it does not.
Even(a, b) == a % b = 0
EvenOrReplicated(a, b) == IF b > a THEN Even(b, a) ELSE Even(a, b)
DivReplicated(a, b) == IF b > a THEN 1 ELSE a \div b

LocalQ == model.heads \div model.n
LocalKV == DivReplicated(model.kvHeads, model.n)

T(layer, expert, name) == [layer |-> layer, expert |-> expert, name |-> name]

Layers == 0 .. model.layers - 1
Experts == IF model.experts = 0 THEN {None} ELSE 0 .. model.experts - 1

\* The names a complete checkpoint of this architecture has.
AttentionTensors(l) == {T(l, None, x) : x \in {"q", "k", "v", "o", "norm"}}
MLPTensors(l) ==
  {T(l, e, x) : e \in Experts, x \in {"gate", "up", "down"}}
    \cup (IF model.experts = 0 THEN {} ELSE {T(l, None, "router")})
Outer == {T(None, None, "embed"), T(None, None, "norm")}
LMHead == T(None, None, "head")
Needed ==
  (UNION {AttentionTensors(l) \cup MLPTensors(l) : l \in Layers})
    \cup Outer \cup (IF model.tied THEN {} ELSE {LMHead})

Rows(t) ==
  CASE t.name \in {"q", "o"} -> model.heads * model.headDim
    [] t.name \in {"k", "v"} -> model.kvHeads * model.headDim
    [] t.name \in {"gate", "up", "down"} -> model.inter
    [] t.name \in {"embed", "head"} -> model.vocab
    [] OTHER -> 1

\* The sizes the layers allocate.
QKVSize == (LocalQ + 2 * LocalKV) * model.headDim
ColParallelSize == 2 * (model.inter \div model.n)
RowParallelSize == model.inter \div model.n
OProjSize == (model.heads * model.headDim) \div model.n
EmbeddingSize == DivCeil(model.vocab, model.n)

Size(p) ==
  CASE p.name = "qkv" -> QKVSize
    [] p.name = "o" -> OProjSize
    [] p.name = "gate_up" -> ColParallelSize
    [] p.name = "down" -> RowParallelSize
    [] p.name \in {"embed", "head"} -> EmbeddingSize
    [] OTHER -> 1

\* The parameters create_model builds, experts packed into one.
MLPParam(l, name) == T(l, IF model.experts = 0 THEN None ELSE Every, name)
ModelParams ==
  {T(l, None, x) : l \in Layers, x \in {"qkv", "o", "norm"}}
    \cup {MLPParam(l, x) : l \in Layers, x \in {"gate_up", "down"}}
    \cup (IF model.experts = 0 THEN {} ELSE {T(l, None, "router") : l \in Layers})
    \cup Outer
    \cup (IF model.tied THEN {} ELSE {LMHead})

\* The divisions the layers assert when they are built.
Buildable ==
  /\ Even(model.heads, model.n)
  /\ EvenOrReplicated(model.kvHeads, model.n)
  /\ Even(model.inter, model.n)
  /\ Even(model.heads, model.kvHeads)

(***************************************************************************)
(* Sharding                                                                *)
(***************************************************************************)
Slice(t, from, to) == [i \in 1 .. to - from |-> <<t, from + i - 1>>]

\* torch.chunk(n)[r], for a size the layers have asserted to divide by n.
Chunk(t, r) ==
  LET size == Rows(t) \div model.n IN Slice(t, r * size, (r + 1) * size)

KVHeadRoundRobin(r) == r % model.kvHeads  \* mutant: heads dealt out in turn

KVHead(r) == (r * model.kvHeads) \div model.n

VocabShard(t, r) ==
  LET part == DivCeil(Rows(t), model.n)
      to == IF (r + 1) * part < Rows(t) THEN (r + 1) * part ELSE Rows(t)
  IN Slice(t, r * part, to)

KVShard(t, r) ==
  LET dim == Rows(t) \div model.kvHeads
  IN IF model.kvHeads < model.n THEN Slice(t, KVHead(r) * dim, (KVHead(r) + 1) * dim)
                                ELSE Chunk(t, r)

ShardTensor(t, r) ==
  CASE t.name \in {"k", "v"} -> KVShard(t, r)
    [] t.name \in {"q", "gate", "up", "o", "down"} -> Chunk(t, r)
    [] t.name \in {"embed", "head"} -> VocabShard(t, r)
    [] OTHER -> Slice(t, 0, Rows(t))

(***************************************************************************)
(* Merging and packing                                                     *)
(***************************************************************************)
Slots(name) ==
  CASE name \in {"q", "k", "v"} -> <<"q", "k", "v">>
    [] name \in {"gate", "up"} -> <<"gate", "up">>
    [] OTHER -> << >>

MergedName(name) ==
  CASE name \in {"q", "k", "v"} -> "qkv"
    [] name \in {"gate", "up"} -> "gate_up"
    [] OTHER -> name

MergedKey(t) == [t EXCEPT !.name = MergedName(t.name)]
PackedKey(t) == [t EXCEPT !.expert = Every]

\* What is held of the group of t once t has been read.
Group(t) ==
  {h \in mergeBuf : h.key = MergedKey(t)}
    \cup {[key |-> MergedKey(t), slot |-> t.name, rows |-> ShardTensor(t, rank)]}

Concat(group, slots) ==
  FlattenSeq([i \in 1 .. Len(slots) |-> (CHOOSE h \in group : h.slot = slots[i]).rows])

\* A finished tensor is yielded, or held until its stack of experts is whole.
\* As many experts with other numbers than the model's are a KeyError.
Yield(key, rows) ==
  /\ key.expert = None \/ model.experts = 0
  /\ state' = state \cup {[key |-> key, value |-> <<rows>>]}
  /\ UNCHANGED <<expertBuf, failed>>

Pack(key, rows) ==
  /\ key.expert # None /\ model.experts # 0
  /\ LET stack == {x \in expertBuf : x.key = PackedKey(key)}
                    \cup {[key |-> PackedKey(key), idx |-> key.expert, rows |-> rows]}
         whole == Cardinality(stack) = model.experts
         known == Experts \subseteq {x.idx : x \in stack}
     IN /\ expertBuf' = IF whole /\ known THEN expertBuf \ stack ELSE expertBuf \cup stack
        /\ state' = IF whole /\ known
                      THEN state \cup {[key |-> PackedKey(key),
                                        value |-> [i \in 1 .. model.experts |->
                                          (CHOOSE x \in stack : x.idx = i - 1).rows]]}
                      ELSE state
        /\ failed' = (whole /\ ~known)

Emit(key, rows) == Yield(key, rows) \/ Pack(key, rows)

(***************************************************************************)
(* Steps                                                                   *)
(***************************************************************************)
Init ==
  /\ model \in Models
  /\ rank = 0
  /\ todo = model.checkpoint
  /\ mergeBuf = {} /\ expertBuf = {} /\ state = {}
  /\ params = << >>
  /\ failed = ~Buildable

SkipVision(t) ==
  /\ t.name = "vision"
  /\ UNCHANGED <<mergeBuf, expertBuf, state, failed>>

ReadPlain(t) ==
  /\ t.name # "vision" /\ Slots(t.name) = << >>
  /\ Emit(t, ShardTensor(t, rank))
  /\ UNCHANGED mergeBuf

ReadSlot(t) ==
  /\ Slots(t.name) # << >>
  /\ LET group == Group(t)
     IN IF {h.slot : h \in group} # ToSet(Slots(t.name))
          THEN mergeBuf' = mergeBuf \cup group /\ UNCHANGED <<expertBuf, state, failed>>
          ELSE /\ mergeBuf' = mergeBuf \ group
               /\ Emit(MergedKey(t), Concat(group, Slots(t.name)))

Read(t) ==
  /\ ~failed
  /\ t \in todo
  /\ todo' = todo \ {t}
  /\ SkipVision(t) \/ ReadPlain(t) \/ ReadSlot(t)
  /\ UNCHANGED <<model, rank, params>>

\* load_state_dict: every parameter is in the state dict with its shape, and
\* nothing is left over but the head of a tied model.
Copies(p) == IF p.expert = Every THEN model.experts ELSE 1

FitsWithRest ==  \* mutant: does not look at what is left over
  /\ mergeBuf = {} /\ expertBuf = {}
  /\ \A p \in ModelParams : \E x \in state :
       x.key = p /\ Len(x.value) = Copies(p) /\ \A i \in 1 .. Copies(p) : Len(x.value[i]) = Size(p)

Fits ==
  /\ mergeBuf = {} /\ expertBuf = {}
  /\ \A p \in ModelParams : \E x \in state :
       /\ x.key = p
       /\ Len(x.value) = Copies(p)
       /\ \A i \in 1 .. Copies(p) : Len(x.value[i]) = Size(p)
  /\ {x.key : x \in state} \ ModelParams \subseteq (IF model.tied THEN {LMHead} ELSE {})

LoadStateDict ==
  /\ ~failed
  /\ todo = {} /\ rank \in Rank
  /\ IF Fits
       THEN /\ params' = Append(params, [p \in ModelParams |->
                                  (CHOOSE x \in state : x.key = p).value])
            /\ rank' = rank + 1
            /\ todo' = IF rank + 1 \in Rank THEN model.checkpoint ELSE {}
            /\ state' = {}
            /\ UNCHANGED failed
       ELSE failed' = TRUE /\ UNCHANGED <<params, rank, todo, state>>
  /\ UNCHANGED <<model, mergeBuf, expertBuf>>

Next == LoadStateDict \/ \E t \in todo : Read(t)

Spec == Init /\ [][Next]_vars

(***************************************************************************)
(* What the layers do with their shards                                    *)
(***************************************************************************)
Param(r, key) == params[r + 1][key]

\* AttentionLayer.forward: q, k and v are consecutive parts of qkv_proj, and
\* the attention backend pairs the local heads in groups.
QRow(r, l, i) == Param(r, T(l, None, "qkv"))[1][i]
KRow(r, l, i) == Param(r, T(l, None, "qkv"))[1][LocalQ * model.headDim + i]
VRow(r, l, i) == Param(r, T(l, None, "qkv"))[1][(LocalQ + LocalKV) * model.headDim + i]
LocalKVOf(h) == h \div (LocalQ \div LocalKV)

\* VocabParallelEmbedding: the tokens a rank looks up in its own table.
VocabRange(r) ==
  LET start == EmbeddingSize * r
      finish == IF start + EmbeddingSize < model.vocab THEN start + EmbeddingSize
                ELSE model.vocab
  IN [start |-> start, length |-> finish - start]

LooksUp(r, tok) ==
  VocabRange(r).start <= tok /\ tok < VocabRange(r).start + VocabRange(r).length

HeadKey == IF model.tied THEN T(None, None, "embed") ELSE LMHead

\* ParallelLMHead: all_gather stacks the ranks' logits [bs, part] along the
\* first dimension; the permutation brings each request's parts together.
LogitShard(r, b, c) == <<b, Param(r, HeadKey)[1][c + 1]>>
Gathered(bs, row, c) == LogitShard(row \div bs, row % bs, c)
LogitUnpermuted(bs, b, tok) ==  \* mutant: reshaped without the permutation
  LET i == b * model.n * EmbeddingSize + tok
  IN Gathered(bs, i \div EmbeddingSize, i % EmbeddingSize)

Logit(bs, b, tok) ==
  Gathered(bs, (tok \div EmbeddingSize) * bs + b, tok % EmbeddingSize)

(***************************************************************************)
(* Properties                                                              *)
(***************************************************************************)
AllLoaded == Len(params) = model.n
Loaded == 0 .. Len(params) - 1

\* On every rank that has loaded, a query head meets the key and value head of
\* its own group, dimension by dimension, and the columns of o_proj are those
\* of its query rows, whether the KV heads are split or replicated.
HeadsMeet ==
  \A r \in Loaded, l \in Layers : \A h \in 0 .. LocalQ - 1, d \in 1 .. model.headDim :
    LET i == h * model.headDim + d
        kv == LocalKVOf(h) * model.headDim + d
        q == QRow(r, l, i)[2]
        own == ((q \div model.headDim) \div (model.heads \div model.kvHeads)) * model.headDim
                 + (q % model.headDim)
    IN /\ QRow(r, l, i) = <<T(l, None, "q"), q>>
       /\ KRow(r, l, kv) = <<T(l, None, "k"), own>>
       /\ VRow(r, l, kv) = <<T(l, None, "v"), own>>
       /\ Param(r, T(l, None, "o"))[1][i] = <<T(l, None, "o"), q>>

\* In every MLP and every expert of a rank, the j-th gate row, up row and down
\* column belong to one neuron, and the i-th packed expert is expert i.
NeuronsMeet ==
  \A r \in Loaded, l \in Layers : \A i \in 1 .. Copies(MLPParam(l, "down")) :
    LET e == IF model.experts = 0 THEN None ELSE i - 1
        half == RowParallelSize
        gateUp == Param(r, MLPParam(l, "gate_up"))[i]
        down == Param(r, MLPParam(l, "down"))[i]
    IN \A j \in 1 .. half :
         /\ gateUp[j] = <<T(l, e, "gate"), down[j][2]>>
         /\ gateUp[half + j] = <<T(l, e, "up"), down[j][2]>>
         /\ down[j][1] = T(l, e, "down")

\* Once all ranks have loaded, every query head's and every neuron's
\* contribution to the all-reduced sums comes from exactly one rank.
EachOnce ==
  AllLoaded =>
    \A l \in Layers : \A p \in {T(l, None, "o"), MLPParam(l, "down")} :
      \A i \in 1 .. Copies(p) :
        LET cols(r) == {c[2] : c \in ToSet(Param(r, p)[i])}
        IN /\ UNION {cols(r) : r \in Rank} = 0 .. Rows(p) - 1
           /\ \A r, s \in Rank : r # s => cols(r) \cap cols(s) = {}

\* Each rank holds its shards of attention and experts so that what is
\* multiplied belongs together, and all ranks together hold each shard once
\* (_shard_state_dict and load_weight against the layers that use them).
ShardsMeet == HeadsMeet /\ NeuronsMeet /\ EachOnce

\* A token is looked up on exactly one rank, in its own row of the table: the
\* range the layer computes and the slice the loader cuts agree.
TokensFound ==
  AllLoaded =>
    \A tok \in 0 .. model.vocab - 1 :
      \E r \in Rank :
        /\ {s \in Rank : LooksUp(s, tok)} = {r}
        /\ Param(r, T(None, None, "embed"))[1][tok - VocabRange(r).start + 1]
             = <<T(None, None, "embed"), tok>>

\* After the gather, column tok of request b is that request's logit of tok.
LogitsInPlace ==
  AllLoaded =>
    \A bs \in 1 .. 2 : \A b \in 0 .. bs - 1, tok \in 0 .. model.vocab - 1 :
      Logit(bs, b, tok) = <<b, <<HeadKey, tok>>>>

\* The vocabulary is cut, looked up and gathered alike: embeddings are found and
\* logits stand in their place (VocabParallelEmbedding, ParallelLMHead).
VocabularyInPlace == TokensFound /\ LogitsInPlace

\* A rank never loads from a checkpoint that lacks a tensor of the model or
\* has one the model has no place for.
LoadsWhole ==
  params # << >> =>
    /\ Needed \subseteq model.checkpoint
    /\ \A t \in model.checkpoint \ Needed : t.name = "vision" \/ (t = LMHead /\ model.tied)
=============================================================================
