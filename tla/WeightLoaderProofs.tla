------------------------- MODULE WeightLoaderProofs -------------------------
(***************************************************************************)
(* What the ranks hold once they have loaded, for any sizes, any number of *)
(* ranks and any order of the tensors.                                     *)
(*                                                                         *)
(* Value says what a parameter of a rank is, whatever was read first: the  *)
(* slices of its own tensors, put together.  The sections on numbers,      *)
(* slices and heads show that parameters with these values meet as the     *)
(* layers expect, and that all ranks together have each row once; with the *)
(* shapes the layers ask for, the vocabulary does too.                     *)
(*                                                                         *)
(* The inductive invariant, LoadInv, is about the way there: each buffer   *)
(* holds what the checkpoint says, of tensors it has, and nothing that was *)
(* read is lost, so that a state dict that fits is whole.                  *)
(***************************************************************************)
EXTENDS WeightLoader, FiniteSetTheorems, TLAPS

-----------------------------------------------------------------------------
(* Numbers.                                                                *)

Positive == Nat \ {0}

\* Factors keep the order.
LEMMA TimesFacts ==
  ASSUME NEW a \in Nat, NEW b \in Nat
  PROVE  a * b \in Nat /\ a * b = b * a
  OBVIOUS

LEMMA TimesOrder ==
  ASSUME NEW a \in Nat, NEW b \in Nat, NEW c \in Nat, a <= b
  PROVE  a * c <= b * c /\ (a + 1) * c = a * c + c
  <1>1. PICK d \in Nat : b = a + d
    <2>1. b - a \in Nat /\ b = a + (b - a)
      OBVIOUS
    <2> QED
      BY <2>1
  <1>2. b * c = a * c + d * c /\ a * c \in Nat /\ d * c \in Nat
    BY <1>1
  <1> QED
    BY <1>2

LEMMA DivFacts ==
  ASSUME NEW a \in Nat, NEW b \in Positive
  PROVE  /\ a \div b \in Nat /\ a % b \in Nat /\ a % b < b
         /\ a = (a \div b) * b + (a % b)
  <1>1. a \in Int /\ b \in Int /\ b > 0
    BY DEF Positive
  <1>2. a = b * (a \div b) + (a % b) /\ a % b \in 0 .. b - 1
    BY <1>1
  <1>3. a \div b \in Nat
    BY <1>1
  <1> QED
    BY <1>1, <1>2, <1>3

\* Quotient and remainder are the only ones.
LEMMA DivIs ==
  ASSUME NEW q \in Nat, NEW b \in Positive, NEW c \in Nat, c < b
  PROVE  (q * b + c) \div b = q /\ (q * b + c) % b = c
  <1> DEFINE a == q * b + c
             p == a \div b
             d == a % b
  <1>1. b \in Nat /\ q * b \in Nat /\ a \in Nat
    BY DEF Positive
  <1>2. p \in Nat /\ d \in Nat /\ d < b /\ a = p * b + d
    BY <1>1, DivFacts
  <1> HIDE DEF p, d
  <1>3. ~(p < q)
    <2> SUFFICES ASSUME p + 1 <= q PROVE FALSE
      BY <1>2
    <2>1. (p + 1) * b <= q * b /\ (p + 1) * b = p * b + b /\ p * b \in Nat
      BY <1>1, <1>2, TimesOrder
    <2> QED
      BY <1>1, <1>2, <2>1
  <1>4. ~(q < p)
    <2> SUFFICES ASSUME q + 1 <= p PROVE FALSE
      BY <1>2
    <2>1. (q + 1) * b <= p * b /\ (q + 1) * b = q * b + b /\ p * b \in Nat
      BY <1>1, <1>2, TimesOrder
    <2> QED
      BY <1>1, <1>2, <2>1
  <1>5. p = q
    BY <1>2, <1>3, <1>4
  <1>6. d = c
    BY <1>1, <1>2, <1>5
  <1> QED
    BY <1>5, <1>6 DEF p, d

\* Equal multiples of the same number are multiples by the same.
LEMMA Cancel ==
  ASSUME NEW a \in Nat, NEW b \in Nat, NEW c \in Positive, a * c = b * c
  PROVE  a = b
  <1>1. c \in Nat /\ c >= 1
    BY DEF Positive
  <1>2. ~(a < b)
    <2> SUFFICES ASSUME a + 1 <= b PROVE FALSE
      OBVIOUS
    <2>1. (a + 1) * c <= b * c /\ (a + 1) * c = a * c + c /\ a * c \in Nat
      BY <1>1, TimesOrder
    <2> QED
      BY <1>1, <2>1
  <1>3. ~(b < a)
    <2> SUFFICES ASSUME b + 1 <= a PROVE FALSE
      OBVIOUS
    <2>1. (b + 1) * c <= a * c /\ (b + 1) * c = b * c + c /\ b * c \in Nat
      BY <1>1, TimesOrder
    <2> QED
      BY <1>1, <2>1
  <1> QED
    BY <1>2, <1>3

\* A number that divides another evenly.
LEMMA EvenFacts ==
  ASSUME NEW a \in Positive, NEW b \in Positive, Even(a, b)
  PROVE  a \div b \in Positive /\ a = (a \div b) * b
  <1>1. a \in Nat /\ a # 0 /\ b \in Nat
    BY DEF Positive
  <1>2. a \div b \in Nat /\ a = (a \div b) * b + (a % b) /\ a % b = 0
    BY <1>1, DivFacts DEF Even
  <1>3. (a \div b) * b \in Nat
    BY <1>1, <1>2
  <1>4. a = (a \div b) * b
    BY <1>2, <1>3
  <1>5. a \div b # 0
    <2> SUFFICES ASSUME a \div b = 0 PROVE FALSE
      OBVIOUS
    <2>1. 0 * b = 0
      BY <1>1
    <2> QED
      BY <1>1, <1>4, <2>1
  <1> QED
    BY <1>2, <1>4, <1>5 DEF Positive

LEMMA TimesDiv ==
  ASSUME NEW q \in Nat, NEW b \in Positive
  PROVE  (q * b) \div b = q
  <1>1. (q * b + 0) \div b = q
    <2>1. 0 \in Nat /\ 0 < b
      BY DEF Positive
    <2> QED
      BY <2>1, DivIs
  <1>2. q * b + 0 = q * b
    BY DEF Positive
  <1> QED
    BY <1>1, <1>2

\* Heads dealt out evenly: a rank's query heads fill its KV heads' groups.
LEMMA SplitGroups ==
  ASSUME NEW q \in Positive, NEW n \in Positive, NEW k \in Positive, NEW g \in Positive,
         q * n = g * (k * n), NEW r \in Nat, NEW h \in Nat, h < q
  PROVE  /\ q \div k = g /\ h \div g \in Nat /\ h \div g < k
         /\ (r * q + h) \div g = r * k + h \div g
  <1>1. q \in Nat /\ n \in Nat /\ k \in Nat /\ g \in Nat /\ g * k \in Nat
    BY DEF Positive
  <1>2. q = g * k
    <2>1. g * (k * n) = (g * k) * n
      BY <1>1
    <2> QED
      BY <1>1, <2>1, Cancel
  <1>3. q \div k = g
    BY <1>1, <1>2, TimesDiv
  <1> DEFINE j == h \div g
             d == h % g
  <1>4. j \in Nat /\ d \in Nat /\ d < g /\ h = j * g + d
    BY DivFacts
  <1> HIDE DEF j, d
  <1>5. j < k
    <2> SUFFICES ASSUME k <= j PROVE FALSE
      BY <1>1, <1>4
    <2>1. k * g <= j * g /\ k * g = g * k /\ j * g \in Nat
      BY <1>1, <1>4, TimesOrder, TimesFacts
    <2> QED
      BY <1>1, <1>2, <1>4, <2>1
  <1>6. r * q + h = (r * k + j) * g + d
    <2>1. (r * k + j) * g = r * (g * k) + j * g
      BY <1>1, <1>4
    <2>2. r * q \in Nat /\ j * g \in Nat
      BY <1>1, <1>4
    <2> QED
      BY <1>2, <1>4, <2>1, <2>2
  <1>7. r * k + j \in Nat
    BY <1>1, <1>4
  <1>8. (r * q + h) \div g = r * k + j
    BY <1>4, <1>6, <1>7, DivIs
  <1> QED
    BY <1>3, <1>4, <1>5, <1>8 DEF j

\* A KV head for several ranks: their query heads fill its group.
LEMMA SharedGroups ==
  ASSUME NEW q \in Positive, NEW m \in Positive, NEW k \in Positive, NEW g \in Positive,
         q * (m * k) = g * k, NEW r \in Nat, NEW h \in Nat, h < q
  PROVE  (r * q + h) \div g = r \div m /\ (r * k) \div (m * k) = r \div m
  <1>1. /\ q \in Nat /\ m \in Nat /\ k \in Nat /\ g \in Nat /\ q * m \in Nat
        /\ m * k \in Positive /\ q # 0 /\ k # 0 /\ m # 0
    BY DEF Positive
  <1>2. g = q * m
    <2>1. q * (m * k) = (q * m) * k
      BY <1>1
    <2> QED
      BY <1>1, <2>1, Cancel
  <1> DEFINE a == r \div m
             b == r % m
  <1>3. a \in Nat /\ b \in Nat /\ b < m /\ r = a * m + b
    BY DivFacts
  <1> HIDE DEF a, b
  <1>4. (b + 1) * q <= m * q /\ (b + 1) * q = b * q + q /\ b * q \in Nat /\ m * q = q * m
    BY <1>1, <1>3, TimesOrder, TimesFacts
  <1>5. b * q + h \in Nat /\ b * q + h < g
    BY <1>1, <1>2, <1>4
  <1>6. r * q + h = a * g + (b * q + h)
    <2>1. (a * m + b) * q = a * (q * m) + b * q
      BY <1>1, <1>3
    <2>2. a * (q * m) \in Nat
      BY <1>1, <1>3
    <2> QED
      BY <1>2, <1>3, <1>4, <2>1, <2>2
  <1>7. (r * q + h) \div g = a
    BY <1>3, <1>5, <1>6, DivIs
  <1>8. (b + 1) * k <= m * k /\ (b + 1) * k = b * k + k /\ b * k \in Nat
    BY <1>1, <1>3, TimesOrder, TimesFacts
  <1>9. b * k < m * k /\ m * k \in Nat
    BY <1>1, <1>8
  <1>10. r * k = a * (m * k) + b * k
    BY <1>1, <1>3
  <1>11. (r * k) \div (m * k) = a
    <2> DEFINE mk == m * k
               bk == b * k
    <2>1. mk \in Positive /\ bk \in Nat /\ bk < mk /\ r * k = a * mk + bk
      BY <1>1, <1>8, <1>9, <1>10
    <2> HIDE DEF mk, bk
    <2>2. (r * k) \div mk = a
      BY <1>3, <2>1, DivIs
    <2> QED
      BY <2>2 DEF mk
  <1> QED
    BY <1>7, <1>11 DEF a

-----------------------------------------------------------------------------
(* Sizes.                                                                  *)

LEMMA ModelFacts ==
  ASSUME model \in Models
  PROVE  /\ model.n \in Positive /\ model.heads \in Positive /\ model.kvHeads \in Positive
         /\ model.headDim \in Positive /\ model.inter \in Positive /\ model.vocab \in Positive
         /\ model.layers \in Nat /\ model.experts \in Nat /\ model.tied \in BOOLEAN
         /\ model.checkpoint \subseteq Tensors
  BY ModelsAssumption DEF Positive

\* What the asserted divisions give.
LEMMA Divisions ==
  ASSUME model \in Models, Buildable
  PROVE  /\ LocalQ \in Positive /\ model.heads = LocalQ * model.n
         /\ LocalKV \in Positive /\ RowParallelSize \in Positive
         /\ model.inter = RowParallelSize * model.n
         /\ model.heads \div model.kvHeads \in Positive
         /\ model.heads = (model.heads \div model.kvHeads) * model.kvHeads
         /\ model.kvHeads >= model.n => model.kvHeads = LocalKV * model.n
         /\ model.kvHeads < model.n =>
              /\ LocalKV = 1 /\ model.n \div model.kvHeads \in Positive
              /\ model.n = (model.n \div model.kvHeads) * model.kvHeads
  <1>1. model.n \in Positive /\ model.heads \in Positive /\ model.kvHeads \in Positive
        /\ model.inter \in Positive
    BY ModelFacts
  <1>2. LocalQ \in Positive /\ model.heads = LocalQ * model.n
    BY <1>1, EvenFacts DEF Buildable, LocalQ
  <1>3. RowParallelSize \in Positive /\ model.inter = RowParallelSize * model.n
    BY <1>1, EvenFacts DEF Buildable, RowParallelSize
  <1>4. /\ model.heads \div model.kvHeads \in Positive
        /\ model.heads = (model.heads \div model.kvHeads) * model.kvHeads
    BY <1>1, EvenFacts DEF Buildable
  <1>5. model.n \in Nat /\ model.kvHeads \in Nat
    BY <1>1 DEF Positive
  <1>6. CASE model.kvHeads >= model.n
    <2>1. ~(model.n > model.kvHeads) /\ ~(model.kvHeads < model.n)
      BY <1>5, <1>6
    <2>2. Even(model.kvHeads, model.n) /\ LocalKV = model.kvHeads \div model.n
      BY <2>1 DEF Buildable, EvenOrReplicated, LocalKV, DivReplicated
    <2>3. LocalKV \in Positive /\ model.kvHeads = LocalKV * model.n
      BY <1>1, <2>2, EvenFacts
    <2> QED
      BY <1>2, <1>3, <1>4, <2>1, <2>3
  <1>7. CASE model.kvHeads < model.n
    <2>1. model.n > model.kvHeads /\ ~(model.kvHeads >= model.n)
      BY <1>5, <1>7
    <2>2. Even(model.n, model.kvHeads) /\ LocalKV = 1
      BY <2>1 DEF Buildable, EvenOrReplicated, LocalKV, DivReplicated
    <2>3. /\ model.n \div model.kvHeads \in Positive
          /\ model.n = (model.n \div model.kvHeads) * model.kvHeads
      BY <1>1, <2>2, EvenFacts
    <2> QED
      BY <1>2, <1>3, <1>4, <2>1, <2>2, <2>3 DEF Positive
  <1> QED
    BY <1>5, <1>6, <1>7

\* The KV head a query head of a rank meets is that of its own group.
LEMMA OwnGroup ==
  ASSUME model \in Models, Buildable, NEW r \in Rank, NEW h \in 0 .. LocalQ - 1
  PROVE  /\ LocalKVOf(h) \in Nat /\ LocalKVOf(h) < LocalKV
         /\ (r * LocalQ + h) \div (model.heads \div model.kvHeads)
              = IF model.kvHeads < model.n THEN KVHead(r) ELSE r * LocalKV + LocalKVOf(h)
  <1> DEFINE q == LocalQ
             n == model.n
             k == LocalKV
             K == model.kvHeads
             g == model.heads \div model.kvHeads
             m == model.n \div model.kvHeads
  <1>1. q \in Positive /\ n \in Positive /\ k \in Positive /\ g \in Positive /\ K \in Positive
        /\ q * n = g * K
    BY Divisions, ModelFacts
  <1>2. (K >= n => K = k * n) /\ (K < n => k = 1 /\ m \in Positive /\ n = m * K)
    BY Divisions
  <1>3. K \in Nat /\ n \in Nat /\ q \in Nat /\ r \in Nat /\ h \in Nat /\ h < q
    BY <1>1 DEF Rank, Positive
  <1>4. LocalKVOf(h) = h \div (q \div k) /\ KVHead(r) = (r * K) \div n
    BY DEF LocalKVOf, KVHead
  <1> HIDE DEF q, n, k, K, g, m
  <1>5. CASE K >= n
    <2>1. ~(K < n) /\ q * n = g * (k * n)
      BY <1>1, <1>2, <1>3, <1>5
    <2>2. q \div k = g /\ h \div g \in Nat /\ h \div g < k /\ (r * q + h) \div g = r * k + h \div g
      <3>1. q \in Positive /\ n \in Positive /\ k \in Positive /\ g \in Positive
            /\ q * n = g * (k * n) /\ r \in Nat /\ h \in Nat /\ h < q
        BY <1>1, <1>3, <2>1
      <3> QED
        BY ONLY <3>1, SplitGroups
    <2> QED
      BY <1>4, <2>1, <2>2 DEF q, n, k, K, g
  <1>6. CASE K < n
    <2>1. k = 1 /\ m \in Positive /\ n = m * K /\ q * (m * K) = g * K
      BY <1>1, <1>2, <1>6
    <2>2. (r * q + h) \div g = r \div m /\ (r * K) \div (m * K) = r \div m
      <3>1. q \in Positive /\ m \in Positive /\ K \in Positive /\ g \in Positive
            /\ q * (m * K) = g * K /\ r \in Nat /\ h \in Nat /\ h < q
        BY <1>1, <1>3, <2>1
      <3> QED
        BY ONLY <3>1, SharedGroups
    <2>3. h \div (q \div k) = 0
      <3>1. q \div 1 = q
        <4>1. q * 1 = q /\ 1 \in Positive
          BY <1>3 DEF Positive
        <4> QED
          BY <1>3, <4>1, TimesDiv
      <3>2. 0 * q + h = h /\ 0 \in Nat
        BY <1>3
      <3>3. (0 * q + h) \div q = 0
        BY <1>1, <1>3, <3>2, DivIs
      <3> QED
        BY <2>1, <3>1, <3>2, <3>3
    <2>4. 0 \in Nat /\ 0 < 1
      OBVIOUS
    <2> QED
      BY <1>4, <1>6, <2>1, <2>2, <2>3, <2>4 DEF q, n, k, K, g
  <1> QED
    BY <1>3, <1>5, <1>6

-----------------------------------------------------------------------------
(* Shards.                                                                 *)

\* s is the rows of t from `from` on, `size` of them.
Entry == Tensors \X Int
Cut(s, t, from, size) ==
  s \in Seq(Entry) /\ Len(s) = size /\ \A i \in 1 .. size : s[i] = <<t, from + i - 1>>

LEMMA SliceCuts ==
  ASSUME NEW t \in Tensors, NEW a \in Nat, NEW b \in Nat, NEW c \in Nat, b = a + c
  PROVE  Cut(Slice(t, a, b), t, a, c)
  <1>1. Slice(t, a, b) = [i \in 1 .. c |-> <<t, a + i - 1>>]
    BY b - a = c DEF Slice
  <1>2. \A i \in 1 .. c : <<t, a + i - 1>> \in Entry
    BY DEF Entry
  <1> DEFINE f == [i \in 1 .. c |-> <<t, a + i - 1>>]
  <1>3. f \in [1 .. c -> Entry] /\ \A i \in 1 .. c : f[i] = <<t, a + i - 1>>
    BY <1>2
  <1> HIDE DEF f
  <1>4. f \in Seq(Entry) /\ Len(f) = c
    BY <1>3
  <1> QED
    BY <1>1, <1>3, <1>4 DEF Cut, f

\* An even chunk.
LEMMA ChunkCuts ==
  ASSUME model \in Models, NEW t \in Tensors, NEW c \in Nat, Rows(t) = c * model.n, NEW r \in Rank
  PROVE  Cut(Chunk(t, r), t, r * c, c)
  <1>1. model.n \in Positive /\ r \in Nat
    BY ModelFacts DEF Rank
  <1>2. Rows(t) \div model.n = c
    BY <1>1, TimesDiv
  <1>3. Chunk(t, r) = Slice(t, r * c, (r + 1) * c)
    BY <1>2 DEF Chunk
  <1>4. r * c \in Nat /\ (r + 1) * c = r * c + c /\ (r + 1) * c \in Nat
    BY <1>1, TimesOrder
  <1> QED
    BY <1>3, <1>4, SliceCuts

\* Where the KV heads of a rank begin.
KVStart(r) == IF model.kvHeads < model.n THEN KVHead(r) ELSE r * LocalKV

LEMMA KVStartFacts ==
  ASSUME model \in Models, Buildable, NEW r \in Rank
  PROVE  KVStart(r) \in Nat
  <1>1. model.n \in Positive /\ r \in Nat /\ model.kvHeads \in Nat /\ LocalKV \in Nat
    BY ModelFacts, Divisions DEF Rank, Positive
  <1>2. r * model.kvHeads \in Nat /\ r * LocalKV \in Nat
    BY <1>1
  <1>3. KVHead(r) \in Nat
    BY <1>1, <1>2, DivFacts DEF KVHead
  <1> QED
    BY <1>2, <1>3 DEF KVStart

\* What a rank cuts out of each tensor.
LEMMA ShardCuts ==
  ASSUME model \in Models, Buildable, NEW t \in Tensors, NEW r \in Rank
  PROVE  /\ t.name \in {"q", "o"} =>
              Cut(ShardTensor(t, r), t, r * (LocalQ * model.headDim), LocalQ * model.headDim)
         /\ t.name \in {"k", "v"} =>
              Cut(ShardTensor(t, r), t, KVStart(r) * model.headDim, LocalKV * model.headDim)
         /\ t.name \in {"gate", "up", "down"} =>
              Cut(ShardTensor(t, r), t, r * RowParallelSize, RowParallelSize)
  <1> DEFINE D == model.headDim
             n == model.n
             K == model.kvHeads
  <1>1. /\ LocalQ \in Nat /\ D \in Nat /\ n \in Positive /\ n \in Nat /\ K \in Positive /\ K \in Nat
        /\ LocalKV \in Nat /\ RowParallelSize \in Nat /\ r \in Nat
    BY ModelFacts, Divisions DEF Rank, Positive
  <1>2. ASSUME t.name \in {"q", "o"}
        PROVE  Cut(ShardTensor(t, r), t, r * (LocalQ * D), LocalQ * D)
    <2>1. ShardTensor(t, r) = Chunk(t, r) /\ Rows(t) = model.heads * D
      BY <1>2 DEF ShardTensor, Rows
    <2>2. model.heads = LocalQ * n
      BY Divisions
    <2> HIDE DEF D, n
    <2>3. (LocalQ * n) * D = (LocalQ * D) * n /\ LocalQ * D \in Nat
      BY <1>1
    <2>4. Rows(t) = (LocalQ * D) * n
      BY <2>1, <2>2, <2>3
    <2> QED
      BY <2>1, <2>3, <2>4, ChunkCuts DEF n
  <1>3. ASSUME t.name \in {"k", "v"}
        PROVE  Cut(ShardTensor(t, r), t, KVStart(r) * D, LocalKV * D)
    <2>1. ShardTensor(t, r) = KVShard(t, r) /\ Rows(t) = K * D
      BY <1>3 DEF ShardTensor, Rows
    <2>2. (K >= n => K = LocalKV * n) /\ (K < n => LocalKV = 1)
      BY Divisions
    <2>3. CASE K < n
      <3>1. Rows(t) \div K = D
        <4> HIDE DEF D, K
        <4>1. K * D = D * K
          BY <1>1
        <4> QED
          BY <1>1, <2>1, <4>1, TimesDiv
      <3>2. ShardTensor(t, r) = Slice(t, KVHead(r) * D, (KVHead(r) + 1) * D) /\ KVStart(r) = KVHead(r)
        BY <2>1, <2>3, <3>1 DEF KVShard, KVStart
      <3>3. KVHead(r) \in Nat
        BY <3>2, KVStartFacts
      <3>4. KVHead(r) * D \in Nat /\ (KVHead(r) + 1) * D = KVHead(r) * D + D
            /\ (KVHead(r) + 1) * D \in Nat /\ LocalKV * D = D
        BY <1>1, <2>2, <2>3, <3>3, TimesOrder
      <3> QED
        BY <1>1, <3>2, <3>4, SliceCuts
    <2>4. CASE K >= n
      <3>1. ShardTensor(t, r) = Chunk(t, r) /\ KVStart(r) = r * LocalKV
        BY <1>1, <2>1, <2>4 DEF KVShard, KVStart
      <3>2. K = LocalKV * n
        BY <2>2, <2>4
      <3> HIDE DEF D, n, K
      <3>3. (LocalKV * n) * D = (LocalKV * D) * n /\ LocalKV * D \in Nat
            /\ r * (LocalKV * D) = (r * LocalKV) * D
        BY <1>1
      <3>4. Rows(t) = (LocalKV * D) * n
        BY <2>1, <3>2, <3>3
      <3> QED
        BY <3>1, <3>3, <3>4, ChunkCuts DEF n
    <2> QED
      BY <1>1, <2>3, <2>4
  <1>4. ASSUME t.name \in {"gate", "up", "down"}
        PROVE  Cut(ShardTensor(t, r), t, r * RowParallelSize, RowParallelSize)
    <2>1. ShardTensor(t, r) = Chunk(t, r) /\ Rows(t) = model.inter
      BY <1>4 DEF ShardTensor, Rows
    <2>2. Rows(t) = RowParallelSize * n
      BY <2>1, Divisions
    <2> QED
      BY <1>1, <2>1, <2>2, ChunkCuts
  <1> QED
    BY <1>2, <1>3, <1>4

\* Two cuts, one behind the other.
LEMMA JoinFacts ==
  ASSUME NEW S, NEW a \in Seq(S), NEW b \in Seq(S)
  PROVE  /\ a \o b \in Seq(S) /\ Len(a \o b) = Len(a) + Len(b)
         /\ \A i \in 1 .. Len(a) : (a \o b)[i] = a[i]
         /\ \A i \in 1 .. Len(b) : (a \o b)[Len(a) + i] = b[i]
  OBVIOUS

-----------------------------------------------------------------------------
(* Parameters.                                                             *)

\* What a finished tensor of a rank is, whatever order its parts came in.
Part(key, name, r) == ShardTensor(T(key.layer, key.expert, name), r)
Content(key, r) ==
  CASE key.name = "qkv" -> (Part(key, "q", r) \o Part(key, "k", r)) \o Part(key, "v", r)
    [] key.name = "gate_up" -> Part(key, "gate", r) \o Part(key, "up", r)
    [] OTHER -> ShardTensor(key, r)

\* And what a parameter is.
Value(p, r) ==
  IF p.expert = Every THEN [i \in 1 .. model.experts |-> Content(T(p.layer, i - 1, p.name), r)]
                      ELSE <<Content(p, r)>>

LEMMA QKVRows ==
  ASSUME model \in Models, Buildable, NEW r \in Rank, NEW l \in Layers, NEW s,
         s = Content(T(l, None, "qkv"), r)
  PROVE  /\ \A i \in 1 .. LocalQ * model.headDim :
              s[i] = <<T(l, None, "q"), r * (LocalQ * model.headDim) + i - 1>>
         /\ \A i \in 1 .. LocalKV * model.headDim :
              /\ s[LocalQ * model.headDim + i]
                   = <<T(l, None, "k"), KVStart(r) * model.headDim + i - 1>>
              /\ s[(LocalQ * model.headDim + LocalKV * model.headDim) + i]
                   = <<T(l, None, "v"), KVStart(r) * model.headDim + i - 1>>
  <1> DEFINE D == model.headDim
             qd == LocalQ * D
             kd == LocalKV * D
             a == ShardTensor(T(l, None, "q"), r)
             b == ShardTensor(T(l, None, "k"), r)
             c == ShardTensor(T(l, None, "v"), r)
             x == r * qd
             y == KVStart(r) * D
  <1>1. s = (a \o b) \o c
    BY DEF Content, Part, T
  <1>2. qd \in Nat /\ kd \in Nat /\ x \in Nat /\ y \in Nat
    <2>1. LocalQ \in Nat /\ LocalKV \in Nat /\ D \in Nat /\ r \in Nat /\ KVStart(r) \in Nat
      BY ModelFacts, Divisions, KVStartFacts DEF Rank, Positive
    <2>2. LocalQ * D \in Nat /\ LocalKV * D \in Nat /\ r * (LocalQ * D) \in Nat
          /\ KVStart(r) * D \in Nat
      BY <2>1
    <2> QED
      BY <2>2
  <1>3. Cut(a, T(l, None, "q"), x, qd) /\ Cut(b, T(l, None, "k"), y, kd)
        /\ Cut(c, T(l, None, "v"), y, kd)
    <2>1. l \in Nat
      BY ModelFacts DEF Layers
    <2>2. \A n \in {"q", "k", "v"} : T(l, None, n) \in Tensors /\ T(l, None, n).name = n
      BY <2>1 DEF T, Tensors
    <2> QED
      BY <2>2, ShardCuts
  <1> HIDE DEF D, qd, kd, a, b, c, x, y
  <1>4. /\ a \o b \in Seq(Entry) /\ Len(a \o b) = qd + kd
        /\ \A i \in 1 .. qd : (a \o b)[i] = <<T(l, None, "q"), x + i - 1>>
        /\ \A i \in 1 .. kd : (a \o b)[qd + i] = <<T(l, None, "k"), y + i - 1>>
    <2>1. a \in Seq(Entry) /\ b \in Seq(Entry) /\ Len(a) = qd /\ Len(b) = kd
      BY <1>3 DEF Cut
    <2>2. a \o b \in Seq(Entry) /\ Len(a \o b) = Len(a) + Len(b)
      BY ONLY <2>1
    <2>3. \A i \in 1 .. Len(a) : (a \o b)[i] = a[i]
      BY ONLY <2>1, JoinFacts
    <2>4. \A i \in 1 .. Len(b) : (a \o b)[Len(a) + i] = b[i]
      BY ONLY <2>1, JoinFacts
    <2> QED
      BY <1>3, <2>1, <2>2, <2>3, <2>4 DEF Cut
  <1>5. c \in Seq(Entry) /\ Len(c) = kd /\ \A i \in 1 .. kd : c[i] = <<T(l, None, "v"), y + i - 1>>
    BY <1>3 DEF Cut
  <1> DEFINE ab == a \o b
  <1>6. /\ \A i \in 1 .. Len(ab) : (ab \o c)[i] = ab[i]
        /\ \A i \in 1 .. Len(c) : (ab \o c)[Len(ab) + i] = c[i]
    <2>1. ab \in Seq(Entry)
      BY <1>4
    <2> HIDE DEF ab
    <2> QED
      BY <1>5, <2>1, JoinFacts
  <1>7. Len(ab) = qd + kd /\ s = ab \o c
    BY <1>1, <1>4
  <1>8. /\ \A i \in 1 .. qd : ab[i] = <<T(l, None, "q"), x + i - 1>>
        /\ \A i \in 1 .. kd : ab[qd + i] = <<T(l, None, "k"), y + i - 1>>
    BY <1>4
  <1> HIDE DEF ab
  <1>9. \A i \in 1 .. qd : s[i] = <<T(l, None, "q"), x + i - 1>>
    BY <1>2, <1>6, <1>7, <1>8
  <1>10. ASSUME NEW i \in 1 .. kd
         PROVE  s[qd + i] = <<T(l, None, "k"), y + i - 1>>
                /\ s[(qd + kd) + i] = <<T(l, None, "v"), y + i - 1>>
    <2>1. qd + i \in 1 .. Len(ab) /\ i \in 1 .. Len(c)
      BY <1>2, <1>5, <1>7
    <2>2. s[qd + i] = ab[qd + i] /\ s[(qd + kd) + i] = c[i]
      BY <1>6, <1>7, <2>1
    <2> QED
      BY <1>5, <1>8, <2>2
  <1> QED
    BY <1>9, <1>10 DEF D, qd, kd, x, y

\* The ranks that have loaded have what the checkpoint says.
HasValues ==
  \A r \in Loaded : r \in Rank /\ \A p \in ModelParams : Param(r, p) = Value(p, r)

LEMMA HeadsMeetFacts ==
  ASSUME model \in Models, Buildable, HasValues
  PROVE  HeadsMeet
  <1> SUFFICES ASSUME NEW r \in Loaded, NEW l \in Layers,
                      NEW h \in 0 .. LocalQ - 1, NEW d \in 1 .. model.headDim
               PROVE  LET i == h * model.headDim + d
                          kv == LocalKVOf(h) * model.headDim + d
                          q == QRow(r, l, i)[2]
                          own == ((q \div model.headDim) \div (model.heads \div model.kvHeads))
                                   * model.headDim + (q % model.headDim)
                      IN /\ QRow(r, l, i) = <<T(l, None, "q"), q>>
                         /\ KRow(r, l, kv) = <<T(l, None, "k"), own>>
                         /\ VRow(r, l, kv) = <<T(l, None, "v"), own>>
                         /\ Param(r, T(l, None, "o"))[1][i] = <<T(l, None, "o"), q>>
    BY DEF HeadsMeet
  <1> DEFINE D == model.headDim
             lq == LocalQ
             lk == LocalKV
             g == model.heads \div model.kvHeads
             j == LocalKVOf(h)
             i == h * D + d
             kv == j * D + d
             from == KVStart(r)
             q == r * (lq * D) + i - 1
             own == from * D + kv - 1
             s == Content(T(l, None, "qkv"), r)
  <1>1. r \in Rank /\ r \in Nat /\ h \in Nat /\ d \in Nat /\ d >= 1 /\ d <= D /\ h < lq
        /\ lq \in Nat /\ lk \in Nat /\ D \in Positive /\ D \in Nat /\ g \in Positive /\ from \in Nat
    <2>1. r \in Rank
      BY DEF HasValues
    <2> QED
      BY <2>1, ModelFacts, Divisions, KVStartFacts DEF Rank, Positive
  <1>2. j \in Nat /\ j < lk /\ (r * lq + h) \div g = from + j
    <2>1. /\ j \in Nat /\ j < lk
          /\ (r * lq + h) \div g = IF model.kvHeads < model.n THEN KVHead(r) ELSE r * lk + j
      BY <1>1, OwnGroup
    <2>2. model.kvHeads < model.n => lk = 1
      BY Divisions
    <2>3. from = IF model.kvHeads < model.n THEN KVHead(r) ELSE r * lk
      BY DEF KVStart
    <2> HIDE DEF j, g, lq, lk, from
    <2> QED
      BY <1>1, <2>1, <2>2, <2>3
  <1>3. T(l, None, "qkv") \in ModelParams /\ T(l, None, "o") \in ModelParams
    BY DEF ModelParams
  <1>4. Param(r, T(l, None, "qkv"))[1] = s /\ Param(r, T(l, None, "o"))[1] = Content(T(l, None, "o"), r)
    <2>1. T(l, None, "qkv").expert # Every /\ T(l, None, "o").expert # Every
      BY MarksAssumption DEF T
    <2> QED
      BY <1>3, <2>1 DEF HasValues, Value
  <1>5. /\ \A e \in 1 .. lq * D : s[e] = <<T(l, None, "q"), r * (lq * D) + e - 1>>
        /\ \A e \in 1 .. lk * D :
              /\ s[lq * D + e] = <<T(l, None, "k"), from * D + e - 1>>
              /\ s[(lq * D + lk * D) + e] = <<T(l, None, "v"), from * D + e - 1>>
    BY <1>1, QKVRows
  <1>6. \A e \in 1 .. lq * D : Param(r, T(l, None, "o"))[1][e] = <<T(l, None, "o"), r * (lq * D) + e - 1>>
    <2>1. l \in Nat
      BY ModelFacts DEF Layers
    <2>2. T(l, None, "o") \in Tensors /\ T(l, None, "o").name = "o"
      BY <2>1 DEF T, Tensors
    <2>3. Content(T(l, None, "o"), r) = ShardTensor(T(l, None, "o"), r)
      BY <2>2 DEF Content
    <2>4. Cut(ShardTensor(T(l, None, "o"), r), T(l, None, "o"), r * (lq * D), lq * D)
      BY <1>1, <2>2, ShardCuts
    <2> QED
      BY <1>4, <2>3, <2>4 DEF Cut
  <1>7. QRow(r, l, i) = s[i] /\ KRow(r, l, kv) = s[lq * D + kv]
        /\ VRow(r, l, kv) = s[(lq + lk) * D + kv]
    BY <1>4 DEF QRow, KRow, VRow
  <1> HIDE DEF D, lq, lk, g, j, from, s
  <1>8. i \in 1 .. lq * D /\ kv \in 1 .. lk * D
    <2>1. (h + 1) * D <= lq * D /\ (h + 1) * D = h * D + D /\ h * D \in Nat
          /\ (j + 1) * D <= lk * D /\ (j + 1) * D = j * D + D /\ j * D \in Nat
      BY <1>1, <1>2, TimesOrder, TimesFacts
    <2>2. lq * D \in Nat /\ lk * D \in Nat
      BY <1>1
    <2> QED
      BY <1>1, <2>1, <2>2
  <1>9. q \div D = r * lq + h /\ q % D = d - 1
    <2> DEFINE u == r * lq + h
    <2>1. u \in Nat /\ d - 1 \in Nat /\ d - 1 < D
      BY <1>1
    <2>2. q = u * D + (d - 1)
      <3>1. (r * lq + h) * D = r * (lq * D) + h * D
        BY <1>1
      <3>2. r * (lq * D) \in Nat /\ h * D \in Nat
        BY <1>1
      <3> QED
        BY <1>1, <3>1, <3>2
    <2> HIDE DEF u, q
    <2>3. q \div D = u /\ q % D = d - 1
      BY <1>1, <2>1, <2>2, DivIs
    <2> QED
      BY <2>3 DEF u
  <1>10. ((q \div D) \div g) * D + (q % D) = own
    <2>1. (from + j) * D = from * D + j * D
      BY <1>1, <1>2
    <2>2. from * D \in Nat /\ j * D \in Nat
      BY <1>1, <1>2
    <2> HIDE DEF q
    <2>3. ((q \div D) \div g) * D + (q % D) = (from + j) * D + (d - 1)
      BY <1>2, <1>9
    <2> QED
      BY <1>1, <2>1, <2>2, <2>3
  <1>11. (lq + lk) * D = lq * D + lk * D
    BY <1>1
  <1> HIDE DEF q, own, i, kv
  <1>12. /\ QRow(r, l, i) = <<T(l, None, "q"), q>>
         /\ KRow(r, l, kv) = <<T(l, None, "k"), own>>
         /\ VRow(r, l, kv) = <<T(l, None, "v"), own>>
         /\ Param(r, T(l, None, "o"))[1][i] = <<T(l, None, "o"), q>>
    BY <1>5, <1>6, <1>7, <1>8, <1>11 DEF q, own
  <1>13. QRow(r, l, i)[2] = q
    BY <1>12
  <1> QED
    BY <1>10, <1>12, <1>13 DEF i, kv, D, j, g

\* The copies of a parameter of the MLP are those of the experts, in order.
Copy(i) == IF model.experts = 0 THEN None ELSE i - 1

LEMMA MLPCopies ==
  ASSUME model \in Models, NEW l \in Layers, NEW name, NEW r,
         NEW i \in 1 .. Copies(MLPParam(l, name))
  PROVE  Value(MLPParam(l, name), r)[i] = Content(T(l, Copy(i), name), r)
         /\ l \in Nat /\ Copy(i) \in Nat \cup {None}
  <1>1. l \in Nat /\ model.experts \in Nat
    BY ModelFacts DEF Layers
  <1>2. CASE model.experts = 0
    <2>1. MLPParam(l, name) = T(l, None, name) /\ T(l, None, name).expert # Every
      BY <1>2, MarksAssumption DEF MLPParam, T
    <2>2. i = 1
      BY <2>1 DEF Copies
    <2> QED
      BY <1>1, <1>2, <2>1, <2>2 DEF Value, Copy
  <1>3. CASE model.experts # 0
    <2> DEFINE p == MLPParam(l, name)
    <2>1. p = T(l, Every, name) /\ p.expert = Every /\ p.layer = l /\ p.name = name
      BY <1>3 DEF MLPParam, T
    <2>2. i \in 1 .. model.experts /\ Copy(i) = i - 1
      BY <1>3, <2>1 DEF Copies, Copy
    <2> HIDE DEF p
    <2>3. Value(p, r)[i] = Content(T(l, i - 1, name), r)
      BY <2>1, <2>2 DEF Value
    <2> QED
      BY <1>1, <2>2, <2>3 DEF p
  <1> QED
    BY <1>2, <1>3

LEMMA NeuronsMeetFacts ==
  ASSUME model \in Models, Buildable, HasValues
  PROVE  NeuronsMeet
  <1> SUFFICES ASSUME NEW r \in Loaded, NEW l \in Layers, NEW i \in 1 .. Copies(MLPParam(l, "down")),
                      NEW j \in 1 .. RowParallelSize
               PROVE  LET gateUp == Param(r, MLPParam(l, "gate_up"))[i]
                          down == Param(r, MLPParam(l, "down"))[i]
                      IN /\ gateUp[j] = <<T(l, Copy(i), "gate"), down[j][2]>>
                         /\ gateUp[RowParallelSize + j] = <<T(l, Copy(i), "up"), down[j][2]>>
                         /\ down[j][1] = T(l, Copy(i), "down")
    BY DEF NeuronsMeet, Copy
  <1> DEFINE half == RowParallelSize
             e == Copy(i)
             x == r * half
             a == ShardTensor(T(l, e, "gate"), r)
             b == ShardTensor(T(l, e, "up"), r)
             c == ShardTensor(T(l, e, "down"), r)
             gateUp == Param(r, MLPParam(l, "gate_up"))[i]
             down == Param(r, MLPParam(l, "down"))[i]
  <1>1. r \in Rank /\ Param(r, MLPParam(l, "gate_up")) = Value(MLPParam(l, "gate_up"), r)
        /\ Param(r, MLPParam(l, "down")) = Value(MLPParam(l, "down"), r)
    BY DEF HasValues, ModelParams
  <1>2. MLPParam(l, "gate_up").expert = MLPParam(l, "down").expert
    BY DEF MLPParam, T
  <1>3. i \in 1 .. Copies(MLPParam(l, "gate_up"))
    BY <1>2 DEF Copies
  <1>4. gateUp = Content(T(l, e, "gate_up"), r) /\ down = Content(T(l, e, "down"), r)
        /\ l \in Nat /\ e \in Nat \cup {None}
    BY <1>1, <1>3, MLPCopies
  <1>5. gateUp = a \o b /\ down = c
    BY <1>4 DEF Content, Part, T
  <1>6. half \in Nat /\ x \in Nat
    <2>1. RowParallelSize \in Nat /\ r \in Nat
      BY <1>1, ModelFacts, Divisions DEF Rank, Positive
    <2>2. r * RowParallelSize \in Nat
      BY <2>1
    <2> QED
      BY <2>1, <2>2
  <1>7. Cut(a, T(l, e, "gate"), x, half) /\ Cut(b, T(l, e, "up"), x, half)
        /\ Cut(c, T(l, e, "down"), x, half)
    <2> HIDE DEF e
    <2>1. \A n \in {"gate", "up", "down"} : T(l, e, n) \in Tensors /\ T(l, e, n).name = n
      BY <1>4 DEF T, Tensors
    <2> QED
      BY <1>1, <2>1, ShardCuts
  <1> HIDE DEF half, e, x, a, b, c, gateUp, down
  <1>8. a \in Seq(Entry) /\ b \in Seq(Entry) /\ Len(a) = half /\ Len(b) = half /\ j \in 1 .. half
    BY <1>7 DEF Cut, half
  <1>9. (a \o b)[j] = a[j] /\ (a \o b)[half + j] = b[j]
    BY <1>8, JoinFacts
  <1>10. /\ a[j] = <<T(l, e, "gate"), x + j - 1>> /\ b[j] = <<T(l, e, "up"), x + j - 1>>
         /\ c[j] = <<T(l, e, "down"), x + j - 1>>
    BY <1>7, <1>8 DEF Cut
  <1>11. /\ gateUp[j] = <<T(l, e, "gate"), down[j][2]>>
         /\ gateUp[half + j] = <<T(l, e, "up"), down[j][2]>>
         /\ down[j][1] = T(l, e, "down")
    BY <1>5, <1>9, <1>10
  <1> QED
    BY <1>11 DEF half, e, gateUp, down

\* Equal cuts, one after the other, have each row once.
LEMMA CutsCover ==
  ASSUME NEW n \in Nat, NEW c \in Positive, NEW t, NEW s,
         \A r \in 0 .. n - 1 : Cut(s[r], t, r * c, c)
  PROVE  /\ UNION {{x[2] : x \in ToSet(s[r])} : r \in 0 .. n - 1} = 0 .. c * n - 1
         /\ \A r, u \in 0 .. n - 1 :
              r # u => {x[2] : x \in ToSet(s[r])} \cap {x[2] : x \in ToSet(s[u])} = {}
  <1> DEFINE cols(r) == {x[2] : x \in ToSet(s[r])}
  <1>1. c \in Nat /\ c * n = n * c /\ n * c \in Nat
    BY DEF Positive
  <1>2. ASSUME NEW r \in 0 .. n - 1 PROVE cols(r) = {r * c + i - 1 : i \in 1 .. c}
    <2>1. s[r] \in Seq(Entry) /\ Len(s[r]) = c /\ \A i \in 1 .. c : s[r][i] = <<t, r * c + i - 1>>
      BY DEF Cut
    <2>2. ToSet(s[r]) = {s[r][i] : i \in 1 .. c}
      BY <2>1 DEF ToSet
    <2>3. cols(r) = {s[r][i][2] : i \in 1 .. c}
      BY <2>2
    <2>4. \A i \in 1 .. c : s[r][i][2] = r * c + i - 1
      BY <2>1
    <2> QED
      BY <2>3, <2>4
  <1>3. ASSUME NEW r \in 0 .. n - 1, NEW k
        PROVE  k \in cols(r) <=> k \in Nat /\ k \div c = r
    <2>1. r \in Nat /\ r * c \in Nat
      BY <1>1
    <2>2. ASSUME k \in cols(r) PROVE k \in Nat /\ k \div c = r
      <3>1. PICK i \in 1 .. c : k = r * c + i - 1
        BY <1>2, <2>2
      <3>2. i - 1 \in Nat /\ i - 1 < c /\ k = r * c + (i - 1) /\ k \in Nat
        BY <1>1, <2>1, <3>1
      <3> QED
        BY <2>1, <3>2, DivIs
    <2>3. ASSUME k \in Nat, k \div c = r PROVE k \in cols(r)
      <3>1. k % c \in Nat /\ k % c < c /\ k = r * c + (k % c)
        BY <2>3, DivFacts
      <3>2. (k % c) + 1 \in 1 .. c /\ k = r * c + ((k % c) + 1) - 1
        BY <1>1, <2>1, <3>1
      <3> QED
        BY <1>2, <3>2
    <2> HIDE DEF cols
    <2> QED
      BY <2>2, <2>3
  <1> HIDE DEF cols
  <1>4. ASSUME NEW k \in 0 .. c * n - 1 PROVE \E r \in 0 .. n - 1 : k \in cols(r)
    <2>1. k \in Nat /\ k < n * c
      BY <1>1
    <2> DEFINE q == k \div c
    <2>2. q \in Nat /\ k % c \in Nat /\ k = q * c + (k % c)
      BY <2>1, DivFacts
    <2> HIDE DEF q
    <2>3. q < n
      <3> SUFFICES ASSUME n <= q PROVE FALSE
        BY <2>2
      <3>1. n * c <= q * c /\ q * c \in Nat
        BY <1>1, <2>2, TimesOrder, TimesFacts
      <3> QED
        BY <1>1, <2>1, <2>2, <3>1
    <2>4. q \in 0 .. n - 1
      BY <2>2, <2>3
    <2> QED
      BY <1>3, <2>1, <2>4 DEF q
  <1>5. ASSUME NEW r \in 0 .. n - 1, NEW k \in cols(r) PROVE k \in 0 .. c * n - 1
    <2>1. k \in Nat /\ k \div c = r
      BY <1>3
    <2>2. k % c \in Nat /\ k % c < c /\ k = r * c + (k % c)
      BY <2>1, DivFacts
    <2>3. r \in Nat /\ r + 1 <= n
      OBVIOUS
    <2>4. (r + 1) * c <= n * c /\ (r + 1) * c = r * c + c /\ r * c \in Nat
      BY <1>1, <2>3, TimesOrder, TimesFacts
    <2> QED
      BY <1>1, <2>1, <2>2, <2>4
  <1>6. UNION {cols(r) : r \in 0 .. n - 1} = 0 .. c * n - 1
    BY <1>4, <1>5
  <1>7. \A r, u \in 0 .. n - 1 : r # u => cols(r) \cap cols(u) = {}
    BY <1>3
  <1> QED
    BY <1>6, <1>7 DEF cols

LEMMA EachOnceFacts ==
  ASSUME model \in Models, Buildable, HasValues, Len(params) \in Nat
  PROVE  EachOnce
  <1> SUFFICES ASSUME AllLoaded, NEW l \in Layers, NEW p \in {T(l, None, "o"), MLPParam(l, "down")},
                      NEW i \in 1 .. Copies(p)
               PROVE  /\ UNION {{x[2] : x \in ToSet(Param(r, p)[i])} : r \in Rank} = 0 .. Rows(p) - 1
                      /\ \A r, u \in Rank :
                           r # u => {x[2] : x \in ToSet(Param(r, p)[i])}
                                      \cap {x[2] : x \in ToSet(Param(u, p)[i])} = {}
    BY DEF EachOnce
  <1> DEFINE n == model.n
             s == [r \in Rank |-> Param(r, p)[i]]
  <1>1. n \in Nat /\ Rank = 0 .. n - 1 /\ Loaded = Rank /\ l \in Nat
    BY ModelFacts DEF Rank, Loaded, AllLoaded, Positive, Layers
  <1>2. p \in ModelParams /\ \A r \in Rank : Param(r, p) = Value(p, r)
    BY <1>1 DEF ModelParams, HasValues
  <1>3. PICK c \in Positive, t \in Tensors :
          Rows(p) = c * n /\ \A r \in Rank : Cut(Param(r, p)[i], t, r * c, c)
    <2>1. CASE p = T(l, None, "o")
      <3>1. p \in Tensors /\ p.name = "o" /\ p.expert # Every
        BY <1>1, <2>1, MarksAssumption DEF T, Tensors
      <3>2. i = 1
        BY <3>1 DEF Copies
      <3>3. \A r \in Rank : Param(r, p)[i] = ShardTensor(p, r)
        BY <1>2, <3>1, <3>2 DEF Value, Content
      <3> DEFINE c == LocalQ * model.headDim
      <3>4. c \in Positive /\ Rows(p) = c * n
        <4>1. LocalQ \in Nat /\ model.headDim \in Nat /\ LocalQ # 0 /\ model.headDim # 0
          BY ModelFacts, Divisions DEF Positive
        <4>2. Rows(p) = (LocalQ * n) * model.headDim
          BY <3>1, Divisions DEF Rows
        <4>3. \A a, b, d \in Nat : (a * b) * d = (a * d) * b
          OBVIOUS
        <4>4. LocalQ * model.headDim \in Nat /\ LocalQ * model.headDim # 0
          BY <4>1
        <4> QED
          BY <1>1, <4>1, <4>2, <4>3, <4>4 DEF Positive
      <3>5. \A r \in Rank : Cut(ShardTensor(p, r), p, r * c, c)
        BY <3>1, ShardCuts
      <3> HIDE DEF c
      <3> QED
        BY <3>1, <3>3, <3>4, <3>5
    <2>2. CASE p = MLPParam(l, "down")
      <3> DEFINE t == T(l, Copy(i), "down")
      <3>1. t \in Tensors /\ t.name = "down" /\ \A r \in Rank : Param(r, p)[i] = Content(t, r)
        <4>1. Copy(i) \in Nat \cup {None} /\ \A r \in Rank : Value(p, r)[i] = Content(t, r)
          BY <2>2, MLPCopies
        <4> QED
          BY <1>1, <1>2, <4>1 DEF T, Tensors
      <3>2. p.name = "down"
        BY <2>2 DEF MLPParam, T
      <3> HIDE DEF t
      <3>3. \A r \in Rank : Param(r, p)[i] = ShardTensor(t, r)
        BY <3>1 DEF Content
      <3>4. RowParallelSize \in Positive /\ Rows(p) = RowParallelSize * n
        BY <3>2, Divisions DEF Rows
      <3>5. \A r \in Rank : Cut(ShardTensor(t, r), t, r * RowParallelSize, RowParallelSize)
        BY <3>1, ShardCuts
      <3> QED
        BY <3>1, <3>3, <3>4, <3>5
    <2> QED
      BY <2>1, <2>2
  <1>4. \A r \in 0 .. n - 1 : s[r] = Param(r, p)[i] /\ Cut(s[r], t, r * c, c)
    BY <1>1, <1>3
  <1> HIDE DEF s, n
  <1>5. /\ UNION {{x[2] : x \in ToSet(s[r])} : r \in 0 .. n - 1} = 0 .. c * n - 1
        /\ \A r, u \in 0 .. n - 1 :
             r # u => {x[2] : x \in ToSet(s[r])} \cap {x[2] : x \in ToSet(s[u])} = {}
    BY <1>1, <1>4, CutsCover
  <1> DEFINE held(r) == {x[2] : x \in ToSet(Param(r, p)[i])}
             cut(r) == {x[2] : x \in ToSet(s[r])}
  <1>6. \A r \in Rank : cut(r) = held(r)
    BY <1>1, <1>4
  <1>7. /\ UNION {cut(r) : r \in 0 .. n - 1} = 0 .. Rows(p) - 1
        /\ \A r, u \in 0 .. n - 1 : r # u => cut(r) \cap cut(u) = {}
    BY <1>3, <1>5
  <1> HIDE DEF held, cut
  <1>8. {cut(r) : r \in 0 .. n - 1} = {held(r) : r \in Rank}
    BY <1>1, <1>6
  <1>9. UNION {held(r) : r \in Rank} = 0 .. Rows(p) - 1
    BY <1>7, <1>8
  <1>10. \A r, u \in Rank : r # u => held(r) \cap held(u) = {}
    BY <1>1, <1>6, <1>7
  <1> QED
    BY <1>9, <1>10 DEF held

-----------------------------------------------------------------------------
(* The vocabulary.                                                         *)

\* What was loaded has the shape the model was built with.
HasShapes ==
  \A r \in Loaded, p \in ModelParams : \A i \in 1 .. Copies(p) : Len(Value(p, r)[i]) = Size(p)

LEMMA PartFacts ==
  ASSUME model \in Models
  PROVE  EmbeddingSize \in Positive /\ model.vocab <= EmbeddingSize * model.n
  <1> DEFINE v == model.vocab
             n == model.n
             a == v + n - 1
             e == EmbeddingSize
  <1>1. v \in Nat /\ n \in Nat /\ v >= 1 /\ n >= 1 /\ n \in Positive /\ a \in Nat /\ a >= n
    BY ModelFacts DEF Positive
  <1>2. e = a \div n
    BY DEF EmbeddingSize, DivCeil
  <1> HIDE DEF v, n, e
  <1>3. e \in Nat /\ a % n \in Nat /\ a % n < n /\ a = e * n + (a % n)
    BY <1>1, <1>2, DivFacts
  <1>4. e * n \in Nat
    BY <1>1, <1>3
  <1> HIDE DEF a
  <1>5. e # 0
    <2> SUFFICES ASSUME e = 0 PROVE FALSE
      OBVIOUS
    <2>1. e * n = 0
      BY <1>1
    <2> QED
      BY <1>1, <1>3, <2>1
  <1>6. v <= e * n
    BY <1>1, <1>3, <1>4 DEF a
  <1> QED
    BY <1>3, <1>5, <1>6 DEF Positive, v, n, e

\* A shard of the vocabulary that has its full size is the rank's part of it.
LEMMA VocabCuts ==
  ASSUME model \in Models, NEW t \in Tensors, t.name \in {"embed", "head"}, NEW r \in Rank,
         Len(ShardTensor(t, r)) = EmbeddingSize
  PROVE  /\ Cut(ShardTensor(t, r), t, r * EmbeddingSize, EmbeddingSize)
         /\ (r + 1) * EmbeddingSize <= model.vocab
  <1> DEFINE e == EmbeddingSize
             v == model.vocab
             to == IF (r + 1) * e < v THEN (r + 1) * e ELSE v
             from == r * e
  <1>1. e \in Nat /\ e >= 1 /\ v \in Nat /\ r \in Nat
    BY PartFacts, ModelFacts DEF Positive, Rank
  <1>2. ShardTensor(t, r) = Slice(t, from, to)
    BY DEF ShardTensor, VocabShard, Rows, EmbeddingSize
  <1>3. from \in Nat /\ (r + 1) * e = from + e /\ to \in Nat /\ to <= from + e /\ to <= v
    <2>1. r * e \in Nat /\ (r + 1) * e = r * e + e
      BY <1>1, TimesOrder
    <2> HIDE DEF e, v
    <2> QED
      BY <1>1, <2>1
  <1> HIDE DEF e, v, to, from
  <1>4. from <= to
    <2> SUFFICES ASSUME to < from PROVE FALSE
      BY <1>3
    <2>1. 1 .. to - from = {}
      BY <1>3
    <2>2. Slice(t, from, to) = << >>
      BY <2>1 DEF Slice
    <2>3. Len(<< >>) = 0
      OBVIOUS
    <2> QED
      BY <1>1, <1>2, <2>2, <2>3 DEF e
  <1>5. to - from \in Nat /\ to = from + (to - from)
    BY <1>3, <1>4
  <1>6. Cut(Slice(t, from, to), t, from, to - from)
    BY <1>3, <1>5, SliceCuts
  <1>7. to - from = e
    BY <1>2, <1>6 DEF Cut, e
  <1> QED
    BY <1>1, <1>2, <1>3, <1>5, <1>6, <1>7 DEF e, v, from

\* Once all ranks have their part, the parts make up the vocabulary.
LEMMA VocabParts ==
  ASSUME model \in Models, HasValues, HasShapes, AllLoaded,
         NEW t \in Outer \cup (IF model.tied THEN {} ELSE {LMHead}), t.name \in {"embed", "head"}
  PROVE  /\ model.vocab = EmbeddingSize * model.n
         /\ \A r \in Rank : \A i \in 1 .. EmbeddingSize :
              Param(r, t)[1][i] = <<t, r * EmbeddingSize + i - 1>>
  <1> DEFINE n == model.n
             e == EmbeddingSize
  <1>1. n \in Nat /\ n >= 1 /\ Rank = 0 .. n - 1 /\ Loaded = Rank /\ model.vocab \in Nat
        /\ e \in Nat /\ model.vocab <= e * n
    BY ModelFacts, PartFacts DEF Rank, Loaded, AllLoaded, Positive
  <1>2. t \in ModelParams /\ t \in Tensors /\ t.expert # Every
    BY MarksAssumption DEF ModelParams, Outer, LMHead, T, Tensors
  <1>3. ASSUME NEW r \in Rank
        PROVE  Param(r, t)[1] = ShardTensor(t, r) /\ Len(ShardTensor(t, r)) = e
    <2>1. Copies(t) = 1 /\ Size(t) = e
      BY <1>2 DEF Copies, Size
    <2>2. Value(t, r) = <<ShardTensor(t, r)>>
      BY <1>2 DEF Value, Content
    <2>3. 1 \in 1 .. Copies(t)
      BY <2>1
    <2>4. Len(Value(t, r)[1]) = e
      BY <1>1, <1>2, <2>1, <2>3 DEF HasShapes
    <2> QED
      BY <1>1, <1>2, <2>2, <2>4 DEF HasValues
  <1>4. ASSUME NEW r \in Rank
        PROVE  Cut(ShardTensor(t, r), t, r * e, e) /\ (r + 1) * e <= model.vocab
    BY <1>2, <1>3, VocabCuts
  <1>5. model.vocab = e * n
    <2>1. n - 1 \in Rank /\ (n - 1) + 1 = n
      BY <1>1
    <2>2. ((n - 1) + 1) * e <= model.vocab
      BY <1>4, <2>1
    <2>3. n * e = e * n /\ e * n \in Nat
      BY <1>1
    <2> HIDE DEF e, n
    <2> QED
      BY <1>1, <2>1, <2>2, <2>3
  <1> QED
    BY <1>3, <1>4, <1>5 DEF Cut

LEMMA TokensFoundFacts ==
  ASSUME model \in Models, HasValues, HasShapes
  PROVE  TokensFound
  <1> DEFINE e == EmbeddingSize
             n == model.n
             t == T(None, None, "embed")
  <1> SUFFICES ASSUME AllLoaded, NEW tok \in 0 .. model.vocab - 1
               PROVE  \E r \in Rank :
                        /\ {u \in Rank : LooksUp(u, tok)} = {r}
                        /\ Param(r, t)[1][tok - VocabRange(r).start + 1] = <<t, tok>>
    BY DEF TokensFound
  <1>1. t \in Outer /\ t.name = "embed"
    BY DEF Outer, T
  <1>2. /\ model.vocab = e * n
        /\ \A r \in Rank : \A i \in 1 .. e : Param(r, t)[1][i] = <<t, r * e + i - 1>>
    BY <1>1, VocabParts
  <1>3. e \in Positive /\ e \in Nat /\ n \in Nat /\ Rank = 0 .. n - 1 /\ tok \in Nat
        /\ tok < model.vocab /\ model.vocab \in Nat
    BY PartFacts, ModelFacts DEF Positive, Rank
  <1> DEFINE q == tok \div e
             d == tok % e
  <1>4. q \in Nat /\ d \in Nat /\ d < e /\ tok = q * e + d
    BY <1>3, DivFacts
  <1>5. ASSUME NEW u \in Rank
        PROVE  VocabRange(u).start = u * e /\ VocabRange(u).length = e
    <2>1. u \in Nat /\ u + 1 <= n
      BY <1>3
    <2>2. (u + 1) * e <= n * e /\ (u + 1) * e = u * e + e /\ u * e \in Nat /\ n * e = e * n
          /\ e * u = u * e
      BY <1>3, <2>1, TimesOrder, TimesFacts
    <2> DEFINE start == EmbeddingSize * u
               finish == IF start + EmbeddingSize < model.vocab THEN start + EmbeddingSize ELSE model.vocab
    <2>3. VocabRange(u) = [start |-> start, length |-> finish - start]
      BY DEF VocabRange
    <2>4. start = u * e /\ start + EmbeddingSize <= model.vocab
      BY <1>2, <2>2
    <2>5. finish = start + e
      BY <1>3, <2>4
    <2>6. finish - start = e
      <3> HIDE DEF finish
      <3>1. start \in Nat
        BY <2>2, <2>4
      <3> HIDE DEF start, e
      <3> QED
        BY <1>3, <2>5, <3>1
    <2> QED
      BY <2>3, <2>4, <2>6
  <1> HIDE DEF q, d, e, n
  <1>6. q \in Rank
    <2> SUFFICES ASSUME n <= q PROVE FALSE
      BY <1>3, <1>4
    <2>1. n * e <= q * e /\ q * e \in Nat /\ n * e = e * n
      BY <1>3, <1>4, TimesOrder, TimesFacts
    <2>2. tok < n * e
      BY <1>2, <1>3, <2>1
    <2>3. q * e <= tok
      BY <1>4, <2>1
    <2>4. n * e \in Nat /\ tok \in Nat
      BY <1>3, <2>1
    <2> QED
      BY ONLY <2>1, <2>2, <2>3, <2>4
  <1>7. ASSUME NEW u \in Rank PROVE LooksUp(u, tok) <=> u = q
    <2>1. u \in Nat /\ u * e \in Nat /\ (LooksUp(u, tok) <=> u * e <= tok /\ tok < u * e + e)
      BY <1>3, <1>5 DEF LooksUp
    <2>2. ASSUME u * e <= tok, tok < u * e + e PROVE u = q
      <3>1. tok - u * e \in Nat /\ tok - u * e < e /\ tok = u * e + (tok - u * e)
        BY <1>3, <2>1, <2>2
      <3> DEFINE x == tok - u * e
      <3>2. x \in Nat /\ x < e /\ u * e + x = tok
        BY <3>1
      <3> HIDE DEF x
      <3>3. (u * e + x) \div e = u
        BY <1>3, <2>1, <3>2, DivIs
      <3> QED
        BY <3>2, <3>3 DEF q
    <2>3. ASSUME u = q PROVE u * e <= tok /\ tok < u * e + e
      BY <1>3, <1>4, <2>1, <2>3
    <2> QED
      BY <2>1, <2>2, <2>3
  <1>8. {u \in Rank : LooksUp(u, tok)} = {q}
    BY <1>6, <1>7
  <1>9. Param(q, t)[1][tok - VocabRange(q).start + 1] = <<t, tok>>
    <2>1. q * e \in Nat
      BY <1>3, <1>4
    <2>2. tok - q * e + 1 = d + 1 /\ d + 1 \in 1 .. e /\ q * e + (d + 1) - 1 = tok
      BY <1>3, <1>4, <2>1
    <2>3. Param(q, t)[1][d + 1] = <<t, q * e + (d + 1) - 1>>
      BY <1>2, <1>6, <2>2
    <2>4. VocabRange(q).start = q * e
      BY <1>5, <1>6
    <2> QED
      BY <2>2, <2>3, <2>4
  <1> QED
    BY <1>6, <1>8, <1>9

LEMMA LogitsInPlaceFacts ==
  ASSUME model \in Models, HasValues, HasShapes
  PROVE  LogitsInPlace
  <1> DEFINE e == EmbeddingSize
             n == model.n
             t == HeadKey
  <1> SUFFICES ASSUME AllLoaded, NEW bs \in 1 .. 2, NEW b \in 0 .. bs - 1,
                      NEW tok \in 0 .. model.vocab - 1
               PROVE  Logit(bs, b, tok) = <<b, <<t, tok>>>>
    BY DEF LogitsInPlace
  <1>1. t \in Outer \cup (IF model.tied THEN {} ELSE {LMHead}) /\ t.name \in {"embed", "head"}
    BY ModelFacts DEF Outer, T, HeadKey, LMHead
  <1>2. /\ model.vocab = e * n
        /\ \A r \in Rank : \A i \in 1 .. e : Param(r, t)[1][i] = <<t, r * e + i - 1>>
    <2> HIDE DEF t
    <2> QED
      BY <1>1, VocabParts
  <1>3. e \in Positive /\ e \in Nat /\ n \in Nat /\ Rank = 0 .. n - 1 /\ tok \in Nat
        /\ tok < model.vocab /\ model.vocab \in Nat
        /\ bs \in Positive /\ b \in Nat /\ b < bs
    BY PartFacts, ModelFacts DEF Positive, Rank
  <1> DEFINE q == tok \div e
             d == tok % e
             row == q * bs + b
  <1>4. q \in Nat /\ d \in Nat /\ d < e /\ tok = q * e + d
    BY <1>3, DivFacts
  <1>5. Logit(bs, b, tok) = <<row % bs, Param(row \div bs, t)[1][d + 1]>>
    BY DEF Logit, Gathered, LogitShard
  <1> HIDE DEF q, d, e, n, t
  <1>6. row % bs = b /\ row \div bs = q
    BY <1>3, <1>4, DivIs
  <1>7. q \in Rank
    <2> SUFFICES ASSUME n <= q PROVE FALSE
      BY <1>3, <1>4
    <2>1. n * e <= q * e /\ q * e \in Nat /\ n * e = e * n
      BY <1>3, <1>4, TimesOrder, TimesFacts
    <2>2. tok < n * e
      BY <1>2, <1>3, <2>1
    <2>3. q * e <= tok
      BY <1>4, <2>1
    <2>4. n * e \in Nat /\ tok \in Nat
      BY <1>3, <2>1
    <2> QED
      BY ONLY <2>1, <2>2, <2>3, <2>4
  <1>8. q * e \in Nat
    BY <1>3, <1>4
  <1>9. d + 1 \in 1 .. e /\ q * e + (d + 1) - 1 = tok
    BY <1>3, <1>4, <1>8
  <1>10. Param(q, t)[1][d + 1] = <<t, tok>>
    BY <1>2, <1>7, <1>9
  <1> QED
    BY <1>5, <1>6, <1>10

-----------------------------------------------------------------------------
(* Steps leave the model alone.                                            *)

\* While the model stays, everything that is made of it does.
LEMMA SameShard ==
  ASSUME model' = model, NEW t, NEW r
  PROVE  ShardTensor(t, r)' = ShardTensor(t, r)
  <1>1. Rows(t)' = Rows(t) /\ KVHead(r)' = KVHead(r)
    BY DEF Rows, KVHead
  <1>2. Chunk(t, r)' = Chunk(t, r)
    BY <1>1 DEF Chunk
  <1>3. KVShard(t, r)' = KVShard(t, r)
    BY <1>1, <1>2 DEF KVShard
  <1>4. VocabShard(t, r)' = VocabShard(t, r)
    BY <1>1 DEF VocabShard
  <1> QED
    BY <1>1, <1>2, <1>3, <1>4 DEF ShardTensor

LEMMA SameContent ==
  ASSUME model' = model, NEW k, NEW r
  PROVE  Content(k, r)' = Content(k, r)
  <1>1. \A t : ShardTensor(t, r)' = ShardTensor(t, r)
    BY SameShard
  <1> QED
    BY <1>1 DEF Content, Part

LEMMA SameValue ==
  ASSUME model' = model, NEW p, NEW r
  PROVE  Value(p, r)' = Value(p, r)
  <1>1. \A k : Content(k, r)' = Content(k, r)
    BY SameContent
  <1>2. \A i : Content(T(p.layer, i - 1, p.name), r)' = Content(T(p.layer, i - 1, p.name), r)
    BY <1>1
  <1>3. [i \in 1 .. model.experts |-> Content(T(p.layer, i - 1, p.name), r)]'
          = [i \in 1 .. model.experts |-> Content(T(p.layer, i - 1, p.name), r)]
    BY <1>2
  <1>4. <<Content(p, r)>>' = <<Content(p, r)>>
    BY <1>1
  <1> QED
    BY <1>3, <1>4 DEF Value

-----------------------------------------------------------------------------
(* Reading the tensors of a checkpoint.                                    *)

\* The names under which finished tensors are yielded or stacked.
Keys ==
  [layer : Nat \cup {None}, expert : Nat \cup {None},
   name : {"qkv", "gate_up", "o", "norm", "down", "router", "embed", "head", "vision", "bias"}]

\* The tensors of the checkpoint a finished tensor and a parameter are made of.
Sources(k) ==
  CASE k.name = "qkv" -> {T(k.layer, k.expert, x) : x \in {"q", "k", "v"}}
    [] k.name = "gate_up" -> {T(k.layer, k.expert, x) : x \in {"gate", "up"}}
    [] OTHER -> {k}
AllSources(p) ==
  IF p.expert = Every THEN UNION {Sources(T(p.layer, i - 1, p.name)) : i \in 1 .. model.experts}
                      ELSE Sources(p)

\* What is held is what the checkpoint says, of tensors it has.
HeldParts(buf) ==
  \A h \in buf : \E t \in model.checkpoint :
    /\ Slots(t.name) # << >>
    /\ h = [key |-> MergedKey(t), slot |-> t.name, rows |-> ShardTensor(t, rank)]
HeldExperts(buf) ==
  \A x \in buf : \E k \in Keys :
    /\ k.expert \in Nat /\ Sources(k) \subseteq model.checkpoint
    /\ x = [key |-> PackedKey(k), idx |-> k.expert, rows |-> Content(k, rank)]
HeldState(dict) ==
  \A x \in dict : AllSources(x.key) \subseteq model.checkpoint /\ x.value = Value(x.key, rank)

\* The key a tensor ends up under, and that it has got there or is on its way.
Target(t) ==
  IF t.expert = None \/ model.experts = 0 THEN MergedKey(t) ELSE PackedKey(MergedKey(t))
Stacked(t, buf) == \E x \in buf : x.key = PackedKey(MergedKey(t)) /\ x.idx = t.expert
Yielded(t, dict) == \E x \in dict : x.key = Target(t) /\ (x.key.expert = Every => t.expert \in Experts)
Done(t, buf, dict) == Stacked(t, buf) \/ Yielded(t, dict)

LEMMA KeyFacts ==
  ASSUME NEW t \in Tensors
  PROVE  /\ MergedKey(t) \in Keys /\ MergedKey(t).expert = t.expert /\ MergedKey(t).layer = t.layer
         /\ MergedKey(t).name = MergedName(t.name)
         /\ t.expert \in Nat \cup {None} /\ t.expert # Every
  <1>1. t.expert \in Nat \cup {None} /\ t.layer \in Nat \cup {None}
    BY DEF Tensors
  <1>2. MergedName(t.name) \in {"qkv", "gate_up", "o", "norm", "down", "router", "embed",
                               "head", "vision", "bias"}
    BY DEF Tensors, MergedName
  <1>3. MergedKey(t) = [layer |-> t.layer, expert |-> t.expert, name |-> MergedName(t.name)]
    BY DEF Tensors, MergedKey
  <1> QED
    BY <1>1, <1>2, <1>3, MarksAssumption DEF Keys

LEMMA PackedFacts ==
  ASSUME NEW k \in Keys
  PROVE  /\ PackedKey(k).expert = Every /\ PackedKey(k).layer = k.layer /\ PackedKey(k).name = k.name
         /\ k.expert # Every /\ k = T(k.layer, k.expert, k.name)
  BY MarksAssumption DEF Keys, PackedKey, T

\* A stack with as many experts as the model, all of the model's among them,
\* has no others.
LEMMA OnlyExperts ==
  ASSUME NEW stack, IsFiniteSet(stack), NEW n \in Nat, Cardinality(stack) = n,
         0 .. n - 1 \subseteq {x.idx : x \in stack}
  PROVE  \A x \in stack : x.idx \in 0 .. n - 1
  <1> DEFINE ids == {x.idx : x \in stack}
             f == [x \in stack |-> x.idx]
  <1>1. ids = {f[x] : x \in stack} /\ f \in Surjection(stack, ids)
    BY DEF Surjection
  <1>2. IsFiniteSet(ids) /\ Cardinality(ids) <= n
    BY <1>1, FS_Surjection
  <1>3. IsFiniteSet(0 .. n - 1) /\ Cardinality(0 .. n - 1) = n
    <2>1. 0 \in Int /\ n - 1 \in Int
      OBVIOUS
    <2>2. IsFiniteSet(0 .. n - 1) /\ Cardinality(0 .. n - 1) = IF 0 > n - 1 THEN 0 ELSE (n - 1) - 0 + 1
      BY <2>1, FS_Interval
    <2> QED
      BY <2>2
  <1> HIDE DEF ids
  <1>4. ids = 0 .. n - 1
    <2>1. Cardinality(0 .. n - 1) <= Cardinality(ids)
      BY <1>2, FS_Subset DEF ids
    <2>2. Cardinality(ids) \in Nat
      BY <1>2, FS_CardinalityType
    <2>3. Cardinality(ids) = Cardinality(0 .. n - 1)
      BY <1>2, <1>3, <2>1, <2>2
    <2> QED
      BY <1>2, <1>3, <2>3, FS_Subset DEF ids
  <1> QED
    BY <1>4 DEF ids

\* A tensor that is yielded at once.
LEMMA YieldKeeps ==
  ASSUME model \in Models, NEW k \in Keys, Sources(k) \subseteq model.checkpoint,
         NEW rows, rows = Content(k, rank),
         HeldExperts(expertBuf), HeldState(state), IsFiniteSet(expertBuf), Yield(k, rows)
  PROVE  /\ HeldExperts(expertBuf') /\ HeldState(state') /\ IsFiniteSet(expertBuf')
         /\ \A t \in Tensors :
              Done(t, expertBuf, state) \/ MergedKey(t) = k => Done(t, expertBuf', state')
  <1> DEFINE new == [key |-> k, value |-> <<rows>>]
  <1>1. /\ k.expert = None \/ model.experts = 0
        /\ state' = state \cup {new} /\ expertBuf' = expertBuf
    BY DEF Yield
  <1>2. k.expert # Every
    BY PackedFacts
  <1>3. new.key = k /\ AllSources(k) \subseteq model.checkpoint /\ new.value = Value(k, rank)
    BY <1>2 DEF AllSources, Value
  <1> HIDE DEF new
  <1>4. HeldState(state')
    BY <1>1, <1>3 DEF HeldState
  <1>5. ASSUME NEW t \in Tensors, MergedKey(t) = k PROVE Yielded(t, state')
    <2>1. t.expert = k.expert
      BY <1>5, KeyFacts
    <2>2. Target(t) = k
      BY <1>1, <1>5, <2>1 DEF Target
    <2> QED
      BY <1>1, <1>2, <1>3, <2>2 DEF Yielded
  <1>6. ASSUME NEW t \in Tensors, Done(t, expertBuf, state) PROVE Done(t, expertBuf', state')
    BY <1>1, <1>6 DEF Done, Yielded
  <1> QED
    BY <1>1, <1>4, <1>5, <1>6 DEF Done

\* A tensor that is stacked with those of other experts.
LEMMA PackKeeps ==
  ASSUME model \in Models, NEW k \in Keys, Sources(k) \subseteq model.checkpoint,
         NEW rows, rows = Content(k, rank),
         HeldExperts(expertBuf), HeldState(state), IsFiniteSet(expertBuf), Pack(k, rows)
  PROVE  /\ HeldExperts(expertBuf') /\ HeldState(state') /\ IsFiniteSet(expertBuf')
         /\ \A t \in Tensors :
              Done(t, expertBuf, state) \/ MergedKey(t) = k => Done(t, expertBuf', state')
  <1> DEFINE p == PackedKey(k)
             new == [key |-> p, idx |-> k.expert, rows |-> rows]
             stack == {x \in expertBuf : x.key = p} \cup {new}
             whole == Cardinality(stack) = model.experts
             known == Experts \subseteq {x.idx : x \in stack}
             got(i) == (CHOOSE x \in stack : x.idx = i - 1).rows
             param == [key |-> p, value |-> [i \in 1 .. model.experts |-> got(i)]]
  <1>1. /\ k.expert # None /\ model.experts # 0
        /\ expertBuf' = IF whole /\ known THEN expertBuf \ stack ELSE expertBuf \cup stack
        /\ state' = IF whole /\ known THEN state \cup {param} ELSE state
    BY DEF Pack
  <1>2. model.experts \in Nat /\ Experts = 0 .. model.experts - 1
    BY <1>1, ModelFacts DEF Experts
  <1>3. p.expert = Every /\ p.layer = k.layer /\ p.name = k.name /\ k.expert \in Nat
    BY <1>1, PackedFacts DEF Keys
  <1>4. new.key = p /\ new.idx = k.expert /\ new.rows = Content(k, rank)
    OBVIOUS
  <1>5. HeldExperts(stack)
    <2>1. ASSUME NEW x \in stack
          PROVE  \E m \in Keys : /\ m.expert \in Nat /\ Sources(m) \subseteq model.checkpoint
                                 /\ x = [key |-> PackedKey(m), idx |-> m.expert, rows |-> Content(m, rank)]
      <3>1. CASE x = new
        BY <1>3, <3>1
      <3>2. CASE x \in expertBuf
        BY <3>2 DEF HeldExperts
      <3> QED
        BY <3>1, <3>2
    <2> HIDE DEF stack
    <2> QED
      BY <2>1 DEF HeldExperts
  <1>6. IsFiniteSet(stack)
    <2>1. IsFiniteSet({x \in expertBuf : x.key = p})
      BY FS_Subset
    <2> QED
      BY <2>1, FS_AddElement
  <1>7. new \in stack /\ \A x \in stack : x.key = p
    BY <1>4
  <1> HIDE DEF p, new, stack, whole, known
  <1>8. IsFiniteSet(expertBuf')
    <2>1. IsFiniteSet(expertBuf \ stack) /\ IsFiniteSet(expertBuf \cup stack)
      BY <1>6, FS_Difference, FS_Union
    <2> QED
      BY <1>1, <2>1
  <1>9. HeldExperts(expertBuf')
    BY <1>1, <1>5 DEF HeldExperts
  <1>10. ASSUME known, NEW i \in 1 .. model.experts
         PROVE  got(i) = Content(T(p.layer, i - 1, p.name), rank)
                /\ Sources(T(p.layer, i - 1, p.name)) \subseteq model.checkpoint
    <2>1. i - 1 \in Experts
      BY <1>2
    <2>2. \E x \in stack : x.idx = i - 1
      BY <1>10, <2>1 DEF known
    <2> DEFINE x == CHOOSE y \in stack : y.idx = i - 1
    <2>3. x \in stack /\ x.idx = i - 1
      BY <2>2
    <2> HIDE DEF x
    <2>4. PICK m \in Keys : /\ Sources(m) \subseteq model.checkpoint
                            /\ x = [key |-> PackedKey(m), idx |-> m.expert, rows |-> Content(m, rank)]
      BY <1>5, <2>3 DEF HeldExperts
    <2>5. PackedKey(m) = p /\ m.expert = i - 1
      BY <1>7, <2>3, <2>4
    <2>6. m = T(p.layer, i - 1, p.name)
      BY <2>5, PackedFacts
    <2>7. got(i) = x.rows
      BY DEF x
    <2> QED
      BY <2>4, <2>6, <2>7
  <1>11. ASSUME known
         PROVE  AllSources(p) \subseteq model.checkpoint /\ param.value = Value(p, rank)
    <2>1. \A i \in 1 .. model.experts : /\ got(i) = Content(T(p.layer, i - 1, p.name), rank)
                                        /\ Sources(T(p.layer, i - 1, p.name)) \subseteq model.checkpoint
      BY <1>10, <1>11
    <2>2. AllSources(p) \subseteq model.checkpoint
      BY <1>3, <2>1 DEF AllSources
    <2> HIDE DEF got
    <2>3. param.value = [i \in 1 .. model.experts |-> got(i)]
      OBVIOUS
    <2>4. [i \in 1 .. model.experts |-> got(i)]
            = [i \in 1 .. model.experts |-> Content(T(p.layer, i - 1, p.name), rank)]
      BY <2>1
    <2> QED
      BY <1>3, <2>2, <2>3, <2>4 DEF Value
  <1>12. param.key = p
    OBVIOUS
  <1> HIDE DEF param, got
  <1>13. HeldState(state')
    <2>1. CASE whole /\ known
      <3>1. state' = state \cup {param}
        BY <1>1, <2>1
      <3> QED
        BY <1>11, <1>12, <2>1, <3>1 DEF HeldState
    <2>2. CASE ~(whole /\ known)
      BY <1>1, <2>2
    <2> QED
      BY <2>1, <2>2
  <1>14. ASSUME whole, known, NEW t \in Tensors, NEW x \in stack,
                PackedKey(MergedKey(t)) = p, x.idx = t.expert
         PROVE  Yielded(t, state')
    <2>1. \A y \in stack : y.idx \in 0 .. model.experts - 1
      BY <1>2, <1>6, <1>14, OnlyExperts DEF whole, known
    <2>2. t.expert \in Experts /\ t.expert # None
      BY <1>2, <1>14, <2>1, MarksAssumption
    <2>3. Target(t) = p
      BY <1>1, <1>14, <2>2 DEF Target
    <2>4. param \in state'
      BY <1>1, <1>14
    <2> QED
      BY <1>12, <2>2, <2>3, <2>4 DEF Yielded
  <1>15. ASSUME NEW t \in Tensors, MergedKey(t) = k PROVE Done(t, expertBuf', state')
    <2>1. PackedKey(MergedKey(t)) = p /\ new.idx = t.expert
      BY <1>4, <1>15, KeyFacts DEF p
    <2>2. CASE whole /\ known
      BY <1>7, <1>14, <2>1, <2>2 DEF Done
    <2>3. CASE ~(whole /\ known)
      <3>1. new \in expertBuf' /\ new.key = p
        BY <1>1, <1>4, <1>7, <2>3
      <3> QED
        BY <2>1, <3>1 DEF Done, Stacked
    <2> QED
      BY <2>2, <2>3
  <1>16. ASSUME NEW t \in Tensors, Yielded(t, state) PROVE Yielded(t, state')
    BY <1>1, <1>16 DEF Yielded
  <1>17. ASSUME NEW t \in Tensors, Stacked(t, expertBuf) PROVE Done(t, expertBuf', state')
    <2>1. PICK x \in expertBuf : x.key = PackedKey(MergedKey(t)) /\ x.idx = t.expert
      BY <1>17 DEF Stacked
    <2>2. CASE x \in expertBuf'
      BY <2>1, <2>2 DEF Done, Stacked
    <2>3. CASE x \notin expertBuf'
      <3>1. whole /\ known /\ x \in stack
        BY <1>1, <2>3
      <3>2. PackedKey(MergedKey(t)) = p
        BY <1>7, <2>1, <3>1
      <3> QED
        BY <1>14, <2>1, <3>1, <3>2 DEF Done
    <2> QED
      BY <2>2, <2>3
  <1> QED
    BY <1>8, <1>9, <1>13, <1>15, <1>16, <1>17 DEF Done

LEMMA EmitKeeps ==
  ASSUME model \in Models, NEW k \in Keys, Sources(k) \subseteq model.checkpoint,
         NEW rows, rows = Content(k, rank),
         HeldExperts(expertBuf), HeldState(state), IsFiniteSet(expertBuf), Emit(k, rows)
  PROVE  /\ HeldExperts(expertBuf') /\ HeldState(state') /\ IsFiniteSet(expertBuf')
         /\ \A t \in Tensors :
              Done(t, expertBuf, state) \/ MergedKey(t) = k => Done(t, expertBuf', state')
  BY YieldKeeps, PackKeeps DEF Emit

\* Two and three sequences, one behind the other.
LEMMA FlattenTwo ==
  ASSUME NEW s, Len(s) = 2
  PROVE  FlattenSeq(s) = s[1] \o s[2]
  <1> DEFINE rule(f) == f = [i \in 1 .. 2 |-> IF i = 1 THEN s[i] ELSE f[i - 1] \o s[i]]
             g == [i \in 1 .. 2 |-> IF i = 1 THEN s[1] ELSE s[1] \o s[2]]
             it == CHOOSE f : rule(f)
  <1>1. FlattenSeq(s) = it[2]
    BY DEF FlattenSeq
  <1>2. rule(g)
    <2>1. \A i \in 1 .. 2 : g[i] = IF i = 1 THEN s[i] ELSE g[i - 1] \o s[i]
      OBVIOUS
    <2> QED
      BY <2>1
  <1> HIDE DEF g
  <1>3. it = [i \in 1 .. 2 |-> IF i = 1 THEN s[i] ELSE it[i - 1] \o s[i]]
    BY <1>2
  <1> HIDE DEF it
  <1>4. it[1] = s[1] /\ it[2] = it[1] \o s[2]
    BY <1>3
  <1> QED
    BY <1>1, <1>4

LEMMA FlattenThree ==
  ASSUME NEW s, Len(s) = 3
  PROVE  FlattenSeq(s) = (s[1] \o s[2]) \o s[3]
  <1> DEFINE rule(f) == f = [i \in 1 .. 3 |-> IF i = 1 THEN s[i] ELSE f[i - 1] \o s[i]]
             g == [i \in 1 .. 3 |-> IF i = 1 THEN s[1] ELSE IF i = 2 THEN s[1] \o s[2]
                                    ELSE (s[1] \o s[2]) \o s[3]]
             it == CHOOSE f : rule(f)
  <1>1. FlattenSeq(s) = it[3]
    BY DEF FlattenSeq
  <1>2. rule(g)
    <2>1. \A i \in 1 .. 3 : g[i] = IF i = 1 THEN s[i] ELSE g[i - 1] \o s[i]
      OBVIOUS
    <2> QED
      BY <2>1
  <1> HIDE DEF g
  <1>3. it = [i \in 1 .. 3 |-> IF i = 1 THEN s[i] ELSE it[i - 1] \o s[i]]
    BY <1>2
  <1> HIDE DEF it
  <1>4. \A i \in 1 .. 3 : it[i] = IF i = 1 THEN s[i] ELSE it[i - 1] \o s[i]
    BY <1>3
  <1>5. it[1] = s[1] /\ it[2] = it[2 - 1] \o s[2] /\ it[3] = it[3 - 1] \o s[3]
    BY <1>4
  <1>6. 2 - 1 = 1 /\ 3 - 1 = 2
    OBVIOUS
  <1>7. it[2] = s[1] \o s[2] /\ it[3] = it[2] \o s[3]
    BY ONLY <1>5, <1>6, Zenon
  <1> QED
    BY ONLY <1>1, <1>7, Zenon

\* Which names are merged, and into what.
LEMMA SlotFacts ==
  ASSUME NEW t \in Tensors
  PROVE  /\ Slots(t.name) # << >> <=> t.name \in {"q", "k", "v", "gate", "up"}
         /\ t.name \in {"q", "k", "v"} => Slots(t.name) = <<"q", "k", "v">> /\ MergedName(t.name) = "qkv"
         /\ t.name \in {"gate", "up"} => Slots(t.name) = <<"gate", "up">> /\ MergedName(t.name) = "gate_up"
         /\ t.name \notin {"q", "k", "v", "gate", "up"} => MergedName(t.name) = t.name /\ t \in Keys
  <1>1. <<"q", "k", "v">> # << >> /\ <<"gate", "up">> # << >>
    OBVIOUS
  <1>2. t.name \notin {"q", "k", "v", "gate", "up"} => t \in Keys
    BY DEF Tensors, Keys
  <1> QED
    BY <1>1, <1>2 DEF Slots, MergedName

\* What has been read of the group of t.
LEMMA GroupFacts ==
  ASSUME model \in Models, NEW t \in model.checkpoint, Slots(t.name) # << >>, HeldParts(mergeBuf),
         NEW h \in Group(t)
  PROVE  /\ h.key = MergedKey(t)
         /\ T(t.layer, t.expert, h.slot) \in model.checkpoint
         /\ h.rows = Part(MergedKey(t), h.slot, rank)
         /\ \E u \in model.checkpoint :
              /\ Slots(u.name) # << >>
              /\ h = [key |-> MergedKey(u), slot |-> u.name, rows |-> ShardTensor(u, rank)]
  <1>1. PICK u \in model.checkpoint :
          /\ Slots(u.name) # << >>
          /\ h = [key |-> MergedKey(u), slot |-> u.name, rows |-> ShardTensor(u, rank)]
    BY DEF Group, HeldParts
  <1>2. h.key = MergedKey(t)
    BY DEF Group
  <1>3. u \in Tensors /\ t \in Tensors
    BY ModelFacts
  <1>4. u.layer = t.layer /\ u.expert = t.expert
    BY <1>1, <1>2, <1>3, KeyFacts
  <1>5. u = T(u.layer, u.expert, u.name)
    BY <1>3 DEF Tensors, T
  <1>6. h.slot = u.name /\ h.rows = ShardTensor(u, rank)
    BY <1>1
  <1>7. MergedKey(t).layer = t.layer /\ MergedKey(t).expert = t.expert
    BY <1>3, KeyFacts
  <1> QED
    BY <1>1, <1>2, <1>4, <1>5, <1>6, <1>7 DEF Part

\* A group that is whole makes the merged tensor.
LEMMA ConcatFacts ==
  ASSUME model \in Models, NEW t \in model.checkpoint, Slots(t.name) # << >>, HeldParts(mergeBuf),
         {h.slot : h \in Group(t)} = ToSet(Slots(t.name))
  PROVE  /\ Concat(Group(t), Slots(t.name)) = Content(MergedKey(t), rank)
         /\ Sources(MergedKey(t)) \subseteq model.checkpoint
  <1> DEFINE k == MergedKey(t)
             slots == Slots(t.name)
             got(x) == (CHOOSE h \in Group(t) : h.slot = x).rows
             f == [i \in 1 .. Len(slots) |-> got(slots[i])]
  <1>1. t \in Tensors /\ Concat(Group(t), slots) = FlattenSeq(f)
    BY ModelFacts DEF Concat
  <1>2. ASSUME NEW x \in ToSet(slots)
        PROVE  got(x) = Part(k, x, rank) /\ T(t.layer, t.expert, x) \in model.checkpoint
    <2> DEFINE h == CHOOSE y \in Group(t) : y.slot = x
    <2>1. h \in Group(t) /\ h.slot = x
      <3>1. \E y \in Group(t) : y.slot = x
        OBVIOUS
      <3> QED
        BY <3>1
    <2> HIDE DEF h
    <2>2. h.rows = Part(k, x, rank) /\ T(t.layer, t.expert, x) \in model.checkpoint
      BY <2>1, GroupFacts
    <2> QED
      BY <2>2 DEF h
  <1>3. k.layer = t.layer /\ k.expert = t.expert /\ k.name = MergedName(t.name)
    BY <1>1, KeyFacts
  <1> HIDE DEF got, k
  <1>4. CASE t.name \in {"q", "k", "v"}
    <2>1. slots = <<"q", "k", "v">> /\ k.name = "qkv"
      BY <1>1, <1>3, <1>4, SlotFacts
    <2> HIDE DEF slots
    <2>2. Len(slots) = 3 /\ slots[1] = "q" /\ slots[2] = "k" /\ slots[3] = "v"
          /\ ToSet(slots) = {"q", "k", "v"}
      BY <2>1 DEF ToSet
    <2>3. Len(f) = 3 /\ f[1] = got("q") /\ f[2] = got("k") /\ f[3] = got("v")
      BY <2>2
    <2> HIDE DEF f
    <2>4. FlattenSeq(f) = (got("q") \o got("k")) \o got("v")
      BY <2>3, FlattenThree
    <2>5. \A x \in {"q", "k", "v"} :
            got(x) = Part(k, x, rank) /\ T(t.layer, t.expert, x) \in model.checkpoint
      BY <1>2, <2>2
    <2>6. Sources(k) = {T(k.layer, k.expert, x) : x \in {"q", "k", "v"}}
      BY <2>1 DEF Sources
    <2>7. Content(k, rank) = (Part(k, "q", rank) \o Part(k, "k", rank)) \o Part(k, "v", rank)
      BY <2>1 DEF Content
    <2> QED
      BY <1>1, <1>3, <2>4, <2>5, <2>6, <2>7 DEF k, slots
  <1>5. CASE t.name \in {"gate", "up"}
    <2>1. slots = <<"gate", "up">> /\ k.name = "gate_up"
      BY <1>1, <1>3, <1>5, SlotFacts
    <2> HIDE DEF slots
    <2>2. Len(slots) = 2 /\ slots[1] = "gate" /\ slots[2] = "up" /\ ToSet(slots) = {"gate", "up"}
      BY <2>1 DEF ToSet
    <2>3. Len(f) = 2 /\ f[1] = got("gate") /\ f[2] = got("up")
      BY <2>2
    <2> HIDE DEF f
    <2>4. FlattenSeq(f) = got("gate") \o got("up")
      BY <2>3, FlattenTwo
    <2>5. \A x \in {"gate", "up"} :
            got(x) = Part(k, x, rank) /\ T(t.layer, t.expert, x) \in model.checkpoint
      BY <1>2, <2>2
    <2>6. Sources(k) = {T(k.layer, k.expert, x) : x \in {"gate", "up"}}
      BY <2>1 DEF Sources
    <2>7. Content(k, rank) = Part(k, "gate", rank) \o Part(k, "up", rank)
      BY <2>1 DEF Content
    <2> QED
      BY <1>1, <1>3, <2>4, <2>5, <2>6, <2>7 DEF k, slots
  <1> QED
    BY <1>1, <1>4, <1>5, SlotFacts

\* No tensor that was read is lost.
Kept(t, parts, buf, dict) ==
  t.name = "vision" \/ (\E h \in parts : h.key = MergedKey(t)) \/ Done(t, buf, dict)

LEMMA ReadKeeps ==
  ASSUME model \in Models, NEW t \in model.checkpoint, HeldParts(mergeBuf),
         HeldExperts(expertBuf), HeldState(state), IsFiniteSet(expertBuf), Read(t)
  PROVE  /\ HeldParts(mergeBuf') /\ HeldExperts(expertBuf') /\ HeldState(state')
         /\ IsFiniteSet(expertBuf')
         /\ \A u \in Tensors :
              Kept(u, mergeBuf, expertBuf, state) \/ u = t => Kept(u, mergeBuf', expertBuf', state')
  <1>1. t \in Tensors
    BY ModelFacts
  <1>2. CASE SkipVision(t)
    BY <1>2 DEF SkipVision, Kept
  <1>3. CASE ReadPlain(t)
    <2>1. Slots(t.name) = << >> /\ Emit(t, ShardTensor(t, rank)) /\ mergeBuf' = mergeBuf
      BY <1>3 DEF ReadPlain
    <2>2. t.name \notin {"q", "k", "v", "gate", "up"} /\ t \in Keys
      BY <1>1, <2>1, SlotFacts
    <2>3. MergedKey(t) = t
      BY <1>1, <2>2, SlotFacts DEF MergedKey, Tensors
    <2>4. Sources(t) = {t} /\ Content(t, rank) = ShardTensor(t, rank)
      <3>1. t.name # "qkv" /\ t.name # "gate_up"
        BY <1>1 DEF Tensors
      <3> QED
        BY <3>1 DEF Sources, Content
    <2>5. /\ HeldExperts(expertBuf') /\ HeldState(state') /\ IsFiniteSet(expertBuf')
          /\ \A u \in Tensors :
               Done(u, expertBuf, state) \/ MergedKey(u) = t => Done(u, expertBuf', state')
      BY <2>1, <2>2, <2>4, EmitKeeps
    <2> QED
      BY <2>1, <2>3, <2>5 DEF Kept
  <1>4. CASE ReadSlot(t)
    <2> DEFINE k == MergedKey(t)
    <2>1. Slots(t.name) # << >> /\ k \in Keys
      BY <1>1, <1>4, KeyFacts DEF ReadSlot
    <2>2. HeldParts(Group(t))
      BY <2>1, GroupFacts DEF HeldParts
    <2>3. \A h \in Group(t) : h.key = k
      BY <2>1, GroupFacts
    <2>4. \E h \in Group(t) : h.key = k
      <3> DEFINE new == [key |-> k, slot |-> t.name, rows |-> ShardTensor(t, rank)]
      <3>1. new.key = k
        OBVIOUS
      <3>2. new \in Group(t)
        BY DEF Group
      <3> QED
        BY <3>1, <3>2
    <2>5. CASE {h.slot : h \in Group(t)} # ToSet(Slots(t.name))
      <3>1. mergeBuf' = mergeBuf \cup Group(t) /\ expertBuf' = expertBuf /\ state' = state
        BY <1>4, <2>5 DEF ReadSlot
      <3>2. HeldParts(mergeBuf')
        BY <2>2, <3>1 DEF HeldParts
      <3> QED
        BY <2>4, <3>1, <3>2 DEF Kept
    <2>6. CASE {h.slot : h \in Group(t)} = ToSet(Slots(t.name))
      <3>1. mergeBuf' = mergeBuf \ Group(t) /\ Emit(k, Concat(Group(t), Slots(t.name)))
        BY <1>4, <2>6 DEF ReadSlot
      <3>2. HeldParts(mergeBuf')
        BY <3>1 DEF HeldParts
      <3>3. Concat(Group(t), Slots(t.name)) = Content(k, rank) /\ Sources(k) \subseteq model.checkpoint
        BY <2>1, <2>6, ConcatFacts
      <3> HIDE DEF k
      <3>4. /\ HeldExperts(expertBuf') /\ HeldState(state') /\ IsFiniteSet(expertBuf')
            /\ \A u \in Tensors :
                 Done(u, expertBuf, state) \/ MergedKey(u) = k => Done(u, expertBuf', state')
        BY <2>1, <3>1, <3>3, EmitKeeps
      <3>5. ASSUME NEW u \in Tensors, NEW h \in mergeBuf, h.key = MergedKey(u), MergedKey(u) # k
            PROVE  h \in mergeBuf'
        BY <2>3, <3>1, <3>5
      <3> QED
        BY <3>2, <3>4, <3>5 DEF Kept, k
    <2> QED
      BY <2>5, <2>6
  <1> QED
    BY <1>2, <1>3, <1>4 DEF Read

-----------------------------------------------------------------------------
(* What a complete state dict says of the checkpoint.                      *)

LEMMA NeededMembers ==
  ASSUME NEW t
  PROVE  t \in Needed <=>
           \/ \E l \in Layers : t \in AttentionTensors(l) \/ t \in MLPTensors(l)
           \/ t \in Outer \cup (IF model.tied THEN {} ELSE {LMHead})
  <1> DEFINE of(l) == AttentionTensors(l) \cup MLPTensors(l)
             blocks == UNION {of(l) : l \in Layers}
             head == IF model.tied THEN {} ELSE {LMHead}
  <1>1. Needed = blocks \cup Outer \cup head
    BY DEF Needed
  <1>2. \A l : t \in of(l) <=> t \in AttentionTensors(l) \/ t \in MLPTensors(l)
    OBVIOUS
  <1> HIDE DEF of
  <1>3. t \in blocks <=> \E l \in Layers : t \in of(l)
    OBVIOUS
  <1> HIDE DEF blocks, head
  <1>4. t \in Needed <=> t \in blocks \/ t \in Outer \cup head
    BY <1>1
  <1> QED
    BY <1>2, <1>3, <1>4 DEF head

\* Each tensor of the model is a source of one of its parameters.
LEMMA NeededSources ==
  ASSUME model \in Models, NEW t \in Needed
  PROVE  \E p \in ModelParams : t \in AllSources(p)
  <1> DEFINE E == model.experts
  <1>1. E \in Nat
    BY ModelFacts
  <1>2. ASSUME NEW l, NEW x PROVE T(l, None, x).expert # Every /\ T(l, None, x).name = x
                                  /\ T(l, None, x).layer = l /\ T(l, None, x).expert = None
    BY MarksAssumption DEF T
  <1>3. ASSUME NEW l, NEW x, x \in {"o", "norm", "router", "embed", "head"}
        PROVE  T(l, None, x) \in AllSources(T(l, None, x))
    BY <1>2, <1>3 DEF AllSources, Sources
  <1>4. ASSUME NEW l \in Layers, t \in AttentionTensors(l) PROVE \E p \in ModelParams : t \in AllSources(p)
    <2>1. PICK x \in {"q", "k", "v", "o", "norm"} : t = T(l, None, x)
      BY <1>4 DEF AttentionTensors
    <2>2. CASE x \in {"o", "norm"}
      <3>1. t \in ModelParams
        BY <2>1, <2>2 DEF ModelParams
      <3> QED
        BY <1>3, <2>1, <2>2, <3>1
    <2>3. CASE x \in {"q", "k", "v"}
      <3>1. T(l, None, "qkv") \in ModelParams
        BY DEF ModelParams
      <3>2. AllSources(T(l, None, "qkv")) = {T(l, None, y) : y \in {"q", "k", "v"}}
        BY <1>2 DEF AllSources, Sources
      <3> QED
        BY <2>1, <2>3, <3>1, <3>2
    <2> QED
      BY <2>1, <2>2, <2>3
  <1>5. ASSUME NEW l \in Layers, t \in MLPTensors(l) PROVE \E p \in ModelParams : t \in AllSources(p)
    <2>1. CASE t \in (IF E = 0 THEN {} ELSE {T(l, None, "router")})
      <3>1. t = T(l, None, "router") /\ t \in ModelParams
        BY <2>1 DEF ModelParams
      <3> QED
        BY <1>3, <3>1
    <2>2. ASSUME NEW e \in Experts, NEW x \in {"gate", "up", "down"}, t = T(l, e, x)
          PROVE  \E p \in ModelParams : t \in AllSources(p)
      <3> DEFINE y == IF x = "down" THEN "down" ELSE "gate_up"
                 p == MLPParam(l, y)
      <3>1. p \in ModelParams
        BY DEF ModelParams
      <3>2. \A i : t = T(l, i, x) => t \in Sources(T(l, i, y))
        BY DEF Sources, T
      <3>3. CASE E = 0
        <4>1. e = None /\ p = T(l, None, y)
          BY <3>3 DEF Experts, MLPParam
        <4>2. AllSources(p) = Sources(T(l, None, y))
          BY <1>2, <4>1 DEF AllSources
        <4> QED
          BY <2>2, <3>1, <3>2, <4>1, <4>2
      <3>4. CASE E # 0
        <4>1. e \in 0 .. E - 1 /\ p = T(l, Every, y)
          BY <3>4 DEF Experts, MLPParam
        <4>2. p.expert = Every /\ p.layer = l /\ p.name = y
          BY <4>1 DEF T
        <4> HIDE DEF p, y
        <4>3. e + 1 \in 1 .. E /\ (e + 1) - 1 = e
          BY <1>1, <4>1
        <4>4. AllSources(p) = UNION {Sources(T(l, i - 1, y)) : i \in 1 .. E}
          BY <4>2 DEF AllSources
        <4>5. Sources(T(l, (e + 1) - 1, y)) \subseteq AllSources(p)
          BY <4>3, <4>4
        <4> QED
          BY <2>2, <3>1, <3>2, <4>3, <4>5
      <3> QED
        BY <3>3, <3>4
    <2> QED
      BY <1>5, <2>1, <2>2 DEF MLPTensors
  <1>6. ASSUME t \in Outer \cup (IF model.tied THEN {} ELSE {LMHead})
        PROVE  \E p \in ModelParams : t \in AllSources(p)
    <2>1. t \in ModelParams
      BY <1>6 DEF ModelParams
    <2>2. \E x \in {"norm", "embed", "head"} : t = T(None, None, x)
      BY <1>6 DEF Outer, LMHead
    <2> QED
      BY <1>3, <2>1, <2>2
  <1> QED
    BY <1>4, <1>5, <1>6, NeededMembers

\* And what ends up as a parameter of the model is one of its tensors.
LEMMA TargetNeeded ==
  ASSUME model \in Models, NEW t \in Tensors, Target(t) \in ModelParams,
         Target(t).expert = Every => t.expert \in Experts
  PROVE  t \in Needed
  <1> DEFINE m == MergedName(t.name)
             p == Target(t)
  <1>1. t = T(t.layer, t.expert, t.name) /\ t.expert \in Nat \cup {None}
    BY DEF T, Tensors
  <1>2. p.layer = t.layer /\ p.name = m /\ p.expert \in {t.expert, Every}
        /\ (p.expert = Every <=> ~(t.expert = None \/ model.experts = 0))
    <2>1. MergedKey(t) \in Keys /\ MergedKey(t).expert = t.expert /\ MergedKey(t).layer = t.layer
          /\ MergedKey(t).name = m /\ t.expert # Every
      BY KeyFacts
    <2>2. PackedKey(MergedKey(t)).expert = Every /\ PackedKey(MergedKey(t)).layer = t.layer
          /\ PackedKey(MergedKey(t)).name = m
      BY <2>1, PackedFacts
    <2> QED
      BY <2>1, <2>2 DEF Target
  <1>3. /\ m = "qkv" => t.name \in {"q", "k", "v"}
        /\ m = "gate_up" => t.name \in {"gate", "up"}
        /\ m \notin {"qkv", "gate_up"} => t.name = m
    BY DEF MergedName, Tensors
  <1> HIDE DEF m, p
  <1>4. CASE \E l \in Layers, x \in {"qkv", "o", "norm"} : p = T(l, None, x)
    <2>1. PICK l \in Layers, x \in {"qkv", "o", "norm"} : p = T(l, None, x)
      BY <1>4
    <2>2. t.layer = l /\ m = x /\ t.expert = None
      BY <1>2, <2>1, MarksAssumption DEF T
    <2>3. t.name \in {"q", "k", "v", "o", "norm"}
      BY <1>3, <2>2
    <2>4. t \in AttentionTensors(l)
      BY <1>1, <2>2, <2>3 DEF AttentionTensors
    <2> QED
      BY <2>4, NeededMembers
  <1>5. CASE \E l \in Layers, x \in {"gate_up", "down"} : p = MLPParam(l, x)
    <2>1. PICK l \in Layers, x \in {"gate_up", "down"} : p = MLPParam(l, x)
      BY <1>5
    <2>2. t.layer = l /\ m = x /\ t.expert \in Experts
      <3>1. CASE model.experts = 0
        <4>1. p = T(l, None, x)
          BY <2>1, <3>1 DEF MLPParam
        <4> QED
          BY <1>2, <3>1, <4>1, MarksAssumption DEF T, Experts
      <3>2. CASE model.experts # 0
        <4>1. p = T(l, Every, x)
          BY <2>1, <3>2 DEF MLPParam
        <4>2. p.layer = l /\ p.name = x /\ p.expert = Every
          BY <4>1 DEF T
        <4> QED
          BY <1>2, <4>2 DEF p
      <3> QED
        BY <3>1, <3>2
    <2>3. t.name \in {"gate", "up", "down"}
      BY <1>3, <2>2
    <2>4. t \in MLPTensors(l)
      BY <1>1, <2>2, <2>3 DEF MLPTensors
    <2> QED
      BY <2>4, NeededMembers
  <1>6. CASE model.experts # 0 /\ \E l \in Layers : p = T(l, None, "router")
    <2>1. PICK l \in Layers : p = T(l, None, "router")
      BY <1>6
    <2>2. t.layer = l /\ m = "router" /\ t.expert = None
      BY <1>2, <2>1, MarksAssumption DEF T
    <2>3. t = T(l, None, "router")
      BY <1>1, <1>3, <2>2
    <2>4. t \in MLPTensors(l)
      BY <1>6, <2>3 DEF MLPTensors
    <2> QED
      BY <2>4, NeededMembers
  <1>7. CASE p \in Outer \cup (IF model.tied THEN {} ELSE {LMHead})
    <2>1. PICK x \in {"norm", "embed", "head"} : p = T(None, None, x)
      BY <1>7 DEF Outer, LMHead
    <2>2. t.layer = None /\ m = x /\ t.expert = None
      BY <1>2, <2>1, MarksAssumption DEF T
    <2>3. t = p
      BY <1>1, <1>3, <2>1, <2>2
    <2> QED
      BY <1>7, <2>3, NeededMembers
  <1> QED
    BY <1>4, <1>5, <1>6, <1>7 DEF ModelParams, p


-----------------------------------------------------------------------------
(* The inductive invariant.                                                *)

\* What the ranks that have loaded have.
LoadedInv ==
  /\ rank \in Nat /\ rank <= model.n /\ Len(params) = rank /\ \E S : params \in Seq(S)
  /\ params # << >> => Buildable
  /\ HasValues /\ HasShapes /\ LoadsWhole

\* What the rank that loads has read, and that it has lost nothing of it.
ReadingInv ==
  /\ model \in Models /\ todo \subseteq model.checkpoint /\ IsFiniteSet(expertBuf)
  /\ ~failed => Buildable
  /\ HeldParts(mergeBuf) /\ HeldExperts(expertBuf) /\ HeldState(state)
  /\ rank \in Rank =>
       \A t \in model.checkpoint \ todo : Kept(t, mergeBuf, expertBuf, state)

LoadInv == ReadingInv /\ LoadedInv

LEMMA LoadInvInit == Init => LoadInv
  <1> SUFFICES ASSUME Init PROVE LoadInv
    OBVIOUS
  <1>1. model \in Models /\ rank = 0 /\ todo = model.checkpoint /\ mergeBuf = {} /\ expertBuf = {}
        /\ state = {} /\ params = << >> /\ failed = ~Buildable
    BY DEF Init
  <1>2. ReadingInv
    <2>1. IsFiniteSet({})
      BY FS_EmptySet
    <2> QED
      BY <1>1, <2>1 DEF ReadingInv, HeldParts, HeldExperts, HeldState
  <1>3. Len(params) = 0 /\ params \in Seq({}) /\ Loaded = {}
    BY <1>1 DEF Loaded
  <1>4. HasValues /\ HasShapes /\ LoadsWhole
    BY <1>1, <1>3 DEF HasValues, HasShapes, LoadsWhole
  <1>5. 0 \in Nat /\ 0 <= model.n
    BY <1>1, ModelFacts DEF Positive
  <1> QED
    BY <1>1, <1>2, <1>3, <1>4, <1>5 DEF LoadInv, LoadedInv

\* Nothing that was loaded changes while the next rank reads.
LEMMA LoadedStays ==
  ASSUME LoadedInv, model' = model, params' = params, rank' = rank
  PROVE  LoadedInv'
  <1>1. \A p, r : Value(p, r)' = Value(p, r)
    BY SameValue
  <1>2. Loaded' = Loaded /\ Rank' = Rank /\ ModelParams' = ModelParams /\ Buildable' = Buildable
    BY DEF Loaded, Rank, ModelParams, Buildable, Layers, MLPParam, Outer, LMHead
  <1>3. HasValues'
    BY <1>1, <1>2 DEF LoadedInv, HasValues, Param
  <1>4. \A p : Copies(p)' = Copies(p) /\ Size(p)' = Size(p)
    BY DEF Copies, Size, QKVSize, OProjSize, ColParallelSize, RowParallelSize, EmbeddingSize, LocalQ, LocalKV
  <1>5. HasShapes'
    BY <1>1, <1>2, <1>4 DEF LoadedInv, HasShapes
  <1>6. Needed' = Needed
    BY DEF Needed, AttentionTensors, MLPTensors, Layers, Experts, Outer, LMHead
  <1>7. LoadsWhole'
    BY <1>6 DEF LoadedInv, LoadsWhole
  <1> QED
    BY <1>2, <1>3, <1>5, <1>7 DEF LoadedInv

LEMMA ReadingStays ==
  ASSUME model' = model, rank' = rank, HeldParts(mergeBuf'), HeldExperts(expertBuf'), HeldState(state')
  PROVE  /\ HeldParts(mergeBuf)' /\ HeldExperts(expertBuf)' /\ HeldState(state)'
         /\ \A t : Kept(t, mergeBuf', expertBuf', state') => Kept(t, mergeBuf, expertBuf, state)'
  <1>1. HeldParts(mergeBuf)'
    <2>1. \A t, r : ShardTensor(t, r)' = ShardTensor(t, r)
      BY SameShard
    <2> QED
      BY <2>1 DEF HeldParts
  <1>2. HeldExperts(expertBuf)'
    <2>1. \A k, r : Content(k, r)' = Content(k, r)
      BY SameContent
    <2> QED
      BY <2>1 DEF HeldExperts
  <1>3. HeldState(state)'
    <2>1. \A p, r : Value(p, r)' = Value(p, r)
      BY SameValue
    <2>2. \A p : AllSources(p)' = AllSources(p)
      BY DEF AllSources
    <2> QED
      BY <2>1, <2>2 DEF HeldState
  <1>4. \A t : Kept(t, mergeBuf', expertBuf', state') => Kept(t, mergeBuf, expertBuf, state)'
    BY DEF Kept, Done, Stacked, Yielded, Target, Experts
  <1> QED
    BY <1>1, <1>2, <1>3, <1>4

LEMMA ReadStep ==
  ASSUME LoadInv, NEW t \in todo, Read(t)
  PROVE  LoadInv'
  <1>1. model \in Models /\ t \in model.checkpoint /\ LoadedInv /\ HeldParts(mergeBuf)
        /\ HeldExperts(expertBuf) /\ HeldState(state) /\ IsFiniteSet(expertBuf)
    BY DEF LoadInv, ReadingInv
  <1>2. ~failed /\ todo' = todo \ {t} /\ model' = model /\ rank' = rank /\ params' = params
    BY DEF Read
  <1>3. LoadedInv'
    BY <1>1, <1>2, LoadedStays
  <1>4. /\ HeldParts(mergeBuf') /\ HeldExperts(expertBuf') /\ HeldState(state')
        /\ IsFiniteSet(expertBuf')
        /\ \A u \in Tensors :
             Kept(u, mergeBuf, expertBuf, state) \/ u = t => Kept(u, mergeBuf', expertBuf', state')
    BY <1>1, ReadKeeps
  <1>5. /\ HeldParts(mergeBuf)' /\ HeldExperts(expertBuf)' /\ HeldState(state)'
        /\ \A u : Kept(u, mergeBuf', expertBuf', state') => Kept(u, mergeBuf, expertBuf, state)'
    BY <1>2, <1>4, ReadingStays
  <1>6. ASSUME rank \in Rank, NEW u \in model.checkpoint \ todo'
        PROVE  Kept(u, mergeBuf, expertBuf, state)'
    <2>1. u \in Tensors
      BY <1>1, ModelFacts
    <2>2. u = t \/ Kept(u, mergeBuf, expertBuf, state)
      BY <1>2, <1>6 DEF LoadInv, ReadingInv
    <2> QED
      BY <1>4, <1>5, <2>1, <2>2
  <1>7. Rank' = Rank /\ Buildable' = Buildable
    BY <1>2 DEF Rank, Buildable
  <1>8. Buildable /\ todo' \subseteq model.checkpoint
    BY <1>2 DEF LoadInv, ReadingInv
  <1>9. ReadingInv'
    BY <1>1, <1>2, <1>4, <1>5, <1>6, <1>7, <1>8 DEF ReadingInv
  <1> QED
    BY <1>3, <1>9 DEF LoadInv

\* A state dict that fits has the parameters, and the checkpoint was whole.
LEMMA FitsFacts ==
  ASSUME ReadingInv, Fits, todo = {}, rank \in Rank
  PROVE  /\ \A p \in ModelParams :
              /\ (CHOOSE x \in state : x.key = p).value = Value(p, rank)
              /\ \A i \in 1 .. Copies(p) : Len(Value(p, rank)[i]) = Size(p)
         /\ Needed \subseteq model.checkpoint
         /\ \A t \in model.checkpoint \ Needed : t.name = "vision" \/ (t = LMHead /\ model.tied)
  <1>1. /\ mergeBuf = {} /\ expertBuf = {} /\ model \in Models /\ HeldState(state)
        /\ \A t \in model.checkpoint : Kept(t, mergeBuf, expertBuf, state)
    BY DEF Fits, ReadingInv
  <1>2. ASSUME NEW p \in ModelParams
        PROVE  /\ (CHOOSE x \in state : x.key = p).value = Value(p, rank)
               /\ \A i \in 1 .. Copies(p) : Len(Value(p, rank)[i]) = Size(p)
               /\ AllSources(p) \subseteq model.checkpoint
    <2>1. PICK x \in state : /\ x.key = p
                             /\ \A i \in 1 .. Copies(p) : Len(x.value[i]) = Size(p)
      BY DEF Fits
    <2>2. x.value = Value(p, rank) /\ AllSources(p) \subseteq model.checkpoint
      BY <1>1, <2>1 DEF HeldState
    <2> DEFINE y == CHOOSE z \in state : z.key = p
    <2>3. y \in state /\ y.key = p
      BY <2>1
    <2> HIDE DEF y
    <2>4. y.value = Value(p, rank)
      BY <1>1, <2>3 DEF HeldState
    <2> QED
      BY <2>1, <2>2, <2>4 DEF y
  <1>3. Needed \subseteq model.checkpoint
    <2> SUFFICES ASSUME NEW t \in Needed PROVE t \in model.checkpoint
      OBVIOUS
    <2>1. PICK p \in ModelParams : t \in AllSources(p)
      BY <1>1, NeededSources
    <2> QED
      BY <1>2, <2>1
  <1>4. ASSUME NEW t \in model.checkpoint \ Needed, t.name # "vision"
        PROVE  t = LMHead /\ model.tied
    <2>1. t \in Tensors
      BY <1>1, ModelFacts
    <2>2. PICK x \in state : x.key = Target(t) /\ (x.key.expert = Every => t.expert \in Experts)
      BY <1>1, <1>4 DEF Kept, Done, Stacked, Yielded
    <2>3. Target(t) \notin ModelParams
      BY <1>1, <1>4, <2>1, <2>2, TargetNeeded
    <2>4. Target(t) = LMHead /\ model.tied
      <3>1. {y.key : y \in state} \ ModelParams \subseteq (IF model.tied THEN {LMHead} ELSE {})
        BY DEF Fits
      <3>2. Target(t) \in {y.key : y \in state} \ ModelParams
        BY <2>2, <2>3
      <3> QED
        BY <3>1, <3>2
    <2>5. /\ MergedKey(t) \in Keys /\ MergedKey(t).expert = t.expert /\ MergedKey(t).layer = t.layer
          /\ MergedKey(t).name = MergedName(t.name)
      BY <2>1, KeyFacts
    <2>6. PackedKey(MergedKey(t)).expert = Every
      BY <2>5, PackedFacts
    <2>7. LMHead.expert = None /\ LMHead.layer = None /\ LMHead.name = "head"
      BY DEF LMHead, T
    <2>8. Target(t) = MergedKey(t)
      BY <2>4, <2>6, <2>7, MarksAssumption DEF Target
    <2>9. t.layer = None /\ t.expert = None /\ t.name = "head"
      <3>1. MergedName(t.name) = "head" => t.name = "head"
        BY <2>1 DEF MergedName, Tensors
      <3> QED
        BY <2>4, <2>5, <2>7, <2>8, <3>1
    <2>10. t = [layer |-> t.layer, expert |-> t.expert, name |-> t.name]
      BY <2>1 DEF Tensors
    <2> QED
      BY <2>4, <2>9, <2>10 DEF LMHead, T
  <1> QED
    BY <1>2, <1>3, <1>4

LEMMA LoadStep ==
  ASSUME LoadInv, LoadStateDict
  PROVE  LoadInv'
  <1>1. /\ ReadingInv /\ LoadedInv /\ model \in Models /\ ~failed /\ todo = {} /\ rank \in Rank
        /\ model' = model /\ mergeBuf' = mergeBuf /\ expertBuf' = expertBuf
    BY DEF LoadInv, LoadStateDict, ReadingInv
  <1>2. CASE ~Fits
    <2>1. failed' = TRUE /\ params' = params /\ rank' = rank /\ todo' = todo /\ state' = state
      BY <1>2 DEF LoadStateDict
    <2>2. LoadedInv'
      BY <1>1, <2>1, LoadedStays
    <2>3. /\ HeldParts(mergeBuf') /\ HeldExperts(expertBuf') /\ HeldState(state')
          /\ \A t \in model.checkpoint \ todo : Kept(t, mergeBuf', expertBuf', state')
      BY <1>1, <2>1 DEF ReadingInv
    <2>4. ReadingInv'
      <3>1. /\ HeldParts(mergeBuf)' /\ HeldExperts(expertBuf)' /\ HeldState(state)'
            /\ \A t : Kept(t, mergeBuf', expertBuf', state') => Kept(t, mergeBuf, expertBuf, state)'
        BY <1>1, <2>1, <2>3, ReadingStays
      <3>2. \A t \in model'.checkpoint \ todo' : Kept(t, mergeBuf, expertBuf, state)'
        BY <1>1, <2>1, <2>3, <3>1
      <3>3. model' \in Models /\ todo' \subseteq model'.checkpoint /\ IsFiniteSet(expertBuf')
        BY <1>1, <2>1 DEF ReadingInv
      <3> QED
        BY <2>1, <3>1, <3>2, <3>3 DEF ReadingInv
    <2> QED
      BY <2>2, <2>4 DEF LoadInv
  <1>3. CASE Fits
    <2> DEFINE f == [p \in ModelParams |-> (CHOOSE x \in state : x.key = p).value]
    <2>1. /\ params' = Append(params, f) /\ rank' = rank + 1 /\ state' = {} /\ failed' = failed
          /\ todo' = IF rank + 1 \in Rank THEN model.checkpoint ELSE {}
      BY <1>3 DEF LoadStateDict
    <2>2. mergeBuf = {} /\ expertBuf = {} /\ Buildable
      BY <1>1, <1>3 DEF Fits, ReadingInv
    <2>3. ReadingInv'
      <3>1. Rank' = Rank /\ Buildable' = Buildable
        BY <1>1 DEF Rank, Buildable
      <3>2. HeldParts(mergeBuf)' /\ HeldExperts(expertBuf)' /\ HeldState(state)'
        BY <1>1, <2>1, <2>2 DEF HeldParts, HeldExperts, HeldState
      <3>3. IsFiniteSet(expertBuf)'
        BY <1>1 DEF ReadingInv
      <3>4. todo' \subseteq model.checkpoint /\ (rank' \in Rank => model.checkpoint \ todo' = {})
        BY <2>1
      <3> QED
        BY <1>1, <2>1, <2>2, <3>1, <3>2, <3>3, <3>4 DEF ReadingInv
    <2>4. /\ \A p \in ModelParams :
                f[p] = Value(p, rank) /\ \A i \in 1 .. Copies(p) : Len(Value(p, rank)[i]) = Size(p)
          /\ Needed \subseteq model.checkpoint
          /\ \A t \in model.checkpoint \ Needed : t.name = "vision" \/ (t = LMHead /\ model.tied)
      BY <1>1, <1>3, FitsFacts
    <2> HIDE DEF f
    <2>5. rank \in Nat /\ rank + 1 <= model.n /\ model.n \in Nat /\ Rank = 0 .. model.n - 1
          /\ Len(params) = rank
      BY <1>1, ModelFacts DEF Rank, Positive, LoadedInv
    <2>6. PICK S : params \in Seq(S)
      BY <1>1 DEF LoadedInv
    <2>7. /\ params' \in Seq(S \cup {f}) /\ Len(params') = rank + 1
          /\ params'[rank + 1] = f /\ \A i \in 1 .. rank : params'[i] = params[i]
      BY <2>1, <2>5, <2>6
    <2>8. \A p, r : Value(p, r)' = Value(p, r)
      BY <1>1, SameValue
    <2>9. /\ Rank' = Rank /\ ModelParams' = ModelParams /\ Buildable' = Buildable /\ Needed' = Needed
          /\ \A p : Copies(p)' = Copies(p) /\ Size(p)' = Size(p)
      <3>1. Rank' = Rank /\ ModelParams' = ModelParams /\ Buildable' = Buildable
        BY <1>1 DEF Rank, ModelParams, Buildable, Layers, MLPParam, Outer, LMHead
      <3>2. \A p : Copies(p)' = Copies(p) /\ Size(p)' = Size(p)
        BY <1>1 DEF Copies, Size, QKVSize, OProjSize, ColParallelSize, RowParallelSize,
                    EmbeddingSize, LocalQ, LocalKV
      <3>3. Needed' = Needed
        BY <1>1 DEF Needed, AttentionTensors, MLPTensors, Layers, Experts, Outer, LMHead
      <3> QED
        BY <3>1, <3>2, <3>3
    <2>10. Loaded = 0 .. rank - 1 /\ Loaded' = 0 .. rank
      BY <2>5, <2>7 DEF Loaded
    <2>11. ASSUME NEW r \in 0 .. rank
           PROVE  r \in Rank /\ \A p \in ModelParams :
                    /\ params'[r + 1][p] = Value(p, r)
                    /\ \A i \in 1 .. Copies(p) : Len(Value(p, r)[i]) = Size(p)
      <3>1. CASE r = rank
        BY <1>1, <2>4, <2>7, <3>1
      <3>2. CASE r # rank
        <4>1. r \in Loaded /\ r + 1 \in 1 .. rank
          BY <2>5, <2>10, <3>2
        <4>2. params'[r + 1] = params[r + 1]
          BY <2>7, <4>1
        <4> QED
          BY <1>1, <4>1, <4>2 DEF LoadedInv, HasValues, HasShapes, Param
      <3> QED
        BY <3>1, <3>2
    <2>12. HasValues' /\ HasShapes'
      BY <2>8, <2>9, <2>10, <2>11 DEF HasValues, HasShapes, Param
    <2>13. LoadsWhole'
      <3>1. LMHead' = LMHead
        BY DEF LMHead
      <3> QED
        BY <1>1, <2>4, <2>9, <3>1 DEF LoadsWhole
    <2>14. LoadedInv'
      <3>1. \E V : params' \in Seq(V)
        BY <2>7
      <3>2. rank' \in Nat /\ rank' <= model'.n /\ Len(params') = rank'
        BY <1>1, <2>1, <2>5, <2>7
      <3> QED
        BY <2>2, <2>9, <2>12, <2>13, <3>1, <3>2 DEF LoadedInv
    <2> QED
      BY <2>3, <2>14 DEF LoadInv
  <1> QED
    BY <1>2, <1>3

LEMMA StutterStep ==
  ASSUME LoadInv, UNCHANGED vars
  PROVE  LoadInv'
  <1>1. /\ model' = model /\ rank' = rank /\ todo' = todo /\ mergeBuf' = mergeBuf
        /\ expertBuf' = expertBuf /\ state' = state /\ params' = params /\ failed' = failed
    BY DEF vars
  <1>2. LoadedInv'
    BY <1>1, LoadedStays DEF LoadInv
  <1>3. ReadingInv
    BY DEF LoadInv
  <1>4. /\ HeldParts(mergeBuf') /\ HeldExperts(expertBuf') /\ HeldState(state')
    BY <1>1, <1>3 DEF ReadingInv
  <1>5. /\ HeldParts(mergeBuf)' /\ HeldExperts(expertBuf)' /\ HeldState(state)'
        /\ \A t : Kept(t, mergeBuf', expertBuf', state') => Kept(t, mergeBuf, expertBuf, state)'
    BY <1>1, <1>4, ReadingStays
  <1>6. Rank' = Rank /\ Buildable' = Buildable
    BY <1>1 DEF Rank, Buildable
  <1>7. rank \in Rank => \A t \in model.checkpoint \ todo : Kept(t, mergeBuf, expertBuf, state)'
    BY <1>1, <1>3, <1>5 DEF ReadingInv
  <1>8. ReadingInv'
    BY <1>1, <1>3, <1>5, <1>6, <1>7 DEF ReadingInv
  <1> QED
    BY <1>2, <1>8 DEF LoadInv

LEMMA LoadInvHolds == Spec => []LoadInv
  <1>1. ASSUME LoadInv, [Next]_vars PROVE LoadInv'
    BY <1>1, ReadStep, LoadStep, StutterStep DEF Next
  <1> QED
    BY <1>1, LoadInvInit, PTL DEF Spec

-----------------------------------------------------------------------------
(* The theorems.                                                           *)

\* Whatever the sizes, the number of ranks and the order of the files, and
\* whether KV heads are split or shared, dense or experts: what a layer
\* multiplies belongs together and each shard is held once (_shard_state_dict
\* and load_weight against the layers).
THEOREM ShardsMeetAlways == Spec => []ShardsMeet
  <1>1. LoadInv => ShardsMeet
    <2> SUFFICES ASSUME LoadInv PROVE ShardsMeet
      OBVIOUS
    <2>1. model \in Models /\ HasValues /\ Len(params) \in Nat /\ (params # << >> => Buildable)
      BY DEF LoadInv, LoadedInv, ReadingInv
    <2>2. CASE params # << >>
      BY <2>1, <2>2, HeadsMeetFacts, NeuronsMeetFacts, EachOnceFacts DEF ShardsMeet
    <2>3. CASE params = << >>
      <3>1. Len(params) = 0 /\ model.n # 0
        BY <2>1, <2>3, ModelFacts DEF Positive
      <3>2. Loaded = {} /\ ~AllLoaded
        BY <3>1 DEF Loaded, AllLoaded
      <3> QED
        BY <3>2 DEF ShardsMeet, HeadsMeet, NeuronsMeet, EachOnce
    <2> QED
      BY <2>2, <2>3
  <1> QED
    BY <1>1, LoadInvHolds, PTL

\* A token is embedded by exactly one rank, in its own row, and its logit
\* stands in its own column, for any vocabulary that loads (VocabParallelEmbedding,
\* ParallelLMHead against the slices of load_weight).
THEOREM VocabularyStays == Spec => []VocabularyInPlace
  <1>1. LoadInv => VocabularyInPlace
    <2> SUFFICES ASSUME LoadInv PROVE VocabularyInPlace
      OBVIOUS
    <2>1. model \in Models /\ HasValues /\ HasShapes
      BY DEF LoadInv, LoadedInv, ReadingInv
    <2> QED
      BY <2>1, TokensFoundFacts, LogitsInPlaceFacts DEF VocabularyInPlace
  <1> QED
    BY <1>1, LoadInvHolds, PTL

\* A rank that has loaded had every tensor of the model in its checkpoint, and
\* none the model has no place for (load_weight, load_state_dict).
THEOREM CheckpointWhole == Spec => []LoadsWhole
  <1>1. LoadInv => LoadsWhole
    BY DEF LoadInv, LoadedInv
  <1> QED
    BY <1>1, LoadInvHolds, PTL
=============================================================================
