--------------------------- MODULE MCWeightLoader ---------------------------
(* Small instances of WeightLoader for TLC. *)
EXTENDS WeightLoader

Dense == [n |-> 2, layers |-> 1, heads |-> 4, kvHeads |-> 2, headDim |-> 2,
          inter |-> 4, vocab |-> 4, experts |-> 0, tied |-> FALSE, checkpoint |-> {}]

Attention(l) == {T(l, None, x) : x \in {"q", "k", "v", "o", "norm"}}
MLP(l, e) == {T(l, e, x) : x \in {"gate", "up", "down"}}
Ends == {T(None, None, x) : x \in {"embed", "norm", "head"}}

Block == Attention(0) \cup MLP(0, None)
From(m, tensors) == [m EXCEPT !.checkpoint = tensors]

Vision == T(None, None, "vision")

\* KV heads split, KV heads replicated over four ranks, experts to pack.
Whole ==
  {From(Dense, Block \cup Ends \cup {Vision}),
   From([Dense EXCEPT !.tied = TRUE], Block \cup Ends),
   From([Dense EXCEPT !.n = 4], Block \cup Ends),
   From([Dense EXCEPT !.n = 1, !.layers = 2, !.tied = TRUE],
        Attention(0) \cup MLP(0, None) \cup Attention(1) \cup MLP(1, None)
          \cup (Ends \ {LMHead})),
   From([Dense EXCEPT !.experts = 2, !.tied = TRUE],
        Attention(0) \cup MLP(0, 0) \cup MLP(0, 1)
          \cup {T(0, None, "router"), T(None, None, "embed"), T(None, None, "norm")})}

\* A tensor missing or left over, a vocabulary the ranks cannot split evenly,
\* heads they cannot, experts with other numbers, experts and an MLP besides.
Broken ==
  {From(Dense, (Block \cup Ends) \ {t}) : t \in {T(0, None, "k"), T(0, None, "norm")}}
    \cup {From(Dense, Block \cup Ends \cup {T(1, None, "gate")}),
          From(Dense, Block \cup Ends \cup {T(0, None, "bias")}),
          From([Dense EXCEPT !.vocab = 3], Block \cup Ends),
          From([Dense EXCEPT !.heads = 3, !.kvHeads = 3], Block \cup Ends),
          From([Dense EXCEPT !.experts = 2],
               Attention(0) \cup MLP(0, 0) \cup Ends \cup {T(0, None, "router")}),
          From([Dense EXCEPT !.n = 1, !.experts = 2],
               MLP(0, 0) \cup MLP(0, 2) \cup {T(0, None, "router")}),
          From([Dense EXCEPT !.n = 1, !.experts = 1, !.tied = TRUE],
               Attention(0) \cup MLP(0, 0) \cup MLP(0, None)
                 \cup {T(0, None, "router"), T(None, None, "embed"), T(None, None, "norm")})}

AllModels == Whole \cup Broken
=============================================================================
