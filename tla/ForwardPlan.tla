----------------------------- MODULE ForwardPlan -----------------------------
(***************************************************************************)
(* What one forward pass reads and writes on the device, computed from the *)
(* scheduler's state once allocate_paged is done.                          *)
(*                                                                         *)
(*   scheduler/scheduler.py   _prepare_batch: positions, mappings, out_loc *)
(*   engine/engine.py         width of the page table, the dummy request   *)
(*   engine/graph.py          padding to the batch size of a CUDA graph    *)
(*   attention/*.py           sequence boundaries and page tables          *)
(*                                                                         *)
(* The plan is a function of the state, so this module adds operators and  *)
(* properties to Scheduler but neither variables nor actions.              *)
(***************************************************************************)
EXTENDS Scheduler

CONSTANTS
  GraphSizes,   \* graph_bs_list: the batch sizes graphs were captured for
  TableAlign    \* rows of the page table are a multiple of this many tokens (32)

ASSUME PlanAssumption ==
  GraphSizes \subseteq Nat \ {0} /\ IsFiniteSet(GraphSizes) /\ TableAlign \in Nat \ {0}

\* allocate_paged has given every request of the batch its pages.
Planned == pc = "grow" /\ cursor > Len(batch.reqs)

\* aligned_max_seq_len, for the page table and the token pool
Width == ((MaxSeqLen + TableAlign - 1) \div TableAlign) * TableAlign

\* The dummy request has the row behind the last slot, and a page behind the last.
Dummy == [row |-> MaxRunning, cached |-> 0, device |-> 1]

AsPlanned(r) == [row |-> slot[r], cached |-> cachedLen[r], device |-> deviceLen[r]]

CanUseGraph == /\ batch.phase = "decode" /\ GraphSizes # {}
               /\ Len(batch.reqs) <= Max(GraphSizes)

\* pad_batch: up to the next size a graph was captured for.
PaddedSize ==
  IF CanUseGraph THEN Min({n \in GraphSizes : n >= Len(batch.reqs)}) ELSE Len(batch.reqs)

PaddedReqs ==
  [i \in 1..PaddedSize |->
     IF i <= Len(batch.reqs) THEN AsPlanned(batch.reqs[i].req) ELSE Dummy]

-----------------------------------------------------------------------------
(* Addresses.                                                              *)

\* The entry of the page table for a position: a location in the KV buffer.
Location(row, pos) ==
  IF row = MaxRunning THEN NumPages * PageSize
  ELSE pageTable[row][pos \div PageSize + 1] * PageSize + (pos % PageSize)

Extent(q) == q.device - q.cached       \* Req.extend_len

PerToken(Value(_, _)) ==
  FlattenSeq([i \in 1..PaddedSize |->
    [j \in 1..Extent(PaddedReqs[i]) |-> Value(PaddedReqs[i], j)]])

PositionsFromZero == PerToken(LAMBDA q, j : j - 1)         \* mutant: positions of the extent

\* Position and row of each input token; together they address token pool and page table.
Positions == PerToken(LAMBDA q, j : q.cached + j - 1)
InputRows == PerToken(LAMBDA q, j : q.row)

\* batch.out_loc = page_table[input_mapping]: where keys and values go.
OutLoc == [k \in DOMAIN Positions |-> Location(InputRows[k], Positions[k])]

WriteAtLast(r, part, len) == len - 1                       \* mutant: over the last input

\* Where the token sampled for r goes in r's row: behind its last, or to the last
\* column (index -1) when nobody will read it.
WriteColumn(r, part, len) == IF ~part /\ CanDecode(r, len) THEN len ELSE Width - 1

\* The writes of the batch in flight: deviceLen has moved on by one since its launch,
\* but for a chunk, of which the next may have been added since.
InFlightWrites ==
  { [req |-> b.req, row |-> slot[b.req], col |-> WriteColumn(b.req, b.chunked, deviceLen[b.req] - 1)] :
      b \in ToSet(inFlight.reqs) }

-----------------------------------------------------------------------------
(* What the attention backends are told.                                   *)

SeqLensQ == [i \in 1..PaddedSize |-> Extent(PaddedReqs[i])]
SeqLensK == [i \in 1..PaddedSize |-> PaddedReqs[i].device]
CumSum(s) == [i \in 1..(Len(s) + 1) |-> SumFunctionOnSet(s, 1..(i - 1))]
AnyPrefill == batch.phase = "prefill"                      \* mutant: forgets hits and later chunks
NoCacheHit == \A i \in 1..PaddedSize : PaddedReqs[i].cached = 0

\* cu_seqlens_q, with its two short cuts
CuSeqLensQ ==
  IF Max(ToSet(SeqLensQ)) = 1 THEN [i \in 1..(PaddedSize + 1) |-> i - 1]
  ELSE IF NoCacheHit THEN CumSum(SeqLensK)
  ELSE CumSum(SeqLensQ)

\* get_last_indices: the tokens whose logits are sampled, counted from 0.
LastIndices == [i \in 1..PaddedSize |-> CuSeqLensQ[i + 1] - 1]

\* FlashInfer: the locations of all tokens of all requests.
Indices ==
  FlattenSeq([i \in 1..PaddedSize |->
    [j \in 1..SeqLensK[i] |-> Location(PaddedReqs[i].row, j - 1)]])

\* FlashAttention and TRT-LLM: every PageSize-th entry of the row, as a page.  All rows
\* have the columns the longest request needs.
PageColumns(i) ==
  [c \in 1..DivCeil(SeqLensK[i]) |-> Location(PaddedReqs[i].row, (c - 1) * PageSize) \div PageSize]
TableLen == DivCeil(Max(ToSet(SeqLensK)))

\* Columns of the page table a graph was captured with.
CaptureColumns == Width \div PageSize

\* Before a replay the batch is copied into the graph's input buffers, and its metadata
\* into those of the attention backend; both have the shape of the capture.
BuffersTakeBatch == Len(Positions) = PaddedSize
CaptureTakesTable == PaddedSize \in GraphSizes /\ TableLen <= CaptureColumns

-----------------------------------------------------------------------------
(* Properties.                                                             *)

\* Keys and values are written to pages that are neither free nor cached nor another
\* request's own, each location once; padding writes to the dummy page.  All of it
\* lies within the row of the page table (engine.py: "aligned to 128 bytes").
PlanWrites ==
  Planned =>
    LET own == {k \in DOMAIN OutLoc : InputRows[k] # MaxRunning}
    IN  /\ \A k, l \in own : OutLoc[k] = OutLoc[l] => k = l
        /\ \A k \in own :
             LET page == OutLoc[k] \div PageSize
             IN  /\ page \notin ToSet(freeSlots) \cup Range(tree.page)
                 /\ \A q \in held : slot[q] # InputRows[k] =>
                      \A j \in Private(q) : Row(q)[j] # page
        /\ \A k \in DOMAIN OutLoc \ own : OutLoc[k] \div PageSize = NumPages
        /\ \A r \in InBatch(batch) : Len(Row(r)) * PageSize <= Width

\* Attention is told where each request begins and ends, short cuts included, and the
\* tokens sampled are the last of each; both forms of the page table name the same
\* pages, and a graph's buffers hold the batch it replays.
PlanReads ==
  Planned =>
    /\ CuSeqLensQ = CumSum(SeqLensQ)
    /\ \A i \in 1..PaddedSize : Positions[LastIndices[i] + 1] = SeqLensK[i] - 1
    /\ \A i \in 1..PaddedSize, j \in 1..Max(ToSet(SeqLensK)) : j <= SeqLensK[i] =>
         Indices[CumSum(SeqLensK)[i] + j] =
           PageColumns(i)[(j - 1) \div PageSize + 1] * PageSize + ((j - 1) % PageSize)
    /\ CanUseGraph => BuffersTakeBatch /\ CaptureTakesTable

\* With overlap the input of a decode step is on the device only: the batch in flight
\* writes the token of a request exactly where its next step reads it.  What it writes
\* for chunks lands on no token of the prompt.  Left out is the row of a request freed
\* in the meantime: there the write races with the prompt copied for the next user.
TokensReachInputs ==
  Planned =>
    \A w \in InFlightWrites : \A b \in ToSet(batch.reqs) :
      slot[b.req] = w.row /\ w.req \in held =>
        /\ w.req = b.req
        /\ w.col < deviceLen[b.req] => w.col = cachedLen[b.req] /\ batch.phase = "decode"
        /\ batch.phase = "decode" => w.col = deviceLen[b.req] - 1
=============================================================================
