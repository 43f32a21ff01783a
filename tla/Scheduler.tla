------------------------------ MODULE Scheduler ------------------------------
(***************************************************************************)
(* The scheduling loop of python/minisgl/scheduler: scheduler.py,          *)
(* prefill.py and decode.py over the resources of CacheManager.            *)
(*                                                                         *)
(* One process runs the loop, so the stages of one iteration follow each   *)
(* other in the order of the code:                                         *)
(*   receive  -> the messages of this iteration, one by one                *)
(*   admit    -> PrefillAdder over the pending list, one request at a time *)
(*   grow     -> allocate_paged for the batch, then the forward pass       *)
(*   process  -> the results, one request of the batch at a time           *)
(* With Overlap the results processed are those of the previous batch, and *)
(* the batch just launched is still in flight; without it (the environment *)
(* variable DISABLE_OVERLAP_SCHEDULING) they are those of the batch itself.*)
(*                                                                         *)
(* A request is named by its uid.  The ChunkedReq and Req objects made for *)
(* it one after the other share the variables below, as each takes over    *)
(* the slot, the lock and the lengths of the one before.                   *)
(***************************************************************************)
EXTENDS CacheManager

CONSTANTS
  PageSize,      \* tokens per page
  Token,         \* what the model may sample
  Eos,           \* eos_token_id
  UserMsgs,      \* the requests clients send: [prompt, maxTokens, ignoreEos]
  MaxSeqLen,     \* engine.max_seq_len
  Budget,        \* prefill_budget (max_extend_tokens)
  Overlap,       \* overlap_loop or normal_loop
  MaxAborts      \* bound: how many requests clients abort

ASSUME PageSizeAssumption  == PageSize \in Nat \ {0}
ASSUME BudgetAssumption    == Budget \in Nat \ {0}
\* What the cache sees of token sequences: whole pages, as many as a row can hold.
ASSUME BlockAssumption     == Block = [1..PageSize -> Token]
ASSUME KeysAssumption      == Key = SeqOf(Block, MaxRow)
\* The row of a request holds max_seq_len tokens.
ASSUME RowAssumption       == MaxSeqLen <= PageSize * MaxRow
\* cache.py, match_req: "Input length must be greater than 0."
ASSUME MsgAssumption ==
  \A msg \in UserMsgs :
    /\ msg = [prompt |-> msg.prompt, maxTokens |-> msg.maxTokens, ignoreEos |-> msg.ignoreEos]
    /\ msg.prompt \in Seq(Token) /\ msg.prompt # <<>>
    /\ msg.maxTokens \in Nat /\ msg.ignoreEos \in BOOLEAN
\* engine.py: max_seq_len = min(config.max_seq_len, num_tokens)
ASSUME MaxSeqLenAssumption == MaxSeqLen \in 1..(NumPages * PageSize)
ASSUME UidAssumption       == Req \subseteq Nat
ASSUME OverlapAssumption   == Overlap \in BOOLEAN
ASSUME AbortsAssumption    == MaxAborts \in Nat

VARIABLES
  pc,            \* the stage of the loop
  user,          \* uid -> the message received for it, or NoMsg
  aborted,       \* uids for which an abort was received
  pending,       \* PrefillManager.pending_list
  chunked,       \* pending requests with a chunked_req
  running,       \* DecodeManager.running_reqs
  outputLen,     \* SamplingParams.max_tokens, after the cut to what fits
  inputIds,      \* Req.input_ids, the tokens the host knows
  cachedLen,     \* Req.cached_len
  deviceLen,     \* Req.device_len
  maxDeviceLen,  \* Req.max_device_len
  budget,        \* PrefillAdder.token_budget
  reserved,      \* PrefillAdder.reserved_size
  chunkedList,   \* chunked_list of schedule_next_batch
  batch,         \* the batch being built or launched
  inFlight,      \* last_data: launched, results not yet processed
  due,           \* the batch whose results this iteration processes
  cursor,        \* position in the batch at hand
  finishedReqs,  \* Scheduler.finished_reqs
  newFinished,   \* new_finished_reqs of _process_last_data
  replies        \* uid -> the replies sent: how many, whether one said finished, how many after the end

reqVars   == <<outputLen, inputIds, cachedLen, deviceLen, maxDeviceLen>>
queueVars == <<pending, chunked, running>>
adderVars == <<budget, reserved, chunkedList>>
batchVars == <<batch, inFlight, due, cursor>>
replyVars == <<finishedReqs, newFinished, replies>>
msgVars   == <<user, aborted>>
vars == <<cmVars, pc, msgVars, queueVars, reqVars, adderVars, batchVars, replyVars>>

NoMsg   == [prompt |-> <<>>, maxTokens |-> 0, ignoreEos |-> FALSE]
NoBatch == [phase |-> "none", reqs |-> <<>>]

Init ==
  /\ CMInit
  /\ pc = "receive"
  /\ user = [r \in Req |-> NoMsg]
  /\ aborted = {}
  /\ pending = <<>> /\ chunked = {} /\ running = {}
  /\ outputLen = [r \in Req |-> 0]
  /\ inputIds = [r \in Req |-> <<>>]
  /\ cachedLen = [r \in Req |-> 0]
  /\ deviceLen = [r \in Req |-> 0]
  /\ maxDeviceLen = [r \in Req |-> 0]
  /\ budget = 0 /\ reserved = 0 /\ chunkedList = <<>>
  /\ batch = NoBatch /\ inFlight = NoBatch /\ due = NoBatch /\ cursor = 1
  /\ finishedReqs = {} /\ newFinished = {}
  /\ replies = [r \in Req |-> [sent |-> 0, done |-> FALSE, late |-> 0]]

-----------------------------------------------------------------------------
(* Lengths and keys.                                                       *)

DivCeil(n) == (n + PageSize - 1) \div PageSize

\* The full pages of a token sequence (align_down).
Blocks(ids) ==
  [i \in 1..(Len(ids) \div PageSize) |-> SubSeq(ids, (i - 1) * PageSize + 1, i * PageSize)]

InputLen(r)  == Len(user[r].prompt)
RemainLen(r) == maxDeviceLen[r] - deviceLen[r]
CanDecodeEarly(r, len) == maxDeviceLen[r] - len > 1   \* mutant: one token early

\* can_decode of a request whose device_len is len
CanDecode(r, len) == maxDeviceLen[r] - len > 0

\* req.input_ids[: req.cached_len], what cache_req inserts.
CacheKey(ids, r) == Blocks(SubSeq(ids, 1, Min({cachedLen[r], Len(ids)})))

\* CacheManager.available_size, in tokens
Available(t) == PageSize * (t.evictable + Len(freeSlots))

\* DecodeManager.inflight_tokens
InflightTokens ==
  SumFunction([r \in running |-> RemainLen(r)]) + (PageSize - 1) * Cardinality(running)

Received(r) == user[r] # NoMsg

-----------------------------------------------------------------------------
(* Stage receive: _process_one_msg.                                        *)

\* No room for a single output token: the request is dropped.
TooLong(msg) == MaxSeqLen - Len(msg.prompt) <= 0

\* uids are handed out in the order of arrival (FrontendManager.new_user).
ReceiveUser(r) ==
  /\ pc = "receive"
  /\ ~Received(r) /\ \A q \in Req : q < r => Received(q)
  /\ \E msg \in UserMsgs :
       /\ user' = [user EXCEPT ![r] = msg]
       /\ IF TooLong(msg)
          THEN UNCHANGED <<outputLen, pending>>
          ELSE /\ outputLen' = [outputLen EXCEPT ![r] = Min({msg.maxTokens, MaxSeqLen - Len(msg.prompt)})]
               /\ pending' = Append(pending, r)
  /\ UNCHANGED <<cmVars, pc, aborted, chunked, running, inputIds, cachedLen, deviceLen,
                 maxDeviceLen, adderVars, batchVars, replyVars>>

OwnsAnyRunning(r) == r \in running  \* mutant: forgets the chunked_req

\* abort_req returns a request to free: a decoding one, or the ChunkedReq of a
\* pending one. One that is in neither has finished or is in a batch in flight.
OwnsAny(r) == r \in chunked \cup running

\* PrefillManager.abort_req, then DecodeManager.abort_req
TakeOut(r) ==
  /\ pending' = RemoveFirst(pending, r)
  /\ chunked' = chunked \ {r}
  /\ running' = running \ {r}

ReceiveAbort(r) ==
  /\ pc = "receive"
  /\ Received(r) /\ r \notin aborted /\ Cardinality(aborted) < MaxAborts
  /\ aborted' = aborted \cup {r}
  /\ TakeOut(r)
  /\ IF OwnsAny(r)
     THEN FreeResources(r, CacheKey(inputIds[r], r))
     ELSE UNCHANGED cmVars
  /\ UNCHANGED <<pc, user, reqVars, adderVars, batchVars, replyVars>>

BlockingInFlight == pending = <<>> /\ running = {}  \* mutant: ignores last_data

\* Nothing to run and nothing to process: receive_msg blocks.
Blocking == pending = <<>> /\ running = {} /\ inFlight = NoBatch

\* run_when_idle; once every client is served the loop blocks here for ever.
Idle == pc = "receive" /\ Blocking /\ UNCHANGED vars

\* receive_msg has returned. (An iteration that finds nothing to do changes nothing.)
BeginSchedule ==
  /\ pc = "receive" /\ ~Blocking
  /\ pc' = "admit"
  /\ budget' = Budget
  /\ reserved' = InflightTokens
  /\ chunkedList' = <<>>
  /\ batch' = [phase |-> "prefill", reqs |-> <<>>]
  /\ UNCHANGED <<cmVars, msgVars, queueVars, reqVars, inFlight, due, cursor, replyVars>>

-----------------------------------------------------------------------------
(* Stage admit: PrefillManager.schedule_next_batch.                        *)

HasNext == Len(batch.reqs) < Len(pending)
NextReq == pending[Len(batch.reqs) + 1]

\* _add_one_req: the next chunk of r, from what is cached so far.
AddOneReq(r, cached) ==
  LET remain == InputLen(r) - cached
      chunk  == Min({budget, remain})
      part   == chunk < remain
  IN  /\ inputIds' = [inputIds EXCEPT ![r] = SubSeq(user[r].prompt, 1, cached + chunk)]
      /\ cachedLen' = [cachedLen EXCEPT ![r] = cached]
      /\ deviceLen' = [deviceLen EXCEPT ![r] = cached + chunk]
      /\ maxDeviceLen' = [maxDeviceLen EXCEPT ![r] = cached + chunk + outputLen[r]]
      /\ budget' = budget - chunk
      /\ reserved' = reserved + remain + outputLen[r]
      /\ chunked' = IF part THEN chunked \cup {r} ELSE chunked \ {r}
      /\ chunkedList' = IF part THEN Append(chunkedList, r) ELSE chunkedList
      /\ batch' = [batch EXCEPT !.reqs = Append(@, [req |-> r, chunked |-> part])]
      /\ UNCHANGED <<pc, msgVars, outputLen, pending, running, inFlight, due, cursor, replyVars>>

ContinueChunk ==
  /\ pc = "admit" /\ HasNext /\ budget > 0
  /\ NextReq \in chunked
  /\ AddOneReq(NextReq, cachedLen[NextReq])
  /\ UNCHANGED cmVars

\* The key match_req looks up: at least the last token must be computed.
MatchKey(r) == Blocks(SubSeq(user[r].prompt, 1, InputLen(r) - 1))

FitsAlone(r, m) ==  \* mutant: ignores what is reserved for others
  InputLen(r) - PageSize * Len(m) + outputLen[r] <= Available(Lock(SplitAt(tree, m), m))

\* Both checks of _try_allocate_one: before and after the lock on the match m.
Fits(r, m) ==
  LET estimated == InputLen(r) - PageSize * Len(m) + outputLen[r]
  IN  /\ estimated + reserved <= Available(tree)
      /\ estimated + reserved <= Available(Lock(SplitAt(tree, m), m))

AdmitNew ==
  /\ pc = "admit" /\ HasNext /\ budget > 0
  /\ NextReq \notin chunked
  /\ Len(tableFree) > 0
  /\ \E m \in Prefixes(MatchKey(NextReq)) :
        /\ AdmitTo(NextReq, MatchKey(NextReq), m)
        /\ Fits(NextReq, m)
        /\ AddOneReq(NextReq, PageSize * Len(m))

RestOnly(n) == SubSeq(pending, n + 1, Len(pending))  \* mutant: forgets the chunked ones

\* pending_list after a batch of its first n: of those the chunked ones stay, in front.
PendingAfter(n) == chunkedList \o SubSeq(pending, n + 1, Len(pending))

\* The requests of S sorted by uid.
InUidOrder(S) ==
  {order \in [1..Cardinality(S) -> S] : \A i, j \in DOMAIN order : i < j => order[i] < order[j]}

CloseBatch ==
  LET inBatch == Len(batch.reqs)
  IN  /\ pending' = PendingAfter(inBatch)
      /\ \/ /\ inBatch > 0
            /\ pc' = "grow" /\ UNCHANGED <<batch, inFlight, due>>
         \/ /\ inBatch = 0 /\ running # {}
            /\ \E decode \in InUidOrder(running) :
                 batch' = [phase |-> "decode",
                           reqs  |-> [i \in 1..Len(decode) |-> [req |-> decode[i], chunked |-> FALSE]]]
            /\ pc' = "grow" /\ UNCHANGED <<inFlight, due>>
         \/ /\ inBatch = 0 /\ running = {}         \* nothing to launch
            /\ batch' = NoBatch
            /\ due' = inFlight /\ inFlight' = NoBatch
            /\ pc' = "process"
      /\ cursor' = 1
      /\ budget' = 0 /\ reserved' = 0 /\ chunkedList' = <<>>
      /\ UNCHANGED <<msgVars, chunked, running, reqVars, replyVars>>

\* try_add_one returns None before it looks at the cache.
StopAdmitting ==
  /\ pc = "admit"
  /\ HasNext /\ budget > 0 => NextReq \notin chunked /\ Len(tableFree) = 0
  /\ CloseBatch
  /\ UNCHANGED cmVars

\* try_add_one returns None because the request does not fit.
RefuseNew ==
  /\ pc = "admit" /\ HasNext /\ budget > 0
  /\ NextReq \notin chunked
  /\ Len(tableFree) > 0
  /\ \E m \in Prefixes(MatchKey(NextReq)) :
        StopsAt(tree, MatchKey(NextReq), m) /\ ~Fits(NextReq, m)
  /\ MatchOnly(MatchKey(NextReq))
  /\ CloseBatch

-----------------------------------------------------------------------------
(* Stage grow: _prepare_batch and _forward.                                *)

\* allocate_paged: from the page behind cached_len to the one of device_len.
PagesFor(i) ==
  LET r == batch.reqs[i].req IN DivCeil(deviceLen[r]) - DivCeil(cachedLen[r])

NeededPages ==
  SumFunctionOnSet([i \in DOMAIN batch.reqs |-> PagesFor(i)], cursor..Len(batch.reqs))

\* _allocate: evict until the free list holds the pages of the whole batch.
EvictForBatch ==
  /\ pc = "grow"
  /\ Len(freeSlots) < NeededPages
  /\ EvictLeaf
  /\ UNCHANGED <<pc, msgVars, queueVars, reqVars, adderVars, batchVars, replyVars>>

GrowOne ==
  /\ pc = "grow" /\ cursor <= Len(batch.reqs)
  /\ Len(freeSlots) >= NeededPages
  /\ TakePages(batch.reqs[cursor].req, PagesFor(cursor))
  /\ cursor' = cursor + 1
  /\ UNCHANGED <<pc, msgVars, queueVars, reqVars, adderVars, batch, inFlight, due, replyVars>>

InBatch(b) == {b.reqs[i].req : i \in DOMAIN b.reqs}
Whole(b)   == {b.reqs[i].req : i \in {j \in DOMAIN b.reqs : ~b.reqs[j].chunked}}

\* forward_batch: complete_one for every request, then filter_reqs. A ChunkedReq
\* never decodes.
Forward ==
  /\ pc = "grow" /\ cursor > Len(batch.reqs)
  /\ cachedLen' = [r \in Req |-> IF r \in InBatch(batch) THEN deviceLen[r] ELSE cachedLen[r]]
  /\ deviceLen' = [r \in Req |-> IF r \in InBatch(batch) THEN deviceLen[r] + 1 ELSE deviceLen[r]]
  /\ running' = {r \in running \cup Whole(batch) : CanDecode(r, deviceLen'[r])}
  /\ IF Overlap
     THEN due' = inFlight /\ inFlight' = batch
     ELSE due' = batch /\ UNCHANGED inFlight
  /\ batch' = NoBatch
  /\ cursor' = 1
  /\ pc' = "process"
  /\ UNCHANGED <<cmVars, msgVars, pending, chunked, outputLen, inputIds, maxDeviceLen,
                 adderVars, replyVars>>

-----------------------------------------------------------------------------
(* Stage process: _process_last_data.                                      *)

SkipChunk ==
  /\ pc = "process" /\ cursor <= Len(due.reqs)
  /\ due.reqs[cursor].chunked
  /\ cursor' = cursor + 1
  /\ UNCHANGED <<cmVars, pc, msgVars, queueVars, reqVars, adderVars, batch, inFlight, due, replyVars>>

AlreadyFreedNever(r) == FALSE  \* mutant: no second look at finished_reqs

\* The batch before this one has finished and freed the request.
AlreadyFreed(r) == r \in finishedReqs

\* not req.can_decode, or the token ends the text
Ends(r, token) == ~CanDecode(r, deviceLen[r]) \/ (~user[r].ignoreEos /\ token = Eos)

\* One DetokenizeMsg more for r; late counts those behind a finished one or an abort.
Reply(r, finished) ==
  [sent |-> replies[r].sent + 1,
   done |-> replies[r].done \/ finished,
   late |-> replies[r].late + (IF replies[r].done \/ r \in aborted THEN 1 ELSE 0)]

FinishStillRunning(r, key) ==  \* mutant: no remove_req
  /\ FreeResources(r, key)
  /\ newFinished' = newFinished \cup {r}
  /\ UNCHANGED running

\* remove_req, then _free_req_resources
Finish(r, key) ==
  /\ running' = running \ {r}
  /\ FreeResources(r, key)
  /\ newFinished' = newFinished \cup {r}

ProcessReq(token) ==
  /\ pc = "process" /\ cursor <= Len(due.reqs)
  /\ ~due.reqs[cursor].chunked
  /\ LET r   == due.reqs[cursor].req
         ids == Append(inputIds[r], token)
         key == CacheKey(ids, r)
     IN  /\ inputIds' = [inputIds EXCEPT ![r] = ids]
         /\ replies' = [replies EXCEPT ![r] = Reply(r, Ends(r, token))]
         /\ \/ /\ Ends(r, token) /\ ~AlreadyFreed(r)
               /\ Finish(r, key)
            \/ /\ ~(Ends(r, token) /\ ~AlreadyFreed(r))
               /\ IF due.phase = "prefill" THEN CacheUnfinished(r, key) ELSE UNCHANGED cmVars
               /\ UNCHANGED <<running, newFinished>>
  /\ cursor' = cursor + 1
  /\ UNCHANGED <<pc, msgVars, pending, chunked, outputLen, cachedLen, deviceLen, maxDeviceLen,
                 adderVars, batch, inFlight, due, finishedReqs>>

\* finished_reqs is replaced only when there was a batch to process.
EndProcess ==
  /\ pc = "process" /\ cursor > Len(due.reqs)
  /\ finishedReqs' = IF due = NoBatch THEN finishedReqs ELSE newFinished
  /\ newFinished' = {}
  /\ due' = NoBatch
  /\ cursor' = 1
  /\ pc' = "receive"
  /\ UNCHANGED <<cmVars, msgVars, queueVars, reqVars, adderVars, batch, inFlight, replies>>

-----------------------------------------------------------------------------
Loop ==
  \/ BeginSchedule
  \/ ContinueChunk \/ AdmitNew \/ RefuseNew \/ StopAdmitting
  \/ EvictForBatch \/ GrowOne \/ Forward
  \/ SkipChunk \/ (\E token \in Token : ProcessReq(token)) \/ EndProcess

Next ==
  \/ \E r \in Req : ReceiveUser(r) \/ ReceiveAbort(r)
  \/ Idle
  \/ Loop

Spec == Init /\ [][Next]_vars

\* run_forever: the loop takes its next step whenever it is not blocked.
FairSpec == Spec /\ WF_vars(Loop)

-----------------------------------------------------------------------------
(* Properties.                                                             *)

TypeOK ==
  /\ CMTypeOK
  /\ pc \in {"receive", "admit", "grow", "process"}
  /\ user \in [Req -> UserMsgs \cup {NoMsg}]
  /\ aborted \subseteq Req
  /\ pending \in Seq(Req) /\ chunked \subseteq Req /\ running \subseteq Req
  /\ outputLen \in [Req -> Nat]
  /\ inputIds \in [Req -> Seq(Token)]
  /\ cachedLen \in [Req -> Nat] /\ deviceLen \in [Req -> Nat] /\ maxDeviceLen \in [Req -> Nat]
  /\ budget \in Int /\ reserved \in Int /\ cursor \in Nat
  /\ chunkedList \in Seq(Req)
  /\ \A b \in {batch, inFlight, due} :
        /\ b.phase \in {"none", "prefill", "decode"}
        /\ b.reqs \in Seq([req : Req, chunked : BOOLEAN])
  /\ finishedReqs \subseteq Req /\ newFinished \subseteq Req
  /\ replies \in [Req -> [sent : Nat, done : BOOLEAN, late : Nat]]

\* With pages of one token admission promises enough: whenever a batch needs more
\* pages than are free, eviction can supply them (the assertions of evict and
\* _allocate hold).  Admission counts tokens and allocation whole pages, so that with
\* larger pages short requests may need more of them than there are.
EvictionSuffices ==
  PageSize = 1 /\ pc = "grow" => NeededPages - Len(freeSlots) <= tree.evictable

\* run_when_idle finds every page free or cached (check_integrity), and no
\* request slot or lock is left behind by a request that is gone.
IdleIntegrity ==
  pc = "receive" /\ Blocking =>
    /\ Len(freeSlots) + tree.evictable + tree.protected = NumPages
    /\ tree.protected = 0
    /\ Len(tableFree) = MaxRunning

\* What a live request reads for its cached prefix are the pages the cache keeps
\* for it (cache.py: "[0, req.cached_len) This part is valid for attention kernel
\* read/write.").
RowsReadCachedPages ==
  \A r \in held : MatchedPages(tree, handle[r]) = SubSeq(Row(r), 1, Len(handle[r]))

Phase(r) ==
  CASE r \in aborted -> "aborted"
    [] ~Received(r) -> "absent"
    [] Received(r) /\ r \notin aborted /\ TooLong(user[r]) -> "dropped"
    [] Received(r) /\ r \notin aborted /\ ~TooLong(user[r]) ->
         IF replies[r].done THEN "done" ELSE "active"

Answers == INSTANCE Service WITH
  MaxReplies <- MaxSeqLen,
  phase <- [r \in Req |-> Phase(r)],
  sent  <- [r \in Req |-> replies[r].sent],
  late  <- [r \in Req |-> replies[r].late]

\* To its clients the scheduler is the service: replies stop at the one that says
\* finished or at the abort, but for one of the batch in flight with overlap.
ServiceSpec == Answers!ServiceSpec

\* Never more tokens than asked for; but every request gets one, max_tokens = 0 too.
TokenLimit ==
  \A r \in Req : replies[r].sent <= Max({outputLen[r], 1})

\* When neither Eos nor an abort ends a request, it gets all the tokens it asked for.
FullLength ==
  \A r \in Req : replies[r].done /\ user[r].ignoreEos => replies[r].sent >= outputLen[r]

\* Neither more tokens than asked for nor, unless Eos or an abort ends it, fewer.
AnswerLength == TokenLimit /\ FullLength

\* Every request taken in is answered to its end, unless its client aborted it.
EveryRequestServed ==
  \A r \in Req : Received(r) /\ ~TooLong(user[r]) ~> replies[r].done \/ r \in aborted
=============================================================================
