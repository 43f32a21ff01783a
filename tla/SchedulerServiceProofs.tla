---------------------- MODULE SchedulerServiceProofs -----------------------
(***************************************************************************)
(* What a client of the scheduler sees: the replies to a request are those *)
(* that Service promises, as many as it asked for, and when the server is  *)
(* idle no request has left anything behind.                               *)
(*                                                                         *)
(* The inductive invariant, ServeInv, follows a request from the pending   *)
(* list to its end.  It counts the forward passes made for it, which are   *)
(* the replies sent and those still in flight or due.                      *)
(*                                                                         *)
(* Two more follow from it, about what is on the device.  LengthInv        *)
(* relates the lengths of a request to the stage it is in: a token sampled *)
(* for the batch in flight is written where the next batch reads it.       *)
(* AdmitInv adds up what the requests let in may still claim and compares  *)
(* it with what available_size counts: with pages of one token, the        *)
(* default, every request that was let in finds its pages free or          *)
(* evictable.                                                              *)
(*                                                                         *)
(* Last, what a forward pass reads and writes: where the tokens of each    *)
(* request lie among those of the batch, and where its pages say that they *)
(* go.                                                                     *)
(***************************************************************************)
EXTENDS MemoryProofs, ForwardPlan

-----------------------------------------------------------------------------
(* The invariant.                                                          *)

One(S, r) == IF r \in S THEN 1 ELSE 0

\* How often the model has computed a token for r.
Passes(r) == replies[r].sent + One(Whole(inFlight), r) + One(DueLeft, r)

\* The lengths of a request whose prompt is computed follow from its passes.
Sized(r) ==
  /\ Received(r)
  /\ deviceLen[r] = InputLen(r) + Passes(r)
  /\ maxDeviceLen[r] = InputLen(r) + outputLen[r]
  /\ InputLen(r) < MaxSeqLen /\ InputLen(r) + outputLen[r] <= MaxSeqLen
  /\ Passes(r) <= outputLen[r] \/ Passes(r) <= 1

\* Whoever owns memory will be computed again or has a result on its way, and one
\* with a result on its way that can decode on is running.
Serving ==
  /\ held \subseteq running \cup chunked \cup Whole(batch) \cup Whole(inFlight) \cup DueLeft
  /\ \A r \in held \cap (Whole(inFlight) \cup DueLeft) : CanDecode(r, deviceLen[r]) => r \in running
  /\ (finishedReqs \cup newFinished) \cap (held \cup ToSet(pending)) = {}

\* The lengths of a request agree with the passes made for it.
Progress ==
  /\ \A r \in ToSet(pending) : Passes(r) = 0
  /\ batch.phase = "prefill" => \A r \in InBatch(batch) : Passes(r) = 0
  /\ batch.phase = "decode" => InBatch(batch) = Whole(batch) /\ InBatch(batch) \subseteq running
  /\ pc = "grow" => batch.phase # "none"
  /\ \A r \in running : Passes(r) > 0
  /\ \A r \in Req : Passes(r) > 0 \/ r \in Whole(batch) => Sized(r)

Over(r) == replies[r].done \/ r \in aborted

\* A request that is over owns nothing, and only with overlap does one more result
\* come for it.
Gone ==
  /\ Overlap => aborted = {}
  /\ \A r \in Req :
       /\ ~Over(r) => replies[r].late = 0
       /\ Over(r) => Received(r) /\ r \notin held /\ r \notin ToSet(pending)
       /\ Over(r) /\ (r \in Whole(inFlight) \/ r \in DueLeft) =>
            /\ Overlap /\ replies[r].late = 0
            /\ ~(r \in Whole(inFlight) /\ r \in DueLeft)
  /\ \A r \in finishedReqs \cup newFinished : replies[r].done

\* Only Eos ends an answer early.
Complete ==
  ~Overlap => \A r \in Req : replies[r].done /\ user[r].ignoreEos => replies[r].sent >= outputLen[r]

ServeInv == Serving /\ Progress /\ Gone /\ Complete

-----------------------------------------------------------------------------
(* Passes.                                                                 *)

\* A promised reply belongs to a request and says how many came before it.
LEMMA ReplyFields ==
  ASSUME LoopType, NEW r \in Req
  PROVE  /\ replies[r] \in [sent : Nat, done : BOOLEAN, late : Nat]
         /\ replies[r].sent \in Nat /\ replies[r].done \in BOOLEAN /\ replies[r].late \in Nat
  <1>1. replies[r] \in [sent : Nat, done : BOOLEAN, late : Nat]
    BY DEF LoopType
  <1> QED
    BY <1>1

\* Passes are counted in natural numbers.
LEMMA PassesNumber ==
  ASSUME LoopType, NEW r \in Req
  PROVE  /\ Passes(r) \in Nat /\ replies[r].sent \in Nat
         /\ One(Whole(inFlight), r) \in {0, 1} /\ One(DueLeft, r) \in {0, 1}
         /\ r \in Whole(inFlight) \/ r \in DueLeft => Passes(r) > 0
  <1>1. replies[r].sent \in Nat
    BY ReplyFields
  <1>2. /\ One(Whole(inFlight), r) \in {0, 1} /\ One(DueLeft, r) \in {0, 1}
        /\ (r \in Whole(inFlight) => One(Whole(inFlight), r) = 1)
        /\ (r \in DueLeft => One(DueLeft, r) = 1)
    BY DEF One
  <1> QED
    BY <1>1, <1>2 DEF Passes

\* The larger of two numbers, without CHOOSE.
LEMMA MaxOfTwo ==
  ASSUME NEW a \in Int, NEW b \in Int
  PROVE  Max({a, b}) = IF a >= b THEN a ELSE b
  BY DEF Max

\* Outside the stage process no result is due.
LEMMA NothingDue ==
  ASSUME due = NoBatch
  PROVE  DueLeft = {}
  BY NoBatchFacts DEF DueLeft

\* At the first position everything due is still to be looked at.
LEMMA AllDue ==
  ASSUME BatchType(due), cursor = 1
  PROVE  DueLeft = Whole(due)
  <1>1. \A j \in DOMAIN due.reqs : j >= cursor
    BY BatchMembers
  <1> QED
    BY <1>1 DEF DueLeft, Whole

\* A step that changes no result, no length and no list but makes some of them shorter.
LEMMA ServeFrame ==
  ASSUME ServeInv, DueLeft' = DueLeft, Whole(inFlight)' = Whole(inFlight),
         UNCHANGED <<user, aborted, running, chunked, outputLen, deviceLen, maxDeviceLen, replies,
                     held>>,
         ToSet(pending') \subseteq ToSet(pending),
         finishedReqs' \cup newFinished' \subseteq finishedReqs \cup newFinished,
         batch' = batch \/ (InBatch(batch) = {} /\ InBatch(batch') = {}),
         pc' = "grow" => batch'.phase # "none"
  PROVE  ServeInv'
  <1>1. Serving /\ Progress /\ Gone /\ Complete
    BY DEF ServeInv
  <1>2. \A r : Passes(r)' = Passes(r) /\ (Sized(r)' <=> Sized(r)) /\ (Over(r)' <=> Over(r))
               /\ (CanDecode(r, deviceLen[r])' <=> CanDecode(r, deviceLen[r]))
               /\ (Received(r)' <=> Received(r))
    BY DEF Passes, Sized, Over, CanDecode, Received, InputLen
  <1>3. /\ InBatch(batch)' = InBatch(batch') /\ Whole(batch)' = Whole(batch')
        /\ InBatch(batch)' = InBatch(batch) /\ Whole(batch)' = Whole(batch)
        /\ (batch'.phase = batch.phase \/ (InBatch(batch)' = {} /\ Whole(batch)' = {}))
    <2>1. InBatch(batch)' = InBatch(batch') /\ Whole(batch)' = Whole(batch')
      BY DEF InBatch, Whole
    <2>2. \A b : Whole(b) \subseteq InBatch(b)
      BY DEF InBatch, Whole
    <2> QED
      BY <2>1, <2>2
  <1>4. Serving'
    BY <1>1, <1>2, <1>3 DEF Serving
  <1>5. Progress'
    BY <1>1, <1>2, <1>3 DEF Progress
  <1>6. Gone'
    BY <1>1, <1>2 DEF Gone
  <1>7. Complete'
    BY <1>1 DEF Complete
  <1> QED
    BY <1>4, <1>5, <1>6, <1>7 DEF ServeInv

-----------------------------------------------------------------------------
(* Stage receive.                                                          *)

\* At start-up nothing is pending, held or owed.
LEMMA InitServe == Init => ServeInv
  <1> SUFFICES ASSUME Init PROVE ServeInv
    OBVIOUS
  <1>1. /\ pc = "receive" /\ pending = <<>> /\ chunked = {} /\ running = {} /\ held = {}
        /\ batch = NoBatch /\ inFlight = NoBatch /\ due = NoBatch /\ aborted = {}
        /\ finishedReqs = {} /\ newFinished = {}
        /\ replies = [r \in Req |-> [sent |-> 0, done |-> FALSE, late |-> 0]]
    BY DEF Init, CMInit
  <1>2. ToSet(pending) = {} /\ DueLeft = {} /\ Whole(batch) = {} /\ InBatch(batch) = {}
        /\ Whole(inFlight) = {} /\ batch.phase = "none"
    BY <1>1, NothingDue, NoBatchFacts DEF ToSet
  <1>3. \A r \in Req : replies[r].sent = 0 /\ ~replies[r].done /\ replies[r].late = 0
    BY <1>1
  <1>4. \A r \in Req : Passes(r) = 0
    BY <1>2, <1>3 DEF Passes, One
  <1>5. Serving
    BY <1>1, <1>2 DEF Serving
  <1>6. Progress
    BY <1>1, <1>2, <1>4 DEF Progress
  <1>7. Gone /\ Complete
    BY <1>1, <1>2, <1>3 DEF Gone, Over, Complete
  <1> QED
    BY <1>5, <1>6, <1>7 DEF ServeInv

\* When the loop receives messages, only the batch in flight is on its way.
LEMMA AtReceive ==
  ASSUME LoopInv, pc = "receive"
  PROVE  /\ batch = NoBatch /\ due = NoBatch /\ DueLeft = {}
         /\ InBatch(batch) = {} /\ Whole(batch) = {} /\ batch.phase = "none"
  <1>1. batch = NoBatch /\ due = NoBatch
    BY DEF LoopInv, StageBatches
  <1> QED
    BY <1>1, NothingDue, NoBatchFacts

\* A request that arrives joins the pending list, or is dropped for its length.
LEMMA ReceiveUserServe ==
  ASSUME LockInv, LoopInv, ServeInv, NEW r \in Req, ReceiveUser(r)
  PROVE  ServeInv'
  <1>1. Serving /\ Progress /\ Gone /\ Complete /\ LoopType /\ Queues
    BY DEF ServeInv, LoopInv
  <1>2. /\ pc = "receive" /\ ~Received(r)
        /\ UNCHANGED <<pc, held, aborted, chunked, running, deviceLen, maxDeviceLen, batch,
                       inFlight,
                       due, cursor, finishedReqs, newFinished, replies>>
    BY DEF ReceiveUser, cmVars, batchVars, replyVars
  <1>3. PICK msg \in UserMsgs :
          /\ user' = [user EXCEPT ![r] = msg]
          /\ IF TooLong(msg)
             THEN UNCHANGED <<outputLen, pending>>
             ELSE /\ outputLen' = [outputLen EXCEPT
                                     ![r] = Min({msg.maxTokens, MaxSeqLen - Len(msg.prompt)})]
                  /\ pending' = Append(pending, r)
    BY DEF ReceiveUser
  <1>4. /\ ToSet(pending') \subseteq ToSet(pending) \cup {r}
        /\ \A q \in Req \ {r} : user'[q] = user[q] /\ outputLen'[q] = outputLen[q]
    <2>1. pending \in Seq(Req) /\ outputLen \in [Req -> Nat]
          /\ user \in [Req -> UserMsgs \cup {NoMsg}] /\ IsInjective(pending)
      BY <1>1 DEF LoopType, Queues
    <2>2. r \notin ToSet(pending)
      BY <1>1, <1>2 DEF Queues
    <2>3. ToSet(Append(pending, r)) = ToSet(pending) \cup {r}
      BY <2>1, <2>2, AppendFacts
    <2> QED
      BY <1>3, <2>1, <2>3
  <1>5. DueLeft' = DueLeft /\ Whole(inFlight)' = Whole(inFlight)
        /\ Whole(batch)' = Whole(batch) /\ InBatch(batch)' = InBatch(batch)
    BY <1>2 DEF DueLeft, Whole, InBatch
  <1>6. DueLeft = {} /\ InBatch(batch) = {} /\ Whole(batch) = {} /\ batch.phase = "none"
    BY <1>2, AtReceive
  <1>7. \A q \in Req : Passes(q)' = Passes(q)
    BY <1>2, <1>5 DEF Passes
  <1>8. \A q \in Req \ {r} : (Sized(q)' <=> Sized(q)) /\ (Received(q)' <=> Received(q))
    BY <1>2, <1>4, <1>7 DEF Sized, Received, InputLen
  <1>9. /\ Passes(r) = 0 /\ ~Over(r)
        /\ r \notin finishedReqs \cup newFinished \cup held \cup running
    <2>1. ~(Passes(r) > 0) /\ Passes(r) \in Nat
      BY <1>1, <1>2, PassesNumber DEF Progress, Sized
    <2>2. r \notin held \cup finishedReqs \cup newFinished
      BY <1>1, <1>2 DEF Queues
    <2> QED
      BY <1>1, <1>2, <2>1, <2>2 DEF Gone, Progress
  <1>10. Serving'
    BY <1>1, <1>2, <1>4, <1>5, <1>9 DEF Serving, CanDecode
  <1>11. Progress'
    <2>1. \A q \in ToSet(pending') : Passes(q)' = 0
      <3>1. ToSet(pending) \subseteq Req
        BY <1>1, SeqFacts DEF LoopType, ToSet
      <3> QED
        BY <1>1, <1>4, <1>7, <1>9, <3>1 DEF Progress
    <2>2. \A q \in running : Passes(q)' > 0
      BY <1>1, <1>7 DEF Progress, LoopType
    <2>3. \A q \in Req : Passes(q)' > 0 => Sized(q)'
      BY <1>1, <1>7, <1>8, <1>9 DEF Progress
    <2> QED
      BY <1>2, <1>5, <1>6, <2>1, <2>2, <2>3 DEF Progress
  <1>12. Gone'
    <2>1. \A q \in Req : Over(q)' <=> Over(q)
      BY <1>2 DEF Over
    <2>2. \A q \in Req : Over(q) => q # r
      BY <1>9
    <2> QED
      BY <1>1, <1>2, <1>4, <1>5, <1>8, <2>1, <2>2 DEF Gone
  <1>13. Complete'
    <2>1. ~replies[r].done
      BY <1>9 DEF Over
    <2> QED
      BY <1>1, <1>2, <1>4, <2>1 DEF Complete
  <1> QED
    BY <1>10, <1>11, <1>12, <1>13 DEF ServeInv

\* An abort forgets its request where it finds it, and owes nothing more.
LEMMA ReceiveAbortServe ==
  ASSUME LockInv, LoopInv, ServeInv, NoAbortInFlight, NEW r \in Req, ReceiveAbort(r)
  PROVE  ServeInv'
  <1>1. Serving /\ Progress /\ Gone /\ Complete /\ LoopType /\ Queues /\ StageBatches /\ Owners
    BY DEF ServeInv, LoopInv
  <1>2. /\ pc = "receive" /\ TakeOut(r) /\ aborted' = aborted \cup {r} /\ Received(r)
        /\ IF OwnsAny(r) THEN FreeResources(r, CacheKey(inputIds[r], r)) ELSE UNCHANGED cmVars
        /\ UNCHANGED <<pc, user, outputLen, deviceLen, maxDeviceLen, batch, inFlight, due, cursor,
                       finishedReqs, newFinished, replies>>
        /\ Cardinality(aborted) < MaxAborts
    BY DEF ReceiveAbort, reqVars, batchVars, replyVars
  <1>3. ~Overlap /\ inFlight = NoBatch
    <2>1. Cardinality(aborted) \in Nat
      BY <1>1, ReqAssumption, FS_Subset, FS_CardinalityType DEF LoopType
    <2>2. ~Overlap
      BY <1>2, <2>1 DEF NoAbortInFlight
    <2> QED
      BY <1>1, <2>2 DEF StageBatches
  <1>4. /\ ToSet(pending') = ToSet(pending) \ {r}
        /\ chunked' = chunked \ {r} /\ running' = running \ {r}
    BY <1>1, <1>2, RemoveFirstFacts DEF TakeOut, LoopType, Queues
  <1>5. /\ DueLeft = {} /\ InBatch(batch) = {} /\ Whole(batch) = {} /\ batch.phase = "none"
        /\ Whole(inFlight) = {}
    BY <1>2, <1>3, AtReceive, NoBatchFacts
  <1>6. DueLeft' = DueLeft /\ Whole(inFlight)' = Whole(inFlight)
        /\ Whole(batch)' = Whole(batch) /\ InBatch(batch)' = InBatch(batch)
    BY <1>2 DEF DueLeft, Whole, InBatch
  <1>7. held' = held \ {r}
    <2>1. CASE OwnsAny(r)
      BY <1>2, <2>1 DEF FreeResources
    <2>2. CASE ~OwnsAny(r)
      <3>1. r \notin held
        BY <1>1, <1>5, <2>2 DEF Serving, OwnsAny
      <3> QED
        BY <1>2, <2>2, <3>1 DEF cmVars
    <2> QED
      BY <2>1, <2>2
  <1>8. \A q : Passes(q)' = Passes(q) /\ (Sized(q)' <=> Sized(q)) /\ (Received(q)' <=> Received(q))
    BY <1>2, <1>6 DEF Passes, Sized, Received, InputLen
  <1>9. Serving'
    BY <1>1, <1>2, <1>4, <1>5, <1>6, <1>7 DEF Serving
  <1>10. Progress'
    BY <1>1, <1>2, <1>4, <1>5, <1>6, <1>8 DEF Progress
  <1>11. Gone'
    <2>1. \A q : Over(q)' <=> Over(q) \/ q = r
      BY <1>2 DEF Over
    <2> QED
      BY <1>1, <1>2, <1>3, <1>4, <1>5, <1>6, <1>7, <1>8, <2>1 DEF Gone
  <1>12. Complete'
    BY <1>1, <1>2 DEF Complete
  <1> QED
    BY <1>9, <1>10, <1>11, <1>12 DEF ServeInv

\* The decision what to batch touches no request.
LEMMA BeginScheduleServe ==
  ASSUME LoopInv, ServeInv, BeginSchedule
  PROVE  ServeInv'
  <1>1. /\ pc = "receive" /\ pc' = "admit" /\ batch' = [phase |-> "prefill", reqs |-> <<>>]
        /\ UNCHANGED <<held, user, aborted, pending, chunked, running, outputLen, deviceLen,
                       maxDeviceLen, inFlight, due, cursor, finishedReqs, newFinished, replies>>
    BY DEF BeginSchedule, cmVars, msgVars, queueVars, reqVars, replyVars
  <1>2. InBatch(batch) = {} /\ InBatch(batch') = {}
    BY <1>1, AtReceive, EmptyBatch
  <1>3. DueLeft' = DueLeft /\ Whole(inFlight)' = Whole(inFlight)
    BY <1>1 DEF DueLeft, Whole
  <1> QED
    BY <1>1, <1>2, <1>3, ServeFrame

-----------------------------------------------------------------------------
(* Stage admit.                                                            *)

\* An admitted request moves from the pending list into the batch.
LEMMA AddOneReqServe ==
  ASSUME LockInv, LoopInv, ServeInv, pc = "admit", HasNext, budget > 0,
         NEW r, r = NextReq, NEW cached \in Nat, cached < InputLen(r), AddOneReq(r, cached),
         held' = held \cup {r}
  PROVE  ServeInv'
  <1>1. Serving /\ Progress /\ Gone /\ Complete /\ LoopType /\ Queues /\ StageBatches /\ Limits
    BY DEF ServeInv, LoopInv
  <1>2. /\ r \in Req /\ r \in ToSet(pending) /\ r \notin InBatch(batch)
        /\ r \notin running /\ r \notin Whole(inFlight) /\ Received(r)
    BY NextReqFacts
  <1>3. /\ InputLen(r) \in Nat /\ outputLen[r] \in Nat /\ budget \in Nat \ {0}
        /\ InputLen(r) < MaxSeqLen /\ InputLen(r) + outputLen[r] <= MaxSeqLen
    <2>1. InputLen(r) \in Nat
      BY <1>1, <1>2, PromptOf
    <2>2. outputLen[r] \in Nat /\ budget \in Nat \ {0}
      BY <1>1, <1>2 DEF LoopType
    <2> QED
      BY <1>1, <1>2, <2>1, <2>2 DEF Limits
  <1>4. PICK n \in Nat, part \in BOOLEAN :
          /\ (part <=> n < InputLen(r)) /\ n <= InputLen(r)
          /\ deviceLen' = [deviceLen EXCEPT ![r] = n]
          /\ maxDeviceLen' = [maxDeviceLen EXCEPT ![r] = n + outputLen[r]]
          /\ chunked' = IF part THEN chunked \cup {r} ELSE chunked \ {r}
          /\ batch' = [batch EXCEPT !.reqs = Append(@, [req |-> r, chunked |-> part])]
    <2>1. reserved \in Int
      BY <1>1 DEF LoopType
    <2> QED
      BY <1>3, <2>1, ChunkFacts
  <1>5. UNCHANGED <<pc, user, aborted, outputLen, pending, running, inFlight, due, cursor,
                    finishedReqs, newFinished, replies>>
    BY DEF AddOneReq, msgVars, replyVars
  <1>6. DueLeft = {} /\ DueLeft' = {} /\ Whole(inFlight)' = Whole(inFlight)
        /\ batch.phase = "prefill"
    BY <1>1, <1>5, NothingDue DEF StageBatches, DueLeft, Whole
  <1>7. /\ batch'.phase = batch.phase /\ InBatch(batch') = InBatch(batch) \cup {r}
        /\ Whole(batch') = IF part THEN Whole(batch) ELSE Whole(batch) \cup {r}
    <2>1. PICK k : k = Len(batch.reqs)
      OBVIOUS
    <2>2. BatchType(batch) /\ OnceEach(batch)
      BY <1>1 DEF LoopType, StageBatches
    <2>3. /\ batch'.phase = batch.phase /\ k \in Nat
          /\ DOMAIN batch.reqs = 1..k /\ DOMAIN batch'.reqs = 1..(k + 1)
          /\ \A i \in 1..k : batch'.reqs[i] = batch.reqs[i]
          /\ batch'.reqs[k + 1].req = r /\ batch'.reqs[k + 1].chunked = part
          /\ InBatch(batch') = InBatch(batch) \cup {r}
      BY <1>2, <1>4, <2>1, <2>2, BatchAppend, BatchMembers
    <2>4. \A i \in 1..(k + 1) : i \in 1..k \/ i = k + 1
      BY <2>3
    <2>5. 1..k \subseteq 1..(k + 1) /\ k + 1 \in 1..(k + 1)
      BY <2>3
    <2> QED
      BY <2>3, <2>4, <2>5 DEF Whole
  <1>8. Whole(batch)' = Whole(batch') /\ InBatch(batch)' = InBatch(batch')
    BY DEF Whole, InBatch
  <1>9. \A q \in Req : Passes(q)' = Passes(q) /\ (Over(q)' <=> Over(q))
                       /\ (Received(q)' <=> Received(q))
    BY <1>5, <1>6 DEF Passes, Over, Received
  <1>10. /\ deviceLen'[r] = n /\ maxDeviceLen'[r] = n + outputLen[r]
         /\ \A q \in Req \ {r} : deviceLen'[q] = deviceLen[q] /\ maxDeviceLen'[q] = maxDeviceLen[q]
    BY <1>1, <1>2, <1>4 DEF LoopType
  <1>11. \A q \in Req \ {r} : /\ (Sized(q)' <=> Sized(q))
                              /\ (CanDecode(q, deviceLen[q])' <=> CanDecode(q, deviceLen[q]))
    BY <1>5, <1>9, <1>10 DEF Sized, Received, InputLen, CanDecode
  <1>12. Passes(r) = 0
    BY <1>1, <1>2 DEF Progress
  <1>13. Serving'
    <2>1. held' \subseteq running \cup chunked' \cup Whole(batch)' \cup Whole(inFlight)
      BY <1>1, <1>4, <1>6, <1>7, <1>8 DEF Serving
    <2>2. \A q \in held' \cap Whole(inFlight) : q \in held /\ q \in Req \ {r}
      BY <1>2 DEF LockInv, CMTypeOK
    <2>3. \A q \in held' \cap Whole(inFlight) : CanDecode(q, deviceLen[q])' => q \in running
      BY <1>1, <1>11, <2>2 DEF Serving
    <2>4. r \notin finishedReqs \cup newFinished
      BY <1>1, <1>2 DEF Serving
    <2> QED
      BY <1>1, <1>5, <1>6, <2>1, <2>3, <2>4 DEF Serving
  <1>14. Progress'
    <2>1. \A q \in ToSet(pending) : q \in Req
      BY <1>1, SeqFacts DEF LoopType, ToSet
    <2>2. \A q \in InBatch(batch') : Passes(q)' = 0
      <3>1. \A q \in InBatch(batch) : q \in Req
        BY <1>1, BatchMembers DEF LoopType
      <3> QED
        BY <1>1, <1>2, <1>6, <1>7, <1>9, <1>12, <3>1 DEF Progress
    <2>3. \A q \in Req : Passes(q)' > 0 \/ q \in Whole(batch') => Sized(q)'
      <3> SUFFICES ASSUME NEW q \in Req, Passes(q)' > 0 \/ q \in Whole(batch') PROVE Sized(q)'
        OBVIOUS
      <3>1. CASE q = r
        <4>1. ~part
          <5>1. r \notin Whole(batch)
            BY <1>1, <1>2, BatchMembers DEF LoopType
          <5> QED
            BY <1>2, <1>7, <1>9, <1>12, <3>1, <5>1
        <4>2. n = InputLen(r)
          BY <1>3, <1>4, <4>1
        <4>3. InputLen(r)' = InputLen(r) /\ outputLen' = outputLen /\ Received(r)' /\ Passes(r)' = 0
          BY <1>2, <1>5, <1>9, <1>12 DEF InputLen
        <4> QED
          BY <1>3, <1>10, <3>1, <4>2, <4>3 DEF Sized
      <3>2. CASE q # r
        BY <1>1, <1>7, <1>9, <1>11, <3>2 DEF Progress
      <3> QED
        BY <3>1, <3>2
    <2>4. \A q \in running : Passes(q)' > 0
      BY <1>1, <1>9 DEF Progress, LoopType
    <2> QED
      BY <1>1, <1>5, <1>6, <1>7, <1>8, <1>9, <2>1, <2>2, <2>3, <2>4 DEF Progress
  <1>15. Gone'
    <2>1. ~Over(r)
      BY <1>1, <1>2 DEF Gone
    <2> QED
      BY <1>1, <1>5, <1>6, <1>9, <2>1 DEF Gone
  <1>16. Complete'
    BY <1>1, <1>5 DEF Complete
  <1> QED
    BY <1>13, <1>14, <1>15, <1>16 DEF ServeInv

\* The request with an unfinished prompt goes on,
LEMMA ContinueChunkServe ==
  ASSUME LockInv, LoopInv, ServeInv, ContinueChunk
  PROVE  ServeInv'
  <1>1. PICK r : r = NextReq
    OBVIOUS
  <1>2. /\ pc = "admit" /\ HasNext /\ budget > 0 /\ r \in chunked
        /\ AddOneReq(r, cachedLen[r]) /\ held' = held
    BY <1>1 DEF ContinueChunk, cmVars
  <1>3. r \in held /\ cachedLen[r] \in Nat /\ cachedLen[r] < InputLen(r)
    BY <1>2 DEF LoopInv, LoopType, Owners, Limits
  <1> QED
    BY <1>1, <1>2, <1>3, AddOneReqServe

\* a new one is admitted,
LEMMA AdmitNewServe ==
  ASSUME LockInv, LoopInv, ServeInv, AdmitNew
  PROVE  ServeInv'
  <1>1. PICK r : r = NextReq
    OBVIOUS
  <1>2. PICK m \in Prefixes(MatchKey(r)) : AdmitTo(r, MatchKey(r), m)
             /\ AddOneReq(r, PageSize * Len(m))
    BY <1>1 DEF AdmitNew
  <1>3. pc = "admit" /\ HasNext /\ budget > 0
    BY <1>1 DEF AdmitNew
  <1>4. m \in Seq(Block) /\ PageSize * Len(m) < InputLen(r)
    BY <1>1, <1>2, <1>3, NextReqFacts, MatchKeyFacts DEF LoopInv
  <1>5. held' = held \cup {r}
    BY <1>2 DEF AdmitTo
  <1>6. PICK cached : cached = PageSize * Len(m)
    OBVIOUS
  <1>7. cached \in Nat /\ cached < InputLen(r) /\ AddOneReq(r, cached)
    BY <1>2, <1>4, <1>6, TimesMonotone
  <1> QED
    BY <1>1, <1>3, <1>5, <1>7, AddOneReqServe

\* Every request of a decode batch is computed as a whole.
LEMMA DecodeBatchWhole ==
  ASSUME NEW order, NEW b,
         b = [phase |-> "decode",
              reqs  |-> [i \in 1..Len(order) |-> [req |-> order[i], chunked |-> FALSE]]]
  PROVE  InBatch(b) = Whole(b)
  <1>1. DOMAIN b.reqs = 1..Len(order) /\ \A i \in DOMAIN b.reqs : b.reqs[i].chunked = FALSE
    OBVIOUS
  <1> QED
    BY <1>1 DEF InBatch, Whole

\* and the batch is closed without or with decoding requests.
LEMMA CloseBatchServe ==
  ASSUME LockInv, LoopInv, ServeInv, pc = "admit", CloseBatch, held' = held
  PROVE  ServeInv'
  <1>1. Serving /\ Progress /\ Gone /\ Complete /\ LoopType /\ Queues /\ StageBatches
    BY DEF ServeInv, LoopInv
  <1>2. PICK k : k = Len(batch.reqs)
    OBVIOUS
  <1>3. /\ pending' = PendingAfter(k) /\ cursor' = 1
        /\ UNCHANGED <<chunked, running, user, aborted, finishedReqs, newFinished, replies>>
        /\ UNCHANGED <<outputLen, deviceLen, maxDeviceLen>>
    BY <1>2 DEF CloseBatch, msgVars, reqVars, replyVars
  <1>4. ToSet(pending') \subseteq ToSet(pending) /\ k \in Nat /\ DOMAIN batch.reqs = 1..k
    BY <1>2, <1>3, PendingAfterFacts
  <1>5. due = NoBatch /\ DueLeft = {} /\ batch.phase = "prefill" /\ BatchType(inFlight)
    BY <1>1, NothingDue DEF StageBatches, LoopType
  <1>6. k = 0 => InBatch(batch) = {} /\ Whole(batch) = {}
    <2>1. k = 0 => DOMAIN batch.reqs = {}
      BY <1>4
    <2> QED
      BY <2>1 DEF InBatch, Whole
  <1>7. CASE pc' = "grow" /\ UNCHANGED <<batch, inFlight, due>>
    <2>1. DueLeft' = DueLeft /\ Whole(inFlight)' = Whole(inFlight)
      <3>1. DueLeft' = {}
        BY <1>5, <1>7, NoBatchFacts DEF DueLeft
      <3> QED
        BY <1>5, <1>7, <3>1 DEF Whole
    <2>2. pc' = "grow" => batch'.phase # "none"
      BY <1>5, <1>7
    <2> QED
      BY <1>3, <1>4, <1>7, <2>1, <2>2, ServeFrame
  <1>8. ASSUME NEW order \in InUidOrder(running), k = 0,
               batch' = [phase |-> "decode",
                         reqs  |-> [i \in 1..Len(order) |-> [req |-> order[i], chunked |-> FALSE]]],
               pc' = "grow", UNCHANGED <<inFlight, due>>
        PROVE  ServeInv'
    <2>1. /\ batch'.phase = "decode" /\ InBatch(batch') \subseteq running
          /\ InBatch(batch') = Whole(batch')
      BY <1>1, <1>8, DecodeBatchFacts, DecodeBatchWhole
    <2>2. DueLeft' = {} /\ Whole(inFlight)' = Whole(inFlight)
          /\ Whole(batch)' = Whole(batch') /\ InBatch(batch)' = InBatch(batch')
      BY <1>5, <1>8, NoBatchFacts DEF DueLeft, Whole, InBatch
    <2>3. \A q : Passes(q)' = Passes(q) /\ (Sized(q)' <=> Sized(q)) /\ (Over(q)' <=> Over(q))
                 /\ (Received(q)' <=> Received(q))
                 /\ (CanDecode(q, deviceLen[q])' <=> CanDecode(q, deviceLen[q]))
      BY <1>3, <1>5, <2>2 DEF Passes, Sized, Over, Received, InputLen, CanDecode
    <2>4. Serving'
      BY <1>1, <1>3, <1>4, <1>5, <1>6, <1>8, <2>2, <2>3 DEF Serving
    <2>5. Progress'
      BY <1>1, <1>3, <1>4, <1>8, <2>1, <2>2, <2>3 DEF Progress, LoopType
    <2>6. Gone'
      BY <1>1, <1>3, <1>4, <1>5, <2>2, <2>3 DEF Gone
    <2>7. Complete'
      BY <1>1, <1>3 DEF Complete
    <2> QED
      BY <2>4, <2>5, <2>6, <2>7 DEF ServeInv
  <1>9. CASE k = 0 /\ running = {} /\ pc' = "process" /\ batch' = NoBatch
             /\ due' = inFlight /\ inFlight' = NoBatch
    <2>1. DueLeft' = Whole(inFlight)
      <3>1. DueLeft' = Whole(due')
        <4>1. BatchType(due)' /\ cursor' = 1
          BY <1>3, <1>5, <1>9 DEF BatchType
        <4>2. \A j \in DOMAIN due'.reqs : j >= cursor'
          BY <1>3, <1>5, <1>9, BatchMembers
        <4> QED
          BY <4>2 DEF DueLeft, Whole
      <3> QED
        BY <1>9, <3>1
    <2>2. /\ Whole(inFlight)' = {} /\ Whole(batch)' = {} /\ InBatch(batch)' = {}
          /\ batch'.phase = "none"
      BY <1>9, NoBatchFacts DEF Whole, InBatch
    <2>3. \A q \in Req : Passes(q)' = Passes(q)
      <3> SUFFICES ASSUME NEW q \in Req PROVE Passes(q)' = Passes(q)
        OBVIOUS
      <3>1. One(Whole(inFlight), q) = One(DueLeft', q) /\ One(DueLeft, q) = 0
            /\ One(Whole(inFlight)', q) = 0
        BY <1>5, <2>1, <2>2 DEF One
      <3>2. One(DueLeft', q) \in {0, 1} /\ replies[q].sent \in Nat
        BY <1>1, <3>1, PassesNumber
      <3>3. Passes(q)' = replies[q].sent + One(Whole(inFlight)', q) + One(DueLeft', q)
        BY <1>3 DEF Passes, One
      <3> QED
        BY <3>1, <3>2, <3>3 DEF Passes
    <2>4. \A q \in Req : /\ (Sized(q)' <=> Sized(q)) /\ (Received(q)' <=> Received(q))
                         /\ (CanDecode(q, deviceLen[q])' <=> CanDecode(q, deviceLen[q]))
                         /\ (Over(q)' <=> Over(q))
      BY <1>3, <2>3 DEF Sized, Over, Received, InputLen, CanDecode
    <2>5. Serving'
      <3>1. held \subseteq Req
        BY DEF LockInv, CMTypeOK
      <3> QED
        BY <1>1, <1>3, <1>4, <1>5, <1>6, <1>9, <2>1, <2>2, <2>4, <3>1 DEF Serving
    <2>6. Progress'
      <3>1. \A q \in ToSet(pending) : q \in Req
        BY <1>1, SeqFacts DEF LoopType, ToSet
      <3> QED
        BY <1>1, <1>3, <1>4, <1>9, <2>2, <2>3, <2>4, <3>1 DEF Progress
    <2>7. Gone'
      BY <1>1, <1>3, <1>4, <1>5, <2>1, <2>2, <2>4 DEF Gone
    <2>8. Complete'
      BY <1>1, <1>3 DEF Complete
    <2> QED
      BY <2>5, <2>6, <2>7, <2>8 DEF ServeInv
  <1>10. \/ pc' = "grow" /\ UNCHANGED <<batch, inFlight, due>>
         \/ /\ k = 0 /\ pc' = "grow" /\ UNCHANGED <<inFlight, due>>
            /\ \E order \in InUidOrder(running) :
                 batch' = [phase |-> "decode",
                           reqs  |-> [i \in 1..Len(order) |->
                                        [req |-> order[i], chunked |-> FALSE]]]
         \/ /\ k = 0 /\ running = {} /\ pc' = "process" /\ batch' = NoBatch
            /\ due' = inFlight /\ inFlight' = NoBatch
    BY <1>2 DEF CloseBatch
  <1> QED
    BY <1>7, <1>8, <1>9, <1>10

-----------------------------------------------------------------------------
(* Stages grow and process.                                                *)

\* Eviction touches no request.
LEMMA EvictForBatchServe ==
  ASSUME LoopInv, ServeInv, EvictForBatch
  PROVE  ServeInv'
  <1>1. /\ UNCHANGED <<pc, pending, chunked, running, batch, inFlight, due, cursor, user, aborted>>
        /\ UNCHANGED <<held, outputLen, deviceLen, maxDeviceLen, finishedReqs, newFinished,
                       replies>>
    BY DEF EvictForBatch, EvictLeaf, reqVars, replyVars, msgVars, queueVars, batchVars
  <1>2. DueLeft' = DueLeft /\ Whole(inFlight)' = Whole(inFlight)
    BY <1>1 DEF DueLeft, Whole
  <1>3. pc = "grow" => batch.phase # "none"
    BY DEF ServeInv, Progress
  <1> QED
    BY <1>1, <1>2, <1>3, ServeFrame

\* Nor does giving pages to one.
LEMMA GrowOneServe ==
  ASSUME LoopInv, ServeInv, GrowOne
  PROVE  ServeInv'
  <1>1. /\ pc = "grow" /\ UNCHANGED <<pc, pending, chunked, running, batch, inFlight, due, user,
                                      aborted>>
        /\ UNCHANGED <<held, outputLen, deviceLen, maxDeviceLen, finishedReqs, newFinished,
                       replies>>
    BY DEF GrowOne, TakePages, reqVars, replyVars, msgVars, queueVars
  <1>2. DueLeft' = DueLeft /\ Whole(inFlight)' = Whole(inFlight)
    <2>1. due = NoBatch
      BY <1>1 DEF LoopInv, StageBatches
    <2> QED
      BY <1>1, <2>1, NoBatchFacts DEF DueLeft, Whole
  <1>3. pc = "grow" => batch.phase # "none"
    BY DEF ServeInv, Progress
  <1> QED
    BY <1>1, <1>2, <1>3, ServeFrame

\* The forward pass: one pass more for each request of the batch computed as a whole.
LEMMA ForwardServe ==
  ASSUME LockInv, LoopInv, ServeInv, Forward
  PROVE  ServeInv'
  <1>1. Serving /\ Progress /\ Gone /\ Complete /\ LoopType /\ Queues /\ StageBatches /\ Owners
        /\ Limits
    BY DEF ServeInv, LoopInv
  <1>2. /\ pc = "grow" /\ pc' = "process" /\ cursor' = 1 /\ batch' = NoBatch
        /\ deviceLen' =
             [r \in Req |-> IF r \in InBatch(batch) THEN deviceLen[r] + 1 ELSE deviceLen[r]]
        /\ running' = {r \in running \cup Whole(batch) : CanDecode(r, deviceLen'[r])}
        /\ IF Overlap
           THEN due' = inFlight /\ inFlight' = batch
           ELSE due' = batch /\ UNCHANGED inFlight
    BY DEF Forward
  <1>3. UNCHANGED <<held, user, aborted, pending, chunked, outputLen, maxDeviceLen, finishedReqs,
                    newFinished, replies>>
    BY DEF Forward, cmVars, msgVars, replyVars
  <1>4. /\ Whole(batch) \subseteq InBatch(batch) /\ InBatch(batch) \subseteq Req
        /\ BatchType(batch) /\ BatchType(inFlight) /\ held \subseteq Req
        /\ InBatch(batch) \subseteq held
    BY <1>1, <1>2, BatchMembers DEF LoopType, LockInv, CMTypeOK, Owners
  <1>5. DueLeft = {} /\ (~Overlap => Whole(inFlight) = {} /\ inFlight = NoBatch)
    BY <1>1, <1>2, NothingDue, NoBatchFacts DEF StageBatches
  <1>6. /\ Whole(inFlight)' = IF Overlap THEN Whole(batch) ELSE {}
        /\ DueLeft' = IF Overlap THEN Whole(inFlight) ELSE Whole(batch)
        /\ Whole(batch)' = {} /\ InBatch(batch)' = {} /\ batch'.phase = "none"
    <2>1. BatchType(due') /\ (Overlap => due' = inFlight) /\ (~Overlap => due' = batch)
      BY <1>2, <1>4
    <2>2. DueLeft' = Whole(due')
      <3>1. \A j \in DOMAIN due'.reqs : j >= cursor'
        BY <1>2, <2>1, BatchMembers
      <3> QED
        BY <3>1 DEF DueLeft, Whole
    <2>3. DueLeft' = IF Overlap THEN Whole(inFlight) ELSE Whole(batch)
      BY <2>1, <2>2
    <2>4. Whole(inFlight)' = Whole(inFlight') /\ Whole(batch)' = Whole(batch')
          /\ InBatch(batch)' = InBatch(batch')
      BY DEF Whole, InBatch
    <2>5. Whole(inFlight') = IF Overlap THEN Whole(batch) ELSE {}
      BY <1>2, <1>5, NoBatchFacts
    <2> QED
      BY <1>2, <2>3, <2>4, <2>5, NoBatchFacts
  <1>7. \A r \in Req : Passes(r)' = Passes(r) + One(Whole(batch), r)
    <2> SUFFICES ASSUME NEW r \in Req PROVE Passes(r)' = Passes(r) + One(Whole(batch), r)
      OBVIOUS
    <2>1. Passes(r)' = replies[r].sent + One(Whole(inFlight)', r) + One(DueLeft', r)
      BY <1>3 DEF Passes, One
    <2>2. replies[r].sent \in Nat
      BY <1>1, PassesNumber
    <2>3. /\ One({}, r) = 0 /\ One(Whole(batch), r) \in {0, 1} /\ One(Whole(inFlight), r) \in {0, 1}
      BY DEF One
    <2>4. Passes(r) = replies[r].sent + One(Whole(inFlight), r) + One(DueLeft, r)
      BY DEF Passes
    <2>5. CASE Overlap
      BY <1>5, <1>6, <2>1, <2>2, <2>3, <2>4, <2>5
    <2>6. CASE ~Overlap
      BY <1>5, <1>6, <2>1, <2>2, <2>3, <2>4, <2>6
    <2> QED
      BY <2>5, <2>6
  <1>8. \A r \in Req : /\ deviceLen[r] \in Nat /\ maxDeviceLen[r] \in Nat /\ outputLen[r] \in Nat
                       /\ deviceLen'[r] = deviceLen[r] + One(InBatch(batch), r)
    BY <1>1, <1>2 DEF LoopType, One
  <1>9. ASSUME NEW r \in running \cup Whole(inFlight)
        PROVE  /\ r \in Req /\ Passes(r) \in Nat /\ Passes(r) > 0
               /\ r \in InBatch(batch) => r \in Whole(batch)
    <2>1. r \in Req
      BY <1>1, <1>4, BatchMembers DEF LoopType
    <2>2. Passes(r) \in Nat /\ Passes(r) > 0
      BY <1>1, <2>1, PassesNumber DEF Progress
    <2>3. r \in InBatch(batch) => r \in Whole(batch)
      <3>1. batch.phase \in {"prefill", "decode"}
        BY <1>1, <1>2, <1>4 DEF Progress, BatchType
      <3> QED
        BY <1>1, <2>2, <3>1 DEF Progress
    <2> QED
      BY <2>1, <2>2, <2>3
  <1>10. Serving'
    <2>1. ASSUME NEW r \in held
          PROVE  r \in running' \cup chunked \cup Whole(inFlight)' \cup DueLeft'
      <3>1. r \in Whole(batch) => r \in Whole(inFlight)' \cup DueLeft'
        BY <1>6
      <3>2. r \in Whole(inFlight) => r \in DueLeft'
        BY <1>5, <1>6
      <3>3. ASSUME r \in running, r \notin Whole(batch)
            PROVE  r \in running'
        <4>1. r \in Req /\ r \notin InBatch(batch)
          BY <1>9, <3>3
        <4>2. deviceLen'[r] = deviceLen[r]
          BY <1>2, <4>1
        <4>3. deviceLen[r] < maxDeviceLen[r]
          BY <1>1, <3>3 DEF Limits
        <4>4. maxDeviceLen[r] - deviceLen[r] > 0
          BY <1>8, <4>1, <4>3
        <4> QED
          BY <1>2, <3>3, <4>2, <4>4 DEF CanDecode
      <3> QED
        BY <1>1, <1>5, <3>1, <3>2, <3>3 DEF Serving
    <2>2. ASSUME NEW r \in held, r \in Whole(inFlight)' \cup DueLeft', CanDecode(r, deviceLen[r])'
          PROVE  r \in running'
      <3>1. r \in Whole(batch) \cup Whole(inFlight) /\ r \in Req
        BY <1>4, <1>6, <2>2
      <3>2. CanDecode(r, deviceLen'[r])
        BY <1>3, <2>2 DEF CanDecode
      <3>3. CASE r \in Whole(batch)
        BY <1>2, <3>2, <3>3
      <3>4. CASE r \notin Whole(batch)
        <4>1. r \notin InBatch(batch)
          BY <1>9, <3>1, <3>4
        <4>2. deviceLen'[r] = deviceLen[r]
          BY <1>2, <3>1, <4>1
        <4>3. r \in running
          BY <1>1, <3>1, <3>2, <3>4, <4>2 DEF Serving
        <4> QED
          BY <1>2, <3>2, <4>3
      <3> QED
        BY <3>3, <3>4
    <2> QED
      BY <1>1, <1>3, <2>1, <2>2 DEF Serving
  <1>11. Progress'
    <2>1. ASSUME NEW r \in ToSet(pending) PROVE Passes(r)' = 0
      <3>1. r \in Req /\ r \notin Whole(batch)
        BY <1>1, <1>2, SeqFacts DEF LoopType, ToSet, Queues
      <3>2. Passes(r) = 0 /\ One(Whole(batch), r) = 0
        BY <1>1, <3>1 DEF Progress, One
      <3> QED
        BY <1>7, <3>1, <3>2
    <2>2. ASSUME NEW r \in running' PROVE Passes(r)' > 0
      <3>1. CASE r \in Whole(batch)
        <4>1. r \in Req /\ One(Whole(batch), r) = 1
          BY <1>4, <3>1 DEF One
        <4> QED
          BY <1>1, <1>7, <4>1, PassesNumber
      <3>2. CASE r \notin Whole(batch)
        <4>1. r \in running
          BY <1>2, <3>2
        <4>2. r \in Req /\ One(Whole(batch), r) = 0 /\ Passes(r) \in Nat /\ Passes(r) > 0
          BY <1>9, <3>2, <4>1 DEF One
        <4> QED
          BY <1>7, <4>2
      <3> QED
        BY <3>1, <3>2
    <2>3. ASSUME NEW r \in Req, Passes(r)' > 0 PROVE Sized(r)'
      <3>1. Received(r)' = Received(r) /\ InputLen(r)' = InputLen(r)
        BY <1>3 DEF Received, InputLen
      <3>2. Passes(r) \in Nat
        BY <1>1, PassesNumber
      <3>3. Sized(r) /\ InputLen(r) \in Nat
        <4>1. Passes(r) > 0 \/ r \in Whole(batch)
          BY <1>7, <2>3, <3>2 DEF One
        <4>2. Sized(r)
          BY <1>1, <4>1 DEF Progress
        <4> QED
          BY <1>1, <4>2, PromptOf DEF Sized
      <3>4. CASE r \in Whole(batch)
        <4>1. One(Whole(batch), r) = 1 /\ One(InBatch(batch), r) = 1
          BY <1>4, <3>4 DEF One
        <4>2. Passes(r)' = Passes(r) + 1 /\ deviceLen'[r] = deviceLen[r] + 1
          BY <1>7, <1>8, <4>1
        <4>3. deviceLen'[r] = InputLen(r) + Passes(r)'
          BY <3>2, <3>3, <4>2 DEF Sized
        <4>4. Passes(r)' <= outputLen[r] \/ Passes(r)' <= 1
          <5>1. CASE r \in running
            <6>1. deviceLen[r] < maxDeviceLen[r]
              BY <1>1, <5>1 DEF Limits
            <6> QED
              BY <1>8, <3>2, <3>3, <4>2, <6>1 DEF Sized
          <5>2. CASE r \notin running
            <6>1. Passes(r) = 0
              <7>1. batch.phase \in {"prefill", "decode"}
                BY <1>1, <1>2, <1>4 DEF Progress, BatchType
              <7> QED
                BY <1>1, <1>4, <3>4, <5>2, <7>1 DEF Progress
            <6> QED
              BY <4>2, <6>1
          <5> QED
            BY <5>1, <5>2
        <4> QED
          BY <1>3, <3>1, <3>3, <4>3, <4>4 DEF Sized
      <3>5. CASE r \notin Whole(batch)
        <4>1. Passes(r)' = Passes(r) /\ Passes(r) > 0
          BY <1>7, <2>3, <3>2, <3>5 DEF One
        <4>2. r \notin InBatch(batch)
          <5>1. batch.phase \in {"prefill", "decode"}
            BY <1>1, <1>2, <1>4 DEF Progress, BatchType
          <5> QED
            BY <1>1, <3>2, <3>5, <4>1, <5>1 DEF Progress
        <4>3. deviceLen'[r] = deviceLen[r]
          BY <1>2, <4>2
        <4> QED
          BY <1>3, <3>1, <3>3, <4>1, <4>3 DEF Sized
      <3> QED
        BY <3>4, <3>5
    <2> QED
      BY <1>2, <1>3, <1>6, <2>1, <2>2, <2>3 DEF Progress
  <1>12. Gone'
    <2>1. \A r \in Req : (Over(r)' <=> Over(r)) /\ (Received(r)' <=> Received(r))
      BY <1>3 DEF Over, Received
    <2>2. \A r \in Req : Over(r) => r \notin Whole(batch)
      BY <1>1, <1>4 DEF Gone
    <2>3. ASSUME NEW r \in Req, Over(r), r \in Whole(inFlight)' \/ r \in DueLeft'
          PROVE  Overlap /\ replies[r].late = 0 /\ ~(r \in Whole(inFlight)' /\ r \in DueLeft')
      <3>1. r \notin Whole(batch)
        BY <2>2, <2>3
      <3>2. Overlap /\ r \in Whole(inFlight)
        BY <1>6, <2>3, <3>1
      <3> QED
        BY <1>1, <1>6, <2>3, <3>1, <3>2 DEF Gone
    <2> QED
      BY <1>1, <1>3, <2>1, <2>3 DEF Gone
  <1>13. Complete'
    BY <1>1, <1>3 DEF Complete
  <1> QED
    BY <1>10, <1>11, <1>12, <1>13 DEF ServeInv

\* A prompt computed in part is due no reply.
LEMMA SkipChunkServe ==
  ASSUME LoopInv, ServeInv, SkipChunk
  PROVE  ServeInv'
  <1>1. /\ pc = "process" /\ cursor' = cursor + 1 /\ due.reqs[cursor].chunked
        /\ UNCHANGED <<pc, pending, chunked, running, batch, inFlight, due, user, aborted>>
        /\ UNCHANGED <<held, outputLen, deviceLen, maxDeviceLen, finishedReqs, newFinished,
                       replies>>
    BY DEF SkipChunk, cmVars, reqVars, replyVars, msgVars, queueVars
  <1>2. DueLeft' = DueLeft /\ Whole(inFlight)' = Whole(inFlight)
    <2>1. cursor \in Nat /\ \A j \in DOMAIN due.reqs : j \in Nat
      <3>1. LoopType
        BY DEF LoopInv
      <3> QED
        BY <3>1, BatchMembers DEF LoopType
    <2>2. \A j \in DOMAIN due.reqs : j >= cursor <=> (j >= cursor + 1 \/ j = cursor)
      BY <2>1
    <2> QED
      BY <1>1, <2>2 DEF DueLeft, Whole
  <1> QED
    BY <1>1, <1>2, ServeFrame

\* The end of an iteration forgets the finished requests of the one before.
LEMMA EndProcessServe ==
  ASSUME LoopInv, ServeInv, EndProcess
  PROVE  ServeInv'
  <1>1. /\ pc = "process" /\ cursor > Len(due.reqs) /\ pc' = "receive" /\ due' = NoBatch
        /\ finishedReqs' = (IF due = NoBatch THEN finishedReqs ELSE newFinished)
        /\ newFinished' = {}
        /\ UNCHANGED <<pending, chunked, running, batch, inFlight, user, aborted>>
        /\ UNCHANGED <<held, outputLen, deviceLen, maxDeviceLen, replies>>
    BY DEF EndProcess, cmVars, reqVars, msgVars, queueVars
  <1>2. DueLeft' = DueLeft /\ Whole(inFlight)' = Whole(inFlight)
    <2>1. LoopType
      BY DEF LoopInv
    <2>2. \A j \in DOMAIN due.reqs : ~(j >= cursor)
      BY <1>1, <2>1, BatchMembers DEF LoopType
    <2>3. DueLeft = {} /\ DueLeft' = {}
      BY <1>1, <2>2, NoBatchFacts DEF DueLeft
    <2> QED
      BY <1>1, <2>3 DEF Whole
  <1> QED
    BY <1>1, <1>2, ServeFrame

\* A result is the last one of its request, one of several, or one too late.
LastResult(r) ==
  /\ ~CanDecode(r, deviceLen[r]) \/ ~user[r].ignoreEos
  /\ ~Over(r) /\ r \in held /\ held' = held \ {r} /\ running' = running \ {r}
  /\ newFinished' = newFinished \cup {r}
  /\ replies' = [replies EXCEPT ![r] = [sent |-> @.sent + 1, done |-> TRUE, late |-> 0]]

NextResult(r) ==
  /\ CanDecode(r, deviceLen[r]) /\ ~Over(r) /\ r \in running
  /\ UNCHANGED <<held, running, newFinished>>
  /\ replies' = [replies EXCEPT ![r] = [sent |-> @.sent + 1, done |-> FALSE, late |-> 0]]

LateResult(r) ==
  /\ Overlap /\ replies[r].late = 0 /\ replies[r].done /\ r \notin Whole(inFlight) /\ r \notin held
  /\ UNCHANGED <<held, running, newFinished>>
  /\ replies' = [replies EXCEPT ![r] = [sent |-> @.sent + 1, done |-> TRUE, late |-> 1]]

\* Where a request stands whose result is taken next.
LEMMA ResultFacts ==
  ASSUME LoopInv, ServeInv, NEW token \in Token, ProcessReq(token), NEW r, r = due.reqs[cursor].req
  PROVE  /\ pc = "process" /\ r \in Req /\ r \in DueLeft /\ r \notin ToSet(pending) /\ Sized(r)
         /\ DueLeft' = DueLeft \ {r} /\ Whole(inFlight)' = Whole(inFlight)
         /\ UNCHANGED <<pc, user, aborted, pending, chunked, outputLen, deviceLen, maxDeviceLen,
                        batch, inFlight, finishedReqs>>
         /\ LastResult(r) \/ NextResult(r) \/ LateResult(r)
  <1>1. Serving /\ Progress /\ Gone /\ LoopType /\ Owners
    BY DEF ServeInv, LoopInv
  <1>2. PICK key : key = CacheKey(Append(inputIds[r], token), r)
    OBVIOUS
  <1>3. PICK fin \in BOOLEAN : fin = Ends(r, token)
    BY DEF Ends
  <1>4. /\ pc = "process" /\ cursor <= Len(due.reqs) /\ ~due.reqs[cursor].chunked
        /\ replies' = [replies EXCEPT ![r] = Reply(r, fin)]
        /\ \/ fin /\ r \notin finishedReqs /\ Finish(r, key)
           \/ /\ ~(fin /\ r \notin finishedReqs)
              /\ IF due.phase = "prefill" THEN CacheUnfinished(r, key) ELSE UNCHANGED cmVars
              /\ UNCHANGED <<running, newFinished>>
        /\ cursor' = cursor + 1
    BY <1>2, <1>3 DEF ProcessReq, AlreadyFreed
  <1>5. UNCHANGED <<pc, user, aborted, pending, chunked, outputLen, deviceLen, maxDeviceLen, batch,
                    inFlight, due, finishedReqs>>
    BY DEF ProcessReq, msgVars
  <1>6. /\ r \in Req /\ r \in DueLeft /\ r \notin ToSet(pending)
        /\ cursor \in Nat \ {0}
        /\ \A j \in DOMAIN due.reqs : j >= cursor + 1 => j >= cursor /\ due.reqs[j].req # r
    BY <1>4, DueReqFacts
  <1>7. DueLeft' = DueLeft \ {r} /\ Whole(inFlight)' = Whole(inFlight)
    <2>1. DueLeft' = {due.reqs[i].req :
                        i \in {j \in DOMAIN due.reqs : j >= cursor + 1 /\ ~due.reqs[j].chunked}}
      BY <1>4, <1>5 DEF DueLeft
    <2>2. \A j \in DOMAIN due.reqs : j \in Nat
      BY <1>1, BatchMembers DEF LoopType
    <2>3. \A j \in DOMAIN due.reqs : j >= cursor /\ due.reqs[j].req # r => j >= cursor + 1
      <3> SUFFICES ASSUME NEW j \in DOMAIN due.reqs, j >= cursor, due.reqs[j].req # r
                   PROVE  j >= cursor + 1
        OBVIOUS
      <3>1. j # cursor /\ j \in Nat
        BY <2>2
      <3> QED
        BY <1>6, <3>1
    <2>4. DueLeft' \subseteq DueLeft \ {r}
      BY <1>6, <2>1 DEF DueLeft
    <2>5. DueLeft \ {r} \subseteq DueLeft'
      BY <2>1, <2>3 DEF DueLeft
    <2> QED
      BY <1>5, <2>4, <2>5 DEF Whole
  <1>8. Sized(r)
    BY <1>1, <1>6, PassesNumber DEF Progress
  <1>9. replies[r].sent \in Nat /\ replies[r].done \in BOOLEAN /\ replies[r].late \in Nat
        /\ replies \in [Req -> [sent : Nat, done : BOOLEAN, late : Nat]]
    BY <1>1, <1>6, ReplyFields DEF LoopType
  <1>10. ASSUME ~Over(r)
         PROVE  Reply(r, fin) = [sent |-> replies[r].sent + 1, done |-> fin, late |-> 0]
    BY <1>1, <1>6, <1>9, <1>10 DEF Reply, Gone, Over
  <1>11. r \notin finishedReqs => r \in held /\ ~Over(r)
    BY <1>1, <1>4, <1>6 DEF Owners, Gone
  <1>12. CASE fin /\ r \notin finishedReqs /\ Finish(r, key)
    <2>1. held' = held \ {r} /\ running' = running \ {r} /\ newFinished' = newFinished \cup {r}
      BY <1>12 DEF Finish, FreeResources
    <2>2. ~CanDecode(r, deviceLen[r]) \/ ~user[r].ignoreEos
      BY <1>3, <1>12 DEF Ends
    <2>3. replies' = [replies EXCEPT ![r] = [sent |-> @.sent + 1, done |-> TRUE, late |-> 0]]
      BY <1>4, <1>10, <1>11, <1>12
    <2>4. LastResult(r)
      BY <1>11, <1>12, <2>1, <2>2, <2>3 DEF LastResult
    <2> QED
      BY <1>4, <1>5, <1>6, <1>7, <1>8, <2>4
  <1>13. CASE /\ ~(fin /\ r \notin finishedReqs)
              /\ IF due.phase = "prefill" THEN CacheUnfinished(r, key) ELSE UNCHANGED cmVars
              /\ UNCHANGED <<running, newFinished>>
    <2>1. held' = held
      BY <1>13 DEF CacheUnfinished, cmVars
    <2>2. CASE r \notin finishedReqs
      <3>1. CanDecode(r, deviceLen[r])
        BY <1>3, <1>13, <2>2 DEF Ends
      <3>2. r \in running
        BY <1>1, <1>6, <1>11, <2>2, <3>1 DEF Serving
      <3>3. replies' = [replies EXCEPT ![r] = [sent |-> @.sent + 1, done |-> FALSE, late |-> 0]]
        BY <1>4, <1>10, <1>11, <1>13, <2>2
      <3>4. NextResult(r)
        BY <1>11, <1>13, <2>1, <2>2, <3>1, <3>2, <3>3 DEF NextResult
      <3> QED
        BY <1>4, <1>5, <1>6, <1>7, <1>8, <3>4
    <2>3. CASE r \in finishedReqs
      <3>1. replies[r].done /\ Over(r)
        BY <1>1, <2>3 DEF Gone, Over
      <3>2. Overlap /\ replies[r].late = 0 /\ r \notin Whole(inFlight) /\ r \notin held
        BY <1>1, <1>6, <3>1 DEF Gone
      <3>3. Reply(r, fin) = [sent |-> replies[r].sent + 1, done |-> TRUE, late |-> 1]
        <4>1. /\ (replies[r].done \/ fin) = TRUE
              /\ replies[r].late + (IF replies[r].done \/ r \in aborted THEN 1 ELSE 0) = 1
          BY <1>9, <3>1, <3>2
        <4> QED
          BY <4>1 DEF Reply
      <3>4. LateResult(r)
        BY <1>4, <1>13, <2>1, <3>1, <3>2, <3>3 DEF LateResult
      <3> QED
        BY <1>4, <1>5, <1>6, <1>7, <1>8, <3>4
    <2> QED
      BY <2>2, <2>3
  <1> QED
    BY <1>4, <1>12, <1>13

\* A result becomes a reply, and the last one frees its request.
LEMMA ProcessReqServe ==
  ASSUME LockInv, LoopInv, ServeInv, NEW token \in Token, ProcessReq(token)
  PROVE  ServeInv'
  <1>1. Serving /\ Progress /\ Gone /\ Complete /\ LoopType /\ Queues /\ StageBatches
    BY DEF ServeInv, LoopInv
  <1>2. PICK r : r = due.reqs[cursor].req
    OBVIOUS
  <1>3. /\ pc = "process" /\ r \in Req /\ r \in DueLeft /\ r \notin ToSet(pending) /\ Sized(r)
        /\ DueLeft' = DueLeft \ {r} /\ Whole(inFlight)' = Whole(inFlight)
        /\ UNCHANGED <<pc, user, aborted, pending, chunked, outputLen, deviceLen, maxDeviceLen,
                       batch, inFlight, finishedReqs>>
        /\ LastResult(r) \/ NextResult(r) \/ LateResult(r)
    BY <1>2, ResultFacts
  <1>4. PICK fin \in BOOLEAN, late \in {0, 1} :
          /\ replies' = [replies EXCEPT ![r] = [sent |-> @.sent + 1, done |-> fin, late |-> late]]
          /\ \/ LastResult(r) /\ fin /\ late = 0
             \/ NextResult(r) /\ ~fin /\ late = 0
             \/ LateResult(r) /\ fin /\ late = 1
    BY <1>3 DEF LastResult, NextResult, LateResult
  <1>5. /\ replies'[r].sent = replies[r].sent + 1 /\ replies'[r].done = fin
           /\ replies'[r].late = late
        /\ \A q \in Req \ {r} : replies'[q] = replies[q]
    BY <1>1, <1>3, <1>4 DEF LoopType
  <1>6. /\ running' \subseteq running /\ held' \subseteq held
        /\ newFinished' \subseteq newFinished \cup {r}
    BY <1>4 DEF LastResult, NextResult, LateResult
  <1>7. Whole(batch)' = Whole(batch) /\ InBatch(batch)' = InBatch(batch)
        /\ Whole(batch) = {} /\ InBatch(batch) = {} /\ batch.phase = "none"
    BY <1>1, <1>3, NoBatchFacts DEF StageBatches, Whole, InBatch
  <1>8. \A q \in Req : Passes(q)' = Passes(q)
    <2> SUFFICES ASSUME NEW q \in Req PROVE Passes(q)' = Passes(q)
      OBVIOUS
    <2>1. Passes(q)' = replies'[q].sent + One(Whole(inFlight), q) + One(DueLeft', q)
      BY <1>3 DEF Passes, One
    <2>2. CASE q = r
      <3>1. One(DueLeft', q) = 0 /\ One(DueLeft, q) = 1
        BY <1>3, <2>2 DEF One
      <3>2. replies[r].sent \in Nat /\ One(Whole(inFlight), q) \in {0, 1}
        BY <1>1, <1>3, <2>2, PassesNumber
      <3> QED
        BY <1>5, <2>1, <2>2, <3>1, <3>2 DEF Passes
    <2>3. CASE q # r
      <3>1. One(DueLeft', q) = One(DueLeft, q)
        BY <1>3, <2>3 DEF One
      <3> QED
        BY <1>5, <2>1, <2>3, <3>1 DEF Passes
    <2> QED
      BY <2>2, <2>3
  <1>9. \A q \in Req : /\ (Sized(q)' <=> Sized(q)) /\ (Received(q)' <=> Received(q))
                       /\ (CanDecode(q, deviceLen[q])' <=> CanDecode(q, deviceLen[q]))
    BY <1>3, <1>8 DEF Sized, Received, InputLen, CanDecode
  <1>10. \A q \in Req \ {r} : Over(q)' <=> Over(q)
    BY <1>3, <1>5 DEF Over
  <1>11. Serving'
    <2>1. \A q \in held' : q \in running' \cup chunked \cup Whole(inFlight) \cup DueLeft'
      <3> SUFFICES ASSUME NEW q \in held'
                   PROVE  q \in running' \cup chunked \cup Whole(inFlight) \cup DueLeft'
        OBVIOUS
      <3>1. CASE q = r
        BY <1>4, <3>1 DEF LastResult, NextResult, LateResult
      <3>2. CASE q # r
        <4>1. q \in running => q \in running'
          BY <1>4, <3>2 DEF LastResult, NextResult, LateResult
        <4>2. q \in DueLeft => q \in DueLeft'
          BY <1>3, <3>2
        <4> QED
          BY <1>1, <1>6, <1>7, <4>1, <4>2 DEF Serving
      <3> QED
        BY <3>1, <3>2
    <2>2. ASSUME NEW q \in held', q \in Whole(inFlight) \/ q \in DueLeft',
                 CanDecode(q, deviceLen[q])'
          PROVE  q \in running'
      <3>1. q \in held /\ q \in Req /\ (q \in Whole(inFlight) \/ q \in DueLeft)
        BY <1>3, <1>6, <2>2 DEF LockInv, CMTypeOK
      <3>2. q \in running
        BY <1>1, <1>9, <2>2, <3>1 DEF Serving
      <3> QED
        BY <1>4, <2>2, <3>2 DEF LastResult, NextResult, LateResult
    <2>3. (finishedReqs \cup newFinished') \cap (held' \cup ToSet(pending)) = {}
      BY <1>1, <1>3, <1>4 DEF Serving, LastResult, NextResult, LateResult
    <2> QED
      BY <1>3, <2>1, <2>2, <2>3 DEF Serving
  <1>12. Progress'
    <2>1. \A q \in ToSet(pending) : q \in Req
      BY <1>1, SeqFacts DEF LoopType, ToSet
    <2>2. \A q \in running' : q \in Req /\ q \in running
      BY <1>1, <1>6 DEF LoopType
    <2> QED
      BY <1>1, <1>3, <1>7, <1>8, <1>9, <2>1, <2>2 DEF Progress
  <1>13. Gone'
    <2>1. ASSUME NEW q \in Req
          PROVE  /\ ~Over(q)' => replies'[q].late = 0
                 /\ Over(q)' => Received(q)' /\ q \notin held' /\ q \notin ToSet(pending')
                 /\ Over(q)' /\ (q \in Whole(inFlight)' \/ q \in DueLeft') =>
                      /\ Overlap /\ replies'[q].late = 0
                      /\ ~(q \in Whole(inFlight)' /\ q \in DueLeft')
      <3>1. CASE q # r
        BY <1>1, <1>3, <1>5, <1>6, <1>9, <1>10, <3>1 DEF Gone
      <3>2. CASE q = r
        <4>1. Received(r)' /\ r \notin ToSet(pending') /\ r \notin DueLeft'
          BY <1>3, <1>9 DEF Sized
        <4>2. CASE LastResult(r) /\ fin /\ late = 0
          <5>1. r \notin held'
            BY <4>2 DEF LastResult
          <5>2. r \in Whole(inFlight) => Overlap
            BY <1>1, NoBatchFacts DEF StageBatches
          <5> QED
            BY <1>3, <1>5, <3>2, <4>1, <4>2, <5>1, <5>2
        <4>3. CASE NextResult(r) /\ ~fin /\ late = 0
          <5>1. ~Over(r)'
            BY <1>3, <1>5, <4>3 DEF NextResult, Over
          <5> QED
            BY <1>5, <3>2, <4>3, <5>1
        <4>4. CASE LateResult(r) /\ fin /\ late = 1
          <5>1. r \notin Whole(inFlight)' /\ r \notin held' /\ Over(r)'
            BY <1>3, <1>5, <4>4 DEF LateResult, Over
          <5> QED
            BY <3>2, <4>1, <5>1
        <4> QED
          BY <1>4, <4>2, <4>3, <4>4
      <3> QED
        BY <3>1, <3>2
    <2>2. ASSUME NEW q \in finishedReqs \cup newFinished' PROVE replies'[q].done
      <3>1. CASE q # r
        <4>1. q \in finishedReqs \cup newFinished /\ q \in Req
          BY <1>1, <1>6, <2>2, <3>1 DEF LoopType
        <4> QED
          BY <1>1, <1>5, <3>1, <4>1 DEF Gone
      <3>2. CASE q = r
        <4>1. ~NextResult(r)
          <5> SUFFICES ASSUME NextResult(r) PROVE FALSE
            OBVIOUS
          <5>1. r \in finishedReqs \cup newFinished
            BY <2>2, <3>2 DEF NextResult
          <5>2. replies[r].done
            BY <1>1, <5>1 DEF Gone
          <5> QED
            BY <5>2 DEF NextResult, Over
        <4> QED
          BY <1>4, <1>5, <3>2, <4>1
      <3> QED
        BY <3>1, <3>2
    <2> QED
      BY <1>1, <1>3, <2>1, <2>2 DEF Gone
  <1>14. Complete'
    <2> SUFFICES ASSUME ~Overlap, NEW q \in Req, replies'[q].done, user[q].ignoreEos
                 PROVE  replies'[q].sent >= outputLen[q]
      BY <1>3 DEF Complete
    <2>1. CASE q # r
      BY <1>1, <1>5, <2>1 DEF Complete
    <2>2. CASE q = r
      <3>1. LastResult(r)
        BY <1>4, <1>5, <2>2 DEF LateResult
      <3>2. ~(maxDeviceLen[r] - deviceLen[r] > 0)
        BY <2>2, <3>1 DEF LastResult, CanDecode
      <3>3. Passes(r) = replies[r].sent + 1 /\ replies[r].sent \in Nat
        <4>1. One(Whole(inFlight), r) = 0 /\ One(DueLeft, r) = 1
          BY <1>1, <1>3, NoBatchFacts DEF StageBatches, One
        <4>2. replies[r].sent \in Nat
          BY <1>1, <1>3, PassesNumber
        <4> QED
          BY <4>1, <4>2 DEF Passes
      <3>4. InputLen(r) \in Nat /\ outputLen[r] \in Nat
        BY <1>1, <1>3, PromptOf DEF LoopType, Sized
      <3> QED
        BY <1>3, <1>5, <2>2, <3>2, <3>3, <3>4 DEF Sized
    <2> QED
      BY <2>1, <2>2
  <1> QED
    BY <1>11, <1>12, <1>13, <1>14 DEF ServeInv

-----------------------------------------------------------------------------
(* The service.                                                            *)

\* The phase the service sees, spelled out.
LEMMA PhaseIs ==
  ASSUME NEW r, r \in aborted => Received(r)
  PROVE  Phase(r) = IF r \in aborted THEN "aborted"
                    ELSE IF ~Received(r) THEN "absent"
                    ELSE IF TooLong(user[r]) THEN "dropped"
                    ELSE IF replies[r].done THEN "done" ELSE "active"
  BY DEF Phase

\* The three variables of the service, as functions.
LEMMA SameService ==
  ASSUME NEW r \in Req, NEW p, NEW s, NEW l,
         \A q \in Req \ {r} : Phase(q)' = Phase(q) /\ replies'[q] = replies[q],
         Phase(r)' = p, replies'[r].sent = s, replies'[r].late = l
  PROVE  /\ [q \in Req |-> Phase(q)]' = [[q \in Req |-> Phase(q)] EXCEPT ![r] = p]
         /\ [q \in Req |-> replies[q].sent]' = [[q \in Req |-> replies[q].sent] EXCEPT ![r] = s]
         /\ [q \in Req |-> replies[q].late]' = [[q \in Req |-> replies[q].late] EXCEPT ![r] = l]
  OBVIOUS

\* Where the clients see nothing.
LEMMA ServiceStutter ==
  ASSUME UNCHANGED <<user, aborted, replies>>
  PROVE  UNCHANGED Answers!serviceVars
  BY DEF Answers!serviceVars, Phase, Received

\* Each action is one of the service's, or none: an arrival is a submission or a refusal,
LEMMA ReceiveUserService ==
  ASSUME LoopInv, ServeInv, NEW r \in Req, ReceiveUser(r)
  PROVE  Answers!ServiceNext
  <1>1. LoopType /\ Gone
    BY DEF LoopInv, ServeInv
  <1>2. ~Received(r) /\ UNCHANGED <<aborted, replies>>
    BY DEF ReceiveUser, replyVars
  <1>3. PICK msg \in UserMsgs : user' = [user EXCEPT ![r] = msg]
    BY DEF ReceiveUser
  <1>4. msg # NoMsg
    BY MsgAssumption DEF NoMsg
  <1>5. user'[r] = msg /\ \A q \in Req \ {r} : user'[q] = user[q]
    BY <1>1, <1>3 DEF LoopType
  <1>6. ~Over(r)
    BY <1>1, <1>2 DEF Gone
  <1>7. Phase(r) = "absent"
    BY <1>2, <1>6, PhaseIs DEF Over
  <1>8. Phase(r)' = IF TooLong(msg) THEN "dropped" ELSE "active"
    BY <1>2, <1>4, <1>5, <1>6 DEF Phase, Received, Over
  <1>9. \A q \in Req \ {r} : Phase(q)' = Phase(q) /\ replies'[q] = replies[q]
    BY <1>2, <1>5 DEF Phase, Received
  <1>10. PICK p : p = Phase(r)'
    OBVIOUS
  <1>11. /\ [q \in Req |-> Phase(q)]' = [[q \in Req |-> Phase(q)] EXCEPT ![r] = p]
         /\ [q \in Req |-> replies[q].sent]' = [q \in Req |-> replies[q].sent]
         /\ [q \in Req |-> replies[q].late]' = [q \in Req |-> replies[q].late]
    BY <1>2, <1>9, <1>10, SameService
  <1>12. [q \in Req |-> Phase(q)][r] = "absent" /\ p \in {"active", "dropped"}
    BY <1>7, <1>8, <1>10
  <1>13. Answers!Take(r) \/ Answers!Drop(r)
    BY <1>11, <1>12 DEF Answers!Take, Answers!Drop
  <1> QED
    BY <1>13 DEF Answers!ServiceNext

\* an abort drops its request,
LEMMA ReceiveAbortService ==
  ASSUME LoopInv, ServeInv, NEW r \in Req, ReceiveAbort(r)
  PROVE  Answers!ServiceNext
  <1>1. Received(r) /\ r \notin aborted /\ aborted' = aborted \cup {r}
        /\ UNCHANGED <<user, replies>>
    BY DEF ReceiveAbort, replyVars
  <1>2. Phase(r) \in {"active", "done", "dropped"} /\ Phase(r)' = "aborted"
    BY <1>1 DEF Phase, Received
  <1>3. \A q \in Req \ {r} : Phase(q)' = Phase(q) /\ replies'[q] = replies[q]
    BY <1>1 DEF Phase, Received
  <1>4. /\ [q \in Req |-> Phase(q)]' = [[q \in Req |-> Phase(q)] EXCEPT ![r] = "aborted"]
        /\ [q \in Req |-> replies[q].sent]' = [q \in Req |-> replies[q].sent]
        /\ [q \in Req |-> replies[q].late]' = [q \in Req |-> replies[q].late]
    BY <1>1, <1>2, <1>3, SameService
  <1>5. [q \in Req |-> Phase(q)][r] \in {"active", "done", "dropped"}
    BY <1>2
  <1>6. Answers!Abort(r)
    BY <1>4, <1>5 DEF Answers!Abort
  <1> QED
    BY <1>6 DEF Answers!ServiceNext

\* and a result is the reply the service would give next.
LEMMA ProcessReqService ==
  ASSUME LoopInv, ServeInv, NEW token \in Token, ProcessReq(token)
  PROVE  Answers!ServiceNext
  <1>1. LoopType /\ Gone
    BY DEF LoopInv, ServeInv
  <1>2. PICK r : r = due.reqs[cursor].req
    OBVIOUS
  <1>3. /\ r \in Req /\ r \in DueLeft /\ Sized(r) /\ UNCHANGED <<user, aborted, deviceLen>>
        /\ LastResult(r) \/ NextResult(r) \/ LateResult(r)
    BY <1>2, ResultFacts
  <1>4. PICK fin \in BOOLEAN, late \in {0, 1} :
          /\ replies' = [replies EXCEPT ![r] = [sent |-> @.sent + 1, done |-> fin, late |-> late]]
          /\ \/ LastResult(r) /\ fin /\ late = 0
             \/ NextResult(r) /\ ~fin /\ late = 0
             \/ LateResult(r) /\ fin /\ late = 1
    BY <1>3 DEF LastResult, NextResult, LateResult
  <1>5. /\ replies'[r].sent = replies[r].sent + 1 /\ replies'[r].done = fin
           /\ replies'[r].late = late
        /\ \A q \in Req \ {r} : replies'[q] = replies[q]
    BY <1>1, <1>3, <1>4 DEF LoopType
  <1>6. \A q \in Req \ {r} : Phase(q)' = Phase(q) /\ replies'[q] = replies[q]
    BY <1>3, <1>5 DEF Phase, Received
  <1>7. PICK p : p = Phase(r)'
    OBVIOUS
  <1>8. /\ [q \in Req |-> Phase(q)]' = [[q \in Req |-> Phase(q)] EXCEPT ![r] = p]
        /\ [q \in Req |-> replies[q].sent]' =
             [[q \in Req |-> replies[q].sent] EXCEPT ![r] = replies[r].sent + 1]
        /\ [q \in Req |-> replies[q].late]' = [[q \in Req |-> replies[q].late] EXCEPT ![r] = late]
    BY <1>3, <1>5, <1>6, <1>7, SameService
  <1>9. /\ InputLen(r) \in Nat \ {0} /\ outputLen[r] \in Nat /\ MaxSeqLen \in Nat
        /\ replies[r].sent \in Nat /\ replies[r].sent + 1 <= Passes(r) /\ Passes(r) \in Nat
    <2>1. InputLen(r) \in Nat \ {0} /\ outputLen[r] \in Nat /\ MaxSeqLen \in Nat
      <3>1. Received(r)
        BY <1>3 DEF Sized
      <3>2. outputLen[r] \in Nat /\ MaxSeqLen \in Nat
        BY <1>1, <1>3, MaxSeqLenAssumption DEF LoopType
      <3> QED
        BY <1>1, <1>3, <3>1, <3>2, PromptOf
    <2>2. One(DueLeft, r) = 1
      BY <1>3 DEF One
    <2>3. replies[r].sent \in Nat /\ One(Whole(inFlight), r) \in {0, 1} /\ Passes(r) \in Nat
      BY <1>1, <1>3, PassesNumber
    <2> QED
      BY <2>1, <2>2, <2>3 DEF Passes
  <1>10. replies[r].sent < MaxSeqLen
    BY <1>3, <1>9 DEF Sized
  <1>11. Received(r) /\ ~TooLong(user[r])
    <2>1. InputLen(r) < MaxSeqLen
      BY <1>3 DEF Sized
    <2> QED
      BY <1>3, <1>9, <2>1 DEF Sized, TooLong, InputLen
  <1>12. /\ [q \in Req |-> Phase(q)][r] = Phase(r)
         /\ [q \in Req |-> replies[q].sent][r] = replies[r].sent
         /\ [q \in Req |-> replies[q].late][r] = replies[r].late
    BY <1>3
  <1>13. CASE ~LateResult(r)
    <2>1. /\ ~Over(r) /\ late = 0
          /\ fin \/ NextResult(r)
      <3>1. (LastResult(r) /\ fin /\ late = 0) \/ (NextResult(r) /\ ~fin /\ late = 0)
        BY <1>4, <1>13
      <3>2. LastResult(r) => ~Over(r)
        BY DEF LastResult
      <3>3. NextResult(r) => ~Over(r)
        BY DEF NextResult
      <3> QED
        BY <3>1, <3>2, <3>3
    <2>2. Phase(r) = "active"
      BY <1>11, <2>1, PhaseIs DEF Over
    <2>3. p = IF fin THEN "done" ELSE Phase(r)
      BY <1>3, <1>5, <1>7, <1>11, <2>1, <2>2 DEF Phase, Received, Over
    <2>4. fin \/ replies[r].sent + 1 < MaxSeqLen
      <3> SUFFICES ASSUME ~fin PROVE replies[r].sent + 1 < MaxSeqLen
        OBVIOUS
      <3>1. maxDeviceLen[r] - deviceLen[r] > 0
        BY <2>1 DEF NextResult, CanDecode
      <3> QED
        BY <1>3, <1>9, <3>1 DEF Sized
    <2>5. replies[r].late = 0
      BY <1>1, <1>3, <2>1 DEF Gone
    <2>6. [q \in Req |-> replies[q].late]' = [q \in Req |-> replies[q].late]
      BY <1>8, <2>1, <2>5
    <2>7. Answers!Answer(r, fin)
      BY <1>8, <1>10, <1>12, <2>2, <2>3, <2>4, <2>6 DEF Answers!Answer
    <2> QED
      BY <1>3, <2>7 DEF Answers!ServiceNext
  <1>14. CASE LateResult(r)
    <2>1. Overlap /\ replies[r].late = 0 /\ replies[r].done
      BY <1>14 DEF LateResult
    <2>2. fin /\ late = 1
      BY <1>4, <2>1, <1>14 DEF LastResult, NextResult, Over
    <2>3. Phase(r) = "done"
      BY <1>1, <1>11, <2>1, PhaseIs DEF Gone
    <2>4. p = Phase(r)
      BY <1>3, <1>5, <1>7, <2>1, <2>2 DEF Phase, Received
    <2>5. [q \in Req |-> Phase(q)]' = [q \in Req |-> Phase(q)]
      BY <1>8, <2>4
    <2>6. Answers!AnswerLate(r)
      BY <1>8, <1>10, <1>12, <2>1, <2>2, <2>3, <2>5 DEF Answers!AnswerLate
    <2> QED
      BY <1>3, <2>6 DEF Answers!ServiceNext
  <1> QED
    BY <1>13, <1>14

-----------------------------------------------------------------------------
(* The theorems.                                                           *)

\* Every step keeps the invariant,
LEMMA ServeStep ==
  ASSUME NoAbortInFlight, SchedInv, ServeInv, [Next]_vars
  PROVE  ServeInv' /\ [Answers!ServiceNext]_(Answers!serviceVars)
  <1>1. LockInv /\ LoopInv
    BY DEF SchedInv
  <1>2. ASSUME UNCHANGED vars
        PROVE  ServeInv' /\ UNCHANGED <<user, aborted, replies>>
    <2>1. /\ UNCHANGED <<pc, pending, chunked, running, batch, inFlight, due, cursor, user,
                         aborted>>
          /\ UNCHANGED <<held, outputLen, deviceLen, maxDeviceLen>>
          /\ UNCHANGED <<finishedReqs, newFinished, replies>>
      BY <1>2 DEF vars, cmVars, msgVars, queueVars, reqVars, batchVars, replyVars
    <2>2. DueLeft' = DueLeft /\ Whole(inFlight)' = Whole(inFlight)
      BY <2>1 DEF DueLeft, Whole
    <2>3. pc = "grow" => batch.phase # "none"
      BY DEF ServeInv, Progress
    <2> QED
      BY <2>1, <2>2, <2>3, ServeFrame
  <1>3. ASSUME NEW r \in Req, ReceiveUser(r) PROVE ServeInv' /\ Answers!ServiceNext
    BY <1>1, <1>3, ReceiveUserServe, ReceiveUserService
  <1>4. ASSUME NEW r \in Req, ReceiveAbort(r) PROVE ServeInv' /\ Answers!ServiceNext
    BY <1>1, <1>4, ReceiveAbortServe, ReceiveAbortService
  <1>5. ASSUME NEW token \in Token, ProcessReq(token) PROVE ServeInv' /\ Answers!ServiceNext
    BY <1>1, <1>5, ProcessReqServe, ProcessReqService
  <1>6. CASE BeginSchedule
    BY <1>1, <1>6, BeginScheduleServe, ServiceStutter DEF BeginSchedule, msgVars, replyVars
  <1>7. CASE ContinueChunk
    BY <1>1, <1>7, ContinueChunkServe, ServiceStutter
       DEF ContinueChunk, AddOneReq, msgVars, replyVars
  <1>8. CASE AdmitNew
    BY <1>1, <1>8, AdmitNewServe, ServiceStutter DEF AdmitNew, AddOneReq, msgVars, replyVars
  <1>9. CASE RefuseNew
    <2>1. pc = "admit" /\ CloseBatch /\ held' = held
      BY <1>9 DEF RefuseNew, MatchOnly
    <2> QED
      BY <1>1, <2>1, CloseBatchServe, ServiceStutter DEF CloseBatch, msgVars, replyVars
  <1>10. CASE StopAdmitting
    <2>1. pc = "admit" /\ CloseBatch /\ held' = held
      BY <1>10 DEF StopAdmitting, cmVars
    <2> QED
      BY <1>1, <2>1, CloseBatchServe, ServiceStutter DEF CloseBatch, msgVars, replyVars
  <1>11. CASE EvictForBatch
    BY <1>1, <1>11, EvictForBatchServe, ServiceStutter DEF EvictForBatch, msgVars, replyVars
  <1>12. CASE GrowOne
    BY <1>1, <1>12, GrowOneServe, ServiceStutter DEF GrowOne, msgVars, replyVars
  <1>13. CASE Forward
    BY <1>1, <1>13, ForwardServe, ServiceStutter DEF Forward, msgVars, replyVars
  <1>14. CASE SkipChunk
    BY <1>1, <1>14, SkipChunkServe, ServiceStutter DEF SkipChunk, msgVars, replyVars
  <1>15. CASE EndProcess
    BY <1>1, <1>15, EndProcessServe, ServiceStutter DEF EndProcess, msgVars
  <1>16. CASE UNCHANGED vars \/ Idle
    BY <1>2, <1>16, ServiceStutter DEF Idle
  <1> QED
    BY <1>3, <1>4, <1>5, <1>6, <1>7, <1>8, <1>9, <1>10, <1>11, <1>12, <1>13, <1>14, <1>15, <1>16
       DEF Next, Loop

\* which therefore holds throughout.
LEMMA ServeInvariant == NoAbortInFlight /\ Spec => []ServeInv
  <1> SUFFICES ASSUME NoAbortInFlight PROVE Spec => []ServeInv
    OBVIOUS
  <1>1. Init => ServeInv
    BY InitServe
  <1>2. SchedInv /\ ServeInv /\ [Next]_vars => ServeInv'
    BY ServeStep
  <1>3. Spec => []SchedInv
    BY SchedInvariant
  <1> QED
    BY <1>1, <1>2, <1>3, PTL DEF Spec

\* To its clients the scheduler is the service, with and without overlap: no reply
\* follows the one that says finished or the abort, but one of the batch in flight.
THEOREM SchedulerServes == NoAbortInFlight /\ Spec => ServiceSpec
  <1> SUFFICES ASSUME NoAbortInFlight PROVE Spec => ServiceSpec
    OBVIOUS
  <1>1. Init => Answers!ServiceInit
    <2> SUFFICES ASSUME Init PROVE Answers!ServiceInit
      OBVIOUS
    <2>1. /\ user = [r \in Req |-> NoMsg] /\ aborted = {}
          /\ replies = [r \in Req |-> [sent |-> 0, done |-> FALSE, late |-> 0]]
      BY DEF Init
    <2>2. \A r \in Req : Phase(r) = "absent" /\ replies[r].sent = 0 /\ replies[r].late = 0
      BY <2>1, PhaseIs DEF Received
    <2> QED
      BY <2>2 DEF Answers!ServiceInit
  <1>2. SchedInv /\ ServeInv /\ [Next]_vars => [Answers!ServiceNext]_(Answers!serviceVars)
    BY ServeStep
  <1>3. Spec => []SchedInv /\ []ServeInv
    BY SchedInvariant, ServeInvariant
  <1> QED
    BY <1>1, <1>2, <1>3, PTL DEF Spec, ServiceSpec, Answers!ServiceSpec

\* run_when_idle: with every request over, no page is in use, the counters add up to the
\* pool and no request slot is missing.
THEOREM SchedulerIdle == NoAbortInFlight /\ Spec => []IdleIntegrity
  <1>1. SchedInv /\ ServeInv /\ PageInv /\ CountInv /\ NoSlotLost => IdleIntegrity
    <2> SUFFICES ASSUME SchedInv, ServeInv, PageInv, CountInv, NoSlotLost, pc = "receive", Blocking
                 PROVE  /\ Len(freeSlots) + tree.evictable + tree.protected = NumPages
                        /\ tree.protected = 0
                        /\ Len(tableFree) = MaxRunning
      BY DEF IdleIntegrity
    <2>1. LoopInv /\ Queues /\ Serving
      BY DEF SchedInv, LoopInv, ServeInv
    <2>2. pending = <<>> /\ running = {} /\ inFlight = NoBatch
      BY DEF Blocking
    <2>3. chunked = {} /\ Whole(inFlight) = {} /\ Whole(batch) = {} /\ DueLeft = {}
      BY <2>1, <2>2, AtReceive, NoBatchFacts DEF Queues, ToSet
    <2>4. held = {}
      BY <2>1, <2>2, <2>3 DEF Serving
    <2> QED
      BY <2>4, NothingHeld DEF CountInv
  <1> QED
    BY <1>1, SchedInvariant, ServeInvariant, SchedulerKeepsContract, PageInvariant, CountInvariant,
       SlotsInvariant, PTL

\* Without overlap a client gets as many tokens as it asked for: never more, and fewer
\* only when Eos or its abort ends the answer.
THEOREM AnswersComplete == ~Overlap /\ Spec => []AnswerLength
  <1> SUFFICES ASSUME ~Overlap PROVE Spec => []AnswerLength
    OBVIOUS
  <1>1. SchedInv /\ ServeInv => AnswerLength
    <2> SUFFICES ASSUME SchedInv, ServeInv PROVE AnswerLength
      OBVIOUS
    <2>1. LoopType /\ Progress /\ Complete
      BY DEF SchedInv, LoopInv, ServeInv
    <2>2. ASSUME NEW r \in Req
          PROVE  replies[r].sent <= Max({outputLen[r], 1})
      <3>1. /\ replies[r].sent \in Nat /\ Passes(r) \in Nat /\ replies[r].sent <= Passes(r)
            /\ outputLen[r] \in Nat
        <4>1. /\ replies[r].sent \in Nat /\ Passes(r) \in Nat /\ outputLen[r] \in Nat
              /\ One(Whole(inFlight), r) \in {0, 1} /\ One(DueLeft, r) \in {0, 1}
          BY <2>1, PassesNumber DEF LoopType
        <4> QED
          BY <4>1 DEF Passes
      <3>2. Passes(r) <= outputLen[r] \/ Passes(r) <= 1
        BY <2>1, <3>1 DEF Progress, Sized
      <3>3. Max({outputLen[r], 1}) = IF outputLen[r] >= 1 THEN outputLen[r] ELSE 1
        BY <3>1, MaxOfTwo
      <3> QED
        BY <3>1, <3>2, <3>3
    <2>3. TokenLimit
      BY <2>2 DEF TokenLimit
    <2>4. FullLength
      BY <2>1 DEF Complete, FullLength
    <2> QED
      BY <2>3, <2>4 DEF AnswerLength
  <1>2. Spec => []SchedInv /\ []ServeInv
    BY SchedInvariant, ServeInvariant DEF NoAbortInFlight
  <1> QED
    BY <1>1, <1>2, PTL

-----------------------------------------------------------------------------
(* The lengths.                                                            *)

\* A decoding request has one token more than its row.
OneAhead == \A r \in running : deviceLen[r] = cachedLen[r] + 1

\* A prefill batch computes prompts, and a prompt is shorter than a row.
WithinPrompt ==
  batch.phase = "prefill" =>
    \A r \in InBatch(batch) : deviceLen[r] <= InputLen(r) /\ InputLen(r) < MaxSeqLen

\* A request with a chunk in flight has no token yet.
ChunksUnanswered ==
  \A r \in InBatch(inFlight) \ Whole(inFlight) : replies[r].sent = 0 /\ r \notin DueLeft

LengthInv == OneAhead /\ WithinPrompt /\ ChunksUnanswered

\* Initially there is nobody.
LEMMA InitLengths == Init => LengthInv
  BY NoBatchFacts DEF Init, LengthInv, OneAhead, WithinPrompt, ChunksUnanswered

\* Where lengths stay and no batch is launched, only replies have to be looked at.
LEMMA LengthsKept ==
  ASSUME LengthInv, UNCHANGED <<cachedLen, deviceLen>>, running' \subseteq running,
         \A q \in InBatch(batch) : user'[q] = user[q],
         batch' = batch \/ batch'.phase # "prefill" \/ InBatch(batch') = {},
         \/ inFlight' = NoBatch
         \/ /\ inFlight' = inFlight /\ DueLeft' \subseteq DueLeft
            /\ \A q \in InBatch(inFlight) \ Whole(inFlight) : replies'[q] = replies[q]
  PROVE  LengthInv'
  <1>1. OneAhead /\ WithinPrompt /\ ChunksUnanswered
    BY DEF LengthInv
  <1>2. OneAhead'
    BY <1>1 DEF OneAhead
  <1>3. WithinPrompt'
    <2>1. InBatch(batch)' = InBatch(batch')
      BY DEF InBatch
    <2>2. \A q \in InBatch(batch) : InputLen(q)' = InputLen(q)
      BY DEF InputLen
    <2> QED
      BY <1>1, <2>1, <2>2 DEF WithinPrompt
  <1>4. ChunksUnanswered'
    <2>1. InBatch(inFlight)' = InBatch(inFlight') /\ Whole(inFlight)' = Whole(inFlight')
      BY DEF InBatch, Whole
    <2> QED
      BY <1>1, <2>1, NoBatchFacts DEF ChunksUnanswered
  <1> QED
    BY <1>2, <1>3, <1>4 DEF LengthInv

\* A request that gets into the batch computes a part of its prompt.
LEMMA AddOneLengths ==
  ASSUME LoopInv, LengthInv, pc = "admit", HasNext, budget > 0,
         NEW r, r = NextReq, NEW cached \in Nat, cached < InputLen(r), AddOneReq(r, cached)
  PROVE  LengthInv'
  <1>1. LoopType /\ StageBatches /\ Limits /\ OneAhead /\ WithinPrompt /\ ChunksUnanswered
    BY DEF LoopInv, LengthInv
  <1>2. /\ r \in Req /\ r \notin InBatch(batch) /\ r \notin running /\ Received(r)
        /\ InputLen(r) < MaxSeqLen
    BY <1>1, NextReqFacts DEF Limits
  <1>3. /\ InputLen(r) \in Nat /\ outputLen[r] \in Nat /\ reserved \in Int
        /\ budget \in Nat \ {0}
    BY <1>1, <1>2, PromptOf DEF LoopType
  <1>4. PICK n \in Nat, part \in BOOLEAN :
          /\ n <= InputLen(r)
          /\ cachedLen' = [cachedLen EXCEPT ![r] = cached]
          /\ deviceLen' = [deviceLen EXCEPT ![r] = n]
          /\ batch' = [batch EXCEPT !.reqs = Append(@, [req |-> r, chunked |-> part])]
    BY <1>3, ChunkFacts
  <1>5. UNCHANGED <<user, running, inFlight, due, cursor, replies>>
    BY DEF AddOneReq, msgVars, replyVars
  <1>6. InBatch(batch)' = InBatch(batch) \cup {r} /\ batch'.phase = batch.phase
        /\ InBatch(batch) \subseteq Req
    <2>1. BatchType(batch) /\ OnceEach(batch)
      BY <1>1 DEF LoopType, StageBatches
    <2>2. InBatch(batch') = InBatch(batch) \cup {r} /\ batch'.phase = batch.phase
      BY <1>2, <1>4, <2>1, BatchAppend
    <2> QED
      BY <2>1, <2>2, BatchMembers DEF InBatch
  <1>7. /\ cachedLen'[r] = cached /\ deviceLen'[r] = n
        /\ \A q \in Req \ {r} : cachedLen'[q] = cachedLen[q] /\ deviceLen'[q] = deviceLen[q]
    BY <1>1, <1>2, <1>4 DEF LoopType
  <1>8. OneAhead'
    BY <1>1, <1>2, <1>5, <1>7 DEF OneAhead, LoopType
  <1>9. WithinPrompt'
    <2>1. \A q : InputLen(q)' = InputLen(q)
      BY <1>5 DEF InputLen
    <2> QED
      BY <1>1, <1>2, <1>4, <1>6, <1>7, <2>1 DEF WithinPrompt
  <1>10. ChunksUnanswered'
    BY <1>1, <1>5 DEF ChunksUnanswered, InBatch, Whole, DueLeft
  <1> QED
    BY <1>8, <1>9, <1>10 DEF LengthInv

\* The forward pass moves both lengths of a request on; what is now in flight has not been
\* answered before if it was a prompt.
LEMMA ForwardLengths ==
  ASSUME LoopInv, ServeInv, LengthInv, Forward
  PROVE  LengthInv'
  <1>1. LoopType /\ StageBatches /\ Progress /\ OneAhead /\ WithinPrompt /\ ChunksUnanswered
    BY DEF LoopInv, LengthInv, ServeInv
  <1>2. /\ pc = "grow" /\ cursor' = 1 /\ batch' = NoBatch
        /\ cachedLen' = [q \in Req |-> IF q \in InBatch(batch) THEN deviceLen[q] ELSE cachedLen[q]]
        /\ deviceLen' = [q \in Req |-> IF q \in InBatch(batch) THEN deviceLen[q] + 1
                                       ELSE deviceLen[q]]
        /\ running' = {q \in running \cup Whole(batch) : CanDecode(q, deviceLen'[q])}
        /\ IF Overlap THEN due' = inFlight /\ inFlight' = batch
           ELSE due' = batch /\ UNCHANGED inFlight
        /\ replies' = replies
    BY DEF Forward, replyVars
  <1>3. /\ Whole(batch) \subseteq InBatch(batch) /\ InBatch(batch) \subseteq Req
        /\ BatchType(inFlight)
    BY <1>1, BatchMembers DEF LoopType
  <1>4. OneAhead'
    <2> SUFFICES ASSUME NEW q \in running' PROVE deviceLen'[q] = cachedLen'[q] + 1
      BY DEF OneAhead
    <2>1. q \in Req /\ (q \in running \/ q \in InBatch(batch))
      BY <1>1, <1>2, <1>3 DEF LoopType
    <2> QED
      BY <1>1, <1>2, <2>1 DEF OneAhead
  <1>5. WithinPrompt'
    <2>1. InBatch(batch)' = {}
      BY <1>2, NoBatchFacts DEF InBatch
    <2> QED
      BY <2>1 DEF WithinPrompt
  <1>6. ChunksUnanswered'
    <2>1. CASE ~Overlap
      <3>1. inFlight' = NoBatch
        BY <1>1, <1>2, <2>1 DEF StageBatches
      <3> QED
        BY <3>1, NoBatchFacts DEF ChunksUnanswered, InBatch
    <2>2. CASE Overlap
      <3>1. DueLeft' = Whole(inFlight)
        <4>1. due' = inFlight /\ cursor' = 1 /\ BatchType(due')
          BY <1>2, <1>3, <2>2
        <4>2. \A j \in DOMAIN due'.reqs : j >= cursor'
          BY <4>1, BatchMembers
        <4> QED
          BY <4>1, <4>2 DEF DueLeft, Whole
      <3>2. InBatch(inFlight)' = InBatch(batch) /\ Whole(inFlight)' = Whole(batch)
        BY <1>2, <2>2 DEF InBatch, Whole
      <3>3. ASSUME NEW q \in InBatch(batch) \ Whole(batch)
            PROVE  replies[q].sent = 0 /\ q \notin Whole(inFlight)
        <4>1. batch.phase = "prefill"
          <5>1. batch.phase \in {"none", "prefill", "decode"}
            BY <1>1 DEF LoopType, BatchType
          <5> QED
            BY <1>1, <1>2, <3>3, <5>1 DEF Progress
        <4>2. Passes(q) = 0 /\ q \in Req
          BY <1>1, <1>3, <3>3, <4>1 DEF Progress
        <4>3. replies[q].sent \in Nat /\ One(Whole(inFlight), q) \in {0, 1}
              /\ One(DueLeft, q) \in {0, 1}
          BY <1>1, <4>2, PassesNumber
        <4>4. Passes(q) = replies[q].sent + One(Whole(inFlight), q) + One(DueLeft, q)
          BY DEF Passes
        <4>5. replies[q].sent = 0 /\ One(Whole(inFlight), q) = 0
          BY <4>2, <4>3, <4>4
        <4> QED
          BY <4>5 DEF One
      <3> QED
        BY <1>2, <3>1, <3>2, <3>3 DEF ChunksUnanswered
    <2> QED
      BY <2>1, <2>2
  <1> QED
    BY <1>4, <1>5, <1>6 DEF LengthInv

\* Every step keeps this,
LEMMA LengthStep ==
  ASSUME NoAbortInFlight, SchedInv, ServeInv, LengthInv, [Next]_vars
  PROVE  LengthInv'
  <1>1. LockInv /\ LoopInv /\ LoopType /\ StageBatches
    BY DEF SchedInv, LoopInv
  <1>2. CASE UNCHANGED vars
    <2>1. UNCHANGED <<cachedLen, deviceLen, running, user, batch, inFlight, due, cursor, replies>>
      BY <1>2 DEF vars, msgVars, queueVars, reqVars, batchVars, replyVars
    <2>2. DueLeft' = DueLeft
      BY <2>1 DEF DueLeft
    <2> QED
      BY <2>1, <2>2, LengthsKept
  <1>3. ASSUME NEW r \in Req, ReceiveUser(r) \/ ReceiveAbort(r) PROVE LengthInv'
    <2>1. /\ pc = "receive" /\ running' \subseteq running
          /\ UNCHANGED <<cachedLen, deviceLen, batch, inFlight, due, cursor, replies>>
      BY <1>3 DEF ReceiveUser, ReceiveAbort, TakeOut, reqVars, batchVars, replyVars
    <2>2. InBatch(batch) = {} /\ DueLeft' = DueLeft
      BY <1>1, <2>1, AtReceive DEF DueLeft
    <2> QED
      BY <2>1, <2>2, LengthsKept
  <1>4. CASE BeginSchedule
    <2>1. /\ batch' = [phase |-> "prefill", reqs |-> <<>>]
          /\ UNCHANGED <<cachedLen, deviceLen, running, user, inFlight, due, cursor, replies>>
      BY <1>4 DEF BeginSchedule, msgVars, queueVars, reqVars, replyVars
    <2>2. InBatch(batch') = {} /\ DueLeft' = DueLeft
      BY <2>1, EmptyBatch DEF DueLeft
    <2> QED
      BY <2>1, <2>2, LengthsKept
  <1>5. CASE ContinueChunk
    <2>1. PICK r : r = NextReq
      OBVIOUS
    <2>2. /\ pc = "admit" /\ HasNext /\ budget > 0 /\ r \in chunked
          /\ AddOneReq(r, cachedLen[r])
      BY <1>5, <2>1 DEF ContinueChunk
    <2>3. cachedLen[r] \in Nat /\ cachedLen[r] < InputLen(r)
      BY <1>1, <2>2 DEF LoopInv, LoopType, Limits
    <2> QED
      BY <1>1, <2>1, <2>2, <2>3, AddOneLengths
  <1>6. CASE AdmitNew
    <2>1. PICK r : r = NextReq
      OBVIOUS
    <2>2. PICK m \in Prefixes(MatchKey(r)) : AddOneReq(r, PageSize * Len(m))
      BY <1>6, <2>1 DEF AdmitNew
    <2>3. pc = "admit" /\ HasNext /\ budget > 0
      BY <1>6 DEF AdmitNew
    <2>4. m \in Seq(Block) /\ PageSize * Len(m) < InputLen(r)
      BY <1>1, <2>1, <2>2, <2>3, NextReqFacts, MatchKeyFacts
    <2>5. PICK cached : cached = PageSize * Len(m)
      OBVIOUS
    <2>6. cached \in Nat /\ cached < InputLen(r) /\ AddOneReq(r, cached)
      BY <2>2, <2>4, <2>5, TimesMonotone
    <2> QED
      BY <1>1, <2>1, <2>3, <2>6, AddOneLengths
  <1>7. CASE RefuseNew \/ StopAdmitting
    <2>1. pc = "admit" /\ CloseBatch
      BY <1>7 DEF RefuseNew, StopAdmitting
    <2>2. /\ cursor' = 1 /\ UNCHANGED <<cachedLen, deviceLen, running, user, replies>>
          /\ UNCHANGED <<inFlight, due>> \/ inFlight' = NoBatch
      BY <2>1 DEF CloseBatch, msgVars, reqVars, replyVars
    <2>3. batch' = batch \/ batch'.phase # "prefill"
      <3>1. ASSUME NEW order \in InUidOrder(running),
                   batch' = [phase |-> "decode",
                             reqs  |-> [i \in 1..Len(order) |->
                                          [req |-> order[i], chunked |-> FALSE]]]
            PROVE  batch'.phase # "prefill"
        BY <1>1, <3>1, DecodeBatchFacts
      <3> QED
        BY <2>1, <3>1, NoBatchFacts DEF CloseBatch
    <2>4. inFlight' = NoBatch \/ (inFlight' = inFlight /\ DueLeft' = {})
      <3>1. due = NoBatch
        BY <1>1, <2>1 DEF StageBatches
      <3>2. due' = NoBatch => DueLeft' = {}
        BY NoBatchFacts DEF DueLeft
      <3> QED
        BY <2>2, <3>1, <3>2
    <2> QED
      BY <2>2, <2>3, <2>4, LengthsKept
  <1>8. CASE EvictForBatch \/ GrowOne
    <2>1. /\ pc = "grow"
          /\ UNCHANGED <<cachedLen, deviceLen, running, user, batch, inFlight, due, replies>>
      BY <1>8 DEF EvictForBatch, GrowOne, msgVars, queueVars, reqVars, batchVars, replyVars
    <2>2. DueLeft' = {}
      BY <1>1, <2>1, NoBatchFacts DEF StageBatches, DueLeft
    <2> QED
      BY <2>1, <2>2, LengthsKept
  <1>9. CASE Forward
    BY <1>1, <1>9, ForwardLengths
  <1>10. CASE SkipChunk
    <2>1. /\ cursor' = cursor + 1 /\ cursor \in Nat
          /\ UNCHANGED <<cachedLen, deviceLen, running, user, batch, inFlight, due, replies>>
      BY <1>1, <1>10 DEF SkipChunk, msgVars, queueVars, reqVars, replyVars, LoopType
    <2>2. DueLeft' \subseteq DueLeft
      <3>1. \A j \in DOMAIN due.reqs : j >= cursor + 1 => j >= cursor
        <4>1. DOMAIN due.reqs = 1..Len(due.reqs) /\ Len(due.reqs) \in Nat
          BY <1>1, BatchMembers DEF LoopType
        <4> QED
          BY <2>1, <4>1
      <3> QED
        BY <2>1, <3>1 DEF DueLeft
    <2> QED
      BY <2>1, <2>2, LengthsKept
  <1>11. ASSUME NEW token \in Token, ProcessReq(token) PROVE LengthInv'
    <2>1. PICK r : r = due.reqs[cursor].req
      OBVIOUS
    <2>2. /\ r \in DueLeft /\ DueLeft' = DueLeft \ {r}
          /\ UNCHANGED <<user, deviceLen, batch, inFlight>>
          /\ r \in Req
      BY <1>1, <1>11, <2>1, ResultFacts
    <2>3. /\ cachedLen' = cachedLen /\ running' \subseteq running
          /\ \A q : q # r => replies'[q] = replies[q]
      BY <1>1, <1>11, <2>1 DEF ProcessReq, Finish, LoopType
    <2>4. r \notin InBatch(inFlight) \ Whole(inFlight)
      BY <2>2 DEF LengthInv, ChunksUnanswered
    <2> QED
      BY <2>2, <2>3, <2>4, LengthsKept
  <1>12. CASE EndProcess
    <2>1. /\ due' = NoBatch
          /\ UNCHANGED <<cachedLen, deviceLen, running, user, batch, inFlight, replies>>
      BY <1>12 DEF EndProcess, msgVars, queueVars, reqVars
    <2>2. DueLeft' = {}
      BY <2>1, NoBatchFacts DEF DueLeft
    <2> QED
      BY <2>1, <2>2, LengthsKept
  <1>13. CASE Idle
    BY <1>2, <1>13 DEF Idle
  <1> QED
    BY <1>2, <1>3, <1>4, <1>5, <1>6, <1>7, <1>8, <1>9, <1>10, <1>11, <1>12, <1>13 DEF Next, Loop

\* which therefore holds throughout.
LEMMA LengthInvariant == NoAbortInFlight /\ Spec => []LengthInv
  <1> SUFFICES ASSUME NoAbortInFlight PROVE Spec => []LengthInv
    OBVIOUS
  <1>1. Init => LengthInv
    BY InitLengths
  <1>2. SchedInv /\ ServeInv /\ LengthInv /\ [Next]_vars => LengthInv'
    BY LengthStep
  <1>3. Spec => []SchedInv
    BY SchedInvariant
  <1>4. Spec => []ServeInv
    BY ServeInvariant
  <1> QED
    BY <1>1, <1>2, <1>3, <1>4, PTL DEF Spec

\* A row of the page table has at least max_seq_len columns.
LEMMA WidthFits == Width \in Nat /\ MaxSeqLen \in Nat /\ MaxSeqLen <= Width
  <1> DEFINE n == MaxSeqLen + TableAlign - 1
             q == n \div TableAlign
  <1>1. TableAlign \in Nat /\ TableAlign > 0
    BY PlanAssumption
  <1>2. MaxSeqLen \in Nat
    BY MaxSeqLenAssumption, PageSizeAssumption, NumPagesAssumption
  <1>3. n \in Nat /\ MaxSeqLen = n - TableAlign + 1
    BY <1>1, <1>2
  <1>4. Width = q * TableAlign
    BY DEF Width
  <1> HIDE DEF n
  <1>5. q \in Nat /\ q * TableAlign \in Nat /\ n < q * TableAlign + TableAlign
    BY <1>1, <1>3
  <1> HIDE DEF q
  <1> QED
    BY <1>1, <1>2, <1>3, <1>4, <1>5

\* A batch that is about to be launched and the one in flight before it.
LEMMA WriteMeetsRead ==
  ASSUME LockInv, LoopInv, ServeInv, LengthInv, Planned,
         NEW a \in ToSet(inFlight.reqs), NEW b \in ToSet(batch.reqs),
         slot[b.req] = slot[a.req], a.req \in held,
         NEW col, col = WriteColumn(a.req, a.chunked, deviceLen[a.req] - 1)
  PROVE  /\ a.req = b.req
         /\ col < deviceLen[b.req] => col = cachedLen[b.req] /\ batch.phase = "decode"
         /\ batch.phase = "decode" => col = deviceLen[b.req] - 1
  <1>1. LoopType /\ StageBatches /\ Owners /\ Limits /\ Progress /\ OneAhead /\ WithinPrompt
        /\ ChunksUnanswered
    BY DEF LoopInv, ServeInv, LengthInv
  <1>2. pc = "grow" /\ batch.phase \in {"prefill", "decode"}
    BY <1>1 DEF Planned, Progress, LoopType, BatchType
  <1>3. PICK i \in DOMAIN inFlight.reqs, j \in DOMAIN batch.reqs :
          a = inFlight.reqs[i] /\ b = batch.reqs[j]
    BY DEF ToSet
  <1>4. PICK r : r = b.req
    OBVIOUS
  <1>5. r \in InBatch(batch) /\ r \in Req /\ r \in held /\ a.chunked \in BOOLEAN
    BY <1>1, <1>2, <1>3, <1>4, BatchMembers DEF LoopType, Owners
  <1>6. a.req = r
    BY <1>4, <1>5 DEF LockInv, OneUserPerSlot
  <1>7. r \in InBatch(inFlight) /\ (a.chunked <=> r \notin Whole(inFlight))
    <2>1. \A k \in DOMAIN inFlight.reqs : inFlight.reqs[k].req = r => k = i
      BY <1>1, <1>3, <1>6 DEF StageBatches, OnceEach
    <2> QED
      BY <1>3, <1>6, <2>1 DEF InBatch, Whole
  <1>8. deviceLen[r] \in Nat /\ cachedLen[r] \in Nat /\ maxDeviceLen[r] \in Nat
    BY <1>1, <1>5 DEF LoopType
  <1>9. CASE ~a.chunked
    <2>1. Passes(r) > 0
      BY <1>1, <1>5, <1>7, <1>9, PassesNumber
    <2>2. Passes(r) \in Nat
      BY <1>1, <1>5, PassesNumber
    <2>3. batch.phase = "decode"
      BY <1>1, <1>2, <1>5, <2>1, <2>2 DEF Progress
    <2>4. r \in running
      BY <1>1, <1>5, <2>3 DEF Progress
    <2>5. deviceLen[r] = cachedLen[r] + 1 /\ deviceLen[r] < maxDeviceLen[r]
      BY <1>1, <2>4 DEF OneAhead, Limits
    <2>6. CanDecode(r, deviceLen[r] - 1)
      BY <1>8, <2>5 DEF CanDecode
    <2>7. col = deviceLen[r] - 1
      BY <1>6, <1>9, <2>6 DEF WriteColumn
    <2> QED
      BY <1>4, <1>6, <1>8, <2>3, <2>5, <2>7
  <1>10. CASE a.chunked
    <2>1. Passes(r) = 0
      <3>1. r \notin Whole(inFlight) /\ r \notin DueLeft /\ replies[r].sent = 0
        BY <1>1, <1>7, <1>10 DEF ChunksUnanswered
      <3> QED
        BY <3>1 DEF Passes, One
    <2>2. batch.phase # "decode"
      BY <1>1, <1>5, <2>1 DEF Progress
    <2>3. batch.phase = "prefill"
      BY <1>2, <2>2
    <2>4. deviceLen[r] <= InputLen(r) /\ InputLen(r) < MaxSeqLen /\ InputLen(r) \in Nat
      <3>1. Received(r)
        BY <1>1, <1>5 DEF LoopInv, Queues
      <3> QED
        BY <1>1, <1>5, <2>3, <3>1, PromptOf DEF WithinPrompt
    <2>5. col = Width - 1
      BY <1>10 DEF WriteColumn
    <2>6. ~(col < deviceLen[r])
      BY <1>8, <2>4, <2>5, WidthFits
    <2> QED
      BY <1>4, <1>6, <2>2, <2>6
  <1> QED
    BY <1>5, <1>9, <1>10

\* With overlap the input of a decode step never leaves the device: the batch in flight
\* writes the token of a request exactly where its next step reads it, and what it writes
\* for chunks lands on no token of a prompt.
THEOREM TokensArrive == NoAbortInFlight /\ Spec => []TokensReachInputs
  <1> SUFFICES ASSUME NoAbortInFlight PROVE Spec => []TokensReachInputs
    OBVIOUS
  <1>1. SchedInv /\ ServeInv /\ LengthInv => TokensReachInputs
    <2> SUFFICES ASSUME LockInv, LoopInv, ServeInv, LengthInv, Planned,
                        NEW w \in InFlightWrites, NEW b \in ToSet(batch.reqs),
                        slot[b.req] = w.row, w.req \in held
                 PROVE  /\ w.req = b.req
                        /\ w.col < deviceLen[b.req] =>
                             w.col = cachedLen[b.req] /\ batch.phase = "decode"
                        /\ batch.phase = "decode" => w.col = deviceLen[b.req] - 1
      BY DEF SchedInv, TokensReachInputs
    <2>1. PICK a \in ToSet(inFlight.reqs) :
            w = [req |-> a.req, row |-> slot[a.req],
                 col |-> WriteColumn(a.req, a.chunked, deviceLen[a.req] - 1)]
      BY DEF InFlightWrites
    <2>2. /\ w.req = a.req /\ w.row = slot[a.req]
          /\ w.col = WriteColumn(a.req, a.chunked, deviceLen[a.req] - 1)
      BY <2>1
    <2> QED
      BY <2>2, WriteMeetsRead
  <1>2. Spec => []SchedInv
    BY SchedInvariant
  <1>3. Spec => []ServeInv
    BY ServeInvariant
  <1>4. Spec => []LengthInv
    BY LengthInvariant
  <1> QED
    BY <1>1, <1>2, <1>3, <1>4, PTL

-----------------------------------------------------------------------------
(* What is promised, and what is there.                                    *)

\* Pages free or evictable: available_size, in pages.
Room == Len(freeSlots) + tree.evictable

Total(r) == InputLen(r) + outputLen[r]

\* The pages r may still be given. The last token of an answer is not cached.
Claim(r) == Total(r) - Covered(r) - (IF r \in running THEN 1 ELSE 0)

Claims == [r \in Req |-> Claim(r)]

\* The requests let in that are not over.
Live == running \cup chunked \cup InBatch(batch)

\* Requests with chunks computed are the first of the pending list.
ChunkedFirst ==
  \A i, j \in DOMAIN pending :
    i < j /\ NotReached(i) /\ pending[j] \in chunked => pending[i] \in chunked

\* What is promised is there.
Promise == SumFunctionOnSet(Claims, Live) <= Room

\* reserved_size covers what runs and what this batch has let in.
Reserve == pc = "admit" => SumFunctionOnSet(Claims, running \cup InBatch(batch)) <= reserved

AdmitInv == ChunkedFirst /\ Promise /\ Reserve

-----------------------------------------------------------------------------
(* Pages free or evictable.                                                *)

\* The counters and the free list are numbers.
LEMMA RoomNumber ==
  ASSUME LockInv
  PROVE  Room \in Int /\ Len(freeSlots) \in Nat /\ tree.evictable \in Int
  BY DEF Room, LockInv, CMTypeOK, TreeType

\* Eviction makes evictable pages free.
LEMMA EvictRoom ==
  ASSUME LockInv, EvictLeaf
  PROVE  Room' = Room
  <1>1. PICK n \in tree.nodes : \E b \in Prefixes(n) :
          /\ IsVictim(tree, n) /\ IsParent(tree, b, n)
          /\ tree' = RemoveLeaf(tree, n, b)
          /\ freeSlots' = freeSlots \o NodePages(tree, n, b)
    BY DEF EvictLeaf
  <1>2. PICK b \in Prefixes(n) :
          /\ IsVictim(tree, n) /\ IsParent(tree, b, n)
          /\ tree' = RemoveLeaf(tree, n, b)
          /\ freeSlots' = freeSlots \o NodePages(tree, n, b)
    BY <1>1
  <1>3. TreeType(tree) /\ WellFormed(tree) /\ freeSlots \in Seq(Page)
    BY DEF LockInv, CMTypeOK, LockedHandlesStay
  <1> DEFINE more == NodePages(tree, n, b)
  <1>4. /\ n \in Seq(Block) /\ b \in Seq(Block)
        /\ more \in Seq(Page) /\ Len(more) = Len(n) - Len(b)
    BY <1>2, <1>3, NodePagesType
  <1>5. freeSlots' = freeSlots \o more
    BY <1>2
  <1> HIDE DEF more
  <1>6. Len(freeSlots') = Len(freeSlots) + Len(n) - Len(b)
    BY <1>3, <1>4, <1>5, ConcatFacts
  <1>7. tree'.evictable = tree.evictable - (Len(n) - Len(b))
    BY <1>2, <1>3 DEF RemoveLeaf, TreeType
  <1> QED
    BY <1>3, <1>4, <1>6, <1>7, RoomNumber DEF Room

\* cache_req up to the unlock of the old handle: the new blocks and what the lock set
\* free become evictable.
LEMMA InsertedRoom ==
  ASSUME LockInv, NEW r \in Req, NEW k \in Seq(Block), NEW m,
         Cacheable(r, k), StopsAt(tree, k, m)
  PROVE  /\ Inserted(r, k, m).evictable
              = tree.evictable + Len(k) - Len(m)
                + Cardinality(OnPath(Insert(tree, k, m, Row(r)), handle[r], 1))
         /\ Cardinality(OnPath(Insert(tree, k, m, Row(r)), handle[r], 1)) \in Nat
         /\ Len(handle[r]) \in Nat /\ Len(k) \in Nat /\ Len(m) \in Nat
         /\ Len(handle[r]) <= Len(m) /\ Len(m) <= Len(k) /\ Len(k) <= Len(Row(r))
         /\ Row(r) \in Seq(Page) /\ m \in Seq(Block)
         /\ Len(Duplicates(r, m)) = Len(m) - Len(handle[r])
         /\ Len(Leftover(r, k)) = Len(Row(r)) - Len(k)
         /\ Duplicates(r, m) \in Seq(Page) /\ Leftover(r, k) \in Seq(Page)
  <1> DEFINE h == handle[r]
             i == Insert(tree, k, m, Row(r))
  <1>1. TreeType(tree) /\ WellFormed(tree)
    BY DEF LockInv, CMTypeOK, LockedHandlesStay
  <1>2. /\ r \in held /\ Len(k) <= Len(Row(r)) /\ Row(r) \in Seq(Page) /\ IsPrefix(h, k)
        /\ h \in Seq(Block) /\ (h = <<>> \/ h \in Cached(tree))
    BY HandlesCached DEF Cacheable
  <1>3. m \in Seq(Block) /\ IsPrefix(m, k) /\ (m = <<>> \/ m \in Cached(tree))
    BY <1>1, WalkCached
  <1>4. h = <<>> \/ IsPrefix(h, m)
    BY <1>1, <1>2, WalkIsLongest
  <1>5. /\ Len(h) \in Nat /\ Len(k) \in Nat /\ Len(m) \in Nat
        /\ Len(h) <= Len(m) /\ Len(m) <= Len(k)
    BY <1>2, <1>3, <1>4, PrefixPointwise
  <1>6. /\ Len(Duplicates(r, m)) = Len(m) - Len(h) /\ Len(Leftover(r, k)) = Len(Row(r)) - Len(k)
        /\ Duplicates(r, m) \in Seq(Page) /\ Leftover(r, k) \in Seq(Page)
    <2> DEFINE row == Row(r)
    <2>1. row \in Seq(Page) /\ Len(k) <= Len(row) /\ Len(row) \in Nat
      BY <1>2
    <2>2. Duplicates(r, m) = SubSeq(row, Len(h) + 1, Len(m))
          /\ Leftover(r, k) = SubSeq(row, Len(k) + 1, Len(row))
      BY DEF Duplicates, Leftover
    <2> HIDE DEF row, h
    <2>3. Len(SubSeq(row, Len(h) + 1, Len(m))) = Len(m) - Len(h)
          /\ SubSeq(row, Len(h) + 1, Len(m)) \in Seq(Page)
      BY <1>5, <2>1
    <2>4. Len(SubSeq(row, Len(k) + 1, Len(row))) = Len(row) - Len(k)
          /\ SubSeq(row, Len(k) + 1, Len(row)) \in Seq(Page)
      BY <1>5, <2>1
    <2> QED
      BY <2>2, <2>3, <2>4 DEF row
  <1>7. i.evictable = tree.evictable + Len(k) - Len(m) /\ TreeType(i)
    <2>1. LET s == SplitAt(tree, m) IN s.evictable = tree.evictable /\ TreeType(s)
      BY <1>1, <1>3, SplitFields
    <2>2. CASE m = k
      <3>1. i = SplitAt(tree, m)
        BY <2>2 DEF Insert
      <3>2. tree.evictable \in Int
        BY <1>1 DEF TreeType
      <3> HIDE DEF i
      <3> QED
        BY <1>5, <2>1, <2>2, <3>1, <3>2
    <2>3. CASE m # k
      <3>1. TreeType(i)
        BY <1>1, <1>2, InsertFields
      <3>2. i.evictable = SplitAt(tree, m).evictable + Len(k) - Len(m)
        BY <2>1, <2>3 DEF Insert, TreeType
      <3> QED
        BY <2>1, <3>1, <3>2
    <2> QED
      BY <2>2, <2>3
  <1>8. Cardinality(OnPath(i, h, 1)) \in Nat
    BY <1>2, OnPathCounted
  <1> HIDE DEF i
  <1>9. Unlock(i, h).evictable = i.evictable + Cardinality(OnPath(i, h, 1))
    BY <1>7 DEF Unlock, TreeType
  <1>10. Inserted(r, k, m) = Unlock(i, h)
    BY DEF Inserted, i
  <1> QED
    BY <1>2, <1>3, <1>5, <1>6, <1>7, <1>8, <1>9, <1>10 DEF i

\* cache_req of a request that goes on: what its new lock takes it had as its own pages,
\* or under its old lock.
LEMMA ExtendRoom ==
  ASSUME LockInv, NEW r \in Req, NEW k \in Seq(Block), Cacheable(r, k), CacheUnfinished(r, k)
  PROVE  Room <= Room'
  <1>1. PICK m \in Prefixes(k) :
          /\ StopsAt(tree, k, m)
          /\ tree' = Lock(Inserted(r, k, m), k)
          /\ freeSlots' = freeSlots \o Duplicates(r, m)
    BY DEF CacheUnfinished
  <1>2. freeSlots \in Seq(Page) /\ tree.evictable \in Int /\ TreeType(tree) /\ WellFormed(tree)
    BY DEF LockInv, CMTypeOK, TreeType, LockedHandlesStay
  <1> DEFINE h == handle[r]
             i == Insert(tree, k, m, Row(r))
             s == Inserted(r, k, m)
             released == OnPath(i, h, 1)
             taken == OnPath(s, k, 0)
  <1>3. /\ s.evictable = tree.evictable + Len(k) - Len(m) + Cardinality(released)
        /\ Cardinality(released) \in Nat
        /\ Len(h) \in Nat /\ Len(k) \in Nat /\ Len(m) \in Nat
        /\ Duplicates(r, m) \in Seq(Page) /\ Len(Duplicates(r, m)) = Len(m) - Len(h)
    BY <1>1, InsertedRoom
  <1>4. Len(freeSlots') = Len(freeSlots) + Len(m) - Len(h)
    <2> DEFINE more == Duplicates(r, m)
    <2>1. more \in Seq(Page) /\ Len(more) = Len(m) - Len(h) /\ freeSlots' = freeSlots \o more
      BY <1>1, <1>3
    <2> HIDE DEF more, h
    <2>2. freeSlots \in Seq(Page) /\ more \in Seq(Page)
      BY <1>2, <2>1
    <2>3. Len(freeSlots \o more) = Len(freeSlots) + Len(more) /\ Len(freeSlots) \in Nat
      BY ONLY <2>2
    <2>4. Len(more) = Len(m) - Len(h) /\ Len(m) \in Nat /\ Len(h) \in Nat
      BY <1>3, <2>1
    <2> QED
      BY <2>1, <2>3, <2>4
  <1>5. tree'.evictable = s.evictable - Cardinality(taken) /\ Cardinality(taken) \in Nat
        /\ TreeType(s) /\ Cached(s) = Cached(tree) \cup Path(k)
    <2>1. TreeType(s) /\ Cached(s) = Cached(tree) \cup Path(k)
      BY <1>1, InsertedFacts
    <2>2. tree' = Lock(s, k)
      BY <1>1
    <2>3. Cardinality(taken) \in Nat
      BY OnPathCounted
    <2> HIDE DEF s
    <2>4. Lock(s, k).evictable = s.evictable - Cardinality(OnPath(s, k, 0))
      BY <2>1 DEF Lock, TreeType
    <2> QED
      BY <2>1, <2>2, <2>3, <2>4
  <1>6. h \in Seq(Block) /\ IsPrefix(h, k) /\ Path(h) \subseteq Cached(tree) /\ Row(r) \in Seq(Page)
        /\ Len(k) <= Len(Row(r))
    BY HandlesCached DEF Cacheable
  <1>7. TreeType(i) /\ Path(h) \subseteq Cached(i)
    <2>1. TreeType(i) /\ (m # k => Cached(i) = Cached(tree) \cup Path(k))
      BY <1>1, <1>2, <1>6, InsertFields
    <2>2. m = k => i = SplitAt(tree, m)
      BY DEF Insert
    <2>3. SplitAt(tree, m).page = tree.page
      BY <1>1, <1>2, SplitFields DEF StopsAt
    <2> HIDE DEF i
    <2> QED
      BY <1>6, <2>1, <2>2, <2>3 DEF Cached
  <1>8. taken \subseteq released \cup (Path(k) \ Path(h))
    <2> SUFFICES ASSUME NEW p \in taken, p \in Path(h) PROVE p \in released
      BY DEF OnPath
    <2>1. p \in Cached(s) /\ s.ref[p] = 0
      BY DEF OnPath
    <2>2. s = Unlock(i, h)
      BY DEF Inserted
    <2>3. p \in Cached(i) /\ i.ref[p] \in Int
      BY <1>7 DEF TreeType
    <2> HIDE DEF i, s
    <2>4. s.ref[p] = i.ref[p] - 1
      BY <1>6, <1>7, <2>2, <2>3, UnlockFields
    <2> QED
      BY <2>1, <2>3, <2>4 DEF OnPath
  <1>9. /\ IsFiniteSet(Path(k) \ Path(h)) /\ Cardinality(Path(k) \ Path(h)) = Len(k) - Len(h)
        /\ IsFiniteSet(released)
    <2>1. released \subseteq Path(h) /\ IsFiniteSet(Path(h))
      BY <1>6, PathFinite DEF OnPath
    <2> QED
      BY <1>6, <2>1, PathCounted, FS_Subset
  <1> HIDE DEF taken, released, s, i, h
  <1>10. Cardinality(taken) <= Cardinality(released) + (Len(k) - Len(h))
    <2> DEFINE rest == Path(k) \ Path(h)
    <2>1. IsFiniteSet(released \cup rest)
          /\ Cardinality(released \cup rest)
               = Cardinality(released) + Cardinality(rest) - Cardinality(released \cap rest)
      BY <1>9, FS_Union
    <2>2. Cardinality(taken) <= Cardinality(released \cup rest)
      BY <1>8, <2>1, FS_Subset
    <2>3. Cardinality(released \cap rest) \in Nat /\ Cardinality(released \cup rest) \in Nat
      BY <1>9, <2>1, FS_Subset, FS_CardinalityType
    <2> QED
      BY <1>3, <1>5, <1>9, <2>1, <2>2, <2>3
  <1>11. Room = Len(freeSlots) + tree.evictable /\ Room' = Len(freeSlots') + tree'.evictable
    BY DEF Room
  <1>12. Len(freeSlots) \in Nat
    BY <1>2
  <1>13. tree'.evictable
           = tree.evictable + Len(k) - Len(m) + Cardinality(released) - Cardinality(taken)
    BY ONLY <1>2, <1>3, <1>5
  <1>14. /\ Len(h) \in Nat /\ Len(k) \in Nat /\ Len(m) \in Nat /\ tree.evictable \in Int
         /\ Cardinality(released) \in Nat /\ Cardinality(taken) \in Nat
    BY <1>2, <1>3, <1>5
  <1> QED
    BY ONLY <1>4, <1>10, <1>11, <1>12, <1>13, <1>14

\* cache_req of a request that is over: its own pages become free or evictable.
LEMMA ReleaseRoom ==
  ASSUME LockInv, NEW r \in Req, NEW k \in Seq(Block), Cacheable(r, k), FreeResources(r, k)
  PROVE  Room <= Room'
  <1>1. PICK m \in Prefixes(k) :
          /\ StopsAt(tree, k, m)
          /\ tree' = Inserted(r, k, m)
          /\ freeSlots' = freeSlots \o Duplicates(r, m) \o Leftover(r, k)
    BY DEF FreeResources
  <1>2. freeSlots \in Seq(Page) /\ tree.evictable \in Int
    BY DEF LockInv, CMTypeOK, TreeType
  <1> DEFINE h == handle[r]
             released == OnPath(Insert(tree, k, m, Row(r)), h, 1)
             own == Duplicates(r, m)
             tail == Leftover(r, k)
  <1>3. /\ tree'.evictable = tree.evictable + Len(k) - Len(m) + Cardinality(released)
        /\ Cardinality(released) \in Nat
        /\ Len(h) \in Nat /\ Len(k) \in Nat /\ Len(m) \in Nat /\ Row(r) \in Seq(Page)
        /\ Len(h) <= Len(m) /\ Len(m) <= Len(k) /\ Len(k) <= Len(Row(r))
        /\ own \in Seq(Page) /\ Len(own) = Len(m) - Len(h)
        /\ tail \in Seq(Page) /\ Len(tail) = Len(Row(r)) - Len(k)
    BY <1>1, InsertedRoom
  <1>4. freeSlots' = (freeSlots \o own) \o tail
    BY <1>1
  <1>5. Len(Row(r)) \in Nat
    BY <1>3
  <1> HIDE DEF own, tail, h, released
  <1>6. Len(freeSlots') = Len(freeSlots) + Len(own) + Len(tail)
    <2>1. freeSlots \o own \in Seq(Page) /\ Len(freeSlots \o own) = Len(freeSlots) + Len(own)
      BY <1>2, <1>3, ConcatFacts
    <2>2. Len((freeSlots \o own) \o tail) = Len(freeSlots \o own) + Len(tail)
      BY <1>3, <2>1
    <2> QED
      BY <1>4, <2>1, <2>2
  <1>7. Room = Len(freeSlots) + tree.evictable /\ Room' = Len(freeSlots') + tree'.evictable
    BY DEF Room
  <1>8. Len(freeSlots) \in Nat
    BY <1>2
  <1>9. /\ tree'.evictable = tree.evictable + Len(k) - Len(m) + Cardinality(released)
        /\ Cardinality(released) \in Nat /\ tree.evictable \in Int
        /\ Len(h) \in Nat /\ Len(k) \in Nat /\ Len(m) \in Nat
        /\ Len(h) <= Len(m) /\ Len(m) <= Len(k) /\ Len(k) <= Len(Row(r))
        /\ Len(own) = Len(m) - Len(h) /\ Len(tail) = Len(Row(r)) - Len(k)
    BY <1>2, <1>3
  <1> QED
    BY ONLY <1>5, <1>6, <1>7, <1>8, <1>9

\* The pages a step of the batch takes come off the free list.
LEMMA TakenRoom ==
  ASSUME LockInv, NEW r, NEW n \in Nat, n <= Len(freeSlots), TakePages(r, n)
  PROVE  Room' = Room - n
  <1>1. freeSlots \in Seq(Page) /\ tree.evictable \in Int /\ Len(freeSlots) \in Nat
    BY DEF LockInv, CMTypeOK, TreeType
  <1>2. freeSlots' = SubSeq(freeSlots, n + 1, Len(freeSlots)) /\ tree' = tree
    BY DEF TakePages
  <1>3. Len(freeSlots') = Len(freeSlots) - n
    BY <1>1, <1>2
  <1> QED
    BY <1>1, <1>2, <1>3 DEF Room

\* A match that is not taken up changes no counter.
LEMMA MatchRoom ==
  ASSUME LockInv, NEW k, MatchOnly(k)
  PROVE  Room' = Room
  <1>1. freeSlots' = freeSlots
    BY DEF MatchOnly
  <1>2. tree'.evictable = tree.evictable
    <2>1. PICK m : tree' = SplitAt(tree, m)
      BY DEF MatchOnly
    <2>2. TreeType(tree)
      BY DEF LockInv, CMTypeOK
    <2> QED
      BY <2>1, <2>2 DEF SplitAt, TreeType
  <1> QED
    BY <1>1, <1>2 DEF Room

-----------------------------------------------------------------------------
(* Claims.                                                                 *)

\* Whoever was let in owns memory and has not claimed more than its total.
LEMMA LiveFacts ==
  ASSUME LockInv, LoopInv, ServeInv, LengthInv, NEW r \in Live
  PROVE  /\ r \in Req /\ r \in held /\ Received(r)
         /\ InputLen(r) \in Nat /\ outputLen[r] \in Nat /\ Total(r) \in Nat
         /\ cachedLen[r] \in Nat /\ deviceLen[r] \in Nat
         /\ Claim(r) \in Nat
         /\ r \in running => /\ Total(r) = maxDeviceLen[r] /\ maxDeviceLen[r] \in Nat
                             /\ deviceLen[r] < maxDeviceLen[r]
         /\ r \in InBatch(batch) => /\ cachedLen[r] < deviceLen[r]
                                    /\ deviceLen[r] <= Total(r) - (IF r \in running THEN 1 ELSE 0)
  <1>1. LoopType /\ StageBatches /\ Queues /\ Owners /\ Limits /\ Progress
    BY DEF LoopInv, ServeInv
  <1>2. r \in held /\ r \in Req
    <2>1. r \in InBatch(batch) => pc \in {"admit", "grow"}
      BY <1>1, NoBatchFacts DEF StageBatches, LoopType
    <2>2. r \in held
      BY <1>1, <2>1 DEF Live, Owners
    <2> QED
      BY <2>2 DEF LockInv, CMTypeOK
  <1>3. Received(r) /\ InputLen(r) \in Nat /\ outputLen[r] \in Nat
        /\ cachedLen[r] \in Nat /\ deviceLen[r] \in Nat /\ maxDeviceLen[r] \in Nat
    <2>1. Received(r)
      BY <1>1, <1>2 DEF Queues
    <2> QED
      BY <1>1, <1>2, <2>1, PromptOf DEF LoopType
  <1>4. r \in running => /\ Total(r) = maxDeviceLen[r] /\ deviceLen[r] < maxDeviceLen[r]
                         /\ cachedLen[r] < deviceLen[r]
    <2>1. r \in running => Sized(r)
      BY <1>1, <1>2 DEF Progress
    <2> QED
      BY <1>1, <2>1 DEF Sized, Total, Limits
  <1>5. r \in InBatch(batch) => /\ cachedLen[r] < deviceLen[r]
                                /\ deviceLen[r] <= Total(r) - (IF r \in running THEN 1 ELSE 0)
    <2> SUFFICES ASSUME r \in InBatch(batch)
                 PROVE  /\ cachedLen[r] < deviceLen[r]
                        /\ deviceLen[r] <= Total(r) - (IF r \in running THEN 1 ELSE 0)
      OBVIOUS
    <2>1. cachedLen[r] < deviceLen[r]
      BY <1>1 DEF Limits
    <2>2. CASE r \in running
      BY <1>3, <1>4, <2>1, <2>2 DEF Total
    <2>3. CASE r \notin running
      <3>1. batch.phase = "prefill"
        <4>1. batch.phase \in {"none", "prefill", "decode"}
          BY <1>1 DEF LoopType, BatchType
        <4>2. batch.phase # "decode"
          BY <1>1, <2>3 DEF Progress
        <4>3. batch.phase # "none"
          BY <1>1, NoBatchFacts DEF StageBatches, LoopType, Progress
        <4> QED
          BY <4>1, <4>2, <4>3
      <3>2. deviceLen[r] <= InputLen(r)
        BY <3>1 DEF LengthInv, WithinPrompt
      <3> QED
        BY <1>3, <2>1, <2>3, <3>2 DEF Total
    <2> QED
      BY <2>2, <2>3
  <1>6. Claim(r) \in Nat
    <2>1. cachedLen[r] <= Total(r) - (IF r \in running THEN 1 ELSE 0)
      <3>1. CASE r \in running \/ r \in InBatch(batch)
        BY <1>3, <1>4, <1>5, <3>1 DEF Total
      <3>2. CASE r \notin running /\ r \in chunked
        <4>1. cachedLen[r] < InputLen(r)
          BY <1>1, <3>2 DEF Limits
        <4> QED
          BY <1>3, <3>2, <4>1 DEF Total
      <3> QED
        BY <3>1, <3>2 DEF Live
    <2>2. Grown(r) => r \in InBatch(batch)
      BY DEF Grown, InBatch
    <2>3. Covered(r) \in Nat /\ Covered(r) <= Total(r) - (IF r \in running THEN 1 ELSE 0)
      BY <1>3, <1>5, <2>1, <2>2 DEF Covered
    <2>4. Total(r) \in Nat
      BY <1>3 DEF Total
    <2> QED
      BY <2>3, <2>4 DEF Claim
  <1> QED
    BY <1>2, <1>3, <1>4, <1>5, <1>6 DEF Total

\* The sum of the claims of some of them is a number.
LEMMA ClaimsNumbers ==
  ASSUME LockInv, LoopInv, ServeInv, LengthInv
  PROVE  /\ IsFiniteSet(Live) /\ Live \subseteq Req
         /\ \A r \in Live : Claims[r] = Claim(r) /\ Claims[r] \in Nat
         /\ \A S \in SUBSET Live : IsFiniteSet(S) /\ SumFunctionOnSet(Claims, S) \in Int
  <1>1. Live \subseteq Req
    BY LiveFacts
  <1>2. IsFiniteSet(Live)
    BY <1>1, ReqAssumption, FS_Subset
  <1>3. \A r \in Live : Claims[r] = Claim(r) /\ Claims[r] \in Nat
    BY <1>1, LiveFacts DEF Claims
  <1>4. ASSUME NEW S \in SUBSET Live
        PROVE  IsFiniteSet(S) /\ SumFunctionOnSet(Claims, S) \in Int
    <2>1. IsFiniteSet(S)
      BY <1>2, FS_Subset
    <2>2. \A r \in S : Claims[r] \in Int
      BY <1>3
    <2> QED
      BY <2>1, <2>2, SumOfNumbers
  <1> QED
    BY <1>1, <1>2, <1>3, <1>4

\* Where nobody claims more than before, and no more than before are there, what is
\* promised is there if it was.
LEMMA PromiseKept ==
  ASSUME LockInv, LoopInv, ServeInv, LengthInv, AdmitInv, LockInv', Live' \subseteq Live,
         Room <= Room',
         \A r \in Live' : Claim(r)' \in Int /\ Claim(r)' <= Claim(r)
  PROVE  Promise'
  <1>1. /\ IsFiniteSet(Live) /\ Live \subseteq Req
        /\ \A r \in Live : Claims[r] = Claim(r) /\ Claims[r] \in Nat
        /\ SumFunctionOnSet(Claims, Live) \in Int
    BY ClaimsNumbers
  <1>2. PICK f : f = Claims'
    OBVIOUS
  <1>3. PICK S : S = Live'
    OBVIOUS
  <1>4. \A r \in S : f[r] = Claim(r)'
    BY <1>1, <1>2, <1>3 DEF Claims
  <1>5. \A r \in S : f[r] \in Int /\ f[r] <= Claims[r]
    BY <1>1, <1>3, <1>4
  <1>6. SumFunctionOnSet(f, S) <= SumFunctionOnSet(Claims, Live)
    BY <1>1, <1>3, <1>5, SumMonotone
  <1>7. SumFunctionOnSet(f, S) \in Int
    <2>1. IsFiniteSet(S)
      BY <1>1, <1>3, FS_Subset
    <2> QED
      BY <1>5, <2>1, SumOfNumbers
  <1>8. SumFunctionOnSet(Claims, Live)' = SumFunctionOnSet(f, S)
    BY <1>2, <1>3
  <1>9. SumFunctionOnSet(Claims, Live) <= Room
    BY DEF AdmitInv, Promise
  <1>10. Room \in Int /\ Room' \in Int
    <2>1. LockInv => Room \in Int
      BY RoomNumber
    <2>2. (LockInv => Room \in Int)'
      BY RoomNumber, PTL
    <2> QED
      BY <2>1, <2>2
  <1> QED
    BY <1>1, <1>6, <1>7, <1>8, <1>9, <1>10 DEF Promise

\* Initially nobody is there.
LEMMA InitAdmit == Init => AdmitInv
  <1> SUFFICES ASSUME Init PROVE AdmitInv
    OBVIOUS
  <1>1. /\ pc = "receive" /\ pending = <<>> /\ chunked = {} /\ running = {} /\ batch = NoBatch
        /\ tree = EmptyTree /\ freeSlots = [i \in 1..NumPages |-> i - 1]
    BY DEF Init, CMInit
  <1>2. Live = {}
    BY <1>1, NoBatchFacts DEF Live
  <1>3. Len(freeSlots) \in Nat /\ tree.evictable = 0
    BY <1>1, NumPagesAssumption DEF EmptyTree
  <1>4. SumFunctionOnSet(Claims, {}) = 0
    BY EmptySum
  <1>5. Promise
    BY <1>2, <1>3, <1>4 DEF Promise, Room
  <1> QED
    BY <1>1, <1>5, NoBatchFacts DEF AdmitInv, ChunkedFirst, Reserve

-----------------------------------------------------------------------------
(* Steps that let nobody in.                                               *)

\* Where lengths stay and nobody comes in, only the pending list has to be looked at.
LEMMA AdmitKept ==
  ASSUME LockInv, LoopInv, ServeInv, LengthInv, AdmitInv, LockInv', pc' # "admit", Room <= Room',
         Live' \subseteq Live, running' \subseteq running, Live' \cap running \subseteq running',
         UNCHANGED <<outputLen, cachedLen, deviceLen>>,
         \A q \in Live' : user'[q] = user[q] /\ Covered(q)' = Covered(q),
         ChunkedFirst'
  PROVE  AdmitInv'
  <1>4. \A q \in Live' : Claim(q)' \in Int /\ Claim(q)' <= Claim(q)
    <2> SUFFICES ASSUME NEW q \in Live' PROVE Claim(q)' \in Int /\ Claim(q)' <= Claim(q)
      OBVIOUS
    <2>1. Total(q)' = Total(q)
      BY DEF Total, InputLen
    <2>2. q \in running' <=> q \in running
      OBVIOUS
    <2>3. Claim(q)' = Claim(q)
      BY <2>1, <2>2 DEF Claim
    <2>4. Claim(q) \in Nat
      BY LiveFacts
    <2> QED
      BY <2>3, <2>4
  <1>5. Promise'
    BY <1>4, PromiseKept
  <1>6. Reserve'
    BY DEF Reserve
  <1> QED
    BY <1>5, <1>6 DEF AdmitInv

\* Eviction changes no claim.
LEMMA EvictForBatchAdmit ==
  ASSUME LockInv, LoopInv, ServeInv, LengthInv, AdmitInv, LockInv', EvictForBatch
  PROVE  AdmitInv'
  <1>1. /\ EvictLeaf /\ pc' # "admit"
        /\ UNCHANGED <<pc, pending, chunked, running, batch, cursor, user, outputLen, cachedLen,
                       deviceLen>>
    BY DEF EvictForBatch, msgVars, queueVars, reqVars, batchVars
  <1>2. Room' = Room /\ Room \in Int
    BY <1>1, EvictRoom, RoomNumber
  <1>3. Live' = Live /\ \A q : Covered(q)' = Covered(q)
    BY <1>1 DEF Live, InBatch, Covered, Grown
  <1>4. ChunkedFirst'
    BY <1>1 DEF AdmitInv, ChunkedFirst, NotReached
  <1> QED
    BY <1>1, <1>2, <1>3, <1>4, AdmitKept

\* A chunk without a result, and the end of the results.
LEMMA SkipEndAdmit ==
  ASSUME LockInv, LoopInv, ServeInv, LengthInv, AdmitInv, LockInv', SkipChunk \/ EndProcess
  PROVE  AdmitInv'
  <1>1. /\ pc = "process" /\ pc' # "admit" /\ pc' # "grow"
        /\ UNCHANGED <<pending, chunked, running, batch, user, outputLen, cachedLen, deviceLen>>
        /\ UNCHANGED <<tree, freeSlots>>
    BY DEF SkipChunk, EndProcess, msgVars, queueVars, reqVars, cmVars
  <1>2. Room' = Room /\ Room \in Int
    BY <1>1, RoomNumber DEF Room
  <1>3. Live' = Live /\ \A q : Covered(q)' = Covered(q)
    BY <1>1 DEF Live, InBatch, Covered, Grown
  <1>4. ChunkedFirst'
    BY <1>1 DEF AdmitInv, ChunkedFirst, NotReached
  <1> QED
    BY <1>1, <1>2, <1>3, <1>4, AdmitKept

\* A new request waits at the end of the list and claims nothing.
LEMMA ReceiveUserAdmit ==
  ASSUME LockInv, LoopInv, ServeInv, LengthInv, AdmitInv, LockInv', NEW r \in Req, ReceiveUser(r)
  PROVE  AdmitInv'
  <1>1. LoopType /\ Queues /\ ChunkedFirst
    BY DEF LoopInv, AdmitInv
  <1>2. /\ pc = "receive" /\ pc' = "receive" /\ ~Received(r)
        /\ \A q \in Req \ {r} : user'[q] = user[q]
        /\ pending' = pending \/ pending' = Append(pending, r)
        /\ UNCHANGED <<chunked, running, batch, cachedLen, deviceLen>>
        /\ UNCHANGED <<tree, freeSlots>>
    BY <1>1 DEF ReceiveUser, LoopType, batchVars, cmVars
  <1>3. r \notin Live /\ Live \subseteq Req
    BY <1>1, <1>2, LiveFacts
  <1>4. Live' = Live /\ \A q : Covered(q)' = Covered(q)
    BY <1>2 DEF Live, InBatch, Covered, Grown
  <1>5. ChunkedFirst'
    <2>1. r \notin chunked
      BY <1>3 DEF Live
    <2>2. \A i, j \in DOMAIN pending : i < j /\ pending[j] \in chunked => pending[i] \in chunked
      BY <1>1, <1>2 DEF ChunkedFirst, NotReached
    <2>3. pending \in Seq(Req)
      BY <1>1 DEF LoopType
    <2>4. \A i, j \in DOMAIN pending' : i < j /\ pending'[j] \in chunked => pending'[i] \in chunked
      <3>1. CASE pending' = pending
        BY <2>2, <3>1
      <3>2. CASE pending' = Append(pending, r)
        <4>1. /\ Len(pending) \in Nat /\ DOMAIN pending = 1..Len(pending)
              /\ DOMAIN pending' = 1..(Len(pending) + 1)
              /\ pending'[Len(pending) + 1] = r
              /\ \A i \in DOMAIN pending : pending'[i] = pending[i]
          BY <2>3, <3>2
        <4> HIDE <2>3, <3>2
        <4> SUFFICES ASSUME NEW i \in DOMAIN pending', NEW j \in DOMAIN pending', i < j,
                            pending'[j] \in chunked
                     PROVE  pending'[i] \in chunked
          OBVIOUS
        <4>2. j # Len(pending) + 1
          BY <2>1, <4>1
        <4>3. i \in DOMAIN pending /\ j \in DOMAIN pending
          BY <4>1, <4>2
        <4> QED
          BY <2>2, <4>1, <4>3
      <3> QED
        BY <1>2, <3>1, <3>2
    <2> QED
      BY <1>2, <2>4 DEF ChunkedFirst
  <1>6. outputLen' = outputLen \/ \A q \in Req \ {r} : outputLen'[q] = outputLen[q]
    BY <1>1 DEF ReceiveUser, LoopType
  <1>8. \A q \in Live : InputLen(q)' = InputLen(q) /\ outputLen'[q] = outputLen[q]
    BY <1>2, <1>3, <1>6 DEF InputLen
  <1>10. Promise'
    <2>1. \A q \in Live' : Claim(q)' \in Int /\ Claim(q)' <= Claim(q)
      <3> SUFFICES ASSUME NEW q \in Live PROVE Claim(q)' \in Int /\ Claim(q)' <= Claim(q)
        BY <1>4
      <3>1. Total(q)' = Total(q) /\ (q \in running' <=> q \in running) /\ Covered(q)' = Covered(q)
        BY <1>2, <1>4, <1>8 DEF Total
      <3>2. Claim(q)' = Claim(q)
        BY <3>1 DEF Claim
      <3>3. Claim(q) \in Nat
        BY <1>1, LiveFacts
      <3> QED
        BY <3>2, <3>3
    <2>2. Room' = Room /\ Room \in Int
      BY <1>2, RoomNumber DEF Room
    <2> QED
      BY <1>4, <2>1, <2>2, PromiseKept
  <1>11. Reserve'
    BY <1>2 DEF Reserve
  <1> QED
    BY <1>5, <1>10, <1>11 DEF AdmitInv

\* An abort gives back what the request had.
LEMMA ReceiveAbortAdmit ==
  ASSUME LockInv, LoopInv, ServeInv, LengthInv, AdmitInv, LockInv', NEW r \in Req, ReceiveAbort(r)
  PROVE  AdmitInv'
  <1>1. LoopType /\ StageBatches /\ Queues /\ Owners /\ ChunkedFirst /\ Rows
    BY DEF LoopInv, AdmitInv
  <1>2. /\ pc = "receive" /\ pc' = "receive"
        /\ pending' = RemoveFirst(pending, r) /\ chunked' = chunked \ {r}
        /\ running' = running \ {r}
        /\ IF r \in chunked \cup running THEN FreeResources(r, CacheKey(inputIds[r], r))
           ELSE UNCHANGED cmVars
        /\ UNCHANGED <<batch, user, outputLen, cachedLen, deviceLen>>
    BY DEF ReceiveAbort, TakeOut, OwnsAny, reqVars, batchVars
  <1>3. batch = NoBatch /\ InBatch(batch) = {} /\ InBatch(batch') = {}
    BY <1>1, <1>2, NoBatchFacts DEF StageBatches
  <1>4. Live' \subseteq Live /\ r \notin Live'
    BY <1>2, <1>3 DEF Live
  <1>5. Live' \cap running \subseteq running' /\ running' \subseteq running
    BY <1>2, <1>4
  <1>6. \A q : Covered(q)' = Covered(q)
    BY <1>2 DEF Covered, Grown
  <1>7. Room <= Room'
    <2>1. CASE r \in chunked \cup running
      <3>1. r \in held /\ inputIds[r] \in Seq(Token) /\ PagesOf(handle[r], inputIds[r])
        BY <1>1, <2>1 DEF Owners, LoopType, Rows
      <3> DEFINE k == CacheKey(inputIds[r], r)
      <3>2. Cacheable(r, k) /\ k \in Key /\ FreeResources(r, k)
        BY <1>2, <2>1, <3>1, CacheKeyInContract
      <3> HIDE DEF k
      <3>3. k \in Seq(Block)
        BY <3>2, KeyAssumption
      <3> QED
        BY <3>2, <3>3, ReleaseRoom
    <2>2. CASE r \notin chunked \cup running
      <3>1. Room' = Room /\ Room \in Int
        BY <1>2, <2>2, RoomNumber DEF Room, cmVars
      <3> QED
        BY <3>1
    <2> QED
      BY <2>1, <2>2
  <1>8. ChunkedFirst'
    <2>1. \A i, j \in DOMAIN pending : i < j /\ pending[j] \in chunked => pending[i] \in chunked
      BY <1>1, <1>2 DEF ChunkedFirst, NotReached
    <2>2. pending \in Seq(Req) /\ IsInjective(pending)
      BY <1>1 DEF LoopType, Queues
    <2>3. /\ ToSet(pending') = ToSet(pending) \ {r} /\ pending' \in Seq(Req)
          /\ \A j, k \in DOMAIN pending' :
               j < k => \E a, b \in DOMAIN pending : /\ a < b /\ pending[a] = pending'[j]
                                                     /\ pending[b] = pending'[k]
      BY <1>2, <2>2, RemoveFirstFacts
    <2>4. ASSUME NEW i \in DOMAIN pending', NEW j \in DOMAIN pending', i < j,
                 pending'[j] \in chunked'
          PROVE  pending'[i] \in chunked'
      <3>1. PICK a \in DOMAIN pending, b \in DOMAIN pending :
              a < b /\ pending[a] = pending'[i] /\ pending[b] = pending'[j]
        BY <2>3, <2>4
      <3>2. pending'[i] \in chunked
        BY <1>2, <2>1, <2>4, <3>1
      <3>3. pending'[i] # r
        <4>1. pending'[i] \in ToSet(pending')
          BY <2>3, SeqFacts DEF ToSet
        <4> QED
          BY <2>3, <4>1
      <3> QED
        BY <1>2, <3>2, <3>3
    <2> QED
      BY <2>4 DEF ChunkedFirst
  <1> QED
    BY <1>2, <1>4, <1>5, <1>6, <1>7, <1>8, AdmitKept

\* A result that ends its request gives back what it had, another one nothing it may still
\* need.
LEMMA ProcessReqAdmit ==
  ASSUME LockInv, LoopInv, ServeInv, LengthInv, AdmitInv, LockInv', NEW token \in Token,
         ProcessReq(token)
  PROVE  AdmitInv'
  <1>1. LoopType /\ StageBatches /\ Owners /\ ChunkedFirst
    BY DEF LoopInv, AdmitInv
  <1>2. PICK r : r = due.reqs[cursor].req
    OBVIOUS
  <1>3. PICK ids : ids = Append(inputIds[r], token)
    OBVIOUS
  <1>4. PICK key : key = CacheKey(ids, r)
    OBVIOUS
  <1>5. /\ pc = "process" /\ pc' = "process"
        /\ cursor <= Len(due.reqs) /\ ~due.reqs[cursor].chunked
        /\ \/ r \notin finishedReqs /\ Finish(r, key)
           \/ /\ IF due.phase = "prefill" THEN CacheUnfinished(r, key) ELSE UNCHANGED cmVars
              /\ UNCHANGED running
        /\ UNCHANGED <<user, pending, chunked, outputLen, cachedLen, deviceLen, batch>>
    BY <1>2, <1>3, <1>4 DEF ProcessReq, AlreadyFreed, msgVars
  <1>6. r \in Req /\ r \in DueLeft /\ r \notin chunked
    BY <1>2, <1>5, DueReqFacts
  <1>7. InBatch(batch) = {} /\ InBatch(batch)' = {}
    BY <1>1, <1>5, NoBatchFacts DEF StageBatches, InBatch
  <1>8. \A q : Covered(q)' = Covered(q)
    BY <1>5 DEF Covered, Grown
  <1>9. ChunkedFirst'
    BY <1>1, <1>5 DEF ChunkedFirst, NotReached
  <1>10. ASSUME r \in held PROVE Cacheable(r, key) /\ key \in Seq(Block)
    BY <1>3, <1>4, <1>5, <1>10, ResultKey, KeyAssumption
  <1>11. CASE r \notin finishedReqs /\ Finish(r, key)
    <2>1. r \in held
      BY <1>1, <1>5, <1>6, <1>11 DEF Owners
    <2>2. running' = running \ {r} /\ FreeResources(r, key)
      BY <1>11 DEF Finish
    <2>3. Room <= Room'
      BY <1>6, <1>10, <2>1, <2>2, ReleaseRoom
    <2>4. /\ Live' \subseteq Live /\ running' \subseteq running
          /\ Live' \cap running \subseteq running'
      BY <1>5, <1>6, <1>7, <2>2 DEF Live
    <2> QED
      BY <1>5, <1>8, <1>9, <2>3, <2>4, AdmitKept
  <1>12. CASE /\ IF due.phase = "prefill" THEN CacheUnfinished(r, key) ELSE UNCHANGED cmVars
              /\ UNCHANGED running
    <2>1. Room <= Room'
      <3>1. CASE due.phase = "prefill"
        <4>1. r \in held
          BY <1>1, <1>6, <3>1 DEF Owners
        <4> QED
          BY <1>6, <1>10, <1>12, <3>1, <4>1, ExtendRoom
      <3>2. CASE due.phase # "prefill"
        <4>1. Room' = Room /\ Room \in Int
          BY <1>12, <3>2, RoomNumber DEF Room, cmVars
        <4> QED
          BY <4>1
      <3> QED
        BY <3>1, <3>2
    <2>2. Live' = Live
      BY <1>5, <1>7, <1>12 DEF Live
    <2> QED
      BY <1>5, <1>8, <1>9, <1>12, <2>1, <2>2, AdmitKept
  <1> QED
    BY <1>5, <1>11, <1>12

\* Closing the batch leaves the requests with chunks computed in front.
LEMMA CloseBatchFirst ==
  ASSUME LoopInv, ChunkedFirst, pc = "admit", CloseBatch
  PROVE  ChunkedFirst'
  <1>1. LoopType /\ FirstPending
    BY DEF LoopInv
  <1>2. PICK k : k = Len(batch.reqs)
    OBVIOUS
  <1>3. PICK rest : rest = SubSeq(pending, k + 1, Len(pending))
    OBVIOUS
  <1>4. /\ pending' = chunkedList \o rest /\ chunked' = chunked
    BY <1>2, <1>3 DEF CloseBatch, PendingAfter
  <1>5. k \in Nat /\ k <= Len(pending) /\ Len(pending) \in Nat /\ pending \in Seq(Req)
    BY <1>1, <1>2, BatchMembers DEF LoopType, FirstPending
  <1>6. /\ rest \in Seq(Req) /\ Len(rest) = Len(pending) - k
        /\ \A i \in 1..(Len(pending) - k) : rest[i] = pending[k + i]
    BY <1>3, <1>5
  <1>7. /\ chunkedList \in Seq(Req) /\ Len(chunkedList) \in Nat
        /\ \A i \in 1..Len(chunkedList) : chunkedList[i] \in chunked
    <2>1. chunkedList \in Seq(Req) /\ ToSet(chunkedList) \subseteq chunked
      BY <1>1 DEF LoopType, FirstPending
    <2> QED
      BY <2>1, SeqFacts DEF ToSet
  <1>8. \A i, j \in DOMAIN pending :
          i < j /\ i > k /\ pending[j] \in chunked => pending[i] \in chunked
    BY <1>2 DEF ChunkedFirst, NotReached
  <1>9. DOMAIN pending = 1..Len(pending)
    BY <1>5, SeqFacts
  <1> DEFINE c == Len(chunkedList)
             n == Len(pending)
  <1>10. /\ chunkedList \o rest \in Seq(Req) /\ Len(chunkedList \o rest) = c + (n - k)
         /\ \A i \in 1..(c + (n - k)) :
              (chunkedList \o rest)[i] = IF i <= c THEN chunkedList[i] ELSE rest[i - c]
    <2>1. /\ chunkedList \o rest \in Seq(Req) /\ Len(chunkedList \o rest) = c + Len(rest)
          /\ \A i \in 1..(c + Len(rest)) :
               (chunkedList \o rest)[i] = IF i <= c THEN chunkedList[i] ELSE rest[i - c]
      BY <1>6, <1>7, ConcatFacts
    <2>2. Len(rest) = n - k
      BY <1>6
    <2> HIDE DEF c, n
    <2> QED
      BY <2>1, <2>2
  <1>11. DOMAIN pending' = 1..(c + (n - k)) /\ c \in Nat /\ n \in Nat /\ k <= n
    BY <1>4, <1>5, <1>7, <1>10, SeqFacts
  <1>12. ASSUME NEW i \in DOMAIN pending', NEW j \in DOMAIN pending', i < j,
                pending'[j] \in chunked
         PROVE  pending'[i] \in chunked
    <2>1. i \in 1..(c + (n - k)) /\ j \in 1..(c + (n - k))
      BY <1>11
    <2>2. /\ pending'[i] = IF i <= c THEN chunkedList[i] ELSE rest[i - c]
          /\ pending'[j] = IF j <= c THEN chunkedList[j] ELSE rest[j - c]
      BY <1>4, <1>10, <2>1
    <2>3. CASE i <= c
      BY <1>7, <1>11, <2>1, <2>2, <2>3
    <2>4. CASE ~(i <= c)
      <3> HIDE DEF c, n
      <3>1. /\ i - c \in 1..(n - k) /\ j - c \in 1..(n - k) /\ ~(j <= c)
            /\ k + (i - c) \in 1..n /\ k + (j - c) \in 1..n
            /\ k + (i - c) < k + (j - c) /\ k + (i - c) > k
        BY ONLY <1>5, <1>11, <1>12, <2>1, <2>4
      <3>2. pending'[i] = pending[k + (i - c)] /\ pending'[j] = pending[k + (j - c)]
        BY <1>6, <2>2, <2>4, <3>1 DEF n
      <3> QED
        BY <1>8, <1>9, <1>12, <3>1, <3>2 DEF n
    <2> QED
      BY <2>3, <2>4
  <1> QED
    BY <1>4, <1>12 DEF ChunkedFirst

\* A batch that is closed claims nothing more.
LEMMA CloseBatchAdmit ==
  ASSUME LockInv, LoopInv, ServeInv, LengthInv, AdmitInv, LockInv', LoopInv', pc = "admit",
         CloseBatch,
         Room' = Room
  PROVE  AdmitInv'
  <1>1. LoopType /\ ChunkedFirst
    BY DEF LoopInv, AdmitInv
  <1>2. /\ cursor' = 1 /\ pc' # "admit"
        /\ UNCHANGED <<user, chunked, running, outputLen, cachedLen, deviceLen>>
    BY DEF CloseBatch, msgVars, reqVars
  <1>3. batch' = batch \/ (batch'.phase # "prefill" /\ InBatch(batch') \subseteq running)
    <2>1. ASSUME NEW order \in InUidOrder(running),
                 batch' = [phase |-> "decode",
                           reqs  |-> [i \in 1..Len(order) |->
                                        [req |-> order[i], chunked |-> FALSE]]]
          PROVE  batch'.phase # "prefill" /\ InBatch(batch') \subseteq running
      BY <1>1, <2>1, DecodeBatchFacts
    <2>2. batch' = NoBatch => batch'.phase # "prefill" /\ InBatch(batch') \subseteq running
      BY NoBatchFacts
    <2> QED
      BY <2>1, <2>2 DEF CloseBatch
  <1>4. /\ Live' \subseteq Live /\ running' \subseteq running
           /\ Live' \cap running \subseteq running'
    <2>1. InBatch(batch)' = InBatch(batch')
      BY DEF InBatch
    <2> QED
      BY <1>2, <1>3, <2>1 DEF Live
  <1>5. \A q : Covered(q)' = Covered(q)
    <2>1. DOMAIN batch'.reqs = 1..Len(batch'.reqs)
      <3>1. BatchType(batch)'
        BY DEF LoopInv, LoopType
      <3>2. BatchType(batch')
        BY <3>1 DEF BatchType
      <3> QED
        BY <3>2, BatchMembers
    <2>2. \A q : ~Grown(q)'
      BY <1>2, <2>1 DEF Grown
    <2> QED
      BY <1>2, <2>2 DEF Covered, Grown
  <1>6. ChunkedFirst'
    BY <1>1, CloseBatchFirst
  <1>7. Room <= Room'
    BY RoomNumber
  <1> QED
    BY <1>2, <1>3, <1>4, <1>5, <1>6, <1>7, AdmitKept

-----------------------------------------------------------------------------
(* Steps that let a request in.                                            *)

\* inflight_tokens covers the claims of what runs: a running request may still be given
\* remain_len pages.
LEMMA BeginScheduleAdmit ==
  ASSUME PageSize = 1, LockInv, LoopInv, ServeInv, LengthInv, AdmitInv, LockInv', BeginSchedule
  PROVE  AdmitInv'
  <1>1. LoopType /\ StageBatches /\ ChunkedFirst /\ OneAhead /\ Progress
    BY DEF LoopInv, LengthInv, AdmitInv, ServeInv
  <1>2. /\ pc = "receive" /\ pc' = "admit" /\ reserved' = InflightTokens
        /\ batch' = [phase |-> "prefill", reqs |-> <<>>]
        /\ UNCHANGED <<user, pending, chunked, running, outputLen, cachedLen, deviceLen>>
        /\ UNCHANGED <<tree, freeSlots>>
    BY DEF BeginSchedule, cmVars, msgVars, queueVars, reqVars
  <1>3. batch = NoBatch /\ InBatch(batch) = {} /\ InBatch(batch)' = {}
        /\ DOMAIN batch'.reqs = {} /\ Len(batch'.reqs) = 0
    BY <1>1, <1>2, NoBatchFacts, EmptyBatch DEF StageBatches, InBatch
  <1>4. Live' = Live /\ Live = running \cup chunked
    BY <1>2, <1>3 DEF Live
  <1>5. \A q : Claim(q)' = Claim(q)
    BY <1>2 DEF Claim, Total, InputLen, Covered, Grown
  <1>6. \A q \in Live : Claim(q) \in Nat
    BY <1>1, LiveFacts
  <1>7. Promise'
    <2>1. Room' = Room /\ Room \in Int
      BY <1>2, RoomNumber DEF Room
    <2> QED
      BY <1>4, <1>5, <1>6, <2>1, PromiseKept
  <1>8. ChunkedFirst'
    <2>1. \A i, j \in DOMAIN pending : i < j /\ pending[j] \in chunked => pending[i] \in chunked
      BY <1>1, <1>2 DEF ChunkedFirst, NotReached
    <2> QED
      BY <1>2, <2>1 DEF ChunkedFirst
  <1>10. Reserve'
    <2> DEFINE g == [r \in running |-> RemainLen(r)]
    <2>1. \A r \in running : g[r] = maxDeviceLen[r] - deviceLen[r]
      BY DEF RemainLen
    <2>2. IsFiniteSet(running) /\ running \subseteq Req
      BY <1>1, ReqAssumption, FS_Subset DEF LoopType
    <2>3. PICK f : f = Claims'
      OBVIOUS
    <2>4. ASSUME NEW r \in running
          PROVE  /\ g[r] \in Nat /\ f[r] \in Int /\ f[r] <= g[r]
      <3>1. r \in Live /\ r \in Req
        BY <2>2 DEF Live
      <3>2. /\ Total(r) = maxDeviceLen[r] /\ maxDeviceLen[r] \in Nat /\ deviceLen[r] \in Nat
            /\ cachedLen[r] \in Nat /\ deviceLen[r] < maxDeviceLen[r]
        BY <1>1, <2>4, <3>1, LiveFacts
      <3>3. f[r] = Claim(r)
        BY <1>5, <2>3, <3>1 DEF Claims
      <3>4. Claim(r) = Total(r) - cachedLen[r] - 1
        BY <1>2, <2>4 DEF Claim, Covered, Grown
      <3>5. deviceLen[r] = cachedLen[r] + 1
        BY <1>1, <2>4 DEF OneAhead
      <3> QED
        BY <2>1, <3>2, <3>3, <3>4, <3>5
    <2>5. SumFunctionOnSet(f, running) <= SumFunctionOnSet(g, running)
          /\ SumFunctionOnSet(g, running) \in Int
      <3> HIDE DEF g
      <3> QED
        BY <2>2, <2>4, SumMonotone, SumOfNumbers
    <2>6. InflightTokens = SumFunctionOnSet(g, running)
      <3>1. Cardinality(running) \in Nat
        BY <2>2, FS_CardinalityType
      <3>2. InflightTokens = SumFunction(g) + (PageSize - 1) * Cardinality(running)
        BY DEF InflightTokens
      <3>3. SumFunction(g) = SumFunctionOnSet(g, running)
        BY DEF SumFunction
      <3> HIDE DEF g
      <3>4. (PageSize - 1) * Cardinality(running) = 0
        BY <3>1
      <3> QED
        BY <2>5, <3>2, <3>3, <3>4
    <2>7. SumFunctionOnSet(Claims, running \cup InBatch(batch))' = SumFunctionOnSet(f, running)
      <3>1. (running \cup InBatch(batch))' = running
        BY <1>2, <1>3
      <3> QED
        BY <2>3, <3>1
    <2> HIDE DEF g
    <2> QED
      BY <1>2, <2>5, <2>6, <2>7 DEF Reserve
  <1> QED
    BY <1>7, <1>8, <1>10 DEF AdmitInv

\* A request that gets into the batch is charged with all it may ever need.
LEMMA AddOneAdmit ==
  ASSUME LockInv, LoopInv, ServeInv, LengthInv, AdmitInv, pc = "admit", HasNext, budget > 0,
         NEW r, r = NextReq, NEW cached \in Nat, cached < InputLen(r), AddOneReq(r, cached)
  PROVE  /\ ChunkedFirst' /\ Reserve' /\ pc' = "admit"
         /\ r \in Req /\ r \notin running /\ r \notin InBatch(batch)
         /\ \A q \in Live \ {r} : Claim(q)' = Claim(q)
         /\ Claim(r)' = InputLen(r) + outputLen[r] - cached /\ Claim(r)' \in Nat
         /\ Live' = Live \cup {r} /\ running' = running /\ InBatch(batch)' = InBatch(batch) \cup {r}
         /\ reserved' = reserved + (InputLen(r) - cached) + outputLen[r]
         /\ InputLen(r) \in Nat /\ outputLen[r] \in Nat /\ reserved \in Int /\ reserved' \in Int
  <1>1. LoopType /\ StageBatches /\ FirstPending /\ Queues
        /\ ChunkedFirst /\ Reserve
    BY DEF LoopInv, AdmitInv
  <1>2. PICK k : k = Len(batch.reqs)
    OBVIOUS
  <1>3. /\ r \in Req /\ r \notin InBatch(batch) /\ r \notin running /\ Received(r)
        /\ k \in Nat /\ \A i \in DOMAIN pending : pending[i] = r => i = k + 1
    BY <1>2, NextReqFacts
  <1>4. /\ InputLen(r) \in Nat /\ outputLen[r] \in Nat /\ reserved \in Int
        /\ budget \in Nat \ {0}
    BY <1>1, <1>3, PromptOf DEF LoopType
  <1>5. PICK n \in Nat, part \in BOOLEAN :
          /\ n <= InputLen(r)
          /\ cachedLen' = [cachedLen EXCEPT ![r] = cached]
          /\ deviceLen' = [deviceLen EXCEPT ![r] = n]
          /\ reserved' \in Int
          /\ reserved' = reserved + (InputLen(r) - cached) + outputLen[r]
          /\ chunked' = IF part THEN chunked \cup {r} ELSE chunked \ {r}
          /\ batch' = [batch EXCEPT !.reqs = Append(@, [req |-> r, chunked |-> part])]
    BY <1>4, ChunkFacts
  <1>6. UNCHANGED <<pc, user, outputLen, pending, running>>
    BY DEF AddOneReq, msgVars
  <1>7. /\ Len(batch'.reqs) = k + 1 /\ batch'.phase = batch.phase
        /\ InBatch(batch)' = InBatch(batch) \cup {r}
    <2>1. BatchType(batch) /\ OnceEach(batch)
      BY <1>1 DEF LoopType, StageBatches
    <2>2. Len(batch'.reqs) = k + 1 /\ batch'.phase = batch.phase
          /\ InBatch(batch') = InBatch(batch) \cup {r}
      BY <1>2, <1>3, <1>5, <2>1, BatchAppend
    <2> QED
      BY <2>2 DEF InBatch
  <1>8. /\ cachedLen'[r] = cached /\ deviceLen'[r] = n
        /\ \A q \in Req \ {r} : cachedLen'[q] = cachedLen[q] /\ deviceLen'[q] = deviceLen[q]
    BY <1>1, <1>3, <1>5 DEF LoopType
  <1>9. Live' = Live \cup {r}
    BY <1>5, <1>6, <1>7 DEF Live
  <1>10. \A q : InputLen(q)' = InputLen(q) /\ Total(q)' = Total(q)
                /\ Covered(q) = cachedLen[q] /\ Covered(q)' = cachedLen'[q]
    BY <1>6 DEF InputLen, Total, Covered, Grown
  <1>11. Live \subseteq Req
    BY <1>1, LiveFacts
  <1>12. \A q \in Live \ {r} : Claim(q)' = Claim(q)
    BY <1>6, <1>8, <1>10, <1>11 DEF Claim
  <1>13. Claim(r)' = InputLen(r) + outputLen[r] - cached /\ Claim(r)' \in Nat
    <2>1. Claim(r)' = Total(r) - cached - 0
      BY <1>3, <1>6, <1>8, <1>10 DEF Claim
    <2>2. Total(r) = InputLen(r) + outputLen[r]
      BY DEF Total
    <2> QED
      BY <1>4, <2>1, <2>2
  <1>16. ChunkedFirst'
    <2> SUFFICES ASSUME NEW i \in DOMAIN pending, NEW j \in DOMAIN pending, i < j, i > k + 1,
                        pending[j] \in chunked'
                 PROVE  pending[i] \in chunked'
      BY <1>6, <1>7 DEF ChunkedFirst, NotReached
    <2>1. i \in Nat /\ j \in Nat
      <3>1. pending \in Seq(Req)
        BY <1>1 DEF LoopType
      <3> QED
        BY <3>1, SeqFacts
    <2>2. i > k /\ i # k + 1 /\ j # k + 1
      BY <1>3, <2>1
    <2>3. pending[i] # r /\ pending[j] # r
      BY <1>3, <2>2
    <2>4. pending[j] \in chunked
      BY <1>5, <2>3
    <2>5. pending[i] \in chunked
      BY <1>1, <1>2, <2>2, <2>4 DEF ChunkedFirst, NotReached
    <2> QED
      BY <1>5, <2>3, <2>5
  <1>17. Reserve'
    <2>1. PICK S : S = running \cup InBatch(batch)
      OBVIOUS
    <2>2. PICK f : f = Claims'
      OBVIOUS
    <2>3. /\ IsFiniteSet(S) /\ S \subseteq Live /\ S \subseteq Req /\ r \notin S
          /\ \A q \in S : Claims[q] = Claim(q) /\ Claims[q] \in Nat
          /\ SumFunctionOnSet(Claims, S) \in Int
      <3>1. S \in SUBSET Live /\ r \notin S
        BY <1>3, <2>1 DEF Live
      <3> QED
        BY <1>1, <3>1, ClaimsNumbers
    <2>4. f[r] = Claim(r)' /\ \A q \in S : f[q] = Claims[q]
      <3>1. \A q \in S : f[q] = Claim(q)' /\ Claim(q)' = Claim(q)
        BY <1>12, <2>2, <2>3 DEF Claims
      <3> QED
        BY <1>3, <2>2, <2>3, <3>1 DEF Claims
    <2>5. PICK T : T = S \cup {r}
      OBVIOUS
    <2>6. /\ SumFunctionOnSet(f, T) = f[r] + SumFunctionOnSet(f, S)
          /\ SumFunctionOnSet(f, S) \in Int
      <3>1. IsFiniteSet(T) /\ r \in T /\ T \ {r} = S
        BY <2>3, <2>5, FS_AddElement
      <3>2. \A q \in T : f[q] \in Int
        BY <1>13, <2>3, <2>4, <2>5
      <3> QED
        BY <3>1, <3>2, SumTakes
    <2>7. SumFunctionOnSet(f, S) <= SumFunctionOnSet(Claims, S)
      <3>1. S \in SUBSET S /\ \A q \in S : f[q] \in Int /\ f[q] <= Claims[q]
        BY <2>3, <2>4
      <3> QED
        BY <2>3, <3>1, SumMonotone
    <2>8. SumFunctionOnSet(Claims, S) <= reserved
      BY <1>1, <2>1 DEF Reserve
    <2>9. SumFunctionOnSet(f, T) <= reserved'
      <3>1. f[r] = InputLen(r) + outputLen[r] - cached
        BY <1>13, <2>4
      <3>2. SumFunctionOnSet(Claims, S) \in Int
        BY <2>3
      <3>3. cached \in Nat /\ reserved' = reserved + (InputLen(r) - cached) + outputLen[r]
        BY <1>5
      <3> QED
        BY ONLY <1>4, <2>6, <2>7, <2>8, <3>1, <3>2, <3>3
    <2>10. SumFunctionOnSet(Claims, running \cup InBatch(batch))' = SumFunctionOnSet(f, T)
      <3>1. (running \cup InBatch(batch))' = T
        BY <1>6, <1>7, <2>1, <2>5
      <3> QED
        BY <2>2, <3>1
    <2> QED
      BY <2>9, <2>10 DEF Reserve
  <1> QED
    BY <1>3, <1>4, <1>5, <1>6, <1>7, <1>9, <1>12, <1>13, <1>16, <1>17

\* The next chunk of a request claims what the request already claimed.
LEMMA ContinueChunkAdmit ==
  ASSUME LockInv, LoopInv, ServeInv, LengthInv, AdmitInv, LockInv', ContinueChunk
  PROVE  AdmitInv'
  <1>1. PICK r : r = NextReq
    OBVIOUS
  <1>2. /\ pc = "admit" /\ HasNext /\ budget > 0 /\ r \in chunked
        /\ AddOneReq(r, cachedLen[r]) /\ UNCHANGED <<tree, freeSlots>>
    BY <1>1 DEF ContinueChunk, cmVars
  <1>3. cachedLen[r] \in Nat /\ cachedLen[r] < InputLen(r) /\ r \in Live
    BY <1>2 DEF LoopInv, LoopType, Owners, Limits, Live
  <1>4. /\ ChunkedFirst' /\ Reserve'
        /\ r \notin running
        /\ \A q \in Live \ {r} : Claim(q)' = Claim(q)
        /\ Claim(r)' = InputLen(r) + outputLen[r] - cachedLen[r]
        /\ Live' = Live \cup {r}
        /\ InputLen(r) \in Nat /\ outputLen[r] \in Nat
    BY <1>1, <1>2, <1>3, AddOneAdmit
  <1>5. Claim(r)' = Claim(r)
    <2>1. Claim(r) = Total(r) - cachedLen[r] - 0
      BY <1>2, <1>4 DEF Claim, Covered, Grown
    <2> QED
      BY <1>3, <1>4, <2>1 DEF Total
  <1>6. \A q \in Live' : Claim(q)' \in Int /\ Claim(q)' <= Claim(q)
    <2>1. \A q \in Live : Claim(q) \in Nat
      BY LiveFacts
    <2> QED
      BY <1>3, <1>4, <1>5, <2>1
  <1>7. Room' = Room /\ Room \in Int
    BY <1>2, RoomNumber DEF Room
  <1>8. Promise'
    BY <1>3, <1>4, <1>6, <1>7, PromiseKept
  <1> QED
    BY <1>4, <1>8 DEF AdmitInv

\* With chunks first, every request with chunks computed is in the batch when a new one is
\* looked at,
LEMMA ChunkedInBatch ==
  ASSUME LoopInv, ChunkedFirst, pc = "admit", HasNext, NextReq \notin chunked
  PROVE  chunked \subseteq InBatch(batch)
  <1>1. LoopType /\ FirstPending /\ Queues
    BY DEF LoopInv
  <1>2. PICK k : k = Len(batch.reqs)
    OBVIOUS
  <1>3. /\ k \in Nat /\ DOMAIN batch.reqs = 1..k /\ DOMAIN pending = 1..Len(pending)
        /\ Len(pending) \in Nat /\ k + 1 \in DOMAIN pending /\ pending[k + 1] = NextReq
    BY <1>1, <1>2, NextReqFacts, BatchMembers, SeqFacts DEF LoopType
  <1> SUFFICES ASSUME NEW q \in chunked PROVE q \in InBatch(batch)
    OBVIOUS
  <1>4. PICK j \in DOMAIN pending : pending[j] = q
    BY <1>1 DEF Queues, ToSet
  <1>5. j <= k
    <2>1. j # k + 1
      BY <1>3, <1>4
    <2>2. ~(j > k + 1)
      <3> SUFFICES ASSUME j > k + 1 PROVE FALSE
        OBVIOUS
      <3>1. NotReached(k + 1)
        BY <1>2, <1>3 DEF NotReached
      <3> QED
        BY <1>3, <1>4, <3>1 DEF ChunkedFirst
    <2> QED
      BY <1>3, <2>1, <2>2
  <1>6. j \in DOMAIN batch.reqs
    BY <1>3, <1>5
  <1> QED
    BY <1>1, <1>4, <1>6 DEF FirstPending, InBatch

\* so what is reserved covers everybody, and the second check of _try_allocate_one leaves
\* room for them all.
LEMMA AdmitNewAdmit ==
  ASSUME PageSize = 1, LockInv, LoopInv, ServeInv, LengthInv, AdmitInv, LockInv', AdmitNew
  PROVE  AdmitInv'
  <1>1. PICK r : r = NextReq
    OBVIOUS
  <1>2. PICK m \in Prefixes(MatchKey(r)) :
          AdmitTo(r, MatchKey(r), m) /\ Fits(r, m) /\ AddOneReq(r, PageSize * Len(m))
    BY <1>1 DEF AdmitNew
  <1>3. pc = "admit" /\ HasNext /\ budget > 0 /\ r \notin chunked
    BY <1>1 DEF AdmitNew
  <1>4. m \in Seq(Block) /\ PageSize * Len(m) < InputLen(r)
    BY <1>1, <1>2, <1>3, NextReqFacts, MatchKeyFacts DEF LoopInv
  <1>5. PICK cached : cached = PageSize * Len(m)
    OBVIOUS
  <1>6. cached \in Nat /\ cached < InputLen(r) /\ AddOneReq(r, cached)
    BY <1>2, <1>4, <1>5, TimesMonotone
  <1>7. /\ ChunkedFirst' /\ Reserve' /\ pc' = "admit"
        /\ Live' = Live \cup {r} /\ running' = running /\ InBatch(batch)' = InBatch(batch) \cup {r}
        /\ reserved' = reserved + (InputLen(r) - cached) + outputLen[r]
        /\ InputLen(r) \in Nat /\ outputLen[r] \in Nat /\ reserved \in Int
    BY <1>1, <1>3, <1>6, AddOneAdmit
  <1>8. SumFunctionOnSet(Claims, Live)' <= reserved'
    <2>1. chunked \subseteq InBatch(batch)
      BY <1>1, <1>3, ChunkedInBatch DEF AdmitInv
    <2>2. Live' = running' \cup InBatch(batch)'
      BY <1>7, <2>1 DEF Live
    <2> QED
      BY <1>7, <2>2 DEF Reserve
  <1>9. reserved' <= Room'
    <2>1. PICK t : t = Lock(SplitAt(tree, m), m)
      OBVIOUS
    <2>2. tree' = t /\ freeSlots' = freeSlots
      BY <1>2, <2>1 DEF AdmitTo
    <2>3. InputLen(r) - cached + outputLen[r] + reserved
            <= PageSize * (t.evictable + Len(freeSlots))
      BY <1>2, <1>5, <2>1 DEF Fits, Available
    <2>4. Room' = t.evictable + Len(freeSlots) /\ Room' \in Int
      <3>1. (LockInv => Room \in Int /\ Len(freeSlots) \in Nat /\ tree.evictable \in Int)'
        BY RoomNumber, PTL
      <3>2. Room' = Len(freeSlots') + tree'.evictable
        BY DEF Room
      <3> QED
        BY <2>2, <3>1, <3>2
    <2> QED
      BY <1>6, <1>7, <2>3, <2>4
  <1>10. SumFunctionOnSet(Claims, Live)' \in Int /\ reserved' \in Int /\ Room' \in Int
    <2>1. reserved' \in Int
      BY <1>6, <1>7
    <2>2. (LockInv => Room \in Int)'
      BY RoomNumber, PTL
    <2>3. SumFunctionOnSet(Claims, Live)' \in Int
      <3>1. PICK f, S : f = Claims' /\ S = Live'
        OBVIOUS
      <3>2. IsFiniteSet(S) /\ \A q \in S : f[q] \in Int
        <4>1. /\ r \in Req /\ Claim(r)' \in Nat /\ \A q \in Live \ {r} : Claim(q)' = Claim(q)
          BY <1>1, <1>3, <1>6, AddOneAdmit
        <4>2. IsFiniteSet(Live) /\ Live \subseteq Req /\ \A q \in Live : Claim(q) \in Nat
          BY ClaimsNumbers
        <4>3. \A q \in S : q \in Req /\ Claim(q)' \in Int
          BY <1>7, <3>1, <4>1, <4>2
        <4> QED
          BY <1>7, <3>1, <4>2, <4>3, FS_AddElement DEF Claims
      <3> QED
        BY <3>1, <3>2, SumOfNumbers
    <2> QED
      BY <2>1, <2>2, <2>3
  <1>11. Promise'
    <2>1. SumFunctionOnSet(Claims, Live)' <= Room'
      BY <1>8, <1>9, <1>10
    <2> QED
      BY <2>1 DEF Promise
  <1> QED
    BY <1>7, <1>11 DEF AdmitInv

-----------------------------------------------------------------------------
(* Steps of a launched batch.                                              *)

\* With pages of one token a length is a number of pages.
LEMMA OneTokenPages ==
  ASSUME PageSize = 1, NEW n \in Nat
  PROVE  DivCeil(n) = n
  <1>1. (n + PageSize - 1) \div PageSize = n
    OBVIOUS
  <1> QED
    BY <1>1 DEF DivCeil

\* The pages a member of the batch still needs are within its claim.
LEMMA NeedWithinClaim ==
  ASSUME PageSize = 1, LockInv, LoopInv, ServeInv, LengthInv, AdmitInv, pc = "grow",
         NEW i \in DOMAIN batch.reqs, i >= cursor, NEW r, r = batch.reqs[i].req
  PROVE  /\ r \in Live /\ r \in Req /\ ~Grown(r)
         /\ cachedLen[r] \in Nat /\ deviceLen[r] \in Nat
         /\ PagesFor(i) = deviceLen[r] - cachedLen[r] /\ PagesFor(i) \in Nat
         /\ PagesFor(i) <= Claim(r)
  <1>1. LoopType /\ StageBatches
    BY DEF LoopInv
  <1>2. r \in InBatch(batch) /\ r \in Live
    BY DEF InBatch, Live
  <1>3. /\ r \in Req /\ cachedLen[r] \in Nat /\ deviceLen[r] \in Nat /\ Total(r) \in Nat
        /\ cachedLen[r] < deviceLen[r]
        /\ deviceLen[r] <= Total(r) - (IF r \in running THEN 1 ELSE 0)
    BY <1>2, LiveFacts
  <1>4. ~Grown(r)
    <2>1. i \in Nat /\ cursor \in Nat
      <3>1. DOMAIN batch.reqs = 1..Len(batch.reqs) /\ Len(batch.reqs) \in Nat
        BY <1>1, BatchMembers DEF LoopType
      <3> QED
        BY <1>1, <3>1 DEF LoopType
    <2>2. \A j \in DOMAIN batch.reqs : batch.reqs[j].req = r => j = i
      BY <1>1 DEF StageBatches, OnceEach
    <2>3. ~(i < cursor)
      BY <2>1
    <2> QED
      BY <2>2, <2>3 DEF Grown
  <1>5. PagesFor(i) = deviceLen[r] - cachedLen[r]
    BY <1>3, OneTokenPages DEF PagesFor
  <1>6. Claim(r) = Total(r) - cachedLen[r] - (IF r \in running THEN 1 ELSE 0)
    BY <1>4 DEF Claim, Covered
  <1>7. deviceLen[r] - cachedLen[r] \in Nat
        /\ deviceLen[r] - cachedLen[r] <= Total(r) - cachedLen[r] - (IF r \in running THEN 1 ELSE 0)
    BY ONLY <1>3
  <1> QED
    BY <1>2, <1>3, <1>4, <1>5, <1>6, <1>7

\* A member of the batch that gets its pages claims so many less.
LEMMA GrowOneAdmit ==
  ASSUME PageSize = 1, LockInv, LoopInv, ServeInv, LengthInv, AdmitInv, LockInv', GrowOne
  PROVE  AdmitInv'
  <1>1. LoopType /\ StageBatches /\ ChunkedFirst /\ Promise
    BY DEF LoopInv, AdmitInv
  <1>2. PICK r : r = batch.reqs[cursor].req
    OBVIOUS
  <1>3. PICK n : n = PagesFor(cursor)
    OBVIOUS
  <1>4. /\ pc = "grow" /\ pc' = "grow" /\ cursor <= Len(batch.reqs)
        /\ Len(freeSlots) >= NeededPages
        /\ TakePages(r, n) /\ cursor' = cursor + 1
        /\ UNCHANGED <<user, pending, chunked, running, outputLen, cachedLen, deviceLen, batch>>
    BY <1>2, <1>3 DEF GrowOne, msgVars, queueVars, reqVars
  <1>5. DOMAIN batch.reqs = 1..Len(batch.reqs) /\ Len(batch.reqs) \in Nat /\ cursor \in Nat \ {0}
    BY <1>1, BatchMembers DEF LoopType
  <1>6. cursor \in DOMAIN batch.reqs /\ cursor >= cursor
    BY <1>4, <1>5
  <1>7. /\ r \in Live /\ r \in Req /\ ~Grown(r) /\ n \in Nat
        /\ n = deviceLen[r] - cachedLen[r]
        /\ cachedLen[r] \in Nat /\ deviceLen[r] \in Nat
    BY <1>2, <1>3, <1>4, <1>6, NeedWithinClaim
  <1>8. Room' = Room - n /\ Room \in Int
    <2>1. n <= NeededPages /\ NeededPages \in Int
      BY <1>3, <1>4, NeededAboveFirst
    <2>2. Room \in Int /\ Len(freeSlots) \in Nat
      BY RoomNumber
    <2>3. n <= Len(freeSlots)
      BY <1>4, <1>7, <2>1, <2>2
    <2> QED
      BY <1>4, <1>7, <2>2, <2>3, TakenRoom
  <1>9. Live' = Live /\ InBatch(batch)' = InBatch(batch)
    BY <1>4 DEF Live, InBatch
  <1>10. \A q : Total(q)' = Total(q) /\ InputLen(q)' = InputLen(q)
    BY <1>4 DEF Total, InputLen
  <1>11. Claim(r)' = Claim(r) - n
    <2>1. Grown(r)'
      BY <1>2, <1>4, <1>5, <1>6 DEF Grown
    <2>2. Covered(r)' = deviceLen[r] /\ Covered(r) = cachedLen[r]
      BY <1>4, <1>7, <2>1 DEF Covered
    <2>3. Total(r) \in Nat
      BY <1>1, <1>7, LiveFacts
    <2> QED
      BY <1>4, <1>7, <1>10, <2>2, <2>3 DEF Claim
  <1>12. \A q : q # r => Claim(q)' = Claim(q)
    <2> SUFFICES ASSUME NEW q, q # r PROVE Claim(q)' = Claim(q)
      OBVIOUS
    <2>1. \A i \in DOMAIN batch.reqs : i < cursor + 1 <=> i < cursor \/ i = cursor
      BY <1>5
    <2>2. Grown(q)' <=> Grown(q)
      BY <1>2, <1>4, <2>1 DEF Grown
    <2>3. Covered(q)' = Covered(q)
      BY <1>4, <2>2 DEF Covered
    <2> QED
      BY <1>4, <1>10, <2>3 DEF Claim
  <1>13. Promise'
    <2>1. /\ IsFiniteSet(Live) /\ Live \subseteq Req
          /\ SumFunctionOnSet(Claims, Live) \in Int
          /\ \A q \in Live : Claims[q] = Claim(q) /\ Claims[q] \in Nat
      BY <1>1, ClaimsNumbers
    <2>2. PICK f : f = Claims'
      OBVIOUS
    <2>3. \A q \in Live : f[q] = Claim(q)'
      BY <2>1, <2>2 DEF Claims
    <2>4. f[r] = Claims[r] - n /\ f[r] \in Int /\ Claims[r] \in Nat
      BY <1>7, <1>11, <2>1, <2>3
    <2>5. \A q \in Live \ {r} : f[q] = Claims[q]
      BY <1>12, <2>1, <2>3
    <2>6. \A q \in Live : f[q] \in Int
      BY <2>1, <2>4, <2>5
    <2> DEFINE rest == Live \ {r}
    <2>7. /\ SumFunctionOnSet(f, Live) = f[r] + SumFunctionOnSet(f, rest)
          /\ SumFunctionOnSet(f, rest) \in Int
      BY <1>7, <2>1, <2>6, SumTakes
    <2>8. /\ SumFunctionOnSet(Claims, Live) = Claims[r] + SumFunctionOnSet(Claims, rest)
          /\ SumFunctionOnSet(Claims, rest) \in Int
      BY <1>7, <2>1, SumTakes
    <2>9. SumFunctionOnSet(f, rest) <= SumFunctionOnSet(Claims, rest)
      <3>1. IsFiniteSet(rest) /\ \A q \in rest : Claims[q] \in Nat
        BY <2>1, FS_RemoveElement
      <3>2. rest \in SUBSET rest /\ \A q \in rest : f[q] \in Int /\ f[q] <= Claims[q]
        BY <2>1, <2>5
      <3> HIDE DEF rest
      <3> QED
        BY <3>1, <3>2, SumMonotone
    <2> HIDE DEF rest
    <2>10. SumFunctionOnSet(Claims, Live) <= Room
      BY <1>1 DEF Promise
    <2>11. SumFunctionOnSet(f, Live) <= Room - n
      BY ONLY <1>7, <1>8, <2>1, <2>4, <2>7, <2>8, <2>9, <2>10
    <2>12. SumFunctionOnSet(Claims, Live)' = SumFunctionOnSet(f, Live)
      BY <1>9, <2>2
    <2> QED
      BY <1>8, <2>11, <2>12 DEF Promise
  <1>14. ChunkedFirst' /\ Reserve'
    BY <1>1, <1>4, <1>9, <1>10 DEF ChunkedFirst, NotReached, Reserve
  <1> QED
    BY <1>13, <1>14 DEF AdmitInv

\* The forward pass uses what was given, and a request that decodes claims no page for its
\* last token.
LEMMA ForwardAdmit ==
  ASSUME LockInv, LoopInv, ServeInv, LengthInv, AdmitInv, LockInv', Forward
  PROVE  AdmitInv'
  <1>1. LoopType /\ Queues /\ ChunkedFirst
    BY DEF LoopInv, AdmitInv
  <1>2. /\ pc = "grow" /\ cursor > Len(batch.reqs) /\ pc' = "process" /\ batch' = NoBatch
        /\ cachedLen' = [q \in Req |-> IF q \in InBatch(batch) THEN deviceLen[q] ELSE cachedLen[q]]
        /\ deviceLen' = [q \in Req |-> IF q \in InBatch(batch) THEN deviceLen[q] + 1
                                       ELSE deviceLen[q]]
        /\ running' = {q \in running \cup Whole(batch) : CanDecode(q, deviceLen'[q])}
        /\ UNCHANGED <<user, pending, chunked, outputLen, maxDeviceLen, tree, freeSlots>>
    BY DEF Forward, msgVars, cmVars
  <1>3. /\ DOMAIN batch.reqs = 1..Len(batch.reqs) /\ Len(batch.reqs) \in Nat
        /\ Whole(batch) \subseteq InBatch(batch) /\ InBatch(batch) \subseteq Req
        /\ cursor \in Nat
    BY <1>1, BatchMembers DEF LoopType
  <1>4. InBatch(batch)' = {}
    BY <1>2, NoBatchFacts DEF InBatch
  <1>5. Live' = running' \cup chunked /\ Live' \subseteq Live
    BY <1>2, <1>3, <1>4 DEF Live
  <1>6. chunked \cap running = {}
    BY <1>1 DEF Queues
  <1>7. ASSUME NEW q \in Live'
        PROVE  Claim(q)' \in Int /\ Claim(q)' <= Claim(q)
    <2>1. /\ q \in Live /\ q \in Req /\ Claim(q) \in Nat /\ cachedLen[q] \in Nat
          /\ deviceLen[q] \in Nat /\ Total(q) \in Nat
      BY <1>1, <1>5, <1>7, LiveFacts
    <2>2. Total(q)' = Total(q)
      BY <1>2 DEF Total, InputLen
    <2>3. Covered(q)' = Covered(q) /\ Covered(q) \in Nat
      <3>1. CASE q \in InBatch(batch)
        <4>1. Grown(q)
          <5>1. PICK i \in DOMAIN batch.reqs : batch.reqs[i].req = q
            BY <3>1 DEF InBatch
          <5>2. i < cursor
            BY <1>2, <1>3
          <5> QED
            BY <1>2, <5>1, <5>2 DEF Grown
        <4> QED
          BY <1>2, <2>1, <3>1, <4>1 DEF Covered, Grown
      <3>2. CASE q \notin InBatch(batch)
        <4>1. ~Grown(q)
          BY <3>2 DEF Grown, InBatch
        <4> QED
          BY <1>2, <2>1, <3>2, <4>1 DEF Covered, Grown
      <3> QED
        BY <3>1, <3>2
    <2>4. q \in running => q \in running'
      BY <1>5, <1>6
    <2>5. Claim(q)' = Total(q) - Covered(q) - (IF q \in running' THEN 1 ELSE 0)
      BY <2>2, <2>3 DEF Claim
    <2>6. Claim(q) = Total(q) - Covered(q) - (IF q \in running THEN 1 ELSE 0)
      BY DEF Claim
    <2> QED
      BY ONLY <2>1, <2>3, <2>4, <2>5, <2>6
  <1>8. Promise'
    <2>1. Room' = Room /\ Room \in Int
      BY <1>2, RoomNumber DEF Room
    <2> QED
      BY <1>5, <1>7, <2>1, PromiseKept
  <1>10. ChunkedFirst'
    BY <1>1, <1>2 DEF ChunkedFirst, NotReached
  <1>11. Reserve'
    BY <1>2 DEF Reserve
  <1> QED
    BY <1>8, <1>10, <1>11 DEF AdmitInv

-----------------------------------------------------------------------------
(* The theorem.                                                            *)

\* Every step keeps what admission promised,
LEMMA AdmitStep ==
  ASSUME PageSize = 1, NoAbortInFlight, SchedInv, ServeInv, LengthInv, AdmitInv, [Next]_vars
  PROVE  AdmitInv'
  <1>1. LockInv /\ LoopInv /\ LockInv' /\ LoopInv'
    BY SchedStep DEF SchedInv
  <1>2. CASE UNCHANGED vars
    <2>1. /\ UNCHANGED <<pc, pending, chunked, running, batch, cursor, user, outputLen, cachedLen,
                         deviceLen, reserved>>
          /\ UNCHANGED <<tree, freeSlots>>
      BY <1>2 DEF vars, cmVars, msgVars, queueVars, reqVars, adderVars, batchVars
    <2>2. ChunkedFirst'
      BY <2>1 DEF AdmitInv, ChunkedFirst, NotReached
    <2>3. Live' = Live /\ Room' = Room /\ InBatch(batch)' = InBatch(batch)
      BY <2>1 DEF Live, Room, InBatch
    <2>4. Claims' = Claims
      BY <2>1 DEF Claims, Claim, Total, InputLen, Covered, Grown
    <2>5. Promise' /\ Reserve'
      BY <2>1, <2>3, <2>4 DEF AdmitInv, Promise, Reserve
    <2> QED
      BY <2>2, <2>5 DEF AdmitInv
  <1>3. ASSUME NEW r \in Req, ReceiveUser(r) PROVE AdmitInv'
    BY <1>1, <1>3, ReceiveUserAdmit
  <1>4. ASSUME NEW r \in Req, ReceiveAbort(r) PROVE AdmitInv'
    BY <1>1, <1>4, ReceiveAbortAdmit
  <1>5. ASSUME NEW token \in Token, ProcessReq(token) PROVE AdmitInv'
    BY <1>1, <1>5, ProcessReqAdmit
  <1>6. CASE BeginSchedule
    BY <1>1, <1>6, BeginScheduleAdmit
  <1>7. CASE ContinueChunk
    BY <1>1, <1>7, ContinueChunkAdmit
  <1>8. CASE AdmitNew
    BY <1>1, <1>8, AdmitNewAdmit
  <1>9. CASE RefuseNew
    <2>1. pc = "admit" /\ CloseBatch /\ MatchOnly(MatchKey(NextReq))
      BY <1>9 DEF RefuseNew
    <2>2. Room' = Room
      BY <1>1, <2>1, MatchRoom
    <2> QED
      BY <1>1, <2>1, <2>2, CloseBatchAdmit
  <1>10. CASE StopAdmitting
    <2>1. pc = "admit" /\ CloseBatch /\ UNCHANGED <<tree, freeSlots>>
      BY <1>10 DEF StopAdmitting, cmVars
    <2>2. Room' = Room
      BY <2>1 DEF Room
    <2> QED
      BY <1>1, <2>1, <2>2, CloseBatchAdmit
  <1>11. CASE EvictForBatch
    BY <1>1, <1>11, EvictForBatchAdmit
  <1>12. CASE GrowOne
    BY <1>1, <1>12, GrowOneAdmit
  <1>13. CASE Forward
    BY <1>1, <1>13, ForwardAdmit
  <1>14. CASE SkipChunk \/ EndProcess
    BY <1>1, <1>14, SkipEndAdmit
  <1>15. CASE Idle
    BY <1>2, <1>15 DEF Idle
  <1> QED
    BY <1>2, <1>3, <1>4, <1>5, <1>6, <1>7, <1>8, <1>9, <1>10, <1>11, <1>12, <1>13, <1>14, <1>15
       DEF Next, Loop

\* which therefore holds throughout.
LEMMA AdmitInvariant == PageSize = 1 /\ NoAbortInFlight /\ Spec => []AdmitInv
  <1> SUFFICES ASSUME PageSize = 1, NoAbortInFlight PROVE Spec => []AdmitInv
    OBVIOUS
  <1>1. Init => AdmitInv
    BY InitAdmit
  <1>2. SchedInv /\ ServeInv /\ LengthInv /\ AdmitInv /\ [Next]_vars => AdmitInv'
    BY AdmitStep
  <1>3. Spec => []SchedInv
    BY SchedInvariant
  <1>4. Spec => []ServeInv
    BY ServeInvariant
  <1>5. Spec => []LengthInv
    BY LengthInvariant
  <1> QED
    BY <1>1, <1>2, <1>3, <1>4, <1>5, PTL DEF Spec

\* The members of a batch together need no more than everybody claims.
LEMMA NeedsWithinClaims ==
  ASSUME PageSize = 1, LockInv, LoopInv, ServeInv, LengthInv, AdmitInv, pc = "grow"
  PROVE  NeededPages \in Int /\ NeededPages <= SumFunctionOnSet(Claims, Live)
  <1>1. LoopType /\ StageBatches
    BY DEF LoopInv
  <1> DEFINE S == cursor..Len(batch.reqs)
             f == [i \in DOMAIN batch.reqs |-> PagesFor(i)]
             e == [i \in DOMAIN batch.reqs |-> batch.reqs[i].req]
  <1>2. DOMAIN batch.reqs = 1..Len(batch.reqs) /\ Len(batch.reqs) \in Nat /\ cursor \in Nat \ {0}
    BY <1>1, BatchMembers DEF LoopType
  <1>3. IsFiniteSet(S) /\ \A i \in S : i \in DOMAIN batch.reqs /\ i >= cursor
    BY <1>2, FS_Interval
  <1>4. IsFiniteSet(Live) /\ \A q \in Live : Claims[q] = Claim(q) /\ Claims[q] \in Nat
    BY ClaimsNumbers
  <1>5. \A i \in S : f[i] \in Int /\ e[i] \in Live /\ f[i] <= Claims[e[i]]
    <2> SUFFICES ASSUME NEW i \in S
                 PROVE  f[i] \in Int /\ e[i] \in Live /\ f[i] <= Claims[e[i]]
      OBVIOUS
    <2>1. PICK r : r = batch.reqs[i].req
      OBVIOUS
    <2>2. i \in DOMAIN batch.reqs /\ i >= cursor /\ f[i] = PagesFor(i) /\ e[i] = r
      BY <1>3, <2>1
    <2>3. r \in Live /\ PagesFor(i) \in Nat /\ PagesFor(i) <= Claim(r)
      BY <2>1, <2>2, NeedWithinClaim
    <2> QED
      BY <1>4, <2>2, <2>3
  <1>6. \A i, j \in S : e[i] = e[j] => i = j
    BY <1>1, <1>3 DEF StageBatches, OnceEach
  <1>7. NeededPages = SumFunctionOnSet(f, S)
    BY DEF NeededPages
  <1> HIDE DEF S, f, e
  <1>8. SumFunctionOnSet(f, S) <= SumFunctionOnSet(Claims, Live)
    BY <1>3, <1>4, <1>5, <1>6, SumInto
  <1>9. SumFunctionOnSet(f, S) \in Int
    BY <1>3, <1>5, SumOfNumbers
  <1> QED
    BY <1>7, <1>8, <1>9

\* With pages of one token, the default, a batch that was launched always finds its pages:
\* the assertions of evict and _allocate never fail, however long requests decode and
\* whatever comes in meanwhile.  (With larger pages they can, which the property leaves out.)
THEOREM AdmissionSuffices ==
  NoAbortInFlight /\ Spec => []EvictionSuffices
  <1> SUFFICES ASSUME NoAbortInFlight, PageSize = 1 PROVE Spec => []EvictionSuffices
    <2>1. CASE PageSize # 1
      <3>1. EvictionSuffices
        BY <2>1 DEF EvictionSuffices
      <3> QED
        BY <3>1, PTL
    <2> QED
      BY <2>1
  <1>1. SchedInv /\ ServeInv /\ LengthInv /\ AdmitInv => EvictionSuffices
    <2> SUFFICES ASSUME LockInv, LoopInv, ServeInv, LengthInv, AdmitInv, pc = "grow"
                 PROVE  NeededPages - Len(freeSlots) <= tree.evictable
      BY DEF SchedInv, EvictionSuffices
    <2>1. NeededPages \in Int /\ NeededPages <= SumFunctionOnSet(Claims, Live)
      BY NeedsWithinClaims
    <2>2. SumFunctionOnSet(Claims, Live) <= Room
      BY DEF AdmitInv, Promise
    <2>3. SumFunctionOnSet(Claims, Live) \in Int
      BY ClaimsNumbers
    <2>4. Room \in Int /\ Len(freeSlots) \in Nat /\ tree.evictable \in Int
      BY RoomNumber
    <2>5. Room = Len(freeSlots) + tree.evictable
      BY DEF Room
    <2> QED
      BY ONLY <2>1, <2>2, <2>3, <2>4, <2>5
  <1>2. Spec => []SchedInv
    BY SchedInvariant
  <1>3. Spec => []ServeInv
    BY ServeInvariant
  <1>4. Spec => []LengthInv
    BY LengthInvariant
  <1>5. Spec => []AdmitInv
    BY AdmitInvariant
  <1> QED
    BY <1>1, <1>2, <1>3, <1>4, <1>5, PTL

-----------------------------------------------------------------------------
(* Sequences one behind another.                                           *)

\* The sum over the first n + 1 numbers.
LEMMA SumNext ==
  ASSUME NEW n \in Nat, NEW f, \A i \in 1..(n + 1) : f[i] \in Nat
  PROVE  /\ SumFunctionOnSet(f, 1..(n + 1)) = SumFunctionOnSet(f, 1..n) + f[n + 1]
         /\ SumFunctionOnSet(f, 1..n) \in Nat
  <1> DEFINE S == 1..(n + 1)
             U == 1..n
  <1>1. IsFiniteSet(S) /\ IsFiniteSet(U) /\ n + 1 \in S /\ S \ {n + 1} = U /\ U \subseteq S
    BY FS_Interval
  <1>2. \A i \in S : f[i] \in Nat /\ f[i] \in Int
    OBVIOUS
  <1> HIDE DEF S, U
  <1>3. SumFunctionOnSet(f, S) = f[n + 1] + SumFunctionOnSet(f, U) /\ SumFunctionOnSet(f, U) \in Int
    BY <1>1, <1>2, SumTakes
  <1>4. SumFunctionOnSet(f, U) >= 0
    <2>1. CASE U = {}
      BY <2>1, EmptySum
    <2>2. CASE U # {}
      <3>1. PICK i \in U : TRUE
        BY <2>2
      <3>2. f[i] <= SumFunctionOnSet(f, U) /\ f[i] \in Nat
        BY <1>1, <1>2, SumAboveTerms
      <3> QED
        BY <1>3, <3>2
    <2> QED
      BY <2>1, <2>2
  <1>5. f[n + 1] \in Nat
    BY <1>1, <1>2
  <1> QED
    BY <1>3, <1>4, <1>5 DEF S, U

\* g[i] is what the first i sequences of s are, one behind another.
FlatRule(s, n, g) == \A i \in 1..n : g[i] = IF i = 1 THEN s[i] ELSE g[i - 1] \o s[i]

LEMMA FlatsExist ==
  ASSUME NEW V, NEW s, NEW m \in Nat, \A i \in 1..m : s[i] \in Seq(V)
  PROVE  \E g \in [1..m -> Seq(V)] : FlatRule(s, m, g)
  <1> DEFINE T == {n \in Nat : n <= m => \E g \in [1..n -> Seq(V)] : FlatRule(s, n, g)}
  <1>1. 0 \in T
    <2>1. [i \in 1..0 |-> <<>>] \in [1..0 -> Seq(V)] /\ FlatRule(s, 0, [i \in 1..0 |-> <<>>])
      BY DEF FlatRule
    <2> QED
      BY <2>1
  <1>2. ASSUME NEW n \in T PROVE n + 1 \in T
    <2>1. n \in Nat /\ n + 1 \in Nat
      OBVIOUS
    <2>2. CASE ~(n + 1 <= m)
      BY <2>1, <2>2
    <2>3. CASE n + 1 <= m
      <3>1. PICK g \in [1..n -> Seq(V)] : FlatRule(s, n, g)
        BY <2>1, <2>3
      <3> DEFINE last == IF n = 0 THEN s[n + 1] ELSE g[n] \o s[n + 1]
                 h == [i \in 1..(n + 1) |-> IF i <= n THEN g[i] ELSE last]
      <3>2. last \in Seq(V)
        <4>1. s[n + 1] \in Seq(V)
          BY <2>1, <2>3
        <4>2. n # 0 => g[n] \in Seq(V)
          BY <2>1
        <4> QED
          BY <4>1, <4>2, ConcatFacts
      <3>3. last = IF n + 1 = 1 THEN s[n + 1] ELSE g[(n + 1) - 1] \o s[n + 1]
        BY <2>1
      <3> HIDE DEF last
      <3>4. h \in [1..(n + 1) -> Seq(V)]
        BY <2>1, <3>2
      <3>5. (\A i \in 1..n : h[i] = g[i] /\ i \in 1..(n + 1)) /\ h[n + 1] = last /\ n + 1 \in 1..(n + 1)
        BY <2>1
      <3> HIDE DEF h
      <3>6. FlatRule(s, n + 1, h)
        <4> SUFFICES ASSUME NEW i \in 1..(n + 1)
                     PROVE  h[i] = IF i = 1 THEN s[i] ELSE h[i - 1] \o s[i]
          BY DEF FlatRule
        <4>1. CASE i = n + 1
          <5>1. n + 1 # 1 => h[(n + 1) - 1] = g[(n + 1) - 1]
            BY <2>1, <3>5
          <5> QED
            BY <3>3, <3>5, <4>1, <5>1
        <4>2. CASE i # n + 1
          <5>1. i \in 1..n /\ (i # 1 => i - 1 \in 1..n)
            BY <2>1, <4>2
          <5> QED
            BY <3>1, <3>5, <5>1 DEF FlatRule
        <4> QED
          BY <4>1, <4>2
      <3> QED
        BY <2>1, <3>4, <3>6
    <2> QED
      BY <2>2, <2>3
  <1> HIDE DEF T
  <1>3. T = Nat
    BY <1>1, <1>2, AllNumbers DEF T
  <1> QED
    BY <1>3 DEF T

LEMMA FlattenUnfolds ==
  ASSUME NEW V, NEW s \in Seq(Seq(V)), Len(s) # 0
  PROVE  \E g : FlatRule(s, Len(s), g) /\ FlattenSeq(s) = g[Len(s)]
  <1> DEFINE n == Len(s)
  <1>1. n \in Nat /\ \A i \in 1..n : s[i] \in Seq(V)
    OBVIOUS
  <1>2. FlattenSeq(s) =
          (CHOOSE f : f = [i \in 1..n |-> IF i = 1 THEN s[i] ELSE f[i - 1] \o s[i]])[n]
    BY DEF FlattenSeq
  <1> HIDE DEF n
  <1>3. PICK g \in [1..n -> Seq(V)] : FlatRule(s, n, g)
    BY <1>1, FlatsExist
  <1>4. g = [i \in 1..n |-> IF i = 1 THEN s[i] ELSE g[i - 1] \o s[i]]
    BY <1>3 DEF FlatRule
  <1> DEFINE it == CHOOSE f : f = [i \in 1..n |-> IF i = 1 THEN s[i] ELSE f[i - 1] \o s[i]]
  <1>5. it = [i \in 1..n |-> IF i = 1 THEN s[i] ELSE it[i - 1] \o s[i]]
    BY <1>4
  <1>6. FlattenSeq(s) = it[n]
    BY <1>2
  <1> HIDE DEF it
  <1>7. FlatRule(s, n, it)
    BY <1>5 DEF FlatRule
  <1> QED
    BY <1>6, <1>7 DEF n

\* at[i] is where the i-th of the sequences begins, counted from 0.
Offsets(s, at) ==
  /\ at[1] = 0
  /\ \A i \in 1..Len(s) : at[i] \in Nat /\ at[i + 1] = at[i] + Len(s[i])

\* f is what the first n of the sequences are, one behind another.
Placed(s, at, n, f) ==
  /\ Len(f) = at[n + 1]
  /\ \A i \in 1..n : \A j \in 1..Len(s[i]) : at[i] + j \in 1..at[n + 1] /\ f[at[i] + j] = s[i][j]
  /\ \A k \in 1..at[n + 1] : \E i \in 1..n : \E j \in 1..Len(s[i]) : k = at[i] + j

\* One sequence more.
LEMMA PlacedNext ==
  ASSUME NEW V, NEW s \in Seq(Seq(V)), NEW at, Offsets(s, at), NEW n \in Nat, n + 1 <= Len(s),
         NEW f \in Seq(V), Placed(s, at, n, f)
  PROVE  f \o s[n + 1] \in Seq(V) /\ Placed(s, at, n + 1, f \o s[n + 1])
  <1> DEFINE last == s[n + 1]
             full == f \o last
             a == at[n + 1]
             b == at[(n + 1) + 1]
             l == Len(last)
  <1>1. n + 1 \in 1..Len(s) /\ last \in Seq(V) /\ l \in Nat
    OBVIOUS
  <1>2. a \in Nat /\ b = a + l
    BY <1>1 DEF Offsets
  <1>3. Len(f) = a /\ Len(f) \in Nat
    BY DEF Placed
  <1>4. /\ full \in Seq(V) /\ Len(full) = a + l
        /\ \A i \in 1..a : full[i] = f[i]
        /\ \A i \in 1..l : full[a + i] = last[i]
    <2> HIDE DEF a, last
    <2>1. /\ full \in Seq(V) /\ Len(full) = a + l
          /\ \A i \in 1..(a + l) : full[i] = IF i <= a THEN f[i] ELSE last[i - a]
      BY <1>1, <1>3, ConcatFacts DEF full
    <2> HIDE DEF full, l
    <2>2. \A i \in 1..a : i \in 1..(a + l) /\ i <= a
      BY <1>1, <1>2
    <2>3. \A i \in 1..l : a + i \in 1..(a + l) /\ ~(a + i <= a) /\ (a + i) - a = i
      BY <1>1, <1>2
    <2> QED
      BY <2>1, <2>2, <2>3
  <1>5. ASSUME NEW i \in 1..(n + 1), NEW j \in 1..Len(s[i])
        PROVE  at[i] + j \in 1..b /\ full[at[i] + j] = s[i][j]
    <2>1. CASE i = n + 1
      <3>1. j \in 1..l /\ at[i] = a /\ s[i] = last
        BY <2>1
      <3> HIDE DEF full, a, b, l, last
      <3>2. a + j \in 1..b
        BY <1>1, <1>2, <3>1
      <3> QED
        BY <1>4, <3>1, <3>2
    <2>2. CASE i # n + 1
      <3>1. i \in 1..n
        BY <2>2
      <3>2. at[i] + j \in 1..a /\ f[at[i] + j] = s[i][j]
        BY <3>1 DEF Placed
      <3> HIDE DEF full, a, b, l
      <3> QED
        BY <1>1, <1>2, <1>4, <3>2
    <2> QED
      BY <2>1, <2>2
  <1>6. ASSUME NEW k \in 1..b
        PROVE  \E i \in 1..(n + 1) : \E j \in 1..Len(s[i]) : k = at[i] + j
    <2>1. CASE k \in 1..a
      <3>1. PICK i \in 1..n : \E j \in 1..Len(s[i]) : k = at[i] + j
        BY <2>1 DEF Placed
      <3>2. i \in 1..(n + 1)
        OBVIOUS
      <3> QED
        BY <3>1, <3>2
    <2>2. CASE k \notin 1..a
      <3>1. k - a \in 1..l /\ k = a + (k - a)
        <4> HIDE DEF a, b, l
        <4> QED
          BY <1>1, <1>2, <2>2
      <3>2. n + 1 \in 1..(n + 1)
        OBVIOUS
      <3> QED
        BY <3>1, <3>2
    <2> QED
      BY <2>1, <2>2
  <1>7. Len(full) = at[(n + 1) + 1]
    BY <1>2, <1>4
  <1> HIDE DEF full
  <1>8. Placed(s, at, n + 1, full)
    BY <1>5, <1>6, <1>7 DEF Placed
  <1> QED
    BY <1>4, <1>8 DEF full

\* Where each element of each sequence comes to lie, and that there is nothing else.
LEMMA FlattenFacts ==
  ASSUME NEW V, NEW s \in Seq(Seq(V)), NEW at, Offsets(s, at)
  PROVE  FlattenSeq(s) \in Seq(V) /\ Placed(s, at, Len(s), FlattenSeq(s))
  <1>0. Len(s) \in Nat /\ DOMAIN s = 1..Len(s)
    OBVIOUS
  <1>1. Placed(s, at, 0, <<>>) /\ <<>> \in Seq(V)
    <2>1. at[0 + 1] = 0
      BY DEF Offsets
    <2> QED
      BY <2>1 DEF Placed
  <1>2. CASE Len(s) = 0
    <2>1. s = <<>> /\ FlattenSeq(s) = s
      BY <1>2 DEF FlattenSeq
    <2> QED
      BY <1>1, <1>2, <2>1
  <1>3. CASE Len(s) # 0
    <2>1. PICK g : FlatRule(s, Len(s), g) /\ FlattenSeq(s) = g[Len(s)]
      BY <1>3, FlattenUnfolds
    <2> DEFINE T == {n \in Nat : n + 1 <= Len(s) => g[n + 1] \in Seq(V) /\ Placed(s, at, n + 1, g[n + 1])}
    <2>2. 0 \in T
      <3>1. 0 + 1 \in 1..Len(s) /\ 0 + 1 <= Len(s)
        BY <1>0, <1>3
      <3>2. s[0 + 1] \in Seq(V) /\ <<>> \o s[0 + 1] = s[0 + 1]
        BY <3>1
      <3>3. g[0 + 1] = s[0 + 1]
        BY <2>1, <3>1 DEF FlatRule
      <3>4. <<>> \o s[0 + 1] \in Seq(V) /\ Placed(s, at, 0 + 1, <<>> \o s[0 + 1])
        <4> DEFINE n == 0
                   f == <<>>
        <4>1. n \in Nat /\ n + 1 <= Len(s) /\ f \in Seq(V) /\ Placed(s, at, n, f)
          BY <1>1, <3>1
        <4> HIDE DEF n, f
        <4>2. f \o s[n + 1] \in Seq(V) /\ Placed(s, at, n + 1, f \o s[n + 1])
          BY <4>1, PlacedNext
        <4> QED
          BY <4>2 DEF n, f
      <3> QED
        BY <3>2, <3>3, <3>4
    <2>3. ASSUME NEW n \in T PROVE n + 1 \in T
      <3>1. n \in Nat
        OBVIOUS
      <3>2. SUFFICES ASSUME (n + 1) + 1 <= Len(s)
                     PROVE  g[(n + 1) + 1] \in Seq(V) /\ Placed(s, at, (n + 1) + 1, g[(n + 1) + 1])
        BY <3>1
      <3>3. g[n + 1] \in Seq(V) /\ Placed(s, at, n + 1, g[n + 1]) /\ n + 1 \in Nat
        BY <1>0, <3>1, <3>2
      <3>4. (n + 1) + 1 \in 1..Len(s) /\ (n + 1) + 1 # 1 /\ ((n + 1) + 1) - 1 = n + 1
        BY <1>0, <3>1, <3>2
      <3>5. g[(n + 1) + 1] = g[n + 1] \o s[(n + 1) + 1]
        BY <2>1, <3>4 DEF FlatRule
      <3> HIDE DEF T
      <3> QED
        BY <3>2, <3>3, <3>5, PlacedNext
    <2> HIDE DEF T
    <2>4. T = Nat
      BY <2>2, <2>3, AllNumbers DEF T
    <2>5. Len(s) - 1 \in T /\ (Len(s) - 1) + 1 = Len(s)
      BY <1>0, <1>3, <2>4
    <2> QED
      BY <2>1, <2>5 DEF T
  <1> QED
    BY <1>2, <1>3

\* The running sums of the lengths are the offsets.
LEMMA CumSumOffsets ==
  ASSUME NEW l \in Seq(Nat)
  PROVE  /\ CumSum(l) \in [1..(Len(l) + 1) -> Nat] /\ CumSum(l)[1] = 0
         /\ \A i \in 1..Len(l) : CumSum(l)[i + 1] = CumSum(l)[i] + l[i]
  <1> DEFINE c == CumSum(l)
  <1>1. Len(l) \in Nat /\ \A i \in 1..Len(l) : l[i] \in Nat
    BY SeqFacts
  <1>2. \A i \in 1..(Len(l) + 1) : c[i] = SumFunctionOnSet(l, 1..(i - 1))
    BY DEF CumSum
  <1>3. c[1] = 0
    <2>1. 1..(1 - 1) = {} /\ 1 \in 1..(Len(l) + 1)
      BY <1>1
    <2> QED
      BY <1>2, <2>1, EmptySum
  <1>4. ASSUME NEW i \in 1..Len(l) PROVE c[i + 1] = c[i] + l[i] /\ c[i] \in Nat
    <2>1. /\ i - 1 \in Nat /\ (i - 1) + 1 = i /\ (i + 1) - 1 = i
          /\ i \in 1..(Len(l) + 1) /\ i + 1 \in 1..(Len(l) + 1)
          /\ \A k \in 1..((i - 1) + 1) : l[k] \in Nat
      BY <1>1
    <2>2. /\ SumFunctionOnSet(l, 1..((i - 1) + 1)) = SumFunctionOnSet(l, 1..(i - 1)) + l[(i - 1) + 1]
          /\ SumFunctionOnSet(l, 1..(i - 1)) \in Nat
      BY <2>1, SumNext
    <2> QED
      BY <1>2, <2>1, <2>2
  <1>5. \A i \in 1..(Len(l) + 1) : c[i] \in Nat
    <2> SUFFICES ASSUME NEW i \in 1..(Len(l) + 1) PROVE c[i] \in Nat
      OBVIOUS
    <2>1. CASE i = 1
      BY <1>3, <2>1
    <2>2. CASE i # 1
      <3>1. i - 1 \in 1..Len(l) /\ (i - 1) + 1 = i
        BY <1>1, <2>2
      <3>2. c[(i - 1) + 1] = c[i - 1] + l[i - 1] /\ c[i - 1] \in Nat /\ l[i - 1] \in Nat
        BY <1>1, <1>4, <3>1
      <3> QED
        BY <3>1, <3>2
    <2> QED
      BY <2>1, <2>2
  <1> QED
    BY <1>3, <1>4, <1>5 DEF CumSum

-----------------------------------------------------------------------------
(* Numbers.                                                                *)

\* A bounded set of numbers has a largest.
LEMMA MaxFacts ==
  ASSUME NEW S \in SUBSET Nat, S # {}, NEW b \in Nat, \A x \in S : x <= b
  PROVE  Max(S) \in S /\ \A x \in S : x <= Max(S)
  <1> DEFINE T == {c \in Nat : \A x \in S : x <= c}
  <1>1. PICK m \in T : \A y \in T : m <= y
    <2>1. b \in T
      OBVIOUS
    <2> HIDE DEF T
    <2>2. T \in SUBSET Nat
      BY DEF T
    <2> QED
      BY <2>1, <2>2, NatLeast
  <1>2. m \in Nat /\ \A x \in S : x <= m
    OBVIOUS
  <1>3. m \in S
    <2> SUFFICES ASSUME m \notin S PROVE FALSE
      OBVIOUS
    <2>1. \A x \in S : x \in Nat /\ x < m
      BY <1>2
    <2>2. m - 1 \in Nat /\ \A x \in S : x <= m - 1
      <3>1. PICK y \in S : TRUE
        OBVIOUS
      <3>2. y \in Nat /\ y < m
        BY <2>1, <3>1
      <3> QED
        BY <1>2, <2>1, <3>2
    <2>3. m <= m - 1
      BY <1>1, <2>2
    <2> QED
      BY <1>2, <2>3
  <1>4. \A x, y \in S : x \in Int /\ (x >= y <=> y <= x)
    OBVIOUS
  <1> HIDE DEF T
  <1> QED
    BY <1>2, <1>3, <1>4 DEF Max

\* A finite set of numbers has a bound.
LEMMA FiniteBound ==
  ASSUME NEW S \in SUBSET Nat, IsFiniteSet(S)
  PROVE  \E b \in Nat : \A x \in S : x <= b
  <1> DEFINE f == [x \in S |-> x]
  <1>1. \A x \in S : f[x] \in Nat /\ f[x] \in Int /\ f[x] = x
    OBVIOUS
  <1> HIDE DEF f
  <1>2. \A y \in S : f[y] <= SumFunctionOnSet(f, S)
    BY <1>1, SumAboveTerms
  <1>3. SumFunctionOnSet(f, S) \in Int
    BY <1>1, SumOfNumbers
  <1>4. CASE S = {}
    BY <1>4
  <1>5. CASE S # {}
    <2>1. PICK y \in S : TRUE
      BY <1>5
    <2>2. SumFunctionOnSet(f, S) \in Nat
      BY <1>1, <1>2, <1>3, <2>1
    <2> QED
      BY <1>1, <1>2, <2>2
  <1> QED
    BY <1>4, <1>5

\* A set of numbers has a smallest.
LEMMA MinFacts ==
  ASSUME NEW S \in SUBSET Nat, S # {}
  PROVE  Min(S) \in S
  BY NatLeast DEF Min

\* The quotient is the number of whole pages.
LEMMA FloorIs ==
  ASSUME NEW q \in Nat, NEW n \in Nat, PageSize * q <= n, n < PageSize * q + PageSize
  PROVE  n \div PageSize = q
  <1>1. PageSize * q \in Nat /\ PageSize \in Nat
    BY PageSizeAssumption, TimesMonotone
  <1>2. n \div PageSize \in Nat /\ PageSize * (n \div PageSize) \in Nat
    BY FloorFacts
  <1>3. PageSize * q < PageSize * (n \div PageSize) + PageSize
    BY <1>1, <1>2, FloorFacts
  <1>4. PageSize * (n \div PageSize) < PageSize * q + PageSize
    BY <1>1, <1>2, FloorFacts
  <1>5. q <= n \div PageSize /\ n \div PageSize <= q
    BY <1>2, <1>3, <1>4, TimesMonotone
  <1> QED
    BY <1>2, <1>5

\* A position is a page and a place in it.
LEMMA PlaceFacts ==
  ASSUME NEW n \in Nat
  PROVE  n % PageSize \in 0..(PageSize - 1) /\ n = PageSize * (n \div PageSize) + (n % PageSize)
  <1>1. PageSize \in Int /\ PageSize > 0 /\ n \in Int
    BY PageSizeAssumption
  <1>2. n % PageSize \in 0..(PageSize - 1)
    BY <1>1
  <1>3. n = PageSize * (n \div PageSize) + (n % PageSize)
    BY <1>1
  <1> QED
    BY <1>2, <1>3

\* A page and a place in it make a location.
LEMMA LocationFacts ==
  ASSUME NEW p \in Nat, NEW m \in 0..(PageSize - 1)
  PROVE  p * PageSize + m \in Nat /\ (p * PageSize + m) \div PageSize = p
  <1>1. PageSize \in Nat /\ PageSize * p \in Nat /\ p * PageSize = PageSize * p
    BY PageSizeAssumption, TimesMonotone
  <1>2. p * PageSize + m \in Nat /\ PageSize * p <= p * PageSize + m
        /\ p * PageSize + m < PageSize * p + PageSize
    BY <1>1
  <1> QED
    BY <1>2, FloorIs

\* A position before the end lies on one of the pages.
LEMMA PageOfPosition ==
  ASSUME NEW n \in Nat, NEW m \in Nat, n < m
  PROVE  n \div PageSize + 1 \in 1..DivCeil(m) /\ n \div PageSize \in Nat
  <1> DEFINE q == n \div PageSize
             e == m + PageSize - 1
  <1>1. PageSize \in Nat /\ PageSize > 0
    BY PageSizeAssumption
  <1>2. q \in Nat /\ PageSize * q \in Nat /\ PageSize * q <= n
    BY FloorFacts
  <1>3. e \in Nat /\ n + PageSize <= e
    BY <1>1
  <1>4. PageSize * (q + 1) = PageSize * q + PageSize
    BY <1>1, <1>2
  <1> HIDE DEF q, e
  <1>5. e \div PageSize \in Nat /\ PageSize * (e \div PageSize) \in Nat
        /\ e < PageSize * (e \div PageSize) + PageSize
    BY <1>3, FloorFacts
  <1>6. PageSize * (q + 1) < PageSize * (e \div PageSize) + PageSize
    BY <1>1, <1>2, <1>3, <1>4, <1>5
  <1>7. q + 1 <= e \div PageSize
    BY <1>2, <1>5, <1>6, TimesMonotone
  <1> QED
    BY <1>2, <1>5, <1>7 DEF q, e, DivCeil

-----------------------------------------------------------------------------
(* The batch that is planned for.                                          *)

\* A batch that has its pages, in a state the loop can be in.
Ready == LockInv /\ LoopInv /\ ServeInv /\ LengthInv /\ Planned

\* What a row must hold: the last page of the longest request.
RowHoldsPages == PageSize * DivCeil(MaxSeqLen) <= Width

\* Each request of the batch has a row with pages for all its tokens.
LEMMA ReadyRequest ==
  ASSUME Ready, NEW r \in InBatch(batch)
  PROVE  /\ r \in held /\ r \in Req /\ slot[r] \in Slot /\ slot[r] \in Nat /\ slot[r] # MaxRunning
         /\ cachedLen[r] \in Nat /\ deviceLen[r] \in Nat /\ cachedLen[r] < deviceLen[r]
         /\ deviceLen[r] <= MaxSeqLen
         /\ Row(r) \in Seq(Nat) /\ Len(Row(r)) = DivCeil(deviceLen[r])
         /\ Len(handle[r]) \in Nat /\ PageSize * Len(handle[r]) <= cachedLen[r]
  <1>1. LockInv /\ LoopType /\ Owners /\ Limits /\ Rows /\ pc = "grow" /\ cursor > Len(batch.reqs)
    BY DEF Ready, LoopInv, Planned
  <1>2. r \in held /\ r \in Req
    BY <1>1, BatchMembers DEF Owners, LoopType
  <1>3. slot[r] \in Slot /\ Row(r) \in Seq(Page)
    BY <1>1, <1>2, HandlesCached DEF LockInv, OneUserPerSlot, CMTypeOK
  <1>4. slot[r] \in Nat /\ slot[r] # MaxRunning
    BY <1>3, MaxRunningAssumption DEF Slot
  <1>5. Page \subseteq Nat
    BY NumPagesAssumption DEF Page
  <1>6. Row(r) \in Seq(Nat)
    <2> DEFINE s == Row(r)
    <2>1. s \in Seq(Page)
      BY <1>3
    <2> HIDE DEF s
    <2>2. Len(s) \in Nat /\ DOMAIN s = 1..Len(s) /\ \A i \in DOMAIN s : s[i] \in Page
      BY <2>1, SeqFacts
    <2>3. s = [i \in 1..Len(s) |-> s[i]] /\ \A i \in 1..Len(s) : s[i] \in Nat
      BY <1>5, <2>1, <2>2
    <2>4. s \in [1..Len(s) -> Nat]
      BY <2>3
    <2> QED
      BY <2>2, <2>4 DEF s
  <1>7. cachedLen[r] \in Nat /\ deviceLen[r] \in Nat /\ cachedLen[r] < deviceLen[r]
        /\ deviceLen[r] <= MaxSeqLen
    BY <1>1, <1>2 DEF LoopType, Limits
  <1>8. Grown(r)
    <2>1. PICK i \in DOMAIN batch.reqs : batch.reqs[i].req = r
      BY DEF InBatch
    <2>2. Len(batch.reqs) \in Nat /\ DOMAIN batch.reqs = 1..Len(batch.reqs) /\ cursor \in Nat
      BY <1>1, BatchMembers DEF LoopType
    <2>3. i < cursor
      BY <1>1, <2>2
    <2> QED
      BY <1>1, <2>1, <2>3 DEF Grown
  <1>9. Len(Row(r)) = DivCeil(deviceLen[r]) /\ PageSize * Len(handle[r]) <= cachedLen[r]
    BY <1>1, <1>2, <1>8 DEF Rows, Covered
  <1>10. handle[r] \in Seq(Block)
    BY <1>1, <1>2 DEF LockInv, CMTypeOK
  <1> QED
    BY <1>2, <1>3, <1>4, <1>6, <1>7, <1>9, <1>10

\* What padding does not change of the size, and when it gives a captured one.
LEMMA SizeFacts ==
  ASSUME Ready
  PROVE  /\ Len(batch.reqs) \in Nat /\ PaddedSize \in Nat /\ Len(batch.reqs) <= PaddedSize
         /\ CanUseGraph => PaddedSize \in GraphSizes
  <1>1. Len(batch.reqs) \in Nat
    BY BatchMembers DEF Ready, LoopInv, LoopType
  <1>2. CASE ~CanUseGraph
    BY <1>1, <1>2 DEF PaddedSize
  <1>3. CASE CanUseGraph
    <2> DEFINE S == {n \in GraphSizes : n >= Len(batch.reqs)}
    <2>1. GraphSizes \in SUBSET Nat /\ IsFiniteSet(GraphSizes) /\ GraphSizes # {}
          /\ Len(batch.reqs) <= Max(GraphSizes)
      BY <1>3, PlanAssumption DEF CanUseGraph
    <2>2. Max(GraphSizes) \in GraphSizes
      BY <2>1, FiniteBound, MaxFacts
    <2>3. S \in SUBSET Nat /\ S # {}
      BY <1>1, <2>1, <2>2
    <2>4. Min(S) \in S
      <3> HIDE DEF S
      <3> QED
        BY <2>3, MinFacts
    <2>5. PaddedSize = Min(S)
      BY <1>3 DEF PaddedSize
    <2> QED
      BY <1>1, <2>1, <2>4, <2>5
  <1> QED
    BY <1>2, <1>3

\* The request in the i-th place of the batch.
At(i) == batch.reqs[i].req

\* Members of the padded batch: requests first, then the dummy.
LEMMA PaddedFacts ==
  ASSUME Ready, NEW i \in 1..PaddedSize
  PROVE  LET q == PaddedReqs[i] IN
         /\ i <= Len(batch.reqs) => At(i) \in InBatch(batch) /\ q = AsPlanned(At(i))
         /\ i > Len(batch.reqs) => q = Dummy
         /\ q.cached \in Nat /\ q.device \in Nat /\ q.cached < q.device /\ q.device <= MaxSeqLen
         /\ q.row \in Nat
         /\ Extent(q) \in Nat \ {0} /\ Extent(q) = q.device - q.cached
         /\ q.row = MaxRunning <=> i > Len(batch.reqs)
  <1> DEFINE q == PaddedReqs[i]
  <1>1. q = IF i <= Len(batch.reqs) THEN AsPlanned(At(i)) ELSE Dummy
    BY DEF PaddedReqs, At
  <1>2. i \in Nat /\ i # 0 /\ Len(batch.reqs) \in Nat
    BY SizeFacts
  <1>3. CASE i <= Len(batch.reqs)
    <2>1. At(i) \in InBatch(batch)
      BY <1>2, <1>3, BatchMembers DEF At, Ready, LoopInv, LoopType
    <2>2. /\ q.row = slot[At(i)] /\ q.cached = cachedLen[At(i)] /\ q.device = deviceLen[At(i)]
          /\ q = AsPlanned(At(i))
      BY <1>1, <1>3 DEF AsPlanned
    <2>3. /\ q.cached \in Nat /\ q.device \in Nat /\ q.cached < q.device /\ q.device <= MaxSeqLen
          /\ q.row \in Nat /\ q.row # MaxRunning
      BY <2>1, <2>2, ReadyRequest
    <2> HIDE DEF q
    <2>4. Extent(q) \in Nat \ {0} /\ Extent(q) = q.device - q.cached
      BY <2>3 DEF Extent
    <2> QED
      BY <1>2, <1>3, <2>1, <2>2, <2>3, <2>4 DEF q
  <1>4. CASE i > Len(batch.reqs)
    <2>1. q = Dummy /\ ~(i <= Len(batch.reqs))
      BY <1>1, <1>2, <1>4
    <2>2. q.row = MaxRunning /\ q.cached = 0 /\ q.device = 1 /\ MaxRunning \in Nat
      BY <2>1, MaxRunningAssumption DEF Dummy
    <2>3. MaxSeqLen >= 1
      BY MaxSeqLenAssumption, PageSizeAssumption, NumPagesAssumption
    <2> HIDE DEF q
    <2>4. Extent(q) \in Nat \ {0} /\ Extent(q) = q.device - q.cached
      BY <2>2 DEF Extent
    <2> QED
      BY <1>4, <2>1, <2>2, <2>3, <2>4 DEF q
  <1> QED
    BY <1>2, <1>3, <1>4

\* In the padded batch as in the batch, no two requests have the same row.
LEMMA RowsApart ==
  ASSUME Ready, NEW i \in 1..PaddedSize, NEW j \in 1..PaddedSize,
         i <= Len(batch.reqs), j <= Len(batch.reqs), slot[At(i)] = slot[At(j)]
  PROVE  i = j
  <1>1. LockInv /\ OnceEach(batch) /\ DOMAIN batch.reqs = 1..Len(batch.reqs) /\ Len(batch.reqs) \in Nat
    BY BatchMembers DEF Ready, LoopInv, LoopType, StageBatches
  <1>2. At(i) \in held /\ At(j) \in held
    BY PaddedFacts, ReadyRequest
  <1>3. At(i) = At(j)
    BY <1>1, <1>2 DEF LockInv, OneUserPerSlot
  <1> QED
    BY <1>1, <1>3 DEF OnceEach, At

\* Where in its row the entry of a position is, and what it says.
LEMMA EntryFacts ==
  ASSUME Ready, NEW r \in InBatch(batch), NEW pos \in Nat, pos < deviceLen[r]
  PROVE  LET c == pos \div PageSize + 1 IN
         /\ c \in 1..Len(Row(r)) /\ Row(r)[c] \in Nat
         /\ Location(slot[r], pos) = Row(r)[c] * PageSize + (pos % PageSize)
         /\ Location(slot[r], pos) \in Nat
         /\ Location(slot[r], pos) \div PageSize = Row(r)[c]
         /\ cachedLen[r] <= pos => c \in Private(r)
  <1> DEFINE c == pos \div PageSize + 1
  <1>1. /\ slot[r] # MaxRunning /\ deviceLen[r] \in Nat
        /\ Row(r) \in Seq(Nat) /\ Len(Row(r)) = DivCeil(deviceLen[r])
        /\ Len(handle[r]) \in Nat /\ PageSize * Len(handle[r]) <= cachedLen[r] /\ cachedLen[r] \in Nat
    BY ReadyRequest
  <1>2. c \in 1..Len(Row(r)) /\ pos \div PageSize \in Nat
    BY <1>1, PageOfPosition
  <1>3. Row(r)[c] \in Nat
    BY <1>1, <1>2
  <1>4. Location(slot[r], pos) = Row(r)[c] * PageSize + (pos % PageSize)
    BY <1>1 DEF Location, Row
  <1>5. pos % PageSize \in 0..(PageSize - 1)
    BY PlaceFacts
  <1>6. cachedLen[r] <= pos => c \in Private(r)
    <2> SUFFICES ASSUME cachedLen[r] <= pos PROVE c \in Private(r)
      OBVIOUS
    <2>1. PageSize * Len(handle[r]) < PageSize * (pos \div PageSize) + PageSize
      <3>1. /\ pos < PageSize * (pos \div PageSize) + PageSize
            /\ PageSize * (pos \div PageSize) \in Nat /\ PageSize \in Nat
            /\ PageSize * Len(handle[r]) \in Nat
        BY <1>1, FloorFacts, TimesMonotone, PageSizeAssumption
      <3>2. PageSize * Len(handle[r]) <= cachedLen[r] /\ cachedLen[r] <= pos /\ cachedLen[r] \in Nat
        BY <1>1
      <3>3. PageSize * Len(handle[r]) <= pos
        BY ONLY <3>1, <3>2, pos \in Nat
      <3> QED
        BY ONLY <3>1, <3>3, pos \in Nat
    <2>2. Len(handle[r]) <= pos \div PageSize
      BY <1>1, <1>2, <2>1, TimesMonotone
    <2>3. Len(Row(r)) \in Nat
      BY <1>1
    <2> QED
      BY ONLY <1>1, <1>2, <2>2, <2>3 DEF Private
  <1> HIDE DEF c
  <1>7. Location(slot[r], pos) \in Nat /\ Location(slot[r], pos) \div PageSize = Row(r)[c]
    BY <1>3, <1>4, <1>5, LocationFacts
  <1> QED
    BY <1>2, <1>3, <1>4, <1>6, <1>7 DEF c

-----------------------------------------------------------------------------
(* The tokens of the padded batch.                                         *)

\* Sequences of the given lengths lie where the running sums say.
LEMMA LaidOut ==
  ASSUME NEW n \in Nat, NEW l \in Seq(Nat), Len(l) = n, NEW s, s = [i \in 1..n |-> s[i]],
         \A i \in 1..n : s[i] \in Seq(Nat) /\ Len(s[i]) = l[i]
  PROVE  FlattenSeq(s) \in Seq(Nat) /\ Placed(s, CumSum(l), n, FlattenSeq(s))
  <1>1. s \in Seq(Seq(Nat)) /\ Len(s) = n
    <2> DEFINE V == Seq(Nat)
    <2>1. s \in [1..n -> V]
      OBVIOUS
    <2> HIDE DEF V
    <2>2. s \in Seq(V) /\ Len(s) = n
      BY <2>1
    <2> QED
      BY <2>2 DEF V
  <1>2. /\ CumSum(l) \in [1..(n + 1) -> Nat] /\ CumSum(l)[1] = 0
        /\ \A i \in 1..n : CumSum(l)[i + 1] = CumSum(l)[i] + l[i]
    BY CumSumOffsets
  <1>3. \A i \in 1..n : i \in 1..(n + 1)
    OBVIOUS
  <1>4. Offsets(s, CumSum(l))
    BY <1>1, <1>2, <1>3 DEF Offsets
  <1> QED
    BY <1>1, <1>4, FlattenFacts

\* The lengths the attention backends are told.
LEMMA LensFacts ==
  ASSUME Ready
  PROVE  /\ PaddedSize \in Nat
         /\ SeqLensQ \in Seq(Nat) /\ Len(SeqLensQ) = PaddedSize
         /\ SeqLensK \in Seq(Nat) /\ Len(SeqLensK) = PaddedSize
         /\ \A i \in 1..PaddedSize :
              /\ SeqLensQ[i] = Extent(PaddedReqs[i]) /\ SeqLensQ[i] \in Nat \ {0}
              /\ SeqLensK[i] = PaddedReqs[i].device /\ SeqLensK[i] \in Nat \ {0}
              /\ SeqLensK[i] <= MaxSeqLen
  <1>1. PaddedSize \in Nat
    BY SizeFacts
  <1>2. \A i \in 1..PaddedSize :
          /\ SeqLensQ[i] = Extent(PaddedReqs[i]) /\ SeqLensQ[i] \in Nat \ {0}
          /\ SeqLensK[i] = PaddedReqs[i].device /\ SeqLensK[i] \in Nat \ {0}
          /\ SeqLensK[i] <= MaxSeqLen
    <2> SUFFICES ASSUME NEW i \in 1..PaddedSize
                 PROVE  /\ SeqLensQ[i] = Extent(PaddedReqs[i]) /\ SeqLensQ[i] \in Nat \ {0}
                        /\ SeqLensK[i] = PaddedReqs[i].device /\ SeqLensK[i] \in Nat \ {0}
                        /\ SeqLensK[i] <= MaxSeqLen
      OBVIOUS
    <2>1. SeqLensQ[i] = Extent(PaddedReqs[i]) /\ SeqLensK[i] = PaddedReqs[i].device
      BY DEF SeqLensQ, SeqLensK
    <2>2. /\ PaddedReqs[i].device \in Nat \ {0} /\ PaddedReqs[i].device <= MaxSeqLen
          /\ Extent(PaddedReqs[i]) \in Nat \ {0}
      BY PaddedFacts
    <2> QED
      BY <2>1, <2>2
  <1>3. SeqLensQ = [i \in 1..PaddedSize |-> SeqLensQ[i]] /\ SeqLensK = [i \in 1..PaddedSize |-> SeqLensK[i]]
    BY DEF SeqLensQ, SeqLensK
  <1>4. SeqLensQ \in [1..PaddedSize -> Nat] /\ SeqLensK \in [1..PaddedSize -> Nat]
    BY <1>2, <1>3
  <1> QED
    BY <1>1, <1>2, <1>4

\* The m tokens of the input: those of the i-th request begin at at[i].
TokensAt(at, m) ==
  /\ Positions \in Seq(Nat) /\ Len(Positions) = m /\ InputRows \in Seq(Nat) /\ Len(InputRows) = m
  /\ \A i \in 1..PaddedSize : \A j \in 1..SeqLensQ[i] :
       /\ at[i] + j \in 1..m
       /\ Positions[at[i] + j] = PaddedReqs[i].cached + j - 1
       /\ InputRows[at[i] + j] = PaddedReqs[i].row
  /\ \A k \in 1..m : \E i \in 1..PaddedSize : \E j \in 1..SeqLensQ[i] : k = at[i] + j

\* Where the tokens of each request lie in the input, and which they are.
LEMMA TokenFacts ==
  ASSUME Ready
  PROVE  TokensAt(CumSum(SeqLensQ), CumSum(SeqLensQ)[PaddedSize + 1])
  <1>0. PICK at, m : at = CumSum(SeqLensQ) /\ m = at[PaddedSize + 1]
    OBVIOUS
  <1> DEFINE pos == [i \in 1..PaddedSize |->
                       [j \in 1..Extent(PaddedReqs[i]) |-> PaddedReqs[i].cached + j - 1]]
             rows == [i \in 1..PaddedSize |-> [j \in 1..Extent(PaddedReqs[i]) |-> PaddedReqs[i].row]]
  <1>1. Positions = FlattenSeq(pos) /\ InputRows = FlattenSeq(rows)
    BY DEF Positions, InputRows, PerToken
  <1>2. /\ PaddedSize \in Nat /\ SeqLensQ \in Seq(Nat) /\ Len(SeqLensQ) = PaddedSize
        /\ \A i \in 1..PaddedSize : SeqLensQ[i] = Extent(PaddedReqs[i])
    BY LensFacts
  <1>3. \A i \in 1..PaddedSize :
          /\ pos[i] \in Seq(Nat) /\ Len(pos[i]) = SeqLensQ[i]
          /\ rows[i] \in Seq(Nat) /\ Len(rows[i]) = SeqLensQ[i]
          /\ \A j \in 1..SeqLensQ[i] : /\ pos[i][j] = PaddedReqs[i].cached + j - 1
                                       /\ rows[i][j] = PaddedReqs[i].row
    <2> SUFFICES ASSUME NEW i \in 1..PaddedSize
                 PROVE  /\ pos[i] \in Seq(Nat) /\ Len(pos[i]) = SeqLensQ[i]
                        /\ rows[i] \in Seq(Nat) /\ Len(rows[i]) = SeqLensQ[i]
                        /\ \A j \in 1..SeqLensQ[i] : /\ pos[i][j] = PaddedReqs[i].cached + j - 1
                                                     /\ rows[i][j] = PaddedReqs[i].row
      OBVIOUS
    <2> DEFINE e == Extent(PaddedReqs[i])
               c == PaddedReqs[i].cached
               w == PaddedReqs[i].row
    <2>1. e \in Nat /\ c \in Nat /\ w \in Nat /\ SeqLensQ[i] = e
      BY <1>2, PaddedFacts
    <2>2. pos[i] = [j \in 1..e |-> c + j - 1] /\ rows[i] = [j \in 1..e |-> w]
      OBVIOUS
    <2> HIDE DEF pos, rows, e, c, w
    <2>3. pos[i] \in [1..e -> Nat] /\ rows[i] \in [1..e -> Nat]
      BY <2>1, <2>2
    <2>4. \A j \in 1..e : pos[i][j] = c + j - 1 /\ rows[i][j] = w
      BY <2>2
    <2>5. /\ pos[i] \in Seq(Nat) /\ Len(pos[i]) = SeqLensQ[i]
          /\ rows[i] \in Seq(Nat) /\ Len(rows[i]) = SeqLensQ[i]
      BY ONLY <2>1, <2>3
    <2>6. \A j \in 1..SeqLensQ[i] : pos[i][j] = c + j - 1 /\ rows[i][j] = w
      BY <2>1, <2>4
    <2> QED
      BY ONLY <2>5, <2>6 DEF c, w
  <1>4. pos = [i \in 1..PaddedSize |-> pos[i]] /\ rows = [i \in 1..PaddedSize |-> rows[i]]
    OBVIOUS
  <1> HIDE DEF pos, rows
  <1>5. FlattenSeq(pos) \in Seq(Nat) /\ Placed(pos, at, PaddedSize, FlattenSeq(pos))
    BY <1>0, <1>2, <1>3, <1>4, LaidOut
  <1>6. FlattenSeq(rows) \in Seq(Nat) /\ Placed(rows, at, PaddedSize, FlattenSeq(rows))
    BY <1>0, <1>2, <1>3, <1>4, LaidOut
  <1>7. Positions \in Seq(Nat) /\ Placed(pos, at, PaddedSize, Positions)
    BY <1>1, <1>5
  <1>8. InputRows \in Seq(Nat) /\ Placed(rows, at, PaddedSize, InputRows)
    BY <1>1, <1>6
  <1>9. ASSUME NEW i \in 1..PaddedSize, NEW j \in 1..SeqLensQ[i]
        PROVE  /\ at[i] + j \in 1..m
               /\ Positions[at[i] + j] = PaddedReqs[i].cached + j - 1
               /\ InputRows[at[i] + j] = PaddedReqs[i].row
    <2>1. /\ j \in 1..Len(pos[i]) /\ j \in 1..Len(rows[i])
          /\ pos[i][j] = PaddedReqs[i].cached + j - 1 /\ rows[i][j] = PaddedReqs[i].row
      BY <1>3
    <2>2. at[i] + j \in 1..m /\ Positions[at[i] + j] = pos[i][j]
      BY <1>0, <1>7, <2>1 DEF Placed
    <2>3. InputRows[at[i] + j] = rows[i][j]
      BY <1>8, <2>1 DEF Placed
    <2> QED
      BY <2>1, <2>2, <2>3
  <1>10. ASSUME NEW k \in 1..m
         PROVE  \E i \in 1..PaddedSize : \E j \in 1..SeqLensQ[i] : k = at[i] + j
    <2>1. PICK i \in 1..PaddedSize : \E j \in 1..Len(pos[i]) : k = at[i] + j
      BY <1>0, <1>7 DEF Placed
    <2>2. Len(pos[i]) = SeqLensQ[i]
      BY <1>3
    <2> QED
      BY <2>1, <2>2
  <1>11. Len(Positions) = m /\ Len(InputRows) = m
    BY <1>0, <1>7, <1>8 DEF Placed
  <1>12. TokensAt(at, m)
    BY <1>7, <1>8, <1>9, <1>10, <1>11 DEF TokensAt
  <1> QED
    BY <1>0, <1>12

\* The k-th location written is for the j-th token computed of the i-th request.
WrittenFor(k, i, j) ==
  LET r   == At(i)
      pos == cachedLen[r] + j - 1
  IN  /\ k = CumSum(SeqLensQ)[i] + j /\ i <= Len(batch.reqs)
      /\ r \in InBatch(batch) /\ InputRows[k] = slot[r]
      /\ OutLoc[k] = Location(slot[r], pos)
      /\ pos \in Nat /\ pos < deviceLen[r] /\ cachedLen[r] <= pos

\* Where keys and values of one token go.
LEMMA WriteFacts ==
  ASSUME Ready, NEW k \in DOMAIN OutLoc
  PROVE  /\ InputRows[k] = MaxRunning => OutLoc[k] \div PageSize = NumPages
         /\ InputRows[k] # MaxRunning =>
              \E i \in 1..PaddedSize : \E j \in 1..SeqLensQ[i] : WrittenFor(k, i, j)
  <1>0. PICK at, m : at = CumSum(SeqLensQ) /\ m = at[PaddedSize + 1]
    OBVIOUS
  <1>1. TokensAt(at, m)
    BY <1>0, TokenFacts
  <1>2. k \in 1..m /\ OutLoc[k] = Location(InputRows[k], Positions[k])
    <2>1. DOMAIN Positions = 1..m
      BY <1>1 DEF TokensAt
    <2> QED
      BY <2>1 DEF OutLoc
  <1>3. PICK i \in 1..PaddedSize : \E j \in 1..SeqLensQ[i] : k = at[i] + j
    BY <1>1, <1>2 DEF TokensAt
  <1>4. PICK j \in 1..SeqLensQ[i] : k = at[i] + j
    BY <1>3
  <1>5. InputRows[k] = PaddedReqs[i].row /\ Positions[k] = PaddedReqs[i].cached + j - 1
    BY <1>1, <1>4 DEF TokensAt
  <1>6. CASE InputRows[k] = MaxRunning
    <2>1. OutLoc[k] = NumPages * PageSize
      BY <1>2, <1>6 DEF Location
    <2>2. 0 \in 0..(PageSize - 1) /\ NumPages \in Nat /\ PageSize \in Nat
      BY PageSizeAssumption, NumPagesAssumption
    <2>3. (NumPages * PageSize + 0) \div PageSize = NumPages /\ NumPages * PageSize + 0 \in Nat
      BY <2>2, LocationFacts
    <2>4. NumPages * PageSize + 0 = NumPages * PageSize
      BY <2>2
    <2> QED
      BY <1>6, <2>1, <2>3, <2>4
  <1>7. CASE InputRows[k] # MaxRunning
    <2>1. i <= Len(batch.reqs)
      <3>1. PaddedReqs[i].row # MaxRunning
        BY <1>5, <1>7
      <3>2. ~(i > Len(batch.reqs))
        BY <3>1, PaddedFacts
      <3> QED
        BY <3>2, SizeFacts
    <2>2. At(i) \in InBatch(batch) /\ PaddedReqs[i] = AsPlanned(At(i))
          /\ Extent(PaddedReqs[i]) = PaddedReqs[i].device - PaddedReqs[i].cached
      BY <2>1, PaddedFacts
    <2>3. /\ PaddedReqs[i].row = slot[At(i)] /\ PaddedReqs[i].cached = cachedLen[At(i)]
          /\ PaddedReqs[i].device = deviceLen[At(i)]
      BY <2>2 DEF AsPlanned
    <2>4. SeqLensQ[i] = deviceLen[At(i)] - cachedLen[At(i)]
      BY <2>2, <2>3, LensFacts
    <2>5. cachedLen[At(i)] \in Nat /\ deviceLen[At(i)] \in Nat
      BY <2>2, ReadyRequest
    <2>6. /\ cachedLen[At(i)] + j - 1 \in Nat /\ cachedLen[At(i)] + j - 1 < deviceLen[At(i)]
          /\ cachedLen[At(i)] <= cachedLen[At(i)] + j - 1
      <3>1. j \in Nat /\ j >= 1 /\ j <= deviceLen[At(i)] - cachedLen[At(i)]
        BY <2>4, <2>5
      <3> QED
        BY <2>5, <3>1
    <2>7. OutLoc[k] = Location(slot[At(i)], cachedLen[At(i)] + j - 1) /\ InputRows[k] = slot[At(i)]
      BY <1>2, <1>5, <2>3
    <2> QED
      BY <1>0, <1>4, <1>7, <2>1, <2>2, <2>6, <2>7 DEF WrittenFor
  <1> QED
    BY <1>6, <1>7

\* No location is written twice.
LEMMA WritesApart ==
  ASSUME Ready, PrivatePagesApart, NEW k \in DOMAIN OutLoc, NEW l \in DOMAIN OutLoc,
         InputRows[k] # MaxRunning, InputRows[l] # MaxRunning, OutLoc[k] = OutLoc[l]
  PROVE  k = l
  <1>1. PICK i \in 1..PaddedSize : \E j \in 1..SeqLensQ[i] : WrittenFor(k, i, j)
    BY WriteFacts
  <1>2. PICK g \in 1..PaddedSize : \E h \in 1..SeqLensQ[g] : WrittenFor(l, g, h)
    BY WriteFacts
  <1>3. PICK j \in 1..SeqLensQ[i] : WrittenFor(k, i, j)
    BY <1>1
  <1>4. PICK h \in 1..SeqLensQ[g] : WrittenFor(l, g, h)
    BY <1>2
  <1>5. PICK a, b, r, q : /\ r = At(i) /\ a = cachedLen[r] + j - 1
                          /\ q = At(g) /\ b = cachedLen[q] + h - 1
    OBVIOUS
  <1>6. PICK c, d : c = a \div PageSize + 1 /\ d = b \div PageSize + 1
    OBVIOUS
  <1>7. /\ a \in Nat /\ c \in 1..Len(Row(r)) /\ c \in Private(r)
        /\ OutLoc[k] = Row(r)[c] * PageSize + (a % PageSize) /\ OutLoc[k] \div PageSize = Row(r)[c]
    BY <1>3, <1>5, <1>6, EntryFacts DEF WrittenFor
  <1>8. /\ b \in Nat /\ d \in 1..Len(Row(q)) /\ d \in Private(q)
        /\ OutLoc[l] = Row(q)[d] * PageSize + (b % PageSize) /\ OutLoc[l] \div PageSize = Row(q)[d]
    BY <1>4, <1>5, <1>6, EntryFacts DEF WrittenFor
  <1>9. r \in held /\ q \in held /\ Row(r)[c] \in Nat
    BY <1>3, <1>4, <1>5, <1>6, ReadyRequest, EntryFacts DEF WrittenFor
  <1>10. r = q /\ c = d
    BY <1>7, <1>8, <1>9 DEF PrivatePagesApart
  <1>11. a = b
    <2>1. \A x, y, z \in Int : x + y = x + z => y = z
      OBVIOUS
    <2>2. a % PageSize \in Int /\ b % PageSize \in Int /\ Row(r)[c] * PageSize \in Int
      <3>1. a % PageSize \in 0..(PageSize - 1) /\ b % PageSize \in 0..(PageSize - 1)
        BY <1>7, <1>8, PlaceFacts
      <3>2. PageSize \in Int /\ Row(r)[c] \in Int
        BY <1>9, PageSizeAssumption
      <3>3. \A x \in 0..(PageSize - 1) : x \in Int
        OBVIOUS
      <3>4. \A x, y \in Int : x * y \in Int
        OBVIOUS
      <3> QED
        BY ONLY <3>1, <3>2, <3>3, <3>4
    <2>3. a % PageSize = b % PageSize
      <3>1. Row(r)[c] * PageSize + (a % PageSize) = Row(r)[c] * PageSize + (b % PageSize)
        BY <1>7, <1>8, <1>10
      <3> QED
        BY ONLY <2>1, <2>2, <3>1
    <2>4. a \div PageSize \in Nat /\ b \div PageSize \in Nat
      BY <1>7, <1>8, FloorFacts
    <2>5. a \div PageSize = b \div PageSize
      BY <1>6, <1>10, <2>4
    <2> QED
      BY <1>7, <1>8, <2>3, <2>5, PlaceFacts
  <1>12. i = g
    BY <1>3, <1>4, <1>5, <1>10, RowsApart DEF WrittenFor
  <1>13. j = h
    <2>1. cachedLen[r] \in Nat /\ j \in Nat /\ h \in Nat
      BY <1>3, <1>5, ReadyRequest, LensFacts DEF WrittenFor
    <2>2. cachedLen[r] + j - 1 = cachedLen[r] + h - 1
      BY <1>5, <1>10, <1>11
    <2> QED
      BY <2>1, <2>2
  <1> QED
    BY <1>3, <1>4, <1>12, <1>13 DEF WrittenFor

\* Nothing is written to a page that another may read.
LEMMA WritesPrivate ==
  ASSUME Ready, PrivatePagesApart, NEW k \in DOMAIN OutLoc, InputRows[k] # MaxRunning
  PROVE  /\ OutLoc[k] \div PageSize \notin ToSet(freeSlots) \cup Range(tree.page)
         /\ \A q \in held : slot[q] # InputRows[k] =>
              \A j \in Private(q) : Row(q)[j] # OutLoc[k] \div PageSize
  <1>0. PICK i \in 1..PaddedSize : \E j \in 1..SeqLensQ[i] : WrittenFor(k, i, j)
    BY WriteFacts
  <1>1. PICK j \in 1..SeqLensQ[i] : WrittenFor(k, i, j)
    BY <1>0
  <1>2. PICK a, r, c : r = At(i) /\ a = cachedLen[r] + j - 1 /\ c = a \div PageSize + 1
    OBVIOUS
  <1>3. c \in Private(r) /\ OutLoc[k] \div PageSize = Row(r)[c]
    BY <1>1, <1>2, EntryFacts DEF WrittenFor
  <1>4. r \in held /\ InputRows[k] = slot[r]
    BY <1>1, <1>2, ReadyRequest DEF WrittenFor
  <1> QED
    BY <1>3, <1>4 DEF PrivatePagesApart

\* A row of the page table holds the pages of its request.
LEMMA RowFits ==
  ASSUME RowHoldsPages, Ready, NEW r \in InBatch(batch)
  PROVE  Len(Row(r)) * PageSize <= Width
  <1>1. /\ Len(Row(r)) = DivCeil(deviceLen[r]) /\ deviceLen[r] \in Nat
        /\ deviceLen[r] <= MaxSeqLen /\ MaxSeqLen \in Nat /\ Width \in Nat
    BY ReadyRequest, WidthFits
  <1>2. DivCeil(deviceLen[r]) <= DivCeil(MaxSeqLen) /\ DivCeil(deviceLen[r]) \in Nat
        /\ DivCeil(MaxSeqLen) \in Nat
    BY <1>1, CeilMonotone, CeilFacts
  <1>3. /\ PageSize * DivCeil(deviceLen[r]) <= PageSize * DivCeil(MaxSeqLen)
        /\ PageSize * DivCeil(deviceLen[r]) \in Nat /\ PageSize * DivCeil(MaxSeqLen) \in Nat
    BY <1>2, TimesMonotone
  <1>4. Len(Row(r)) * PageSize = PageSize * DivCeil(deviceLen[r])
    BY <1>1, <1>2, PageSizeAssumption
  <1>5. PageSize * DivCeil(MaxSeqLen) <= Width
    BY DEF RowHoldsPages
  <1> QED
    BY <1>1, <1>3, <1>4, <1>5

\* It does whenever pages divide the alignment, as all sizes up to it that are offered do.
LEMMA AlignedRows == TableAlign % PageSize = 0 => RowHoldsPages
  <1> SUFFICES ASSUME TableAlign % PageSize = 0 PROVE RowHoldsPages
    OBVIOUS
  <1> DEFINE k == TableAlign \div PageSize
             w == (MaxSeqLen + TableAlign - 1) \div TableAlign
  <1>1. TableAlign \in Nat \ {0} /\ MaxSeqLen \in Nat /\ PageSize \in Nat \ {0}
    BY PlanAssumption, WidthFits, PageSizeAssumption
  <1>2. TableAlign = PageSize * k /\ k \in Nat
    BY <1>1, PlaceFacts, FloorFacts
  <1>3. Width = w * TableAlign /\ w \in Nat
    BY <1>1 DEF Width
  <1>4. Width = PageSize * (w * k) /\ w * k \in Nat
    <2> HIDE DEF w, k
    <2> QED
      BY <1>1, <1>2, <1>3
  <1>5. MaxSeqLen <= Width /\ Width \in Nat
    BY WidthFits
  <1> HIDE DEF w, k
  <1>6. DivCeil(MaxSeqLen) <= DivCeil(Width) /\ DivCeil(Width) = w * k /\ DivCeil(MaxSeqLen) \in Nat
    BY <1>1, <1>4, <1>5, CeilMonotone, CeilOfPages, CeilFacts
  <1>7. PageSize * DivCeil(MaxSeqLen) <= PageSize * (w * k)
    BY <1>4, <1>6, TimesMonotone
  <1> QED
    BY <1>4, <1>7 DEF RowHoldsPages

\* What a forward pass writes is its own: no location twice, no page that is free, cached or
\* another request's, padding on the dummy page, for any batch that can come about, with hits,
\* chunks and padding in any mix.  Rows hold it when pages divide the alignment.
THEOREM PlannedWrites == RowHoldsPages /\ NoAbortInFlight /\ Spec => []PlanWrites
  <1> SUFFICES ASSUME RowHoldsPages, NoAbortInFlight PROVE Spec => []PlanWrites
    OBVIOUS
  <1>1. SchedInv /\ ServeInv /\ LengthInv /\ OneOwnerPerPage => PlanWrites
    <2> SUFFICES ASSUME Ready, PrivatePagesApart
                 PROVE  PlanWrites
      BY DEF SchedInv, OneOwnerPerPage, Ready, PlanWrites
    <2> DEFINE own == {k \in DOMAIN OutLoc : InputRows[k] # MaxRunning}
    <2>1. \A k, l \in own : OutLoc[k] = OutLoc[l] => k = l
      BY WritesApart
    <2>2. ASSUME NEW k \in own
          PROVE  /\ OutLoc[k] \div PageSize \notin ToSet(freeSlots) \cup Range(tree.page)
                 /\ \A q \in held : slot[q] # InputRows[k] =>
                      \A j \in Private(q) : Row(q)[j] # OutLoc[k] \div PageSize
      BY WritesPrivate
    <2>3. \A k \in DOMAIN OutLoc \ own : OutLoc[k] \div PageSize = NumPages
      BY WriteFacts
    <2>4. \A r \in InBatch(batch) : Len(Row(r)) * PageSize <= Width
      BY RowFits
    <2> QED
      BY <2>1, <2>2, <2>3, <2>4 DEF PlanWrites
  <1>2. Spec => []SchedInv
    BY SchedInvariant
  <1>3. Spec => []ServeInv
    BY ServeInvariant
  <1>4. Spec => []LengthInv
    BY LengthInvariant
  <1>5. Spec => []OneOwnerPerPage
    BY SchedulerKeepsContract, PagesOwnedOnce
  <1> QED
    BY <1>1, <1>2, <1>3, <1>4, <1>5, PTL

-----------------------------------------------------------------------------
(* What attention is told.                                                 *)

\* The running sums of ones count.
LEMMA OnesCount ==
  ASSUME NEW l \in Seq(Nat), \A i \in 1..Len(l) : l[i] = 1
  PROVE  CumSum(l) = [i \in 1..(Len(l) + 1) |-> i - 1]
  <1> DEFINE c == CumSum(l)
             T == {n \in Nat : n <= Len(l) => c[n + 1] = n}
  <1>1. /\ Len(l) \in Nat /\ c \in [1..(Len(l) + 1) -> Nat] /\ c[1] = 0
        /\ \A i \in 1..Len(l) : c[i + 1] = c[i] + l[i]
    BY CumSumOffsets
  <1> HIDE DEF c
  <1>2. 0 \in T
    BY <1>1
  <1>3. ASSUME NEW n \in T PROVE n + 1 \in T
    <2>1. n \in Nat
      OBVIOUS
    <2>2. SUFFICES ASSUME n + 1 <= Len(l) PROVE c[(n + 1) + 1] = n + 1
      BY <2>1
    <2>3. n + 1 \in 1..Len(l) /\ c[n + 1] = n
      BY <1>1, <2>1, <2>2
    <2>4. c[(n + 1) + 1] = c[n + 1] + l[n + 1] /\ l[n + 1] = 1
      BY <1>1, <2>3
    <2> QED
      BY <2>3, <2>4
  <1> HIDE DEF T
  <1>4. T = Nat
    BY <1>2, <1>3, AllNumbers DEF T
  <1>5. \A i \in 1..(Len(l) + 1) : c[i] = i - 1
    <2> SUFFICES ASSUME NEW i \in 1..(Len(l) + 1) PROVE c[i] = i - 1
      OBVIOUS
    <2>1. i - 1 \in Nat /\ i - 1 <= Len(l) /\ (i - 1) + 1 = i
      BY <1>1
    <2>2. c[(i - 1) + 1] = i - 1
      BY <1>4, <2>1 DEF T
    <2> QED
      BY <2>1, <2>2
  <1> QED
    BY <1>1, <1>5 DEF c

\* The longest length of the batch is one of it, and within a row.
LEMMA LongestFacts ==
  ASSUME Ready, NEW l, l = SeqLensQ \/ l = SeqLensK
  PROVE  \A i \in 1..PaddedSize : /\ Max(ToSet(l)) \in Nat /\ l[i] <= Max(ToSet(l))
                                  /\ Max(ToSet(l)) <= MaxSeqLen
  <1>1. l \in Seq(Nat) /\ Len(l) = PaddedSize /\ MaxSeqLen \in Nat
    BY LensFacts, WidthFits
  <1>2. \A i \in 1..PaddedSize : l[i] \in Nat /\ l[i] <= MaxSeqLen
    <2> SUFFICES ASSUME NEW i \in 1..PaddedSize PROVE l[i] \in Nat /\ l[i] <= MaxSeqLen
      OBVIOUS
    <2>1. /\ PaddedReqs[i].cached \in Nat /\ PaddedReqs[i].device \in Nat
          /\ PaddedReqs[i].device <= MaxSeqLen
          /\ Extent(PaddedReqs[i]) = PaddedReqs[i].device - PaddedReqs[i].cached
      BY PaddedFacts
    <2>2. SeqLensQ[i] = Extent(PaddedReqs[i]) /\ SeqLensQ[i] \in Nat
          /\ SeqLensK[i] \in Nat /\ SeqLensK[i] <= MaxSeqLen
      BY LensFacts
    <2>3. SeqLensQ[i] <= MaxSeqLen
      BY <1>1, <2>1, <2>2
    <2> QED
      BY <2>2, <2>3
  <1>3. ToSet(l) = {l[i] : i \in 1..PaddedSize}
    BY <1>1 DEF ToSet
  <1> SUFFICES ASSUME NEW i \in 1..PaddedSize
               PROVE  /\ Max(ToSet(l)) \in Nat /\ l[i] <= Max(ToSet(l)) /\ Max(ToSet(l)) <= MaxSeqLen
    OBVIOUS
  <1>4. ToSet(l) \in SUBSET Nat /\ l[i] \in ToSet(l) /\ \A x \in ToSet(l) : x <= MaxSeqLen
    BY <1>2, <1>3
  <1> QED
    BY <1>1, <1>4, MaxFacts

\* The boundaries are those of the tokens computed, in each of the short cuts.
LEMMA BoundariesExact == Ready => CuSeqLensQ = CumSum(SeqLensQ)
  <1> SUFFICES ASSUME Ready PROVE CuSeqLensQ = CumSum(SeqLensQ)
    OBVIOUS
  <1>1. CASE Max(ToSet(SeqLensQ)) = 1
    <2>1. SeqLensQ \in Seq(Nat) /\ Len(SeqLensQ) = PaddedSize
      BY LensFacts
    <2>2. \A i \in 1..PaddedSize : SeqLensQ[i] = 1
      <3> SUFFICES ASSUME NEW i \in 1..PaddedSize PROVE SeqLensQ[i] = 1
        OBVIOUS
      <3>1. SeqLensQ[i] \in Nat \ {0} /\ SeqLensQ[i] <= 1
        BY <1>1, LensFacts, LongestFacts
      <3> QED
        BY <3>1
    <2>3. CumSum(SeqLensQ) = [i \in 1..(PaddedSize + 1) |-> i - 1]
      BY <2>1, <2>2, OnesCount
    <2> QED
      BY <1>1, <2>3 DEF CuSeqLensQ
  <1>2. CASE Max(ToSet(SeqLensQ)) # 1 /\ NoCacheHit
    <2>1. \A i \in 1..PaddedSize : Extent(PaddedReqs[i]) = PaddedReqs[i].device
      <3> SUFFICES ASSUME NEW i \in 1..PaddedSize PROVE Extent(PaddedReqs[i]) = PaddedReqs[i].device
        OBVIOUS
      <3>1. /\ PaddedReqs[i].cached = 0 /\ PaddedReqs[i].device \in Nat
            /\ Extent(PaddedReqs[i]) = PaddedReqs[i].device - PaddedReqs[i].cached
        BY <1>2, PaddedFacts DEF NoCacheHit
      <3> QED
        BY <3>1
    <2>2. SeqLensK = SeqLensQ
      BY <2>1 DEF SeqLensK, SeqLensQ
    <2> QED
      BY <1>2, <2>2 DEF CuSeqLensQ
  <1>3. CASE Max(ToSet(SeqLensQ)) # 1 /\ ~NoCacheHit
    BY <1>3 DEF CuSeqLensQ
  <1> QED
    BY <1>1, <1>2, <1>3

\* The token sampled for a request is the one behind its last.
LEMMA LastOfEach ==
  ASSUME Ready, NEW i \in 1..PaddedSize
  PROVE  Positions[LastIndices[i] + 1] = SeqLensK[i] - 1
  <1>0. PICK at, m : at = CumSum(SeqLensQ) /\ m = at[PaddedSize + 1]
    OBVIOUS
  <1>1. TokensAt(at, m)
    BY <1>0, TokenFacts
  <1>2. /\ SeqLensQ \in Seq(Nat) /\ Len(SeqLensQ) = PaddedSize /\ PaddedSize \in Nat
        /\ SeqLensQ[i] = Extent(PaddedReqs[i]) /\ SeqLensQ[i] \in Nat \ {0}
        /\ SeqLensK[i] = PaddedReqs[i].device
    BY LensFacts
  <1>3. at \in [1..(PaddedSize + 1) -> Nat] /\ at[i + 1] = at[i] + SeqLensQ[i]
    BY <1>0, <1>2, CumSumOffsets
  <1>4. LastIndices[i] + 1 = at[i] + SeqLensQ[i]
    <2>1. LastIndices[i] = at[i + 1] - 1
      BY <1>0, BoundariesExact DEF LastIndices
    <2>2. at[i] \in Nat
      <3>1. i \in 1..(PaddedSize + 1)
        BY <1>2
      <3> QED
        BY <1>3, <3>1
    <2> QED
      BY <1>2, <1>3, <2>1, <2>2
  <1>5. SeqLensQ[i] \in 1..SeqLensQ[i]
    BY <1>2
  <1>6. Positions[at[i] + SeqLensQ[i]] = PaddedReqs[i].cached + SeqLensQ[i] - 1
    BY <1>1, <1>5 DEF TokensAt
  <1>7. /\ PaddedReqs[i].cached \in Nat /\ PaddedReqs[i].device \in Nat
        /\ Extent(PaddedReqs[i]) = PaddedReqs[i].device - PaddedReqs[i].cached
    BY PaddedFacts
  <1>8. PaddedReqs[i].cached + SeqLensQ[i] - 1 = SeqLensK[i] - 1
    BY <1>2, <1>7
  <1> QED
    BY <1>4, <1>6, <1>8

\* Entries of the page table by position, padding included.
LEMMA PlannedEntries ==
  ASSUME Ready, NEW i \in 1..PaddedSize, NEW pos \in Nat, pos < SeqLensK[i]
  PROVE  LET row == PaddedReqs[i].row
             first == (pos \div PageSize) * PageSize
         IN  /\ Location(row, pos) \in Nat
             /\ Location(row, pos) = (Location(row, first) \div PageSize) * PageSize + (pos % PageSize)
  <1> DEFINE row == PaddedReqs[i].row
             p == pos \div PageSize
             first == p * PageSize
  <1>1. p \in Nat /\ PageSize \in Nat \ {0} /\ first \in Nat /\ first <= pos /\ first = PageSize * p
        /\ first < PageSize * p + PageSize
    <2>1. p \in Nat /\ PageSize \in Nat \ {0} /\ PageSize * p \in Nat /\ PageSize * p <= pos
      BY FloorFacts, PageSizeAssumption
    <2> HIDE DEF p
    <2> QED
      BY <2>1
  <1>2. first \div PageSize = p
    BY <1>1, FloorIs
  <1>3. first % PageSize = 0
    BY <1>1, <1>2, PlaceFacts
  <1>4. pos % PageSize \in 0..(PageSize - 1)
    BY PlaceFacts
  <1>5. PaddedReqs[i].device = SeqLensK[i]
    BY LensFacts
  <1> HIDE DEF p, first
  <1>6. CASE i <= Len(batch.reqs)
    <2>1. PICK r : r = At(i)
      OBVIOUS
    <2>2. r \in InBatch(batch) /\ row = slot[r] /\ deviceLen[r] = SeqLensK[i]
      <3>1. r \in InBatch(batch) /\ PaddedReqs[i] = AsPlanned(r)
        BY <1>6, <2>1, PaddedFacts
      <3>2. row = slot[r] /\ PaddedReqs[i].device = deviceLen[r]
        BY <3>1 DEF AsPlanned
      <3> QED
        BY <1>5, <3>1, <3>2
    <2>3. deviceLen[r] \in Nat
      BY <2>2, ReadyRequest
    <2>4. /\ Location(slot[r], pos) \in Nat
          /\ Location(slot[r], pos) = Row(r)[p + 1] * PageSize + (pos % PageSize)
      BY <2>2, EntryFacts DEF p
    <2>5. first < deviceLen[r]
      BY <1>1, <2>2, <2>3
    <2>6. Location(slot[r], first) \div PageSize = Row(r)[p + 1]
      BY <1>1, <1>2, <2>2, <2>5, EntryFacts
    <2> QED
      BY <2>2, <2>4, <2>6 DEF first, p
  <1>7. CASE ~(i <= Len(batch.reqs))
    <2>1. PaddedReqs[i] = Dummy
      BY <1>7, PaddedFacts, SizeFacts
    <2>2. row = MaxRunning /\ SeqLensK[i] = 1
      BY <1>5, <2>1 DEF Dummy
    <2>3. Location(row, pos) = NumPages * PageSize /\ Location(row, first) = NumPages * PageSize
      BY <2>2 DEF Location
    <2>4. pos = 0
      BY <2>2
    <2>5. pos % PageSize = 0 /\ NumPages \in Nat /\ 0 \in 0..(PageSize - 1)
      BY <1>1, <1>4, <2>4, PlaceFacts, NumPagesAssumption
    <2>6. NumPages * PageSize + 0 \in Nat /\ (NumPages * PageSize + 0) \div PageSize = NumPages
      BY <2>5, LocationFacts
    <2>7. NumPages * PageSize + 0 = NumPages * PageSize
      BY <1>1, <2>5
    <2> QED
      BY <2>3, <2>5, <2>6, <2>7 DEF first, p
  <1> QED
    BY <1>6, <1>7

\* Both forms of the page table name the same pages.
LEMMA TablesAgree ==
  ASSUME Ready, NEW i \in 1..PaddedSize, NEW j \in Nat, j >= 1, j <= SeqLensK[i]
  PROVE  Indices[CumSum(SeqLensK)[i] + j] =
           PageColumns(i)[(j - 1) \div PageSize + 1] * PageSize + ((j - 1) % PageSize)
  <1> DEFINE locs == [n \in 1..PaddedSize |->
                        [k \in 1..SeqLensK[n] |-> Location(PaddedReqs[n].row, k - 1)]]
  <1>1. Indices = FlattenSeq(locs)
    BY DEF Indices
  <1>2. /\ PaddedSize \in Nat /\ SeqLensK \in Seq(Nat) /\ Len(SeqLensK) = PaddedSize
        /\ \A n \in 1..PaddedSize : SeqLensK[n] \in Nat
    BY LensFacts
  <1>3. ASSUME NEW n \in 1..PaddedSize
        PROVE  locs[n] \in Seq(Nat) /\ Len(locs[n]) = SeqLensK[n]
    <2> DEFINE e == SeqLensK[n]
               f == [k \in 1..e |-> Location(PaddedReqs[n].row, k - 1)]
    <2>1. e \in Nat
      BY <1>2
    <2>2. \A k \in 1..e : Location(PaddedReqs[n].row, k - 1) \in Nat
      <3> SUFFICES ASSUME NEW k \in 1..e PROVE Location(PaddedReqs[n].row, k - 1) \in Nat
        OBVIOUS
      <3>1. k - 1 \in Nat /\ k - 1 < SeqLensK[n]
        BY <2>1
      <3> QED
        BY <3>1, PlannedEntries
    <2>3. f \in [1..e -> Nat]
      BY <2>2
    <2>4. locs[n] = f
      OBVIOUS
    <2> HIDE DEF f, locs, e
    <2>5. f \in Seq(Nat) /\ Len(f) = e
      BY <2>1, <2>3
    <2> QED
      BY <2>4, <2>5 DEF e
  <1>4. locs = [n \in 1..PaddedSize |-> locs[n]]
    OBVIOUS
  <1>5. j \in 1..SeqLensK[i] /\ locs[i][j] = Location(PaddedReqs[i].row, j - 1)
    <2>1. j \in 1..SeqLensK[i]
      BY <1>2
    <2> QED
      BY <2>1
  <1> HIDE DEF locs
  <1>6. Placed(locs, CumSum(SeqLensK), PaddedSize, Indices)
    BY <1>1, <1>2, <1>3, <1>4, LaidOut
  <1>7. Indices[CumSum(SeqLensK)[i] + j] = locs[i][j]
    <2>1. j \in 1..Len(locs[i])
      BY <1>3, <1>5
    <2> QED
      BY <1>6, <2>1 DEF Placed
  <1> DEFINE pos == j - 1
             p == pos \div PageSize
  <1>8. pos \in Nat /\ pos < SeqLensK[i] /\ SeqLensK[i] \in Nat
    BY <1>2
  <1> HIDE DEF pos
  <1>9. p + 1 \in 1..DivCeil(SeqLensK[i]) /\ p \in Nat
    BY <1>8, PageOfPosition
  <1>10. Location(PaddedReqs[i].row, pos) =
           (Location(PaddedReqs[i].row, p * PageSize) \div PageSize) * PageSize + (pos % PageSize)
    BY <1>8, PlannedEntries
  <1> HIDE DEF p
  <1>11. PageColumns(i)[p + 1] = Location(PaddedReqs[i].row, p * PageSize) \div PageSize
    <2>1. PageColumns(i)[p + 1] = Location(PaddedReqs[i].row, ((p + 1) - 1) * PageSize) \div PageSize
      BY <1>9 DEF PageColumns
    <2>2. (p + 1) - 1 = p
      BY <1>9
    <2> QED
      BY <2>1, <2>2
  <1> QED
    BY <1>5, <1>7, <1>10, <1>11 DEF p, pos

\* A graph's buffers have the shape of the batch it replays.
LEMMA GraphTakesBatch ==
  ASSUME RowHoldsPages, Ready, CanUseGraph
  PROVE  BuffersTakeBatch /\ CaptureTakesTable
  <1>1. PaddedSize \in GraphSizes /\ PaddedSize \in Nat /\ 1 \in 1..PaddedSize
    BY SizeFacts, PlanAssumption
  <1>2. BuffersTakeBatch
    <2>1. /\ SeqLensQ \in Seq(Nat) /\ Len(SeqLensQ) = PaddedSize
          /\ \A i \in 1..PaddedSize : SeqLensQ[i] = Extent(PaddedReqs[i])
      BY LensFacts
    <2>2. ASSUME NEW i \in 1..PaddedSize PROVE SeqLensQ[i] = 1
      <3>1. Extent(PaddedReqs[i]) = PaddedReqs[i].device - PaddedReqs[i].cached
        BY PaddedFacts
      <3>2. CASE i <= Len(batch.reqs)
        <4>1. PICK r : r = At(i)
          OBVIOUS
        <4>2. r \in InBatch(batch) /\ PaddedReqs[i] = AsPlanned(r)
          BY <3>2, <4>1, PaddedFacts
        <4>3. PaddedReqs[i].device = deviceLen[r] /\ PaddedReqs[i].cached = cachedLen[r]
          BY <4>2 DEF AsPlanned
        <4>4. r \in running
          BY <4>2 DEF CanUseGraph, Ready, ServeInv, Progress
        <4>5. deviceLen[r] = cachedLen[r] + 1 /\ cachedLen[r] \in Nat
          BY <4>2, <4>4, ReadyRequest DEF Ready, LengthInv, OneAhead
        <4> QED
          BY <2>1, <3>1, <4>3, <4>5
      <3>3. CASE ~(i <= Len(batch.reqs))
        <4>1. PaddedReqs[i] = Dummy
          BY <3>3, PaddedFacts, SizeFacts
        <4> QED
          BY <2>1, <3>1, <4>1 DEF Dummy
      <3> QED
        BY <3>2, <3>3
    <2>3. CumSum(SeqLensQ) = [i \in 1..(PaddedSize + 1) |-> i - 1]
      BY <2>1, <2>2, OnesCount
    <2>4. CumSum(SeqLensQ)[PaddedSize + 1] = PaddedSize
      BY <1>1, <2>3
    <2>5. Len(Positions) = CumSum(SeqLensQ)[PaddedSize + 1]
      BY TokenFacts DEF TokensAt
    <2> QED
      BY <2>4, <2>5 DEF BuffersTakeBatch
  <1>3. CaptureTakesTable
    <2> DEFINE l == Max(ToSet(SeqLensK))
    <2>1. l \in Nat /\ l <= MaxSeqLen
      BY <1>1, LongestFacts
    <2> HIDE DEF l
    <2>2. MaxSeqLen \in Nat /\ Width \in Nat /\ PageSize \in Nat \ {0}
      BY WidthFits, PageSizeAssumption
    <2>3. DivCeil(l) <= DivCeil(MaxSeqLen) /\ DivCeil(l) \in Nat /\ DivCeil(MaxSeqLen) \in Nat
      BY <2>1, <2>2, CeilMonotone, CeilFacts
    <2>4. /\ Width < PageSize * (Width \div PageSize) + PageSize /\ Width \div PageSize \in Nat
          /\ PageSize * (Width \div PageSize) \in Nat
      BY <2>2, FloorFacts
    <2>5. PageSize * DivCeil(MaxSeqLen) <= Width /\ PageSize * DivCeil(MaxSeqLen) \in Nat
      BY <2>3, TimesMonotone DEF RowHoldsPages
    <2>6. PageSize * DivCeil(MaxSeqLen) < PageSize * (Width \div PageSize) + PageSize
      BY ONLY <2>2, <2>4, <2>5
    <2>7. DivCeil(MaxSeqLen) <= Width \div PageSize
      BY <2>3, <2>4, <2>6, TimesMonotone
    <2>8. TableLen <= CaptureColumns
      <3>1. DivCeil(l) <= Width \div PageSize
        BY ONLY <2>3, <2>4, <2>7
      <3> QED
        BY <3>1 DEF TableLen, CaptureColumns, l
    <2> QED
      BY <1>1, <2>8 DEF CaptureTakesTable
  <1> QED
    BY <1>2, <1>3

\* What attention is told agrees with the batch, for any mix of hits, chunks and padding:
\* the boundaries with the tokens computed in each short cut, the tokens sampled with the
\* last of each request, the two forms of the page table with each other, and the buffers
\* of a graph with the batch it replays.
THEOREM PlannedReads == RowHoldsPages /\ NoAbortInFlight /\ Spec => []PlanReads
  <1> SUFFICES ASSUME RowHoldsPages, NoAbortInFlight PROVE Spec => []PlanReads
    OBVIOUS
  <1>1. SchedInv /\ ServeInv /\ LengthInv => PlanReads
    <2> SUFFICES ASSUME Ready PROVE PlanReads
      BY DEF SchedInv, Ready, PlanReads
    <2>1. CuSeqLensQ = CumSum(SeqLensQ)
      BY BoundariesExact
    <2>2. \A i \in 1..PaddedSize : Positions[LastIndices[i] + 1] = SeqLensK[i] - 1
      BY LastOfEach
    <2>3. \A i \in 1..PaddedSize, j \in 1..Max(ToSet(SeqLensK)) : j <= SeqLensK[i] =>
            Indices[CumSum(SeqLensK)[i] + j] =
              PageColumns(i)[(j - 1) \div PageSize + 1] * PageSize + ((j - 1) % PageSize)
      <3> SUFFICES ASSUME NEW i \in 1..PaddedSize, NEW j \in 1..Max(ToSet(SeqLensK)), j <= SeqLensK[i]
                   PROVE  Indices[CumSum(SeqLensK)[i] + j] =
                            PageColumns(i)[(j - 1) \div PageSize + 1] * PageSize + ((j - 1) % PageSize)
        OBVIOUS
      <3>1. Max(ToSet(SeqLensK)) \in Nat
        BY LongestFacts
      <3>2. j \in Nat /\ j >= 1
        BY <3>1
      <3> QED
        BY <3>2, TablesAgree
    <2>4. CanUseGraph => BuffersTakeBatch /\ CaptureTakesTable
      BY GraphTakesBatch
    <2> QED
      BY <2>1, <2>2, <2>3, <2>4 DEF PlanReads
  <1>2. Spec => []SchedInv
    BY SchedInvariant
  <1>3. Spec => []ServeInv
    BY ServeInvariant
  <1>4. Spec => []LengthInv
    BY LengthInvariant
  <1> QED
    BY <1>1, <1>2, <1>3, <1>4, PTL
=============================================================================
