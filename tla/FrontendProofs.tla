--------------------------- MODULE FrontendProofs ---------------------------
(***************************************************************************)
(* Replies reach their clients once and in order, an abort is the last     *)
(* word on a request, and the detokenizer forgets what is over: for any    *)
(* number of clients, tokenizer workers and replies, and whatever clients, *)
(* workers and the event loop do.                                          *)
(***************************************************************************)
EXTENDS Frontend, SequenceTheorems, TLAPS

-----------------------------------------------------------------------------
(* Queues and messages.                                                    *)

LEMMA QueueFacts ==
  ASSUME NEW A, NEW q \in Seq(A)
  PROVE  /\ Len(q) \in Nat /\ DOMAIN q = 1..Len(q) /\ \A i \in DOMAIN q : q[i] \in A
         /\ q # <<>> => /\ Len(q) >= 1 /\ 1 \in DOMAIN q /\ Head(q) = q[1] /\ Head(q) \in A
                        /\ Tail(q) \in Seq(A) /\ DOMAIN Tail(q) = 1..(Len(q) - 1)
                        /\ \A i \in DOMAIN Tail(q) : i + 1 \in DOMAIN q /\ Tail(q)[i] = q[i + 1]
  OBVIOUS

LEMMA AppendFacts ==
  ASSUME NEW A, NEW q \in Seq(A), NEW m \in A
  PROVE  /\ Append(q, m) \in Seq(A) /\ DOMAIN Append(q, m) = 1..(Len(q) + 1)
         /\ Len(q) \in Nat /\ DOMAIN q = 1..Len(q)
         /\ \A i \in DOMAIN q : Append(q, m)[i] = q[i]
         /\ Append(q, m)[Len(q) + 1] = m
  OBVIOUS

Msgs == ReplyMsgs \cup RequestMsgs

LEMMA RequestFacts ==
  ASSUME NEW r \in Req, NEW kind \in {"tokenize", "abort"}
  PROVE  /\ Request(kind, r) \in RequestMsgs /\ Request(kind, r) \in Msgs
         /\ Request(kind, r).uid = r /\ Request(kind, r).kind = kind
  <1>1. Request(kind, r) \in RequestMsgs
    BY SMT DEF RequestMsgs
  <1>2. Request(kind, r).uid = r /\ Request(kind, r).kind = kind
    BY DEF Request
  <1> QED
    BY <1>1, <1>2 DEF Msgs

LEMMA ReplyFacts ==
  ASSUME NEW r \in Req, NEW n \in 1..MaxReplies, NEW last \in BOOLEAN
  PROVE  /\ ReplyMsg(r, n, last) \in ReplyMsgs /\ ReplyMsg(r, n, last) \in Msgs
         /\ IsReplyTo(r, ReplyMsg(r, n, last)) /\ ReplyMsg(r, n, last).n = n
         /\ ReplyMsg(r, n, last).uid = r /\ ReplyMsg(r, n, last).kind = "reply"
         /\ ReplyMsg(r, n, last).last = last
  BY DEF ReplyMsg, ReplyMsgs, Msgs, IsReplyTo

LEMMA MsgFacts ==
  /\ \A m \in ReplyMsgs : m.kind = "reply" /\ m.uid \in Req /\ m.n \in 1..MaxReplies /\ m.last \in BOOLEAN
  /\ \A m \in RequestMsgs : m.kind # "reply" /\ m.kind \in {"tokenize", "abort"} /\ m.uid \in Req
  /\ \A m \in Msgs : IF m.kind = "reply" THEN m \in ReplyMsgs ELSE m \in RequestMsgs
  /\ \A m \in Msgs : m.uid \in Req
  BY DEF ReplyMsgs, RequestMsgs, Request, Msgs

-----------------------------------------------------------------------------
(* Types, and what each task and each queue holds.                         *)

Served == {"waiting", "reading", "closing"}
Tasks == {"none", "waiting", "reading", "closing", "done", "cancelled", "aborted"}
Started(r) == task[r] # "none"

ServiceType ==
  /\ phase \in [Req -> {"absent", "active", "done", "dropped", "aborted"}]
  /\ sent \in [Req -> 0..MaxReplies] /\ late \in [Req -> 0..1]

ApiType ==
  /\ uidCounter \in Nat
  /\ DOMAIN ackMap \subseteq Req /\ \A r \in DOMAIN ackMap : ackMap[r] \in Seq(ReplyMsgs)
  /\ woken \subseteq DOMAIN ackMap
  /\ task \in [Req -> Tasks]
  /\ hand \in [Req -> Seq(ReplyMsgs)] /\ got \in [Req -> Seq(Nat)]
  /\ streams \subseteq Req /\ gone \subseteq Req

ChannelType ==
  /\ inbox \in [Worker -> Seq(Msgs)]
  /\ backend \in Seq(RequestMsgs) /\ front \in Seq(ReplyMsgs)
  /\ decodeMap \subseteq Req

\* Where a task is, it has picked something up or not, and its entry is there.
TaskHolds(r) ==
  /\ Started(r) => r \in Nat /\ r < uidCounter
  /\ task[r] \in {"none", "waiting"} => hand[r] = <<>>
  /\ task[r] = "reading" => hand[r] # <<>>
  /\ task[r] \in Served => r \in DOMAIN ackMap

Types == ServiceType /\ ApiType /\ ChannelType /\ \A r \in Req : TaskHolds(r)

LEMMA TypesAre == (ServiceType /\ ApiType /\ ChannelType) <=> TypeOK
  BY DEF ServiceType, ApiType, ChannelType, TypeOK, Tasks, Msgs

LEMMA TypesInit == Init => Types
  <1> SUFFICES ASSUME Init PROVE Types
    OBVIOUS
  <1>1. ServiceType
    BY MaxRepliesAssumption DEF Init, ServiceInit, ServiceType
  <1>2. ApiType
    BY DEF Init, ApiType, Tasks
  <1>3. ChannelType
    BY DEF Init, ChannelType
  <1> QED
    BY <1>1, <1>2, <1>3 DEF Types, TaskHolds, Started, Served, Init

LEMMA Workers == Detokenizer \in Worker /\ Tokenizer \subseteq Worker /\ Worker \subseteq Nat
  BY NumTokenizersAssumption DEF Detokenizer, Worker, Tokenizer

LEMMA SendToFacts ==
  ASSUME ChannelType, NEW w \in Worker, NEW m \in Msgs, SendTo(w, m)
  PROVE  /\ inbox' \in [Worker -> Seq(Msgs)]
         /\ \A v \in Worker : inbox'[v] = IF v = w THEN Append(inbox[v], m) ELSE inbox[v]
  BY AppendFacts DEF ChannelType, SendTo

LEMMA ArriveTypes ==
  ASSUME Types, NEW r \in Req, Arrive(r)
  PROVE  Types'
  <1>1. inbox' \in [Worker -> Seq(Msgs)]
    BY Workers, RequestFacts, SendToFacts DEF Arrive, Types
  <1>2. ChannelType'
    BY <1>1 DEF Arrive, Types, ChannelType
  <1>3. ApiType'
    BY DEF Arrive, Types, ApiType, Tasks
  <1>4. ServiceType'
    BY DEF Arrive, Types, ServiceType, serviceVars
  <1>5. \A u \in Req : TaskHolds(u)'
    <2>1. uidCounter \in Nat /\ uidCounter' = uidCounter + 1 /\ r = uidCounter
      BY DEF Arrive, Types, ApiType
    <2>2. ~(r < uidCounter) /\ r < uidCounter' /\ \A u \in Nat : u < uidCounter => u < uidCounter'
      BY <2>1
    <2>3. task[r] = "none" /\ hand[r] = <<>>
      BY <2>2 DEF Types, TaskHolds, Started
    <2> QED
      BY <2>1, <2>2, <2>3 DEF Arrive, Types, ApiType, TaskHolds, Started, Served
  <1> QED
    BY <1>2, <1>3, <1>4, <1>5 DEF Types

LEMMA ListenTypes ==
  ASSUME Types, Listen
  PROVE  Types'
  <1> DEFINE msg == Head(front)
  <1>1. msg \in ReplyMsgs /\ msg.uid \in Req /\ Tail(front) \in Seq(ReplyMsgs)
    BY QueueFacts, MsgFacts DEF Listen, Types, ChannelType
  <1> HIDE DEF msg
  <1>2. ChannelType'
    BY <1>1 DEF Listen, Types, ChannelType
  <1>3. ServiceType'
    BY DEF Listen, Types, ServiceType, serviceVars
  <1>4. CASE Known(msg.uid)
    <2>1. /\ ackMap' = [ackMap EXCEPT ![msg.uid] = Append(@, msg)]
          /\ woken' = woken \cup {msg.uid}
          /\ UNCHANGED <<uidCounter, task, hand, got, streams, gone>>
      BY <1>4 DEF Listen, msg, Wakes
    <2>2. \A u \in DOMAIN ackMap : Append(ackMap[u], msg) \in Seq(ReplyMsgs)
      BY <1>1, AppendFacts DEF Types, ApiType
    <2>3. ApiType'
      BY <1>4, <2>1, <2>2 DEF Types, ApiType, Known
    <2>4. \A u \in Req : TaskHolds(u)'
      BY <2>1 DEF Types, TaskHolds, Started
    <2> QED
      BY <1>2, <1>3, <2>3, <2>4 DEF Types
  <1>5. CASE ~Known(msg.uid)
    <2>1. UNCHANGED <<uidCounter, ackMap, woken, task, hand, got, streams, gone>>
      BY <1>5 DEF Listen, msg
    <2> QED
      BY <1>2, <1>3, <2>1 DEF Types, ApiType, TaskHolds, Started
  <1> QED
    BY <1>4, <1>5

LEMMA WakeTypes ==
  ASSUME Types, NEW r \in Req, Wake(r)
  PROVE  Types'
  <1>1. r \in DOMAIN ackMap /\ ackMap[r] \in Seq(ReplyMsgs)
    BY DEF Wake, Types, ApiType
  <1>2. ApiType'
    BY <1>1 DEF Wake, ResetAcks, Types, ApiType, Tasks
  <1>3. ServiceType' /\ ChannelType'
    BY DEF Wake, Types, ServiceType, ChannelType, serviceVars, channelVars
  <1>4. \A u \in Req : TaskHolds(u)'
    BY <1>1 DEF Wake, ResetAcks, Types, ApiType, TaskHolds, Started, Served
  <1> QED
    BY <1>2, <1>3, <1>4 DEF Types

LEMMA PassOnTypes ==
  ASSUME Types, NEW r \in Req, PassOn(r)
  PROVE  Types'
  <1>1. /\ hand[r] \in Seq(ReplyMsgs) /\ hand[r] # <<>> /\ got[r] \in Seq(Nat)
        /\ r \in DOMAIN ackMap
    BY DEF PassOn, Types, ApiType, TaskHolds, Started, Served
  <1> DEFINE msg == Head(hand[r])
  <1>2. msg \in ReplyMsgs /\ msg.n \in Nat /\ msg.last \in BOOLEAN /\ Tail(hand[r]) \in Seq(ReplyMsgs)
    BY <1>1, QueueFacts, MsgFacts
  <1>3. Append(got[r], msg.n) \in Seq(Nat)
    BY <1>1, <1>2
  <1>4. Len(hand[r]) \in Nat /\ Len(hand[r]) >= 1 /\ (Len(hand[r]) = 1 <=> Tail(hand[r]) = <<>>)
    <2>1. Tail(hand[r]) \in Seq(ReplyMsgs) /\ Len(Tail(hand[r])) = Len(hand[r]) - 1 /\ Len(hand[r]) >= 1
      BY <1>1
    <2>2. Tail(hand[r]) = <<>> <=> Len(Tail(hand[r])) = 0
      BY <2>1, EmptySeq
    <2> QED
      BY <2>1, <2>2, <1>1
  <1> HIDE DEF msg
  <1>5. /\ AfterReply(r, msg) \in {"closing", "done", "reading", "waiting"}
        /\ AfterReply(r, msg) = "reading" => Len(hand[r]) # 1
        /\ AfterReply(r, msg) = "waiting" => Len(hand[r]) = 1
    BY <1>2, <1>4 DEF AfterReply, Collected
  <1>6. /\ got' = [got EXCEPT ![r] = Append(@, msg.n)]
        /\ hand' = [hand EXCEPT ![r] = Tail(@)]
        /\ task' = [task EXCEPT ![r] = AfterReply(r, msg)]
        /\ UNCHANGED <<serviceVars, uidCounter, ackMap, woken, streams, gone, channelVars, decodeMap>>
    BY DEF PassOn, msg
  <1>7. ApiType'
    BY <1>2, <1>3, <1>5, <1>6 DEF Types, ApiType, Tasks
  <1>8. ServiceType' /\ ChannelType'
    BY <1>6 DEF Types, ServiceType, ChannelType, serviceVars, channelVars
  <1>9. \A u \in Req : TaskHolds(u)'
    BY <1>1, <1>4, <1>5, <1>6 DEF Types, ApiType, TaskHolds, Started, Served
  <1> QED
    BY <1>7, <1>8, <1>9 DEF Types

\* A task that only moves on.
LEMMA MovesTypes ==
  ASSUME Types, NEW r \in Req,
         Close(r) \/ Disconnect(r) \/ CancelAtChunk(r) \/ CancelWaiting(r)
  PROVE  Types'
  <1> USE DEF Types, ServiceType, ApiType, ChannelType, TaskHolds, Started, Served, Tasks, serviceVars, channelVars
  <1>1. CASE Close(r)
    BY <1>1 DEF Close
  <1>2. CASE Disconnect(r)
    BY <1>2 DEF Disconnect
  <1>3. CASE CancelAtChunk(r)
    BY <1>3 DEF CancelAtChunk, CancelStream
  <1>4. CASE CancelWaiting(r)
    BY <1>4 DEF CancelWaiting, CancelStream
  <1> QED
    BY <1>1, <1>2, <1>3, <1>4

LEMMA AbortUserTypes ==
  ASSUME Types, NEW r \in Req, AbortUser(r)
  PROVE  Types'
  <1>1. inbox' \in [Worker -> Seq(Msgs)]
    BY Workers, RequestFacts, SendToFacts DEF AbortUser, Types
  <1>2. ChannelType'
    BY <1>1 DEF AbortUser, Types, ChannelType
  <1>3. ApiType'
    BY DEF AbortUser, Restrict, Types, ApiType, Tasks
  <1>4. ServiceType'
    BY DEF AbortUser, Types, ServiceType, serviceVars
  <1>5. \A u \in Req : TaskHolds(u)'
    BY DEF AbortUser, Restrict, Types, ApiType, TaskHolds, Started, Served
  <1> QED
    BY <1>2, <1>3, <1>4, <1>5 DEF Types

LEMMA WorkTypes ==
  ASSUME Types, NEW w \in Worker, Work(w)
  PROVE  Types'
  <1> DEFINE msg == NextMsg(w)
  <1>1. inbox[w] \in Seq(Msgs) /\ msg \in Msgs /\ msg.uid \in Req /\ Tail(inbox[w]) \in Seq(Msgs)
    BY QueueFacts, MsgFacts DEF Work, NextMsg, Types, ChannelType
  <1>2. /\ msg.kind = "reply" => Append(front, msg) \in Seq(ReplyMsgs)
        /\ msg.kind # "reply" => Append(backend, msg) \in Seq(RequestMsgs)
    BY <1>1, MsgFacts, AppendFacts DEF Types, ChannelType
  <1> HIDE DEF msg
  <1>3. /\ inbox' = [inbox EXCEPT ![w] = Tail(@)]
        /\ IF msg.kind = "reply"
           THEN front' = Append(front, msg) /\ decodeMap' = Decoding(msg) /\ UNCHANGED backend
           ELSE backend' = Append(backend, msg) /\ UNCHANGED <<front, decodeMap>>
    BY DEF Work, msg
  <1>4. ChannelType'
    BY <1>1, <1>2, <1>3 DEF Types, ChannelType, Decoding
  <1> QED
    BY <1>4 DEF Work, Types, ServiceType, ApiType, TaskHolds, Started, serviceVars, apiVars

LEMMA HandleTypes ==
  ASSUME Types, Handle
  PROVE  Types'
  <1>1. Head(backend) \in RequestMsgs /\ Head(backend).uid \in Req /\ Tail(backend) \in Seq(RequestMsgs)
    BY QueueFacts, MsgFacts DEF Handle, Types, ChannelType
  <1>2. ChannelType'
    BY <1>1 DEF Handle, Types, ChannelType
  <1>3. ServiceType'
    BY <1>1 DEF Handle, Take, Drop, Abort, Types, ServiceType, serviceVars
  <1> QED
    BY <1>2, <1>3 DEF Handle, Types, ApiType, TaskHolds, Started, apiVars

\* A reply of the scheduler: the next number goes to the detokenizer.
LEMMA RespondFacts ==
  ASSUME Types, NEW r \in Req, Respond(r) \/ RespondLate(r)
  PROVE  \E last \in BOOLEAN :
           /\ sent[r] + 1 \in 1..MaxReplies
           /\ sent' = [sent EXCEPT ![r] = @ + 1]
           /\ Send(r, last)
           /\ (Answer(r, last) /\ Respond(r)) \/ AnswerLate(r)
           /\ UNCHANGED <<apiVars, backend, front, decodeMap>>
  <1>1. CASE Respond(r)
    <2>1. PICK last \in BOOLEAN : Answer(r, last) /\ Send(r, last)
      BY <1>1 DEF Respond
    <2>2. sent[r] \in 0..MaxReplies /\ sent[r] < MaxReplies /\ sent' = [sent EXCEPT ![r] = @ + 1]
      BY <2>1 DEF Answer, Types, ServiceType
    <2>3. sent[r] + 1 \in 1..MaxReplies
      BY <2>2, MaxRepliesAssumption
    <2> QED
      BY <1>1, <2>1, <2>2, <2>3 DEF Respond
  <1>2. CASE RespondLate(r)
    <2>1. PICK last \in BOOLEAN : AnswerLate(r) /\ Send(r, last)
      BY <1>2 DEF RespondLate
    <2>2. sent[r] \in 0..MaxReplies /\ sent[r] < MaxReplies /\ sent' = [sent EXCEPT ![r] = @ + 1]
      BY <2>1 DEF AnswerLate, Types, ServiceType
    <2>3. sent[r] + 1 \in 1..MaxReplies
      BY <2>2, MaxRepliesAssumption
    <2> QED
      BY <1>2, <2>1, <2>2, <2>3 DEF RespondLate
  <1> QED
    BY <1>1, <1>2

LEMMA RespondTypes ==
  ASSUME Types, NEW r \in Req, Respond(r) \/ RespondLate(r)
  PROVE  Types'
  <1>1. PICK last \in BOOLEAN :
           /\ sent[r] + 1 \in 1..MaxReplies
           /\ sent' = [sent EXCEPT ![r] = @ + 1]
           /\ Send(r, last)
           /\ Answer(r, last) \/ AnswerLate(r)
           /\ UNCHANGED <<apiVars, backend, front, decodeMap>>
    BY RespondFacts
  <1>2. inbox' \in [Worker -> Seq(Msgs)]
    BY <1>1, Workers, ReplyFacts, SendToFacts DEF Send, Types
  <1>3. ChannelType'
    BY <1>1, <1>2 DEF Types, ChannelType
  <1>4. ServiceType'
    BY <1>1 DEF Answer, AnswerLate, Types, ServiceType
  <1> QED
    BY <1>1, <1>3, <1>4 DEF Types, ApiType, TaskHolds, Started, apiVars

LEMMA TypesNext == Types /\ [Next]_vars => Types'
  <1> SUFFICES ASSUME Types, [Next]_vars PROVE Types'
    OBVIOUS
  <1>1. CASE Listen
    BY <1>1, ListenTypes
  <1>2. CASE Handle
    BY <1>2, HandleTypes
  <1>3. CASE Rest \/ UNCHANGED vars
    BY <1>3 DEF Rest, vars, apiVars, channelVars, serviceVars, Types, ServiceType, ApiType,
         ChannelType, TaskHolds, Started
  <1>4. ASSUME NEW w \in Worker, Work(w) PROVE Types'
    BY <1>4, WorkTypes
  <1>5. ASSUME NEW r \in Req,
               \/ Arrive(r) \/ Wake(r) \/ PassOn(r) \/ Close(r)
               \/ Disconnect(r) \/ CancelAtChunk(r) \/ CancelWaiting(r) \/ AbortUser(r)
               \/ Respond(r) \/ RespondLate(r)
        PROVE  Types'
    BY <1>5, ArriveTypes, WakeTypes, PassOnTypes, MovesTypes, AbortUserTypes, RespondTypes
  <1> QED
    BY <1>1, <1>2, <1>3, <1>4, <1>5 DEF Next

LEMMA TypesAlways == Spec => []Types
  <1> QED
    BY TypesInit, TypesNext, PTL DEF Spec

\* The types of what the API server, the channels and the service keep; a task that
\* waits holds nothing, one that reads something, and both have their entry in ack_map.
THEOREM FrontendTypes == Spec => []TypeOK
  <1>1. Types => TypeOK
    BY TypesAre DEF Types
  <1> QED
    BY <1>1, TypesAlways, PTL

-----------------------------------------------------------------------------
(* Nothing is known of a request before it arrives.                        *)

\* The messages of a queue are about requests whose tasks, by t, have started.
Covers(t, q) == \A i \in DOMAIN q : t[q[i].uid] # "none"

Fresh(r) ==
  ~Started(r) =>
    phase[r] = "absent" /\ sent[r] = 0 /\ late[r] = 0 /\ got[r] = <<>> /\ hand[r] = <<>>

\* Replies go to the detokenizer only.
RepliesDown ==
  \A w \in Worker : \A i \in DOMAIN inbox[w] : inbox[w][i].kind = "reply" => w = Detokenizer

ArrivalInv ==
  /\ Covers(task, front) /\ Covers(task, backend) /\ \A w \in Worker : Covers(task, inbox[w])
  /\ \A r \in Req : Fresh(r)
  /\ RepliesDown

LEMMA CoversAppend ==
  ASSUME NEW A, NEW q \in Seq(A), NEW m \in A, NEW t, Covers(t, q), t[m.uid] # "none"
  PROVE  Covers(t, Append(q, m))
  <1>1. /\ DOMAIN Append(q, m) = 1..(Len(q) + 1) /\ Len(q) \in Nat /\ DOMAIN q = 1..Len(q)
        /\ \A i \in DOMAIN q : Append(q, m)[i] = q[i]
        /\ Append(q, m)[Len(q) + 1] = m
    BY AppendFacts
  <1> DEFINE p == Append(q, m)
  <1> HIDE DEF p
  <1>2. \A i \in 1..(Len(q) + 1) : i \in 1..Len(q) \/ i = Len(q) + 1
    BY <1>1
  <1> QED
    BY <1>1, <1>2 DEF Covers

LEMMA CoversTail ==
  ASSUME NEW A, NEW q \in Seq(A), NEW t, Covers(t, q), q # <<>>
  PROVE  Covers(t, Tail(q)) /\ t[Head(q).uid] # "none"
  BY QueueFacts DEF Covers

LEMMA CoversStay ==
  ASSUME NEW q \in Seq(Msgs), NEW t, NEW u, Covers(t, q),
         \A r \in Req : t[r] # "none" => u[r] # "none"
  PROVE  Covers(u, q)
  BY QueueFacts, MsgFacts DEF Covers

\* Behind a reply a task goes on or ends.
LEMMA AfterReplyFacts ==
  ASSUME NEW r \in Req, hand[r] \in Seq(ReplyMsgs), hand[r] # <<>>
  PROVE  AfterReply(r, Head(hand[r])) \in {"closing", "done", "reading", "waiting"}
  <1> DEFINE m == Head(hand[r])
             k == Len(hand[r])
  <1>1. m.last \in BOOLEAN /\ k \in Nat /\ k >= 1
    BY QueueFacts, MsgFacts
  <1> HIDE DEF m, k
  <1>2. k > 1 \/ k = 1
    BY <1>1
  <1>3. /\ Collected(r, m) <=> m.last /\ r \notin streams
        /\ AfterReply(r, m) =
             CASE m.last /\ r \in streams -> "closing"
               [] Collected(r, m)         -> "done"
               [] ~m.last /\ k > 1        -> "reading"
               [] ~m.last /\ k = 1        -> "waiting"
    BY DEF AfterReply, Collected, m, k
  <1> QED
    BY <1>1, <1>2, <1>3 DEF m

LEMMA StartedStays ==
  ASSUME Types, [Next]_vars
  PROVE  \A r \in Req : Started(r) => task'[r] # "none"
  <1> USE DEF Started
  <1>1. ASSUME NEW r \in Req, PassOn(r) PROVE \A u \in Req : Started(u) => task'[u] # "none"
    <2>1. hand[r] \in Seq(ReplyMsgs) /\ hand[r] # <<>>
      BY <1>1 DEF PassOn, Types, ApiType, TaskHolds
    <2>3. AfterReply(r, Head(hand[r])) # "none"
      BY <2>1, AfterReplyFacts
    <2> QED
      BY <1>1, <2>3 DEF PassOn, Types, ApiType
  <1>2. ASSUME NEW r \in Req, Arrive(r) \/ Wake(r) \/ Close(r) \/ Disconnect(r) \/ AbortUser(r)
        PROVE  \A u \in Req : Started(u) => task'[u] # "none"
    BY <1>2 DEF Arrive, Wake, Close, Disconnect, AbortUser, Types, ApiType
  <1>3. ASSUME NEW r \in Req, CancelAtChunk(r) \/ CancelWaiting(r)
        PROVE  \A u \in Req : Started(u) => task'[u] # "none"
    BY <1>3 DEF CancelAtChunk, CancelWaiting, CancelStream, Types, ApiType
  <1>4. ASSUME UNCHANGED task PROVE \A u \in Req : Started(u) => task'[u] # "none"
    BY <1>4
  <1>5. Listen \/ Handle \/ Rest \/ (\E w \in Worker : Work(w)) \/ UNCHANGED vars => UNCHANGED task
    BY DEF Listen, Handle, Rest, Work, vars, apiVars
  <1>6. ASSUME NEW r \in Req, Respond(r) \/ RespondLate(r) PROVE UNCHANGED task
    BY <1>6 DEF Respond, RespondLate, apiVars
  <1> QED
    BY <1>1, <1>2, <1>3, <1>4, <1>5, <1>6 DEF Next

\* Queues that no step touches stay covered, and so do those that get shorter.
LEMMA FrameCovers ==
  ASSUME Types, Types', [Next]_vars, ArrivalInv
  PROVE  /\ Covers(task', front) /\ Covers(task', backend)
         /\ \A w \in Worker : Covers(task', inbox[w])
  <1>1. \A r \in Req : task[r] # "none" => task'[r] # "none"
    BY StartedStays DEF Started
  <1>2. /\ front \in Seq(Msgs) /\ backend \in Seq(Msgs)
        /\ \A w \in Worker : inbox[w] \in Seq(Msgs)
    <2>1. \A S, T : S \subseteq T => Seq(S) \subseteq Seq(T)
      OBVIOUS
    <2> QED
      BY <2>1 DEF Types, ChannelType, Msgs
  <1> QED
    BY <1>1, <1>2, CoversStay DEF ArrivalInv

LEMMA ArrivalInit == Init => ArrivalInv
  BY DEF Init, ServiceInit, ArrivalInv, Covers, Fresh, RepliesDown, Started

\* A message to a worker.
LEMMA SendKeepsArrival ==
  ASSUME Types, NEW w \in Worker, NEW m \in Msgs, SendTo(w, m), NEW t, t[m.uid] # "none",
         \A v \in Worker : Covers(t, inbox[v]), RepliesDown, m.kind = "reply" => w = Detokenizer
  PROVE  (\A v \in Worker : Covers(t, inbox'[v])) /\ RepliesDown'
  <1>1. \A v \in Worker : inbox'[v] = IF v = w THEN Append(inbox[v], m) ELSE inbox[v]
    BY SendToFacts DEF Types
  <1>2. inbox[w] \in Seq(Msgs)
    BY DEF Types, ChannelType
  <1>3. Covers(t, Append(inbox[w], m))
    BY <1>2, CoversAppend
  <1>4. \A i \in DOMAIN Append(inbox[w], m) :
          Append(inbox[w], m)[i].kind = "reply" => w = Detokenizer
    <2>1. /\ DOMAIN Append(inbox[w], m) = 1..(Len(inbox[w]) + 1)
          /\ Len(inbox[w]) \in Nat /\ DOMAIN inbox[w] = 1..Len(inbox[w])
          /\ \A i \in DOMAIN inbox[w] : Append(inbox[w], m)[i] = inbox[w][i]
          /\ Append(inbox[w], m)[Len(inbox[w]) + 1] = m
      BY <1>2, AppendFacts
    <2>2. \A i \in DOMAIN Append(inbox[w], m) : i \in DOMAIN inbox[w] \/ i = Len(inbox[w]) + 1
      BY ONLY <2>1
    <2> QED
      BY <2>1, <2>2 DEF RepliesDown
  <1> QED
    BY <1>1, <1>3, <1>4 DEF RepliesDown

LEMMA ArrivalNext == Types /\ Types' /\ ArrivalInv /\ [Next]_vars => ArrivalInv'
  <1> SUFFICES ASSUME Types, Types', ArrivalInv, [Next]_vars PROVE ArrivalInv'
    OBVIOUS
  <1>0. /\ Covers(task', front) /\ Covers(task', backend)
        /\ \A w \in Worker : Covers(task', inbox[w])
        /\ RepliesDown
    BY FrameCovers DEF ArrivalInv
  <1>00. \A r \in Req : Started(r) => task'[r] # "none"
    BY StartedStays
  <1>1. ASSUME NEW r \in Req, Arrive(r) PROVE ArrivalInv'
    <2>1. PICK w \in Tokenizer : SendTo(w, Request("tokenize", r))
      BY <1>1 DEF Arrive
    <2>2. task'[r] # "none"
      BY <1>1 DEF Arrive, Types, ApiType
    <2>3. (\A v \in Worker : Covers(task', inbox'[v])) /\ RepliesDown'
      BY <1>0, <2>1, <2>2, SendKeepsArrival, RequestFacts, Workers
    <2>4. \A u \in Req : Fresh(u)'
      BY <1>1, <1>00, <2>2 DEF Arrive, ArrivalInv, Fresh, Started, serviceVars
    <2> QED
      BY <1>0, <1>1, <2>3, <2>4 DEF Arrive, ArrivalInv
  <1>2. CASE Listen
    <2>1. Covers(task', Tail(front))
      BY <1>0, <1>2, CoversTail DEF Listen, Types, ChannelType
    <2>2. \A u \in Req : Fresh(u)'
      BY <1>2 DEF Listen, ArrivalInv, Fresh, Started, serviceVars
    <2> QED
      BY <1>0, <1>2, <2>1, <2>2 DEF Listen, ArrivalInv, RepliesDown
  <1>3. ASSUME NEW r \in Req, Wake(r) \/ PassOn(r) PROVE ArrivalInv'
    <2>1. Started(r)
      BY <1>3 DEF Wake, PassOn, Started
    <2>2. UNCHANGED <<front, backend, inbox, phase, sent, late>>
      BY <1>3 DEF Wake, PassOn, channelVars, serviceVars
    <2>3. \A u \in Req : u # r => got'[u] = got[u] /\ hand'[u] = hand[u]
      BY <1>3 DEF Wake, PassOn, Types, ApiType
    <2>4. \A u \in Req : Fresh(u)'
      BY <1>00, <2>1, <2>2, <2>3 DEF ArrivalInv, Fresh, Started
    <2> QED
      BY <1>0, <2>2, <2>4 DEF ArrivalInv, RepliesDown
  <1>4. ASSUME UNCHANGED <<front, backend, inbox, phase, sent, late, got, hand>> PROVE ArrivalInv'
    <2>1. \A u \in Req : Fresh(u)'
      BY <1>00, <1>4 DEF ArrivalInv, Fresh, Started
    <2> QED
      BY <1>0, <1>4, <2>1 DEF ArrivalInv, RepliesDown
  <1>5. ASSUME NEW r \in Req, Close(r) \/ Disconnect(r) \/ CancelAtChunk(r) \/ CancelWaiting(r)
        PROVE  ArrivalInv'
    BY <1>4, <1>5 DEF Close, Disconnect, CancelAtChunk, CancelWaiting, CancelStream,
         channelVars, serviceVars
  <1>6. ASSUME NEW r \in Req, AbortUser(r) PROVE ArrivalInv'
    <2>1. PICK w \in Tokenizer : SendTo(w, Request("abort", r))
      BY <1>6 DEF AbortUser
    <2>2. task'[r] # "none"
      BY <1>6 DEF AbortUser, Types, ApiType
    <2>3. (\A v \in Worker : Covers(task', inbox'[v])) /\ RepliesDown'
      BY <1>0, <2>1, <2>2, SendKeepsArrival, RequestFacts, Workers
    <2>4. \A u \in Req : Fresh(u)'
      BY <1>6, <1>00, <2>2 DEF AbortUser, ArrivalInv, Fresh, Started, serviceVars
    <2> QED
      BY <1>0, <1>6, <2>3, <2>4 DEF AbortUser, ArrivalInv
  <1>7. ASSUME NEW w \in Worker, Work(w) PROVE ArrivalInv'
    <2> DEFINE msg == NextMsg(w)
    <2>1. inbox[w] \in Seq(Msgs) /\ inbox[w] # <<>> /\ msg \in Msgs
      BY <1>7, QueueFacts DEF Work, NextMsg, Types, ChannelType
    <2>2. Covers(task', Tail(inbox[w])) /\ task'[msg.uid] # "none"
      BY <1>0, <2>1, CoversTail DEF NextMsg
    <2>3. /\ msg.kind = "reply" => msg \in ReplyMsgs /\ Covers(task', Append(front, msg))
          /\ msg.kind # "reply" => msg \in RequestMsgs /\ Covers(task', Append(backend, msg))
      BY <1>0, <2>1, <2>2, MsgFacts, CoversAppend DEF Types, ChannelType
    <2>4. \A i \in DOMAIN Tail(inbox[w]) : Tail(inbox[w])[i].kind = "reply" => w = Detokenizer
      BY <1>0, <2>1, QueueFacts DEF RepliesDown
    <2> HIDE DEF msg
    <2>5. /\ inbox' = [inbox EXCEPT ![w] = Tail(@)]
          /\ IF msg.kind = "reply" THEN front' = Append(front, msg) /\ UNCHANGED backend
             ELSE backend' = Append(backend, msg) /\ UNCHANGED front
          /\ UNCHANGED <<phase, sent, late, got, hand, task>>
      BY <1>7 DEF Work, msg, serviceVars, apiVars
    <2>6. \A v \in Worker : inbox'[v] = IF v = w THEN Tail(inbox[v]) ELSE inbox[v]
      BY <2>5 DEF Types, ChannelType
    <2>7. RepliesDown'
      BY <1>0, <2>4, <2>6 DEF RepliesDown
    <2>8. Covers(task', front') /\ Covers(task', backend') /\ \A v \in Worker : Covers(task', inbox'[v])
      BY <1>0, <2>2, <2>3, <2>5, <2>6
    <2>9. \A u \in Req : Fresh(u)'
      BY <2>5 DEF ArrivalInv, Fresh, Started
    <2> QED
      BY <2>7, <2>8, <2>9 DEF ArrivalInv
  <1>8. CASE Handle
    <2>1. /\ backend \in Seq(RequestMsgs) /\ backend # <<>> /\ Head(backend) \in RequestMsgs
          /\ Head(backend).uid \in Req
      BY <1>8, QueueFacts, MsgFacts DEF Handle, Types, ChannelType
    <2>2. Covers(task', Tail(backend)) /\ Started(Head(backend).uid)
      BY <2>1, <1>0, CoversTail DEF ArrivalInv, Started
    <2>3. \A u \in Req : u # Head(backend).uid => phase'[u] = phase[u] /\ sent'[u] = sent[u] /\ late'[u] = late[u]
      BY <1>8, <2>1 DEF Handle, Take, Drop, Abort, serviceVars, Types, ServiceType
    <2>4. \A u \in Req : Fresh(u)'
      BY <1>8, <2>1, <2>2, <2>3 DEF Handle, apiVars, ArrivalInv, Fresh, Started
    <2> QED
      BY <1>0, <1>8, <2>2, <2>4 DEF Handle, ArrivalInv, RepliesDown
  <1>9. ASSUME NEW r \in Req, Respond(r) \/ RespondLate(r) PROVE ArrivalInv'
    <2>1. PICK last \in BOOLEAN :
           /\ sent[r] + 1 \in 1..MaxReplies
           /\ Send(r, last)
           /\ Answer(r, last) \/ AnswerLate(r)
           /\ UNCHANGED <<apiVars, backend, front, decodeMap>>
      BY <1>9, RespondFacts
    <2>2. Started(r)
      BY <2>1 DEF Answer, AnswerLate, ArrivalInv, Fresh
    <2>3. (\A v \in Worker : Covers(task', inbox'[v])) /\ RepliesDown'
      BY <1>0, <1>00, <2>1, <2>2, SendKeepsArrival, ReplyFacts, Workers DEF Send
    <2>4. \A u \in Req : u # r => phase'[u] = phase[u] /\ sent'[u] = sent[u] /\ late'[u] = late[u]
      BY <2>1 DEF Answer, AnswerLate, Types, ServiceType
    <2>5. \A u \in Req : Fresh(u)'
      BY <2>1, <2>2, <2>4 DEF apiVars, ArrivalInv, Fresh, Started
    <2> QED
      BY <1>0, <2>1, <2>3, <2>5 DEF ArrivalInv
  <1>10. CASE Rest \/ UNCHANGED vars
    BY <1>4, <1>10 DEF Rest, vars, serviceVars, apiVars, channelVars
  <1> QED
    BY <1>1, <1>2, <1>3, <1>5, <1>6, <1>7, <1>8, <1>9, <1>10 DEF Next

LEMMA ArrivalAlways == Spec => [](Types /\ ArrivalInv)
  <1>1. Types /\ ArrivalInv /\ [Next]_vars => (Types /\ ArrivalInv)'
    BY TypesNext, ArrivalNext
  <1> QED
    BY <1>1, TypesInit, ArrivalInit, PTL DEF Spec

-----------------------------------------------------------------------------
(* Replies in order.                                                       *)

LEMMA CarriesNone ==
  ASSUME NEW r, NEW q, NEW a \in Nat, \A i \in DOMAIN q : ~IsReplyTo(r, q[i])
  PROVE  Carries(r, q, a, a)
  <1>1. {i \in DOMAIN q : IsReplyTo(r, q[i])} = {}
    OBVIOUS
  <1>2. a + 1 .. a = {} /\ a <= a
    OBVIOUS
  <1> QED
    BY <1>1, <1>2 DEF Carries

LEMMA CarriesEmpty ==
  ASSUME NEW r, NEW a \in Nat, NEW b \in Nat, Carries(r, <<>>, a, b)
  PROVE  a = b
  <1>1. a <= b /\ {<<>>[i].n : i \in {j \in DOMAIN <<>> : IsReplyTo(r, <<>>[j])}} = a + 1 .. b
    BY DEF Carries
  <1>2. DOMAIN <<>> = {}
    OBVIOUS
  <1>3. a + 1 .. b = {}
    BY <1>1, <1>2
  <1> QED
    BY <1>1, <1>3

LEMMA CarriesOther ==
  ASSUME NEW A, NEW q \in Seq(A), NEW m \in A, NEW r, NEW a \in Nat, NEW b \in Nat,
         Carries(r, q, a, b), ~IsReplyTo(r, m)
  PROVE  Carries(r, Append(q, m), a, b)
  <1> DEFINE p == Append(q, m)
             at == {i \in DOMAIN q : IsReplyTo(r, q[i])}
  <1>1. /\ DOMAIN p = 1..(Len(q) + 1) /\ Len(q) \in Nat /\ DOMAIN q = 1..Len(q)
        /\ \A i \in DOMAIN q : p[i] = q[i]
        /\ p[Len(q) + 1] = m
    BY AppendFacts
  <1>2. /\ a <= b /\ {q[i].n : i \in at} = a + 1 .. b
        /\ \A i, j \in at : i < j => q[i].n < q[j].n
    BY DEF Carries
  <1> HIDE DEF p
  <1>3. {i \in DOMAIN p : IsReplyTo(r, p[i])} = at
    <2>1. \A i \in DOMAIN p : i \in DOMAIN q \/ i = Len(q) + 1
      BY ONLY <1>1
    <2>2. DOMAIN q \subseteq DOMAIN p
      BY ONLY <1>1
    <2> QED
      BY <1>1, <2>1, <2>2
  <1>4. {p[i].n : i \in at} = {q[i].n : i \in at} /\ \A i \in at : p[i] = q[i]
    BY <1>1
  <1> QED
    BY <1>2, <1>3, <1>4 DEF Carries, p

LEMMA CarriesMore ==
  ASSUME NEW A, NEW q \in Seq(A), NEW m \in A, NEW r, NEW a \in Nat, NEW b \in Nat,
         Carries(r, q, a, b), IsReplyTo(r, m), m.n = b + 1
  PROVE  Carries(r, Append(q, m), a, b + 1)
  <1> DEFINE p == Append(q, m)
             z == Len(q) + 1
             at == {i \in DOMAIN q : IsReplyTo(r, q[i])}
  <1>1. /\ DOMAIN p = 1..z /\ Len(q) \in Nat /\ DOMAIN q = 1..Len(q)
        /\ \A i \in DOMAIN q : p[i] = q[i]
        /\ p[z] = m
    BY AppendFacts
  <1>2. /\ a <= b /\ {q[i].n : i \in at} = a + 1 .. b
        /\ \A i, j \in at : i < j => q[i].n < q[j].n
    BY DEF Carries
  <1> HIDE DEF p
  <1>3. {i \in DOMAIN p : IsReplyTo(r, p[i])} = at \cup {z}
    <2>1. \A i \in DOMAIN p : i \in DOMAIN q \/ i = z
      BY ONLY <1>1
    <2>2. DOMAIN q \subseteq DOMAIN p /\ z \in DOMAIN p
      BY ONLY <1>1
    <2> QED
      BY <1>1, <2>1, <2>2
  <1>4. \A i \in at : p[i] = q[i] /\ i < z /\ ~(z < i) /\ i # z /\ q[i].n \in a + 1 .. b
    <2>1. \A i \in DOMAIN q : i < z /\ ~(z < i) /\ i # z
      BY ONLY <1>1
    <2> QED
      BY <1>1, <1>2, <2>1
  <1> HIDE DEF at
  <1>5. {p[i].n : i \in at \cup {z}} = {q[i].n : i \in at} \cup {b + 1}
    BY <1>1, <1>4
  <1>6. (a + 1 .. b) \cup {b + 1} = a + 1 .. b + 1 /\ a <= b + 1
    BY <1>2
  <1>7. \A i, j \in at \cup {z} : i < j => p[i].n < p[j].n
    <2>1. ~(z < z)
      BY <1>1
    <2>2. \A i \in at : p[i].n < p[z].n
      BY <1>1, <1>4
    <2> HIDE DEF z
    <2>3. ASSUME NEW i \in at \cup {z}, NEW j \in at \cup {z}, i < j PROVE p[i].n < p[j].n
      <3>1. i \in at
        BY <1>4, <2>1, <2>3
      <3>2. CASE j \in at
        BY <1>2, <1>4, <2>3, <3>1, <3>2
      <3>3. CASE j = z
        BY <2>2, <3>1, <3>3
      <3> QED
        BY <3>2, <3>3
    <2> QED
      BY <2>3
  <1>8. {p[i].n : i \in at \cup {z}} = a + 1 .. b + 1
    BY <1>2, <1>5, <1>6
  <1> HIDE DEF z
  <1>9. Carries(r, p, a, b + 1)
    BY <1>3, <1>6, <1>7, <1>8 DEF Carries
  <1> QED
    BY <1>9 DEF p

LEMMA CarriesTail ==
  ASSUME NEW A, NEW q \in Seq(A), q # <<>>, NEW r, NEW a \in Nat, NEW b \in Nat,
         Carries(r, q, a, b), ~IsReplyTo(r, Head(q))
  PROVE  Carries(r, Tail(q), a, b)
  <1> DEFINE p == Tail(q)
             at == {i \in DOMAIN q : IsReplyTo(r, q[i])}
             bt == {i \in DOMAIN p : IsReplyTo(r, p[i])}
  <1>1. /\ DOMAIN p = 1..(Len(q) - 1) /\ Len(q) \in Nat /\ DOMAIN q = 1..Len(q)
        /\ \A i \in DOMAIN p : i + 1 \in DOMAIN q /\ p[i] = q[i + 1]
        /\ Head(q) = q[1]
    BY QueueFacts
  <1>2. /\ a <= b /\ {q[i].n : i \in at} = a + 1 .. b
        /\ \A i, j \in at : i < j => q[i].n < q[j].n
    BY DEF Carries
  <1> HIDE DEF p
  <1>3. \A i \in bt : i \in Int /\ i + 1 \in at /\ p[i] = q[i + 1]
    BY <1>1
  <1>4. \A i \in at : i - 1 \in bt /\ p[i - 1] = q[i]
    <2>1. \A i \in DOMAIN q : i = 1 \/ (i - 1 \in DOMAIN p /\ (i - 1) + 1 = i)
      BY ONLY <1>1
    <2>2. \A i \in at : i # 1
      BY <1>1
    <2> QED
      BY <1>1, <2>1, <2>2
  <1> HIDE DEF at, bt
  <1>5. {p[i].n : i \in bt} = {q[i].n : i \in at}
    BY <1>3, <1>4
  <1>6. \A i, j \in bt : i < j => p[i].n < p[j].n
    <2>1. \A i, j \in bt : i < j => i + 1 < j + 1
      BY <1>3
    <2> QED
      BY <1>2, <1>3, <2>1
  <1>7. Carries(r, p, a, b)
    BY <1>2, <1>5, <1>6 DEF Carries, bt
  <1> QED
    BY <1>7 DEF p

LEMMA CarriesNext ==
  ASSUME NEW A, NEW q \in Seq(A), q # <<>>, NEW r, NEW a \in Nat, NEW b \in Nat,
         Carries(r, q, a, b), IsReplyTo(r, Head(q))
  PROVE  Head(q).n = a + 1 /\ a + 1 <= b /\ Carries(r, Tail(q), a + 1, b)
  <1> DEFINE p == Tail(q)
             at == {i \in DOMAIN q : IsReplyTo(r, q[i])}
             bt == {i \in DOMAIN p : IsReplyTo(r, p[i])}
             num(i) == q[i].n
  <1>1. /\ DOMAIN p = 1..(Len(q) - 1) /\ Len(q) \in Nat /\ DOMAIN q = 1..Len(q)
        /\ \A i \in DOMAIN p : i + 1 \in DOMAIN q /\ p[i] = q[i + 1]
        /\ Head(q) = q[1] /\ 1 \in DOMAIN q
    BY QueueFacts
  <1>2. /\ a <= b /\ {q[i].n : i \in at} = a + 1 .. b
        /\ \A i, j \in at : i < j => q[i].n < q[j].n
    BY DEF Carries
  <1> HIDE DEF p
  <1>3. \A i \in bt : i \in Int /\ i + 1 \in at /\ p[i] = q[i + 1] /\ 1 < i + 1
    BY <1>1
  <1>4. \A i \in at : i = 1 \/ (i - 1 \in bt /\ p[i - 1] = q[i] /\ 1 < i)
    <2>1. \A i \in DOMAIN q : i = 1 \/ (i - 1 \in DOMAIN p /\ (i - 1) + 1 = i /\ 1 < i)
      BY ONLY <1>1
    <2> QED
      BY <1>1, <2>1
  <1>5. 1 \in at
    BY <1>1
  <1> HIDE DEF at, bt
  <1>6. q[1].n \in a + 1 .. b
    BY <1>2, <1>5
  <1>7. \A i \in at : i # 1 => q[1].n < q[i].n
    BY <1>2, <1>4, <1>5
  <1>8. q[1].n = a + 1
    <2>1. a + 1 \in a + 1 .. b
      BY <1>6
    <2>2. PICK i \in at : q[i].n = a + 1
      BY <1>2, <2>1
    <2>3. q[i].n = a + 1 /\ (i = 1 \/ q[1].n < q[i].n) /\ q[1].n \in Int /\ q[1].n >= a + 1
      BY <1>6, <1>7, <2>2
    <2> QED
      BY <2>3
  <1>9. {p[i].n : i \in bt} = a + 2 .. b
    <2>1. \A i \in bt : p[i].n \in a + 1 .. b /\ a + 1 < p[i].n
      BY <1>2, <1>3, <1>7, <1>8
    <2>2. \A k \in a + 2 .. b : \E i \in bt : p[i].n = k
      <3>1. TAKE k \in a + 2 .. b
      <3>2. k \in a + 1 .. b /\ k # a + 1
        OBVIOUS
      <3>3. PICK i \in at : q[i].n = k
        BY <1>2, <3>2
      <3>4. i # 1
        BY <1>8, <3>2, <3>3
      <3> QED
        BY <1>4, <3>3, <3>4
    <2>3. \A i \in bt : p[i].n \in a + 2 .. b
      BY <2>1
    <2> QED
      BY <2>2, <2>3
  <1>10. \A i, j \in bt : i < j => p[i].n < p[j].n
    <2>1. \A i, j \in bt : i < j => i + 1 < j + 1
      BY <1>3
    <2> QED
      BY <1>2, <1>3, <2>1
  <1>11. a + 1 <= b /\ a + 2 .. b = (a + 1) + 1 .. b
    BY <1>6
  <1>12. Carries(r, p, a + 1, b)
    BY <1>9, <1>10, <1>11 DEF Carries, bt
  <1> QED
    BY <1>1, <1>8, <1>11, <1>12 DEF p

-----------------------------------------------------------------------------
(* The inductive invariant: replies are kept by the tasks they are for.    *)

AllTo(r, msgs) == \A i \in DOMAIN msgs : IsReplyTo(r, msgs[i])
KeepsOwn(r) == AllTo(r, hand[r]) /\ (r \in DOMAIN ackMap => AllTo(r, ackMap[r]))

\* FollowsOn, with the values of the variables as parameters.
Chain(r, len, h, k, f, i, last) ==
  \E a, b, c \in 0..last :
    Carries(r, h, len, a) /\ Carries(r, k, a, b) /\ Carries(r, f, b, c) /\ Carries(r, i, c, last)

GotFirst(r) == got[r] = Count(Len(got[r])) /\ Len(got[r]) <= sent[r]

InServed(r) == task[r] \in Served

OrderInv ==
  \A r \in Req :
    /\ KeepsOwn(r) /\ GotFirst(r)
    /\ InServed(r) => Chain(r, Len(got[r]), hand[r], ackMap[r], front, inbox[Detokenizer], sent[r])

LEMMA OrderGivesProperty == OrderInv => RepliesInOrder
  BY DEF OrderInv, RepliesInOrder, FollowsOn, Chain, GotFirst, InServed, Served

LEMMA OrderInit == Init => OrderInv
  <1> SUFFICES ASSUME Init, NEW r \in Req
               PROVE  KeepsOwn(r) /\ GotFirst(r) /\ ~InServed(r)
    BY DEF OrderInv
  <1>1. hand[r] = <<>> /\ DOMAIN ackMap = {} /\ got[r] = <<>> /\ sent[r] = 0 /\ task[r] = "none"
    BY DEF Init, ServiceInit
  <1>2. DOMAIN <<>> = {} /\ Len(<<>>) = 0
    OBVIOUS
  <1>3. <<>> = Count(0)
    BY DEF Count
  <1> QED
    BY <1>1, <1>2, <1>3 DEF KeepsOwn, AllTo, GotFirst, InServed, Served

\* What is known of every request, as a basis for the steps.
LEMMA Basics ==
  ASSUME Types
  PROVE  /\ front \in Seq(Msgs) /\ front \in Seq(ReplyMsgs) /\ backend \in Seq(RequestMsgs)
         /\ \A w \in Worker : inbox[w] \in Seq(Msgs)
         /\ \A r \in Req : /\ hand[r] \in Seq(ReplyMsgs) /\ got[r] \in Seq(Nat)
                           /\ Len(got[r]) \in Nat /\ sent[r] \in Nat
                           /\ r \in DOMAIN ackMap => ackMap[r] \in Seq(ReplyMsgs)
                           /\ InServed(r) => r \in DOMAIN ackMap
  <1>1. \A S, T : S \subseteq T => Seq(S) \subseteq Seq(T)
    OBVIOUS
  <1>2. front \in Seq(Msgs)
    BY <1>1 DEF Types, ChannelType, Msgs
  <1>3. \A r \in Req : sent[r] \in Nat
    <2>1. \A r \in Req : sent[r] \in 0..MaxReplies
      BY DEF Types, ServiceType
    <2>2. 0..MaxReplies \subseteq Nat
      BY MaxRepliesAssumption
    <2> QED
      BY <2>1, <2>2
  <1> QED
    BY <1>2, <1>3 DEF Types, ServiceType, ApiType, ChannelType, TaskHolds, InServed

\* A request whose own state is left alone, and whose part of the channels.
LEMMA FrameOrder ==
  ASSUME OrderInv, NEW r \in Req,
         UNCHANGED <<hand[r], got[r], sent[r]>>,
         InServed(r)' => InServed(r),
         r \in DOMAIN ackMap' => r \in DOMAIN ackMap /\ ackMap'[r] = ackMap[r],
         InServed(r)' => r \in DOMAIN ackMap',
         \A b, c \in Nat : Carries(r, front, b, c) => Carries(r, front', b, c),
         \A b, c \in Nat : Carries(r, inbox[Detokenizer], b, c) => Carries(r, inbox'[Detokenizer], b, c),
         sent[r] \in Nat
  PROVE  /\ KeepsOwn(r)' /\ GotFirst(r)'
         /\ InServed(r)' =>
              Chain(r, Len(got'[r]), hand'[r], ackMap'[r], front', inbox'[Detokenizer], sent'[r])
  <1>1. KeepsOwn(r)' /\ GotFirst(r)'
    BY DEF OrderInv, KeepsOwn, GotFirst
  <1>2. ASSUME InServed(r)'
        PROVE Chain(r, Len(got'[r]), hand'[r], ackMap'[r], front', inbox'[Detokenizer], sent'[r])
    <2>1. Chain(r, Len(got[r]), hand[r], ackMap[r], front, inbox[Detokenizer], sent[r])
      BY <1>2 DEF OrderInv
    <2>2. PICK a, b, c \in 0..sent[r] :
            /\ Carries(r, hand[r], Len(got[r]), a) /\ Carries(r, ackMap[r], a, b)
            /\ Carries(r, front, b, c) /\ Carries(r, inbox[Detokenizer], c, sent[r])
      BY <2>1 DEF Chain
    <2>3. ackMap'[r] = ackMap[r] /\ a \in Nat /\ b \in Nat /\ c \in Nat
      BY <1>2
    <2>4. Carries(r, front', b, c) /\ Carries(r, inbox'[Detokenizer], c, sent[r])
      BY <2>2, <2>3
    <2> QED
      BY <2>2, <2>3, <2>4 DEF Chain
  <1> QED
    BY <1>1, <1>2

\* A request of a client in the detokenizer's queue changes nothing for the replies.
LEMMA RequestSent ==
  ASSUME Types, NEW w \in Worker, NEW m \in RequestMsgs, SendTo(w, m)
  PROVE  \A r \in Req : \A b, c \in Nat :
           Carries(r, inbox[Detokenizer], b, c) => Carries(r, inbox'[Detokenizer], b, c)
  <1>1. m \in Msgs /\ \A r \in Req : ~IsReplyTo(r, m)
    BY MsgFacts DEF Msgs, IsReplyTo
  <1>2. inbox'[Detokenizer] = IF Detokenizer = w THEN Append(inbox[Detokenizer], m) ELSE inbox[Detokenizer]
    BY <1>1, SendToFacts, Workers DEF Types
  <1>3. inbox[Detokenizer] \in Seq(Msgs)
    BY Basics, Workers
  <1> QED
    BY <1>1, <1>2, <1>3, CarriesOther

LEMMA ArriveOrder ==
  ASSUME Types, Types', ArrivalInv, OrderInv, NEW r \in Req, Arrive(r)
  PROVE  OrderInv'
  <1>1. PICK w \in Tokenizer : SendTo(w, Request("tokenize", r))
    BY DEF Arrive
  <1>2. \A u \in Req : \A b, c \in Nat :
          Carries(u, inbox[Detokenizer], b, c) => Carries(u, inbox'[Detokenizer], b, c)
    BY <1>1, RequestSent, RequestFacts, Workers
  <1>3. task[r] = "none"
    BY DEF Arrive, Types, ApiType, TaskHolds, Started
  <1>4. /\ UNCHANGED <<front, hand, got, sent>>
        /\ ackMap'[r] = <<>> /\ \A u \in Req : u # r /\ u \in DOMAIN ackMap' =>
             u \in DOMAIN ackMap /\ ackMap'[u] = ackMap[u]
        /\ \A u \in Req : u # r => task'[u] = task[u]
    BY DEF Arrive, serviceVars, Types, ApiType
  <1>5. ASSUME NEW u \in Req, u # r
        PROVE /\ KeepsOwn(u)' /\ GotFirst(u)'
              /\ InServed(u)' =>
                   Chain(u, Len(got'[u]), hand'[u], ackMap'[u], front', inbox'[Detokenizer], sent'[u])
    <2>1. InServed(u)' => InServed(u) /\ u \in DOMAIN ackMap'
      BY <1>4, <1>5, Basics DEF InServed, Arrive
    <2>2. sent[u] \in Nat
      BY Basics
    <2> QED
      BY <1>2, <1>4, <1>5, <2>1, <2>2, FrameOrder
  <1>6. /\ KeepsOwn(r)' /\ GotFirst(r)'
        /\ Chain(r, Len(got'[r]), hand'[r], ackMap'[r], front', inbox'[Detokenizer], sent'[r])
    <2>1. hand[r] = <<>> /\ got[r] = <<>> /\ sent[r] = 0
      BY <1>3 DEF ArrivalInv, Fresh, Started
    <2>2. DOMAIN <<>> = {} /\ Len(<<>>) = 0 /\ 0 \in Nat
      OBVIOUS
    <2>3. /\ \A i \in DOMAIN front : ~IsReplyTo(r, front[i])
          /\ \A i \in DOMAIN inbox[Detokenizer] : ~IsReplyTo(r, inbox[Detokenizer][i])
      BY <1>3, Workers DEF ArrivalInv, Covers, IsReplyTo
    <2>4. Carries(r, <<>>, 0, 0) /\ Carries(r, front, 0, 0) /\ Carries(r, inbox[Detokenizer], 0, 0)
      BY <2>2, <2>3, CarriesNone
    <2>5. Carries(r, inbox'[Detokenizer], 0, 0)
      BY <1>2, <2>2, <2>4
    <2>6. Chain(r, 0, <<>>, <<>>, front, inbox'[Detokenizer], 0)
      <3>1. 0 \in 0..0
        OBVIOUS
      <3> QED
        BY <2>4, <2>5, <3>1 DEF Chain
    <2>7. KeepsOwn(r)' /\ GotFirst(r)'
      BY <1>4, <2>1, <2>2 DEF KeepsOwn, AllTo, OrderInv, GotFirst
    <2> QED
      BY <1>4, <2>1, <2>2, <2>6, <2>7
  <1> QED
    BY <1>5, <1>6 DEF OrderInv

LEMMA ListenOrder ==
  ASSUME Types, Types', OrderInv, Listen
  PROVE  OrderInv'
  <1>m. front # <<>> /\ front \in Seq(ReplyMsgs) /\ Head(front) \in ReplyMsgs
    BY Basics, QueueFacts DEF Listen
  <1>n. PICK msg \in ReplyMsgs : msg = Head(front)
    BY <1>m
  <1>r. PICK r \in Req : r = msg.uid
    BY MsgFacts
  <1>1. msg.kind = "reply" /\ front # <<>> /\ front \in Seq(ReplyMsgs) /\ msg = Head(front)
    BY <1>m, <1>n, MsgFacts
  <1>2. IsReplyTo(r, msg) /\ \A u \in Req : u # r => ~IsReplyTo(u, msg)
    BY <1>1, <1>r DEF IsReplyTo
  <1>3. /\ front' = Tail(front)
        /\ UNCHANGED <<task, hand, got, sent, inbox>>
        /\ IF r \in DOMAIN ackMap THEN ackMap' = [ackMap EXCEPT ![r] = Append(@, msg)]
           ELSE UNCHANGED ackMap
    BY <1>n, <1>r DEF Listen, Known, serviceVars
  <1>4. \A u \in Req : u # r => \A b, c \in Nat : Carries(u, front, b, c) => Carries(u, front', b, c)
    BY <1>1, <1>2, <1>3, CarriesTail
  <1>5. ASSUME NEW u \in Req, u # r \/ r \notin DOMAIN ackMap
        PROVE /\ KeepsOwn(u)' /\ GotFirst(u)'
              /\ InServed(u)' =>
                   Chain(u, Len(got'[u]), hand'[u], ackMap'[u], front', inbox'[Detokenizer], sent'[u])
    <2>1. /\ InServed(u)' => InServed(u) /\ u \in DOMAIN ackMap'
          /\ u \in DOMAIN ackMap' => u \in DOMAIN ackMap /\ ackMap'[u] = ackMap[u]
      BY <1>3, <1>5, Basics DEF InServed
    <2>2. sent[u] \in Nat
      BY Basics
    <2>3. CASE u # r
      BY <1>3, <1>4, <2>1, <2>2, <2>3, FrameOrder
    <2>4. CASE u = r /\ r \notin DOMAIN ackMap
      <3>1. ~(InServed(u)') /\ u \notin DOMAIN ackMap'
        BY <1>3, <2>1, <2>4
      <3> QED
        BY <1>3, <3>1 DEF OrderInv, KeepsOwn, GotFirst
    <2> QED
      BY <1>5, <2>3, <2>4
  <1>6. ASSUME r \in DOMAIN ackMap
        PROVE /\ KeepsOwn(r)' /\ GotFirst(r)'
              /\ InServed(r)' =>
                   Chain(r, Len(got'[r]), hand'[r], ackMap'[r], front', inbox'[Detokenizer], sent'[r])
    <2>1. ackMap'[r] = Append(ackMap[r], msg) /\ ackMap[r] \in Seq(ReplyMsgs)
      BY <1>1, <1>3, <1>6, Basics
    <2>2. AllTo(r, Append(ackMap[r], msg))
      <3>1. AllTo(r, ackMap[r])
        BY <1>1, <1>6 DEF OrderInv, KeepsOwn
      <3>2. /\ DOMAIN Append(ackMap[r], msg) = 1..(Len(ackMap[r]) + 1)
            /\ Len(ackMap[r]) \in Nat /\ DOMAIN ackMap[r] = 1..Len(ackMap[r])
            /\ \A i \in DOMAIN ackMap[r] : Append(ackMap[r], msg)[i] = ackMap[r][i]
            /\ Append(ackMap[r], msg)[Len(ackMap[r]) + 1] = msg
        BY <1>1, <2>1, AppendFacts
      <3>3. \A i \in 1..(Len(ackMap[r]) + 1) : i \in 1..Len(ackMap[r]) \/ i = Len(ackMap[r]) + 1
        BY <3>2
      <3> QED
        BY <1>2, <3>1, <3>2, <3>3 DEF AllTo
    <2>3. KeepsOwn(r)' /\ GotFirst(r)'
      BY <1>1, <1>3, <2>1, <2>2 DEF OrderInv, KeepsOwn, GotFirst
    <2>4. ASSUME InServed(r)'
          PROVE Chain(r, Len(got'[r]), hand'[r], ackMap'[r], front', inbox'[Detokenizer], sent'[r])
      <3>1. InServed(r)
        BY <1>3, <2>4 DEF InServed
      <3>2. PICK a, b, c \in 0..sent[r] :
              /\ Carries(r, hand[r], Len(got[r]), a) /\ Carries(r, ackMap[r], a, b)
              /\ Carries(r, front, b, c) /\ Carries(r, inbox[Detokenizer], c, sent[r])
        BY <1>1, <3>1 DEF OrderInv, Chain
      <3>3. a \in Nat /\ b \in Nat /\ c \in Nat /\ sent[r] \in Nat
        BY <1>1, Basics
      <3>4. msg.n = b + 1 /\ b + 1 <= c /\ Carries(r, front', b + 1, c)
        BY <1>1, <1>2, <1>3, <3>2, <3>3, CarriesNext
      <3>5. Carries(r, ackMap'[r], a, b + 1)
        BY <1>1, <1>2, <2>1, <3>2, <3>3, <3>4, CarriesMore
      <3>6. b + 1 \in 0..sent[r]
        BY <3>2, <3>3, <3>4
      <3> QED
        BY <1>3, <3>2, <3>4, <3>5, <3>6 DEF Chain
    <2> QED
      BY <2>3, <2>4
  <1> QED
    BY <1>5, <1>6 DEF OrderInv

LEMMA WakeOrder ==
  ASSUME Types, Types', OrderInv, NEW r \in Req, Wake(r)
  PROVE  OrderInv'
  <1>1. /\ r \in DOMAIN ackMap /\ hand[r] = <<>> /\ InServed(r)
    BY DEF Wake, Types, ApiType, TaskHolds, InServed, Served
  <1>2. /\ UNCHANGED <<got, sent, front, inbox>>
        /\ hand'[r] = ackMap[r] /\ ackMap'[r] = <<>> /\ DOMAIN ackMap' = DOMAIN ackMap
        /\ \A u \in Req : u # r => hand'[u] = hand[u] /\ ackMap'[u] = ackMap[u] /\ task'[u] = task[u]
    BY <1>1 DEF Wake, ResetAcks, serviceVars, channelVars, Types, ApiType
  <1>3. ASSUME NEW u \in Req, u # r
        PROVE /\ KeepsOwn(u)' /\ GotFirst(u)'
              /\ InServed(u)' =>
                   Chain(u, Len(got'[u]), hand'[u], ackMap'[u], front', inbox'[Detokenizer], sent'[u])
    <2>1. InServed(u)' => InServed(u) /\ u \in DOMAIN ackMap'
      BY <1>2, <1>3, Basics DEF InServed
    <2>2. sent[u] \in Nat
      BY Basics
    <2> QED
      BY <1>2, <1>3, <2>1, <2>2, FrameOrder
  <1>4. /\ KeepsOwn(r)' /\ GotFirst(r)'
        /\ Chain(r, Len(got'[r]), hand'[r], ackMap'[r], front', inbox'[Detokenizer], sent'[r])
    <2>1. KeepsOwn(r)' /\ GotFirst(r)'
      <3>1. DOMAIN <<>> = {}
        OBVIOUS
      <3> QED
        BY <1>1, <1>2, <3>1 DEF OrderInv, KeepsOwn, GotFirst, AllTo
    <2>2. PICK a, b, c \in 0..sent[r] :
            /\ Carries(r, hand[r], Len(got[r]), a) /\ Carries(r, ackMap[r], a, b)
            /\ Carries(r, front, b, c) /\ Carries(r, inbox[Detokenizer], c, sent[r])
      BY <1>1 DEF OrderInv, Chain
    <2>3. a \in Nat /\ b \in Nat /\ c \in Nat /\ sent[r] \in Nat /\ Len(got[r]) \in Nat
      BY Basics
    <2>4. a = Len(got[r])
      BY <1>1, <2>2, <2>3, CarriesEmpty
    <2>5. Carries(r, <<>>, b, b)
      BY <2>3, CarriesNone
    <2> QED
      BY <1>2, <2>1, <2>2, <2>4, <2>5 DEF Chain
  <1> QED
    BY <1>3, <1>4 DEF OrderInv

LEMMA PassOnOrder ==
  ASSUME Types, Types', OrderInv, NEW r \in Req, PassOn(r)
  PROVE  OrderInv'
  <1>1. /\ r \in DOMAIN ackMap /\ hand[r] # <<>> /\ hand[r] \in Seq(ReplyMsgs) /\ InServed(r)
        /\ got[r] \in Seq(Nat) /\ Len(got[r]) \in Nat
    BY Basics DEF PassOn, Types, ApiType, TaskHolds, InServed, Served
  <1>2. PICK msg \in ReplyMsgs : msg = Head(hand[r])
    BY <1>1, QueueFacts
  <1>3. /\ UNCHANGED <<sent, front, inbox, ackMap>>
        /\ hand'[r] = Tail(hand[r]) /\ got'[r] = Append(got[r], msg.n)
        /\ \A u \in Req : u # r => hand'[u] = hand[u] /\ got'[u] = got[u] /\ task'[u] = task[u]
    BY <1>2 DEF PassOn, serviceVars, channelVars, Types, ApiType
  <1>4. ASSUME NEW u \in Req, u # r
        PROVE /\ KeepsOwn(u)' /\ GotFirst(u)'
              /\ InServed(u)' =>
                   Chain(u, Len(got'[u]), hand'[u], ackMap'[u], front', inbox'[Detokenizer], sent'[u])
    <2>1. InServed(u)' => InServed(u) /\ u \in DOMAIN ackMap'
      BY <1>3, <1>4, Basics DEF InServed
    <2>2. sent[u] \in Nat
      BY Basics
    <2> QED
      BY <1>3, <1>4, <2>1, <2>2, FrameOrder
  <1>5. /\ KeepsOwn(r)' /\ GotFirst(r)'
        /\ Chain(r, Len(got'[r]), hand'[r], ackMap'[r], front', inbox'[Detokenizer], sent'[r])
    <2>1. PICK a, b, c \in 0..sent[r] :
            /\ Carries(r, hand[r], Len(got[r]), a) /\ Carries(r, ackMap[r], a, b)
            /\ Carries(r, front, b, c) /\ Carries(r, inbox[Detokenizer], c, sent[r])
      BY <1>1 DEF OrderInv, Chain
    <2>2. a \in Nat /\ b \in Nat /\ c \in Nat /\ sent[r] \in Nat /\ a <= sent[r]
      BY Basics
    <2>3. IsReplyTo(r, msg)
      BY <1>1, <1>2, QueueFacts DEF OrderInv, KeepsOwn, AllTo
    <2>4. msg.n = Len(got[r]) + 1 /\ Len(got[r]) + 1 <= a /\ Carries(r, hand'[r], Len(got[r]) + 1, a)
      BY <1>1, <1>2, <1>3, <2>1, <2>2, <2>3, CarriesNext
    <2>5. /\ Len(got'[r]) = Len(got[r]) + 1
          /\ got'[r] = Count(Len(got[r]) + 1)
      <3>1. got[r] = [i \in 1..Len(got[r]) |-> i]
        BY DEF OrderInv, GotFirst, Count
      <3>2. got'[r] = Append(got[r], Len(got[r]) + 1)
        BY <1>3, <2>4
      <3> DEFINE g == got[r]
                 k == Len(got[r])
      <3>3. g \in Seq(Nat) /\ k \in Nat /\ k = Len(g) /\ g = [i \in 1..k |-> i] /\ k + 1 \in Nat
        BY <1>1, <3>1
      <3> HIDE DEF g, k
      <3>4. Len(Append(g, k + 1)) = k + 1
        BY ONLY <3>3
      <3>5. Append(g, k + 1) = [i \in 1..(k + 1) |-> i]
        BY ONLY <3>3
      <3> QED
        BY <3>2, <3>4, <3>5 DEF g, k, Count
    <2>6. Len(got'[r]) <= sent'[r]
      BY <1>1, <1>3, <2>2, <2>4, <2>5
    <2>7. AllTo(r, Tail(hand[r])) /\ AllTo(r, ackMap[r])
      BY <1>1, QueueFacts DEF OrderInv, KeepsOwn, AllTo
    <2>8. KeepsOwn(r)' /\ GotFirst(r)'
      BY <1>3, <2>5, <2>6, <2>7 DEF KeepsOwn, GotFirst
    <2> QED
      BY <1>3, <2>1, <2>4, <2>5, <2>8 DEF Chain
  <1> QED
    BY <1>4, <1>5 DEF OrderInv

\* A step that leaves the replies alone, and brings no request into service.
LEMMA OthersOrder ==
  ASSUME Types, Types', OrderInv, UNCHANGED <<hand, got, sent, front>>,
         \A u \in Req : InServed(u)' => InServed(u),
         \A u \in DOMAIN ackMap' : u \in DOMAIN ackMap /\ ackMap'[u] = ackMap[u],
         \A u \in Req : \A b, c \in Nat :
           Carries(u, inbox[Detokenizer], b, c) => Carries(u, inbox'[Detokenizer], b, c)
  PROVE  OrderInv'
  <1>1. ASSUME NEW u \in Req
        PROVE /\ KeepsOwn(u)' /\ GotFirst(u)'
              /\ InServed(u)' =>
                   Chain(u, Len(got'[u]), hand'[u], ackMap'[u], front', inbox'[Detokenizer], sent'[u])
    <2>1. sent[u] \in Nat /\ (InServed(u)' => u \in DOMAIN ackMap')
      BY Basics DEF Types, TaskHolds, InServed
    <2> QED
      BY <2>1, FrameOrder
  <1> QED
    BY <1>1 DEF OrderInv

LEMMA MovesOrder ==
  ASSUME Types, Types', OrderInv, NEW r \in Req,
         Close(r) \/ Disconnect(r) \/ CancelAtChunk(r) \/ CancelWaiting(r)
  PROVE  OrderInv'
  <1>1. UNCHANGED <<hand, got, sent, front, inbox, ackMap>>
    BY DEF Close, Disconnect, CancelAtChunk, CancelWaiting, CancelStream, channelVars, serviceVars
  <1>2. \A u \in Req : InServed(u)' => InServed(u)
    BY DEF Close, Disconnect, CancelAtChunk, CancelWaiting, CancelStream, InServed, Served, Types, ApiType
  <1> QED
    BY <1>1, <1>2, OthersOrder

LEMMA AbortUserOrder ==
  ASSUME Types, Types', OrderInv, NEW r \in Req, AbortUser(r)
  PROVE  OrderInv'
  <1>1. PICK w \in Tokenizer : SendTo(w, Request("abort", r))
    BY DEF AbortUser
  <1>2. \A u \in Req : \A b, c \in Nat :
          Carries(u, inbox[Detokenizer], b, c) => Carries(u, inbox'[Detokenizer], b, c)
    BY <1>1, RequestSent, RequestFacts, Workers
  <1>3. \A u \in Req : InServed(u)' => InServed(u)
    BY DEF AbortUser, InServed, Served, Types, ApiType
  <1>4. \A u \in DOMAIN ackMap' : u \in DOMAIN ackMap /\ ackMap'[u] = ackMap[u]
    BY DEF AbortUser, Restrict
  <1>5. UNCHANGED <<hand, got, sent, front>>
    BY DEF AbortUser, serviceVars
  <1> QED
    BY <1>2, <1>3, <1>4, <1>5, OthersOrder

LEMMA WorkOrder ==
  ASSUME Types, Types', ArrivalInv, OrderInv, NEW w \in Worker, Work(w)
  PROVE  OrderInv'
  <1>1. inbox[w] \in Seq(Msgs) /\ inbox[w] # <<>> /\ Head(inbox[w]) \in Msgs
    BY QueueFacts, Basics DEF Work
  <1>2. PICK msg \in Msgs : msg = Head(inbox[w])
    BY <1>1
  <1>3. PICK r \in Req : r = msg.uid
    BY MsgFacts
  <1>4. /\ \A v \in Worker : inbox'[v] = IF v = w THEN Tail(inbox[v]) ELSE inbox[v]
        /\ front' = IF msg.kind = "reply" THEN Append(front, msg) ELSE front
        /\ UNCHANGED <<task, ackMap, hand, got, sent>>
    BY <1>2 DEF Work, NextMsg, serviceVars, apiVars, Types, ChannelType
  <1>5. \A u \in Req : IsReplyTo(u, msg) <=> u = r /\ msg.kind = "reply"
    BY <1>3 DEF IsReplyTo
  <1>6. Detokenizer \in Worker /\ front \in Seq(Msgs)
    BY Workers, Basics
  <1>7. ASSUME NEW u \in Req, ~IsReplyTo(u, msg), NEW b \in Nat, NEW c \in Nat
        PROVE  /\ Carries(u, front, b, c) => Carries(u, front', b, c)
               /\ Carries(u, inbox[Detokenizer], b, c) => Carries(u, inbox'[Detokenizer], b, c)
    <2>1. Carries(u, front, b, c) => Carries(u, front', b, c)
      BY <1>4, <1>6, <1>7, CarriesOther
    <2>2. Carries(u, inbox[Detokenizer], b, c) => Carries(u, inbox'[Detokenizer], b, c)
      BY <1>1, <1>2, <1>4, <1>6, <1>7, CarriesTail
    <2> QED
      BY <2>1, <2>2
  <1>8. ASSUME NEW u \in Req, ~IsReplyTo(u, msg)
        PROVE /\ KeepsOwn(u)' /\ GotFirst(u)'
              /\ InServed(u)' =>
                   Chain(u, Len(got'[u]), hand'[u], ackMap'[u], front', inbox'[Detokenizer], sent'[u])
    <2>1. InServed(u)' => InServed(u) /\ u \in DOMAIN ackMap'
      BY <1>4, Basics DEF InServed
    <2>2. sent[u] \in Nat
      BY Basics
    <2> QED
      BY <1>4, <1>7, <1>8, <2>1, <2>2, FrameOrder
  <1>9. ASSUME msg.kind = "reply"
        PROVE /\ KeepsOwn(r)' /\ GotFirst(r)'
              /\ InServed(r)' =>
                   Chain(r, Len(got'[r]), hand'[r], ackMap'[r], front', inbox'[Detokenizer], sent'[r])
    <2>1. w = Detokenizer
      BY <1>1, <1>2, <1>9, QueueFacts DEF ArrivalInv, RepliesDown
    <2>2. KeepsOwn(r)' /\ GotFirst(r)'
      BY <1>4 DEF OrderInv, KeepsOwn, GotFirst
    <2>3. ASSUME InServed(r)'
          PROVE Chain(r, Len(got'[r]), hand'[r], ackMap'[r], front', inbox'[Detokenizer], sent'[r])
      <3>1. InServed(r)
        BY <1>4, <2>3 DEF InServed
      <3>2. PICK a, b, c \in 0..sent[r] :
              /\ Carries(r, hand[r], Len(got[r]), a) /\ Carries(r, ackMap[r], a, b)
              /\ Carries(r, front, b, c) /\ Carries(r, inbox[Detokenizer], c, sent[r])
        BY <3>1 DEF OrderInv, Chain
      <3>3. a \in Nat /\ b \in Nat /\ c \in Nat /\ sent[r] \in Nat
        BY Basics
      <3>4. IsReplyTo(r, msg) /\ inbox'[Detokenizer] = Tail(inbox[Detokenizer])
            /\ front' = Append(front, msg)
        BY <1>4, <1>5, <1>9, <2>1
      <3>5. msg.n = c + 1 /\ c + 1 <= sent[r] /\ Carries(r, inbox'[Detokenizer], c + 1, sent[r])
        BY <1>1, <1>2, <2>1, <3>2, <3>3, <3>4, CarriesNext
      <3>6. Carries(r, front', b, c + 1)
        BY <1>6, <3>2, <3>3, <3>4, <3>5, CarriesMore
      <3>7. c + 1 \in 0..sent[r]
        BY <3>3, <3>5
      <3> QED
        BY <1>4, <3>2, <3>5, <3>6, <3>7 DEF Chain
    <2> QED
      BY <2>2, <2>3
  <1> QED
    BY <1>5, <1>8, <1>9 DEF OrderInv

LEMMA HandleOrder ==
  ASSUME Types, Types', OrderInv, Handle
  PROVE  OrderInv'
  <1>1. UNCHANGED <<hand, got, sent, front, inbox, ackMap, task>>
    BY DEF Handle, Take, Drop, Abort, apiVars, serviceVars
  <1>2. \A u \in Req : InServed(u)' => InServed(u)
    BY <1>1 DEF InServed
  <1> QED
    BY <1>1, <1>2, OthersOrder

LEMMA RespondOrder ==
  ASSUME Types, Types', OrderInv, NEW r \in Req, Respond(r) \/ RespondLate(r)
  PROVE  OrderInv'
  <1>1. PICK last \in BOOLEAN :
          /\ sent[r] + 1 \in 1..MaxReplies
          /\ sent' = [sent EXCEPT ![r] = @ + 1]
          /\ Send(r, last)
          /\ UNCHANGED <<apiVars, backend, front, decodeMap>>
    BY RespondFacts
  <1>2. PICK msg \in Msgs : IsReplyTo(r, msg) /\ msg.n = sent[r] + 1 /\ SendTo(Detokenizer, msg)
    BY <1>1, ReplyFacts DEF Send
  <1>3. /\ inbox'[Detokenizer] = Append(inbox[Detokenizer], msg)
        /\ UNCHANGED <<task, ackMap, hand, got, front>>
        /\ sent'[r] = sent[r] + 1 /\ \A u \in Req : u # r => sent'[u] = sent[u]
    <2>1. inbox'[Detokenizer] = Append(inbox[Detokenizer], msg)
      BY <1>2, SendToFacts, Workers DEF Types
    <2> QED
      BY <1>1, <2>1 DEF apiVars, Types, ServiceType
  <1>4. inbox[Detokenizer] \in Seq(Msgs)
    BY Basics, Workers
  <1>5. ASSUME NEW u \in Req, u # r
        PROVE /\ KeepsOwn(u)' /\ GotFirst(u)'
              /\ InServed(u)' =>
                   Chain(u, Len(got'[u]), hand'[u], ackMap'[u], front', inbox'[Detokenizer], sent'[u])
    <2>1. InServed(u)' => InServed(u) /\ u \in DOMAIN ackMap'
      BY <1>3, Basics DEF InServed
    <2>2. sent[u] \in Nat /\ ~IsReplyTo(u, msg)
      BY <1>2, <1>5, Basics DEF IsReplyTo
    <2>3. \A b, c \in Nat : Carries(u, inbox[Detokenizer], b, c) => Carries(u, inbox'[Detokenizer], b, c)
      BY <1>3, <1>4, <2>2, CarriesOther
    <2> QED
      BY <1>3, <1>5, <2>1, <2>2, <2>3, FrameOrder
  <1>6. /\ KeepsOwn(r)' /\ GotFirst(r)'
        /\ InServed(r)' =>
             Chain(r, Len(got'[r]), hand'[r], ackMap'[r], front', inbox'[Detokenizer], sent'[r])
    <2>1. sent[r] \in Nat /\ Len(got[r]) \in Nat
      BY Basics
    <2>2. KeepsOwn(r)' /\ GotFirst(r)'
      BY <1>3, <2>1 DEF OrderInv, KeepsOwn, GotFirst
    <2>3. ASSUME InServed(r)'
          PROVE Chain(r, Len(got'[r]), hand'[r], ackMap'[r], front', inbox'[Detokenizer], sent'[r])
      <3>1. InServed(r)
        BY <1>3, <2>3 DEF InServed
      <3>2. PICK a, b, c \in 0..sent[r] :
              /\ Carries(r, hand[r], Len(got[r]), a) /\ Carries(r, ackMap[r], a, b)
              /\ Carries(r, front, b, c) /\ Carries(r, inbox[Detokenizer], c, sent[r])
        BY <3>1 DEF OrderInv, Chain
      <3>3. a \in 0..sent'[r] /\ b \in 0..sent'[r] /\ c \in 0..sent'[r] /\ c \in Nat
        BY <1>3, <2>1
      <3>4. Carries(r, inbox'[Detokenizer], c, sent'[r])
        BY <1>2, <1>3, <1>4, <2>1, <3>2, <3>3, CarriesMore
      <3> QED
        BY <1>3, <3>2, <3>3, <3>4 DEF Chain
    <2> QED
      BY <2>2, <2>3
  <1> QED
    BY <1>5, <1>6 DEF OrderInv

LEMMA OrderNext == Types /\ Types' /\ ArrivalInv /\ OrderInv /\ [Next]_vars => OrderInv'
  <1> SUFFICES ASSUME Types, Types', ArrivalInv, OrderInv, [Next]_vars PROVE OrderInv'
    OBVIOUS
  <1>1. CASE Listen
    BY <1>1, ListenOrder
  <1>2. CASE Handle
    BY <1>2, HandleOrder
  <1>3. CASE Rest \/ UNCHANGED vars
    <2>1. UNCHANGED <<hand, got, sent, front, inbox, ackMap, task>>
      BY <1>3 DEF Rest, vars, apiVars, channelVars, serviceVars
    <2>2. \A u \in Req : InServed(u)' => InServed(u)
      BY <2>1 DEF InServed
    <2> QED
      BY <2>1, <2>2, OthersOrder
  <1>4. ASSUME NEW w \in Worker, Work(w) PROVE OrderInv'
    BY <1>4, WorkOrder
  <1>5. ASSUME NEW r \in Req,
               \/ Arrive(r) \/ Wake(r) \/ PassOn(r) \/ Close(r)
               \/ Disconnect(r) \/ CancelAtChunk(r) \/ CancelWaiting(r) \/ AbortUser(r)
               \/ Respond(r) \/ RespondLate(r)
        PROVE  OrderInv'
    BY <1>5, ArriveOrder, WakeOrder, PassOnOrder, MovesOrder, AbortUserOrder, RespondOrder
  <1> QED
    BY <1>1, <1>2, <1>3, <1>4, <1>5 DEF Next

\* Every reply of the scheduler reaches its client once and in order: through two queues, a
\* list that a listener appends to and a task empties, and for as long as it is served.
THEOREM RepliesArrive == Spec => []RepliesInOrder
  <1>1. Types /\ ArrivalInv /\ OrderInv /\ [Next]_vars => (Types /\ ArrivalInv /\ OrderInv)'
    BY TypesNext, ArrivalNext, OrderNext
  <1>2. Init => Types /\ ArrivalInv /\ OrderInv
    BY TypesInit, ArrivalInit, OrderInit
  <1> QED
    BY <1>1, <1>2, OrderGivesProperty, PTL DEF Spec

-----------------------------------------------------------------------------
(* The detokenizer forgets what is over.                                   *)

NoneTo(r, q) == \A i \in DOMAIN q : ~IsReplyTo(r, q[i])

\* The last reply to r in q is the one that says finished.
EndsIn(r, q) ==
  \E i \in DOMAIN q :
    IsReplyTo(r, q[i]) /\ q[i].last = TRUE /\ \A j \in DOMAIN q : j > i => ~IsReplyTo(r, q[j])

Ended(r) == phase[r] = "done" /\ late[r] = 0

DecodeInv ==
  \A r \in Req : Ended(r) =>
    \/ EndsIn(r, inbox[Detokenizer])
    \/ r \notin decodeMap /\ NoneTo(r, inbox[Detokenizer])

LEMMA DecodeGivesProperty == Types /\ DecodeInv => DecodeStateGoes
  BY DEF Types, ChannelType, DecodeInv, DecodeStateGoes, Ended, EndsIn

LEMMA EndsAppend ==
  ASSUME NEW q \in Seq(Msgs), NEW m \in Msgs, NEW r
  PROVE  /\ EndsIn(r, q) /\ ~IsReplyTo(r, m) => EndsIn(r, Append(q, m))
         /\ NoneTo(r, q) /\ ~IsReplyTo(r, m) => NoneTo(r, Append(q, m))
         /\ IsReplyTo(r, m) /\ m.last = TRUE => EndsIn(r, Append(q, m))
  <1> DEFINE p == Append(q, m)
             z == Len(q) + 1
  <1>1. /\ DOMAIN p = 1..z /\ Len(q) \in Nat /\ DOMAIN q = 1..Len(q)
        /\ \A i \in DOMAIN q : p[i] = q[i]
        /\ p[z] = m
    BY AppendFacts
  <1> HIDE DEF p
  <1>2. /\ \A i \in DOMAIN p : i \in DOMAIN q \/ i = z
        /\ DOMAIN q \subseteq DOMAIN p /\ z \in DOMAIN p
        /\ \A j \in DOMAIN p : ~(j > z)
    BY ONLY <1>1
  <1> HIDE DEF z
  <1>3. EndsIn(r, q) /\ ~IsReplyTo(r, m) => EndsIn(r, p)
    BY <1>1, <1>2 DEF EndsIn
  <1>4. NoneTo(r, q) /\ ~IsReplyTo(r, m) => NoneTo(r, p)
    BY <1>1, <1>2 DEF NoneTo
  <1>5. IsReplyTo(r, m) /\ m.last = TRUE => EndsIn(r, p)
    BY <1>1, <1>2 DEF EndsIn
  <1> QED
    BY <1>3, <1>4, <1>5 DEF p

LEMMA EndsTail ==
  ASSUME NEW q \in Seq(Msgs), q # <<>>, NEW r
  PROVE  /\ EndsIn(r, q) =>
              \/ EndsIn(r, Tail(q))
              \/ IsReplyTo(r, Head(q)) /\ Head(q).last = TRUE /\ NoneTo(r, Tail(q))
         /\ NoneTo(r, q) => NoneTo(r, Tail(q)) /\ ~IsReplyTo(r, Head(q))
  <1> DEFINE p == Tail(q)
  <1>1. /\ DOMAIN p = 1..(Len(q) - 1) /\ Len(q) \in Nat /\ DOMAIN q = 1..Len(q)
        /\ \A i \in DOMAIN p : i + 1 \in DOMAIN q /\ p[i] = q[i + 1]
        /\ Head(q) = q[1] /\ 1 \in DOMAIN q
    BY QueueFacts
  <1> HIDE DEF p
  <1>2. NoneTo(r, q) => NoneTo(r, p) /\ ~IsReplyTo(r, Head(q))
    BY <1>1 DEF NoneTo
  <1>3. ASSUME EndsIn(r, q)
        PROVE  EndsIn(r, p) \/ (IsReplyTo(r, Head(q)) /\ Head(q).last = TRUE /\ NoneTo(r, p))
    <2>1. PICK i \in DOMAIN q :
            IsReplyTo(r, q[i]) /\ q[i].last = TRUE /\ \A j \in DOMAIN q : j > i => ~IsReplyTo(r, q[j])
      BY <1>3 DEF EndsIn
    <2>2. CASE i = 1
      <3>1. \A j \in DOMAIN p : j + 1 > i
        BY ONLY <1>1, <2>2
      <3> QED
        BY <1>1, <2>1, <2>2, <3>1 DEF NoneTo
    <2>3. CASE i # 1
      <3>1. i - 1 \in DOMAIN p /\ (i - 1) + 1 = i
        BY ONLY <1>1, <2>3, i \in DOMAIN q
      <3>2. \A j \in DOMAIN p : j > i - 1 => j + 1 > i
        BY ONLY <1>1, i \in DOMAIN q
      <3>3. p[i - 1] = q[i]
        BY <1>1, <3>1
      <3>4. \A j \in DOMAIN p : j > i - 1 => ~IsReplyTo(r, p[j])
        BY <1>1, <2>1, <3>2
      <3> QED
        BY <2>1, <3>1, <3>3, <3>4 DEF EndsIn
    <2> QED
      BY <2>2, <2>3
  <1> QED
    BY <1>2, <1>3 DEF p

LEMMA DecodeInit == Init => DecodeInv
  BY DEF Init, ServiceInit, DecodeInv, Ended

\* A step that ends no request and sends the detokenizer nothing but requests.
LEMMA OthersDecode ==
  ASSUME DecodeInv, \A r \in Req : Ended(r)' => Ended(r), decodeMap' = decodeMap,
         \A r \in Req : /\ EndsIn(r, inbox[Detokenizer]) => EndsIn(r, inbox'[Detokenizer])
                        /\ NoneTo(r, inbox[Detokenizer]) => NoneTo(r, inbox'[Detokenizer])
  PROVE  DecodeInv'
  BY DEF DecodeInv

LEMMA SendKeepsEnds ==
  ASSUME Types, NEW w \in Worker, NEW m \in RequestMsgs, SendTo(w, m)
  PROVE  \A r \in Req : /\ EndsIn(r, inbox[Detokenizer]) => EndsIn(r, inbox'[Detokenizer])
                        /\ NoneTo(r, inbox[Detokenizer]) => NoneTo(r, inbox'[Detokenizer])
  <1>1. m \in Msgs /\ \A r \in Req : ~IsReplyTo(r, m)
    BY MsgFacts DEF Msgs, IsReplyTo
  <1>2. inbox'[Detokenizer] = IF Detokenizer = w THEN Append(inbox[Detokenizer], m) ELSE inbox[Detokenizer]
    BY <1>1, SendToFacts, Workers DEF Types
  <1>3. inbox[Detokenizer] \in Seq(Msgs)
    BY Basics, Workers
  <1> QED
    BY <1>1, <1>2, <1>3, EndsAppend

LEMMA DecodeNext == Types /\ ArrivalInv /\ DecodeInv /\ [Next]_vars => DecodeInv'
  <1> SUFFICES ASSUME Types, ArrivalInv, DecodeInv, [Next]_vars PROVE DecodeInv'
    OBVIOUS
  <1>1. ASSUME UNCHANGED <<phase, late, inbox, decodeMap>> PROVE DecodeInv'
    BY <1>1, OthersDecode DEF Ended
  <1>2. ASSUME NEW r \in Req, Arrive(r) PROVE DecodeInv'
    <2>1. PICK w \in Tokenizer : SendTo(w, Request("tokenize", r))
      BY <1>2 DEF Arrive
    <2>2. UNCHANGED <<phase, late, decodeMap>>
      BY <1>2 DEF Arrive, serviceVars
    <2>3. \A u \in Req : /\ EndsIn(u, inbox[Detokenizer]) => EndsIn(u, inbox'[Detokenizer])
                         /\ NoneTo(u, inbox[Detokenizer]) => NoneTo(u, inbox'[Detokenizer])
      BY <2>1, SendKeepsEnds, RequestFacts, Workers
    <2> QED
      BY <2>2, <2>3, OthersDecode DEF Ended
  <1>3. ASSUME NEW r \in Req, AbortUser(r) PROVE DecodeInv'
    <2>1. PICK w \in Tokenizer : SendTo(w, Request("abort", r))
      BY <1>3 DEF AbortUser
    <2>2. UNCHANGED <<phase, late, decodeMap>>
      BY <1>3 DEF AbortUser, serviceVars
    <2>3. \A u \in Req : /\ EndsIn(u, inbox[Detokenizer]) => EndsIn(u, inbox'[Detokenizer])
                         /\ NoneTo(u, inbox[Detokenizer]) => NoneTo(u, inbox'[Detokenizer])
      BY <2>1, SendKeepsEnds, RequestFacts, Workers
    <2> QED
      BY <2>2, <2>3, OthersDecode DEF Ended
  <1>4. ASSUME NEW w \in Worker, Work(w) PROVE DecodeInv'
    <2>1. inbox[w] \in Seq(Msgs) /\ inbox[w] # <<>> /\ Head(inbox[w]) \in Msgs
      BY <1>4, QueueFacts, Basics DEF Work
    <2>2. PICK msg \in Msgs : msg = Head(inbox[w])
      BY <2>1
    <2>3. /\ \A v \in Worker : inbox'[v] = IF v = w THEN Tail(inbox[v]) ELSE inbox[v]
          /\ decodeMap' = IF msg.kind = "reply" THEN Decoding(msg) ELSE decodeMap
          /\ UNCHANGED <<phase, late>>
      BY <1>4, <2>2 DEF Work, NextMsg, serviceVars, Types, ChannelType
    <2>4. Detokenizer \in Worker
      BY Workers
    <2>5. CASE msg.kind # "reply"
      <3>1. \A u \in Req : ~IsReplyTo(u, msg)
        BY <2>5 DEF IsReplyTo
      <3>2. \A u \in Req : /\ EndsIn(u, inbox[Detokenizer]) => EndsIn(u, inbox'[Detokenizer])
                           /\ NoneTo(u, inbox[Detokenizer]) => NoneTo(u, inbox'[Detokenizer])
        <4>1. CASE w = Detokenizer
          <5>1. inbox'[Detokenizer] = Tail(inbox[w]) /\ inbox[Detokenizer] = inbox[w]
            BY <2>3, <2>4, <4>1
          <5>2. ASSUME NEW u \in Req
                PROVE /\ EndsIn(u, inbox[w]) => EndsIn(u, Tail(inbox[w]))
                      /\ NoneTo(u, inbox[w]) => NoneTo(u, Tail(inbox[w]))
            BY <2>1, <2>2, <3>1, EndsTail
          <5> QED
            BY <5>1, <5>2
        <4>2. CASE w # Detokenizer
          BY <2>3, <2>4, <4>2
        <4> QED
          BY <4>1, <4>2
      <3> QED
        BY <2>3, <2>5, <3>2, OthersDecode DEF Ended
    <2>6. CASE msg.kind = "reply"
      <3>1. w = Detokenizer
        BY <2>1, <2>2, <2>6, QueueFacts DEF ArrivalInv, RepliesDown
      <3>2. inbox'[Detokenizer] = Tail(inbox[Detokenizer])
        BY <2>3, <3>1
      <3>3. ASSUME NEW u \in Req, Ended(u)'
            PROVE  \/ EndsIn(u, inbox'[Detokenizer])
                   \/ u \notin decodeMap' /\ NoneTo(u, inbox'[Detokenizer])
        <4>1. Ended(u)
          BY <2>3, <3>3 DEF Ended
        <4>2. CASE EndsIn(u, inbox[Detokenizer])
          <5>1. CASE EndsIn(u, Tail(inbox[Detokenizer]))
            BY <3>2, <5>1
          <5>2. CASE IsReplyTo(u, msg) /\ msg.last = TRUE /\ NoneTo(u, Tail(inbox[Detokenizer]))
            BY <2>3, <2>6, <3>2, <5>2 DEF Decoding, IsReplyTo
          <5> QED
            BY <2>1, <2>2, <3>1, <4>2, <5>1, <5>2, EndsTail
        <4>3. CASE u \notin decodeMap /\ NoneTo(u, inbox[Detokenizer])
          <5>1. NoneTo(u, Tail(inbox[Detokenizer])) /\ ~IsReplyTo(u, msg)
            BY <2>1, <2>2, <3>1, <4>3, EndsTail
          <5>2. u \notin decodeMap'
            BY <2>3, <2>6, <4>3, <5>1 DEF Decoding, IsReplyTo
          <5> QED
            BY <3>2, <5>1, <5>2
        <4> QED
          BY <4>1, <4>2, <4>3 DEF DecodeInv
      <3> QED
        BY <3>3 DEF DecodeInv
    <2> QED
      BY <2>5, <2>6
  <1>5. CASE Handle
    <2>1. \A u \in Req : Ended(u)' => Ended(u)
      BY <1>5 DEF Handle, Take, Drop, Abort, Ended, serviceVars, Types, ServiceType
    <2>2. UNCHANGED <<inbox, decodeMap>>
      BY <1>5 DEF Handle
    <2> QED
      BY <2>1, <2>2, OthersDecode
  <1>6. ASSUME NEW r \in Req, Respond(r) \/ RespondLate(r) PROVE DecodeInv'
    <2>1. PICK last \in BOOLEAN :
            /\ sent[r] + 1 \in 1..MaxReplies
            /\ Send(r, last)
            /\ (Answer(r, last) /\ Respond(r)) \/ AnswerLate(r)
            /\ UNCHANGED <<apiVars, backend, front, decodeMap>>
      BY <1>6, RespondFacts
    <2>2. PICK msg \in Msgs : IsReplyTo(r, msg) /\ msg.last = last /\ SendTo(Detokenizer, msg)
      BY <2>1, ReplyFacts DEF Send
    <2>3. inbox'[Detokenizer] = Append(inbox[Detokenizer], msg)
      BY <2>2, SendToFacts, Workers DEF Types
    <2>4. inbox[Detokenizer] \in Seq(Msgs)
      BY Basics, Workers
    <2>5. \A u \in Req : u # r => phase'[u] = phase[u] /\ late'[u] = late[u] /\ ~IsReplyTo(u, msg)
      BY <2>1, <2>2 DEF Answer, AnswerLate, Types, ServiceType, IsReplyTo
    <2>6. Ended(r)' => last = TRUE
      BY <2>1 DEF Answer, AnswerLate, Ended, Types, ServiceType
    <2>7. ASSUME NEW u \in Req, Ended(u)'
          PROVE  \/ EndsIn(u, inbox'[Detokenizer])
                 \/ u \notin decodeMap' /\ NoneTo(u, inbox'[Detokenizer])
      <3>1. CASE u = r
        BY <2>2, <2>3, <2>4, <2>6, <2>7, <3>1, EndsAppend
      <3>2. CASE u # r
        <4>1. Ended(u)
          BY <2>5, <2>7, <3>2 DEF Ended
        <4> QED
          BY <2>1, <2>3, <2>4, <2>5, <3>2, <4>1, EndsAppend DEF DecodeInv
      <3> QED
        BY <3>1, <3>2
    <2> QED
      BY <2>7 DEF DecodeInv
  <1>7. CASE Listen \/ Rest \/ UNCHANGED vars
    BY <1>1, <1>7 DEF Listen, Rest, vars, apiVars, channelVars, serviceVars
  <1>8. ASSUME NEW r \in Req,
               Wake(r) \/ PassOn(r) \/ Close(r) \/ Disconnect(r) \/ CancelAtChunk(r) \/ CancelWaiting(r)
        PROVE  DecodeInv'
    BY <1>1, <1>8 DEF Wake, PassOn, Close, Disconnect, CancelAtChunk, CancelWaiting, CancelStream,
         channelVars, serviceVars
  <1> QED
    BY <1>2, <1>3, <1>4, <1>5, <1>6, <1>7, <1>8 DEF Next

\* Once the detokenizer has seen the finished reply of a request it keeps nothing of it,
\* unless a late reply or an abort came behind.
THEOREM DecodeStateForgotten == Spec => []DecodeStateGoes
  <1>1. Types /\ ArrivalInv /\ DecodeInv /\ [Next]_vars => (Types /\ ArrivalInv /\ DecodeInv)'
    BY TypesNext, ArrivalNext, DecodeNext
  <1>2. Init => Types /\ ArrivalInv /\ DecodeInv
    BY TypesInit, ArrivalInit, DecodeInit
  <1> QED
    BY <1>1, <1>2, DecodeGivesProperty, PTL DEF Spec

-----------------------------------------------------------------------------
(* An abort does not overtake its request, if there is one way for both.   *)

\* Of two requests of one client the tokenize request goes first, the abort second.
Precedes(m, k) ==
  m.uid = k.uid /\ m.kind # "reply" /\ k.kind # "reply" => m.kind = "tokenize" /\ k.kind = "abort"

InOrder(q) == \A i, j \in DOMAIN q : i < j => Precedes(q[i], q[j])
AllBefore(p, q) == \A i \in DOMAIN p, j \in DOMAIN q : Precedes(p[i], q[j])
Has(q, kind, r) == \E i \in DOMAIN q : q[i].kind = kind /\ q[i].uid = r

\* The worker all requests go through.
Only == IF NumTokenizers = 0 THEN Detokenizer ELSE 1

OnWay(kind, r) == Has(backend, kind, r) \/ Has(inbox[Only], kind, r)

WayInv ==
  /\ InOrder(backend) /\ InOrder(inbox[Only]) /\ AllBefore(backend, inbox[Only])
  /\ \A w \in Worker : w # Only => \A i \in DOMAIN inbox[w] : inbox[w][i].kind = "reply"

\* Where a request stands says what of it is on its way.
StandsAt(r) ==
  /\ OnWay("tokenize", r) => phase[r] = "absent"
  /\ Started(r) /\ phase[r] = "absent" => OnWay("tokenize", r)
  /\ OnWay("abort", r) => task[r] = "aborted" /\ phase[r] # "aborted"
  /\ task[r] = "aborted" => OnWay("abort", r) \/ phase[r] = "aborted"
  /\ phase[r] = "aborted" => task[r] = "aborted"

AbortInv == WayInv /\ \A r \in Req : StandsAt(r)

LEMMA OneWay ==
  ASSUME NumTokenizers <= 1
  PROVE  Tokenizer = {Only} /\ Only \in Worker
  BY NumTokenizersAssumption DEF Tokenizer, Only, Worker, Detokenizer

LEMMA AbortGivesProperty ==
  ASSUME NumTokenizers <= 1, Types, AbortInv
  PROVE  AbortIsFinal
  <1>1. Only \in Worker
    BY OneWay
  <1>2. ASSUME NEW r \in Req, task[r] = "aborted", OnItsWay(r) = {}
        PROVE  phase[r] \notin {"absent", "active"}
    <2>1. ~OnWay("abort", r)
      <3>1. ASSUME NEW i \in DOMAIN backend, backend[i].kind = "abort", backend[i].uid = r PROVE FALSE
        <4>1. backend[i] \in OnItsWay(r)
          BY <3>1 DEF OnItsWay, ToSet
        <4> QED
          BY <1>2, <4>1
      <3>2. ASSUME NEW i \in DOMAIN inbox[Only], inbox[Only][i].kind = "abort", inbox[Only][i].uid = r
            PROVE FALSE
        <4>1. inbox[Only][i] \in OnItsWay(r)
          BY <1>1, <3>2 DEF OnItsWay, ToSet
        <4> QED
          BY <1>2, <4>1
      <3> QED
        BY <3>1, <3>2 DEF OnWay, Has
    <2>2. phase[r] = "aborted"
      BY <1>2, <2>1 DEF AbortInv, StandsAt
    <2> QED
      BY <2>2
  <1> QED
    BY <1>2 DEF AbortIsFinal

\* A queue that gets one message more.
LEMMA OrderAppend ==
  ASSUME NEW q \in Seq(Msgs), NEW m \in Msgs
  PROVE  /\ InOrder(q) /\ (\A i \in DOMAIN q : Precedes(q[i], m)) => InOrder(Append(q, m))
         /\ \A p : AllBefore(p, q) /\ (\A i \in DOMAIN p : Precedes(p[i], m)) => AllBefore(p, Append(q, m))
         /\ \A p : AllBefore(q, p) /\ (\A i \in DOMAIN p : Precedes(m, p[i])) => AllBefore(Append(q, m), p)
         /\ \A r, kind : Has(Append(q, m), kind, r) <=> Has(q, kind, r) \/ (m.kind = kind /\ m.uid = r)
  <1> DEFINE z == Len(q) + 1
             e == Append(q, m)
  <1>1. /\ DOMAIN e = 1..z /\ Len(q) \in Nat /\ DOMAIN q = 1..Len(q)
        /\ \A i \in DOMAIN q : e[i] = q[i]
        /\ e[z] = m
    BY AppendFacts
  <1> HIDE DEF e
  <1>2. /\ \A i \in DOMAIN e : i \in DOMAIN q \/ i = z
        /\ DOMAIN q \subseteq DOMAIN e /\ z \in DOMAIN e
        /\ \A i, j \in DOMAIN e : i < j => i \in DOMAIN q
    BY ONLY <1>1
  <1> HIDE DEF z
  <1>3. InOrder(q) /\ (\A i \in DOMAIN q : Precedes(q[i], m)) => InOrder(e)
    BY <1>1, <1>2 DEF InOrder
  <1>4. \A p : AllBefore(p, q) /\ (\A i \in DOMAIN p : Precedes(p[i], m)) => AllBefore(p, e)
    BY <1>1, <1>2 DEF AllBefore
  <1>5. \A p : AllBefore(q, p) /\ (\A i \in DOMAIN p : Precedes(m, p[i])) => AllBefore(e, p)
    BY <1>1, <1>2 DEF AllBefore
  <1>6. \A r, kind : Has(e, kind, r) <=> Has(q, kind, r) \/ (m.kind = kind /\ m.uid = r)
    BY <1>1, <1>2 DEF Has
  <1> QED
    BY <1>3, <1>4, <1>5, <1>6 DEF e

\* A queue whose first message is taken.
LEMMA OrderTail ==
  ASSUME NEW q \in Seq(Msgs), q # <<>>
  PROVE  /\ InOrder(q) => InOrder(Tail(q)) /\ \A i \in DOMAIN Tail(q) : Precedes(Head(q), Tail(q)[i])
         /\ \A p : AllBefore(p, q) => AllBefore(p, Tail(q)) /\ \A i \in DOMAIN p : Precedes(p[i], Head(q))
         /\ \A p : AllBefore(q, p) => AllBefore(Tail(q), p) /\ \A i \in DOMAIN p : Precedes(Head(q), p[i])
         /\ \A r, kind : Has(q, kind, r) <=> Has(Tail(q), kind, r) \/ (Head(q).kind = kind /\ Head(q).uid = r)
  <1> DEFINE e == Tail(q)
  <1>1. /\ DOMAIN e = 1..(Len(q) - 1) /\ Len(q) \in Nat /\ DOMAIN q = 1..Len(q)
        /\ \A i \in DOMAIN e : i + 1 \in DOMAIN q /\ e[i] = q[i + 1]
        /\ Head(q) = q[1] /\ 1 \in DOMAIN q
    BY QueueFacts
  <1> HIDE DEF e
  <1>2. /\ \A i \in DOMAIN q : i = 1 \/ (i - 1 \in DOMAIN e /\ (i - 1) + 1 = i)
        /\ \A i, j \in DOMAIN e : i < j => i + 1 < j + 1
        /\ \A i \in DOMAIN e : 1 < i + 1
    BY ONLY <1>1
  <1>3. \A i \in DOMAIN q : i = 1 \/ \E j \in DOMAIN e : e[j] = q[i]
    BY <1>1, <1>2
  <1>4. InOrder(q) => InOrder(e) /\ \A i \in DOMAIN e : Precedes(Head(q), e[i])
    BY <1>1, <1>2 DEF InOrder
  <1>5. \A p : AllBefore(p, q) => AllBefore(p, e) /\ \A i \in DOMAIN p : Precedes(p[i], Head(q))
    BY <1>1 DEF AllBefore
  <1>6. \A p : AllBefore(q, p) => AllBefore(e, p) /\ \A i \in DOMAIN p : Precedes(Head(q), p[i])
    BY <1>1 DEF AllBefore
  <1>7. \A r, kind : Has(q, kind, r) <=> Has(e, kind, r) \/ (Head(q).kind = kind /\ Head(q).uid = r)
    <2>1. ASSUME NEW r, NEW kind, Has(q, kind, r)
          PROVE  Has(e, kind, r) \/ (Head(q).kind = kind /\ Head(q).uid = r)
      BY <1>1, <1>3, <2>1 DEF Has
    <2>2. ASSUME NEW r, NEW kind, Has(e, kind, r) \/ (Head(q).kind = kind /\ Head(q).uid = r)
          PROVE  Has(q, kind, r)
      BY <1>1, <2>2 DEF Has
    <2> QED
      BY <2>1, <2>2
  <1> QED
    BY <1>4, <1>5, <1>6, <1>7 DEF e

LEMMA AbortInit ==
  ASSUME NumTokenizers <= 1, Init
  PROVE  AbortInv
  <1>1. Only \in Worker
    BY OneWay
  <1>2. backend = <<>> /\ \A w \in Worker : inbox[w] = <<>>
    BY DEF Init
  <1>3. DOMAIN <<>> = {}
    OBVIOUS
  <1>4. WayInv
    BY <1>1, <1>2, <1>3 DEF WayInv, InOrder, AllBefore
  <1>5. \A r \in Req : StandsAt(r)
    BY <1>1, <1>2, <1>3 DEF Init, ServiceInit, StandsAt, OnWay, Has, Started
  <1> QED
    BY <1>4, <1>5 DEF AbortInv

LEMMA SendWay ==
  ASSUME NumTokenizers <= 1, Types, WayInv, NEW w \in Worker, NEW m \in Msgs, SendTo(w, m),
         w # Only => m.kind = "reply", UNCHANGED backend,
         \A i \in DOMAIN backend : Precedes(backend[i], m),
         \A i \in DOMAIN inbox[Only] : Precedes(inbox[Only][i], m)
  PROVE  /\ WayInv'
         /\ \A r \in Req : \A kind \in {"tokenize", "abort"} :
              OnWay(kind, r)' <=> OnWay(kind, r) \/ (m.kind = kind /\ m.uid = r)
  <1>1. Only \in Worker
    BY OneWay
  <1>2. \A v \in Worker : inbox'[v] = IF v = w THEN Append(inbox[v], m) ELSE inbox[v]
    BY SendToFacts DEF Types
  <1>3. \A v \in Worker : inbox[v] \in Seq(Msgs)
    BY Basics
  <1>4. CASE w = Only
    <2>1. inbox'[Only] = Append(inbox[Only], m) /\ inbox[Only] \in Seq(Msgs)
      BY <1>1, <1>2, <1>3, <1>4
    <2>2. /\ InOrder(Append(inbox[Only], m)) /\ AllBefore(backend, Append(inbox[Only], m))
          /\ \A r, kind : Has(Append(inbox[Only], m), kind, r)
                            <=> Has(inbox[Only], kind, r) \/ (m.kind = kind /\ m.uid = r)
      BY <2>1, OrderAppend DEF WayInv
    <2>3. \A v \in Worker : v # Only => inbox'[v] = inbox[v]
      BY <1>2, <1>4
    <2> QED
      BY <2>1, <2>2, <2>3 DEF WayInv, OnWay, Only
  <1>5. CASE w # Only
    <2>1. m.kind = "reply" /\ inbox'[Only] = inbox[Only]
      BY <1>1, <1>2, <1>5
    <2>2. \A i \in DOMAIN inbox'[w] : inbox'[w][i].kind = "reply"
      <3>1. /\ DOMAIN Append(inbox[w], m) = 1..(Len(inbox[w]) + 1)
            /\ Len(inbox[w]) \in Nat /\ DOMAIN inbox[w] = 1..Len(inbox[w])
            /\ \A i \in DOMAIN inbox[w] : Append(inbox[w], m)[i] = inbox[w][i]
            /\ Append(inbox[w], m)[Len(inbox[w]) + 1] = m
        BY <1>3, AppendFacts
      <3>2. \A i \in 1..(Len(inbox[w]) + 1) : i \in 1..Len(inbox[w]) \/ i = Len(inbox[w]) + 1
        BY <3>1
      <3> QED
        BY <1>2, <1>5, <2>1, <3>1, <3>2 DEF WayInv
    <2>3. \A v \in Worker : v # Only => \A i \in DOMAIN inbox'[v] : inbox'[v][i].kind = "reply"
      BY <1>2, <2>2 DEF WayInv
    <2> QED
      BY <2>1, <2>3 DEF WayInv, OnWay, Only
  <1> QED
    BY <1>4, <1>5

\* Nothing moves on the way, and no task asks for an abort or arrives.
LEMMA OthersAbort ==
  ASSUME AbortInv, UNCHANGED <<inbox, backend, phase>>,
         \A r \in Req : (task'[r] = "aborted" <=> task[r] = "aborted") /\ (task'[r] # "none" => Started(r))
  PROVE  AbortInv'
  <1>1. WayInv'
    BY DEF AbortInv, WayInv, Only
  <1>2. \A r \in Req : \A kind : OnWay(kind, r)' <=> OnWay(kind, r)
    BY DEF OnWay, Only
  <1>3. \A r \in Req : StandsAt(r)'
    BY <1>2 DEF AbortInv, StandsAt, Started
  <1> QED
    BY <1>1, <1>3 DEF AbortInv

LEMMA QueuesKnow ==
  ASSUME NumTokenizers <= 1, Types, ArrivalInv
  PROVE  /\ \A i \in DOMAIN backend : backend[i] \in Msgs /\ task[backend[i].uid] # "none"
         /\ \A i \in DOMAIN inbox[Only] : inbox[Only][i] \in Msgs /\ task[inbox[Only][i].uid] # "none"
  <1>1. Only \in Worker
    BY OneWay
  <1>2. backend \in Seq(RequestMsgs) /\ inbox[Only] \in Seq(Msgs)
    BY <1>1, Basics
  <1>3. /\ \A i \in DOMAIN backend : backend[i] \in Msgs
        /\ \A i \in DOMAIN inbox[Only] : inbox[Only][i] \in Msgs
    BY <1>2, QueueFacts DEF Msgs
  <1> QED
    BY <1>1, <1>3 DEF ArrivalInv, Covers

LEMMA ArriveAbort ==
  ASSUME NumTokenizers <= 1, Types, ArrivalInv, AbortInv, NEW r \in Req, Arrive(r)
  PROVE  AbortInv'
  <1> DEFINE m == Request("tokenize", r)
  <1>1. m \in Msgs /\ m.uid = r /\ m.kind = "tokenize" /\ SendTo(Only, m) /\ Only \in Worker
    BY OneWay, RequestFacts DEF Arrive
  <1> HIDE DEF m
  <1>2. task[r] = "none"
    BY DEF Arrive, Types, ApiType, TaskHolds, Started
  <1>3. /\ \A i \in DOMAIN backend : backend[i].uid # r
        /\ \A i \in DOMAIN inbox[Only] : inbox[Only][i].uid # r
    BY <1>2, QueuesKnow
  <1>4. /\ \A i \in DOMAIN backend : Precedes(backend[i], m)
        /\ \A i \in DOMAIN inbox[Only] : Precedes(inbox[Only][i], m)
    BY <1>1, <1>3 DEF Precedes
  <1>5. /\ WayInv'
        /\ \A u \in Req : \A kind \in {"tokenize", "abort"} :
             OnWay(kind, u)' <=> OnWay(kind, u) \/ (m.kind = kind /\ m.uid = u)
    BY <1>1, <1>4, SendWay DEF Arrive, AbortInv
  <1>6. ~OnWay("abort", r)
    BY <1>3 DEF OnWay, Has
  <1>7. /\ UNCHANGED phase /\ task'[r] = "waiting"
        /\ \A u \in Req : u # r => task'[u] = task[u]
    BY DEF Arrive, serviceVars, Types, ApiType
  <1>8. phase[r] = "absent"
    BY <1>2 DEF ArrivalInv, Fresh, Started
  <1>9. \A u \in Req : StandsAt(u)'
    BY <1>1, <1>5, <1>6, <1>7, <1>8 DEF AbortInv, StandsAt, Started
  <1> QED
    BY <1>5, <1>9 DEF AbortInv

LEMMA AbortUserAbort ==
  ASSUME NumTokenizers <= 1, Types, ArrivalInv, AbortInv, NEW r \in Req, AbortUser(r)
  PROVE  AbortInv'
  <1> DEFINE m == Request("abort", r)
  <1>1. m \in Msgs /\ m.uid = r /\ m.kind = "abort" /\ SendTo(Only, m) /\ Only \in Worker
    BY OneWay, RequestFacts DEF AbortUser
  <1> HIDE DEF m
  <1>2. task[r] = "cancelled"
    BY DEF AbortUser
  <1>3. ~OnWay("abort", r)
    BY <1>2 DEF AbortInv, StandsAt
  <1>4. \A k \in Msgs : k.kind \in {"reply", "tokenize", "abort"}
    BY MsgFacts
  <1>5. /\ \A i \in DOMAIN backend : Precedes(backend[i], m)
        /\ \A i \in DOMAIN inbox[Only] : Precedes(inbox[Only][i], m)
    <2>1. ASSUME NEW i \in DOMAIN backend PROVE Precedes(backend[i], m)
      BY <1>1, <1>3, <1>4, QueuesKnow DEF Precedes, OnWay, Has
    <2>2. ASSUME NEW i \in DOMAIN inbox[Only] PROVE Precedes(inbox[Only][i], m)
      BY <1>1, <1>3, <1>4, QueuesKnow DEF Precedes, OnWay, Has
    <2> QED
      BY <2>1, <2>2
  <1>6. /\ WayInv'
        /\ \A u \in Req : \A kind \in {"tokenize", "abort"} :
             OnWay(kind, u)' <=> OnWay(kind, u) \/ (m.kind = kind /\ m.uid = u)
    BY <1>1, <1>5, SendWay DEF AbortUser, AbortInv
  <1>7. /\ UNCHANGED phase /\ task'[r] = "aborted"
        /\ \A u \in Req : u # r => task'[u] = task[u]
    BY DEF AbortUser, serviceVars, Types, ApiType
  <1>8. \A u \in Req : StandsAt(u)'
    BY <1>1, <1>2, <1>6, <1>7 DEF AbortInv, StandsAt, Started
  <1> QED
    BY <1>6, <1>8 DEF AbortInv

LEMMA RespondAbort ==
  ASSUME NumTokenizers <= 1, Types, ArrivalInv, AbortInv, NEW r \in Req, Respond(r) \/ RespondLate(r)
  PROVE  AbortInv'
  <1>1. PICK last \in BOOLEAN :
          /\ sent[r] + 1 \in 1..MaxReplies
          /\ Send(r, last)
          /\ (Answer(r, last) /\ Respond(r)) \/ AnswerLate(r)
          /\ UNCHANGED <<apiVars, backend, front, decodeMap>>
    BY RespondFacts
  <1>2. PICK m \in Msgs : m.kind = "reply" /\ SendTo(Detokenizer, m)
    BY <1>1, ReplyFacts DEF Send
  <1>3. /\ \A i \in DOMAIN backend : Precedes(backend[i], m)
        /\ \A i \in DOMAIN inbox[Only] : Precedes(inbox[Only][i], m)
    BY <1>2 DEF Precedes
  <1>4. /\ WayInv'
        /\ \A u \in Req : \A kind \in {"tokenize", "abort"} :
             OnWay(kind, u)' <=> OnWay(kind, u) \/ (m.kind = kind /\ m.uid = u)
    BY <1>1, <1>2, <1>3, SendWay, Workers DEF AbortInv
  <1>5. \A u \in Req : \A kind \in {"tokenize", "abort"} : OnWay(kind, u)' <=> OnWay(kind, u)
    BY <1>2, <1>4
  <1>6. /\ UNCHANGED task
        /\ \A u \in Req : (phase'[u] = "absent" <=> phase[u] = "absent")
                            /\ (phase'[u] = "aborted" <=> phase[u] = "aborted")
    BY <1>1 DEF Answer, AnswerLate, apiVars, Types, ServiceType
  <1>7. \A u \in Req : StandsAt(u)'
    BY <1>5, <1>6 DEF AbortInv, StandsAt, Started
  <1> QED
    BY <1>4, <1>7 DEF AbortInv

LEMMA WorkAbort ==
  ASSUME NumTokenizers <= 1, Types, ArrivalInv, AbortInv, NEW w \in Worker, Work(w)
  PROVE  AbortInv'
  <1>1. inbox[w] \in Seq(Msgs) /\ inbox[w] # <<>> /\ Head(inbox[w]) \in Msgs /\ Only \in Worker
        /\ inbox[Only] \in Seq(Msgs) /\ backend \in Seq(RequestMsgs)
    BY OneWay, QueueFacts, Basics DEF Work
  <1>2. PICK msg \in Msgs : msg = Head(inbox[w])
    BY <1>1
  <1>3. /\ \A v \in Worker : inbox'[v] = IF v = w THEN Tail(inbox[v]) ELSE inbox[v]
        /\ backend' = IF msg.kind = "reply" THEN backend ELSE Append(backend, msg)
        /\ UNCHANGED <<phase, task>>
    BY <1>2 DEF Work, NextMsg, serviceVars, apiVars, Types, ChannelType
  <1>4. \A v \in Worker : v # Only => \A i \in DOMAIN inbox'[v] : inbox'[v][i].kind = "reply"
    <2>1. w # Only => \A i \in DOMAIN Tail(inbox[w]) : Tail(inbox[w])[i].kind = "reply"
      BY <1>1, QueueFacts DEF AbortInv, WayInv
    <2> QED
      BY <1>3, <2>1 DEF AbortInv, WayInv
  <1>5. /\ InOrder(backend') /\ InOrder(inbox'[Only]) /\ AllBefore(backend', inbox'[Only])
        /\ \A r \in Req : \A kind \in {"tokenize", "abort"} :
             Has(backend', kind, r) \/ Has(inbox'[Only], kind, r) <=> OnWay(kind, r)
    <2>1. CASE w # Only
      <3>1. msg.kind = "reply"
        BY <1>1, <1>2, <2>1, QueueFacts DEF AbortInv, WayInv
      <3>2. inbox'[Only] = inbox[Only] /\ backend' = backend
        BY <1>1, <1>3, <2>1, <3>1
      <3> QED
        BY <3>2 DEF AbortInv, WayInv, OnWay
    <2>2. CASE w = Only
      <3>1. inbox'[Only] = Tail(inbox[Only]) /\ msg = Head(inbox[Only]) /\ inbox[Only] # <<>>
        BY <1>1, <1>2, <1>3, <2>2
      <3>2. /\ InOrder(Tail(inbox[Only])) /\ \A i \in DOMAIN Tail(inbox[Only]) : Precedes(msg, Tail(inbox[Only])[i])
            /\ AllBefore(backend, Tail(inbox[Only])) /\ \A i \in DOMAIN backend : Precedes(backend[i], msg)
            /\ \A r, kind : Has(inbox[Only], kind, r)
                              <=> Has(Tail(inbox[Only]), kind, r) \/ (msg.kind = kind /\ msg.uid = r)
        BY <1>1, <3>1, OrderTail DEF AbortInv, WayInv
      <3>3. CASE msg.kind = "reply"
        <4>1. backend' = backend
          BY <1>3, <3>3
        <4> QED
          BY <3>1, <3>2, <3>3, <4>1 DEF AbortInv, WayInv, OnWay
      <3>4. CASE msg.kind # "reply"
        <4>1. backend' = Append(backend, msg) /\ msg \in Msgs /\ backend \in Seq(Msgs)
          <5>1. Seq(RequestMsgs) \subseteq Seq(Msgs)
            BY DEF Msgs
          <5> QED
            BY <1>1, <1>3, <3>4, <5>1
        <4>2. /\ InOrder(Append(backend, msg)) /\ AllBefore(Append(backend, msg), Tail(inbox[Only]))
              /\ \A r, kind : Has(Append(backend, msg), kind, r)
                                <=> Has(backend, kind, r) \/ (msg.kind = kind /\ msg.uid = r)
          BY <3>2, <4>1, OrderAppend DEF AbortInv, WayInv
        <4> QED
          BY <3>1, <3>2, <4>1, <4>2 DEF OnWay
      <3> QED
        BY <3>3, <3>4
    <2> QED
      BY <2>1, <2>2
  <1>6. WayInv'
    BY <1>4, <1>5 DEF WayInv, Only
  <1>7. \A r \in Req : \A kind \in {"tokenize", "abort"} : OnWay(kind, r)' <=> OnWay(kind, r)
    BY <1>5 DEF OnWay, Only
  <1>8. \A r \in Req : StandsAt(r)'
    BY <1>3, <1>7 DEF AbortInv, StandsAt, Started
  <1> QED
    BY <1>6, <1>8 DEF AbortInv

LEMMA HandleAbort ==
  ASSUME NumTokenizers <= 1, Types, ArrivalInv, AbortInv, Handle
  PROVE  AbortInv'
  <1>1. /\ backend \in Seq(RequestMsgs) /\ backend # <<>> /\ backend' = Tail(backend)
        /\ UNCHANGED <<inbox, task>> /\ inbox[Only] \in Seq(Msgs)
    BY OneWay, Basics DEF Handle, apiVars
  <1>2. PICK msg \in RequestMsgs : msg = Head(backend)
    BY <1>1, QueueFacts
  <1>3. PICK r \in Req : r = msg.uid
    BY MsgFacts
  <1>4. Seq(RequestMsgs) \subseteq Seq(Msgs)
    BY DEF Msgs
  <1>5. /\ InOrder(Tail(backend)) /\ \A i \in DOMAIN Tail(backend) : Precedes(msg, Tail(backend)[i])
        /\ AllBefore(Tail(backend), inbox[Only]) /\ \A i \in DOMAIN inbox[Only] : Precedes(msg, inbox[Only][i])
        /\ \A u, kind : Has(backend, kind, u)
                          <=> Has(Tail(backend), kind, u) \/ (msg.kind = kind /\ msg.uid = u)
    BY <1>1, <1>2, <1>4, OrderTail DEF AbortInv, WayInv
  <1>6. WayInv'
    BY <1>1, <1>5 DEF AbortInv, WayInv, Only
  <1>7. \A u \in Req : \A kind \in {"tokenize", "abort"} :
          OnWay(kind, u) <=> OnWay(kind, u)' \/ (msg.kind = kind /\ msg.uid = u)
    BY <1>1, <1>5 DEF OnWay, Only
  <1>8. msg.kind \in {"tokenize", "abort"}
    BY MsgFacts
  <1>9. /\ ~(OnWay("tokenize", r)')
        /\ msg.kind = "abort" => ~(OnWay("abort", r)')
    <2>1. ASSUME NEW kind \in {"tokenize", "abort"}, OnWay(kind, r)'
          PROVE  msg.kind = "tokenize" /\ kind = "abort"
      <3>1. CASE Has(Tail(backend), kind, r)
        BY <1>3, <1>5, <1>8, <3>1 DEF Has, Precedes
      <3>2. CASE Has(inbox[Only], kind, r)
        BY <1>3, <1>5, <1>8, <3>2 DEF Has, Precedes
      <3> QED
        BY <1>1, <2>1, <3>1, <3>2 DEF OnWay, Only
    <2> QED
      BY <2>1
  <1>10. Started(r)
    <2>1. 1 \in DOMAIN backend /\ msg = backend[1]
      BY <1>1, <1>2, QueueFacts
    <2> QED
      BY <1>3, <2>1, QueuesKnow DEF Started
  <1>11. \A u \in Req : u # r => phase'[u] = phase[u]
    BY <1>2, <1>3 DEF Handle, Take, Drop, Abort, serviceVars, Types, ServiceType
  <1>12. CASE msg.kind = "tokenize"
    <2>1. phase[r] = "absent" /\ phase'[r] \in {"active", "dropped"}
      <3>1. phase[r] = "absent"
        BY <1>3, <1>7, <1>12 DEF AbortInv, StandsAt
      <3> QED
        BY <1>2, <1>3, <1>12, <3>1 DEF Handle, Take, Drop, Types, ServiceType
    <2>2. OnWay("abort", r)' <=> OnWay("abort", r)
      BY <1>7, <1>12
    <2>3. StandsAt(r)'
      BY <1>1, <1>9, <1>10, <2>1, <2>2 DEF AbortInv, StandsAt, Started
    <2>4. \A u \in Req : u # r => StandsAt(u)'
      BY <1>1, <1>3, <1>7, <1>11 DEF AbortInv, StandsAt, Started
    <2> QED
      BY <1>6, <2>3, <2>4 DEF AbortInv
  <1>13. CASE msg.kind = "abort"
    <2>1. task[r] = "aborted" /\ phase[r] # "absent"
      <3>1. task[r] = "aborted"
        BY <1>3, <1>7, <1>13 DEF AbortInv, StandsAt
      <3>2. ~OnWay("tokenize", r)
        BY <1>7, <1>9, <1>13
      <3> QED
        BY <1>10, <3>1, <3>2 DEF AbortInv, StandsAt
    <2>2. phase'[r] = "aborted"
      BY <1>2, <1>3, <1>13, <2>1 DEF Handle, Abort, Types, ServiceType
    <2>3. StandsAt(r)'
      BY <1>1, <1>9, <1>13, <2>1, <2>2 DEF StandsAt, Started
    <2>4. \A u \in Req : u # r => StandsAt(u)'
      BY <1>1, <1>3, <1>7, <1>11 DEF AbortInv, StandsAt, Started
    <2> QED
      BY <1>6, <2>3, <2>4 DEF AbortInv
  <1> QED
    BY <1>8, <1>12, <1>13

LEMMA AbortNext ==
  ASSUME NumTokenizers <= 1, Types, ArrivalInv, AbortInv, [Next]_vars
  PROVE  AbortInv'
  <1>1. ASSUME NEW r \in Req,
               Arrive(r) \/ AbortUser(r) \/ Respond(r) \/ RespondLate(r)
        PROVE  AbortInv'
    BY <1>1, ArriveAbort, AbortUserAbort, RespondAbort
  <1>2. ASSUME NEW w \in Worker, Work(w) PROVE AbortInv'
    BY <1>2, WorkAbort
  <1>3. CASE Handle
    BY <1>3, HandleAbort
  <1>4. CASE Listen \/ Rest \/ UNCHANGED vars
    <2>1. UNCHANGED <<inbox, backend, phase, task>>
      BY <1>4 DEF Listen, Rest, vars, apiVars, channelVars, serviceVars
    <2> QED
      BY <2>1, OthersAbort DEF Started
  <1>5. ASSUME NEW r \in Req, task[r] \in Served, NEW t \in Tasks \ {"none", "aborted"},
               task' = [task EXCEPT ![r] = t] \/ UNCHANGED task, UNCHANGED <<inbox, backend, phase>>
        PROVE  AbortInv'
    <2>1. \A u \in Req : (task'[u] = "aborted" <=> task[u] = "aborted") /\ (task'[u] # "none" => Started(u))
      BY <1>5 DEF Served, Tasks, Started, Types, ApiType
    <2> QED
      BY <1>5, <2>1, OthersAbort
  <1>6. ASSUME NEW r \in Req, PassOn(r) PROVE AbortInv'
    <2>1. /\ UNCHANGED <<inbox, backend, phase>> /\ task[r] \in Served
          /\ task' = [task EXCEPT ![r] = AfterReply(r, Head(hand[r]))]
      BY <1>6 DEF PassOn, serviceVars, channelVars, Served
    <2>2. AfterReply(r, Head(hand[r])) \in Tasks \ {"none", "aborted"}
      <3>1. hand[r] \in Seq(ReplyMsgs) /\ hand[r] # <<>>
        BY <1>6 DEF PassOn, Types, ApiType, TaskHolds
      <3> QED
        BY <3>1, AfterReplyFacts DEF Tasks
    <2> QED
      BY <1>5, <2>1, <2>2
  <1>7. ASSUME NEW r \in Req, Wake(r) PROVE AbortInv'
    BY <1>5, <1>7 DEF Wake, serviceVars, channelVars, Served, Tasks
  <1>8. ASSUME NEW r \in Req, Close(r) \/ Disconnect(r) PROVE AbortInv'
    BY <1>5, <1>8 DEF Close, Disconnect, serviceVars, channelVars, Served, Tasks
  <1>9. ASSUME NEW r \in Req, CancelAtChunk(r) \/ CancelWaiting(r) PROVE AbortInv'
    BY <1>5, <1>9 DEF CancelAtChunk, CancelWaiting, CancelStream, serviceVars, channelVars, Served, Tasks
  <1> QED
    BY <1>1, <1>2, <1>3, <1>4, <1>6, <1>7, <1>8, <1>9 DEF Next

\* With one worker for tokenizing, the abort of a request reaches the scheduler behind the
\* request itself, so that what arrives last ends it. With two it need not: they race.
THEOREM AbortsArriveLast == NumTokenizers <= 1 /\ Spec => []AbortIsFinal
  <1> SUFFICES ASSUME NumTokenizers <= 1 PROVE Spec => []AbortIsFinal
    OBVIOUS
  <1>1. Types /\ ArrivalInv /\ AbortInv /\ [Next]_vars => (Types /\ ArrivalInv /\ AbortInv)'
    BY TypesNext, ArrivalNext, AbortNext
  <1>2. Init => Types /\ ArrivalInv /\ AbortInv
    BY TypesInit, ArrivalInit, AbortInit
  <1>3. Types /\ AbortInv => AbortIsFinal
    BY AbortGivesProperty
  <1> QED
    BY <1>1, <1>2, <1>3, PTL DEF Spec
=============================================================================
