------------------------------ MODULE Frontend ------------------------------
(***************************************************************************)
(* The way of a request through the server around the scheduler:           *)
(*                                                                         *)
(*   server/api_server.py   the asyncio tasks of the API server            *)
(*   tokenizer/server.py    tokenizer workers and the detokenizer          *)
(*   Service                the scheduler, as its clients see it           *)
(*                                                                         *)
(* The processes are joined by ZMQ queues, which neither lose nor reorder  *)
(* what one sender sends to one receiver.  The tasks of the API server     *)
(* share one thread: an action here is what a task does between two        *)
(* awaits.  Replies carry their number instead of their text.              *)
(***************************************************************************)
EXTENDS Service, Integers, Functions, SequencesExt

CONSTANT NumTokenizers    \* tokenizer workers; 0: the detokenizer does their work

ASSUME NumTokenizersAssumption == NumTokenizers \in Nat

Detokenizer == 0
Worker      == 0..NumTokenizers
AnyWorker   == Worker   \* mutant: tokenizers and detokenizer read one address
Tokenizer   == IF NumTokenizers = 0 THEN {Detokenizer} ELSE 1..NumTokenizers

VARIABLES
  uidCounter,  \* uids are 0, 1, ... in order of arrival
  ackMap,      \* uid -> replies that arrived and were not picked up; no entry: unknown uid
  woken,       \* uids whose event is set
  task,        \* what the task that serves uid is doing
  hand,        \* uid -> replies its task has picked up and not passed on
  got,         \* uid -> replies its client has received
  streams,     \* uids whose client reads a stream
  gone,        \* uids whose client has disconnected
  inbox,       \* worker -> messages sent to it
  backend,     \* messages sent to the scheduler
  front,       \* messages sent to the API server
  decodeMap    \* DetokenizeManager.decode_map, its uids

apiVars     == <<uidCounter, ackMap, woken, task, hand, got, streams, gone>>
channelVars == <<inbox, backend, front>>
vars == <<serviceVars, apiVars, channelVars, decodeMap>>

Request(kind, r) == [kind |-> kind, uid |-> r, n |-> 0, last |-> FALSE]
ReplyMsg(r, n, last) == [kind |-> "reply", uid |-> r, n |-> n, last |-> last]

Init ==
  /\ ServiceInit
  /\ uidCounter = 0
  /\ ackMap = <<>>
  /\ woken = {} /\ streams = {} /\ gone = {}
  /\ task = [r \in Req |-> "none"]
  /\ hand = [r \in Req |-> <<>>]
  /\ got = [r \in Req |-> <<>>]
  /\ inbox = [w \in Worker |-> <<>>]
  /\ backend = <<>> /\ front = <<>>
  /\ decodeMap = {}

KnownAlways(r) == TRUE  \* mutant: listen does not look

Known(r) == r \in DOMAIN ackMap
SendTo(w, msg) == inbox' = [inbox EXCEPT ![w] = Append(@, msg)]

-----------------------------------------------------------------------------
(* The API server.                                                         *)

\* generate and v1_completions: new_user, then send_one(TokenizeMsg) to some worker.
Arrive(r) ==
  /\ r = uidCounter
  /\ uidCounter' = uidCounter + 1
  /\ ackMap' = [u \in DOMAIN ackMap \cup {r} |-> IF u = r THEN <<>> ELSE ackMap[u]]
  /\ task' = [task EXCEPT ![r] = "waiting"]
  /\ streams' \in {streams, streams \cup {r}}
  /\ \E w \in Tokenizer : SendTo(w, Request("tokenize", r))
  /\ UNCHANGED <<serviceVars, woken, hand, got, gone, backend, front, decodeMap>>

WakesWaiting(msg) ==  \* mutant: only a task that waits is woken
  IF task[msg.uid] = "waiting" THEN woken \cup {msg.uid} ELSE woken

\* self.event_map[msg.uid].set()
Wakes(msg) == woken \cup {msg.uid}

\* listen: a reply to a uid that is not known any more is dropped.
Listen ==
  /\ front # <<>>
  /\ LET msg == Head(front)
     IN  IF Known(msg.uid)
         THEN /\ ackMap' = [ackMap EXCEPT ![msg.uid] = Append(@, msg)]
              /\ woken' = Wakes(msg)
         ELSE UNCHANGED <<ackMap, woken>>
  /\ front' = Tail(front)
  /\ UNCHANGED <<serviceVars, uidCounter, task, hand, got, streams, gone, inbox, backend, decodeMap>>

LeaveAcks(r) == ackMap  \* mutant: the replies picked up stay

\* self.ack_map[uid] = []
ResetAcks(r) == [ackMap EXCEPT ![r] = <<>>]

\* wait_for_ack, when its event is set.
Wake(r) ==
  /\ task[r] = "waiting" /\ r \in woken
  /\ woken' = woken \ {r}
  /\ hand' = [hand EXCEPT ![r] = ackMap[r]]
  /\ ackMap' = ResetAcks(r)
  /\ task' = [task EXCEPT ![r] = IF ackMap[r] = <<>> THEN "waiting" ELSE "reading"]
  /\ UNCHANGED <<serviceVars, uidCounter, got, streams, gone, channelVars, decodeMap>>

\* Without a stream the finished reply is the last of those collected for one response.
Collected(r, msg) == msg.last /\ r \notin streams

\* What the task does behind a reply: the consumers of wait_for_ack stop at the
\* finished one (a stream still has its [DONE] to send), else the loop goes on.
AfterReply(r, msg) ==
  CASE msg.last /\ r \in streams      -> "closing"
    [] Collected(r, msg)              -> "done"
    [] ~msg.last /\ Len(hand[r]) > 1  -> "reading"
    [] ~msg.last /\ Len(hand[r]) = 1  -> "waiting"

\* One reply passed on. A stream looks whether its client is still there first.
PassOn(r) ==
  /\ task[r] = "reading"
  /\ ~(r \in streams /\ r \in gone)
  /\ got' = [got EXCEPT ![r] = Append(@, Head(hand[r]).n)]
  /\ hand' = [hand EXCEPT ![r] = Tail(@)]
  /\ task' = [task EXCEPT ![r] = AfterReply(r, Head(hand[r]))]
  /\ UNCHANGED <<serviceVars, uidCounter, ackMap, woken, streams, gone, channelVars, decodeMap>>

\* The end of the stream. The break has left wait_for_ack at its yield, so that the
\* entries of uid stay in ack_map and event_map.
Close(r) ==
  /\ task[r] = "closing" /\ r \notin gone
  /\ task' = [task EXCEPT ![r] = "done"]
  /\ UNCHANGED <<serviceVars, uidCounter, ackMap, woken, hand, got, streams, gone, channelVars, decodeMap>>

Disconnect(r) ==
  /\ task[r] \in {"waiting", "reading", "closing"} /\ r \notin gone
  /\ gone' = gone \cup {r}
  /\ UNCHANGED <<serviceVars, uidCounter, ackMap, woken, task, hand, got, streams, channelVars, decodeMap>>

CancelStream(r) ==
  /\ r \in streams /\ r \in gone
  /\ task' = [task EXCEPT ![r] = "cancelled"]
  /\ UNCHANGED <<serviceVars, uidCounter, ackMap, woken, hand, got, streams, gone, channelVars, decodeMap>>

\* stream_with_cancellation finds the client gone at a chunk ...
CancelAtChunk(r) == task[r] \in {"reading", "closing"} /\ CancelStream(r)

\* ... or the web server cancels the response while it waits.
CancelWaiting(r) == task[r] = "waiting" /\ CancelStream(r)

\* abort_user, after its sleep.
AbortUser(r) ==
  /\ task[r] = "cancelled"
  /\ task' = [task EXCEPT ![r] = "aborted"]
  /\ ackMap' = Restrict(ackMap, DOMAIN ackMap \ {r})
  /\ woken' = woken \ {r}
  /\ \E w \in Tokenizer : SendTo(w, Request("abort", r))
  /\ UNCHANGED <<serviceVars, uidCounter, hand, got, streams, gone, backend, front, decodeMap>>

-----------------------------------------------------------------------------
(* The workers.                                                            *)

\* recv_listener.get()
NextMsg(w) == Head(inbox[w])

KeepDecoding(msg) == decodeMap \cup {msg.uid}  \* mutant: decode_map entries stay

\* detokenize: the entry is made with the first reply and deleted with the finished one.
Decoding(msg) == IF msg.last THEN decodeMap \ {msg.uid} ELSE decodeMap \cup {msg.uid}

\* One message of tokenize_worker: replies go to the API server, requests and aborts
\* to the scheduler. (local_bs is 1: a worker never holds messages of two sends.)
Work(w) ==
  /\ inbox[w] # <<>>
  /\ inbox' = [inbox EXCEPT ![w] = Tail(@)]
  /\ IF NextMsg(w).kind = "reply"
     THEN /\ front' = Append(front, NextMsg(w))
          /\ decodeMap' = Decoding(NextMsg(w))
          /\ UNCHANGED backend
     ELSE /\ backend' = Append(backend, NextMsg(w))
          /\ UNCHANGED <<front, decodeMap>>
  /\ UNCHANGED <<serviceVars, apiVars>>

-----------------------------------------------------------------------------
(* The scheduler.                                                          *)

\* _process_one_msg: a request is taken or dropped, an abort finds its request or not.
Handle ==
  /\ backend # <<>>
  /\ backend' = Tail(backend)
  /\ LET r == Head(backend).uid
     IN  \/ Head(backend).kind = "tokenize" /\ (Take(r) \/ Drop(r))
         \/ Head(backend).kind = "abort" /\ Abort(r)
         \/ /\ Head(backend).kind = "abort" /\ phase[r] = "absent"
            /\ UNCHANGED serviceVars
  /\ UNCHANGED <<apiVars, inbox, front, decodeMap>>

Send(r, last) == SendTo(Detokenizer, ReplyMsg(r, sent[r] + 1, last))

Respond(r) ==
  /\ \E last \in BOOLEAN : Answer(r, last) /\ Send(r, last)
  /\ UNCHANGED <<apiVars, backend, front, decodeMap>>

\* The late reply may say finished or not.
RespondLate(r) ==
  /\ AnswerLate(r)
  /\ \E last \in BOOLEAN : Send(r, last)
  /\ UNCHANGED <<apiVars, backend, front, decodeMap>>

-----------------------------------------------------------------------------
\* All clients have come and been served; a client whose request was dropped waits
\* for ever. Only here may the server come to rest.
Rest ==
  /\ \A r \in Req : \/ task[r] \in {"done", "aborted"}
                    \/ task[r] = "waiting" /\ phase[r] = "dropped"
  /\ UNCHANGED vars

Next ==
  \/ Listen \/ Handle \/ Rest
  \/ \E w \in Worker : Work(w)
  \/ \E r \in Req :
       \/ Arrive(r) \/ Wake(r) \/ PassOn(r) \/ Close(r)
       \/ Disconnect(r) \/ CancelAtChunk(r) \/ CancelWaiting(r) \/ AbortUser(r)
       \/ Respond(r) \/ RespondLate(r)

Spec == Init /\ [][Next]_vars

\* Every process and every task that can go on does so; clients need not. That the
\* scheduler answers what it has taken is EveryRequestServed of Scheduler.
FairSpec ==
  /\ Spec
  /\ WF_vars(Listen) /\ WF_vars(Handle)
  /\ \A w \in Worker : WF_vars(Work(w))
  /\ \A r \in Req :
       /\ WF_vars(Wake(r)) /\ WF_vars(PassOn(r)) /\ WF_vars(Close(r))
       /\ WF_vars(CancelAtChunk(r)) /\ WF_vars(AbortUser(r))
       /\ WF_vars(Respond(r))

-----------------------------------------------------------------------------
(* Properties.                                                             *)

ReplyMsgs == [kind : {"reply"}, uid : Req, n : 1..MaxReplies, last : BOOLEAN]
RequestMsgs == {Request(kind, r) : kind \in {"tokenize", "abort"}, r \in Req}

\* The event of a uid exists as long as its replies are kept.
TypeOK ==
  /\ phase \in [Req -> {"absent", "active", "done", "dropped", "aborted"}]
  /\ sent \in [Req -> 0..MaxReplies] /\ late \in [Req -> 0..1]
  /\ uidCounter \in Nat
  /\ DOMAIN ackMap \subseteq Req /\ \A r \in DOMAIN ackMap : ackMap[r] \in Seq(ReplyMsgs)
  /\ woken \subseteq DOMAIN ackMap
  /\ task \in [Req -> {"none", "waiting", "reading", "closing", "done", "cancelled", "aborted"}]
  /\ hand \in [Req -> Seq(ReplyMsgs)] /\ got \in [Req -> Seq(Nat)]
  /\ streams \subseteq Req /\ gone \subseteq Req
  /\ inbox \in [Worker -> Seq(ReplyMsgs \cup RequestMsgs)]
  /\ backend \in Seq(RequestMsgs) /\ front \in Seq(ReplyMsgs)
  /\ decodeMap \subseteq Req

IsReplyTo(r, msg) == msg.kind = "reply" /\ msg.uid = r
Count(n) == [i \in 1..n |-> i]

\* The replies to r among msgs are the ones numbered from + 1 to to, in this order.
Carries(r, msgs, from, to) ==
  LET at == {i \in DOMAIN msgs : IsReplyTo(r, msgs[i])}
  IN  /\ from <= to /\ {msgs[i].n : i \in at} = from + 1 .. to
      /\ \A i, j \in at : i < j => msgs[i].n < msgs[j].n

\* What is kept for r and what is on its way follows on what its client has got, up to
\* the latest reply of the scheduler.
FollowsOn(r) ==
  \E a, b, c \in 0..sent[r] :
    /\ Carries(r, hand[r], Len(got[r]), a) /\ Carries(r, ackMap[r], a, b)
    /\ Carries(r, front, b, c) /\ Carries(r, inbox[Detokenizer], c, sent[r])

\* Every reply reaches its client once and in order, whatever is between them: a client
\* has got the first replies sent to it, and while it is served the others follow.
RepliesInOrder ==
  \A r \in Req :
    /\ got[r] = Count(Len(got[r])) /\ Len(got[r]) <= sent[r]
    /\ task[r] \in {"waiting", "reading", "closing"} => FollowsOn(r)

OnItsWay(r) ==
  {msg \in ToSet(backend) \cup UNION {ToSet(inbox[w]) : w \in Worker} :
     msg.uid = r /\ msg.kind # "reply"}

\* With a single tokenizer an abort does not overtake its request: once it has
\* arrived, the scheduler is through with the request for good.
AbortIsFinal ==
  \A r \in Req :
    task[r] = "aborted" /\ OnItsWay(r) = {} => phase[r] \notin {"absent", "active"}

\* The detokenizer forgets a request once it has seen the finished reply; only a
\* late reply or an abort leaves an entry behind.
DecodeStateGoes ==
  \A r \in decodeMap :
    phase[r] = "done" /\ late[r] = 0 =>
      \E i \in DOMAIN inbox[Detokenizer] : IsReplyTo(r, inbox[Detokenizer][i])

\* A client that asked for something that is not dropped gets its whole answer,
\* unless it disconnects.
EveryClientAnswered ==
  \A r \in Req : task[r] = "waiting" ~> task[r] = "done" \/ r \in gone \/ phase[r] = "dropped"
=============================================================================
