------------------------------- MODULE TPSync -------------------------------
(***************************************************************************)
(* The schedulers of a tensor parallel group (scheduler/io.py): rank 0     *)
(* receives from the tokenizer and passes everything on, so that each rank *)
(* runs the same loop on the same messages.                                *)
(*                                                                         *)
(* Nothing but this exchange keeps the ranks together: each decides for    *)
(* itself whether to block and which batch to launch.  What a scheduler    *)
(* decides is a function of the messages it has handled, so its state is   *)
(* reduced to the number of batches it still has to launch.                *)
(***************************************************************************)
EXTENDS Integers, FiniteSets, SequencesExt

CONSTANTS
  NumRanks,    \* tp_info.size
  Message,     \* what the tokenizer may send: "user", "abort", "exit"
  Overlap,     \* overlap_loop or normal_loop
  MaxMsgs      \* bound: how many messages are sent

ASSUME NumRanksAssumption == NumRanks \in Nat \ {0}
ASSUME MaxMsgsAssumption == MaxMsgs \in Nat

VARIABLES
  submitted,   \* number of messages sent to rank 0
  backend,     \* those it has not received
  sub,         \* follower -> published to it and not received
  counts,      \* follower -> numbers broadcast to it and not received
  pc,          \* rank -> where it is in its loop
  raws,        \* pending_raw_msgs of rank 0
  need,        \* follower -> messages it still waits for in this iteration
  msgs,        \* rank -> pending_msgs
  work,        \* rank -> batches it has yet to launch for what it has handled
  launched,    \* rank -> batches launched
  last,        \* rank -> last_data: the number of a batch, 0 for None
  due,         \* rank -> the batch it processes in this iteration
  seen         \* rank -> the messages handled, iteration by iteration

channelVars == <<submitted, backend, sub, counts>>
receiveVars == <<raws, need, msgs>>
loopVars    == <<work, launched, last, due, seen>>
vars == <<channelVars, pc, receiveVars, loopVars>>

Rank     == 0..(NumRanks - 1)
Follower == Rank \ {0}

Init ==
  /\ submitted = 0
  /\ backend = <<>> /\ raws = <<>>
  /\ sub = [r \in Follower |-> <<>>] /\ counts = [r \in Follower |-> <<>>]
  /\ pc = [r \in Rank |-> "receive"]
  /\ need = [r \in Follower |-> 0]
  /\ msgs = [r \in Rank |-> <<>>] /\ seen = [r \in Rank |-> <<>>]
  /\ work = [r \in Rank |-> 0]
  /\ launched = [r \in Rank |-> 0] /\ last = [r \in Rank |-> 0] /\ due = [r \in Rank |-> 0]

Goto(r, place) == pc' = [pc EXCEPT ![r] = place]

Submit ==
  /\ submitted < MaxMsgs
  /\ \E m \in Message : backend' = Append(backend, m)
  /\ submitted' = submitted + 1
  /\ UNCHANGED <<sub, counts, pc, receiveVars, loopVars>>

-----------------------------------------------------------------------------
(* receive_msg.                                                            *)

BlockingNoWork(r) == work[r] = 0  \* mutant: ignores last_data

\* The argument of receive_msg.
Blocking(r) == work[r] = 0 /\ last[r] = 0

\* put_raw. That a publish socket drops what exceeds its high-water mark is left
\* out: so many messages are not on their way at a time.
Publish(m) == sub' = [r \in Follower |-> Append(sub[r], m)]

\* _recv_msg_multi_rank0: the message it was blocked for is passed on at once.
Unblock ==
  /\ pc[0] = "receive" /\ Blocking(0) /\ backend # <<>>
  /\ backend' = Tail(backend)
  /\ Publish(Head(backend))
  /\ msgs' = [msgs EXCEPT ![0] = <<Head(backend)>>]
  /\ Goto(0, "drain")
  /\ UNCHANGED <<submitted, counts, raws, need, loopVars>>

GoOn ==
  /\ pc[0] = "receive" /\ ~Blocking(0)
  /\ Goto(0, "drain")
  /\ UNCHANGED <<channelVars, receiveVars, loopVars>>

Drain ==
  /\ pc[0] = "drain" /\ backend # <<>>
  /\ backend' = Tail(backend)
  /\ raws' = Append(raws, Head(backend))
  /\ UNCHANGED <<submitted, sub, counts, pc, need, msgs, loopVars>>

\* src_tensor
CountRaws == Len(raws)

\* The queue is empty: the number of messages is broadcast.
BroadcastCount ==
  /\ pc[0] = "drain" /\ backend = <<>>
  /\ counts' = [r \in Follower |-> Append(counts[r], CountRaws)]
  /\ Goto(0, "share")
  /\ UNCHANGED <<submitted, backend, sub, receiveVars, loopVars>>

SharePrepended ==  \* mutant: rank 0 puts what it passes on before what it has
  /\ pc[0] = "share" /\ raws # <<>>
  /\ Publish(Head(raws))
  /\ msgs' = [msgs EXCEPT ![0] = <<Head(raws)>> \o @]
  /\ raws' = Tail(raws)
  /\ UNCHANGED <<submitted, backend, counts, pc, need, loopVars>>

ShareOne ==
  /\ pc[0] = "share" /\ raws # <<>>
  /\ Publish(Head(raws))
  /\ msgs' = [msgs EXCEPT ![0] = Append(@, Head(raws))]
  /\ raws' = Tail(raws)
  /\ UNCHANGED <<submitted, backend, counts, pc, need, loopVars>>

ShareDone ==
  /\ pc[0] = "share" /\ raws = <<>>
  /\ Goto(0, "handle")
  /\ UNCHANGED <<channelVars, receiveVars, loopVars>>

\* A follower takes the next message published.
TakeNext(r) ==
  /\ sub[r] # <<>>
  /\ sub' = [sub EXCEPT ![r] = Tail(@)]
  /\ msgs' = [msgs EXCEPT ![r] = Append(@, Head(sub[r]))]

\* _recv_msg_multi_rank1, up to the broadcast.
FollowUnblock(r) ==
  /\ pc[r] = "receive" /\ Blocking(r)
  /\ TakeNext(r)
  /\ Goto(r, "count")
  /\ UNCHANGED <<submitted, backend, counts, raws, need, loopVars>>

FollowGoOn(r) ==
  /\ pc[r] = "receive" /\ ~Blocking(r)
  /\ Goto(r, "count")
  /\ UNCHANGED <<channelVars, receiveVars, loopVars>>

\* dst_tensor
FollowCount(r) ==
  /\ pc[r] = "count" /\ counts[r] # <<>>
  /\ need' = [need EXCEPT ![r] = Head(counts[r])]
  /\ counts' = [counts EXCEPT ![r] = Tail(@)]
  /\ Goto(r, "follow")
  /\ UNCHANGED <<submitted, backend, sub, raws, msgs, loopVars>>

FollowOne(r) ==
  /\ pc[r] = "follow" /\ need[r] > 0
  /\ TakeNext(r)
  /\ need' = [need EXCEPT ![r] = @ - 1]
  /\ UNCHANGED <<submitted, backend, counts, pc, raws, loopVars>>

FollowDone(r) ==
  /\ pc[r] = "follow" /\ need[r] = 0
  /\ Goto(r, "handle")
  /\ UNCHANGED <<channelVars, receiveVars, loopVars>>

-----------------------------------------------------------------------------
(* The rest of the loop.                                                   *)

\* Batches to launch after the messages ms: two for every request that no abort
\* comes after, and none of what was left before an abort.
WorkAfter(left, ms) ==
  LET kept == {i \in DOMAIN ms : ms[i] = "user" /\ \A j \in DOMAIN ms : ms[j] = "abort" => j < i}
  IN  (IF Contains(ms, "abort") THEN 0 ELSE left) + 2 * Cardinality(kept)

\* _process_one_msg for each; ExitMsg ends the loop (and the rest of the messages).
Handle(r) ==
  /\ pc[r] = "handle"
  /\ work' = [work EXCEPT ![r] = WorkAfter(@, msgs[r])]
  /\ seen' = [seen EXCEPT ![r] = Append(@, msgs[r])]
  /\ msgs' = [msgs EXCEPT ![r] = <<>>]
  /\ Goto(r, IF Contains(msgs[r], "exit") THEN "exit" ELSE "launch")
  /\ UNCHANGED <<channelVars, raws, need, launched, last, due>>

\* The next batch, if there is one; results are due one iteration later with overlap.
Launch(r) ==
  /\ pc[r] = "launch"
  /\ LET new == IF work[r] > 0 THEN launched[r] + 1 ELSE 0
     IN  /\ launched' = [launched EXCEPT ![r] = IF work[r] > 0 THEN new ELSE @]
         /\ work' = [work EXCEPT ![r] = IF @ > 0 THEN @ - 1 ELSE @]
         /\ IF Overlap
            THEN due' = [due EXCEPT ![r] = last[r]] /\ last' = [last EXCEPT ![r] = new]
            ELSE due' = [due EXCEPT ![r] = new] /\ UNCHANGED last
  /\ Goto(r, "process")
  /\ UNCHANGED <<channelVars, receiveVars, seen>>

\* copy_done.synchronize(): a batch has results when every rank has launched it.
Process(r) ==
  /\ pc[r] = "process"
  /\ \A q \in Rank : launched[q] >= due[r]
  /\ due' = [due EXCEPT ![r] = 0]
  /\ Goto(r, "receive")
  /\ UNCHANGED <<channelVars, receiveVars, work, launched, last, seen>>

\* shutdown: the barrier of sync_all_ranks, behind the batches in flight.
Shutdown(r) ==
  /\ pc[r] = "exit"
  /\ \A q \in Rank : pc[q] \in {"exit", "down"} /\ launched[q] >= last[r]
  /\ Goto(r, "down")
  /\ UNCHANGED <<channelVars, receiveVars, loopVars>>

\* Everything sent was handled and every rank blocks, or all have shut down.
Rest ==
  /\ \/ backend = <<>> /\ \A r \in Rank : pc[r] = "receive" /\ Blocking(r)
     \/ \A r \in Rank : pc[r] = "down"
  /\ UNCHANGED vars

Step(r) ==
  \/ r = 0 /\ (Unblock \/ GoOn \/ Drain \/ BroadcastCount \/ ShareOne \/ ShareDone)
  \/ r # 0 /\ (FollowUnblock(r) \/ FollowGoOn(r) \/ FollowCount(r) \/ FollowOne(r) \/ FollowDone(r))
  \/ Handle(r) \/ Launch(r) \/ Process(r) \/ Shutdown(r)

Next == Submit \/ Rest \/ \E r \in Rank : Step(r)

Spec == Init /\ [][Next]_vars

\* Every rank runs on when it can; the tokenizer need not send anything.
FairSpec == Spec /\ \A r \in Rank : WF_vars(Step(r))

-----------------------------------------------------------------------------
(* Properties.                                                             *)

\* No follower ever takes more messages than rank 0 has announced.
TypeOK ==
  /\ submitted \in 0..MaxMsgs
  /\ backend \in Seq(Message) /\ raws \in Seq(Message)
  /\ sub \in [Follower -> Seq(Message)] /\ counts \in [Follower -> Seq(Nat)]
  /\ pc \in [Rank -> {"receive", "drain", "share", "count", "follow", "handle",
                      "launch", "process", "exit", "down"}]
  /\ need \in [Follower -> Nat]
  /\ msgs \in [Rank -> Seq(Message)] /\ seen \in [Rank -> Seq(Seq(Message))]
  /\ work \in [Rank -> Nat] /\ launched \in [Rank -> Nat]
  /\ last \in [Rank -> Nat] /\ due \in [Rank -> Nat]

\* All ranks handle the same messages in the same iteration (io.py: "ensure all
\* ranks have the same number of raw messages"), however far one is ahead.
SameMessages ==
  \A r, q \in Rank : IsPrefix(seen[r], seen[q]) \/ IsPrefix(seen[q], seen[r])

\* What rank 0 has received reaches every rank, and its results are looked at, unless
\* the group shuts down; a shutdown takes every rank with it.
GroupKeepsUp ==
  /\ \A n \in 1..MaxMsgs : \A r \in Rank :
       submitted >= n ~> pc[r] = "down" \/ Len(FlattenSeq(seen[r])) >= n
  /\ \A r \in Rank : last[r] # 0 ~> last[r] = 0 \/ pc[r] = "down"
=============================================================================
