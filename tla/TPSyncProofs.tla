---------------------------- MODULE TPSyncProofs ----------------------------
(***************************************************************************)
(* The ranks of a tensor parallel group handle the same messages in the    *)
(* same iterations, for any number of ranks and messages.                  *)
(***************************************************************************)
EXTENDS TPSync, FiniteSetTheorems, TLAPS

-----------------------------------------------------------------------------
(* Types.                                                                  *)

\* What is left to launch is a number.
LEMMA WorkAfterNat ==
  ASSUME NEW left \in Nat, NEW ms \in Seq(Message)
  PROVE  WorkAfter(left, ms) \in Nat
  <1> DEFINE kept == {i \in DOMAIN ms : ms[i] = "user" /\ \A j \in DOMAIN ms : ms[j] = "abort" => j < i}
  <1>1. DOMAIN ms = 1..Len(ms) /\ Len(ms) \in Nat
    OBVIOUS
  <1>2. IsFiniteSet(1..Len(ms))
    BY <1>1, FS_Interval
  <1>3. kept \subseteq 1..Len(ms)
    BY <1>1
  <1>4. IsFiniteSet(kept)
    BY <1>2, <1>3, FS_Subset
  <1>5. Cardinality(kept) \in Nat
    BY <1>4, FS_CardinalityType
  <1>6. WorkAfter(left, ms) = (IF Contains(ms, "abort") THEN 0 ELSE left) + 2 * Cardinality(kept)
    BY DEF WorkAfter
  <1> HIDE DEF kept
  <1> QED
    BY <1>5, <1>6

\* What the sequences of the channels are made of.
LEMMA Queues ==
  ASSUME NEW A, NEW q \in Seq(A)
  PROVE  /\ \A m \in A : Append(q, m) \in Seq(A) /\ <<m>> \in Seq(A)
         /\ q # <<>> => Head(q) \in A /\ Tail(q) \in Seq(A)
         /\ Len(q) \in Nat
  OBVIOUS

LEMMA PublishType ==
  ASSUME TypeOK, NEW m \in Message, Publish(m)
  PROVE  sub' \in [Follower -> Seq(Message)]
  BY DEF TypeOK, Publish

LEMMA TakeNextType ==
  ASSUME TypeOK, NEW r \in Follower, TakeNext(r)
  PROVE  sub' \in [Follower -> Seq(Message)] /\ msgs' \in [Rank -> Seq(Message)]
  <1>1. sub[r] \in Seq(Message) /\ sub[r] # <<>> /\ r \in Rank /\ msgs[r] \in Seq(Message)
    BY DEF TypeOK, TakeNext, Follower
  <1>2. Head(sub[r]) \in Message /\ Tail(sub[r]) \in Seq(Message)
    BY <1>1, Queues
  <1>3. Append(msgs[r], Head(sub[r])) \in Seq(Message)
    BY <1>1, <1>2
  <1> QED
    BY <1>2, <1>3 DEF TypeOK, TakeNext

LEMMA TypeInit == Init => TypeOK
  BY NumRanksAssumption, MaxMsgsAssumption DEF Init, TypeOK, Rank, Follower

LEMMA TypeNext == TypeOK /\ [Next]_vars => TypeOK'
  <1> SUFFICES ASSUME TypeOK, [Next]_vars PROVE TypeOK'
    OBVIOUS
  <1> USE DEF TypeOK, channelVars, receiveVars, loopVars, Goto
  <1>0. 0 \in Rank /\ Follower \subseteq Rank
    BY NumRanksAssumption DEF Rank, Follower
  <1>1. CASE Submit
    BY <1>1, MaxMsgsAssumption DEF Submit
  <1>2. CASE Unblock
    <2>1. Head(backend) \in Message /\ Tail(backend) \in Seq(Message)
      BY <1>2, Queues DEF Unblock
    <2>2. sub' \in [Follower -> Seq(Message)]
      BY <1>2, <2>1, PublishType DEF Unblock
    <2> QED
      BY <1>0, <1>2, <2>1, <2>2 DEF Unblock
  <1>3. CASE GoOn
    BY <1>3 DEF GoOn
  <1>4. CASE Drain
    BY <1>4 DEF Drain
  <1>5. CASE BroadcastCount
    <2>1. Len(raws) \in Nat
      BY Queues
    <2>2. \A r \in Follower : Append(counts[r], Len(raws)) \in Seq(Nat)
      BY <2>1
    <2>3. counts' \in [Follower -> Seq(Nat)]
      BY <1>5, <2>2 DEF BroadcastCount, CountRaws
    <2> QED
      BY <1>0, <1>5, <2>3 DEF BroadcastCount
  <1>6. CASE ShareOne
    <2>1. Head(raws) \in Message /\ Tail(raws) \in Seq(Message)
      BY <1>6, Queues DEF ShareOne
    <2>2. sub' \in [Follower -> Seq(Message)]
      BY <1>6, <2>1, PublishType DEF ShareOne
    <2>3. Append(msgs[0], Head(raws)) \in Seq(Message)
      BY <1>0, <2>1
    <2> QED
      BY <1>0, <1>6, <2>1, <2>2, <2>3 DEF ShareOne
  <1>7. CASE ShareDone
    BY <1>7 DEF ShareDone
  <1>8. ASSUME NEW r \in Follower, FollowUnblock(r) PROVE TypeOK'
    BY <1>0, <1>8, TakeNextType DEF FollowUnblock
  <1>9. ASSUME NEW r \in Follower, FollowGoOn(r) PROVE TypeOK'
    BY <1>9 DEF FollowGoOn
  <1>10. ASSUME NEW r \in Follower, FollowCount(r) PROVE TypeOK'
    <2>1. Head(counts[r]) \in Nat /\ Tail(counts[r]) \in Seq(Nat)
      BY <1>10, Queues DEF FollowCount
    <2> QED
      BY <1>0, <1>10, <2>1 DEF FollowCount
  <1>11. ASSUME NEW r \in Follower, FollowOne(r) PROVE TypeOK'
    <2>1. sub' \in [Follower -> Seq(Message)] /\ msgs' \in [Rank -> Seq(Message)]
      BY <1>11, TakeNextType DEF FollowOne
    <2>2. need' \in [Follower -> Nat]
      <3>1. need[r] \in Nat /\ need[r] > 0
        BY <1>11 DEF FollowOne
      <3> QED
        BY <1>11, <3>1 DEF FollowOne
    <2> QED
      BY <1>11, <2>1, <2>2 DEF FollowOne
  <1>12. ASSUME NEW r \in Follower, FollowDone(r) PROVE TypeOK'
    BY <1>12 DEF FollowDone
  <1>13. ASSUME NEW r \in Rank, Handle(r) PROVE TypeOK'
    <2>1. WorkAfter(work[r], msgs[r]) \in Nat
      BY WorkAfterNat
    <2>2. Append(seen[r], msgs[r]) \in Seq(Seq(Message)) /\ <<>> \in Seq(Message)
      OBVIOUS
    <2>3. pc' \in [Rank -> {"receive", "drain", "share", "count", "follow", "handle",
                          "launch", "process", "exit", "down"}]
      BY <1>13 DEF Handle
    <2> QED
      BY <1>13, <2>1, <2>2, <2>3 DEF Handle
  <1>14. ASSUME NEW r \in Rank, Launch(r) PROVE TypeOK'
    <2>1. work[r] \in Nat /\ launched[r] \in Nat /\ last[r] \in Nat
      OBVIOUS
    <2>2. work' \in [Rank -> Nat] /\ launched' \in [Rank -> Nat]
      BY <1>14, <2>1 DEF Launch
    <2>3. due' \in [Rank -> Nat] /\ last' \in [Rank -> Nat]
      <3> DEFINE n == IF work[r] > 0 THEN launched[r] + 1 ELSE 0
      <3>1. n \in Nat
        BY <2>1
      <3>2. \/ due' = [due EXCEPT ![r] = last[r]] /\ last' = [last EXCEPT ![r] = n]
            \/ due' = [due EXCEPT ![r] = n] /\ last' = last
        BY <1>14, Zenon DEF Launch
      <3> HIDE DEF n
      <3> QED
        BY <2>1, <3>1, <3>2
    <2> QED
      BY <1>14, <2>2, <2>3 DEF Launch
  <1>15. ASSUME NEW r \in Rank, Process(r) PROVE TypeOK'
    BY <1>15 DEF Process
  <1>16. ASSUME NEW r \in Rank, Shutdown(r) PROVE TypeOK'
    BY <1>16 DEF Shutdown
  <1>17. CASE UNCHANGED vars
    BY <1>17 DEF vars
  <1> QED
    BY <1>1, <1>2, <1>3, <1>4, <1>5, <1>6, <1>7, <1>8, <1>9, <1>10, <1>11, <1>12, <1>13, <1>14,
       <1>15, <1>16, <1>17 DEF Next, Step, Rest, Follower

LEMMA TypeInvariant == Spec => []TypeOK
  BY TypeInit, TypeNext, PTL DEF Spec

\* Ranks disagree neither on kinds of values nor on counting below zero: a follower never
\* takes more messages than it was told of.
THEOREM RanksTypeOK == Spec => []TypeOK
  BY TypeInvariant

-----------------------------------------------------------------------------
(* The history of the group, as rank 0 makes it: what it publishes, pub;   *)
(* the messages of each iteration, S[i], which end at cut[i] of pub; and,  *)
(* after i iterations, the batches left to launch and whether one is due.  *)

NoMessage == CHOOSE m : m \notin Message

History == [pub : [Nat -> Message \cup {NoMessage}], S : [Nat -> Seq(Message)], cut : [Nat -> Nat],
            left : [Nat -> Nat], busy : SUBSET Nat]

Bit(b)        == IF b THEN 1 ELSE 0
Done(r)       == Len(seen[r])
Blocked(h, i) == h.left[i] = 0 /\ i \notin h.busy
Target(h, i)  == WorkAfter(h.left[i - 1], h.S[i])

\* Iterations whose messages are settled, and messages published.
Rounds  == Done(0) + Bit(pc[0] \in {"share", "handle"})
Sent(h) == h.cut[Rounds] + (IF pc[0] = "drain" THEN Len(msgs[0]) ELSE 0)
                         - (IF pc[0] = "share" THEN Len(raws) ELSE 0)

Past(h) ==
  /\ h.cut[0] = 0 /\ h.left[0] = 0 /\ 0 \notin h.busy
  /\ \A i, j \in 0..Rounds : i <= j => h.cut[i] <= h.cut[j]
  /\ \A i \in 1..Rounds :
       /\ h.cut[i] = h.cut[i - 1] + Len(h.S[i])
       /\ \A j \in 1..Len(h.S[i]) : h.S[i][j] = h.pub[h.cut[i - 1] + j]
       /\ Blocked(h, i - 1) => Len(h.S[i]) >= 1
       /\ h.left[i] = IF Target(h, i) > 0 THEN Target(h, i) - 1 ELSE Target(h, i)
       /\ i \in h.busy <=> IF Overlap THEN Target(h, i) > 0 ELSE i - 1 \in h.busy

\* What a rank has received and not handled is the next of what was published.
Holds(h, r) == \A j \in 1..Len(msgs[r]) : msgs[r][j] = h.pub[h.cut[Done(r)] + j]

\* Every rank has handled the iterations it has been through as the history says.
RankState(h, r) ==
  /\ Done(r) <= Rounds
  /\ \A i \in 1..Done(r) : seen[r][i] = h.S[i]
  /\ Holds(h, r)
  /\ pc[r] = "launch" =>
       /\ Done(r) > 0 /\ work[r] = Target(h, Done(r))
       /\ last[r] # 0 <=> Done(r) - 1 \in h.busy
  /\ pc[r] \notin {"launch", "exit", "down"} =>
       /\ work[r] = h.left[Done(r)]
       /\ last[r] # 0 <=> Done(r) \in h.busy
  /\ pc[r] \in {"receive", "launch", "process", "exit", "down"} => msgs[r] = <<>>

\* Rank 0 has, shared or not, what it announced.
LeaderState(h) ==
  /\ pc[0] \notin {"count", "follow"}
  /\ pc[0] = "drain" => Len(msgs[0]) = Bit(Blocked(h, Done(0)))
  /\ pc[0] = "share" =>
       /\ Len(msgs[0]) + Len(raws) = Len(h.S[Done(0) + 1])
       /\ \A j \in 1..Len(raws) : raws[j] = h.pub[h.cut[Done(0)] + Len(msgs[0]) + j]
  /\ pc[0] = "handle" => Len(msgs[0]) = Len(h.S[Done(0) + 1])
  /\ pc[0] \notin {"drain", "share"} => raws = <<>>

\* On the way to a follower are the numbers and the messages it has not received.
Counted(r) == Done(r) + Bit(pc[r] \in {"follow", "handle"})
Taken(h, r) == h.cut[Done(r)] + Len(msgs[r])
OnWay(h, r) == /\ Len(sub[r]) = Sent(h) - Taken(h, r)
               /\ \A j \in 1..Len(sub[r]) : sub[r][j] = h.pub[Taken(h, r) + j]
FollowerState(h, r) ==
  /\ pc[r] \notin {"drain", "share"}
  /\ Counted(r) <= Rounds /\ Len(counts[r]) = Rounds - Counted(r)
  /\ \A i \in 1..Len(counts[r]) :
       counts[r][i] = Len(h.S[Counted(r) + i]) - Bit(Blocked(h, Counted(r) + i - 1))
  /\ OnWay(h, r)
  /\ pc[r] = "count" => Len(msgs[r]) = Bit(Blocked(h, Done(r)))
  /\ pc[r] = "follow" => need[r] + Len(msgs[r]) = Len(h.S[Done(r) + 1])
  /\ pc[r] = "handle" => Len(msgs[r]) = Len(h.S[Done(r) + 1])

Agree(h) == /\ Past(h) /\ LeaderState(h)
            /\ \A r \in Rank : RankState(h, r)
            /\ \A r \in Follower : FollowerState(h, r)

-----------------------------------------------------------------------------
(* Frames.                                                                 *)

LEMMA Types ==
  ASSUME TypeOK
  PROVE  /\ 0 \in Rank /\ Rank \subseteq Nat /\ Follower \subseteq Rank /\ 0 \notin Follower
         /\ raws \in Seq(Message) /\ Len(raws) \in Nat /\ Rounds \in Nat
         /\ \A r \in Rank : /\ msgs[r] \in Seq(Message) /\ seen[r] \in Seq(Seq(Message))
                            /\ Len(msgs[r]) \in Nat /\ Done(r) \in Nat
                            /\ work[r] \in Nat /\ last[r] \in Nat /\ launched[r] \in Nat
         /\ \A r \in Follower : /\ sub[r] \in Seq(Message) /\ counts[r] \in Seq(Nat)
                                /\ Len(sub[r]) \in Nat /\ Len(counts[r]) \in Nat /\ need[r] \in Nat
  <1>1. 0 \in Rank /\ Rank \subseteq Nat /\ Follower \subseteq Rank /\ 0 \notin Follower
    BY NumRanksAssumption DEF Rank, Follower
  <1>2. \A r \in Rank : /\ msgs[r] \in Seq(Message) /\ seen[r] \in Seq(Seq(Message))
                        /\ Len(msgs[r]) \in Nat /\ Done(r) \in Nat
                        /\ work[r] \in Nat /\ last[r] \in Nat /\ launched[r] \in Nat
    BY DEF TypeOK, Done
  <1>3. \A r \in Follower : /\ sub[r] \in Seq(Message) /\ counts[r] \in Seq(Nat)
                            /\ Len(sub[r]) \in Nat /\ Len(counts[r]) \in Nat /\ need[r] \in Nat
    BY DEF TypeOK
  <1>4. raws \in Seq(Message) /\ Len(raws) \in Nat
    BY DEF TypeOK
  <1>5. Rounds \in Nat
    BY <1>1, <1>2 DEF Rounds, Bit
  <1> QED
    BY <1>1, <1>2, <1>3, <1>4, <1>5

LEMMA HistoryTypes ==
  ASSUME NEW h \in History, NEW i \in Nat
  PROVE  h.cut[i] \in Nat /\ h.left[i] \in Nat /\ h.S[i] \in Seq(Message) /\ Len(h.S[i]) \in Nat
  <1>1. h.cut \in [Nat -> Nat] /\ h.left \in [Nat -> Nat] /\ h.S \in [Nat -> Seq(Message)]
    BY DEF History
  <1>2. h.S[i] \in Seq(Message)
    BY <1>1
  <1>3. Len(h.S[i]) \in Nat
    BY <1>2
  <1> QED
    BY <1>1, <1>2, <1>3

LEMMA PlaceTypes ==
  ASSUME TypeOK, NEW h \in History
  PROVE  /\ Sent(h) \in Int
         /\ \A r \in Rank : /\ h.cut[Done(r)] \in Nat /\ h.left[Done(r)] \in Nat /\ Taken(h, r) \in Nat
                            /\ Counted(r) \in Nat
  <1>1. h.cut[Rounds] \in Nat
    BY Types, HistoryTypes
  <1>2. Sent(h) \in Int
    <2>1. Len(msgs[0]) \in Nat /\ Len(raws) \in Nat
      BY Types
    <2>2. (IF pc[0] = "drain" THEN Len(msgs[0]) ELSE 0) \in Nat
          /\ (IF pc[0] = "share" THEN Len(raws) ELSE 0) \in Nat
      BY <2>1
    <2>3. \A x \in Nat, a \in Nat, b \in Nat : x + a - b \in Int
      OBVIOUS
    <2> QED
      BY <1>1, <2>2, <2>3, Zenon DEF Sent
  <1>3. ASSUME NEW r \in Rank
        PROVE  h.cut[Done(r)] \in Nat /\ h.left[Done(r)] \in Nat /\ Taken(h, r) \in Nat /\ Counted(r) \in Nat
    <2>1. Done(r) \in Nat /\ Len(msgs[r]) \in Nat
      BY Types
    <2>2. h.cut[Done(r)] \in Nat /\ h.left[Done(r)] \in Nat
      BY <2>1, HistoryTypes
    <2> QED
      BY <2>1, <2>2 DEF Taken, Counted, Bit
  <1> QED
    BY <1>2, <1>3

\* The iteration after the first n.
LEMMA PastAt ==
  ASSUME NEW h \in History, Past(h), NEW n \in Nat, Rounds \in Nat, n + 1 <= Rounds
  PROVE  /\ h.cut[n + 1] = h.cut[n] + Len(h.S[n + 1])
         /\ \A j \in 1..Len(h.S[n + 1]) : h.S[n + 1][j] = h.pub[h.cut[n] + j]
         /\ Blocked(h, n) => Len(h.S[n + 1]) >= 1
         /\ Target(h, n + 1) = WorkAfter(h.left[n], h.S[n + 1])
         /\ h.left[n + 1] = IF Target(h, n + 1) > 0 THEN Target(h, n + 1) - 1 ELSE Target(h, n + 1)
         /\ n + 1 \in h.busy <=> IF Overlap THEN Target(h, n + 1) > 0 ELSE n \in h.busy
  <1>1. n + 1 \in 1..Rounds /\ (n + 1) - 1 = n
    OBVIOUS
  <1>2. PICK i \in 1..Rounds : i = n + 1 /\ i - 1 = n
    BY <1>1
  <1>3. /\ h.cut[i] = h.cut[i - 1] + Len(h.S[i])
        /\ \A j \in 1..Len(h.S[i]) : h.S[i][j] = h.pub[h.cut[i - 1] + j]
        /\ Blocked(h, i - 1) => Len(h.S[i]) >= 1
        /\ h.left[i] = IF Target(h, i) > 0 THEN Target(h, i) - 1 ELSE Target(h, i)
        /\ i \in h.busy <=> IF Overlap THEN Target(h, i) > 0 ELSE i - 1 \in h.busy
    BY DEF Past
  <1>4. Target(h, i) = WorkAfter(h.left[i - 1], h.S[i])
    BY DEF Target
  <1> QED
    BY <1>2, <1>3, <1>4

LEMMA PastFrame ==
  ASSUME NEW h, Past(h), Rounds' = Rounds
  PROVE  Past(h)'
  BY DEF Past, Blocked, Target

LEMMA RankFrame ==
  ASSUME NEW h, NEW q, RankState(h, q), Rounds' = Rounds,
         seen'[q] = seen[q], msgs'[q] = msgs[q], pc'[q] = pc[q], work'[q] = work[q], last'[q] = last[q]
  PROVE  RankState(h, q)'
  BY DEF RankState, Done, Target, Holds

LEMMA FollowerFrame ==
  ASSUME NEW h, NEW q, FollowerState(h, q), Rounds' = Rounds, Sent(h)' = Sent(h),
         seen'[q] = seen[q], msgs'[q] = msgs[q], pc'[q] = pc[q], counts'[q] = counts[q],
         sub'[q] = sub[q], need'[q] = need[q]
  PROVE  FollowerState(h, q)'
  BY DEF FollowerState, Done, Counted, Taken, Blocked, OnWay

LEMMA LeaderFrame ==
  ASSUME NEW h, LeaderState(h), seen'[0] = seen[0], msgs'[0] = msgs[0], pc'[0] = pc[0], raws' = raws
  PROVE  LeaderState(h)' /\ Rounds' = Rounds /\ Sent(h)' = Sent(h)
  BY DEF LeaderState, Done, Blocked, Rounds, Sent

\* A step of one follower.
LEMMA FollowerMoves ==
  ASSUME TypeOK, NEW h \in History, Agree(h), NEW r \in Follower, UNCHANGED raws,
         \A q \in Rank \ {r} : /\ seen'[q] = seen[q] /\ msgs'[q] = msgs[q] /\ pc'[q] = pc[q]
                               /\ work'[q] = work[q] /\ last'[q] = last[q],
         \A q \in Follower \ {r} : counts'[q] = counts[q] /\ sub'[q] = sub[q] /\ need'[q] = need[q],
         Rounds' = Rounds /\ Sent(h)' = Sent(h) => RankState(h, r)' /\ FollowerState(h, r)'
  PROVE  Agree(h)'
  <1>1. r \in Rank /\ r # 0 /\ 0 \in Rank /\ Follower \subseteq Rank
    BY Types
  <1>2. LeaderState(h)' /\ Rounds' = Rounds /\ Sent(h)' = Sent(h)
    BY <1>1, LeaderFrame DEF Agree
  <1>3. Past(h)'
    BY <1>2, PastFrame DEF Agree
  <1>4. \A q \in Rank \ {r} : RankState(h, q)'
    BY <1>2, RankFrame DEF Agree
  <1>5. \A q \in Follower \ {r} : FollowerState(h, q)'
    BY <1>1, <1>2, FollowerFrame DEF Agree
  <1>6. Rank' = Rank /\ Follower' = Follower
    BY DEF Rank, Follower
  <1> QED
    BY <1>2, <1>3, <1>4, <1>5, <1>6 DEF Agree

\* Taking a message keeps what a follower has, and what is on its way, in place.

LEMMA TakeNextMoves ==
  ASSUME TypeOK, NEW h \in History, NEW r \in Follower, TakeNext(r), seen' = seen,
         Holds(h, r), OnWay(h, r), Sent(h)' = Sent(h)
  PROVE  /\ Holds(h, r)' /\ OnWay(h, r)'
         /\ Len(msgs'[r]) = Len(msgs[r]) + 1
  <1>1. /\ r \in Rank /\ Done(r)' = Done(r) /\ h.cut[Done(r)] \in Nat
        /\ sub[r] \in Seq(Message) /\ msgs[r] \in Seq(Message)
        /\ Taken(h, r) = h.cut[Done(r)] + Len(msgs[r]) /\ Sent(h) \in Int
    BY Types, PlaceTypes DEF Done, Taken
  <1>2. /\ msgs'[r] = Append(msgs[r], Head(sub[r])) /\ sub'[r] = Tail(sub[r]) /\ sub[r] # <<>>
    BY <1>1 DEF TakeNext, TypeOK
  <1>3. /\ Len(msgs'[r]) = Len(msgs[r]) + 1
        /\ \A j \in 1..Len(msgs[r]) : msgs'[r][j] = msgs[r][j]
        /\ msgs'[r][Len(msgs[r]) + 1] = sub[r][1]
        /\ Len(sub'[r]) = Len(sub[r]) - 1 /\ \A j \in 1..Len(sub'[r]) : sub'[r][j] = sub[r][j + 1]
        /\ Len(sub[r]) >= 1 /\ Len(msgs[r]) \in Nat /\ Len(sub[r]) \in Nat
    BY <1>1, <1>2
  <1>4. sub[r][1] = h.pub[Taken(h, r) + 1]
    BY <1>3 DEF OnWay
  <1>5. Holds(h, r)'
    <2> SUFFICES ASSUME NEW j \in 1..(Len(msgs[r]) + 1)
                 PROVE  msgs'[r][j] = h.pub[h.cut[Done(r)] + j]
      BY <1>1, <1>3 DEF Holds
    <2>1. CASE j = Len(msgs[r]) + 1
      <3>1. h.cut[Done(r)] + j = Taken(h, r) + 1
        <4>1. h.cut[Done(r)] \in Nat /\ Len(msgs[r]) \in Nat /\ Taken(h, r) = h.cut[Done(r)] + Len(msgs[r])
          BY <1>1, <1>3
        <4> QED
          BY <2>1, <4>1
      <3> QED
        BY <1>3, <1>4, <2>1, <3>1
    <2>2. CASE j # Len(msgs[r]) + 1
      <3>1. j \in 1..Len(msgs[r])
        BY <1>3, <2>2
      <3> QED
        BY <1>3, <3>1 DEF Holds
    <2> QED
      BY <2>1, <2>2
  <1>6. Taken(h, r)' = Taken(h, r) + 1
    BY <1>1, <1>3 DEF Taken
  <1>7. \A j \in 1..Len(sub'[r]) : sub'[r][j] = h.pub[Taken(h, r)' + j]
    <2> SUFFICES ASSUME NEW j \in 1..Len(sub'[r]) PROVE sub'[r][j] = h.pub[Taken(h, r)' + j]
      OBVIOUS
    <2>1. j + 1 \in 1..Len(sub[r]) /\ sub'[r][j] = sub[r][j + 1]
      BY <1>3
    <2>2. sub[r][j + 1] = h.pub[Taken(h, r) + (j + 1)]
      BY <2>1 DEF OnWay
    <2>3. Taken(h, r) + (j + 1) = Taken(h, r)' + j
      <3>1. j \in Int /\ Taken(h, r) \in Int
        BY <1>1, <1>3
      <3> QED
        BY <1>6, <3>1
    <2> QED
      BY <2>1, <2>2, <2>3
  <1>8. Len(sub'[r]) = Sent(h)' - Taken(h, r)'
    BY <1>1, <1>3, <1>6 DEF OnWay
  <1> QED
    BY <1>3, <1>5, <1>7, <1>8 DEF OnWay

LEMMA FollowUnblockStep ==
  ASSUME TypeOK, NEW h \in History, Agree(h), NEW r \in Follower, FollowUnblock(r)
  PROVE  Agree(h)'
  <1>1. /\ r \in Rank /\ pc[r] = "receive" /\ pc' = [pc EXCEPT ![r] = "count"]
        /\ work[r] = 0 /\ last[r] = 0 /\ TakeNext(r)
        /\ UNCHANGED <<counts, raws, need, work, last, seen>>
    BY Types DEF FollowUnblock, Goto, Blocking, loopVars
  <1>2. RankState(h, r) /\ FollowerState(h, r)
    BY <1>1 DEF Agree
  <1>3. ASSUME Rounds' = Rounds, Sent(h)' = Sent(h) PROVE RankState(h, r)' /\ FollowerState(h, r)'
    <2>1. Blocked(h, Done(r)) /\ msgs[r] = <<>>
      BY <1>1, <1>2 DEF RankState, Blocked
    <2>2. Holds(h, r)' /\ OnWay(h, r)' /\ Len(msgs'[r]) = 1
      <3>1. Holds(h, r) /\ OnWay(h, r)
        BY <1>2 DEF RankState, FollowerState
      <3>2. Holds(h, r)' /\ OnWay(h, r)' /\ Len(msgs'[r]) = Len(msgs[r]) + 1
        BY <1>1, <1>3, <3>1, TakeNextMoves
      <3> QED
        BY <2>1, <3>2
    <2>3. pc'[r] = "count" /\ Done(r)' = Done(r) /\ Counted(r)' = Counted(r)
      BY <1>1 DEF TypeOK, Done, Counted, Bit
    <2>4. RankState(h, r)'
      BY <1>1, <1>2, <1>3, <2>2, <2>3 DEF RankState
    <2>5. FollowerState(h, r)'
      BY <1>1, <1>2, <1>3, <2>1, <2>2, <2>3 DEF FollowerState, Bit, Blocked
    <2> QED
      BY <2>4, <2>5
  <1> QED
    BY <1>1, <1>3, FollowerMoves DEF TypeOK, TakeNext

LEMMA FollowGoOnStep ==
  ASSUME TypeOK, NEW h \in History, Agree(h), NEW r \in Follower, FollowGoOn(r)
  PROVE  Agree(h)'
  <1>1. /\ r \in Rank /\ pc[r] = "receive" /\ pc' = [pc EXCEPT ![r] = "count"]
        /\ ~(work[r] = 0 /\ last[r] = 0)
        /\ UNCHANGED <<counts, sub, msgs, raws, need, work, last, seen>>
    BY Types DEF FollowGoOn, Goto, Blocking, channelVars, receiveVars, loopVars
  <1>2. RankState(h, r) /\ FollowerState(h, r)
    BY <1>1 DEF Agree
  <1>3. ASSUME Rounds' = Rounds, Sent(h)' = Sent(h) PROVE RankState(h, r)' /\ FollowerState(h, r)'
    <2>1. ~Blocked(h, Done(r)) /\ msgs[r] = <<>>
      BY <1>1, <1>2 DEF RankState, Blocked
    <2>2. /\ pc'[r] = "count" /\ Done(r)' = Done(r) /\ Counted(r)' = Counted(r)
          /\ Taken(h, r)' = Taken(h, r)
      BY <1>1 DEF TypeOK, Done, Counted, Bit, Taken
    <2>3. Holds(h, r)' /\ OnWay(h, r)'
      BY <1>1, <1>2, <1>3, <2>2 DEF RankState, FollowerState, Holds, OnWay
    <2>4. RankState(h, r)'
      BY <1>1, <1>2, <1>3, <2>2, <2>3 DEF RankState
    <2>5. FollowerState(h, r)'
      BY <1>1, <1>2, <1>3, <2>1, <2>2, <2>3 DEF FollowerState, Bit, Blocked
    <2> QED
      BY <2>4, <2>5
  <1> QED
    BY <1>1, <1>3, FollowerMoves DEF TypeOK

LEMMA FollowCountStep ==
  ASSUME TypeOK, NEW h \in History, Agree(h), NEW r \in Follower, FollowCount(r)
  PROVE  Agree(h)'
  <1>1. /\ r \in Rank /\ pc[r] = "count" /\ pc' = [pc EXCEPT ![r] = "follow"]
        /\ counts[r] # <<>> /\ counts' = [counts EXCEPT ![r] = Tail(@)]
        /\ need' = [need EXCEPT ![r] = Head(counts[r])]
        /\ UNCHANGED <<sub, msgs, raws, work, last, seen>>
    BY Types DEF FollowCount, Goto, loopVars
  <1>2. RankState(h, r) /\ FollowerState(h, r)
    BY <1>1 DEF Agree
  <1>3. ASSUME Rounds' = Rounds, Sent(h)' = Sent(h) PROVE RankState(h, r)' /\ FollowerState(h, r)'
    <2>1. /\ pc'[r] = "follow" /\ Done(r)' = Done(r) /\ Taken(h, r)' = Taken(h, r)
          /\ Counted(r) = Done(r) /\ Counted(r)' = Done(r) + 1 /\ Done(r) \in Nat
      BY <1>1, Types DEF TypeOK, Done, Counted, Bit, Taken
    <2>2. /\ need'[r] = counts[r][1] /\ Len(counts[r]) >= 1 /\ Len(counts'[r]) = Len(counts[r]) - 1
          /\ \A i \in 1..Len(counts'[r]) : counts'[r][i] = counts[r][i + 1]
          /\ Len(counts[r]) \in Nat
      BY <1>1, Types DEF TypeOK
    <2>3. Holds(h, r)' /\ OnWay(h, r)'
      BY <1>1, <1>2, <1>3, <2>1 DEF RankState, FollowerState, Holds, OnWay
    <2>4. RankState(h, r)'
      BY <1>1, <1>2, <1>3, <2>1, <2>3 DEF RankState
    <2>5. counts[r][1] = Len(h.S[Done(r) + 1]) - Bit(Blocked(h, Done(r))) /\ Len(msgs[r]) = Bit(Blocked(h, Done(r)))
      <3>1. counts[r][1] = Len(h.S[Counted(r) + 1]) - Bit(Blocked(h, Counted(r) + 1 - 1))
        BY <1>2, <2>2 DEF FollowerState
      <3>2. Counted(r) + 1 - 1 = Done(r)
        BY <2>1
      <3> QED
        BY <1>1, <1>2, <2>1, <3>1, <3>2 DEF FollowerState
    <2>6. need'[r] + Len(msgs'[r]) = Len(h.S[Done(r) + 1])
      <3>1. Bit(Blocked(h, Done(r))) \in Nat /\ Len(h.S[Done(r) + 1]) \in Nat
        BY <2>1, HistoryTypes DEF Bit
      <3> QED
        BY <1>1, <2>2, <2>5, <3>1
    <2>7. Counted(r)' <= Rounds' /\ Len(counts'[r]) = Rounds' - Counted(r)'
      BY <1>2, <1>3, <2>1, <2>2, Types DEF FollowerState
    <2>8. ASSUME NEW i \in 1..Len(counts'[r])
          PROVE  counts'[r][i] = Len(h.S[Counted(r)' + i]) - Bit(Blocked(h, Counted(r)' + i - 1))
      <3>1. i + 1 \in 1..Len(counts[r]) /\ i \in Nat
        BY <2>2
      <3>2. counts[r][i + 1] = Len(h.S[Counted(r) + (i + 1)]) - Bit(Blocked(h, Counted(r) + (i + 1) - 1))
        BY <1>2, <3>1 DEF FollowerState
      <3>3. Counted(r) + (i + 1) = Counted(r)' + i /\ Counted(r) + (i + 1) - 1 = Counted(r)' + i - 1
        BY <2>1, <3>1
      <3> QED
        BY <2>2, <3>2, <3>3
    <2>9. FollowerState(h, r)'
      BY <1>1, <1>2, <2>1, <2>3, <2>6, <2>7, <2>8 DEF FollowerState, Blocked
    <2> QED
      BY <2>4, <2>9
  <1> QED
    BY <1>1, <1>3, FollowerMoves DEF TypeOK

LEMMA FollowOneStep ==
  ASSUME TypeOK, NEW h \in History, Agree(h), NEW r \in Follower, FollowOne(r)
  PROVE  Agree(h)'
  <1>1. /\ r \in Rank /\ pc[r] = "follow" /\ TakeNext(r) /\ need' = [need EXCEPT ![r] = @ - 1]
        /\ UNCHANGED <<counts, pc, raws, work, last, seen>>
    BY Types DEF FollowOne, loopVars
  <1>2. RankState(h, r) /\ FollowerState(h, r)
    BY <1>1 DEF Agree
  <1>3. ASSUME Rounds' = Rounds, Sent(h)' = Sent(h) PROVE RankState(h, r)' /\ FollowerState(h, r)'
    <2>1. Holds(h, r)' /\ OnWay(h, r)' /\ Len(msgs'[r]) = Len(msgs[r]) + 1
      <3>1. Holds(h, r) /\ OnWay(h, r)
        BY <1>2 DEF RankState, FollowerState
      <3> QED
        BY <1>1, <1>3, <3>1, TakeNextMoves
    <2>2. Done(r)' = Done(r) /\ Counted(r)' = Counted(r)
      BY <1>1 DEF Done, Counted
    <2>3. need'[r] + Len(msgs'[r]) = need[r] + Len(msgs[r])
      <3>1. need'[r] = need[r] - 1 /\ need[r] \in Nat /\ Len(msgs[r]) \in Nat
        BY <1>1, Types DEF TypeOK
      <3> QED
        BY <2>1, <3>1
    <2>4. RankState(h, r)'
      BY <1>1, <1>2, <1>3, <2>1, <2>2 DEF RankState
    <2>5. FollowerState(h, r)'
      BY <1>1, <1>2, <1>3, <2>1, <2>2, <2>3 DEF FollowerState, Blocked
    <2> QED
      BY <2>4, <2>5
  <1> QED
    BY <1>1, <1>3, FollowerMoves DEF TypeOK, TakeNext

LEMMA FollowDoneStep ==
  ASSUME TypeOK, NEW h \in History, Agree(h), NEW r \in Follower, FollowDone(r)
  PROVE  Agree(h)'
  <1>1. /\ r \in Rank /\ pc[r] = "follow" /\ need[r] = 0 /\ pc' = [pc EXCEPT ![r] = "handle"]
        /\ UNCHANGED <<counts, sub, msgs, raws, need, work, last, seen>>
    BY Types DEF FollowDone, Goto, channelVars, receiveVars, loopVars
  <1>2. RankState(h, r) /\ FollowerState(h, r)
    BY <1>1 DEF Agree
  <1>3. ASSUME Rounds' = Rounds, Sent(h)' = Sent(h) PROVE RankState(h, r)' /\ FollowerState(h, r)'
    <2>1. /\ pc'[r] = "handle" /\ Done(r)' = Done(r) /\ Counted(r)' = Counted(r)
          /\ Taken(h, r)' = Taken(h, r) /\ Len(msgs[r]) \in Nat
      BY <1>1, Types DEF TypeOK, Done, Counted, Bit, Taken
    <2>2. Holds(h, r)' /\ OnWay(h, r)'
      BY <1>1, <1>2, <1>3, <2>1 DEF RankState, FollowerState, Holds, OnWay
    <2>3. Len(msgs[r]) = Len(h.S[Done(r) + 1])
      BY <1>1, <1>2, <2>1 DEF FollowerState
    <2>4. RankState(h, r)'
      BY <1>1, <1>2, <1>3, <2>1, <2>2 DEF RankState
    <2>5. FollowerState(h, r)'
      BY <1>1, <1>2, <1>3, <2>1, <2>2, <2>3 DEF FollowerState, Blocked
    <2> QED
      BY <2>4, <2>5
  <1> QED
    BY <1>1, <1>3, FollowerMoves DEF TypeOK

-----------------------------------------------------------------------------
(* The rest of the loop, which all ranks share.                            *)

\* A step of rank 0 that publishes and announces nothing.
LEMMA LeaderMoves ==
  ASSUME TypeOK, NEW h \in History, Agree(h), UNCHANGED <<counts, sub, need>>,
         Rounds' = Rounds, Sent(h)' = Sent(h),
         \A q \in Follower : /\ seen'[q] = seen[q] /\ msgs'[q] = msgs[q] /\ pc'[q] = pc[q]
                             /\ work'[q] = work[q] /\ last'[q] = last[q],
         RankState(h, 0)', LeaderState(h)'
  PROVE  Agree(h)'
  <1>1. Past(h)'
    BY PastFrame DEF Agree
  <1>2. \A q \in Follower : RankState(h, q)'
    BY RankFrame, Types DEF Agree
  <1>3. \A q \in Follower : FollowerState(h, q)'
    BY FollowerFrame DEF Agree
  <1>4. Rank' = Rank /\ Follower' = Follower /\ Rank = Follower \cup {0}
    BY NumRanksAssumption DEF Rank, Follower
  <1> QED
    BY <1>1, <1>2, <1>3, <1>4 DEF Agree

\* Sequences are equal when they agree everywhere.
LEMMA SameSequence ==
  ASSUME NEW A, NEW s \in Seq(A), NEW t \in Seq(A), Len(s) = Len(t), \A i \in 1..Len(s) : s[i] = t[i]
  PROVE  s = t
  OBVIOUS

\* A rank that has all messages of an iteration handles those of the history.
LEMMA HandleRank ==
  ASSUME TypeOK, NEW h \in History, Agree(h), NEW r \in Rank, Handle(r), Rounds' = Rounds,
         Done(r) + 1 <= Rounds, Len(msgs[r]) = Len(h.S[Done(r) + 1])
  PROVE  /\ RankState(h, r)' /\ Done(r)' = Done(r) + 1
         /\ msgs'[r] = <<>> /\ Taken(h, r)' = Taken(h, r)
  <1>1. /\ pc[r] = "handle" /\ work' = [work EXCEPT ![r] = WorkAfter(@, msgs[r])]
        /\ seen' = [seen EXCEPT ![r] = Append(@, msgs[r])] /\ msgs' = [msgs EXCEPT ![r] = <<>>]
        /\ pc' = [pc EXCEPT ![r] = IF Contains(msgs[r], "exit") THEN "exit" ELSE "launch"]
        /\ UNCHANGED last
    BY DEF Handle, Goto
  <1>2. RankState(h, r) /\ Past(h)
    BY DEF Agree
  <1>3. /\ Done(r) \in Nat /\ Rounds \in Nat /\ msgs[r] \in Seq(Message) /\ seen[r] \in Seq(Seq(Message))
        /\ h.S[Done(r) + 1] \in Seq(Message) /\ h.cut[Done(r)] \in Nat /\ Len(msgs[r]) \in Nat
    <2>1. /\ Done(r) \in Nat /\ Rounds \in Nat /\ msgs[r] \in Seq(Message) /\ seen[r] \in Seq(Seq(Message))
          /\ Len(msgs[r]) \in Nat
      BY Types
    <2>2. Done(r) + 1 \in Nat
      BY <2>1
    <2> QED
      BY <2>1, <2>2, HistoryTypes
  <1>4. /\ seen'[r] = Append(seen[r], msgs[r]) /\ msgs'[r] = <<>>
        /\ work'[r] = WorkAfter(work[r], msgs[r]) /\ pc'[r] \in {"exit", "launch"} /\ last'[r] = last[r]
    BY <1>1 DEF TypeOK
  <1>5. /\ Done(r)' = Done(r) + 1 /\ \A i \in 1..Done(r) : seen'[r][i] = seen[r][i]
        /\ seen'[r][Done(r) + 1] = msgs[r]
    BY <1>3, <1>4 DEF Done
  <1>6. Done(r) + 1 \in 1..Rounds /\ Done(r) + 1 - 1 = Done(r)
    BY <1>3
  <1>7. /\ h.cut[Done(r) + 1] = h.cut[Done(r)] + Len(h.S[Done(r) + 1])
        /\ \A j \in 1..Len(h.S[Done(r) + 1]) : h.S[Done(r) + 1][j] = h.pub[h.cut[Done(r)] + j]
    BY <1>2, <1>3, PastAt
  <1>8. msgs[r] = h.S[Done(r) + 1]
    <2>1. \A j \in 1..Len(msgs[r]) : msgs[r][j] = h.S[Done(r) + 1][j]
      BY <1>2, <1>7 DEF RankState, Holds
    <2> QED
      BY <1>3, <2>1, SameSequence
  <1>9. Taken(h, r)' = Taken(h, r)
    BY <1>3, <1>4, <1>5, <1>7 DEF Taken
  <1>10. \A i \in 1..(Done(r) + 1) : seen'[r][i] = h.S[i]
    <2> SUFFICES ASSUME NEW i \in 1..(Done(r) + 1) PROVE seen'[r][i] = h.S[i]
      OBVIOUS
    <2>1. CASE i = Done(r) + 1
      BY <1>5, <1>8, <2>1
    <2>2. CASE i # Done(r) + 1
      <3>1. i \in 1..Done(r)
        BY <1>3, <2>2
      <3> QED
        BY <1>2, <1>5, <3>1 DEF RankState
    <2> QED
      BY <2>1, <2>2
  <1>11. work'[r] = Target(h, Done(r) + 1) /\ (last'[r] # 0 <=> Done(r) \in h.busy)
    <2>1. work[r] = h.left[Done(r)] /\ (last[r] # 0 <=> Done(r) \in h.busy)
      BY <1>1, <1>2 DEF RankState
    <2>2. Target(h, Done(r) + 1) = WorkAfter(h.left[Done(r)], h.S[Done(r) + 1])
      BY <1>2, <1>3, PastAt
    <2> QED
      BY <1>4, <1>8, <2>1, <2>2
  <1>12. RankState(h, r)'
    <2>1. Holds(h, r)'
      BY <1>4 DEF Holds
    <2>2. Done(r)' > 0 /\ Done(r)' <= Rounds'
      BY <1>3, <1>5
    <2>3. Target(h, Done(r))' = Target(h, Done(r) + 1)
      BY <1>5 DEF Target
    <2>4. work'[r] = Target(h, Done(r))' /\ (last'[r] # 0 <=> Done(r)' - 1 \in h.busy)
      BY <1>3, <1>5, <1>11, <2>3
    <2>5. \A i \in 1..Done(r)' : seen'[r][i] = h.S[i]
      BY <1>5, <1>10
    <2> QED
      BY <1>4, <2>1, <2>2, <2>4, <2>5 DEF RankState
  <1> QED
    BY <1>4, <1>5, <1>9, <1>12

\* Launching leaves a rank where the history says it is after the iteration.
LEMMA LaunchRank ==
  ASSUME TypeOK, NEW h \in History, Agree(h), NEW r \in Rank, Launch(r), Rounds' = Rounds
  PROVE  /\ RankState(h, r)' /\ Done(r)' = Done(r) /\ pc'[r] = "process"
         /\ msgs' = msgs /\ Taken(h, r)' = Taken(h, r)
  <1>1. /\ pc[r] = "launch" /\ pc' = [pc EXCEPT ![r] = "process"]
        /\ work' = [work EXCEPT ![r] = IF @ > 0 THEN @ - 1 ELSE @]
        /\ IF Overlap THEN last' = [last EXCEPT ![r] = IF work[r] > 0 THEN launched[r] + 1 ELSE 0]
                      ELSE last' = last
        /\ UNCHANGED <<seen, msgs>>
    BY DEF Launch, Goto, receiveVars
  <1>2. RankState(h, r) /\ Past(h)
    BY DEF Agree
  <1>3. /\ Done(r) \in Nat /\ Rounds \in Nat /\ work[r] \in Nat /\ last[r] \in Nat /\ launched[r] \in Nat
    BY Types
  <1>4. /\ Done(r) > 0 /\ Done(r) <= Rounds /\ work[r] = Target(h, Done(r))
        /\ last[r] # 0 <=> Done(r) - 1 \in h.busy
    BY <1>1, <1>2 DEF RankState
  <1>5. PICK n \in Nat : n + 1 = Done(r) /\ n = Done(r) - 1
    BY <1>3, <1>4
  <1>6. /\ h.left[Done(r)] = IF Target(h, Done(r)) > 0 THEN Target(h, Done(r)) - 1 ELSE Target(h, Done(r))
        /\ Done(r) \in h.busy <=> IF Overlap THEN Target(h, Done(r)) > 0 ELSE n \in h.busy
    BY <1>2, <1>3, <1>4, <1>5, PastAt
  <1>7. pc'[r] = "process" /\ Done(r)' = Done(r) /\ Taken(h, r)' = Taken(h, r)
    BY <1>1 DEF TypeOK, Done, Taken
  <1>8. work'[r] = h.left[Done(r)]
    BY <1>1, <1>3, <1>4, <1>6 DEF TypeOK
  <1>9. last'[r] # 0 <=> Done(r) \in h.busy
    <2>1. CASE Overlap
      <3>1. last'[r] = IF work[r] > 0 THEN launched[r] + 1 ELSE 0
        BY <1>1, <2>1 DEF TypeOK
      <3> QED
        BY <1>3, <1>4, <1>6, <2>1, <3>1
    <2>2. CASE ~Overlap
      BY <1>1, <1>4, <1>5, <1>6, <2>2
    <2> QED
      BY <2>1, <2>2
  <1>10. Holds(h, r)' /\ msgs'[r] = <<>>
    BY <1>1, <1>2, <1>7 DEF RankState, Holds
  <1>11. RankState(h, r)'
    BY <1>1, <1>2, <1>7, <1>8, <1>9, <1>10 DEF RankState
  <1> QED
    BY <1>1, <1>7, <1>11

LEMMA ProcessRank ==
  ASSUME TypeOK, NEW h \in History, Agree(h), NEW r \in Rank, Process(r), Rounds' = Rounds
  PROVE  RankState(h, r)'
  <1>1. /\ pc[r] = "process" /\ pc'[r] = "receive" /\ UNCHANGED <<msgs, seen, work, last>>
    BY DEF Process, Goto, receiveVars, TypeOK
  <1>2. RankState(h, r) /\ Done(r)' = Done(r)
    BY <1>1 DEF Agree, Done
  <1> QED
    BY <1>1, <1>2 DEF RankState, Holds

LEMMA ShutdownRank ==
  ASSUME TypeOK, NEW h \in History, Agree(h), NEW r \in Rank, Shutdown(r), Rounds' = Rounds
  PROVE  RankState(h, r)'
  <1>1. /\ pc[r] = "exit" /\ pc'[r] = "down" /\ UNCHANGED <<msgs, seen, work, last>>
    BY DEF Shutdown, Goto, receiveVars, loopVars, TypeOK
  <1>2. RankState(h, r) /\ Done(r)' = Done(r)
    BY <1>1 DEF Agree, Done
  <1> QED
    BY <1>1, <1>2 DEF RankState, Holds

\* Steps of the loop, at a follower.
LEMMA FollowerLoop ==
  ASSUME TypeOK, NEW h \in History, Agree(h), NEW r \in Follower,
         Handle(r) \/ Launch(r) \/ Process(r) \/ Shutdown(r)
  PROVE  Agree(h)'
  <1>1. /\ r \in Rank /\ UNCHANGED <<counts, sub, raws, need>>
        /\ \A q \in Rank \ {r} : /\ seen'[q] = seen[q] /\ msgs'[q] = msgs[q] /\ pc'[q] = pc[q]
                                /\ work'[q] = work[q] /\ last'[q] = last[q]
    <2>1. r \in Rank
      BY Types
    <2>2. CASE Handle(r)
      BY <2>1, <2>2 DEF Handle, Goto, channelVars, TypeOK
    <2>3. CASE Launch(r)
      BY <2>1, <2>3 DEF Launch, Goto, channelVars, receiveVars, TypeOK
    <2>4. CASE Process(r)
      BY <2>1, <2>4 DEF Process, Goto, channelVars, receiveVars, TypeOK
    <2>5. CASE Shutdown(r)
      BY <2>1, <2>5 DEF Shutdown, Goto, channelVars, receiveVars, loopVars, TypeOK
    <2> QED
      BY <2>1, <2>2, <2>3, <2>4, <2>5
  <1>2. FollowerState(h, r) /\ Done(r) \in Nat /\ Rounds \in Nat
    BY <1>1, Types DEF Agree
  <1>3. ASSUME Rounds' = Rounds, Sent(h)' = Sent(h) PROVE RankState(h, r)' /\ FollowerState(h, r)'
    <2>1. ASSUME RankState(h, r)', Taken(h, r)' = Taken(h, r), Counted(r)' = Counted(r),
                 pc'[r] \notin {"drain", "share", "count", "follow", "handle"}
          PROVE  FollowerState(h, r)'
      <3>1. OnWay(h, r)'
        BY <1>1, <1>2, <1>3, <2>1 DEF FollowerState, OnWay
      <3> QED
        BY <1>1, <1>2, <1>3, <2>1, <3>1 DEF FollowerState, Blocked
    <2>2. CASE Handle(r)
      <3>1. pc[r] = "handle" /\ pc'[r] \in {"exit", "launch"}
        BY <1>1, <2>2 DEF Handle, Goto, TypeOK
      <3>2. Counted(r) = Done(r) + 1 /\ Len(msgs[r]) = Len(h.S[Done(r) + 1]) /\ Done(r) + 1 <= Rounds
        BY <1>2, <3>1 DEF FollowerState, Counted, Bit
      <3>3. RankState(h, r)' /\ Done(r)' = Done(r) + 1 /\ Taken(h, r)' = Taken(h, r)
        BY <1>1, <1>3, <2>2, <3>2, HandleRank
      <3>4. Counted(r)' = Counted(r)
        BY <1>2, <3>1, <3>2, <3>3 DEF Counted, Bit
      <3> QED
        BY <2>1, <3>1, <3>3, <3>4
    <2>3. CASE Launch(r)
      <3>1. pc[r] = "launch"
        BY <2>3 DEF Launch
      <3>2. RankState(h, r)' /\ Done(r)' = Done(r) /\ Taken(h, r)' = Taken(h, r) /\ pc'[r] = "process"
        BY <1>1, <1>3, <2>3, LaunchRank
      <3>3. Counted(r)' = Counted(r)
        BY <3>1, <3>2 DEF Counted
      <3> QED
        BY <2>1, <3>2, <3>3
    <2>4. CASE Process(r)
      <3>1. pc[r] = "process" /\ pc'[r] = "receive" /\ UNCHANGED <<msgs, seen>>
        BY <1>1, <2>4 DEF Process, Goto, receiveVars, TypeOK
      <3>2. Counted(r)' = Counted(r) /\ Taken(h, r)' = Taken(h, r)
        BY <3>1 DEF Counted, Taken, Done
      <3> QED
        BY <1>1, <1>3, <2>1, <2>4, <3>1, <3>2, ProcessRank
    <2>5. CASE Shutdown(r)
      <3>1. pc[r] = "exit" /\ pc'[r] = "down" /\ UNCHANGED <<msgs, seen>>
        BY <1>1, <2>5 DEF Shutdown, Goto, receiveVars, loopVars, TypeOK
      <3>2. Counted(r)' = Counted(r) /\ Taken(h, r)' = Taken(h, r)
        BY <3>1 DEF Counted, Taken, Done
      <3> QED
        BY <1>1, <1>3, <2>1, <2>5, <3>1, <3>2, ShutdownRank
    <2> QED
      BY <2>2, <2>3, <2>4, <2>5
  <1> QED
    BY <1>1, <1>3, FollowerMoves

\* A step of rank 0 leaves the followers where they are.
LEMMA LeaderAlone ==
  ASSUME TypeOK, UNCHANGED seen \/ (\E v : seen' = [seen EXCEPT ![0] = v]),
         UNCHANGED msgs \/ (\E v : msgs' = [msgs EXCEPT ![0] = v]),
         UNCHANGED pc \/ (\E v : pc' = [pc EXCEPT ![0] = v]),
         UNCHANGED work \/ (\E v : work' = [work EXCEPT ![0] = v]),
         UNCHANGED last \/ (\E v : last' = [last EXCEPT ![0] = v])
  PROVE  \A q \in Follower : /\ seen'[q] = seen[q] /\ msgs'[q] = msgs[q] /\ pc'[q] = pc[q]
                             /\ work'[q] = work[q] /\ last'[q] = last[q]
  <1> SUFFICES ASSUME NEW q \in Follower
               PROVE  /\ seen'[q] = seen[q] /\ msgs'[q] = msgs[q] /\ pc'[q] = pc[q]
                      /\ work'[q] = work[q] /\ last'[q] = last[q]
    OBVIOUS
  <1>1. q # 0 /\ q \in Rank
    BY Types
  <1> QED
    BY <1>1 DEF TypeOK

\* Steps of the loop, at rank 0.
LEMMA LeaderLoop ==
  ASSUME TypeOK, NEW h \in History, Agree(h), Handle(0) \/ Launch(0) \/ Process(0) \/ Shutdown(0)
  PROVE  Agree(h)'
  <1>1. 0 \in Rank /\ UNCHANGED <<counts, sub, raws, need>>
    BY Types DEF Handle, Launch, Process, Shutdown, channelVars, receiveVars
  <1>2. LeaderState(h) /\ Done(0) \in Nat /\ Rounds \in Nat /\ RankState(h, 0)
    BY <1>1, Types DEF Agree
  <1>3. \A q \in Follower : /\ seen'[q] = seen[q] /\ msgs'[q] = msgs[q] /\ pc'[q] = pc[q]
                            /\ work'[q] = work[q] /\ last'[q] = last[q]
    BY <1>1, LeaderAlone DEF Handle, Launch, Process, Shutdown, Goto, receiveVars, loopVars
  <1>4. CASE Handle(0)
    <2>1. pc[0] = "handle" /\ pc'[0] \in {"exit", "launch"} /\ seen' = [seen EXCEPT ![0] = Append(@, msgs[0])]
      BY <1>1, <1>4 DEF Handle, Goto, TypeOK
    <2>2. Done(0)' = Done(0) + 1
      BY <1>1, <2>1, Types DEF Done, TypeOK
    <2>3. Rounds = Done(0) + 1 /\ Rounds' = Rounds /\ Sent(h)' = Sent(h)
      <3>1. Rounds = Done(0) + 1 /\ Rounds' = Rounds
        BY <1>2, <2>1, <2>2 DEF Rounds, Bit
      <3> QED
        BY <2>1, <3>1 DEF Sent
    <2>4. Len(msgs[0]) = Len(h.S[Done(0) + 1])
      BY <1>2, <2>1 DEF LeaderState
    <2>5. RankState(h, 0)'
      BY <1>1, <1>2, <1>4, <2>3, <2>4, HandleRank
    <2>6. LeaderState(h)'
      BY <1>1, <1>2, <2>1 DEF LeaderState
    <2> QED
      BY <1>1, <1>3, <2>3, <2>5, <2>6, LeaderMoves
  <1>5. CASE Launch(0) \/ Process(0) \/ Shutdown(0)
    <2>1. /\ pc[0] \in {"launch", "process", "exit"} /\ pc'[0] \in {"process", "receive", "down"}
          /\ UNCHANGED <<seen, msgs>>
      BY <1>1, <1>5 DEF Launch, Process, Shutdown, Goto, receiveVars, loopVars, TypeOK
    <2>2. Rounds' = Rounds /\ Sent(h)' = Sent(h)
      BY <2>1 DEF Rounds, Sent, Bit, Done
    <2>3. RankState(h, 0)'
      BY <1>1, <1>5, <2>2, LaunchRank, ProcessRank, ShutdownRank
    <2>4. LeaderState(h)'
      BY <1>1, <1>2, <2>1 DEF LeaderState
    <2> QED
      BY <1>1, <1>3, <2>2, <2>3, <2>4, LeaderMoves
  <1> QED
    BY <1>4, <1>5

-----------------------------------------------------------------------------
(* Rank 0 receives and passes on.                                          *)

LEMMA GoOnStep ==
  ASSUME TypeOK, NEW h \in History, Agree(h), GoOn
  PROVE  Agree(h)'
  <1>1. /\ 0 \in Rank /\ pc[0] = "receive" /\ pc' = [pc EXCEPT ![0] = "drain"]
        /\ ~(work[0] = 0 /\ last[0] = 0)
        /\ UNCHANGED <<counts, sub, msgs, raws, need, work, last, seen>>
    BY Types DEF GoOn, Goto, Blocking, channelVars, receiveVars, loopVars
  <1>2. LeaderState(h) /\ RankState(h, 0)
    BY <1>1 DEF Agree
  <1>3. pc'[0] = "drain" /\ Done(0)' = Done(0) /\ msgs[0] = <<>> /\ raws = <<>> /\ ~Blocked(h, Done(0))
    BY <1>1, <1>2 DEF TypeOK, Done, LeaderState, RankState, Blocked
  <1>4. Rounds' = Rounds
    BY <1>1, <1>3 DEF Rounds, Bit
  <1>5. Sent(h)' = Sent(h)
    <2>1. Len(msgs'[0]) = 0
      BY <1>1, <1>3
    <2>2. h.cut[Rounds] \in Nat
      BY Types, HistoryTypes
    <2> QED
      BY <1>1, <1>3, <1>4, <2>1, <2>2 DEF Sent
  <1>6. LeaderState(h)'
    BY <1>1, <1>3 DEF LeaderState, Bit, Blocked
  <1>7. RankState(h, 0)'
    BY <1>1, <1>2, <1>3, <1>4 DEF RankState, Holds
  <1> QED
    BY <1>1, <1>4, <1>5, <1>6, <1>7, LeaderMoves, LeaderAlone

LEMMA DrainStep ==
  ASSUME TypeOK, NEW h \in History, Agree(h), Drain
  PROVE  Agree(h)'
  <1>1. /\ 0 \in Rank /\ pc[0] = "drain" /\ UNCHANGED <<counts, sub, pc, msgs, need, work, last, seen>>
    BY Types DEF Drain, loopVars
  <1>2. LeaderState(h) /\ RankState(h, 0)
    BY <1>1 DEF Agree
  <1>3. Rounds' = Rounds /\ Sent(h)' = Sent(h)
    BY <1>1 DEF Rounds, Sent, Done
  <1>4. LeaderState(h)'
    BY <1>1, <1>2 DEF LeaderState, Done, Blocked
  <1>5. RankState(h, 0)'
    BY <1>1, <1>2, <1>3, RankFrame
  <1> QED
    BY <1>1, <1>3, <1>4, <1>5, LeaderMoves

LEMMA SubmitStep ==
  ASSUME TypeOK, NEW h \in History, Agree(h), Submit \/ UNCHANGED vars
  PROVE  Agree(h)'
  <1>1. UNCHANGED <<counts, sub, pc, msgs, raws, need, work, last, seen>> /\ 0 \in Rank
    BY Types DEF Submit, receiveVars, loopVars, vars, channelVars
  <1>2. LeaderState(h) /\ RankState(h, 0)
    BY <1>1 DEF Agree
  <1>3. LeaderState(h)' /\ Rounds' = Rounds /\ Sent(h)' = Sent(h)
    BY <1>1, <1>2, LeaderFrame
  <1>4. RankState(h, 0)'
    BY <1>1, <1>2, <1>3, RankFrame
  <1> QED
    BY <1>1, <1>3, <1>4, LeaderMoves

LEMMA ShareDoneStep ==
  ASSUME TypeOK, NEW h \in History, Agree(h), ShareDone
  PROVE  Agree(h)'
  <1>1. /\ 0 \in Rank /\ pc[0] = "share" /\ raws = <<>> /\ pc' = [pc EXCEPT ![0] = "handle"]
        /\ UNCHANGED <<counts, sub, msgs, raws, need, work, last, seen>>
    BY Types DEF ShareDone, Goto, channelVars, receiveVars, loopVars
  <1>2. LeaderState(h) /\ RankState(h, 0)
    BY <1>1 DEF Agree
  <1>3. pc'[0] = "handle" /\ Done(0)' = Done(0) /\ Len(raws) = 0 /\ Len(msgs[0]) \in Nat
    BY <1>1, Types DEF TypeOK, Done
  <1>4. Rounds' = Rounds
    BY <1>1, <1>3 DEF Rounds, Bit
  <1>5. Sent(h)' = Sent(h)
    <2>1. h.cut[Rounds] \in Nat
      BY Types, HistoryTypes
    <2> QED
      BY <1>1, <1>3, <1>4, <2>1 DEF Sent
  <1>6. LeaderState(h)'
    BY <1>1, <1>2, <1>3 DEF LeaderState
  <1>7. RankState(h, 0)'
    BY <1>1, <1>2, <1>3, <1>4 DEF RankState, Holds
  <1> QED
    BY <1>1, <1>4, <1>5, <1>6, <1>7, LeaderMoves, LeaderAlone

\* A step of rank 0 that publishes one message: the next of the history.
LEMMA PublishMoves ==
  ASSUME TypeOK, NEW h \in History, Agree(h), NEW m \in Message, Publish(m), UNCHANGED <<counts, need>>,
         Rounds' = Rounds, Sent(h)' = Sent(h) + 1, h.pub[Sent(h) + 1] = m,
         \A q \in Follower : /\ seen'[q] = seen[q] /\ msgs'[q] = msgs[q] /\ pc'[q] = pc[q]
                             /\ work'[q] = work[q] /\ last'[q] = last[q],
         RankState(h, 0)', LeaderState(h)'
  PROVE  Agree(h)'
  <1>1. Past(h)'
    BY PastFrame DEF Agree
  <1>2. \A q \in Follower : RankState(h, q)'
    BY RankFrame, Types DEF Agree
  <1>3. ASSUME NEW q \in Follower PROVE FollowerState(h, q)'
    <2>1. FollowerState(h, q) /\ q \in Rank
      BY Types DEF Agree
    <2>2. /\ sub'[q] = Append(sub[q], m) /\ sub[q] \in Seq(Message) /\ Len(sub[q]) \in Nat
          /\ Sent(h) \in Int /\ Taken(h, q) \in Nat
      BY <2>1, Types, PlaceTypes DEF Publish
    <2>3. /\ Len(sub'[q]) = Len(sub[q]) + 1 /\ sub'[q][Len(sub[q]) + 1] = m
          /\ \A j \in 1..Len(sub[q]) : sub'[q][j] = sub[q][j]
      BY <2>2
    <2>4. Taken(h, q)' = Taken(h, q)
      BY <1>3 DEF Taken, Done
    <2>5. Len(sub[q]) = Sent(h) - Taken(h, q) /\ \A j \in 1..Len(sub[q]) : sub[q][j] = h.pub[Taken(h, q) + j]
      BY <2>1 DEF FollowerState, OnWay
    <2>6. Len(sub'[q]) = Sent(h)' - Taken(h, q)'
      BY <2>2, <2>3, <2>4, <2>5
    <2>7. ASSUME NEW j \in 1..Len(sub'[q]) PROVE sub'[q][j] = h.pub[Taken(h, q)' + j]
      <3>1. CASE j = Len(sub[q]) + 1
        <4>1. Taken(h, q) + j = Sent(h) + 1
          BY <2>2, <2>5, <3>1
        <4> QED
          BY <2>3, <2>4, <3>1, <4>1
      <3>2. CASE j # Len(sub[q]) + 1
        <4>1. j \in 1..Len(sub[q])
          BY <2>2, <2>3, <3>2
        <4> QED
          BY <2>3, <2>4, <2>5, <4>1
      <3> QED
        BY <3>1, <3>2
    <2>8. OnWay(h, q)'
      BY <2>6, <2>7 DEF OnWay
    <2> QED
      BY <2>1, <2>8 DEF FollowerState, Done, Counted, Blocked
  <1>4. Rank' = Rank /\ Follower' = Follower /\ Rank = Follower \cup {0}
    BY NumRanksAssumption DEF Rank, Follower
  <1> QED
    BY <1>1, <1>2, <1>3, <1>4 DEF Agree

LEMMA ShareOneStep ==
  ASSUME TypeOK, NEW h \in History, Agree(h), ShareOne
  PROVE  Agree(h)'
  <1>0. PICK k : k = Done(0)
    OBVIOUS
  <1>1. /\ 0 \in Rank /\ pc[0] = "share" /\ raws # <<>> /\ raws' = Tail(raws)
        /\ msgs' = [msgs EXCEPT ![0] = Append(@, Head(raws))] /\ Publish(Head(raws))
        /\ UNCHANGED <<counts, pc, need, work, last, seen>>
    BY Types DEF ShareOne, loopVars
  <1>2. LeaderState(h) /\ RankState(h, 0) /\ Past(h)
    BY <1>1 DEF Agree
  <1>3. /\ raws \in Seq(Message) /\ msgs[0] \in Seq(Message) /\ Len(raws) \in Nat /\ Len(msgs[0]) \in Nat
        /\ k \in Nat /\ Rounds \in Nat
    BY <1>0, <1>1, Types
  <1>4. /\ Head(raws) \in Message /\ Len(raws) >= 1 /\ Len(raws') = Len(raws) - 1 /\ raws[1] = Head(raws)
        /\ \A j \in 1..Len(raws') : raws'[j] = raws[j + 1]
    BY <1>1, <1>3
  <1>5. msgs'[0] = Append(msgs[0], Head(raws))
    BY <1>1 DEF TypeOK
  <1>6. /\ Len(msgs'[0]) = Len(msgs[0]) + 1 /\ msgs'[0][Len(msgs[0]) + 1] = Head(raws)
        /\ \A j \in 1..Len(msgs[0]) : msgs'[0][j] = msgs[0][j]
    BY <1>3, <1>4, <1>5
  <1>7. /\ Rounds = k + 1 /\ Rounds' = Rounds /\ Done(0)' = k
        /\ h.cut[k] \in Nat /\ h.cut[k + 1] \in Nat /\ Len(h.S[k + 1]) \in Nat
    <2>1. Rounds = k + 1 /\ Rounds' = Rounds /\ Done(0)' = k
      BY <1>0, <1>1 DEF Rounds, Bit, Done
    <2>2. k + 1 \in Nat
      BY <1>3
    <2> QED
      BY <1>3, <2>1, <2>2, HistoryTypes
  <1>8. h.cut[k + 1] = h.cut[k] + Len(h.S[k + 1])
    <2>1. k + 1 <= Rounds
      BY <1>3, <1>7
    <2> QED
      BY <1>2, <1>3, <2>1, PastAt
  <1>9. /\ Len(msgs[0]) + Len(raws) = Len(h.S[k + 1])
        /\ \A j \in 1..Len(raws) : raws[j] = h.pub[h.cut[k] + Len(msgs[0]) + j]
    BY <1>0, <1>1, <1>2 DEF LeaderState
  <1>10. Sent(h) = h.cut[k] + Len(msgs[0]) /\ Sent(h)' = Sent(h) + 1
    <2>1. Sent(h) = h.cut[k + 1] + 0 - Len(raws) /\ Sent(h)' = h.cut[k + 1] + 0 - Len(raws')
      BY <1>1, <1>7 DEF Sent
    <2>2. PICK a \in Nat, b \in Nat, c \in Nat : a = h.cut[k] /\ b = Len(msgs[0]) /\ c = Len(raws)
      BY <1>3, <1>7
    <2>3. Sent(h) = a + (b + c) + 0 - c /\ Sent(h)' = a + (b + c) + 0 - (c - 1)
      BY <1>4, <1>8, <1>9, <2>1, <2>2
    <2>4. a + (b + c) + 0 - c = a + b /\ a + (b + c) + 0 - (c - 1) = a + b + 1
      OBVIOUS
    <2> QED
      BY <2>2, <2>3, <2>4
  <1>11. h.pub[Sent(h) + 1] = Head(raws)
    BY <1>3, <1>4, <1>9, <1>10
  <1>12. LeaderState(h)'
    <2>1. Len(msgs'[0]) + Len(raws') = Len(h.S[k + 1])
      <3>1. PICK b \in Nat, c \in Nat : b = Len(msgs[0]) /\ c = Len(raws)
        BY <1>3
      <3>2. Len(msgs'[0]) + Len(raws') = (b + 1) + (c - 1) /\ b + c = Len(h.S[k + 1])
        BY <1>4, <1>6, <1>9, <3>1
      <3>3. (b + 1) + (c - 1) = b + c
        OBVIOUS
      <3> QED
        BY <3>1, <3>2, <3>3
    <2>2. ASSUME NEW j \in 1..Len(raws') PROVE raws'[j] = h.pub[h.cut[k] + Len(msgs'[0]) + j]
      <3>1. j + 1 \in 1..Len(raws) /\ h.cut[k] + Len(msgs[0]) + (j + 1) = h.cut[k] + Len(msgs'[0]) + j
        <4>1. PICK a \in Nat, b \in Nat, c \in Nat : a = h.cut[k] /\ b = Len(msgs[0]) /\ c = Len(raws)
          BY <1>3, <1>7
        <4>2. Len(msgs'[0]) = b + 1 /\ Len(raws') = c - 1
          BY <1>4, <1>6, <4>1
        <4>3. j \in 1..(c - 1)
          BY <4>2
        <4>4. j + 1 \in 1..c /\ a + b + (j + 1) = a + (b + 1) + j
          BY <4>3
        <4> QED
          BY <4>1, <4>2, <4>4
      <3> QED
        BY <1>4, <1>9, <3>1
    <2> QED
      BY <1>1, <1>7, <2>1, <2>2 DEF LeaderState
  <1>13. Holds(h, 0)'
    <2> SUFFICES ASSUME NEW j \in 1..(Len(msgs[0]) + 1) PROVE msgs'[0][j] = h.pub[h.cut[k] + j]
      BY <1>6, <1>7 DEF Holds
    <2>1. CASE j = Len(msgs[0]) + 1
      <3>1. h.cut[k] + j = Sent(h) + 1
        BY <1>3, <1>7, <1>10, <2>1
      <3> QED
        BY <1>6, <1>11, <2>1, <3>1
    <2>2. CASE j # Len(msgs[0]) + 1
      <3>1. j \in 1..Len(msgs[0])
        BY <1>3, <2>2
      <3> QED
        BY <1>0, <1>2, <1>6, <3>1 DEF RankState, Holds
    <2> QED
      BY <2>1, <2>2
  <1>14. RankState(h, 0)'
    BY <1>0, <1>1, <1>2, <1>7, <1>13 DEF RankState, Target
  <1>15. \A q \in Follower : /\ seen'[q] = seen[q] /\ msgs'[q] = msgs[q] /\ pc'[q] = pc[q]
                             /\ work'[q] = work[q] /\ last'[q] = last[q]
    BY <1>1, LeaderAlone
  <1> QED
    BY <1>1, <1>4, <1>7, <1>10, <1>11, <1>12, <1>14, <1>15, PublishMoves

\* What has not been published and announced yet may still be chosen.
LEMMA Extend ==
  ASSUME TypeOK, NEW h \in History, Agree(h), pc[0] \in {"receive", "drain"}, NEW g \in History,
         \A i \in 0..Rounds :
           /\ g.cut[i] = h.cut[i] /\ g.left[i] = h.left[i] /\ g.S[i] = h.S[i]
           /\ (i \in g.busy <=> i \in h.busy),
         \A i \in 1..Sent(h) : g.pub[i] = h.pub[i]
  PROVE  Agree(g) /\ Sent(g) = Sent(h)
  <1>1. /\ 0 \in Rank /\ Follower \subseteq Rank /\ Rounds \in Nat /\ Past(h) /\ LeaderState(h)
        /\ 0 \in 0..Rounds /\ Rounds \in 0..Rounds /\ Len(msgs[0]) \in Nat /\ Rounds = Done(0)
    BY Types DEF Agree, Rounds, Bit
  <1>2. /\ Sent(h) = h.cut[Rounds] + (IF pc[0] = "drain" THEN Len(msgs[0]) ELSE 0) - 0
        /\ h.cut[Rounds] \in Nat /\ Sent(h) \in Nat /\ h.cut[Rounds] <= Sent(h)
    <2>1. Sent(h) = h.cut[Rounds] + (IF pc[0] = "drain" THEN Len(msgs[0]) ELSE 0) - 0
      BY DEF Sent
    <2>2. h.cut[Rounds] \in Nat
      BY <1>1, HistoryTypes
    <2> QED
      BY <1>1, <2>1, <2>2
  <1>3. Sent(g) = Sent(h)
    BY <1>1 DEF Sent
  <1>4. \A i \in 0..Rounds : Blocked(g, i) <=> Blocked(h, i)
    BY DEF Blocked
  <1>5. \A i \in 1..Rounds : Target(g, i) = Target(h, i)
    <2> SUFFICES ASSUME NEW i \in 1..Rounds PROVE Target(g, i) = Target(h, i)
      OBVIOUS
    <2>1. i \in 0..Rounds /\ i - 1 \in 0..Rounds
      BY <1>1
    <2> QED
      BY <2>1 DEF Target
  <1>6. Past(g)
    <2>1. g.cut[0] = 0 /\ g.left[0] = 0 /\ 0 \notin g.busy
      BY <1>1 DEF Past
    <2>2. \A i, j \in 0..Rounds : i <= j => g.cut[i] <= g.cut[j]
      BY <1>1 DEF Past
    <2>3. ASSUME NEW i \in 1..Rounds
          PROVE  /\ g.cut[i] = g.cut[i - 1] + Len(g.S[i])
                 /\ \A j \in 1..Len(g.S[i]) : g.S[i][j] = g.pub[g.cut[i - 1] + j]
                 /\ Blocked(g, i - 1) => Len(g.S[i]) >= 1
                 /\ g.left[i] = IF Target(g, i) > 0 THEN Target(g, i) - 1 ELSE Target(g, i)
                 /\ i \in g.busy <=> IF Overlap THEN Target(g, i) > 0 ELSE i - 1 \in g.busy
      <3>1. i \in 0..Rounds /\ i - 1 \in 0..Rounds
        BY <1>1
      <3>2. /\ h.cut[i] = h.cut[i - 1] + Len(h.S[i])
            /\ \A j \in 1..Len(h.S[i]) : h.S[i][j] = h.pub[h.cut[i - 1] + j]
            /\ Blocked(h, i - 1) => Len(h.S[i]) >= 1
            /\ h.left[i] = IF Target(h, i) > 0 THEN Target(h, i) - 1 ELSE Target(h, i)
            /\ i \in h.busy <=> IF Overlap THEN Target(h, i) > 0 ELSE i - 1 \in h.busy
            /\ h.cut[i] <= h.cut[Rounds]
        BY <1>1, <3>1 DEF Past
      <3>3. /\ g.cut[i] = h.cut[i] /\ g.cut[i - 1] = h.cut[i - 1] /\ g.S[i] = h.S[i]
            /\ g.left[i] = h.left[i] /\ (i \in g.busy <=> i \in h.busy)
            /\ (i - 1 \in g.busy <=> i - 1 \in h.busy)
        BY <3>1
      <3>4. ASSUME NEW j \in 1..Len(g.S[i]) PROVE g.S[i][j] = g.pub[g.cut[i - 1] + j]
        <4>1. h.cut[i - 1] \in Nat /\ Len(h.S[i]) \in Nat /\ h.cut[i] \in Nat
          BY <3>1, HistoryTypes
        <4>2. h.cut[i - 1] + j \in 1..Sent(h)
          BY <1>2, <3>2, <3>3, <4>1
        <4> QED
          BY <3>2, <3>3, <4>2
      <3> QED
        BY <1>4, <1>5, <3>1, <3>2, <3>3, <3>4
    <2> QED
      BY <2>1, <2>2, <2>3 DEF Past
  <1>7. LeaderState(g)
    <2>1. Blocked(g, Done(0)) <=> Blocked(h, Done(0))
      BY <1>1, <1>4
    <2>2. Bit(Blocked(g, Done(0))) = Bit(Blocked(h, Done(0)))
      BY <2>1 DEF Bit
    <2>3. pc[0] # "share" /\ pc[0] # "handle"
      OBVIOUS
    <2> QED
      BY <1>1, <2>2, <2>3 DEF LeaderState
  <1>8. ASSUME NEW r \in Rank PROVE Done(r) \in 0..Rounds /\ Taken(h, r) <= Sent(h) /\ Taken(g, r) = Taken(h, r)
    <2>1. Done(r) \in Nat /\ Len(msgs[r]) \in Nat /\ Taken(h, r) \in Nat /\ RankState(h, r)
      BY Types, PlaceTypes DEF Agree
    <2>2. Done(r) \in 0..Rounds
      BY <1>1, <2>1 DEF RankState
    <2>3. Taken(g, r) = Taken(h, r)
      BY <2>2 DEF Taken
    <2>4. CASE r = 0
      <3>1. pc[0] = "receive" => Len(msgs[0]) = 0
        BY <2>1, <2>4 DEF RankState
      <3>2. Taken(h, 0) = h.cut[Rounds] + Len(msgs[0])
        BY <1>1 DEF Taken
      <3> QED
        BY <1>1, <1>2, <2>2, <2>3, <2>4, <3>1, <3>2
    <2>5. CASE r # 0
      <3>1. r \in Follower
        BY <2>5 DEF Follower
      <3>2. Len(sub[r]) = Sent(h) - Taken(h, r) /\ Len(sub[r]) \in Nat
        BY <3>1, Types DEF Agree, FollowerState, OnWay
      <3> QED
        BY <1>2, <2>1, <2>2, <2>3, <3>2
    <2> QED
      BY <2>4, <2>5
  <1>9. ASSUME NEW r \in Rank PROVE RankState(g, r)
    <2>1. RankState(h, r) /\ Done(r) \in 0..Rounds /\ Done(r) \in Nat
      BY <1>8, Types DEF Agree
    <2>2. \A i \in 1..Done(r) : seen[r][i] = g.S[i]
      <3> SUFFICES ASSUME NEW i \in 1..Done(r) PROVE seen[r][i] = g.S[i]
        OBVIOUS
      <3>1. i \in 0..Rounds
        BY <1>1, <2>1
      <3> QED
        BY <2>1, <3>1 DEF RankState
    <2>3. Holds(g, r)
      <3> SUFFICES ASSUME NEW j \in 1..Len(msgs[r]) PROVE msgs[r][j] = g.pub[g.cut[Done(r)] + j]
        BY DEF Holds
      <3>1. h.cut[Done(r)] \in Nat /\ Len(msgs[r]) \in Nat /\ g.cut[Done(r)] = h.cut[Done(r)]
        BY <2>1, Types, HistoryTypes
      <3>2. Taken(h, r) = h.cut[Done(r)] + Len(msgs[r]) /\ Taken(h, r) <= Sent(h)
        BY <1>8 DEF Taken
      <3>3. h.cut[Done(r)] + j \in 1..Sent(h)
        BY <1>2, <3>1, <3>2
      <3> QED
        BY <2>1, <3>1, <3>3 DEF RankState, Holds
    <2>4. pc[r] = "launch" =>
            /\ Done(r) > 0 /\ work[r] = Target(g, Done(r))
            /\ last[r] # 0 <=> Done(r) - 1 \in g.busy
      <3> SUFFICES ASSUME pc[r] = "launch"
                   PROVE  /\ Done(r) > 0 /\ work[r] = Target(g, Done(r))
                          /\ last[r] # 0 <=> Done(r) - 1 \in g.busy
        OBVIOUS
      <3>1. /\ Done(r) > 0 /\ work[r] = Target(h, Done(r))
            /\ last[r] # 0 <=> Done(r) - 1 \in h.busy
        BY <2>1 DEF RankState
      <3>2. Done(r) \in 1..Rounds /\ Done(r) - 1 \in 0..Rounds
        BY <1>1, <2>1, <3>1
      <3> QED
        BY <1>5, <3>1, <3>2
    <2>5. g.left[Done(r)] = h.left[Done(r)] /\ (Done(r) \in g.busy <=> Done(r) \in h.busy)
      BY <2>1
    <2>6. pc[r] \notin {"launch", "exit", "down"} =>
            /\ work[r] = g.left[Done(r)]
            /\ last[r] # 0 <=> Done(r) \in g.busy
      <3> SUFFICES ASSUME pc[r] \notin {"launch", "exit", "down"}
                   PROVE  work[r] = g.left[Done(r)] /\ (last[r] # 0 <=> Done(r) \in g.busy)
        OBVIOUS
      <3>1. work[r] = h.left[Done(r)] /\ (last[r] # 0 <=> Done(r) \in h.busy)
        BY <2>1 DEF RankState
      <3> QED
        BY <2>5, <3>1
    <2>7. /\ Done(r) <= Rounds
          /\ pc[r] \in {"receive", "launch", "process", "exit", "down"} => msgs[r] = <<>>
      BY <2>1 DEF RankState
    <2> QED
      BY <2>2, <2>3, <2>4, <2>6, <2>7 DEF RankState
  <1>10. ASSUME NEW r \in Follower PROVE FollowerState(g, r)
    <2>1. /\ r \in Rank /\ FollowerState(h, r) /\ Done(r) \in 0..Rounds /\ Taken(g, r) = Taken(h, r)
          /\ Taken(h, r) \in Nat /\ Counted(r) \in Nat
      BY <1>1, <1>8, PlaceTypes DEF Agree
    <2>2. OnWay(g, r)
      <3>1. Len(sub[r]) = Sent(h) - Taken(h, r) /\ \A j \in 1..Len(sub[r]) : sub[r][j] = h.pub[Taken(h, r) + j]
        BY <2>1 DEF FollowerState, OnWay
      <3>2. \A j \in 1..Len(sub[r]) : Taken(h, r) + j \in 1..Sent(h)
        BY <1>2, <2>1, <3>1
      <3> QED
        BY <1>3, <2>1, <3>1, <3>2 DEF OnWay
    <2>3. ASSUME NEW i \in 1..Len(counts[r])
          PROVE  counts[r][i] = Len(g.S[Counted(r) + i]) - Bit(Blocked(g, Counted(r) + i - 1))
      <3>1. counts[r][i] = Len(h.S[Counted(r) + i]) - Bit(Blocked(h, Counted(r) + i - 1))
            /\ Len(counts[r]) = Rounds - Counted(r)
        BY <2>1 DEF FollowerState
      <3>2. Counted(r) + i \in 0..Rounds /\ Counted(r) + i - 1 \in 0..Rounds
        BY <1>1, <2>1, <3>1
      <3> QED
        BY <1>4, <3>1, <3>2 DEF Bit
    <2>4. pc[r] = "count" => Len(msgs[r]) = Bit(Blocked(g, Done(r)))
      BY <1>4, <2>1 DEF FollowerState, Bit
    <2>5. /\ pc[r] = "follow" => need[r] + Len(msgs[r]) = Len(g.S[Done(r) + 1])
          /\ pc[r] = "handle" => Len(msgs[r]) = Len(g.S[Done(r) + 1])
      <3> SUFFICES ASSUME pc[r] \in {"follow", "handle"}
                   PROVE  g.S[Done(r) + 1] = h.S[Done(r) + 1]
        BY <2>1 DEF FollowerState
      <3>1. Done(r) + 1 <= Rounds
        BY <2>1 DEF FollowerState, Counted, Bit
      <3>2. Done(r) + 1 \in 0..Rounds
        BY <2>1, <3>1
      <3> QED
        BY <3>2
    <2> QED
      BY <2>1, <2>2, <2>3, <2>4, <2>5 DEF FollowerState
  <1> QED
    BY <1>3, <1>6, <1>7, <1>9, <1>10 DEF Agree

\* Rank 0 was blocked: the message becomes the next published.
LEMMA UnblockStep ==
  ASSUME TypeOK, NEW h \in History, Agree(h), Unblock
  PROVE  \E g \in History : Agree(g)'
  <1>0. PICK m : m = Head(backend)
    OBVIOUS
  <1>1. /\ 0 \in Rank /\ pc[0] = "receive" /\ pc' = [pc EXCEPT ![0] = "drain"] /\ Publish(m)
        /\ work[0] = 0 /\ last[0] = 0 /\ msgs' = [msgs EXCEPT ![0] = <<m>>] /\ backend # <<>>
        /\ UNCHANGED <<counts, raws, need, work, last, seen>>
    BY <1>0, Types DEF Unblock, Goto, Blocking, loopVars
  <1>2. m \in Message
    BY <1>0, <1>1, Queues DEF TypeOK
  <1>3. Rounds \in Nat /\ Rounds = Done(0) /\ Sent(h) = h.cut[Rounds] /\ h.cut[Rounds] \in Nat
    <2>1. Rounds \in Nat /\ Rounds = Done(0)
      BY <1>1, Types DEF Rounds, Bit
    <2>2. h.cut[Rounds] \in Nat
      BY <2>1, HistoryTypes
    <2> QED
      BY <1>1, <2>1, <2>2 DEF Sent
  <1>4. PICK g \in History : /\ g.cut = h.cut /\ g.left = h.left /\ g.S = h.S /\ g.busy = h.busy
                             /\ g.pub[Sent(h) + 1] = m
                             /\ \A i \in 1..Sent(h) : g.pub[i] = h.pub[i]
    <2> DEFINE p == [h.pub EXCEPT ![Sent(h) + 1] = m]
               f == [h EXCEPT !.pub = p]
    <2>1. Sent(h) + 1 \in Nat /\ \A i \in 1..Sent(h) : i # Sent(h) + 1 /\ i \in Nat
      BY <1>3
    <2>2. h.pub \in [Nat -> Message \cup {NoMessage}]
      BY DEF History
    <2>3. p \in [Nat -> Message \cup {NoMessage}]
      BY <1>2, <2>1, <2>2
    <2>4. p[Sent(h) + 1] = m /\ \A i \in 1..Sent(h) : p[i] = h.pub[i]
      BY <2>1, <2>2
    <2> HIDE DEF p
    <2>5. f \in History /\ f.cut = h.cut /\ f.left = h.left /\ f.S = h.S /\ f.busy = h.busy /\ f.pub = p
      BY <2>3 DEF History
    <2> QED
      BY <2>4, <2>5
  <1>5. Agree(g) /\ Sent(g) = Sent(h)
    BY <1>1, <1>4, Extend
  <1>6. LeaderState(g) /\ RankState(g, 0)
    BY <1>1, <1>5 DEF Agree
  <1>7. pc'[0] = "drain" /\ msgs'[0] = <<m>> /\ Done(0)' = Done(0) /\ Rounds' = Rounds
    BY <1>1 DEF TypeOK, Done, Rounds, Bit
  <1>8. Sent(g)' = Sent(g) + 1 /\ Sent(g) = g.cut[Rounds]
    <2>1. Sent(g)' = g.cut[Rounds] + 1 - 0
      BY <1>7 DEF Sent
    <2> QED
      BY <1>3, <1>4, <1>5, <2>1
  <1>9. Blocked(g, Done(0)) /\ raws = <<>>
    BY <1>1, <1>6 DEF RankState, LeaderState, Blocked
  <1>10. LeaderState(g)'
    BY <1>1, <1>7, <1>9 DEF LeaderState, Bit, Blocked
  <1>11. Holds(g, 0)'
    BY <1>3, <1>4, <1>5, <1>7, <1>8 DEF Holds
  <1>12. RankState(g, 0)'
    BY <1>1, <1>6, <1>7, <1>11 DEF RankState
  <1>13. \A q \in Follower : /\ seen'[q] = seen[q] /\ msgs'[q] = msgs[q] /\ pc'[q] = pc[q]
                             /\ work'[q] = work[q] /\ last'[q] = last[q]
    BY <1>1, LeaderAlone
  <1>14. Agree(g)'
    BY <1>1, <1>2, <1>4, <1>5, <1>7, <1>8, <1>10, <1>12, <1>13, PublishMoves
  <1> QED
    BY <1>4, <1>14

\* The history with the next iteration: what rank 0 was blocked for and what it drained.
LEMMA NextIteration ==
  ASSUME TypeOK, NEW h \in History, Agree(h), pc[0] = "drain"
  PROVE  \E g \in History :
           /\ Agree(g) /\ Sent(g) = Sent(h)
           /\ g.S[Rounds + 1] = msgs[0] \o raws
           /\ g.cut[Rounds + 1] = g.cut[Rounds] + Len(msgs[0]) + Len(raws)
           /\ g.left[Rounds + 1] = IF Target(g, Rounds + 1) > 0 THEN Target(g, Rounds + 1) - 1
                                   ELSE Target(g, Rounds + 1)
           /\ Rounds + 1 \in g.busy <=> IF Overlap THEN Target(g, Rounds + 1) > 0 ELSE Rounds \in g.busy
           /\ \A j \in 1..Len(raws) : raws[j] = g.pub[Sent(g) + j]
  <1>1. PICK k \in Nat, n \in Nat : k = Rounds /\ n = Sent(h) /\ h.cut[k] \in Nat
    <2>1. Rounds \in Nat
      BY Types
    <2>2. h.cut[Rounds] \in Nat /\ Len(msgs[0]) \in Nat
      BY <2>1, Types, HistoryTypes
    <2>3. Sent(h) \in Nat
      BY <2>2 DEF Sent
    <2> QED
      BY <2>1, <2>2, <2>3
  <1>2. /\ raws \in Seq(Message) /\ msgs[0] \in Seq(Message) /\ Len(raws) \in Nat /\ Len(msgs[0]) \in Nat
    BY Types
  <1>3. /\ h.pub \in [Nat -> Message \cup {NoMessage}] /\ h.S \in [Nat -> Seq(Message)]
        /\ h.cut \in [Nat -> Nat] /\ h.left \in [Nat -> Nat] /\ h.busy \subseteq Nat
    BY DEF History
  <1>4. PICK p : /\ p \in [Nat -> Message \cup {NoMessage}]
                 /\ \A i \in 1..n : p[i] = h.pub[i]
                 /\ \A j \in 1..Len(raws) : raws[j] = p[n + j]
    <2> DEFINE q == [i \in Nat |-> IF i - n \in 1..Len(raws) THEN raws[i - n] ELSE h.pub[i]]
    <2>1. \A j \in 1..Len(raws) : raws[j] \in Message /\ n + j \in Nat /\ (n + j) - n = j
      BY <1>2
    <2>2. q \in [Nat -> Message \cup {NoMessage}]
      BY <1>3, <2>1
    <2>3. \A i \in 1..n : q[i] = h.pub[i]
      BY <1>2
    <2>4. \A j \in 1..Len(raws) : raws[j] = q[n + j]
      BY <2>1
    <2> HIDE DEF q
    <2> QED
      BY <2>2, <2>3, <2>4
  <1>5. PICK s : s \in [Nat -> Seq(Message)] /\ s[k + 1] = msgs[0] \o raws /\ \A i \in 0..k : s[i] = h.S[i]
    <2> DEFINE q == [h.S EXCEPT ![k + 1] = msgs[0] \o raws]
    <2>1. msgs[0] \o raws \in Seq(Message) /\ k + 1 \in Nat /\ \A i \in 0..k : i \in Nat /\ i # k + 1
      BY <1>2
    <2>2. q \in [Nat -> Seq(Message)] /\ q[k + 1] = msgs[0] \o raws /\ \A i \in 0..k : q[i] = h.S[i]
      BY <1>3, <2>1
    <2> HIDE DEF q
    <2> QED
      BY <2>2
  <1>6. PICK c : /\ c \in [Nat -> Nat] /\ c[k + 1] = h.cut[k] + Len(msgs[0]) + Len(raws)
                 /\ \A i \in 0..k : c[i] = h.cut[i]
    <2> DEFINE q == [h.cut EXCEPT ![k + 1] = h.cut[k] + Len(msgs[0]) + Len(raws)]
    <2>1. /\ h.cut[k] + Len(msgs[0]) + Len(raws) \in Nat
          /\ k + 1 \in Nat /\ \A i \in 0..k : i \in Nat /\ i # k + 1
      BY <1>1, <1>2
    <2>2. /\ q \in [Nat -> Nat] /\ q[k + 1] = h.cut[k] + Len(msgs[0]) + Len(raws)
          /\ \A i \in 0..k : q[i] = h.cut[i]
      BY <1>3, <2>1
    <2> HIDE DEF q
    <2> QED
      BY <2>2
  <1>7. PICK t \in Nat : t = WorkAfter(h.left[k], msgs[0] \o raws)
    <2>1. msgs[0] \o raws \in Seq(Message)
      BY <1>2
    <2>2. h.left[k] \in Nat
      BY <1>3
    <2> QED
      BY <2>1, <2>2, WorkAfterNat
  <1>8. PICK l : /\ l \in [Nat -> Nat] /\ l[k + 1] = (IF t > 0 THEN t - 1 ELSE t)
                 /\ \A i \in 0..k : l[i] = h.left[i]
    <2> DEFINE q == [h.left EXCEPT ![k + 1] = IF t > 0 THEN t - 1 ELSE t]
    <2>1. /\ (IF t > 0 THEN t - 1 ELSE t) \in Nat
          /\ k + 1 \in Nat /\ \A i \in 0..k : i \in Nat /\ i # k + 1
      OBVIOUS
    <2>2. /\ q \in [Nat -> Nat] /\ q[k + 1] = (IF t > 0 THEN t - 1 ELSE t)
          /\ \A i \in 0..k : q[i] = h.left[i]
      BY <1>3, <2>1
    <2> HIDE DEF q
    <2> QED
      BY <2>2
  <1>9. PICK b : /\ b \subseteq Nat /\ (k + 1 \in b <=> IF Overlap THEN t > 0 ELSE k \in h.busy)
                 /\ \A i \in 0..k : i \in b <=> i \in h.busy
    <2> DEFINE on == IF Overlap THEN t > 0 ELSE k \in h.busy
               q  == {i \in Nat : IF i = k + 1 THEN on ELSE i \in h.busy}
    <2>1. k + 1 \in Nat /\ \A i \in 0..k : i \in Nat /\ i # k + 1
      OBVIOUS
    <2>2. q \subseteq Nat /\ (k + 1 \in q <=> on) /\ \A i \in 0..k : i \in q <=> i \in h.busy
      BY <2>1
    <2> HIDE DEF q
    <2> QED
      BY <2>2
  <1>10. PICK g \in History : g.pub = p /\ g.S = s /\ g.cut = c /\ g.left = l /\ g.busy = b
    <2>1. [pub |-> p, S |-> s, cut |-> c, left |-> l, busy |-> b] \in History
      BY <1>4, <1>5, <1>6, <1>8, <1>9 DEF History
    <2> QED
      BY <2>1
  <1>11. Agree(g) /\ Sent(g) = Sent(h)
    <2>1. \A i \in 0..Rounds : /\ g.cut[i] = h.cut[i] /\ g.left[i] = h.left[i] /\ g.S[i] = h.S[i]
                               /\ (i \in g.busy <=> i \in h.busy)
      BY <1>1, <1>5, <1>6, <1>8, <1>9, <1>10
    <2>2. \A i \in 1..Sent(h) : g.pub[i] = h.pub[i]
      BY <1>1, <1>4, <1>10
    <2> QED
      BY <2>1, <2>2, Extend
  <1>12. Target(g, k + 1) = t
    <2>1. (k + 1) - 1 = k /\ k \in 0..k
      OBVIOUS
    <2> QED
      BY <1>5, <1>7, <1>8, <1>10, <2>1 DEF Target
  <1>13. g.cut[k] = h.cut[k] /\ (k \in g.busy <=> k \in h.busy)
    <2>1. k \in 0..k
      OBVIOUS
    <2> QED
      BY <1>6, <1>9, <1>10, <2>1
  <1>14. /\ g.S[k + 1] = msgs[0] \o raws
         /\ g.cut[k + 1] = g.cut[k] + Len(msgs[0]) + Len(raws)
         /\ g.left[k + 1] = IF Target(g, k + 1) > 0 THEN Target(g, k + 1) - 1 ELSE Target(g, k + 1)
         /\ (k + 1 \in g.busy <=> IF Overlap THEN Target(g, k + 1) > 0 ELSE k \in g.busy)
         /\ \A j \in 1..Len(raws) : raws[j] = g.pub[n + j]
    BY <1>4, <1>5, <1>6, <1>8, <1>9, <1>10, <1>12, <1>13
  <1> QED
    BY <1>1, <1>11, <1>14

\* Announcing the number of messages settles the next iteration.
LEMMA AnnounceStep ==
  ASSUME TypeOK, NEW h \in History, Agree(h), BroadcastCount,
         h.S[Rounds + 1] = msgs[0] \o raws,
         h.cut[Rounds + 1] = h.cut[Rounds] + Len(msgs[0]) + Len(raws),
         h.left[Rounds + 1] = IF Target(h, Rounds + 1) > 0 THEN Target(h, Rounds + 1) - 1
                              ELSE Target(h, Rounds + 1),
         Rounds + 1 \in h.busy <=> IF Overlap THEN Target(h, Rounds + 1) > 0 ELSE Rounds \in h.busy,
         \A j \in 1..Len(raws) : raws[j] = h.pub[Sent(h) + j]
  PROVE  Agree(h)'
  <1>1. /\ 0 \in Rank /\ pc[0] = "drain" /\ pc' = [pc EXCEPT ![0] = "share"]
        /\ counts' = [r \in Follower |-> Append(counts[r], Len(raws))]
        /\ UNCHANGED <<sub, raws, msgs, need, work, last, seen>>
    BY Types DEF BroadcastCount, Goto, CountRaws, receiveVars, loopVars
  <1>2. PICK k \in Nat : k = Rounds /\ h.cut[k] \in Nat /\ Done(0) = k /\ k + 1 \in Nat
    <2>1. Rounds \in Nat /\ Rounds = Done(0)
      BY <1>1, Types DEF Rounds, Bit
    <2>2. h.cut[Rounds] \in Nat
      BY <2>1, HistoryTypes
    <2> QED
      BY <2>1, <2>2
  <1>3. PICK a \in Nat, b \in Nat : a = Len(msgs[0]) /\ b = Len(raws)
    BY Types
  <1>4. /\ raws \in Seq(Message) /\ msgs[0] \in Seq(Message)
        /\ LeaderState(h) /\ RankState(h, 0) /\ Past(h)
    BY <1>1, Types DEF Agree
  <1>5. /\ pc'[0] = "share" /\ \A q \in Rank : q # 0 => pc'[q] = pc[q]
        /\ \A q \in Rank : Done(q)' = Done(q)
    BY <1>1 DEF TypeOK, Done
  <1>6. Rounds' = k + 1
    BY <1>1, <1>2, <1>5 DEF Rounds, Bit
  <1>7. /\ h.S[k + 1] = msgs[0] \o raws /\ Len(h.S[k + 1]) = a + b
        /\ h.cut[k + 1] = h.cut[k] + a + b
        /\ \A j \in 1..a : h.S[k + 1][j] = msgs[0][j]
        /\ \A j \in 1..b : h.S[k + 1][a + j] = raws[j]
    <2> DEFINE s == msgs[0] \o raws
    <2>1. /\ Len(s) = a + b /\ \A j \in 1..a : s[j] = msgs[0][j]
          /\ \A j \in 1..b : s[a + j] = raws[j]
      BY <1>3, <1>4
    <2>2. h.S[k + 1] = s /\ h.cut[k + 1] = h.cut[k] + a + b
      BY <1>2, <1>3
    <2> HIDE DEF s
    <2>3. /\ Len(h.S[k + 1]) = a + b /\ \A j \in 1..a : h.S[k + 1][j] = msgs[0][j]
          /\ \A j \in 1..b : h.S[k + 1][a + j] = raws[j]
      BY <2>1, <2>2
    <2> QED
      BY <2>2, <2>3 DEF s
  <1>8. Sent(h) = h.cut[k] + a /\ Sent(h)' = Sent(h)
    <2>1. Sent(h) = h.cut[k] + a - 0 /\ Sent(h)' = h.cut[k + 1] + 0 - b
      BY <1>1, <1>2, <1>3, <1>5, <1>6 DEF Sent
    <2>2. \A c \in Nat : c + a - 0 = c + a /\ c + a + b + 0 - b = c + a
      OBVIOUS
    <2> QED
      BY <1>2, <1>7, <2>1, <2>2
  <1>9. a = Bit(Blocked(h, k))
    BY <1>1, <1>2, <1>3, <1>4 DEF LeaderState
  <1>10. \A j \in 1..(a + b) : h.S[k + 1][j] = h.pub[h.cut[k] + j]
    <2> SUFFICES ASSUME NEW j \in 1..(a + b) PROVE h.S[k + 1][j] = h.pub[h.cut[k] + j]
      OBVIOUS
    <2>1. CASE j <= a
      <3>1. msgs[0][j] = h.pub[h.cut[k] + j]
        BY <1>2, <1>3, <1>4, <2>1 DEF RankState, Holds
      <3> QED
        BY <1>7, <2>1, <3>1
    <2>2. CASE j > a
      <3>1. PICK i \in 1..b : j = a + i
        <4>1. j - a \in 1..b /\ j = a + (j - a)
          BY <2>2
        <4> QED
          BY <4>1
      <3>2. raws[i] = h.pub[Sent(h) + i]
        BY <1>3
      <3>3. Sent(h) + i = h.cut[k] + j
        BY <1>2, <1>8, <3>1
      <3> QED
        BY <1>7, <3>1, <3>2, <3>3
    <2> QED
      BY <2>1, <2>2
  <1>11. Past(h)'
    <2>1. h.cut[0] = 0 /\ h.left[0] = 0 /\ 0 \notin h.busy
      BY <1>4 DEF Past
    <2>2. ASSUME NEW i \in 0..(k + 1), NEW j \in 0..(k + 1), i <= j PROVE h.cut[i] <= h.cut[j]
      <3>1. CASE j \in 0..k
        <4>1. i \in 0..k
          BY <2>2, <3>1
        <4> QED
          BY <1>2, <1>4, <2>2, <3>1, <4>1 DEF Past
      <3>2. CASE j = k + 1 /\ i \in 0..k
        <4>1. i <= k /\ k \in 0..k /\ i \in Nat
          BY <3>2
        <4>2. h.cut[i] <= h.cut[k] /\ h.cut[i] \in Nat
          BY <1>2, <1>4, <3>2, <4>1, HistoryTypes DEF Past
        <4> QED
          BY <1>2, <1>7, <3>2, <4>2
      <3>3. CASE j = k + 1 /\ i = k + 1
        <4>1. h.cut[k + 1] \in Nat
          BY <1>2, HistoryTypes
        <4> QED
          BY <3>3, <4>1
      <3> QED
        BY <3>1, <3>2, <3>3
    <2>3. ASSUME NEW i \in 1..(k + 1)
          PROVE  /\ h.cut[i] = h.cut[i - 1] + Len(h.S[i])
                 /\ \A j \in 1..Len(h.S[i]) : h.S[i][j] = h.pub[h.cut[i - 1] + j]
                 /\ Blocked(h, i - 1) => Len(h.S[i]) >= 1
                 /\ h.left[i] = IF Target(h, i) > 0 THEN Target(h, i) - 1 ELSE Target(h, i)
                 /\ i \in h.busy <=> IF Overlap THEN Target(h, i) > 0 ELSE i - 1 \in h.busy
      <3>1. CASE i \in 1..k
        BY <1>2, <1>4, <3>1 DEF Past
      <3>2. CASE i = k + 1
        <4>1. i - 1 = k
          BY <3>2
        <4>2. h.cut[i] = h.cut[i - 1] + Len(h.S[i])
          BY <1>2, <1>7, <3>2, <4>1
        <4>3. Blocked(h, i - 1) => Len(h.S[i]) >= 1
          BY <1>7, <1>9, <3>2, <4>1 DEF Bit
        <4>4. \A j \in 1..Len(h.S[i]) : h.S[i][j] = h.pub[h.cut[i - 1] + j]
          BY <1>7, <1>10, <3>2, <4>1
        <4>5. /\ h.left[i] = IF Target(h, i) > 0 THEN Target(h, i) - 1 ELSE Target(h, i)
              /\ i \in h.busy <=> IF Overlap THEN Target(h, i) > 0 ELSE i - 1 \in h.busy
          BY <1>2, <3>2, <4>1
        <4> QED
          BY <4>2, <4>3, <4>4, <4>5
      <3> QED
        BY <3>1, <3>2
    <2>4. \A n : Blocked(h, n)' = Blocked(h, n) /\ Target(h, n)' = Target(h, n)
      BY DEF Blocked, Target
    <2> QED
      BY <1>6, <2>1, <2>2, <2>3 DEF Past, Blocked, Target
  <1>12. LeaderState(h)'
    <2>1. Len(msgs'[0]) + Len(raws') = Len(h.S[Done(0)' + 1])
      BY <1>1, <1>2, <1>3, <1>5, <1>7
    <2>2. \A j \in 1..Len(raws') : raws'[j] = h.pub[h.cut[Done(0)'] + Len(msgs'[0]) + j]
      BY <1>1, <1>2, <1>3, <1>5, <1>8
    <2> QED
      BY <1>5, <2>1, <2>2 DEF LeaderState
  <1>13. ASSUME NEW r \in Rank PROVE RankState(h, r)'
    <2>1. RankState(h, r) /\ Done(r) \in Nat
      BY Types DEF Agree
    <2>2. /\ Done(r)' = Done(r) /\ Done(r) <= Rounds' /\ Target(h, Done(r))' = Target(h, Done(r))
          /\ Holds(h, r)'
      BY <1>1, <1>2, <1>5, <1>6, <2>1 DEF RankState, Target, Holds
    <2>3. CASE r = 0
      BY <1>1, <1>5, <2>1, <2>2, <2>3 DEF RankState
    <2>4. CASE r # 0
      BY <1>1, <1>5, <2>1, <2>2, <2>4 DEF RankState
    <2> QED
      BY <2>3, <2>4
  <1>14. ASSUME NEW r \in Follower PROVE FollowerState(h, r)'
    <2>1. /\ r \in Rank /\ r # 0 /\ FollowerState(h, r) /\ Done(r)' = Done(r) /\ pc'[r] = pc[r]
          /\ counts[r] \in Seq(Nat) /\ Counted(r) \in Nat /\ Len(counts[r]) \in Nat
      BY <1>5, Types, PlaceTypes DEF Agree
    <2>2. Counted(r)' = Counted(r) /\ Taken(h, r)' = Taken(h, r)
      BY <1>1, <2>1 DEF Counted, Taken
    <2>3. OnWay(h, r)'
      BY <1>1, <1>8, <2>1, <2>2 DEF FollowerState, OnWay
    <2>4. /\ Counted(r) <= k /\ Len(counts[r]) = k - Counted(r)
          /\ \A i \in 1..Len(counts[r]) :
               counts[r][i] = Len(h.S[Counted(r) + i]) - Bit(Blocked(h, Counted(r) + i - 1))
      BY <1>2, <2>1 DEF FollowerState
    <2>5. /\ Len(counts'[r]) = Len(counts[r]) + 1 /\ counts'[r][Len(counts[r]) + 1] = b
          /\ \A i \in 1..Len(counts[r]) : counts'[r][i] = counts[r][i]
      BY <1>1, <1>3, <2>1
    <2>6. Counted(r)' <= Rounds' /\ Len(counts'[r]) = Rounds' - Counted(r)'
      BY <1>6, <2>1, <2>2, <2>4, <2>5
    <2>7. ASSUME NEW i \in 1..Len(counts'[r])
          PROVE  counts'[r][i] = Len(h.S[Counted(r) + i]) - Bit(Blocked(h, Counted(r) + i - 1))
      <3>1. CASE i = Len(counts[r]) + 1
        <4>1. Counted(r) + i = k + 1 /\ Counted(r) + i - 1 = k
          BY <2>1, <2>4, <3>1
        <4>2. (a + b) - a = b
          OBVIOUS
        <4> QED
          BY <1>7, <1>9, <2>5, <3>1, <4>1, <4>2
      <3>2. CASE i # Len(counts[r]) + 1
        <4>1. i \in 1..Len(counts[r])
          BY <2>1, <2>5, <3>2
        <4> QED
          BY <2>4, <2>5, <4>1
      <3> QED
        BY <3>1, <3>2
    <2> QED
      BY <1>1, <2>1, <2>2, <2>3, <2>6, <2>7 DEF FollowerState, Blocked
  <1>15. Rank' = Rank /\ Follower' = Follower
    BY DEF Rank, Follower
  <1> QED
    BY <1>11, <1>12, <1>13, <1>14, <1>15 DEF Agree

LEMMA BroadcastCountStep ==
  ASSUME TypeOK, NEW h \in History, Agree(h), BroadcastCount
  PROVE  \E g \in History : Agree(g)'
  BY NextIteration, AnnounceStep DEF BroadcastCount

-----------------------------------------------------------------------------
(* Every rank makes the same history.                                      *)

LEMMA HistoryInit == Init => \E h \in History : Agree(h)
  <1> SUFFICES ASSUME Init PROVE \E h \in History : Agree(h)
    OBVIOUS
  <1>1. 0 \in Rank /\ Follower \subseteq Rank /\ 0 \notin Follower
    BY NumRanksAssumption DEF Rank, Follower
  <1>2. PICK h \in History : h.cut[0] = 0 /\ h.left[0] = 0 /\ h.busy = {}
    <2> DEFINE f == [pub |-> [i \in Nat |-> NoMessage], S |-> [i \in Nat |-> <<>>],
                     cut |-> [i \in Nat |-> 0], left |-> [i \in Nat |-> 0], busy |-> {}]
    <2>1. f \in History
      BY DEF History
    <2> QED
      BY <2>1
  <1>3. \A r \in Rank : /\ pc[r] = "receive" /\ msgs[r] = <<>> /\ seen[r] = <<>>
                        /\ work[r] = 0 /\ last[r] = 0 /\ Done(r) = 0 /\ Taken(h, r) = 0
    BY <1>2 DEF Init, Done, Taken
  <1>4. Rounds = 0 /\ Sent(h) = 0
    <2>1. Rounds = 0
      BY <1>1, <1>3 DEF Rounds, Bit
    <2>2. Sent(h) = 0 + 0 - 0
      BY <1>1, <1>2, <1>3, <2>1 DEF Sent
    <2> QED
      BY <2>1, <2>2
  <1>5. Past(h)
    BY <1>2, <1>4 DEF Past
  <1>6. LeaderState(h)
    BY <1>1, <1>3 DEF Init, LeaderState
  <1>7. \A r \in Rank : RankState(h, r)
    BY <1>2, <1>3, <1>4 DEF RankState, Holds
  <1>8. ASSUME NEW r \in Follower PROVE FollowerState(h, r)
    <2>1. sub[r] = <<>> /\ counts[r] = <<>> /\ Counted(r) = 0
      BY <1>1, <1>3 DEF Init, Counted, Bit
    <2> QED
      BY <1>1, <1>3, <1>4, <2>1 DEF FollowerState, OnWay
  <1> QED
    BY <1>5, <1>6, <1>7, <1>8 DEF Agree

LEMMA HistoryNext ==
  ASSUME TypeOK, NEW h \in History, Agree(h), [Next]_vars
  PROVE  \E g \in History : Agree(g)'
  <1>1. CASE Submit \/ Rest \/ UNCHANGED vars
    BY <1>1, SubmitStep DEF Rest
  <1>2. ASSUME NEW r \in Rank, Step(r) PROVE \E g \in History : Agree(g)'
    <2>1. CASE r = 0
      BY <1>2, <2>1, UnblockStep, GoOnStep, DrainStep, BroadcastCountStep, ShareOneStep, ShareDoneStep,
         LeaderLoop DEF Step
    <2>2. CASE r # 0
      <3>1. r \in Follower
        BY <2>2 DEF Follower
      <3> QED
        BY <1>2, <2>2, <3>1, FollowUnblockStep, FollowGoOnStep, FollowCountStep, FollowOneStep,
           FollowDoneStep, FollowerLoop DEF Step
    <2> QED
      BY <2>1, <2>2
  <1> QED
    BY <1>1, <1>2 DEF Next

\* The inductive invariant.
Inv == TypeOK /\ \E h \in History : Agree(h)

LEMMA HistoryInvariant == Spec => []Inv
  <1>1. Init => Inv
    BY TypeInit, HistoryInit DEF Inv
  <1>2. Inv /\ [Next]_vars => Inv'
    <2> SUFFICES ASSUME Inv, [Next]_vars PROVE Inv'
      OBVIOUS
    <2>1. PICK h \in History : Agree(h)
      BY DEF Inv
    <2>2. PICK g \in History : Agree(g)'
      BY <2>1, HistoryNext DEF Inv
    <2>3. History' = History
      BY DEF History, NoMessage
    <2>4. TypeOK'
      BY TypeNext DEF Inv
    <2> QED
      BY <2>2, <2>3, <2>4 DEF Inv
  <1> QED
    BY <1>1, <1>2, PTL DEF Spec

\* Sequences that agree with a third one as far as they go are prefixes of one another.
LEMMA PrefixOfOne ==
  ASSUME NEW A, NEW s \in Seq(A), NEW t \in Seq(A), NEW f,
         \A i \in 1..Len(s) : s[i] = f[i], \A i \in 1..Len(t) : t[i] = f[i], Len(s) <= Len(t)
  PROVE  IsPrefix(s, t)
  <1>1. Len(s) \in Nat /\ Len(t) \in Nat
    OBVIOUS
  <1>2. SubSeq(t, 1, Len(s)) \in Seq(A) /\ Len(SubSeq(t, 1, Len(s))) = Len(s)
    BY <1>1
  <1>3. \A i \in 1..Len(s) : SubSeq(t, 1, Len(s))[i] = t[i]
    BY <1>1
  <1>4. SubSeq(t, 1, Len(s)) = s
    BY <1>1, <1>2, <1>3, SameSequence
  <1> QED
    BY <1>4 DEF IsPrefix

\* All ranks handle the same messages in the same iteration, however far one is ahead:
\* the schedulers of a group, which decide alone, take the same decisions.
THEOREM RanksHandleTheSame == Spec => []SameMessages
  <1>1. Inv => SameMessages
    <2> SUFFICES ASSUME Inv, NEW r \in Rank, NEW q \in Rank
                 PROVE  IsPrefix(seen[r], seen[q]) \/ IsPrefix(seen[q], seen[r])
      BY DEF SameMessages
    <2>1. PICK h \in History : Agree(h)
      BY DEF Inv
    <2>2. \A p \in Rank : seen[p] \in Seq(Seq(Message)) /\ \A i \in 1..Len(seen[p]) : seen[p][i] = h.S[i]
      BY <2>1, Types DEF Inv, Agree, RankState, Done
    <2>3. Len(seen[r]) <= Len(seen[q]) \/ Len(seen[q]) <= Len(seen[r])
      BY <2>2
    <2> QED
      BY <2>2, <2>3, PrefixOfOne
  <1> QED
    BY <1>1, HistoryInvariant, PTL

=============================================================================
