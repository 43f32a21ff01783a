---------------------------- MODULE StartupProofs ----------------------------
(***************************************************************************)
(* The start of the server, for any number of ranks and workers, any       *)
(* command lines, any memory and any failures: the ranks make the same     *)
(* collective calls and choose the same pages, and when the server serves  *)
(* everything is up and connected.                                         *)
(*                                                                         *)
(* CallInv is about the calls: each is the one that the calls before it    *)
(* and the reduced memory ask for, and those are the same on every rank.   *)
(* MeetInv is about the barrier, which is the last call: who leaves it     *)
(* knows that all have come.  AckInv counts the acknowledgements.          *)
(***************************************************************************)
EXTENDS Startup, FiniteSetTheorems, NaturalsInduction, WellFoundedInduction, TLAPS

-----------------------------------------------------------------------------
(* The inductive invariant.                                                *)

\* The calls of a rank are a sequence, of some set of calls.
IsSeq == \E S : calls \in [Rank -> Seq(S)]

\* How many calls bring up the communication between the ranks, before the first
\* memory is reduced.
Base == Len(SetupCalls)
SetupPlaces == {"group", "cpu_group", "uid", "comm", "window"}

AllMade(k) == \A s \in Rank : Len(calls[s]) >= k
Largest(k) == Max({calls[s][k].val : s \in Rank})

\* The graph sizes rank r has called for, up to its call k.
Done(r, k) == {calls[r][j].val : j \in Base + 4 .. k}
Rest(r, k) == GraphSizes(initMem[r]) \ Done(r, k)

\* How many calls a rank has made at each place of its start, and what a
\* capturing rank has still to capture.
AtPlace(r) ==
  /\ pc[r] \in {"none", "new"} => Len(calls[r]) = 0
  /\ pc[r] \in SetupPlaces =>
       \E k \in 1 .. Base : pc[r] = SetupCalls[k] /\ Len(calls[r]) = k
  /\ pc[r] \in {"mem1", "load"} => Len(calls[r]) = Base + 1
  /\ pc[r] = "mem2" => Len(calls[r]) = Base + 2
  /\ pc[r] = "mem3" => Len(calls[r]) = Base + 3
  /\ pc[r] \in {"graph", "barrier", "loop"} => Len(calls[r]) >= Base + 4
  /\ pc[r] = "graph" => todo[r] = Rest(r, Len(calls[r]) - 1)
                          /\ calls[r][Len(calls[r])].val = Max(todo[r])
  /\ pc[r] = "io" => Len(calls[r]) >= Base + 3 /\ Rest(r, Len(calls[r])) = {}

\* Every call is the one that the calls before it and the synced memory ask for.
FirstCalls(r, k) ==
  /\ k <= Base => calls[r][k].at = SetupCalls[k]
  /\ k = Base + 1 => calls[r][k].at = "mem1"
  /\ k = Base + 2 => calls[r][k].at = "mem2"
  /\ k = Base + 3 => calls[r][k].at = "mem3"

LaterCalls(r, k) ==
  IF Rest(r, k - 1) = {} THEN calls[r][k].at = "barrier" /\ calls[r][k].val = 0
  ELSE calls[r][k].at = "graph" /\ calls[r][k].val = Max(Rest(r, k - 1))

Planned ==
  \A r \in Rank : \A k \in 1 .. Len(calls[r]) :
    FirstCalls(r, k) /\ (k >= Base + 4 => LaterCalls(r, k))

\* What was reduced is the same on every rank that knows it.
Known(r) ==
  /\ Len(calls[r]) >= Base + 2 \/ pc[r] = "load" =>
       AllMade(Base + 1) /\ initMem[r] = Largest(Base + 1)
  /\ pages[r] # None =>
       /\ Len(calls[r]) >= Base + 2 /\ AllMade(Base + 2)
       /\ pages[r] = NumPages(initMem[r], Largest(Base + 2))

SameSizes ==
  \A r, s \in Rank : \A k \in Base + 4 .. Len(calls[r]) :
    k <= Len(calls[s]) => calls[r][k].val = calls[s][k].val

Places == Collectives \cup {"none", "new", "load", "io", "loop", "dead"}

Domains ==
  /\ pc \in [Rank -> Places]
  /\ left \in [Rank -> Nat]
  /\ DOMAIN initMem = Rank /\ DOMAIN pages = Rank
  /\ DOMAIN todo = Rank /\ DOMAIN graphs = Rank

NotYet == spawned \in Nat /\ \A r \in Rank : spawned <= r => pc[r] = "none"

RankInv == \A r \in Rank : AtPlace(r) /\ Known(r)

CallInv == IsSeq /\ Domains /\ NotYet /\ RankInv /\ Planned /\ SameSizes

\* What leads to the acknowledgement of a rank, and to the last one.
Configured ==
  config \in Options /\ MaxTokenizers \in Nat /\ config.tokenizers <= MaxTokenizers

LeftBehind(r) ==
  /\ pc[r] \in Collectives => left[r] + 1 = Len(calls[r])
  /\ pc[r] \notin Collectives \cup {"dead"} => left[r] = Len(calls[r])
  /\ left[r] <= Len(calls[r]) /\ Len(calls[r]) <= left[r] + 1

BarrierLast(r) ==
  /\ pc[r] \in {"barrier", "loop"} => calls[r][Len(calls[r])].at = "barrier"
  /\ \A k \in 1 .. Len(calls[r]) : calls[r][k].at = "barrier" =>
       /\ k = Len(calls[r])
       /\ pc[r] \in {"barrier", "loop", "dead"}
       /\ pc[r] = "dead" => left[r] < k

Captured(r) ==
  /\ pc[r] \in SetupPlaces \cup {"none", "new", "mem1", "load", "mem2", "mem3"} => graphs[r] = {}
  /\ pc[r] = "graph" => graphs[r] \cup todo[r] = GraphSizes(initMem[r]) /\ todo[r] # {}
  /\ pc[r] \in {"io", "barrier", "loop"} => graphs[r] = GraphSizes(initMem[r])

Opened(r) == pc[r] \in {"barrier", "loop"} => RankSockets(r) \subseteq sockets

Local(r) == LeftBehind(r) /\ BarrierLast(r) /\ Captured(r) /\ Opened(r)

Passed ==
  (\E r \in Rank : pc[r] = "loop") => \A s \in Rank : pc[s] \in {"barrier", "loop"}

MeetInv == config \in Options /\ (\A r \in Rank : Local(r)) /\ Passed

Looping == {w \in Worker : wpc[w] = "loop"}

Launched ==
  /\ launcher \in {"start", "exit", "spawn", "wait", "serve"}
  /\ spawned <= Processes
  /\ launcher \in {"start", "spawn"} => spawned < Processes
  /\ wpc \in [Worker -> {"none", "new", "load", "loop", "dead"}]
  /\ \A w \in Worker : w > config.tokenizers => wpc[w] = "none"
  /\ \A i \in N .. Processes - 1 : spawned <= i => wpc[WorkerOf(i)] = "none"

Acked ==
  /\ got \in Nat /\ acks \in Nat
  /\ got + acks = Cardinality(Looping) + (IF pc[0] = "loop" THEN 1 ELSE 0)
  /\ launcher = "serve" => got = AcksExpected

AckInv == Configured /\ Launched /\ Acked

-----------------------------------------------------------------------------
(* The maximum of a finite set.                                            *)

\* A set of naturals that is not empty has a least element.
LEMMA NatLeast ==
  ASSUME NEW T \in SUBSET Nat, T # {}
  PROVE  \E x \in T : \A y \in T : x <= y
  <1> DEFINE R == {p \in Nat \X Nat : p[1] < p[2]}
  <1>1. IsWellFoundedOn(R, Nat)
    BY NatLessThanWellFounded DEF OpToRel
  <1>2. \A x, y \in Nat : y < x => <<y, x>> \in R
    <2> SUFFICES ASSUME NEW x \in Nat, NEW y \in Nat, y < x PROVE <<y, x>> \in R
      OBVIOUS
    <2>1. <<y, x>> \in Nat \X Nat /\ <<y, x>>[1] = y /\ <<y, x>>[2] = x
      OBVIOUS
    <2> QED
      BY <2>1
  <1> HIDE DEF R
  <1>3. PICK x \in T : \A y \in T : <<y, x>> \notin R
    BY <1>1, WFMin
  <1>4. \A y \in T : y \in Nat /\ x \in Nat /\ ~(y < x)
    BY <1>2, <1>3
  <1> QED
    BY <1>4

IsMax(S, m) == m \in S /\ \A y \in S : m >= y
Unbounded(S) == S \in SUBSET Int /\ IsFiniteSet(S) /\ S # {} /\ \A m : ~IsMax(S, m)

\* A finite set of integers that is not empty has a greatest element: a smallest
\* one that had none would still have none with an element less.
LEMMA FiniteMax ==
  ASSUME NEW S \in SUBSET Int, IsFiniteSet(S), S # {}
  PROVE  Max(S) \in S /\ \A y \in S : Max(S) >= y
  <1>1. \E m : IsMax(S, m)
    <2> SUFFICES ASSUME Unbounded(S)
                 PROVE  FALSE
      BY DEF Unbounded
    <2> DEFINE Sizes == {n \in Nat : \E U : Unbounded(U) /\ Cardinality(U) = n}
    <2>1. Cardinality(S) \in Sizes
      BY FS_CardinalityType
    <2>2. PICK n \in Sizes : \A k \in Sizes : n <= k
      BY <2>1, NatLeast
    <2>3. PICK U : Unbounded(U) /\ Cardinality(U) = n
      OBVIOUS
    <2>4. PICK x : x \in U
      BY <2>3 DEF Unbounded
    <2>5. IsFiniteSet(U \ {x}) /\ Cardinality(U \ {x}) = n - 1
      BY <2>3, <2>4, FS_RemoveElement DEF Unbounded
    <2>6. Cardinality(U \ {x}) \in Nat
      BY <2>5, FS_CardinalityType
    <2>7. ~Unbounded(U \ {x})
      BY <2>2, <2>5, <2>6
    <2>8. x \in Int /\ U \in SUBSET Int
      BY <2>3, <2>4 DEF Unbounded
    <2>9. CASE U \ {x} = {}
      BY <2>3, <2>4, <2>8, <2>9 DEF Unbounded, IsMax
    <2>10. CASE U \ {x} # {}
      <3>1. PICK m : IsMax(U \ {x}, m)
        BY <2>5, <2>7, <2>8, <2>10 DEF Unbounded
      <3>2. m \in Int /\ m \in U /\ \A y \in U : y # x => m >= y
        BY <2>8, <3>1 DEF IsMax
      <3>3. CASE m >= x
        BY <2>3, <3>2, <3>3 DEF Unbounded, IsMax
      <3>4. CASE ~(m >= x)
        <4>1. \A y \in U : x >= y
          BY <2>8, <3>2, <3>4
        <4> QED
          BY <2>3, <2>4, <4>1 DEF Unbounded, IsMax
      <3> QED
        BY <3>3, <3>4
    <2> QED
      BY <2>9, <2>10
  <1>2. PICK m : IsMax(S, m)
    BY <1>1
  <1> DEFINE P(x) == x \in S /\ \A y \in S : x >= y
  <1>3. P(m)
    BY <1>2 DEF IsMax
  <1>4. Max(S) = CHOOSE x : P(x)
    BY DEF Max
  <1> HIDE DEF P
  <1>5. P(CHOOSE x : P(x))
    BY <1>3
  <1> QED
    BY <1>4, <1>5 DEF P

-----------------------------------------------------------------------------
(* Calls.                                                                  *)

LEMMA Wider ==
  ASSUME NEW S, NEW R, S \subseteq R, NEW q \in Seq(S)
  PROVE  q \in Seq(R)
  <1>1. Len(q) \in Nat /\ q \in [1 .. Len(q) -> S]
    OBVIOUS
  <1>2. q \in [1 .. Len(q) -> R]
    BY <1>1
  <1> QED
    BY <1>1, <1>2

\* A call is one more at the end of its rank's calls, and changes no other.
CallMade(r, at, val) ==
  /\ Len(calls'[r]) = Len(calls[r]) + 1
  /\ calls'[r][Len(calls[r]) + 1] = [at |-> at, val |-> val]
  /\ \A k \in 1 .. Len(calls[r]) : calls'[r][k] = calls[r][k]
  /\ \A s \in Rank : s # r => calls'[s] = calls[s]

LEMMA Lengths ==
  ASSUME IsSeq
  PROVE  \A r \in Rank : Len(calls[r]) \in Nat
  BY DEF IsSeq

\* How the communication is set up depends on the options only.
LEMMA SetupKnown ==
  /\ Base \in Nat /\ Base >= 1
  /\ SetupCalls[1] = "group"
  /\ \A k \in 1 .. Base : SetupCalls[k] \in SetupPlaces
  /\ \A j, k \in 1 .. Base : SetupCalls[j] = SetupCalls[k] => j = k
  <1>1. CASE N = 1
    BY <1>1 DEF Base, SetupCalls, SetupPlaces
  <1>2. CASE N # 1 /\ config.pynccl
    BY <1>2 DEF Base, SetupCalls, SetupPlaces
  <1>3. CASE N # 1 /\ ~config.pynccl
    BY <1>3 DEF Base, SetupCalls, SetupPlaces
  <1> QED
    BY <1>1, <1>2, <1>3

LEMMA SetupStays ==
  ASSUME UNCHANGED config
  PROVE  UNCHANGED <<SetupCalls, Base>>
  BY DEF SetupCalls, Base

LEMMA CallAppends ==
  ASSUME IsSeq, NEW r \in Rank, NEW at, NEW val,
         calls' = [calls EXCEPT ![r] = Append(@, [at |-> at, val |-> val])]
  PROVE  IsSeq' /\ CallMade(r, at, val)
  <1> DEFINE e == [at |-> at, val |-> val]
  <1>1. PICK S : calls \in [Rank -> Seq(S)]
    BY DEF IsSeq
  <1> DEFINE R == S \cup {e}
  <1>2. \A s \in Rank : calls[s] \in Seq(R)
    BY <1>1, Wider
  <1>3. e \in R
    OBVIOUS
  <1> HIDE DEF e, R
  <1>4. Append(calls[r], e) \in Seq(R)
    BY <1>2, <1>3
  <1>5. calls' = [calls EXCEPT ![r] = Append(calls[r], e)] /\ DOMAIN calls = Rank
    BY <1>1 DEF e
  <1>6. calls'[r] = Append(calls[r], e) /\ \A s \in Rank : s # r => calls'[s] = calls[s]
    BY <1>5
  <1>7. calls' \in [Rank -> Seq(R)]
    BY <1>2, <1>4, <1>5
  <1>8. /\ Len(Append(calls[r], e)) = Len(calls[r]) + 1
        /\ Append(calls[r], e)[Len(calls[r]) + 1] = e
        /\ \A k \in 1 .. Len(calls[r]) : Append(calls[r], e)[k] = calls[r][k]
    BY <1>2
  <1>9. IsSeq'
    BY <1>7 DEF IsSeq
  <1> QED
    BY <1>6, <1>8, <1>9 DEF CallMade, e

\* Calls are only ever added.
Grows ==
  \A s \in Rank :
    /\ Len(calls[s]) <= Len(calls'[s])
    /\ \A k \in 1 .. Len(calls[s]) : calls'[s][k] = calls[s][k]

LEMMA CallGrows ==
  ASSUME IsSeq, NEW r \in Rank, NEW at, NEW val, CallMade(r, at, val)
  PROVE  Grows
  BY Lengths DEF CallMade, Grows

LEMMA NoCallGrows ==
  ASSUME IsSeq, UNCHANGED calls
  PROVE  Grows
  BY Lengths DEF Grows

LEMMA ReducedStays ==
  ASSUME IsSeq, IsSeq', Grows, NEW k \in Nat \ {0}, AllMade(k)
  PROVE  AllMade(k)' /\ Largest(k)' = Largest(k)
  <1>1. \A s \in Rank : Len(calls[s]) \in Nat /\ Len(calls'[s]) \in Nat
    BY Lengths DEF IsSeq
  <1>2. \A s \in Rank : k \in 1 .. Len(calls[s]) /\ k <= Len(calls'[s])
    BY <1>1 DEF AllMade, Grows
  <1>3. \A s \in Rank : calls'[s][k] = calls[s][k]
    BY <1>2 DEF Grows
  <1>4. {calls'[s][k].val : s \in Rank} = {calls[s][k].val : s \in Rank}
    BY <1>3
  <1> QED
    BY <1>2, <1>4 DEF AllMade, Largest

\* What was reduced before and after loading.
LEMMA SyncedStay ==
  ASSUME IsSeq, IsSeq', Grows, UNCHANGED config
  PROVE  /\ AllMade(Base + 1) => AllMade(Base + 1)' /\ UNCHANGED Largest(Base + 1)
         /\ AllMade(Base + 2) => AllMade(Base + 2)' /\ UNCHANGED Largest(Base + 2)
  <1>1. \A k \in Nat \ {0} : AllMade(k) => AllMade(k)' /\ Largest(k)' = Largest(k)
    BY ReducedStays
  <1>2. Base + 1 \in Nat \ {0} /\ Base + 2 \in Nat \ {0} /\ Base' = Base
    BY SetupKnown, SetupStays
  <1> QED
    BY <1>1, <1>2

LEMMA DoneStays ==
  ASSUME IsSeq, Grows, UNCHANGED config, NEW r \in Rank, NEW k \in Int, k <= Len(calls[r])
  PROVE  Done(r, k)' = Done(r, k)
  <1>1. \A j \in Base + 4 .. k : calls'[r][j] = calls[r][j]
    BY Lengths, SetupKnown DEF Grows
  <1> QED
    BY <1>1, SetupStays DEF Done

LEMMA RestStays ==
  ASSUME IsSeq, Grows, UNCHANGED config, NEW r \in Rank, initMem'[r] = initMem[r],
         NEW k \in Int, k <= Len(calls[r])
  PROVE  Rest(r, k)' = Rest(r, k)
  BY DoneStays DEF Rest, GraphSizes

\* A step of one rank keeps what is known of the others.
LEMMA OthersKeep ==
  ASSUME CallInv, IsSeq', Grows, UNCHANGED config, NEW r \in Rank,
         \A s \in Rank \ {r} :
           /\ calls'[s] = calls[s] /\ pc'[s] = pc[s] /\ todo'[s] = todo[s]
           /\ initMem'[s] = initMem[s] /\ pages'[s] = pages[s]
  PROVE  \A s \in Rank \ {r} : AtPlace(s)' /\ Known(s)'
  <1> SUFFICES ASSUME NEW s \in Rank \ {r}
               PROVE  AtPlace(s)' /\ Known(s)'
    OBVIOUS
  <1>0. IsSeq /\ s \in Rank /\ Len(calls[s]) \in Nat
    BY Lengths DEF CallInv
  <1>1. AtPlace(s) /\ Known(s)
    BY DEF CallInv, RankInv
  <1>2. /\ calls'[s] = calls[s] /\ pc'[s] = pc[s] /\ todo'[s] = todo[s]
        /\ initMem'[s] = initMem[s] /\ pages'[s] = pages[s]
    OBVIOUS
  <1>3. /\ Rest(s, Len(calls[s]) - 1)' = Rest(s, Len(calls[s]) - 1)
        /\ Rest(s, Len(calls[s]))' = Rest(s, Len(calls[s]))
    <2>1. \A k \in Int : k <= Len(calls[s]) => Rest(s, k)' = Rest(s, k)
      BY <1>0, <1>2, RestStays
    <2>2. Len(calls'[s]) = Len(calls[s])
      BY <1>2
    <2> QED
      BY <1>0, <2>1, <2>2
  <1>4. AtPlace(s)'
    BY <1>1, <1>2, <1>3, SetupStays DEF AtPlace
  <1>5. /\ AllMade(Base + 1) => AllMade(Base + 1)' /\ Largest(Base + 1)' = Largest(Base + 1)
        /\ AllMade(Base + 2) => AllMade(Base + 2)' /\ Largest(Base + 2)' = Largest(Base + 2)
    BY <1>0, SyncedStay
  <1>6. Known(s)'
    BY <1>1, <1>2, <1>5, SetupStays DEF Known, NumPages
  <1> QED
    BY <1>4, <1>6

\* What the next call of rank r must be.
Right(r, at, val) ==
  LET n == Len(calls[r])
  IN /\ n < Base => at = SetupCalls[n + 1]
     /\ n = Base => at = "mem1"
     /\ n = Base + 1 => at = "mem2"
     /\ n = Base + 2 => at = "mem3"
     /\ n >= Base + 3 => IF Rest(r, n) = {} THEN at = "barrier" /\ val = 0
                                     ELSE at = "graph" /\ val = Max(Rest(r, n))

LEMMA PlannedStays ==
  ASSUME IsSeq, IsSeq', Planned, NEW r \in Rank, NEW at, NEW val, CallMade(r, at, val),
         UNCHANGED <<config, initMem>>, Right(r, at, val)
  PROVE  Planned'
  <1> DEFINE n == Len(calls[r])
  <1>0. Grows /\ n \in Nat /\ Base \in Nat /\ UNCHANGED <<SetupCalls, Base>>
    BY CallGrows, Lengths, SetupKnown, SetupStays
  <1> SUFFICES ASSUME NEW s \in Rank, NEW k \in 1 .. Len(calls'[s])
               PROVE  FirstCalls(s, k)' /\ (k >= Base + 4 => LaterCalls(s, k)')
    BY <1>0 DEF Planned
  <1>1. Len(calls[s]) \in Nat /\ Len(calls'[s]) \in Nat
    BY Lengths DEF IsSeq
  <1>2. CASE k <= Len(calls[s])
    <2>1. k \in 1 .. Len(calls[s])
      BY <1>1, <1>2
    <2>2. calls'[s][k] = calls[s][k]
      BY <1>0, <2>1 DEF Grows
    <2>3. Rest(s, k - 1)' = Rest(s, k - 1)
      BY <1>0, <1>1, <2>1, RestStays
    <2>4. FirstCalls(s, k) /\ (k >= Base + 4 => LaterCalls(s, k))
      BY <2>1 DEF Planned
    <2> QED
      BY <1>0, <2>2, <2>3, <2>4 DEF FirstCalls, LaterCalls
  <1>3. CASE k > Len(calls[s])
    <2>1. s = r /\ k = n + 1
      BY <1>1, <1>3, <1>0 DEF CallMade
    <2>2. calls'[s][k] = [at |-> at, val |-> val]
      BY <2>1 DEF CallMade
    <2>3. Rest(s, k - 1)' = Rest(s, n)
      BY <1>0, <2>1, RestStays
    <2>4. calls'[s][k].at = at /\ calls'[s][k].val = val
      BY <2>2
    <2>5. FirstCalls(s, k)'
      <3>1. /\ n < Base => at = SetupCalls[n + 1]
            /\ n = Base => at = "mem1"
            /\ n = Base + 1 => at = "mem2"
            /\ n = Base + 2 => at = "mem3"
        BY DEF Right
      <3>2. /\ k <= Base => n < Base /\ n + 1 = k
            /\ k = Base + 1 => n = Base
            /\ k = Base + 2 => n = Base + 1
            /\ k = Base + 3 => n = Base + 2
        BY <1>0, <2>1
      <3> HIDE DEF n
      <3> QED
        BY <1>0, <2>4, <3>1, <3>2 DEF FirstCalls
    <2>6. k >= Base + 4 => LaterCalls(s, k)'
      BY <1>0, <2>1, <2>3, <2>4 DEF Right, LaterCalls
    <2> QED
      BY <2>5, <2>6
  <1> QED
    BY <1>1, <1>2, <1>3

\* Ranks that have made the same calls, and started from the same memory, have
\* the same sizes left.
LEMMA SameRest ==
  ASSUME IsSeq, SameSizes, RankInv, NEW r \in Rank, NEW s \in Rank, NEW n \in Nat,
         n >= Base + 3, n <= Len(calls[r]), n <= Len(calls[s])
  PROVE  Rest(r, n) = Rest(s, n)
  <1>1. Len(calls[r]) \in Nat /\ Len(calls[s]) \in Nat
    BY Lengths
  <1>2. initMem[r] = initMem[s]
    BY <1>1, SetupKnown DEF RankInv, Known
  <1>3. \A j \in Base + 4 .. n : calls[r][j].val = calls[s][j].val
    BY <1>1, SetupKnown DEF SameSizes
  <1>4. Done(r, n) = Done(s, n)
    BY <1>3 DEF Done
  <1> QED
    BY <1>2, <1>4 DEF Rest

LEMMA SizesStay ==
  ASSUME CallInv, IsSeq', UNCHANGED config, NEW r \in Rank, NEW at, NEW val,
         CallMade(r, at, val), Right(r, at, val)
  PROVE  SameSizes'
  <1> DEFINE n == Len(calls[r])
  <1>0. /\ Grows /\ n \in Nat /\ Base \in Nat /\ UNCHANGED Base
        /\ \A s \in Rank : Len(calls[s]) \in Nat /\ Len(calls'[s]) \in Nat
    BY CallGrows, Lengths, SetupKnown, SetupStays DEF CallInv, IsSeq
  <1>1. ASSUME NEW s \in Rank, s # r, Base + 4 <= n + 1, n + 1 <= Len(calls[s])
        PROVE  calls[s][n + 1].val = val
    <2>1. Rest(r, n) = Rest(s, n)
      BY <1>0, <1>1, SameRest DEF CallInv
    <2>2. LaterCalls(s, n + 1)
      BY <1>0, <1>1 DEF CallInv, Planned
    <2>3. (n + 1) - 1 = n
      BY <1>0
    <2> QED
      BY <1>0, <1>1, <2>1, <2>2, <2>3 DEF LaterCalls, Right
  <1>2. calls'[r][n + 1].val = val /\ Len(calls'[r]) = n + 1
    BY DEF CallMade
  <1>3. \A s \in Rank : s # r => calls'[s] = calls[s]
    BY DEF CallMade
  <1>4. \A k \in 1 .. n : calls'[r][k] = calls[r][k]
    BY DEF CallMade
  <1> HIDE DEF n
  <1> SUFFICES ASSUME NEW p \in Rank, NEW q \in Rank, NEW k \in Base + 4 .. Len(calls'[p]),
                      k <= Len(calls'[q])
               PROVE  calls'[p][k].val = calls'[q][k].val
    BY <1>0 DEF SameSizes
  <1>5. SameSizes
    BY DEF CallInv
  <1>6. CASE p = r /\ q = r
    BY <1>6
  <1>7. CASE p # r /\ q # r
    BY <1>3, <1>5, <1>7 DEF SameSizes
  <1>8. CASE p = r /\ q # r
    <2>1. CASE k = n + 1
      BY <1>0, <1>1, <1>2, <1>3, <1>8, <2>1
    <2>2. CASE k # n + 1
      <3>1. k \in Base + 4 .. n
        BY <1>0, <1>2, <1>8, <2>2
      <3>2. calls[r][k].val = calls[q][k].val
        BY <1>3, <1>5, <1>8, <3>1 DEF SameSizes, n
      <3> QED
        BY <1>0, <1>3, <1>4, <1>8, <3>1, <3>2
    <2> QED
      BY <2>1, <2>2
  <1>9. CASE p # r /\ q = r
    <2>1. CASE k = n + 1
      BY <1>0, <1>1, <1>2, <1>3, <1>9, <2>1
    <2>2. CASE k # n + 1
      <3>1. k \in Base + 4 .. n
        BY <1>0, <1>2, <1>9, <2>2
      <3>2. calls[p][k].val = calls[r][k].val
        BY <1>0, <1>3, <1>5, <1>9, <3>1 DEF SameSizes, n
      <3> QED
        BY <1>0, <1>3, <1>4, <1>9, <3>1, <3>2
    <2> QED
      BY <2>1, <2>2
  <1> QED
    BY <1>6, <1>7, <1>8, <1>9

LEMMA QuietStays ==
  ASSUME CallInv, UNCHANGED <<config, calls>>,
         \A s \in Rank : Len(calls[s]) >= Base + 4 => initMem'[s] = initMem[s]
  PROVE  IsSeq' /\ Grows /\ Planned' /\ SameSizes'
  <1>1. /\ IsSeq /\ Planned /\ SameSizes /\ \A s \in Rank : Len(calls[s]) \in Nat
        /\ Base \in Nat /\ UNCHANGED <<SetupCalls, Base>>
    BY Lengths, SetupKnown, SetupStays DEF CallInv
  <1>2. IsSeq' /\ Grows
    BY <1>1, NoCallGrows DEF IsSeq
  <1>3. SameSizes'
    BY <1>1 DEF SameSizes
  <1>4. ASSUME NEW s \in Rank, NEW k \in 1 .. Len(calls[s])
        PROVE  FirstCalls(s, k)' /\ (k >= Base + 4 => LaterCalls(s, k)')
    <2>1. FirstCalls(s, k) /\ (k >= Base + 4 => LaterCalls(s, k))
      BY <1>1, <1>4 DEF Planned
    <2>2. FirstCalls(s, k)'
      BY <1>1, <2>1 DEF FirstCalls
    <2>3. ASSUME k >= Base + 4
          PROVE  LaterCalls(s, k)'
      <3>1. initMem'[s] = initMem[s]
        BY <1>1, <1>4, <2>3
      <3>2. Rest(s, k - 1)' = Rest(s, k - 1)
        BY <1>1, <3>1 DEF Rest, Done, GraphSizes
      <3> QED
        BY <1>1, <2>1, <2>3, <3>2 DEF LaterCalls
    <2> QED
      BY <2>2, <2>3
  <1>5. Planned'
    BY <1>1, <1>4 DEF Planned
  <1> QED
    BY <1>2, <1>3, <1>5

\* What a step of rank r leaves alone.
OnlyRank(r) ==
  \A s \in Rank \ {r} :
    /\ calls'[s] = calls[s] /\ pc'[s] = pc[s] /\ todo'[s] = todo[s]
    /\ initMem'[s] = initMem[s] /\ pages'[s] = pages[s]

LEMMA StepKeeps ==
  ASSUME CallInv, NEW r \in Rank, pc[r] # "none", OnlyRank(r), UNCHANGED <<config, spawned>>,
         IsSeq', Grows, Domains', AtPlace(r)', Known(r)', Planned', SameSizes'
  PROVE  CallInv'
  <1>1. RankInv'
    BY OthersKeep DEF RankInv, OnlyRank
  <1>2. NotYet'
    BY DEF NotYet, OnlyRank, CallInv
  <1> QED
    BY <1>1, <1>2 DEF CallInv

\* A rank that makes the right call.
LEMMA RightCall ==
  ASSUME CallInv, NEW r \in Rank, NEW at, NEW val, Right(r, at, val),
         Call(r, at, val), UNCHANGED <<config, spawned, initMem>>
  PROVE  /\ IsSeq' /\ Grows /\ Planned' /\ SameSizes'
         /\ CallMade(r, at, val)
  <1>1. IsSeq
    BY DEF CallInv
  <1>2. IsSeq' /\ CallMade(r, at, val)
    BY <1>1, CallAppends DEF Call
  <1>3. Grows
    BY <1>1, <1>2, CallGrows
  <1>4. Planned'
    BY <1>1, <1>2, PlannedStays DEF CallInv
  <1>5. SameSizes'
    BY <1>2, SizesStay
  <1> QED
    BY <1>2, <1>3, <1>4, <1>5

\* A rank that dies, or that goes on to a place it has made the calls for.
LEMMA MoveKeeps ==
  ASSUME CallInv, NEW r \in Rank, NEW at \in Places, pc[r] # "none",
         pc' = [pc EXCEPT ![r] = at], left' \in [Rank -> Nat],
         UNCHANGED <<config, spawned, calls, initMem, pages, todo, graphs>>,
         at = "dead" \/ (at = "loop" /\ pc[r] = "barrier")
  PROVE  CallInv'
  <1>1. IsSeq' /\ Grows /\ Planned' /\ SameSizes'
    BY QuietStays
  <1>2. Domains'
    BY DEF CallInv, Domains
  <1>3. pc'[r] = at /\ OnlyRank(r)
    BY DEF OnlyRank, CallInv, Domains
  <1>4. AtPlace(r) /\ Known(r)
    BY DEF CallInv, RankInv
  <1>5. AtPlace(r)'
    BY <1>3, <1>4, SetupStays DEF AtPlace, SetupPlaces
  <1>6. Known(r)'
    BY <1>3, <1>4, SetupStays DEF Known, AllMade, Largest, NumPages
  <1> QED
    BY <1>1, <1>2, <1>3, <1>5, <1>6, StepKeeps

-----------------------------------------------------------------------------
(* The steps of a rank.                                                    *)

LEMMA CompleteMeansAll ==
  ASSUME IsSeq, NEW r \in Rank, Complete(r)
  PROVE  AllMade(Len(calls[r])) /\ SyncedFree(r) = Largest(Len(calls[r]))
  BY DEF Complete, AllMade, SyncedFree, Values, Largest

LEMMA LeaveCounts ==
  ASSUME Domains, NEW r \in Rank, Leave(r)
  PROVE  left' \in [Rank -> Nat]
  BY DEF Domains, Leave

\* A call of the setup, which is as many as its place says.
LEMMA SetupCallKeeps ==
  ASSUME CallInv, NEW r \in Rank, pc[r] # "none", NEW k \in 1 .. Base,
         Len(calls[r]) = k - 1, Call(r, SetupCalls[k], 0), left' \in [Rank -> Nat],
         UNCHANGED <<config, spawned, initMem, pages, todo, graphs>>
  PROVE  CallInv'
  <1> DEFINE at == SetupCalls[k]
  <1>1. Known(r) /\ Domains /\ IsSeq /\ Len(calls[r]) \in Nat
    BY Lengths DEF CallInv, RankInv
  <1>2. Base \in Nat /\ at \in SetupPlaces /\ UNCHANGED <<SetupCalls, Base>>
    BY SetupKnown, SetupStays
  <1>3. Right(r, at, 0)
    BY <1>1, <1>2 DEF Right
  <1> HIDE DEF at
  <1>4. /\ IsSeq' /\ Grows /\ Planned' /\ SameSizes'
        /\ CallMade(r, at, 0)
    BY <1>3, RightCall DEF at
  <1>5. pc' = [pc EXCEPT ![r] = at]
    BY DEF Call, at
  <1>6. pc'[r] = at /\ OnlyRank(r)
    BY <1>1, <1>4, <1>5 DEF Domains, OnlyRank, CallMade
  <1>7. Len(calls'[r]) = k
    BY <1>1, <1>4 DEF CallMade
  <1>8. AtPlace(r)'
    <2>1. k \in 1 .. Base' /\ pc'[r] = SetupCalls'[k]
      BY <1>2, <1>6 DEF at
    <2> QED
      BY <1>2, <1>6, <1>7, <2>1 DEF AtPlace, SetupPlaces
  <1>9. Known(r)'
    <2>1. ~(Len(calls[r]) >= Base + 2) /\ ~(Len(calls'[r]) >= Base' + 2)
      BY <1>1, <1>2, <1>7
    <2> QED
      BY <1>1, <1>2, <1>6, <2>1 DEF Known, SetupPlaces
  <1>10. Domains'
    BY <1>1, <1>2, <1>5 DEF Domains, SetupPlaces, Places, Collectives, GlooCalls, NcclCalls
  <1> QED
    BY <1>4, <1>6, <1>8, <1>9, <1>10, StepKeeps

LEMMA JoinGroupKeeps ==
  ASSUME CallInv, NEW r \in Rank, JoinGroup(r)
  PROVE  CallInv'
  <1>1. AtPlace(r) /\ Domains
    BY DEF CallInv, RankInv
  <1>2. pc[r] = "new" /\ Len(calls[r]) = 0
    BY <1>1 DEF JoinGroup, AtPlace
  <1>3. /\ Call(r, SetupCalls[1], 0) /\ left' \in [Rank -> Nat] /\ 1 \in 1 .. Base
        /\ UNCHANGED <<config, spawned, initMem, pages, todo, graphs>>
    BY <1>1, SetupKnown DEF JoinGroup, Outside, launchVars, engineVars, Domains
  <1> QED
    BY <1>2, <1>3, SetupCallKeeps

\* The place of a rank says how many calls of the setup it has made.
LEMMA AtSetup ==
  ASSUME CallInv, NEW r \in Rank, NEW k \in 1 .. Base, pc[r] = SetupCalls[k]
  PROVE  Len(calls[r]) = k
  BY SetupKnown DEF CallInv, RankInv, AtPlace

LEMMA ConnectKeeps ==
  ASSUME CallInv, NEW r \in Rank, Connect(r)
  PROVE  CallInv'
  <1>1. PICK k \in 1 .. Base - 1 : pc[r] = SetupCalls[k] /\ Call(r, SetupCalls[k + 1], 0)
    BY DEF Connect, Base
  <1>2. k \in 1 .. Base /\ k + 1 \in 1 .. Base /\ (k + 1) - 1 = k
    BY SetupKnown
  <1>3. pc[r] # "none" /\ Len(calls[r]) = k
    BY <1>1, <1>2, SetupKnown, AtSetup DEF SetupPlaces
  <1>4. left' \in [Rank -> Nat] /\ UNCHANGED <<config, spawned, initMem, pages, todo, graphs>>
    BY LeaveCounts DEF Connect, Outside, launchVars, engineVars, CallInv
  <1> QED
    BY <1>1, <1>2, <1>3, <1>4, SetupCallKeeps

LEMMA MeasureBeforeKeeps ==
  ASSUME CallInv, NEW r \in Rank, MeasureBefore(r)
  PROVE  CallInv'
  <1> DEFINE mem == free[r]
  <1>1. Known(r) /\ Domains /\ IsSeq /\ Len(calls[r]) \in Nat
    BY Lengths DEF CallInv, RankInv
  <1>2. pc[r] # "none" /\ Len(calls[r]) = Base
    BY SetupKnown, AtSetup DEF MeasureBefore, Base, SetupPlaces
  <1>3. Right(r, "mem1", mem)
    BY <1>2, SetupKnown DEF Right
  <1>4. /\ Call(r, "mem1", mem) /\ Leave(r)
        /\ UNCHANGED <<config, spawned, initMem, pages, todo, graphs>>
    BY DEF MeasureBefore, Outside, launchVars, engineVars
  <1> HIDE DEF mem
  <1>5. /\ IsSeq' /\ Grows /\ Planned' /\ SameSizes'
        /\ CallMade(r, "mem1", mem)
    BY <1>3, <1>4, RightCall
  <1>6. pc' = [pc EXCEPT ![r] = "mem1"]
    BY <1>4 DEF Call
  <1>7. pc'[r] = "mem1" /\ OnlyRank(r)
    BY <1>1, <1>4, <1>5, <1>6 DEF Domains, OnlyRank, CallMade
  <1>8. Base' = Base /\ Base \in Nat /\ Len(calls'[r]) = Base + 1
    BY <1>2, <1>4, <1>5, SetupKnown, SetupStays DEF CallMade
  <1>9. AtPlace(r)' /\ Known(r)'
    BY <1>1, <1>2, <1>4, <1>7, <1>8 DEF AtPlace, SetupPlaces, Known
  <1>10. Domains'
    BY <1>1, <1>4, <1>6, LeaveCounts DEF Domains, Places, Collectives, GlooCalls, NcclCalls
  <1> QED
    BY <1>2, <1>4, <1>5, <1>7, <1>9, <1>10, StepKeeps

LEMMA StartLoadingKeeps ==
  ASSUME CallInv, NEW r \in Rank, StartLoading(r)
  PROVE  CallInv'
  <1>1. AtPlace(r) /\ Known(r) /\ Domains /\ IsSeq /\ Len(calls[r]) \in Nat
    BY Lengths DEF CallInv, RankInv
  <1>2. pc[r] = "mem1" /\ Len(calls[r]) = Base + 1 /\ Complete(r)
    BY <1>1 DEF StartLoading, AtPlace
  <1>3. /\ Leave(r) /\ Base \in Nat /\ Base' = Base
        /\ UNCHANGED <<config, spawned, pages, todo, graphs>>
    BY SetupKnown, SetupStays DEF StartLoading, Outside, launchVars
  <1>4. CASE Balanced(Values(r))
    <2>1. /\ pc' = [pc EXCEPT ![r] = "load"]
          /\ initMem' = [initMem EXCEPT ![r] = SyncedFree(r)]
          /\ UNCHANGED calls
      BY <1>4 DEF StartLoading
    <2>2. AllMade(Base + 1) /\ SyncedFree(r) = Largest(Base + 1)
      BY <1>1, <1>2, CompleteMeansAll
    <2>3. IsSeq' /\ Grows /\ Planned' /\ SameSizes'
      <3>1. \A s \in Rank : Len(calls[s]) >= Base + 4 => initMem'[s] = initMem[s]
        <4>1. \A s \in Rank : s # r => initMem'[s] = initMem[s]
          BY <1>1, <2>1 DEF Domains
        <4>2. ~(Len(calls[r]) >= Base + 4)
          BY <1>2, <1>3
        <4> QED
          BY <4>1, <4>2
      <3> QED
        BY <1>3, <2>1, <3>1, QuietStays
    <2>4. pc'[r] = "load" /\ initMem'[r] = Largest(Base + 1) /\ OnlyRank(r)
      BY <1>1, <1>3, <2>1, <2>2 DEF Domains, OnlyRank
    <2>5. AtPlace(r)'
      BY <1>1, <1>2, <1>3, <2>1, <2>4 DEF AtPlace, SetupPlaces
    <2>6. Known(r)'
      BY <1>1, <1>2, <1>3, <2>1, <2>2, <2>4 DEF Known, AllMade, Largest
    <2>7. Domains'
      BY <1>1, <1>3, <2>1, LeaveCounts DEF Domains, Places
    <2> QED
      BY <1>2, <1>3, <2>3, <2>4, <2>5, <2>6, <2>7, StepKeeps
  <1>5. CASE ~Balanced(Values(r))
    BY <1>1, <1>2, <1>3, <1>5, LeaveCounts, MoveKeeps DEF StartLoading, Die, Places
  <1> QED
    BY <1>4, <1>5

LEMMA LoadKeeps ==
  ASSUME CallInv, NEW r \in Rank, Load(r)
  PROVE  CallInv'
  <1>1. AtPlace(r) /\ Known(r) /\ Domains /\ IsSeq /\ Len(calls[r]) \in Nat
    BY Lengths DEF CallInv, RankInv
  <1>2. pc[r] = "load" /\ Len(calls[r]) = Base + 1 /\ Base \in Nat
    BY <1>1, SetupKnown DEF Load, AtPlace
  <1>3. PICK mem : Call(r, "mem2", mem)
    BY DEF Load
  <1>4. UNCHANGED <<config, spawned, initMem, pages, todo, graphs, left>>
    BY DEF Load, Outside, launchVars
  <1>5. Right(r, "mem2", mem)
    BY <1>2 DEF Right
  <1>6. /\ IsSeq' /\ Grows /\ Planned' /\ SameSizes'
        /\ CallMade(r, "mem2", mem)
    BY <1>3, <1>4, <1>5, RightCall
  <1>7. pc' = [pc EXCEPT ![r] = "mem2"]
    BY <1>3 DEF Call
  <1>8. pc'[r] = "mem2" /\ OnlyRank(r)
    BY <1>1, <1>4, <1>6, <1>7 DEF Domains, OnlyRank, CallMade
  <1>9. Base' = Base /\ Len(calls'[r]) = Base + 2
    BY <1>2, <1>4, <1>6, SetupStays DEF CallMade
  <1>10. AllMade(Base + 1) /\ initMem[r] = Largest(Base + 1) /\ ~(pages[r] # None)
    BY <1>1, <1>2 DEF Known
  <1>11. AllMade(Base + 1)' /\ Largest(Base + 1)' = Largest(Base + 1)
    BY <1>1, <1>4, <1>6, <1>10, SyncedStay
  <1>12. AtPlace(r)' /\ Known(r)'
    BY <1>2, <1>4, <1>8, <1>9, <1>10, <1>11 DEF AtPlace, SetupPlaces, Known
  <1>13. Domains'
    BY <1>1, <1>4, <1>7 DEF Domains, Places, Collectives, GlooCalls, NcclCalls
  <1> QED
    BY <1>2, <1>4, <1>6, <1>8, <1>12, <1>13, StepKeeps

LEMMA AllocatePagesKeeps ==
  ASSUME CallInv, NEW r \in Rank, AllocatePages(r)
  PROVE  CallInv'
  <1> DEFINE num == NumPages(initMem[r], SyncedFree(r))
             need == (num + 1) * CachePerPage
             fits == Balanced(Values(r)) /\ num > 1 /\ need <= free[r]
  <1>1. AtPlace(r) /\ Known(r) /\ Domains /\ IsSeq /\ Len(calls[r]) \in Nat
    BY Lengths DEF CallInv, RankInv
  <1>2. pc[r] = "mem2" /\ Len(calls[r]) = Base + 2 /\ Base \in Nat /\ Complete(r)
    BY <1>1, SetupKnown DEF AllocatePages, AtPlace
  <1>3. /\ Leave(r)
        /\ UNCHANGED <<config, spawned, initMem, todo, graphs>>
    BY DEF AllocatePages, Outside, launchVars
  <1>4. CASE fits
    <2> DEFINE mem == free[r] - need
    <2>1. pages' = [pages EXCEPT ![r] = num] /\ Call(r, "mem3", mem)
      BY <1>4 DEF AllocatePages
    <2>2. AllMade(Base + 2) /\ num = NumPages(initMem[r], Largest(Base + 2))
      BY <1>1, <1>2, CompleteMeansAll
    <2>3. AllMade(Base + 1) /\ initMem[r] = Largest(Base + 1)
      BY <1>1, <1>2 DEF Known
    <2> HIDE DEF mem, num
    <2>4. Right(r, "mem3", mem)
      BY <1>2 DEF Right
    <2>5. /\ IsSeq' /\ Grows /\ Planned' /\ SameSizes'
          /\ CallMade(r, "mem3", mem)
      BY <1>3, <2>1, <2>4, RightCall
    <2>6. pc' = [pc EXCEPT ![r] = "mem3"]
      BY <2>1 DEF Call
    <2>7. pc'[r] = "mem3" /\ pages'[r] = num /\ OnlyRank(r)
      BY <1>1, <1>3, <2>1, <2>5, <2>6 DEF Domains, OnlyRank, CallMade
    <2>8. Base' = Base /\ Len(calls'[r]) = Base + 3
      BY <1>2, <1>3, <2>5, SetupStays DEF CallMade
    <2>9. /\ AllMade(Base + 1)' /\ Largest(Base + 1)' = Largest(Base + 1)
          /\ AllMade(Base + 2)' /\ Largest(Base + 2)' = Largest(Base + 2)
      BY <1>1, <1>3, <2>2, <2>3, <2>5, SyncedStay
    <2>10. AtPlace(r)'
      BY <2>7, <2>8 DEF AtPlace, SetupPlaces
    <2>11. Known(r)'
      BY <1>2, <1>3, <2>2, <2>3, <2>7, <2>8, <2>9 DEF Known, NumPages
    <2>12. Domains'
      BY <1>1, <1>3, <2>1, <2>6, LeaveCounts DEF Domains, Places, Collectives, GlooCalls,
         NcclCalls
    <2> QED
      BY <1>2, <1>3, <2>5, <2>7, <2>10, <2>11, <2>12, StepKeeps
  <1>5. CASE ~fits
    <2>1. Die(r) /\ UNCHANGED pages
      BY <1>5 DEF AllocatePages
    <2> QED
      BY <1>1, <1>2, <1>3, <2>1, LeaveCounts, MoveKeeps DEF Die, Places
  <1> QED
    BY <1>4, <1>5

\* Capturing what is left of the sizes, or going on when nothing is.
LEMMA CaptureKeeps ==
  ASSUME CallInv, NEW r \in Rank, pc[r] # "none", Len(calls[r]) >= Base + 3, Leave(r),
         Capture(r, Rest(r, Len(calls[r]))), DOMAIN graphs' = Rank,
         UNCHANGED <<config, spawned, initMem, pages>>
  PROVE  CallInv'
  <1> DEFINE sizes == Rest(r, Len(calls[r]))
  <1>1. AtPlace(r) /\ Known(r) /\ Domains /\ IsSeq /\ Len(calls[r]) \in Nat
    BY Lengths DEF CallInv, RankInv
  <1>0. Base \in Nat /\ Base' = Base
    BY SetupKnown, SetupStays
  <1>2. todo' = [todo EXCEPT ![r] = sizes]
    BY DEF Capture
  <1>3. CASE sizes = {}
    <2>1. pc' = [pc EXCEPT ![r] = "io"] /\ UNCHANGED calls
      BY <1>3 DEF Capture
    <2>2. IsSeq' /\ Grows /\ Planned' /\ SameSizes'
      BY <2>1, QuietStays
    <2>3. pc'[r] = "io" /\ OnlyRank(r)
      BY <1>1, <1>2, <2>1 DEF Domains, OnlyRank
    <2>4. Rest(r, Len(calls[r]))' = {}
      BY <1>0, <1>3, <2>1 DEF Rest, Done, GraphSizes
    <2>5. AtPlace(r)'
      BY <1>0, <2>1, <2>3, <2>4 DEF AtPlace, SetupPlaces
    <2>6. Known(r)'
      BY <1>0, <1>1, <2>1, <2>3 DEF Known, AllMade, Largest, NumPages
    <2>7. Domains'
      BY <1>1, <1>2, <2>1, LeaveCounts DEF Domains, Places
    <2> QED
      BY <2>2, <2>3, <2>5, <2>6, <2>7, StepKeeps
  <1>4. CASE sizes # {}
    <2> DEFINE size == Max(sizes)
    <2>1. Call(r, "graph", size)
      BY <1>4 DEF Capture
    <2>2. Right(r, "graph", size)
      <3>1. /\ ~(Len(calls[r]) < Base) /\ Len(calls[r]) # Base
            /\ Len(calls[r]) # Base + 1 /\ Len(calls[r]) # Base + 2
        BY <1>0, <1>1
      <3> QED
        BY <1>4, <3>1 DEF Right
    <2>3. /\ IsSeq' /\ Grows /\ Planned' /\ SameSizes'
          /\ CallMade(r, "graph", size)
      BY <2>1, <2>2, RightCall
    <2>4. pc' = [pc EXCEPT ![r] = "graph"]
      BY <2>1 DEF Call
    <2>5. pc'[r] = "graph" /\ todo'[r] = sizes /\ OnlyRank(r)
      BY <1>1, <1>2, <2>3, <2>4 DEF Domains, OnlyRank, CallMade
    <2>6. Len(calls'[r]) = Len(calls[r]) + 1
      BY <2>3 DEF CallMade
    <2>7. calls'[r][Len(calls'[r])].val = size
      BY <2>3, <2>6 DEF CallMade
    <2>8. Rest(r, Len(calls[r]) - 1)' = sizes
      <3>1. \A k \in Int : k <= Len(calls[r]) => Rest(r, k)' = Rest(r, k)
        BY <1>1, <2>3, RestStays
      <3>2. Len(calls'[r]) - 1 = Len(calls[r])
        BY <1>1, <2>6
      <3> QED
        BY <1>1, <3>1, <3>2
    <2> HIDE DEF sizes
    <2>9. AtPlace(r)'
      <3>1. Len(calls'[r]) >= Base + 4
        BY <1>0, <1>1, <2>6
      <3> QED
        BY <1>0, <2>5, <2>7, <2>8, <3>1 DEF AtPlace, SetupPlaces, size
    <2>14. Len(calls[r]) >= Base + 2
      BY <1>0, <1>1
    <2>10. AllMade(Base + 1) /\ initMem[r] = Largest(Base + 1)
      BY <1>0, <1>1, <2>14 DEF Known
    <2>11. /\ AllMade(Base + 1) => AllMade(Base + 1)' /\ Largest(Base + 1)' = Largest(Base + 1)
           /\ AllMade(Base + 2) => AllMade(Base + 2)' /\ Largest(Base + 2)' = Largest(Base + 2)
      BY <1>1, <2>3, SyncedStay
    <2>12. Known(r)'
      BY <1>0, <1>1, <2>14, <2>5, <2>6, <2>10, <2>11 DEF Known, NumPages
    <2>13. Domains'
      BY <1>1, <1>2, <2>4, LeaveCounts DEF Domains, Places, Collectives, GlooCalls, NcclCalls
    <2> QED
      BY <2>3, <2>5, <2>9, <2>12, <2>13, StepKeeps
  <1> QED
    BY <1>3, <1>4

LEMMA PlanGraphsKeeps ==
  ASSUME CallInv, NEW r \in Rank, PlanGraphs(r)
  PROVE  CallInv'
  <1>1. AtPlace(r) /\ Domains
    BY DEF CallInv, RankInv
  <1>2. pc[r] = "mem3" /\ Len(calls[r]) = Base + 3 /\ Base \in Nat
    BY <1>1, SetupKnown DEF PlanGraphs, AtPlace
  <1>3. Leave(r) /\ UNCHANGED <<config, spawned, initMem, pages, graphs>>
    BY DEF PlanGraphs, Outside, launchVars
  <1>4. CASE Balanced(Values(r))
    <2>1. Rest(r, Base + 3) = GraphSizes(initMem[r])
      BY <1>2 DEF Rest, Done
    <2>2. Capture(r, Rest(r, Len(calls[r])))
      BY <1>2, <1>4, <2>1 DEF PlanGraphs, GraphMemory
    <2>3. pc[r] # "none" /\ Len(calls[r]) >= Base + 3 /\ DOMAIN graphs' = Rank
      BY <1>1, <1>2, <1>3 DEF Domains
    <2> QED
      BY <1>3, <2>2, <2>3, CaptureKeeps
  <1>5. CASE ~Balanced(Values(r))
    BY <1>1, <1>2, <1>3, <1>5, LeaveCounts, MoveKeeps DEF PlanGraphs, Die, Places
  <1> QED
    BY <1>4, <1>5

LEMMA CaptureNextKeeps ==
  ASSUME CallInv, NEW r \in Rank, CaptureNext(r)
  PROVE  CallInv'
  <1>1. AtPlace(r) /\ Domains /\ Len(calls[r]) \in Nat /\ Base \in Nat
    BY Lengths, SetupKnown DEF CallInv, RankInv
  <1> DEFINE n == Len(calls[r])
  <1>2. /\ pc[r] = "graph" /\ n >= Base + 4
        /\ todo[r] = Rest(r, n - 1) /\ calls[r][n].val = Max(todo[r])
    BY <1>1 DEF CaptureNext, AtPlace
  <1>3. Leave(r) /\ UNCHANGED <<config, spawned, initMem, pages>>
    BY DEF CaptureNext, Outside, launchVars
  <1>4. Done(r, n) = Done(r, n - 1) \cup {calls[r][n].val}
    <2>1. \A j : j \in Base + 4 .. n <=> j \in Base + 4 .. n - 1 \/ j = n
      BY <1>1, <1>2
    <2> QED
      BY <2>1 DEF Done
  <1>5. todo[r] \ {Max(todo[r])} = Rest(r, n)
    BY <1>2, <1>4 DEF Rest
  <1>6. Capture(r, Rest(r, n)) /\ DOMAIN graphs' = Rank
    BY <1>1, <1>5 DEF CaptureNext, Domains
  <1>7. n >= Base + 3
    BY <1>1, <1>2
  <1> QED
    BY <1>2, <1>3, <1>6, <1>7, CaptureKeeps

LEMMA OpenSocketsKeeps ==
  ASSUME CallInv, NEW r \in Rank, OpenSockets(r)
  PROVE  CallInv'
  <1>1. AtPlace(r) /\ Known(r) /\ Domains /\ IsSeq /\ Len(calls[r]) \in Nat
    BY Lengths DEF CallInv, RankInv
  <1>2. pc[r] = "io" /\ Len(calls[r]) >= Base + 3 /\ Rest(r, Len(calls[r])) = {}
    BY <1>1 DEF OpenSockets, AtPlace
  <1>3. Right(r, "barrier", 0)
    <2>1. /\ ~(Len(calls[r]) < Base) /\ Len(calls[r]) # Base
          /\ Len(calls[r]) # Base + 1 /\ Len(calls[r]) # Base + 2
      BY <1>1, <1>2, SetupKnown
    <2> QED
      BY <1>2, <2>1 DEF Right
  <1>4. /\ Call(r, "barrier", 0)
        /\ UNCHANGED <<config, spawned, initMem, pages, todo, graphs, left>>
    BY DEF OpenSockets, Outside, launchVars, engineVars
  <1>5. /\ IsSeq' /\ Grows /\ Planned' /\ SameSizes'
        /\ CallMade(r, "barrier", 0)
    BY <1>3, <1>4, RightCall
  <1>6. pc' = [pc EXCEPT ![r] = "barrier"]
    BY <1>4 DEF Call
  <1>7. pc'[r] = "barrier" /\ OnlyRank(r)
    BY <1>1, <1>4, <1>5, <1>6 DEF Domains, OnlyRank, CallMade
  <1>8. Base \in Nat /\ Base' = Base /\ Len(calls'[r]) >= Base + 4
    BY <1>1, <1>2, <1>4, <1>5, SetupKnown, SetupStays DEF CallMade
  <1>9. AtPlace(r)'
    BY <1>7, <1>8 DEF AtPlace, SetupPlaces
  <1>10. /\ AllMade(Base + 1) => AllMade(Base + 1)' /\ Largest(Base + 1)' = Largest(Base + 1)
         /\ AllMade(Base + 2) => AllMade(Base + 2)' /\ Largest(Base + 2)' = Largest(Base + 2)
    BY <1>1, <1>4, <1>5, SyncedStay
  <1>11. Known(r)'
    BY <1>1, <1>2, <1>4, <1>7, <1>8, <1>10 DEF Known, NumPages
  <1>12. Domains'
    BY <1>1, <1>4, <1>6 DEF Domains, Places, Collectives, GlooCalls, NcclCalls
  <1> QED
    BY <1>2, <1>4, <1>5, <1>7, <1>9, <1>11, <1>12, StepKeeps

LEMMA ReadyKeeps ==
  ASSUME CallInv, NEW r \in Rank, Ready(r)
  PROVE  CallInv'
  <1>1. Domains
    BY DEF CallInv
  <1>2. /\ pc[r] = "barrier" /\ Leave(r) /\ pc' = [pc EXCEPT ![r] = "loop"]
        /\ UNCHANGED <<config, spawned, calls, initMem, pages, todo, graphs>>
    BY DEF Ready, Outside, launchVars, engineVars
  <1> QED
    BY <1>1, <1>2, LeaveCounts, MoveKeeps DEF Places

LEMMA EndKeeps ==
  ASSUME CallInv, NEW r \in Rank, RankFails(r) \/ PeerGone(r) \/ NcclNotices(r)
  PROVE  CallInv'
  <1>1. Domains
    BY DEF CallInv
  <1>2. /\ pc[r] # "none" /\ pc' = [pc EXCEPT ![r] = "dead"]
        /\ UNCHANGED <<config, spawned, calls, initMem, pages, todo, graphs>>
        /\ UNCHANGED left \/ Leave(r)
    BY DEF RankFails, FailsAt, FailsBehind, PeerGone, NcclNotices, Die, Collectives, GlooCalls,
       NcclCalls, Outside, launchVars, engineVars
  <1>3. left' \in [Rank -> Nat]
    BY <1>1, <1>2, LeaveCounts DEF Domains
  <1> QED
    BY <1>2, <1>3, MoveKeeps DEF Places

-----------------------------------------------------------------------------
(* The steps of the launcher and of the workers.                           *)

LEMMA SpawnKeeps ==
  ASSUME CallInv, Spawn
  PROVE  CallInv'
  <1>1. Domains /\ NotYet /\ RankInv
    BY DEF CallInv
  <1>2. /\ UNCHANGED <<config, calls, left, initMem, pages, todo, graphs>>
        /\ spawned' = spawned + 1
    BY DEF Spawn, engineVars
  <1>3. IsSeq' /\ Grows /\ Planned' /\ SameSizes'
    BY <1>2, QuietStays
  <1>9. UNCHANGED <<SetupCalls, Base>>
    BY <1>2, SetupStays
  <1>4. Rank = 0 .. N - 1 /\ spawned \in Nat /\ N \in Nat
    BY <1>1, StartupAssumption DEF Rank, NotYet
  <1>5. \/ spawned \in Rank /\ pc' = [pc EXCEPT ![spawned] = "new"]
        \/ pc' = pc
    BY <1>4 DEF Spawn
  <1>6. Domains'
    BY <1>1, <1>2, <1>5 DEF Domains, Places
  <1>7. NotYet'
    <2>1. \A r \in Rank : spawned + 1 <= r => r # spawned /\ spawned <= r
      BY <1>4
    <2> QED
      BY <1>1, <1>2, <1>4, <1>5, <2>1 DEF NotYet, Domains
  <1>8. ASSUME NEW r \in Rank
        PROVE  AtPlace(r)' /\ Known(r)'
    <2>1. AtPlace(r) /\ Known(r)
      BY <1>1 DEF RankInv
    <2>2. pc'[r] = pc[r] \/ (pc[r] = "none" /\ pc'[r] = "new")
      BY <1>1, <1>4, <1>5 DEF NotYet, Domains
    <2>3. AtPlace(r)'
      <3>1. /\ Rest(r, Len(calls[r]))' = Rest(r, Len(calls[r]))
            /\ Rest(r, Len(calls[r]) - 1)' = Rest(r, Len(calls[r]) - 1)
        BY <1>2, <1>9 DEF Rest, Done, GraphSizes
      <3> QED
        BY <1>2, <1>9, <2>1, <2>2, <3>1 DEF AtPlace, SetupPlaces
    <2>4. Known(r)'
      BY <1>2, <1>9, <2>1, <2>2 DEF Known, AllMade, Largest, NumPages
    <2> QED
      BY <2>3, <2>4
  <1> QED
    BY <1>3, <1>6, <1>7, <1>8 DEF CallInv, RankInv

callVars == <<config, spawned, pc, calls, left, initMem, pages, todo, graphs>>

LEMMA OutsideKeeps ==
  ASSUME CallInv, UNCHANGED callVars
  PROVE  CallInv'
  <1>1. UNCHANGED <<config, spawned, pc, calls, left, initMem, pages, todo, graphs>>
    BY DEF callVars
  <1>2. IsSeq' /\ Grows /\ Planned' /\ SameSizes'
    BY <1>1, QuietStays
  <1>3. Domains' /\ NotYet'
    BY <1>1 DEF CallInv, Domains, NotYet
  <1>4. \A r \in Rank : AtPlace(r)'
    BY <1>1, SetupStays DEF CallInv, RankInv, AtPlace, Rest, Done, GraphSizes
  <1>6. Base' = Base
    BY <1>1, SetupStays
  <1>5. \A r \in Rank : Known(r)'
    BY <1>1, <1>6 DEF CallInv, RankInv, Known, AllMade, Largest, NumPages
  <1> QED
    BY <1>2, <1>3, <1>4, <1>5 DEF CallInv, RankInv

LEMMA CallsBegin ==
  ASSUME Init
  PROVE  CallInv
  <1>1. IsSeq
    <2>1. calls \in [Rank -> Seq({})]
      BY DEF Init
    <2> QED
      BY <2>1 DEF IsSeq
  <1>2. \A r \in Rank : Len(calls[r]) = 0 /\ pc[r] = "none" /\ pages[r] = None
    BY DEF Init
  <1>3. Domains
    BY DEF Init, Domains, Places
  <1>4. NotYet
    BY DEF Init, NotYet
  <1>5. RankInv
    BY <1>2, SetupKnown DEF RankInv, AtPlace, SetupPlaces, Known
  <1>6. Planned /\ SameSizes
    BY <1>2 DEF Planned, SameSizes
  <1> QED
    BY <1>1, <1>3, <1>4, <1>5, <1>6 DEF CallInv

LEMMA CallsGoOn ==
  ASSUME CallInv, [Next]_vars
  PROVE  CallInv'
  <1>1. CASE UNCHANGED vars
    BY <1>1, OutsideKeeps DEF vars, launchVars, engineVars, groupVars, callVars
  <1>2. CASE OpenFrontend \/ TakeAck
    BY <1>2, OutsideKeeps DEF OpenFrontend, TakeAck, launchVars, engineVars, groupVars, callVars
  <1>3. CASE Spawn
    BY <1>3, SpawnKeeps
  <1>4. ASSUME NEW r \in Rank, RankStep(r) \/ RankFails(r) \/ NcclNotices(r)
        PROVE  CallInv'
    BY <1>4, JoinGroupKeeps, ConnectKeeps, MeasureBeforeKeeps, StartLoadingKeeps, LoadKeeps,
       AllocatePagesKeeps, PlanGraphsKeeps, CaptureNextKeeps, OpenSocketsKeeps, ReadyKeeps,
       EndKeeps DEF RankStep
  <1>5. ASSUME NEW w \in Worker, WorkerStep(w) \/ WorkerFails(w)
        PROVE  CallInv'
    BY <1>5, OutsideKeeps DEF WorkerStep, WorkerConnect, WorkerReady, WorkerFails,
       launchVars, engineVars, groupVars, callVars
  <1> QED
    BY <1>1, <1>2, <1>3, <1>4, <1>5 DEF Next, LauncherStep

LEMMA CallsAlways == Spec => []CallInv
  BY CallsBegin, CallsGoOn, PTL DEF Spec

LEMMA CallsMatch ==
  ASSUME CallInv
  PROVE  CollectivesMatch
  <1> SUFFICES ASSUME NEW r \in Rank, NEW s \in Rank, NEW k \in 1 .. Len(calls[r]),
                      k <= Len(calls[s])
               PROVE  /\ calls[r][k].at = calls[s][k].at
                      /\ calls[r][k].at = "graph" => calls[r][k].val = calls[s][k].val
    BY DEF CollectivesMatch
  <1>1. Len(calls[r]) \in Nat /\ Len(calls[s]) \in Nat /\ Base \in Nat
    BY Lengths, SetupKnown DEF CallInv
  <1>2. /\ FirstCalls(r, k) /\ (k >= Base + 4 => LaterCalls(r, k))
        /\ FirstCalls(s, k) /\ (k >= Base + 4 => LaterCalls(s, k))
    BY <1>1 DEF CallInv, Planned
  <1>3. CASE k < Base + 4
    <2>1. k <= Base \/ k = Base + 1 \/ k = Base + 2 \/ k = Base + 3
      BY <1>1, <1>3
    <2> QED
      BY <1>1, <1>2, <2>1, SetupKnown DEF FirstCalls, SetupPlaces
  <1>4. CASE k >= Base + 4
    <2>1. calls[r][k].val = calls[s][k].val
      BY <1>1, <1>4 DEF CallInv, SameSizes
    <2>2. Rest(r, k - 1) = Rest(s, k - 1)
      BY <1>1, <1>4, SameRest DEF CallInv
    <2> QED
      BY <1>2, <1>4, <2>1, <2>2 DEF LaterCalls
  <1> QED
    BY <1>1, <1>3, <1>4

\* The k-th collective call of every rank is made at the same place of the
\* start-up, and for the same graph size, whatever memory the ranks measure
\* (_sync_get_memory, GraphRunner).
THEOREM CallsPair == Spec => []CollectivesMatch
  BY CallsMatch, CallsAlways, PTL

\* Every rank that has sized its cache has the same number of pages, since it
\* is computed from reduced numbers only (_determine_num_pages).
THEOREM PagesAgree == Spec => []RanksAgree
  <1>1. CallInv => RanksAgree
    BY SetupKnown DEF CallInv, RankInv, Known, RanksAgree
  <1> QED
    BY <1>1, CallsAlways, PTL

-----------------------------------------------------------------------------
(* Meeting at the barrier.                                                 *)

LEMMA SizesFinite ==
  ASSUME config \in Options, NEW mem
  PROVE  GraphSizes(mem) \in SUBSET Int /\ IsFiniteSet(GraphSizes(mem))
  <1> DEFINE top == IF config.graphMax # None THEN config.graphMax
                    ELSE IF mem > 80 THEN 256 ELSE 160
             most == IF top > 4 THEN top ELSE 4
  <1>1. top \in Int /\ most \in Int
    BY DEF Options
  <1>2. GraphSizes(mem) = IF top < 1 THEN {} ELSE {1, 2, 4} \cup {b \in 8 .. top : b % 8 = 0}
    BY DEF GraphSizes
  <1> HIDE DEF top
  <1>3. GraphSizes(mem) \in SUBSET (1 .. most)
    BY <1>1, <1>2
  <1>4. IsFiniteSet(1 .. most)
    BY <1>1, FS_Interval
  <1> HIDE DEF most
  <1>5. IsFiniteSet(GraphSizes(mem))
    BY <1>3, <1>4, FS_Subset
  <1> QED
    BY <1>1, <1>3, <1>5

LEMMA LeavesAlone ==
  ASSUME CallInv, MeetInv, IsSeq', Grows, UNCHANGED config, sockets \subseteq sockets',
         NEW r \in Rank, OnlyRank(r),
         \A s \in Rank \ {r} : left'[s] = left[s] /\ graphs'[s] = graphs[s]
  PROVE  \A s \in Rank \ {r} : Local(s)'
  <1> SUFFICES ASSUME NEW s \in Rank \ {r}
               PROVE  Local(s)'
    OBVIOUS
  <1>1. Local(s)
    BY DEF MeetInv
  <1>2. /\ calls'[s] = calls[s] /\ pc'[s] = pc[s] /\ todo'[s] = todo[s]
        /\ initMem'[s] = initMem[s] /\ left'[s] = left[s] /\ graphs'[s] = graphs[s]
    BY DEF OnlyRank
  <1>3. LeftBehind(s)'
    BY <1>1, <1>2 DEF Local, LeftBehind
  <1>4. BarrierLast(s)'
    BY <1>1, <1>2 DEF Local, BarrierLast
  <1>5. Captured(s)'
    BY <1>1, <1>2 DEF Local, SetupPlaces, Captured, GraphSizes
  <1>6. Opened(s)'
    BY <1>1, <1>2 DEF Local, Opened, RankSockets, BackendCreatesDetokenizer, Share
  <1> QED
    BY <1>3, <1>4, <1>5, <1>6 DEF Local

\* While some rank is on its way to the barrier none has passed it.
LEMMA NoneHasPassed ==
  ASSUME MeetInv, NEW r \in Rank, pc[r] \notin {"barrier", "loop"}, OnlyRank(r), pc'[r] # "loop"
  PROVE  Passed'
  <1>1. \A s \in Rank : pc[s] # "loop"
    BY DEF MeetInv, Passed
  <1>2. \A s \in Rank : pc'[s] # "loop"
    BY <1>1 DEF OnlyRank
  <1> QED
    BY <1>2 DEF Passed

\* A rank makes a call on its way to the barrier.
LEMMA CallMeets ==
  ASSUME CallInv, CallInv', MeetInv, NEW r \in Rank, NEW at \in Collectives, NEW val,
         pc[r] \notin {"barrier", "loop", "dead"},
         CallMade(r, at, val), pc'[r] = at, left'[r] = Len(calls[r])
  PROVE  LeftBehind(r)' /\ BarrierLast(r)'
  <1> DEFINE n == Len(calls[r])
  <1>1. n \in Nat /\ Local(r)
    BY Lengths DEF CallInv, MeetInv
  <1>2. \A k \in 1 .. n : calls[r][k].at # "barrier"
    BY <1>1 DEF Local, BarrierLast
  <1>3. /\ Len(calls'[r]) = n + 1 /\ calls'[r][n + 1].at = at
        /\ \A k \in 1 .. n : calls'[r][k] = calls[r][k]
    BY DEF CallMade
  <1>4. LeftBehind(r)'
    BY <1>1, <1>3 DEF LeftBehind
  <1> HIDE DEF n
  <1>5. BarrierLast(r)'
    <2>1. \A k \in 1 .. n + 1 : k = n + 1 \/ k \in 1 .. n
      BY <1>1
    <2>2. \A k \in 1 .. n + 1 : calls'[r][k].at = "barrier" => k = n + 1 /\ at = "barrier"
      BY <1>2, <1>3, <2>1
    <2>3. pc'[r] # "dead" /\ pc'[r] # "loop"
      BY DEF Collectives, GlooCalls, NcclCalls
    <2> QED
      BY <1>3, <2>2, <2>3 DEF BarrierLast
  <1> QED
    BY <1>4, <1>5

\* A rank goes on, or dies, without a call before it has come to the barrier.
LEMMA MoveMeets ==
  ASSUME CallInv, MeetInv, NEW r \in Rank, NEW at \in {"load", "io", "dead"},
         pc[r] \notin {"barrier", "loop", "dead"},
         UNCHANGED calls, pc'[r] = at,
         left'[r] = Len(calls[r]) \/ (at = "dead" /\ left'[r] = left[r])
  PROVE  LeftBehind(r)' /\ BarrierLast(r)'
  <1>1. Len(calls[r]) \in Nat /\ Local(r)
    BY Lengths DEF CallInv, MeetInv
  <1>2. \A k \in 1 .. Len(calls[r]) : calls[r][k].at # "barrier"
    BY <1>1 DEF Local, BarrierLast
  <1>3. LeftBehind(r)'
    BY <1>1 DEF Local, LeftBehind, Collectives, GlooCalls, NcclCalls
  <1>4. BarrierLast(r)'
    BY <1>2 DEF BarrierLast
  <1> QED
    BY <1>3, <1>4

\* When a rank has left the call it was in.
LEMMA LeftAll ==
  ASSUME CallInv, MeetInv, NEW r \in Rank, pc[r] \in Collectives, Leave(r)
  PROVE  left'[r] = Len(calls[r]) /\ \A s \in Rank \ {r} : left'[s] = left[s]
  <1>1. left \in [Rank -> Nat] /\ LeftBehind(r)
    BY DEF CallInv, Domains, MeetInv, Local
  <1> QED
    BY <1>1 DEF Leave, LeftBehind

LEMMA Meets ==
  ASSUME CallInv, CallInv', MeetInv, Grows, NEW r \in Rank, OnlyRank(r), UNCHANGED config,
         sockets \subseteq sockets',
         \A s \in Rank \ {r} : left'[s] = left[s] /\ graphs'[s] = graphs[s],
         LeftBehind(r)', BarrierLast(r)', Captured(r)', Opened(r)', Passed'
  PROVE  MeetInv'
  <1>1. \A s \in Rank \ {r} : Local(s)'
    BY LeavesAlone DEF CallInv
  <1>2. Local(r)'
    BY DEF Local
  <1>3. (config \in Options)'
    BY DEF MeetInv
  <1> QED
    BY <1>1, <1>2, <1>3 DEF MeetInv

\* A step of rank r, in what the others' invariant depends on.
StepOf(r) ==
  /\ OnlyRank(r) /\ UNCHANGED config /\ sockets \subseteq sockets'
  /\ \A s \in Rank \ {r} : left'[s] = left[s] /\ graphs'[s] = graphs[s]

\* The calls before the capture.
LEMMA EarlyCallMeets ==
  ASSUME CallInv, CallInv', MeetInv, NEW r \in Rank, NEW at, NEW val,
         at \in SetupPlaces \cup {"mem1", "mem2", "mem3"},
         pc[r] \in SetupPlaces \cup {"new", "load", "mem2"},
         Call(r, at, val), left'[r] = Len(calls[r]), StepOf(r), UNCHANGED graphs
  PROVE  MeetInv'
  <1>1. Domains /\ IsSeq /\ Local(r)
    BY DEF CallInv, MeetInv
  <1>2. CallMade(r, at, val)
    BY <1>1, CallAppends DEF Call
  <1>3. Grows
    BY <1>1, <1>2, CallGrows
  <1>4. pc'[r] = at
    BY <1>1 DEF Call, Domains
  <1>5. LeftBehind(r)' /\ BarrierLast(r)'
    BY <1>2, <1>4, CallMeets DEF SetupPlaces, Collectives, GlooCalls, NcclCalls
  <1>6. Captured(r)' /\ Opened(r)'
    BY <1>1, <1>4 DEF Local, SetupPlaces, Captured, Opened
  <1>7. Passed'
    BY <1>4, NoneHasPassed DEF StepOf, SetupPlaces
  <1> QED
    BY <1>3, <1>5, <1>6, <1>7, Meets DEF StepOf

\* A rank that dies before it has come to the barrier.
LEMMA DeathMeets ==
  ASSUME CallInv, CallInv', MeetInv, NEW r \in Rank,
         pc[r] \notin {"barrier", "loop", "dead"}, Die(r), StepOf(r),
         left'[r] = Len(calls[r]) \/ left'[r] = left[r]
  PROVE  MeetInv'
  <1>1. Domains /\ IsSeq
    BY DEF CallInv
  <1>2. UNCHANGED calls /\ pc'[r] = "dead"
    BY <1>1 DEF Die, Domains
  <1>3. Grows
    BY <1>1, <1>2, NoCallGrows
  <1>4. LeftBehind(r)' /\ BarrierLast(r)'
    BY <1>2, MoveMeets
  <1>5. Captured(r)' /\ Opened(r)'
    BY <1>2 DEF SetupPlaces, Captured, Opened
  <1>6. Passed'
    BY <1>2, NoneHasPassed DEF StepOf
  <1> QED
    BY <1>3, <1>4, <1>5, <1>6, Meets DEF StepOf

LEMMA JoinGroupMeets ==
  ASSUME CallInv, CallInv', MeetInv, NEW r \in Rank, JoinGroup(r)
  PROVE  MeetInv'
  <1>1. Domains /\ IsSeq /\ LeftBehind(r)
    BY DEF CallInv, MeetInv, Local
  <1>2. /\ pc[r] = "new" /\ Call(r, "group", 0)
        /\ UNCHANGED <<config, sockets, left, graphs, initMem, pages, todo>>
    BY DEF JoinGroup, Outside, launchVars, engineVars
  <1>3. CallMade(r, "group", 0) /\ \A s \in Rank \ {r} : pc'[s] = pc[s]
    BY <1>1, <1>2, CallAppends DEF Call, Domains
  <1>4. StepOf(r)
    BY <1>2, <1>3 DEF StepOf, OnlyRank, CallMade
  <1>5. left'[r] = Len(calls[r])
    BY <1>1, <1>2 DEF LeftBehind, Collectives, GlooCalls, NcclCalls
  <1> QED
    BY <1>2, <1>4, <1>5, EarlyCallMeets DEF SetupPlaces

LEMMA ConnectMeets ==
  ASSUME CallInv, CallInv', MeetInv, NEW r \in Rank, Connect(r)
  PROVE  MeetInv'
  <1>1. Domains /\ IsSeq
    BY DEF CallInv
  <1>2. /\ Leave(r) /\ UNCHANGED <<config, sockets, graphs, initMem, pages, todo>>
    BY DEF Connect, Outside, launchVars, engineVars
  <1>3. PICK k \in 1 .. Base - 1 : pc[r] = SetupCalls[k] /\ Call(r, SetupCalls[k + 1], 0)
    BY DEF Connect, Base
  <1> DEFINE at == SetupCalls[k + 1]
  <1>4. at \in SetupPlaces /\ pc[r] \in SetupPlaces
    <2>1. k \in 1 .. Base /\ k + 1 \in 1 .. Base
      BY SetupKnown
    <2> QED
      BY <1>3, <2>1, SetupKnown
  <1>5. Call(r, at, 0)
    BY <1>3
  <1> HIDE DEF at
  <1>6. CallMade(r, at, 0) /\ \A s \in Rank \ {r} : pc'[s] = pc[s]
    BY <1>1, <1>5, CallAppends DEF Call, Domains
  <1>7. left'[r] = Len(calls[r]) /\ \A s \in Rank \ {r} : left'[s] = left[s]
    BY <1>2, <1>4, LeftAll DEF SetupPlaces, Collectives, GlooCalls, NcclCalls
  <1>8. StepOf(r)
    BY <1>2, <1>6, <1>7 DEF StepOf, OnlyRank, CallMade
  <1> QED
    BY <1>2, <1>4, <1>5, <1>7, <1>8, EarlyCallMeets

LEMMA MeasureBeforeMeets ==
  ASSUME CallInv, CallInv', MeetInv, NEW r \in Rank, MeasureBefore(r)
  PROVE  MeetInv'
  <1>1. Domains /\ IsSeq
    BY DEF CallInv
  <1>2. /\ pc[r] \in SetupPlaces /\ Leave(r) /\ Call(r, "mem1", free[r])
        /\ UNCHANGED <<config, sockets, graphs, initMem, pages, todo>>
    BY SetupKnown DEF MeasureBefore, Base, Outside, launchVars, engineVars
  <1>3. CallMade(r, "mem1", free[r]) /\ \A s \in Rank \ {r} : pc'[s] = pc[s]
    BY <1>1, <1>2, CallAppends DEF Call, Domains
  <1>4. left'[r] = Len(calls[r]) /\ \A s \in Rank \ {r} : left'[s] = left[s]
    BY <1>2, LeftAll DEF SetupPlaces, Collectives, GlooCalls, NcclCalls
  <1>5. StepOf(r)
    BY <1>2, <1>3, <1>4 DEF StepOf, OnlyRank, CallMade
  <1> QED
    BY <1>2, <1>4, <1>5, EarlyCallMeets

LEMMA StartLoadingMeets ==
  ASSUME CallInv, CallInv', MeetInv, NEW r \in Rank, StartLoading(r)
  PROVE  MeetInv'
  <1>1. Domains /\ IsSeq /\ Local(r)
    BY DEF CallInv, MeetInv
  <1>2. /\ pc[r] = "mem1" /\ Leave(r)
        /\ UNCHANGED <<config, sockets, graphs, pages, todo>>
    BY DEF StartLoading, Outside, launchVars
  <1>3. left'[r] = Len(calls[r]) /\ \A s \in Rank \ {r} : left'[s] = left[s]
    BY <1>2, LeftAll DEF Collectives, GlooCalls, NcclCalls
  <1>4. CASE Balanced(Values(r))
    <2>1. /\ pc' = [pc EXCEPT ![r] = "load"] /\ UNCHANGED calls
          /\ initMem' = [initMem EXCEPT ![r] = SyncedFree(r)]
      BY <1>4 DEF StartLoading
    <2>2. pc'[r] = "load" /\ StepOf(r)
      BY <1>1, <1>2, <1>3, <2>1 DEF StepOf, OnlyRank, Domains
    <2>3. LeftBehind(r)' /\ BarrierLast(r)'
      BY <1>2, <1>3, <2>1, <2>2, MoveMeets
    <2>4. Captured(r)' /\ Opened(r)'
      BY <1>1, <1>2, <2>2 DEF Local, Captured, Opened
    <2>5. Passed'
      BY <1>2, <2>2, NoneHasPassed DEF StepOf
    <2> QED
      BY <1>1, <2>1, <2>2, <2>3, <2>4, <2>5, NoCallGrows, Meets DEF StepOf
  <1>5. CASE ~Balanced(Values(r))
    <2>1. Die(r) /\ UNCHANGED initMem
      BY <1>5 DEF StartLoading
    <2>2. StepOf(r)
      BY <1>1, <1>2, <1>3, <2>1 DEF StepOf, OnlyRank, Die, Domains
    <2> QED
      BY <1>2, <1>3, <2>1, <2>2, DeathMeets
  <1> QED
    BY <1>4, <1>5

LEMMA LoadMeets ==
  ASSUME CallInv, CallInv', MeetInv, NEW r \in Rank, Load(r)
  PROVE  MeetInv'
  <1>1. Domains /\ IsSeq /\ LeftBehind(r)
    BY DEF CallInv, MeetInv, Local
  <1>2. PICK mem : Call(r, "mem2", mem)
    BY DEF Load
  <1>3. pc[r] = "load" /\ UNCHANGED <<config, sockets, left, graphs, initMem, pages, todo>>
    BY DEF Load, Outside, launchVars
  <1>4. CallMade(r, "mem2", mem) /\ \A s \in Rank \ {r} : pc'[s] = pc[s]
    BY <1>1, <1>2, CallAppends DEF Call, Domains
  <1>5. StepOf(r)
    BY <1>3, <1>4 DEF StepOf, OnlyRank, CallMade
  <1>6. left'[r] = Len(calls[r])
    BY <1>1, <1>3 DEF LeftBehind, Collectives, GlooCalls, NcclCalls
  <1> QED
    BY <1>2, <1>3, <1>5, <1>6, EarlyCallMeets

LEMMA AllocatePagesMeets ==
  ASSUME CallInv, CallInv', MeetInv, NEW r \in Rank, AllocatePages(r)
  PROVE  MeetInv'
  <1> DEFINE num == NumPages(initMem[r], SyncedFree(r))
             need == (num + 1) * CachePerPage
             fits == Balanced(Values(r)) /\ num > 1 /\ need <= free[r]
  <1>1. Domains /\ IsSeq
    BY DEF CallInv
  <1>2. /\ pc[r] = "mem2" /\ Leave(r)
        /\ UNCHANGED <<config, sockets, graphs, initMem, todo>>
    BY DEF AllocatePages, Outside, launchVars
  <1>3. left'[r] = Len(calls[r]) /\ \A s \in Rank \ {r} : left'[s] = left[s]
    BY <1>2, LeftAll DEF Collectives, GlooCalls, NcclCalls
  <1>4. CASE fits
    <2> DEFINE mem == free[r] - need
    <2>1. pages' = [pages EXCEPT ![r] = num] /\ Call(r, "mem3", mem)
      BY <1>4 DEF AllocatePages
    <2> HIDE DEF mem, num
    <2>2. CallMade(r, "mem3", mem) /\ \A s \in Rank \ {r} : pc'[s] = pc[s]
      BY <1>1, <2>1, CallAppends DEF Call, Domains
    <2>3. StepOf(r)
      BY <1>1, <1>2, <1>3, <2>1, <2>2 DEF StepOf, OnlyRank, CallMade, Domains
    <2> QED
      BY <1>2, <1>3, <2>1, <2>3, EarlyCallMeets
  <1>5. CASE ~fits
    <2>1. Die(r) /\ UNCHANGED pages
      BY <1>5 DEF AllocatePages
    <2>2. StepOf(r)
      BY <1>1, <1>2, <1>3, <2>1 DEF StepOf, OnlyRank, Die, Domains
    <2> QED
      BY <1>2, <1>3, <2>1, <2>2, DeathMeets
  <1> QED
    BY <1>4, <1>5

\* Capturing what is left of the sizes, or going on when nothing is.
LEMMA CaptureMeets ==
  ASSUME CallInv, CallInv', MeetInv, NEW r \in Rank, NEW sizes,
         pc[r] \in {"mem3", "graph"}, Leave(r), Capture(r, sizes),
         UNCHANGED <<config, sockets, initMem, pages>>,
         \A s \in Rank \ {r} : graphs'[s] = graphs[s],
         graphs'[r] \cup sizes = GraphSizes(initMem[r])
  PROVE  MeetInv'
  <1>1. Domains /\ IsSeq
    BY DEF CallInv
  <1>2. left'[r] = Len(calls[r]) /\ \A s \in Rank \ {r} : left'[s] = left[s]
    BY LeftAll DEF Collectives, GlooCalls, NcclCalls
  <1>3. todo' = [todo EXCEPT ![r] = sizes]
    BY DEF Capture
  <1>4. GraphSizes(initMem[r])' = GraphSizes(initMem[r])
    BY DEF GraphSizes
  <1>5. CASE sizes = {}
    <2>1. pc' = [pc EXCEPT ![r] = "io"] /\ UNCHANGED calls
      BY <1>5 DEF Capture
    <2>2. pc'[r] = "io" /\ StepOf(r)
      BY <1>1, <1>2, <1>3, <2>1 DEF StepOf, OnlyRank, Domains
    <2>3. LeftBehind(r)' /\ BarrierLast(r)'
      BY <1>2, <2>1, <2>2, MoveMeets
    <2>4. Captured(r)' /\ Opened(r)'
      BY <1>4, <1>5, <2>2 DEF SetupPlaces, Captured, Opened
    <2>5. Passed'
      BY <2>2, NoneHasPassed DEF StepOf
    <2> QED
      BY <1>1, <2>1, <2>2, <2>3, <2>4, <2>5, NoCallGrows, Meets DEF StepOf
  <1>6. CASE sizes # {}
    <2> DEFINE size == Max(sizes)
    <2>1. Call(r, "graph", size)
      BY <1>6 DEF Capture
    <2> HIDE DEF size
    <2>2. CallMade(r, "graph", size) /\ pc' = [pc EXCEPT ![r] = "graph"]
      BY <1>1, <2>1, CallAppends DEF Call
    <2>3. Grows
      BY <1>1, <2>2, CallGrows
    <2>4. pc'[r] = "graph" /\ todo'[r] = sizes /\ StepOf(r)
      BY <1>1, <1>2, <1>3, <2>2 DEF StepOf, OnlyRank, CallMade, Domains
    <2>5. LeftBehind(r)' /\ BarrierLast(r)'
      BY <1>2, <2>2, <2>4, CallMeets DEF Collectives, GlooCalls, NcclCalls
    <2>6. Captured(r)' /\ Opened(r)'
      BY <1>4, <1>6, <2>4 DEF SetupPlaces, Captured, Opened
    <2>7. Passed'
      BY <2>4, NoneHasPassed DEF StepOf
    <2> QED
      BY <2>3, <2>4, <2>5, <2>6, <2>7, Meets DEF StepOf
  <1> QED
    BY <1>5, <1>6

LEMMA PlanGraphsMeets ==
  ASSUME CallInv, CallInv', MeetInv, NEW r \in Rank, PlanGraphs(r)
  PROVE  MeetInv'
  <1>1. Domains /\ Captured(r)
    BY DEF CallInv, MeetInv, Local
  <1>2. /\ pc[r] = "mem3" /\ Leave(r)
        /\ UNCHANGED <<config, sockets, graphs, initMem, pages>>
    BY DEF PlanGraphs, Outside, launchVars
  <1>3. CASE Balanced(Values(r))
    <2>1. Capture(r, GraphSizes(initMem[r]))
      BY <1>3 DEF PlanGraphs, GraphMemory
    <2>2. graphs'[r] \cup GraphSizes(initMem[r]) = GraphSizes(initMem[r])
      BY <1>1, <1>2 DEF Captured
    <2> HIDE DEF GraphSizes
    <2> QED
      BY <1>2, <2>1, <2>2, CaptureMeets
  <1>4. CASE ~Balanced(Values(r))
    <2>1. Die(r) /\ UNCHANGED todo
      BY <1>4 DEF PlanGraphs
    <2>2. left'[r] = Len(calls[r]) /\ \A s \in Rank \ {r} : left'[s] = left[s]
      BY <1>2, LeftAll DEF Collectives, GlooCalls, NcclCalls
    <2>3. StepOf(r)
      BY <1>1, <1>2, <2>1, <2>2 DEF StepOf, OnlyRank, Die, Domains
    <2> QED
      BY <1>2, <2>1, <2>2, <2>3, DeathMeets
  <1> QED
    BY <1>3, <1>4

LEMMA CaptureNextMeets ==
  ASSUME CallInv, CallInv', MeetInv, NEW r \in Rank, CaptureNext(r)
  PROVE  MeetInv'
  <1> DEFINE size == Max(todo[r])
  <1>1. Domains /\ Captured(r) /\ config \in Options
    BY DEF CallInv, MeetInv, Local
  <1>2. /\ pc[r] = "graph" /\ Leave(r) /\ Capture(r, todo[r] \ {size})
        /\ graphs' = [graphs EXCEPT ![r] = @ \cup {size}]
        /\ UNCHANGED <<config, sockets, initMem, pages>>
    BY DEF CaptureNext, Outside, launchVars
  <1>3. graphs[r] \cup todo[r] = GraphSizes(initMem[r]) /\ todo[r] # {}
    BY <1>1, <1>2 DEF Captured
  <1>4. size \in todo[r]
    <2>1. GraphSizes(initMem[r]) \in SUBSET Int /\ IsFiniteSet(GraphSizes(initMem[r]))
      BY <1>1, SizesFinite
    <2>2. todo[r] \in SUBSET Int /\ IsFiniteSet(todo[r])
      BY <1>3, <2>1, FS_Subset
    <2> QED
      BY <1>3, <2>2, FiniteMax
  <1> HIDE DEF size
  <1>5. graphs'[r] = graphs[r] \cup {size} /\ \A s \in Rank \ {r} : graphs'[s] = graphs[s]
    BY <1>1, <1>2 DEF Domains
  <1>6. graphs'[r] \cup (todo[r] \ {size}) = GraphSizes(initMem[r])
    BY <1>3, <1>4, <1>5
  <1> QED
    BY <1>2, <1>5, <1>6, CaptureMeets

LEMMA OpenSocketsMeets ==
  ASSUME CallInv, CallInv', MeetInv, NEW r \in Rank, OpenSockets(r)
  PROVE  MeetInv'
  <1>1. Domains /\ IsSeq /\ Local(r)
    BY DEF CallInv, MeetInv
  <1>2. /\ pc[r] = "io" /\ Call(r, "barrier", 0)
        /\ sockets' = sockets \cup RankSockets(r)
        /\ UNCHANGED <<config, left, graphs, initMem, pages, todo>>
    BY DEF OpenSockets, Outside, launchVars, engineVars
  <1>3. CallMade(r, "barrier", 0) /\ pc' = [pc EXCEPT ![r] = "barrier"]
    BY <1>1, <1>2, CallAppends DEF Call
  <1>4. Grows
    BY <1>1, <1>3, CallGrows
  <1>5. pc'[r] = "barrier" /\ StepOf(r)
    BY <1>1, <1>2, <1>3 DEF StepOf, OnlyRank, CallMade, Domains
  <1>6. left'[r] = Len(calls[r])
    BY <1>1, <1>2 DEF Local, LeftBehind, Collectives, GlooCalls, NcclCalls
  <1>7. LeftBehind(r)' /\ BarrierLast(r)'
    BY <1>2, <1>3, <1>5, <1>6, CallMeets DEF Collectives, GlooCalls, NcclCalls
  <1>8. Captured(r)'
    BY <1>1, <1>2, <1>5 DEF Local, SetupPlaces, Captured, GraphSizes
  <1>9. Opened(r)'
    BY <1>2 DEF Opened, RankSockets, BackendCreatesDetokenizer, Share
  <1>10. Passed'
    BY <1>2, <1>5, NoneHasPassed DEF StepOf
  <1> QED
    BY <1>4, <1>5, <1>7, <1>8, <1>9, <1>10, Meets DEF StepOf

\* The rank that leaves the barrier left nobody behind: the call of every
\* other rank it met there was the barrier, and nobody died in it.
LEMMA AllAtBarrier ==
  ASSUME CallInv, MeetInv, NEW r \in Rank, pc[r] \in {"barrier", "loop"},
         \A s \in Rank : Len(calls[s]) >= Len(calls[r]),
         \A s \in Rank : pc[s] = "dead" => left[s] >= Len(calls[r])
  PROVE  \A s \in Rank : pc[s] \in {"barrier", "loop"}
  <1> SUFFICES ASSUME NEW s \in Rank
               PROVE  pc[s] \in {"barrier", "loop"}
    OBVIOUS
  <1> DEFINE n == Len(calls[r])
  <1>1. n \in Nat /\ Len(calls[s]) \in Nat /\ left[s] \in Nat
    BY Lengths DEF CallInv, Domains
  <1>2. n >= 1
    BY <1>1, SetupKnown DEF CallInv, RankInv, AtPlace
  <1>3. n \in 1 .. Len(calls[r]) /\ n \in 1 .. Len(calls[s]) /\ n <= Len(calls[s])
    BY <1>1, <1>2
  <1>4. calls[r][n].at = "barrier"
    BY DEF MeetInv, Local, BarrierLast
  <1>5. calls[s][n].at = "barrier"
    BY <1>3, <1>4, CallsMatch DEF CollectivesMatch
  <1> HIDE DEF n
  <1>6. pc[s] \in {"barrier", "loop", "dead"} /\ (pc[s] = "dead" => left[s] < n)
    BY <1>3, <1>5 DEF MeetInv, Local, BarrierLast
  <1>7. pc[s] # "dead"
    BY <1>1, <1>6 DEF n
  <1> QED
    BY <1>6, <1>7

LEMMA ReadyMeets ==
  ASSUME CallInv, CallInv', MeetInv, NEW r \in Rank, Ready(r)
  PROVE  MeetInv'
  <1>1. Domains /\ IsSeq /\ Local(r) /\ Len(calls[r]) \in Nat
    BY Lengths DEF CallInv, MeetInv
  <1>2. /\ pc[r] = "barrier" /\ Complete(r) /\ Leave(r)
        /\ pc' = [pc EXCEPT ![r] = "loop"]
        /\ UNCHANGED <<config, sockets, calls, graphs, initMem, pages, todo>>
    BY DEF Ready, Outside, launchVars, engineVars
  <1>3. left'[r] = Len(calls[r]) /\ \A s \in Rank \ {r} : left'[s] = left[s]
    BY <1>2, LeftAll DEF Collectives, GlooCalls, NcclCalls
  <1>4. pc'[r] = "loop" /\ StepOf(r)
    BY <1>1, <1>2, <1>3 DEF StepOf, OnlyRank, Domains
  <1>5. LeftBehind(r)' /\ BarrierLast(r)'
    BY <1>1, <1>2, <1>3, <1>4 DEF Local, LeftBehind, BarrierLast, Collectives, GlooCalls,
       NcclCalls
  <1>6. Captured(r)'
    BY <1>1, <1>2, <1>4 DEF Local, SetupPlaces, Captured, GraphSizes
  <1>7. Opened(r)'
    BY <1>1, <1>2 DEF Local, Opened, RankSockets, BackendCreatesDetokenizer, Share
  <1>8. Passed'
    <2>1. \A s \in Rank : Len(calls[s]) >= Len(calls[r])
      BY <1>2 DEF Complete
    <2>2. \A s \in Rank : pc[s] = "dead" => left[s] >= Len(calls[r])
      <3>1. \A s \in Rank : pc[s] = "dead" => ~(left[s] < Len(calls[r]))
        BY <1>2 DEF Complete, Broken
      <3> QED
        BY <1>1, <3>1 DEF Domains
    <2>3. \A s \in Rank : pc[s] \in {"barrier", "loop"}
      BY <1>2, <2>1, <2>2, AllAtBarrier
    <2> QED
      BY <1>4, <2>3 DEF Passed, StepOf, OnlyRank
  <1> QED
    BY <1>1, <1>2, <1>4, <1>5, <1>6, <1>7, <1>8, NoCallGrows, Meets DEF StepOf

\* When every rank has come to the barrier no call can break any more.
LEMMA BarrierComplete ==
  ASSUME CallInv, MeetInv, \A s \in Rank : pc[s] \in {"barrier", "loop"}, NEW r \in Rank
  PROVE  Complete(r) /\ ~Broken(Len(calls[r]))
  <1>1. \A s \in Rank : Len(calls[s]) \in Nat /\ Len(calls[s]) >= 1
    BY Lengths, SetupKnown DEF CallInv, RankInv, AtPlace
  <1>2. ASSUME NEW s \in Rank
        PROVE  Len(calls[s]) >= Len(calls[r])
    <2> DEFINE m == Len(calls[s])
               n == Len(calls[r])
    <2>1. m \in Nat /\ n \in Nat /\ m >= 1
      BY <1>1
    <2>2. calls[s][m].at = "barrier"
      BY DEF MeetInv, Local, BarrierLast
    <2> SUFFICES ASSUME m < n
                 PROVE  FALSE
      BY <2>1
    <2>3. m \in 1 .. Len(calls[s]) /\ m \in 1 .. Len(calls[r]) /\ m <= Len(calls[r])
      BY <2>1
    <2>4. calls[r][m].at = "barrier"
      BY <2>2, <2>3, CallsMatch DEF CollectivesMatch
    <2> HIDE DEF m
    <2>5. m = Len(calls[r])
      BY <2>3, <2>4 DEF MeetInv, Local, BarrierLast
    <2> QED
      BY <2>1, <2>5
  <1>3. \A s \in Rank : pc[s] # "dead"
    OBVIOUS
  <1> QED
    BY <1>2, <1>3 DEF Complete, Broken

LEMMA EndMeets ==
  ASSUME CallInv, CallInv', MeetInv, NEW r \in Rank, RankFails(r) \/ PeerGone(r) \/ NcclNotices(r)
  PROVE  MeetInv'
  <1>1. Domains /\ IsSeq /\ Local(r) /\ Len(calls[r]) \in Nat
    BY Lengths DEF CallInv, MeetInv
  <1>2. /\ pc[r] \in Collectives \cup {"new", "load", "io"} /\ Die(r)
        /\ UNCHANGED <<config, sockets, calls, graphs, initMem, pages, todo>>
        /\ UNCHANGED left \/ (pc[r] \in Collectives \ {"barrier"} /\ Leave(r))
    BY DEF RankFails, FailsAt, FailsBehind, PeerGone, NcclNotices, Die, Collectives, GlooCalls,
       NcclCalls, Outside, launchVars, engineVars
  <1>6. /\ left'[r] = Len(calls[r]) \/ left'[r] = left[r]
        /\ \A s \in Rank \ {r} : left'[s] = left[s]
    BY <1>2, LeftAll
  <1>3. pc'[r] = "dead" /\ StepOf(r)
    BY <1>1, <1>2, <1>6 DEF StepOf, OnlyRank, Die, Domains
  <1>4. CASE pc[r] # "barrier"
    BY <1>2, <1>3, <1>4, <1>6, DeathMeets DEF Collectives, GlooCalls, NcclCalls
  <1>5. CASE pc[r] = "barrier"
    <2>1. Broken(Len(calls[r])) \/ ~Complete(r)
      BY <1>5 DEF RankFails, FailsAt, FailsBehind, Met, PeerGone, NcclNotices, NcclCalls
    <2>2. \A s \in Rank : pc[s] # "loop"
      BY <2>1, BarrierComplete DEF MeetInv, Passed
    <2>3. Passed'
      BY <1>3, <2>2 DEF Passed, StepOf, OnlyRank
    <2>4. LeftBehind(r)'
      BY <1>1, <1>2, <1>3, <1>5 DEF Local, LeftBehind, Collectives, GlooCalls, NcclCalls
    <2>5. BarrierLast(r)'
      <3>1. left[r] < Len(calls[r])
        BY <1>1, <1>5 DEF Local, LeftBehind, Collectives, GlooCalls, NcclCalls, Domains
      <3> QED
        BY <1>1, <1>2, <1>3, <1>5, <3>1 DEF Local, BarrierLast
    <2>6. Captured(r)' /\ Opened(r)'
      BY <1>3 DEF SetupPlaces, Captured, Opened
    <2> QED
      BY <1>1, <1>2, <1>3, <2>3, <2>4, <2>5, <2>6, NoCallGrows, Meets DEF StepOf
  <1> QED
    BY <1>4, <1>5

LEMMA SpawnMeets ==
  ASSUME CallInv, MeetInv, Spawn
  PROVE  MeetInv'
  <1>1. Domains /\ NotYet /\ Rank = 0 .. N - 1 /\ N \in Nat
    BY StartupAssumption DEF CallInv, Rank
  <1>2. UNCHANGED <<config, sockets, calls, left, initMem, todo, graphs>>
    BY DEF Spawn, engineVars
  <1>3. \A r \in Rank : pc'[r] = pc[r] \/ (pc[r] = "none" /\ pc'[r] = "new")
    <2>1. \/ spawned \in Rank /\ pc' = [pc EXCEPT ![spawned] = "new"]
          \/ pc' = pc
      BY <1>1 DEF Spawn, NotYet
    <2>2. spawned \in Rank => pc[spawned] = "none"
      BY <1>1 DEF NotYet
    <2> QED
      BY <1>1, <2>1, <2>2 DEF Domains
  <1>4. ASSUME NEW r \in Rank
        PROVE  Local(r)'
    <2>1. Local(r)
      BY DEF MeetInv
    <2>2. LeftBehind(r)'
      BY <1>2, <1>3, <2>1 DEF Local, LeftBehind, Collectives, GlooCalls, NcclCalls
    <2>3. BarrierLast(r)'
      BY <1>2, <1>3, <2>1 DEF Local, BarrierLast
    <2>4. Captured(r)'
      BY <1>2, <1>3, <2>1 DEF Local, SetupPlaces, Captured, GraphSizes
    <2>5. Opened(r)'
      BY <1>2, <1>3, <2>1 DEF Local, Opened, RankSockets, BackendCreatesDetokenizer, Share
    <2> QED
      BY <2>2, <2>3, <2>4, <2>5 DEF Local
  <1>5. Passed'
    BY <1>3 DEF MeetInv, Passed
  <1>6. (config \in Options)'
    BY <1>2 DEF MeetInv
  <1> QED
    BY <1>4, <1>5, <1>6 DEF MeetInv

LEMMA OutsideMeets ==
  ASSUME MeetInv, UNCHANGED <<config, pc, calls, left, initMem, todo, graphs>>,
         sockets \subseteq sockets'
  PROVE  MeetInv'
  <1>1. ASSUME NEW r \in Rank
        PROVE  Local(r)'
    <2>1. Local(r)
      BY DEF MeetInv
    <2>2. LeftBehind(r)' /\ BarrierLast(r)'
      BY <2>1 DEF Local, LeftBehind, BarrierLast
    <2>3. Captured(r)'
      BY <2>1 DEF Local, SetupPlaces, Captured, GraphSizes
    <2>4. Opened(r)'
      BY <2>1 DEF Local, Opened, RankSockets, BackendCreatesDetokenizer, Share
    <2> QED
      BY <2>2, <2>3, <2>4 DEF Local
  <1>2. Passed' /\ (config \in Options)'
    BY DEF MeetInv, Passed
  <1> QED
    BY <1>1, <1>2 DEF MeetInv

LEMMA ResolvedOptions ==
  ASSUME NEW c \in Configs
  PROVE  Resolved(c) \in Options /\ Resolved(c).tokenizers = c.tokenizers
  <1>1. c \in Options
    BY ConfigsAssumption
  <1>2. [c EXCEPT !.graphMax = 1] \in Options
        /\ [c EXCEPT !.graphMax = 1].tokenizers = c.tokenizers
    BY <1>1 DEF Options
  <1> QED
    BY <1>1, <1>2 DEF Resolved

LEMMA MeetBegins ==
  ASSUME Init
  PROVE  MeetInv
  <1>1. config \in Options
    BY ResolvedOptions DEF Init
  <1>2. \A r \in Rank : /\ pc[r] = "none" /\ left[r] = 0 /\ Len(calls[r]) = 0
                        /\ graphs[r] = {}
    BY DEF Init
  <1>3. \A r \in Rank : LeftBehind(r) /\ BarrierLast(r)
    BY <1>2 DEF LeftBehind, BarrierLast, Collectives, GlooCalls, NcclCalls
  <1>4. \A r \in Rank : Captured(r) /\ Opened(r)
    BY <1>2 DEF SetupPlaces, Captured, Opened
  <1>5. Passed
    BY <1>2 DEF Passed
  <1> QED
    BY <1>1, <1>3, <1>4, <1>5 DEF MeetInv, Local

LEMMA MeetGoesOn ==
  ASSUME CallInv, MeetInv, [Next]_vars
  PROVE  MeetInv'
  <1>1. CallInv'
    BY CallsGoOn
  <1>2. CASE UNCHANGED vars
    BY <1>2, OutsideMeets DEF vars, launchVars, engineVars, groupVars
  <1>3. CASE OpenFrontend \/ TakeAck
    BY <1>3, OutsideMeets DEF OpenFrontend, TakeAck, launchVars, engineVars, groupVars
  <1>4. CASE Spawn
    BY <1>4, SpawnMeets
  <1>5. ASSUME NEW r \in Rank, RankStep(r) \/ RankFails(r) \/ NcclNotices(r)
        PROVE  MeetInv'
    BY <1>1, <1>5, JoinGroupMeets, ConnectMeets, MeasureBeforeMeets, StartLoadingMeets, LoadMeets,
       AllocatePagesMeets, PlanGraphsMeets, CaptureNextMeets, OpenSocketsMeets, ReadyMeets,
       EndMeets DEF RankStep
  <1>6. ASSUME NEW w \in Worker, WorkerStep(w) \/ WorkerFails(w)
        PROVE  MeetInv'
    BY <1>6, OutsideMeets DEF WorkerStep, WorkerConnect, WorkerReady, WorkerFails,
       launchVars, engineVars, groupVars
  <1> QED
    BY <1>2, <1>3, <1>4, <1>5, <1>6 DEF Next, LauncherStep

-----------------------------------------------------------------------------
(* Acknowledgements.                                                       *)

LEMMA MostTokenizers ==
  ASSUME NEW c \in Configs
  PROVE  /\ c.tokenizers \in Nat /\ MaxTokenizers \in Nat
         /\ c.tokenizers <= MaxTokenizers
  <1> DEFINE T == {d.tokenizers : d \in Configs}
             f == [d \in Configs |-> d.tokenizers]
  <1>1. T \in SUBSET Nat /\ c.tokenizers \in T
    BY ConfigsAssumption DEF Options
  <1>2. f \in Surjection(Configs, T)
    BY DEF Surjection
  <1>3. IsFiniteSet(T)
    <2> HIDE DEF f, T
    <2> QED
      BY <1>2, FS_Surjection, ConfigsAssumption
  <1>4. MaxTokenizers = Max(T)
    BY DEF MaxTokenizers
  <1> HIDE DEF T
  <1>5. Max(T) \in T /\ \A y \in T : Max(T) >= y
    <2>1. T \in SUBSET Int /\ T # {}
      BY <1>1
    <2> QED
      BY <1>3, <2>1, FiniteMax
  <1> QED
    BY <1>1, <1>4, <1>5


LEMMA LoopingFinite ==
  ASSUME Configured
  PROVE  IsFiniteSet(Worker) /\ IsFiniteSet(Looping) /\ Cardinality(Looping) \in Nat
  <1>1. IsFiniteSet(Worker)
    BY FS_Interval DEF Configured, Worker
  <1>2. Looping \in SUBSET Worker
    BY DEF Looping
  <1> QED
    BY <1>1, <1>2, FS_Subset, FS_CardinalityType

LEMMA ConfiguredNumbers ==
  ASSUME Configured
  PROVE  /\ config.tokenizers \in Nat /\ N \in Nat /\ N > 0
         /\ Processes = N + config.tokenizers + 1
         /\ Worker = 0 .. MaxTokenizers /\ MaxTokenizers \in Nat
         /\ config.tokenizers <= MaxTokenizers
  BY StartupAssumption DEF Configured, Options, Processes, Worker

LEMMA AckBegins ==
  ASSUME Init
  PROVE  AckInv
  <1>1. Configured
    BY ResolvedOptions, MostTokenizers DEF Init, Configured
  <1>2. Looping = {}
    BY DEF Init, Looping
  <1>3. pc[0] # "loop"
    BY StartupAssumption DEF Init, Rank
  <1>4. Acked
    BY <1>2, <1>3, FS_EmptySet DEF Init, Acked
  <1>5. \A i \in N .. Processes - 1 : WorkerOf(i) \in Worker
    BY <1>1, ConfiguredNumbers DEF WorkerOf
  <1>6. 0 < Processes /\ 0 <= Processes
    BY <1>1, ConfiguredNumbers
  <1>7. Launched
    BY <1>5, <1>6 DEF Init, Launched
  <1> QED
    BY <1>1, <1>4, <1>7 DEF AckInv

\* A step that neither starts a process nor acknowledges.
LEMMA QuietAck ==
  ASSUME AckInv, UNCHANGED <<config, launcher, spawned, got, acks>>, Looping' = Looping,
         pc'[0] = "loop" <=> pc[0] = "loop",
         wpc' \in [Worker -> {"none", "new", "load", "loop", "dead"}],
         \A w \in Worker : wpc[w] = "none" => wpc'[w] = "none"
  PROVE  AckInv'
  <1>1. Configured /\ Configured'
    BY DEF AckInv, Configured
  <1>2. Acked'
    BY DEF AckInv, Acked, AcksExpected
  <1>3. \A i \in N .. Processes - 1 : WorkerOf(i) \in Worker
    BY <1>1, ConfiguredNumbers DEF WorkerOf
  <1>4. UNCHANGED Processes /\ \A i : WorkerOf(i)' = WorkerOf(i)
    BY DEF Processes, WorkerOf
  <1>5. Launched'
    <2>1. Launched
      BY DEF AckInv
    <2> QED
      BY <1>3, <1>4, <2>1 DEF Launched
  <1> QED
    BY <1>1, <1>2, <1>5 DEF AckInv

LEMMA OpenFrontendAck ==
  ASSUME AckInv, OpenFrontend
  PROVE  AckInv'
  <1>1. /\ launcher = "start" /\ launcher' \in {"exit", "spawn"}
        /\ UNCHANGED <<config, spawned, got, acks, wpc, pc>>
    BY DEF OpenFrontend, groupVars
  <1>2. Configured'
    BY <1>1 DEF AckInv, Configured
  <1>3. Acked'
    <2>1. Looping' = Looping
      BY <1>1 DEF Looping
    <2> QED
      BY <1>1, <2>1 DEF AckInv, Acked
  <1>4. Launched'
    BY <1>1 DEF AckInv, Launched, Processes, WorkerOf
  <1> QED
    BY <1>2, <1>3, <1>4 DEF AckInv

LEMMA SpawnAck ==
  ASSUME CallInv, AckInv, Spawn
  PROVE  AckInv'
  <1>0. Configured /\ Launched /\ Acked /\ Domains /\ NotYet
    BY DEF AckInv, CallInv
  <1>1. /\ launcher = "spawn" /\ spawned' = spawned + 1 /\ UNCHANGED <<config, got, acks>>
        /\ launcher' = IF spawned + 1 = Processes THEN "wait" ELSE "spawn"
    BY DEF Spawn
  <1>2. /\ config.tokenizers \in Nat /\ N \in Nat /\ N > 0 /\ spawned \in Nat
        /\ Processes = N + config.tokenizers + 1 /\ spawned < Processes
        /\ Worker = 0 .. MaxTokenizers /\ MaxTokenizers \in Nat
        /\ config.tokenizers <= MaxTokenizers
    BY <1>0, <1>1, ConfiguredNumbers DEF NotYet, Launched
  <1>3. UNCHANGED Processes /\ \A i : WorkerOf(i)' = WorkerOf(i)
    BY <1>1 DEF Processes, WorkerOf
  <1>4. Configured'
    BY <1>0, <1>1 DEF Configured
  <1>5. \A i \in N .. Processes - 1 : WorkerOf(i) \in 0 .. config.tokenizers
    BY <1>2 DEF WorkerOf
  <1>6. /\ wpc' \in [Worker -> {"none", "new", "load", "loop", "dead"}]
        /\ \A w \in Worker : w > config.tokenizers => wpc'[w] = "none"
        /\ \A i \in N .. Processes - 1 : spawned + 1 <= i => wpc'[WorkerOf(i)] = "none"
        /\ Looping' = Looping
    <2>1. CASE spawned < N
      <3>1. wpc' = wpc
        BY <2>1 DEF Spawn
      <3>2. \A i \in N .. Processes - 1 : spawned + 1 <= i => spawned <= i
        BY <1>2
      <3> QED
        BY <1>0, <3>1, <3>2 DEF Launched, Looping
    <2>2. CASE ~(spawned < N)
      <3> DEFINE w == WorkerOf(spawned)
      <3>1. spawned \in N .. Processes - 1
        BY <1>2, <2>2
      <3>2. w \in Worker /\ w <= config.tokenizers
        BY <1>2, <1>5, <3>1
      <3>3. wpc[w] = "none"
        BY <1>0, <1>2, <3>1 DEF Launched
      <3>4. wpc' = [wpc EXCEPT ![w] = "new"]
        BY <2>2 DEF Spawn
      <3>5. \A i \in N .. Processes - 1 : spawned + 1 <= i => WorkerOf(i) # w /\ spawned <= i
        BY <1>2, <3>1 DEF WorkerOf
      <3> HIDE DEF w
      <3>6. \A v \in Worker : wpc'[v] = IF v = w THEN "new" ELSE wpc[v]
        BY <1>0, <3>4 DEF Launched
      <3>7. wpc' \in [Worker -> {"none", "new", "load", "loop", "dead"}]
        BY <1>0, <3>2, <3>4 DEF Launched
      <3>8. Looping' = Looping
        BY <3>3, <3>6 DEF Looping
      <3>9. \A v \in Worker : v > config.tokenizers => v # w
        BY <1>2, <3>2
      <3>10. \A v \in Worker : v > config.tokenizers => wpc'[v] = "none"
        BY <1>0, <3>6, <3>9 DEF Launched
      <3>11. \A i \in N .. Processes - 1 : WorkerOf(i) \in Worker
        BY <1>2, <1>5
      <3>12. \A i \in N .. Processes - 1 : spawned + 1 <= i => wpc'[WorkerOf(i)] = "none"
        BY <1>0, <3>5, <3>6, <3>11 DEF Launched
      <3> QED
        BY <3>7, <3>8, <3>10, <3>12
    <2> QED
      BY <2>1, <2>2
  <1>7. pc'[0] = "loop" <=> pc[0] = "loop"
    <2>1. \/ spawned \in Rank /\ pc' = [pc EXCEPT ![spawned] = "new"]
          \/ pc' = pc
      BY <1>2 DEF Spawn, Rank
    <2>2. spawned \in Rank => pc[spawned] = "none"
      BY <1>0, <1>2 DEF NotYet
    <2>3. 0 \in Rank
      BY <1>2 DEF Rank
    <2> QED
      BY <1>0, <2>1, <2>2, <2>3 DEF Domains
  <1>8. Acked'
    BY <1>0, <1>1, <1>6, <1>7 DEF Acked
  <1>9. Launched'
    <2>1. /\ spawned + 1 <= Processes
          /\ launcher' \in {"start", "spawn"} => spawned + 1 < Processes
          /\ launcher' \in {"wait", "spawn"}
      BY <1>1, <1>2
    <2> QED
      BY <1>1, <1>3, <1>6, <2>1 DEF Launched
  <1> QED
    BY <1>4, <1>8, <1>9 DEF AckInv

LEMMA TakeAckAck ==
  ASSUME AckInv, TakeAck
  PROVE  AckInv'
  <1>0. Configured /\ Launched /\ Acked
    BY DEF AckInv
  <1>1. /\ launcher = "wait" /\ acks > 0 /\ acks' = acks - 1 /\ got' = got + 1
        /\ launcher' = IF got + 1 = AcksExpected THEN "serve" ELSE "wait"
        /\ UNCHANGED <<config, spawned, pc, wpc>>
    BY DEF TakeAck, groupVars
  <1>2. Configured'
    BY <1>0, <1>1 DEF Configured
  <1>3. Launched'
    BY <1>0, <1>1 DEF Launched, Processes, WorkerOf
  <1>4. Looping' = Looping /\ AcksExpected' = AcksExpected
    BY <1>1 DEF Looping, AcksExpected
  <1>5. got + 1 \in Nat /\ acks - 1 \in Nat /\ (got + 1) + (acks - 1) = got + acks
    BY <1>0, <1>1 DEF Acked
  <1>6. Acked'
    BY <1>0, <1>1, <1>4, <1>5 DEF Acked
  <1> QED
    BY <1>2, <1>3, <1>6 DEF AckInv

\* The steps of a rank but the last.
LEMMA RankAck ==
  ASSUME CallInv, AckInv, NEW r \in Rank, RankStep(r) \/ RankFails(r) \/ NcclNotices(r), ~Ready(r)
  PROVE  AckInv'
  <1>1. UNCHANGED <<config, launcher, spawned, got, acks, wpc>>
    BY DEF RankStep, RankFails, NcclNotices, JoinGroup, Connect, MeasureBefore, StartLoading,
       Load, AllocatePages, PlanGraphs, CaptureNext, OpenSockets, PeerGone, Outside, launchVars
  <1>2. /\ pc[r] \notin {"none", "loop"}
        /\ \E at \in Places \ {"none", "new", "loop"} : pc' = [pc EXCEPT ![r] = at]
    <2>1. CASE JoinGroup(r) \/ Load(r) \/ OpenSockets(r)
      BY <2>1 DEF JoinGroup, Load, OpenSockets, Call, Places, Collectives, GlooCalls
    <2>2. CASE RankFails(r) \/ PeerGone(r) \/ NcclNotices(r)
      BY <2>2 DEF RankFails, FailsAt, FailsBehind, PeerGone, NcclNotices, Die, Places,
         Collectives, GlooCalls, NcclCalls
    <2>7. CASE Connect(r)
      <3>1. PICK k \in 1 .. Base - 1 :
              pc[r] = SetupCalls[k] /\ Call(r, SetupCalls[k + 1], 0)
        BY <2>7 DEF Connect, Base
      <3>2. k \in 1 .. Base /\ k + 1 \in 1 .. Base
        BY SetupKnown
      <3>3. pc[r] \in SetupPlaces /\ SetupCalls[k + 1] \in SetupPlaces
        BY <3>1, <3>2, SetupKnown
      <3> QED
        BY <3>1, <3>3 DEF Call, SetupPlaces, Places, Collectives, GlooCalls, NcclCalls
    <2>8. CASE MeasureBefore(r)
      <3>1. pc[r] \in SetupPlaces /\ Call(r, "mem1", free[r])
        BY <2>8, SetupKnown DEF MeasureBefore, Base
      <3> QED
        BY <3>1 DEF Call, SetupPlaces, Places, Collectives, GlooCalls
    <2>3. CASE StartLoading(r)
      BY <2>3 DEF StartLoading, Die, Places, Collectives, GlooCalls, NcclCalls
    <2>4. CASE AllocatePages(r)
      BY <2>4 DEF AllocatePages, Die, Call, Places, Collectives, GlooCalls, NcclCalls
    <2>5. CASE PlanGraphs(r)
      BY <2>5 DEF PlanGraphs, Die, Capture, Call, Places, Collectives, GlooCalls, NcclCalls
    <2>6. CASE CaptureNext(r)
      BY <2>6 DEF CaptureNext, Capture, Call, Places, Collectives, GlooCalls, NcclCalls
    <2> QED
      BY <2>1, <2>2, <2>3, <2>4, <2>5, <2>6, <2>7, <2>8 DEF RankStep
  <1>3. pc'[0] = "loop" <=> pc[0] = "loop"
    <2>1. Domains
      BY DEF CallInv
    <2>2. 0 \in Rank
      BY StartupAssumption DEF Rank
    <2> QED
      BY <1>2, <2>1, <2>2 DEF Domains
  <1>4. /\ Looping' = Looping
        /\ wpc' \in [Worker -> {"none", "new", "load", "loop", "dead"}]
    BY <1>1 DEF Looping, AckInv, Launched
  <1> QED
    BY <1>1, <1>3, <1>4, QuietAck

LEMMA ReadyAck ==
  ASSUME CallInv, AckInv, NEW r \in Rank, Ready(r)
  PROVE  AckInv'
  <1>0. Configured /\ Launched /\ Acked /\ Domains
    BY DEF AckInv, CallInv
  <1>1. /\ UNCHANGED <<config, launcher, spawned, got, wpc>>
        /\ pc[r] = "barrier" /\ pc' = [pc EXCEPT ![r] = "loop"]
        /\ acks' = IF r = 0 THEN acks + 1 ELSE acks
    BY DEF Ready, Outside, launchVars
  <1>2. CASE r # 0
    <2>1. pc'[0] = "loop" <=> pc[0] = "loop"
      BY <1>0, <1>1, <1>2, StartupAssumption DEF Domains, Rank
    <2>2. /\ Looping' = Looping /\ acks' = acks
          /\ wpc' \in [Worker -> {"none", "new", "load", "loop", "dead"}]
      BY <1>0, <1>1, <1>2 DEF Looping, Launched
    <2> QED
      BY <1>1, <2>1, <2>2, QuietAck
  <1>3. CASE r = 0
    <2>1. pc[0] # "loop" /\ pc'[0] = "loop" /\ acks' = acks + 1
      BY <1>0, <1>1, <1>3 DEF Domains
    <2>2. Looping' = Looping /\ AcksExpected' = AcksExpected
      BY <1>1 DEF Looping, AcksExpected
    <2>3. Cardinality(Looping) \in Nat
      BY <1>0, LoopingFinite
    <2>4. Acked'
      BY <1>0, <1>1, <2>1, <2>2, <2>3 DEF Acked
    <2>5. Configured' /\ Launched'
      BY <1>0, <1>1 DEF Configured, Launched, Processes, WorkerOf
    <2> QED
      BY <2>4, <2>5 DEF AckInv
  <1> QED
    BY <1>2, <1>3

LEMMA WorkerAck ==
  ASSUME CallInv, AckInv, NEW w \in Worker, WorkerStep(w) \/ WorkerFails(w)
  PROVE  AckInv'
  <1>0. Configured /\ Launched /\ Acked
    BY DEF AckInv
  <1>1. UNCHANGED <<config, launcher, spawned, got, pc>>
    BY DEF WorkerStep, WorkerConnect, WorkerReady, WorkerFails, launchVars, groupVars
  <1>2. CASE WorkerConnect(w) \/ WorkerFails(w)
    <2>1. PICK at \in {"load", "dead"} :
            wpc[w] \in {"new", "load"} /\ wpc' = [wpc EXCEPT ![w] = at] /\ acks' = acks
      BY <1>2 DEF WorkerConnect, WorkerFails
    <2>2. \A v \in Worker : wpc'[v] = IF v = w THEN at ELSE wpc[v]
      BY <1>0, <2>1 DEF Launched
    <2>3. /\ Looping' = Looping
          /\ wpc' \in [Worker -> {"none", "new", "load", "loop", "dead"}]
          /\ \A v \in Worker : wpc[v] = "none" => wpc'[v] = "none"
      BY <1>0, <2>1, <2>2 DEF Looping, Launched
    <2> QED
      BY <1>1, <2>1, <2>3, QuietAck
  <1>3. CASE WorkerReady(w)
    <2>1. wpc[w] = "load" /\ wpc' = [wpc EXCEPT ![w] = "loop"] /\ acks' = acks + 1
      BY <1>3 DEF WorkerReady
    <2>2. \A v \in Worker : wpc'[v] = IF v = w THEN "loop" ELSE wpc[v]
      BY <1>0, <2>1 DEF Launched
    <2>3. /\ Looping' = Looping \cup {w} /\ w \notin Looping
          /\ wpc' \in [Worker -> {"none", "new", "load", "loop", "dead"}]
          /\ \A v \in Worker : wpc[v] = "none" => wpc'[v] = "none"
      BY <1>0, <2>1, <2>2 DEF Looping, Launched
    <2>4. Cardinality(Looping') = Cardinality(Looping) + 1 /\ Cardinality(Looping) \in Nat
      BY <1>0, <2>3, LoopingFinite, FS_AddElement
    <2>5. Acked'
      BY <1>0, <1>1, <2>1, <2>4 DEF Acked, AcksExpected
    <2>6. Configured'
      BY <1>0, <1>1 DEF Configured
    <2>7. \A i \in N .. Processes - 1 : WorkerOf(i) \in Worker
      BY <1>0, ConfiguredNumbers DEF WorkerOf
    <2>8. UNCHANGED Processes /\ \A i : WorkerOf(i)' = WorkerOf(i)
      BY <1>1 DEF Processes, WorkerOf
    <2>9. Launched'
      BY <1>0, <1>1, <2>3, <2>7, <2>8 DEF Launched
    <2> QED
      BY <2>5, <2>6, <2>9 DEF AckInv
  <1> QED
    BY <1>2, <1>3 DEF WorkerStep

LEMMA AckGoesOn ==
  ASSUME CallInv, AckInv, [Next]_vars
  PROVE  AckInv'
  <1>1. CASE UNCHANGED vars
    BY <1>1, QuietAck DEF vars, launchVars, engineVars, groupVars, AckInv, Launched, Looping
  <1>2. CASE LauncherStep
    BY <1>2, OpenFrontendAck, SpawnAck, TakeAckAck DEF LauncherStep
  <1>3. ASSUME NEW r \in Rank, RankStep(r) \/ RankFails(r) \/ NcclNotices(r)
        PROVE  AckInv'
    BY <1>3, RankAck, ReadyAck
  <1>4. ASSUME NEW w \in Worker, WorkerStep(w) \/ WorkerFails(w)
        PROVE  AckInv'
    BY <1>4, WorkerAck
  <1> QED
    BY <1>1, <1>2, <1>3, <1>4 DEF Next

\* Every acknowledgement there can be has been taken when the server serves.
LEMMA AllAcked ==
  ASSUME AckInv, launcher = "serve"
  PROVE  pc[0] = "loop" /\ \A w \in 0 .. config.tokenizers : wpc[w] = "loop"
  <1> DEFINE W == 0 .. config.tokenizers
             n == Cardinality(Looping)
             one == IF pc[0] = "loop" THEN 1 ELSE 0
  <1>1. Configured /\ Launched /\ Acked
    BY DEF AckInv
  <1>2. config.tokenizers \in Nat /\ Worker = 0 .. MaxTokenizers
    BY <1>1, ConfiguredNumbers
  <1>3. \A w \in Worker : wpc[w] = "loop" => ~(w > config.tokenizers)
    BY <1>1 DEF Launched
  <1>4. Looping \in SUBSET W
    BY <1>1, <1>2, <1>3 DEF Looping, Configured
  <1>5. IsFiniteSet(W) /\ Cardinality(W) = config.tokenizers + 1
    BY <1>2, FS_Interval
  <1>6. n \in Nat /\ n <= config.tokenizers + 1
    BY <1>1, <1>4, <1>5, FS_Subset, LoopingFinite
  <1>7. config.tokenizers + 2 <= n + one
    BY <1>1, <1>2, <1>6 DEF Acked, AcksExpected
  <1>8. one = 1 /\ n = config.tokenizers + 1
    BY <1>2, <1>6, <1>7
  <1>9. Looping = W
    BY <1>4, <1>5, <1>8, FS_Subset
  <1> QED
    BY <1>8, <1>9 DEF Looping

LEMMA StartAlways == Spec => [](CallInv /\ MeetInv /\ AckInv)
  <1>1. Init => CallInv /\ MeetInv /\ AckInv
    BY CallsBegin, MeetBegins, AckBegins
  <1>2. CallInv /\ MeetInv /\ AckInv /\ [Next]_vars => (CallInv /\ MeetInv /\ AckInv)'
    BY CallsGoOn, MeetGoesOn, AckGoesOn
  <1> QED
    BY <1>1, <1>2, PTL DEF Spec

LEMMA ServesThen ==
  ASSUME MeetInv, AckInv
  PROVE  ServesWhole
  <1> SUFFICES ASSUME launcher = "serve"
               PROVE  /\ \A r \in Rank :
                           /\ pc[r] \in {"barrier", "loop"}
                           /\ RankSockets(r) \subseteq sockets
                           /\ graphs[r] = GraphSizes(initMem[r])
                      /\ \A w \in 0 .. config.tokenizers : wpc[w] = "loop"
    BY DEF ServesWhole
  <1>1. pc[0] = "loop" /\ \A w \in 0 .. config.tokenizers : wpc[w] = "loop"
    BY AllAcked
  <1>2. \A r \in Rank : pc[r] \in {"barrier", "loop"}
    BY <1>1, StartupAssumption DEF MeetInv, Passed, Rank
  <1>3. \A r \in Rank : Captured(r) /\ Opened(r)
    BY DEF MeetInv, Local
  <1>4. ASSUME NEW r \in Rank
        PROVE  RankSockets(r) \subseteq sockets /\ graphs[r] = GraphSizes(initMem[r])
    <2>1. Captured(r) /\ Opened(r) /\ pc[r] \in {"barrier", "loop"}
      BY <1>2, <1>3
    <2>2. RankSockets(r) \subseteq sockets
      BY <2>1 DEF Opened
    <2>3. graphs[r] = GraphSizes(initMem[r])
      BY <2>1 DEF Captured
    <2> QED
      BY <2>2, <2>3
  <1> QED
    BY <1>1, <1>2, <1>4

\* The launcher serves only when every rank has reached the barrier with its
\* sockets open and its graphs captured, and every tokenizer worker runs: the
\* acknowledgement of the primary rank stands for the barrier of all ranks
\* (launch_server, sync_all_ranks).
THEOREM ServesComplete == Spec => []ServesWhole
  BY ServesThen, StartAlways, PTL

\* The launcher's types, and what launch_server and Engine.__init__ assign.
THEOREM StartupTypes == Spec => []TypeOK
  <1>1. CallInv /\ MeetInv /\ AckInv => TypeOK
    <2> SUFFICES ASSUME CallInv, MeetInv, AckInv
                 PROVE  TypeOK
      OBVIOUS
    <2>1. Configured /\ Launched /\ Acked /\ Domains /\ NotYet
      BY DEF AckInv, CallInv
    <2>2. /\ config.tokenizers \in Nat /\ N \in Nat /\ MaxTokenizers \in Nat
          /\ Processes = N + config.tokenizers + 1 /\ config.tokenizers <= MaxTokenizers
          /\ Worker = 0 .. MaxTokenizers
      BY <2>1, ConfiguredNumbers
    <2>3. spawned \in 0 .. N + MaxTokenizers + 1
      BY <2>1, <2>2 DEF Launched, NotYet
    <2>4. got \in 0 .. MaxTokenizers + 2 /\ acks \in 0 .. MaxTokenizers + 2
      <3> DEFINE n == Cardinality(Looping)
      <3>1. IsFiniteSet(Worker) /\ Cardinality(Worker) = MaxTokenizers + 1
        BY <2>2, FS_Interval
      <3>2. Looping \in SUBSET Worker
        BY DEF Looping
      <3>3. n \in Nat /\ n <= MaxTokenizers + 1
        BY <2>1, <3>1, <3>2, FS_Subset, LoopingFinite
      <3>4. got \in Nat /\ acks \in Nat /\ (got + acks = n \/ got + acks = n + 1)
        BY <2>1, <3>3 DEF Acked
      <3> QED
        BY <2>2, <3>3, <3>4
    <2>5. ASSUME NEW r \in Rank
          PROVE  left[r] \in 0 .. Len(calls[r]) /\ Len(calls[r]) <= left[r] + 1
      <3>1. left[r] \in Nat /\ Len(calls[r]) \in Nat
        BY <2>1, Lengths DEF Domains, CallInv
      <3>2. left[r] <= Len(calls[r]) /\ Len(calls[r]) <= left[r] + 1
        BY DEF MeetInv, Local, LeftBehind
      <3> QED
        BY <3>1, <3>2
    <2>6. /\ pc \in [Rank -> Places]
          /\ wpc \in [Worker -> {"none", "new", "load", "loop", "dead"}]
          /\ launcher \in {"start", "exit", "spawn", "wait", "serve"}
      BY <2>1 DEF Domains, Launched
    <2> QED
      BY <2>3, <2>4, <2>5, <2>6 DEF TypeOK, Places
  <1> QED
    BY <1>1, StartAlways, PTL

-----------------------------------------------------------------------------
(* Sockets.                                                                *)

AllSockets ==
  FrontendSockets \cup (UNION {WorkerSockets(w) : w \in 0 .. config.tokenizers})
                  \cup (UNION {RankSockets(r) : r \in Rank})

\* No socket is opened but by the launcher, the workers and the ranks.
SocketInv ==
  /\ sockets \subseteq AllSockets
  /\ launcher \in {"spawn", "wait", "serve"} => FrontendSockets \subseteq sockets
  /\ \A w \in Worker : wpc[w] \in {"load", "loop"} => WorkerSockets(w) \subseteq sockets

Ends(a) == {s \in AllSockets : s.addr = a}

Of(who, i) == <<who, i>>
Bound(a, k, o) == Socket(a, k, TRUE, o)
Connected(a, k, o) == Socket(a, k, FALSE, o)

Binds(s) == s.bind = TRUE
Plain(s) == s.bind = FALSE /\ s.kind \in {"push", "pull"}

LEMMA BoundFields ==
  ASSUME NEW a, NEW k, NEW o
  PROVE  /\ Bound(a, k, o).addr = a /\ Bound(a, k, o).kind = k /\ Binds(Bound(a, k, o))
  BY DEF Socket, Bound, Binds

LEMMA ConnectedFields ==
  ASSUME NEW a, NEW k \in {"push", "pull"}, NEW o
  PROVE  /\ Connected(a, k, o).addr = a /\ Connected(a, k, o).kind = k
         /\ Plain(Connected(a, k, o))
  BY DEF Socket, Connected, Plain

LEMMA Paired ==
  ASSUME NEW E, NEW b \in E, NEW c \in E, Binds(b),
         {b.kind, c.kind} = {"push", "pull"},
         \A s \in E : s = b \/ Plain(s)
  PROVE  Cardinality({s \in E : s.bind}) = 1 /\ {s.kind : s \in E} = {"push", "pull"}
  <1>1. {s \in E : s.bind} = {b}
    BY DEF Plain, Binds
  <1>2. {s.kind : s \in E} = {"push", "pull"}
    BY DEF Plain, Binds
  <1> QED
    BY <1>1, <1>2, FS_Singleton

\* The sockets every layout has.
Common(s) ==
  \/ s = Bound("frontend", "pull", Of("frontend", 0))
  \/ \E w \in 0 .. config.tokenizers : \/ s = Connected("backend", "push", Of("worker", w))
                                       \/ s = Connected("frontend", "push", Of("worker", w))
  \/ s = Bound("backend", "pull", Of("rank", 0))
  \/ N # 1 /\ s = Bound("broadcast", "push", Of("rank", 0))
  \/ N # 1 /\ \E r \in Rank \ {0} : s = Connected("broadcast", "pull", Of("rank", r))

\* A tokenizer that is also the detokenizer, or tokenizers of their own.
Shared(s) ==
  \/ s = Connected("detokenizer", "push", Of("frontend", 0))
  \/ s = Bound("detokenizer", "pull", Of("worker", 0))
  \/ s = Connected("detokenizer", "push", Of("rank", 0))

Apart(s) ==
  \/ s = Bound("tokenizer", "push", Of("frontend", 0))
  \/ \E w \in 0 .. config.tokenizers - 1 : s = Connected("tokenizer", "pull", Of("worker", w))
  \/ s = Connected("detokenizer", "pull", Of("worker", config.tokenizers))
  \/ s = Bound("detokenizer", "push", Of("rank", 0))

LEMMA Owners ==
  ASSUME config.tokenizers \in Nat, NEW s
  PROVE  s \in AllSockets <=> \/ Common(s)
                              \/ Share /\ Shared(s)
                              \/ ~Share /\ Apart(s)
  <1> DEFINE T == config.tokenizers
  <1>0. 0 \in Rank
    BY StartupAssumption DEF Rank
  <1>1. s \in AllSockets <=> \/ s \in FrontendSockets
                             \/ \E w \in 0 .. T : s \in WorkerSockets(w)
                             \/ \E r \in Rank : s \in RankSockets(r)
    BY DEF AllSockets
  <1>2. \A r \in Rank : s \in RankSockets(r) <=>
          \/ r = 0 /\ s = Bound("backend", "pull", Of("rank", 0))
          \/ r = 0 /\ s = Socket("detokenizer", "push", ~Share, Of("rank", 0))
          \/ N # 1 /\ r = 0 /\ s = Bound("broadcast", "push", Of("rank", 0))
          \/ N # 1 /\ r # 0 /\ s = Connected("broadcast", "pull", Of("rank", r))
    <2> SUFFICES ASSUME NEW r \in Rank
                 PROVE  s \in RankSockets(r) <=>
                          \/ r = 0 /\ s = Bound("backend", "pull", Of("rank", 0))
                          \/ r = 0 /\ s = Socket("detokenizer", "push", ~Share, Of("rank", 0))
                          \/ N # 1 /\ r = 0 /\ s = Bound("broadcast", "push", Of("rank", 0))
                          \/ N # 1 /\ r # 0 /\ s = Connected("broadcast", "pull", Of("rank", r))
      OBVIOUS
    <2>1. CASE r = 0
      <3>1. (r = 0) = TRUE
        BY <2>1
      <3> HIDE DEF Socket
      <3> QED
        BY <2>1, <3>1 DEF RankSockets, BackendCreatesDetokenizer, Bound, Connected, Of
    <2>2. CASE r # 0
      <3>1. (r = 0) = FALSE
        BY <2>2
      <3> HIDE DEF Socket
      <3> QED
        BY <2>2, <3>1 DEF RankSockets, BackendCreatesDetokenizer, Bound, Connected, Of
    <2> QED
      BY <2>1, <2>2
  <1>3. CASE Share
    <2>1. T = 0 /\ 0 .. T = {0} /\ TokenizerAddr = "detokenizer" /\ WorkerAddr(0) = "detokenizer"
          /\ Share = TRUE /\ (~Share) = FALSE
      BY <1>3 DEF Share, TokenizerAddr, WorkerAddr
    <2>2. s \in FrontendSockets <=> \/ s = Bound("frontend", "pull", Of("frontend", 0))
                                    \/ s = Connected("detokenizer", "push", Of("frontend", 0))
      BY <2>1 DEF FrontendSockets, FrontendCreatesTokenizer, Bound, Connected, Of
    <2>3. s \in WorkerSockets(0) <=> \/ s = Connected("backend", "push", Of("worker", 0))
                                     \/ s = Connected("frontend", "push", Of("worker", 0))
                                     \/ s = Bound("detokenizer", "pull", Of("worker", 0))
      BY <2>1 DEF WorkerSockets, TokenizerCreates, Bound, Connected, Of
    <2>4. Socket("detokenizer", "push", ~Share, Of("rank", 0))
            = Connected("detokenizer", "push", Of("rank", 0))
      BY <2>1 DEF Connected
    <2> QED
      BY <1>0, <1>1, <1>2, <1>3, <2>1, <2>2, <2>3, <2>4 DEF Common, Shared
  <1>4. CASE ~Share
    <2>1. TokenizerAddr = "tokenizer" /\ Share = FALSE /\ (~Share) = TRUE
      BY <1>4 DEF TokenizerAddr
    <2>2. s \in FrontendSockets <=> \/ s = Bound("frontend", "pull", Of("frontend", 0))
                                    \/ s = Bound("tokenizer", "push", Of("frontend", 0))
      BY <2>1 DEF FrontendSockets, FrontendCreatesTokenizer, Bound, Connected, Of
    <2>3. \A w \in 0 .. T : s \in WorkerSockets(w) <=>
            \/ s = Connected("backend", "push", Of("worker", w))
            \/ s = Connected("frontend", "push", Of("worker", w))
            \/ s = Connected(WorkerAddr(w), "pull", Of("worker", w))
      BY <2>1 DEF WorkerSockets, TokenizerCreates, Bound, Connected, Of
    <2>4. Socket("detokenizer", "push", ~Share, Of("rank", 0))
            = Bound("detokenizer", "push", Of("rank", 0))
      BY <2>1 DEF Bound
    <2>5. /\ WorkerAddr(T) = "detokenizer" /\ T \in 0 .. T
          /\ \A w \in 0 .. T : w # T => w \in 0 .. T - 1 /\ WorkerAddr(w) = "tokenizer"
          /\ \A w \in 0 .. T - 1 : w \in 0 .. T /\ w # T
      BY <2>1 DEF WorkerAddr
    <2>6. (\E w \in 0 .. T : s = Connected(WorkerAddr(w), "pull", Of("worker", w))) <=>
            \/ \E w \in 0 .. T - 1 : s = Connected("tokenizer", "pull", Of("worker", w))
            \/ s = Connected("detokenizer", "pull", Of("worker", T))
      BY <2>5
    <2>7. (\E w \in 0 .. T : s \in WorkerSockets(w)) <=>
            \/ \E w \in 0 .. T : \/ s = Connected("backend", "push", Of("worker", w))
                                 \/ s = Connected("frontend", "push", Of("worker", w))
            \/ \E w \in 0 .. T - 1 : s = Connected("tokenizer", "pull", Of("worker", w))
            \/ s = Connected("detokenizer", "pull", Of("worker", T))
      BY <2>3, <2>6
    <2>8. (\E r \in Rank : s \in RankSockets(r)) <=>
            \/ s = Bound("backend", "pull", Of("rank", 0))
            \/ s = Bound("detokenizer", "push", Of("rank", 0))
            \/ N # 1 /\ s = Bound("broadcast", "push", Of("rank", 0))
            \/ N # 1 /\ \E r \in Rank \ {0} : s = Connected("broadcast", "pull", Of("rank", r))
      BY <1>0, <1>2, <2>4
    <2> QED
      BY <1>1, <1>4, <2>2, <2>7, <2>8 DEF Common, Apart
  <1> QED
    BY <1>3, <1>4

LEMMA CommonShape ==
  ASSUME NEW s, Common(s)
  PROVE  \/ s = Bound("frontend", "pull", Of("frontend", 0)) /\ s.addr = "frontend"
         \/ s = Bound("backend", "pull", Of("rank", 0)) /\ s.addr = "backend"
         \/ s = Bound("broadcast", "push", Of("rank", 0)) /\ s.addr = "broadcast" /\ N # 1
         \/ s.addr \in {"frontend", "backend"} /\ Plain(s)
         \/ s.addr = "broadcast" /\ Plain(s) /\ N # 1
  BY BoundFields, ConnectedFields DEF Common

LEMMA SharedShape ==
  ASSUME NEW s, Shared(s)
  PROVE  s.addr = "detokenizer" /\ (s = Bound("detokenizer", "pull", Of("worker", 0)) \/ Plain(s))
  BY BoundFields, ConnectedFields DEF Shared

LEMMA ApartShape ==
  ASSUME NEW s, Apart(s)
  PROVE  \/ s = Bound("tokenizer", "push", Of("frontend", 0)) /\ s.addr = "tokenizer"
         \/ s = Bound("detokenizer", "push", Of("rank", 0)) /\ s.addr = "detokenizer"
         \/ s.addr \in {"tokenizer", "detokenizer"} /\ Plain(s)
  BY BoundFields, ConnectedFields DEF Apart

\* Whatever the layout, one process binds each address, and its links have
\* both ends.
LEMMA LinksPaired ==
  ASSUME config.tokenizers \in Nat, NEW t \in AllSockets
  PROVE  /\ Cardinality({s \in Ends(t.addr) : s.bind}) = 1
         /\ {s.kind : s \in Ends(t.addr)} = {"push", "pull"}
  <1> DEFINE T == config.tokenizers
  <1>0. /\ 0 \in Rank /\ Rank = 0 .. N - 1 /\ N \in Nat /\ N > 0
        /\ T \in Nat /\ 0 \in 0 .. T /\ T \in 0 .. T
    BY StartupAssumption DEF Rank
  <1>1. \A s \in AllSockets : Common(s) \/ (Share /\ Shared(s)) \/ (~Share /\ Apart(s))
    BY Owners
  <1>2. \A s : Common(s) \/ (Share /\ Shared(s)) \/ (~Share /\ Apart(s)) => s \in AllSockets
    BY Owners
  <1>3. CASE t.addr = "frontend"
    <2> DEFINE b == Bound("frontend", "pull", Of("frontend", 0))
               c == Connected("frontend", "push", Of("worker", 0))
    <2>1. b \in Ends("frontend") /\ c \in Ends("frontend")
      <3>1. Common(b) /\ Common(c)
        BY <1>0 DEF Common
      <3> QED
        BY <1>2, <3>1, BoundFields, ConnectedFields DEF Ends
    <2>2. \A s \in Ends("frontend") : s = b \/ Plain(s)
      BY <1>1, CommonShape, SharedShape, ApartShape DEF Ends
    <2>3. b.kind = "pull" /\ c.kind = "push" /\ Binds(b)
      BY BoundFields, ConnectedFields
    <2> HIDE DEF b, c
    <2> QED
      BY <1>3, <2>1, <2>2, <2>3, Paired
  <1>4. CASE t.addr = "backend"
    <2> DEFINE b == Bound("backend", "pull", Of("rank", 0))
               c == Connected("backend", "push", Of("worker", 0))
    <2>1. b \in Ends("backend") /\ c \in Ends("backend")
      <3>1. Common(b) /\ Common(c)
        BY <1>0 DEF Common
      <3> QED
        BY <1>2, <3>1, BoundFields, ConnectedFields DEF Ends
    <2>2. \A s \in Ends("backend") : s = b \/ Plain(s)
      BY <1>1, CommonShape, SharedShape, ApartShape DEF Ends
    <2>3. b.kind = "pull" /\ c.kind = "push" /\ Binds(b)
      BY BoundFields, ConnectedFields
    <2> HIDE DEF b, c
    <2> QED
      BY <1>4, <2>1, <2>2, <2>3, Paired
  <1>5. CASE t.addr = "broadcast"
    <2> DEFINE b == Bound("broadcast", "push", Of("rank", 0))
               c == Connected("broadcast", "pull", Of("rank", 1))
    <2>1. N # 1
      BY <1>1, <1>5, CommonShape, SharedShape, ApartShape
    <2>2. b \in Ends("broadcast") /\ c \in Ends("broadcast")
      <3>1. 1 \in Rank \ {0}
        BY <1>0, <2>1
      <3>2. Common(b) /\ Common(c)
        BY <2>1, <3>1 DEF Common
      <3> QED
        BY <1>2, <3>2, BoundFields, ConnectedFields DEF Ends
    <2>3. \A s \in Ends("broadcast") : s = b \/ Plain(s)
      BY <1>1, CommonShape, SharedShape, ApartShape DEF Ends
    <2>4. b.kind = "push" /\ c.kind = "pull" /\ Binds(b)
      BY BoundFields, ConnectedFields
    <2> HIDE DEF b, c
    <2> QED
      BY <1>5, <2>2, <2>3, <2>4, Paired
  <1>6. CASE t.addr = "tokenizer"
    <2> DEFINE b == Bound("tokenizer", "push", Of("frontend", 0))
               c == Connected("tokenizer", "pull", Of("worker", 0))
    <2>1. ~Share
      BY <1>1, <1>6, CommonShape, SharedShape
    <2>2. b \in Ends("tokenizer") /\ c \in Ends("tokenizer")
      <3>1. 0 \in 0 .. T - 1
        BY <1>0, <2>1 DEF Share
      <3>2. Apart(b) /\ Apart(c)
        BY <3>1 DEF Apart
      <3> QED
        BY <1>2, <2>1, <3>2, BoundFields, ConnectedFields DEF Ends
    <2>3. \A s \in Ends("tokenizer") : s = b \/ Plain(s)
      BY <1>1, CommonShape, SharedShape, ApartShape DEF Ends
    <2>4. b.kind = "push" /\ c.kind = "pull" /\ Binds(b)
      BY BoundFields, ConnectedFields
    <2> HIDE DEF b, c
    <2> QED
      BY <1>6, <2>2, <2>3, <2>4, Paired
  <1>7. CASE t.addr = "detokenizer" /\ Share
    <2> DEFINE b == Bound("detokenizer", "pull", Of("worker", 0))
               c == Connected("detokenizer", "push", Of("rank", 0))
    <2>1. b \in Ends("detokenizer") /\ c \in Ends("detokenizer")
      <3>1. Shared(b) /\ Shared(c)
        BY DEF Shared
      <3> QED
        BY <1>2, <1>7, <3>1, BoundFields, ConnectedFields DEF Ends
    <2>2. \A s \in Ends("detokenizer") : s = b \/ Plain(s)
      BY <1>1, <1>7, CommonShape, SharedShape DEF Ends
    <2>3. b.kind = "pull" /\ c.kind = "push" /\ Binds(b)
      BY BoundFields, ConnectedFields
    <2> HIDE DEF b, c
    <2> QED
      BY <1>7, <2>1, <2>2, <2>3, Paired
  <1>8. CASE t.addr = "detokenizer" /\ ~Share
    <2> DEFINE b == Bound("detokenizer", "push", Of("rank", 0))
               c == Connected("detokenizer", "pull", Of("worker", T))
    <2>1. b \in Ends("detokenizer") /\ c \in Ends("detokenizer")
      <3>1. Apart(b) /\ Apart(c)
        BY DEF Apart
      <3> QED
        BY <1>2, <1>8, <3>1, BoundFields, ConnectedFields DEF Ends
    <2>2. \A s \in Ends("detokenizer") : s = b \/ Plain(s)
      BY <1>1, <1>8, CommonShape, ApartShape DEF Ends
    <2>3. b.kind = "push" /\ c.kind = "pull" /\ Binds(b)
      BY BoundFields, ConnectedFields
    <2> HIDE DEF b, c
    <2> QED
      BY <1>8, <2>1, <2>2, <2>3, Paired
  <1>9. t.addr \in {"frontend", "backend", "tokenizer", "detokenizer", "broadcast"}
    BY <1>1, CommonShape, SharedShape, ApartShape
  <1> QED
    BY <1>3, <1>4, <1>5, <1>6, <1>7, <1>8, <1>9

LEMMA SocketsBegin ==
  ASSUME Init
  PROVE  SocketInv
  BY DEF Init, SocketInv

LEMMA LayoutStays ==
  ASSUME UNCHANGED config
  PROVE  /\ AllSockets' = AllSockets /\ FrontendSockets' = FrontendSockets
         /\ \A w : WorkerSockets(w)' = WorkerSockets(w)
  BY DEF AllSockets, FrontendSockets, WorkerSockets, RankSockets, TokenizerAddr, WorkerAddr,
     TokenizerCreates, BackendCreatesDetokenizer, FrontendCreatesTokenizer, Share

LEMMA SocketsGoOn ==
  ASSUME AckInv, SocketInv, [Next]_vars
  PROVE  SocketInv'
  <1>0. Configured /\ Launched
    BY DEF AckInv
  <1>1. CASE UNCHANGED <<config, sockets, launcher, wpc>>
    BY <1>1, LayoutStays DEF SocketInv
  <1>2. CASE UNCHANGED vars
    BY <1>1, <1>2 DEF vars, launchVars
  <1>3. CASE OpenFrontend
    <2>1. \/ launcher' = "exit" /\ sockets' = sockets
          \/ launcher' = "spawn" /\ sockets' = sockets \cup FrontendSockets
      BY <1>3 DEF OpenFrontend
    <2>2. UNCHANGED <<config, wpc>>
      BY <1>3 DEF OpenFrontend
    <2>3. FrontendSockets \subseteq AllSockets
      BY DEF AllSockets
    <2> QED
      BY <2>1, <2>2, <2>3, LayoutStays DEF SocketInv
  <1>4. CASE Spawn
    <2>1. UNCHANGED <<config, sockets>> /\ launcher = "spawn"
      BY <1>4 DEF Spawn
    <2>2. wpc' = wpc \/ \E w : wpc' = [wpc EXCEPT ![w] = "new"]
      BY <1>4 DEF Spawn
    <2>3. \A w \in Worker : wpc'[w] \in {"load", "loop"} => wpc[w] \in {"load", "loop"}
      BY <1>0, <2>2 DEF Launched
    <2> QED
      BY <2>1, <2>3, LayoutStays DEF SocketInv
  <1>5. CASE TakeAck
    <2>1. UNCHANGED <<config, sockets, wpc>> /\ launcher = "wait"
      BY <1>5 DEF TakeAck
    <2> QED
      BY <2>1, LayoutStays DEF SocketInv
  <1>6. ASSUME NEW r \in Rank, RankStep(r) \/ RankFails(r) \/ NcclNotices(r)
        PROVE  SocketInv'
    <2>1. UNCHANGED <<config, launcher, wpc>>
      BY <1>6 DEF RankStep, RankFails, NcclNotices, JoinGroup, Connect, MeasureBefore,
         StartLoading, Load, AllocatePages, PlanGraphs, CaptureNext, OpenSockets, Ready,
         PeerGone, Outside, launchVars
    <2>2. CASE OpenSockets(r)
      <3>1. sockets' = sockets \cup RankSockets(r)
        BY <2>2 DEF OpenSockets
      <3>2. RankSockets(r) \subseteq AllSockets
        BY DEF AllSockets
      <3> QED
        BY <2>1, <3>1, <3>2, LayoutStays DEF SocketInv
    <2>3. CASE ~OpenSockets(r)
      <3>1. UNCHANGED sockets
        BY <1>6, <2>3 DEF RankStep, RankFails, NcclNotices, JoinGroup, Connect, MeasureBefore,
           StartLoading, Load, AllocatePages, PlanGraphs, CaptureNext, Ready, PeerGone
      <3> QED
        BY <1>1, <2>1, <3>1
    <2> QED
      BY <2>2, <2>3
  <1>7. ASSUME NEW w \in Worker, WorkerStep(w) \/ WorkerFails(w)
        PROVE  SocketInv'
    <2>1. UNCHANGED <<config, launcher>>
      BY <1>7 DEF WorkerStep, WorkerConnect, WorkerReady, WorkerFails, launchVars
    <2>2. CASE WorkerConnect(w)
      <3>1. /\ wpc[w] = "new" /\ wpc' = [wpc EXCEPT ![w] = "load"]
            /\ sockets' = sockets \cup WorkerSockets(w)
        BY <2>2 DEF WorkerConnect
      <3>2. w \in 0 .. config.tokenizers
        <4>1. ~(w > config.tokenizers)
          BY <1>0, <3>1 DEF Launched
        <4> QED
          BY <1>0, <4>1, ConfiguredNumbers
      <3>3. WorkerSockets(w) \subseteq AllSockets
        BY <3>2 DEF AllSockets
      <3>4. \A v \in Worker : wpc'[v] = IF v = w THEN "load" ELSE wpc[v]
        BY <1>0, <3>1 DEF Launched
      <3> QED
        BY <2>1, <3>1, <3>3, <3>4, LayoutStays DEF SocketInv
    <2>3. CASE WorkerReady(w) \/ WorkerFails(w)
      <3>1. /\ UNCHANGED sockets
            /\ \/ wpc[w] = "load" /\ wpc' = [wpc EXCEPT ![w] = "loop"]
               \/ wpc' = [wpc EXCEPT ![w] = "dead"]
        BY <2>3 DEF WorkerReady, WorkerFails
      <3>2. \A v \in Worker : wpc'[v] \in {"load", "loop"} => wpc[v] \in {"load", "loop"}
        BY <1>0, <3>1 DEF Launched
      <3> QED
        BY <2>1, <3>1, <3>2, LayoutStays DEF SocketInv
    <2> QED
      BY <1>7, <2>2, <2>3 DEF WorkerStep
  <1> QED
    BY <1>2, <1>3, <1>4, <1>5, <1>6, <1>7 DEF Next, LauncherStep

\* When the server serves every address some process uses is bound by exactly
\* one process and has a sending and a receiving end, in both tokenizer
\* layouts and for any number of ranks (the create flags of ServerArgs).
THEOREM LinksConnect == Spec => []LinksPair
  <1> DEFINE Inv == CallInv /\ MeetInv /\ AckInv /\ SocketInv
  <1>1. Inv => LinksPair
    <2> SUFFICES ASSUME MeetInv, AckInv, SocketInv, launcher = "serve",
                        NEW t \in sockets
                 PROVE  LET ends == {s \in sockets : s.addr = t.addr}
                        IN /\ Cardinality({s \in ends : s.bind}) = 1
                           /\ {s.kind : s \in ends} = {"push", "pull"}
      BY DEF LinksPair
    <2>1. Configured /\ \A w \in 0 .. config.tokenizers : wpc[w] = "loop"
      BY AllAcked DEF AckInv
    <2>2. \A r \in Rank : RankSockets(r) \subseteq sockets
      BY ServesThen DEF ServesWhole
    <2>3. \A w \in 0 .. config.tokenizers : w \in Worker /\ WorkerSockets(w) \subseteq sockets
      BY <2>1, ConfiguredNumbers DEF SocketInv
    <2>4. AllSockets \subseteq sockets
      BY <2>2, <2>3 DEF AllSockets, SocketInv
    <2>5. sockets = AllSockets
      BY <2>4 DEF SocketInv
    <2>6. config.tokenizers \in Nat
      BY <2>1, ConfiguredNumbers
    <2> QED
      BY <2>5, <2>6, LinksPaired DEF Ends
  <1>2. Init => Inv
    BY CallsBegin, MeetBegins, AckBegins, SocketsBegin
  <1>3. Inv /\ [Next]_vars => Inv'
    BY CallsGoOn, MeetGoesOn, AckGoesOn, SocketsGoOn
  <1> QED
    BY <1>1, <1>2, <1>3, PTL DEF Spec
=============================================================================
