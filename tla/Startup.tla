------------------------------ MODULE Startup ------------------------------
(***************************************************************************)
(* Bringing the server up: the launcher resolves its arguments, binds the  *)
(* frontend's sockets, starts one scheduler per tensor-parallel rank and   *)
(* the tokenizer workers, waits for their acknowledgements and serves.     *)
(* Every rank joins the group, measures memory, loads the model, sizes the *)
(* KV cache, captures CUDA graphs, opens its sockets and meets the others  *)
(* at a barrier.                                                           *)
(*                                                                         *)
(* A collective call is a pair of steps: a rank contributes (its entry in  *)
(* calls), and leaves when every rank has made as many calls.  The k-th    *)
(* call of one rank meets the k-th call of every other whatever it was     *)
(* made for: nothing in the libraries matches them by name.                *)
(*                                                                         *)
(* Memory is in GiB.  The all-reduces of one forward pass are one call.    *)
(* An engine may fail anywhere; its peers then raise, or hang in NCCL.     *)
(***************************************************************************)
EXTENDS Integers, Sequences, FiniteSets, FiniteSetsExt

CONSTANTS
  N,            \* the tensor-parallel size
  Configs,      \* command lines and environments the server may be started with
  None,         \* an option that is not given
  FreeMem,      \* free memory a device may have when the engine starts
  Drift,        \* how much it may change under the other users of the device
  LoadMem,      \* memory one rank's share of the weights takes
  KVHeads,      \* KV heads of the model
  KVHeadMem,    \* memory of one page of one KV head, all layers, K and V
  RatioPercent, \* --memory-ratio
  MaxFail       \* bound: processes that fail by themselves

Rank == 0 .. N - 1
MaxTokenizers == Max({c.tokenizers : c \in Configs})
Worker == 0 .. MaxTokenizers

ASSUME StartupAssumption ==
  /\ N \in Nat \ {0}
  /\ KVHeads \in Nat \ {0} /\ KVHeadMem \in Nat \ {0}
  /\ IF N > KVHeads THEN N % KVHeads = 0 ELSE KVHeads % N = 0

\* The options of a start that matter here.
Options ==
  [shell: BOOLEAN, tokenizers: Nat, graphMax: {None} \cup Int, pages: {None} \cup Int,
   dummy: BOOLEAN, key: BOOLEAN, requireKey: BOOLEAN, pynccl: BOOLEAN]

ASSUME ConfigsAssumption == IsFiniteSet(Configs) /\ Configs \subseteq Options

VARIABLES
  config,     \* ServerArgs, after parse_args
  launcher,   \* where the launcher is
  spawned,    \* processes it has started
  acks,       \* messages in ack_queue
  got,        \* acknowledgements it has taken
  sockets,    \* every ZMQ socket opened so far
  pc,         \* where each rank is
  calls,      \* the collective calls it has made
  left,       \* how many of them it has left
  free,       \* free memory of its device
  initMem,    \* init_free_memory
  pages,      \* num_pages
  todo,       \* graph sizes still to capture
  graphs,     \* graph_map: the sizes captured
  wpc,        \* where each tokenizer worker is
  fails       \* failures so far

launchVars == <<config, launcher, spawned, got>>
engineVars == <<free, initMem, pages, todo, graphs>>
groupVars == <<pc, calls, left>>
vars == <<launchVars, engineVars, groupVars, acks, sockets, wpc, fails>>

(***************************************************************************)
(* Arguments and addresses                                                 *)
(***************************************************************************)
\* parse_args: shell mode overrides what the command line says.
Resolved(c) == IF c.shell THEN [c EXCEPT !.graphMax = 1] ELSE c

\* The checks run_api_server makes before it touches a socket.
Refused(c) == IF c.shell THEN c.dummy ELSE c.requireKey /\ ~c.key

Share == config.tokenizers = 0
TokenizerAddr == IF Share THEN "detokenizer" ELSE "tokenizer"
TokenizerCreates == Share
BackendCreatesDetokenizer == ~Share
FrontendAlwaysCreates == TRUE  \* mutant: binds the shared address too
FrontendCreatesTokenizer == ~Share

Socket(addr, kind, create, owner) ==
  [addr |-> addr, kind |-> kind, bind |-> create, owner |-> owner]

FrontendSockets ==
  {Socket("frontend", "pull", TRUE, <<"frontend", 0>>),
   Socket(TokenizerAddr, "push", FrontendCreatesTokenizer, <<"frontend", 0>>)}

WorkerAddr(w) == IF w = config.tokenizers THEN "detokenizer" ELSE TokenizerAddr

WorkerSockets(w) ==
  {Socket("backend", "push", FALSE, <<"worker", w>>),
   Socket("frontend", "push", FALSE, <<"worker", w>>),
   Socket(WorkerAddr(w), "pull", TokenizerCreates, <<"worker", w>>)}

RankSockets(r) ==
  (IF r # 0 THEN {} ELSE
     {Socket("backend", "pull", TRUE, <<"rank", 0>>),
      Socket("detokenizer", "push", BackendCreatesDetokenizer, <<"rank", 0>>)})
  \cup
  (IF N = 1 THEN {} ELSE
     {Socket("broadcast", IF r = 0 THEN "push" ELSE "pull", r = 0, <<"rank", r>>)})

(***************************************************************************)
(* Memory, pages and graphs                                                *)
(***************************************************************************)
\* _sync_get_memory raises on every rank when they differ by more than 2 GiB.
Balanced(mems) == Max(mems) - Min(mems) <= 2

\* div_even(num_kv_heads, size, allow_replicate=True)
LocalKVHeads == IF N > KVHeads THEN 1 ELSE KVHeads \div N
CachePerPage == LocalKVHeads * KVHeadMem

\* _determine_num_pages: from the largest free memory of the ranks, before
\* and after loading.
NumPages(oldFree, newFree) ==
  IF config.pages # None THEN config.pages
  ELSE ((oldFree * RatioPercent) \div 100 - (oldFree - newFree)) \div CachePerPage

\* _determine_cuda_graph_bs
GraphSizes(mem) ==
  LET top == IF config.graphMax # None THEN config.graphMax
             ELSE IF mem > 80 THEN 256 ELSE 160
  IN IF top < 1 THEN {} ELSE {1, 2, 4} \cup {b \in 8 .. top : b % 8 = 0}

(***************************************************************************)
(* Collective calls                                                        *)
(***************************************************************************)
\* _init_communication: the gloo group; then the id of the NCCL communicator, the
\* communicator and its window, or with --disable-pynccl a gloo group beside NCCL's.
SetupCalls ==
  IF N = 1 THEN <<"group">>
  ELSE IF config.pynccl THEN <<"group", "uid", "comm", "window">>
  ELSE <<"group", "cpu_group">>

\* Calls of torch.distributed, which raise when a peer is gone, and of NCCL.
GlooCalls == {"group", "cpu_group", "uid", "mem1", "mem2", "mem3", "barrier"}
NcclCalls == {"comm", "window", "graph"}
Collectives == GlooCalls \cup NcclCalls

Call(r, at, val) ==
  /\ pc' = [pc EXCEPT ![r] = at]
  /\ calls' = [calls EXCEPT ![r] = Append(@, [at |-> at, val |-> val])]

\* A rank that died inside its k-th call takes that call down with it.
Broken(k) == \E s \in Rank : pc[s] = "dead" /\ left[s] < k

Complete(r) ==
  /\ \A s \in Rank : Len(calls[s]) >= Len(calls[r])
  /\ ~Broken(Len(calls[r]))

\* The id is broadcast by rank 0, which waits for nobody.
Met(r) == IF pc[r] = "uid" THEN Len(calls[0]) >= Len(calls[r]) ELSE Complete(r)

Values(r) == {calls[s][Len(calls[r])].val : s \in Rank}

OwnFree(r) == calls[r][Len(calls[r])].val  \* mutant: not reduced

\* What _sync_get_memory()[1] returns: the largest free memory of the ranks.
SyncedFree(r) == Max(Values(r))

\* mutant: what the rank measured itself
OwnMemory(r) == calls[r][Len(SetupCalls) + 1].val

\* The free memory the graph sizes are chosen by.
GraphMemory(r) == initMem[r]

Leave(r) == left' = [left EXCEPT ![r] = @ + 1]

Die(r) == pc' = [pc EXCEPT ![r] = "dead"] /\ UNCHANGED calls

(***************************************************************************)
(* The launcher                                                            *)
(***************************************************************************)
Init ==
  /\ config \in {Resolved(c) : c \in Configs}
  /\ launcher = "start" /\ spawned = 0 /\ got = 0 /\ acks = 0
  /\ sockets = {}
  /\ pc = [r \in Rank |-> "none"]
  /\ calls = [r \in Rank |-> << >>]
  /\ left = [r \in Rank |-> 0]
  /\ free \in [Rank -> FreeMem]
  /\ initMem = [r \in Rank |-> None]
  /\ pages = [r \in Rank |-> None]
  /\ todo = [r \in Rank |-> {}]
  /\ graphs = [r \in Rank |-> {}]
  /\ wpc = [w \in Worker |-> "none"]
  /\ fails = 0

OpenFrontend ==
  /\ launcher = "start"
  /\ IF Refused(config)
       THEN launcher' = "exit" /\ UNCHANGED sockets
       ELSE launcher' = "spawn" /\ sockets' = sockets \cup FrontendSockets
  /\ UNCHANGED <<config, spawned, got, engineVars, groupVars, acks, wpc, fails>>

\* The ranks first, then the detokenizer, then the tokenizers.
Processes == N + config.tokenizers + 1
WorkerOf(i) == IF i = N THEN config.tokenizers ELSE i - N - 1

Spawn ==
  /\ launcher = "spawn"
  /\ IF spawned < N
       THEN pc' = [pc EXCEPT ![spawned] = "new"] /\ UNCHANGED wpc
       ELSE wpc' = [wpc EXCEPT ![WorkerOf(spawned)] = "new"] /\ UNCHANGED pc
  /\ spawned' = spawned + 1
  /\ launcher' = IF spawned + 1 = Processes THEN "wait" ELSE "spawn"
  /\ UNCHANGED <<config, got, engineVars, calls, left, acks, sockets, fails>>

ForgetsPrimary == config.tokenizers + 1  \* mutant: the workers' acknowledgements only
OnePerProcess == N + config.tokenizers + 1  \* mutant: waits for every rank's

\* One acknowledgement per tokenizer worker and one of the primary rank.
AcksExpected == config.tokenizers + 2

TakeAck ==
  /\ launcher = "wait" /\ acks > 0
  /\ acks' = acks - 1
  /\ got' = got + 1
  /\ launcher' = IF got + 1 = AcksExpected THEN "serve" ELSE "wait"
  /\ UNCHANGED <<config, spawned, engineVars, groupVars, sockets, wpc, fails>>

(***************************************************************************)
(* A tokenizer worker                                                      *)
(***************************************************************************)
WorkerConnect(w) ==
  /\ wpc[w] = "new"
  /\ wpc' = [wpc EXCEPT ![w] = "load"]
  /\ sockets' = sockets \cup WorkerSockets(w)
  /\ UNCHANGED <<launchVars, engineVars, groupVars, acks, fails>>

WorkerReady(w) ==
  /\ wpc[w] = "load"
  /\ wpc' = [wpc EXCEPT ![w] = "loop"]
  /\ acks' = acks + 1
  /\ UNCHANGED <<launchVars, engineVars, groupVars, sockets, fails>>

WorkerFails(w) ==
  /\ wpc[w] \in {"new", "load"} /\ fails < MaxFail
  /\ wpc' = [wpc EXCEPT ![w] = "dead"]
  /\ fails' = fails + 1
  /\ UNCHANGED <<launchVars, engineVars, groupVars, acks, sockets>>

(***************************************************************************)
(* A rank                                                                  *)
(***************************************************************************)
\* What the steps of an engine leave alone.
Outside == <<launchVars, wpc, fails>>

JoinGroup(r) ==
  /\ pc[r] = "new"
  /\ Call(r, "group", 0)
  /\ UNCHANGED <<Outside, engineVars, left, acks, sockets>>

Connect(r) ==
  /\ \E k \in 1 .. Len(SetupCalls) - 1 :
       pc[r] = SetupCalls[k] /\ Met(r) /\ Call(r, SetupCalls[k + 1], 0)
  /\ Leave(r)
  /\ UNCHANGED <<Outside, engineVars, acks, sockets>>

MeasureBefore(r) ==
  /\ pc[r] = SetupCalls[Len(SetupCalls)] /\ Complete(r)
  /\ Leave(r) /\ Call(r, "mem1", free[r])
  /\ UNCHANGED <<Outside, engineVars, acks, sockets>>

StartLoading(r) ==
  /\ pc[r] = "mem1" /\ Complete(r)
  /\ Leave(r)
  /\ IF Balanced(Values(r))
       THEN /\ pc' = [pc EXCEPT ![r] = "load"]
            /\ initMem' = [initMem EXCEPT ![r] = SyncedFree(r)]
            /\ UNCHANGED calls
       ELSE Die(r) /\ UNCHANGED initMem
  /\ UNCHANGED <<Outside, free, pages, todo, graphs, acks, sockets>>

Load(r) ==
  /\ pc[r] = "load"
  /\ \E d \in Drift :
       LET after == free[r] - LoadMem + d
       IN /\ free' = [free EXCEPT ![r] = after]
          /\ Call(r, "mem2", after)
  /\ UNCHANGED <<Outside, initMem, pages, todo, graphs, left, acks, sockets>>

\* num_pages, the KV cache with its dummy page, and the memory left after it.
AllocatePages(r) ==
  /\ pc[r] = "mem2" /\ Complete(r)
  /\ Leave(r)
  /\ LET num == NumPages(initMem[r], SyncedFree(r))
         need == (num + 1) * CachePerPage
     IN IF Balanced(Values(r)) /\ num > 1 /\ need <= free[r]
          THEN /\ pages' = [pages EXCEPT ![r] = num]
               /\ free' = [free EXCEPT ![r] = @ - need]
               /\ Call(r, "mem3", free[r] - need)
          ELSE Die(r) /\ UNCHANGED <<pages, free>>
  /\ UNCHANGED <<Outside, initMem, todo, graphs, acks, sockets>>

\* The next graph, the largest first; the I/O sockets when none is left.
Capture(r, sizes) ==
  /\ todo' = [todo EXCEPT ![r] = sizes]
  /\ IF sizes = {} THEN pc' = [pc EXCEPT ![r] = "io"] /\ UNCHANGED calls
                   ELSE Call(r, "graph", Max(sizes))

PlanGraphs(r) ==
  /\ pc[r] = "mem3" /\ Complete(r)
  /\ Leave(r)
  /\ IF Balanced(Values(r))
       THEN Capture(r, GraphSizes(GraphMemory(r)))
       ELSE Die(r) /\ UNCHANGED todo
  /\ UNCHANGED <<Outside, free, initMem, pages, graphs, acks, sockets>>

CaptureNext(r) ==
  /\ pc[r] = "graph" /\ Complete(r)
  /\ Leave(r)
  /\ graphs' = [graphs EXCEPT ![r] = @ \cup {Max(todo[r])}]
  /\ Capture(r, todo[r] \ {Max(todo[r])})
  /\ UNCHANGED <<Outside, free, initMem, pages, acks, sockets>>

OpenSockets(r) ==
  /\ pc[r] = "io"
  /\ sockets' = sockets \cup RankSockets(r)
  /\ Call(r, "barrier", 0)
  /\ UNCHANGED <<Outside, engineVars, left, acks>>

\* sync_all_ranks returns; the primary rank acknowledges.
Ready(r) ==
  /\ pc[r] = "barrier" /\ Complete(r)
  /\ Leave(r)
  /\ pc' = [pc EXCEPT ![r] = "loop"]
  /\ acks' = IF r = 0 THEN acks + 1 ELSE acks
  /\ UNCHANGED <<Outside, engineVars, calls, sockets>>

\* An exception, out of memory, a call that waits longer than distributed_timeout:
\* between two calls, in one that the others have not all made, in a forward pass,
\* or behind a call that was met.
FailsAt(r) ==
  \/ pc[r] \in {"new", "load", "io", "graph"}
  \/ pc[r] \in Collectives /\ ~Met(r)
FailsBehind(r) == pc[r] \in Collectives \ {"barrier"} /\ Met(r)

RankFails(r) ==
  /\ fails < MaxFail
  /\ \/ FailsAt(r) /\ UNCHANGED left
     \/ FailsBehind(r) /\ Leave(r)
  /\ Die(r)
  /\ fails' = fails + 1
  /\ UNCHANGED <<launchVars, engineVars, acks, sockets, wpc>>

PeerGone(r) ==
  /\ pc[r] \in GlooCalls
  /\ Broken(Len(calls[r]))
  /\ Die(r)
  /\ UNCHANGED <<Outside, engineVars, left, acks, sockets>>

\* NCCL may notice that a peer is gone; nothing makes sure that it does.
NcclNotices(r) ==
  /\ pc[r] \in NcclCalls
  /\ Broken(Len(calls[r]))
  /\ Die(r)
  /\ UNCHANGED <<Outside, engineVars, left, acks, sockets>>

(***************************************************************************)
(* Specification                                                           *)
(***************************************************************************)
RankStep(r) ==
  \/ JoinGroup(r) \/ Connect(r) \/ MeasureBefore(r) \/ StartLoading(r) \/ Load(r)
  \/ AllocatePages(r) \/ PlanGraphs(r) \/ CaptureNext(r) \/ OpenSockets(r) \/ Ready(r)
  \/ PeerGone(r)

WorkerStep(w) == WorkerConnect(w) \/ WorkerReady(w)

LauncherStep == OpenFrontend \/ Spawn \/ TakeAck

Next ==
  \/ LauncherStep
  \/ \E r \in Rank : RankStep(r) \/ RankFails(r) \/ NcclNotices(r)
  \/ \E w \in Worker : WorkerStep(w) \/ WorkerFails(w)

Spec == Init /\ [][Next]_vars

\* Every process runs: it does not stop between two of its own statements.
FairSpec ==
  /\ Spec
  /\ WF_vars(LauncherStep)
  /\ \A r \in Rank : WF_vars(RankStep(r))
  /\ \A w \in Worker : WF_vars(WorkerStep(w))

(***************************************************************************)
(* Properties                                                              *)
(***************************************************************************)
\* Type invariant, with the values launch_server and Engine.__init__ assign.
TypeOK ==
  /\ launcher \in {"start", "exit", "spawn", "wait", "serve"}
  /\ spawned \in 0 .. N + MaxTokenizers + 1
  /\ got \in 0 .. MaxTokenizers + 2 /\ acks \in 0 .. MaxTokenizers + 2
  /\ pc \in [Rank -> Collectives \cup {"none", "new", "load", "io", "loop", "dead"}]
  /\ wpc \in [Worker -> {"none", "new", "load", "loop", "dead"}]
  /\ \A r \in Rank : left[r] \in 0 .. Len(calls[r]) /\ Len(calls[r]) <= left[r] + 1

\* The k-th collective call of every rank is made at the same place of the
\* start-up, and for the same graph size: nothing a rank measures on its own
\* device may decide which call it makes next (_sync_get_memory, GraphRunner).
CollectivesMatch ==
  \A r, s \in Rank : \A k \in 1 .. Len(calls[r]) :
    k <= Len(calls[s]) =>
      /\ calls[r][k].at = calls[s][k].at
      /\ calls[r][k].at = "graph" => calls[r][k].val = calls[s][k].val

\* Every rank that has sized its cache has the same number of pages: the
\* schedulers admit and evict by it, each on its own (_determine_num_pages).
RanksAgree ==
  \A r, s \in Rank : pages[r] # None /\ pages[s] # None => pages[r] = pages[s]

\* The launcher serves only when every rank has reached the barrier with its
\* sockets open and its graphs captured, every tokenizer worker runs, and no
\* process has died on the way (the acknowledgements of launch_server).
ServesWhole ==
  launcher = "serve" =>
    /\ \A r \in Rank :
         /\ pc[r] \in {"barrier", "loop"}
         /\ RankSockets(r) \subseteq sockets
         /\ graphs[r] = GraphSizes(initMem[r])
    /\ \A w \in 0 .. config.tokenizers : wpc[w] = "loop"

\* When the server serves, every address some process connects to is bound by
\* exactly one process, and has a sending and a receiving end: the four
\* create flags of the configuration agree in both tokenizer layouts.
LinksPair ==
  launcher = "serve" =>
    \A a \in {s.addr : s \in sockets} :
      LET ends == {s \in sockets : s.addr = a}
      IN /\ Cardinality({s \in ends : s.bind}) = 1
         /\ {s.kind : s \in ends} = {"push", "pull"}

\* A rank is stuck in NCCL with a peer that is gone: while the communicator or its
\* window is made, or in a forward pass of the capture.
Hung(r) == pc[r] \in NcclCalls /\ Broken(Len(calls[r]))

\* Every rank that was started ends in its loop or dead, except inside an NCCL call
\* a peer has died before or in: no rank is left waiting in torch.distributed, nor
\* for a peer that lives.  And the server serves, unless it refused to start or
\* some process failed: the launcher does not wait for an acknowledgement nobody
\* sends.
StartEnds ==
  <>[](/\ \A r \in Rank : pc[r] \in {"loop", "dead"} \/ Hung(r) \/ launcher = "exit"
       /\ \/ launcher \in {"exit", "serve"}
          \/ \E r \in Rank : pc[r] = "dead"
          \/ \E w \in Worker : wpc[w] = "dead")
=============================================================================
