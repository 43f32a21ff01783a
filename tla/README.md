# Mini-SGLang in TLA+

A verification project for the inference server in `python/minisgl` and the
scripts that operate it. It consists of

* TLA+ modules translated from the source, one per component;
* TLC configurations that check them on small instances;
* theorems, for every value of the constants, with proofs checked by TLAPS.

Paths are relative to `src/python/minisgl/` unless they start with `src/`.

## 1. Inventory of the system

A server is a handful of processes joined by ZMQ queues: the API server, one or
more tokenizer workers, one detokenizer, and one scheduler per GPU of a tensor
parallel group. A request travels

    client -> api_server -> tokenizer -> scheduler <-> engine -> detokenizer -> api_server -> client

| Component | State | Operations | Hard behaviour | What makes it correct |
|---|---|---|---|---|
| Radix prefix cache (`kvcache/radix_cache.py`) | tree of keys and pages, `ref_count`, `evictable_size`, `protected_size` | match (splits nodes), insert, lock, unlock, evict | any order of splits, locks and evictions | stays a tree; locked prefixes stay; counts and sizes exact |
| Cache manager (`scheduler/cache.py`) | `free_slots` (pages), page table rows | `match_req`, `allocate_paged`, `cache_req`, `_allocate`, `check_integrity` | deduplication of pages cached by others, eviction in mid-allocation | each page has one owner and none is lost |
| Slots (`scheduler/table.py`) | `_free_slots`, `token_pool` | `allocate`, `free` | double free | one user per slot |
| Scheduler (`scheduler/scheduler.py`, `prefill.py`, `decode.py`) | pending list, running set, `finished_reqs`, batch in flight | receive, abort, schedule, forward, process results | results one batch late, aborts in between, chunked prefill, admission by estimate | memory admitted is available; each request is freed once and answered to the end |
| Engine (`engine/`) | device tensors, streams, CUDA graphs | `forward_batch`, padding to a captured size | stream ordering, short cuts for common batches | lengths advance once per forward pass; a pass touches only what belongs to its requests |
| Attention metadata (`attention/`) | buffers captured with a graph | sequence boundaries, page tables | three backends, each with its own form | every form names the same pages |
| Rank exchange (`scheduler/io.py`) | ZMQ queues, CPU process group | receive on rank 0 and on the others | all ranks must block and batch alike | every rank handles the same messages in the same iteration |
| API server (`server/api_server.py`, `activity.py`) | `uid_counter`, `ack_map`, `event_map`, last activity | new request, listen, stream, abort | asyncio tasks share maps across awaits; disconnects | every reply reaches its client once, in order; entries go away |
| Tokenizer workers (`tokenizer/`) | `decode_map` | tokenize, detokenize, forward aborts | several workers reorder messages | increments concatenate to the text; state goes with the last reply |
| Start-up (`server/launch.py`, `server/args.py`, `engine/engine.py`) | `ack_queue`, sockets, free memory, `num_pages`, graphs | start processes, join the group, size the cache, capture graphs, meet at the barrier | ranks that differ in memory, a process that dies before its ack, sockets that bind on one side only | ranks make the same collective calls and choose the same pages; requests are served only after all are ready |
| Weights and layers (`models/weight.py`, `layers/`) | merge and expert buffers, state dict | cut, merge, pack, load | tensors in any order, replicated KV heads, uneven vocabularies | each head, neuron, expert and token is on one rank, beside what it is used with |
| Messages (`message/`, `utils/mp.py`) | none | encode, decode | nesting, tensors | decode inverts encode |
| Offline engine (`llm/llm.py`) | request list, result map | generate | ends when the loop would block | every prompt gets its output |
| Operation (`src/scripts/lambda_*.py`, `serve_lambda_chat.py`) | pid files, `.env`, cloud instances, local port | turn on, turn off, watch | processes that share files without locks; a watchdog that shuts down its own process | one instance at most; off means nothing is left; an idle instance is terminated |
| Benchmark (`src/scripts/lambda_benchmark.py`, `src/scripts/benchmark/`) | instances, tunnels, run state, database | launch, deploy in parallel, warm up, hand over, batches, clean up | failures and signals between two steps; one database, two processes | nothing outlives the run; what the database says is true |
| Other layers and kernels, NCCL | activations | numerics | - | outside the reach of model checking |

`PROJECT.json` lists the hazards of this code one by one, at the lines where they
bite, with the properties that cover them.

## 2. Plan

| # | Module | Content | State |
|---|---|---|---|
| 1 | `RadixTree` | the tree as operators | done |
| 2 | `CacheManager` | pages, slots and the contract of their use | done, proved |
| 3 | `Scheduler` | both loops, over 2; implements the contract of 2 | done; contract, types, pages, service, idle integrity, answer length and, for pages of one token, admission proved |
| 4 | `MemoryProofs` | theorems about 1 and 2, and about 3 as their caller | done |
| 5 | `Service` | the scheduler as its clients see it; implemented by 3 | done, the implementation proved |
| 6 | `Frontend` | API server, workers and channels around 5; liveness of answers, aborts, over-long requests | done, proved but for liveness |
| 7 | `TPSync` | agreement of ranks on messages and blocking; deadlock | done; `SameMessages` proved |
| 8 | `ForwardPlan` | what a forward pass reads and writes, over 3: padding, mappings, sequence boundaries, page tables, the tokens of the batch in flight | done, proved |
| 9 | `LambdaOps` | turning a rented server on and off, tunnel, watchdog | done, proved but for liveness |
| 10 | `BenchmarkLauncher` | a benchmark run: launch, deployment, clean-up, signals, the database | done, proved but for liveness |
| 11 | `BenchmarkDashboard` | the dashboard's pages and batches, composed with 10 | done, proved but for liveness |
| 12 | `PrefixCache` | abstract prefix cache of `kvcache/base.py`; `RadixCache` with timestamps and the naive cache implement it | open |
| 13 | `Startup` | the start of the server up to its last acknowledgement | done, proved but for liveness |
| 14 | `WeightLoader` | which rows of a checkpoint meet in which layer of which rank | done, proved |
| 15 | `Detokenize` | offsets of the detokenizer | open |

The order follows the risk. Memory and the loop came first, because there a
mistake corrupts answers silently; then what surrounds them, because it decides
whether an answer arrives at all; then what a forward pass makes of the state,
and the scripts, whose mistakes cost money. The abstract caches, the start and
the pure algorithms of the detokenizer come last.

## 3. The modules

### RadixTree

`kvcache/radix_cache.py`. All lengths in the tree are multiples of the page size
(`_tree_walk` and `insert_prefix` round down) and children are indexed by their
first page of tokens, so keys are sequences of page-long *blocks* and lengths
count pages. A node is named by its whole key from the root down to its end; the
tree is then a function from cached keys to pages (`page`), another to reference
counts (`ref`), and the set of keys at which a node ends (`nodes`). `split_at`
adds a node end, `lock_handle` walks a path, `insert_prefix` adds the rest of a
key as one leaf, `evict` removes a leaf. The reference count is kept per block
and equal throughout a node, because a split copies it. Timestamps are left out:
`evict` may choose any unreferenced leaf, which includes the least recently used.

### CacheManager

`scheduler/cache.py` with `scheduler/table.py`, and `_try_allocate_one` of
`scheduler/prefill.py`. The first half of the module says what each operation
does to `tree`, `freeSlots`, `tableFree`, `pageTable` and the handle and slot of
a request; a request that owns any of these is `held`. The second half is the
*contract* `CMSpec`: a caller that admits a request only when it does not hold
anything and a slot is free, takes pages only when enough are free, caches ever
longer prefixes of which it has the pages, and releases once. Eviction may
happen at any time. Pages are counted, not their token offsets (`free_slots`
holds multiples of the page size; `_page_to_token` and `_write_page_table` spread
a page over its positions). The frees inside `lazy_free_region` reach the free
list in the same order as in the code, at once instead of at the end of the
region: nothing reads the free list in between.

### Scheduler

`scheduler/scheduler.py`, `prefill.py`, `decode.py` over the state of
`CacheManager`. The loop is one process, so its iteration is a sequence of
stages (`pc`), each split into one action per request:

| Stage | Actions | Code |
|---|---|---|
| receive | `ReceiveUser`, `ReceiveAbort`, `Idle`, `BeginSchedule` | `_process_one_msg`, `run_when_idle`, the `blocking` condition |
| admit | `ContinueChunk`, `AdmitNew`, `RefuseNew`, `StopAdmitting` | `PrefillManager.schedule_next_batch`, `try_add_one`, `DecodeManager.schedule_next_batch` |
| grow | `EvictForBatch`, `GrowOne`, `Forward` | `allocate_paged`, `_allocate`, `_forward`, `forward_batch`, `filter_reqs` |
| process | `SkipChunk`, `ProcessReq`, `EndProcess` | `_process_last_data` |

`Overlap` chooses between `overlap_loop`, where `_process_last_data` handles the
batch before the one just launched (`inFlight`), and `normal_loop`. A request is
named by its uid; the `ChunkedReq` and `Req` objects made for it one after the
other share one set of variables, as each takes over slot, lock and lengths of
the one before. Tokens are nondeterministic. The actions on memory are those of
`CacheManager`, unguarded: that the scheduler uses them within the contract is
the property `CMSpec` (refinement with the identity mapping on `cmVars`).

`chunkedList` is the list of that name in `schedule_next_batch`: the requests whose prompt
this pass leaves unfinished, which go back to the front of `pending_list`. A decode
batch is sorted by uid (`InUidOrder`).

The assumptions on the constants are the code's own: keys are whole pages of tokens, as
many as fit a row (`BlockAssumption`, `KeysAssumption`, `RowAssumption`: `page_table` has
a column for each of `max_seq_len` positions); a prompt has at least one token, which
`match_req` asserts, and asks for a natural number of tokens (`MsgAssumption`); uids are
the counter of the API server (`UidAssumption`); the rest gives the bounds their type.

`allocate_paged` allocates for the whole batch before it writes any row. The
model takes pages request by request, after `EvictForBatch` has run until the free
list holds enough for all of them; rows come out the same, because the free list
is only consumed from its front.

### Service

What a client of the scheduler may count on, without memory, batches or loops: a
request is taken or dropped, answered a token at a time, and over with the reply
that says so or with its abort; with overlap one more reply may follow. `Scheduler`
implements it (`ServiceSpec`, with the mapping `Answers`), `Frontend` is built on
it. It is the seam that lets the two be checked apart.

### Frontend

`server/api_server.py` and `tokenizer/server.py` around `Service`. The API server
runs asyncio tasks in one thread, so that an action is what a task does from one
await to the next: `Listen` for the listener, and for the task of a request

| `task[uid]` | Where it is | Leaves by |
|---|---|---|
| `waiting` | `event.wait()` | `Wake`, `CancelWaiting` |
| `reading` | has picked up `pending`, yields reply after reply | `PassOn`, `CancelAtChunk` |
| `closing` | behind the finished reply, `[DONE]` not sent | `Close`, `CancelAtChunk` |
| `cancelled` | `abort_user`, in its sleep | `AbortUser` |
| `done`, `aborted` | over | - |

`ackMap` has an entry for the uids in `ack_map`, `woken` is the set of events
set. The web server may or may not cancel the response of a client that is gone
(`CancelWaiting`); the code notices at the next chunk (`CancelAtChunk`). Streaming
and non-streaming requests differ in `streams`: only streams notice disconnects.

`Work` is one round of `tokenize_worker`; `local_bs` is 1 wherever the server
starts one, so a worker takes one message at a time. With `NumTokenizers = 0` the
detokenizer does both jobs (the default, `server/args.py`). A ZMQ queue keeps the order
of one sender, which for `inbox` and `backend` is what the model keeps; messages
of several senders arrive in any order because the senders' steps interleave.
Replies carry their number in place of their text.

Two facts that the model makes visible: the entries of a uid stay in `ack_map` and `event_map` after
its last reply, since its consumer breaks out of `wait_for_ack` before the `del`;
and a client whose prompt is too long waits for ever, since the scheduler drops its
request without a reply (`Rest` names these clients as the only ones that may).

### TPSync

`scheduler/io.py`, `_recv_msg_multi_rank0` and `_recv_msg_multi_rank1`, with the
part of the loop around them that decides whether to block. Each rank has its own
`pc`; the channels are the tokenizer's queue (`backend`), the published messages
(`sub`) and the numbers broadcast on the CPU group (`counts`). What a scheduler does
with messages is a function of the messages, hence the same on each rank, and is
reduced to a number of batches (`work`). A batch has results when each rank
has launched it, which is all that the collectives of the forward pass contribute
here. `broadcast` of the root does not wait for the receivers; should the backend
make it wait, the behaviours are a subset of those checked.

### ForwardPlan

`_prepare_batch` and `_forward` of `scheduler/scheduler.py`, `engine/graph.py`, the
width computed in `engine/engine.py` and the metadata of `attention/fi.py`, `fa.py`
and `trtllm.py`. The plan of a pass is a function of the scheduler's state once
`allocate_paged` is done (`Planned`), so this module extends `Scheduler` with
operators and properties, and has no variables or actions. `TableAlign` stands
for the 32 entries rows are aligned to, `GraphSizes` for the batch sizes graphs
were captured for. Locations in the KV buffer, positions, sequence boundaries and
page tables are computed as in the code; tokens are not values but cells
(row, column) of the token pool, which is what decides whether the right one is
read.

`InFlightWrites` is the cells the batch in flight will write with overlap. The
property about them leaves out rows whose request was freed since: see section 6.

### LambdaOps

`scripts/lambda_*.py` and `serve_lambda_chat.py`. The chat server, the bootstrap
process its threads run, `lambda_turn_off.py` and the watchdogs are processes that
share the pid files, `.env`, the local port and the account, and nothing locks
any of these but the chat server's own state. Each action is what one of them
does between two points at which another can be seen: an API call, a request to
the server, a file written, a signal sent.

| Actor | State | Actions |
|---|---|---|
| thread of a request to turn on | `boot[t]`, `bootState` | `TurnOn`, `LookUp`, `CheckHealth`, `Reuse`, `Rent`, `SetEnv`, `Serve`, `EnsureTunnel`, `WaitForHealth`, `EnsureWatchdog` |
| `shutdown()`, by hand or in a watchdog | `job[d]` | `TurnOff`, `WatchdogExpires`, `Signal`, `Unlink`, `AskServer`, `JobLookUp`, `DockerDown`, `Terminate` |
| tunnels and watchdogs | `proc[p]`, `pidfile` | `WatchdogFails`, `TunnelBreaks` |
| chat server | `chatIp` | `Status` |
| account | `alive`, `serving` | `InstanceGoes`, `ServerStops` |

An instance's number is its address. `WithEnvFile` is `load_env_file`, which sets only
what the environment lacks. Initially nothing is rented, or the server was turned
off some time ago (then `.env` names an instance that is gone), or it was turned
on with `lambda_turn_on.sh`. A process is started and its pid written in one step, while
`stop_pid` sends its signal and removes the file in two. `Port` says what a request to
the local port meets: `fetch_health`, `fetch_status` and `request_admin_shutdown` catch
a refused connection, not one that the tunnel accepts and then drops. The
container restarts after `/admin/shutdown`, so that `serving` does not change;
`AskServer` may fail, because the tunnel just stopped may hold the port a moment
longer. Time is left out: a server that answers may be idle (`MayBeIdle`).
`chat.pid` is never written by these scripts; pids are not reused.

### BenchmarkLauncher

`scripts/lambda_benchmark.py` with `scripts/benchmark/instance.py` and `cleanup.py`, and
the older copy under `experiments/`, which launches all nodes with one request
(`variant`). `pc` is the step of `run_benchmark`. Python's exceptions are followed:
`Raise` says where an `Exception` or a `SystemExit` goes from each step - the launch
terminates what it has, `except Exception` records a failed run, `__exit__` cleans
up. A signal's handler runs on the launcher's thread, so `Signal` may come at any
step and puts a call of `cleanup()` (`job`) before the next one, after which
`SystemExit` is raised at the step interrupted. Deployment threads go on
meanwhile, and the executor waits for them. `CloudLaunches` is the API, whose
instances exist from then on whether or not the answer arrives.

The database is a record with what the other parts read: the run's status, its
nodes, the nodes warmed up, the outcome of the clean-up, the dashboard's cursor,
the requests recorded; `Tables` is its type. `holders` are the processes that have
it open for writing: DuckDB allows several connections of one process or those
of one process alone. Prompts of the warm-up that fail do not fail a node.

### BenchmarkDashboard

`scripts/benchmark/dashboard.py`, `control.py` and `runner.py` over the launcher. A page is a
thread of one Streamlit process. It reads the run, offers its buttons while the
status is `ready`, and on a click chooses rows, sends each to every node and saves
the cursor, in this order and with the database open; a batch that fails
(`BatchFails`) or a dashboard that dies (`DashboardDies`) leaves the rest undone.

### Startup

`server/launch.py` and what it starts, up to the loops: `run_api_server` of
`server/api_server.py`, `Engine.__init__` of `engine/engine.py`, `GraphRunner` of
`engine/graph.py`, `Scheduler.__init__` with `scheduler/io.py`, and the beginning of
`tokenize_worker`. The launcher, each rank and each worker are processes with a `pc` of
their own:

| `pc[r]` | What the rank is doing | Left by |
|---|---|---|
| `new` | `_adjust_config`, before the group | `JoinGroup` |
| `group`, `cpu_group`, `uid`, `comm`, `window` | `_init_communication`, with `init_pynccl` | `Connect`, `MeasureBefore` |
| `mem1`, `mem2`, `mem3` | the three calls of `_sync_get_memory` | `StartLoading`, `AllocatePages`, `PlanGraphs` |
| `load` | `load_state_dict` | `Load` |
| `graph` | the forward pass captured next | `CaptureNext` |
| `io` | the scheduler and its sockets | `OpenSockets` |
| `barrier` | `sync_all_ranks` | `Ready` |

`calls[r]` is the history of the collective calls a rank has made, and `left[r]` how many it
has returned from. Collectives have no names: the k-th call of a rank is completed by the k-th
call of each other rank, which is why the sequences must be equal, and the property
`CollectivesMatch` compares them. Which calls set the group up depends on the options
(`SetupCalls`): with more than one rank and PyNCCL, the default, they are the gloo group, the
broadcast of the communicator's id, which rank 0 does not wait for (`Met`),
`ncclCommInitRank` and `ncclCommWindowRegister`; with `--disable-pynccl` two groups of
`torch.distributed`. A call of `torch.distributed` raises when a peer has gone (`PeerGone`);
one of NCCL may (`NcclNotices`), but has no timeout in this code. A rank fails before its first
call, between two calls, in one that the others have not all made (`FailsAt`), or behind one
that was met (`FailsBehind`: a module that does not build, `ncclMemAlloc`, out of memory).
Memory is in GiB, with `Drift` for what other users of a device take or give while the weights
are loaded. Command lines and environments are the members of `Configs`; `Resolved` is what
`parse_args` makes of them.

### WeightLoader

`models/weight.py` with the sizes and the uses of `layers/` and `models/`. A tensor is a
name (layer, expert, projection) and its value is the sequence of the rows, or columns, the
code cuts, each of them `<<tensor, index>>`: what a rank holds in the end says which row of which
tensor stands where, which is all that sharding decides. `Read` handles one tensor, in any
order; `LoadStateDict` is the check of shapes and names in `layers/base.py`. The
operators behind the steps are what the layers do with their parts (`qkv.split`, the groups of
the attention backend, `vocab_range`, the permutation after `all_gather`), and the properties
say that it fits what was loaded. Biases and the norms of single heads take the same way
as the weights beside them and have no names of their own.

A checkpoint is any set of tensors with these names (`Tensors`), so that it may lack some, or have an
expert too many; one that has `qkv_proj` already, as the loader would pass it on unmerged,
is outside the model. The sizes of a tensor are those of the configuration it comes
with. `Every` marks the parameter in which `MoELayer` keeps all experts; a dense MLP beside
experts has a name of its own and stays unpacked. `Pack` counts experts, as the code
does, and then takes those from 0 on: as many with other numbers are a `KeyError`, here
`failed`.

## 4. Runs

| Run | Checks | Instance |
|---|---|---|
| `cm_contract` | `LockedHandlesStay`, `RefCountsExact`, `CountersExact`, `OneOwnerPerPage`, `NoPageLost` | 2 requests (symmetric), 3 pages, 2 slots, keys of up to two blocks with a shared prefix and a sibling |
| `sched_normal` | idle integrity, length of answers, liveness, the plan of each pass (contract and service, which theorems state for both loops, in `sched_overlap`) | 3 requests, 3 pages of 2 tokens, 3 slots, budget 3, one abort; graphs for 1 and 3 requests |
| `sched_overlap` | contract, service (which allows one late reply), liveness, `EvictionSuffices`, `TokensReachInputs` | 3 requests, 5 pages of 1 token, 2 slots, budget 2, no abort |
| `frontend` | `RepliesInOrder`, `AbortIsFinal`, `DecodeStateGoes`, `EveryClientAnswered` | 2 clients, 2 replies, a tokenizer beside the detokenizer, overlap |
| `tp_sync` | `SameMessages`, `GroupKeepsUp` | 2 ranks, 4 messages of any kind, overlap |
| `benchmark` | `NothingOutlivesRun`, `CleanupTruth`, `ReadyMeansWarm`, `CursorBehind`, `ProcessingHasBatch`, `RunEnds` | 2 nodes, an instance of another run, one kind of fault (as often as it likes), 2 signals, 2 pages, 2 rows, 2 clicks |
| `lambda_ops` | `OneInstance`, `TurnOffLeavesNothing`, `TurnOnWorks`, `BootstrapEnds` | 2 requests to turn on, 1 turn-off by hand, every watchdog, 1 fault |
| `startup` | `CollectivesMatch`, `RanksAgree`, `ServesWhole`, `LinksPair`, `StartEnds` | 2 ranks, 5 configurations (pages given or computed, graphs disabled, given or computed, 0 or 1 tokenizers, with and without PyNCCL, shell mode, a refusal), three sizes of free memory, 1 failure |
| `weight_loader` | `ShardsMeet` (`HeadsMeet`, `NeuronsMeet`, `EachOnce`), `VocabularyInPlace` (`TokensFound`, `LogitsInPlace`), `LoadsWhole` | 5 models (split and replicated KV heads, tied, two layers, two experts) on 1, 2 and 4 ranks, 9 that must be refused, tensors in every order |
| `abort_in_flight`, `stale_row`, `idle_shutdown` | the divergences of section 6 | the smallest instance that shows each |

Bounds and why they are enough. In both scheduler runs requests wait for memory or
for a slot, and reuse the slot, the pages and the cached prefixes of those before
them: there is room for one long request but not for two, so that admission
refuses, eviction runs in the middle of a batch, and a locked prefix competes
with a waiting request. The budget is smaller than the longest prompt, so prefill
is chunked and batches mix the rest of a chunk with a new request. The prompts
share a beginning and differ after it, which splits nodes; equal prompts occur
because different requests may send the same message. With pages of two tokens
prompts, chunks and answers end within pages; one request asks for no output and
one is too long. Graphs for one and three requests make a batch of two be padded,
and `TableAlign = 4` makes the width of a row differ from the longest length.
`MaxAborts` is the bound on aborts, `UserMsgs` the set of prompts, and `Req` bounds how
many requests arrive. Symmetry is used only in `cm_contract`, where requests are
interchangeable.

The eviction in `EvictForBatch` stops when enough pages are free, as in the code
(it works in whole nodes, so it may free more).

In `Frontend` two clients are enough for messages of different requests to
overtake each other, and two replies for one to arrive while another is being
read, and for one to arrive late. In `TPSync` four messages let rank 0 be woken by
one, drain more and be woken again while the follower is still on the first;
followers do not talk to each other, so one of them stands for all.

In the benchmark two nodes give a launch, a deployment, a tunnel and a warm-up that
fail after another one succeeded. Faults are bounded by their kind: a behaviour
has one kind of fault, at any places, because the property lists which kinds it
exempts and two kinds together would be exempted by either. Two signals allow one in the
clean-up of the other. Two pages and two rows make two batches overlap in the row
they start from. In `LambdaOps` two requests to turn on race with each other and with one
turn-off, and each leaves a watchdog that may turn off at any later moment;
`Inst` and `Proc` are as large as these bounds can need.

In `Startup` free memory of 79, 81 and 82 GiB lies on both sides of the 80 GiB at which graph
sizes change, with ranks that differ by less and by more than the 2 GiB allowed; the memory
ratio and the drift make the pages of a rank fit, not fit, or be too few. One failure hits each
process at each point the model has: before, in and behind each call, while a rank loads or
opens its sockets, and before and while a worker loads. Two ranks suffice for two to differ; four of
`WeightLoader` are needed for two ranks to share a replicated head without all sharing
one.

Fairness. In `Scheduler`, `FairSpec` assumes `WF_vars(Loop)` only: `run_forever` takes its next
step whenever it is not blocked in `receive_msg`. No fairness is assumed of
clients: requests and aborts may come or not. `Idle` is the blocked loop; it
stutters, so the system may rest there for ever, and TLC's deadlock check stays on.

In `Frontend` each process and each task that can go on does so (an event loop and
a thread that are not stopped), and the scheduler answers what it has taken
(`Respond`), which is what `EveryRequestServed` shows of it; clients come and go
as they like, and the web server need not cancel. In `TPSync` each rank runs on
when it can, and the tokenizer need not send.

In `LambdaOps` each thread that turns on goes on: every wait in it has a timeout.
Nothing is assumed of users, watchdogs, turn-offs or the network. In the benchmark the
launcher's thread, its deployment threads and the API's answers go on, and a
request to a node ends within its timeout; signals, clicks and failures need not
come. In `Startup` the launcher, the ranks and the workers go on whenever they can; failures
need not come, and a rank in a call waits for its peers. Nothing is assumed of NCCL: that it
notices a peer that is gone (`NcclNotices`) is possible and never certain, since no code here
sets a timeout or polls for errors. The
deadlock check is off in the runs of these three and of `WeightLoader`, where
everything may have ended, and on in all others.

With overlap, `MaxAborts` is 0 in the passing runs because an abort breaks the
contract (section 6); without overlap one abort can hit a request that waits, is
partly prefilled, decodes, or is gone.

## 5. What is proved

Each theorem holds for every value of its module's constants: any number of pages, slots,
requests, ranks, nodes, dashboard pages, clicks, signals and faults, any prompts, budget and
eviction order, any sizes of a model and any checkpoint. They assume only what the modules
assume, which is the type of each constant and, in `Scheduler`, what section 3 says of
its assumptions.

| Theorem | Module | Statement |
|---|---|---|
| `TypeCorrect` | `MemoryProofs` | `CMSpec => []CMTypeOK` |
| `LocksHold` | `MemoryProofs` | `CMSpec => []LockedHandlesStay` |
| `CountsAreUsers` | `MemoryProofs` | `CMSpec => []RefCountsExact` |
| `SlotsApart` | `MemoryProofs` | `CMSpec => []OneUserPerSlot` |
| `PagesOwnedOnce` | `MemoryProofs` | `CMSpec => []OneOwnerPerPage` |
| `PagesNeverLost` | `MemoryProofs` | `CMSpec => []NoPageLost` |
| `CountersCorrect` | `MemoryProofs` | `CMSpec => []CountersExact` |
| `SchedulerKeepsContract` | `MemoryProofs` | `NoAbortInFlight /\ Spec => CMSpec` |
| `SchedulerTypes` | `MemoryProofs` | `NoAbortInFlight /\ Spec => []TypeOK` |
| `SchedulerPages` | `MemoryProofs` | `NoAbortInFlight /\ Spec => [](OneOwnerPerPage /\ NoPageLost /\ OneUserPerSlot)` |
| `SchedulerServes` | `SchedulerServiceProofs` | `NoAbortInFlight /\ Spec => ServiceSpec` |
| `SchedulerIdle` | `SchedulerServiceProofs` | `NoAbortInFlight /\ Spec => []IdleIntegrity` |
| `AnswersComplete` | `SchedulerServiceProofs` | `~Overlap /\ Spec => []AnswerLength` |
| `AdmissionSuffices` | `SchedulerServiceProofs` | `NoAbortInFlight /\ Spec => []EvictionSuffices`, which speaks of pages of one token |
| `TokensArrive` | `SchedulerServiceProofs` | `NoAbortInFlight /\ Spec => []TokensReachInputs` |
| `PlannedWrites` | `SchedulerServiceProofs` | `RowHoldsPages /\ NoAbortInFlight /\ Spec => []PlanWrites` |
| `PlannedReads` | `SchedulerServiceProofs` | `RowHoldsPages /\ NoAbortInFlight /\ Spec => []PlanReads` |
| `FrontendTypes` | `FrontendProofs` | `Spec => []TypeOK` |
| `RepliesArrive` | `FrontendProofs` | `Spec => []RepliesInOrder` |
| `DecodeStateForgotten` | `FrontendProofs` | `Spec => []DecodeStateGoes` |
| `AbortsArriveLast` | `FrontendProofs` | `NumTokenizers <= 1 /\ Spec => []AbortIsFinal` |
| `RentedOnce` | `LambdaOpsProofs` | `Spec => []OneInstance` |
| `OffMeansNothingLeft` | `LambdaOpsProofs` | `Spec => TurnOffLeavesNothing` |
| `OpsTypes` | `LambdaOpsProofs` | `Spec => []TypeOK` |
| `TurningOnWorks` | `LambdaOpsProofs` | `Spec => TurnOnWorks` |
| `RanksTypeOK` | `TPSyncProofs` | `Spec => []TypeOK` |
| `RanksHandleTheSame` | `TPSyncProofs` | `Spec => []SameMessages` |
| `BenchmarkTypes` | `BenchmarkProofs` | `Spec => []TypeOK` |
| `BenchmarkReadyMeansWarm` | `BenchmarkProofs` | `Spec => []ReadyMeansWarm` |
| `BenchmarkCursorBehind` | `BenchmarkProofs` | `Spec => []CursorBehind` |
| `BenchmarkProcessingHasBatch` | `BenchmarkProofs` | `Spec => []ProcessingHasBatch` |
| `BenchmarkCleanupTruth` | `BenchmarkProofs` | `Spec => []CleanupTruth` |
| `BenchmarkNothingOutlivesRun` | `BenchmarkProofs` | `Spec => []NothingOutlivesRun` |
| `StartupTypes` | `StartupProofs` | `Spec => []TypeOK` |
| `CallsPair` | `StartupProofs` | `Spec => []CollectivesMatch` |
| `PagesAgree` | `StartupProofs` | `Spec => []RanksAgree` |
| `ServesComplete` | `StartupProofs` | `Spec => []ServesWhole` |
| `LinksConnect` | `StartupProofs` | `Spec => []LinksPair` |
| `ShardsMeetAlways` | `WeightLoaderProofs` | `Spec => []ShardsMeet` |
| `VocabularyStays` | `WeightLoaderProofs` | `Spec => []VocabularyInPlace` |
| `CheckpointWhole` | `WeightLoaderProofs` | `Spec => []LoadsWhole` |

**Memory.** The first four follow from the inductive invariant `LockInv`, the conjunction of
the four invariants. None is inductive alone: that eviction spares a locked node
needs the exact count (a locked handle at or below a block makes its count
positive); the exact count after an unlock needs the old handle to be cached
still; both need the tree to be prefix closed and its nodes to be where keys
branch, since otherwise removing a leaf would remove blocks above a branch. The
two about pages follow from `PageInv == LockInv /\ OneOwnerPerPage /\ NoPageLost`: the
pages that `cache_req` frees are exactly those between the old handle and the
match (duplicates) and, at the end, those behind the key (leftover), and the
pages in between are exactly those the tree takes over.

`CountersCorrect` rests on the same invariants. `evictable_size` and `protected_size` are two
numbers that the code adds to and subtracts from while it walks a path (`lock_handle`),
inserts and removes; the invariant `Counted` says that they are the cardinalities
of the unreferenced and of the referenced cached blocks. Each operation moves one
path from one side to the other, and `PathCounted` counts it: the blocks between two
handles are as many as the lengths differ. That the moved blocks were on the other side
before is again the exact reference count.

The proofs have one lemma per tree operation (what splitting, locking, inserting
and removing do to well-formedness and counts), one per action of the contract,
and a temporal step for each theorem.

**The scheduler.** `NoAbortInFlight` is `~Overlap \/ MaxAborts = 0`: without overlap any
number of aborts may arrive, with overlap none. The hypothesis is needed, not
convenient: with both, an abort frees a request twice (finding `abort_in_flight`), and the
contract is broken.

`SchedulerKeepsContract` is the refinement of `CMSpec`: every step of the loop is one
operation of the contract, under the guard the contract asks for, or leaves memory alone.
That needs the inductive invariant `LoopInv`, seven parts:

| Part | What it says |
|---|---|
| `LoopType` | the types of queues, lengths and batches |
| `StageBatches` | which of `batch`, `due` and `inFlight` exist at each stage, and that no request is twice in one |
| `FirstPending` | during admission, which part of `pending_list` has been passed and where the chunks made are |
| `Queues` | a request waits, is chunked or runs, at most one of these, and once |
| `Owners` | who holds resources: what runs, is chunked or was admitted in this pass; what has been freed is in no queue |
| `Limits` | lengths: cached, device and maximum length are ordered, and the row has room |
| `Rows` | the row of a request has pages for what is cached, and for what a batch computes once `allocate_paged` passed it |

One lemma per action shows that it keeps them. With the contract the theorems about memory
carry over (`SchedulerPages`), for the loop that runs and not only for the idea of it.

`SchedulerServes` refines `Service` and needs to know how often a request was answered.
`ServeInv` counts forward passes: the passes of a request (`Progress`) are its replies sent,
plus one if the batch in flight has it, plus one if the batch whose results are due has
it and they have not been sent; the device length is the prompt's and the passes.
From this the last reply is the one that says finished, and no second one follows
without overlap. `Serving` says that whatever is held is on its way through a queue or a
batch, so that when the loop is idle nothing is: `SchedulerIdle` then follows
from `CountersCorrect` and `PagesNeverLost`. `AnswersComplete` is the count at the reply that
says finished; with overlap it is false (section 6, finished comes one token early).

`AdmissionSuffices` says that admission keeps its promise. `AdmitInv` gives each request let in a
claim: the pages it may still be given until its last token (`Claim`), and says that free
and evictable pages cover all claims together (`Promise`). Pages only move between free,
evictable and claimed: eviction and a result keep the sum, the end of a request gives back
more than it claimed. Where a request comes in, the second check of
`_try_allocate_one` is what keeps the promise, since `reserved_size` covers the claims of what
runs and of what the batch has let in already (`Reserve`). Requests with chunks computed are
not in `reserved_size` until their next chunk is added. Nothing is lost by that, because they are
at the front of the pending list (`ChunkedFirst`): before a new request is looked at,
all of them are in the batch. The theorem is about pages of one token, the default
(`engine/config.py:25`, `server/args.py:183`). For larger ones it is false: admission counts tokens, allocation takes whole
pages per request, and short requests can fail the assertion of `scheduler/cache.py:110` (section 6).

`TokensArrive` holds for pages of any size. It follows from `LengthInv`: a decoding request has
one token more than its row, a prefill batch stays within prompts, which are shorter
than a row of the page table, and a request with a chunk in flight has no token yet. So the
column that the batch in flight writes is the last input of a decode step, or the last
column of the row, which no prompt reaches.

`PlannedWrites` and `PlannedReads` are about the arrays that `Planned` computes from a batch, for any number of
requests, any mixture of hits and chunks, and any padding. A batch's tokens and its sequence
boundaries are two concatenations of the same requests: `FlattenFacts` says that token `j` of
request `i` stands at the sum of the lengths before `i` plus `j`, which is what
`CumSum` computes (`CumSumOffsets`), and that nothing else stands there. A request in a planned batch
has been given pages for its device length (`ReadyRequest`, from `LoopInv`); what it is about to write lies behind its
cached length, so behind the locked prefix, in a page that is private to it, and
private pages are apart (`SlotsApart` and `PagesOwnedOnce` in one invariant). Padding writes into the page kept for it.
In a decode batch each request has one query, so that the short cut of boundaries
`0, 1, 2, ...` is right. The hypothesis `RowHoldsPages` is needed: the last page of the longest request must
fit a row, and with pages of 64 entries it may not (section 6). `AlignedRows` shows that it holds
whenever the page size divides the alignment of rows (`TableAlign`), as for 1, 2, 4, 8, 16 and 32.

**The way of a request.** The theorems hold for any number of clients and tokenizer workers.
`Types` and `ArrivalInv` carry them all: what a task has picked up fits where it stands, a
message is about a request that has arrived, replies go to the detokenizer, and of a request
that has not arrived nothing is known anywhere. `RepliesInOrder` speaks of four stations (the
detokenizer's queue, the API server's, `ack_map`, what the task has picked up), each of which
carries (`Carries`) the replies from one number to the next. A step moves one reply from the end of one
station to the beginning of the next, which five lemmas about `Carries` say once for all
stations. `OrderInv` adds that `ack_map` and the task keep nothing but their own client's
replies, without which `PassOn` could hand over somebody else's. `DecodeInv` says that the reply that
ends a request is the last one to it in the queue, so that the `del` of `decode_map` is not undone.
`AbortInv` puts the requests on their way in order: of two of the same client in the queues of the
tokenizer and the scheduler, the tokenize request goes first and the abort second
(`Precedes`). The hypothesis of `AbortsArriveLast` is needed: with two tokenizers each
of the two requests may go through another worker, and TLC finds the abort in front.

**Ranks.** `RanksHandleTheSame` quantifies over an unseen history: `Inv == TypeOK /\ \E h :
Agree(h)`, where `h` is the sequence of batches of messages rank 0 has announced. Each
rank has handled a prefix of it, the channels hold the rest, and the work left of a
rank is a function of what it handled (`WorkAfter`, in closed form). `Unblock` and
`BroadcastCount` make `h` longer; the other steps keep it.

**The benchmark.** `TypeInv`, `DashboardInv` and `RunInv` are inductive, one on top of the
other. The last relates the step of the launcher, a clean-up under way and the ones a
signal may have put before it, what is registered, and what the account rents:
each instance of the run that is alive is registered, or being launched by a step that
will register it or terminate it, or one of the gaps `NothingOutlivesRun` names.

**Rented instances.** `RentedOnce` follows from `OpsInv`. One instance is no inductive claim: a launch adds
one whatever there is. It is one because the thread that rents has seen the account
empty (`RentsIntoNothing`), because no other thread can have rented since
(`OneBootstrap`: the chat server lets one bootstrap run, and its state says so until
the thread has ended), and because nothing else rents. Turn-offs, watchdogs and the
provider only take instances away, which disturbs none of this.

`OffMeansNothingLeft` needs `HelperInv` beside `OpsInv`. As long as no two scripts
have been at work at the same time, the pid files name every tunnel and every watchdog
that runs (`FilesNameHelpers`), so the signal to the recorded process leaves none; a
shutdown past a step has that step's work behind it (`ShutdownOrder`); and nobody else
starts a helper or rents meanwhile (`WorksAlone`). That the instance a shutdown found
is the only one is `OpsInv` again. Processes that end or break keep all of it, since a
pid file may name a process that is gone.

`OpsTypes` says that the sets of instances and processes, whose sizes `LambdaOps`
computes from its bounds, are never too small. Its invariant `Budget` counts: a
request to turn on pays for one instance and two processes, each lost answer to a
launch for one more instance, and a thread that has still to rent or to start
something has not spent its share yet. It needs `OneBootstrap` too, since two threads
could spend the same share.

`TurningOnWorks` proves `TurnOnWorks` for any history before the turn-on, with `WorkInv`. For every
history, addresses are those of instances that were rented (`AddressInv`), and a pid
file that names a running process names one of its kind (`RecordInv`). As long as there was no fault and
no overlap, `Course` holds too: whoever has the local port leads to a server (`TunnelsServe`), a
tunnel that could not take the port leads to an instance that is gone (`DeadEnds`), and each step of a
bootstrap finds what it needs (`OnCourse`): who is about to open a tunnel has a server at the
other end, or the port is taken by a tunnel to one. `FilesNameHelpers`, `WorksAlone` and
the one instance of `OpsInv` carry it. The attempt to prove an earlier form of the property, which
excused only an address taken from the environment, failed, and showed a second way to wait in
vain: a bootstrap that waited for such an address leaves its tunnel behind and recorded, and the next
one reuses it although the address it was given is right. It takes three requests to turn on, one more
than the run had reached in which it was checked; the property now names both.

**Start-up.** The theorems hold for any number of ranks and workers, any set of command lines, any
memory the devices may have, and any failures. `CallsPair` and `PagesAgree` follow from
`CallInv`: each call of a rank is the one that its earlier calls and the *reduced* memory ask for
(`Planned`), and the reduced memory is the same on all ranks that know it (`Known`). The circle
between the two, equal calls give equal memory and equal memory gives equal calls, is
broken by the number of calls: what a rank knows rests on calls that all ranks have
made. It is this argument that a rank deciding by its own memory would break, and that the sizes
to capture are part of it is why `SameSizes` is needed. How many calls set the group up depends on the
options, but not on the rank, which is what `SetupKnown` and `SetupCallKeeps` carry through. `ServesComplete` needs
`MeetInv` and `AckInv`. The barrier is the last call of every rank, so that who leaves it
knows that all have come, and none of them is dead; the acknowledgements put and taken are as many as the
workers and primary ranks in their loops (`Acked`), so that as many as the launcher
waits for can only be all of them. `SocketInv` then says which sockets are open when that is so.

**Weights.** The three theorems hold for any sizes, any number of ranks, any set of tensors and any order in
which they are read. The order is what `LoadInv` takes out: what `merge_buf`, `expert_buf` and the
state dict hold is what the checkpoint says, of tensors it has (`HeldParts`, `HeldExperts`,
`HeldState`), and a tensor that was read is in one of the three (`Kept`). The first makes a
parameter that was loaded `Value`, the same slices put together the same way whatever came
first; the second makes a state dict that fits whole, since a tensor the model
lacks a place for would have been left over. Neither holds alone: that a merged tensor names only
tensors of the checkpoint rests on the parts that were held, and that nothing is lost when a
stack of experts is yielded rests on the numbers in it being those of the model.

What is left is arithmetic. `ShardsMeetAlways` needs that the KV head a rank takes is the one its
query heads belong to, both where a rank has several and where several ranks share one
(`OwnGroup`), and that slices of equal length hold each row once (`CutsCover`). `VocabularyStays` needs
no assumption on the vocabulary: the last shard of one the ranks do not divide is shorter
than the layer asks for, so that such a model does not load at all (`VocabParts`).

The proof corrected the model in two places. Packed experts and a dense MLP of the same layer had
one key, so that a checkpoint with both could be loaded with either; in the code their names
differ. And experts with other numbers than the model's were packed with whatever stood there,
where the code raises. Both checkpoints are now instances of the run.

**Induction.** The library's induction theorems take an operator as a parameter, which no
installed prover instantiates. Where the proofs need induction over naturals
(`MemoryProofs`: sums over a finite set of requests; `SchedulerServiceProofs`: sums and
concatenations over the requests of a batch; `StartupProofs`: equal calls, one after the
other), `NatLeast` takes its place: a set of
naturals that is not empty has a least element, which follows from the library's
theorem that the order of naturals is well founded, and the least counterexample
contradicts the step.

Only model-checked: `TypeOK` of `Service` as such; liveness everywhere. Liveness and
ENABLED are out of the prover's reach, as are recursive definitions; no module under proof
declares a RECURSIVE operator.

## 6. Where code and words disagree

Each of these has a run whose counterexample shows it.

* `abort_in_flight` - `scheduler/scheduler.py:158` says that a second free under
  overlap is skipped. It is skipped only for requests in `finished_reqs`. A
  decoding request aborted while its last batch is in flight is freed by the abort
  and again by the results: its slot goes on the free list twice.
* `stale_row` - `scheduler/cache.py:57` says that `[0, req.cached_len)` of the row
  is valid. When another request cached the same blocks first, `cache_req` frees
  this request's copies but leaves them in its row; it goes on reading pages
  that may be handed to another request. Two equal prompts in one batch suffice.
* `idle_shutdown` - `scripts/lambda_idle_watchdog.py:2` says that the watchdog terminates
  an instance that is idle for too long. `shutdown()` stops the process in
  `watchdog.pid` first, which is the watchdog itself: it ends by its own SIGTERM before
  the terminate call. The instance stays rented and nobody watches it.

Outside what a property states here, but worth a reader's attention:

* `scheduler/cache.py:110` asserts that eviction freed enough space. Admission
  (`scheduler/prefill.py:50`) counts tokens, and allocation takes whole pages for each
  request: with two pages of two tokens free, three prompts of one token that ask for no output
  pass admission as three tokens of four and need three pages, so that the assertion fails.
  With pages of four tokens three that ask for one token each do the same (six of eight).
  `EvictionSuffices` speaks of pages of one token, the default, only, and TLC finds
  both cases when that restriction is dropped.
* With overlap `finished` is true one token early, since `can_decode` already counts
  the batch launched since. The API server stops there, while the benchmark client
  (`benchmark/client.py:22`) counts on `output_length` tokens. (The offline engine
  collects the late reply, so its output is complete.)
* `server/args.py:154` calls an option the maximum batch size for capture;
  `_determine_cuda_graph_bs` captures 1, 2 and 4 whatever it is, also in shell mode, which
  sets it to 1.
* The acknowledgements are there to "guarantee all subprocesses are ready"
  (`server/launch.py:56`). A follower passes the barrier once it has called `connect`; until
  its subscription has reached the publisher, messages are dropped for it, and the number
  broadcast for them makes it wait for ever.
* With overlap a request that was answered to its end is usually in the batch
  launched since, and that batch answers it again (`AnswerLate` of `Service`);
  `src/tests/core/test_scheduler.py:69` stops at the reply that says finished.
* The entries of a uid stay in `ack_map` and `event_map` after its last reply; a
  late reply that does not say finished, or an abort, leaves an entry in `decode_map`.
* A client whose prompt is too long waits for ever.
* The launcher waits for its acknowledgements without a timeout and does not watch its
  processes: if one dies before its own, the server neither serves nor ends (`StartEnds`
  exempts it). Ranks whose peer dies during a capture, or while the communicator and its
  window are made, may stay in NCCL for ever (`Hung`).
* `num_pages` follows the rank with the most free memory, so that the cache may not fit on
  another one, which then ends with out of memory (`engine/engine.py:149`).
* A vocabulary that the ranks cannot split evenly is refused when the weights are loaded:
  the layer allocates `div_ceil` rows on each rank, the loader cuts fewer for the last.
* With two or more tokenizers an abort can reach the scheduler before its request,
  which then runs to its end for nobody.
* Rank 0 announces a number of messages and publishes them on a socket that drops
  what a slow subscriber has no room for (a thousand messages, as `utils/mp.py` leaves
  the default). After a drop a follower would wait for ever or take a later message in
  its place. `TPSync` assumes that so many are not on their way.

* With overlap a finished request is still in the batch in flight, its slot is the
  first to be handed out again, and that batch's token is written into the row on
  the engine's stream while the prompt of the next user is copied into it on the
  scheduler's. Nothing orders the two. Without its exemption (`w.req \in held`)
  `TokensReachInputs` fails with a prompt long enough to reach the cell.
* The width of rows is aligned to 32 entries; with pages of 64 (TRT-LLM) and a
  maximum length that is no multiple of 64, the last page does not fit a row.
* The older copy of the benchmark hands bytes to a process opened in text mode
  (`experiments/lambda_multi_model_benchmark/scripts/benchmark/deploy.py:165`), so that
  its deployment always fails (`DeployInOrder`).
* The benchmark's clean-up "always" terminates (`scripts/benchmark/cleanup.py:24`), but not what it has
  not been told of: a launch whose answer is lost, a partial launch whose own
  clean-up fails, or a signal between a creation and its registration.
  `NothingOutlivesRun` names these gaps, and the two at the end of a run: a second signal
  while the handler cleans up, and one after the handlers were restored.
* After a launch whose answer is lost `lambda_deploy.py` rents the next instance type.
* Turning on again after an instance was lost opens the tunnel to the address the
  chat server's environment has, not to the one just deployed; and the tunnel left by that attempt
  is taken for a working one by the next (`TurnOnWorks`).
* `touch_activity` is called when a request arrives, so that a request that streams for longer than
  the idle timeout counts as idle.
* The run of a benchmark stays `ready` in the database when a signal ends the
  launcher; and of two batches at a time the first to end makes the run `ready`
  for both.

`AnswerLength` records that a request for no tokens gets one.

## 7. Not modelled

* Eviction order (timestamps): every order is allowed instead.
* Device memory contents, the order of work on the streams, sampling parameters other than `max_tokens` and `ignore_eos`.
* The naive prefix cache and the offline engine: see section 2.
* The fused mixture of experts: kernels that run one after the other on a stream.
* Arithmetic of layers and kernels, number formats, and the layers that are not parallel.
* Middleware and routes of the API server, and how the server shuts down.
* `lambda_turn_on.sh` beyond the state it leaves, a restart of the chat server, two
  turn-offs by hand at the same time, and what the chat server proxies.
* Measurements of the benchmark, and the tables that hold only these (tokens of a
  stream, samples of status and GPU, errors).
* The text that the detokenizer computes, and the shell and status endpoints of
  the API server.
* `ExitMsg` and shutdown of a single scheduler: the loop ends with the process.
  (`TPSync` has them for a group.)
* Ranks that sample different tokens from the same logits: `TPSync` takes what a
  scheduler decides as a function of its messages.
* Messages in a batch are handled one by one, as `_process_one_msg` does.
