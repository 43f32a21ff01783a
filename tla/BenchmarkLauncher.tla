------------------------- MODULE BenchmarkLauncher -------------------------
(***************************************************************************)
(* One run of the multi-model benchmark: the launcher process, the cloud   *)
(* account it rents instances from, and the database it shares with the    *)
(* dashboard.                                                              *)
(*                                                                         *)
(*   scripts/lambda_benchmark.py     run_benchmark, step by step           *)
(*   scripts/benchmark/instance.py   launching the nodes                   *)
(*   scripts/benchmark/cleanup.py    BenchmarkCleanupManager               *)
(*   experiments/.../scripts         the older copy, which launches the    *)
(*                                   nodes with one request                *)
(*                                                                         *)
(* Python's exceptions are followed to where they are caught: SystemExit   *)
(* (a failed API call, a handled signal) passes the clause that records a  *)
(* failed run, the others do not.  A signal's handler runs on the          *)
(* launcher's thread at any step of it.                                    *)
(***************************************************************************)
EXTENDS Integers, FiniteSets, FiniteSetsExt

CONSTANTS N,           \* nodes of a run (NODE_COUNT)
          Foreign,     \* instances of other benchmark runs in the account
          MaxFaults,   \* bound: kinds of faults in one behaviour
          MaxSignals   \* bound: SIGINT/SIGTERM delivered to the launcher

ASSUME LauncherAssumption ==
  N \in Nat \ {0} /\ Foreign \subseteq Int \ Nat /\ MaxFaults \in Nat /\ MaxSignals \in Nat

Own  == 1..N             \* the k-th instance the run launches
Node == 1..N             \* node k runs on instance k, through tunnel k
Kinds == {"refused", "response", "node", "terminate", "partial", "unregistered", "again", "killed", "dashboard"}

VARIABLES
  variant,   \* "individual" launches, or "together" as in the older copy
  pc,        \* the step run_benchmark is at
  exc,       \* the exception being raised
  ids,       \* instance_ids of launch_benchmark_cluster
  requested, \* instances of the launch request the API has not answered
  alive,     \* instances the API lists as active or booting
  tunnels,   \* ssh processes that run
  mgr,       \* the cleanup manager: instance_ids, tunnel_pids, _cleaned
  job,       \* the call of cleanup() in progress
  deployed,  \* how the deployment of each node ended
  runState,  \* RunState.status as saved
  db,        \* what the database says of the run
  holders,   \* who has the database open for writing
  undone,    \* history: instances whose terminate call failed
  faults,    \* history: the kinds of faults that happened
  signals    \* history: signals delivered

account  == <<ids, requested, alive, undone>>
local    == <<tunnels, mgr, job>>
progress == <<deployed, runState, db, holders>>
launcherVars == <<variant, pc, exc, account, local, progress, faults, signals>>

RunStatus == {"absent", "deploying", "warming", "ready", "processing", "failed", "dry_run"}

\* One run in the tables: its status, the nodes recorded and warmed up, the clean-up's
\* outcome, the dashboard's cursor, and <<node, row>> for the rows of benchmark_requests.
\* The files of earlier runs are moved away before a run opens its database.
EmptyDb ==
  [run |-> "absent", nodes |-> {}, warm |-> {}, cleanup |-> "none", cursor |-> 0, sent |-> {}]

\* What BenchmarkStore writes.  Inserting replaces the row of the same key; an UPDATE of
\* benchmark_runs changes nothing until the run is inserted; a node's warm-up time is
\* kept when the node is recorded without one.
WithRun(d, s)        == [d EXCEPT !.run = s]
WithStatus(d, s)     == IF d.run = "absent" THEN d ELSE [d EXCEPT !.run = s]
WithNode(d, n, warm) == [d EXCEPT !.nodes = @ \cup {n}, !.warm = IF warm THEN @ \cup {n} ELSE @]
WithCleanup(d, ok)   == [d EXCEPT !.cleanup = IF ok THEN "ok" ELSE "failed"]

\* Connections for writing, by process: several of one process, or of one alone.
Opens(who)  == holders' = holders \cup {who}
Closes(who) == holders' = holders \ {who}
NoJob == [at |-> "none", todo |-> {}, by |-> "exit", ok |-> FALSE]

LauncherInit ==
  /\ variant \in {"individual", "together"}
  /\ pc = "start" /\ exc = "none"
  /\ ids = {} /\ requested = {} /\ undone = {}
  /\ alive \in SUBSET Foreign
  /\ tunnels = {} /\ job = NoJob
  /\ mgr = [ids |-> {}, pids |-> {}, cleaned |-> FALSE]
  /\ deployed = [n \in Node |-> "no"]
  /\ runState = "none" /\ db = EmptyDb /\ holders = {}
  /\ faults = {} /\ signals = 0

Fault(kind) == faults' = faults \cup {kind} /\ Cardinality(faults') <= MaxFaults
Fine == UNCHANGED faults

At(step) == pc = step /\ job.at = "none"
Goto(step) == pc' = step /\ UNCHANGED exc

\* Where an exception goes from outside the launch: `except Exception`, or past it.
Handler(e) == IF e = "Exception" THEN "record" ELSE "exit"

HandlerOnly(e) ==   \* mutant: the launch catches Exception only
  /\ exc' = e /\ requested' = {}
  /\ pc' = IF pc \in {"launch", "posting"} /\ e = "Exception" THEN "partial"
           ELSE IF pc = "exit" THEN "ended" ELSE IF pc = "record" THEN "exit" ELSE Handler(e)

\* Raising e at the current step; the launch first terminates what it has.
Raise(e) ==
  /\ exc' = e /\ requested' = {}
  /\ pc' = CASE pc \in {"launch", "posting"} -> "partial"
             [] pc = "exit" -> "ended"
             [] pc = "record" -> "exit"
             [] OTHER -> Handler(e)

----------------------------------------------------------------------------
(* run_benchmark.                                                          *)

Start ==
  /\ pc = "start" /\ Goto("select")
  /\ runState' = "created" /\ Opens("launcher")
  /\ UNCHANGED <<variant, account, local, deployed, db, faults, signals>>

DryRun ==
  /\ pc = "start" /\ Goto("ended")
  /\ runState' = "dry_run" /\ db' = WithStatus(WithRun(db, "dry_run"), "dry_run")
  /\ UNCHANGED <<variant, account, local, deployed, holders, faults, signals>>

SelectCapacity ==
  /\ At("select")
  /\ \/ Goto("launch") /\ Fine /\ UNCHANGED requested
     \/ Raise("Exception") /\ Fault("refused")
     \/ Raise("SystemExit") /\ Fault("refused")
  /\ UNCHANGED <<variant, ids, alive, undone, local, progress, signals>>

LaunchRequest ==
  /\ At("launch")
  /\ IF Cardinality(ids) = N
       THEN Goto("launched") /\ UNCHANGED requested
       ELSE /\ Goto("posting")
            /\ requested' = IF variant = "together" THEN Own ELSE {Cardinality(ids) + 1}
  /\ UNCHANGED <<variant, ids, alive, undone, local, progress, faults, signals>>

\* The API creates what a request asks for, or fewer.
CloudLaunches ==
  /\ requested /= {}
  /\ \E S \in SUBSET requested \ {{}} :
       /\ alive' = alive \cup S
       /\ IF S = requested THEN Fine ELSE Fault("refused")
  /\ requested' = {}
  /\ UNCHANGED <<variant, pc, exc, ids, undone, local, progress, signals>>

LaunchAnswered ==
  LET got  == (alive \cap Own) \ ids
      want == IF variant = "together" THEN N ELSE 1
  IN
  /\ At("posting") /\ requested = {}
  /\ \/ /\ ids' = ids \cup got /\ Fine
        /\ IF Cardinality(got) = want THEN Goto("launch") /\ UNCHANGED requested
                                      ELSE Raise("Exception")
     \/ Fault("response") /\ Raise("SystemExit") /\ UNCHANGED ids
  /\ UNCHANGED <<variant, alive, undone, local, progress, signals>>

LaunchRefused ==
  /\ At("posting") /\ requested /= {}
  /\ Fault("refused") /\ Raise("SystemExit")
  /\ UNCHANGED <<variant, ids, alive, undone, local, progress, signals>>

\* The launch failed: terminate what was launched, in order, until a call fails.
TerminatePartial ==
  /\ At("partial")
  /\ IF ids = {}
       THEN /\ pc' = Handler(exc) /\ Fine
            /\ UNCHANGED <<exc, ids, alive>>
       ELSE \/ /\ alive' = alive \ {Min(ids)} /\ ids' = ids \ {Min(ids)} /\ Fine
               /\ UNCHANGED <<pc, exc>>
            \/ /\ Fault("partial") /\ pc' = "exit" /\ exc' = "SystemExit"
               /\ UNCHANGED <<ids, alive>>
  /\ UNCHANGED <<variant, requested, undone, local, progress, signals>>

RegisterInstances ==
  /\ At("launched") /\ Goto("ips")
  /\ mgr' = [mgr EXCEPT !.ids = ids]
  /\ runState' = "launched"
  /\ UNCHANGED <<variant, account, tunnels, job, deployed, db, holders, faults, signals>>

\* Addresses, archive and dataset; then the run is inserted.
Prepare ==
  /\ At("ips")
  /\ \/ /\ Goto("deploy") /\ Fine
        /\ db' = WithRun(db, "deploying")
        /\ deployed' = [n \in Node |-> IF variant = "individual" THEN "running" ELSE "no"]
        /\ UNCHANGED requested
     \/ Raise("Exception") /\ Fault("node") /\ UNCHANGED <<deployed, db>>
     \/ Raise("SystemExit") /\ Fault("refused") /\ UNCHANGED <<deployed, db>>
  /\ UNCHANGED <<variant, ids, alive, undone, local, runState, holders, signals>>

\* A worker thread of the deployment ends, whatever the launcher's thread does.
DeployNode(n) ==
  /\ pc /= "ended" /\ deployed[n] = "running"
  /\ \/ n \in alive /\ deployed' = [deployed EXCEPT ![n] = "ok"] /\ Fine
     \/ /\ deployed' = [deployed EXCEPT ![n] = "failed"]
        /\ IF n \in alive THEN Fault("node") ELSE Fine
  /\ UNCHANGED <<variant, pc, exc, account, local, runState, db, holders, signals>>

\* Leaving the executor's block waits for its threads, also with an exception.
ThreadsDone == \A n \in Node : deployed[n] /= "running"

DeployEnds ==
  /\ At("deploy") /\ variant = "individual" /\ ThreadsDone
  /\ IF \E n \in Node : deployed[n] = "failed"
       THEN Raise("Exception")
       ELSE Goto("tunnels") /\ UNCHANGED requested
  /\ UNCHANGED <<variant, ids, alive, undone, local, progress, faults, signals>>

\* The older copy hands bytes to a process opened in text mode: AttributeError.
DeployInOrder ==
  /\ At("deploy") /\ variant = "together" /\ Raise("Exception")
  /\ UNCHANGED <<variant, ids, alive, undone, local, progress, faults, signals>>

StartTunnel ==
  /\ At("tunnels")
  /\ IF tunnels = Node
       THEN /\ Goto("warm") /\ runState' = "warming" /\ db' = WithStatus(db, "warming")
            /\ UNCHANGED tunnels
       ELSE /\ Goto("opened") /\ tunnels' = tunnels \cup {Min(Node \ tunnels)}
            /\ UNCHANGED <<runState, db>>
  /\ UNCHANGED <<variant, account, mgr, job, deployed, holders, faults, signals>>

RegisterTunnel ==
  /\ At("opened") /\ Goto("tunnels")
  /\ mgr' = [mgr EXCEPT !.pids = tunnels]
  /\ db' = WithNode(db, Max(tunnels), FALSE)
  /\ UNCHANGED <<variant, account, tunnels, job, deployed, runState, holders, faults, signals>>

\* One node answers /health and /v1/models and has had its warm-up prompts.
WarmNode ==
  /\ At("warm") /\ db.warm /= Node
  /\ \/ /\ db' = WithNode(db, Min(Node \ db.warm), TRUE) /\ Fine
        /\ UNCHANGED <<pc, exc, requested>>
     \/ Raise("Exception") /\ Fault("node") /\ UNCHANGED db
  /\ UNCHANGED <<variant, ids, alive, undone, local, deployed, runState, holders, signals>>

SkipUnwarmed ==   \* mutant: a node that does not warm up is skipped
  /\ At("warm") /\ Goto("wait")
  /\ db' = WithStatus(db, "ready") /\ runState' = "ready"
  /\ Closes("launcher")
  /\ UNCHANGED <<variant, account, local, deployed, faults, signals>>

\* The run is handed to the dashboard: the database is closed first.
HandOver ==
  /\ At("warm") /\ db.warm = Node /\ Goto("wait")
  /\ db' = WithStatus(db, "ready") /\ runState' = "ready"
  /\ Closes("launcher")
  /\ UNCHANGED <<variant, account, local, deployed, faults, signals>>

\* Whether the launcher can write: its own connection, or nobody else's.
CanWrite == holders \subseteq {"launcher"}

RecordFailedRun ==
  /\ At("record") /\ ThreadsDone /\ Goto("exit")
  /\ IF CanWrite THEN db' = WithStatus(db, "failed") /\ runState' = "failed"
                 ELSE UNCHANGED <<db, runState>>
  /\ UNCHANGED <<variant, account, local, deployed, holders, faults, signals>>

----------------------------------------------------------------------------
(* BenchmarkCleanupManager.                                                *)

StartCleanup(by) ==
  /\ mgr' = [mgr EXCEPT !.cleaned = TRUE]
  /\ job' = [at |-> "tunnels", todo |-> mgr.ids, by |-> by, ok |-> FALSE]

\* __exit__: the handlers are restored first; cleanup runs once.
ExitManager ==
  /\ At("exit") /\ ThreadsDone
  /\ IF mgr.cleaned
       THEN Goto("ended") /\ Closes("launcher") /\ UNCHANGED <<mgr, job>>
       ELSE StartCleanup("exit") /\ UNCHANGED <<pc, exc, holders>>
  /\ UNCHANGED <<variant, account, tunnels, deployed, runState, db, faults, signals>>

StopTunnels ==
  /\ job.at = "tunnels"
  /\ tunnels' = tunnels \ mgr.pids
  /\ mgr' = [mgr EXCEPT !.pids = {}]
  /\ job' = [job EXCEPT !.at = "terminate"]
  /\ UNCHANGED <<variant, pc, exc, account, progress, faults, signals>>

\* A failed call does not keep the others from being terminated.
TerminateInstance ==
  /\ job.at = "terminate"
  /\ IF job.todo = {}
       THEN job' = [job EXCEPT !.at = "verify"] /\ Fine /\ UNCHANGED <<alive, undone>>
       ELSE LET i == Min(job.todo) IN
            /\ job' = [job EXCEPT !.todo = @ \ {i}]
            /\ \/ alive' = alive \ {i} /\ Fine /\ UNCHANGED undone
               \/ undone' = undone \cup {i} /\ Fault("terminate") /\ UNCHANGED alive
  /\ UNCHANGED <<variant, pc, exc, ids, requested, tunnels, mgr, progress, signals>>

ReturnFromHandler(e) ==   \* mutant: the handler cleans up and returns
  /\ job' = NoJob
  /\ IF job.by = "signal"
       THEN UNCHANGED <<pc, exc, requested, holders>>
       ELSE /\ pc' = "ended" /\ exc' = e /\ UNCHANGED requested
            /\ Closes("launcher")

\* cleanup() is left with exception e: into __exit__'s caller, or into the step
\* the signal interrupted.
LeaveCleanup(e) ==
  /\ job' = NoJob
  /\ IF job.by = "signal"
       THEN Raise(e) /\ UNCHANGED holders
       ELSE /\ pc' = "ended" /\ exc' = e /\ UNCHANGED requested
            /\ Closes("launcher")

RegisteredOnly == alive \cap mgr.ids   \* mutant: only the tracked ids are looked for

\* Instances known by their id or by the prefix of their name.
Remaining == alive \cap (mgr.ids \cup Own \cup Foreign)

\* Polling until nothing remains or 120 s have passed.
Verify ==
  /\ job.at = "verify"
  /\ \/ /\ job' = [job EXCEPT !.at = "report", !.ok = Remaining = {}] /\ Fine
        /\ UNCHANGED <<pc, exc, requested, holders>>
     \/ Fault("refused") /\ LeaveCleanup("SystemExit")
  /\ UNCHANGED <<variant, ids, alive, undone, tunnels, mgr, deployed, runState, db, signals>>

RecordCleanup ==
  /\ job.at = "report"
  /\ db' = IF CanWrite THEN WithCleanup(db, job.ok) ELSE db
  /\ LeaveCleanup(IF job.ok THEN "SystemExit" ELSE "Exception")
  /\ UNCHANGED <<variant, ids, alive, undone, tunnels, mgr, deployed, runState, faults, signals>>

\* What exists and is not yet known to the manager when a signal arrives is lost to it.
LosesTrack == pc \in {"posting", "partial", "launched", "opened"}

\* _handle_signal, first or repeated, outside of a running cleanup.
Signal ==
  /\ job.at = "none" /\ pc \notin {"start", "exit", "ended"}
  /\ signals < MaxSignals /\ signals' = signals + 1
  /\ IF LosesTrack THEN Fault("unregistered") ELSE Fine
  /\ IF mgr.cleaned
       THEN Raise("SystemExit") /\ UNCHANGED <<mgr, job>>
       ELSE StartCleanup("signal") /\ UNCHANGED <<pc, exc, requested>>
  /\ UNCHANGED <<variant, ids, alive, undone, tunnels, progress>>

\* A signal in the handler's cleanup: SystemExit, which a terminate call swallows.
SignalAgain ==
  /\ job.at /= "none" /\ job.by = "signal"
  /\ signals < MaxSignals /\ signals' = signals + 1 /\ Fault("again")
  /\ IF job.at = "terminate" /\ job.todo /= {}
       THEN /\ job' = [job EXCEPT !.todo = @ \ {Min(@)}]
            /\ undone' = undone \cup {Min(job.todo)}
            /\ alive' \in {alive, alive \ {Min(job.todo)}}
            /\ UNCHANGED <<pc, exc, requested, holders>>
       ELSE LeaveCleanup("SystemExit") /\ UNCHANGED <<alive, undone>>
  /\ UNCHANGED <<variant, ids, tunnels, mgr, deployed, runState, db>>

\* After __exit__ has restored the handlers a signal ends the process.
SignalInExit ==
  /\ pc = "exit" /\ job.by = "exit" /\ signals < MaxSignals
  /\ signals' = signals + 1 /\ Fault("killed")
  /\ pc' = "ended" /\ job' = NoJob /\ Closes("launcher")
  /\ UNCHANGED <<variant, exc, account, tunnels, mgr, deployed, runState, db>>
=============================================================================
