------------------------- MODULE BenchmarkDashboard -------------------------
(***************************************************************************)
(* The dashboard of a benchmark run, and the run as a whole.               *)
(*                                                                         *)
(*   scripts/benchmark/dashboard.py   the pages (Streamlit sessions)       *)
(*   scripts/benchmark/control.py     a batch of prompts for every node    *)
(*   scripts/benchmark/runner.py      the requests of a batch              *)
(*   BenchmarkLauncher                the launcher and the database        *)
(*                                                                         *)
(* The sessions are threads of one process: several may write at a time,   *)
(* none can open the database to read while another writes, and none can   *)
(* open it at all while the launcher holds it.                             *)
(***************************************************************************)
EXTENDS BenchmarkLauncher

CONSTANTS Session,      \* open pages of the dashboard
          Rows,         \* rows of the dataset
          MaxCount,     \* bound: prompts asked for with one click
          MaxClicks,    \* bound: clicks in one behaviour
          Concurrency   \* requests in flight at one node, per batch

ASSUME DashboardAssumption ==
  Rows \in Nat \ {0} /\ MaxCount \in Nat \ {0} /\ MaxClicks \in Nat /\ Concurrency \in Nat \ {0}

VARIABLES
  ses,     \* what each session does: its step, the requests left, the next cursor
  clicks   \* history: clicks so far

vars == <<launcherVars, ses, clicks>>

Row      == 0..(Rows - 1)
NoCursor == -1

\* The schema, as far as it matters here.
Tables ==
  [run : RunStatus, nodes : SUBSET Node, warm : SUBSET Node, cleanup : {"none", "ok", "failed"},
   cursor : 0..Rows, sent : SUBSET (Node \X Row)]

WithRequest(d, n, r) == [d EXCEPT !.sent = @ \cup {<<n, r>>}]
WithCursor(d, c)     == [d EXCEPT !.cursor = c]

Off      == [at |-> "off", left |-> {}, next |-> NoCursor]

Init == LauncherInit /\ ses = [s \in Session |-> Off] /\ clicks = 0

Dash(s, step) == ses' = [ses EXCEPT ![s].at = step]
OnlyDb == UNCHANGED <<variant, pc, exc, account, local, deployed, runState, signals>>
Click  == clicks < MaxClicks /\ clicks' = clicks + 1

\* A page is drawn from a read-only connection; its buttons work when it reads "ready".
ReadRun(s) ==
  /\ ses[s].at = "off" /\ clicks < MaxClicks /\ holders = {} /\ db.run = "ready"
  /\ Dash(s, "seen")
  /\ UNCHANGED launcherVars

NextRows(cursor, count)   == {r \in Row : cursor <= r /\ r < cursor + count}
NextCursor(cursor, count) == Min({Rows, cursor + count})
RandomRows(count)         == kSubset(Min({count, Rows}), Row)

SaveFirst(s) ==   \* mutant: the cursor moves when the batch is chosen
  /\ ses[s].at = "seen" /\ Click
  /\ \E count \in 1..MaxCount :
       /\ NextRows(db.cursor, count) /= {}
       /\ ses' = [ses EXCEPT ![s] = [at |-> "open", left |-> db.nodes \X NextRows(db.cursor, count),
                                     next |-> NextCursor(db.cursor, count)]]
       /\ db' = WithCursor(db, NextCursor(db.cursor, count))
  /\ Opens(s) /\ OnlyDb /\ Fine

\* A click: the rows after the cursor, or rows at random (which keep the cursor).
ChooseRows(s) ==
  /\ ses[s].at = "seen" /\ Click
  /\ \E count \in 1..MaxCount :
       \/ /\ NextRows(db.cursor, count) /= {}
          /\ ses' = [ses EXCEPT ![s] =
                       [at |-> "open", left |-> db.nodes \X NextRows(db.cursor, count),
                        next |-> NextCursor(db.cursor, count)]]
          /\ Opens(s)
       \/ /\ NextRows(db.cursor, count) = {}
          /\ ses' = [ses EXCEPT ![s] = Off] /\ UNCHANGED holders
       \/ \E rows \in RandomRows(count) :
            /\ ses' = [ses EXCEPT ![s] =
                         [at |-> "open", left |-> db.nodes \X rows, next |-> NoCursor]]
            /\ Opens(s)
  /\ UNCHANGED db /\ OnlyDb /\ Fine

StartBatch(s) ==
  /\ ses[s].at = "open" /\ Dash(s, "sending")
  /\ db' = WithStatus(db, "processing")
  /\ OnlyDb /\ Fine /\ UNCHANGED holders

\* A semaphore admits the rows of a node in order.
InFlight(s, n, r) ==
  /\ <<n, r>> \in ses[s].left
  /\ Cardinality({q \in Row : q < r /\ <<n, q>> \in ses[s].left}) < Concurrency

\* A request ends, with tokens or an error; either is a row of benchmark_requests.
RequestEnds(s, n, r) ==
  /\ ses[s].at = "sending" /\ InFlight(s, n, r)
  /\ ses' = [ses EXCEPT ![s].left = @ \ {<<n, r>>}]
  /\ db' = WithRequest(db, n, r)
  /\ OnlyDb /\ Fine /\ UNCHANGED holders

\* The batch is done: the status first, the cursor after it.
BatchEnds(s) ==
  /\ ses[s].at = "sending" /\ ses[s].left = {} /\ Dash(s, "done")
  /\ db' = WithStatus(db, "ready")
  /\ OnlyDb /\ Fine /\ UNCHANGED holders

SaveCursor(s) ==
  /\ ses[s].at = "done" /\ ses' = [ses EXCEPT ![s] = Off]
  /\ db' = IF ses[s].next = NoCursor THEN db ELSE WithCursor(db, ses[s].next)
  /\ Closes(s)
  /\ OnlyDb /\ Fine

NoFinally(s) ==   \* mutant: the status is only restored after a batch that ends well
  /\ ses[s].at = "sending" /\ ses' = [ses EXCEPT ![s] = Off]
  /\ Closes(s) /\ UNCHANGED db
  /\ OnlyDb /\ Fine

\* The page is closed or a write fails: the others are cancelled, the cursor stays.
BatchFails(s) ==
  /\ ses[s].at = "sending" /\ ses' = [ses EXCEPT ![s] = Off]
  /\ db' = WithStatus(db, "ready")
  /\ Closes(s)
  /\ OnlyDb /\ Fine

DashboardDies ==
  /\ \E s \in Session : ses[s].at /= "off"
  /\ ses' = [s \in Session |-> Off]
  /\ holders' = holders \ Session
  /\ Fault("dashboard") /\ UNCHANGED db /\ OnlyDb

----------------------------------------------------------------------------
MainThread ==
  \/ Start \/ DryRun \/ SelectCapacity \/ LaunchRequest \/ LaunchAnswered \/ LaunchRefused
  \/ TerminatePartial \/ RegisterInstances \/ Prepare \/ DeployEnds \/ DeployInOrder
  \/ StartTunnel \/ RegisterTunnel \/ WarmNode \/ HandOver \/ RecordFailedRun
  \/ ExitManager \/ StopTunnels \/ TerminateInstance \/ Verify \/ RecordCleanup

Interrupt == Signal \/ SignalAgain \/ SignalInExit

Launcher == MainThread \/ CloudLaunches \/ Interrupt \/ \E n \in Node : DeployNode(n)

SessionStep(s) ==
  \/ StartBatch(s) \/ BatchEnds(s) \/ SaveCursor(s)
  \/ \E n \in Node, r \in Row : RequestEnds(s, n, r)

Dashboard ==
  \/ \E s \in Session : ChooseRows(s)
  \/ /\ \/ \E s \in Session : ReadRun(s) \/ SessionStep(s) \/ BatchFails(s)
        \/ DashboardDies
     /\ UNCHANGED clicks

Next == (Launcher /\ UNCHANGED <<ses, clicks>>) \/ Dashboard

Spec == Init /\ [][Next]_vars

(* The launcher's thread, its workers and the API's answers go on; a       *)
(* request to a node ends within its timeout.  Signals, clicks, failures   *)
(* and crashes need not come.                                              *)
FairSpec ==
  /\ Spec
  /\ WF_vars(MainThread /\ UNCHANGED <<ses, clicks>>)
  /\ WF_vars(CloudLaunches /\ UNCHANGED <<ses, clicks>>)
  /\ \A n \in Node : WF_vars(DeployNode(n) /\ UNCHANGED <<ses, clicks>>)
  /\ \A s \in Session : WF_vars(SessionStep(s) /\ UNCHANGED clicks)

----------------------------------------------------------------------------
TypeOK ==
  /\ variant \in {"individual", "together"}
  /\ pc \in {"start", "select", "launch", "posting", "partial", "launched", "ips", "deploy",
             "tunnels", "opened", "warm", "wait", "record", "exit", "ended"}
  /\ exc \in {"none", "Exception", "SystemExit"}
  /\ ids \subseteq Own /\ requested \subseteq Own /\ undone \subseteq Own
  /\ alive \subseteq Own \cup Foreign /\ tunnels \subseteq Node
  /\ mgr \in [ids : SUBSET Own, pids : SUBSET Node, cleaned : BOOLEAN]
  /\ job \in [at : {"none", "tunnels", "terminate", "verify", "report"}, todo : SUBSET Own,
              by : {"signal", "exit"}, ok : BOOLEAN]
  /\ deployed \in [Node -> {"no", "running", "ok", "failed"}]
  /\ runState \in {"none", "created", "launched", "warming", "ready", "failed", "dry_run"}
  /\ db \in Tables
  /\ holders \subseteq Session \cup {"launcher"}
  /\ faults \subseteq Kinds /\ signals \in 0..MaxSignals
  /\ clicks \in 0..MaxClicks
  /\ \A s \in Session : /\ ses[s].at \in {"off", "seen", "open", "sending", "done"}
                        /\ ses[s].left \subseteq Node \X Row
                        /\ ses[s].next \in {NoCursor} \cup 0..Rows

(* The class promises to "always terminate on exit".  Nothing the run      *)
(* rented or started outlives it, whatever step fails or is interrupted,   *)
(* except instances whose own terminate call failed - unless an answer to  *)
(* a launch is lost, the clean-up of a partial launch fails, a signal      *)
(* comes between a creation and its registration or during the clean-up.   *)
NothingOutlivesRun ==
  pc = "ended" /\ faults \cap {"response", "partial", "unregistered", "again", "killed"} = {}
    => /\ alive \cap Own \subseteq undone
       /\ requested = {} /\ tunnels = {}

(* A clean-up recorded as successful is the truth, also for instances the  *)
(* manager was never told of: none of the run's instances is alive then or *)
(* later, unless a signal interrupted a launch that was still under way.   *)
CleanupTruth ==
  db.cleanup = "ok" /\ "unregistered" \notin faults => alive \cap Own = {} /\ requested = {}

(* The dashboard's buttons work only when every node has been warmed up.   *)
ReadyMeansWarm == db.run \in {"ready", "processing"} => db.warm = Node

(* Two pages, failed batches and a dying dashboard never move the cursor   *)
(* past a row that some node has no result for.                            *)
CursorBehind == \A r \in Row, n \in Node : r < db.cursor => <<n, r>> \in db.sent

(* "processing", which disables the buttons of every page, is there only   *)
(* while a batch is sent - or for good, when the dashboard died with one.  *)
ProcessingHasBatch ==
  db.run = "processing" => "dashboard" \in faults \/ \E s \in Session : ses[s].at = "sending"

(* A signalled launcher ends.                                              *)
RunEnds == signals > 0 ~> pc = "ended"

=============================================================================
