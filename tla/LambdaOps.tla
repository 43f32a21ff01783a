----------------------------- MODULE LambdaOps -----------------------------
(***************************************************************************)
(* Operating one rented GPU server from a workstation: the chat page turns *)
(* it on and off, an ssh tunnel leads to it, a watchdog turns it off when  *)
(* nobody has used it for long.                                            *)
(*                                                                         *)
(*   scripts/serve_lambda_chat.py       the chat server, its bootstrap job *)
(*   scripts/lambda_local_bootstrap.py  turn on: deploy, tunnel, watchdog  *)
(*   scripts/lambda_deploy.py           rent or reuse an instance          *)
(*   scripts/lambda_turn_off.py         turn off                           *)
(*   scripts/lambda_idle_watchdog.py    turn off when idle                 *)
(*   scripts/lambda_common.py           API calls, pid files, .env         *)
(*                                                                         *)
(* The scripts are processes that share only files (pid files, .env), the  *)
(* local port and the account, and take no lock but the chat server's.     *)
(* Instances are numbered as they are rented; a number is also its address *)
(* (0 where none is known).                                                *)
(***************************************************************************)
EXTENDS Naturals, FiniteSets

CONSTANTS MaxTurnOns,   \* bound: requests to turn on
          MaxTurnOffs,  \* bound: turn-offs asked for by hand
          MaxFaults     \* bound: faults in one behaviour

ASSUME OpsAssumption ==
  {MaxTurnOns, MaxTurnOffs, MaxFaults} \subseteq Nat

Inst == 1..(1 + MaxTurnOns + MaxFaults)    \* instances, in the order they are rented
Proc == 1..(2 + 2 * MaxTurnOns)    \* tunnels and watchdogs, in the order of their start
Turn == 1..MaxTurnOns
Off  == 0                 \* the turn-off started by hand; a watchdog's is named by its process
Doer == {Off} \cup Proc
Address == {0} \cup Inst

VARIABLES
  rented,    \* instances rented so far
  alive,     \* instances the account lists as active or booting
  serving,   \* instances whose container answers
  envIp,     \* LAMBDA_PUBLIC_IP in the .env file
  chatIp,    \* and in the environment of the chat server
  started,   \* tunnels and watchdogs started so far
  proc,      \* each of them
  pidfile,   \* tunnel.pid, watchdog.pid; 0 where the file is missing
  bootState, \* _bootstrap_state of the chat server
  boot,      \* the thread of each request to turn on
  clicks,    \* requests to turn on so far
  job,       \* shutdown() in each process that runs it
  offs,      \* turn-offs started by hand so far
  faults,    \* faults so far
  lost,      \* history: the answer to a launch was lost
  overlap    \* history: two of the scripts were at work at the same time

account == <<rented, alive, serving>>
files   == <<envIp, pidfile>>
procs   == <<started, proc>>
turnOn  == <<bootState, boot, clicks>>
turnOff == <<job, offs>>
trouble == <<faults, lost>>
vars == <<account, files, chatIp, procs, turnOn, turnOff, trouble, overlap>>

NoProc == [kind |-> "none", up |-> FALSE, ip |-> 0, bound |-> FALSE]
NoBoot == [at |-> "none", ip |-> 0, inst |-> 0]
NoJob  == [at |-> "none", ip |-> 0, inst |-> 0, keep |-> FALSE, file |-> FALSE]

\* Nothing rented; or turned off some time ago, when .env still names the last
\* instance; or turned on by lambda_turn_on.sh, which starts the chat server.
Init ==
  /\ \/ rented = 0 /\ alive = {}
     \/ rented = 1 /\ alive \in {{}, {1}}
  /\ serving = alive /\ envIp = rented /\ chatIp = rented
  /\ IF alive = {} THEN started = 0 /\ pidfile = [tunnel |-> 0, watchdog |-> 0]
                   ELSE started = 2 /\ pidfile = [tunnel |-> 1, watchdog |-> 2]
  /\ proc = [p \in Proc |->
       IF p > started THEN NoProc
       ELSE IF p = 1 THEN [kind |-> "tunnel", up |-> TRUE, ip |-> 1, bound |-> TRUE]
       ELSE [kind |-> "watchdog", up |-> TRUE, ip |-> 1, bound |-> FALSE]]
  /\ bootState = "idle" /\ boot = [t \in Turn |-> NoBoot] /\ clicks = 0
  /\ job = [d \in Doer |-> NoJob] /\ offs = 0
  /\ faults = 0 /\ lost = FALSE /\ overlap = FALSE

Fault == faults < MaxFaults /\ faults' = faults + 1 /\ UNCHANGED lost
LostAnswer == faults < MaxFaults /\ faults' = faults + 1 /\ lost' = TRUE
Fine == UNCHANGED trouble

\* What a request to the local port meets: the server; a tunnel whose far end does
\* not answer, which raises an error no caller catches; or nothing.
Bound == {p \in Proc : proc[p].up /\ proc[p].bound}
Port == IF \E p \in Bound : proc[p].ip \in serving THEN "ok"
        ELSE IF Bound # {} THEN "raises" ELSE "refused"

\* The first of list_reusable_instances: any, as the account orders them.
FirstListed == IF alive = {} THEN {0} ELSE alive

\* find_instance_for_ip, or else the first the account lists.
FoundByIp(ip) == IF ip \in alive THEN {ip} ELSE {0}     \* mutant: no second choice
Found(ip) == IF ip \in alive THEN {ip} ELSE FirstListed

EndInstance(i) == alive' = alive \ {i} /\ serving' = serving \ {i}

\* setdefault: what the environment already has, the file does not change.
WithEnvFile(ip) == IF ip # 0 THEN ip ELSE envIp

Booting == {t \in Turn : boot[t].at # "none"}
AtWork  == {d \in Doer : /\ job[d].at \notin {"none", "done", "failed"}
                        /\ IF d = Off THEN TRUE ELSE proc[d].up}
Begins  == overlap' = (overlap \/ Booting \cup AtWork # {})

----------------------------------------------------------------------------
(* Turning on: the chat server's thread and the bootstrap process it runs. *)

Step(t, at) == boot[t].at = at
Goto(t, at) == boot' = [boot EXCEPT ![t].at = at] /\ UNCHANGED <<bootState, clicks>>
EndsUnlessError(t, status) ==     \* mutant: a failed bootstrap ends the thread only
  /\ boot' = [boot EXCEPT ![t] = NoBoot]
  /\ bootState' = (IF status = "error" THEN bootState ELSE status) /\ UNCHANGED clicks
Ends(t, status) ==
  /\ boot' = [boot EXCEPT ![t] = NoBoot]
  /\ bootState' = status /\ UNCHANGED clicks

AnyMayRun == TRUE                 \* mutant: the state is not looked at
MayRun == bootState # "running"

\* A request to turn on starts a thread, which ends unless it may run.
TurnOn ==
  /\ clicks < MaxTurnOns /\ clicks' = clicks + 1
  /\ IF MayRun
     THEN /\ boot' = [boot EXCEPT ![clicks'].at = "lookup"]
          /\ bootState' = "running" /\ Begins
     ELSE UNCHANGED <<boot, bootState, overlap>>
  /\ UNCHANGED <<account, files, chatIp, procs, turnOff, trouble>>

LookUp(t) ==
  /\ Step(t, "lookup")
  /\ \/ \E i \in Found(WithEnvFile(chatIp)) :
          boot' = [boot EXCEPT ![t] = [at |-> "health", ip |-> WithEnvFile(chatIp), inst |-> i]]
        /\ UNCHANGED <<bootState, clicks>> /\ Fine
     \/ Ends(t, "error") /\ Fault
  /\ UNCHANGED <<account, files, chatIp, procs, turnOff, overlap>>

CheckHealth(t) ==
  /\ Step(t, "health")
  /\ CASE Port = "ok" -> Goto(t, "tunnel")
       [] Port = "refused" -> Goto(t, IF boot[t].inst = 0 THEN "rent" ELSE "reuse")
       [] OTHER -> Ends(t, "error")
  /\ UNCHANGED <<account, files, chatIp, procs, turnOff, trouble, overlap>>

\* lambda_deploy.py --reuse takes the first instance the account lists.
Reuse(t) ==
  /\ Step(t, "reuse")
  /\ \/ \E i \in FirstListed \ {0} : boot' = [boot EXCEPT ![t].inst = i, ![t].at = "setenv"]
        /\ UNCHANGED <<bootState, clicks>> /\ Fine
     \/ 0 \in FirstListed /\ Ends(t, "error") /\ Fine
     \/ Ends(t, "error") /\ Fault
  /\ UNCHANGED <<account, files, chatIp, procs, turnOff, overlap>>

\* One instance type after the other; after the answer to a launch was lost, the next.
Rent(t) ==
  /\ Step(t, "rent")
  /\ \/ /\ rented' = rented + 1 /\ alive' = alive \cup {rented'}
        /\ \/ boot' = [boot EXCEPT ![t].inst = rented', ![t].at = "setenv"]
              /\ UNCHANGED <<bootState, clicks>> /\ Fine
           \/ Goto(t, "rent") /\ LostAnswer
           \/ Ends(t, "error") /\ LostAnswer
     \/ Ends(t, "error") /\ Fault /\ UNCHANGED <<rented, alive>>
  /\ UNCHANGED <<serving, files, chatIp, procs, turnOff, overlap>>

\* wait_for_ip: an instance that goes before it has its address is waited for in vain.
HasIp(i) == i \in alive

SetEnv(t) ==
  /\ Step(t, "setenv")
  /\ \/ HasIp(boot[t].inst) /\ envIp' = boot[t].inst /\ Goto(t, "serve") /\ Fine
     \/ ~HasIp(boot[t].inst) /\ Ends(t, "error") /\ Fine /\ UNCHANGED envIp
     \/ Ends(t, "error") /\ Fault /\ UNCHANGED envIp
  /\ UNCHANGED <<account, pidfile, chatIp, procs, turnOff, overlap>>

Reachable(i) == i \in alive

\* wait_for_ssh, remote_deploy; then .env is read again.
Serve(t) ==
  /\ Step(t, "serve")
  /\ \/ /\ Reachable(boot[t].inst) /\ serving' = serving \cup {boot[t].inst} /\ Fine
        /\ boot' = [boot EXCEPT ![t].ip = WithEnvFile(@), ![t].at = "tunnel"]
        /\ UNCHANGED <<bootState, clicks>>
     \/ ~Reachable(boot[t].inst) /\ Ends(t, "error") /\ Fine /\ UNCHANGED serving
     \/ Ends(t, "error") /\ Fault /\ UNCHANGED serving
  /\ UNCHANGED <<rented, alive, files, chatIp, procs, turnOff, overlap>>

Recorded(p) == p # 0              \* mutant: a pid file is taken for a process
Runs(p) == p # 0 /\ proc[p].up

\* Starts a process unless the one in the pid file runs; ssh binds the port if it
\* reaches the instance and no other tunnel has it.
Ensure(kind, ip) ==
  IF Runs(pidfile[kind]) THEN UNCHANGED <<procs, pidfile>>
  ELSE /\ started' = started + 1
       /\ proc' = [proc EXCEPT ![started'] =
            [kind |-> kind, up |-> TRUE, ip |-> ip,
             bound |-> kind = "tunnel" /\ ip \in alive /\ Bound = {}]]
       /\ pidfile' = [pidfile EXCEPT ![kind] = started']

EnsureTunnel(t) ==
  /\ Step(t, "tunnel") /\ Ensure("tunnel", boot[t].ip) /\ Goto(t, "wait")
  /\ UNCHANGED <<account, envIp, chatIp, turnOff, trouble, overlap>>

\* The server answers, or a request raises, or 120 seconds pass.
WaitForHealth(t) ==
  /\ Step(t, "wait")
  /\ IF Port = "ok" THEN Goto(t, "watch") ELSE Ends(t, "error")
  /\ UNCHANGED <<account, files, chatIp, procs, turnOff, trouble, overlap>>

EnsureWatchdog(t) ==
  /\ Step(t, "watch") /\ Ensure("watchdog", boot[t].ip) /\ Ends(t, "ready")
  /\ UNCHANGED <<account, envIp, chatIp, turnOff, trouble, overlap>>

\* The page polls the chat server, which reads .env.
Status ==
  /\ chatIp' = WithEnvFile(chatIp) /\ chatIp' # chatIp
  /\ UNCHANGED <<account, files, procs, turnOn, turnOff, trouble, overlap>>

BootStep(t) ==
  \/ LookUp(t) \/ CheckHealth(t) \/ Reuse(t) \/ Rent(t) \/ SetEnv(t)
  \/ Serve(t) \/ EnsureTunnel(t) \/ WaitForHealth(t) \/ EnsureWatchdog(t)

----------------------------------------------------------------------------
(* Turning off: shutdown(), in a process of its own or in the watchdog.    *)

\* From the page the process inherits the chat server's environment; from a shell it
\* has the address in .env, and may be told to keep the instance.
FromPage  == {<<WithEnvFile(chatIp), FALSE>>}
FromShell == {envIp} \X BOOLEAN

TurnOff ==
  /\ offs < MaxTurnOffs /\ offs' = offs + 1 /\ Off \notin AtWork /\ Begins
  /\ \E how \in FromPage \cup FromShell :
       job' = [job EXCEPT ![Off] = [NoJob EXCEPT !.at = "tunnel", !.ip = how[1], !.keep = how[2]]]
  /\ UNCHANGED <<account, files, chatIp, procs, turnOn, trouble>>

\* The watchdog asks for /status, and either finds the server idle for too long or
\* dies of the error its request raises.  Time is left out: any answer may say idle,
\* since the server counts from its start.
MayBeIdle == Port = "ok"
Watches(p) == proc[p].kind = "watchdog" /\ proc[p].up /\ p \notin AtWork

WatchdogExpires(p) ==
  /\ Watches(p) /\ MayBeIdle /\ Begins
  /\ job' = [job EXCEPT ![p] = [NoJob EXCEPT !.at = "tunnel", !.ip = WithEnvFile(proc[p].ip)]]
  /\ UNCHANGED <<account, files, chatIp, procs, turnOn, offs, trouble>>

WatchdogFails(p) ==
  /\ Watches(p) /\ Port = "raises"
  /\ proc' = [proc EXCEPT ![p] = NoProc]
  /\ UNCHANGED <<account, files, chatIp, started, turnOn, turnOff, trouble, overlap>>

\* A watchdog's process ends with its shutdown.
JobGoto(d, at) == job' = [job EXCEPT ![d].at = at] /\ UNCHANGED <<offs, proc>>
JobEnds(d, at) ==
  /\ job' = [job EXCEPT ![d] = [NoJob EXCEPT !.at = at]] /\ UNCHANGED offs
  /\ proc' = IF d = Off THEN proc ELSE [proc EXCEPT ![d] = NoProc]

\* stop_pid: the signal, then the file.  A watchdog that stops the watchdog is gone
\* before it removes the file.
Signal(d, kind) ==
  /\ d \in AtWork /\ job[d].at = kind /\ ~job[d].file
  /\ proc' = [p \in Proc |-> IF p = pidfile[kind] THEN NoProc ELSE proc[p]]
  /\ job' = [job EXCEPT ![d].file = TRUE] /\ UNCHANGED offs
  /\ UNCHANGED <<account, files, chatIp, started, turnOn, trouble, overlap>>

After == [tunnel |-> "watchdog", watchdog |-> "admin"]
Unlink(d, kind) ==
  /\ d \in AtWork /\ job[d].at = kind /\ job[d].file
  /\ pidfile' = [pidfile EXCEPT ![kind] = 0]
  /\ job' = [job EXCEPT ![d].at = After[kind], ![d].file = FALSE] /\ UNCHANGED offs
  /\ UNCHANGED <<account, envIp, chatIp, procs, turnOn, trouble, overlap>>

\* The container restarts after /admin/shutdown.  The tunnel just stopped may have
\* the port for a moment longer, and then the request can raise.
AskServer(d) ==
  /\ d \in AtWork /\ job[d].at = "admin"
  /\ \/ JobGoto(d, "lookup")
     \/ JobEnds(d, "failed")
  /\ UNCHANGED <<account, files, chatIp, started, turnOn, trouble, overlap>>

JobLookUp(d) ==
  /\ d \in AtWork /\ job[d].at = "lookup"
  /\ \/ \E i \in Found(job[d].ip) \ {0} :
          job' = [job EXCEPT ![d].inst = i,
                             ![d].at = IF job[d].ip = 0 THEN "terminate" ELSE "docker"]
        /\ UNCHANGED <<offs, proc>> /\ Fine
     \/ 0 \in Found(job[d].ip) /\ JobEnds(d, "done") /\ Fine
     \/ JobEnds(d, "failed") /\ Fault
  /\ UNCHANGED <<account, files, chatIp, started, turnOn, overlap>>

DockerDown(d) ==
  /\ d \in AtWork /\ job[d].at = "docker" /\ JobGoto(d, "terminate")
  /\ serving' = serving \ {job[d].ip}
  /\ UNCHANGED <<rented, alive, files, chatIp, started, turnOn, trouble, overlap>>

Terminate(d) ==
  /\ d \in AtWork /\ job[d].at = "terminate"
  /\ \/ JobEnds(d, "done") /\ Fine
        /\ IF job[d].keep THEN UNCHANGED <<alive, serving>>
           ELSE EndInstance(job[d].inst)
     \/ ~job[d].keep /\ JobEnds(d, "failed") /\ Fault /\ UNCHANGED <<alive, serving>>
  /\ UNCHANGED <<rented, files, chatIp, started, turnOn, overlap>>

OffStep(d) ==
  \/ \E kind \in {"tunnel", "watchdog"} : Signal(d, kind) \/ Unlink(d, kind)
  \/ AskServer(d) \/ JobLookUp(d) \/ DockerDown(d) \/ Terminate(d)

----------------------------------------------------------------------------
(* What happens outside the scripts.                                       *)

InstanceGoes(i) ==     \* ended in the console or by the provider
  /\ i \in alive /\ Fault /\ EndInstance(i)
  /\ UNCHANGED <<rented, files, chatIp, procs, turnOn, turnOff, overlap>>

ServerStops(i) ==
  /\ i \in serving /\ Fault /\ serving' = serving \ {i}
  /\ UNCHANGED <<rented, alive, files, chatIp, procs, turnOn, turnOff, overlap>>

\* ssh ends by a fault; or by itself, when the address it could not reach lets it
\* time out, which may be sooner or later.
TunnelBreaks(p) ==
  /\ proc[p].kind = "tunnel" /\ proc[p].up
  /\ Fault \/ (~proc[p].bound /\ proc[p].ip \notin alive /\ Fine)
  /\ proc' = [proc EXCEPT ![p] = NoProc]
  /\ UNCHANGED <<account, files, chatIp, started, turnOn, turnOff, overlap>>

Next ==
  \/ TurnOn \/ Status \/ TurnOff
  \/ \E t \in Turn : BootStep(t)
  \/ \E d \in Doer : OffStep(d)
  \/ \E p \in Proc : WatchdogExpires(p) \/ WatchdogFails(p) \/ TunnelBreaks(p)
  \/ \E i \in Inst : InstanceGoes(i) \/ ServerStops(i)

Spec == Init /\ [][Next]_vars
FairSpec == Spec /\ \A t \in Turn : WF_vars(BootStep(t))

----------------------------------------------------------------------------
(* Properties.                                                             *)

TypeOK ==
  /\ rented \in {0} \cup Inst /\ alive \subseteq 1..rented /\ serving \subseteq alive
  /\ envIp \in 0..rented /\ chatIp \in 0..rented
  /\ started \in 0..(2 + 2 * MaxTurnOns) /\ pidfile \in [{"tunnel", "watchdog"} -> 0..started]
  /\ proc \in [Proc -> [kind : {"none", "tunnel", "watchdog"}, up : BOOLEAN,
                        ip : Address, bound : BOOLEAN]]
  /\ bootState \in {"idle", "running", "ready", "error"}
  /\ boot \in [Turn -> [at : {"none", "lookup", "health", "reuse", "rent", "setenv",
                              "serve", "tunnel", "wait", "watch"}, ip : Address, inst : Address]]
  /\ clicks \in 0..MaxTurnOns /\ offs \in 0..MaxTurnOffs
  /\ job \in [Doer -> [at : {"none", "tunnel", "watchdog", "admin", "lookup", "docker",
                             "terminate", "done", "failed"},
                       ip : Address, inst : Address, keep : BOOLEAN, file : BOOLEAN]]
  /\ faults \in 0..MaxFaults /\ lost \in BOOLEAN /\ overlap \in BOOLEAN

\* However often the page is asked to turn on, and whatever is turned off meanwhile,
\* at most one instance is paid for, unless the answer to a launch was lost: then the
\* script rents the next instance type and forgets the first.
OneInstance == Cardinality(alive) > 1 => lost

\* A turn-off that ran to its end while no other script was at work leaves no rented
\* instance, no tunnel and no watchdog.
TurnOffLeavesNothing ==
  [][(/\ job[Off].at # "done" /\ job'[Off].at = "done" /\ ~job[Off].keep
      /\ ~overlap /\ ~lost)
       => alive' = {} /\ \A p \in Proc : ~proc'[p].up]_vars

\* Without faults and without another script at work, turning on ends with a server
\* that answers on the local port under a watchdog, but for one case: tunnel.pid names
\* a tunnel to an earlier instance, whose address outlives the deployment in the
\* environment, or whose tunnel outlives the bootstrap that it failed.
TurnOnWorks ==
  [][(bootState = "running" /\ bootState' # "running" /\ faults' = 0 /\ ~overlap')
       => IF bootState' = "ready"
          THEN (Port = "ok" /\ \E p \in Proc : Watches(p))'
          ELSE \E t \in Turn : Step(t, "wait") /\ proc[pidfile["tunnel"]].ip # boot[t].inst]_vars

\* A request to turn on always gets to an end.
BootstrapEnds == bootState = "running" ~> bootState # "running"

\* The watchdog's promise (lambda_idle_watchdog.py:2): once it found the server idle
\* and its process has ended, the instance is terminated.
IdleIsTerminated ==
  \A p \in Proc : job[p].at # "none" /\ ~proc[p].up => job[p].at = "done"
=============================================================================
