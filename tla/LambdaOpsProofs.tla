-------------------------- MODULE LambdaOpsProofs --------------------------
(***************************************************************************)
(* At most one instance is rented, however often the page is asked to turn *)
(* on, however often something is turned off and whatever fails; and a     *)
(* turn-off that no other script disturbs leaves nothing behind, for any   *)
(* history before it and any faults during it.  Then the types: the sets   *)
(* of instances and processes are large enough for every history.  Last,   *)
(* turning on without faults ends with a server that answers, or waits in  *)
(* vain for one case only.                                                 *)
(***************************************************************************)
EXTENDS LambdaOps, FiniteSetTheorems, TLAPS

-----------------------------------------------------------------------------
(* Renting: the invariant.                                                  *)

\* Where the thread of a request to turn on can be, and what it knows.
Place == {"none", "lookup", "health", "reuse", "rent", "setenv", "serve", "tunnel", "wait", "watch"}
Thread == [at : Place, ip : Nat, inst : Nat]

\* What the argument needs to know of the variables' values.
OpsType ==
  /\ rented \in Nat /\ alive \subseteq 1..rented
  /\ envIp \in Nat /\ chatIp \in Nat /\ clicks \in Nat
  /\ boot \in [Turn -> Thread]

\* The chat server runs one bootstrap at a time, and knows when it does.
OneBootstrap ==
  /\ \A t \in Turn : boot[t].at # "none" => bootState = "running"
  /\ \A t, u \in Turn : boot[t].at # "none" /\ boot[u].at # "none" => t = u

\* It rents only after it has seen an account without instances.
WillRent(t) == boot[t].at = "rent" \/ (boot[t].at = "health" /\ boot[t].inst = 0)
RentsIntoNothing == ~lost => \A t \in Turn : WillRent(t) => alive = {}

AloneInAccount == ~lost => \A i, j \in alive : i = j

OpsInv == OpsType /\ OneBootstrap /\ RentsIntoNothing /\ AloneInAccount

-----------------------------------------------------------------------------
(* Steps that do not turn on: the account may lose instances.              *)

\* A step that leaves the bootstraps alone and adds no instance keeps the invariant.
LEMMA OthersKeepInv ==
  ASSUME OpsInv, UNCHANGED <<rented, envIp, clicks, boot, bootState>>,
         alive' \subseteq alive, chatIp' \in Nat, lost' = lost
  PROVE  OpsInv'
  BY DEF OpsInv, OpsType, OneBootstrap, RentsIntoNothing, WillRent, AloneInAccount

LEMMA OffStepKeepsInv ==
  ASSUME OpsInv, NEW d \in Doer, OffStep(d)
  PROVE  OpsInv'
  <1> USE DEF OpsInv, OpsType
  <1>1. ASSUME NEW kind \in {"tunnel", "watchdog"}, Signal(d, kind) PROVE OpsInv'
    BY <1>1, OthersKeepInv DEF Signal, account, files, turnOn, trouble
  <1>2. ASSUME NEW kind \in {"tunnel", "watchdog"}, Unlink(d, kind) PROVE OpsInv'
    BY <1>2, OthersKeepInv DEF Unlink, account, turnOn, trouble
  <1>3. CASE AskServer(d)
    BY <1>3, OthersKeepInv DEF AskServer, account, files, turnOn, trouble
  <1>4. CASE JobLookUp(d)
    BY <1>4, OthersKeepInv DEF JobLookUp, account, files, turnOn, trouble, Fine, Fault
  <1>5. CASE DockerDown(d)
    BY <1>5, OthersKeepInv DEF DockerDown, files, turnOn, trouble
  <1>6. CASE Terminate(d)
    BY <1>6, OthersKeepInv DEF Terminate, EndInstance, files, turnOn, trouble, Fine, Fault
  <1> QED
    BY <1>1, <1>2, <1>3, <1>4, <1>5, <1>6 DEF OffStep

LEMMA OutsideKeepsInv ==
  ASSUME OpsInv,
         \/ Status \/ TurnOff
         \/ \E p \in Proc : WatchdogExpires(p) \/ WatchdogFails(p) \/ TunnelBreaks(p)
         \/ \E i \in Inst : InstanceGoes(i) \/ ServerStops(i)
  PROVE  OpsInv'
  <1> USE DEF OpsInv, OpsType
  <1>1. CASE Status
    BY <1>1, OthersKeepInv DEF Status, WithEnvFile, account, files, turnOn, trouble
  <1>2. CASE TurnOff
    BY <1>2, OthersKeepInv DEF TurnOff, account, files, turnOn, trouble
  <1>3. ASSUME NEW p \in Proc, WatchdogExpires(p) \/ WatchdogFails(p) PROVE OpsInv'
    BY <1>3, OthersKeepInv DEF WatchdogExpires, WatchdogFails, account, files, turnOn, trouble
  <1>4. ASSUME NEW p \in Proc, TunnelBreaks(p) PROVE OpsInv'
    BY <1>4, OthersKeepInv DEF TunnelBreaks, Fault, Fine, account, files, turnOn, trouble
  <1>5. ASSUME NEW i \in Inst, InstanceGoes(i) \/ ServerStops(i) PROVE OpsInv'
    BY <1>5, OthersKeepInv DEF InstanceGoes, ServerStops, EndInstance, Fault, files, turnOn
  <1> QED
    BY <1>1, <1>2, <1>3, <1>4, <1>5

-----------------------------------------------------------------------------
(* Steps of a bootstrap.                                                   *)

LEMMA TurnOnKeepsInv ==
  ASSUME OpsInv, TurnOn
  PROVE  OpsInv'
  <1>1. CASE MayRun
    <2>1. /\ clicks' \in Turn /\ clicks' \in Nat
          /\ boot' = [boot EXCEPT ![clicks'].at = "lookup"] /\ bootState' = "running"
          /\ UNCHANGED <<rented, alive, envIp, chatIp, lost>>
      BY <1>1, OpsAssumption DEF TurnOn, Turn, OpsInv, OpsType, account, files, trouble
    <2>2. \A t \in Turn : boot[t].at = "none"
      BY <1>1 DEF MayRun, OpsInv, OneBootstrap
    <2>3. /\ OpsType'
          /\ \A t \in Turn : boot'[t].at = IF t = clicks' THEN "lookup" ELSE "none"
      BY <2>1, <2>2 DEF OpsInv, OpsType, Place, Thread
    <2> QED
      BY <2>1, <2>3 DEF OpsInv, OneBootstrap, RentsIntoNothing, WillRent, AloneInAccount
  <1>2. CASE ~MayRun
    <2>1. UNCHANGED <<rented, envIp, boot, bootState, alive, chatIp, lost>> /\ clicks' \in Nat
      BY <1>2 DEF TurnOn, OpsInv, OpsType, account, files, trouble
    <2> QED
      BY <2>1 DEF OpsInv, OpsType, OneBootstrap, RentsIntoNothing, WillRent, AloneInAccount
  <1> QED
    BY <1>1, <1>2

\* A bootstrap that goes on, without renting, to a step at which it does not rent
\* unless it had come to that before or the account is empty.
LEMMA GoesOnKeepsInv ==
  ASSUME OpsInv, NEW t \in Turn, boot[t].at # "none",
         NEW b \in Thread,
         boot' = [boot EXCEPT ![t] = b],
         UNCHANGED <<rented, alive, chatIp, bootState, clicks>>, envIp' \in Nat,
         lost' = lost,
         b.at = "rent" \/ (b.at = "health" /\ b.inst = 0) => WillRent(t) \/ alive = {}
  PROVE  OpsInv'
  <1>1. OpsType'
    BY DEF OpsInv, OpsType
  <1>2. boot'[t] = b /\ \A u \in Turn \ {t} : boot'[u] = boot[u]
    BY DEF OpsInv, OpsType
  <1>3. OneBootstrap'
    BY <1>2 DEF OpsInv, OneBootstrap
  <1>4. RentsIntoNothing' /\ AloneInAccount'
    BY <1>2 DEF OpsInv, RentsIntoNothing, WillRent, AloneInAccount
  <1> QED
    BY <1>1, <1>3, <1>4 DEF OpsInv

LEMMA GotoKeepsInv ==
  ASSUME OpsInv, NEW t \in Turn, boot[t].at # "none",
         NEW at \in Place, Goto(t, at), at # "health", at = "rent" => WillRent(t),
         UNCHANGED <<rented, alive, chatIp>>, envIp' \in Nat, lost' = lost
  PROVE  OpsInv'
  <1> DEFINE b == [boot[t] EXCEPT !.at = at]
  <1>1. boot[t] \in Thread /\ b \in Thread /\ b.at = at
    BY DEF OpsInv, OpsType, Thread
  <1>2. boot' = [boot EXCEPT ![t] = b] /\ UNCHANGED <<bootState, clicks>>
    BY DEF Goto, OpsInv, OpsType
  <1> HIDE DEF b
  <1> QED
    BY <1>1, <1>2, GoesOnKeepsInv

LEMMA EndsKeepsInv ==
  ASSUME OpsInv, NEW t \in Turn, boot[t].at # "none", NEW status, Ends(t, status),
         UNCHANGED <<rented, alive, chatIp, envIp>>, lost' = lost
  PROVE  OpsInv'
  <1>1. /\ boot' = [boot EXCEPT ![t] = NoBoot] /\ clicks' = clicks
        /\ NoBoot \in Thread /\ NoBoot.at = "none"
    BY DEF Ends, NoBoot, Place, Thread
  <1>2. OpsType'
    BY <1>1 DEF OpsInv, OpsType
  <1>3. \A u \in Turn : boot'[u].at = "none"
    BY <1>1 DEF OpsInv, OpsType, OneBootstrap
  <1> QED
    BY <1>2, <1>3 DEF OpsInv, OneBootstrap, RentsIntoNothing, WillRent, AloneInAccount

LEMMA RentKeepsInv ==
  ASSUME OpsInv, NEW t \in Turn, Rent(t)
  PROVE  OpsInv'
  <1>1. /\ boot[t].at = "rent" /\ boot[t] \in Thread
        /\ UNCHANGED <<envIp, chatIp>>
    BY DEF Rent, Step, OpsInv, OpsType, files
  <1>2. CASE /\ rented' = rented + 1 /\ alive' = alive \cup {rented'}
             /\ boot' = [boot EXCEPT ![t].inst = rented', ![t].at = "setenv"]
             /\ UNCHANGED <<bootState, clicks>> /\ Fine
    <2>1. OpsType'
      BY <1>1, <1>2 DEF OpsInv, OpsType, Place, Thread
    <2>2. /\ boot'[t].at = "setenv" /\ \A u \in Turn \ {t} : boot'[u] = boot[u]
          /\ lost' = lost
      BY <1>2 DEF OpsInv, OpsType, Thread, Fine, trouble
    <2>3. ~lost => alive' = {rented'}
      BY <1>1, <1>2 DEF OpsInv, RentsIntoNothing, WillRent
    <2>4. \A u \in Turn \ {t} : boot[u].at = "none"
      BY <1>1 DEF OpsInv, OneBootstrap
    <2>5. OneBootstrap' /\ RentsIntoNothing' /\ AloneInAccount'
      BY <1>1, <1>2, <2>2, <2>3, <2>4
      DEF OpsInv, OneBootstrap, RentsIntoNothing, WillRent, AloneInAccount
    <2> QED
      BY <2>1, <2>5 DEF OpsInv
  <1>3. CASE /\ rented' = rented + 1 /\ alive' = alive \cup {rented'} /\ LostAnswer
             /\ Goto(t, "rent") \/ Ends(t, "error")
    <2>1. lost' /\ RentsIntoNothing' /\ AloneInAccount'
      BY <1>3 DEF LostAnswer, RentsIntoNothing, AloneInAccount
    <2>2. CASE Goto(t, "rent")
      BY <1>1, <1>3, <2>1, <2>2 DEF Goto, OpsInv, OpsType, OneBootstrap, Place, Thread
    <2>3. CASE Ends(t, "error")
      <3>1. OpsType'
        BY <1>1, <1>3, <2>3 DEF Ends, NoBoot, OpsInv, OpsType, Place, Thread
      <3>2. \A u \in Turn : boot'[u].at = "none"
        BY <1>1, <2>3 DEF Ends, NoBoot, OpsInv, OpsType, OneBootstrap
      <3> QED
        BY <2>1, <3>1, <3>2 DEF OpsInv, OneBootstrap
    <2> QED
      BY <1>3, <2>2, <2>3
  <1>4. CASE Ends(t, "error") /\ Fault /\ UNCHANGED <<rented, alive>>
    BY <1>1, <1>4, EndsKeepsInv DEF Fault
  <1> QED
    BY <1>2, <1>3, <1>4 DEF Rent

\* The instance looked up is none only when the account has none.
LEMMA FoundNothing ==
  ASSUME NEW ip, 0 \notin alive, NEW i \in Found(ip)
  PROVE  i \in alive \cup {0} /\ (i = 0 => alive = {})
  BY DEF Found, FirstListed

LEMMA BootStepKeepsInv ==
  ASSUME OpsInv, NEW t \in Turn, BootStep(t)
  PROVE  OpsInv'
  <1>1. /\ boot[t] \in Thread /\ 0 \notin alive
        /\ \A ip \in Nat : WithEnvFile(ip) \in Nat
        /\ alive \subseteq Nat /\ envIp \in Nat /\ chatIp \in Nat
    BY DEF OpsInv, OpsType, WithEnvFile
  <1>4. CASE LookUp(t)
    <2>1. /\ boot[t].at = "lookup" /\ UNCHANGED <<rented, alive, envIp, chatIp>>
      BY <1>4 DEF LookUp, Step, account, files
    <2>2. CASE Ends(t, "error") /\ Fault
      BY <2>1, <2>2, EndsKeepsInv DEF Fault
    <2>3. ASSUME NEW i \in Found(WithEnvFile(chatIp)),
                 boot' = [boot EXCEPT ![t] = [at |-> "health", ip |-> WithEnvFile(chatIp), inst |-> i]],
                 UNCHANGED <<bootState, clicks>>, Fine
          PROVE  OpsInv'
      <3>1. i \in alive \cup {0} /\ (i = 0 => alive = {})
        BY <1>1, FoundNothing
      <3> DEFINE b == [at |-> "health", ip |-> WithEnvFile(chatIp), inst |-> i]
      <3>2. /\ b \in Thread /\ b.at = "health" /\ b.inst = i
            /\ boot' = [boot EXCEPT ![t] = b] /\ lost' = lost
        BY <1>1, <2>3, <3>1 DEF Fine, trouble, Place, Thread
      <3> HIDE DEF b
      <3> QED
        BY <1>1, <2>1, <2>3, <3>1, <3>2, GoesOnKeepsInv
    <2> QED
      BY <1>4, <2>2, <2>3 DEF LookUp
  <1>5. CASE CheckHealth(t)
    <2>1. /\ boot[t].at = "health" /\ UNCHANGED <<rented, alive, envIp, chatIp, lost>>
      BY <1>5 DEF CheckHealth, Step, account, files, trouble
    <2>2. \/ Goto(t, "tunnel")
          \/ Goto(t, "rent") /\ boot[t].inst = 0
          \/ Goto(t, "reuse")
          \/ Ends(t, "error")
      BY <1>5 DEF CheckHealth
    <2>3. CASE Goto(t, "tunnel")
      BY <1>1, <2>1, <2>3, GotoKeepsInv DEF Place
    <2>4. CASE Goto(t, "reuse")
      BY <1>1, <2>1, <2>4, GotoKeepsInv DEF Place
    <2>5. CASE Goto(t, "rent") /\ boot[t].inst = 0
      <3>1. WillRent(t)
        BY <2>1, <2>5 DEF WillRent
      <3> QED
        BY <1>1, <2>1, <2>5, <3>1, GotoKeepsInv DEF Place
    <2>6. CASE Ends(t, "error")
      BY <2>1, <2>6, EndsKeepsInv
    <2> QED
      BY <2>2, <2>3, <2>4, <2>5, <2>6
  <1>6. CASE Reuse(t)
    <2>1. boot[t].at = "reuse" /\ UNCHANGED <<rented, alive, envIp, chatIp>>
      BY <1>6 DEF Reuse, Step, account, files
    <2>2. CASE Ends(t, "error") /\ (Fine \/ Fault)
      BY <2>1, <2>2, EndsKeepsInv DEF Fine, Fault, trouble
    <2>3. ASSUME NEW i \in FirstListed \ {0},
                 boot' = [boot EXCEPT ![t].inst = i, ![t].at = "setenv"],
                 UNCHANGED <<bootState, clicks>>, Fine
          PROVE  OpsInv'
      <3> DEFINE b == [boot[t] EXCEPT !.inst = i, !.at = "setenv"]
      <3>1. /\ b \in Thread /\ b.at = "setenv"
            /\ boot' = [boot EXCEPT ![t] = b] /\ lost' = lost
        BY <1>1, <2>3 DEF FirstListed, Fine, trouble, OpsInv, OpsType, Place, Thread
      <3> HIDE DEF b
      <3> QED
        BY <1>1, <2>1, <2>3, <3>1, GoesOnKeepsInv
    <2> QED
      BY <1>6, <2>2, <2>3 DEF Reuse
  <1>7. CASE Rent(t)
    BY <1>7, RentKeepsInv
  <1>8. CASE SetEnv(t)
    <2>1. boot[t].at = "setenv" /\ UNCHANGED <<rented, alive, chatIp, lost>>
      BY <1>8 DEF SetEnv, Fine, Fault, Step, account, trouble
    <2>2. CASE envIp' = boot[t].inst /\ Goto(t, "serve")
      <3>1. envIp' \in Nat
        BY <1>1, <2>2 DEF Thread
      <3> QED
        BY <2>1, <2>2, <3>1, GotoKeepsInv DEF Place
    <2>3. CASE Ends(t, "error") /\ UNCHANGED envIp
      BY <2>1, <2>3, EndsKeepsInv
    <2> QED
      BY <1>8, <2>2, <2>3 DEF SetEnv
  <1>9. CASE Serve(t)
    <2>1. boot[t].at = "serve" /\ UNCHANGED <<rented, alive, envIp, chatIp>>
      BY <1>9 DEF Serve, Step, files
    <2>2. CASE Ends(t, "error") /\ (Fine \/ Fault)
      BY <2>1, <2>2, EndsKeepsInv DEF Fine, Fault, trouble
    <2>3. CASE /\ boot' = [boot EXCEPT ![t].ip = WithEnvFile(@), ![t].at = "tunnel"]
               /\ UNCHANGED <<bootState, clicks>> /\ Fine
      <3> DEFINE b == [boot[t] EXCEPT !.ip = WithEnvFile(@), !.at = "tunnel"]
      <3>1. /\ b \in Thread /\ b.at = "tunnel"
            /\ boot' = [boot EXCEPT ![t] = b] /\ lost' = lost
        BY <1>1, <2>3 DEF Fine, trouble, OpsInv, OpsType, Place, Thread
      <3> HIDE DEF b
      <3> QED
        BY <1>1, <2>1, <2>3, <3>1, GoesOnKeepsInv
    <2> QED
      BY <1>9, <2>2, <2>3 DEF Serve
  <1>10. CASE EnsureTunnel(t)
    <2>1. /\ boot[t].at = "tunnel" /\ Goto(t, "wait")
          /\ UNCHANGED <<rented, alive, envIp, chatIp, lost>>
      BY <1>10 DEF EnsureTunnel, Step, account, trouble
    <2> QED
      BY <1>1, <2>1, GotoKeepsInv DEF Place
  <1>11. CASE WaitForHealth(t)
    <2>1. boot[t].at = "wait" /\ UNCHANGED <<rented, alive, envIp, chatIp, lost>>
      BY <1>11 DEF WaitForHealth, Step, account, files, trouble
    <2>2. CASE Goto(t, "watch")
      BY <1>1, <2>1, <2>2, GotoKeepsInv DEF Place
    <2>3. CASE Ends(t, "error")
      BY <2>1, <2>3, EndsKeepsInv
    <2> QED
      BY <1>11, <2>2, <2>3 DEF WaitForHealth
  <1>12. CASE EnsureWatchdog(t)
    <2>1. /\ boot[t].at = "watch" /\ Ends(t, "ready")
          /\ UNCHANGED <<rented, alive, envIp, chatIp, lost>>
      BY <1>12 DEF EnsureWatchdog, Step, account, trouble
    <2> QED
      BY <2>1, EndsKeepsInv
  <1> QED
    BY <1>4, <1>5, <1>6, <1>7, <1>8, <1>9, <1>10, <1>11, <1>12 DEF BootStep

-----------------------------------------------------------------------------
(* The theorem.                                                            *)

LEMMA InitOpsInv == Init => OpsInv
  <1> SUFFICES ASSUME Init PROVE OpsInv
    OBVIOUS
  <1>1. OpsType
    BY DEF Init, OpsType, NoBoot, Place, Thread
  <1>2. \A t \in Turn : boot[t].at = "none"
    BY DEF Init, NoBoot
  <1>3. AloneInAccount
    BY DEF Init, AloneInAccount
  <1> QED
    BY <1>1, <1>2, <1>3 DEF OpsInv, OneBootstrap, RentsIntoNothing, WillRent

LEMMA StepOpsInv == OpsInv /\ [Next]_vars => OpsInv'
  <1> SUFFICES ASSUME OpsInv, [Next]_vars PROVE OpsInv'
    OBVIOUS
  <1>1. CASE TurnOn
    BY <1>1, TurnOnKeepsInv
  <1>2. CASE \E t \in Turn : BootStep(t)
    BY <1>2, BootStepKeepsInv
  <1>3. CASE \E d \in Doer : OffStep(d)
    BY <1>3, OffStepKeepsInv
  <1>4. CASE \/ Status \/ TurnOff
             \/ \E p \in Proc : WatchdogExpires(p) \/ WatchdogFails(p) \/ TunnelBreaks(p)
             \/ \E i \in Inst : InstanceGoes(i) \/ ServerStops(i)
    BY <1>4, OutsideKeepsInv
  <1>5. CASE UNCHANGED vars
    BY <1>5, OthersKeepInv DEF vars, account, files, turnOn, trouble, OpsInv, OpsType
  <1> QED
    BY <1>1, <1>2, <1>3, <1>4, <1>5 DEF Next

\* A set without two different members has at most one.
LEMMA AloneCounts ==
  ASSUME AloneInAccount, ~lost
  PROVE  ~(Cardinality(alive) > 1)
  <1>1. CASE alive = {}
    BY <1>1, FS_EmptySet
  <1>2. CASE alive # {}
    <2>1. PICK i \in alive : alive = {i}
      BY <1>2 DEF AloneInAccount
    <2> QED
      BY <2>1, FS_Singleton
  <1> QED
    BY <1>1, <1>2

\* The chat server's lock, and the look into the account before renting, hold off a
\* second instance for any number of requests, turn-offs and faults, unless the
\* answer to a launch was lost.
THEOREM RentedOnce == Spec => []OneInstance
  <1>1. OpsInv => OneInstance
    BY AloneCounts DEF OpsInv, OneInstance
  <1> QED
    BY <1>1, InitOpsInv, StepOpsInv, PTL DEF Spec

-----------------------------------------------------------------------------
(* Turning off: the invariant.                                              *)

Helper   == {"tunnel", "watchdog"}
JobPlace == {"none", "tunnel", "watchdog", "admin", "lookup", "docker", "terminate", "done", "failed"}
Shutdown == [at : JobPlace, ip : Nat, inst : Nat, keep : BOOLEAN, file : BOOLEAN]

HelperType ==
  /\ proc = [p \in Proc |-> proc[p]] /\ \A p \in Proc : proc[p].ip \in Nat
  /\ pidfile \in [Helper -> Nat] /\ started \in Nat
  /\ job \in [Doer -> Shutdown]

\* Numbers not handed out yet belong to no process and no shutdown.
Unstarted == \A p \in Proc : p > started => ~proc[p].up /\ job[p].at = "none"

\* As long as the scripts have kept out of each other's way, one of them is at work,
WorksAlone ==
  /\ \A d \in AtWork, t \in Turn : boot[t].at = "none"
  /\ \A d, e \in AtWork : d = e

\* the pid files name every tunnel and every watchdog that runs,
FilesNameHelpers ==
  \A p \in Proc : proc[p].up => proc[p].kind \in Helper /\ pidfile[proc[p].kind] = p

\* and a shutdown has behind it what it came to do first.
NoneUp(kind) == \A p \in Proc : proc[p].up => proc[p].kind # kind
TunnelDone(d)   == job[d].at \notin {"none", "tunnel"} \/ (job[d].at = "tunnel" /\ job[d].file)
WatchdogDone(d) == job[d].at \notin {"none", "tunnel", "watchdog"} \/ (job[d].at = "watchdog" /\ job[d].file)
HasFound(d)     == job[d].at \in {"docker", "terminate"}

ShutdownOrder ==
  \A d \in AtWork : /\ TunnelDone(d) => NoneUp("tunnel")
                    /\ WatchdogDone(d) => NoneUp("watchdog")
                    /\ HasFound(d) /\ ~lost => alive \subseteq {job[d].inst}

QuietInv == ~overlap => WorksAlone /\ FilesNameHelpers /\ ShutdownOrder

HelperInv == HelperType /\ Unstarted /\ QuietInv

\* A shutdown at work, by its definition.
LEMMA AtWorkMember ==
  ASSUME NEW d
  PROVE  d \in AtWork <=> /\ d \in Doer /\ job[d].at \notin {"none", "done", "failed"}
                          /\ d # Off => proc[d].up
  BY DEF AtWork

LEMMA AtWorkMemberPrimed ==
  ASSUME NEW d
  PROVE  d \in AtWork' <=> /\ d \in Doer /\ job'[d].at \notin {"none", "done", "failed"}
                           /\ d # Off => proc'[d].up
  BY DEF AtWork

-----------------------------------------------------------------------------
(* Steps of the scripts that neither start nor stop a process.             *)

\* A bootstrap that goes on or ends, and whatever happens to instances.
LEMMA FrameKeepsHelpers ==
  ASSUME HelperInv, UNCHANGED <<proc, pidfile, job, started, overlap>>, lost => lost',
         \A t \in Turn : boot[t].at = "none" => boot'[t].at = "none",
         alive' \subseteq alive \/ \E t \in Turn : boot[t].at # "none"
  PROVE  HelperInv'
  <1>1. AtWork' = AtWork
    BY DEF AtWork
  <1>2. HelperType' /\ Unstarted'
    BY DEF HelperInv, HelperType, Unstarted
  <1>3. ASSUME ~overlap PROVE WorksAlone' /\ FilesNameHelpers' /\ ShutdownOrder'
    <2>1. WorksAlone /\ FilesNameHelpers /\ ShutdownOrder
      BY <1>3 DEF HelperInv, QuietInv
    <2>2. WorksAlone' /\ FilesNameHelpers'
      BY <1>1, <2>1 DEF WorksAlone, FilesNameHelpers
    <2>3. ShutdownOrder'
      BY <1>1, <2>1 DEF WorksAlone, ShutdownOrder, TunnelDone, WatchdogDone, HasFound, NoneUp
    <2> QED
      BY <2>2, <2>3
  <1> QED
    BY <1>2, <1>3 DEF HelperInv, QuietInv

\* The thread of one request moves, the others stay where they are.
LEMMA OneThreadMoves ==
  ASSUME OpsInv, NEW t \in Turn, BootStep(t)
  PROVE  /\ boot[t].at # "none"
         /\ \A u \in Turn : boot[u].at = "none" => boot'[u].at = "none"
         /\ UNCHANGED <<job, overlap>> /\ (lost => lost')
  <1>1. boot[t].at # "none"
    BY DEF BootStep, LookUp, CheckHealth, Reuse, Rent, SetEnv, Serve, EnsureTunnel,
           WaitForHealth, EnsureWatchdog, Step
  <1>2. \E b : boot' = [boot EXCEPT ![t] = b]
    BY DEF BootStep, LookUp, CheckHealth, Reuse, Rent, SetEnv, Serve, EnsureTunnel,
           WaitForHealth, EnsureWatchdog, Goto, Ends, OpsInv, OpsType
  <1>3. \A u \in Turn : boot[u].at = "none" => boot'[u].at = "none"
    BY <1>1, <1>2 DEF OpsInv, OpsType
  <1>4. UNCHANGED <<job, overlap>>
    BY DEF BootStep, LookUp, CheckHealth, Reuse, Rent, SetEnv, Serve, EnsureTunnel,
           WaitForHealth, EnsureWatchdog, turnOff
  <1>5. lost => lost'
    BY DEF BootStep, LookUp, CheckHealth, Reuse, Rent, SetEnv, Serve, EnsureTunnel,
           WaitForHealth, EnsureWatchdog, trouble, Fine, Fault, LostAnswer
  <1> QED
    BY <1>1, <1>3, <1>4, <1>5

-----------------------------------------------------------------------------
(* Processes start.                                                        *)

\* While a bootstrap is at work alone there is no shutdown to disturb, and the file
\* names no running process of the kind it starts.
LEMMA EnsureKeepsHelpers ==
  ASSUME OpsInv, HelperInv, NEW t \in Turn, boot[t].at # "none",
         NEW kind \in Helper, NEW ip \in Nat, Ensure(kind, ip),
         \A u \in Turn : boot[u].at = "none" => boot'[u].at = "none",
         UNCHANGED <<job, overlap, alive, lost>>
  PROVE  HelperInv'
  <1>1. CASE Runs(pidfile[kind])
    BY <1>1, FrameKeepsHelpers DEF Ensure, procs
  <1>2. CASE ~Runs(pidfile[kind])
    <2> DEFINE new == started + 1
               rec == [kind |-> kind, up |-> TRUE, ip |-> ip,
                       bound |-> kind = "tunnel" /\ ip \in alive /\ Bound = {}]
    <2>1. /\ started' = new /\ proc' = [proc EXCEPT ![new] = rec]
          /\ pidfile' = [pidfile EXCEPT ![kind] = new]
      BY <1>2 DEF Ensure
    <2>2. rec.kind = kind /\ rec.ip = ip /\ started \in Nat /\ new \in Nat /\ new > started
      BY DEF HelperInv, HelperType
    <2> HIDE DEF rec
    <2>3. /\ \A p \in Proc : proc'[p] = IF p = new THEN rec ELSE proc[p]
          /\ \A k \in Helper : pidfile'[k] = IF k = kind THEN new ELSE pidfile[k]
          /\ proc' = [p \in Proc |-> proc'[p]] /\ pidfile' \in [Helper -> Nat]
      BY <2>1, <2>2 DEF HelperInv, HelperType
    <2> HIDE DEF new
    <2>4. HelperType'
      BY <2>1, <2>2, <2>3 DEF HelperInv, HelperType
    <2>5. Unstarted'
      BY <2>1, <2>2, <2>3 DEF HelperInv, Unstarted, Proc, new
    <2>6. ASSUME ~overlap PROVE WorksAlone' /\ FilesNameHelpers' /\ ShutdownOrder'
      <3>1. WorksAlone /\ FilesNameHelpers
        BY <2>6 DEF HelperInv, QuietInv
      <3>2. AtWork = {}
        BY <3>1 DEF WorksAlone
      <3>3. \A d : d \notin AtWork'
        <4> SUFFICES ASSUME NEW d \in AtWork' PROVE FALSE
          OBVIOUS
        <4>1. /\ d \in Doer /\ job[d].at \notin {"none", "done", "failed"}
              /\ d # Off => proc'[d].up
          BY AtWorkMemberPrimed
        <4>2. d # Off /\ d \in Proc
          BY <3>2, <4>1, AtWorkMember DEF Doer
        <4>3. d # new
          BY <2>2, <4>1, <4>2 DEF HelperInv, Unstarted
        <4> QED
          BY <2>3, <3>2, <4>1, <4>2, <4>3, AtWorkMember
      <3>4. \A p \in Proc : proc[p].up => proc[p].kind # kind
        BY <1>2, <3>1 DEF FilesNameHelpers, Runs, Proc
      <3>5. FilesNameHelpers'
        BY <2>2, <2>3, <3>1, <3>4 DEF FilesNameHelpers
      <3> QED
        BY <3>3, <3>5 DEF WorksAlone, ShutdownOrder
    <2> QED
      BY <2>4, <2>5, <2>6 DEF HelperInv, QuietInv
  <1> QED
    BY <1>1, <1>2

LEMMA BootStepKeepsHelpers ==
  ASSUME OpsInv, HelperInv, NEW t \in Turn, BootStep(t)
  PROVE  HelperInv'
  <1>1. /\ boot[t].at # "none"
        /\ \A u \in Turn : boot[u].at = "none" => boot'[u].at = "none"
        /\ UNCHANGED <<job, overlap>> /\ (lost => lost')
    BY OneThreadMoves
  <1>2. CASE EnsureTunnel(t)
    <2>1. Ensure("tunnel", boot[t].ip) /\ UNCHANGED <<alive, lost>>
      BY <1>2 DEF EnsureTunnel, account, trouble
    <2>2. "tunnel" \in Helper /\ boot[t].ip \in Nat
      BY DEF Helper, OpsInv, OpsType, Thread
    <2>3. UNCHANGED <<job, overlap, alive, lost>>
      BY <1>1, <2>1
    <2> QED
      BY <1>1, <2>1, <2>2, <2>3, EnsureKeepsHelpers
  <1>3. CASE EnsureWatchdog(t)
    <2>1. Ensure("watchdog", boot[t].ip) /\ UNCHANGED <<alive, lost>>
      BY <1>3 DEF EnsureWatchdog, account, trouble
    <2>2. "watchdog" \in Helper /\ boot[t].ip \in Nat
      BY DEF Helper, OpsInv, OpsType, Thread
    <2>3. UNCHANGED <<job, overlap, alive, lost>>
      BY <1>1, <2>1
    <2> QED
      BY <1>1, <2>1, <2>2, <2>3, EnsureKeepsHelpers
  <1>4. CASE LookUp(t) \/ CheckHealth(t) \/ Reuse(t) \/ Rent(t) \/ SetEnv(t) \/ Serve(t) \/ WaitForHealth(t)
    <2>1. LookUp(t) => UNCHANGED <<proc, pidfile, started>>
      BY DEF LookUp, files, procs
    <2>2. CheckHealth(t) => UNCHANGED <<proc, pidfile, started>>
      BY Zenon DEF CheckHealth, files, procs
    <2>3. Reuse(t) \/ Rent(t) \/ SetEnv(t) => UNCHANGED <<proc, pidfile, started>>
      BY DEF Reuse, Rent, SetEnv, files, procs
    <2>4. Serve(t) \/ WaitForHealth(t) => UNCHANGED <<proc, pidfile, started>>
      BY DEF Serve, WaitForHealth, files, procs
    <2>5. UNCHANGED <<proc, pidfile, started>>
      BY <1>4, <2>1, <2>2, <2>3, <2>4
    <2>6. UNCHANGED <<proc, pidfile, job, started, overlap>>
      BY <1>1, <2>5
    <2>7. alive' \subseteq alive \/ \E u \in Turn : boot[u].at # "none"
      BY <1>1
    <2> QED
      BY <1>1, <2>6, <2>7, FrameKeepsHelpers
  <1> QED
    BY <1>2, <1>3, <1>4 DEF BootStep

-----------------------------------------------------------------------------
(* Scripts start.                                                          *)

LEMMA TurnOnKeepsHelpers ==
  ASSUME OpsInv, HelperInv, TurnOn
  PROVE  HelperInv'
  <1>1. UNCHANGED <<proc, pidfile, job, started, alive, lost>>
    BY DEF TurnOn, account, files, procs, turnOff, trouble
  <1>2. CASE MayRun
    <2>1. overlap' = (overlap \/ Booting \cup AtWork # {})
      BY <1>2 DEF TurnOn, Begins
    <2>2. AtWork' = AtWork /\ HelperType' /\ Unstarted'
      BY <1>1 DEF AtWork, HelperInv, HelperType, Unstarted
    <2>3. ASSUME ~overlap' PROVE WorksAlone' /\ FilesNameHelpers' /\ ShutdownOrder'
      <3>1. AtWork' = {} /\ FilesNameHelpers
        BY <2>1, <2>2, <2>3 DEF HelperInv, QuietInv
      <3> QED
        BY <1>1, <3>1 DEF WorksAlone, FilesNameHelpers, ShutdownOrder
    <2> QED
      BY <2>2, <2>3 DEF HelperInv, QuietInv
  <1>3. CASE ~MayRun
    BY <1>1, <1>3, FrameKeepsHelpers DEF TurnOn
  <1> QED
    BY <1>2, <1>3

\* A shutdown begins at the tunnel, with nothing behind it.
LEMMA BeginsKeepsHelpers ==
  ASSUME HelperInv, NEW d \in Doer, Begins, d = Off \/ (d \in Proc /\ proc[d].up),
         NEW j \in Shutdown, j.at = "tunnel", ~j.file, job' = [job EXCEPT ![d] = j],
         UNCHANGED <<proc, pidfile, started, boot, alive, lost>>
  PROVE  HelperInv'
  <1>1. /\ job' \in [Doer -> Shutdown] /\ job'[d] = j
        /\ \A e \in Doer \ {d} : job'[e] = job[e]
    BY DEF HelperInv, HelperType
  <1>2. HelperType'
    BY <1>1 DEF HelperInv, HelperType
  <1>3. Unstarted'
    BY <1>1 DEF HelperInv, Unstarted, Doer, Off, Proc
  <1>4. ASSUME ~overlap' PROVE WorksAlone' /\ FilesNameHelpers' /\ ShutdownOrder'
    <2>1. ~overlap /\ Booting = {} /\ AtWork = {}
      BY <1>4 DEF Begins
    <2>2. \A e \in AtWork' : e = d
      BY <1>1, <2>1, AtWorkMember, AtWorkMemberPrimed
    <2>3. WorksAlone'
      BY <2>1, <2>2 DEF WorksAlone, Booting
    <2>4. FilesNameHelpers'
      BY <2>1 DEF HelperInv, QuietInv, FilesNameHelpers
    <2>5. ShutdownOrder'
      BY <1>1, <2>2 DEF ShutdownOrder, TunnelDone, WatchdogDone, HasFound
    <2> QED
      BY <2>3, <2>4, <2>5
  <1> QED
    BY <1>2, <1>3, <1>4 DEF HelperInv, QuietInv

LEMMA TurnOffKeepsHelpers ==
  ASSUME OpsInv, HelperInv, TurnOff
  PROVE  HelperInv'
  <1>1. PICK how \in FromPage \cup FromShell :
          job' = [job EXCEPT ![Off] = [NoJob EXCEPT !.at = "tunnel", !.ip = how[1], !.keep = how[2]]]
    BY DEF TurnOff
  <1>2. how[1] \in Nat /\ how[2] \in BOOLEAN
    <2>1. WithEnvFile(chatIp) \in Nat /\ envIp \in Nat
      BY DEF WithEnvFile, OpsInv, OpsType
    <2>2. CASE how \in FromPage
      <3>1. how = <<WithEnvFile(chatIp), FALSE>>
        BY <2>2 DEF FromPage
      <3> QED
        BY <2>1, <3>1
    <2>3. CASE how \in FromShell
      <3>1. PICK keep \in BOOLEAN : how = <<envIp, keep>>
        BY <2>3 DEF FromShell
      <3> QED
        BY <2>1, <3>1
    <2> QED
      BY <2>2, <2>3
  <1> DEFINE j == [NoJob EXCEPT !.at = "tunnel", !.ip = how[1], !.keep = how[2]]
  <1>3. j \in Shutdown /\ j.at = "tunnel" /\ ~j.file
    BY <1>2 DEF NoJob, Shutdown, JobPlace
  <1>4. Off \in Doer /\ Begins /\ UNCHANGED <<proc, pidfile, started, boot, alive, lost>>
    BY DEF Doer, TurnOff, account, files, procs, turnOn, trouble
  <1> HIDE DEF j
  <1> QED
    BY <1>1, <1>3, <1>4, BeginsKeepsHelpers DEF j

LEMMA ExpiryKeepsHelpers ==
  ASSUME OpsInv, HelperInv, NEW p \in Proc, WatchdogExpires(p)
  PROVE  HelperInv'
  <1> DEFINE j == [NoJob EXCEPT !.at = "tunnel", !.ip = WithEnvFile(proc[p].ip)]
  <1>1. job' = [job EXCEPT ![p] = j]
    BY DEF WatchdogExpires
  <1>2. j.at = "tunnel" /\ ~j.file
    BY DEF NoJob
  <1>3. p \in Doer /\ proc[p].up /\ Begins /\ UNCHANGED <<proc, pidfile, started, boot, alive, lost>>
    BY DEF Doer, WatchdogExpires, Watches, account, files, procs, turnOn, trouble
  <1>4. j \in Shutdown
    <2>1. WithEnvFile(proc[p].ip) \in Nat
      BY DEF WithEnvFile, OpsInv, OpsType, HelperInv, HelperType
    <2> QED
      BY <2>1 DEF NoJob, Shutdown, JobPlace
  <1> HIDE DEF j
  <1> QED
    BY <1>1, <1>2, <1>3, <1>4, BeginsKeepsHelpers

-----------------------------------------------------------------------------
(* Processes end, shutdowns go on.                                         *)

\* A process that ends takes its shutdown with it and leaves its file.
LEMMA EndKeepsHelpers ==
  ASSUME HelperInv, NEW p \in Proc, proc' = [proc EXCEPT ![p] = NoProc],
         UNCHANGED <<pidfile, started, job, boot, alive, overlap>>, lost' = lost
  PROVE  HelperInv'
  <1>1. \A q \in Proc : proc'[q] = (IF q = p THEN NoProc ELSE proc[q]) /\ ~NoProc.up
    BY DEF HelperInv, HelperType, NoProc
  <1>2. HelperType'
    BY <1>1 DEF HelperInv, HelperType, NoProc
  <1>3. Unstarted'
    BY <1>1 DEF HelperInv, Unstarted
  <1>4. \A d \in AtWork' : d \in AtWork
    BY <1>1, AtWorkMember, AtWorkMemberPrimed DEF Doer
  <1>5. ASSUME ~overlap PROVE WorksAlone' /\ FilesNameHelpers' /\ ShutdownOrder'
    <2>1. WorksAlone /\ FilesNameHelpers /\ ShutdownOrder
      BY <1>5 DEF HelperInv, QuietInv
    <2>2. WorksAlone' /\ FilesNameHelpers'
      BY <1>1, <1>4, <2>1 DEF WorksAlone, FilesNameHelpers
    <2>3. ShutdownOrder'
      BY <1>1, <1>4, <2>1 DEF ShutdownOrder, TunnelDone, WatchdogDone, HasFound, NoneUp
    <2> QED
      BY <2>2, <2>3
  <1> QED
    BY <1>2, <1>3, <1>5 DEF HelperInv, QuietInv

\* A shutdown takes a step: it is alone, so what holds for it decides.
LEMMA JobKeepsHelpers ==
  ASSUME HelperInv, NEW d \in AtWork, NEW j \in Shutdown, job' = [job EXCEPT ![d] = j],
         proc' = [p \in Proc |-> proc'[p]],
         \A p \in Proc : proc'[p] = proc[p] \/ proc'[p] = NoProc,
         pidfile' \in [Helper -> Nat], UNCHANGED <<started, boot, overlap>>, lost' = lost,
         alive' \subseteq alive,
         ~overlap =>
           /\ \A k \in Helper : pidfile'[k] = pidfile[k] \/ NoneUp(k)'
           /\ TunnelDone(d)' => NoneUp("tunnel") \/ NoneUp("tunnel")'
           /\ WatchdogDone(d)' => NoneUp("watchdog") \/ NoneUp("watchdog")'
           /\ HasFound(d)' /\ ~lost => alive \subseteq {j.inst}
  PROVE  HelperInv'
  <1>1. /\ job' \in [Doer -> Shutdown] /\ job'[d] = j /\ d \in Doer
        /\ \A e \in Doer \ {d} : job'[e] = job[e]
    BY AtWorkMember DEF HelperInv, HelperType
  <1>2. HelperType'
    BY <1>1 DEF HelperInv, HelperType, NoProc
  <1>3. Unstarted'
    <2> SUFFICES ASSUME NEW p \in Proc, p > started PROVE ~proc'[p].up /\ job'[p].at = "none"
      BY DEF Unstarted
    <2>1. ~proc[p].up /\ job[p].at = "none"
      BY DEF HelperInv, Unstarted
    <2>2. p # d /\ p \in Doer
      BY <2>1, AtWorkMember DEF Doer
    <2> QED
      BY <1>1, <2>1, <2>2 DEF NoProc
  <1>4. ASSUME ~overlap PROVE WorksAlone' /\ FilesNameHelpers' /\ ShutdownOrder'
    <2>1. WorksAlone /\ FilesNameHelpers /\ ShutdownOrder
      BY <1>4 DEF HelperInv, QuietInv
    <2>2. \A e \in AtWork' : e = d
      <3> SUFFICES ASSUME NEW e \in AtWork', e # d PROVE FALSE
        OBVIOUS
      <3>1. e \in AtWork
        BY <1>1, AtWorkMember, AtWorkMemberPrimed DEF Doer, NoProc
      <3> QED
        BY <2>1, <3>1 DEF WorksAlone
    <2>3. WorksAlone'
      BY <2>1, <2>2 DEF WorksAlone
    <2>4. FilesNameHelpers'
      BY <1>4, <2>1 DEF FilesNameHelpers, NoneUp, NoProc
    <2>5. ShutdownOrder'
      BY <1>1, <1>4, <2>2 DEF ShutdownOrder, NoneUp, HasFound, NoProc
    <2> QED
      BY <2>3, <2>4, <2>5
  <1> QED
    BY <1>2, <1>3, <1>4 DEF HelperInv, QuietInv

LEMMA SignalKeepsHelpers ==
  ASSUME HelperInv, NEW d \in Doer, NEW kind \in Helper, Signal(d, kind)
  PROVE  HelperInv'
  <1> DEFINE j == [job[d] EXCEPT !.file = TRUE]
  <1>1. /\ d \in AtWork /\ job[d].at = kind
        /\ proc' = [p \in Proc |-> IF p = pidfile[kind] THEN NoProc ELSE proc[p]]
        /\ UNCHANGED <<pidfile, started, boot, alive, overlap, lost>>
    BY DEF Signal, account, files, turnOn, trouble
  <1>2. job[d] \in Shutdown /\ job' = [job EXCEPT ![d] = j]
    BY DEF Signal, HelperInv, HelperType
  <1>3. j \in Shutdown /\ j.at = kind
    BY <1>1, <1>2 DEF Shutdown
  <1>4. /\ proc' = [p \in Proc |-> proc'[p]]
        /\ \A p \in Proc : proc'[p] = proc[p] \/ proc'[p] = NoProc
        /\ pidfile' \in [Helper -> Nat]
    BY <1>1 DEF NoProc, HelperInv, HelperType
  <1> HIDE DEF j
  <1>5. job'[d] = j
    BY <1>2 DEF HelperInv, HelperType
  <1>6. ASSUME ~overlap
        PROVE  /\ TunnelDone(d)' => NoneUp("tunnel") \/ NoneUp("tunnel")'
               /\ WatchdogDone(d)' => NoneUp("watchdog") \/ NoneUp("watchdog")'
               /\ ~HasFound(d)'
    <2>1. FilesNameHelpers /\ ShutdownOrder
      BY <1>6 DEF HelperInv, QuietInv
    <2>2. NoneUp(kind)'
      BY <1>1, <2>1 DEF FilesNameHelpers, NoneUp, NoProc
    <2>3. CASE kind = "tunnel"
      BY <1>3, <1>5, <2>2, <2>3 DEF TunnelDone, WatchdogDone, HasFound
    <2>4. CASE kind = "watchdog"
      <3>1. NoneUp("tunnel")
        BY <1>1, <2>1, <2>4 DEF ShutdownOrder, TunnelDone
      <3> QED
        BY <1>3, <1>5, <2>2, <2>4, <3>1 DEF HasFound
    <2> QED
      BY <2>3, <2>4 DEF Helper
  <1> QED
    BY <1>1, <1>2, <1>3, <1>4, <1>6, JobKeepsHelpers

LEMMA UnlinkKeepsHelpers ==
  ASSUME HelperInv, NEW d \in Doer, NEW kind \in Helper, Unlink(d, kind)
  PROVE  HelperInv'
  <1> DEFINE j == [job[d] EXCEPT !.at = After[kind], !.file = FALSE]
  <1>1. /\ d \in AtWork /\ job[d].at = kind /\ job[d].file
        /\ pidfile' = [pidfile EXCEPT ![kind] = 0]
        /\ UNCHANGED <<proc, started, boot, alive, overlap, lost>>
    BY DEF Unlink, account, procs, turnOn, trouble
  <1>2. job[d] \in Shutdown /\ job' = [job EXCEPT ![d] = j]
    BY DEF Unlink, HelperInv, HelperType
  <1>3. /\ j \in Shutdown /\ ~j.file
        /\ kind = "tunnel" => j.at = "watchdog"
        /\ kind = "watchdog" => j.at = "admin"
    <2>1. CASE kind = "tunnel"
      <3>1. After[kind] = "watchdog"
        BY <2>1 DEF After
      <3> QED
        BY <1>2, <2>1, <3>1 DEF Shutdown, JobPlace
    <2>2. CASE kind = "watchdog"
      <3>1. After[kind] = "admin"
        BY <2>2 DEF After
      <3> QED
        BY <1>2, <2>2, <3>1 DEF Shutdown, JobPlace
    <2> QED
      BY <2>1, <2>2 DEF Helper
  <1>4. /\ proc' = [p \in Proc |-> proc'[p]] /\ pidfile' \in [Helper -> Nat]
        /\ \A k \in Helper : k # kind => pidfile'[k] = pidfile[k]
    BY <1>1 DEF HelperInv, HelperType
  <1> HIDE DEF j
  <1>5. job'[d] = j
    BY <1>2 DEF HelperInv, HelperType
  <1>6. ASSUME ~overlap
        PROVE  /\ NoneUp(kind)'
               /\ NoneUp("tunnel")
               /\ WatchdogDone(d)' => NoneUp("watchdog")
               /\ ~HasFound(d)'
    <2>1. ShutdownOrder
      BY <1>6 DEF HelperInv, QuietInv
    <2>2. CASE kind = "tunnel"
      BY <1>1, <1>3, <1>5, <2>1, <2>2 DEF ShutdownOrder, TunnelDone, WatchdogDone, HasFound, NoneUp
    <2>3. CASE kind = "watchdog"
      BY <1>1, <1>3, <1>5, <2>1, <2>3 DEF ShutdownOrder, TunnelDone, WatchdogDone, HasFound, NoneUp
    <2> QED
      BY <2>2, <2>3 DEF Helper
  <1> QED
    BY <1>1, <1>2, <1>3, <1>4, <1>6, JobKeepsHelpers

\* From the server on, a shutdown has both helpers behind it; what it does then
\* leaves the helpers alone, but for a watchdog that ends with its shutdown.
LEMMA LaterKeepsHelpers ==
  ASSUME HelperInv, NEW d \in AtWork, NEW j \in Shutdown, job' = [job EXCEPT ![d] = j],
         proc' = proc \/ (d \in Proc /\ proc' = [proc EXCEPT ![d] = NoProc]),
         job[d].at \in {"admin", "lookup", "docker", "terminate"},
         j.at \in {"docker", "terminate"} /\ ~lost => alive \subseteq {j.inst},
         UNCHANGED <<pidfile, started, boot, overlap>>, lost' = lost, alive' \subseteq alive
  PROVE  HelperInv'
  <1>1. /\ proc' = [p \in Proc |-> proc'[p]]
        /\ \A p \in Proc : proc'[p] = proc[p] \/ proc'[p] = NoProc
        /\ pidfile' \in [Helper -> Nat]
    BY DEF NoProc, HelperInv, HelperType
  <1>2. job'[d] = j
    BY AtWorkMember DEF HelperInv, HelperType
  <1>3. ~overlap => NoneUp("tunnel") /\ NoneUp("watchdog")
    BY DEF HelperInv, QuietInv, ShutdownOrder, TunnelDone, WatchdogDone
  <1> QED
    BY <1>1, <1>2, <1>3, JobKeepsHelpers DEF HasFound

LEMMA OffStepKeepsHelpers ==
  ASSUME OpsInv, HelperInv, NEW d \in Doer, OffStep(d)
  PROVE  HelperInv'
  <1>1. ASSUME NEW kind \in {"tunnel", "watchdog"}, Signal(d, kind) PROVE HelperInv'
    BY <1>1, SignalKeepsHelpers DEF Helper
  <1>2. ASSUME NEW kind \in {"tunnel", "watchdog"}, Unlink(d, kind) PROVE HelperInv'
    BY <1>2, UnlinkKeepsHelpers DEF Helper
  <1>3. job[d] \in Shutdown /\ job[d].inst \in Nat
    BY DEF HelperInv, HelperType, Shutdown
  <1>4. ASSUME NEW at \in JobPlace, JobGoto(d, at)
        PROVE  /\ job' = [job EXCEPT ![d] = [job[d] EXCEPT !.at = at]] /\ proc' = proc
               /\ [job[d] EXCEPT !.at = at] \in Shutdown
               /\ [job[d] EXCEPT !.at = at].at = at
               /\ [job[d] EXCEPT !.at = at].inst = job[d].inst
    BY <1>3, <1>4 DEF JobGoto, HelperInv, HelperType, Shutdown
  <1>5. ASSUME NEW at \in {"done", "failed"}, JobEnds(d, at)
        PROVE  /\ job' = [job EXCEPT ![d] = [NoJob EXCEPT !.at = at]]
               /\ proc' = proc \/ (d \in Proc /\ proc' = [proc EXCEPT ![d] = NoProc])
               /\ [NoJob EXCEPT !.at = at] \in Shutdown
               /\ [NoJob EXCEPT !.at = at].at = at
    BY <1>5 DEF JobEnds, NoJob, Shutdown, JobPlace, Doer
  <1>6. CASE AskServer(d)
    <2>1. /\ d \in AtWork /\ job[d].at = "admin"
          /\ UNCHANGED <<pidfile, started, boot, overlap, lost, alive>>
      BY <1>6 DEF AskServer, account, files, turnOn, trouble
    <2>2. CASE JobGoto(d, "lookup")
      BY <1>4, <2>1, <2>2, LaterKeepsHelpers DEF JobPlace
    <2>3. CASE JobEnds(d, "failed")
      BY <1>5, <2>1, <2>3, LaterKeepsHelpers
    <2> QED
      BY <1>6, <2>2, <2>3 DEF AskServer
  <1>7. CASE JobLookUp(d)
    <2>1. /\ d \in AtWork /\ job[d].at = "lookup"
          /\ UNCHANGED <<pidfile, started, boot, overlap, alive, lost>>
      BY <1>7 DEF JobLookUp, account, files, turnOn, Fine, Fault, trouble
    <2>2. CASE JobEnds(d, "done") \/ JobEnds(d, "failed")
      BY <1>5, <2>1, <2>2, LaterKeepsHelpers
    <2>3. ASSUME NEW i \in Found(job[d].ip) \ {0},
                 job' = [job EXCEPT ![d].inst = i,
                                    ![d].at = IF job[d].ip = 0 THEN "terminate" ELSE "docker"],
                 UNCHANGED <<offs, proc>>
          PROVE  HelperInv'
      <3> DEFINE j == [job[d] EXCEPT !.inst = i, !.at = IF job[d].ip = 0 THEN "terminate" ELSE "docker"]
      <3>1. i \in alive /\ i \in Nat
        BY <2>3 DEF Found, FirstListed, OpsInv, OpsType
      <3>2. j \in Shutdown /\ j.inst = i /\ job' = [job EXCEPT ![d] = j]
        BY <1>3, <2>3, <3>1 DEF Shutdown, JobPlace, HelperInv, HelperType
      <3>3. ~lost => alive \subseteq {i}
        BY <3>1 DEF OpsInv, AloneInAccount
      <3> HIDE DEF j
      <3> QED
        BY <2>1, <2>3, <3>2, <3>3, LaterKeepsHelpers
    <2> QED
      BY <1>7, <2>2, <2>3 DEF JobLookUp
  <1>8. CASE DockerDown(d)
    <2>1. /\ d \in AtWork /\ job[d].at = "docker" /\ JobGoto(d, "terminate")
          /\ UNCHANGED <<pidfile, started, boot, overlap, alive, lost>>
      BY <1>8 DEF DockerDown, files, turnOn, trouble
    <2>2. ~overlap /\ ~lost => alive \subseteq {job[d].inst}
      BY <2>1 DEF HelperInv, QuietInv, ShutdownOrder, HasFound
    <2>3. CASE overlap
      BY <1>4, <2>1, <2>3, JobKeepsHelpers DEF JobPlace, HelperInv, HelperType
    <2>4. CASE ~overlap
      BY <1>4, <2>1, <2>2, <2>4, LaterKeepsHelpers DEF JobPlace
    <2> QED
      BY <2>3, <2>4
  <1>9. CASE Terminate(d)
    <2>1. /\ d \in AtWork /\ job[d].at = "terminate" /\ alive' \subseteq alive
          /\ UNCHANGED <<pidfile, started, boot, overlap, lost>>
          /\ JobEnds(d, "done") \/ JobEnds(d, "failed")
      BY <1>9 DEF Terminate, EndInstance, files, turnOn, Fine, Fault, trouble
    <2> QED
      BY <1>5, <2>1, LaterKeepsHelpers
  <1> QED
    BY <1>1, <1>2, <1>6, <1>7, <1>8, <1>9 DEF OffStep

-----------------------------------------------------------------------------
(* The theorem.                                                            *)

LEMMA InitHelperInv == Init => HelperInv
  <1> SUFFICES ASSUME Init PROVE HelperInv
    OBVIOUS
  <1>1. /\ \A d \in Doer : job[d] = NoJob
        /\ job \in [Doer -> Shutdown]
    BY DEF Init, NoJob, Shutdown, JobPlace
  <1>2. pidfile \in [Helper -> Nat] /\ started \in Nat
    BY DEF Init, Helper
  <1>3. /\ \A p \in Proc : proc[p].up => p <= started /\ proc[p].kind \in Helper /\ pidfile[proc[p].kind] = p
        /\ proc = [p \in Proc |-> proc[p]] /\ \A p \in Proc : proc[p].ip \in Nat
    BY DEF Init, Helper, NoProc, Proc
  <1>4. AtWork = {}
    BY <1>1 DEF AtWork, NoJob
  <1> QED
    BY <1>1, <1>2, <1>3, <1>4 DEF HelperInv, HelperType, Unstarted, QuietInv, WorksAlone,
         FilesNameHelpers, ShutdownOrder, NoJob, Doer, Proc

LEMMA StepHelperInv == OpsInv /\ HelperInv /\ [Next]_vars => HelperInv'
  <1> SUFFICES ASSUME OpsInv, HelperInv, [Next]_vars PROVE HelperInv'
    OBVIOUS
  <1>1. CASE TurnOn
    BY <1>1, TurnOnKeepsHelpers
  <1>2. CASE TurnOff
    BY <1>2, TurnOffKeepsHelpers
  <1>3. CASE Status
    BY <1>3, FrameKeepsHelpers DEF Status, account, files, procs, turnOn, turnOff, trouble
  <1>4. CASE \E t \in Turn : BootStep(t)
    BY <1>4, BootStepKeepsHelpers
  <1>5. CASE \E d \in Doer : OffStep(d)
    BY <1>5, OffStepKeepsHelpers
  <1>6. ASSUME NEW p \in Proc, WatchdogExpires(p) PROVE HelperInv'
    BY <1>6, ExpiryKeepsHelpers
  <1>7. ASSUME NEW p \in Proc, WatchdogFails(p) \/ TunnelBreaks(p) PROVE HelperInv'
    BY <1>7, EndKeepsHelpers
    DEF WatchdogFails, TunnelBreaks, Fault, Fine, account, files, turnOn, turnOff, trouble
  <1>8. ASSUME NEW i \in Inst, InstanceGoes(i) \/ ServerStops(i) PROVE HelperInv'
    BY <1>8, FrameKeepsHelpers
    DEF InstanceGoes, ServerStops, EndInstance, Fault, files, procs, turnOn, turnOff
  <1>9. CASE UNCHANGED vars
    BY <1>9, FrameKeepsHelpers DEF vars, account, files, procs, turnOn, turnOff, trouble
  <1> QED
    BY <1>1, <1>2, <1>3, <1>4, <1>5, <1>6, <1>7, <1>8, <1>9 DEF Next

\* Which steps end a turn-off by hand, and what they find.
LEMMA DoneLeavesNothing ==
  ASSUME OpsInv, HelperInv, [Next]_vars,
         job[Off].at # "done", job'[Off].at = "done", ~job[Off].keep, ~overlap, ~lost
  PROVE  alive' = {} /\ \A p \in Proc : ~proc'[p].up
  <1>1. Off \in Doer /\ \A p \in Proc : p # Off
    BY DEF Doer, Off, Proc
  <1>2. job \in [Doer -> Shutdown]
    BY DEF HelperInv, HelperType
  <1>3. OffStep(Off)
    <2>1. job' # job
      OBVIOUS
    <2>2. ~TurnOn /\ ~Status /\ vars' # vars
      BY <2>1 DEF TurnOn, Status, vars, turnOff
    <2>3. ~TurnOff
      BY <1>1, <1>2 DEF TurnOff, NoJob
    <2>4. \A t \in Turn : ~BootStep(t)
      <3> SUFFICES ASSUME NEW t \in Turn, BootStep(t) PROVE FALSE
        OBVIOUS
      <3> QED
        <4>1. UNCHANGED <<job, overlap>>
          BY OneThreadMoves
        <4> QED
          BY <2>1, <4>1
    <2>5. \A p \in Proc : ~WatchdogExpires(p)
      BY <1>1, <1>2 DEF WatchdogExpires
    <2>6. \A p \in Proc : ~WatchdogFails(p) /\ ~TunnelBreaks(p)
      BY <2>1 DEF WatchdogFails, TunnelBreaks, turnOff
    <2>7. \A i \in Inst : ~InstanceGoes(i) /\ ~ServerStops(i)
      BY <2>1 DEF InstanceGoes, ServerStops, turnOff
    <2>8. PICK d \in Doer : OffStep(d)
      BY <2>2, <2>3, <2>4, <2>5, <2>6, <2>7 DEF Next
    <2>9. \A e \in Doer \ {d} : job'[e] = job[e]
      BY <1>2, <2>8 DEF OffStep, Signal, Unlink, AskServer, JobLookUp, DockerDown, Terminate,
                        JobGoto, JobEnds
    <2> QED
      BY <1>1, <2>8, <2>9
  <1>4. JobLookUp(Off) \/ Terminate(Off)
    <2>1. \A kind \in {"tunnel", "watchdog"} : ~Signal(Off, kind) /\ ~Unlink(Off, kind)
      BY <1>1, <1>2 DEF Signal, Unlink, After, Shutdown
    <2>2. ~AskServer(Off) /\ ~DockerDown(Off)
      BY <1>1, <1>2 DEF AskServer, DockerDown, JobGoto, JobEnds, NoJob, Shutdown
    <2> QED
      BY <1>3, <2>1, <2>2 DEF OffStep
  <1>5. Off \in AtWork /\ job[Off].at \in {"lookup", "terminate"}
    BY <1>4 DEF JobLookUp, Terminate
  <1>6. FilesNameHelpers /\ ShutdownOrder
    BY DEF HelperInv, QuietInv
  <1>7. \A p \in Proc : ~proc[p].up
    BY <1>5, <1>6 DEF FilesNameHelpers, ShutdownOrder, TunnelDone, WatchdogDone, NoneUp, Helper
  <1>8. proc' = proc
    BY <1>4 DEF JobLookUp, Terminate, JobEnds
  <1>9. CASE JobLookUp(Off)
    <2>1. 0 \in Found(job[Off].ip) /\ alive' = alive
      BY <1>1, <1>2, <1>9 DEF JobLookUp, JobEnds, NoJob, Shutdown, account
    <2>2. alive = {}
      BY <2>1 DEF Found, FirstListed, OpsInv, OpsType
    <2> QED
      BY <1>7, <1>8, <2>1, <2>2
  <1>10. CASE Terminate(Off)
    <2>1. alive' = alive \ {job[Off].inst} /\ job[Off].at = "terminate"
      BY <1>1, <1>2, <1>10 DEF Terminate, JobEnds, NoJob, EndInstance
    <2>2. alive \subseteq {job[Off].inst}
      BY <1>5, <1>6, <2>1 DEF ShutdownOrder, HasFound
    <2> QED
      BY <1>7, <1>8, <2>1, <2>2
  <1> QED
    BY <1>4, <1>9, <1>10

\* A turn-off by hand that runs to its end leaves no instance, no tunnel and no
\* watchdog (lambda_turn_off.py), unless two of the scripts were at work at the same
\* time then or earlier, or the answer to a launch was lost.
THEOREM OffMeansNothingLeft == Spec => TurnOffLeavesNothing
  <1>1. OpsInv /\ HelperInv /\ [Next]_vars =>
          [(/\ job[Off].at # "done" /\ job'[Off].at = "done" /\ ~job[Off].keep
            /\ ~overlap /\ ~lost)
             => alive' = {} /\ \A p \in Proc : ~proc'[p].up]_vars
    BY DoneLeavesNothing
  <1> QED
    BY <1>1, InitOpsInv, StepOpsInv, InitHelperInv, StepHelperInv, PTL
    DEF Spec, TurnOffLeavesNothing

-----------------------------------------------------------------------------
(* Types: the sets of instances and processes are large enough.            *)

\* What a bootstrap may still start, and where it may still rent.
PreRent == {"lookup", "health", "reuse", "rent"}
Cost(at) == IF at = "none" THEN 0 ELSE IF at \in {"wait", "watch"} THEN 1 ELSE 2

Budget ==
  /\ rented <= 1 + clicks + faults /\ started <= 2 + 2 * clicks
  /\ \A t \in Turn : boot[t].at \in PreRent => rented <= clicks + faults
  /\ \A t \in Turn : started + Cost(boot[t].at) <= 2 + 2 * clicks

Numbers ==
  /\ rented \in Nat /\ started \in Nat
  /\ clicks \in 0..MaxTurnOns /\ faults \in 0..MaxFaults

ProcRec == [kind : {"none", "tunnel", "watchdog"}, up : BOOLEAN, ip : Address, bound : BOOLEAN]
JobRec ==
  [at : {"none", "tunnel", "watchdog", "admin", "lookup", "docker", "terminate", "done", "failed"},
   ip : Address, inst : Address, keep : BOOLEAN, file : BOOLEAN]

AccountType ==
  /\ alive \subseteq 1..rented /\ serving \subseteq alive
  /\ envIp \in 0..rented /\ chatIp \in 0..rented
ProcType == pidfile \in [{"tunnel", "watchdog"} -> 0..started] /\ proc \in [Proc -> ProcRec]
BootType ==
  /\ bootState \in {"idle", "running", "ready", "error"}
  /\ boot \in [Turn -> [at : Place, ip : Address, inst : Address]]
JobType == job \in [Doer -> JobRec] /\ offs \in 0..MaxTurnOffs
FlagType == lost \in BOOLEAN /\ overlap \in BOOLEAN

TypeInv == Numbers /\ Budget /\ AccountType /\ ProcType /\ BootType /\ JobType /\ FlagType

LEMMA Ranges ==
  ASSUME Numbers, Budget
  PROVE  /\ 0..rented \subseteq Address /\ 1..rented \subseteq Address /\ rented \in {0} \cup Inst
         /\ started \in 0..(2 + 2 * MaxTurnOns)
  <1>1. /\ MaxTurnOns \in Nat /\ MaxFaults \in Nat /\ rented \in Nat /\ started \in Nat
        /\ clicks \in 0..MaxTurnOns /\ faults \in 0..MaxFaults
        /\ rented <= 1 + clicks + faults /\ started <= 2 + 2 * clicks
    BY OpsAssumption DEF Numbers, Budget
  <1>2. rented <= 1 + MaxTurnOns + MaxFaults /\ started <= 2 + 2 * MaxTurnOns
    BY ONLY <1>1
  <1> QED
    BY <1>1, <1>2 DEF Address, Inst

LEMMA TypeInvGives == TypeInv => TypeOK
  BY Ranges DEF TypeInv, TypeOK, Numbers, AccountType, ProcType, BootType, JobType, FlagType,
     ProcRec, JobRec, Place

-----------------------------------------------------------------------------
(* The numbers.                                                            *)

\* A step of one bootstrap; no other runs.
LEMMA ThreadKeepsBudget ==
  ASSUME OpsInv, Budget, Numbers, NEW t \in Turn, boot[t].at # "none",
         \A u \in Turn \ {t} : boot'[u] = boot[u],
         clicks' = clicks, faults' \in 0..MaxFaults, rented' \in Nat, started' \in Nat,
         rented' <= 1 + clicks + faults',
         boot'[t].at \in PreRent => rented' <= clicks + faults',
         started' + Cost(boot'[t].at) <= 2 + 2 * clicks
  PROVE  Numbers' /\ Budget'
  <1>1. \A u \in Turn \ {t} : boot'[u].at = "none"
    BY DEF OpsInv, OneBootstrap
  <1>2. Cost(boot'[t].at) \in 0..2 /\ Cost("none") = 0 /\ "none" \notin PreRent
    BY DEF Cost, PreRent
  <1>3. started' <= 2 + 2 * clicks
    BY <1>2 DEF Numbers
  <1>4. Numbers'
    BY DEF Numbers
  <1>5. Budget'
    BY <1>1, <1>2, <1>3 DEF Budget
  <1> QED
    BY <1>4, <1>5

\* A bootstrap that rents nothing and starts nothing.
LEMMA QuietThread ==
  ASSUME OpsInv, Budget, Numbers, NEW t \in Turn, boot[t].at # "none",
         \A u \in Turn \ {t} : boot'[u] = boot[u],
         UNCHANGED <<clicks, rented, started>>,
         faults' \in 0..MaxFaults, faults <= faults',
         Cost(boot'[t].at) <= Cost(boot[t].at),
         boot'[t].at \in PreRent => boot[t].at \in PreRent
  PROVE  Numbers' /\ Budget'
  <1>1. /\ rented <= 1 + clicks + faults /\ (boot[t].at \in PreRent => rented <= clicks + faults)
        /\ started + Cost(boot[t].at) <= 2 + 2 * clicks
    BY DEF Budget
  <1>2. Cost(boot'[t].at) \in 0..2 /\ Cost(boot[t].at) \in 0..2
    BY DEF Cost
  <1>3. /\ rented \in Nat /\ started \in Nat /\ clicks \in Nat /\ faults \in Nat /\ faults' \in Nat
    BY OpsAssumption DEF Numbers
  <1>4. rented' <= 1 + clicks + faults' /\ (boot'[t].at \in PreRent => rented' <= clicks + faults')
    <2>1. \A r, c, f, g \in Nat : f <= g /\ r <= 1 + c + f => r <= 1 + c + g
      OBVIOUS
    <2>2. \A r, c, f, g \in Nat : f <= g /\ r <= c + f => r <= c + g
      OBVIOUS
    <2>3. faults <= faults' /\ rented' = rented
      OBVIOUS
    <2>4. rented' <= 1 + clicks + faults'
      BY <1>1, <1>3, <2>1, <2>3
    <2>5. rented <= clicks + faults => rented' <= clicks + faults'
      BY <1>3, <2>2, <2>3
    <2> QED
      BY <1>1, <2>4, <2>5
  <1> DEFINE c == Cost(boot[t].at)
  <1>5. PICK d : d = Cost(boot'[t].at)
    OBVIOUS
  <1>6. d \in Nat /\ c \in Nat /\ d <= c /\ started + c <= 2 + 2 * clicks
    BY <1>1, <1>2, <1>5
  <1> HIDE DEF c
  <1>7. started + d <= 2 + 2 * clicks
    BY ONLY <1>3, <1>6
  <1>8. started' + Cost(boot'[t].at) <= 2 + 2 * clicks /\ rented' \in Nat /\ started' \in Nat
    BY <1>3, <1>5, <1>7
  <1> QED
    BY <1>4, <1>8, ThreadKeepsBudget

LEMMA FaultFacts ==
  ASSUME Numbers
  PROVE  /\ Fine => faults' \in 0..MaxFaults /\ faults <= faults'
         /\ Fault => faults' \in 0..MaxFaults /\ faults <= faults'
         /\ LostAnswer => faults' \in 0..MaxFaults /\ faults' = faults + 1
         /\ UNCHANGED trouble => faults' \in 0..MaxFaults /\ faults <= faults'
  BY OpsAssumption DEF Numbers, Fine, Fault, LostAnswer, trouble

LEMMA Moves ==
  ASSUME BootType, NEW t \in Turn
  PROVE  /\ \A at : Goto(t, at) => /\ boot'[t].at = at /\ \A u \in Turn \ {t} : boot'[u] = boot[u]
                                   /\ clicks' = clicks
         /\ \A status : Ends(t, status) => /\ boot'[t].at = "none" /\ clicks' = clicks
                                           /\ \A u \in Turn \ {t} : boot'[u] = boot[u]
  BY DEF BootType, Goto, Ends, NoBoot

LEMMA EnsureStarts ==
  ASSUME Numbers, NEW kind, NEW ip, Ensure(kind, ip)
  PROVE  started' \in Nat /\ started <= started' /\ started' <= started + 1
  BY DEF Numbers, Ensure, procs

LEMMA BootStepNumbers ==
  ASSUME OpsInv, TypeInv, NEW t \in Turn, BootStep(t)
  PROVE  Numbers' /\ Budget'
  <1>0. Numbers /\ Budget /\ BootType
    BY DEF TypeInv
  <1>1. /\ Cost("none") = 0 /\ Cost("wait") = 1 /\ Cost("watch") = 1 /\ Cost("rent") = 2
        /\ \A at \in {"lookup", "health", "reuse", "rent", "setenv", "serve", "tunnel"} : Cost(at) = 2
    BY DEF Cost
  <1>2. /\ PreRent = {"lookup", "health", "reuse", "rent"}
    BY DEF PreRent
  <1>e. ASSUME NEW status, Ends(t, status), boot[t].at # "none", UNCHANGED <<rented, started>>,
               faults' \in 0..MaxFaults, faults <= faults'
        PROVE  Numbers' /\ Budget'
    <2>1. Cost(boot'[t].at) <= Cost(boot[t].at)
      BY <1>0, <1>1, <1>e, Moves DEF Cost
    <2> QED
      BY <1>0, <1>2, <1>e, <2>1, Moves, QuietThread
  <1>4. CASE LookUp(t)
    <2>1. /\ boot[t].at = "lookup" /\ UNCHANGED <<rented, started>>
      BY <1>4 DEF LookUp, Step, account, procs
    <2>2. CASE Ends(t, "error") /\ Fault
      BY <1>0, <1>e, <2>1, <2>2, FaultFacts
    <2>3. ASSUME NEW i,
                 boot' = [boot EXCEPT ![t] = [at |-> "health", ip |-> WithEnvFile(chatIp), inst |-> i]],
                 UNCHANGED <<bootState, clicks>>, Fine
          PROVE  Numbers' /\ Budget'
      <3>1. boot'[t].at = "health" /\ \A u \in Turn \ {t} : boot'[u] = boot[u]
        BY <1>0, <2>3 DEF BootType
      <3> QED
        BY <1>0, <1>1, <1>2, <2>1, <2>3, <3>1, QuietThread, FaultFacts
    <2> QED
      BY <1>4, <2>2, <2>3 DEF LookUp
  <1>5. CASE CheckHealth(t)
    <2>1. boot[t].at = "health" /\ UNCHANGED <<rented, started, trouble>>
      BY <1>5 DEF CheckHealth, Step, account, procs
    <2>2. Goto(t, "tunnel") \/ Goto(t, "rent") \/ Goto(t, "reuse") \/ Ends(t, "error")
      BY <1>5 DEF CheckHealth
    <2>3. ASSUME NEW at \in {"tunnel", "rent", "reuse"}, Goto(t, at) PROVE Numbers' /\ Budget'
      <3>1. boot'[t].at = at /\ clicks' = clicks /\ \A u \in Turn \ {t} : boot'[u] = boot[u]
        BY <1>0, <2>3, Moves
      <3>2. Cost(boot'[t].at) = 2 /\ Cost(boot[t].at) = 2 /\ boot[t].at \in PreRent /\ boot[t].at # "none"
        BY <1>1, <1>2, <2>1, <3>1
      <3>3. faults' \in 0..MaxFaults /\ faults <= faults'
        BY <1>0, <2>1, FaultFacts
      <3> QED
        BY <1>0, <2>1, <3>1, <3>2, <3>3, QuietThread
    <2> QED
      BY <1>0, <1>e, <2>1, <2>2, <2>3, FaultFacts
  <1>6. CASE Reuse(t)
    <2>1. boot[t].at = "reuse" /\ UNCHANGED <<rented, started>>
      BY <1>6 DEF Reuse, Step, account, procs
    <2>2. CASE Ends(t, "error") /\ (Fine \/ Fault)
      BY <1>0, <1>e, <2>1, <2>2, FaultFacts
    <2>3. ASSUME NEW i,
                 boot' = [boot EXCEPT ![t].inst = i, ![t].at = "setenv"],
                 UNCHANGED <<bootState, clicks>>, Fine
          PROVE  Numbers' /\ Budget'
      <3>1. boot'[t].at = "setenv" /\ \A u \in Turn \ {t} : boot'[u] = boot[u]
        BY <1>0, <2>3 DEF BootType
      <3>2. /\ Cost(boot'[t].at) = 2 /\ Cost(boot[t].at) = 2
            /\ boot'[t].at \notin PreRent /\ boot[t].at # "none"
        BY <1>1, <1>2, <2>1, <3>1
      <3>3. faults' \in 0..MaxFaults /\ faults <= faults' /\ clicks' = clicks
        BY <1>0, <2>3, FaultFacts
      <3> QED
        BY <1>0, <2>1, <3>1, <3>2, <3>3, QuietThread
    <2> QED
      BY <1>6, <2>2, <2>3 DEF Reuse
  <1>7. CASE Rent(t)
    <2>1. /\ boot[t].at = "rent" /\ UNCHANGED started
          /\ rented \in Nat /\ started \in Nat /\ clicks \in Nat /\ faults \in Nat
          /\ rented <= clicks + faults /\ started + 2 <= 2 + 2 * clicks
      <3>1. boot[t].at = "rent" /\ UNCHANGED started
        BY <1>7 DEF Rent, Step, procs
      <3>2. rented <= clicks + faults /\ started + Cost(boot[t].at) <= 2 + 2 * clicks
        BY <1>0, <1>2, <3>1 DEF Budget
      <3>3. rented \in Nat /\ started \in Nat /\ clicks \in Nat /\ faults \in Nat
        BY <1>0, OpsAssumption DEF Numbers
      <3> QED
        BY <1>1, <3>1, <3>2, <3>3
    <2>2. CASE /\ rented' = rented + 1
               /\ boot' = [boot EXCEPT ![t].inst = rented', ![t].at = "setenv"]
               /\ UNCHANGED <<bootState, clicks>> /\ Fine
      <3>1. boot'[t].at = "setenv" /\ \A u \in Turn \ {t} : boot'[u] = boot[u]
        BY <1>0, <2>2 DEF BootType
      <3>2. faults' = faults /\ faults' \in 0..MaxFaults
        BY <1>0, <2>2 DEF Fine, trouble, Numbers
      <3>3. rented' \in Nat /\ started' \in Nat /\ rented' <= 1 + clicks + faults'
        BY <2>1, <2>2, <3>2
      <3>4. started' + Cost(boot'[t].at) <= 2 + 2 * clicks /\ boot'[t].at \notin PreRent
        BY <1>1, <1>2, <2>1, <3>1
      <3> QED
        BY <1>0, <2>1, <2>2, <3>1, <3>2, <3>3, <3>4, ThreadKeepsBudget
    <2>3. CASE rented' = rented + 1 /\ LostAnswer /\ (Goto(t, "rent") \/ Ends(t, "error"))
      <3>1. /\ boot'[t].at \in {"rent", "none"} /\ clicks' = clicks
            /\ \A u \in Turn \ {t} : boot'[u] = boot[u]
        BY <1>0, <2>3, Moves
      <3>2. faults' = faults + 1 /\ faults' \in 0..MaxFaults
        BY <1>0, <2>3, FaultFacts
      <3>3. /\ rented' \in Nat /\ started' \in Nat
            /\ rented' <= clicks + faults' /\ rented' <= 1 + clicks + faults'
        BY <2>1, <2>3, <3>2
      <3>4. started' + Cost(boot'[t].at) <= 2 + 2 * clicks
        BY <1>1, <2>1, <3>1
      <3> QED
        BY <1>0, <2>1, <3>1, <3>2, <3>3, <3>4, ThreadKeepsBudget
    <2>4. CASE Ends(t, "error") /\ Fault /\ UNCHANGED <<rented, alive>>
      BY <1>0, <1>e, <2>1, <2>4, FaultFacts
    <2> QED
      BY <1>7, <2>2, <2>3, <2>4 DEF Rent
  <1>8. CASE SetEnv(t)
    <2>1. boot[t].at = "setenv" /\ UNCHANGED <<rented, started>> /\ (Fine \/ Fault)
      BY <1>8 DEF SetEnv, Step, account, procs
    <2>2. CASE Goto(t, "serve")
      <3>1. boot'[t].at = "serve" /\ clicks' = clicks /\ \A u \in Turn \ {t} : boot'[u] = boot[u]
        BY <1>0, <2>2, Moves
      <3>2. /\ Cost(boot'[t].at) = 2 /\ Cost(boot[t].at) = 2
            /\ boot'[t].at \notin PreRent /\ boot[t].at # "none"
        BY <1>1, <1>2, <2>1, <3>1
      <3>3. faults' \in 0..MaxFaults /\ faults <= faults'
        BY <1>0, <2>1, FaultFacts
      <3> QED
        BY <1>0, <2>1, <3>1, <3>2, <3>3, QuietThread
    <2>3. CASE Ends(t, "error")
      BY <1>0, <1>e, <2>1, <2>3, FaultFacts
    <2> QED
      BY <1>8, <2>2, <2>3 DEF SetEnv
  <1>9. CASE Serve(t)
    <2>1. boot[t].at = "serve" /\ UNCHANGED <<rented, started>>
      BY <1>9 DEF Serve, Step, procs
    <2>2. CASE Ends(t, "error") /\ (Fine \/ Fault)
      BY <1>0, <1>e, <2>1, <2>2, FaultFacts
    <2>3. CASE /\ boot' = [boot EXCEPT ![t].ip = WithEnvFile(@), ![t].at = "tunnel"]
               /\ UNCHANGED <<bootState, clicks>> /\ Fine
      <3>1. boot'[t].at = "tunnel" /\ \A u \in Turn \ {t} : boot'[u] = boot[u]
        BY <1>0, <2>3 DEF BootType
      <3>2. /\ Cost(boot'[t].at) = 2 /\ Cost(boot[t].at) = 2
            /\ boot'[t].at \notin PreRent /\ boot[t].at # "none"
        BY <1>1, <1>2, <2>1, <3>1
      <3>3. faults' \in 0..MaxFaults /\ faults <= faults' /\ clicks' = clicks
        BY <1>0, <2>3, FaultFacts
      <3> QED
        BY <1>0, <2>1, <3>1, <3>2, <3>3, QuietThread
    <2> QED
      BY <1>9, <2>2, <2>3 DEF Serve
  <1>10. CASE EnsureTunnel(t)
    <2>1. /\ boot[t].at = "tunnel" /\ UNCHANGED <<rented, trouble>>
          /\ boot'[t].at = "wait" /\ clicks' = clicks /\ \A u \in Turn \ {t} : boot'[u] = boot[u]
          /\ started' \in Nat /\ started' <= started + 1
      BY <1>0, <1>10, Moves, EnsureStarts DEF EnsureTunnel, Step, account
    <2>2. /\ rented \in Nat /\ started \in Nat /\ clicks \in Nat /\ rented <= 1 + clicks + faults
          /\ started + Cost(boot[t].at) <= 2 + 2 * clicks /\ faults' = faults /\ faults' \in 0..MaxFaults
      BY <1>0, <2>1, OpsAssumption DEF Numbers, Budget, trouble
    <2>3. started' + Cost(boot'[t].at) <= 2 + 2 * clicks /\ boot'[t].at \notin PreRent
      BY <1>1, <1>2, <2>1, <2>2
    <2> QED
      BY <1>0, <2>1, <2>2, <2>3, ThreadKeepsBudget
  <1>11. CASE WaitForHealth(t)
    <2>1. boot[t].at = "wait" /\ UNCHANGED <<rented, started, trouble>>
      BY <1>11 DEF WaitForHealth, Step, account, procs
    <2>2. CASE Goto(t, "watch")
      <3>1. boot'[t].at = "watch" /\ clicks' = clicks /\ \A u \in Turn \ {t} : boot'[u] = boot[u]
        BY <1>0, <2>2, Moves
      <3> QED
        BY <1>0, <1>1, <1>2, <2>1, <3>1, QuietThread, FaultFacts
    <2>3. CASE Ends(t, "error")
      BY <1>0, <1>e, <2>1, <2>3, FaultFacts
    <2> QED
      BY <1>11, <2>2, <2>3 DEF WaitForHealth
  <1>12. CASE EnsureWatchdog(t)
    <2>1. /\ boot[t].at = "watch" /\ UNCHANGED <<rented, trouble>>
          /\ boot'[t].at = "none" /\ clicks' = clicks /\ \A u \in Turn \ {t} : boot'[u] = boot[u]
          /\ started' \in Nat /\ started' <= started + 1
      BY <1>0, <1>12, Moves, EnsureStarts DEF EnsureWatchdog, Step, account
    <2>2. /\ rented \in Nat /\ started \in Nat /\ clicks \in Nat /\ rented <= 1 + clicks + faults
          /\ started + Cost(boot[t].at) <= 2 + 2 * clicks /\ faults' = faults /\ faults' \in 0..MaxFaults
      BY <1>0, <2>1, OpsAssumption DEF Numbers, Budget, trouble
    <2>3. started' + Cost(boot'[t].at) <= 2 + 2 * clicks /\ boot'[t].at \notin PreRent
      BY <1>1, <1>2, <2>1, <2>2
    <2> QED
      BY <1>0, <2>1, <2>2, <2>3, ThreadKeepsBudget
  <1> QED
    BY <1>4, <1>5, <1>6, <1>7, <1>8, <1>9, <1>10, <1>11, <1>12 DEF BootStep

LEMMA TurnOnNumbers ==
  ASSUME OpsInv, TypeInv, TurnOn
  PROVE  Numbers' /\ Budget'
  <1>0. Numbers /\ Budget /\ BootType
    BY DEF TypeInv
  <1>1. /\ rented \in Nat /\ started \in Nat /\ clicks \in Nat /\ faults \in Nat
        /\ MaxTurnOns \in Nat /\ clicks <= MaxTurnOns
        /\ rented <= 1 + clicks + faults /\ started <= 2 + 2 * clicks
    BY <1>0, OpsAssumption DEF Numbers, Budget
  <1>2. clicks < MaxTurnOns /\ clicks' = clicks + 1 /\ UNCHANGED <<rented, started, faults>>
    BY DEF TurnOn, account, procs, trouble
  <1>3. /\ clicks' \in 0..MaxTurnOns /\ rented <= clicks' + faults /\ rented <= 1 + clicks' + faults
        /\ started + 2 <= 2 + 2 * clicks' /\ started + 1 <= 2 + 2 * clicks'
        /\ started + 0 <= 2 + 2 * clicks' /\ started <= 2 + 2 * clicks'
    BY ONLY <1>1, <1>2
  <1>4. \A at : Cost(at) \in {0, 1, 2}
    BY DEF Cost
  <1>5. \A at : started + Cost(at) <= 2 + 2 * clicks'
    BY <1>3, <1>4
  <1>6. Numbers'
    BY <1>0, <1>2, <1>3 DEF Numbers
  <1>7. Budget'
    BY <1>2, <1>3, <1>5 DEF Budget
  <1> QED
    BY <1>6, <1>7

LEMMA OthersNumbers ==
  ASSUME Numbers, Budget, UNCHANGED <<rented, started, clicks, boot>>,
         faults' \in 0..MaxFaults, faults <= faults'
  PROVE  Numbers' /\ Budget'
  <1>1. /\ rented \in Nat /\ clicks \in Nat /\ faults \in Nat /\ faults' \in Nat
        /\ rented <= 1 + clicks + faults /\ faults <= faults'
    BY OpsAssumption DEF Numbers, Budget
  <1>a. \A r, c, f, g \in Nat : f <= g /\ r <= 1 + c + f => r <= 1 + c + g
    OBVIOUS
  <1>b. \A r, c, f, g \in Nat : f <= g /\ r <= c + f => r <= c + g
    OBVIOUS
  <1>2. rented <= 1 + clicks + faults' /\ (rented <= clicks + faults => rented <= clicks + faults')
    BY <1>1, <1>a, <1>b
  <1>3. Numbers'
    BY DEF Numbers
  <1>4. Budget'
    BY <1>2 DEF Budget
  <1> QED
    BY <1>3, <1>4

\* A step of anything but a bootstrap.
Outside ==
  \/ Status \/ TurnOff
  \/ \E d \in Doer : OffStep(d)
  \/ \E p \in Proc : WatchdogExpires(p) \/ WatchdogFails(p) \/ TunnelBreaks(p)
  \/ \E i \in Inst : InstanceGoes(i) \/ ServerStops(i)

LEMMA OutsideLeaves ==
  ASSUME Outside
  PROVE  /\ UNCHANGED <<rented, started, clicks, boot, bootState>>
         /\ Fine \/ Fault \/ UNCHANGED trouble
  <1> USE DEF account, files, procs, turnOn, turnOff, trouble
  <1>1. CASE Status \/ TurnOff
    BY <1>1 DEF Status, TurnOff
  <1>2. ASSUME NEW d \in Doer, OffStep(d)
        PROVE  /\ UNCHANGED <<rented, started, clicks, boot, bootState>>
               /\ Fine \/ Fault \/ UNCHANGED trouble
    <2>1. ASSUME NEW kind \in {"tunnel", "watchdog"}, Signal(d, kind) \/ Unlink(d, kind)
          PROVE  UNCHANGED <<rented, started, clicks, boot, bootState, trouble>>
      BY <2>1 DEF Signal, Unlink
    <2>2. CASE AskServer(d) \/ DockerDown(d)
      BY <2>2 DEF AskServer, DockerDown
    <2>3. CASE JobLookUp(d) \/ Terminate(d)
      BY <2>3 DEF JobLookUp, Terminate
    <2> QED
      BY <1>2, <2>1, <2>2, <2>3 DEF OffStep
  <1>3. ASSUME NEW p \in Proc, WatchdogExpires(p) \/ WatchdogFails(p) \/ TunnelBreaks(p)
        PROVE  /\ UNCHANGED <<rented, started, clicks, boot, bootState>>
               /\ Fine \/ Fault \/ UNCHANGED trouble
    BY <1>3 DEF WatchdogExpires, WatchdogFails, TunnelBreaks
  <1>4. ASSUME NEW i \in Inst, InstanceGoes(i) \/ ServerStops(i)
        PROVE  /\ UNCHANGED <<rented, started, clicks, boot, bootState>>
               /\ Fine \/ Fault \/ UNCHANGED trouble
    BY <1>4 DEF InstanceGoes, ServerStops
  <1> QED
    BY <1>1, <1>2, <1>3, <1>4 DEF Outside

LEMMA NumbersKept ==
  ASSUME OpsInv, TypeInv, Next
  PROVE  Numbers' /\ Budget'
  <1>1. CASE Outside
    <2>1. faults' \in 0..MaxFaults /\ faults <= faults'
      BY <1>1, OutsideLeaves, FaultFacts DEF TypeInv
    <2> QED
      BY <1>1, <2>1, OutsideLeaves, OthersNumbers DEF TypeInv
  <1> QED
    BY <1>1, TurnOnNumbers, BootStepNumbers DEF Next, Outside

-----------------------------------------------------------------------------
(* The values.                                                             *)

LEMMA AccountKept ==
  ASSUME TypeInv, Next, Numbers', Budget'
  PROVE  AccountType'
  <1> USE DEF account, files, procs, turnOn, turnOff, trouble
  <1>0. AccountType /\ rented \in Nat /\ rented' \in Nat
    BY DEF TypeInv, Numbers
  <1>1. CASE UNCHANGED <<rented, alive, serving, envIp, chatIp>>
    BY <1>0, <1>1 DEF AccountType
  <1>2. CASE /\ UNCHANGED <<rented, envIp, chatIp>> /\ alive' \subseteq alive
             /\ serving' \subseteq serving /\ serving' \subseteq alive'
    BY <1>0, <1>2 DEF AccountType
  <1>3. CASE TurnOn \/ TurnOff
    BY <1>1, <1>3 DEF TurnOn, TurnOff
  <1>4. CASE Status
    BY <1>0, <1>4 DEF Status, WithEnvFile, AccountType
  <1>5. ASSUME NEW t \in Turn, BootStep(t) PROVE AccountType'
    <2>1. CASE \/ LookUp(t) \/ CheckHealth(t) \/ Reuse(t)
               \/ WaitForHealth(t) \/ EnsureTunnel(t) \/ EnsureWatchdog(t)
      <3>1. UNCHANGED <<rented, alive, serving, envIp, chatIp>>
        BY <2>1 DEF LookUp, CheckHealth, Reuse, WaitForHealth, EnsureTunnel, EnsureWatchdog
      <3> QED
        BY <3>1, <1>1
    <2>2. CASE Rent(t)
      <3>1. /\ UNCHANGED <<serving, envIp, chatIp>>
            /\ \/ rented' = rented + 1 /\ alive' = alive \cup {rented'}
               \/ UNCHANGED <<rented, alive>>
        BY <2>2 DEF Rent
      <3>2. CASE rented' = rented + 1 /\ alive' = alive \cup {rented'}
        <4>1. 0..rented \subseteq 0..rented' /\ alive' \subseteq 1..rented'
          BY <1>0, <3>2 DEF AccountType
        <4> QED
          BY <1>0, <3>1, <3>2, <4>1 DEF AccountType
      <3> QED
        BY <1>1, <3>1, <3>2
    <2>3. CASE SetEnv(t)
      <3>1. /\ UNCHANGED <<rented, alive, serving, chatIp>>
            /\ envIp' = envIp \/ envIp' \in alive
        BY <2>3 DEF SetEnv, HasIp
      <3>2. alive \subseteq 0..rented
        BY <1>0 DEF AccountType
      <3> QED
        BY <1>0, <3>1, <3>2 DEF AccountType
    <2>4. CASE Serve(t)
      <3>1. /\ UNCHANGED <<rented, alive, envIp, chatIp>>
            /\ serving' = serving \/ \E i \in alive : serving' = serving \cup {i}
        BY <2>4 DEF Serve, Reachable
      <3> QED
        BY <1>0, <3>1 DEF AccountType
    <2> QED
      BY <1>5, <2>1, <2>2, <2>3, <2>4 DEF BootStep
  <1>6. ASSUME NEW d \in Doer, OffStep(d) PROVE AccountType'
    <2>1. ASSUME NEW kind \in {"tunnel", "watchdog"}, Signal(d, kind) \/ Unlink(d, kind)
          PROVE  AccountType'
      BY <1>1, <2>1 DEF Signal, Unlink
    <2>2. CASE AskServer(d) \/ JobLookUp(d)
      BY <1>1, <2>2 DEF AskServer, JobLookUp
    <2>3. CASE DockerDown(d)
      BY <1>0, <1>2, <2>3 DEF DockerDown, AccountType
    <2>4. CASE Terminate(d)
      BY <1>0, <1>2, <2>4 DEF Terminate, EndInstance, AccountType
    <2> QED
      BY <1>6, <2>1, <2>2, <2>3, <2>4 DEF OffStep
  <1>7. ASSUME NEW p \in Proc, WatchdogExpires(p) \/ WatchdogFails(p) \/ TunnelBreaks(p)
        PROVE  AccountType'
    BY <1>1, <1>7 DEF WatchdogExpires, WatchdogFails, TunnelBreaks
  <1>8. ASSUME NEW i \in Inst, InstanceGoes(i) \/ ServerStops(i)
        PROVE  AccountType'
    BY <1>0, <1>2, <1>8 DEF InstanceGoes, ServerStops, EndInstance, AccountType
  <1> QED
    BY <1>3, <1>4, <1>5, <1>6, <1>7, <1>8 DEF Next

\* The processes: a stopped one is forgotten, a new one gets the next number.
LEMMA Stopped ==
  ASSUME ProcType, UNCHANGED <<pidfile, started>>,
         NEW S, proc' = [p \in Proc |-> IF p \in S THEN NoProc ELSE proc[p]]
  PROVE  ProcType'
  <1>1. NoProc \in ProcRec
    BY DEF NoProc, ProcRec, Address
  <1> QED
    BY <1>1 DEF ProcType

LEMMA NewProc ==
  ASSUME NEW kind \in {"tunnel", "watchdog"}, NEW ip \in Address, NEW b \in BOOLEAN
  PROVE  [kind |-> kind, up |-> TRUE, ip |-> ip, bound |-> b] \in ProcRec
  BY DEF ProcRec

LEMMA EnsureProcs ==
  ASSUME ProcType, NEW kind \in {"tunnel", "watchdog"}, NEW ip \in Address, Ensure(kind, ip),
         started \in Nat, started' \in Nat
  PROVE  ProcType'
  <1>1. CASE UNCHANGED <<procs, pidfile>>
    BY <1>1 DEF procs, ProcType
  <1>2. CASE ~UNCHANGED <<procs, pidfile>>
    <2>1. /\ started' = started + 1 /\ pidfile' = [pidfile EXCEPT ![kind] = started']
          /\ proc' = [proc EXCEPT ![started'] = [kind |-> kind, up |-> TRUE, ip |-> ip,
                        bound |-> kind = "tunnel" /\ ip \in alive /\ Bound = {}]]
      BY <1>2 DEF Ensure
    <2>2. PICK b \in BOOLEAN : b = (kind = "tunnel" /\ ip \in alive /\ Bound = {})
      OBVIOUS
    <2>3. PICK r \in ProcRec : proc' = [proc EXCEPT ![started'] = r]
      BY <2>1, <2>2, NewProc
    <2>4. pidfile' \in [{"tunnel", "watchdog"} -> 0..started']
      BY <2>1 DEF ProcType
    <2>5. proc' \in [Proc -> ProcRec]
      BY <2>3 DEF ProcType
    <2> QED
      BY <2>4, <2>5 DEF ProcType
  <1> QED
    BY <1>1, <1>2

LEMMA ProcKept ==
  ASSUME TypeInv, Next, Numbers'
  PROVE  ProcType'
  <1> USE DEF account, files, procs, turnOn, turnOff, trouble
  <1>0. ProcType /\ BootType /\ started \in Nat /\ started' \in Nat
    BY DEF TypeInv, Numbers
  <1>1. CASE UNCHANGED <<pidfile, started, proc>>
    BY <1>0, <1>1 DEF ProcType
  <1>2. ASSUME NEW p \in Doer, proc' = [proc EXCEPT ![p] = NoProc], UNCHANGED <<pidfile, started>>
        PROVE  ProcType'
    <2>1. proc' = [q \in Proc |-> IF q \in {p} THEN NoProc ELSE proc[q]]
      BY <1>0, <1>2 DEF ProcType
    <2> QED
      BY <1>0, <1>2, <2>1, Stopped
  <1>3. CASE TurnOn \/ TurnOff \/ Status
    BY <1>1, <1>3 DEF TurnOn, TurnOff, Status
  <1>4. ASSUME NEW t \in Turn, BootStep(t) PROVE ProcType'
    <2>0. boot[t].ip \in Address
      BY <1>0 DEF BootType
    <2>1. CASE LookUp(t) \/ CheckHealth(t) \/ Reuse(t) \/ Rent(t) \/ Serve(t) \/ WaitForHealth(t)
      <3>1. UNCHANGED <<pidfile, started, proc>>
        BY <2>1 DEF LookUp, CheckHealth, Reuse, Rent, Serve, WaitForHealth
      <3> QED
        BY <3>1, <1>1
    <2>2. CASE SetEnv(t)
      BY <1>1, <2>2 DEF SetEnv
    <2>3. CASE EnsureTunnel(t)
      BY <1>0, <2>0, <2>3, EnsureProcs DEF EnsureTunnel
    <2>4. CASE EnsureWatchdog(t)
      BY <1>0, <2>0, <2>4, EnsureProcs DEF EnsureWatchdog
    <2> QED
      BY <1>4, <2>1, <2>2, <2>3, <2>4 DEF BootStep
  <1>5. ASSUME NEW d \in Doer, OffStep(d) PROVE ProcType'
    <2>1. ASSUME NEW at, JobEnds(d, at), UNCHANGED <<pidfile, started>> PROVE ProcType'
      BY <1>1, <1>2, <2>1 DEF JobEnds
    <2>2. ASSUME NEW kind \in {"tunnel", "watchdog"}, Signal(d, kind) PROVE ProcType'
      <3>1. /\ proc' = [p \in Proc |-> IF p = pidfile[kind] THEN NoProc ELSE proc[p]]
            /\ UNCHANGED <<pidfile, started>>
        BY <2>2 DEF Signal
      <3>2. proc' = [p \in Proc |-> IF p \in {pidfile[kind]} THEN NoProc ELSE proc[p]]
        BY <3>1
      <3> QED
        BY <1>0, <3>1, <3>2, Stopped
    <2>3. ASSUME NEW kind \in {"tunnel", "watchdog"}, Unlink(d, kind) PROVE ProcType'
      BY <1>0, <2>3 DEF Unlink, ProcType
    <2>4. CASE AskServer(d)
      BY <1>1, <2>1, <2>4 DEF AskServer, JobGoto
    <2>5. CASE JobLookUp(d)
      BY <1>1, <2>1, <2>5 DEF JobLookUp
    <2>6. CASE DockerDown(d)
      BY <1>1, <2>6 DEF DockerDown, JobGoto
    <2>7. CASE Terminate(d)
      BY <2>1, <2>7 DEF Terminate
    <2> QED
      BY <1>5, <2>2, <2>3, <2>4, <2>5, <2>6, <2>7 DEF OffStep
  <1>6. ASSUME NEW p \in Proc, WatchdogExpires(p) \/ WatchdogFails(p) \/ TunnelBreaks(p)
        PROVE  ProcType'
    BY <1>1, <1>2, <1>6 DEF WatchdogExpires, WatchdogFails, TunnelBreaks, Doer
  <1>7. ASSUME NEW i \in Inst, InstanceGoes(i) \/ ServerStops(i) PROVE ProcType'
    BY <1>1, <1>7 DEF InstanceGoes, ServerStops
  <1> QED
    BY <1>3, <1>4, <1>5, <1>6, <1>7 DEF Next

\* The bootstraps: the addresses they carry were rented.
LEMMA Addresses ==
  ASSUME TypeInv
  PROVE  /\ alive \subseteq Address /\ envIp \in Address /\ chatIp \in Address /\ 0 \in Address
         /\ \A ip \in Address : WithEnvFile(ip) \in Address
         /\ \A ip : Found(ip) \subseteq Address /\ FirstListed \subseteq Address
  <1>1. 1..rented \subseteq Address /\ 0..rented \subseteq Address
    BY Ranges DEF TypeInv
  <1>2. /\ alive \subseteq Address /\ envIp \in Address /\ chatIp \in Address /\ 0 \in Address
    BY <1>1 DEF TypeInv, AccountType, Address
  <1> QED
    BY <1>2 DEF WithEnvFile, Found, FirstListed

LEMMA ThreadMoves ==
  ASSUME BootType, NEW t \in Turn
  PROVE  /\ \A at \in Place : Goto(t, at) => BootType'
         /\ \A status \in {"ready", "error"} : Ends(t, status) => BootType'
         /\ \A at \in Place, ip \in Address, i \in Address :
              boot' = [boot EXCEPT ![t] = [at |-> at, ip |-> ip, inst |-> i]] /\ bootState' = bootState
                => BootType'
  BY DEF BootType, Goto, Ends, NoBoot, Place, Address

LEMMA BootKept ==
  ASSUME TypeInv, Next, Numbers', Budget'
  PROVE  BootType'
  <1>0. /\ BootType /\ chatIp \in Address
        /\ \A ip \in Address : WithEnvFile(ip) \in Address
        /\ \A ip : Found(ip) \subseteq Address /\ FirstListed \subseteq Address
    BY Addresses DEF TypeInv
  <1>1. CASE Outside
    BY <1>0, <1>1, OutsideLeaves DEF BootType
  <1>2. CASE TurnOn
    <2>1. clicks' \in Turn
      BY <1>2, OpsAssumption DEF TurnOn, TypeInv, Numbers, Turn
    <2> QED
      BY <1>0, <1>2, <2>1 DEF TurnOn, BootType, Place
  <1>3. ASSUME NEW t \in Turn, BootStep(t) PROVE BootType'
    <2>1. /\ boot[t].ip \in Address /\ boot[t].inst \in Address
          /\ boot[t] = [at |-> boot[t].at, ip |-> boot[t].ip, inst |-> boot[t].inst]
      BY <1>0 DEF BootType
    <2>2. {"lookup", "health", "reuse", "rent", "setenv", "serve", "tunnel", "wait", "watch"} \subseteq Place
      BY DEF Place
    <2>3. CASE LookUp(t)
      BY <1>0, <2>2, <2>3, ThreadMoves DEF LookUp
    <2>4. CASE CheckHealth(t)
      <3>1. Goto(t, "tunnel") \/ Goto(t, "rent") \/ Goto(t, "reuse") \/ Ends(t, "error")
        BY <2>4 DEF CheckHealth
      <3> QED
        BY <1>0, <2>2, <3>1, ThreadMoves
    <2>5. CASE Reuse(t)
      <3>1. ASSUME NEW i \in Address, boot' = [boot EXCEPT ![t].inst = i, ![t].at = "setenv"],
                   bootState' = bootState
            PROVE  BootType'
        BY <1>0, <2>2, <3>1 DEF BootType
      <3> QED
        BY <1>0, <2>5, <3>1, ThreadMoves DEF Reuse
    <2>6. CASE Rent(t)
      <3>1. rented' \in Address
        <4>1. /\ MaxTurnOns \in Nat /\ MaxFaults \in Nat /\ rented' \in Nat
              /\ clicks' \in 0..MaxTurnOns /\ faults' \in 0..MaxFaults
              /\ rented' <= 1 + clicks' + faults'
          BY OpsAssumption DEF Numbers, Budget
        <4>2. \A r, c, f, m, n \in Nat : c <= m /\ f <= n /\ r <= 1 + c + f => r \in {0} \cup 1..(1 + m + n)
          OBVIOUS
        <4> QED
          <5>1. /\ clicks' \in Nat /\ faults' \in Nat /\ clicks' <= MaxTurnOns /\ faults' <= MaxFaults
            BY <4>1
          <5> QED
            BY <4>1, <4>2, <5>1 DEF Address, Inst
      <3>2. CASE boot' = [boot EXCEPT ![t].inst = rented', ![t].at = "setenv"] /\ bootState' = bootState
        BY <1>0, <2>2, <3>1, <3>2 DEF BootType
      <3> QED
        BY <1>0, <2>2, <2>6, <3>2, ThreadMoves DEF Rent
    <2>7. CASE SetEnv(t)
      BY <1>0, <2>2, <2>7, ThreadMoves DEF SetEnv
    <2>8. CASE Serve(t)
      <3>1. CASE boot' = [boot EXCEPT ![t].ip = WithEnvFile(@), ![t].at = "tunnel"]
                 /\ bootState' = bootState
        <4>1. WithEnvFile(boot[t].ip) \in Address
          BY <1>0, <2>1
        <4> QED
          BY <1>0, <2>2, <3>1, <4>1 DEF BootType
      <3> QED
        BY <1>0, <2>8, <3>1, ThreadMoves DEF Serve
    <2>9. CASE EnsureTunnel(t) \/ WaitForHealth(t) \/ EnsureWatchdog(t)
      BY <1>0, <2>2, <2>9, ThreadMoves DEF EnsureTunnel, WaitForHealth, EnsureWatchdog
    <2> QED
      BY <1>3, <2>3, <2>4, <2>5, <2>6, <2>7, <2>8, <2>9 DEF BootStep
  <1> QED
    BY <1>1, <1>2, <1>3 DEF Next, Outside

\* The turn-offs, and the flags.
LEMMA JobMoves ==
  ASSUME JobType, NEW d \in Doer
  PROVE  /\ \A at \in {"admin", "lookup", "terminate"} : JobGoto(d, at) => JobType'
         /\ \A at \in {"done", "failed"} : JobEnds(d, at) => JobType'
  <1>1. \A at \in {"admin", "lookup", "terminate"} : JobGoto(d, at) => JobType'
    BY DEF JobType, JobRec, JobGoto
  <1>2. ASSUME NEW at \in {"done", "failed"} PROVE [NoJob EXCEPT !.at = at] \in JobRec
    BY <1>2 DEF JobRec, NoJob, Address
  <1>3. ASSUME NEW r \in JobRec, job' = [job EXCEPT ![d] = r], offs' = offs PROVE JobType'
    BY <1>3 DEF JobType
  <1> QED
    BY <1>1, <1>2, <1>3 DEF JobEnds

LEMMA JobKept ==
  ASSUME TypeInv, Next
  PROVE  JobType'
  <1> USE DEF account, files, procs, turnOn, turnOff, trouble
  <1>0. /\ JobType /\ ProcType /\ chatIp \in Address /\ envIp \in Address
        /\ \A ip \in Address : WithEnvFile(ip) \in Address
        /\ \A ip : Found(ip) \subseteq Address
    BY Addresses DEF TypeInv
  <1>1. CASE UNCHANGED <<job, offs>>
    BY <1>0, <1>1 DEF JobType
  <1>2. ASSUME NEW d \in Doer, NEW ip \in Address, NEW keep \in BOOLEAN, offs' \in 0..MaxTurnOffs,
               job' = [job EXCEPT ![d] = [NoJob EXCEPT !.at = "tunnel", !.ip = ip, !.keep = keep]]
        PROVE  JobType'
    <2>1. [NoJob EXCEPT !.at = "tunnel", !.ip = ip, !.keep = keep] \in JobRec
      BY DEF NoJob, JobRec, Address
    <2> QED
      BY <1>0, <1>2, <2>1 DEF JobType
  <1>3. CASE TurnOn \/ Status
    BY <1>1, <1>3 DEF TurnOn, Status
  <1>4. ASSUME NEW t \in Turn, BootStep(t) PROVE JobType'
    <2>1. UNCHANGED <<job, offs>>
      BY <1>4 DEF BootStep, LookUp, CheckHealth, Reuse, Rent, SetEnv, Serve, EnsureTunnel, WaitForHealth,
                  EnsureWatchdog
    <2> QED
      BY <1>1, <2>1
  <1>5. CASE TurnOff
    <2>1. Off \in Doer /\ offs' \in 0..MaxTurnOffs
      BY <1>0, <1>5, OpsAssumption DEF TurnOff, Doer, JobType
    <2>2. PICK how \in FromPage \cup FromShell :
            job' = [job EXCEPT ![Off] = [NoJob EXCEPT !.at = "tunnel", !.ip = how[1], !.keep = how[2]]]
      BY <1>5 DEF TurnOff
    <2>3. how[1] \in Address /\ how[2] \in BOOLEAN
      <3>1. CASE how = <<WithEnvFile(chatIp), FALSE>>
        BY <1>0, <3>1
      <3>2. CASE how \in {envIp} \X BOOLEAN
        BY <1>0, <3>2
      <3> QED
        BY <2>2, <3>1, <3>2 DEF FromPage, FromShell
    <2> QED
      BY <1>2, <2>1, <2>2, <2>3
  <1>6. ASSUME NEW p \in Proc, WatchdogExpires(p) PROVE JobType'
    <2>1. p \in Doer /\ WithEnvFile(proc[p].ip) \in Address
      BY <1>0 DEF Doer, ProcType, ProcRec
    <2>2. /\ job' = [job EXCEPT ![p] = [NoJob EXCEPT !.at = "tunnel", !.ip = WithEnvFile(proc[p].ip)]]
          /\ offs' = offs
      BY <1>6 DEF WatchdogExpires
    <2>3. [NoJob EXCEPT !.at = "tunnel", !.ip = WithEnvFile(proc[p].ip)] \in JobRec
      BY <2>1 DEF NoJob, JobRec, Address
    <2> QED
      BY <1>0, <2>1, <2>2, <2>3 DEF JobType
  <1>7. ASSUME NEW p \in Proc, WatchdogFails(p) \/ TunnelBreaks(p) PROVE JobType'
    BY <1>1, <1>7 DEF WatchdogFails, TunnelBreaks
  <1>8. ASSUME NEW i \in Inst, InstanceGoes(i) \/ ServerStops(i) PROVE JobType'
    BY <1>1, <1>8 DEF InstanceGoes, ServerStops
  <1>9. ASSUME NEW d \in Doer, OffStep(d) PROVE JobType'
    <2>1. job[d] \in JobRec
      BY <1>0 DEF JobType
    <2>2. ASSUME NEW kind \in {"tunnel", "watchdog"}, Signal(d, kind) PROVE JobType'
      BY <1>0, <2>2 DEF Signal, JobType, JobRec
    <2>3. ASSUME NEW kind \in {"tunnel", "watchdog"}, Unlink(d, kind) PROVE JobType'
      <3>1. After[kind] \in {"watchdog", "admin"}
        BY DEF After
      <3>2. job' = [job EXCEPT ![d].at = After[kind], ![d].file = FALSE] /\ offs' = offs
        BY <2>3 DEF Unlink
      <3> QED
        BY <1>0, <3>1, <3>2 DEF JobType, JobRec
    <2>4. CASE AskServer(d)
      BY <1>0, <2>4, JobMoves DEF AskServer
    <2>5. CASE JobLookUp(d)
      <3>1. ASSUME NEW i \in Address, NEW at \in {"terminate", "docker"}, offs' = offs,
                   job' = [job EXCEPT ![d].inst = i, ![d].at = at]
            PROVE  JobType'
        BY <1>0, <3>1 DEF JobType, JobRec
      <3>2. \/ \E i \in Address, at \in {"terminate", "docker"} :
                 offs' = offs /\ job' = [job EXCEPT ![d].inst = i, ![d].at = at]
            \/ JobEnds(d, "done") \/ JobEnds(d, "failed")
        BY <1>0, <2>5 DEF JobLookUp
      <3> QED
        BY <1>0, <3>1, <3>2, JobMoves
    <2>6. CASE DockerDown(d)
      BY <1>0, <2>6, JobMoves DEF DockerDown
    <2>7. CASE Terminate(d)
      BY <1>0, <2>7, JobMoves DEF Terminate
    <2> QED
      BY <1>9, <2>2, <2>3, <2>4, <2>5, <2>6, <2>7 DEF OffStep
  <1> QED
    BY <1>3, <1>4, <1>5, <1>6, <1>7, <1>8, <1>9 DEF Next

LEMMA FlagKept ==
  ASSUME TypeInv, Next
  PROVE  FlagType'
  <1> USE DEF account, files, procs, turnOn, turnOff, trouble, Begins, Fine, Fault, LostAnswer, TypeInv,
              FlagType
  <1>1. lost' \in BOOLEAN
    <2>1. CASE Outside
      BY <2>1, OutsideLeaves
    <2>2. CASE TurnOn
      BY <2>2 DEF TurnOn
    <2>3. ASSUME NEW t \in Turn, BootStep(t) PROVE lost' \in BOOLEAN
      BY <2>3 DEF BootStep, LookUp, CheckHealth, Reuse, Rent, SetEnv, Serve, EnsureTunnel, WaitForHealth,
                  EnsureWatchdog
    <2> QED
      BY <2>1, <2>2, <2>3 DEF Next, Outside
  <1>2. overlap' \in BOOLEAN
    <2>1. CASE TurnOn \/ TurnOff \/ Status
      BY <2>1 DEF TurnOn, TurnOff, Status
    <2>2. ASSUME NEW t \in Turn, BootStep(t) PROVE overlap' \in BOOLEAN
      BY <2>2 DEF BootStep, LookUp, CheckHealth, Reuse, Rent, SetEnv, Serve, EnsureTunnel, WaitForHealth,
                  EnsureWatchdog
    <2>3. ASSUME NEW d \in Doer, OffStep(d) PROVE overlap' \in BOOLEAN
      BY <2>3 DEF OffStep, Signal, Unlink, AskServer, JobLookUp, DockerDown, Terminate
    <2>4. ASSUME NEW p \in Proc, WatchdogExpires(p) \/ WatchdogFails(p) \/ TunnelBreaks(p)
          PROVE  overlap' \in BOOLEAN
      BY <2>4 DEF WatchdogExpires, WatchdogFails, TunnelBreaks
    <2>5. ASSUME NEW i \in Inst, InstanceGoes(i) \/ ServerStops(i) PROVE overlap' \in BOOLEAN
      BY <2>5 DEF InstanceGoes, ServerStops
    <2> QED
      BY <2>1, <2>2, <2>3, <2>4, <2>5 DEF Next
  <1> QED
    BY <1>1, <1>2

-----------------------------------------------------------------------------
(* The theorem.                                                            *)

LEMMA InitTypeInv == Init => TypeInv
  <1> SUFFICES ASSUME Init PROVE TypeInv
    OBVIOUS
  <1>0. MaxTurnOns \in Nat /\ MaxTurnOffs \in Nat /\ MaxFaults \in Nat
    BY OpsAssumption
  <1>1. /\ rented \in {0, 1} /\ alive \in {{}, {1}} /\ alive \subseteq 1..rented
        /\ clicks = 0 /\ faults = 0 /\ offs = 0
        /\ started = (IF alive = {} THEN 0 ELSE 2)
    BY DEF Init
  <1>2. Numbers
    BY <1>0, <1>1 DEF Numbers
  <1>3. \A t \in Turn : boot[t].at = "none"
    BY DEF Init, NoBoot
  <1>4. Budget
    BY <1>1, <1>3 DEF Budget, PreRent, Cost
  <1>5. AccountType
    BY <1>1 DEF Init, AccountType
  <1>6. ProcType
    <2>1. pidfile \in [{"tunnel", "watchdog"} -> 0..started]
      BY <1>1 DEF Init
    <2>2. NoProc \in ProcRec
      BY DEF NoProc, ProcRec, Address
    <2>3. started = 2 => /\ [kind |-> "tunnel", up |-> TRUE, ip |-> 1, bound |-> TRUE] \in ProcRec
                         /\ [kind |-> "watchdog", up |-> TRUE, ip |-> 1, bound |-> FALSE] \in ProcRec
      BY <1>0 DEF ProcRec, Address, Inst
    <2>4. started \in {0, 2} /\ \A p \in Proc : p > started \/ started = 2
      BY <1>0, <1>1 DEF Proc
    <2>5. proc \in [Proc -> ProcRec]
      BY <2>2, <2>3, <2>4 DEF Init
    <2> QED
      BY <2>1, <2>5 DEF ProcType
  <1>7. BootType
    BY DEF Init, BootType, NoBoot, Place, Address
  <1>8. JobType
    BY <1>0, <1>1 DEF Init, JobType, JobRec, NoJob, Address
  <1>9. FlagType
    BY DEF Init, FlagType
  <1> QED
    BY <1>2, <1>4, <1>5, <1>6, <1>7, <1>8, <1>9 DEF TypeInv

LEMMA StepTypeInv ==
  ASSUME OpsInv, TypeInv, [Next]_vars
  PROVE  TypeInv'
  <1>1. CASE Next
    <2>1. Numbers' /\ Budget'
      BY <1>1, NumbersKept
    <2> QED
      BY <1>1, <2>1, AccountKept, ProcKept, BootKept, JobKept, FlagKept DEF TypeInv
  <1>2. CASE UNCHANGED vars
    <2> USE <1>2 DEF vars, account, files, procs, turnOn, turnOff, trouble
    <2>1. Numbers' /\ Budget'
      BY DEF TypeInv, Numbers, Budget
    <2>2. AccountType' /\ ProcType' /\ BootType'
      BY DEF TypeInv, AccountType, ProcType, BootType
    <2>3. JobType' /\ FlagType'
      BY DEF TypeInv, JobType, FlagType
    <2> QED
      BY <2>1, <2>2, <2>3 DEF TypeInv
  <1> QED
    BY <1>1, <1>2

\* Every variable keeps its type; above all, the requests to turn on, the retries after
\* a lost answer and the faults together never need more instances than Inst has nor
\* more tunnels and watchdogs than Proc has, and no script acts on an instance that was
\* never rented (lambda_deploy.py, lambda_local_bootstrap.py, lambda_turn_off.py).
THEOREM OpsTypes == Spec => []TypeOK
  <1> QED
    BY InitOpsInv, StepOpsInv, InitTypeInv, StepTypeInv, TypeInvGives, PTL DEF Spec

-----------------------------------------------------------------------------
(* Turning on works: the invariant.                                        *)

\* Every address in use was rented, and a pid file names a process of its kind.
AddressInv ==
  /\ \A p \in Proc : proc[p].ip \in 0..rented
  /\ \A t \in Turn : boot[t].ip \in 0..rented
RecordInv == \A k \in Helper : Runs(pidfile[k]) => proc[pidfile[k]].kind = k

\* Without faults and overlap, whoever has the local port leads to a server,
TunnelsServe == \A p \in Bound : proc[p].kind = "tunnel" /\ proc[p].ip \in serving

\* a tunnel that could not take the port leads to an instance that is gone,
DeadEnds ==
  \A p \in Proc : proc[p].up /\ proc[p].kind = "tunnel" /\ ~proc[p].bound => proc[p].ip \notin alive

\* and a bootstrap has before it what its next step needs.
OnCourse(t) ==
  /\ boot[t].at = "health" => boot[t].inst \in alive \cup {0}
  /\ boot[t].at \in {"reuse", "setenv", "serve"} => boot[t].inst \in alive
  /\ boot[t].at = "tunnel" => Bound # {} \/ boot[t].inst \in serving
  /\ boot[t].at = "wait" =>
       \/ Bound # {}
       \/ /\ pidfile["tunnel"] \in Proc /\ boot[t].inst \in alive
          /\ proc[pidfile["tunnel"]].ip # boot[t].inst
  /\ boot[t].at = "watch" => Bound # {}

Smooth == faults = 0 /\ ~overlap
Course == TunnelsServe /\ DeadEnds /\ \A t \in Turn : OnCourse(t)

WorkInv == AddressInv /\ RecordInv /\ (Smooth => Course)

\* Without a fault no answer was lost.
LossIsFault == faults = 0 => ~lost

-----------------------------------------------------------------------------
(* Addresses and pid files.                                                *)

\* A step starts a process in EnsureTunnel or EnsureWatchdog, or starts none.
NoneStarts ==
  /\ \A p \in Proc : proc'[p] = proc[p] \/ proc'[p] = NoProc
  /\ \A k \in Helper : pidfile'[k] = pidfile[k] \/ pidfile'[k] = 0

LEMMA WhoStarts ==
  ASSUME TypeInv, Next
  PROVE  NoneStarts \/ \E t \in Turn : EnsureTunnel(t) \/ EnsureWatchdog(t)
  <1> USE DEF account, files, procs, turnOn, turnOff, trouble
  <1>0. ProcType
    BY DEF TypeInv
  <1>1. UNCHANGED <<proc, pidfile>> => NoneStarts
    BY DEF NoneStarts
  <1>2. ASSUME NEW p \in Doer, proc' = [proc EXCEPT ![p] = NoProc], UNCHANGED pidfile
        PROVE  NoneStarts
    BY <1>0, <1>2 DEF NoneStarts, ProcType
  <1>3. CASE TurnOn \/ TurnOff \/ Status
    BY <1>1, <1>3 DEF TurnOn, TurnOff, Status
  <1>4. ASSUME NEW t \in Turn, BootStep(t)
        PROVE  NoneStarts \/ EnsureTunnel(t) \/ EnsureWatchdog(t)
    <2>1. CASE LookUp(t) \/ CheckHealth(t) \/ Reuse(t) \/ Rent(t) \/ Serve(t) \/ WaitForHealth(t)
      <3>1. UNCHANGED <<pidfile, proc>>
        BY <2>1 DEF LookUp, CheckHealth, Reuse, Rent, Serve, WaitForHealth
      <3> QED
        BY <3>1, <1>1
    <2>2. CASE SetEnv(t)
      BY <1>1, <2>2 DEF SetEnv
    <2> QED
      BY <1>4, <2>1, <2>2 DEF BootStep
  <1>5. ASSUME NEW d \in Doer, OffStep(d) PROVE NoneStarts
    <2>1. ASSUME NEW at, JobEnds(d, at), UNCHANGED pidfile PROVE NoneStarts
      BY <1>1, <1>2, <2>1 DEF JobEnds
    <2>2. ASSUME NEW kind \in {"tunnel", "watchdog"}, Signal(d, kind) PROVE NoneStarts
      BY <2>2 DEF Signal, NoneStarts
    <2>3. ASSUME NEW kind \in {"tunnel", "watchdog"}, Unlink(d, kind) PROVE NoneStarts
      BY <1>0, <2>3 DEF Unlink, NoneStarts, ProcType, Helper
    <2>4. CASE AskServer(d)
      BY <1>1, <2>1, <2>4 DEF AskServer, JobGoto
    <2>5. CASE JobLookUp(d)
      BY <1>1, <2>1, <2>5 DEF JobLookUp
    <2>6. CASE DockerDown(d)
      BY <1>1, <2>6 DEF DockerDown, JobGoto
    <2>7. CASE Terminate(d)
      BY <2>1, <2>7 DEF Terminate
    <2> QED
      BY <1>5, <2>2, <2>3, <2>4, <2>5, <2>6, <2>7 DEF OffStep
  <1>6. ASSUME NEW p \in Proc, WatchdogExpires(p) \/ WatchdogFails(p) \/ TunnelBreaks(p)
        PROVE  NoneStarts
    BY <1>1, <1>2, <1>6 DEF WatchdogExpires, WatchdogFails, TunnelBreaks, Doer
  <1>7. ASSUME NEW i \in Inst, InstanceGoes(i) \/ ServerStops(i) PROVE NoneStarts
    BY <1>1, <1>7 DEF InstanceGoes, ServerStops
  <1> QED
    BY <1>3, <1>4, <1>5, <1>6, <1>7 DEF Next

\* What Ensure does when it starts a process.
LEMMA Starts ==
  ASSUME ProcType, Numbers, Numbers', Budget', NEW kind \in Helper, NEW ip, Ensure(kind, ip),
         ~Runs(pidfile[kind])
  PROVE  \E n \in Proc :
           /\ n = started + 1 /\ n # 0
           /\ \A k \in Helper : pidfile'[k] = IF k = kind THEN n ELSE pidfile[k]
           /\ \A k \in Helper : pidfile[k] # n
           /\ \A p \in Proc : p # n => proc'[p] = proc[p]
           /\ proc'[n] = [kind |-> kind, up |-> TRUE, ip |-> ip,
                          bound |-> kind = "tunnel" /\ ip \in alive /\ Bound = {}]
  <1>1. /\ started' = started + 1
        /\ proc' = [proc EXCEPT ![started'] =
             [kind |-> kind, up |-> TRUE, ip |-> ip,
              bound |-> kind = "tunnel" /\ ip \in alive /\ Bound = {}]]
        /\ pidfile' = [pidfile EXCEPT ![kind] = started']
    BY DEF Ensure
  <1>2. /\ started \in Nat /\ started' \in Nat /\ MaxTurnOns \in Nat /\ clicks' \in Nat
        /\ clicks' <= MaxTurnOns /\ started' <= 2 + 2 * clicks'
    <2>1. /\ started \in Nat /\ started' \in Nat /\ MaxTurnOns \in Nat /\ clicks' \in 0..MaxTurnOns
      BY OpsAssumption DEF Numbers
    <2>2. started' <= 2 + 2 * clicks'
      BY DEF Budget
    <2>3. \A m \in Nat : \A c \in 0..m : c \in Nat /\ c <= m
      OBVIOUS
    <2> QED
      BY <2>1, <2>2, <2>3
  <1>3. started' \in Proc /\ started' # 0
    <2>1. \A n, c, m \in Nat : c <= m /\ n <= 2 + 2 * c => n <= 2 + 2 * m
      OBVIOUS
    <2>2. started' <= 2 + 2 * MaxTurnOns
      BY <1>2, <2>1
    <2> QED
      BY <1>1, <1>2, <2>2 DEF Proc
  <1>4. \A k \in Helper : pidfile[k] \in 0..started /\ pidfile[k] # started'
    BY <1>1, <1>2 DEF ProcType, Helper
  <1>5. /\ \A k \in Helper : pidfile'[k] = IF k = kind THEN started' ELSE pidfile[k]
    BY <1>1 DEF ProcType, Helper
  <1>6. /\ \A p \in Proc : p # started' => proc'[p] = proc[p]
        /\ proc'[started'] = [kind |-> kind, up |-> TRUE, ip |-> ip,
              bound |-> kind = "tunnel" /\ ip \in alive /\ Bound = {}]
    BY <1>1, <1>3 DEF ProcType
  <1> QED
    BY <1>1, <1>3, <1>4, <1>5, <1>6

LEMMA AddressKept ==
  ASSUME TypeInv, AddressInv, Next, Numbers', Budget'
  PROVE  AddressInv'
  <1> USE DEF account, files, procs, turnOn, turnOff, trouble
  <1>0. /\ ProcType /\ BootType /\ rented \in Nat /\ rented' \in Nat
        /\ chatIp \in 0..rented /\ envIp \in 0..rented
    BY DEF TypeInv, Numbers, AccountType
  <1>1. 0..rented \subseteq 0..rented'
    <2>1. Outside => rented' = rented
      BY OutsideLeaves
    <2>2. TurnOn => rented' = rented
      BY DEF TurnOn
    <2>3. ASSUME NEW t \in Turn, BootStep(t) PROVE rented' = rented \/ rented' = rented + 1
      <3>1. ~Rent(t) => rented' = rented
        BY <2>3 DEF BootStep, LookUp, CheckHealth, Reuse, SetEnv, Serve, EnsureTunnel, WaitForHealth,
                    EnsureWatchdog
      <3>2. Rent(t) => rented' = rented \/ rented' = rented + 1
        BY DEF Rent
      <3> QED
        BY <3>1, <3>2
    <2>4. rented' = rented \/ rented' = rented + 1
      BY <2>1, <2>2, <2>3 DEF Next, Outside
    <2> QED
      BY <1>0, <2>4
  <1>2. \A p \in Proc : proc'[p].ip \in 0..rented'
    <2>1. CASE NoneStarts
      BY <1>0, <1>1, <2>1 DEF NoneStarts, AddressInv, NoProc
    <2>2. ASSUME NEW t \in Turn, NEW kind \in Helper, Ensure(kind, boot[t].ip)
          PROVE  \A p \in Proc : proc'[p].ip \in 0..rented'
      <3>1. CASE Runs(pidfile[kind])
        BY <1>1, <2>2, <3>1 DEF Ensure, AddressInv
      <3>2. CASE ~Runs(pidfile[kind])
        <4>1. PICK n \in Proc :
                /\ \A p \in Proc : p # n => proc'[p] = proc[p]
                /\ proc'[n] = [kind |-> kind, up |-> TRUE, ip |-> boot[t].ip,
                     bound |-> kind = "tunnel" /\ boot[t].ip \in alive /\ Bound = {}]
          BY <1>0, <2>2, <3>2, Starts DEF TypeInv
        <4>2. proc'[n].ip = boot[t].ip
          BY <4>1
        <4> QED
          BY <1>1, <4>1, <4>2 DEF AddressInv
      <3> QED
        BY <3>1, <3>2
    <2> QED
      BY <2>1, <2>2, WhoStarts DEF EnsureTunnel, EnsureWatchdog, Helper
  <1>3. \A t \in Turn : boot'[t].ip \in 0..rented'
    <2>1. CASE Outside
      BY <1>1, <2>1, OutsideLeaves DEF AddressInv
    <2>2. CASE TurnOn
      BY <1>0, <1>1, <2>2 DEF TurnOn, AddressInv, BootType
    <2>3. ASSUME NEW t \in Turn, BootStep(t) PROVE \A u \in Turn : boot'[u].ip \in 0..rented'
      <3>0. \A ip \in 0..rented : WithEnvFile(ip) \in 0..rented'
        BY <1>0, <1>1 DEF WithEnvFile
      <3>1. (\A u \in Turn \ {t} : boot'[u] = boot[u]) /\ boot'[t].ip \in 0..rented'
              => \A u \in Turn : boot'[u].ip \in 0..rented'
        BY <1>1 DEF AddressInv
      <3>2. ASSUME NEW at, Goto(t, at) PROVE \A u \in Turn : boot'[u].ip \in 0..rented'
        BY <1>0, <1>1, <3>2 DEF Goto, AddressInv, BootType
      <3>3. ASSUME NEW status, Ends(t, status) PROVE \A u \in Turn : boot'[u].ip \in 0..rented'
        BY <1>0, <1>1, <3>3 DEF Ends, AddressInv, BootType, NoBoot
      <3>4. CASE LookUp(t)
        <4>1. ASSUME NEW i, boot' = [boot EXCEPT ![t] = [at |-> "health", ip |-> WithEnvFile(chatIp), inst |-> i]]
              PROVE  \A u \in Turn : boot'[u].ip \in 0..rented'
          <5>1. boot'[t].ip = WithEnvFile(chatIp) /\ \A u \in Turn \ {t} : boot'[u] = boot[u]
            BY <1>0, <4>1 DEF BootType
          <5> QED
            BY <1>0, <3>0, <3>1, <5>1
        <4> QED
          BY <3>3, <3>4, <4>1 DEF LookUp
      <3>5. CASE CheckHealth(t)
        BY <3>2, <3>3, <3>5 DEF CheckHealth
      <3>6. ASSUME NEW i, boot' = [boot EXCEPT ![t].inst = i, ![t].at = "setenv"]
            PROVE  \A u \in Turn : boot'[u].ip \in 0..rented'
        BY <1>0, <1>1, <3>6 DEF AddressInv, BootType
      <3>7. CASE Reuse(t) \/ Rent(t)
        BY <3>2, <3>3, <3>6, <3>7 DEF Reuse, Rent
      <3>8. CASE SetEnv(t) \/ EnsureTunnel(t) \/ WaitForHealth(t) \/ EnsureWatchdog(t)
        BY <3>2, <3>3, <3>8 DEF SetEnv, EnsureTunnel, WaitForHealth, EnsureWatchdog
      <3>9. CASE Serve(t)
        <4>1. CASE boot' = [boot EXCEPT ![t].ip = WithEnvFile(@), ![t].at = "tunnel"]
          <5>1. boot'[t].ip = WithEnvFile(boot[t].ip) /\ \A u \in Turn \ {t} : boot'[u] = boot[u]
            BY <1>0, <4>1 DEF BootType
          <5> QED
            BY <3>0, <3>1, <5>1 DEF AddressInv
        <4> QED
          BY <3>3, <3>9, <4>1 DEF Serve
      <3> QED
        BY <2>3, <3>4, <3>5, <3>7, <3>8, <3>9 DEF BootStep
    <2> QED
      BY <2>1, <2>2, <2>3 DEF Next, Outside
  <1> QED
    BY <1>2, <1>3 DEF AddressInv

LEMMA RecordKept ==
  ASSUME TypeInv, RecordInv, Next, Numbers', Budget'
  PROVE  RecordInv'
  <1>0. ProcType /\ \A k \in Helper : pidfile[k] # 0 => pidfile[k] \in Proc
    <2>1. /\ ProcType /\ started \in Nat /\ MaxTurnOns \in Nat /\ started \in 0..(2 + 2 * MaxTurnOns)
      BY Ranges, OpsAssumption DEF TypeInv, Numbers
    <2>2. \A k \in Helper : pidfile[k] \in 0..started
      BY <2>1 DEF ProcType, Helper
    <2> QED
      BY <2>1, <2>2 DEF Proc
  <1>1. CASE NoneStarts
    BY <1>0, <1>1 DEF NoneStarts, RecordInv, Runs, NoProc
  <1>2. ASSUME NEW kind \in Helper, NEW ip, Ensure(kind, ip) PROVE RecordInv'
    <2>1. CASE Runs(pidfile[kind])
      BY <1>2, <2>1 DEF Ensure, procs, RecordInv, Runs
    <2>2. CASE ~Runs(pidfile[kind])
      <3>1. PICK n \in Proc :
              /\ \A k \in Helper : pidfile'[k] = IF k = kind THEN n ELSE pidfile[k]
              /\ \A k \in Helper : pidfile[k] # n
              /\ \A p \in Proc : p # n => proc'[p] = proc[p]
              /\ proc'[n] = [kind |-> kind, up |-> TRUE, ip |-> ip,
                   bound |-> kind = "tunnel" /\ ip \in alive /\ Bound = {}]
        BY <1>0, <1>2, <2>2, Starts DEF TypeInv
      <3>2. proc'[n].kind = kind
        BY <3>1
      <3> QED
        BY <1>0, <3>1, <3>2 DEF RecordInv, Runs
    <2> QED
      BY <2>1, <2>2
  <1> QED
    BY <1>1, <1>2, WhoStarts DEF EnsureTunnel, EnsureWatchdog, Helper

-----------------------------------------------------------------------------
(* Steps without faults and overlap.                                       *)

LEMMA StaysSmooth ==
  ASSUME Numbers, Next, Smooth'
  PROVE  Smooth /\ UNCHANGED faults
  <1>1. /\ Fault => faults' # 0
        /\ LostAnswer => faults' # 0
        /\ Fine => UNCHANGED faults
        /\ UNCHANGED trouble => UNCHANGED faults
    BY OpsAssumption DEF Fault, LostAnswer, Fine, trouble, Numbers
  <1>2. faults' = 0
    BY DEF Smooth
  <1>3. CASE Outside
    <2>1. UNCHANGED faults
      BY <1>1, <1>2, <1>3, OutsideLeaves
    <2>2. Status \/ TurnOff => (overlap => overlap')
      BY DEF Status, TurnOff, Begins
    <2>3. ASSUME NEW d \in Doer, OffStep(d) PROVE overlap' = overlap
      BY <2>3 DEF OffStep, Signal, Unlink, AskServer, JobLookUp, DockerDown, Terminate
    <2>4. ASSUME NEW p \in Proc, WatchdogExpires(p) \/ WatchdogFails(p) \/ TunnelBreaks(p)
          PROVE  overlap => overlap'
      BY <2>4 DEF WatchdogExpires, WatchdogFails, TunnelBreaks, Begins
    <2>5. ASSUME NEW i \in Inst, InstanceGoes(i) \/ ServerStops(i) PROVE overlap' = overlap
      BY <2>5 DEF InstanceGoes, ServerStops
    <2> QED
      BY <1>3, <2>1, <2>2, <2>3, <2>4, <2>5 DEF Outside, Smooth
  <1>4. CASE TurnOn
    BY <1>1, <1>4 DEF TurnOn, Begins, Smooth
  <1>5. ASSUME NEW t \in Turn, BootStep(t) PROVE Smooth /\ UNCHANGED faults
    <2>1. overlap' = overlap
      BY <1>5 DEF BootStep, LookUp, CheckHealth, Reuse, Rent, SetEnv, Serve, EnsureTunnel, WaitForHealth,
                  EnsureWatchdog
    <2>2. Fault \/ LostAnswer \/ Fine \/ UNCHANGED trouble
      BY <1>5 DEF BootStep, LookUp, CheckHealth, Reuse, Rent, SetEnv, Serve, EnsureTunnel, WaitForHealth,
                  EnsureWatchdog
    <2> QED
      BY <1>1, <1>2, <2>1, <2>2 DEF Smooth
  <1> QED
    BY <1>3, <1>4, <1>5 DEF Next, Outside

\* Who has the port, by definition.
LEMMA BoundMember ==
  /\ \A p : p \in Bound <=> p \in Proc /\ proc[p].up /\ proc[p].bound
  /\ \A p : p \in Bound' <=> p \in Proc /\ proc'[p].up /\ proc'[p].bound
  BY DEF Bound

\* On course, whoever has the port answers.
LEMMA PortOnCourse ==
  ASSUME TunnelsServe
  PROVE  Port # "raises" /\ (Port = "ok" <=> Bound # {}) /\ (Port = "refused" <=> Bound = {})
  BY DEF Port, TunnelsServe

\* A step that changes neither the account, nor the processes, nor the bootstraps.
LEMMA CourseFrame ==
  ASSUME Course, UNCHANGED <<alive, serving, proc, pidfile>>,
         \A t \in Turn : boot'[t] = boot[t] \/ boot'[t].at \in {"none", "lookup"}
  PROVE  Course'
  <1>1. TunnelsServe' /\ DeadEnds'
    BY BoundMember DEF Course, TunnelsServe, DeadEnds
  <1>2. Bound' = Bound
    BY DEF Bound
  <1>3. ASSUME NEW t \in Turn PROVE OnCourse(t)'
    <2>1. CASE boot'[t] = boot[t]
      BY <1>2, <2>1 DEF Course, OnCourse
    <2>2. CASE boot'[t].at \in {"none", "lookup"}
      BY <2>2 DEF OnCourse
    <2> QED
      BY <2>1, <2>2
  <1> QED
    BY <1>1, <1>3 DEF Course

\* Processes end and instances go while no bootstrap is at work.
LEMMA CourseWithoutBoot ==
  ASSUME Course, \A p \in Proc : proc'[p] = proc[p] \/ proc'[p] = NoProc,
         alive' \subseteq alive, serving' \subseteq serving,
         serving' = serving \/ NoneUp("tunnel"),
         \A t \in Turn : boot'[t].at \in {"none", "lookup"}
  PROVE  Course'
  <1>1. ~NoProc.up
    BY DEF NoProc
  <1>2. TunnelsServe'
    BY <1>1, BoundMember DEF Course, TunnelsServe, NoneUp
  <1>3. DeadEnds'
    BY <1>1 DEF Course, DeadEnds
  <1>4. \A t \in Turn : OnCourse(t)'
    BY DEF OnCourse
  <1> QED
    BY <1>2, <1>3, <1>4 DEF Course

\* A step of the only bootstrap at work that starts no process.
LEMMA CourseOfThread ==
  ASSUME OpsInv, Course, NEW t \in Turn, boot[t].at # "none",
         \A u \in Turn \ {t} : boot'[u] = boot[u],
         UNCHANGED <<proc, pidfile>>, serving \subseteq serving',
         \A i \in alive' : i \in alive \/ \A p \in Proc : proc[p].ip # i,
         OnCourse(t)'
  PROVE  Course'
  <1>1. TunnelsServe' /\ DeadEnds'
    BY BoundMember DEF Course, TunnelsServe, DeadEnds
  <1>2. \A u \in Turn \ {t} : boot'[u].at = "none"
    BY DEF OpsInv, OneBootstrap
  <1>3. \A u \in Turn \ {t} : OnCourse(u)'
    BY <1>2 DEF OnCourse
  <1> QED
    BY <1>1, <1>3 DEF Course

LEMMA NoFault ==
  ASSUME Numbers, UNCHANGED faults
  PROVE  ~Fault /\ ~LostAnswer
  BY OpsAssumption DEF Fault, LostAnswer, Numbers

LEMMA OffOnCourse ==
  ASSUME TypeInv, HelperInv, Smooth, Course, NEW d \in Doer, OffStep(d), Next
  PROVE  Course'
  <1> USE DEF account, files, procs, turnOn, turnOff, trouble
  <1>1. WorksAlone /\ ShutdownOrder
    BY DEF HelperInv, QuietInv, Smooth
  <1>2. d \in AtWork
    BY DEF OffStep, Signal, Unlink, AskServer, JobLookUp, DockerDown, Terminate
  <1>3. \A t \in Turn : boot[t].at = "none" /\ boot'[t] = boot[t]
    BY <1>1, <1>2, OutsideLeaves DEF WorksAlone, Outside
  <1>4. \A p \in Proc : proc'[p] = proc[p] \/ proc'[p] = NoProc
    BY <1>3, WhoStarts DEF NoneStarts, EnsureTunnel, EnsureWatchdog, Step
  <1>5. alive' \subseteq alive /\ serving' \subseteq serving /\ (serving' = serving \/ NoneUp("tunnel"))
    <2>1. ASSUME NEW kind \in {"tunnel", "watchdog"}, Signal(d, kind) \/ Unlink(d, kind)
          PROVE  UNCHANGED <<alive, serving>>
      BY <2>1 DEF Signal, Unlink
    <2>2. AskServer(d) \/ JobLookUp(d) => UNCHANGED <<alive, serving>>
      BY DEF AskServer, JobLookUp
    <2>3. DockerDown(d) => alive' = alive /\ serving' \subseteq serving /\ job[d].at = "docker"
      BY DEF DockerDown
    <2>4. Terminate(d) => alive' \subseteq alive /\ serving' \subseteq serving /\ job[d].at = "terminate"
      BY DEF Terminate, EndInstance
    <2>5. job[d].at \in {"docker", "terminate"} => NoneUp("tunnel")
      BY <1>1, <1>2 DEF ShutdownOrder, TunnelDone
    <2> QED
      BY <2>1, <2>2, <2>3, <2>4, <2>5 DEF OffStep
  <1> QED
    BY <1>3, <1>4, <1>5, CourseWithoutBoot

LEMMA OutsideOnCourse ==
  ASSUME TypeInv, HelperInv, Smooth, Course, Next, Outside, UNCHANGED faults
  PROVE  Course'
  <1> USE DEF account, files, procs, turnOn, turnOff, trouble
  <1>1. CASE Status \/ TurnOff
    BY <1>1, CourseFrame DEF Status, TurnOff
  <1>2. ASSUME NEW p \in Proc, WatchdogExpires(p) PROVE Course'
    BY <1>2, CourseFrame DEF WatchdogExpires
  <1>3. ASSUME NEW p \in Proc PROVE ~WatchdogFails(p)
    BY PortOnCourse DEF Course, WatchdogFails
  <1>4. ASSUME NEW p \in Proc, TunnelBreaks(p) PROVE Course'
    <2>1. /\ ~proc[p].bound /\ proc' = [proc EXCEPT ![p] = NoProc]
          /\ UNCHANGED <<alive, serving, pidfile, boot>>
      BY <1>4, NoFault DEF TunnelBreaks, TypeInv
    <2>2. /\ \A q \in Proc : q # p => proc'[q] = proc[q]
          /\ ~proc'[p].up /\ proc'[p].ip = 0
      BY <2>1 DEF TypeInv, ProcType, NoProc
    <2>3. \A q : q \in Bound' <=> q \in Bound
      BY <2>1, <2>2, BoundMember
    <2>4. TunnelsServe' /\ DeadEnds'
      BY <2>1, <2>2, <2>3, BoundMember DEF Course, TunnelsServe, DeadEnds
    <2>5. 0 \notin alive
      BY DEF TypeInv, AccountType, Numbers
    <2>6. ASSUME NEW t \in Turn PROVE OnCourse(t)'
      <3>1. OnCourse(t) /\ boot'[t] = boot[t] /\ Bound' = Bound
        BY <2>1, <2>3 DEF Course
      <3>2. pidfile["tunnel"] \in Proc =>
              proc'[pidfile["tunnel"]].ip = proc[pidfile["tunnel"]].ip \/ proc'[pidfile["tunnel"]].ip = 0
        BY <2>2
      <3> QED
        BY <2>1, <2>5, <3>1, <3>2 DEF OnCourse
    <2> QED
      BY <2>4, <2>6 DEF Course
  <1>5. ASSUME NEW i \in Inst PROVE ~InstanceGoes(i) /\ ~ServerStops(i)
    BY NoFault DEF InstanceGoes, ServerStops, TypeInv
  <1>6. ASSUME NEW d \in Doer, OffStep(d) PROVE Course'
    BY <1>6, OffOnCourse
  <1> QED
    BY <1>1, <1>2, <1>3, <1>4, <1>5, <1>6 DEF Outside

LEMMA TurnOnOnCourse ==
  ASSUME TypeInv, Course, TurnOn
  PROVE  Course'
  <1>1. UNCHANGED <<alive, serving, proc, pidfile>>
    BY DEF TurnOn, account, files, procs
  <1>2. \A t \in Turn : boot'[t] = boot[t] \/ boot'[t].at \in {"none", "lookup"}
    BY DEF TurnOn, TypeInv, BootType
  <1> QED
    BY <1>1, <1>2, CourseFrame

\* The steps of a bootstrap that start no process: none of them fails.
LEMMA ThreadOnCourse ==
  ASSUME OpsInv, TypeInv, AddressInv, Course, NEW t \in Turn, BootStep(t), UNCHANGED faults,
         ~EnsureTunnel(t), ~EnsureWatchdog(t)
  PROVE  /\ Course'
         /\ bootState' # bootState => Step(t, "wait") /\ Bound = {} /\ bootState' = "error"
  <1> USE DEF account, files, procs, turnOn, turnOff, trouble
  <1>0. BootType /\ ~Fault /\ ~LostAnswer /\ OnCourse(t) /\ Numbers /\ rented \in Nat
    BY NoFault DEF TypeInv, Course, Numbers
  <1>1. boot[t].at # "none" /\ \A u \in Turn \ {t} : boot'[u] = boot[u]
    <2>1. \E b : boot' = [boot EXCEPT ![t] = b]
      BY <1>0 DEF BootStep, LookUp, CheckHealth, Reuse, Rent, SetEnv, Serve, EnsureTunnel,
           WaitForHealth, EnsureWatchdog, Goto, Ends, BootType
    <2> QED
      BY <1>0, <2>1, OneThreadMoves DEF BootType
  <1>2. /\ \A at : Goto(t, at) => /\ boot'[t].at = at /\ boot'[t].inst = boot[t].inst
                                  /\ bootState' = bootState
        /\ \A status : Ends(t, status) => boot'[t].at = "none" /\ bootState' = status
    BY <1>0 DEF BootType, Goto, Ends, NoBoot
  <1>3. /\ Port # "raises" /\ (Port = "ok" => Bound # {}) /\ (Port # "ok" => Bound = {})
    BY PortOnCourse DEF Course, Port
  <1>4. ASSUME UNCHANGED <<proc, pidfile>>, serving \subseteq serving', alive' = alive, OnCourse(t)'
        PROVE  Course'
    BY <1>1, <1>4, CourseOfThread
  <1>5. UNCHANGED proc => Bound' = Bound
    BY DEF Bound
  <1>6. CASE LookUp(t)
    <2>1. PICK i \in Found(WithEnvFile(chatIp)) :
            /\ boot' = [boot EXCEPT ![t] = [at |-> "health", ip |-> WithEnvFile(chatIp), inst |-> i]]
            /\ bootState' = bootState
      BY <1>0, <1>6 DEF LookUp
    <2>2. boot'[t].at = "health" /\ boot'[t].inst = i
      BY <1>0, <2>1 DEF BootType
    <2>3. i \in alive \cup {0} /\ UNCHANGED <<alive, serving, proc, pidfile>>
      BY <1>6 DEF Found, FirstListed, LookUp
    <2>4. OnCourse(t)'
      BY <2>2, <2>3 DEF OnCourse
    <2> QED
      BY <1>4, <2>1, <2>3, <2>4
  <1>7. CASE CheckHealth(t)
    <2>1. boot[t].at = "health" /\ UNCHANGED <<alive, serving, proc, pidfile>>
      BY <1>7 DEF CheckHealth, Step
    <2>2. \/ Goto(t, "tunnel") /\ Bound # {}
          \/ Goto(t, "rent")
          \/ Goto(t, "reuse") /\ boot[t].inst # 0
      BY <1>3, <1>7 DEF CheckHealth, Port
    <2>3. OnCourse(t)'
      BY <1>0, <1>2, <1>5, <2>1, <2>2 DEF OnCourse
    <2> QED
      BY <1>2, <1>4, <2>1, <2>2, <2>3
  <1>8. CASE Reuse(t)
    <2>1. boot[t].at = "reuse" /\ UNCHANGED <<alive, serving, proc, pidfile>>
      BY <1>8 DEF Reuse, Step
    <2>2. alive # {} /\ 0 \notin alive
      BY <1>0, <2>1 DEF OnCourse, TypeInv, AccountType
    <2>3. PICK i \in alive : /\ boot' = [boot EXCEPT ![t].inst = i, ![t].at = "setenv"]
                             /\ bootState' = bootState
      BY <1>0, <1>8, <2>2 DEF Reuse, FirstListed
    <2>4. boot'[t].at = "setenv" /\ boot'[t].inst = i
      BY <1>0, <2>3 DEF BootType
    <2>5. OnCourse(t)'
      BY <2>1, <2>3, <2>4 DEF OnCourse
    <2> QED
      BY <1>4, <2>1, <2>3, <2>5
  <1>9. CASE Rent(t)
    <2>1. /\ rented' = rented + 1 /\ alive' = alive \cup {rented'} /\ UNCHANGED <<serving, proc, pidfile>>
          /\ boot' = [boot EXCEPT ![t].inst = rented', ![t].at = "setenv"] /\ bootState' = bootState
      BY <1>0, <1>9 DEF Rent
    <2>2. boot'[t].at = "setenv" /\ boot'[t].inst = rented'
      BY <1>0, <2>1 DEF BootType
    <2>3. OnCourse(t)'
      BY <2>1, <2>2 DEF OnCourse
    <2>4. \A i \in alive' : i \in alive \/ \A p \in Proc : proc[p].ip # i
      BY <1>0, <2>1 DEF AddressInv
    <2> QED
      BY <1>1, <2>1, <2>3, <2>4, CourseOfThread
  <1>10. CASE SetEnv(t)
    <2>1. boot[t].at = "setenv" /\ UNCHANGED <<alive, serving, proc, pidfile>>
      BY <1>10 DEF SetEnv, Step
    <2>2. boot[t].inst \in alive /\ Goto(t, "serve")
      BY <1>0, <1>10, <2>1 DEF SetEnv, HasIp, OnCourse
    <2>3. OnCourse(t)'
      BY <1>2, <2>1, <2>2 DEF OnCourse
    <2> QED
      BY <1>2, <1>4, <2>1, <2>2, <2>3
  <1>11. CASE Serve(t)
    <2>1. boot[t].at = "serve" /\ UNCHANGED <<alive, proc, pidfile>>
      BY <1>11 DEF Serve, Step
    <2>2. /\ boot[t].inst \in alive /\ serving' = serving \cup {boot[t].inst}
          /\ boot' = [boot EXCEPT ![t].ip = WithEnvFile(@), ![t].at = "tunnel"] /\ bootState' = bootState
      BY <1>0, <1>11, <2>1 DEF Serve, Reachable, OnCourse
    <2>3. boot'[t].at = "tunnel" /\ boot'[t].inst = boot[t].inst
      BY <1>0, <2>2 DEF BootType
    <2>4. OnCourse(t)'
      BY <2>2, <2>3 DEF OnCourse
    <2> QED
      BY <1>4, <2>1, <2>2, <2>4
  <1>12. CASE WaitForHealth(t)
    <2>1. boot[t].at = "wait" /\ UNCHANGED <<alive, serving, proc, pidfile>>
      BY <1>12 DEF WaitForHealth, Step
    <2>2. (Goto(t, "watch") /\ Bound # {}) \/ (Ends(t, "error") /\ Bound = {})
      BY <1>3, <1>12 DEF WaitForHealth
    <2>3. OnCourse(t)'
      BY <1>2, <1>5, <2>1, <2>2 DEF OnCourse
    <2> QED
      BY <1>2, <1>4, <2>1, <2>2, <2>3 DEF Step
  <1> QED
    BY <1>6, <1>7, <1>8, <1>9, <1>10, <1>11, <1>12 DEF BootStep

-----------------------------------------------------------------------------
(* The steps of a bootstrap that start a process.                          *)

\* Who gets the local port, when Ensure starts a process.
LEMMA BoundField ==
  ASSUME NEW kind, NEW ip, NEW r,
         r = [kind |-> kind, up |-> TRUE, ip |-> ip,
              bound |-> kind = "tunnel" /\ ip \in alive /\ Bound = {}]
  PROVE  r.kind = kind /\ r.up /\ r.ip = ip /\ (r.bound <=> kind = "tunnel" /\ ip \in alive /\ Bound = {})
  <1> DEFINE b == kind = "tunnel" /\ ip \in alive /\ Bound = {}
  <1>1. r = [kind |-> kind, up |-> TRUE, ip |-> ip, bound |-> b]
    OBVIOUS
  <1> HIDE DEF b
  <1>2. r.kind = kind /\ r.up /\ r.ip = ip /\ (r.bound <=> b)
    BY <1>1
  <1> QED
    BY <1>2 DEF b

\* A tunnel is there already, or one is started, and takes the port if it can.
LEMMA TunnelOnCourse ==
  ASSUME OpsInv, HelperInv, TypeInv, RecordInv, Course, ~overlap, ~lost,
         Numbers', Budget', NEW t \in Turn, EnsureTunnel(t)
  PROVE  Course' /\ bootState' = bootState
  <1>0. /\ ProcType /\ BootType /\ Numbers /\ serving \subseteq alive /\ AloneInAccount
        /\ TunnelsServe /\ DeadEnds /\ OnCourse(t) /\ Unstarted
        /\ FilesNameHelpers
    BY DEF TypeInv, AccountType, OpsInv, Course, HelperInv, QuietInv
  <1>1. /\ boot[t].at = "tunnel" /\ Ensure("tunnel", boot[t].ip) /\ Goto(t, "wait")
        /\ UNCHANGED <<alive, serving>>
    BY DEF EnsureTunnel, Step, account
  <1>2. /\ boot'[t].at = "wait" /\ boot'[t].inst = boot[t].inst /\ bootState' = bootState
        /\ \A u \in Turn \ {t} : boot'[u] = boot[u]
    BY <1>0, <1>1 DEF Goto, BootType
  <1>3. Bound # {} \/ boot[t].inst \in serving
    BY <1>0, <1>1 DEF OnCourse
  <1>4. CASE Runs(pidfile["tunnel"])
    <2>1. UNCHANGED <<proc, pidfile>>
      BY <1>1, <1>4 DEF Ensure, procs
    <2>2. pidfile["tunnel"] \in Proc /\ proc[pidfile["tunnel"]].kind = "tunnel" /\ proc[pidfile["tunnel"]].up
      <3>1. started \in 0..(2 + 2 * MaxTurnOns) /\ pidfile["tunnel"] \in 0..started
            /\ pidfile["tunnel"] # 0 /\ MaxTurnOns \in Nat
        BY <1>0, <1>4, Ranges, OpsAssumption DEF ProcType, Runs, TypeInv
      <3>2. pidfile["tunnel"] \in Proc
        BY <3>1 DEF Proc
      <3> QED
        BY <1>4, <3>2 DEF RecordInv, Runs, Helper
    <2>3. Bound' = Bound
      BY <2>1 DEF Bound
    <2>4. Bound # {} \/ proc[pidfile["tunnel"]].ip # boot[t].inst
      BY <1>0, <1>3, <2>2, BoundMember DEF DeadEnds
    <2>5. OnCourse(t)'
      BY <1>0, <1>1, <1>2, <1>3, <2>1, <2>2, <2>3, <2>4 DEF OnCourse
    <2>6. \A i \in alive' : i \in alive
      BY <1>1
    <2> QED
      BY <1>1, <1>2, <2>1, <2>5, <2>6, CourseOfThread
  <1>5. CASE ~Runs(pidfile["tunnel"])
    <2>1. PICK n \in Proc :
            /\ n = started + 1 /\ n # 0
            /\ \A k \in Helper : pidfile'[k] = IF k = "tunnel" THEN n ELSE pidfile[k]
            /\ \A p \in Proc : p # n => proc'[p] = proc[p]
            /\ proc'[n] = [kind |-> "tunnel", up |-> TRUE, ip |-> boot[t].ip,
                           bound |-> "tunnel" = "tunnel" /\ boot[t].ip \in alive /\ Bound = {}]
      BY <1>0, <1>1, <1>5, Starts DEF Helper
    <2>2. Bound = {}
      <3>1. \A p \in Bound : p \in Proc /\ proc[p].up /\ proc[p].kind = "tunnel"
        BY <1>0, BoundMember DEF TunnelsServe
      <3> QED
        BY <1>0, <1>5, <3>1 DEF FilesNameHelpers, Runs, Proc
    <2>3. /\ proc'[n].kind = "tunnel" /\ proc'[n].up /\ proc'[n].ip = boot[t].ip
          /\ proc'[n].bound <=> boot[t].ip \in alive
      BY <2>1, <2>2, BoundField
    <2>4. boot[t].inst \in serving /\ boot[t].inst \in alive
      BY <1>0, <1>3, <2>2
    <2>5. boot[t].ip \in alive => boot[t].ip = boot[t].inst
      BY <1>0, <2>4 DEF AloneInAccount
    <2>6. \A p : p \in Bound' <=> p = n /\ boot[t].ip \in alive
      BY <2>1, <2>2, <2>3, BoundMember
    <2>7. TunnelsServe'
      BY <1>1, <2>3, <2>4, <2>5, <2>6 DEF TunnelsServe
    <2>8. DeadEnds'
      BY <1>0, <1>1, <2>1, <2>3 DEF DeadEnds
    <2>9. OnCourse(t)'
      <3>1. pidfile'["tunnel"] = n
        BY <2>1 DEF Helper
      <3> QED
        BY <1>1, <1>2, <2>3, <2>4, <2>6, <3>1 DEF OnCourse
    <2>10. \A u \in Turn \ {t} : boot'[u].at = "none"
      BY <1>1, <1>2 DEF OpsInv, OneBootstrap
    <2>11. \A u \in Turn \ {t} : OnCourse(u)'
      BY <2>10 DEF OnCourse
    <2> QED
      BY <1>2, <2>7, <2>8, <2>9, <2>11 DEF Course
  <1> QED
    BY <1>4, <1>5

\* A watchdog is there already, or one is started: the bootstrap is done.
LEMMA WatchdogOnCourse ==
  ASSUME OpsInv, HelperInv, TypeInv, RecordInv, RecordInv', Course, ~overlap,
         Numbers', Budget', NEW t \in Turn, EnsureWatchdog(t)
  PROVE  /\ Course' /\ bootState' = "ready"
         /\ Port' = "ok" /\ \E p \in Proc : Watches(p)'
  <1>0. /\ ProcType /\ BootType /\ Numbers
        /\ TunnelsServe /\ DeadEnds /\ OnCourse(t) /\ Unstarted /\ WorksAlone
    BY DEF TypeInv, Course, HelperInv, QuietInv
  <1>1. /\ boot[t].at = "watch" /\ Ensure("watchdog", boot[t].ip) /\ Ends(t, "ready")
        /\ UNCHANGED <<alive, serving, job>>
    BY DEF EnsureWatchdog, Step, account, turnOff
  <1>2. bootState' = "ready" /\ \A u \in Turn : boot'[u].at = "none"
    <2>1. /\ boot'[t].at = "none" /\ bootState' = "ready"
          /\ \A u \in Turn \ {t} : boot'[u] = boot[u]
      BY <1>0, <1>1 DEF Ends, BootType, NoBoot
    <2> QED
      BY <1>1, <2>1 DEF OpsInv, OneBootstrap
  <1>3. \A u \in Turn : OnCourse(u)'
    BY <1>2 DEF OnCourse
  <1>4. Bound # {}
    BY <1>0, <1>1 DEF OnCourse
  <1>5. AtWork = {}
    BY <1>0, <1>1 DEF WorksAlone
  <1>6. \E n \in Proc :
          /\ pidfile'["watchdog"] = n /\ n # 0 /\ proc'[n].up
          /\ \A p \in Proc : p # n => proc'[p] = proc[p]
          /\ proc'[n] = proc[n] \/ (~proc[n].up /\ job[n].at = "none" /\ ~proc'[n].bound /\ proc'[n].kind = "watchdog")
    <2>1. CASE Runs(pidfile["watchdog"])
      <3>1. UNCHANGED <<proc, pidfile>>
        BY <1>1, <2>1 DEF Ensure, procs
      <3>2. started \in 0..(2 + 2 * MaxTurnOns) /\ pidfile["watchdog"] \in 0..started
            /\ pidfile["watchdog"] # 0 /\ MaxTurnOns \in Nat
        BY <1>0, <2>1, Ranges, OpsAssumption DEF ProcType, Runs, TypeInv
      <3>3. pidfile["watchdog"] \in Proc
        BY <3>2 DEF Proc
      <3> QED
        BY <2>1, <3>1, <3>2, <3>3 DEF Runs
    <2>2. CASE ~Runs(pidfile["watchdog"])
      <3>1. PICK n \in Proc :
              /\ n = started + 1 /\ n # 0
              /\ \A k \in Helper : pidfile'[k] = IF k = "watchdog" THEN n ELSE pidfile[k]
              /\ \A p \in Proc : p # n => proc'[p] = proc[p]
              /\ proc'[n] = [kind |-> "watchdog", up |-> TRUE, ip |-> boot[t].ip,
                             bound |-> "watchdog" = "tunnel" /\ boot[t].ip \in alive /\ Bound = {}]
        BY <1>0, <1>1, <2>2, Starts DEF Helper
      <3>2. proc'[n].up /\ ~proc'[n].bound /\ proc'[n].kind = "watchdog"
        BY <3>1, BoundField
      <3>3. ~proc[n].up /\ job[n].at = "none"
        <4>1. started \in Nat /\ n > started
          BY <1>0, <3>1 DEF Numbers
        <4> QED
          BY <1>0, <4>1 DEF Unstarted
      <3>4. pidfile'["watchdog"] = n
        BY <3>1 DEF Helper
      <3> QED
        BY <3>1, <3>2, <3>3, <3>4
    <2> QED
      BY <2>1, <2>2
  <1>7. PICK n \in Proc :
          /\ pidfile'["watchdog"] = n /\ n # 0 /\ proc'[n].up
          /\ \A p \in Proc : p # n => proc'[p] = proc[p]
          /\ proc'[n] = proc[n] \/ (~proc[n].up /\ job[n].at = "none" /\ ~proc'[n].bound /\ proc'[n].kind = "watchdog")
    BY <1>6
  <1>8. \A p : p \in Bound' <=> p \in Bound
    BY <1>7, BoundMember
  <1>9. \A p \in Bound : proc'[p] = proc[p]
    BY <1>7, BoundMember
  <1>10. TunnelsServe'
    BY <1>0, <1>1, <1>8, <1>9 DEF TunnelsServe
  <1>11. DeadEnds'
    <2>1. proc'[n] = proc[n] \/ proc'[n].kind = "watchdog"
      BY <1>7
    <2> QED
      BY <1>0, <1>1, <1>7, <2>1 DEF DeadEnds
  <1>12. Port' = "ok"
    <2>1. PICK p : p \in Bound'
      BY <1>4, <1>8
    <2> QED
      BY <1>10, <2>1 DEF Port, TunnelsServe
  <1>13. Watches(n)'
    <2>1. proc'[n].kind = "watchdog"
      BY <1>7 DEF RecordInv, Helper, Runs
    <2>2. n \notin AtWork'
      <3>1. n \in Doer /\ n # Off
        BY <1>7 DEF Doer, Off
      <3>2. job'[n].at \in {"none", "done", "failed"}
        BY <1>1, <1>5, <1>7, <3>1, AtWorkMember
      <3> QED
        BY <3>2, AtWorkMemberPrimed
    <2> QED
      BY <1>7, <2>1, <2>2 DEF Watches
  <1> QED
    BY <1>2, <1>3, <1>10, <1>11, <1>12, <1>13 DEF Course

-----------------------------------------------------------------------------
(* The theorem.                                                            *)

LEMMA LossKept ==
  ASSUME Numbers, LossIsFault, Next
  PROVE  LossIsFault'
  <1>1. /\ Fault => faults' # 0
        /\ LostAnswer => faults' # 0
        /\ Fine => UNCHANGED <<faults, lost>>
        /\ UNCHANGED trouble => UNCHANGED <<faults, lost>>
    BY OpsAssumption DEF Fault, LostAnswer, Fine, trouble, Numbers
  <1>2. Fault \/ LostAnswer \/ Fine \/ UNCHANGED trouble
    <2>1. ASSUME NEW t \in Turn, BootStep(t) PROVE Fault \/ LostAnswer \/ Fine \/ UNCHANGED trouble
      BY <2>1 DEF BootStep, LookUp, CheckHealth, Reuse, Rent, SetEnv, Serve, EnsureTunnel, WaitForHealth,
                  EnsureWatchdog
    <2>2. TurnOn => UNCHANGED trouble
      BY DEF TurnOn
    <2> QED
      BY <2>1, <2>2, OutsideLeaves DEF Next, Outside
  <1> QED
    BY <1>1, <1>2 DEF LossIsFault

\* What a step of a smooth behaviour does.
LEMMA SmoothStep ==
  ASSUME OpsInv, HelperInv, TypeInv, WorkInv, LossIsFault, Next, Smooth'
  PROVE  /\ Smooth /\ Course'
         /\ bootState = "running" /\ bootState' # "running" =>
              IF bootState' = "ready"
              THEN (Port = "ok" /\ \E p \in Proc : Watches(p))'
              ELSE \E t \in Turn : Step(t, "wait") /\ proc[pidfile["tunnel"]].ip # boot[t].inst
  <1>1. Smooth /\ UNCHANGED faults /\ Course /\ ~overlap /\ ~lost
    BY StaysSmooth DEF Smooth, WorkInv, LossIsFault, TypeInv
  <1>2. Numbers' /\ Budget' /\ AddressInv /\ RecordInv
    BY NumbersKept DEF WorkInv
  <1>3. RecordInv'
    BY <1>2, RecordKept
  <1>4. CASE Outside
    BY <1>1, <1>4, OutsideOnCourse, OutsideLeaves
  <1>5. CASE TurnOn
    <2>1. bootState = "running" => bootState' = "running"
      BY <1>5 DEF TurnOn
    <2> QED
      BY <1>1, <1>5, <2>1, TurnOnOnCourse
  <1>6. ASSUME NEW t \in Turn, EnsureTunnel(t) PROVE Course' /\ bootState' = bootState
    BY <1>1, <1>2, <1>6, TunnelOnCourse
  <1>7. ASSUME NEW t \in Turn, EnsureWatchdog(t)
        PROVE  Course' /\ bootState' = "ready" /\ (Port = "ok" /\ \E p \in Proc : Watches(p))'
    BY <1>1, <1>2, <1>3, <1>7, WatchdogOnCourse
  <1>8. ASSUME NEW t \in Turn, BootStep(t), ~EnsureTunnel(t), ~EnsureWatchdog(t)
        PROVE  /\ Course'
               /\ bootState' # bootState =>
                    /\ bootState' = "error"
                    /\ Step(t, "wait") /\ proc[pidfile["tunnel"]].ip # boot[t].inst
    <2>1. /\ Course'
          /\ bootState' # bootState => Step(t, "wait") /\ Bound = {} /\ bootState' = "error"
      BY <1>1, <1>2, <1>8, ThreadOnCourse
    <2>2. OnCourse(t)
      BY <1>1 DEF Course
    <2> QED
      BY <2>1, <2>2 DEF OnCourse, Step
  <1>9. CASE \E t \in Turn : BootStep(t)
    <2>1. PICK t \in Turn : BootStep(t)
      BY <1>9
    <2>2. CASE EnsureTunnel(t)
      BY <1>1, <1>6, <2>2
    <2>3. CASE EnsureWatchdog(t)
      BY <1>1, <1>7, <2>3
    <2>4. CASE ~EnsureTunnel(t) /\ ~EnsureWatchdog(t)
      BY <1>1, <1>8, <2>1, <2>4
    <2> QED
      BY <2>2, <2>3, <2>4
  <1> QED
    BY <1>4, <1>5, <1>9 DEF Next, Outside

LEMMA InitWorkInv == Init => WorkInv /\ LossIsFault
  <1> SUFFICES ASSUME Init PROVE WorkInv /\ LossIsFault
    OBVIOUS
  <1>1. /\ rented \in {0, 1} /\ alive = serving /\ started = (IF alive = {} THEN 0 ELSE 2)
        /\ alive # {} => alive = {1} /\ rented = 1
        /\ LossIsFault
    BY DEF Init, LossIsFault
  <1>2. \A t \in Turn : boot[t].at = "none" /\ boot[t].ip = 0
    BY DEF Init, NoBoot
  <1>3. \A p \in Proc : proc[p] =
          IF p > started THEN NoProc
          ELSE IF p = 1 THEN [kind |-> "tunnel", up |-> TRUE, ip |-> 1, bound |-> TRUE]
          ELSE [kind |-> "watchdog", up |-> TRUE, ip |-> 1, bound |-> FALSE]
    BY DEF Init
  <1>4. \A p \in Proc : p > 0 /\ p \in Nat
    BY OpsAssumption DEF Proc
  <1>5. \A p \in Proc :
          \/ ~proc[p].up /\ proc[p].ip = 0
          \/ /\ alive = {1} /\ proc[p].ip = 1
             /\ \/ p = 1 /\ proc[p].kind = "tunnel" /\ proc[p].bound
                \/ p # 1 /\ proc[p].kind = "watchdog" /\ ~proc[p].bound
    <2> SUFFICES ASSUME NEW p \in Proc
                 PROVE  \/ ~proc[p].up /\ proc[p].ip = 0
                        \/ /\ alive = {1} /\ proc[p].ip = 1
                           /\ \/ p = 1 /\ proc[p].kind = "tunnel" /\ proc[p].bound
                              \/ p # 1 /\ proc[p].kind = "watchdog" /\ ~proc[p].bound
      OBVIOUS
    <2>1. CASE p > started
      BY <1>3, <2>1 DEF NoProc
    <2>2. CASE ~(p > started)
      <3>1. alive = {1}
        BY <1>1, <1>4, <2>2
      <3> QED
        BY <1>3, <2>2, <3>1
    <2> QED
      BY <2>1, <2>2
  <1>6. AddressInv
    <2>1. (0 \in 0..rented) /\ (alive = {1} => 1 \in 0..rented)
      BY <1>1
    <2> QED
      BY <1>2, <1>5, <2>1 DEF AddressInv
  <1>7. RecordInv
    <2>1. \/ alive = {} /\ pidfile = [tunnel |-> 0, watchdog |-> 0]
          \/ alive # {} /\ pidfile = [tunnel |-> 1, watchdog |-> 2]
      BY DEF Init
    <2>2. alive # {} => 1 \in Proc /\ 2 \in Proc /\ proc[1].kind = "tunnel" /\ proc[2].kind = "watchdog"
      <3>1. 1 \in Proc /\ 2 \in Proc
        BY OpsAssumption DEF Proc
      <3> QED
        BY <1>1, <1>3, <3>1
    <2> QED
      BY <2>1, <2>2 DEF RecordInv, Runs, Helper
  <1>8. Course
    <2>1. TunnelsServe
      BY <1>1, <1>5, BoundMember DEF TunnelsServe
    <2>2. DeadEnds
      BY <1>5 DEF DeadEnds
    <2> QED
      BY <1>2, <2>1, <2>2 DEF Course, OnCourse
  <1> QED
    BY <1>1, <1>6, <1>7, <1>8 DEF WorkInv

LEMMA StepWorkInv ==
  OpsInv /\ HelperInv /\ TypeInv /\ WorkInv /\ LossIsFault /\ [Next]_vars => WorkInv' /\ LossIsFault'
  <1> SUFFICES ASSUME OpsInv, HelperInv, TypeInv, WorkInv, LossIsFault, [Next]_vars
               PROVE  WorkInv' /\ LossIsFault'
    OBVIOUS
  <1>1. CASE Next
    <2>1. AddressInv' /\ RecordInv'
      BY <1>1, NumbersKept, AddressKept, RecordKept DEF WorkInv
    <2>2. Smooth' => Course'
      BY <1>1, SmoothStep
    <2> QED
      BY <1>1, <2>1, <2>2, LossKept DEF WorkInv, TypeInv
  <1>2. CASE UNCHANGED vars
    <2>1. /\ UNCHANGED <<rented, alive, serving, proc, pidfile, boot, faults, lost, overlap>>
      BY <1>2 DEF vars, account, files, procs, turnOn, trouble
    <2>2. AddressInv' /\ RecordInv' /\ LossIsFault' /\ (Smooth' => Smooth)
      BY <2>1 DEF WorkInv, AddressInv, RecordInv, LossIsFault, Smooth, Runs
    <2>3. Course => Course'
      BY <2>1, CourseFrame
    <2> QED
      BY <2>2, <2>3 DEF WorkInv
  <1> QED
    BY <1>1, <1>2

\* Without faults and without another script at work, for any number of requests to turn
\* on before, with turn-offs between them, and in any state they left the tunnels in, a
\* bootstrap (lambda_local_bootstrap.py, in the thread of serve_lambda_chat.py) ends with
\* a server that answers on the local port and a watchdog that watches it; or it has waited
\* in vain, at the health check only, behind a tunnel.pid that names a tunnel to an
\* earlier instance.
THEOREM TurningOnWorks == Spec => TurnOnWorks
  <1>1. OpsInv /\ HelperInv /\ TypeInv /\ WorkInv /\ LossIsFault /\ [Next]_vars =>
          [(bootState = "running" /\ bootState' # "running" /\ faults' = 0 /\ ~overlap')
             => IF bootState' = "ready"
                THEN (Port = "ok" /\ \E p \in Proc : Watches(p))'
                ELSE \E t \in Turn : Step(t, "wait") /\ proc[pidfile["tunnel"]].ip # boot[t].inst]_vars
    BY SmoothStep DEF Smooth
  <1> QED
    BY <1>1, InitOpsInv, StepOpsInv, InitHelperInv, StepHelperInv, InitTypeInv, StepTypeInv,
       InitWorkInv, StepWorkInv, PTL DEF Spec, TurnOnWorks
=============================================================================
