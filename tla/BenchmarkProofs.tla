-------------------------- MODULE BenchmarkProofs --------------------------
(***************************************************************************)
(* The benchmark run, for any number of nodes, pages and rows: what the    *)
(* dashboard relies on, and what a run leaves behind.                      *)
(***************************************************************************)
EXTENDS BenchmarkDashboard, FiniteSetTheorems, WellFoundedInduction, TLAPS

-----------------------------------------------------------------------------
(* Least and greatest elements.                                            *)

\* A set of naturals has a least element.
LEMMA NatLeast ==
  ASSUME NEW T \in SUBSET Nat, T # {}
  PROVE  \E x \in T : \A y \in T : x <= y
  <1> DEFINE R == {p \in Nat \X Nat : p[1] < p[2]}
  <1>1. IsWellFoundedOn(R, Nat)
    BY NatLessThanWellFounded DEF OpToRel
  <1>2. \A x, y \in Nat : y < x => <<y, x>> \in R
    <2> SUFFICES ASSUME NEW x \in Nat, NEW y \in Nat, y < x PROVE <<y, x>> \in R
      OBVIOUS
    <2>1. <<y, x>> \in Nat \X Nat /\ <<y, x>>[1] = y /\ <<y, x>>[2] = x
      OBVIOUS
    <2> QED
      BY <2>1
  <1> HIDE DEF R
  <1>3. PICK x \in T : \A y \in T : <<y, x>> \notin R
    BY <1>1, WFMin
  <1>4. \A y \in T : y \in Nat /\ x \in Nat /\ ~(y < x)
    BY <1>2, <1>3
  <1> QED
    BY <1>4

\* The first and the last node of a set are in it.
LEMMA MinOfNodes ==
  ASSUME NEW S \in SUBSET Node, S # {}
  PROVE  Min(S) \in S
  <1>1. \E x \in S : \A y \in S : x <= y
    BY NatLeast, LauncherAssumption DEF Node
  <1> QED
    BY <1>1 DEF Min

LEMMA MaxOfNodes ==
  ASSUME NEW S \in SUBSET Node, S # {}
  PROVE  Max(S) \in S
  <1> DEFINE T == {N - x : x \in S}
  <1>1. N \in Nat /\ S \subseteq 1..N
    BY LauncherAssumption DEF Node
  <1>2. T \in SUBSET Nat /\ T # {}
    <2>1. \A x \in S : x \in Int /\ x <= N
      BY <1>1
    <2>2. \A x \in S : N - x \in Nat
      BY <1>1, <2>1
    <2>3. T \subseteq Nat
      BY <2>2
    <2>4. PICK x \in S : TRUE
      OBVIOUS
    <2>5. N - x \in T
      BY <2>4
    <2> QED
      BY <2>3, <2>5
  <1>3. \E z \in T : \A y \in T : z <= y
    BY <1>2, NatLeast
  <1>4. \E x \in S : \A y \in S : x >= y
    BY <1>1, <1>3
  <1> QED
    BY <1>4 DEF Max

\* The cursor behind a batch: within the dataset, and at most count rows further.
LEMMA NextCursorRange ==
  ASSUME NEW cursor \in 0..Rows, NEW count \in Nat
  PROVE  /\ NextCursor(cursor, count) \in 0..Rows
         /\ NextCursor(cursor, count) <= cursor + count
  <1>1. Rows \in Nat
    BY DashboardAssumption
  <1>2. \A x, y \in {Rows, cursor + count} : (\A z \in {Rows, cursor + count} : x <= z)
                                            => x <= y
    OBVIOUS
  <1>3. \E x \in {Rows, cursor + count} : \A z \in {Rows, cursor + count} : x <= z
    BY <1>1
  <1>4. NextCursor(cursor, count) \in {Rows, cursor + count}
        /\ \A z \in {Rows, cursor + count} : NextCursor(cursor, count) <= z
    BY <1>3 DEF NextCursor, Min
  <1> QED
    BY <1>1, <1>4

-----------------------------------------------------------------------------
(* Types.                                                                  *)

Step     == {"start", "select", "launch", "posting", "partial", "launched", "ips", "deploy",
             "tunnels", "opened", "warm", "wait", "record", "exit", "ended"}
Managers == [ids : SUBSET Own, pids : SUBSET Node, cleaned : BOOLEAN]
Jobs     == [at : {"none", "tunnels", "terminate", "verify", "report"}, todo : SUBSET Own,
             by : {"signal", "exit"}, ok : BOOLEAN]
Page     == [at : {"off", "seen", "open", "sending", "done"}, left : SUBSET (Node \X Row),
             next : {NoCursor} \cup 0..Rows]

\* A step that registers a tunnel comes after one has been started.
Control ==
  /\ variant \in {"individual", "together"} /\ pc \in Step
  /\ exc \in {"none", "Exception", "SystemExit"}
  /\ pc = "opened" /\ job.at = "none" => tunnels # {}
Account ==
  /\ ids \subseteq Own /\ requested \subseteq Own /\ undone \subseteq Own
  /\ alive \subseteq Own \cup Foreign
Locals == tunnels \subseteq Node /\ mgr \in Managers /\ job \in Jobs
Progress ==
  /\ deployed \in [Node -> {"no", "running", "ok", "failed"}]
  /\ runState \in {"none", "created", "launched", "warming", "ready", "failed", "dry_run"}
DbType == db \in Tables
Histories ==
  /\ holders \subseteq Session \cup {"launcher"}
  /\ faults \subseteq Kinds /\ signals \in 0..MaxSignals
Pages == ses \in [Session -> Page] /\ clicks \in 0..MaxClicks

TypeInv == Control /\ Account /\ Locals /\ Progress /\ DbType /\ Histories /\ Pages

LEMMA TypeInvOK == TypeInv => TypeOK
  BY DEF TypeInv, Control, Account, Locals, Progress, DbType, Histories, Pages, Page, Step, Jobs,
     Managers, TypeOK

LEMMA TypeInit == Init => TypeInv
  <1>1. 0 \in 0..Rows /\ 0 \in 0..MaxClicks /\ 0 \in 0..MaxSignals
    BY LauncherAssumption, DashboardAssumption
  <1> QED
    BY <1>1 DEF Init, LauncherInit, TypeInv, Control, Account, Locals, Progress, DbType, Histories,
                Pages, Page, Step, Jobs, Managers, Off, EmptyDb, Tables, RunStatus, NoJob, NoCursor

\* The clean-up starts with what the manager knows.
LEMMA NewJob ==
  ASSUME Locals, NEW by \in {"signal", "exit"}, StartCleanup(by)
  PROVE  mgr' \in Managers /\ job' \in Jobs
  BY DEF Locals, Managers, Jobs, StartCleanup

\* The next instance of a launch is one of the run's.
LEMMA IdsCount ==
  ASSUME ids \subseteq Own
  PROVE  Cardinality(ids) \in 0..N
  <1>1. N \in Nat
    BY LauncherAssumption
  <1>2. IsFiniteSet(1..N) /\ Cardinality(1..N) = N
    BY <1>1, FS_Interval
  <1>3. IsFiniteSet(ids) /\ Cardinality(ids) <= N
    BY <1>2, FS_Subset DEF Own
  <1> QED
    BY <1>1, <1>3, FS_CardinalityType

\* Each step of the launcher, the API or a signal keeps each part.
LEMMA LauncherControl ==
  ASSUME Control, Account, Locals, Progress, DbType, Histories, Launcher
  PROVE  Control'
  <1> USE DEF Control, Step, Locals, Jobs, Account, NoJob, StartCleanup, LeaveCleanup, launcherVars,
              account, local, progress, Goto, At, Fault, Fine, Raise, Handler, Opens, Closes
  <1>1. CASE Start
    BY <1>1 DEF Start
  <1>2. CASE DryRun
    BY <1>2 DEF DryRun
  <1>3. CASE SelectCapacity
    BY <1>3 DEF SelectCapacity
  <1>4. CASE LaunchRequest
    BY <1>4 DEF LaunchRequest
  <1>5. CASE LaunchAnswered
    BY <1>5 DEF LaunchAnswered
  <1>6. CASE LaunchRefused
    BY <1>6 DEF LaunchRefused
  <1>7. CASE TerminatePartial
    BY <1>7 DEF TerminatePartial
  <1>8. CASE RegisterInstances
    BY <1>8 DEF RegisterInstances
  <1>9. CASE Prepare
    BY <1>9 DEF Prepare
  <1>10. CASE DeployEnds
    BY <1>10 DEF DeployEnds
  <1>11. CASE DeployInOrder
    BY <1>11 DEF DeployInOrder
  <1>12. CASE StartTunnel
    BY <1>12 DEF StartTunnel
  <1>13. CASE RegisterTunnel
    BY <1>13 DEF RegisterTunnel
  <1>14. CASE WarmNode
    BY <1>14 DEF WarmNode
  <1>15. CASE HandOver
    BY <1>15 DEF HandOver
  <1>16. CASE RecordFailedRun
    BY <1>16 DEF RecordFailedRun
  <1>17. CASE ExitManager
    BY <1>17 DEF ExitManager
  <1>18. CASE StopTunnels
    BY <1>18 DEF StopTunnels
  <1>19. CASE TerminateInstance
    BY <1>19 DEF TerminateInstance
  <1>20. CASE Verify
    BY <1>20 DEF Verify
  <1>21. CASE RecordCleanup
    BY <1>21 DEF RecordCleanup
  <1>22. CASE CloudLaunches
    BY <1>22 DEF CloudLaunches
  <1>23. CASE Signal
    BY <1>23 DEF Signal
  <1>24. CASE SignalAgain
    BY <1>24 DEF SignalAgain
  <1>25. CASE SignalInExit
    BY <1>25 DEF SignalInExit
  <1>26. ASSUME NEW n \in Node, DeployNode(n) PROVE Control'
    BY <1>26 DEF DeployNode
  <1> QED
    BY <1>1, <1>2, <1>3, <1>4, <1>5, <1>6, <1>7, <1>8, <1>9, <1>10, <1>11, <1>12, <1>13, <1>14,
       <1>15, <1>16, <1>17, <1>18, <1>19, <1>20, <1>21, <1>22, <1>23, <1>24, <1>25, <1>26
       DEF Launcher, MainThread, Interrupt

LEMMA LauncherAccount ==
  ASSUME Control, Account, Locals, Progress, DbType, Histories, Launcher
  PROVE  Account'
  <1> USE DEF Account, Locals, Jobs, Managers, LeaveCleanup, StartCleanup, NoJob, launcherVars,
              account, local, progress, Goto, At, Fault, Fine, Raise, Handler, Opens, Closes
  <1>1. CASE SelectCapacity
    BY <1>1 DEF SelectCapacity
  <1>2. CASE LaunchRequest
    <2>1. Cardinality(ids) # N => Cardinality(ids) + 1 \in Own
      BY IdsCount, LauncherAssumption DEF Own
    <2> QED
      BY <2>1, <1>2 DEF LaunchRequest
  <1>3. CASE LaunchAnswered
    BY <1>3 DEF LaunchAnswered
  <1>4. CASE LaunchRefused
    BY <1>4 DEF LaunchRefused
  <1>5. CASE TerminatePartial
    BY <1>5 DEF TerminatePartial
  <1>6. CASE Prepare
    BY <1>6 DEF Prepare
  <1>7. CASE DeployEnds
    BY <1>7 DEF DeployEnds
  <1>8. CASE DeployInOrder
    BY <1>8 DEF DeployInOrder
  <1>9. CASE WarmNode
    BY <1>9 DEF WarmNode
  <1>10. CASE TerminateInstance
    <2>1. job.todo # {} => Min(job.todo) \in Own
      BY MinOfNodes DEF Own, Node
    <2> QED
      BY <2>1, <1>10 DEF TerminateInstance
  <1>11. CASE Verify
    BY <1>11 DEF Verify
  <1>12. CASE RecordCleanup
    BY <1>12 DEF RecordCleanup
  <1>13. CASE CloudLaunches
    BY <1>13 DEF CloudLaunches
  <1>14. CASE Signal
    BY <1>14 DEF Signal
  <1>15. CASE SignalAgain
    <2>1. job.todo # {} => Min(job.todo) \in Own
      BY MinOfNodes DEF Own, Node
    <2> QED
      BY <2>1, <1>15 DEF SignalAgain
  <1>16. CASE \/ Start \/ DryRun \/ RegisterInstances \/ StartTunnel \/ RegisterTunnel \/ HandOver
              \/ RecordFailedRun \/ ExitManager \/ StopTunnels \/ SignalInExit
              \/ \E n \in Node : DeployNode(n)
    <2>1. UNCHANGED account
      BY <1>16 DEF Start, DryRun, RegisterInstances, StartTunnel, RegisterTunnel, HandOver,
                  RecordFailedRun, ExitManager, StopTunnels, SignalInExit, DeployNode
    <2> QED
      BY <2>1
  <1> QED
    BY <1>1, <1>2, <1>3, <1>4, <1>5, <1>6, <1>7, <1>8, <1>9, <1>10, <1>11, <1>12, <1>13, <1>14,
       <1>15, <1>16 DEF Launcher, MainThread, Interrupt

LEMMA LauncherLocals ==
  ASSUME Control, Account, Locals, Progress, DbType, Histories, Launcher
  PROVE  Locals'
  <1> USE DEF Locals, Jobs, Managers, StartCleanup, LeaveCleanup, NoJob, launcherVars, account,
              local, progress, Goto, At, Fault, Fine, Raise, Handler, Opens, Closes
  <1>1. CASE RegisterInstances
    BY <1>1 DEF RegisterInstances, Account
  <1>2. CASE StartTunnel
    <2>1. tunnels # Node => Min(Node \ tunnels) \in Node
      BY MinOfNodes
    <2> QED
      BY <2>1, <1>2 DEF StartTunnel
  <1>3. CASE RegisterTunnel
    BY <1>3 DEF RegisterTunnel
  <1>4. CASE ExitManager
    BY <1>4, NewJob DEF ExitManager
  <1>5. CASE StopTunnels
    BY <1>5 DEF StopTunnels
  <1>6. CASE TerminateInstance
    BY <1>6 DEF TerminateInstance
  <1>7. CASE Verify
    <2>1. ASSUME job' = [job EXCEPT !.at = "report", !.ok = Remaining = {}] PROVE job' \in Jobs
      <3>1. (Remaining = {}) \in BOOLEAN
        OBVIOUS
      <3>2. PICK b \in BOOLEAN : job' = [job EXCEPT !.at = "report", !.ok = b]
        BY <2>1, <3>1
      <3> QED
        BY <3>2
    <2>2. NoJob \in Jobs
      OBVIOUS
    <2>3. job' = [job EXCEPT !.at = "report", !.ok = Remaining = {}] \/ job' = NoJob
      BY <1>7 DEF Verify
    <2>4. tunnels' = tunnels /\ mgr' = mgr
      BY <1>7 DEF Verify
    <2> QED
      BY <2>1, <2>2, <2>3, <2>4
  <1>8. CASE RecordCleanup
    BY <1>8 DEF RecordCleanup
  <1>9. CASE Signal
    BY <1>9, NewJob DEF Signal
  <1>10. CASE SignalAgain
    <2>1. tunnels' = tunnels /\ mgr' = mgr
      BY <1>10 DEF SignalAgain
    <2>2. job' = NoJob \/ job' = [job EXCEPT !.todo = job.todo \ {Min(job.todo)}]
      BY <1>10 DEF SignalAgain
    <2>3. ASSUME NEW T \in SUBSET Own PROVE [job EXCEPT !.todo = T] \in Jobs
      OBVIOUS
    <2>4. NoJob \in Jobs /\ job.todo \ {Min(job.todo)} \in SUBSET Own
      OBVIOUS
    <2> QED
      BY <2>1, <2>2, <2>3, <2>4
  <1>11. CASE SignalInExit
    BY <1>11 DEF SignalInExit
  <1>12. CASE \/ Start \/ DryRun \/ SelectCapacity \/ LaunchRequest \/ LaunchAnswered
              \/ LaunchRefused \/ TerminatePartial \/ Prepare \/ DeployEnds \/ DeployInOrder
              \/ WarmNode \/ HandOver \/ RecordFailedRun \/ CloudLaunches
              \/ \E n \in Node : DeployNode(n)
    <2>1. UNCHANGED local
      BY <1>12 DEF Start, DryRun, SelectCapacity, LaunchRequest, LaunchAnswered, LaunchRefused,
                  TerminatePartial, Prepare, DeployEnds, DeployInOrder, WarmNode, HandOver,
                  RecordFailedRun, CloudLaunches, DeployNode
    <2> QED
      BY <2>1
  <1> QED
    BY <1>1, <1>2, <1>3, <1>4, <1>5, <1>6, <1>7, <1>8, <1>9, <1>10, <1>11, <1>12 DEF Launcher, MainThread, Interrupt

LEMMA LauncherProgress ==
  ASSUME Control, Account, Locals, Progress, DbType, Histories, Launcher
  PROVE  Progress'
  <1> USE DEF Progress, launcherVars, account, local, progress, Goto, At, Fault, Fine, Raise,
              Handler, Opens, Closes
  <1>1. CASE Start
    BY <1>1 DEF Start
  <1>2. CASE DryRun
    BY <1>2 DEF DryRun
  <1>3. CASE RegisterInstances
    BY <1>3 DEF RegisterInstances
  <1>4. CASE Prepare
    BY <1>4 DEF Prepare
  <1>5. CASE StartTunnel
    BY <1>5 DEF StartTunnel
  <1>6. CASE HandOver
    BY <1>6 DEF HandOver
  <1>7. CASE RecordFailedRun
    BY <1>7 DEF RecordFailedRun
  <1>8. ASSUME NEW n \in Node, DeployNode(n) PROVE Progress'
    BY <1>8 DEF DeployNode
  <1>9. CASE \/ SelectCapacity \/ LaunchRequest \/ LaunchAnswered \/ LaunchRefused
             \/ TerminatePartial \/ DeployEnds \/ DeployInOrder \/ RegisterTunnel \/ WarmNode
             \/ ExitManager \/ StopTunnels \/ TerminateInstance \/ Verify \/ RecordCleanup
             \/ CloudLaunches \/ Signal \/ SignalAgain \/ SignalInExit
    <2>1. UNCHANGED <<deployed, runState>>
      BY <1>9 DEF SelectCapacity, LaunchRequest, LaunchAnswered, LaunchRefused, TerminatePartial,
                  DeployEnds, DeployInOrder, RegisterTunnel, WarmNode, ExitManager, StopTunnels,
                  TerminateInstance, Verify, RecordCleanup, CloudLaunches, Signal, SignalAgain,
                  SignalInExit
    <2> QED
      BY <2>1
  <1> QED
    BY <1>1, <1>2, <1>3, <1>4, <1>5, <1>6, <1>7, <1>8, <1>9 DEF Launcher, MainThread, Interrupt

LEMMA LauncherDbType ==
  ASSUME Control, Account, Locals, Progress, DbType, Histories, Launcher
  PROVE  DbType'
  <1> USE DEF DbType, Tables, RunStatus, WithRun, WithStatus, WithNode, WithCleanup, launcherVars,
              account, local, progress, Goto, At, Fault, Fine, Raise, Handler, Opens, Closes
  <1>1. CASE DryRun
    BY <1>1 DEF DryRun
  <1>2. CASE Prepare
    BY <1>2 DEF Prepare
  <1>3. CASE StartTunnel
    BY <1>3 DEF StartTunnel
  <1>4. CASE RegisterTunnel
    <2>1. Max(tunnels) \in Node
      BY <1>4, MaxOfNodes DEF RegisterTunnel, Control, Locals
    <2> QED
      BY <2>1, <1>4 DEF RegisterTunnel
  <1>5. CASE WarmNode
    <2>1. db.warm # Node => Min(Node \ db.warm) \in Node
      <3>1. db.warm \subseteq Node
        OBVIOUS
      <3> QED
        BY <3>1, MinOfNodes
    <2>2. \A n \in Node : WithNode(db, n, TRUE) \in Tables
      OBVIOUS
    <2>3. db' = db \/ db' = WithNode(db, Min(Node \ db.warm), TRUE)
      BY <1>5 DEF WarmNode
    <2> QED
      BY <2>1, <2>2, <2>3, <1>5 DEF WarmNode
  <1>6. CASE HandOver
    BY <1>6 DEF HandOver
  <1>7. CASE RecordFailedRun
    BY <1>7 DEF RecordFailedRun
  <1>8. CASE RecordCleanup
    BY <1>8 DEF RecordCleanup
  <1>9. CASE \/ Start \/ SelectCapacity \/ LaunchRequest \/ LaunchAnswered \/ LaunchRefused
             \/ TerminatePartial \/ RegisterInstances \/ DeployEnds \/ DeployInOrder
             \/ ExitManager \/ StopTunnels \/ TerminateInstance \/ Verify \/ CloudLaunches
             \/ Signal \/ SignalAgain \/ SignalInExit \/ \E n \in Node : DeployNode(n)
    <2>1. UNCHANGED db
      BY <1>9 DEF Start, SelectCapacity, LaunchRequest, LaunchAnswered, LaunchRefused,
                  TerminatePartial, RegisterInstances, DeployEnds, DeployInOrder, ExitManager,
                  StopTunnels, TerminateInstance, Verify, CloudLaunches, Signal, SignalAgain,
                  SignalInExit, DeployNode
    <2> QED
      BY <2>1
  <1> QED
    BY <1>1, <1>2, <1>3, <1>4, <1>5, <1>6, <1>7, <1>8, <1>9 DEF Launcher, MainThread, Interrupt

LEMMA LauncherHistories ==
  ASSUME Control, Account, Locals, Progress, DbType, Histories, Launcher
  PROVE  Histories'
  <1> USE DEF Histories, Kinds, LeaveCleanup, launcherVars, account, local, progress, Goto, At,
              Fault, Fine, Raise, Handler, Opens, Closes
  <1>1. CASE Start
    BY <1>1 DEF Start
  <1>2. CASE DryRun
    BY <1>2 DEF DryRun
  <1>3. CASE SelectCapacity
    BY <1>3 DEF SelectCapacity
  <1>4. CASE LaunchRequest
    BY <1>4 DEF LaunchRequest
  <1>5. CASE LaunchAnswered
    BY <1>5 DEF LaunchAnswered
  <1>6. CASE LaunchRefused
    BY <1>6 DEF LaunchRefused
  <1>7. CASE TerminatePartial
    BY <1>7 DEF TerminatePartial
  <1>8. CASE RegisterInstances
    BY <1>8 DEF RegisterInstances
  <1>9. CASE Prepare
    BY <1>9 DEF Prepare
  <1>10. CASE DeployEnds
    BY <1>10 DEF DeployEnds
  <1>11. CASE DeployInOrder
    BY <1>11 DEF DeployInOrder
  <1>12. CASE StartTunnel
    BY <1>12 DEF StartTunnel
  <1>13. CASE RegisterTunnel
    BY <1>13 DEF RegisterTunnel
  <1>14. CASE WarmNode
    BY <1>14 DEF WarmNode
  <1>15. CASE HandOver
    BY <1>15 DEF HandOver
  <1>16. CASE RecordFailedRun
    BY <1>16 DEF RecordFailedRun
  <1>17. CASE ExitManager
    BY <1>17 DEF ExitManager
  <1>18. CASE StopTunnels
    BY <1>18 DEF StopTunnels
  <1>19. CASE TerminateInstance
    BY <1>19 DEF TerminateInstance
  <1>20. CASE Verify
    BY <1>20 DEF Verify
  <1>21. CASE RecordCleanup
    BY <1>21 DEF RecordCleanup
  <1>22. CASE CloudLaunches
    BY <1>22 DEF CloudLaunches
  <1>23. CASE Signal
    BY <1>23, LauncherAssumption DEF Signal
  <1>24. CASE SignalAgain
    BY <1>24, LauncherAssumption DEF SignalAgain
  <1>25. CASE SignalInExit
    BY <1>25, LauncherAssumption DEF SignalInExit
  <1>26. ASSUME NEW n \in Node, DeployNode(n) PROVE Histories'
    BY <1>26 DEF DeployNode
  <1> QED
    BY <1>1, <1>2, <1>3, <1>4, <1>5, <1>6, <1>7, <1>8, <1>9, <1>10, <1>11, <1>12, <1>13, <1>14,
       <1>15, <1>16, <1>17, <1>18, <1>19, <1>20, <1>21, <1>22, <1>23, <1>24, <1>25, <1>26
       DEF Launcher, MainThread, Interrupt

\* A page changes the database, who has it open, and itself.
LEMMA DashboardFrame ==
  ASSUME Dashboard
  PROVE  UNCHANGED <<variant, pc, exc, account, local, deployed, runState, signals>>
  BY DEF Dashboard, ChooseRows, ReadRun, SessionStep, StartBatch, RequestEnds, BatchEnds,
         SaveCursor, BatchFails, DashboardDies, OnlyDb, launcherVars, progress

\* What a click leaves the page with.
NextBatch(count)  == [at |-> "open", left |-> db.nodes \X NextRows(db.cursor, count),
                      next |-> NextCursor(db.cursor, count)]
RandomBatch(rows) == [at |-> "open", left |-> db.nodes \X rows, next |-> NoCursor]

LEMMA DashboardTypes ==
  ASSUME TypeInv, Dashboard
  PROVE  TypeInv'
  <1> USE DEF TypeInv
  <1>1. Control' /\ Account' /\ Locals' /\ Progress'
    BY DashboardFrame DEF Control, Account, Locals, Progress, account, local
  <1> USE DEF DbType, Histories, Pages, Page, Tables, RunStatus, Kinds, WithStatus, WithCursor,
              WithRequest, Fine, Fault, OnlyDb, Dash, Click, Opens, Closes, Off, NoCursor,
              launcherVars, progress
  <1>2. ASSUME NEW s \in Session, ChooseRows(s) PROVE DbType' /\ Histories' /\ Pages'
    <2>1. DbType' /\ Histories' /\ clicks' \in 0..MaxClicks
      BY <1>2, DashboardAssumption DEF ChooseRows
    <2>2. PICK count \in 1..MaxCount :
            \/ ses' = [ses EXCEPT ![s] = NextBatch(count)]
            \/ ses' = [ses EXCEPT ![s] = Off]
            \/ \E rows \in RandomRows(count) :
                 ses' = [ses EXCEPT ![s] = RandomBatch(rows)]
      BY <1>2 DEF ChooseRows, NextBatch, RandomBatch
    <2>3. NextCursor(db.cursor, count) \in 0..Rows /\ NextRows(db.cursor, count) \subseteq Row
      <3>1. count \in Nat /\ db.cursor \in 0..Rows
        BY DashboardAssumption
      <3>2. NextCursor(db.cursor, count) \in 0..Rows
        BY <3>1, NextCursorRange
      <3> QED
        BY <3>2 DEF NextRows
    <2>4. \A rows \in RandomRows(count) : rows \subseteq Row
      BY DEF RandomRows, kSubset
    <2>5. \A rows \in SUBSET Row : db.nodes \X rows \subseteq Node \X Row
      OBVIOUS
    <2>6. ses' \in [Session -> Page]
      BY <2>2, <2>3, <2>4, <2>5 DEF NextBatch, RandomBatch
    <2> QED
      BY <2>1, <2>6
  <1>3. ASSUME NEW s \in Session, ReadRun(s), UNCHANGED clicks PROVE DbType' /\ Histories' /\ Pages'
    BY <1>3 DEF ReadRun
  <1>4. ASSUME NEW s \in Session, StartBatch(s), UNCHANGED clicks
        PROVE  DbType' /\ Histories' /\ Pages'
    BY <1>4 DEF StartBatch
  <1>5. ASSUME NEW s \in Session, NEW n \in Node, NEW r \in Row, RequestEnds(s, n, r), UNCHANGED clicks
        PROVE  DbType' /\ Histories' /\ Pages'
    BY <1>5 DEF RequestEnds
  <1>6. ASSUME NEW s \in Session, BatchEnds(s), UNCHANGED clicks
        PROVE  DbType' /\ Histories' /\ Pages'
    BY <1>6 DEF BatchEnds
  <1>7. ASSUME NEW s \in Session, SaveCursor(s), UNCHANGED clicks
        PROVE  DbType' /\ Histories' /\ Pages'
    BY <1>7 DEF SaveCursor
  <1>8. ASSUME NEW s \in Session, BatchFails(s), UNCHANGED clicks
        PROVE  DbType' /\ Histories' /\ Pages'
    BY <1>8 DEF BatchFails
  <1>9. CASE DashboardDies /\ UNCHANGED clicks
    BY <1>1, <1>9 DEF DashboardDies
  <1> QED
    BY <1>1, <1>2, <1>3, <1>4, <1>5, <1>6, <1>7, <1>8, <1>9 DEF Dashboard, SessionStep

LEMMA TypeNext == TypeInv /\ [Next]_vars => TypeInv'
  <1> SUFFICES ASSUME TypeInv, [Next]_vars PROVE TypeInv'
    OBVIOUS
  <1>1. CASE Launcher /\ UNCHANGED <<ses, clicks>>
    <2>1. Pages'
      BY <1>1 DEF TypeInv, Pages
    <2> QED
      BY <1>1, <2>1, LauncherControl, LauncherAccount, LauncherLocals, LauncherProgress,
         LauncherDbType, LauncherHistories DEF TypeInv
  <1>2. CASE Dashboard
    BY <1>2, DashboardTypes
  <1>3. CASE UNCHANGED vars
    BY <1>3 DEF vars, launcherVars, account, local, progress, TypeInv, Control, Account, Locals,
                Progress, DbType, Histories, Pages
  <1> QED
    BY <1>1, <1>2, <1>3 DEF Next

LEMMA TypeInvariant == Spec => []TypeInv
  BY TypeInit, TypeNext, PTL DEF Spec

\* Every variable keeps its type, through every failure, signal and crash.
THEOREM BenchmarkTypes == Spec => []TypeOK
  BY TypeInvariant, TypeInvOK, PTL

-----------------------------------------------------------------------------
(* What the dashboard relies on.                                           *)

\* Faults are only added.
LEMMA LauncherFaults ==
  ASSUME Launcher
  PROVE  faults \subseteq faults'
  BY DEF Launcher, MainThread, Interrupt, Fault, Fine, Start, DryRun, SelectCapacity, LaunchRequest,
     LaunchAnswered, LaunchRefused, TerminatePartial, RegisterInstances, Prepare, DeployEnds,
     DeployInOrder, StartTunnel, RegisterTunnel, WarmNode, HandOver, RecordFailedRun, ExitManager,
     StopTunnels, TerminateInstance, Verify, RecordCleanup, CloudLaunches, Signal, SignalAgain,
     SignalInExit, DeployNode

\* What the launcher does to the database, as far as the dashboard looks.
LEMMA LauncherDb ==
  ASSUME DbType, Launcher
  PROVE  /\ db'.run \in {"ready", "processing"}
              => db'.run = db.run \/ (db'.run = "ready" /\ db.warm = Node)
         /\ db.warm \subseteq db'.warm /\ (db.warm \subseteq db.nodes => db'.warm \subseteq db'.nodes)
         /\ db'.cursor = db.cursor /\ db'.sent = db.sent
  <1> USE DEF DbType, Tables, WithRun, WithStatus, WithNode, WithCleanup, progress
  <1>1. CASE DryRun
    BY <1>1 DEF DryRun
  <1>2. CASE Prepare
    BY <1>2 DEF Prepare
  <1>3. CASE StartTunnel
    BY <1>3 DEF StartTunnel
  <1>4. CASE RegisterTunnel
    BY <1>4 DEF RegisterTunnel
  <1>5. CASE WarmNode
    BY <1>5 DEF WarmNode
  <1>6. CASE HandOver
    BY <1>6 DEF HandOver
  <1>7. CASE RecordFailedRun
    BY <1>7 DEF RecordFailedRun
  <1>8. CASE RecordCleanup
    BY <1>8 DEF RecordCleanup
  <1>9. CASE \/ Start \/ SelectCapacity \/ LaunchRequest \/ LaunchAnswered \/ LaunchRefused
             \/ TerminatePartial \/ RegisterInstances \/ DeployEnds \/ DeployInOrder \/ ExitManager
             \/ StopTunnels \/ TerminateInstance \/ Verify \/ CloudLaunches \/ Signal \/ SignalAgain
             \/ SignalInExit
             \/ \E n \in Node : DeployNode(n)
    <2>1. db' = db
      BY <1>9 DEF Start, SelectCapacity, LaunchRequest, LaunchAnswered, LaunchRefused,
         TerminatePartial, RegisterInstances, DeployEnds, DeployInOrder, ExitManager, StopTunnels,
         TerminateInstance, Verify, CloudLaunches, Signal, SignalAgain, SignalInExit, DeployNode
    <2> QED
      BY <2>1
  <1> QED
    BY <1>1, <1>2, <1>3, <1>4, <1>5, <1>6, <1>7, <1>8, <1>9 DEF Launcher, MainThread, Interrupt

\* A page that shows buttons was drawn when every node had been warmed up.
WarmInv ==
  /\ db.run \in {"ready", "processing"} \/ (\E s \in Session : ses[s].at # "off") => db.warm = Node
  /\ db.warm \subseteq db.nodes

\* The cursor a page will save is behind what it has sent or has yet to send.
Saves(s) == ses[s].at \in {"open", "sending", "done"} /\ ses[s].next # NoCursor
SaveBehind ==
  \A s \in Session :
    /\ Saves(s) => \A r \in Row, n \in Node : r < ses[s].next => <<n, r>> \in db.sent \cup ses[s].left
    /\ ses[s].at = "done" => ses[s].left = {}

DashboardInv == WarmInv /\ ProcessingHasBatch /\ CursorBehind /\ SaveBehind

LEMMA DashboardInit == Init => DashboardInv
  BY DEF Init, LauncherInit, DashboardInv, WarmInv, ProcessingHasBatch, CursorBehind, SaveBehind,
     Saves, Off,
         EmptyDb, Row

LEMMA DashboardNext == TypeInv /\ TypeInv' /\ DashboardInv /\ [Next]_vars => DashboardInv'
  <1> SUFFICES ASSUME TypeInv, TypeInv', DashboardInv, [Next]_vars PROVE DashboardInv'
    OBVIOUS
  <1> USE DEF DashboardInv
  <1>0. db.warm \subseteq Node /\ db'.warm \subseteq Node /\ db.nodes \subseteq Node
    BY DEF TypeInv, DbType, Tables
  <1>1. CASE Launcher /\ UNCHANGED <<ses, clicks>>
    <2>1. DbType
      BY DEF TypeInv
    <2>2. faults \subseteq faults'
      BY <1>1, LauncherFaults
    <2>3. WarmInv'
      BY <1>0, <1>1, <2>1, LauncherDb DEF WarmInv
    <2>4. ProcessingHasBatch'
      BY <1>1, <2>1, <2>2, LauncherDb DEF ProcessingHasBatch
    <2>5. CursorBehind' /\ SaveBehind'
      BY <1>1, <2>1, LauncherDb DEF CursorBehind, SaveBehind, Saves
    <2> QED
      BY <2>3, <2>4, <2>5
  <1>2. CASE Dashboard
    <2> USE DEF TypeInv, DbType, Pages, Page, Tables
    <2>1. ASSUME NEW s \in Session, ChooseRows(s) PROVE DashboardInv'
      <3>1. ses[s].at = "seen" /\ db' = db /\ faults' = faults
        BY <2>1 DEF ChooseRows, Fine
      <3>2. db.warm = Node /\ db.nodes = Node
        BY <1>0, <3>1 DEF WarmInv
      <3>3. PICK page :
              /\ ses' = [ses EXCEPT ![s] = page]
              /\ page.next # NoCursor => \A r \in Row, n \in Node :
                                           r < page.next => <<n, r>> \in db.sent \cup page.left
              /\ page.at \in {"open", "off"}
        <4>1. PICK count \in 1..MaxCount :
                \/ ses' = [ses EXCEPT ![s] = NextBatch(count)]
                \/ ses' = [ses EXCEPT ![s] = Off]
                \/ \E rows \in RandomRows(count) :
                     ses' = [ses EXCEPT ![s] = RandomBatch(rows)]
          BY <2>1 DEF ChooseRows, NextBatch, RandomBatch
        <4>2. count \in Nat /\ db.cursor \in 0..Rows /\ Rows \in Nat
          BY DashboardAssumption
        <4>3. /\ NextCursor(db.cursor, count) \in 0..Rows
              /\ NextCursor(db.cursor, count) <= db.cursor + count
          BY <4>2, NextCursorRange
        <4>4. \A r \in Row, n \in Node :
                r < NextCursor(db.cursor, count)
                  => <<n, r>> \in db.sent \cup (db.nodes \X NextRows(db.cursor, count))
          <5> SUFFICES ASSUME NEW r \in Row, NEW n \in Node,
                              r < NextCursor(db.cursor, count), ~(r < db.cursor)
                       PROVE  <<n, r>> \in db.nodes \X NextRows(db.cursor, count)
            BY DEF CursorBehind
          <5>1. r \in NextRows(db.cursor, count)
            BY <4>2, <4>3 DEF NextRows, Row
          <5> QED
            BY <3>2, <5>1
        <4> QED
          BY <4>1, <4>4 DEF Off, NextBatch, RandomBatch
      <3>4. \A t \in Session : t # s => ses'[t] = ses[t]
        BY <3>3
      <3>5. ses'[s] = page
        BY <3>3
      <3>6. WarmInv' /\ CursorBehind'
        BY <3>1, <3>2 DEF WarmInv, CursorBehind
      <3>7. ProcessingHasBatch'
        BY <3>1, <3>4 DEF ProcessingHasBatch
      <3>8. SaveBehind'
        BY <3>1, <3>3, <3>4, <3>5 DEF SaveBehind, Saves
      <3> QED
        BY <3>6, <3>7, <3>8
    <2>2. ASSUME NEW s \in Session, NEW n \in Node, NEW r \in Row, RequestEnds(s, n, r)
          PROVE  DashboardInv'
      <3>1. /\ ses[s].at = "sending" /\ faults' = faults
            /\ ses' = [ses EXCEPT ![s].left = @ \ {<<n, r>>}]
            /\ db' = [db EXCEPT !.sent = @ \cup {<<n, r>>}]
        BY <2>2 DEF RequestEnds, WithRequest, Fine
      <3>2. \A t \in Session : /\ ses'[t].at = ses[t].at /\ ses'[t].next = ses[t].next
                               /\ ses[t].left \subseteq ses'[t].left \cup {<<n, r>>}
                               /\ ses'[t].left \subseteq ses[t].left
        BY <3>1
      <3>3. /\ db'.warm = db.warm /\ db'.nodes = db.nodes /\ db'.run = db.run /\ db'.cursor = db.cursor
            /\ db'.sent = db.sent \cup {<<n, r>>}
        BY <3>1
      <3>4. WarmInv'
        BY <3>2, <3>3 DEF WarmInv
      <3>5. ProcessingHasBatch'
        BY <3>1, <3>2, <3>3 DEF ProcessingHasBatch
      <3>6. CursorBehind'
        BY <3>3 DEF CursorBehind
      <3>7. SaveBehind'
        BY <3>2, <3>3 DEF SaveBehind, Saves
      <3> QED
        BY <3>4, <3>5, <3>6, <3>7
    <2>3. ASSUME NEW s \in Session, ReadRun(s) PROVE DashboardInv'
      <3>1. WarmInv'
        BY <1>0, <2>3 DEF ReadRun, WarmInv, WithStatus, WithCursor, WithRequest, Dash, Off, Fine,
           launcherVars, progress
      <3>2. ProcessingHasBatch'
        BY <1>0, <2>3 DEF ReadRun, ProcessingHasBatch, WithStatus, WithCursor, WithRequest, Dash,
           Off, Fine, launcherVars, progress
      <3>3. CursorBehind'
        BY <1>0, <2>3 DEF ReadRun, CursorBehind, WithStatus, WithCursor, WithRequest, Dash, Off,
           Fine, launcherVars, progress
      <3>4. SaveBehind'
        BY <1>0, <2>3 DEF ReadRun, SaveBehind, Saves, WithStatus, WithCursor, WithRequest, Dash,
           Off, Fine, launcherVars, progress
      <3> QED
        BY <3>1, <3>2, <3>3, <3>4
    <2>4. ASSUME NEW s \in Session, StartBatch(s) PROVE DashboardInv'
      <3>1. WarmInv'
        BY <1>0, <2>4 DEF StartBatch, WarmInv, WithStatus, WithCursor, WithRequest, Dash, Off, Fine,
           launcherVars, progress
      <3>2. ProcessingHasBatch'
        BY <1>0, <2>4 DEF StartBatch, ProcessingHasBatch, WithStatus, WithCursor, WithRequest, Dash,
           Off, Fine, launcherVars, progress
      <3>3. CursorBehind'
        BY <1>0, <2>4 DEF StartBatch, CursorBehind, WithStatus, WithCursor, WithRequest, Dash, Off,
           Fine, launcherVars, progress
      <3>4. SaveBehind'
        BY <1>0, <2>4 DEF StartBatch, SaveBehind, Saves, WithStatus, WithCursor, WithRequest, Dash,
           Off, Fine, launcherVars, progress
      <3> QED
        BY <3>1, <3>2, <3>3, <3>4
    <2>5. ASSUME NEW s \in Session, BatchEnds(s) PROVE DashboardInv'
      <3>1. WarmInv'
        BY <1>0, <2>5 DEF BatchEnds, WarmInv, WithStatus, WithCursor, WithRequest, Dash, Off, Fine,
           launcherVars, progress
      <3>2. ProcessingHasBatch'
        BY <1>0, <2>5 DEF BatchEnds, ProcessingHasBatch, WithStatus, WithCursor, WithRequest, Dash,
           Off, Fine, launcherVars, progress
      <3>3. CursorBehind'
        BY <1>0, <2>5 DEF BatchEnds, CursorBehind, WithStatus, WithCursor, WithRequest, Dash, Off,
           Fine, launcherVars, progress
      <3>4. SaveBehind'
        BY <1>0, <2>5 DEF BatchEnds, SaveBehind, Saves, WithStatus, WithCursor, WithRequest, Dash,
           Off, Fine, launcherVars, progress
      <3> QED
        BY <3>1, <3>2, <3>3, <3>4
    <2>6. ASSUME NEW s \in Session, SaveCursor(s) PROVE DashboardInv'
      <3>1. WarmInv'
        BY <1>0, <2>6 DEF SaveCursor, WarmInv, WithStatus, WithCursor, WithRequest, Dash, Off, Fine,
           launcherVars, progress
      <3>2. ProcessingHasBatch'
        BY <1>0, <2>6 DEF SaveCursor, ProcessingHasBatch, WithStatus, WithCursor, WithRequest, Dash,
           Off, Fine, launcherVars, progress
      <3>3. CursorBehind'
        <4>1. ses[s].at = "done"
          BY <2>6 DEF SaveCursor
        <4>2. ses[s].left = {}
          BY <4>1 DEF SaveBehind
        <4>3. CASE ses[s].next = NoCursor
          BY <4>3, <2>6 DEF SaveCursor, CursorBehind
        <4>4. CASE ses[s].next # NoCursor
          <5>1. db'.cursor = ses[s].next /\ db'.sent = db.sent
            BY <4>4, <2>6 DEF SaveCursor, WithCursor
          <5> QED
            BY <4>1, <4>2, <4>4, <5>1 DEF CursorBehind, SaveBehind, Saves
        <4> QED
          BY <4>3, <4>4
      <3>4. SaveBehind'
        BY <1>0, <2>6 DEF SaveCursor, SaveBehind, Saves, WithStatus, WithCursor, WithRequest, Dash,
           Off, Fine, launcherVars, progress
      <3> QED
        BY <3>1, <3>2, <3>3, <3>4
    <2>7. ASSUME NEW s \in Session, BatchFails(s) PROVE DashboardInv'
      <3>1. WarmInv'
        BY <1>0, <2>7 DEF BatchFails, WarmInv, WithStatus, WithCursor, WithRequest, Dash, Off, Fine,
           launcherVars, progress
      <3>2. ProcessingHasBatch'
        BY <1>0, <2>7 DEF BatchFails, ProcessingHasBatch, WithStatus, WithCursor, WithRequest, Dash,
           Off, Fine, launcherVars, progress
      <3>3. CursorBehind'
        BY <1>0, <2>7 DEF BatchFails, CursorBehind, WithStatus, WithCursor, WithRequest, Dash, Off,
           Fine, launcherVars, progress
      <3>4. SaveBehind'
        BY <1>0, <2>7 DEF BatchFails, SaveBehind, Saves, WithStatus, WithCursor, WithRequest, Dash,
           Off, Fine, launcherVars, progress
      <3> QED
        BY <3>1, <3>2, <3>3, <3>4
    <2>8. CASE DashboardDies
      <3>1. db' = db /\ "dashboard" \in faults' /\ \A s \in Session : ses'[s].at = "off"
        BY <2>8 DEF DashboardDies, Fault, Off
      <3> QED
        BY <3>1 DEF WarmInv, ProcessingHasBatch, CursorBehind, SaveBehind, Saves
    <2> QED
      BY <1>2, <2>1, <2>2, <2>3, <2>4, <2>5, <2>6, <2>7, <2>8 DEF Dashboard, SessionStep
  <1>3. CASE UNCHANGED vars
    BY <1>3 DEF vars, launcherVars, progress, WarmInv, ProcessingHasBatch, CursorBehind, SaveBehind,
       Saves
  <1> QED
    BY <1>1, <1>2, <1>3 DEF Next

LEMMA DashboardInvariant == Spec => [](TypeInv /\ DashboardInv)
  <1>1. Init => TypeInv /\ DashboardInv
    BY TypeInit, DashboardInit
  <1>2. TypeInv /\ DashboardInv /\ [Next]_vars => (TypeInv /\ DashboardInv)'
    BY TypeNext, DashboardNext
  <1> QED
    BY <1>1, <1>2, PTL DEF Spec

\* A run the dashboard shows as ready, or busy, has every node warmed up.
THEOREM BenchmarkReadyMeansWarm == Spec => []ReadyMeansWarm
  <1>1. DashboardInv => ReadyMeansWarm
    BY DEF DashboardInv, WarmInv, ReadyMeansWarm
  <1> QED
    BY <1>1, DashboardInvariant, PTL

\* No interleaving of pages, failed batches and a dying dashboard moves the cursor
\* past a row that some node has no result for.
THEOREM BenchmarkCursorBehind == Spec => []CursorBehind
  <1>1. DashboardInv => CursorBehind
    BY DEF DashboardInv
  <1> QED
    BY <1>1, DashboardInvariant, PTL

\* The buttons are disabled only while a batch is sent, or after the dashboard died.
THEOREM BenchmarkProcessingHasBatch == Spec => []ProcessingHasBatch
  <1>1. DashboardInv => ProcessingHasBatch
    BY DEF DashboardInv
  <1> QED
    BY <1>1, DashboardInvariant, PTL

-----------------------------------------------------------------------------
(* What a run leaves behind.                                               *)

\* One clean-up, and nothing is launched after it.
OneCleanup ==
  /\ requested # {} => pc = "posting"
  /\ job.at # "none" => /\ mgr.cleaned /\ pc \notin {"start", "ended"}
                        /\ LosesTrack => "unregistered" \in faults
                        /\ job.by = "exit" => pc = "exit"
  /\ mgr.cleaned /\ job.at = "none" => pc \in {"partial", "record", "exit", "ended"}
  /\ db.cleanup = "ok" => mgr.cleaned

\* A check that found nothing stays true.
TruthInv ==
  (job.at = "report" /\ job.ok) \/ db.cleanup = "ok"
    => "unregistered" \in faults \/ (alive \cap Own = {} /\ requested = {})

\* Without a fault that makes the launcher lose track, what is alive is known to
Lossy == {"response", "partial", "unregistered", "again", "killed"}

\* the launch, the manager, the clean-up under way, or the list of failed calls;
Known ==
  CASE pc \in {"start", "select"}               -> {}
    [] pc \in {"launch", "partial", "launched"} -> ids
    [] pc = "posting"                           -> IF requested = {} THEN Own ELSE ids
    [] OTHER -> IF mgr.cleaned
                  THEN IF job.at \in {"tunnels", "terminate"} THEN job.todo \cup undone ELSE undone
                  ELSE IF pc = "ended" THEN {} ELSE mgr.ids

\* and the manager knows every tunnel but the one just started.
TracksInv ==
  faults \cap Lossy = {} =>
    /\ alive \cap Own \subseteq Known
    /\ pc # "opened" => tunnels = mgr.pids
    /\ pc = "start" \/ (mgr.cleaned /\ job.at # "tunnels") => tunnels = {}
    /\ pc = "ended" /\ ~mgr.cleaned => tunnels = {}
    /\ job.at \in {"verify", "report"} => job.todo = {}


LEMMA CleanupNext ==
  ASSUME TypeInv, TypeInv', OneCleanup, Launcher
  PROVE  OneCleanup'
  <1> USE DEF OneCleanup, LosesTrack, DbType, Tables, WithRun, WithStatus, WithNode, WithCleanup,
              TypeInv, Control, Account, Locals, Jobs, Managers, launcherVars, account, local,
              progress, Goto, At,
              Fault, Fine, Raise, Handler, NoJob, StartCleanup, LeaveCleanup
  <1>1. CASE Start
    BY <1>1 DEF Start
  <1>2. CASE DryRun
    BY <1>2 DEF DryRun
  <1>3. CASE SelectCapacity
    BY <1>3 DEF SelectCapacity
  <1>4. CASE LaunchRequest
    BY <1>4 DEF LaunchRequest
  <1>5. CASE LaunchAnswered
    BY <1>5 DEF LaunchAnswered
  <1>6. CASE LaunchRefused
    BY <1>6 DEF LaunchRefused
  <1>7. CASE TerminatePartial
    BY <1>7 DEF TerminatePartial
  <1>8. CASE RegisterInstances
    BY <1>8 DEF RegisterInstances
  <1>9. CASE Prepare
    BY <1>9 DEF Prepare
  <1>10. CASE DeployEnds
    BY <1>10 DEF DeployEnds
  <1>11. CASE DeployInOrder
    BY <1>11 DEF DeployInOrder
  <1>12. CASE StartTunnel
    BY <1>12 DEF StartTunnel
  <1>13. CASE RegisterTunnel
    BY <1>13 DEF RegisterTunnel
  <1>14. CASE WarmNode
    BY <1>14 DEF WarmNode
  <1>15. CASE HandOver
    BY <1>15 DEF HandOver
  <1>16. CASE RecordFailedRun
    BY <1>16 DEF RecordFailedRun
  <1>17. CASE ExitManager
    BY <1>17 DEF ExitManager
  <1>18. CASE StopTunnels
    BY <1>18 DEF StopTunnels
  <1>19. CASE TerminateInstance
    BY <1>19 DEF TerminateInstance
  <1>20. CASE Verify
    <2>1. CASE job' = [job EXCEPT !.at = "report", !.ok = Remaining = {}]
               /\ Fine /\ UNCHANGED <<pc, exc, requested, holders>>
      <3>1. /\ job'.at = "report" /\ job'.todo = job.todo /\ job'.by = job.by
            /\ job'.ok <=> Remaining = {}
        BY <2>1
      <3> QED
        BY <1>20, <2>1, <3>1 DEF Verify
    <2>2. CASE Fault("refused") /\ LeaveCleanup("SystemExit")
      BY <1>20, <2>2 DEF Verify
    <2> QED
      BY <1>20, <2>1, <2>2 DEF Verify
  <1>21. CASE RecordCleanup
    BY <1>21 DEF RecordCleanup
  <1>22. CASE CloudLaunches
    BY <1>22 DEF CloudLaunches
  <1>23. CASE Signal
    BY <1>23 DEF Signal
  <1>24. CASE SignalAgain
    BY <1>24 DEF SignalAgain
  <1>25. CASE SignalInExit
    BY <1>25 DEF SignalInExit
  <1>26. ASSUME NEW n \in Node, DeployNode(n) PROVE OneCleanup'
    BY <1>26 DEF DeployNode
  <1> QED
    BY <1>1, <1>2, <1>3, <1>4, <1>5, <1>6, <1>7, <1>8, <1>9, <1>10, <1>11, <1>12, <1>13, <1>14,
       <1>15, <1>16, <1>17, <1>18, <1>19, <1>20, <1>21, <1>22, <1>23, <1>24, <1>25, <1>26
       DEF Launcher, MainThread, Interrupt

LEMMA TruthNext ==
  ASSUME TypeInv, TypeInv', OneCleanup, TruthInv, Launcher
  PROVE  TruthInv'
  <1> USE DEF OneCleanup, LosesTrack, TruthInv, DbType, Tables, WithRun, WithStatus, WithNode,
              WithCleanup, Remaining, TypeInv, Control, Account, Locals, Jobs, Managers,
              launcherVars, account, local, progress, Goto, At,
              Fault, Fine, Raise, Handler, NoJob, StartCleanup, LeaveCleanup
  <1>1. CASE Start
    BY <1>1 DEF Start
  <1>2. CASE DryRun
    BY <1>2 DEF DryRun
  <1>3. CASE SelectCapacity
    BY <1>3 DEF SelectCapacity
  <1>4. CASE LaunchRequest
    BY <1>4 DEF LaunchRequest
  <1>5. CASE LaunchAnswered
    BY <1>5 DEF LaunchAnswered
  <1>6. CASE LaunchRefused
    BY <1>6 DEF LaunchRefused
  <1>7. CASE TerminatePartial
    BY <1>7 DEF TerminatePartial
  <1>8. CASE RegisterInstances
    BY <1>8 DEF RegisterInstances
  <1>9. CASE Prepare
    BY <1>9 DEF Prepare
  <1>10. CASE DeployEnds
    BY <1>10 DEF DeployEnds
  <1>11. CASE DeployInOrder
    BY <1>11 DEF DeployInOrder
  <1>12. CASE StartTunnel
    BY <1>12 DEF StartTunnel
  <1>13. CASE RegisterTunnel
    BY <1>13 DEF RegisterTunnel
  <1>14. CASE WarmNode
    BY <1>14 DEF WarmNode
  <1>15. CASE HandOver
    BY <1>15 DEF HandOver
  <1>16. CASE RecordFailedRun
    BY <1>16 DEF RecordFailedRun
  <1>17. CASE ExitManager
    BY <1>17 DEF ExitManager
  <1>18. CASE StopTunnels
    BY <1>18 DEF StopTunnels
  <1>19. CASE TerminateInstance
    BY <1>19 DEF TerminateInstance
  <1>20. CASE Verify
    <2>1. CASE job' = [job EXCEPT !.at = "report", !.ok = Remaining = {}]
               /\ Fine /\ UNCHANGED <<pc, exc, requested, holders>>
      <3>1. /\ job'.at = "report" /\ job'.todo = job.todo /\ job'.by = job.by
            /\ job'.ok <=> Remaining = {}
        BY <2>1
      <3> QED
        BY <1>20, <2>1, <3>1 DEF Verify
    <2>2. CASE Fault("refused") /\ LeaveCleanup("SystemExit")
      BY <1>20, <2>2 DEF Verify
    <2> QED
      BY <1>20, <2>1, <2>2 DEF Verify
  <1>21. CASE RecordCleanup
    BY <1>21 DEF RecordCleanup
  <1>22. CASE CloudLaunches
    BY <1>22 DEF CloudLaunches
  <1>23. CASE Signal
    BY <1>23 DEF Signal
  <1>24. CASE SignalAgain
    BY <1>24 DEF SignalAgain
  <1>25. CASE SignalInExit
    BY <1>25 DEF SignalInExit
  <1>26. ASSUME NEW n \in Node, DeployNode(n) PROVE TruthInv'
    BY <1>26 DEF DeployNode
  <1> QED
    BY <1>1, <1>2, <1>3, <1>4, <1>5, <1>6, <1>7, <1>8, <1>9, <1>10, <1>11, <1>12, <1>13, <1>14,
       <1>15, <1>16, <1>17, <1>18, <1>19, <1>20, <1>21, <1>22, <1>23, <1>24, <1>25, <1>26
       DEF Launcher, MainThread, Interrupt

LEMMA TracksNext ==
  ASSUME TypeInv, TypeInv', OneCleanup, TracksInv, Launcher
  PROVE  TracksInv'
  <1> USE DEF OneCleanup, LosesTrack, TracksInv, Known, Lossy, TypeInv, Control, Account, Locals,
              Jobs, Managers, launcherVars, account, local, progress, Goto, At,
              Fault, Fine, Raise, Handler, NoJob, StartCleanup, LeaveCleanup
  <1>1. CASE Start
    BY <1>1 DEF Start
  <1>2. CASE DryRun
    BY <1>2 DEF DryRun
  <1>3. CASE SelectCapacity
    BY <1>3 DEF SelectCapacity
  <1>4. CASE LaunchRequest
    BY <1>4 DEF LaunchRequest
  <1>5. CASE LaunchAnswered
    BY <1>5 DEF LaunchAnswered
  <1>6. CASE LaunchRefused
    BY <1>6 DEF LaunchRefused
  <1>7. CASE TerminatePartial
    BY <1>7 DEF TerminatePartial
  <1>8. CASE RegisterInstances
    BY <1>8 DEF RegisterInstances
  <1>9. CASE Prepare
    BY <1>9 DEF Prepare
  <1>10. CASE DeployEnds
    BY <1>10 DEF DeployEnds
  <1>11. CASE DeployInOrder
    BY <1>11 DEF DeployInOrder
  <1>12. CASE StartTunnel
    BY <1>12 DEF StartTunnel
  <1>13. CASE RegisterTunnel
    BY <1>13 DEF RegisterTunnel
  <1>14. CASE WarmNode
    BY <1>14 DEF WarmNode
  <1>15. CASE HandOver
    BY <1>15 DEF HandOver
  <1>16. CASE RecordFailedRun
    BY <1>16 DEF RecordFailedRun
  <1>17. CASE ExitManager
    BY <1>17 DEF ExitManager
  <1>18. CASE StopTunnels
    BY <1>18 DEF StopTunnels
  <1>19. CASE TerminateInstance
    BY <1>19 DEF TerminateInstance
  <1>20. CASE Verify
    <2>1. CASE job' = [job EXCEPT !.at = "report", !.ok = Remaining = {}]
               /\ Fine /\ UNCHANGED <<pc, exc, requested, holders>>
      <3>1. /\ job'.at = "report" /\ job'.todo = job.todo /\ job'.by = job.by
            /\ job'.ok <=> Remaining = {}
        BY <2>1
      <3> QED
        BY <1>20, <2>1, <3>1 DEF Verify
    <2>2. CASE Fault("refused") /\ LeaveCleanup("SystemExit")
      BY <1>20, <2>2 DEF Verify
    <2> QED
      BY <1>20, <2>1, <2>2 DEF Verify
  <1>21. CASE RecordCleanup
    BY <1>21 DEF RecordCleanup
  <1>22. CASE CloudLaunches
    BY <1>22 DEF CloudLaunches
  <1>23. CASE Signal
    BY <1>23 DEF Signal
  <1>24. CASE SignalAgain
    BY <1>24 DEF SignalAgain
  <1>25. CASE SignalInExit
    BY <1>25 DEF SignalInExit
  <1>26. ASSUME NEW n \in Node, DeployNode(n) PROVE TracksInv'
    BY <1>26 DEF DeployNode
  <1> QED
    BY <1>1, <1>2, <1>3, <1>4, <1>5, <1>6, <1>7, <1>8, <1>9, <1>10, <1>11, <1>12, <1>13, <1>14,
       <1>15, <1>16, <1>17, <1>18, <1>19, <1>20, <1>21, <1>22, <1>23, <1>24, <1>25, <1>26
       DEF Launcher, MainThread, Interrupt

RunInv == OneCleanup /\ TruthInv /\ TracksInv

LEMMA RunInit == Init => RunInv
  <1>1. Init => alive \cap Own = {}
    BY LauncherAssumption DEF Init, LauncherInit, Own
  <1> QED
    BY <1>1 DEF Init, LauncherInit, RunInv, OneCleanup, TruthInv, TracksInv, Known, Lossy, NoJob,
       EmptyDb,
                LosesTrack

\* The dashboard has no part in it.
LEMMA RunFrame ==
  ASSUME RunInv, UNCHANGED <<variant, pc, exc, account, local>>,
         db'.cleanup = db.cleanup, faults \subseteq faults'
  PROVE  RunInv'
  BY DEF account, local, RunInv, OneCleanup, TruthInv, TracksInv, Known, Lossy, LosesTrack

LEMMA RunNext == TypeInv /\ TypeInv' /\ RunInv /\ [Next]_vars => RunInv'
  <1> SUFFICES ASSUME TypeInv, TypeInv', RunInv, [Next]_vars PROVE RunInv'
    OBVIOUS
  <1>1. CASE Launcher
    BY <1>1, CleanupNext, TruthNext, TracksNext DEF RunInv
  <1>2. CASE Dashboard
    <2>1. db'.cleanup = db.cleanup /\ faults \subseteq faults'
      BY <1>2 DEF Dashboard, SessionStep, ChooseRows, ReadRun, StartBatch, RequestEnds, BatchEnds,
         SaveCursor,
                  BatchFails, DashboardDies, launcherVars, progress, Fine, Fault, WithStatus, WithRequest,
                  WithCursor, TypeInv, DbType, Tables
    <2> QED
      BY <1>2, <2>1, DashboardFrame, RunFrame
  <1>3. CASE UNCHANGED vars
    BY <1>3, RunFrame DEF vars, launcherVars, progress
  <1> QED
    BY <1>1, <1>2, <1>3 DEF Next

LEMMA RunInvariant == Spec => []RunInv
  <1>1. Init => TypeInv /\ RunInv
    BY TypeInit, RunInit
  <1>2. TypeInv /\ RunInv /\ [Next]_vars => (TypeInv /\ RunInv)'
    BY TypeNext, RunNext
  <1> QED
    BY <1>1, <1>2, PTL DEF Spec

\* A clean-up recorded as successful is the truth, and stays it.
THEOREM BenchmarkCleanupTruth == Spec => []CleanupTruth
  <1>1. RunInv => CleanupTruth
    BY DEF RunInv, TruthInv, CleanupTruth
  <1> QED
    BY <1>1, RunInvariant, PTL

\* Whatever step fails or is interrupted, nothing outlives the run but the instances whose
\* own terminate call failed, unless the launcher was made to lose track of one.
THEOREM BenchmarkNothingOutlivesRun == Spec => []NothingOutlivesRun
  <1>1. RunInv => NothingOutlivesRun
    <2> SUFFICES ASSUME RunInv, pc = "ended", faults \cap Lossy = {}
                 PROVE  alive \cap Own \subseteq undone /\ requested = {} /\ tunnels = {}
      BY DEF NothingOutlivesRun, Lossy
    <2>1. requested = {} /\ job.at = "none"
      BY DEF RunInv, OneCleanup
    <2>2. Known \subseteq undone
      BY <2>1 DEF Known
    <2> QED
      BY <2>1, <2>2 DEF RunInv, TracksInv
  <1> QED
    BY <1>1, RunInvariant, PTL

=============================================================================
