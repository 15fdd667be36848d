------------------------- MODULE SupervisorProofs -------------------------
(***************************************************************************)
(* Theorems about Supervisor, for every set of pids and every choice of    *)
(* faults.  The inductive invariant IInv says where the master keeps the    *)
(* pid of each child at each point of main(): in the local child_pid right *)
(* after the fork, in child_process[] from SET_CHILD_PROCESS on.  The       *)
(* wanted facts speak of an exit() that comes much later and are not        *)
(* inductive without it.                                                    *)
(***************************************************************************)
EXTENDS Supervisor, TLAPS

\* Control points before the pid of the monitor is stored.
MonitorUnknown == {"get_options", "start_monitor", "sleep"}

\* Control points before the worker is forked.
NoWorkerYet == MonitorUnknown \union
    {"parse_conf", "print_parse_res", "pkt_engine_init", "set_required_signal",
     "block_required_signal", "sort_init", "start_worker"}

\* Control points from which main() may still reach exit(), and that exit.
MayExit == NoWorkerYet \union {"set_child_process", "start_pkt_engine", "exit"}

AnyMonitor == LiveMonitor \union {"dead monitor"}
AnyWorker  == LiveWorker \union {"dead worker"}

\* Every monitor process is known to the master.
MonitorKnown ==
    \A p \in Pid : proc[p] \in AnyMonitor =>
        \/ mpc = "killed"
        \/ mpc = "sleep" /\ child_pid = p
        \/ mpc \notin MonitorUnknown /\ child_process["monitor"] = p

\* Every worker process is known to the master.
WorkerKnown ==
    \A p \in Pid : proc[p] \in AnyWorker =>
        \/ mpc = "killed"
        \/ mpc = "set_child_process" /\ child_pid = p
        \/ /\ mpc \notin NoWorkerYet \union {"set_child_process"}
           /\ child_process["worker"] = p

\* exit() leaves no live child (the property, part of the induction).
IInv == TypeOK /\ MonitorKnown /\ WorkerKnown /\ ExitLeavesNoChild

-----------------------------------------------------------------------------
\* What kill_child_all() does to a pid the slots name.
LEMMA NamedIsKilled ==
    ASSUME NEW self, NEW slots, NEW r \in {"monitor", "worker"},
           NEW p \in Pid, slots[r] = p, p # self,
           proc \in [Pid -> ProcState]
    PROVE  kill_child_all(self, slots)[p] \notin LiveChild
<1>1. p # Unset
  BY PidAssumption DEF Unset
<1>2. p \in KillTargets(self, slots)
  BY <1>1 DEF KillTargets, Role
<1>3. kill_child_all(self, slots)[p] = AfterKill(proc[p])
  BY <1>2 DEF kill_child_all, Killed
<1> QED
  BY <1>3 DEF AfterKill, ProcState, LiveChild, LiveMonitor, LiveWorker, Dead

\* The process table stays well formed, and no process of the killer's kind
\* appears anew.
LEMMA KillKeepsKinds ==
    ASSUME NEW self, NEW slots, proc \in [Pid -> ProcState]
    PROVE  /\ kill_child_all(self, slots) \in [Pid -> ProcState]
           /\ \A p \in Pid :
                /\ kill_child_all(self, slots)[p] \in AnyMonitor => proc[p] \in AnyMonitor
                /\ kill_child_all(self, slots)[p] \in AnyWorker => proc[p] \in AnyWorker
                /\ kill_child_all(self, slots)[p] \in LiveChild => proc[p] \in LiveChild
<1>1. ASSUME NEW s \in ProcState
      PROVE  /\ AfterKill(s) \in ProcState
             /\ AfterKill(s) \in AnyMonitor => s \in AnyMonitor
             /\ AfterKill(s) \in AnyWorker => s \in AnyWorker
             /\ AfterKill(s) \notin LiveChild
  BY DEF AfterKill, ProcState, AnyMonitor, AnyWorker, LiveChild, LiveMonitor,
         LiveWorker, DeadChild, Dead
<1>2. \A p \in Pid : \/ kill_child_all(self, slots)[p] = proc[p]
                     \/ kill_child_all(self, slots)[p] = AfterKill(proc[p])
  BY DEF kill_child_all
<1>3. \A p \in Pid : kill_child_all(self, slots)[p] \in ProcState
  BY <1>1, <1>2
<1>4. kill_child_all(self, slots) \in [Pid -> ProcState]
  BY <1>3 DEF kill_child_all
<1> QED
  BY <1>1, <1>2, <1>4

-----------------------------------------------------------------------------
\* The delivery of a SIGCHLD keeps the signal state and mpc well typed.
LEMMA NotifyType ==
    ASSUME TypeOK, NotifyMaster
    PROVE  /\ mpc' \in PC
           /\ handler' \in BOOLEAN /\ blocked' \in BOOLEAN
           /\ pending' \in BOOLEAN /\ received' \in BOOLEAN
           /\ mpc' = mpc \/ (mpc = "suspended" /\ mpc' = "process_signals")
BY DEF TypeOK, NotifyMaster, Discarded, Deferred, Handled, PC

\* What a child inherits is a table of pids.
LEMMA CopyType ==
    ASSUME TypeOK, NEW c \in {"monitor", "worker"}
    PROVE  [copy EXCEPT ![c] = child_process]
              \in [{"monitor", "worker"} -> [Role -> SlotValue]]
<1> DEFINE Table == [Role -> SlotValue]
<1>1. copy \in [{"monitor", "worker"} -> Table] /\ child_process \in Table
  BY DEF TypeOK
<1> HIDE DEF Table
<1>2. [copy EXCEPT ![c] = child_process] \in [{"monitor", "worker"} -> Table]
  BY <1>1
<1> QED
  BY <1>2 DEF Table

\* A step keeps every variable well typed.
LEMMA TypeStep == TypeOK /\ [Next]_vars => TypeOK'
<1> SUFFICES ASSUME TypeOK, [Next]_vars PROVE TypeOK'
  OBVIOUS
<1> USE DEF TypeOK, PC, Role, SlotValue, Unset, AllPids, MasterLocal, sigvars, Goto
<1>1. CASE get_options
  BY <1>1 DEF get_options
<1>2. CASE ForkMonitor
  <2>1. copy' \in [{"monitor", "worker"} -> [Role -> SlotValue]]
    BY <1>2, CopyType DEF ForkMonitor
  <2>2. child_pid' \in Pid \union {Unset, AllPids} /\ proc' \in [Pid -> ProcState]
    BY <1>2 DEF ForkMonitor, ProcState, LiveChild, LiveMonitor, LiveWorker, DeadChild
  <2> QED
    BY <1>2, <2>1, <2>2 DEF ForkMonitor
<1>3. CASE SetMonitor
  BY <1>3 DEF SetMonitor
<1>4. CASE parse_conf \/ print_parse_res \/ pkt_engine_init \/ sort_init
  BY <1>4 DEF parse_conf, print_parse_res, pkt_engine_init, sort_init
<1>5. CASE set_required_signal \/ block_required_signal
  BY <1>5 DEF set_required_signal, block_required_signal
<1>6. CASE ForkWorker
  <2>1. copy' \in [{"monitor", "worker"} -> [Role -> SlotValue]]
    BY <1>6, CopyType DEF ForkWorker
  <2>2. child_pid' \in Pid \union {Unset, AllPids} /\ proc' \in [Pid -> ProcState]
    BY <1>6 DEF ForkWorker, ProcState, LiveChild, LiveMonitor, LiveWorker, DeadChild
  <2> QED
    BY <1>6, <2>1, <2>2 DEF ForkWorker
<1>7. CASE SetWorker
  BY <1>7 DEF SetWorker
<1>8. CASE start_pkt_engine \/ wait_required_signal \/ process_signals
  BY <1>8 DEF start_pkt_engine, wait_required_signal, process_signals
<1>9. CASE process_SIGCHLD
  BY <1>9 DEF process_SIGCHLD, ProcState
<1>10. CASE Exit
  BY <1>10, KillKeepsKinds DEF Exit
<1>11. CASE TerminateMaster
  BY <1>11 DEF TerminateMaster
<1>12. ASSUME NEW p \in Pid, ExecRedis(p) PROVE TypeOK'
  BY <1>12 DEF ExecRedis, ProcState, LiveChild, LiveMonitor, LiveWorker, DeadChild
<1>13. ASSUME NEW p \in Pid, ExecFails(p) PROVE TypeOK'
  <2>1. proc' \in [Pid -> ProcState]
    BY <1>13, KillKeepsKinds DEF ExecFails, ProcState, DeadChild
  <2> QED
    BY <1>13, <2>1, NotifyType DEF ExecFails
<1>14. ASSUME NEW p \in Pid, WorkerStarts(p) \/ WorkerStrays(p) PROVE TypeOK'
  <2>1. {"serving", "returned", "astray"} \subseteq ProcState
    BY DEF ProcState, LiveChild, LiveWorker
  <2>2. proc' \in [Pid -> ProcState]
    BY <1>14, <2>1 DEF WorkerStarts, WorkerStrays
  <2> QED
    BY <1>14, <2>2 DEF WorkerStarts, WorkerStrays
<1>15. ASSUME NEW p \in Pid, ChildDies(p) PROVE TypeOK'
  <2>1. proc' \in [Pid -> ProcState]
    BY <1>15 DEF ChildDies, ProcState, DeadChild, Dead
  <2> QED
    BY <1>15, <2>1, NotifyType DEF ChildDies
<1>16. ASSUME NEW p \in Pid, ChildStops(p) PROVE TypeOK'
  BY <1>16, NotifyType DEF ChildStops
<1>17. ASSUME NEW p \in Pid, Stranger(p) \/ InitReaps(p) PROVE TypeOK'
  BY <1>17 DEF Stranger, InitReaps, ProcState
<1>18. ASSUME NEW p \in Pid, WorkerExits(p) PROVE TypeOK'
  <2>1. proc' \in [Pid -> ProcState]
    BY <1>18, KillKeepsKinds DEF WorkerExits, ProcState, LiveChild, LiveWorker
  <2> QED
    BY <1>18, <2>1, NotifyType DEF WorkerExits
<1>19. CASE UNCHANGED vars
  BY <1>19 DEF vars
<1> QED
  BY <1>1, <1>2, <1>3, <1>4, <1>5, <1>6, <1>7, <1>8, <1>9, <1>10, <1>11,
     <1>12, <1>13, <1>14, <1>15, <1>16, <1>17, <1>18, <1>19
     DEF Next, MasterStep, Environment

\* The program starts in a well-typed state.
LEMMA TypeInit == Init => TypeOK
<1> SUFFICES ASSUME Init PROVE TypeOK
  OBVIOUS
<1>1. [r \in Role |-> Unset] \in [Role -> SlotValue]
  BY DEF SlotValue
<1>2. copy \in [{"monitor", "worker"} -> [Role -> SlotValue]]
  BY <1>1, Zenon DEF Init
<1>3. child_process \in [Role -> SlotValue]
  BY DEF Init, Role, SlotValue
<1>4. proc \in [Pid -> ProcState]
  BY DEF Init, ProcState
<1> QED
  BY <1>2, <1>3, <1>4 DEF Init, TypeOK, PC, Unset

\* Every variable keeps its type: child_process[] holds pids, 0 or -1 only, and
\* each row of the process table stays one of the kinds.
THEOREM TypeCorrect == Spec => []TypeOK
BY TypeInit, TypeStep, PTL DEF Spec

-----------------------------------------------------------------------------
\* What the exit() of a worker that has returned into main() does to the rows
\* of the children, and to the master.
LEMMA WorkerExitStep ==
    ASSUME TypeOK, NEW p \in Pid, WorkerExits(p)
    PROVE  /\ \A q \in Pid : /\ proc'[q] \in AnyMonitor <=> proc[q] \in AnyMonitor
                             /\ proc'[q] \in AnyWorker <=> proc[q] \in AnyWorker
                             /\ proc'[q] \in LiveChild => proc[q] \in LiveChild
                             /\ proc'[q] = "monitor" => proc[q] = "monitor"
           /\ UNCHANGED <<role, child_pid, child_process, copy, handler, blocked>>
           /\ \/ mpc' = mpc
              \/ mpc' = "killed"
              \/ mpc = "suspended" /\ mpc' = "process_signals"
<1>1. \A q \in Pid : \/ proc'[q] = kill_child_all(p, copy["worker"])[q]
                     \/ q = p /\ proc'[q] = "exiting"
  BY KillKeepsKinds DEF WorkerExits, TypeOK
<1>2. \A q \in Pid : kill_child_all(p, copy["worker"])[q] = "monitor" => proc[q] = "monitor"
  BY DEF kill_child_all, AfterKill, Dead
<1>3. \A q \in Pid :
        /\ proc[q] \in AnyMonitor => kill_child_all(p, copy["worker"])[q] \in AnyMonitor
        /\ proc[q] \in AnyWorker => kill_child_all(p, copy["worker"])[q] \in AnyWorker
  BY DEF kill_child_all, AfterKill, Dead, AnyMonitor, AnyWorker, LiveMonitor, LiveWorker,
         LiveChild
<1>4. proc[p] = "returned"
  BY DEF WorkerExits
<1>5. ASSUME NEW q \in Pid
      PROVE  /\ proc'[q] \in AnyMonitor <=> proc[q] \in AnyMonitor
             /\ proc'[q] \in AnyWorker <=> proc[q] \in AnyWorker
             /\ proc'[q] \in LiveChild => proc[q] \in LiveChild
             /\ proc'[q] = "monitor" => proc[q] = "monitor"
  <2>1. CASE q = p /\ proc'[q] = "exiting"
    BY <2>1, <1>4 DEF AnyMonitor, AnyWorker, LiveChild, LiveMonitor, LiveWorker
  <2>2. CASE proc'[q] = kill_child_all(p, copy["worker"])[q]
    BY <2>2, <1>2, <1>3, KillKeepsKinds DEF TypeOK
  <2> QED
    BY <1>1, <2>1, <2>2
<1>6. UNCHANGED <<role, child_pid, child_process, copy, handler, blocked>>
  BY DEF WorkerExits, MasterLocal, sigvars, NotifyMaster
<1> QED
  BY <1>5, <1>6, NotifyType DEF WorkerExits, Goto

\* A step of a child, of init or of a stranger, and any step of the master that
\* moves between control points with the same knowledge, keeps IInv.
LEMMA QuietStep ==
    ASSUME IInv, TypeOK', UNCHANGED <<child_pid, child_process>>,
           \A p \in Pid : /\ proc'[p] \in AnyMonitor => proc[p] \in AnyMonitor
                          /\ proc'[p] \in AnyWorker => proc[p] \in AnyWorker
                          /\ proc'[p] \in LiveChild => proc[p] \in LiveChild,
           \/ mpc' = mpc
           \/ mpc' = "killed"
           \/ mpc = "suspended" /\ mpc' = "process_signals"
    PROVE  IInv'
BY DEF IInv, MonitorKnown, WorkerKnown, ExitLeavesNoChild, MonitorUnknown, NoWorkerYet

\* A step of main() that neither forks, stores a pid, exits nor is followed by
\* a fork keeps IInv.
LEMMA MainStep ==
    ASSUME IInv, TypeOK', UNCHANGED <<child_pid, child_process>>,
           \A p \in Pid : proc'[p] = proc[p] \/ proc'[p] = "free",
           \/ mpc \in NoWorkerYet \ MonitorUnknown /\ mpc' \in NoWorkerYet \ MonitorUnknown
           \/ mpc \in MayExit \ {"sleep", "set_child_process", "get_options", "start_monitor"}
                /\ mpc' = "exit"
           \/ /\ mpc \in {"start_pkt_engine", "wait_required_signal", "suspended",
                          "process_signals", "process_SIGCHLD"}
              /\ mpc' \in {"wait_required_signal", "suspended", "process_signals",
                           "process_SIGCHLD"}
    PROVE  IInv'
BY DEF IInv, MonitorKnown, WorkerKnown, ExitLeavesNoChild, MonitorUnknown, NoWorkerYet,
       MayExit, AnyMonitor, AnyWorker, LiveMonitor, LiveWorker

\* Before the forks there is no monitor, before the second one no worker.
LEMMA NoneBefore ==
    ASSUME IInv
    PROVE  /\ mpc \in {"get_options", "start_monitor"} =>
                 \A p \in Pid : proc[p] \notin AnyMonitor
           /\ mpc \in NoWorkerYet => \A p \in Pid : proc[p] \notin AnyWorker
BY DEF IInv, MonitorKnown, WorkerKnown, MonitorUnknown, NoWorkerYet

\* The inductive step.
LEMMA IInvStep == IInv /\ [Next]_vars => IInv'
<1> SUFFICES ASSUME IInv, [Next]_vars PROVE IInv'
  OBVIOUS
<1>0. TypeOK /\ TypeOK'
  BY TypeStep DEF IInv
<1> USE <1>0 DEF MasterLocal, sigvars, Goto
<1>1. CASE get_options
  BY <1>1, NoneBefore DEF get_options, IInv, MonitorKnown, WorkerKnown,
     ExitLeavesNoChild, NoWorkerYet, MonitorUnknown
<1>2. CASE ForkMonitor
  BY <1>2, NoneBefore DEF ForkMonitor, TypeOK, IInv, MonitorKnown, WorkerKnown,
     ExitLeavesNoChild, NoWorkerYet, MonitorUnknown, AnyMonitor, AnyWorker,
     LiveMonitor, LiveWorker
<1>3. CASE SetMonitor
  BY <1>3 DEF SetMonitor, TypeOK, Role, IInv, MonitorKnown, WorkerKnown,
     ExitLeavesNoChild, NoWorkerYet, MonitorUnknown
<1>4. CASE parse_conf \/ print_parse_res \/ pkt_engine_init \/ sort_init
  BY <1>4, MainStep DEF parse_conf, print_parse_res, pkt_engine_init, sort_init,
     NoWorkerYet, MonitorUnknown, MayExit
<1>5. CASE set_required_signal \/ block_required_signal
  BY <1>5, MainStep DEF set_required_signal, block_required_signal,
     NoWorkerYet, MonitorUnknown, MayExit
<1>6. CASE ForkWorker
  BY <1>6, NoneBefore DEF ForkWorker, TypeOK, IInv, MonitorKnown, WorkerKnown,
     ExitLeavesNoChild, NoWorkerYet, MonitorUnknown, AnyMonitor, AnyWorker,
     LiveMonitor, LiveWorker
<1>7. CASE SetWorker
  BY <1>7 DEF SetWorker, TypeOK, Role, IInv, MonitorKnown, WorkerKnown,
     ExitLeavesNoChild, NoWorkerYet, MonitorUnknown
<1>8. CASE start_pkt_engine \/ wait_required_signal \/ process_signals
  BY <1>8, MainStep DEF start_pkt_engine, wait_required_signal, process_signals,
     MayExit
<1>9. CASE process_SIGCHLD
  <2>1. \A p \in Pid : proc'[p] = proc[p] \/ proc'[p] = "free"
    BY <1>9 DEF process_SIGCHLD, TypeOK
  <2> QED
    BY <1>9, <2>1, MainStep DEF process_SIGCHLD
<1>10. CASE Exit
  <2>1. \A p \in Pid : /\ proc'[p] \in AnyMonitor => proc[p] \in AnyMonitor
                       /\ proc'[p] \in AnyWorker => proc[p] \in AnyWorker
                       /\ proc'[p] \in LiveChild => proc[p] \in LiveChild
    BY <1>10, KillKeepsKinds DEF Exit, TypeOK
  <2>2. /\ MonitorKnown'
        /\ WorkerKnown'
    BY <1>10, <2>1 DEF Exit, IInv, MonitorKnown, WorkerKnown, NoWorkerYet, MonitorUnknown
  <2>3. ASSUME NEW p \in Pid, proc'[p] \in LiveChild PROVE FALSE
    <3>1. proc[p] \in AnyMonitor \/ proc[p] \in AnyWorker
      BY <2>1, <2>3 DEF LiveChild, AnyMonitor, AnyWorker
    <3>2. PICK r \in {"monitor", "worker"} : child_process[r] = p
      BY <1>10, <3>1 DEF Exit, IInv, MonitorKnown, WorkerKnown
    <3>3. p # MasterPid
      BY PidAssumption
    <3>4. kill_child_all(MasterPid, child_process)[p] \notin LiveChild
      BY <3>2, <3>3, NamedIsKilled DEF TypeOK
    <3> QED
      BY <1>10, <2>3, <3>4 DEF Exit
  <2> QED
    BY <2>2, <2>3 DEF IInv, ExitLeavesNoChild
<1>11. CASE TerminateMaster
  BY <1>11, QuietStep DEF TerminateMaster
<1>12. ASSUME NEW p \in Pid, ExecRedis(p) \/ WorkerStarts(p) \/ WorkerStrays(p)
       PROVE  IInv'
  <2>1. \A q \in Pid : /\ proc'[q] \in AnyMonitor => proc[q] \in AnyMonitor
                       /\ proc'[q] \in AnyWorker => proc[q] \in AnyWorker
                       /\ proc'[q] \in LiveChild => proc[q] \in LiveChild
    BY <1>12 DEF ExecRedis, WorkerStarts, WorkerStrays, TypeOK, AnyMonitor, AnyWorker,
       LiveChild, LiveMonitor, LiveWorker
  <2> QED
    BY <1>12, <2>1, QuietStep DEF ExecRedis, WorkerStarts, WorkerStrays
<1>13. ASSUME NEW p \in Pid, ExecFails(p) PROVE IInv'
  <2>1. \A q \in Pid : \/ proc'[q] = kill_child_all(p, copy["monitor"])[q]
                       \/ q = p /\ proc'[q] = "dead monitor"
    BY <1>13, KillKeepsKinds DEF ExecFails, TypeOK
  <2>2. \A q \in Pid : /\ proc'[q] \in AnyMonitor => proc[q] \in AnyMonitor
                       /\ proc'[q] \in AnyWorker => proc[q] \in AnyWorker
                       /\ proc'[q] \in LiveChild => proc[q] \in LiveChild
    BY <1>13, <2>1, KillKeepsKinds DEF ExecFails, TypeOK, AnyMonitor, AnyWorker,
       LiveChild, LiveMonitor, LiveWorker
  <2>3. \/ mpc' = mpc
        \/ mpc' = "killed"
        \/ mpc = "suspended" /\ mpc' = "process_signals"
    BY <1>13, NotifyType DEF ExecFails
  <2> QED
    BY <1>13, <2>2, <2>3, QuietStep DEF ExecFails
<1>14. ASSUME NEW p \in Pid, ChildDies(p) PROVE IInv'
  <2>1. \A q \in Pid : /\ proc'[q] \in AnyMonitor => proc[q] \in AnyMonitor
                       /\ proc'[q] \in AnyWorker => proc[q] \in AnyWorker
                       /\ proc'[q] \in LiveChild => proc[q] \in LiveChild
    BY <1>14 DEF ChildDies, Dead, TypeOK, AnyMonitor, AnyWorker, LiveChild,
       LiveMonitor, LiveWorker
  <2> QED
    BY <1>14, <2>1, NotifyType, QuietStep DEF ChildDies
<1>15. ASSUME NEW p \in Pid, ChildStops(p) PROVE IInv'
  BY <1>15, NotifyType, QuietStep DEF ChildStops
<1>16. ASSUME NEW p \in Pid, Stranger(p) \/ InitReaps(p) PROVE IInv'
  <2>1. \A q \in Pid : /\ proc'[q] \in AnyMonitor => proc[q] \in AnyMonitor
                       /\ proc'[q] \in AnyWorker => proc[q] \in AnyWorker
                       /\ proc'[q] \in LiveChild => proc[q] \in LiveChild
    BY <1>16 DEF Stranger, InitReaps, TypeOK, AnyMonitor, AnyWorker, LiveChild,
       LiveMonitor, LiveWorker
  <2> QED
    BY <1>16, <2>1, QuietStep DEF Stranger, InitReaps
<1>17. ASSUME NEW p \in Pid, WorkerExits(p) PROVE IInv'
  BY <1>17, WorkerExitStep, QuietStep
<1>18. CASE UNCHANGED vars
  BY <1>18, QuietStep DEF vars
<1> QED
  BY <1>1, <1>2, <1>3, <1>4, <1>5, <1>6, <1>7, <1>8, <1>9, <1>10, <1>11, <1>12,
     <1>13, <1>14, <1>15, <1>16, <1>17, <1>18 DEF Next, MasterStep, Environment

\* No exit() of the master leaves a child running, whatever the pids, whichever
\* faults happen before it, and however the children and the host interleave.
THEOREM ExitKillsChildren == Spec => []ExitLeavesNoChild
<1>1. Init => IInv
  BY TypeInit DEF Init, IInv, MonitorKnown, WorkerKnown, ExitLeavesNoChild,
     AnyMonitor, AnyWorker, LiveMonitor, LiveWorker
<1>2. IInv => ExitLeavesNoChild
  BY DEF IInv
<1> QED
  BY <1>1, <1>2, IInvStep, PTL DEF Spec

-----------------------------------------------------------------------------
\* As long as main() may exit, the pid of a child is not free for others: what
\* the master remembers is -1 or names its own child, dead or alive; and so is what
\* a worker has inherited of that.
OwnPids ==
    /\ mpc = "sleep" =>
          child_pid = AllPids \/ (child_pid \in Pid /\ proc[child_pid] \in AnyMonitor)
    /\ mpc = "set_child_process" =>
          child_pid = AllPids \/ (child_pid \in Pid /\ proc[child_pid] \in AnyWorker)
    /\ mpc \in MayExit =>
          /\ child_process["monitor"] \in Pid =>
                proc[child_process["monitor"]] \in AnyMonitor
          /\ child_process["worker"] \in Pid =>
                proc[child_process["worker"]] \in AnyWorker
          /\ copy["worker"]["monitor"] \in Pid =>
                proc[copy["worker"]["monitor"]] \in AnyMonitor
          /\ copy["worker"]["worker"] \in Pid =>
                proc[copy["worker"]["worker"]] \in AnyWorker

\* Steps that neither fork nor store a pid keep OwnPids, if every row of a child
\* stays the row of that child.
LEMMA OwnPidsQuiet ==
    ASSUME TypeOK, OwnPids, UNCHANGED <<child_pid, child_process, copy>>,
           mpc' \in {"sleep", "set_child_process"} => mpc' = mpc,
           mpc' \in MayExit =>
              /\ mpc \in MayExit
              /\ \A p \in Pid : /\ proc[p] \in AnyMonitor => proc'[p] \in AnyMonitor
                                /\ proc[p] \in AnyWorker => proc'[p] \in AnyWorker
    PROVE  OwnPids'
BY DEF OwnPids, MayExit, NoWorkerYet, MonitorUnknown

\* What SIGKILL leaves of a child is a zombie of the same kind.
LEMMA KillKeepsChildren ==
    ASSUME NEW self, NEW slots, proc \in [Pid -> ProcState], NEW p \in Pid
    PROVE  /\ proc[p] \in AnyMonitor => kill_child_all(self, slots)[p] \in AnyMonitor
           /\ proc[p] \in AnyWorker => kill_child_all(self, slots)[p] \in AnyWorker
BY DEF kill_child_all, AfterKill, Dead, AnyMonitor, AnyWorker, LiveMonitor, LiveWorker,
       LiveChild

\* A failed fork() leaves no process behind.
LEMMA OwnPidsNoFork ==
    ASSUME TypeOK, OwnPids, child_pid' = AllPids, UNCHANGED <<child_process, copy, proc>>,
           mpc \in MayExit, mpc' \in {"sleep", "set_child_process"}
    PROVE  OwnPids'
BY DEF OwnPids

\* The inductive step.
LEMMA OwnPidsStep == TypeOK /\ OwnPids /\ [Next]_vars => OwnPids'
<1> SUFFICES ASSUME TypeOK, OwnPids, [Next]_vars PROVE OwnPids'
  OBVIOUS
<1> USE DEF MasterLocal, sigvars, Goto
<1>1. CASE get_options \/ parse_conf \/ print_parse_res \/ pkt_engine_init \/ sort_init
  BY <1>1, OwnPidsQuiet DEF get_options, parse_conf, print_parse_res,
     pkt_engine_init, sort_init, MayExit, NoWorkerYet, MonitorUnknown
<1>2. CASE set_required_signal \/ block_required_signal \/ start_pkt_engine
  BY <1>2, OwnPidsQuiet DEF set_required_signal, block_required_signal,
     start_pkt_engine, MayExit, NoWorkerYet, MonitorUnknown
<1>3. CASE wait_required_signal \/ process_signals \/ process_SIGCHLD
  BY <1>3, OwnPidsQuiet DEF wait_required_signal, process_signals, process_SIGCHLD,
     MayExit, NoWorkerYet, MonitorUnknown
<1>4. CASE ForkMonitor
  <2>1. CASE child_pid' = AllPids /\ UNCHANGED <<proc, copy>>
    BY <1>4, <2>1, OwnPidsNoFork DEF ForkMonitor, MayExit, NoWorkerYet, MonitorUnknown
  <2>2. ASSUME NEW p \in Pid, proc[p] = "free", child_pid' = p,
               proc' = [proc EXCEPT ![p] = "monitor"],
               copy' = [copy EXCEPT !["monitor"] = child_process]
        PROVE  OwnPids'
    <3>1. \A q \in Pid : /\ proc[q] \in AnyMonitor => proc'[q] \in AnyMonitor
                         /\ proc[q] \in AnyWorker => proc'[q] \in AnyWorker
      BY <2>2 DEF TypeOK, AnyMonitor, AnyWorker, LiveMonitor, LiveWorker
    <3>2. proc'[p] \in AnyMonitor
      BY <2>2 DEF TypeOK, AnyMonitor, LiveMonitor
    <3>3. copy'["worker"] = copy["worker"]
      BY <2>2 DEF TypeOK
    <3> QED
      BY <1>4, <2>2, <3>1, <3>2, <3>3 DEF ForkMonitor, OwnPids, MayExit, NoWorkerYet,
         MonitorUnknown
  <2> QED
    BY <1>4, <2>1, <2>2 DEF ForkMonitor
<1>5. CASE ForkWorker
  <2>1. CASE child_pid' = AllPids /\ UNCHANGED <<proc, copy>>
    BY <1>5, <2>1, OwnPidsNoFork DEF ForkWorker, MayExit, NoWorkerYet, MonitorUnknown
  <2>2. ASSUME NEW p \in Pid, proc[p] = "free", child_pid' = p,
               proc' = [proc EXCEPT ![p] = "starting"],
               copy' = [copy EXCEPT !["worker"] = child_process]
        PROVE  OwnPids'
    <3>1. \A q \in Pid : /\ proc[q] \in AnyMonitor => proc'[q] \in AnyMonitor
                         /\ proc[q] \in AnyWorker => proc'[q] \in AnyWorker
      BY <2>2 DEF TypeOK, AnyMonitor, AnyWorker, LiveMonitor, LiveWorker
    <3>2. proc'[p] \in AnyWorker
      BY <2>2 DEF TypeOK, AnyWorker, LiveWorker
    <3>3. copy'["worker"] = child_process
      BY <2>2 DEF TypeOK
    <3> QED
      BY <1>5, <2>2, <3>1, <3>2, <3>3 DEF ForkWorker, OwnPids, MayExit, NoWorkerYet,
         MonitorUnknown
  <2> QED
    BY <1>5, <2>1, <2>2 DEF ForkWorker
<1>6. CASE SetMonitor
  BY <1>6, PidAssumption DEF SetMonitor, TypeOK, Role, AllPids, OwnPids, MayExit,
     NoWorkerYet, MonitorUnknown
<1>7. CASE SetWorker
  BY <1>7, PidAssumption DEF SetWorker, TypeOK, Role, AllPids, OwnPids, MayExit,
     NoWorkerYet, MonitorUnknown
<1>8. CASE Exit \/ TerminateMaster
  BY <1>8, OwnPidsQuiet DEF Exit, TerminateMaster, MayExit, NoWorkerYet, MonitorUnknown
<1>9. ASSUME NEW p \in Pid, ExecFails(p) PROVE OwnPids'
  <2>1. \A q \in Pid : /\ proc[q] \in AnyMonitor => proc'[q] \in AnyMonitor
                       /\ proc[q] \in AnyWorker => proc'[q] \in AnyWorker
    BY <1>9, KillKeepsKinds, KillKeepsChildren
       DEF ExecFails, TypeOK, AnyMonitor, AnyWorker, LiveWorker
  <2>2. mpc' \in {mpc, "killed", "process_signals"}
    BY <1>9, NotifyType DEF ExecFails
  <2> QED
    BY <1>9, <2>1, <2>2, OwnPidsQuiet DEF ExecFails, MayExit, NoWorkerYet, MonitorUnknown
<1>10. ASSUME NEW p \in Pid, \/ ExecRedis(p) \/ WorkerStarts(p) \/ WorkerStrays(p)
                             \/ ChildDies(p) \/ ChildStops(p)
       PROVE  OwnPids'
  <2>1. \A q \in Pid : /\ proc[q] \in AnyMonitor => proc'[q] \in AnyMonitor
                       /\ proc[q] \in AnyWorker => proc'[q] \in AnyWorker
    BY <1>10 DEF ExecRedis, WorkerStarts, WorkerStrays, ChildDies, ChildStops, Dead,
       TypeOK, AnyMonitor, AnyWorker, LiveMonitor, LiveWorker, LiveChild
  <2>2. mpc' \in {mpc, "process_signals"}
    BY <1>10, NotifyType DEF ExecRedis, WorkerStarts, WorkerStrays, ChildDies, ChildStops
  <2> QED
    BY <1>10, <2>1, <2>2, OwnPidsQuiet DEF ExecRedis, WorkerStarts, WorkerStrays,
       ChildDies, ChildStops, MayExit, NoWorkerYet, MonitorUnknown
<1>11. ASSUME NEW p \in Pid, Stranger(p) PROVE OwnPids'
  <2>1. \A q \in Pid : /\ proc[q] \in AnyMonitor => proc'[q] \in AnyMonitor
                       /\ proc[q] \in AnyWorker => proc'[q] \in AnyWorker
    BY <1>11 DEF Stranger, TypeOK, AnyMonitor, AnyWorker, LiveMonitor, LiveWorker
  <2> QED
    BY <1>11, <2>1, OwnPidsQuiet DEF Stranger
<1>12. ASSUME NEW p \in Pid, InitReaps(p) PROVE OwnPids'
  BY <1>12, OwnPidsQuiet DEF InitReaps, MasterGone, MayExit, NoWorkerYet, MonitorUnknown
<1>13. ASSUME NEW p \in Pid, WorkerExits(p) PROVE OwnPids'
  BY <1>13, WorkerExitStep, OwnPidsQuiet DEF MayExit, NoWorkerYet, MonitorUnknown
<1>14. CASE UNCHANGED vars
  BY <1>14, OwnPidsQuiet DEF vars
<1> QED
  BY <1>1, <1>2, <1>3, <1>4, <1>5, <1>6, <1>7, <1>8, <1>9, <1>10, <1>11, <1>12, <1>13,
     <1>14
     DEF Next, MasterStep, Environment

\* A pid that was stored never belongs to a foreign process when the master's exit()
\* signals it, or, as long as the master has not come to its loop, the exit() of a
\* worker that has returned into main(): however pids are recycled, whichever faults
\* happen and whoever else has run kill_child_all() before.
THEOREM ExitSparesStrangers == Spec => StoredPidsAreOwn
<1>1. Init => TypeOK /\ OwnPids
  <2> SUFFICES ASSUME Init PROVE OwnPids
    BY TypeInit
  <2>1. copy["worker"] = [r \in Role |-> Unset]
    BY DEF Init
  <2>2. mpc = "get_options" /\ \A r \in {"monitor", "worker"} :
            child_process[r] = Unset /\ copy["worker"][r] = Unset
    BY <2>1 DEF Init, Role
  <2> QED
    BY <2>2, PidAssumption DEF OwnPids, Unset
<1>2. TypeOK /\ OwnPids =>
          [\/ Exit /\ AllPids \notin KillTargets(MasterPid, child_process)
           \/ /\ mpc \in {"set_child_process", "start_pkt_engine", "exit"}
              /\ \E q \in Pid : WorkerExits(q) /\ AllPids \notin KillTargets(q, copy["worker"])
           => \A p \in Pid : proc[p] = "stranger" => proc'[p] = "stranger"]_vars
  <2> SUFFICES ASSUME TypeOK, OwnPids, NEW p \in Pid, proc[p] = "stranger"
               PROVE  /\ Exit /\ AllPids \notin KillTargets(MasterPid, child_process)
                             => proc'[p] = "stranger"
                      /\ \A q \in Pid :
                            /\ mpc \in {"set_child_process", "start_pkt_engine", "exit"}
                            /\ WorkerExits(q)
                            /\ AllPids \notin KillTargets(q, copy["worker"])
                            => proc'[p] = "stranger"
    OBVIOUS
  <2>1. ASSUME Exit, AllPids \notin KillTargets(MasterPid, child_process)
        PROVE  proc'[p] = "stranger"
    <3>1. p \notin KillTargets(MasterPid, child_process)
      BY <2>1 DEF OwnPids, KillTargets, Role, Exit, MayExit, AnyMonitor, AnyWorker,
             LiveMonitor, LiveWorker
    <3> QED
      BY <2>1, <3>1 DEF Exit, kill_child_all, Killed
  <2>2. ASSUME NEW q \in Pid, mpc \in {"set_child_process", "start_pkt_engine", "exit"},
               WorkerExits(q), AllPids \notin KillTargets(q, copy["worker"])
        PROVE  proc'[p] = "stranger"
    <3>1. p \notin KillTargets(q, copy["worker"])
      BY <2>2 DEF OwnPids, KillTargets, Role, MayExit, AnyMonitor, AnyWorker,
             LiveMonitor, LiveWorker
    <3>2. p # q
      BY <2>2 DEF WorkerExits
    <3>3. kill_child_all(q, copy["worker"])[p] = "stranger"
      BY <2>2, <3>1 DEF kill_child_all, Killed
    <3>4. proc' = [kill_child_all(q, copy["worker"]) EXCEPT ![q] = "exiting"]
      BY <2>2 DEF WorkerExits
    <3> QED
      BY <3>2, <3>3, <3>4
  <2> QED
    BY <2>1, <2>2
<1> QED
  BY <1>1, <1>2, TypeStep, OwnPidsStep, PTL DEF Spec, StoredPidsAreOwn

-----------------------------------------------------------------------------
\* What a monitor child inherits of child_process[] names nobody but the master.
CopyIsBlank ==
    /\ mpc \in {"get_options", "start_monitor"} =>
          child_process["monitor"] = Unset /\ child_process["worker"] = Unset
    /\ \A p \in Pid : proc[p] = "monitor" =>
          copy["monitor"]["monitor"] = Unset /\ copy["monitor"]["worker"] = Unset

\* SIGKILL does not make a monitor child that was not there.
LEMMA KillForksNobody ==
    ASSUME NEW self, NEW slots, NEW p \in Pid,
           kill_child_all(self, slots)[p] = "monitor"
    PROVE  proc[p] = "monitor"
BY DEF kill_child_all, AfterKill, Dead

\* The inductive step.
LEMMA CopyIsBlankStep == TypeOK /\ CopyIsBlank /\ [Next]_vars => CopyIsBlank'
<1> SUFFICES ASSUME TypeOK, CopyIsBlank, [Next]_vars PROVE CopyIsBlank'
  OBVIOUS
<1> USE DEF MasterLocal, sigvars, Goto, CopyIsBlank
<1>1. CASE get_options \/ parse_conf \/ print_parse_res \/ pkt_engine_init \/ sort_init
  BY <1>1 DEF get_options, parse_conf, print_parse_res, pkt_engine_init, sort_init
<1>2. CASE set_required_signal \/ block_required_signal \/ start_pkt_engine
  BY <1>2 DEF set_required_signal, block_required_signal, start_pkt_engine
<1>3. CASE wait_required_signal \/ process_signals
  BY <1>3 DEF wait_required_signal, process_signals
<1>4. CASE process_SIGCHLD
  BY <1>4 DEF process_SIGCHLD, TypeOK
<1>5. CASE ForkMonitor
  BY <1>5 DEF ForkMonitor, TypeOK
<1>6. CASE ForkWorker
  BY <1>6 DEF ForkWorker, TypeOK
<1>7. CASE SetMonitor \/ SetWorker
  BY <1>7 DEF SetMonitor, SetWorker
<1>8. CASE Exit \/ TerminateMaster
  BY <1>8, KillForksNobody DEF Exit, TerminateMaster
<1>9. ASSUME NEW p \in Pid, ExecFails(p) PROVE CopyIsBlank'
  <2>0. \A q \in Pid : \/ proc'[q] = kill_child_all(p, copy["monitor"])[q]
                       \/ proc'[q] = "dead monitor"
    BY <1>9, KillKeepsKinds DEF ExecFails, TypeOK
  <2>p. \A q \in Pid : kill_child_all(p, copy["monitor"])[q] = "monitor"
                           => proc[q] = "monitor"
    BY KillForksNobody, Zenon
  <2>1. \A q \in Pid : proc'[q] = "monitor" => proc[q] = "monitor"
    BY <2>0, <2>p
  <2>2. mpc' \in {mpc, "killed", "process_signals"}
    BY <1>9, NotifyType DEF ExecFails
  <2> QED
    BY <1>9, <2>1, <2>2 DEF ExecFails
<1>10. ASSUME NEW p \in Pid, \/ ExecRedis(p) \/ WorkerStarts(p) \/ WorkerStrays(p)
                             \/ ChildDies(p) \/ ChildStops(p) \/ Stranger(p)
                             \/ InitReaps(p)
       PROVE  CopyIsBlank'
  <2>1. \A q \in Pid : proc'[q] = "monitor" => proc[q] = "monitor"
    BY <1>10 DEF ExecRedis, WorkerStarts, WorkerStrays, ChildDies, ChildStops, Stranger,
       InitReaps, Dead, TypeOK
  <2>2. mpc' \in {mpc, "process_signals"}
    BY <1>10, NotifyType DEF ExecRedis, WorkerStarts, WorkerStrays, ChildDies,
       ChildStops, Stranger, InitReaps
  <2> QED
    BY <1>10, <2>1, <2>2 DEF ExecRedis, WorkerStarts, WorkerStrays, ChildDies,
       ChildStops, Stranger, InitReaps
<1>11. ASSUME NEW p \in Pid, WorkerExits(p) PROVE CopyIsBlank'
  BY <1>11, WorkerExitStep
<1>12. CASE UNCHANGED vars
  BY <1>12 DEF vars
<1> QED
  BY <1>1, <1>2, <1>3, <1>4, <1>5, <1>6, <1>7, <1>8, <1>9, <1>10, <1>11, <1>12
     DEF Next, MasterStep, Environment

\* The kill_child_all() that a monitor child runs after a failed exec signals
\* nobody: no other process changes and the master lives on.
THEOREM FailedExecHarmsNobody == Spec => FailedExecIsHarmless
<1>1. Init => TypeOK /\ CopyIsBlank
  BY TypeInit DEF Init, CopyIsBlank, Role
<1>2. TypeOK /\ CopyIsBlank =>
        [\A p \in Pid : ExecFails(p) =>
            /\ mpc' = "killed" => mpc = "killed"
            /\ \A q \in Pid \ {p} : proc'[q] = proc[q]]_vars
  <2> SUFFICES ASSUME TypeOK, CopyIsBlank, NEW p \in Pid, ExecFails(p)
               PROVE  /\ mpc' = "killed" => mpc = "killed"
                      /\ \A q \in Pid \ {p} : proc'[q] = proc[q]
    OBVIOUS
  <2>1. KillTargets(p, copy["monitor"]) = {}
    BY DEF ExecFails, CopyIsBlank, KillTargets, Role
  <2>2. \A q : ~Killed(p, copy["monitor"], q)
    BY <2>1 DEF Killed
  <2>3. mpc' = "killed" => mpc = "killed"
    BY <2>2, NotifyType DEF ExecFails
  <2>4. \A q \in Pid \ {p} : proc'[q] = proc[q]
    BY <2>2 DEF ExecFails, kill_child_all, TypeOK
  <2> QED
    BY <2>3, <2>4
<1> QED
  BY <1>1, <1>2, TypeStep, CopyIsBlankStep, PTL DEF Spec, FailedExecIsHarmless

-----------------------------------------------------------------------------
\* Control points at which SIGCHLD is handled and blocked, and those of them from
\* the fork of the worker to the next sigsuspend().
Watching == {"sort_init", "start_worker", "set_child_process", "start_pkt_engine",
             "wait_required_signal", "suspended", "process_signals", "process_SIGCHLD"}
BeforeSuspend == {"set_child_process", "start_pkt_engine", "wait_required_signal"}

\* The handler is installed and the signal blocked before there is a worker.
Armed ==
    /\ mpc = "block_required_signal" => handler
    /\ mpc \in Watching => handler /\ blocked

\* A dead worker leaves a trace that sigsuspend() or process_signals() will meet.
DeathNoticed ==
    /\ mpc = "process_signals" => received
    /\ mpc \in BeforeSuspend => pending \/ \A p \in Pid : proc[p] # "dead worker"
    /\ NoWorkerDeathMissed

\* The steps of the master keep the signal armed.
LEMMA ArmedStep == TypeOK /\ Armed /\ [Next]_vars => Armed'
<1> SUFFICES ASSUME TypeOK, Armed, [Next]_vars PROVE Armed'
  OBVIOUS
<1> USE DEF MasterLocal, sigvars, Goto, Armed, Watching
<1>1. CASE get_options \/ parse_conf \/ print_parse_res \/ pkt_engine_init \/ sort_init
  BY <1>1 DEF get_options, parse_conf, print_parse_res, pkt_engine_init, sort_init
<1>2. CASE set_required_signal \/ block_required_signal \/ start_pkt_engine
  BY <1>2 DEF set_required_signal, block_required_signal, start_pkt_engine
<1>3. CASE wait_required_signal \/ process_signals \/ process_SIGCHLD
  BY <1>3 DEF wait_required_signal, process_signals, process_SIGCHLD
<1>4. CASE ForkMonitor \/ SetMonitor \/ ForkWorker \/ SetWorker
  BY <1>4 DEF ForkMonitor, SetMonitor, ForkWorker, SetWorker
<1>5. CASE Exit \/ TerminateMaster
  BY <1>5 DEF Exit, TerminateMaster
<1>6. ASSUME NEW p \in Pid, \/ ExecRedis(p) \/ ExecFails(p) \/ WorkerStarts(p)
                            \/ ChildDies(p) \/ ChildStops(p) \/ Stranger(p) \/ InitReaps(p)
      PROVE  Armed'
  <2>1. \/ mpc' = "killed"
        \/ mpc' = mpc \/ (mpc = "suspended" /\ mpc' = "process_signals")
    BY <1>6, NotifyType DEF ExecRedis, ExecFails, WorkerStarts, ChildDies, ChildStops,
       Stranger, InitReaps
  <2>2. UNCHANGED <<handler, blocked>>
    BY <1>6 DEF ExecRedis, ExecFails, WorkerStarts, ChildDies, ChildStops, Stranger,
       InitReaps, NotifyMaster
  <2> QED
    BY <2>1, <2>2
<1>7. ASSUME NEW p \in Pid, WorkerStrays(p) \/ WorkerExits(p) PROVE Armed'
  BY <1>7, WorkerExitStep DEF WorkerStrays
<1>8. CASE UNCHANGED vars
  BY <1>8 DEF vars
<1> QED
  BY <1>1, <1>2, <1>3, <1>4, <1>5, <1>6, <1>7, <1>8 DEF Next, MasterStep, Environment

\* A SIGCHLD leaves its trace at every point where a worker may die.
LEMMA NotifyLeavesTrace ==
    ASSUME TypeOK, Armed, DeathNoticed, NotifyMaster
    PROVE  DeathNoticed'
<1>1. CASE mpc \in BeforeSuspend
  <2>1. Deferred /\ ~Discarded /\ ~Handled
    BY <1>1 DEF Armed, Watching, BeforeSuspend, Deferred, Discarded, Handled, MasterGone
  <2> QED
    BY <1>1, <2>1 DEF NotifyMaster, DeathNoticed, BeforeSuspend, NoWorkerDeathMissed
<1>2. CASE mpc = "suspended"
  <2>1. Handled /\ ~Discarded /\ ~Deferred
    BY <1>2 DEF Armed, Watching, Deferred, Discarded, Handled, MasterGone
  <2> QED
    BY <1>2, <2>1 DEF NotifyMaster, DeathNoticed, BeforeSuspend, NoWorkerDeathMissed
<1>3. CASE mpc \notin BeforeSuspend \union {"suspended"}
  <2>1. mpc' = mpc
    BY <1>3, NotifyType
  <2>2. received => received'
    BY DEF NotifyMaster
  <2> QED
    BY <1>3, <2>1, <2>2 DEF DeathNoticed, NoWorkerDeathMissed
<1> QED
  BY <1>1, <1>2, <1>3

\* Steps after which no other worker is dead, and the signal state is the same.
LEMMA NobodyDies ==
    ASSUME DeathNoticed, UNCHANGED <<mpc, pending, received>>,
           \A p \in Pid : proc'[p] = "dead worker" => proc[p] = "dead worker"
    PROVE  DeathNoticed'
BY DEF DeathNoticed, NoWorkerDeathMissed

\* The inductive step.
LEMMA DeathNoticedStep == IInv /\ Armed /\ DeathNoticed /\ [Next]_vars => DeathNoticed'
<1> SUFFICES ASSUME IInv, Armed, DeathNoticed, [Next]_vars PROVE DeathNoticed'
  OBVIOUS
<1>0. TypeOK
  BY DEF IInv
<1>n. mpc \in NoWorkerYet => \A p \in Pid : proc[p] # "dead worker"
  BY NoneBefore DEF AnyWorker
<1> USE DEF MasterLocal, sigvars, Goto
<1>1. CASE get_options \/ parse_conf \/ print_parse_res \/ pkt_engine_init \/ sort_init
  BY <1>1 DEF get_options, parse_conf, print_parse_res, pkt_engine_init, sort_init,
     DeathNoticed, NoWorkerDeathMissed, BeforeSuspend
<1>2. CASE set_required_signal \/ block_required_signal \/ start_pkt_engine
  BY <1>2 DEF set_required_signal, block_required_signal, start_pkt_engine,
     DeathNoticed, NoWorkerDeathMissed, BeforeSuspend
<1>3. CASE wait_required_signal \/ process_signals
  BY <1>3 DEF wait_required_signal, process_signals, DeathNoticed, NoWorkerDeathMissed,
     BeforeSuspend
<1>4. CASE process_SIGCHLD
  <2>1. CASE mpc' = "process_SIGCHLD"
    BY <2>1 DEF DeathNoticed, NoWorkerDeathMissed, BeforeSuspend
  <2>2. CASE mpc' = "wait_required_signal" /\ UNCHANGED proc
             /\ \A p \in Pid : proc[p] \notin DeadChild
    BY <2>2 DEF DeathNoticed, NoWorkerDeathMissed, DeadChild
  <2> QED
    BY <1>4, <2>1, <2>2 DEF process_SIGCHLD
<1>5. CASE ForkMonitor \/ SetMonitor
  BY <1>5 DEF ForkMonitor, SetMonitor, DeathNoticed, NoWorkerDeathMissed, BeforeSuspend
<1>6. CASE ForkWorker
  <2>1. \A p \in Pid : proc[p] # "dead worker"
    BY <1>6, <1>n DEF ForkWorker, NoWorkerYet
  <2>2. \A p \in Pid : proc'[p] # "dead worker"
    BY <1>0, <1>6, <2>1 DEF ForkWorker, TypeOK
  <2> QED
    BY <1>6, <2>2 DEF ForkWorker, DeathNoticed, NoWorkerDeathMissed
<1>7. CASE SetWorker
  BY <1>7 DEF SetWorker, DeathNoticed, NoWorkerDeathMissed, BeforeSuspend
<1>8. CASE Exit \/ TerminateMaster
  BY <1>8 DEF Exit, TerminateMaster, DeathNoticed, NoWorkerDeathMissed, BeforeSuspend
<1>9. ASSUME NEW p \in Pid, \/ ExecRedis(p) \/ WorkerStarts(p) \/ WorkerStrays(p)
                            \/ Stranger(p) \/ InitReaps(p)
      PROVE  DeathNoticed'
  <2>1. \A q \in Pid : proc'[q] = "dead worker" => proc[q] = "dead worker"
    BY <1>0, <1>9 DEF ExecRedis, WorkerStarts, WorkerStrays, Stranger, InitReaps, TypeOK
  <2> QED
    BY <1>9, <2>1, NobodyDies DEF ExecRedis, WorkerStarts, WorkerStrays, Stranger,
       InitReaps
<1>10. ASSUME NEW p \in Pid, ChildDies(p) \/ ChildStops(p) PROVE DeathNoticed'
  BY <1>0, <1>10, NotifyLeavesTrace DEF ChildDies, ChildStops
<1>11. ASSUME NEW p \in Pid, ExecFails(p) PROVE DeathNoticed'
  <2>1. CASE mpc' = "killed"
    BY <2>1 DEF DeathNoticed, NoWorkerDeathMissed, BeforeSuspend
  <2>2. CASE NotifyMaster
    BY <1>0, <2>2, NotifyLeavesTrace
  <2> QED
    BY <1>11, <2>1, <2>2 DEF ExecFails
<1>12. ASSUME NEW p \in Pid, WorkerExits(p) PROVE DeathNoticed'
  <2>1. CASE mpc' = "killed"
    BY <2>1 DEF DeathNoticed, NoWorkerDeathMissed, BeforeSuspend
  <2>2. CASE NotifyMaster
    BY <1>0, <2>2, NotifyLeavesTrace
  <2>3. CASE /\ UNCHANGED <<mpc, sigvars>>
             /\ ~\E q \in Pid : proc'[q] \in DeadChild /\ proc'[q] # proc[q]
    BY <2>3, NobodyDies DEF DeadChild
  <2> QED
    BY <1>12, <2>1, <2>2, <2>3 DEF WorkerExits
<1>13. CASE UNCHANGED vars
  BY <1>13, NobodyDies DEF vars
<1> QED
  BY <1>1, <1>2, <1>3, <1>4, <1>5, <1>6, <1>7, <1>8, <1>9, <1>10, <1>11, <1>12, <1>13
     DEF Next, MasterStep, Environment

\* The master never sleeps on a dead worker: SIGCHLD is handled and blocked before
\* the worker is forked, so its death is pending at sigsuspend() or interrupts it,
\* and the loop of process_SIGCHLD() reaps all there is before the next one.
THEOREM DeathsAreNoticed == Spec => []NoWorkerDeathMissed
<1>1. Init => IInv /\ Armed /\ DeathNoticed
  <2>1. Init => Armed /\ DeathNoticed
    BY DEF Init, Armed, Watching, DeathNoticed, BeforeSuspend, NoWorkerDeathMissed
  <2>2. Init => IInv
    BY TypeInit DEF Init, IInv, MonitorKnown, WorkerKnown, ExitLeavesNoChild,
       AnyMonitor, AnyWorker, LiveMonitor, LiveWorker
  <2> QED
    BY <2>1, <2>2
<1>2. IInv => TypeOK
  BY DEF IInv
<1>3. DeathNoticed => NoWorkerDeathMissed
  BY DEF DeathNoticed
<1> QED
  BY <1>1, <1>2, <1>3, IInvStep, ArmedStep, DeathNoticedStep, PTL DEF Spec
=============================================================================
