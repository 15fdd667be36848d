----------------------------- MODULE Supervisor -----------------------------
(***************************************************************************)
(* The master process of smartDNS and the two children it starts: main()  *)
(* with its error exits, start_monitor() and the fork half of             *)
(* start_worker(), the SIGCHLD machinery of signal_my.c and the atexit()  *)
(* function kill_child_all().  The kernel side (pids, zombies, pending    *)
(* signals, reparenting) and the other processes of the host are modelled *)
(* as far as those functions can observe or affect them.                  *)
(*                                                                         *)
(* What the steps of main() compute (options, configuration, GeoIP data    *)
(* base, socket) is abstracted to their return value.                      *)
(***************************************************************************)
EXTENDS Integers

CONSTANTS
    Pid,        \* the pids the kernel may give to a process of the host
    MasterPid,  \* getpid() of the master
    Faults      \* the rare events this instance considers (FaultKind)

(***************************************************************************)
(* "fork"              fork() returns -1                                   *)
(* "pkt_engine_init_2" the engine's second stage fails in the worker       *)
(* "clear_mask_signal" the worker cannot unblock its signals               *)
(* "start_pkt_engine"  the engine does not start, in the master or in a    *)
(*                     worker that has returned into main()                *)
(* "terminate"         a signal with a fatal default action hits the master*)
(* The socket engine never fails in its two later stages; engine_glb.h     *)
(* allows an engine to, and main() and start_worker() handle it.           *)
(***************************************************************************)
FaultKind == {"fork", "pkt_engine_init_2", "clear_mask_signal", "start_pkt_engine",
              "terminate"}

ASSUME PidAssumption == /\ Pid \subseteq Nat \ {0}
                        /\ MasterPid \in Nat \ {0}
                        /\ MasterPid \notin Pid
ASSUME FaultAssumption == Faults \subseteq FaultKind

Role == {"master", "monitor", "worker"}  \* indices of child_process[]
Unset == 0       \* a slot of child_process[] nobody has written
AllPids == -1    \* what a failed fork() leaves there; kill(-1) means everybody
SlotValue == Pid \union {Unset, AllPids, MasterPid}

VARIABLES
    mpc,           \* where the master's control is in main()
    role,          \* what get_options() made of the command line
    child_pid,     \* result of the last fork(), not yet stored
    child_process, \* glb_vars.child_process[]
    copy,          \* the copy of it that each child inherited at its fork
    handler,       \* is smartDNS_signal_handler installed for SIGCHLD?
    blocked,       \* is SIGCHLD in the master's signal mask?
    pending,       \* is a SIGCHLD pending for the master?
    received,      \* s_received_signal = SIGCHLD
    proc           \* the kernel's process table, without the master's row

sigvars == <<handler, blocked, pending, received>>
vars == <<mpc, role, child_pid, child_process, copy, sigvars, proc>>

(***************************************************************************)
(* A row of the process table: "free"; "stranger", a process that has      *)
(* nothing to do with smartDNS; "monitor", the child of start_monitor()    *)
(* before its exec, "redis" after it; "starting", the child of             *)
(* start_worker() before its loop, "serving" in its loop, "returned" when  *)
(* it is back in main(), "astray" when it waits there for signals,         *)
(* "exiting" when it has run its atexit() function instead; and the two    *)
(* kinds of zombie.                                                        *)
(***************************************************************************)
LiveMonitor == {"monitor", "redis"}
LiveWorker  == {"starting", "serving", "returned", "astray", "exiting"}
LiveChild   == LiveMonitor \union LiveWorker
DeadChild   == {"dead monitor", "dead worker"}
ProcState   == {"free", "stranger"} \union LiveChild \union DeadChild

Dead(state) == IF state \in LiveMonitor THEN "dead monitor" ELSE "dead worker"

MasterGone == mpc \in {"exited", "killed"}

PC == {"get_options", "start_monitor", "sleep", "parse_conf", "print_parse_res",
       "pkt_engine_init", "set_required_signal", "block_required_signal",
       "sort_init", "start_worker", "set_child_process", "start_pkt_engine",
       "wait_required_signal", "suspended", "process_signals",
       "process_SIGCHLD", "exit", "exited", "killed"}

TypeOK ==
    /\ mpc \in PC
    /\ role \in {"server", "signaller", "helper", "tester"}
    /\ child_pid \in Pid \union {Unset, AllPids}
    /\ child_process \in [Role -> SlotValue]
    /\ copy \in [{"monitor", "worker"} -> [Role -> SlotValue]]
    /\ handler \in BOOLEAN
    /\ blocked \in BOOLEAN
    /\ pending \in BOOLEAN
    /\ received \in BOOLEAN
    /\ proc \in [Pid -> ProcState]

Init ==
    /\ mpc = "get_options"
    /\ role = "server"
    /\ child_pid = Unset
    /\ child_process = [r \in Role |-> IF r = "master" THEN MasterPid ELSE Unset]
    /\ copy = [c \in {"monitor", "worker"} |-> [r \in Role |-> Unset]]
    /\ handler = FALSE
    /\ blocked = FALSE
    /\ pending = FALSE
    /\ received = FALSE
    /\ proc \in [Pid -> {"free", "stranger"}]

-----------------------------------------------------------------------------
(* kill_child_all() and the kernel's kill() under it.                       *)

\* Mutation: the loop of kill_child_all() does not skip PROCESS_ROLE_MASTER.
KillTargets_MasterToo(self, slots) == {slots[r] : r \in Role} \ {Unset, self}

\* The pids a process `self` with the table `slots` signals on its exit.
KillTargets(self, slots) ==
    {slots[r] : r \in Role \ {"master"}} \ {Unset, self}

\* The processes these kill(pid, SIGKILL) calls end.
Killed(self, slots, p) ==
    p # self /\ (p \in KillTargets(self, slots) \/ AllPids \in KillTargets(self, slots))

\* What SIGKILL makes of a process.
AfterKill(state) ==
    IF state \in LiveChild THEN Dead(state)
    ELSE IF state = "stranger" THEN "free" ELSE state

\* The process table after `self` has run kill_child_all() with `slots`.
kill_child_all(self, slots) ==
    [p \in Pid |-> IF Killed(self, slots, p) THEN AfterKill(proc[p]) ELSE proc[p]]

-----------------------------------------------------------------------------
(* How the kernel delivers SIGCHLD to the master.                           *)

Discarded == ~handler \/ MasterGone
Deferred  == handler /\ ~MasterGone /\ blocked /\ mpc # "suspended"
Handled   == handler /\ ~MasterGone /\ (~blocked \/ mpc = "suspended")

\* smartDNS_signal_handler records the signal; it ends a sigsuspend().
NotifyMaster ==
    /\ \/ Discarded /\ UNCHANGED <<mpc, pending, received>>
       \/ /\ Deferred
          /\ pending' = TRUE
          /\ UNCHANGED <<mpc, received>>
       \/ /\ Handled
          /\ received' = TRUE
          /\ mpc' = IF mpc = "suspended" THEN "process_signals" ELSE mpc
          /\ UNCHANGED pending
    /\ UNCHANGED <<handler, blocked>>

-----------------------------------------------------------------------------
(* The master, in the order of main().                                      *)

MasterLocal == <<role, child_pid, child_process, copy>>

Goto(pc) == mpc' = pc

\* get_options(), then the branches of main() for -s and -h.
get_options ==
    /\ mpc = "get_options"
    /\ \/ /\ role' \in {"server", "tester"}
          /\ Goto("start_monitor")
       \/ /\ role' \in {"signaller", "helper"}
          /\ Goto("exit")
       \/ Goto("exit") /\ UNCHANGED role    \* parse cmdline failed
    /\ UNCHANGED <<child_pid, child_process, copy, sigvars, proc>>

\* Mutation: `if (child_pid = fork() > 0)`, the value of the comparison is kept.
ForkMonitor_Precedence ==
    /\ mpc = "start_monitor"
    /\ Goto("sleep")
    /\ \E p \in Pid :
          /\ proc[p] = "free"
          /\ child_pid' = 1
          /\ proc' = [proc EXCEPT ![p] = "monitor"]
          /\ copy' = [copy EXCEPT !["monitor"] = child_process]
    /\ UNCHANGED <<role, child_process, sigvars>>

\* fork() of start_monitor(); the parent goes to sleep before it stores the
\* pid, the child starts from a copy of the parent's memory.
ForkMonitor ==
    /\ mpc = "start_monitor"
    /\ Goto("sleep")
    /\ \/ \E p \in Pid :
             /\ proc[p] = "free"
             /\ child_pid' = p
             /\ proc' = [proc EXCEPT ![p] = "monitor"]
             /\ copy' = [copy EXCEPT !["monitor"] = child_process]
       \/ /\ "fork" \in Faults
          /\ child_pid' = AllPids
          /\ UNCHANGED <<proc, copy>>
    /\ UNCHANGED <<role, child_process, sigvars>>

\* Mutation: start_monitor() forgets SET_CHILD_PROCESS.
SetMonitor_NotStored ==
    /\ mpc = "sleep"
    /\ Goto("parse_conf")
    /\ UNCHANGED <<MasterLocal, sigvars, proc>>

\* The end of sleep(5) and SET_CHILD_PROCESS.
SetMonitor ==
    /\ mpc = "sleep"
    /\ child_process' = [child_process EXCEPT !["monitor"] = child_pid]
    /\ Goto("parse_conf")
    /\ UNCHANGED <<role, child_pid, copy, sigvars, proc>>

parse_conf ==
    /\ mpc = "parse_conf"
    /\ \/ Goto("exit")
       \/ role = "tester" /\ Goto("print_parse_res")
       \/ role # "tester" /\ Goto("pkt_engine_init")
    /\ UNCHANGED <<MasterLocal, sigvars, proc>>

\* -t prints what was stored and leaves.
print_parse_res ==
    /\ mpc = "print_parse_res"
    /\ Goto("exit")
    /\ UNCHANGED <<MasterLocal, sigvars, proc>>

pkt_engine_init ==
    /\ mpc = "pkt_engine_init"
    /\ Goto("exit") \/ Goto("set_required_signal")
    /\ UNCHANGED <<MasterLocal, sigvars, proc>>

\* sigaction() for the one signal of SIGNALS_ARR; main() exits when it fails.
set_required_signal ==
    /\ mpc = "set_required_signal"
    /\ \/ handler' = TRUE /\ Goto("block_required_signal")
       \/ Goto("exit") /\ UNCHANGED handler
    /\ UNCHANGED <<MasterLocal, blocked, pending, received, proc>>

\* sigprocmask(); when it fails main() exits with the handler in place.
block_required_signal ==
    /\ mpc = "block_required_signal"
    /\ \/ blocked' = TRUE /\ Goto("sort_init")
       \/ Goto("exit") /\ UNCHANGED blocked
    /\ UNCHANGED <<MasterLocal, handler, pending, received, proc>>

sort_init ==
    /\ mpc = "sort_init"
    /\ Goto("exit") \/ Goto("start_worker")
    /\ UNCHANGED <<MasterLocal, sigvars, proc>>

\* fork() of start_worker().
ForkWorker ==
    /\ mpc = "start_worker"
    /\ Goto("set_child_process")
    /\ \/ \E p \in Pid :
             /\ proc[p] = "free"
             /\ child_pid' = p
             /\ proc' = [proc EXCEPT ![p] = "starting"]
             /\ copy' = [copy EXCEPT !["worker"] = child_process]
       \/ /\ "fork" \in Faults
          /\ child_pid' = AllPids
          /\ UNCHANGED <<proc, copy>>
    /\ UNCHANGED <<role, child_process, sigvars>>

\* SET_CHILD_PROCESS in the parent branch of start_worker().
SetWorker ==
    /\ mpc = "set_child_process"
    /\ child_process' = [child_process EXCEPT !["worker"] = child_pid]
    /\ Goto("start_pkt_engine")
    /\ UNCHANGED <<role, child_pid, copy, sigvars, proc>>

start_pkt_engine ==
    /\ mpc = "start_pkt_engine"
    /\ \/ Goto("wait_required_signal")
       \/ "start_pkt_engine" \in Faults /\ Goto("exit")
    /\ UNCHANGED <<MasterLocal, sigvars, proc>>

\* sigsuspend() with an empty mask: a pending SIGCHLD is delivered at once.
wait_required_signal ==
    /\ mpc = "wait_required_signal"
    /\ \/ /\ pending
          /\ pending' = FALSE
          /\ received' = TRUE
          /\ Goto("process_signals")
       \/ /\ ~pending
          /\ Goto("suspended")
          /\ UNCHANGED <<pending, received>>
    /\ UNCHANGED <<MasterLocal, handler, blocked, proc>>

\* Mutation: no match in SIGNALS_ARR for the signal the handler recorded.
process_signals_NoMatch ==
    /\ mpc = "process_signals"
    /\ Goto("wait_required_signal")
    /\ UNCHANGED <<MasterLocal, sigvars, proc>>

process_signals ==
    /\ mpc = "process_signals"
    /\ Goto(IF received THEN "process_SIGCHLD" ELSE "wait_required_signal")
    /\ UNCHANGED <<MasterLocal, sigvars, proc>>

\* Mutation: one waitpid() per SIGCHLD instead of a loop.
process_SIGCHLD_Once ==
    /\ mpc = "process_SIGCHLD"
    /\ \/ \E p \in Pid :
             /\ proc[p] \in DeadChild
             /\ proc' = [proc EXCEPT ![p] = "free"]
       \/ /\ \A p \in Pid : proc[p] \notin DeadChild
          /\ UNCHANGED proc
    /\ Goto("wait_required_signal")
    /\ UNCHANGED <<MasterLocal, sigvars>>

\* Mutation: main() gives up when process_signals() returns RET_ERR (ECHILD).
process_SIGCHLD_GiveUp ==
    /\ mpc = "process_SIGCHLD"
    /\ \/ \E p \in Pid :
             /\ proc[p] \in DeadChild
             /\ proc' = [proc EXCEPT ![p] = "free"]
             /\ UNCHANGED mpc
       \/ /\ \A p \in Pid : proc[p] \notin DeadChild
          /\ Goto(IF \E p \in Pid : proc[p] \in LiveChild
                     THEN "wait_required_signal" ELSE "exit")
          /\ UNCHANGED proc
    /\ UNCHANGED <<MasterLocal, sigvars>>

\* One waitpid(-1, WNOHANG): it reaps a zombie and the loop goes on, or it
\* finds none (0 or ECHILD) and main() waits again.
process_SIGCHLD ==
    /\ mpc = "process_SIGCHLD"
    /\ \/ \E p \in Pid :
             /\ proc[p] \in DeadChild
             /\ proc' = [proc EXCEPT ![p] = "free"]
             /\ UNCHANGED mpc
       \/ /\ \A p \in Pid : proc[p] \notin DeadChild
          /\ Goto("wait_required_signal")
          /\ UNCHANGED proc
    /\ UNCHANGED <<MasterLocal, sigvars>>

\* exit() in main(): the atexit() function runs, then the process is gone.
Exit ==
    /\ mpc = "exit"
    /\ proc' = kill_child_all(MasterPid, child_process)
    /\ Goto("exited")
    /\ UNCHANGED <<MasterLocal, sigvars>>

MasterStep ==
    \/ get_options \/ ForkMonitor \/ SetMonitor \/ parse_conf
    \/ print_parse_res \/ pkt_engine_init \/ set_required_signal
    \/ block_required_signal \/ sort_init \/ ForkWorker \/ SetWorker
    \/ start_pkt_engine \/ wait_required_signal \/ process_signals
    \/ process_SIGCHLD \/ Exit

-----------------------------------------------------------------------------
(* The children.                                                            *)

\* execlp() of redis-server succeeds in the monitor child.
ExecRedis(p) ==
    /\ proc[p] = "monitor"
    /\ proc' = [proc EXCEPT ![p] = "redis"]
    /\ UNCHANGED <<mpc, MasterLocal, sigvars>>

\* It fails: start_monitor() returns RET_ERR in the child, whose main() calls
\* exit() and so runs the inherited kill_child_all() over its own copy of
\* child_process[].  If the copy named the master, the master would be killed.
ExecFails(p) ==
    /\ proc[p] = "monitor"
    /\ proc' = [kill_child_all(p, copy["monitor"]) EXCEPT ![p] = "dead monitor"]
    /\ IF Killed(p, copy["monitor"], MasterPid) /\ ~MasterGone
          THEN Goto("killed") /\ UNCHANGED sigvars
          ELSE NotifyMaster
    /\ UNCHANGED MasterLocal

\* The worker child gets through its initialisation to its loop; when one of
\* its two steps fails start_worker(), which is void, returns into main().
WorkerStarts(p) ==
    /\ proc[p] = "starting"
    /\ \/ proc' = [proc EXCEPT ![p] = "serving"]
       \/ /\ Faults \intersect {"pkt_engine_init_2", "clear_mask_signal"} # {}
          /\ proc' = [proc EXCEPT ![p] = "returned"]
    /\ UNCHANGED <<mpc, MasterLocal, sigvars>>

\* There it goes on as if it were the master: it starts the engine and waits for
\* signals.
WorkerStrays(p) ==
    /\ proc[p] = "returned"
    /\ proc' = [proc EXCEPT ![p] = "astray"]
    /\ UNCHANGED <<mpc, MasterLocal, sigvars>>

\* Or the engine does not start and it exits, which runs the inherited
\* kill_child_all() over the pids child_process[] had at its fork: redis's, or
\* the -1 of a fork() that failed, which stands for the master as well.
WorkerExits(p) ==
    /\ proc[p] = "returned"
    /\ "start_pkt_engine" \in Faults
    /\ proc' = [kill_child_all(p, copy["worker"]) EXCEPT ![p] = "exiting"]
    /\ IF Killed(p, copy["worker"], MasterPid) /\ ~MasterGone
          THEN Goto("killed") /\ UNCHANGED sigvars
          ELSE IF \E q \in Pid : proc'[q] \in DeadChild /\ proc'[q] # proc[q]
                  THEN NotifyMaster
                  ELSE UNCHANGED <<mpc, sigvars>>
    /\ UNCHANGED MasterLocal

\* A child ends: a crash, an operator's kill, redis giving up its port.
ChildDies(p) ==
    /\ proc[p] \in LiveChild
    /\ proc' = [proc EXCEPT ![p] = Dead(proc[p])]
    /\ NotifyMaster
    /\ UNCHANGED MasterLocal

\* A child is stopped or continued: SIGCHLD without a zombie (the handler is
\* installed without SA_NOCLDSTOP).
ChildStops(p) ==
    /\ proc[p] \in LiveChild
    /\ NotifyMaster
    /\ UNCHANGED <<MasterLocal, proc>>

(* The host.                                                                *)

\* A fatal signal ends the master without running atexit() functions.
TerminateMaster ==
    /\ "terminate" \in Faults
    /\ ~MasterGone
    /\ Goto("killed")
    /\ UNCHANGED <<MasterLocal, sigvars, proc>>

\* Other processes come and go, and take pids that have become free.
Stranger(p) ==
    /\ \/ proc[p] = "free" /\ proc' = [proc EXCEPT ![p] = "stranger"]
       \/ proc[p] = "stranger" /\ proc' = [proc EXCEPT ![p] = "free"]
    /\ UNCHANGED <<mpc, MasterLocal, sigvars>>

\* init inherits the zombies of a master that is gone.
InitReaps(p) ==
    /\ MasterGone
    /\ proc[p] \in DeadChild
    /\ proc' = [proc EXCEPT ![p] = "free"]
    /\ UNCHANGED <<mpc, MasterLocal, sigvars>>

Environment ==
    \/ TerminateMaster
    \/ \E p \in Pid : \/ ExecRedis(p) \/ ExecFails(p) \/ WorkerStarts(p)
                      \/ WorkerStrays(p) \/ WorkerExits(p) \/ ChildDies(p) \/ ChildStops(p)
                      \/ Stranger(p) \/ InitReaps(p)

Next == MasterStep \/ Environment

Spec == Init /\ [][Next]_vars

\* The scheduler runs the master whenever it can run; a child may live for
\* ever, so nothing is assumed of the environment.
FairSpec == Spec /\ WF_vars(MasterStep)

-----------------------------------------------------------------------------
(* Properties.                                                              *)

\* When the master leaves through exit(), on whatever error path of main() and
\* however far its children got, none of them is left running (main.c:21-25): a
\* fork is never followed by an exit() that does not know the child.
ExitLeavesNoChild ==
    mpc = "exited" => \A p \in Pid : proc[p] \notin LiveChild

\* kill_child_all() uses pids stored long before.  A pid among them never belongs to
\* a foreign process, however the host recycles pids and whoever else has exited: a
\* dead child stays a zombie, its pid taken, up to every exit() of the master that
\* could still signal it.  The same holds for the exit() of a worker that has
\* returned into main(), but only until the master comes to its loop, where it reaps,
\* or ends: what may happen then is WorkerKillsOnlyChildren.  (A stored -1 is no pid:
\* see KillsOnlyChildren.)
StoredPidsAreOwn ==
    [][\/ Exit /\ AllPids \notin KillTargets(MasterPid, child_process)
       \/ /\ mpc \in {"set_child_process", "start_pkt_engine", "exit"}
          /\ \E q \in Pid : WorkerExits(q) /\ AllPids \notin KillTargets(q, copy["worker"])
       => \A p \in Pid : proc[p] = "stranger" => proc'[p] = "stranger"]_vars

\* main.c:21-22: exit() kills the children the master has started, and so nobody
\* else.  Not so after a failed fork(), whose -1 stands for every process.
KillsOnlyChildren ==
    [][Exit => \A p \in Pid : proc[p] = "stranger" => proc'[p] = "stranger"]_vars

\* main.c:21-22 again: the function registered there kills what the master has
\* started.  A worker that has returned into main() runs it too, over the pids
\* it inherited; by then redis may have been reaped and its pid given away.
WorkerKillsOnlyChildren ==
    [][\A p \in Pid : WorkerExits(p) =>
          \A q \in Pid : proc[q] = "stranger" => proc'[q] = "stranger"]_vars

\* A monitor child whose exec failed runs kill_child_all() as well, an effect
\* main.c:24 sets aside.  It harms neither the master nor anybody else: what
\* it inherited names no process but the master, and that entry is skipped.
FailedExecIsHarmless ==
    [][\A p \in Pid : ExecFails(p) =>
          /\ mpc' = "killed" => mpc = "killed"
          /\ \A q \in Pid \ {p} : proc'[q] = proc[q]]_vars

\* The master never sleeps on a dead worker: whenever sigsuspend() is waiting,
\* the death of the worker has been taken up, at whatever point of the loop
\* the SIGCHLD arrived and however many were merged into one.
NoWorkerDeathMissed ==
    mpc = "suspended" => \A p \in Pid : proc[p] # "dead worker"

\* Every dead worker is reaped, unless the master is gone itself.
WorkerDeathIsReaped ==
    \A p \in Pid :
        proc[p] = "dead worker" ~> (proc[p] # "dead worker" \/ MasterGone)

\* README:59 says the master starts and monitors the other processes.  The same
\* demand for the monitor process (redis): not met when redis is dead before
\* SIGCHLD is blocked, the signal being discarded or handled too early.
NoMonitorDeathMissed ==
    mpc = "suspended" => \A p \in Pid : proc[p] # "dead monitor"
=============================================================================
