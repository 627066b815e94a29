----------------------------- MODULE Daemonize -----------------------------
(***************************************************************************)
(* The processes of svnsrv on Linux: svnsrv -D, svnsrv -s stop and         *)
(* svnsrv -s restart, the daemon they start, signal and replace, and the   *)
(* worker the daemon watches over (daemonize_linux.inl, the daemon part of *)
(* main, and the listener of SubversionServer).                            *)
(*                                                                         *)
(* A process is a number.  pc says which statement it executes next, prog  *)
(* which program it runs.  Every system call another process can observe   *)
(* is a step of its own, so that processes interleave between any two of   *)
(* them, and SIGUSR1 is handled between any two steps of its target.       *)
(***************************************************************************)
EXTENDS Integers

CONSTANTS
  MaxPid,        \* bound: processes of svnsrv; each has a number of its own
  Reuse,         \* may another program get the number of a process that has ended?
  Commands,      \* what the operator may run
  Operator,      \* when the operator runs the next command
  Modes,         \* the values Daemon.CrashRestart may have in svnsrv.toml
  Crashes        \* may a serving process crash?

Programs  == {"daemon", "stop", "restart"}
Operators == {"hasty", "orderly", "patient"}

ASSUME DaemonAssumption ==
  /\ MaxPid \in Nat
  /\ Commands \subseteq Programs
  /\ Operator \in Operators
  /\ Modes \subseteq BOOLEAN
  /\ Crashes \in BOOLEAN
  /\ Reuse \in BOOLEAN

Pids == 1..MaxPid

None  == 0   \* no process; a pidfile that does not exist
Empty == -1  \* a pidfile that is open for writing

VARIABLES
  crashRestart,  \* master and worker, or a single process
  pc,         \* the next statement of each process
  prog,       \* the program each process runs
  pid,        \* the local variable pid of Daemonize, DaemonStop, DaemonRestart
  nid,        \* the local variable nid of DaemonRestart
  child_pid,  \* the static variable child_pid
  forked,     \* the last process each process has forked
  pending,    \* the processes with a SIGUSR1 to handle
  pidfile,    \* the number in the pidfile
  listener,   \* the process that listens on the port
  result,     \* what a command has reported
  reused      \* numbers of ended processes that the kernel knows nevertheless

vars == <<crashRestart, pc, prog, pid, nid, child_pid, forked, pending, pidfile,
          listener, result, reused>>

-----------------------------------------------------------------------------
(* Processes *)

Alive(p) == pc[p] \notin {"free", "dead"}

FreePids == {p \in Pids : pc[p] = "free"}

\* The kernel numbers processes in order.
NextPid == CHOOSE p \in FreePids : \A q \in FreePids : p <= q

\* Process p goes on at statement s.
At(p, s) == pc' = [pc EXCEPT ![p] = s]

\* Process p ends and what it holds of the kernel is released.
exit(p) ==
  /\ At(p, "dead")
  /\ pending' = pending \ {p}
  /\ listener' = IF listener = p THEN None ELSE listener

\* kill(q, SIGUSR1)
kill(q) == pending' = IF Alive(q) THEN pending \cup {q} ELSE pending

\* Process p forks: it goes on at s, the new process at t with none of its
\* signals, child_pid 0, and the program g.
fork(p, s, t, g) ==
  LET q == NextPid IN
  /\ FreePids # {}
  /\ pc' = [pc EXCEPT ![p] = s, ![q] = t]
  /\ forked' = [forked EXCEPT ![p] = q]
  /\ prog' = [prog EXCEPT ![q] = g]
  /\ child_pid' = [child_pid EXCEPT ![q] = 0]

-----------------------------------------------------------------------------
(* check_pid: read the pidfile, then ask whether that process exists *)

\* Fault: what fscanf returns is not looked at.
check_pid_Unscanned(p) ==
  /\ pc[p] \in {"check", "recheck"}
  /\ At(p, IF pc[p] = "check" THEN "probe" ELSE "reprobe")
  /\ nid' = [nid EXCEPT ![p] = IF pidfile = Empty THEN MaxPid + 1 ELSE pidfile]
  /\ pid' = [pid EXCEPT ![p] = IF pc[p] = "check" THEN pidfile ELSE @]
  /\ UNCHANGED <<prog, child_pid, forked, pending, pidfile, listener, result>>

\* "check" and "probe" are Daemonize's, DaemonStop's and DaemonRestart's first
\* call; "recheck" and "reprobe" the one DaemonRestart ends with.
check_pid(p) ==
  /\ \/ /\ pc[p] = "check" /\ At(p, "probe")
        /\ pid' = [pid EXCEPT ![p] = pidfile]
        /\ UNCHANGED nid
     \/ /\ pc[p] = "recheck" /\ At(p, "reprobe")
        /\ nid' = [nid EXCEPT ![p] = pidfile]
        /\ UNCHANGED pid
  /\ UNCHANGED <<prog, child_pid, forked, pending, pidfile, listener, result>>

\* Fault: the process in the pidfile is taken to be alive.
Running_Unprobed(n) == IF n \in Pids THEN n ELSE 0

\* What check_pid returns for the number n it has read: kill(n, 0) finds any
\* process of that number, be it another program, of another user, or a zombie.
Running(n) == IF n \in Pids /\ (Alive(n) \/ n \in reused) THEN n ELSE 0

\* A command ends with its result.
Reports(p, r) ==
  /\ exit(p)
  /\ result' = [result EXCEPT ![p] = r]

-----------------------------------------------------------------------------
(* svnsrv -D *)

\* Daemonize: svnsrv is already running, or fork and let the parent exit.
Daemonize(p) ==
  /\ prog[p] = "daemon" /\ pc[p] = "probe"
  /\ \/ /\ Running(pid[p]) # 0 \/ FreePids = {}
        /\ Reports(p, "fail")
        /\ UNCHANGED <<prog, child_pid, forked>>
     \/ /\ Running(pid[p]) = 0
        /\ fork(p, "dead", "setsid", "daemon")
        /\ result' = [result EXCEPT ![p] = "ok"]
        /\ pending' = pending \ {p}
        /\ UNCHANGED listener
  /\ UNCHANGED <<pid, nid, pidfile>>

\* setsid, umask, /dev/null: the daemon is detached, or it gives up.
Detaches(p) ==
  /\ pc[p] = "setsid"
  /\ \/ At(p, "write_pid") /\ UNCHANGED <<pending, listener>>
     \/ exit(p)
  /\ UNCHANGED <<prog, pid, nid, child_pid, forked, pidfile, result>>

\* write_pid: fopen empties the file, fclose writes the number.
write_pid(p) ==
  /\ \/ /\ pc[p] = "write_pid"
        /\ \/ /\ At(p, "fclose") /\ pidfile' = Empty
              /\ UNCHANGED <<pending, listener>>
           \/ exit(p) /\ UNCHANGED pidfile
     \/ /\ pc[p] = "fclose"
        /\ At(p, "DaemonWait") /\ pidfile' = p
        /\ UNCHANGED <<pending, listener>>
  /\ UNCHANGED <<prog, pid, nid, child_pid, forked, result>>

\* DaemonWait without crashRestart: this process serves.
DaemonWait_single(p) ==
  /\ pc[p] = "DaemonWait" /\ ~crashRestart
  /\ At(p, "listen")
  /\ child_pid' = [child_pid EXCEPT ![p] = -1]
  /\ UNCHANGED <<prog, pid, nid, forked, pending, pidfile, listener, result>>

\* DaemonWait with crashRestart: while ((child_pid = fork())).  The result of
\* fork is stored a step after the worker exists.
DaemonWait_fork(p) ==
  /\ pc[p] = "DaemonWait" /\ crashRestart
  /\ \/ /\ fork(p, "assign", "listen", "worker")
        /\ UNCHANGED <<pending, listener>>
     \/ /\ FreePids = {}
        /\ exit(p)
        /\ UNCHANGED <<prog, child_pid, forked>>
  /\ UNCHANGED <<pid, nid, pidfile, result>>

DaemonWait_assign(p) ==
  /\ pc[p] = "assign"
  /\ At(p, "waitpid")
  /\ child_pid' = [child_pid EXCEPT ![p] = forked[p]]
  /\ UNCHANGED <<prog, pid, nid, forked, pending, pidfile, listener, result>>

DaemonWait_waitpid(p) ==
  /\ pc[p] = "waitpid" /\ ~Alive(child_pid[p])
  /\ At(p, "reset")
  /\ UNCHANGED <<prog, pid, nid, child_pid, forked, pending, pidfile, listener,
                 result>>

\* Fault: the master goes back to waiting without a new worker.
DaemonWait_reset_NoFork(p) ==
  /\ pc[p] = "reset"
  /\ At(p, "waitpid")
  /\ UNCHANGED <<prog, pid, nid, child_pid, forked, pending, pidfile, listener,
                 result>>

DaemonWait_reset(p) ==
  /\ pc[p] = "reset"
  /\ At(p, "DaemonWait")
  /\ child_pid' = [child_pid EXCEPT ![p] = 0]
  /\ UNCHANGED <<prog, pid, nid, forked, pending, pidfile, listener, result>>

\* SubversionServerInitialize: a second listener on the port throws out of main.
Listens(p) ==
  /\ pc[p] = "listen"
  /\ \/ /\ listener = None
        /\ At(p, "serve") /\ listener' = p
        /\ UNCHANGED pending
     \/ listener # None /\ exit(p)
  /\ UNCHANGED <<prog, pid, nid, child_pid, forked, pidfile, result>>

Crash(p) ==
  /\ Crashes /\ pc[p] = "serve"
  /\ exit(p)
  /\ UNCHANGED <<prog, pid, nid, child_pid, forked, pidfile, result>>

-----------------------------------------------------------------------------
(* SIGUSR1 *)

\* Fault: the worker, which has inherited mask, unlinks the pidfile as well.
SignalDaemonKill_WorkerUnlinks(p) ==
  /\ p \in pending /\ pc[p] # "kill"
  /\ \/ child_pid[p] \in {0, -1} /\ exit(p)
     \/ child_pid[p] > 0 /\ At(p, "kill") /\ UNCHANGED <<pending, listener>>
  /\ pidfile' = None
  /\ UNCHANGED <<prog, pid, nid, child_pid, forked, result>>

\* The process counts as worker, single or master by its child_pid.
SignalDaemonKill(p) ==
  /\ p \in pending /\ pc[p] # "kill"
  /\ \/ /\ child_pid[p] \in {0, -1}
        /\ exit(p)
        /\ UNCHANGED pidfile
     \/ /\ child_pid[p] > 0
        /\ At(p, "kill")
        /\ pidfile' = None
        /\ UNCHANGED <<pending, listener>>
  /\ UNCHANGED <<prog, pid, nid, child_pid, forked, result>>

\* Fault: the master does not pass the signal on.
SignalDaemonKill_kill_Alone(p) ==
  /\ p \in pending /\ pc[p] = "kill"
  /\ exit(p)
  /\ UNCHANGED <<prog, pid, nid, child_pid, forked, pidfile, result>>

\* ... kill(child_pid, SIGUSR1) and exit(0).
SignalDaemonKill_kill(p) ==
  /\ p \in pending /\ pc[p] = "kill"
  /\ At(p, "dead")
  /\ pending' = (IF Alive(child_pid[p]) THEN pending \cup {child_pid[p]}
                 ELSE pending) \ {p}
  /\ UNCHANGED <<prog, pid, nid, child_pid, forked, pidfile, listener, result>>

-----------------------------------------------------------------------------
(* svnsrv -s stop *)

\* waitpid returns at once: the daemon is not a child of this process.  Another
\* program that has the number is signalled, if the operator may do so.
DaemonStop(p) ==
  /\ prog[p] = "stop"
  /\ \/ /\ pc[p] = "probe" /\ Running(pid[p]) = 0
        /\ Reports(p, "fail")
     \/ /\ pc[p] = "probe" /\ Running(pid[p]) # 0
        /\ At(p, "kill_daemon")
        /\ UNCHANGED <<pending, listener, result>>
     \/ /\ pc[p] = "kill_daemon"
        /\ At(p, "dead") /\ kill(pid[p])
        /\ \/ /\ Alive(pid[p]) \/ pid[p] \in reused
              /\ result' = [result EXCEPT ![p] = "ok"]
           \/ /\ ~Alive(pid[p])
              /\ result' = [result EXCEPT ![p] = "fail"]
        /\ UNCHANGED listener
  /\ UNCHANGED <<prog, pid, nid, child_pid, forked, pidfile>>

-----------------------------------------------------------------------------
(* svnsrv -s restart *)

\* /proc has a command line of number n; an empty one, that of a zombie, will do,
\* and so will one whose program cannot be read.
ParsePathAndArgv(n) == Alive(n) \/ n \in reused

\* No daemon, or none that /proc knows: nothing is done.
DaemonRestart_refuses(p) ==
  /\ prog[p] = "restart"
  /\ \/ pc[p] = "probe" /\ Running(pid[p]) = 0
     \/ pc[p] = "ParsePathAndArgv" /\ ~ParsePathAndArgv(pid[p])
  /\ Reports(p, "fail")
  /\ UNCHANGED <<prog, pid, nid, child_pid, forked, pidfile>>

\* A command line that is not svnsrv's is executed as well: the program that has
\* the number is signalled, started again and waited for, and nothing of svnsrv's
\* has changed when this has ended.
DaemonRestart_kill(p) ==
  /\ prog[p] = "restart"
  /\ \/ /\ pc[p] = "probe" /\ Running(pid[p]) # 0
        /\ At(p, "ParsePathAndArgv") /\ UNCHANGED pending
     \/ /\ pc[p] = "ParsePathAndArgv" /\ ParsePathAndArgv(pid[p])
        /\ At(p, IF Alive(pid[p]) THEN "kill_daemon" ELSE "recheck")
        /\ UNCHANGED pending
     \/ /\ pc[p] = "kill_daemon"
        /\ At(p, "fork") /\ kill(pid[p])
  /\ UNCHANGED <<prog, pid, nid, child_pid, forked, pidfile, listener, result>>

\* The child executes the daemon's own command line, svnsrv -D; the parent
\* waits for it, and the child exits as soon as it has forked the daemon.
DaemonRestart_fork(p) ==
  /\ pc[p] = "fork"
  /\ \/ fork(p, "await", "check", "daemon")
     \/ FreePids = {} /\ At(p, "recheck") /\ UNCHANGED <<prog, child_pid, forked>>
  /\ UNCHANGED <<pid, nid, pending, pidfile, listener, result>>

DaemonRestart_waitpid(p) ==
  /\ pc[p] = "await" /\ ~Alive(forked[p])
  /\ At(p, "recheck")
  /\ UNCHANGED <<prog, pid, nid, child_pid, forked, pending, pidfile, listener,
                 result>>

DaemonRestart_reports(p) ==
  /\ pc[p] = "reprobe"
  /\ Reports(p, IF Running(nid[p]) # 0 THEN "ok" ELSE "fail")
  /\ UNCHANGED <<prog, pid, nid, child_pid, forked, pidfile>>

-----------------------------------------------------------------------------
(* The rest of the machine *)

\* The numbers that something of svnsrv's may still take for a daemon's.
Remembered ==
  {pidfile} \cup UNION {{pid[p], nid[p]} : p \in {q \in Pids : Alive(q)}}

\* A process that has ended keeps its number as a zombie, or another program gets
\* it; in the end nobody has it again.  Bound: one number at a time.
OtherProgram ==
  /\ Reuse
  /\ \/ \E n \in Remembered \cap Pids :
          reused = {} /\ pc[n] = "dead" /\ reused' = {n}
     \/ reused # {} /\ reused' = {}
  /\ UNCHANGED <<crashRestart, pc, prog, pid, nid, child_pid, forked, pending, pidfile,
                 listener, result>>

-----------------------------------------------------------------------------
(* The operator *)

\* The processes of a command that has not returned to the operator's shell.
Running_commands ==
  {p \in Pids : pc[p] \in {"check", "probe", "kill_daemon", "ParsePathAndArgv",
                           "fork", "await", "recheck", "reprobe"}}

\* A hasty operator starts commands at any time, an orderly one when the last
\* one has returned, a patient one when in addition nothing is under way.
MayRun ==
  /\ Operator = "orderly" => Running_commands = {}
  /\ Operator = "patient" =>
       pending = {} /\ \A p \in Pids : Alive(p) => pc[p] \in {"waitpid", "serve"}

main(g) ==
  LET p == NextPid IN
  /\ FreePids # {} /\ MayRun
  /\ At(p, "check")
  /\ prog' = [prog EXCEPT ![p] = g]
  /\ UNCHANGED <<pid, nid, child_pid, forked, pending, pidfile, listener, result>>

Init ==
  /\ crashRestart \in Modes
  /\ pc = [p \in Pids |-> "free"]
  /\ prog = [p \in Pids |-> "none"]
  /\ pid = [p \in Pids |-> 0]
  /\ nid = [p \in Pids |-> 0]
  /\ child_pid = [p \in Pids |-> 0]
  /\ forked = [p \in Pids |-> 0]
  /\ pending = {}
  /\ pidfile = None
  /\ listener = None
  /\ result = [p \in Pids |-> "none"]
  /\ reused = {}

\* Process p executes its next statement, or its signal handler.
Step(p) ==
  \/ check_pid(p)
  \/ Daemonize(p)
  \/ Detaches(p)
  \/ write_pid(p)
  \/ DaemonWait_single(p)
  \/ DaemonWait_fork(p)
  \/ DaemonWait_assign(p)
  \/ DaemonWait_waitpid(p)
  \/ DaemonWait_reset(p)
  \/ Listens(p)
  \/ SignalDaemonKill(p)
  \/ SignalDaemonKill_kill(p)
  \/ DaemonStop(p)
  \/ DaemonRestart_refuses(p)
  \/ DaemonRestart_kill(p)
  \/ DaemonRestart_fork(p)
  \/ DaemonRestart_waitpid(p)
  \/ DaemonRestart_reports(p)

Next ==
  \/ /\ \/ \E p \in Pids : Step(p) \/ Crash(p)
        \/ \E g \in Commands : main(g)
     /\ UNCHANGED <<crashRestart, reused>>
  \/ OtherProgram

Spec == Init /\ [][Next]_vars

\* The scheduler runs every process that can run and delivers its signals; the
\* operator, the crashes and other programs are free to happen or not.
Handles(p) == SignalDaemonKill(p) \/ SignalDaemonKill_kill(p)

FairSpec ==
  /\ Spec
  /\ \A p \in Pids : WF_vars(Step(p) /\ UNCHANGED <<crashRestart, reused>>)
  /\ \A p \in Pids : WF_vars(Handles(p) /\ UNCHANGED <<crashRestart, reused>>)

-----------------------------------------------------------------------------
(* Properties *)

PCs == {"free", "dead", "check", "probe", "recheck", "reprobe", "setsid",
        "write_pid", "fclose", "DaemonWait", "assign", "waitpid", "reset",
        "listen", "serve", "kill", "kill_daemon", "ParsePathAndArgv", "fork",
        "await"}

\* Every variable has the type of the C++ variable or kernel object.
TypeOK ==
  /\ crashRestart \in Modes
  /\ pc \in [Pids -> PCs]
  /\ prog \in [Pids -> Programs \cup {"none", "worker"}]
  /\ pid \in [Pids -> Pids \cup {None, Empty}]
  /\ nid \in [Pids -> Pids \cup {None, Empty}]
  /\ child_pid \in [Pids -> Pids \cup {0, -1}]
  /\ forked \in [Pids -> Pids \cup {0}]
  /\ pending \subseteq {p \in Pids : Alive(p)}
  /\ pidfile \in Pids \cup {None, Empty}
  /\ listener \in {p \in Pids : pc[p] = "serve"} \cup {None}
  /\ result \in [Pids -> {"none", "ok", "fail"}]
  /\ reused \subseteq {p \in Pids : pc[p] = "dead"}

\* The daemons that have written their pidfile and are not on their way out.
Daemons ==
  {p \in Pids : /\ prog[p] = "daemon"
                /\ pc[p] \in {"DaemonWait", "assign", "waitpid", "reset",
                              "listen", "serve"}}

\* Every daemon at work can be found, and so stopped: the pidfile holds its
\* number.  In particular there is one daemon at most.
DaemonOnRecord == \A d \in Daemons : pidfile = d

\* A pidfile is unlinked by the process it names only, never by a predecessor
\* that is still on its way out when its successor has written it.
UnlinksOwnPidfile ==
  [][pidfile # None /\ pidfile' = None =>
       pidfile \in Pids /\ pc'[pidfile] # pc[pidfile]]_vars

\* svnsrv -D is refused only while a daemon lives, be it on its way out, or while
\* the number it has read from the pidfile is another program's.  A stale pidfile,
\* which a single process leaves behind whenever it ends and a master whenever it
\* is stopped without a worker, keeps svnsrv down only as long as its number is in
\* use, and commands, crashes and other numbers in use do not keep it down.
RefusedOnlyWhenRunning ==
  [][\A p \in Pids :
       prog[p] = "daemon" /\ result[p] = "none" /\ result'[p] = "fail" =>
         \/ FreePids = {}
         \/ pid[p] \in reused
         \/ \E d \in Pids \ Running_commands : prog[d] = "daemon" /\ Alive(d)]_vars

\* A worker that serves has a master that lives, or has been told to stop;
\* unless its master died without knowing it, its child_pid being 0.
WorkerAttended ==
  \A w \in Pids :
    prog[w] = "worker" /\ pc[w] = "serve" =>
      \E d \in Pids :
        forked[d] = w /\ (Alive(d) \/ w \in pending \/ child_pid[d] = 0)

\* A worker that dies is replaced: somebody listens on the port again, unless
\* the master has been stopped or no process can be forked.
CrashRepaired ==
  \A d \in Pids :
    (pc[d] = "waitpid" /\ ~Alive(child_pid[d])) ~>
      (listener # None \/ ~Alive(d) \/ FreePids = {})

\* svnsrv -s stop stops the daemon it has signalled, and the worker that daemon
\* knows when the signal arrives.
StopTakesEffect ==
  \A s, d \in Pids :
    (prog[s] = "stop" /\ result[s] = "ok" /\ pid[s] = d) ~>
      (~Alive(d) /\ (child_pid[d] > 0 => ~Alive(child_pid[d])))

\* What the comments on child_pid and SignalDaemonKill promise: the worker of a
\* master that is stopped is stopped with it.
StopTakesWorkerDown ==
  \A s, d \in Pids :
    (prog[s] = "stop" /\ result[s] = "ok" /\ pid[s] = d) ~>
      (~Alive(d) /\ (forked[d] # 0 => ~Alive(forked[d])))

\* svnsrv -s restart reports success only of a new daemon.
RestartReportsNewDaemon ==
  \A p \in Pids : prog[p] = "restart" /\ result[p] = "ok" => nid[p] # pid[p]
=============================================================================
