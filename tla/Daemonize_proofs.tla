-------------------------- MODULE Daemonize_proofs --------------------------
(***************************************************************************)
(* The daemon and its commands, for any number of processes.  What holds   *)
(* for every operator, however hasty, comes first; that there is one       *)
(* daemon and that it is on record needs a patient one.                    *)
(***************************************************************************)
EXTENDS Daemonize, TLAPS, WellFoundedInduction

\* The statements of a daemon that has written its pidfile, and of a worker.
Working == {"DaemonWait", "assign", "waitpid", "reset", "listen", "serve", "kill"}

\* Which program comes to which statement.
Fits(p) ==
  /\ prog[p] = "none" <=> pc[p] = "free"
  /\ pc[p] \in {"setsid", "write_pid", "fclose", "DaemonWait", "assign", "waitpid",
                "reset", "kill"} => prog[p] = "daemon"
  /\ pc[p] \in {"listen", "serve"} => prog[p] \in {"daemon", "worker"}
  /\ pc[p] \in {"check", "probe"} => prog[p] \in Programs
  /\ pc[p] = "kill_daemon" => prog[p] \in {"stop", "restart"}
  /\ pc[p] \in {"ParsePathAndArgv", "fork", "await", "recheck", "reprobe"} =>
       prog[p] = "restart"

\* What child_pid says of a process: nothing before it has waited for a worker.
Children(p) ==
  /\ pc[p] \in {"waitpid", "reset", "kill"} =>
       child_pid[p] = forked[p]
  /\ pc[p] \in {"assign", "waitpid", "reset", "kill"} =>
       forked[p] \in Pids /\ prog[forked[p]] = "worker"
  /\ pc[p] \notin {"waitpid", "reset", "kill", "dead"} =>
       child_pid[p] = 0 \/ (child_pid[p] = -1 /\ pc[p] \in {"listen", "serve"})

\* A number that has been in the pidfile is that of a daemon, which has not gone
\* back to starting.
Recorded(n) == n \in Pids => prog[n] = "daemon" /\ pc[n] \in Working \cup {"dead"}

Records == Recorded(pidfile) /\ \A p \in Pids : Recorded(pid[p]) /\ Recorded(nid[p])

\* Only a process that is recorded, or its worker, is ever signalled.
Signalled == pending \subseteq Pids /\ \A p \in pending : pc[p] \in Working

\* A command has found a process before it signals it.
Aims == \A p \in Pids : pc[p] \in {"ParsePathAndArgv", "kill_daemon"} => pid[p] \in Pids

ProcessTypes ==
  /\ pc \in [Pids -> PCs]
  /\ prog \in [Pids -> Programs \cup {"none", "worker"}]
  /\ child_pid \in [Pids -> Pids \cup {0, -1}]
  /\ forked \in [Pids -> Pids \cup {0}]
  /\ result \in [Pids -> {"none", "ok", "fail"}]

NumberTypes ==
  /\ pid \in [Pids -> Pids \cup {None, Empty}]
  /\ nid \in [Pids -> Pids \cup {None, Empty}]
  /\ pidfile \in Pids \cup {None, Empty}

Listening == listener \in {p \in Pids : pc[p] = "serve"} \cup {None}

\* Another program has at most the numbers of processes that have ended.
Ended == reused \subseteq {p \in Pids : pc[p] = "dead"}

Shape ==
  /\ ProcessTypes /\ NumberTypes /\ Listening /\ crashRestart \in Modes
  /\ \A p \in Pids : Fits(p) /\ Children(p)
  /\ Records /\ Signalled /\ Aims /\ Ended

-----------------------------------------------------------------------------
(* Forks *)

Less == {s \in Nat \X Nat : s[1] < s[2]}

LEMMA LessWellFounded == IsWellFoundedOn(Less, Nat)
<1>1. Less = OpToRel(<, Nat)
  BY DEF Less, OpToRel
<1> QED BY <1>1, NatLessThanWellFounded

LEMMA NextPidFree ==
  ASSUME FreePids # {}
  PROVE  NextPid \in FreePids
<1>1. FreePids \subseteq Nat
  BY DaemonAssumption DEF FreePids, Pids
<1>2. PICK p \in FreePids : \A q \in FreePids : <<q, p>> \notin Less
  BY <1>1, LessWellFounded, WFMin
<1>3. \A q, r \in Nat : q < r => <<q, r>> \in Less
  BY DEF Less
<1>4. ASSUME NEW q \in FreePids PROVE p <= q
  <2>1. p \in Nat /\ q \in Nat
    BY <1>1
  <2>2. ~(q < p)
    BY <1>2, <1>3, <2>1
  <2> QED BY <2>1, <2>2
<1> QED BY <1>4 DEF NextPid

\* Process p forks a new process q.
Spawns(p, q) ==
  /\ q # p /\ pc[q] = "free"
  /\ \/ /\ pc[p] = "probe" /\ prog[p] = "daemon" /\ Running(pid[p]) = 0
        /\ pc' = [pc EXCEPT ![p] = "dead", ![q] = "setsid"]
        /\ prog' = [prog EXCEPT ![q] = "daemon"]
        /\ pending' = pending \ {p}
        /\ result' = [result EXCEPT ![p] = "ok"]
     \/ /\ pc[p] = "DaemonWait"
        /\ pc' = [pc EXCEPT ![p] = "assign", ![q] = "listen"]
        /\ prog' = [prog EXCEPT ![q] = "worker"]
        /\ UNCHANGED <<pending, result>>
     \/ /\ pc[p] = "fork"
        /\ pc' = [pc EXCEPT ![p] = "await", ![q] = "check"]
        /\ prog' = [prog EXCEPT ![q] = "daemon"]
        /\ UNCHANGED <<pending, result>>
  /\ forked' = [forked EXCEPT ![p] = q]
  /\ child_pid' = [child_pid EXCEPT ![q] = 0]
  /\ UNCHANGED <<pid, nid, pidfile, listener>>

\* Process p takes a step of a command, or of the beginning of a daemon.
CommandSteps(p) ==
  /\ \/ check_pid(p) \/ Detaches(p) \/ write_pid(p) \/ DaemonStop(p)
     \/ Daemonize(p) /\ Reports(p, "fail")
     \/ DaemonRestart_refuses(p) \/ DaemonRestart_kill(p) \/ DaemonRestart_waitpid(p)
     \/ DaemonRestart_fork(p) /\ At(p, "recheck") /\ UNCHANGED child_pid
     \/ DaemonRestart_reports(p)
  /\ UNCHANGED <<prog, forked>>

\* Process p takes a step of a daemon at work, the handler of SIGUSR1 aside.
DaemonSteps(p) ==
  /\ \/ DaemonWait_single(p) \/ DaemonWait_assign(p) \/ DaemonWait_waitpid(p)
     \/ DaemonWait_reset(p) \/ Listens(p) \/ SignalDaemonKill_kill(p) \/ Crash(p)
     \/ DaemonWait_fork(p) /\ exit(p) /\ UNCHANGED child_pid
  /\ UNCHANGED <<prog, forked>>

LEMMA StepKinds ==
  ASSUME NEW p \in Pids, Step(p) \/ Crash(p)
  PROVE  \/ CommandSteps(p) \/ DaemonSteps(p) \/ SignalDaemonKill(p)
         \/ \E q \in Pids : Spawns(p, q)
<1>1. ASSUME NEW s, NEW t, NEW g, fork(p, s, t, g), Alive(p)
      PROVE  \E q \in Pids \ {p} :
               /\ pc[q] = "free"
               /\ pc' = [pc EXCEPT ![p] = s, ![q] = t]
               /\ forked' = [forked EXCEPT ![p] = q]
               /\ prog' = [prog EXCEPT ![q] = g]
               /\ child_pid' = [child_pid EXCEPT ![q] = 0]
  <2>1. NextPid \in Pids /\ pc[NextPid] = "free"
    BY <1>1, NextPidFree DEF fork, FreePids
  <2>2. NextPid # p
    BY <1>1, <2>1 DEF Alive
  <2> QED BY <1>1, <2>1, <2>2 DEF fork
<1>2. CASE Daemonize(p)
  <2>1. CASE /\ fork(p, "dead", "setsid", "daemon")
             /\ Running(pid[p]) = 0 /\ pending' = pending \ {p} /\ UNCHANGED listener
             /\ result' = [result EXCEPT ![p] = "ok"]
    BY <1>1, <1>2, <2>1 DEF Daemonize, Alive, Spawns
  <2>2. CASE Reports(p, "fail") /\ UNCHANGED <<prog, child_pid, forked>>
    BY <1>2, <2>2 DEF CommandSteps
  <2> QED BY <1>2, <2>1, <2>2 DEF Daemonize
<1>3. CASE DaemonWait_fork(p)
  <2>1. CASE fork(p, "assign", "listen", "worker") /\ UNCHANGED <<pending, listener>>
    BY <1>1, <1>3, <2>1 DEF DaemonWait_fork, Alive, Spawns
  <2>2. CASE exit(p) /\ UNCHANGED <<prog, child_pid, forked>>
    BY <1>3, <2>2 DEF DaemonSteps
  <2> QED BY <1>3, <2>1, <2>2 DEF DaemonWait_fork
<1>4. CASE DaemonRestart_fork(p)
  <2>1. CASE fork(p, "await", "check", "daemon")
    BY <1>1, <1>4, <2>1 DEF DaemonRestart_fork, Alive, Spawns
  <2>2. CASE At(p, "recheck") /\ UNCHANGED <<prog, child_pid, forked>>
    BY <1>4, <2>2 DEF CommandSteps
  <2> QED BY <1>4, <2>1, <2>2 DEF DaemonRestart_fork
<1>5. CASE \/ check_pid(p) \/ Detaches(p) \/ write_pid(p) \/ DaemonStop(p)
           \/ DaemonRestart_refuses(p) \/ DaemonRestart_kill(p)
           \/ DaemonRestart_waitpid(p) \/ DaemonRestart_reports(p)
  BY <1>5 DEF CommandSteps, check_pid, Detaches, write_pid, DaemonStop,
       DaemonRestart_refuses, DaemonRestart_kill, DaemonRestart_waitpid,
       DaemonRestart_reports
<1>6. CASE \/ DaemonWait_single(p) \/ DaemonWait_assign(p) \/ DaemonWait_waitpid(p)
           \/ DaemonWait_reset(p) \/ Listens(p) \/ SignalDaemonKill_kill(p) \/ Crash(p)
  BY <1>6 DEF DaemonSteps, DaemonWait_single, DaemonWait_assign, DaemonWait_waitpid,
       DaemonWait_reset, Listens, SignalDaemonKill_kill, Crash
<1> QED BY <1>2, <1>3, <1>4, <1>5, <1>6 DEF Step

\* What the handler does: the pidfile goes when it is a master that waits.
LEMMA HandlerCases ==
  ASSUME Shape, NEW p \in Pids, SignalDaemonKill(p)
  PROVE  /\ UNCHANGED <<prog, pid, nid, child_pid, forked, result>>
         /\ \/ /\ pc[p] \in {"DaemonWait", "assign", "listen", "serve"}
               /\ child_pid[p] \in {0, -1} /\ exit(p) /\ UNCHANGED pidfile
            \/ /\ pc[p] \in {"waitpid", "reset"}
               /\ At(p, "kill") /\ pidfile' = None /\ UNCHANGED <<pending, listener>>
<1>1. /\ pc[p] \in {"DaemonWait", "assign", "waitpid", "reset", "listen", "serve"}
      /\ Children(p)
  BY DEF SignalDaemonKill, Working, Shape, Signalled
<1>2. forked[p] \in Pids => forked[p] > 0
  BY DaemonAssumption DEF Pids
<1> QED BY <1>1, <1>2 DEF SignalDaemonKill, Children

-----------------------------------------------------------------------------
(* What every step preserves *)

LEMMA FitsStep ==
  ASSUME Shape, NEW p \in Pids, Step(p) \/ Crash(p)
  PROVE  \A u \in Pids : Fits(u)'
<1> USE DEF Shape, At
<1>1. CASE CommandSteps(p)
  BY <1>1, SMTT(30) DEF CommandSteps, check_pid, Detaches, write_pid, DaemonStop,
       Daemonize, Reports, exit, kill, DaemonRestart_refuses, DaemonRestart_kill,
       DaemonRestart_waitpid, DaemonRestart_fork, DaemonRestart_reports, Fits,
       Programs, ProcessTypes, PCs
<1>2. CASE DaemonSteps(p)
  BY <1>2, SMTT(30) DEF DaemonSteps, DaemonWait_single, DaemonWait_assign,
       DaemonWait_waitpid, DaemonWait_reset, Listens, SignalDaemonKill_kill, Crash,
       DaemonWait_fork, exit, Fits, Programs, ProcessTypes, PCs
<1>3. CASE SignalDaemonKill(p)
  BY <1>3, HandlerCases, SMTT(30) DEF exit, Fits, Programs, ProcessTypes, PCs
<1>4. ASSUME NEW q \in Pids, Spawns(p, q) PROVE \A u \in Pids : Fits(u)'
  BY <1>4, SMTT(30) DEF Spawns, Fits, Programs, ProcessTypes, PCs
<1> QED BY <1>1, <1>2, <1>3, <1>4, StepKinds

LEMMA ChildrenStep ==
  ASSUME Shape, NEW p \in Pids, Step(p) \/ Crash(p)
  PROVE  \A u \in Pids : Children(u)'
<1> USE DEF Shape, At
<1>1. CASE CommandSteps(p)
  BY <1>1, SMTT(30) DEF CommandSteps, check_pid, Detaches, write_pid, DaemonStop,
       Daemonize, Reports, exit, kill, DaemonRestart_refuses, DaemonRestart_kill,
       DaemonRestart_waitpid, DaemonRestart_fork, DaemonRestart_reports, Children,
       Fits, ProcessTypes, PCs
<1>2. CASE DaemonSteps(p)
  BY <1>2, SMTT(30) DEF DaemonSteps, DaemonWait_single, DaemonWait_assign,
       DaemonWait_waitpid, DaemonWait_reset, Listens, SignalDaemonKill_kill, Crash,
       DaemonWait_fork, exit, Children, Fits, ProcessTypes, PCs
<1>3. CASE SignalDaemonKill(p)
  BY <1>3, HandlerCases, SMTT(30) DEF exit, Children, Fits, ProcessTypes, PCs
<1>4. ASSUME NEW q \in Pids, Spawns(p, q) PROVE \A u \in Pids : Children(u)'
  BY <1>4, SMTT(30) DEF Spawns, Children, Fits, ProcessTypes, PCs
<1> QED BY <1>1, <1>2, <1>3, <1>4, StepKinds

LEMMA RecordedStays ==
  ASSUME Shape, NEW p \in Pids, Step(p) \/ Crash(p)
  PROVE  \A n : Recorded(n) => Recorded(n)'
<1> USE DEF Shape, At
<1>1. CASE CommandSteps(p)
  BY <1>1, SMTT(30) DEF CommandSteps, check_pid, Detaches, write_pid, DaemonStop,
       Daemonize, Reports, exit, kill, DaemonRestart_refuses, DaemonRestart_kill,
       DaemonRestart_waitpid, DaemonRestart_fork, DaemonRestart_reports, Recorded,
       Fits, Working, ProcessTypes, PCs
<1>2. CASE DaemonSteps(p)
  BY <1>2, SMTT(30) DEF DaemonSteps, DaemonWait_single, DaemonWait_assign,
       DaemonWait_waitpid, DaemonWait_reset, Listens, SignalDaemonKill_kill, Crash,
       DaemonWait_fork, exit, Recorded, Fits, Working, ProcessTypes, PCs
<1>3. CASE SignalDaemonKill(p)
  BY <1>3, HandlerCases, SMTT(30) DEF exit, Recorded, Fits, Working, ProcessTypes, PCs
<1>4. ASSUME NEW q \in Pids, Spawns(p, q) PROVE \A n : Recorded(n) => Recorded(n)'
  BY <1>4, SMTT(30) DEF Spawns, Recorded, Fits, Working, ProcessTypes, PCs
<1> QED BY <1>1, <1>2, <1>3, <1>4, StepKinds

LEMMA ProcessTypesStep ==
  ASSUME Shape, NEW p \in Pids, Step(p) \/ Crash(p)
  PROVE  ProcessTypes'
<1> USE DEF Shape, At
<1>1. CASE CommandSteps(p)
  BY <1>1, SMTT(30) DEF CommandSteps, check_pid, Detaches, write_pid, DaemonStop,
       Daemonize, Reports, exit, kill, DaemonRestart_refuses, DaemonRestart_kill,
       DaemonRestart_waitpid, DaemonRestart_fork, DaemonRestart_reports, Programs,
       ProcessTypes, PCs
<1>2. CASE DaemonSteps(p)
  BY <1>2, SMTT(30) DEF DaemonSteps, DaemonWait_single, DaemonWait_assign,
       DaemonWait_waitpid, DaemonWait_reset, Listens, SignalDaemonKill_kill, Crash,
       DaemonWait_fork, exit, Programs, ProcessTypes, PCs
<1>3. CASE SignalDaemonKill(p)
  BY <1>3, HandlerCases, SMTT(30) DEF exit, Programs, ProcessTypes, PCs
<1>4. ASSUME NEW q \in Pids, Spawns(p, q) PROVE ProcessTypes'
  BY <1>4, SMTT(30) DEF Spawns, Programs, ProcessTypes, PCs
<1> QED BY <1>1, <1>2, <1>3, <1>4, StepKinds

LEMMA NumberTypesStep ==
  ASSUME Shape, NEW p \in Pids, Step(p) \/ Crash(p)
  PROVE  NumberTypes'
<1> USE DEF Shape, At
<1>1. CASE CommandSteps(p)
  BY <1>1, SMTT(30) DEF CommandSteps, check_pid, Detaches, write_pid, DaemonStop,
       Daemonize, Reports, exit, kill, DaemonRestart_refuses, DaemonRestart_kill,
       DaemonRestart_waitpid, DaemonRestart_fork, DaemonRestart_reports, None,
       NumberTypes
<1>2. CASE DaemonSteps(p)
  BY <1>2, SMTT(30) DEF DaemonSteps, DaemonWait_single, DaemonWait_assign,
       DaemonWait_waitpid, DaemonWait_reset, Listens, SignalDaemonKill_kill, Crash,
       DaemonWait_fork, exit, None, NumberTypes
<1>3. CASE SignalDaemonKill(p)
  BY <1>3, HandlerCases, SMTT(30) DEF exit, None, NumberTypes
<1>4. ASSUME NEW q \in Pids, Spawns(p, q) PROVE NumberTypes'
  BY <1>4, SMTT(30) DEF Spawns, None, NumberTypes
<1> QED BY <1>1, <1>2, <1>3, <1>4, StepKinds

LEMMA SignalledStep ==
  ASSUME Shape, NEW p \in Pids, Step(p) \/ Crash(p)
  PROVE  Signalled'
<1> USE DEF Shape, At
<1>1. CASE CommandSteps(p)
  BY <1>1, SMTT(30) DEF CommandSteps, check_pid, Detaches, write_pid, DaemonStop,
       Daemonize, Reports, exit, kill, DaemonRestart_refuses, DaemonRestart_kill,
       DaemonRestart_waitpid, DaemonRestart_fork, DaemonRestart_reports, Signalled,
       Working, Fits, Children, Records, Recorded, Alive, ProcessTypes, PCs, Aims
<1>2. CASE DaemonSteps(p)
  <2>1. CASE SignalDaemonKill_kill(p)
    <3>1. forked[p] \in Pids /\ child_pid[p] = forked[p] /\ prog[forked[p]] = "worker"
      BY <2>1 DEF SignalDaemonKill_kill, Children
    <3>2. Alive(child_pid[p]) =>
            pc[child_pid[p]] \in {"listen", "serve"} /\ child_pid[p] # p
      BY <2>1, <3>1 DEF SignalDaemonKill_kill, Alive, Fits, ProcessTypes, PCs, Programs
    <3> QED BY <2>1, <3>1, <3>2 DEF SignalDaemonKill_kill, Signalled, Working,
                 ProcessTypes
  <2>2. CASE ~SignalDaemonKill_kill(p)
    BY <1>2, <2>2, SMTT(30) DEF DaemonSteps, DaemonWait_single, DaemonWait_assign,
       DaemonWait_waitpid, DaemonWait_reset, Listens, Crash, DaemonWait_fork, exit,
       Signalled, Working, Fits, Children, Records, Recorded, Alive, ProcessTypes,
       PCs, Aims
  <2> QED BY <2>1, <2>2
<1>3. CASE SignalDaemonKill(p)
  BY <1>3, HandlerCases, SMTT(30) DEF exit, Signalled, Working, Fits, Children,
       Records, Recorded, Alive, ProcessTypes, PCs, Aims
<1>4. ASSUME NEW q \in Pids, Spawns(p, q) PROVE Signalled'
  BY <1>4, SMTT(30) DEF Spawns, Signalled, Working, Fits, Children, Records, Recorded,
       Alive, ProcessTypes, PCs, Aims
<1> QED BY <1>1, <1>2, <1>3, <1>4, StepKinds

LEMMA ListeningStep ==
  ASSUME Shape, NEW p \in Pids, Step(p) \/ Crash(p)
  PROVE  Listening'
<1> USE DEF Shape, At
<1>1. CASE CommandSteps(p)
  BY <1>1, SMTT(30) DEF CommandSteps, check_pid, Detaches, write_pid, DaemonStop,
       Daemonize, Reports, exit, kill, DaemonRestart_refuses, DaemonRestart_kill,
       DaemonRestart_waitpid, DaemonRestart_fork, DaemonRestart_reports, Listening,
       Fits, Children, None, ProcessTypes, PCs
<1>2. CASE DaemonSteps(p)
  BY <1>2, SMTT(30) DEF DaemonSteps, DaemonWait_single, DaemonWait_assign,
       DaemonWait_waitpid, DaemonWait_reset, Listens, SignalDaemonKill_kill, Crash,
       DaemonWait_fork, exit, Listening, Fits, Children, None, ProcessTypes, PCs
<1>3. CASE SignalDaemonKill(p)
  BY <1>3, HandlerCases, SMTT(30) DEF exit, Listening, Fits, Children, None,
       ProcessTypes, PCs
<1>4. ASSUME NEW q \in Pids, Spawns(p, q) PROVE Listening'
  BY <1>4, SMTT(30) DEF Spawns, Listening, Fits, Children, None, ProcessTypes, PCs
<1> QED BY <1>1, <1>2, <1>3, <1>4, StepKinds

LEMMA AimsStep ==
  ASSUME Shape, NEW p \in Pids, Step(p) \/ Crash(p)
  PROVE  Aims'
<1> USE DEF Shape, At
<1>1. CASE CommandSteps(p)
  BY <1>1, SMTT(30) DEF CommandSteps, check_pid, Detaches, write_pid, DaemonStop,
       Daemonize, Reports, exit, kill, DaemonRestart_refuses, DaemonRestart_kill,
       DaemonRestart_waitpid, DaemonRestart_fork, DaemonRestart_reports, Aims,
       Running, ProcessTypes, NumberTypes, PCs
<1>2. CASE DaemonSteps(p)
  BY <1>2, SMTT(30) DEF DaemonSteps, DaemonWait_single, DaemonWait_assign,
       DaemonWait_waitpid, DaemonWait_reset, Listens, SignalDaemonKill_kill, Crash,
       DaemonWait_fork, exit, Aims, Running, ProcessTypes, NumberTypes, PCs
<1>3. CASE SignalDaemonKill(p)
  BY <1>3, HandlerCases, SMTT(30) DEF exit, Aims, Running, ProcessTypes, NumberTypes,
       PCs
<1>4. ASSUME NEW q \in Pids, Spawns(p, q) PROVE Aims'
  BY <1>4, SMTT(30) DEF Spawns, Aims, Running, ProcessTypes, NumberTypes, PCs
<1> QED BY <1>1, <1>2, <1>3, <1>4, StepKinds

LEMMA RecordsStep ==
  ASSUME Shape, NEW p \in Pids, Step(p) \/ Crash(p)
  PROVE  Records'
<1> USE DEF Shape, At
<1>1. \A n : Recorded(n) => Recorded(n)'
  BY RecordedStays
<1>2. UNCHANGED <<pid, nid, pidfile>> => Records'
  BY <1>1 DEF Records, Recorded
<1>3. ASSUME pidfile' = None \/ pidfile' = Empty, UNCHANGED <<pid, nid>> PROVE Records'
  <2>1. pidfile' \notin Pids
    BY <1>3, DaemonAssumption DEF None, Empty, Pids
  <2> QED BY <1>1, <1>3, <2>1 DEF Records, Recorded
<1>4. CASE check_pid(p)
  <2>1. /\ pidfile' = pidfile
        /\ \A u \in Pids : /\ pid'[u] \in {pid[u], pidfile}
                           /\ nid'[u] \in {nid[u], pidfile}
    BY <1>4 DEF check_pid, NumberTypes
  <2> QED BY <1>1, <2>1 DEF Records, Recorded
<1>5. CASE write_pid(p)
  <2>1. CASE pc[p] = "fclose"
    <3>1. /\ prog'[p] = "daemon" /\ pc'[p] = "DaemonWait" /\ pidfile' = p
          /\ UNCHANGED <<pid, nid>>
      BY <1>5, <2>1 DEF write_pid, Fits, ProcessTypes
    <3>2. Recorded(pidfile)'
      BY <3>1 DEF Recorded, Working
    <3> QED BY <1>1, <3>1, <3>2 DEF Records, Recorded
  <2>2. CASE pc[p] # "fclose"
    BY <1>2, <1>3, <1>5, <2>2 DEF write_pid
  <2> QED BY <2>1, <2>2
<1>6. CASE SignalDaemonKill(p)
  BY <1>2, <1>3, <1>6 DEF SignalDaemonKill
<1>7. CASE CommandSteps(p) /\ ~check_pid(p) /\ ~write_pid(p)
  BY <1>2, <1>7 DEF CommandSteps, Detaches, DaemonStop, Daemonize, DaemonRestart_refuses,
       DaemonRestart_kill, DaemonRestart_waitpid, DaemonRestart_fork,
       DaemonRestart_reports
<1>8. CASE DaemonSteps(p)
  BY <1>2, <1>8 DEF DaemonSteps, DaemonWait_single, DaemonWait_assign,
       DaemonWait_waitpid, DaemonWait_reset, Listens, SignalDaemonKill_kill, Crash,
       DaemonWait_fork
<1>9. ASSUME NEW q \in Pids, Spawns(p, q) PROVE Records'
  BY <1>2, <1>9 DEF Spawns
<1> QED BY <1>4, <1>5, <1>6, <1>7, <1>8, <1>9, StepKinds

LEMMA EndedStep ==
  ASSUME Shape, NEW p \in Pids, Step(p) \/ Crash(p), UNCHANGED reused
  PROVE  Ended'
<1> USE DEF Shape, At
<1>1. SUFFICES \A u \in Pids : pc[u] = "dead" => pc'[u] = "dead"
  BY DEF Ended
<1>2. CASE CommandSteps(p)
  BY <1>2, SMTT(30) DEF CommandSteps, check_pid, Detaches, write_pid, DaemonStop,
       Daemonize, Reports, exit, kill, DaemonRestart_refuses, DaemonRestart_kill,
       DaemonRestart_waitpid, DaemonRestart_fork, DaemonRestart_reports, ProcessTypes
<1>3. CASE DaemonSteps(p)
  BY <1>3, SMTT(30) DEF DaemonSteps, DaemonWait_single, DaemonWait_assign,
       DaemonWait_waitpid, DaemonWait_reset, Listens, SignalDaemonKill_kill, Crash,
       DaemonWait_fork, exit, ProcessTypes
<1>4. CASE SignalDaemonKill(p)
  BY <1>4, HandlerCases, SMTT(30) DEF exit, ProcessTypes
<1>5. ASSUME NEW q \in Pids, Spawns(p, q)
      PROVE  \A u \in Pids : pc[u] = "dead" => pc'[u] = "dead"
  BY <1>5, SMTT(30) DEF Spawns, ProcessTypes
<1> QED BY <1>2, <1>3, <1>4, <1>5, StepKinds

\* That another program gets a number, or no longer has it, changes nothing else.
LEMMA OtherProgramShape ==
  ASSUME Shape, OtherProgram
  PROVE  Shape'
<1>1. UNCHANGED <<crashRestart, pc, prog, pid, nid, child_pid, forked, pending, pidfile,
                  listener, result>>
  BY DEF OtherProgram
<1>2. Ended'
  BY DEF OtherProgram, Ended
<1> QED BY <1>1, <1>2 DEF Shape, ProcessTypes, NumberTypes, Listening, Fits, Children,
             Records, Recorded, Signalled, Aims

\* The operator starts a new process.
LEMMA MainStarts ==
  ASSUME NEW g \in Commands, main(g)
  PROVE  \E p \in Pids : /\ pc[p] = "free" /\ MayRun
                         /\ pc' = [pc EXCEPT ![p] = "check"]
                         /\ prog' = [prog EXCEPT ![p] = g]
                         /\ UNCHANGED <<pid, nid, child_pid, forked, pending, pidfile,
                                        listener, result>>
BY NextPidFree DEF main, FreePids, At

LEMMA MainShape ==
  ASSUME Shape, NEW g \in Commands, main(g), UNCHANGED <<crashRestart, reused>>
  PROVE  Shape'
<1>1. PICK p \in Pids : /\ pc[p] = "free"
                        /\ pc' = [pc EXCEPT ![p] = "check"]
                        /\ prog' = [prog EXCEPT ![p] = g]
                        /\ UNCHANGED <<pid, nid, child_pid, forked, pending, pidfile,
                                       listener, result>>
  BY MainStarts
<1>2. g \in Programs
  BY DaemonAssumption
<1> USE DEF Shape
<1>3. ProcessTypes' /\ NumberTypes' /\ Listening'
  BY <1>1, <1>2 DEF ProcessTypes, NumberTypes, Listening, PCs
<1>4. \A u \in Pids : Fits(u)' /\ Children(u)'
  BY <1>1, <1>2, SMTT(30) DEF Fits, Children, ProcessTypes, PCs, Programs
<1>5. Records' /\ Signalled' /\ Aims' /\ Ended'
  BY <1>1, SMTT(30) DEF Records, Recorded, Signalled, Aims, Ended, ProcessTypes, Working,
       Fits
<1> QED BY <1>3, <1>4, <1>5

LEMMA ShapeInit == Init => Shape
<1> SUFFICES ASSUME Init PROVE Shape
  OBVIOUS
<1>1. None \notin Pids
  BY DaemonAssumption DEF None, Pids
<1>2. ProcessTypes /\ NumberTypes /\ Listening
  BY DEF Init, ProcessTypes, NumberTypes, Listening, PCs, None
<1>3. \A p \in Pids : Fits(p) /\ Children(p)
  BY DEF Init, Fits, Children
<1>4. Records /\ Signalled /\ Aims /\ Ended
  BY <1>1 DEF Init, Records, Recorded, Signalled, Aims, Ended, None
<1> QED BY <1>2, <1>3, <1>4 DEF Init, Shape

LEMMA ShapeStep == Shape /\ [Next]_vars => Shape'
<1> SUFFICES ASSUME Shape, [Next]_vars PROVE Shape'
  OBVIOUS
<1>1. ASSUME NEW p \in Pids, Step(p) \/ Crash(p), UNCHANGED <<crashRestart, reused>>
      PROVE  Shape'
  <2>1. ProcessTypes' /\ NumberTypes' /\ Listening' /\ crashRestart' \in Modes
    BY <1>1, ProcessTypesStep, NumberTypesStep, ListeningStep DEF Shape
  <2>2. \A u \in Pids : Fits(u)' /\ Children(u)'
    BY <1>1, FitsStep, ChildrenStep
  <2>3. Records' /\ Signalled' /\ Aims' /\ Ended'
    BY <1>1, RecordsStep, SignalledStep, AimsStep, EndedStep
  <2> QED BY <2>1, <2>2, <2>3 DEF Shape
<1>2. CASE UNCHANGED vars
  BY <1>2 DEF vars, Shape, ProcessTypes, NumberTypes, Listening, Fits, Children, Records,
       Recorded, Signalled, Aims, Ended
<1> QED BY <1>1, <1>2, MainShape, OtherProgramShape DEF Next

THEOREM ShapeInvariant == Spec => []Shape
  BY ShapeInit, ShapeStep, PTL DEF Spec

\* The type invariant of the daemon and its commands, for every operator: signals go
\* to processes that live, and the process that listens on the port serves.
THEOREM DaemonTypeCorrect == Spec => []TypeOK
<1>1. Shape => TypeOK
  <2> SUFFICES ASSUME Shape PROVE TypeOK
    OBVIOUS
  <2>1. pending \subseteq {p \in Pids : Alive(p)}
    BY DEF Shape, Signalled, Working, Alive
  <2> QED BY <2>1 DEF Shape, ProcessTypes, NumberTypes, Listening, Ended, TypeOK
<1> QED BY <1>1, ShapeInvariant, PTL

-----------------------------------------------------------------------------
(* A start is refused only while the number in the pidfile is in use *)

LEMMA RefusalStep ==
  ASSUME Shape, [Next]_vars, NEW p \in Pids,
         prog[p] = "daemon", result[p] = "none", result'[p] = "fail"
  PROVE  \/ FreePids = {}
         \/ pid[p] \in reused
         \/ \E d \in Pids \ Running_commands : prog[d] = "daemon" /\ Alive(d)
<1>1. \E u \in Pids : Step(u) \/ Crash(u)
  <2>1. result' # result
    OBVIOUS
  <2> QED BY <2>1 DEF Next, vars, main, OtherProgram
<1>2. PICK u \in Pids : Step(u) \/ Crash(u)
  BY <1>1
<1> USE DEF Shape, ProcessTypes
<1>3. CASE Daemonize(u)
  <2>1. CASE FreePids = {}
    BY <2>1
  <2>2. CASE Running(pid[u]) # 0 /\ pid[u] \in reused
    <3>1. p = u
      BY <1>3, <2>2 DEF Daemonize, Reports
    <3> QED BY <2>2, <3>1
  <2>3. CASE Running(pid[u]) # 0 /\ pid[u] \notin reused
    <3> DEFINE d == pid[u]
    <3>1. d \in Pids /\ Alive(d)
      BY <2>3 DEF Running
    <3>2. prog[d] = "daemon" /\ pc[d] \in Working
      BY <3>1 DEF Records, Recorded, Alive
    <3>3. d \notin Running_commands
      BY <3>2 DEF Running_commands, Working
    <3> QED BY <3>1, <3>2, <3>3
  <2>4. CASE Running(pid[u]) = 0 /\ result' = [result EXCEPT ![u] = "ok"]
    BY <2>4
  <2> QED BY <1>3, <2>1, <2>2, <2>3, <2>4 DEF Daemonize
<1>4. CASE DaemonStop(u) \/ DaemonRestart_refuses(u) \/ DaemonRestart_reports(u)
  <2>1. prog[u] # "daemon"
    BY <1>4 DEF DaemonStop, DaemonRestart_refuses, DaemonRestart_reports, Fits
  <2>2. result'[p] = result[p]
    BY <1>4, <2>1 DEF DaemonStop, DaemonRestart_refuses, DaemonRestart_reports, Reports
  <2> QED BY <2>2
<1>5. CASE result' = result
  BY <1>5
<1>6. \/ Daemonize(u) \/ DaemonStop(u) \/ DaemonRestart_refuses(u)
      \/ DaemonRestart_reports(u) \/ result' = result
  BY <1>2 DEF Step, check_pid, Detaches, write_pid, DaemonWait_single, DaemonWait_fork,
       DaemonWait_assign, DaemonWait_waitpid, DaemonWait_reset, Listens, SignalDaemonKill,
       SignalDaemonKill_kill, Crash, DaemonRestart_kill, DaemonRestart_fork,
       DaemonRestart_waitpid
<1> QED BY <1>3, <1>4, <1>5, <1>6

\* svnsrv -D is refused only while a daemon lives, no process can be forked, or another
\* program has the number it has read: a stale pidfile keeps nobody out but by its number,
\* for every operator, after every crash and stop, and whatever numbers are given again.
THEOREM RefusedOnlyByDaemon == Spec => RefusedOnlyWhenRunning
<1>1. Shape /\ [Next]_vars =>
        [\A p \in Pids :
           prog[p] = "daemon" /\ result[p] = "none" /\ result'[p] = "fail" =>
             \/ FreePids = {}
             \/ pid[p] \in reused
             \/ \E d \in Pids \ Running_commands : prog[d] = "daemon" /\ Alive(d)]_vars
  BY RefusalStep
<1> QED BY <1>1, ShapeInvariant, PTL DEF Spec, RefusedOnlyWhenRunning

-----------------------------------------------------------------------------
(* A worker that serves has a master, or is about to be told *)

\* Master d knows of its worker w, has told it, or has died without knowing it.
Minds(d, w) ==
  /\ forked[d] = w
  /\ \/ pc[d] \in {"assign", "waitpid", "kill"}
     \/ pc[d] = "dead" /\ (child_pid[d] = 0 \/ w \in pending)

WorkersMinded ==
  \A w \in Pids : prog[w] = "worker" /\ Alive(w) => \E d \in Pids : Minds(d, w)

\* A step without a fork changes its own process only, and the signal of no other.
LEMMA Solitary ==
  ASSUME Shape, NEW p \in Pids, CommandSteps(p) \/ DaemonSteps(p) \/ SignalDaemonKill(p)
  PROVE  /\ UNCHANGED <<prog, forked>> /\ Alive(p)
         /\ \A u \in Pids \ {p} : pc'[u] = pc[u] /\ child_pid'[u] = child_pid[u]
         /\ pending \ {p} \subseteq pending'
         /\ p \in pending => p \in pending' \/ pc'[p] = "dead"
<1> USE DEF Shape, ProcessTypes, At, Alive
<1>1. CASE CommandSteps(p)
  BY <1>1, SMTT(30) DEF CommandSteps, check_pid, Detaches, write_pid, DaemonStop,
       Daemonize, Reports, exit, kill, DaemonRestart_refuses, DaemonRestart_kill,
       DaemonRestart_waitpid, DaemonRestart_fork, DaemonRestart_reports
<1>2. CASE DaemonSteps(p)
  BY <1>2, SMTT(30) DEF DaemonSteps, DaemonWait_single, DaemonWait_assign,
       DaemonWait_waitpid, DaemonWait_reset, Listens, SignalDaemonKill_kill, Crash,
       DaemonWait_fork, exit
<1>3. CASE SignalDaemonKill(p)
  BY <1>3, HandlerCases, SMTT(30) DEF exit
<1> QED BY <1>1, <1>2, <1>3

LEMMA MindedStep ==
  ASSUME Shape, WorkersMinded, NEW p \in Pids, Step(p) \/ Crash(p)
  PROVE  WorkersMinded'
<1> USE DEF Shape, ProcessTypes, At
<1>1. ASSUME NEW w \in Pids, NEW d \in Pids, d # p, Minds(d, w), UNCHANGED forked,
             pc'[d] = pc[d], child_pid'[d] = child_pid[d],
             w \in pending => w \in pending'
      PROVE  Minds(d, w)'
  BY <1>1 DEF Minds
<1>2. CASE CommandSteps(p) \/ DaemonSteps(p) \/ SignalDaemonKill(p)
  <2>1. /\ UNCHANGED <<prog, forked>> /\ Alive(p)
        /\ \A u \in Pids \ {p} : pc'[u] = pc[u] /\ child_pid'[u] = child_pid[u]
        /\ pending \ {p} \subseteq pending'
        /\ p \in pending => p \in pending' \/ pc'[p] = "dead"
    BY <1>2, Solitary
  <2>2. ASSUME NEW w \in Pids, prog[w] = "worker", Alive(w), Minds(p, w)
        PROVE  Minds(p, w)'
    <3>1. forked[p] = w /\ pc[p] \in {"assign", "waitpid", "kill"}
      BY <2>1, <2>2 DEF Minds, Alive
    <3>2. CASE SignalDaemonKill(p)
      BY <2>1, <3>1, <3>2, HandlerCases DEF Minds, exit, Children
    <3>3. CASE DaemonSteps(p)
      <4>1. \/ DaemonWait_assign(p) \/ DaemonWait_waitpid(p) \/ SignalDaemonKill_kill(p)
        BY <3>1, <3>3 DEF DaemonSteps, DaemonWait_single, DaemonWait_reset, Listens,
             Crash, DaemonWait_fork
      <4>2. CASE DaemonWait_assign(p)
        BY <2>1, <3>1, <4>2 DEF DaemonWait_assign, Minds
      <4>3. CASE DaemonWait_waitpid(p)
        BY <2>2, <3>1, <4>3 DEF DaemonWait_waitpid, Children
      <4>4. CASE SignalDaemonKill_kill(p)
        BY <2>1, <2>2, <3>1, <4>4 DEF SignalDaemonKill_kill, Children, Minds, Alive, Fits
      <4> QED BY <4>1, <4>2, <4>3, <4>4
    <3>4. CASE CommandSteps(p)
      BY <3>1, <3>4 DEF CommandSteps, check_pid, Detaches, write_pid, DaemonStop,
           Daemonize, Reports, exit, kill, DaemonRestart_refuses, DaemonRestart_kill,
           DaemonRestart_waitpid, DaemonRestart_fork, DaemonRestart_reports, Fits
    <3> QED BY <1>2, <3>2, <3>3, <3>4
  <2>3. ASSUME NEW w \in Pids, prog'[w] = "worker", Alive(w)'
        PROVE  \E d \in Pids : Minds(d, w)'
    <3>1. Alive(w) /\ prog[w] = "worker"
      BY <2>1, <2>3 DEF Alive
    <3>2. PICK d \in Pids : Minds(d, w)
      BY <3>1 DEF WorkersMinded
    <3>3. w \in pending => w \in pending'
      BY <2>1, <2>3 DEF Alive
    <3> QED BY <1>1, <2>1, <2>2, <3>1, <3>2, <3>3
  <2> QED BY <2>3 DEF WorkersMinded
<1>3. ASSUME NEW q \in Pids, Spawns(p, q) PROVE WorkersMinded'
  <2>1. ASSUME NEW w \in Pids, prog'[w] = "worker", Alive(w)'
        PROVE  \E d \in Pids : Minds(d, w)'
    <3>1. CASE w = q
      <4>1. pc'[p] = "assign" /\ forked'[p] = q
        BY <1>3, <2>1, <3>1 DEF Spawns
      <4> QED BY <3>1, <4>1 DEF Minds
    <3>2. CASE w # q
      <4>1. prog[w] = "worker" /\ Alive(w) /\ w # p
        BY <1>3, <2>1, <3>2, SMTT(20) DEF Spawns, Alive, Fits
      <4>2. PICK d \in Pids : Minds(d, w)
        BY <4>1 DEF WorkersMinded
      <4>3. d # p /\ d # q
        BY <1>3, <4>2 DEF Spawns, Minds
      <4>4. /\ pc'[d] = pc[d] /\ forked'[d] = forked[d] /\ child_pid'[d] = child_pid[d]
            /\ w \in pending => w \in pending'
        BY <1>3, <4>1, <4>3 DEF Spawns
      <4> QED BY <4>2, <4>4 DEF Minds
    <3> QED BY <3>1, <3>2
  <2> QED BY <2>1 DEF WorkersMinded
<1> QED BY <1>2, <1>3, StepKinds

LEMMA MindedInvariantStep == Shape /\ WorkersMinded /\ [Next]_vars => WorkersMinded'
<1> SUFFICES ASSUME Shape, WorkersMinded, [Next]_vars PROVE WorkersMinded'
  OBVIOUS
<1>1. ASSUME NEW g \in Commands, main(g) PROVE WorkersMinded'
  <2>1. PICK p \in Pids : /\ pc[p] = "free"
                          /\ pc' = [pc EXCEPT ![p] = "check"]
                          /\ prog' = [prog EXCEPT ![p] = g]
                          /\ UNCHANGED <<child_pid, forked, pending>>
    BY <1>1, MainStarts
  <2>2. g # "worker"
    BY DaemonAssumption DEF Programs
  <2>3. \A w \in Pids : prog'[w] = "worker" /\ Alive(w)' => prog[w] = "worker" /\ Alive(w)
    BY <2>1, <2>2 DEF Alive, Shape, ProcessTypes
  <2>4. \A w, d \in Pids : Minds(d, w) => Minds(d, w)'
    BY <2>1 DEF Minds, Shape, ProcessTypes
  <2> QED BY <2>3, <2>4 DEF WorkersMinded
<1>2. CASE UNCHANGED vars
  BY <1>2 DEF vars, WorkersMinded, Minds, Alive
<1>3. CASE OtherProgram
  BY <1>3 DEF OtherProgram, WorkersMinded, Minds, Alive
<1> QED BY <1>1, <1>2, <1>3, MindedStep DEF Next

\* A worker that serves has a master that lives, or has been told to stop, or the
\* master has died before child_pid was set: whatever commands the operator runs and
\* however often a worker crashes.
THEOREM NoWorkerForgotten == Spec => []WorkerAttended
<1>1. Init => WorkersMinded
  BY DEF Init, WorkersMinded
<1>2. WorkersMinded => WorkerAttended
  <2> SUFFICES ASSUME WorkersMinded, NEW w \in Pids, prog[w] = "worker", pc[w] = "serve"
               PROVE  \E d \in Pids : /\ forked[d] = w
                                      /\ Alive(d) \/ w \in pending \/ child_pid[d] = 0
    BY DEF WorkerAttended
  <2>1. PICK d \in Pids : Minds(d, w)
    BY DEF WorkersMinded, Alive
  <2> QED BY <2>1 DEF Minds, Alive
<1> QED BY <1>1, <1>2, MindedInvariantStep, ShapeInvariant, PTL DEF Spec

-----------------------------------------------------------------------------
(* One daemon, on record, if the operator is patient *)

\* The processes on their way to write the pidfile.
Launching ==
  {p \in Pids : /\ prog[p] = "daemon"
                /\ pc[p] \in {"check", "probe", "setsid", "write_pid", "fclose"}}

\* The commands that have not returned.
Commanding == {p \in Pids : prog[p] \in {"stop", "restart"} /\ Alive(p)}

\* One launch at a time, and none before a restart has forked it.
OneLaunch ==
  /\ \A p, q \in Launching : p = q
  /\ \A p, q \in Commanding : p = q
  /\ \A p \in Commanding :
       pc[p] \in {"check", "probe", "ParsePathAndArgv", "kill_daemon", "fork"} =>
         Launching = {}

\* A launch that has looked at the pidfile knows the daemon at work, and one that
\* goes on has found none.
LaunchKnows ==
  \A p \in Launching :
    /\ pc[p] = "probe" => \A d \in Daemons : pid[p] = d
    /\ pc[p] \in {"setsid", "write_pid", "fclose"} => Daemons = {}

OneDaemon == OneLaunch /\ LaunchKnows /\ DaemonOnRecord

Early == {"check", "probe", "ParsePathAndArgv", "kill_daemon", "fork"}
Late  == {"setsid", "write_pid", "fclose"}

\* Without a fork no launch and no command begins, and none goes back.
LEMMA NoLaunchBegins ==
  ASSUME Shape, NEW p \in Pids, CommandSteps(p) \/ DaemonSteps(p) \/ SignalDaemonKill(p)
  PROVE  /\ Launching' \subseteq Launching /\ Commanding' \subseteq Commanding
         /\ \A u \in Commanding' : pc'[u] \in Early => pc[u] \in Early
<1> USE DEF Shape, ProcessTypes, At, Alive, Launching, Commanding, Early
<1>1. CASE CommandSteps(p)
  BY <1>1, SMTT(30) DEF CommandSteps, check_pid, Detaches, write_pid, DaemonStop,
       Daemonize, Reports, exit, kill, DaemonRestart_refuses, DaemonRestart_kill,
       DaemonRestart_waitpid, DaemonRestart_fork, DaemonRestart_reports, Fits
<1>2. CASE DaemonSteps(p)
  BY <1>2, SMTT(30) DEF DaemonSteps, DaemonWait_single, DaemonWait_assign,
       DaemonWait_waitpid, DaemonWait_reset, Listens, SignalDaemonKill_kill, Crash,
       DaemonWait_fork, exit
<1>3. CASE SignalDaemonKill(p)
  BY <1>3, HandlerCases, SMTT(30) DEF exit
<1> QED BY <1>1, <1>2, <1>3

LEMMA OneLaunchQuiet ==
  ASSUME Shape, OneLaunch, NEW p \in Pids,
         CommandSteps(p) \/ DaemonSteps(p) \/ SignalDaemonKill(p)
  PROVE  OneLaunch'
BY NoLaunchBegins DEF OneLaunch, Early

\* A step that neither reads nor writes the pidfile, nor ends a launch.
LEMMA Unrecorded ==
  ASSUME Shape, LaunchKnows, DaemonOnRecord, UNCHANGED <<pid, pidfile>>,
         Daemons' \subseteq Daemons, Launching' \subseteq Launching,
         \A u \in Launching' : /\ pc'[u] = "probe" => pc[u] = "probe"
                               /\ pc'[u] \in Late => pc[u] \in Late
  PROVE  LaunchKnows' /\ DaemonOnRecord'
BY DEF LaunchKnows, DaemonOnRecord, Late

LEMMA OneDaemonCommand ==
  ASSUME Shape, OneDaemon, NEW p \in Pids, CommandSteps(p)
  PROVE  OneDaemon'
<1> USE DEF Shape, ProcessTypes, At, OneDaemon
<1>1. OneLaunch' /\ Launching' \subseteq Launching
  BY OneLaunchQuiet, NoLaunchBegins
<1>2. \A u \in Pids \ {p} : pc'[u] = pc[u] /\ prog' = prog
  BY Solitary
<1>3. CASE check_pid(p)
  <2>1. Daemons' = Daemons /\ pidfile' = pidfile
    BY <1>3 DEF check_pid, Daemons
  <2>2. DaemonOnRecord'
    BY <2>1 DEF DaemonOnRecord
  <2>3. ASSUME NEW u \in Launching'
        PROVE  /\ pc'[u] = "probe" => \A d \in Daemons : pid'[u] = d
               /\ pc'[u] \in Late => Daemons = {}
    <3>1. u \in Launching
      BY <1>1
    <3>2. CASE u = p
      BY <1>3, <2>3, <3>2 DEF check_pid, DaemonOnRecord, NumberTypes, Launching, Late
    <3>3. CASE u # p
      BY <1>2, <1>3, <3>1, <3>3 DEF check_pid, LaunchKnows, NumberTypes, Launching, Late
    <3> QED BY <3>2, <3>3
  <2> QED BY <1>1, <2>1, <2>2, <2>3 DEF LaunchKnows, Late
<1>4. CASE write_pid(p)
  <2>1. p \in Launching /\ pc[p] \in Late /\ Daemons = {}
    BY <1>4 DEF write_pid, Launching, Late, Fits, LaunchKnows
  <2>2. CASE pc'[p] = "DaemonWait"
    <3>1. Daemons' = {p} /\ pidfile' = p
      BY <1>4, <2>1, <2>2, SMTT(30) DEF write_pid, exit, Daemons, Launching
    <3>2. Launching' = {}
      BY <1>1, <1>2, <2>1, <2>2 DEF OneLaunch, Launching
    <3> QED BY <1>1, <3>1, <3>2 DEF LaunchKnows, DaemonOnRecord
  <2>3. CASE pc'[p] # "DaemonWait"
    <3>1. Daemons' = {}
      BY <1>4, <2>1, <2>3, SMTT(30) DEF write_pid, exit, Daemons
    <3> QED BY <1>1, <3>1 DEF LaunchKnows, DaemonOnRecord
  <2> QED BY <2>2, <2>3
<1>5. CASE ~check_pid(p) /\ ~write_pid(p)
  <2>1. UNCHANGED <<pid, pidfile>>
    BY <1>5 DEF CommandSteps, Detaches, DaemonStop, Daemonize, DaemonRestart_refuses,
         DaemonRestart_kill, DaemonRestart_waitpid, DaemonRestart_fork,
         DaemonRestart_reports
  <2>2. /\ Daemons' \subseteq Daemons
        /\ \A u \in Launching' : /\ pc'[u] = "probe" => pc[u] = "probe"
                                 /\ pc'[u] \in Late => pc[u] \in Late
    BY <1>5, SMTT(30) DEF CommandSteps, Detaches, DaemonStop,
         Daemonize, Reports, exit, kill, DaemonRestart_refuses, DaemonRestart_kill,
         DaemonRestart_waitpid, DaemonRestart_fork, DaemonRestart_reports, Daemons,
         Launching, Late
  <2> QED BY <1>1, <2>1, <2>2, Unrecorded
<1> QED BY <1>3, <1>4, <1>5

LEMMA OneDaemonWork ==
  ASSUME Shape, OneDaemon, NEW p \in Pids, DaemonSteps(p)
  PROVE  OneDaemon'
<1> USE DEF Shape, ProcessTypes, At, OneDaemon
<1>1. OneLaunch' /\ Launching' \subseteq Launching
  BY OneLaunchQuiet, NoLaunchBegins
<1>2. /\ UNCHANGED <<pid, pidfile>> /\ Daemons' \subseteq Daemons
      /\ \A u \in Launching' : pc'[u] = pc[u]
  BY SMTT(30) DEF DaemonSteps, DaemonWait_single, DaemonWait_assign,
       DaemonWait_waitpid, DaemonWait_reset, Listens, SignalDaemonKill_kill, Crash,
       DaemonWait_fork, exit, Daemons, Launching, Fits
<1> QED BY <1>1, <1>2, Unrecorded

\* The master that unlinks the pidfile is the one it names.
LEMMA UnlinksOwn ==
  ASSUME Shape, OneDaemon, NEW p \in Pids, SignalDaemonKill(p), pidfile' # pidfile
  PROVE  /\ pidfile = p /\ pidfile' = None /\ Daemons = {p}
         /\ pc[p] \in {"waitpid", "reset"} /\ pc' = [pc EXCEPT ![p] = "kill"]
<1>1. /\ pc[p] \in {"waitpid", "reset"} /\ pc' = [pc EXCEPT ![p] = "kill"]
      /\ pidfile' = None
  BY HandlerCases DEF At
<1>2. p \in Daemons
  BY <1>1 DEF Shape, Fits, Daemons
<1> QED BY <1>1, <1>2 DEF OneDaemon, DaemonOnRecord

LEMMA OneDaemonHandler ==
  ASSUME Shape, OneDaemon, NEW p \in Pids, SignalDaemonKill(p)
  PROVE  OneDaemon'
<1> USE DEF Shape, ProcessTypes, At, OneDaemon
<1>1. OneLaunch' /\ Launching' \subseteq Launching
  BY OneLaunchQuiet, NoLaunchBegins
<1>2. /\ UNCHANGED <<prog, pid>> /\ \A u \in Pids \ {p} : pc'[u] = pc[u]
      /\ pc'[p] \in {"dead", "kill"}
  BY HandlerCases, Solitary DEF exit
<1>3. Daemons' \subseteq Daemons /\ \A u \in Launching' : pc'[u] = pc[u]
  BY <1>2 DEF Daemons, Launching
<1>4. CASE pidfile' = pidfile
  BY <1>1, <1>2, <1>3, <1>4, Unrecorded
<1>5. CASE pidfile' # pidfile
  <2>1. Daemons' = {}
    BY <1>2, <1>3, <1>5, UnlinksOwn DEF Daemons
  <2> QED BY <1>1, <2>1 DEF LaunchKnows, DaemonOnRecord
<1> QED BY <1>4, <1>5

\* A launch begins only when no daemon is at work.
LEMMA OneDaemonSpawn ==
  ASSUME Shape, OneDaemon, NEW p \in Pids, NEW q \in Pids, Spawns(p, q)
  PROVE  OneDaemon'
<1> USE DEF Shape, ProcessTypes, OneDaemon
<1>1. q # p /\ pc[q] = "free" /\ prog[q] = "none" /\ UNCHANGED <<pid, pidfile>>
  BY DEF Spawns, Fits
<1>2. /\ \A u \in Pids \ {p, q} : pc'[u] = pc[u]
      /\ \A u \in Pids \ {q} : prog'[u] = prog[u]
  BY DEF Spawns
<1>3. CASE pc[p] = "probe"
  <2>1. /\ prog[p] = "daemon" /\ Running(pid[p]) = 0
        /\ pc'[p] = "dead" /\ pc'[q] = "setsid" /\ prog'[q] = "daemon"
    BY <1>1, <1>3 DEF Spawns
  <2>2. p \in Launching /\ Launching = {p}
    BY <1>3, <2>1 DEF Launching, OneLaunch
  <2>3. Daemons = {}
    <3>1. \A d \in Daemons : pid[p] = d
      BY <1>3, <2>2 DEF LaunchKnows
    <3>2. \A d \in Daemons : d \in Pids /\ Alive(d) /\ d # 0
      BY DaemonAssumption DEF Daemons, Alive, Pids
    <3> QED BY <2>1, <3>1, <3>2 DEF Running
  <2>4. Daemons' = {}
    BY <1>2, <2>1, <2>3 DEF Daemons
  <2>5. Launching' = {q}
    BY <1>1, <1>2, <2>1, <2>2 DEF Launching
  <2>6. /\ Commanding' = Commanding
        /\ \A u \in Commanding : u # p /\ u # q /\ pc'[u] = pc[u]
    BY <1>1, <1>2, <2>1 DEF Commanding, Alive
  <2>7. OneLaunch'
    BY <2>2, <2>5, <2>6 DEF OneLaunch
  <2> QED BY <2>4, <2>5, <2>7 DEF LaunchKnows, DaemonOnRecord
<1>4. CASE pc[p] = "DaemonWait"
  <2>1. prog'[q] = "worker" /\ prog[p] = "daemon" /\ pc'[p] = "assign"
    BY <1>1, <1>4 DEF Spawns, Fits
  <2>2. Daemons' = Daemons
    BY <1>1, <1>2, <1>4, <2>1 DEF Daemons
  <2>3. Launching' = Launching /\ \A u \in Launching : pc'[u] = pc[u]
    BY <1>1, <1>2, <1>4, <2>1 DEF Launching
  <2>4. /\ Commanding' = Commanding
        /\ \A u \in Commanding : pc'[u] = pc[u]
    BY <1>1, <1>2, <2>1 DEF Commanding, Alive
  <2>5. OneLaunch'
    BY <2>3, <2>4 DEF OneLaunch
  <2>6. LaunchKnows' /\ DaemonOnRecord'
    BY <1>1, <2>2, <2>3 DEF LaunchKnows, DaemonOnRecord
  <2> QED BY <2>5, <2>6
<1>5. CASE pc[p] = "fork"
  <2>1. /\ prog[p] = "restart" /\ prog'[q] = "daemon"
        /\ pc'[p] = "await" /\ pc'[q] = "check"
    BY <1>1, <1>5 DEF Spawns, Fits
  <2>2. p \in Commanding /\ Launching = {} /\ Commanding = {p}
    BY <1>5, <2>1 DEF Commanding, Alive, OneLaunch
  <2>3. Daemons' = Daemons
    BY <1>1, <1>2, <1>5, <2>1 DEF Daemons
  <2>4. Launching' = {q} /\ Commanding' = {p}
    BY <1>1, <1>2, <2>1, <2>2 DEF Launching, Commanding, Alive
  <2>5. OneLaunch'
    BY <2>1, <2>4 DEF OneLaunch
  <2> QED BY <1>1, <2>1, <2>3, <2>4, <2>5 DEF LaunchKnows, DaemonOnRecord
<1> QED BY <1>3, <1>4, <1>5 DEF Spawns

\* A patient operator runs a command when none is left and no launch is under way.
LEMMA OneDaemonMain ==
  ASSUME Operator = "patient", Shape, OneDaemon, NEW g \in Commands, main(g)
  PROVE  OneDaemon'
<1> USE DEF Shape, ProcessTypes, OneDaemon
<1>1. PICK p \in Pids : /\ pc[p] = "free" /\ MayRun
                        /\ pc' = [pc EXCEPT ![p] = "check"]
                        /\ prog' = [prog EXCEPT ![p] = g]
                        /\ UNCHANGED <<pid, pidfile>>
  BY MainStarts
<1>2. g \in Programs
  BY DaemonAssumption
<1>3. \A u \in Pids : Alive(u) => pc[u] \in {"waitpid", "serve"}
  BY <1>1 DEF MayRun
<1>4. Launching = {} /\ Commanding = {}
  BY <1>3 DEF Launching, Commanding, Alive, Fits
<1>5. Launching' \subseteq {p} /\ Commanding' \subseteq {p}
  BY <1>1, <1>4 DEF Launching, Commanding, Alive
<1>6. OneLaunch'
  BY <1>1, <1>2, <1>5 DEF OneLaunch, Launching, Commanding, Programs
<1>7. Daemons' = Daemons /\ pc'[p] = "check"
  BY <1>1 DEF Daemons
<1> QED BY <1>1, <1>5, <1>6, <1>7 DEF LaunchKnows, DaemonOnRecord

LEMMA OneDaemonInit == Init => OneDaemon
BY DEF Init, OneDaemon, OneLaunch, LaunchKnows, DaemonOnRecord, Launching, Commanding,
       Daemons, Alive

LEMMA OneDaemonStep ==
  ASSUME Operator = "patient"
  PROVE  Shape /\ OneDaemon /\ [Next]_vars => OneDaemon'
<1> SUFFICES ASSUME Shape, OneDaemon, [Next]_vars PROVE OneDaemon'
  OBVIOUS
<1>1. ASSUME NEW p \in Pids, Step(p) \/ Crash(p) PROVE OneDaemon'
  BY <1>1, StepKinds, OneDaemonCommand, OneDaemonWork, OneDaemonHandler, OneDaemonSpawn
<1>2. CASE UNCHANGED vars
  BY <1>2 DEF vars, OneDaemon, OneLaunch, LaunchKnows, DaemonOnRecord, Launching,
       Commanding, Daemons, Alive
<1>3. CASE OtherProgram
  BY <1>3 DEF OtherProgram, OneDaemon, OneLaunch, LaunchKnows, DaemonOnRecord, Launching,
       Commanding, Daemons, Alive
<1> QED BY <1>1, <1>2, <1>3, OneDaemonMain DEF Next

LEMMA OneDaemonInvariant ==
  ASSUME Operator = "patient"
  PROVE  Spec => []OneDaemon
<1>1. Shape /\ OneDaemon /\ [Next]_vars => OneDaemon'
  BY OneDaemonStep
<1> QED BY <1>1, OneDaemonInit, ShapeInvariant, PTL DEF Spec

\* One daemon is at work at most, and the pidfile holds its number, when the operator
\* runs the next command only after the last one has taken effect; whatever crashes.
THEOREM DaemonStaysOnRecord ==
  ASSUME Operator = "patient"
  PROVE  Spec => []DaemonOnRecord
<1>1. OneDaemon => DaemonOnRecord
  BY DEF OneDaemon
<1> QED BY <1>1, OneDaemonInvariant, PTL

LEMMA UnlinkStep ==
  ASSUME Shape, OneDaemon, [Next]_vars, pidfile # None, pidfile' = None
  PROVE  pidfile \in Pids /\ pc'[pidfile] # pc[pidfile]
<1>1. PICK p \in Pids : Step(p) \/ Crash(p)
  BY DEF Next, vars, main, OtherProgram
<1>2. CASE SignalDaemonKill(p)
  BY <1>2, UnlinksOwn DEF Shape, ProcessTypes
<1>3. CASE ~SignalDaemonKill(p)
  <2>1. pidfile' \in {pidfile, Empty, p}
    BY <1>1, <1>3, StepKinds DEF CommandSteps, check_pid, Detaches, write_pid,
         DaemonStop, Daemonize, DaemonRestart_refuses, DaemonRestart_kill,
         DaemonRestart_waitpid, DaemonRestart_fork, DaemonRestart_reports,
         DaemonSteps, DaemonWait_single, DaemonWait_assign, DaemonWait_waitpid,
         DaemonWait_reset, Listens, SignalDaemonKill_kill, Crash, DaemonWait_fork, Spawns
  <2>2. None # Empty /\ None # p
    BY DaemonAssumption DEF None, Empty, Pids
  <2> QED BY <2>1, <2>2
<1> QED BY <1>2, <1>3

\* The pidfile that goes is the one of the daemon that goes, never a successor's.
THEOREM OwnPidfileUnlinked ==
  ASSUME Operator = "patient"
  PROVE  Spec => UnlinksOwnPidfile
<1>1. Shape /\ OneDaemon /\ [Next]_vars =>
        [pidfile # None /\ pidfile' = None =>
           pidfile \in Pids /\ pc'[pidfile] # pc[pidfile]]_vars
  BY UnlinkStep
<1> QED BY <1>1, OneDaemonInvariant, ShapeInvariant, PTL DEF Spec, UnlinksOwnPidfile
=============================================================================
