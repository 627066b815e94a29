------------------------------ MODULE Klogger ------------------------------
(***************************************************************************)
(* klog.cc: the access log and the error log of a process, written by the  *)
(* threads of its pool under one mutex, rolled to a new file once they are *)
(* long, and closed by the handler of SIGUSR1 or SIGINT, which takes no    *)
(* mutex and interrupts its thread between any two statements.             *)
(*                                                                         *)
(* Lines are numbers, in the order in which they are handed to fwrite.     *)
(* The stdio buffer is not modelled: a line is in the file once fwrite has *)
(* returned.                                                               *)
(***************************************************************************)
EXTENDS Integers, Sequences

CONSTANTS
  Threads,          \* the threads of the pool
  MAX_LINE_NUMBER,  \* the length at which a log is rolled
  MaxLines,         \* bound: lines written by all threads
  MaxMinute,        \* bound: the clock, in minutes, the unit of a rolled name
  OpenFails,        \* may fopen fail?
  Signals           \* may the process be told to stop?

Logs  == {"access", "error"}
None  == "none"

ASSUME KloggerAssumption ==
  /\ MAX_LINE_NUMBER \in Nat /\ MaxLines \in Nat /\ MaxMinute \in Nat
  /\ OpenFails \in BOOLEAN /\ Signals \in BOOLEAN
  /\ None \notin Threads

VARIABLES
  stream,   \* logAccess and logError: the log's own FILE, stdout or null
  open,     \* the FILEs that are open
  named,    \* the logs with a file name, infoFile_ or errorFile_
  counts,   \* accessCounts and errorCounts
  current,  \* the lines in the file of each log
  rolled,   \* the lines in the rolled file of each log and minute
  minute,   \* the clock
  mtxE,     \* the thread that holds the mutex
  pc,       \* the next statement of each thread
  log,      \* the log each thread writes to
  lines,    \* how many lines fwrite has got
  clashed   \* history: the logs for which rename has replaced a rolled file

files == <<current, rolled, clashed>>
vars  == <<stream, open, named, counts, files, minute, mtxE, pc, log, lines>>

At(t, s) == pc' = [pc EXCEPT ![t] = s]

-----------------------------------------------------------------------------
\* init: a log whose file cannot be opened stays on stdout.
Init ==
  /\ named \in IF OpenFails THEN SUBSET Logs ELSE {Logs}
  /\ stream = [l \in Logs |-> IF l \in named THEN l ELSE "stdout"]
  /\ open = named \cup {"stdout"}
  /\ counts = [l \in Logs |-> 0]
  /\ current = [l \in Logs |-> <<>>]
  /\ rolled = [l \in Logs |-> [n \in 0..MaxMinute |-> <<>>]]
  /\ minute = 0 /\ mtxE = None /\ lines = 0 /\ clashed = {}
  /\ pc = [t \in Threads |-> "idle"]
  /\ log = [t \in Threads |-> "access"]

\* access or log: a session formats a line and calls writerAccess or writerError.
Calls(t, l) ==
  /\ pc[t] = "idle" /\ lines < MaxLines
  /\ At(t, "lock")
  /\ log' = [log EXCEPT ![t] = l]
  /\ UNCHANGED <<stream, open, named, counts, files, minute, mtxE, lines>>

\* Fault: each writer uses the mutex meant for it.
Locks_OwnMutex(t) ==
  /\ pc[t] = "lock"
  /\ At(t, IF counts[log[t]] >= MAX_LINE_NUMBER THEN "roll" ELSE "count")
  /\ mtxE' = t
  /\ UNCHANGED <<stream, open, named, counts, files, minute, log, lines>>

\* lock_guard, and the test of the counter.
Locks(t) ==
  /\ pc[t] = "lock" /\ mtxE = None
  /\ mtxE' = t
  /\ At(t, IF counts[log[t]] >= MAX_LINE_NUMBER THEN "roll" ELSE "count")
  /\ UNCHANGED <<stream, open, named, counts, files, minute, log, lines>>

\* RollingFileA leaves stdout alone.  RollingFileE compares with stderr, which the
\* error log never uses, so that it closes stdout too.
Rolls(l) ==
  IF l = "access" THEN stream[l] \notin {"stdout", "null"} ELSE stream[l] # "null"

\* Fault: rolling the log is itself logged, under the mutex already held.
RollingFile_close_Logs(t) ==
  /\ pc[t] = "roll"
  /\ At(t, "lock")
  /\ UNCHANGED <<stream, open, named, counts, files, minute, mtxE, log, lines>>

RollingFile_close(t) ==
  /\ pc[t] = "roll"
  /\ IF Rolls(log[t])
     THEN open' = open \ {stream[log[t]]} /\ At(t, "rename")
     ELSE UNCHANGED open /\ At(t, "count")
  /\ UNCHANGED <<stream, named, counts, files, minute, mtxE, log, lines>>

\* Fault: the rolled file is lost even when nothing has its name.
RollingFile_rename_Truncates(t) ==
  /\ pc[t] = "rename"
  /\ At(t, "fopen")
  /\ current' = [current EXCEPT ![log[t]] = <<>>]
  /\ UNCHANGED <<rolled, clashed>>
  /\ UNCHANGED <<stream, open, named, counts, minute, mtxE, log, lines>>

\* Fault: the file is copied under the new name and goes on growing.
RollingFile_rename_Copies(t) ==
  LET l == log[t] IN
  /\ pc[t] = "rename"
  /\ At(t, "fopen")
  /\ rolled' = [rolled EXCEPT ![l][minute] = current[l]]
  /\ UNCHANGED <<current, clashed>>
  /\ UNCHANGED <<stream, open, named, counts, minute, mtxE, log, lines>>

\* rename to the name of this minute replaces a file that has it already.
RollingFile_rename(t) ==
  LET l == log[t] IN
  /\ pc[t] = "rename"
  /\ At(t, "fopen")
  /\ IF l \in named /\ current[l] # <<>>
     THEN /\ rolled' = [rolled EXCEPT ![l][minute] = current[l]]
          /\ current' = [current EXCEPT ![l] = <<>>]
          /\ clashed' = IF rolled[l][minute] = <<>> THEN clashed ELSE clashed \cup {l}
     ELSE UNCHANGED files
  /\ UNCHANGED <<stream, open, named, counts, minute, mtxE, log, lines>>

\* Fault: a file that cannot be opened again leaves the closed stream in place.
RollingFile_fopen_KeepsStream(t) ==
  LET l == log[t] IN
  /\ pc[t] = "fopen"
  /\ At(t, "count")
  /\ \/ /\ l \in named
        /\ stream' = [stream EXCEPT ![l] = l] /\ open' = open \cup {l}
     \/ /\ OpenFails \/ l \notin named
        /\ UNCHANGED <<stream, open>>
  /\ UNCHANGED <<named, counts, files, minute, mtxE, log, lines>>

\* fopen, or back to stdout.
RollingFile_fopen(t) ==
  LET l == log[t] IN
  /\ pc[t] = "fopen"
  /\ At(t, "count")
  /\ \/ /\ l \in named
        /\ stream' = [stream EXCEPT ![l] = l] /\ open' = open \cup {l}
     \/ /\ OpenFails \/ l \notin named
        /\ stream' = [stream EXCEPT ![l] = "stdout"] /\ UNCHANGED open
  /\ UNCHANGED <<named, counts, files, minute, mtxE, log, lines>>

Counts(t) ==
  /\ pc[t] = "count"
  /\ At(t, "fwrite")
  /\ counts' = [counts EXCEPT ![log[t]] = @ + 1]
  /\ UNCHANGED <<stream, open, named, files, minute, mtxE, log, lines>>

Crash == pc' = [u \in Threads |-> "gone"]

\* What a line appended to log l leaves in its file.
Appended(l) ==
  IF stream[l] = l /\ l \in open
  THEN [current EXCEPT ![l] = Append(@, lines + 1)] ELSE current

\* fwrite, and the end of the lock_guard.  A null stream crashes the process; a
\* closed one, which is undefined, crashes it or drops the line.
Writes(t) ==
  LET l == log[t] IN
  /\ pc[t] = "fwrite"
  /\ lines' = lines + 1
  /\ current' = Appended(l)
  /\ \/ stream[l] # "null" /\ At(t, "idle") /\ mtxE' = None
     \/ stream[l] \notin open /\ Crash /\ UNCHANGED mtxE
  /\ UNCHANGED <<stream, open, named, counts, rolled, clashed, minute, log>>

-----------------------------------------------------------------------------
\* SIGUSR1 or SIGINT: the handler calls destroy in some thread, which never goes
\* on with what it did.  The signal is blocked in that thread only.
Stops == {"destroyE", "destroyA", "exit", "gone"}

Signalled(t) ==
  /\ Signals /\ pc[t] \notin Stops
  /\ At(t, "destroyE")
  /\ UNCHANGED <<stream, open, named, counts, files, minute, mtxE, log, lines>>

\* destroy: the last line, and the error log is closed.
destroyE(t) ==
  /\ pc[t] = "destroyE"
  /\ At(t, "destroyA")
  /\ stream' = [stream EXCEPT !["error"] = "null"]
  /\ open' = open \ {stream["error"]}
  /\ lines' = IF stream["error"] = "null" THEN lines ELSE lines + 1
  /\ current' = Appended("error")
  /\ UNCHANGED <<named, counts, rolled, clashed, minute, mtxE, log>>

\* destroy: the access log is closed.
destroyA(t) ==
  /\ pc[t] = "destroyA"
  /\ At(t, "exit")
  /\ stream' = [stream EXCEPT !["access"] = "null"]
  /\ open' = open \ {stream["access"]}
  /\ UNCHANGED <<named, counts, files, minute, mtxE, log, lines>>

\* exit(0): ~Klogger closes what a writer has opened again since.
exit(t) ==
  /\ pc[t] = "exit"
  /\ Crash
  /\ open' = open \ Logs
  /\ UNCHANGED <<stream, named, counts, files, minute, mtxE, log, lines>>

Tick ==
  /\ minute < MaxMinute
  /\ minute' = minute + 1
  /\ UNCHANGED <<stream, open, named, counts, files, mtxE, pc, log, lines>>

Step(t) ==
  \/ Locks(t) \/ RollingFile_close(t) \/ RollingFile_rename(t)
  \/ RollingFile_fopen(t) \/ Counts(t) \/ Writes(t) \/ destroyE(t) \/ destroyA(t) \/ exit(t)

Next ==
  \/ \E t \in Threads : Step(t) \/ Signalled(t) \/ \E l \in Logs : Calls(t, l)
  \/ Tick

Spec == Init /\ [][Next]_vars

\* Threads run.  A std::mutex is not fair, so that a thread is sure to get it only
\* if it is free again and again: strong fairness for Locks.
FairSpec ==
  Spec /\ \A t \in Threads : WF_vars(Step(t)) /\ SF_vars(Locks(t))

-----------------------------------------------------------------------------
(* Properties *)

Stopping == \E t \in Threads : pc[t] \in Stops

\* Every variable has the type of its C++ variable; the thread inside a writer is
\* the one that holds the mutex.
TypeOK ==
  /\ stream \in [Logs -> Logs \cup {"stdout", "null"}]
  /\ \A l \in Logs : stream[l] \in {l, "stdout", "null"}
  /\ open \subseteq Logs \cup {"stdout"}
  /\ counts \in [Logs -> Nat] /\ lines \in Nat
  /\ minute \in 0..MaxMinute /\ mtxE \in Threads \cup {None}
  /\ \A t \in Threads : pc[t] \in {"roll", "rename", "fopen", "count", "fwrite"} => mtxE = t

\* Until the process stops, a line handed to a log's own file finds it open, and
\* stdout is lost to a log that fell back on it only once the error log is long
\* enough to be rolled.
StreamsOpen ==
  ~Stopping =>
    /\ \A t \in Threads :
         pc[t] = "fwrite" => stream[log[t]] \in open \cup {"stdout"}
    /\ "stdout" \notin open => counts["error"] >= MAX_LINE_NUMBER

\* The files of a log, oldest first: the rolled ones by minute, then the current one.
File(l, n) == IF n <= MaxMinute THEN rolled[l][n] ELSE current[l]

Files == 0..(MaxMinute + 1)

Kept(l) == UNION {{File(l, n)[i] : i \in DOMAIN File(l, n)} : n \in Files}

\* However the threads interleave and whenever the log is rolled, the files taken
\* one after the other have the lines in the order in which they were written,
\* and no line twice.
LinesInOrder ==
  \A l \in Logs : \A m, n \in Files :
    \A i \in DOMAIN File(l, m), j \in DOMAIN File(l, n) :
      m < n \/ (m = n /\ i < j) => File(l, m)[i] < File(l, n)[j]

\* The lines that went into the file of a log stay in its files, unless a rolled
\* file has been replaced by another one of the same minute.
LostOnlyByClash == [][\A l \in Logs \ clashed' : Kept(l) \subseteq Kept(l)']_vars

\* Every call of access and log returns, or the process has been stopped.
LogReturns ==
  \A t \in Threads : pc[t] = "lock" ~> (pc[t] = "idle" \/ Stopping)
=============================================================================
