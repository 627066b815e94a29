--------------------------- MODULE Klogger_proofs ---------------------------
(***************************************************************************)
(* The files and streams of the logger, for any number of threads, lines   *)
(* and minutes, with files that cannot be opened and a process that may be *)
(* stopped in any thread between any two statements.                       *)
(***************************************************************************)
EXTENDS Klogger, TLAPS

\* The statements under the mutex.
Writing == {"roll", "rename", "fopen", "count", "fwrite"}

Shape ==
  /\ TypeOK
  /\ pc \in [Threads -> {"idle", "lock"} \cup Writing \cup Stops]
  /\ log \in [Threads -> Logs]
  /\ named \subseteq Logs /\ clashed \subseteq Logs
  /\ current \in [Logs -> Seq(Nat)]
  /\ rolled \in [Logs -> [0..MaxMinute -> Seq(Nat)]]

\* Nothing is rolled to a later minute, and no line is newer than the last one.
Past ==
  /\ \A l \in Logs : \A n \in 0..MaxMinute : n > minute => rolled[l][n] = <<>>
  /\ \A l \in Logs : \A n \in Files :
       \A i \in DOMAIN File(l, n) : File(l, n)[i] <= lines

\* A log is rolled only when it is long enough.
Counted == \A t \in Threads : pc[t] = "roll" => counts[log[t]] >= MAX_LINE_NUMBER

\* A log's own stream is closed only between fclose and the end of fopen, and stdout
\* only by an error log that is long enough.
Usable ==
  /\ \A l \in Logs : stream[l] # "null"
  /\ \A l \in Logs : stream[l] = l /\ l \notin open =>
       \E t \in Threads : pc[t] \in {"rename", "fopen"} /\ log[t] = l
  /\ "stdout" \notin open => counts["error"] >= MAX_LINE_NUMBER

-----------------------------------------------------------------------------
(* Types and the mutex *)

LEMMA ShapeInit == Init => Shape
<1> SUFFICES ASSUME Init PROVE Shape
  OBVIOUS
<1>1. TypeOK
  BY KloggerAssumption DEF Init, TypeOK, Logs
<1>2. /\ current \in [Logs -> Seq(Nat)]
      /\ rolled \in [Logs -> [0..MaxMinute -> Seq(Nat)]]
  BY DEF Init
<1> QED BY <1>1, <1>2 DEF Init, Shape, Logs

\* A line is appended to the file of one log or of none.
LEMMA AppendedTypes ==
  ASSUME Shape, NEW l \in Logs
  PROVE  /\ Appended(l) \in [Logs -> Seq(Nat)]
         /\ Appended(l) = current
            \/ /\ stream[l] = l
               /\ Appended(l) = [current EXCEPT ![l] = Append(current[l], lines + 1)]
<1>1. lines + 1 \in Nat /\ current[l] \in Seq(Nat)
  BY DEF Shape, TypeOK
<1>2. Append(current[l], lines + 1) \in Seq(Nat)
  BY <1>1
<1> QED BY <1>2 DEF Shape, Appended

\* Only the thread that holds the mutex is at a statement under it.
LEMMA ShapeStep == Shape /\ [Next]_vars => Shape'
<1> SUFFICES ASSUME Shape, [Next]_vars PROVE Shape'
  OBVIOUS
<1> USE DEF Shape, TypeOK, At
<1>1. ASSUME NEW t \in Threads, NEW l \in Logs, Calls(t, l) PROVE Shape'
  BY <1>1 DEF Calls, files, Writing
<1>2. ASSUME NEW t \in Threads, Locks(t) PROVE Shape'
  BY <1>2, KloggerAssumption DEF Locks, files, Writing
<1>3. ASSUME NEW t \in Threads, RollingFile_close(t) PROVE Shape'
  BY <1>3 DEF RollingFile_close, files, Writing
<1>4. ASSUME NEW t \in Threads, RollingFile_rename(t) PROVE Shape'
  <2>1. current' \in [Logs -> Seq(Nat)] /\ rolled' \in [Logs -> [0..MaxMinute -> Seq(Nat)]]
    <3>1. CASE UNCHANGED files
      BY <3>1 DEF files
    <3>2. CASE /\ rolled' = [rolled EXCEPT ![log[t]][minute] = current[log[t]]]
               /\ current' = [current EXCEPT ![log[t]] = <<>>]
      BY <3>2
    <3> QED BY <1>4, <3>1, <3>2 DEF RollingFile_rename
  <2>2. clashed' \subseteq Logs
    BY <1>4 DEF RollingFile_rename, files
  <2>3. /\ pc[t] = "rename" /\ pc' = [pc EXCEPT ![t] = "fopen"]
        /\ UNCHANGED <<stream, open, named, counts, minute, mtxE, log, lines>>
    BY <1>4 DEF RollingFile_rename
  <2>4. /\ pc' \in [Threads -> {"idle", "lock"} \cup Writing \cup Stops]
        /\ \A u \in Threads : pc'[u] \in Writing => mtxE' = u
    BY <2>3 DEF Writing
  <2>5. TypeOK'
    BY <2>3, <2>4 DEF Writing
  <2> QED BY <2>1, <2>2, <2>3, <2>4, <2>5
<1>5. ASSUME NEW t \in Threads, RollingFile_fopen(t) PROVE Shape'
  <2>1. log[t] \in Logs /\ pc[t] = "fopen" /\ pc' = [pc EXCEPT ![t] = "count"]
        /\ UNCHANGED <<named, counts, current, rolled, clashed, minute, mtxE, log, lines>>
    BY <1>5 DEF RollingFile_fopen, files
  <2>2. /\ stream' \in [Logs -> Logs \cup {"stdout", "null"}]
        /\ \A l \in Logs : stream'[l] \in {l, "stdout", "null"}
        /\ open' \subseteq Logs \cup {"stdout"}
    <3>1. stream \in [Logs -> Logs \cup {"stdout", "null"}]
      OBVIOUS
    <3>2. CASE /\ stream' = [stream EXCEPT ![log[t]] = log[t]]
               /\ open' = open \cup {log[t]}
      BY <2>1, <3>1, <3>2
    <3>3. CASE /\ stream' = [stream EXCEPT ![log[t]] = "stdout"]
               /\ open' = open
      BY <2>1, <3>1, <3>3
    <3> QED BY <1>5, <3>2, <3>3 DEF RollingFile_fopen
  <2>3. /\ pc' \in [Threads -> {"idle", "lock"} \cup Writing \cup Stops]
        /\ \A u \in Threads : pc'[u] \in Writing => mtxE' = u
    BY <2>1 DEF Writing
  <2>4. TypeOK'
    BY <2>1, <2>2, <2>3 DEF Writing
  <2> QED BY <2>1, <2>3, <2>4
<1>6. ASSUME NEW t \in Threads, Counts(t) PROVE Shape'
  BY <1>6 DEF Counts, files, Writing
<1>7. ASSUME NEW t \in Threads, Writes(t) PROVE Shape'
  <2>1. current' \in [Logs -> Seq(Nat)]
    BY <1>7, AppendedTypes DEF Writes
  <2>2. lines' \in Nat
    BY <1>7 DEF Writes
  <2> QED BY <1>7, <2>1, <2>2 DEF Writes, Crash, Writing, Stops
<1>8. ASSUME NEW t \in Threads, Signalled(t) PROVE Shape'
  BY <1>8 DEF Signalled, files, Writing, Stops
<1>9. ASSUME NEW t \in Threads, destroyE(t) PROVE Shape'
  <2>1. current' \in [Logs -> Seq(Nat)]
    BY <1>9, AppendedTypes DEF destroyE, Logs
  <2>2. lines' \in Nat
    BY <1>9 DEF destroyE
  <2> QED BY <1>9, <2>1, <2>2 DEF destroyE, Writing, Stops
<1>10. ASSUME NEW t \in Threads, destroyA(t) PROVE Shape'
  BY <1>10 DEF destroyA, files, Writing, Stops
<1>11. ASSUME NEW t \in Threads, exit(t) PROVE Shape'
  BY <1>11 DEF exit, files, Crash, Writing, Stops
<1>12. CASE Tick
  BY <1>12, KloggerAssumption DEF Tick, files
<1>13. CASE UNCHANGED vars
  BY <1>13 DEF vars, files
<1> QED BY <1>1, <1>2, <1>3, <1>4, <1>5, <1>6, <1>7, <1>8, <1>9, <1>10, <1>11, <1>12,
           <1>13 DEF Next, Step

THEOREM ShapeInvariant == Spec => []Shape
  BY ShapeInit, ShapeStep, PTL DEF Spec

\* The streams, counters and files of the two logs have their types at every
\* moment, and the thread inside a writer is the one that holds the mutex.
THEOREM LoggerTypeCorrect == Spec => []TypeOK
  BY ShapeInvariant, PTL DEF Shape

-----------------------------------------------------------------------------
(* The order of lines *)

LEMMA FileTypes ==
  ASSUME Shape
  PROVE  \A l \in Logs : \A n \in Files : File(l, n) \in Seq(Nat)
BY KloggerAssumption DEF Shape, File, Files

LEMMA OrderInit == Init => Past /\ LinesInOrder
<1> SUFFICES ASSUME Init PROVE Past /\ LinesInOrder
  OBVIOUS
<1>1. \A l \in Logs : \A n \in Files : File(l, n) = <<>>
  BY DEF Init, File, Files
<1> QED BY <1>1 DEF Init, Past, LinesInOrder

\* A line goes behind all others of its log.
LEMMA AppendedOrder ==
  ASSUME Shape, Past, LinesInOrder, NEW l \in Logs,
         current' = Appended(l), UNCHANGED <<rolled, minute>>,
         lines' = lines + 1 \/ (lines' = lines /\ current' = current)
  PROVE  Past' /\ LinesInOrder'
<1>1. CASE current' = current
  <2>1. lines \in Nat /\ lines' \in Nat /\ lines <= lines'
    BY DEF Shape, TypeOK
  <2>2. Past'
    <3>1. ASSUME NEW k \in Logs, NEW n \in Files, NEW i \in DOMAIN File(k, n)'
          PROVE  File(k, n)'[i] <= lines'
      <4>1. File(k, n)' = File(k, n)
        BY <1>1 DEF File
      <4>2. File(k, n)[i] \in Nat /\ File(k, n)[i] <= lines
        BY <3>1, <4>1, FileTypes DEF Past
      <4> QED BY <2>1, <4>1, <4>2
    <3> QED BY <3>1 DEF Past, Files
  <2>3. LinesInOrder'
    BY <1>1 DEF LinesInOrder, File, Files
  <2> QED BY <2>2, <2>3
<1>2. CASE current' # current
  <2> DEFINE c == current[l]
  <2>1. /\ current' = [current EXCEPT ![l] = Append(c, lines + 1)]
        /\ lines' = lines + 1 /\ lines \in Nat /\ c \in Seq(Nat)
        /\ current \in [Logs -> Seq(Nat)]
    BY <1>2, AppendedTypes DEF Shape, TypeOK
  <2>2. /\ DOMAIN current'[l] = 1..(Len(c) + 1)
        /\ DOMAIN c = 1..Len(c)
        /\ \A i \in 1..Len(c) : current'[l][i] = c[i]
        /\ current'[l][Len(c) + 1] = lines + 1
    BY <2>1
  <2>3. \A k \in Logs \ {l} : current'[k] = current[k]
    BY <2>1
  <2>4. \A k \in Logs : \A n \in Files :
          File(k, n)' = IF k = l /\ n = MaxMinute + 1 THEN current'[l] ELSE File(k, n)
    BY <2>3, KloggerAssumption DEF File, Files
  <2>5. File(l, MaxMinute + 1) = c
    BY KloggerAssumption DEF File
  <2>6. \A k \in Logs : \A n \in Files : File(k, n) \in Seq(Nat)
    BY FileTypes
  <2>7. MaxMinute + 1 \in Files
    BY KloggerAssumption DEF Files
  <2>8. Past'
    <3>1. ASSUME NEW k \in Logs, NEW n \in Files, NEW i \in DOMAIN File(k, n)'
          PROVE  File(k, n)'[i] <= lines'
      <4>1. CASE i \in DOMAIN File(k, n)
        <5>1. File(k, n)'[i] = File(k, n)[i]
          BY <2>2, <2>4, <2>5, <4>1
        <5>2. File(k, n)[i] \in Nat /\ File(k, n)[i] <= lines
          BY <2>6, <4>1 DEF Past
        <5> QED BY <2>1, <5>1, <5>2
      <4>2. CASE i \notin DOMAIN File(k, n)
        <5>1. k = l /\ n = MaxMinute + 1 /\ i = Len(c) + 1
          BY <2>2, <2>4, <2>5, <4>2
        <5>2. File(k, n)'[i] = lines + 1
          BY <2>2, <2>4, <5>1
        <5> QED BY <2>1, <5>2
      <4> QED BY <4>1, <4>2
    <3> QED BY <3>1 DEF Past, Files
  <2>9. LinesInOrder'
    <3> SUFFICES ASSUME NEW k \in Logs, NEW m \in Files, NEW n \in Files,
                        NEW i \in DOMAIN File(k, m)', NEW j \in DOMAIN File(k, n)',
                        m < n \/ (m = n /\ i < j)
                 PROVE  File(k, m)'[i] < File(k, n)'[j]
      BY DEF LinesInOrder, Files
    <3>1. CASE i \in DOMAIN File(k, m) /\ j \in DOMAIN File(k, n)
      <4>1. File(k, m)'[i] = File(k, m)[i] /\ File(k, n)'[j] = File(k, n)[j]
        BY <2>2, <2>4, <2>5, <3>1
      <4>2. File(k, m)[i] < File(k, n)[j]
        BY <3>1 DEF LinesInOrder
      <4> QED BY <4>1, <4>2
    <3>2. CASE i \notin DOMAIN File(k, m)
      <4>1. k = l /\ m = MaxMinute + 1 /\ i = Len(c) + 1
        BY <2>2, <2>4, <2>5, <3>2
      <4>2. n = m
        BY <4>1, KloggerAssumption DEF Files
      <4>3. j \in 1..(Len(c) + 1) /\ Len(c) \in Nat
        BY <2>1, <2>2, <2>4, <4>1, <4>2
      <4> QED BY <4>1, <4>2, <4>3, KloggerAssumption DEF Files
    <3>3. CASE i \in DOMAIN File(k, m) /\ j \notin DOMAIN File(k, n)
      <4>1. File(k, n)'[j] = lines + 1
        BY <2>2, <2>4, <2>5, <3>3
      <4>2. File(k, m)'[i] = File(k, m)[i]
        BY <2>2, <2>4, <2>5, <3>3
      <4>3. File(k, m)[i] \in Nat /\ File(k, m)[i] <= lines
        BY <2>6, <3>3 DEF Past
      <4> QED BY <2>1, <4>1, <4>2, <4>3
    <3> QED BY <3>1, <3>2, <3>3
  <2> QED BY <2>8, <2>9
<1> QED BY <1>1, <1>2

\* Rolling moves the lines of a log to a file that is older than none of them.
LEMMA RenamedOrder ==
  ASSUME Shape, Past, LinesInOrder, NEW l \in Logs,
         rolled' = [rolled EXCEPT ![l][minute] = current[l]],
         current' = [current EXCEPT ![l] = <<>>], UNCHANGED <<minute, lines>>
  PROVE  Past' /\ LinesInOrder'
<1>1. /\ minute \in 0..MaxMinute /\ MaxMinute \in Nat /\ minute \in Files
      /\ MaxMinute + 1 \in Files /\ MaxMinute + 1 # minute
  BY KloggerAssumption DEF Shape, TypeOK, Files
<1>2. \A k \in Logs : \A n \in Files :
        File(k, n)' = IF k # l THEN File(k, n)
                      ELSE IF n = minute THEN File(l, MaxMinute + 1)
                      ELSE IF n = MaxMinute + 1 THEN <<>> ELSE File(l, n)
  BY <1>1 DEF File, Files, Shape
<1>3. \A n \in Files : n > minute /\ n # MaxMinute + 1 => File(l, n) = <<>>
  BY <1>1 DEF Past, File, Files
<1>4. Past'
  <2>1. \A k \in Logs : \A n \in 0..MaxMinute : n > minute' => rolled'[k][n] = <<>>
    BY <1>1 DEF Past, Shape
  <2>2. ASSUME NEW k \in Logs, NEW n \in Files, NEW i \in DOMAIN File(k, n)'
        PROVE  File(k, n)'[i] <= lines'
    BY <1>1, <1>2, <2>2 DEF Past
  <2> QED BY <2>1, <2>2 DEF Past, Files
<1>5. LinesInOrder'
  <2> SUFFICES ASSUME NEW k \in Logs, NEW m \in Files, NEW n \in Files,
                      NEW i \in DOMAIN File(k, m)', NEW j \in DOMAIN File(k, n)',
                      m < n \/ (m = n /\ i < j)
               PROVE  File(k, m)'[i] < File(k, n)'[j]
    BY DEF LinesInOrder, Files
  <2>1. CASE k # l
    BY <1>2, <2>1 DEF LinesInOrder
  <2>2. CASE k = l
    <3>1. m <= minute /\ n <= minute
      BY <1>1, <1>2, <1>3, <2>2 DEF Files
    <3> DEFINE from(f) == IF f = minute THEN MaxMinute + 1 ELSE f
    <3>2. \A f \in Files : f <= minute =>
            from(f) \in Files /\ File(k, f)' = File(k, from(f))
      BY <1>1, <1>2, <2>2 DEF Files
    <3>3. from(m) < from(n) \/ (from(m) = from(n) /\ i < j)
      BY <1>1, <3>1 DEF Files
    <3> HIDE DEF from
    <3> QED BY <3>1, <3>2, <3>3, <2>2 DEF LinesInOrder
  <2> QED BY <2>1, <2>2
<1> QED BY <1>4, <1>5

LEMMA OrderStep ==
  Shape /\ Past /\ LinesInOrder /\ [Next]_vars => Past' /\ LinesInOrder'
<1> SUFFICES ASSUME Shape, Past, LinesInOrder, [Next]_vars PROVE Past' /\ LinesInOrder'
  OBVIOUS
<1>1. ASSUME UNCHANGED <<files, minute, lines>> PROVE Past' /\ LinesInOrder'
  <2>1. UNCHANGED <<current, rolled, minute, lines>>
    BY <1>1 DEF files
  <2> QED BY <2>1 DEF Past, LinesInOrder, File, Files
<1>2. ASSUME NEW t \in Threads, NEW l \in Logs, Calls(t, l) PROVE Past' /\ LinesInOrder'
  BY <1>1, <1>2 DEF Calls
<1>3. ASSUME NEW t \in Threads, RollingFile_rename(t) PROVE Past' /\ LinesInOrder'
  <2>1. log[t] \in Logs /\ UNCHANGED <<minute, lines>>
    BY <1>3 DEF RollingFile_rename, Shape
  <2>2. \/ UNCHANGED files
        \/ /\ rolled' = [rolled EXCEPT ![log[t]][minute] = current[log[t]]]
           /\ current' = [current EXCEPT ![log[t]] = <<>>]
    BY <1>3 DEF RollingFile_rename
  <2> QED BY <1>1, <2>1, <2>2, RenamedOrder
<1>4. ASSUME NEW t \in Threads, Writes(t) PROVE Past' /\ LinesInOrder'
  <2>1. log[t] \in Logs /\ current' = Appended(log[t]) /\ lines' = lines + 1
        /\ UNCHANGED <<rolled, minute>>
    BY <1>4 DEF Writes, Shape
  <2> QED BY <2>1, AppendedOrder
<1>5. ASSUME NEW t \in Threads, destroyE(t) PROVE Past' /\ LinesInOrder'
  <2>1. "error" \in Logs /\ current' = Appended("error") /\ UNCHANGED <<rolled, minute>>
    BY <1>5 DEF destroyE, Logs
  <2>2. lines' = lines + 1 \/ (lines' = lines /\ current' = current)
    BY <1>5, <2>1 DEF destroyE, Appended
  <2> QED BY <2>1, <2>2, AppendedOrder
<1>6. ASSUME NEW t \in Threads,
             \/ Locks(t) \/ RollingFile_close(t) \/ RollingFile_fopen(t) \/ Counts(t)
             \/ destroyA(t) \/ exit(t) \/ Signalled(t)
      PROVE  Past' /\ LinesInOrder'
  BY <1>1, <1>6 DEF Locks, RollingFile_close, RollingFile_fopen, Counts, destroyA, exit,
                    Signalled
<1>7. CASE Tick
  <2>1. UNCHANGED <<current, rolled, lines>> /\ minute' > minute /\ minute \in Nat
        /\ minute' \in Nat
    BY <1>7 DEF Tick, files, Shape, TypeOK
  <2>2. Past'
    BY <2>1 DEF Past, File, Files
  <2>3. LinesInOrder'
    BY <2>1 DEF LinesInOrder, File, Files
  <2> QED BY <2>2, <2>3
<1>8. CASE UNCHANGED vars
  BY <1>1, <1>8 DEF vars
<1> QED BY <1>2, <1>3, <1>4, <1>5, <1>6, <1>7, <1>8 DEF Next, Step

\* The files of a log have its lines in the order of writing, and none twice, for
\* every interleaving of writers, rolling, the clock and the handler that stops
\* the process.
THEOREM FilesInOrder == Spec => []LinesInOrder
  BY OrderInit, OrderStep, ShapeInvariant, PTL DEF Spec

-----------------------------------------------------------------------------
(* Nothing is lost *)

LEMMA KeptStep ==
  ASSUME Shape, [Next]_vars, NEW l \in Logs \ clashed'
  PROVE  Kept(l) \subseteq Kept(l)'
<1>1. ASSUME UNCHANGED files PROVE Kept(l) \subseteq Kept(l)'
  BY <1>1 DEF files, Kept, File, Files
<1>2. ASSUME NEW t \in Threads, RollingFile_rename(t) PROVE Kept(l) \subseteq Kept(l)'
  <2>1. CASE UNCHANGED files
    BY <1>1, <2>1
  <2>2. CASE /\ rolled' = [rolled EXCEPT ![log[t]][minute] = current[log[t]]]
             /\ current' = [current EXCEPT ![log[t]] = <<>>]
             /\ rolled[log[t]][minute] = <<>> \/ log[t] \in clashed'
    <3>1. /\ log[t] \in Logs /\ minute \in 0..MaxMinute /\ MaxMinute \in Nat
          /\ minute' = minute
      BY <1>2, KloggerAssumption DEF Shape, TypeOK, RollingFile_rename
    <3>2. CASE l # log[t]
      <4>1. \A n \in Files : File(l, n)' = File(l, n)
        BY <2>2, <3>1, <3>2 DEF File, Files, Shape
      <4> QED BY <4>1 DEF Kept, Files
    <3>3. CASE l = log[t]
      <4>1. ASSUME NEW n \in Files, NEW i \in DOMAIN File(l, n)
            PROVE  \E m \in Files : i \in DOMAIN File(l, m)' /\ File(l, m)'[i] = File(l, n)[i]
        <5>1. CASE n = MaxMinute + 1
          <6>1. \A m \in 0..MaxMinute : m = minute => File(l, m)' = File(l, n)
            BY <2>2, <3>1, <3>3, <5>1 DEF File, Shape
          <6> QED BY <3>1, <4>1, <6>1 DEF Files
        <5>2. CASE n # MaxMinute + 1
          <6>1. n \in 0..MaxMinute /\ n # minute
            BY <2>2, <3>1, <3>3, <4>1, <5>2 DEF File, Files
          <6>2. File(l, n)' = File(l, n)
            BY <2>2, <3>1, <3>3, <6>1 DEF File, Shape
          <6> QED BY <4>1, <6>2
        <5> QED BY <5>1, <5>2
      <4> QED BY <4>1 DEF Kept, Files
    <3> QED BY <3>2, <3>3
  <2> QED BY <1>2, <2>1, <2>2 DEF RollingFile_rename
<1>3. ASSUME NEW k \in Logs, current' = Appended(k), rolled' = rolled
      PROVE  Kept(l) \subseteq Kept(l)'
  <2>1. CASE current' = current
    BY <1>3, <2>1 DEF Kept, File, Files
  <2>2. CASE current' # current
    <3>1. current' = [current EXCEPT ![k] = Append(current[k], lines + 1)]
      BY <1>3, <2>2, AppendedTypes
    <3>2. \A i \in DOMAIN current[l] : i \in DOMAIN current'[l] /\ current'[l][i] = current[l][i]
      BY <3>1 DEF Shape
    <3>3. \A n \in Files : \A i \in DOMAIN File(l, n) :
            i \in DOMAIN File(l, n)' /\ File(l, n)'[i] = File(l, n)[i]
      BY <1>3, <3>2 DEF File
    <3> QED BY <3>3 DEF Kept, Files
  <2> QED BY <2>1, <2>2
<1>4. ASSUME NEW t \in Threads, Writes(t) \/ destroyE(t) PROVE Kept(l) \subseteq Kept(l)'
  BY <1>3, <1>4 DEF Writes, destroyE, Shape, Logs
<1>5. ASSUME NEW t \in Threads,
             \/ Locks(t) \/ RollingFile_close(t) \/ RollingFile_fopen(t) \/ Counts(t)
             \/ destroyA(t) \/ exit(t) \/ Signalled(t) \/ \E k \in Logs : Calls(t, k)
      PROVE  Kept(l) \subseteq Kept(l)'
  BY <1>1, <1>5 DEF Locks, RollingFile_close, RollingFile_fopen, Counts, destroyA, exit,
                    Signalled, Calls
<1>6. CASE Tick \/ UNCHANGED vars
  BY <1>1, <1>6 DEF Tick, vars
<1> QED BY <1>2, <1>4, <1>5, <1>6 DEF Next, Step

\* A line that is in a file of a log stays in one, whatever the threads, rolling and
\* destroy do, unless a rolled file has been replaced by one of the same minute.
THEOREM NothingLostByRolling == Spec => LostOnlyByClash
<1>1. Shape /\ [Next]_vars => [\A l \in Logs \ clashed' : Kept(l) \subseteq Kept(l)']_vars
  BY KeptStep
<1> QED BY <1>1, ShapeInvariant, PTL DEF Spec, LostOnlyByClash

-----------------------------------------------------------------------------
(* The streams *)

LEMMA UsableInit == Init => Counted /\ Usable
<1> SUFFICES ASSUME Init PROVE Counted /\ Usable
  OBVIOUS
<1>1. \A l \in Logs : stream[l] # "null" /\ (stream[l] = l => l \in open)
  BY DEF Init, Logs
<1>2. "stdout" \in open /\ \A t \in Threads : pc[t] = "idle"
  BY DEF Init
<1> QED BY <1>1, <1>2 DEF Counted, Usable

\* A process that has begun to stop never goes on.
LEMMA StoppingStays == Shape /\ Stopping /\ [Next]_vars => Stopping'
<1> SUFFICES ASSUME Shape, Stopping, [Next]_vars PROVE Stopping'
  OBVIOUS
<1> USE DEF Stops, At, Shape
<1>1. PICK s \in Threads : pc[s] \in Stops
  BY DEF Stopping
<1>2. ASSUME NEW t \in Threads, Step(t) PROVE pc'[s] \in Stops
  BY <1>1, <1>2 DEF Step, Locks, RollingFile_close, RollingFile_rename, RollingFile_fopen,
       Counts, Writes, destroyE, destroyA, exit, Crash
<1>3. ASSUME NEW t \in Threads, Signalled(t) \/ \E l \in Logs : Calls(t, l)
      PROVE  pc'[s] \in Stops
  BY <1>1, <1>3 DEF Signalled, Calls
<1>4. CASE Tick \/ UNCHANGED vars
  BY <1>1, <1>4 DEF Tick, vars, Stopping
<1> QED BY <1>1, <1>2, <1>3, <1>4 DEF Next, Stopping

LEMMA CountedStep == Shape /\ Counted /\ [Next]_vars => Counted'
<1> SUFFICES ASSUME Shape, Counted, [Next]_vars PROVE Counted'
  OBVIOUS
<1> USE DEF At
<1>1. ASSUME UNCHANGED <<counts, log>>,
             \A t \in Threads : pc'[t] = "roll" => pc[t] = "roll"
      PROVE  Counted'
  BY <1>1 DEF Counted
<1>2. ASSUME NEW t \in Threads, NEW l \in Logs, Calls(t, l) PROVE Counted'
  BY <1>2 DEF Calls, Counted, Shape
<1>3. ASSUME NEW t \in Threads, Locks(t) PROVE Counted'
  BY <1>3 DEF Locks, Counted, Shape
<1>4. ASSUME NEW t \in Threads, Counts(t) PROVE Counted'
  <2>1. /\ UNCHANGED log /\ log \in [Threads -> Logs]
        /\ \A u \in Threads : pc'[u] = "roll" => pc[u] = "roll"
    BY <1>4 DEF Counts, Shape
  <2>2. /\ counts \in [Logs -> Nat] /\ log[t] \in Logs
        /\ counts' = [counts EXCEPT ![log[t]] = @ + 1]
    BY <1>4 DEF Counts, Shape, TypeOK
  <2>3. \A l \in Logs : counts'[l] \in Nat /\ counts'[l] >= counts[l]
    BY <2>2
  <2>4. ASSUME NEW u \in Threads, pc'[u] = "roll"
        PROVE  counts'[log'[u]] >= MAX_LINE_NUMBER
    <3>1. counts[log[u]] >= MAX_LINE_NUMBER
      BY <2>1, <2>4 DEF Counted
    <3>2. /\ counts[log[u]] \in Nat /\ counts'[log[u]] \in Nat
          /\ counts'[log[u]] >= counts[log[u]]
      BY <2>1, <2>2, <2>3
    <3> QED BY <2>1, <3>1, <3>2, KloggerAssumption
  <2> QED BY <2>4 DEF Counted
<1>5. ASSUME NEW t \in Threads,
             \/ RollingFile_close(t) \/ RollingFile_rename(t) \/ RollingFile_fopen(t)
             \/ Writes(t) \/ destroyE(t) \/ destroyA(t) \/ exit(t) \/ Signalled(t)
      PROVE  Counted'
  BY <1>1, <1>5 DEF RollingFile_close, RollingFile_rename, RollingFile_fopen, Writes,
       destroyE, destroyA, exit, Signalled, Crash, Shape
<1>6. CASE Tick \/ UNCHANGED vars
  BY <1>1, <1>6 DEF Tick, vars
<1> QED BY <1>2, <1>3, <1>4, <1>5, <1>6 DEF Next, Step

LEMMA UsableStep ==
  ASSUME Shape, Counted, Usable, [Next]_vars, ~Stopping'
  PROVE  Usable'
<1> USE DEF At
<1>1. ASSUME UNCHANGED <<stream, open, log>>,
             counts' = counts \/ \E l \in Logs : counts' = [counts EXCEPT ![l] = @ + 1],
             \A t \in Threads : pc[t] \in {"rename", "fopen"} => pc'[t] \in {"rename", "fopen"}
      PROVE  Usable'
  <2>1. counts'["error"] >= counts["error"] /\ {counts["error"], counts'["error"]} \subseteq Nat
    BY <1>1 DEF Shape, TypeOK, Logs
  <2>2. counts["error"] >= MAX_LINE_NUMBER => counts'["error"] >= MAX_LINE_NUMBER
    BY <2>1, KloggerAssumption
  <2> QED BY <1>1, <2>2 DEF Usable
<1>2. ASSUME NEW t \in Threads, NEW l \in Logs, Calls(t, l) PROVE Usable'
  BY <1>2 DEF Calls, Usable, Shape
<1>3. ASSUME NEW t \in Threads, Locks(t) \/ Counts(t) \/ RollingFile_rename(t)
      PROVE  Usable'
  BY <1>1, <1>3 DEF Locks, Counts, RollingFile_rename, Shape
<1>4. ASSUME NEW t \in Threads, RollingFile_close(t) PROVE Usable'
  <2>1. CASE ~Rolls(log[t])
    BY <1>1, <1>4, <2>1 DEF RollingFile_close, Shape
  <2>2. CASE Rolls(log[t])
    <3>1. /\ UNCHANGED <<stream, counts, log>> /\ log[t] \in Logs
          /\ open' = open \ {stream[log[t]]} /\ pc' = [pc EXCEPT ![t] = "rename"]
          /\ pc[t] = "roll" /\ pc \in [Threads -> {"idle", "lock"} \cup Writing \cup Stops]
      BY <1>4, <2>2 DEF RollingFile_close, Shape
    <3>2. CASE stream[log[t]] = log[t]
      BY <3>1, <3>2 DEF Usable, Logs
    <3>3. CASE stream[log[t]] # log[t]
      <4>1. log[t] = "error" /\ stream[log[t]] = "stdout"
        BY <2>2, <3>1, <3>3 DEF Rolls, Logs, Shape, TypeOK, Usable
      <4>2. counts["error"] >= MAX_LINE_NUMBER
        BY <3>1, <4>1 DEF Counted
      <4>3. \A l \in Logs : l \in open' <=> l \in open
        BY <3>1, <4>1 DEF Logs
      <4> QED BY <3>1, <4>2, <4>3 DEF Usable
    <3> QED BY <3>2, <3>3
  <2> QED BY <2>1, <2>2
<1>5. ASSUME NEW t \in Threads, RollingFile_fopen(t) PROVE Usable'
  <2>1. /\ UNCHANGED <<counts, log>> /\ log[t] \in Logs
        /\ \/ stream' = [stream EXCEPT ![log[t]] = log[t]] /\ open' = open \cup {log[t]}
           \/ stream' = [stream EXCEPT ![log[t]] = "stdout"] /\ open' = open
        /\ stream \in [Logs -> Logs \cup {"stdout", "null"}]
        /\ \A u \in Threads \ {t} : pc'[u] = pc[u]
    BY <1>5 DEF RollingFile_fopen, Shape, TypeOK
  <2>2. "stdout" \notin open' => counts'["error"] >= MAX_LINE_NUMBER
    BY <2>1 DEF Usable
  <2>3. ASSUME NEW l \in Logs
        PROVE  /\ stream'[l] # "null"
               /\ stream'[l] = l /\ l \notin open' =>
                    \E u \in Threads : pc'[u] \in {"rename", "fopen"} /\ log'[u] = l
    BY <2>1 DEF Usable, Logs
  <2> QED BY <2>2, <2>3 DEF Usable
<1>6. ASSUME NEW t \in Threads, Writes(t) PROVE Usable'
  <2>1. pc' = [pc EXCEPT ![t] = "idle"]
    BY <1>6 DEF Writes, Crash, Stopping, Stops
  <2> QED BY <1>1, <1>6, <2>1 DEF Writes, Shape
<1>7. ASSUME NEW t \in Threads, destroyE(t) \/ destroyA(t) \/ exit(t) \/ Signalled(t)
      PROVE  Usable'
  <2>1. pc'[t] \in Stops
    BY <1>7 DEF destroyE, destroyA, exit, Signalled, Crash, Stops, Shape
  <2> QED BY <2>1 DEF Stopping
<1>8. CASE Tick \/ UNCHANGED vars
  BY <1>1, <1>8 DEF Tick, vars
<1> QED BY <1>2, <1>3, <1>4, <1>5, <1>6, <1>7, <1>8 DEF Next, Step

LEMMA UsableGivesStreamsOpen ==
  ASSUME Shape, ~Stopping => Usable
  PROVE  StreamsOpen
<1> SUFFICES ASSUME Usable, NEW t \in Threads, pc[t] = "fwrite"
             PROVE  stream[log[t]] \in open \cup {"stdout"}
  BY DEF StreamsOpen, Usable
<1>1. \A u \in Threads : pc[u] \notin {"rename", "fopen"}
  BY DEF Shape, TypeOK
<1> QED BY <1>1 DEF Usable, Shape, TypeOK

\* Until the process stops, a writer finds its log's own stream open, though another
\* thread may have closed it and failed to open it again just before; and stdout is
\* closed only by an error log that is long enough to be rolled.
THEOREM StreamsStayOpen == Spec => []StreamsOpen
<1>1. Shape /\ Counted /\ (~Stopping => Usable) /\ [Next]_vars
        => Counted' /\ (~Stopping' => Usable')
  BY CountedStep, UsableStep, StoppingStays
<1>2. Init => Counted /\ (~Stopping => Usable)
  BY UsableInit
<1> QED BY <1>1, <1>2, ShapeInvariant, UsableGivesStreamsOpen, PTL DEF Spec
=============================================================================
