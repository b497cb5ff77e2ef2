-------------------------------- MODULE Glog --------------------------------
(***************************************************************************)
(* The logger (golang/glog) that the service writes its errors to and dies *)
(* by: goroutines format lines in buffers from a free list, and write them *)
(* under one mutex to a file per severity, through a buffer that a daemon  *)
(* flushes; files are rotated by size; a fatal line flushes and exits.     *)
(*                                                                         *)
(* A line is a number, and has size one.  Headers, stack traces and the    *)
(* trace location add bytes to a line and are left out, and so are the     *)
(* counters of Stats.                                                      *)
(***************************************************************************)
EXTENDS Integers, Sequences, SequencesExt, FiniteSets

CONSTANTS Goroutines,
          Severities,       \* what the goroutines log at, of infoLog .. fatalLog
          MaxSize,          \* of a file, whose header has size one
          bufferSize,       \* of a bufio.Writer
          stderrThreshold, toStderr,   \* flags
          FilesFillSlowly,  \* a file is not filled within the second it was created in
          MaxLines,         \* bound: lines logged
          MaxCreateFails,   \* bound: files that cannot be created
          MaxTime           \* bound: seconds

infoLog == 0
fatalLog == 3

\* No goroutine; still running.
None == -1

NoFile == [name |-> <<>>, nbytes |-> 0, pending |-> <<>>]

VARIABLES mu, pc,
          line, sev, buf,     \* of each goroutine: the line it logs
          text, freeList,     \* the contents of the buffers, and the free ones
          lines,              \* lines begun, by severity; lines[n] is that of line n
          file,               \* per severity NoFile or [name, nbytes, pending]
          disk,               \* the contents of the files by name
          stderr,             \* lines written to standard error
          order,              \* lines in the order of their output
          now, createFails, exited, timedOut

vars == <<mu, pc, line, sev, buf, text, freeList, lines, file, disk, stderr, order, now,
          createFails, exited, timedOut>>

Levels == infoLog .. fatalLog

Init ==
  /\ mu = None
  /\ pc = [g \in Goroutines |-> "idle"]
  /\ line = [g \in Goroutines |-> 0]
  /\ sev = [g \in Goroutines |-> infoLog]
  /\ buf = [g \in Goroutines |-> 0]
  /\ text = <<>>
  /\ freeList = <<>>
  /\ lines = <<>>
  /\ file = [s \in Levels |-> NoFile]
  /\ disk = [n \in Levels \X (0 .. MaxTime) |-> <<>>]
  /\ stderr = {}
  /\ order = <<>>
  /\ now = 0
  /\ createFails = 0
  /\ exited = None
  /\ timedOut = FALSE

Running == exited = None

-----------------------------------------------------------------------------
(* Files.  A state of the files is [file, disk, fails, broken]; broken once *)
(* a file could not be created.                                            *)

FileState == [file |-> file, disk |-> disk, fails |-> createFails, broken |-> FALSE]

\* bufio.Writer.Flush
FlushOne(w, s) ==
  IF w.file[s] = NoFile THEN w
  ELSE [w EXCEPT !.disk[w.file[s].name] = @ \o w.file[s].pending, !.file[s].pending = <<>>]

\* syncBuffer.rotateFile: logName has a resolution of one second, os.Create
\* empties a file that exists.
RotateTo(w, s) ==
  LET v == FlushOne(w, s)
      name == <<s, now>>
  IN  [v EXCEPT !.disk[name] = <<>>, !.file[s] = [name |-> name, nbytes |-> 1, pending |-> <<>>]]

\* rotateFile with create failing or not.
rotateFile(w, s) ==
  {RotateTo(w, s)} \cup
  (IF w.fails < MaxCreateFails THEN {[FlushOne(w, s) EXCEPT !.fails = @ + 1, !.broken = TRUE]} ELSE {})

\* bufio.Writer.Write: what does not fit any more goes to the file first.
Buffer(w, s, data) ==
  LET v == IF Len(w.file[s].pending) + 1 > bufferSize THEN FlushOne(w, s) ELSE w
  IN  [v EXCEPT !.file[s].pending = Append(@, data), !.file[s].nbytes = @ + 1]

\* syncBuffer.Write
FileWrite(w, s, data) ==
  IF w.broken THEN {w}
  ELSE IF w.file[s].nbytes + 1 >= MaxSize
  THEN {IF v.broken THEN v ELSE Buffer(v, s, data) : v \in rotateFile(w, s)}
  ELSE {Buffer(w, s, data)}

\* Apply the set-valued step F to severities s, s - 1, ..., infoLog.
Down(F(_, _), w, s) ==
  LET down[k \in -1 .. fatalLog] ==
        IF k = -1 THEN {w} ELSE UNION {F(v, s - k) : v \in down[k - 1]}
  IN  down[s]

\* One severity of createFiles, which stops at a file that exists.
CreateOne(w, s) == IF w.broken \/ w.file[s] # NoFile THEN {w} ELSE rotateFile(w, s)

createFiles(w, s) == Down(CreateOne, w, s)

\* The writes of output to the files of s and below.
WriteAll(w, s, data) == Down(LAMBDA v, k : FileWrite(v, k, data), w, s)

flushAll(w) == FlushOne(FlushOne(FlushOne(FlushOne(w, 3), 2), 1), 0)

SetFiles(w) ==
  /\ file' = w.file
  /\ disk' = w.disk
  /\ createFails' = w.fails

\* With FilesFillSlowly a second passes before a file is rotated.
Fresh == FilesFillSlowly => \A s \in Levels : file[s] # NoFile => file[s].name[2] < now \/ file[s].nbytes + 1 < MaxSize

-----------------------------------------------------------------------------
(* Logging a line                                                          *)

\* print, printf, println, printWithFileLine: header, which takes a buffer.
getBuffer(g, s) ==
  /\ Running /\ pc[g] = "idle" /\ Len(lines) < MaxLines
  /\ lines' = Append(lines, s)
  /\ line' = [line EXCEPT ![g] = Len(lines) + 1]
  /\ sev' = [sev EXCEPT ![g] = s]
  /\ IF freeList # <<>>
     THEN /\ buf' = [buf EXCEPT ![g] = Head(freeList)]
          /\ freeList' = Tail(freeList)
          /\ text' = [text EXCEPT ![Head(freeList)] = 0]
     ELSE /\ buf' = [buf EXCEPT ![g] = Len(text) + 1]
          /\ text' = Append(text, 0)
          /\ UNCHANGED freeList
  /\ pc' = [pc EXCEPT ![g] = "format"]
  /\ UNCHANGED <<mu, file, disk, stderr, order, now, createFails, exited, timedOut>>

Format(g) ==
  /\ Running /\ pc[g] = "format"
  /\ text' = [text EXCEPT ![buf[g]] = line[g]]
  /\ pc' = [pc EXCEPT ![g] = "lock"]
  /\ UNCHANGED <<mu, line, sev, buf, freeList, lines, file, disk, stderr, order, now, createFails, exited, timedOut>>

BugLock(g) ==
  /\ Running /\ pc[g] = "lock" /\ mu = None
  /\ mu' = g
  /\ pc' = [pc EXCEPT ![g] = "output"]
  /\ freeList' = <<buf[g]>> \o freeList
  /\ UNCHANGED <<line, sev, buf, text, lines, file, disk, stderr, order, now, createFails, exited, timedOut>>

Lock(g) ==
  /\ Running /\ pc[g] = "lock" /\ mu = None
  /\ mu' = g
  /\ pc' = [pc EXCEPT ![g] = "output"]
  /\ UNCHANGED <<line, sev, buf, text, freeList, lines, file, disk, stderr, order, now, createFails, exited, timedOut>>

\* output, with l.mu held: the files, and what a failure to create one does.
Output(g) ==
  LET data == text[buf[g]]
      onStderr == toStderr \/ sev[g] >= stderrThreshold
  IN  /\ Running /\ pc[g] = "output" /\ Fresh
      /\ \E w \in (IF toStderr THEN {FileState} ELSE createFiles(FileState, sev[g])) :
           \/ \* "Make sure the message appears somewhere", then exit
              /\ w.broken
              /\ stderr' = stderr \cup {data}
              /\ SetFiles(flushAll(w))
              /\ exited' = 2
              /\ UNCHANGED <<mu, pc, freeList, order>>
           \/ /\ ~w.broken
              /\ stderr' = IF onStderr THEN stderr \cup {data} ELSE stderr
              /\ \E v \in (IF toStderr THEN {w} ELSE WriteAll(w, sev[g], data)) :
                   IF v.broken
                   THEN \* syncBuffer.Write calls exit
                        /\ SetFiles(flushAll(v))
                        /\ exited' = 2
                        /\ UNCHANGED <<mu, pc, freeList, order>>
                   ELSE /\ SetFiles(v)
                        /\ order' = Append(order, line[g])
                        /\ mu' = None
                        /\ freeList' = IF sev[g] = fatalLog THEN freeList ELSE <<buf[g]>> \o freeList
                        /\ pc' = [pc EXCEPT ![g] = IF sev[g] = fatalLog THEN "flush" ELSE "idle"]
                        /\ UNCHANGED exited
      /\ UNCHANGED <<line, sev, buf, text, lines, now, timedOut>>

\* A fatal line: timeoutFlush, whose goroutine flushes under the mutex or
\* does not get there in ten seconds, and os.Exit.
timeoutFlush(g) ==
  /\ Running /\ pc[g] = "flush"
  /\ \/ mu = None /\ SetFiles(flushAll(FileState)) /\ UNCHANGED timedOut
     \/ timedOut' = TRUE /\ UNCHANGED <<file, disk, createFails>>
  /\ pc' = [pc EXCEPT ![g] = "exit"]
  /\ UNCHANGED <<mu, line, sev, buf, text, freeList, lines, stderr, order, now, exited>>

Exit(g) ==
  /\ Running /\ pc[g] = "exit"
  /\ exited' = 255
  /\ UNCHANGED <<mu, pc, line, sev, buf, text, freeList, lines, file, disk, stderr, order, now, createFails, timedOut>>

\* lockAndFlushAll, from Flush or from the daemon's ticker.
lockAndFlushAll ==
  /\ Running /\ mu = None
  /\ SetFiles(flushAll(FileState))
  /\ file' # file
  /\ UNCHANGED <<mu, pc, line, sev, buf, text, freeList, lines, stderr, order, now, exited, timedOut>>

\* The clock, which only matters once a file carries the present second.
Tick ==
  /\ Running /\ now < MaxTime
  /\ \E s \in Levels : file[s] # NoFile /\ file[s].name[2] = now
  /\ now' = now + 1
  /\ UNCHANGED <<mu, pc, line, sev, buf, text, freeList, lines, file, disk, stderr, order, createFails, exited, timedOut>>

Step(g) ==
  \/ Format(g)
  \/ Lock(g)
  \/ Output(g)
  \/ timeoutFlush(g)
  \/ Exit(g)

Next ==
  \/ \E g \in Goroutines : Step(g) \/ \E s \in Severities : getBuffer(g, s)
  \/ lockAndFlushAll
  \/ Tick

Spec == Init /\ [][Next]_vars

-----------------------------------------------------------------------------
(* Properties                                                              *)

\* The lines of severity s in its files, the oldest file first.
OnDisk(s) == FlattenSeq([t \in 1 .. MaxTime + 1 |-> disk[<<s, t - 1>>]])

Logged(s) == OnDisk(s) \o (IF file[s] = NoFile THEN <<>> ELSE file[s].pending)

Above(s) == SelectSeq(order, LAMBDA n : lines[n] >= s)

IndexOf(n) == CHOOSE i \in DOMAIN order : order[i] = n

\* "A message written to a high-severity log file is also written to each
\* lower-severity log file" (glog.go:98): while the mutex is free, the files
\* of each severity hold, across rotations, exactly the lines of that severity
\* and above, whole, once each, and in the order of their output.
FilesComplete == Running /\ mu = None /\ ~toStderr => \A s \in Levels : Logged(s) = Above(s)

\* A process that a fatal line or a failed write ends has on disk the fatal
\* line and every line whose output came before, unless the flush took too
\* long (glog.go:671, "It flushes the logs and exits the program").
ExitFlushes ==
  ~toStderr =>
    \A i \in DOMAIN order :
      (exited = 2 \/ \E g \in Goroutines : pc[g] = "exit" /\ ~timedOut /\ i <= IndexOf(line[g]))
        => \A s \in Levels : lines[order[i]] >= s => order[i] \in ToSet(OnDisk(s))

=============================================================================
