------------------------------ MODULE LogFiles ------------------------------
(***************************************************************************)
(* The log files (logging.cpp, GetNextLoggingId of settings.cpp, and the   *)
(* handlers of /log in server_logging.cpp).  Every boot has a file of its  *)
(* own, whose number comes from NVS; boots remove old files first.  Any    *)
(* task may log: lines wait in a queue, and loop() writes them.  NVS can   *)
(* be cleared without the files (see WifiSetup), so numbers may come again.*)
(*                                                                         *)
(* The order of the names is that of the numbers: five digits are enough   *)
(* for a boot an hour in ten years.  A line is a number, in the order in   *)
(* which Log entered them.  Bounds: MaxBoots boots, MaxLines lines.        *)
(***************************************************************************)
EXTENDS Naturals, Sequences, FiniteSets

CONSTANTS
  MaxFiles,           \* kMaxLogFileCount
  MaxBoots, MaxLines

LogAssumption == MaxFiles \in Nat \ {0} /\ MaxBoots \in Nat /\ MaxLines \in Nat

VARIABLES
  nextId,    \* next_log_id
  files,     \* the lines of each file that exists
  stage,     \* "off", "begin" (RemoveOldLogs...), or "on"
  logId,        \* the number in g_filename
  queue,     \* g_queue
  popped,    \* the line that Update holds, or 0
  \* history
  boots,     \* how many boots
  lines,     \* how many lines were logged
  written,   \* the boot that last wrote each file
  cleared    \* NVS was cleared

vars == <<nextId, files, stage, logId, queue, popped, boots, lines, written, cleared>>

Init ==
  /\ nextId = 1 /\ files = <<>> /\ stage = "off" /\ logId = 0
  /\ queue = <<>> /\ popped = 0
  /\ boots = 0 /\ lines = 0 /\ written = <<>> /\ cleared = FALSE

Existing == DOMAIN files
Without(f, n) == [m \in DOMAIN f \ {n} |-> f[m]]
With(f, n, x) == [m \in DOMAIN f \cup {n} |-> IF m = n THEN x ELSE f[m]]

\* setup(): GetNextLoggingId, then logging::Begin.
Boot ==
  /\ stage = "off" /\ boots < MaxBoots /\ boots' = boots + 1
  /\ logId' = nextId /\ nextId' = nextId + 1
  /\ stage' = "begin"
  /\ UNCHANGED <<files, queue, popped, lines, written, cleared>>

\* Mutant of Oldest: the names are sorted the other way round.
Newest == CHOOSE n \in Existing : \A m \in Existing : m <= n

Oldest == CHOOSE n \in Existing : \A m \in Existing : n <= m

\* One pass of the loop of RemoveOldLogsKeepingLastNItems.
RemoveOldLog ==
  /\ stage = "begin" /\ Cardinality(Existing) > MaxFiles
  /\ files' = Without(files, Oldest) /\ written' = Without(written, Oldest)
  /\ UNCHANGED <<nextId, stage, logId, queue, popped, boots, lines, cleared>>

OpenLog ==
  /\ stage = "begin" /\ Cardinality(Existing) <= MaxFiles
  /\ stage' = "on"
  /\ UNCHANGED <<nextId, files, logId, queue, popped, boots, lines, written, cleared>>

\* Log, in any task, under the mutex of the queue.
Log ==
  /\ stage = "on" /\ lines < MaxLines /\ lines' = lines + 1
  /\ queue' = Append(queue, lines + 1)
  /\ UNCHANGED <<nextId, files, stage, logId, popped, boots, written, cleared>>

\* Update: the line leaves the queue under the mutex, ...
Pop ==
  /\ stage = "on" /\ popped = 0 /\ queue # <<>>
  /\ popped' = Head(queue) /\ queue' = Tail(queue)
  /\ UNCHANGED <<nextId, files, stage, logId, boots, lines, written, cleared>>

\* ... and is written without it, to a file that is created if need be; a line
\* whose file cannot be opened is lost.
Write ==
  /\ stage = "on" /\ popped # 0 /\ popped' = 0
  /\ \/ /\ files' = With(files, logId,
                        Append(IF logId \in Existing THEN files[logId] ELSE <<>>, popped))
        /\ written' = With(written, logId, boots)
     \/ UNCHANGED <<files, written>>
  /\ UNCHANGED <<nextId, stage, logId, queue, boots, lines, cleared>>

\* HandleLoggingDelete, of any file.
Delete(n) ==
  /\ stage = "on" /\ n \in Existing
  /\ files' = Without(files, n) /\ written' = Without(written, n)
  /\ UNCHANGED <<nextId, stage, logId, queue, popped, boots, lines, cleared>>

Off == stage' = "off" /\ logId' = 0 /\ queue' = <<>> /\ popped' = 0

\* A restart or a loss of power.
PowerOff ==
  /\ stage # "off" /\ Off
  /\ UNCHANGED <<nextId, files, boots, lines, written, cleared>>

\* Settings::Reset, and the restart that follows it.
ClearSettings ==
  /\ stage = "on" /\ Off
  /\ nextId' = 1 /\ cleared' = TRUE
  /\ UNCHANGED <<files, boots, lines, written>>

Next ==
  \/ Boot \/ RemoveOldLog \/ OpenLog \/ Log \/ Pop \/ Write
  \/ \E n \in 1 .. MaxBoots : Delete(n)
  \/ PowerOff \/ ClearSettings

Spec == Init /\ [][Next]_vars

-----------------------------------------------------------------------------
(* Properties *)

\* Lines are in the files in the order in which they were logged, each once, and
\* the lines of a boot are all in its file.
InOrder ==
  \A n \in Existing : \A i \in 1 .. Len(files[n]), m \in Existing :
    \A j \in 1 .. Len(files[m]) :
      /\ n = m /\ i < j => files[n][i] < files[m][j]
      /\ n < m /\ ~cleared => files[n][i] < files[m][j]

\* What a boot removes is older than all it keeps, as long as the numbers have
\* not started again.
RemovesOldest ==
  stage = "begin" /\ ~cleared =>
    \A gone \in Existing \ DOMAIN files', kept \in DOMAIN files' : written[gone] < written[kept]

\* No step writes a line out of order or removes another file than the oldest.
LogsKept == []InOrder /\ [][RemovesOldest]_vars
=============================================================================
