----------------------------- MODULE LogRotation -----------------------------
(***************************************************************************)
(* The log file of internal/logger/logger.go: goroutines that log, the      *)
(* checker that once a minute rotates the file and deletes old ones, the    *)
(* goroutine that compresses each rotated file, stop and restart.           *)
(*                                                                          *)
(* Files are numbered as they are created: <<"log", g>> is the g-th log     *)
(* file, at the log's path or renamed, <<"gz", g>> its compressed copy.     *)
(* The file system is external: a step that uses it may fail.               *)
(***************************************************************************)
EXTENDS Naturals, FiniteSets

CONSTANTS Writer,       \* goroutines that log
          MaxSize,      \* config.MaxSizeMB, in lines
          MaxBackups,   \* config.MaxBackups
          Compress,     \* config.Compress
          MaxFiles,     \* bound on log files
          MaxLines,     \* bound on lines
          MaxRestarts   \* bound on restarts

ASSUME LogAssumption ==
  /\ MaxSize \in Nat \ {0} /\ MaxBackups \in Nat /\ Compress \in BOOLEAN
  /\ MaxFiles \in Nat \ {0} /\ MaxLines \in Nat /\ MaxRestarts \in Nat

Gen == 1 .. MaxFiles
NoFile == 0
File == {"log", "gz"} \X Gen

VARIABLES
  path,          \* the file at logFilePath
  files,         \* log files created so far
  disk,          \* rotated files and compressed copies that exist
  byTime,        \* <<f, g>>: f was written after g was
  partial,       \* compressed copies that are not finished
  size,          \* lines per log file
  copied,        \* per log file: lines that compressLogFile has read of it
  handle,        \* globalLogFile
  output,        \* the file in globalLogWriter
  open,          \* log files whose descriptor is open
  taken,         \* per writer: the output it has read and not used, as a set
  writing,       \* per writer: the file its write(2) is on, as a set
  pc, doomed,    \* the checker: its step, what it is about to delete
  packing,       \* per log file: the step of compressLogFile
  stopped,       \* StopRotation has run
  lines, restarts,
  \* history
  broken,        \* the last rotation failed
  dropped,       \* log files that lost a copy to cleanupOldLogs
  sealed         \* lines per log file when it was renamed

fs      == <<path, files, disk, byTime, partial, size, copied, sealed>>
logging == <<handle, output, open>>
writers == <<taken, writing>>
checker == <<pc, doomed>>
bounds  == <<lines, restarts>>
vars == <<fs, logging, writers, checker, packing, stopped, bounds, broken, dropped>>

TypeOK ==
  /\ path \in Gen \cup {NoFile}
  /\ files \in 0 .. MaxFiles
  /\ disk \subseteq File /\ partial \subseteq File
  /\ byTime \subseteq File \X File
  /\ size \in [Gen -> 0 .. MaxLines]
  /\ copied \in [Gen -> 0 .. MaxLines] /\ sealed \in [Gen -> 0 .. MaxLines]
  /\ handle \in Gen \cup {NoFile} /\ output \in Gen \cup {NoFile} /\ open \subseteq Gen
  /\ taken \in [Writer -> SUBSET (Gen \cup {NoFile})]
  /\ writing \in [Writer -> SUBSET Gen]
  /\ pc \in {"idle", "close", "rename", "open", "swap", "list", "remove", "gone"}
  /\ doomed \subseteq File
  /\ packing \in [Gen -> {"none", "read", "create", "write", "unlink"}]
  /\ stopped \in BOOLEAN
  /\ lines \in 0 .. MaxLines /\ restarts \in 0 .. MaxRestarts
  /\ broken \in BOOLEAN /\ dropped \subseteq Gen

Init ==
  /\ path = 1 /\ files = 1
  /\ disk = {} /\ partial = {} /\ byTime = {}
  /\ size = [g \in Gen |-> 0]
  /\ copied = [g \in Gen |-> 0] /\ sealed = [g \in Gen |-> 0]
  /\ handle = 1 /\ output = 1 /\ open = {1}
  /\ taken = [w \in Writer |-> {}] /\ writing = [w \in Writer |-> {}]
  /\ pc = "idle" /\ doomed = {}
  /\ packing = [g \in Gen |-> "none"]
  /\ stopped = FALSE
  /\ lines = 0 /\ restarts = 0
  /\ broken = FALSE /\ dropped = {}

\* A file's modification time is now.
Touched(f) == {p \in byTime : p[2] # f} \cup ({f} \X (File \ {f}))

-----------------------------------------------------------------------------
(* delegatingWriter.Write: the output is read under the lock, used without. *)
(* Closing a regular file does not wait for a write(2) that has begun: it   *)
(* reaches the file, under whatever name, or under none.                   *)

Take(w) ==
  /\ taken[w] = {} /\ writing[w] = {} /\ lines < MaxLines
  /\ lines' = lines + 1
  /\ taken' = [taken EXCEPT ![w] = {output}]
  /\ UNCHANGED <<fs, logging, writing, checker, packing, stopped, restarts, broken, dropped>>

\* A line for a closed file, or for none, is on stdout only.
PutBegins(w) ==
  /\ taken[w] # {}
  /\ taken' = [taken EXCEPT ![w] = {}]
  /\ writing' = [writing EXCEPT ![w] = taken[w] \cap open]
  /\ UNCHANGED <<fs, logging, checker, packing, stopped, bounds, broken, dropped>>

\* Mutant of PutEnds: the line is written again.
PutEndsAgain(w) ==
  /\ \E g \in writing[w] :
       /\ size' = [size EXCEPT ![g] = @ + 1]
       /\ byTime' = Touched(<<"log", g>>)
  /\ UNCHANGED <<path, files, disk, partial, copied, sealed, logging, writers, checker, packing,
                 stopped, bounds, broken, dropped>>

PutEnds(w) ==
  /\ \E g \in writing[w] :
       /\ size' = [size EXCEPT ![g] = @ + 1]
       /\ byTime' = Touched(<<"log", g>>)
  /\ writing' = [writing EXCEPT ![w] = {}]
  /\ UNCHANGED <<path, files, disk, partial, copied, sealed, logging, taken, checker, packing,
                 stopped, bounds, broken, dropped>>

-----------------------------------------------------------------------------
(* checkAndRotate, rotateLogFile.                                          *)

\* The ticker fires.  Without a file at the path nothing is done, ever again.
Check ==
  /\ pc = "idle" /\ path # NoFile
  /\ pc' = IF size[path] >= MaxSize THEN "close" ELSE "list"
  /\ UNCHANGED <<fs, logging, writers, doomed, packing, stopped, bounds, broken, dropped>>

\* The select may still take a tick that was due before it takes the stop.
CheckerEnds ==
  /\ pc = "idle" /\ stopped
  /\ pc' = "gone"
  /\ UNCHANGED <<fs, logging, writers, doomed, packing, stopped, bounds, broken, dropped>>

\* Mutant of CloseOld: the old file is left open.
CloseOldLeaks ==
  /\ pc = "close"
  /\ pc' = "rename"
  /\ UNCHANGED <<fs, logging, writers, doomed, packing, stopped, bounds, broken, dropped>>

CloseOld ==
  /\ pc = "close"
  /\ open' = open \ {handle}
  /\ pc' = "rename"
  /\ UNCHANGED <<fs, handle, output, writers, doomed, packing, stopped, bounds, broken,
                 dropped>>

RenameOld ==
  /\ pc = "rename"
  /\ disk' = disk \cup {<<"log", path>>}
  /\ packing' = [packing EXCEPT ![path] = IF Compress THEN "read" ELSE "none"]
  /\ sealed' = [sealed EXCEPT ![path] = size[path]]
  /\ path' = NoFile
  /\ pc' = "open"
  /\ UNCHANGED <<files, byTime, partial, size, copied, logging, writers, doomed, stopped,
                 bounds, broken, dropped>>

\* rotateLogFile gives up: the file stays at its path, closed, or there is none.
RotationFails ==
  /\ pc \in {"rename", "open"}
  /\ broken' = TRUE
  /\ pc' = "list"
  /\ UNCHANGED <<fs, logging, writers, doomed, packing, stopped, bounds, dropped>>

OpenNew ==
  /\ pc = "open" /\ files < MaxFiles
  /\ files' = files + 1
  /\ path' = files'
  /\ open' = open \cup {path'}
  /\ pc' = "swap"
  /\ UNCHANGED <<disk, byTime, partial, size, copied, sealed, handle, output, writers,
                 doomed, packing, stopped, bounds, broken, dropped>>

\* Mutant of Swap: the loggers are not told.
SwapHandle ==
  /\ pc = "swap"
  /\ handle' = path
  /\ broken' = FALSE
  /\ pc' = "list"
  /\ UNCHANGED <<fs, output, open, writers, doomed, packing, stopped, bounds, dropped>>

Swap ==
  /\ pc = "swap"
  /\ handle' = path /\ output' = path
  /\ broken' = FALSE
  /\ pc' = "list"
  /\ UNCHANGED <<fs, open, writers, doomed, packing, stopped, bounds, dropped>>

-----------------------------------------------------------------------------
(* cleanupOldLogs: the newest MaxBackups stay, or the n of them that are    *)
(* younger than MaxAgeDays.                                                *)

Newest(n) == {f \in disk : Cardinality({g \in disk : <<g, f>> \in byTime}) < n}

ListOld ==
  /\ pc = "list"
  /\ \E n \in 0 .. MaxBackups : doomed' = disk \ Newest(n)
  /\ pc' = "remove"
  /\ UNCHANGED <<fs, logging, writers, packing, stopped, bounds, broken, dropped>>

RemoveOld ==
  /\ pc = "remove"
  /\ disk' = disk \ doomed
  /\ dropped' = dropped \cup {f[2] : f \in doomed \cap disk}
  /\ doomed' = {}
  /\ pc' = "idle"
  /\ UNCHANGED <<path, files, byTime, partial, size, copied, sealed, logging, writers,
                 packing, stopped, bounds, broken>>

-----------------------------------------------------------------------------
(* compressLogFile.                                                        *)

Step(g, from, to) == packing[g] = from /\ packing' = [packing EXCEPT ![g] = to]

ReadLog(g) ==
  /\ Step(g, "read", IF <<"log", g>> \in disk THEN "create" ELSE "none")
  /\ copied' = [copied EXCEPT ![g] = size[g]]
  /\ UNCHANGED <<path, files, disk, byTime, partial, size, sealed, logging, writers, checker,
                 stopped, bounds, broken, dropped>>

CreateGz(g) ==
  /\ Step(g, "create", "write")
  /\ disk' = disk \cup {<<"gz", g>>}
  /\ partial' = partial \cup {<<"gz", g>>}
  /\ byTime' = Touched(<<"gz", g>>)
  /\ UNCHANGED <<path, files, size, copied, sealed, logging, writers, checker, stopped,
                 bounds, broken, dropped>>

CannotCreateGz(g) ==
  /\ Step(g, "create", "none")
  /\ UNCHANGED <<fs, logging, writers, checker, stopped, bounds, broken, dropped>>

WriteGz(g) ==
  /\ Step(g, "write", "unlink")
  /\ partial' = partial \ {<<"gz", g>>}
  /\ byTime' = Touched(<<"gz", g>>)
  /\ UNCHANGED <<path, files, disk, size, copied, sealed, logging, writers, checker, stopped,
                 bounds, broken, dropped>>

\* Mutant of WriteGzFails: the log file goes, not the copy.
WriteGzFailsWrong(g) ==
  /\ Step(g, "write", "none")
  /\ disk' = disk \ {<<"log", g>>}
  /\ UNCHANGED <<path, files, byTime, partial, size, copied, sealed, logging, writers,
                 checker, stopped, bounds, broken, dropped>>

WriteGzFails(g) ==
  /\ Step(g, "write", "none")
  /\ disk' = disk \ {<<"gz", g>>}
  /\ partial' = partial \ {<<"gz", g>>}
  /\ UNCHANGED <<path, files, byTime, size, copied, sealed, logging, writers, checker,
                 stopped, bounds, broken, dropped>>

UnlinkLog(g) ==
  /\ Step(g, "unlink", "none")
  /\ disk' = disk \ {<<"log", g>>}
  /\ UNCHANGED <<path, files, byTime, partial, size, copied, sealed, logging, writers,
                 checker, stopped, bounds, broken, dropped>>

-----------------------------------------------------------------------------
(* main: StopRotation, CloseLogFile; the process ends at any point and     *)
(* starts again with SetupFileLoggingWithRotation.                          *)

StopRotation ==
  /\ ~ stopped
  /\ stopped' = TRUE
  /\ UNCHANGED <<fs, logging, writers, checker, packing, bounds, broken, dropped>>

CloseLogFile ==
  /\ stopped /\ handle # NoFile
  /\ open' = open \ {handle} /\ handle' = NoFile /\ output' = NoFile
  /\ UNCHANGED <<fs, writers, checker, packing, stopped, bounds, broken, dropped>>

NewProcess ==
  /\ restarts < MaxRestarts
  /\ restarts' = restarts + 1
  /\ taken' = [w \in Writer |-> {}] /\ writing' = [w \in Writer |-> {}]
  /\ doomed' = {}
  /\ packing' = [g \in Gen |-> "none"]
  /\ broken' = FALSE
  /\ UNCHANGED <<disk, byTime, partial, size, copied, sealed, lines, dropped>>

Restart ==
  /\ NewProcess
  /\ \/ path # NoFile /\ UNCHANGED <<path, files>>
     \/ path = NoFile /\ files < MaxFiles /\ files' = files + 1 /\ path' = files'
  /\ handle' = path' /\ output' = path' /\ open' = {path'}
  /\ pc' = "idle"
  /\ stopped' = FALSE

\* The log file cannot be opened: stdout only, and no checker.
RestartOnStdout ==
  /\ NewProcess
  /\ handle' = NoFile /\ output' = NoFile /\ open' = {}
  /\ pc' = "gone"
  /\ stopped' = TRUE
  /\ UNCHANGED <<path, files>>

Next ==
  \/ \E w \in Writer : Take(w) \/ PutBegins(w) \/ PutEnds(w)
  \/ Check \/ CheckerEnds \/ CloseOld \/ RenameOld \/ RotationFails \/ OpenNew \/ Swap
  \/ ListOld \/ RemoveOld
  \/ \E g \in Gen :
       \/ ReadLog(g) \/ CreateGz(g) \/ CannotCreateGz(g)
       \/ WriteGz(g) \/ WriteGzFails(g) \/ UnlinkLog(g)
  \/ StopRotation \/ CloseLogFile \/ Restart \/ RestartOnStdout

Spec == Init /\ [][Next]_vars

-----------------------------------------------------------------------------
(* Properties.                                                             *)

Whole(g) ==
  \/ path = g
  \/ <<"log", g>> \in disk
  \/ <<"gz", g>> \in disk \ partial /\ copied[g] >= sealed[g]

\* Every log file ever opened is there, or a finished copy of it with all the lines
\* it held when it was renamed, until cleanupOldLogs has deleted one: whatever
\* fails and wherever the process dies.  Only a write(2) that was in flight then,
\* and is longer in flight than the copy takes to read, can lose its line.
LinesAreKept == \A g \in 1 .. files : g \in dropped \/ Whole(g)

\* Once a rotation is over, or has not begun, every logger writes to the file
\* at the path: unless the last rotation failed, or logging has been closed.
AtRestLinesReachTheFile ==
  pc \in {"idle", "list", "remove"} /\ ~ broken /\ ~ stopped =>
    handle = path /\ output = path /\ path \in open

\* No write begins on a file that has been rotated away, although the loggers keep
\* the output they read before the rotation for as long as they are not scheduled:
\* what reaches such a file was in flight when it was closed.
NoWriteToRotated ==
  [][\A w \in Writer : \A g \in writing'[w] \ writing[w] : g = path]_vars
=============================================================================
