------------------------- MODULE LogRotationProofs -------------------------
(***************************************************************************)
(* Theorems about the log file, for any number of goroutines that log, any  *)
(* sizes and numbers of files, with and without compression.                *)
(***************************************************************************)
EXTENDS LogRotation, FiniteSetTheorems, TLAPS

-----------------------------------------------------------------------------
(* The types, and that no file holds more lines than were logged. *)

\* The goroutines that have a line to write, or are writing it.
Busy == {w \in Writer : taken[w] # {} \/ writing[w] # {}}

\* A line is in one file or on its way to one.
SizeInv ==
  /\ IsFiniteSet(Busy)
  /\ \A w \in Writer : taken[w] = {} \/ writing[w] = {}
  /\ \A g \in Gen : size[g] + Cardinality(Busy) <= lines

\* Gen is made of numbers and NoFile is none of them.
LEMMA GenTyped == Gen \subseteq Nat \ {0} /\ NoFile \notin Gen /\ NoFile = 0
  BY LogAssumption DEF Gen, NoFile

LEMMA TouchedTyped ==
  ASSUME byTime \subseteq File \X File, NEW f \in File
  PROVE  Touched(f) \subseteq File \X File
  BY DEF Touched

LEMMA LogIsFile ==
  ASSUME NEW g \in Gen
  PROVE  <<"log", g>> \in File /\ <<"gz", g>> \in File
  BY DEF File

\* A goroutine takes the output, or is done with it.
LEMMA BusyTakes ==
  ASSUME TypeOK, SizeInv, NEW w \in Writer, Take(w)
  PROVE  IsFiniteSet(Busy') /\ Cardinality(Busy') = Cardinality(Busy) + 1
<1>1. /\ taken' = [taken EXCEPT ![w] = {output}] /\ writing' = writing
      /\ taken[w] = {} /\ writing[w] = {} /\ DOMAIN taken = Writer
  BY DEF Take, TypeOK
<1>2. Busy' = Busy \cup {w} /\ w \notin Busy
  BY <1>1 DEF Busy
<1> QED BY <1>2, FS_AddElement DEF SizeInv

LEMMA BusyBegins ==
  ASSUME TypeOK, SizeInv, NEW w \in Writer, PutBegins(w)
  PROVE  IsFiniteSet(Busy') /\ Cardinality(Busy') <= Cardinality(Busy)
<1>1. /\ taken' = [taken EXCEPT ![w] = {}] /\ taken[w] # {} /\ DOMAIN taken = Writer
      /\ writing' = [writing EXCEPT ![w] = taken[w] \cap open] /\ DOMAIN writing = Writer
  BY DEF PutBegins, TypeOK
<1>2. Busy' \subseteq Busy
  BY <1>1 DEF Busy
<1> QED BY <1>2, FS_Subset DEF SizeInv

LEMMA BusyEnds ==
  ASSUME TypeOK, SizeInv, NEW w \in Writer, PutEnds(w)
  PROVE  IsFiniteSet(Busy') /\ Cardinality(Busy') = Cardinality(Busy) - 1
<1>1. /\ writing' = [writing EXCEPT ![w] = {}] /\ writing[w] # {} /\ DOMAIN writing = Writer
      /\ taken' = taken
  BY DEF PutEnds, TypeOK
<1>2. taken[w] = {}
  BY <1>1 DEF SizeInv
<1>3. Busy' = Busy \ {w} /\ w \in Busy
  BY <1>1, <1>2 DEF Busy
<1> QED BY <1>3, FS_RemoveElement DEF SizeInv

LEMMA BusyCounted ==
  ASSUME SizeInv
  PROVE  Cardinality(Busy) \in Nat
  BY FS_CardinalityType DEF SizeInv

LEMMA SizeStep == TypeOK /\ SizeInv /\ [Next]_vars => SizeInv'
<1> SUFFICES ASSUME TypeOK, SizeInv, [Next]_vars PROVE SizeInv'
  OBVIOUS
<1>1. /\ Cardinality(Busy) \in Nat /\ lines \in Nat /\ \A g \in Gen : size[g] \in Nat
      /\ DOMAIN size = Gen
  BY BusyCounted, LogAssumption DEF TypeOK
<1>0. /\ \A w \in Writer : taken[w] = {} \/ writing[w] = {}
      /\ DOMAIN taken = Writer /\ DOMAIN writing = Writer
  BY DEF TypeOK, SizeInv
<1>2. ASSUME NEW w \in Writer, Take(w) PROVE SizeInv'
  <2>1. lines' = lines + 1 /\ size' = size
    BY <1>2 DEF Take, fs
  <2>2. IsFiniteSet(Busy') /\ Cardinality(Busy') = Cardinality(Busy) + 1
    BY <1>2, BusyTakes
  <2>3. ASSUME NEW g \in Gen PROVE size'[g] + Cardinality(Busy') <= lines'
    <3>1. size[g] \in Nat /\ size[g] + Cardinality(Busy) <= lines
      BY <1>1 DEF SizeInv
    <3> QED BY <1>1, <2>1, <2>2, <3>1
  <2>4. \A v \in Writer : taken'[v] = {} \/ writing'[v] = {}
    BY <1>0, <1>2 DEF Take
  <2> QED BY <2>2, <2>3, <2>4 DEF SizeInv
<1>3. ASSUME NEW w \in Writer, PutBegins(w) PROVE SizeInv'
  <2>1. lines' = lines /\ size' = size
    BY <1>3 DEF PutBegins, fs, bounds
  <2>2. IsFiniteSet(Busy') /\ Cardinality(Busy') <= Cardinality(Busy)
    BY <1>3, BusyBegins
  <2>3. Cardinality(Busy') \in Nat
    BY <2>2, FS_CardinalityType
  <2>4. ASSUME NEW g \in Gen PROVE size'[g] + Cardinality(Busy') <= lines'
    <3>1. size[g] \in Nat /\ size[g] + Cardinality(Busy) <= lines
      BY <1>1 DEF SizeInv
    <3> QED BY <1>1, <2>1, <2>2, <2>3, <3>1
  <2>5. \A v \in Writer : taken'[v] = {} \/ writing'[v] = {}
    BY <1>0, <1>3 DEF PutBegins
  <2> QED BY <2>2, <2>4, <2>5 DEF SizeInv
<1>11. ASSUME NEW w \in Writer, PutEnds(w) PROVE SizeInv'
  <2>1. /\ lines' = lines
        /\ \E k \in Gen : size' = [size EXCEPT ![k] = @ + 1]
    BY <1>11 DEF PutEnds, bounds, TypeOK
  <2>2. IsFiniteSet(Busy') /\ Cardinality(Busy') = Cardinality(Busy) - 1
    BY <1>11, BusyEnds
  <2>3. ASSUME NEW g \in Gen PROVE size'[g] + Cardinality(Busy') <= lines'
    <3>1. size[g] \in Nat /\ size[g] + Cardinality(Busy) <= lines
      BY <1>1 DEF SizeInv
    <3>2. size'[g] = size[g] \/ size'[g] = size[g] + 1
      BY <1>1, <2>1
    <3> QED BY <1>1, <2>1, <2>2, <3>1, <3>2
  <2>4. \A v \in Writer : taken'[v] = {} \/ writing'[v] = {}
    BY <1>0, <1>11 DEF PutEnds
  <2> QED BY <2>2, <2>3, <2>4 DEF SizeInv
<1>4. CASE UNCHANGED <<size, lines, writers>>
  <2>1. Busy' = Busy
    BY <1>4 DEF Busy, writers
  <2> QED BY <1>4, <2>1 DEF SizeInv, writers
<1>5. CASE NewProcess
  <2>1. /\ UNCHANGED <<size, lines>>
        /\ taken' = [w \in Writer |-> {}] /\ writing' = [w \in Writer |-> {}]
    BY <1>5 DEF NewProcess
  <2>2. Busy' = {}
    BY <2>1 DEF Busy
  <2>3. IsFiniteSet(Busy') /\ Cardinality(Busy') = 0
    BY <2>2, FS_EmptySet
  <2>4. ASSUME NEW g \in Gen PROVE size'[g] + Cardinality(Busy') <= lines'
    <3>1. size[g] \in Nat /\ size[g] + Cardinality(Busy) <= lines
      BY <1>1 DEF SizeInv
    <3> QED BY <1>1, <2>1, <2>3, <3>1
  <2> QED BY <2>1, <2>3, <2>4 DEF SizeInv
<1>6. ASSUME NEW g \in Gen,
             \/ ReadLog(g) \/ CreateGz(g) \/ CannotCreateGz(g)
             \/ WriteGz(g) \/ WriteGzFails(g) \/ UnlinkLog(g)
      PROVE  SizeInv'
  BY <1>4, <1>6 DEF ReadLog, CreateGz, CannotCreateGz, WriteGz, WriteGzFails, UnlinkLog, fs, bounds
<1>7. CASE Check \/ CheckerEnds \/ CloseOld \/ RenameOld \/ RotationFails \/ OpenNew \/ Swap
  BY <1>4, <1>7 DEF Check, CheckerEnds, CloseOld, RenameOld, RotationFails, OpenNew, Swap, fs, bounds
<1>8. CASE ListOld \/ RemoveOld \/ StopRotation \/ CloseLogFile
  BY <1>4, <1>8 DEF ListOld, RemoveOld, StopRotation, CloseLogFile, fs, bounds
<1>9. CASE Restart \/ RestartOnStdout
  BY <1>5, <1>9 DEF Restart, RestartOnStdout
<1>10. CASE UNCHANGED vars
  BY <1>4, <1>10 DEF vars, fs, bounds
<1> QED BY <1>2, <1>3, <1>6, <1>7, <1>8, <1>9, <1>10, <1>11 DEF Next

\* The files, the loggers and the counters, as TypeOK states them.
FilesOK ==
  /\ path \in Gen \cup {NoFile} /\ files \in 0 .. MaxFiles
  /\ disk \subseteq File /\ partial \subseteq File
  /\ byTime \subseteq File \X File
  /\ doomed \subseteq File
LoggersOK ==
  /\ handle \in Gen \cup {NoFile} /\ output \in Gen \cup {NoFile} /\ open \subseteq Gen
  /\ taken \in [Writer -> SUBSET (Gen \cup {NoFile})]
  /\ writing \in [Writer -> SUBSET Gen]
  /\ pc \in {"idle", "close", "rename", "open", "swap", "list", "remove", "gone"}
  /\ packing \in [Gen -> {"none", "read", "create", "write", "unlink"}]
  /\ stopped \in BOOLEAN /\ broken \in BOOLEAN /\ dropped \subseteq Gen
CountsOK ==
  /\ size \in [Gen -> 0 .. MaxLines]
  /\ copied \in [Gen -> 0 .. MaxLines] /\ sealed \in [Gen -> 0 .. MaxLines]
  /\ lines \in 0 .. MaxLines /\ restarts \in 0 .. MaxRestarts

\* The checker rotates a file that is there: nobody else moves it.
PathInv ==
  /\ pc \in {"close", "rename"} => path # NoFile
  /\ pc = "open" => path = NoFile

LEMMA PathStep == TypeOK /\ PathInv /\ [Next]_vars => PathInv'
<1> SUFFICES ASSUME TypeOK, PathInv, [Next]_vars PROVE PathInv'
  OBVIOUS
<1> USE DEF PathInv
<1>1. CASE \E w \in Writer : Take(w) \/ PutBegins(w) \/ PutEnds(w)
  BY <1>1 DEF Take, PutBegins, PutEnds, fs, checker
<1>2. CASE Check \/ CheckerEnds \/ CloseOld \/ RenameOld \/ RotationFails \/ OpenNew \/ Swap
  BY <1>2 DEF Check, CheckerEnds, CloseOld, RenameOld, RotationFails, OpenNew, Swap, fs
<1>3. CASE ListOld \/ RemoveOld \/ StopRotation \/ CloseLogFile
  BY <1>3 DEF ListOld, RemoveOld, StopRotation, CloseLogFile, fs, checker
<1>4. ASSUME NEW g \in Gen,
             \/ ReadLog(g) \/ CreateGz(g) \/ CannotCreateGz(g)
             \/ WriteGz(g) \/ WriteGzFails(g) \/ UnlinkLog(g)
      PROVE  PathInv'
  BY <1>4 DEF ReadLog, CreateGz, CannotCreateGz, WriteGz, WriteGzFails, UnlinkLog, fs, checker
<1>5. CASE Restart \/ RestartOnStdout
  BY <1>5 DEF Restart, RestartOnStdout
<1>6. CASE UNCHANGED vars
  BY <1>6 DEF vars, fs, checker
<1> QED BY <1>1, <1>2, <1>3, <1>4, <1>5, <1>6 DEF Next

LEMMA FilesStep == TypeOK /\ PathInv /\ [Next]_vars => FilesOK'
<1> SUFFICES ASSUME TypeOK, PathInv, [Next]_vars PROVE FilesOK'
  OBVIOUS
<1>0. FilesOK /\ LoggersOK /\ MaxFiles \in Nat \ {0}
  BY LogAssumption DEF TypeOK, FilesOK, LoggersOK
<1>1. ASSUME NEW w \in Writer, Take(w) \/ PutBegins(w) \/ PutEnds(w) PROVE FilesOK'
  <2>1. UNCHANGED <<path, files, disk, partial, doomed>>
    BY <1>1 DEF Take, PutBegins, PutEnds, fs, checker
  <2>2. byTime' = byTime \/ \E g \in Gen : byTime' = Touched(<<"log", g>>)
    BY <1>0, <1>1 DEF Take, PutBegins, PutEnds, fs, LoggersOK
  <2>3. byTime' \subseteq File \X File
    BY <1>0, <2>2, TouchedTyped, LogIsFile DEF FilesOK
  <2> QED BY <1>0, <2>1, <2>3 DEF FilesOK
<1>2. CASE UNCHANGED <<fs, doomed>>
  BY <1>0, <1>2 DEF fs, FilesOK
<1>3. CASE Check \/ CheckerEnds \/ CloseOld \/ RotationFails \/ Swap \/ StopRotation \/ CloseLogFile
  BY <1>2, <1>3 DEF Check, CheckerEnds, CloseOld, RotationFails, Swap, StopRotation, CloseLogFile, checker
<1>4. CASE RenameOld
  <2>1. path' = NoFile /\ disk' = disk \cup {<<"log", path>>} /\ UNCHANGED <<files, byTime, partial, doomed>>
    BY <1>4 DEF RenameOld
  <2>2. path \in Gen
    BY <1>0, <1>4 DEF RenameOld, PathInv, FilesOK
  <2> QED BY <1>0, <2>1, <2>2, LogIsFile DEF FilesOK
<1>5. CASE OpenNew
  BY <1>0, <1>5 DEF OpenNew, FilesOK, Gen
<1>6. CASE ListOld
  BY <1>0, <1>6 DEF ListOld, FilesOK, fs
<1>7. CASE RemoveOld
  BY <1>0, <1>7 DEF RemoveOld, FilesOK
<1>8. ASSUME NEW g \in Gen,
             \/ ReadLog(g) \/ CreateGz(g) \/ CannotCreateGz(g)
             \/ WriteGz(g) \/ WriteGzFails(g) \/ UnlinkLog(g)
      PROVE  FilesOK'
  <2>1. /\ UNCHANGED <<path, files, doomed>>
        /\ disk' \subseteq disk \cup {<<"gz", g>>} /\ partial' \subseteq partial \cup {<<"gz", g>>}
        /\ byTime' = byTime \/ byTime' = Touched(<<"gz", g>>)
    BY <1>8 DEF ReadLog, CreateGz, CannotCreateGz, WriteGz, WriteGzFails, UnlinkLog, fs, checker
  <2>2. byTime' \subseteq File \X File
    BY <1>0, <2>1, TouchedTyped, LogIsFile DEF FilesOK
  <2> QED BY <1>0, <2>1, <2>2, LogIsFile DEF FilesOK
<1>9. CASE Restart \/ RestartOnStdout
  <2>1. /\ UNCHANGED <<disk, byTime, partial>> /\ doomed' = {}
        /\ \/ UNCHANGED <<path, files>>
           \/ (files < MaxFiles /\ files' = files + 1 /\ path' = files')
    BY <1>9 DEF Restart, RestartOnStdout, NewProcess
  <2> QED BY <1>0, <2>1 DEF FilesOK, Gen
<1>10. CASE UNCHANGED vars
  BY <1>2, <1>10 DEF vars, checker
<1> QED BY <1>1, <1>3, <1>4, <1>5, <1>6, <1>7, <1>8, <1>9, <1>10 DEF Next

LEMMA LoggersStep == TypeOK /\ PathInv /\ [Next]_vars => LoggersOK'
<1> SUFFICES ASSUME TypeOK, PathInv, [Next]_vars PROVE LoggersOK'
  OBVIOUS
<1>0. FilesOK /\ LoggersOK /\ MaxFiles \in Nat \ {0}
  BY LogAssumption DEF TypeOK, FilesOK, LoggersOK
<1>1. ASSUME NEW w \in Writer, Take(w) \/ PutBegins(w) \/ PutEnds(w) PROVE LoggersOK'
  <2>1. UNCHANGED <<handle, output, open, pc, packing, stopped, broken, dropped>>
    BY <1>1 DEF Take, PutBegins, PutEnds, logging, checker
  <2>2. /\ \/ taken' = [taken EXCEPT ![w] = {output}]
           \/ taken' = [taken EXCEPT ![w] = {}]
           \/ taken' = taken
        /\ \/ writing' = [writing EXCEPT ![w] = taken[w] \cap open]
           \/ writing' = [writing EXCEPT ![w] = {}]
           \/ writing' = writing
    BY <1>1 DEF Take, PutBegins, PutEnds
  <2>3. /\ taken' \in [Writer -> SUBSET (Gen \cup {NoFile})]
        /\ writing' \in [Writer -> SUBSET Gen]
    BY <1>0, <2>2 DEF LoggersOK
  <2> QED BY <1>0, <2>1, <2>3 DEF LoggersOK
<1>2. CASE Check \/ CheckerEnds \/ CloseOld \/ RotationFails \/ Swap
  BY <1>0, <1>2 DEF Check, CheckerEnds, CloseOld, RotationFails, Swap, LoggersOK, FilesOK, logging, writers
<1>3. CASE RenameOld
  BY <1>0, <1>3 DEF RenameOld, LoggersOK, logging, writers
<1>4. CASE OpenNew
  <2>1. path' \in Gen /\ open' = open \cup {path'} /\ pc' = "swap"
        /\ UNCHANGED <<handle, output, writers, packing, stopped, broken, dropped>>
    BY <1>0, <1>4 DEF OpenNew, FilesOK, Gen
  <2> QED BY <1>0, <2>1 DEF LoggersOK, writers
<1>5. CASE ListOld \/ StopRotation \/ CloseLogFile
  BY <1>0, <1>5 DEF ListOld, StopRotation, CloseLogFile, LoggersOK, logging, writers, checker
<1>6. CASE RemoveOld
  <2>1. {f[2] : f \in doomed \cap disk} \subseteq Gen
    BY <1>0 DEF FilesOK, File
  <2> QED BY <1>0, <1>6, <2>1 DEF RemoveOld, LoggersOK, logging, writers
<1>7. ASSUME NEW g \in Gen,
             \/ ReadLog(g) \/ CreateGz(g) \/ CannotCreateGz(g)
             \/ WriteGz(g) \/ WriteGzFails(g) \/ UnlinkLog(g)
      PROVE  LoggersOK'
  <2>1. UNCHANGED <<handle, output, open, writers, pc, stopped, broken, dropped>>
    BY <1>7 DEF ReadLog, CreateGz, CannotCreateGz, WriteGz, WriteGzFails, UnlinkLog, logging, checker
  <2>2. \E to \in {"none", "create", "write", "unlink"} : packing' = [packing EXCEPT ![g] = to]
    BY <1>7 DEF ReadLog, CreateGz, CannotCreateGz, WriteGz, WriteGzFails, UnlinkLog, Step
  <2> QED BY <1>0, <2>1, <2>2 DEF LoggersOK, writers
<1>8. CASE Restart \/ RestartOnStdout
  <2>1. path' \in Gen \cup {NoFile}
    BY FilesStep DEF FilesOK
  <2>2. CASE Restart
    <3>1. path' \in Gen
      BY <1>0, <2>2 DEF Restart, FilesOK, Gen
    <3> QED BY <1>0, <2>2, <3>1 DEF Restart, NewProcess, LoggersOK
  <2>3. CASE RestartOnStdout
    BY <1>0, <2>3 DEF RestartOnStdout, NewProcess, LoggersOK
  <2> QED BY <1>8, <2>2, <2>3
<1>9. CASE UNCHANGED vars
  BY <1>0, <1>9 DEF vars, logging, writers, checker, LoggersOK
<1> QED BY <1>1, <1>2, <1>3, <1>4, <1>5, <1>6, <1>7, <1>8, <1>9 DEF Next

LEMMA CountsStep == TypeOK /\ SizeInv /\ [Next]_vars => CountsOK'
<1> SUFFICES ASSUME TypeOK, SizeInv, [Next]_vars PROVE CountsOK'
  OBVIOUS
<1>1. /\ size \in [Gen -> 0 .. MaxLines]
      /\ copied \in [Gen -> 0 .. MaxLines] /\ sealed \in [Gen -> 0 .. MaxLines]
      /\ lines \in 0 .. MaxLines /\ restarts \in 0 .. MaxRestarts
      /\ MaxLines \in Nat /\ MaxRestarts \in Nat
  BY LogAssumption DEF TypeOK
<1>2. ASSUME NEW w \in Writer, Take(w) PROVE CountsOK'
  BY <1>1, <1>2 DEF Take, CountsOK, fs
<1>3. ASSUME NEW w \in Writer, PutEnds(w) PROVE CountsOK'
  <2>1. UNCHANGED <<copied, sealed, lines, restarts>>
    BY <1>3 DEF PutEnds, bounds
  <2>2. size' = size \/ \E k \in Gen : size' = [size EXCEPT ![k] = @ + 1]
    BY <1>3 DEF PutEnds, TypeOK
  <2>3. SizeInv'
    BY SizeStep
  <2>4. Cardinality(Busy') \in Nat
    BY <2>3, FS_CardinalityType DEF SizeInv
  <2>5. ASSUME NEW g \in Gen PROVE size'[g] \in 0 .. MaxLines
    <3>1. size'[g] \in Nat
      BY <1>1, <2>2
    <3>2. size'[g] + Cardinality(Busy') <= lines
      BY <2>1, <2>3 DEF SizeInv
    <3> QED BY <1>1, <2>4, <3>1, <3>2
  <2>6. size' \in [Gen -> 0 .. MaxLines]
    <3>1. DOMAIN size' = Gen /\ size' = [g \in Gen |-> size'[g]]
      BY <1>1, <2>2
    <3> QED BY <2>5, <3>1
  <2> QED BY <1>1, <2>1, <2>6 DEF CountsOK
<1>4. CASE UNCHANGED <<size, copied, sealed, bounds>>
  BY <1>1, <1>4 DEF CountsOK, bounds
<1>5. CASE NewProcess
  BY <1>1, <1>5 DEF NewProcess, CountsOK
<1>6. ASSUME NEW g \in Gen,
             \/ ReadLog(g) \/ CreateGz(g) \/ CannotCreateGz(g)
             \/ WriteGz(g) \/ WriteGzFails(g) \/ UnlinkLog(g)
      PROVE  CountsOK'
  <2>1. CASE ReadLog(g)
    <3>1. copied' \in [Gen -> 0 .. MaxLines]
      BY <1>1, <2>1 DEF ReadLog
    <3> QED BY <1>1, <2>1, <3>1 DEF ReadLog, CountsOK, bounds
  <2> QED BY <1>4, <1>6, <2>1 DEF CreateGz, CannotCreateGz, WriteGz, WriteGzFails, UnlinkLog, fs
<1>11. CASE RenameOld
  <2>1. sealed' \in [Gen -> 0 .. MaxLines]
    <3>1. path \in Gen \/ path \notin Gen
      OBVIOUS
    <3> QED BY <1>1, <1>11, <3>1 DEF RenameOld
  <2> QED BY <1>1, <1>11, <2>1 DEF RenameOld, CountsOK, bounds
<1>12. ASSUME NEW w \in Writer, PutBegins(w) PROVE CountsOK'
  BY <1>4, <1>12 DEF PutBegins, fs
<1>7. CASE Check \/ CheckerEnds \/ CloseOld \/ RotationFails \/ OpenNew \/ Swap
  BY <1>4, <1>7 DEF Check, CheckerEnds, CloseOld, RotationFails, OpenNew, Swap, fs
<1>8. CASE ListOld \/ RemoveOld \/ StopRotation \/ CloseLogFile
  BY <1>4, <1>8 DEF ListOld, RemoveOld, StopRotation, CloseLogFile, fs
<1>9. CASE Restart \/ RestartOnStdout
  BY <1>5, <1>9 DEF Restart, RestartOnStdout
<1>10. CASE UNCHANGED vars
  BY <1>4, <1>10 DEF vars, fs
<1> QED BY <1>2, <1>3, <1>6, <1>7, <1>8, <1>9, <1>10, <1>11, <1>12 DEF Next

\* What keeps the types.
TypeInv == TypeOK /\ PathInv /\ SizeInv

LEMMA TypeStep == TypeInv /\ [Next]_vars => TypeInv'
<1> SUFFICES ASSUME TypeInv, [Next]_vars PROVE TypeInv'
  OBVIOUS
<1> USE DEF TypeInv
<1>1. FilesOK' /\ LoggersOK' /\ CountsOK'
  BY FilesStep, LoggersStep, CountsStep
<1>2. TypeOK'
  BY <1>1 DEF TypeOK, FilesOK, LoggersOK, CountsOK
<1> QED BY <1>2, PathStep, SizeStep

LEMMA TypeInitially == Init => TypeInv
<1> SUFFICES ASSUME Init PROVE TypeInv
  OBVIOUS
<1>1. MaxFiles \in Nat \ {0} /\ MaxLines \in Nat /\ MaxRestarts \in Nat /\ 1 \in Gen
  BY LogAssumption DEF Gen
<1>2. FilesOK
  BY <1>1 DEF Init, FilesOK
<1>3. LoggersOK
  BY <1>1 DEF Init, LoggersOK
<1>4. CountsOK
  BY <1>1 DEF Init, CountsOK
<1>5. TypeOK
  BY <1>2, <1>3, <1>4 DEF TypeOK, FilesOK, LoggersOK, CountsOK
<1>6. Busy = {}
  BY DEF Init, Busy
<1>7. IsFiniteSet(Busy) /\ Cardinality(Busy) = 0
  BY <1>6, FS_EmptySet
<1>8. SizeInv
  <2>1. 0 + 0 <= 0
    OBVIOUS
  <2> QED BY <1>7, <2>1 DEF SizeInv, Init
<1>9. PathInv
  BY DEF Init, PathInv
<1> QED BY <1>5, <1>8, <1>9 DEF TypeInv

\* Files, loggers and counters keep to their types: a file never holds more than the
\* lines that were logged, whoever writes it.
THEOREM LogIsTyped == Spec => []TypeOK
<1>1. TypeInv => TypeOK
  BY DEF TypeInv
<1> QED BY <1>1, TypeInitially, TypeStep, PTL DEF Spec

-----------------------------------------------------------------------------
(* The file at the path, the files rotated away, and their copies. *)

OnDisk(g) == <<"log", g>> \in disk
Copied(g) == <<"gz", g>> \in disk
Complete(g) == <<"gz", g>> \in disk \ partial

\* A file is rotated away and packed once; nobody but cleanupOldLogs deletes it
\* before its copy is finished.
FilesInv ==
  /\ path <= files
  /\ \A g \in Gen : OnDisk(g) \/ packing[g] # "none" => g <= files /\ g # path
  /\ \A g \in Gen : packing[g] \in {"create", "write"} => g \in dropped \/ OnDisk(g)
  /\ \A g \in Gen : packing[g] = "write" => g \in dropped \/ Copied(g)
  /\ \A g \in Gen : packing[g] = "unlink" => g \in dropped \/ Complete(g)

\* Only the file at the path is open; around a rotation none is.
OpenInv ==
  /\ open \subseteq {path}
  /\ pc # "swap" => open \subseteq {handle}
  /\ pc \in {"rename", "open"} => open = {}

\* Until logging stops, the loggers write to the file at the path, which is open,
\* except from the closing of the old file to the handing over of the new one.
RestInv ==
  ~stopped =>
    /\ pc # "gone"
    /\ pc = "swap" => path \in open
    /\ pc \in {"idle", "list", "remove", "close"} /\ ~broken =>
         handle = path /\ output = path /\ path \in open

\* The log files as one step of compressLogFile of g leaves them.
LEMMA PackKeepsOthers ==
  ASSUME TypeOK, FilesInv, NEW g \in Gen, NEW to, UNCHANGED <<path, files, dropped>>,
         packing' = [packing EXCEPT ![g] = to], packing[g] # "none",
         \A k \in Gen : k # g =>
           (OnDisk(k)' <=> OnDisk(k)) /\ (Copied(k)' <=> Copied(k))
           /\ (Complete(k)' <=> Complete(k)),
         OnDisk(g)' => OnDisk(g),
         to \in {"create", "write"} => g \in dropped \/ OnDisk(g)',
         to = "write" => g \in dropped \/ Copied(g)',
         to = "unlink" => g \in dropped \/ Complete(g)'
  PROVE  FilesInv'
<1>1. packing'[g] = to /\ \A k \in Gen : k # g => packing'[k] = packing[k]
  BY DEF TypeOK
<1>2. ASSUME NEW k \in Gen
      PROVE  /\ OnDisk(k)' \/ packing'[k] # "none" => k <= files' /\ k # path'
             /\ packing'[k] \in {"create", "write"} => k \in dropped' \/ OnDisk(k)'
             /\ packing'[k] = "write" => k \in dropped' \/ Copied(k)'
             /\ packing'[k] = "unlink" => k \in dropped' \/ Complete(k)'
  <2>1. CASE k = g
    BY <1>1, <2>1 DEF FilesInv
  <2>2. CASE k # g
    BY <1>1, <2>2 DEF FilesInv
  <2> QED BY <2>1, <2>2
<1> QED BY <1>2 DEF FilesInv

LEMMA FilesInvStep == TypeInv /\ FilesInv /\ [Next]_vars => FilesInv'
<1> SUFFICES ASSUME TypeInv, FilesInv, [Next]_vars PROVE FilesInv'
  OBVIOUS
<1>0. /\ TypeOK /\ PathInv /\ files \in 0 .. MaxFiles /\ MaxFiles \in Nat \ {0}
      /\ path \in Gen \cup {NoFile} /\ Gen \subseteq Nat \ {0} /\ NoFile = 0
      /\ DOMAIN packing = Gen
  BY GenTyped, LogAssumption DEF TypeInv, TypeOK
<1>1. CASE UNCHANGED <<path, files, disk, partial, packing, dropped>>
  BY <1>1 DEF FilesInv, OnDisk, Copied, Complete
<1>2. CASE \E w \in Writer : Take(w) \/ PutBegins(w) \/ PutEnds(w)
  BY <1>1, <1>2 DEF Take, PutBegins, PutEnds, fs
<1>3. CASE \/ Check \/ CheckerEnds \/ CloseOld \/ RotationFails \/ Swap
           \/ ListOld \/ StopRotation \/ CloseLogFile
  BY <1>1, <1>3 DEF Check, CheckerEnds, CloseOld, RotationFails, Swap, ListOld, StopRotation,
                    CloseLogFile, fs
<1>4. CASE RenameOld
  <2>1. /\ path \in Gen /\ path' = NoFile /\ disk' = disk \cup {<<"log", path>>}
        /\ packing' = [packing EXCEPT ![path] = IF Compress THEN "read" ELSE "none"]
        /\ UNCHANGED <<files, partial, dropped>>
    BY <1>0, <1>4 DEF RenameOld, PathInv
  <2>2. \A g \in Gen : /\ OnDisk(g)' <=> OnDisk(g) \/ g = path
                       /\ Copied(g)' <=> Copied(g)
                       /\ Complete(g)' <=> Complete(g)
    BY <2>1 DEF OnDisk, Copied, Complete
  <2>3. ASSUME NEW g \in Gen
        PROVE  /\ OnDisk(g)' \/ packing'[g] # "none" => g <= files' /\ g # path'
               /\ packing'[g] \in {"create", "write"} => g \in dropped' \/ OnDisk(g)'
               /\ packing'[g] = "write" => g \in dropped' \/ Copied(g)'
               /\ packing'[g] = "unlink" => g \in dropped' \/ Complete(g)'
    <3>1. g # NoFile
      BY <1>0
    <3>2. CASE g = path
      <4>1. packing'[g] \in {"read", "none"} /\ g <= files
        BY <1>0, <2>1, <3>2 DEF FilesInv
      <4> QED BY <2>1, <3>1, <4>1
    <3>3. CASE g # path
      <4>1. packing'[g] = packing[g]
        BY <1>0, <2>1, <3>3
      <4> QED BY <2>1, <2>2, <3>1, <3>3, <4>1 DEF FilesInv
    <3> QED BY <3>2, <3>3
  <2>4. path' <= files'
    BY <1>0, <2>1
  <2> QED BY <2>3, <2>4 DEF FilesInv
<1>5. ASSUME path' = files + 1, files' = files + 1,
             \A g \in Gen : packing'[g] = packing[g] \/ packing'[g] = "none",
             UNCHANGED <<disk, partial, dropped>>
      PROVE  FilesInv'
  <2>1. \A g \in Gen : /\ OnDisk(g)' <=> OnDisk(g)
                       /\ Copied(g)' <=> Copied(g)
                       /\ Complete(g)' <=> Complete(g)
    BY <1>5 DEF OnDisk, Copied, Complete
  <2>2. ASSUME NEW g \in Gen
        PROVE  /\ OnDisk(g)' \/ packing'[g] # "none" => g <= files' /\ g # path'
               /\ packing'[g] \in {"create", "write"} => g \in dropped' \/ OnDisk(g)'
               /\ packing'[g] = "write" => g \in dropped' \/ Copied(g)'
               /\ packing'[g] = "unlink" => g \in dropped' \/ Complete(g)'
    <3>1. OnDisk(g) \/ packing[g] # "none" => g <= files
      BY DEF FilesInv
    <3>2. g \in Nat
      BY <1>0
    <3> QED BY <1>0, <1>5, <2>1, <3>1, <3>2 DEF FilesInv
  <2>3. path' <= files'
    BY <1>0, <1>5
  <2> QED BY <2>2, <2>3 DEF FilesInv
<1>6. CASE OpenNew
  BY <1>5, <1>6 DEF OpenNew
<1>7. CASE RemoveOld
  <2>1. /\ disk' = disk \ doomed /\ dropped' = dropped \cup {f[2] : f \in doomed \cap disk}
        /\ UNCHANGED <<path, files, partial, packing>>
    BY <1>7 DEF RemoveOld
  <2>2. \A g \in Gen : OnDisk(g)' => OnDisk(g)
    BY <2>1 DEF OnDisk
  <2>3. ASSUME NEW g \in Gen, OnDisk(g) PROVE g \in dropped' \/ OnDisk(g)'
    <3>1. <<"log", g>>[2] = g
      OBVIOUS
    <3> QED BY <2>1, <2>3, <3>1 DEF OnDisk
  <2>4. ASSUME NEW g \in Gen
        PROVE  /\ Copied(g) => g \in dropped' \/ Copied(g)'
               /\ Complete(g) => g \in dropped' \/ Complete(g)'
    <3>1. <<"gz", g>>[2] = g
      OBVIOUS
    <3> QED BY <2>1, <3>1 DEF Copied, Complete
  <2>5. dropped \subseteq dropped'
    BY <2>1
  <2> QED BY <2>1, <2>2, <2>3, <2>4, <2>5 DEF FilesInv
<1>8. ASSUME NEW g \in Gen,
             \/ ReadLog(g) \/ CreateGz(g) \/ CannotCreateGz(g)
             \/ WriteGz(g) \/ WriteGzFails(g) \/ UnlinkLog(g)
      PROVE  FilesInv'
  <2>1. /\ UNCHANGED <<path, files, dropped>>
        /\ packing[g] # "none" /\ packing' = [packing EXCEPT ![g] = packing'[g]]
    BY <1>0, <1>8 DEF ReadLog, CreateGz, CannotCreateGz, WriteGz, WriteGzFails, UnlinkLog, fs, Step
  <2>2. /\ disk' \ {<<"log", g>>, <<"gz", g>>} = disk \ {<<"log", g>>, <<"gz", g>>}
        /\ partial' \ {<<"gz", g>>} = partial \ {<<"gz", g>>}
        /\ <<"log", g>> \in disk' => <<"log", g>> \in disk
    BY <1>8 DEF ReadLog, CreateGz, CannotCreateGz, WriteGz, WriteGzFails, UnlinkLog, fs
  <2>3. \A k \in Gen : k # g => /\ OnDisk(k)' <=> OnDisk(k)
                                /\ Copied(k)' <=> Copied(k)
                                /\ Complete(k)' <=> Complete(k)
    BY <2>2 DEF OnDisk, Copied, Complete
  <2>4. OnDisk(g)' => OnDisk(g)
    BY <2>2 DEF OnDisk
  <2>5. packing'[g] \in {"create", "write"} => g \in dropped \/ OnDisk(g)'
    <3>1. CASE ReadLog(g)
      BY <1>0, <3>1 DEF ReadLog, Step, OnDisk, fs
    <3>2. CASE CreateGz(g)
      BY <1>0, <3>2 DEF CreateGz, Step, OnDisk, FilesInv
    <3>3. CASE CannotCreateGz(g) \/ WriteGz(g) \/ WriteGzFails(g) \/ UnlinkLog(g)
      BY <1>0, <3>3 DEF CannotCreateGz, WriteGz, WriteGzFails, UnlinkLog, Step
    <3> QED BY <1>8, <3>1, <3>2, <3>3
  <2>6. packing'[g] = "unlink" => g \in dropped \/ Complete(g)'
    <3>1. CASE WriteGz(g)
      BY <1>0, <3>1 DEF WriteGz, Step, Copied, Complete, FilesInv
    <3>2. CASE ReadLog(g) \/ CreateGz(g) \/ CannotCreateGz(g) \/ WriteGzFails(g) \/ UnlinkLog(g)
      BY <1>0, <3>2 DEF ReadLog, CreateGz, CannotCreateGz, WriteGzFails, UnlinkLog, Step
    <3> QED BY <1>8, <3>1, <3>2
  <2>7. packing'[g] = "write" => g \in dropped \/ Copied(g)'
    <3>1. CASE CreateGz(g)
      BY <3>1 DEF CreateGz, Copied
    <3>2. CASE ReadLog(g) \/ WriteGz(g) \/ CannotCreateGz(g) \/ WriteGzFails(g) \/ UnlinkLog(g)
      BY <1>0, <3>2 DEF ReadLog, WriteGz, CannotCreateGz, WriteGzFails, UnlinkLog, Step
    <3> QED BY <1>8, <3>1, <3>2
  <2> QED BY <1>0, <2>1, <2>3, <2>4, <2>5, <2>6, <2>7, PackKeepsOthers
<1>9. CASE Restart \/ RestartOnStdout
  <2>1. /\ UNCHANGED <<disk, partial, dropped>> /\ packing' = [g \in Gen |-> "none"]
        /\ \/ UNCHANGED <<path, files>>
           \/ (path' = files + 1 /\ files' = files + 1)
    BY <1>9 DEF Restart, RestartOnStdout, NewProcess
  <2>2. CASE UNCHANGED <<path, files>>
    BY <2>1, <2>2 DEF FilesInv, OnDisk
  <2> QED BY <1>5, <2>1, <2>2
<1>10. CASE UNCHANGED vars
  BY <1>1, <1>10 DEF vars, fs
<1> QED BY <1>2, <1>3, <1>4, <1>6, <1>7, <1>8, <1>9, <1>10 DEF Next

LEMMA OpenStep == TypeInv /\ OpenInv /\ [Next]_vars => OpenInv'
<1> SUFFICES ASSUME TypeInv, OpenInv, [Next]_vars PROVE OpenInv'
  OBVIOUS
<1>0. open \subseteq Gen /\ NoFile \notin Gen
  BY GenTyped DEF TypeInv, TypeOK
<1> USE DEF OpenInv
<1>1. CASE UNCHANGED <<path, handle, open, pc>>
  BY <1>1
<1>2. CASE \E w \in Writer : Take(w) \/ PutBegins(w) \/ PutEnds(w)
  BY <1>1, <1>2 DEF Take, PutBegins, PutEnds, fs, checker, logging
<1>3. CASE Check \/ CheckerEnds \/ ListOld \/ RemoveOld
  BY <1>3 DEF Check, CheckerEnds, ListOld, RemoveOld, fs, logging
<1>4. CASE CloseOld
  BY <1>4 DEF CloseOld, fs
<1>5. CASE RenameOld
  BY <1>5 DEF RenameOld, logging
<1>6. CASE RotationFails
  BY <1>6 DEF RotationFails, fs, logging
<1>7. CASE OpenNew
  BY <1>7 DEF OpenNew
<1>8. CASE Swap
  BY <1>8 DEF Swap, fs
<1>9. ASSUME NEW g \in Gen,
             \/ ReadLog(g) \/ CreateGz(g) \/ CannotCreateGz(g)
             \/ WriteGz(g) \/ WriteGzFails(g) \/ UnlinkLog(g)
      PROVE  OpenInv'
  BY <1>1, <1>9 DEF ReadLog, CreateGz, CannotCreateGz, WriteGz, WriteGzFails, UnlinkLog,
     fs, checker, logging
<1>10. CASE StopRotation
  BY <1>1, <1>10 DEF StopRotation, fs, checker, logging
<1>11. CASE CloseLogFile
  BY <1>11 DEF CloseLogFile, fs, checker
<1>12. CASE Restart \/ RestartOnStdout
  BY <1>12 DEF Restart, RestartOnStdout
<1>13. CASE UNCHANGED vars
  BY <1>1, <1>13 DEF vars, fs, checker, logging
<1> QED BY <1>2, <1>3, <1>4, <1>5, <1>6, <1>7, <1>8, <1>9, <1>10, <1>11, <1>12, <1>13 DEF Next

LEMMA RestStep == RestInv /\ [Next]_vars => RestInv'
<1> SUFFICES ASSUME RestInv, [Next]_vars PROVE RestInv'
  OBVIOUS
<1> USE DEF RestInv
<1>1. CASE UNCHANGED <<path, handle, output, open, pc, stopped, broken>>
  BY <1>1
<1>2. CASE \E w \in Writer : Take(w) \/ PutBegins(w) \/ PutEnds(w)
  BY <1>1, <1>2 DEF Take, PutBegins, PutEnds, fs, checker, logging
<1>3. CASE Check \/ CheckerEnds \/ ListOld \/ RemoveOld
  BY <1>3 DEF Check, CheckerEnds, ListOld, RemoveOld, fs, logging
<1>4. CASE CloseOld \/ RenameOld \/ RotationFails
  BY <1>4 DEF CloseOld, RenameOld, RotationFails
<1>5. CASE OpenNew
  BY <1>5 DEF OpenNew
<1>6. CASE Swap
  BY <1>6 DEF Swap, fs
<1>7. ASSUME NEW g \in Gen,
             \/ ReadLog(g) \/ CreateGz(g) \/ CannotCreateGz(g)
             \/ WriteGz(g) \/ WriteGzFails(g) \/ UnlinkLog(g)
      PROVE  RestInv'
  BY <1>1, <1>7 DEF ReadLog, CreateGz, CannotCreateGz, WriteGz, WriteGzFails, UnlinkLog,
     fs, checker, logging
<1>8. CASE StopRotation
  BY <1>8 DEF StopRotation
<1>9. CASE CloseLogFile
  BY <1>9 DEF CloseLogFile
<1>10. CASE Restart \/ RestartOnStdout
  BY <1>10 DEF Restart, RestartOnStdout
<1>11. CASE UNCHANGED vars
  BY <1>1, <1>11 DEF vars, fs, checker, logging
<1> QED BY <1>2, <1>3, <1>4, <1>5, <1>6, <1>7, <1>8, <1>9, <1>10, <1>11 DEF Next

\* The inductive invariant of the log file.
LogInv == TypeInv /\ FilesInv /\ OpenInv /\ RestInv

LEMMA LogStep == LogInv /\ [Next]_vars => LogInv'
  BY TypeStep, FilesInvStep, OpenStep, RestStep DEF LogInv

LEMMA LogInitially == Init => LogInv
<1> SUFFICES ASSUME Init PROVE LogInv
  OBVIOUS
<1>1. TypeInv
  BY TypeInitially
<1>2. FilesInv
  BY DEF Init, FilesInv, OnDisk
<1>3. OpenInv /\ RestInv
  BY DEF Init, OpenInv, RestInv
<1> QED BY <1>1, <1>2, <1>3 DEF LogInv

\* Until logging stops, between rotations of which the last succeeded, the loggers
\* write to the open file at the path, whatever the checker and the writers do.
THEOREM LinesReachTheFile == Spec => []AtRestLinesReachTheFile
<1>1. LogInv => AtRestLinesReachTheFile
  BY DEF LogInv, RestInv, AtRestLinesReachTheFile
<1> QED BY <1>1, LogInitially, LogStep, PTL DEF Spec

-----------------------------------------------------------------------------
(* What is rotated away is closed, and kept. *)

\* However long a goroutine keeps the output of before a rotation, its write does not
\* begin on the file that was rotated away (delegatingWriter.Write, rotateLogFile).
THEOREM RotatedFilesStayClosed == Spec => NoWriteToRotated
<1>1. LogInv /\ [Next]_vars =>
        [\A w \in Writer : \A g \in writing'[w] \ writing[w] : g = path]_vars
  <2> SUFFICES ASSUME LogInv, [Next]_vars, NEW w \in Writer, NEW g \in writing'[w] \ writing[w]
               PROVE  g = path
    OBVIOUS
  <2>1. DOMAIN writing = Writer /\ open \subseteq {path}
    BY DEF LogInv, TypeInv, TypeOK, OpenInv
  <2>2. writing' # writing
    OBVIOUS
  <2>3. CASE \E v \in Writer : PutBegins(v) \/ PutEnds(v)
    BY <2>1, <2>3 DEF PutBegins, PutEnds
  <2>4. CASE \E v \in Writer : Take(v)
    BY <2>2, <2>4 DEF Take
  <2>5. CASE NewProcess
    BY <2>5 DEF NewProcess
  <2>6. CASE \E k \in Gen :
               \/ ReadLog(k) \/ CreateGz(k) \/ CannotCreateGz(k)
               \/ WriteGz(k) \/ WriteGzFails(k) \/ UnlinkLog(k)
    BY <2>2, <2>6
    DEF ReadLog, CreateGz, CannotCreateGz, WriteGz, WriteGzFails, UnlinkLog, writers
  <2>7. CASE Check \/ CheckerEnds \/ CloseOld \/ RenameOld \/ RotationFails \/ OpenNew \/ Swap
    BY <2>2, <2>7
    DEF Check, CheckerEnds, CloseOld, RenameOld, RotationFails, OpenNew, Swap, writers
  <2>8. CASE ListOld \/ RemoveOld \/ StopRotation \/ CloseLogFile
    BY <2>2, <2>8 DEF ListOld, RemoveOld, StopRotation, CloseLogFile, writers
  <2>9. CASE Restart \/ RestartOnStdout
    BY <2>5, <2>9 DEF Restart, RestartOnStdout
  <2> QED BY <2>2, <2>3, <2>4, <2>6, <2>7, <2>8, <2>9 DEF Next, vars, writers
<1> QED BY <1>1, LogInitially, LogStep, PTL DEF Spec, NoWriteToRotated

\* A copy is made of a file that has been renamed, when it held at least what it held
\* then: a write that ends late only adds to it.
CopyInv ==
  \A g \in Gen :
    /\ sealed[g] <= size[g]
    /\ Copied(g) => g <= files /\ g # path
    /\ Copied(g) \/ packing[g] \in {"create", "write", "unlink"} => sealed[g] <= copied[g]

LEMMA CopyStep == LogInv /\ CopyInv /\ [Next]_vars => CopyInv'
<1> SUFFICES ASSUME LogInv, CopyInv, [Next]_vars PROVE CopyInv'
  OBVIOUS
<1>0. /\ TypeOK /\ TypeOK' /\ PathInv /\ FilesInv
      /\ Gen \subseteq Nat \ {0} /\ NoFile = 0 /\ NoFile \notin Gen
      /\ DOMAIN packing = Gen /\ DOMAIN size = Gen /\ DOMAIN copied = Gen /\ DOMAIN sealed = Gen
      /\ path \in Gen \cup {NoFile} /\ files \in Nat /\ path <= files
  BY GenTyped, LogAssumption, TypeStep DEF LogInv, TypeInv, TypeOK, FilesInv
<1>n. \A g \in Gen : size[g] \in Nat /\ copied[g] \in Nat /\ sealed[g] \in Nat
  BY <1>0, LogAssumption DEF TypeOK
<1>1. CASE UNCHANGED <<path, files, disk, size, copied, sealed, packing>>
  BY <1>1 DEF CopyInv, Copied
<1>2. CASE \E w \in Writer : Take(w) \/ PutBegins(w)
  BY <1>1, <1>2 DEF Take, PutBegins, fs
<1>3. CASE \E w \in Writer : PutEnds(w)
  <2>1. /\ UNCHANGED <<path, files, disk, copied, sealed, packing>>
        /\ \E k \in Gen : size' = [size EXCEPT ![k] = @ + 1]
    BY <1>0, <1>3 DEF PutEnds, TypeOK
  <2>2. \A g \in Gen : size[g] <= size'[g] /\ size'[g] \in Nat
    BY <1>0, <1>n, <2>1
  <2>3. \A g \in Gen : sealed[g] <= size'[g]
    <3> SUFFICES ASSUME NEW g \in Gen PROVE sealed[g] <= size'[g]
      OBVIOUS
    <3>1. sealed[g] <= size[g]
      BY DEF CopyInv
    <3> QED BY <1>n, <2>2, <3>1
  <2> QED BY <2>1, <2>3 DEF CopyInv, Copied
<1>4. CASE Check \/ CheckerEnds \/ CloseOld \/ RotationFails \/ Swap \/ ListOld \/ StopRotation
           \/ CloseLogFile
  BY <1>1, <1>4 DEF Check, CheckerEnds, CloseOld, RotationFails, Swap, ListOld, StopRotation,
     CloseLogFile, fs
<1>5. CASE RenameOld
  <2>1. /\ path \in Gen /\ path' = NoFile /\ disk' = disk \cup {<<"log", path>>}
        /\ packing' = [packing EXCEPT ![path] = IF Compress THEN "read" ELSE "none"]
        /\ sealed' = [sealed EXCEPT ![path] = size[path]]
        /\ UNCHANGED <<files, size, copied>>
    BY <1>0, <1>5 DEF RenameOld, PathInv
  <2>2. \A g \in Gen : Copied(g)' <=> Copied(g)
    BY <2>1 DEF Copied
  <2>3. ASSUME NEW g \in Gen
        PROVE  /\ sealed'[g] <= size'[g]
               /\ Copied(g)' => g <= files' /\ g # path'
               /\ Copied(g)' \/ packing'[g] \in {"create", "write", "unlink"} =>
                    sealed'[g] <= copied'[g]
    <3>1. CASE g = path
      <4>1. packing'[g] \in {"read", "none"} /\ sealed'[g] = size[g] /\ ~Copied(g)
        BY <1>0, <2>1, <3>1 DEF CopyInv
      <4> QED BY <1>n, <2>1, <2>2, <4>1
    <3>2. CASE g # path
      BY <1>0, <2>1, <2>2, <3>2 DEF CopyInv
    <3> QED BY <3>1, <3>2
  <2> QED BY <2>3 DEF CopyInv
<1>6. CASE OpenNew \/ Restart \/ RestartOnStdout
  <2>1. /\ UNCHANGED <<disk, size, copied, sealed>>
        /\ \A g \in Gen : packing'[g] = packing[g] \/ packing'[g] = "none"
        /\ \/ UNCHANGED <<path, files>>
           \/ path' = files + 1 /\ files' = files + 1
    BY <1>6 DEF OpenNew, Restart, RestartOnStdout, NewProcess
  <2>2. \A g \in Gen : g <= files => g <= files' /\ (g # path => g # path')
    BY <1>0, <2>1
  <2> QED BY <2>1, <2>2 DEF CopyInv, Copied
<1>7. CASE RemoveOld
  BY <1>7 DEF RemoveOld, CopyInv, Copied
<1>8. ASSUME NEW g \in Gen,
             \/ ReadLog(g) \/ CreateGz(g) \/ CannotCreateGz(g)
             \/ WriteGz(g) \/ WriteGzFails(g) \/ UnlinkLog(g)
      PROVE  CopyInv'
  <2>1. UNCHANGED <<path, files, size, sealed>> /\ packing[g] # "none"
    BY <1>8 DEF ReadLog, CreateGz, CannotCreateGz, WriteGz, WriteGzFails, UnlinkLog, fs, Step
  <2>2. \A k \in Gen \ {g} : /\ Copied(k)' <=> Copied(k)
                             /\ packing'[k] = packing[k] /\ copied'[k] = copied[k]
    BY <1>0, <1>8
    DEF ReadLog, CreateGz, CannotCreateGz, WriteGz, WriteGzFails, UnlinkLog, fs, Step, Copied
  <2>3. g <= files /\ g # path
    BY <2>1 DEF LogInv, FilesInv
  <2>4. Copied(g)' \/ packing'[g] \in {"create", "write", "unlink"} => sealed[g] <= copied'[g]
    <3>1. CASE ReadLog(g)
      BY <1>0, <3>1 DEF ReadLog, CopyInv
    <3>2. CASE CreateGz(g) \/ WriteGz(g) \/ UnlinkLog(g)
      BY <1>0, <3>2 DEF CreateGz, WriteGz, UnlinkLog, Step, CopyInv, fs
    <3>3. CASE CannotCreateGz(g) \/ WriteGzFails(g)
      BY <1>0, <3>3 DEF CannotCreateGz, WriteGzFails, Step, CopyInv, fs
    <3> QED BY <1>8, <3>1, <3>2, <3>3
  <2> QED BY <2>1, <2>2, <2>3, <2>4 DEF CopyInv
<1>9. CASE UNCHANGED vars
  BY <1>1, <1>9 DEF vars, fs
<1> QED BY <1>2, <1>3, <1>4, <1>5, <1>6, <1>7, <1>8, <1>9 DEF Next

\* A file that was opened is at the path or has been renamed; a copy is lost to
\* cleanupOldLogs alone.
KeptInv == CopyInv /\ LinesAreKept

LEMMA KeptStep ==
  ASSUME LogInv, KeptInv, [Next]_vars
  PROVE  LinesAreKept'
<1> SUFFICES ASSUME NEW g \in 1 .. files' PROVE g \in dropped' \/ Whole(g)'
  BY DEF LinesAreKept
<1>0. /\ CopyInv' /\ FilesInv /\ TypeOK /\ TypeOK' /\ PathInv
      /\ Gen \subseteq Nat \ {0} /\ NoFile = 0 /\ g \in Gen /\ g # NoFile
      /\ DOMAIN packing = Gen /\ files \in Nat
  <2>1. CopyInv' /\ FilesInv /\ TypeOK /\ TypeOK' /\ PathInv
    BY CopyStep, TypeStep DEF KeptInv, LogInv, TypeInv
  <2>2. files \in Nat /\ files' \in 0 .. MaxFiles /\ DOMAIN packing = Gen
    BY <2>1, LogAssumption DEF TypeOK
  <2>3. g \in Gen
    BY <2>2, LogAssumption DEF Gen
  <2> QED BY <2>1, <2>2, <2>3, GenTyped
<1>1. /\ g <= files => g \in dropped \/ path = g \/ OnDisk(g) \/ Complete(g)
      /\ path' = g \/ OnDisk(g)' \/ Complete(g)' => Whole(g)'
  <2>1. Complete(g)' => copied'[g] >= sealed'[g]
    <3>1. copied'[g] \in Nat /\ sealed'[g] \in Nat
      BY <1>0, LogAssumption DEF TypeOK
    <3> QED BY <1>0, <3>1 DEF CopyInv, Complete, Copied
  <2> QED BY <1>0, <2>1 DEF KeptInv, LinesAreKept, Whole, OnDisk, Complete
<1>2. CASE UNCHANGED <<path, files, disk, partial, dropped>>
  BY <1>0, <1>1, <1>2 DEF OnDisk, Complete
<1>3. CASE \E w \in Writer : Take(w) \/ PutBegins(w) \/ PutEnds(w)
  BY <1>2, <1>3 DEF Take, PutBegins, PutEnds, fs
<1>4. CASE Check \/ CheckerEnds \/ CloseOld \/ RotationFails \/ Swap \/ ListOld \/ StopRotation
           \/ CloseLogFile \/ RestartOnStdout
  BY <1>2, <1>4 DEF Check, CheckerEnds, CloseOld, RotationFails, Swap, ListOld, StopRotation,
     CloseLogFile, RestartOnStdout, NewProcess, fs
<1>5. CASE RenameOld
  BY <1>0, <1>1, <1>5 DEF RenameOld, OnDisk, Complete
<1>6. CASE OpenNew \/ Restart
  <2>1. /\ UNCHANGED <<disk, partial, dropped>>
        /\ \/ UNCHANGED <<path, files>>
           \/ path = NoFile /\ path' = files + 1 /\ files' = files + 1
    BY <1>6 DEF OpenNew, Restart, NewProcess, LogInv, TypeInv, PathInv
  <2> QED BY <1>0, <1>1, <2>1 DEF OnDisk, Complete
<1>7. CASE RemoveOld
  <2>1. /\ disk' = disk \ doomed /\ dropped' = dropped \cup {f[2] : f \in doomed \cap disk}
        /\ UNCHANGED <<path, files, partial>>
    BY <1>7 DEF RemoveOld
  <2>2. <<"log", g>>[2] = g /\ <<"gz", g>>[2] = g
    OBVIOUS
  <2>3. OnDisk(g) => g \in dropped' \/ OnDisk(g)'
    BY <2>1, <2>2 DEF OnDisk
  <2>4. Complete(g) => g \in dropped' \/ Complete(g)'
    BY <2>1, <2>2 DEF Complete
  <2> QED BY <1>0, <1>1, <2>1, <2>3, <2>4
<1>8. ASSUME NEW k \in Gen,
             \/ ReadLog(k) \/ CreateGz(k) \/ CannotCreateGz(k)
             \/ WriteGz(k) \/ WriteGzFails(k) \/ UnlinkLog(k)
      PROVE  g \in dropped' \/ Whole(g)'
  <2>1. UNCHANGED <<path, files, dropped>>
    BY <1>8 DEF ReadLog, CreateGz, CannotCreateGz, WriteGz, WriteGzFails, UnlinkLog, fs
  <2>2. CASE ReadLog(k) \/ CannotCreateGz(k)
    BY <1>2, <2>2 DEF ReadLog, CannotCreateGz, fs
  <2>3. CASE CreateGz(k) \/ WriteGzFails(k)
    <3>1. packing[k] \in {"create", "write"} /\ (OnDisk(g)' <=> OnDisk(g))
      BY <2>3 DEF CreateGz, WriteGzFails, Step, OnDisk
    <3>2. CASE g = k
      BY <1>0, <1>1, <3>1, <3>2, <2>1 DEF FilesInv
    <3>3. CASE g # k
      <4>1. Complete(g)' <=> Complete(g)
        BY <2>3, <3>3 DEF CreateGz, WriteGzFails, Complete
      <4> QED BY <1>0, <1>1, <2>1, <3>1, <4>1
    <3> QED BY <3>2, <3>3
  <2>4. CASE WriteGz(k)
    <3>1. (OnDisk(g)' <=> OnDisk(g)) /\ (Complete(g) => Complete(g)')
      BY <2>4 DEF WriteGz, OnDisk, Complete
    <3> QED BY <1>0, <1>1, <2>1, <3>1
  <2>5. CASE UnlinkLog(k)
    <3>1. /\ packing[k] = "unlink" /\ (Complete(g)' <=> Complete(g))
          /\ g # k => (OnDisk(g)' <=> OnDisk(g))
      BY <2>5 DEF UnlinkLog, Step, OnDisk, Complete
    <3>2. g = k => g \in dropped \/ Complete(g)
      BY <3>1 DEF LogInv, FilesInv
    <3> QED BY <1>0, <1>1, <2>1, <3>1, <3>2
  <2> QED BY <1>8, <2>2, <2>3, <2>4, <2>5
<1>9. CASE UNCHANGED vars
  BY <1>2, <1>9 DEF vars, fs
<1> QED BY <1>3, <1>4, <1>5, <1>6, <1>7, <1>8, <1>9 DEF Next

\* Whatever fails and wherever the process dies: every log file ever opened is at the
\* path, renamed, or compressed with all it held when it was renamed, until
\* cleanupOldLogs deletes it (rotateLogFile, compressLogFile).
THEOREM LogLinesAreKept == Spec => []LinesAreKept
<1>1. Init => LogInv /\ KeptInv
  <2> SUFFICES ASSUME Init PROVE LogInv /\ KeptInv
    OBVIOUS
  <2>1. LogInv
    BY LogInitially
  <2>2. CopyInv
    <3>1. \A g \in Gen : sealed[g] = 0 /\ size[g] = 0 /\ copied[g] = 0 /\ ~Copied(g)
      BY DEF Init, Copied
    <3>2. 0 <= 0
      OBVIOUS
    <3>3. \A g \in Gen : packing[g] = "none"
      BY DEF Init
    <3> QED BY <3>1, <3>2, <3>3 DEF CopyInv
  <2>3. LinesAreKept
    <3>1. files = 1 /\ path = 1
      BY DEF Init
    <3>2. \A g \in 1 .. files : path = g
      BY <3>1
    <3> QED BY <3>2 DEF LinesAreKept, Whole
  <2> QED BY <2>1, <2>2, <2>3 DEF KeptInv
<1>2. (LogInv /\ KeptInv) /\ [Next]_vars => (LogInv /\ KeptInv)'
  BY LogStep, CopyStep, KeptStep DEF KeptInv
<1>3. KeptInv => LinesAreKept
  BY DEF KeptInv
<1> QED BY <1>1, <1>2, <1>3, PTL DEF Spec
=============================================================================
