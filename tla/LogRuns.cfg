\* Two goroutines that log, rotations that overlap with compression, a restart.
SPECIFICATION Spec
CONSTANTS
  w1 = w1
  w2 = w2
  Writer <- Writers
  MaxSize = 1
  MaxBackups = 2
  Compress = TRUE
  MaxFiles = 3
  MaxLines = 3
  MaxRestarts = 1
SYMMETRY Alike
INVARIANTS
  TypeOK
  LinesAreKept
  AtRestLinesReachTheFile
PROPERTIES
  NoWriteToRotated
CHECK_DEADLOCK FALSE
