\* Any two runs on one lamp, from every starting look, with every failure.
SPECIFICATION Spec
CONSTANTS
  d1 = d1
  d2 = d2
  c1 = c1
  c2 = c2
  c3 = c3
  NoWorker = NoWorker
  NoZone = NoZone
  Device = {d1}
  Listing = {1, 2}
  Call = {c1, c2}
  Mapping <- OneMapping
  Jobs <- AllOneLampJobs
  ManualJobs <- ManualColor
  Settings <- NoSettings
  StartLamps <- SomeLamps
  EarlierLooks <- LateLook
  FieldSets <- SomeFieldSets
  MaxTime = 0
  DayMinutes = 4
  LocalOffset = 1
SYMMETRY Symmetry
CONSTRAINT NotStopped
INVARIANTS
  NoInterleaving
  OneVerdictPerRun
PROPERTIES
  RunsAreAtomic
\* The calls are finitely many: the system comes to rest when all are settled.
CHECK_DEADLOCK FALSE
