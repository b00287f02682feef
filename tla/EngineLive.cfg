\* Two jobs across two lamps: every run is reported, Stop drains.
SPECIFICATION FairSpec
CONSTANTS
  d1 = d1
  d2 = d2
  c1 = c1
  c2 = c2
  c3 = c3
  NoWorker = NoWorker
  NoZone = NoZone
  Device = {d1, d2}
  Listing = {1}
  Call = {c1, c2}
  Mapping <- OneMapping
  Jobs <- TwoLampJobs
  ManualJobs <- ManualColor
  Settings <- NoSettings
  StartLamps <- OneLamp
  EarlierLooks <- NoLooks
  FieldSets <- FullReport
  MaxTime = 0
  DayMinutes = 4
  LocalOffset = 1
PROPERTIES
  EveryRunIsReported
  StopReturns
\* The calls are finitely many: the system comes to rest when all are settled.
CHECK_DEADLOCK FALSE
