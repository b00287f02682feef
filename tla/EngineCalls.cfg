\* Calls of two mappings while the operator saves settings and the clock passes midnight.
SPECIFICATION Spec
CONSTANTS
  d1 = d1
  d2 = d2
  c1 = c1
  c2 = c2
  c3 = c3
  NoWorker = NoWorker
  NoZone = NoZone
  Device = {d1}
  Listing = {1}
  Call = {c1, c2, c3}
  Mapping <- Mappings
  Jobs <- StormJobs
  ManualJobs <- NoManual
  Settings <- SomeSettings
  StartLamps <- OneLamp
  EarlierLooks <- NoLooks
  FieldSets <- FullReport
  MaxTime = 3
  DayMinutes = 4
  LocalOffset = 1
SYMMETRY Symmetry
CONSTRAINT Admission
INVARIANTS
  CooldownCollapses
  LastRunWasAccepted
  QuietHoursHonoured
\* The calls are finitely many: the system comes to rest when all are settled.
CHECK_DEADLOCK FALSE
