\* Two requests of any kind while the operator saves, and a ring of two records.
SPECIFICATION Spec
CONSTANTS
  h1 = h1
  h2 = h2
  Hook = {h1, h2}
  Request <- SomeRequests
  Configs <- SavedConfigs
  NoEvent = "-"
  NoRecord = NoRecord
  Record <- Records
  RingSize = 2
SYMMETRY Symmetry
INVARIANTS
  TypeOK
  RecentIsTheLatest
  EveryHookIsAccounted
  NothingRunsUnconfigured
  QueuedBeforeVerdict
CHECK_DEADLOCK FALSE
