\* Two callers and two probers through outages that come and go, late outcomes included.
SPECIFICATION FairSpec
CONSTANTS
  c1 = c1
  c2 = c2
  c3 = c3
  p1 = p1
  p2 = p2
  Caller = {c1, c2}
  Prober = {p1, p2}
  BreakerThreshold = 2
  BreakerCooldown = 2
  RequestTime = 1
  DailyCallLimit = 1
INVARIANTS
  OpenOnlyAfterOutages
  OneProbeAtATime
PROPERTIES
  RecoveryIsNoticed
