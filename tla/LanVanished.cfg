\* A sweep drops the route between an effect's writes and its verification.
SPECIFICATION Spec
CONSTANTS
  d1 = d1
  d2 = d2
  a1 = a1
  a2 = a2
  r1 = r1
  s1 = s1
  s2 = s2
  NoRoute = NoRoute
  Device = {d1}
  Addr = {a1}
  Run = {r1}
  Sweep = {s1}
  Target <- OneTarget
  Statics <- NoStatics
  StartupRetries = 0
  MaxCuts = 1
INVARIANTS
  OkMeansAnswered
