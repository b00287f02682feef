\* An effect and a sweep on a lamp that loses power, with a configured address.
SPECIFICATION FairSpec
CONSTANTS
  d1 = d1
  d2 = d2
  a1 = a1
  a2 = a2
  r1 = r1
  s1 = s1
  s2 = s2
  NoRoute = NoRoute
  Device = {d1}
  Addr = {a1}
  Run = {r1}
  Sweep = {s1}
  Target <- OneTarget
  Statics <- StaticD1
  StartupRetries = 1
  MaxCuts = 1
INVARIANTS
  WaitersAreWaiting
PROPERTIES
  StaticsStayDropped
  UnansweredRunsFail
  RouteReturns
