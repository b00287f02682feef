\* Two overlapping requests of any kind, which may name a timezone or none, with write
\* failures, a crash at any step and a restart.
SPECIFICATION Spec
CONSTANTS
  h1 = h1
  h2 = h2
  m1 = m1
  t1 = t1
  w1 = w1
  lamp = lamp
  utc = utc
  Handler = {h1, h2}
  MappingId = {m1}
  Token = {t1}
  Device = {lamp}
  Window = {w1}
  Zone = {utc}
  AnyToken = AnyToken
  NoMapping = NoMapping
  NoZone = NoZone
  NoQuiet = NoQuiet
  NoConfig = NoConfig
  Missing = Missing
  Broken = Broken
  Files <- HandWritten
  MaxCrashes = 1
SYMMETRY Symmetry
INVARIANTS
  FileIsLive
  OnlyStaleSavesOrphan
PROPERTIES
  PlaintextNeverComesBack
  HandEditedZoneStays
