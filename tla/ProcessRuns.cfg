\* Two webhooks and a page around the signal.
SPECIFICATION FairSpec
CONSTANTS
  k1 = k1
  k2 = k2
  p1 = p1
  Hook = {k1, k2}
  Page = {p1}
INVARIANTS
  NoLateWebhookRuns
  SocketOutlivesRuns
  KilledRunsWereLate
  CrashNeedsALateAdd
PROPERTIES
  ProcessEnds
CHECK_DEADLOCK FALSE
