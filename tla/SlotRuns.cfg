\* Three goroutines that send to the cloud and to a lamp, woken up to a unit late.
SPECIFICATION SlotsSpec
CONSTANTS
  cloud = cloud
  lamp = lamp
  Lane = {cloud, lamp}
  Gap <- Gaps
  Callers = 3
  MaxLate = 1
  MaxSends = 3
  MaxTime = 6
INVARIANTS
  NoBurst
  BacklogIsCallers
CHECK_DEADLOCK FALSE
