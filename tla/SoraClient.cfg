CONSTANTS
  Tracks = {t1, t2}
  Sinks = {k1, k2, k3, k4}
  MaxQueue = 2
  RetryMax = 2
SPECIFICATION FairSpec
INVARIANTS CellsShowTracks
PROPERTIES Reconnects ClosedWindowEndsProgram EndedLoopEndsProgram
CHECK_DEADLOCK FALSE
