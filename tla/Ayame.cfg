CONSTANTS
  CmdCap = 1
  NotifyCap = 1
  MaxFrames = 2
  MaxCands = 1
  RetryMax = 3
  Stalls = {"flood"}
SPECIFICATION FairSpec
INVARIANTS SdpBeforeCandidate
PROPERTIES ConnectOnceComesBackUnlessFull FiredWatchdogReconnectsUnlessFull EndedTaskReconnects Reconnects
CHECK_DEADLOCK FALSE
