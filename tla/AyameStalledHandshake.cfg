CONSTANTS
  CmdCap = 1
  NotifyCap = 1
  MaxFrames = 1
  MaxCands = 0
  RetryMax = 1
  Stalls = {"handshake"}
SPECIFICATION FairSpec
PROPERTIES ExpiredHandshakeIsClosed
