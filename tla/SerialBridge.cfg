CONSTANTS
  Channels = {c1, c2}
  MaxMsgs = 2
  Parts = 2
  RxCap = 2
  TxCap = 1
SPECIFICATION SerialFairSpec
PROPERTIES ClosedBridgeEndsUnlessUnread BacklogWrittenUnlessBothFull
CHECK_DEADLOCK FALSE
