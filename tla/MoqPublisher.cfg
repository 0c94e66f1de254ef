CONSTANTS
  Own = {"video", "audio", "catalog"}
  Requests = {r1}
  Updates = {u1}
  MaxInbox = 2
  VideoCap = 1
  AudioCap = 1
  PacketLen = 2
  Pieces = {1, 3}
  MaxInputs = 3
  MaxTime = 1
SPECIFICATION Spec
INVARIANTS GroupsClosedHonestly VideoInOrder AudioConfigFirst EachAnsweredOnce DoneAfterStreams
PROPERTIES AnswersReachOpenStreams SettledUnlessSilent
CHECK_DEADLOCK FALSE
