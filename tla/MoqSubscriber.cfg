CONSTANTS
  Own = {"video", "fetch"}
  Requests = {q}
  Updates = {u}
  MaxInbox = 1
SPECIFICATION Spec
INVARIANTS TypeOK
PROPERTIES RunAsPromised RelayIsAnswered
CHECK_DEADLOCK FALSE
