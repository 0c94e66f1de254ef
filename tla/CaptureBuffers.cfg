CONSTANTS
  Buffers = {b1, b2}
  Encoders = {e1, e2}
  MaxFrames = 3
SPECIFICATION Spec
INVARIANTS ReadsItsFrame
PROPERTIES FramesReturn
CHECK_DEADLOCK FALSE
