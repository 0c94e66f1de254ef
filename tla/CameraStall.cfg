CONSTANTS
  Buffers = {b1, b2}
  Encoders = {e1}
  MaxFrames = 2
SPECIFICATION Spec
PROPERTIES ReportedFramesReturn
