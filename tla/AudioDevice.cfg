SPECIFICATION Spec
INVARIANTS TransportOutlivesUse
PROPERTIES CallsReturn PlaybackReleased
CHECK_DEADLOCK FALSE
