CONSTANTS
  Videos = {v1, v2, v3}
  Audios = {a}
  Stalling = {v1}
  Permits = 2
  Limit = 0
  MaxObjects = 1
SPECIFICATION StreamsFairSpec
INVARIANTS BacklogIsExact BacklogIsBounded
PROPERTIES StreamsServed ProgramEnds
CHECK_DEADLOCK FALSE
