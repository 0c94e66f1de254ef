CONSTANTS
  Sessions = {s1, d1}
  Detached = {d1}
  Requests = {r1, r2}
  Stalled = {s1}
  NoOne = NoOne
SPECIFICATION FairSpec
INVARIANTS NoProviderLost EveryoneAsked EndedProvidersLeave
PROPERTIES RegistersUnlessHeadOfLine AnsweredUnlessStalled
CHECK_DEADLOCK FALSE
