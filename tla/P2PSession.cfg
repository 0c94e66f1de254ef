CONSTANTS
  MaxGen = 3
  MaxCands = 1
SPECIFICATION FairSpec
INVARIANTS TypeOK CandidateToItsPeer PeerIsCurrent CandidatesKept
PROPERTIES AnsweredUnlessHurried
CHECK_DEADLOCK FALSE
