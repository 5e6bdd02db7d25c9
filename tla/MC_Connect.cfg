SPECIFICATION FairSpec
CONSTANTS
  A = A
  B = B
  Configs <- MCConfigs
  Files <- MCFiles
  Nested = FALSE
  IdMax = 3
  OldIds = 2
  LaunchMax = 3
  MishapMax = 1
  Stranger = Stranger
  NoPin = NoPin
  Malformed = Malformed
  NoId = NoId
  Missing = Missing
  Torn = Torn
INVARIANTS TypeOK FailsForAReason IdentityKept SessionIsMutual
PROPERTIES MatchedMeet HalfSessionEnds
CHECK_DEADLOCK FALSE
