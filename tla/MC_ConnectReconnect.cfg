SPECIFICATION FairSpec
CONSTANTS
  A = A
  B = B
  Configs <- MCConfigs
  Files <- MCFiles
  Nested = FALSE
  IdMax = 3
  OldIds = 2
  LaunchMax = 2
  MishapMax = 1
  Stranger = Stranger
  NoPin = NoPin
  Malformed = Malformed
  NoId = NoId
  Missing = Missing
  Torn = Torn
PROPERTIES LostSessionIsDialedAgain
CHECK_DEADLOCK FALSE
