SPECIFICATION Spec
CONSTANTS
  A = A
  B = B
  Configs <- MCConfigs
  Files <- MCFiles
  Nested = TRUE
  IdMax = 3
  OldIds = 2
  LaunchMax = 3
  MishapMax = 1
  Stranger = Stranger
  NoPin = NoPin
  Malformed = Malformed
  NoId = NoId
  Missing = Missing
  Torn = Torn
INVARIANTS FitConfigurationStarts
CHECK_DEADLOCK FALSE
