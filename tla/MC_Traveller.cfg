SPECIFICATION Spec
CONSTANTS
  NaN = NaN
  NoText = NoText
  NoDigest = NoDigest
  NoPark = NoPark
  T1 = T1
  T2 = T2
  Contents = {}
  Size <- MCSize
  MaxKb = 1
  ClipEnabled = FALSE
  geom <- MCRight
  Keys = {59}
  Emergency = {59}
  Buttons = {1}
  Deltas <- MCSteps
  Travel = 2
  InputMax = 1
  Heartbeat = FALSE
  TooLarge = {}
  FlightMax = 1
  QueueMax = 1
  Faults = {"injection"}
INVARIANTS TypeOK VirtualFollowsReal AgreeWhenCaughtUp
PROPERTIES MovesOnlyWhenVisited
CHECK_DEADLOCK FALSE
