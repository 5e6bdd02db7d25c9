SPECIFICATION Spec
CONSTANTS
  NaN = NaN
  NoText = NoText
  NoDigest = NoDigest
  NoPark = NoPark
  T1 = T1
  T2 = T2
  Contents = {}
  Size <- MCSize
  MaxKb = 1
  ClipEnabled = FALSE
  geom <- MCRight
  Keys <- MCCombo
  Emergency <- MCCombo
  Buttons = {}
  Deltas <- MCSteps
  Travel = 2
  InputMax = 1
  Heartbeat = FALSE
  TooLarge = {}
  FlightMax = 1
  QueueMax = 1
  Faults = {}
INVARIANTS NothingStaysPressed
CHECK_DEADLOCK FALSE
