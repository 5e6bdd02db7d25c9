SPECIFICATION Spec
CONSTANTS
  NaN = NaN
  NoText = NoText
  NoDigest = NoDigest
  NoPark = NoPark
  T1 = T1
  T2 = T2
  Contents = {T1, T2}
  Size <- MCSize
  MaxKb = 1
  ClipEnabled = TRUE
  geom <- MCLeft
  Keys = {59}
  Emergency = {59}
  Buttons = {}
  Deltas = {}
  Travel = 0
  InputMax = 0
  Heartbeat = TRUE
  TooLarge = {}
  FlightMax = 1
  QueueMax = 1
  Faults = {"capture"}
PROPERTIES SharesClipboards
CHECK_DEADLOCK FALSE
