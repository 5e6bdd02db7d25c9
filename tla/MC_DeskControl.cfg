SPECIFICATION SpecDesk
CONSTANTS
  NaN = NaN
  NoText = NoText
  NoDigest = NoDigest
  NoPark = NoPark
  Unknown = Unknown
  Contents = {}
  Size <- MCSize
  MaxKb = 1
  ClipEnabled = FALSE
  geom <- MCRight
  HandKeys = {"ControlLeft", "ControlRight", "F10"}
  HandSteps <- MCSteps
  ToldMax = 1
  Keys <- MCKeys
  Emergency <- MCCombo
  Buttons = {}
  Deltas <- MCDeltas
  Travel = 1
  InputMax = 1
  EventsMax = 1
  SendMax = 1
INVARIANTS HandControlsVirtualPointer
CHECK_DEADLOCK FALSE
