SPECIFICATION FairSpec
CONSTANTS
  NaN = NaN
  NoText = NoText
  NoDigest = NoDigest
  NoPark = NoPark
  Ctrl = Ctrl
  F10 = F10
  Left = Left
  Text = Text
  Contents = {Text}
  Size <- MCSize
  MaxKb = 1
  ClipEnabled = TRUE
  geom <- MCRight
  Keys = {Ctrl, F10}
  Emergency = {Ctrl, F10}
  Buttons = {Left}
  Deltas <- MCDeltas
  Travel = 2
  InputMax = 1
  EventsMax = 1
  SendMax = 1
INVARIANTS TypeOK VirtualPointerOnPeer CoalescerTracksVirtual EmergencyStops
  ToldMatchesFocus SuppressedOnlyToPark
PROPERTIES KeepsPromise LoopEndsWithSession
CHECK_DEADLOCK FALSE
