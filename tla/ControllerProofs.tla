-------------------------- MODULE ControllerProofs --------------------------
(***************************************************************************)
(* The event loop of the controller, for every geometry, emergency         *)
(* combination, set of keys and contents, and every bound: the safety      *)
(* invariants of Controller are invariants of its specification, and it    *)
(* implements RemoteControl.                                               *)
(*                                                                         *)
(* The inductive invariant is cut along the variables: each part has one   *)
(* lemma, with one step per action that changes its variables and one for  *)
(* all the others.                                                         *)
(***************************************************************************)
EXTENDS Controller, OperatorProofs, SequenceTheorems

-----------------------------------------------------------------------------
\* The parts of the inductive invariant.

\* A coalescer that holds nothing holds zeros: take leaves no residue.
CoalescerIdle == coalescer.has \/ coalescer = NoMove

FocusInv ==
  FocusTypeOK /\ VirtualPointerOnPeer /\ CoalescerTracksVirtual /\ CoalescerIdle

ParkInv ==
  /\ pc \in {"select", "parking", "done"}
  /\ parkAt \in Positions \cup {NoPark}
  /\ suppress \in BOOLEAN
  /\ SuppressedOnlyToPark

KeysInv == pressedKeys \subseteq Keys /\ EmergencyStops

\* Closed is pushed by a reader task that ends: it is never waiting while the
\* session is open.
ClosedIsLast == eventsOpen => \A i \in 1 .. Len(rxEvents) : rxEvents[i] # Closed

ToldInv == told \in BOOLEAN /\ ToldMatchesFocus

InputInv == rxInput \in Seq(InputEvents) /\ captureOpen \in BOOLEAN

EventsInv ==
  /\ rxEvents \in Seq(PeerMessages \cup {Closed}) /\ eventsOpen \in BOOLEAN
  /\ ClosedIsLast

SendInv == txSend \in Seq(Messages) /\ sendOpen \in BOOLEAN

ClipInv == clipboard \in Services

IInv ==
  /\ FocusInv /\ ParkInv /\ KeysInv /\ ToldInv
  /\ InputInv /\ EventsInv /\ SendInv /\ ClipInv

-----------------------------------------------------------------------------
\* Queues and the values in them.

LEMMA Queue ==
  ASSUME NEW S, NEW q \in Seq(S)
  PROVE  /\ q # <<>> => Head(q) \in S /\ Tail(q) \in Seq(S)
         /\ \A m \in S : Append(q, m) \in Seq(S)
  BY HeadTailProperties, AppendProperties

LEMMA EventShapes ==
  ASSUME NEW e \in InputEvents
  PROVE  /\ e.type = "Move" => /\ e \in MoveEvents
                               /\ e.dx \in Int /\ e.dy \in Int
                               /\ PointerMove(e.dx, e.dy) \in InputMessages
         /\ e.type = "Button" => PointerButton(e.button, e.pressed) \in InputMessages
         /\ e.type = "Key" => /\ e.code \in Keys /\ e.pressed \in BOOLEAN
                              /\ Key(e.code, e.pressed) \in InputMessages
<1>1. CASE e \in MoveEvents
  <2>1. PICK d \in Deltas : e = Move(d)
    BY <1>1 DEF MoveEvents
  <2>2. e.type = "Move" /\ e.dx = d[1] /\ e.dy = d[2]
    BY <2>1 DEF Move
  <2>3. d[1] \in Int /\ d[2] \in Int
    BY ControllerAssumption
  <2>4. PointerMove(e.dx, e.dy) \in InputMessages
    BY <2>2 DEF InputMessages
  <2>5. QED
    BY <1>1, <2>2, <2>3, <2>4
<1>2. CASE e \in ButtonEvents
  <2>1. PICK b \in Buttons, p \in BOOLEAN : e = Button(b, p)
    BY <1>2 DEF ButtonEvents
  <2>2. e.type = "Button" /\ e.button = b /\ e.pressed = p
    BY <2>1 DEF Button
  <2>3. PointerButton(e.button, e.pressed) \in InputMessages
    BY <2>2 DEF InputMessages
  <2>4. QED
    BY <2>2, <2>3
<1>3. CASE e \in KeyEvents
  <2>1. PICK k \in Keys, p \in BOOLEAN : e = KeyEvent(k, p)
    BY <1>3 DEF KeyEvents
  <2>2. e.type = "Key" /\ e.code = k /\ e.pressed = p
    BY <2>1 DEF KeyEvent
  <2>3. Key(e.code, e.pressed) \in InputMessages
    BY <2>2 DEF InputMessages
  <2>4. QED
    BY <2>2, <2>3
<1>4. CASE e = WheelEvent
  BY <1>4 DEF WheelEvent
<1>5. QED
  BY <1>1, <1>2, <1>3, <1>4 DEF InputEvents

\* The event a branch of the select! takes.
LEMMA TakenInput ==
  ASSUME InputInv, NEW type, TakeInput(type)
  PROVE  /\ Head(rxInput) \in InputEvents /\ Head(rxInput).type = type
         /\ rxInput' \in Seq(InputEvents)
         /\ pc = "select"
  BY Queue DEF InputInv, TakeInput

LEMMA TakenEvent ==
  ASSUME EventsInv, NEW type, TakeEvent(type)
  PROVE  /\ Head(rxEvents) \in PeerMessages \cup {Closed} /\ Head(rxEvents).type = type
         /\ rxEvents' \in Seq(PeerMessages \cup {Closed})
         /\ pc = "select"
  BY Queue DEF EventsInv, TakeEvent

-----------------------------------------------------------------------------
\* The focus and the coalescer.

LEMMA ShiftedRange ==
  ASSUME NEW hi \in Nat, NEW y \in (0 .. hi) \cup {NaN}, NEW dy \in Int
  PROVE  /\ Shifted(y, dy, hi) \in (0 .. hi) \cup {NaN}
         /\ Shifted(y, dy, hi) = NaN => y = NaN
<1>1. CASE y = NaN
  BY <1>1 DEF Shifted
<1>2. CASE y # NaN
  <2>1. y \in 0 .. hi
    BY <1>2
  <2>2. Shifted(y, dy, hi) \in 0 .. hi
    BY <1>2, <2>1, SMT DEF Shifted
  <2>3. NaN \notin 0 .. hi
    BY NaNAssumption, SMT
  <2>4. QED
    BY <2>2, <2>3
<1>3. QED
  BY <1>1, <1>2

LEMMA AtRest ==
  ASSUME mode' = "Local", virtX' = 0, virtY' = 0, coalescer' = NoMove
  PROVE  FocusInv'
  BY DEF FocusInv, FocusTypeOK, VirtualPointerOnPeer, CoalescerTracksVirtual,
         CoalescerIdle, IsRemote, NoMove

LEMMA FocusStep ==
  ASSUME IInv, [Next]_vars
  PROVE  FocusInv'
<1> USE DEF IInv
<1>0. geom \in Geometries
  BY ControllerAssumption
<1>1. CASE EnterRemote
  <2>1. PICK pos \in Positions :
          mode' = "Remote" /\ virtX' = EntryX(geom) /\ virtY' = MapOutY(geom, pos[2])
    BY <1>1 DEF EnterRemote
  <2>2. pos[2] \in Pixels(geom.local.height)
    BY <2>1 DEF Positions
  <2>3. /\ virtY' \in Pixels(geom.peer.height) \cup {NaN}
        /\ virtY' = NaN => geom.local.height = 1
    BY <1>0, <2>1, <2>2, MapOutOnScreen
  <2>4. /\ virtX' \in 0 .. LastIndex(geom.peer.width)
        /\ LastIndex(geom.peer.width) \in Nat /\ LastIndex(geom.peer.height) \in Nat
    BY <1>0, <2>1, EdgesOnScreen DEF Pixels
  <2>5. coalescer' = NoMove
    BY <1>1 DEF EnterRemote, FocusInv, CoalescerTracksVirtual
  <2>6. /\ virtX' \in Int /\ virtX' >= 0 /\ virtX' <= LastIndex(geom.peer.width)
        /\ virtY' \in Int \cup {NaN}
        /\ virtX' - EntryX(geom) = 0
    BY <2>1, <2>3, <2>4 DEF Pixels
  <2>7. QED
    BY <2>1, <2>3, <2>5, <2>6
       DEF FocusInv, FocusTypeOK, VirtualPointerOnPeer, CoalescerTracksVirtual,
           CoalescerIdle, IsRemote, NoMove
<1>2. CASE RemainRemote
  <2> DEFINE e == Head(rxInput)
  <2>1. e.dx \in Int /\ e.dy \in Int
    BY <1>2, TakenInput, EventShapes DEF RemainRemote
  <2>2. /\ mode = "Remote" /\ mode' = "Remote"
        /\ ~IsReentering(geom, virtX + e.dx, e.dx)
        /\ coalescer' = Push(coalescer, e.dx, e.dy)
        /\ virtX' = virtX + e.dx
        /\ virtY' = Shifted(virtY, e.dy, LastIndex(geom.peer.height))
    BY <1>2 DEF RemainRemote, IsRemote, NextVirtY
  <2>3. /\ virtX \in Int /\ coalescer.x \in Int /\ coalescer.y \in Int
        /\ coalescer.x = virtX - EntryX(geom)
        /\ virtY \in Pixels(geom.peer.height) \cup {NaN}
        /\ geom.side = "Right" => virtX >= 0
        /\ geom.side = "Left"  => virtX <= LastIndex(geom.peer.width)
        /\ virtY = NaN => geom.local.height = 1
    BY <2>2 DEF FocusInv, FocusTypeOK, VirtualPointerOnPeer, CoalescerTracksVirtual, IsRemote
  <2>4. /\ EntryX(geom) \in Int
        /\ LastIndex(geom.peer.width) \in Nat /\ LastIndex(geom.peer.height) \in Nat
    BY <1>0, EdgesOnScreen DEF Pixels
  <2>5. /\ virtY' \in Pixels(geom.peer.height) \cup {NaN}
        /\ virtY' = NaN => geom.local.height = 1
    BY <2>1, <2>2, <2>3, <2>4, ShiftedRange DEF Pixels
  <2> HIDE DEF e
  <2>6. /\ geom.side = "Right" => virtX + e.dx >= 0
        /\ geom.side = "Left"  => virtX + e.dx <= LastIndex(geom.peer.width)
    BY <2>1, <2>2, <2>3, <2>4, SMT DEF IsReentering
  <2>7. /\ virtX' \in Int /\ virtY' \in Int \cup {NaN}
        /\ coalescer.x + e.dx = virtX + e.dx - EntryX(geom)
        /\ coalescer.x + e.dx \in Int /\ coalescer.y + e.dy \in Int
    <3>1. virtY' \in Int \cup {NaN}
      BY <2>4, <2>5 DEF Pixels
    <3>2. \A c, v, x, y, d : /\ {c, v, x, y, d} \subseteq Int /\ c = v - x
                             => c + d = v + d - x /\ {c + d, v + d} \subseteq Int
      OBVIOUS
    <3>3. coalescer.y + e.dy \in Int
      BY <2>1, <2>3
    <3>4. QED
      BY <2>1, <2>2, <2>3, <2>4, <3>1, <3>2, <3>3
  <2>8. /\ coalescer' \in [x : Int, y : Int, has : BOOLEAN]
        /\ coalescer'.x = virtX' - EntryX(geom) /\ coalescer'.has
    <3>1. coalescer' = [x |-> coalescer.x + e.dx, y |-> coalescer.y + e.dy, has |-> TRUE]
      BY <2>2 DEF Push
    <3>2. coalescer'.x = coalescer.x + e.dx /\ coalescer'.has = TRUE
      BY <3>1
    <3>3. coalescer' \in [x : Int, y : Int, has : BOOLEAN]
      BY <2>7, <3>1
    <3>4. coalescer'.x = virtX' - EntryX(geom)
      BY <2>1, <2>2, <2>3, <2>4, <3>2
    <3>5. QED
      BY <3>2, <3>3, <3>4
  <2>9. QED
    BY <2>2, <2>5, <2>6, <2>7, <2>8
       DEF FocusInv, FocusTypeOK, VirtualPointerOnPeer, CoalescerTracksVirtual,
           CoalescerIdle, IsRemote
<1>3. CASE ExitRemote
  <2>1. Taken(coalescer) = NoMove
    BY DEF FocusInv, CoalescerIdle, Taken, NoMove
  <2>2. QED
    BY <1>3, <2>1, AtRest DEF ExitRemote
<1>4. CASE EmergencyStop
  BY <1>4, AtRest DEF EmergencyStop, ForceLocal
<1>5. CASE HandleClosed
  BY <1>5, AtRest DEF HandleClosed, ForceLocal
<1>6. ASSUME UNCHANGED coreVars PROVE FocusInv'
  BY <1>6 DEF coreVars, focusVars, FocusInv, FocusTypeOK, VirtualPointerOnPeer,
              CoalescerTracksVirtual, CoalescerIdle, IsRemote
<1>7. CASE \/ RemainLocal \/ HandleButton \/ HandleWheel \/ HandleKey \/ CaptureClosed
          \/ HandleClipboard \/ IgnoreMessage \/ EventsEnded \/ TickSend \/ ParkEnds
          \/ Environment \/ UNCHANGED vars
  <2>1. UNCHANGED coreVars
    BY <1>7 DEF RemainLocal, HandleButton, HandleWheel, HandleKey, CaptureClosed,
         HandleClipboard, IgnoreMessage, EventsEnded, TickSend, ParkEnds, vars,
         Environment, Capture, CaptureEnds, Receive, SessionCloses, WriterTakes,
         WriterEnds, UserCopies
  <2>2. QED
    BY <1>6, <2>1
<1>8. QED
  BY <1>1, <1>2, <1>3, <1>4, <1>5, <1>7 DEF Next, Loop, HandleInput, HandleConnEvent

-----------------------------------------------------------------------------
\* Parking.

LEMMA ParkingOnEdge ==
  ASSUME NEW k \in Pixels(geom.peer.height) \cup {NaN},
         StartPark(BackX(geom), MapBackY(geom, k))
  PROVE  ParkInv'
<1> DEFINE bx == BackX(geom)
           by == AsPixel(MapBackY(geom, k))
<1>1. geom \in Geometries
  BY ControllerAssumption
<1>2. bx \in Pixels(geom.local.width) /\ by \in Pixels(geom.local.height)
  BY <1>1, EdgesOnScreen, MapBackOnScreen
<1>3. bx # NaN
  <2>1. \A n : Pixels(n) \subseteq Int
    BY DEF Pixels
  <2>2. QED
    BY <1>2, <2>1, NaNAssumption
<1>4. parkAt' = <<bx, by>> /\ suppress' = TRUE /\ pc' = "parking"
  BY <1>3 DEF StartPark, AsPixel
<1>5. <<bx, by>> \in Positions /\ <<bx, by>> # NoPark
  <2>1. Positions \subseteq Int \X Int
    BY DEF Positions, Pixels
  <2>2. <<bx, by>> \in Positions
    BY <1>2 DEF Positions
  <2>3. QED
    BY <2>1, <2>2, ControllerAssumption
<1>6. parkAt'[1] = BackX(geom)
  BY <1>4
<1> HIDE DEF bx, by
<1>7. QED
  BY <1>4, <1>5, <1>6 DEF ParkInv, SuppressedOnlyToPark

LEMMA ParkStep ==
  ASSUME IInv, [Next]_vars
  PROVE  ParkInv'
<1> USE DEF IInv
<1>0. geom \in Geometries
  BY ControllerAssumption
<1>1. CASE EnterRemote
  <2>1. PICK pos \in Positions : virtY' = MapOutY(geom, pos[2])
    BY <1>1 DEF EnterRemote
  <2>2. pos[2] \in Pixels(geom.local.height)
    BY <2>1 DEF Positions
  <2>3. virtY' \in Pixels(geom.peer.height) \cup {NaN}
    BY <1>0, <2>1, <2>2, MapOutOnScreen
  <2>4. StartPark(BackX(geom), MapBackY(geom, virtY'))
    BY <1>1 DEF EnterRemote
  <2>5. QED
    BY <2>3, <2>4, ParkingOnEdge
<1>2. CASE ExitRemote
  <2> DEFINE e == Head(rxInput)
  <2>1. e.dy \in Int
    BY <1>2, TakenInput, EventShapes DEF ExitRemote
  <2>2. virtY \in Pixels(geom.peer.height) \cup {NaN}
    BY <1>2 DEF ExitRemote, FocusInv, VirtualPointerOnPeer
  <2>3. LastIndex(geom.peer.height) \in Nat
    BY <1>0, EdgesOnScreen
  <2>4. NextVirtY(e.dy) \in Pixels(geom.peer.height) \cup {NaN}
    BY <2>1, <2>2, <2>3, ShiftedRange DEF NextVirtY, Pixels
  <2>5. StartPark(BackX(geom), MapBackY(geom, NextVirtY(e.dy)))
    BY <1>2 DEF ExitRemote
  <2>6. QED
    BY <2>4, <2>5, ParkingOnEdge
<1>3. CASE ParkEnds
  BY <1>3 DEF ParkEnds, ParkInv, SuppressedOnlyToPark
<1>4. CASE EmergencyStop \/ CaptureClosed \/ EventsEnded
  <2>1. pc = "select" /\ pc' = "done" /\ UNCHANGED <<parkAt, suppress>>
    BY <1>4 DEF EmergencyStop, CaptureClosed, EventsEnded, TakeInput
  <2>2. QED
    BY <2>1 DEF ParkInv, SuppressedOnlyToPark
<1>5. CASE \/ RemainLocal \/ RemainRemote \/ HandleButton \/ HandleWheel \/ HandleKey
          \/ HandleClipboard \/ IgnoreMessage \/ HandleClosed \/ TickSend
          \/ Environment \/ UNCHANGED vars
  <2>1. UNCHANGED parkVars
    BY <1>5 DEF RemainLocal, RemainRemote, HandleButton, HandleWheel, HandleKey,
         HandleClipboard, IgnoreMessage, HandleClosed, TickSend, vars,
         Environment, Capture, CaptureEnds, Receive, SessionCloses, WriterTakes,
         WriterEnds, UserCopies
  <2>2. QED
    BY <2>1 DEF parkVars, ParkInv, SuppressedOnlyToPark
<1>6. QED
  BY <1>1, <1>2, <1>3, <1>4, <1>5 DEF Next, Loop, HandleInput, HandleConnEvent

-----------------------------------------------------------------------------
\* The pressed keys and the emergency combination.

LEMMA KeysStep ==
  ASSUME IInv, [Next]_vars
  PROVE  KeysInv'
<1> USE DEF IInv
<1>1. CASE HandleKey
  <2> DEFINE e == Head(rxInput)
  <2>1. e.code \in Keys /\ e.pressed \in BOOLEAN
    BY <1>1, TakenInput, EventShapes DEF HandleKey
  <2>2. /\ pc = "select" /\ pc' = pc
        /\ ~(e.pressed /\ Emergency \subseteq pressedKeys')
        /\ pressedKeys' = IF e.pressed THEN pressedKeys \cup {e.code}
                                       ELSE pressedKeys \ {e.code}
    BY <1>1 DEF HandleKey, StopsOn, PressedAfter, TakeInput, parkVars
  <2>3. pressedKeys \subseteq Keys /\ ~(Emergency \subseteq pressedKeys)
    BY <2>2 DEF KeysInv, EmergencyStops
  <2> HIDE DEF e
  <2>4. CASE e.pressed
    BY <2>1, <2>2, <2>3, <2>4 DEF KeysInv, EmergencyStops
  <2>5. CASE ~e.pressed
    BY <2>1, <2>2, <2>3, <2>5 DEF KeysInv, EmergencyStops
  <2>6. QED
    BY <2>4, <2>5
<1>2. CASE EmergencyStop
  <2> DEFINE e == Head(rxInput)
  <2>1. e.code \in Keys
    BY <1>2, TakenInput, EventShapes DEF EmergencyStop
  <2>2. pressedKeys' \subseteq Keys /\ pc' = "done"
    BY <1>2, <2>1 DEF EmergencyStop, PressedAfter, KeysInv
  <2>3. QED
    BY <2>2 DEF KeysInv, EmergencyStops
<1>3. ASSUME UNCHANGED pressedKeys, pc' = "done" \/ pc # "done" PROVE KeysInv'
  BY <1>3 DEF KeysInv, EmergencyStops
<1>4. CASE \/ RemainLocal \/ EnterRemote \/ RemainRemote \/ ExitRemote \/ ParkEnds
          \/ HandleButton \/ HandleWheel \/ CaptureClosed
          \/ HandleConnEvent \/ TickSend
  <2>1. UNCHANGED pressedKeys /\ pc # "done"
    BY <1>4 DEF RemainLocal, EnterRemote, RemainRemote, ExitRemote, ParkEnds,
         HandleButton, HandleWheel, CaptureClosed, HandleConnEvent, HandleClipboard,
         IgnoreMessage, HandleClosed, EventsEnded, TickSend, TakeInput, TakeEvent
  <2>2. QED
    BY <1>3, <2>1
<1>5. CASE Environment \/ UNCHANGED vars
  <2>1. UNCHANGED <<pressedKeys, pc>>
    BY <1>5 DEF vars, parkVars, Environment, Capture, CaptureEnds, Receive,
         SessionCloses, WriterTakes, WriterEnds, UserCopies
  <2>2. QED
    BY <2>1 DEF KeysInv, EmergencyStops
<1>6. QED
  BY <1>1, <1>2, <1>4, <1>5 DEF Next, Loop, HandleInput

-----------------------------------------------------------------------------
\* What the client was told.

LEMMA ClosedMeansCut ==
  ASSUME EventsInv, HandleClosed
  PROVE  ~eventsOpen
<1>1. rxEvents # <<>> /\ Head(rxEvents).type = "Closed"
  BY DEF HandleClosed, TakeEvent
<1>2. Head(rxEvents) \in PeerMessages \cup {Closed}
  BY TakenEvent DEF HandleClosed
<1>3. \A m \in PeerMessages : m.type # "Closed"
  BY DEF PeerMessages, Clipboard, Pong
<1>4. Head(rxEvents) = Closed
  BY <1>1, <1>2, <1>3
<1>5. 1 \in 1 .. Len(rxEvents) /\ Head(rxEvents) = rxEvents[1]
  BY <1>1, HeadTailProperties, EmptySeq, LenProperties DEF EventsInv
<1>6. QED
  BY <1>4, <1>5 DEF EventsInv, ClosedIsLast

LEMMA ToldStep ==
  ASSUME IInv, [Next]_vars
  PROVE  ToldInv'
<1> USE DEF IInv, ToldInv, ToldMatchesFocus, IsRemote
<1>1. CASE EnterRemote
  BY <1>1 DEF EnterRemote
<1>2. CASE ExitRemote
  BY <1>2 DEF ExitRemote, AnnounceLeave
<1>3. CASE EmergencyStop
  BY <1>3 DEF EmergencyStop
<1>4. CASE HandleClosed
  BY <1>4, ClosedMeansCut DEF HandleClosed
<1>5. CASE CaptureClosed \/ EventsEnded
  BY <1>5 DEF CaptureClosed, EventsEnded
<1>6. CASE SessionCloses
  BY <1>6 DEF SessionCloses
<1>7. CASE \/ RemainLocal \/ RemainRemote \/ ParkEnds
          \/ HandleButton \/ HandleWheel \/ HandleKey
          \/ HandleClipboard \/ IgnoreMessage \/ TickSend
  <2>1. UNCHANGED <<mode, told, eventsOpen>> /\ pc # "done"
    BY <1>7 DEF RemainLocal, RemainRemote, ParkEnds, HandleButton, HandleWheel,
         HandleKey, HandleClipboard, IgnoreMessage, TickSend, TakeInput, TakeEvent,
         coreVars, focusVars, eventVars
  <2>2. QED
    BY <2>1
<1>8. CASE UNCHANGED <<mode, told, eventsOpen, pc>>
  BY <1>8
<1>9. CASE UNCHANGED vars
  BY <1>9 DEF vars, coreVars, focusVars, eventVars, parkVars
<1>10. CASE Environment
  <2>1. SessionCloses \/ UNCHANGED <<mode, told, eventsOpen, pc>>
    BY <1>10 DEF Environment, Capture, CaptureEnds, Receive, WriterTakes, WriterEnds,
         UserCopies, coreVars, focusVars, eventVars, parkVars
  <2>2. QED
    BY <1>6, <1>8, <2>1
<1>11. QED
  BY <1>1, <1>2, <1>3, <1>4, <1>5, <1>7, <1>9, <1>10
     DEF Next, Loop, HandleInput, HandleConnEvent

-----------------------------------------------------------------------------
\* The queues and the clipboard.

LEMMA InputStep ==
  ASSUME IInv, [Next]_vars
  PROVE  InputInv'
<1> USE DEF IInv
<1>1. CASE \/ RemainLocal \/ EnterRemote \/ RemainRemote \/ ExitRemote
          \/ HandleButton \/ HandleWheel \/ HandleKey \/ EmergencyStop
  <2>1. (\E type : TakeInput(type)) /\ UNCHANGED captureOpen
    BY <1>1 DEF RemainLocal, EnterRemote, RemainRemote, ExitRemote, HandleButton,
         HandleWheel, HandleKey, EmergencyStop
  <2>2. QED
    BY <2>1, TakenInput DEF InputInv
<1>2. CASE \E e \in InputEvents : Capture(e)
  BY <1>2, Queue DEF Capture, InputInv
<1>3. CASE CaptureEnds
  BY <1>3 DEF CaptureEnds, InputInv
<1>4. CASE \/ ParkEnds \/ CaptureClosed \/ HandleConnEvent \/ TickSend
          \/ (\E m \in PeerMessages : Receive(m)) \/ SessionCloses
          \/ WriterTakes \/ WriterEnds
          \/ (\E c \in Contents \cup {NoText} : UserCopies(c)) \/ UNCHANGED vars
  <2>1. UNCHANGED inputVars
    BY <1>4 DEF ParkEnds, CaptureClosed, HandleConnEvent, HandleClipboard, IgnoreMessage,
         HandleClosed, EventsEnded, TickSend, Receive, SessionCloses, WriterTakes,
         WriterEnds, UserCopies, vars
  <2>2. QED
    BY <2>1 DEF inputVars, InputInv
<1>5. QED
  BY <1>1, <1>2, <1>3, <1>4 DEF Next, Loop, HandleInput, Environment

LEMMA EventsStep ==
  ASSUME IInv, [Next]_vars
  PROVE  EventsInv'
<1> USE DEF IInv
<1>1. CASE HandleClipboard \/ IgnoreMessage \/ HandleClosed
  <2>1. (\E type : TakeEvent(type)) /\ UNCHANGED eventsOpen
    BY <1>1 DEF HandleClipboard, IgnoreMessage, HandleClosed
  <2>2. rxEvents' \in Seq(PeerMessages \cup {Closed}) /\ rxEvents' = Tail(rxEvents)
        /\ rxEvents # <<>>
    BY <2>1, TakenEvent DEF TakeEvent
  <2>3. ASSUME NEW i \in 1 .. Len(rxEvents'), eventsOpen PROVE rxEvents'[i] # Closed
    <3>1. Len(rxEvents') = Len(rxEvents) - 1 /\ rxEvents'[i] = rxEvents[i + 1]
      BY <2>2, <2>3, HeadTailProperties DEF EventsInv
    <3>2. i + 1 \in 1 .. Len(rxEvents)
      BY <2>3, <3>1, LenProperties DEF EventsInv
    <3>3. QED
      BY <2>3, <3>1, <3>2 DEF EventsInv, ClosedIsLast
  <2>4. QED
    BY <2>1, <2>2, <2>3 DEF EventsInv, ClosedIsLast
<1>2. CASE \E m \in PeerMessages : Receive(m)
  <2>1. PICK m \in PeerMessages : Receive(m)
    BY <1>2
  <2>2. rxEvents' = Append(rxEvents, m) /\ UNCHANGED eventsOpen
    BY <2>1 DEF Receive
  <2>3. m # Closed
    BY DEF PeerMessages, Clipboard, Pong, Closed
  <2>4. rxEvents' \in Seq(PeerMessages \cup {Closed})
    BY <2>2, Queue DEF EventsInv
  <2>5. ASSUME NEW i \in 1 .. Len(rxEvents'), eventsOpen PROVE rxEvents'[i] # Closed
    BY <2>2, <2>3, <2>5, AppendProperties DEF EventsInv, ClosedIsLast
  <2>6. QED
    BY <2>2, <2>4, <2>5 DEF EventsInv, ClosedIsLast
<1>3. CASE SessionCloses
  BY <1>3, Queue DEF SessionCloses, EventsInv, ClosedIsLast
<1>4. CASE \/ HandleInput \/ EventsEnded \/ TickSend \/ ParkEnds
          \/ (\E e \in InputEvents : Capture(e)) \/ CaptureEnds
          \/ WriterTakes \/ WriterEnds
          \/ (\E c \in Contents \cup {NoText} : UserCopies(c)) \/ UNCHANGED vars
  <2>1. UNCHANGED eventVars
    BY <1>4 DEF HandleInput, RemainLocal, EnterRemote, RemainRemote, ExitRemote,
         HandleButton, HandleWheel, HandleKey, EmergencyStop, CaptureClosed, EventsEnded,
         TickSend, ParkEnds, Capture, CaptureEnds, WriterTakes, WriterEnds, UserCopies, vars
  <2>2. QED
    BY <2>1 DEF eventVars, EventsInv, ClosedIsLast
<1>5. QED
  BY <1>1, <1>2, <1>3, <1>4 DEF Next, Loop, HandleConnEvent, Environment

\* The message EnterRemote posts.
LEMMA EnterMessage ==
  ASSUME EnterRemote
  PROVE  /\ CursorEnter(EntryX(geom), virtY') \in EnterMessages
         /\ Post(CursorEnter(EntryX(geom), virtY'))
<1>1. PICK pos \in Positions : virtY' = MapOutY(geom, pos[2])
  BY DEF EnterRemote
<1>2. pos[2] \in Pixels(geom.local.height)
  BY <1>1 DEF Positions
<1>3. virtY' \in Pixels(geom.peer.height) \cup {NaN}
  BY <1>1, <1>2, MapOutOnScreen, ControllerAssumption
<1>4. QED
  BY <1>3 DEF EnterMessages, EnterRemote

LEMMA OfferedContent ==
  ASSUME NEW s \in Services, Offers(s)
  PROVE  /\ Clipboard(s.clip) \in ClipboardMessages
         /\ Offered(s) \in Services
<1>1. s.clip \in Contents
  BY DEF Services, Offers
<1>2. DigestOf(s.clip) \in Digests
  BY <1>1 DEF Digests
<1>3. QED
  BY <1>1, <1>2 DEF ClipboardMessages, Offered, Services

LEMMA PostTyped ==
  ASSUME SendInv, NEW m \in Messages, Post(m)
  PROVE  txSend' \in Seq(Messages)
  BY Queue DEF Post, SendInv

\* What the handlers of the input events other than Move post.
LEMMA RelayedMessage ==
  ASSUME InputInv, HandleButton \/ HandleWheel \/ HandleKey
  PROVE  /\ \/ \E m \in InputMessages : IsRemote /\ Post(m)
            \/ UNCHANGED txSend
         /\ UNCHANGED sendOpen
<1> DEFINE e == Head(rxInput)
<1>1. CASE HandleButton
  <2>1. PointerButton(e.button, e.pressed) \in InputMessages
    BY <1>1, TakenInput, EventShapes DEF HandleButton
  <2>2. QED
    BY <1>1, <2>1 DEF HandleButton, RelayIfRemote
<1>2. CASE HandleWheel
  BY <1>2 DEF HandleWheel, RelayIfRemote, InputMessages
<1>3. CASE HandleKey
  <2>1. Key(e.code, e.pressed) \in InputMessages
    BY <1>3, TakenInput, EventShapes DEF HandleKey
  <2>2. QED
    BY <1>3, <2>1 DEF HandleKey, RelayIfRemote
<1>4. QED
  BY <1>1, <1>2, <1>3

LEMMA MovedMessage ==
  ASSUME InputInv, RemainRemote
  PROVE  PointerMove(Head(rxInput).dx, Head(rxInput).dy) \in InputMessages
  BY TakenInput, EventShapes DEF RemainRemote

LEMMA SendStep ==
  ASSUME IInv, [Next]_vars
  PROVE  SendInv'
<1> USE DEF IInv
<1>1. CASE EnterRemote
  BY <1>1, EnterMessage, PostTyped DEF Messages, SendInv, EnterRemote
<1>2. CASE RemainRemote
  BY <1>2, MovedMessage, PostTyped DEF Messages, SendInv, RemainRemote
<1>3. CASE ExitRemote
  BY <1>3, PostTyped DEF Messages, SendInv, ExitRemote, AnnounceLeave
<1>4. CASE HandleButton \/ HandleWheel \/ HandleKey
  BY <1>4, RelayedMessage, PostTyped DEF Messages, SendInv
<1>5. CASE TickSend
  BY <1>5, OfferedContent, PostTyped DEF Messages, SendInv, TickSend, ClipInv
<1>6. CASE WriterTakes
  BY <1>6, Queue DEF WriterTakes, SendInv
<1>7. CASE WriterEnds
  BY <1>7, EmptySeq DEF WriterEnds, SendInv
<1>8. CASE \/ RemainLocal \/ EmergencyStop \/ CaptureClosed \/ HandleConnEvent \/ ParkEnds
          \/ (\E e \in InputEvents : Capture(e)) \/ CaptureEnds
          \/ (\E m \in PeerMessages : Receive(m)) \/ SessionCloses
          \/ (\E c \in Contents \cup {NoText} : UserCopies(c)) \/ UNCHANGED vars
  <2>1. UNCHANGED sendVars
    BY <1>8 DEF RemainLocal, EmergencyStop, CaptureClosed, HandleConnEvent,
         HandleClipboard, IgnoreMessage, HandleClosed, EventsEnded, ParkEnds, Capture,
         CaptureEnds, Receive, SessionCloses, UserCopies, vars
  <2>2. QED
    BY <2>1 DEF sendVars, SendInv
<1>9. QED
  BY <1>1, <1>2, <1>3, <1>4, <1>5, <1>6, <1>7, <1>8
     DEF Next, Loop, HandleInput, Environment

LEMMA ClipStep ==
  ASSUME IInv, [Next]_vars
  PROVE  ClipInv'
<1> USE DEF IInv
<1>1. CASE HandleClipboard
  <2>1. Head(rxEvents) \in PeerMessages \cup {Closed} /\ Head(rxEvents).type = "Clipboard"
    BY <1>1, TakenEvent DEF HandleClipboard
  <2>2. Head(rxEvents).content \in Contents
    BY <2>1 DEF PeerMessages, Clipboard, Pong, Closed
  <2>3. DigestOf(Head(rxEvents).content) \in Digests
    BY <2>2 DEF Digests
  <2>4. Ingested(clipboard, Head(rxEvents).content) \subseteq Services
    BY <2>2, <2>3 DEF Ingested, ClipInv, Services
  <2>5. QED
    BY <1>1, <2>4 DEF HandleClipboard, ClipInv
<1>2. CASE TickSend
  BY <1>2, OfferedContent DEF TickSend, ClipInv
<1>3. CASE \E c \in Contents \cup {NoText} : UserCopies(c)
  BY <1>3 DEF UserCopies, ClipInv, Services
<1>4. CASE \/ HandleInput \/ IgnoreMessage \/ HandleClosed \/ EventsEnded \/ ParkEnds
          \/ (\E e \in InputEvents : Capture(e)) \/ CaptureEnds
          \/ (\E m \in PeerMessages : Receive(m)) \/ SessionCloses
          \/ WriterTakes \/ WriterEnds \/ UNCHANGED vars
  <2>1. UNCHANGED clipboard
    BY <1>4 DEF HandleInput, RemainLocal, EnterRemote, RemainRemote, ExitRemote,
         HandleButton, HandleWheel, HandleKey, EmergencyStop, CaptureClosed,
         IgnoreMessage, HandleClosed, EventsEnded, ParkEnds, Capture, CaptureEnds,
         Receive, SessionCloses, WriterTakes, WriterEnds, vars
  <2>2. QED
    BY <2>1 DEF ClipInv
<1>5. QED
  BY <1>1, <1>2, <1>3, <1>4 DEF Next, Loop, HandleConnEvent, Environment

-----------------------------------------------------------------------------

LEMMA IInvInit == Init => IInv
<1> SUFFICES ASSUME Init PROVE IInv
  OBVIOUS
<1>1. FocusInv
  BY DEF Init, FocusInv, FocusTypeOK, VirtualPointerOnPeer, CoalescerTracksVirtual,
         CoalescerIdle, IsRemote, NoMove
<1>2. ParkInv
  BY DEF Init, ParkInv, SuppressedOnlyToPark
<1>3. KeysInv
  BY ControllerAssumption DEF Init, KeysInv, EmergencyStops
<1>4. ToldInv
  BY DEF Init, ToldInv, ToldMatchesFocus, IsRemote
<1>5. InputInv /\ EventsInv
  BY EmptySeq DEF Init, InputInv, EventsInv, ClosedIsLast
<1>6. SendInv
  BY DEF Init, SendInv, Messages
<1>7. ClipInv
  BY DEF Init, ClipInv, NewService, Services
<1>8. QED
  BY <1>1, <1>2, <1>3, <1>4, <1>5, <1>6, <1>7 DEF IInv

LEMMA IInvStep == IInv /\ [Next]_vars => IInv'
BY FocusStep, ParkStep, KeysStep, ToldStep, InputStep, EventsStep, SendStep, ClipStep DEF IInv

LEMMA Invariance == Spec => []IInv
BY IInvInit, IInvStep, PTL DEF Spec

LEMMA InvIsTyped == IInv => TypeOK
BY DEF IInv, FocusInv, ParkInv, KeysInv, ToldInv, InputInv, EventsInv, SendInv, ClipInv,
       TypeOK, LoopTypeOK, QueuesTypeOK

\* Every variable of the event loop keeps its type.
THEOREM ControllerTypeOK == Spec => []TypeOK
BY InvIsTyped, Invariance, PTL

\* FocusState::step: the virtual pointer stays on the client's side of the
\* shared edge and between its top and bottom, for every pair of screens.
THEOREM VirtualPointer == Spec => []VirtualPointerOnPeer
<1>1. IInv => VirtualPointerOnPeer
  BY DEF IInv, FocusInv
<1>2. QED
  BY <1>1, Invariance, PTL

\* ControllerCore: the coalescer is the virtual pointer's path since it
\* entered, and empty out of the remote focus.
THEOREM CoalescerExact == Spec => []CoalescerTracksVirtual
<1>1. IInv => CoalescerTracksVirtual
  BY DEF IInv, FocusInv
<1>2. QED
  BY <1>1, Invariance, PTL

\* run_controller: no order of presses leaves the loop running with the whole
\* emergency combination down.
THEOREM EmergencyNeverMissed == Spec => []EmergencyStops
<1>1. IInv => EmergencyStops
  BY DEF IInv, KeysInv
<1>2. QED
  BY <1>1, Invariance, PTL

\* run_controller: while the session is open, CursorEnter and CursorLeave
\* alternate with the focus.
THEOREM EntersAlternate == Spec => []ToldMatchesFocus
<1>1. IInv => ToldMatchesFocus
  BY DEF IInv, ToldInv
<1>2. QED
  BY <1>1, Invariance, PTL

\* park: the capture is suppressed only while a point of the shared edge is
\* being set.
THEOREM SuppressedParking == Spec => []SuppressedOnlyToPark
<1>1. IInv => SuppressedOnlyToPark
  BY DEF IInv, ParkInv
<1>2. QED
  BY <1>1, Invariance, PTL

-----------------------------------------------------------------------------
\* The controller implements RemoteControl.

LEMMA PromiseStep ==
  ASSUME IInv, [Next]_vars
  PROVE  [Promise!Next]_(Promise!vars)
<1> USE DEF IInv, Promise!vars
<1>1. mode \in {"Local", "Remote"}
  BY DEF FocusInv, FocusTypeOK
<1>2. CASE EnterRemote
  <2>1. \E m \in EnterMessages : Promise!Post(m)
    BY <1>2, EnterMessage DEF Post, Promise!Post
  <2>2. /\ mode = "Local" /\ mode' = "Remote"
        /\ pc # "done" /\ pc' # "done"
        /\ UNCHANGED <<eventsOpen, sendOpen>>
    BY <1>1, <1>2 DEF EnterRemote, TakeInput, StartPark, IsRemote, eventVars
  <2>3. Promise!HandOver
    BY <2>1, <2>2 DEF Promise!HandOver
  <2>4. QED
    BY <2>3 DEF Promise!Next
<1>3. CASE ExitRemote
  <2>1. Promise!Post(CursorLeave)
    BY <1>3 DEF ExitRemote, AnnounceLeave, Post, Promise!Post
  <2>2. /\ mode = "Remote" /\ mode' = "Local"
        /\ pc # "done" /\ pc' # "done"
        /\ UNCHANGED <<eventsOpen, sendOpen>>
    BY <1>3 DEF ExitRemote, TakeInput, StartPark, IsRemote, eventVars
  <2>3. Promise!TakeBack
    BY <2>1, <2>2 DEF Promise!TakeBack
  <2>4. QED
    BY <2>3 DEF Promise!Next
<1>4. ASSUME IsRemote, NEW m \in InputMessages, Post(m), pc # "done",
             UNCHANGED <<mode, pc, eventsOpen, sendOpen>>
      PROVE  Promise!Next
  BY <1>4 DEF Post, Promise!Post, Promise!Relay, Promise!Next, IsRemote
<1>5. CASE RemainRemote
  <2>1. PointerMove(Head(rxInput).dx, Head(rxInput).dy) \in InputMessages
    BY <1>5, MovedMessage
  <2>2. /\ IsRemote /\ Post(PointerMove(Head(rxInput).dx, Head(rxInput).dy))
        /\ pc # "done" /\ UNCHANGED <<mode, pc, eventsOpen, sendOpen>>
    BY <1>5 DEF RemainRemote, TakeInput, parkVars, eventVars
  <2>3. QED
    BY <1>4, <2>1, <2>2
<1>6. CASE HandleButton \/ HandleWheel \/ HandleKey
  <2>1. pc # "done" /\ UNCHANGED <<mode, pc, eventsOpen, sendOpen>>
    BY <1>6 DEF HandleButton, HandleWheel, HandleKey, TakeInput, coreVars, focusVars,
                parkVars, eventVars
  <2>2. CASE UNCHANGED txSend
    BY <2>1, <2>2
  <2>3. CASE \E m \in InputMessages : IsRemote /\ Post(m)
    BY <1>4, <2>1, <2>3
  <2>4. QED
    BY <1>6, <2>2, <2>3, RelayedMessage
<1>7. CASE EmergencyStop \/ CaptureClosed \/ EventsEnded
  <2>1. /\ pc' = "done" /\ mode' \in {mode, "Local"}
        /\ UNCHANGED <<eventsOpen, sendOpen, txSend>>
    BY <1>7 DEF EmergencyStop, CaptureClosed, EventsEnded, ForceLocal, coreVars, focusVars,
                eventVars, sendVars
  <2>2. Promise!Stop
    BY <2>1 DEF Promise!Stop
  <2>3. QED
    BY <2>2 DEF Promise!Next
<1>8. CASE HandleClosed
  <2>1. /\ pc # "done" /\ mode' = "Local"
        /\ UNCHANGED <<pc, eventsOpen, sendOpen, txSend>>
    BY <1>8 DEF HandleClosed, TakeEvent, ForceLocal, parkVars, sendVars
  <2>2. ~eventsOpen
    BY <1>8, ClosedMeansCut
  <2>3. Promise!Recover
    BY <2>1, <2>2 DEF Promise!Recover
  <2>4. QED
    BY <2>3 DEF Promise!Next
<1>9. CASE TickSend
  <2>1. Clipboard(clipboard.clip) \in ClipboardMessages
    BY <1>9, OfferedContent DEF TickSend, ClipInv
  <2>2. /\ Promise!Post(Clipboard(clipboard.clip))
        /\ pc # "done" /\ UNCHANGED <<mode, pc, eventsOpen, sendOpen>>
    BY <1>9 DEF TickSend, Post, Promise!Post, coreVars, focusVars, parkVars, eventVars
  <2>3. Promise!ShareClipboard
    BY <2>1, <2>2 DEF Promise!ShareClipboard
  <2>4. QED
    BY <2>3 DEF Promise!Next
<1>10. CASE SessionCloses
  <2>1. eventsOpen' = FALSE /\ UNCHANGED <<mode, pc, sendOpen, txSend>>
    BY <1>10 DEF SessionCloses, coreVars, focusVars, parkVars, sendVars
  <2>2. Promise!Disconnect
    BY <2>1 DEF Promise!Disconnect
  <2>3. QED
    BY <2>2 DEF Promise!Next
<1>11. CASE WriterTakes
  <2>1. /\ txSend # <<>> /\ txSend' = Tail(txSend)
        /\ UNCHANGED <<mode, pc, eventsOpen, sendOpen>>
    BY <1>11 DEF WriterTakes, coreVars, focusVars, parkVars, eventVars
  <2>2. Promise!Take
    BY <2>1 DEF Promise!Take
  <2>3. QED
    BY <2>2 DEF Promise!Next
<1>12. CASE WriterEnds
  <2>1. sendOpen' = FALSE /\ txSend' = <<>> /\ UNCHANGED <<mode, pc, eventsOpen>>
    BY <1>12 DEF WriterEnds, coreVars, focusVars, parkVars, eventVars
  <2>2. Promise!Unlink
    BY <2>1 DEF Promise!Unlink
  <2>3. QED
    BY <2>2 DEF Promise!Next
<1>13. CASE RemainLocal \/ HandleClipboard \/ IgnoreMessage \/ UNCHANGED vars
  <2>1. UNCHANGED <<mode, pc, eventsOpen, sendOpen, txSend>>
    BY <1>13 DEF RemainLocal, HandleClipboard, IgnoreMessage, vars, coreVars, focusVars,
                 parkVars, eventVars, sendVars
  <2>2. QED
    BY <2>1
<1>14. CASE ParkEnds
  <2>1. /\ pc # "done" /\ pc' # "done"
        /\ UNCHANGED <<mode, eventsOpen, sendOpen, txSend>>
    BY <1>14 DEF ParkEnds, coreVars, focusVars, eventVars, sendVars
  <2>2. QED
    BY <2>1
<1>15. CASE \/ (\E e \in InputEvents : Capture(e)) \/ CaptureEnds
           \/ (\E m \in PeerMessages : Receive(m))
           \/ (\E c \in Contents \cup {NoText} : UserCopies(c))
  <2>1. UNCHANGED <<mode, pc, eventsOpen, sendOpen, txSend>>
    BY <1>15 DEF Capture, CaptureEnds, Receive, UserCopies, coreVars, focusVars,
                 parkVars, eventVars, sendVars
  <2>2. QED
    BY <2>1
<1>16. QED
  BY <1>2, <1>3, <1>5, <1>6, <1>7, <1>8, <1>9, <1>10, <1>11, <1>12, <1>13, <1>14, <1>15
     DEF Next, Loop, HandleInput, HandleConnEvent, Environment

\* run_controller keeps the discipline on its messages: input only between
\* CursorEnter and CursorLeave, a silent return only once the session is
\* closed, nothing after it has stopped.
THEOREM ImplementsRemoteControl == Spec => KeepsPromise
<1>1. Init => Promise!Init
  BY DEF Init, Promise!Init
<1>2. IInv /\ [Next]_vars => [Promise!Next]_(Promise!vars)
  BY PromiseStep
<1>3. QED
  BY <1>1, <1>2, Invariance, PTL DEF Spec, KeepsPromise, Promise!Spec
=============================================================================
