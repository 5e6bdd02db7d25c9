-------------------------------- MODULE Desk --------------------------------
(***************************************************************************)
(* The controller's desk: the hands of its user, the OS that moves the     *)
(* pointer for them, the capture thread of src/input/rdev_backend.rs that  *)
(* is told, and the loop of Controller that takes what is captured and     *)
(* sets the pointer back to the edge.                                      *)
(*                                                                         *)
(* The OS (external) keeps the pointer on the screen and tells the capture *)
(* thread of every movement, those of set_position included, by absolute   *)
(* positions: X11 tells where the pointer is, the hook of Windows where it *)
(* would be if the screen had no end.                                      *)
(***************************************************************************)
EXTENDS Controller, Keymap, SequencesExt

CONSTANTS
  HandSteps,   \* bound: what the hand does to the mouse at once
  HandKeys,    \* bound: the keys it types, as rdev names them
  ToldMax,     \* bound: events of the OS not captured yet
  Unknown      \* no movement has been captured yet

Abs(n) == IF n < 0 THEN -n ELSE n

\* The longest step of the hand along an axis.
Longest(axis) == Max({Abs(d[axis]) : d \in HandSteps})

\* Deltas holds what the hand can do: see ParkIsNotAMovement.
ASSUME DeskAssumption ==
  /\ HandSteps \subseteq Int \X Int /\ HandSteps # {} /\ IsFiniteSet(HandSteps)
  /\ (-2 * Longest(1) .. 2 * Longest(1)) \X (-2 * Longest(2) .. 2 * Longest(2)) \subseteq Deltas
  /\ Keys = {CodeOfKey(k) : k \in HandKeys}
  /\ ToldMax \in Nat
  /\ Unknown \notin Int \X Int

VARIABLES
  raw,        \* does this OS report positions out of the screen?
  pointer,    \* where the pointer is
  down,       \* the keys that are down
  toldEvents, \* what the OS has told and the capture thread has not taken
  last,       \* the capture thread's: the position it was told last
  pushed      \* auxiliary: how far the hand has pushed the mouse since the visit began

handVars == <<raw, pointer, down, pushed>>
deskVars == <<handVars, toldEvents, last>>

-----------------------------------------------------------------------------
\* The hands and the OS.

\* own: did set_position cause it?
MovedTo(at, own) == [type |-> "MouseMove", at |-> at, own |-> own]
KeyMoved(k, pressed) == [type |-> "Key", key |-> k, pressed |-> pressed]

Within(c, n) == IF c < 0 THEN 0 ELSE IF c > LastIndex(n) THEN LastIndex(n) ELSE c
OnScreen(at) == <<Within(at[1], geom.local.width), Within(at[2], geom.local.height)>>

HandMoves(d) ==
  /\ Len(toldEvents) < ToldMax
  /\ LET to == <<pointer[1] + d[1], pointer[2] + d[2]>>
     IN /\ pointer' = OnScreen(to)
        /\ toldEvents' = IF raw THEN Append(toldEvents, MovedTo(to, FALSE))
                         ELSE IF pointer' = pointer THEN toldEvents
                         ELSE Append(toldEvents, MovedTo(pointer', FALSE))
  /\ pushed' = IF IsRemote THEN pushed + d[1] ELSE pushed
  /\ pushed' \in -Travel .. Travel
  /\ UNCHANGED <<raw, down, last, vars>>

HandTypes(k, pressed) ==
  /\ Len(toldEvents) < ToldMax
  /\ pressed \/ k \in down
  /\ down' = IF pressed THEN down \cup {k} ELSE down \ {k}
  /\ toldEvents' = Append(toldEvents, KeyMoved(k, pressed))
  /\ UNCHANGED <<raw, pointer, last, pushed, vars>>

-----------------------------------------------------------------------------
\* The callback of spawn_capture.

Told(type) ==
  /\ captureOpen
  /\ toldEvents # <<>> /\ Head(toldEvents).type = type
  /\ toldEvents' = Tail(toldEvents)
  /\ UNCHANGED handVars

Delta(at) == IF last = Unknown THEN <<0, 0>> ELSE <<at[1] - last[1], at[2] - last[2]>>

\* While the loop parks the pointer, a movement only becomes the last one.
SuppressMoveForgotten ==    \* mutant: the early return comes first
  /\ Told("MouseMove") /\ suppress
  /\ UNCHANGED <<last, vars>>

SuppressMove ==
  /\ Told("MouseMove") /\ suppress
  /\ last' = Head(toldEvents).at
  /\ UNCHANGED vars

CaptureMove ==
  /\ Told("MouseMove")
  /\ last' = Head(toldEvents).at
  /\ Capture(Move(Delta(Head(toldEvents).at)))

CaptureKey ==
  /\ Told("Key")
  /\ Capture(KeyEvent(CodeOfKey(Head(toldEvents).key), Head(toldEvents).pressed))
  /\ UNCHANGED last

-----------------------------------------------------------------------------
\* The loop, where position() finds the pointer and set_position sets it.

StayLocal ==
  /\ RemainLocal
  /\ ~IsExitingLocal(geom, pointer[1], Head(rxInput).dx)
  /\ UNCHANGED deskVars

SetPosition ==
  /\ pointer' = parkAt'
  /\ toldEvents' = IF pointer' = pointer THEN toldEvents
                   ELSE Append(toldEvents, MovedTo(pointer', TRUE))
  /\ UNCHANGED <<raw, down, last>>

GoRemote ==
  /\ EnterRemote
  /\ IsExitingLocal(geom, pointer[1], Head(rxInput).dx)
  /\ virtY' = MapOutY(geom, pointer[2])
  /\ SetPosition
  /\ pushed' = 0

ComeBack ==
  /\ ExitRemote
  /\ SetPosition
  /\ pushed' = 0

\* The 25 ms are long enough for the OS to tell of the movement and for the
\* capture thread to take it.
Unpark ==
  /\ ParkEnds
  /\ \A i \in DOMAIN toldEvents :
       toldEvents[i].type = "MouseMove" => ~toldEvents[i].own
  /\ UNCHANGED deskVars

OtherLoopStep ==
  /\ RemainRemote \/ HandleKey \/ EmergencyStop \/ EventsEnded
  /\ UNCHANGED deskVars

HearClosed ==
  /\ HandleClosed
  /\ pushed' = 0
  /\ UNCHANGED <<raw, pointer, down, toldEvents, last>>

SessionSteps == (WriterTakes \/ SessionCloses) /\ UNCHANGED deskVars

InitDesk ==
  /\ Init
  /\ raw \in BOOLEAN
  /\ pointer \in Positions
  /\ down = {} /\ toldEvents = <<>> /\ last = Unknown /\ pushed = 0

NextDesk ==
  \/ \E d \in HandSteps : HandMoves(d)
  \/ \E k \in HandKeys, pressed \in BOOLEAN : HandTypes(k, pressed)
  \/ SuppressMove \/ CaptureMove \/ CaptureKey
  \/ StayLocal \/ GoRemote \/ ComeBack \/ Unpark \/ OtherLoopStep \/ HearClosed
  \/ SessionSteps

allVars == <<vars, deskVars>>

SpecDesk == InitDesk /\ [][NextDesk]_allVars

-----------------------------------------------------------------------------

TypeOKDesk ==
  /\ TypeOK
  /\ raw \in BOOLEAN /\ pointer \in Positions /\ down \subseteq HandKeys
  /\ \A i \in DOMAIN toldEvents :
       \/ toldEvents[i].type = "MouseMove" /\ toldEvents[i].at \in Int \X Int
       \/ toldEvents[i].type = "Key" /\ toldEvents[i].key \in HandKeys
  /\ last \in (Int \X Int) \cup {Unknown}
  /\ pushed \in Int

\* The sum of the movements that are captured and not handled.
PlusMove(at, e) == IF e.type = "Move" THEN <<at[1] + e.dx, at[2] + e.dy>> ELSE at
Waiting == FoldLeft(PlusMove, <<0, 0>>, rxInput)

\* spawn_capture and handle_move: during a visit, what the virtual pointer has
\* done, with what waits to be handled, is what the capture thread was told:
\* no movement is lost, counted twice or taken from the next one, but in the
\* 25 ms of a park.
Carried == <<coalescer.x + Waiting[1] - last[1], coalescer.y + Waiting[2] - last[2]>>

VisitCarriesTheMouse ==
  [][IsRemote /\ IsRemote' /\ pc # "parking" => Carried' = Carried]_allVars

\* park and spawn_capture: setting the pointer back to the edge is never taken
\* for a movement of the hand: what is captured is no longer than the steps of
\* the hand, or twice that where the OS told of a position out of the screen.
Reach(axis) == IF raw THEN 2 * Longest(axis) ELSE Longest(axis)

ParkIsNotAMovement ==
  \A i \in DOMAIN rxInput :
    rxInput[i].type = "Move" =>
      Abs(rxInput[i].dx) <= Reach(1) /\ Abs(rxInput[i].dy) <= Reach(2)

\* Everything the OS told has been captured and handled.
Drained == toldEvents = <<>> /\ rxInput = <<>> /\ pc = "select"

\* spawn_capture, rdev_key_to_canon and the loop: no press and no release is
\* lost, a park included, so that the loop holds for pressed the keys that are
\* down, the left and the right one of a modifier apart.  (The keys out of the
\* tables share one code and count as one.)
PressedKeysAreDown ==
  Drained => pressedKeys = {CodeOfKey(k) : k \in down}

\* parse_emergency_combo and the loop: in whatever order the keys of the
\* combination go down, with others or not, during a park or a visit, the
\* program does not go on once the last of them has been handled.
CombinationStops ==
  Drained => ~(Emergency \subseteq {CodeOfKey(k) : k \in down})

\* What docs/ACCEPTANCE.md:8-9 says: once on the client's screen the cursor is
\* controllable there, which is to follow the hand.
HandControlsVirtualPointer ==
  Drained /\ IsRemote => virtX = EntryX(geom) + pushed
=============================================================================
