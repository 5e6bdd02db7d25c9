----------------------------- MODULE Controller -----------------------------
(***************************************************************************)
(* The event loop of the machine that owns the mouse and the keyboard:     *)
(* run_controller of src/controller.rs with the focus of src/focus.rs and  *)
(* the coalescer of src/coalescer.rs.                                      *)
(*                                                                         *)
(* One task runs the loop.  Its select! takes one ready branch at a time:  *)
(* an input event, an event of the connection, or the clipboard tick.  A   *)
(* handler is atomic but for park, which sleeps 25 ms between two steps    *)
(* (pc = "parking"): meanwhile the capture thread, the reader task and the *)
(* writer task go on.                                                      *)
(*                                                                         *)
(* Those three, and the user, are the environment of this module.          *)
(***************************************************************************)
EXTENDS Geometry, Protocol, ClipboardService

CONSTANTS
  geom,        \* the Geometry of the configuration
  Keys,        \* the canonical keys that may be typed
  Emergency,   \* the keys of emergency_stop
  Buttons,     \* the mouse buttons
  Deltas,      \* bound: the displacements <<dx, dy>> that may be captured
  Travel,      \* bound: distance the virtual pointer may be carried
  InputMax,    \* bound: captured events not handled yet
  EventsMax,   \* bound: messages received and not handled yet
  SendMax,     \* bound: messages posted and not taken yet
  NoPark       \* no position is being set

\* parse_emergency_combo rejects an empty combination.
ASSUME ControllerAssumption ==
  /\ geom \in Geometries
  /\ Emergency \subseteq Keys /\ Emergency # {}
  /\ Deltas \subseteq Int \X Int
  /\ {Travel, InputMax, EventsMax, SendMax} \subseteq Nat
  /\ NoPark \notin Int \X Int

VARIABLES
  mode, virtX, virtY,    \* FocusState
  coalescer,             \* Coalescer
  pressedKeys,
  told,        \* auxiliary: was CursorEnter the last of CursorEnter and CursorLeave sent?
  pc,          \* "select", "parking" or "done"
  parkAt,      \* the position park has set, while it sleeps
  suppress,    \* the flag the capture thread reads
  rxInput, captureOpen,  \* events of the capture thread; does it still run?
  rxEvents, eventsOpen,  \* events of the reader task; does it still run?
  txSend, sendOpen,      \* messages for the writer task; does it still run?
  clipboard              \* the clipboard service

focusVars == <<mode, virtX, virtY>>
coreVars  == <<focusVars, coalescer>>
parkVars  == <<pc, parkAt, suppress>>
inputVars == <<rxInput, captureOpen>>
eventVars == <<rxEvents, eventsOpen>>
sendVars  == <<txSend, sendOpen>>
vars == <<coreVars, pressedKeys, told, parkVars, inputVars, eventVars, sendVars,
          clipboard>>

-----------------------------------------------------------------------------
\* Input events (InputEvent of src/input/mod.rs).

Move(d) == [type |-> "Move", dx |-> d[1], dy |-> d[2]]
Button(b, pressed) == [type |-> "Button", button |-> b, pressed |-> pressed]
KeyEvent(k, pressed) == [type |-> "Key", code |-> k, pressed |-> pressed]
WheelEvent == [type |-> "Wheel"]

MoveEvents == {Move(d) : d \in Deltas}
ButtonEvents == {Button(b, p) : b \in Buttons, p \in BOOLEAN}
KeyEvents == {KeyEvent(k, p) : k \in Keys, p \in BOOLEAN}
InputEvents == MoveEvents \cup ButtonEvents \cup KeyEvents \cup {WheelEvent}

\* What the reader task of a controller may deliver: the client sends Pong
\* and Clipboard; Quit is turned into Closed by the reader.
PeerMessages == {Clipboard(c) : c \in Contents} \cup {Pong}

\* Where position() may find the pointer.  Its failure reads as (0, 0), one
\* of these.
Positions == Pixels(geom.local.width) \X Pixels(geom.local.height)

-----------------------------------------------------------------------------
\* Coalescer

NoMove == [x |-> 0, y |-> 0, has |-> FALSE]

\* mutant: the movement takes the place of what is pending
PushOverwrites(c, dx, dy) == [x |-> dx, y |-> dy, has |-> TRUE]
Push(c, dx, dy) == [x |-> c.x + dx, y |-> c.y + dy, has |-> TRUE]

\* take leaves an empty coalescer, whether or not something was pending.
TakenKept(c) == c    \* mutant: the residue is left pending
Taken(c) == IF c.has THEN [x |-> 0, y |-> 0, has |-> FALSE] ELSE c

-----------------------------------------------------------------------------
\* FocusState

\* f64::clamp(0.0, hi) after an addition; NaN goes through both.
ShiftedUnclamped(y, dy, hi) == IF y = NaN THEN NaN ELSE y + dy    \* mutant: no clamp
Shifted(y, dy, hi) ==
  IF y = NaN THEN NaN
  ELSE IF y + dy < 0 THEN 0 ELSE IF y + dy > hi THEN hi ELSE y + dy

NextVirtY(dy) == Shifted(virtY, dy, LastIndex(geom.peer.height))

IsRemote == mode = "Remote"

\* FocusState::force_local and ControllerCore::force_local
ForceLocal ==
  /\ mode' = "Local" /\ virtX' = 0 /\ virtY' = 0
  /\ coalescer' = NoMove

-----------------------------------------------------------------------------
\* The loop's own tools.

\* handle.send.send: the message is lost, silently, when the writer is gone.
Post(m) == txSend' = IF sendOpen THEN Append(txSend, m) ELSE txSend

RoomToSend == Len(txSend) < SendMax

\* The select! branch of rx_input takes an event of the given type.
TakeInput(type) ==
  /\ pc = "select"
  /\ rxInput # <<>> /\ Head(rxInput).type = type
  /\ rxInput' = Tail(rxInput)

\* The first half of park, up to the sleep.
StartPark(x, y) ==
  /\ suppress' = TRUE
  /\ parkAt' = <<AsPixel(x), AsPixel(y)>>
  /\ pc' = "parking"

-----------------------------------------------------------------------------
\* Some(InputEvent::Move)

RemainLocal ==
  /\ TakeInput("Move")
  /\ ~IsRemote
  /\ \E pos \in Positions : ~IsExitingLocal(geom, pos[1], Head(rxInput).dx)
  /\ UNCHANGED <<coreVars, pressedKeys, told, parkVars, captureOpen, eventVars,
                 sendVars, clipboard>>

EnterRemote ==
  /\ TakeInput("Move")
  /\ ~IsRemote /\ RoomToSend
  /\ \E pos \in Positions :
       /\ IsExitingLocal(geom, pos[1], Head(rxInput).dx)
       /\ mode' = "Remote"
       /\ virtX' = EntryX(geom)
       /\ virtY' = MapOutY(geom, pos[2])
  /\ Post(CursorEnter(EntryX(geom), virtY'))
  /\ told' = TRUE
  /\ StartPark(BackX(geom), MapBackY(geom, virtY'))
  /\ UNCHANGED <<coalescer, pressedKeys, captureOpen, eventVars, sendOpen, clipboard>>

RemainRemote ==
  /\ TakeInput("Move")
  /\ IsRemote /\ RoomToSend
  /\ LET e == Head(rxInput)
     IN /\ ~IsReentering(geom, virtX + e.dx, e.dx)
        /\ coalescer' = Push(coalescer, e.dx, e.dy)
        /\ {coalescer'.x, coalescer'.y} \subseteq -Travel .. Travel
        /\ virtX' = virtX + e.dx
        /\ virtY' = NextVirtY(e.dy)
        /\ Post(PointerMove(e.dx, e.dy))
  /\ UNCHANGED <<mode, pressedKeys, told, parkVars, captureOpen, eventVars,
                 sendOpen, clipboard>>

\* handle.send.send(Msg::CursorLeave)
AnnounceNothing == UNCHANGED <<txSend, told>>    \* mutant: silent return
AnnounceLeave == Post(CursorLeave) /\ told' = FALSE

ExitRemote ==
  /\ TakeInput("Move")
  /\ IsRemote /\ RoomToSend
  /\ LET e == Head(rxInput)
     IN /\ IsReentering(geom, virtX + e.dx, e.dx)
        /\ StartPark(BackX(geom), MapBackY(geom, NextVirtY(e.dy)))
  /\ mode' = "Local" /\ virtX' = 0 /\ virtY' = 0
  /\ coalescer' = Taken(coalescer)
  /\ AnnounceLeave
  /\ UNCHANGED <<pressedKeys, captureOpen, eventVars, sendOpen, clipboard>>

\* mutant: set_suppress(false) is forgotten
ParkEndsSuppressed ==
  /\ pc = "parking"
  /\ parkAt' = NoPark /\ pc' = "select"
  /\ UNCHANGED <<coreVars, pressedKeys, told, suppress, inputVars, eventVars, sendVars,
                 clipboard>>

\* The second half of park, after its 25 ms.
ParkEnds ==
  /\ pc = "parking"
  /\ suppress' = FALSE
  /\ parkAt' = NoPark
  /\ pc' = "select"
  /\ UNCHANGED <<coreVars, pressedKeys, told, inputVars, eventVars, sendVars, clipboard>>

-----------------------------------------------------------------------------
\* The other input events.

\* Post(m) if the focus is remote, nothing otherwise.
RelayAlways(m) == RoomToSend /\ Post(m)    \* mutant: the guard is dropped
RelayIfRemote(m) == IF IsRemote THEN RoomToSend /\ Post(m) ELSE UNCHANGED txSend

HandleButton ==
  /\ TakeInput("Button")
  /\ RelayIfRemote(PointerButton(Head(rxInput).button, Head(rxInput).pressed))
  /\ UNCHANGED <<coreVars, pressedKeys, told, parkVars, captureOpen, eventVars,
                 sendOpen, clipboard>>

HandleWheel ==
  /\ TakeInput("Wheel")
  /\ RelayIfRemote(Wheel)
  /\ UNCHANGED <<coreVars, pressedKeys, told, parkVars, captureOpen, eventVars,
                 sendOpen, clipboard>>

PressedAfter(e) ==
  IF e.pressed THEN pressedKeys \cup {e.code} ELSE pressedKeys \ {e.code}

\* mutant: the combination is looked for before the key is added
StopsOnStale(e) == e.pressed /\ Emergency \subseteq pressedKeys
StopsOn(e) == e.pressed /\ Emergency \subseteq PressedAfter(e)

HandleKey ==
  /\ TakeInput("Key")
  /\ ~StopsOn(Head(rxInput))
  /\ pressedKeys' = PressedAfter(Head(rxInput))
  /\ RelayIfRemote(Key(Head(rxInput).code, Head(rxInput).pressed))
  /\ UNCHANGED <<coreVars, told, parkVars, captureOpen, eventVars, sendOpen, clipboard>>

\* The emergency combination is complete: force_local, then return Ok(()).
EmergencyStop ==
  /\ TakeInput("Key")
  /\ StopsOn(Head(rxInput))
  /\ pressedKeys' = PressedAfter(Head(rxInput))
  /\ ForceLocal
  /\ pc' = "done"
  /\ UNCHANGED <<told, parkAt, suppress, captureOpen, eventVars, sendVars, clipboard>>

\* rx_input.recv() is None: the capture thread dropped its sender.
CaptureClosed ==
  /\ pc = "select" /\ rxInput = <<>> /\ ~captureOpen
  /\ pc' = "done"
  /\ UNCHANGED <<coreVars, pressedKeys, told, parkAt, suppress, inputVars, eventVars,
                 sendVars, clipboard>>

-----------------------------------------------------------------------------
\* The connection events.

TakeEvent(type) ==
  /\ pc = "select"
  /\ rxEvents # <<>> /\ Head(rxEvents).type = type
  /\ rxEvents' = Tail(rxEvents)

HandleClipboard ==
  /\ TakeEvent("Clipboard")
  /\ clipboard' \in Ingested(clipboard, Head(rxEvents).content)
  /\ UNCHANGED <<coreVars, pressedKeys, told, parkVars, inputVars, eventsOpen, sendVars>>

IgnoreMessage ==
  /\ TakeEvent("Pong")
  /\ UNCHANGED <<coreVars, pressedKeys, told, parkVars, inputVars, eventsOpen, sendVars,
                 clipboard>>

\* Some(ConnEvent::Closed): no CursorLeave is sent, and the loop goes on.
HandleClosed ==
  /\ TakeEvent("Closed")
  /\ ForceLocal
  /\ UNCHANGED <<pressedKeys, told, parkVars, inputVars, eventsOpen, sendVars, clipboard>>

\* mutant: `None` is passed over as the events without an arm are
EventsEndedIgnored ==
  /\ pc = "select" /\ rxEvents = <<>> /\ ~eventsOpen
  /\ UNCHANGED vars

\* events.recv() is None: the reader task is gone.
EventsEnded ==
  /\ pc = "select" /\ rxEvents = <<>> /\ ~eventsOpen
  /\ pc' = "done"
  /\ UNCHANGED <<coreVars, pressedKeys, told, parkAt, suppress, inputVars, eventVars,
                 sendVars, clipboard>>

HandleConnEvent == HandleClipboard \/ IgnoreMessage \/ HandleClosed \/ EventsEnded

\* cb_interval.tick() with something to send; with nothing it changes nothing.
TickSend ==
  /\ pc = "select"
  /\ Offers(clipboard) /\ RoomToSend
  /\ clipboard' = Offered(clipboard)
  /\ Post(Clipboard(clipboard.clip))
  /\ UNCHANGED <<coreVars, pressedKeys, told, parkVars, inputVars, eventVars, sendOpen>>

-----------------------------------------------------------------------------
\* The environment.

\* The capture callback sends an event; a mouse movement only when it does
\* not read suppress.
Capture(e) ==
  /\ captureOpen /\ Len(rxInput) < InputMax
  /\ e.type = "Move" => ~suppress
  /\ rxInput' = Append(rxInput, e)
  /\ UNCHANGED <<coreVars, pressedKeys, told, parkVars, captureOpen, eventVars,
                 sendVars, clipboard>>

\* rdev::listen returned an error: the callback and its sender are dropped.
CaptureEnds ==
  /\ captureOpen /\ captureOpen' = FALSE
  /\ UNCHANGED <<coreVars, pressedKeys, told, parkVars, rxInput, eventVars,
                 sendVars, clipboard>>

\* The reader task pushes a message.
Receive(m) ==
  /\ eventsOpen /\ Len(rxEvents) < EventsMax
  /\ rxEvents' = Append(rxEvents, m)
  /\ UNCHANGED <<coreVars, pressedKeys, told, parkVars, inputVars, eventsOpen,
                 sendVars, clipboard>>

\* The reader task pushes Closed and ends, and its sender with it.
SessionCloses ==
  /\ eventsOpen /\ eventsOpen' = FALSE
  /\ rxEvents' = Append(rxEvents, Closed)
  /\ UNCHANGED <<coreVars, pressedKeys, told, parkVars, inputVars, sendVars, clipboard>>

\* The writer task takes a message and writes it.
WriterTakes ==
  /\ txSend # <<>> /\ txSend' = Tail(txSend)
  /\ UNCHANGED <<coreVars, pressedKeys, told, parkVars, inputVars, eventVars,
                 sendOpen, clipboard>>

\* The writer task ends on a write error; what was posted is dropped.
WriterEnds ==
  /\ sendOpen /\ sendOpen' = FALSE
  /\ txSend' = <<>>
  /\ UNCHANGED <<coreVars, pressedKeys, told, parkVars, inputVars, eventVars, clipboard>>

\* The user copies a text, or something that is not a text.
UserCopies(c) ==
  /\ clipboard' = [clipboard EXCEPT !.clip = c]
  /\ UNCHANGED <<coreVars, pressedKeys, told, parkVars, inputVars, eventVars, sendVars>>

-----------------------------------------------------------------------------

Init ==
  /\ mode = "Local" /\ virtX = 0 /\ virtY = 0
  /\ coalescer = NoMove
  /\ pressedKeys = {} /\ told = FALSE
  /\ pc = "select" /\ parkAt = NoPark /\ suppress = FALSE
  /\ rxInput = <<>> /\ captureOpen = TRUE
  /\ rxEvents = <<>> /\ eventsOpen = TRUE
  /\ txSend = <<Hello>> /\ sendOpen = TRUE    \* connect_loop has posted Hello
  /\ clipboard \in {NewService(c) : c \in Contents \cup {NoText}}

HandleInput ==
  \/ RemainLocal \/ EnterRemote \/ RemainRemote \/ ExitRemote
  \/ HandleButton \/ HandleWheel \/ HandleKey \/ EmergencyStop \/ CaptureClosed

Loop == HandleInput \/ HandleConnEvent \/ TickSend \/ ParkEnds

Environment ==
  \/ \E e \in InputEvents : Capture(e)
  \/ CaptureEnds
  \/ \E m \in PeerMessages : Receive(m)
  \/ SessionCloses
  \/ WriterTakes \/ WriterEnds
  \/ \E c \in Contents \cup {NoText} : UserCopies(c)

Next == Loop \/ Environment

Spec == Init /\ [][Next]_vars

\* The sleep of park ends.  select! polls its branches in a random order: the
\* branch of the connection events, which is not ready while the loop parks, is
\* taken in the end if it is ready again and again, whatever input keeps coming.
Fairness == WF_vars(ParkEnds) /\ SF_vars(HandleConnEvent)

FairSpec == Spec /\ Fairness

-----------------------------------------------------------------------------

EnterMessages ==
  {CursorEnter(EntryX(geom), y) : y \in Pixels(geom.peer.height) \cup {NaN}}
InputMessages ==
  {PointerMove(d[1], d[2]) : d \in Deltas}
    \cup {PointerButton(b, p) : b \in Buttons, p \in BOOLEAN}
    \cup {Key(k, p) : k \in Keys, p \in BOOLEAN}
    \cup {Wheel}
ClipboardMessages == {Clipboard(c) : c \in Contents}
Messages ==
  EnterMessages \cup {CursorLeave} \cup InputMessages \cup ClipboardMessages \cup {Hello}

FocusTypeOK ==
  /\ mode \in {"Local", "Remote"}
  /\ virtX \in Int /\ virtY \in Int \cup {NaN}
  /\ coalescer \in [x : Int, y : Int, has : BOOLEAN]

LoopTypeOK ==
  /\ pressedKeys \subseteq Keys
  /\ told \in BOOLEAN
  /\ pc \in {"select", "parking", "done"}
  /\ parkAt \in Positions \cup {NoPark}
  /\ suppress \in BOOLEAN

QueuesTypeOK ==
  /\ rxInput \in Seq(InputEvents) /\ captureOpen \in BOOLEAN
  /\ rxEvents \in Seq(PeerMessages \cup {Closed}) /\ eventsOpen \in BOOLEAN
  /\ txSend \in Seq(Messages) /\ sendOpen \in BOOLEAN

TypeOK == FocusTypeOK /\ LoopTypeOK /\ QueuesTypeOK /\ clipboard \in Services

\* FocusState::step: the virtual pointer that decides when control comes back
\* never leaves the client's screen by the shared edge nor by its top and
\* bottom; out of the remote focus it rests at the origin.  (By the far edge
\* it may: virt_x is not clamped.)
VirtualPointerOnPeer ==
  IF IsRemote
  THEN /\ virtY \in Pixels(geom.peer.height) \cup {NaN}
       /\ geom.side = "Right" => virtX >= 0
       /\ geom.side = "Left"  => virtX <= LastIndex(geom.peer.width)
       /\ virtY = NaN => geom.local.height = 1
  ELSE virtX = 0 /\ virtY = 0

\* ControllerCore::handle_move and force_local: what the coalescer holds is
\* exactly the path of the virtual pointer since it entered the client, and
\* no residue of one visit leaks into the next.
CoalescerTracksVirtual ==
  IF IsRemote THEN coalescer.x = virtX - EntryX(geom) ELSE coalescer = NoMove

\* The emergency combination of run_controller: while the loop runs, the keys
\* it believes to be down never include the whole combination, in whatever
\* order the keys went down and wherever the focus was.
EmergencyStops == pc # "done" => ~(Emergency \subseteq pressedKeys)

\* docs/specs design, section 5 (line 83): as long as the session is open and
\* the loop runs, CursorEnter and CursorLeave strictly alternate with the
\* changes of focus: the client was told to expect the mouse exactly when the
\* controller is in the remote focus.
ToldMatchesFocus == eventsOpen /\ pc # "done" => (told <=> IsRemote)

\* park: the capture ignores movements exactly while a parking position is
\* being set, and that position is on the shared edge of the controller.
SuppressedOnlyToPark ==
  /\ suppress <=> pc = "parking"
  /\ suppress <=> parkAt # NoPark
  /\ suppress => parkAt[1] = BackX(geom)

\* run_controller's two ways to learn that the session is over, Closed and then
\* None: the loop hands control back in the end, however much the user types
\* and moves, instead of driving the mouse over a connection that is gone.
LoopEndsWithSession == ~eventsOpen ~> pc = "done"

\* The discipline on the posted messages (run_controller's sends).
Promise == INSTANCE RemoteControl WITH
  EnterMessages <- EnterMessages, LeaveMessages <- {CursorLeave},
  InputMessages <- InputMessages, ClipboardMessages <- ClipboardMessages,
  Greeting <- <<Hello>>,
  holder <- mode, connected <- eventsOpen, running <- (pc # "done"),
  linked <- sendOpen, posted <- txSend

KeepsPromise == Promise!Spec

=============================================================================
