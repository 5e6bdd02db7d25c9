------------------------------- MODULE Client -------------------------------
(***************************************************************************)
(* The event loop of the controlled machine: run_client of src/client.rs   *)
(* with the injector of src/input/rdev_backend.rs.                         *)
(*                                                                         *)
(* The devices of the machine (external) are what the injections made of   *)
(* them: the position of its pointer, kept on its screen by the OS, and    *)
(* the keys and buttons that are down.  Its own user moves nothing.        *)
(***************************************************************************)
EXTENDS Geometry, Protocol, ClipboardService, Keymap

CONSTANTS
  screen,     \* the ScreenSize of this machine
  QueueMax    \* bound: messages posted and not taken yet

VARIABLES
  pc,          \* "select" or "done"
  pointer,     \* <<x, y>>
  keysDown, buttonsDown,  \* what is down, as the OS of this machine names it
  visited,     \* auxiliary: was CursorEnter the last of CursorEnter and CursorLeave handled?
  rxEvents, eventsOpen,  \* events of the reader task; does it still run?
  txSend, sendOpen,      \* messages for the writer task; does it still run?
  clipboard

heldVars   == <<keysDown, buttonsDown>>
deviceVars == <<pointer, heldVars>>
loopVars   == <<pc, visited>>
vars == <<loopVars, deviceVars, rxEvents, eventsOpen, txSend, sendOpen, clipboard>>

Init ==
  /\ pc = "select" /\ visited = FALSE
  /\ pointer = <<0, 0>> /\ keysDown = {} /\ buttonsDown = {}
  /\ clipboard \in {NewService(c) : c \in Contents \cup {NoText}}

-----------------------------------------------------------------------------
\* The devices.

OnScreen(c, n) == IF c < 0 THEN 0 ELSE IF c > LastIndex(n) THEN LastIndex(n) ELSE c

\* set_position: Coordinate::Abs, after `as i32`.
PositionAt(x, y) ==
  <<OnScreen(AsPixel(x), screen.width), OnScreen(AsPixel(y), screen.height)>>

\* move_relative: Coordinate::Rel.
MovedBy(at, dx, dy) ==
  <<OnScreen(at[1] + dx, screen.width), OnScreen(at[2] + dy, screen.height)>>

\* button and key: rdev::simulate
After(down, what, pressed) == IF pressed THEN down \cup {what} ELSE down \ {what}

-----------------------------------------------------------------------------
\* Some(ConnEvent)

TakeEvent(types) ==
  /\ pc = "select"
  /\ rxEvents # <<>> /\ Head(rxEvents).type \in types
  /\ rxEvents' = Tail(rxEvents)

HandleEnter ==
  /\ TakeEvent({"CursorEnter"})
  /\ pointer' = PositionAt(Head(rxEvents).x, Head(rxEvents).y)
  /\ visited' = TRUE
  /\ UNCHANGED <<pc, heldVars, eventsOpen, txSend, sendOpen, clipboard>>

\* Nothing is injected, and what is held stays held.
HandleLeave ==
  /\ TakeEvent({"CursorLeave"})
  /\ visited' = FALSE
  /\ UNCHANGED <<pc, deviceVars, eventsOpen, txSend, sendOpen, clipboard>>

MoveAsPosition ==    \* mutant: the displacement is taken for a position
  /\ TakeEvent({"PointerMove"})
  /\ pointer' = PositionAt(Head(rxEvents).dx, Head(rxEvents).dy)
  /\ UNCHANGED <<loopVars, heldVars, eventsOpen, txSend, sendOpen, clipboard>>

HandleMove ==
  /\ TakeEvent({"PointerMove"})
  /\ pointer' = MovedBy(pointer, Head(rxEvents).dx, Head(rxEvents).dy)
  /\ UNCHANGED <<loopVars, heldVars, eventsOpen, txSend, sendOpen, clipboard>>

HandleButton ==
  /\ TakeEvent({"PointerButton"})
  /\ LET b == IdToButton(Head(rxEvents).button)
     IN b # NoButton /\ buttonsDown' = After(buttonsDown, b, Head(rxEvents).pressed)
  /\ UNCHANGED <<loopVars, pointer, keysDown, eventsOpen, txSend, sendOpen, clipboard>>

HandleKey ==
  /\ TakeEvent({"Key"})
  /\ keysDown' = After(keysDown, KeyOfCode(Head(rxEvents).code), Head(rxEvents).pressed)
  /\ UNCHANGED <<loopVars, pointer, buttonsDown, eventsOpen, txSend, sendOpen, clipboard>>

\* wheel leaves nothing behind; Hello is logged and Pong ignored.
HandleOther ==
  /\ TakeEvent({"Wheel", "Hello", "Pong"})
  /\ UNCHANGED <<loopVars, deviceVars, eventsOpen, txSend, sendOpen, clipboard>>

\* The `?` of an injection that fails: the loop returns the error.  (Button 0
\* always fails, as "bouton 0 inconnu".)
InjectionFails ==
  /\ TakeEvent({"CursorEnter"} \cup InputTypes)
  /\ pc' = "done"
  /\ UNCHANGED <<visited, deviceVars, eventsOpen, txSend, sendOpen, clipboard>>

ApplyClipboard ==    \* mutant: written to the clipboard behind the guard's back
  /\ TakeEvent({"Clipboard"})
  /\ clipboard' = [clipboard EXCEPT !.clip = Head(rxEvents).content]
  /\ UNCHANGED <<loopVars, deviceVars, eventsOpen, txSend, sendOpen>>

HandleClipboard ==
  /\ TakeEvent({"Clipboard"})
  /\ clipboard' \in Ingested(clipboard, Head(rxEvents).content)
  /\ UNCHANGED <<loopVars, deviceVars, eventsOpen, txSend, sendOpen>>

Post(m) == txSend' = IF sendOpen THEN Append(txSend, m) ELSE txSend

RoomToSend == Len(txSend) < QueueMax

\* The loop answers Ping too, as the reader task already did.
HandlePing ==
  /\ TakeEvent({"Ping"})
  /\ RoomToSend /\ Post(Pong)
  /\ UNCHANGED <<loopVars, deviceVars, eventsOpen, sendOpen, clipboard>>

\* ConnEvent::Closed, which the reader always sends before its queue ends
\* (None) and after which this loop takes nothing.
HandleClosed ==
  /\ TakeEvent({"Closed"})
  /\ pc' = "done"
  /\ UNCHANGED <<visited, deviceVars, eventsOpen, txSend, sendOpen, clipboard>>

\* cb_interval.tick() with something to send.
TickSend ==
  /\ pc = "select"
  /\ Offers(clipboard) /\ RoomToSend
  /\ clipboard' = Offered(clipboard)
  /\ Post(Clipboard(clipboard.clip))
  /\ UNCHANGED <<loopVars, deviceVars, rxEvents, eventsOpen, sendOpen>>

\* The user of this machine copies a text, or something that is not one.
UserCopies(c) ==
  /\ clipboard' = [clipboard EXCEPT !.clip = c]
  /\ UNCHANGED <<loopVars, deviceVars, rxEvents, eventsOpen, txSend, sendOpen>>

HandleEvent ==
  \/ HandleEnter \/ HandleLeave \/ HandleMove \/ HandleButton \/ HandleKey
  \/ HandleOther \/ InjectionFails \/ HandleClipboard \/ HandlePing \/ HandleClosed

Loop == HandleEvent \/ TickSend

-----------------------------------------------------------------------------

TypeOK ==
  /\ pc \in {"select", "done"} /\ visited \in BOOLEAN
  /\ pointer \in Pixels(screen.width) \X Pixels(screen.height)
  /\ clipboard \in Services
=============================================================================
