------------------------------ MODULE Protocol ------------------------------
(***************************************************************************)
(* The messages of src/transport/protocol.rs, with the fields that matter  *)
(* to the two event loops.  A timestamp, a device id, a wheel amount and   *)
(* the digest that travels with a clipboard content (no receiver reads it) *)
(* are left out.                                                           *)
(***************************************************************************)
EXTENDS Integers, Sequences

Hello == [type |-> "Hello"]
CursorEnter(x, y) == [type |-> "CursorEnter", x |-> x, y |-> y]
CursorLeave == [type |-> "CursorLeave"]
PointerMove(dx, dy) == [type |-> "PointerMove", dx |-> dx, dy |-> dy]
PointerButton(button, pressed) ==
  [type |-> "PointerButton", button |-> button, pressed |-> pressed]
Key(code, pressed) == [type |-> "Key", code |-> code, pressed |-> pressed]
Wheel == [type |-> "Wheel"]
Clipboard(content) == [type |-> "Clipboard", content |-> content]
Ping == [type |-> "Ping"]
Pong == [type |-> "Pong"]
Quit == [type |-> "Quit"]

\* The messages that act on the client's mouse and keyboard.
InputTypes == {"PointerMove", "PointerButton", "Key", "Wheel"}

\* ConnEvent::Closed, which the reader task pushes after the last message.
Closed == [type |-> "Closed"]
=============================================================================
