--------------------------- MODULE RemoteControl ---------------------------
(***************************************************************************)
(* What the controller promises to the machine it controls, as a           *)
(* discipline on the messages it posts (design document, section 5).       *)
(*                                                                         *)
(* One of the two machines holds the mouse.  Handing it over posts         *)
(* CursorEnter, taking it back posts CursorLeave, and input is relayed     *)
(* only in between.  The single exception: once the session is closed the  *)
(* mouse may come back silently.  A controller that has stopped posts      *)
(* nothing any more.                                                       *)
(***************************************************************************)
EXTENDS Sequences

CONSTANTS
  EnterMessages, LeaveMessages,   \* the messages that hand the mouse over and back
  InputMessages,                  \* the ones that act on the client's devices
  ClipboardMessages,
  Greeting                        \* what has been posted before

VARIABLES
  holder,     \* the machine that holds the mouse: "Local" or "Remote"
  connected,  \* is the session still open?
  running,    \* is the controller running?
  linked,     \* does anyone still take what is posted?
  posted      \* the messages nobody has taken yet, oldest first

vars == <<holder, connected, running, linked, posted>>

Init ==
  /\ holder = "Local" /\ connected = TRUE /\ running = TRUE
  /\ linked = TRUE /\ posted = Greeting

Post(m) == posted' = IF linked THEN Append(posted, m) ELSE posted

HandOver ==
  /\ running /\ holder = "Local"
  /\ holder' = "Remote"
  /\ \E m \in EnterMessages : Post(m)
  /\ UNCHANGED <<connected, running, linked>>

TakeBack ==
  /\ running /\ holder = "Remote"
  /\ holder' = "Local"
  /\ \E m \in LeaveMessages : Post(m)
  /\ UNCHANGED <<connected, running, linked>>

Relay ==
  /\ running /\ holder = "Remote"
  /\ \E m \in InputMessages : Post(m)
  /\ UNCHANGED <<holder, connected, running, linked>>

\* The clipboard travels whoever holds the mouse.
ShareClipboard ==
  /\ running
  /\ \E m \in ClipboardMessages : Post(m)
  /\ UNCHANGED <<holder, connected, running, linked>>

\* The end of the session is noticed, and the mouse comes back.
Recover ==
  /\ running /\ ~connected
  /\ holder' = "Local"
  /\ UNCHANGED <<connected, running, linked, posted>>

Stop ==
  /\ running' = FALSE
  /\ holder' \in {holder, "Local"}
  /\ UNCHANGED <<connected, linked, posted>>

Disconnect ==
  /\ connected' = FALSE
  /\ UNCHANGED <<holder, running, linked, posted>>

Take ==
  /\ posted # <<>>
  /\ posted' = Tail(posted)
  /\ UNCHANGED <<holder, connected, running, linked>>

Unlink ==
  /\ linked' = FALSE
  /\ posted' = <<>>
  /\ UNCHANGED <<holder, connected, running>>

Next ==
  \/ HandOver \/ TakeBack \/ Relay \/ ShareClipboard
  \/ Recover \/ Stop \/ Disconnect \/ Take \/ Unlink

Spec == Init /\ [][Next]_vars
=============================================================================
