-------------------------------- MODULE Pipe --------------------------------
(***************************************************************************)
(* What a session promises to one direction of traffic: a queue.  It may   *)
(* break, which loses its newest messages; from then on it accepts no      *)
(* other.  What is taken is therefore always a beginning of what was       *)
(* posted: nothing is skipped, repeated or overtaken.                      *)
(***************************************************************************)
EXTENDS Sequences, Naturals

CONSTANT Message

VARIABLES queue, intact

vars == <<queue, intact>>

Init == queue = <<>> /\ intact = TRUE

Post ==
  /\ intact
  /\ \E m \in Message : queue' = Append(queue, m)
  /\ UNCHANGED intact

Take ==
  /\ queue # <<>>
  /\ queue' = Tail(queue)
  /\ UNCHANGED intact

Break ==
  /\ intact' = FALSE
  /\ \E k \in 0 .. Len(queue) : queue' = SubSeq(queue, 1, k)

Next == Post \/ Take \/ Break

Spec == Init /\ [][Next]_vars
=============================================================================
