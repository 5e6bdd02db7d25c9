----------------------------- MODULE MC_Connect -----------------------------
EXTENDS Connect

Controller(pin) ==
  [role |-> "controller", listen |-> FALSE, peerAddr |-> TRUE, screens |-> TRUE,
   combo |-> TRUE, pin |-> pin]
Client(pin) ==
  [role |-> "client", listen |-> TRUE, peerAddr |-> FALSE, screens |-> TRUE,
   combo |-> TRUE, pin |-> pin]

Pair(c, d) == [n \in Machines |-> IF n = A THEN c ELSE d]

\* Right pins, wrong pins and none: A has made identity 1, B identity 2.
FitPairs == {Pair(Controller(p), Client(q)) : p \in {NoPin, 2}, q \in {NoPin, 1, 2}}

\* One thing wrong at a time, on one machine at a time: no address or two,
\* that of the other role, a dimension of 0, a combination no one understands.
UnfitPairs ==
  {Pair([Controller(NoPin) EXCEPT !.listen = l, !.peerAddr = p], Client(NoPin)) :
     l \in BOOLEAN, p \in BOOLEAN}
  \cup {Pair(Controller(Malformed), Client(NoPin)),
        Pair([Controller(NoPin) EXCEPT !.screens = FALSE], Client(NoPin)),
        Pair([Controller(NoPin) EXCEPT !.combo = FALSE], Client(NoPin)),
        Pair(Controller(NoPin), [Client(NoPin) EXCEPT !.listen = FALSE, !.peerAddr = TRUE])}

MCConfigs == FitPairs \cup UnfitPairs

None == [cert |-> Missing, key |-> Missing]
Made(i) == [cert |-> i, key |-> i]

MCFiles == {Pair(Made(1), Made(2)), Pair(Made(1), None)}
=============================================================================
