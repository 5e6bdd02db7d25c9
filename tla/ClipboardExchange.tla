------------------------- MODULE ClipboardExchange -------------------------
(***************************************************************************)
(* The clipboards of the two machines, kept in step by the two services of *)
(* src/clipboard.rs over the session: each event loop polls its clipboard  *)
(* (tick_send) and applies what it receives (ingest), one at a time.       *)
(*                                                                         *)
(* A channel stands for the whole way from one loop to the other: the      *)
(* queue of the writer task, the connection and the queue of the reader    *)
(* task.  Traveller is checked to exchange its clipboards in this way.     *)
(***************************************************************************)
EXTENDS ClipboardService, Sequences

Nodes == {"controller", "client"}
Peer(n) == CHOOSE m \in Nodes : m # n

VARIABLES
  svc,        \* the service of each machine
  channel     \* channel[n]: the contents on their way to n

\* Nothing is on its way and nobody has anything to send.
Quiet == \A n \in Nodes : channel[n] = <<>> /\ ~Offers(svc[n])

\* The session starts with whatever the two clipboards hold.
Init ==
  /\ svc \in {[n \in Nodes |-> NewService(start[n])] :
                start \in [Nodes -> Contents \cup {NoText}]}
  /\ channel = [n \in Nodes |-> <<>>]

\* ClipboardBridge::tick_send
TickSend(n) ==
  /\ Offers(svc[n])
  /\ svc' = [svc EXCEPT ![n] = Offered(svc[n])]
  /\ channel' = [channel EXCEPT ![Peer(n)] = Append(@, svc[n].clip)]

\* ClipboardBridge::ingest
Ingest(n) ==
  /\ channel[n] # <<>>
  /\ \E after \in Ingested(svc[n], Head(channel[n])) : svc' = [svc EXCEPT ![n] = after]
  /\ channel' = [channel EXCEPT ![n] = Tail(@)]

\* A user copies a text, or something that is not one (NoText).
UserCopies(n, c) ==
  /\ svc' = [svc EXCEPT ![n].clip = c]
  /\ UNCHANGED channel

Next ==
  \E n \in Nodes :
    \/ TickSend(n)
    \/ Ingest(n)
    \/ \E c \in Contents \cup {NoText} : UserCopies(n, c)

Spec == Init /\ [][Next]_<<svc, channel>>
=============================================================================
