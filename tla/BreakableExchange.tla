------------------------- MODULE BreakableExchange -------------------------
(***************************************************************************)
(* ClipboardExchange on a session that may end.  A channel may break, for  *)
(* good: it loses its newest contents, and what is sent on it from then on *)
(* is lost.  What is received is still a beginning of what was sent, and   *)
(* neither service is told of the loss.                                    *)
(***************************************************************************)
EXTENDS ClipboardExchange, SequencesExt

VARIABLE intact    \* intact[n]: does the channel to n still take contents?

InitBreakable == Init /\ intact = [n \in Nodes |-> TRUE]

\* The loop goes on offering its clipboard to a session that is dead.
TickSendLost(n) ==
  /\ ~intact[Peer(n)]
  /\ Offers(svc[n])
  /\ svc' = [svc EXCEPT ![n] = Offered(svc[n])]
  /\ UNCHANGED <<channel, intact>>

TickSendKept(n) == intact[Peer(n)] /\ TickSend(n) /\ UNCHANGED intact

\* The session breaks in one direction or in both, or goes on breaking: a
\* program that ends takes along what it has received and not ingested.
Break ==
  \E gone \in SUBSET Nodes :
    /\ intact' = [n \in Nodes |-> intact[n] /\ n \notin gone]
    /\ channel' \in [Nodes -> UNION {Prefixes(channel[n]) : n \in Nodes}]
    /\ \A n \in Nodes : IF n \in gone THEN channel'[n] \in Prefixes(channel[n])
                        ELSE channel'[n] = channel[n]
    /\ UNCHANGED svc

NextBreakable ==
  \/ Break
  \/ \E n \in Nodes :
       \/ TickSendKept(n) \/ TickSendLost(n)
       \/ Ingest(n) /\ UNCHANGED intact
       \/ \E c \in Contents \cup {NoText} : UserCopies(n, c) /\ UNCHANGED intact

SpecBreakable == InitBreakable /\ [][NextBreakable]_<<svc, channel, intact>>
=============================================================================
