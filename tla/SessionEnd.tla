----------------------------- MODULE SessionEnd -----------------------------
(***************************************************************************)
(* One end of a session: the reader and the writer task that spawn_session *)
(* (src/transport/mod.rs) puts between an event loop and the connection.   *)
(*                                                                         *)
(* The connection itself is external, modelled by what the two tasks see   *)
(* of it: frames arrive in the order they were written, and a read or a    *)
(* write fails once the OS has given the connection up (broken).           *)
(***************************************************************************)
EXTENDS Protocol

CONSTANTS
  Heartbeat,   \* does the writer of this end send Ping? (the controller's does)
  TooLarge,    \* the messages whose frame exceeds MAX_FRAME
  FlightMax,   \* bound: frames on their way
  QueueMax     \* bound: what each of the two queues may hold

VARIABLES
  rxEvents,    \* the queue of the loop's events
  eventsOpen,  \* does the reader task still run?
  txSend,      \* the queue of the messages to write
  sendOpen,    \* does the writer task still run?
  inbound,     \* the frames on their way to this end
  outbound,    \* the frames on their way to the other end
  link,        \* "up", "silent" or "closed": see Session
  unacked,     \* has this end written something nobody will acknowledge?
  broken       \* has the OS of this end given the connection up?

readerVars == <<rxEvents, eventsOpen>>
writerVars == <<txSend, sendOpen>>
connVars   == <<link, broken>>

-----------------------------------------------------------------------------
\* The reader task.

\* Ok(msg): the message goes to the loop.
ReadMessage ==
  /\ eventsOpen /\ Len(rxEvents) < QueueMax
  /\ inbound # <<>> /\ Head(inbound) \notin {Ping, Quit}
  /\ rxEvents' = Append(rxEvents, Head(inbound))
  /\ inbound' = Tail(inbound)
  /\ UNCHANGED <<eventsOpen, writerVars, outbound, unacked, connVars>>

ReadPingUnanswered ==    \* mutant: no Pong
  /\ eventsOpen /\ Len(rxEvents) < QueueMax
  /\ inbound # <<>> /\ Head(inbound) = Ping
  /\ rxEvents' = Append(rxEvents, Ping)
  /\ inbound' = Tail(inbound)
  /\ UNCHANGED <<eventsOpen, writerVars, outbound, unacked, connVars>>

\* Ok(Msg::Ping): the loop is told, and Pong is posted to this end's writer.
ReadPing ==
  /\ eventsOpen /\ Len(rxEvents) < QueueMax
  /\ inbound # <<>> /\ Head(inbound) = Ping
  /\ rxEvents' = Append(rxEvents, Ping)
  /\ IF sendOpen
     THEN Len(txSend) < QueueMax /\ txSend' = Append(txSend, Pong)
     ELSE UNCHANGED txSend
  /\ inbound' = Tail(inbound)
  /\ UNCHANGED <<eventsOpen, sendOpen, outbound, unacked, connVars>>

ReadQuitGoesOn ==    \* mutant: the loop over the frames is not left
  /\ eventsOpen
  /\ inbound # <<>> /\ Head(inbound) = Quit
  /\ rxEvents' = Append(rxEvents, Closed)
  /\ inbound' = Tail(inbound)
  /\ UNCHANGED <<eventsOpen, writerVars, outbound, unacked, connVars>>

ReadQuitAsAny ==    \* mutant: Quit is a message like any other
  /\ eventsOpen
  /\ inbound # <<>> /\ Head(inbound) = Quit
  /\ rxEvents' = Append(rxEvents, Quit)
  /\ inbound' = Tail(inbound)
  /\ UNCHANGED <<eventsOpen, writerVars, outbound, unacked, connVars>>

\* Ok(Msg::Quit): Closed, and the task ends.
ReadQuit ==
  /\ eventsOpen
  /\ inbound # <<>> /\ Head(inbound) = Quit
  /\ rxEvents' = Append(rxEvents, Closed)
  /\ eventsOpen' = FALSE
  /\ inbound' = Tail(inbound)
  /\ UNCHANGED <<writerVars, outbound, unacked, connVars>>

ReadFailsGoesOn ==    \* mutant: an error is logged and the next frame awaited
  /\ eventsOpen
  /\ inbound = <<>> /\ broken
  /\ UNCHANGED <<readerVars, writerVars, inbound, outbound, unacked, connVars>>

\* Err: Closed, and the task ends.
ReadFails ==
  /\ eventsOpen
  /\ inbound = <<>> /\ broken
  /\ rxEvents' = Append(rxEvents, Closed)
  /\ eventsOpen' = FALSE
  /\ UNCHANGED <<writerVars, inbound, outbound, unacked, connVars>>

-----------------------------------------------------------------------------
\* The writer task.

\* What is written on a connection that is not up goes nowhere, and nothing
\* says so for a while.
PutOnWire(m) ==
  IF link = "up"
  THEN /\ Len(outbound) < FlightMax /\ outbound' = Append(outbound, m)
       /\ UNCHANGED unacked
  ELSE unacked' = TRUE /\ UNCHANGED outbound

WriteNewest ==    \* mutant: the queue is served as a stack
  /\ sendOpen /\ ~broken
  /\ txSend # <<>> /\ txSend[Len(txSend)] \notin TooLarge
  /\ PutOnWire(txSend[Len(txSend)])
  /\ txSend' = SubSeq(txSend, 1, Len(txSend) - 1)
  /\ UNCHANGED <<readerVars, sendOpen, inbound, connVars>>

\* Some(msg), and write_frame succeeds.
Write ==
  /\ sendOpen /\ ~broken
  /\ txSend # <<>> /\ Head(txSend) \notin TooLarge
  /\ PutOnWire(Head(txSend))
  /\ txSend' = Tail(txSend)
  /\ UNCHANGED <<readerVars, sendOpen, inbound, connVars>>

WriterGone ==
  /\ sendOpen' = FALSE /\ txSend' = <<>>
  /\ UNCHANGED <<readerVars, inbound, outbound, unacked, connVars>>

\* Some(msg), and write_frame fails: the task ends with what is queued, and
\* tells nobody.  The reader goes on.
WriteFails ==
  /\ sendOpen
  /\ txSend # <<>> /\ (Head(txSend) \in TooLarge \/ broken)
  /\ WriterGone

BeatOfOtherEnd ==    \* mutant: the flag is read the wrong way round
  /\ ~Heartbeat /\ sendOpen /\ ~broken
  /\ PutOnWire(Ping)
  /\ UNCHANGED <<readerVars, writerVars, inbound, connVars>>

\* interval.tick() if heartbeat
Beat ==
  /\ Heartbeat /\ sendOpen /\ ~broken
  /\ PutOnWire(Ping)
  /\ UNCHANGED <<readerVars, writerVars, inbound, connVars>>

BeatFails ==
  /\ Heartbeat /\ sendOpen /\ broken
  /\ WriterGone

-----------------------------------------------------------------------------

Reader == ReadMessage \/ ReadPing \/ ReadQuit \/ ReadFails

\* The loop has returned and the program ends: the tasks go with it.
Exit ==
  /\ eventsOpen \/ sendOpen
  /\ eventsOpen' = FALSE /\ rxEvents' = <<>>
  /\ sendOpen' = FALSE /\ txSend' = <<>>
  /\ UNCHANGED <<inbound, outbound, unacked, connVars>>

\* The OS gives the connection up: at once when the other end has closed it,
\* only for want of an acknowledgement when the network has gone silent.
GiveUp ==
  /\ ~broken
  /\ link = "closed" \/ (link = "silent" /\ unacked)
  /\ broken' = TRUE
  /\ UNCHANGED <<readerVars, writerVars, inbound, outbound, unacked, link>>
=============================================================================
