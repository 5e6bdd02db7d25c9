------------------------------ MODULE Session ------------------------------
(***************************************************************************)
(* A whole session: the four tasks of its two ends, the connection between *)
(* them, and two event loops of which only this is known: they post, they  *)
(* take what arrives, the client's answers Ping, and they may end.         *)
(*                                                                         *)
(* The connection (external) may be closed, when the program of one end    *)
(* drops it: the other end is told.  Or the network may go silent: what is *)
(* on its way is lost from some frame on and nobody is told.               *)
(***************************************************************************)
EXTENDS Protocol, SequencesExt

CONSTANTS
  CtlPosts, CliPosts,  \* what the loop of the controller, of the client, may post
  PostMax,             \* bound: messages posted by the two loops
  TooLarge, FlightMax, QueueMax,
  BeatMax              \* bound: Ping not wholly answered yet, while the link is up

\* Of themselves the loops post neither Ping nor Pong (the Pong of run_client
\* is part of CliLoopTakes), and ConnEvent::Closed is not a message.
ASSUME SessionAssumption ==
  /\ {Ping, Pong, Closed} \cap (CtlPosts \cup CliPosts) = {}
  /\ {PostMax, FlightMax, QueueMax, BeatMax} \subseteq Nat

VARIABLES
  ctlRx, ctlReading, ctlTx, ctlWriting, ctlUnacked, ctlBroken,
  cliRx, cliReading, cliTx, cliWriting, cliUnacked, cliBroken,
  toCtl, toCli, link,
  posts,     \* messages posted by the two loops
  unanswered \* auxiliary: Pong still due, two for each Ping put on a link that is up

ctlVars == <<ctlRx, ctlReading, ctlTx, ctlWriting, ctlUnacked, ctlBroken>>
cliVars == <<cliRx, cliReading, cliTx, cliWriting, cliUnacked, cliBroken>>
wires   == <<toCtl, toCli, link>>
vars    == <<ctlVars, cliVars, wires, posts, unanswered>>

Ctl == INSTANCE SessionEnd WITH
  Heartbeat <- TRUE, rxEvents <- ctlRx, eventsOpen <- ctlReading,
  txSend <- ctlTx, sendOpen <- ctlWriting, inbound <- toCtl, outbound <- toCli,
  unacked <- ctlUnacked, broken <- ctlBroken

Cli == INSTANCE SessionEnd WITH
  Heartbeat <- FALSE, rxEvents <- cliRx, eventsOpen <- cliReading,
  txSend <- cliTx, sendOpen <- cliWriting, inbound <- toCli, outbound <- toCtl,
  unacked <- cliUnacked, broken <- cliBroken

Init ==
  /\ ctlRx = <<>> /\ ctlTx = <<>> /\ cliRx = <<>> /\ cliTx = <<>>
  /\ ctlReading = TRUE /\ ctlWriting = TRUE /\ ctlUnacked = FALSE /\ ctlBroken = FALSE
  /\ cliReading = TRUE /\ cliWriting = TRUE /\ cliUnacked = FALSE /\ cliBroken = FALSE
  /\ toCtl = <<>> /\ toCli = <<>> /\ link = "up"
  /\ posts = 0 /\ unanswered = 0

-----------------------------------------------------------------------------
\* The tasks.

CtlBeats ==
  /\ Ctl!Beat
  /\ IF link = "up"
     THEN unanswered + 2 <= 2 * BeatMax /\ unanswered' = unanswered + 2
     ELSE UNCHANGED unanswered
  /\ UNCHANGED <<cliVars, posts>>

CtlReads == Ctl!Reader /\ UNCHANGED <<cliVars, posts, unanswered>>
CtlWrites ==
  /\ Ctl!Write \/ Ctl!WriteFails \/ Ctl!BeatFails
  /\ UNCHANGED <<cliVars, posts, unanswered>>
CliReads == Cli!Reader /\ UNCHANGED <<ctlVars, posts, unanswered>>
CliWrites ==
  /\ Cli!Write \/ Cli!WriteFails
  /\ UNCHANGED <<ctlVars, posts, unanswered>>

-----------------------------------------------------------------------------
\* The loops.

\* handle.send.send: the message is lost when the writer task is gone.
CtlLoopPosts(m) ==
  /\ posts < PostMax /\ posts' = posts + 1
  /\ ctlWriting /\ Len(ctlTx) < QueueMax
  /\ ctlTx' = Append(ctlTx, m)
  /\ UNCHANGED <<ctlRx, ctlReading, ctlWriting, ctlUnacked, ctlBroken, cliVars, wires,
                 unanswered>>

CliLoopPosts(m) ==
  /\ posts < PostMax /\ posts' = posts + 1
  /\ cliWriting /\ Len(cliTx) < QueueMax
  /\ cliTx' = Append(cliTx, m)
  /\ UNCHANGED <<ctlVars, cliRx, cliReading, cliWriting, cliUnacked, cliBroken, wires,
                 unanswered>>

CtlLoopTakes ==
  /\ ctlRx # <<>> /\ ctlRx' = Tail(ctlRx)
  /\ unanswered' = unanswered - (IF Head(ctlRx) = Pong THEN 1 ELSE 0)
  /\ UNCHANGED <<ctlReading, ctlTx, ctlWriting, ctlUnacked, ctlBroken, cliVars, wires,
                 posts>>

\* run_client answers Ping, which the reader of its end has answered already.
CliLoopTakes ==
  /\ cliRx # <<>> /\ cliRx' = Tail(cliRx)
  /\ IF Head(cliRx) = Ping /\ cliWriting
     THEN Len(cliTx) < QueueMax /\ cliTx' = Append(cliTx, Pong)
     ELSE UNCHANGED cliTx
  /\ UNCHANGED <<ctlVars, cliReading, cliWriting, cliUnacked, cliBroken, wires,
                 posts, unanswered>>

CtlExits == Ctl!Exit /\ UNCHANGED <<cliVars, posts, unanswered>>
CliExits == Cli!Exit /\ UNCHANGED <<ctlVars, posts, unanswered>>

-----------------------------------------------------------------------------
\* The connection.

\* Both tasks of the controller are over: its half of the stream is dropped.
\* What it wrote last may still arrive, or a reset may destroy it.
CtlCloses ==
  /\ link = "up" /\ ~ctlReading /\ ~ctlWriting
  /\ link' = "closed"
  /\ toCli' \in Prefixes(toCli) /\ toCtl' = <<>>
  /\ UNCHANGED <<ctlVars, cliVars, posts, unanswered>>

CliCloses ==
  /\ link = "up" /\ ~cliReading /\ ~cliWriting
  /\ link' = "closed"
  /\ toCtl' \in Prefixes(toCtl) /\ toCli' = <<>>
  /\ UNCHANGED <<ctlVars, cliVars, posts, unanswered>>

\* The network goes silent.  An end waits for an acknowledgement if what it
\* wrote did not arrive, and perhaps if it did (the acknowledgement itself may
\* be lost; that it may be so for an end that wrote nothing lately is more than
\* the network can do).
Silence ==
  /\ link # "silent" /\ link' = "silent"
  /\ toCli' \in Prefixes(toCli) /\ toCtl' \in Prefixes(toCtl)
  /\ ctlUnacked' \in BOOLEAN /\ (toCli' # toCli \/ ctlUnacked => ctlUnacked')
  /\ cliUnacked' \in BOOLEAN /\ (toCtl' # toCtl \/ cliUnacked => cliUnacked')
  /\ UNCHANGED <<ctlRx, ctlReading, ctlTx, ctlWriting, ctlBroken,
                 cliRx, cliReading, cliTx, cliWriting, cliBroken, posts, unanswered>>

CtlGivesUp == Ctl!GiveUp /\ UNCHANGED <<cliVars, posts, unanswered>>
CliGivesUp == Cli!GiveUp /\ UNCHANGED <<ctlVars, posts, unanswered>>

-----------------------------------------------------------------------------

Next ==
  \/ CtlReads \/ CtlWrites \/ CtlBeats \/ CliReads \/ CliWrites
  \/ \E m \in CtlPosts : CtlLoopPosts(m)
  \/ \E m \in CliPosts : CliLoopPosts(m)
  \/ CtlLoopTakes \/ CliLoopTakes \/ CtlExits \/ CliExits
  \/ CtlCloses \/ CliCloses \/ Silence \/ CtlGivesUp \/ CliGivesUp

Spec == Init /\ [][Next]_vars

\* The runtime runs the tasks, the interval of the heartbeat ticks for ever,
\* the loops take what arrives and end once the session has, and TCP gives up
\* on what is never acknowledged.
Fairness ==
  /\ WF_vars(CtlReads) /\ WF_vars(CtlWrites) /\ WF_vars(CtlBeats)
  /\ WF_vars(CliReads) /\ WF_vars(CliWrites)
  /\ WF_vars(CtlLoopTakes) /\ WF_vars(CliLoopTakes)
  /\ WF_vars(~ctlReading /\ CtlExits) /\ WF_vars(~cliReading /\ CliExits)
  /\ WF_vars(CtlCloses) /\ WF_vars(CliCloses)
  /\ WF_vars(CtlGivesUp) /\ WF_vars(CliGivesUp)

FairSpec == Spec /\ Fairness

-----------------------------------------------------------------------------

CtlMessages == CtlPosts \cup {Ping, Pong}
CliMessages == CliPosts \cup {Pong}

QueuesTypeOK ==
  /\ ctlRx \in Seq((CliMessages \ {Quit}) \cup {Closed})
  /\ cliRx \in Seq((CtlMessages \ {Quit}) \cup {Closed})
  /\ ctlTx \in Seq(CtlPosts) /\ cliTx \in Seq(CliMessages)
  /\ toCtl \in Seq(CliMessages) /\ toCli \in Seq(CtlMessages)

FlagsTypeOK ==
  /\ {ctlReading, ctlWriting, ctlUnacked, ctlBroken} \subseteq BOOLEAN
  /\ {cliReading, cliWriting, cliUnacked, cliBroken} \subseteq BOOLEAN
  /\ link \in {"up", "silent", "closed"}
  /\ posts \in 0 .. PostMax

\* No loop is ever handed Quit: both have an arm for it that is never taken.
TypeOK == QueuesTypeOK /\ FlagsTypeOK /\ unanswered \in Int

\* spawn_session's reader: Closed is the last thing a loop hears, and it is
\* heard once; a loop that has not taken it yet is never told anything else.
ClosedIsLast(rx, reading) ==
  \A i \in 1 .. Len(rx) : rx[i] = Closed => i = Len(rx) /\ ~reading

ClosedIsTheLast == ClosedIsLast(ctlRx, ctlReading) /\ ClosedIsLast(cliRx, cliReading)

\* The answers to the heartbeat (transport/mod.rs:108-111 and client.rs:36-38):
\* once all queues of a session in order have drained, each Ping has had two
\* Pong, the reader's and run_client's, and none is lost or sent a third time
\* by the tasks they go through.
Drained ==
  /\ link = "up" /\ ctlReading /\ ctlWriting /\ cliReading /\ cliWriting
  /\ ctlRx = <<>> /\ ctlTx = <<>> /\ cliRx = <<>> /\ cliTx = <<>>
  /\ toCtl = <<>> /\ toCli = <<>>

TwoPongsPerPing == Drained => unanswered = 0

-----------------------------------------------------------------------------
\* Each direction is a Pipe for the messages of the loops: its queue goes from
\* the writer's end to the reader's, as far as it still gets through.

AppOnly(s) ==
  FoldLeft(LAMBDA app, m : IF m \in {Ping, Pong, Quit, Closed} THEN app ELSE Append(app, m),
           <<>>, s)

Route(rx, reading, wire, tx, writing) ==
  AppOnly(rx \o (IF reading THEN wire ELSE <<>>)
             \o (IF reading /\ writing /\ link = "up" THEN tx ELSE <<>>))

ToClient == INSTANCE Pipe WITH
  Message <- CtlPosts \ {Quit},
  queue   <- Route(cliRx, cliReading, toCli, ctlTx, ctlWriting),
  intact  <- cliReading /\ ctlWriting /\ link = "up"

ToController == INSTANCE Pipe WITH
  Message <- CliPosts \ {Quit},
  queue   <- Route(ctlRx, ctlReading, toCtl, cliTx, cliWriting),
  intact  <- ctlReading /\ cliWriting /\ link = "up"

\* What the client's loop takes is a beginning of what the controller's loop
\* posted, whatever fails and whenever: no message is skipped and the next
\* one delivered (two tasks and a heartbeat on one connection).
DeliversInOrder == ToClient!Spec
AnswersInOrder  == ToController!Spec

\* Although nothing reads HEARTBEAT_TIMEOUT, the heartbeat is enough for the
\* controller to hear of the end of the session, even on a silent network:
\* sooner or later a Ping is not acknowledged.  But for one case: a frame that
\* is too large ends the writer, and the heartbeat with it, and breaks nothing,
\* so that a network that goes silent after it goes unnoticed.
ControllerHears ==
  link # "up" ~> \/ ~ctlReading
                 \/ link = "silent" /\ ~ctlWriting /\ ~ctlBroken

\* A program that ends is noticed by the client, if the network lives.
ClientHears == link = "closed" ~> ~cliReading \/ link = "silent"

=============================================================================
