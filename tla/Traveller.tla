----------------------------- MODULE Traveller -----------------------------
(***************************************************************************)
(* The two programs and the session between them: run_controller and       *)
(* run_client, each with its reader and writer task, as run_async of       *)
(* src/lib.rs starts them once the two machines are connected.             *)
(*                                                                         *)
(* The screen of the client is the one the controller's configuration      *)
(* declares (peer_screen): nothing in the code compares the two.           *)
(*                                                                         *)
(* Here the network carries what it is given; Session is where it goes     *)
(* silent.                                                                 *)
(***************************************************************************)
EXTENDS Geometry, Protocol, ClipboardService, SequencesExt

CONSTANTS
  geom,
  Keys, Emergency, Buttons,    \* as their codes travel, see Keymap
  Deltas, Travel, InputMax, NoPark,
  Heartbeat,    \* TRUE in the code
  TooLarge, FlightMax, QueueMax,
  Faults        \* bound: what may fail, of "capture" and "injection"

ASSUME TravellerAssumption ==
  /\ geom \in Geometries
  /\ Emergency \subseteq Keys /\ Emergency # {}
  /\ Deltas \subseteq Int \X Int
  /\ {Travel, InputMax, FlightMax, QueueMax} \subseteq Nat
  /\ Heartbeat \in BOOLEAN
  /\ Faults \subseteq {"capture", "injection"}

VARIABLES
  \* the controller, see Controller
  mode, virtX, virtY, coalescer, pressedKeys, told, pc, parkAt, suppress,
  rxInput, captureOpen, clipboard,
  \* the client, see Client
  cliPc, pointer, keysDown, buttonsDown, visited, cliClipboard,
  \* the session, see SessionEnd
  ctlRx, ctlReading, ctlTx, ctlWriting, ctlUnacked, ctlBroken,
  cliRx, cliReading, cliTx, cliWriting, cliUnacked, cliBroken,
  toCtl, toCli, link,
  unanswered    \* auxiliary: the Pong still due for the last Ping put on a link that
                \* is up.  Bound: at most one Ping with its two Pong at a time

ctlLoopVars == <<mode, virtX, virtY, coalescer, pressedKeys, told, pc, parkAt, suppress,
                 rxInput, captureOpen, clipboard>>
cliLoopVars == <<cliPc, pointer, keysDown, buttonsDown, visited, cliClipboard>>
ctlQueues   == <<ctlRx, ctlReading, ctlTx, ctlWriting>>
cliQueues   == <<cliRx, cliReading, cliTx, cliWriting>>
ctlEndVars  == <<ctlQueues, ctlUnacked, ctlBroken>>
cliEndVars  == <<cliQueues, cliUnacked, cliBroken>>
wires       == <<toCtl, toCli, link>>
vars == <<ctlLoopVars, cliLoopVars, ctlEndVars, cliEndVars, wires, unanswered>>

Ctl == INSTANCE Controller WITH
  rxEvents <- ctlRx, eventsOpen <- ctlReading, txSend <- ctlTx, sendOpen <- ctlWriting,
  EventsMax <- QueueMax, SendMax <- QueueMax

Cli == INSTANCE Client WITH
  screen <- geom.peer, pc <- cliPc, clipboard <- cliClipboard,
  rxEvents <- cliRx, eventsOpen <- cliReading, txSend <- cliTx, sendOpen <- cliWriting

CtlEnd == INSTANCE SessionEnd WITH
  rxEvents <- ctlRx, eventsOpen <- ctlReading,
  txSend <- ctlTx, sendOpen <- ctlWriting, inbound <- toCtl, outbound <- toCli,
  unacked <- ctlUnacked, broken <- ctlBroken

CliEnd == INSTANCE SessionEnd WITH
  Heartbeat <- FALSE, rxEvents <- cliRx, eventsOpen <- cliReading,
  txSend <- cliTx, sendOpen <- cliWriting, inbound <- toCli, outbound <- toCtl,
  unacked <- cliUnacked, broken <- cliBroken

Init ==
  /\ Ctl!Init /\ Cli!Init
  /\ ctlUnacked = FALSE /\ ctlBroken = FALSE
  /\ cliRx = <<>> /\ cliReading = TRUE /\ cliTx = <<>> /\ cliWriting = TRUE
  /\ cliUnacked = FALSE /\ cliBroken = FALSE
  /\ toCtl = <<>> /\ toCli = <<>> /\ link = "up"
  /\ unanswered = 0

-----------------------------------------------------------------------------
\* The loops, and the users of the two machines.

CtlOnly == UNCHANGED <<ctlUnacked, ctlBroken, cliLoopVars, cliEndVars, wires>>
CliOnly == UNCHANGED <<ctlLoopVars, ctlEndVars, cliUnacked, cliBroken, wires, unanswered>>

CtlHandlesEvent ==
  /\ Ctl!HandleConnEvent
  /\ unanswered' = IF ctlRx # <<>> /\ Head(ctlRx) = Pong /\ unanswered > 0
                   THEN unanswered - 1 ELSE unanswered
  /\ CtlOnly

CtlHandlesInput == Ctl!HandleInput /\ CtlOnly /\ UNCHANGED unanswered
CtlPolls   == Ctl!TickSend /\ CtlOnly /\ UNCHANGED unanswered
CtlUnparks == Ctl!ParkEnds /\ CtlOnly /\ UNCHANGED unanswered

CtlUser ==
  /\ \/ \E e \in Ctl!InputEvents : Ctl!Capture(e)
     \/ \E c \in Contents \cup {NoText} : Ctl!UserCopies(c)
     \/ "capture" \in Faults /\ Ctl!CaptureEnds
  /\ CtlOnly /\ UNCHANGED unanswered

CliHandlesEvent ==
  /\ Cli!HandleEvent
  /\ "injection" \in Faults \/ cliPc' = "select" \/ Head(cliRx) = Closed
  /\ CliOnly

CliPolls == Cli!TickSend /\ CliOnly
CliUser  == (\E c \in Contents \cup {NoText} : Cli!UserCopies(c)) /\ CliOnly

-----------------------------------------------------------------------------
\* The tasks of the session and the connection.

CtlReads == CtlEnd!Reader /\ UNCHANGED <<ctlLoopVars, cliLoopVars, cliEndVars, unanswered>>
CliReads == CliEnd!Reader /\ UNCHANGED <<ctlLoopVars, cliLoopVars, ctlEndVars, unanswered>>

CtlWrites ==
  /\ CtlEnd!Write \/ CtlEnd!WriteFails \/ CtlEnd!BeatFails
  /\ UNCHANGED <<ctlLoopVars, cliLoopVars, cliEndVars, unanswered>>

CliWrites ==
  /\ CliEnd!Write \/ CliEnd!WriteFails
  /\ UNCHANGED <<ctlLoopVars, cliLoopVars, ctlEndVars, unanswered>>

CtlBeats ==
  /\ CtlEnd!Beat
  /\ IF link = "up" THEN unanswered = 0 /\ unanswered' = 2
     ELSE UNCHANGED unanswered
  /\ UNCHANGED <<ctlLoopVars, cliLoopVars, cliEndVars>>

\* run_async returns, and the program with it.
CtlExits ==
  /\ pc = "done" /\ CtlEnd!Exit
  /\ UNCHANGED <<ctlLoopVars, cliLoopVars, cliEndVars, unanswered>>
CliExits ==
  /\ cliPc = "done" /\ CliEnd!Exit
  /\ UNCHANGED <<ctlLoopVars, cliLoopVars, ctlEndVars, unanswered>>

\* A program that has exited drops its half of the stream.
Closes ==
  /\ link = "up" /\ link' = "closed"
  /\ \/ /\ ~ctlReading /\ ~ctlWriting
        /\ toCli' \in Prefixes(toCli) /\ toCtl' = <<>>
     \/ /\ ~cliReading /\ ~cliWriting
        /\ toCtl' \in Prefixes(toCtl) /\ toCli' = <<>>
  /\ UNCHANGED <<ctlLoopVars, cliLoopVars, ctlEndVars, cliEndVars, unanswered>>

GivesUp ==
  /\ \/ CtlEnd!GiveUp /\ UNCHANGED cliEndVars
     \/ CliEnd!GiveUp /\ UNCHANGED ctlEndVars
  /\ UNCHANGED <<ctlLoopVars, cliLoopVars, unanswered>>

Next ==
  \/ CtlHandlesEvent \/ CtlHandlesInput \/ CtlPolls \/ CtlUnparks \/ CtlUser
  \/ CliHandlesEvent \/ CliPolls \/ CliUser
  \/ CtlReads \/ CliReads \/ CtlWrites \/ CliWrites \/ CtlBeats
  \/ CtlExits \/ CliExits \/ Closes \/ GivesUp

Spec == Init /\ [][Next]_vars

-----------------------------------------------------------------------------

TypeOK ==
  /\ Ctl!TypeOK /\ Cli!TypeOK
  /\ keysDown \subseteq {Cli!KeyOfCode(k) : k \in Keys}
  /\ buttonsDown \subseteq {Cli!IdToButton(b) : b \in Buttons}
  /\ cliRx \in Seq(Ctl!Messages \cup {Ping, Pong, Closed})
  /\ toCli \in Seq(Ctl!Messages \cup {Ping, Pong})
  /\ unanswered \in 0 .. 2

\* Everything the controller has posted will get to the client's loop, unless
\* something fails later.
Connected == link = "up" /\ ctlWriting /\ cliReading /\ cliPc # "done"

\* What a message does to the client's pointer.
Displaced(at, m) ==
  CASE m.type = "CursorEnter" -> Cli!PositionAt(m.x, m.y)
    [] m.type = "PointerMove" -> Cli!MovedBy(at, m.dx, m.dy)
    [] OTHER -> at

\* Where the client's pointer will be when it has caught up.
Arriving == FoldLeft(Displaced, pointer, cliRx \o toCli \o ctlTx)

\* FocusState::step: the virtual pointer on which the controller decides to
\* take the mouse back stands at the height of the pointer the client's user
\* sees, and never nearer to the shared edge than that pointer; however far
\* the client lags behind.  (Behind a screen one pixel high virt_y is NaN and
\* has no height: see MapY.)
VirtualFollowsReal ==
  mode = "Remote" /\ Connected =>
    /\ geom.local.height > 1 => Arriving[2] = virtY
    /\ geom.side = "Right" => Arriving[1] <= virtX
    /\ geom.side = "Left"  => Arriving[1] >= virtX

\* run_client and the design document, section 3: the client's devices move
\* between CursorEnter and CursorLeave only, whatever the delays.
MovesOnlyWhenVisited ==
  [][<<pointer, keysDown, buttonsDown>>' # <<pointer, keysDown, buttonsDown>> => visited']_vars

\* When the controller has come back and its messages have arrived, the client
\* does not take itself to be visited.
AgreeWhenCaughtUp ==
  Connected /\ ctlReading /\ pc # "done" /\ cliRx = <<>> /\ toCli = <<>> /\ ctlTx = <<>>
    => (visited <=> mode = "Remote")

\* The contents on their way in one direction, the oldest first, as far as they
\* still get through: taken by the reader, on the wire, and waiting for the writer.
WithContent(contents, m) ==
  IF m.type = "Clipboard" THEN Append(contents, m.content) ELSE contents

ContentsOf(messages) ==
  LET taken[i \in 0 .. Len(messages)] ==
        IF i = 0 THEN <<>> ELSE WithContent(taken[i - 1], messages[i])
  IN taken[Len(messages)]

ClipboardRoute(rx, reading, wire, tx, writing) ==
  ContentsOf(rx \o (IF reading THEN wire ELSE <<>>)
                \o (IF reading /\ writing /\ link = "up" THEN tx ELSE <<>>))

BothClipboards == [controller |-> clipboard, client |-> cliClipboard]

InTransit ==
  [controller |-> ClipboardRoute(ctlRx, ctlReading, toCtl, cliTx, cliWriting),
   client     |-> ClipboardRoute(cliRx, cliReading, toCli, ctlTx, ctlWriting)]

GetsThrough ==
  [controller |-> ctlReading /\ cliWriting /\ link = "up",
   client     |-> cliReading /\ ctlWriting /\ link = "up"]

\* The clipboards of the two programs, with everything between them, are the
\* exchange of BreakableExchange: whatever else uses the connection, its two
\* directions are two queues for the clipboards, and when programs and tasks
\* end only the newest contents on their way are lost.
Exchange == INSTANCE BreakableExchange WITH
  svc <- BothClipboards, channel <- InTransit, intact <- GetsThrough

SharesClipboards == Exchange!SpecBreakable

-----------------------------------------------------------------------------
\* What the documentation says and the code does not do.

\* docs/ACCEPTANCE.md:58-60: after the emergency combination, typed in the
\* remote focus, no key stays pressed on the client.
NothingStaysPressed ==
  Emergency \subseteq pressedKeys /\ cliPc = "done" => keysDown = {}
=============================================================================
