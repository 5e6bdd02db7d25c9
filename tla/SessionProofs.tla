---------------------------- MODULE SessionProofs ----------------------------
(***************************************************************************)
(* What Session guarantees for whatever the two loops post, and for every  *)
(* bound: types, Closed once and last, two Pong for each Ping, and that   *)
(* each direction implements Pipe.                                         *)
(*                                                                         *)
(* Of OperatorProofs this uses what is proved of sequences; the constant   *)
(* of the geometry that comes with it plays no part.                       *)
(***************************************************************************)
EXTENDS Session, OperatorProofs

USE DEF CtlMessages, CliMessages

\* The kinds of Msg that the tasks tell apart, and Closed, which is none.
LEMMA Kinds ==
  /\ Ping # Pong /\ Ping # Quit /\ Ping # Closed
  /\ Pong # Quit /\ Pong # Closed /\ Quit # Closed
BY DEF Ping, Pong, Quit, Closed

\* The two ends speak of the same messages.
LEMMA SameMessages ==
  /\ Ctl!Ping = Ping /\ Ctl!Pong = Pong /\ Ctl!Quit = Quit /\ Ctl!Closed = Closed
  /\ Cli!Ping = Ping /\ Cli!Pong = Pong /\ Cli!Quit = Quit /\ Cli!Closed = Closed
BY DEF Ping, Pong, Quit, Closed, Ctl!Ping, Ctl!Pong, Ctl!Quit, Ctl!Closed,
       Cli!Ping, Cli!Pong, Cli!Quit, Cli!Closed

LEMMA PrefixType ==
  ASSUME NEW S, NEW s \in Seq(S), NEW t \in Prefixes(s)
  PROVE  t \in Seq(S)
<1> PICK n \in 0 .. Len(s) : t = SubSeq(s, 1, n)
  BY DEF Prefixes
<1> QED
  BY SubSeqProperties, LenProperties, ElementOfSeq

LEMMA MoreType ==
  ASSUME NEW S, NEW s \in Seq(S), NEW e \in S, NEW t, t = s \/ t = Append(s, e)
  PROVE  t \in Seq(S)
BY AppendProperties

-----------------------------------------------------------------------------
\* Types.

LEMMA TypeInit == Init => TypeOK
<1> SUFFICES ASSUME Init PROVE TypeOK
  OBVIOUS
<1>1. QueuesTypeOK
  BY EmptySeq DEF Init, QueuesTypeOK
<1>2. posts \in 0 .. PostMax /\ unanswered \in Int
  BY SessionAssumption DEF Init
<1>3. FlagsTypeOK
  BY <1>2 DEF Init, FlagsTypeOK
<1> QED
  BY <1>1, <1>2, <1>3 DEF TypeOK

\* The tasks of the two ends leave the types of the queues alone.  No Ping
\* reaches the controller.
LEMMA CtlReadsQueues == QueuesTypeOK /\ CtlReads => QueuesTypeOK'
<1> SUFFICES ASSUME QueuesTypeOK, CtlReads PROVE QueuesTypeOK'
  OBVIOUS
<1> USE Kinds, SameMessages DEF QueuesTypeOK, CtlReads, cliVars
<1>1. CASE Ctl!ReadMessage
  BY <1>1, HeadTailProperties, AppendProperties DEF Ctl!ReadMessage, Ctl!writerVars
<1>2. ~Ctl!ReadPing
  BY SessionAssumption, HeadTailProperties, SMTT(40) DEF Ctl!ReadPing
<1>3. CASE Ctl!ReadQuit
  BY <1>3, HeadTailProperties, AppendProperties DEF Ctl!ReadQuit, Ctl!writerVars
<1>4. CASE Ctl!ReadFails
  BY <1>4, AppendProperties DEF Ctl!ReadFails, Ctl!writerVars
<1> QED
  BY <1>1, <1>2, <1>3, <1>4 DEF Ctl!Reader

LEMMA CliReadsQueues == QueuesTypeOK /\ CliReads => QueuesTypeOK'
<1> SUFFICES ASSUME QueuesTypeOK, CliReads PROVE QueuesTypeOK'
  OBVIOUS
<1> USE Kinds, SameMessages DEF QueuesTypeOK, CliReads, ctlVars
<1>1. CASE Cli!ReadMessage
  BY <1>1, HeadTailProperties, AppendProperties DEF Cli!ReadMessage, Cli!writerVars
<1>2. CASE Cli!ReadPing
  <2>1. cliTx' = cliTx \/ cliTx' = Append(cliTx, Pong)
    BY <1>2 DEF Cli!ReadPing
  <2>2. cliRx' \in Seq((CtlMessages \ {Quit}) \cup {Closed}) /\ toCli' \in Seq(CtlMessages)
    BY <1>2, HeadTailProperties, AppendProperties DEF Cli!ReadPing
  <2>3. cliTx' \in Seq(CliMessages)
    BY <2>1, MoreType
  <2> QED
    BY <1>2, <2>2, <2>3 DEF Cli!ReadPing
<1>3. CASE Cli!ReadQuit
  BY <1>3, HeadTailProperties, AppendProperties DEF Cli!ReadQuit, Cli!writerVars
<1>4. CASE Cli!ReadFails
  BY <1>4, AppendProperties DEF Cli!ReadFails, Cli!writerVars
<1> QED
  BY <1>1, <1>2, <1>3, <1>4 DEF Cli!Reader

LEMMA WritesQueues == QueuesTypeOK /\ (CtlWrites \/ CtlBeats \/ CliWrites) => QueuesTypeOK'
<1> SUFFICES ASSUME QueuesTypeOK, CtlWrites \/ CtlBeats \/ CliWrites PROVE QueuesTypeOK'
  OBVIOUS
<1> USE DEF QueuesTypeOK, cliVars, ctlVars
<1>1. CASE CtlWrites /\ Ctl!Write
  <2>1. toCli' = toCli \/ toCli' = Append(toCli, Head(ctlTx))
    BY <1>1 DEF Ctl!Write, Ctl!PutOnWire
  <2>2. Head(ctlTx) \in CtlPosts /\ ctlTx' \in Seq(CtlPosts)
    BY <1>1, HeadTailProperties DEF Ctl!Write
  <2>3. toCli' \in Seq(CtlMessages)
    BY <2>1, <2>2, MoreType
  <2> QED
    BY <1>1, <2>2, <2>3 DEF Ctl!Write, Ctl!readerVars, CtlWrites
<1>2. CASE CtlWrites /\ Ctl!WriterGone
  BY <1>2, EmptySeq DEF Ctl!WriterGone, Ctl!readerVars, CtlWrites
<1>3. CASE CtlBeats
  <2>1. toCli' = toCli \/ toCli' = Append(toCli, Ping)
    BY <1>3, SameMessages DEF CtlBeats, Ctl!Beat, Ctl!PutOnWire
  <2>2. toCli' \in Seq(CtlMessages)
    BY <2>1, MoreType
  <2> QED
    BY <1>3, <2>2 DEF CtlBeats, Ctl!Beat, Ctl!readerVars, Ctl!writerVars
<1>4. CASE CliWrites /\ Cli!Write
  <2>1. toCtl' = toCtl \/ toCtl' = Append(toCtl, Head(cliTx))
    BY <1>4 DEF Cli!Write, Cli!PutOnWire
  <2>2. Head(cliTx) \in CliMessages /\ cliTx' \in Seq(CliMessages)
    BY <1>4, HeadTailProperties DEF Cli!Write
  <2>3. toCtl' \in Seq(CliMessages)
    BY <2>1, <2>2, MoreType
  <2> QED
    BY <1>4, <2>2, <2>3 DEF Cli!Write, Cli!readerVars, CliWrites
<1>5. CASE CliWrites /\ Cli!WriterGone
  BY <1>5, EmptySeq DEF Cli!WriterGone, Cli!readerVars, CliWrites
<1> QED
  BY <1>1, <1>2, <1>3, <1>4, <1>5
  DEF CtlWrites, CliWrites, Ctl!WriteFails, Ctl!BeatFails, Cli!WriteFails

\* The loops and the connection.
Loops ==
  \/ \E m \in CtlPosts : CtlLoopPosts(m)
  \/ \E m \in CliPosts : CliLoopPosts(m)
  \/ CtlLoopTakes \/ CliLoopTakes \/ CtlExits \/ CliExits

Connection == CtlCloses \/ CliCloses \/ Silence \/ CtlGivesUp \/ CliGivesUp

LEMMA LoopsQueues == QueuesTypeOK /\ Loops => QueuesTypeOK'
<1> SUFFICES ASSUME QueuesTypeOK, Loops PROVE QueuesTypeOK'
  OBVIOUS
<1> USE EmptySeq, HeadTailProperties, AppendProperties
    DEF QueuesTypeOK, cliVars, ctlVars, wires
<1>1. ASSUME NEW m \in CtlPosts, CtlLoopPosts(m) PROVE QueuesTypeOK'
  BY <1>1 DEF CtlLoopPosts
<1>2. ASSUME NEW m \in CliPosts, CliLoopPosts(m) PROVE QueuesTypeOK'
  BY <1>2 DEF CliLoopPosts
<1>3. CASE CtlLoopTakes
  BY <1>3 DEF CtlLoopTakes
<1>4. CASE CliLoopTakes
  <2>1. cliTx' = cliTx \/ cliTx' = Append(cliTx, Pong)
    BY <1>4 DEF CliLoopTakes
  <2>2. cliTx' \in Seq(CliMessages)
    BY <2>1, MoreType
  <2> QED
    BY <1>4, <2>2 DEF CliLoopTakes
<1>5. CASE CtlExits
  BY <1>5 DEF CtlExits, Ctl!Exit
<1>6. CASE CliExits
  BY <1>6 DEF CliExits, Cli!Exit
<1> QED
  BY <1>1, <1>2, <1>3, <1>4, <1>5, <1>6 DEF Loops

LEMMA ConnectionQueues == QueuesTypeOK /\ Connection => QueuesTypeOK'
<1> SUFFICES ASSUME QueuesTypeOK, Connection PROVE QueuesTypeOK'
  OBVIOUS
<1> USE EmptySeq, PrefixType DEF QueuesTypeOK, cliVars, ctlVars
<1>1. CASE CtlCloses
  BY <1>1 DEF CtlCloses
<1>2. CASE CliCloses
  BY <1>2 DEF CliCloses
<1>3. CASE Silence
  BY <1>3 DEF Silence
<1>4. CASE CtlGivesUp
  BY <1>4 DEF CtlGivesUp, Ctl!GiveUp, Ctl!readerVars, Ctl!writerVars
<1>5. CASE CliGivesUp
  BY <1>5 DEF CliGivesUp, Cli!GiveUp, Cli!readerVars, Cli!writerVars
<1> QED
  BY <1>1, <1>2, <1>3, <1>4, <1>5 DEF Connection

LEMMA NextCases ==
  ASSUME Next
  PROVE  \/ CtlReads \/ CliReads \/ CtlWrites \/ CtlBeats \/ CliWrites
         \/ Loops \/ Connection
BY DEF Next, Loops, Connection

\* The names of every action, for the parts of the invariant that do not look
\* into the queues.
LEMMA FlagsStep == FlagsTypeOK /\ unanswered \in Int /\ Next => FlagsTypeOK' /\ unanswered' \in Int
<1> SUFFICES ASSUME FlagsTypeOK, unanswered \in Int, Next
             PROVE  FlagsTypeOK' /\ unanswered' \in Int
  OBVIOUS
<1> USE SessionAssumption DEF FlagsTypeOK, ctlVars, cliVars, wires
<1>1. CASE CtlReads
  BY <1>1 DEF CtlReads, Ctl!Reader, Ctl!ReadMessage, Ctl!ReadPing, Ctl!ReadQuit, Ctl!ReadFails,
              Ctl!writerVars, Ctl!connVars
<1>2. CASE CliReads
  BY <1>2 DEF CliReads, Cli!Reader, Cli!ReadMessage, Cli!ReadPing, Cli!ReadQuit, Cli!ReadFails,
              Cli!writerVars, Cli!connVars
<1>3. CASE CtlWrites
  BY <1>3 DEF CtlWrites, Ctl!Write, Ctl!PutOnWire, Ctl!WriteFails, Ctl!BeatFails,
              Ctl!WriterGone, Ctl!readerVars, Ctl!connVars
<1>4. CASE CtlBeats
  <2>1. unanswered' = unanswered \/ unanswered' = unanswered + 2
    BY <1>4 DEF CtlBeats
  <2>2. UNCHANGED <<ctlReading, ctlWriting, ctlBroken, cliVars, link, posts>>
    BY <1>4 DEF CtlBeats, Ctl!Beat, Ctl!readerVars, Ctl!writerVars, Ctl!connVars
  <2>3. ctlUnacked' = ctlUnacked \/ ctlUnacked' = TRUE
    BY <1>4 DEF CtlBeats, Ctl!Beat, Ctl!PutOnWire
  <2>4. ctlUnacked' \in BOOLEAN
    BY <2>3
  <2>5. unanswered' \in Int
    BY <2>1
  <2> QED
    BY <2>2, <2>4, <2>5
<1>5. CASE CliWrites
  BY <1>5 DEF CliWrites, Cli!Write, Cli!PutOnWire, Cli!WriteFails, Cli!WriterGone,
              Cli!readerVars, Cli!connVars
<1>6. CASE Loops
  <2>1. ASSUME NEW m, CtlLoopPosts(m) \/ CliLoopPosts(m)
        PROVE  FlagsTypeOK' /\ unanswered' \in Int
    BY <2>1 DEF CtlLoopPosts, CliLoopPosts
  <2>2. CASE CtlLoopTakes
    <3>1. unanswered' = unanswered - 1 \/ unanswered' = unanswered - 0
      BY <2>2 DEF CtlLoopTakes
    <3> QED
      BY <2>2, <3>1 DEF CtlLoopTakes
  <2>3. CASE CliLoopTakes \/ CtlExits \/ CliExits
    BY <2>3 DEF CliLoopTakes, CtlExits, CliExits, Ctl!Exit, Cli!Exit, Ctl!connVars, Cli!connVars
  <2> QED
    BY <1>6, <2>1, <2>2, <2>3 DEF Loops
<1>7. CASE Connection
  BY <1>7 DEF Connection, CtlCloses, CliCloses, Silence, CtlGivesUp, CliGivesUp, Ctl!GiveUp,
              Cli!GiveUp, Ctl!readerVars, Ctl!writerVars, Cli!readerVars, Cli!writerVars
<1> QED
  BY <1>1, <1>2, <1>3, <1>4, <1>5, <1>6, <1>7, NextCases

LEMMA TypeStep == TypeOK /\ Next => TypeOK'
BY CtlReadsQueues, CliReadsQueues, WritesQueues, LoopsQueues, ConnectionQueues, NextCases,
   FlagsStep DEF TypeOK

-----------------------------------------------------------------------------
\* Closed.

LEMMA MoreThenClosed ==
  ASSUME NEW S, NEW rx \in Seq(S), ClosedIsLast(rx, TRUE)
  PROVE  /\ \A e \in S \ {Closed} : ClosedIsLast(Append(rx, e), TRUE)
         /\ Closed \in S => ClosedIsLast(Append(rx, Closed), FALSE)
<1>1. \A i \in 1 .. Len(rx) : rx[i] # Closed
  BY DEF ClosedIsLast
<1> QED
  BY <1>1, AppendProperties DEF ClosedIsLast

LEMMA LessThenClosed ==
  ASSUME NEW S, NEW rx \in Seq(S), rx # <<>>, NEW r, ClosedIsLast(rx, r)
  PROVE  ClosedIsLast(Tail(rx), r)
BY HeadTailProperties, LenProperties DEF ClosedIsLast

\* Only the two reader tasks, the two loops and the end of a program touch
\* what a loop has been told.
LEMMA ClosedStep == TypeOK /\ ClosedIsTheLast /\ Next => ClosedIsTheLast'
<1> SUFFICES ASSUME TypeOK, ClosedIsTheLast, Next PROVE ClosedIsTheLast'
  OBVIOUS
<1> DEFINE CtlTold == ClosedIsLast(ctlRx, ctlReading)
           CliTold == ClosedIsLast(cliRx, cliReading)
<1>0. UNCHANGED <<ctlRx, ctlReading>> => CtlTold'
  BY DEF ClosedIsTheLast, ClosedIsLast
<1>00. UNCHANGED <<cliRx, cliReading>> => CliTold'
  BY DEF ClosedIsTheLast, ClosedIsLast
<1>1. CASE CtlReads
  <2>1. ctlReading = TRUE
    BY <1>1 DEF CtlReads, Ctl!Reader, Ctl!ReadMessage, Ctl!ReadPing, Ctl!ReadQuit, Ctl!ReadFails,
                TypeOK, FlagsTypeOK
  <2>2. \/ \E e \in CliMessages \ {Quit} : ctlRx' = Append(ctlRx, e) /\ ctlReading' = ctlReading
        \/ ctlRx' = Append(ctlRx, Closed) /\ ctlReading' = FALSE
    BY <1>1, HeadTailProperties, SameMessages, Kinds
    DEF CtlReads, Ctl!Reader, Ctl!ReadMessage, Ctl!ReadPing, Ctl!ReadQuit, Ctl!ReadFails,
        TypeOK, QueuesTypeOK
  <2> DEFINE S == (CliMessages \ {Quit}) \cup {Closed}
  <2>3. ctlRx \in Seq(S) /\ ClosedIsLast(ctlRx, TRUE)
    BY <2>1 DEF TypeOK, QueuesTypeOK, ClosedIsTheLast
  <2>4. /\ \A e \in S \ {Closed} : ClosedIsLast(Append(ctlRx, e), TRUE)
        /\ ClosedIsLast(Append(ctlRx, Closed), FALSE)
    BY <2>3, MoreThenClosed
  <2>5. \A e \in CliMessages \ {Quit} : e \in S \ {Closed}
    BY SessionAssumption, Kinds
  <2>6. CtlTold'
    BY <2>1, <2>2, <2>4, <2>5
  <2> QED
    BY <1>1, <1>00, <2>6 DEF CtlReads, cliVars, ClosedIsTheLast
<1>2. CASE CliReads
  <2>1. cliReading = TRUE
    BY <1>2 DEF CliReads, Cli!Reader, Cli!ReadMessage, Cli!ReadPing, Cli!ReadQuit, Cli!ReadFails,
                TypeOK, FlagsTypeOK
  <2>2. \/ \E e \in CtlMessages \ {Quit} : cliRx' = Append(cliRx, e) /\ cliReading' = cliReading
        \/ cliRx' = Append(cliRx, Closed) /\ cliReading' = FALSE
    BY <1>2, HeadTailProperties, SameMessages, Kinds
    DEF CliReads, Cli!Reader, Cli!ReadMessage, Cli!ReadPing, Cli!ReadQuit, Cli!ReadFails,
        TypeOK, QueuesTypeOK
  <2> DEFINE S == (CtlMessages \ {Quit}) \cup {Closed}
  <2>3. cliRx \in Seq(S) /\ ClosedIsLast(cliRx, TRUE)
    BY <2>1 DEF TypeOK, QueuesTypeOK, ClosedIsTheLast
  <2>4. /\ \A e \in S \ {Closed} : ClosedIsLast(Append(cliRx, e), TRUE)
        /\ ClosedIsLast(Append(cliRx, Closed), FALSE)
    BY <2>3, MoreThenClosed
  <2>5. \A e \in CtlMessages \ {Quit} : e \in S \ {Closed}
    BY SessionAssumption, Kinds
  <2>6. CliTold'
    BY <2>1, <2>2, <2>4, <2>5
  <2> QED
    BY <1>2, <1>0, <2>6 DEF CliReads, ctlVars, ClosedIsTheLast
<1>3. CASE CtlWrites \/ CtlBeats \/ CliWrites
  BY <1>3, <1>0, <1>00
  DEF CtlWrites, CtlBeats, CliWrites, Ctl!Write, Ctl!WriteFails, Ctl!BeatFails, Ctl!WriterGone,
      Ctl!Beat, Cli!Write, Cli!WriteFails, Cli!WriterGone, Ctl!readerVars, Cli!readerVars,
      ctlVars, cliVars, ClosedIsTheLast
<1>4. CASE CtlLoopTakes
  BY <1>4, <1>00, LessThenClosed
  DEF CtlLoopTakes, cliVars, TypeOK, QueuesTypeOK, ClosedIsTheLast
<1>5. CASE CliLoopTakes
  BY <1>5, <1>0, LessThenClosed
  DEF CliLoopTakes, ctlVars, TypeOK, QueuesTypeOK, ClosedIsTheLast
<1>6. CASE CtlExits
  BY <1>6, <1>00 DEF CtlExits, Ctl!Exit, cliVars, ClosedIsTheLast, ClosedIsLast
<1>7. CASE CliExits
  BY <1>7, <1>0 DEF CliExits, Cli!Exit, ctlVars, ClosedIsTheLast, ClosedIsLast
<1>8. CASE Connection \/ (\E m \in CtlPosts : CtlLoopPosts(m)) \/ (\E m \in CliPosts : CliLoopPosts(m))
  BY <1>8, <1>0, <1>00
  DEF Connection, CtlCloses, CliCloses, Silence, CtlGivesUp, CliGivesUp, Ctl!GiveUp, Cli!GiveUp,
      Ctl!readerVars, Cli!readerVars, CtlLoopPosts, CliLoopPosts, ctlVars, cliVars,
      ClosedIsTheLast
<1> QED
  BY <1>1, <1>2, <1>3, <1>4, <1>5, <1>6, <1>7, <1>8, NextCases DEF Loops

-----------------------------------------------------------------------------
\* The messages of a kind that a queue holds.

Count(q, m) == Cardinality({i \in 1 .. Len(q) : q[i] = m})

LEMMA CountEmpty == \A m : Count(<<>>, m) = 0
<1> SUFFICES ASSUME NEW m PROVE Count(<<>>, m) = 0
  OBVIOUS
<1>1. {i \in 1 .. Len(<<>>) : <<>>[i] = m} = {}
  OBVIOUS
<1> QED
  BY <1>1, FS_EmptySet DEF Count

LEMMA PlacesFinite ==
  ASSUME NEW S, NEW q \in Seq(S), NEW m, NEW T \in SUBSET (1 .. Len(q))
  PROVE  IsFiniteSet(T) /\ Cardinality(T) \in Nat
<1>1. IsFiniteSet(1 .. Len(q))
  BY LenProperties, FS_Interval
<1>2. IsFiniteSet(T)
  BY <1>1, FS_Subset
<1> QED
  BY <1>2, FS_CardinalityType

LEMMA CountAppend ==
  ASSUME NEW S, NEW q \in Seq(S), NEW e \in S, NEW m
  PROVE  Count(Append(q, e), m) = Count(q, m) + (IF e = m THEN 1 ELSE 0)
<1> DEFINE T == {i \in 1 .. Len(q) : q[i] = m}
           U == {i \in 1 .. Len(Append(q, e)) : Append(q, e)[i] = m}
<1>1. IsFiniteSet(T) /\ Cardinality(T) \in Nat
  BY PlacesFinite
<1>2. U = IF e = m THEN T \cup {Len(q) + 1} ELSE T
  BY AppendProperties, LenProperties
<1>3. Len(q) + 1 \notin T
  BY LenProperties
<1> HIDE DEF T, U
<1>4. Cardinality(T \cup {Len(q) + 1}) = Cardinality(T) + 1
  BY <1>1, <1>3, FS_AddElement
<1>5. Count(q, m) = Cardinality(T) /\ Count(Append(q, e), m) = Cardinality(U)
  BY DEF Count, T, U
<1> QED
  BY <1>1, <1>2, <1>4, <1>5

LEMMA CountTail ==
  ASSUME NEW S, NEW q \in Seq(S), q # <<>>, NEW m
  PROVE  Count(q, m) = Count(Tail(q), m) + (IF Head(q) = m THEN 1 ELSE 0)
<1> DEFINE T == {i \in 1 .. Len(Tail(q)) : Tail(q)[i] = m}
           U == {i \in 1 .. Len(q) : q[i] = m}
           f == [i \in T |-> i + 1]
<1>1. /\ Len(q) \in Nat \ {0} /\ Len(Tail(q)) = Len(q) - 1 /\ Tail(q) \in Seq(S)
      /\ Head(q) = q[1] /\ \A i \in 1 .. Len(Tail(q)) : Tail(q)[i] = q[i + 1]
  BY HeadTailProperties, EmptySeq
<1>2. IsFiniteSet(T) /\ IsFiniteSet(U) /\ Cardinality(T) \in Nat /\ Cardinality(U) \in Nat
  BY <1>1, PlacesFinite
<1>3. f \in Bijection(T, U \ {1})
  <2>1. ASSUME NEW j \in U \ {1} PROVE j - 1 \in T /\ f[j - 1] = j
    BY <1>1
  <2>2. f \in [T -> U \ {1}]
    BY <1>1
  <2>3. \A i, j \in T : f[i] = f[j] => i = j
    BY <1>1
  <2>4. f \in Injection(T, U \ {1})
    BY <2>2, <2>3 DEF Injection, IsInjective
  <2>5. f \in Surjection(T, U \ {1})
    BY <2>1, <2>2 DEF Surjection
  <2> QED
    BY <2>4, <2>5 DEF Bijection
<1>4. Cardinality(U \ {1}) = Cardinality(T)
  BY <1>2, <1>3, FS_Bijection, ZenonT(60) DEF ExistsBijection
<1>5. Cardinality(U \ {1}) = IF 1 \in U THEN Cardinality(U) - 1 ELSE Cardinality(U)
  BY <1>2, FS_RemoveElement
<1>6. 1 \in U <=> Head(q) = m
  BY <1>1
<1>7. Count(Tail(q), m) = Cardinality(T) /\ Count(q, m) = Cardinality(U)
  BY DEF Count
<1> HIDE DEF T, U, f
<1> QED
  BY <1>2, <1>4, <1>5, <1>6, <1>7

LEMMA CountType ==
  ASSUME NEW S, NEW q \in Seq(S), NEW m
  PROVE  Count(q, m) \in Nat
BY PlacesFinite DEF Count

-----------------------------------------------------------------------------
\* Ping and Pong.

InOrder == link = "up" /\ ctlReading /\ ctlWriting /\ cliReading /\ cliWriting

\* The Pong still due: two for a Ping that has not been read, one for a Ping the
\* loop has not taken, and those on their way in three queues.
Owed ==
  2 * Count(toCli, Ping) + Count(cliRx, Ping) + Count(cliTx, Pong)
    + Count(toCtl, Pong) + Count(ctlRx, Pong)

PongsOwed == InOrder => unanswered = Owed

LEMMA CountsType ==
  ASSUME QueuesTypeOK
  PROVE  /\ Count(toCli, Ping) \in Nat /\ Count(cliRx, Ping) \in Nat
         /\ Count(cliTx, Pong) \in Nat
         /\ Count(toCtl, Pong) \in Nat /\ Count(ctlRx, Pong) \in Nat
BY CountType DEF QueuesTypeOK

\* A message that goes from one of the queues to the next.
LEMMA CountMoved ==
  ASSUME NEW S, NEW q \in Seq(S), NEW T, NEW r \in Seq(T), q # <<>>, Head(q) \in T, NEW m
  PROVE  Count(Tail(q), m) + Count(Append(r, Head(q)), m) = Count(q, m) + Count(r, m)
<1>1. Count(q, m) \in Nat /\ Count(Tail(q), m) \in Nat /\ Count(r, m) \in Nat
  BY CountType, HeadTailProperties
<1>2. Count(q, m) = Count(Tail(q), m) + (IF Head(q) = m THEN 1 ELSE 0)
  BY CountTail
<1>3. Count(Append(r, Head(q)), m) = Count(r, m) + (IF Head(q) = m THEN 1 ELSE 0)
  BY CountAppend
<1> QED
  BY <1>1, <1>2, <1>3

LEMMA CountOthers ==
  ASSUME NEW S, NEW q \in Seq(S), NEW m
  PROVE  /\ \A e \in S \ {m} : Count(Append(q, e), m) = Count(q, m)
         /\ q # <<>> /\ Head(q) # m => Count(Tail(q), m) = Count(q, m)
<1>1. ASSUME NEW e \in S \ {m} PROVE Count(Append(q, e), m) = Count(q, m)
  BY CountAppend, CountType
<1>2. ASSUME q # <<>>, Head(q) # m PROVE Count(Tail(q), m) = Count(q, m)
  <2>1. Count(q, m) = Count(Tail(q), m) + 0
    BY <1>2, CountTail
  <2>2. Count(Tail(q), m) \in Nat
    BY <1>2, CountType, HeadTailProperties
  <2> QED
    BY <2>1, <2>2
<1> QED
  BY <1>1, <1>2

\* The client's end tells its loop of a Ping, and answers it a first time.
LEMMA PongReads ==
  ASSUME TypeOK, TypeOK', PongsOwed, InOrder', CliReads
  PROVE  unanswered' = Owed'
<1>1. QueuesTypeOK /\ QueuesTypeOK'
  BY DEF TypeOK
<1>2. Cli!ReadMessage \/ Cli!ReadPing
  BY DEF InOrder, CliReads, Cli!Reader, Cli!ReadQuit, Cli!ReadFails
<1>3. /\ InOrder /\ toCli # <<>> /\ toCli' = Tail(toCli)
      /\ UNCHANGED <<unanswered, toCtl, ctlRx>>
  BY <1>2
  DEF CliReads, Cli!ReadMessage, Cli!ReadPing, Cli!writerVars, Cli!connVars, ctlVars, InOrder
<1>4. /\ Count(toCli, Ping) \in Nat /\ Count(cliRx, Ping) \in Nat
      /\ Count(cliTx, Pong) \in Nat /\ Count(toCtl, Pong) \in Nat
      /\ Count(ctlRx, Pong) \in Nat /\ Count(toCli', Ping) \in Nat
  BY <1>1, CountType DEF QueuesTypeOK
<1> DEFINE T == (CtlMessages \ {Quit}) \cup {Closed}
<1>5. cliRx \in Seq(T) /\ toCli \in Seq(CtlMessages) /\ cliTx \in Seq(CliMessages)
  BY <1>1 DEF QueuesTypeOK
<1>6. CASE Cli!ReadMessage
  <2>1. /\ Head(toCli) \notin {Ping, Quit} /\ UNCHANGED cliTx
        /\ cliRx' = Append(cliRx, Head(toCli))
    BY <1>6, SameMessages DEF Cli!ReadMessage, Cli!writerVars
  <2>2. Head(toCli) \in CtlMessages
    BY <1>3, <1>5, HeadTailProperties
  <2>3. Head(toCli) \in T \ {Ping}
    BY <2>1, <2>2
  <2>4. Count(toCli', Ping) = Count(toCli, Ping)
    BY <1>3, <1>5, <2>1, CountOthers
  <2> HIDE DEF T
  <2>5. Count(cliRx', Ping) = Count(cliRx, Ping)
    BY <1>5, <2>1, <2>3, CountOthers
  <2> QED
    BY <1>3, <2>1, <2>4, <2>5 DEF PongsOwed, Owed
<1>7. CASE Cli!ReadPing
  <2>1. /\ Head(toCli) = Ping /\ cliTx' = Append(cliTx, Pong)
        /\ cliRx' = Append(cliRx, Ping)
    BY <1>3, <1>7, SameMessages DEF Cli!ReadPing, InOrder
  <2>2. Ping \in T /\ Pong \in CliMessages
    BY Kinds
  <2> HIDE DEF T
  <2>3. Count(toCli, Ping) = Count(toCli', Ping) + 1
    BY <1>3, <1>5, <2>1, CountTail
  <2>4. Count(cliTx', Pong) = Count(cliTx, Pong) + (IF Pong = Pong THEN 1 ELSE 0)
    BY <1>5, <2>1, <2>2, CountAppend
  <2>5. Count(cliRx', Ping) = Count(cliRx, Ping) + (IF Ping = Ping THEN 1 ELSE 0)
    BY <1>5, <2>1, <2>2, CountAppend
  <2>6. unanswered = Owed
    BY <1>3 DEF PongsOwed
  <2>7. /\ unanswered' = unanswered
        /\ Count(toCtl', Pong) = Count(toCtl, Pong) /\ Count(ctlRx', Pong) = Count(ctlRx, Pong)
    BY <1>3
  <2>8. /\ Count(cliTx', Pong) = Count(cliTx, Pong) + 1
        /\ Count(cliRx', Ping) = Count(cliRx, Ping) + 1
    BY <2>4, <2>5
  <2> QED
    BY <1>4, <2>3, <2>6, <2>7, <2>8 DEF Owed
<1> QED
  BY <1>2, <1>6, <1>7

\* The client's loop answers a Ping a second time.
LEMMA PongTakes ==
  ASSUME TypeOK, TypeOK', PongsOwed, InOrder', CliLoopTakes
  PROVE  unanswered' = Owed'
<1>1. /\ InOrder /\ cliRx # <<>> /\ cliRx' = Tail(cliRx)
      /\ UNCHANGED <<unanswered, toCli, toCtl, ctlRx>>
      /\ cliTx' = IF Head(cliRx) = Ping THEN Append(cliTx, Pong) ELSE cliTx
  BY DEF CliLoopTakes, InOrder, ctlVars, wires
<1>2. /\ cliRx \in Seq((CtlMessages \ {Quit}) \cup {Closed})
      /\ cliTx \in Seq(CliMessages) /\ Pong \in CliMessages
  BY DEF TypeOK, QueuesTypeOK
<1>3. /\ Count(toCli, Ping) \in Nat /\ Count(cliRx, Ping) \in Nat
      /\ Count(cliTx, Pong) \in Nat /\ Count(toCtl, Pong) \in Nat
      /\ Count(ctlRx, Pong) \in Nat /\ Count(cliRx', Ping) \in Nat
  BY CountType DEF TypeOK, QueuesTypeOK
<1>4. Count(cliRx, Ping) = Count(cliRx', Ping) + (IF Head(cliRx) = Ping THEN 1 ELSE 0)
  BY <1>1, <1>2, CountTail
<1>5. Count(Append(cliTx, Pong), Pong) = Count(cliTx, Pong) + (IF Pong = Pong THEN 1 ELSE 0)
  BY <1>2, CountAppend
<1>6. Count(cliTx', Pong) = Count(cliTx, Pong) + (IF Head(cliRx) = Ping THEN 1 ELSE 0)
  BY <1>1, <1>3, <1>5
<1>7. unanswered = Owed
  BY <1>1 DEF PongsOwed
<1>8. /\ unanswered' = unanswered /\ Count(toCli', Ping) = Count(toCli, Ping)
      /\ Count(toCtl', Pong) = Count(toCtl, Pong) /\ Count(ctlRx', Pong) = Count(ctlRx, Pong)
  BY <1>1
<1> QED
  BY <1>3, <1>4, <1>6, <1>7, <1>8 DEF Owed

LEMMA PongStep == TypeOK /\ TypeOK' /\ PongsOwed /\ Next => PongsOwed'
<1> SUFFICES ASSUME TypeOK, TypeOK', PongsOwed, Next, InOrder'
             PROVE  unanswered' = Owed'
  BY DEF PongsOwed
<1>1. QueuesTypeOK /\ QueuesTypeOK'
  BY DEF TypeOK
<1>2. /\ Count(toCli, Ping) \in Nat /\ Count(cliRx, Ping) \in Nat
      /\ Count(cliTx, Pong) \in Nat
      /\ Count(toCtl, Pong) \in Nat /\ Count(ctlRx, Pong) \in Nat
  BY <1>1, CountsType
<1>3. CASE CtlReads
  <2>0. toCtl # <<>> => Head(toCtl) # Ping
    <3>1. toCtl # <<>> => Head(toCtl) \in CliMessages
      BY <1>1, HeadTailProperties DEF QueuesTypeOK
    <3>2. Ping \notin CliMessages
      BY SessionAssumption, Kinds
    <3> QED
      BY <3>1, <3>2
  <2>1. Ctl!ReadMessage
    BY <1>3, <2>0, SameMessages
    DEF InOrder, CtlReads, Ctl!Reader, Ctl!ReadPing, Ctl!ReadQuit, Ctl!ReadFails
  <2>2. /\ toCtl # <<>> /\ toCtl' = Tail(toCtl) /\ ctlRx' = Append(ctlRx, Head(toCtl))
        /\ Head(toCtl) # Quit
        /\ UNCHANGED <<unanswered, toCli, cliTx, link, ctlWriting, ctlReading, cliVars>>
    BY <1>3, <2>1, SameMessages
    DEF CtlReads, Ctl!ReadMessage, Ctl!writerVars, Ctl!connVars, cliVars
  <2>3. Head(toCtl) \in CliMessages \ {Quit}
    BY <1>1, <2>2, HeadTailProperties DEF QueuesTypeOK
  <2>4. Count(toCtl', Pong) + Count(ctlRx', Pong) = Count(toCtl, Pong) + Count(ctlRx, Pong)
    <3> DEFINE T == (CliMessages \ {Quit}) \cup {Closed}
    <3>1. ctlRx \in Seq(T) /\ Head(toCtl) \in T /\ toCtl \in Seq(CliMessages)
      BY <1>1, <2>3 DEF QueuesTypeOK
    <3> HIDE DEF T
    <3> QED
      BY <2>2, <3>1, CountMoved
  <2>5. Count(toCtl', Pong) \in Nat /\ Count(ctlRx', Pong) \in Nat
    BY <1>1, CountType DEF QueuesTypeOK
  <2>6. InOrder
    BY <2>2 DEF InOrder, cliVars
  <2>7. unanswered = Owed
    BY <2>6 DEF PongsOwed
  <2>8. /\ unanswered' = unanswered
        /\ Count(toCli', Ping) = Count(toCli, Ping) /\ Count(cliTx', Pong) = Count(cliTx, Pong)
        /\ Count(cliRx', Ping) = Count(cliRx, Ping)
    BY <2>2 DEF cliVars
  <2> QED
    BY <1>2, <2>4, <2>5, <2>7, <2>8, SMTT(40) DEF Owed
<1>4. CASE CliReads
  BY <1>4, PongReads
<1>5. CASE CtlWrites
  <2>1. Ctl!Write
    BY <1>5 DEF InOrder, CtlWrites, Ctl!WriteFails, Ctl!BeatFails, Ctl!WriterGone
  <2>2. /\ InOrder /\ ctlTx # <<>> /\ UNCHANGED <<unanswered, cliRx, cliTx, toCtl, ctlRx>>
        /\ toCli' = Append(toCli, Head(ctlTx))
    BY <1>5, <2>1
    DEF InOrder, CtlWrites, Ctl!Write, Ctl!PutOnWire, Ctl!readerVars, Ctl!connVars, cliVars
  <2>3. Head(ctlTx) \in CtlMessages \ {Ping}
    BY <1>1, <2>2, SessionAssumption, HeadTailProperties DEF QueuesTypeOK
  <2>4. Count(toCli', Ping) = Count(toCli, Ping)
    BY <1>1, <2>2, <2>3, CountOthers DEF QueuesTypeOK
  <2> QED
    BY <2>2, <2>4 DEF PongsOwed, Owed
<1>6. CASE CtlBeats
  <2>1. /\ InOrder /\ UNCHANGED <<cliRx, cliTx, toCtl, ctlRx>>
        /\ unanswered' = unanswered + 2 /\ toCli' = Append(toCli, Ping)
    BY <1>6, SameMessages
    DEF InOrder, CtlBeats, Ctl!Beat, Ctl!PutOnWire, Ctl!readerVars, Ctl!writerVars,
        Ctl!connVars, cliVars
  <2>2. Count(toCli', Ping) = Count(toCli, Ping) + 1
    BY <1>1, <2>1, CountAppend, SMTT(40) DEF QueuesTypeOK
  <2>3. unanswered = Owed
    BY <2>1 DEF PongsOwed
  <2>4. /\ Count(cliRx', Ping) = Count(cliRx, Ping) /\ Count(cliTx', Pong) = Count(cliTx, Pong)
        /\ Count(toCtl', Pong) = Count(toCtl, Pong) /\ Count(ctlRx', Pong) = Count(ctlRx, Pong)
    BY <2>1
  <2> QED
    BY <1>2, <2>1, <2>2, <2>3, <2>4, SMTT(40) DEF Owed
<1>7. CASE CliWrites
  <2>1. Cli!Write
    BY <1>7 DEF InOrder, CliWrites, Cli!WriteFails, Cli!WriterGone
  <2>2. /\ InOrder /\ cliTx # <<>> /\ UNCHANGED <<unanswered, cliRx, toCli, ctlRx>>
        /\ cliTx' = Tail(cliTx) /\ toCtl' = Append(toCtl, Head(cliTx))
    BY <1>7, <2>1
    DEF InOrder, CliWrites, Cli!Write, Cli!PutOnWire, Cli!readerVars, Cli!connVars, ctlVars
  <2>3. Head(cliTx) \in CliMessages
    BY <1>1, <2>2, HeadTailProperties DEF QueuesTypeOK
  <2>4. Count(cliTx', Pong) + Count(toCtl', Pong) = Count(cliTx, Pong) + Count(toCtl, Pong)
    BY <1>1, <2>2, <2>3, CountMoved DEF QueuesTypeOK
  <2>5. Count(cliTx', Pong) \in Nat /\ Count(toCtl', Pong) \in Nat
    BY <1>1, CountType DEF QueuesTypeOK
  <2>6. unanswered = Owed
    BY <2>2 DEF PongsOwed
  <2>7. /\ unanswered' = unanswered /\ Count(cliRx', Ping) = Count(cliRx, Ping)
        /\ Count(toCli', Ping) = Count(toCli, Ping) /\ Count(ctlRx', Pong) = Count(ctlRx, Pong)
    BY <2>2
  <2> QED
    BY <1>2, <2>4, <2>5, <2>6, <2>7, SMTT(40) DEF Owed
<1>8. ASSUME NEW m \in CliPosts, CliLoopPosts(m) PROVE unanswered' = Owed'
  <2>1. /\ InOrder /\ UNCHANGED <<unanswered, cliRx, toCli, toCtl, ctlRx>>
        /\ cliTx' = Append(cliTx, m)
    BY <1>8 DEF CliLoopPosts, InOrder, ctlVars, wires
  <2>2. Count(cliTx', Pong) = Count(cliTx, Pong)
    BY <1>1, <2>1, CountOthers, SessionAssumption DEF QueuesTypeOK
  <2> QED
    BY <2>1, <2>2 DEF PongsOwed, Owed
<1>9. CASE CtlLoopTakes
  <2>1. /\ InOrder /\ UNCHANGED <<toCli, cliRx, cliTx, toCtl>>
        /\ ctlRx # <<>> /\ ctlRx' = Tail(ctlRx)
        /\ unanswered' = unanswered - (IF Head(ctlRx) = Pong THEN 1 ELSE 0)
    BY <1>9 DEF CtlLoopTakes, InOrder, cliVars, wires
  <2>2. Count(ctlRx, Pong) = Count(ctlRx', Pong) + (IF Head(ctlRx) = Pong THEN 1 ELSE 0)
    BY <1>1, <2>1, CountTail DEF QueuesTypeOK
  <2>3. Count(ctlRx', Pong) \in Nat
    BY <1>1, CountType DEF QueuesTypeOK
  <2>4. unanswered = Owed
    BY <2>1 DEF PongsOwed
  <2>5. /\ Count(toCli', Ping) = Count(toCli, Ping) /\ Count(cliRx', Ping) = Count(cliRx, Ping)
        /\ Count(cliTx', Pong) = Count(cliTx, Pong) /\ Count(toCtl', Pong) = Count(toCtl, Pong)
    BY <2>1
  <2> QED
    BY <1>2, <2>1, <2>2, <2>3, <2>4, <2>5, SMTT(40) DEF Owed
<1>10. ASSUME NEW m, CtlLoopPosts(m) PROVE unanswered' = Owed'
  BY <1>10 DEF CtlLoopPosts, InOrder, cliVars, wires, PongsOwed, Owed
<1>11. CASE CtlGivesUp \/ CliGivesUp
  BY <1>11
  DEF CtlGivesUp, CliGivesUp, Ctl!GiveUp, Cli!GiveUp, Ctl!readerVars,
      Ctl!writerVars, Cli!readerVars, Cli!writerVars, InOrder, ctlVars, cliVars, wires,
      PongsOwed, Owed
<1>12. CASE CliLoopTakes
  BY <1>12, PongTakes
<1>13. ~(CtlExits \/ CliExits \/ CtlCloses \/ CliCloses \/ Silence)
  BY DEF CtlExits, CliExits, Ctl!Exit, Cli!Exit, CtlCloses, CliCloses, Silence, InOrder
<1> QED
  BY <1>3, <1>4, <1>5, <1>6, <1>7, <1>8, <1>9, <1>10, <1>11, <1>12, <1>13, NextCases
  DEF Loops, Connection

-----------------------------------------------------------------------------

Inv == TypeOK /\ ClosedIsTheLast /\ PongsOwed

LEMMA InvInit == Init => Inv
<1> SUFFICES ASSUME Init PROVE Inv
  OBVIOUS
<1>1. ClosedIsTheLast
  BY DEF Init, ClosedIsTheLast, ClosedIsLast
<1>2. PongsOwed
  BY CountEmpty DEF Init, PongsOwed, Owed
<1> QED
  BY <1>1, <1>2, TypeInit DEF Inv

LEMMA InvStep == Inv /\ [Next]_vars => Inv'
<1>1. Inv /\ Next => Inv'
  BY TypeStep, ClosedStep, PongStep DEF Inv
<1>2. Inv /\ UNCHANGED vars => Inv'
  BY DEF Inv, TypeOK, QueuesTypeOK, FlagsTypeOK, ClosedIsTheLast, ClosedIsLast, PongsOwed,
         Owed, InOrder, vars, ctlVars, cliVars, wires
<1> QED
  BY <1>1, <1>2

\* spawn_session: the types of the four queues of a session, in particular that
\* no loop is ever handed Quit and that nothing but messages of the loops waits
\* for the controller's writer.
THEOREM SessionTypeOK == Spec => []TypeOK
<1>1. Inv => TypeOK
  BY DEF Inv
<1> QED
  BY <1>1, InvInit, InvStep, PTL DEF Spec

\* spawn_session's reader: whatever the loops post and whatever fails, Closed
\* is heard once, last, and only from a reader that has ended.
THEOREM SessionClosedIsTheLast == Spec => []ClosedIsTheLast
<1>1. Inv => ClosedIsTheLast
  BY DEF Inv
<1> QED
  BY <1>1, InvInit, InvStep, PTL DEF Spec

\* The automatic Pong of the reader and that of run_client: in a session in
\* order each Ping has its two Pong, no more and no less, once nothing is on
\* its way.
THEOREM SessionTwoPongsPerPing == Spec => []TwoPongsPerPing
<1>1. Inv => TwoPongsPerPing
  BY CountEmpty DEF Inv, PongsOwed, Owed, InOrder, TwoPongsPerPing, Drained
<1> QED
  BY <1>1, InvInit, InvStep, PTL DEF Spec

-----------------------------------------------------------------------------
(***************************************************************************)
(* Refinement of Pipe.  What a queue tells of the loops' messages is what  *)
(* each of its frames tells, collected.                                    *)
(***************************************************************************)

Frames == CtlPosts \cup CliPosts \cup {Ping, Pong, Closed}
OfTasks == {Ping, Pong, Quit, Closed}
Told == [m \in Frames |-> IF m \in OfTasks THEN <<>> ELSE <<m>>]

LEMMA ToldParts == Told \in Parts(Frames, Frames)
<1>1. <<>> \in Seq(Frames)
  BY EmptySeq
<1>2. \A m \in Frames : <<m>> \in Seq(Frames)
  OBVIOUS
<1>3. \A m \in Frames : (IF m \in OfTasks THEN <<>> ELSE <<m>>) \in Seq(Frames)
  BY <1>1, <1>2
<1> QED
  BY <1>3 DEF Told, Parts

LEMMA ToldOfOne ==
  ASSUME NEW m \in Frames
  PROVE  /\ m \in OfTasks => Told[m] = <<>>
         /\ m \notin OfTasks => Told[m] = <<m>>
BY DEF Told

LEMMA AppOnlyIs ==
  ASSUME NEW s \in Seq(Frames), NEW h, IsCollected(Frames, Told, s, h)
  PROVE  AppOnly(s) = h[Len(s)]
<1> USE DEF IsCollected
<1>n. PICK n \in Nat : n = Len(s)
  BY LenProperties
<1> DEFINE X == Seq(Frames)
           More(acc, m) == IF m \in OfTasks THEN acc ELSE Append(acc, m)
           G == [p \in X \X (1 .. n) |-> More(p[1], s[p[2]])]
           IsIt(it) == it = [d \in SUBSET (1 .. n) |->
                               IF d = {} THEN <<>> ELSE More(it[d \ {Max(d)}], s[Max(d)])]
           chosen == CHOOSE it : IsIt(it)
<1>1. (\A i \in 1 .. n : s[i] \in Frames) /\ DOMAIN s = 1 .. n
  BY <1>n, LenProperties, ElementOfSeq
<1>2. G \in Steps(X, n)
  <2>1. ASSUME NEW acc \in X, NEW i \in 1 .. n PROVE More(acc, s[i]) \in X
    BY <1>1, AppendProperties
  <2> HIDE DEF More, X
  <2> QED
    BY <2>1 DEF Steps
<1>3. <<>> \in X
  BY EmptySeq
<1>4. AppOnly(s) = chosen[1 .. n]
  <2>1. AppOnly(s) = (CHOOSE it : it = [d \in SUBSET DOMAIN s |->
                IF d = {} THEN <<>> ELSE More(it[d \ {Max(d)}], s[Max(d)])])[DOMAIN s]
    BY DEF AppOnly, FoldLeft, MapThenFoldSet, OfTasks
  <2> QED
    BY <1>1, <2>1
<1>5. \E it : IsIt(it)
  <2> HIDE DEF X, G, More
  <2>1. PICK it : IsFold(X, n, <<>>, G, it)
    BY <1>2, <1>3, FoldDefined
  <2>2. ASSUME NEW d \in SUBSET (1 .. n)
        PROVE  it[d] = IF d = {} THEN <<>> ELSE More(it[d \ {Max(d)}], s[Max(d)])
    <3>1. CASE d = {}
      BY <2>1, <3>1 DEF IsFold
    <3>2. CASE d # {}
      <4>1. Max(d) \in 1 .. n
        BY <3>2, MaxOfPlaces
      <4>2. it[d \ {Max(d)}] \in X /\ it[d] = G[<<it[d \ {Max(d)}], Max(d)>>]
        BY <2>1, <3>2 DEF IsFold
      <4> QED
        BY <3>2, <4>1, <4>2 DEF G
    <3> QED
      BY <3>1, <3>2
  <2>3. it = [d \in SUBSET (1 .. n) |-> it[d]]
    BY <2>1 DEF IsFold
  <2> QED
    BY <2>2, <2>3
<1>6. \A d \in SUBSET (1 .. n) : chosen[d] =
        IF d = {} THEN <<>> ELSE More(chosen[d \ {Max(d)}], s[Max(d)])
  <2>1. IsIt(chosen)
    BY <1>5
  <2> HIDE DEF chosen, More
  <2> QED
    BY <2>1
<1>7. \A i \in 1 .. n : h[i] = More(h[i - 1], s[i])
  <2> TAKE i \in 1 .. n
  <2>1. i - 1 \in 0 .. Len(s)
    BY <1>n
  <2>2. PICK acc \in Seq(Frames) : acc = h[i - 1]
    BY <2>1
  <2>3. PICK e \in Frames : e = s[i]
    BY <1>1
  <2>4. h[i] = acc \o Told[e]
    BY <1>n, <2>2, <2>3
  <2>5. acc \o <<>> = acc
    BY ConcatEmptySeq
  <2>6. acc \o <<e>> = Append(acc, e)
    BY AppendIsConcat
  <2> QED
    BY <2>2, <2>3, <2>4, <2>5, <2>6, ToldOfOne
<1> HIDE DEF chosen, More
<1>8. chosen[{}] = h[0]
  BY <1>6
<1>9. ASSUME NEW i \in 1 .. n, chosen[1 .. (i - 1)] = h[i - 1] PROVE chosen[1 .. i] = h[i]
  <2>1. /\ 1 .. i \in SUBSET (1 .. n) /\ 1 .. i # {}
        /\ Max(1 .. i) = i /\ (1 .. i) \ {i} = 1 .. (i - 1)
    BY MaxOfPrefix
  <2>2. chosen[1 .. i] = More(chosen[1 .. (i - 1)], s[i])
    BY <1>6, <2>1
  <2> QED
    BY <1>7, <1>9, <2>2
<1>10. chosen[1 .. n] = h[n]
  BY <1>8, <1>9, FoldAlong, ZenonT(60)
<1> QED
  BY <1>n, <1>4, <1>10

LEMMA AppOnlyCollects ==
  ASSUME NEW s \in Seq(Frames)
  PROVE  AppOnly(s) = Collect(Told, s)
<1>1. PICK h : IsCollected(Frames, Told, s, h)
  BY ToldParts, CollectPath
<1>2. Collect(Told, s) = h[Len(s)]
  BY <1>1, ToldParts, CollectIs
<1> QED
  BY <1>1, <1>2, AppOnlyIs

-----------------------------------------------------------------------------
\* One direction of traffic: the messages in what its reader has handed over,
\* on the wire and in what waits for the writer.
Passing(rx, wire, tx) == AppOnly(Row(rx, wire, tx))

LEMMA PassingCollects ==
  ASSUME NEW rx \in Seq(Frames), NEW wire \in Seq(Frames), NEW tx \in Seq(Frames)
  PROVE  Passing(rx, wire, tx) = Collect(Told, Row(rx, wire, tx))
<1>1. Row(rx, wire, tx) \in Seq(Frames)
  BY RowType
<1> QED
  BY <1>1, AppOnlyCollects DEF Passing

\* How a queue changes, kept closed for the provers.
MovesOn(from, to, from1, to1) ==
  from # <<>> /\ to1 = Append(to, Head(from)) /\ from1 = Tail(from)

\* The reader hands the next frame over, the writer writes the next one:
\* nothing changes.
LEMMA PassingReads ==
  ASSUME NEW rx \in Seq(Frames), NEW wire \in Seq(Frames), NEW tx,
         NEW rx1, NEW wire1, MovesOn(wire, rx, wire1, rx1)
  PROVE  Passing(rx1, wire1, tx) = Passing(rx, wire, tx)
BY RowReads DEF Passing, MovesOn

LEMMA PassingWrites ==
  ASSUME NEW rx \in Seq(Frames), NEW wire \in Seq(Frames), NEW tx \in Seq(Frames),
         NEW wire1, NEW tx1, MovesOn(tx, wire, tx1, wire1)
  PROVE  Passing(rx, wire1, tx1) = Passing(rx, wire, tx)
BY RowWrites DEF Passing, MovesOn

\* A frame of the tasks themselves may go anywhere.
LEMMA PassingIgnores ==
  ASSUME NEW rx \in Seq(Frames), NEW wire \in Seq(Frames), NEW tx \in Seq(Frames),
         NEW m \in Frames, m \in OfTasks
  PROVE  /\ Passing(rx, Append(wire, m), tx) = Passing(rx, wire, tx)
         /\ Passing(rx, wire, Append(tx, m)) = Passing(rx, wire, tx)
<1>1. Append(wire, m) \in Seq(Frames) /\ Append(tx, m) \in Seq(Frames)
  BY AppendProperties
<1>2. Told[m] = <<>>
  BY ToldOfOne
<1>3. /\ Collect(Told, Row(rx, Append(wire, m), tx)) = Collect(Told, Row(rx, wire, tx))
      /\ Collect(Told, Row(rx, wire, Append(tx, m))) = Collect(Told, Row(rx, wire, tx))
  BY <1>2, ToldParts, RowIgnores
<1>4. PICK v \in Seq(Frames), t \in Seq(Frames) : v = Append(wire, m) /\ t = Append(tx, m)
  BY <1>1
<1>5. /\ Passing(rx, v, tx) = Collect(Told, Row(rx, v, tx))
      /\ Passing(rx, wire, t) = Collect(Told, Row(rx, wire, t))
      /\ Passing(rx, wire, tx) = Collect(Told, Row(rx, wire, tx))
  BY PassingCollects
<1> QED
  BY <1>3, <1>4, <1>5

\* A message of the loops is posted behind all others.
LEMMA PassingPosts ==
  ASSUME NEW rx \in Seq(Frames), NEW wire \in Seq(Frames), NEW tx \in Seq(Frames),
         NEW m \in Frames, m \notin OfTasks
  PROVE  Passing(rx, wire, Append(tx, m)) = Append(Passing(rx, wire, tx), m)
<1>1. Collect(Told, Row(rx, wire, Append(tx, m)))
        = Collect(Told, Row(rx, wire, tx)) \o Told[m]
  BY ToldParts, CollectPosts
<1>2. Told[m] = <<m>>
  BY ToldOfOne
<1>3. Append(tx, m) \in Seq(Frames)
  BY AppendProperties
<1>4. Row(rx, wire, tx) \in Seq(Frames)
  BY RowType
<1>5. PICK q \in Seq(Frames) : q = Collect(Told, Row(rx, wire, tx))
  BY <1>4, ToldParts, CollectType
<1>6. q \o <<m>> = Append(q, m)
  BY AppendIsConcat
<1> QED
  BY <1>1, <1>2, <1>3, <1>5, <1>6, PassingCollects, ZenonT(60)

\* The loop takes the first event: the first message, or none of the loops'.
LEMMA PassingTakes ==
  ASSUME NEW rx \in Seq(Frames), NEW wire \in Seq(Frames), NEW tx \in Seq(Frames),
         rx # <<>>
  PROVE  \/ Passing(Tail(rx), wire, tx) = Passing(rx, wire, tx)
         \/ /\ Passing(rx, wire, tx) # <<>>
            /\ Passing(Tail(rx), wire, tx) = Tail(Passing(rx, wire, tx))
<1>1. Head(rx) \in Frames /\ Tail(rx) \in Seq(Frames)
  BY HeadTailProperties
<1>2. Told[Head(rx)] = <<>> \/ \E m \in Frames : Told[Head(rx)] = <<m>>
  BY <1>1, ToldOfOne
<1>3. \/ Collect(Told, Row(Tail(rx), wire, tx)) = Collect(Told, Row(rx, wire, tx))
      \/ /\ Collect(Told, Row(rx, wire, tx)) # <<>>
         /\ Collect(Told, Row(Tail(rx), wire, tx)) = Tail(Collect(Told, Row(rx, wire, tx)))
  BY <1>2, ToldParts, CollectTakes
<1>4. PICK r \in Seq(Frames) : r = Tail(rx)
  BY <1>1
<1>5. /\ Passing(r, wire, tx) = Collect(Told, Row(r, wire, tx))
      /\ Passing(rx, wire, tx) = Collect(Told, Row(rx, wire, tx))
  BY PassingCollects
<1> QED
  BY <1>3, <1>4, <1>5

\* What is lost is the newest.
Cut(less, q) == \E k \in 0 .. Len(q) : less = SubSeq(q, 1, k)

LEMMA AppOnlyCut ==
  ASSUME NEW s \in Seq(Frames), NEW u \in Seq(Frames)
  PROVE  Cut(AppOnly(s), AppOnly(s \o u))
<1>1. s \o u \in Seq(Frames)
  BY ConcatProperties
<1>2. \E k \in 0 .. Len(Collect(Told, s \o u)) :
        Collect(Told, s) = SubSeq(Collect(Told, s \o u), 1, k)
  BY ToldParts, CollectCut
<1> QED
  BY <1>1, <1>2, AppOnlyCollects DEF Cut

\* The wire loses its newest frames, and what waits for the writer is lost.
LEMMA PassingCuts ==
  ASSUME NEW rx \in Seq(Frames), NEW wire \in Seq(Frames), NEW tx \in Seq(Frames),
         NEW p \in Prefixes(wire)
  PROVE  Cut(Passing(rx, p, <<>>), Passing(rx, wire, tx))
<1>1. PICK s \in Seq(Frames) : s = Row(rx, p, <<>>)
  BY RowCutType
<1>2. \E u \in Seq(Frames) : Row(rx, wire, tx) = Cat(Row(rx, p, <<>>), u)
  BY RowCut
<1>3. PICK u \in Seq(Frames) : Row(rx, wire, tx) = s \o u
  BY <1>1, <1>2 DEF Cat
<1>4. Cut(AppOnly(s), AppOnly(s \o u))
  BY AppOnlyCut
<1> QED
  BY <1>1, <1>3, <1>4 DEF Passing

\* The reader ends: what it has handed over is still taken, and then Closed.
LEMMA PassingEnds ==
  ASSUME NEW rx \in Seq(Frames), NEW wire \in Seq(Frames), NEW tx \in Seq(Frames)
  PROVE  Cut(Passing(Append(rx, Closed), <<>>, <<>>), Passing(rx, wire, tx))
<1>1. Closed \in Frames /\ Closed \in OfTasks
  BY DEF Frames, OfTasks
<1>2. Append(rx, Closed) \in Seq(Frames)
  BY <1>1, AppendProperties
<1>3. Told[Closed] = <<>>
  BY <1>1, ToldOfOne
<1>4. Collect(Told, Append(rx, Closed)) = Collect(Told, rx)
  BY <1>1, <1>3, ToldParts, CollectIgnores
<1>5. AppOnly(Append(rx, Closed)) = AppOnly(rx)
  BY <1>2, <1>4, AppOnlyCollects
<1>6. Passing(Append(rx, Closed), <<>>, <<>>) = AppOnly(Append(rx, Closed))
  BY <1>2, ConcatEmptySeq DEF Passing, Row, Cat
<1>7. PICK u \in Seq(Frames) : u = Cat(wire, tx)
  BY CatType
<1>8. Row(rx, wire, tx) = rx \o u
  <2>1. Cat(Cat(rx, wire), tx) = Cat(rx, Cat(wire, tx))
    BY CatAssociative
  <2> QED
    BY <1>7, <2>1 DEF Row, Cat
<1>9. Cut(AppOnly(rx), AppOnly(rx \o u))
  BY AppOnlyCut
<1> QED
  BY <1>5, <1>6, <1>8, <1>9 DEF Passing

\* The loop ends: nothing is taken any more.
LEMMA PassingOver ==
  ASSUME NEW rx \in Seq(Frames), NEW wire \in Seq(Frames), NEW tx \in Seq(Frames)
  PROVE  Cut(Passing(<<>>, <<>>, <<>>), Passing(rx, wire, tx))
<1>1. PICK s \in Seq(Frames) : s = Row(rx, wire, tx)
  BY RowType
<1>2. <<>> \in Seq(Frames)
  BY EmptySeq
<1>3. <<>> \o s = s
  BY ConcatEmptySeq
<1>4. Cut(AppOnly(<<>>), AppOnly(<<>> \o s))
  BY <1>2, AppOnlyCut
<1>5. Passing(<<>>, <<>>, <<>>) = AppOnly(<<>>)
  BY <1>2, ConcatEmptySeq DEF Passing, Row, Cat
<1> QED
  BY <1>1, <1>3, <1>4, <1>5 DEF Passing

\* A step of Pipe, and the steps of one direction of a session: its queues, and
\* whether the reader reads and the writer gets through, before and after.
PipeStep(M, q, i, q1, i1) ==
  \/ q1 = q /\ i1 = i
  \/ i /\ i1 = i /\ \E m \in M : q1 = Append(q, m)
  \/ q # <<>> /\ q1 = Tail(q) /\ i1 = i
  \/ i1 = FALSE /\ Cut(q1, q)

Carries(M, rx, reading, wire, tx, open, rx1, reading1, wire1, tx1, open1) ==
  \/ /\ reading1 = reading /\ open1 = open
     /\ \/ rx1 = rx /\ wire1 = wire /\ (tx1 = tx \/ open = FALSE)
        \/ reading = TRUE /\ MovesOn(wire, rx, wire1, rx1) /\ tx1 = tx
        \/ open = TRUE /\ MovesOn(tx, wire, tx1, wire1) /\ rx1 = rx
        \/ /\ rx1 = rx
           /\ \E m \in Frames \cap OfTasks :
                \/ wire1 = Append(wire, m) /\ tx1 = tx
                \/ wire1 = wire /\ tx1 = Append(tx, m)
        \/ rx1 = rx /\ wire1 = wire /\ \E m \in M : tx1 = Append(tx, m)
        \/ rx # <<>> /\ rx1 = Tail(rx) /\ wire1 = wire /\ tx1 = tx
  \/ open1 = FALSE /\ reading1 = reading /\ rx1 = rx /\ wire1 \in Prefixes(wire)
  \/ reading1 = FALSE /\ (rx1 = Append(rx, Closed) \/ rx1 = <<>>)

LEMMA CarriesIsPipe ==
  ASSUME NEW M, M \subseteq Frames \ OfTasks,
         NEW rx \in Seq(Frames), NEW wire \in Seq(Frames), NEW tx \in Seq(Frames),
         NEW reading \in BOOLEAN, NEW open \in BOOLEAN,
         NEW rx1, NEW wire1, NEW tx1, NEW reading1 \in BOOLEAN, NEW open1 \in BOOLEAN,
         Carries(M, rx, reading, wire, tx, open, rx1, reading1, wire1, tx1, open1)
  PROVE  PipeStep(M,
           Passing(rx, IF reading THEN wire ELSE <<>>,
                       IF reading /\ open THEN tx ELSE <<>>), reading /\ open,
           Passing(rx1, IF reading1 THEN wire1 ELSE <<>>,
                        IF reading1 /\ open1 THEN tx1 ELSE <<>>), reading1 /\ open1)
<1>w. PICK w \in Seq(Frames) : w = IF reading THEN wire ELSE <<>>
  BY EmptySeq
<1>x. PICK x \in Seq(Frames) : x = IF reading /\ open THEN tx ELSE <<>>
  BY EmptySeq
<1> DEFINE w1 == IF reading1 THEN wire1 ELSE <<>>
           x1 == IF reading1 /\ open1 THEN tx1 ELSE <<>>
           q  == Passing(rx, w, x)
           q1 == Passing(rx1, w1, x1)
           i  == reading /\ open
           i1 == reading1 /\ open1
<1> SUFFICES PipeStep(M, q, i, q1, i1)
  BY <1>w, <1>x
<1>1. CASE /\ reading1 = reading /\ open1 = open /\ rx1 = rx /\ wire1 = wire
           /\ tx1 = tx \/ open = FALSE
  <2>1. w1 = w /\ x1 = x /\ i1 = i
    BY <1>w, <1>x, <1>1
  <2> QED
    BY <1>1, <2>1 DEF PipeStep
<1>2. CASE /\ reading1 = reading /\ open1 = open
           /\ reading = TRUE /\ MovesOn(wire, rx, wire1, rx1) /\ tx1 = tx
  <2>1. w1 = wire1 /\ w = wire /\ x1 = x /\ i1 = i
    BY <1>w, <1>x, <1>2
  <2>2. Passing(rx1, wire1, x) = Passing(rx, wire, x)
    BY <1>2, PassingReads
  <2> QED
    BY <2>1, <2>2 DEF PipeStep
<1>3. CASE /\ reading1 = reading /\ open1 = open
           /\ open = TRUE /\ MovesOn(tx, wire, tx1, wire1) /\ rx1 = rx
  <2>1. CASE reading
    <3>1. w1 = wire1 /\ w = wire /\ x1 = tx1 /\ x = tx /\ i1 = i
      BY <1>w, <1>x, <1>3, <2>1
    <3>2. Passing(rx, wire1, tx1) = Passing(rx, wire, tx)
      BY <1>3, PassingWrites
    <3> QED
      BY <1>3, <3>1, <3>2 DEF PipeStep
  <2>2. CASE ~reading
    <3>1. w1 = w /\ x1 = x /\ i1 = i
      BY <1>w, <1>x, <1>3, <2>2
    <3> QED
      BY <1>3, <3>1 DEF PipeStep
  <2> QED
    BY <2>1, <2>2
<1>4. ASSUME reading1 = reading, open1 = open, rx1 = rx,
             NEW m \in Frames \cap OfTasks,
             \/ wire1 = Append(wire, m) /\ tx1 = tx
             \/ wire1 = wire /\ tx1 = Append(tx, m)
      PROVE  PipeStep(M, q, i, q1, i1)
  <2>1. \/ w1 = w /\ x1 = x
        \/ w1 = Append(w, m) /\ x1 = x
        \/ w1 = w /\ x1 = Append(x, m)
    BY <1>w, <1>x, <1>4
  <2>2. /\ Passing(rx, Append(w, m), x) = Passing(rx, w, x)
        /\ Passing(rx, w, Append(x, m)) = Passing(rx, w, x)
    BY PassingIgnores
  <2>3. q1 = q
    BY <1>4, <2>1, <2>2
  <2> QED
    BY <1>4, <2>3 DEF PipeStep
<1>5. ASSUME reading1 = reading, open1 = open, rx1 = rx, wire1 = wire,
             NEW m \in M, tx1 = Append(tx, m)
      PROVE  PipeStep(M, q, i, q1, i1)
  <2>1. CASE i
    <3>1. w1 = w /\ x1 = Append(x, m) /\ i1 = i
      BY <1>w, <1>x, <1>5, <2>1
    <3>2. m \in Frames /\ m \notin OfTasks
      OBVIOUS
    <3>3. Passing(rx, w, Append(x, m)) = Append(Passing(rx, w, x), m)
      BY <3>2, PassingPosts, SMTT(40)
    <3>4. q1 = Append(q, m)
      BY <1>5, <3>1, <3>3
    <3> QED
      BY <2>1, <3>1, <3>4 DEF PipeStep
  <2>2. CASE ~i
    <3>1. w1 = w /\ x1 = x /\ i1 = i
      BY <1>w, <1>x, <1>5, <2>2
    <3> QED
      BY <1>5, <3>1 DEF PipeStep
  <2> QED
    BY <2>1, <2>2
<1>6. CASE /\ reading1 = reading /\ open1 = open
           /\ rx # <<>> /\ rx1 = Tail(rx) /\ wire1 = wire /\ tx1 = tx
  <2>1. w1 = w /\ x1 = x /\ i1 = i
    BY <1>w, <1>x, <1>6
  <2>2. \/ Passing(Tail(rx), w, x) = Passing(rx, w, x)
        \/ /\ Passing(rx, w, x) # <<>>
           /\ Passing(Tail(rx), w, x) = Tail(Passing(rx, w, x))
    BY <1>6, PassingTakes
  <2>3. q1 = q \/ (q # <<>> /\ q1 = Tail(q))
    BY <1>6, <2>1, <2>2
  <2> QED
    BY <2>1, <2>3 DEF PipeStep
<1>7. CASE open1 = FALSE /\ reading1 = reading /\ rx1 = rx /\ wire1 \in Prefixes(wire)
  <2>1. w1 \in Prefixes(w) /\ x1 = <<>> /\ i1 = FALSE
    BY <1>w, <1>7, EmptyIsPrefix
  <2>2. Cut(Passing(rx, w1, <<>>), Passing(rx, w, x))
    BY <2>1, PassingCuts
  <2> QED
    BY <1>7, <2>1, <2>2 DEF PipeStep
<1>8. CASE reading1 = FALSE /\ rx1 = Append(rx, Closed)
  <2>1. Cut(Passing(Append(rx, Closed), <<>>, <<>>), Passing(rx, w, x))
    BY PassingEnds
  <2>2. w1 = <<>> /\ x1 = <<>> /\ i1 = FALSE
    BY <1>8
  <2> QED
    BY <1>8, <2>1, <2>2 DEF PipeStep
<1>9. CASE reading1 = FALSE /\ rx1 = <<>>
  <2>1. Cut(Passing(<<>>, <<>>, <<>>), Passing(rx, w, x))
    BY PassingOver
  <2>2. w1 = <<>> /\ x1 = <<>> /\ i1 = FALSE
    BY <1>9
  <2> QED
    BY <1>9, <2>1, <2>2 DEF PipeStep
<1> HIDE DEF q, q1, i, i1
<1> QED
  BY <1>1, <1>2, <1>3, <1>4, <1>5, <1>6, <1>7, <1>8, <1>9 DEF Carries

\* The directions to the client and to the controller.
ClientQueue == Passing(cliRx, IF cliReading THEN toCli ELSE <<>>,
                 IF cliReading /\ (ctlWriting /\ link = "up") THEN ctlTx ELSE <<>>)
ClientIntact == cliReading /\ (ctlWriting /\ link = "up")

ControllerQueue == Passing(ctlRx, IF ctlReading THEN toCtl ELSE <<>>,
                     IF ctlReading /\ (cliWriting /\ link = "up") THEN cliTx ELSE <<>>)
ControllerIntact == ctlReading /\ (cliWriting /\ link = "up")

ToClientCarries ==
  Carries(CtlPosts \ {Quit}, cliRx, cliReading, toCli, ctlTx, ctlWriting /\ link = "up",
          cliRx', cliReading', toCli', ctlTx', (ctlWriting /\ link = "up")')

ToControllerCarries ==
  Carries(CliPosts \ {Quit}, ctlRx, ctlReading, toCtl, cliTx, cliWriting /\ link = "up",
          ctlRx', ctlReading', toCtl', cliTx', (cliWriting /\ link = "up")')

LEMMA WiderType ==
  ASSUME NEW S, NEW T, S \subseteq T, NEW s \in Seq(S)
  PROVE  s \in Seq(T)
OBVIOUS

LEMMA FramesType ==
  ASSUME TypeOK
  PROVE  /\ ctlRx \in Seq(Frames) /\ ctlTx \in Seq(Frames) /\ toCtl \in Seq(Frames)
         /\ cliRx \in Seq(Frames) /\ cliTx \in Seq(Frames) /\ toCli \in Seq(Frames)
         /\ {ctlReading, ctlWriting, cliReading, cliWriting} \subseteq BOOLEAN
<1> USE DEF TypeOK, QueuesTypeOK, FlagsTypeOK
<1>1. /\ (CliMessages \ {Quit}) \cup {Closed} \subseteq Frames
      /\ (CtlMessages \ {Quit}) \cup {Closed} \subseteq Frames
      /\ CtlPosts \subseteq Frames /\ CliMessages \subseteq Frames
      /\ CtlMessages \subseteq Frames
  BY DEF Frames, CtlMessages, CliMessages
<1> HIDE DEF CtlMessages, CliMessages
<1>2. ctlRx \in Seq(Frames) /\ cliRx \in Seq(Frames)
  BY <1>1, WiderType
<1>3. ctlTx \in Seq(Frames) /\ cliTx \in Seq(Frames)
  BY <1>1, WiderType
<1>4. toCtl \in Seq(Frames) /\ toCli \in Seq(Frames)
  BY <1>1, WiderType
<1> QED
  BY <1>2, <1>3, <1>4

LEMMA TaskFrames == {Ping, Pong} \subseteq Frames \cap OfTasks
BY DEF Frames, OfTasks

LEMMA PostsAreNotOfTasks ==
  CtlPosts \ {Quit} \subseteq Frames \ OfTasks /\ CliPosts \ {Quit} \subseteq Frames \ OfTasks
BY SessionAssumption DEF Frames, OfTasks

\* The tasks of the client, and its loop.
LEMMA ToClientClient ==
  ASSUME TypeOK, CliReads \/ CliWrites \/ CliLoopTakes \/ CliExits \/ CliGivesUp
  PROVE  ToClientCarries
<1> USE SameMessages DEF ToClientCarries, Carries, ctlVars, wires
<1>1. CASE CliReads /\ Cli!ReadMessage
  BY <1>1 DEF CliReads, Cli!ReadMessage, Cli!connVars, MovesOn
<1>2. CASE CliReads /\ Cli!ReadPing
  BY <1>2 DEF CliReads, Cli!ReadPing, Cli!connVars, MovesOn
<1>3. CASE CliReads /\ Cli!ReadQuit
  BY <1>3 DEF CliReads, Cli!ReadQuit
<1>4. CASE CliReads /\ Cli!ReadFails
  BY <1>4 DEF CliReads, Cli!ReadFails
<1>5. CASE CliWrites /\ Cli!Write
  BY <1>5 DEF CliWrites, Cli!Write, Cli!readerVars, Cli!connVars
<1>6. CASE CliWrites /\ Cli!WriterGone
  BY <1>6 DEF CliWrites, Cli!WriterGone, Cli!readerVars, Cli!connVars
<1>7. CASE CliLoopTakes
  BY <1>7 DEF CliLoopTakes
<1>8. CASE CliExits
  BY <1>8 DEF CliExits, Cli!Exit
<1>9. CASE CliGivesUp
  BY <1>9 DEF CliGivesUp, Cli!GiveUp, Cli!readerVars
<1> QED
  BY <1>1, <1>2, <1>3, <1>4, <1>5, <1>6, <1>7, <1>8, <1>9
  DEF CliReads, Cli!Reader, CliWrites, Cli!WriteFails

\* The tasks of the controller, and its loop: what waits for its writer goes
\* with it.
LEMMA ToClientController ==
  ASSUME TypeOK, CtlReads \/ CtlWrites \/ CtlBeats \/ CtlLoopTakes \/ CtlExits \/ CtlGivesUp
  PROVE  ToClientCarries
<1> USE SameMessages DEF ToClientCarries, Carries, cliVars, wires
<1>0. toCli \in Prefixes(toCli)
  BY FramesType, EmptyIsPrefix
<1>1. CASE CtlReads /\ Ctl!ReadMessage
  BY <1>1 DEF CtlReads, Ctl!ReadMessage, Ctl!connVars, Ctl!writerVars
<1>2. CASE CtlReads /\ Ctl!ReadPing
  BY <1>2, TaskFrames DEF CtlReads, Ctl!ReadPing, Ctl!connVars
<1>3. CASE CtlReads /\ Ctl!ReadQuit
  BY <1>3 DEF CtlReads, Ctl!ReadQuit, Ctl!connVars, Ctl!writerVars
<1>4. CASE CtlReads /\ Ctl!ReadFails
  BY <1>4 DEF CtlReads, Ctl!ReadFails, Ctl!connVars, Ctl!writerVars
<1>5. CASE CtlWrites /\ Ctl!Write
  BY <1>5 DEF CtlWrites, Ctl!Write, Ctl!PutOnWire, Ctl!readerVars, Ctl!connVars, MovesOn
<1>6. CASE CtlWrites /\ Ctl!WriterGone
  BY <1>0, <1>6 DEF CtlWrites, Ctl!WriterGone, Ctl!readerVars, Ctl!connVars
<1>7. CASE CtlBeats
  BY <1>7, TaskFrames
  DEF CtlBeats, Ctl!Beat, Ctl!PutOnWire, Ctl!readerVars, Ctl!writerVars, Ctl!connVars
<1>8. CASE CtlLoopTakes
  BY <1>8 DEF CtlLoopTakes
<1>9. CASE CtlExits
  BY <1>0, <1>9 DEF CtlExits, Ctl!Exit, Ctl!connVars
<1>10. CASE CtlGivesUp
  BY <1>10 DEF CtlGivesUp, Ctl!GiveUp, Ctl!readerVars, Ctl!writerVars
<1> QED
  BY <1>1, <1>2, <1>3, <1>4, <1>5, <1>6, <1>7, <1>8, <1>9, <1>10
  DEF CtlReads, Ctl!Reader, CtlWrites, Ctl!WriteFails, Ctl!BeatFails

\* What the loops post, and what becomes of the connection.
LEMMA ToClientPosts ==
  ASSUME TypeOK, NEW m, \/ m \in CtlPosts /\ CtlLoopPosts(m)
                        \/ m \in CliPosts /\ CliLoopPosts(m)
  PROVE  ToClientCarries
<1> USE DEF ToClientCarries, Carries, cliVars, ctlVars, wires
<1>1. CASE m \in CtlPosts /\ m # Quit /\ CtlLoopPosts(m)
  BY <1>1 DEF CtlLoopPosts
<1>2. CASE m \in CtlPosts /\ m = Quit /\ CtlLoopPosts(m)
  <2>1. m \in Frames \cap OfTasks
    BY <1>2 DEF Frames, OfTasks
  <2> QED
    BY <1>2, <2>1 DEF CtlLoopPosts
<1>3. CASE CliLoopPosts(m)
  BY <1>3 DEF CliLoopPosts
<1> QED
  BY <1>1, <1>2, <1>3

LEMMA ToClientConnection ==
  ASSUME TypeOK, CtlCloses \/ CliCloses \/ Silence
  PROVE  ToClientCarries
<1> USE DEF ToClientCarries, Carries, cliVars, ctlVars
<1>0. <<>> \in Prefixes(toCli)
  BY FramesType, EmptyIsPrefix
<1>1. CASE CtlCloses
  BY <1>1 DEF CtlCloses
<1>2. CASE CliCloses
  BY <1>0, <1>2 DEF CliCloses
<1>3. CASE Silence
  BY <1>3 DEF Silence
<1> QED
  BY <1>1, <1>2, <1>3

LEMMA ToClientStep ==
  ASSUME TypeOK, TypeOK', [Next]_vars
  PROVE  PipeStep(CtlPosts \ {Quit}, ClientQueue, ClientIntact, ClientQueue', ClientIntact')
<1>1. CASE UNCHANGED vars
  BY <1>1 DEF vars, cliVars, ctlVars, wires, PipeStep, ClientQueue, ClientIntact
<1>2. CASE Next
  <2>1. ToClientCarries
    BY <1>2, ToClientClient, ToClientController, ToClientPosts, ToClientConnection
    DEF Next
  <2>2. cliRx \in Seq(Frames) /\ toCli \in Seq(Frames) /\ ctlTx \in Seq(Frames)
    BY FramesType
  <2>3. PICK r \in BOOLEAN, o \in BOOLEAN, r1 \in BOOLEAN, o1 \in BOOLEAN :
          /\ r = cliReading /\ o = (ctlWriting /\ link = "up")
          /\ r1 = cliReading' /\ o1 = (ctlWriting /\ link = "up")'
    BY DEF TypeOK, FlagsTypeOK
  <2>4. Carries(CtlPosts \ {Quit}, cliRx, r, toCli, ctlTx, o, cliRx', r1, toCli', ctlTx', o1)
    BY <2>1, <2>3 DEF ToClientCarries
  <2>5. PICK M : M = CtlPosts \ {Quit} /\ M \subseteq Frames \ OfTasks
    BY PostsAreNotOfTasks
  <2>6. PipeStep(M,
          Passing(cliRx, IF r THEN toCli ELSE <<>>, IF r /\ o THEN ctlTx ELSE <<>>),
          r /\ o,
          Passing(cliRx', IF r1 THEN toCli' ELSE <<>>, IF r1 /\ o1 THEN ctlTx' ELSE <<>>),
          r1 /\ o1)
    BY <2>2, <2>4, <2>5, CarriesIsPipe
  <2> QED
    BY <2>3, <2>5, <2>6 DEF ClientQueue, ClientIntact
<1> QED
  BY <1>1, <1>2

\* The other direction.  Here the client's answers to Ping are among what waits
\* for the writer.
LEMMA ToControllerController ==
  ASSUME TypeOK, CtlReads \/ CtlWrites \/ CtlBeats \/ CtlLoopTakes \/ CtlExits \/ CtlGivesUp
  PROVE  ToControllerCarries
<1> USE SameMessages DEF ToControllerCarries, Carries, cliVars, wires
<1>1. CASE CtlReads /\ Ctl!ReadMessage
  BY <1>1 DEF CtlReads, Ctl!ReadMessage, Ctl!connVars, MovesOn
<1>2. CASE CtlReads /\ Ctl!ReadPing
  BY <1>2 DEF CtlReads, Ctl!ReadPing, Ctl!connVars, MovesOn
<1>3. CASE CtlReads /\ Ctl!ReadQuit
  BY <1>3 DEF CtlReads, Ctl!ReadQuit
<1>4. CASE CtlReads /\ Ctl!ReadFails
  BY <1>4 DEF CtlReads, Ctl!ReadFails
<1>5. CASE CtlWrites /\ Ctl!Write
  BY <1>5 DEF CtlWrites, Ctl!Write, Ctl!readerVars, Ctl!connVars
<1>6. CASE CtlWrites /\ Ctl!WriterGone
  BY <1>6 DEF CtlWrites, Ctl!WriterGone, Ctl!readerVars, Ctl!connVars
<1>7. CASE CtlBeats
  BY <1>7 DEF CtlBeats, Ctl!Beat, Ctl!readerVars, Ctl!writerVars, Ctl!connVars
<1>8. CASE CtlLoopTakes
  BY <1>8 DEF CtlLoopTakes
<1>9. CASE CtlExits
  BY <1>9 DEF CtlExits, Ctl!Exit
<1>10. CASE CtlGivesUp
  BY <1>10 DEF CtlGivesUp, Ctl!GiveUp, Ctl!readerVars
<1> QED
  BY <1>1, <1>2, <1>3, <1>4, <1>5, <1>6, <1>7, <1>8, <1>9, <1>10
  DEF CtlReads, Ctl!Reader, CtlWrites, Ctl!WriteFails, Ctl!BeatFails

LEMMA ToControllerClient ==
  ASSUME TypeOK, CliReads \/ CliWrites \/ CliLoopTakes \/ CliExits \/ CliGivesUp
  PROVE  ToControllerCarries
<1> USE SameMessages DEF ToControllerCarries, Carries, ctlVars, wires
<1>0. toCtl \in Prefixes(toCtl)
  BY FramesType, EmptyIsPrefix
<1>1. CASE CliReads /\ Cli!ReadMessage
  BY <1>1 DEF CliReads, Cli!ReadMessage, Cli!connVars, Cli!writerVars
<1>2. CASE CliReads /\ Cli!ReadPing
  BY <1>2, TaskFrames DEF CliReads, Cli!ReadPing, Cli!connVars
<1>3. CASE CliReads /\ Cli!ReadQuit
  BY <1>3 DEF CliReads, Cli!ReadQuit, Cli!connVars, Cli!writerVars
<1>4. CASE CliReads /\ Cli!ReadFails
  BY <1>4 DEF CliReads, Cli!ReadFails, Cli!connVars, Cli!writerVars
<1>5. CASE CliWrites /\ Cli!Write
  BY <1>5 DEF CliWrites, Cli!Write, Cli!PutOnWire, Cli!readerVars, Cli!connVars, MovesOn
<1>6. CASE CliWrites /\ Cli!WriterGone
  BY <1>0, <1>6 DEF CliWrites, Cli!WriterGone, Cli!readerVars, Cli!connVars
<1>7. CASE CliLoopTakes
  BY <1>7, TaskFrames DEF CliLoopTakes
<1>8. CASE CliExits
  BY <1>0, <1>8 DEF CliExits, Cli!Exit, Cli!connVars
<1>9. CASE CliGivesUp
  BY <1>9 DEF CliGivesUp, Cli!GiveUp, Cli!readerVars, Cli!writerVars
<1> QED
  BY <1>1, <1>2, <1>3, <1>4, <1>5, <1>6, <1>7, <1>8, <1>9
  DEF CliReads, Cli!Reader, CliWrites, Cli!WriteFails

LEMMA ToControllerPosts ==
  ASSUME TypeOK, NEW m, \/ m \in CtlPosts /\ CtlLoopPosts(m)
                        \/ m \in CliPosts /\ CliLoopPosts(m)
  PROVE  ToControllerCarries
<1> USE DEF ToControllerCarries, Carries, cliVars, ctlVars, wires
<1>1. CASE m \in CliPosts /\ m # Quit /\ CliLoopPosts(m)
  BY <1>1 DEF CliLoopPosts
<1>2. CASE m \in CliPosts /\ m = Quit /\ CliLoopPosts(m)
  <2>1. m \in Frames \cap OfTasks
    BY <1>2 DEF Frames, OfTasks
  <2> QED
    BY <1>2, <2>1 DEF CliLoopPosts
<1>3. CASE CtlLoopPosts(m)
  BY <1>3 DEF CtlLoopPosts
<1> QED
  BY <1>1, <1>2, <1>3

LEMMA ToControllerConnection ==
  ASSUME TypeOK, CtlCloses \/ CliCloses \/ Silence
  PROVE  ToControllerCarries
<1> USE DEF ToControllerCarries, Carries, cliVars, ctlVars
<1>0. <<>> \in Prefixes(toCtl)
  BY FramesType, EmptyIsPrefix
<1>1. CASE CtlCloses
  BY <1>0, <1>1 DEF CtlCloses
<1>2. CASE CliCloses
  BY <1>2 DEF CliCloses
<1>3. CASE Silence
  BY <1>3 DEF Silence
<1> QED
  BY <1>1, <1>2, <1>3

LEMMA ToControllerStep ==
  ASSUME TypeOK, TypeOK', [Next]_vars
  PROVE  PipeStep(CliPosts \ {Quit}, ControllerQueue, ControllerIntact,
                  ControllerQueue', ControllerIntact')
<1>1. CASE UNCHANGED vars
  BY <1>1 DEF vars, cliVars, ctlVars, wires, PipeStep, ControllerQueue, ControllerIntact
<1>2. CASE Next
  <2>1. ToControllerCarries
    BY <1>2, ToControllerClient, ToControllerController, ToControllerPosts,
       ToControllerConnection
    DEF Next
  <2>2. ctlRx \in Seq(Frames) /\ toCtl \in Seq(Frames) /\ cliTx \in Seq(Frames)
    BY FramesType
  <2>3. PICK r \in BOOLEAN, o \in BOOLEAN, r1 \in BOOLEAN, o1 \in BOOLEAN :
          /\ r = ctlReading /\ o = (cliWriting /\ link = "up")
          /\ r1 = ctlReading' /\ o1 = (cliWriting /\ link = "up")'
    BY DEF TypeOK, FlagsTypeOK
  <2>4. Carries(CliPosts \ {Quit}, ctlRx, r, toCtl, cliTx, o, ctlRx', r1, toCtl', cliTx', o1)
    BY <2>1, <2>3 DEF ToControllerCarries
  <2>5. PICK M : M = CliPosts \ {Quit} /\ M \subseteq Frames \ OfTasks
    BY PostsAreNotOfTasks
  <2>6. PipeStep(M,
          Passing(ctlRx, IF r THEN toCtl ELSE <<>>, IF r /\ o THEN cliTx ELSE <<>>),
          r /\ o,
          Passing(ctlRx', IF r1 THEN toCtl' ELSE <<>>, IF r1 /\ o1 THEN cliTx' ELSE <<>>),
          r1 /\ o1)
    BY <2>2, <2>4, <2>5, CarriesIsPipe
  <2> QED
    BY <2>3, <2>5, <2>6 DEF ControllerQueue, ControllerIntact
<1> QED
  BY <1>1, <1>2

-----------------------------------------------------------------------------
\* The refinement mappings name the same queues.

LEMMA ToClientRefines ==
  ASSUME TypeOK, TypeOK', [Next]_vars
  PROVE  [ToClient!Next]_(ToClient!vars)
<1>1. /\ Route(cliRx, cliReading, toCli, ctlTx, ctlWriting) = ClientQueue
      /\ Route(cliRx, cliReading, toCli, ctlTx, ctlWriting)' = ClientQueue'
  BY DEF Route, ClientQueue, Passing, Row, Cat
<1>2. /\ (cliReading /\ ctlWriting /\ link = "up") = ClientIntact
      /\ (cliReading /\ ctlWriting /\ link = "up")' = ClientIntact'
  BY DEF ClientIntact
<1>3. PipeStep(CtlPosts \ {Quit}, ClientQueue, ClientIntact, ClientQueue', ClientIntact')
  BY ToClientStep
<1> QED
  BY <1>1, <1>2, <1>3
  DEF PipeStep, Cut, ToClient!Next, ToClient!Post, ToClient!Take, ToClient!Break,
      ToClient!vars

LEMMA ToControllerRefines ==
  ASSUME TypeOK, TypeOK', [Next]_vars
  PROVE  [ToController!Next]_(ToController!vars)
<1>1. /\ Route(ctlRx, ctlReading, toCtl, cliTx, cliWriting) = ControllerQueue
      /\ Route(ctlRx, ctlReading, toCtl, cliTx, cliWriting)' = ControllerQueue'
  BY DEF Route, ControllerQueue, Passing, Row, Cat
<1>2. /\ (ctlReading /\ cliWriting /\ link = "up") = ControllerIntact
      /\ (ctlReading /\ cliWriting /\ link = "up")' = ControllerIntact'
  BY DEF ControllerIntact
<1>3. PipeStep(CliPosts \ {Quit}, ControllerQueue, ControllerIntact,
               ControllerQueue', ControllerIntact')
  BY ToControllerStep
<1> QED
  BY <1>1, <1>2, <1>3
  DEF PipeStep, Cut, ToController!Next, ToController!Post, ToController!Take,
      ToController!Break, ToController!vars

LEMMA PipesInit == Init => ToClient!Init /\ ToController!Init
<1> SUFFICES ASSUME Init PROVE ToClient!Init /\ ToController!Init
  OBVIOUS
<1>1. AppOnly(<<>>) = <<>>
  <2>1. <<>> \in Seq(Frames)
    BY EmptySeq
  <2>2. Collect(Told, <<>>) = <<>>
    BY ToldParts, CollectEmpty
  <2> QED
    BY <2>1, <2>2, AppOnlyCollects
<1>2. (<<>> \o <<>>) \o <<>> = <<>>
  BY EmptySeq, ConcatEmptySeq
<1>3. /\ Route(cliRx, cliReading, toCli, ctlTx, ctlWriting) = <<>>
      /\ Route(ctlRx, ctlReading, toCtl, cliTx, cliWriting) = <<>>
  BY <1>1, <1>2 DEF Init, Route
<1> QED
  BY <1>3 DEF Init, ToClient!Init, ToController!Init

\* spawn_session's two tasks, the heartbeat and the two queues in between:
\* whatever fails and whenever, what the client's loop takes is a beginning of
\* what the controller's loop posted.
THEOREM SessionDeliversInOrder == Spec => DeliversInOrder
<1>1. Init => ToClient!Init
  BY PipesInit
<1>2. TypeOK /\ TypeOK' /\ [Next]_vars => [ToClient!Next]_(ToClient!vars)
  BY ToClientRefines
<1> QED
  BY <1>1, <1>2, SessionTypeOK, PTL DEF Spec, DeliversInOrder, ToClient!Spec

\* The same for what the client's loop answers (its clipboard, its notices).
THEOREM SessionAnswersInOrder == Spec => AnswersInOrder
<1>1. Init => ToController!Init
  BY PipesInit
<1>2. TypeOK /\ TypeOK' /\ [Next]_vars => [ToController!Next]_(ToController!vars)
  BY ToControllerRefines
<1> QED
  BY <1>1, <1>2, SessionTypeOK, PTL DEF Spec, AnswersInOrder, ToController!Spec
=============================================================================
