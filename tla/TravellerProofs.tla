--------------------------- MODULE TravellerProofs ---------------------------
(***************************************************************************)
(* What the two programs agree on, for every geometry, set of keys and of  *)
(* contents and every bound, whatever fails: who has the mouse, what the   *)
(* state is made of, where the client's pointer is going, and how the      *)
(* clipboards of the two machines are exchanged.                           *)
(***************************************************************************)
EXTENDS Traveller, OperatorProofs

\* A message from run_controller to run_client goes through three queues.
\* What they hold hands the mouse over and back: who has it after the first n
\* messages of a queue, if h had it before.

Holders == {"Local", "Remote"}

Enters(m) == m.type = "CursorEnter"
Leaves(m) == m.type = "CursorLeave"

HolderAt(h, q, n) ==
  IF \/ \E i \in 1 .. n : Enters(q[i]) /\ \A j \in i + 1 .. n : ~Leaves(q[j])
     \/ h = "Remote" /\ \A j \in 1 .. n : ~Leaves(q[j])
  THEN "Remote" ELSE "Local"

HolderAfter(h, q) == HolderAt(h, q, Len(q))

Turned(h, m) == IF Enters(m) THEN "Remote" ELSE IF Leaves(m) THEN "Local" ELSE h

\* May m come when h has the mouse?
Allowed(h, m) == m.type \in InputTypes => h = "Remote"

\* Nothing in the queue acts on the devices but during a visit.
Orderly(h, q) == \A n \in 1 .. Len(q) : Allowed(HolderAt(h, q, n - 1), q[n])

IsQueue(q) == \E T : q \in Seq(T)

LEMMA HolderType == \A h, q, n : HolderAt(h, q, n) \in Holders
BY DEF HolderAt, Holders

\* No message hands over and back at once.
LEMMA TurnedType == \A m : \A h \in Holders : Turned(h, m) \in Holders
BY DEF Turned, Holders

LEMMA EmptyQueue ==
  /\ IsQueue(<<>>)
  /\ \A h \in Holders : HolderAfter(h, <<>>) = h /\ Orderly(h, <<>>)
<1>1. <<>> \in Seq({}) /\ Len(<<>>) = 0
  BY EmptySeq
<1>2. IsQueue(<<>>)
  BY <1>1 DEF IsQueue
<1> QED
  BY <1>1, <1>2 DEF HolderAfter, HolderAt, Orderly, Holders

\* One more message.
LEMMA More ==
  ASSUME NEW q, IsQueue(q), NEW m
  PROVE  /\ IsQueue(Append(q, m))
         /\ \A h \in Holders :
              /\ HolderAfter(h, Append(q, m)) = Turned(HolderAfter(h, q), m)
              /\ Orderly(h, Append(q, m)) <=> Orderly(h, q) /\ Allowed(HolderAfter(h, q), m)
<1> PICK S : q \in Seq(S)
  BY DEF IsQueue
<1> DEFINE T == S \cup {m}
           r == Append(q, m)
           l == Len(q)
<1>1. q \in Seq(T) /\ m \in T
  BY SeqMonotonic
<1> HIDE DEF T
<1>2. r \in Seq(T) /\ l \in Nat /\ Len(r) = l + 1 /\ r[l + 1] = m /\ \A i \in 1 .. l : r[i] = q[i]
  BY <1>1, AppendProperties, LenProperties
<1>3. IsQueue(r)
  BY <1>2 DEF IsQueue
<1> SUFFICES ASSUME NEW h \in Holders
             PROVE  /\ HolderAfter(h, r) = Turned(HolderAfter(h, q), m)
                    /\ Orderly(h, r) <=> Orderly(h, q) /\ Allowed(HolderAfter(h, q), m)
  BY <1>3
<1> HIDE DEF r, l
<1>4. ASSUME NEW n \in 0 .. l PROVE HolderAt(h, r, n) = HolderAt(h, q, n)
  <2>1. \A i \in 1 .. n : r[i] = q[i] /\ \A j \in i + 1 .. n : r[j] = q[j]
    BY <1>2
  <2> QED
    BY <2>1 DEF HolderAt
<1>5. HolderAt(h, r, l + 1) = Turned(HolderAt(h, q, l), m)
  <2>1. CASE Enters(m)
    <3>1. l + 1 \in 1 .. l + 1 /\ Enters(r[l + 1])
      BY <1>2, <2>1
    <3>2. \A j \in (l + 1) + 1 .. l + 1 : ~Leaves(r[j])
      BY <1>2
    <3> QED
      BY <2>1, <3>1, <3>2 DEF HolderAt, Turned
  <2>2. CASE Leaves(m)
    <3>1. ~Enters(r[l + 1]) /\ Leaves(r[l + 1]) /\ l + 1 \in 1 .. l + 1
      BY <1>2, <2>2 DEF Enters, Leaves
    <3>2. \A i \in 1 .. l + 1 : i # l + 1 => l + 1 \in i + 1 .. l + 1
      BY <1>2
    <3> QED
      BY <2>2, <3>1, <3>2 DEF HolderAt, Turned, Enters, Leaves
  <2>3. CASE ~Enters(m) /\ ~Leaves(m)
    <3>1. (\A j \in 1 .. l + 1 : ~Leaves(r[j])) <=> (\A j \in 1 .. l : ~Leaves(q[j]))
      BY <1>2, <2>3
    <3>2. ASSUME NEW i \in 1 .. l
          PROVE  (\A j \in i + 1 .. l + 1 : ~Leaves(r[j])) <=> (\A j \in i + 1 .. l : ~Leaves(q[j]))
      <4>1. \A j \in i + 1 .. l : j \in i + 1 .. l + 1 /\ r[j] = q[j]
        BY <1>2
      <4>2. \A j \in i + 1 .. l + 1 : j \in i + 1 .. l \/ j = l + 1
        BY <1>2
      <4> QED
        BY <1>2, <2>3, <4>1, <4>2
    <3>3. (\E i \in 1 .. l + 1 : Enters(r[i]) /\ \A j \in i + 1 .. l + 1 : ~Leaves(r[j]))
            <=> (\E i \in 1 .. l : Enters(q[i]) /\ \A j \in i + 1 .. l : ~Leaves(q[j]))
      <4>1. \A i \in 1 .. l + 1 : i \in 1 .. l \/ i = l + 1
        BY <1>2
      <4>2. \A i \in 1 .. l : i \in 1 .. l + 1 /\ r[i] = q[i]
        BY <1>2
      <4> QED
        BY <1>2, <2>3, <3>2, <4>1, <4>2
    <3> QED
      BY <2>3, <3>1, <3>3 DEF HolderAt, Turned
  <2> QED
    BY <2>1, <2>2, <2>3
<1>6. Orderly(h, r) <=> Orderly(h, q) /\ Allowed(HolderAt(h, q, l), m)
  <2>1. \A n \in 1 .. l : n - 1 \in 0 .. l /\ r[n] = q[n] /\ n \in 1 .. l + 1
    BY <1>2
  <2>2. \A n \in 1 .. l : Allowed(HolderAt(h, r, n - 1), r[n]) <=> Allowed(HolderAt(h, q, n - 1), q[n])
    BY <1>4, <2>1
  <2>3. Allowed(HolderAt(h, r, (l + 1) - 1), r[l + 1]) <=> Allowed(HolderAt(h, q, l), m)
    BY <1>2, <1>4
  <2>4. l + 1 \in 1 .. l + 1 /\ \A n \in 1 .. l + 1 : n \in 1 .. l \/ n = l + 1
    BY <1>2
  <2> QED
    BY <1>2, <2>1, <2>2, <2>3, <2>4 DEF Orderly, l
<1> QED
  BY <1>2, <1>5, <1>6 DEF HolderAfter, l

\* One message less.
LEMMA Less ==
  ASSUME NEW q, IsQueue(q), q # <<>>
  PROVE  /\ IsQueue(Tail(q))
         /\ \A h \in Holders :
              /\ HolderAfter(h, q) = HolderAfter(Turned(h, Head(q)), Tail(q))
              /\ Orderly(h, q) <=> /\ Allowed(h, Head(q))
                                   /\ Orderly(Turned(h, Head(q)), Tail(q))
<1> PICK T : q \in Seq(T)
  BY DEF IsQueue
<1> DEFINE r == Tail(q)
           e == Head(q)
           l == Len(r)
<1>1. /\ r \in Seq(T) /\ l \in Nat /\ Len(q) = l + 1 /\ q[1] = e
      /\ \A i \in 1 .. l : r[i] = q[i + 1]
  BY HeadTailProperties, LenProperties
<1>2. IsQueue(r)
  BY <1>1 DEF IsQueue
<1> SUFFICES ASSUME NEW h \in Holders
             PROVE  /\ HolderAfter(h, q) = HolderAfter(Turned(h, e), r)
                    /\ Orderly(h, q) <=> Allowed(h, e) /\ Orderly(Turned(h, e), r)
  BY <1>2
<1> DEFINE k == Turned(h, e)
<1>3. k \in Holders /\ (k = "Remote" <=> Enters(e) \/ (h = "Remote" /\ ~Leaves(e)))
  BY DEF Turned, Holders, Enters, Leaves
<1> HIDE DEF r, e, l, k
<1>4. ASSUME NEW n \in 0 .. l PROVE HolderAt(h, q, n + 1) = HolderAt(k, r, n)
  <2>1. ASSUME NEW i \in 1 .. n
        PROVE  (\A j \in (i + 1) + 1 .. n + 1 : ~Leaves(q[j])) <=> (\A j \in i + 1 .. n : ~Leaves(r[j]))
    <3>1. \A j \in i + 1 .. n : j + 1 \in (i + 1) + 1 .. n + 1 /\ r[j] = q[j + 1]
      BY <1>1
    <3>2. \A j \in (i + 1) + 1 .. n + 1 : j - 1 \in i + 1 .. n /\ r[j - 1] = q[j]
      BY <1>1
    <3> QED
      BY <3>1, <3>2
  <2>2. (\A j \in 1 + 1 .. n + 1 : ~Leaves(q[j])) <=> (\A j \in 1 .. n : ~Leaves(r[j]))
    <3>1. \A j \in 1 .. n : j + 1 \in 1 + 1 .. n + 1 /\ r[j] = q[j + 1]
      BY <1>1
    <3>2. \A j \in 1 + 1 .. n + 1 : j - 1 \in 1 .. n /\ r[j - 1] = q[j]
      BY <1>1
    <3> QED
      BY <3>1, <3>2
  <2>3. (\A j \in 1 .. n + 1 : ~Leaves(q[j])) <=> ~Leaves(e) /\ (\A j \in 1 + 1 .. n + 1 : ~Leaves(q[j]))
    <3>1. 1 \in 1 .. n + 1 /\ \A j \in 1 .. n + 1 : j = 1 \/ j \in 1 + 1 .. n + 1
      OBVIOUS
    <3>2. \A j \in 1 + 1 .. n + 1 : j \in 1 .. n + 1
      OBVIOUS
    <3> QED
      BY <1>1, <3>1, <3>2
  <2>4. (\E i \in 1 .. n + 1 : Enters(q[i]) /\ \A j \in i + 1 .. n + 1 : ~Leaves(q[j]))
          <=> \/ Enters(e) /\ \A j \in 1 + 1 .. n + 1 : ~Leaves(q[j])
              \/ \E i \in 1 .. n : Enters(r[i]) /\ \A j \in i + 1 .. n : ~Leaves(r[j])
    <3>1. ASSUME NEW i \in 1 .. n + 1, Enters(q[i]), \A j \in i + 1 .. n + 1 : ~Leaves(q[j]), i # 1
          PROVE  \E g \in 1 .. n : Enters(r[g]) /\ \A j \in g + 1 .. n : ~Leaves(r[j])
      <4>1. i - 1 \in 1 .. n /\ r[i - 1] = q[i] /\ ((i - 1) + 1) + 1 = i + 1
        BY <1>1, <3>1
      <4>2. \A j \in (i - 1) + 1 .. n : ~Leaves(r[j])
        BY <2>1, <3>1, <4>1
      <4> QED
        BY <3>1, <4>1, <4>2
    <3>2. ASSUME NEW i \in 1 .. n, Enters(r[i]), \A j \in i + 1 .. n : ~Leaves(r[j])
          PROVE  \E g \in 1 .. n + 1 : Enters(q[g]) /\ \A j \in g + 1 .. n + 1 : ~Leaves(q[j])
      <4>1. i + 1 \in 1 .. n + 1 /\ q[i + 1] = r[i]
        BY <1>1
      <4> QED
        BY <2>1, <3>2, <4>1
    <3>3. 1 \in 1 .. n + 1
      OBVIOUS
    <3> QED
      BY <1>1, <3>1, <3>2, <3>3
  <2> QED
    BY <1>3, <2>2, <2>3, <2>4 DEF HolderAt
<1>5. HolderAfter(h, q) = HolderAfter(k, r)
  BY <1>1, <1>4 DEF HolderAfter, l
<1>6. Orderly(h, q) <=> Allowed(h, e) /\ Orderly(k, r)
  <2>1. HolderAt(h, q, 1 - 1) = h
    BY DEF HolderAt, Holders
  <2>2. ASSUME NEW n \in 1 .. l
        PROVE  Allowed(HolderAt(h, q, (n + 1) - 1), q[n + 1]) <=> Allowed(HolderAt(k, r, n - 1), r[n])
    <3>1. n - 1 \in 0 .. l /\ (n - 1) + 1 = n /\ (n + 1) - 1 = n
      BY <1>1
    <3>2. HolderAt(h, q, n) = HolderAt(k, r, n - 1)
      BY <1>4, <3>1
    <3> QED
      BY <1>1, <3>1, <3>2
  <2>3. /\ \A n \in 1 .. l + 1 : n = 1 \/ (n - 1 \in 1 .. l /\ (n - 1) + 1 = n)
        /\ \A n \in 1 .. l : n + 1 \in 1 .. l + 1
        /\ 1 \in 1 .. l + 1
    BY <1>1
  <2> QED
    BY <1>1, <2>1, <2>2, <2>3 DEF Orderly, l
<1> QED
  BY <1>5, <1>6 DEF k

\* A beginning of an orderly queue is orderly.
LEMMA Beginning ==
  ASSUME NEW q, IsQueue(q), NEW t \in Prefixes(q)
  PROVE  IsQueue(t) /\ \A h \in Holders : Orderly(h, q) => Orderly(h, t)
<1> PICK T : q \in Seq(T)
  BY DEF IsQueue
<1> PICK l \in 0 .. Len(q) : t = SubSeq(q, 1, l)
  BY DEF Prefixes
<1>1. t \in Seq(T) /\ Len(t) = l /\ \A i \in 1 .. l : t[i] = q[i]
  BY SubSeqProperties, LenProperties, ElementOfSeq
<1>2. IsQueue(t)
  BY <1>1 DEF IsQueue
<1>3. ASSUME NEW h \in Holders, Orderly(h, q), NEW n \in 1 .. l
      PROVE  Allowed(HolderAt(h, t, n - 1), t[n])
  <2>1. HolderAt(h, t, n - 1) = HolderAt(h, q, n - 1)
    <3>1. \A i \in 1 .. n - 1 : t[i] = q[i] /\ \A j \in i + 1 .. n - 1 : t[j] = q[j]
      BY <1>1, LenProperties
    <3> QED
      BY <3>1 DEF HolderAt
  <2>2. n \in 1 .. Len(q) /\ t[n] = q[n]
    BY <1>1, LenProperties
  <2> QED
    BY <1>3, <2>1, <2>2 DEF Orderly
<1> QED
  BY <1>1, <1>2, <1>3 DEF Orderly

-----------------------------------------------------------------------------
\* The inductive invariant.

Holder(v) == IF v THEN "Remote" ELSE "Local"

\* Who has the mouse when the client's loop has taken what it has received,
\* and when what is on its way has arrived as well.
HolderHeard == HolderAfter(Holder(visited), cliRx)
HolderSent  == HolderAfter(HolderHeard, toCli)

\* As long as what the controller posts gets to the client's loop, the client
\* will know in the end what the controller has told.
RouteInv ==
  /\ IsQueue(cliRx) /\ IsQueue(toCli) /\ IsQueue(ctlTx)
  /\ cliPc # "done" => Orderly(Holder(visited), cliRx)
  /\ cliPc # "done" /\ cliReading => Orderly(HolderHeard, toCli)
  /\ Connected => Orderly(HolderSent, ctlTx) /\ HolderAfter(HolderSent, ctlTx) = Holder(told)

\* The controller may come back without a word, but only when the session has
\* ended; it never has the client's mouse without having told.
ToldInv ==
  /\ mode \in Holders /\ told \in BOOLEAN
  /\ mode = "Remote" => told
  /\ ctlReading /\ pc # "done" => (told <=> mode = "Remote")

NoClosed(q) == \A i \in 1 .. Len(q) : q[i].type # "Closed"

\* Closed is no message: the loop hears it only of a reader that ends.
ClosedInv ==
  /\ IsQueue(ctlRx) /\ IsQueue(toCtl) /\ IsQueue(cliTx)
  /\ NoClosed(toCtl) /\ NoClosed(cliTx)
  /\ ctlReading => NoClosed(ctlRx)

MouseInv == RouteInv /\ ToldInv /\ ClosedInv

LEMMA HolderOf == \A v : Holder(v) \in Holders
BY DEF Holder, Holders

LEMMA HoldersOnTheWay == HolderHeard \in Holders /\ HolderSent \in Holders
BY HolderType DEF HolderHeard, HolderSent, HolderAfter

LEMMA MouseInit == Init => MouseInv
<1> SUFFICES ASSUME Init PROVE MouseInv
  OBVIOUS
<1>1. /\ cliRx = <<>> /\ toCli = <<>> /\ ctlTx = <<Ctl!Hello>> /\ ctlRx = <<>> /\ toCtl = <<>>
      /\ cliTx = <<>> /\ visited = FALSE /\ told = FALSE /\ mode = "Local"
  BY DEF Init, Ctl!Init, Cli!Init
<1>2. HolderHeard = "Local" /\ HolderSent = "Local"
  BY <1>1, EmptyQueue DEF HolderHeard, HolderSent, Holder, Holders
<1>3. /\ IsQueue(ctlTx) /\ Orderly("Local", ctlTx) /\ HolderAfter("Local", ctlTx) = "Local"
  <2>1. ctlTx = Append(<<>>, Ctl!Hello)
    BY <1>1
  <2>2. Ctl!Hello.type = "Hello"
    BY DEF Ctl!Hello
  <2>3. Allowed("Local", Ctl!Hello) /\ Turned("Local", Ctl!Hello) = "Local" /\ "Local" \in Holders
    BY <2>2 DEF Allowed, Turned, Enters, Leaves, Holders, InputTypes
  <2> QED
    BY <2>1, <2>3, EmptyQueue, More
<1>4. RouteInv
  BY <1>1, <1>2, <1>3, EmptyQueue DEF RouteInv, Holder, Holders
<1>5. ToldInv
  BY <1>1 DEF ToldInv, Holders
<1>6. ClosedInv
  BY <1>1, EmptyQueue, EmptySeq DEF ClosedInv, NoClosed
<1> QED
  BY <1>4, <1>5, <1>6 DEF MouseInv

-----------------------------------------------------------------------------
\* The controller's loop.

Posted(m) == ctlTx' = IF ctlWriting THEN Append(ctlTx, m) ELSE ctlTx

\* What the loop posts is allowed when it posts it, and told keeps up with it.
ControllerSays ==
  \/ UNCHANGED <<ctlTx, told>>
  \/ /\ told' \in BOOLEAN
     /\ \E m : /\ Posted(m) /\ Allowed(Holder(told), m)
               /\ Holder(told') = Turned(Holder(told), m)

LEMMA ControllerSpeaks ==
  ToldInv /\ Ctl!Loop => ControllerSays /\ UNCHANGED ctlWriting
<1> SUFFICES ASSUME ToldInv, Ctl!Loop PROVE ControllerSays /\ UNCHANGED ctlWriting
  OBVIOUS
<1>1. UNCHANGED ctlWriting
  BY DEF Ctl!Loop, Ctl!HandleInput, Ctl!HandleConnEvent, Ctl!RemainLocal, Ctl!EnterRemote,
     Ctl!RemainRemote, Ctl!ExitRemote, Ctl!HandleButton, Ctl!HandleWheel, Ctl!HandleKey,
     Ctl!EmergencyStop, Ctl!CaptureClosed, Ctl!HandleClipboard, Ctl!IgnoreMessage,
     Ctl!HandleClosed, Ctl!EventsEnded, Ctl!TickSend, Ctl!ParkEnds, Ctl!sendVars
<1>2. CASE Ctl!EnterRemote
  <2>1. PICK m : Posted(m) /\ m.type = "CursorEnter" /\ told' = TRUE
    BY <1>2 DEF Ctl!EnterRemote, Ctl!Post, Ctl!CursorEnter, Posted
  <2>2. Allowed(Holder(told), m) /\ Holder(told') = Turned(Holder(told), m)
    BY <2>1 DEF Allowed, InputTypes, Turned, Enters, Holder
  <2> QED
    BY <1>1, <2>1, <2>2 DEF ControllerSays
<1>3. CASE Ctl!ExitRemote
  <2>1. PICK m : Posted(m) /\ m.type = "CursorLeave" /\ told' = FALSE
    BY <1>3 DEF Ctl!ExitRemote, Ctl!AnnounceLeave, Ctl!Post, Ctl!CursorLeave, Posted
  <2>2. Allowed(Holder(told), m) /\ Holder(told') = Turned(Holder(told), m)
    BY <2>1 DEF Allowed, InputTypes, Turned, Enters, Leaves, Holder
  <2> QED
    BY <1>1, <2>1, <2>2 DEF ControllerSays
<1>4. ASSUME NEW m, Posted(m), UNCHANGED told, m.type \notin {"CursorEnter", "CursorLeave"},
             m.type \in InputTypes => mode = "Remote"
      PROVE  ControllerSays
  <2>1. Allowed(Holder(told), m) /\ Holder(told') = Turned(Holder(told), m)
    BY <1>4 DEF Allowed, Turned, Enters, Leaves, Holder, ToldInv
  <2> QED
    BY <1>4, <2>1 DEF ControllerSays, ToldInv
<1>5. CASE Ctl!RemainRemote
  <2>1. \E m : Posted(m) /\ m.type = "PointerMove" /\ mode = "Remote" /\ UNCHANGED told
    BY <1>5 DEF Ctl!RemainRemote, Ctl!Post, Ctl!PointerMove, Ctl!IsRemote, Posted
  <2> QED
    BY <1>1, <1>4, <2>1 DEF InputTypes
<1>6. CASE Ctl!HandleButton \/ Ctl!HandleWheel \/ Ctl!HandleKey
  <2>1. UNCHANGED told
    BY <1>6 DEF Ctl!HandleButton, Ctl!HandleWheel, Ctl!HandleKey
  <2>2. \/ UNCHANGED ctlTx
        \/ \E m : Posted(m) /\ m.type \in {"PointerButton", "Wheel", "Key"} /\ mode = "Remote"
    BY <1>6 DEF Ctl!HandleButton, Ctl!HandleWheel, Ctl!HandleKey, Ctl!RelayIfRemote, Ctl!Post,
       Ctl!PointerButton, Ctl!Wheel, Ctl!Key, Ctl!IsRemote, Posted
  <2> QED
    BY <1>1, <1>4, <2>1, <2>2 DEF ControllerSays
<1>7. CASE Ctl!TickSend
  <2>1. \E m : Posted(m) /\ m.type = "Clipboard" /\ UNCHANGED told
    BY <1>7 DEF Ctl!TickSend, Ctl!Post, Ctl!Clipboard, Posted
  <2> QED
    BY <1>1, <1>4, <2>1 DEF InputTypes
<1>8. CASE \/ Ctl!RemainLocal \/ Ctl!EmergencyStop \/ Ctl!CaptureClosed
           \/ Ctl!HandleConnEvent \/ Ctl!ParkEnds
  <2>1. UNCHANGED <<ctlTx, told>>
    BY <1>8 DEF Ctl!RemainLocal, Ctl!EmergencyStop, Ctl!CaptureClosed, Ctl!HandleConnEvent,
       Ctl!HandleClipboard, Ctl!IgnoreMessage, Ctl!HandleClosed, Ctl!EventsEnded, Ctl!ParkEnds,
       Ctl!sendVars
  <2> QED
    BY <1>1, <2>1 DEF ControllerSays
<1> QED
  BY <1>2, <1>3, <1>5, <1>6, <1>7, <1>8 DEF Ctl!Loop, Ctl!HandleInput

\* The focus changes with a word, or without one when the session has ended.
LEMMA ControllerTold ==
  ToldInv /\ ClosedInv /\ Ctl!Loop => ToldInv'
<1> SUFFICES ASSUME ToldInv, ClosedInv, Ctl!Loop PROVE ToldInv'
  OBVIOUS
<1>1. UNCHANGED ctlReading
  BY DEF Ctl!Loop, Ctl!HandleInput, Ctl!HandleConnEvent, Ctl!RemainLocal, Ctl!EnterRemote,
     Ctl!RemainRemote, Ctl!ExitRemote, Ctl!HandleButton, Ctl!HandleWheel, Ctl!HandleKey,
     Ctl!EmergencyStop, Ctl!CaptureClosed, Ctl!HandleClipboard, Ctl!IgnoreMessage,
     Ctl!HandleClosed, Ctl!EventsEnded, Ctl!TickSend, Ctl!ParkEnds, Ctl!eventVars
<1>2. CASE Ctl!EnterRemote
  BY <1>2 DEF Ctl!EnterRemote, ToldInv, Holders
<1>3. CASE Ctl!ExitRemote
  BY <1>3 DEF Ctl!ExitRemote, Ctl!AnnounceLeave, ToldInv, Holders
<1>4. CASE Ctl!EmergencyStop
  BY <1>4 DEF Ctl!EmergencyStop, Ctl!ForceLocal, ToldInv, Holders
<1>5. CASE Ctl!HandleClosed
  <2>1. ~ctlReading
    <3>1. ctlRx # <<>> /\ Head(ctlRx).type = "Closed"
      BY <1>5 DEF Ctl!HandleClosed, Ctl!TakeEvent
    <3>2. Len(ctlRx) \in Nat \ {0} /\ Head(ctlRx) = ctlRx[1]
      <4>1. PICK T : ctlRx \in Seq(T)
        BY DEF ClosedInv, IsQueue
      <4> QED
        BY <3>1, <4>1, EmptySeq, LenProperties
    <3> QED
      BY <3>1, <3>2 DEF ClosedInv, NoClosed
  <2>2. mode' = "Local" /\ UNCHANGED told
    BY <1>5 DEF Ctl!HandleClosed, Ctl!ForceLocal
  <2> QED
    BY <1>1, <2>1, <2>2 DEF ToldInv, Holders
<1>6. CASE \/ Ctl!RemainLocal \/ Ctl!RemainRemote \/ Ctl!HandleButton \/ Ctl!HandleWheel
           \/ Ctl!HandleKey \/ Ctl!CaptureClosed \/ Ctl!HandleClipboard \/ Ctl!IgnoreMessage
           \/ Ctl!EventsEnded \/ Ctl!TickSend \/ Ctl!ParkEnds
  <2>1. UNCHANGED <<mode, told>> /\ (pc' # "done" => pc # "done")
    BY <1>6 DEF Ctl!RemainLocal, Ctl!RemainRemote, Ctl!HandleButton, Ctl!HandleWheel,
       Ctl!HandleKey, Ctl!CaptureClosed, Ctl!HandleClipboard, Ctl!IgnoreMessage,
       Ctl!EventsEnded, Ctl!TickSend, Ctl!ParkEnds, Ctl!TakeInput, Ctl!TakeEvent,
       Ctl!coreVars, Ctl!focusVars, Ctl!parkVars
  <2> QED
    BY <1>1, <2>1 DEF ToldInv
<1> QED
  BY <1>2, <1>3, <1>4, <1>5, <1>6 DEF Ctl!Loop, Ctl!HandleInput, Ctl!HandleConnEvent

-----------------------------------------------------------------------------
\* What moves the mouse's messages along, step by step.

LEMMA NoClosedMore ==
  ASSUME NEW q, IsQueue(q), NoClosed(q), NEW m, m.type # "Closed"
  PROVE  NoClosed(Append(q, m))
<1> PICK S : q \in Seq(S)
  BY DEF IsQueue
<1> DEFINE T == S \cup {m}
<1>1. q \in Seq(T) /\ m \in T
  BY SeqMonotonic
<1> HIDE DEF T
<1>2. /\ Len(q) \in Nat /\ Len(Append(q, m)) = Len(q) + 1 /\ Append(q, m)[Len(q) + 1] = m
      /\ \A i \in 1 .. Len(q) : Append(q, m)[i] = q[i]
  BY <1>1, AppendProperties, LenProperties
<1>3. \A i \in 1 .. Len(q) + 1 : i \in 1 .. Len(q) \/ i = Len(q) + 1
  BY <1>2
<1> QED
  BY <1>2, <1>3 DEF NoClosed

LEMMA NoClosedLess ==
  ASSUME NEW q, IsQueue(q), NoClosed(q), q # <<>>
  PROVE  NoClosed(Tail(q)) /\ Head(q).type # "Closed"
<1> PICK T : q \in Seq(T)
  BY DEF IsQueue
<1>1. /\ Len(Tail(q)) \in Nat /\ Len(q) = Len(Tail(q)) + 1 /\ q[1] = Head(q)
      /\ \A i \in 1 .. Len(Tail(q)) : Tail(q)[i] = q[i + 1]
  BY HeadTailProperties, LenProperties
<1>2. 1 \in 1 .. Len(q) /\ \A i \in 1 .. Len(Tail(q)) : i + 1 \in 1 .. Len(q)
  BY <1>1
<1> QED
  BY <1>1, <1>2 DEF NoClosed

LEMMA NoClosedBeginning ==
  ASSUME NEW q, IsQueue(q), NoClosed(q), NEW t \in Prefixes(q)
  PROVE  NoClosed(t)
<1> PICK T : q \in Seq(T)
  BY DEF IsQueue
<1> PICK l \in 0 .. Len(q) : t = SubSeq(q, 1, l)
  BY DEF Prefixes
<1>1. Len(t) = l /\ \A i \in 1 .. l : t[i] = q[i]
  BY SubSeqProperties, LenProperties, ElementOfSeq
<1>2. \A i \in 1 .. l : i \in 1 .. Len(q)
  BY LenProperties
<1> QED
  BY <1>1, <1>2 DEF NoClosed

clientEnd == <<visited, cliPc, cliRx, cliReading>>
ctlSide   == <<ctlTx, ctlWriting, told>>

\* The controller's program posts a message, or does not.
LEMMA RouteSays ==
  ASSUME RouteInv, ControllerSays, UNCHANGED <<clientEnd, toCli, link, ctlWriting>>
  PROVE  RouteInv'
<1>1. HolderHeard' = HolderHeard /\ HolderSent' = HolderSent /\ Connected' = Connected
  BY DEF HolderHeard, HolderSent, Connected, clientEnd
<1>2. /\ IsQueue(cliRx') /\ IsQueue(toCli')
      /\ cliPc' # "done" => Orderly(Holder(visited'), cliRx')
      /\ cliPc' # "done" /\ cliReading' => Orderly(HolderHeard', toCli')
  BY <1>1 DEF RouteInv, clientEnd
<1>3. HolderSent \in Holders
  BY HoldersOnTheWay
<1>4. /\ IsQueue(ctlTx')
      /\ Connected => Orderly(HolderSent, ctlTx') /\ HolderAfter(HolderSent, ctlTx') = Holder(told')
  <2>1. CASE UNCHANGED <<ctlTx, told>>
    BY <2>1 DEF RouteInv
  <2>2. CASE ~UNCHANGED <<ctlTx, told>>
    <3>1. PICK m : /\ Posted(m) /\ Allowed(Holder(told), m)
                   /\ Holder(told') = Turned(Holder(told), m)
      BY <2>2 DEF ControllerSays
    <3>2. CASE ctlWriting
      <4>1. ctlTx' = Append(ctlTx, m)
        BY <3>1, <3>2 DEF Posted
      <4> QED
        BY <1>3, <3>1, <4>1, More DEF RouteInv
    <3>3. CASE ~ctlWriting
      BY <3>1, <3>3 DEF Posted, Connected, RouteInv
    <3> QED
      BY <3>2, <3>3
  <2> QED
    BY <2>1, <2>2
<1> QED
  BY <1>1, <1>2, <1>4 DEF RouteInv

\* The client's loop takes a message.
LEMMA RouteTakes ==
  ASSUME RouteInv, cliRx # <<>>, cliRx' = Tail(cliRx),
         UNCHANGED <<cliReading, toCli, link, ctlSide>>,
         cliPc = "select",
         \/ cliPc' = "done"
         \/ cliPc' = "select" /\ Holder(visited') = Turned(Holder(visited), Head(cliRx))
  PROVE  RouteInv'
<1>1. IsQueue(cliRx') /\ IsQueue(toCli') /\ IsQueue(ctlTx')
  BY Less DEF RouteInv, ctlSide
<1>2. CASE cliPc' = "done"
  BY <1>1, <1>2 DEF RouteInv, Connected
<1>3. CASE cliPc' = "select" /\ Holder(visited') = Turned(Holder(visited), Head(cliRx))
  <2>1. Holder(visited) \in Holders
    BY HolderOf
  <2>2. HolderHeard' = HolderHeard
    BY <1>3, <2>1, Less DEF HolderHeard, RouteInv
  <2>3. HolderSent' = HolderSent /\ Connected' = Connected
    BY <1>3, <2>2 DEF HolderSent, Connected, ctlSide
  <2>4. Orderly(Holder(visited'), cliRx')
    BY <1>3, <2>1, Less DEF RouteInv
  <2> QED
    BY <1>1, <1>3, <2>2, <2>3, <2>4 DEF RouteInv, ctlSide
<1> QED
  BY <1>2, <1>3

\* The client's reader task takes a frame from the connection.
LEMMA RouteReads ==
  ASSUME RouteInv, toCli # <<>>, cliRx' = Append(cliRx, Head(toCli)), toCli' = Tail(toCli),
         cliReading, UNCHANGED <<cliReading, visited, cliPc, link, ctlSide>>
  PROVE  RouteInv'
<1>1. IsQueue(cliRx') /\ IsQueue(toCli') /\ IsQueue(ctlTx')
  BY More, Less DEF RouteInv, ctlSide
<1>2. Holder(visited) \in Holders /\ HolderHeard \in Holders /\ Holder(visited') = Holder(visited)
  BY HolderOf, HoldersOnTheWay
<1>3. HolderHeard' = Turned(HolderHeard, Head(toCli))
  BY <1>2, More DEF HolderHeard, RouteInv
<1>4. HolderSent' = HolderSent /\ Connected' = Connected
  BY <1>2, <1>3, Less DEF HolderSent, Connected, RouteInv, ctlSide
<1>5. cliPc # "done" => /\ Allowed(HolderHeard, Head(toCli))
                        /\ Orderly(HolderHeard', toCli')
  BY <1>2, <1>3, Less DEF RouteInv
<1>6. cliPc # "done" => Orderly(Holder(visited'), cliRx')
  BY <1>2, <1>5, More DEF HolderHeard, RouteInv
<1> QED
  BY <1>1, <1>4, <1>5, <1>6 DEF RouteInv, ctlSide

\* The client's reader task ends.
LEMMA RouteReaderEnds ==
  ASSUME RouteInv, cliRx' = Append(cliRx, Closed), ~cliReading',
         toCli' = toCli \/ (toCli # <<>> /\ toCli' = Tail(toCli)),
         UNCHANGED <<visited, cliPc, link, ctlSide>>
  PROVE  RouteInv'
<1>1. IsQueue(cliRx') /\ IsQueue(toCli') /\ IsQueue(ctlTx') /\ ~Connected'
  BY More, Less DEF RouteInv, ctlSide, Connected
<1>2. Holder(visited) \in Holders /\ Holder(visited') = Holder(visited)
  BY HolderOf
<1>3. \A h : Allowed(h, Closed)
  BY DEF Allowed, Closed, InputTypes
<1>4. cliPc # "done" => Orderly(Holder(visited'), cliRx')
  BY <1>2, <1>3, More DEF RouteInv
<1> QED
  BY <1>1, <1>4 DEF RouteInv

\* The controller's writer task puts a message on the connection.
LEMMA RouteWrites ==
  ASSUME RouteInv, ctlWriting, ctlTx # <<>>, ctlTx' = Tail(ctlTx),
         IF link = "up" THEN toCli' = Append(toCli, Head(ctlTx)) ELSE UNCHANGED toCli,
         UNCHANGED <<clientEnd, link, ctlWriting, told>>
  PROVE  RouteInv'
<1>1. IsQueue(cliRx') /\ IsQueue(ctlTx') /\ IsQueue(toCli')
  BY More, Less DEF RouteInv, clientEnd
<1>2. /\ HolderHeard \in Holders /\ HolderSent \in Holders
      /\ HolderHeard' = HolderHeard /\ Connected' = Connected
  BY HoldersOnTheWay DEF HolderHeard, Connected, clientEnd
<1>3. cliPc' # "done" => Orderly(Holder(visited'), cliRx')
  BY DEF RouteInv, clientEnd
<1>4. CASE link # "up"
  BY <1>1, <1>2, <1>3, <1>4 DEF RouteInv, Connected, clientEnd
<1>5. CASE link = "up"
  <2>1. toCli' = Append(toCli, Head(ctlTx))
    BY <1>5
  <2>2. HolderSent' = Turned(HolderSent, Head(ctlTx))
    BY <1>2, <2>1, More DEF HolderSent, RouteInv
  <2>3. Connected => /\ Allowed(HolderSent, Head(ctlTx))
                     /\ Orderly(HolderSent', ctlTx')
                     /\ HolderAfter(HolderSent', ctlTx') = Holder(told')
    BY <1>2, <2>2, Less DEF RouteInv
  <2>4. cliPc' # "done" /\ cliReading' => Connected
    BY <1>5 DEF Connected, clientEnd
  <2>5. cliPc' # "done" /\ cliReading' => Orderly(HolderHeard', toCli')
    BY <1>2, <2>1, <2>3, <2>4, More DEF RouteInv, HolderSent, clientEnd
  <2> QED
    BY <1>1, <1>2, <1>3, <2>3, <2>5 DEF RouteInv
<1> QED
  BY <1>4, <1>5

\* The heartbeat hands nothing over.
LEMMA RouteBeats ==
  ASSUME RouteInv, toCli' = Append(toCli, Ping), UNCHANGED <<clientEnd, link, ctlSide>>
  PROVE  RouteInv'
<1>1. \A h : Allowed(h, Ping) /\ Turned(h, Ping) = h
  BY DEF Allowed, Ping, InputTypes, Turned, Enters, Leaves
<1>2. HolderHeard \in Holders /\ HolderHeard' = HolderHeard /\ Connected' = Connected
  BY HoldersOnTheWay DEF HolderHeard, Connected, clientEnd, ctlSide
<1>3. /\ HolderSent' = HolderSent /\ IsQueue(toCli')
      /\ Orderly(HolderHeard, toCli) => Orderly(HolderHeard', toCli')
  BY <1>1, <1>2, More DEF HolderSent, RouteInv
<1> QED
  BY <1>2, <1>3 DEF RouteInv, clientEnd, ctlSide

\* A task ends, or the connection: nothing more arrives than what had been sent.
LEMMA RouteEnds ==
  ASSUME RouteInv, ~Connected', IsQueue(ctlTx'), cliPc' = cliPc,
         \/ UNCHANGED <<visited, cliRx, cliReading>> /\ toCli' \in Prefixes(toCli) \cup {<<>>, toCli}
         \/ cliPc = "done" /\ cliRx' = <<>> /\ UNCHANGED toCli
  PROVE  RouteInv'
<1>1. CASE UNCHANGED <<visited, cliRx, cliReading>> /\ toCli' \in Prefixes(toCli) \cup {<<>>, toCli}
  <2>1. HolderHeard' = HolderHeard /\ HolderHeard \in Holders
    BY <1>1, HoldersOnTheWay DEF HolderHeard
  <2>2. IsQueue(toCli') /\ (Orderly(HolderHeard, toCli) => Orderly(HolderHeard, toCli'))
    BY <1>1, <2>1, Beginning, EmptyQueue DEF RouteInv
  <2> QED
    BY <1>1, <2>1, <2>2 DEF RouteInv
<1>2. CASE cliPc = "done" /\ cliRx' = <<>> /\ UNCHANGED toCli
  BY <1>2, EmptyQueue DEF RouteInv
<1> QED
  BY <1>1, <1>2

-----------------------------------------------------------------------------
\* The steps of the system.

\* What a message may do to the client.
LEMMA ClientTakes ==
  ASSUME Cli!HandleEvent
  PROVE  /\ cliRx # <<>> /\ cliRx' = Tail(cliRx) /\ cliPc = "select"
         /\ \/ cliPc' = "done" /\ UNCHANGED <<visited, Cli!deviceVars>>
            \/ cliPc' = "select" /\ Holder(visited') = Turned(Holder(visited), Head(cliRx))
         /\ cliTx' = cliTx \/ cliTx' = Append(cliTx, Pong)
<1>1. /\ cliRx # <<>> /\ cliRx' = Tail(cliRx) /\ cliPc = "select"
      /\ cliTx' = cliTx \/ cliTx' = Append(cliTx, Pong)
  BY DEF Cli!HandleEvent, Cli!HandleEnter, Cli!HandleLeave, Cli!HandleMove, Cli!HandleButton,
     Cli!HandleKey, Cli!HandleOther, Cli!InjectionFails, Cli!HandleClipboard, Cli!HandlePing,
     Cli!HandleClosed, Cli!TakeEvent, Cli!Post, Cli!Pong, Pong
<1>2. CASE Cli!HandleEnter
  BY <1>1, <1>2 DEF Cli!HandleEnter, Cli!TakeEvent, Turned, Enters, Holder
<1>3. CASE Cli!HandleLeave
  BY <1>1, <1>3 DEF Cli!HandleLeave, Cli!TakeEvent, Turned, Enters, Leaves, Holder
<1>4. CASE \/ Cli!HandleMove \/ Cli!HandleButton \/ Cli!HandleKey
           \/ Cli!HandleOther \/ Cli!HandleClipboard \/ Cli!HandlePing
  <2>1. UNCHANGED Cli!loopVars /\ Head(cliRx).type \notin {"CursorEnter", "CursorLeave"}
    BY <1>4 DEF Cli!HandleMove, Cli!HandleButton, Cli!HandleKey, Cli!HandleOther,
       Cli!HandleClipboard, Cli!HandlePing, Cli!TakeEvent, InputTypes
  <2> QED
    BY <1>1, <2>1 DEF Cli!loopVars, Turned, Enters, Leaves
<1>5. CASE Cli!InjectionFails \/ Cli!HandleClosed
  BY <1>1, <1>5 DEF Cli!InjectionFails, Cli!HandleClosed
<1> QED
  BY <1>1, <1>2, <1>3, <1>4, <1>5 DEF Cli!HandleEvent

CtlLoopSteps == CtlHandlesEvent \/ CtlHandlesInput \/ CtlPolls \/ CtlUnparks
OtherSteps   == CtlUser \/ CliUser \/ GivesUp

LEMMA LoopSteps == CtlLoopSteps => Ctl!Loop /\ CtlOnly
BY DEF CtlLoopSteps, CtlHandlesEvent, CtlHandlesInput, CtlPolls, CtlUnparks, Ctl!Loop

\* The users of the two machines and the OS touch none of the three queues.
LEMMA OtherStepsLeave ==
  OtherSteps => UNCHANGED <<clientEnd, ctlSide, toCli, link, mode, pc, ctlReading,
                            ctlRx, toCtl, cliTx, Cli!deviceVars>>
<1>1. CtlUser => UNCHANGED <<clientEnd, ctlSide, toCli, link, mode, pc, ctlReading,
                             ctlRx, toCtl, cliTx, Cli!deviceVars>>
  BY DEF CtlUser, Ctl!Capture, Ctl!UserCopies, Ctl!CaptureEnds, CtlOnly,
     Ctl!coreVars, Ctl!focusVars, Ctl!parkVars, Ctl!eventVars, Ctl!sendVars, cliLoopVars,
     cliEndVars, cliQueues, wires, clientEnd, ctlSide, Cli!deviceVars, Cli!heldVars
<1>2. CliUser => UNCHANGED <<clientEnd, ctlSide, toCli, link, mode, pc, ctlReading,
                             ctlRx, toCtl, cliTx, Cli!deviceVars>>
  BY DEF CliUser, Cli!UserCopies, CliOnly, ctlLoopVars, ctlEndVars, ctlQueues,
     wires, clientEnd, ctlSide, Cli!deviceVars, Cli!heldVars, Cli!loopVars
<1>3. GivesUp => UNCHANGED <<clientEnd, ctlSide, toCli, link, mode, pc, ctlReading,
                             ctlRx, toCtl, cliTx, Cli!deviceVars>>
  BY DEF GivesUp, CtlEnd!GiveUp, CliEnd!GiveUp, CtlEnd!readerVars, CtlEnd!writerVars,
     CliEnd!readerVars, CliEnd!writerVars, ctlLoopVars, cliLoopVars, ctlEndVars, cliEndVars,
     ctlQueues, cliQueues, clientEnd, ctlSide, Cli!deviceVars, Cli!heldVars
<1> QED
  BY <1>1, <1>2, <1>3 DEF OtherSteps

LEMMA RouteStep == MouseInv /\ Next => RouteInv'
<1> SUFFICES ASSUME MouseInv, Next PROVE RouteInv'
  OBVIOUS
<1>a. RouteInv /\ ToldInv
  BY DEF MouseInv
<1>1. CASE CtlLoopSteps
  <2>1. ControllerSays /\ UNCHANGED ctlWriting
    BY <1>1, <1>a, LoopSteps, ControllerSpeaks
  <2>2. UNCHANGED <<clientEnd, toCli, link>>
    BY <1>1, LoopSteps DEF CtlOnly, cliLoopVars, cliEndVars, cliQueues, wires, clientEnd
  <2> QED
    BY <1>a, <2>1, <2>2, RouteSays
<1>2. CASE OtherSteps
  <2>1. UNCHANGED <<clientEnd, ctlSide, toCli, link>>
    BY <1>2, OtherStepsLeave
  <2> QED
    BY <1>a, <2>1, RouteSays DEF ControllerSays, ctlSide
<1>3. CASE CliHandlesEvent
  <2>1. UNCHANGED <<cliReading, toCli, link, ctlSide>>
    BY <1>3 DEF CliHandlesEvent, CliOnly, Cli!HandleEvent, Cli!HandleEnter, Cli!HandleLeave,
       Cli!HandleMove, Cli!HandleButton, Cli!HandleKey, Cli!HandleOther, Cli!InjectionFails,
       Cli!HandleClipboard, Cli!HandlePing, Cli!HandleClosed, ctlLoopVars, ctlEndVars,
       ctlQueues, wires, ctlSide
  <2>2. Cli!HandleEvent
    BY <1>3 DEF CliHandlesEvent
  <2> QED
    BY <1>a, <2>1, <2>2, ClientTakes, RouteTakes
<1>4. CASE CliPolls
  <2>1. UNCHANGED <<clientEnd, ctlSide, toCli, link>>
    BY <1>4 DEF CliPolls, Cli!TickSend, CliOnly, ctlLoopVars, ctlEndVars, ctlQueues, wires,
       clientEnd, ctlSide, Cli!loopVars
  <2> QED
    BY <1>a, <2>1, RouteSays DEF ControllerSays, ctlSide
<1>5. CASE CtlReads
  <2>1. UNCHANGED <<clientEnd, toCli, link, ctlWriting, told>>
    BY <1>5 DEF CtlReads, CtlEnd!Reader, CtlEnd!ReadMessage, CtlEnd!ReadPing, CtlEnd!ReadQuit,
       CtlEnd!ReadFails, CtlEnd!writerVars, CtlEnd!connVars, ctlLoopVars, cliLoopVars,
       cliEndVars, cliQueues, clientEnd
  <2>2. ctlTx' = ctlTx \/ (ctlWriting /\ ctlTx' = Append(ctlTx, Pong))
    BY <1>5 DEF CtlReads, CtlEnd!Reader, CtlEnd!ReadMessage, CtlEnd!ReadPing, CtlEnd!ReadQuit,
       CtlEnd!ReadFails, CtlEnd!writerVars, CtlEnd!Pong, Pong
  <2>3. \A h : Allowed(h, Pong) /\ Turned(h, Pong) = h
    BY DEF Allowed, Pong, InputTypes, Turned, Enters, Leaves
  <2>4. ControllerSays
    BY <1>a, <2>1, <2>2, <2>3 DEF ControllerSays, Posted, ToldInv
  <2> QED
    BY <1>a, <2>1, <2>4, RouteSays
<1>6. CASE CliReads
  <2>1. UNCHANGED <<visited, cliPc, link, ctlSide>>
    BY <1>6 DEF CliReads, CliEnd!Reader, CliEnd!ReadMessage, CliEnd!ReadPing, CliEnd!ReadQuit,
       CliEnd!ReadFails, CliEnd!connVars, ctlLoopVars, cliLoopVars, ctlEndVars, ctlQueues,
       ctlSide
  <2>2. \/ /\ cliReading /\ UNCHANGED cliReading /\ toCli # <<>>
           /\ cliRx' = Append(cliRx, Head(toCli)) /\ toCli' = Tail(toCli)
        \/ /\ ~cliReading' /\ cliRx' = Append(cliRx, Closed)
           /\ toCli' = toCli \/ (toCli # <<>> /\ toCli' = Tail(toCli))
    BY <1>6 DEF CliReads, CliEnd!Reader, CliEnd!ReadMessage, CliEnd!ReadPing, CliEnd!ReadQuit,
       CliEnd!ReadFails, CliEnd!Ping, CliEnd!Closed, Closed
  <2> QED
    BY <1>a, <2>1, <2>2, RouteReads, RouteReaderEnds
<1>7. CASE CtlWrites
  <2>1. UNCHANGED <<clientEnd, link, told>>
    BY <1>7 DEF CtlWrites, CtlEnd!Write, CtlEnd!WriteFails, CtlEnd!BeatFails, CtlEnd!WriterGone,
       CtlEnd!connVars, ctlLoopVars, cliLoopVars, cliEndVars, cliQueues, clientEnd
  <2>2. CASE CtlEnd!Write
    <3>1. /\ ctlWriting /\ ctlTx # <<>> /\ ctlTx' = Tail(ctlTx) /\ UNCHANGED ctlWriting
          /\ IF link = "up" THEN toCli' = Append(toCli, Head(ctlTx)) ELSE UNCHANGED toCli
      BY <2>2 DEF CtlEnd!Write, CtlEnd!PutOnWire
    <3> QED
      BY <1>a, <2>1, <3>1, RouteWrites
  <2>3. CASE CtlEnd!WriteFails \/ CtlEnd!BeatFails
    <3>1. ~ctlWriting' /\ ctlTx' = <<>> /\ UNCHANGED toCli
      BY <2>3 DEF CtlEnd!WriteFails, CtlEnd!BeatFails, CtlEnd!WriterGone
    <3>2. ~Connected' /\ IsQueue(ctlTx')
      BY <3>1, EmptyQueue DEF Connected
    <3> QED
      BY <1>a, <2>1, <3>1, <3>2, RouteEnds DEF clientEnd
  <2> QED
    BY <1>7, <2>2, <2>3 DEF CtlWrites
<1>8. CASE CliWrites
  <2>1. UNCHANGED <<clientEnd, ctlSide, toCli, link>>
    BY <1>8 DEF CliWrites, CliEnd!Write, CliEnd!WriteFails, CliEnd!WriterGone,
       CliEnd!readerVars, CliEnd!connVars, ctlLoopVars, cliLoopVars, ctlEndVars, ctlQueues,
       clientEnd, ctlSide
  <2> QED
    BY <1>a, <2>1, RouteSays DEF ControllerSays, ctlSide
<1>9. CASE CtlBeats
  <2>1. UNCHANGED <<clientEnd, link, ctlSide>>
    BY <1>9 DEF CtlBeats, CtlEnd!Beat, CtlEnd!writerVars, CtlEnd!connVars, ctlLoopVars,
       cliLoopVars, cliEndVars, cliQueues, clientEnd, ctlSide
  <2>2. toCli' = Append(toCli, Ping) \/ UNCHANGED toCli
    BY <1>9 DEF CtlBeats, CtlEnd!Beat, CtlEnd!PutOnWire, CtlEnd!Ping, Ping
  <2> QED
    BY <1>a, <2>1, <2>2, RouteBeats, RouteSays DEF ControllerSays, ctlSide
<1>10. CASE CtlExits
  <2>1. /\ UNCHANGED <<clientEnd, toCli>>
        /\ ~ctlWriting' /\ ctlTx' = <<>>
    BY <1>10 DEF CtlExits, CtlEnd!Exit, cliLoopVars, cliEndVars, cliQueues, clientEnd
  <2>2. ~Connected' /\ IsQueue(ctlTx')
    BY <2>1, EmptyQueue DEF Connected
  <2> QED
    BY <1>a, <2>1, <2>2, RouteEnds DEF clientEnd
<1>11. CASE CliExits
  <2>1. /\ cliPc = "done" /\ UNCHANGED <<cliPc, toCli, ctlTx>>
        /\ cliRx' = <<>> /\ ~cliReading'
    BY <1>11 DEF CliExits, CliEnd!Exit, cliLoopVars, ctlEndVars, ctlQueues
  <2>2. ~Connected' /\ IsQueue(ctlTx')
    BY <1>a, <2>1 DEF Connected, RouteInv
  <2> QED
    BY <1>a, <2>1, <2>2, RouteEnds
<1>12. CASE Closes
  <2>1. /\ UNCHANGED <<clientEnd, ctlTx>> /\ link' = "closed"
        /\ toCli' \in Prefixes(toCli) \cup {<<>>, toCli}
    BY <1>12 DEF Closes, cliLoopVars, cliEndVars, cliQueues, ctlEndVars, ctlQueues, clientEnd
  <2>2. ~Connected' /\ IsQueue(ctlTx')
    BY <1>a, <2>1 DEF Connected, RouteInv
  <2> QED
    BY <1>a, <2>1, <2>2, RouteEnds DEF clientEnd
<1> QED
  BY <1>1, <1>2, <1>3, <1>4, <1>5, <1>6, <1>7, <1>8, <1>9, <1>10, <1>11, <1>12
     DEF Next, CtlLoopSteps, OtherSteps

LEMMA ToldStep == MouseInv /\ Next => ToldInv'
<1> SUFFICES ASSUME MouseInv, Next PROVE ToldInv'
  OBVIOUS
<1>a. ToldInv /\ ClosedInv
  BY DEF MouseInv
<1>1. CASE CtlLoopSteps
  BY <1>1, <1>a, LoopSteps, ControllerTold
<1>2. CASE OtherSteps
  BY <1>2, <1>a, OtherStepsLeave DEF ToldInv, ctlSide
<1>3. CASE CliHandlesEvent \/ CliPolls
  BY <1>3, <1>a DEF CliHandlesEvent, CliPolls, CliOnly, ctlLoopVars, ctlEndVars, ctlQueues, ToldInv
<1>4. CASE CliReads \/ CliWrites \/ CliExits
  BY <1>4, <1>a DEF CliReads, CliWrites, CliExits, ctlLoopVars, ctlEndVars, ctlQueues, ToldInv
<1>5. CASE CtlReads
  <2>1. ctlReading' => ctlReading
    BY <1>5 DEF CtlReads, CtlEnd!Reader, CtlEnd!ReadMessage, CtlEnd!ReadPing, CtlEnd!ReadQuit,
       CtlEnd!ReadFails
  <2> QED
    BY <1>5, <1>a, <2>1 DEF CtlReads, ctlLoopVars, ToldInv
<1>6. CASE CtlWrites \/ CtlBeats
  <2>1. UNCHANGED ctlReading
    BY <1>6 DEF CtlWrites, CtlEnd!Write, CtlEnd!WriteFails, CtlEnd!BeatFails, CtlEnd!WriterGone,
       CtlBeats, CtlEnd!Beat, CtlEnd!readerVars
  <2> QED
    BY <1>6, <1>a, <2>1 DEF CtlWrites, CtlBeats, ctlLoopVars, ToldInv
<1>7. CASE CtlExits
  BY <1>7, <1>a DEF CtlExits, CtlEnd!Exit, ctlLoopVars, ToldInv
<1>8. CASE Closes
  BY <1>8, <1>a DEF Closes, ctlLoopVars, ctlEndVars, ctlQueues, ToldInv
<1> QED
  BY <1>1, <1>2, <1>3, <1>4, <1>5, <1>6, <1>7, <1>8 DEF Next, CtlLoopSteps, OtherSteps

\* The loop of the controller takes events, and never posts one to itself.
LEMMA LoopTakes ==
  Ctl!Loop => UNCHANGED ctlReading /\ (ctlRx' = ctlRx \/ (ctlRx # <<>> /\ ctlRx' = Tail(ctlRx)))
BY DEF Ctl!Loop, Ctl!HandleInput, Ctl!HandleConnEvent, Ctl!RemainLocal, Ctl!EnterRemote,
   Ctl!RemainRemote, Ctl!ExitRemote, Ctl!HandleButton, Ctl!HandleWheel, Ctl!HandleKey,
   Ctl!EmergencyStop, Ctl!CaptureClosed, Ctl!HandleClipboard, Ctl!IgnoreMessage,
   Ctl!HandleClosed, Ctl!EventsEnded, Ctl!TickSend, Ctl!ParkEnds, Ctl!eventVars, Ctl!TakeEvent

LEMMA ClosedStep == MouseInv /\ Next => ClosedInv'
<1> SUFFICES ASSUME MouseInv, Next PROVE ClosedInv'
  OBVIOUS
<1>a. ClosedInv
  BY DEF MouseInv
<1>b. Ping.type # "Closed" /\ Pong.type # "Closed"
  BY DEF Ping, Pong
<1>c. IsQueue(<<>>) /\ NoClosed(<<>>)
  BY EmptyQueue, EmptySeq DEF NoClosed
<1>1. CASE CtlLoopSteps
  <2>1. UNCHANGED <<toCtl, cliTx>>
    BY <1>1, LoopSteps DEF CtlOnly, wires, cliEndVars, cliQueues
  <2>2. UNCHANGED ctlReading /\ (ctlRx' = ctlRx \/ (ctlRx # <<>> /\ ctlRx' = Tail(ctlRx)))
    BY <1>1, LoopSteps, LoopTakes
  <2> QED
    BY <1>a, <2>1, <2>2, Less, NoClosedLess DEF ClosedInv
<1>2. CASE OtherSteps
  BY <1>2, <1>a, OtherStepsLeave DEF ClosedInv
<1>3. CASE CliHandlesEvent
  <2>1. UNCHANGED <<ctlRx, ctlReading, toCtl>> /\ (cliTx' = cliTx \/ cliTx' = Append(cliTx, Pong))
    BY <1>3, ClientTakes DEF CliHandlesEvent, CliOnly, ctlEndVars, ctlQueues, wires
  <2> QED
    BY <1>a, <1>b, <2>1, More, NoClosedMore DEF ClosedInv
<1>4. CASE CliPolls
  <2>1. PICK m : m.type # "Closed" /\ (cliTx' = cliTx \/ cliTx' = Append(cliTx, m))
    <3>1. Cli!Clipboard(cliClipboard.clip).type = "Closed" => FALSE
      BY DEF Cli!Clipboard
    <3> QED
      BY <1>4, <3>1 DEF CliPolls, Cli!TickSend, Cli!Post
  <2>2. UNCHANGED <<ctlRx, ctlReading, toCtl>>
    BY <1>4 DEF CliPolls, CliOnly, ctlEndVars, ctlQueues, wires
  <2> QED
    BY <1>a, <2>1, <2>2, More, NoClosedMore DEF ClosedInv
<1>5. CASE CtlReads
  <2>1. UNCHANGED cliTx
    BY <1>5 DEF CtlReads, cliEndVars, cliQueues
  <2>2. CASE ctlReading'
    <3>1. /\ ctlReading /\ toCtl # <<>> /\ toCtl' = Tail(toCtl)
          /\ ctlRx' = Append(ctlRx, Head(toCtl))
      BY <1>5, <2>2 DEF CtlReads, CtlEnd!Reader, CtlEnd!ReadMessage, CtlEnd!ReadPing,
         CtlEnd!ReadQuit, CtlEnd!ReadFails
    <3>2. NoClosed(toCtl') /\ IsQueue(toCtl') /\ Head(toCtl).type # "Closed"
      BY <1>a, <3>1, Less, NoClosedLess DEF ClosedInv
    <3>3. NoClosed(ctlRx') /\ IsQueue(ctlRx')
      BY <1>a, <3>1, <3>2, More, NoClosedMore DEF ClosedInv
    <3> QED
      BY <1>a, <2>1, <3>2, <3>3 DEF ClosedInv
  <2>3. CASE ~ctlReading'
    <3>1. /\ toCtl' = toCtl \/ (toCtl # <<>> /\ toCtl' = Tail(toCtl))
          /\ \E m : ctlRx' = Append(ctlRx, m)
      BY <1>5, <2>3 DEF CtlReads, CtlEnd!Reader, CtlEnd!ReadMessage, CtlEnd!ReadPing,
         CtlEnd!ReadQuit, CtlEnd!ReadFails
    <3> QED
      BY <1>a, <2>1, <2>3, <3>1, More, Less, NoClosedLess DEF ClosedInv
  <2> QED
    BY <2>2, <2>3
<1>6. CASE CliReads
  <2>1. UNCHANGED <<ctlRx, ctlReading, toCtl>> /\ (cliTx' = cliTx \/ cliTx' = Append(cliTx, Pong))
    BY <1>6 DEF CliReads, CliEnd!Reader, CliEnd!ReadMessage, CliEnd!ReadPing, CliEnd!ReadQuit,
       CliEnd!ReadFails, CliEnd!writerVars, CliEnd!connVars, CliEnd!Pong, Pong,
       ctlEndVars, ctlQueues
  <2> QED
    BY <1>a, <1>b, <2>1, More, NoClosedMore DEF ClosedInv
<1>7. CASE CtlWrites \/ CtlBeats
  <2>1. UNCHANGED <<ctlRx, ctlReading, toCtl, cliTx>>
    BY <1>7 DEF CtlWrites, CtlEnd!Write, CtlEnd!WriteFails, CtlEnd!BeatFails, CtlEnd!WriterGone,
       CtlBeats, CtlEnd!Beat, CtlEnd!readerVars, cliEndVars, cliQueues
  <2> QED
    BY <1>a, <2>1 DEF ClosedInv
<1>8. CASE CliWrites
  <2>1. UNCHANGED <<ctlRx, ctlReading>>
    BY <1>8 DEF CliWrites, ctlEndVars, ctlQueues
  <2>2. \/ /\ cliTx # <<>> /\ cliTx' = Tail(cliTx)
           /\ toCtl' = toCtl \/ toCtl' = Append(toCtl, Head(cliTx))
        \/ cliTx' = <<>> /\ UNCHANGED toCtl
    BY <1>8 DEF CliWrites, CliEnd!Write, CliEnd!WriteFails, CliEnd!WriterGone, CliEnd!PutOnWire
  <2> QED
    BY <1>a, <1>c, <2>1, <2>2, More, Less, NoClosedMore, NoClosedLess DEF ClosedInv
<1>9. CASE CtlExits
  BY <1>9, <1>a, <1>c DEF CtlExits, CtlEnd!Exit, cliEndVars, cliQueues, ClosedInv
<1>10. CASE CliExits
  BY <1>10, <1>a, <1>c DEF CliExits, CliEnd!Exit, ctlEndVars, ctlQueues, ClosedInv
<1>11. CASE Closes
  <2>1. UNCHANGED <<ctlRx, ctlReading, cliTx>> /\ toCtl' \in Prefixes(toCtl) \cup {<<>>}
    BY <1>11 DEF Closes, cliEndVars, cliQueues, ctlEndVars, ctlQueues
  <2> QED
    BY <1>a, <1>c, <2>1, Beginning, NoClosedBeginning DEF ClosedInv
<1> QED
  BY <1>1, <1>2, <1>3, <1>4, <1>5, <1>6, <1>7, <1>8, <1>9, <1>10, <1>11
     DEF Next, CtlLoopSteps, OtherSteps

LEMMA MouseInvariant == Spec => []MouseInv
<1>1. MouseInv /\ [Next]_vars => MouseInv'
  <2>1. CASE Next
    BY <2>1, RouteStep, ToldStep, ClosedStep DEF MouseInv
  <2>2. MouseInv /\ UNCHANGED vars => MouseInv'
    BY DEF MouseInv, RouteInv, ToldInv, ClosedInv, HolderHeard, HolderSent, Connected, vars,
       ctlLoopVars, cliLoopVars, ctlEndVars, cliEndVars, ctlQueues, cliQueues, wires
  <2> QED
    BY <2>1, <2>2
<1> QED
  BY <1>1, MouseInit, PTL DEF Spec

-----------------------------------------------------------------------------

\* A step moves the client's devices only while the client takes itself to be
\* visited.
LEMMA VisitedStep ==
  ASSUME MouseInv, Next, UNCHANGED Cli!deviceVars => FALSE
  PROVE  visited'
<1>1. CASE CliHandlesEvent
  <2>1. Cli!HandleEvent /\ cliPc # "done" /\ cliRx # <<>>
    BY <1>1, ClientTakes DEF CliHandlesEvent
  <2>2. CASE Cli!HandleEnter
    BY <2>2 DEF Cli!HandleEnter
  <2>3. CASE Cli!HandleMove \/ Cli!HandleButton \/ Cli!HandleKey
    <3>1. Head(cliRx).type \in InputTypes /\ UNCHANGED visited
      BY <2>3 DEF Cli!HandleMove, Cli!HandleButton, Cli!HandleKey, Cli!TakeEvent, Cli!loopVars,
         InputTypes
    <3>2. Allowed(Holder(visited), Head(cliRx))
      BY <2>1, HolderOf, Less DEF MouseInv, RouteInv
    <3> QED
      BY <3>1, <3>2 DEF Allowed, Holder
  <2>4. CASE \/ Cli!HandleLeave \/ Cli!HandleOther \/ Cli!InjectionFails
             \/ Cli!HandleClipboard \/ Cli!HandlePing \/ Cli!HandleClosed
    BY <2>4 DEF Cli!HandleLeave, Cli!HandleOther, Cli!InjectionFails, Cli!HandleClipboard,
       Cli!HandlePing, Cli!HandleClosed
  <2> QED
    BY <2>1, <2>2, <2>3, <2>4 DEF Cli!HandleEvent
<1>2. CASE CliPolls
  BY <1>2 DEF CliPolls, Cli!TickSend
<1>3. CASE OtherSteps
  BY <1>3, OtherStepsLeave
<1>4. CASE CtlLoopSteps
  BY <1>4, LoopSteps DEF CtlOnly, cliLoopVars, Cli!deviceVars, Cli!heldVars
<1>5. CASE \/ CtlReads \/ CliReads \/ CtlWrites \/ CliWrites \/ CtlBeats
           \/ CtlExits \/ CliExits \/ Closes
  BY <1>5 DEF CtlReads, CliReads, CtlWrites, CliWrites, CtlBeats, CtlExits, CliExits, Closes,
     cliLoopVars, Cli!deviceVars, Cli!heldVars
<1> QED
  BY <1>1, <1>2, <1>3, <1>4, <1>5 DEF Next, CtlLoopSteps, OtherSteps

\* run_controller, the two sessions and run_client together: whatever the
\* delays and whatever fails, the pointer, the keys and the buttons of the
\* client move between CursorEnter and CursorLeave only.
THEOREM TravellerMovesOnlyWhenVisited == Spec => MovesOnlyWhenVisited
<1>1. MouseInv /\ [Next]_vars =>
        [<<pointer, keysDown, buttonsDown>>' # <<pointer, keysDown, buttonsDown>> => visited']_vars
  BY VisitedStep DEF Cli!deviceVars, Cli!heldVars
<1> QED
  BY <1>1, MouseInvariant, PTL DEF Spec, MovesOnlyWhenVisited

\* focus.rs, the two queues of either session and run_client: once everything
\* sent has been handled, the two programs agree on who has the mouse.
THEOREM TravellerAgreeWhenCaughtUp == Spec => []AgreeWhenCaughtUp
<1>1. MouseInv => AgreeWhenCaughtUp
  <2> SUFFICES ASSUME MouseInv, Connected, ctlReading, pc # "done",
                      cliRx = <<>>, toCli = <<>>, ctlTx = <<>>
               PROVE  visited <=> mode = "Remote"
    BY DEF AgreeWhenCaughtUp
  <2>1. Holder(visited) \in Holders
    BY HolderOf
  <2>2. Holder(visited) = Holder(told)
    BY <2>1, EmptyQueue DEF MouseInv, RouteInv, HolderHeard, HolderSent
  <2>3. told <=> mode = "Remote"
    BY DEF MouseInv, ToldInv
  <2> QED
    BY <2>2, <2>3 DEF Holder
<1> QED
  BY <1>1, MouseInvariant, PTL

-----------------------------------------------------------------------------

\* What every variable of the composition is made of.  The queues hold what
\* the other program posts, so that a message that takes the mouse to the
\* client carries a place on its screen.

FromClient     == Ctl!PeerMessages
FromController == Ctl!Messages \cup {Ping, Pong}

FocusInv ==
  /\ Ctl!FocusTypeOK
  /\ mode = "Remote" => /\ virtY \in Pixels(geom.peer.height) \cup {NaN}
                        /\ virtY = NaN => geom.local.height = 1

LoopInv == Ctl!LoopTypeOK /\ rxInput \in Seq(Ctl!InputEvents) /\ captureOpen \in BOOLEAN

ThereInv ==
  /\ ctlTx \in Seq(Ctl!Messages) /\ ctlWriting \in BOOLEAN
  /\ toCli \in Seq(FromController)
  /\ cliRx \in Seq(FromController \cup {Closed})

BackInv ==
  /\ cliTx \in Seq(FromClient) /\ toCtl \in Seq(FromClient)
  /\ ctlRx \in Seq(FromClient \cup {Closed}) /\ ctlReading \in BOOLEAN

ClipInv == clipboard \in Services /\ cliClipboard \in Services

DevicesInv ==
  /\ cliPc \in {"select", "done"} /\ visited \in BOOLEAN
  /\ pointer \in Pixels(geom.peer.width) \X Pixels(geom.peer.height)
  /\ keysDown \subseteq {Cli!KeyOfCode(k) : k \in Keys}
  /\ buttonsDown \subseteq {Cli!IdToButton(b) : b \in Buttons}

BeatInv == unanswered \in 0 .. 2

TypeInv ==
  FocusInv /\ LoopInv /\ ThereInv /\ BackInv /\ ClipInv /\ DevicesInv /\ BeatInv

\* The instances speak of the same screens.
LEMMA SameScreens ==
  /\ \A n : Ctl!Pixels(n) = Pixels(n) /\ Cli!Pixels(n) = Pixels(n)
  /\ \A n : Ctl!LastIndex(n) = LastIndex(n) /\ Cli!LastIndex(n) = LastIndex(n)
  /\ \A c : Ctl!AsPixel(c) = AsPixel(c) /\ Cli!AsPixel(c) = AsPixel(c)
  /\ Ctl!EntryX(geom) = EntryX(geom) /\ Ctl!BackX(geom) = BackX(geom)
  /\ \A k : Ctl!MapOutY(geom, k) = MapOutY(geom, k)
  /\ \A k : Ctl!MapBackY(geom, k) = MapBackY(geom, k)
<1>1. /\ \A n : Ctl!LastIndex(n) = LastIndex(n) /\ Cli!LastIndex(n) = LastIndex(n)
      /\ \A n, d : Ctl!RoundedQuotient(n, d) = RoundedQuotient(n, d)
  BY DEF Ctl!LastIndex, Cli!LastIndex, LastIndex, Ctl!RoundedQuotient, RoundedQuotient
<1>2. \A y, m, n : Ctl!MapY(y, m, n) = MapY(y, m, n)
  BY <1>1 DEF Ctl!MapY, MapY
<1>3. \A n : Ctl!Pixels(n) = Pixels(n) /\ Cli!Pixels(n) = Pixels(n)
  BY <1>1 DEF Ctl!Pixels, Cli!Pixels, Pixels
<1>4. \A c : Ctl!AsPixel(c) = AsPixel(c) /\ Cli!AsPixel(c) = AsPixel(c)
  BY DEF Ctl!AsPixel, Cli!AsPixel, AsPixel
<1>5. Ctl!EntryX(geom) = EntryX(geom) /\ Ctl!BackX(geom) = BackX(geom)
  BY <1>1 DEF Ctl!EntryX, EntryX, Ctl!BackX, BackX
<1>6. /\ \A k : Ctl!MapOutY(geom, k) = MapOutY(geom, k)
      /\ \A k : Ctl!MapBackY(geom, k) = MapBackY(geom, k)
  BY <1>2 DEF Ctl!MapOutY, Ctl!MapBackY, MapOutY, MapBackY
<1> QED
  BY <1>1, <1>3, <1>4, <1>5, <1>6

LEMMA Queue ==
  ASSUME NEW S, NEW q \in Seq(S)
  PROVE  /\ q # <<>> => Head(q) \in S /\ Tail(q) \in Seq(S)
         /\ \A m \in S : Append(q, m) \in Seq(S)
         /\ \A t \in Prefixes(q) : t \in Seq(S)
<1>1. \A t \in Prefixes(q) : t \in Seq(S)
  BY PrefixAndRest
<1> QED
  BY <1>1, HeadTailProperties, AppendProperties

LEMMA EventShapes ==
  ASSUME NEW e \in Ctl!InputEvents
  PROVE  /\ e.type = "Move" => /\ e.dx \in Int /\ e.dy \in Int
                               /\ Ctl!PointerMove(e.dx, e.dy) \in Ctl!Messages
         /\ e.type = "Button" => Ctl!PointerButton(e.button, e.pressed) \in Ctl!Messages
         /\ e.type = "Key" => /\ e.code \in Keys /\ e.pressed \in BOOLEAN
                              /\ Ctl!Key(e.code, e.pressed) \in Ctl!Messages
<1> USE DEF Ctl!Messages
<1>1. CASE e \in Ctl!MoveEvents
  <2>1. PICK d \in Deltas : e = Ctl!Move(d)
    BY <1>1 DEF Ctl!MoveEvents
  <2>2. e.type = "Move" /\ e.dx = d[1] /\ e.dy = d[2]
    BY <2>1 DEF Ctl!Move
  <2>3. d[1] \in Int /\ d[2] \in Int
    BY TravellerAssumption
  <2>4. Ctl!PointerMove(e.dx, e.dy) \in Ctl!InputMessages
    BY <2>2 DEF Ctl!InputMessages
  <2> QED
    BY <2>2, <2>3, <2>4
<1>2. CASE e \in Ctl!ButtonEvents
  <2>1. PICK b \in Buttons, p \in BOOLEAN : e = Ctl!Button(b, p)
    BY <1>2 DEF Ctl!ButtonEvents
  <2>2. e.type = "Button" /\ e.button = b /\ e.pressed = p
    BY <2>1 DEF Ctl!Button
  <2>3. Ctl!PointerButton(e.button, e.pressed) \in Ctl!InputMessages
    BY <2>2 DEF Ctl!InputMessages
  <2> QED
    BY <2>2, <2>3
<1>3. CASE e \in Ctl!KeyEvents
  <2>1. PICK k \in Keys, p \in BOOLEAN : e = Ctl!KeyEvent(k, p)
    BY <1>3 DEF Ctl!KeyEvents
  <2>2. e.type = "Key" /\ e.code = k /\ e.pressed = p
    BY <2>1 DEF Ctl!KeyEvent
  <2>3. Ctl!Key(e.code, e.pressed) \in Ctl!InputMessages
    BY <2>2 DEF Ctl!InputMessages
  <2> QED
    BY <2>2, <2>3
<1>4. CASE e = Ctl!WheelEvent
  BY <1>4 DEF Ctl!WheelEvent
<1> QED
  BY <1>1, <1>2, <1>3, <1>4 DEF Ctl!InputEvents

LEMMA TakenInput ==
  ASSUME LoopInv, NEW type, Ctl!TakeInput(type)
  PROVE  /\ Head(rxInput) \in Ctl!InputEvents /\ Head(rxInput).type = type
         /\ rxInput' \in Seq(Ctl!InputEvents)
BY Queue DEF LoopInv, Ctl!TakeInput

LEMMA ShiftedRange ==
  ASSUME NEW hi \in Nat, NEW y \in (0 .. hi) \cup {NaN}, NEW dy \in Int
  PROVE  /\ Ctl!Shifted(y, dy, hi) \in (0 .. hi) \cup {NaN}
         /\ Ctl!Shifted(y, dy, hi) = NaN => y = NaN
<1>1. CASE y = NaN
  BY <1>1 DEF Ctl!Shifted
<1>2. CASE y # NaN
  <2>1. y \in 0 .. hi
    BY <1>2
  <2>2. Ctl!Shifted(y, dy, hi) \in 0 .. hi
    BY <1>2, <2>1, SMT DEF Ctl!Shifted
  <2>3. NaN \notin 0 .. hi
    BY NaNAssumption, SMT
  <2> QED
    BY <2>2, <2>3
<1> QED
  BY <1>1, <1>2

LEMMA FocusStep ==
  ASSUME TypeInv, Ctl!Loop
  PROVE  FocusInv'
<1>0. geom \in Geometries
  BY TravellerAssumption
<1>a. FocusInv /\ LoopInv
  BY DEF TypeInv
<1>b. ASSUME mode' = "Local", virtX' = 0, virtY' = 0,
             coalescer' = Ctl!NoMove \/ coalescer' = Ctl!Taken(coalescer)
      PROVE  FocusInv'
  <2>1. Ctl!NoMove \in [x : Int, y : Int, has : BOOLEAN]
    BY DEF Ctl!NoMove
  <2>2. Ctl!Taken(coalescer) \in [x : Int, y : Int, has : BOOLEAN]
    BY <1>a DEF FocusInv, Ctl!FocusTypeOK, Ctl!Taken
  <2> QED
    BY <1>b, <2>1, <2>2 DEF FocusInv, Ctl!FocusTypeOK
<1>1. CASE Ctl!EnterRemote
  <2>1. PICK pos \in Ctl!Positions :
          mode' = "Remote" /\ virtX' = EntryX(geom) /\ virtY' = MapOutY(geom, pos[2])
    BY <1>1, SameScreens DEF Ctl!EnterRemote
  <2>2. pos[2] \in Pixels(geom.local.height)
    BY <2>1, SameScreens DEF Ctl!Positions
  <2>3. /\ virtY' \in Pixels(geom.peer.height) \cup {NaN}
        /\ virtY' = NaN => geom.local.height = 1
    BY <1>0, <2>1, <2>2, MapOutOnScreen
  <2>4. virtX' \in Int /\ virtY' \in Int \cup {NaN}
    BY <1>0, <2>1, <2>3, EdgesOnScreen DEF Pixels
  <2>5. UNCHANGED coalescer
    BY <1>1 DEF Ctl!EnterRemote
  <2> QED
    BY <1>a, <2>1, <2>3, <2>4, <2>5 DEF FocusInv, Ctl!FocusTypeOK
<1>2. CASE Ctl!RemainRemote
  <2>1. PICK e \in Ctl!InputEvents : e = Head(rxInput) /\ e.dx \in Int /\ e.dy \in Int
    BY <1>2, <1>a, TakenInput, EventShapes DEF Ctl!RemainRemote
  <2>2. /\ mode = "Remote" /\ mode' = "Remote"
        /\ coalescer' = Ctl!Push(coalescer, e.dx, e.dy)
        /\ virtX' = virtX + e.dx
        /\ virtY' = Ctl!Shifted(virtY, e.dy, LastIndex(geom.peer.height))
    BY <1>2, <2>1, SameScreens DEF Ctl!RemainRemote, Ctl!IsRemote, Ctl!NextVirtY
  <2>3. /\ virtX \in Int /\ coalescer \in [x : Int, y : Int, has : BOOLEAN]
        /\ virtY \in Pixels(geom.peer.height) \cup {NaN}
        /\ virtY = NaN => geom.local.height = 1
    BY <1>a, <2>2 DEF FocusInv, Ctl!FocusTypeOK
  <2>4. LastIndex(geom.peer.height) \in Nat
    BY <1>0, EdgesOnScreen
  <2>5. /\ virtY' \in Pixels(geom.peer.height) \cup {NaN}
        /\ virtY' = NaN => geom.local.height = 1
    BY <2>1, <2>2, <2>3, <2>4, ShiftedRange DEF Pixels
  <2>6. coalescer' \in [x : Int, y : Int, has : BOOLEAN]
    <3>1. coalescer.x + e.dx \in Int /\ coalescer.y + e.dy \in Int
      BY <2>1, <2>3
    <3> QED
      BY <2>2, <3>1 DEF Ctl!Push
  <2>7. virtX' \in Int /\ virtY' \in Int \cup {NaN}
    BY <2>1, <2>2, <2>3, <2>4, <2>5 DEF Pixels
  <2> QED
    BY <2>2, <2>5, <2>6, <2>7 DEF FocusInv, Ctl!FocusTypeOK
<1>3. CASE Ctl!ExitRemote
  BY <1>3, <1>b DEF Ctl!ExitRemote
<1>4. CASE Ctl!EmergencyStop
  BY <1>4, <1>b DEF Ctl!EmergencyStop, Ctl!ForceLocal
<1>5. CASE Ctl!HandleClosed
  BY <1>5, <1>b DEF Ctl!HandleClosed, Ctl!ForceLocal
<1>6. CASE \/ Ctl!RemainLocal \/ Ctl!HandleButton \/ Ctl!HandleWheel \/ Ctl!HandleKey
           \/ Ctl!CaptureClosed \/ Ctl!HandleClipboard \/ Ctl!IgnoreMessage
           \/ Ctl!EventsEnded \/ Ctl!TickSend \/ Ctl!ParkEnds
  <2>1. UNCHANGED Ctl!coreVars
    BY <1>6 DEF Ctl!RemainLocal, Ctl!HandleButton, Ctl!HandleWheel, Ctl!HandleKey,
       Ctl!CaptureClosed, Ctl!HandleClipboard, Ctl!IgnoreMessage, Ctl!EventsEnded,
       Ctl!TickSend, Ctl!ParkEnds
  <2> QED
    BY <1>a, <2>1 DEF Ctl!coreVars, Ctl!focusVars, FocusInv, Ctl!FocusTypeOK
<1> QED
  BY <1>1, <1>2, <1>3, <1>4, <1>5, <1>6 DEF Ctl!Loop, Ctl!HandleInput, Ctl!HandleConnEvent

LEMMA ParkingOnScreen ==
  ASSUME NEW k \in Pixels(geom.peer.height) \cup {NaN},
         Ctl!StartPark(BackX(geom), MapBackY(geom, k))
  PROVE  parkAt' \in Ctl!Positions /\ suppress' = TRUE /\ pc' = "parking"
<1> DEFINE bx == BackX(geom)
           by == AsPixel(MapBackY(geom, k))
<1>1. geom \in Geometries
  BY TravellerAssumption
<1>2. bx \in Pixels(geom.local.width) /\ by \in Pixels(geom.local.height)
  BY <1>1, EdgesOnScreen, MapBackOnScreen
<1>3. bx # NaN
  <2>1. \A n : Pixels(n) \subseteq Int
    BY DEF Pixels
  <2> QED
    BY <1>2, <2>1, NaNAssumption
<1>4. parkAt' = <<bx, by>> /\ suppress' = TRUE /\ pc' = "parking"
  BY <1>3, SameScreens DEF Ctl!StartPark, AsPixel
<1> HIDE DEF bx, by
<1> QED
  BY <1>2, <1>4, SameScreens DEF Ctl!Positions

LEMMA LoopStep ==
  ASSUME TypeInv, Ctl!Loop
  PROVE  LoopInv'
<1>0. geom \in Geometries
  BY TravellerAssumption
<1>a. FocusInv /\ LoopInv
  BY DEF TypeInv
<1>b. /\ pressedKeys \subseteq Keys /\ told \in BOOLEAN /\ pc \in {"select", "parking", "done"}
      /\ parkAt \in Ctl!Positions \cup {NoPark} /\ suppress \in BOOLEAN
      /\ rxInput \in Seq(Ctl!InputEvents) /\ captureOpen \in BOOLEAN
  BY <1>a DEF LoopInv, Ctl!LoopTypeOK
<1>1. rxInput' \in Seq(Ctl!InputEvents) /\ UNCHANGED captureOpen
  <2>1. /\ rxInput' = rxInput \/ (rxInput # <<>> /\ rxInput' = Tail(rxInput))
        /\ UNCHANGED captureOpen
    BY DEF Ctl!Loop, Ctl!HandleInput, Ctl!HandleConnEvent, Ctl!RemainLocal, Ctl!EnterRemote,
     Ctl!RemainRemote, Ctl!ExitRemote, Ctl!HandleButton, Ctl!HandleWheel, Ctl!HandleKey,
     Ctl!EmergencyStop, Ctl!CaptureClosed, Ctl!HandleClipboard, Ctl!IgnoreMessage,
     Ctl!HandleClosed, Ctl!EventsEnded, Ctl!TickSend, Ctl!ParkEnds, Ctl!TakeInput, Ctl!inputVars
  <2> QED
    BY <1>b, <2>1, Queue
<1>2. pressedKeys' \subseteq Keys
  <2>1. CASE Ctl!HandleKey \/ Ctl!EmergencyStop
    <3>1. PICK e \in Ctl!InputEvents : e = Head(rxInput) /\ e.code \in Keys
      BY <2>1, <1>a, TakenInput, EventShapes DEF Ctl!HandleKey, Ctl!EmergencyStop
    <3>2. pressedKeys' = Ctl!PressedAfter(e)
      BY <2>1, <3>1 DEF Ctl!HandleKey, Ctl!EmergencyStop
    <3> QED
      BY <1>b, <3>1, <3>2 DEF Ctl!PressedAfter
  <2>2. CASE ~(Ctl!HandleKey \/ Ctl!EmergencyStop)
    <3>1. UNCHANGED pressedKeys
      BY <2>2 DEF Ctl!Loop, Ctl!HandleInput, Ctl!HandleConnEvent, Ctl!RemainLocal,
       Ctl!EnterRemote, Ctl!RemainRemote, Ctl!ExitRemote, Ctl!HandleButton, Ctl!HandleWheel,
       Ctl!CaptureClosed, Ctl!HandleClipboard, Ctl!IgnoreMessage, Ctl!HandleClosed,
       Ctl!EventsEnded, Ctl!TickSend, Ctl!ParkEnds
    <3> QED
      BY <1>b, <3>1
  <2> QED
    BY <2>1, <2>2
<1>3. /\ told' \in BOOLEAN /\ pc' \in {"select", "parking", "done"}
      /\ parkAt' \in Ctl!Positions \cup {NoPark} /\ suppress' \in BOOLEAN
  <2>1. CASE Ctl!EnterRemote
    <3>1. PICK pos \in Ctl!Positions : virtY' = MapOutY(geom, pos[2])
      BY <2>1, SameScreens DEF Ctl!EnterRemote
    <3>2. pos[2] \in Pixels(geom.local.height)
      BY <3>1, SameScreens DEF Ctl!Positions
    <3>3. virtY' \in Pixels(geom.peer.height) \cup {NaN}
      BY <1>0, <3>1, <3>2, MapOutOnScreen
    <3>4. Ctl!StartPark(BackX(geom), MapBackY(geom, virtY')) /\ told' = TRUE
      BY <2>1, SameScreens DEF Ctl!EnterRemote
    <3> QED
      BY <3>3, <3>4, ParkingOnScreen
  <2>2. CASE Ctl!ExitRemote
    <3>1. PICK e \in Ctl!InputEvents : e = Head(rxInput) /\ e.dy \in Int
      BY <2>2, <1>a, TakenInput, EventShapes DEF Ctl!ExitRemote
    <3>2. virtY \in Pixels(geom.peer.height) \cup {NaN}
      BY <2>2, <1>a DEF Ctl!ExitRemote, Ctl!IsRemote, FocusInv
    <3>3. LastIndex(geom.peer.height) \in Nat
      BY <1>0, EdgesOnScreen
    <3>4. PICK y : y = Ctl!NextVirtY(e.dy)
      OBVIOUS
    <3>5. y \in Pixels(geom.peer.height) \cup {NaN}
      BY <3>1, <3>2, <3>3, <3>4, ShiftedRange, SameScreens DEF Ctl!NextVirtY, Pixels
    <3>6. Ctl!StartPark(BackX(geom), MapBackY(geom, y)) /\ told' = FALSE
      BY <2>2, <3>1, <3>4, SameScreens DEF Ctl!ExitRemote, Ctl!AnnounceLeave
    <3> QED
      BY <3>5, <3>6, ParkingOnScreen
  <2>3. CASE ~Ctl!EnterRemote /\ ~Ctl!ExitRemote
    <3>1. /\ UNCHANGED told
          /\ pc' \in {"select", "done", pc}
          /\ parkAt' = NoPark \/ parkAt' = parkAt
          /\ suppress' = FALSE \/ suppress' = suppress
      BY <2>3 DEF Ctl!Loop, Ctl!HandleInput, Ctl!HandleConnEvent, Ctl!RemainLocal,
       Ctl!RemainRemote, Ctl!HandleButton, Ctl!HandleWheel, Ctl!HandleKey, Ctl!EmergencyStop,
       Ctl!CaptureClosed, Ctl!HandleClipboard, Ctl!IgnoreMessage, Ctl!HandleClosed,
       Ctl!EventsEnded, Ctl!TickSend, Ctl!ParkEnds, Ctl!parkVars
    <3> QED
      BY <1>b, <3>1
  <2> QED
    BY <2>1, <2>2, <2>3
<1> QED
  BY <1>1, <1>2, <1>3, <1>b DEF LoopInv, Ctl!LoopTypeOK

\* Who changes what.
LEMMA OnlyTheController ==
  Next /\ ~CtlLoopSteps /\ ~CtlUser => UNCHANGED ctlLoopVars
<1> SUFFICES ASSUME Next, ~CtlLoopSteps, ~CtlUser PROVE UNCHANGED ctlLoopVars
  OBVIOUS
<1>1. \/ CliHandlesEvent \/ CliPolls \/ CliUser \/ CtlReads \/ CliReads \/ CtlWrites
      \/ CliWrites \/ CtlBeats \/ CtlExits \/ CliExits \/ Closes \/ GivesUp
  BY DEF Next, CtlLoopSteps
<1> QED
  BY <1>1 DEF CliHandlesEvent, CliPolls, CliUser, CliOnly, CtlReads, CliReads, CtlWrites,
     CliWrites, CtlBeats, CtlExits, CliExits, Closes, GivesUp

LEMMA OnlyTheClient ==
  Next /\ ~CliHandlesEvent /\ ~CliPolls /\ ~CliUser => UNCHANGED cliLoopVars
<1> SUFFICES ASSUME Next, ~CliHandlesEvent, ~CliPolls, ~CliUser PROVE UNCHANGED cliLoopVars
  OBVIOUS
<1>1. \/ CtlLoopSteps \/ CtlUser \/ CtlReads \/ CliReads \/ CtlWrites
      \/ CliWrites \/ CtlBeats \/ CtlExits \/ CliExits \/ Closes \/ GivesUp
  BY DEF Next, CtlLoopSteps
<1>2. CASE CtlLoopSteps
  BY <1>2, LoopSteps DEF CtlOnly
<1> QED
  BY <1>1, <1>2 DEF CtlUser, CtlOnly, CtlReads, CliReads, CtlWrites, CliWrites,
     CtlBeats, CtlExits, CliExits, Closes, GivesUp

LEMMA ControllerPosts ==
  ASSUME TypeInv, Ctl!Loop
  PROVE  ctlTx' = ctlTx \/ \E m \in Ctl!Messages : Posted(m)
<1>0. geom \in Geometries
  BY TravellerAssumption
<1>a. FocusInv /\ LoopInv /\ ClipInv
  BY DEF TypeInv
<1>1. CASE Ctl!EnterRemote
  <2>1. PICK pos \in Ctl!Positions : virtY' = MapOutY(geom, pos[2])
    BY <1>1, SameScreens DEF Ctl!EnterRemote
  <2>2. pos[2] \in Pixels(geom.local.height)
    BY <2>1, SameScreens DEF Ctl!Positions
  <2>3. virtY' \in Ctl!Pixels(geom.peer.height) \cup {NaN}
    BY <1>0, <2>1, <2>2, MapOutOnScreen, SameScreens
  <2>4. Ctl!CursorEnter(Ctl!EntryX(geom), virtY') \in Ctl!Messages
    BY <2>3 DEF Ctl!Messages, Ctl!EnterMessages
  <2> QED
    BY <1>1, <2>4 DEF Ctl!EnterRemote, Ctl!Post, Posted
<1>2. CASE Ctl!RemainRemote
  <2>1. PICK e \in Ctl!InputEvents :
          e = Head(rxInput) /\ Ctl!PointerMove(e.dx, e.dy) \in Ctl!Messages
    BY <1>2, <1>a, TakenInput, EventShapes DEF Ctl!RemainRemote
  <2> QED
    BY <1>2, <2>1 DEF Ctl!RemainRemote, Ctl!Post, Posted
<1>3. CASE Ctl!ExitRemote
  <2>1. Ctl!CursorLeave \in Ctl!Messages
    BY DEF Ctl!Messages
  <2> QED
    BY <1>3, <2>1 DEF Ctl!ExitRemote, Ctl!AnnounceLeave, Ctl!Post, Posted
<1>4. CASE Ctl!HandleButton
  <2>1. PICK e \in Ctl!InputEvents :
          e = Head(rxInput) /\ Ctl!PointerButton(e.button, e.pressed) \in Ctl!Messages
    BY <1>4, <1>a, TakenInput, EventShapes DEF Ctl!HandleButton
  <2> QED
    BY <1>4, <2>1 DEF Ctl!HandleButton, Ctl!RelayIfRemote, Ctl!Post, Posted
<1>5. CASE Ctl!HandleKey
  <2>1. PICK e \in Ctl!InputEvents :
          e = Head(rxInput) /\ Ctl!Key(e.code, e.pressed) \in Ctl!Messages
    BY <1>5, <1>a, TakenInput, EventShapes DEF Ctl!HandleKey
  <2> QED
    BY <1>5, <2>1 DEF Ctl!HandleKey, Ctl!RelayIfRemote, Ctl!Post, Posted
<1>6. CASE Ctl!HandleWheel
  <2>1. Ctl!Wheel \in Ctl!Messages
    BY DEF Ctl!Messages, Ctl!InputMessages
  <2> QED
    BY <1>6, <2>1 DEF Ctl!HandleWheel, Ctl!RelayIfRemote, Ctl!Post, Posted
<1>7. CASE Ctl!TickSend
  <2>1. clipboard.clip \in Contents
    BY <1>7, <1>a DEF Ctl!TickSend, Ctl!Offers, ClipInv, Services
  <2>2. Ctl!Clipboard(clipboard.clip) \in Ctl!Messages
    BY <2>1 DEF Ctl!Messages, Ctl!ClipboardMessages
  <2> QED
    BY <1>7, <2>2 DEF Ctl!TickSend, Ctl!Post, Posted
<1>8. CASE \/ Ctl!RemainLocal \/ Ctl!EmergencyStop \/ Ctl!CaptureClosed
           \/ Ctl!HandleConnEvent \/ Ctl!ParkEnds
  BY <1>8 DEF Ctl!RemainLocal, Ctl!EmergencyStop, Ctl!CaptureClosed, Ctl!HandleConnEvent,
     Ctl!HandleClipboard, Ctl!IgnoreMessage, Ctl!HandleClosed, Ctl!EventsEnded, Ctl!ParkEnds,
     Ctl!sendVars
<1> QED
  BY <1>1, <1>2, <1>3, <1>4, <1>5, <1>6, <1>7, <1>8 DEF Ctl!Loop, Ctl!HandleInput

LEMMA NoPingBack == \A m \in FromClient : m.type \in {"Clipboard", "Pong"} /\ m # Ping /\ m # Quit
BY DEF FromClient, Ctl!PeerMessages, Ctl!Clipboard, Ctl!Pong, Ping, Quit

LEMMA SameQueues ==
  /\ Seq(Ctl!Messages) \subseteq Seq(FromController)
  /\ Seq(FromController) \subseteq Seq(FromController \cup {Closed})
  /\ <<>> \in Seq(Ctl!Messages) /\ <<>> \in Seq(FromController)
  /\ <<>> \in Seq(FromController \cup {Closed})
  /\ <<>> \in Seq(FromClient) /\ <<>> \in Seq(FromClient \cup {Closed})
BY SeqMonotonic, EmptySeq DEF FromController

LEMMA ThereStep ==
  ASSUME TypeInv, Next
  PROVE  ThereInv'
<1>a. ThereInv /\ BackInv
  BY DEF TypeInv
<1>b. /\ ctlTx \in Seq(Ctl!Messages) /\ ctlWriting \in BOOLEAN
      /\ toCli \in Seq(FromController) /\ cliRx \in Seq(FromController \cup {Closed})
  BY <1>a DEF ThereInv
<1>c. Ping \in FromController /\ Closed \in FromController \cup {Closed}
  BY DEF FromController
<1>1. CASE CtlLoopSteps
  <2>1. UNCHANGED <<toCli, cliRx>>
    BY <1>1, LoopSteps DEF CtlOnly, wires, cliEndVars, cliQueues
  <2>2. UNCHANGED ctlWriting
    BY <1>1, LoopSteps DEF Ctl!Loop, Ctl!HandleInput, Ctl!HandleConnEvent, Ctl!RemainLocal,
     Ctl!EnterRemote, Ctl!RemainRemote, Ctl!ExitRemote, Ctl!HandleButton, Ctl!HandleWheel,
     Ctl!HandleKey, Ctl!EmergencyStop, Ctl!CaptureClosed, Ctl!HandleClipboard,
     Ctl!IgnoreMessage, Ctl!HandleClosed, Ctl!EventsEnded, Ctl!TickSend, Ctl!ParkEnds,
     Ctl!sendVars
  <2>3. ctlTx' = ctlTx \/ \E m \in Ctl!Messages : ctlTx' = Append(ctlTx, m)
    BY <1>1, LoopSteps, ControllerPosts DEF Posted
  <2>4. ctlTx' \in Seq(Ctl!Messages)
    BY <1>b, <2>3, Queue
  <2> QED
    BY <1>b, <2>1, <2>2, <2>4 DEF ThereInv
<1>2. CASE OtherSteps
  BY <1>2, <1>b, OtherStepsLeave DEF clientEnd, ctlSide, ThereInv
<1>3. CASE CliHandlesEvent
  <2>1. UNCHANGED <<toCli, ctlTx, ctlWriting>> /\ cliRx # <<>> /\ cliRx' = Tail(cliRx)
    BY <1>3, ClientTakes DEF CliHandlesEvent, CliOnly, wires, ctlEndVars, ctlQueues
  <2>2. cliRx' \in Seq(FromController \cup {Closed})
    BY <1>b, <2>1, Queue
  <2> QED
    BY <1>b, <2>1, <2>2 DEF ThereInv
<1>4. CASE CliPolls \/ CliWrites
  <2>1. UNCHANGED <<toCli, ctlTx, ctlWriting, cliRx>>
    BY <1>4 DEF CliPolls, Cli!TickSend, CliOnly, wires, ctlEndVars, ctlQueues, CliWrites,
       CliEnd!Write, CliEnd!WriteFails, CliEnd!WriterGone, CliEnd!readerVars, CliEnd!connVars
  <2> QED
    BY <1>b, <2>1 DEF ThereInv
<1>5. CASE CtlReads
  <2>1. UNCHANGED <<toCli, cliRx, ctlWriting>>
    BY <1>5 DEF CtlReads, CtlEnd!Reader, CtlEnd!ReadMessage, CtlEnd!ReadPing, CtlEnd!ReadQuit,
       CtlEnd!ReadFails, CtlEnd!writerVars, cliEndVars, cliQueues
  <2>2. ctlTx' = ctlTx \/ (toCtl # <<>> /\ Head(toCtl) = Ping)
    BY <1>5 DEF CtlReads, CtlEnd!Reader, CtlEnd!ReadMessage, CtlEnd!ReadPing, CtlEnd!ReadQuit,
       CtlEnd!ReadFails, CtlEnd!writerVars, CtlEnd!Ping, Ping
  <2>3. toCtl # <<>> => Head(toCtl) \in FromClient
    BY <1>a, Queue DEF BackInv
  <2>4. ctlTx' = ctlTx
    BY <2>2, <2>3, NoPingBack
  <2> QED
    BY <1>b, <2>1, <2>4 DEF ThereInv
<1>6. CASE CliReads
  <2>1. UNCHANGED <<ctlTx, ctlWriting>>
    BY <1>6 DEF CliReads, ctlEndVars, ctlQueues
  <2>2. /\ toCli' = toCli \/ (toCli # <<>> /\ toCli' = Tail(toCli))
        /\ cliRx' = Append(cliRx, Closed) \/ (toCli # <<>> /\ cliRx' = Append(cliRx, Head(toCli)))
    BY <1>6 DEF CliReads, CliEnd!Reader, CliEnd!ReadMessage, CliEnd!ReadPing, CliEnd!ReadQuit,
       CliEnd!ReadFails, CliEnd!Ping, CliEnd!Closed, Closed
  <2>3. toCli' \in Seq(FromController)
    BY <1>b, <2>2, Queue
  <2>4. toCli # <<>> => Head(toCli) \in FromController \cup {Closed}
    BY <1>b, Queue
  <2>5. cliRx' \in Seq(FromController \cup {Closed})
    BY <1>b, <1>c, <2>2, <2>4, Queue
  <2> QED
    BY <1>b, <2>1, <2>3, <2>5 DEF ThereInv
<1>7. CASE CtlWrites
  <2>1. UNCHANGED cliRx
    BY <1>7 DEF CtlWrites, cliEndVars, cliQueues
  <2>2. /\ ctlWriting' = ctlWriting \/ ctlWriting' = FALSE
        /\ ctlTx' = <<>> \/ (ctlTx # <<>> /\ ctlTx' = Tail(ctlTx))
        /\ toCli' = toCli \/ (ctlTx # <<>> /\ toCli' = Append(toCli, Head(ctlTx)))
    BY <1>7 DEF CtlWrites, CtlEnd!Write, CtlEnd!WriteFails, CtlEnd!BeatFails, CtlEnd!WriterGone,
       CtlEnd!PutOnWire
  <2>3. ctlTx' \in Seq(Ctl!Messages)
    BY <1>b, <2>2, Queue, SameQueues
  <2>4. ctlTx # <<>> => Head(ctlTx) \in FromController
    BY <1>b, Queue DEF FromController
  <2>5. toCli' \in Seq(FromController)
    BY <1>b, <2>2, <2>4, Queue
  <2> QED
    BY <1>b, <2>1, <2>2, <2>3, <2>5 DEF ThereInv
<1>8. CASE CtlBeats
  <2>1. UNCHANGED <<cliRx, ctlTx, ctlWriting>>
    BY <1>8 DEF CtlBeats, CtlEnd!Beat, CtlEnd!writerVars, cliEndVars, cliQueues
  <2>2. toCli' = toCli \/ toCli' = Append(toCli, Ping)
    BY <1>8 DEF CtlBeats, CtlEnd!Beat, CtlEnd!PutOnWire, CtlEnd!Ping, Ping
  <2>3. toCli' \in Seq(FromController)
    BY <1>b, <1>c, <2>2, Queue
  <2> QED
    BY <1>b, <2>1, <2>3 DEF ThereInv
<1>9. CASE CtlExits
  BY <1>9, <1>b, SameQueues DEF CtlExits, CtlEnd!Exit, cliEndVars, cliQueues, ThereInv
<1>10. CASE CliExits
  BY <1>10, <1>b, SameQueues DEF CliExits, CliEnd!Exit, ctlEndVars, ctlQueues, ThereInv
<1>11. CASE Closes
  <2>1. UNCHANGED <<cliRx, ctlTx, ctlWriting>> /\ toCli' \in Prefixes(toCli) \cup {<<>>}
    BY <1>11 DEF Closes, cliEndVars, cliQueues, ctlEndVars, ctlQueues
  <2>2. toCli' \in Seq(FromController)
    BY <1>b, <2>1, Queue, SameQueues
  <2> QED
    BY <1>b, <2>1, <2>2 DEF ThereInv
<1> QED
  BY <1>1, <1>2, <1>3, <1>4, <1>5, <1>6, <1>7, <1>8, <1>9, <1>10, <1>11
     DEF Next, CtlLoopSteps, OtherSteps

LEMMA BackStep ==
  ASSUME TypeInv, Next
  PROVE  BackInv'
<1>a. BackInv /\ ClipInv /\ ThereInv
  BY DEF TypeInv
<1>b. /\ cliTx \in Seq(FromClient) /\ toCtl \in Seq(FromClient)
      /\ ctlRx \in Seq(FromClient \cup {Closed}) /\ ctlReading \in BOOLEAN
  BY <1>a DEF BackInv
<1>c. Pong \in FromClient /\ Closed \in FromClient \cup {Closed}
  BY DEF FromClient, Ctl!PeerMessages, Ctl!Pong, Pong
<1>1. CASE CtlLoopSteps
  <2>1. UNCHANGED <<toCtl, cliTx>>
    BY <1>1, LoopSteps DEF CtlOnly, wires, cliEndVars, cliQueues
  <2>2. UNCHANGED ctlReading /\ (ctlRx' = ctlRx \/ (ctlRx # <<>> /\ ctlRx' = Tail(ctlRx)))
    BY <1>1, LoopSteps, LoopTakes
  <2>3. ctlRx' \in Seq(FromClient \cup {Closed})
    BY <1>b, <2>2, Queue
  <2> QED
    BY <1>b, <2>1, <2>2, <2>3 DEF BackInv
<1>2. CASE OtherSteps
  BY <1>2, <1>b, OtherStepsLeave DEF BackInv
<1>3. CASE CliHandlesEvent
  <2>1. UNCHANGED <<ctlRx, ctlReading, toCtl>> /\ (cliTx' = cliTx \/ cliTx' = Append(cliTx, Pong))
    BY <1>3, ClientTakes DEF CliHandlesEvent, CliOnly, ctlEndVars, ctlQueues, wires
  <2>2. cliTx' \in Seq(FromClient)
    BY <1>b, <1>c, <2>1, Queue
  <2> QED
    BY <1>b, <2>1, <2>2 DEF BackInv
<1>4. CASE CliPolls
  <2>1. UNCHANGED <<ctlRx, ctlReading, toCtl>>
    BY <1>4 DEF CliPolls, CliOnly, ctlEndVars, ctlQueues, wires
  <2>2. cliClipboard.clip \in Contents
    BY <1>4, <1>a DEF CliPolls, Cli!TickSend, Cli!Offers, ClipInv, Services
  <2>3. PICK m \in FromClient : cliTx' = cliTx \/ cliTx' = Append(cliTx, m)
    <3>1. Cli!Clipboard(cliClipboard.clip) \in FromClient
      BY <2>2 DEF FromClient, Ctl!PeerMessages, Ctl!Clipboard, Cli!Clipboard
    <3> QED
      BY <1>4, <3>1 DEF CliPolls, Cli!TickSend, Cli!Post
  <2>4. cliTx' \in Seq(FromClient)
    BY <1>b, <2>3, Queue
  <2> QED
    BY <1>b, <2>1, <2>4 DEF BackInv
<1>5. CASE CtlReads
  <2>1. UNCHANGED cliTx
    BY <1>5 DEF CtlReads, cliEndVars, cliQueues
  <2>2. /\ ctlReading' = ctlReading \/ ctlReading' = FALSE
        /\ toCtl' = toCtl \/ (toCtl # <<>> /\ toCtl' = Tail(toCtl))
        /\ ctlRx' = Append(ctlRx, Closed) \/ (toCtl # <<>> /\ ctlRx' = Append(ctlRx, Head(toCtl)))
    BY <1>5 DEF CtlReads, CtlEnd!Reader, CtlEnd!ReadMessage, CtlEnd!ReadPing, CtlEnd!ReadQuit,
       CtlEnd!ReadFails, CtlEnd!Ping, CtlEnd!Closed, Closed
  <2>3. toCtl' \in Seq(FromClient)
    BY <1>b, <2>2, Queue
  <2>4. toCtl # <<>> => Head(toCtl) \in FromClient \cup {Closed}
    BY <1>b, Queue
  <2>5. ctlRx' \in Seq(FromClient \cup {Closed})
    BY <1>b, <1>c, <2>2, <2>4, Queue
  <2> QED
    BY <1>b, <2>1, <2>2, <2>3, <2>5 DEF BackInv
<1>6. CASE CliReads
  <2>1. UNCHANGED <<ctlRx, ctlReading, toCtl>> /\ (cliTx' = cliTx \/ cliTx' = Append(cliTx, Pong))
    BY <1>6 DEF CliReads, CliEnd!Reader, CliEnd!ReadMessage, CliEnd!ReadPing, CliEnd!ReadQuit,
       CliEnd!ReadFails, CliEnd!writerVars, CliEnd!connVars, CliEnd!Pong, Pong,
       ctlEndVars, ctlQueues
  <2>2. cliTx' \in Seq(FromClient)
    BY <1>b, <1>c, <2>1, Queue
  <2> QED
    BY <1>b, <2>1, <2>2 DEF BackInv
<1>7. CASE CtlWrites \/ CtlBeats
  <2>1. UNCHANGED <<ctlRx, ctlReading, toCtl, cliTx>>
    BY <1>7 DEF CtlWrites, CtlEnd!Write, CtlEnd!WriteFails, CtlEnd!BeatFails, CtlEnd!WriterGone,
       CtlBeats, CtlEnd!Beat, CtlEnd!readerVars, cliEndVars, cliQueues
  <2> QED
    BY <1>b, <2>1 DEF BackInv
<1>8. CASE CliWrites
  <2>1. UNCHANGED <<ctlRx, ctlReading>>
    BY <1>8 DEF CliWrites, ctlEndVars, ctlQueues
  <2>2. /\ cliTx' = <<>> \/ (cliTx # <<>> /\ cliTx' = Tail(cliTx))
        /\ toCtl' = toCtl \/ (cliTx # <<>> /\ toCtl' = Append(toCtl, Head(cliTx)))
    BY <1>8 DEF CliWrites, CliEnd!Write, CliEnd!WriteFails, CliEnd!WriterGone, CliEnd!PutOnWire
  <2>3. cliTx' \in Seq(FromClient) /\ (cliTx # <<>> => Head(cliTx) \in FromClient)
    BY <1>b, <2>2, Queue, SameQueues
  <2>4. toCtl' \in Seq(FromClient)
    BY <1>b, <2>2, <2>3, Queue
  <2> QED
    BY <1>b, <2>1, <2>3, <2>4 DEF BackInv
<1>9. CASE CtlExits
  BY <1>9, <1>b, SameQueues DEF CtlExits, CtlEnd!Exit, cliEndVars, cliQueues, BackInv
<1>10. CASE CliExits
  BY <1>10, <1>b, SameQueues DEF CliExits, CliEnd!Exit, ctlEndVars, ctlQueues, BackInv
<1>11. CASE Closes
  <2>1. UNCHANGED <<ctlRx, ctlReading, cliTx>> /\ toCtl' \in Prefixes(toCtl) \cup {<<>>}
    BY <1>11 DEF Closes, cliEndVars, cliQueues, ctlEndVars, ctlQueues
  <2>2. toCtl' \in Seq(FromClient)
    BY <1>b, <2>1, Queue, SameQueues
  <2> QED
    BY <1>b, <2>1, <2>2 DEF BackInv
<1> QED
  BY <1>1, <1>2, <1>3, <1>4, <1>5, <1>6, <1>7, <1>8, <1>9, <1>10, <1>11
     DEF Next, CtlLoopSteps, OtherSteps

\* What a message carries.
LEMMA MessageShapes ==
  ASSUME NEW m \in FromController \cup {Closed}
  PROVE  /\ m.type = "CursorEnter" => /\ m.x = EntryX(geom)
                                      /\ m.y \in Pixels(geom.peer.height) \cup {NaN}
         /\ m.type = "PointerMove" => m.dx \in Int /\ m.dy \in Int
         /\ m.type = "PointerButton" => m.button \in Buttons
         /\ m.type = "Key" => m.code \in Keys
         /\ m.type = "Clipboard" => m.content \in Contents
<1>1. CASE m \in Ctl!EnterMessages
  <2>1. PICK y \in Ctl!Pixels(geom.peer.height) \cup {NaN} : m = Ctl!CursorEnter(Ctl!EntryX(geom), y)
    BY <1>1 DEF Ctl!EnterMessages
  <2>2. m.type = "CursorEnter" /\ m.x = Ctl!EntryX(geom) /\ m.y = y
    BY <2>1 DEF Ctl!CursorEnter
  <2> QED
    BY <2>1, <2>2, SameScreens
<1>2. CASE m \in Ctl!InputMessages
  <2>1. CASE \E d \in Deltas : m = Ctl!PointerMove(d[1], d[2])
    <3>1. PICK d \in Deltas : m = Ctl!PointerMove(d[1], d[2])
      BY <2>1
    <3>2. m.type = "PointerMove" /\ m.dx = d[1] /\ m.dy = d[2]
      BY <3>1 DEF Ctl!PointerMove
    <3>3. d[1] \in Int /\ d[2] \in Int
      BY TravellerAssumption
    <3> QED
      BY <3>2, <3>3
  <2>2. CASE \E b \in Buttons, p \in BOOLEAN : m = Ctl!PointerButton(b, p)
    BY <2>2 DEF Ctl!PointerButton
  <2>3. CASE \E k \in Keys, p \in BOOLEAN : m = Ctl!Key(k, p)
    BY <2>3 DEF Ctl!Key
  <2>4. CASE m = Ctl!Wheel
    BY <2>4 DEF Ctl!Wheel
  <2> QED
    BY <1>2, <2>1, <2>2, <2>3, <2>4 DEF Ctl!InputMessages
<1>3. CASE m \in Ctl!ClipboardMessages
  BY <1>3 DEF Ctl!ClipboardMessages, Ctl!Clipboard
<1>4. CASE m \in {Ctl!CursorLeave, Ctl!Hello, Ping, Pong, Closed}
  BY <1>4 DEF Ctl!CursorLeave, Ctl!Hello, Ping, Pong, Closed
<1> QED
  BY <1>1, <1>2, <1>3, <1>4 DEF FromController, Ctl!Messages

LEMMA ServicesKept ==
  /\ \A s \in Services, c \in Contents \cup {NoText} : [s EXCEPT !.clip = c] \in Services
  /\ \A s \in Services, c \in Contents :
       Ctl!Ingested(s, c) \subseteq Services /\ Cli!Ingested(s, c) \subseteq Services
  /\ \A s \in Services : Ctl!Offers(s) => Ctl!Offered(s) \in Services
  /\ \A s \in Services : Cli!Offers(s) => Cli!Offered(s) \in Services
<1> USE DEF Services, Digests
<1>1. \A c : Ctl!DigestOf(c) = DigestOf(c) /\ Cli!DigestOf(c) = DigestOf(c)
  BY DEF Ctl!DigestOf, Cli!DigestOf, DigestOf
<1>2. \A s \in Services, c \in Contents \cup {NoText} : [s EXCEPT !.clip = c] \in Services
  OBVIOUS
<1>3. ASSUME NEW s \in Services, NEW c \in Contents
      PROVE  Ctl!Ingested(s, c) \subseteq Services /\ Cli!Ingested(s, c) \subseteq Services
  BY <1>1 DEF Ctl!Ingested, Cli!Ingested
<1>4. ASSUME NEW s \in Services, s.clip # NoText
      PROVE  Ctl!Offered(s) \in Services /\ Cli!Offered(s) \in Services
  BY <1>1, <1>4 DEF Ctl!Offered, Cli!Offered
<1> QED
  BY <1>2, <1>3, <1>4 DEF Ctl!Offers, Cli!Offers

LEMMA ClipStep ==
  ASSUME TypeInv, Next
  PROVE  ClipInv'
<1>a. clipboard \in Services /\ cliClipboard \in Services
  BY DEF TypeInv, ClipInv
<1>b. ctlRx \in Seq(FromClient \cup {Closed}) /\ cliRx \in Seq(FromController \cup {Closed})
  BY DEF TypeInv, BackInv, ThereInv
<1>1. CASE CtlLoopSteps
  <2>1. UNCHANGED cliClipboard
    BY <1>1, LoopSteps DEF CtlOnly, cliLoopVars
  <2>2. CASE Ctl!HandleClipboard
    <3>1. /\ ctlRx # <<>> /\ Head(ctlRx).type = "Clipboard"
          /\ clipboard' \in Ctl!Ingested(clipboard, Head(ctlRx).content)
      BY <2>2 DEF Ctl!HandleClipboard, Ctl!TakeEvent
    <3>2. PICK m \in FromClient \cup {Closed} : m = Head(ctlRx)
      BY <1>b, <3>1, Queue
    <3>3. m.content \in Contents
      BY <3>1, <3>2 DEF FromClient, Ctl!PeerMessages, Ctl!Clipboard, Ctl!Pong, Closed
    <3> QED
      BY <1>a, <2>1, <3>1, <3>2, <3>3, ServicesKept DEF ClipInv
  <2>3. CASE Ctl!TickSend
    BY <1>a, <2>1, <2>3, ServicesKept DEF Ctl!TickSend, ClipInv
  <2>4. CASE ~Ctl!HandleClipboard /\ ~Ctl!TickSend
    <3>1. UNCHANGED clipboard
      BY <1>1, <2>4, LoopSteps DEF Ctl!Loop, Ctl!HandleInput, Ctl!HandleConnEvent,
       Ctl!RemainLocal, Ctl!EnterRemote, Ctl!RemainRemote, Ctl!ExitRemote, Ctl!HandleButton,
       Ctl!HandleWheel, Ctl!HandleKey, Ctl!EmergencyStop, Ctl!CaptureClosed,
       Ctl!IgnoreMessage, Ctl!HandleClosed, Ctl!EventsEnded, Ctl!ParkEnds
    <3> QED
      BY <1>a, <2>1, <3>1 DEF ClipInv
  <2> QED
    BY <2>2, <2>3, <2>4
<1>2. CASE CtlUser
  <2>1. UNCHANGED cliClipboard
    BY <1>2 DEF CtlUser, CtlOnly, cliLoopVars
  <2>2. clipboard' \in Services
    BY <1>2, <1>a, ServicesKept DEF CtlUser, Ctl!Capture, Ctl!UserCopies, Ctl!CaptureEnds
  <2> QED
    BY <2>1, <2>2, <1>a DEF ClipInv
<1>3. CASE CliHandlesEvent
  <2>1. UNCHANGED clipboard
    BY <1>3 DEF CliHandlesEvent, CliOnly, ctlLoopVars
  <2>2. CASE Cli!HandleClipboard
    <3>1. /\ cliRx # <<>> /\ Head(cliRx).type = "Clipboard"
          /\ cliClipboard' \in Cli!Ingested(cliClipboard, Head(cliRx).content)
      BY <2>2 DEF Cli!HandleClipboard, Cli!TakeEvent
    <3>2. PICK m \in FromController \cup {Closed} : m = Head(cliRx)
      BY <1>b, <3>1, Queue
    <3>3. m.content \in Contents
      BY <3>1, <3>2, MessageShapes
    <3> QED
      BY <1>a, <2>1, <3>1, <3>2, <3>3, ServicesKept DEF ClipInv
  <2>3. CASE ~Cli!HandleClipboard
    <3>1. UNCHANGED cliClipboard
      BY <1>3, <2>3 DEF CliHandlesEvent, Cli!HandleEvent, Cli!HandleEnter, Cli!HandleLeave,
         Cli!HandleMove, Cli!HandleButton, Cli!HandleKey, Cli!HandleOther, Cli!InjectionFails,
         Cli!HandlePing, Cli!HandleClosed
    <3> QED
      BY <1>a, <2>1, <3>1 DEF ClipInv
  <2> QED
    BY <2>2, <2>3
<1>4. CASE CliPolls \/ CliUser
  <2>1. UNCHANGED clipboard
    BY <1>4 DEF CliPolls, CliUser, CliOnly, ctlLoopVars
  <2>2. cliClipboard' \in Services
    BY <1>4, <1>a, ServicesKept DEF CliPolls, CliUser, Cli!TickSend, Cli!UserCopies
  <2> QED
    BY <2>1, <2>2, <1>a DEF ClipInv
<1>5. CASE ~CtlLoopSteps /\ ~CtlUser /\ ~CliHandlesEvent /\ ~CliPolls /\ ~CliUser
  BY <1>5, <1>a, OnlyTheController, OnlyTheClient DEF ctlLoopVars, cliLoopVars, ClipInv
<1> QED
  BY <1>1, <1>2, <1>3, <1>4, <1>5

LEMMA OnScreenRange ==
  ASSUME NEW n, LastIndex(n) \in Nat, NEW c \in Int
  PROVE  Cli!OnScreen(c, n) \in Pixels(n)
<1>1. PICK l \in Nat : l = LastIndex(n) /\ l = Cli!LastIndex(n)
  BY SameScreens
<1> QED
  BY <1>1 DEF Cli!OnScreen, Pixels

Spots == Pixels(geom.peer.width) \X Pixels(geom.peer.height)

LEMMA PointerKept ==
  /\ \A y \in Pixels(geom.peer.height) \cup {NaN} : Cli!PositionAt(EntryX(geom), y) \in Spots
  /\ \A at \in Spots : \A dx, dy \in Int : Cli!MovedBy(at, dx, dy) \in Spots
<1>0. geom \in Geometries
  BY TravellerAssumption
<1>1. /\ LastIndex(geom.peer.width) \in Nat /\ LastIndex(geom.peer.height) \in Nat
      /\ EntryX(geom) \in Int /\ EntryX(geom) # NaN
  BY <1>0, EdgesOnScreen, NaNAssumption DEF Pixels
<1>2. ASSUME NEW y \in Pixels(geom.peer.height) \cup {NaN}
      PROVE  Cli!PositionAt(EntryX(geom), y) \in Spots
  <2>1. AsPixel(EntryX(geom)) \in Int /\ AsPixel(y) \in Int
    BY <1>1 DEF AsPixel, Pixels
  <2>2. /\ Cli!OnScreen(AsPixel(EntryX(geom)), geom.peer.width) \in Pixels(geom.peer.width)
        /\ Cli!OnScreen(AsPixel(y), geom.peer.height) \in Pixels(geom.peer.height)
    BY <1>1, <2>1, OnScreenRange
  <2> QED
    BY <2>2, SameScreens DEF Cli!PositionAt, Spots
<1>3. ASSUME NEW at \in Spots, NEW dx \in Int, NEW dy \in Int
      PROVE  Cli!MovedBy(at, dx, dy) \in Spots
  <2>1. at[1] + dx \in Int /\ at[2] + dy \in Int
    BY DEF Spots, Pixels
  <2>2. /\ Cli!OnScreen(at[1] + dx, geom.peer.width) \in Pixels(geom.peer.width)
        /\ Cli!OnScreen(at[2] + dy, geom.peer.height) \in Pixels(geom.peer.height)
    BY <1>1, <2>1, OnScreenRange
  <2> QED
    BY <2>2 DEF Cli!MovedBy, Spots
<1> QED
  BY <1>2, <1>3

LEMMA DevicesStep ==
  ASSUME TypeInv, Next
  PROVE  DevicesInv'
<1>a. /\ cliPc \in {"select", "done"} /\ visited \in BOOLEAN
      /\ pointer \in Spots
      /\ keysDown \subseteq {Cli!KeyOfCode(k) : k \in Keys}
      /\ buttonsDown \subseteq {Cli!IdToButton(b) : b \in Buttons}
  BY DEF TypeInv, DevicesInv, Spots
<1>1. CASE CliHandlesEvent
  <2>1. cliRx # <<>> /\ cliPc = "select" /\ cliPc' \in {"select", "done"}
    BY <1>1, ClientTakes DEF CliHandlesEvent
  <2>2. PICK m \in FromController \cup {Closed} : m = Head(cliRx)
    BY <2>1, Queue DEF TypeInv, ThereInv
  <2>3. CASE Cli!HandleEnter
    <3>1. /\ m.type = "CursorEnter" /\ pointer' = Cli!PositionAt(m.x, m.y) /\ visited' = TRUE
          /\ UNCHANGED <<keysDown, buttonsDown>>
      BY <2>2, <2>3 DEF Cli!HandleEnter, Cli!TakeEvent, Cli!heldVars
    <3>2. pointer' \in Spots
      BY <3>1, MessageShapes, PointerKept
    <3> QED
      BY <1>a, <2>1, <3>1, <3>2 DEF DevicesInv, Spots
  <2>4. CASE Cli!HandleMove
    <3>1. /\ m.type = "PointerMove" /\ pointer' = Cli!MovedBy(pointer, m.dx, m.dy)
          /\ UNCHANGED <<visited, keysDown, buttonsDown>>
      BY <2>2, <2>4 DEF Cli!HandleMove, Cli!TakeEvent, Cli!heldVars, Cli!loopVars
    <3>2. pointer' \in Spots
      BY <1>a, <3>1, MessageShapes, PointerKept
    <3> QED
      BY <1>a, <2>1, <3>1, <3>2 DEF DevicesInv, Spots
  <2>5. CASE Cli!HandleButton
    <3>1. /\ m.type = "PointerButton"
          /\ buttonsDown' = Cli!After(buttonsDown, Cli!IdToButton(m.button), m.pressed)
          /\ UNCHANGED <<visited, pointer, keysDown>>
      BY <2>2, <2>5 DEF Cli!HandleButton, Cli!TakeEvent, Cli!loopVars
    <3>2. Cli!IdToButton(m.button) \in {Cli!IdToButton(b) : b \in Buttons}
      BY <3>1, MessageShapes
    <3> QED
      BY <1>a, <2>1, <3>1, <3>2 DEF DevicesInv, Spots, Cli!After
  <2>6. CASE Cli!HandleKey
    <3>1. /\ m.type = "Key"
          /\ keysDown' = Cli!After(keysDown, Cli!KeyOfCode(m.code), m.pressed)
          /\ UNCHANGED <<visited, pointer, buttonsDown>>
      BY <2>2, <2>6 DEF Cli!HandleKey, Cli!TakeEvent, Cli!loopVars
    <3>2. Cli!KeyOfCode(m.code) \in {Cli!KeyOfCode(k) : k \in Keys}
      BY <3>1, MessageShapes
    <3> QED
      BY <1>a, <2>1, <3>1, <3>2 DEF DevicesInv, Spots, Cli!After
  <2>7. CASE \/ Cli!HandleLeave \/ Cli!HandleOther \/ Cli!InjectionFails
             \/ Cli!HandleClipboard \/ Cli!HandlePing \/ Cli!HandleClosed
    <3>1. UNCHANGED <<pointer, keysDown, buttonsDown>> /\ visited' \in {FALSE, visited}
      BY <2>7 DEF Cli!HandleLeave, Cli!HandleOther, Cli!InjectionFails, Cli!HandleClipboard,
         Cli!HandlePing, Cli!HandleClosed, Cli!deviceVars, Cli!heldVars, Cli!loopVars
    <3> QED
      BY <1>a, <2>1, <3>1 DEF DevicesInv, Spots
  <2> QED
    BY <1>1, <2>3, <2>4, <2>5, <2>6, <2>7 DEF CliHandlesEvent, Cli!HandleEvent
<1>2. CASE CliPolls \/ CliUser
  BY <1>2, <1>a DEF CliPolls, CliUser, Cli!TickSend, Cli!UserCopies, Cli!deviceVars,
     Cli!heldVars, Cli!loopVars, DevicesInv, Spots
<1>3. CASE ~CliHandlesEvent /\ ~CliPolls /\ ~CliUser
  BY <1>3, <1>a, OnlyTheClient DEF cliLoopVars, DevicesInv, Spots
<1> QED
  BY <1>1, <1>2, <1>3

LEMMA BeatStep ==
  ASSUME TypeInv, Next
  PROVE  BeatInv'
<1>a. unanswered \in 0 .. 2
  BY DEF TypeInv, BeatInv
<1>1. CASE CtlHandlesEvent
  BY <1>1, <1>a DEF CtlHandlesEvent, BeatInv
<1>2. CASE CtlBeats
  BY <1>2, <1>a DEF CtlBeats, BeatInv
<1>3. CASE ~CtlHandlesEvent /\ ~CtlBeats
  <2>1. UNCHANGED unanswered
    BY <1>3 DEF Next, CtlHandlesInput, CtlPolls, CtlUnparks, CtlUser, CliHandlesEvent,
       CliPolls, CliUser, CliOnly, CtlReads, CliReads, CtlWrites, CliWrites, CtlExits,
       CliExits, Closes, GivesUp
  <2> QED
    BY <1>a, <2>1 DEF BeatInv
<1> QED
  BY <1>1, <1>2, <1>3

LEMMA TypeInit == Init => TypeInv
<1> SUFFICES ASSUME Init PROVE TypeInv
  OBVIOUS
<1>0. geom \in Geometries
  BY TravellerAssumption
<1>1. FocusInv
  BY DEF Init, Ctl!Init, FocusInv, Ctl!FocusTypeOK, Ctl!NoMove
<1>2. LoopInv
  <2>1. rxInput \in Seq(Ctl!InputEvents)
    BY EmptySeq DEF Init, Ctl!Init
  <2> QED
    BY <2>1 DEF Init, Ctl!Init, LoopInv, Ctl!LoopTypeOK
<1>3. ThereInv
  <2>1. ctlTx = <<Ctl!Hello>> /\ Ctl!Hello \in Ctl!Messages
    BY DEF Init, Ctl!Init, Ctl!Messages
  <2>2. ctlTx \in Seq(Ctl!Messages)
    BY <2>1
  <2> QED
    BY <2>2, SameQueues DEF Init, Ctl!Init, ThereInv
<1>4. BackInv
  BY SameQueues DEF Init, Ctl!Init, BackInv
<1>5. ClipInv
  <2>1. \A c \in Contents \cup {NoText} : Ctl!NewService(c) \in Services /\ Cli!NewService(c) \in Services
    BY DEF Ctl!NewService, Cli!NewService, Services
  <2> QED
    BY <2>1 DEF Init, Ctl!Init, Cli!Init, ClipInv
<1>6. DevicesInv
  <2>1. 0 \in Pixels(geom.peer.width) /\ 0 \in Pixels(geom.peer.height)
    BY <1>0, EdgesOnScreen DEF Pixels
  <2> QED
    BY <2>1 DEF Init, Cli!Init, DevicesInv
<1>7. BeatInv
  BY DEF Init, BeatInv
<1> QED
  BY <1>1, <1>2, <1>3, <1>4, <1>5, <1>6, <1>7 DEF TypeInv

LEMMA TypeStep == TypeInv /\ [Next]_vars => TypeInv'
<1> SUFFICES ASSUME TypeInv, [Next]_vars PROVE TypeInv'
  OBVIOUS
<1>1. CASE Next
  <2>1. CASE CtlLoopSteps
    BY <1>1, <2>1, LoopSteps, FocusStep, LoopStep, ThereStep, BackStep, ClipStep, DevicesStep,
       BeatStep DEF TypeInv
  <2>2. CASE CtlUser
    <3>1. UNCHANGED Ctl!coreVars /\ UNCHANGED <<pressedKeys, told, Ctl!parkVars>>
      BY <2>2 DEF CtlUser, Ctl!Capture, Ctl!UserCopies, Ctl!CaptureEnds
    <3>2. FocusInv'
      BY <3>1 DEF TypeInv, FocusInv, Ctl!FocusTypeOK, Ctl!coreVars, Ctl!focusVars
    <3>3. rxInput' \in Seq(Ctl!InputEvents) /\ captureOpen' \in BOOLEAN
      <4>1. /\ rxInput' = rxInput \/ \E e \in Ctl!InputEvents : rxInput' = Append(rxInput, e)
            /\ captureOpen' \in {FALSE, captureOpen}
        BY <2>2 DEF CtlUser, Ctl!Capture, Ctl!UserCopies, Ctl!CaptureEnds, Ctl!inputVars
      <4>2. rxInput \in Seq(Ctl!InputEvents) /\ captureOpen \in BOOLEAN
        BY DEF TypeInv, LoopInv
      <4>3. rxInput' \in Seq(Ctl!InputEvents)
        BY <4>1, <4>2, Queue
      <4> QED
        BY <4>1, <4>2, <4>3
    <3>4. LoopInv'
      BY <3>1, <3>3 DEF TypeInv, LoopInv, Ctl!LoopTypeOK, Ctl!parkVars
    <3> QED
      BY <1>1, <3>2, <3>4, ThereStep, BackStep, ClipStep, DevicesStep, BeatStep DEF TypeInv
  <2>3. CASE ~CtlLoopSteps /\ ~CtlUser
    <3>1. UNCHANGED ctlLoopVars
      BY <1>1, <2>3, OnlyTheController
    <3>2. FocusInv' /\ LoopInv'
      BY <3>1 DEF ctlLoopVars, TypeInv, FocusInv, Ctl!FocusTypeOK, LoopInv, Ctl!LoopTypeOK
    <3> QED
      BY <1>1, <3>2, ThereStep, BackStep, ClipStep, DevicesStep, BeatStep DEF TypeInv
  <2> QED
    BY <2>1, <2>2, <2>3
<1>2. CASE UNCHANGED vars
  BY <1>2 DEF vars, ctlLoopVars, cliLoopVars, ctlEndVars, cliEndVars, ctlQueues, cliQueues,
     wires, TypeInv, FocusInv, Ctl!FocusTypeOK, LoopInv, Ctl!LoopTypeOK, ThereInv, BackInv,
     ClipInv, DevicesInv, BeatInv
<1> QED
  BY <1>1, <1>2

LEMMA TypeInvariant == Spec => []TypeInv
BY TypeInit, TypeStep, PTL DEF Spec

\* Type correctness of the two programs and what is between them.
THEOREM TravellerTypeOK == Spec => []TypeOK
<1>1. TypeInv => TypeOK
  <2> SUFFICES ASSUME TypeInv PROVE TypeOK
    OBVIOUS
  <2>1. Ctl!Services = Services /\ Cli!Services = Services
    BY DEF Ctl!Services, Cli!Services, Services, Ctl!Digests, Cli!Digests, Digests,
       Ctl!DigestOf, Cli!DigestOf, DigestOf
  <2>2. Ctl!TypeOK
    <3>1. Ctl!Closed = Closed
      BY DEF Ctl!Closed, Closed
    <3> QED
      BY <2>1, <3>1 DEF TypeInv, FocusInv, LoopInv, ThereInv, BackInv, ClipInv, FromClient,
         Ctl!TypeOK, Ctl!QueuesTypeOK
  <2>3. Cli!TypeOK
    BY <2>1, SameScreens DEF TypeInv, DevicesInv, ClipInv, Cli!TypeOK
  <2>4. /\ cliRx \in Seq(Ctl!Messages \cup {Ping, Pong, Closed})
        /\ toCli \in Seq(Ctl!Messages \cup {Ping, Pong})
    <3>1. FromController \cup {Closed} = Ctl!Messages \cup {Ping, Pong, Closed}
      BY DEF FromController
    <3> QED
      BY <3>1 DEF TypeInv, ThereInv, FromController
  <2> QED
    BY <2>2, <2>3, <2>4 DEF TypeInv, DevicesInv, BeatInv, TypeOK
<1> QED
  BY <1>1, TypeInvariant, PTL

-----------------------------------------------------------------------------

\* Where the client's pointer arrives: a walk over the spots of its screen, as
\* the messages take it.

Incoming == FromController \cup {Closed}
Ride == [p \in Spots \X Incoming |-> Displaced(p[1], p[2])]

LEMMA DisplacedType ==
  ASSUME NEW at \in Spots, NEW m \in Incoming
  PROVE  Displaced(at, m) \in Spots
<1>1. CASE m.type = "CursorEnter"
  <2>1. m.x = EntryX(geom) /\ m.y \in Pixels(geom.peer.height) \cup {NaN}
    BY <1>1, MessageShapes DEF Incoming
  <2>2. Displaced(at, m) = Cli!PositionAt(m.x, m.y)
    BY <1>1 DEF Displaced
  <2> QED
    BY <2>1, <2>2, PointerKept
<1>2. CASE m.type = "PointerMove"
  <2>1. m.dx \in Int /\ m.dy \in Int
    BY <1>2, MessageShapes DEF Incoming
  <2>2. Displaced(at, m) = Cli!MovedBy(at, m.dx, m.dy)
    BY <1>2 DEF Displaced
  <2> QED
    BY <2>1, <2>2, PointerKept
<1>3. CASE m.type # "CursorEnter" /\ m.type # "PointerMove"
  BY <1>3 DEF Displaced
<1> QED
  BY <1>1, <1>2, <1>3

LEMMA RideType == Ride \in Ways(Spots, Incoming)
<1> HIDE DEF Spots, Incoming, Displaced
<1> QED
  BY DisplacedType DEF Ride, Ways

Riding(at, s) == FoldLeft(Displaced, at, s)

LEMMA RidingWalks ==
  ASSUME NEW at \in Spots, NEW s \in Seq(Incoming)
  PROVE  Riding(at, s) = Walk(Spots, Ride, at, s)
<1>n. PICK n \in Nat : n = Len(s)
  BY LenProperties
<1>h. PICK h : IsWalk(Spots, Ride, at, s, h) /\ Walk(Spots, Ride, at, s) = h[Len(s)]
  BY RideType, WalkExists
<1>1. (\A i \in 1 .. n : s[i] \in Incoming) /\ DOMAIN s = 1 .. n
  BY <1>n, LenProperties, ElementOfSeq
<1> DEFINE G == [p \in Spots \X (1 .. n) |-> Displaced(p[1], s[p[2]])]
           IsIt(it) == it = [d \in SUBSET (1 .. n) |->
                         IF d = {} THEN at ELSE Displaced(it[d \ {Max(d)}], s[Max(d)])]
           chosen == CHOOSE it : IsIt(it)
<1>2. G \in Steps(Spots, n)
  BY <1>1, DisplacedType DEF Steps
<1>4. Riding(at, s) = chosen[1 .. n]
  <2>1. Riding(at, s) = (CHOOSE it : it = [d \in SUBSET DOMAIN s |->
              IF d = {} THEN at ELSE Displaced(it[d \ {Max(d)}], s[Max(d)])])[DOMAIN s]
    BY DEF Riding, FoldLeft, MapThenFoldSet
  <2> QED
    BY <1>1, <2>1
<1>5. \E it : IsIt(it)
  <2> HIDE DEF G
  <2>1. PICK it : IsFold(Spots, n, at, G, it)
    BY <1>2, FoldDefined
  <2>2. ASSUME NEW d \in SUBSET (1 .. n)
        PROVE  it[d] = IF d = {} THEN at ELSE Displaced(it[d \ {Max(d)}], s[Max(d)])
    <3>1. CASE d = {}
      BY <2>1, <3>1 DEF IsFold
    <3>2. CASE d # {}
      <4>1. Max(d) \in 1 .. n
        BY <3>2, MaxOfPlaces
      <4>2. it[d \ {Max(d)}] \in Spots /\ it[d] = G[<<it[d \ {Max(d)}], Max(d)>>]
        BY <2>1, <3>2 DEF IsFold
      <4> QED
        BY <3>2, <4>1, <4>2 DEF G
    <3> QED
      BY <3>1, <3>2
  <2>3. it = [d \in SUBSET (1 .. n) |-> it[d]]
    BY <2>1 DEF IsFold
  <2> QED
    BY <2>2, <2>3
<1>6. \A d \in SUBSET (1 .. n) : chosen[d] =
        IF d = {} THEN at ELSE Displaced(chosen[d \ {Max(d)}], s[Max(d)])
  <2>1. IsIt(chosen)
    BY <1>5
  <2> HIDE DEF chosen
  <2> QED
    BY <2>1
<1>7. \A i \in 1 .. n : h[i] = Displaced(h[i - 1], s[i])
  <2> TAKE i \in 1 .. n
  <2>1. i - 1 \in 0 .. Len(s)
    BY <1>n
  <2>2. h[i - 1] \in Spots /\ s[i] \in Incoming /\ h[i] = Ride[<<h[i - 1], s[i]>>]
    BY <1>n, <1>1, <1>h, <2>1 DEF IsWalk
  <2> QED
    BY <2>2 DEF Ride
<1> HIDE DEF chosen
<1>8. chosen[{}] = h[0]
  BY <1>6, <1>h DEF IsWalk
<1>9. ASSUME NEW i \in 1 .. n, chosen[1 .. (i - 1)] = h[i - 1] PROVE chosen[1 .. i] = h[i]
  <2>1. /\ 1 .. i \in SUBSET (1 .. n) /\ 1 .. i # {}
        /\ Max(1 .. i) = i /\ (1 .. i) \ {i} = 1 .. (i - 1)
    BY MaxOfPrefix
  <2>2. chosen[1 .. i] = Displaced(chosen[1 .. (i - 1)], s[i])
    BY <1>6, <2>1
  <2> QED
    BY <1>7, <1>9, <2>2
<1>10. chosen[1 .. n] = h[n]
  BY <1>8, <1>9, FoldAlong
<1> QED
  BY <1>n, <1>4, <1>h, <1>10

\* The pointer when the client's loop has taken what it has received, when
\* what is on its way has arrived, and when all that is posted has.
Ridden(at, s) == Walk(Spots, Ride, at, s)
PointerHeard == Ridden(pointer, cliRx)
PointerSent  == Ridden(PointerHeard, toCli)
PointerSaid  == Ridden(PointerSent, ctlTx)

LEMMA RiddenType ==
  ASSUME NEW at \in Spots, NEW s \in Seq(Incoming)
  PROVE  Ridden(at, s) \in Spots
BY RideType, WalkType DEF Ridden

LEMMA RiddenMore ==
  ASSUME NEW at \in Spots, NEW s \in Seq(Incoming), NEW m \in Incoming
  PROVE  Ridden(at, Append(s, m)) = Displaced(Ridden(at, s), m)
<1>1. PICK mid \in Spots : mid = Walk(Spots, Ride, at, s)
  BY RiddenType DEF Ridden
<1>2. PICK w : w = Append(s, m)
  OBVIOUS
<1>3. Walk(Spots, Ride, at, w) = Ride[<<mid, m>>]
  BY <1>1, <1>2, RideType, WalkAppend
<1>4. Ride[<<mid, m>>] = Displaced(mid, m)
  BY DEF Ride
<1> QED
  BY <1>1, <1>2, <1>3, <1>4 DEF Ridden

LEMMA RiddenLess ==
  ASSUME NEW at \in Spots, NEW s \in Seq(Incoming), s # <<>>
  PROVE  Ridden(at, s) = Ridden(Displaced(at, Head(s)), Tail(s))
<1>1. PICK m \in Incoming : m = Head(s)
  BY Queue
<1>2. PICK t : t = Tail(s)
  OBVIOUS
<1>3. Ride[<<at, m>>] = Displaced(at, m)
  BY DEF Ride
<1>4. Walk(Spots, Ride, at, s) = Walk(Spots, Ride, Ride[<<at, m>>], t)
  BY <1>1, <1>2, RideType, WalkHead
<1> QED
  BY <1>1, <1>2, <1>3, <1>4 DEF Ridden

LEMMA InQueues ==
  TypeInv => /\ pointer \in Spots
             /\ cliRx \in Seq(Incoming) /\ toCli \in Seq(Incoming) /\ ctlTx \in Seq(Incoming)
             /\ PointerHeard \in Spots /\ PointerSent \in Spots /\ PointerSaid \in Spots
<1> SUFFICES ASSUME TypeInv
             PROVE  /\ pointer \in Spots
                    /\ cliRx \in Seq(Incoming) /\ toCli \in Seq(Incoming) /\ ctlTx \in Seq(Incoming)
                    /\ PointerHeard \in Spots /\ PointerSent \in Spots /\ PointerSaid \in Spots
  OBVIOUS
<1>1. pointer \in Spots
  BY DEF TypeInv, DevicesInv, Spots
<1>2. cliRx \in Seq(Incoming) /\ toCli \in Seq(Incoming) /\ ctlTx \in Seq(Incoming)
  BY SameQueues DEF TypeInv, ThereInv, Incoming
<1>3. PointerHeard \in Spots
  BY <1>1, <1>2, RiddenType DEF PointerHeard
<1>4. PointerSent \in Spots
  BY <1>2, <1>3, RiddenType DEF PointerSent
<1>5. PointerSaid \in Spots
  BY <1>2, <1>4, RiddenType DEF PointerSaid
<1> QED
  BY <1>1, <1>2, <1>3, <1>4, <1>5

LEMMA ArrivingIs == TypeInv => Arriving = PointerSaid
<1> SUFFICES ASSUME TypeInv PROVE Arriving = PointerSaid
  OBVIOUS
<1>1. PICK a \in Seq(Incoming) : a = cliRx
  BY InQueues
<1>2. PICK b \in Seq(Incoming) : b = toCli
  BY InQueues
<1>3. PICK c \in Seq(Incoming) : c = ctlTx
  BY InQueues
<1>4. PICK ab \in Seq(Incoming) : ab = a \o b
  BY ConcatProperties
<1>5. PICK abc \in Seq(Incoming) : abc = ab \o c
  BY ConcatProperties
<1>6. pointer \in Spots /\ PointerHeard \in Spots /\ PointerSent \in Spots
  BY InQueues
<1>7. Arriving = Riding(pointer, abc)
  BY <1>1, <1>2, <1>3, <1>4, <1>5 DEF Arriving, Riding
<1>8. Riding(pointer, abc) = Walk(Spots, Ride, pointer, abc)
  BY <1>6, RidingWalks
<1>9. Walk(Spots, Ride, pointer, abc) = Walk(Spots, Ride, Walk(Spots, Ride, pointer, ab), c)
  BY <1>5, <1>6, RideType, WalkOn
<1>10. Walk(Spots, Ride, pointer, ab) = Walk(Spots, Ride, Walk(Spots, Ride, pointer, a), b)
  BY <1>4, <1>6, RideType, WalkOn
<1> QED
  BY <1>1, <1>2, <1>3, <1>7, <1>8, <1>9, <1>10 DEF PointerSaid, PointerSent, PointerHeard, Ridden

\* Does the pointer stand where the controller believes, at x and y? To the
\* side it may lag behind: the controller does not clamp what moves away.
Near(at, x, y) ==
  /\ geom.local.height > 1 => at[2] = y
  /\ geom.side = "Right" => at[1] <= x
  /\ geom.side = "Left"  => at[1] >= x

FollowInv == mode = "Remote" /\ Connected => Near(PointerSaid, virtX, virtY)

\* A message that moves no pointer.
Still(m) == m.type \notin {"CursorEnter", "PointerMove"}

LEMMA EnterIsNear ==
  ASSUME TypeInv', virtX' = EntryX(geom), mode' = "Remote"
  PROVE  Near(Cli!PositionAt(EntryX(geom), virtY'), virtX', virtY')
<1>0. geom \in Geometries
  BY TravellerAssumption
<1>1. PICK w \in Nat : w = LastIndex(geom.peer.width)
  BY <1>0, EdgesOnScreen
<1>2. PICK l \in Nat : l = LastIndex(geom.peer.height)
  BY <1>0, EdgesOnScreen
<1>3. EntryX(geom) \in 0 .. w /\ EntryX(geom) # NaN
  BY <1>0, <1>1, EdgesOnScreen, NaNAssumption DEF Pixels
<1>4. PICK y : y = virtY'
  OBVIOUS
<1>5. y \in (0 .. l) \cup {NaN} /\ (y = NaN => geom.local.height = 1)
  BY <1>2, <1>4 DEF TypeInv, FocusInv, Pixels
<1>6. PICK at : at = Cli!PositionAt(EntryX(geom), y)
  OBVIOUS
<1>7. at[1] = EntryX(geom)
  <2>1. at[1] = Cli!OnScreen(EntryX(geom), geom.peer.width)
    BY <1>3, <1>6, SameScreens DEF Cli!PositionAt, AsPixel
  <2> QED
    BY <1>1, <1>3, <2>1, SameScreens DEF Cli!OnScreen
<1>8. geom.local.height > 1 => at[2] = y
  <2> SUFFICES ASSUME geom.local.height > 1 PROVE at[2] = y
    OBVIOUS
  <2>1. y \in 0 .. l /\ y # NaN
    BY <1>5, NaNAssumption
  <2>2. at[2] = Cli!OnScreen(y, geom.peer.height)
    BY <2>1, <1>6, SameScreens DEF Cli!PositionAt, AsPixel
  <2> QED
    BY <1>2, <2>1, <2>2, SameScreens DEF Cli!OnScreen
<1> QED
  BY <1>3, <1>4, <1>6, <1>7, <1>8 DEF Near

LEMMA MoveIsNear ==
  ASSUME TypeInv, NEW at \in Spots, Near(at, virtX, virtY), mode = "Remote",
         NEW dx \in Int, NEW dy \in Int,
         ~Ctl!IsReentering(geom, virtX + dx, dx),
         virtX' = virtX + dx, virtY' = Ctl!NextVirtY(dy)
  PROVE  Near(Cli!MovedBy(at, dx, dy), virtX', virtY')
<1>0. geom \in Geometries
  BY TravellerAssumption
<1>1. PICK w \in Nat : w = LastIndex(geom.peer.width)
  BY <1>0, EdgesOnScreen
<1>2. PICK l \in Nat : l = LastIndex(geom.peer.height)
  BY <1>0, EdgesOnScreen
<1>3. at[1] \in 0 .. w /\ at[2] \in 0 .. l
  BY <1>1, <1>2 DEF Spots, Pixels
<1>4. virtX \in Int
  BY DEF TypeInv, FocusInv, Ctl!FocusTypeOK
<1>5. PICK to : to = Cli!MovedBy(at, dx, dy)
  OBVIOUS
<1>6. /\ to[1] = Cli!OnScreen(at[1] + dx, geom.peer.width)
      /\ to[2] = Cli!OnScreen(at[2] + dy, geom.peer.height)
  BY <1>5 DEF Cli!MovedBy
<1>7. geom.local.height > 1 => to[2] = virtY'
  <2> SUFFICES ASSUME geom.local.height > 1 PROVE to[2] = virtY'
    OBVIOUS
  <2>1. virtY = at[2] /\ virtY # NaN
    BY <1>3, NaNAssumption DEF Near
  <2>2. virtY' = Ctl!Shifted(virtY, dy, l)
    BY <1>2, SameScreens DEF Ctl!NextVirtY
  <2> QED
    BY <1>2, <1>3, <1>6, <2>1, <2>2, SameScreens DEF Ctl!Shifted, Cli!OnScreen
<1>8. geom.side = "Right" => to[1] <= virtX'
  <2> SUFFICES ASSUME geom.side = "Right" PROVE to[1] <= virtX'
    OBVIOUS
  <2>1. at[1] <= virtX /\ ~(virtX + dx <= 0 /\ dx < 0)
    BY DEF Near, Ctl!IsReentering
  <2>2. to[1] = IF at[1] + dx < 0 THEN 0 ELSE IF at[1] + dx > w THEN w ELSE at[1] + dx
    BY <1>1, <1>6, SameScreens DEF Cli!OnScreen
  <2> QED
    BY <1>3, <1>4, <2>1, <2>2
<1>9. geom.side = "Left" => to[1] >= virtX'
  <2> SUFFICES ASSUME geom.side = "Left" PROVE to[1] >= virtX'
    OBVIOUS
  <2>1. at[1] >= virtX /\ ~(virtX + dx >= w /\ dx > 0)
    BY <1>1, SameScreens DEF Near, Ctl!IsReentering
  <2>2. to[1] = IF at[1] + dx < 0 THEN 0 ELSE IF at[1] + dx > w THEN w ELSE at[1] + dx
    BY <1>1, <1>6, SameScreens DEF Cli!OnScreen
  <2> QED
    BY <1>3, <1>4, <2>1, <2>2
<1> QED
  BY <1>5, <1>7, <1>8, <1>9 DEF Near

\* What is posted is what the pointer does last.
LEMMA SaysMore ==
  ASSUME TypeInv, UNCHANGED <<pointer, cliRx, toCli>>, ctlWriting,
         NEW m \in Incoming, Posted(m)
  PROVE  PointerSaid' = Displaced(PointerSaid, m)
<1>1. PointerSent' = PointerSent /\ PointerSent \in Spots
  BY InQueues DEF PointerSent, PointerHeard
<1>2. PICK tx \in Seq(Incoming) : tx = ctlTx
  BY InQueues
<1>3. ctlTx' = Append(tx, m)
  BY <1>2 DEF Posted
<1>4. PICK mid \in Spots : mid = PointerSent
  BY <1>1
<1>5. Ridden(mid, Append(tx, m)) = Displaced(Ridden(mid, tx), m)
  BY RiddenMore
<1> QED
  BY <1>1, <1>2, <1>3, <1>4, <1>5 DEF PointerSaid

LEMMA SaysNothing ==
  ASSUME UNCHANGED <<pointer, cliRx, toCli, ctlTx>>
  PROVE  PointerSaid' = PointerSaid
BY DEF PointerSaid, PointerSent, PointerHeard

LEMMA LoopFollows ==
  ASSUME TypeInv, TypeInv', FollowInv, Ctl!Loop,
         UNCHANGED <<pointer, cliRx, toCli, cliPc, cliReading, link>>
  PROVE  FollowInv'
<1>0. UNCHANGED ctlWriting
  BY DEF Ctl!Loop, Ctl!HandleInput, Ctl!HandleConnEvent, Ctl!RemainLocal,
     Ctl!EnterRemote, Ctl!RemainRemote, Ctl!ExitRemote, Ctl!HandleButton, Ctl!HandleWheel,
     Ctl!HandleKey, Ctl!EmergencyStop, Ctl!CaptureClosed, Ctl!HandleClipboard,
     Ctl!IgnoreMessage, Ctl!HandleClosed, Ctl!EventsEnded, Ctl!TickSend, Ctl!ParkEnds,
     Ctl!sendVars
<1> SUFFICES ASSUME mode' = "Remote", Connected' PROVE Near(PointerSaid', virtX', virtY')
  BY DEF FollowInv
<1>1. Connected /\ ctlWriting
  BY <1>0 DEF Connected
<1>2. PointerSaid \in Spots
  BY InQueues
<1>a. Ctl!Messages \subseteq Incoming
  BY DEF Incoming, FromController
<1>3. CASE Ctl!EnterRemote
  <2>1. PICK m : m = Ctl!CursorEnter(EntryX(geom), virtY')
    OBVIOUS
  <2>2. virtX' = EntryX(geom) /\ Posted(m)
    BY <1>3, <2>1, SameScreens DEF Ctl!EnterRemote, Ctl!Post, Posted
  <2>3. m.type = "CursorEnter" /\ m.x = EntryX(geom) /\ m.y = virtY'
    BY <2>1 DEF Ctl!CursorEnter
  <2>4. m \in Incoming
    <3>1. virtY' \in Ctl!Pixels(geom.peer.height) \cup {NaN}
      BY SameScreens DEF TypeInv, FocusInv
    <3>2. m \in Ctl!EnterMessages
      BY <2>1, <3>1, SameScreens DEF Ctl!EnterMessages
    <3> QED
      BY <1>a, <3>2 DEF Ctl!Messages
  <2>5. PointerSaid' = Displaced(PointerSaid, m)
    BY <1>1, <2>2, <2>4, SaysMore
  <2>6. PointerSaid' = Cli!PositionAt(EntryX(geom), virtY')
    BY <2>3, <2>5 DEF Displaced
  <2>7. Near(Cli!PositionAt(EntryX(geom), virtY'), virtX', virtY')
    BY <2>2, EnterIsNear
  <2> QED
    BY <2>6, <2>7 DEF Near
<1>4. CASE Ctl!RemainRemote
  <2>1. PICK e \in Ctl!InputEvents : /\ e = Head(rxInput) /\ e.dx \in Int /\ e.dy \in Int
                                     /\ Ctl!PointerMove(e.dx, e.dy) \in Ctl!Messages
    BY <1>4, TakenInput, EventShapes DEF Ctl!RemainRemote, TypeInv
  <2>2. PICK dx \in Int : dx = e.dx
    BY <2>1
  <2>3. PICK dy \in Int : dy = e.dy
    BY <2>1
  <2>4. PICK m \in Incoming : m = Ctl!PointerMove(dx, dy)
    BY <1>a, <2>1, <2>2, <2>3
  <2>5. /\ mode = "Remote" /\ ~Ctl!IsReentering(geom, virtX + dx, dx)
        /\ virtX' = virtX + dx /\ virtY' = Ctl!NextVirtY(dy) /\ Posted(m)
    BY <1>4, <2>1, <2>2, <2>3, <2>4 DEF Ctl!RemainRemote, Ctl!IsRemote, Ctl!Post, Posted
  <2>6. PointerSaid' = Displaced(PointerSaid, m)
    BY <1>1, <2>5, SaysMore
  <2>7. PICK at \in Spots : at = PointerSaid
    BY <1>2
  <2>8. Near(at, virtX, virtY)
    BY <1>1, <2>5, <2>7 DEF FollowInv
  <2>9. PointerSaid' = Cli!MovedBy(at, dx, dy)
    BY <2>4, <2>6, <2>7 DEF Displaced, Ctl!PointerMove
  <2>10. Near(Cli!MovedBy(at, dx, dy), virtX', virtY')
    BY <2>5, <2>8, MoveIsNear
  <2> QED
    BY <2>9, <2>10 DEF Near
<1>5. CASE Ctl!ExitRemote \/ Ctl!EmergencyStop \/ Ctl!HandleClosed
  BY <1>5 DEF Ctl!ExitRemote, Ctl!EmergencyStop, Ctl!HandleClosed, Ctl!ForceLocal
<1>6. CASE /\ ~Ctl!EnterRemote /\ ~Ctl!RemainRemote
           /\ ~Ctl!ExitRemote /\ ~Ctl!EmergencyStop /\ ~Ctl!HandleClosed
  <2>1. UNCHANGED <<mode, virtX, virtY>>
    BY <1>6 DEF Ctl!Loop, Ctl!HandleInput, Ctl!HandleConnEvent, Ctl!RemainLocal,
       Ctl!HandleButton, Ctl!HandleWheel, Ctl!HandleKey, Ctl!CaptureClosed,
       Ctl!HandleClipboard, Ctl!IgnoreMessage, Ctl!EventsEnded, Ctl!TickSend, Ctl!ParkEnds,
       Ctl!coreVars, Ctl!focusVars
  <2>2. ctlTx' = ctlTx \/ \E m \in Incoming : Posted(m) /\ Still(m)
    <3>1. ctlTx' = ctlTx \/ \E m : /\ ctlTx' = Append(ctlTx, m)
                                   /\ m.type \in {"PointerButton", "Wheel", "Key", "Clipboard"}
      BY <1>6 DEF Ctl!Loop, Ctl!HandleInput, Ctl!HandleConnEvent, Ctl!RemainLocal,
         Ctl!HandleButton, Ctl!HandleWheel, Ctl!HandleKey, Ctl!CaptureClosed,
         Ctl!HandleClipboard, Ctl!IgnoreMessage, Ctl!EventsEnded, Ctl!TickSend, Ctl!ParkEnds,
         Ctl!sendVars, Ctl!RelayIfRemote, Ctl!Post, Ctl!PointerButton, Ctl!Wheel, Ctl!Key,
         Ctl!Clipboard
    <3>2. SUFFICES ASSUME ctlTx' # ctlTx PROVE \E m \in Incoming : Posted(m) /\ Still(m)
      OBVIOUS
    <3>3. PICK m \in Ctl!Messages : ctlTx' = Append(ctlTx, m)
      BY <1>1, <3>2, ControllerPosts DEF Posted
    <3>4. PICK o : /\ ctlTx' = Append(ctlTx, o)
                   /\ o.type \in {"PointerButton", "Wheel", "Key", "Clipboard"}
      BY <3>1, <3>2
    <3>5. m = o
      <4>1. PICK S : ctlTx \in Seq(S)
        BY DEF TypeInv, ThereInv
      <4> DEFINE T == S \cup {m, o}
      <4>2. ctlTx \in Seq(T) /\ m \in T /\ o \in T
        BY <4>1, SeqMonotonic
      <4> HIDE DEF T
      <4>3. Append(ctlTx, m)[Len(ctlTx) + 1] = m /\ Append(ctlTx, o)[Len(ctlTx) + 1] = o
        BY <4>2, AppendProperties
      <4> QED
        BY <3>3, <3>4, <4>3
    <3> QED
      BY <1>1, <1>a, <3>3, <3>4, <3>5 DEF Posted, Still
  <2>3. PointerSaid' = PointerSaid
    <3>1. CASE ctlTx' = ctlTx
      BY <3>1, SaysNothing
    <3>2. CASE \E m \in Incoming : Posted(m) /\ Still(m)
      <4>1. PICK m \in Incoming : Posted(m) /\ Still(m)
        BY <3>2
      <4>2. PointerSaid' = Displaced(PointerSaid, m)
        BY <1>1, <4>1, SaysMore
      <4> QED
        BY <4>1, <4>2 DEF Displaced, Still
    <3> QED
      BY <2>2, <3>1, <3>2
  <2>4. Near(PointerSaid, virtX, virtY)
    BY <1>1, <2>1 DEF FollowInv
  <2> QED
    BY <2>1, <2>3, <2>4 DEF Near
<1> QED
  BY <1>3, <1>4, <1>5, <1>6

\* The client's loop takes a message: its pointer does what the message says.
LEMMA ClientRides ==
  ASSUME Cli!HandleEvent, cliPc' # "done"
  PROVE  pointer' = Displaced(pointer, Head(cliRx))
<1>1. CASE Cli!HandleEnter
  BY <1>1 DEF Cli!HandleEnter, Cli!TakeEvent, Displaced
<1>2. CASE Cli!HandleMove
  BY <1>2 DEF Cli!HandleMove, Cli!TakeEvent, Displaced
<1>3. CASE \/ Cli!HandleLeave \/ Cli!HandleButton \/ Cli!HandleKey \/ Cli!HandleOther
           \/ Cli!HandleClipboard \/ Cli!HandlePing
  <2>1. UNCHANGED pointer /\ Head(cliRx).type \notin {"CursorEnter", "PointerMove"}
    BY <1>3 DEF Cli!HandleLeave, Cli!HandleButton, Cli!HandleKey, Cli!HandleOther,
       Cli!HandleClipboard, Cli!HandlePing, Cli!TakeEvent, Cli!deviceVars
  <2> QED
    BY <2>1 DEF Displaced
<1>4. CASE Cli!InjectionFails \/ Cli!HandleClosed
  BY <1>4 DEF Cli!InjectionFails, Cli!HandleClosed
<1> QED
  BY <1>1, <1>2, <1>3, <1>4 DEF Cli!HandleEvent

\* Wherever a message waits, the pointer arrives where it would have.
LEMMA TakesFollow ==
  ASSUME TypeInv, TypeInv', cliRx # <<>>, cliRx' = Tail(cliRx), UNCHANGED <<toCli, ctlTx>>,
         pointer' = Displaced(pointer, Head(cliRx))
  PROVE  PointerSaid' = PointerSaid
<1>1. PICK at \in Spots : at = pointer
  BY InQueues
<1>2. PICK rx \in Seq(Incoming) : rx = cliRx
  BY InQueues
<1>3. Ridden(at, rx) = Ridden(Displaced(at, Head(rx)), Tail(rx))
  BY <1>2, RiddenLess
<1>4. PointerHeard' = PointerHeard
  BY <1>1, <1>2, <1>3 DEF PointerHeard
<1> QED
  BY <1>4 DEF PointerSaid, PointerSent

LEMMA ReadsFollow ==
  ASSUME TypeInv, toCli # <<>>, cliRx' = Append(cliRx, Head(toCli)), toCli' = Tail(toCli),
         UNCHANGED <<pointer, ctlTx>>
  PROVE  PointerSaid' = PointerSaid
<1>1. PICK at \in Spots : at = pointer
  BY InQueues
<1>2. PICK rx \in Seq(Incoming) : rx = cliRx
  BY InQueues
<1>3. PICK wire \in Seq(Incoming) : wire = toCli
  BY InQueues
<1>4. PICK m \in Incoming : m = Head(wire)
  BY <1>3, Queue
<1>5. Ridden(at, Append(rx, m)) = Displaced(Ridden(at, rx), m)
  BY RiddenMore
<1>6. PICK heard \in Spots : heard = Ridden(at, rx)
  BY RiddenType
<1>7. Ridden(heard, wire) = Ridden(Displaced(heard, m), Tail(wire))
  BY <1>3, <1>4, RiddenLess
<1>8. PointerSent' = Ridden(Displaced(heard, m), Tail(wire))
  BY <1>1, <1>2, <1>3, <1>4, <1>5, <1>6 DEF PointerSent, PointerHeard
<1>9. PointerSent = Ridden(heard, wire)
  BY <1>1, <1>2, <1>3, <1>6 DEF PointerSent, PointerHeard
<1> QED
  BY <1>7, <1>8, <1>9 DEF PointerSaid

LEMMA WritesFollow ==
  ASSUME TypeInv, ctlTx # <<>>, ctlTx' = Tail(ctlTx), toCli' = Append(toCli, Head(ctlTx)),
         UNCHANGED <<pointer, cliRx>>
  PROVE  PointerSaid' = PointerSaid
<1>1. PICK at \in Spots : at = PointerHeard
  BY InQueues
<1>2. PICK wire \in Seq(Incoming) : wire = toCli
  BY InQueues
<1>3. PICK tx \in Seq(Incoming) : tx = ctlTx
  BY InQueues
<1>4. PICK m \in Incoming : m = Head(tx)
  BY <1>3, Queue
<1>5. Ridden(at, Append(wire, m)) = Displaced(Ridden(at, wire), m)
  BY RiddenMore
<1>6. PICK sent \in Spots : sent = Ridden(at, wire)
  BY RiddenType
<1>7. Ridden(sent, tx) = Ridden(Displaced(sent, m), Tail(tx))
  BY <1>3, <1>4, RiddenLess
<1>8. PointerSaid' = Ridden(Displaced(sent, m), Tail(tx))
  BY <1>1, <1>2, <1>3, <1>4, <1>5, <1>6 DEF PointerSaid, PointerSent, PointerHeard
<1>9. PointerSaid = Ridden(sent, tx)
  BY <1>1, <1>2, <1>3, <1>6 DEF PointerSaid, PointerSent
<1> QED
  BY <1>7, <1>8, <1>9

LEMMA BeatsFollow ==
  ASSUME TypeInv, toCli' = Append(toCli, Ping), UNCHANGED <<pointer, cliRx, ctlTx>>
  PROVE  PointerSaid' = PointerSaid
<1>1. PICK at \in Spots : at = PointerHeard
  BY InQueues
<1>2. PICK wire \in Seq(Incoming) : wire = toCli
  BY InQueues
<1>3. PICK m \in Incoming : m = Ping
  BY DEF Incoming, FromController
<1>4. Ridden(at, Append(wire, m)) = Displaced(Ridden(at, wire), m)
  BY RiddenMore
<1>5. Displaced(Ridden(at, wire), m) = Ridden(at, wire)
  BY <1>3 DEF Displaced, Ping
<1>6. PointerSent' = PointerSent
  BY <1>1, <1>2, <1>3, <1>4, <1>5 DEF PointerSent, PointerHeard
<1> QED
  BY <1>6 DEF PointerSaid

LEMMA FollowStep ==
  ASSUME TypeInv, TypeInv', FollowInv, Next
  PROVE  FollowInv'
<1>1. CASE CtlLoopSteps
  <2>1. Ctl!Loop /\ UNCHANGED <<pointer, cliRx, toCli, cliPc, cliReading, link>>
    BY <1>1, LoopSteps DEF CtlOnly, cliLoopVars, cliEndVars, cliQueues, wires
  <2> QED
    BY <2>1, LoopFollows
<1>2. CASE ~CtlLoopSteps
  <2> SUFFICES ASSUME mode' = "Remote", Connected' PROVE Near(PointerSaid', virtX', virtY')
    BY DEF FollowInv
  <2>1. UNCHANGED <<mode, virtX, virtY>>
    <3>1. CASE CtlUser
      BY <3>1 DEF CtlUser, Ctl!Capture, Ctl!UserCopies, Ctl!CaptureEnds, Ctl!coreVars,
         Ctl!focusVars
    <3>2. CASE ~CtlUser
      BY <1>2, <3>2, OnlyTheController DEF ctlLoopVars
    <3> QED
      BY <3>1, <3>2
  <2>2. SUFFICES Connected /\ PointerSaid' = PointerSaid
    <3>1. Near(PointerSaid, virtX, virtY)
      BY <2>1, <2>2 DEF FollowInv
    <3> QED
      BY <2>1, <2>2, <3>1 DEF Near
  <2>3. CASE OtherSteps
    <3>1. UNCHANGED <<pointer, cliRx, toCli, ctlTx, cliPc, cliReading, link, ctlWriting>>
      BY <2>3, OtherStepsLeave DEF clientEnd, ctlSide, Cli!deviceVars
    <3> QED
      BY <3>1, SaysNothing DEF Connected
  <2>4. CASE CliHandlesEvent
    <3>1. /\ cliRx # <<>> /\ cliRx' = Tail(cliRx) /\ cliPc = "select"
          /\ UNCHANGED <<toCli, ctlTx, cliReading, link, ctlWriting>>
      BY <2>4, ClientTakes DEF CliHandlesEvent, CliOnly, ctlEndVars, ctlQueues, wires,
         Cli!HandleEvent, Cli!HandleEnter, Cli!HandleLeave, Cli!HandleMove, Cli!HandleButton,
         Cli!HandleKey, Cli!HandleOther, Cli!InjectionFails, Cli!HandleClipboard,
         Cli!HandlePing, Cli!HandleClosed
    <3>2. cliPc' # "done"
      BY DEF Connected
    <3>3. pointer' = Displaced(pointer, Head(cliRx))
      BY <2>4, <3>2, ClientRides DEF CliHandlesEvent
    <3> QED
      BY <3>1, <3>3, TakesFollow DEF Connected
  <2>5. CASE CliPolls \/ CliWrites
    <3>1. UNCHANGED <<pointer, cliRx, toCli, ctlTx, cliPc, cliReading, link, ctlWriting>>
      BY <2>5 DEF CliPolls, Cli!TickSend, CliOnly, wires, ctlEndVars, ctlQueues, CliWrites,
         CliEnd!Write, CliEnd!WriteFails, CliEnd!WriterGone, CliEnd!readerVars,
         CliEnd!connVars, cliLoopVars, Cli!loopVars, Cli!deviceVars
    <3> QED
      BY <3>1, SaysNothing DEF Connected
  <2>6. CASE CtlReads
    <3>1. UNCHANGED <<pointer, cliRx, toCli, cliPc, cliReading, link, ctlWriting>>
      BY <2>6 DEF CtlReads, CtlEnd!Reader, CtlEnd!ReadMessage, CtlEnd!ReadPing,
         CtlEnd!ReadQuit, CtlEnd!ReadFails, CtlEnd!writerVars, CtlEnd!connVars, cliLoopVars,
         cliEndVars, cliQueues
    <3>2. ctlTx' = ctlTx \/ (toCtl # <<>> /\ Head(toCtl) = Ping)
      BY <2>6 DEF CtlReads, CtlEnd!Reader, CtlEnd!ReadMessage, CtlEnd!ReadPing,
         CtlEnd!ReadQuit, CtlEnd!ReadFails, CtlEnd!writerVars, CtlEnd!Ping, Ping
    <3>3. toCtl # <<>> => Head(toCtl) \in FromClient
      BY Queue DEF TypeInv, BackInv
    <3> QED
      BY <3>1, <3>2, <3>3, NoPingBack, SaysNothing DEF Connected
  <2>7. CASE CliReads
    <3>1. UNCHANGED <<pointer, ctlTx, cliPc, link, ctlWriting>>
      BY <2>7 DEF CliReads, CliEnd!Reader, CliEnd!ReadMessage, CliEnd!ReadPing,
         CliEnd!ReadQuit, CliEnd!ReadFails, CliEnd!connVars, cliLoopVars, ctlEndVars, ctlQueues
    <3>2. cliReading'
      BY DEF Connected
    <3>3. /\ toCli # <<>> /\ cliReading
          /\ cliRx' = Append(cliRx, Head(toCli)) /\ toCli' = Tail(toCli)
      BY <2>7, <3>2 DEF CliReads, CliEnd!Reader, CliEnd!ReadMessage, CliEnd!ReadPing,
         CliEnd!ReadQuit, CliEnd!ReadFails, CliEnd!Ping
    <3> QED
      BY <3>1, <3>3, ReadsFollow DEF Connected
  <2>8. CASE CtlWrites
    <3>1. UNCHANGED <<pointer, cliRx, cliPc, cliReading, link>>
      BY <2>8 DEF CtlWrites, CtlEnd!Write, CtlEnd!WriteFails, CtlEnd!BeatFails,
         CtlEnd!WriterGone, CtlEnd!connVars, cliLoopVars, cliEndVars, cliQueues
    <3>2. ctlWriting' /\ link' = "up"
      BY DEF Connected
    <3>3. /\ ctlTx # <<>> /\ ctlTx' = Tail(ctlTx) /\ toCli' = Append(toCli, Head(ctlTx))
          /\ UNCHANGED ctlWriting
      BY <2>8, <3>1, <3>2 DEF CtlWrites, CtlEnd!Write, CtlEnd!WriteFails, CtlEnd!BeatFails,
         CtlEnd!WriterGone, CtlEnd!PutOnWire
    <3> QED
      BY <3>1, <3>3, WritesFollow DEF Connected
  <2>9. CASE CtlBeats
    <3>1. UNCHANGED <<pointer, cliRx, ctlTx, cliPc, cliReading, link, ctlWriting>>
      BY <2>9 DEF CtlBeats, CtlEnd!Beat, CtlEnd!writerVars, CtlEnd!connVars, cliLoopVars,
         cliEndVars, cliQueues
    <3>2. toCli' = toCli \/ toCli' = Append(toCli, Ping)
      BY <2>9 DEF CtlBeats, CtlEnd!Beat, CtlEnd!PutOnWire, CtlEnd!Ping, Ping
    <3> QED
      BY <3>1, <3>2, SaysNothing, BeatsFollow DEF Connected
  <2>10. CASE CtlExits \/ CliExits \/ Closes
    <3>1. ~ctlWriting' \/ ~cliReading' \/ link' = "closed"
      BY <2>10 DEF CtlExits, CliExits, Closes, CtlEnd!Exit, CliEnd!Exit
    <3> QED
      BY <3>1 DEF Connected
  <2> QED
    BY <1>2, <2>3, <2>4, <2>5, <2>6, <2>7, <2>8, <2>9, <2>10 DEF Next, CtlLoopSteps, OtherSteps
<1> QED
  BY <1>1, <1>2

\* FocusState::step and the injector, whatever waits in the queues between
\* them: the virtual pointer, on which the controller decides to take the mouse
\* back, stands where the client's pointer will have arrived, or farther from
\* the shared edge on the same line.  The controller posts what it believes:
\* the position of the entry, then the movements it adds up itself, clamping
\* the height as the injector does.
THEOREM TravellerVirtualFollowsReal == Spec => []VirtualFollowsReal
<1>1. Init => FollowInv
  BY DEF Init, Ctl!Init, FollowInv
<1>2. TypeInv /\ TypeInv' /\ FollowInv /\ [Next]_vars => FollowInv'
  <2> SUFFICES ASSUME TypeInv, TypeInv', FollowInv, [Next]_vars PROVE FollowInv'
    OBVIOUS
  <2>1. CASE Next
    BY <2>1, FollowStep
  <2>2. CASE UNCHANGED vars
    <3>1. UNCHANGED <<mode, virtX, virtY, pointer, cliRx, toCli, ctlTx, cliPc, cliReading,
                      link, ctlWriting>>
      BY <2>2 DEF vars, ctlLoopVars, cliLoopVars, ctlEndVars, cliEndVars, ctlQueues,
         cliQueues, wires
    <3> QED
      BY <3>1, SaysNothing DEF FollowInv, Connected, Near
  <2> QED
    BY <2>1, <2>2
<1>3. Spec => []FollowInv
  BY <1>1, <1>2, TypeInvariant, PTL DEF Spec
<1>4. TypeInv /\ FollowInv => VirtualFollowsReal
  BY ArrivingIs DEF FollowInv, Near, VirtualFollowsReal
<1> QED
  BY <1>3, <1>4, TypeInvariant, PTL

-----------------------------------------------------------------------------
\* The clipboards.  A content goes from one loop to the other through three
\* queues, between messages of every other kind: what is on its way is what
\* these queues collect (Collect), and the exchange of BreakableExchange is
\* what the steps of the two programs make of it.

\* The clipboard's contents in a queue.
Frames == FromController \cup FromClient \cup {Closed}
Texts == [m \in Frames |-> IF m.type = "Clipboard" THEN <<m.content>> ELSE <<>>]

\* What a clipboard message carries.
LEMMA ContentOf == \A m \in Frames : m.type = "Clipboard" => m.content \in Contents
<1> SUFFICES ASSUME NEW m \in Frames, m.type = "Clipboard" PROVE m.content \in Contents
  OBVIOUS
<1>1. CASE m \in Ctl!EnterMessages \cup Ctl!InputMessages \cup
                 {Ctl!CursorLeave, Ctl!Hello, Ping, Pong, Closed, Ctl!Pong}
  BY <1>1 DEF Ctl!EnterMessages, Ctl!InputMessages, Ctl!CursorEnter, Ctl!PointerMove,
     Ctl!PointerButton, Ctl!Key, Ctl!Wheel, Ctl!CursorLeave, Ctl!Hello, Ping, Pong, Closed, Ctl!Pong
<1>2. CASE m \in Ctl!ClipboardMessages \/ \E c \in Contents : m = Ctl!Clipboard(c)
  BY <1>2 DEF Ctl!ClipboardMessages, Ctl!Clipboard
<1> QED
  BY <1>1, <1>2 DEF Frames, FromController, FromClient, Ctl!Messages, Ctl!PeerMessages

LEMMA TextsType == Texts \in Parts(Frames, Contents)
<1>1. \A m \in Frames : Texts[m] \in Seq(Contents)
  BY ContentOf DEF Texts
<1> HIDE DEF Frames
<1> QED
  BY <1>1 DEF Texts, Parts

LEMMA TextOf ==
  ASSUME NEW m \in Frames
  PROVE  /\ m.type = "Clipboard" => Texts[m] = <<m.content>>
         /\ m.type # "Clipboard" => Texts[m] = <<>>
BY DEF Texts

\* The function of ContentsOf is any that grows along the queue as Texts says.
LEMMA ContentsAlong ==
  ASSUME NEW s \in Seq(Frames), NEW h, IsCollected(Contents, Texts, s, h)
  PROVE  ContentsOf(s) = h[Len(s)]
<1> USE DEF IsCollected
<1> HIDE DEF Frames, Texts
<1>n. PICK n \in Nat : n = Len(s)
  BY LenProperties
<1> DEFINE IsIt(it) == it = [i \in 0 .. n |-> IF i = 0 THEN <<>>
                                             ELSE WithContent(it[i - 1], s[i])]
           chosen == CHOOSE it : IsIt(it)
<1>1. \A i \in 1 .. n : s[i] \in Frames
  BY <1>n, ElementOfSeq
<1>2. ContentsOf(s) = chosen[n]
  BY <1>n DEF ContentsOf
<1>3. \A i \in 1 .. n : h[i] = WithContent(h[i - 1], s[i])
  <2> TAKE i \in 1 .. n
  <2>1. i - 1 \in 0 .. Len(s)
    BY <1>n
  <2>2. PICK acc \in Seq(Contents) : acc = h[i - 1]
    BY <2>1
  <2>3. PICK e \in Frames : e = s[i]
    BY <1>1
  <2>4. h[i] = acc \o Texts[e]
    BY <1>n, <2>2, <2>3
  <2>5. CASE e.type = "Clipboard"
    <3>1. PICK c \in Contents : c = e.content
      BY <2>3, <2>5, ContentOf
    <3>2. h[i] = acc \o <<c>>
      BY <2>4, <2>5, <3>1, TextOf
    <3>3. acc \o <<c>> = Append(acc, c)
      BY AppendIsConcat
    <3> QED
      BY <2>2, <2>3, <2>5, <3>1, <3>2, <3>3 DEF WithContent
  <2>6. CASE e.type # "Clipboard"
    <3>1. h[i] = acc \o <<>>
      BY <2>4, <2>6, TextOf
    <3>2. acc \o <<>> = acc
      BY ConcatEmptySeq
    <3> QED
      BY <2>2, <2>3, <2>6, <3>1, <3>2 DEF WithContent
  <2> QED
    BY <2>5, <2>6
<1>4. IsIt(h)
  <2>1. h = [i \in 0 .. n |-> h[i]]
    BY <1>n
  <2>2. ASSUME NEW i \in 0 .. n
        PROVE  h[i] = IF i = 0 THEN <<>> ELSE WithContent(h[i - 1], s[i])
    <3>1. CASE i = 0
      BY <3>1
    <3>2. CASE i # 0
      <4>1. i \in 1 .. n
        BY <3>2
      <4> QED
        BY <1>3, <3>2, <4>1
    <3> QED
      BY <3>1, <3>2
  <2> QED
    BY <2>1, <2>2
<1>5. IsIt(chosen)
  BY <1>4
<1> HIDE DEF chosen
<1>6. \A i \in 0 .. n : chosen[i] = IF i = 0 THEN <<>> ELSE WithContent(chosen[i - 1], s[i])
  BY <1>5
<1> DEFINE P == {i \in 0 .. n : chosen[i] = h[i]}
<1>7. 0 \in P
  BY <1>6
<1>8. \A i \in 1 .. n : i - 1 \in P => i \in P
  <2> SUFFICES ASSUME NEW i \in 1 .. n, i - 1 \in P PROVE i \in P
    OBVIOUS
  <2>1. chosen[i] = WithContent(chosen[i - 1], s[i])
    BY <1>6
  <2> QED
    BY <1>3, <2>1
<1> HIDE DEF P
<1>9. \A i \in 0 .. n : i \in P
  BY <1>7, <1>8, InductionTo, SMTT(40)
<1>10. n \in P
  BY <1>9
<1> QED
  BY <1>n, <1>2, <1>10 DEF P

\* The contents of a queue are what it collects.
LEMMA TextsCollects ==
  ASSUME NEW s \in Seq(Frames)
  PROVE  ContentsOf(s) = Collect(Texts, s)
<1> HIDE DEF Frames, Texts
<1>1. PICK h : IsCollected(Contents, Texts, s, h)
  BY TextsType, CollectPath
<1>2. Collect(Texts, s) = h[Len(s)]
  BY <1>1, TextsType, CollectIs
<1> QED
  BY <1>1, <1>2, ContentsAlong

\* What is on its way in one direction, and how a step that neither sends nor
\* applies a content changes it.
OnTheWay(rx, wire, tx) == Collect(Texts, Row(rx, wire, tx))
NoTexts == {m \in Frames : m.type # "Clipboard"}
MovesOn(from, to, from1, to1) ==
  from # <<>> /\ to1 = Append(to, Head(from)) /\ from1 = Tail(from)

LEMMA OnTheWayType ==
  ASSUME NEW rx \in Seq(Frames), NEW wire \in Seq(Frames), NEW tx \in Seq(Frames)
  PROVE  OnTheWay(rx, wire, tx) \in Seq(Contents)
<1> HIDE DEF Frames, Texts
<1>1. Row(rx, wire, tx) \in Seq(Frames)
  BY RowType
<1> QED
  BY <1>1, TextsType, CollectType DEF OnTheWay

\* The reader hands the next frame over, the writer writes the next one:
\* nothing changes.
LEMMA WayReads ==
  ASSUME NEW rx \in Seq(Frames), NEW wire \in Seq(Frames), NEW tx,
         NEW rx1, NEW wire1, MovesOn(wire, rx, wire1, rx1)
  PROVE  OnTheWay(rx1, wire1, tx) = OnTheWay(rx, wire, tx)
BY RowReads DEF OnTheWay, MovesOn

LEMMA WayWrites ==
  ASSUME NEW rx \in Seq(Frames), NEW wire \in Seq(Frames), NEW tx \in Seq(Frames),
         NEW wire1, NEW tx1, MovesOn(tx, wire, tx1, wire1)
  PROVE  OnTheWay(rx, wire1, tx1) = OnTheWay(rx, wire, tx)
BY RowWrites DEF OnTheWay, MovesOn

\* A message without content may go anywhere.
LEMMA WayIgnores ==
  ASSUME NEW rx \in Seq(Frames), NEW wire \in Seq(Frames), NEW tx \in Seq(Frames),
         NEW m \in NoTexts
  PROVE  /\ OnTheWay(rx, Append(wire, m), tx) = OnTheWay(rx, wire, tx)
         /\ OnTheWay(rx, wire, Append(tx, m)) = OnTheWay(rx, wire, tx)
<1>1. m \in Frames /\ Texts[m] = <<>>
  BY TextOf DEF NoTexts
<1> HIDE DEF Frames, Texts
<1> QED
  BY <1>1, TextsType, RowIgnores DEF OnTheWay

\* A content is sent behind all others.
LEMMA WayPosts ==
  ASSUME NEW rx \in Seq(Frames), NEW wire \in Seq(Frames), NEW tx \in Seq(Frames),
         NEW m \in Frames, m.type = "Clipboard"
  PROVE  OnTheWay(rx, wire, Append(tx, m)) = Append(OnTheWay(rx, wire, tx), m.content)
<1>1. Texts[m] = <<m.content>> /\ m.content \in Contents
  BY TextOf, ContentOf
<1> HIDE DEF Frames, Texts
<1>2. OnTheWay(rx, wire, Append(tx, m)) = OnTheWay(rx, wire, tx) \o Texts[m]
  <2>1. Collect(Texts, Row(rx, wire, Append(tx, m)))
          = Collect(Texts, Row(rx, wire, tx)) \o Texts[m]
    <3>1. Collect(Texts, Row(rx, wire, Append(tx, m)))
            = Cat(Collect(Texts, Row(rx, wire, tx)), Texts[m])
      BY TextsType, CollectsPosted
    <3> QED
      BY <3>1 DEF Cat
  <2> QED
    BY <2>1 DEF OnTheWay
<1>3. PICK q \in Seq(Contents) : q = OnTheWay(rx, wire, tx)
  BY OnTheWayType
<1>4. PICK c \in Contents : c = m.content
  BY <1>1
<1>5. q \o <<c>> = Append(q, c)
  BY AppendIsConcat
<1> QED
  BY <1>1, <1>2, <1>3, <1>4, <1>5

\* The loop takes an event that carries no content.
LEMMA WayPasses ==
  ASSUME NEW rx \in Seq(Frames), NEW wire \in Seq(Frames), NEW tx \in Seq(Frames),
         rx # <<>>, Head(rx).type # "Clipboard"
  PROVE  OnTheWay(Tail(rx), wire, tx) = OnTheWay(rx, wire, tx)
<1>1. Head(rx) \in Frames /\ Tail(rx) \in Seq(Frames)
  BY HeadTailProperties
<1>2. Texts[Head(rx)] = <<>>
  BY <1>1, TextOf
<1> HIDE DEF Frames, Texts
<1>3. OnTheWay(rx, wire, tx) = Texts[Head(rx)] \o OnTheWay(Tail(rx), wire, tx)
  BY TextsType, CollectRowHead DEF OnTheWay
<1>4. PICK q \in Seq(Contents) : q = OnTheWay(Tail(rx), wire, tx)
  BY <1>1, OnTheWayType
<1>5. <<>> \o q = q
  BY ConcatEmptySeq
<1> QED
  BY <1>2, <1>3, <1>4, <1>5

\* The loop takes a content: the oldest one.
LEMMA WayTakes ==
  ASSUME NEW rx \in Seq(Frames), NEW wire \in Seq(Frames), NEW tx \in Seq(Frames),
         rx # <<>>, Head(rx).type = "Clipboard"
  PROVE  LET q == OnTheWay(rx, wire, tx)
         IN /\ q # <<>> /\ Head(q) = Head(rx).content
            /\ OnTheWay(Tail(rx), wire, tx) = Tail(q)
<1>1. Head(rx) \in Frames /\ Tail(rx) \in Seq(Frames)
  BY HeadTailProperties
<1>2. Texts[Head(rx)] = <<Head(rx).content>> /\ Head(rx).content \in Contents
  BY <1>1, TextOf, ContentOf
<1> HIDE DEF Frames, Texts
<1>3. OnTheWay(rx, wire, tx) = Texts[Head(rx)] \o OnTheWay(Tail(rx), wire, tx)
  BY TextsType, CollectRowHead DEF OnTheWay
<1>4. PICK q \in Seq(Contents) : q = OnTheWay(Tail(rx), wire, tx)
  BY <1>1, OnTheWayType
<1>5. PICK c \in Contents : c = Head(rx).content
  BY <1>2
<1>6. <<c>> \o q # <<>> /\ Tail(<<c>> \o q) = q
  BY HeadOfQueue
<1>7. Head(<<c>> \o q) = c
  OBVIOUS
<1> QED
  BY <1>2, <1>3, <1>4, <1>5, <1>6, <1>7

\* What is lost is the newest.
Cut(less, q) == \E k \in 0 .. Len(q) : less = SubSeq(q, 1, k)

LEMMA TextsCut ==
  ASSUME NEW s \in Seq(Frames), NEW u \in Seq(Frames)
  PROVE  Cut(Collect(Texts, s), Collect(Texts, s \o u))
<1> HIDE DEF Frames, Texts
<1> QED
  BY TextsType, CollectCut DEF Cut

\* The wire loses its newest frames, and what waits for the writer is lost.
LEMMA WayCuts ==
  ASSUME NEW rx \in Seq(Frames), NEW wire \in Seq(Frames), NEW tx \in Seq(Frames),
         NEW p \in Prefixes(wire)
  PROVE  Cut(OnTheWay(rx, p, <<>>), OnTheWay(rx, wire, tx))
<1> HIDE DEF Frames, Texts
<1>1. PICK s \in Seq(Frames) : s = Row(rx, p, <<>>)
  BY RowCutType
<1>2. \E u \in Seq(Frames) : Row(rx, wire, tx) = Cat(Row(rx, p, <<>>), u)
  BY RowCut
<1>3. PICK u \in Seq(Frames) : Row(rx, wire, tx) = s \o u
  BY <1>1, <1>2 DEF Cat
<1>4. Cut(Collect(Texts, s), Collect(Texts, s \o u))
  BY TextsCut
<1> QED
  BY <1>1, <1>3, <1>4 DEF OnTheWay

\* The reader ends: what it has handed over is still taken, and then Closed.
LEMMA WayEnds ==
  ASSUME NEW rx \in Seq(Frames), NEW wire \in Seq(Frames), NEW tx \in Seq(Frames)
  PROVE  Cut(OnTheWay(Append(rx, Closed), <<>>, <<>>), OnTheWay(rx, wire, tx))
<1>1. Closed \in Frames /\ Closed.type # "Clipboard"
  BY DEF Frames, Closed
<1>2. Texts[Closed] = <<>>
  BY <1>1, TextOf
<1> HIDE DEF Frames, Texts
<1>3. Append(rx, Closed) \in Seq(Frames)
  BY <1>1, AppendProperties
<1>4. Collect(Texts, Append(rx, Closed)) = Collect(Texts, rx)
  BY <1>1, <1>2, TextsType, CollectIgnores
<1>5. OnTheWay(Append(rx, Closed), <<>>, <<>>) = Collect(Texts, Append(rx, Closed))
  BY <1>3, ConcatEmptySeq DEF OnTheWay, Row, Cat
<1>6. PICK u \in Seq(Frames) : u = Cat(wire, tx)
  BY CatType
<1>7. Row(rx, wire, tx) = rx \o u
  <2>1. Cat(Cat(rx, wire), tx) = Cat(rx, Cat(wire, tx))
    BY CatAssociative
  <2> QED
    BY <1>6, <2>1 DEF Row, Cat
<1>8. Cut(Collect(Texts, rx), Collect(Texts, rx \o u))
  BY TextsCut
<1> QED
  BY <1>4, <1>5, <1>7, <1>8 DEF OnTheWay

\* The loop ends: nothing is taken any more.
LEMMA WayOver ==
  ASSUME NEW rx \in Seq(Frames), NEW wire \in Seq(Frames), NEW tx \in Seq(Frames)
  PROVE  Cut(OnTheWay(<<>>, <<>>, <<>>), OnTheWay(rx, wire, tx))
<1> HIDE DEF Frames, Texts
<1>1. PICK s \in Seq(Frames) : s = Row(rx, wire, tx)
  BY RowType
<1>2. <<>> \in Seq(Frames)
  BY EmptySeq
<1>3. <<>> \o s = s
  BY ConcatEmptySeq
<1>4. Cut(Collect(Texts, <<>>), Collect(Texts, <<>> \o s))
  BY <1>2, TextsCut
<1>5. OnTheWay(<<>>, <<>>, <<>>) = Collect(Texts, <<>>)
  BY <1>2, ConcatEmptySeq DEF OnTheWay, Row, Cat
<1> QED
  BY <1>1, <1>3, <1>4, <1>5 DEF OnTheWay

\* A direction, and what a step that neither sends nor applies a content makes
\* of it: its queues, whether the reader reads and whether the writer gets
\* through, before and after.
Direction(rx, reading, wire, tx, open) ==
  OnTheWay(rx, IF reading THEN wire ELSE <<>>, IF reading /\ open THEN tx ELSE <<>>)

Breaks(q, i, q1, i1) == (q1 = q /\ i1 = i) \/ (i1 = FALSE /\ Cut(q1, q))

Flows(rx, reading, wire, tx, open, rx1, reading1, wire1, tx1, open1) ==
  \/ /\ reading1 = reading /\ open1 = open
     /\ \/ rx1 = rx /\ wire1 = wire /\ (tx1 = tx \/ open = FALSE)
        \/ reading = TRUE /\ MovesOn(wire, rx, wire1, rx1) /\ tx1 = tx
        \/ open = TRUE /\ MovesOn(tx, wire, tx1, wire1) /\ rx1 = rx
        \/ /\ rx1 = rx
           /\ \E m \in NoTexts :
                \/ wire1 = Append(wire, m) /\ tx1 = tx
                \/ wire1 = wire /\ tx1 = Append(tx, m)
        \/ /\ rx # <<>> /\ Head(rx).type # "Clipboard" /\ rx1 = Tail(rx)
           /\ wire1 = wire
           /\ tx1 = tx
  \/ open1 = FALSE /\ reading1 = reading /\ rx1 = rx /\ wire1 \in Prefixes(wire)
  \/ reading1 = FALSE /\ (rx1 = Append(rx, Closed) \/ rx1 = <<>>)

LEMMA FlowsBreaks ==
  ASSUME NEW rx \in Seq(Frames), NEW wire \in Seq(Frames), NEW tx \in Seq(Frames),
         NEW reading \in BOOLEAN, NEW open \in BOOLEAN,
         NEW rx1, NEW wire1, NEW tx1, NEW reading1 \in BOOLEAN, NEW open1 \in BOOLEAN,
         Flows(rx, reading, wire, tx, open, rx1, reading1, wire1, tx1, open1)
  PROVE  Breaks(Direction(rx, reading, wire, tx, open), reading /\ open,
                Direction(rx1, reading1, wire1, tx1, open1), reading1 /\ open1)
<1> HIDE DEF Frames, Texts, NoTexts
<1>w. PICK w \in Seq(Frames) : w = IF reading THEN wire ELSE <<>>
  BY EmptySeq
<1>x. PICK x \in Seq(Frames) : x = IF reading /\ open THEN tx ELSE <<>>
  BY EmptySeq
<1> DEFINE w1 == IF reading1 THEN wire1 ELSE <<>>
           x1 == IF reading1 /\ open1 THEN tx1 ELSE <<>>
           q  == OnTheWay(rx, w, x)
           q1 == OnTheWay(rx1, w1, x1)
           i  == reading /\ open
           i1 == reading1 /\ open1
<1> SUFFICES Breaks(q, i, q1, i1)
  BY <1>w, <1>x DEF Direction
<1>1. CASE /\ reading1 = reading /\ open1 = open /\ rx1 = rx /\ wire1 = wire
           /\ tx1 = tx \/ open = FALSE
  <2>1. w1 = w /\ x1 = x /\ i1 = i
    BY <1>w, <1>x, <1>1
  <2> QED
    BY <1>1, <2>1 DEF Breaks
<1>2. CASE /\ reading1 = reading /\ open1 = open
           /\ reading = TRUE /\ MovesOn(wire, rx, wire1, rx1) /\ tx1 = tx
  <2>1. w1 = wire1 /\ w = wire /\ x1 = x /\ i1 = i
    BY <1>w, <1>x, <1>2
  <2>2. OnTheWay(rx1, wire1, x) = OnTheWay(rx, wire, x)
    BY <1>2, WayReads
  <2> QED
    BY <2>1, <2>2 DEF Breaks
<1>3. CASE /\ reading1 = reading /\ open1 = open
           /\ open = TRUE /\ MovesOn(tx, wire, tx1, wire1) /\ rx1 = rx
  <2>1. CASE reading
    <3>1. w1 = wire1 /\ w = wire /\ x1 = tx1 /\ x = tx /\ i1 = i
      BY <1>w, <1>x, <1>3, <2>1
    <3>2. OnTheWay(rx, wire1, tx1) = OnTheWay(rx, wire, tx)
      BY <1>3, WayWrites
    <3> QED
      BY <1>3, <3>1, <3>2 DEF Breaks
  <2>2. CASE ~reading
    <3>1. w1 = w /\ x1 = x /\ i1 = i
      BY <1>w, <1>x, <1>3, <2>2
    <3> QED
      BY <1>3, <3>1 DEF Breaks
  <2> QED
    BY <2>1, <2>2
<1>4. ASSUME reading1 = reading, open1 = open, rx1 = rx, NEW m \in NoTexts,
             \/ wire1 = Append(wire, m) /\ tx1 = tx
             \/ wire1 = wire /\ tx1 = Append(tx, m)
      PROVE  Breaks(q, i, q1, i1)
  <2>1. \/ w1 = w /\ x1 = x
        \/ w1 = Append(w, m) /\ x1 = x
        \/ w1 = w /\ x1 = Append(x, m)
    BY <1>w, <1>x, <1>4
  <2>2. /\ OnTheWay(rx, Append(w, m), x) = OnTheWay(rx, w, x)
        /\ OnTheWay(rx, w, Append(x, m)) = OnTheWay(rx, w, x)
    BY WayIgnores
  <2>3. q1 = q
    BY <1>4, <2>1, <2>2
  <2> QED
    BY <1>4, <2>3 DEF Breaks
<1>5. CASE /\ reading1 = reading /\ open1 = open
           /\ rx # <<>> /\ Head(rx).type # "Clipboard" /\ rx1 = Tail(rx)
           /\ wire1 = wire /\ tx1 = tx
  <2>1. w1 = w /\ x1 = x /\ i1 = i
    BY <1>w, <1>x, <1>5
  <2>2. OnTheWay(Tail(rx), w, x) = OnTheWay(rx, w, x)
    BY <1>5, WayPasses
  <2> QED
    BY <1>5, <2>1, <2>2 DEF Breaks
<1>6. CASE open1 = FALSE /\ reading1 = reading /\ rx1 = rx /\ wire1 \in Prefixes(wire)
  <2>1. w1 \in Prefixes(w) /\ x1 = <<>> /\ i1 = FALSE
    BY <1>w, <1>6, EmptyIsPrefix
  <2>2. Cut(OnTheWay(rx, w1, <<>>), OnTheWay(rx, w, x))
    BY <2>1, WayCuts
  <2> QED
    BY <1>6, <2>1, <2>2 DEF Breaks
<1>7. CASE reading1 = FALSE /\ rx1 = Append(rx, Closed)
  <2>1. Cut(OnTheWay(Append(rx, Closed), <<>>, <<>>), OnTheWay(rx, w, x))
    BY WayEnds
  <2>2. w1 = <<>> /\ x1 = <<>> /\ i1 = FALSE
    BY <1>7
  <2> QED
    BY <1>7, <2>1, <2>2 DEF Breaks
<1>8. CASE reading1 = FALSE /\ rx1 = <<>>
  <2>1. Cut(OnTheWay(<<>>, <<>>, <<>>), OnTheWay(rx, w, x))
    BY WayOver
  <2>2. w1 = <<>> /\ x1 = <<>> /\ i1 = FALSE
    BY <1>8
  <2> QED
    BY <1>8, <2>1, <2>2 DEF Breaks
<1> HIDE DEF q, q1, i, i1
<1> QED
  BY <1>1, <1>2, <1>3, <1>4, <1>5, <1>6, <1>7, <1>8 DEF Flows

\* A content is sent: it is lost unless the direction is whole.
LEMMA DirectionPosts ==
  ASSUME NEW rx \in Seq(Frames), NEW wire \in Seq(Frames), NEW tx \in Seq(Frames),
         NEW reading \in BOOLEAN, NEW open \in BOOLEAN,
         NEW m \in Frames, m.type = "Clipboard", NEW tx1, open => tx1 = Append(tx, m)
  PROVE  Direction(rx, reading, wire, tx1, open) =
           LET q == Direction(rx, reading, wire, tx, open)
           IN IF reading /\ open THEN Append(q, m.content) ELSE q
<1> HIDE DEF Frames, Texts
<1>1. CASE reading /\ open
  <2>1. OnTheWay(rx, wire, Append(tx, m)) = Append(OnTheWay(rx, wire, tx), m.content)
    BY WayPosts
  <2> QED
    BY <1>1, <2>1 DEF Direction
<1>2. CASE ~(reading /\ open)
  BY <1>2 DEF Direction
<1> QED
  BY <1>1, <1>2

\* The loop applies a content: the oldest on its way.
Taking(q, c, q1) == q # <<>> /\ Head(q) = c /\ q1 = Tail(q)

LEMMA DirectionTakes ==
  ASSUME NEW rx \in Seq(Frames), NEW wire \in Seq(Frames), NEW tx \in Seq(Frames),
         NEW reading \in BOOLEAN, NEW open \in BOOLEAN,
         rx # <<>>, Head(rx).type = "Clipboard"
  PROVE  Taking(Direction(rx, reading, wire, tx, open), Head(rx).content,
                Direction(Tail(rx), reading, wire, tx, open))
<1> HIDE DEF Frames, Texts
<1>w. PICK w \in Seq(Frames) : w = IF reading THEN wire ELSE <<>>
  BY EmptySeq
<1>x. PICK x \in Seq(Frames) : x = IF reading /\ open THEN tx ELSE <<>>
  BY EmptySeq
<1>1. LET q == OnTheWay(rx, w, x)
      IN q # <<>> /\ Head(q) = Head(rx).content /\ OnTheWay(Tail(rx), w, x) = Tail(q)
  BY WayTakes
<1>2. PICK q : q = OnTheWay(rx, w, x)
  OBVIOUS
<1>3. Direction(rx, reading, wire, tx, open) = q
  BY <1>w, <1>x, <1>2 DEF Direction
<1>4. Direction(Tail(rx), reading, wire, tx, open) = OnTheWay(Tail(rx), w, x)
  BY <1>w, <1>x DEF Direction
<1> QED
  BY <1>1, <1>2, <1>3, <1>4 DEF Taking

LEMMA DirectionType ==
  ASSUME NEW rx \in Seq(Frames), NEW wire \in Seq(Frames), NEW tx \in Seq(Frames),
         NEW reading \in BOOLEAN, NEW open \in BOOLEAN
  PROVE  Direction(rx, reading, wire, tx, open) \in Seq(Contents)
<1> HIDE DEF Frames, Texts
<1>w. PICK w \in Seq(Frames) : w = IF reading THEN wire ELSE <<>>
  BY EmptySeq
<1>x. PICK x \in Seq(Frames) : x = IF reading /\ open THEN tx ELSE <<>>
  BY EmptySeq
<1> QED
  BY <1>w, <1>x, OnTheWayType DEF Direction

\* The route of the source.
LEMMA RouteIsDirection ==
  ASSUME NEW rx \in Seq(Frames), NEW wire \in Seq(Frames), NEW tx \in Seq(Frames),
         NEW reading \in BOOLEAN, NEW writing \in BOOLEAN, NEW open, open = (writing /\ link = "up")
  PROVE  ClipboardRoute(rx, reading, wire, tx, writing) = Direction(rx, reading, wire, tx, open)
<1> HIDE DEF Frames, Texts
<1>w. PICK w \in Seq(Frames) : w = IF reading THEN wire ELSE <<>>
  BY EmptySeq
<1>x. PICK x \in Seq(Frames) : x = IF reading /\ writing /\ link = "up" THEN tx ELSE <<>>
  BY EmptySeq
<1>1. PICK s \in Seq(Frames) : s = Row(rx, w, x)
  BY RowType
<1>2. s = rx \o w \o x
  BY <1>1 DEF Row, Cat
<1>3. ClipboardRoute(rx, reading, wire, tx, writing) = ContentsOf(s)
  BY <1>w, <1>x, <1>2 DEF ClipboardRoute
<1>4. Direction(rx, reading, wire, tx, open) = Collect(Texts, s)
  BY <1>w, <1>x, <1>1 DEF Direction, OnTheWay
<1> QED
  BY <1>3, <1>4, TextsCollects

\* The step of BreakableExchange, without variables.
Ends == {"controller", "client"}

LEMMA ExchangeEnds ==
  /\ Exchange!Nodes = Ends
  /\ Exchange!Peer("controller") = "client" /\ Exchange!Peer("client") = "controller"
<1>1. Exchange!Nodes = Ends
  BY DEF Exchange!Nodes, Ends
<1>2. (CHOOSE m \in Ends : m # "controller") = "client"
  BY DEF Ends
<1>3. (CHOOSE m \in Ends : m # "client") = "controller"
  BY DEF Ends
<1> QED
  BY <1>1, <1>2, <1>3 DEF Exchange!Peer

LEMMA SamePrefixes ==
  ASSUME NEW q
  PROVE  /\ \A p : Cut(p, q) => p \in Exchange!Prefixes(q)
         /\ q \in Seq(Contents) => q \in Exchange!Prefixes(q)
<1>1. \A p : Cut(p, q) => p \in Exchange!Prefixes(q)
  BY DEF Cut, Exchange!Prefixes
<1>2. ASSUME q \in Seq(Contents) PROVE q \in Exchange!Prefixes(q)
  <2>1. Len(q) \in 0 .. Len(q) /\ q = SubSeq(q, 1, Len(q))
    BY <1>2, LenProperties, SubSeqFull
  <2> QED
    BY <1>1, <2>1 DEF Cut
<1> QED
  BY <1>1, <1>2

BreakStep(C, W, C1, W1) ==
  \E gone \in SUBSET Ends :
    /\ W1 = [n \in Ends |-> W[n] /\ n \notin gone]
    /\ C1 \in [Ends -> UNION {Exchange!Prefixes(C[n]) : n \in Ends}]
    /\ \A n \in Ends : IF n \in gone THEN C1[n] \in Exchange!Prefixes(C[n])
                       ELSE C1[n] = C[n]

\* Each direction stays as it is or breaks: a step of Break, or none.
LEMMA BothBreak ==
  ASSUME NEW C \in [Ends -> Seq(Contents)], NEW C1, NEW W \in [Ends -> BOOLEAN],
         NEW W1 \in [Ends -> BOOLEAN], DOMAIN C1 = Ends, C1 = [n \in Ends |-> C1[n]],
         \A n \in Ends : Breaks(C[n], W[n], C1[n], W1[n])
  PROVE  BreakStep(C, W, C1, W1)
<1> DEFINE gone == {n \in Ends : ~(C1[n] = C[n] /\ W1[n] = W[n])}
<1>1. \A n \in Ends : IF n \in gone THEN C1[n] \in Exchange!Prefixes(C[n]) ELSE C1[n] = C[n]
  BY SamePrefixes DEF Breaks
<1>2. \A n \in Ends : W1[n] = (W[n] /\ n \notin gone)
  BY DEF Breaks
<1>3. \A n \in Ends : C1[n] \in Exchange!Prefixes(C[n])
  BY <1>1, SamePrefixes
<1>4. C1 \in [Ends -> UNION {Exchange!Prefixes(C[n]) : n \in Ends}]
  BY <1>3
<1>5. W1 = [n \in Ends |-> W[n] /\ n \notin gone]
  BY <1>2
<1>6. gone \in SUBSET Ends
  OBVIOUS
<1> HIDE DEF gone
<1> QED
  BY <1>1, <1>4, <1>5, <1>6 DEF BreakStep

-----------------------------------------------------------------------------

\* The two directions, and what a step makes of them.
CliOpen == ctlWriting /\ link = "up"
CtlOpen == cliWriting /\ link = "up"

ToCliFlows == Flows(cliRx, cliReading, toCli, ctlTx, CliOpen,
                    cliRx', cliReading', toCli', ctlTx', CliOpen')
ToCtlFlows == Flows(ctlRx, ctlReading, toCtl, cliTx, CtlOpen,
                    ctlRx', ctlReading', toCtl', cliTx', CtlOpen')

TasksInv == cliReading \in BOOLEAN /\ cliWriting \in BOOLEAN

toCliVars == <<cliRx, cliReading, toCli, ctlTx, ctlWriting, link>>
toCtlVars == <<ctlRx, ctlReading, toCtl, cliTx, cliWriting, link>>

LEMMA ToCliStays == UNCHANGED toCliVars => ToCliFlows
BY DEF ToCliFlows, Flows, toCliVars, CliOpen

LEMMA ToCtlStays == UNCHANGED toCtlVars => ToCtlFlows
BY DEF ToCtlFlows, Flows, toCtlVars, CtlOpen

\* What the two ends send besides contents.
LEMMA ContentFree ==
  /\ Ping \in NoTexts /\ Pong \in NoTexts
  /\ \A m \in Ctl!Messages : m.type # "Clipboard" => m \in NoTexts
BY DEF NoTexts, Frames, FromController, Ping, Pong

\* The controller loop takes an event without content or none, and posts a
\* message without content or none.
LEMMA LoopPasses ==
  ASSUME Ctl!Loop, ~Ctl!HandleClipboard
  PROVE  /\ UNCHANGED <<ctlReading, ctlWriting>>
         /\ \/ ctlRx' = ctlRx
            \/ ctlRx # <<>> /\ Head(ctlRx).type # "Clipboard" /\ ctlRx' = Tail(ctlRx)
BY DEF Ctl!Loop, Ctl!HandleInput, Ctl!HandleConnEvent, Ctl!RemainLocal, Ctl!EnterRemote,
   Ctl!RemainRemote, Ctl!ExitRemote, Ctl!HandleButton, Ctl!HandleWheel, Ctl!HandleKey,
   Ctl!EmergencyStop, Ctl!CaptureClosed, Ctl!IgnoreMessage, Ctl!HandleClosed,
   Ctl!EventsEnded, Ctl!TickSend, Ctl!ParkEnds, Ctl!eventVars, Ctl!sendVars, Ctl!TakeEvent

LEMMA LoopPostsNoText ==
  ASSUME TypeInv, Ctl!Loop, ~Ctl!TickSend
  PROVE  /\ ctlTx' = ctlTx \/ \E m \in NoTexts : Posted(m)
         /\ ~Ctl!HandleClipboard => UNCHANGED clipboard
<1>1. ~Ctl!HandleClipboard => UNCHANGED clipboard
  BY DEF Ctl!Loop, Ctl!HandleInput, Ctl!HandleConnEvent, Ctl!RemainLocal, Ctl!EnterRemote,
     Ctl!RemainRemote, Ctl!ExitRemote, Ctl!HandleButton, Ctl!HandleWheel, Ctl!HandleKey,
     Ctl!EmergencyStop, Ctl!CaptureClosed, Ctl!IgnoreMessage, Ctl!HandleClosed,
     Ctl!EventsEnded, Ctl!ParkEnds
<1>3. ctlTx' = ctlTx \/ \E m : Posted(m) /\ m.type # "Clipboard"
  BY DEF Ctl!Loop, Ctl!HandleInput, Ctl!HandleConnEvent, Ctl!RemainLocal, Ctl!EnterRemote,
     Ctl!RemainRemote, Ctl!ExitRemote, Ctl!AnnounceLeave, Ctl!RelayIfRemote, Ctl!HandleButton,
     Ctl!HandleWheel, Ctl!HandleKey,
     Ctl!EmergencyStop, Ctl!CaptureClosed, Ctl!HandleClipboard, Ctl!IgnoreMessage,
     Ctl!HandleClosed, Ctl!EventsEnded, Ctl!ParkEnds, Ctl!sendVars, Ctl!Post, Posted,
     Ctl!CursorEnter, Ctl!CursorLeave, Ctl!PointerMove, Ctl!PointerButton, Ctl!Key, Ctl!Wheel
<1>4. ctlTx' = ctlTx \/ \E m \in Ctl!Messages : Posted(m)
  BY ControllerPosts
<1> QED
  BY <1>1, <1>3, <1>4, ContentFree DEF Posted

LEMMA SamePrefix ==
  ASSUME NEW S, NEW q \in Seq(S)
  PROVE  q \in Prefixes(q) /\ <<>> \in Prefixes(q)
<1>1. Len(q) \in 0 .. Len(q) /\ q = SubSeq(q, 1, Len(q))
  BY LenProperties, SubSeqFull
<1> QED
  BY <1>1, EmptyIsPrefix DEF Prefixes

\* The tasks of the client's session are there or not.
LEMMA TasksStep == TasksInv /\ Next => TasksInv'
<1> SUFFICES ASSUME TasksInv, Next PROVE TasksInv'
  OBVIOUS
<1>1. CASE CliReads \/ CliWrites \/ CliExits
  BY <1>1 DEF CliReads, CliEnd!Reader, CliEnd!ReadMessage, CliEnd!ReadPing, CliEnd!ReadQuit,
     CliEnd!ReadFails, CliEnd!writerVars, CliWrites, CliEnd!Write, CliEnd!WriteFails,
     CliEnd!WriterGone, CliEnd!readerVars, CliExits, CliEnd!Exit, TasksInv
<1>2. CASE CliHandlesEvent \/ CliPolls
  BY <1>2 DEF CliHandlesEvent, CliPolls, Cli!TickSend, Cli!HandleEvent, Cli!HandleEnter,
     Cli!HandleLeave, Cli!HandleMove, Cli!HandleButton, Cli!HandleKey, Cli!HandleOther,
     Cli!InjectionFails, Cli!HandleClipboard, Cli!HandlePing, Cli!HandleClosed, TasksInv
<1>3. CASE CtlLoopSteps
  BY <1>3, LoopSteps DEF CtlOnly, cliEndVars, cliQueues, TasksInv
<1>4. CASE CtlUser \/ CtlReads \/ CtlWrites \/ CtlBeats \/ CtlExits \/ Closes
  BY <1>4 DEF CtlUser, CtlReads, CtlWrites, CtlBeats, CtlExits, Closes, CtlOnly, cliEndVars,
     cliQueues, TasksInv
<1>5. CASE CliUser \/ GivesUp
  BY <1>5 DEF CliUser, Cli!UserCopies, GivesUp, CtlEnd!GiveUp, CliEnd!GiveUp,
     CliEnd!readerVars, CliEnd!writerVars, cliEndVars, cliQueues, TasksInv
<1> QED
  BY <1>1, <1>2, <1>3, <1>4, <1>5 DEF Next, CtlLoopSteps

\* No step but the posting and the applying of a content, and the users',
\* touches a clipboard; and each direction flows on or breaks.
Flowing == ToCliFlows /\ ToCtlFlows /\ UNCHANGED <<clipboard, cliClipboard>>

LEMMA LoopFlowsOn ==
  ASSUME TypeInv, CtlLoopSteps, ~Ctl!TickSend, ~Ctl!HandleClipboard
  PROVE  Flowing
<1>1. Ctl!Loop /\ UNCHANGED <<cliRx, cliReading, toCli, toCtl, cliTx, cliWriting, link, cliClipboard>>
  BY LoopSteps DEF CtlOnly, cliLoopVars, cliEndVars, cliQueues, wires
<1>2. UNCHANGED <<ctlReading, ctlWriting, clipboard>>
  BY <1>1, LoopPasses, LoopPostsNoText
<1>3. ToCtlFlows
  BY <1>1, <1>2, LoopPasses DEF ToCtlFlows, Flows, CtlOpen
<1>4. ToCliFlows
  <2>1. CASE ctlTx' = ctlTx
    BY <1>1, <1>2, <2>1 DEF ToCliFlows, Flows, CliOpen
  <2>2. CASE \E m \in NoTexts : ctlTx' = Append(ctlTx, m)
    BY <1>1, <1>2, <2>2 DEF ToCliFlows, Flows, CliOpen
  <2> QED
    BY <1>1, <2>1, <2>2, LoopPostsNoText DEF Posted
<1> QED
  BY <1>1, <1>2, <1>3, <1>4 DEF Flowing

LEMMA ClientFlowsOn ==
  ASSUME TypeInv, CliHandlesEvent, ~Cli!HandleClipboard
  PROVE  Flowing
<1>1. UNCHANGED <<clipboard, ctlRx, ctlReading, ctlTx, ctlWriting, toCli, toCtl, link>>
  BY DEF CliHandlesEvent, CliOnly, ctlLoopVars, ctlEndVars, ctlQueues, wires
<1>2. /\ UNCHANGED <<cliReading, cliWriting, cliClipboard>>
      /\ cliRx # <<>> /\ Head(cliRx).type # "Clipboard" /\ cliRx' = Tail(cliRx)
  BY DEF CliHandlesEvent, Cli!HandleEvent, Cli!HandleEnter, Cli!HandleLeave, Cli!HandleMove,
     Cli!HandleButton, Cli!HandleKey, Cli!HandleOther, Cli!InjectionFails, Cli!HandlePing,
     Cli!HandleClosed, Cli!TakeEvent, InputTypes, Cli!InputTypes
<1>3. cliTx' = cliTx \/ cliTx' = Append(cliTx, Pong)
  BY ClientTakes DEF CliHandlesEvent
<1>4. ToCliFlows
  BY <1>1, <1>2 DEF ToCliFlows, Flows, CliOpen
<1>5. ToCtlFlows
  BY <1>1, <1>2, <1>3, ContentFree DEF ToCtlFlows, Flows, CtlOpen
<1> QED
  BY <1>1, <1>2, <1>4, <1>5 DEF Flowing

LEMMA CtlReadsFlowOn ==
  ASSUME TypeInv, CtlReads
  PROVE  Flowing
<1>1. UNCHANGED <<clipboard, cliClipboard, cliRx, cliReading, cliTx, cliWriting, toCli, link, ctlWriting>>
  BY DEF CtlReads, CtlEnd!Reader, CtlEnd!ReadMessage, CtlEnd!ReadPing, CtlEnd!ReadQuit,
     CtlEnd!ReadFails, CtlEnd!writerVars, CtlEnd!connVars, ctlLoopVars, cliLoopVars, cliEndVars,
     cliQueues
<1>2. ctlTx' = ctlTx \/ ctlTx' = Append(ctlTx, Pong)
  BY DEF CtlReads, CtlEnd!Reader, CtlEnd!ReadMessage, CtlEnd!ReadPing, CtlEnd!ReadQuit,
     CtlEnd!ReadFails, CtlEnd!writerVars, CtlEnd!Pong, Pong
<1>3. \/ MovesOn(toCtl, ctlRx, toCtl', ctlRx') /\ ctlReading /\ UNCHANGED ctlReading
      \/ ctlReading' = FALSE /\ ctlRx' = Append(ctlRx, Closed)
  BY DEF CtlReads, CtlEnd!Reader, CtlEnd!ReadMessage, CtlEnd!ReadPing, CtlEnd!ReadQuit,
     CtlEnd!ReadFails, CtlEnd!Ping, CtlEnd!Closed, Closed, MovesOn
<1>4. ctlReading \in BOOLEAN
  BY DEF TypeInv, BackInv
<1>5. ToCliFlows
  BY <1>1, <1>2, ContentFree DEF ToCliFlows, Flows, CliOpen
<1>6. ToCtlFlows
  BY <1>1, <1>3, <1>4 DEF ToCtlFlows, Flows, CtlOpen
<1> QED
  BY <1>1, <1>5, <1>6 DEF Flowing

LEMMA CliReadsFlowOn ==
  ASSUME TasksInv, CliReads
  PROVE  Flowing
<1>1. UNCHANGED <<clipboard, cliClipboard, ctlRx, ctlReading, ctlTx, ctlWriting, toCtl, link, cliWriting>>
  BY DEF CliReads, CliEnd!Reader, CliEnd!ReadMessage, CliEnd!ReadPing, CliEnd!ReadQuit,
     CliEnd!ReadFails, CliEnd!writerVars, CliEnd!connVars, ctlLoopVars, cliLoopVars, ctlEndVars,
     ctlQueues
<1>2. cliTx' = cliTx \/ cliTx' = Append(cliTx, Pong)
  BY DEF CliReads, CliEnd!Reader, CliEnd!ReadMessage, CliEnd!ReadPing, CliEnd!ReadQuit,
     CliEnd!ReadFails, CliEnd!writerVars, CliEnd!Pong, Pong
<1>3. \/ MovesOn(toCli, cliRx, toCli', cliRx') /\ cliReading /\ UNCHANGED cliReading
      \/ cliReading' = FALSE /\ cliRx' = Append(cliRx, Closed)
  BY DEF CliReads, CliEnd!Reader, CliEnd!ReadMessage, CliEnd!ReadPing, CliEnd!ReadQuit,
     CliEnd!ReadFails, CliEnd!Ping, CliEnd!Closed, Closed, MovesOn
<1>4. cliReading \in BOOLEAN
  BY DEF TasksInv
<1>5. ToCtlFlows
  BY <1>1, <1>2, ContentFree DEF ToCtlFlows, Flows, CtlOpen
<1>6. ToCliFlows
  BY <1>1, <1>3, <1>4 DEF ToCliFlows, Flows, CliOpen
<1> QED
  BY <1>1, <1>5, <1>6 DEF Flowing

LEMMA CtlWritesFlowOn ==
  ASSUME TypeInv, CtlWrites
  PROVE  Flowing
<1>1. /\ UNCHANGED <<clipboard, cliClipboard, cliRx, cliReading, ctlRx, ctlReading>>
      /\ UNCHANGED <<toCtl, cliTx, cliWriting, link>>
  BY DEF CtlWrites, CtlEnd!Write, CtlEnd!WriteFails, CtlEnd!BeatFails, CtlEnd!WriterGone,
     CtlEnd!readerVars, CtlEnd!connVars, ctlLoopVars, cliLoopVars, cliEndVars, cliQueues
<1>2. \/ MovesOn(ctlTx, toCli, ctlTx', toCli') /\ UNCHANGED ctlWriting /\ link = "up" /\ ctlWriting
      \/ UNCHANGED <<toCli, ctlWriting>> /\ link # "up"
      \/ UNCHANGED toCli /\ ctlWriting' = FALSE
  BY DEF CtlWrites, CtlEnd!Write, CtlEnd!WriteFails, CtlEnd!BeatFails, CtlEnd!WriterGone,
     CtlEnd!PutOnWire, MovesOn
<1>3. toCli \in Prefixes(toCli)
  BY SamePrefix DEF TypeInv, ThereInv
<1>4. ToCliFlows
  <2>1. CASE MovesOn(ctlTx, toCli, ctlTx', toCli') /\ UNCHANGED ctlWriting /\ link = "up" /\ ctlWriting
    <3>1. CliOpen = TRUE /\ CliOpen' = CliOpen
      BY <1>1, <2>1 DEF CliOpen
    <3> QED
      BY <1>1, <2>1, <3>1 DEF ToCliFlows, Flows
  <2>2. CASE UNCHANGED <<toCli, ctlWriting>> /\ link # "up"
    <3>1. CliOpen = FALSE /\ CliOpen' = CliOpen
      BY <1>1, <2>2 DEF CliOpen
    <3> QED
      BY <1>1, <2>2, <3>1 DEF ToCliFlows, Flows
  <2>3. CASE UNCHANGED toCli /\ ctlWriting' = FALSE
    <3>1. CliOpen' = FALSE
      BY <2>3 DEF CliOpen
    <3> QED
      BY <1>1, <1>3, <2>3, <3>1 DEF ToCliFlows, Flows
  <2> QED
    BY <1>2, <2>1, <2>2, <2>3
<1>5. ToCtlFlows
  BY <1>1, ToCtlStays DEF toCtlVars
<1> QED
  BY <1>1, <1>4, <1>5 DEF Flowing

LEMMA CliWritesFlowOn ==
  ASSUME TypeInv, CliWrites
  PROVE  Flowing
<1>1. /\ UNCHANGED <<clipboard, cliClipboard, cliRx, cliReading, ctlRx, ctlReading>>
      /\ UNCHANGED <<toCli, ctlTx, ctlWriting, link>>
  BY DEF CliWrites, CliEnd!Write, CliEnd!WriteFails, CliEnd!WriterGone,
     CliEnd!readerVars, CliEnd!connVars, ctlLoopVars, cliLoopVars, ctlEndVars, ctlQueues
<1>2. \/ MovesOn(cliTx, toCtl, cliTx', toCtl') /\ UNCHANGED cliWriting /\ link = "up" /\ cliWriting
      \/ UNCHANGED <<toCtl, cliWriting>> /\ link # "up"
      \/ UNCHANGED toCtl /\ cliWriting' = FALSE
  BY DEF CliWrites, CliEnd!Write, CliEnd!WriteFails, CliEnd!WriterGone, CliEnd!PutOnWire, MovesOn
<1>3. toCtl \in Prefixes(toCtl)
  BY SamePrefix DEF TypeInv, BackInv
<1>4. ToCtlFlows
  <2>1. CASE MovesOn(cliTx, toCtl, cliTx', toCtl') /\ UNCHANGED cliWriting /\ link = "up" /\ cliWriting
    <3>1. CtlOpen = TRUE /\ CtlOpen' = CtlOpen
      BY <1>1, <2>1 DEF CtlOpen
    <3> QED
      BY <1>1, <2>1, <3>1 DEF ToCtlFlows, Flows
  <2>2. CASE UNCHANGED <<toCtl, cliWriting>> /\ link # "up"
    <3>1. CtlOpen = FALSE /\ CtlOpen' = CtlOpen
      BY <1>1, <2>2 DEF CtlOpen
    <3> QED
      BY <1>1, <2>2, <3>1 DEF ToCtlFlows, Flows
  <2>3. CASE UNCHANGED toCtl /\ cliWriting' = FALSE
    <3>1. CtlOpen' = FALSE
      BY <2>3 DEF CtlOpen
    <3> QED
      BY <1>1, <1>3, <2>3, <3>1 DEF ToCtlFlows, Flows
  <2> QED
    BY <1>2, <2>1, <2>2, <2>3
<1>5. ToCliFlows
  BY <1>1, ToCliStays DEF toCliVars
<1> QED
  BY <1>1, <1>4, <1>5 DEF Flowing

LEMMA CtlBeatsFlowOn ==
  ASSUME CtlBeats
  PROVE  Flowing
<1>1. /\ UNCHANGED <<clipboard, cliClipboard, cliRx, cliReading, ctlRx, ctlReading>>
      /\ UNCHANGED <<toCtl, cliTx, cliWriting, ctlTx, ctlWriting, link>>
  BY DEF CtlBeats, CtlEnd!Beat, CtlEnd!readerVars, CtlEnd!writerVars, CtlEnd!connVars,
     ctlLoopVars, cliLoopVars, cliEndVars, cliQueues
<1>2. toCli' = toCli \/ toCli' = Append(toCli, Ping)
  BY DEF CtlBeats, CtlEnd!Beat, CtlEnd!PutOnWire, CtlEnd!Ping, Ping
<1>3. ToCliFlows
  BY <1>1, <1>2, ContentFree DEF ToCliFlows, Flows, CliOpen
<1>4. ToCtlFlows
  BY <1>1, ToCtlStays DEF toCtlVars
<1> QED
  BY <1>1, <1>3, <1>4 DEF Flowing

LEMMA ExitsFlowOn ==
  ASSUME TypeInv, CtlExits \/ CliExits
  PROVE  Flowing
<1>1. UNCHANGED <<clipboard, cliClipboard, toCli, toCtl, link>>
  BY DEF CtlExits, CliExits, CtlEnd!Exit, CliEnd!Exit, CtlEnd!connVars, CliEnd!connVars,
     ctlLoopVars, cliLoopVars
<1>2. toCli \in Prefixes(toCli) /\ toCtl \in Prefixes(toCtl)
  BY SamePrefix DEF TypeInv, ThereInv, BackInv
<1>3. CASE CtlExits
  <2>1. /\ ctlReading' = FALSE /\ ctlRx' = <<>> /\ ctlWriting' = FALSE
        /\ UNCHANGED <<cliRx, cliReading>>
    BY <1>3 DEF CtlExits, CtlEnd!Exit, cliEndVars, cliQueues
  <2>2. CliOpen' = FALSE
    BY <2>1 DEF CliOpen
  <2> QED
    BY <1>1, <1>2, <2>1, <2>2 DEF Flowing, ToCliFlows, ToCtlFlows, Flows
<1>4. CASE CliExits
  <2>1. /\ cliReading' = FALSE /\ cliRx' = <<>> /\ cliWriting' = FALSE
        /\ UNCHANGED <<ctlRx, ctlReading>>
    BY <1>4 DEF CliExits, CliEnd!Exit, ctlEndVars, ctlQueues
  <2>2. CtlOpen' = FALSE
    BY <2>1 DEF CtlOpen
  <2> QED
    BY <1>1, <1>2, <2>1, <2>2 DEF Flowing, ToCliFlows, ToCtlFlows, Flows
<1> QED
  BY <1>3, <1>4

LEMMA ClosesFlowsOn ==
  ASSUME TypeInv, Closes
  PROVE  Flowing
<1>1. /\ UNCHANGED <<clipboard, cliClipboard, cliRx, cliReading, ctlRx, ctlReading>>
      /\ link' = "closed"
      /\ toCli' \in Prefixes(toCli) \cup {<<>>} /\ toCtl' \in Prefixes(toCtl) \cup {<<>>}
  BY DEF Closes, ctlLoopVars, cliLoopVars, ctlEndVars, cliEndVars, ctlQueues, cliQueues
<1>2. <<>> \in Prefixes(toCli) /\ <<>> \in Prefixes(toCtl)
  BY SamePrefix DEF TypeInv, ThereInv, BackInv
<1>3. CliOpen' = FALSE /\ CtlOpen' = FALSE
  BY <1>1 DEF CliOpen, CtlOpen
<1> QED
  BY <1>1, <1>2, <1>3 DEF Flowing, ToCliFlows, ToCtlFlows, Flows

\* The users and the OS leave the directions alone.
LEMMA OthersFlowOn ==
  ASSUME OtherSteps
  PROVE  ToCliFlows /\ ToCtlFlows
<1>1. UNCHANGED <<cliRx, cliReading, toCli, ctlTx, ctlWriting, link, ctlRx, ctlReading, toCtl, cliTx>>
  BY OtherStepsLeave DEF clientEnd, ctlSide
<1>2. UNCHANGED cliWriting
  BY DEF OtherSteps, CtlUser, CtlOnly, CliUser, Cli!UserCopies, GivesUp, CtlEnd!GiveUp,
     CliEnd!GiveUp, CliEnd!writerVars, cliEndVars, cliQueues
<1> QED
  BY <1>1, <1>2, ToCliStays, ToCtlStays DEF toCliVars, toCtlVars

-----------------------------------------------------------------------------

\* The two directions as the exchange sees them.
ToCliWay == Direction(cliRx, cliReading, toCli, ctlTx, CliOpen)
ToCtlWay == Direction(ctlRx, ctlReading, toCtl, cliTx, CtlOpen)

\* A pair of values, one of each program.
Pair(a, b) == [controller |-> a, client |-> b]

LEMMA Pairs ==
  ASSUME NEW a, NEW b
  PROVE  /\ Pair(a, b) = [n \in Ends |-> IF n = "client" THEN b ELSE a]
         /\ Pair(a, b)["controller"] = a
         /\ Pair(a, b)["client"] = b
         /\ \A c : [Pair(a, b) EXCEPT !["controller"] = c] = Pair(c, b)
         /\ \A c : [Pair(a, b) EXCEPT !["client"] = c] = Pair(a, c)
BY DEF Ends, Pair

RoutesInv ==
  /\ InTransit = Pair(ToCtlWay, ToCliWay)
  /\ GetsThrough = Pair(ctlReading /\ CtlOpen, cliReading /\ CliOpen)
  /\ BothClipboards = Pair(clipboard, cliClipboard)

\* The frames of every queue.
FramesInv ==
  /\ cliRx \in Seq(Frames) /\ toCli \in Seq(Frames) /\ ctlTx \in Seq(Frames)
  /\ ctlRx \in Seq(Frames) /\ toCtl \in Seq(Frames) /\ cliTx \in Seq(Frames)
  /\ cliReading \in BOOLEAN /\ ctlReading \in BOOLEAN
  /\ CliOpen \in BOOLEAN /\ CtlOpen \in BOOLEAN
  /\ clipboard \in Services /\ cliClipboard \in Services

LEMMA FramesOf == TypeInv /\ TasksInv => FramesInv
<1> SUFFICES ASSUME TypeInv, TasksInv PROVE FramesInv
  OBVIOUS
<1>1. /\ Ctl!Messages \subseteq Frames /\ FromController \subseteq Frames
      /\ FromController \cup {Closed} \subseteq Frames
      /\ FromClient \subseteq Frames /\ FromClient \cup {Closed} \subseteq Frames
  BY DEF Frames, FromController
<1>2. /\ cliRx \in Seq(Frames) /\ toCli \in Seq(Frames) /\ ctlTx \in Seq(Frames)
      /\ ctlRx \in Seq(Frames) /\ toCtl \in Seq(Frames) /\ cliTx \in Seq(Frames)
  BY <1>1, SeqMonotonic DEF TypeInv, ThereInv, BackInv
<1> QED
  BY <1>2 DEF TypeInv, ThereInv, BackInv, ClipInv, TasksInv, CliOpen, CtlOpen, FramesInv

LEMMA RoutesOf == FramesInv /\ TasksInv /\ ctlWriting \in BOOLEAN => RoutesInv
<1> SUFFICES ASSUME FramesInv, TasksInv, ctlWriting \in BOOLEAN PROVE RoutesInv
  OBVIOUS
<1> HIDE DEF Frames
<1>1. ClipboardRoute(cliRx, cliReading, toCli, ctlTx, ctlWriting) = ToCliWay
  BY RouteIsDirection DEF FramesInv, ToCliWay, CliOpen
<1>2. ClipboardRoute(ctlRx, ctlReading, toCtl, cliTx, cliWriting) = ToCtlWay
  BY RouteIsDirection DEF FramesInv, TasksInv, ToCtlWay, CtlOpen
<1>3. InTransit = Pair(ToCtlWay, ToCliWay)
  BY <1>1, <1>2 DEF InTransit, Pair
<1>4. GetsThrough = Pair(ctlReading /\ CtlOpen, cliReading /\ CliOpen)
  BY DEF GetsThrough, CliOpen, CtlOpen, Pair
<1> QED
  BY <1>3, <1>4 DEF RoutesInv, BothClipboards, Pair

ExchangeInv == FramesInv /\ RoutesInv

LEMMA WaysType == FramesInv => ToCliWay \in Seq(Contents) /\ ToCtlWay \in Seq(Contents)
<1> HIDE DEF Frames
<1> QED
  BY DirectionType DEF FramesInv, ToCliWay, ToCtlWay

\* A step that touches no clipboard is a step of Break, or none.
LEMMA FlowingBreaks ==
  ASSUME ExchangeInv, ExchangeInv', Flowing
  PROVE  Exchange!Break
<1> HIDE DEF Frames
<1>1. Breaks(ToCliWay, cliReading /\ CliOpen, ToCliWay', cliReading' /\ CliOpen')
  <2>1. /\ cliRx \in Seq(Frames) /\ toCli \in Seq(Frames) /\ ctlTx \in Seq(Frames)
        /\ cliReading \in BOOLEAN /\ CliOpen \in BOOLEAN /\ cliReading' \in BOOLEAN /\ CliOpen' \in BOOLEAN
    BY DEF ExchangeInv, FramesInv
  <2>2. Flows(cliRx, cliReading, toCli, ctlTx, CliOpen, cliRx', cliReading', toCli', ctlTx', CliOpen')
    BY DEF Flowing, ToCliFlows
  <2>3. Breaks(Direction(cliRx, cliReading, toCli, ctlTx, CliOpen), cliReading /\ CliOpen,
               Direction(cliRx', cliReading', toCli', ctlTx', CliOpen'), cliReading' /\ CliOpen')
    BY <2>1, <2>2, FlowsBreaks
  <2> QED
    BY <2>3 DEF ToCliWay
<1>2. Breaks(ToCtlWay, ctlReading /\ CtlOpen, ToCtlWay', ctlReading' /\ CtlOpen')
  <2>1. /\ ctlRx \in Seq(Frames) /\ toCtl \in Seq(Frames) /\ cliTx \in Seq(Frames)
        /\ ctlReading \in BOOLEAN /\ CtlOpen \in BOOLEAN /\ ctlReading' \in BOOLEAN /\ CtlOpen' \in BOOLEAN
    BY DEF ExchangeInv, FramesInv
  <2>2. Flows(ctlRx, ctlReading, toCtl, cliTx, CtlOpen, ctlRx', ctlReading', toCtl', cliTx', CtlOpen')
    BY DEF Flowing, ToCtlFlows
  <2>3. Breaks(Direction(ctlRx, ctlReading, toCtl, cliTx, CtlOpen), ctlReading /\ CtlOpen,
               Direction(ctlRx', ctlReading', toCtl', cliTx', CtlOpen'), ctlReading' /\ CtlOpen')
    BY <2>1, <2>2, FlowsBreaks
  <2> QED
    BY <2>3 DEF ToCtlWay
<1>3. PICK C, C1, W, W1 :
        /\ C = InTransit /\ C1 = InTransit' /\ W = GetsThrough /\ W1 = GetsThrough'
  OBVIOUS
<1>4. /\ C = [n \in Ends |-> IF n = "client" THEN ToCliWay ELSE ToCtlWay]
      /\ C1 = [n \in Ends |-> IF n = "client" THEN ToCliWay' ELSE ToCtlWay']
      /\ W = [n \in Ends |-> IF n = "client" THEN cliReading /\ CliOpen ELSE ctlReading /\ CtlOpen]
      /\ W1 = [n \in Ends |-> IF n = "client" THEN cliReading' /\ CliOpen' ELSE ctlReading' /\ CtlOpen']
  BY <1>3, Pairs DEF ExchangeInv, RoutesInv
<1>5. C \in [Ends -> Seq(Contents)] /\ DOMAIN C1 = Ends /\ C1 = [n \in Ends |-> C1[n]]
  BY <1>4, WaysType DEF ExchangeInv
<1>6. W \in [Ends -> BOOLEAN] /\ W1 \in [Ends -> BOOLEAN]
  BY <1>4 DEF ExchangeInv, FramesInv
<1>7. \A n \in Ends : Breaks(C[n], W[n], C1[n], W1[n])
  BY <1>1, <1>2, <1>4 DEF Ends
<1>8. UNCHANGED BothClipboards
  BY DEF Flowing, ExchangeInv, RoutesInv
<1>9. BreakStep(C, W, C1, W1)
  BY <1>5, <1>6, <1>7, BothBreak
<1> QED
  BY <1>3, <1>8, <1>9, ExchangeEnds DEF Exchange!Break, BreakStep

\* The exchange runs the services of the two loops.
LEMMA SameServices ==
  /\ \A s : Ctl!Offers(s) <=> Exchange!Offers(s)
  /\ \A s : Cli!Offers(s) <=> Exchange!Offers(s)
  /\ \A s : Ctl!Offered(s) = Exchange!Offered(s) /\ Cli!Offered(s) = Exchange!Offered(s)
  /\ \A s, c : Ctl!Ingested(s, c) = Exchange!Ingested(s, c)
  /\ \A s, c : Cli!Ingested(s, c) = Exchange!Ingested(s, c)
  /\ \A c : Ctl!NewService(c) = Exchange!NewService(c) /\ Cli!NewService(c) = Exchange!NewService(c)
<1>1. \A c : /\ Ctl!DigestOf(c) = Exchange!DigestOf(c) /\ Cli!DigestOf(c) = Exchange!DigestOf(c)
             /\ Ctl!UnderCap(c) <=> Exchange!UnderCap(c)
             /\ Cli!UnderCap(c) <=> Exchange!UnderCap(c)
  BY DEF Ctl!DigestOf, Cli!DigestOf, Exchange!DigestOf, Ctl!UnderCap, Cli!UnderCap, Exchange!UnderCap
<1>2. \A s : /\ Ctl!Offers(s) <=> Exchange!Offers(s)
             /\ Cli!Offers(s) <=> Exchange!Offers(s)
             /\ Ctl!Offered(s) = Exchange!Offered(s) /\ Cli!Offered(s) = Exchange!Offered(s)
  BY <1>1 DEF Ctl!Offers, Cli!Offers, Exchange!Offers, Ctl!Offered, Cli!Offered, Exchange!Offered
<1>3. \A s, c : /\ Ctl!Accepts(s, c) <=> Exchange!Accepts(s, c)
                /\ Cli!Accepts(s, c) <=> Exchange!Accepts(s, c)
  BY <1>1 DEF Ctl!Accepts, Cli!Accepts, Exchange!Accepts
<1>4. \A s, c : /\ Ctl!Ingested(s, c) = Exchange!Ingested(s, c)
                /\ Cli!Ingested(s, c) = Exchange!Ingested(s, c)
  BY <1>1, <1>3 DEF Ctl!Ingested, Cli!Ingested, Exchange!Ingested
<1>5. \A c : /\ Ctl!NewService(c) = Exchange!NewService(c)
             /\ Cli!NewService(c) = Exchange!NewService(c)
  BY DEF Ctl!NewService, Cli!NewService, Exchange!NewService
<1> QED
  BY <1>2, <1>4, <1>5

WithClip(s, c) == [s EXCEPT !.clip = c]
CopiedAt(both, n, c) == [both EXCEPT ![n].clip = c]

LEMMA Copied ==
  ASSUME NEW a, NEW b, NEW c
  PROVE  /\ CopiedAt(Pair(a, b), "controller", c) = Pair(WithClip(a, c), b)
         /\ CopiedAt(Pair(a, b), "client", c) = Pair(a, WithClip(b, c))
<1>1. /\ [Pair(a, b) EXCEPT !["controller"].clip = c]
           = [Pair(a, b) EXCEPT !["controller"] = [Pair(a, b)["controller"] EXCEPT !.clip = c]]
      /\ [Pair(a, b) EXCEPT !["client"].clip = c]
           = [Pair(a, b) EXCEPT !["client"] = [Pair(a, b)["client"] EXCEPT !.clip = c]]
  OBVIOUS
<1>2. PICK a1 : a1 = [a EXCEPT !.clip = c]
  OBVIOUS
<1>3. PICK b1 : b1 = [b EXCEPT !.clip = c]
  OBVIOUS
<1>4. Pair(a, b)["controller"] = a /\ Pair(a, b)["client"] = b
  BY Pairs
<1>5. /\ [Pair(a, b) EXCEPT !["controller"] = a1] = Pair(a1, b)
      /\ [Pair(a, b) EXCEPT !["client"] = b1] = Pair(a, b1)
  BY Pairs
<1>6. [Pair(a, b) EXCEPT !["controller"].clip = c] = [Pair(a, b) EXCEPT !["controller"] = a1]
  BY <1>1, <1>2, <1>4
<1>7. [Pair(a, b) EXCEPT !["client"].clip = c] = [Pair(a, b) EXCEPT !["client"] = b1]
  BY <1>1, <1>3, <1>4
<1> QED
  BY <1>2, <1>3, <1>5, <1>6, <1>7 DEF CopiedAt, WithClip

\* The loop of the controller offers its clipboard.
LEMMA ControllerOffers ==
  ASSUME ExchangeInv, ExchangeInv', Ctl!TickSend, CtlOnly
  PROVE  Exchange!TickSendKept("controller") \/ Exchange!TickSendLost("controller")
<1>1. /\ UNCHANGED <<cliRx, cliReading, toCli, ctlWriting, link, cliClipboard>>
      /\ UNCHANGED <<ctlRx, ctlReading, toCtl, cliTx, cliWriting>>
  BY DEF Ctl!TickSend, Ctl!eventVars, CtlOnly, cliLoopVars, cliEndVars, cliQueues, wires
<1>2. CliOpen' = CliOpen /\ CtlOpen' = CtlOpen /\ ToCtlWay' = ToCtlWay
  BY <1>1 DEF CliOpen, CtlOpen, ToCtlWay
<1>3. clipboard.clip \in Contents
  BY DEF Ctl!TickSend, Ctl!Offers, ExchangeInv, FramesInv, Services
<1>4. PICK m \in Frames : m.type = "Clipboard" /\ m.content = clipboard.clip
                          /\ (ctlWriting => ctlTx' = Append(ctlTx, m))
  <2>1. Ctl!Clipboard(clipboard.clip) \in Frames
    BY <1>3 DEF Frames, FromController, Ctl!Messages, Ctl!ClipboardMessages
  <2> QED
    BY <2>1 DEF Ctl!TickSend, Ctl!Post, Ctl!Clipboard
<1>5. Direction(cliRx, cliReading, toCli, ctlTx', CliOpen) =
        LET q == ToCliWay IN IF cliReading /\ CliOpen THEN Append(q, m.content) ELSE q
  <2> HIDE DEF Frames
  <2>1. /\ cliRx \in Seq(Frames) /\ toCli \in Seq(Frames) /\ ctlTx \in Seq(Frames)
        /\ cliReading \in BOOLEAN /\ CliOpen \in BOOLEAN
    BY DEF ExchangeInv, FramesInv
  <2>2. CliOpen => ctlTx' = Append(ctlTx, m)
    BY <1>4 DEF CliOpen
  <2> QED
    BY <1>4, <2>1, <2>2, DirectionPosts DEF ToCliWay
<1>6. ToCliWay' = IF cliReading /\ CliOpen THEN Append(ToCliWay, clipboard.clip) ELSE ToCliWay
  BY <1>1, <1>2, <1>4, <1>5 DEF ToCliWay
<1>7. Exchange!Offers(clipboard) /\ clipboard' = Exchange!Offered(clipboard)
  BY SameServices DEF Ctl!TickSend
<1>8. /\ BothClipboards["controller"] = clipboard
      /\ BothClipboards' = [BothClipboards EXCEPT !["controller"] = clipboard']
      /\ GetsThrough' = GetsThrough
      /\ GetsThrough["client"] = (cliReading /\ CliOpen)
      /\ InTransit["client"] = ToCliWay
      /\ InTransit' = [InTransit EXCEPT !["client"] = ToCliWay']
  BY <1>1, <1>2, Pairs DEF ExchangeInv, RoutesInv
<1>9. CASE cliReading /\ CliOpen
  <2>1. Exchange!TickSend("controller") /\ GetsThrough["client"]
    BY <1>6, <1>7, <1>8, <1>9, ExchangeEnds DEF Exchange!TickSend
  <2> QED
    BY <1>8, <2>1, ExchangeEnds DEF Exchange!TickSendKept
<1>10. CASE ~(cliReading /\ CliOpen)
  <2>1. InTransit' = InTransit
    BY <1>1, <1>2, <1>6, <1>10 DEF ExchangeInv, RoutesInv
  <2> QED
    BY <1>7, <1>8, <1>10, <2>1, ExchangeEnds DEF Exchange!TickSendLost
<1> QED
  BY <1>9, <1>10

LEMMA ClientOffers ==
  ASSUME ExchangeInv, ExchangeInv', CliPolls
  PROVE  Exchange!TickSendKept("client") \/ Exchange!TickSendLost("client")
<1>1. /\ UNCHANGED <<ctlRx, ctlReading, toCtl, cliWriting, link, clipboard>>
      /\ UNCHANGED <<cliRx, cliReading, toCli, ctlTx, ctlWriting>>
  BY DEF CliPolls, Cli!TickSend, CliOnly, ctlLoopVars, ctlEndVars, ctlQueues, wires
<1>2. CliOpen' = CliOpen /\ CtlOpen' = CtlOpen /\ ToCliWay' = ToCliWay
  BY <1>1 DEF CliOpen, CtlOpen, ToCliWay
<1>3. cliClipboard.clip \in Contents
  BY DEF CliPolls, Cli!TickSend, Cli!Offers, ExchangeInv, FramesInv, Services
<1>4. PICK m \in Frames : m.type = "Clipboard" /\ m.content = cliClipboard.clip
                          /\ (cliWriting => cliTx' = Append(cliTx, m))
  <2>1. Cli!Clipboard(cliClipboard.clip) \in Frames
    BY <1>3 DEF Frames, FromClient, Ctl!PeerMessages, Ctl!Clipboard, Cli!Clipboard
  <2> QED
    BY <2>1 DEF CliPolls, Cli!TickSend, Cli!Post, Cli!Clipboard
<1>5. Direction(ctlRx, ctlReading, toCtl, cliTx', CtlOpen) =
        LET q == ToCtlWay IN IF ctlReading /\ CtlOpen THEN Append(q, m.content) ELSE q
  <2> HIDE DEF Frames
  <2>1. /\ ctlRx \in Seq(Frames) /\ toCtl \in Seq(Frames) /\ cliTx \in Seq(Frames)
        /\ ctlReading \in BOOLEAN /\ CtlOpen \in BOOLEAN
    BY DEF ExchangeInv, FramesInv
  <2>2. CtlOpen => cliTx' = Append(cliTx, m)
    BY <1>4 DEF CtlOpen
  <2> QED
    BY <1>4, <2>1, <2>2, DirectionPosts DEF ToCtlWay
<1>6. ToCtlWay' = IF ctlReading /\ CtlOpen THEN Append(ToCtlWay, cliClipboard.clip) ELSE ToCtlWay
  BY <1>1, <1>2, <1>4, <1>5 DEF ToCtlWay
<1>7. Exchange!Offers(cliClipboard) /\ cliClipboard' = Exchange!Offered(cliClipboard)
  BY SameServices DEF CliPolls, Cli!TickSend
<1>8. /\ BothClipboards["client"] = cliClipboard
      /\ BothClipboards' = [BothClipboards EXCEPT !["client"] = cliClipboard']
      /\ GetsThrough' = GetsThrough
      /\ GetsThrough["controller"] = (ctlReading /\ CtlOpen)
      /\ InTransit["controller"] = ToCtlWay
      /\ InTransit' = [InTransit EXCEPT !["controller"] = ToCtlWay']
  BY <1>1, <1>2, Pairs DEF ExchangeInv, RoutesInv
<1>9. CASE ctlReading /\ CtlOpen
  <2>1. Exchange!TickSend("client") /\ GetsThrough["controller"]
    BY <1>6, <1>7, <1>8, <1>9, ExchangeEnds DEF Exchange!TickSend
  <2> QED
    BY <1>8, <2>1, ExchangeEnds DEF Exchange!TickSendKept
<1>10. CASE ~(ctlReading /\ CtlOpen)
  <2>1. InTransit' = InTransit
    BY <1>1, <1>2, <1>6, <1>10 DEF ExchangeInv, RoutesInv
  <2> QED
    BY <1>7, <1>8, <1>10, <2>1, ExchangeEnds DEF Exchange!TickSendLost
<1> QED
  BY <1>9, <1>10

\* The loop applies what it received.
LEMMA ControllerIngests ==
  ASSUME ExchangeInv, ExchangeInv', Ctl!HandleClipboard, CtlOnly
  PROVE  Exchange!Ingest("controller") /\ UNCHANGED GetsThrough
<1>1. /\ UNCHANGED <<cliRx, cliReading, toCli, ctlTx, ctlWriting, link, cliClipboard>>
      /\ UNCHANGED <<ctlReading, toCtl, cliTx, cliWriting>>
      /\ ctlRx # <<>> /\ Head(ctlRx).type = "Clipboard" /\ ctlRx' = Tail(ctlRx)
      /\ clipboard' \in Ctl!Ingested(clipboard, Head(ctlRx).content)
  BY DEF Ctl!HandleClipboard, Ctl!TakeEvent, Ctl!sendVars, CtlOnly, cliLoopVars, cliEndVars,
     cliQueues, wires
<1>2. CliOpen' = CliOpen /\ CtlOpen' = CtlOpen /\ ToCliWay' = ToCliWay
  BY <1>1 DEF CliOpen, CtlOpen, ToCliWay
<1>3. Taking(Direction(ctlRx, ctlReading, toCtl, cliTx, CtlOpen), Head(ctlRx).content,
             Direction(Tail(ctlRx), ctlReading, toCtl, cliTx, CtlOpen))
  <2> HIDE DEF Frames
  <2>1. /\ ctlRx \in Seq(Frames) /\ toCtl \in Seq(Frames) /\ cliTx \in Seq(Frames)
        /\ ctlReading \in BOOLEAN /\ CtlOpen \in BOOLEAN
    BY DEF ExchangeInv, FramesInv
  <2> QED
    BY <1>1, <2>1, DirectionTakes
<1>4. ToCtlWay # <<>> /\ Head(ToCtlWay) = Head(ctlRx).content /\ ToCtlWay' = Tail(ToCtlWay)
  BY <1>1, <1>2, <1>3 DEF ToCtlWay, Taking
<1>5. /\ BothClipboards["controller"] = clipboard
      /\ BothClipboards' = [BothClipboards EXCEPT !["controller"] = clipboard']
      /\ GetsThrough' = GetsThrough
      /\ InTransit["controller"] = ToCtlWay
      /\ InTransit' = [InTransit EXCEPT !["controller"] = ToCtlWay']
  BY <1>1, <1>2, Pairs DEF ExchangeInv, RoutesInv
<1>6. clipboard' \in Exchange!Ingested(clipboard, Head(ToCtlWay))
  BY <1>1, <1>4, SameServices
<1> QED
  BY <1>4, <1>5, <1>6 DEF Exchange!Ingest

LEMMA ClientIngests ==
  ASSUME ExchangeInv, ExchangeInv', CliHandlesEvent, Cli!HandleClipboard
  PROVE  Exchange!Ingest("client") /\ UNCHANGED GetsThrough
<1>1. /\ UNCHANGED <<ctlRx, ctlReading, toCtl, cliTx, cliWriting, link, clipboard>>
      /\ UNCHANGED <<cliReading, toCli, ctlTx, ctlWriting>>
      /\ cliRx # <<>> /\ Head(cliRx).type = "Clipboard" /\ cliRx' = Tail(cliRx)
      /\ cliClipboard' \in Cli!Ingested(cliClipboard, Head(cliRx).content)
  BY DEF Cli!HandleClipboard, Cli!TakeEvent, CliHandlesEvent, CliOnly, ctlLoopVars, ctlEndVars,
     ctlQueues, wires
<1>2. CliOpen' = CliOpen /\ CtlOpen' = CtlOpen /\ ToCtlWay' = ToCtlWay
  BY <1>1 DEF CliOpen, CtlOpen, ToCtlWay
<1>3. Taking(Direction(cliRx, cliReading, toCli, ctlTx, CliOpen), Head(cliRx).content,
             Direction(Tail(cliRx), cliReading, toCli, ctlTx, CliOpen))
  <2> HIDE DEF Frames
  <2>1. /\ cliRx \in Seq(Frames) /\ toCli \in Seq(Frames) /\ ctlTx \in Seq(Frames)
        /\ cliReading \in BOOLEAN /\ CliOpen \in BOOLEAN
    BY DEF ExchangeInv, FramesInv
  <2> QED
    BY <1>1, <2>1, DirectionTakes
<1>4. ToCliWay # <<>> /\ Head(ToCliWay) = Head(cliRx).content /\ ToCliWay' = Tail(ToCliWay)
  BY <1>1, <1>2, <1>3 DEF ToCliWay, Taking
<1>5. /\ BothClipboards["client"] = cliClipboard
      /\ BothClipboards' = [BothClipboards EXCEPT !["client"] = cliClipboard']
      /\ GetsThrough' = GetsThrough
      /\ InTransit["client"] = ToCliWay
      /\ InTransit' = [InTransit EXCEPT !["client"] = ToCliWay']
  BY <1>1, <1>2, Pairs DEF ExchangeInv, RoutesInv
<1>6. cliClipboard' \in Exchange!Ingested(cliClipboard, Head(ToCliWay))
  BY <1>1, <1>4, SameServices
<1> QED
  BY <1>4, <1>5, <1>6 DEF Exchange!Ingest

\* The users of the two machines copy, or do something else.
LEMMA UsersCopy ==
  ASSUME ExchangeInv, ExchangeInv', CtlUser \/ CliUser
  PROVE  Exchange!NextBreakable
<1>1. ToCliFlows /\ ToCtlFlows
  BY OthersFlowOn DEF OtherSteps
<1>2. CASE UNCHANGED <<clipboard, cliClipboard>>
  BY <1>1, <1>2, FlowingBreaks DEF Flowing, Exchange!NextBreakable
<1>3. UNCHANGED <<InTransit, GetsThrough>>
  <2>1. UNCHANGED <<cliRx, cliReading, toCli, ctlTx, ctlWriting, link, ctlRx, ctlReading, toCtl, cliTx>>
    BY OtherStepsLeave DEF OtherSteps, clientEnd, ctlSide
  <2>2. UNCHANGED cliWriting
    BY DEF CtlUser, CtlOnly, CliUser, Cli!UserCopies, cliEndVars, cliQueues
  <2>3. UNCHANGED <<CliOpen, CtlOpen>>
    BY <2>1, <2>2 DEF CliOpen, CtlOpen
  <2>4. UNCHANGED <<ToCliWay, ToCtlWay>>
    BY <2>1, <2>3 DEF ToCliWay, ToCtlWay
  <2> QED
    BY <2>1, <2>3, <2>4 DEF ExchangeInv, RoutesInv
<1>4. ASSUME NEW c \in Contents \cup {NoText}, clipboard' = [clipboard EXCEPT !.clip = c],
             UNCHANGED cliClipboard
      PROVE  Exchange!UserCopies("controller", c)
  <2>1. BothClipboards = Pair(clipboard, cliClipboard)
    BY DEF ExchangeInv, RoutesInv
  <2>2. BothClipboards' = Pair(WithClip(clipboard, c), cliClipboard)
    BY <1>4 DEF ExchangeInv, RoutesInv, WithClip
  <2>3. BothClipboards' = CopiedAt(BothClipboards, "controller", c)
    BY <2>1, <2>2, Copied
  <2> QED
    BY <1>3, <2>3 DEF Exchange!UserCopies, CopiedAt
<1>5. ASSUME NEW c \in Contents \cup {NoText}, cliClipboard' = [cliClipboard EXCEPT !.clip = c],
             UNCHANGED clipboard
      PROVE  Exchange!UserCopies("client", c)
  <2>1. BothClipboards = Pair(clipboard, cliClipboard)
    BY DEF ExchangeInv, RoutesInv
  <2>2. BothClipboards' = Pair(clipboard, WithClip(cliClipboard, c))
    BY <1>5 DEF ExchangeInv, RoutesInv, WithClip
  <2>3. BothClipboards' = CopiedAt(BothClipboards, "client", c)
    BY <2>1, <2>2, Copied
  <2> QED
    BY <1>3, <2>3 DEF Exchange!UserCopies, CopiedAt
<1>6. \/ UNCHANGED <<clipboard, cliClipboard>>
      \/ \E c \in Contents \cup {NoText} : /\ clipboard' = [clipboard EXCEPT !.clip = c]
                                           /\ UNCHANGED cliClipboard
      \/ \E c \in Contents \cup {NoText} : /\ cliClipboard' = [cliClipboard EXCEPT !.clip = c]
                                           /\ UNCHANGED clipboard
  BY DEF CtlUser, CliUser, CtlOnly, CliOnly, Ctl!Capture, Ctl!CaptureEnds, Ctl!UserCopies,
     Cli!UserCopies, ctlLoopVars, cliLoopVars
<1>7. "controller" \in Exchange!Nodes /\ "client" \in Exchange!Nodes
  BY ExchangeEnds DEF Ends
<1> QED
  BY <1>2, <1>3, <1>4, <1>5, <1>6, <1>7 DEF Exchange!NextBreakable

LEMMA ExchangeStep ==
  ASSUME TypeInv, TasksInv, ExchangeInv, ExchangeInv', Next
  PROVE  Exchange!NextBreakable
<1>0. "controller" \in Exchange!Nodes /\ "client" \in Exchange!Nodes
  BY ExchangeEnds DEF Ends
<1>1. CASE CtlUser \/ CliUser
  BY <1>1, UsersCopy
<1>2. CASE CtlLoopSteps
  <2>1. CtlOnly
    BY <1>2, LoopSteps
  <2>2. CASE Ctl!TickSend
    BY <1>0, <2>1, <2>2, ControllerOffers DEF Exchange!NextBreakable
  <2>3. CASE Ctl!HandleClipboard
    BY <1>0, <2>1, <2>3, ControllerIngests DEF Exchange!NextBreakable
  <2>4. CASE ~Ctl!TickSend /\ ~Ctl!HandleClipboard
    BY <1>2, <2>4, LoopFlowsOn, FlowingBreaks DEF Exchange!NextBreakable
  <2> QED
    BY <2>2, <2>3, <2>4
<1>3. CASE CliPolls
  BY <1>0, <1>3, ClientOffers DEF Exchange!NextBreakable
<1>4. CASE CliHandlesEvent
  <2>1. CASE Cli!HandleClipboard
    BY <1>0, <1>4, <2>1, ClientIngests DEF Exchange!NextBreakable
  <2>2. CASE ~Cli!HandleClipboard
    BY <1>4, <2>2, ClientFlowsOn, FlowingBreaks DEF Exchange!NextBreakable
  <2> QED
    BY <2>1, <2>2
<1>5. CASE GivesUp
  <2>1. UNCHANGED <<clipboard, cliClipboard>>
    BY <1>5 DEF GivesUp, ctlLoopVars, cliLoopVars
  <2>2. Flowing
    BY <1>5, <2>1, OthersFlowOn DEF OtherSteps, Flowing
  <2> QED
    BY <2>2, FlowingBreaks DEF Exchange!NextBreakable
<1>6. CASE CtlReads \/ CliReads \/ CtlWrites \/ CliWrites \/ CtlBeats \/ CtlExits \/ CliExits
           \/ Closes
  <2>1. Flowing
    BY <1>6, CtlReadsFlowOn, CliReadsFlowOn, CtlWritesFlowOn, CliWritesFlowOn, CtlBeatsFlowOn,
       ExitsFlowOn, ClosesFlowsOn
  <2> QED
    BY <2>1, FlowingBreaks DEF Exchange!NextBreakable
<1> QED
  BY <1>1, <1>2, <1>3, <1>4, <1>5, <1>6 DEF Next, CtlLoopSteps

\* The session starts with whatever the two clipboards hold, and nothing on
\* its way.
LEMMA ExchangeInit == Init /\ ExchangeInv => Exchange!InitBreakable
<1> SUFFICES ASSUME Init, ExchangeInv PROVE Exchange!InitBreakable
  OBVIOUS
<1>1. /\ ctlRx = <<>> /\ ctlReading = TRUE /\ ctlTx = <<Ctl!Hello>> /\ ctlWriting = TRUE
      /\ cliRx = <<>> /\ cliReading = TRUE /\ cliTx = <<>> /\ cliWriting = TRUE
      /\ toCtl = <<>> /\ toCli = <<>> /\ link = "up"
  BY DEF Init, Ctl!Init
<1>2. OnTheWay(<<>>, <<>>, <<>>) = <<>>
  <2> HIDE DEF Frames, Texts
  <2>1. OnTheWay(<<>>, <<>>, <<>>) = Collect(Texts, <<>>)
    BY EmptySeq, ConcatEmptySeq DEF OnTheWay, Row, Cat
  <2> QED
    BY <2>1, TextsType, CollectEmpty
<1>3. ToCtlWay = <<>>
  BY <1>1, <1>2 DEF ToCtlWay, Direction, CtlOpen
<1>4. ToCliWay = <<>>
  <2>1. Ctl!Hello \in NoTexts
    BY ContentFree DEF Ctl!Messages, Ctl!Hello
  <2>2. OnTheWay(<<>>, <<>>, Append(<<>>, Ctl!Hello)) = OnTheWay(<<>>, <<>>, <<>>)
    <3> HIDE DEF Frames, Texts, NoTexts
    <3>1. <<>> \in Seq(Frames)
      BY EmptySeq
    <3> QED
      BY <2>1, <3>1, WayIgnores
  <2>3. Append(<<>>, Ctl!Hello) = <<Ctl!Hello>>
    OBVIOUS
  <2>4. ToCliWay = OnTheWay(<<>>, <<>>, <<Ctl!Hello>>)
    BY <1>1 DEF ToCliWay, Direction, CliOpen
  <2> QED
    BY <1>2, <2>2, <2>3, <2>4
<1>5. InTransit = [n \in Ends |-> <<>>]
  BY <1>3, <1>4, Pairs DEF ExchangeInv, RoutesInv
<1>6. GetsThrough = [n \in Ends |-> TRUE]
  <2>1. CliOpen /\ CtlOpen /\ ctlReading /\ cliReading
    BY <1>1 DEF CliOpen, CtlOpen
  <2>2. PICK W : W = GetsThrough
    OBVIOUS
  <2>3. W = [n \in Ends |-> IF n = "client" THEN cliReading /\ CliOpen ELSE ctlReading /\ CtlOpen]
    BY <2>2, Pairs DEF ExchangeInv, RoutesInv
  <2>4. W \in [Ends -> BOOLEAN]
    BY <2>3 DEF ExchangeInv, FramesInv
  <2>5. \A n \in Ends : W[n]
    BY <2>1, <2>3 DEF Ends
  <2>6. W = [n \in Ends |-> TRUE]
    BY <2>4, <2>5
  <2> QED
    BY <2>2, <2>6
<1>7. PICK c \in Contents \cup {NoText} : clipboard = Exchange!NewService(c)
  BY SameServices DEF Init, Ctl!Init
<1>8. PICK d \in Contents \cup {NoText} : cliClipboard = Exchange!NewService(d)
  BY SameServices DEF Init, Cli!Init
<1> DEFINE start == [n \in Ends |-> IF n = "client" THEN d ELSE c]
<1>9. start \in [Ends -> Contents \cup {NoText}]
  OBVIOUS
<1>10. BothClipboards = [n \in Ends |-> Exchange!NewService(start[n])]
  BY <1>7, <1>8, Pairs DEF ExchangeInv, RoutesInv
<1> HIDE DEF start
<1> QED
  BY <1>5, <1>6, <1>9, <1>10, ExchangeEnds DEF Exchange!InitBreakable, Exchange!Init

\* ClipboardBridge::tick_send and ingest over the session, and the tasks that
\* carry what they send: whatever else the two programs say to each other and
\* whatever ends first, the clipboards are exchanged over two queues of which
\* only the newest contents are ever lost, and all that follow them.  Every
\* message but Clipboard passes through the queues without moving a content
\* past another; a reader, a writer or a program that ends cuts a queue short.
THEOREM TravellerSharesClipboards == Spec => SharesClipboards
<1>1. Init => TasksInv
  BY DEF Init, TasksInv
<1>2. TasksInv /\ [Next]_vars => TasksInv'
  <2>1. TasksInv /\ UNCHANGED vars => TasksInv'
    BY DEF TasksInv, vars, cliEndVars, cliQueues
  <2> QED
    BY <2>1, TasksStep
<1>3. Spec => []TasksInv
  BY <1>1, <1>2, PTL DEF Spec
<1>4. TypeInv /\ TasksInv => ExchangeInv
  <2>1. TypeInv => ctlWriting \in BOOLEAN
    BY DEF TypeInv, ThereInv
  <2> QED
    BY <2>1, FramesOf, RoutesOf DEF ExchangeInv
<1>5. /\ TypeInv /\ TasksInv /\ ExchangeInv /\ ExchangeInv' /\ [Next]_vars
      => [Exchange!NextBreakable]_<<BothClipboards, InTransit, GetsThrough>>
  <2>1. UNCHANGED vars => UNCHANGED <<BothClipboards, InTransit, GetsThrough>>
    BY DEF vars, ctlLoopVars, cliLoopVars, ctlEndVars, cliEndVars, ctlQueues, cliQueues, wires,
       BothClipboards, InTransit, ClipboardRoute, GetsThrough
  <2> QED
    BY <2>1, ExchangeStep
<1> QED
  BY <1>3, <1>4, <1>5, ExchangeInit, TypeInvariant, PTL
     DEF Spec, SharesClipboards, Exchange!SpecBreakable
=============================================================================
