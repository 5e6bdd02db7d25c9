------------------------ MODULE ClipboardSyncProofs ------------------------
(***************************************************************************)
(* The clipboard exchange, for every set of contents, every cap and every  *)
(* bound: it does not echo, only carries contents within the cap, and ends *)
(* in step.                                                                *)
(*                                                                         *)
(* NoEcho is inductive once each message on its way is known to be a       *)
(* content: a poll that sends moves the guard to what it sends, so that    *)
(* there is nothing left to send, and so does an ingest that succeeds.     *)
(***************************************************************************)
EXTENDS ClipboardSync, SequenceTheorems, TLAPS

IInv == TypeOK /\ NoEcho /\ OnlyUnderCap

LEMMA TwoNodes ==
  ASSUME NEW n \in Nodes
  PROVE  Peer(n) \in Nodes /\ Peer(n) # n
  BY DEF Nodes, Peer

\* A poll that sends leaves nothing to send.
LEMMA OfferedOnce ==
  ASSUME NEW s \in Services, Offers(s)
  PROVE  /\ s.clip \in Contents /\ UnderCap(s.clip)
         /\ Offered(s) \in Services
         /\ ~Offers(Offered(s))
<1>1. s.clip \in Contents /\ UnderCap(s.clip)
  BY DEF Services, Offers
<1>2. DigestOf(s.clip) \in Digests
  BY <1>1 DEF Digests
<1>3. Offered(s) = [clip |-> s.clip, last |-> DigestOf(s.clip)]
  BY DEF Offered, Services
<1>4. QED
  BY <1>1, <1>2, <1>3 DEF Services, Offers

\* So does an ingest that gets through, unless source.set fails.
LEMMA IngestedQuiet ==
  ASSUME NEW s \in Services, NEW c \in Contents, NEW t \in Ingested(s, c)
  PROVE  /\ t \in Services
         /\ Accepts(s, c) /\ t.clip = c => ~Offers(t)
         /\ ~Accepts(s, c) => t = s
<1>1. DigestOf(c) \in Digests
  BY DEF Digests
<1>2. CASE Accepts(s, c)
  <2>1. t \in {[clip |-> d, last |-> DigestOf(c)] : d \in {c, s.clip}}
    BY <1>2 DEF Ingested
  <2>2. t.last = DigestOf(c) /\ t \in Services
    BY <1>1, <2>1 DEF Services
  <2>3. QED
    BY <1>2, <2>2 DEF Offers
<1>3. CASE ~Accepts(s, c)
  BY <1>3 DEF Ingested
<1>4. QED
  BY <1>2, <1>3

LEMMA Inductive == IInv /\ [NextSync]_vars => IInv'
<1> SUFFICES ASSUME IInv, [NextSync]_vars PROVE IInv'
  OBVIOUS
<1> USE DEF IInv
<1>0. /\ svc \in [Nodes -> Services] /\ channel \in [Nodes -> Seq(Contents)]
      /\ copies \in 0 .. CopyMax /\ unsent \in [Nodes -> Int]
      /\ failures \in [Nodes -> 0 .. FailMax]
      /\ orderly \in BOOLEAN /\ latest \in Contents \cup {NoText}
  BY DEF TypeOK
<1>1. ASSUME NEW n \in Nodes, Sends(n) PROVE IInv'
  <2>1. /\ Offers(svc[n]) /\ UNCHANGED <<copies, failures, orderly, latest>>
        /\ svc' = [svc EXCEPT ![n] = Offered(svc[n])]
        /\ channel' = [channel EXCEPT ![Peer(n)] = Append(@, svc[n].clip)]
        /\ unsent' = [unsent EXCEPT ![n] = @ - 1]
    BY <1>1 DEF Sends, TickSend
  <2>2. /\ svc[n].clip \in Contents /\ UnderCap(svc[n].clip)
        /\ Offered(svc[n]) \in Services /\ ~Offers(Offered(svc[n]))
    BY <1>0, <2>1, OfferedOnce
  <2>3. Append(channel[Peer(n)], svc[n].clip) \in Seq(Contents)
    BY <1>0, <2>2, TwoNodes, AppendProperties
  <2>4. TypeOK'
    <3>1. svc' \in [Nodes -> Services]
      BY <1>0, <2>1, <2>2
    <3>2. channel' \in [Nodes -> Seq(Contents)]
      BY <1>0, <2>1, <2>3, TwoNodes
    <3>3. unsent' \in [Nodes -> Int]
      BY <1>0, <2>1
    <3>4. QED
      BY <1>0, <2>1, <3>1, <3>2, <3>3 DEF TypeOK
  <2>5. NoEcho'
    <3> SUFFICES ASSUME NEW m \in Nodes
                 PROVE  (IF Offers(svc'[m]) THEN 1 ELSE 0) <= unsent'[m] + failures'[m]
      BY DEF NoEcho
    <3>1. (IF Offers(svc[m]) THEN 1 ELSE 0) <= unsent[m] + failures[m]
      BY DEF NoEcho
    <3>2. unsent[m] \in Int /\ failures[m] \in Int
      BY <1>0
    <3>3. CASE m = n
      <4>1. ~Offers(svc'[m]) /\ Offers(svc[m])
        BY <1>0, <2>1, <2>2, <3>3
      <4>2. unsent'[m] = unsent[m] - 1 /\ failures'[m] = failures[m]
        BY <1>0, <2>1, <3>3
      <4>3. QED
        BY <3>1, <3>2, <4>1, <4>2
    <3>4. CASE m # n
      BY <1>0, <2>1, <3>1, <3>4
    <3>5. QED
      BY <3>3, <3>4
  <2>6. OnlyUnderCap'
    <3> SUFFICES ASSUME NEW m \in Nodes, NEW i \in 1 .. Len(channel'[m])
                 PROVE  UnderCap(channel'[m][i])
      BY DEF OnlyUnderCap
    <3>1. CASE m = Peer(n)
      <4>1. channel'[m] = Append(channel[m], svc[n].clip)
        BY <1>0, <2>1, <3>1, TwoNodes
      <4>2. \A j \in 1 .. Len(channel[m]) : UnderCap(channel[m][j])
        BY DEF OnlyUnderCap
      <4>3. QED
        BY <1>0, <2>2, <4>1, <4>2, AppendProperties
    <3>2. CASE m # Peer(n)
      BY <1>0, <2>1, <3>2 DEF OnlyUnderCap
    <3>3. QED
      BY <3>1, <3>2
  <2>7. QED
    BY <2>4, <2>5, <2>6
<1>2. ASSUME NEW n \in Nodes, Receives(n) PROVE IInv'
  <2> DEFINE c == Head(channel[n])
  <2>1. /\ channel[n] # <<>> /\ channel' = [channel EXCEPT ![n] = Tail(@)]
        /\ UNCHANGED <<copies, unsent, latest>>
    BY <1>2 DEF Receives, Ingest
  <2>2. c \in Contents /\ Tail(channel[n]) \in Seq(Contents)
    BY <1>0, <2>1, HeadTailProperties
  <2>t. PICK t \in Ingested(svc[n], c) : svc' = [svc EXCEPT ![n] = t]
    BY <1>2 DEF Receives, Ingest
  <2>3. /\ svc' = [svc EXCEPT ![n] = t]
        /\ IF Accepts(svc[n], c) /\ t.clip # c
           THEN /\ failures[n] < FailMax
                /\ failures' = [failures EXCEPT ![n] = @ + 1]
                /\ orderly' = FALSE
           ELSE UNCHANGED <<failures, orderly>>
    <3>1. svc'[n] = t
      BY <1>0, <2>t
    <3>2. QED
      BY <1>2, <2>t, <3>1 DEF Receives
  <2>4. /\ t \in Services
        /\ Accepts(svc[n], c) /\ t.clip = c => ~Offers(t)
        /\ ~Accepts(svc[n], c) => t = svc[n]
    BY <1>0, <2>2, <2>t, IngestedQuiet
  <2> HIDE DEF c
  <2>5. failures' \in [Nodes -> 0 .. FailMax] /\ orderly' \in BOOLEAN
    <3>1. CASE Accepts(svc[n], c) /\ t.clip # c
      <4>1. failures[n] + 1 \in 0 .. FailMax
        <5>1. failures[n] \in 0 .. FailMax /\ failures[n] < FailMax /\ FailMax \in Nat
          BY <1>0, <2>3, <3>1, SyncAssumption
        <5>2. QED
          BY <5>1
      <4>2. QED
        BY <1>0, <2>3, <3>1, <4>1
    <3>2. CASE ~(Accepts(svc[n], c) /\ t.clip # c)
      BY <1>0, <2>3, <3>2
    <3>3. QED
      BY <3>1, <3>2
  <2>6. TypeOK'
    <3>1. svc' \in [Nodes -> Services]
      BY <1>0, <2>3, <2>4
    <3>2. channel' \in [Nodes -> Seq(Contents)]
      BY <1>0, <2>1, <2>2
    <3>3. QED
      BY <1>0, <2>1, <2>5, <3>1, <3>2 DEF TypeOK
  <2>7. NoEcho'
    <3> SUFFICES ASSUME NEW m \in Nodes
                 PROVE  (IF Offers(svc'[m]) THEN 1 ELSE 0) <= unsent'[m] + failures'[m]
      BY DEF NoEcho
    <3>1. (IF Offers(svc[m]) THEN 1 ELSE 0) <= unsent[m] + failures[m]
      BY DEF NoEcho
    <3>2. unsent[m] \in Int /\ failures[m] \in Int /\ unsent'[m] = unsent[m]
      BY <1>0, <2>1
    <3>3. CASE m = n /\ Accepts(svc[n], c) /\ t.clip # c
      <4>1. failures'[m] = failures[m] + 1
        BY <1>0, <2>3, <3>3
      <4>2. QED
        BY <3>1, <3>2, <4>1
    <3>4. CASE m = n /\ Accepts(svc[n], c) /\ t.clip = c
      <4>1. ~Offers(svc'[m]) /\ failures'[m] = failures[m]
        BY <1>0, <2>3, <2>4, <3>4
      <4>2. QED
        BY <3>1, <3>2, <4>1
    <3>5. CASE m # n \/ ~Accepts(svc[n], c)
      <4>1. svc'[m] = svc[m] /\ failures'[m] = failures[m]
        BY <1>0, <2>3, <2>4, <3>5
      <4>2. QED
        BY <3>1, <3>2, <4>1
    <3>6. QED
      BY <3>3, <3>4, <3>5
  <2>8. OnlyUnderCap'
    <3> SUFFICES ASSUME NEW m \in Nodes, NEW i \in 1 .. Len(channel'[m])
                 PROVE  UnderCap(channel'[m][i])
      BY DEF OnlyUnderCap
    <3>1. CASE m = n
      <4>1. channel'[m] = Tail(channel[m]) /\ channel[m] \in Seq(Contents)
        BY <1>0, <2>1, <3>1
      <4>2. /\ Len(channel'[m]) = Len(channel[m]) - 1
            /\ channel'[m][i] = channel[m][i + 1]
        BY <2>1, <3>1, <4>1, HeadTailProperties, ZenonT(60)
      <4>3. i + 1 \in 1 .. Len(channel[m])
        BY <4>1, <4>2, LenProperties
      <4>4. QED
        BY <4>2, <4>3 DEF OnlyUnderCap
    <3>2. CASE m # n
      BY <1>0, <2>1, <3>2 DEF OnlyUnderCap
    <3>3. QED
      BY <3>1, <3>2
  <2>9. QED
    BY <2>6, <2>7, <2>8
<1>3. ASSUME NEW n \in Nodes, NEW c \in Contents \cup {NoText}, Copies(n, c)
      PROVE  IInv'
  <2>1. /\ copies < CopyMax /\ copies' = copies + 1
        /\ svc' = [svc EXCEPT ![n].clip = c]
        /\ unsent' = [unsent EXCEPT ![n] = @ + 1]
        /\ orderly' \in BOOLEAN /\ latest' = c
        /\ UNCHANGED <<channel, failures>>
    BY <1>3 DEF Copies, UserCopies
  <2>2. copies' \in 0 .. CopyMax
    BY <1>0, <2>1, SyncAssumption
  <2>3. [svc[n] EXCEPT !.clip = c] \in Services
    BY <1>0 DEF Services
  <2>4. TypeOK'
    <3>1. svc' \in [Nodes -> Services]
      BY <1>0, <2>1, <2>3
    <3>2. unsent' \in [Nodes -> Int]
      BY <1>0, <2>1
    <3>3. QED
      BY <1>0, <2>1, <2>2, <3>1, <3>2 DEF TypeOK
  <2>5. NoEcho'
    <3> SUFFICES ASSUME NEW m \in Nodes
                 PROVE  (IF Offers(svc'[m]) THEN 1 ELSE 0) <= unsent'[m] + failures'[m]
      BY DEF NoEcho
    <3>1. (IF Offers(svc[m]) THEN 1 ELSE 0) <= unsent[m] + failures[m]
      BY DEF NoEcho
    <3>2. unsent[m] \in Int /\ failures[m] \in Int /\ failures'[m] = failures[m]
      BY <1>0, <2>1
    <3>3. CASE m = n
      <4>1. unsent'[m] = unsent[m] + 1
        BY <1>0, <2>1, <3>3
      <4>2. QED
        BY <3>1, <3>2, <4>1
    <3>4. CASE m # n
      BY <1>0, <2>1, <3>1, <3>4
    <3>5. QED
      BY <3>3, <3>4
  <2>6. OnlyUnderCap'
    BY <2>1 DEF OnlyUnderCap
  <2>7. QED
    BY <2>4, <2>5, <2>6
<1>4. CASE UNCHANGED vars
  BY <1>4 DEF vars, TypeOK, NoEcho, OnlyUnderCap
<1>5. QED
  BY <1>1, <1>2, <1>3, <1>4 DEF NextSync

LEMMA Invariance == SyncSpec => []IInv
<1>1. InitSync => IInv
  <2> SUFFICES ASSUME InitSync PROVE IInv
    OBVIOUS
  <2>1. PICK start \in [Nodes -> Contents \cup {NoText}] :
          svc = [n \in Nodes |-> NewService(start[n])]
    BY DEF InitSync, Init
  <2>2. svc \in [Nodes -> Services]
    BY <2>1 DEF NewService, Services
  <2>3. /\ unsent \in [Nodes -> Int]
        /\ \A n \in Nodes : unsent[n] = IF svc[n].clip = NoText THEN 0 ELSE 1
    BY DEF InitSync, Init
  <2>4. latest \in Contents \cup {NoText} /\ orderly \in BOOLEAN
    BY <2>2 DEF InitSync, Init, Services
  <2>5. TypeOK
    BY <2>2, <2>3, <2>4, SyncAssumption, EmptySeq DEF InitSync, Init, TypeOK
  <2>6. NoEcho
    <3> SUFFICES ASSUME NEW n \in Nodes
                 PROVE  (IF Offers(svc[n]) THEN 1 ELSE 0) <= unsent[n] + failures[n]
      BY DEF NoEcho
    <3>1. failures[n] = 0
      BY DEF InitSync, Init
    <3>2. Offers(svc[n]) => svc[n].clip # NoText
      BY DEF Offers
    <3>3. QED
      BY <2>3, <3>1, <3>2
  <2>7. OnlyUnderCap
    BY EmptySeq DEF InitSync, Init, OnlyUnderCap
  <2>8. QED
    BY <2>5, <2>6, <2>7 DEF IInv
<1>2. QED
  BY <1>1, Inductive, PTL DEF SyncSpec

\* Every variable of the exchange keeps its type.
THEOREM SyncTypeOK == SyncSpec => []TypeOK
<1>1. IInv => TypeOK
  BY DEF IInv
<1>2. QED
  BY <1>1, Invariance, PTL

\* ClipboardGuard: a machine sends at most once per change of its clipboard,
\* and does not send back what it was sent; a failure of source.set accounts
\* for at most one more message.
THEOREM SyncNoEcho == SyncSpec => []NoEcho
<1>1. IInv => NoEcho
  BY DEF IInv
<1>2. QED
  BY <1>1, Invariance, PTL

\* consume_local: whatever the users copy, what is sent is within the cap.
THEOREM SyncUnderCap == SyncSpec => []OnlyUnderCap
<1>1. IInv => OnlyUnderCap
  BY DEF IInv
<1>2. QED
  BY <1>1, Invariance, PTL

-----------------------------------------------------------------------------
(***************************************************************************)
(* The clipboards end in step.  While the copies are orderly, a machine    *)
(* that does not hold the latest text has never applied it, offers         *)
(* nothing of its own, and the text is on its way to it: in its channel or *)
(* about to be polled on the other machine, which holds it.  When nothing  *)
(* is on its way any more, no such machine is left.                        *)
(***************************************************************************)

Converging ==
  ClipEnabled /\ orderly =>
    /\ latest = NoText => \A n \in Nodes : svc[n] = NewService(NoText)
    /\ latest # NoText => UnderCap(latest)
    /\ \A n \in Nodes :
         /\ \A i \in 1 .. Len(channel[n]) : channel[n][i] = latest
         /\ channel[n] # <<>> => svc[Peer(n)].clip = latest
         /\ svc[n].clip # latest =>
              /\ svc[n].last # DigestOf(latest)
              /\ ~Offers(svc[n])
              /\ svc[Peer(n)].clip = latest
              /\ channel[n] # <<>> \/ Offers(svc[Peer(n)])

LEMMA PeerOfPeer ==
  ASSUME NEW n \in Nodes
  PROVE  Peer(Peer(n)) = n /\ \A m \in Nodes : m # n => m = Peer(n)
  BY DEF Nodes, Peer

LEMMA DigestsDiffer ==
  ASSUME NEW c, NEW d, DigestOf(c) = DigestOf(d)
  PROVE  c = d
<1>1. DigestOf(c).sha256 = c /\ DigestOf(d).sha256 = d
  BY DEF DigestOf
<1>2. QED
  BY <1>1

\* In step and quiet: each machine holds the latest text.
LEMMA QuietInStep == Converging => InStep
  BY DEF Converging, InStep, Quiet, Nodes, Peer

LEMMA ConvergingSends ==
  ASSUME TypeOK, Converging, NEW n \in Nodes, Sends(n)
  PROVE  Converging'
<1> SUFFICES ASSUME ClipEnabled, orderly'
             PROVE  /\ latest' = NoText => \A m \in Nodes : svc'[m] = NewService(NoText)
                    /\ latest' # NoText => UnderCap(latest')
                    /\ \A m \in Nodes :
                         /\ \A i \in 1 .. Len(channel'[m]) : channel'[m][i] = latest'
                         /\ channel'[m] # <<>> => svc'[Peer(m)].clip = latest'
                         /\ svc'[m].clip # latest' =>
                              /\ svc'[m].last # DigestOf(latest')
                              /\ ~Offers(svc'[m])
                              /\ svc'[Peer(m)].clip = latest'
                              /\ channel'[m] # <<>> \/ Offers(svc'[Peer(m)])
  BY DEF Converging
<1>1. /\ Offers(svc[n]) /\ orderly /\ latest' = latest
      /\ svc' = [svc EXCEPT ![n] = Offered(svc[n])]
      /\ channel' = [channel EXCEPT ![Peer(n)] = Append(@, svc[n].clip)]
  BY DEF Sends, TickSend
<1>2. svc \in [Nodes -> Services] /\ channel \in [Nodes -> Seq(Contents)]
  BY DEF TypeOK
<1>3. /\ svc[n].clip = latest /\ svc[n].clip # NoText /\ latest \in Contents
      /\ svc[n].clip \in Contents /\ Offered(svc[n]).clip = latest
  BY <1>1, <1>2, OfferedOnce DEF Converging, Offered, Offers, Services
<1>4. Peer(n) \in Nodes /\ Peer(n) # n /\ Peer(Peer(n)) = n
  BY TwoNodes, PeerOfPeer
<1>5. /\ svc'[n].clip = latest /\ svc'[Peer(n)] = svc[Peer(n)]
      /\ channel'[n] = channel[n]
      /\ channel'[Peer(n)] = Append(channel[Peer(n)], latest)
  BY <1>1, <1>2, <1>3, <1>4
<1>6. latest # NoText /\ UnderCap(latest)
  BY <1>1, <1>3 DEF Converging
<1>7. \A i \in 1 .. Len(channel'[Peer(n)]) : channel'[Peer(n)][i] = latest
  <2>1. \A i \in 1 .. Len(channel[Peer(n)]) : channel[Peer(n)][i] = latest
    BY <1>1, <1>4 DEF Converging
  <2>2. channel[Peer(n)] \in Seq(Contents)
    BY <1>2, <1>4
  <2>3. QED
    BY <1>3, <1>5, <2>1, <2>2, AppendProperties
<1>8. \A i \in 1 .. Len(channel'[n]) : channel'[n][i] = latest
  BY <1>1, <1>5 DEF Converging
<1>9. channel'[n] # <<>> => svc'[Peer(n)].clip = latest
  BY <1>1, <1>5 DEF Converging
<1>10. svc'[Peer(n)].clip # latest =>
         svc'[Peer(n)].last # DigestOf(latest) /\ ~Offers(svc'[Peer(n)])
  BY <1>1, <1>4, <1>5 DEF Converging
<1>11. channel'[Peer(n)] # <<>>
  BY <1>2, <1>3, <1>4, <1>5, AppendProperties, SMTT(40)
<1>12. QED
  <2> SUFFICES ASSUME NEW m \in Nodes
               PROVE  /\ \A i \in 1 .. Len(channel'[m]) : channel'[m][i] = latest
                      /\ channel'[m] # <<>> => svc'[Peer(m)].clip = latest
                      /\ svc'[m].clip # latest =>
                           /\ svc'[m].last # DigestOf(latest)
                           /\ ~Offers(svc'[m])
                           /\ svc'[Peer(m)].clip = latest
                           /\ channel'[m] # <<>> \/ Offers(svc'[Peer(m)])
    BY <1>1, <1>6
  <2>1. CASE m = n
    BY <1>5, <1>8, <1>9, <2>1
  <2>2. CASE m = Peer(n)
    BY <1>4, <1>5, <1>7, <1>10, <1>11, <2>2
  <2>3. QED
    BY <2>1, <2>2, PeerOfPeer

LEMMA ConvergingReceives ==
  ASSUME TypeOK, Converging, NEW n \in Nodes, Receives(n)
  PROVE  Converging'
<1> SUFFICES ASSUME ClipEnabled, orderly' PROVE Converging'
  BY DEF Converging
<1> DEFINE c == Head(channel[n])
<1>1. svc \in [Nodes -> Services] /\ channel \in [Nodes -> Seq(Contents)]
  BY DEF TypeOK
<1>2. /\ channel[n] # <<>> /\ channel' = [channel EXCEPT ![n] = Tail(@)]
      /\ latest' = latest
  BY DEF Receives, Ingest
<1>3. c \in Contents /\ c = channel[n][1] /\ 1 \in 1 .. Len(channel[n])
  BY <1>1, <1>2, HeadTailProperties
<1>4. PICK t \in Ingested(svc[n], c) : svc' = [svc EXCEPT ![n] = t]
  BY DEF Receives, Ingest
<1>5. svc'[n] = t
  BY <1>1, <1>4
<1>6. orderly /\ (Accepts(svc[n], c) => t.clip = c)
  BY <1>5 DEF Receives
<1>7. /\ t \in Services
      /\ Accepts(svc[n], c) /\ t.clip = c => ~Offers(t)
      /\ ~Accepts(svc[n], c) => t = svc[n]
  BY <1>1, <1>3, <1>4, IngestedQuiet
<1>8. c = latest /\ latest # NoText /\ UnderCap(latest)
  <2>1. c = latest
    BY <1>3, <1>6 DEF Converging
  <2>2. latest # NoText
    BY <1>3, <2>1, ClipboardAssumption
  <2>3. QED
    BY <1>6, <2>1, <2>2 DEF Converging
<1>9. t.clip = latest
  <2>1. CASE Accepts(svc[n], c)
    BY <1>6, <1>8, <2>1
  <2>2. CASE ~Accepts(svc[n], c)
    <3>1. svc[n].last = DigestOf(latest)
      BY <1>8, <2>2 DEF Accepts
    <3>2. svc[n].clip = latest
      BY <1>6, <3>1 DEF Converging
    <3>3. QED
      BY <1>7, <2>2, <3>2
  <2>3. QED
    BY <2>1, <2>2
<1>10. /\ Peer(n) \in Nodes /\ Peer(n) # n /\ Peer(Peer(n)) = n
  BY TwoNodes, PeerOfPeer
<1>11. svc[Peer(n)].clip = latest
  BY <1>2, <1>6 DEF Converging
<1>12. /\ svc'[Peer(n)] = svc[Peer(n)]
       /\ channel'[Peer(n)] = channel[Peer(n)]
       /\ channel'[n] = Tail(channel[n])
  BY <1>1, <1>2, <1>4, <1>10
<1>13. \A m \in Nodes : svc'[m].clip = latest
  BY <1>5, <1>9, <1>11, <1>12, PeerOfPeer
<1>14. \A m \in Nodes : \A i \in 1 .. Len(channel'[m]) : channel'[m][i] = latest
  <2>1. \A i \in 1 .. Len(channel[n]) : channel[n][i] = latest
    BY <1>6 DEF Converging
  <2>2. /\ Len(channel'[n]) = Len(channel[n]) - 1
        /\ \A i \in 1 .. Len(channel'[n]) : channel'[n][i] = channel[n][i + 1]
    <3>1. channel[n] \in Seq(Contents) /\ channel[n] # <<>>
      BY <1>1, <1>2
    <3>2. /\ Len(Tail(channel[n])) = Len(channel[n]) - 1
          /\ \A i \in 1 .. Len(Tail(channel[n])) :
               Tail(channel[n])[i] = channel[n][i + 1]
      BY <3>1, HeadTailProperties
    <3>3. QED
      BY <1>12, <3>2
  <2>3. Len(channel[n]) \in Nat
    BY <1>1, LenProperties
  <2>4. \A i \in 1 .. Len(channel'[n]) : channel'[n][i] = latest
    BY <2>1, <2>2, <2>3
  <2>5. \A i \in 1 .. Len(channel'[Peer(n)]) : channel'[Peer(n)][i] = latest
    BY <1>6, <1>10, <1>12 DEF Converging
  <2>6. QED
    BY <2>4, <2>5, PeerOfPeer
<1>15. QED
  BY <1>2, <1>8, <1>10, <1>13, <1>14, TwoNodes DEF Converging

LEMMA ConvergingCopies ==
  ASSUME TypeOK, Converging,
         NEW n \in Nodes, NEW c \in Contents \cup {NoText}, Copies(n, c)
  PROVE  Converging'
<1> SUFFICES ASSUME ClipEnabled, orderly' PROVE Converging'
  BY DEF Converging
<1>1. svc \in [Nodes -> Services] /\ channel \in [Nodes -> Seq(Contents)]
  BY DEF TypeOK
<1>2. /\ orderly /\ Quiet /\ c \in Contents /\ UnderCap(c)
      /\ svc' = [svc EXCEPT ![n].clip = c] /\ latest' = c
      /\ UNCHANGED channel
  BY DEF Copies, UserCopies
<1>3. \A m \in Nodes : channel'[m] = <<>> /\ svc[m].clip = latest /\ ~Offers(svc[m])
  BY <1>2, QuietInStep DEF InStep, Quiet
<1>4. /\ Peer(n) \in Nodes /\ Peer(n) # n /\ Peer(Peer(n)) = n
  BY TwoNodes, PeerOfPeer
<1>5. /\ svc'[n] = [clip |-> c, last |-> svc[n].last]
      /\ svc'[Peer(n)] = svc[Peer(n)]
  BY <1>1, <1>2, <1>4 DEF Services
<1>6. c # NoText
  BY <1>2, ClipboardAssumption
<1>7. ASSUME latest # c
      PROVE  Offers(svc'[n]) /\ \A m \in Nodes : svc[m].last # DigestOf(c)
  <2>1. \A m \in Nodes : svc[m].last # DigestOf(c)
    <3>1. CASE latest = NoText
      <4>1. \A m \in Nodes : svc[m] = [clip |-> NoText, last |-> NoDigest]
        BY <1>2, <3>1 DEF Converging, NewService
      <4>2. DigestOf(c) \in Digests
        BY <1>2 DEF Digests
      <4>3. QED
        BY <4>1, <4>2, NoDigestAssumption
    <3>2. CASE latest # NoText
      <4>1. \A m \in Nodes : svc[m].last = DigestOf(latest)
        BY <1>2, <1>3, <3>2 DEF Converging, Offers
      <4>2. QED
        BY <1>7, <4>1, DigestsDiffer
    <3>3. QED
      BY <3>1, <3>2
  <2>2. QED
    BY <1>2, <1>5, <1>6, <2>1 DEF Offers
<1>8. svc'[n].clip = c
  BY <1>5
<1>9. svc'[Peer(n)].clip # c =>
        /\ svc'[Peer(n)].last # DigestOf(c)
        /\ ~Offers(svc'[Peer(n)])
        /\ Offers(svc'[n])
  BY <1>3, <1>4, <1>5, <1>7
<1>10. QED
  <2> SUFFICES ASSUME NEW m \in Nodes
               PROVE  /\ \A i \in 1 .. Len(channel'[m]) : channel'[m][i] = c
                      /\ channel'[m] # <<>> => svc'[Peer(m)].clip = c
                      /\ svc'[m].clip # c =>
                           /\ svc'[m].last # DigestOf(c)
                           /\ ~Offers(svc'[m])
                           /\ svc'[Peer(m)].clip = c
                           /\ channel'[m] # <<>> \/ Offers(svc'[Peer(m)])
    BY <1>2, <1>6 DEF Converging
  <2>1. channel'[m] = <<>> /\ Len(channel'[m]) = 0
    BY <1>3
  <2>2. CASE m = n
    BY <1>8, <2>1, <2>2
  <2>3. CASE m = Peer(n)
    BY <1>4, <1>8, <1>9, <2>1, <2>3
  <2>4. QED
    BY <2>2, <2>3, PeerOfPeer

LEMMA ConvergingInit == InitSync => Converging
<1> SUFFICES ASSUME InitSync, ClipEnabled, orderly PROVE Converging
  BY DEF Converging
<1>0. /\ Init /\ latest \in {svc[n].clip : n \in Nodes}
      /\ orderly = ( /\ \A n \in Nodes : svc[n].clip \in {latest, NoText}
                     /\ latest # NoText => UnderCap(latest) )
      /\ latest = NoText => \A n \in Nodes : svc[n].clip = NoText
  BY DEF InitSync
<1>1. PICK start \in [Nodes -> Contents \cup {NoText}] :
        svc = [n \in Nodes |-> NewService(start[n])]
  BY <1>0 DEF Init
<1>2. /\ \A n \in Nodes : svc[n] = NewService(start[n])
      /\ \A n \in Nodes : start[n] \in Contents \cup {NoText}
      /\ svc \in [Nodes -> Services]
  BY <1>1 DEF NewService, Services
<1>s. \A x : NewService(x).clip = x /\ NewService(x).last = NoDigest
  BY DEF NewService
<1>c. \A n \in Nodes :
        channel[n] = <<>> /\ Len(channel[n]) = 0 /\ svc[n].last = NoDigest
  <2>1. \A n \in Nodes : channel[n] = <<>>
    BY <1>0 DEF Init
  <2>2. \A n \in Nodes : svc[n].last = NoDigest
    BY <1>2, <1>s
  <2>3. QED
    BY <2>1, <2>2, EmptySeq
<1>d. \A n \in Nodes : svc[n].clip \in Contents \cup {NoText}
  BY <1>2, <1>s
<1>e. \A n \in Nodes : svc[n] = NewService(svc[n].clip)
  BY <1>2, <1>s
<1>3. /\ \A n \in Nodes : svc[n].clip \in {latest, NoText}
      /\ latest # NoText => UnderCap(latest)
      /\ latest \in {svc[n].clip : n \in Nodes}
      /\ latest = NoText => \A n \in Nodes : svc[n].clip = NoText
  BY <1>0
<1>4. CASE latest = NoText
  BY <1>c, <1>e, <1>3, <1>4 DEF Converging
<1>5. CASE latest # NoText
  <2>1. latest \in Contents
    BY <1>d, <1>3, <1>5
  <2>2. DigestOf(latest) # NoDigest
    BY <2>1, NoDigestAssumption DEF Digests
  <2>3. \A n \in Nodes : svc[n].clip = latest => Offers(svc[n])
    BY <1>c, <1>3, <1>5, <2>2 DEF Offers
  <2>4. \A n \in Nodes : svc[n].clip # latest =>
          svc[n].last # DigestOf(latest) /\ ~Offers(svc[n]) /\ svc[Peer(n)].clip = latest
    <3> TAKE n \in Nodes
    <3> HAVE svc[n].clip # latest
    <3>1. svc[n].last # DigestOf(latest)
      BY <1>c, <2>2
    <3>2. ~Offers(svc[n])
      BY <1>3 DEF Offers
    <3>3. svc[Peer(n)].clip = latest
      BY <1>3, PeerOfPeer
    <3>4. QED
      BY <3>1, <3>2, <3>3
  <2>5. QED
    BY <1>c, <1>3, <1>5, <2>3, <2>4, TwoNodes DEF Converging
<1>6. QED
  BY <1>4, <1>5

\* docs/ACCEPTANCE.md:33-35, copy on one machine and paste on the other: when
\* the users copied one after the other and nothing is on its way any more,
\* both clipboards hold the text that was copied last.
THEOREM SyncInStep == SyncSpec => []InStep
<1>1. TypeOK /\ Converging /\ [NextSync]_vars => Converging'
  <2> SUFFICES ASSUME TypeOK, Converging, [NextSync]_vars PROVE Converging'
    OBVIOUS
  <2>1. CASE UNCHANGED vars
    BY <2>1 DEF vars, Converging
  <2>2. QED
    BY <2>1, ConvergingSends, ConvergingReceives, ConvergingCopies DEF NextSync
<1>2. QED
  BY <1>1, ConvergingInit, QuietInStep, SyncTypeOK, PTL DEF SyncSpec
=============================================================================
