---------------------------- MODULE ConnectProofs ----------------------------
(***************************************************************************)
(* What Connect guarantees for every pair of machines, every set of        *)
(* configurations and files, and every bound.                              *)
(***************************************************************************)
EXTENDS Connect, SequenceTheorems, TLAPS

USE DEF Machines

LEMMA TwoMachines ==
  ASSUME NEW n \in Machines
  PROVE  /\ Other(n) \in Machines /\ Other(n) # n
         /\ \A m \in Machines : m = n \/ m = Other(n)
BY ConnectAssumption DEF Other

-----------------------------------------------------------------------------
\* The files and the identities.

\* While a pair is being saved it is in memory, it has not been used, and the
\* certificate is written whole before the key is touched; a pair that has
\* been used is on the disk.
SavingInv(n) ==
  st[n] \in Saving =>
    /\ id[n] \in Ids /\ kept[n] = NoId
    /\ st[n] \in {"saveKey", "keyOpen"} => files[n].cert = id[n]

KeptInv(n) == kept[n] # NoId => files[n].cert = kept[n] /\ files[n].key = kept[n]

\* TypeOK but for the connections, as no identity depends on them.
LocalInv ==
  /\ LocalTypeOK /\ BackoffTypeOK
  /\ \A n \in Machines : SavingInv(n) /\ KeptInv(n)
  /\ IdentityKept

USE DEF Stopped, Saving, InSession, States, GoTo

LEMMA LocalInit == Init => LocalInv
<1> SUFFICES ASSUME Init PROVE LocalInv
  OBVIOUS
<1>1. LocalTypeOK /\ BackoffTypeOK
  BY ConnectAssumption
     DEF Init, LocalTypeOK, BackoffTypeOK, FilesType, Usable, Ids
<1>2. \A n \in Machines : SavingInv(n) /\ KeptInv(n)
  BY ConnectAssumption DEF Init, SavingInv, KeptInv, Usable
<1>3. IdentityKept
  BY DEF Init, IdentityKept
<1> QED BY <1>1, <1>2, <1>3 DEF LocalInv

\* A step that touches neither a file nor an identity and takes no program out
\* of its start-up but to end it.
LEMMA LocalKept ==
  ASSUME LocalInv, UNCHANGED <<files, id, made, kept>>,
         cfg' \in [Machines -> ConfigType],
         st' \in [Machines -> States], BackoffTypeOK',
         \A n \in Machines : \/ st'[n] = st[n] \/ st'[n] \in Stopped
                             \/ st[n] \notin Stopped \cup Saving \cup {"started"} /\ st'[n] \notin Saving
  PROVE  LocalInv'
BY DEF LocalInv, LocalTypeOK, SavingInv, KeptInv, IdentityKept

LEMMA LeaveKept ==
  ASSUME LocalInv, NEW n \in Machines, NEW s \in Stopped, Leave(n, s)
  PROVE  LocalInv'
<1>1. cfg' \in [Machines -> ConfigType] /\ st' \in [Machines -> States] /\ BackoffTypeOK'
  BY DEF Leave, LocalInv, LocalTypeOK, BackoffTypeOK, localVars
<1>2. \A m \in Machines : st'[m] = st[m] \/ st'[m] \in Stopped
  BY DEF Leave, LocalInv, LocalTypeOK
<1> QED BY <1>1, <1>2, LocalKept DEF Leave, localVars

Strangers(n) ==
  StrangerComes(n) \/ StrangerShakes(n) \/ StrangersLeave(n) \/ StrangerHangsUp(n)

LEMMA LocalStep ==
  ASSUME LocalInv, WireTypeOK, NEW n \in Machines, Program(n) \/ World(n)
  PROVE  LocalInv'
<1> DEFINE Passes == /\ cfg' \in [Machines -> ConfigType] /\ st' \in [Machines -> States]
                     /\ BackoffTypeOK'
                     /\ \A m \in Machines :
                          \/ st'[m] = st[m] \/ st'[m] \in Stopped
                          \/ /\ st[m] \notin Stopped \cup Saving \cup {"started"}
                             /\ st'[m] \notin Saving
                     /\ UNCHANGED <<files, id, made, kept>>
<1>0. ASSUME Passes PROVE LocalInv'
  BY <1>0, LocalKept
<1> USE DEF LocalInv, LocalTypeOK, BackoffTypeOK, localVars
<1>1. CASE Launch(n)
  <2>1. LocalTypeOK' /\ BackoffTypeOK'
    BY <1>1 DEF Launch
  <2>2. \A m \in Machines : SavingInv(m)' /\ KeptInv(m)'
    BY <1>1 DEF Launch, SavingInv, KeptInv
  <2>3. IdentityKept'
    BY <1>1 DEF Launch, IdentityKept
  <2> QED BY <2>1, <2>2, <2>3
<1>2. CASE ReadIdentity(n)
  <2>1. files[n].cert \in Ids \cup {Missing, Torn} /\ (kept[n] # NoId => Usable(files[n]) /\ files[n].cert = kept[n])
    BY <1>2, ConnectAssumption DEF KeptInv, Usable, FilesType, Ids
  <2>2. LocalTypeOK' /\ BackoffTypeOK'
    BY <1>2, <2>1 DEF ReadIdentity, Identify, Usable
  <2>3. \A m \in Machines : SavingInv(m)' /\ KeptInv(m)'
    BY <1>2, <2>1 DEF ReadIdentity, Identify, SavingInv, KeptInv, Usable
  <2>4. IdentityKept'
    BY <1>2, <2>1 DEF ReadIdentity, Identify, IdentityKept
  <2> QED BY <2>2, <2>3, <2>4
<1>3. CASE MakeIdentity(n)
  <2>1. made' \in Ids
    BY <1>3, ConnectAssumption DEF MakeIdentity, Ids
  <2>2. kept[n] = NoId
    BY <1>3, ConnectAssumption DEF MakeIdentity, KeptInv, Exist, Ids
  <2>3. LocalTypeOK' /\ BackoffTypeOK'
    BY <1>3, <2>1, ConnectAssumption DEF MakeIdentity, Ids
  <2>4. \A m \in Machines : SavingInv(m)' /\ KeptInv(m)'
    BY <1>3, <2>1, <2>2 DEF MakeIdentity, SavingInv, KeptInv
  <2>5. IdentityKept'
    BY <1>3 DEF MakeIdentity, IdentityKept
  <2> QED BY <2>3, <2>4, <2>5
<1>4. CASE SaveIdentity(n)
  <2>0. SavingInv(n) /\ st[n] \in Saving /\ id[n] \in Ids
    BY <1>4 DEF SaveIdentity, OpenCert, FillCert, OpenKey, FillKey, WriteFile, SavingInv
  <2>1. CASE OpenCert(n) \/ FillCert(n) \/ OpenKey(n)
    <3>1. LocalTypeOK' /\ BackoffTypeOK'
      BY <2>0, <2>1 DEF OpenCert, FillCert, OpenKey, WriteFile, FilesType
    <3>2. \A m \in Machines : SavingInv(m)' /\ KeptInv(m)'
      BY <2>0, <2>1 DEF OpenCert, FillCert, OpenKey, WriteFile, FilesType, SavingInv, KeptInv
    <3>3. IdentityKept'
      BY <2>1 DEF OpenCert, FillCert, OpenKey, WriteFile, IdentityKept
    <3> QED BY <3>1, <3>2, <3>3
  <2>2. CASE FillKey(n)
    <3>1. LocalTypeOK' /\ BackoffTypeOK'
      BY <2>0, <2>2 DEF FillKey, Identify, FilesType
    <3>2. \A m \in Machines : SavingInv(m)' /\ KeptInv(m)'
      BY <2>0, <2>2 DEF FillKey, Identify, FilesType, SavingInv, KeptInv
    <3>3. IdentityKept'
      BY <2>0, <2>2 DEF FillKey, Identify, IdentityKept, SavingInv
    <3> QED BY <3>1, <3>2, <3>3
  <2> QED BY <1>4, <2>1, <2>2 DEF SaveIdentity
<1>5. CASE BeginDialing(n)
  BY <1>0, <1>5 DEF BeginDialing
<1>6. CASE Dial(n) \/ DialFails(n) \/ HandshakeFails(n) \/ Refuse(n) \/ BeginSession(n)
  BY <1>0, <1>6 DEF Dial, DialFails, HandshakeFails, Refuse, BeginSession
<1>7. CASE Wake(n)
  BY <1>0, <1>7 DEF Wake, Doubled, MinOf
<1>8. CASE ServeLoop(n)
  BY <1>0, <1>8 DEF ServeLoop, Bind, Accept, ServeFails, ServeRefuses, ServeSession
<1>9. CASE BeginLoop(n)
  <2>1. CASE Leave(n, "failed")
    BY <2>1, LeaveKept
  <2>2. CASE ~Leave(n, "failed")
    BY <1>0, <1>9, <2>2 DEF BeginLoop
  <2> QED BY <2>1, <2>2
<1>10. CASE HearsClosed(n) \/ Leaves(n) \/ Killed(n)
  BY <1>10, LeaveKept DEF HearsClosed, Leaves, Killed
<1>11. CASE UserPins(n)
  <2>0. peer[n] \in Certs \cup {NoPin, Malformed} /\ cfg[n] \in ConfigType
    BY <1>11 DEF UserPins, WireTypeOK
  <2>1. cfg' \in [Machines -> ConfigType]
    BY <1>11, <2>0 DEF UserPins, ConfigType
  <2> QED BY <1>0, <1>11, <2>1 DEF UserPins
<1>12. ASSUME NEW file \in {"cert", "key"}, UserDeletes(n, file) PROVE LocalInv'
  <2>1. LocalTypeOK' /\ BackoffTypeOK'
    BY <1>12 DEF UserDeletes, FilesType
  <2>2. \A m \in Machines : SavingInv(m)' /\ KeptInv(m)'
    BY <1>12 DEF UserDeletes, SavingInv, KeptInv
  <2>3. IdentityKept'
    BY <1>12 DEF UserDeletes, IdentityKept
  <2> QED BY <2>1, <2>2, <2>3
<1>13. CASE Strangers(n) \/ Breaks(n)
  BY <1>0, <1>13 DEF Strangers, StrangerComes, StrangerShakes, StrangersLeave, StrangerHangsUp, Breaks
<1> QED
  BY <1>1, <1>2, <1>3, <1>4, <1>5, <1>6, <1>7, <1>8, <1>9, <1>10, <1>11, <1>12, <1>13
  DEF Program, World, ConnectLoop, Strangers

-----------------------------------------------------------------------------
\* The connections.

ConnType == [kind : ServedKinds, id : Certs \cup {NoId}]

LEMMA BacklogsKept ==
  ASSUME NEW q \in Seq(Kinds)
  PROVE  DialedGone(q) \in Seq(Kinds) /\ StrangerGone(q) \in Seq(Kinds)
BY DEF DialedGone, StrangerGone, Kinds

LEMMA ServedKept ==
  ASSUME NEW c \in ConnType
  PROVE  ServedGone(c) \in ConnType /\ GuestGone(c) \in ConnType
BY DEF ConnType, ServedGone, GuestGone, Conn, ServedKinds, Kinds, Shown, Certs

LEMMA CloseAllType ==
  ASSUME WireTypeOK, NEW n \in Machines, CloseAll(n), UNCHANGED peer
  PROVE  WireTypeOK'
<1>1. backlog' \in [Machines -> Seq(Kinds)]
  <2>1. \A m \in Machines : backlog'[m] \in {<<>>, backlog[m], DialedGone(backlog[m])}
    BY TwoMachines DEF CloseAll, WireTypeOK
  <2> QED BY <2>1, BacklogsKept, EmptySeq DEF CloseAll, WireTypeOK
<1>2. serving' \in [Machines -> ConnType]
  <2>1. \A m \in Machines : serving'[m] \in {Nobody, serving[m], ServedGone(serving[m])}
    BY TwoMachines DEF CloseAll, WireTypeOK
  <2> QED BY <2>1, ServedKept DEF CloseAll, WireTypeOK, ConnType, Nobody, Conn, ServedKinds
<1> QED BY <1>1, <1>2 DEF WireTypeOK, ConnType, CloseAll

LEMMA WireTypeStep ==
  ASSUME LocalInv, WireTypeOK, NEW n \in Machines, Program(n) \/ World(n)
  PROVE  WireTypeOK'
<1> DEFINE o == Other(n)
<1>0. o \in Machines /\ id[n] \in Ids \cup {NoId} /\ id[o] \in Ids \cup {NoId}
  BY TwoMachines DEF LocalInv, LocalTypeOK
<1>1. CASE UNCHANGED wireVars
  BY <1>1 DEF WireTypeOK, wireVars
<1>2. CASE Dial(n)
  <2>1. Append(backlog[o], "peer") \in Seq(Kinds)
    BY <1>0, AppendProperties DEF WireTypeOK, Kinds
  <2> QED BY <1>0, <1>2, <2>1 DEF Dial, WireTypeOK
<1>3. CASE Refuse(n) \/ BeginSession(n)
  <2>1. \A k \in ServedKinds : Conn(k, id[n]) \in ConnType
    BY <1>0 DEF ConnType, Conn, Certs
  <2>2. {"gone", "doneGone", "done"} \subseteq ServedKinds
    BY DEF ServedKinds, Kinds, Shown
  <2>3. \E k \in ServedKinds : serving' = [serving EXCEPT ![o] = Conn(k, id[n])]
    BY <1>3, <2>2 DEF Refuse, BeginSession
  <2>4. serving' \in [Machines -> ConnType]
    BY <1>0, <2>1, <2>3 DEF WireTypeOK, ConnType
  <2>5. CASE Refuse(n)
    BY <2>4, <2>5 DEF Refuse, WireTypeOK, ConnType
  <2>6. CASE BeginSession(n)
    BY <1>0, <2>4, <2>6 DEF BeginSession, WireTypeOK, ConnType, Certs
  <2> QED BY <1>3, <2>5, <2>6
<1>4. CASE Accept(n)
  <2>1. Head(backlog[n]) \in Kinds /\ Tail(backlog[n]) \in Seq(Kinds)
    BY <1>4, HeadTailProperties DEF Accept, WireTypeOK
  <2> QED BY <1>4, <2>1 DEF Accept, WireTypeOK, Conn, ServedKinds
<1>5. CASE ServeFails(n) \/ ServeRefuses(n) \/ ServeSession(n)
  <2>1. Nobody \in ConnType
    BY DEF ConnType, Nobody, Conn, ServedKinds
  <2>2. serving' = [serving EXCEPT ![n] = Nobody]
    BY <1>5 DEF ServeFails, ServeRefuses, ServeSession
  <2>3. serving' \in [Machines -> ConnType]
    BY <2>1, <2>2 DEF WireTypeOK, ConnType
  <2>4. CASE ServeFails(n)
    BY <2>3, <2>4 DEF ServeFails, WireTypeOK, ConnType
  <2>5. CASE ServeRefuses(n)
    BY <1>0, <2>3, <2>5 DEF ServeRefuses, WireTypeOK, ConnType
  <2>6. CASE ServeSession(n)
    <3>1. open' \in [Machines -> BOOLEAN]
      BY <2>6 DEF ServeSession, WireTypeOK
    <3>2. peer' \in [Machines -> Certs \cup {NoId}]
      BY <2>6 DEF ServeSession, WireTypeOK, ConnType
    <3>3. backlog' \in [Machines -> Seq(Kinds)]
      BY <2>6, EmptySeq DEF ServeSession, WireTypeOK
    <3> QED BY <2>3, <3>1, <3>2, <3>3 DEF WireTypeOK, ConnType
  <2> QED BY <1>5, <2>4, <2>5, <2>6
<1>6. ASSUME NEW s, Leave(n, s) PROVE WireTypeOK'
  BY <1>6, CloseAllType DEF Leave
<1>7. CASE StrangerComes(n)
  <2>1. Append(backlog[n], "stranger") \in Seq(Kinds)
    BY AppendProperties DEF WireTypeOK, Kinds
  <2> QED BY <1>7, <2>1 DEF StrangerComes, WireTypeOK
<1>8. CASE StrangerShakes(n)
  <2>1. Conn("guest", Stranger) \in ConnType
    BY DEF ConnType, Conn, ServedKinds, Shown, Certs
  <2>2. serving' \in [Machines -> ConnType]
    BY <1>8, <2>1 DEF StrangerShakes, WireTypeOK, ConnType
  <2> QED BY <1>8, <2>2 DEF StrangerShakes, WireTypeOK, ConnType
<1>9. CASE StrangersLeave(n)
  <2>1. serving' \in [Machines -> ConnType]
    BY <1>9, ServedKept DEF StrangersLeave, WireTypeOK, ConnType
  <2> QED BY <1>9, <2>1, BacklogsKept DEF StrangersLeave, WireTypeOK, ConnType
<1>10. CASE StrangerHangsUp(n)
  BY <1>10 DEF StrangerHangsUp, WireTypeOK
<1>11. CASE Breaks(n)
  <2>1. serving' \in [Machines -> ConnType]
    BY <1>0, <1>11, ServedKept DEF Breaks, WireTypeOK, ConnType
  <2>2. open' \in [Machines -> BOOLEAN]
    BY <1>11 DEF Breaks, WireTypeOK
  <2> QED BY <1>0, <1>11, <2>1, <2>2, BacklogsKept DEF Breaks, WireTypeOK, ConnType
<1> QED
  BY <1>1, <1>2, <1>3, <1>4, <1>5, <1>6, <1>7, <1>8, <1>9,
     <1>10, <1>11
  DEF Program, World, ConnectLoop, ServeLoop, SaveIdentity, Launch, ReadIdentity,
      MakeIdentity, OpenCert, FillCert, OpenKey, FillKey, WriteFile, BeginDialing,
      DialFails, HandshakeFails, Wake, Bind, BeginLoop, HearsClosed, Leaves, Killed,
      UserPins, UserDeletes

LEMMA WireInit == Init => WireTypeOK
BY EmptySeq DEF Init, WireTypeOK, Nobody, Conn, ServedKinds

LEMMA CountersStep ==
  ASSUME launches \in Nat, mishaps \in Nat, NEW n \in Machines, Program(n) \/ World(n)
  PROVE  launches' \in Nat /\ mishaps' \in Nat
BY DEF Program, World, ConnectLoop, ServeLoop, SaveIdentity, Launch, ReadIdentity,
       MakeIdentity, OpenCert, FillCert, OpenKey, FillKey, WriteFile, BeginDialing,
       Dial, DialFails, HandshakeFails, Refuse, BeginSession, Wake, Bind, Accept,
       ServeFails, ServeRefuses, ServeSession, BeginLoop, HearsClosed, Leaves, Killed,
       Leave, UserPins, UserDeletes, StrangerComes, StrangerShakes, StrangersLeave,
       StrangerHangsUp, Breaks, Mishap

-----------------------------------------------------------------------------

Inv == LocalInv /\ WireTypeOK /\ launches \in Nat /\ mishaps \in Nat

\* ensure_cert, connect_loop and serve_loop keep the types and the identities:
\* the inductive invariant of what follows.
THEOREM InvHolds == Spec => []Inv
<1>1. Init => Inv
  BY LocalInit, WireInit DEF Init, Inv
<1>2. Inv /\ [Next]_vars => Inv'
  <2> SUFFICES ASSUME Inv, [Next]_vars PROVE Inv'
    OBVIOUS
  <2>1. CASE UNCHANGED vars
    BY <2>1
    DEF Inv, LocalInv, LocalTypeOK, BackoffTypeOK, WireTypeOK, SavingInv, KeptInv,
        IdentityKept, vars, localVars, wireVars
  <2>2. ASSUME NEW n \in Machines, Program(n) \/ World(n) PROVE Inv'
    BY <2>2, LocalStep, WireTypeStep, CountersStep DEF Inv
  <2> QED BY <2>1, <2>2 DEF Next
<1> QED BY <1>1, <1>2, PTL DEF Spec

\* Type correctness of the start-up and of the establishment of a session, the
\* steps 1, 2, 4, 8, 16, 30 of the backoff included.
THEOREM ConnectTypeOK == Spec => []TypeOK
BY InvHolds, PTL DEF Inv, LocalInv, TypeOK

\* ensure_cert: whatever is killed, and wherever, the identity a machine has
\* once used is the one it uses after every restart, no file being deleted.
THEOREM ConnectIdentityKept == Spec => []IdentityKept
BY InvHolds, PTL DEF Inv, LocalInv

-----------------------------------------------------------------------------
\* The ways to give up.

\* load, ensure_cert and the two loops, if run is not called inside a runtime:
\* a program gives up before its session only for its configuration or for a
\* pair of files that was written by halves.
THEOREM ConnectFailsForAReason ==
  ASSUME Nested = FALSE
  PROVE  Spec => []FailsForAReason
<1>1. Init => FailsForAReason
  BY DEF Init, FailsForAReason
<1>2. Inv /\ FailsForAReason /\ [Next]_vars => FailsForAReason'
  <2> SUFFICES ASSUME Inv, FailsForAReason, [Next]_vars PROVE FailsForAReason'
    OBVIOUS
  <2> USE DEF FailsForAReason, Inv, LocalInv, LocalTypeOK, localVars
  <2>1. CASE UNCHANGED vars
    BY <2>1 DEF vars
  <2>2. ASSUME NEW n \in Machines, Program(n) \/ World(n) PROVE FailsForAReason'
    <3>1. CASE Launch(n) \/ ReadIdentity(n) \/ MakeIdentity(n)
      BY <3>1 DEF Launch, ReadIdentity, MakeIdentity, Identify, Fit, Broken, Exist
    <3>2. CASE SaveIdentity(n)
      BY <3>2 DEF SaveIdentity, OpenCert, FillCert, OpenKey, FillKey, WriteFile, Identify
    <3>3. CASE ConnectLoop(n)
      BY <3>3 DEF ConnectLoop, BeginDialing, Dial, DialFails, HandshakeFails, Refuse,
                  BeginSession, Wake, Fit
    <3>4. CASE ServeLoop(n)
      BY <3>4 DEF ServeLoop, Bind, Accept, ServeFails, ServeRefuses, ServeSession, Fit,
                  ConfigType
    <3>5. CASE BeginLoop(n) \/ HearsClosed(n) \/ Leaves(n) \/ Killed(n)
      BY <3>5 DEF BeginLoop, HearsClosed, Leaves, Killed, Leave, Fit
    <3>6. CASE UserPins(n)
      <4>1. peer[n] \in Certs /\ peer[n] # Malformed
        BY <3>6, ConnectAssumption DEF UserPins, WireTypeOK, Certs, Ids
      <4>2. \A m \in Machines : Fit(cfg[m])' => Fit(cfg[m])
        BY <3>6, <4>1, ConnectAssumption DEF UserPins, Fit, Valid, ConfigType
      <4> QED BY <3>6, <4>2 DEF UserPins
    <3>7. CASE \E file \in {"cert", "key"} : UserDeletes(n, file)
      BY <3>7 DEF UserDeletes
    <3>8. CASE Strangers(n) \/ Breaks(n)
      BY <3>8 DEF Strangers, StrangerComes, StrangerShakes, StrangersLeave, StrangerHangsUp, Breaks
    <3> QED
      BY <2>2, <3>1, <3>2, <3>3, <3>4, <3>5, <3>6, <3>7, <3>8 DEF Program, World, Strangers
  <2> QED BY <2>1, <2>2 DEF Next
<1> QED BY <1>1, <1>2, InvHolds, PTL DEF Spec

-----------------------------------------------------------------------------
\* The session is mutual.

\* Which side a program is on before its session.
SideInv(n) ==
  /\ st[n] \in {"dialing", "sleeping", "shaking"} => cfg[n].role = "controller"
  /\ st[n] \in {"listening", "serving"} => cfg[n].role = "client"
  /\ serving[n].kind # "nobody" => st[n] = "serving"

\* A handshake the peer is done with: the peer believes in the session.
DoneInv(n) ==
  LET o == Other(n)
  IN serving[n].kind = "done" =>
       cfg[o].role = "controller" /\ st[o] \in InSession /\ open[o] /\ serving[n].id = id[o]

\* The certificate of a stranger.
GuestInv(n) == serving[n].kind = "guest" => serving[n].id = Stranger

\* A session as each side sees it, but for one with a stranger; the one who
\* dialed may be ahead.
DialerInv(n) ==
  LET o == Other(n)
  IN st[n] \in InSession /\ open[n] /\ cfg[n].role = "controller" =>
       /\ cfg[o].role = "client" /\ peer[n] = id[o] /\ Verifies(n, peer[n])
       /\ \/ st[o] \in InSession /\ peer[o] # Stranger
          \/ st[o] = "serving" /\ serving[o].kind = "done"

ServerInv(n) ==
  LET o == Other(n)
  IN st[n] \in InSession /\ open[n] /\ cfg[n].role = "client" /\ peer[n] # Stranger =>
       /\ cfg[o].role = "controller" /\ peer[n] = id[o] /\ Verifies(n, peer[n])
       /\ st[o] \in InSession /\ open[o]

SidesInv(n) == SideInv(n) /\ DoneInv(n) /\ GuestInv(n) /\ DialerInv(n) /\ ServerInv(n)

MutualInv == \A n \in Machines : SidesInv(n)

LEMMA NoProgramIsAStranger ==
  ASSUME Inv, NEW n \in Machines
  PROVE  id[n] # Stranger
BY ConnectAssumption DEF Inv, LocalInv, LocalTypeOK, Ids

LEMMA MutualInit == Init => MutualInv
BY DEF Init, MutualInv, SidesInv, SideInv, DoneInv, GuestInv, DialerInv, ServerInv, Nobody, Conn

\* A step of a program that is out of session and stays out, and that listens
\* to no one.
LEMMA ApartKept ==
  ASSUME Inv, MutualInv, NEW n \in Machines,
         UNCHANGED wireVars,
         st[n] \notin InSession \cup {"serving"},
         st' = [st EXCEPT ![n] = st'[n]], st'[n] \notin InSession \cup {"serving"},
         \A m \in Machines : cfg'[m].role = cfg[m].role,
         cfg'[Other(n)] = cfg[Other(n)], id'[Other(n)] = id[Other(n)],
         st'[n] \in {"dialing", "sleeping", "shaking"} => cfg[n].role = "controller",
         st'[n] = "listening" => cfg[n].role = "client"
  PROVE  MutualInv'
<1> DEFINE o == Other(n)
<1>1. o \in Machines /\ o # n /\ Other(o) = n
  BY TwoMachines
<1>2. SidesInv(n) /\ SidesInv(o)
  BY <1>1 DEF MutualInv
<1>3. st'[o] = st[o]
  BY <1>1 DEF Inv, LocalInv, LocalTypeOK
<1>4. SidesInv(n)'
  BY <1>1, <1>2, <1>3 DEF SidesInv, SideInv, DoneInv, GuestInv, DialerInv, ServerInv, wireVars
<1>5. SidesInv(o)'
  BY <1>1, <1>2, <1>3 DEF SidesInv, SideInv, DoneInv, GuestInv, DialerInv, ServerInv, Verifies, wireVars
<1> QED BY <1>4, <1>5, TwoMachines DEF MutualInv

\* Ending a program ends every session there is.
LEMMA LeaveApart ==
  ASSUME Inv, MutualInv, NEW n \in Machines, NEW s \in Stopped, Leave(n, s)
  PROVE  MutualInv'
<1> DEFINE o == Other(n)
<1>1. o \in Machines /\ o # n /\ Other(o) = n
  BY TwoMachines
<1>2. SidesInv(n) /\ SidesInv(o)
  BY <1>1 DEF MutualInv
<1>3. /\ st'[n] = s /\ st'[o] = st[o] /\ open'[n] = FALSE
      /\ open'[o] = (open[o] /\ peer[o] = Stranger)
      /\ serving'[n] = Nobody /\ serving'[o] = ServedGone(serving[o])
      /\ UNCHANGED <<cfg, id, peer>>
  BY <1>1 DEF Leave, CloseAll, Inv, LocalInv, LocalTypeOK, WireTypeOK, localVars
<1>4. /\ serving'[o].kind # "done" /\ (serving'[o].kind # "nobody" => serving[o].kind # "nobody")
      /\ serving'[o].kind = "guest" => serving'[o] = serving[o]
  BY <1>3 DEF ServedGone, Conn
<1>5. SidesInv(n)'
  BY <1>1, <1>3 DEF SidesInv, SideInv, DoneInv, GuestInv, DialerInv, ServerInv, Nobody, Conn
<1>6. SidesInv(o)'
  BY <1>1, <1>2, <1>3, <1>4, NoProgramIsAStranger
  DEF SidesInv, SideInv, DoneInv, GuestInv, DialerInv, ServerInv
<1> QED BY <1>5, <1>6, TwoMachines DEF MutualInv

LEMMA MutualStep ==
  ASSUME Inv, MutualInv, NEW n \in Machines, Program(n) \/ World(n)
  PROVE  MutualInv'
<1> DEFINE o == Other(n)
<1>1. o \in Machines /\ o # n /\ Other(o) = n
  BY TwoMachines
<1>2. SidesInv(n) /\ SidesInv(o)
  BY <1>1 DEF MutualInv
<1>3. ASSUME SidesInv(n)', SidesInv(o)' PROVE MutualInv'
  BY <1>3, TwoMachines DEF MutualInv
<1> USE DEF Inv, LocalInv, LocalTypeOK, WireTypeOK, localVars
<1>4. CASE Launch(n) \/ ReadIdentity(n) \/ MakeIdentity(n)
  BY <1>1, <1>4, ApartKept DEF Launch, ReadIdentity, MakeIdentity, Identify
<1>5. CASE SaveIdentity(n)
  BY <1>1, <1>5, ApartKept DEF SaveIdentity, OpenCert, FillCert, OpenKey, FillKey, WriteFile, Identify
<1>6. CASE BeginDialing(n)
  BY <1>1, <1>6, ApartKept DEF BeginDialing
<1>7. CASE DialFails(n) \/ HandshakeFails(n) \/ Wake(n)
  BY <1>1, <1>2, <1>7, ApartKept DEF DialFails, HandshakeFails, Wake, SidesInv, SideInv
<1>8. CASE Bind(n)
  BY <1>1, <1>8, ApartKept DEF Bind
<1>9. CASE UserPins(n) \/ (\E file \in {"cert", "key"} : UserDeletes(n, file))
  <2>1. \A m \in Machines : cfg'[m].role = cfg[m].role
    BY <1>9 DEF UserPins, UserDeletes, ConfigType
  <2> QED BY <1>1, <1>9, <2>1, ApartKept DEF UserPins, UserDeletes
<1>10. CASE HearsClosed(n) \/ Leaves(n) \/ Killed(n)
  BY <1>10, LeaveApart DEF HearsClosed, Leaves, Killed
<1> USE DEF SidesInv, SideInv, DoneInv, GuestInv, DialerInv, ServerInv
<1>11. CASE BeginLoop(n)
  <2>1. CASE Leave(n, "failed")
    BY <2>1, LeaveApart
  <2>2. CASE ~Leave(n, "failed")
    <3>1. /\ st[n] = "session" /\ st'[n] = "running" /\ st'[o] = st[o]
          /\ UNCHANGED <<cfg, id, serving, open, peer>>
      BY <1>1, <1>11, <2>2 DEF BeginLoop, wireVars
    <3>2. SidesInv(n)'
      BY <1>1, <1>2, <3>1 DEF Verifies
    <3>3. SidesInv(o)'
      BY <1>1, <1>2, <3>1 DEF Verifies
    <3> QED BY <1>3, <3>2, <3>3
  <2> QED BY <2>1, <2>2
<1>12. CASE Dial(n)
  <2>1. /\ st[n] = "dialing" /\ st'[n] = "shaking" /\ st'[o] = st[o]
        /\ UNCHANGED <<cfg, id, serving, open, peer>>
    BY <1>1, <1>12 DEF Dial
  <2>2. SidesInv(n)'
    BY <1>1, <1>2, <2>1 DEF Verifies
  <2>3. SidesInv(o)'
    BY <1>1, <1>2, <2>1 DEF Verifies
  <2> QED BY <1>3, <2>2, <2>3
<1>13. CASE Refuse(n)
  <2>1. /\ st[n] = "shaking" /\ st'[n] = "sleeping" /\ st'[o] = st[o] /\ st[o] = "serving"
        /\ serving'[n] = serving[n] /\ serving'[o].kind \in {"gone", "doneGone"}
        /\ UNCHANGED <<cfg, id, open, peer>>
    BY <1>1, <1>2, <1>13 DEF Refuse, Conn
  <2>2. SidesInv(n)'
    BY <1>1, <1>2, <2>1
  <2>3. SidesInv(o)'
    BY <1>1, <1>2, <2>1
  <2> QED BY <1>3, <2>2, <2>3
<1>14. CASE BeginSession(n)
  <2>1. /\ st[n] = "shaking" /\ st'[n] = "session" /\ st'[o] = st[o] /\ st[o] = "serving"
        /\ serving'[n] = serving[n] /\ serving'[o] = Conn("done", id[n])
        /\ open'[n] = TRUE /\ open'[o] = open[o] /\ peer'[n] = id[o] /\ peer'[o] = peer[o]
        /\ Verifies(n, id[o]) /\ UNCHANGED <<cfg, id>>
    BY <1>1, <1>2, <1>14 DEF BeginSession
  <2>2. SidesInv(n)'
    BY <1>1, <1>2, <2>1 DEF Verifies, Conn
  <2>3. SidesInv(o)'
    BY <1>1, <1>2, <2>1 DEF Conn
  <2> QED BY <1>3, <2>2, <2>3
<1>15. CASE Accept(n)
  <2>1. /\ st[n] = "listening" /\ st'[n] = "serving" /\ st'[o] = st[o]
        /\ serving'[o] = serving[o] /\ serving'[n].kind \in Kinds
        /\ UNCHANGED <<cfg, id, open, peer>>
    BY <1>1, <1>15, HeadTailProperties DEF Accept, Conn
  <2>2. SidesInv(n)'
    BY <1>1, <1>2, <2>1 DEF Kinds
  <2>3. SidesInv(o)'
    BY <1>1, <1>2, <2>1 DEF Verifies
  <2> QED BY <1>3, <2>2, <2>3
<1>16. CASE ServeFails(n)
  <2>1. /\ st[n] = "serving" /\ st'[n] = "listening" /\ st'[o] = st[o]
        /\ serving[n].kind = "gone" /\ serving'[n] = Nobody /\ serving'[o] = serving[o]
        /\ UNCHANGED <<cfg, id, open, peer>>
    BY <1>1, <1>16 DEF ServeFails
  <2>2. SidesInv(n)'
    BY <1>1, <1>2, <2>1 DEF Nobody, Conn
  <2>3. SidesInv(o)'
    BY <1>1, <1>2, <2>1
  <2> QED BY <1>3, <2>2, <2>3
<1>17. CASE ServeRefuses(n)
  <2>1. /\ st[n] = "serving" /\ st'[n] = "listening" /\ st'[o] = st[o]
        /\ serving[n].kind \in Shown
        /\ serving'[n] = Nobody /\ serving'[o] = serving[o]
        /\ open'[n] = open[n]
        /\ open'[o] = (IF serving[n].kind = "done" THEN FALSE ELSE open[o])
        /\ UNCHANGED <<cfg, id, peer>>
    BY <1>1, <1>17 DEF ServeRefuses
  <2>2. SidesInv(n)'
    BY <1>1, <1>2, <2>1 DEF Nobody, Conn
  <2>3. SidesInv(o)'
    BY <1>1, <1>2, <2>1 DEF Verifies
  <2> QED BY <1>3, <2>2, <2>3
<1>18. CASE ServeSession(n)
  <2>1. /\ st[n] = "serving" /\ st'[n] = "session" /\ st'[o] = st[o]
        /\ serving[n].kind \in Shown /\ Verifies(n, serving[n].id)
        /\ serving'[n] = Nobody /\ serving'[o] = serving[o]
        /\ peer'[n] = serving[n].id /\ peer'[o] = peer[o]
        /\ UNCHANGED <<cfg, id>>
    BY <1>1, <1>18 DEF ServeSession
  <2>2. open'[n] = (serving[n].kind # "doneGone") /\ open'[o] = open[o]
    BY <1>1, <1>18 DEF ServeSession
  <2>3. CASE serving[n].kind = "done"
    <3>1. open'[n] = TRUE /\ peer'[n] = id[o] /\ id[o] # Stranger
      BY <1>1, <1>2, <2>1, <2>2, <2>3, NoProgramIsAStranger
    <3>2. SidesInv(n)'
      BY <1>1, <1>2, <2>1, <2>2, <2>3, <3>1 DEF Nobody, Conn, Verifies
    <3>3. SidesInv(o)'
      BY <1>1, <1>2, <2>1, <2>2, <2>3, <3>1 DEF Nobody, Conn, Verifies
    <3> QED BY <1>3, <3>2, <3>3
  <2>4. CASE serving[n].kind = "doneGone"
    <3>1. open'[n] = FALSE
      BY <2>2, <2>4
    <3>2. SidesInv(n)'
      BY <1>1, <1>2, <2>1, <2>2, <2>4, <3>1 DEF Nobody, Conn, Verifies
    <3>3. SidesInv(o)'
      BY <1>1, <1>2, <2>1, <2>2, <2>4, <3>1 DEF Nobody, Conn, Verifies
    <3> QED BY <1>3, <3>2, <3>3
  <2>5. CASE serving[n].kind = "guest"
    <3>1. serving[n].id = Stranger /\ cfg[n].role = "client"
      BY <1>1, <1>2, <2>1, <2>5
    <3>2. SidesInv(n)'
      BY <1>1, <1>2, <2>1, <2>2, <2>5, <3>1 DEF Nobody, Conn, Verifies
    <3>3. SidesInv(o)'
      BY <1>1, <1>2, <2>1, <2>2, <2>5 DEF Nobody, Conn, Verifies
    <3> QED BY <1>3, <3>2, <3>3
  <2> QED BY <2>1, <2>3, <2>4, <2>5 DEF Shown
<1>19. CASE StrangerComes(n) \/ StrangerShakes(n) \/ StrangersLeave(n)
  <2>1. /\ UNCHANGED <<st, cfg, id, open, peer>> /\ serving'[o] = serving[o]
        /\ \/ serving'[n] = serving[n]
           \/ /\ serving[n].kind \in {"stranger", "guest"}
              /\ serving'[n] \in {Conn("gone", NoId), Conn("guest", Stranger),
                                   Conn("doneGone", Stranger)}
    BY <1>1, <1>19 DEF StrangerComes, StrangerShakes, StrangersLeave, GuestGone, Conn
  <2>2. SidesInv(n)'
    BY <1>1, <1>2, <2>1 DEF Verifies, Conn
  <2>3. SidesInv(o)'
    BY <1>1, <1>2, <2>1 DEF Verifies, Conn
  <2> QED BY <1>3, <2>2, <2>3
<1>20. CASE StrangerHangsUp(n)
  <2>1. /\ UNCHANGED <<st, cfg, id, serving, peer>>
        /\ st[n] \in InSession /\ open[n] /\ peer[n] = Stranger
        /\ open'[n] = FALSE /\ open'[o] = open[o]
    BY <1>1, <1>20 DEF StrangerHangsUp
  <2>2. cfg[n].role # "controller"
    BY <1>1, <1>2, <2>1, NoProgramIsAStranger
  <2>3. SidesInv(n)'
    BY <1>1, <1>2, <2>1, <2>2 DEF Verifies
  <2>4. SidesInv(o)'
    BY <1>1, <1>2, <2>1, <2>2 DEF Verifies
  <2> QED BY <1>3, <2>3, <2>4
<1>21. CASE Breaks(n)
  <2>1. /\ UNCHANGED <<st, cfg, id, peer>> /\ serving'[n] = serving[n]
        /\ st[n] \in InSession \cup {"shaking"} /\ serving'[o] = ServedGone(serving[o])
        /\ \A m \in Machines : open'[m] = (open[m] /\ peer[m] = Stranger)
    BY <1>1, <1>21 DEF Breaks
  <2>2. /\ serving'[o].kind # "done" /\ (serving'[o].kind # "nobody" => serving[o].kind # "nobody")
        /\ serving'[o].kind = "guest" => serving'[o] = serving[o]
    BY <2>1 DEF ServedGone, Conn
  <2>3. id[n] # Stranger /\ id[o] # Stranger
    BY <1>1, NoProgramIsAStranger
  <2>4. SidesInv(n)'
    BY <1>1, <1>2, <2>1, <2>2, <2>3
  <2>5. SidesInv(o)'
    BY <1>1, <1>2, <2>1, <2>2, <2>3
  <2> QED BY <1>3, <2>4, <2>5
<1> QED
  BY <1>4, <1>5, <1>6, <1>7, <1>8, <1>9, <1>10, <1>11, <1>12, <1>13, <1>14, <1>15,
     <1>16, <1>17, <1>18, <1>19, <1>20, <1>21
  DEF Program, World, ConnectLoop, ServeLoop

\* verify_peer_fp, on both sides: two programs in a session with each other run
\* under the identities they have shown, which are the ones pinned.
THEOREM ConnectSessionIsMutual == Spec => []SessionIsMutual
<1>1. Init => MutualInv
  BY MutualInit
<1>2. Inv /\ MutualInv /\ [Next]_vars => MutualInv'
  <2>1. ASSUME MutualInv, UNCHANGED vars PROVE MutualInv'
    BY <2>1 DEF MutualInv, SidesInv, SideInv, DoneInv, GuestInv, DialerInv, ServerInv, Verifies,
                vars, localVars, wireVars
  <2> QED BY <2>1, MutualStep DEF Next
<1>3. Inv /\ MutualInv => SessionIsMutual
  <2> SUFFICES ASSUME Inv, MutualInv, \A n \in Machines : st[n] \in InSession /\ open[n],
                      NEW m \in Machines, peer[m] # Stranger
               PROVE  /\ cfg[A].role # cfg[B].role
                      /\ \A n \in Machines : peer[n] = id[Other(n)] /\ cfg[n].pin \in {NoPin, peer[n]}
    BY DEF SessionIsMutual
  <2>1. \A n \in Machines : DialerInv(n) /\ ServerInv(n) /\ cfg[n].role \in {"controller", "client"}
    BY DEF MutualInv, SidesInv, Inv, LocalInv, LocalTypeOK, ConfigType
  <2>2. Other(m) \in Machines /\ Other(Other(m)) = m
    BY TwoMachines
  <2>3. peer[Other(m)] # Stranger
    BY <2>1, <2>2, NoProgramIsAStranger DEF DialerInv, ServerInv
  <2>4. \A n \in Machines : peer[n] # Stranger
    BY <2>3, TwoMachines
  <2>5. \A n \in Machines : /\ cfg[n].role # cfg[Other(n)].role
                            /\ peer[n] = id[Other(n)] /\ Verifies(n, peer[n])
    BY <2>1, <2>4 DEF DialerInv, ServerInv
  <2> QED BY <2>5, ConnectAssumption DEF Verifies, Other
<1> QED BY <1>1, <1>2, <1>3, InvHolds, PTL DEF Spec
=============================================================================
