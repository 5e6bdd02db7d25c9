------------------------------ MODULE Connect -------------------------------
(***************************************************************************)
(* From the start of the two programs to a session between them, and back  *)
(* to the shell: src/main.rs, run and run_async of src/lib.rs,             *)
(* Config::validate, ensure_cert, connect_loop, serve_loop and             *)
(* verify_peer_fp.  What the two loops do with the session is Traveller's. *)
(*                                                                         *)
(* The handshake is that of TLS 1.3: the machine that dials is done, has   *)
(* verified the fingerprint and has begun its session before the machine   *)
(* that listens sees its certificate.                                      *)
(*                                                                         *)
(* Strangers may connect to the machine that listens; they say nothing, or *)
(* shake hands with a certificate of their own.  On the address that is    *)
(* dialed nobody but the other machine listens.                            *)
(***************************************************************************)
EXTENDS Integers, Sequences

CONSTANTS
  A, B,          \* the two machines
  Configs,       \* the configurations they may be started with
  Files,         \* the certificate and key files they may begin with
  Nested,        \* is run called inside a runtime, as main does?
  IdMax,         \* bound: identities (key pairs) ever made
  OldIds,        \* those made before
  LaunchMax,     \* bound: launches of the two programs
  MishapMax,     \* bound: strangers that connect and connections that break
  Stranger,      \* the identity of any stranger
  NoPin,         \* peer_fingerprint is not given
  Malformed,     \* peer_fingerprint is not sha256:<64 hex>
  NoId,          \* no identity
  Missing, Torn  \* a file that does not exist; one that is not written whole

Machines == {A, B}
Other(n) == IF n = A THEN B ELSE A

Ids == 1 .. IdMax

\* Whose certificate a peer may show.
Certs == Ids \cup {Stranger}

\* screens: is every dimension positive?  combo: is emergency_stop understood?
ConfigType == [role : {"controller", "client"}, listen : BOOLEAN,
               peerAddr : BOOLEAN, screens : BOOLEAN, combo : BOOLEAN,
               pin : Certs \cup {NoPin, Malformed}]

FilesType == [cert : Ids \cup {Missing, Torn}, key : Ids \cup {Missing, Torn}]

ASSUME ConnectAssumption ==
  /\ A # B
  /\ Configs \subseteq [Machines -> ConfigType]
  /\ Files \subseteq [Machines -> FilesType]
  /\ Nested \in BOOLEAN
  /\ OldIds \in 0 .. IdMax
  /\ {IdMax, LaunchMax, MishapMax} \subseteq Nat
  /\ {Stranger, NoPin, Malformed, NoId, Missing, Torn} \cap Int = {}
  /\ Stranger \notin {NoPin, Malformed, NoId}
  /\ NoPin # Malformed /\ Missing # Torn

VARIABLES
  cfg,      \* the configuration of each machine
  files,    \* its certificate and key files
  st,       \* where its program is
  id,       \* the identity the program has loaded
  backoff,  \* of connect_loop, in seconds
  backlog,  \* connections the kernel has accepted and serve_loop has not
  serving,  \* the connection serve_loop is shaking hands on
  open,     \* does the connection of its session stand?
  peer,     \* the identity its peer has shown
  made, launches, mishaps,    \* counters of the bounds
  kept      \* auxiliary: the identity used first since the user last deleted a file

localVars == <<cfg, files, id, made, kept>>
wireVars  == <<backlog, serving, open, peer>>
vars == <<localVars, wireVars, st, backoff, launches, mishaps>>

-----------------------------------------------------------------------------
\* Where a program is.

\* Out of the program: not started or killed, left by the user or for want of
\* a device, returned an error, panicked, out of session.
Stopped == {"off", "left", "failed", "panicked", "ended"}

\* Between the two steps of the two fs::write of ensure_cert.
Saving == {"saveCert", "certOpen", "saveKey", "keyOpen"}

InSession == {"session", "running"}

States == Stopped \cup Saving \cup InSession \cup
          {"started", "identified", "dialing", "sleeping", "shaking",
           "listening", "serving"}

Listens(n) == st[n] \in {"listening", "serving"}

GoTo(n, s) == st' = [st EXCEPT ![n] = s]

-----------------------------------------------------------------------------
\* main, run and Config::load

Valid(c) == c.listen # c.peerAddr /\ c.screens /\ c.pin # Malformed

\* Starting the runtime of run in the runtime of main panics.
Launch(n) ==
  /\ st[n] \in Stopped /\ launches < LaunchMax
  /\ launches' = launches + 1
  /\ GoTo(n, IF ~Valid(cfg[n]) THEN "failed" ELSE IF Nested THEN "panicked" ELSE "started")
  /\ id' = [id EXCEPT ![n] = NoId]
  /\ UNCHANGED <<cfg, files, made, kept, wireVars, backoff, mishaps>>

-----------------------------------------------------------------------------
\* ensure_cert, and the TLS configuration made of what it returns

ExistNever(f) == FALSE    \* mutant: a new pair at every start
ExistOne(f) == f.cert # Missing    \* mutant: the key is not looked for
Exist(f) == f.cert # Missing /\ f.key # Missing

\* rustls refuses what is not a certificate and the key of that certificate.
Usable(f) == f.cert \in Ids /\ f.key = f.cert

Identify(n, i) ==
  /\ id' = [id EXCEPT ![n] = i]
  /\ kept' = [kept EXCEPT ![n] = IF @ = NoId THEN i ELSE @]
  /\ GoTo(n, "identified")

ReadIdentity(n) ==
  /\ st[n] = "started" /\ Exist(files[n])
  /\ IF Usable(files[n]) THEN Identify(n, files[n].cert)
     ELSE GoTo(n, "failed") /\ UNCHANGED <<id, kept>>
  /\ UNCHANGED <<cfg, files, made, wireVars, backoff, launches, mishaps>>

MakeIdentity(n) ==
  /\ st[n] = "started" /\ ~Exist(files[n])
  /\ made < IdMax /\ made' = made + 1
  /\ id' = [id EXCEPT ![n] = made']
  /\ GoTo(n, "saveCert")
  /\ UNCHANGED <<cfg, files, kept, wireVars, backoff, launches, mishaps>>

\* fs::write truncates the file, then writes it.
WriteFile(n, from, file, content, to) ==
  /\ st[n] = from
  /\ files' = [files EXCEPT ![n] = [@ EXCEPT ![file] = content]]
  /\ GoTo(n, to)
  /\ UNCHANGED <<cfg, id, made, kept, wireVars, backoff, launches, mishaps>>

OpenCert(n) == WriteFile(n, "saveCert", "cert", Torn, "certOpen")
FillCert(n) == WriteFile(n, "certOpen", "cert", id[n], "saveKey")
OpenKey(n) == WriteFile(n, "saveKey", "key", Torn, "keyOpen")
FillKey(n) ==
  /\ st[n] = "keyOpen"
  /\ files' = [files EXCEPT ![n].key = id[n]]
  /\ Identify(n, id[n])
  /\ UNCHANGED <<cfg, made, wireVars, backoff, launches, mishaps>>

SaveIdentity(n) == OpenCert(n) \/ FillCert(n) \/ OpenKey(n) \/ FillKey(n)

-----------------------------------------------------------------------------
\* Connections.  In a backlog they are "peer", "stranger" (of someone who has
\* sent nothing) or "gone" (closed by who dialed it).  The one that is served
\* is also "done", or "guest" if it is a stranger's, once who dialed it is done
\* with the handshake and has shown the identity id; then "doneGone" if closed.

Conn(kind, i) == [kind |-> kind, id |-> i]
Nobody == Conn("nobody", NoId)

Kinds == {"peer", "stranger", "gone"}
Shown == {"done", "guest", "doneGone"}
ServedKinds == Kinds \cup Shown \cup {"nobody"}

\* What becomes of the connections of a machine when what it dialed closes.
DialedGone(q) == [i \in DOMAIN q |-> IF q[i] = "peer" THEN "gone" ELSE q[i]]
ServedGone(c) ==
  CASE c.kind = "peer" -> Conn("gone", c.id)
    [] c.kind = "done" -> Conn("doneGone", c.id)
    [] OTHER -> c

\* The program of n closes every connection it has: those it listens to, the
\* one it dialed, the one of its session.  The other one may be in a session
\* with a stranger.
CloseAll(n) ==
  LET o == Other(n)
  IN /\ backlog' = [backlog EXCEPT ![n] = <<>>, ![o] = DialedGone(@)]
     /\ serving' = [serving EXCEPT ![n] = Nobody, ![o] = ServedGone(@)]
     /\ open' = [m \in Machines |-> m # n /\ open[m] /\ peer[m] = Stranger]

\* Does the connection n has dialed still stand, in the hands of no one or of
\* a handshake?
Reaches(n) ==
  \/ \E i \in DOMAIN backlog[Other(n)] : backlog[Other(n)][i] = "peer"
  \/ serving[Other(n)].kind = "peer"

\* verify_peer_fp
VerifiesAny(n, i) == TRUE    \* mutant: whoever has a certificate
Verifies(n, i) == cfg[n].pin \in {NoPin, i}

-----------------------------------------------------------------------------
\* connect_loop

MinOf(a, b) == IF a < b THEN a ELSE b
DoubledUncapped(s) == s * 2    \* mutant: no cap
Doubled(s) == MinOf(s * 2, 30)

BeginDialing(n) ==
  /\ st[n] = "identified" /\ cfg[n].role = "controller"
  /\ IF cfg[n].peerAddr
     THEN GoTo(n, "dialing") /\ backoff' = [backoff EXCEPT ![n] = 1]
     ELSE GoTo(n, "failed") /\ UNCHANGED backoff
  /\ UNCHANGED <<localVars, wireVars, launches, mishaps>>

Dial(n) ==
  /\ st[n] = "dialing" /\ Listens(Other(n))
  /\ backlog' = [backlog EXCEPT ![Other(n)] = Append(@, "peer")]
  /\ GoTo(n, "shaking")
  /\ UNCHANGED <<localVars, serving, open, peer, backoff, launches, mishaps>>

DialFails(n) ==
  /\ st[n] = "dialing" /\ ~Listens(Other(n))
  /\ GoTo(n, "sleeping")
  /\ UNCHANGED <<localVars, wireVars, backoff, launches, mishaps>>

HandshakeFails(n) ==
  /\ st[n] = "shaking" /\ ~Reaches(n)
  /\ GoTo(n, "sleeping")
  /\ UNCHANGED <<localVars, wireVars, backoff, launches, mishaps>>

\* What was sent before the stream is dropped may arrive or not.
Refuse(n) ==
  LET o == Other(n)
  IN /\ st[n] = "shaking" /\ serving[o].kind = "peer"
     /\ ~Verifies(n, id[o])
     /\ \E k \in {"gone", "doneGone"} :
          serving' = [serving EXCEPT ![o] = Conn(k, id[n])]
     /\ GoTo(n, "sleeping")
     /\ UNCHANGED <<localVars, backlog, open, peer, backoff, launches, mishaps>>

\* connect_loop returns: nothing will dial again.
BeginSession(n) ==
  LET o == Other(n)
  IN /\ st[n] = "shaking" /\ serving[o].kind = "peer"
     /\ Verifies(n, id[o])
     /\ serving' = [serving EXCEPT ![o] = Conn("done", id[n])]
     /\ open' = [open EXCEPT ![n] = TRUE]
     /\ peer' = [peer EXCEPT ![n] = id[o]]
     /\ GoTo(n, "session")
     /\ UNCHANGED <<localVars, backlog, backoff, launches, mishaps>>

Wake(n) ==
  /\ st[n] = "sleeping"
  /\ backoff' = [backoff EXCEPT ![n] = Doubled(@)]
  /\ GoTo(n, "dialing")
  /\ UNCHANGED <<localVars, wireVars, launches, mishaps>>

ConnectLoop(n) ==
  \/ BeginDialing(n) \/ Dial(n) \/ DialFails(n) \/ HandshakeFails(n) \/ Refuse(n)
  \/ BeginSession(n) \/ Wake(n)

-----------------------------------------------------------------------------
\* serve_loop

\* cfg.listen.as_deref().unwrap()
Bind(n) ==
  /\ st[n] = "identified" /\ cfg[n].role = "client"
  /\ GoTo(n, IF cfg[n].listen THEN "listening" ELSE "panicked")
  /\ UNCHANGED <<localVars, wireVars, backoff, launches, mishaps>>

Accept(n) ==
  /\ st[n] = "listening" /\ backlog[n] # <<>>
  /\ serving' = [serving EXCEPT ![n] = Conn(Head(backlog[n]), NoId)]
  /\ backlog' = [backlog EXCEPT ![n] = Tail(@)]
  /\ GoTo(n, "serving")
  /\ UNCHANGED <<localVars, open, peer, backoff, launches, mishaps>>

\* mutant: `?` for `continue`
ServeFailsReturns(n) ==
  /\ st[n] = "serving" /\ serving[n].kind = "gone"
  /\ GoTo(n, "failed") /\ CloseAll(n)
  /\ UNCHANGED <<localVars, peer, backoff, launches, mishaps>>

ServeFails(n) ==
  /\ st[n] = "serving" /\ serving[n].kind = "gone"
  /\ serving' = [serving EXCEPT ![n] = Nobody]
  /\ GoTo(n, "listening")
  /\ UNCHANGED <<localVars, backlog, open, peer, backoff, launches, mishaps>>

\* mutant: the refused stream is not dropped
ServeRefusesKeeps(n) ==
  /\ st[n] = "serving" /\ serving[n].kind \in Shown
  /\ ~Verifies(n, serving[n].id)
  /\ serving' = [serving EXCEPT ![n] = Nobody]
  /\ GoTo(n, "listening")
  /\ UNCHANGED <<localVars, backlog, open, peer, backoff, launches, mishaps>>

\* The peer learns of it by the end of a session it has begun.
ServeRefuses(n) ==
  /\ st[n] = "serving" /\ serving[n].kind \in Shown
  /\ ~Verifies(n, serving[n].id)
  /\ serving' = [serving EXCEPT ![n] = Nobody]
  /\ open' = IF serving[n].kind = "done" THEN [open EXCEPT ![Other(n)] = FALSE] ELSE open
  /\ GoTo(n, "listening")
  /\ UNCHANGED <<localVars, backlog, peer, backoff, launches, mishaps>>

\* serve_loop returns and drops the listener, with the connections it holds.
ServeSession(n) ==
  /\ st[n] = "serving" /\ serving[n].kind \in Shown
  /\ Verifies(n, serving[n].id)
  /\ open' = [open EXCEPT ![n] = serving[n].kind # "doneGone"]
  /\ peer' = [peer EXCEPT ![n] = serving[n].id]
  /\ serving' = [serving EXCEPT ![n] = Nobody]
  /\ backlog' = [backlog EXCEPT ![n] = <<>>]
  /\ GoTo(n, "session")
  /\ UNCHANGED <<localVars, backoff, launches, mishaps>>

ServeLoop(n) ==
  Bind(n) \/ Accept(n) \/ ServeFails(n) \/ ServeRefuses(n) \/ ServeSession(n)

-----------------------------------------------------------------------------
\* The session, as far as the two programs begin it and end it.

\* The process ends, and its sockets with it.
Leave(n, s) ==
  /\ GoTo(n, s)
  /\ CloseAll(n)
  /\ UNCHANGED <<localVars, peer, backoff, launches, mishaps>>

\* run_controller finds out here that it cannot read emergency_stop.
BeginLoop(n) ==
  /\ st[n] = "session"
  /\ IF cfg[n].role = "controller" /\ ~cfg[n].combo THEN Leave(n, "failed")
     ELSE GoTo(n, "running") /\ UNCHANGED <<localVars, wireVars, backoff, launches, mishaps>>

HearsClosed(n) == st[n] = "running" /\ ~open[n] /\ Leave(n, "ended")

\* The capture or the injector cannot be had; the emergency combination.
Leaves(n) == st[n] \in InSession /\ Leave(n, "left")

-----------------------------------------------------------------------------
\* The user, the OS and the network.

Killed(n) == st[n] \notin Stopped /\ Leave(n, "off")

\* What the user does matters to a launch to come.
LaunchToCome == launches < LaunchMax

\* README, « Premier lancement »: the fingerprint that was shown is copied.
UserPins(n) ==
  /\ LaunchToCome /\ st[n] \in Stopped /\ peer[n] # NoId /\ cfg[n].pin = NoPin
  /\ cfg' = [cfg EXCEPT ![n].pin = peer[n]]
  /\ UNCHANGED <<files, st, id, made, kept, wireVars, backoff, launches, mishaps>>

UserDeletes(n, file) ==
  /\ LaunchToCome /\ st[n] \in Stopped /\ files[n][file] # Missing
  /\ files' = [files EXCEPT ![n] = [@ EXCEPT ![file] = Missing]]
  /\ kept' = [kept EXCEPT ![n] = NoId]
  /\ GoTo(n, "off")
  /\ UNCHANGED <<cfg, id, made, wireVars, backoff, launches, mishaps>>

Mishap == mishaps < MishapMax /\ mishaps' = mishaps + 1

StrangerComes(n) ==
  /\ Mishap /\ Listens(n)
  /\ backlog' = [backlog EXCEPT ![n] = Append(@, "stranger")]
  /\ UNCHANGED <<localVars, st, serving, open, peer, backoff, launches>>

\* It has a certificate, as has anyone who makes one.
StrangerShakes(n) ==
  /\ serving[n].kind = "stranger"
  /\ serving' = [serving EXCEPT ![n] = Conn("guest", Stranger)]
  /\ UNCHANGED <<localVars, st, backlog, open, peer, backoff, launches, mishaps>>

StrangerGone(q) == [i \in DOMAIN q |-> IF q[i] = "stranger" THEN "gone" ELSE q[i]]
GuestGone(c) ==
  CASE c.kind = "stranger" -> Conn("gone", NoId)
    [] c.kind = "guest" -> Conn("doneGone", Stranger)
    [] OTHER -> c

StrangersLeave(n) ==
  /\ \/ serving[n].kind \in {"stranger", "guest"}
     \/ \E i \in DOMAIN backlog[n] : backlog[n][i] = "stranger"
  /\ backlog' = [backlog EXCEPT ![n] = StrangerGone(@)]
  /\ serving' = [serving EXCEPT ![n] = GuestGone(@)]
  /\ UNCHANGED <<localVars, st, open, peer, backoff, launches, mishaps>>

\* A stranger whose session serve_loop has returned stays as long as it likes.
StrangerHangsUp(n) ==
  /\ st[n] \in InSession /\ open[n] /\ peer[n] = Stranger
  /\ open' = [open EXCEPT ![n] = FALSE]
  /\ UNCHANGED <<localVars, st, backlog, serving, peer, backoff, launches, mishaps>>

\* The connection between the two machines breaks, as n sees it: before the
\* one who dialed it is done, or under the session of one or of both.
Breaks(n) ==
  /\ Mishap
  /\ \/ st[n] = "shaking" /\ Reaches(n)
     \/ st[n] \in InSession /\ open[n] /\ peer[n] # Stranger
  /\ backlog' = [backlog EXCEPT ![Other(n)] = DialedGone(@)]
  /\ serving' = [serving EXCEPT ![Other(n)] = ServedGone(@)]
  /\ open' = [m \in Machines |-> open[m] /\ peer[m] = Stranger]
  /\ UNCHANGED <<localVars, st, peer, backoff, launches>>

-----------------------------------------------------------------------------

Init ==
  /\ cfg \in Configs /\ files \in Files
  /\ st = [n \in Machines |-> "off"]
  /\ id = [n \in Machines |-> NoId]
  /\ backoff = [n \in Machines |-> 1]
  /\ backlog = [n \in Machines |-> <<>>]
  /\ serving = [n \in Machines |-> Nobody]
  /\ open = [n \in Machines |-> FALSE]
  /\ peer = [n \in Machines |-> NoId]
  /\ made = OldIds
  /\ launches = 0 /\ mishaps = 0
  /\ kept = [n \in Machines |-> IF Usable(files[n]) THEN files[n].cert ELSE NoId]

Program(n) ==
  \/ ReadIdentity(n) \/ MakeIdentity(n) \/ SaveIdentity(n)
  \/ ConnectLoop(n) \/ ServeLoop(n) \/ BeginLoop(n) \/ HearsClosed(n)

World(n) ==
  \/ Launch(n) \/ Leaves(n) \/ Killed(n)
  \/ UserPins(n) \/ (\E file \in {"cert", "key"} : UserDeletes(n, file))
  \/ StrangerComes(n) \/ StrangerShakes(n) \/ StrangersLeave(n) \/ StrangerHangsUp(n)
  \/ Breaks(n)

Next == \E n \in Machines : Program(n) \/ World(n)

Spec == Init /\ [][Next]_vars

\* tokio runs the program; strangers do not keep serve_loop waiting for ever.
Fairness ==
  \A n \in Machines : WF_vars(Program(n)) /\ WF_vars(StrangersLeave(n))

FairSpec == Spec /\ Fairness

-----------------------------------------------------------------------------

BackoffTypeOK == backoff \in [Machines -> {1, 2, 4, 8, 16, 30}]

WireTypeOK ==
  /\ backlog \in [Machines -> Seq(Kinds)]
  /\ serving \in [Machines -> [kind : ServedKinds, id : Certs \cup {NoId}]]
  /\ open \in [Machines -> BOOLEAN]
  /\ peer \in [Machines -> Certs \cup {NoId}]

LocalTypeOK ==
  /\ cfg \in [Machines -> ConfigType] /\ files \in [Machines -> FilesType]
  /\ st \in [Machines -> States]
  /\ id \in [Machines -> Ids \cup {NoId}] /\ kept \in [Machines -> Ids \cup {NoId}]
  /\ made \in 0 .. IdMax

TypeOK ==
  /\ LocalTypeOK /\ WireTypeOK /\ BackoffTypeOK
  /\ launches \in Nat /\ mishaps \in Nat

\* A configuration that suits the role it gives.
Fit(c) ==
  /\ Valid(c)
  /\ IF c.role = "controller" THEN c.peerAddr /\ c.combo ELSE c.listen

\* A pair that was not written whole, or half of which is of another pair.
Broken(f) == f.cert # Missing /\ f.key # Missing /\ ~Usable(f)

\* load, ensure_cert and the two loops: a program gives up before its session
\* only for its configuration or for a pair of files that was written by halves.
FailsForAReason ==
  \A n \in Machines :
    st[n] \in {"failed", "panicked"} => ~Fit(cfg[n]) \/ Broken(files[n])

\* ensure_cert: the identity a machine has once used, which others may have
\* pinned, is the one it uses after any restart, the user deleting no file;
\* in particular a pair written by halves was never used.
IdentityKept ==
  \A n \in Machines :
    st[n] \notin Stopped \cup Saving \cup {"started"} => id[n] = kept[n]

\* verify_peer_fp, on both sides: two programs in a session, one of which is
\* not with a stranger, are in the same one; they show each other the
\* identities they run under, each the one that the other has pinned if it has
\* pinned one, and one of them has dialed the other.
SessionIsMutual ==
  /\ \A n \in Machines : st[n] \in InSession /\ open[n]
  /\ \E n \in Machines : peer[n] # Stranger
  =>
  /\ cfg[A].role # cfg[B].role
  /\ \A n \in Machines : peer[n] = id[Other(n)] /\ cfg[n].pin \in {NoPin, peer[n]}

\* The two programs are up, before their session or in it, and suit each
\* other.  One that is about to take a connection already closed for a
\* session does not count: it will hear Closed and end.
Matched ==
  /\ cfg[A].role # cfg[B].role
  /\ \A n \in Machines :
       /\ Fit(cfg[n])
       /\ st[n] \notin Stopped \cup Saving \cup {"started"}
       /\ Verifies(n, id[Other(n)])
       /\ serving[n].kind # "doneGone"
       /\ st[n] \in InSession => open[n]

\* connect_loop and serve_loop: two programs that suit each other meet in
\* spite of strangers in front of the queue and of connections that break,
\* unless someone stops one of them, or a session one of them had begun is
\* lost.  Only a client that has pinned a fingerprint is safe from strangers
\* with a certificate: serve_loop returns the first session it takes.
MatchedMeet ==
  Matched ~> \/ \A n \in Machines : st[n] = "running"
             \/ \E n \in Machines : st[n] \in {"off", "left", "ended"}
             \/ \E n \in Machines :
                  cfg[n].pin = NoPin /\ st[n] \in InSession /\ peer[n] = Stranger

\* connect_loop returns before the other side has verified it, and serve_loop
\* may return a connection already closed: a program that believes in a
\* session of its own does not stay there.
HalfSessionEnds ==
  \A n \in Machines :
    st[n] \in InSession ~>
      \/ st[n] \notin InSession
      \/ \A m \in Machines : st[m] \in InSession /\ open[m]
      \/ open[n] /\ peer[n] = Stranger

\* What docs/ACCEPTANCE.md says of a controller that the client refuses, and of
\* one whose network has been cut: it dials again, without being started again.
LostSessionIsDialedAgain ==
  \A n \in Machines :
    cfg[n].role = "controller" /\ Fit(cfg[n]) /\ st[n] \in InSession /\ ~open[n] ~>
      st[n] = "dialing" \/ \E m \in Machines : st[m] \in {"off", "left"}

\* What README.md says of the first launch: with a fit configuration the
\* program writes its certificate and listens, or connects.
FitConfigurationStarts ==
  \A n \in Machines : Fit(cfg[n]) => st[n] # "panicked"
=============================================================================
