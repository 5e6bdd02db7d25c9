--------------------------- MODULE ClipboardSync ---------------------------
(***************************************************************************)
(* The exchange of clipboards, with the history its properties speak of:   *)
(* what the users did, what was sent and what failed.  The history only    *)
(* watches (and bounds) the exchange.                                      *)
(***************************************************************************)
EXTENDS ClipboardExchange, Integers

CONSTANTS
  CopyMax,   \* bound: copies made by the users
  FailMax    \* bound: failures of source.set, on each machine

ASSUME SyncAssumption == CopyMax \in Nat /\ FailMax \in Nat

VARIABLES
  copies,     \* copies made so far
  unsent,     \* changes made by the user of n, minus contents sent by n
  failures,   \* failures of source.set on n
  orderly,    \* did the users copy one after the other? (see Copies)
  latest      \* the last thing copied on either machine

vars == <<svc, channel, copies, unsent, failures, orderly, latest>>

-----------------------------------------------------------------------------

InitSync ==
  /\ Init
  /\ copies = 0
  /\ unsent = [n \in Nodes |-> IF svc[n].clip = NoText THEN 0 ELSE 1]
  /\ failures = [n \in Nodes |-> 0]
  /\ latest \in {svc[n].clip : n \in Nodes}
  /\ latest = NoText => \A n \in Nodes : svc[n].clip = NoText
  /\ orderly = ( /\ \A n \in Nodes : svc[n].clip \in {latest, NoText}
                 /\ latest # NoText => UnderCap(latest) )

Sends(n) ==
  /\ TickSend(n)
  /\ unsent' = [unsent EXCEPT ![n] = @ - 1]
  /\ UNCHANGED <<copies, failures, orderly, latest>>

\* source.set failed if the clipboard was to change and did not.
Receives(n) ==
  /\ Ingest(n)
  /\ IF Accepts(svc[n], Head(channel[n])) /\ svc'[n].clip # Head(channel[n])
     THEN /\ failures[n] < FailMax
          /\ failures' = [failures EXCEPT ![n] = @ + 1]
          /\ orderly' = FALSE
     ELSE UNCHANGED <<failures, orderly>>
  /\ UNCHANGED <<copies, unsent, latest>>

\* The copies are orderly as long as each one waits for the clipboards to be
\* in step and is a text within the cap.
Copies(n, c) ==
  /\ UserCopies(n, c)
  /\ copies < CopyMax /\ copies' = copies + 1
  /\ unsent' = [unsent EXCEPT ![n] = @ + 1]
  /\ orderly' = (orderly /\ Quiet /\ c \in {d \in Contents : UnderCap(d)})
  /\ latest' = c
  /\ UNCHANGED failures

NextSync ==
  \E n \in Nodes :
    \/ Sends(n)
    \/ Receives(n)
    \/ \E c \in Contents \cup {NoText} : Copies(n, c)

SyncSpec == InitSync /\ [][NextSync]_vars

\* The interval ticks for ever, and a loop takes every event it receives.
Fairness == \A n \in Nodes : WF_vars(Sends(n)) /\ WF_vars(Receives(n))

FairSyncSpec == SyncSpec /\ Fairness

-----------------------------------------------------------------------------

TypeOK ==
  /\ svc \in [Nodes -> Services]
  /\ channel \in [Nodes -> Seq(Contents)]
  /\ copies \in 0 .. CopyMax
  /\ unsent \in [Nodes -> Int]
  /\ failures \in [Nodes -> 0 .. FailMax]
  /\ orderly \in BOOLEAN
  /\ latest \in Contents \cup {NoText}

\* ClipboardGuard, docs/ACCEPTANCE.md:36, no loop: a machine never sends more
\* contents than its user made changes, and what it has just applied it does
\* not send back; only a failed source.set can cost one more message.
NoEcho ==
  \A n \in Nodes : (IF Offers(svc[n]) THEN 1 ELSE 0) <= unsent[n] + failures[n]

\* Only what is within the cap is ever on its way, so no frame is refused.
OnlyUnderCap ==
  \A n \in Nodes : \A i \in 1 .. Len(channel[n]) : UnderCap(channel[n][i])

\* docs/ACCEPTANCE.md:33-35, copy on one machine and paste on the other: when
\* the users copy one after the other, the exchange ends with the last copied
\* text on both.
InStep ==
  ClipEnabled /\ orderly /\ Quiet => \A n \in Nodes : svc[n].clip = latest

\* tick_send and ingest: a text copied in an orderly way does reach the other
\* machine, unless something else is copied first or source.set fails.
Delivers ==
  \A c \in Contents :
    ClipEnabled /\ orderly /\ latest = c
      ~> (\A n \in Nodes : svc[n].clip = c) \/ latest # c \/ ~orderly

=============================================================================
