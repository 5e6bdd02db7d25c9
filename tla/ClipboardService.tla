-------------------------- MODULE ClipboardService --------------------------
(***************************************************************************)
(* The clipboard service of one machine: src/clipboard.rs.                 *)
(*                                                                         *)
(* The service is a value [clip, last]: clip is the text of the OS         *)
(* clipboard (NoText when it holds none), last the digest of the guard.    *)
(* The mutex of the bridge makes every operation atomic.                   *)
(***************************************************************************)
EXTENDS Naturals

CONSTANTS
  Contents,     \* the texts a user may copy
  NoText,       \* what an empty clipboard holds
  NoDigest,     \* the guard before the first digest (None)
  Size,         \* Size[c]: the length of content c in bytes
  MaxKb,        \* max_kb of the configuration
  ClipEnabled   \* enabled of the configuration

ASSUME ClipboardAssumption ==
  /\ NoText \notin Contents
  /\ Size \in [Contents -> Nat]
  /\ MaxKb \in Nat
  /\ ClipEnabled \in BOOLEAN

\* SHA-256, assumed free of collisions on the contents in use.
DigestOf(content) == [sha256 |-> content]

Digests == {DigestOf(c) : c \in Contents}

ASSUME NoDigestAssumption == NoDigest \notin Digests

Services == [clip : Contents \cup {NoText}, last : Digests \cup {NoDigest}]

\* ClipboardSyncService::new; what the clipboard holds is the user's affair.
NewService(clip) == [clip |-> clip, last |-> NoDigest]

-----------------------------------------------------------------------------

\* content.len() > max_kb is refused: the plafond is compared with bytes.
UnderCap(content) == Size[content] <= MaxKb

\* mutant: the poll forgets the cap
OffersAny(s) == ClipEnabled /\ s.clip # NoText /\ s.last # DigestOf(s.clip)

\* mutant: unwrap_or_default, a clipboard without a text is taken for an empty text
OffersNoText(s) ==
  /\ ClipEnabled
  /\ s.last # DigestOf(s.clip)
  /\ s.clip = NoText \/ UnderCap(s.clip)

\* consume_local returns Some(clip); source.get may fail, which returns None.
Offers(s) ==
  /\ ClipEnabled
  /\ s.clip # NoText
  /\ s.last # DigestOf(s.clip)
  /\ UnderCap(s.clip)

OfferedUnguarded(s) == s    \* mutant: the guard is not moved

\* The guard moves before the content is handed to the transport.
Offered(s) == [s EXCEPT !.last = DigestOf(s.clip)]

\* mutant: only the first digest is compared
AcceptsOnce(s, content) == ClipEnabled /\ UnderCap(content) /\ s.last = NoDigest

\* ingest gets as far as the guard: should_apply.
Accepts(s, content) ==
  /\ ClipEnabled
  /\ UnderCap(content)
  /\ s.last # DigestOf(content)

\* should_apply moves the guard before source.set, which may fail.
Ingested(s, content) ==
  IF Accepts(s, content)
  THEN {[clip |-> c, last |-> DigestOf(content)] : c \in {content, s.clip}}
  ELSE {s}
=============================================================================
