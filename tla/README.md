# A TLA+ model of traveller

`traveller` shares one mouse and one keyboard between two machines. The
*controller* owns the devices; when its pointer crosses the shared edge of the
screens, what its user does is relayed over TCP+TLS to the *client*, which injects
it. The two clipboards are kept in step all the while.

This directory holds TLA+ modules translated from the Rust sources, TLC
configurations that check them on small instances, and TLAPS proofs of the results
that matter most for every value of the constants. Paths such as `controller.rs`
are relative to `src/src/` (those under `docs/`, `README.md` and `config.example-*` to
`src/`); "design document" is
`src/docs/specs/2026-09-16-traveller-design.md`.

## 1. The system

```
 controller                                             client
 capture thread --rx_input--> run_controller   run_client --> injector (OS)
                                |        ^       ^      |
                           tx_send   rx_events rx_events tx_send
                                v        |       |      v
                             writer   reader   reader  writer
                                |        ^       ^      |
                                +--------|--TLS--+      |
                                         +-----TLS------+
```

| Component | State | Operations | Talks to |
|---|---|---|---|
| geometry (`geometry.rs`) | none (a value) | map heights, detect the edge | focus, controller |
| focus (`focus.rs`) | mode, virtual pointer | `step`, `force_local` | controller |
| coalescer (`coalescer.rs`) | pending displacement | `push`, `take` | controller |
| controller loop (`controller.rs`) | focus, keys down, `suppress` (shared with the capture thread) | one `select!` branch at a time: input, connection event, clipboard tick; `park` sleeps 25 ms | capture by a queue and a flag, session by two queues |
| client loop (`client.rs`) | none but the devices it moves | inject each message, answer `Ping`, clipboard tick | session by two queues, OS |
| session tasks (`transport/mod.rs`) | two queues and a socket per end | read, write, heartbeat (controller only) | both loops, the network |
| clipboard service (`clipboard.rs`) | OS clipboard, digest of the guard | poll (`tick_send`), `ingest` | both loops |
| protocol (`transport/protocol.rs`) | none | encode, frame, limit of 16 MiB | session tasks |
| connection (`transport/client.rs`, `server.rs`, `mod.rs`) | backoff, listener, the handshake being served | connect with backoff, accept one at a time, `verify_peer_fp` | `run_async`, the network |
| capture and injection (`input/`) | last position, `suppress`, the OS pointer | capture thread, `position`, `set_position`, inject | OS, both loops |
| keymap (`keymap.rs`) | none | key, button and combination tables | capture, injector, controller |
| configuration, start-up (`config.rs`, `lib.rs`, `main.rs`) | the runtime | load, validate, start the role | everything |
| security (`security.rs`) | two files | `ensure_cert`, TLS parameters, fingerprints | start-up, connection |
| logging (`logging.rs`) | a file | logs | none |

What is hard in it, and what each part must therefore satisfy:

- **Interleaving.** Each loop's `select!` takes ready branches in a random order, and
  the capture thread, the reader and the writer run on while `park` sleeps. The
  focus, what the client was told and the suppression flag must agree in every order.
- **Two views of one pointer.** The controller decides to come back on a *virtual*
  pointer, several messages ahead of the pointer the user sees.
- **Ends.** A session may end by `Quit`, by a closed or reset connection, by a
  network gone silent, by a failed injection, by a dead capture thread, by the
  emergency combination. The mouse must come back, both programs must notice, and
  what was relayed must be a beginning of what was meant.
- **Half-done beginnings.** In TLS 1.3 the controller is in its session before the
  client has verified it; a certificate is written in two files, one after the other;
  strangers and broken connections stand in front of a listener that serves one
  handshake at a time, and a stranger with a certificate may take the session of a
  client that has pinned nobody; once a session has begun, nothing dials or listens again.
- **Absolute positions.** The OS tells where the pointer is, and the program sets the
  pointer itself: displacements are differences that must not count its own movements.
- **Rounding.** Heights are rounded on the way out and again on the way back.
- **Echo.** What one clipboard received must not be sent back, with a guard that is
  moved before an operation that may fail.

`PROJECT.json` lists each hazard at its line, with the properties that would catch it.

## 2. The modules

| Module | Models | Checked by |
|---|---|---|
| `Geometry` | `geometry.rs`, with `NaN` for 0/0 | used by the others |
| `Crossing` | repeated round trips over the edge | `MC_Crossing` |
| `Protocol` | `Msg` and `ConnEvent::Closed` | used by the others |
| `Keymap` | `keymap.rs`: the two tables, codes, buttons, combinations | `DeskProofs`; used by `Desk` and `Client` |
| `ClipboardService` | guard, poll and ingest of one machine | used by the others |
| `Controller` | `run_controller`, `ControllerCore`, `FocusState`, `Coalescer`, `park` | `MC_Controller` |
| `RemoteControl` | abstract: the discipline on the controller's messages | property `KeepsPromise` |
| `Desk` | `spawn_capture`, `position`, `set_position`, the hands, the OS pointer, composed with `Controller` | `MC_Desk` |
| `ClipboardExchange` | abstract: the two services and two channels | used by the two below |
| `ClipboardSync` | the exchange plus the history its properties speak of | `MC_ClipboardSync` |
| `BreakableExchange` | abstract: the exchange when programs and channels may end | property `SharesClipboards` |
| `SessionEnd` | reader and writer task of one end | used by the two below |
| `Session` | two ends, the connection, two arbitrary loops | `MC_Session` |
| `Pipe` | abstract: a queue that may break at its end | properties `DeliversInOrder`, `AnswersInOrder` |
| `Client` | `run_client` and the devices it injects into | `MC_Traveller` |
| `Traveller` | `Controller` + `Client` + two `SessionEnd` | `MC_Traveller` |
| `Connect` | `main`, `run`, `validate`, `ensure_cert`, `connect_loop`, `serve_loop`, `verify_peer_fp`, of two machines | `MC_Connect` |
| `OperatorProofs`, `CrossingProofs`, `ControllerProofs`, `ClipboardSyncProofs`, `SessionProofs`, `DeskProofs`, `ConnectProofs`, `TravellerProofs` | theorems | TLAPS |

How they meet: `Connect` goes from the launch to the moment both programs are in a
session, and takes them back to the shell when it ends; `Traveller` is what happens
meanwhile. `Desk` replaces the arbitrary capture of `Controller` (any displacement, a
pointer anywhere) by the capture thread, the OS and the hands.

State and code correspond by name: `mode`, `virtX`, `virtY` are `FocusState`;
`pressedKeys`, `rxInput`, `rxEvents`, `txSend` are the locals and channels of
`run_controller`; `captureOpen`, `eventsOpen`, `sendOpen` say whether the task or
thread at the other end of a channel still runs, so that `recv()` returning `None` and
`send` failing are states of the model; `last` is the capture thread's `last`, `backoff`
the local of `connect_loop`. One branch of a `select!` is one action; only `park` is two
(up to its sleep, and after it), because everything else runs meanwhile. In `Connect`,
`st` is the line a program has come to: every `.await` and every write of a file is a
step, and a kill may fall between any two. `told`, `visited`, `unanswered`, `pushed`,
`kept` and the history of `ClipboardSync` are auxiliary: no action of the code depends
on them. An operator marked `mutant` is a plausible bug, used to confirm that a property
can fail; nothing else refers to it.

Abstractions that all modules share:

- Coordinates and displacements are integers (pixels in an `f64`, far below 2^53).
- In `Controller` and `Traveller`, `position()` is read after the movement and may
  fail: any pixel is possible, `(0, 0)` included. `Desk` gives it the OS pointer.
- The client's declared screen is its real one, and its own user leaves mouse and
  keyboard alone.
- SHA-256 has no collision on the contents in use. Nobody shows a certificate without
  its key: an identity is a number, and strangers show one of their own (`Stranger`).
- A frame arrives whole and in order, or the read fails: that is TCP and TLS. Wheel
  amounts, timestamps, device ids and the digest in `Clipboard` (never read) are left out.
- Logging and messages of errors are left out.

`Desk` adds two of its own, both about the OS (external): it keeps the pointer
on the screen, and reports the positions it has (X11, `raw` FALSE) or those it would have
if the screen had no end (the hook of Windows, `raw` TRUE); and the 25 ms of `park` are
long enough for it to report the program's own movement and for the capture thread to
take the report (`Unpark`). Where they are not, the return to the edge counts as a movement of the user.
It leaves out buttons, wheel, clipboard and the end of the capture thread, which are in
`Controller`.

## 3. The runs

| Run | Question | States |
|---|---|---|
| `crossing` | does the pointer drift? | 1.2 k |
| `controller` | is the loop consistent in every interleaving, does it keep `RemoteControl`, and does it end once its session has? | 1.2 M |
| `desk` | are parks never taken for movements, is no movement of a visit lost or counted twice, are the keys held for pressed those that are down? | 1.45 M |
| `clipboard` | echo, cap, convergence, delivery | 38 k |
| `session` | order, `Closed`, `Pong`, whatever fails and whenever; is every end of a session heard of? | 158 k |
| `traveller` | does the virtual pointer follow the real one, do devices move only during a visit, do both sides agree in the end? | 1.1 M |
| `traveller_clipboard` | does the composition, heartbeat included, implement `BreakableExchange` whichever program or task ends? | 362 k |
| `connect` | who may fail to start, are identities kept, are sessions mutual and pinned, do two programs that suit each other meet, does half a session end? | 456 k |

All of them pass. Deadlock is not checked where a program may end for good: all of them
except `crossing`.

Four more runs (`expect: violation`) confront the program with what its documents say
and it does not do:

| Run | The documents | The code |
|---|---|---|
| `connect_launch` | `README.md:50`: the first launch writes the certificate and listens | `main` is in a tokio runtime when `run` (`lib.rs:47`) makes another one and blocks on it: a panic, for every valid configuration |
| `desk_control` | `docs/ACCEPTANCE.md:8-9`: the cursor is controllable on the client; design document, line 145 | the pointer is parked on the very column it has crossed: the hand that goes on outwards moves it no further, nothing (or, under Windows, one step and no more) is reported, and the virtual pointer stays on the first column |
| `connect_reconnect` | `docs/ACCEPTANCE.md:53-54`: after a cut the controller connects again without being started again; `docs/ACCEPTANCE.md:45-47`: it tries again when the client refuses it; design document, line 164 | `connect_loop` returns with the first session; when that one ends so do `run_controller`, `run_async` and the program, and nothing dials |
| `traveller_emergency` | `docs/ACCEPTANCE.md:58-60`: nothing stays pressed after the emergency combination | the keys relayed before its last one do |

Other disagreements are modelled as the code has them and need no run to be seen.

*Focus and input*

- between `Closed` and the end of the queue a movement may take the focus to a session
  that is dead (`controller.rs:162`, against `docs/ACCEPTANCE.md:51-52`);
- the emergency combination ends `run_controller`, hence the program (design document,
  line 165: "sans quitter l'app"; `controller.rs:136`, action `EmergencyStop`);
- `force_local` posts no `CursorLeave` (line 83: never two `CursorEnter` in a row);
  `ToldMatchesFocus` therefore only speaks of an open session;
- the coalescer never merges movements (line 130): it only accumulates and is discarded;
- `position()` is read when a movement is handled: after a fast one the edge may be
  crossed a little early or late;
- the combination is parsed only once there is a session (`controller.rs:99`): a typing
  error in it is found out then (`BeginLoop`);
- a modifier of the combination is always the left one, although `keymap.rs:4` says that
  `CtrlL` stands for both (theorem `CombosAreLeftHanded`);
- keys out of the tables are injected as Escape, and all but two of them share one code,
  so that they count as one key (`OtherKeysEscape`); the extra buttons of a mouse under
  Windows, `Unknown(1)` and `Unknown(2)`, come out as the left and the right one
  (`ButtonsRoundTrip`).

*Session and clipboard*

- `HEARTBEAT_TIMEOUT` is not used (`mod.rs:21`; line 112: 15 s of silence disconnect): a
  client with nothing unacknowledged waits for ever on a silent network;
- a frame beyond `MAX_FRAME` ends the writer task alone, with what is queued and the
  heartbeat, and closes nothing (line 109; action `WriteFails`, and the exception in
  `ControllerHears`);
- a `Ping` is answered by the reader and again by `run_client` (`client.rs:36`,
  action `HandlePing`): two `Pong` for each, which `TwoPongsPerPing` counts;
- two concurrent copies cross and stay exchanged (line 154), so `InStep` speaks of
  orderly copies only; and since only digests are compared, an old content may overwrite
  a copy that no poll has seen yet (`clipboard.rs:106`, line 157);
- `ingest` moves the guard before `source.set`: if `set` fails the older content is sent
  again (`docs/ACCEPTANCE.md:36-37`, one message per change), which `NoEcho` counts;
- `max_kb` is compared with bytes (`clipboard.rs:90`, operator `UnderCap`).

*Start-up and connection*

- `validate` accepts a client with `peer_addr` and no `listen`, which panics
  (`server.rs:19`, action `Bind`), and a controller with `listen` in its place, which
  the example of a controller's configuration proposes (lines 10-11 of
  `config.example-controller.toml`) and `connect_loop` refuses (`BeginDialing`);
- a program killed while `ensure_cert` writes may leave a pair that no later start can
  use or replaces by itself (`Broken`, `FailsForAReason`); such a pair was never shown to
  anyone (`IdentityKept`);
- a stranger that connects and says nothing keeps everyone else waiting (`server.rs:28`):
  `MatchedMeet` needs strangers to leave;
- a client that has pinned no fingerprint, as on the first launch, begins its session
  with whoever shakes hands first, and drops its listener for that session
  (`server.rs:28-43`): `MatchedMeet` and `HalfSessionEnds` except it by name.

### Bounds, and why they are enough

- `Crossing`: all 81 pairs of heights up to 9, from each start; the theorems cover every pair.
- `Controller`: queues of one element, displacements of at most one pixel per axis, a
  virtual pointer carried up to `Travel` = 2 on a screen two pixels wide, so that it
  reaches the far edge, overshoots and comes back. A queue of one element is enough to
  put any two events in any order, since the environment refills it at any moment; the
  theorems hold for every bound and both sides. Bounds are guards of the actions that
  fill a queue or lengthen a path.
- `Desk`: a 2 x 2 screen beside a 2 x 3 one, so that a park moves the pointer in both
  directions; steps of the hand right, left-and-down, and up; one event told and one
  captured at a time, so that a key or a movement may be on either side of a park; keys
  `ControlLeft`, `ControlRight` and `F10` with the combination `ctrl+f10`, so that the
  wrong `Ctrl` is down in its stead. The theorems on keys hold for every bound.
- `ClipboardSync`: two contents within the cap and one beyond it as the code reads it,
  three copies in all (two concurrent ones and one more), one failed `set` per machine.
- `Session`: two messages per loop, two frames in flight and two-element queues, so
  that messages can overtake each other if anything lets them; one of the messages is
  beyond `MAX_FRAME`; one `Ping` at a time.
- `Traveller`: queues of one element at each of the three stages of a direction, so
  three messages can be under way. Each run keeps only what its question needs:
  `Heartbeat` is off where the heartbeat cannot matter (the pointer and the visits; the
  code always has it on) and on in `traveller_clipboard`, where the mouse stays at home;
  there a `Ping` waits for both `Pong` to the one before (`unanswered`). The clipboard is
  off but in that run, and `Faults` names the failures a run allows.
- `Connect`: six pairs of configurations that suit each other but for their pins (right,
  wrong or none on each side) and seven with one thing wrong; three launches, so that a
  program may be restarted, under its old pair of files or a new one, while the other
  goes on; two identities made before and one to make; one mishap, a stranger (silent, or
  with a certificate) or a connection that breaks, during a handshake or under a session
  (`connect_reconnect`: two launches). On the address that is dialed nobody but the other
  machine listens. `Nested` is FALSE, as if `run` were called outside a runtime, because
  nothing else would ever happen; `connect_launch` sets it to what `main` does.

### Fairness

Nothing is assumed of users or of failures. Assumed are: the sleep of
`park` ends (timer); the runtime runs each task that can go on (`WF` on reader, writer,
heartbeat interval, clipboard ticks, and on a program of `Connect`); `select!` starts
polling at a random branch, so a branch that is ready again and again is taken (`SF` on
the connection events in `Controller`, whose branch competes with input and is not
ready during `park`); TCP gives up on data that is never acknowledged; a program that has
ended closes its socket; in `Connect`, a stranger does not keep a handshake waiting for
ever (in a session it may stay). A silent network is never assumed to be noticed by an end
that has written nothing.

## 4. What is proved

All for every geometry, key set, content set, configuration, cap and bound, from the
named assumptions on the constants only. Every property of the passing runs is a theorem
but the six liveness properties.

- **Operators** (`OperatorProofs`). Lemmas that the other proofs cite: about rounding,
  about sequences and finite sets, and about folds. The library defines folds by
  recursion over a finite set, and its induction theorems take an operator, so induction
  is stated here over sets: a set of numbers has a least element (`LeastElement`, from
  the well-foundedness of strict inclusion of finite sets), hence what holds of 0 and of
  each successor holds up to n (`InductionTo`), hence a fold over a sequence is what its
  recursive definition says (`FoldDefined`). From that, `Collect` (the concatenation of
  what a function makes of each message) and `Walk` (where steps lead) have the lemmas
  the proofs below need: what they become when a queue grows at its end, loses its head,
  or is the concatenation of three (`Row`).
- **Rounding** (`OperatorProofs`, `CrossingProofs`). `round` is characterised by two
  inequalities (`RoundedBounds`) that determine it (`RoundedUnique`). Going out and
  back (`Bounce`) is the identity if the client is at least as high (`RoundTrip`), and
  bouncing a second time changes nothing in any case (`BounceSettles`).
  The inductive invariant `WhereParked` says where the pointer is as a function of
  where it started. It gives `CrossingTypeOK`, `CrossingNoDrift`,
  `CrossingExactReturn` and `CrossingNearReturn`.
- **Controller** (`ControllerProofs`). `IInv` is cut along the variables, one lemma per
  part. Three conjuncts are not in the checked invariants and make the rest inductive:
  `CoalescerIdle` (an empty coalescer holds zeros, so that the next visit starts from
  zero), `ClosedIsLast` (`Closed` cannot be waiting while the reader runs, so that
  `force_local` never happens silently in an open session), and the types of the
  queues' elements. From it: `ControllerTypeOK`, `VirtualPointer`, `CoalescerExact`,
  `EmergencyNeverMissed`, `EntersAlternate`, `SuppressedParking`, and the refinement
  `ImplementsRemoteControl` (one step of the promise, or a stutter, per action).
- **Keys** (`DeskProofs`). The tables are one row per key, with no name
  twice (`TablesAssumption`, which TLC evaluates on the tables themselves); from that
  alone, every key of the tables comes out of the client as it went in (`KeysRoundTrip`)
  and no two of them share a code (`CodesAreDistinct`). The proof then follows a key from
  the hand to the loop through two queues. `After(q, S)` is what a queue of presses and
  releases makes of a set of keys, the inductive invariant `OnTheirWay` says that the
  two queues make of `pressedKeys` the keys that are down, and what must be shown of
  each action is that it appends to a queue what the hand did or moves its head on
  (`AfterAppend`, `AfterTail`). Hence `DeskPressedKeysAreDown` and, with
  `EmergencyStops`, `DeskCombinationStops`. They assume `HandKeys \subseteq TableKeys`:
  keys out of the tables share a code, and releasing one then releases the others.
- **The desk** (`DeskProofs`). `DeskInv` is the invariant of the controller (`IInv`) and
  `PointerInv`, about the pointer that the OS and the capture thread each know of. The
  positions the OS has told and the capture thread has not handled yet form a trail
  (`Trail`): it starts where the thread last saw the pointer, each position is within one
  step of the hand of the one before unless the program itself set it, and it ends at the
  pointer or one clamped step from it. `Tells` says that a position the program set is
  waiting only while the capture is suppressed, and `Captured` that no captured movement
  is longer than one step of the hand (two where the OS reports positions beyond the
  edges of the screen). Hence `DeskDrivesController` (the desk is an environment
  `Controller` allows for, so that every theorem about `Controller` holds of `Desk`),
  `DeskTypeOK`, `DeskParkIsNotAMovement` and the action property
  `DeskVisitCarriesTheMouse`. They assume of the hand that its steps are finite in
  number, and of `Deltas`, the displacements of `Controller`, that it holds displacements
  up to twice the longest step.
- **Session** (`SessionProofs`). `SessionTypeOK`, `SessionClosedIsTheLast`, and
  `SessionTwoPongsPerPing`, whose inductive form `PongsOwed` counts: in a session in
  order, what the heartbeat has sent and not got back is two `Pong` for each `Ping` the
  reader has not seen, one for each that waits for the loop, and each `Pong` on its way
  (`Owed`). A count is the cardinality of a set of
  places in a queue. `SessionDeliversInOrder` and `SessionAnswersInOrder` are
  refinements: the three queues of a direction, one after the other and without `Ping`
  and `Pong`, are the one queue of `Pipe`. The proof cuts a step of the session into
  what it does to one direction: it posts, it takes, it moves a message from a queue to
  the next, or it ends a task and so cuts the queue (`Carries`, `CarriesIsPipe`).
- **The two programs** (`TravellerProofs`). A message from `run_controller` to `run_client`
  goes through three queues. `HolderAfter(h, q)` is who has the mouse once the messages
  of `q` are handled, if `h` had it before; `Orderly(h, q)` that none of them acts on the
  devices but during a visit. Both are stated without recursion, and `More`, `Less` and
  `Beginning` say what they become when a queue grows, shrinks or is cut. `MouseInv` has
  three parts: `RouteInv` (the three queues are orderly one after the other, and lead from
  what the client believes, `visited`, to what the controller has told), `ToldInv` (the
  focus is remote only if that was told; it changes without a word only when the session
  has ended) and `ClosedInv` (`Closed` is not waiting while the reader runs, nor ever on
  its way). Each step of the system is one of seven moves of the route (`RouteSays` ...
  `RouteEnds`). Hence `TravellerMovesOnlyWhenVisited` and `TravellerAgreeWhenCaughtUp`.
  `TypeInv` types every queue by what may wait in it and gives `TravellerTypeOK`.
  `FollowInv` says where the client's pointer goes: the walk of `Displaced` along the
  three queues leads to the height of the virtual pointer and no nearer to the shared
  edge. It gives `TravellerVirtualFollowsReal`, for screens of any sizes; the part about
  the height holds if the controller's screen is more than one pixel high (behind one
  pixel the mapped height is not a number).
- **The clipboards of the two programs** (`TravellerProofs`).
  `TravellerSharesClipboards` is the refinement of `BreakableExchange`. Its channel is
  what is collected from the three queues of a direction when only the contents of
  `Clipboard` messages are kept (`OnTheWay`, `Texts`); a direction is intact as long as
  all that stands between the loops still runs. Every step does one of four things to a
  direction: it posts a content (`DirectionPosts`), takes one (`DirectionTakes`), or
  says nothing of contents, and then either leaves the channel as it is or, when a task
  or a program ends, cuts it short (`Flows`, `Breaks`), which is a step of the abstract
  exchange or none (`FlowingBreaks`). The invariants it needs are small: `TasksInv`
  (the tasks of the client are running or not) and `ExchangeInv`, which follows from
  the types.
- **Start-up and connection** (`ConnectProofs`). `LocalInv` ties the files of a machine
  to the step of `ensure_cert` it is at and to the identity used before: it gives
  `ConnectTypeOK`, `ConnectIdentityKept` and `ConnectFailsForAReason` (the last one if
  `run` is not called inside a runtime). `MutualInv` says which connection of one machine
  is the session of the other, and makes `SessionIsMutual` inductive
  (`ConnectSessionIsMutual`).
- **Clipboard** (`ClipboardSyncProofs`). `NoEcho` counts: what is left to send never
  exceeds the changes of the user plus the failures of `set`, minus what was sent. It is
  inductive together with the types and `OnlyUnderCap`. Theorems `SyncTypeOK`,
  `SyncNoEcho`, `SyncUnderCap`. `SyncInStep` needs an invariant that says what holds
  before the exchange is at rest (`Converging`): as long as the users copy one after the
  other, whatever is under way is the latest content, and a machine that does not have
  it yet does not hold its digest, offers nothing, and is about to be sent it.

Only model-checked: the liveness properties (`Delivers`, `ControllerHears`,
`ClientHears`, `LoopEndsWithSession`, `MatchedMeet`, `HalfSessionEnds`), since fairness is
beyond the prover; and the four violations of section 3, which are counterexamples.

## 5. Not modelled

- The cryptography of TLS and the generation of keys; what a certificate says besides
  who shows it.
- Reading TOML, default values, paths, and logging: nothing in the control depends on
  their detail.
- Errors of `bind` and of the disk other than a kill between two writes; the limits of
  the kernel's backlog.
- bincode and the length prefix: a frame is a value that arrives whole, or the read fails.
- The emergency combination's text as characters: the parser is modelled on tokens.
- Messages still queued when a program ends are lost; `Exit` models that, and no
  property says otherwise.

## 6. Plan

Done, in this order: geometry and crossings; the controller loop, its promise, its
proofs; the clipboard exchange and its proofs; the session; the client; the
composition of the two programs; start-up, identities and connection, with proofs; the
keymap; the desk; the proofs about the session and the keys; who has the mouse, proved
end to end; then, as theorems, the last safety properties: the desk drives the
controller and parks are not movements, where the client's pointer goes, a session is a
pair of queues, the copied text arrives, and the two programs exchange their clipboards.

Left, by interest:

1. The safety half of the liveness properties: the bounded measures by which a message
   under way, a heartbeat or a closing session comes closer to its end with each step.
2. `Client` proved against the abstract half of `RemoteControl`, so that the promise of
   the controller extends to the devices of the other machine.
3. `TravellerProofs` in shorter steps: its case analyses repeat for each of the three
   directions (mouse, pointer, clipboard) what one lemma on the queues could say.
