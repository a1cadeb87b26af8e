# A TLA+ verification project for h2l

h2l is a small HTTP/2 framing library in Rust: a `Server` that accepts
connections and hands their frames to one callback, a `Client` that keeps one
connection alive and reconnects, and the frame codec both share.  Line numbers
are those of `src/src/`.

## 1. The system

### Components

| component | state it keeps | operations |
|---|---|---|
| **Server** (`server.rs`) | map `links` from token to `Arc<Link>`, one bounded channel `trans` (4096), `exit_accept_loop` | tasks `accept_loop`, `forward_loop`; thread of `spawn`, which joins both; `shutdown`, `find_link`, `send_to` |
| **Link** (`link.rs`) | `flags` (AtomicU32), socket, bounded `outgoing` channel (1024) | tasks `read_loop` (handshake, then frames), `write_loop`; `send`, `add_flags` |
| **Client** (`client.rs`) | `flags`, `raw_token`, `exit_loop`, channels `incoming` and `outgoing` (4096 each) that outlive the sessions | tasks `mantain_loop`, `forward_loop`, and per session `read_loop`, `write_loop`; thread of `spawn`; `shutdown`, `try_send` |
| **Frame codec** (`frame/`) | none | constructors and setters with their assertions, `parse`, `load`, `encode`, `write_to` of each frame kind |
| **Stream identifiers** (`frame/stream_id.rs`) | a u32 | `from`, `parse`, `next_id`, the predicates |
| **Transaction, Token** | none | the messages of all channels; a token is the raw descriptor of the socket |

Not modelled, because there is nothing to model: `error.rs`, `consts.rs`,
`frame/reason.rs` (names and conversions without state), `frame/util.rs` (all of
it commented out), `stream.rs` (empty), `frame/ping.rs` and
`frame/push_promise.rs` (their `mod` lines are commented out, so nothing compiles
them), the examples (callers of the library).  The one test, `lib.rs` `test_attach_and_detach`, is used
as a statement of intent (section 6).

### Interaction

```
peer --octets--> Link::read_loop --+                       +--> callback f
                                   +--trans--> forward_loop-+--> map links
accept_loop ----NewLink, exited----+                       +--> Link::outgoing
application --send_to/Link::send--> outgoing --> Link::write_loop --octets--> peer
```

The two loops of a link share only the flags word.  When `read_loop` ends it
adds READ_CLOSED and reports; `forward_loop` relays READ_CLOSED into `outgoing`
to end `write_loop`, which adds WRITE_CLOSED and reports READ_WRITE_CLOSED;
`forward_loop` then removes the link and calls `f` with DETACHED.  The client
has the same relay in `on_client_changed`, and `mantain_loop` waits for both
loops before it reconnects.

### What is hard

* *Atomicity.*  `add_flags` is a load and a store; the flags of the report are
  loaded a third time; `Link::flags` decodes the word by exact match.
* *Ordering.*  A link's tasks run before its NewLink is sent, so its LinkChanged
  may overtake it.  A client's relay may outlive the session it is about.
* *Stale identity.*  Tokens are descriptors, and the kernel reuses one as soon as
  the last `Arc<Link>` is gone.
* *Limits.*  Every channel is bounded: `send` blocks, `try_send` is refused, and
  what happens then is decided by an `unwrap` or a log line.
* *Shutdown.*  Flags are polled, exit messages travel behind all other traffic.
* *Opening.*  The SETTINGS a client waits for are the echo of its own, written by
  the forward loop through the write loop, while the read loop writes the answer to
  an upgrade on the same socket and the application may already be sending.
* *Time.*  Both exit flags are polled between waits of 40 ms; a connection starts
  the server's wait anew, a refusal costs the client 3 s of short sleeps.
* *Framing.*  The stream has no boundaries: one octet too many or too few read for
  a frame makes every later head garbage.

`PROJECT.json` lists 38 hazards at their lines with the properties that
cover them.

## 2. The modules

| module | what it is |
|---|---|
| `Link.tla` | the two tasks of a connection, the `trans` channel, the peer |
| `Server.tla` | EXTENDS Link: accept loop, forward loop, joining thread, application |
| `Registry.tla` | abstract specification: what the application sees of the server |
| `ServerInv.tla` | properties, inductive invariant, fairness, refinement mapping |
| `ServerProofs.tla`, `RegistryProofs.tla` | machine-checked proofs (section 5) |
| `Client.tla`, `ClientInv.tla` | the client's four loops, thread and channels; its properties and inductive invariant |
| `Sessions.tla` | abstract specification: what the client promises about its connections |
| `Opening.tla` | EXTENDS Server: one connection opening, client and server composed over the octets between them |
| `Timers.tla` | the timed waits of `accept_loop` and `mantain_loop`, a server and its clients |
| `Frames.tla` | the codec as operators on octets |
| `Streams.tla` | EXTENDS Frames: identifiers and lengths at full width |
| `Wire.tla`, `WireInv.tla` | one direction of a connection octet by octet, either reading end; its properties, inductive invariant and refinement mapping |
| `Delivery.tla` | abstract specification: what one direction of a connection promises, without octets |
| `FramesProofs.tla` | lemmas and theorems on the codec: each kind written and loaded again |
| `ClientProofs`, `WireProofs`, `StreamsProofs`, `TimersProofs`, `OpeningProofs` | machine-checked proofs of these (section 5) |
| `MCServer`, `MCClient`, `MCWire`, `MCStreams` | instances for TLC |

**Link and Server.**  One action per atomic step of a task.  A loop's program
counter is `reader[l]`, `writer[l]`, `accept`, `fwd` or `main`;
`"store"`, `"sample"`, `"send"` are the store of `add_flags`, the load for the
report, and the send of the report.  `rlocal` and `wlocal` are what a loop has
loaded.  A message names its link; the code knows only the token, so every
operator of `forward_loop` goes through `token[m.link]`, and `m.link` itself
feeds nothing but the ghost counters `attached` and `detached`.  `Accept(l, t)`
may pick any descriptor that no open socket has; `OpenLink` says when a socket is
open (a task alive, in the map, in a NewLink, held by the application).
`PeerSends` abstracts what `Wire` shows octet by octet: `data`, `settings`,
`other` are frames reported, `invalid` one that does not load, `unexpected` one
that panics the loop; `upgrade` and `garbage` are first lines that are not the
HTTP/2 preface.

**Client.**  The same style.  `mantain_loop` changes the flags word only while no
other task does, and does so in one step.  `conn` separates the peer's FIN, a reset,
and the `shutdown` of `read_loop`.  Ghosts are `session`, `told` and two fields of an
outgoing item: `of`, the last session begun when the item was accepted, and `late`,
whether the flush of that session's write loop was then already over
(`FlushToCome`).  Nobody but the next session can take a late item, and it does:
`FlushDropsOld` says that only late items outlive their session, and by one at most.

**Wire.**  The writing end sends items from a list: frames an application can
build, or whole raw frames as `Transaction::Bytes`.  DATA, HEADERS, CONTINUATION
and BINCODE are written in two calls, as in the code, and the stream may end
between them.  `wire` is every octet ever put on the stream and `taken` how many of
them have been read; `starts`, where each item begins, is a ghost: no action of the
reading end looks at it.  The reading end reads a head, then as many octets as the
code would, then loads.  `Seen` in `WireInv` says without octets what each item
should become; the invariants compare.  `Sides` says which end reads.
What may be sent is `IsItem`: a frame as its constructor, its setters, its load or
`payload_mut` can have made it (`IsFrame`), with a payload below 2^24 octets, what a
head can say; or one raw frame.  `Streams` shows what a longer payload does.
`WireInv` assumes besides that a WINDOW_UPDATE sent raw has its four octets
(`AlignedAssumption`): with another length the reader loses its place (section 6).  `Seen` of a raw item is what `Decode` makes of its
payload, so for these the properties are about framing and order; what the loads make
of values is said by the frames.

**Delivery.**  Five variables: the items sent, whether the last is not all there,
whether more may follow, the frames delivered, whether the reader has ended.  An item
is delivered when it is all there; a reader ends by refusing the next one or, after
the close, when nothing whole is left.  `Wire` implements it with `sent <- Sent`,
`delivered <- got`; an item of two writes is partial between them unless its payload
is empty: its head is then all of it, and it may be delivered before the second
(empty) write.  Reading a head and that second write are stutters.

**Sessions.**  Four variables: how many sessions there have been, whether the last
one has a task running, how many the application was told of, whether more
will come.  `Client` implements it with `opened <- session`, `live <- Live` (a task
of the session runs, or is about to), `told <- told`,
`finished` when `mantain_loop` has ended.  Closing a session, joining its two
tasks and clearing its flags are many steps of `Client` and one or none here.

**Opening.**  Every server step conjoins the action of `Server` or `Link` it is with
what it writes: `s2c` is all the server has written, `queued` what the items in
`outgoing` are.  The client either speaks HTTP/2 at once or asks for an upgrade first
(`mode`); the application either waits for DATA before it sends (`polite`) or sends
on ATTACHED, as the test in `lib.rs` does.

**Timers.**  Time is a variable per wait; `Tick` advances them all and is
disabled while some timer is overdue by `Late`, so that a loop whose wait is over
runs within `Late`.  One tick stands for 20 ms.  `AcceptConnection` ends the wait,
`SendNewLink` is the send of NewLink: it has no timer, and while `accept_loop` is
there the clock runs on (`held` counts it once the server has been told to stop).

**Streams.**  One end opens streams with `from` and `next_id` and sends a DATA frame
on each; the other parses the heads.  Only the length of a payload is kept, so
lengths around 2^24 and identifiers around 2^31 and 2^32 occur as they are.

### Abstractions

* Payload contents and header blocks are left out, and so are the header lines of
  the HTTP/1.1 request: in `Opening` the request is two items (what the first read
  returns and the rest) and the 101 answer is one.
* In `Opening` a `write_all` is one item of the stream, a DATA frame two (head and
  payload, two calls in the code); the server is not shut down and no octet is
  lost.
* In `Timers` the clock is the same for all and a timer is late by at most `Late`; how
  long the channel is full is any number of ticks (`Server` has the channel).
* In `Streams` the sum of `next_id` wraps, as in a release build; a debug build
  panics there.  Identifiers above 2^31 - 1 come from the public field of `StreamId`
  only.
  A panic of a task is a state of its own.
* The peer of a server link is not tracked octet by octet there: a link with a
  closed peer may still deliver frames that were buffered.
* A u32 in `Frames` is the pair of its 16-bit halves, because TLC's integers end at
  2^31 - 1.
* `set_flags`, `clear_flags`, `remove_flags` are public; the crate itself never
  calls the first two, and applications that do are not modelled.
* The socket is closed with the last `Arc<Link>`.  An application that also keeps
  a clone of the stream (`stream_cloned`) only delays the reuse of the descriptor.

## 3. What the runs check

| run | bounds | distinct states | what it shows |
|---|---|---|---|
| `server_reuse` | 2 links, 1 token, trans 2, outgoing 1, every peer input, symmetric links | 905,436 | type and inductive invariant, TokenIdentity, AttachBeforeDetach, NoFrameAfterDetach, DetachCompletes; the server implements `Registry` |
| `server_live` | 2 links, 1 token, trans 1, outgoing 1, invalid frames | 147,446 | ShutdownEnds, RelayedCloseDetaches |
| `client` | incoming 3, outgoing 2, 3 sessions, 2 sends | 307,538 | type and inductive invariant, SessionsInOrder, FlushDropsOld, CleanStart; the client implements `Sessions`; SessionsAreTold, SessionEnds, ShutdownStopsMantain |
| `opening` | 1 link, 1 client, either mode, up to 2 answers | 172,613 | AnswerFirst, HandshakeTakesEcho, AttachedBeforeData, HandshakeEnds; inductive invariant |
| `wire` | 39 items, 3 of them in any order, either reading end | 1,310,605 | type and inductive invariant, FramesInOrder, EndsWhenDue, Forwardable, Reloads; the stream implements `Delivery` |
| `streams` | 12 first identifiers, 5 lengths, 3 frames | 3,913 | StreamsUnmistaken, ExhaustedAtTheEnd, AlignedBelow24Bits; inductive invariant |
| `timers` | 1 client, 40 ms, 3 s, lateness 20 ms, 3 arrivals, 40 ms of full channel | 1,864,577 | ShutdownDelayedByArrivals, ClientNoticesExit, ReconnectPaced; inductive invariant |

The other five runs end in a counterexample on purpose (section 6).

Why the bounds are enough.  The hazards of the server are between the two loops
of one link, and between one link and its successor under the same descriptor:
two links and one token have both.  A channel of one or two messages is full
after one or two, so every blocking send and refused try_send happens; longer
channels add no new enabled action, only more of the same, and the safety part is
proved for every capacity.  Three sessions let something of the first be late in
the third.  The items of `Wire` are chosen at the edges of each check: reserved
bits, a stream that is zero but for the reserved bit, empty payloads, the lowest and
highest MAX_FRAME_SIZE and their neighbours, SETTINGS of 252 and 258 octets around
the 256-octet buffer, repeated, unknown and cut-short settings, padding that is
as long as the payload; SETTINGS, with six options of which any may be absent, are the
longest.  `Opening` needs one link: a second one shares no octet with it, and what
two links do to each other is in `server_reuse`.  Two answers are enough for one
before and one after any step of the handshake.  In `Timers` three arrivals and two
ticks of a full channel are enough to delay the shutdown past every bound that does
not count both.
`Streams` starts at the edges: zero, the carry into the upper half, the last
identifiers below 2^31 and 2^32 and the first above 2^31; lengths are 0, 2^16, and
those at and around 2^24.  Deadlock is
checked in `timers`, where time always goes on; the other systems may stop.

## 4. Fairness

Each step of a task is weakly fair when the executor alone decides whether it
runs: the tasks are independent futures on async-std's thread pool, and a future
whose channel or socket is ready is polled.  Not fair: the peers, the
application, new connections, and reads or writes that wait for a peer which is
still connected.  `AcceptTimeout` is weakly fair because connections are finitely
many in the model: 40 ms without one do come.  A server under arrivals that never
pause for 40 ms does not look at its exit flag, nor does one that waits for room for
NewLink: `ShutdownDelayedByArrivals` says that these two hold it up and nothing else,
each arrival by one timeout.  After a panic of `forward_loop` the wait for room need
not end, and no property says that it does.
`server_live` also lets the peers send no endless stream of frames, since a channel
served in arrival order under such a stream may still be full at every instant
the accept loop is polled.

`OpeningFairSpec` is fair to the steps of both programs, including what they do
once they want to send or close; the application is not bound to send anything.
`HandshakeEnds` excludes the cases in which an end has panicked or gives up, and
names them: the first frame to the client is not SETTINGS, the request came in
two segments, or the client's SETTINGS overtook NewLink.  `Timers` needs no fairness:
its properties bound time, and time cannot be held up.

`ShutdownEnds` excludes a failed `bind` and a panicked forward loop: in both cases
the thread really does not get to TERMINATED.  `SessionEnds` and
`ShutdownStopsMantain` exclude `Stuck`, a real way to hang: the application fills the
outgoing channel behind a write loop that is past its flush and waits for room in
the incoming channel, whose only reader, `forward_loop`, waits for room in the
outgoing one.

## 5. What is proved

TLAPS checks about 8,200 obligations in eight modules.  Each theorem holds for every
value of the constants that the assumption named beside it admits; what the runs
bound to one or two is arbitrary here.

| module | assumption | theorems |
|---|---|---|
| `ServerProofs` | `LinkAssumption`: any links, tokens, capacities above 0 | `TypeCorrect`, `Inductive`, `TokenIdentityHolds`, `AttachBeforeDetachHolds`, `NoFrameAfterDetachHolds`, `DetachCompletesHolds` |
| `RegistryProofs` | the same | `Implementation`: `Spec => ImplementsRegistry` |
| `ClientProofs` | `ClientAssumption`: any capacities above 0, any number of sessions and sends, either `AutoReconnect` | `TypeCorrect`, `Inductive`, `CleanStartHolds`, `FlushDropsOldHolds`, `SessionsInOrderHolds`, `Implementation`: `Spec => ImplementsSessions` |
| `OpeningProofs` | `OpeningAssumption`: one link, room for the answers in `outgoing`; `LinkAssumption` | `OpeningInductive`, `AnswerFirstHolds`, `HandshakeTakesEchoHolds`, `AttachedBeforeDataHolds` |
| `FramesProofs` | none | `HeadRoundTrip`, `SettingsRoundTrip` |
| `WireProofs` | `WireAssumption`, `AlignedAssumption`: any items that are well formed, a raw WINDOW_UPDATE of four octets, in any order and number, either reading end | `TypeCorrect`, `KeepsItsPlace`, `ReportsInOrder`, `EndsOnlyWhenDue`, `CanBeSentOn`, `ResetAndPriorityReload`, `Implementation`: `Spec => ImplementsDelivery` |
| `StreamsProofs` | `StreamsAssumption`: any u32 to start at, any lengths, any number of frames | `Inductive`, `StreamsUnmistakenHolds`, `ExhaustedAtTheEndHolds`, `AlignedBelow24BitsHolds` |
| `TimersProofs` | `TimersAssumption`: any timeout above 0, any delay, lateness, number of arrivals and time of a full channel | `Inductive`, `ShutdownDelayedByArrivalsHolds`, `ClientNoticesExitHolds`, `ReconnectPacedHolds` |

The inductive invariant of each component (`IInv`, `OpeningIInv`) is also checked by
TLC in the run of its module.  Proofs
have one lemma per action and conjunct that the action can disturb, over a few
lemmas on appending to and taking from a channel.

*The server.*  None of the four properties is inductive.  That a late message
cannot hit a successor needs three facts together: two open sockets have
different descriptors (`DistinctTokens`); a link with a message in the channel
whose NewLink is also there comes after it, and no NewLink under the same
descriptor is ahead of a message of another link (`InTokenOrder`); a link is
announced once and is then being sent, queued or attached (`AnnouncedOnce`).
The step that matters is `Accept`: a new link gets a descriptor only when its
previous owner is not open, and from then on the old owner's messages are all
ahead of the new NewLink.  For DETACHED to be last, `FlagsSound` ties each bit,
in the word, loaded or in a message, to a loop that has stored it, and
`FramesFirst` puts all frames of a link ahead of any READ_CLOSED of it.
`DetachCompletes` is inductive beside them: whichever loop stores the second bit
is then before its sample, and the sample sees both.

The refinement maps `owner <- links`, `life <- Life` (from the two counters) and
`phase <- Phase` (from `fwd` and `main`).  `RegistryProofs` adds `Registered`: an
attached link is in the map until its DETACHED, which makes a repeated DETACHED a
stutter, or finds the entry of nobody else.

*The client.*  Two loops and `mantain_loop` send to `incoming`, and the two loops may
overwrite each other's flags.  `FlagsStored` says what survives: from the store of a
loop to its report at least one closed bit is set, so its message never looks newly
handshaked.  `LoopsAwaited` lets no loop run outside the wait of `mantain_loop`, which
makes `CleanStart` inductive.  Hence all three senders send for the session announced
last, and `InOrder` follows: the oldest message either opens session `told + 1` or
belongs to `told`, and what is behind an opening belongs to it.  `SessionsInOrder`
takes its highest earlier opening from there.  `FlushDropsOld` is inductive as it
stands: an item that is not late is in the channel only while a flush is to come, the
flush ends with an empty channel, and what is accepted behind it is late; the next
session's flush is to come from the moment `session` grows, so no late item sees two.  Every step of the client maps to one
of `Sessions` or to a stutter.

*The opening.*  Every step of `Opening` is a step of `Server`, so the invariant of the
server is there to use.  On top of it: the server has written nothing but what the
application sent unasked while the read loop is before the frames (`NothingRead`), not
even that before ATTACHED (`AttachedFirst`) or when the application is polite and has
not been served (`PoliteWaits`); the ack is behind the echo, in the stream, in the channel and between
the two sends of the forward loop (`EchoFirst`); who asked for an upgrade is answered
(`UpgradeAnswered`).  `AttachedBeforeData` closes the circle: DATA follows the echo, the
echo is sent to a link in the map, and the link is in the map since ATTACHED.

*The codec.*  For each kind a lemma says what its load makes of what its write_to
produced, for every value of every field and every payload.  SETTINGS is the long
one: a payload is at most six chunks of six octets, no id in two of them (`Encoded`,
built up one option at a time), so the last chunk of an id is the only one, and the
load finds in it the option that was written.

*The wire.*  `FramesInOrder` is not inductive: it says nothing of where the reader
is.  `Placed` cuts the stream into items, each beginning where the one before ends, and
`ReaderPlaced` puts the reader at the beginning of the item it will report next, or
past its head and holding it.  A step keeps this because the length in each head is
that of its payload (`ItemRead`, from the codec lemmas by kind) and because pieces
of the stream stay what they are when it grows.  The delicate step is an item
written in two parts: the reader can be done with it before the second write, but
only when that write is empty, which `ReaderPlaced` says too.  `Forwardable` needs more than the
round trip: whatever the load accepts, raw octets of an application included, is a
frame that a program can hold and that means the same again at the next reader
(`Stable`, `DecodeOutcome`).  That the histories are sequences at all (`Sequences`)
is a conjunct of the proof only; TLC has it by construction.  For the refinement,
`LeftAtEof` adds that at the end of the stream only an item that was not finished can
be left, so that a reader that has drained the stream owes nothing.

*Identifiers and lengths.*  `HeadRoundTrip`: of a head written for any u32 and any
length, the reader gets the identifier without its top bit and the length modulo 2^24.
It is stated for the two halves of a u32 and rests on division lemmas for the
octets.  `IInv` relates each head read to the one sent, and what is sent to the
parity of the end.

*The waits.*  `ServerOnTime` adds up the waits that arrivals have started and the time
`accept_loop` has been in the send of NewLink; a timer is
at most `Late` over because `Tick` waits for whoever is overdue.

*Only model-checked:* liveness, that is `ShutdownEnds`, `RelayedCloseDetaches`,
`SessionsAreTold`, `SessionEnds`, `ShutdownStopsMantain`, `HandshakeEnds` (outside
TLAPS), and the counterexamples of section 6.  Every safety property of the
runs has a theorem.

## 6. Where the code and its own words disagree

Five runs end in a counterexample to what the repository says.

* `server_lib_test` (`lib.rs:94`): both loops store before either samples; both
  report READ_WRITE_CLOSED; `f` gets DETACHED twice, the counts of the test differ.
* `server_lib_detach` (`lib.rs:94`): a READ_CLOSED handled before NewLink, or
  relayed into a full outgoing channel, or lost between two `add_flags`, leaves
  the link attached for ever.
* `client_terminated` (`client.rs:402`, `:508`): nobody sends the
  MANTAIN_LOOP_EXITED message that `forward_loop` waits for; TERMINATED never comes.
* `client_stale_relay` (`client.rs:293`): a READ_CLOSED relayed late ends the write
  loop of the next session.
* `wire_settings_error` (`frame/mod.rs:151-156`): `Settings::load` gives
  InvalidPayloadAckSettings for a length that is no multiple of six and
  InvalidPayloadLength for an ack with a payload, the other way round than documented.
  `EndsWhenDue` therefore takes either where one of them is due.

Met as well, and part of the models as outcomes of their actions:

* the unwraps on the SETTINGS replies (`server.rs:101`, `:109`).  An honest client
  can hit the first: its SETTINGS are in the channel before NewLink when
  `accept_loop` is slow, and the forward loop of every link panics (`Overtaken` in
  `Opening`);
* one read takes the rest of an HTTP/1.1 request (`link.rs:30`): a request in two
  segments ends the read loop by a panic;
* a frame the application sends on ATTACHED before the echo is queued makes the
  client's handshake fail (`client.rs:107`), and a failed handshake ends
  `mantain_loop` for good, with `auto_reconnect` or without;
* the `unreachable!()` for other frame kinds (`link.rs:168`), a failed `bind` that
  leaves the thread waiting (`server.rs:41`), `shutdown(Both).unwrap()` after a reset
  (`client.rs:260`), the 256- and 1024-octet buffers that SETTINGS may overrun
  (`link.rs:123`, `client.rs:109`, `:185`);
* what `try_send` accepts once the write loop of a session is past its flush
  (`client.rs:304`) is kept and written to the next connection, up to a channel full of
  it, while what it accepted just before is dropped without a word;
* both readers take four octets of a WINDOW_UPDATE whatever its head says
  (`client.rs:213`, `link.rs:141`): the check of the length (`frame/window_update.rs:34`)
  cannot fail, the frame is reported, and what is left of a longer payload is read as
  the next head;
* the payload of a received padded DATA frame keeps its padding and the octet that
  counts it (`frame/data.rs:75`), which `frame/data.rs:124`, `:132` and `:140` say it
  does not include (Reloads and Forwardable therefore compare whole payloads);
* `accept_loop` waits without a timeout for room for NewLink (`server.rs:48`): with a
  full channel, and for good once `forward_loop` has panicked, `shutdown` is not noticed.

## 7. Plan

Done: Link, Server, Registry; Client, Sessions; Opening; Timers; Frames, Wire,
Delivery, Streams, all with their runs, and the proofs of section 5, which state every
safety property the runs check.  In order, what is left:

1. Two links in `Opening`, with the forward loop's panic on one felt by the other.
2. In `RegistryProofs` and `ClientProofs`, the premises of the fairness arguments as
   invariants (which task a blocked send waits for), the safe part of `ShutdownEnds` and
   `SessionEnds`.
