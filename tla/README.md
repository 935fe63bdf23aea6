# KPS: a TLA+ development

KPS gives an application reliable byte streams and datagrams between two
endpoints that know each other by public key, over WebRTC data channels or
QUIC. `SPEC.md` is the protocol; the repository implements it three times (Rust,
Go, TypeScript). This development models the Rust library,
`libs/rust/kps/src`: the WebRTC side in full, where KPS has its own flow control,
stream state machine and handshake on top of a transport that has none of them,
and around it the listener that both transports share, the codecs, and the
server's identity file.

Line numbers below refer to files of `libs/rust/kps/src` unless a path is given.

## 1. The system

### Components, their state and their operations

| Component | State | Operations | Code |
|---|---|---|---|
| Byte credit (`ConnFlow`) | per connection: bytes sent, reserved, received, consumed, both limits; per stream the same | reserve, commit, release, take limits from the peer, account for received and consumed bytes, advertise | `flow.rs` |
| Stream slots (`ConnFlow`) | slots reserved, opened, the peer's limit; streams the peer opened, limit advertised to it | reserve, commit, release a slot; peer stream opened, retired | `flow.rs:277-392` |
| Stream (`WebrtcStream`, `Shared`) | inbound buffer, terminal frames of both sides, cancel, retirement | write, close, shutdown, reset, read, cancel; writer task; frame callback; channel close; retirement | `stream.rs` |
| Connection (`WebrtcConn`) | `HelloState`, `IncomingQueue` | HELLO exchange, control messages, open, accept, close, fatal, HELLO timeout | `conn.rs` |
| Close state | `closed`, `err`, a `Notify` | mark (by up to five tasks), wait, err | `conn.rs:36-80` |
| Datagrams | a bounded inbound buffer | send, receive | `conn.rs` |
| Codecs, error codes | none | frames, control messages, the code registry | `framing.rs`, `error.rs` |
| Listener | `Entries`: peer connections by ufrag, inboxes by address; QUIC's inbox; the accept queue | route, create and remove peers, hand over, accept, close | `listener.rs` |
| Identity | a key file | load or create, write | `cert.rs` |
| Dialer | the peer connection | builds SDP, waits for HELLO, observes the transport's state | `webrtc_client.rs`, `ice.rs` |
| QUIC transport | none of its own | maps the API and its error codes to a QUIC library | `quic.rs` |
| Addresses | none | format and parse | `address.rs` |
| Go and TypeScript libraries | as above | as above | `libs/go`, `libs/js` |
| Command-line tools, chat demo | applications | | `libs/rust/kps-*`, `demos/chat` |

### How they interact

* An application's **write** reserves credit (`poll_reserve`), queues a DATA
  frame, and a per-stream **writer task** hands it to the data channel and only
  then commits the credit. FIN follows the DATA queue; RESET, STOP_SENDING and
  MAX_STREAM_DATA take a second queue that overtakes it.
* The peer's **frame callback** checks the receive limits, buffers or discards,
  and wakes the reader. Bytes read or discarded are reported to `on_consumed`,
  which past half a window moves the limit and advertises it: MAX_STREAM_DATA on
  the stream's own channel, MAX_DATA and MAX_STREAMS on the control channel.
* When both write halves have sent their terminal frame and the buffer is empty
  a stream asks for its channel to be closed; when the channel is closed it
  **retires** and its slot returns to the peer.
* A **connection** is established when HELLO has been sent and received. Streams
  observed earlier are staged. Every violation, lost channel and timeout goes to
  `fatal`, which conveys a code and closes the transport; whichever task ends the
  connection first **marks** it closed, with its reason, and wakes the observers,
  among them a watcher that fails whoever waits for credit.
* The **listener**'s pump task owns the UDP socket. It routes a packet by source
  address, else by the ufrag of a STUN message, for which it creates a peer
  connection, else to QUIC. The peer connection's state callback hands the
  connection over to `accept` once HELLO is through, and removes the routes at the
  end. The listener's certificate comes from the **identity** file, whose hash
  clients pin.

All of this state is shared between tasks that run on several threads, under
short locks and atomics that are never held across an await.

### What is hard

Steps of two tasks between two locks (`cancel_read`, `poll_shutdown`,
`handle_incoming`, `send_hello`, `reserved_channel_lost`, the pump); an await
between an effect and its record (`dc.send` and `commit`, `dc.send` and
`local_terminal_sent`); calls and streams dropped at an await by an application
that wraps them in a timeout, as `api.rs:5` tells it to, with a grant of credit in
hand; frames of different channels overtaking each other; wake-ups that keep no
permit; u64 subtractions; the HELLO timeout; a flag published before the value it
announces; the end of one peer connection overtaking the registration of another; a
crash between truncating and writing a file. `PROJECT.json` lists each hazard at its
line with the properties that would catch it.

### What makes each component correct

* **Byte credit.** No subtraction wraps; a conforming peer is never convicted of
  a credit violation; connection credit is neither lost nor returned twice; the
  receiver buffers at most a window; nobody sleeps past his credit, and the
  half-window rule starves nobody; a stream given up earns no more credit.
* **Stream.** Frames leave in protocol order; end of file means every byte; a terminal
  decision has exactly one terminal frame on its way; STOP_SENDING is answered, with
  RESET if nothing was sent; the slot returns only when the wire is silent, and it
  does return.
* **Connection.** No stream surfaces before HELLO; two conforming endpoints never
  accuse each other; no waiter is forgotten, nor left behind on a connection that is
  closed; the handshake ends; a teardown reaches the other end; one reason wins,
  whole, and every observer learns it.
* **Codecs.** Exactly the encoders' messages are accepted, with their values; a code
  means the same on both transports.
* **Listener.** A bound address keeps its route; an ended peer connection takes its
  routes with it; a connection is accepted once; close stops everything.
* **Identity.** A key that is in the file is not replaced, and the certhash is stable
  over restarts. How far the code keeps this is in sections 3 and 4.

## 2. The modules

| Module | Models | Extends or composes |
|---|---|---|
| `CreditFlow` | byte credit, one direction of a connection | |
| `WriteHalf` | one write half: grant, queue, writer task | |
| `StreamLifecycle` | both ends of a stream | implements `ByteStream` |
| `ByteStream` | abstract: what a stream promises | |
| `Connection` | both ends of a connection: handshake, slots, teardown | |
| `Framing` | codecs and error codes, as operators | |
| `Surface` | how a connection ends and who sees it; datagrams | extends `Framing` |
| `Listener` | the demultiplexer, accept and close | |
| `Identity` | the key file | |
| `CreditFlowProofs`, `WriteHalfProofs`, `StreamLifecycleProofs`, `ConnectionProofs`, `FramingProofs`, `SurfaceProofs`, `ListenerProofs`, `IdentityProofs` | theorems | extend the module they are named after (`SurfaceProofs` also `FramingProofs`) |

Each module models one concern and leaves the others out. Every handler is an
action named as in the source; where the source releases a lock or awaits in the
middle, the handler is several actions and the state between them is explicit. A
definition with the comment *Mutant* is a faulty variant of the definition that
follows it; no specification uses it. `MC...` modules give TLC the sets that
configurations name; `...Proofs` modules hold the theorems and the invariants that
only the proofs need.

### CreditFlow (`flow.rs`, and the callers in `stream.rs`)

One direction of a connection: one endpoint sends, the other receives; any set
of streams. Variables keep the source's field names (`conn_sent`,
`send_reserved`, `peer_max_explicit`, `local_max`, `advertised_at`, ...).

* The writing task is `idle`, at its first lock (`poll`), at the flow lock
  (`reserve`) or `parked`. `poll_reserve` fails, grants or parks it;
  `wake_locked` makes every parked task poll again.
* Granted bytes sit in `send_reserved`. `send_data` puts them on the wire,
  `commit` moves them to `send_sent` later, `release` gives them back when a
  reset discards them. A stream's queue is the number of bytes in it, so the
  writer task may cut it into frames anywhere: more behaviours than the code
  has, never fewer. After a reset any of the bytes not on the wire may be
  released, also by the writing task that still holds a grant.
* DATA in flight is the interval from `received` to `wire`. `on_data_received`
  checks both limits and would set `fatal`; `push_data` buffers or discards;
  `on_consumed` is called by the reading task (`app_hand`) and the callback
  (`cb_hand`), which interleave. The limit it returns stays in the caller's hand
  (`app_advert`, `cb_advert`) until the caller queues it, which the code does after
  the flow lock is released.
* MAX_DATA is a FIFO (`control_q`); MAX_STREAM_DATA is a set per stream (`credit_q`),
  because two tasks queue their limits in any order. HELLO and the data channels are
  not ordered.
* `cancel_read` is its three steps: the stream's lock, `mark_cancelled`, and
  STOP_SENDING after the discarded bytes are accounted for.

### StreamLifecycle (`stream.rs`)

Both endpoints of one stream. Per endpoint: the `State` struct, the application
(which calls by `&mut self`, so one call at a time), the writer task with its
two queues, the task that closes the channel, and the callback. `hand` is the
writer task's frame and whether `dc.send` has taken it: `writer_send` and
`writer_sent` are the two sides of the await. `maybe_retire` is part of every
action whose handler calls it. A DATA frame is one unit and credit is left out.
The data channel is external: ordered, reliable; its close travels behind the
frames sent before it and is echoed (SCTP stream reset).

### ByteStream, and the refinement

`ByteStream` is the promise of the `Stream` trait (`api.rs`) whatever carries it:
in each direction the reader gets what was written, then end of file if the writer
finished, or an error if its write half was reset; a write half is reset only by
its own application or because the reader cancelled. `StreamLifecycle` keeps what
was written and read under the same names and maps `write_half` to `local_terminal`
(open while `poll_shutdown` may still undo its claim) and `read_half` to what the
reader was told. `ImplementsByteStream` is `ByteStream`'s specification under this
mapping, checked by `life_ends`. It covers end of file (no byte is missing), no
read past what was written, and no error without a cause.

### WriteHalf (`stream.rs`, with `flow.rs` as one window)

The application's call is a program counter through `poll_write`: the stream's
lock, `flow.poll_reserve`, `data_poll_tx.poll_reserve`, with `pending_grant` kept
over every `Pending`. It can be dropped wherever it waits, and so can the stream.
The writer task starts in `wait_open`, selects the lifecycle queue first, gives up
on a closed channel, and separates `dc.send` from `commit`. STOP_SENDING, the
channel's close and `fail_send` are callbacks of two steps (the stream's lock, then
the flow's). `drop_stream` removes the flow's entry.

### Connection (`conn.rs`, the slots of `flow.rs`)

Both endpoints from the opening of the control channel. `task` holds the program
counters of `send_hello`, `on_control`, the watcher, `open_stream`,
`handle_incoming` and `accept_stream`; the flags of `HelloState` are read and
written in separate steps where the code does so. Streams are counted, slots are
the code's counters. `ending` is the set of teardown tasks at work
(`send_close_and_flush`, then mark and close). A transport that the peer took down
is noticed in any order by the state callback, the reserved channels and the
streams. The hop through the control-writer task is merged into the sending of
MAX_STREAMS, and `CloseState::mark` is one step, as `Surface` takes it apart.

### Surface and Framing (`conn.rs`, `framing.rs`, `error.rs`, `quic.rs`)

`Framing` has both decoders and every encoder as operators. A message is its type
byte, its length and the integers in its fields; `Messages` holds every type, known
or not, with every legal length (1, 5, 9, 26 and DATA up to the frame size) and the ones
next to it, and with values up to and beyond each limit.

`Surface` is one endpoint. Five tasks may end the connection: the application, the
control channel's callback, the task that `fatal` spawns, the loss of a reserved
channel, the transport's state callback. Each sets `tearing_down` where the code
does, and then takes the three steps of `CloseState::mark`: claim `closed`, store
`err`, notify. An observer takes those of `CloseState::wait`: register, look, sleep,
then read `err`. All of `Messages` arrives, each at the start, and a few also at any
later time. `on_control` ends the connection wherever the code does: on a malformed
message, a second HELLO, credit before the first (`received` remembers it), a HELLO of
another version, and Close; the limits in HELLO and the credit messages act on are
`CreditFlow`'s and `Connection`'s. A code of WebRTC is below `CodeRange`, which stands
for 2^32; one of QUIC below the larger `QuicRange`, 2^62, and `normalize_close` keeps
its remainder. The datagram channel loses and reorders; the buffer drops what arrives
when it is full.

### Listener (`listener.rs`)

The pump is a program counter: at its select, with a peer connection that
`spawn_pc` has made but not registered (`spawn`), and registered but not bound
(`bind`); between them the `Entries` lock is free. Peer connections connect, connect
again, fail and close at any time, and their callbacks run later, in steps of their
own. `notified` is the permit-less notification of `close`. QUIC is its inbox, its
accept loop, and connections that arrive.

### Identity (`cert.rs`)

Processes run `load_or_create` on one file: read, decide, truncate, write. `disk` is
the file as processes see it; `durable` is the set of contents that a loss of power
may leave, since nothing is synced. A crash may tear the write after the key's
block. The file is missing at first, or a legacy file with a key only. `held` is every
key the file has held, and `overlap` what a start has found while another one was about
to write: no file, or a key without a certificate.

## 3. The runs

Bounds are constants of the configurations; sets such as `Closing`, `Slow` or
`Abandoners` say which application, clock or network may do what.

| Run | Instance | Checks |
|---|---|---|
| `credit_live` | 1 stream, windows 4 and 5, offsets to 10, writes of 2; may be cancelled; fair | `NoFalseViolation`, `NoCreditDeadlock`, `BoundedUnread`, `WriteCompletes` |
| `credit_shared` | 2 streams, windows 1 and 2, offsets to 3; the second is closed, reset, cancelled or abandons a write, and both fail | `TypeOK`, `NoFalseViolation`, `NoLostWakeup`, `WithinCredit`, `CreditConserved`, `NoCreditAfterStop` |
| `write_half` | writes of 0 to 2 bytes, 3 bytes of credit, queue of 1, one dropped call; fair | `GrantAccounted`, `FinComplete`, `WriteEnds`, `FinSent`, `StopAnswered` |
| `life_ends` | 2 writes each way, queue of 1; one end uses `poll_shutdown`, the other cancels, resets and drops a waiting `close_write`; fair | `NoProtocolError`, `TerminalOnItsWay`, `RetiredIsSilent`, `MidStreamWindow`, `ImplementsByteStream`, `Retires`, `FinReachesReader` |
| `conn_handshake` | 2 streams, 1 slot; HELLO timeout, dropped `open_stream`, streams ended unaccepted, equal and different wire versions | `NoFalseAccusation`, `SurfacedAfterHello`, `VersionWindow`, `NoLostAccept`, `NoLostSlotWakeup` |
| `conn_live` | an `open_stream` that waits for a slot, a peer that may close; fair | `Settles`, `TeardownPropagates` |
| `surface_end` | 5 tasks, 1 observer, every message, 1 datagram; fair | `FirstReasonWins`, `NotifiedKnows`, `CloseNotBlamed`, `DecodersFaithful`, `EndIsSeen` |
| `listener_routes` | 2 addresses, 2 ufrags, 2 peer connections, 1 QUIC connection, accept queue of 1, 1 close | `SurfacedOnce`, `LostOnlyToNamesake`, `StaleOnlyByPump`, `BoundAddressKept` |
| `identity_crash` | 2 processes, 2 crashes, 1 loss of power, 3 fresh numbers for keys and certificates | `StableAcrossRestarts`, `KeySurvives` |
| `conn_stranded` | a stream opened while the handshake completes | violates `NoneStranded` |
| `conn_timeout` | 1 slot, 2 opens, a HELLO timeout; fair | violates `OpenEndsAtTeardown` |
| `listener_close` | 1 client, a listener that closes once; fair | violates `CloseStops` |

Every module states its types in `TypeOK`, and for every module it is proved. A run
checks it where it bounds a counter that could wrap (`CreditFlow`). `SettledStays` of
`Identity` is proved only.

**Why the bounds are enough.** In `credit_live` windows of 4 and 5 make half a window
two bytes, so a limit is held back until two are consumed; ten bytes take several
grants at each level, which reorder, before `MAX_OFFSET` is reached and
`WriteCompletes` allows a write to wait. With one stream nobody takes the connection's
credit; `credit_shared` has the second one, whose bytes are discarded and given back
in every way the code has, and whose window is half of the connection's, so that
either level can be what a write waits for. There two limits per stream, out of order,
fit up to `MAX_OFFSET`. A queue of 1 with two writes makes a write wait with its
grant, a close wait, an undo happen and a reset find DATA queued; a dropped write of 2
bytes and a next one of 1 make the held grant too long. In `life_ends` one
end cancels and resets and the other does not, so that each is met with a peer that goes
on; that both do it at once is covered by the theorems. One slot and two opens make
`open_stream` wait for a retirement. In `Surface` the numbers in a message stand for
ranges: each range has members on both sides of its limit. One observer is enough, as
observers do not see each other,
and one datagram, as no property is about the buffer. Two peer connections can be namesakes, two addresses
can belong to one, and an accept queue of 1 makes the second hand-over wait. Two
processes are enough to overlap, and two crashes to interrupt also the repair of the
first. The HELLO timeout is on at the end that does not open in `conn_handshake`, so
that the wait for a slot meets only what should end it, and at the end that does in
`conn_timeout`. Deadlock is not checked: a stream that has retired, a write at the end
of the offsets, a closed connection, a closed listener and a server that fails to
start really stop. `listener_routes` uses the symmetry of addresses and of ufrags; it
checks no liveness.

**Fairness.** Every fair action is a step of a task that tokio polls once it is
woken, or a delivery by a reliable transport; in `StreamLifecycle` and
`CreditFlow` the application also goes on reading, and in `WriteHalf` the peer the peer gives
credit as long as it has neither stopped the stream nor lost the channel. A poll of
`poll_shutdown` goes through, as it does not await between its two locks. What an as it has neither stopped the stream nor lost the channel. What an
application may or may not do (write, close, reset, cancel, open, drop a call),
timeouts, packets and failures are never fair. The wake-ups themselves are not
assumed: a parked task has no fair action, and runs again only if some action wakes
it. In `Surface` the tasks that mark are fair together, which suffices as each takes
few steps. For `CloseStops` the pump, the callbacks and `close` itself are fair, and
the counterexample stands.

**Mutants.** `PROJECT.json` names for every property a plausible bug of the code
(credit events that wake nobody, a reservation not counted, FIN reported before
the buffered data, a flag tested and set in two steps, routes that outlive their
entry, ...) under which the same run refutes it.

## 4. Where the code and its documentation differ

Three runs exhibit a behaviour that a comment excludes:

1. **`conn_stranded`.** `handle_incoming` reads `is_established` and stages later
   (`conn.rs:453`); the flush may run in between and is never repeated, so that
   `accept_stream` never returns the stream (`conn.rs:142` says it is surfaced at
   establishment).
2. **`listener_close`.** The pump creates `shutdown.notified()` anew at each turn and
   `close` calls `notify_waiters`, which leaves no permit (`listener.rs:242`). A pump
   that is in `spawn_pc`, or that finds a packet at the same poll, never learns of
   the close, and registers a peer connection that `close` has passed over
   (`listener.rs:214` says all of them are closed).
3. **`conn_timeout`.** The watcher returns after the HELLO timeout without `flow.fail`
   (`conn.rs:342`). If the handshake completes as the timeout fires, an `open_stream`
   gets past `wait_established` and waits for a slot for ever (`flow.rs:280` says it
   cannot hang past teardown). `NoLostSlotWakeup` is what holds: it waits only while
   `flow.fail` has not run, and without the timeout the watcher is there to call it.

Three more are confined by a property that states exactly how far they go:

* **`MidStreamWindow`.** `local_terminal_sent` is recorded after the await of
  `dc.send` (`stream.rs:440`). The peer can receive our FIN, send its own, and
  close the channel before that; `on_channel_close` then fails the whole
  connection with "data channel closed mid-stream", after an exchange that
  `SPEC.md:464` calls graceful. There is no other way to that error.
* **`VersionWindow`.** `hello.received` is set before the version is examined
  (`conn.rs:401`), and `send_hello` may establish a connection that is being
  refused (`SPEC.md:587`). Its refusal is then already under way.
* **`NotifiedKnows`.** `CloseState::mark` publishes `closed` before `err`
  (`conn.rs:48`): an observer that finds the flag by itself may read no error and
  take a failure for a clean end. One that slept until it was notified does not.

Others are behaviours of the models that a property is careful about, or were
met while reading; no run is kept for them.

In `flow.rs` and `stream.rs`:

* `consumed` queues a limit after the flow lock is released (`stream.rs:214`), so one
  MAX_STREAM_DATA may follow `cancel_read` and its STOP_SENDING, which `SPEC.md:412`
  forbids. `NoCreditAfterStop` states what does hold: from `mark_cancelled` on the limit
  is frozen, and only the grant that the callback already held is still queued. DATA
  discarded between the two locks of `cancel_read` earns that grant.
* A write of an empty buffer asks for 0 bytes and parks for ever (`flow.rs:223`);
  `WriteEnds` is about writes of at least a byte.
* A grant held across `Pending` is used for the next write even if its buffer is
  shorter, and then `buf[..n]` panics (`stream.rs:558`). `GrantAccounted`: only a
  dropped write leads there.
* The comment at `stream.rs:554` has a held grant released on failure or drop; the
  errors at the top of `poll_write` keep it, until the stream is dropped.
* STOP_SENDING that finds FIN decided but still queued is ignored (`stream.rs:188`):
  `local_terminal` is set before any frame is handed over. The comment below it and
  `SPEC.md:290` ask for RESET. `StopAnswered` states what does hold: a STOP_SENDING that
  finds the write half open is answered with RESET, and with nothing else.
* `poll_shutdown` may undo the decision for which a STOP_SENDING was ignored
  (`stream.rs:605`), so that an open write half is left unanswered. `WriteHalf` has no
  `poll_shutdown`, and `StreamLifecycle` has no property about the answer: `SPEC.md`
  knows of no undo.
* A `close_write` dropped while it waits for room leaves a write half marked
  finished without FIN (`stream.rs:632`), hence the exemption of `Abandoners` in
  `TerminalOnItsWay`; the properties about FIN start from one that is queued.
* A dropped stream ends the writer task once its DATA queue is empty
  (`stream.rs:456`), and a STOP_SENDING after that is never answered: the slot is not
  returned. It is the one exemption in `StopAnswered` besides a closed channel.
* A writer task that ends takes the grants in its queue with it; they stay charged
  to the connection until `drop_stream` (`GrantAccounted`).

In `conn.rs`:

* `hello.sent` is set before HELLO is sent (`conn.rs:376`), so a connection can
  be established a moment too early.
* An `open_stream` dropped while it creates its channel keeps its slot
  (`conn.rs:536`).
* Slots return without an accept when the peer ends its streams itself, so the
  accept queue may hold more than MAX_STREAMS streams (`conn.rs:136`).
* The state callback marks the connection closed without a reason and may do so
  before the peer's CONNECTION_CLOSE is handled, whose code is then lost.
* `reserved_channel_lost` looks and acts in two steps (`conn.rs:461`): one that looked
  before a close began may still win and report a network error. `CloseNotBlamed` is
  about an application that was first to begin.
* A full buffer drops the datagram that arrives (`conn.rs:222`), where `api.rs:51` and
  `SPEC.md:533` promise to drop the oldest. `buffered` does what the code does, and no
  property vouches for it.
* After a local `close_with_error` `err()` is `Some` on WebRTC and `None` on QUIC.
* QUIC's 62-bit code is cut to 32 bits before it is looked up (`quic.rs:232`): a code
  that no registry holds can be read as one it does, even as a clean close, where
  `error.rs:10` maps it to `InternalError`. `DecodersFaithful` states what does hold:
  the low 32 bits mean what they mean on WebRTC.

In `listener.rs`, `quic.rs` and `cert.rs`:

* The Go listener holds one lock over look-up, creation and insertion; the Rust one
  takes it for each (`listener.rs:280`). A peer connection that ends in between is
  registered afterwards and stays: its ufrag and address route into a dead inbox
  for good. `StaleOnlyByPump`: nothing else leaves such entries.
* `remove_ufrag` removes by name (`listener.rs:80`): the late end of an old peer
  connection removes the routes of a newer one of the same ufrag, which `close` then
  misses (`LostOnlyToNamesake`).
* An error after the peer connection is made leaves it unclosed, to its HELLO
  timeout.
* The stream's `closed()` of the QUIC transport does not resolve on a graceful end
  or when the connection is lost (`quic.rs:275`).
* The identity file is truncated and then written, without a temporary file or
  fsync (`cert.rs:171`): a crash in between leaves a file with which the server does
  not start, and a loss of power may leave no file, so that the next start brings a new
  key.
* Two starts that find no file both generate an identity and write it (`cert.rs:94`);
  the second truncates what the first has written and serves, so that the first one's
  certhash is gone at the next start (`cert.rs:76` has it byte-stable). `KeySurvives`
  and `StableAcrossRestarts` exempt exactly this.

## 5. What is proved

Every invariant and every safety action property that a run checks is a theorem, for
every value of the constants. So is the refinement. Eight modules hold the proofs,
named after the module they are about; TLAPS checks them without assumptions other
than those that the modules state of their constants.

| Module | Theorem | Statement |
|---|---|---|
| `CreditFlowProofs` | `TypeCorrect` | `Spec => []TypeOK`: every counter is a natural number, so no u64 subtraction wraps |
| | `CreditRespected` | `Spec => []WithinCredit` |
| | `NoConformingPeerRejected` | `Spec => []NoFalseViolation` |
| | `Conservation` | `Spec => []CreditConserved` |
| | `Bounded` | `Spec => []BoundedUnread` |
| | `Invariance` | `Spec => []IInv` |
| | `NeverSleepsOnCredit` | `Spec => []NoLostWakeup` |
| | `NoThresholdDeadlock` | `Spec => []NoCreditDeadlock` |
| | `NoCreditOnceStopped` | `Spec => NoCreditAfterStop` |
| `WriteHalfProofs` | `TypeCorrect`, `Invariant` | `Spec => []TypeOK`, `Spec => []IInv` |
| | `EveryByteHeld` | `Spec => []GrantAccounted` |
| | `FinIsTheTruth` | `Spec => []FinComplete` |
| `StreamLifecycleProofs` | `TypeCorrect`, `Invariant` | `Spec => []TypeOK`, `Spec => []IInv` |
| | `NeverConvicted` | `Spec => []NoProtocolError` |
| | `ClosedEarlyOnlyInHand` | `Spec => []MidStreamWindow` |
| | `RetiredSilent` | `Spec => []RetiredIsSilent` |
| | `TerminalPlaced` | `Spec => []TerminalOnItsWay` |
| | `Implements` | `Spec => ImplementsByteStream` |
| `ConnectionProofs` | `TypeCorrect` | `Spec => []TypeOK` |
| | `NeverAccused` | `Spec => []NoFalseAccusation` |
| | `HelloFirst` | `Spec => []SurfacedAfterHello` |
| | `NoDowngrade` | `Spec => []VersionWindow` |
| | `AcceptNeverStuck` | `Spec => []NoLostAccept` |
| | `OpenNeverStuck` | `Spec => []NoLostSlotWakeup` |
| | `NoStreamLost` | `Spec => []StreamsKept`: each inbound stream counted is staged, queued, accepted or in hand |
| `FramingProofs` | `ControlDecoded`, `StreamDecoded` | each decoder accepts the encoders' messages, reads their values back, refuses all others |
| `SurfaceProofs` | `TypeCorrect` | `Spec => []TypeOK` |
| | `OneReason` | `Spec => []FirstReasonWins` |
| | `ObserversTold` | `Spec => []NotifiedKnows` |
| | `NotBlamed` | `Spec => []CloseNotBlamed` |
| | `DecodersAgree` | `Spec => []DecodersFaithful` |
| `ListenerProofs` | `TypeCorrect` | `Spec => []TypeOK` |
| | `RouteNeverMoves` | `Spec => BoundAddressKept` |
| | `PumpAloneLeavesStale` | `Spec => StaleOnlyByPump` |
| | `CloseMissesOnlyNamesakes` | `Spec => []LostOnlyToNamesake` |
| | `AcceptedOnce` | `Spec => []SurfacedOnce` |
| `IdentityProofs` | `TypeCorrect` | `Spec => []TypeOK` |
| | `KeyNeverReplaced` | `Spec => []KeySurvives` |
| | `StableCerthash` | `Spec => []StableAcrossRestarts` |
| | `SettledForGood` | `Spec => SettledStays` |

Every proof has the same plan: an inductive invariant, which holds initially (one
lemma), is kept by every step (one lemma for each of its parts or for each action),
and implies the property. TLC checked each inductive invariant on the small instances
before it was proved.

### CreditFlow

For any finite set of streams, any windows and offsets and any behaviour of the
applications.

**Assumptions.** `StreamsAssumption` (finitely many streams) and
`LimitsAssumption` (windows between 0 and `MaxOffset`, frames of at least a byte).

**The argument.** None of the properties is inductive. That the receiver does not
reject DATA needs to know that DATA on the wire was reserved, that reservations
stay below the limit the sender knows, and that this limit, wherever it is in
flight, is below the one enforced. `IInv` is that chain at both levels:

    advertised_at <= consumed;  consumed + unread <= received <= wire <= sent + reserved
                  <= the sender's limit <= every limit in flight's bound = local_max

with `local_max = sat(advertised_at + window)` (`StreamChain`, `ConnChain`), and
`CreditConserved`, which connects the levels: a connection's counter is the sum of
its streams'. The sum is a cardinality (`Total` counts the cells below a function),
so that one stream's change moves the sum by the same amount; this is proved once,
with the library's facts about finite sets, and used by every action. `wire`
lies between `send_sent` and `send_sent + send_reserved` because `commit` lags
behind the wire. `BoundedUnread` then follows from `received <= local_max` and
`advertised_at <= consumed`.

There is one lemma per action for the parts it can disturb, and one theorem that
combines them.

`IInv` bounds limits from above. That nobody waits in vain needs the other direction:
a limit that the receiver enforces is known to the sender or on its way. `Waiting`
says so, next to `IInv`. `Counted`: until its terminal frame is handled every byte of
a stream is consumed or in somebody's hands, and less than a threshold is consumed
without being advertised. `Told` and `ConnTold`: a limit that was raised is in flight,
or is not above what the sender has stored; for MAX_DATA because the last in the queue
is the highest, for MAX_STREAM_DATA because the sender keeps the maximum. `Parked` is
`NoLostWakeup` itself. `EndsInOrder`, `StopInOrder` and `Known` say in which order a
stream ends, since after that bytes are discarded and nobody waits. A limit in a
caller's hand counts as on its way in `Told`, and is bounded like one in flight in
`StreamChain`; `NoCreditAfterStop` needs `StopInOrder`, by which the reading task has
no limit left in hand once its own `cancel_read` has run, which leaves the callback's.
When the connection is quiescent and everything is consumed, the stored limit is
therefore the enforced one, which is a window ahead of the last advertisement, of
which less than a threshold is used (`LimitAhead`): a blocked write has room.
`threshold(w) <= w` is what this rests on, and windows of 0 are excluded by the
property.

### WriteHalf

For any longest write, any credit, any capacity of the DATA queue and any number of
dropped calls (`WriteHalfAssumption`: natural numbers, the queue has room for one).

`IInv` is a ledger with three accounts. Reserved credit is in the pending grant, the
queue or the writer task's hand (`HeldInv`); what a write returned as accepted is on
the wire, in the queue or in hand (`BytesInv`); what is sent and what is on the wire
differ by the frame whose `dc.send` has yet to return, and sent plus reserved stays
within the limit (`CreditInv`). They are equalities while the task runs and nothing
was dropped, inequalities after that. `GrantInv` and `RoomInv` say when a grant is
held and that a write fits in it, unless the application has dropped a call
(`GrantAccounted` is about that slice). `FinInv` says that FIN is in one place, last
in its queue, and on the wire only when nothing that was accepted is behind it;
`TermInv` which calls can follow. None of them is inductive alone: `FinComplete` is
`BytesInv` in the state in which FIN leaves, when `FinInv` says that the queue is
empty, and `HeldInv` needs `RoomInv` and `GrantInv` for the size of what is held. A
queue's bytes are counted by `Cardinality`, and two lemmas (`SumAppend`, `SumTail`)
say what an append and a take do to the count.

### StreamLifecycle, and its refinement of ByteStream

For any number of writes, any capacity of the queue and any choice of what each
application may do (`LifecycleAssumption`).

`IInv` follows each endpoint's terminal frame from the claim in `local_terminal`,
through a queue and the writer task's hand, to the channel and the peer's
`peer_terminal`. It is in one place at most (`TerminalInv`) and in one at least
(`PlacedInv`), unless a `close_write` was dropped. The channel holds it, or it has
arrived, exactly when the writer task has handed it over, and no DATA is behind it
(`WireInv`): hence `NoProtocolError`. An endpoint closes the channel only after its
own terminal frame is recorded as sent and the peer's has arrived, so CLOSE is the
last thing to travel (`CloseInv`): hence `RetiredIsSilent`, and `MidStreamWindow` is
what remains when it arrives before the record is made. Between the writer's count and
the reader's no DATA is missing before a reset or a cancelled read (`CountInv`).

`Implements` follows with `CountInv` and `ReadInv`: the initial state maps to an initial
state, and each action is a step of `ByteStream` in one direction or a stutter. End of
file is read only with an empty buffer after FIN, when the count says that all that was
written has been read. The proof goes by what an action does at its own endpoint
(`At_<action>`), what it leaves alone at the other, and one lemma for each part.

### Connection

For any limit of streams, any number of opens, any wire versions and any choice of who
opens, closes, drops calls and times out (`ConnectionAssumption`).

`HelloInv` says that the flags of the handshake only move forward and that streams are
flushed or surfaced only once it is complete: `SurfacedAfterHello`. `SlotInv` is the
chain of slots, as for credit: what an opener has opened or reserved is below the
limit it knows, which is below the one the other end enforces, and each channel it
opened is in flight or counted there. `WireInv` is about the control channel: one
HELLO, taken once, nothing before it that needs it, no advertisement above what is
enforced, no close that accuses. Together they make every check for a violation
vacuous between two endpoints of this code (`NoFalseAccusation`). `RefusalInv`: from
the moment a peer's HELLO of another version is taken it is being examined, refused or
closed. `NoLostAccept` and `NoLostSlotWakeup` are inductive with these, the latter
with `WatcherInv`: a watcher that has ended has failed who waits, or timed out. And
`StreamsKept` counts each inbound stream once.

### Framing and Surface

For any limits, messages, observers, datagrams and codes (`FramingAssumption`: the
registry fits the code's range and offsets fit the field; `SurfaceAssumption`).

The decoders are compared with the encoders by listing, for each type and each length,
which messages arrive and which are legal; no recursion is involved. `IInv` of
`Surface`: one task has claimed a closed connection and none an open one
(`OneWinner`); `err` is that task's reason, or not there yet (`ReasonInv`); nobody is
notified before it is there (`ToldInv`). `CloseNotBlamed` needs `BeganInv`: which
tasks can have begun follows from who was first, because `tearing_down` stops those
that react to failures.

### Listener

For any sets of addresses and ufrags and any number of peer connections, QUIC
connections and calls of close (`ListenerAssumption`: the bounds are natural
numbers, the accept queue has room for one, `NoUfrag` is no ufrag).

`RouteInv` is what the pump relies on between its look-ups and its inserts, when it
does not hold the lock: it alone inserts, everyone else only removes. Hence the
address it is about to bind is still unbound, the ufrag it is about to register is
still free, and each ufrag leads to a peer connection of its own (`PumpOwns`,
`Routes`, `Bound`); `Numbered` says that peer connections are numbered as they are
made. `RouteNeverMoves` and `PumpAloneLeavesStale` follow for each step.
`LostOnlyToNamesake` needs more (`LostInv`): a registered peer connection is the
newest of its ufrag, as otherwise the end of a newer one could remove it; a callback
is due only for one that has ended, as otherwise its own end could remove it while it
is open; and `close` has peer connections in hand only while it closes them, as
otherwise a second drain would forget some. `SurfacedOnce` is inductive with the types:
what an append and a take do to a connection's places in the accept queue is a lemma
each (`PlacesAppend`, `PlacesTail`).

### Identity

For any set of processes and any number of crashes and losses of power
(`IdentityAssumption`). `KeyInv` extends `KeySurvives` in its two cases. With a key in
the file at first, it extends it to what a loss of power may leave and to what a
process is about to write (`OriginKept`). Without, to who is about to write: while
there is no file nothing was held or served, and the one start that finds it so brings
the only key (`OneKey`). `OneWriter` says why starts that do not overlap agree: at
most one process is writing, it writes a complete identity over a file without one,
and before any was served. `SettledForGood` needs no invariant beyond the type: with a
complete file nobody starts to write.

### Only model-checked

Liveness under fairness is out of the prover's reach: `WriteCompletes`, `WriteEnds`,
`FinSent`, `StopAnswered`, `Retires`, `FinReachesReader`, `Settles`,
`TeardownPropagates` and `EndIsSeen` hold on the instances of section 3. The safety
that they rest on is proved: no wake-up is lost (`NoLostWakeup`, `NoLostAccept`,
`NoLostSlotWakeup`), credit is not withheld (`NoCreditDeadlock`), a terminal frame is
always somewhere (`TerminalOnItsWay`). That the three violations of section 4 occur is
shown by the traces of their runs.

## 6. What is not modelled

* The contents of payloads; wire messages below the level of type, length and fields.
* In `stream.rs`: `closed()` and `err()` of a stream, `close` and `close_with_error`,
  which compose operations that are modelled.
* In `conn.rs`: `send_datagram`, which hands its bytes over and keeps no state. A
  transport that is lost without anyone's doing is in `Surface`, not in `Connection`.
* In `listener.rs`: STUN parsing, the certificate and SDP of each peer connection,
  what a peer connection reads from its inbox, `accept` after the listener has ended.
* QUIC streams and credit: the QUIC library's. Of `quic.rs` the mapping of the peer's
  code and the listener's accept loop are modelled.
* The dialer beyond its state callback, addresses, the command-line tools and the
  demo: they format and parse, call libraries and do input and output.
* Go and TypeScript: further implementations of the same protocol, each with a
  concurrency of its own (goroutines and blocking locks; a single thread), for which
  the modules here could be specialised.
* The WebRTC library, the QUIC library, tokio's primitives and the file system are
  external, modelled from how the code uses them.

## 7. Plan

Done, in this order: byte credit and its proofs, the stream's lifecycle, the
connection; then the write half, the abstract byte stream and the refinement, the
close state with its observers, datagrams and codecs, the listener, the identity
file; then proofs of every safety property of every module and of the refinement.

Next:

* an abstract credit counter (a window granted and used, without messages) that
  `CreditFlow` implements, per stream and for the connection, with a proof like that
  of `ByteStream`;
* `WriteHalf` as an implementation of the sending side that `StreamLifecycle` and
  `CreditFlow` assume: a byte accepted is a byte queued, in order;
* the safety halves of the liveness properties, such as the steps that remain for a
  terminal frame to be sent, as invariants that can be proved;
* the Go listener, whose one lock removes the stale routes.
