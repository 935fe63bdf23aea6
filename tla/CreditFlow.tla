----------------------------- MODULE CreditFlow -----------------------------
(***************************************************************************)
(* The two-level byte credit of KPS over WebRTC (SPEC 6.5), one direction  *)
(* of one connection: the sending half of one endpoint's ConnFlow           *)
(* (libs/rust/kps/src/flow.rs), the receiving half of its peer's, the       *)
(* stream code that drives them (libs/rust/kps/src/stream.rs) and the       *)
(* channels between them.                                                   *)
(*                                                                          *)
(* What runs concurrently, and is interleaved here at every lock:           *)
(*   - per stream, the writing task (poll_write), the writer task that      *)
(*     hands frames to the transport, and the callback for credit frames;   *)
(*   - per stream, the reading task (poll_read, cancel_read) and the        *)
(*     callback that takes inbound frames (on_frame);                       *)
(*   - the control channel's reader.                                        *)
(*                                                                          *)
(* Abstractions: a payload is its number of bytes; a stream's queue of      *)
(* reserved frames is the number of bytes in it, so the writer task may     *)
(* cut them into frames anywhere; DATA in flight is the interval of byte    *)
(* offsets between received[s] and wire[s].                                 *)
(***************************************************************************)
EXTENDS Integers, Sequences, FiniteSets

CONSTANTS
    Streams,        \* the streams of the connection
    MaxStreamData,  \* the receiver's FlowLimits.max_stream_data
    MaxData,        \* the receiver's FlowLimits.max_data
    MaxOffset,      \* MAX_OFFSET, 2^62 - 1 in the code
    MaxFrame,       \* MAX_FRAME_PAYLOAD
    WriteSizes,     \* the sizes of the application's write buffers
    Closing,        \* streams whose writer may close or reset them
    Cancelling,     \* streams whose reader may cancel them
    Abandoning,     \* streams whose writer may give up a blocked write
    Failing         \* whether the sender's connection may be torn down

ASSUME StreamsAssumption == IsFiniteSet(Streams)
ASSUME LimitsAssumption ==
    /\ MaxOffset \in Nat
    /\ MaxStreamData \in 0..MaxOffset
    /\ MaxData \in 0..MaxOffset
    /\ MaxFrame \in Nat \ {0}
    /\ WriteSizes \subseteq Nat
    /\ Failing \in BOOLEAN

VARIABLES
    \* ---- the sender's ConnFlow ----
    is_failed,              \* the connection's credit waits have been failed
    peer_init_stream_data,  \* from the peer's HELLO, 0 before it
    peer_max_data,          \* largest connection limit learnt from the peer
    conn_sent,
    conn_reserved,
    snd_streams,            \* ids that are keys of the sender's `streams` map
    send_sent,
    send_reserved,
    peer_max_explicit,      \* largest MAX_STREAM_DATA received
    send_failed,
    \* ---- the sender's streams ----
    writer,                 \* the writing task of each stream
    want,                   \* size of the buffer it is writing
    local_terminal,         \* "none", or the terminal frame decided on
    terminal_sent,          \* that frame is on the wire
    wire,                   \* DATA bytes handed to the transport
    \* ---- the receiver's ConnFlow ----
    local_max_data,
    conn_received,
    conn_consumed,
    conn_advertised_at,
    rcv_streams,            \* ids that are keys of the receiver's `streams` map
    local_max,
    received,
    consumed,
    advertised_at,
    cancelled,
    \* ---- the receiver's streams ----
    arriving,               \* bytes accepted by on_data_received, not yet buffered
    inbuf,                  \* bytes buffered for the reader
    app_hand,               \* bytes the reading task took out, not yet accounted
    cb_hand,                \* bytes the callback discarded, not yet accounted
    app_advert,             \* the limit the reading task has yet to queue, or 0
    cb_advert,              \* the limit the callback has yet to queue, or 0
    read_cancel,
    peer_terminal,          \* the peer's FIN or RESET has been handled
    fatal,                  \* the connection was failed for a credit violation
    \* ---- in flight ----
    hello_received,
    control_q,              \* MAX_DATA frames on the control channel
    credit_q,               \* MAX_STREAM_DATA frames of each stream
    stop_q                  \* "none", or the state of the STOP_SENDING frame

\* Groups of variables that actions leave alone together.
sndLimits == <<peer_init_stream_data, peer_max_data, peer_max_explicit>>
sndCount == <<conn_sent, conn_reserved, send_sent, send_reserved>>
sndLife == <<is_failed, snd_streams, send_failed, local_terminal, terminal_sent>>
task == <<writer, want>>
rcvLimits == <<local_max_data, conn_advertised_at, local_max, advertised_at,
               app_advert, cb_advert>>
rcvCount == <<conn_received, conn_consumed, received, consumed>>
held == <<arriving, inbuf, app_hand, cb_hand>>
rcvLife == <<rcv_streams, cancelled, read_cancel, peer_terminal, fatal>>
frames == <<hello_received, control_q, credit_q, stop_q>>
sender == <<sndLimits, sndCount, sndLife, task, wire>>
receiver == <<rcvLimits, rcvCount, held, rcvLife>>
vars == <<sender, receiver, frames>>

WriterStates == {"idle", "poll", "reserve", "parked"}
Terminals == {"none", "fin", "reset"}
StopStates == {"none", "marking", "sent", "handled"}

Max2(a, b) == IF a >= b THEN a ELSE b
Min2(a, b) == IF a <= b THEN a ELSE b

(* Every stream's entry of f, added up.                                     *)
Total(f) == Cardinality({b \in Streams \X (0..(MaxOffset - 1)) : b[2] < f[b[1]]})

-----------------------------------------------------------------------------
(* sat: credit values saturate at the largest offset a varint can carry.    *)
sat(v) == Min2(v, MaxOffset)

Zero == [s \in Streams |-> 0]
No == [s \in Streams |-> FALSE]

Init ==
    /\ is_failed = FALSE /\ snd_streams = {} /\ send_failed = No
    /\ peer_init_stream_data = 0 /\ peer_max_data = 0 /\ peer_max_explicit = Zero
    /\ conn_sent = 0 /\ conn_reserved = 0 /\ send_sent = Zero /\ send_reserved = Zero
    /\ writer = [s \in Streams |-> "idle"] /\ want = Zero
    /\ local_terminal = [s \in Streams |-> "none"] /\ terminal_sent = No
    /\ wire = Zero
    /\ local_max_data = MaxData /\ local_max = [s \in Streams |-> MaxStreamData]
    /\ conn_advertised_at = 0 /\ advertised_at = Zero
    /\ conn_received = 0 /\ conn_consumed = 0 /\ received = Zero /\ consumed = Zero
    /\ rcv_streams = {} /\ cancelled = No /\ read_cancel = No
    /\ arriving = Zero /\ inbuf = Zero /\ app_hand = Zero /\ cb_hand = Zero
    /\ app_advert = Zero /\ cb_advert = Zero
    /\ peer_terminal = No /\ fatal = FALSE
    /\ hello_received = FALSE /\ control_q = <<>>
    /\ credit_q = [s \in Streams |-> {}] /\ stop_q = [s \in Streams |-> "none"]

-----------------------------------------------------------------------------
(* The sender.                                                              *)

(* Mutant: credit events wake nobody.                                       *)
wake_locked_forgets(w) == w

(* wake_locked: every writing task parked in poll_reserve polls again.      *)
wake_locked(w) == [s \in Streams |-> IF w[s] = "parked" THEN "poll" ELSE w[s]]

(* new_stream on the sending side.                                          *)
snd_new_stream(s) ==
    /\ s \notin snd_streams /\ ~terminal_sent[s]
    /\ snd_streams' = snd_streams \cup {s}
    /\ UNCHANGED <<receiver, sndLimits, sndCount, is_failed, send_failed,
                   local_terminal, terminal_sent, task, wire, frames>>

(* fail: connection teardown ends every credit wait.                        *)
fail ==
    /\ Failing /\ ~is_failed
    /\ is_failed' = TRUE
    /\ writer' = wake_locked(writer)
    /\ UNCHANGED <<receiver, sndLimits, sndCount, snd_streams, send_failed,
                   local_terminal, terminal_sent, want, wire, frames>>

(* on_peer_hello: the peer's HELLO seeds the send limits.                   *)
on_peer_hello ==
    /\ ~hello_received
    /\ hello_received' = TRUE
    /\ peer_init_stream_data' = MaxStreamData
    /\ peer_max_data' = MaxData
    /\ writer' = wake_locked(writer)
    /\ UNCHANGED <<receiver, peer_max_explicit, sndCount, sndLife, want, wire,
                   control_q, credit_q, stop_q>>

(* A limit from the peer only ever raises the one it replaces.              *)
raises(v, limit) == v > limit

(* on_peer_max_data: a MAX_DATA frame; the control channel is ordered, so   *)
(* it follows the HELLO.  Decreases are ignored.                            *)
on_peer_max_data ==
    /\ hello_received /\ control_q # <<>>
    /\ control_q' = Tail(control_q)
    /\ \/ /\ raises(Head(control_q), peer_max_data)
          /\ peer_max_data' = Head(control_q)
          /\ writer' = wake_locked(writer)
       \/ /\ ~raises(Head(control_q), peer_max_data)
          /\ UNCHANGED <<peer_max_data, writer>>
    /\ UNCHANGED <<receiver, peer_init_stream_data, peer_max_explicit,
                   sndCount, sndLife, want, wire, hello_received, credit_q,
                   stop_q>>

(* on_peer_max_stream_data: a MAX_STREAM_DATA frame.  Two tasks of the      *)
(* receiver may queue theirs in either order, so any one may come first.    *)
on_peer_max_stream_data(s) ==
    \E v \in credit_q[s] :
        /\ credit_q' = [credit_q EXCEPT ![s] = @ \ {v}]
        /\ \/ /\ s \in snd_streams /\ raises(v, peer_max_explicit[s])
              /\ peer_max_explicit' = [peer_max_explicit EXCEPT ![s] = v]
              /\ writer' = wake_locked(writer)
           \/ /\ s \notin snd_streams \/ ~raises(v, peer_max_explicit[s])
              /\ UNCHANGED <<peer_max_explicit, writer>>
        /\ UNCHANGED <<receiver, peer_init_stream_data, peer_max_data,
                       sndCount, sndLife, want, wire, hello_received,
                       control_q, stop_q>>

(* The application calls write with a buffer of w bytes.                    *)
write(s, w) ==
    /\ s \in snd_streams /\ writer[s] = "idle"
    /\ writer' = [writer EXCEPT ![s] = "poll"]
    /\ want' = [want EXCEPT ![s] = Min2(w, MaxFrame)]
    /\ UNCHANGED <<receiver, sndLimits, sndCount, sndLife, wire, frames>>

(* The application drops a write that is waiting for credit (a timeout).    *)
abandon_write(s) ==
    /\ s \in Abandoning /\ writer[s] = "parked"
    /\ writer' = [writer EXCEPT ![s] = "idle"]
    /\ UNCHANGED <<receiver, sndLimits, sndCount, sndLife, want, wire, frames>>

(* poll_write, the checks it makes under the stream's lock.                 *)
poll_write(s) ==
    /\ writer[s] = "poll"
    /\ writer' = [writer EXCEPT
                    ![s] = IF local_terminal[s] = "none" THEN "reserve" ELSE "idle"]
    /\ UNCHANGED <<receiver, sndLimits, sndCount, sndLife, want, wire, frames>>

(* The connection's credit, less what is sent and reserved.                 *)
conn_avail == peer_max_data - conn_sent - conn_reserved

(* The HELLO initial, or a larger explicit update.                          *)
peer_max(s) == Max2(peer_max_explicit[s], peer_init_stream_data)

(* Mutant: the stream's own reservations are not charged to its window.     *)
stream_avail_without_reserved(s) == peer_max(s) - send_sent[s]

(* The stream's window, less what is sent and reserved.                     *)
stream_avail(s) == peer_max(s) - send_sent[s] - send_reserved[s]

(* Mutant: only the stream's window limits a grant.                         *)
grant_stream_only(s, w) == Min2(stream_avail(s), w)

(* The bytes poll_reserve grants to a want of w.                            *)
grant(s, w) == Min2(Min2(stream_avail(s), conn_avail), w)

(* poll_reserve, under the flow lock: fail, grant or park.                  *)
poll_reserve(s) ==
    /\ writer[s] = "reserve"
    /\ \/ /\ is_failed \/ s \notin snd_streams \/ send_failed[s]
          /\ writer' = [writer EXCEPT ![s] = "idle"]
          /\ UNCHANGED <<send_reserved, conn_reserved>>
       \/ /\ ~is_failed /\ s \in snd_streams /\ ~send_failed[s]
          /\ grant(s, want[s]) >= 1
          /\ send_reserved' = [send_reserved EXCEPT ![s] = @ + grant(s, want[s])]
          /\ conn_reserved' = conn_reserved + grant(s, want[s])
          /\ writer' = [writer EXCEPT ![s] = "idle"]
       \/ /\ ~is_failed /\ s \in snd_streams /\ ~send_failed[s]
          /\ grant(s, want[s]) < 1
          /\ writer' = [writer EXCEPT ![s] = "parked"]
          /\ UNCHANGED <<send_reserved, conn_reserved>>
    /\ UNCHANGED <<receiver, sndLimits, conn_sent, send_sent, sndLife, want,
                   wire, frames>>

(* writer_task hands a frame of n reserved bytes to the transport; it does  *)
(* so only between two frames, and never after the terminal frame.          *)
send_data(s, n) ==
    /\ s \in snd_streams /\ ~terminal_sent[s] /\ wire[s] = send_sent[s]
    /\ n <= send_reserved[s]
    /\ wire' = [wire EXCEPT ![s] = @ + n]
    /\ UNCHANGED <<receiver, sndLimits, sndCount, sndLife, task, frames>>

(* commit: the transport has taken the frame, reserved becomes sent.        *)
commit(s) ==
    LET n == wire[s] - send_sent[s] IN
    /\ s \in snd_streams /\ n > 0
    /\ send_reserved' = [send_reserved EXCEPT ![s] = @ - n]
    /\ send_sent' = [send_sent EXCEPT ![s] = @ + n]
    /\ conn_reserved' = conn_reserved - n
    /\ conn_sent' = conn_sent + n
    /\ UNCHANGED <<receiver, sndLimits, sndLife, task, wire, frames>>

(* Mutant: a release gives the connection its credit back, not the stream.  *)
release_keeps_stream(s, n) ==
    /\ s \in snd_streams /\ (local_terminal[s] # "none" \/ is_failed)
    /\ n <= send_sent[s] + send_reserved[s] - wire[s]
    /\ conn_reserved' = conn_reserved - n
    /\ writer' = wake_locked(writer)
    /\ UNCHANGED <<receiver, sndLimits, conn_sent, send_sent, send_reserved,
                   sndLife, want, wire, frames>>

(* release: writer_task discards n reserved bytes after a reset or at       *)
(* teardown, or a dropped stream gives its grant back.  Bytes that are      *)
(* being handed to the transport are not released.                          *)
release(s, n) ==
    /\ s \in snd_streams /\ (local_terminal[s] # "none" \/ is_failed)
    /\ n <= send_sent[s] + send_reserved[s] - wire[s]
    /\ send_reserved' = [send_reserved EXCEPT ![s] = @ - n]
    /\ conn_reserved' = conn_reserved - n
    /\ writer' = wake_locked(writer)
    /\ UNCHANGED <<receiver, sndLimits, conn_sent, send_sent, sndLife, want,
                   wire, frames>>

(* close_write, the part under the stream's lock.                           *)
close_write(s) ==
    /\ s \in Closing /\ s \in snd_streams
    /\ writer[s] = "idle" /\ local_terminal[s] = "none"
    /\ local_terminal' = [local_terminal EXCEPT ![s] = "fin"]
    /\ UNCHANGED <<receiver, sndLimits, sndCount, is_failed, snd_streams,
                   send_failed, terminal_sent, task, wire, frames>>

(* reset_write, the part under the stream's lock.                           *)
reset_write(s) ==
    /\ s \in Closing /\ s \in snd_streams
    /\ writer[s] = "idle" /\ local_terminal[s] = "none"
    /\ local_terminal' = [local_terminal EXCEPT ![s] = "reset"]
    /\ UNCHANGED <<receiver, sndLimits, sndCount, is_failed, snd_streams,
                   send_failed, terminal_sent, task, wire, frames>>

(* on_frame for STOP_SENDING, the part under the stream's lock.             *)
on_stop_sending(s) ==
    /\ s \in snd_streams /\ stop_q[s] = "sent"
    /\ stop_q' = [stop_q EXCEPT ![s] = "handled"]
    /\ local_terminal' = [local_terminal EXCEPT
                            ![s] = IF @ = "none" THEN "reset" ELSE @]
    /\ UNCHANGED <<receiver, sndLimits, sndCount, is_failed, snd_streams,
                   send_failed, terminal_sent, task, wire, hello_received,
                   control_q, credit_q>>

(* fail_send, the part of those three under the flow lock.                  *)
fail_send(s) ==
    /\ s \in snd_streams /\ local_terminal[s] # "none" /\ ~send_failed[s]
    /\ send_failed' = [send_failed EXCEPT ![s] = TRUE]
    /\ writer' = wake_locked(writer)
    /\ UNCHANGED <<receiver, sndLimits, sndCount, is_failed, snd_streams,
                   local_terminal, terminal_sent, want, wire, frames>>

(* writer_task hands FIN or RESET to the transport.                         *)
send_terminal(s) ==
    /\ s \in snd_streams /\ send_failed[s] /\ ~terminal_sent[s]
    /\ wire[s] = send_sent[s]
    /\ terminal_sent' = [terminal_sent EXCEPT ![s] = TRUE]
    /\ UNCHANGED <<receiver, sndLimits, sndCount, is_failed, snd_streams,
                   send_failed, local_terminal, task, wire, frames>>

(* Mutant: the reservations of a dropped stream are forgotten.              *)
snd_drop_stream_keeps_reserved(s) ==
    /\ s \in snd_streams /\ terminal_sent[s]
    /\ snd_streams' = snd_streams \ {s}
    /\ send_reserved' = [send_reserved EXCEPT ![s] = 0]
    /\ writer' = wake_locked(writer)
    /\ UNCHANGED <<receiver, sndLimits, conn_sent, conn_reserved, send_sent,
                   is_failed, send_failed, local_terminal, terminal_sent, want,
                   wire, frames>>

(* drop_stream at the sender: the stream is wire-complete and its channel   *)
(* has closed.  Reservations that never reached the wire die with it.       *)
snd_drop_stream(s) ==
    /\ s \in snd_streams /\ terminal_sent[s]
    /\ snd_streams' = snd_streams \ {s}
    /\ conn_reserved' = conn_reserved - send_reserved[s]
    /\ send_reserved' = [send_reserved EXCEPT ![s] = 0]
    /\ writer' = wake_locked(writer)
    /\ UNCHANGED <<receiver, sndLimits, conn_sent, send_sent, is_failed,
                   send_failed, local_terminal, terminal_sent, want, wire,
                   frames>>

-----------------------------------------------------------------------------
(* The receiver.                                                            *)

(* new_stream on the receiving side; ids are never reused.                  *)
rcv_new_stream(s) ==
    /\ s \notin rcv_streams /\ ~peer_terminal[s]
    /\ rcv_streams' = rcv_streams \cup {s}
    /\ UNCHANGED <<sender, rcvLimits, rcvCount, held, cancelled, read_cancel,
                   peer_terminal, fatal, frames>>

(* The callback handles one frame of a stream at a time, to the end.        *)
callback_free(s) == arriving[s] = 0 /\ cb_hand[s] = 0 /\ cb_advert[s] = 0

(* The reading task, too, ends one call before it begins the next.          *)
reader_free(s) == app_hand[s] = 0 /\ app_advert[s] = 0

(* on_frame for DATA, on_data_received: enforce both windows.               *)
on_data_received(s, n) ==
    /\ s \in rcv_streams /\ ~fatal /\ callback_free(s)
    /\ received[s] + n <= wire[s]
    /\ \/ /\ \/ received[s] + n > local_max[s]
             \/ conn_received + n > local_max_data
          /\ fatal' = TRUE
          /\ UNCHANGED <<received, conn_received, arriving>>
       \/ /\ received[s] + n <= local_max[s]
          /\ conn_received + n <= local_max_data
          /\ received' = [received EXCEPT ![s] = @ + n]
          /\ conn_received' = conn_received + n
          /\ arriving' = [arriving EXCEPT ![s] = n]
          /\ UNCHANGED fatal
    /\ UNCHANGED <<sender, rcvLimits, conn_consumed, consumed, inbuf, app_hand,
                   cb_hand, rcv_streams, cancelled, read_cancel, peer_terminal,
                   frames>>

(* on_frame for DATA, under the stream's lock: buffer it, or discard it     *)
(* when the application has cancelled reading.                              *)
push_data(s) ==
    /\ arriving[s] > 0
    /\ arriving' = [arriving EXCEPT ![s] = 0]
    /\ \/ /\ read_cancel[s]
          /\ cb_hand' = [cb_hand EXCEPT ![s] = arriving[s]]
          /\ UNCHANGED inbuf
       \/ /\ ~read_cancel[s]
          /\ inbuf' = [inbuf EXCEPT ![s] = @ + arriving[s]]
          /\ UNCHANGED cb_hand
    /\ UNCHANGED <<sender, rcvLimits, rcvCount, app_hand, rcvLife, frames>>

(* on_frame for FIN and RESET: the channel is ordered, so every DATA frame  *)
(* before it has been handled.  RESET discards what is still buffered.      *)
on_peer_terminal(s) ==
    /\ s \in rcv_streams /\ terminal_sent[s] /\ ~peer_terminal[s]
    /\ received[s] = wire[s] /\ callback_free(s)
    /\ peer_terminal' = [peer_terminal EXCEPT ![s] = TRUE]
    /\ \/ /\ local_terminal[s] = "reset"
          /\ cb_hand' = [cb_hand EXCEPT ![s] = inbuf[s]]
          /\ inbuf' = [inbuf EXCEPT ![s] = 0]
       \/ /\ local_terminal[s] = "fin"
          /\ UNCHANGED <<cb_hand, inbuf>>
    /\ UNCHANGED <<sender, rcvLimits, rcvCount, arriving, app_hand,
                   rcv_streams, cancelled, read_cancel, fatal, frames>>

(* poll_read: the reading task takes n bytes, then accounts for them.       *)
poll_read(s, n) ==
    /\ reader_free(s) /\ n <= inbuf[s]
    /\ inbuf' = [inbuf EXCEPT ![s] = @ - n]
    /\ app_hand' = [app_hand EXCEPT ![s] = n]
    /\ UNCHANGED <<sender, rcvLimits, rcvCount, arriving, cb_hand, rcvLife,
                   frames>>

(* cancel_read, under the stream's lock.                                    *)
cancel_read(s) ==
    /\ s \in Cancelling /\ s \in rcv_streams /\ ~read_cancel[s] /\ reader_free(s)
    /\ read_cancel' = [read_cancel EXCEPT ![s] = TRUE]
    /\ inbuf' = [inbuf EXCEPT ![s] = 0]
    /\ app_hand' = [app_hand EXCEPT ![s] = inbuf[s]]
    /\ stop_q' = [stop_q EXCEPT ![s] = IF peer_terminal[s] THEN "handled" ELSE "marking"]
    /\ UNCHANGED <<sender, rcvLimits, rcvCount, arriving, cb_hand, rcv_streams,
                   cancelled, peer_terminal, fatal, hello_received, control_q,
                   credit_q>>

(* cancel_read, mark_cancelled under the flow lock.                         *)
mark_cancelled(s) ==
    /\ read_cancel[s] /\ ~cancelled[s] /\ s \in rcv_streams
    /\ cancelled' = [cancelled EXCEPT ![s] = TRUE]
    /\ UNCHANGED <<sender, rcvLimits, rcvCount, held, rcv_streams, read_cancel,
                   peer_terminal, fatal, frames>>

(* cancel_read, after the discarded bytes are accounted for: STOP_SENDING.  *)
send_stop_sending(s) ==
    /\ stop_q[s] = "marking" /\ (cancelled[s] \/ s \notin rcv_streams)
    /\ reader_free(s)
    /\ stop_q' = [stop_q EXCEPT ![s] = "sent"]
    /\ UNCHANGED <<sender, receiver, hello_received, control_q, credit_q>>

(* Mutant: credit is withheld until more than a whole window is consumed.   *)
threshold_above_window(window) == window + 1

(* Half a window may be consumed before it is advertised again.             *)
threshold(window) == window \div 2

(* Mutant: a cancelled stream goes on earning credit.                       *)
earns_cancelled(s) == s \in rcv_streams

(* A stream earns credit until it is cancelled or dropped.                  *)
earns(s) == s \in rcv_streams /\ ~cancelled[s]

(* Mutant: each advertisement offers two windows.                           *)
new_limit_doubled(base, window) == sat(base + 2 * window)

(* The limit advertised, and enforced, once base bytes are consumed.        *)
new_limit(base, window) == sat(base + window)

(* The consumption of n more bytes of s brings it half a window past its    *)
(* last advertisement.                                                      *)
due(s, n) ==
    earns(s) /\ (consumed[s] + n) - advertised_at[s] >= threshold(MaxStreamData)

(* The limit on_consumed returns for the caller to advertise, 0 for none.   *)
stream_adv(s, n) == IF due(s, n) THEN new_limit(consumed[s] + n, MaxStreamData) ELSE 0

(* on_consumed(id, n): count n consumed bytes at both levels and, past half *)
(* a window, advance that level's limit.  The connection's advertisement is *)
(* queued under the flow lock; the stream's is left to the caller.          *)
on_consumed(s, n) ==
    LET c == consumed[s] + n
        cc == conn_consumed + n
        conn_due == cc - conn_advertised_at >= threshold(MaxData)
        conn_limit == new_limit(cc, MaxData)
    IN
    /\ consumed' = [consumed EXCEPT ![s] = IF s \in rcv_streams THEN c ELSE @]
    /\ advertised_at' = [advertised_at EXCEPT ![s] = IF due(s, n) THEN c ELSE @]
    /\ local_max' = [local_max EXCEPT ![s] = IF due(s, n) THEN stream_adv(s, n) ELSE @]
    /\ conn_consumed' = cc
    /\ conn_advertised_at' = IF conn_due THEN cc ELSE conn_advertised_at
    /\ local_max_data' = IF conn_due THEN conn_limit ELSE local_max_data
    /\ control_q' = IF conn_due THEN Append(control_q, conn_limit) ELSE control_q

(* The reading task accounts for what it took or discarded; in cancel_read  *)
(* it does so only after mark_cancelled.                                    *)
app_consumed(s) ==
    /\ app_hand[s] > 0
    /\ read_cancel[s] => cancelled[s] \/ s \notin rcv_streams
    /\ on_consumed(s, app_hand[s])
    /\ app_hand' = [app_hand EXCEPT ![s] = 0]
    /\ app_advert' = [app_advert EXCEPT ![s] = stream_adv(s, app_hand[s])]
    /\ UNCHANGED <<sender, conn_received, received, arriving, inbuf, cb_hand,
                   cb_advert, rcvLife, hello_received, credit_q, stop_q>>

(* The callback accounts for what it discarded.                             *)
cb_consumed(s) ==
    /\ cb_hand[s] > 0
    /\ on_consumed(s, cb_hand[s])
    /\ cb_hand' = [cb_hand EXCEPT ![s] = 0]
    /\ cb_advert' = [cb_advert EXCEPT ![s] = stream_adv(s, cb_hand[s])]
    /\ UNCHANGED <<sender, conn_received, received, arriving, inbuf, app_hand,
                   app_advert, rcvLife, hello_received, credit_q, stop_q>>

(* consumed, outside the flow lock: the reading task queues the limit that  *)
(* on_consumed returned to it as a MAX_STREAM_DATA frame.                   *)
app_advertise(s) ==
    /\ app_advert[s] > 0
    /\ credit_q' = [credit_q EXCEPT ![s] = @ \cup {app_advert[s]}]
    /\ app_advert' = [app_advert EXCEPT ![s] = 0]
    /\ UNCHANGED <<sender, local_max_data, conn_advertised_at, local_max,
                   advertised_at, cb_advert, rcvCount, held, rcvLife,
                   hello_received, control_q, stop_q>>

(* The same in the callback, which need not know that the application has   *)
(* cancelled reading meanwhile.                                             *)
cb_advertise(s) ==
    /\ cb_advert[s] > 0
    /\ credit_q' = [credit_q EXCEPT ![s] = @ \cup {cb_advert[s]}]
    /\ cb_advert' = [cb_advert EXCEPT ![s] = 0]
    /\ UNCHANGED <<sender, local_max_data, conn_advertised_at, local_max,
                   advertised_at, app_advert, rcvCount, held, rcvLife,
                   hello_received, control_q, stop_q>>

(* drop_stream at the receiver: wire-complete, drained, channel closed.     *)
rcv_drop_stream(s) ==
    /\ s \in rcv_streams /\ peer_terminal[s] /\ inbuf[s] = 0
    /\ rcv_streams' = rcv_streams \ {s}
    /\ UNCHANGED <<sender, rcvLimits, rcvCount, held, cancelled, read_cancel,
                   peer_terminal, fatal, frames>>

-----------------------------------------------------------------------------
SenderStep(s) ==
    \/ snd_new_stream(s)
    \/ on_peer_max_stream_data(s)
    \/ \E w \in WriteSizes : write(s, w)
    \/ abandon_write(s)
    \/ poll_write(s)
    \/ poll_reserve(s)
    \/ \E n \in 1..MaxFrame : send_data(s, n)
    \/ commit(s)
    \/ \E n \in 1..MaxFrame : release(s, n)
    \/ close_write(s)
    \/ reset_write(s)
    \/ on_stop_sending(s)
    \/ fail_send(s)
    \/ send_terminal(s)
    \/ snd_drop_stream(s)

ReceiverStep(s) ==
    \/ rcv_new_stream(s)
    \/ \E n \in 1..MaxFrame : on_data_received(s, n)
    \/ push_data(s)
    \/ on_peer_terminal(s)
    \/ \E n \in 1..MaxFrame : poll_read(s, n)
    \/ cancel_read(s)
    \/ mark_cancelled(s)
    \/ send_stop_sending(s)
    \/ app_consumed(s)
    \/ cb_consumed(s)
    \/ app_advertise(s)
    \/ cb_advertise(s)
    \/ rcv_drop_stream(s)

Next ==
    \/ fail
    \/ on_peer_hello
    \/ on_peer_max_data
    \/ \E s \in Streams : SenderStep(s) \/ ReceiverStep(s)

Spec == Init /\ [][Next]_vars

-----------------------------------------------------------------------------
(* Bytes of s held by the receiver that have not been accounted as          *)
(* consumed: accepted, buffered, or in the hands of one of its tasks.       *)
unread == [s \in Streams |-> arriving[s] + inbuf[s] + app_hand[s] + cb_hand[s]]

(* The types of the variables.  Every counter stays a natural number        *)
(* through the u64 subtractions of commit, release and drop_stream; those   *)
(* of poll_reserve are computed, not stored, and are WithinCredit's.        *)
TypeOK ==
    /\ is_failed \in BOOLEAN /\ fatal \in BOOLEAN /\ hello_received \in BOOLEAN
    /\ peer_init_stream_data \in Nat /\ peer_max_data \in Nat
    /\ conn_sent \in Nat /\ conn_reserved \in Nat
    /\ snd_streams \subseteq Streams /\ rcv_streams \subseteq Streams
    /\ send_sent \in [Streams -> Nat] /\ send_reserved \in [Streams -> Nat]
    /\ peer_max_explicit \in [Streams -> Nat] /\ send_failed \in [Streams -> BOOLEAN]
    /\ writer \in [Streams -> WriterStates] /\ want \in [Streams -> Nat]
    /\ local_terminal \in [Streams -> Terminals]
    /\ terminal_sent \in [Streams -> BOOLEAN] /\ wire \in [Streams -> Nat]
    /\ local_max_data \in Nat /\ conn_received \in Nat
    /\ conn_consumed \in Nat /\ conn_advertised_at \in Nat
    /\ local_max \in [Streams -> Nat] /\ received \in [Streams -> Nat]
    /\ consumed \in [Streams -> Nat] /\ advertised_at \in [Streams -> Nat]
    /\ cancelled \in [Streams -> BOOLEAN] /\ read_cancel \in [Streams -> BOOLEAN]
    /\ arriving \in [Streams -> Nat] /\ inbuf \in [Streams -> Nat]
    /\ app_hand \in [Streams -> Nat] /\ cb_hand \in [Streams -> Nat]
    /\ app_advert \in [Streams -> Nat] /\ cb_advert \in [Streams -> Nat]
    /\ peer_terminal \in [Streams -> BOOLEAN]
    /\ control_q \in Seq(Nat) /\ credit_q \in [Streams -> SUBSET Nat]
    /\ stop_q \in [Streams -> StopStates]

(* The subtractions of poll_reserve (flow.rs:211, 222) never underflow: the *)
(* sender's committed and reserved bytes stay within both peer limits.      *)
WithinCredit == conn_avail >= 0 /\ \A s \in Streams : stream_avail(s) >= 0

(* on_data_received never fails the connection of a conforming sender: the  *)
(* receiver's enforcement limits are never behind what the sender was told, *)
(* whatever is in flight and however commit lags behind the wire.           *)
NoFalseViolation == ~fatal

(* SPEC 6.5: what a receiver can be made to hold is bounded by one window   *)
(* per stream and by one window for the whole connection, discards and      *)
(* retired streams included.                                                *)
BoundedUnread ==
    /\ \A s \in Streams : unread[s] <= MaxStreamData
    /\ Total(unread) <= MaxData

(* The two levels agree: the connection's counters are the sums of the      *)
(* streams' (dropped streams included), so no byte of connection credit is  *)
(* lost or returned twice by commit, release, drop_stream and the discards  *)
(* of cancel_read and RESET.                                                *)
CreditConserved ==
    /\ conn_reserved = Total(send_reserved)
    /\ conn_sent = Total(send_sent)
    /\ conn_received = Total(received)
    /\ conn_received - conn_consumed = Total(unread)

(* A writer stays parked only while poll_reserve would park it again: every *)
(* step that gives it credit, or an error to report, wakes it.              *)
NoLostWakeup ==
    \A s \in Streams : writer[s] = "parked" =>
        /\ ~is_failed /\ s \in snd_streams /\ ~send_failed[s]
        /\ grant(s, want[s]) < 1

(* Nothing is in flight, reserved or unread.                                *)
Quiescent ==
    /\ hello_received /\ control_q = <<>>
    /\ \A s \in Streams :
        /\ credit_q[s] = {} /\ unread[s] = 0
        /\ app_advert[s] = 0 /\ cb_advert[s] = 0
        /\ send_reserved[s] = 0 /\ received[s] = wire[s]

(* The half-window threshold of on_consumed never withholds credit that a   *)
(* blocked writer needs: once the reader has consumed everything, a writer  *)
(* of a stream that is not cancelled waits only at the end of the offsets.  *)
NoCreditDeadlock ==
    \A s \in Streams :
        (Quiescent /\ writer[s] = "parked" /\ want[s] > 0 /\ ~read_cancel[s]
            /\ MaxStreamData > 0 /\ MaxData > 0)
            => peer_max(s) = MaxOffset \/ peer_max_data = MaxOffset

(* SPEC 6.5, what on_consumed guarantees of it: once mark_cancelled has run *)
(* the stream's limit stays where it is for good, although DATA in flight   *)
(* is still accepted, discarded and accounted for by two tasks; and the one *)
(* MAX_STREAM_DATA that may still be queued carries a limit the callback    *)
(* had been given before mark_cancelled.                                    *)
NoCreditAfterStop ==
    [][\A s \in Streams : cancelled[s] =>
          /\ local_max'[s] = local_max[s]
          /\ cb_advert'[s] \in {0, cb_advert[s]}
          /\ credit_q'[s] \ credit_q[s] \subseteq {cb_advert[s]}]_vars

-----------------------------------------------------------------------------
(* What the sender has committed or reserved of each stream's window.       *)
claimed == [s \in Streams |-> send_sent[s] + send_reserved[s]]

(* A stream's offsets in order, from what the application has consumed to   *)
(* what the receiver enforces.  MAX_STREAM_DATA in flight lies between the  *)
(* two ends' limits.                                                        *)
StreamChain(s) ==
    /\ advertised_at[s] <= consumed[s]
    /\ consumed[s] + unread[s] <= received[s]
    /\ received[s] <= wire[s]
    /\ send_sent[s] <= wire[s]
    /\ wire[s] <= claimed[s]
    /\ claimed[s] <= peer_max(s)
    /\ peer_max(s) <= local_max[s]
    /\ \A v \in credit_q[s] : v <= local_max[s]
    /\ local_max[s] = new_limit(advertised_at[s], MaxStreamData)
    /\ terminal_sent[s] => wire[s] = send_sent[s]
    /\ app_advert[s] <= local_max[s] /\ cb_advert[s] <= local_max[s]
    /\ arriving[s] = 0 \/ cb_hand[s] = 0
    /\ cb_advert[s] = 0 \/ (arriving[s] = 0 /\ cb_hand[s] = 0)
    /\ app_advert[s] = 0 \/ app_hand[s] = 0

(* The same for the connection.                                             *)
ConnChain ==
    /\ conn_advertised_at <= conn_consumed
    /\ conn_sent + conn_reserved = Total(claimed)
    /\ conn_sent + conn_reserved <= peer_max_data
    /\ peer_max_data <= local_max_data
    /\ \A i \in 1..Len(control_q) : control_q[i] <= local_max_data
    /\ local_max_data = new_limit(conn_advertised_at, MaxData)
    /\ peer_init_stream_data <= MaxStreamData
    /\ ~hello_received => peer_max_data = 0 /\ peer_init_stream_data = 0

(* The inductive invariant behind the theorems of CreditFlowProofs: DATA on *)
(* the wire never runs past a reservation, a reservation never past the     *)
(* sender's view of a limit, and that view never past the limit enforced.   *)
IInv ==
    /\ TypeOK
    /\ \A s \in Streams : StreamChain(s)
    /\ ConnChain
    /\ CreditConserved
    /\ NoFalseViolation

-----------------------------------------------------------------------------
(* Fairness: the tasks and callbacks run (tokio), the transport delivers,   *)
(* and the application keeps reading.  Opening, writing, cancelling,        *)
(* closing and failing are the application's choice and are not fair.       *)
Fairness ==
    /\ WF_vars(on_peer_hello) /\ WF_vars(on_peer_max_data)
    /\ \A s \in Streams :
        /\ WF_vars(rcv_new_stream(s))
        /\ WF_vars(on_peer_max_stream_data(s))
        /\ WF_vars(poll_write(s)) /\ WF_vars(poll_reserve(s))
        /\ WF_vars(\E n \in 1..MaxFrame : send_data(s, n) \/ release(s, n))
        /\ WF_vars(commit(s)) /\ WF_vars(fail_send(s))
        /\ WF_vars(on_stop_sending(s)) /\ WF_vars(send_terminal(s))
        /\ WF_vars(\E n \in 1..MaxFrame : on_data_received(s, n))
        /\ WF_vars(push_data(s)) /\ WF_vars(on_peer_terminal(s))
        /\ WF_vars(\E n \in 1..MaxFrame : poll_read(s, n))
        /\ WF_vars(mark_cancelled(s)) /\ WF_vars(send_stop_sending(s))
        /\ WF_vars(app_consumed(s)) /\ WF_vars(cb_consumed(s))
        /\ WF_vars(app_advertise(s)) /\ WF_vars(cb_advertise(s))

LiveSpec == Spec /\ Fairness

(* SPEC 6.5: a write blocked on credit makes progress: while the peer keeps *)
(* reading or cancels, every write is granted or fails, unless the offsets  *)
(* of the stream or of the connection are used up.                          *)
WriteCompletes ==
    \A s \in Streams :
        writer[s] # "idle" ~> \/ writer[s] = "idle"
                             \/ peer_max(s) = MaxOffset
                             \/ peer_max_data = MaxOffset

=============================================================================
