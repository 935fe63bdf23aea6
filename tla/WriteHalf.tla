------------------------------ MODULE WriteHalf ------------------------------
(***************************************************************************)
(* The write half of one WebRTC stream, libs/rust/kps/src/stream.rs: how a  *)
(* write turns into a grant of credit, the grant into a queued frame and    *)
(* the frame into a message, with every way out on the way.                 *)
(*                                                                          *)
(* Three tasks share it: the application's (write, close_write,             *)
(* reset_write, and dropping a call or the stream), the writer task, and    *)
(* the channel's callback (open, STOP_SENDING, close).  They interleave at  *)
(* the stream's lock, the flow lock and the queues.                         *)
(*                                                                          *)
(* Abstractions: a buffer is its length, a DATA frame its grant, FIN a      *)
(* frame of no bytes; the stream's and the connection's window are one      *)
(* limit (CreditFlow has both); poll_shutdown is in StreamLifecycle.        *)
(***************************************************************************)
EXTENDS Integers, Sequences, FiniteSets

CONSTANTS
    MaxLen,         \* longest buffer of a write
    MaxLimit,       \* the credit the peer gives in all
    QueueCap,       \* capacity of the DATA queue, 32 in the code
    MaxAbandons     \* bound: calls the application drops while they wait

ASSUME WriteHalfAssumption ==
    MaxLen \in Nat /\ MaxLimit \in Nat /\ QueueCap \in Nat \ {0} /\ MaxAbandons \in Nat

VARIABLES
    pc,             \* where the application's call is
    len,            \* the buffer of the write
    pending_grant,
    accepted,       \* bytes that writes have returned as written
    abandons,
    term,           \* local_terminal: "none", "fin" or "reset"
    peer_stop, drop_data, dc_open, dc_closed,    \* the State struct
    dc_dead,        \* the channel has closed; on_channel_close may be to come
    cb,             \* the callback: "none", "fail", or "reset" before it replies
    queue,          \* the DATA queue
    life_q,         \* the lifecycle queue holds RESET
    w,              \* the writer task and its frame
    wire,           \* DATA bytes handed to the transport
    terminal_wire,  \* the terminal frame handed to it, or "none"
    limit, sent, reserved, send_failed, entry    \* the flow engine's stream

held == <<len, pending_grant, accepted, abandons>>
call == <<pc, held>>
channel == <<dc_open, dc_closed, dc_dead>>
state == <<term, peer_stop, drop_data, channel>>
queues == <<queue, life_q>>
onwire == <<wire, terminal_wire>>
writer == <<w, onwire>>
flow == <<limit, sent, reserved, send_failed, entry>>
vars == <<call, state, cb, queues, writer, flow>>

Fin == 0
Reset == -1
Calls == {"poll", "reserve", "parked", "queue", "waiting"}
Closes == {"fail", "send_fin"}

Init ==
    /\ pc = "idle" /\ len = 0 /\ pending_grant = 0 /\ accepted = 0 /\ abandons = 0
    /\ term = "none" /\ peer_stop = FALSE /\ drop_data = FALSE
    /\ dc_open = FALSE /\ dc_closed = FALSE /\ dc_dead = FALSE
    /\ cb = "none" /\ queue = <<>> /\ life_q = FALSE
    /\ w = [pc |-> "open", n |-> 0] /\ wire = 0 /\ terminal_wire = "none"
    /\ limit = 0 /\ sent = 0 /\ reserved = 0 /\ send_failed = FALSE /\ entry = TRUE

ended == w.pc = "ended"
room == Len(queue) < QueueCap

(* wake_locked: a write parked for credit polls again.                      *)
woken == IF pc = "parked" THEN "poll" ELSE pc

(* release, without the wake: the bytes of a frame that will not be sent.   *)
release(n) ==
    /\ reserved' = IF entry THEN reserved - n ELSE reserved
    /\ UNCHANGED <<limit, sent, send_failed, entry>>

-----------------------------------------------------------------------------
(* The application.                                                         *)

write(n) ==
    /\ pc = "idle" /\ sent + reserved + n <= MaxLimit
    /\ pc' = "poll" /\ len' = n
    /\ UNCHANGED <<pending_grant, accepted, abandons, state, cb, queues, writer, flow>>

(* The three errors of a write.                                             *)
blocked == peer_stop \/ term # "none" \/ dc_closed

(* poll_write, under the stream's lock.  The errors leave a held grant      *)
(* where it is.                                                             *)
poll_write ==
    /\ pc = "poll"
    /\ pc' = IF blocked THEN "idle" ELSE IF pending_grant > 0 THEN "queue" ELSE "reserve"
    /\ UNCHANGED <<held, state, cb, queues, writer, flow>>

(* The credit a write of len bytes is granted.                              *)
grant == IF limit - sent - reserved < len THEN limit - sent - reserved ELSE len

(* flow.poll_reserve, under the flow lock.  A want of no bytes never        *)
(* reaches a grant of one, and parks.                                       *)
poll_reserve ==
    /\ pc = "reserve"
    /\ \/ /\ send_failed \/ ~entry
          /\ pc' = "idle" /\ UNCHANGED <<pending_grant, reserved>>
       \/ /\ ~send_failed /\ entry /\ grant >= 1
          /\ pc' = "queue" /\ pending_grant' = grant /\ reserved' = reserved + grant
       \/ /\ ~send_failed /\ entry /\ grant < 1
          /\ pc' = "parked" /\ UNCHANGED <<pending_grant, reserved>>
    /\ UNCHANGED <<len, accepted, abandons, state, cb, queues, writer, limit, sent,
                   send_failed, entry>>

(* data_poll_tx.poll_reserve, and the frame: queued, or the call waits for  *)
(* room with its grant, or the writer task is gone.  A buffer shorter than  *)
(* the grant is sliced past its end, and the task panics.                   *)
poll_queue ==
    /\ pc = "queue"
    /\ \/ /\ ended
          /\ pc' = "idle" /\ pending_grant' = 0 /\ release(pending_grant)
          /\ UNCHANGED <<accepted, queue>>
       \/ /\ ~ended /\ ~room
          /\ pc' = "waiting" /\ UNCHANGED <<pending_grant, accepted, queue, flow>>
       \/ /\ ~ended /\ room /\ pending_grant > len
          /\ pc' = "panicked" /\ UNCHANGED <<pending_grant, accepted, queue, flow>>
       \/ /\ ~ended /\ room /\ pending_grant <= len
          /\ pc' = "idle" /\ pending_grant' = 0
          /\ queue' = Append(queue, pending_grant) /\ accepted' = accepted + pending_grant
          /\ UNCHANGED flow
    /\ UNCHANGED <<len, abandons, state, cb, life_q, writer>>

(* The queue has room, or its receiver is gone.                             *)
queue_wakes ==
    /\ pc = "waiting" /\ (room \/ ended)
    /\ pc' = "poll"
    /\ UNCHANGED <<held, state, cb, queues, writer, flow>>

(* close_write and reset_write, under the stream's lock.                    *)
end_write(t) ==
    /\ pc = "idle" /\ term = "none"
    /\ term' = t /\ drop_data' = (t = "reset") /\ pc' = "fail"
    /\ UNCHANGED <<held, peer_stop, channel, cb, queues, writer, flow>>

(* Their fail_send, and RESET into the lifecycle queue.                     *)
end_write_fail ==
    /\ pc = "fail"
    /\ send_failed' = (send_failed \/ entry)
    /\ pc' = IF term = "fin" THEN "send_fin" ELSE "idle"
    /\ life_q' = (life_q \/ (term = "reset" /\ ~ended))
    /\ UNCHANGED <<held, state, cb, queue, writer, limit, sent, reserved, entry>>

(* close_write, data_tx.send: FIN waits for room in the DATA queue.         *)
send_fin ==
    /\ pc = "send_fin" /\ (room \/ ended)
    /\ queue' = IF ended THEN queue ELSE Append(queue, Fin)
    /\ pc' = "idle"
    /\ UNCHANGED <<held, state, cb, life_q, writer, flow>>

(* The application drops a call that waits.                                 *)
abandon ==
    /\ pc \in {"parked", "waiting", "send_fin"} /\ abandons < MaxAbandons
    /\ pc' = "idle" /\ abandons' = abandons + 1
    /\ UNCHANGED <<len, pending_grant, accepted, state, cb, queues, writer, flow>>

(* Drop: the stream gives a held grant back; a panic unwinds into it.       *)
drop ==
    /\ pc \in {"idle", "panicked"}
    /\ pc' = "gone" /\ pending_grant' = 0 /\ release(pending_grant)
    /\ UNCHANGED <<len, accepted, abandons, state, cb, queues, writer>>

-----------------------------------------------------------------------------
(* The writer task.                                                         *)

(* It returns, and the queues go with it.                                   *)
ends ==
    /\ w' = [pc |-> "ended", n |-> 0] /\ queue' = <<>> /\ life_q' = FALSE

(* wait_open: the notification is registered before the check.              *)
wait_open ==
    /\ w.pc = "open" /\ (dc_open \/ dc_closed)
    /\ \/ /\ dc_open
          /\ w' = [w EXCEPT !.pc = "take"] /\ UNCHANGED queues
       \/ ~dc_open /\ ends
    /\ UNCHANGED <<call, state, cb, onwire, flow>>

(* Queued DATA is discarded after a reset.                                  *)
dropping(n) == drop_data /\ n # Fin

(* Mutant: the task ends with the stream, whatever is queued.               *)
senders_gone_at_once == pc = "gone"

(* data_rx.recv finds the queue empty and both its senders dropped.         *)
senders_gone == queue = <<>> /\ pc = "gone"

(* The select: the lifecycle queue first, then the DATA queue.              *)
writer_take ==
    /\ w.pc = "take"
    /\ \/ /\ life_q
          /\ w' = [pc |-> "send", n |-> Reset] /\ life_q' = FALSE
          /\ UNCHANGED <<call, queue, flow>>
       \/ /\ ~life_q /\ queue # <<>> /\ ~senders_gone
          /\ queue' = Tail(queue)
          /\ \/ /\ dropping(Head(queue))
                /\ release(Head(queue)) /\ pc' = woken
                /\ UNCHANGED <<held, w>>
             \/ /\ ~dropping(Head(queue))
                /\ w' = [pc |-> "bound", n |-> Head(queue)]
                /\ UNCHANGED <<call, flow>>
          /\ UNCHANGED life_q
       \/ /\ ~life_q /\ senders_gone
          /\ ends /\ UNCHANGED <<call, flow>>
    /\ UNCHANGED <<state, cb, onwire>>

(* The local send-buffer bound: give up on a closed channel.  A buffer that *)
(* is full is a delay.                                                      *)
writer_bound ==
    /\ w.pc = "bound"
    /\ \/ /\ dc_closed
          /\ release(w.n) /\ pc' = woken /\ ends
          /\ UNCHANGED held
       \/ /\ ~dc_closed
          /\ w' = [w EXCEPT !.pc = "send"] /\ UNCHANGED <<call, queues, flow>>
    /\ UNCHANGED <<state, cb, onwire>>

(* dc.send: the transport takes the frame, or refuses it once the channel   *)
(* has closed.                                                              *)
writer_send ==
    /\ w.pc = "send"
    /\ \/ /\ ~dc_dead
          /\ w' = [w EXCEPT !.pc = "sent"]
          /\ wire' = IF w.n > 0 THEN wire + w.n ELSE wire
          /\ terminal_wire' = CASE w.n = Fin -> "fin" [] w.n = Reset -> "reset"
                                [] OTHER -> terminal_wire
          /\ UNCHANGED <<call, queues, flow>>
       \/ /\ dc_dead
          /\ IF w.n > 0 THEN release(w.n) /\ pc' = woken ELSE UNCHANGED <<pc, flow>>
          /\ ends /\ UNCHANGED <<held, onwire>>
    /\ UNCHANGED <<state, cb>>

(* Mutant: commit counts the bytes as sent but keeps them reserved.         *)
commit_keeps(n) ==
    /\ sent' = IF entry THEN sent + n ELSE sent
    /\ UNCHANGED reserved

(* commit: reserved bytes become sent.                                      *)
commit(n) ==
    /\ sent' = IF entry THEN sent + n ELSE sent
    /\ reserved' = IF entry THEN reserved - n ELSE reserved

(* The send has returned.                                                   *)
writer_sent ==
    /\ w.pc = "sent"
    /\ w' = [pc |-> "take", n |-> 0]
    /\ IF w.n > 0 THEN commit(w.n) ELSE UNCHANGED <<sent, reserved>>
    /\ UNCHANGED <<call, state, cb, queues, onwire, limit, send_failed, entry>>

-----------------------------------------------------------------------------
(* The channel's callbacks, one at a time, and the flow engine's.           *)

on_open ==
    /\ cb = "none" /\ ~dc_open /\ ~dc_dead
    /\ dc_open' = TRUE
    /\ UNCHANGED <<call, term, peer_stop, drop_data, dc_closed, dc_dead, cb, queues,
                   writer, flow>>

(* Mutant: STOP_SENDING discards what a close has already accepted.         *)
discards_always == TRUE

(* STOP_SENDING discards queued DATA unless a terminal frame is decided on. *)
discards == drop_data \/ term = "none"

(* on_frame, STOP_SENDING, under the stream's lock.                         *)
on_stop_sending ==
    /\ cb = "none" /\ dc_open /\ ~dc_closed /\ ~peer_stop
    /\ peer_stop' = TRUE
    /\ term' = IF term = "none" THEN "reset" ELSE term
    /\ drop_data' = discards
    /\ cb' = IF term = "none" THEN "reset" ELSE "fail"
    /\ UNCHANGED <<call, channel, queues, writer, flow>>

(* The channel closes; the callback has yet to be called.                   *)
channel_dies ==
    /\ ~dc_dead /\ dc_dead' = TRUE
    /\ UNCHANGED <<call, term, peer_stop, drop_data, dc_open, dc_closed, cb, queues,
                   writer, flow>>

(* on_channel_close, under the stream's lock.                               *)
on_channel_close ==
    /\ cb = "none" /\ dc_dead /\ ~dc_closed
    /\ dc_closed' = TRUE /\ cb' = "fail"
    /\ UNCHANGED <<call, term, peer_stop, drop_data, dc_open, dc_dead, queues, writer,
                   flow>>

(* Mutant: STOP_SENDING is never answered.                                  *)
replies_never == FALSE

(* RESET answers a STOP_SENDING that found the write half open.             *)
replies == cb = "reset" /\ ~ended

(* Mutant: the wait for credit goes on.                                     *)
failed_write_sleeps == pc

(* The write that fail_send leaves, which polls again when it waited.       *)
failed_write == IF entry /\ ~send_failed THEN woken ELSE pc

(* fail_send of both, and the RESET that answers STOP_SENDING.              *)
cb_fail ==
    /\ cb # "none"
    /\ send_failed' = (send_failed \/ entry)
    /\ pc' = failed_write
    /\ life_q' = (life_q \/ replies)
    /\ cb' = "none"
    /\ UNCHANGED <<held, state, queue, writer, limit, sent, reserved, entry>>

(* More credit from the peer wakes who waits for it.                        *)
on_peer_max_data ==
    /\ limit < MaxLimit
    /\ limit' = limit + 1 /\ pc' = woken
    /\ UNCHANGED <<held, state, cb, queues, writer, sent, reserved, send_failed, entry>>

(* drop_stream, at retirement: what is still reserved dies with the stream. *)
drop_stream ==
    /\ entry /\ dc_closed /\ terminal_wire # "none" /\ w.pc # "sent"
    /\ entry' = FALSE /\ reserved' = 0 /\ pc' = woken
    /\ UNCHANGED <<held, state, cb, queues, writer, limit, sent, send_failed>>

Application ==
    \/ (\E n \in 0..MaxLen : write(n)) \/ (\E t \in {"fin", "reset"} : end_write(t))
    \/ abandon \/ drop
Call ==
    poll_write \/ poll_reserve \/ poll_queue \/ queue_wakes \/ end_write_fail \/ send_fin
WriterTask == wait_open \/ writer_take \/ writer_bound \/ writer_send \/ writer_sent
Callback == on_open \/ on_stop_sending \/ on_channel_close \/ cb_fail
Next ==
    Application \/ Call \/ WriterTask \/ Callback \/ channel_dies \/ on_peer_max_data
        \/ drop_stream

(* Fairness: tokio polls a call that is ready, the writer task and the      *)
(* callbacks; the channel opens or closes; and the peer gives credit for    *)
(* what it reads as long as it has not stopped reading.                     *)
PeerReads == on_peer_max_data /\ ~peer_stop /\ ~dc_dead
Spec == Init /\ [][Next]_vars
LiveSpec ==
    /\ Spec
    /\ WF_vars(Call) /\ WF_vars(WriterTask) /\ WF_vars(on_open) /\ WF_vars(on_channel_close)
    /\ WF_vars(cb_fail) /\ WF_vars(PeerReads)

-----------------------------------------------------------------------------
(* Every variable has its type: no counter of credit wraps or passes the    *)
(* peer's limit, and the DATA queue stays within its capacity.              *)
TypeOK ==
    /\ pc \in Calls \cup Closes \cup {"idle", "panicked", "gone"}
    /\ {len, pending_grant} \subseteq 0..MaxLen
    /\ {accepted, wire, limit, sent, reserved} \subseteq 0..MaxLimit
    /\ abandons \in 0..MaxAbandons /\ {term, terminal_wire} \subseteq {"none", "fin", "reset"}
    /\ {peer_stop, drop_data, dc_open, dc_closed, dc_dead, life_q, send_failed, entry}
         \subseteq BOOLEAN
    /\ cb \in {"none", "fail", "reset"} /\ Len(queue) <= QueueCap
    /\ queue \in Seq(Fin..MaxLen)
    /\ w \in [pc : {"open", "take", "bound", "send", "sent", "ended"}, n : Reset..MaxLen]

(* The bytes of a queue of frames, counted one by one.                      *)
Sum(q) == Cardinality({b \in (DOMAIN q) \X (1..MaxLen) : b[2] <= q[b[1]]})
InHand == IF w.n > 0 THEN w.n ELSE 0

(* Every reserved byte has one holder: the call that was granted it, the    *)
(* DATA queue or the writer task, through errors, resets, dropped calls and *)
(* dropped streams.  Only a writer task that ends takes queued grants with  *)
(* it, and they stay charged until drop_stream.  A grant fits the buffer it *)
(* is for: buf[..n] is cut past its end, and panics, only in a write that   *)
(* inherits the grant of a longer one the application dropped.              *)
GrantAccounted ==
    /\ entry => /\ reserved >= pending_grant + Sum(queue) + InHand
                /\ ~ended => reserved = pending_grant + Sum(queue) + InHand
    /\ pc = "panicked" => abandons > 0 /\ len < pending_grant

(* FIN on the wire is the truth: every byte a write has accepted precedes   *)
(* it, also when STOP_SENDING or a dropped call crosses the close.          *)
FinComplete == terminal_wire = "fin" => wire = accepted

(* A write of at least a byte is accepted, fails or is given up, whatever   *)
(* the queue, the credit, the peer and the channel do meanwhile.            *)
WriteEnds == (pc \in Calls /\ len > 0) ~> (pc \notin Calls)

FinQueued == \E i \in DOMAIN queue : queue[i] = Fin

(* A queued FIN reaches the wire unless the channel closes, also when the   *)
(* stream is dropped right after the close.                                 *)
FinSent == FinQueued ~> (terminal_wire # "none" \/ dc_dead)

(* STOP_SENDING is answered with RESET when it finds the write half open,   *)
(* or being reset: the RESET overtakes what is queued and reaches the wire, *)
(* unless the channel closes, or the stream is dropped and the writer task  *)
(* ends with it.                                                            *)
StopAnswered ==
    (peer_stop /\ term = "reset") ~>
        (terminal_wire = "reset" \/ dc_dead \/ (pc = "gone" /\ ended))
=============================================================================
