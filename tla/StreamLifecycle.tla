--------------------------- MODULE StreamLifecycle ---------------------------
(***************************************************************************)
(* The lifecycle of one KPS stream over one WebRTC data channel (SPEC 6.2   *)
(* and the retirement ladder of 6.5), both endpoints of it, as implemented  *)
(* by libs/rust/kps/src/stream.rs.                                          *)
(*                                                                          *)
(* At each endpoint three tasks share the State struct: the application's   *)
(* (writes, closes, reads, cancels), the writer task that takes frames from *)
(* the DATA queue and the lifecycle queue to the transport, and the data    *)
(* channel's callback.  The writer task hands a frame to the transport in   *)
(* one step and records that it did in another, as the code does.           *)
(*                                                                          *)
(* Abstractions: a DATA frame is one unit; credit is left out (CreditFlow); *)
(* the data channel is ordered and reliable, and its closing travels behind *)
(* the frames already handed to it (SCTP stream reset) and is echoed.       *)
(***************************************************************************)
EXTENDS Integers, Sequences, FiniteSets

CONSTANTS
    MaxWrites,      \* DATA frames each application writes at most
    DataQ,          \* capacity of the DATA queue, 32 in the code
    Cancellers,     \* endpoints whose application may cancel reading
    Resetters,      \* endpoints whose application may reset its write half
    Shutdowners,    \* endpoints that close through AsyncWrite::poll_shutdown
    Abandoners      \* endpoints that may drop a close_write that is waiting

Endpoints == {"a", "b"}
peer(e) == IF e = "a" THEN "b" ELSE "a"

ASSUME LifecycleAssumption ==
    /\ MaxWrites \in Nat /\ DataQ \in Nat \ {0}
    /\ Cancellers \subseteq Endpoints /\ Resetters \subseteq Endpoints
    /\ Shutdowners \subseteq Endpoints /\ Abandoners \subseteq Endpoints

VARIABLES
    \* ---- the State struct ----
    inbuf,                \* DATA frames buffered for the reader
    peer_terminal,        \* peer_fin, peer_reset: "none", "fin" or "reset"
    peer_stop,            \* STOP_SENDING received
    local_terminal,       \* "none", "fin" or "reset"
    local_terminal_sent,
    read_cancel,
    drop_data,
    dc_closed,
    retired_fired,
    \* ---- the tasks ----
    closing,              \* the task that closes the channel: "no", "asked", "sent"
    closer,               \* a close in progress: "none", "send" or "shutdown"
    hand,                 \* the writer task's frame, NoFrame, Ended or [frame, sent]
    data_q,               \* the ordered DATA and FIN queue
    life_q,               \* the lifecycle queue
    \* ---- the channel and what the applications have seen ----
    chan,                 \* frames from each endpoint to its peer
    written, read,        \* frames written and read
    read_end,             \* how reading ended: "open", "eof" or "error"
    fatal                 \* "none", or why the connection was failed

reading == <<inbuf, peer_terminal, read_cancel>>
writing == <<peer_stop, local_terminal, local_terminal_sent, drop_data>>
state == <<reading, writing, dc_closed>>
retiring == <<retired_fired, closing>>
queues == <<data_q, life_q>>
seen == <<written, read, read_end>>
vars == <<state, retiring, closer, hand, queues, chan, seen, fatal>>

NoFrame == [frame |-> "none", sent |-> FALSE]
Ended == [frame |-> "ended", sent |-> FALSE]      \* the writer task has returned
Frames == {"DATA", "FIN", "RESET", "STOP", "CLOSE"}
TerminalFrames == {"FIN", "RESET"}

All(v) == [e \in Endpoints |-> v]

Init ==
    /\ inbuf = All(0) /\ peer_terminal = All("none") /\ peer_stop = All(FALSE)
    /\ local_terminal = All("none") /\ local_terminal_sent = All(FALSE)
    /\ read_cancel = All(FALSE) /\ drop_data = All(FALSE) /\ dc_closed = All(FALSE)
    /\ retired_fired = All(FALSE) /\ closing = All("no") /\ closer = All("none")
    /\ hand = All(NoFrame) /\ data_q = All(<<>>) /\ life_q = All(<<>>)
    /\ chan = All(<<>>)
    /\ written = All(0) /\ read = All(0) /\ read_end = All("open") /\ fatal = "none"

-----------------------------------------------------------------------------
(* Mutant: a terminal frame that is only queued counts as sent.             *)
wire_complete_when_queued(lt, sent, pt) == lt # "none" /\ pt # "none"

(* Both write halves have ended with a terminal frame on the wire.          *)
wire_complete(lt, sent, pt) == sent /\ pt # "none"

(* Mutant: the stream retires with its channel still open.                  *)
retires_open(ready, closed) == ready

(* A stream that is ready retires when its channel has closed.              *)
retires(ready, closed) == ready /\ closed

(* maybe_retire, which every handler below calls last: with the channel     *)
(* still open ask for its close, else fire the retired hook, once.          *)
maybe_retire(e) ==
    LET ready == /\ wire_complete(local_terminal'[e], local_terminal_sent'[e],
                                  peer_terminal'[e])
                 /\ inbuf'[e] = 0
    IN
    /\ retired_fired' = [retired_fired EXCEPT ![e] = @ \/ retires(ready, dc_closed'[e])]
    /\ closing' = [closing EXCEPT ![e] = IF ready /\ ~dc_closed'[e] /\ @ = "no"
                                          THEN "asked" ELSE @]

(* ---- the application ---- *)
(* The methods take the stream by &mut self: while a close waits, no other  *)
(* call is possible.                                                        *)
idle(e) == closer[e] = "none"

(* The DATA queue has room, as PollSender::poll_reserve and send see it.    *)
room(e) == Len(data_q[e]) < DataQ

(* Mutant: FIN is never queued.                                             *)
fin_lost(q) == q

(* FIN takes the ordered DATA queue, behind every accepted write.           *)
fin_behind(q) == Append(q, "FIN")

(* poll_write: a frame enters the DATA queue when it has room.              *)
poll_write(e) ==
    /\ written[e] < MaxWrites /\ idle(e)
    /\ ~peer_stop[e] /\ local_terminal[e] = "none" /\ ~dc_closed[e]
    /\ room(e)
    /\ data_q' = [data_q EXCEPT ![e] = Append(@, "DATA")]
    /\ written' = [written EXCEPT ![e] = @ + 1]
    /\ UNCHANGED <<state, retiring, closer, hand, life_q, chan, read, read_end, fatal>>

(* close_write, under the stream's lock.                                    *)
close_write(e) ==
    /\ e \notin Shutdowners /\ idle(e) /\ local_terminal[e] = "none"
    /\ local_terminal' = [local_terminal EXCEPT ![e] = "fin"]
    /\ closer' = [closer EXCEPT ![e] = "send"]
    /\ UNCHANGED <<reading, peer_stop, local_terminal_sent, drop_data, dc_closed,
                   retiring, hand, queues, chan, seen, fatal>>

(* close_write, data_tx.send(FIN): FIN waits for room behind the DATA.      *)
queue_fin(e) ==
    /\ closer[e] = "send" /\ room(e)
    /\ data_q' = [data_q EXCEPT ![e] = fin_behind(@)]
    /\ closer' = [closer EXCEPT ![e] = "none"]
    /\ UNCHANGED <<state, hand, life_q, chan, seen, fatal>>
    /\ maybe_retire(e)

(* The application gives up a close_write that waits for room.              *)
abandon_close(e) ==
    /\ e \in Abandoners /\ closer[e] = "send" /\ ~room(e)
    /\ closer' = [closer EXCEPT ![e] = "none"]
    /\ UNCHANGED <<state, retiring, hand, queues, chan, seen, fatal>>

(* poll_shutdown, first lock: claim the write half.                         *)
poll_shutdown(e) ==
    /\ e \in Shutdowners /\ idle(e) /\ local_terminal[e] = "none"
    /\ local_terminal' = [local_terminal EXCEPT ![e] = "fin"]
    /\ closer' = [closer EXCEPT ![e] = "shutdown"]
    /\ UNCHANGED <<reading, peer_stop, local_terminal_sent, drop_data, dc_closed,
                   retiring, hand, queues, chan, seen, fatal>>

(* poll_shutdown, the rest: queue FIN, or undo the claim when there is no   *)
(* room, so that the next poll starts again.                                *)
poll_shutdown_reserve(e) ==
    /\ closer[e] = "shutdown"
    /\ closer' = [closer EXCEPT ![e] = "none"]
    /\ \/ /\ room(e)
          /\ data_q' = [data_q EXCEPT ![e] = fin_behind(@)]
          /\ UNCHANGED state
          /\ maybe_retire(e)
       \/ /\ ~room(e)
          /\ local_terminal' = [local_terminal EXCEPT ![e] = "none"]
          /\ UNCHANGED <<reading, peer_stop, local_terminal_sent, drop_data, dc_closed,
                         retiring, data_q>>
    /\ UNCHANGED <<hand, life_q, chan, seen, fatal>>

(* reset_write: discard what is queued, RESET goes first.                   *)
reset_write(e) ==
    /\ e \in Resetters /\ idle(e) /\ local_terminal[e] = "none"
    /\ local_terminal' = [local_terminal EXCEPT ![e] = "reset"]
    /\ drop_data' = [drop_data EXCEPT ![e] = TRUE]
    /\ life_q' = [life_q EXCEPT ![e] = Append(@, "RESET")]
    /\ UNCHANGED <<reading, peer_stop, local_terminal_sent, dc_closed, closer, hand,
                   data_q, chan, seen, fatal>>
    /\ maybe_retire(e)

(* poll_read with something buffered.                                       *)
poll_read(e) ==
    /\ idle(e) /\ inbuf[e] > 0
    /\ inbuf' = [inbuf EXCEPT ![e] = @ - 1]
    /\ read' = [read EXCEPT ![e] = @ + 1]
    /\ UNCHANGED <<peer_terminal, read_cancel, writing, dc_closed, closer, hand, queues,
                   chan, written, read_end, fatal>>
    /\ maybe_retire(e)

(* Mutant: FIN is reported before what is buffered.                         *)
at_eof_early(e) == ~read_cancel[e] /\ peer_terminal[e] = "fin"

(* The reader has drained the buffer and the peer has finished.             *)
at_eof(e) == inbuf[e] = 0 /\ ~read_cancel[e] /\ peer_terminal[e] = "fin"

(* poll_read with nothing buffered, after FIN or RESET: end of file, or the *)
(* peer's error.                                                            *)
poll_read_end(e) ==
    /\ idle(e) /\ read_end[e] = "open"
    /\ \/ at_eof(e) /\ read_end' = [read_end EXCEPT ![e] = "eof"]
       \/ /\ inbuf[e] = 0 /\ ~read_cancel[e] /\ peer_terminal[e] = "reset"
          /\ read_end' = [read_end EXCEPT ![e] = "error"]
    /\ UNCHANGED <<state, retiring, closer, hand, queues, chan, written, read, fatal>>

(* cancel_read: discard what is buffered and ask the peer to stop.          *)
cancel_read(e) ==
    /\ e \in Cancellers /\ idle(e) /\ ~read_cancel[e]
    /\ read_cancel' = [read_cancel EXCEPT ![e] = TRUE]
    /\ inbuf' = [inbuf EXCEPT ![e] = 0]
    /\ life_q' = [life_q EXCEPT
                    ![e] = IF peer_terminal[e] = "none" THEN Append(@, "STOP") ELSE @]
    /\ UNCHANGED <<peer_terminal, writing, dc_closed, closer, hand, data_q, chan, seen,
                   fatal>>
    /\ maybe_retire(e)

(* ---- the writer task ---- *)

(* Mutant: queued DATA survives a reset.                                    *)
dropping_never(e, f) == FALSE

(* Queued DATA is discarded after a reset.                                  *)
dropping(e, f) == drop_data[e] /\ f = "DATA"

(* The next frame: lifecycle frames first, biased as the select is.         *)
writer_take(e) ==
    /\ hand[e] = NoFrame
    /\ \/ /\ life_q[e] # <<>>
          /\ hand' = [hand EXCEPT ![e] = [frame |-> Head(life_q[e]), sent |-> FALSE]]
          /\ life_q' = [life_q EXCEPT ![e] = Tail(@)]
          /\ UNCHANGED data_q
       \/ /\ life_q[e] = <<>> /\ data_q[e] # <<>>
          /\ hand' = [hand EXCEPT
                        ![e] = IF dropping(e, Head(data_q[e]))
                               THEN NoFrame
                               ELSE [frame |-> Head(data_q[e]), sent |-> FALSE]]
          /\ data_q' = [data_q EXCEPT ![e] = Tail(@)]
          /\ UNCHANGED life_q
    /\ UNCHANGED <<state, retiring, closer, chan, seen, fatal>>

unsent(e) == hand[e].frame \in Frames /\ ~hand[e].sent

(* dc.send: the frame is in the transport's hands; the await has yet to     *)
(* return.                                                                  *)
writer_send(e) ==
    /\ unsent(e) /\ ~dc_closed[e] /\ closing[e] # "sent"
    /\ chan' = [chan EXCEPT ![e] = Append(@, hand[e].frame)]
    /\ hand' = [hand EXCEPT ![e].sent = TRUE]
    /\ UNCHANGED <<state, retiring, closer, queues, seen, fatal>>

(* dc.send fails on a channel that is closed or closing: the task returns,  *)
(* and with it go its ends of the queues.  By then both terminal frames are *)
(* on the wire, so that no later call has a frame to queue.                 *)
writer_fail(e) ==
    /\ unsent(e) /\ (dc_closed[e] \/ closing[e] = "sent")
    /\ hand' = [hand EXCEPT ![e] = Ended]
    /\ data_q' = [data_q EXCEPT ![e] = <<>>]
    /\ life_q' = [life_q EXCEPT ![e] = <<>>]
    /\ UNCHANGED <<state, retiring, closer, chan, seen, fatal>>

(* Mutant: no terminal frame is recorded as sent.                           *)
ends_write_half_never(f) == FALSE

(* The frames that make the local write half terminal on the wire.          *)
ends_write_half(f) == f \in TerminalFrames

(* mark_terminal_sent, after the await.                                     *)
writer_sent(e) ==
    /\ hand[e].sent
    /\ local_terminal_sent' = [local_terminal_sent EXCEPT
                                 ![e] = @ \/ ends_write_half(hand[e].frame)]
    /\ hand' = [hand EXCEPT ![e] = NoFrame]
    /\ UNCHANGED <<reading, peer_stop, local_terminal, drop_data, dc_closed, closer,
                   queues, chan, seen, fatal>>
    /\ IF ends_write_half(hand[e].frame) THEN maybe_retire(e)
                                         ELSE UNCHANGED retiring

(* The task maybe_retire spawned closes the channel.                        *)
close_channel(e) ==
    /\ closing[e] = "asked" /\ ~dc_closed[e]
    /\ closing' = [closing EXCEPT ![e] = "sent"]
    /\ chan' = [chan EXCEPT ![e] = Append(@, "CLOSE")]
    /\ UNCHANGED <<state, retired_fired, closer, hand, queues, seen, fatal>>

(* ---- the data channel's callback ---- *)

(* The next frame from the peer is f.                                       *)
arrives(e, f) ==
    /\ chan[peer(e)] # <<>> /\ Head(chan[peer(e)]) = f

(* on_frame, DATA.                                                          *)
on_data(e) ==
    /\ arrives(e, "DATA")
    /\ chan' = [chan EXCEPT ![peer(e)] = Tail(@)]
    /\ fatal' = IF peer_terminal[e] # "none" THEN "DATA after terminal frame" ELSE fatal
    /\ inbuf' = [inbuf EXCEPT
                   ![e] = IF read_cancel[e] \/ peer_terminal[e] # "none" THEN @ ELSE @ + 1]
    /\ UNCHANGED <<peer_terminal, read_cancel, writing, dc_closed, retiring, closer, hand,
                   queues, seen>>

(* on_frame, FIN and RESET; RESET discards what is buffered.                *)
on_terminal(e, f) ==
    /\ arrives(e, f)
    /\ chan' = [chan EXCEPT ![peer(e)] = Tail(@)]
    /\ fatal' = IF peer_terminal[e] # "none" THEN "second terminal frame" ELSE fatal
    /\ peer_terminal' = [peer_terminal EXCEPT
                           ![e] = IF @ # "none" THEN @
                                  ELSE IF f = "FIN" THEN "fin" ELSE "reset"]
    /\ inbuf' = [inbuf EXCEPT ![e] = IF f = "FIN" \/ peer_terminal[e] # "none" THEN @ ELSE 0]
    /\ UNCHANGED <<read_cancel, writing, dc_closed, closer, hand, queues, seen>>
    /\ maybe_retire(e)

(* Mutant: STOP_SENDING is answered whatever was sent.                      *)
auto_reset_always(e) == ~peer_stop[e]

(* The first STOP_SENDING resets a write half that is not terminal.         *)
auto_reset(e) == ~peer_stop[e] /\ local_terminal[e] = "none"

(* on_frame, STOP_SENDING: reply with RESET unless a terminal frame has     *)
(* been decided on.                                                         *)
on_stop_sending(e) ==
    /\ arrives(e, "STOP")
    /\ chan' = [chan EXCEPT ![peer(e)] = Tail(@)]
    /\ peer_stop' = [peer_stop EXCEPT ![e] = TRUE]
    /\ \/ /\ auto_reset(e)
          /\ local_terminal' = [local_terminal EXCEPT ![e] = "reset"]
          /\ drop_data' = [drop_data EXCEPT ![e] = TRUE]
          /\ life_q' = [life_q EXCEPT ![e] = Append(@, "RESET")]
          /\ UNCHANGED <<reading, local_terminal_sent, dc_closed>>
          /\ maybe_retire(e)
       \/ /\ ~auto_reset(e)
          /\ UNCHANGED <<reading, local_terminal, local_terminal_sent, drop_data,
                         dc_closed, retiring, life_q>>
    /\ UNCHANGED <<closer, hand, data_q, seen, fatal>>

(* on_channel_close; the transport answers the peer's close with its own,   *)
(* and what the writer task had left to send is lost.                       *)
on_channel_close(e) ==
    /\ arrives(e, "CLOSE")
    /\ dc_closed' = [dc_closed EXCEPT ![e] = TRUE]
    /\ chan' = [chan EXCEPT ![peer(e)] = Tail(@),
                            ![e] = IF closing[e] = "sent" THEN @ ELSE Append(@, "CLOSE")]
    /\ fatal' = IF wire_complete(local_terminal[e], local_terminal_sent[e],
                                 peer_terminal[e])
                THEN fatal ELSE "data channel closed mid-stream"
    /\ UNCHANGED <<reading, writing, closer, hand, queues, seen>>
    /\ maybe_retire(e)

Application(e) ==
    \/ poll_write(e) \/ close_write(e) \/ queue_fin(e) \/ abandon_close(e)
    \/ poll_shutdown(e) \/ poll_shutdown_reserve(e) \/ reset_write(e)
    \/ poll_read(e) \/ poll_read_end(e) \/ cancel_read(e)
WriterTask(e) ==
    writer_take(e) \/ writer_send(e) \/ writer_fail(e) \/ writer_sent(e) \/ close_channel(e)
Callback(e) ==
    \/ on_data(e) \/ (\E f \in TerminalFrames : on_terminal(e, f))
    \/ on_stop_sending(e) \/ on_channel_close(e)

(* The connection's failure ends every stream of it.                        *)
Next ==
    /\ fatal = "none"
    /\ \E e \in Endpoints : Application(e) \/ WriterTask(e) \/ Callback(e)

Spec == Init /\ [][Next]_vars

-----------------------------------------------------------------------------
(* Every variable has its type.                                             *)
TypeOK ==
    /\ inbuf \in [Endpoints -> 0..MaxWrites]
    /\ peer_terminal \in [Endpoints -> {"none", "fin", "reset"}]
    /\ local_terminal \in [Endpoints -> {"none", "fin", "reset"}]
    /\ {peer_stop, local_terminal_sent, read_cancel, drop_data, dc_closed,
        retired_fired} \subseteq [Endpoints -> BOOLEAN]
    /\ closing \in [Endpoints -> {"no", "asked", "sent"}]
    /\ read_end \in [Endpoints -> {"open", "eof", "error"}]
    /\ closer \in [Endpoints -> {"none", "send", "shutdown"}]
    /\ \A e \in Endpoints :
         /\ hand[e] \in {NoFrame, Ended} \cup [frame : Frames \ {"CLOSE"}, sent : BOOLEAN]
         /\ data_q[e] \in Seq({"DATA", "FIN"}) /\ Len(data_q[e]) \leq DataQ
         /\ life_q[e] \in Seq({"RESET", "STOP"}) /\ Len(life_q[e]) \leq 2
         /\ chan[e] \in Seq(Frames)
    /\ {written, read} \subseteq [Endpoints -> 0..MaxWrites]

(* Two endpoints running this code never convict each other of a frame out  *)
(* of order: no DATA follows a terminal frame and no terminal frame follows *)
(* another, whatever closes, resets, cancels and their replies cross.       *)
NoProtocolError ==
    fatal \notin {"DATA after terminal frame", "second terminal frame"}

(* The stream implements the byte stream its trait promises: end of file    *)
(* only after every frame written, an error only after a reset, a reset     *)
(* only by the application or in answer to a cancelled read.  A claim that  *)
(* poll_shutdown may still undo counts as an open write half.               *)
Promise ==
    INSTANCE ByteStream WITH
        write_half <- [e \in Endpoints |->
                         IF local_terminal[e] = "none" \/ closer[e] = "shutdown"
                         THEN "open" ELSE local_terminal[e]],
        read_half <- [e \in Endpoints |->
                        IF read_cancel[e] THEN "cancelled" ELSE read_end[e]]
ImplementsByteStream == Promise!Spec

(* How often the terminal frame of e's write half is on its way.            *)
Holds(seq) == Cardinality({i \in 1..Len(seq) : seq[i] \in TerminalFrames})
One(cond) == IF cond THEN 1 ELSE 0
TerminalsHeld(e) ==
    One(closer[e] # "none") + Holds(data_q[e]) + Holds(life_q[e])
        + One(hand[e].frame \in TerminalFrames) + One(local_terminal_sent[e])

(* The local_terminal flag is never an empty promise: while the channel     *)
(* lives, a write half marked terminal has its FIN or RESET in exactly one  *)
(* place on the way to the wire, and an unmarked one has none, also when    *)
(* poll_shutdown undoes its claim.  An application that drops a waiting     *)
(* close_write loses its FIN and is left out.                               *)
TerminalOnItsWay ==
    \A e \in Endpoints \ Abandoners : ~dc_closed[e] /\ hand[e] # Ended =>
        TerminalsHeld(e) = One(local_terminal[e] # "none")

(* A stream's slot is returned only when the wire is silent: the peer has   *)
(* sent its terminal frame and nothing of the stream is left to arrive.     *)
RetiredIsSilent ==
    \A e \in Endpoints : retired_fired[e] =>
        /\ chan[peer(e)] = <<>> /\ inbuf[e] = 0
        /\ local_terminal[peer(e)] # "none"

(* The channel is found closed mid-stream only by an endpoint whose writer  *)
(* task has handed over its terminal frame but not yet recorded it.         *)
MidStreamWindow ==
    fatal = "data channel closed mid-stream" =>
        \E e \in Endpoints :
            dc_closed[e] /\ hand[e].sent /\ hand[e].frame \in TerminalFrames

(* Fairness: the runtime polls the writer task, the transport delivers and  *)
(* runs the callbacks, a waiting close is polled when there is room, a poll *)
(* of poll_shutdown goes through (it does not await between its locks), and *)
(* the application reads what is there.                                     *)
Fairness ==
    \A e \in Endpoints :
        /\ WF_vars(fatal = "none" /\ WriterTask(e))
        /\ WF_vars(fatal = "none" /\ Callback(e))
        /\ WF_vars(fatal = "none" /\ queue_fin(e))
        /\ WF_vars(fatal = "none" /\ poll_shutdown_reserve(e))
        /\ WF_vars(fatal = "none" /\ (poll_read(e) \/ poll_read_end(e)))
LiveSpec == Spec /\ Fairness

(* e's write half has been closed, reset or stopped: not by a claim         *)
(* that poll_shutdown may undo, nor by a close_write that its application   *)
(* may still drop, or has dropped, so that there is no FIN.                 *)
Finished(e) ==
    /\ local_terminal[e] # "none" /\ closer[e] # "shutdown"
    /\ e \in Abandoners => closer[e] = "none" /\ TerminalsHeld(e) = 1

(* Once both write halves are finished, both ends retire the stream and its *)
(* slot returns, unless the connection fails.                               *)
Retires ==
    (\A e \in Endpoints : Finished(e))
        ~> (fatal # "none" \/ \A e \in Endpoints : retired_fired[e])

(* A graceful close reaches the peer's reader as end of file, unless that   *)
(* reader cancelled or the connection fails.                                *)
FinReachesReader ==
    \A e \in Endpoints :
        (Finished(e) /\ local_terminal[e] = "fin")
            ~> \/ read_end[peer(e)] = "eof"
               \/ read_cancel[peer(e)] \/ fatal # "none"

=============================================================================
