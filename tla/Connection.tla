----------------------------- MODULE Connection -----------------------------
(***************************************************************************)
(* A WebRTC connection from the opening of its control channel to its       *)
(* teardown, both endpoints of it (libs/rust/kps/src/conn.rs, with the      *)
(* stream slots of flow.rs): the HELLO exchange of SPEC 8, the staging of   *)
(* early streams, MAX_STREAMS credit, and the ways a connection ends.       *)
(*                                                                          *)
(* Concurrent at each endpoint: send_hello, the control channel's handler,  *)
(* the handler of new data channels, the watcher spawned by `new`, the      *)
(* tasks that tear the connection down, and an application that opens and   *)
(* accepts streams.  The atomics of HelloState are read and written in      *)
(* separate steps wherever the code does.                                   *)
(*                                                                          *)
(* Abstractions: streams are counted, their contents are left to            *)
(* StreamLifecycle and CreditFlow; the control channel is ordered, and      *)
(* unordered with respect to the opening of other channels.                 *)
(***************************************************************************)
EXTENDS Integers, Sequences

CONSTANTS
    MaxStreams,     \* FlowLimits.max_streams of both endpoints
    MaxOpens,       \* bound: streams each application opens
    Openers,        \* endpoints whose application opens streams
    Closers,        \* endpoints whose application may close the connection
    Abandoners,     \* endpoints that may drop a pending open_stream
    Impatient,      \* endpoints that may end both halves of a stream unaccepted
    WireVersions,   \* the WIRE_VERSIONs the two endpoints may be built with
    Slow            \* endpoints at which the HELLO timeout may expire

Endpoints == {"a", "b"}
peer(e) == IF e = "a" THEN "b" ELSE "a"

ASSUME ConnectionAssumption ==
    /\ MaxStreams \in Nat /\ MaxOpens \in Nat
    /\ WireVersions \subseteq [Endpoints -> Nat]
    /\ {Openers, Closers, Abandoners, Impatient, Slow} \subseteq SUBSET Endpoints

VARIABLES
    hello,      \* WIRE_VERSION and HelloState: [version, sent, received, established]
    task,       \* program counters: [hello, control, watcher, open, incoming, accept]
    incoming,   \* IncomingQueue and what left it: [staged, queue, accepted]
    life,       \* [tearing_down, closed, err, dead, is_failed]
    ending,     \* teardown tasks in progress: pairs of a step and a code
    streams_reserved, streams_opened, peer_max_streams,     \* slots, opening side
    peer_opened_streams, advertised_max_streams,            \* slots, accepting side
    control,    \* messages each endpoint has sent on the control channel
    channels    \* data channels each endpoint has opened that are in flight

opening == <<streams_reserved, streams_opened, peer_max_streams>>
accepting == <<peer_opened_streams, advertised_max_streams>>
slots == <<opening, accepting>>
wire == <<control, channels>>
vars == <<hello, task, incoming, life, ending, slots, wire>>

\* The reasons of a teardown; "lost" and "protocol" are both protocol-error in
\* the code: "protocol" convicts the peer of a wire violation.
Codes == {"none", "app", "unsupported", "timeout", "network", "lost", "protocol"}

All(v) == [e \in Endpoints |-> v]

Init ==
    /\ \E v \in WireVersions :
         hello = [e \in Endpoints |-> [version |-> v[e], sent |-> FALSE,
                                      received |-> FALSE, established |-> FALSE]]
    /\ task = All([hello |-> "opening", control |-> "idle", watcher |-> "hello",
                   open |-> "idle", incoming |-> "idle", accept |-> "idle"])
    /\ incoming = All([staged |-> 0, queue |-> 0, accepted |-> 0])
    /\ life = All([tearing_down |-> FALSE, closed |-> FALSE, err |-> "none",
                   dead |-> FALSE, is_failed |-> FALSE])
    /\ ending = All({})
    /\ streams_reserved = All(0) /\ streams_opened = All(0) /\ peer_max_streams = All(0)
    /\ peer_opened_streams = All(0) /\ advertised_max_streams = All(MaxStreams)
    /\ control = All(<<>>) /\ channels = All(0)

-----------------------------------------------------------------------------
(* The shared helpers.                                                      *)

(* Mutant: credit events wake no open_stream.                               *)
wake_open_forgets(t) == t

(* wake_locked, for a task waiting in reserve_stream_slot.                  *)
wake_open(t) == [t EXCEPT !.open = IF @ = "parked" THEN "reserve" ELSE @]

(* Mutant: new streams wake no accept_stream.                               *)
wake_accept_forgets(t) == t

(* IncomingQueue.notify.                                                    *)
wake_accept(t) == [t EXCEPT !.accept = "idle"]

(* Mutant: a close without an error is not recorded.                        *)
mark_errors_only(l, code) ==
    IF l.closed \/ code = "none" THEN l ELSE [l EXCEPT !.closed = TRUE, !.err = code]

(* CloseState::mark: the first reason wins.                                 *)
mark(l, code) == IF l.closed THEN l ELSE [l EXCEPT !.closed = TRUE, !.err = code]

(* close_state.mark and pc.close: no callback of e runs after it.           *)
tear_down(e, code) ==
    /\ life' = [life EXCEPT ![e] = [mark(@, code) EXCEPT !.tearing_down = TRUE,
                                                         !.dead = TRUE]]
    /\ task' = [task EXCEPT ![e].accept = "idle"]

(* fatal: the first caller spawns the task that conveys the code.           *)
fatal(e, code) ==
    /\ life' = [life EXCEPT ![e].tearing_down = TRUE]
    /\ ending' = [ending EXCEPT ![e] = IF life[e].tearing_down THEN @
                                        ELSE @ \cup {<<"send", code>>}]

(* Mutant: the sense of the swap is inverted.                               *)
check_inverted(h) == h.sent /\ h.received /\ h.established

(* HelloState::check, which only one of its callers passes.                 *)
check(h) == h.sent /\ h.received /\ ~h.established

(* The control message m, if the channel of e is open.                      *)
send(e, m) ==
    control' = [control EXCEPT
                  ![e] = IF task[e].hello # "opening" /\ ~life[e].dead THEN Append(@, m)
                         ELSE @]

-----------------------------------------------------------------------------
(* send_hello, from the control channel's on_open.                          *)
send_hello(e) ==
    /\ task[e].hello = "opening" /\ ~life[e].dead
    /\ hello' = [hello EXCEPT ![e].sent = TRUE]
    /\ task' = [task EXCEPT ![e].hello = "send"]
    /\ UNCHANGED <<incoming, life, ending, slots, wire>>

(* send_hello, control.send.                                                *)
send_hello_send(e) ==
    /\ task[e].hello = "send"
    /\ send(e, <<"HELLO">>)
    /\ task' = [task EXCEPT ![e].hello = "check"]
    /\ UNCHANGED <<hello, incoming, life, ending, slots, channels>>

(* hello.check by send_hello (t is "hello") or on_control ("control").      *)
hello_check(e, t) ==
    /\ task[e][t] = "check"
    /\ hello' = [hello EXCEPT ![e].established = @ \/ check(hello[e])]
    /\ task' = [task EXCEPT ![e][t] = IF check(hello[e]) THEN "flush" ELSE "idle"]
    /\ UNCHANGED <<incoming, life, ending, slots, wire>>

(* IncomingQueue::flush_staged by whichever passed the check.               *)
flush_staged(e, t) ==
    /\ task[e][t] = "flush"
    /\ incoming' = [incoming EXCEPT ![e].queue = @ + incoming[e].staged, ![e].staged = 0]
    /\ task' = [task EXCEPT ![e] = LET idle == [@ EXCEPT ![t] = "idle"] IN
                  IF incoming[e].staged = 0 THEN idle ELSE wake_accept(idle)]
    /\ UNCHANGED <<hello, life, ending, slots, wire>>

(* on_control takes the next message, of type m.                            *)
receives(e, m) ==
    /\ task[e].control = "idle" /\ ~life[e].dead
    /\ control[peer(e)] # <<>> /\ Head(control[peer(e)])[1] = m
    /\ control' = [control EXCEPT ![peer(e)] = Tail(@)]

(* on_control, HELLO: the received flag.                                    *)
on_hello(e) ==
    /\ receives(e, "HELLO")
    /\ IF hello[e].received
       THEN fatal(e, "protocol") /\ UNCHANGED <<hello, task>>
       ELSE /\ hello' = [hello EXCEPT ![e].received = TRUE]
            /\ task' = [task EXCEPT ![e].control = "hello"]
            /\ UNCHANGED <<life, ending>>
    /\ UNCHANGED <<incoming, slots, channels>>

(* Mutant: any peer is supported.                                           *)
supported_always(e) == TRUE

(* The peer speaks WIRE_VERSION.                                            *)
supported(e) == hello[peer(e)].version = hello[e].version

(* on_control, HELLO of this version: on_peer_hello seeds the limits.       *)
on_peer_hello(e) ==
    /\ task[e].control = "hello" /\ supported(e)
    /\ peer_max_streams' = [peer_max_streams EXCEPT ![e] = MaxStreams]
    /\ task' = [task EXCEPT ![e] = [wake_open(@) EXCEPT !.control = "check"]]
    /\ UNCHANGED <<hello, incoming, life, ending, streams_reserved, streams_opened,
                   accepting, wire>>

(* on_control, HELLO of another version: refuse, then tear down.            *)
refuse(e) ==
    /\ task[e].control = "hello" /\ ~supported(e)
    /\ ending' = [ending EXCEPT ![e] = @ \cup {<<"send", "unsupported">>}]
    /\ task' = [task EXCEPT ![e].control = "refused"]
    /\ UNCHANGED <<hello, incoming, life, slots, wire>>

(* on_control, CONNECTION_CLOSE.                                            *)
on_close(e) ==
    /\ receives(e, "CLOSE")
    /\ tear_down(e, Head(control[peer(e)])[2])
    /\ UNCHANGED <<hello, incoming, ending, slots, channels>>

(* on_control, MAX_STREAMS: on_peer_max_streams, decreases ignored.         *)
on_max_streams(e) ==
    LET v == Head(control[peer(e)])[2] IN
    /\ receives(e, "MAX_STREAMS")
    /\ IF ~hello[e].received
       THEN fatal(e, "protocol") /\ UNCHANGED <<task, peer_max_streams>>
       ELSE /\ peer_max_streams' = [peer_max_streams EXCEPT ![e] = IF v > @ THEN v ELSE @]
            /\ task' = [task EXCEPT ![e] = IF v > peer_max_streams[e] THEN wake_open(@)
                                                                      ELSE @]
            /\ UNCHANGED <<life, ending>>
    /\ UNCHANGED <<hello, incoming, streams_reserved, streams_opened, accepting,
                   channels>>

-----------------------------------------------------------------------------
(* Streams.                                                                 *)

(* open_stream: the application asks.                                       *)
open_stream(e) ==
    /\ e \in Openers /\ streams_opened[e] + streams_reserved[e] < MaxOpens
    /\ task[e].open = "idle" /\ ~life[e].closed
    /\ task' = [task EXCEPT ![e].open = "establish"]
    /\ UNCHANGED <<hello, incoming, life, ending, slots, wire>>

(* open_stream, wait_established.                                           *)
wait_established(e) ==
    /\ task[e].open = "establish"
    /\ \/ /\ hello[e].established
          /\ task' = [task EXCEPT ![e].open = "reserve"]
       \/ /\ life[e].closed
          /\ task' = [task EXCEPT ![e].open = "idle"]
    /\ UNCHANGED <<hello, incoming, life, ending, slots, wire>>

(* Mutant: one slot too many.                                               *)
slot_free_off_by_one(e) == streams_opened[e] + streams_reserved[e] <= peer_max_streams[e]

(* A slot is left of the peer's limit.                                      *)
slot_free(e) == streams_opened[e] + streams_reserved[e] < peer_max_streams[e]

(* reserve_stream_slot: fail, take a slot, or wait.                         *)
reserve_stream_slot(e) ==
    /\ task[e].open = "reserve"
    /\ \/ /\ life[e].is_failed
          /\ task' = [task EXCEPT ![e].open = "idle"]
          /\ UNCHANGED streams_reserved
       \/ /\ ~life[e].is_failed /\ slot_free(e)
          /\ streams_reserved' = [streams_reserved EXCEPT ![e] = @ + 1]
          /\ task' = [task EXCEPT ![e].open = "create"]
       \/ /\ ~life[e].is_failed /\ ~slot_free(e)
          /\ task' = [task EXCEPT ![e].open = "parked"]
          /\ UNCHANGED streams_reserved
    /\ UNCHANGED <<hello, incoming, life, ending, streams_opened, peer_max_streams,
                   accepting, wire>>

(* open_stream, create_data_channel succeeds: commit_stream_slot.           *)
commit_stream_slot(e) ==
    /\ task[e].open = "create" /\ ~life[e].dead
    /\ streams_reserved' = [streams_reserved EXCEPT ![e] = @ - 1]
    /\ streams_opened' = [streams_opened EXCEPT ![e] = @ + 1]
    /\ channels' = [channels EXCEPT ![e] = @ + 1]
    /\ task' = [task EXCEPT ![e].open = "idle"]
    /\ UNCHANGED <<hello, incoming, life, ending, peer_max_streams, accepting, control>>

(* open_stream, create_data_channel fails: release_stream_slot.             *)
release_stream_slot(e) ==
    /\ task[e].open = "create" /\ life[e].dead
    /\ streams_reserved' = [streams_reserved EXCEPT ![e] = @ - 1]
    /\ task' = [task EXCEPT ![e].open = "idle"]
    /\ UNCHANGED <<hello, incoming, life, ending, streams_opened, peer_max_streams,
                   accepting, wire>>

(* The application drops an open_stream that is creating its channel.       *)
abandon_open(e) ==
    /\ e \in Abandoners /\ task[e].open = "create"
    /\ task' = [task EXCEPT ![e].open = "idle"]
    /\ UNCHANGED <<hello, incoming, life, ending, slots, wire>>

(* Mutant: an incoming stream is surfaced whatever the handshake's state.   *)
surfaces_always(e) == "push"

(* handle_incoming, the check of is_established.                            *)
surfaces(e) == IF hello[e].established THEN "push" ELSE "stage"

(* handle_incoming: peer_stream_opened, then the check.                     *)
handle_incoming(e) ==
    /\ task[e].incoming = "idle" /\ ~life[e].dead /\ channels[peer(e)] > 0
    /\ channels' = [channels EXCEPT ![peer(e)] = @ - 1]
    /\ IF peer_opened_streams[e] >= advertised_max_streams[e]
       THEN fatal(e, "protocol") /\ UNCHANGED <<task, peer_opened_streams>>
       ELSE /\ peer_opened_streams' = [peer_opened_streams EXCEPT ![e] = @ + 1]
            /\ task' = [task EXCEPT ![e].incoming = surfaces(e)]
            /\ UNCHANGED <<life, ending>>
    /\ UNCHANGED <<hello, incoming, opening, advertised_max_streams, control>>

(* handle_incoming, incoming.push.                                          *)
push(e) ==
    /\ task[e].incoming = "push"
    /\ incoming' = [incoming EXCEPT ![e].queue = @ + 1]
    /\ task' = [task EXCEPT ![e] = [wake_accept(@) EXCEPT !.incoming = "idle"]]
    /\ UNCHANGED <<hello, life, ending, slots, wire>>

(* handle_incoming, incoming.stage.                                         *)
stage(e) ==
    /\ task[e].incoming = "stage"
    /\ incoming' = [incoming EXCEPT ![e].staged = @ + 1]
    /\ task' = [task EXCEPT ![e].incoming = "idle"]
    /\ UNCHANGED <<hello, life, ending, slots, wire>>

(* accept_stream, which an application has only on an established           *)
(* connection: take a stream, or wait for one.                              *)
accept_stream(e) ==
    /\ task[e].accept = "idle" /\ hello[e].established
    /\ \/ /\ incoming[e].queue > 0
          /\ incoming' = [incoming EXCEPT ![e].queue = @ - 1, ![e].accepted = @ + 1]
          /\ UNCHANGED task
       \/ /\ incoming[e].queue = 0 /\ ~life[e].closed
          /\ task' = [task EXCEPT ![e].accept = "parked"]
          /\ UNCHANGED incoming
    /\ UNCHANGED <<hello, life, ending, slots, wire>>

(* The peer's streams whose halves may both have ended: the application     *)
(* ends its own after accepting the stream; an impatient peer's             *)
(* STOP_SENDING ends it (on_frame), accepted or not.                        *)
ended(e) == IF peer(e) \in Impatient THEN peer_opened_streams[e] ELSE incoming[e].accepted

(* peer_stream_retired, from the retired hook of a stream.  The             *)
(* control-writer task sends the advertisement; MAX_OFFSET is out of reach. *)
peer_stream_retired(e) ==
    /\ advertised_max_streams[e] - MaxStreams < ended(e)
    /\ advertised_max_streams' = [advertised_max_streams EXCEPT ![e] = @ + 1]
    /\ send(e, <<"MAX_STREAMS", advertised_max_streams[e] + 1>>)
    /\ UNCHANGED <<hello, task, incoming, life, ending, opening, peer_opened_streams,
                   channels>>

-----------------------------------------------------------------------------
(* Teardown.                                                                *)

(* close_with_error, and close, which is the same with the code 0; bound:   *)
(* the application closes an open connection, and not twice at once.        *)
close_with_error(e) ==
    /\ e \in Closers /\ hello[e].established /\ ~life[e].closed
    /\ \A t \in ending[e] : t[2] # "app"
    /\ life' = [life EXCEPT ![e].tearing_down = TRUE]
    /\ ending' = [ending EXCEPT ![e] = @ \cup {<<"send", "app">>}]
    /\ UNCHANGED <<hello, task, incoming, slots, wire>>

(* A teardown task sends CONNECTION_CLOSE if it can.                        *)
send_close_and_flush(e, code) ==
    /\ <<"send", code>> \in ending[e]
    /\ ending' = [ending EXCEPT ![e] = (@ \ {<<"send", code>>}) \cup {<<"mark", code>>}]
    /\ send(e, <<"CLOSE", code>>)
    /\ UNCHANGED <<hello, task, incoming, life, slots, channels>>

(* The same task marks the connection closed and closes the transport.      *)
close_mark(e, code) ==
    /\ <<"mark", code>> \in ending[e]
    /\ ending' = [ending EXCEPT ![e] = @ \ {<<"mark", code>>}]
    /\ tear_down(e, code)
    /\ UNCHANGED <<hello, incoming, slots, wire>>

(* The peer closed the transport.                                           *)
transport_gone(e) == ~life[e].dead /\ life[peer(e)].dead

(* The dialer's and listener's state callback: Failed or Closed.            *)
on_state_change(e) ==
    /\ transport_gone(e)
    /\ life' = [life EXCEPT ![e] = [mark(@, "none") EXCEPT !.dead = TRUE]]
    /\ task' = [task EXCEPT ![e].accept = "idle"]
    /\ UNCHANGED <<hello, incoming, ending, slots, wire>>

(* reserved_channel_lost, the association's failure known already.          *)
reserved_channel_lost(e) ==
    /\ transport_gone(e) /\ ~life[e].tearing_down /\ ~life[e].closed
    /\ tear_down(e, "network")
    /\ UNCHANGED <<hello, incoming, ending, slots, wire>>

(* reserved_channel_lost with the association's failure not known yet, or   *)
(* on_channel_close of a stream: connection-fatal.                          *)
channel_lost(e) ==
    /\ transport_gone(e) /\ ~life[e].tearing_down /\ ~life[e].closed
    /\ fatal(e, "lost")
    /\ UNCHANGED <<hello, task, incoming, slots, wire>>

(* The watcher, HELLO seen: only close_state.wait is left.                  *)
watch_established(e) ==
    /\ task[e].watcher = "hello" /\ hello[e].established
    /\ task' = [task EXCEPT ![e].watcher = "close"]
    /\ UNCHANGED <<hello, incoming, life, ending, slots, wire>>

(* The watcher, HELLO_TIMEOUT: fatal, and the watcher returns.              *)
hello_timeout(e) ==
    /\ e \in Slow /\ task[e].watcher = "hello"
    /\ task' = [task EXCEPT ![e].watcher = "ended"]
    /\ fatal(e, "timeout")
    /\ UNCHANGED <<hello, incoming, slots, wire>>

(* The watcher, connection closed: flow.fail.                               *)
watch_close(e) ==
    /\ task[e].watcher \in {"hello", "close"} /\ life[e].closed
    /\ life' = [life EXCEPT ![e].is_failed = TRUE]
    /\ task' = [task EXCEPT ![e] = [wake_open(@) EXCEPT !.watcher = "ended"]]
    /\ UNCHANGED <<hello, incoming, ending, slots, wire>>

-----------------------------------------------------------------------------
HelloTask(e) ==
    \/ send_hello(e) \/ send_hello_send(e)
    \/ hello_check(e, "hello") \/ flush_staged(e, "hello")
ControlTask(e) ==
    \/ on_hello(e) \/ on_peer_hello(e) \/ refuse(e) \/ on_close(e) \/ on_max_streams(e)
    \/ hello_check(e, "control") \/ flush_staged(e, "control")
Opening(e) ==
    \/ wait_established(e) \/ reserve_stream_slot(e)
    \/ commit_stream_slot(e) \/ release_stream_slot(e)
Accepting(e) == handle_incoming(e) \/ push(e) \/ stage(e)
TeardownTasks(e) ==
    \E code \in {t[2] : t \in ending[e]} : send_close_and_flush(e, code) \/ close_mark(e, code)
Ending(e) ==
    \/ TeardownTasks(e)
    \/ watch_established(e) \/ watch_close(e)
Losing(e) == on_state_change(e) \/ reserved_channel_lost(e) \/ channel_lost(e)
Choices(e) ==
    open_stream(e) \/ abandon_open(e) \/ close_with_error(e) \/ hello_timeout(e)

Next ==
    \E e \in Endpoints :
        \/ HelloTask(e) \/ ControlTask(e) \/ Opening(e) \/ Accepting(e) \/ Ending(e)
        \/ Losing(e) \/ Choices(e) \/ accept_stream(e) \/ peer_stream_retired(e)

Spec == Init /\ [][Next]_vars

-----------------------------------------------------------------------------
TaskStates ==
    [hello : {"opening", "send", "check", "flush", "idle"},
     control : {"idle", "hello", "check", "flush", "refused"},
     watcher : {"hello", "close", "ended"},
     open : {"idle", "establish", "reserve", "parked", "create"},
     incoming : {"idle", "push", "stage"}, accept : {"idle", "parked"}]

(* Every variable has its type; the counters of open streams never wrap.    *)
TypeOK ==
    /\ hello \in [Endpoints -> [version : Nat, sent : BOOLEAN, received : BOOLEAN,
                                established : BOOLEAN]]
    /\ task \in [Endpoints -> TaskStates]
    /\ incoming \in [Endpoints -> [staged : Nat, queue : Nat, accepted : Nat]]
    /\ life \in [Endpoints -> [tearing_down : BOOLEAN, closed : BOOLEAN, err : Codes,
                               dead : BOOLEAN, is_failed : BOOLEAN]]
    /\ ending \in [Endpoints -> SUBSET ({"send", "mark"} \X Codes)]
    /\ {streams_reserved, streams_opened, peer_max_streams, peer_opened_streams,
        advertised_max_streams, channels} \subseteq [Endpoints -> Nat]

(* Two endpoints running this code never convict each other of a wire       *)
(* violation: no duplicate HELLO, no control message before HELLO, and no   *)
(* stream beyond MAX_STREAMS, although channels overtake the control        *)
(* channel and the limit in flight lags behind the one enforced.            *)
NoFalseAccusation ==
    \A e \in Endpoints :
        life[e].err # "protocol" /\ \A t \in ending[e] : t[2] # "protocol"

(* The refusal of the peer of e is still to be decided, or under way, or has *)
(* closed the connection.                                                   *)
Refusing(e) ==
    \/ task[e].control = "hello"
    \/ \E t \in ending[e] : t[2] = "unsupported"
    \/ life[e].closed

SameVersion == hello["a"].version = hello["b"].version

(* SPEC 8: the application sees no stream before both HELLOs are exchanged   *)
(* at its end, however early the stream is observed.  The peer's is received *)
(* then, and one of another version is being looked at or refused.          *)
SurfacedAfterHello ==
    \A e \in Endpoints : incoming[e].queue + incoming[e].accepted > 0 =>
        hello[e].established /\ hello[e].received /\ (SameVersion \/ Refusing(e))

(* accept_stream waits only while there is nothing to accept and the        *)
(* connection is open: every arrival, flush and close wakes it.             *)
NoLostAccept ==
    \A e \in Endpoints : task[e].accept = "parked" =>
        incoming[e].queue = 0 /\ ~life[e].closed

(* open_stream waits only at the peer's limit, while flow.fail has not run:   *)
(* HELLO, MAX_STREAMS, a released slot and flow.fail all wake it.  The        *)
(* watcher that will call flow.fail is still there, unless the HELLO timeout *)
(* may end it: what happens then is OpenEndsAtTeardown.                     *)
NoLostSlotWakeup ==
    \A e \in Endpoints : task[e].open = "parked" =>
        /\ ~life[e].is_failed /\ ~slot_free(e)
        /\ task[e].watcher = "ended" => e \in Slow

(* Streams observed before mutual HELLO are "surfaced at establishment"     *)
(* (conn.rs:142): once no handler is at work, none is left staged.          *)
NoneStranded ==
    \A e \in Endpoints :
        hello[e].established /\ task[e].hello = "idle"
            /\ task[e].control = "idle" /\ task[e].incoming = "idle"
        => incoming[e].staged = 0

(* SPEC 8, no downgrade: send_hello may find both HELLO flags set while      *)
(* on_control still looks at the version, and establish a connection whose   *)
(* peer is being refused; its refusal is then under way or has closed it.    *)
VersionWindow ==
    \A e \in Endpoints : hello[e].established /\ ~SameVersion => Refusing(e)

(* Fairness: the runtime polls the tasks, the transport delivers, and the   *)
(* end of one endpoint's transport is noticed by the other's.  What the     *)
(* applications do, and timeouts, is not fair.                              *)
Fairness ==
    \A e \in Endpoints :
        /\ WF_vars(HelloTask(e)) /\ WF_vars(ControlTask(e))
        /\ WF_vars(Opening(e)) /\ WF_vars(Accepting(e))
        /\ WF_vars(TeardownTasks(e))
        /\ WF_vars(watch_established(e) \/ watch_close(e))
        /\ WF_vars(on_state_change(e))
LiveSpec == Spec /\ Fairness

(* The handshake always ends: one task passes check() at each endpoint and  *)
(* establishes it, or it is closed.                                         *)
Settles == <>(\A e \in Endpoints : life[e].closed \/ hello[e].established)

(* A connection that ends at one end ends at the other.                     *)
TeardownPropagates ==
    (\E e \in Endpoints : life[e].closed) ~> (\A e \in Endpoints : life[e].closed)

(* "Connection failure rejects it (so it cannot hang past teardown)"        *)
(* (flow.rs:280): an open_stream that waits for a slot returns when the     *)
(* connection is closed.                                                    *)
OpenEndsAtTeardown ==
    \A e \in Endpoints :
        life[e].closed /\ task[e].open = "parked" ~> task[e].open # "parked"

=============================================================================
