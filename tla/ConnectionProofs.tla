-------------------------- MODULE ConnectionProofs --------------------------
(***************************************************************************)
(* Proofs about Connection, for any limits and any choice of who opens,     *)
(* closes, abandons and times out: the types, and the five safety           *)
(* properties of the runs, from one inductive invariant (IInv).             *)
(*                                                                          *)
(* The argument: the flags of the HELLO exchange only move forward, and     *)
(* what is on the control channel was expected when it was sent and stays   *)
(* so (WireInv); the limit an opener goes by trails the one the accepting   *)
(* end enforces (SlotInv); so nothing a peer does is ever found to be a     *)
(* violation.  Waiting calls are related to what they wait for directly.    *)
(***************************************************************************)
EXTENDS Connection, TLAPS

(* The two endpoints are each other's peers.                                *)
LEMMA Peers ==
    ASSUME NEW e \in Endpoints
    PROVE  /\ peer(e) \in Endpoints /\ peer(e) # e /\ peer(peer(e)) = e
           /\ \A x \in Endpoints : x = e \/ x = peer(e)
BY DEF Endpoints, peer

-----------------------------------------------------------------------------
(* The invariants the proofs need, beside the ones the theorems state.      *)

(* The handshake.  HELLO flags follow the exchange: an endpoint whose HELLO *)
(* is not out has not been heard, and only a handshake that is complete at  *)
(* this end flushes or surfaces streams.                                    *)
HelloInv ==
    \A e \in Endpoints :
        /\ hello[e].established => hello[e].sent /\ hello[e].received
        /\ task[e].hello \in {"opening", "send"} => ~hello[peer(e)].received
        /\ \/ task[e].hello = "flush" \/ task[e].control = "flush"
           \/ task[e].incoming = "push"
           => hello[e].established
        /\ task[e].control = "hello" => hello[e].received

(* Stream slots.  The limit an opener goes by never passes the one the      *)
(* accepting end enforces, and every channel that was opened is in flight   *)
(* or counted there.                                                        *)
SlotsAt(e) ==
    /\ streams_opened[e] + streams_reserved[e] <= peer_max_streams[e]
    /\ peer_max_streams[e] <= advertised_max_streams[peer(e)]
    /\ MaxStreams <= advertised_max_streams[e]
    /\ streams_opened[e] = channels[e] + peer_opened_streams[peer(e)]
    /\ task[e].open = "create" => streams_reserved[e] > 0
    /\ ~hello[e].received \/ task[e].control = "hello" => peer_max_streams[e] = 0
SlotInv == \A e \in Endpoints : SlotsAt(e)

(* No stream of the peer is lost or surfaced twice: each one counted is     *)
(* being handled, staged, queued or accepted.                               *)
StreamsKept ==
    \A e \in Endpoints :
        peer_opened_streams[e] =
            incoming[e].staged + incoming[e].queue + incoming[e].accepted
                + IF task[e].incoming = "idle" THEN 0 ELSE 1

(* The control channel of e.  One HELLO, not yet taken; nothing that needs  *)
(* it is on the way before it has been; no advertisement exceeds the limit  *)
(* e enforces; and no close accuses.                                        *)
Expected(e, m) ==
    /\ m[1] = "HELLO" => ~hello[peer(e)].received /\ task[e].hello \notin {"opening", "send"}
    /\ m[1] = "CLOSE" => m[2] # "protocol"
    /\ m[1] = "MAX_STREAMS" =>
         hello[peer(e)].received /\ m[2] <= advertised_max_streams[e]
WireInv ==
    \A e \in Endpoints :
        /\ \A i \in 1..Len(control[e]) : Expected(e, control[e][i])
        /\ \A i, j \in 1..Len(control[e]) :
             control[e][i][1] = "HELLO" /\ control[e][j][1] = "HELLO" => i = j

(* A peer of another version is being refused from the moment its HELLO is  *)
(* taken.                                                                   *)
RefusalInv ==
    \A e \in Endpoints : hello[e].received /\ ~SameVersion => Refusing(e)

(* No stream surfaces before the handshake is complete at this end.         *)
SurfacedInv ==
    \A e \in Endpoints : incoming[e].queue + incoming[e].accepted > 0 =>
        hello[e].established /\ hello[e].received

(* A call that waits for a slot has none to take and no failure to report.   *)
SlotWaitInv ==
    \A e \in Endpoints : task[e].open = "parked" => ~life[e].is_failed /\ ~slot_free(e)

(* Without the HELLO timeout, the watcher ends by failing what waits.       *)
WatcherInv ==
    \A e \in Endpoints : task[e].watcher = "ended" => e \in Slow \/ life[e].is_failed

-----------------------------------------------------------------------------
(* Types.                                                                   *)

HelloStates == [version : Nat, sent : BOOLEAN, received : BOOLEAN, established : BOOLEAN]
IncomingStates == [staged : Nat, queue : Nat, accepted : Nat]
LifeStates == [tearing_down : BOOLEAN, closed : BOOLEAN, err : Codes, dead : BOOLEAN,
               is_failed : BOOLEAN]
Teardowns == {"send", "mark"} \X Codes
Counters == <<streams_reserved, streams_opened, peer_max_streams, peer_opened_streams,
              advertised_max_streams, channels>>
CountersTyped ==
    /\ streams_reserved \in [Endpoints -> Nat] /\ streams_opened \in [Endpoints -> Nat]
    /\ peer_max_streams \in [Endpoints -> Nat] /\ peer_opened_streams \in [Endpoints -> Nat]
    /\ advertised_max_streams \in [Endpoints -> Nat] /\ channels \in [Endpoints -> Nat]
Typed ==
    /\ hello \in [Endpoints -> HelloStates] /\ task \in [Endpoints -> TaskStates]
    /\ incoming \in [Endpoints -> IncomingStates] /\ life \in [Endpoints -> LifeStates]
    /\ ending \in [Endpoints -> SUBSET Teardowns] /\ CountersTyped

(* The type invariant, variable by variable.                                *)
LEMMA TypeParts == TypeOK <=> Typed
BY DEF TypeOK, Typed, HelloStates, IncomingStates, LifeStates, Teardowns, CountersTyped

(* A task record keeps its type when one field is set.                      *)
LEMMA TaskFields ==
    ASSUME NEW r \in TaskStates
    PROVE  /\ r.hello \in {"opening", "send", "check", "flush", "idle"}
           /\ r.control \in {"idle", "hello", "check", "flush", "refused"}
           /\ r.watcher \in {"hello", "close", "ended"}
           /\ r.open \in {"idle", "establish", "reserve", "parked", "create"}
           /\ r.incoming \in {"idle", "push", "stage"} /\ r.accept \in {"idle", "parked"}
           /\ \A x \in {"send", "check", "flush", "idle"} :
                [r EXCEPT !.hello = x] \in TaskStates
           /\ \A x \in {"idle", "hello", "check", "flush", "refused"} :
                [r EXCEPT !.control = x] \in TaskStates
           /\ \A x \in {"close", "ended"} : [r EXCEPT !.watcher = x] \in TaskStates
           /\ \A x \in {"idle", "establish", "reserve", "parked", "create"} :
                [r EXCEPT !.open = x] \in TaskStates
           /\ \A x \in {"idle", "push", "stage"} : [r EXCEPT !.incoming = x] \in TaskStates
           /\ \A x \in {"idle", "parked"} : [r EXCEPT !.accept = x] \in TaskStates
BY DEF TaskStates

(* So it does when a waiting call is woken.                                 *)
LEMMA Wakes ==
    ASSUME NEW r \in TaskStates
    PROVE  wake_open(r) \in TaskStates /\ wake_accept(r) \in TaskStates
BY TaskFields DEF wake_open, wake_accept

(* The tasks of one endpoint are replaced.                                  *)
LEMMA TaskStep ==
    ASSUME Typed, NEW e \in Endpoints, NEW r \in TaskStates, task' = [task EXCEPT ![e] = r]
    PROVE  task' \in [Endpoints -> TaskStates]
BY DEF Typed

(* The HELLO record when a flag is set.                                     *)
LEMMA HelloUpdates ==
    ASSUME NEW r \in HelloStates, NEW b \in BOOLEAN
    PROVE  /\ [r EXCEPT !.sent = TRUE] \in HelloStates
           /\ [r EXCEPT !.received = TRUE] \in HelloStates
           /\ [r EXCEPT !.established = b] \in HelloStates
           /\ r.version \in Nat
           /\ r.sent \in BOOLEAN /\ r.received \in BOOLEAN /\ r.established \in BOOLEAN
BY DEF HelloStates

(* The record of an endpoint's life when a flag or the reason is set.       *)
LEMMA LifeUpdates ==
    ASSUME NEW r \in LifeStates, NEW c \in Codes
    PROVE  /\ [r EXCEPT !.tearing_down = TRUE] \in LifeStates
           /\ [r EXCEPT !.is_failed = TRUE] \in LifeStates
           /\ mark(r, c) \in LifeStates
           /\ [mark(r, c) EXCEPT !.dead = TRUE] \in LifeStates
           /\ [mark(r, c) EXCEPT !.tearing_down = TRUE, !.dead = TRUE] \in LifeStates
BY DEF LifeStates, mark

Messages == {<<"HELLO">>} \cup ({"CLOSE"} \X Codes) \cup ({"MAX_STREAMS"} \X Nat)
ControlTyped == control \in [Endpoints -> Seq(Messages)]

(* What the messages on the control channel carry.                          *)
LEMMA MessageKinds ==
    /\ <<"HELLO">> \in Messages
    /\ \A c \in Codes : <<"CLOSE", c>> \in Messages
    /\ \A n \in Nat : <<"MAX_STREAMS", n>> \in Messages
    /\ \A m \in Messages : /\ m[1] = "CLOSE" => m[2] \in Codes
                           /\ m[1] = "MAX_STREAMS" => m[2] \in Nat
                           /\ m[1] \in {"HELLO", "CLOSE", "MAX_STREAMS"}
BY DEF Messages

(* The shared helpers keep the types of what they change.                   *)
LEMMA SendTyped ==
    ASSUME ControlTyped, NEW e \in Endpoints, NEW m \in Messages, send(e, m)
    PROVE  ControlTyped'
BY DEF ControlTyped, send

(* Taking a message leaves a queue of messages.                             *)
LEMMA ReceiveTyped ==
    ASSUME ControlTyped, NEW e \in Endpoints, NEW k, receives(e, k)
    PROVE  ControlTyped' /\ Head(control[peer(e)]) \in Messages
<1>1. control[peer(e)] \in Seq(Messages) /\ control[peer(e)] # <<>>
  BY Peers DEF ControlTyped, receives
<1>2. Tail(control[peer(e)]) \in Seq(Messages) /\ Head(control[peer(e)]) \in Messages
  BY <1>1
<1> QED
  BY <1>2, Peers DEF ControlTyped, receives

(* fatal only adds a teardown.                                              *)
LEMMA FatalTyped ==
    ASSUME Typed, NEW e \in Endpoints, NEW c \in Codes, fatal(e, c)
    PROVE  life' \in [Endpoints -> LifeStates] /\ ending' \in [Endpoints -> SUBSET Teardowns]
<1>1. life[e] \in LifeStates /\ ending[e] \in SUBSET Teardowns
  BY DEF Typed
<1>2. life' \in [Endpoints -> LifeStates]
  BY <1>1, LifeUpdates DEF Typed, fatal
<1>3. <<"send", c>> \in Teardowns
  BY DEF Teardowns
<1> QED
  BY <1>1, <1>2, <1>3 DEF Typed, fatal

(* tear_down closes, and wakes accept_stream.                               *)
LEMMA TearDownTyped ==
    ASSUME Typed, NEW e \in Endpoints, NEW c \in Codes, tear_down(e, c)
    PROVE  life' \in [Endpoints -> LifeStates] /\ task' \in [Endpoints -> TaskStates]
<1>1. life[e] \in LifeStates /\ task[e] \in TaskStates
  BY DEF Typed
<1>2. life' \in [Endpoints -> LifeStates]
  BY <1>1, LifeUpdates DEF Typed, tear_down
<1>3. [task[e] EXCEPT !.accept = "idle"] \in TaskStates
  BY <1>1, TaskFields
<1> QED
  BY <1>2, <1>3, TaskStep DEF tear_down

(* Every step of every task keeps the types.                                *)
LEMMA HelloTyped ==
    ASSUME Typed, ControlTyped, NEW e \in Endpoints
    PROVE  /\ HelloTask(e) => Typed' /\ ControlTyped'
           /\ hello_check(e, "control") \/ flush_staged(e, "control")
                => Typed' /\ ControlTyped'
<1> USE DEF slots, opening, accepting, wire
<1>0. task[e] \in TaskStates /\ hello[e] \in HelloStates /\ incoming[e] \in IncomingStates
  BY DEF Typed
<1>t. /\ \A x \in {"send", "check", "flush", "idle"} : [task[e] EXCEPT !.hello = x] \in TaskStates
      /\ \A x \in {"flush", "idle"} : [task[e] EXCEPT !.control = x] \in TaskStates
  BY <1>0, TaskFields
<1>1. ASSUME send_hello(e) PROVE Typed' /\ ControlTyped'
  <2>1. hello' \in [Endpoints -> HelloStates]
    BY <1>1, <1>0, HelloUpdates DEF send_hello, Typed
  <2>2. task' \in [Endpoints -> TaskStates]
    BY <1>1, <1>t, TaskStep DEF send_hello
  <2> QED
    BY <1>1, <2>1, <2>2 DEF send_hello, Typed, CountersTyped, ControlTyped
<1>2. ASSUME send_hello_send(e) PROVE Typed' /\ ControlTyped'
  <2>1. task' \in [Endpoints -> TaskStates]
    BY <1>2, <1>t, TaskStep DEF send_hello_send
  <2>2. ControlTyped'
    BY <1>2, SendTyped, MessageKinds DEF send_hello_send
  <2> QED
    BY <1>2, <2>1, <2>2 DEF send_hello_send, Typed, CountersTyped
<1>3. ASSUME NEW t \in {"hello", "control"}, hello_check(e, t) PROVE Typed' /\ ControlTyped'
  <2>1. hello' \in [Endpoints -> HelloStates]
    <3>1. hello[e].established \/ check(hello[e]) \in BOOLEAN
      BY Zenon DEF check
    <3> QED
      BY <1>3, <3>1, <1>0, HelloUpdates DEF hello_check, Typed
  <2>2. task' \in [Endpoints -> TaskStates]
    BY <1>3, <1>t, TaskStep DEF hello_check
  <2> QED
    BY <1>3, <2>1, <2>2 DEF hello_check, Typed, CountersTyped, ControlTyped
<1>4. ASSUME NEW t \in {"hello", "control"}, flush_staged(e, t) PROVE Typed' /\ ControlTyped'
  <2>1. incoming' \in [Endpoints -> IncomingStates]
    <3>1. \A n \in Nat : [incoming[e] EXCEPT !.queue = n, !.staged = 0] \in IncomingStates
      BY <1>0 DEF IncomingStates
    <3>2. incoming' = [incoming EXCEPT ![e] = [incoming[e] EXCEPT
                         !.queue = incoming[e].queue + incoming[e].staged, !.staged = 0]]
      BY <1>4 DEF flush_staged, Typed, IncomingStates
    <3>3. incoming[e].queue + incoming[e].staged \in Nat
      BY <1>0 DEF IncomingStates
    <3> QED
      BY <3>1, <3>2, <3>3 DEF Typed
  <2>2. task' \in [Endpoints -> TaskStates]
    <3>1. [task[e] EXCEPT ![t] = "idle"] \in TaskStates
      BY <1>t
    <3> QED
      BY <1>4, <3>1, Wakes, TaskStep DEF flush_staged
  <2> QED
    BY <1>4, <2>1, <2>2 DEF flush_staged, Typed, CountersTyped, ControlTyped
<1> QED
  BY <1>1, <1>2, <1>3, <1>4 DEF HelloTask

(* The control channel's handler.                                           *)
LEMMA ControlTaskTyped ==
    ASSUME Typed, ControlTyped, NEW e \in Endpoints, ControlTask(e)
    PROVE  Typed' /\ ControlTyped'
<1> USE DEF slots, opening, accepting, wire
<1>0. /\ task[e] \in TaskStates /\ hello[e] \in HelloStates
      /\ {"protocol"} \subseteq Codes /\ {"send", "mark"} \X {"unsupported"} \subseteq Teardowns
  BY DEF Typed, Codes, Teardowns
<1>t. /\ \A x \in {"hello", "check", "refused"} :
           /\ [task[e] EXCEPT !.control = x] \in TaskStates
           /\ [wake_open(task[e]) EXCEPT !.control = x] \in TaskStates
      /\ wake_open(task[e]) \in TaskStates
  BY <1>0, TaskFields, Wakes
<1>1. ASSUME on_hello(e) PROVE Typed' /\ ControlTyped'
  <2>1. ControlTyped'
    BY <1>1, ReceiveTyped DEF on_hello
  <2>2. CASE hello[e].received
    BY <1>0, <1>1, <2>1, <2>2, FatalTyped DEF on_hello, Typed, CountersTyped
  <2>3. CASE ~hello[e].received
    <3>1. hello' \in [Endpoints -> HelloStates]
      BY <1>0, <1>1, <2>3, HelloUpdates DEF on_hello, Typed
    <3>2. task' \in [Endpoints -> TaskStates]
      BY <1>1, <1>t, <2>3, TaskStep DEF on_hello
    <3> QED
      BY <1>1, <2>1, <2>3, <3>1, <3>2 DEF on_hello, Typed, CountersTyped
  <2> QED
    BY <2>2, <2>3
<1>2. ASSUME on_peer_hello(e) PROVE Typed' /\ ControlTyped'
  <2>1. task' \in [Endpoints -> TaskStates]
    BY <1>2, <1>t, TaskStep DEF on_peer_hello
  <2>2. CountersTyped'
    BY <1>2, ConnectionAssumption DEF on_peer_hello, Typed, CountersTyped
  <2> QED
    BY <1>2, <2>1, <2>2 DEF on_peer_hello, Typed, ControlTyped
<1>3. ASSUME refuse(e) PROVE Typed' /\ ControlTyped'
  <2>1. task' \in [Endpoints -> TaskStates]
    BY <1>3, <1>t, TaskStep DEF refuse
  <2>2. ending' \in [Endpoints -> SUBSET Teardowns]
    BY <1>0, <1>3 DEF refuse, Typed
  <2> QED
    BY <1>3, <2>1, <2>2 DEF refuse, Typed, CountersTyped, ControlTyped
<1>4. ASSUME on_close(e) PROVE Typed' /\ ControlTyped'
  <2>1. ControlTyped' /\ Head(control[peer(e)])[2] \in Codes
    BY <1>4, ReceiveTyped, MessageKinds DEF on_close, receives
  <2>2. life' \in [Endpoints -> LifeStates] /\ task' \in [Endpoints -> TaskStates]
    BY <1>4, <2>1, TearDownTyped DEF on_close
  <2> QED
    BY <1>4, <2>1, <2>2 DEF on_close, Typed, CountersTyped
<1>5. ASSUME on_max_streams(e) PROVE Typed' /\ ControlTyped'
  <2>1. ControlTyped' /\ Head(control[peer(e)])[2] \in Nat
    BY <1>5, ReceiveTyped, MessageKinds DEF on_max_streams, receives
  <2>2. CASE ~hello[e].received
    BY <1>0, <1>5, <2>1, <2>2, FatalTyped DEF on_max_streams, Typed, CountersTyped
  <2>3. CASE hello[e].received
    <3>1. CountersTyped'
      BY <1>5, <2>1, <2>3 DEF on_max_streams, Typed, CountersTyped
    <3>2. task' \in [Endpoints -> TaskStates]
      BY <1>0, <1>5, <1>t, <2>3, TaskStep DEF on_max_streams
    <3> QED
      BY <1>5, <2>1, <2>3, <3>1, <3>2 DEF on_max_streams, Typed
  <2> QED
    BY <2>2, <2>3
<1> QED
  BY <1>1, <1>2, <1>3, <1>4, <1>5, HelloTyped DEF ControlTask

(* Opening and accepting streams; release and commit find a reservation.    *)
LEMMA StreamTyped ==
    ASSUME Typed, ControlTyped, NEW e \in Endpoints,
           \/ Opening(e) \/ Accepting(e) \/ open_stream(e) \/ abandon_open(e)
           \/ accept_stream(e) \/ peer_stream_retired(e),
           task[e].open = "create" => streams_reserved[e] > 0
    PROVE  Typed' /\ ControlTyped'
<1> USE DEF slots, opening, accepting, wire
<1>0. task[e] \in TaskStates /\ incoming[e] \in IncomingStates /\ {"protocol"} \subseteq Codes
  BY DEF Typed, Codes
<1>t. /\ \A x \in {"idle", "establish", "reserve", "parked", "create"} :
           [task[e] EXCEPT !.open = x] \in TaskStates
      /\ \A x \in {"idle", "push", "stage"} :
           /\ [task[e] EXCEPT !.incoming = x] \in TaskStates
           /\ [wake_accept(task[e]) EXCEPT !.incoming = x] \in TaskStates
      /\ [task[e] EXCEPT !.accept = "parked"] \in TaskStates
  BY <1>0, TaskFields, Wakes
<1>1. ASSUME open_stream(e) \/ wait_established(e) \/ abandon_open(e)
      PROVE  Typed' /\ ControlTyped'
  <2>1. task' \in [Endpoints -> TaskStates]
    BY <1>1, <1>t, TaskStep DEF open_stream, wait_established, abandon_open
  <2> QED
    BY <1>1, <2>1
    DEF open_stream, wait_established, abandon_open, Typed, CountersTyped, ControlTyped
<1>2. ASSUME reserve_stream_slot(e) PROVE Typed' /\ ControlTyped'
  <2>1. task' \in [Endpoints -> TaskStates]
    BY <1>2, <1>t, TaskStep DEF reserve_stream_slot
  <2>2. CountersTyped'
    BY <1>2 DEF reserve_stream_slot, Typed, CountersTyped
  <2> QED
    BY <1>2, <2>1, <2>2 DEF reserve_stream_slot, Typed, ControlTyped
<1>3. ASSUME commit_stream_slot(e) \/ release_stream_slot(e) PROVE Typed' /\ ControlTyped'
  <2>1. task' \in [Endpoints -> TaskStates]
    BY <1>3, <1>t, TaskStep DEF commit_stream_slot, release_stream_slot
  <2>2. streams_reserved[e] \in Nat /\ streams_reserved[e] - 1 \in Nat
    BY <1>3 DEF commit_stream_slot, release_stream_slot, Typed, CountersTyped
  <2>3. CountersTyped'
    BY <1>3, <2>2 DEF commit_stream_slot, release_stream_slot, Typed, CountersTyped
  <2> QED
    BY <1>3, <2>1, <2>3 DEF commit_stream_slot, release_stream_slot, Typed, ControlTyped
<1>4. ASSUME handle_incoming(e) PROVE Typed' /\ ControlTyped'
  <2>1. channels' \in [Endpoints -> Nat]
    BY <1>4, Peers DEF handle_incoming, Typed, CountersTyped
  <2>2. CASE peer_opened_streams[e] >= advertised_max_streams[e]
    BY <1>0, <1>4, <2>1, <2>2, FatalTyped
    DEF handle_incoming, Typed, CountersTyped, ControlTyped
  <2>3. CASE ~(peer_opened_streams[e] >= advertised_max_streams[e])
    <3>1. task' \in [Endpoints -> TaskStates]
      BY <1>4, <1>t, <2>3, TaskStep DEF handle_incoming, surfaces
    <3>2. CountersTyped'
      BY <1>4, <2>1, <2>3 DEF handle_incoming, Typed, CountersTyped
    <3> QED
      BY <1>4, <2>3, <3>1, <3>2 DEF handle_incoming, Typed, ControlTyped
  <2> QED
    BY <2>2, <2>3
<1>5. ASSUME push(e) \/ stage(e) PROVE Typed' /\ ControlTyped'
  <2>1. incoming' \in [Endpoints -> IncomingStates]
    BY <1>0, <1>5 DEF push, stage, Typed, IncomingStates
  <2>2. task' \in [Endpoints -> TaskStates]
    BY <1>5, <1>t, TaskStep DEF push, stage
  <2> QED
    BY <1>5, <2>1, <2>2 DEF push, stage, Typed, CountersTyped, ControlTyped
<1>6. ASSUME accept_stream(e) PROVE Typed' /\ ControlTyped'
  <2>1. incoming' \in [Endpoints -> IncomingStates]
    BY <1>0, <1>6 DEF accept_stream, Typed, IncomingStates
  <2>2. task' \in [Endpoints -> TaskStates]
    BY <1>6, <1>t, TaskStep DEF accept_stream, Typed
  <2> QED
    BY <1>6, <2>1, <2>2 DEF accept_stream, Typed, CountersTyped, ControlTyped
<1>7. ASSUME peer_stream_retired(e) PROVE Typed' /\ ControlTyped'
  <2>1. CountersTyped' /\ advertised_max_streams[e] + 1 \in Nat
    BY <1>7 DEF peer_stream_retired, Typed, CountersTyped
  <2>2. ControlTyped'
    BY <1>7, <2>1, SendTyped, MessageKinds DEF peer_stream_retired
  <2> QED
    BY <1>7, <2>1, <2>2 DEF peer_stream_retired, Typed
<1> QED
  BY <1>1, <1>2, <1>3, <1>4, <1>5, <1>6, <1>7 DEF Opening, Accepting

(* Everything that ends a connection.                                       *)
LEMMA EndingTyped ==
    ASSUME Typed, ControlTyped, NEW e \in Endpoints,
           Ending(e) \/ Losing(e) \/ close_with_error(e) \/ hello_timeout(e)
    PROVE  Typed' /\ ControlTyped'
<1> USE DEF slots, opening, accepting, wire
<1>0. /\ task[e] \in TaskStates /\ life[e] \in LifeStates
      /\ {"none", "app", "timeout", "network", "lost"} \subseteq Codes
  BY DEF Typed, Codes
<1>t. /\ \A x \in {"close", "ended"} :
           /\ [task[e] EXCEPT !.watcher = x] \in TaskStates
           /\ [wake_open(task[e]) EXCEPT !.watcher = x] \in TaskStates
      /\ [task[e] EXCEPT !.accept = "idle"] \in TaskStates
  BY <1>0, TaskFields, Wakes
<1>l. /\ [life[e] EXCEPT !.tearing_down = TRUE] \in LifeStates
      /\ [life[e] EXCEPT !.is_failed = TRUE] \in LifeStates
      /\ [mark(life[e], "none") EXCEPT !.dead = TRUE] \in LifeStates
  BY <1>0, LifeUpdates
<1>1. ASSUME TeardownTasks(e) PROVE Typed' /\ ControlTyped'
  <2>1. PICK t \in ending[e] : send_close_and_flush(e, t[2]) \/ close_mark(e, t[2])
    BY <1>1 DEF TeardownTasks
  <2>2. t[2] \in Codes /\ <<"mark", t[2]>> \in Teardowns
    BY <2>1 DEF Typed, Teardowns
  <2>3. CASE send_close_and_flush(e, t[2])
    <3>1. ending' \in [Endpoints -> SUBSET Teardowns]
      BY <2>2, <2>3 DEF send_close_and_flush, Typed
    <3>2. ControlTyped'
      BY <2>2, <2>3, SendTyped, MessageKinds DEF send_close_and_flush
    <3> QED
      BY <2>3, <3>1, <3>2 DEF send_close_and_flush, Typed, CountersTyped
  <2>4. CASE close_mark(e, t[2])
    <3>1. ending' \in [Endpoints -> SUBSET Teardowns]
      BY <2>2, <2>4 DEF close_mark, Typed
    <3>2. life' \in [Endpoints -> LifeStates] /\ task' \in [Endpoints -> TaskStates]
      BY <2>2, <2>4, TearDownTyped DEF close_mark
    <3> QED
      BY <2>4, <3>1, <3>2 DEF close_mark, Typed, CountersTyped, ControlTyped
  <2> QED
    BY <2>1, <2>3, <2>4
<1>2. ASSUME watch_established(e) PROVE Typed' /\ ControlTyped'
  <2>1. task' \in [Endpoints -> TaskStates]
    BY <1>2, <1>t, TaskStep DEF watch_established
  <2> QED
    BY <1>2, <2>1 DEF watch_established, Typed, CountersTyped, ControlTyped
<1>3. ASSUME watch_close(e) PROVE Typed' /\ ControlTyped'
  <2>1. task' \in [Endpoints -> TaskStates]
    BY <1>3, <1>t, TaskStep DEF watch_close
  <2>2. life' \in [Endpoints -> LifeStates]
    BY <1>3, <1>l DEF watch_close, Typed
  <2> QED
    BY <1>3, <2>1, <2>2 DEF watch_close, Typed, CountersTyped, ControlTyped
<1>4. ASSUME on_state_change(e) PROVE Typed' /\ ControlTyped'
  <2>1. task' \in [Endpoints -> TaskStates]
    BY <1>4, <1>t, TaskStep DEF on_state_change
  <2>2. life' \in [Endpoints -> LifeStates]
    BY <1>4, <1>l DEF on_state_change, Typed
  <2> QED
    BY <1>4, <2>1, <2>2 DEF on_state_change, Typed, CountersTyped, ControlTyped
<1>5. ASSUME reserved_channel_lost(e) PROVE Typed' /\ ControlTyped'
  <2>1. life' \in [Endpoints -> LifeStates] /\ task' \in [Endpoints -> TaskStates]
    BY <1>0, <1>5, TearDownTyped DEF reserved_channel_lost
  <2> QED
    BY <1>5, <2>1 DEF reserved_channel_lost, Typed, CountersTyped, ControlTyped
<1>6. ASSUME channel_lost(e) PROVE Typed' /\ ControlTyped'
  <2>1. life' \in [Endpoints -> LifeStates] /\ ending' \in [Endpoints -> SUBSET Teardowns]
    BY <1>0, <1>6, FatalTyped DEF channel_lost
  <2> QED
    BY <1>6, <2>1 DEF channel_lost, Typed, CountersTyped, ControlTyped
<1>7. ASSUME hello_timeout(e) PROVE Typed' /\ ControlTyped'
  <2>1. life' \in [Endpoints -> LifeStates] /\ ending' \in [Endpoints -> SUBSET Teardowns]
    BY <1>0, <1>7, FatalTyped DEF hello_timeout
  <2>2. task' \in [Endpoints -> TaskStates]
    BY <1>7, <1>t, TaskStep DEF hello_timeout
  <2> QED
    BY <1>7, <2>1, <2>2 DEF hello_timeout, Typed, CountersTyped, ControlTyped
<1>8. ASSUME close_with_error(e) PROVE Typed' /\ ControlTyped'
  <2>1. life' \in [Endpoints -> LifeStates]
    BY <1>8, <1>l DEF close_with_error, Typed
  <2>2. ending' \in [Endpoints -> SUBSET Teardowns]
    BY <1>0, <1>8 DEF close_with_error, Typed, Teardowns
  <2> QED
    BY <1>8, <2>1, <2>2 DEF close_with_error, Typed, CountersTyped, ControlTyped
<1> QED
  BY <1>1, <1>2, <1>3, <1>4, <1>5, <1>6, <1>7, <1>8 DEF Ending, Losing

-----------------------------------------------------------------------------
(* What waking a task leaves alone.                                         *)
LEMMA WakeKeeps ==
    ASSUME NEW r \in TaskStates
    PROVE  /\ wake_open(r).hello = r.hello /\ wake_open(r).control = r.control
           /\ wake_open(r).incoming = r.incoming /\ wake_open(r).accept = r.accept
           /\ wake_open(r).open = IF r.open = "parked" THEN "reserve" ELSE r.open
           /\ wake_accept(r).hello = r.hello /\ wake_accept(r).control = r.control
           /\ wake_accept(r).incoming = r.incoming /\ wake_accept(r).open = r.open
           /\ wake_accept(r).accept = "idle"
BY DEF wake_open, wake_accept, TaskStates

(* A task of the handshake goes idle.                                       *)
LEMMA IdleTask ==
    ASSUME NEW r \in TaskStates, NEW t \in {"hello", "control"}
    PROVE  /\ [r EXCEPT ![t] = "idle"] \in TaskStates
           /\ [r EXCEPT ![t] = "idle"].hello \in {r.hello, "idle"}
           /\ [r EXCEPT ![t] = "idle"].control \in {r.control, "idle"}
           /\ [r EXCEPT ![t] = "idle"].incoming = r.incoming
           /\ [r EXCEPT ![t] = "idle"].open = r.open
           /\ [r EXCEPT ![t] = "idle"].accept = r.accept
<1>1. CASE t = "hello"
  BY <1>1 DEF TaskStates
<1>2. CASE t = "control"
  BY <1>2 DEF TaskStates
<1> QED
  BY <1>1, <1>2

(* What flush_staged does to the tasks of its endpoint.                     *)
LEMMA FlushTask ==
    ASSUME Typed, NEW e \in Endpoints, NEW t \in {"hello", "control"}, flush_staged(e, t)
    PROVE  /\ task'[e].hello \in {task[e].hello, "idle"}
           /\ task'[e].control \in {task[e].control, "idle"}
           /\ task'[e].incoming = task[e].incoming /\ task'[e].open = task[e].open
           /\ task'[e].accept = IF incoming[e].staged = 0 THEN task[e].accept ELSE "idle"
           /\ \A x \in Endpoints : x # e => task'[x] = task[x]
<1> DEFINE r == [task[e] EXCEPT ![t] = "idle"]
<1>1. task[e] \in TaskStates /\ task \in [Endpoints -> TaskStates]
  BY DEF Typed
<1>2. task' = [task EXCEPT ![e] = IF incoming[e].staged = 0 THEN r ELSE wake_accept(r)]
  BY DEF flush_staged
<1>3. /\ r \in TaskStates
      /\ r.hello \in {task[e].hello, "idle"} /\ r.control \in {task[e].control, "idle"}
      /\ r.incoming = task[e].incoming /\ r.open = task[e].open
      /\ r.accept = task[e].accept
  BY <1>1, IdleTask
<1> HIDE DEF r
<1> QED
  BY <1>1, <1>2, <1>3, WakeKeeps

(* What push does to them.                                                  *)
LEMMA PushTask ==
    ASSUME Typed, NEW e \in Endpoints, push(e)
    PROVE  /\ task'[e].hello = task[e].hello /\ task'[e].control = task[e].control
           /\ task'[e].incoming = "idle" /\ task'[e].open = task[e].open
           /\ task'[e].accept = "idle"
           /\ \A x \in Endpoints : x # e => task'[x] = task[x]
           /\ \A x \in Endpoints : task'[x].hello = task[x].hello
<1>1. ASSUME NEW r \in TaskStates
      PROVE  LET q == [r EXCEPT !.incoming = "idle"]
             IN  /\ q.hello = r.hello /\ q.control = r.control /\ q.incoming = "idle"
                 /\ q.open = r.open /\ q.accept = r.accept
  BY DEF TaskStates
<1>2. task[e] \in TaskStates /\ task \in [Endpoints -> TaskStates]
  BY DEF Typed
<1> DEFINE r == wake_accept(task[e])
<1>3. /\ r \in TaskStates /\ r.hello = task[e].hello /\ r.control = task[e].control
      /\ r.open = task[e].open /\ r.accept = "idle"
  BY <1>2, Wakes, WakeKeeps
<1>4. task' = [task EXCEPT ![e] = [r EXCEPT !.incoming = "idle"]]
  BY DEF push
<1> HIDE DEF r
<1> QED
  BY <1>1, <1>2, <1>3, <1>4

(* Two states of an endpoint's tasks with the same handshake.               *)
SameHandshake(q, r) == q.hello = r.hello /\ q.control = r.control /\ q.incoming = r.incoming

(* Most steps leave the handshake's tasks alone.                            *)
HelloAside(e) ==
    \/ Opening(e) \/ accept_stream(e) \/ peer_stream_retired(e)
    \/ Ending(e) \/ Losing(e) \/ Choices(e)
    \/ on_close(e) \/ on_max_streams(e)
(* The steps of HelloAside keep the HELLO exchange where it is.             *)
LEMMA AsideKeeps ==
    ASSUME Typed, NEW e \in Endpoints, HelloAside(e)
    PROVE  /\ UNCHANGED hello
           /\ \A x \in Endpoints : SameHandshake(task'[x], task[x])
<1> USE DEF Typed
<1>0. \A x \in Endpoints : SameHandshake(task[x], task[x])
  BY DEF SameHandshake
<1>w. task[e] \in TaskStates
  OBVIOUS
<1>1. ASSUME wait_established(e) \/ reserve_stream_slot(e) \/ commit_stream_slot(e)
             \/ release_stream_slot(e) \/ open_stream(e) \/ abandon_open(e)
      PROVE  \E v : task' = [task EXCEPT ![e].open = v] /\ UNCHANGED hello
  BY <1>1 DEF wait_established, reserve_stream_slot, commit_stream_slot,
              release_stream_slot, open_stream, abandon_open
<1>2. ASSUME accept_stream(e) \/ peer_stream_retired(e) \/ TeardownTasks(e)
             \/ on_state_change(e) \/ reserved_channel_lost(e) \/ channel_lost(e)
             \/ close_with_error(e) \/ on_close(e)
      PROVE  UNCHANGED hello /\ (UNCHANGED task \/ \E v : task' = [task EXCEPT ![e].accept = v])
  BY <1>2 DEF accept_stream, peer_stream_retired, TeardownTasks, send_close_and_flush,
              close_mark, on_state_change, reserved_channel_lost, channel_lost,
              close_with_error, on_close, tear_down
<1>3. ASSUME watch_established(e) \/ hello_timeout(e)
      PROVE  \E v : task' = [task EXCEPT ![e].watcher = v] /\ UNCHANGED hello
  BY <1>3 DEF watch_established, hello_timeout
<1>4. ASSUME watch_close(e)
      PROVE  task' = [task EXCEPT ![e] = [wake_open(@) EXCEPT !.watcher = "ended"]] /\ UNCHANGED hello
  BY <1>4 DEF watch_close
<1>5. ASSUME on_max_streams(e)
      PROVE  (task' = [task EXCEPT ![e] = wake_open(@)] \/ task' = task) /\ UNCHANGED hello
  BY <1>5 DEF on_max_streams
<1>6. ASSUME NEW v, \/ task' = [task EXCEPT ![e].open = v] \/ task' = [task EXCEPT ![e].accept = v]
                    \/ task' = [task EXCEPT ![e].watcher = v]
      PROVE \A x \in Endpoints : SameHandshake(task'[x], task[x])
  BY <1>6 DEF TaskStates, SameHandshake
<1>7. ASSUME \/ task' = [task EXCEPT ![e] = [wake_open(@) EXCEPT !.watcher = "ended"]]
             \/ task' = [task EXCEPT ![e] = wake_open(@)]
      PROVE \A x \in Endpoints : SameHandshake(task'[x], task[x])
  <2>1. wake_open(task[e]) \in TaskStates /\ SameHandshake(wake_open(task[e]), task[e])
    BY <1>w, Wakes, WakeKeeps DEF SameHandshake
  <2>2. ASSUME NEW r \in TaskStates PROVE SameHandshake([r EXCEPT !.watcher = "ended"], r)
    BY DEF TaskStates, SameHandshake
  <2>3. SameHandshake([wake_open(task[e]) EXCEPT !.watcher = "ended"], task[e])
    BY <2>1, <2>2 DEF SameHandshake
  <2>4. SameHandshake(task'[e], task[e]) /\ \A x \in Endpoints : x # e => task'[x] = task[x]
    BY <1>7, <2>1, <2>3
  <2> QED
    BY <2>4, <1>0
<1> QED
  BY <1>1, <1>2, <1>3, <1>4, <1>5, <1>6, <1>7, <1>0
  DEF HelloAside, Opening, Ending, Losing, Choices

(* What an endpoint takes from the control channel was expected.            *)
LEMMA ReceiveExpected ==
    ASSUME ControlTyped, WireInv, NEW e \in Endpoints, NEW k, receives(e, k)
    PROVE  /\ Expected(peer(e), Head(control[peer(e)])) /\ Head(control[peer(e)])[1] = k
           /\ Head(control[peer(e)]) \in Messages
<1>1. control[peer(e)] \in Seq(Messages) /\ control[peer(e)] # <<>>
  BY Peers DEF ControlTyped, receives
<1>2. /\ Head(control[peer(e)]) = control[peer(e)][1] /\ 1 \in 1..Len(control[peer(e)])
      /\ Head(control[peer(e)]) \in Messages
  BY <1>1
<1> QED
  BY <1>2, Peers DEF WireInv, receives

(* The HELLO exchange.                                                      *)
LEMMA HelloKept ==
    ASSUME Typed, HelloInv, NEW e \in Endpoints,
           HelloAside(e) \/ HelloTask(e) \/ ControlTask(e) \/ Accepting(e),
           ControlTyped, WireInv
    PROVE  HelloInv'
<1> USE DEF Typed, HelloInv, HelloStates, TaskStates
<1>1. ASSUME send_hello(e) PROVE HelloInv'
  BY <1>1, Peers DEF send_hello
<1>2. ASSUME send_hello_send(e) PROVE HelloInv'
  BY <1>2, Peers DEF send_hello_send
<1>3. ASSUME NEW t \in {"hello", "control"}, hello_check(e, t) PROVE HelloInv'
  BY <1>3, Peers DEF hello_check, check
<1>4. ASSUME NEW t \in {"hello", "control"}, flush_staged(e, t) PROVE HelloInv'
  <2>1. /\ task'[e].hello \in {task[e].hello, "idle"}
        /\ task'[e].control \in {task[e].control, "idle"}
        /\ task'[e].incoming = task[e].incoming
        /\ \A x \in Endpoints : x # e => task'[x] = task[x]
    BY <1>4, FlushTask
  <2> QED
    BY <1>4, <2>1, Peers DEF flush_staged
<1>5. ASSUME on_hello(e) PROVE HelloInv'
  <2>1. task[peer(e)].hello \notin {"opening", "send"}
    BY <1>5, ReceiveExpected, Peers DEF on_hello, Expected
  <2>2. CASE hello[e].received
    BY <1>5, <2>2 DEF on_hello
  <2>3. CASE ~hello[e].received
    BY <1>5, <2>1, <2>3, Peers DEF on_hello
  <2> QED
    BY <2>2, <2>3
<1>6. ASSUME on_peer_hello(e) PROVE HelloInv'
  BY <1>6, Peers DEF on_peer_hello, wake_open
<1>7. ASSUME refuse(e) PROVE HelloInv'
  BY <1>7, Peers DEF refuse
<1>8. ASSUME handle_incoming(e) PROVE HelloInv'
  <2>1. CASE peer_opened_streams[e] >= advertised_max_streams[e]
    BY <1>8, <2>1, Peers DEF handle_incoming
  <2>2. CASE ~(peer_opened_streams[e] >= advertised_max_streams[e])
    BY <1>8, <2>2, Peers DEF handle_incoming, surfaces
  <2> QED
    BY <2>1, <2>2
<1>9. ASSUME push(e) PROVE HelloInv'
  <2> HIDE DEF TaskStates, HelloStates
  <2>1. /\ task'[e].hello = task[e].hello /\ task'[e].control = task[e].control
        /\ task'[e].incoming = "idle" /\ \A x \in Endpoints : x # e => task'[x] = task[x]
    BY <1>9, PushTask
  <2> QED
    BY <1>9, <2>1, Peers DEF push
<1>10. ASSUME stage(e) PROVE HelloInv'
  BY <1>10, Peers DEF stage
<1>11. ASSUME HelloAside(e) PROVE HelloInv'
  BY <1>11, AsideKeeps, Peers DEF SameHandshake
<1> QED
  BY <1>1, <1>2, <1>3, <1>4, <1>5, <1>6, <1>7, <1>8, <1>9, <1>10, <1>11
  DEF HelloTask, ControlTask, Accepting, HelloAside

(* The control channel: what was expected stays so, if the flags it hangs   *)
(* on only move forward, and what is sent is expected.                      *)
Forward(x) ==
    /\ task[x].hello \notin {"opening", "send"} => task'[x].hello \notin {"opening", "send"}
    /\ hello[x].received => hello'[x].received
    /\ advertised_max_streams[x] <= advertised_max_streams'[x]
Deaf(x) == hello'[x].received => hello[x].received

(* A message that was expected stays so.                                    *)
LEMMA ExpectedKept ==
    ASSUME Typed, Typed', NEW x \in Endpoints, NEW m \in Messages, Expected(x, m),
           Forward(x), Forward(peer(x)), m[1] = "HELLO" => Deaf(peer(x))
    PROVE  Expected(x, m)'
<1>1. m[1] = "MAX_STREAMS" => m[2] \in Nat
  BY MessageKinds
<1>2. advertised_max_streams[x] \in Nat /\ advertised_max_streams'[x] \in Nat
  BY DEF Typed, CountersTyped
<1> QED
  BY <1>1, <1>2 DEF Expected, Forward, Deaf

(* A step that leaves the control channel alone.                            *)
LEMMA UnchangedKept ==
    ASSUME Typed, Typed', ControlTyped, WireInv, UNCHANGED control,
           \A x \in Endpoints : Forward(x) /\ Deaf(x)
    PROVE  WireInv'
<1>1. ASSUME NEW x \in Endpoints, NEW i \in 1..Len(control[x]) PROVE Expected(x, control[x][i])'
  <2>1. control[x][i] \in Messages
    BY DEF ControlTyped
  <2>2. Expected(x, control[x][i])
    BY DEF WireInv
  <2> QED
    BY <2>1, <2>2, ExpectedKept, Peers
<1> QED
  BY <1>1 DEF WireInv

(* A step that sends on it.                                                 *)
LEMMA SendKept ==
    ASSUME Typed, Typed', ControlTyped, WireInv, NEW e \in Endpoints, NEW m \in Messages,
           send(e, m), \A x \in Endpoints : Forward(x) /\ Deaf(x), Expected(e, m)',
           m[1] = "HELLO" => ~\E i \in 1..Len(control[e]) : control[e][i][1] = "HELLO"
    PROVE  WireInv'
<1>0. ASSUME NEW x \in Endpoints, NEW i \in 1..Len(control[x]), NEW n, n = control[x][i]
      PROVE  Expected(x, n)'
  <2>1. n \in Messages
    BY <1>0 DEF ControlTyped
  <2>2. Expected(x, n)
    BY <1>0 DEF WireInv
  <2> QED
    BY <2>1, <2>2, ExpectedKept, Peers
<1>1. CASE UNCHANGED control
  BY <1>1, UnchangedKept
<1>2. CASE control' = [control EXCEPT ![e] = Append(@, m)]
  <2>1. ASSUME NEW x \in Endpoints, x # e PROVE control'[x] = control[x]
    BY <1>2, <2>1
  <2>2. /\ control[e] \in Seq(Messages) /\ control'[e] = Append(control[e], m)
        /\ Len(control'[e]) = Len(control[e]) + 1 /\ Len(control[e]) \in Nat
        /\ \A i \in 1..Len(control'[e]) : \/ i \in 1..Len(control[e]) /\ control'[e][i] = control[e][i]
                                          \/ i = Len(control[e]) + 1 /\ control'[e][i] = m
    BY <1>2 DEF ControlTyped
  <2>3. ASSUME NEW x \in Endpoints, NEW i \in 1..Len(control'[x]) PROVE Expected(x, control[x][i])'
    <3>1. CASE x = e
      BY <1>0, <2>2, <3>1
    <3>2. CASE x # e
      BY <1>0, <2>1, <3>2
    <3> QED
      BY <3>1, <3>2
  <2>4. ASSUME NEW x \in Endpoints, NEW i \in 1..Len(control'[x]), NEW j \in 1..Len(control'[x]),
               control'[x][i][1] = "HELLO", control'[x][j][1] = "HELLO"
        PROVE  i = j
    <3>1. CASE x = e
      BY <2>2, <2>4, <3>1 DEF WireInv
    <3>2. CASE x # e
      BY <2>1, <2>4, <3>2 DEF WireInv
    <3> QED
      BY <3>1, <3>2
  <2> QED
    BY <2>3, <2>4 DEF WireInv
<1> QED
  BY <1>1, <1>2 DEF send, ControlTyped

(* A step that takes from it.                                               *)
LEMMA ReceiveKept ==
    ASSUME Typed, Typed', ControlTyped, WireInv, NEW e \in Endpoints, NEW k, receives(e, k),
           \A x \in Endpoints : Forward(x), Deaf(peer(e)), k # "HELLO" => Deaf(e)
    PROVE  WireInv'
<1> DEFINE p == peer(e)
<1>0. p \in Endpoints /\ peer(p) = e /\ p # e /\ \A x \in Endpoints : x = e \/ x = p
  BY Peers
<1>1. /\ control[p] \in Seq(Messages) /\ control[p] # <<>> /\ control[p][1][1] = k
      /\ control'[p] = Tail(control[p]) /\ control'[e] = control[e]
  BY <1>0 DEF ControlTyped, receives
<1> HIDE DEF p
<1>2. /\ Len(control'[p]) = Len(control[p]) - 1 /\ Len(control[p]) \in Nat
      /\ \A i \in 1..Len(control'[p]) : i + 1 \in 1..Len(control[p]) /\ control'[p][i] = control[p][i + 1]
  BY <1>1
<1>3. ASSUME NEW i \in 1..Len(control'[e]) PROVE Expected(e, control[e][i])'
  <2>1. Expected(e, control[e][i]) /\ control[e][i] \in Messages
    BY <1>1 DEF WireInv, ControlTyped
  <2> QED
    BY <1>0, <1>1, <2>1, ExpectedKept DEF p
<1>4. ASSUME NEW i \in 1..Len(control'[p]) PROVE Expected(p, control[p][i])'
  <2>1. Expected(p, control'[p][i]) /\ control'[p][i] \in Messages
    BY <1>0, <1>1, <1>2 DEF WireInv
  <2>2. control'[p][i][1] = "HELLO" => k # "HELLO"
    BY <1>0, <1>1, <1>2 DEF WireInv
  <2> QED
    BY <1>0, <2>1, <2>2, ExpectedKept
<1>5. ASSUME NEW x \in Endpoints, NEW i \in 1..Len(control'[x]), NEW j \in 1..Len(control'[x]),
             control'[x][i][1] = "HELLO", control'[x][j][1] = "HELLO"
      PROVE  i = j
  <2>1. CASE x = e
    BY <1>1, <1>5, <2>1 DEF WireInv
  <2>2. CASE x = p
    <3>1. /\ i + 1 \in 1..Len(control[p]) /\ control[p][i + 1][1] = "HELLO"
          /\ j + 1 \in 1..Len(control[p]) /\ control[p][j + 1][1] = "HELLO"
      BY <1>2, <1>5, <2>2
    <3>2. i + 1 = j + 1
      BY <1>0, <3>1 DEF WireInv
    <3> QED
      BY <3>2
  <2> QED
    BY <1>0, <2>1, <2>2
<1> QED
  BY <1>0, <1>3, <1>4, <1>5 DEF WireInv

(* The steps of one endpoint.                                               *)
Step(e) ==
    \/ HelloTask(e) \/ ControlTask(e) \/ Opening(e) \/ Accepting(e) \/ Ending(e)
    \/ Losing(e) \/ Choices(e) \/ accept_stream(e) \/ peer_stream_retired(e)

(* Every step moves the flags forward, and only on_hello hears a HELLO.     *)
LEMMA Flags ==
    ASSUME Typed, NEW e \in Endpoints, Step(e)
    PROVE  /\ \A x \in Endpoints : Forward(x)
           /\ ~on_hello(e) => \A x \in Endpoints : Deaf(x)
           /\ Deaf(peer(e))
<1> USE DEF slots, accepting
<1>0. \A x \in Endpoints : advertised_max_streams[x] \in Nat /\ hello[x] \in HelloStates
  BY DEF Typed, CountersTyped
<1>1. CASE HelloAside(e)
  <2>1. \A x \in Endpoints : advertised_max_streams[x] <= advertised_max_streams'[x]
    <3>1. CASE peer_stream_retired(e)
      BY <1>0, <3>1 DEF peer_stream_retired, Typed, CountersTyped
    <3>2. CASE ~peer_stream_retired(e)
      <4>1. UNCHANGED advertised_max_streams
        BY <1>1, <3>2
        DEF HelloAside, Opening, wait_established, reserve_stream_slot, commit_stream_slot,
            release_stream_slot, accept_stream, Ending, TeardownTasks, send_close_and_flush,
            close_mark, watch_established, watch_close, Losing, on_state_change,
            reserved_channel_lost, channel_lost, Choices, open_stream, abandon_open,
            close_with_error, hello_timeout, on_close, on_max_streams
      <4> QED
        BY <1>0, <4>1
    <3> QED
      BY <3>1, <3>2
  <2> QED
    BY <1>1, <2>1, AsideKeeps, Peers DEF Forward, Deaf, SameHandshake
<1>2. CASE send_hello(e)
  BY <1>0, <1>2, Peers DEF send_hello, Forward, Deaf, Typed, HelloStates, TaskStates
<1>3. CASE send_hello_send(e)
  BY <1>0, <1>3, Peers DEF send_hello_send, Forward, Deaf, Typed, TaskStates
<1>4. ASSUME NEW t \in {"hello", "control"}, hello_check(e, t) PROVE \A x \in Endpoints : Forward(x) /\ Deaf(x)
  BY <1>0, <1>4, Peers DEF hello_check, Forward, Deaf, Typed, HelloStates, TaskStates
<1>5. ASSUME NEW t \in {"hello", "control"}, flush_staged(e, t) PROVE \A x \in Endpoints : Forward(x) /\ Deaf(x)
  <2>1. /\ task'[e].hello \in {task[e].hello, "idle"}
        /\ \A x \in Endpoints : x # e => task'[x] = task[x]
    BY <1>5, FlushTask
  <2> QED
    BY <1>0, <1>5, <2>1 DEF flush_staged, Forward, Deaf
<1>6. CASE on_hello(e)
  <2>1. CASE hello[e].received
    BY <1>0, <1>6, <2>1, Peers DEF on_hello, Forward, Deaf
  <2>2. CASE ~hello[e].received
    BY <1>0, <1>6, <2>2, Peers DEF on_hello, Forward, Deaf, Typed, HelloStates, TaskStates
  <2> QED
    BY <2>1, <2>2
<1>7. CASE on_peer_hello(e) \/ refuse(e) \/ Accepting(e)
  <2>1. UNCHANGED <<hello, advertised_max_streams>>
    BY <1>7 DEF on_peer_hello, refuse, Accepting, handle_incoming, push, stage
  <2>2. \A x \in Endpoints : task'[x].hello = task[x].hello
    <3>1. CASE on_peer_hello(e)
      BY <3>1 DEF on_peer_hello, wake_open, Typed, TaskStates
    <3>2. CASE refuse(e)
      BY <3>2 DEF refuse, Typed, TaskStates
    <3>3. CASE handle_incoming(e)
      BY <3>3 DEF handle_incoming, Typed, TaskStates
    <3>4. CASE push(e)
      BY <3>4, PushTask
    <3>5. CASE stage(e)
      BY <3>5 DEF stage, Typed, TaskStates
    <3> QED
      BY <1>7, <3>1, <3>2, <3>3, <3>4, <3>5 DEF Accepting
  <2> QED
    BY <1>0, <2>1, <2>2, Peers DEF Forward, Deaf
<1> QED
  BY <1>1, <1>2, <1>3, <1>4, <1>5, <1>6, <1>7, Peers DEF Step, HelloTask, ControlTask, HelloAside

(* What is on the control channel stays expected, whatever the step.        *)
LEMMA WireKept ==
    ASSUME Typed, Typed', ControlTyped, WireInv, HelloInv, SlotInv, StreamsKept,
           NoFalseAccusation, NEW e \in Endpoints, Step(e)
    PROVE  WireInv'
<1>f. /\ \A x \in Endpoints : Forward(x)
      /\ ~on_hello(e) => \A x \in Endpoints : Deaf(x)
      /\ Deaf(peer(e))
  BY Flags
<1>d. UNCHANGED hello => \A x \in Endpoints : Deaf(x)
  BY DEF Deaf
<1>1. CASE send_hello_send(e)
  <2>1. /\ send(e, <<"HELLO">>) /\ <<"HELLO">> \in Messages /\ \A x \in Endpoints : Deaf(x)
        /\ task[e].hello = "send" /\ task'[e].hello = "check" /\ UNCHANGED hello
    BY <1>1, <1>d, MessageKinds DEF send_hello_send, Typed, TaskStates
  <2>2. ~hello[peer(e)].received
    BY <2>1 DEF HelloInv
  <2>3. Expected(e, <<"HELLO">>)'
    BY <2>1, <2>2 DEF Expected
  <2>4. ~\E i \in 1..Len(control[e]) : control[e][i][1] = "HELLO"
    BY <2>1 DEF WireInv, Expected
  <2> QED
    BY <1>f, <2>1, <2>3, <2>4, SendKept
<1>2. CASE peer_stream_retired(e)
  <2>1. /\ hello[peer(e)] \in HelloStates /\ incoming[e] \in IncomingStates
        /\ task[e] \in TaskStates /\ CountersTyped /\ MaxStreams \in Nat
    BY Peers, ConnectionAssumption DEF Typed
  <2>2. ended(e) > 0 /\ ended(e) <= peer_opened_streams[e]
    <3>1. ended(e) \in Nat /\ ended(e) <= peer_opened_streams[e]
      BY <2>1 DEF ended, CountersTyped, StreamsKept, IncomingStates
    <3> QED
      BY <1>2, <2>1, <3>1 DEF peer_stream_retired, CountersTyped, SlotInv, SlotsAt
  <2>3. peer_max_streams[peer(e)] > 0
    <3>1. ended(e) \in Nat /\ peer(e) \in Endpoints /\ peer(peer(e)) = e
      BY <2>1, Peers DEF ended, CountersTyped, IncomingStates
    <3>2. streams_opened[peer(e)] > 0
      BY <2>1, <2>2, <3>1 DEF SlotInv, SlotsAt, CountersTyped
    <3> QED
      BY <2>1, <3>1, <3>2 DEF SlotInv, SlotsAt, CountersTyped
  <2>4. hello[peer(e)].received
    BY <2>3, Peers DEF SlotInv, SlotsAt
  <2> PICK m : m = <<"MAX_STREAMS", advertised_max_streams[e] + 1>>
    OBVIOUS
  <2>5. /\ advertised_max_streams[e] + 1 \in Nat /\ m[1] = "MAX_STREAMS"
        /\ advertised_max_streams'[e] = advertised_max_streams[e] + 1
        /\ UNCHANGED hello /\ send(e, m)
    BY <1>2, <2>1 DEF peer_stream_retired, CountersTyped
  <2>6. m \in Messages /\ m[2] = advertised_max_streams'[e]
    BY <2>5, MessageKinds
  <2>7. hello'[peer(e)].received
    BY <2>4, <2>5
  <2>8. Expected(e, m)'
    BY <2>1, <2>5, <2>6, <2>7 DEF Expected
  <2> QED
    BY <1>d, <1>f, <2>5, <2>6, <2>8, SendKept
<1>3. ASSUME NEW t \in ending[e], send_close_and_flush(e, t[2]) PROVE WireInv'
  <2> DEFINE m == <<"CLOSE", t[2]>>
  <2>1. t[2] \in Codes /\ t[2] # "protocol"
    BY DEF Typed, Teardowns, NoFalseAccusation
  <2>2. m \in Messages /\ m[1] = "CLOSE" /\ m[2] # "protocol" /\ send(e, m) /\ UNCHANGED hello
    BY <1>3, <2>1, MessageKinds DEF send_close_and_flush
  <2> HIDE DEF m
  <2>3. Expected(e, m)'
    BY <2>2 DEF Expected
  <2> QED
    BY <1>d, <1>f, <2>2, <2>3, SendKept
<1>4. CASE on_hello(e) \/ on_close(e) \/ on_max_streams(e)
  <2>1. PICK k : receives(e, k) /\ (k # "HELLO" => UNCHANGED hello)
    BY <1>4 DEF on_hello, on_close, on_max_streams
  <2> QED
    BY <1>d, <1>f, <2>1, ReceiveKept, Peers
<1>5. CASE UNCHANGED control /\ ~on_hello(e)
  BY <1>5, <1>f, UnchangedKept
<1>6. CASE UNCHANGED control /\ UNCHANGED hello
  BY <1>6, <1>d, <1>f, UnchangedKept
<1>7. CASE UNCHANGED control /\ Accepting(e)
  BY <1>7, <1>6 DEF Accepting, handle_incoming, push, stage
<1>8. \/ UNCHANGED control \/ on_hello(e) \/ on_close(e) \/ on_max_streams(e)
      \/ send_hello_send(e) \/ peer_stream_retired(e)
      \/ \E t \in ending[e] : send_close_and_flush(e, t[2])
  <2> USE DEF wire
  <2>1. CASE HelloTask(e) \/ ControlTask(e)
    BY <2>1 DEF HelloTask, ControlTask, send_hello, hello_check, flush_staged, on_peer_hello, refuse
  <2>2. CASE Opening(e) \/ Accepting(e) \/ accept_stream(e)
    BY <2>2 DEF Opening, wait_established, reserve_stream_slot, commit_stream_slot,
                release_stream_slot, Accepting, handle_incoming, push, stage, accept_stream
  <2>3. CASE Ending(e)
    BY <2>3 DEF Ending, TeardownTasks, close_mark, watch_established, watch_close
  <2>4. CASE Losing(e) \/ Choices(e)
    BY <2>4 DEF Losing, on_state_change, reserved_channel_lost, channel_lost, Choices,
                open_stream, abandon_open, close_with_error, hello_timeout
  <2> QED
    BY <2>1, <2>2, <2>3, <2>4 DEF Step
<1> QED
  BY <1>1, <1>2, <1>3, <1>4, <1>5, <1>8

-----------------------------------------------------------------------------
(* What each step leaves of a waiting open_stream and accept_stream.        *)
LEMMA TaskUpdates ==
    ASSUME Typed, NEW e \in Endpoints, NEW v
    PROVE  /\ \/ task' = [task EXCEPT ![e].hello = v] \/ task' = [task EXCEPT ![e].control = v]
              \/ task' = [task EXCEPT ![e].watcher = v] \/ task' = [task EXCEPT ![e].incoming = v]
              \/ task' = [task EXCEPT ![e].accept = v] \/ task' = task
              => \A x \in Endpoints : task'[x].open = task[x].open
           /\ \/ task' = [task EXCEPT ![e].hello = v] \/ task' = [task EXCEPT ![e].control = v]
              \/ task' = [task EXCEPT ![e].watcher = v] \/ task' = [task EXCEPT ![e].incoming = v]
              \/ task' = [task EXCEPT ![e].open = v] \/ task' = task
              => \A x \in Endpoints : task'[x].accept = task[x].accept
           /\ task' = [task EXCEPT ![e].accept = "idle"] =>
                \A x \in Endpoints : task'[x].accept = IF x = e THEN "idle" ELSE task[x].accept
           /\ task' = [task EXCEPT ![e].open = v] =>
                \A x \in Endpoints : task'[x].open = IF x = e THEN v ELSE task[x].open
BY DEF Typed, TaskStates

(* The same of its watcher.                                                 *)
LEMMA WatcherUpdates ==
    ASSUME Typed, NEW e \in Endpoints, NEW v
    PROVE  /\ \/ task' = [task EXCEPT ![e].hello = v] \/ task' = [task EXCEPT ![e].control = v]
              \/ task' = [task EXCEPT ![e].open = v] \/ task' = [task EXCEPT ![e].incoming = v]
              \/ task' = [task EXCEPT ![e].accept = v] \/ task' = task
              => \A x \in Endpoints : task'[x].watcher = task[x].watcher
           /\ task' = [task EXCEPT ![e].watcher = v] =>
                \A x \in Endpoints : task'[x].watcher = IF x = e THEN v ELSE task[x].watcher
BY DEF Typed, TaskStates

(* The steps that wake open_stream.                                         *)
WakesOpen(e) == on_peer_hello(e) \/ on_max_streams(e) \/ watch_close(e)
(* A wake-up moves a parked open_stream and nothing else of a waiting call. *)
LEMMA WokenTask ==
    ASSUME Typed, NEW e \in Endpoints, WakesOpen(e), UNCHANGED task => on_max_streams(e)
    PROVE  /\ \A x \in Endpoints : x # e => task'[x] = task[x]
           /\ task'[e].accept = task[e].accept
           /\ \/ task'[e].open = IF task[e].open = "parked" THEN "reserve" ELSE task[e].open
              \/ on_max_streams(e) /\ UNCHANGED task
<1> DEFINE r == wake_open(task[e])
<1>1. /\ task[e] \in TaskStates /\ task \in [Endpoints -> TaskStates]
      /\ r \in TaskStates /\ r.accept = task[e].accept
      /\ r.open = IF task[e].open = "parked" THEN "reserve" ELSE task[e].open
  BY Wakes, WakeKeeps DEF Typed
<1>2. \/ task' = [task EXCEPT ![e] = r]
      \/ on_max_streams(e) /\ UNCHANGED task
      \/ task' = [task EXCEPT ![e] = [r EXCEPT !.control = "check"]]
      \/ task' = [task EXCEPT ![e] = [r EXCEPT !.watcher = "ended"]]
  <2>1. CASE on_peer_hello(e)
    BY <2>1 DEF on_peer_hello
  <2>2. CASE watch_close(e)
    BY <2>2 DEF watch_close
  <2>3. CASE on_max_streams(e)
    <3>1. \/ task' = task \/ task' = [task EXCEPT ![e] = r] \/ task' = [task EXCEPT ![e] = task[e]]
      BY <2>3 DEF on_max_streams
    <3> QED
      BY <1>1, <2>3, <3>1
  <2> QED
    BY <2>1, <2>2, <2>3 DEF WakesOpen
<1>3. ASSUME NEW q \in TaskStates
      PROVE  /\ [q EXCEPT !.control = "check"].open = q.open
             /\ [q EXCEPT !.watcher = "ended"].open = q.open
             /\ [q EXCEPT !.control = "check"].accept = q.accept
             /\ [q EXCEPT !.watcher = "ended"].accept = q.accept
  BY DEF TaskStates
<1> HIDE DEF r
<1>4. CASE \E q \in {r, [r EXCEPT !.control = "check"], [r EXCEPT !.watcher = "ended"]} :
             task' = [task EXCEPT ![e] = q]
  <2>1. PICK q \in {r, [r EXCEPT !.control = "check"], [r EXCEPT !.watcher = "ended"]} :
               task' = [task EXCEPT ![e] = q]
    BY <1>4
  <2>2. q.open = r.open /\ q.accept = r.accept
    BY <1>1, <1>3, <2>1
  <2>3. task'[e] = q /\ \A x \in Endpoints : x # e => task'[x] = task[x]
    BY <1>1, <2>1
  <2> QED
    BY <1>1, <2>2, <2>3
<1>5. CASE on_max_streams(e) /\ UNCHANGED task
  BY <1>5
<1> QED
  BY <1>2, <1>4, <1>5

(* Neither the application's call nor a wake-up.                            *)
OpenAside(e) ==
    \/ HelloTask(e) \/ on_hello(e) \/ refuse(e) \/ on_close(e)
    \/ hello_check(e, "control") \/ flush_staged(e, "control")
    \/ Accepting(e) \/ accept_stream(e) \/ peer_stream_retired(e) \/ TeardownTasks(e)
    \/ watch_established(e) \/ Losing(e) \/ close_with_error(e) \/ hello_timeout(e)
(* The other steps leave open_stream alone.                                 *)
LEMMA OpenKept ==
    ASSUME Typed, NEW e \in Endpoints, OpenAside(e)
    PROVE  \A x \in Endpoints : task'[x].open = task[x].open
<1>1. ASSUME NEW t \in {"hello", "control"}, flush_staged(e, t)
      PROVE  \A x \in Endpoints : task'[x].open = task[x].open
  BY <1>1, FlushTask
<1>2. CASE push(e)
  BY <1>2, PushTask
<1>3. CASE send_hello(e) \/ send_hello_send(e) \/ hello_check(e, "hello") \/ hello_check(e, "control")
  BY <1>3, TaskUpdates DEF send_hello, send_hello_send, hello_check
<1>4. CASE on_hello(e) \/ refuse(e) \/ on_close(e)
  BY <1>4, TaskUpdates DEF on_hello, refuse, on_close, tear_down
<1>5. CASE handle_incoming(e) \/ stage(e) \/ accept_stream(e) \/ peer_stream_retired(e)
  BY <1>5, TaskUpdates DEF handle_incoming, stage, accept_stream, peer_stream_retired
<1>6. CASE TeardownTasks(e) \/ watch_established(e) \/ close_with_error(e) \/ hello_timeout(e)
  BY <1>6, TaskUpdates
  DEF TeardownTasks, send_close_and_flush, close_mark, tear_down, watch_established,
      close_with_error, hello_timeout
<1>7. CASE Losing(e)
  BY <1>7, TaskUpdates DEF Losing, on_state_change, reserved_channel_lost, channel_lost, tear_down
<1> QED
  BY <1>1, <1>2, <1>3, <1>4, <1>5, <1>6, <1>7 DEF OpenAside, HelloTask, Accepting

(* No step but accept_stream itself parks it.                               *)
LEMMA AcceptKept ==
    ASSUME Typed, NEW e \in Endpoints, Step(e), ~accept_stream(e)
    PROVE  \A x \in Endpoints : task'[x].accept = "parked" => task[x].accept = "parked"
<1> DEFINE Goal == \A x \in Endpoints : task'[x].accept = "parked" => task[x].accept = "parked"
<1>1. ASSUME NEW t \in {"hello", "control"}, flush_staged(e, t) PROVE Goal
  BY <1>1, FlushTask
<1>2. CASE push(e)
  BY <1>2, PushTask
<1>3. CASE send_hello(e) \/ send_hello_send(e) \/ hello_check(e, "hello") \/ hello_check(e, "control")
  BY <1>3, TaskUpdates DEF send_hello, send_hello_send, hello_check
<1>4. CASE on_hello(e) \/ refuse(e) \/ on_close(e)
  BY <1>4, TaskUpdates DEF on_hello, refuse, on_close, tear_down
<1>5. CASE handle_incoming(e) \/ stage(e) \/ peer_stream_retired(e)
  BY <1>5, TaskUpdates DEF handle_incoming, stage, peer_stream_retired
<1>6. CASE TeardownTasks(e) \/ watch_established(e) \/ close_with_error(e) \/ hello_timeout(e)
  BY <1>6, TaskUpdates
  DEF TeardownTasks, send_close_and_flush, close_mark, tear_down, watch_established,
      close_with_error, hello_timeout
<1>7. CASE Losing(e)
  BY <1>7, TaskUpdates DEF Losing, on_state_change, reserved_channel_lost, channel_lost, tear_down
<1>8. CASE Opening(e) \/ open_stream(e) \/ abandon_open(e)
  BY <1>8, TaskUpdates
  DEF Opening, wait_established, reserve_stream_slot, commit_stream_slot,
      release_stream_slot, open_stream, abandon_open
<1>9. CASE WakesOpen(e)
  <2>1. CASE UNCHANGED task
    BY <2>1
  <2>2. CASE task' # task
    BY <1>9, <2>2, WokenTask
  <2> QED
    BY <2>1, <2>2
<1> QED
  BY <1>1, <1>2, <1>3, <1>4, <1>5, <1>6, <1>7, <1>8, <1>9
  DEF Step, HelloTask, ControlTask, Accepting, Ending, Choices, WakesOpen

-----------------------------------------------------------------------------
(* Stream slots.                                                            *)
LEMMA SlotKept ==
    ASSUME Typed, Typed', ControlTyped, WireInv, HelloInv, SlotInv, NEW e \in Endpoints, Step(e)
    PROVE  SlotInv'
<1> USE DEF slots, opening, accepting, wire
<1>0. /\ CountersTyped /\ CountersTyped' /\ MaxStreams \in Nat
      /\ task \in [Endpoints -> TaskStates] /\ task[e] \in TaskStates
  BY ConnectionAssumption DEF Typed
<1>f. \A x \in Endpoints : hello[x].received => hello'[x].received
  BY Flags DEF Forward
<1>1. ASSUME UNCHANGED <<slots, channels>>,
             \A x \in Endpoints : task'[x].open = "create" => task[x].open = "create",
             \A x \in Endpoints : task'[x].control = "hello" =>
                                    task[x].control = "hello" \/ ~hello[x].received
      PROVE  SlotInv'
  BY <1>1, <1>f DEF SlotInv, SlotsAt
<1>2. CASE on_hello(e)
  <2>1. \A x \in Endpoints : task'[x].open = task[x].open
    BY <1>2, OpenKept DEF OpenAside
  <2>2. \A x \in Endpoints : task'[x].control = "hello" => task[x].control = "hello" \/ ~hello[x].received
    BY <1>0, <1>2 DEF on_hello, TaskStates
  <2> QED
    BY <1>1, <1>2, <2>1, <2>2 DEF on_hello
<1>3. CASE \/ HelloTask(e) \/ refuse(e) \/ push(e) \/ stage(e)
           \/ hello_check(e, "control") \/ flush_staged(e, "control")
  <2>1. \A x \in Endpoints : task'[x].open = task[x].open
    BY <1>3, OpenKept DEF OpenAside, Accepting
  <2>2. \A x \in Endpoints : task'[x].control = "hello" => task[x].control = "hello"
    <3>1. ASSUME NEW t \in {"hello", "control"}, flush_staged(e, t)
          PROVE  \A x \in Endpoints : task'[x].control = "hello" => task[x].control = "hello"
      BY <3>1, FlushTask
    <3>2. ASSUME NEW t \in {"hello", "control"}, hello_check(e, t)
          PROVE  \A x \in Endpoints : task'[x].control = "hello" => task[x].control = "hello"
      BY <1>0, <3>2 DEF hello_check, TaskStates
    <3>3. CASE send_hello(e) \/ send_hello_send(e) \/ refuse(e) \/ stage(e)
      BY <1>0, <3>3 DEF send_hello, send_hello_send, refuse, stage, TaskStates
    <3>4. CASE push(e)
      BY <3>4, PushTask
    <3> QED
      BY <1>3, <3>1, <3>2, <3>3, <3>4 DEF HelloTask
  <2>3. UNCHANGED <<slots, channels>>
    BY <1>3 DEF HelloTask, send_hello, send_hello_send, hello_check, flush_staged, refuse, push, stage
  <2> QED
    BY <1>1, <2>1, <2>2, <2>3
<1>4. CASE on_peer_hello(e)
  <2>1. /\ task'[e].control = "check" /\ \A x \in Endpoints : x # e => task'[x] = task[x]
        /\ task'[e].open = IF task[e].open = "parked" THEN "reserve" ELSE task[e].open
    <3> DEFINE r == wake_open(task[e])
    <3>1. r \in TaskStates /\ task' = [task EXCEPT ![e] = [r EXCEPT !.control = "check"]]
      BY <1>0, <1>4, Wakes DEF on_peer_hello
    <3>2. task[e].control # "check"
      BY <1>4 DEF on_peer_hello
    <3>3. ASSUME NEW q \in TaskStates PROVE [q EXCEPT !.control = "check"].control = "check"
      BY DEF TaskStates
    <3> HIDE DEF r
    <3>4. task'[e].control = "check"
      BY <1>0, <3>1, <3>3
    <3>5. task' # task
      BY <3>2, <3>4
    <3> QED
      BY <1>4, <3>4, <3>5, WokenTask DEF WakesOpen
  <2>2. /\ hello' = hello /\ peer_max_streams' = [peer_max_streams EXCEPT ![e] = MaxStreams]
        /\ UNCHANGED <<streams_reserved, streams_opened, accepting, channels>>
        /\ peer_max_streams[e] = 0 /\ hello[e].received
    BY <1>4 DEF on_peer_hello, SlotInv, SlotsAt, HelloInv
  <2>3. ASSUME NEW x \in Endpoints PROVE SlotsAt(x)'
    <3>1. SlotsAt(x) /\ SlotsAt(e) /\ SlotsAt(peer(e)) /\ peer(e) \in Endpoints /\ peer(e) # e
      BY Peers DEF SlotInv
    <3>2. CASE x = e
      BY <1>0, <2>1, <2>2, <3>1, <3>2 DEF SlotsAt, CountersTyped
    <3>3. CASE x # e
      BY <1>0, <2>1, <2>2, <3>1, <3>3 DEF SlotsAt, CountersTyped
    <3> QED
      BY <3>2, <3>3
  <2> QED
    BY <2>3 DEF SlotInv
<1>5. CASE on_max_streams(e)
  <2>1. \A x \in Endpoints : task'[x].control = task[x].control
    BY <1>5, AsideKeeps DEF HelloAside, SameHandshake
  <2>2. \A x \in Endpoints : task'[x].open = "create" => task[x].open = "create"
    <3>1. CASE UNCHANGED task
      BY <3>1
    <3>2. CASE task' # task
      BY <1>5, <3>2, WokenTask DEF WakesOpen
    <3> QED
      BY <3>1, <3>2
  <2>3. /\ Head(control[peer(e)])[2] \in Nat
        /\ Head(control[peer(e)])[2] <= advertised_max_streams[peer(e)]
        /\ hello[e].received
    BY <1>5, ReceiveExpected, MessageKinds, Peers DEF on_max_streams, Expected
  <2>4. /\ UNCHANGED <<hello, streams_reserved, streams_opened, accepting, channels>>
        /\ peer_max_streams' = [peer_max_streams EXCEPT ![e] =
              IF Head(control[peer(e)])[2] > @ THEN Head(control[peer(e)])[2] ELSE @]
        /\ task[e].control = "idle"
    BY <1>5, <2>3 DEF on_max_streams, receives
  <2> QED
    BY <1>0, <2>1, <2>2, <2>3, <2>4, Peers DEF SlotInv, SlotsAt, CountersTyped
<1>6. CASE \/ open_stream(e) \/ abandon_open(e) \/ wait_established(e)
           \/ on_close(e) \/ accept_stream(e) \/ Ending(e) \/ Losing(e)
           \/ close_with_error(e) \/ hello_timeout(e)
  <2>1. \A x \in Endpoints : task'[x].control = task[x].control
    BY <1>6, AsideKeeps DEF HelloAside, SameHandshake, Opening, Choices
  <2>2. \A x \in Endpoints : task'[x].open = "create" => task[x].open = "create"
    <3>1. CASE open_stream(e) \/ abandon_open(e) \/ wait_established(e)
      BY <3>1, TaskUpdates DEF open_stream, abandon_open, wait_established
    <3>2. CASE watch_close(e)
      <4>1. CASE UNCHANGED task
        BY <4>1
      <4> QED
        BY <3>2, <4>1, WokenTask DEF WakesOpen
    <3> QED
      BY <1>6, <3>1, <3>2, OpenKept DEF OpenAside, Ending
  <2>3. UNCHANGED <<slots, channels>>
    BY <1>6 DEF open_stream, abandon_open, wait_established, on_close, accept_stream, Ending,
                TeardownTasks, send_close_and_flush, close_mark, watch_established, watch_close,
                Losing, on_state_change, reserved_channel_lost, channel_lost, close_with_error,
                hello_timeout
  <2> QED
    BY <1>1, <2>1, <2>2, <2>3
<1>7. CASE reserve_stream_slot(e) \/ commit_stream_slot(e) \/ release_stream_slot(e)
  <2>1. \A x \in Endpoints : task'[x].control = task[x].control
    BY <1>7, AsideKeeps DEF HelloAside, SameHandshake, Opening
  <2>2. UNCHANGED hello
    BY <1>7 DEF reserve_stream_slot, commit_stream_slot, release_stream_slot
  <2>3. CASE reserve_stream_slot(e)
    <3>1. /\ UNCHANGED <<streams_opened, peer_max_streams, accepting, channels>>
          /\ \/ UNCHANGED streams_reserved /\ \A x \in Endpoints : task'[x].open = "create" => task[x].open = "create"
             \/ /\ streams_reserved' = [streams_reserved EXCEPT ![e] = @ + 1]
                /\ streams_opened[e] + streams_reserved[e] < peer_max_streams[e]
                /\ \A x \in Endpoints : x # e => task'[x].open = task[x].open
      BY <1>0, <2>3, TaskUpdates DEF reserve_stream_slot, slot_free
    <3>2. CASE UNCHANGED streams_reserved
      <4>1. \A x \in Endpoints : task'[x].open = "create" => task[x].open = "create"
        BY <1>0, <3>1, <3>2 DEF CountersTyped
      <4> QED
        BY <1>1, <2>1, <2>2, <3>1, <3>2, <4>1
    <3>3. CASE ~UNCHANGED streams_reserved
      <4>1. ASSUME NEW x \in Endpoints PROVE SlotsAt(x)'
        <5>1. SlotsAt(x) /\ SlotsAt(e)
          BY DEF SlotInv
        <5>2. CASE x = e
          BY <1>0, <2>1, <2>2, <3>1, <3>3, <5>1, <5>2 DEF SlotsAt, CountersTyped
        <5>3. CASE x # e
          BY <1>0, <2>1, <2>2, <3>1, <3>3, <5>1, <5>3 DEF SlotsAt, CountersTyped
        <5> QED
          BY <5>2, <5>3
      <4> QED
        BY <4>1 DEF SlotInv
    <3> QED
      BY <3>2, <3>3
  <2>4. CASE commit_stream_slot(e)
    <3>1. \A x \in Endpoints : task'[x].open = IF x = e THEN "idle" ELSE task[x].open
      <4>1. task' = [task EXCEPT ![e].open = "idle"]
        BY <2>4 DEF commit_stream_slot
      <4> QED
        BY <1>0, <4>1 DEF TaskStates
    <3>2. /\ streams_reserved' = [streams_reserved EXCEPT ![e] = @ - 1]
          /\ streams_opened' = [streams_opened EXCEPT ![e] = @ + 1]
          /\ channels' = [channels EXCEPT ![e] = @ + 1]
          /\ UNCHANGED <<peer_max_streams, accepting>>
          /\ streams_reserved[e] > 0
      BY <2>4 DEF commit_stream_slot, SlotInv, SlotsAt
    <3> DEFINE Left(x) == IF x = e THEN streams_reserved[x] - 1 ELSE streams_reserved[x]
    <3>3. \A x \in Endpoints : /\ streams_reserved'[x] = Left(x)
                              /\ hello'[x].received = hello[x].received
                              /\ peer_max_streams'[x] = peer_max_streams[x]
                              /\ advertised_max_streams'[x] = advertised_max_streams[x]
                              /\ peer_opened_streams'[x] = peer_opened_streams[x]
      BY <1>0, <2>2, <3>2 DEF CountersTyped
    <3>4. \A x \in Endpoints : /\ streams_opened'[x] = IF x = e THEN streams_opened[x] + 1 ELSE streams_opened[x]
                              /\ channels'[x] = IF x = e THEN channels[x] + 1 ELSE channels[x]
      BY <1>0, <3>2 DEF CountersTyped
    <3>5. \A x \in Endpoints : streams_opened'[x] + streams_reserved'[x] <= peer_max_streams'[x]
      BY <1>0, <3>3, <3>4, Peers DEF SlotInv, SlotsAt, CountersTyped
    <3>6. \A x \in Endpoints : streams_opened'[x] = channels'[x] + peer_opened_streams'[peer(x)]
      BY <1>0, <3>3, <3>4, Peers DEF SlotInv, SlotsAt, CountersTyped
    <3>7. \A x \in Endpoints : task'[x].open = "create" => streams_reserved'[x] > 0
      BY <3>1, <3>3 DEF SlotInv, SlotsAt
    <3>8. ASSUME NEW x \in Endpoints PROVE SlotsAt(x)'
      <4>1. SlotsAt(x) /\ SlotsAt(peer(x)) /\ peer(x) \in Endpoints
        BY Peers DEF SlotInv
      <4> HIDE DEF Left
      <4> QED
        BY <2>1, <3>3, <3>5, <3>6, <3>7, <4>1 DEF SlotsAt
    <3> QED
      BY <3>8 DEF SlotInv
  <2>5. CASE release_stream_slot(e)
    <3>1. \A x \in Endpoints : task'[x].open = IF x = e THEN "idle" ELSE task[x].open
      <4>1. task' = [task EXCEPT ![e].open = "idle"]
        BY <2>5 DEF release_stream_slot
      <4> QED
        BY <1>0, <4>1 DEF TaskStates
    <3>2. /\ streams_reserved' = [streams_reserved EXCEPT ![e] = @ - 1]
          /\ UNCHANGED <<streams_opened, channels, peer_max_streams, accepting>>
          /\ streams_reserved[e] > 0
      BY <2>5 DEF release_stream_slot, SlotInv, SlotsAt
    <3> DEFINE Left(x) == IF x = e THEN streams_reserved[x] - 1 ELSE streams_reserved[x]
    <3>3. \A x \in Endpoints : /\ streams_reserved'[x] = Left(x)
                              /\ hello'[x].received = hello[x].received
                              /\ peer_max_streams'[x] = peer_max_streams[x]
                              /\ advertised_max_streams'[x] = advertised_max_streams[x]
                              /\ peer_opened_streams'[x] = peer_opened_streams[x]
      BY <1>0, <2>2, <3>2 DEF CountersTyped
    <3>4. \A x \in Endpoints : streams_opened'[x] = streams_opened[x] /\ channels'[x] = channels[x]
      BY <1>0, <3>2 DEF CountersTyped
    <3>5. \A x \in Endpoints : streams_opened'[x] + streams_reserved'[x] <= peer_max_streams'[x]
      BY <1>0, <3>3, <3>4, Peers DEF SlotInv, SlotsAt, CountersTyped
    <3>6. \A x \in Endpoints : streams_opened'[x] = channels'[x] + peer_opened_streams'[peer(x)]
      BY <1>0, <3>3, <3>4, Peers DEF SlotInv, SlotsAt, CountersTyped
    <3>7. \A x \in Endpoints : task'[x].open = "create" => streams_reserved'[x] > 0
      BY <3>1, <3>3 DEF SlotInv, SlotsAt
    <3>8. ASSUME NEW x \in Endpoints PROVE SlotsAt(x)'
      <4>1. SlotsAt(x) /\ SlotsAt(peer(x)) /\ peer(x) \in Endpoints
        BY Peers DEF SlotInv
      <4> HIDE DEF Left
      <4> QED
        BY <2>1, <3>3, <3>5, <3>6, <3>7, <4>1 DEF SlotsAt
    <3> QED
      BY <3>8 DEF SlotInv
  <2> QED
    BY <1>7, <2>3, <2>4, <2>5
<1>8. CASE handle_incoming(e)
  <2>1. peer_opened_streams[e] < advertised_max_streams[e]
    BY <1>0, <1>8, Peers DEF handle_incoming, SlotInv, SlotsAt, CountersTyped
  <2>2. \A x \in Endpoints : task'[x].open = task[x].open
    BY <1>8, OpenKept DEF OpenAside, Accepting
  <2>3. \A x \in Endpoints : task'[x].control = task[x].control
    BY <1>0, <1>8, <2>1 DEF handle_incoming, TaskStates, CountersTyped
  <2> QED
    BY <1>0, <1>8, <2>1, <2>2, <2>3, Peers DEF handle_incoming, SlotInv, SlotsAt, CountersTyped
<1>9. CASE peer_stream_retired(e)
  <2>1. UNCHANGED <<task, hello>>
    BY <1>9 DEF peer_stream_retired
  <2> QED
    BY <1>0, <1>9, <2>1, Peers DEF peer_stream_retired, SlotInv, SlotsAt, CountersTyped
<1> QED
  BY <1>2, <1>3, <1>4, <1>5, <1>6, <1>7, <1>8, <1>9
  DEF Step, ControlTask, Opening, Accepting, Choices

-----------------------------------------------------------------------------
(* What the remaining invariants hang on: the handshake only moves forward. *)
LEMMA HelloForward ==
    ASSUME Typed, NEW e \in Endpoints, Step(e)
    PROVE  \A x \in Endpoints :
             /\ hello'[x].version = hello[x].version
             /\ hello[x].established => hello'[x].established
             /\ hello[x].received => hello'[x].received
<1> USE DEF Typed, HelloStates
<1>1. CASE send_hello(e)
  BY <1>1 DEF send_hello
<1>2. ASSUME NEW t \in {"hello", "control"}, hello_check(e, t) PROVE
             \A x \in Endpoints :
             /\ hello'[x].version = hello[x].version
             /\ hello[x].established => hello'[x].established
             /\ hello[x].received => hello'[x].received
  BY <1>2 DEF hello_check
<1>3. CASE on_hello(e)
  BY <1>3 DEF on_hello
<1>4. CASE UNCHANGED hello
  BY <1>4
<1>5. CASE HelloAside(e)
  BY <1>4, <1>5, AsideKeeps
<1>6. CASE send_hello_send(e) \/ refuse(e) \/ on_peer_hello(e) \/ Accepting(e)
  BY <1>4, <1>6 DEF send_hello_send, refuse, on_peer_hello, Accepting, handle_incoming, push, stage
<1>7. ASSUME NEW t \in {"hello", "control"}, flush_staged(e, t) PROVE UNCHANGED hello
  BY <1>7 DEF flush_staged
<1> QED
  BY <1>1, <1>2, <1>3, <1>4, <1>5, <1>6, <1>7 DEF Step, HelloTask, ControlTask, HelloAside

(* Only the handler of new channels moves its own program counter.          *)
LEMMA ArrivalsAside ==
    ASSUME Typed, NEW e \in Endpoints, Step(e), ~Accepting(e)
    PROVE  \A x \in Endpoints : task'[x].incoming = task[x].incoming
<1>0. task \in [Endpoints -> TaskStates] /\ task[e] \in TaskStates
  BY DEF Typed
<1>1. CASE HelloAside(e)
  BY <1>1, AsideKeeps DEF SameHandshake
<1>2. ASSUME NEW t \in {"hello", "control"}, flush_staged(e, t)
      PROVE \A x \in Endpoints : task'[x].incoming = task[x].incoming
  BY <1>2, FlushTask
<1>3. ASSUME NEW t \in {"hello", "control"}, hello_check(e, t)
      PROVE \A x \in Endpoints : task'[x].incoming = task[x].incoming
  BY <1>0, <1>3 DEF hello_check, TaskStates
<1>4. CASE send_hello(e) \/ send_hello_send(e) \/ refuse(e)
  BY <1>0, <1>4 DEF send_hello, send_hello_send, refuse, TaskStates
<1>5. CASE on_hello(e)
  BY <1>0, <1>5 DEF on_hello, TaskStates
<1>6. CASE on_peer_hello(e)
  <2>1. /\ wake_open(task[e]) \in TaskStates /\ wake_open(task[e]).incoming = task[e].incoming
        /\ task' = [task EXCEPT ![e] = [wake_open(task[e]) EXCEPT !.control = "check"]]
    BY <1>0, <1>6, Wakes, WakeKeeps DEF on_peer_hello
  <2>2. ASSUME NEW r \in TaskStates PROVE [r EXCEPT !.control = "check"].incoming = r.incoming
    BY DEF TaskStates
  <2> QED
    BY <1>0, <2>1, <2>2
<1> QED
  BY <1>1, <1>2, <1>3, <1>4, <1>5, <1>6 DEF Step, HelloTask, ControlTask, HelloAside

(* Streams are counted, and surfaced after HELLO.                           *)
LEMMA IncomingAside ==
    ASSUME NEW e \in Endpoints, Step(e), ~Accepting(e), ~accept_stream(e),
           ~flush_staged(e, "hello"), ~flush_staged(e, "control")
    PROVE  UNCHANGED <<incoming, peer_opened_streams>>
<1> USE DEF slots, accepting
<1>1. CASE HelloTask(e) \/ ControlTask(e)
  BY <1>1 DEF HelloTask, ControlTask, send_hello, send_hello_send, hello_check, on_hello,
              on_peer_hello, refuse, on_close, on_max_streams
<1>2. CASE Opening(e) \/ Choices(e) \/ peer_stream_retired(e)
  BY <1>2 DEF Opening, wait_established, reserve_stream_slot, commit_stream_slot,
              release_stream_slot, Choices, open_stream, abandon_open, close_with_error,
              hello_timeout, peer_stream_retired
<1>3. CASE Ending(e) \/ Losing(e)
  BY <1>3 DEF Ending, TeardownTasks, send_close_and_flush, close_mark, watch_established,
              watch_close, Losing, on_state_change, reserved_channel_lost, channel_lost
<1> QED
  BY <1>1, <1>2, <1>3 DEF Step

(* Every step keeps the peer's streams counted.                             *)
LEMMA StreamsKeptStep ==
    ASSUME Typed, Typed', StreamsKept, NEW e \in Endpoints, Step(e)
    PROVE  StreamsKept'
<1>0. /\ CountersTyped /\ task \in [Endpoints -> TaskStates] /\ task[e] \in TaskStates
      /\ incoming \in [Endpoints -> IncomingStates]
  BY DEF Typed
<1>1. ASSUME NEW t \in {"hello", "control"}, flush_staged(e, t) PROVE StreamsKept'
  <2>1. /\ \A x \in Endpoints : task'[x].incoming = task[x].incoming
        /\ UNCHANGED peer_opened_streams
    BY <1>1, FlushTask DEF flush_staged, slots, accepting
  <2>2. \A x \in Endpoints :
          incoming'[x].staged + incoming'[x].queue + incoming'[x].accepted
            = incoming[x].staged + incoming[x].queue + incoming[x].accepted
    BY <1>0, <1>1 DEF flush_staged, IncomingStates
  <2> QED
    BY <2>1, <2>2 DEF StreamsKept
<1>2. CASE handle_incoming(e)
  <2> USE DEF opening
  <2>1. CASE peer_opened_streams[e] >= advertised_max_streams[e]
    BY <1>2, <2>1 DEF handle_incoming, StreamsKept
  <2>2. CASE ~(peer_opened_streams[e] >= advertised_max_streams[e])
    BY <1>0, <1>2, <2>2 DEF handle_incoming, StreamsKept, surfaces, TaskStates, CountersTyped, IncomingStates
  <2> QED
    BY <2>1, <2>2
<1>3. CASE push(e)
  <2>1. /\ task'[e].incoming = "idle" /\ task[e].incoming = "push"
        /\ \A x \in Endpoints : x # e => task'[x] = task[x]
        /\ UNCHANGED peer_opened_streams
        /\ incoming' = [incoming EXCEPT ![e].queue = @ + 1]
    BY <1>3, PushTask DEF push, slots, accepting
  <2> QED
    BY <1>0, <2>1 DEF StreamsKept, IncomingStates, CountersTyped
<1>4. CASE stage(e)
  BY <1>0, <1>4 DEF stage, slots, accepting, StreamsKept, IncomingStates, CountersTyped, TaskStates
<1>5. CASE accept_stream(e)
  <2>1. /\ \A x \in Endpoints : task'[x].incoming = task[x].incoming
        /\ UNCHANGED peer_opened_streams
    BY <1>5, AsideKeeps DEF accept_stream, slots, accepting, HelloAside, SameHandshake
  <2>2. \A x \in Endpoints :
          incoming'[x].staged + incoming'[x].queue + incoming'[x].accepted
            = incoming[x].staged + incoming[x].queue + incoming[x].accepted
    BY <1>0, <1>5 DEF accept_stream, IncomingStates
  <2> QED
    BY <2>1, <2>2 DEF StreamsKept
<1>6. CASE /\ ~Accepting(e) /\ ~accept_stream(e)
           /\ ~flush_staged(e, "hello") /\ ~flush_staged(e, "control")
  BY <1>6, ArrivalsAside, IncomingAside DEF StreamsKept
<1> QED
  BY <1>1, <1>2, <1>3, <1>4, <1>5, <1>6 DEF Accepting

(* No step surfaces a stream before HELLO.                                  *)
LEMMA SurfacedKept ==
    ASSUME Typed, HelloInv, SurfacedInv, NEW e \in Endpoints, Step(e)
    PROVE  SurfacedInv'
<1>0. incoming \in [Endpoints -> IncomingStates]
  BY DEF Typed
<1>1. \A x \in Endpoints : /\ hello[x].established => hello'[x].established
                           /\ hello[x].received => hello'[x].received
  BY HelloForward
<1>2. \A x \in Endpoints :
        \/ incoming'[x].queue + incoming'[x].accepted = incoming[x].queue + incoming[x].accepted
        \/ hello[x].established /\ hello[x].received
  <2>1. ASSUME NEW t \in {"hello", "control"}, flush_staged(e, t)
        PROVE  /\ \A x \in Endpoints : x # e => incoming'[x] = incoming[x]
               /\ hello[e].established /\ hello[e].received
    BY <1>0, <2>1 DEF flush_staged, HelloInv
  <2>2. CASE push(e)
    BY <1>0, <2>2 DEF push, HelloInv
  <2>3. CASE stage(e)
    BY <1>0, <2>3 DEF stage, IncomingStates
  <2>4. CASE handle_incoming(e)
    BY <2>4 DEF handle_incoming
  <2>5. CASE accept_stream(e)
    BY <1>0, <2>5 DEF accept_stream, IncomingStates
  <2>6. CASE /\ ~Accepting(e) /\ ~accept_stream(e)
             /\ ~flush_staged(e, "hello") /\ ~flush_staged(e, "control")
    BY <2>6, IncomingAside
  <2> QED
    BY <2>1, <2>2, <2>3, <2>4, <2>5, <2>6 DEF Accepting
<1> QED
  BY <1>1, <1>2 DEF SurfacedInv

-----------------------------------------------------------------------------
(* How a step changes the life of an endpoint.                              *)
LEMMA TearDownEffect ==
    ASSUME Typed, NEW e \in Endpoints, NEW c \in Codes, tear_down(e, c)
    PROVE  /\ life'[e].closed /\ life'[e].err \in {life[e].err, c}
           /\ life'[e].is_failed = life[e].is_failed
           /\ task'[e].accept = "idle"
           /\ \A x \in Endpoints : x # e => life'[x] = life[x]
<1> DEFINE l == mark(life[e], c)
<1>1. /\ life \in [Endpoints -> LifeStates] /\ task \in [Endpoints -> TaskStates]
      /\ life[e] \in LifeStates /\ task[e] \in TaskStates
  BY DEF Typed
<1>2. /\ l \in LifeStates /\ l.closed /\ l.err \in {life[e].err, c}
      /\ l.is_failed = life[e].is_failed
  BY <1>1 DEF mark, LifeStates
<1>3. ASSUME NEW q \in LifeStates
      PROVE  LET r == [q EXCEPT !.tearing_down = TRUE, !.dead = TRUE]
             IN  r.closed = q.closed /\ r.err = q.err /\ r.is_failed = q.is_failed
  BY DEF LifeStates
<1>4. /\ life' = [life EXCEPT ![e] = [l EXCEPT !.tearing_down = TRUE, !.dead = TRUE]]
      /\ task' = [task EXCEPT ![e].accept = "idle"]
  BY DEF tear_down
<1>5. task'[e].accept = "idle"
  BY <1>1, <1>4 DEF TaskStates
<1> HIDE DEF l
<1> QED
  BY <1>1, <1>2, <1>3, <1>4, <1>5

(* How the transport's state callback changes it.                           *)
LEMMA StateChangeEffect ==
    ASSUME Typed, NEW e \in Endpoints, on_state_change(e)
    PROVE  /\ life'[e].closed /\ life'[e].err \in {life[e].err, "none"}
           /\ life'[e].is_failed = life[e].is_failed
           /\ task'[e].accept = "idle"
           /\ \A x \in Endpoints : x # e => life'[x] = life[x]
<1> DEFINE l == mark(life[e], "none")
<1>1. /\ life \in [Endpoints -> LifeStates] /\ task \in [Endpoints -> TaskStates]
      /\ life[e] \in LifeStates /\ task[e] \in TaskStates
  BY DEF Typed
<1>2. /\ l \in LifeStates /\ l.closed /\ l.err \in {life[e].err, "none"}
      /\ l.is_failed = life[e].is_failed
  BY <1>1 DEF mark, LifeStates, Codes
<1>3. ASSUME NEW q \in LifeStates
      PROVE  LET r == [q EXCEPT !.dead = TRUE]
             IN  r.closed = q.closed /\ r.err = q.err /\ r.is_failed = q.is_failed
  BY DEF LifeStates
<1>4. /\ life' = [life EXCEPT ![e] = [l EXCEPT !.dead = TRUE]]
      /\ task' = [task EXCEPT ![e].accept = "idle"]
  BY DEF on_state_change
<1>5. task'[e].accept = "idle"
  BY <1>1, <1>4 DEF TaskStates
<1> HIDE DEF l
<1> QED
  BY <1>1, <1>2, <1>3, <1>4, <1>5

(* A connection stays closed; it closes only with accept_stream woken, and  *)
(* the watcher alone fails its opener.                                      *)
LifeEffect(e) ==
    \A x \in Endpoints :
        /\ life[x].closed => life'[x].closed
        /\ life[x].is_failed => life'[x].is_failed
        /\ life'[x].closed => life[x].closed \/ (x = e /\ task'[e].accept = "idle")
        /\ life'[x].is_failed => life[x].is_failed \/ (x = e /\ watch_close(e))
(* Every step has that effect, at most.                                     *)
LEMMA LifeStep ==
    ASSUME Typed, ControlTyped, NEW e \in Endpoints, Step(e)
    PROVE  LifeEffect(e)
<1> USE DEF LifeEffect
<1>0. life \in [Endpoints -> LifeStates]
  BY DEF Typed
<1>1. CASE UNCHANGED life
  BY <1>1
<1>2. CASE life' = [life EXCEPT ![e].tearing_down = TRUE]
  BY <1>0, <1>2 DEF LifeStates
<1>3. ASSUME NEW c \in Codes, tear_down(e, c) PROVE LifeEffect(e)
  BY <1>3, TearDownEffect
<1>4. CASE on_state_change(e)
  BY <1>4, StateChangeEffect
<1>5. CASE watch_close(e)
  BY <1>0, <1>5 DEF watch_close, LifeStates
<1>6. CASE HelloTask(e) \/ on_peer_hello(e) \/ refuse(e) \/ hello_check(e, "control")
           \/ flush_staged(e, "control")
  BY <1>1, <1>6 DEF HelloTask, send_hello, send_hello_send, hello_check, flush_staged,
                    on_peer_hello, refuse
<1>7. CASE on_hello(e) \/ on_max_streams(e) \/ handle_incoming(e)
  BY <1>1, <1>2, <1>7 DEF on_hello, on_max_streams, handle_incoming, fatal
<1>8. CASE on_close(e)
  <2>1. Head(control[peer(e)])[2] \in Codes
    <3>1. Head(control[peer(e)]) \in Messages /\ Head(control[peer(e)])[1] = "CLOSE"
      BY <1>8, ReceiveTyped DEF on_close, receives
    <3> QED
      BY <3>1, MessageKinds
  <2> QED
    BY <1>3, <1>8, <2>1 DEF on_close
<1>9. CASE TeardownTasks(e)
  <2>1. PICK t \in ending[e] : send_close_and_flush(e, t[2]) \/ close_mark(e, t[2])
    BY <1>9 DEF TeardownTasks
  <2>2. t[2] \in Codes
    BY DEF Typed, Teardowns
  <2> QED
    BY <1>1, <1>3, <2>1, <2>2 DEF send_close_and_flush, close_mark
<1>10. CASE reserved_channel_lost(e)
  BY <1>3, <1>10 DEF reserved_channel_lost, Codes
<1>11. CASE channel_lost(e) \/ close_with_error(e) \/ hello_timeout(e)
  BY <1>2, <1>11 DEF channel_lost, close_with_error, hello_timeout, fatal
<1>12. CASE Opening(e) \/ open_stream(e) \/ abandon_open(e) \/ accept_stream(e)
            \/ peer_stream_retired(e) \/ watch_established(e) \/ push(e) \/ stage(e)
  BY <1>1, <1>12 DEF Opening, wait_established, reserve_stream_slot, commit_stream_slot,
                     release_stream_slot, open_stream, abandon_open, accept_stream,
                     peer_stream_retired, watch_established, push, stage
<1> QED
  BY <1>4, <1>5, <1>6, <1>7, <1>8, <1>9, <1>10, <1>11, <1>12
  DEF Step, ControlTask, Accepting, Ending, Losing, Choices

-----------------------------------------------------------------------------
(* No endpoint convicts the other.                                          *)
LEMMA InnocentFatal ==
    ASSUME Typed, NoFalseAccusation, NEW e \in Endpoints, NEW c, c # "protocol", fatal(e, c)
    PROVE  NoFalseAccusation'
<1>1. \A x \in Endpoints : life'[x].err = life[x].err
  BY DEF Typed, LifeStates, fatal
<1>2. \A x \in Endpoints : \A t \in ending'[x] : t \in ending[x] \/ t = <<"send", c>>
  BY DEF Typed, fatal
<1> QED
  BY <1>1, <1>2 DEF NoFalseAccusation

(* Tearing down for another reason.                                         *)
LEMMA InnocentTearDown ==
    ASSUME Typed, NoFalseAccusation, NEW e \in Endpoints, NEW c \in Codes, c # "protocol",
           tear_down(e, c), \A x \in Endpoints : ending'[x] \subseteq ending[x]
    PROVE  NoFalseAccusation'
<1>1. \A x \in Endpoints : life'[x].err \in {life[x].err, c}
  BY TearDownEffect
<1> QED
  BY <1>1 DEF NoFalseAccusation

(* No step convicts the peer: no HELLO is heard twice, no advertisement     *)
(* comes before HELLO, and no channel exceeds the limit.                    *)
LEMMA InnocentKept ==
    ASSUME Typed, ControlTyped, WireInv, SlotInv, HelloInv, NoFalseAccusation,
           NEW e \in Endpoints, Step(e)
    PROVE  NoFalseAccusation'
<1>1. CASE UNCHANGED <<life, ending>>
  BY <1>1 DEF NoFalseAccusation
<1>2. CASE on_hello(e)
  <2>1. ~hello[e].received
    BY <1>2, ReceiveExpected, Peers DEF on_hello, Expected
  <2> QED
    BY <1>1, <1>2, <2>1 DEF on_hello
<1>3. CASE on_max_streams(e)
  <2>1. hello[e].received
    BY <1>3, ReceiveExpected, Peers DEF on_max_streams, Expected
  <2> QED
    BY <1>1, <1>3, <2>1 DEF on_max_streams
<1>4. CASE handle_incoming(e)
  <2>1. /\ streams_opened[peer(e)] + streams_reserved[peer(e)] <= peer_max_streams[peer(e)]
        /\ peer_max_streams[peer(e)] <= advertised_max_streams[e]
        /\ streams_opened[peer(e)] = channels[peer(e)] + peer_opened_streams[e]
        /\ channels[peer(e)] > 0 /\ peer(e) \in Endpoints
    BY <1>4, Peers DEF SlotInv, SlotsAt, handle_incoming
  <2>2. peer_opened_streams[e] < advertised_max_streams[e]
    BY <2>1 DEF Typed, CountersTyped
  <2>3. ~(peer_opened_streams[e] >= advertised_max_streams[e])
    BY <2>2 DEF Typed, CountersTyped
  <2> QED
    BY <1>1, <1>4, <2>3 DEF handle_incoming
<1>5. CASE on_close(e)
  <2> DEFINE c == Head(control[peer(e)])[2]
  <2>1. c \in Codes /\ c # "protocol"
    <3>1. /\ Head(control[peer(e)]) \in Messages /\ Head(control[peer(e)])[1] = "CLOSE"
          /\ Expected(peer(e), Head(control[peer(e)]))
      BY <1>5, ReceiveExpected DEF on_close
    <3> QED
      BY <3>1, MessageKinds DEF Expected
  <2>2. tear_down(e, c) /\ UNCHANGED ending
    BY <1>5 DEF on_close
  <2> HIDE DEF c
  <2> QED
    BY <2>1, <2>2, InnocentTearDown
<1>6. CASE refuse(e)
  BY <1>6 DEF refuse, Typed, NoFalseAccusation
<1>7. CASE TeardownTasks(e)
  <2>1. PICK t \in ending[e] : send_close_and_flush(e, t[2]) \/ close_mark(e, t[2])
    BY <1>7 DEF TeardownTasks
  <2>2. t[2] \in Codes /\ t[2] # "protocol"
    BY DEF Typed, Teardowns, NoFalseAccusation
  <2>3. CASE send_close_and_flush(e, t[2])
    <3>1. \A x \in Endpoints : \A u \in ending'[x] : u \in ending[x] \/ u = <<"mark", t[2]>>
      BY <2>3 DEF send_close_and_flush, Typed
    <3> QED
      BY <2>2, <2>3, <3>1 DEF send_close_and_flush, NoFalseAccusation
  <2>4. CASE close_mark(e, t[2])
    <3>1. \A x \in Endpoints : ending'[x] \subseteq ending[x]
      BY <2>4 DEF close_mark, Typed
    <3> QED
      BY <2>2, <2>4, <3>1, InnocentTearDown DEF close_mark
  <2> QED
    BY <2>1, <2>3, <2>4
<1>8. CASE on_state_change(e)
  <2>1. \A x \in Endpoints : life'[x].err \in {life[x].err, "none"}
    BY <1>8, StateChangeEffect
  <2> QED
    BY <1>8, <2>1 DEF on_state_change, NoFalseAccusation
<1>9. CASE reserved_channel_lost(e)
  <2>1. tear_down(e, "network") /\ "network" \in Codes /\ UNCHANGED ending
    BY <1>9 DEF reserved_channel_lost, Codes
  <2> QED
    BY <2>1, InnocentTearDown
<1>10. CASE channel_lost(e) \/ hello_timeout(e)
  BY <1>10, InnocentFatal DEF channel_lost, hello_timeout
<1>11. CASE close_with_error(e)
  <2>1. \A x \in Endpoints : life'[x].err = life[x].err
    BY <1>11 DEF close_with_error, Typed, LifeStates
  <2>2. \A x \in Endpoints : \A t \in ending'[x] : t \in ending[x] \/ t = <<"send", "app">>
    BY <1>11 DEF close_with_error, Typed
  <2> QED
    BY <2>1, <2>2 DEF NoFalseAccusation
<1>12. CASE watch_close(e)
  <2>1. \A x \in Endpoints : life'[x].err = life[x].err
    BY <1>12 DEF watch_close, Typed, LifeStates
  <2> QED
    BY <1>12, <2>1 DEF watch_close, NoFalseAccusation
<1>13. CASE HelloTask(e) \/ on_peer_hello(e) \/ hello_check(e, "control")
            \/ flush_staged(e, "control")
  BY <1>1, <1>13 DEF HelloTask, send_hello, send_hello_send, hello_check, flush_staged,
                     on_peer_hello
<1>14. CASE Opening(e) \/ open_stream(e) \/ abandon_open(e) \/ accept_stream(e)
            \/ peer_stream_retired(e) \/ watch_established(e) \/ push(e) \/ stage(e)
  BY <1>1, <1>14 DEF Opening, wait_established, reserve_stream_slot, commit_stream_slot,
                     release_stream_slot, open_stream, abandon_open, accept_stream,
                     peer_stream_retired, watch_established, push, stage
<1> QED
  BY <1>2, <1>3, <1>4, <1>5, <1>6, <1>7, <1>8, <1>9, <1>10, <1>11, <1>12, <1>13, <1>14
  DEF Step, ControlTask, Accepting, Ending, Losing, Choices

-----------------------------------------------------------------------------
(* The refusal of a peer of another version.                                *)
LEMMA HelloTaken ==
    ASSUME Typed, NEW e \in Endpoints, Step(e), NEW x \in Endpoints,
           task[x].control = "hello"
    PROVE  task'[x].control = "hello" \/ (x = e /\ (on_peer_hello(e) \/ refuse(e)))
<1>0. task \in [Endpoints -> TaskStates] /\ task[e] \in TaskStates /\ task[x] \in TaskStates
  BY DEF Typed
<1>1. CASE HelloAside(e)
  BY <1>1, AsideKeeps DEF SameHandshake
<1>2. ASSUME NEW t \in {"hello", "control"}, flush_staged(e, t)
      PROVE  task'[x].control = "hello"
  <2>1. /\ x # e => task'[x] = task[x]
        /\ t = "control" => x # e
    BY <1>2, FlushTask DEF flush_staged
  <2>2. CASE t = "hello"
    <3>1. ASSUME NEW r \in TaskStates
          PROVE  [r EXCEPT !["hello"] = "idle"].control = r.control /\ [r EXCEPT !["hello"] = "idle"] \in TaskStates
      BY DEF TaskStates
    <3> DEFINE r == [task[e] EXCEPT !["hello"] = "idle"]
    <3>2. task' = [task EXCEPT ![e] = IF incoming[e].staged = 0 THEN r ELSE wake_accept(r)]
      BY <1>2, <2>2 DEF flush_staged
    <3>3. r \in TaskStates /\ r.control = task[e].control
      BY <1>0, <3>1
    <3> HIDE DEF r
    <3>4. wake_accept(r).control = task[e].control
      BY <3>3, WakeKeeps
    <3> QED
      BY <1>0, <2>1, <3>2, <3>3, <3>4
  <2> QED
    BY <2>1, <2>2
<1>3. ASSUME NEW t \in {"hello", "control"}, hello_check(e, t)
      PROVE task'[x].control = "hello"
  BY <1>0, <1>3 DEF hello_check, TaskStates
<1>4. CASE send_hello(e) \/ send_hello_send(e)
  BY <1>0, <1>4 DEF send_hello, send_hello_send, TaskStates
<1>5. CASE on_hello(e)
  BY <1>0, <1>5 DEF on_hello, TaskStates
<1>6. CASE refuse(e)
  BY <1>0, <1>6 DEF refuse, TaskStates
<1>7. CASE on_peer_hello(e)
  BY <1>0, <1>7 DEF on_peer_hello
<1>8. CASE push(e)
  BY <1>8, PushTask
<1>9. CASE handle_incoming(e) \/ stage(e)
  BY <1>0, <1>9 DEF handle_incoming, stage, TaskStates
<1> QED
  BY <1>1, <1>2, <1>3, <1>4, <1>5, <1>6, <1>7, <1>8, <1>9
  DEF Step, HelloTask, ControlTask, Accepting, HelloAside

(* A teardown goes on until it has closed the connection.                   *)
LEMMA EndingStep ==
    ASSUME Typed, NEW e \in Endpoints, Step(e), NEW x \in Endpoints, NEW t \in ending[x]
    PROVE  t \in ending'[x] \/ (x = e /\ (<<"mark", t[2]>> \in ending'[e] \/ life'[e].closed))
<1>0. ending \in [Endpoints -> SUBSET Teardowns] /\ t \in Teardowns
  BY DEF Typed
<1>1. CASE UNCHANGED ending
  BY <1>1
<1>2. ASSUME NEW S, ending' = [ending EXCEPT ![e] = ending[e] \cup S] PROVE t \in ending'[x]
  BY <1>0, <1>2
<1>3. CASE fatal(e, "lost") \/ fatal(e, "timeout") \/ fatal(e, "protocol")
  BY <1>0, <1>3 DEF fatal
<1>4. CASE on_hello(e) \/ on_max_streams(e) \/ handle_incoming(e)
  BY <1>1, <1>3, <1>4 DEF on_hello, on_max_streams, handle_incoming
<1>5. CASE channel_lost(e) \/ hello_timeout(e)
  BY <1>3, <1>5 DEF channel_lost, hello_timeout
<1>6. CASE refuse(e) \/ close_with_error(e)
  BY <1>2, <1>6 DEF refuse, close_with_error
<1>7. CASE TeardownTasks(e)
  <2>1. PICK u \in ending[e] : send_close_and_flush(e, u[2]) \/ close_mark(e, u[2])
    BY <1>7 DEF TeardownTasks
  <2>2. u \in Teardowns /\ u[2] \in Codes
    BY DEF Typed, Teardowns
  <2>3. CASE send_close_and_flush(e, u[2])
    <3>1. ending' = [ending EXCEPT ![e] = (ending[e] \ {<<"send", u[2]>>}) \cup {<<"mark", u[2]>>}]
      BY <2>3 DEF send_close_and_flush
    <3>2. t = <<"send", u[2]>> => t[2] = u[2]
      OBVIOUS
    <3> QED
      BY <1>0, <3>1, <3>2
  <2>4. CASE close_mark(e, u[2])
    <3>1. ending' = [ending EXCEPT ![e] = ending[e] \ {<<"mark", u[2]>>}]
      BY <2>4 DEF close_mark
    <3>2. life'[e].closed
      BY <2>2, <2>4, TearDownEffect DEF close_mark
    <3> QED
      BY <1>0, <3>1, <3>2
  <2> QED
    BY <2>1, <2>3, <2>4
<1>8. CASE HelloTask(e) \/ on_peer_hello(e) \/ on_close(e) \/ hello_check(e, "control")
           \/ flush_staged(e, "control") \/ push(e) \/ stage(e)
  BY <1>1, <1>8 DEF HelloTask, send_hello, send_hello_send, hello_check, flush_staged,
                    on_peer_hello, on_close, push, stage
<1>9. CASE Opening(e) \/ open_stream(e) \/ abandon_open(e) \/ accept_stream(e)
           \/ peer_stream_retired(e) \/ watch_established(e) \/ watch_close(e)
           \/ on_state_change(e) \/ reserved_channel_lost(e)
  BY <1>1, <1>9 DEF Opening, wait_established, reserve_stream_slot, commit_stream_slot,
                    release_stream_slot, open_stream, abandon_open, accept_stream,
                    peer_stream_retired, watch_established, watch_close, on_state_change,
                    reserved_channel_lost
<1> QED
  BY <1>4, <1>5, <1>6, <1>7, <1>8, <1>9
  DEF Step, ControlTask, Accepting, Ending, Losing, Choices

(* A refusal goes on until it has closed the connection.                    *)
LEMMA RefusalKept ==
    ASSUME Typed, Typed', ControlTyped, RefusalInv, NEW e \in Endpoints, Step(e)
    PROVE  RefusalInv'
<1> USE DEF SameVersion, Refusing
<1> SUFFICES ASSUME NEW x \in Endpoints, hello'[x].received,
                    hello'["a"].version # hello'["b"].version
             PROVE  \/ task'[x].control = "hello"
                    \/ \E t \in ending'[x] : t[2] = "unsupported"
                    \/ life'[x].closed
  BY DEF RefusalInv
<1>1. hello["a"].version # hello["b"].version
  BY HelloForward DEF Endpoints
<1>2. CASE ~hello[x].received
  <2>1. on_hello(e) /\ x = e
    BY <1>2, Flags, Peers DEF Deaf
  <2>2. task'[e].control = "hello"
    BY <1>2, <2>1 DEF on_hello, Typed, TaskStates
  <2> QED
    BY <2>1, <2>2
<1>3. CASE life[x].closed
  BY <1>3, LifeStep DEF LifeEffect
<1>4. CASE \E t \in ending[x] : t[2] = "unsupported"
  <2>1. PICK t \in ending[x] : t[2] = "unsupported"
    BY <1>4
  <2>2. <<"mark", t[2]>>[2] = "unsupported"
    BY <2>1
  <2> QED
    BY <2>1, <2>2, EndingStep
<1>5. CASE task[x].control = "hello"
  <2>1. CASE task'[x].control = "hello"
    BY <2>1
  <2>2. CASE x = e /\ on_peer_hello(e)
    BY <1>1, <2>2 DEF on_peer_hello, supported, peer, Endpoints
  <2>3. CASE x = e /\ refuse(e)
    <3>1. <<"send", "unsupported">> \in ending'[x]
      BY <2>3 DEF refuse, Typed
    <3>2. <<"send", "unsupported">>[2] = "unsupported"
      OBVIOUS
    <3> QED
      BY <3>1, <3>2
  <2> QED
    BY <1>5, <2>1, <2>2, <2>3, HelloTaken
<1> QED
  BY <1>1, <1>2, <1>3, <1>4, <1>5 DEF RefusalInv

-----------------------------------------------------------------------------
(* No wake-up is lost.                                                      *)
LEMMA AcceptWoken ==
    ASSUME Typed, ControlTyped, NoLostAccept, NEW e \in Endpoints, Step(e)
    PROVE  NoLostAccept'
<1>0. /\ task \in [Endpoints -> TaskStates] /\ task[e] \in TaskStates
      /\ incoming \in [Endpoints -> IncomingStates]
  BY DEF Typed
<1>1. CASE accept_stream(e)
  <2>1. UNCHANGED life
    BY <1>1 DEF accept_stream
  <2>2. ASSUME NEW x \in Endpoints, task'[x].accept = "parked"
        PROVE  incoming'[x].queue = 0 /\ ~life[x].closed
    <3>1. CASE x = e
      BY <1>0, <1>1, <2>2, <3>1 DEF accept_stream
    <3>2. CASE x # e
      <4>1. task'[x] = task[x] /\ incoming'[x] = incoming[x]
        BY <1>0, <1>1, <3>2 DEF accept_stream
      <4> QED
        BY <2>2, <4>1 DEF NoLostAccept
    <3> QED
      BY <3>1, <3>2
  <2> QED
    BY <2>1, <2>2 DEF NoLostAccept
<1>2. CASE ~accept_stream(e)
  <2>1. \A x \in Endpoints : task'[x].accept = "parked" => task[x].accept = "parked"
    BY <1>2, AcceptKept
  <2>2. \A x \in Endpoints : task'[x].accept = "parked" => ~life'[x].closed
    BY <2>1, LifeStep DEF LifeEffect, NoLostAccept
  <2>3. \A x \in Endpoints : \/ task'[x].accept # "parked"
                             \/ incoming'[x].queue = incoming[x].queue
    <3>1. ASSUME NEW t \in {"hello", "control"}, flush_staged(e, t)
          PROVE  \A x \in Endpoints : \/ task'[x].accept # "parked"
                                      \/ incoming'[x].queue = incoming[x].queue
      <4>1. incoming[e].staged # 0 => task'[e].accept = "idle"
        BY <3>1, FlushTask
      <4>2. incoming' = [incoming EXCEPT ![e] = [incoming[e] EXCEPT
                !.queue = incoming[e].queue + incoming[e].staged, !.staged = 0]]
        BY <1>0, <3>1 DEF flush_staged, IncomingStates
      <4>3. /\ incoming[e].staged \in Nat /\ incoming[e].queue \in Nat
            /\ incoming'[e].queue = incoming[e].queue + incoming[e].staged
        BY <1>0, <4>2 DEF IncomingStates
      <4>4. \A x \in Endpoints : x # e => incoming'[x] = incoming[x]
        BY <1>0, <4>2
      <4> QED
        BY <4>1, <4>3, <4>4
    <3>2. CASE push(e)
      <4>1. task'[e].accept = "idle" /\ \A x \in Endpoints : x # e => incoming'[x] = incoming[x]
        BY <1>0, <3>2, PushTask DEF push
      <4> QED
        BY <4>1
    <3>3. CASE stage(e)
      BY <1>0, <3>3 DEF stage, IncomingStates
    <3>4. CASE handle_incoming(e)
      BY <3>4 DEF handle_incoming
    <3>5. CASE /\ ~Accepting(e) /\ ~flush_staged(e, "hello") /\ ~flush_staged(e, "control")
      BY <1>2, <3>5, IncomingAside
    <3> QED
      BY <3>1, <3>2, <3>3, <3>4, <3>5 DEF Accepting
  <2> QED
    BY <2>1, <2>2, <2>3 DEF NoLostAccept
<1> QED
  BY <1>1, <1>2

(* Taking a message leaves another queue.                                   *)
LEMMA TailDiffers ==
    ASSUME NEW S, NEW q \in Seq(S), q # <<>>
    PROVE  Tail(q) # q
<1>1. Len(q) \in Nat /\ Len(q) # 0 /\ Len(Tail(q)) = Len(q) - 1
  OBVIOUS
<1>2. \A n \in Nat : n # n - 1
  OBVIOUS
<1>3. Len(Tail(q)) # Len(q)
  BY <1>1, <1>2, Zenon
<1> QED
  BY <1>3, Zenon

(* The other steps leave the watcher at work.                               *)
LEMMA WatcherAside ==
    ASSUME Typed, NEW e \in Endpoints, Step(e), ~watch_close(e), ~hello_timeout(e)
    PROVE  \A x \in Endpoints : task'[x].watcher = "ended" => task[x].watcher = "ended"
<1> DEFINE Goal == \A x \in Endpoints : task'[x].watcher = "ended" => task[x].watcher = "ended"
<1>0. task \in [Endpoints -> TaskStates] /\ task[e] \in TaskStates
  BY DEF Typed
<1>k. ASSUME NEW r \in TaskStates, task' = [task EXCEPT ![e] = r],
             r.watcher \in {task[e].watcher, "close"}
      PROVE  Goal
  BY <1>0, <1>k
<1>u. ASSUME NEW r \in TaskStates
      PROVE  /\ wake_open(r) \in TaskStates /\ wake_open(r).watcher = r.watcher
             /\ wake_accept(r) \in TaskStates /\ wake_accept(r).watcher = r.watcher
             /\ [r EXCEPT !.control = "check"].watcher = r.watcher
             /\ [r EXCEPT !.incoming = "idle"].watcher = r.watcher
  BY Wakes DEF wake_open, wake_accept, TaskStates
<1>1. ASSUME NEW t \in {"hello", "control"}, flush_staged(e, t) PROVE Goal
  <2> DEFINE r == [task[e] EXCEPT ![t] = "idle"]
  <2>1. r \in TaskStates /\ r.watcher = task[e].watcher
    <3>1. CASE t = "hello"
      BY <1>0, <3>1 DEF TaskStates
    <3>2. CASE t = "control"
      BY <1>0, <3>2 DEF TaskStates
    <3> QED
      BY <3>1, <3>2
  <2>2. \/ task' = [task EXCEPT ![e] = r]
        \/ task' = [task EXCEPT ![e] = wake_accept(r)]
    BY <1>1 DEF flush_staged
  <2> HIDE DEF r
  <2> QED
    BY <1>k, <1>u, <2>1, <2>2
<1>2. CASE push(e)
  <2>1. /\ wake_accept(task[e]) \in TaskStates
        /\ task' = [task EXCEPT ![e] = [wake_accept(task[e]) EXCEPT !.incoming = "idle"]]
    BY <1>0, <1>2, <1>u DEF push
  <2> QED
    BY <1>0, <1>k, <1>u, <2>1, TaskFields
<1>3. CASE send_hello(e) \/ send_hello_send(e) \/ hello_check(e, "hello") \/ hello_check(e, "control")
  BY <1>3, WatcherUpdates DEF send_hello, send_hello_send, hello_check
<1>4. CASE on_hello(e) \/ refuse(e) \/ on_close(e)
  BY <1>4, WatcherUpdates DEF on_hello, refuse, on_close, tear_down
<1>5. CASE on_max_streams(e)
  BY <1>0, <1>k, <1>u, <1>5 DEF on_max_streams
<1>6. CASE on_peer_hello(e)
  <2>1. /\ wake_open(task[e]) \in TaskStates
        /\ task' = [task EXCEPT ![e] = [wake_open(task[e]) EXCEPT !.control = "check"]]
    BY <1>0, <1>6, <1>u DEF on_peer_hello
  <2> QED
    BY <1>0, <1>k, <1>u, <2>1, TaskFields
<1>7. CASE handle_incoming(e) \/ stage(e) \/ accept_stream(e) \/ peer_stream_retired(e)
  BY <1>7, WatcherUpdates
  DEF handle_incoming, stage, accept_stream, peer_stream_retired
<1>8. CASE TeardownTasks(e) \/ watch_established(e) \/ close_with_error(e)
  BY <1>8, WatcherUpdates
  DEF TeardownTasks, send_close_and_flush, close_mark, tear_down, watch_established,
      close_with_error
<1>9. CASE Losing(e)
  BY <1>9, WatcherUpdates
  DEF Losing, on_state_change, reserved_channel_lost, channel_lost, tear_down
<1>10. CASE Opening(e) \/ open_stream(e) \/ abandon_open(e)
  BY <1>10, WatcherUpdates
  DEF Opening, wait_established, reserve_stream_slot, commit_stream_slot,
      release_stream_slot, open_stream, abandon_open
<1> QED
  BY <1>1, <1>2, <1>3, <1>4, <1>5, <1>6, <1>7, <1>8, <1>9, <1>10
  DEF Step, HelloTask, ControlTask, Accepting, Ending, Choices

(* The watcher ends in one of two steps.                                    *)
LEMMA WatcherKept ==
    ASSUME Typed, ControlTyped, WatcherInv, NEW e \in Endpoints, Step(e)
    PROVE  WatcherInv'
<1>0. /\ task \in [Endpoints -> TaskStates] /\ task[e] \in TaskStates
      /\ life \in [Endpoints -> LifeStates] /\ life[e] \in LifeStates
  BY DEF Typed
<1>1. CASE watch_close(e)
  <2>1. /\ life'[e].is_failed /\ \A x \in Endpoints : x # e => UNCHANGED <<life[x], task[x]>>
    BY <1>0, <1>1 DEF watch_close, LifeStates
  <2> QED
    BY <2>1 DEF WatcherInv
<1>2. CASE hello_timeout(e)
  <2>1. e \in Slow /\ \A x \in Endpoints : x # e => UNCHANGED <<life[x], task[x]>>
    BY <1>0, <1>2 DEF hello_timeout, fatal
  <2> QED
    BY <2>1 DEF WatcherInv
<1>3. CASE ~watch_close(e) /\ ~hello_timeout(e)
  <2>1. \A x \in Endpoints : task'[x].watcher = "ended" => task[x].watcher = "ended"
    BY <1>3, WatcherAside
  <2>2. \A x \in Endpoints : life[x].is_failed => life'[x].is_failed
    BY LifeStep DEF LifeEffect
  <2> QED
    BY <2>1, <2>2 DEF WatcherInv
<1> QED
  BY <1>1, <1>2, <1>3

(* A step that frees a slot or fails the connection wakes open_stream.      *)
LEMMA OpenWoken ==
    ASSUME Typed, ControlTyped, SlotWaitInv, NEW e \in Endpoints, Step(e)
    PROVE  SlotWaitInv'
<1>0. /\ task \in [Endpoints -> TaskStates] /\ task[e] \in TaskStates /\ CountersTyped
      /\ life \in [Endpoints -> LifeStates]
  BY DEF Typed
<1>1. ASSUME \A x \in Endpoints : task'[x].open = "parked" =>
                 /\ task[x].open = "parked"
                 /\ ~(x = e /\ watch_close(e))
                 /\ UNCHANGED <<streams_opened[x], streams_reserved[x], peer_max_streams[x]>>
      PROVE  SlotWaitInv'
  BY <1>1, LifeStep DEF SlotWaitInv, slot_free, LifeEffect
<1>2. CASE reserve_stream_slot(e)
  <2>1. UNCHANGED <<life, streams_opened, peer_max_streams>>
    BY <1>2 DEF reserve_stream_slot
  <2>2. ASSUME NEW x \in Endpoints, task'[x].open = "parked"
        PROVE  ~life[x].is_failed /\ ~slot_free(x) /\ streams_reserved'[x] = streams_reserved[x]
    <3>1. CASE x = e
      BY <1>0, <1>2, <2>2, <3>1 DEF reserve_stream_slot, TaskStates
    <3>2. CASE x # e
      <4>1. task'[x] = task[x] /\ streams_reserved'[x] = streams_reserved[x]
        BY <1>0, <1>2, <3>2 DEF reserve_stream_slot, CountersTyped
      <4> QED
        BY <2>2, <4>1 DEF SlotWaitInv
    <3> QED
      BY <3>1, <3>2
  <2> QED
    BY <2>1, <2>2 DEF SlotWaitInv, slot_free
<1>3. CASE commit_stream_slot(e) \/ release_stream_slot(e)
  <2>1. task'[e].open = "idle" /\ \A x \in Endpoints : x # e => task'[x] = task[x]
    BY <1>0, <1>3 DEF commit_stream_slot, release_stream_slot, TaskStates
  <2>2. ~watch_close(e) \/ UNCHANGED life
    BY <1>3 DEF commit_stream_slot, release_stream_slot
  <2>3. \A x \in Endpoints : x # e =>
          UNCHANGED <<streams_opened[x], streams_reserved[x], peer_max_streams[x]>>
    BY <1>0, <1>3 DEF commit_stream_slot, release_stream_slot, CountersTyped
  <2> QED
    BY <1>1, <2>1, <2>3
<1>4. CASE WakesOpen(e)
  <2>1. UNCHANGED task => on_max_streams(e)
    <3>1. CASE on_peer_hello(e)
      <4>1. /\ wake_open(task[e]) \in TaskStates /\ task[e].control = "hello"
            /\ task' = [task EXCEPT ![e] = [wake_open(task[e]) EXCEPT !.control = "check"]]
        BY <1>0, <3>1, Wakes DEF on_peer_hello
      <4>2. ASSUME NEW q \in TaskStates PROVE [q EXCEPT !.control = "check"].control = "check"
        BY DEF TaskStates
      <4> QED
        BY <1>0, <4>1, <4>2
    <3>2. CASE watch_close(e)
      <4>1. /\ wake_open(task[e]) \in TaskStates /\ task[e].watcher # "ended"
            /\ task' = [task EXCEPT ![e] = [wake_open(task[e]) EXCEPT !.watcher = "ended"]]
        BY <1>0, <3>2, Wakes DEF watch_close
      <4>2. ASSUME NEW q \in TaskStates PROVE [q EXCEPT !.watcher = "ended"].watcher = "ended"
        BY DEF TaskStates
      <4> QED
        BY <1>0, <4>1, <4>2
    <3> QED
      BY <1>4, <3>1, <3>2 DEF WakesOpen
  <2>2. /\ \A x \in Endpoints : x # e => task'[x] = task[x]
        /\ \/ task'[e].open = IF task[e].open = "parked" THEN "reserve" ELSE task[e].open
           \/ on_max_streams(e) /\ UNCHANGED task
    BY <1>4, <2>1, WokenTask
  <2>3. \A x \in Endpoints : x # e =>
          UNCHANGED <<streams_opened[x], streams_reserved[x], peer_max_streams[x]>>
    BY <1>0, <1>4 DEF WakesOpen, on_peer_hello, on_max_streams, watch_close, slots, opening,
                      CountersTyped
  <2>4. CASE task'[e].open = IF task[e].open = "parked" THEN "reserve" ELSE task[e].open
    <3>1. task'[e].open # "parked"
      BY <2>4
    <3> QED
      BY <1>1, <2>2, <2>3, <3>1
  <2>5. CASE on_max_streams(e) /\ UNCHANGED task
    <3>1. /\ UNCHANGED <<streams_opened, streams_reserved>>
      BY <2>5 DEF on_max_streams
    <3>2. task[e].open = "parked" => peer_max_streams'[e] = peer_max_streams[e]
      <4>1. CASE hello[e].received /\ Head(control[peer(e)])[2] > peer_max_streams[e]
        <5>1. task' = [task EXCEPT ![e] = wake_open(task[e])]
          BY <2>5, <4>1 DEF on_max_streams
        <5>2. wake_open(task[e]).open # "parked"
          BY <1>0, WakeKeeps
        <5> QED
          BY <1>0, <2>5, <5>1, <5>2
      <4>2. CASE ~(hello[e].received /\ Head(control[peer(e)])[2] > peer_max_streams[e])
        BY <1>0, <2>5, <4>2 DEF on_max_streams, CountersTyped
      <4> QED
        BY <4>1, <4>2
    <3>4. ~watch_close(e)
      <4>1. /\ control' = [control EXCEPT ![peer(e)] = Tail(control[peer(e)])]
            /\ control[peer(e)] # <<>> /\ peer(e) \in Endpoints
        BY <2>5, Peers DEF on_max_streams, receives
      <4>2. /\ control'[peer(e)] = Tail(control[peer(e)])
            /\ control[peer(e)] \in Seq(Messages)
        BY <4>1 DEF ControlTyped
      <4>4. control'[peer(e)] # control[peer(e)]
        BY <4>1, <4>2, TailDiffers
      <4> QED
        BY <4>4 DEF watch_close, wire
    <3> QED
      BY <1>1, <2>3, <2>5, <3>1, <3>2, <3>4
  <2> QED
    BY <2>2, <2>4, <2>5
<1>5. CASE OpenAside(e) \/ open_stream(e) \/ abandon_open(e) \/ wait_established(e)
  <2>1. \A x \in Endpoints : task'[x].open = "parked" => task[x].open = "parked"
    <3>1. CASE open_stream(e) \/ abandon_open(e) \/ wait_established(e)
      BY <1>0, <3>1 DEF open_stream, abandon_open, wait_established, TaskStates
    <3>2. CASE OpenAside(e)
      BY <3>2, OpenKept
    <3> QED
      BY <1>5, <3>1, <3>2
  <2>2. UNCHANGED <<streams_opened, streams_reserved, peer_max_streams>>
    <3> USE DEF slots, opening
    <3>1. CASE HelloTask(e) \/ on_hello(e) \/ refuse(e) \/ on_close(e) \/ hello_check(e, "control")
               \/ flush_staged(e, "control") \/ Accepting(e)
      BY <3>1 DEF HelloTask, send_hello, send_hello_send, hello_check, flush_staged, on_hello,
                  refuse, on_close, Accepting, handle_incoming, push, stage
    <3>2. CASE accept_stream(e) \/ peer_stream_retired(e) \/ TeardownTasks(e)
               \/ watch_established(e) \/ Losing(e) \/ close_with_error(e) \/ hello_timeout(e)
      BY <3>2 DEF accept_stream, peer_stream_retired, TeardownTasks, send_close_and_flush,
                  close_mark, watch_established, Losing, on_state_change,
                  reserved_channel_lost, channel_lost, close_with_error, hello_timeout
    <3>3. CASE open_stream(e) \/ abandon_open(e) \/ wait_established(e)
      BY <3>3 DEF open_stream, abandon_open, wait_established
    <3> QED
      BY <1>5, <3>1, <3>2, <3>3 DEF OpenAside
  <2>3. CASE watch_close(e)
    BY <1>4, <2>3 DEF WakesOpen
  <2> QED
    BY <1>1, <2>1, <2>2, <2>3
<1> QED
  BY <1>2, <1>3, <1>4, <1>5
  DEF Step, WakesOpen, OpenAside, HelloTask, ControlTask, Opening, Ending, Choices

-----------------------------------------------------------------------------
(* The inductive invariant: the types, the invariants of the runs and the   *)
(* ones above they rest on.                                                 *)
IInv ==
    /\ Typed /\ ControlTyped
    /\ HelloInv /\ SlotInv /\ StreamsKept /\ WireInv /\ RefusalInv
    /\ NoFalseAccusation /\ SurfacedInv /\ NoLostAccept /\ SlotWaitInv /\ WatcherInv

(* The initial state has its types.                                         *)
LEMMA InitTyped == Init => Typed /\ ControlTyped
<1> SUFFICES ASSUME Init PROVE Typed /\ ControlTyped
  OBVIOUS
<1> USE DEF Init, All
<1>1. hello \in [Endpoints -> HelloStates]
  BY ConnectionAssumption DEF HelloStates
<1>2. task \in [Endpoints -> TaskStates]
  BY DEF TaskStates
<1>3. incoming \in [Endpoints -> IncomingStates]
  BY DEF IncomingStates
<1>4. life \in [Endpoints -> LifeStates]
  BY DEF LifeStates, Codes
<1>5. ending \in [Endpoints -> SUBSET Teardowns]
  OBVIOUS
<1>6. CountersTyped
  BY ConnectionAssumption DEF CountersTyped
<1>7. ControlTyped
  BY DEF ControlTyped
<1> QED
  BY <1>1, <1>2, <1>3, <1>4, <1>5, <1>6, <1>7 DEF Typed

(* The inductive invariant holds initially.                                 *)
LEMMA InitInvariant == Init => IInv
<1> SUFFICES ASSUME Init PROVE IInv
  OBVIOUS
<1>1. Typed /\ ControlTyped
  BY InitTyped
<1> USE DEF Init, All
<1>2. \A e \in Endpoints : /\ ~hello[e].established /\ ~hello[e].received
                           /\ task[e] = [hello |-> "opening", control |-> "idle", watcher |-> "hello",
                                         open |-> "idle", incoming |-> "idle", accept |-> "idle"]
                           /\ incoming[e] = [staged |-> 0, queue |-> 0, accepted |-> 0]
                           /\ life[e].err = "none" /\ ending[e] = {} /\ control[e] = <<>>
  OBVIOUS
<1>3. \A e \in Endpoints : /\ streams_reserved[e] = 0 /\ streams_opened[e] = 0
                           /\ peer_max_streams[e] = 0 /\ peer_opened_streams[e] = 0
                           /\ advertised_max_streams[e] = MaxStreams /\ channels[e] = 0
  OBVIOUS
<1> USE Peers
<1>4. HelloInv
  BY <1>2 DEF HelloInv
<1>5. SlotInv
  BY <1>2, <1>3, ConnectionAssumption DEF SlotInv, SlotsAt
<1>6. StreamsKept
  BY <1>2, <1>3 DEF StreamsKept
<1>7. WireInv
  BY <1>2 DEF WireInv
<1>8. RefusalInv
  BY <1>2 DEF RefusalInv
<1>9. NoFalseAccusation /\ SurfacedInv
  BY <1>2 DEF NoFalseAccusation, SurfacedInv
<1>10. NoLostAccept /\ SlotWaitInv
  BY <1>2 DEF NoLostAccept, SlotWaitInv
<1>11. WatcherInv
  BY <1>2 DEF WatcherInv
<1> QED
  BY <1>1, <1>4, <1>5, <1>6, <1>7, <1>8, <1>9, <1>10, <1>11 DEF IInv

(* Every step keeps the types; a slot is taken before it is given back.     *)
LEMMA StepTyped ==
    ASSUME IInv, NEW e \in Endpoints, Step(e)
    PROVE  Typed' /\ ControlTyped'
<1>1. Typed /\ ControlTyped /\ (task[e].open = "create" => streams_reserved[e] > 0)
  BY DEF IInv, SlotInv, SlotsAt
<1>2. CASE HelloTask(e) \/ ControlTask(e)
  BY <1>1, <1>2, HelloTyped, ControlTaskTyped
<1>3. CASE Opening(e) \/ open_stream(e) \/ abandon_open(e) \/ Accepting(e)
           \/ accept_stream(e) \/ peer_stream_retired(e)
  BY <1>1, <1>3, StreamTyped DEF Opening, Accepting
<1>4. CASE Ending(e) \/ Losing(e) \/ close_with_error(e) \/ hello_timeout(e)
  BY <1>1, <1>4, EndingTyped
<1> QED
  BY <1>2, <1>3, <1>4 DEF Step, Choices

(* Every step keeps the inductive invariant.                                *)
LEMMA StepInvariant == IInv /\ [Next]_vars => IInv'
<1> SUFFICES ASSUME IInv, [Next]_vars PROVE IInv'
  OBVIOUS
<1>1. CASE UNCHANGED vars
  BY <1>1
  DEF vars, slots, opening, accepting, wire, IInv, Typed, ControlTyped, CountersTyped, HelloInv,
      SlotInv, SlotsAt, StreamsKept, WireInv, Expected, RefusalInv, SameVersion, Refusing,
      NoFalseAccusation, SurfacedInv, NoLostAccept, SlotWaitInv, WatcherInv, slot_free
<1>2. ASSUME NEW e \in Endpoints, Step(e) PROVE IInv'
  <2>0. /\ Typed /\ ControlTyped /\ HelloInv /\ SlotInv /\ StreamsKept /\ WireInv
        /\ RefusalInv /\ NoFalseAccusation /\ SurfacedInv /\ NoLostAccept
        /\ SlotWaitInv /\ WatcherInv
    BY DEF IInv
  <2>1. Typed' /\ ControlTyped'
    BY <1>2, StepTyped
  <2>2. HelloInv'
    BY <1>2, <2>0, HelloKept DEF Step, HelloAside
  <2>3. SlotInv'
    BY <1>2, <2>0, <2>1, SlotKept
  <2>4. StreamsKept'
    BY <1>2, <2>0, <2>1, StreamsKeptStep
  <2>5. WireInv'
    BY <1>2, <2>0, <2>1, WireKept
  <2>6. RefusalInv'
    BY <1>2, <2>0, <2>1, RefusalKept
  <2>7. NoFalseAccusation'
    BY <1>2, <2>0, InnocentKept
  <2>8. SurfacedInv'
    BY <1>2, <2>0, SurfacedKept
  <2>9. NoLostAccept'
    BY <1>2, <2>0, AcceptWoken
  <2>10. SlotWaitInv'
    BY <1>2, <2>0, OpenWoken
  <2>11. WatcherInv'
    BY <1>2, <2>0, WatcherKept
  <2> QED
    BY <2>1, <2>2, <2>3, <2>4, <2>5, <2>6, <2>7, <2>8, <2>9, <2>10, <2>11 DEF IInv
<1> QED
  BY <1>1, <1>2 DEF Next, Step

(* So it always holds.                                                      *)
LEMMA Invariant == Spec => []IInv
<1>1. Init => IInv
  BY InitInvariant
<1>2. IInv /\ [Next]_vars => IInv'
  BY StepInvariant
<1> QED
  BY <1>1, <1>2, PTL DEF Spec

(* Every variable has its type; in particular no slot counter goes below    *)
(* zero, for commit and release follow a reservation.                       *)
THEOREM TypeCorrect == Spec => []TypeOK
<1>1. IInv => TypeOK
  BY TypeParts DEF IInv
<1> QED
  BY <1>1, Invariant, PTL

(* Two endpoints running this code never convict each other of a wire       *)
(* violation, whatever the limits, the timeouts and the teardowns.          *)
THEOREM NeverAccused == Spec => []NoFalseAccusation
<1>1. IInv => NoFalseAccusation
  BY DEF IInv
<1> QED
  BY <1>1, Invariant, PTL

(* No stream is surfaced to an application before HELLO is received and     *)
(* answered; a HELLO of another version is then looked at or refused.       *)
THEOREM HelloFirst == Spec => []SurfacedAfterHello
<1>1. IInv => SurfacedAfterHello
  BY DEF IInv, SurfacedInv, RefusalInv, SurfacedAfterHello
<1> QED
  BY <1>1, Invariant, PTL

(* An endpoint that established a connection to a peer of another version   *)
(* is refusing it or has closed it: no downgrade.                           *)
THEOREM NoDowngrade == Spec => []VersionWindow
<1>1. IInv => VersionWindow
  BY DEF IInv, HelloInv, RefusalInv, VersionWindow
<1> QED
  BY <1>1, Invariant, PTL

(* An accept_stream that waits has nothing to take on an open connection.   *)
THEOREM AcceptNeverStuck == Spec => []NoLostAccept
<1>1. IInv => NoLostAccept
  BY DEF IInv
<1> QED
  BY <1>1, Invariant, PTL

(* An open_stream that waits has no slot to take, flow.fail has not run, and *)
(* unless the HELLO timeout may have expired the task that runs it waits.   *)
THEOREM OpenNeverStuck == Spec => []NoLostSlotWakeup
<1>1. IInv => NoLostSlotWakeup
  BY DEF IInv, SlotWaitInv, WatcherInv, NoLostSlotWakeup
<1> QED
  BY <1>1, Invariant, PTL

(* Every stream of the peer that is counted against its limit is at hand:   *)
(* none is dropped or counted twice between the channel and accept_stream.  *)
THEOREM NoStreamLost == Spec => []StreamsKept
<1>1. IInv => StreamsKept
  BY DEF IInv
<1> QED
  BY <1>1, Invariant, PTL

=============================================================================
