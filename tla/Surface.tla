------------------------------ MODULE Surface ------------------------------
(***************************************************************************)
(* What an application sees of a connection's end and of its datagrams:     *)
(* closed(), err(), receive_datagram() and the watcher that fails the       *)
(* credit waits, on one WebRTC endpoint (libs/rust/kps/src/conn.rs), with   *)
(* the reasons QUIC would give (libs/rust/kps/src/quic.rs) beside them.     *)
(*                                                                          *)
(* Up to five tasks end a connection at once; each first claims             *)
(* CloseState.closed, then stores its reason, then notifies.  Observers     *)
(* register, look and wait.  All of it interleaves step by step.            *)
(*                                                                          *)
(* Abstractions: a datagram is a number; what closing sends, HELLO and      *)
(* credit are in Connection.                                                *)
(***************************************************************************)
EXTENDS Framing, FiniteSets

CONSTANTS
    Observers,      \* tasks that wait for the end and then ask for the reason
    LateMessages,   \* messages that may arrive at any time; every other one is
                    \* handled at once, where nothing has happened yet
    Datagrams,      \* the datagrams the peer sends
    DatagramBuf,    \* capacity of the inbound buffer, 256 in the code
    LocalCodes,     \* the codes the application closes with
    QuicRange       \* values of a QUIC error code, 2^62 in the code

ASSUME SurfaceAssumption ==
    /\ LateMessages \subseteq Messages["control"] /\ LocalCodes \subseteq ErrorCodes
    /\ DatagramBuf \in Nat \ {0}
    /\ QuicRange \in Nat /\ QuicRange > CodeRange

VARIABLES
    tearing_down,
    began,      \* who was first to begin ending the connection, or "nobody"
    closed,     \* CloseState.closed
    err,        \* CloseState.err
    marker,     \* the tasks that call mark: [at, reason]
    obs,        \* the observers: [at, notified, seen]
    inbound,    \* the message a callback is about to handle
    received,   \* HelloState.received: the peer's HELLO has come
    sendable,   \* datagrams that may still arrive
    dg_buf      \* the buffer of inbound datagrams

closing == <<tearing_down, began, closed, err, marker>>
input == <<inbound, received>>
dgrams == <<sendable, dg_buf>>
vars == <<closing, obs, input, dgrams>>

NoReason == [code |-> None, remote |-> FALSE]
Reason(code, remote) == IF code = None THEN NoReason ELSE [code |-> code, remote |-> remote]
Nothing == Msg(-1, 0, <<>>)
NoMessage == [chan |-> "none", msg |-> Nothing]

(* The tasks: the application's close, the control channel's callback, the  *)
(* task fatal spawns, the loss of a reserved channel, the state callback.   *)
Markers == {"local", "control", "fatal", "lost", "state"}
Resting == [at |-> "none", reason |-> NoReason]

Init ==
    /\ tearing_down = FALSE /\ began = "nobody" /\ closed = FALSE /\ err = NoReason
    /\ marker = [t \in Markers |-> Resting]
    /\ obs = [o \in Observers |-> [at |-> "start", notified |-> FALSE, seen |-> NoReason]]
    /\ inbound = NoMessage /\ received = FALSE
    /\ sendable = Datagrams /\ dg_buf = <<>>

-----------------------------------------------------------------------------
(* Who ends the connection.                                                 *)

first(t) == IF began = "nobody" THEN t ELSE began

(* Task t sets tearing_down and goes on to mark the connection closed.      *)
tear_down(t, reason) ==
    /\ tearing_down' = TRUE /\ began' = first(t)
    /\ marker' = [marker EXCEPT ![t] = [at |-> "swap", reason |-> reason]]
    /\ UNCHANGED <<closed, err>>

(* close and close_with_error.                                              *)
close_with_error(code) ==
    /\ marker["local"].at = "none" /\ tear_down("local", Reason(code, FALSE))
    /\ UNCHANGED <<obs, input, dgrams>>

(* Mutant: a violation is acted on although the connection is going down.   *)
may_fail_always == TRUE

(* fatal does nothing once tearing_down is set.                             *)
may_fail == ~tearing_down

fatal(code) ==
    IF may_fail THEN tear_down("fatal", Reason(code, FALSE)) ELSE UNCHANGED closing

(* reserved_channel_lost: nothing is known to end the connection yet.       *)
reserved_channel_lost ==
    /\ ~tearing_down /\ ~closed /\ marker["lost"].at = "none"
    /\ began' = first("lost")
    /\ marker' = [marker EXCEPT !["lost"].at = "checked"]
    /\ UNCHANGED <<tearing_down, closed, err, obs, input, dgrams>>

(* In a later step: it is the network's fault, or a violation.              *)
channel_lost ==
    /\ marker["lost"].at = "checked"
    /\ \/ tear_down("lost", Reason(NetworkError, FALSE))
       \/ /\ tearing_down' = TRUE
          /\ marker' = [marker EXCEPT !["lost"].at = "late",
                          !["fatal"] = IF ~may_fail THEN @
                                       ELSE [at |-> "swap", reason |-> Reason(ProtocolError, FALSE)]]
          /\ UNCHANGED <<began, closed, err>>
    /\ UNCHANGED <<obs, input, dgrams>>

(* The peer connection's state callback, on Failed or Closed; it does not   *)
(* set tearing_down.                                                        *)
on_state_change ==
    /\ marker["state"].at = "none"
    /\ marker' = [marker EXCEPT !["state"] = [at |-> "swap", reason |-> NoReason]]
    /\ began' = first("state")
    /\ UNCHANGED <<tearing_down, closed, err, obs, input, dgrams>>

fresh ==
    /\ ~tearing_down /\ ~closed /\ sendable = Datagrams
    /\ marker = [t \in Markers |-> Resting] /\ \A o \in Observers : obs[o].at = "start"

(* A message arrives on the control channel or on a stream's.               *)
arrives(chan, m) ==
    /\ inbound = NoMessage /\ marker["control"].at = "none"
    /\ inbound' = [chan |-> chan, msg |-> m]
    /\ UNCHANGED <<closing, obs, received, dgrams>>

(* on_control: a violation is a malformed message, a second HELLO, or credit  *)
(* before the first; a HELLO of another version refuses the connection.  What *)
(* else HELLO and credit do is Connection's.                                  *)
on_control ==
    LET p == decode_control(inbound.msg) IN
    /\ inbound.chan = "control"
    /\ CASE p.kind = "Close" -> tear_down("control", Reason(p.val[1], TRUE))
         [] p.kind = "Hello" /\ ~received /\ p.val[1] # WIRE_VERSION ->
              tear_down("control", Reason(Unsupported, FALSE))
         [] \/ p = Violation
            \/ p.kind = "Hello" /\ received
            \/ p.kind \in {"MaxData", "MaxStreams"} /\ ~received -> fatal(ProtocolError)
         [] OTHER -> UNCHANGED closing
    /\ received' = (received \/ p.kind = "Hello")
    /\ inbound' = NoMessage
    /\ UNCHANGED <<obs, dgrams>>

(* on_frame; what a legal frame does is StreamLifecycle's.                  *)
on_frame ==
    /\ inbound.chan = "stream"
    /\ IF parse_frame(inbound.msg) = Violation THEN fatal(ProtocolError)
                                               ELSE UNCHANGED closing
    /\ inbound' = NoMessage
    /\ UNCHANGED <<obs, received, dgrams>>

-----------------------------------------------------------------------------
(* CloseState::mark.                                                        *)

(* Mutant: the flag is read and set in two steps.                           *)
claims_always == TRUE

(* closed.swap: the first task to set the flag goes on.                     *)
claims == ~closed

(* Mutant: a notification reaches only who already sleeps.                  *)
listening_asleep(o) == obs[o].at = "await"

(* enable() has registered the observer, asleep or not.                     *)
listening(o) == obs[o].at \in {"check", "open", "await"}

(* notify_waiters.                                                          *)
notified == [o \in Observers |->
               IF listening(o) THEN [obs[o] EXCEPT !.notified = TRUE] ELSE obs[o]]

(* Mutant: the observers are notified before the reason is there.           *)
mark_swap_notifies(t) ==
    /\ marker[t].at = "swap"
    /\ marker' = [marker EXCEPT ![t].at = IF claims THEN "claimed" ELSE "late"]
    /\ closed' = TRUE /\ obs' = notified
    /\ UNCHANGED <<tearing_down, began, err, input, dgrams>>

mark_swap(t) ==
    /\ marker[t].at = "swap"
    /\ marker' = [marker EXCEPT ![t].at = IF claims THEN "claimed" ELSE "late"]
    /\ closed' = TRUE
    /\ UNCHANGED <<tearing_down, began, err, obs, input, dgrams>>

(* The two steps after the claim: the reason is stored, then the observers  *)
(* are notified.                                                            *)
mark_store(t) ==
    /\ marker[t].at = "claimed"
    /\ err' = marker[t].reason
    /\ marker' = [marker EXCEPT ![t].at = "stored"]
    /\ UNCHANGED <<tearing_down, began, closed, obs, input, dgrams>>
mark_notify(t) ==
    /\ marker[t].at = "stored"
    /\ obs' = notified
    /\ marker' = [marker EXCEPT ![t].at = "done"]
    /\ UNCHANGED <<tearing_down, began, closed, err, input, dgrams>>

(* CloseState::wait: register, look, sleep, and start again when notified;  *)
(* then the reason is read, as err(), accept_stream and the watcher do.     *)
wait_register(o) ==
    /\ obs[o].at = "start" \/ (obs[o].at = "await" /\ obs[o].notified)
    /\ obs' = [obs EXCEPT ![o].at = "check"]
    /\ UNCHANGED <<closing, input, dgrams>>
wait_check(o) ==
    /\ obs[o].at = "check"
    /\ obs' = [obs EXCEPT ![o].at = IF closed THEN "read" ELSE "open"]
    /\ UNCHANGED <<closing, input, dgrams>>
wait_await(o) ==
    /\ obs[o].at = "open"
    /\ obs' = [obs EXCEPT ![o].at = "await"]
    /\ UNCHANGED <<closing, input, dgrams>>
read_err(o) ==
    /\ obs[o].at = "read"
    /\ obs' = [obs EXCEPT ![o].at = "seen", ![o].seen = err]
    /\ UNCHANGED <<closing, input, dgrams>>

-----------------------------------------------------------------------------
(* Datagrams: the channel is unordered and unreliable.                      *)

(* try_send: a full buffer drops the datagram that arrives.                 *)
buffered(d) == IF Len(dg_buf) < DatagramBuf THEN Append(dg_buf, d) ELSE dg_buf

(* The datagram channel's on_message, in any order; one that is lost on the *)
(* way never arrives.                                                       *)
on_datagram(d) ==
    /\ d \in sendable
    /\ sendable' = sendable \ {d}
    /\ dg_buf' = buffered(d)
    /\ UNCHANGED <<closing, obs, input>>

(* receive_datagram, when its select takes the buffer; it may also find the *)
(* connection closed, and then leaves the buffer as it is.                  *)
receive_datagram ==
    /\ dg_buf # <<>>
    /\ dg_buf' = Tail(dg_buf)
    /\ UNCHANGED <<closing, obs, input, sendable>>

Closing ==
    \/ (\E c \in LocalCodes : close_with_error(c)) \/ reserved_channel_lost \/ on_state_change
    \/ \E chan \in {"control", "stream"} :
         \E m \in IF fresh THEN Messages[chan] ELSE LateMessages \cap Messages[chan] :
             arrives(chan, m)
Marking(t) == (t = "lost" /\ channel_lost) \/ mark_swap(t) \/ mark_store(t) \/ mark_notify(t)
Observing(o) == wait_register(o) \/ wait_check(o) \/ wait_await(o) \/ read_err(o)
Next ==
    \/ on_control \/ on_frame
    \/ /\ inbound.msg \in LateMessages \cup {Nothing}
       /\ \/ Closing
          \/ (\E t \in Markers : Marking(t)) \/ (\E o \in Observers : Observing(o))
          \/ (\E d \in Datagrams : on_datagram(d)) \/ receive_datagram

Spec == Init /\ [][Next]_vars

(* Fairness: tokio polls the tasks that can move; each makes few steps, so  *)
(* none is passed over for ever.                                            *)
LiveSpec ==
    /\ Spec
    /\ WF_vars(on_control \/ on_frame) /\ WF_vars(\E t \in Markers : Marking(t))
    /\ WF_vars(\E o \in Observers : Observing(o))

-----------------------------------------------------------------------------
(* normalize_close of ApplicationClosed, QUIC's close by the peer: the code *)
(* arrives as a 62-bit integer and is cut to 32 bits.                       *)
normalize_close(code) == Reason(from_wire(code % CodeRange), TRUE)

(* The QUIC codes with the low 32 bits c, and a CONNECTION_CLOSE in hand.   *)
Wider(c) == {q \in 0..(QuicRange - 1) : q % CodeRange = c}
is_close == inbound.chan = "control" /\ inbound.msg.type = 0 /\ inbound.msg.len = 5

Reasons == [code : ErrorCodes, remote : BOOLEAN]

(* Every variable has its type, and no more datagrams wait than the buffer  *)
(* holds.                                                                   *)
TypeOK ==
    /\ tearing_down \in BOOLEAN /\ began \in Markers \cup {"nobody"} /\ closed \in BOOLEAN /\ err \in Reasons
    /\ marker \in [Markers -> [at : {"none", "checked", "swap", "late", "claimed", "stored", "done"},
                               reason : Reasons]]
    /\ obs \in [Observers -> [at : {"start", "check", "open", "await", "read", "seen"},
                              notified : BOOLEAN, seen : Reasons]]
    /\ inbound = NoMessage \/ inbound.msg \in Messages["control"] \cup Messages["stream"]
    /\ received \in BOOLEAN
    /\ sendable \subseteq Datagrams /\ Len(dg_buf) <= DatagramBuf

Winners == {t \in Markers : marker[t].at \in {"claimed", "stored", "done"}}

(* The first reason wins, whole: of all tasks that end the connection one   *)
(* gets to store its reason, and that is the one err() reports for good.    *)
FirstReasonWins ==
    /\ Cardinality(Winners) = IF closed THEN 1 ELSE 0
    /\ \A t \in Winners : marker[t].at \in {"stored", "done"} => err = marker[t].reason

(* An observer that slept until it was notified is told the reason.  Only   *)
(* one that finds the flag up by itself can take an error for a clean end:  *)
(* the flag is up before the reason is stored.                              *)
NotifiedKnows ==
    \A o \in Observers : obs[o].at = "seen" /\ obs[o].notified =>
        \A t \in Winners : obs[o].seen = marker[t].reason

(* A connection whose application was first to end it is never reported as  *)
(* failed by what comes to light while it goes down: malformed messages,    *)
(* lost channels.  Only the peer's own close, or its version, may get in    *)
(* before it.  A lost channel found before the application closed began     *)
(* first, and may still be reported.                                        *)
CloseNotBlamed ==
    began = "local" =>
        err \in {NoReason, marker["local"].reason, marker["control"].reason}

(* Both decoders, on every message: exactly the encoders' messages are      *)
(* accepted, with the values that were encoded; and a peer's reason is what *)
(* QUIC makes of every code with those low 32 bits.                         *)
DecodersFaithful ==
    /\ inbound.chan = "control" =>
         Faithful(inbound.msg, ControlMessages, decode_control(inbound.msg))
    /\ inbound.chan = "stream" =>
         Faithful(inbound.msg, StreamMessages, parse_frame(inbound.msg))
    /\ is_close =>
         \A q \in Wider(inbound.msg.val[1]) :
             normalize_close(q) = Reason(decode_control(inbound.msg).val[1], TRUE)

(* Every observer learns of the end, whenever it began to wait.             *)
EndIsSeen == \A o \in Observers : closed ~> obs[o].at = "seen"
=============================================================================
