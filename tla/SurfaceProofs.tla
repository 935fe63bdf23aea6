--------------------------- MODULE SurfaceProofs ---------------------------
(***************************************************************************)
(* Proofs about Surface, for any observers, messages, datagrams and limits. *)
(*                                                                          *)
(* The argument: CloseState.closed is claimed by one task only (OneWinner), *)
(* which alone stores the reason (ReasonInv) and notifies only afterwards   *)
(* (ToldInv); which tasks can have claimed it follows from who was first to *)
(* begin (BeganInv).  The decoders' part is in FramingProofs.               *)
(***************************************************************************)
EXTENDS Surface, FramingProofs, FiniteSetTheorems

Ats == {"none", "checked", "swap", "late", "claimed", "stored", "done"}
MarkerStates == [at : Ats, reason : Reasons]
ObsStates == [at : {"start", "check", "open", "await", "read", "seen"},
              notified : BOOLEAN, seen : Reasons]
Channels == {"control", "stream"}

(* A message a callback handles came from its channel.                      *)
InboundTyped ==
    \/ inbound = NoMessage
    \/ \E chan \in Channels : inbound.chan = chan /\ inbound.msg \in Messages[chan]
Typed ==
    /\ tearing_down \in BOOLEAN /\ began \in Markers \cup {"nobody"}
    /\ closed \in BOOLEAN /\ err \in Reasons
    /\ marker \in [Markers -> MarkerStates]
    /\ obs \in [Observers -> ObsStates]
    /\ InboundTyped /\ received \in BOOLEAN
    /\ sendable \subseteq Datagrams
    /\ dg_buf \in Seq(Datagrams) /\ Len(dg_buf) <= DatagramBuf

(* The task that claimed the flag.                                          *)
Won(t) == marker[t].at \in {"claimed", "stored", "done"}
Stored(t) == marker[t].at \in {"stored", "done"}

(* Exactly one task has claimed a closed connection, none an open one.      *)
OneWinner ==
    /\ closed => \E t \in Markers : \A u \in Markers : Won(u) <=> u = t
    /\ ~closed => \A u \in Markers : ~Won(u)

(* The reason is the winner's, or not there yet.                            *)
ReasonInv ==
    /\ \A t \in Markers : Stored(t) => err = marker[t].reason
    /\ (\A t \in Markers : ~Stored(t)) => err = NoReason

(* Nobody is notified before the reason is there.                           *)
ToldInv ==
    \A o \in Observers : obs[o].notified =>
        closed /\ \A t \in Markers : Won(t) => marker[t].at = "done"

(* Who can have begun: the tasks that react to the other end's failures do  *)
(* nothing once the application has closed.                                 *)
BeganInv ==
    /\ inbound.chan = "control" => marker["control"].at = "none"
    /\ ~tearing_down => marker["fatal"].at = "none"
    /\ began \in {"nobody", "local"} =>
         marker["fatal"].at = "none" /\ marker["lost"].at = "none"
    /\ began = "local" => tearing_down
    /\ marker["state"].reason = NoReason

-----------------------------------------------------------------------------
(* Types.                                                                   *)
LEMMA ReasonTyped ==
    /\ \A c \in ErrorCodes, r \in BOOLEAN : Reason(c, r) \in Reasons
    /\ NoReason \in Reasons
    /\ {NetworkError, ProtocolError, Unsupported} \subseteq ErrorCodes
BY DEF Reason, NoReason, Reasons, ErrorCodes, None, NetworkError, ProtocolError, Unsupported,
       InternalError

(* A close that is decoded carries a code of the registry.                  *)
LEMMA CloseCode ==
    ASSUME NEW m, decode_control(m).kind = "Close"
    PROVE  decode_control(m).val[1] \in ErrorCodes
<1>1. \A v : from_wire(v) \in ErrorCodes
  BY DEF from_wire, ErrorCodes, None, InternalError
<1>2. decode_control(m) = Parsed("Close", <<from_wire(m.val[1])>>)
  BY DEF decode_control, Parsed, Violation
<1> QED
  BY <1>1, <1>2 DEF Parsed

(* A marker's record when it moves.                                         *)
LEMMA MarkerFields ==
    ASSUME NEW r \in MarkerStates
    PROVE  /\ r.at \in Ats /\ r.reason \in Reasons
           /\ \A a \in Ats : /\ [r EXCEPT !.at = a] \in MarkerStates
                             /\ [r EXCEPT !.at = a].at = a
                             /\ [r EXCEPT !.at = a].reason = r.reason
           /\ \A a \in Ats, q \in Reasons : [at |-> a, reason |-> q] \in MarkerStates
BY DEF MarkerStates

(* An observer's record when it moves.                                      *)
LEMMA ObsFields ==
    ASSUME NEW r \in ObsStates
    PROVE  /\ r.notified \in BOOLEAN
           /\ [r EXCEPT !.notified = TRUE] \in ObsStates
           /\ [r EXCEPT !.notified = TRUE].at = r.at
           /\ [r EXCEPT !.notified = TRUE].notified
           /\ [r EXCEPT !.notified = TRUE].seen = r.seen
           /\ \A a \in {"check", "open", "await", "read"} :
                /\ [r EXCEPT !.at = a] \in ObsStates
                /\ [r EXCEPT !.at = a].at = a
                /\ [r EXCEPT !.at = a].notified = r.notified
                /\ [r EXCEPT !.at = a].seen = r.seen
           /\ \A q \in Reasons :
                /\ [r EXCEPT !.at = "seen", !.seen = q] \in ObsStates
                /\ [r EXCEPT !.at = "seen", !.seen = q].notified = r.notified
                /\ [r EXCEPT !.at = "seen", !.seen = q].seen = q
BY DEF ObsStates

(* tear_down by a task keeps the types and moves only that task's record.   *)
LEMMA TearDownTyped ==
    ASSUME Typed, NEW t \in Markers, NEW r \in Reasons, tear_down(t, r)
    PROVE  /\ tearing_down' \in BOOLEAN /\ began' \in Markers \cup {"nobody"}
           /\ closed' \in BOOLEAN /\ err' \in Reasons
           /\ marker' \in [Markers -> MarkerStates]
           /\ marker'[t].at = "swap" /\ marker'[t].reason = r
           /\ \A u \in Markers : u # t => marker'[u] = marker[u]
<1>1. [at |-> "swap", reason |-> r] \in MarkerStates
  BY DEF MarkerStates, Ats
<1> QED
  BY <1>1 DEF Typed, tear_down, first

(* fatal keeps the types, whether it acts or finds the connection going     *)
(* down.                                                                    *)
LEMMA FatalTyped ==
    ASSUME Typed, NEW c \in ErrorCodes, fatal(c)
    PROVE  /\ tearing_down' \in BOOLEAN /\ began' \in Markers \cup {"nobody"}
           /\ closed' \in BOOLEAN /\ err' \in Reasons
           /\ marker' \in [Markers -> MarkerStates]
<1>1. CASE UNCHANGED closing
  BY <1>1 DEF closing, Typed
<1>2. CASE tear_down("fatal", Reason(c, FALSE))
  BY <1>2, ReasonTyped, TearDownTyped DEF Markers
<1> QED
  BY <1>1, <1>2 DEF fatal

(* notify_waiters changes the notified flags of the registered observers    *)
(* and nothing else.                                                        *)
LEMMA NotifiedTyped ==
    ASSUME Typed, NEW o \in Observers
    PROVE  /\ notified \in [Observers -> ObsStates]
           /\ notified[o].at = obs[o].at /\ notified[o].seen = obs[o].seen
           /\ notified[o].notified <=> (obs[o].notified \/ listening(o))
<1>1. \A p \in Observers : obs[p] \in ObsStates
  BY DEF Typed
<1>2. \A p \in Observers : [obs[p] EXCEPT !.notified = TRUE] \in ObsStates
  BY <1>1, ObsFields
<1>3. notified \in [Observers -> ObsStates]
  BY <1>1, <1>2 DEF notified
<1>4. notified[o] = IF listening(o) THEN [obs[o] EXCEPT !.notified = TRUE] ELSE obs[o]
  BY DEF notified
<1>5. CASE listening(o)
  <2> DEFINE r == obs[o]
             q == [r EXCEPT !.notified = TRUE]
  <2>1. r \in ObsStates /\ notified[o] = q
    BY <1>1, <1>4, <1>5
  <2>2. q.at = r.at /\ q.seen = r.seen /\ q.notified
    BY <2>1, ObsFields
  <2> QED
    BY <1>3, <1>5, <2>1, <2>2
<1>6. CASE ~listening(o)
  BY <1>1, <1>3, <1>4, <1>6
<1> QED
  BY <1>5, <1>6

(* Every step keeps the types; a message a callback handles stays one of    *)
(* its channel.                                                             *)
LEMMA StepTyped ==
    ASSUME Typed, [Next]_vars
    PROVE  Typed'
<1> USE DEF closing, input, dgrams
<1>0. /\ marker \in [Markers -> MarkerStates] /\ obs \in [Observers -> ObsStates]
      /\ "none" \in Ats /\ err \in Reasons /\ began \in Markers \cup {"nobody"}
      /\ InboundTyped /\ received \in BOOLEAN
  BY DEF Typed, Ats
<1>n. InboundTyped' <=> \/ inbound' = NoMessage
                        \/ \E chan \in Channels : inbound'.chan = chan /\ inbound'.msg \in Messages[chan]
  BY DEF InboundTyped
<1>i. UNCHANGED inbound \/ inbound' = NoMessage => InboundTyped'
  BY <1>0, <1>n DEF InboundTyped
<1>d. ASSUME UNCHANGED <<obs, sendable, dg_buf>>, InboundTyped', received' \in BOOLEAN,
             tearing_down' \in BOOLEAN, began' \in Markers \cup {"nobody"},
             closed' \in BOOLEAN, err' \in Reasons, marker' \in [Markers -> MarkerStates]
      PROVE  Typed'
  BY <1>d DEF Typed
<1>o. ASSUME UNCHANGED <<closing, input, dgrams>>, obs' \in [Observers -> ObsStates]
      PROVE  Typed'
  BY <1>o, <1>i DEF Typed
<1>1. ASSUME NEW c \in LocalCodes, close_with_error(c) PROVE Typed'
  <2>1. Reason(c, FALSE) \in Reasons /\ tear_down("local", Reason(c, FALSE)) /\ "local" \in Markers
    BY <1>1, ReasonTyped, SurfaceAssumption DEF close_with_error, Markers
  <2> QED
    BY <1>0, <1>1, <1>d, <1>i, <2>1, TearDownTyped DEF close_with_error
<1>2. CASE reserved_channel_lost
  <2>1. marker' \in [Markers -> MarkerStates] /\ began' \in Markers \cup {"nobody"}
    <3>1. marker["lost"] \in MarkerStates /\ "checked" \in Ats
      BY <1>0 DEF Markers, Ats
    <3>2. [marker["lost"] EXCEPT !.at = "checked"] \in MarkerStates
      BY <3>1, MarkerFields
    <3> QED
      BY <1>0, <1>2, <3>2 DEF reserved_channel_lost, first, Markers
  <2> QED
    BY <1>2, <1>d, <1>i, <2>1 DEF reserved_channel_lost, Typed
<1>3. CASE channel_lost
  <2>1. CASE tear_down("lost", Reason(NetworkError, FALSE))
    BY <1>0, <1>3, <1>d, <1>i, <2>1, ReasonTyped, TearDownTyped DEF channel_lost, Markers
  <2>2. CASE ~tear_down("lost", Reason(NetworkError, FALSE))
    <3> DEFINE l == [marker["lost"] EXCEPT !.at = "late"]
               f == IF ~may_fail THEN marker["fatal"]
                    ELSE [at |-> "swap", reason |-> Reason(ProtocolError, FALSE)]
    <3>1. l \in MarkerStates /\ f \in MarkerStates
      <4>1. marker["lost"] \in MarkerStates /\ marker["fatal"] \in MarkerStates
        BY <1>0 DEF Markers
      <4>2. "late" \in Ats /\ "swap" \in Ats /\ Reason(ProtocolError, FALSE) \in Reasons
        BY ReasonTyped DEF Ats
      <4> QED
        BY <4>1, <4>2, MarkerFields
    <3>2. marker' = [[marker EXCEPT !["lost"] = l] EXCEPT !["fatal"] = f]
      BY <1>0, <1>3, <2>2 DEF channel_lost, Markers
    <3> HIDE DEF l, f
    <3>3. marker' \in [Markers -> MarkerStates]
      BY <1>0, <3>1, <3>2
    <3> QED
      BY <1>3, <1>d, <1>i, <2>2, <3>3 DEF channel_lost, Typed
  <2> QED
    BY <2>1, <2>2
<1>4. CASE on_state_change
  <2>1. marker' \in [Markers -> MarkerStates] /\ began' \in Markers \cup {"nobody"}
    <3>1. [at |-> "swap", reason |-> NoReason] \in MarkerStates
      BY ReasonTyped DEF MarkerStates, Ats
    <3> QED
      BY <1>0, <1>4, <3>1 DEF on_state_change, first, Markers
  <2> QED
    BY <1>4, <1>d, <1>i, <2>1 DEF on_state_change, Typed
<1>5. ASSUME NEW chan \in {"control", "stream"}, NEW m \in Messages[chan], arrives(chan, m)
      PROVE  Typed'
  <2>1. inbound'.chan = chan /\ inbound'.msg = m
    BY <1>5 DEF arrives
  <2> QED
    BY <1>5, <1>n, <1>d, <2>1 DEF arrives, Typed, Channels
<1>6. CASE on_control
  <2> DEFINE p == decode_control(inbound.msg)
  <2>1. \/ fatal(ProtocolError) \/ UNCHANGED closing
        \/ \E r \in Reasons : tear_down("control", r)
    <3>1. Reason(Unsupported, FALSE) \in Reasons
      BY ReasonTyped
    <3>2. p.kind = "Close" => Reason(p.val[1], TRUE) \in Reasons
      BY CloseCode, ReasonTyped
    <3> QED
      BY <1>6, <3>1, <3>2 DEF on_control
  <2>2. received' \in BOOLEAN
    BY <1>6 DEF on_control, Typed
  <2> HIDE DEF p
  <2>3. /\ tearing_down' \in BOOLEAN /\ began' \in Markers \cup {"nobody"}
        /\ closed' \in BOOLEAN /\ err' \in Reasons /\ marker' \in [Markers -> MarkerStates]
    <3>1. CASE fatal(ProtocolError)
      BY <3>1, FatalTyped, ReasonTyped
    <3>2. CASE UNCHANGED closing
      BY <3>2 DEF Typed
    <3>3. CASE \E r \in Reasons : tear_down("control", r)
      BY <3>3, TearDownTyped DEF Markers
    <3> QED
      BY <2>1, <3>1, <3>2, <3>3
  <2> QED
    BY <1>6, <1>d, <1>i, <2>2, <2>3 DEF on_control
<1>7. CASE on_frame
  <2>1. /\ tearing_down' \in BOOLEAN /\ began' \in Markers \cup {"nobody"}
        /\ closed' \in BOOLEAN /\ err' \in Reasons /\ marker' \in [Markers -> MarkerStates]
    <3>1. CASE fatal(ProtocolError)
      BY <3>1, FatalTyped, ReasonTyped
    <3>2. CASE UNCHANGED closing
      BY <3>2 DEF Typed
    <3> QED
      BY <1>7, <3>1, <3>2 DEF on_frame
  <2> QED
    BY <1>0, <1>7, <1>d, <1>i, <2>1 DEF on_frame
<1>8. ASSUME NEW t \in Markers, mark_swap(t) \/ mark_store(t) \/ mark_notify(t) PROVE Typed'
  <2>1. \A a \in Ats : [marker[t] EXCEPT !.at = a] \in MarkerStates
    BY <1>0, MarkerFields
  <2>2. {"claimed", "late", "stored", "done"} \subseteq Ats /\ marker[t].reason \in Reasons
    <3>1. marker[t] \in MarkerStates
      BY <1>0
    <3> QED
      BY <3>1, MarkerFields DEF Ats
  <2>3. marker' \in [Markers -> MarkerStates]
    BY <1>0, <1>8, <2>1, <2>2 DEF mark_swap, mark_store, mark_notify
  <2>4. obs' \in [Observers -> ObsStates]
    <3>1. obs' = obs \/ obs' = notified
      BY <1>8 DEF mark_swap, mark_store, mark_notify
    <3>2. notified \in [Observers -> ObsStates]
      <4>1. \A o \in Observers : obs[o] \in ObsStates /\ [obs[o] EXCEPT !.notified = TRUE] \in ObsStates
        BY <1>0, ObsFields
      <4> QED
        BY <4>1 DEF notified
    <3> QED
      BY <1>0, <3>1, <3>2
  <2>5. /\ UNCHANGED <<tearing_down, began, inbound, received, sendable, dg_buf>>
        /\ closed' \in BOOLEAN /\ err' \in Reasons
    BY <1>8, <2>2 DEF Typed, mark_swap, mark_store, mark_notify
  <2> QED
    BY <1>i, <2>3, <2>4, <2>5 DEF Typed
<1>9. ASSUME NEW o \in Observers, Observing(o) PROVE Typed'
  <2>1. obs' \in [Observers -> ObsStates]
    <3>1. obs[o] \in ObsStates
      BY <1>0
    <3>2. \E q \in ObsStates : obs' = [obs EXCEPT ![o] = q]
      <4>1. CASE read_err(o)
        <5>1. obs' = [obs EXCEPT ![o] = [obs[o] EXCEPT !.at = "seen", !.seen = err]]
          BY <1>0, <4>1 DEF read_err, ObsStates
        <5>2. [obs[o] EXCEPT !.at = "seen", !.seen = err] \in ObsStates
          BY <1>0, <3>1, ObsFields
        <5> QED
          BY <5>1, <5>2
      <4>2. CASE wait_register(o) \/ wait_check(o) \/ wait_await(o)
        <5>1. \E a \in {"check", "read", "open", "await"} :
                obs' = [obs EXCEPT ![o] = [obs[o] EXCEPT !.at = a]]
          BY <4>2 DEF wait_register, wait_check, wait_await
        <5>2. \A a \in {"check", "read", "open", "await"} : [obs[o] EXCEPT !.at = a] \in ObsStates
          BY <3>1, ObsFields
        <5> QED
          BY <5>1, <5>2
      <4> QED
        BY <1>9, <4>1, <4>2 DEF Observing
    <3> QED
      BY <1>0, <3>2
  <2> QED
    BY <1>9, <1>o, <2>1 DEF Observing, wait_register, wait_check, wait_await, read_err
<1>10. ASSUME NEW d \in Datagrams, on_datagram(d) PROVE Typed'
  <2>1. dg_buf' \in Seq(Datagrams) /\ Len(dg_buf') <= DatagramBuf
    BY <1>10, SurfaceAssumption DEF Typed, on_datagram, buffered
  <2> QED
    BY <1>10, <1>i, <2>1 DEF Typed, on_datagram
<1>11. CASE receive_datagram
  <2>1. dg_buf' \in Seq(Datagrams) /\ Len(dg_buf') <= DatagramBuf
    BY <1>11, SurfaceAssumption DEF Typed, receive_datagram
  <2> QED
    BY <1>11, <1>i, <2>1 DEF Typed, receive_datagram
<1>12. CASE UNCHANGED vars
  BY <1>12, <1>i DEF vars, Typed
<1> QED
  BY <1>1, <1>2, <1>3, <1>4, <1>5, <1>6, <1>7, <1>8, <1>9, <1>10, <1>11, <1>12
  DEF Next, Closing, Marking

-----------------------------------------------------------------------------
(* The first reason wins.                                                   *)
WinInv == OneWinner /\ ReasonInv /\ ToldInv /\ NotifiedKnows
(* The winners as the run's property counts them are the tasks that won.    *)
LEMMA WinnersWon == \A t \in Markers : t \in Winners <=> Won(t)
BY DEF Winners, Won

(* A step of tasks that have not claimed the flag, and do not.              *)
LEMMA NoClaim ==
    ASSUME WinInv, UNCHANGED <<closed, err, obs>>,
           \A t \in Markers : marker'[t] = marker[t] \/ (~Won(t) /\ ~Won(t)')
    PROVE  WinInv'
<1>1. \A t \in Markers : /\ Won(t)' <=> Won(t)
                         /\ Stored(t)' <=> Stored(t)
                         /\ Won(t) => marker'[t] = marker[t]
  BY DEF Won, Stored
<1>2. \A t \in Markers : (t \in Winners)' <=> t \in Winners
  BY <1>1, WinnersWon DEF Winners, Won
<1>3. OneWinner'
  BY <1>1 DEF WinInv, OneWinner
<1>4. ReasonInv'
  BY <1>1 DEF WinInv, ReasonInv, Stored, Won
<1>5. ToldInv'
  BY <1>1 DEF WinInv, ToldInv
<1>6. NotifiedKnows'
  <2>1. \A t \in Winners' : t \in Winners /\ marker'[t] = marker[t]
    BY <1>1, <1>2 DEF Winners, Won
  <2> QED
    BY <2>1 DEF WinInv, NotifiedKnows
<1> QED
  BY <1>3, <1>4, <1>5, <1>6 DEF WinInv

(* The winner claims the flag, stores its reason and notifies, in order.    *)
LEMMA Claim ==
    ASSUME Typed, WinInv, NEW t \in Markers, mark_swap(t)
    PROVE  WinInv'
<1>0. marker \in [Markers -> MarkerStates] /\ marker[t] \in MarkerStates
  BY DEF Typed
<1>1. CASE closed
  <2>1. marker'[t].at = "late" /\ \A u \in Markers : u # t => marker'[u] = marker[u]
    BY <1>0, <1>1 DEF mark_swap, claims, MarkerStates
  <2>2. UNCHANGED <<closed, err, obs>> /\ ~Won(t)
    BY <1>1 DEF mark_swap, Won
  <2>3. ~Won(t)'
    BY <2>1 DEF Won
  <2> QED
    BY <2>1, <2>2, <2>3, NoClaim
<1>2. CASE ~closed
  <2>1. /\ marker'[t].at = "claimed" /\ \A u \in Markers : u # t => marker'[u] = marker[u]
        /\ closed' /\ UNCHANGED <<err, obs>>
    BY <1>0, <1>2 DEF mark_swap, claims, MarkerStates
  <2>2. \A u \in Markers : ~Won(u) /\ ~Stored(u)
    BY <1>2 DEF WinInv, OneWinner, Won, Stored
  <2>3. \A u \in Markers : (Won(u)' <=> u = t) /\ ~Stored(u)'
    BY <2>1, <2>2 DEF Won, Stored
  <2>4. OneWinner'
    BY <2>1, <2>3 DEF OneWinner
  <2>5. ReasonInv'
    BY <2>1, <2>2, <2>3 DEF ReasonInv, WinInv
  <2>6. \A o \in Observers : ~obs[o].notified
    BY <1>2 DEF WinInv, ToldInv
  <2>7. ToldInv' /\ NotifiedKnows'
    BY <2>1, <2>6 DEF ToldInv, NotifiedKnows
  <2> QED
    BY <2>4, <2>5, <2>7 DEF WinInv
<1> QED
  BY <1>1, <1>2 DEF Typed

(* mark's second step: the winner, alone, stores its reason.                *)
LEMMA Store ==
    ASSUME Typed, WinInv, NEW t \in Markers, mark_store(t)
    PROVE  WinInv'
<1>0. marker \in [Markers -> MarkerStates] /\ marker[t] \in MarkerStates
  BY DEF Typed
<1>1. /\ marker[t].at = "claimed" /\ marker'[t].at = "stored" /\ err' = marker[t].reason
      /\ marker'[t].reason = marker[t].reason
      /\ \A u \in Markers : u # t => marker'[u] = marker[u]
      /\ UNCHANGED <<closed, obs>>
  BY <1>0 DEF mark_store, MarkerStates
<1>2. Won(t) /\ ~(marker[t].at = "done")
  BY <1>1 DEF Won
<1>3. closed /\ \A u \in Markers : Won(u) <=> u = t
  BY <1>2 DEF WinInv, OneWinner
<1>4. \A u \in Markers : (Won(u)' <=> u = t) /\ (Stored(u)' <=> u = t)
  BY <1>1, <1>3 DEF Won, Stored
<1>5. OneWinner' /\ ReasonInv'
  BY <1>1, <1>3, <1>4 DEF OneWinner, ReasonInv
<1>6. \A o \in Observers : ~obs[o].notified
  BY <1>2 DEF WinInv, ToldInv
<1>7. ToldInv' /\ NotifiedKnows'
  BY <1>1, <1>6 DEF ToldInv, NotifiedKnows
<1> QED
  BY <1>5, <1>7 DEF WinInv

(* mark's third step: whoever is notified finds a reason that no longer     *)
(* changes.                                                                 *)
LEMMA Notify ==
    ASSUME Typed, WinInv, NEW t \in Markers, mark_notify(t)
    PROVE  WinInv'
<1>0. marker \in [Markers -> MarkerStates] /\ marker[t] \in MarkerStates
  BY DEF Typed
<1>1. /\ marker[t].at = "stored" /\ marker'[t].at = "done"
      /\ marker'[t].reason = marker[t].reason
      /\ \A u \in Markers : u # t => marker'[u] = marker[u]
      /\ UNCHANGED <<closed, err>> /\ obs' = notified
  BY <1>0 DEF mark_notify, MarkerStates
<1>2. Won(t) /\ Stored(t)
  BY <1>1 DEF Won, Stored
<1>3. closed /\ \A u \in Markers : Won(u) <=> u = t
  BY <1>2 DEF WinInv, OneWinner
<1>4. \A u \in Markers : (Won(u)' <=> u = t) /\ (Stored(u)' <=> u = t)
  BY <1>1, <1>3 DEF Won, Stored
<1>5. OneWinner' /\ ReasonInv'
  BY <1>1, <1>2, <1>3, <1>4 DEF OneWinner, ReasonInv, WinInv
<1>6. ToldInv'
  BY <1>1, <1>3, <1>4 DEF ToldInv
<1>7. NotifiedKnows'
  <2>1. ASSUME NEW o \in Observers, obs'[o].at = "seen", obs'[o].notified
        PROVE  \A u \in Winners' : obs'[o].seen = marker'[u].reason
    <3>1. obs[o].at = "seen" /\ obs[o].notified /\ obs'[o].seen = obs[o].seen
      BY <1>1, <2>1, NotifiedTyped DEF listening
    <3>2. \A u \in Winners' : u \in Winners /\ marker'[u].reason = marker[u].reason
      BY <1>1, <1>3, <1>4 DEF Winners, Won
    <3> QED
      BY <3>1, <3>2 DEF WinInv, NotifiedKnows
  <2> QED
    BY <2>1 DEF NotifiedKnows
<1> QED
  BY <1>5, <1>6, <1>7 DEF WinInv

(* An observer moves: it reads the reason the winner stored.                *)
LEMMA Observed ==
    ASSUME Typed, WinInv, NEW o \in Observers, Observing(o)
    PROVE  WinInv'
<1>0. obs \in [Observers -> ObsStates] /\ obs[o] \in ObsStates
  BY DEF Typed
<1>1. UNCHANGED <<closed, err, marker>>
  BY DEF Observing, wait_register, wait_check, wait_await, read_err, closing
<1>2. OneWinner' /\ ReasonInv'
  BY <1>1 DEF WinInv, OneWinner, ReasonInv, Won, Stored
<1>3. \A p \in Observers : p # o => obs'[p] = obs[p]
  BY <1>0 DEF Observing, wait_register, wait_check, wait_await, read_err
<1>4. /\ obs'[o].notified = obs[o].notified
      /\ obs'[o].at = "seen" => obs'[o].seen = err /\ obs[o].at = "read"
  <2>1. CASE read_err(o)
    BY <1>0, <2>1 DEF read_err, ObsStates
  <2>2. CASE wait_register(o) \/ wait_check(o) \/ wait_await(o)
    <3>1. PICK a \in {"check", "read", "open", "await"} :
            obs' = [obs EXCEPT ![o] = [obs[o] EXCEPT !.at = a]]
      BY <2>2 DEF wait_register, wait_check, wait_await
    <3>2. obs'[o] = [obs[o] EXCEPT !.at = a]
      BY <1>0, <3>1
    <3>3. /\ [obs[o] EXCEPT !.at = a].at = a
          /\ [obs[o] EXCEPT !.at = a].notified = obs[o].notified
      BY <1>0 DEF ObsStates
    <3> QED
      BY <3>2, <3>3
  <2> QED
    BY <2>1, <2>2 DEF Observing
<1>5. ToldInv'
  BY <1>1, <1>3, <1>4 DEF WinInv, ToldInv, Won
<1>6. NotifiedKnows'
  <2>1. ASSUME NEW p \in Observers, obs'[p].at = "seen", obs'[p].notified, NEW u \in Winners'
        PROVE  obs'[p].seen = marker'[u].reason
    <3>0. u \in Winners /\ u \in Markers /\ Won(u)
      BY <1>1, <2>1 DEF Winners, Won
    <3>1. CASE p # o
      BY <1>1, <1>3, <2>1, <3>0, <3>1 DEF WinInv, NotifiedKnows
    <3>2. CASE p = o
      <4>1. obs[o].notified /\ obs'[o].seen = err
        BY <1>4, <2>1, <3>2
      <4>2. marker[u].at = "done"
        BY <3>0, <4>1 DEF WinInv, ToldInv
      <4>3. err = marker[u].reason
        BY <3>0, <4>2 DEF WinInv, ReasonInv, Stored
      <4> QED
        BY <1>1, <3>2, <4>1, <4>3
    <3> QED
      BY <3>1, <3>2
  <2> QED
    BY <2>1 DEF NotifiedKnows
<1> QED
  BY <1>2, <1>5, <1>6 DEF WinInv

-----------------------------------------------------------------------------
(* The inductive invariant.                                                 *)
IInv == Typed /\ WinInv /\ BeganInv

(* The invariant holds before anything has happened.                        *)
LEMMA InitInvariant == Init => IInv
<1> SUFFICES ASSUME Init PROVE IInv
  OBVIOUS
<1> USE DEF Init
<1>0. DatagramBuf \in Nat /\ NoReason \in Reasons
  BY SurfaceAssumption, ReasonTyped
<1>1. marker \in [Markers -> MarkerStates]
  BY <1>0 DEF Resting, MarkerStates, Ats
<1>2. obs \in [Observers -> ObsStates]
  BY <1>0 DEF ObsStates
<1>3. Typed
  <2>1. dg_buf \in Seq(Datagrams) /\ Len(dg_buf) <= DatagramBuf
    BY <1>0
  <2> QED
    BY <1>0, <1>1, <1>2, <2>1 DEF Typed, InboundTyped
<1>4. \A t \in Markers : marker[t].at = "none" /\ marker[t].reason = NoReason
  BY DEF Resting
<1>5. OneWinner /\ ReasonInv
  BY <1>4 DEF OneWinner, ReasonInv, Won, Stored
<1>6. ToldInv /\ NotifiedKnows
  BY DEF ToldInv, NotifiedKnows
<1>7. BeganInv
  BY <1>4 DEF BeganInv, Markers, NoMessage
<1> QED
  BY <1>3, <1>5, <1>6, <1>7 DEF IInv, WinInv

(* A task begins to end the connection: none has claimed for it yet.        *)
LEMMA TearDownKept ==
    ASSUME IInv, NEW t \in Markers, NEW r \in Reasons, tear_down(t, r), UNCHANGED obs,
           ~Won(t)
    PROVE  WinInv'
<1>1. /\ marker'[t].at = "swap" /\ \A u \in Markers : u # t => marker'[u] = marker[u]
      /\ UNCHANGED <<closed, err>>
  BY TearDownTyped DEF IInv, tear_down
<1> QED
  BY <1>1, NoClaim DEF IInv, Won

(* fatal after a message that breaks the protocol: it acts only on a        *)
(* connection nobody has begun to tear down.                                *)
LEMMA FatalKept ==
    ASSUME IInv, NEW c \in ErrorCodes, fatal(c), UNCHANGED <<obs>>,
           inbound' = NoMessage
    PROVE  WinInv' /\ BeganInv'
<1>1. CASE UNCHANGED closing
  BY <1>1, NoClaim DEF closing, IInv, BeganInv, NoMessage
<1>2. CASE ~tearing_down /\ tear_down("fatal", Reason(c, FALSE))
  <2>1. /\ \A u \in Markers : u # "fatal" => marker'[u] = marker[u]
        /\ Reason(c, FALSE) \in Reasons /\ "fatal" \in Markers
    BY <1>2, ReasonTyped, TearDownTyped DEF IInv, Markers
  <2>2. ~Won("fatal")
    BY <1>2 DEF IInv, BeganInv, Won
  <2>3. tearing_down' /\ began' \notin {"nobody", "local"}
    BY <1>2 DEF tear_down, first, IInv, BeganInv
  <2>4. BeganInv'
    BY <2>1, <2>3 DEF IInv, BeganInv, NoMessage, Markers
  <2> QED
    BY <1>2, <2>1, <2>2, <2>4, TearDownKept
<1> QED
  BY <1>1, <1>2 DEF fatal, may_fail

(* Every step preserves the invariant, action by action.                    *)
LEMMA StepInvariant == IInv /\ [Next]_vars => IInv'
<1> SUFFICES ASSUME IInv, [Next]_vars PROVE IInv'
  OBVIOUS
<1> USE DEF closing, input, dgrams
<1>0. Typed /\ WinInv /\ BeganInv /\ marker \in [Markers -> MarkerStates]
  BY DEF IInv, Typed
<1> SUFFICES WinInv' /\ BeganInv'
  BY <1>0, StepTyped DEF IInv
<1>u. ASSUME UNCHANGED <<closing, obs>> PROVE WinInv'
  BY <1>0, <1>u, NoClaim
<1>b. ASSUME UNCHANGED closing, UNCHANGED inbound \/ marker["control"].at = "none" PROVE BeganInv'
  BY <1>0, <1>b DEF BeganInv
<1>1. ASSUME NEW c \in LocalCodes, close_with_error(c) PROVE WinInv' /\ BeganInv'
  <2>1. /\ Reason(c, FALSE) \in Reasons /\ tear_down("local", Reason(c, FALSE))
        /\ "local" \in Markers /\ ~Won("local") /\ UNCHANGED <<obs, inbound>>
    BY <1>1, ReasonTyped, SurfaceAssumption DEF close_with_error, Markers, Won
  <2>2. \A u \in Markers : u # "local" => marker'[u] = marker[u]
    BY <1>0, <2>1, TearDownTyped
  <2>3. /\ tearing_down' /\ began' # "nobody"
        /\ began' = "local" => began \in {"nobody", "local"}
    BY <2>1 DEF tear_down, first
  <2>4. BeganInv'
    BY <1>0, <2>1, <2>2, <2>3 DEF BeganInv, Markers
  <2> QED
    BY <2>1, <2>4, TearDownKept
<1>2. CASE reserved_channel_lost
  <2>1. /\ marker["lost"].at = "none" /\ marker'["lost"].at = "checked"
        /\ \A u \in Markers : u # "lost" => marker'[u] = marker[u]
        /\ "lost" \in Markers /\ UNCHANGED <<tearing_down, closed, err, obs, inbound>>
        /\ ~tearing_down /\ began' = first("lost")
    BY <1>0, <1>2 DEF reserved_channel_lost, Markers, MarkerStates
  <2>2. WinInv'
    BY <1>0, <2>1, NoClaim DEF Won
  <2>3. began' \notin {"nobody", "local"}
    BY <1>0, <2>1 DEF first, BeganInv
  <2>4. BeganInv'
    BY <1>0, <2>1, <2>3 DEF BeganInv, Markers
  <2> QED
    BY <2>2, <2>4
<1>3. CASE channel_lost
  <2>1. /\ marker["lost"].at = "checked" /\ UNCHANGED <<obs, inbound>>
        /\ began \notin {"nobody", "local"} /\ "lost" \in Markers /\ ~Won("lost")
    BY <1>0, <1>3 DEF channel_lost, BeganInv, Markers, Won
  <2>2. CASE tear_down("lost", Reason(NetworkError, FALSE))
    <3>1. \A u \in Markers : u # "lost" => marker'[u] = marker[u]
      BY <1>0, <2>1, <2>2, ReasonTyped, TearDownTyped
    <3>2. tearing_down' /\ began' \notin {"nobody", "local"}
      BY <2>1, <2>2 DEF tear_down, first
    <3>3. BeganInv'
      BY <1>0, <2>1, <3>1, <3>2 DEF BeganInv, Markers
    <3>4. Reason(NetworkError, FALSE) \in Reasons
      BY ReasonTyped
    <3> QED
      BY <2>1, <2>2, <3>3, <3>4, TearDownKept
  <2>3. CASE ~tear_down("lost", Reason(NetworkError, FALSE))
    <3>1. /\ marker'["lost"].at = "late" /\ tearing_down'
          /\ \A u \in Markers : u \notin {"lost", "fatal"} => marker'[u] = marker[u]
          /\ UNCHANGED <<began, closed, err>>
          /\ \/ marker'["fatal"] = marker["fatal"]
             \/ ~tearing_down /\ marker'["fatal"].at = "swap"
      <4> DEFINE l == [marker["lost"] EXCEPT !.at = "late"]
                 f == IF ~may_fail THEN marker["fatal"]
                      ELSE [at |-> "swap", reason |-> Reason(ProtocolError, FALSE)]
      <4>1. /\ l.at = "late" /\ (f = marker["fatal"] \/ (~tearing_down /\ f.at = "swap"))
        BY <1>0 DEF may_fail, Markers, MarkerStates
      <4>2. /\ marker' = [[marker EXCEPT !["lost"] = l] EXCEPT !["fatal"] = f]
            /\ tearing_down' /\ UNCHANGED <<began, closed, err>>
        BY <1>0, <1>3, <2>3 DEF channel_lost, Markers
      <4> HIDE DEF l, f
      <4> QED
        BY <1>0, <4>1, <4>2 DEF Markers
    <3>2. \A u \in Markers : marker'[u] = marker[u] \/ (~Won(u) /\ ~Won(u)')
      BY <1>0, <2>1, <3>1 DEF BeganInv, Won
    <3>3. WinInv'
      BY <1>0, <2>1, <3>1, <3>2, NoClaim
    <3>4. BeganInv'
      BY <1>0, <2>1, <3>1 DEF BeganInv, Markers
    <3> QED
      BY <3>3, <3>4
  <2> QED
    BY <2>2, <2>3
<1>4. CASE on_state_change
  <2>1. /\ marker["state"].at = "none" /\ marker'["state"].at = "swap"
        /\ marker'["state"].reason = NoReason
        /\ \A u \in Markers : u # "state" => marker'[u] = marker[u]
        /\ "state" \in Markers /\ UNCHANGED <<tearing_down, closed, err, obs, inbound>>
        /\ began' = first("state")
    BY <1>0, <1>4 DEF on_state_change, Markers
  <2>2. WinInv'
    BY <1>0, <2>1, NoClaim DEF Won
  <2>3. began' # "nobody" /\ (began' = "local" => began = "local")
    BY <1>0, <2>1 DEF first
  <2>4. BeganInv'
    BY <1>0, <2>1, <2>3 DEF BeganInv, Markers
  <2> QED
    BY <2>2, <2>4
<1>5. ASSUME NEW chan \in {"control", "stream"}, NEW m, arrives(chan, m)
      PROVE  WinInv' /\ BeganInv'
  BY <1>5, <1>u, <1>b DEF arrives
<1>6. CASE on_control
  <2> DEFINE p == decode_control(inbound.msg)
  <2>1. /\ \/ fatal(ProtocolError) \/ UNCHANGED closing
           \/ \E r \in Reasons : tear_down("control", r)
        /\ inbound' = NoMessage /\ UNCHANGED obs /\ inbound.chan = "control"
    <3>1. Reason(Unsupported, FALSE) \in Reasons
      BY ReasonTyped
    <3>2. p.kind = "Close" => Reason(p.val[1], TRUE) \in Reasons
      BY CloseCode, ReasonTyped
    <3> QED
      BY <1>6, <3>1, <3>2 DEF on_control
  <2> HIDE DEF p
  <2>3. CASE fatal(ProtocolError)
    BY <2>1, <2>3, FatalKept, ReasonTyped
  <2>4. CASE UNCHANGED closing
    BY <1>0, <1>u, <2>1, <2>4 DEF BeganInv, NoMessage
  <2>5. ASSUME NEW r \in Reasons, tear_down("control", r) PROVE WinInv' /\ BeganInv'
    <3>1. /\ ~Won("control") /\ "control" \in Markers
          /\ \A u \in Markers : u # "control" => marker'[u] = marker[u]
      BY <1>0, <2>1, <2>5, TearDownTyped DEF BeganInv, Won, Markers
    <3>2. /\ tearing_down' /\ began' # "nobody"
          /\ began' = "local" => began = "local"
      BY <2>5 DEF tear_down, first
    <3>3. BeganInv'
      BY <1>0, <2>1, <3>1, <3>2 DEF BeganInv, NoMessage, Markers
    <3> QED
      BY <2>1, <2>5, <3>1, <3>3, TearDownKept
  <2> QED
    BY <2>1, <2>3, <2>4, <2>5
<1>7. CASE on_frame
  <2>1. /\ fatal(ProtocolError) \/ UNCHANGED closing
        /\ inbound' = NoMessage /\ UNCHANGED obs
    BY <1>7 DEF on_frame
  <2>2. CASE fatal(ProtocolError)
    BY <2>1, <2>2, FatalKept, ReasonTyped
  <2>3. CASE UNCHANGED closing
    BY <1>0, <1>u, <2>1, <2>3 DEF BeganInv, NoMessage
  <2> QED
    BY <2>1, <2>2, <2>3
<1>8. ASSUME NEW t \in Markers, mark_swap(t) \/ mark_store(t) \/ mark_notify(t)
      PROVE  WinInv' /\ BeganInv'
  <2>1. WinInv'
    BY <1>0, <1>8, Claim, Store, Notify
  <2>2. /\ UNCHANGED <<tearing_down, began, inbound>> /\ marker[t].at # "none"
        /\ marker[t].at # "checked"
    BY <1>8 DEF mark_swap, mark_store, mark_notify
  <2>3. \A u \in Markers : /\ marker[u].at = "none" => marker'[u].at = "none"
                           /\ marker'[u].reason = marker[u].reason
    BY <1>0, <1>8, <2>2 DEF mark_swap, mark_store, mark_notify, MarkerStates
  <2>4. BeganInv'
    BY <1>0, <2>2, <2>3 DEF BeganInv, Markers
  <2> QED
    BY <2>1, <2>4
<1>9. ASSUME NEW o \in Observers, Observing(o) PROVE WinInv' /\ BeganInv'
  BY <1>0, <1>9, <1>b, Observed DEF Observing, wait_register, wait_check, wait_await, read_err
<1>10. ASSUME UNCHANGED <<closing, obs, input>> PROVE WinInv' /\ BeganInv'
  BY <1>10, <1>u, <1>b
<1>11. ASSUME NEW d \in Datagrams, on_datagram(d) PROVE WinInv' /\ BeganInv'
  BY <1>10, <1>11 DEF on_datagram
<1>12. CASE receive_datagram \/ UNCHANGED vars
  BY <1>10, <1>12 DEF receive_datagram, vars
<1> QED
  BY <1>1, <1>2, <1>3, <1>4, <1>5, <1>6, <1>7, <1>8, <1>9, <1>11, <1>12
  DEF Next, Closing, Marking

(* The inductive invariant always holds.                                    *)
LEMMA Invariant == Spec => []IInv
<1>1. Init => IInv
  BY InitInvariant
<1>2. IInv /\ [Next]_vars => IInv'
  BY StepInvariant
<1> QED
  BY <1>1, <1>2, PTL DEF Spec

(* Every variable has its type, and the buffer of datagrams its bound.      *)
THEOREM TypeCorrect == Spec => []TypeOK
<1>1. IInv => TypeOK
  BY DEF IInv, Typed, TypeOK, InboundTyped, Channels, MarkerStates, ObsStates, Ats
<1> QED
  BY <1>1, Invariant, PTL

(* Of all the tasks that end the connection exactly one has its reason      *)
(* stored (CloseState::mark), however they interleave.                      *)
THEOREM OneReason == Spec => []FirstReasonWins
<1>1. ASSUME IInv PROVE FirstReasonWins
  <2>1. OneWinner /\ ReasonInv
    BY <1>1 DEF IInv, WinInv
  <2>2. Cardinality(Winners) = IF closed THEN 1 ELSE 0
    <3>1. CASE closed
      <4>1. PICK t \in Markers : \A u \in Markers : Won(u) <=> u = t
        BY <2>1, <3>1 DEF OneWinner
      <4>2. Winners = {t}
        BY <4>1 DEF Winners, Won
      <4> QED
        BY <3>1, <4>2, FS_Singleton
    <3>2. CASE ~closed
      <4>1. Winners = {}
        BY <2>1, <3>2 DEF OneWinner, Winners, Won
      <4> QED
        BY <3>2, <4>1, FS_EmptySet
    <3> QED
      BY <3>1, <3>2
  <2> QED
    BY <2>1, <2>2 DEF FirstReasonWins, ReasonInv, Stored, Winners
<1> QED
  BY <1>1, Invariant, PTL

(* An observer that was notified reads the reason that won.                 *)
THEOREM ObserversTold == Spec => []NotifiedKnows
<1>1. IInv => NotifiedKnows
  BY DEF IInv, WinInv
<1> QED
  BY <1>1, Invariant, PTL

(* What a connection runs into after its application has begun to close it  *)
(* does not become its reason.                                              *)
THEOREM NotBlamed == Spec => []CloseNotBlamed
<1>1. ASSUME IInv PROVE CloseNotBlamed
  <2>1. ReasonInv /\ BeganInv
    BY <1>1 DEF IInv, WinInv
  <2>2. ASSUME began = "local", NEW t \in Markers, Stored(t)
        PROVE  err \in {NoReason, marker["local"].reason, marker["control"].reason}
    BY <2>1, <2>2 DEF ReasonInv, BeganInv, Stored, Markers
  <2> QED
    BY <2>1, <2>2 DEF ReasonInv, CloseNotBlamed
<1> QED
  BY <1>1, Invariant, PTL

(* Both decoders agree with the encoders on every message that can arrive,  *)
(* and QUIC takes every code with the low 32 bits of a Close for its reason. *)
THEOREM DecodersAgree == Spec => []DecodersFaithful
<1>1. ASSUME IInv PROVE DecodersFaithful
  <2>1. InboundTyped
    BY <1>1 DEF IInv, Typed
  <2>2. ASSUME inbound.chan = "control" PROVE inbound.msg \in Messages["control"]
    BY <2>1, <2>2 DEF InboundTyped, NoMessage
  <2>3. ASSUME inbound.chan = "stream" PROVE inbound.msg \in Messages["stream"]
    BY <2>1, <2>3 DEF InboundTyped, NoMessage
  <2>4. ASSUME is_close, NEW q \in Wider(inbound.msg.val[1])
        PROVE  normalize_close(q) = Reason(decode_control(inbound.msg).val[1], TRUE)
    <3>1. decode_control(inbound.msg) = Parsed("Close", <<from_wire(inbound.msg.val[1])>>)
      BY <2>4 DEF is_close, decode_control
    <3>2. q % CodeRange = inbound.msg.val[1]
      BY <2>4 DEF Wider
    <3>3. normalize_close(q) = Reason(from_wire(inbound.msg.val[1]), TRUE)
      BY <3>2, Zenon DEF normalize_close
    <3>4. decode_control(inbound.msg).val[1] = from_wire(inbound.msg.val[1])
      BY <3>1 DEF Parsed
    <3> QED
      BY <3>3, <3>4, Zenon
  <2> QED
    BY <2>2, <2>3, <2>4, ControlDecoded, StreamDecoded DEF DecodersFaithful
<1> QED
  BY <1>1, Invariant, PTL
=============================================================================
