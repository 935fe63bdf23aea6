------------------------------ MODULE Listener ------------------------------
(***************************************************************************)
(* The listener (libs/rust/kps/src/listener.rs): one UDP socket shared by   *)
(* both transports (SPEC 5.1).  A pump task routes every packet by source   *)
(* address, else by the ICE ufrag of a STUN message, for which it creates a *)
(* peer connection (PC), else to QUIC.  Each PC's state callback hands the  *)
(* connection over for accept, and removes the routes when the PC ends.     *)
(*                                                                          *)
(* Concurrent: the pump, the callbacks of every PC, the tasks that wait for *)
(* the handshake and then for room in the accept queue, the application     *)
(* that accepts, and the one that closes.  The Entries lock is held for one *)
(* map operation at a time, so the pump's look-ups and inserts are separate *)
(* steps.                                                                   *)
(*                                                                          *)
(* Abstractions: a packet is its source and its ufrag, NoUfrag when it is   *)
(* not STUN or carries no USERNAME; QUIC's inbox is a number of packets,    *)
(* and what a PC reads from its own is left out, as the WebRTC and QUIC     *)
(* libraries are external: they may connect, fail and close at any moment.  *)
(***************************************************************************)
EXTENDS Integers, Sequences, FiniteSets

CONSTANTS
    Addrs,          \* client addresses, in canonical form
    Ufrags,         \* the ufrags of WebRTC clients
    NoUfrag,
    MaxPcs,         \* bound: peer connections the pump creates
    MaxQuic,        \* bound: QUIC connections that arrive
    MaxCloses,      \* bound: calls of Listener::close
    InboxCap,       \* capacity of QUIC's inbox, 256 in the code
    AcceptCap       \* capacity of the accept queue, 16 in the code

ASSUME ListenerAssumption ==
    /\ {MaxPcs, MaxQuic, MaxCloses, InboxCap, AcceptCap} \subseteq Nat
    /\ AcceptCap > 0 /\ NoUfrag \notin Ufrags

Pcs == 1..MaxPcs
Quics == MaxPcs + 1 .. MaxPcs + MaxQuic
Conns == Pcs \cup Quics
None == 0

VARIABLES
    by_ufrag, by_addr,  \* Entries: the PC registered, the PC whose inbox is routed to
    pump,       \* the pump task: [at, from, ufrag, pc]
    notified,   \* shutdown.notify_waiters has reached the pump's wait
    pcs,        \* each PC: [ufrag, state, ending (its callback is due), ended (it ran)]
    quic_inbox, \* packets in QUIC's inbox
    conn,       \* each connection: "none", "waiting" to be surfaced, "delivered", "gone"
    accept_q,
    accepted,   \* how often accept has returned each connection
    endpoint,   \* the QUIC endpoint is open
    close       \* Listener::close: [calls, at, pcs (PCs it has yet to close)]

entries == <<by_ufrag, by_addr>>
arrivals == <<conn, accept_q, accepted>>
closing == <<endpoint, close>>
vars == <<entries, pump, notified, pcs, quic_inbox, arrivals, closing>>

AtSelect == [at |-> "select", from |-> None, ufrag |-> NoUfrag, pc |-> None]

Init ==
    /\ by_ufrag = [u \in Ufrags |-> None] /\ by_addr = [a \in Addrs |-> None]
    /\ pump = AtSelect /\ notified = FALSE
    /\ pcs = [p \in Pcs |-> [ufrag |-> NoUfrag, state |-> "none",
                             ending |-> FALSE, ended |-> FALSE]]
    /\ quic_inbox = 0
    /\ conn = [c \in Conns |-> "none"]
    /\ accept_q = <<>> /\ accepted = [c \in Conns |-> 0]
    /\ endpoint = TRUE
    /\ close = [calls |-> 0, at |-> "idle", pcs |-> {}]

-----------------------------------------------------------------------------
(* The pump.                                                                *)

(* shutdown.notified wins the select.                                       *)
pump_shutdown ==
    /\ pump.at = "select" /\ notified
    /\ pump' = [pump EXCEPT !.at = "ended"] /\ notified' = FALSE
    /\ UNCHANGED <<entries, pcs, quic_inbox, arrivals, closing>>

(* Mutant: the source of a packet is not looked up.                         *)
known_peer_none(from) == None

(* by_addr.get: the PC to which the packet's source belongs.                *)
known_peer(from) == by_addr[from]

(* try_send: a packet that finds the inbox full is dropped.                 *)
try_send(n) == IF n < InboxCap THEN n + 1 ELSE n

(* spawn_pc, up to where the PC's callbacks may run: PCs are numbered as    *)
(* they are made.                                                           *)
spawn_pc(p, ufrag) ==
    /\ pcs[p].state = "none" /\ \A q \in 1..p-1 : pcs[q].state # "none"
    /\ pcs' = [pcs EXCEPT ![p].state = "new", ![p].ufrag = ufrag]

(* recv_from wins the select, also over a notification that is there: it is *)
(* dropped with the future that held it.  The look-ups follow: by address,  *)
(* else by ufrag, else a new PC, else QUIC.                                 *)
(* (A notification between recv_from and the look-ups is lost as well, with *)
(* the same outcome as one before.)                                         *)
pump_recv(from, ufrag) ==
    LET peer == known_peer(from)
        client == peer = None /\ ufrag # NoUfrag         \* STUN from a new address
        goto(at, p) == pump' = [at |-> at, from |-> from, ufrag |-> ufrag, pc |-> p]
    IN
    /\ pump.at = "select"
    /\ \/ /\ peer # None
          /\ UNCHANGED <<pump, pcs, quic_inbox>>
       \/ /\ peer = None /\ ufrag = NoUfrag
          /\ quic_inbox' = try_send(quic_inbox)
          /\ UNCHANGED <<pump, pcs>>
       \/ /\ client /\ by_ufrag[ufrag] # None
          /\ goto("bind", by_ufrag[ufrag]) /\ UNCHANGED <<pcs, quic_inbox>>
       \/ /\ client /\ by_ufrag[ufrag] = None
          /\ \E p \in Pcs : spawn_pc(p, ufrag) /\ goto("spawn", p)
          /\ UNCHANGED quic_inbox
       \/ /\ client /\ by_ufrag[ufrag] = None          \* spawn_pc fails, no PC made
          /\ UNCHANGED <<pump, pcs, quic_inbox>>
    /\ notified' = FALSE
    /\ UNCHANGED <<entries, arrivals, closing>>

(* spawn_pc returns Ok: the PC, whose callbacks may have run already, is    *)
(* registered.                                                              *)
pump_register ==
    /\ pump.at = "spawn"
    /\ by_ufrag' = [by_ufrag EXCEPT ![pump.ufrag] = pump.pc]
    /\ pump' = [pump EXCEPT !.at = "bind"]
    /\ UNCHANGED <<by_addr, notified, pcs, quic_inbox, arrivals, closing>>

(* spawn_pc fails before ICE has begun: the packet is dropped, and the PC   *)
(* is left to its HELLO timeout.                                            *)
pump_spawn_failed ==
    /\ pump.at = "spawn" /\ pcs[pump.pc].state # "connected"
    /\ pump' = AtSelect
    /\ pcs' = [pcs EXCEPT ![pump.pc].state = IF @ = "new" THEN "stray" ELSE @]
    /\ UNCHANGED <<entries, notified, quic_inbox, arrivals, closing>>

(* The source is bound to the PC, whose inbox then takes the packet.        *)
pump_bind ==
    /\ pump.at = "bind"
    /\ by_addr' = [by_addr EXCEPT ![pump.from] = pump.pc]
    /\ pump' = AtSelect
    /\ UNCHANGED <<by_ufrag, notified, pcs, quic_inbox, arrivals, closing>>

-----------------------------------------------------------------------------
(* The peer connections and their callbacks.                                *)

live(p) == pcs[p].state \notin {"none", "closed"}

(* The PC fails, or is closed by its connection: its callback is due.       *)
pc_ends(p, state) ==
    /\ live(p) /\ pcs[p].state # state
    /\ pcs' = [pcs EXCEPT ![p].state = state, ![p].ending = TRUE]
    /\ UNCHANGED <<entries, pump, notified, quic_inbox, arrivals, closing>>

(* Mutant: every Connected hands the connection over.                       *)
take_always(c) == TRUE

(* conn_slot.take: the connection is there to be taken once.                *)
take(c) == conn[c] = "none"

(* The PC connects, or connects again, and the callback spawns the task     *)
(* that waits for HELLO.                                                    *)
on_connected(p) ==
    /\ pcs[p].state \in {"new", "connected"}
    /\ pcs' = [pcs EXCEPT ![p].state = "connected"]
    /\ conn' = [conn EXCEPT ![p] = IF take(p) THEN "waiting" ELSE @]
    /\ UNCHANGED <<entries, pump, notified, quic_inbox, accept_q, accepted, closing>>

(* Mutant: the addresses outlive the entry they lead to.                    *)
retained_all(addrs, p) == addrs

(* by_addr.retain: the routes that do not lead to p.                        *)
retained(addrs, p) == [a \in Addrs |-> IF addrs[a] = p THEN None ELSE addrs[a]]

(* The callback for Closed and Failed: close_state.mark and remove_ufrag,   *)
(* which removes whatever PC is registered under the ufrag.                 *)
on_ended(p) ==
    LET u == pcs[p].ufrag IN
    /\ pcs[p].ending
    /\ pcs' = [pcs EXCEPT ![p].ending = FALSE, ![p].ended = TRUE]
    /\ by_ufrag' = [by_ufrag EXCEPT ![u] = None]
    /\ by_addr' = IF by_ufrag[u] = None THEN by_addr ELSE retained(by_addr, by_ufrag[u])
    /\ UNCHANGED <<pump, notified, quic_inbox, arrivals, closing>>

(* wait_established fails in the spawned task: the connection has closed,   *)
(* and is dropped.                                                          *)
rejected(p) ==
    /\ conn[p] = "waiting" /\ pcs[p].ended
    /\ conn' = [conn EXCEPT ![p] = "gone"]
    /\ UNCHANGED <<entries, pump, notified, pcs, quic_inbox, accept_q, accepted, closing>>

-----------------------------------------------------------------------------
(* QUIC's accept loop spawns a task that awaits the handshake.              *)
quic_incoming(c) ==
    /\ endpoint /\ conn[c] = "none" /\ \A d \in Quics : d < c => conn[d] # "none"
    /\ conn' = [conn EXCEPT ![c] = "waiting"]

(* poll_recv by QUIC's endpoint; a packet may begin a connection.           *)
quic_recv ==
    /\ quic_inbox > 0
    /\ quic_inbox' = quic_inbox - 1
    /\ UNCHANGED conn \/ \E c \in Quics : quic_incoming(c)
    /\ UNCHANGED <<entries, pump, notified, pcs, accept_q, accepted, closing>>

(* The handshake fails, as it does when the endpoint closes.                *)
quic_rejected(c) ==
    /\ conn[c] = "waiting" /\ ~endpoint
    /\ conn' = [conn EXCEPT ![c] = "gone"]
    /\ UNCHANGED <<entries, pump, notified, pcs, quic_inbox, accept_q, accepted, closing>>

(* The handshake has completed and accept_tx.send finds room; a connection  *)
(* that ends while it waits for room is delivered all the same.             *)
deliver(c) ==
    /\ conn[c] = "waiting" /\ Len(accept_q) < AcceptCap
    /\ accept_q' = Append(accept_q, c)
    /\ conn' = [conn EXCEPT ![c] = "delivered"]
    /\ UNCHANGED <<entries, pump, notified, pcs, quic_inbox, accepted, closing>>

(* accept returns a connection.                                             *)
accept ==
    /\ accept_q # <<>>
    /\ accepted' = [accepted EXCEPT ![Head(accept_q)] = @ + 1]
    /\ accept_q' = Tail(accept_q)
    /\ UNCHANGED <<entries, pump, notified, pcs, quic_inbox, conn, closing>>

-----------------------------------------------------------------------------
(* Listener::close.  notify_waiters reaches a pump that waits, and leaves   *)
(* no permit for one that does not; endpoint.close.                         *)
close_notify ==
    /\ close.at = "idle" /\ close.calls < MaxCloses
    /\ notified' = (notified \/ pump.at = "select")
    /\ endpoint' = FALSE
    /\ close' = [close EXCEPT !.at = "drain", !.calls = @ + 1]
    /\ UNCHANGED <<entries, pump, pcs, quic_inbox, arrivals>>

(* Mutant: the PCs are dropped with their entries.                          *)
registered_none == {}

(* The PCs that are registered.                                             *)
registered == {by_ufrag[u] : u \in Ufrags} \ {None}

(* entries.close_all: both maps are emptied.                                *)
close_all ==
    /\ close.at = "drain"
    /\ close' = [close EXCEPT !.at = "pcs", !.pcs = registered]
    /\ by_ufrag' = [u \in Ufrags |-> None] /\ by_addr' = [a \in Addrs |-> None]
    /\ UNCHANGED <<pump, notified, pcs, quic_inbox, arrivals, endpoint>>

(* pc.close for each of them; then close returns.                           *)
close_pc(p) ==
    /\ close.at = "pcs" /\ p \in close.pcs
    /\ close' = [close EXCEPT !.pcs = @ \ {p}]
    /\ pcs' = IF ~live(p) THEN pcs
              ELSE [pcs EXCEPT ![p].state = "closed", ![p].ending = TRUE]
    /\ UNCHANGED <<entries, pump, notified, quic_inbox, arrivals, endpoint>>
close_done ==
    /\ close.at = "pcs" /\ close.pcs = {}
    /\ close' = [close EXCEPT !.at = "idle"]
    /\ UNCHANGED <<entries, pump, notified, pcs, quic_inbox, arrivals, endpoint>>

-----------------------------------------------------------------------------
PumpStep == pump_register \/ pump_spawn_failed \/ pump_bind
CloseStep == close_all \/ close_done \/ \E p \in Pcs : close_pc(p)
Transport(p) == on_connected(p) \/ \E s \in {"failed", "closed"} : pc_ends(p, s)

Next ==
    \/ \E a \in Addrs, u \in Ufrags \cup {NoUfrag} : pump_recv(a, u)
    \/ pump_shutdown \/ PumpStep
    \/ \E p \in Pcs : Transport(p) \/ on_ended(p) \/ rejected(p)
    \/ quic_recv \/ (\E c \in Quics : quic_rejected(c))
    \/ (\E c \in Conns : deliver(c)) \/ accept
    \/ close_notify \/ CloseStep

Spec == Init /\ [][Next]_vars

-----------------------------------------------------------------------------
(* Every variable has its type; neither inbox nor accept queue outgrows its *)
(* capacity.                                                                *)
PcState == [ufrag : Ufrags \cup {NoUfrag},
            state : {"none", "new", "connected", "failed", "closed", "stray"},
            ending : BOOLEAN, ended : BOOLEAN]
PumpState == [at : {"select", "spawn", "bind", "ended"}, from : Addrs \cup {None},
              ufrag : Ufrags \cup {NoUfrag}, pc : Pcs \cup {None}]
CloseState == [calls : 0..MaxCloses, at : {"idle", "drain", "pcs"}, pcs : SUBSET Pcs]
TypeOK ==
    /\ by_ufrag \in [Ufrags -> Pcs \cup {None}] /\ by_addr \in [Addrs -> Pcs \cup {None}]
    /\ pump \in PumpState /\ pcs \in [Pcs -> PcState] /\ close \in CloseState
    /\ notified \in BOOLEAN /\ endpoint \in BOOLEAN
    /\ quic_inbox \in 0..InboxCap
    /\ conn \in [Conns -> {"none", "waiting", "delivered", "gone"}]
    /\ accept_q \in Seq(Conns) /\ Len(accept_q) \leq AcceptCap
    /\ accepted \in [Conns -> Nat]

(* A route that leads to an inbox no ufrag is registered for, and a ufrag   *)
(* registered for a PC whose end has been handled.                          *)
StaleRoute(a) == by_addr[a] # None /\ by_ufrag[pcs[by_addr[a]].ufrag] # by_addr[a]
StaleUfrag(u) == by_ufrag[u] # None /\ pcs[by_ufrag[u]].ended

(* The end of a PC takes all its routes with it, from every address it was  *)
(* reached from: a stale one is only ever made by the pump's own insert,    *)
(* after the end has overtaken it.                                          *)
StaleOnlyByPump ==
    [][/\ \A a \in Addrs : ~StaleRoute(a) /\ StaleRoute(a)' => by_addr[a] # by_addr'[a]
       /\ \A u \in Ufrags :
            ~StaleUfrag(u) /\ StaleUfrag(u)' => by_ufrag[u] # by_ufrag'[u]]_vars

(* SPEC 5.1: packets from the address of a WebRTC connection are its own.   *)
(* No packet of any other client, whatever ufrag it carries, moves the      *)
(* route of an address that is bound: it is released first.                 *)
BoundAddressKept ==
    [][\A a \in Addrs : by_addr[a] # None => by_addr'[a] \in {by_addr[a], None}]_vars

(* A connection that was handed over is surfaced by accept exactly once,    *)
(* however often its PC disconnects and connects again.                     *)
SurfacedOnce ==
    \A c \in Conns :
        accepted[c] + Cardinality({i \in DOMAIN accept_q : accept_q[i] = c})
            = IF conn[c] = "delivered" THEN 1 ELSE 0

(* Listener::close reaches every open PC that spawn_pc returned: one that   *)
(* is neither registered nor about to be closed was lost because an older   *)
(* PC of the same ufrag ended after it was registered.                      *)
LostOnlyToNamesake ==
    \A p \in Pcs : pcs[p].state \in {"new", "connected"} =>
        \/ pump.at = "spawn" /\ pump.pc = p
        \/ p \in close.pcs \/ \E u \in Ufrags : by_ufrag[u] = p
        \/ \E q \in 1..p-1 : pcs[q].ufrag = pcs[p].ufrag /\ pcs[q].ended

(* Fairness: the runtime polls the tasks that are ready.  Packets, and what *)
(* the network and the peers do, are not fair.                              *)
Fairness ==
    /\ WF_vars(pump_shutdown) /\ WF_vars(PumpStep) /\ WF_vars(CloseStep)
    /\ \A p \in Pcs : WF_vars(on_ended(p)) /\ WF_vars(rejected(p))
    /\ \A c \in Conns : WF_vars(deliver(c))
    /\ WF_vars(accept) /\ WF_vars(quic_recv)
LiveSpec == Spec /\ Fairness

(* listener.rs:214: close "stops the pump, closes the QUIC endpoint and     *)
(* every WebRTC peer connection".                                           *)
CloseStops ==
    (close.calls > 0 /\ close.at = "idle")
        ~> (pump.at = "ended" /\ \A p \in Pcs : ~live(p))

=============================================================================
