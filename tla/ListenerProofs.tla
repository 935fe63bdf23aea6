--------------------------- MODULE ListenerProofs ---------------------------
(***************************************************************************)
(* Proofs about Listener, for any number of clients, peer connections and   *)
(* calls of close: the type invariant, who may move a route, where stale    *)
(* routes come from, which peer connection close can miss, and that accept  *)
(* returns every connection once.                                           *)
(***************************************************************************)
EXTENDS Listener, FiniteSetTheorems, FunctionTheorems, TLAPS

(* A PC that spawn_pc has made.                                             *)
Made(p) == pcs[p].state # "none"

(* PCs are numbered as they are made.                                       *)
Numbered == \A p \in Pcs : Made(p) => \A q \in 1..p-1 : Made(q)

(* Routes lead to PCs that were made, and a ufrag to a PC of its own.       *)
Routes ==
    \A u \in Ufrags : by_ufrag[u] # None => Made(by_ufrag[u]) /\ pcs[by_ufrag[u]].ufrag = u
Bound ==
    \A a \in Addrs : by_addr[a] # None =>
        Made(by_addr[a]) /\ pcs[by_addr[a]].ufrag \in Ufrags

(* What the pump has looked up is still true when it inserts: it alone      *)
(* inserts, and everyone else only removes.                                 *)
PumpOwns ==
    /\ pump.at \in {"spawn", "bind"} =>
         /\ pump.from \in Addrs /\ by_addr[pump.from] = None
         /\ pump.pc \in Pcs /\ Made(pump.pc)
         /\ pump.ufrag \in Ufrags /\ pcs[pump.pc].ufrag = pump.ufrag
    /\ pump.at = "spawn" => by_ufrag[pump.ufrag] = None

RouteInv == Numbered /\ Routes /\ Bound /\ PumpOwns

(* What LostOnlyToNamesake rests on: a registered PC is the newest of its   *)
(* ufrag, one that is being registered the newest of all; a PC whose        *)
(* callback is due has ended; close has PCs to close only while it does so. *)
Newest ==
    /\ \A u \in Ufrags : by_ufrag[u] # None =>
         \A q \in Pcs : Made(q) /\ pcs[q].ufrag = u => q \leq by_ufrag[u]
    /\ pump.at = "spawn" => \A q \in Pcs : Made(q) => q \leq pump.pc
EndingEnded == \A p \in Pcs : pcs[p].ending => pcs[p].state \in {"failed", "closed"}
ClosingOnly == close.at # "pcs" => close.pcs = {}
LostInv == Newest /\ EndingEnded /\ ClosingOnly /\ LostOnlyToNamesake

-----------------------------------------------------------------------------
(* The bounds of the model are natural numbers.                             *)
LEMMA Bounds ==
    MaxPcs \in Nat /\ MaxQuic \in Nat /\ MaxCloses \in Nat /\ InboxCap \in Nat /\ AcceptCap \in Nat
BY ListenerAssumption

States == {"none", "new", "connected", "failed", "closed", "stray"}

(* The updates that the actions make of a PC keep its type.                 *)
LEMMA PcUpdates ==
    ASSUME NEW r \in PcState, NEW s \in States, NEW u \in Ufrags \cup {NoUfrag}
    PROVE  /\ [r EXCEPT !.state = s] \in PcState
           /\ [r EXCEPT !.state = s, !.ufrag = u] \in PcState
           /\ [r EXCEPT !.state = s, !.ending = TRUE] \in PcState
           /\ [r EXCEPT !.ending = FALSE, !.ended = TRUE] \in PcState
           /\ r.state \in States /\ r.ufrag \in Ufrags \cup {NoUfrag}
BY DEF PcState, States
(* The same for the pump, which is always at one of its four places.        *)
LEMMA PumpUpdates ==
    /\ AtSelect \in PumpState
    /\ \A r \in PumpState : /\ [r EXCEPT !.at = "bind"] \in PumpState
                            /\ [r EXCEPT !.at = "ended"] \in PumpState
                            /\ r.pc \in Pcs \cup {None}
    /\ \A at \in {"spawn", "bind"}, a \in Addrs, u \in Ufrags \cup {NoUfrag}, p \in Pcs \cup {None} :
         [at |-> at, from |-> a, ufrag |-> u, pc |-> p] \in PumpState
BY DEF AtSelect, PumpState
(* The same for close, which only ever takes PCs off its list.              *)
LEMMA CloseUpdates ==
    ASSUME NEW r \in CloseState, NEW S \in SUBSET Pcs
    PROVE  /\ [r EXCEPT !.at = "idle"] \in CloseState
           /\ [r EXCEPT !.pcs = @ \ S] \in CloseState
           /\ [r EXCEPT !.at = "pcs", !.pcs = S] \in CloseState
           /\ r.calls < MaxCloses => [r EXCEPT !.at = "drain", !.calls = @ + 1] \in CloseState
<1>1. r.pcs \in SUBSET Pcs /\ r.pcs \ S \in SUBSET Pcs /\ r.calls \in 0..MaxCloses
    BY DEF CloseState
<1>2. r.calls < MaxCloses => r.calls + 1 \in 0..MaxCloses
    BY <1>1, Bounds
<1> QED
    BY <1>1, <1>2 DEF CloseState

(* A PC that is replaced by another record leaves the others as they are.   *)
LEMMA PcStep ==
    ASSUME pcs \in [Pcs -> PcState], NEW p \in Pcs, NEW r \in PcState,
           pcs' = [pcs EXCEPT ![p] = r]
    PROVE  pcs' \in [Pcs -> PcState]
OBVIOUS

(* Initially every variable has its type.                                   *)
LEMMA InitType == Init => TypeOK
<1> SUFFICES ASSUME Init PROVE TypeOK
    OBVIOUS
<1>1. by_ufrag \in [Ufrags -> Pcs \cup {None}] /\ by_addr \in [Addrs -> Pcs \cup {None}]
    BY DEF Init
<1>2. pump \in PumpState
    BY PumpUpdates DEF Init
<1>3. pcs \in [Pcs -> PcState]
    BY DEF Init, PcState
<1>4. /\ conn \in [Conns -> {"none", "waiting", "delivered", "gone"}]
      /\ accept_q \in Seq(Conns) /\ Len(accept_q) \leq AcceptCap
      /\ accepted \in [Conns -> Nat]
    BY Bounds DEF Init
<1>5. close \in CloseState
    BY Bounds DEF Init, CloseState
<1>6. notified \in BOOLEAN /\ endpoint \in BOOLEAN
    BY Zenon DEF Init
<1>7. quic_inbox \in 0..InboxCap
    BY Bounds DEF Init
<1> QED
    BY <1>1, <1>2, <1>3, <1>4, <1>5, <1>6, <1>7 DEF TypeOK

(* Every step of every task keeps it.                                       *)
LEMMA NextType == TypeOK /\ [Next]_vars => TypeOK'
<1> SUFFICES ASSUME TypeOK, [Next]_vars PROVE TypeOK'
    OBVIOUS
<1> USE DEF TypeOK, entries, arrivals, closing
<1>1. ASSUME NEW a \in Addrs, NEW u \in Ufrags \cup {NoUfrag}, pump_recv(a, u)
      PROVE  TypeOK'
    <2>1. ASSUME NEW p \in Pcs, spawn_pc(p, u) PROVE pcs' \in [Pcs -> PcState]
        <3>1. PICK r \in PcState : r = [pcs[p] EXCEPT !.state = "new", !.ufrag = u]
            BY PcUpdates DEF States
        <3> QED
            BY <2>1, <3>1, PcStep DEF spawn_pc
    <2>2. pcs' \in [Pcs -> PcState]
        BY <1>1, <2>1 DEF pump_recv
    <2>3. u # NoUfrag => by_ufrag[u] \in Pcs \cup {None}
        OBVIOUS
    <2>4. pump' \in PumpState
        BY <1>1, <2>3, PumpUpdates DEF pump_recv
    <2>5. quic_inbox' \in 0..InboxCap
        BY <1>1, Bounds DEF pump_recv, try_send
    <2>6. notified' \in BOOLEAN
        BY <1>1, Zenon DEF pump_recv
    <2> QED
        BY <1>1, <2>2, <2>4, <2>5, <2>6 DEF pump_recv
<1>2. CASE pump_shutdown
    BY <1>2, PumpUpdates DEF pump_shutdown
<1>3. CASE PumpStep
    <2>1. pump' \in PumpState
        BY <1>3, PumpUpdates DEF PumpStep, pump_register, pump_spawn_failed, pump_bind
    <2>2. ASSUME pump_spawn_failed PROVE pcs' \in [Pcs -> PcState]
        <3>1. CASE pump.pc \in Pcs
            <4>1. PICK s \in States : s = IF pcs[pump.pc].state = "new" THEN "stray"
                                          ELSE pcs[pump.pc].state
                BY <3>1, PcUpdates DEF States
            <4>2. PICK r \in PcState : r = [pcs[pump.pc] EXCEPT !.state = s]
                BY <3>1, PcUpdates
            <4>3. pcs' = [pcs EXCEPT ![pump.pc] = r]
                BY <2>2, <3>1, <4>1, <4>2 DEF pump_spawn_failed
            <4> QED
                BY <3>1, <4>3, PcStep
        <3>2. CASE pump.pc \notin Pcs
            BY <2>2, <3>2 DEF pump_spawn_failed
        <3> QED
            BY <3>1, <3>2
    <2>3. pcs' \in [Pcs -> PcState]
        BY <1>3, <2>2 DEF PumpStep, pump_register, pump_bind
    <2>4. pump.pc \in Pcs \cup {None}
        BY PumpUpdates
    <2>5. by_ufrag' \in [Ufrags -> Pcs \cup {None}] /\ by_addr' \in [Addrs -> Pcs \cup {None}]
        BY <1>3, <2>4 DEF PumpStep, pump_register, pump_spawn_failed, pump_bind
    <2> QED
        BY <1>3, <2>1, <2>3, <2>5 DEF PumpStep, pump_register, pump_spawn_failed, pump_bind
<1>4. ASSUME NEW p \in Pcs, Transport(p) PROVE TypeOK'
    <2>1. PICK r \in PcState : pcs' = [pcs EXCEPT ![p] = r]
        <3>1. CASE on_connected(p)
            <4>1. PICK r \in PcState : r = [pcs[p] EXCEPT !.state = "connected"]
                BY PcUpdates DEF States
            <4> QED
                BY <3>1, <4>1 DEF on_connected
        <3>2. ASSUME NEW s \in {"failed", "closed"}, pc_ends(p, s)
              PROVE  \E r \in PcState : pcs' = [pcs EXCEPT ![p] = r]
            <4>1. PICK r \in PcState : r = [pcs[p] EXCEPT !.state = s, !.ending = TRUE]
                BY PcUpdates DEF States
            <4> QED
                BY <3>2, <4>1 DEF pc_ends
        <3> QED
            BY <1>4, <3>1, <3>2 DEF Transport
    <2>2. conn' \in [Conns -> {"none", "waiting", "delivered", "gone"}]
        BY <1>4 DEF Transport, on_connected, pc_ends
    <2> QED
        BY <1>4, <2>1, <2>2 DEF Transport, on_connected, pc_ends
<1>5. ASSUME NEW p \in Pcs, on_ended(p) PROVE TypeOK'
    <2>1. PICK r \in PcState : r = [pcs[p] EXCEPT !.ending = FALSE, !.ended = TRUE]
        BY PcUpdates DEF States
    <2>2. pcs' \in [Pcs -> PcState]
        BY <1>5, <2>1, PcStep DEF on_ended
    <2>3. by_addr' \in [Addrs -> Pcs \cup {None}]
        BY <1>5 DEF on_ended, retained
    <2> QED
        BY <1>5, <2>2, <2>3 DEF on_ended
<1>6. ASSUME NEW c \in Conns, rejected(c) \/ quic_rejected(c) PROVE TypeOK'
    BY <1>6 DEF rejected, quic_rejected
<1>7. ASSUME NEW c \in Conns, deliver(c) PROVE TypeOK'
    <2>1. accept_q' \in Seq(Conns) /\ Len(accept_q') \leq AcceptCap
        BY <1>7, Bounds DEF deliver
    <2> QED
        BY <1>7, <2>1 DEF deliver
<1>8. CASE quic_recv
    <2>1. quic_inbox' \in 0..InboxCap
        BY <1>8, Bounds DEF quic_recv
    <2>2. conn' \in [Conns -> {"none", "waiting", "delivered", "gone"}]
        BY <1>8 DEF quic_recv, quic_incoming
    <2> QED
        BY <1>8, <2>1, <2>2 DEF quic_recv
<1>9. CASE accept
    <2>1. accept_q' \in Seq(Conns) /\ Len(accept_q') \leq AcceptCap /\ Head(accept_q) \in Conns
        BY <1>9, Bounds DEF accept
    <2>2. accepted' \in [Conns -> Nat]
        BY <1>9, <2>1 DEF accept
    <2> QED
        BY <1>9, <2>1, <2>2 DEF accept
<1>10. CASE close_notify
    <2>1. close' \in CloseState
        BY <1>10, CloseUpdates, Zenon DEF close_notify
    <2>2. notified' \in BOOLEAN /\ endpoint' \in BOOLEAN
        BY <1>10, Zenon DEF close_notify
    <2> QED
        BY <1>10, <2>1, <2>2 DEF close_notify
<1>11. CASE close_all
    <2>1. registered \in SUBSET Pcs
        BY DEF registered
    <2>2. close' \in CloseState
        BY <1>11, <2>1, CloseUpdates DEF close_all
    <2> QED
        BY <1>11, <2>2 DEF close_all
<1>12. ASSUME NEW p \in Pcs, close_pc(p) PROVE TypeOK'
    <2>1. close' \in CloseState
        BY <1>12, CloseUpdates DEF close_pc
    <2>2. PICK r \in PcState : r = [pcs[p] EXCEPT !.state = "closed", !.ending = TRUE]
        BY PcUpdates DEF States
    <2>3. pcs' \in [Pcs -> PcState]
        BY <1>12, <2>2, PcStep DEF close_pc
    <2> QED
        BY <1>12, <2>1, <2>3 DEF close_pc
<1>13. CASE close_done
    <2>1. close' \in CloseState
        BY <1>13, CloseUpdates DEF close_done
    <2> QED
        BY <1>13, <2>1 DEF close_done
<1>14. CASE UNCHANGED vars
    BY <1>14 DEF vars
<1> QED
    BY <1>1, <1>2, <1>3, <1>4, <1>5, <1>6, <1>7, <1>8, <1>9, <1>10, <1>11, <1>12, <1>13, <1>14
       DEF Next, CloseStep, Conns

(* The type invariant holds for every number of clients and connections:    *)
(* neither inbox nor accept queue outgrows its capacity.                    *)
THEOREM TypeCorrect == Spec => []TypeOK
BY InitType, NextType, PTL DEF Spec

-----------------------------------------------------------------------------
(* No PC is made, changes its ufrag or has its end undone.                  *)
PcsKept ==
    \A q \in Pcs : /\ pcs'[q].ufrag = pcs[q].ufrag /\ (Made(q)' <=> Made(q))
                   /\ pcs[q].ended => pcs'[q].ended

(* All steps but spawn_pc are of this kind.                                 *)
LEMMA PcsAreKept ==
    ASSUME TypeOK
    PROVE  /\ UNCHANGED pcs => PcsKept
           /\ pump_spawn_failed => PcsKept
           /\ \A p \in Pcs : Transport(p) \/ on_ended(p) \/ close_pc(p) => PcsKept
<1> USE DEF TypeOK, PcState, PcsKept, Made
<1>1. UNCHANGED pcs => PcsKept
    OBVIOUS
<1>2. pump_spawn_failed => PcsKept
    BY DEF pump_spawn_failed
<1>3. ASSUME NEW p \in Pcs, Transport(p) PROVE PcsKept
    <2>1. CASE on_connected(p)
        BY <2>1 DEF on_connected
    <2>2. ASSUME NEW s \in {"failed", "closed"}, pc_ends(p, s) PROVE PcsKept
        BY <2>2 DEF pc_ends, live
    <2> QED
        BY <1>3, <2>1, <2>2 DEF Transport
<1>4. ASSUME NEW p \in Pcs, on_ended(p) PROVE PcsKept
    BY <1>4 DEF on_ended
<1>5. ASSUME NEW p \in Pcs, close_pc(p) PROVE PcsKept
    BY <1>5 DEF close_pc, live
<1> QED
    BY <1>1, <1>2, <1>3, <1>4, <1>5

(* The PC that spawn_pc makes is the first that was not made, and has its   *)
(* client's ufrag; the others stay as they are.                             *)
LEMMA Spawned ==
    ASSUME TypeOK, Numbered, NEW p \in Pcs, NEW u \in Ufrags, spawn_pc(p, u)
    PROVE  /\ pcs'[p].ufrag = u /\ pcs'[p].state = "new" /\ ~Made(p)
           /\ \A q \in Pcs : q # p => pcs'[q] = pcs[q]
           /\ \A q \in Pcs : Made(q) => q < p
           /\ \A q \in 1..p-1 : Made(q)
           /\ pcs'[p].ending = pcs[p].ending
<1>1. \A q \in Pcs : q # p => pcs'[q] = pcs[q]
    BY DEF spawn_pc, TypeOK
<1>2. pcs'[p].ufrag = u /\ pcs'[p].state = "new" /\ ~Made(p) /\ pcs'[p].ending = pcs[p].ending
    BY DEF spawn_pc, TypeOK, PcState, Made
<1>3. \A q \in Pcs : Made(q) => q < p
    BY <1>2, Bounds DEF Numbered, Pcs
<1> QED
    BY <1>1, <1>2, <1>3 DEF spawn_pc, Made

(* Steps that have nothing to do with routes and PCs.                       *)
Aside == \/ \E c \in Conns : rejected(c) \/ quic_rejected(c) \/ deliver(c)
         \/ quic_recv \/ accept \/ close_notify \/ close_done \/ UNCHANGED vars

(* They leave all of them alone.                                            *)
LEMMA AsideKeeps == Aside => UNCHANGED <<by_ufrag, by_addr, pump, pcs>>
BY DEF Aside, rejected, quic_rejected, deliver, quic_recv, accept, close_notify, close_done,
       vars, entries

(* The steps of the listener, as the proofs below take them apart.          *)
LEMMA Steps ==
    ASSUME [Next]_vars
    PROVE  \/ \E a \in Addrs, u \in Ufrags \cup {NoUfrag} : pump_recv(a, u)
           \/ pump_shutdown \/ pump_register \/ pump_spawn_failed \/ pump_bind
           \/ \E p \in Pcs : Transport(p) \/ on_ended(p) \/ close_pc(p)
           \/ close_all \/ Aside
BY DEF Next, PumpStep, CloseStep, Aside, Conns

(* Before the first packet there are no PCs and no routes.                  *)
LEMMA InitRoute == Init => RouteInv
BY DEF Init, RouteInv, Numbered, Routes, Bound, PumpOwns, Made, AtSelect

(* A step that makes no PC, adds no route and leaves the pump alone, or     *)
(* sends it back to its select, keeps the routes.                           *)
LEMMA RemovalKeeps ==
    ASSUME TypeOK, RouteInv, PcsKept,
           \A u \in Ufrags : by_ufrag'[u] \in {by_ufrag[u], None},
           \A a \in Addrs : by_addr'[a] \in {by_addr[a], None},
           pump' = pump \/ pump.at' \in {"select", "ended"}
    PROVE  RouteInv'
<1>0. by_ufrag \in [Ufrags -> Pcs \cup {None}] /\ by_addr \in [Addrs -> Pcs \cup {None}]
    BY DEF TypeOK
<1>1. \A p \in Pcs : \A q \in 1..p-1 : q \in Pcs
    BY Bounds DEF Pcs
<1>2. Numbered'
    BY <1>1 DEF RouteInv, Numbered, PcsKept, Made
<1>3. Routes'
    BY <1>0 DEF RouteInv, Routes, PcsKept, Made
<1>4. Bound'
    BY <1>0 DEF RouteInv, Bound, PcsKept, Made
<1>5. PumpOwns'
    BY <1>0 DEF RouteInv, PumpOwns, PcsKept, Made
<1> QED
    BY <1>2, <1>3, <1>4, <1>5 DEF RouteInv

(* Every step keeps the routes and what the pump has looked up.             *)
LEMMA NextRoute == TypeOK /\ RouteInv /\ [Next]_vars => RouteInv'
<1> SUFFICES ASSUME TypeOK, RouteInv, [Next]_vars PROVE RouteInv'
    OBVIOUS
<1> USE DEF RouteInv, entries
<1>0. /\ by_ufrag \in [Ufrags -> Pcs \cup {None}] /\ by_addr \in [Addrs -> Pcs \cup {None}]
      /\ pump \in PumpState
    BY DEF TypeOK
<1>1. ASSUME NEW a \in Addrs, NEW u \in Ufrags \cup {NoUfrag}, pump_recv(a, u)
      PROVE  RouteInv'
    <2>0. UNCHANGED entries /\ pump.at = "select"
        BY <1>1 DEF pump_recv
    <2>1. CASE UNCHANGED <<pump, pcs>>
        BY <2>0, <2>1 DEF Numbered, Routes, Bound, PumpOwns, Made
    <2>2. ASSUME u \in Ufrags, by_addr[a] = None, by_ufrag[u] # None, UNCHANGED pcs,
                 pump' = [at |-> "bind", from |-> a, ufrag |-> u, pc |-> by_ufrag[u]]
          PROVE  RouteInv'
        BY <1>0, <2>0, <2>2 DEF Numbered, Routes, Bound, PumpOwns, Made
    <2>3. ASSUME NEW p \in Pcs, u \in Ufrags, by_addr[a] = None, by_ufrag[u] = None,
                 spawn_pc(p, u), pump' = [at |-> "spawn", from |-> a, ufrag |-> u, pc |-> p]
          PROVE  RouteInv'
        <3>1. Numbered /\ Made(p)' /\ \A q \in Pcs : Made(q)' <=> Made(q) \/ q = p
            BY <2>3, Spawned DEF Made
        <3>2. Numbered'
            BY <2>3, <3>1, Spawned, Bounds DEF Numbered, Pcs
        <3>3. Routes' /\ Bound'
            BY <1>0, <2>0, <2>3, <3>1, Spawned DEF Routes, Bound, None, Pcs
        <3>4. PumpOwns'
            BY <2>0, <2>3, <3>1, Spawned DEF PumpOwns
        <3> QED
            BY <3>2, <3>3, <3>4
    <2> QED
        BY <1>1, <2>1, <2>2, <2>3 DEF pump_recv, known_peer
<1>2. CASE pump_shutdown
    BY <1>0, <1>2 DEF pump_shutdown, PumpState, Numbered, Routes, Bound, PumpOwns, Made
<1>3. CASE pump_register
    BY <1>0, <1>3 DEF pump_register, PumpState, Numbered, Routes, Bound, PumpOwns, Made
<1>4. CASE pump_spawn_failed
    <2>1. PcsKept /\ pump.at' = "select" /\ UNCHANGED <<by_ufrag, by_addr>>
        BY <1>4, PcsAreKept DEF pump_spawn_failed, AtSelect
    <2> QED
        BY <2>1, RemovalKeeps
<1>5. CASE pump_bind
    BY <1>0, <1>5 DEF pump_bind, AtSelect, Numbered, Routes, Bound, PumpOwns, Made
<1>6. ASSUME NEW p \in Pcs, Transport(p) \/ close_pc(p) PROVE RouteInv'
    <2>1. PcsKept /\ UNCHANGED <<by_ufrag, by_addr, pump>>
        BY <1>6, PcsAreKept DEF Transport, on_connected, pc_ends, close_pc
    <2> QED
        BY <2>1, RemovalKeeps
<1>7. ASSUME NEW p \in Pcs, on_ended(p) PROVE RouteInv'
    <2>1. PcsKept /\ UNCHANGED pump
        BY <1>7, PcsAreKept DEF on_ended
    <2>2. /\ \A u \in Ufrags : by_ufrag'[u] \in {by_ufrag[u], None}
          /\ \A a \in Addrs : by_addr'[a] \in {by_addr[a], None}
        BY <1>0, <1>7 DEF on_ended, retained
    <2> QED
        BY <2>1, <2>2, RemovalKeeps
<1>8. CASE close_all
    <2>1. PcsKept /\ UNCHANGED pump
        BY <1>8, PcsAreKept DEF close_all
    <2> QED
        BY <1>8, <2>1, RemovalKeeps DEF close_all
<1>9. CASE Aside
    <2>1. PcsKept /\ UNCHANGED <<by_ufrag, by_addr, pump>>
        BY <1>9, AsideKeeps, PcsAreKept
    <2> QED
        BY <2>1, RemovalKeeps
<1> QED
    BY Steps, <1>1, <1>2, <1>3, <1>4, <1>5, <1>6, <1>7, <1>8, <1>9

(* Type invariant and routes hold in every state.                           *)
LEMMA RoutesHold == Spec => [](TypeOK /\ RouteInv)
BY InitType, NextType, InitRoute, NextRoute, PTL DEF Spec

(* Who changes the maps: the pump's two inserts, the end of a PC and close. *)
LEMMA MapSteps ==
    ASSUME [Next]_vars
    PROVE  \/ UNCHANGED <<by_ufrag, by_addr>> \/ pump_register \/ pump_bind
           \/ (\E p \in Pcs : on_ended(p)) \/ close_all
<1> USE DEF entries
<1>1. ASSUME NEW a \in Addrs, NEW u \in Ufrags \cup {NoUfrag}, pump_recv(a, u)
      PROVE  UNCHANGED <<by_ufrag, by_addr>>
    BY <1>1 DEF pump_recv
<1>2. CASE pump_shutdown \/ pump_spawn_failed
    BY <1>2 DEF pump_shutdown, pump_spawn_failed
<1>3. ASSUME NEW p \in Pcs, Transport(p) \/ close_pc(p)
      PROVE  UNCHANGED <<by_ufrag, by_addr>>
    BY <1>3 DEF Transport, on_connected, pc_ends, close_pc
<1> QED
    BY Steps, AsideKeeps, <1>1, <1>2, <1>3

(* A PC keeps its ufrag, and only its callback records its end.             *)
LEMMA PcSteps ==
    ASSUME TypeOK, RouteInv, [Next]_vars, NEW q \in Pcs, Made(q)
    PROVE  /\ pcs'[q].ufrag = pcs[q].ufrag
           /\ ~pcs[q].ended /\ pcs'[q].ended => on_ended(q)
<1> DEFINE Goal == /\ pcs'[q].ufrag = pcs[q].ufrag
                   /\ ~pcs[q].ended /\ pcs'[q].ended => on_ended(q)
<1>0. pcs \in [Pcs -> PcState]
    BY DEF TypeOK
<1>1. CASE UNCHANGED pcs
    BY <1>1
<1>2. ASSUME NEW a \in Addrs, NEW u \in Ufrags \cup {NoUfrag}, pump_recv(a, u)
      PROVE  Goal
    <2>1. ASSUME NEW p \in Pcs, u \in Ufrags, spawn_pc(p, u) PROVE pcs'[q] = pcs[q]
        BY <2>1, Spawned DEF RouteInv
    <2> QED
        BY <1>2, <2>1 DEF pump_recv
<1>3. CASE pump_spawn_failed
    BY <1>0, <1>3 DEF pump_spawn_failed, PcState
<1>4. ASSUME NEW p \in Pcs, on_connected(p) PROVE Goal
    BY <1>0, <1>4 DEF on_connected, PcState
<1>5. ASSUME NEW p \in Pcs, NEW s \in {"failed", "closed"}, pc_ends(p, s) PROVE Goal
    BY <1>0, <1>5 DEF pc_ends, PcState
<1>6. ASSUME NEW p \in Pcs, on_ended(p) PROVE Goal
    <2>1. CASE p = q
        <3>1. pcs'[q].ufrag = pcs[q].ufrag
            BY <1>0, <1>6, <2>1 DEF on_ended, PcState
        <3> QED
            BY <1>6, <2>1, <3>1
    <2>2. CASE p # q
        <3>1. pcs'[q] = pcs[q]
            BY <1>0, <1>6, <2>2 DEF on_ended
        <3> QED
            BY <3>1
    <2> QED
        BY <2>1, <2>2
<1>7. ASSUME NEW p \in Pcs, close_pc(p) PROVE Goal
    BY <1>0, <1>7 DEF close_pc, PcState
<1>8. CASE pump_shutdown \/ pump_register \/ pump_bind \/ close_all
    BY <1>1, <1>8 DEF pump_shutdown, pump_register, pump_bind, close_all
<1> QED
    BY Steps, AsideKeeps, <1>1, <1>2, <1>3, <1>4, <1>5, <1>6, <1>7, <1>8 DEF Transport

(* SPEC 5.1: whatever packets arrive, and in whatever order the callbacks,  *)
(* the pump and close run, the route of a bound address is never moved to   *)
(* another peer connection.                                                 *)
THEOREM RouteNeverMoves == Spec => BoundAddressKept
<1>1. ASSUME TypeOK, RouteInv, [Next]_vars, NEW a \in Addrs, by_addr[a] # None
      PROVE  by_addr'[a] \in {by_addr[a], None}
    <2>0. by_addr \in [Addrs -> Pcs \cup {None}]
        BY <1>1 DEF TypeOK
    <2>1. CASE pump_bind
        BY <1>1, <2>0, <2>1 DEF pump_bind, RouteInv, PumpOwns
    <2>2. ASSUME NEW p \in Pcs, on_ended(p) PROVE by_addr'[a] \in {by_addr[a], None}
        BY <2>0, <2>2 DEF on_ended, retained
    <2>3. CASE close_all
        BY <2>3 DEF close_all
    <2>4. CASE UNCHANGED by_addr
        BY <2>4
    <2> QED
        BY <1>1, <2>1, <2>2, <2>3, <2>4, MapSteps DEF pump_register
<1>2. TypeOK /\ RouteInv /\ [Next]_vars =>
         [\A a \in Addrs : by_addr[a] # None => by_addr'[a] \in {by_addr[a], None}]_vars
    BY <1>1
<1> QED
    BY <1>2, RoutesHold, PTL DEF Spec, BoundAddressKept

(* The end of a peer connection takes its routes with it: a route or a      *)
(* ufrag becomes stale only in the step in which the pump inserts it.       *)
THEOREM PumpAloneLeavesStale == Spec => StaleOnlyByPump
<1>0. ASSUME TypeOK, RouteInv, [Next]_vars
      PROVE  /\ \A a \in Addrs : ~StaleRoute(a) /\ StaleRoute(a)' => by_addr[a] # by_addr'[a]
             /\ \A u \in Ufrags :
                  ~StaleUfrag(u) /\ StaleUfrag(u)' => by_ufrag[u] # by_ufrag'[u]
    <2>0. /\ by_addr \in [Addrs -> Pcs \cup {None}] /\ by_ufrag \in [Ufrags -> Pcs \cup {None}]
          /\ \A a \in Addrs : by_addr[a] # None => by_addr[a] \in Pcs /\ Made(by_addr[a])
        BY <1>0 DEF TypeOK, RouteInv, Bound
    <2>1. ASSUME NEW a \in Addrs, ~StaleRoute(a), StaleRoute(a)', by_addr[a] = by_addr'[a]
          PROVE  FALSE
        <3> DEFINE p == by_addr[a]
                   u == pcs[p].ufrag
        <3>1. p \in Pcs /\ Made(p) /\ by_ufrag[u] = p
            BY <2>0, <2>1 DEF StaleRoute
        <3>2. by_addr'[a] = p /\ p # None /\ pcs'[p].ufrag = u /\ by_ufrag'[u] # p
            BY <1>0, <2>1, <3>1, PcSteps DEF StaleRoute
        <3>3. u \in Ufrags
            BY <1>0, <3>2 DEF RouteInv, Bound
        <3>4. CASE pump_register
            BY <1>0, <2>0, <3>1, <3>2, <3>4 DEF pump_register, RouteInv, PumpOwns
        <3>5. ASSUME NEW q \in Pcs, on_ended(q) PROVE FALSE
            BY <2>0, <3>1, <3>2, <3>5 DEF on_ended, retained
        <3>6. CASE pump_bind \/ UNCHANGED <<by_ufrag, by_addr>>
            BY <3>1, <3>2, <3>6 DEF pump_bind
        <3>7. CASE close_all
            BY <3>2, <3>7 DEF close_all
        <3> QED
            BY <1>0, <3>4, <3>5, <3>6, <3>7, MapSteps
    <2>2. ASSUME NEW u \in Ufrags, ~StaleUfrag(u), StaleUfrag(u)', by_ufrag[u] = by_ufrag'[u]
          PROVE  FALSE
        <3>1. /\ by_ufrag[u] \in Pcs /\ Made(by_ufrag[u]) /\ pcs[by_ufrag[u]].ufrag = u
              /\ by_ufrag[u] # None
            BY <1>0, <2>0, <2>2 DEF StaleUfrag, RouteInv, Routes
        <3>2. on_ended(by_ufrag[u])
            BY <1>0, <2>2, <3>1, PcSteps DEF StaleUfrag
        <3> QED
            BY <2>0, <2>2, <3>1, <3>2 DEF on_ended
    <2> QED
        BY <2>1, <2>2
<1>1. TypeOK /\ RouteInv /\ [Next]_vars =>
        [/\ \A a \in Addrs : ~StaleRoute(a) /\ StaleRoute(a)' => by_addr[a] # by_addr'[a]
         /\ \A u \in Ufrags :
              ~StaleUfrag(u) /\ StaleUfrag(u)' => by_ufrag[u] # by_ufrag'[u]]_vars
    BY <1>0
<1> QED
    BY <1>1, RoutesHold, PTL DEF Spec, StaleOnlyByPump

-----------------------------------------------------------------------------
(* A PC that is due to be told of its end has ended.                        *)
LEMMA NextEnding == TypeOK /\ RouteInv /\ EndingEnded /\ [Next]_vars => EndingEnded'
<1> SUFFICES ASSUME TypeOK, RouteInv, EndingEnded, [Next]_vars, NEW q \in Pcs, pcs'[q].ending
             PROVE  pcs'[q].state \in {"failed", "closed"}
    BY DEF EndingEnded
<1>0. pcs \in [Pcs -> PcState] /\ (pcs[q].ending => pcs[q].state \in {"failed", "closed"})
    BY DEF TypeOK, EndingEnded
<1>1. CASE UNCHANGED pcs
    BY <1>0, <1>1
<1>2. ASSUME NEW a \in Addrs, NEW u \in Ufrags \cup {NoUfrag}, pump_recv(a, u)
      PROVE  pcs'[q].state \in {"failed", "closed"}
    <2>1. ASSUME NEW p \in Pcs, u \in Ufrags, spawn_pc(p, u) PROVE pcs'[q] = pcs[q]
        <3>1. pcs[p].state = "none" /\ pcs'[p].ending = pcs[p].ending
            BY <2>1, Spawned DEF RouteInv, Made
        <3>2. ~pcs[p].ending
            BY <3>1 DEF EndingEnded
        <3> QED
            BY <2>1, <3>1, <3>2, Spawned DEF RouteInv
    <2> QED
        BY <1>0, <1>2, <2>1 DEF pump_recv
<1>3. CASE pump_spawn_failed
    BY <1>0, <1>3 DEF pump_spawn_failed, PcState
<1>4. ASSUME NEW p \in Pcs, on_connected(p) PROVE pcs'[q].state \in {"failed", "closed"}
    BY <1>0, <1>4 DEF on_connected, PcState
<1>5. ASSUME NEW p \in Pcs, NEW s \in {"failed", "closed"}, pc_ends(p, s)
      PROVE  pcs'[q].state \in {"failed", "closed"}
    BY <1>0, <1>5 DEF pc_ends, PcState
<1>6. ASSUME NEW p \in Pcs, on_ended(p) PROVE pcs'[q].state \in {"failed", "closed"}
    BY <1>0, <1>6 DEF on_ended, PcState
<1>7. ASSUME NEW p \in Pcs, close_pc(p) PROVE pcs'[q].state \in {"failed", "closed"}
    BY <1>0, <1>7 DEF close_pc, PcState
<1>8. CASE pump_shutdown \/ pump_register \/ pump_bind \/ close_all
    BY <1>1, <1>8 DEF pump_shutdown, pump_register, pump_bind, close_all
<1> QED
    BY Steps, AsideKeeps, <1>1, <1>2, <1>3, <1>4, <1>5, <1>6, <1>7, <1>8 DEF Transport

(* Outside its loop close has no PC left to close.                          *)
LEMMA NextClosing == TypeOK /\ ClosingOnly /\ [Next]_vars => ClosingOnly'
<1> SUFFICES ASSUME TypeOK, ClosingOnly, [Next]_vars PROVE ClosingOnly'
    OBVIOUS
<1> USE DEF ClosingOnly, closing
<1>0. close \in CloseState
    BY DEF TypeOK
<1>1. ASSUME NEW a \in Addrs, NEW u \in Ufrags \cup {NoUfrag}, pump_recv(a, u)
      PROVE  ClosingOnly'
    BY <1>1 DEF pump_recv
<1>2. CASE pump_shutdown \/ PumpStep
    BY <1>2 DEF pump_shutdown, PumpStep, pump_register, pump_spawn_failed, pump_bind
<1>3. ASSUME NEW p \in Pcs, Transport(p) \/ on_ended(p) \/ rejected(p) PROVE ClosingOnly'
    BY <1>3 DEF Transport, on_connected, pc_ends, on_ended, rejected
<1>4. ASSUME NEW c \in Conns, quic_rejected(c) \/ deliver(c) PROVE ClosingOnly'
    BY <1>4 DEF quic_rejected, deliver
<1>5. CASE quic_recv \/ accept \/ UNCHANGED vars
    BY <1>5 DEF quic_recv, accept, vars
<1>6. CASE close_notify
    BY <1>0, <1>6 DEF close_notify, CloseState
<1>7. CASE close_all \/ close_done
    BY <1>0, <1>7 DEF close_all, close_done, CloseState
<1>8. ASSUME NEW p \in Pcs, close_pc(p) PROVE ClosingOnly'
    BY <1>0, <1>8 DEF close_pc, CloseState
<1> QED
    BY <1>1, <1>2, <1>3, <1>4, <1>5, <1>6, <1>7, <1>8 DEF Next, CloseStep, Conns

(* The pump registers PCs in the order it makes them.                       *)
LEMMA NextNewest == TypeOK /\ RouteInv /\ Newest /\ [Next]_vars => Newest'
<1> SUFFICES ASSUME TypeOK, RouteInv, Newest, [Next]_vars PROVE Newest'
    OBVIOUS
<1>0. /\ by_ufrag \in [Ufrags -> Pcs \cup {None}] /\ pump \in PumpState
      /\ \A q \in Pcs : q \in Int
    BY Bounds DEF TypeOK, Pcs
<1>1. ASSUME PcsKept, \A u \in Ufrags : by_ufrag'[u] \in {by_ufrag[u], None},
             pump' = pump \/ pump.at' \in {"select", "bind", "ended"}
      PROVE  Newest'
    BY <1>0, <1>1 DEF Newest, PcsKept, Made
<1>2. ASSUME NEW a \in Addrs, NEW u \in Ufrags \cup {NoUfrag}, pump_recv(a, u)
      PROVE  Newest'
    <2>0. UNCHANGED by_ufrag
        BY <1>2 DEF pump_recv, entries
    <2>1. ASSUME NEW p \in Pcs, u \in Ufrags, by_ufrag[u] = None, spawn_pc(p, u),
                 pump' = [at |-> "spawn", from |-> a, ufrag |-> u, pc |-> p]
          PROVE  Newest'
        <3>1. /\ pcs'[p].ufrag = u /\ \A q \in Pcs : q # p => pcs'[q] = pcs[q]
              /\ \A q \in Pcs : Made(q) => q < p
            BY <2>1, Spawned DEF RouteInv
        <3> QED
            BY <1>0, <2>0, <2>1, <3>1 DEF Newest, Made
    <2>2. CASE UNCHANGED pcs /\ (pump' = pump \/ pump.at' = "bind")
        BY <1>1, <2>0, <2>2, PcsAreKept
    <2> QED
        BY <1>2, <2>1, <2>2 DEF pump_recv
<1>3. CASE pump_register
    BY <1>0, <1>3 DEF pump_register, PumpState, RouteInv, PumpOwns, Newest, Made
<1>4. CASE pump_shutdown \/ pump_bind
    <2>1. PcsKept /\ UNCHANGED by_ufrag /\ pump.at' \in {"select", "ended"}
        BY <1>0, <1>4, PcsAreKept DEF pump_shutdown, pump_bind, AtSelect, PumpState, entries
    <2> QED
        BY <1>1, <2>1
<1>5. CASE pump_spawn_failed
    <2>1. PcsKept /\ UNCHANGED by_ufrag /\ pump.at' = "select"
        BY <1>5, PcsAreKept DEF pump_spawn_failed, AtSelect, entries
    <2> QED
        BY <1>1, <2>1
<1>6. ASSUME NEW p \in Pcs, Transport(p) \/ close_pc(p) PROVE Newest'
    <2>1. PcsKept /\ UNCHANGED <<by_ufrag, pump>>
        BY <1>6, PcsAreKept DEF Transport, on_connected, pc_ends, close_pc, entries
    <2> QED
        BY <1>1, <2>1
<1>7. ASSUME NEW p \in Pcs, on_ended(p) PROVE Newest'
    <2>1. PcsKept /\ UNCHANGED pump /\ \A u \in Ufrags : by_ufrag'[u] \in {by_ufrag[u], None}
        BY <1>0, <1>7, PcsAreKept DEF on_ended
    <2> QED
        BY <1>1, <2>1
<1>8. CASE close_all
    <2>1. PcsKept /\ UNCHANGED pump /\ \A u \in Ufrags : by_ufrag'[u] \in {by_ufrag[u], None}
        BY <1>8, PcsAreKept DEF close_all
    <2> QED
        BY <1>1, <2>1
<1>9. CASE Aside
    <2>1. PcsKept /\ UNCHANGED <<by_ufrag, pump>>
        BY <1>9, AsideKeeps, PcsAreKept
    <2> QED
        BY <1>1, <2>1
<1> QED
    BY Steps, <1>2, <1>3, <1>4, <1>5, <1>6, <1>7, <1>8, <1>9

(* An open PC that spawn_pc returned is registered or about to be closed,   *)
(* unless a namesake that is older has ended.                               *)
Open(p) == pcs[p].state \in {"new", "connected"}
Registered(p) == \E u \in Ufrags : by_ufrag[u] = p
Namesake(p) == \E q \in 1..p-1 : pcs[q].ufrag = pcs[p].ufrag /\ pcs[q].ended
Reached(p) ==
    (pump.at = "spawn" /\ pump.pc = p) \/ p \in close.pcs \/ Registered(p) \/ Namesake(p)

(* A namesake's end stays recorded.                                         *)
LEMMA NamesakeKept ==
    ASSUME PcsKept, NEW p \in Pcs, Namesake(p) PROVE Namesake(p)'
<1>1. \A q \in 1..p-1 : q \in Pcs
    BY Bounds DEF Pcs
<1> QED
    BY <1>1 DEF Namesake, PcsKept

(* Every step leaves every open PC where close reaches it, or lost to a     *)
(* namesake.                                                                *)
LEMMA NextLost ==
    TypeOK /\ RouteInv /\ LostInv /\ [Next]_vars => \A p \in Pcs : Open(p)' => Reached(p)'
<1> SUFFICES ASSUME TypeOK, RouteInv, LostInv, [Next]_vars, NEW p \in Pcs, Open(p)'
             PROVE  Reached(p)'
    OBVIOUS
<1>0. /\ by_ufrag \in [Ufrags -> Pcs \cup {None}] /\ pump \in PumpState
      /\ close \in CloseState /\ pcs \in [Pcs -> PcState] /\ p # None
    BY Bounds DEF TypeOK, Pcs, None
<1>1. Open(p) => Reached(p)
    BY DEF LostInv, LostOnlyToNamesake, Open, Reached, Registered, Namesake
<1>2. ASSUME Open(p), PcsKept, UNCHANGED <<by_ufrag, pump>>, p \in close.pcs => p \in close.pcs'
      PROVE  Reached(p)'
    BY <1>1, <1>2, NamesakeKept DEF Reached, Registered
<1>3. ASSUME NEW a \in Addrs, NEW u \in Ufrags \cup {NoUfrag}, pump_recv(a, u)
      PROVE  Reached(p)'
    <2>0. UNCHANGED <<by_ufrag, close>> /\ pump.at = "select"
        BY <1>3 DEF pump_recv, entries, closing
    <2>1. CASE UNCHANGED pcs
        <3>1. PcsKept /\ Open(p)
            BY <2>1, PcsAreKept DEF Open
        <3> QED
            BY <1>1, <2>0, <3>1, NamesakeKept DEF Reached, Registered
    <2>2. ASSUME NEW q \in Pcs, u \in Ufrags, spawn_pc(q, u), pump.at' = "spawn", pump.pc' = q
          PROVE  Reached(p)'
        <3>1. CASE p = q
            BY <2>2, <3>1 DEF Reached
        <3>2. CASE p # q
            <4>1. ~Made(q) /\ \A r \in Pcs : r # q => pcs'[r] = pcs[r]
                BY <2>2, Spawned DEF RouteInv
            <4>2. Open(p)
                BY <3>2, <4>1 DEF Open
            <4>3. Made(p) /\ \A r \in 1..p-1 : r \in Pcs /\ r # q
                BY <4>1, <4>2, Bounds DEF Open, Made, RouteInv, Numbered, Pcs
            <4> QED
                BY <1>1, <2>0, <3>2, <4>1, <4>2, <4>3 DEF Reached, Registered, Namesake
        <3> QED
            BY <3>1, <3>2
    <2> QED
        BY <1>3, <2>1, <2>2 DEF pump_recv
<1>4. CASE pump_register
    <2>1. PcsKept /\ Open(p) /\ UNCHANGED close
        BY <1>4, PcsAreKept DEF pump_register, Open, closing
    <2>2. /\ pump.ufrag \in Ufrags /\ by_ufrag[pump.ufrag] = None
          /\ by_ufrag' = [by_ufrag EXCEPT ![pump.ufrag] = pump.pc]
        BY <1>4 DEF pump_register, RouteInv, PumpOwns
    <2>3. Registered(p) \/ pump.pc = p => Registered(p)'
        BY <1>0, <2>2 DEF Registered
    <2> QED
        BY <1>1, <2>1, <2>3, NamesakeKept DEF Reached
<1>5. CASE pump_spawn_failed
    <2>1. PcsKept /\ UNCHANGED <<by_ufrag, close>>
        BY <1>5, PcsAreKept DEF pump_spawn_failed, entries, closing
    <2>2. Open(p) /\ pump.pc # p
        BY <1>0, <1>5 DEF pump_spawn_failed, Open, PcState
    <2> QED
        BY <1>1, <2>1, <2>2, NamesakeKept DEF Reached, Registered
<1>6. CASE pump_shutdown \/ pump_bind
    <2>1. PcsKept /\ Open(p) /\ UNCHANGED <<by_ufrag, close>> /\ pump.at # "spawn"
        BY <1>6, PcsAreKept DEF pump_shutdown, pump_bind, Open, entries, closing
    <2> QED
        BY <1>1, <2>1, NamesakeKept DEF Reached, Registered
<1>7. ASSUME NEW q \in Pcs, Transport(q) PROVE Reached(p)'
    <2>1. PcsKept /\ UNCHANGED <<by_ufrag, pump, close>>
        BY <1>7, PcsAreKept DEF Transport, on_connected, pc_ends, entries, closing
    <2>2. on_connected(q) => Open(p)
        BY <1>0 DEF on_connected, Open, PcState
    <2>3. ASSUME NEW s \in {"failed", "closed"}, pc_ends(q, s) PROVE Open(p)
        BY <1>0, <2>3 DEF pc_ends, Open, PcState
    <2> QED
        BY <1>2, <1>7, <2>1, <2>2, <2>3 DEF Transport
<1>8. ASSUME NEW q \in Pcs, on_ended(q) PROVE Reached(p)'
    <2>1. PcsKept /\ UNCHANGED <<pump, close>>
        BY <1>8, PcsAreKept DEF on_ended, closing
    <2>2. Open(p) /\ pcs'[q].ended
        BY <1>0, <1>8 DEF on_ended, Open, PcState
    <2>3. p # q
        BY <1>8, <2>2 DEF on_ended, LostInv, EndingEnded, Open
    <2>4. ASSUME Registered(p) PROVE Registered(p)' \/ Namesake(p)'
        <3>1. PICK u \in Ufrags : by_ufrag[u] = p
            BY <2>4 DEF Registered
        <3>2. CASE pcs[q].ufrag # u
            BY <1>0, <1>8, <3>1, <3>2 DEF on_ended, Registered
        <3>3. CASE pcs[q].ufrag = u
            <4>1. Made(q) /\ pcs[p].ufrag = u
                BY <1>0, <1>8, <3>1 DEF on_ended, LostInv, EndingEnded, Made, RouteInv, Routes
            <4>2. q \leq p
                BY <1>0, <3>1, <3>3, <4>1 DEF LostInv, Newest
            <4>3. q \in 1..p-1
                BY <2>3, <4>2, Bounds DEF Pcs
            <4> QED
                BY <2>1, <2>2, <3>3, <4>1, <4>3 DEF Namesake, PcsKept
        <3> QED
            BY <3>2, <3>3
    <2> QED
        BY <1>1, <2>1, <2>2, <2>4, NamesakeKept DEF Reached
<1>9. CASE close_all
    <2>1. PcsKept /\ Open(p) /\ UNCHANGED pump /\ close.pcs = {}
        BY <1>9, PcsAreKept DEF close_all, Open, LostInv, ClosingOnly
    <2>2. close.pcs' = registered
        BY <1>0, <1>9 DEF close_all, CloseState
    <2>3. Registered(p) => p \in registered
        BY <1>0 DEF Registered, registered
    <2> QED
        BY <1>1, <2>1, <2>2, <2>3, NamesakeKept DEF Reached
<1>10. ASSUME NEW q \in Pcs, close_pc(q) PROVE Reached(p)'
    <2>1. PcsKept /\ UNCHANGED <<by_ufrag, pump>>
        BY <1>10, PcsAreKept DEF close_pc, entries
    <2>2. Open(p) /\ p # q
        BY <1>0, <1>10 DEF close_pc, Open, live, PcState
    <2>3. p \in close.pcs => p \in close.pcs'
        BY <1>0, <1>10, <2>2 DEF close_pc, CloseState
    <2> QED
        BY <1>2, <2>1, <2>2, <2>3
<1>11. CASE Aside
    <2>1. PcsKept /\ Open(p) /\ UNCHANGED <<by_ufrag, pump>>
        BY <1>11, AsideKeeps, PcsAreKept DEF Open
    <2>2. close.pcs' = close.pcs
        BY <1>0, <1>11 DEF Aside, rejected, quic_rejected, deliver, quic_recv, accept, close_notify,
                           close_done, vars, closing, CloseState
    <2> QED
        BY <1>2, <2>1, <2>2
<1> QED
    BY Steps, <1>3, <1>4, <1>5, <1>6, <1>7, <1>8, <1>9, <1>10, <1>11

(* Listener::close reaches every open PC that spawn_pc returned, for any    *)
(* number of clients and PCs, except one whose registration fell to the     *)
(* end of an older PC of its ufrag.                                         *)
THEOREM CloseMissesOnlyNamesakes == Spec => []LostOnlyToNamesake
<1>1. Init => LostInv
    BY DEF Init, LostInv, Newest, EndingEnded, ClosingOnly, LostOnlyToNamesake, Made, AtSelect
<1>2. (\A p \in Pcs : Open(p)' => Reached(p)') <=> LostOnlyToNamesake'
    BY DEF LostOnlyToNamesake, Open, Reached, Registered, Namesake
<1>3. TypeOK /\ RouteInv /\ LostInv /\ [Next]_vars => LostInv'
    BY <1>2, NextEnding, NextClosing, NextNewest, NextLost DEF LostInv
<1>4. LostInv => LostOnlyToNamesake
    BY DEF LostInv
<1> QED
    BY <1>1, <1>3, <1>4, RoutesHold, PTL DEF Spec

-----------------------------------------------------------------------------
(* The accept queue.                                                        *)

(* Where a connection is in the accept queue.                               *)
Places(q, c) == {i \in DOMAIN q : q[i] = c}

(* They are finitely many; none in an empty queue.                          *)
LEMMA PlacesFinite ==
    ASSUME NEW q \in Seq(Conns), NEW c
    PROVE  IsFiniteSet(Places(q, c)) /\ Cardinality(Places(q, c)) \in Nat
<1>1. IsFiniteSet(1..Len(q))
    BY FS_Interval
<1>2. Places(q, c) \in SUBSET (1..Len(q))
    BY DEF Places
<1> QED
    BY <1>1, <1>2, FS_Subset, FS_CardinalityType

(* A connection that joins the queue takes one more place.                  *)
LEMMA PlacesAppend ==
    ASSUME NEW q \in Seq(Conns), NEW d \in Conns, NEW c
    PROVE  Cardinality(Places(Append(q, d), c))
             = Cardinality(Places(q, c)) + (IF c = d THEN 1 ELSE 0)
<1>1. Places(Append(q, d), c) = IF c = d THEN Places(q, c) \cup {Len(q) + 1} ELSE Places(q, c)
    BY DEF Places
<1>2. Len(q) + 1 \notin Places(q, c)
    BY DEF Places
<1>3. Cardinality(Places(q, c)) \in Nat
    BY PlacesFinite
<1>4. IsFiniteSet(Places(q, c))
    BY PlacesFinite
<1>5. CASE c = d
    <2>1. Cardinality(Places(q, c) \cup {Len(q) + 1}) = Cardinality(Places(q, c)) + 1
        BY <1>2, <1>4, FS_AddElement
    <2> QED
        BY <1>1, <1>5, <2>1
<1>6. CASE c # d
    BY <1>1, <1>3, <1>6
<1> QED
    BY <1>5, <1>6

(* The one at the head gives up its place, the others move up.              *)
LEMMA PlacesTail ==
    ASSUME NEW q \in Seq(Conns), q # <<>>, NEW c
    PROVE  Cardinality(Places(q, c))
             = Cardinality(Places(Tail(q), c)) + (IF c = Head(q) THEN 1 ELSE 0)
<1> DEFINE E == Places(q, c) \ {1}
           g == [i \in E |-> i - 1]
<1>1. /\ Tail(q) \in Seq(Conns) /\ Len(Tail(q)) = Len(q) - 1 /\ Len(q) \in Nat \ {0}
      /\ \A i \in 1..Len(q) - 1 : Tail(q)[i] = q[i + 1]
    OBVIOUS
<1>2. \A i \in E : i \in 2..Len(q) /\ q[i] = c
    BY DEF Places
<1>3. \A i \in E : g[i] \in Places(Tail(q), c)
    BY <1>1, <1>2 DEF Places
<1>4. \A i, j \in E : g[i] = g[j] => i = j
    BY <1>2
<1>5. ASSUME NEW j \in Places(Tail(q), c) PROVE \E i \in E : g[i] = j
    <2>1. j \in 1..Len(q) - 1 /\ q[j + 1] = c
        BY <1>1 DEF Places
    <2>2. j + 1 \in E /\ g[j + 1] = j
        BY <1>1, <2>1 DEF Places
    <2> QED
        BY <2>2
<1>6. ExistsBijection(E, Places(Tail(q), c))
    <2> HIDE DEF E
    <2>1. g \in Bijection(E, Places(Tail(q), c))
        BY <1>3, <1>4, <1>5, Fun_IsBij
    <2> QED
        BY <2>1 DEF ExistsBijection
<1>7. IsFiniteSet(Places(q, c))
    BY PlacesFinite
<1>8. /\ IsFiniteSet(E)
      /\ Cardinality(E) = IF 1 \in Places(q, c) THEN Cardinality(Places(q, c)) - 1
                                                ELSE Cardinality(Places(q, c))
    BY <1>7, FS_RemoveElement
<1>9. Cardinality(Places(Tail(q), c)) = Cardinality(E)
    <2> HIDE DEF E
    <2> QED
        BY <1>6, <1>8, FS_Bijection
<1>10. 1 \in Places(q, c) <=> c = Head(q)
    BY <1>1 DEF Places
<1>11. Cardinality(Places(q, c)) \in Nat
    BY PlacesFinite
<1> HIDE DEF E
<1> QED
    BY <1>8, <1>9, <1>10, <1>11

(* SurfacedOnce, of one connection.                                         *)
Surfaced(c) ==
    accepted[c] + Cardinality(Places(accept_q, c)) = IF conn[c] = "delivered" THEN 1 ELSE 0

(* deliver takes a connection that waits, so one that is not yet delivered, *)
(* and accept only moves it on; every other step leaves the delivered ones  *)
(* as they are.                                                             *)
LEMMA NextSurfaced ==
    ASSUME TypeOK, [Next]_vars, NEW c \in Conns, Surfaced(c)
    PROVE  Surfaced(c)'
<1>1. /\ accept_q \in Seq(Conns) /\ accepted \in [Conns -> Nat]
      /\ conn \in [Conns -> {"none", "waiting", "delivered", "gone"}]
    BY DEF TypeOK
<1>2. Cardinality(Places(accept_q, c)) \in Nat /\ accepted[c] \in Nat
    BY <1>1, PlacesFinite
<1>3. ASSUME NEW d \in Conns, deliver(d)
      PROVE  Surfaced(c)'
    <2>1. /\ conn[d] = "waiting" /\ conn' = [conn EXCEPT ![d] = "delivered"]
          /\ accept_q' = Append(accept_q, d) /\ accepted' = accepted
        BY <1>3 DEF deliver
    <2>2. Cardinality(Places(accept_q', c))
            = Cardinality(Places(accept_q, c)) + (IF c = d THEN 1 ELSE 0)
        BY <1>1, <2>1, PlacesAppend
    <2>3. conn'[c] = IF c = d THEN "delivered" ELSE conn[c]
        BY <1>1, <2>1
    <2> QED
        BY <1>2, <2>1, <2>2, <2>3 DEF Surfaced
<1>4. ASSUME accept
      PROVE  Surfaced(c)'
    <2>1. /\ accept_q # <<>> /\ accept_q' = Tail(accept_q) /\ conn' = conn
          /\ accepted' = [accepted EXCEPT ![Head(accept_q)] = @ + 1]
        BY <1>4 DEF accept, arrivals
    <2>2. Cardinality(Places(accept_q, c))
            = Cardinality(Places(accept_q', c)) + (IF c = Head(accept_q) THEN 1 ELSE 0)
        BY <1>1, <2>1, PlacesTail
    <2>3. accepted'[c] = accepted[c] + (IF c = Head(accept_q) THEN 1 ELSE 0)
        BY <1>1, <2>1
    <2>4. Cardinality(Places(accept_q', c)) \in Nat
        <3>1. Tail(accept_q) \in Seq(Conns)
            BY <1>1, <2>1
        <3> QED
            BY <2>1, <3>1, PlacesFinite
    <2> QED
        BY <1>2, <2>1, <2>2, <2>3, <2>4 DEF Surfaced
<1>5. ASSUME accept_q' = accept_q, accepted' = accepted,
             conn'[c] = "delivered" <=> conn[c] = "delivered"
      PROVE  Surfaced(c)'
    BY <1>5 DEF Surfaced
<1>6. ASSUME NEW p \in Pcs, on_connected(p)
      PROVE  Surfaced(c)'
    <2>1. /\ accept_q' = accept_q /\ accepted' = accepted
          /\ conn' = [conn EXCEPT ![p] = IF take(p) THEN "waiting" ELSE @]
        BY <1>6 DEF on_connected
    <2>2. conn'[c] = "delivered" <=> conn[c] = "delivered"
        BY <1>1, <2>1 DEF take
    <2> QED
        BY <1>5, <2>1, <2>2
<1>7. ASSUME NEW d \in Conns, rejected(d) \/ quic_rejected(d)
      PROVE  Surfaced(c)'
    <2>1. /\ accept_q' = accept_q /\ accepted' = accepted
          /\ conn[d] = "waiting" /\ conn' = [conn EXCEPT ![d] = "gone"]
        BY <1>7 DEF rejected, quic_rejected
    <2>2. conn'[c] = "delivered" <=> conn[c] = "delivered"
        BY <1>1, <2>1
    <2> QED
        BY <1>5, <2>1, <2>2
<1>8. CASE quic_recv
    <2>1. accept_q' = accept_q /\ accepted' = accepted
        BY <1>8 DEF quic_recv
    <2>2. \/ conn' = conn
          \/ \E d \in Quics : conn[d] = "none" /\ conn' = [conn EXCEPT ![d] = "waiting"]
        BY <1>8 DEF quic_recv, quic_incoming
    <2>3. conn'[c] = "delivered" <=> conn[c] = "delivered"
        BY <1>1, <2>2
    <2> QED
        BY <1>5, <2>1, <2>3
<1>9. ASSUME UNCHANGED arrivals
      PROVE  Surfaced(c)'
    BY <1>5, <1>9 DEF arrivals
<1>10. ASSUME NEW a \in Addrs, NEW u \in Ufrags \cup {NoUfrag}, pump_recv(a, u)
       PROVE  Surfaced(c)'
    BY <1>9, <1>10 DEF pump_recv
<1>11. CASE pump_shutdown \/ pump_register \/ pump_spawn_failed \/ pump_bind
    BY <1>9, <1>11 DEF pump_shutdown, pump_register, pump_spawn_failed, pump_bind
<1>12. ASSUME NEW p \in Pcs, Transport(p) \/ on_ended(p) \/ close_pc(p)
       PROVE  Surfaced(c)'
    <2>1. ~on_connected(p) => UNCHANGED arrivals
        BY <1>12 DEF Transport, pc_ends, on_ended, close_pc
    <2> QED
        BY <1>6, <1>9, <2>1
<1>13. CASE close_all \/ close_notify \/ close_done \/ UNCHANGED vars
    BY <1>9, <1>13 DEF close_all, close_notify, close_done, vars
<1> QED
    BY Steps, <1>3, <1>4, <1>7, <1>8, <1>10, <1>11, <1>12, <1>13 DEF Aside

(* SurfacedOnce: accept returns each connection that was handed over, and   *)
(* returns it once, whatever its PC does and however often it connects.     *)
THEOREM AcceptedOnce == Spec => []SurfacedOnce
<1> DEFINE All == \A c \in Conns : Surfaced(c)
<1>1. All => SurfacedOnce
    BY DEF SurfacedOnce, Surfaced, Places
<1>2. Init => All
    <2>1. ASSUME Init, NEW c \in Conns PROVE Surfaced(c)
        <3>1. accept_q = <<>> /\ accepted[c] = 0 /\ conn[c] = "none"
            BY <2>1 DEF Init
        <3>2. Places(accept_q, c) = {}
            BY <3>1 DEF Places
        <3>3. Cardinality(Places(accept_q, c)) = 0
            BY <3>2, FS_EmptySet
        <3> QED
            BY <3>1, <3>3 DEF Surfaced
    <2> QED
        BY <2>1
<1>3. TypeOK /\ All /\ [Next]_vars => All'
    BY NextSurfaced
<1> QED
    BY <1>1, <1>2, <1>3, TypeCorrect, PTL DEF Spec

=============================================================================
