--------------------------- MODULE WriteHalfProofs ---------------------------
(***************************************************************************)
(* Proofs about WriteHalf, for any longest write, any credit, any capacity  *)
(* of the DATA queue and any number of dropped calls: the type invariant,   *)
(* the ledger of reserved credit, and that FIN is the truth.                *)
(*                                                                          *)
(* The inductive invariant is a ledger with three accounts.  Reserved       *)
(* credit is in the pending grant, the queue or the writer task's hand      *)
(* (HeldInv); what was accepted is on the wire, in the queue or in hand     *)
(* (BytesInv); and sent and wire differ by the frame whose send has yet to  *)
(* return, with what is sent or reserved never above the limit (CreditInv). *)
(* The rest says when a grant is held (GrantInv), that a write fits in the  *)
(* credit that is left (RoomInv), which calls can follow a terminal         *)
(* (TermInv), and that FIN is in one place, last in its queue, and on the   *)
(* wire only when nothing accepted is behind it (FinInv).                   *)
(*                                                                          *)
(* The ledgers are pairs of inequalities, equalities only where the writer  *)
(* task has not ended and nothing was dropped.  The queue's bytes are       *)
(* counted by Cardinality, so Append and Tail change the sum by one frame   *)
(* (SumAppend, SumTail); then there is one lemma for each action.           *)
(***************************************************************************)
EXTENDS WriteHalf, FiniteSetTheorems, SequenceTheorems, TLAPS

-----------------------------------------------------------------------------
(* Queues of frames, and their bytes counted one by one, frame by frame.    *)
Frames == Seq(Fin..MaxLen)
Cells(q) == {b \in (DOMAIN q) \X (1..MaxLen) : b[2] <= q[b[1]]}
Column(i, n) == {i} \X (1..n)

(* A frame of n bytes has n cells.                                          *)
LEMMA ColumnSize ==
    ASSUME NEW i, NEW n \in Nat
    PROVE  IsFiniteSet(Column(i, n)) /\ Cardinality(Column(i, n)) = n
<1>1. IsFiniteSet({i}) /\ Cardinality({i}) = 1
  BY FS_Singleton
<1>2. IsFiniteSet(1..n) /\ Cardinality(1..n) = n
  <2>1. /\ IsFiniteSet(1..n)
        /\ Cardinality(1..n) = IF 1 > n THEN 0 ELSE n - 1 + 1
    <3>1. 1 \in Int /\ n \in Int
      OBVIOUS
    <3> QED BY <3>1, FS_Interval
  <2> QED BY <2>1
<1> DEFINE S == {i}
           T == 1..n
<1>3. /\ IsFiniteSet(S \X T)
      /\ Cardinality(S \X T) = Cardinality(S) * Cardinality(T)
  <2> HIDE DEF S, T
  <2>1. IsFiniteSet(S) /\ IsFiniteSet(T)
    BY <1>1, <1>2 DEF S, T
  <2> QED BY ONLY <2>1, FS_Product
<1>4. Cardinality(S) * Cardinality(T) = n
  BY <1>1, <1>2
<1> QED BY <1>3, <1>4 DEF Column

(* The sum of a queue is the number of its cells, a natural number.         *)
LEMMA SumType ==
    ASSUME NEW q \in Frames
    PROVE  IsFiniteSet(Cells(q)) /\ Sum(q) = Cardinality(Cells(q)) /\ Sum(q) \in Nat
<1>1. IsFiniteSet(DOMAIN q)
  <2>1. DOMAIN q = 1..Len(q) /\ Len(q) \in Nat
    BY DEF Frames
  <2> QED BY <2>1, FS_Interval
<1>2. IsFiniteSet(1..MaxLen)
  BY FS_Interval, WriteHalfAssumption
<1>3. IsFiniteSet((DOMAIN q) \X (1..MaxLen))
  BY <1>1, <1>2, FS_Product
<1>4. Cells(q) \in SUBSET ((DOMAIN q) \X (1..MaxLen))
  BY DEF Cells
<1>5. IsFiniteSet(Cells(q))
  BY <1>3, <1>4, FS_Subset
<1> QED BY <1>5, FS_CardinalityType DEF Sum, Cells

(* An empty queue holds no byte.                                            *)
LEMMA SumEmpty == Sum(<<>>) = 0
<1>1. Cells(<<>>) = {}
  BY DEF Cells
<1> QED BY <1>1, FS_EmptySet DEF Sum, Cells

(* A frame that is appended adds its bytes to the sum.                      *)
LEMMA SumAppend ==
    ASSUME NEW q \in Frames, NEW n \in Fin..MaxLen
    PROVE  Sum(Append(q, n)) = Sum(q) + n
<1> DEFINE r == Append(q, n)
<1>1. /\ r \in Frames /\ Len(q) \in Nat /\ DOMAIN q = 1..Len(q) /\ DOMAIN r = 1..(Len(q) + 1)
      /\ r[Len(q) + 1] = n /\ \A i \in DOMAIN q : r[i] = q[i] /\ q[i] \in Int
      /\ n \in Nat /\ n <= MaxLen /\ MaxLen \in Nat
  BY WriteHalfAssumption DEF Frames, Fin
<1> HIDE DEF r
<1>2. Cells(r) = Cells(q) \cup Column(Len(q) + 1, n)
  <2>1. ASSUME NEW b \in Cells(r) PROVE b \in Cells(q) \cup Column(Len(q) + 1, n)
    <3>1. CASE b[1] \in DOMAIN q
      BY <1>1, <2>1, <3>1 DEF Cells
    <3>2. CASE b[1] = Len(q) + 1
      BY <1>1, <2>1, <3>2 DEF Cells, Column
    <3>3. b[1] \in 1..(Len(q) + 1)
      BY <1>1, <2>1 DEF Cells
    <3> QED BY <1>1, <3>1, <3>2, <3>3
  <2>2. Cells(q) \subseteq Cells(r)
    BY <1>1 DEF Cells
  <2>3. Column(Len(q) + 1, n) \subseteq Cells(r)
    BY <1>1 DEF Cells, Column
  <2> QED BY <2>1, <2>2, <2>3
<1>3. Cells(q) \cap Column(Len(q) + 1, n) = {}
  BY <1>1 DEF Cells, Column
<1>4. /\ IsFiniteSet(Cells(q)) /\ IsFiniteSet(Column(Len(q) + 1, n))
      /\ Cardinality(Column(Len(q) + 1, n)) = n /\ Sum(q) = Cardinality(Cells(q))
      /\ Sum(r) = Cardinality(Cells(r)) /\ Sum(q) \in Nat
  BY <1>1, SumType, ColumnSize
<1>5. Cardinality(Cells(r)) = Cardinality(Cells(q)) + n - Cardinality({})
  BY <1>2, <1>3, <1>4, FS_Union
<1>6. Sum(r) = Sum(q) + n
  BY <1>1, <1>4, <1>5, FS_EmptySet
<1> QED BY <1>6 DEF r

(* The sum is the first frame and the sum of the rest.                      *)
LEMMA SumTail ==
    ASSUME NEW q \in Frames, q # <<>>
    PROVE  /\ Head(q) \in Fin..MaxLen /\ Tail(q) \in Frames
           /\ Sum(q) = Head(q) + Sum(Tail(q))
<1> DEFINE r == Tail(q)
<1> DEFINE n == Head(q)
<1>1. /\ r \in Frames /\ Len(q) \in Nat /\ Len(q) >= 1 /\ DOMAIN q = 1..Len(q)
      /\ DOMAIN r = 1..(Len(q) - 1) /\ \A i \in DOMAIN r : r[i] = q[i + 1]
      /\ q[1] = n /\ n \in Fin..MaxLen /\ \A i \in DOMAIN q : q[i] \in Int
      /\ n \in Nat /\ n <= MaxLen /\ MaxLen \in Nat
  BY WriteHalfAssumption DEF Frames, Fin
<1> HIDE DEF r, n
<1> DEFINE S == {b \in Cells(q) : b[1] # 1}
<1> DEFINE f == [b \in Cells(r) |-> <<b[1] + 1, b[2]>>]
<1>2. f \in Bijection(Cells(r), S)
  <2>1. ASSUME NEW b \in Cells(r) PROVE f[b] \in S
    BY <1>1, <2>1 DEF Cells
  <2>2. ASSUME NEW b \in Cells(r), NEW c \in Cells(r), f[b] = f[c] PROVE b = c
    <3>1. /\ b = <<b[1], b[2]>> /\ c = <<c[1], c[2]>> /\ b[1] \in Int /\ c[1] \in Int
          /\ <<b[1] + 1, b[2]>> = <<c[1] + 1, c[2]>>
      BY <1>1, <2>2 DEF Cells
    <3> QED BY <3>1
  <2>3. ASSUME NEW b \in S PROVE \E c \in Cells(r) : f[c] = b
    <3> DEFINE c == <<b[1] - 1, b[2]>>
    <3>1. /\ b = <<b[1], b[2]>> /\ b[1] \in 2..Len(q) /\ b[2] \in 1..MaxLen
          /\ b[2] <= q[b[1]]
      BY <1>1, <2>3 DEF Cells
    <3>2. b[1] - 1 \in DOMAIN r /\ r[b[1] - 1] = q[b[1]]
      BY <1>1, <3>1
    <3>3. c \in Cells(r)
      BY <3>1, <3>2 DEF Cells
    <3>4. f[c] = b
      BY <3>1, <3>3
    <3> QED BY <3>3, <3>4
  <2> QED BY <2>1, <2>2, <2>3 DEF Bijection, Injection, Surjection, IsInjective
<1>3. Cells(q) = S \cup Column(1, n)
  BY <1>1 DEF Cells, Column
<1>4. S \cap Column(1, n) = {}
  BY DEF Column
<1>5. /\ IsFiniteSet(Cells(r)) /\ Sum(r) = Cardinality(Cells(r)) /\ Sum(r) \in Nat
      /\ Sum(q) = Cardinality(Cells(q)) /\ Sum(q) \in Nat
      /\ IsFiniteSet(Column(1, n)) /\ Cardinality(Column(1, n)) = n
  BY <1>1, SumType, ColumnSize
<1>6. IsFiniteSet(S) /\ Cardinality(S) = Sum(r)
  BY <1>2, <1>5, FS_Bijection DEF ExistsBijection
<1> HIDE DEF S
<1>7. Cardinality(Cells(q)) = Sum(r) + n - Cardinality({})
  BY <1>3, <1>4, <1>5, <1>6, FS_Union
<1>8. Sum(q) = n + Sum(r)
  BY <1>1, <1>5, <1>7, FS_EmptySet
<1> QED BY <1>1, <1>8 DEF r, n

-----------------------------------------------------------------------------
(* FIN is in a queue; FIN is nowhere but at its end.                        *)
HasFin(q) == \E i \in DOMAIN q : q[i] = Fin
FinLast(q) == \A i \in DOMAIN q : q[i] = Fin => i = Len(q)

(* What data_tx.send does to the DATA queue: its length, its bytes, and     *)
(* where FIN is.                                                            *)
LEMMA Appended ==
    ASSUME NEW q \in Frames, NEW n \in 0..MaxLen
    PROVE  /\ Append(q, n) \in Frames /\ Len(Append(q, n)) = Len(q) + 1 /\ Len(q) \in Nat
           /\ Sum(Append(q, n)) = Sum(q) + n /\ Sum(q) \in Nat
           /\ ~HasFin(q) => FinLast(Append(q, n))
           /\ ~HasFin(q) /\ n # Fin => ~HasFin(Append(q, n))
<1> DEFINE r == Append(q, n)
<1>1. n \in Fin..MaxLen
  BY DEF Fin
<1>2. Sum(r) = Sum(q) + n /\ Sum(q) \in Nat
  BY <1>1, SumType, SumAppend
<1>3. /\ r \in Frames /\ Len(r) = Len(q) + 1 /\ Len(q) \in Nat
      /\ \A i \in DOMAIN r : (i \in DOMAIN q /\ r[i] = q[i]) \/ (i = Len(r) /\ r[i] = n)
  BY <1>1 DEF Frames
<1> HIDE DEF r
<1>4. ~HasFin(q) => FinLast(r) /\ (n # Fin => ~HasFin(r))
  BY <1>3 DEF HasFin, FinLast
<1> QED BY <1>2, <1>3, <1>4 DEF r

(* What data_rx.recv does to the DATA queue: its length, its bytes, and     *)
(* where FIN is.                                                            *)
LEMMA Taken ==
    ASSUME NEW q \in Frames, q # <<>>
    PROVE  /\ Tail(q) \in Frames /\ Len(Tail(q)) = Len(q) - 1 /\ Len(q) \in Nat
           /\ Sum(Tail(q)) = Sum(q) - Head(q) /\ Sum(q) \in Nat /\ Sum(Tail(q)) \in Nat
           /\ Head(q) \in 0..MaxLen
           /\ ~HasFin(q) => ~HasFin(Tail(q)) /\ Head(q) # Fin
           /\ FinLast(q) => FinLast(Tail(q)) /\ (Head(q) = Fin => Tail(q) = <<>>)
<1> DEFINE r == Tail(q)
           h == Head(q)
<1>1. /\ r \in Frames /\ Len(r) = Len(q) - 1 /\ Len(q) \in Nat
      /\ \A i \in DOMAIN r : i + 1 \in DOMAIN q /\ r[i] = q[i + 1] /\ i \in Int
  BY DEF Frames
<1>2. 1 \in DOMAIN q /\ q[1] = h /\ h \in Fin..MaxLen
  <2>1. Len(q) >= 1 /\ Len(q) \in Nat /\ q \in Seq(Fin..MaxLen)
    BY DEF Frames
  <2>2. 1 \in DOMAIN q /\ q[1] = h /\ 1 \in 1..Len(q)
    BY <2>1
  <2>3. q[1] \in Fin..MaxLen
    BY <2>1, <2>2, ElementOfSeq
  <2> QED BY <2>2, <2>3
<1>3. Sum(r) = Sum(q) - h /\ Sum(q) \in Nat /\ Sum(r) \in Nat
  <2>1. Sum(q) \in Nat /\ Sum(r) \in Nat /\ h \in Int
    BY <1>1, <1>2, SumType DEF Fin
  <2>2. Sum(q) = h + Sum(r)
    BY SumTail
  <2> QED BY <2>1, <2>2
<1>4. Len(q) = 1 => r = <<>>
  <2>1. Len(r) = 0 => r = <<>>
    BY <1>1, EmptySeq DEF Frames
  <2> QED BY <1>1, <2>1
<1> HIDE DEF r, h
<1>5. ~HasFin(q) => ~HasFin(r) /\ h # Fin
  BY <1>1, <1>2 DEF HasFin
<1>6. FinLast(q) => FinLast(r) /\ (h = Fin => r = <<>>)
  BY <1>1, <1>2, <1>4 DEF FinLast
<1> QED BY <1>1, <1>2, <1>3, <1>5, <1>6 DEF Fin, r, h

(* There is no FIN in an empty queue.                                       *)
LEMMA NoFinEmpty == ~HasFin(<<>>) /\ FinLast(<<>>)
BY DEF HasFin, FinLast

-----------------------------------------------------------------------------
(* The bytes of the writer task's frame that are not on the wire yet.       *)
Unsent == IF w.pc = "sent" THEN 0 ELSE InHand
(* The writer task's frame is FIN.                                          *)
CarriesFin == w.pc \in {"bound", "send", "sent"} /\ w.n = Fin

Writers == [pc : {"open", "take", "bound", "send", "sent", "ended"}, n : Reset..MaxLen]

(* The types, by the part of the state.                                     *)
TypedCall ==
    /\ pc \in Calls \cup Closes \cup {"idle", "panicked", "gone"}
    /\ len \in 0..MaxLen /\ pending_grant \in 0..MaxLen /\ accepted \in 0..MaxLimit
    /\ abandons \in 0..MaxAbandons /\ cb \in {"none", "fail", "reset"}
TypedState ==
    /\ term \in {"none", "fin", "reset"} /\ terminal_wire \in {"none", "fin", "reset"}
    /\ peer_stop \in BOOLEAN /\ drop_data \in BOOLEAN /\ dc_open \in BOOLEAN
    /\ dc_closed \in BOOLEAN /\ dc_dead \in BOOLEAN /\ life_q \in BOOLEAN
TypedCredit ==
    /\ wire \in 0..MaxLimit /\ limit \in 0..MaxLimit
    /\ sent \in 0..MaxLimit /\ reserved \in 0..MaxLimit
    /\ send_failed \in BOOLEAN /\ entry \in BOOLEAN
TypedQueue == queue \in Frames /\ Len(queue) <= QueueCap
TypedWriter == w \in Writers /\ w.n \in Reset..MaxLen
Typed == TypedCall /\ TypedState /\ TypedCredit /\ TypedQueue /\ TypedWriter

(* The writer task's frame: none while it waits, no RESET at the            *)
(* send-buffer bound, and no queue once it has ended.                       *)
WriterInv ==
    /\ w.pc \in {"open", "take", "ended"} => w.n = 0
    /\ w.pc = "bound" => w.n >= 0
    /\ ended => queue = <<>>

(* A grant is asked for with none held, and is in hand while its frame      *)
(* waits for the queue. Unless the application has dropped a call, a grant  *)
(* fits the write that holds it, or the write half is blocked and no write  *)
(* gets as far as using it.                                                 *)
GrantInv ==
    /\ pc \in {"reserve", "parked"} => pending_grant = 0
    /\ pc \in {"queue", "waiting", "panicked"} => pending_grant > 0
    /\ pc = "panicked" => abandons > 0 /\ len < pending_grant
    /\ abandons = 0 =>
         \/ pending_grant = 0
         \/ pending_grant <= len /\ pc \in {"poll", "queue", "waiting"}
         \/ blocked /\ pc \notin {"reserve", "parked", "queue", "waiting", "panicked"}

(* Every reserved byte has a holder, and no holder has more.                *)
HeldInv ==
    entry => /\ reserved >= pending_grant + Sum(queue) + InHand
             /\ ~ended => reserved <= pending_grant + Sum(queue) + InHand

(* What is sent or reserved is within the peer's credit; sent and wire      *)
(* agree but for the frame that is between dc.send and commit.              *)
CreditInv ==
    /\ sent + reserved <= limit
    /\ entry /\ ~ended => /\ sent + InHand <= wire + Unsent
                         /\ wire + Unsent <= sent + InHand
    /\ ~entry => dc_closed

(* What writes have accepted is on the wire, in the queue or in hand,       *)
(* unless a reset discards it or the writer task has ended.                 *)
BytesInv ==
    /\ wire + Sum(queue) + Unsent <= accepted
    /\ ~drop_data /\ ~ended => accepted <= wire + Sum(queue) + Unsent

(* A write in progress fits in the credit that is left.                     *)
RoomInv ==
    pc \in Calls => \/ ended \/ accepted + len <= MaxLimit
                    \/ pc = "poll" /\ blocked

(* What the claimed terminal says of the call in progress.                  *)
TermInv ==
    /\ drop_data => term = "reset"
    /\ pc = "send_fin" => term = "fin"
    /\ pc = "fail" => term # "none"
    /\ term = "fin" => pc \notin {"reserve", "parked", "queue", "waiting"}

(* FIN is queued only by the close that claimed it, stands last in the      *)
(* queue, and is taken when the queue is empty; on the wire it is preceded  *)
(* by everything accepted.                                                  *)
FinInv ==
    /\ (term # "fin" \/ pc \in {"fail", "send_fin"}) =>
          ~HasFin(queue) /\ ~CarriesFin /\ terminal_wire # "fin"
    /\ FinLast(queue)
    /\ (CarriesFin \/ terminal_wire = "fin") => queue = <<>>
    /\ terminal_wire = "fin" => wire = accepted /\ InHand = 0

(* The inductive invariant.                                                 *)
IInv ==
    /\ Typed /\ WriterInv /\ GrantInv /\ HeldInv /\ CreditInv /\ BytesInv
    /\ RoomInv /\ TermInv /\ FinInv

-----------------------------------------------------------------------------
(* One lemma for each action.                                               *)
LEMMA WriteStep ==
    ASSUME IInv, NEW n \in 0..MaxLen, write(n)
    PROVE  IInv'
<1>1. /\ pc = "idle" /\ sent + reserved + n <= MaxLimit
      /\ pc' = "poll" /\ len' = n
      /\ pending_grant' = pending_grant /\ accepted' = accepted
      /\ abandons' = abandons /\ term' = term /\ peer_stop' = peer_stop
      /\ drop_data' = drop_data /\ dc_open' = dc_open /\ dc_closed' = dc_closed
      /\ dc_dead' = dc_dead /\ cb' = cb /\ queue' = queue /\ life_q' = life_q
      /\ w' = w /\ wire' = wire /\ terminal_wire' = terminal_wire
      /\ limit' = limit /\ sent' = sent /\ reserved' = reserved
      /\ send_failed' = send_failed /\ entry' = entry
  BY WriteHalfAssumption
     DEF write, IInv, Typed, TypedCall, TypedState, TypedCredit, TypedWriter, Fin,
         Reset, held, call, channel, state, queues, onwire, writer, flow
<1>2. Sum(queue) \in Nat
  BY <1>1, SumType DEF IInv, Typed, TypedQueue
<1>3. TypedCall'
  BY <1>1, <1>2, WriteHalfAssumption
     DEF IInv, Typed, TypedCall, Calls, Closes
<1>4. GrantInv'
  BY <1>1, <1>2
     DEF IInv, Typed, TypedCall, GrantInv, blocked
<1>5. RoomInv'
  <2>1. CASE blocked
    BY <1>1, <2>1 DEF RoomInv, blocked
  <2>2. CASE ended
    BY <1>1, <2>2 DEF RoomInv, ended
  <2>3. CASE ~blocked /\ ~ended
    <3>1. entry /\ ~drop_data
      BY <2>3 DEF IInv, Typed, TypedState, TypedCredit, CreditInv, TermInv, blocked
    <3>2. /\ reserved >= pending_grant + Sum(queue) + InHand
          /\ wire + Unsent <= sent + InHand /\ accepted <= wire + Sum(queue) + Unsent
      BY <2>3, <3>1 DEF IInv, HeldInv, CreditInv, BytesInv
    <3>3. InHand \in Nat /\ Unsent \in Nat
      BY DEF IInv, Typed, TypedWriter, InHand, Unsent, Reset
    <3>4. accepted + n <= MaxLimit
      BY <1>1, <1>2, <3>2, <3>3, WriteHalfAssumption DEF IInv, Typed, TypedCall, TypedCredit
    <3> QED BY <1>1, <3>4 DEF RoomInv
  <2> QED BY <2>1, <2>2, <2>3
<1>6. TermInv'
  BY <1>1, <1>2
     DEF IInv, Typed, TermInv
<1>7. FinInv'
  BY <1>1, <1>2
     DEF IInv, Typed, TypedQueue, TypedWriter, TypedCredit, FinInv, CarriesFin, InHand,
         Fin
<1>8. TypedState' /\ TypedCredit' /\ TypedQueue' /\ TypedWriter' /\ WriterInv' /\ HeldInv'
          /\ CreditInv' /\ BytesInv'
  BY <1>1
     DEF IInv, Typed, TypedState, TypedCredit, TypedQueue, TypedWriter, WriterInv,
         HeldInv, CreditInv, BytesInv, Reset, ended, InHand, Unsent
<1> QED
  BY <1>3, <1>4, <1>5, <1>6, <1>7, <1>8 DEF IInv, Typed

(* poll_write: the errors leave a held grant, which no later write can use. *)
LEMMA PollWriteStep ==
    ASSUME IInv, poll_write
    PROVE  IInv'
<1>1. /\ pc = "poll"
      /\ pc' = IF blocked THEN "idle" ELSE IF pending_grant > 0 THEN "queue" ELSE "reserve"
      /\ len' = len /\ pending_grant' = pending_grant /\ accepted' = accepted
      /\ abandons' = abandons /\ term' = term /\ peer_stop' = peer_stop
      /\ drop_data' = drop_data /\ dc_open' = dc_open /\ dc_closed' = dc_closed
      /\ dc_dead' = dc_dead /\ cb' = cb /\ queue' = queue /\ life_q' = life_q
      /\ w' = w /\ wire' = wire /\ terminal_wire' = terminal_wire
      /\ limit' = limit /\ sent' = sent /\ reserved' = reserved
      /\ send_failed' = send_failed /\ entry' = entry
  BY WriteHalfAssumption
     DEF poll_write, IInv, Typed, TypedCall, TypedState, TypedCredit, TypedWriter, Fin,
         Reset, held, call, channel, state, queues, onwire, writer, flow
<1>2. TypedCall'
  BY <1>1, WriteHalfAssumption
     DEF IInv, Typed, TypedCall, Calls, Closes
<1>3. GrantInv'
  BY <1>1
     DEF IInv, Typed, TypedCall, GrantInv, blocked
<1>4. RoomInv'
  BY <1>1
     DEF IInv, Typed, TypedCall, TypedCredit, TypedWriter, RoomInv, blocked, ended,
         Calls
<1>5. TermInv'
  BY <1>1
     DEF IInv, Typed, TermInv, blocked
<1>6. FinInv'
  BY <1>1
     DEF IInv, Typed, TypedQueue, TypedWriter, TypedCredit, FinInv, CarriesFin, InHand,
         Fin
<1>7. TypedState' /\ TypedCredit' /\ TypedQueue' /\ TypedWriter' /\ WriterInv' /\ HeldInv'
          /\ CreditInv' /\ BytesInv'
  BY <1>1
     DEF IInv, Typed, TypedState, TypedCredit, TypedQueue, TypedWriter, WriterInv,
         HeldInv, CreditInv, BytesInv, Reset, ended, InHand, Unsent
<1> QED
  BY <1>2, <1>3, <1>4, <1>5, <1>6, <1>7 DEF IInv, Typed

(* poll_reserve: a grant is reserved within the limit, and held by the      *)
(* call.                                                                    *)
LEMMA PollReserveStep ==
    ASSUME IInv, poll_reserve
    PROVE  IInv'
<1>1. CASE send_failed \/ ~entry
  <2>1. /\ pc = "reserve" /\ pc' = "idle"
        /\ len' = len /\ pending_grant' = pending_grant /\ accepted' = accepted
        /\ abandons' = abandons /\ term' = term /\ peer_stop' = peer_stop
        /\ drop_data' = drop_data /\ dc_open' = dc_open /\ dc_closed' = dc_closed
        /\ dc_dead' = dc_dead /\ cb' = cb /\ queue' = queue /\ life_q' = life_q
        /\ w' = w /\ wire' = wire /\ terminal_wire' = terminal_wire
        /\ limit' = limit /\ sent' = sent /\ reserved' = reserved
        /\ send_failed' = send_failed /\ entry' = entry
    BY <1>1, WriteHalfAssumption
       DEF poll_reserve, grant, IInv, Typed, TypedCall, TypedState, TypedCredit, TypedWriter,
           Fin, Reset, held, call, channel, state, queues, onwire, writer, flow
  <2>2. TypedCall'
    BY <1>1, <2>1, WriteHalfAssumption
       DEF IInv, Typed, TypedCall, Calls, Closes
  <2>3. GrantInv'
    BY <1>1, <2>1
       DEF IInv, Typed, TypedCall, GrantInv, blocked
  <2>4. RoomInv'
    BY <1>1, <2>1
       DEF IInv, Typed, TypedCall, TypedCredit, TypedWriter, RoomInv, blocked, ended,
           Calls
  <2>5. TermInv'
    BY <1>1, <2>1
       DEF IInv, Typed, TermInv
  <2>6. FinInv'
    BY <1>1, <2>1
       DEF IInv, Typed, TypedQueue, TypedWriter, TypedCredit, FinInv, CarriesFin,
           InHand, Fin
  <2>7. TypedState' /\ TypedCredit' /\ TypedQueue' /\ TypedWriter' /\ WriterInv' /\ HeldInv'
            /\ CreditInv' /\ BytesInv'
    BY <2>1
       DEF IInv, Typed, TypedState, TypedCredit, TypedQueue, TypedWriter, WriterInv,
           HeldInv, CreditInv, BytesInv, Reset, ended, InHand, Unsent
  <2> QED
    BY <2>2, <2>3, <2>4, <2>5, <2>6, <2>7 DEF IInv, Typed
<1>2. CASE ~send_failed /\ entry /\ grant >= 1
  <2>1. /\ pc = "reserve" /\ pc' = "queue"
        /\ pending_grant' = grant /\ reserved' = reserved + grant
        /\ grant \in Nat /\ grant >= 1 /\ grant <= len /\ sent + reserved + grant <= limit
        /\ len' = len /\ accepted' = accepted /\ abandons' = abandons
        /\ term' = term /\ peer_stop' = peer_stop /\ drop_data' = drop_data
        /\ dc_open' = dc_open /\ dc_closed' = dc_closed /\ dc_dead' = dc_dead
        /\ cb' = cb /\ queue' = queue /\ life_q' = life_q /\ w' = w
        /\ wire' = wire /\ terminal_wire' = terminal_wire /\ limit' = limit
        /\ sent' = sent /\ send_failed' = send_failed /\ entry' = entry
    BY <1>2, WriteHalfAssumption
       DEF poll_reserve, grant, IInv, Typed, TypedCall, TypedState, TypedCredit, TypedWriter,
           Fin, Reset, held, call, channel, state, queues, onwire, writer, flow
  <2>2. Sum(queue) \in Nat
    BY <2>1, SumType DEF IInv, Typed, TypedQueue
  <2>3. InHand' = InHand /\ Unsent' = Unsent /\ InHand \in Nat /\ Unsent \in Nat
    BY <1>2, <2>1, <2>2
       DEF IInv, Typed, TypedWriter, WriterInv, InHand, Unsent, Reset, Fin
  <2>4. TypedCall'
    BY <1>2, <2>1, <2>2, WriteHalfAssumption
       DEF IInv, Typed, TypedCall, Calls, Closes
  <2>5. TypedCredit'
    BY <1>2, <2>1, <2>2, WriteHalfAssumption
       DEF IInv, Typed, TypedCredit
  <2>6. GrantInv'
    BY <1>2, <2>1, <2>2
       DEF IInv, Typed, TypedCall, GrantInv, blocked
  <2>7. HeldInv'
    <3>1. pending_grant = 0
      BY <2>1 DEF IInv, GrantInv
    <3> QED
      BY <1>2, <2>1, <2>2, <2>3, <3>1
         DEF IInv, Typed, TypedCall, TypedCredit, HeldInv, ended
  <2>8. CreditInv'
    BY <1>2, <2>1, <2>2, <2>3
       DEF IInv, Typed, TypedState, TypedCall, TypedCredit, CreditInv, ended
  <2>9. RoomInv'
    BY <1>2, <2>1, <2>2
       DEF IInv, Typed, TypedCall, TypedCredit, TypedWriter, RoomInv, blocked, ended,
           Calls
  <2>10. TermInv'
    BY <1>2, <2>1, <2>2
       DEF IInv, Typed, TermInv
  <2>11. FinInv'
    BY <1>2, <2>1, <2>2
       DEF IInv, Typed, TypedQueue, TypedWriter, TypedCredit, FinInv, CarriesFin,
           InHand, Fin
  <2>12. TypedState' /\ TypedQueue' /\ TypedWriter' /\ WriterInv' /\ BytesInv'
    BY <2>1
       DEF IInv, Typed, TypedState, TypedQueue, TypedWriter, WriterInv, BytesInv, Reset,
           ended, InHand, Unsent
  <2> QED
    BY <2>4, <2>5, <2>6, <2>7, <2>8, <2>9, <2>10, <2>11, <2>12 DEF IInv, Typed
<1>3. CASE ~send_failed /\ entry /\ grant < 1
  <2>1. /\ pc = "reserve" /\ pc' = "parked"
        /\ len' = len /\ pending_grant' = pending_grant /\ accepted' = accepted
        /\ abandons' = abandons /\ term' = term /\ peer_stop' = peer_stop
        /\ drop_data' = drop_data /\ dc_open' = dc_open /\ dc_closed' = dc_closed
        /\ dc_dead' = dc_dead /\ cb' = cb /\ queue' = queue /\ life_q' = life_q
        /\ w' = w /\ wire' = wire /\ terminal_wire' = terminal_wire
        /\ limit' = limit /\ sent' = sent /\ reserved' = reserved
        /\ send_failed' = send_failed /\ entry' = entry
    BY <1>3, WriteHalfAssumption
       DEF poll_reserve, grant, IInv, Typed, TypedCall, TypedState, TypedCredit, TypedWriter,
           Fin, Reset, held, call, channel, state, queues, onwire, writer, flow
  <2>2. TypedCall'
    BY <1>3, <2>1, WriteHalfAssumption
       DEF IInv, Typed, TypedCall, Calls, Closes
  <2>3. GrantInv'
    BY <1>3, <2>1
       DEF IInv, Typed, TypedCall, GrantInv, blocked
  <2>4. RoomInv'
    BY <1>3, <2>1
       DEF IInv, Typed, TypedCall, TypedCredit, TypedWriter, RoomInv, blocked, ended,
           Calls
  <2>5. TermInv'
    BY <1>3, <2>1
       DEF IInv, Typed, TermInv
  <2>6. FinInv'
    BY <1>3, <2>1
       DEF IInv, Typed, TypedQueue, TypedWriter, TypedCredit, FinInv, CarriesFin,
           InHand, Fin
  <2>7. TypedState' /\ TypedCredit' /\ TypedQueue' /\ TypedWriter' /\ WriterInv' /\ HeldInv'
            /\ CreditInv' /\ BytesInv'
    BY <2>1
       DEF IInv, Typed, TypedState, TypedCredit, TypedQueue, TypedWriter, WriterInv,
           HeldInv, CreditInv, BytesInv, Reset, ended, InHand, Unsent
  <2> QED
    BY <2>2, <2>3, <2>4, <2>5, <2>6, <2>7 DEF IInv, Typed
<1> QED
  BY <1>1, <1>2, <1>3, WriteHalfAssumption
     DEF poll_reserve, grant, IInv, Typed, TypedWriter, TypedState, TypedCredit, WriterInv,
         Fin, Reset

(* poll_queue: the grant moves into the queue and is accepted, or is        *)
(* released.                                                                *)
LEMMA PollQueueStep ==
    ASSUME IInv, poll_queue
    PROVE  IInv'
<1>1. CASE ended
  <2>1. /\ pc = "queue" /\ pc' = "idle" /\ pending_grant' = 0
        /\ reserved' = IF entry THEN reserved - pending_grant ELSE reserved
        /\ len' = len /\ accepted' = accepted /\ abandons' = abandons
        /\ term' = term /\ peer_stop' = peer_stop /\ drop_data' = drop_data
        /\ dc_open' = dc_open /\ dc_closed' = dc_closed /\ dc_dead' = dc_dead
        /\ cb' = cb /\ queue' = queue /\ life_q' = life_q /\ w' = w
        /\ wire' = wire /\ terminal_wire' = terminal_wire /\ limit' = limit
        /\ sent' = sent /\ send_failed' = send_failed /\ entry' = entry
    BY <1>1, WriteHalfAssumption
       DEF poll_queue, release, ended, room, IInv, Typed, TypedCall, TypedState,
           TypedCredit, TypedWriter,
           Fin, Reset, held, call, channel, state, queues, onwire, writer, flow
  <2>2. Sum(queue) \in Nat
    BY <2>1, SumType DEF IInv, Typed, TypedQueue
  <2>3. InHand' = InHand /\ Unsent' = Unsent /\ InHand \in Nat /\ Unsent \in Nat
    BY <1>1, <2>1, <2>2
       DEF IInv, Typed, TypedWriter, WriterInv, InHand, Unsent, Reset, Fin
  <2>4. TypedCall'
    BY <1>1, <2>1, <2>2, WriteHalfAssumption
       DEF IInv, Typed, TypedCall, Calls, Closes
  <2>5. TypedCredit'
    BY <1>1, <2>1, <2>2, WriteHalfAssumption
       DEF IInv, Typed, TypedCredit, TypedCall, TypedWriter, HeldInv, InHand
  <2>6. GrantInv'
    BY <1>1, <2>1, <2>2
       DEF IInv, Typed, TypedCall, GrantInv, blocked
  <2>7. HeldInv'
    <3>1. CASE entry
      BY <3>1, <1>1, <2>1, <2>2, <2>3
         DEF IInv, Typed, TypedCall, TypedCredit, HeldInv, ended
    <3>2. CASE ~entry
      BY <3>2, <1>1, <2>1, <2>2, <2>3
         DEF IInv, Typed, TypedCall, TypedCredit, HeldInv, ended
    <3> QED
      BY <3>1, <3>2
  <2>8. CreditInv'
    <3>1. CASE entry
      BY <3>1, <1>1, <2>1, <2>2, <2>3
         DEF IInv, Typed, TypedState, TypedCall, TypedCredit, CreditInv, ended, HeldInv
    <3>2. CASE ~entry
      BY <3>2, <1>1, <2>1, <2>2, <2>3
         DEF IInv, Typed, TypedState, TypedCall, TypedCredit, CreditInv, ended, HeldInv
    <3> QED
      BY <3>1, <3>2
  <2>9. RoomInv'
    BY <1>1, <2>1, <2>2
       DEF IInv, Typed, TypedCall, TypedCredit, TypedWriter, RoomInv, blocked, ended,
           Calls
  <2>10. TermInv'
    BY <1>1, <2>1, <2>2
       DEF IInv, Typed, TermInv
  <2>11. FinInv'
    BY <1>1, <2>1, <2>2
       DEF IInv, Typed, TypedQueue, TypedWriter, TypedCredit, FinInv, CarriesFin,
           InHand, Fin
  <2>12. TypedState' /\ TypedQueue' /\ TypedWriter' /\ WriterInv' /\ BytesInv'
    BY <2>1
       DEF IInv, Typed, TypedState, TypedQueue, TypedWriter, WriterInv, BytesInv, Reset,
           ended, InHand, Unsent
  <2> QED
    BY <2>4, <2>5, <2>6, <2>7, <2>8, <2>9, <2>10, <2>11, <2>12 DEF IInv, Typed
<1>2. CASE ~ended /\ ~room
  <2>1. /\ pc = "queue" /\ pc' = "waiting"
        /\ len' = len /\ pending_grant' = pending_grant /\ accepted' = accepted
        /\ abandons' = abandons /\ term' = term /\ peer_stop' = peer_stop
        /\ drop_data' = drop_data /\ dc_open' = dc_open /\ dc_closed' = dc_closed
        /\ dc_dead' = dc_dead /\ cb' = cb /\ queue' = queue /\ life_q' = life_q
        /\ w' = w /\ wire' = wire /\ terminal_wire' = terminal_wire
        /\ limit' = limit /\ sent' = sent /\ reserved' = reserved
        /\ send_failed' = send_failed /\ entry' = entry
    BY <1>2, WriteHalfAssumption
       DEF poll_queue, release, ended, room, IInv, Typed, TypedCall, TypedState,
           TypedCredit, TypedWriter,
           Fin, Reset, held, call, channel, state, queues, onwire, writer, flow
  <2>2. TypedCall'
    BY <1>2, <2>1, WriteHalfAssumption
       DEF IInv, Typed, TypedCall, Calls, Closes
  <2>3. GrantInv'
    BY <1>2, <2>1
       DEF IInv, Typed, TypedCall, GrantInv, blocked
  <2>4. RoomInv'
    BY <1>2, <2>1
       DEF IInv, Typed, TypedCall, TypedCredit, TypedWriter, RoomInv, blocked, ended,
           Calls
  <2>5. TermInv'
    BY <1>2, <2>1
       DEF IInv, Typed, TermInv
  <2>6. FinInv'
    BY <1>2, <2>1
       DEF IInv, Typed, TypedQueue, TypedWriter, TypedCredit, FinInv, CarriesFin,
           InHand, Fin
  <2>7. TypedState' /\ TypedCredit' /\ TypedQueue' /\ TypedWriter' /\ WriterInv' /\ HeldInv'
            /\ CreditInv' /\ BytesInv'
    BY <2>1
       DEF IInv, Typed, TypedState, TypedCredit, TypedQueue, TypedWriter, WriterInv,
           HeldInv, CreditInv, BytesInv, Reset, ended, InHand, Unsent
  <2> QED
    BY <2>2, <2>3, <2>4, <2>5, <2>6, <2>7 DEF IInv, Typed
<1>3. CASE ~ended /\ room /\ pending_grant > len
  <2>1. /\ pc = "queue" /\ pc' = "panicked" /\ pending_grant > len
        /\ len' = len /\ pending_grant' = pending_grant /\ accepted' = accepted
        /\ abandons' = abandons /\ term' = term /\ peer_stop' = peer_stop
        /\ drop_data' = drop_data /\ dc_open' = dc_open /\ dc_closed' = dc_closed
        /\ dc_dead' = dc_dead /\ cb' = cb /\ queue' = queue /\ life_q' = life_q
        /\ w' = w /\ wire' = wire /\ terminal_wire' = terminal_wire
        /\ limit' = limit /\ sent' = sent /\ reserved' = reserved
        /\ send_failed' = send_failed /\ entry' = entry
    BY <1>3, WriteHalfAssumption
       DEF poll_queue, release, ended, room, IInv, Typed, TypedCall, TypedState,
           TypedCredit, TypedWriter,
           Fin, Reset, held, call, channel, state, queues, onwire, writer, flow
  <2>2. TypedCall'
    BY <1>3, <2>1, WriteHalfAssumption
       DEF IInv, Typed, TypedCall, Calls, Closes
  <2>3. GrantInv'
    BY <1>3, <2>1
       DEF IInv, Typed, TypedCall, GrantInv, blocked
  <2>4. RoomInv'
    BY <1>3, <2>1
       DEF IInv, Typed, TypedCall, TypedCredit, TypedWriter, RoomInv, blocked, ended,
           Calls
  <2>5. TermInv'
    BY <1>3, <2>1
       DEF IInv, Typed, TermInv
  <2>6. FinInv'
    BY <1>3, <2>1
       DEF IInv, Typed, TypedQueue, TypedWriter, TypedCredit, FinInv, CarriesFin,
           InHand, Fin
  <2>7. TypedState' /\ TypedCredit' /\ TypedQueue' /\ TypedWriter' /\ WriterInv' /\ HeldInv'
            /\ CreditInv' /\ BytesInv'
    BY <2>1
       DEF IInv, Typed, TypedState, TypedCredit, TypedQueue, TypedWriter, WriterInv,
           HeldInv, CreditInv, BytesInv, Reset, ended, InHand, Unsent
  <2> QED
    BY <2>2, <2>3, <2>4, <2>5, <2>6, <2>7 DEF IInv, Typed
<1>4. CASE ~ended /\ room /\ pending_grant <= len
  <2>1. /\ pc = "queue" /\ pc' = "idle" /\ pending_grant' = 0
        /\ pending_grant <= len /\ Len(queue) < QueueCap
        /\ queue' = Append(queue, pending_grant) /\ accepted' = accepted + pending_grant
        /\ len' = len /\ abandons' = abandons /\ term' = term
        /\ peer_stop' = peer_stop /\ drop_data' = drop_data /\ dc_open' = dc_open
        /\ dc_closed' = dc_closed /\ dc_dead' = dc_dead /\ cb' = cb
        /\ life_q' = life_q /\ w' = w /\ wire' = wire
        /\ terminal_wire' = terminal_wire /\ limit' = limit /\ sent' = sent
        /\ reserved' = reserved /\ send_failed' = send_failed /\ entry' = entry
    BY <1>4, WriteHalfAssumption
       DEF poll_queue, release, ended, room, IInv, Typed, TypedCall, TypedState,
           TypedCredit, TypedWriter,
           Fin, Reset, held, call, channel, state, queues, onwire, writer, flow
  <2>2. /\ queue' \in Frames /\ Len(queue') = Len(queue) + 1 /\ Len(queue) \in Nat
        /\ Sum(queue') = Sum(queue) + pending_grant /\ Sum(queue) \in Nat
        /\ (~HasFin(queue) => FinLast(queue'))
        /\ (~HasFin(queue) /\ pending_grant # Fin => ~HasFin(queue'))
    <3>1. queue \in Frames /\ pending_grant \in 0..MaxLen
      BY WriteHalfAssumption DEF IInv, Typed, TypedQueue, TypedCall
    <3> QED
      BY <2>1, <3>1, Appended
  <2>3. InHand' = InHand /\ Unsent' = Unsent /\ InHand \in Nat /\ Unsent \in Nat
    BY <1>4, <2>1, <2>2
       DEF IInv, Typed, TypedWriter, WriterInv, InHand, Unsent, Reset, Fin
  <2>4. TypedCall'
    BY <1>4, <2>1, <2>2, WriteHalfAssumption
       DEF IInv, Typed, TypedCall, Calls, Closes, RoomInv, TypedCredit
  <2>5. TypedQueue'
    BY <1>4, <2>1, <2>2, WriteHalfAssumption
       DEF IInv, Typed, TypedQueue
  <2>6. WriterInv'
    BY <1>4, <2>1, <2>2
       DEF IInv, Typed, TypedWriter, WriterInv, ended
  <2>7. GrantInv'
    BY <1>4, <2>1, <2>2
       DEF IInv, Typed, TypedCall, GrantInv, blocked
  <2>8. HeldInv'
    BY <1>4, <2>1, <2>2, <2>3
       DEF IInv, Typed, TypedCall, TypedCredit, HeldInv, ended
  <2>9. BytesInv'
    BY <1>4, <2>1, <2>2, <2>3
       DEF IInv, Typed, TypedState, TypedCall, TypedCredit, BytesInv, ended
  <2>10. RoomInv'
    BY <1>4, <2>1, <2>2
       DEF IInv, Typed, TypedCall, TypedCredit, TypedWriter, RoomInv, blocked, ended,
           Calls
  <2>11. TermInv'
    BY <1>4, <2>1, <2>2
       DEF IInv, Typed, TermInv
  <2>12. FinInv'
    BY <1>4, <2>1, <2>2
       DEF IInv, Typed, TypedQueue, TypedWriter, TypedCredit, FinInv, CarriesFin,
           InHand, Fin, TermInv, GrantInv
  <2>13. TypedState' /\ TypedCredit' /\ TypedWriter' /\ CreditInv'
    BY <2>1
       DEF IInv, Typed, TypedState, TypedCredit, TypedWriter, CreditInv, Reset, InHand,
           Unsent, ended
  <2> QED
    BY <2>4, <2>5, <2>6, <2>7, <2>8, <2>9, <2>10, <2>11, <2>12, <2>13 DEF IInv, Typed
<1> QED
  BY <1>1, <1>2, <1>3, <1>4, WriteHalfAssumption
     DEF poll_queue, release, ended, room, IInv, Typed, TypedWriter, TypedState,
         TypedCredit, WriterInv, Fin,
         Reset

(* queue_wakes changes the place of the call alone.                         *)
LEMMA QueueWakesStep ==
    ASSUME IInv, queue_wakes
    PROVE  IInv'
<1>1. /\ pc = "waiting" /\ pc' = "poll"
      /\ len' = len /\ pending_grant' = pending_grant /\ accepted' = accepted
      /\ abandons' = abandons /\ term' = term /\ peer_stop' = peer_stop
      /\ drop_data' = drop_data /\ dc_open' = dc_open /\ dc_closed' = dc_closed
      /\ dc_dead' = dc_dead /\ cb' = cb /\ queue' = queue /\ life_q' = life_q
      /\ w' = w /\ wire' = wire /\ terminal_wire' = terminal_wire
      /\ limit' = limit /\ sent' = sent /\ reserved' = reserved
      /\ send_failed' = send_failed /\ entry' = entry
  BY WriteHalfAssumption
     DEF queue_wakes, IInv, Typed, TypedCall, TypedState, TypedCredit, TypedWriter, Fin,
         Reset, held, call, channel, state, queues, onwire, writer, flow
<1>2. TypedCall'
  BY <1>1, WriteHalfAssumption
     DEF IInv, Typed, TypedCall, Calls, Closes
<1>3. GrantInv'
  BY <1>1
     DEF IInv, Typed, TypedCall, GrantInv, blocked
<1>4. RoomInv'
  BY <1>1
     DEF IInv, Typed, TypedCall, TypedCredit, TypedWriter, RoomInv, blocked, ended,
         Calls
<1>5. TermInv'
  BY <1>1
     DEF IInv, Typed, TermInv
<1>6. FinInv'
  BY <1>1
     DEF IInv, Typed, TypedQueue, TypedWriter, TypedCredit, FinInv, CarriesFin, InHand,
         Fin
<1>7. TypedState' /\ TypedCredit' /\ TypedQueue' /\ TypedWriter' /\ WriterInv' /\ HeldInv'
          /\ CreditInv' /\ BytesInv'
  BY <1>1
     DEF IInv, Typed, TypedState, TypedCredit, TypedQueue, TypedWriter, WriterInv,
         HeldInv, CreditInv, BytesInv, Reset, ended, InHand, Unsent
<1> QED
  BY <1>2, <1>3, <1>4, <1>5, <1>6, <1>7 DEF IInv, Typed

(* close_write and reset_write claim the terminal with no call in progress. *)
LEMMA EndWriteStep ==
    ASSUME IInv, NEW t \in {"fin", "reset"}, end_write(t)
    PROVE  IInv'
<1>1. /\ pc = "idle" /\ term = "none"
      /\ term' = t /\ drop_data' = (t = "reset") /\ pc' = "fail"
      /\ len' = len /\ pending_grant' = pending_grant /\ accepted' = accepted
      /\ abandons' = abandons /\ peer_stop' = peer_stop /\ dc_open' = dc_open
      /\ dc_closed' = dc_closed /\ dc_dead' = dc_dead /\ cb' = cb
      /\ queue' = queue /\ life_q' = life_q /\ w' = w /\ wire' = wire
      /\ terminal_wire' = terminal_wire /\ limit' = limit /\ sent' = sent
      /\ reserved' = reserved /\ send_failed' = send_failed /\ entry' = entry
  BY WriteHalfAssumption
     DEF end_write, IInv, Typed, TypedCall, TypedState, TypedCredit, TypedWriter, Fin,
         Reset, held, call, channel, state, queues, onwire, writer, flow
<1>2. Sum(queue) \in Nat
  BY <1>1, SumType DEF IInv, Typed, TypedQueue
<1>3. TypedCall'
  BY <1>1, <1>2, WriteHalfAssumption
     DEF IInv, Typed, TypedCall, Calls, Closes
<1>4. TypedState'
  BY <1>1, <1>2, WriteHalfAssumption
     DEF IInv, Typed, TypedState
<1>5. GrantInv'
  BY <1>1, <1>2
     DEF IInv, Typed, TypedCall, GrantInv, blocked
<1>6. BytesInv'
  BY <1>1, <1>2
     DEF IInv, Typed, TypedState, TypedCall, TypedCredit, TypedWriter, BytesInv, InHand,
         Unsent, ended, TermInv
<1>7. RoomInv'
  BY <1>1, <1>2
     DEF IInv, Typed, TypedCall, TypedCredit, TypedWriter, RoomInv, blocked, ended,
         Calls
<1>8. TermInv'
  BY <1>1, <1>2
     DEF IInv, Typed, TermInv
<1>9. FinInv'
  BY <1>1, <1>2
     DEF IInv, Typed, TypedQueue, TypedWriter, TypedCredit, FinInv, CarriesFin, InHand,
         Fin
<1>10. TypedCredit' /\ TypedQueue' /\ TypedWriter' /\ WriterInv' /\ HeldInv' /\ CreditInv'
  BY <1>1
     DEF IInv, Typed, TypedState, TypedCredit, TypedQueue, TypedWriter, WriterInv,
         HeldInv, CreditInv, Reset, ended, InHand, Unsent
<1> QED
  BY <1>3, <1>4, <1>5, <1>6, <1>7, <1>8, <1>9, <1>10 DEF IInv, Typed

(* end_write_fail disturbs neither a ledger nor the place of FIN.           *)
LEMMA EndWriteFailStep ==
    ASSUME IInv, end_write_fail
    PROVE  IInv'
<1>1. /\ pc = "fail" /\ send_failed' = (send_failed \/ entry)
      /\ pc' = IF term = "fin" THEN "send_fin" ELSE "idle"
      /\ life_q' \in BOOLEAN
      /\ len' = len /\ pending_grant' = pending_grant /\ accepted' = accepted
      /\ abandons' = abandons /\ term' = term /\ peer_stop' = peer_stop
      /\ drop_data' = drop_data /\ dc_open' = dc_open /\ dc_closed' = dc_closed
      /\ dc_dead' = dc_dead /\ cb' = cb /\ queue' = queue /\ w' = w
      /\ wire' = wire /\ terminal_wire' = terminal_wire /\ limit' = limit
      /\ sent' = sent /\ reserved' = reserved /\ entry' = entry
  BY WriteHalfAssumption
     DEF end_write_fail, IInv, Typed, TypedCall, TypedState, TypedCredit, TypedWriter,
         Fin, Reset, held, call, channel, state, queues, onwire, writer, flow
<1>2. TypedCall'
  BY <1>1, WriteHalfAssumption
     DEF IInv, Typed, TypedCall, Calls, Closes
<1>3. TypedState'
  BY <1>1, WriteHalfAssumption
     DEF IInv, Typed, TypedState
<1>4. TypedCredit'
  BY <1>1, WriteHalfAssumption
     DEF IInv, Typed, TypedCredit
<1>5. GrantInv'
  BY <1>1
     DEF IInv, Typed, TypedCall, GrantInv, blocked, TermInv
<1>6. RoomInv'
  BY <1>1
     DEF IInv, Typed, TypedCall, TypedCredit, TypedWriter, RoomInv, blocked, ended,
         Calls
<1>7. TermInv'
  BY <1>1
     DEF IInv, Typed, TermInv
<1>8. FinInv'
  BY <1>1
     DEF IInv, Typed, TypedQueue, TypedWriter, TypedCredit, FinInv, CarriesFin, InHand,
         Fin
<1>9. TypedQueue' /\ TypedWriter' /\ WriterInv' /\ HeldInv' /\ CreditInv' /\ BytesInv'
  BY <1>1
     DEF IInv, Typed, TypedState, TypedQueue, TypedWriter, WriterInv, HeldInv,
         CreditInv, BytesInv, Reset, ended, InHand, Unsent
<1> QED
  BY <1>2, <1>3, <1>4, <1>5, <1>6, <1>7, <1>8, <1>9 DEF IInv, Typed

(* send_fin: FIN is appended to a queue that has none.                      *)
LEMMA SendFinStep ==
    ASSUME IInv, send_fin
    PROVE  IInv'
<1>1. CASE ended
  <2>1. /\ pc = "send_fin" /\ pc' = "idle"
        /\ len' = len /\ pending_grant' = pending_grant /\ accepted' = accepted
        /\ abandons' = abandons /\ term' = term /\ peer_stop' = peer_stop
        /\ drop_data' = drop_data /\ dc_open' = dc_open /\ dc_closed' = dc_closed
        /\ dc_dead' = dc_dead /\ cb' = cb /\ queue' = queue /\ life_q' = life_q
        /\ w' = w /\ wire' = wire /\ terminal_wire' = terminal_wire
        /\ limit' = limit /\ sent' = sent /\ reserved' = reserved
        /\ send_failed' = send_failed /\ entry' = entry
    BY <1>1, WriteHalfAssumption
       DEF send_fin, room, ended, IInv, Typed, TypedCall, TypedState, TypedCredit, TypedWriter,
           Fin, Reset, held, call, channel, state, queues, onwire, writer, flow
  <2>2. TypedCall'
    BY <1>1, <2>1, WriteHalfAssumption
       DEF IInv, Typed, TypedCall, Calls, Closes
  <2>3. GrantInv'
    BY <1>1, <2>1
       DEF IInv, Typed, TypedCall, GrantInv, blocked, TermInv
  <2>4. RoomInv'
    BY <1>1, <2>1
       DEF IInv, Typed, TypedCall, TypedCredit, TypedWriter, RoomInv, blocked, ended,
           Calls
  <2>5. TermInv'
    BY <1>1, <2>1
       DEF IInv, Typed, TermInv
  <2>6. FinInv'
    BY <1>1, <2>1
       DEF IInv, Typed, TypedQueue, TypedWriter, TypedCredit, FinInv, CarriesFin,
           InHand, Fin
  <2>7. TypedState' /\ TypedCredit' /\ TypedQueue' /\ TypedWriter' /\ WriterInv' /\ HeldInv'
            /\ CreditInv' /\ BytesInv'
    BY <2>1
       DEF IInv, Typed, TypedState, TypedCredit, TypedQueue, TypedWriter, WriterInv,
           HeldInv, CreditInv, BytesInv, Reset, ended, InHand, Unsent
  <2> QED
    BY <2>2, <2>3, <2>4, <2>5, <2>6, <2>7 DEF IInv, Typed
<1>2. CASE ~ended
  <2>1. /\ pc = "send_fin" /\ pc' = "idle"
        /\ Len(queue) < QueueCap
        /\ queue' = Append(queue, Fin)
        /\ len' = len /\ pending_grant' = pending_grant /\ accepted' = accepted
        /\ abandons' = abandons /\ term' = term /\ peer_stop' = peer_stop
        /\ drop_data' = drop_data /\ dc_open' = dc_open /\ dc_closed' = dc_closed
        /\ dc_dead' = dc_dead /\ cb' = cb /\ life_q' = life_q /\ w' = w
        /\ wire' = wire /\ terminal_wire' = terminal_wire /\ limit' = limit
        /\ sent' = sent /\ reserved' = reserved /\ send_failed' = send_failed
        /\ entry' = entry
    BY <1>2, WriteHalfAssumption
       DEF send_fin, room, ended, IInv, Typed, TypedCall, TypedState, TypedCredit, TypedWriter,
           Fin, Reset, held, call, channel, state, queues, onwire, writer, flow
  <2>2. /\ queue' \in Frames /\ Len(queue') = Len(queue) + 1 /\ Len(queue) \in Nat
        /\ Sum(queue') = Sum(queue) + Fin /\ Sum(queue) \in Nat
        /\ (~HasFin(queue) => FinLast(queue')) /\ Fin = 0
    <3>1. queue \in Frames /\ Fin \in 0..MaxLen
      BY WriteHalfAssumption DEF IInv, Typed, TypedQueue, Fin
    <3> QED
      BY <2>1, <3>1, Appended DEF Fin
  <2>3. InHand' = InHand /\ Unsent' = Unsent /\ InHand \in Nat /\ Unsent \in Nat
    BY <1>2, <2>1, <2>2
       DEF IInv, Typed, TypedWriter, WriterInv, InHand, Unsent, Reset, Fin
  <2>4. TypedCall'
    BY <1>2, <2>1, <2>2, WriteHalfAssumption
       DEF IInv, Typed, TypedCall, Calls, Closes
  <2>5. TypedQueue'
    BY <1>2, <2>1, <2>2, WriteHalfAssumption
       DEF IInv, Typed, TypedQueue
  <2>6. WriterInv'
    BY <1>2, <2>1, <2>2
       DEF IInv, Typed, TypedWriter, WriterInv, ended
  <2>7. GrantInv'
    BY <1>2, <2>1, <2>2
       DEF IInv, Typed, TypedCall, GrantInv, blocked, TermInv
  <2>8. HeldInv'
    BY <1>2, <2>1, <2>2, <2>3
       DEF IInv, Typed, TypedCall, TypedCredit, HeldInv, ended
  <2>9. BytesInv'
    BY <1>2, <2>1, <2>2, <2>3
       DEF IInv, Typed, TypedState, TypedCall, TypedCredit, BytesInv, ended
  <2>10. RoomInv'
    BY <1>2, <2>1, <2>2
       DEF IInv, Typed, TypedCall, TypedCredit, TypedWriter, RoomInv, blocked, ended,
           Calls
  <2>11. TermInv'
    BY <1>2, <2>1, <2>2
       DEF IInv, Typed, TermInv
  <2>12. FinInv'
    BY <1>2, <2>1, <2>2
       DEF IInv, Typed, TypedQueue, TypedWriter, TypedCredit, FinInv, CarriesFin,
           InHand, Fin, TermInv
  <2>13. TypedState' /\ TypedCredit' /\ TypedWriter' /\ CreditInv'
    BY <2>1
       DEF IInv, Typed, TypedState, TypedCredit, TypedWriter, CreditInv, Reset, InHand,
           Unsent, ended
  <2> QED
    BY <2>4, <2>5, <2>6, <2>7, <2>8, <2>9, <2>10, <2>11, <2>12, <2>13 DEF IInv, Typed
<1> QED
  BY <1>1, <1>2, WriteHalfAssumption
     DEF send_fin, room, ended, IInv, Typed, TypedWriter, TypedState, TypedCredit, WriterInv,
         Fin, Reset

(* A dropped call leaves its grant held, and is counted.                    *)
LEMMA AbandonStep ==
    ASSUME IInv, abandon
    PROVE  IInv'
<1>1. /\ pc \in {"parked", "waiting", "send_fin"} /\ abandons < MaxAbandons
      /\ pc' = "idle" /\ abandons' = abandons + 1
      /\ len' = len /\ pending_grant' = pending_grant /\ accepted' = accepted
      /\ term' = term /\ peer_stop' = peer_stop /\ drop_data' = drop_data
      /\ dc_open' = dc_open /\ dc_closed' = dc_closed /\ dc_dead' = dc_dead
      /\ cb' = cb /\ queue' = queue /\ life_q' = life_q /\ w' = w
      /\ wire' = wire /\ terminal_wire' = terminal_wire /\ limit' = limit
      /\ sent' = sent /\ reserved' = reserved /\ send_failed' = send_failed
      /\ entry' = entry
  BY WriteHalfAssumption
     DEF abandon, IInv, Typed, TypedCall, TypedState, TypedCredit, TypedWriter, Fin,
         Reset, held, call, channel, state, queues, onwire, writer, flow
<1>2. TypedCall'
  BY <1>1, WriteHalfAssumption
     DEF IInv, Typed, TypedCall, Calls, Closes
<1>3. GrantInv'
  BY <1>1
     DEF IInv, Typed, TypedCall, GrantInv, blocked
<1>4. RoomInv'
  BY <1>1
     DEF IInv, Typed, TypedCall, TypedCredit, TypedWriter, RoomInv, blocked, ended,
         Calls
<1>5. TermInv'
  BY <1>1
     DEF IInv, Typed, TermInv
<1>6. FinInv'
  BY <1>1
     DEF IInv, Typed, TypedQueue, TypedWriter, TypedCredit, FinInv, CarriesFin, InHand,
         Fin
<1>7. TypedState' /\ TypedCredit' /\ TypedQueue' /\ TypedWriter' /\ WriterInv' /\ HeldInv'
          /\ CreditInv' /\ BytesInv'
  BY <1>1
     DEF IInv, Typed, TypedState, TypedCredit, TypedQueue, TypedWriter, WriterInv,
         HeldInv, CreditInv, BytesInv, Reset, ended, InHand, Unsent
<1> QED
  BY <1>2, <1>3, <1>4, <1>5, <1>6, <1>7 DEF IInv, Typed

(* drop releases the held grant, also the one of a call that panicked.      *)
LEMMA DropStep ==
    ASSUME IInv, drop
    PROVE  IInv'
<1>1. /\ pc \in {"idle", "panicked"} /\ pc' = "gone" /\ pending_grant' = 0
      /\ reserved' = IF entry THEN reserved - pending_grant ELSE reserved
      /\ len' = len /\ accepted' = accepted /\ abandons' = abandons
      /\ term' = term /\ peer_stop' = peer_stop /\ drop_data' = drop_data
      /\ dc_open' = dc_open /\ dc_closed' = dc_closed /\ dc_dead' = dc_dead
      /\ cb' = cb /\ queue' = queue /\ life_q' = life_q /\ w' = w
      /\ wire' = wire /\ terminal_wire' = terminal_wire /\ limit' = limit
      /\ sent' = sent /\ send_failed' = send_failed /\ entry' = entry
  BY WriteHalfAssumption
     DEF drop, release, IInv, Typed, TypedCall, TypedState, TypedCredit, TypedWriter,
         Fin, Reset, held, call, channel, state, queues, onwire, writer, flow
<1>2. Sum(queue) \in Nat
  BY <1>1, SumType DEF IInv, Typed, TypedQueue
<1>3. InHand' = InHand /\ Unsent' = Unsent /\ InHand \in Nat /\ Unsent \in Nat
  BY <1>1, <1>2
     DEF IInv, Typed, TypedWriter, WriterInv, InHand, Unsent, Reset, Fin
<1>4. TypedCall'
  BY <1>1, <1>2, WriteHalfAssumption
     DEF IInv, Typed, TypedCall, Calls, Closes
<1>5. TypedCredit'
  BY <1>1, <1>2, WriteHalfAssumption
     DEF IInv, Typed, TypedCredit, TypedCall, TypedWriter, HeldInv, InHand
<1>6. GrantInv'
  BY <1>1, <1>2
     DEF IInv, Typed, TypedCall, GrantInv, blocked
<1>7. HeldInv'
  <2>1. CASE entry
    BY <2>1, <1>1, <1>2, <1>3
       DEF IInv, Typed, TypedCall, TypedCredit, HeldInv, ended
  <2>2. CASE ~entry
    BY <2>2, <1>1, <1>2, <1>3
       DEF IInv, Typed, TypedCall, TypedCredit, HeldInv, ended
  <2> QED
    BY <2>1, <2>2
<1>8. CreditInv'
  <2>1. CASE entry
    BY <2>1, <1>1, <1>2, <1>3
       DEF IInv, Typed, TypedState, TypedCall, TypedCredit, CreditInv, ended, HeldInv
  <2>2. CASE ~entry
    BY <2>2, <1>1, <1>2, <1>3
       DEF IInv, Typed, TypedState, TypedCall, TypedCredit, CreditInv, ended, HeldInv
  <2> QED
    BY <2>1, <2>2
<1>9. RoomInv'
  BY <1>1, <1>2
     DEF IInv, Typed, TypedCall, TypedCredit, TypedWriter, RoomInv, blocked, ended,
         Calls
<1>10. TermInv'
  BY <1>1, <1>2
     DEF IInv, Typed, TermInv
<1>11. FinInv'
  BY <1>1, <1>2
     DEF IInv, Typed, TypedQueue, TypedWriter, TypedCredit, FinInv, CarriesFin, InHand,
         Fin
<1>12. TypedState' /\ TypedQueue' /\ TypedWriter' /\ WriterInv' /\ BytesInv'
  BY <1>1
     DEF IInv, Typed, TypedState, TypedQueue, TypedWriter, WriterInv, BytesInv, Reset,
         ended, InHand, Unsent
<1> QED
  BY <1>4, <1>5, <1>6, <1>7, <1>8, <1>9, <1>10, <1>11, <1>12 DEF IInv, Typed

(* wait_open: the writer task begins with nothing in hand, or ends.         *)
LEMMA WaitOpenStep ==
    ASSUME IInv, wait_open
    PROVE  IInv'
<1>1. CASE dc_open
  <2>1. /\ w.pc = "open"
        /\ w'.pc = "take" /\ w'.n = w.n /\ w' \in Writers
        /\ pc' = pc /\ len' = len /\ pending_grant' = pending_grant
        /\ accepted' = accepted /\ abandons' = abandons /\ term' = term
        /\ peer_stop' = peer_stop /\ drop_data' = drop_data /\ dc_open' = dc_open
        /\ dc_closed' = dc_closed /\ dc_dead' = dc_dead /\ cb' = cb
        /\ queue' = queue /\ life_q' = life_q /\ wire' = wire
        /\ terminal_wire' = terminal_wire /\ limit' = limit /\ sent' = sent
        /\ reserved' = reserved /\ send_failed' = send_failed /\ entry' = entry
    BY <1>1, WriteHalfAssumption
       DEF wait_open, ends, IInv, Typed, TypedCall, TypedState, TypedCredit, TypedWriter, Fin,
           Reset, Writers, held, call, channel, state, queues, onwire, writer, flow
  <2>2. Sum(queue) \in Nat
    BY <2>1, SumType DEF IInv, Typed, TypedQueue
  <2>3. InHand' = InHand /\ Unsent' = Unsent /\ InHand \in Nat /\ Unsent \in Nat
    BY <1>1, <2>1, <2>2
       DEF IInv, Typed, TypedWriter, WriterInv, InHand, Unsent, Reset, Fin
  <2>4. TypedWriter'
    BY <1>1, <2>1, <2>2, WriteHalfAssumption
       DEF IInv, Typed, TypedWriter, Reset
  <2>5. WriterInv'
    BY <1>1, <2>1, <2>2
       DEF IInv, Typed, TypedWriter, WriterInv, ended
  <2>6. HeldInv'
    BY <1>1, <2>1, <2>2, <2>3
       DEF IInv, Typed, TypedCall, TypedCredit, HeldInv, ended
  <2>7. CreditInv'
    BY <1>1, <2>1, <2>2, <2>3
       DEF IInv, Typed, TypedState, TypedCall, TypedCredit, CreditInv, ended
  <2>8. BytesInv'
    BY <1>1, <2>1, <2>2, <2>3
       DEF IInv, Typed, TypedState, TypedCall, TypedCredit, BytesInv, ended
  <2>9. RoomInv'
    BY <1>1, <2>1, <2>2
       DEF IInv, Typed, TypedCall, TypedCredit, TypedWriter, RoomInv, blocked, ended,
           Calls
  <2>10. FinInv'
    BY <1>1, <2>1, <2>2
       DEF IInv, Typed, TypedQueue, TypedWriter, TypedCredit, FinInv, CarriesFin,
           InHand, Fin
  <2>11. TypedCall' /\ TypedState' /\ TypedCredit' /\ TypedQueue' /\ GrantInv' /\ TermInv'
    BY <2>1
       DEF IInv, Typed, TypedState, TypedCall, TypedCredit, TypedQueue, GrantInv,
           TermInv, Calls, Closes, blocked
  <2> QED
    BY <2>4, <2>5, <2>6, <2>7, <2>8, <2>9, <2>10, <2>11 DEF IInv, Typed
<1>2. CASE ~dc_open
  <2>1. /\ w.pc = "open" /\ queue' = <<>> /\ life_q' = FALSE
        /\ w'.pc = "ended" /\ w'.n = 0 /\ w' \in Writers
        /\ pc' = pc /\ len' = len /\ pending_grant' = pending_grant
        /\ accepted' = accepted /\ abandons' = abandons /\ term' = term
        /\ peer_stop' = peer_stop /\ drop_data' = drop_data /\ dc_open' = dc_open
        /\ dc_closed' = dc_closed /\ dc_dead' = dc_dead /\ cb' = cb
        /\ wire' = wire /\ terminal_wire' = terminal_wire /\ limit' = limit
        /\ sent' = sent /\ reserved' = reserved /\ send_failed' = send_failed
        /\ entry' = entry
    BY <1>2, WriteHalfAssumption
       DEF wait_open, ends, IInv, Typed, TypedCall, TypedState, TypedCredit, TypedWriter, Fin,
           Reset, Writers, held, call, channel, state, queues, onwire, writer, flow
  <2>2. /\ Sum(queue) \in Nat /\ Sum(queue') = 0 /\ queue' \in Frames /\ Len(queue') = 0
        /\ ~HasFin(queue') /\ FinLast(queue')
    BY <2>1, SumType, SumEmpty, NoFinEmpty DEF IInv, Typed, TypedQueue, Frames
  <2>3. InHand' = 0 /\ Unsent' = 0 /\ InHand \in Nat /\ Unsent \in Nat
    BY <1>2, <2>1, <2>2
       DEF IInv, Typed, TypedWriter, WriterInv, InHand, Unsent, Reset, Fin
  <2>4. TypedState'
    BY <1>2, <2>1, <2>2, WriteHalfAssumption
       DEF IInv, Typed, TypedState
  <2>5. TypedQueue'
    BY <1>2, <2>1, <2>2, WriteHalfAssumption
       DEF IInv, Typed, TypedQueue
  <2>6. TypedWriter'
    BY <1>2, <2>1, <2>2, WriteHalfAssumption
       DEF IInv, Typed, TypedWriter, Reset
  <2>7. WriterInv'
    BY <1>2, <2>1, <2>2
       DEF IInv, Typed, TypedWriter, WriterInv, ended
  <2>8. HeldInv'
    BY <1>2, <2>1, <2>2, <2>3
       DEF IInv, Typed, TypedCall, TypedCredit, HeldInv, ended, WriterInv
  <2>9. CreditInv'
    BY <1>2, <2>1, <2>2, <2>3
       DEF IInv, Typed, TypedState, TypedCall, TypedCredit, CreditInv, ended, WriterInv
  <2>10. BytesInv'
    BY <1>2, <2>1, <2>2, <2>3
       DEF IInv, Typed, TypedState, TypedCall, TypedCredit, BytesInv, ended, WriterInv
  <2>11. RoomInv'
    BY <1>2, <2>1, <2>2
       DEF IInv, Typed, TypedCall, TypedCredit, TypedWriter, RoomInv, blocked, ended,
           Calls
  <2>12. FinInv'
    BY <1>2, <2>1, <2>2
       DEF IInv, Typed, TypedQueue, TypedWriter, TypedCredit, FinInv, CarriesFin,
           InHand, Fin, WriterInv
  <2>13. TypedCall' /\ TypedCredit' /\ GrantInv' /\ TermInv'
    BY <2>1
       DEF IInv, Typed, TypedState, TypedCall, TypedCredit, GrantInv, TermInv, Calls,
           Closes, blocked
  <2> QED
    BY <2>4, <2>5, <2>6, <2>7, <2>8, <2>9, <2>10, <2>11, <2>12, <2>13 DEF IInv, Typed
<1> QED
  BY <1>1, <1>2, WriteHalfAssumption
     DEF wait_open, ends, IInv, Typed, TypedWriter, TypedState, TypedCredit, WriterInv, Fin,
         Reset

(* writer_take: a frame moves from the queue into the hand, or its bytes    *)
(* are released.                                                            *)
LEMMA WriterTakeStep ==
    ASSUME IInv, writer_take
    PROVE  IInv'
<1> DEFINE h == Head(queue)
<1> HIDE DEF h
<1>1. CASE life_q
  <2>1. /\ w.pc = "take" /\ life_q' = FALSE
        /\ w'.pc = "send" /\ w'.n = -1 /\ w' \in Writers
        /\ pc' = pc /\ len' = len /\ pending_grant' = pending_grant
        /\ accepted' = accepted /\ abandons' = abandons /\ term' = term
        /\ peer_stop' = peer_stop /\ drop_data' = drop_data /\ dc_open' = dc_open
        /\ dc_closed' = dc_closed /\ dc_dead' = dc_dead /\ cb' = cb
        /\ queue' = queue /\ wire' = wire /\ terminal_wire' = terminal_wire
        /\ limit' = limit /\ sent' = sent /\ reserved' = reserved
        /\ send_failed' = send_failed /\ entry' = entry
    BY <1>1, WriteHalfAssumption
       DEF writer_take, h, ends, dropping, senders_gone, release, woken, IInv, Typed,
           TypedCall, TypedState, TypedCredit, TypedWriter,
           Fin, Reset, Writers, held, call, channel, state, queues, onwire, writer, flow
  <2>2. Sum(queue) \in Nat
    BY <2>1, SumType DEF IInv, Typed, TypedQueue
  <2>3. InHand' = 0 /\ Unsent' = 0 /\ InHand = 0 /\ Unsent = 0 /\ InHand \in Nat /\ Unsent \in Nat
    BY <1>1, <2>1, <2>2
       DEF IInv, Typed, TypedWriter, WriterInv, InHand, Unsent, Reset, Fin
  <2>4. TypedState'
    BY <1>1, <2>1, <2>2, WriteHalfAssumption
       DEF IInv, Typed, TypedState
  <2>5. TypedWriter'
    BY <1>1, <2>1, <2>2, WriteHalfAssumption
       DEF IInv, Typed, TypedWriter, Reset
  <2>6. WriterInv'
    BY <1>1, <2>1, <2>2
       DEF IInv, Typed, TypedWriter, WriterInv, ended
  <2>7. HeldInv'
    BY <1>1, <2>1, <2>2, <2>3
       DEF IInv, Typed, TypedCall, TypedCredit, HeldInv, ended, WriterInv
  <2>8. CreditInv'
    BY <1>1, <2>1, <2>2, <2>3
       DEF IInv, Typed, TypedState, TypedCall, TypedCredit, CreditInv, ended, WriterInv
  <2>9. BytesInv'
    BY <1>1, <2>1, <2>2, <2>3
       DEF IInv, Typed, TypedState, TypedCall, TypedCredit, BytesInv, ended, WriterInv
  <2>10. RoomInv'
    BY <1>1, <2>1, <2>2
       DEF IInv, Typed, TypedCall, TypedCredit, TypedWriter, RoomInv, blocked, ended,
           Calls
  <2>11. FinInv'
    BY <1>1, <2>1, <2>2
       DEF IInv, Typed, TypedQueue, TypedWriter, TypedCredit, FinInv, CarriesFin,
           InHand, Fin
  <2>12. TypedCall' /\ TypedCredit' /\ TypedQueue' /\ GrantInv' /\ TermInv'
    BY <2>1
       DEF IInv, Typed, TypedState, TypedCall, TypedCredit, TypedQueue, GrantInv,
           TermInv, Calls, Closes, blocked
  <2> QED
    BY <2>4, <2>5, <2>6, <2>7, <2>8, <2>9, <2>10, <2>11, <2>12 DEF IInv, Typed
<1>2. CASE ~life_q /\ queue # <<>> /\ dropping(h)
  <2>1. /\ w.pc = "take" /\ queue' = Tail(queue) /\ queue # <<>> /\ drop_data
        /\ reserved' = IF entry THEN reserved - h ELSE reserved
        /\ \/ pc' = pc
           \/ pc = "parked" /\ pc' = "poll"
        /\ len' = len /\ pending_grant' = pending_grant /\ accepted' = accepted
        /\ abandons' = abandons /\ term' = term /\ peer_stop' = peer_stop
        /\ drop_data' = drop_data /\ dc_open' = dc_open /\ dc_closed' = dc_closed
        /\ dc_dead' = dc_dead /\ cb' = cb /\ life_q' = life_q /\ w' = w
        /\ wire' = wire /\ terminal_wire' = terminal_wire /\ limit' = limit
        /\ sent' = sent /\ send_failed' = send_failed /\ entry' = entry
    BY <1>2, WriteHalfAssumption
       DEF writer_take, h, ends, dropping, senders_gone, release, woken, IInv, Typed,
           TypedCall, TypedState, TypedCredit, TypedWriter,
           Fin, Reset, held, call, channel, state, queues, onwire, writer, flow
  <2>2. /\ queue' \in Frames /\ Len(queue') = Len(queue) - 1 /\ Len(queue) \in Nat
        /\ Sum(queue') = Sum(queue) - h /\ Sum(queue) \in Nat /\ Sum(queue') \in Nat
               /\ h \in 0..MaxLen
    BY <2>1, Taken DEF IInv, Typed, TypedQueue, h
  <2>3. /\ ~HasFin(queue) => ~HasFin(queue') /\ h # Fin
        /\ FinLast(queue) => FinLast(queue') /\ (h = Fin => queue' = <<>>)
    BY <2>1, Taken DEF IInv, Typed, TypedQueue, h
  <2>4. InHand' = InHand /\ Unsent' = Unsent /\ InHand \in Nat /\ Unsent \in Nat
    BY <1>2, <2>1, <2>2
       DEF IInv, Typed, TypedWriter, WriterInv, InHand, Unsent, Reset, Fin
  <2>5. TypedCall'
    BY <1>2, <2>1, <2>2, WriteHalfAssumption
       DEF IInv, Typed, TypedCall, Calls, Closes
  <2>6. TypedCredit'
    BY <1>2, <2>1, <2>2, WriteHalfAssumption
       DEF IInv, Typed, TypedCredit, TypedCall, TypedWriter, HeldInv, InHand
  <2>7. TypedQueue'
    BY <1>2, <2>1, <2>2, WriteHalfAssumption
       DEF IInv, Typed, TypedQueue
  <2>8. WriterInv'
    BY <1>2, <2>1, <2>2
       DEF IInv, Typed, TypedWriter, WriterInv, ended
  <2>9. GrantInv'
    BY <1>2, <2>1, <2>2
       DEF IInv, Typed, TypedCall, GrantInv, blocked
  <2>10. HeldInv'
    <3>1. CASE entry
      <4>1. reserved' = reserved - h
        BY <3>1, <2>1
      <4>2. /\ h \in Nat /\ reserved \in Nat /\ pending_grant \in Nat
            /\ Sum(queue) \in Nat /\ InHand \in Nat
        BY <2>2, <2>4, WriteHalfAssumption DEF IInv, Typed, TypedCall, TypedCredit
      <4>3. reserved >= pending_grant + Sum(queue) + InHand
                /\ reserved <= pending_grant + Sum(queue) + InHand
        BY <3>1, <2>1 DEF IInv, HeldInv, ended
      <4>4. reserved' >= pending_grant + Sum(queue') + InHand
                /\ reserved' <= pending_grant + Sum(queue') + InHand
        BY <4>1, <4>2, <4>3, <2>2, <2>4
      <4> QED
        BY <4>4, <2>1, <2>2, <2>4 DEF HeldInv, ended
    <3>2. CASE ~entry
      BY <3>2, <2>1 DEF HeldInv
    <3> QED
      BY <3>1, <3>2
  <2>11. CreditInv'
    <3>1. reserved' = reserved - h \/ reserved' = reserved
      BY <2>1
    <3>2. /\ h \in Nat /\ reserved \in Nat /\ sent \in Nat /\ limit \in Nat
          /\ sent + reserved <= limit
      BY <2>2, <2>4, WriteHalfAssumption DEF IInv, Typed, TypedCredit, CreditInv
    <3>3. sent' + reserved' <= limit'
      BY <3>1, <3>2, <2>1
    <3> QED
      BY <3>3, <2>1, <2>4 DEF IInv, CreditInv, ended
  <2>12. BytesInv'
    <3>1. /\ wire \in Nat /\ accepted \in Nat /\ wire + Sum(queue) + Unsent <= accepted
      BY WriteHalfAssumption DEF IInv, Typed, TypedCall, TypedCredit, BytesInv
    <3>2. wire + Sum(queue') + Unsent <= accepted
      BY <3>1, <2>2, <2>4
    <3> QED
      BY <3>2, <2>1, <2>4 DEF BytesInv
  <2>13. RoomInv'
    BY <1>2, <2>1, <2>2
       DEF IInv, Typed, TypedCall, TypedCredit, TypedWriter, RoomInv, blocked, ended,
           Calls
  <2>14. TermInv'
    BY <1>2, <2>1, <2>2
       DEF IInv, Typed, TermInv
  <2>15. FinInv'
    BY <1>2, <2>1, <2>2, <2>3
       DEF IInv, Typed, TypedQueue, TypedWriter, TypedCredit, FinInv, CarriesFin,
           InHand, Fin
  <2>16. TypedState' /\ TypedWriter'
    BY <2>1
       DEF IInv, Typed, TypedState, TypedWriter, Reset
  <2> QED
    BY <2>5, <2>6, <2>7, <2>8, <2>9, <2>10, <2>11, <2>12, <2>13, <2>14, <2>15, <2>16 DEF IInv,
       Typed
<1>3. CASE ~life_q /\ queue # <<>> /\ ~dropping(h)
  <2>1. /\ w.pc = "take" /\ queue' = Tail(queue) /\ queue # <<>>
        /\ w' = [pc |-> "bound", n |-> h] /\ w'.pc = "bound" /\ w'.n = h
        /\ pc' = pc /\ len' = len /\ pending_grant' = pending_grant
        /\ accepted' = accepted /\ abandons' = abandons /\ term' = term
        /\ peer_stop' = peer_stop /\ drop_data' = drop_data /\ dc_open' = dc_open
        /\ dc_closed' = dc_closed /\ dc_dead' = dc_dead /\ cb' = cb
        /\ life_q' = life_q /\ wire' = wire /\ terminal_wire' = terminal_wire
        /\ limit' = limit /\ sent' = sent /\ reserved' = reserved
        /\ send_failed' = send_failed /\ entry' = entry
    BY <1>3, WriteHalfAssumption
       DEF writer_take, h, ends, dropping, senders_gone, release, woken, IInv, Typed,
           TypedCall, TypedState, TypedCredit, TypedWriter,
           Fin, Reset, Writers, held, call, channel, state, queues, onwire, writer, flow
  <2>2. /\ queue' \in Frames /\ Len(queue') = Len(queue) - 1 /\ Len(queue) \in Nat
        /\ Sum(queue') = Sum(queue) - h /\ Sum(queue) \in Nat /\ Sum(queue') \in Nat
               /\ h \in 0..MaxLen
    BY <2>1, Taken DEF IInv, Typed, TypedQueue, h
  <2>3. /\ ~HasFin(queue) => ~HasFin(queue') /\ h # Fin
        /\ FinLast(queue) => FinLast(queue') /\ (h = Fin => queue' = <<>>)
    BY <2>1, Taken DEF IInv, Typed, TypedQueue, h
  <2>4. InHand' = h /\ Unsent' = h /\ InHand = 0 /\ Unsent = 0 /\ InHand \in Nat /\ Unsent \in Nat
    BY <1>3, <2>1, <2>2
       DEF IInv, Typed, TypedWriter, WriterInv, InHand, Unsent, Reset, Fin
  <2>5. TypedQueue'
    BY <1>3, <2>1, <2>2, WriteHalfAssumption
       DEF IInv, Typed, TypedQueue
  <2>6. TypedWriter'
    BY <1>3, <2>1, <2>2, WriteHalfAssumption
       DEF IInv, Typed, TypedWriter, Reset, Writers
  <2>7. WriterInv'
    BY <1>3, <2>1, <2>2
       DEF IInv, Typed, TypedWriter, WriterInv, ended
  <2>8. HeldInv'
    BY <1>3, <2>1, <2>2, <2>4
       DEF IInv, Typed, TypedCall, TypedCredit, HeldInv, ended, WriterInv
  <2>9. CreditInv'
    BY <1>3, <2>1, <2>2, <2>4
       DEF IInv, Typed, TypedState, TypedCall, TypedCredit, CreditInv, ended, WriterInv
  <2>10. BytesInv'
    BY <1>3, <2>1, <2>2, <2>4
       DEF IInv, Typed, TypedState, TypedCall, TypedCredit, BytesInv, ended, WriterInv
  <2>11. RoomInv'
    BY <1>3, <2>1, <2>2
       DEF IInv, Typed, TypedCall, TypedCredit, TypedWriter, RoomInv, blocked, ended,
           Calls
  <2>12. FinInv'
    BY <1>3, <2>1, <2>2, <2>3
       DEF IInv, Typed, TypedQueue, TypedWriter, TypedCredit, FinInv, CarriesFin,
           InHand, Fin
  <2>13. TypedCall' /\ TypedState' /\ TypedCredit' /\ GrantInv' /\ TermInv'
    BY <2>1
       DEF IInv, Typed, TypedState, TypedCall, TypedCredit, GrantInv, TermInv, Calls,
           Closes, blocked
  <2> QED
    BY <2>5, <2>6, <2>7, <2>8, <2>9, <2>10, <2>11, <2>12, <2>13 DEF IInv, Typed
<1>4. CASE ~life_q /\ queue = <<>>
  <2>1. /\ w.pc = "take" /\ queue' = <<>> /\ life_q' = FALSE
        /\ w'.pc = "ended" /\ w'.n = 0 /\ w' \in Writers
        /\ pc' = pc /\ len' = len /\ pending_grant' = pending_grant
        /\ accepted' = accepted /\ abandons' = abandons /\ term' = term
        /\ peer_stop' = peer_stop /\ drop_data' = drop_data /\ dc_open' = dc_open
        /\ dc_closed' = dc_closed /\ dc_dead' = dc_dead /\ cb' = cb
        /\ wire' = wire /\ terminal_wire' = terminal_wire /\ limit' = limit
        /\ sent' = sent /\ reserved' = reserved /\ send_failed' = send_failed
        /\ entry' = entry
    BY <1>4, WriteHalfAssumption
       DEF writer_take, h, ends, dropping, senders_gone, release, woken, IInv, Typed,
           TypedCall, TypedState, TypedCredit, TypedWriter,
           Fin, Reset, Writers, held, call, channel, state, queues, onwire, writer, flow
  <2>2. /\ Sum(queue) \in Nat /\ Sum(queue') = 0 /\ queue' \in Frames /\ Len(queue') = 0
        /\ ~HasFin(queue') /\ FinLast(queue')
    BY <2>1, SumType, SumEmpty, NoFinEmpty DEF IInv, Typed, TypedQueue, Frames
  <2>3. InHand' = 0 /\ Unsent' = 0 /\ InHand \in Nat /\ Unsent \in Nat
    BY <1>4, <2>1, <2>2
       DEF IInv, Typed, TypedWriter, WriterInv, InHand, Unsent, Reset, Fin
  <2>4. TypedState'
    BY <1>4, <2>1, <2>2, WriteHalfAssumption
       DEF IInv, Typed, TypedState
  <2>5. TypedQueue'
    BY <1>4, <2>1, <2>2, WriteHalfAssumption
       DEF IInv, Typed, TypedQueue
  <2>6. TypedWriter'
    BY <1>4, <2>1, <2>2, WriteHalfAssumption
       DEF IInv, Typed, TypedWriter, Reset
  <2>7. WriterInv'
    BY <1>4, <2>1, <2>2
       DEF IInv, Typed, TypedWriter, WriterInv, ended
  <2>8. HeldInv'
    BY <1>4, <2>1, <2>2, <2>3
       DEF IInv, Typed, TypedCall, TypedCredit, HeldInv, ended, WriterInv
  <2>9. CreditInv'
    BY <1>4, <2>1, <2>2, <2>3
       DEF IInv, Typed, TypedState, TypedCall, TypedCredit, CreditInv, ended, WriterInv
  <2>10. BytesInv'
    BY <1>4, <2>1, <2>2, <2>3
       DEF IInv, Typed, TypedState, TypedCall, TypedCredit, BytesInv, ended, WriterInv
  <2>11. RoomInv'
    BY <1>4, <2>1, <2>2
       DEF IInv, Typed, TypedCall, TypedCredit, TypedWriter, RoomInv, blocked, ended,
           Calls
  <2>12. FinInv'
    BY <1>4, <2>1, <2>2
       DEF IInv, Typed, TypedQueue, TypedWriter, TypedCredit, FinInv, CarriesFin,
           InHand, Fin
  <2>13. TypedCall' /\ TypedCredit' /\ GrantInv' /\ TermInv'
    BY <2>1
       DEF IInv, Typed, TypedState, TypedCall, TypedCredit, GrantInv, TermInv, Calls,
           Closes, blocked
  <2> QED
    BY <2>4, <2>5, <2>6, <2>7, <2>8, <2>9, <2>10, <2>11, <2>12, <2>13 DEF IInv, Typed
<1> QED
  BY <1>1, <1>2, <1>3, <1>4, WriteHalfAssumption
     DEF writer_take, h, ends, dropping, senders_gone, release, woken, IInv, Typed,
         TypedWriter, TypedState, TypedCredit, WriterInv, Fin,
         Reset

(* writer_bound: the frame goes on, or its bytes are released and the task  *)
(* ends.                                                                    *)
LEMMA WriterBoundStep ==
    ASSUME IInv, writer_bound
    PROVE  IInv'
<1>1. CASE dc_closed
  <2>1. /\ w.pc = "bound" /\ queue' = <<>> /\ life_q' = FALSE
        /\ w'.pc = "ended" /\ w'.n = 0 /\ w' \in Writers
        /\ reserved' = IF entry THEN reserved - w.n ELSE reserved
        /\ \/ pc' = pc
           \/ pc = "parked" /\ pc' = "poll"
        /\ len' = len /\ pending_grant' = pending_grant /\ accepted' = accepted
        /\ abandons' = abandons /\ term' = term /\ peer_stop' = peer_stop
        /\ drop_data' = drop_data /\ dc_open' = dc_open /\ dc_closed' = dc_closed
        /\ dc_dead' = dc_dead /\ cb' = cb /\ wire' = wire
        /\ terminal_wire' = terminal_wire /\ limit' = limit /\ sent' = sent
        /\ send_failed' = send_failed /\ entry' = entry
    BY <1>1, WriteHalfAssumption
       DEF writer_bound, ends, release, woken, IInv, Typed, TypedCall, TypedState,
           TypedCredit, TypedWriter,
           Fin, Reset, Writers, held, call, channel, state, queues, onwire, writer, flow
  <2>2. /\ Sum(queue) \in Nat /\ Sum(queue') = 0 /\ queue' \in Frames /\ Len(queue') = 0
        /\ ~HasFin(queue') /\ FinLast(queue')
    BY <2>1, SumType, SumEmpty, NoFinEmpty DEF IInv, Typed, TypedQueue, Frames
  <2>3. InHand' = 0 /\ Unsent' = 0 /\ InHand = w.n /\ Unsent = w.n /\ w.n \in Nat
            /\ InHand \in Nat /\ Unsent \in Nat
    BY <1>1, <2>1, <2>2
       DEF IInv, Typed, TypedWriter, WriterInv, InHand, Unsent, Reset, Fin
  <2>4. TypedCall'
    BY <1>1, <2>1, <2>2, WriteHalfAssumption
       DEF IInv, Typed, TypedCall, Calls, Closes
  <2>5. TypedState'
    BY <1>1, <2>1, <2>2, WriteHalfAssumption
       DEF IInv, Typed, TypedState
  <2>6. TypedCredit'
    BY <1>1, <2>1, <2>2, WriteHalfAssumption
       DEF IInv, Typed, TypedCredit, TypedCall, TypedWriter, HeldInv, InHand, WriterInv
  <2>7. TypedQueue'
    BY <1>1, <2>1, <2>2, WriteHalfAssumption
       DEF IInv, Typed, TypedQueue
  <2>8. TypedWriter'
    BY <1>1, <2>1, <2>2, WriteHalfAssumption
       DEF IInv, Typed, TypedWriter, Reset
  <2>9. WriterInv'
    BY <1>1, <2>1, <2>2
       DEF IInv, Typed, TypedWriter, WriterInv, ended
  <2>10. GrantInv'
    BY <1>1, <2>1, <2>2
       DEF IInv, Typed, TypedCall, GrantInv, blocked
  <2>11. HeldInv'
    <3>1. CASE entry
      <4>1. reserved' = reserved - w.n
        BY <3>1, <2>1
      <4>2. /\ w.n \in Nat /\ reserved \in Nat /\ pending_grant \in Nat
            /\ Sum(queue) \in Nat /\ InHand \in Nat
        BY <2>2, <2>3, WriteHalfAssumption DEF IInv, Typed, TypedCall, TypedCredit
      <4>3. reserved >= pending_grant + Sum(queue) + InHand
        BY <3>1 DEF IInv, HeldInv, ended
      <4>4. reserved' >= pending_grant + 0 + 0
        BY <4>1, <4>2, <4>3, <2>2, <2>3
      <4> QED
        BY <4>4, <2>1, <2>2, <2>3 DEF HeldInv, ended
    <3>2. CASE ~entry
      BY <3>2, <2>1 DEF HeldInv
    <3> QED
      BY <3>1, <3>2
  <2>12. CreditInv'
    <3>1. reserved' = reserved - w.n \/ reserved' = reserved
      BY <2>1
    <3>2. /\ w.n \in Nat /\ reserved \in Nat /\ sent \in Nat /\ limit \in Nat
          /\ sent + reserved <= limit
      BY <2>2, <2>3, WriteHalfAssumption DEF IInv, Typed, TypedCredit, CreditInv
    <3>3. sent' + reserved' <= limit'
      BY <3>1, <3>2, <2>1
    <3> QED
      BY <3>3, <2>1, <2>3 DEF IInv, CreditInv, ended
  <2>13. BytesInv'
    BY <1>1, <2>1, <2>2, <2>3
       DEF IInv, Typed, TypedState, TypedCall, TypedCredit, BytesInv, ended, WriterInv
  <2>14. RoomInv'
    BY <1>1, <2>1, <2>2
       DEF IInv, Typed, TypedCall, TypedCredit, TypedWriter, RoomInv, blocked, ended,
           Calls
  <2>15. TermInv'
    BY <1>1, <2>1, <2>2
       DEF IInv, Typed, TermInv
  <2>16. FinInv'
    BY <1>1, <2>1, <2>2
       DEF IInv, Typed, TypedQueue, TypedWriter, TypedCredit, FinInv, CarriesFin,
           InHand, Fin
  <2> QED
    BY <2>4, <2>5, <2>6, <2>7, <2>8, <2>9, <2>10, <2>11, <2>12, <2>13, <2>14, <2>15, <2>16
       DEF IInv, Typed
<1>2. CASE ~dc_closed
  <2>1. /\ w.pc = "bound"
        /\ w'.pc = "send" /\ w'.n = w.n /\ w' \in Writers
        /\ pc' = pc /\ len' = len /\ pending_grant' = pending_grant
        /\ accepted' = accepted /\ abandons' = abandons /\ term' = term
        /\ peer_stop' = peer_stop /\ drop_data' = drop_data /\ dc_open' = dc_open
        /\ dc_closed' = dc_closed /\ dc_dead' = dc_dead /\ cb' = cb
        /\ queue' = queue /\ life_q' = life_q /\ wire' = wire
        /\ terminal_wire' = terminal_wire /\ limit' = limit /\ sent' = sent
        /\ reserved' = reserved /\ send_failed' = send_failed /\ entry' = entry
    BY <1>2, WriteHalfAssumption
       DEF writer_bound, ends, release, woken, IInv, Typed, TypedCall, TypedState,
           TypedCredit, TypedWriter,
           Fin, Reset, Writers, held, call, channel, state, queues, onwire, writer, flow
  <2>2. Sum(queue) \in Nat
    BY <2>1, SumType DEF IInv, Typed, TypedQueue
  <2>3. InHand' = InHand /\ Unsent' = Unsent /\ InHand \in Nat /\ Unsent \in Nat
    BY <1>2, <2>1, <2>2
       DEF IInv, Typed, TypedWriter, WriterInv, InHand, Unsent, Reset, Fin
  <2>4. TypedWriter'
    BY <1>2, <2>1, <2>2, WriteHalfAssumption
       DEF IInv, Typed, TypedWriter, Reset
  <2>5. WriterInv'
    BY <1>2, <2>1, <2>2
       DEF IInv, Typed, TypedWriter, WriterInv, ended
  <2>6. HeldInv'
    BY <1>2, <2>1, <2>2, <2>3
       DEF IInv, Typed, TypedCall, TypedCredit, HeldInv, ended
  <2>7. CreditInv'
    BY <1>2, <2>1, <2>2, <2>3
       DEF IInv, Typed, TypedState, TypedCall, TypedCredit, CreditInv, ended
  <2>8. BytesInv'
    BY <1>2, <2>1, <2>2, <2>3
       DEF IInv, Typed, TypedState, TypedCall, TypedCredit, BytesInv, ended
  <2>9. RoomInv'
    BY <1>2, <2>1, <2>2
       DEF IInv, Typed, TypedCall, TypedCredit, TypedWriter, RoomInv, blocked, ended,
           Calls
  <2>10. FinInv'
    BY <1>2, <2>1, <2>2
       DEF IInv, Typed, TypedQueue, TypedWriter, TypedCredit, FinInv, CarriesFin,
           InHand, Fin
  <2>11. TypedCall' /\ TypedState' /\ TypedCredit' /\ TypedQueue' /\ GrantInv' /\ TermInv'
    BY <2>1
       DEF IInv, Typed, TypedState, TypedCall, TypedCredit, TypedQueue, GrantInv,
           TermInv, Calls, Closes, blocked
  <2> QED
    BY <2>4, <2>5, <2>6, <2>7, <2>8, <2>9, <2>10, <2>11 DEF IInv, Typed
<1> QED
  BY <1>1, <1>2, WriteHalfAssumption
     DEF writer_bound, ends, release, woken, IInv, Typed, TypedWriter, TypedState,
         TypedCredit, WriterInv,
         Fin, Reset

(* writer_send: the frame is on the wire, behind all that was accepted if   *)
(* it is FIN; or the task ends and releases it.                             *)
LEMMA WriterSendStep ==
    ASSUME IInv, writer_send
    PROVE  IInv'
<1>1. CASE ~dc_dead /\ w.n > 0
  <2>1. /\ w.pc = "send" /\ wire' = wire + w.n
        /\ w'.pc = "sent" /\ w'.n = w.n /\ w' \in Writers
        /\ pc' = pc /\ len' = len /\ pending_grant' = pending_grant
        /\ accepted' = accepted /\ abandons' = abandons /\ term' = term
        /\ peer_stop' = peer_stop /\ drop_data' = drop_data /\ dc_open' = dc_open
        /\ dc_closed' = dc_closed /\ dc_dead' = dc_dead /\ cb' = cb
        /\ queue' = queue /\ life_q' = life_q /\ terminal_wire' = terminal_wire
        /\ limit' = limit /\ sent' = sent /\ reserved' = reserved
        /\ send_failed' = send_failed /\ entry' = entry
    BY <1>1, WriteHalfAssumption
       DEF writer_send, ends, release, woken, IInv, Typed, TypedCall, TypedState,
           TypedCredit, TypedWriter,
           Fin, Reset, Writers, held, call, channel, state, queues, onwire, writer, flow
  <2>2. Sum(queue) \in Nat
    BY <2>1, SumType DEF IInv, Typed, TypedQueue
  <2>3. InHand' = w.n /\ InHand = w.n /\ Unsent' = 0 /\ Unsent = w.n /\ InHand \in Nat
            /\ Unsent \in Nat
    BY <1>1, <2>1, <2>2
       DEF IInv, Typed, TypedWriter, WriterInv, InHand, Unsent, Reset, Fin
  <2>4. TypedCredit'
    BY <1>1, <2>1, <2>2, WriteHalfAssumption
       DEF IInv, Typed, TypedCredit, TypedCall, TypedWriter, BytesInv, InHand, Unsent
  <2>5. TypedWriter'
    BY <1>1, <2>1, <2>2, WriteHalfAssumption
       DEF IInv, Typed, TypedWriter, Reset
  <2>6. WriterInv'
    BY <1>1, <2>1, <2>2
       DEF IInv, Typed, TypedWriter, WriterInv, ended
  <2>7. HeldInv'
    BY <1>1, <2>1, <2>2, <2>3
       DEF IInv, Typed, TypedCall, TypedCredit, HeldInv, ended
  <2>8. CreditInv'
    BY <1>1, <2>1, <2>2, <2>3
       DEF IInv, Typed, TypedState, TypedCall, TypedCredit, CreditInv, ended
  <2>9. BytesInv'
    BY <1>1, <2>1, <2>2, <2>3
       DEF IInv, Typed, TypedState, TypedCall, TypedCredit, BytesInv, ended
  <2>10. RoomInv'
    BY <1>1, <2>1, <2>2
       DEF IInv, Typed, TypedCall, TypedCredit, TypedWriter, RoomInv, blocked, ended,
           Calls
  <2>11. FinInv'
    BY <1>1, <2>1, <2>2
       DEF IInv, Typed, TypedQueue, TypedWriter, TypedCredit, FinInv, CarriesFin,
           InHand, Fin
  <2>12. TypedCall' /\ TypedState' /\ TypedQueue' /\ GrantInv' /\ TermInv'
    BY <2>1
       DEF IInv, Typed, TypedState, TypedCall, TypedQueue, GrantInv, TermInv, Calls,
           Closes, blocked
  <2> QED
    BY <2>4, <2>5, <2>6, <2>7, <2>8, <2>9, <2>10, <2>11, <2>12 DEF IInv, Typed
<1>2. CASE ~dc_dead /\ w.n = Fin
  <2>1. /\ w.pc = "send" /\ terminal_wire' = "fin"
        /\ w'.pc = "sent" /\ w'.n = w.n /\ w' \in Writers
        /\ pc' = pc /\ len' = len /\ pending_grant' = pending_grant
        /\ accepted' = accepted /\ abandons' = abandons /\ term' = term
        /\ peer_stop' = peer_stop /\ drop_data' = drop_data /\ dc_open' = dc_open
        /\ dc_closed' = dc_closed /\ dc_dead' = dc_dead /\ cb' = cb
        /\ queue' = queue /\ life_q' = life_q /\ wire' = wire /\ limit' = limit
        /\ sent' = sent /\ reserved' = reserved /\ send_failed' = send_failed
        /\ entry' = entry
    BY <1>2, WriteHalfAssumption
       DEF writer_send, ends, release, woken, IInv, Typed, TypedCall, TypedState,
           TypedCredit, TypedWriter,
           Fin, Reset, Writers, held, call, channel, state, queues, onwire, writer, flow
  <2>2. Sum(queue) \in Nat
    BY <2>1, SumType DEF IInv, Typed, TypedQueue
  <2>3. InHand' = InHand /\ Unsent' = 0 /\ Unsent = 0 /\ InHand \in Nat /\ Unsent \in Nat
    BY <1>2, <2>1, <2>2
       DEF IInv, Typed, TypedWriter, WriterInv, InHand, Unsent, Reset, Fin
  <2>4. TypedState'
    BY <1>2, <2>1, <2>2, WriteHalfAssumption
       DEF IInv, Typed, TypedState
  <2>5. TypedWriter'
    BY <1>2, <2>1, <2>2, WriteHalfAssumption
       DEF IInv, Typed, TypedWriter, Reset
  <2>6. WriterInv'
    BY <1>2, <2>1, <2>2
       DEF IInv, Typed, TypedWriter, WriterInv, ended
  <2>7. HeldInv'
    BY <1>2, <2>1, <2>2, <2>3
       DEF IInv, Typed, TypedCall, TypedCredit, HeldInv, ended, Fin
  <2>8. CreditInv'
    BY <1>2, <2>1, <2>2, <2>3
       DEF IInv, Typed, TypedState, TypedCall, TypedCredit, CreditInv, ended, Fin
  <2>9. BytesInv'
    BY <1>2, <2>1, <2>2, <2>3
       DEF IInv, Typed, TypedState, TypedCall, TypedCredit, BytesInv, ended, Fin
  <2>10. RoomInv'
    BY <1>2, <2>1, <2>2
       DEF IInv, Typed, TypedCall, TypedCredit, TypedWriter, RoomInv, blocked, ended,
           Calls
  <2>11. FinInv'
    <3>1. CarriesFin /\ InHand = 0
      BY <1>2, <2>1 DEF CarriesFin, InHand, Fin
    <3>2. queue = <<>> /\ term = "fin" /\ pc \notin {"fail", "send_fin"}
      BY <3>1 DEF IInv, FinInv
    <3>3. ~drop_data /\ ~ended
      BY <2>1, <3>2 DEF IInv, Typed, TypedState, TermInv, ended
    <3>4. wire + 0 + 0 <= accepted /\ accepted <= wire + 0 + 0
      BY <2>3, <3>2, <3>3, SumEmpty DEF IInv, BytesInv
    <3>5. wire = accepted
      BY <3>4 DEF IInv, Typed, TypedCall, TypedCredit
    <3>6. InHand' = 0 /\ CarriesFin'
      BY <1>2, <2>1 DEF InHand, CarriesFin, Fin
    <3> QED
      BY <2>1, <3>2, <3>5, <3>6 DEF IInv, FinInv
  <2>12. TypedCall' /\ TypedCredit' /\ TypedQueue' /\ GrantInv' /\ TermInv'
    BY <2>1
       DEF IInv, Typed, TypedState, TypedCall, TypedCredit, TypedQueue, GrantInv,
           TermInv, Calls, Closes, blocked
  <2> QED
    BY <2>4, <2>5, <2>6, <2>7, <2>8, <2>9, <2>10, <2>11, <2>12 DEF IInv, Typed
<1>3. CASE ~dc_dead /\ w.n = Reset
  <2>1. /\ w.pc = "send" /\ terminal_wire' = "reset"
        /\ w'.pc = "sent" /\ w'.n = w.n /\ w' \in Writers
        /\ pc' = pc /\ len' = len /\ pending_grant' = pending_grant
        /\ accepted' = accepted /\ abandons' = abandons /\ term' = term
        /\ peer_stop' = peer_stop /\ drop_data' = drop_data /\ dc_open' = dc_open
        /\ dc_closed' = dc_closed /\ dc_dead' = dc_dead /\ cb' = cb
        /\ queue' = queue /\ life_q' = life_q /\ wire' = wire /\ limit' = limit
        /\ sent' = sent /\ reserved' = reserved /\ send_failed' = send_failed
        /\ entry' = entry
    BY <1>3, WriteHalfAssumption
       DEF writer_send, ends, release, woken, IInv, Typed, TypedCall, TypedState,
           TypedCredit, TypedWriter,
           Fin, Reset, Writers, held, call, channel, state, queues, onwire, writer, flow
  <2>2. Sum(queue) \in Nat
    BY <2>1, SumType DEF IInv, Typed, TypedQueue
  <2>3. InHand' = InHand /\ Unsent' = 0 /\ Unsent = 0 /\ InHand \in Nat /\ Unsent \in Nat
    BY <1>3, <2>1, <2>2
       DEF IInv, Typed, TypedWriter, WriterInv, InHand, Unsent, Reset, Fin
  <2>4. TypedState'
    BY <1>3, <2>1, <2>2, WriteHalfAssumption
       DEF IInv, Typed, TypedState
  <2>5. TypedWriter'
    BY <1>3, <2>1, <2>2, WriteHalfAssumption
       DEF IInv, Typed, TypedWriter, Reset
  <2>6. WriterInv'
    BY <1>3, <2>1, <2>2
       DEF IInv, Typed, TypedWriter, WriterInv, ended
  <2>7. HeldInv'
    BY <1>3, <2>1, <2>2, <2>3
       DEF IInv, Typed, TypedCall, TypedCredit, HeldInv, ended, Reset
  <2>8. CreditInv'
    BY <1>3, <2>1, <2>2, <2>3
       DEF IInv, Typed, TypedState, TypedCall, TypedCredit, CreditInv, ended, Reset
  <2>9. BytesInv'
    BY <1>3, <2>1, <2>2, <2>3
       DEF IInv, Typed, TypedState, TypedCall, TypedCredit, BytesInv, ended, Reset
  <2>10. RoomInv'
    BY <1>3, <2>1, <2>2
       DEF IInv, Typed, TypedCall, TypedCredit, TypedWriter, RoomInv, blocked, ended,
           Calls
  <2>11. FinInv'
    BY <1>3, <2>1, <2>2
       DEF IInv, Typed, TypedQueue, TypedWriter, TypedCredit, FinInv, CarriesFin,
           InHand, Fin, Reset
  <2>12. TypedCall' /\ TypedCredit' /\ TypedQueue' /\ GrantInv' /\ TermInv'
    BY <2>1
       DEF IInv, Typed, TypedState, TypedCall, TypedCredit, TypedQueue, GrantInv,
           TermInv, Calls, Closes, blocked
  <2> QED
    BY <2>4, <2>5, <2>6, <2>7, <2>8, <2>9, <2>10, <2>11, <2>12 DEF IInv, Typed
<1>4. CASE dc_dead /\ w.n > 0
  <2>1. /\ w.pc = "send" /\ queue' = <<>> /\ life_q' = FALSE
        /\ w'.pc = "ended" /\ w'.n = 0 /\ w' \in Writers
        /\ reserved' = IF entry THEN reserved - w.n ELSE reserved
        /\ \/ pc' = pc
           \/ pc = "parked" /\ pc' = "poll"
        /\ len' = len /\ pending_grant' = pending_grant /\ accepted' = accepted
        /\ abandons' = abandons /\ term' = term /\ peer_stop' = peer_stop
        /\ drop_data' = drop_data /\ dc_open' = dc_open /\ dc_closed' = dc_closed
        /\ dc_dead' = dc_dead /\ cb' = cb /\ wire' = wire
        /\ terminal_wire' = terminal_wire /\ limit' = limit /\ sent' = sent
        /\ send_failed' = send_failed /\ entry' = entry
    BY <1>4, WriteHalfAssumption
       DEF writer_send, ends, release, woken, IInv, Typed, TypedCall, TypedState,
           TypedCredit, TypedWriter,
           Fin, Reset, Writers, held, call, channel, state, queues, onwire, writer, flow
  <2>2. /\ Sum(queue) \in Nat /\ Sum(queue') = 0 /\ queue' \in Frames /\ Len(queue') = 0
        /\ ~HasFin(queue') /\ FinLast(queue')
    BY <2>1, SumType, SumEmpty, NoFinEmpty DEF IInv, Typed, TypedQueue, Frames
  <2>3. InHand' = 0 /\ Unsent' = 0 /\ InHand = w.n /\ Unsent = w.n /\ w.n \in Nat
            /\ InHand \in Nat /\ Unsent \in Nat
    BY <1>4, <2>1, <2>2
       DEF IInv, Typed, TypedWriter, WriterInv, InHand, Unsent, Reset, Fin
  <2>4. TypedCall'
    BY <1>4, <2>1, <2>2, WriteHalfAssumption
       DEF IInv, Typed, TypedCall, Calls, Closes
  <2>5. TypedState'
    BY <1>4, <2>1, <2>2, WriteHalfAssumption
       DEF IInv, Typed, TypedState
  <2>6. TypedCredit'
    BY <1>4, <2>1, <2>2, WriteHalfAssumption
       DEF IInv, Typed, TypedCredit, TypedCall, TypedWriter, HeldInv, InHand
  <2>7. TypedQueue'
    BY <1>4, <2>1, <2>2, WriteHalfAssumption
       DEF IInv, Typed, TypedQueue
  <2>8. TypedWriter'
    BY <1>4, <2>1, <2>2, WriteHalfAssumption
       DEF IInv, Typed, TypedWriter, Reset
  <2>9. WriterInv'
    BY <1>4, <2>1, <2>2
       DEF IInv, Typed, TypedWriter, WriterInv, ended
  <2>10. GrantInv'
    BY <1>4, <2>1, <2>2
       DEF IInv, Typed, TypedCall, GrantInv, blocked
  <2>11. HeldInv'
    <3>1. CASE entry
      <4>1. reserved' = reserved - w.n
        BY <3>1, <2>1
      <4>2. /\ w.n \in Nat /\ reserved \in Nat /\ pending_grant \in Nat
            /\ Sum(queue) \in Nat /\ InHand \in Nat
        BY <2>2, <2>3, WriteHalfAssumption DEF IInv, Typed, TypedCall, TypedCredit
      <4>3. reserved >= pending_grant + Sum(queue) + InHand
        BY <3>1 DEF IInv, HeldInv, ended
      <4>4. reserved' >= pending_grant + 0 + 0
        BY <4>1, <4>2, <4>3, <2>2, <2>3
      <4> QED
        BY <4>4, <2>1, <2>2, <2>3 DEF HeldInv, ended
    <3>2. CASE ~entry
      BY <3>2, <2>1 DEF HeldInv
    <3> QED
      BY <3>1, <3>2
  <2>12. CreditInv'
    <3>1. reserved' = reserved - w.n \/ reserved' = reserved
      BY <2>1
    <3>2. /\ w.n \in Nat /\ reserved \in Nat /\ sent \in Nat /\ limit \in Nat
          /\ sent + reserved <= limit
      BY <2>2, <2>3, WriteHalfAssumption DEF IInv, Typed, TypedCredit, CreditInv
    <3>3. sent' + reserved' <= limit'
      BY <3>1, <3>2, <2>1
    <3> QED
      BY <3>3, <2>1, <2>3 DEF IInv, CreditInv, ended
  <2>13. BytesInv'
    BY <1>4, <2>1, <2>2, <2>3
       DEF IInv, Typed, TypedState, TypedCall, TypedCredit, BytesInv, ended
  <2>14. RoomInv'
    BY <1>4, <2>1, <2>2
       DEF IInv, Typed, TypedCall, TypedCredit, TypedWriter, RoomInv, blocked, ended,
           Calls
  <2>15. TermInv'
    BY <1>4, <2>1, <2>2
       DEF IInv, Typed, TermInv
  <2>16. FinInv'
    BY <1>4, <2>1, <2>2
       DEF IInv, Typed, TypedQueue, TypedWriter, TypedCredit, FinInv, CarriesFin,
           InHand, Fin
  <2> QED
    BY <2>4, <2>5, <2>6, <2>7, <2>8, <2>9, <2>10, <2>11, <2>12, <2>13, <2>14, <2>15, <2>16
       DEF IInv, Typed
<1>5. CASE dc_dead /\ w.n <= 0
  <2>1. /\ w.pc = "send" /\ queue' = <<>> /\ life_q' = FALSE
        /\ w'.pc = "ended" /\ w'.n = 0 /\ w' \in Writers
        /\ pc' = pc /\ len' = len /\ pending_grant' = pending_grant
        /\ accepted' = accepted /\ abandons' = abandons /\ term' = term
        /\ peer_stop' = peer_stop /\ drop_data' = drop_data /\ dc_open' = dc_open
        /\ dc_closed' = dc_closed /\ dc_dead' = dc_dead /\ cb' = cb
        /\ wire' = wire /\ terminal_wire' = terminal_wire /\ limit' = limit
        /\ sent' = sent /\ reserved' = reserved /\ send_failed' = send_failed
        /\ entry' = entry
    BY <1>5, WriteHalfAssumption
       DEF writer_send, ends, release, woken, IInv, Typed, TypedCall, TypedState,
           TypedCredit, TypedWriter,
           Fin, Reset, Writers, held, call, channel, state, queues, onwire, writer, flow
  <2>2. /\ Sum(queue) \in Nat /\ Sum(queue') = 0 /\ queue' \in Frames /\ Len(queue') = 0
        /\ ~HasFin(queue') /\ FinLast(queue')
    BY <2>1, SumType, SumEmpty, NoFinEmpty DEF IInv, Typed, TypedQueue, Frames
  <2>3. InHand' = 0 /\ Unsent' = 0 /\ InHand = 0 /\ Unsent = 0 /\ InHand \in Nat /\ Unsent \in Nat
    BY <1>5, <2>1, <2>2
       DEF IInv, Typed, TypedWriter, WriterInv, InHand, Unsent, Reset, Fin
  <2>4. TypedState'
    BY <1>5, <2>1, <2>2, WriteHalfAssumption
       DEF IInv, Typed, TypedState
  <2>5. TypedQueue'
    BY <1>5, <2>1, <2>2, WriteHalfAssumption
       DEF IInv, Typed, TypedQueue
  <2>6. TypedWriter'
    BY <1>5, <2>1, <2>2, WriteHalfAssumption
       DEF IInv, Typed, TypedWriter, Reset
  <2>7. WriterInv'
    BY <1>5, <2>1, <2>2
       DEF IInv, Typed, TypedWriter, WriterInv, ended
  <2>8. HeldInv'
    BY <1>5, <2>1, <2>2, <2>3
       DEF IInv, Typed, TypedCall, TypedCredit, HeldInv, ended
  <2>9. CreditInv'
    BY <1>5, <2>1, <2>2, <2>3
       DEF IInv, Typed, TypedState, TypedCall, TypedCredit, CreditInv, ended
  <2>10. BytesInv'
    BY <1>5, <2>1, <2>2, <2>3
       DEF IInv, Typed, TypedState, TypedCall, TypedCredit, BytesInv, ended
  <2>11. RoomInv'
    BY <1>5, <2>1, <2>2
       DEF IInv, Typed, TypedCall, TypedCredit, TypedWriter, RoomInv, blocked, ended,
           Calls
  <2>12. FinInv'
    BY <1>5, <2>1, <2>2
       DEF IInv, Typed, TypedQueue, TypedWriter, TypedCredit, FinInv, CarriesFin,
           InHand, Fin
  <2>13. TypedCall' /\ TypedCredit' /\ GrantInv' /\ TermInv'
    BY <2>1
       DEF IInv, Typed, TypedState, TypedCall, TypedCredit, GrantInv, TermInv, Calls,
           Closes, blocked
  <2> QED
    BY <2>4, <2>5, <2>6, <2>7, <2>8, <2>9, <2>10, <2>11, <2>12, <2>13 DEF IInv, Typed
<1> QED
  BY <1>1, <1>2, <1>3, <1>4, <1>5, WriteHalfAssumption
     DEF writer_send, ends, release, woken, IInv, Typed, TypedWriter, TypedState,
         TypedCredit, WriterInv, Fin,
         Reset

(* writer_sent: commit moves the bytes from reserved to sent.               *)
LEMMA WriterSentStep ==
    ASSUME IInv, writer_sent
    PROVE  IInv'
<1>1. CASE w.n > 0
  <2>1. /\ w.pc = "sent"
        /\ w'.pc = "take" /\ w'.n = 0 /\ w' \in Writers
        /\ sent' = IF entry THEN sent + w.n ELSE sent
        /\ reserved' = IF entry THEN reserved - w.n ELSE reserved
        /\ pc' = pc /\ len' = len /\ pending_grant' = pending_grant
        /\ accepted' = accepted /\ abandons' = abandons /\ term' = term
        /\ peer_stop' = peer_stop /\ drop_data' = drop_data /\ dc_open' = dc_open
        /\ dc_closed' = dc_closed /\ dc_dead' = dc_dead /\ cb' = cb
        /\ queue' = queue /\ life_q' = life_q /\ wire' = wire
        /\ terminal_wire' = terminal_wire /\ limit' = limit
        /\ send_failed' = send_failed /\ entry' = entry
    BY <1>1, WriteHalfAssumption
       DEF writer_sent, commit, IInv, Typed, TypedCall, TypedState, TypedCredit, TypedWriter,
           Fin, Reset, Writers, held, call, channel, state, queues, onwire, writer, flow
  <2>2. Sum(queue) \in Nat
    BY <2>1, SumType DEF IInv, Typed, TypedQueue
  <2>3. InHand' = 0 /\ Unsent' = 0 /\ InHand = w.n /\ Unsent = 0 /\ w.n \in Nat
            /\ InHand \in Nat /\ Unsent \in Nat
    BY <1>1, <2>1, <2>2
       DEF IInv, Typed, TypedWriter, WriterInv, InHand, Unsent, Reset, Fin
  <2>4. TypedCredit'
    BY <1>1, <2>1, <2>2, WriteHalfAssumption
       DEF IInv, Typed, TypedCredit, TypedCall, TypedWriter, HeldInv, CreditInv, InHand,
           ended
  <2>5. TypedWriter'
    BY <1>1, <2>1, <2>2, WriteHalfAssumption
       DEF IInv, Typed, TypedWriter, Reset
  <2>6. WriterInv'
    BY <1>1, <2>1, <2>2
       DEF IInv, Typed, TypedWriter, WriterInv, ended
  <2>7. HeldInv'
    <3>1. CASE entry
      BY <3>1, <1>1, <2>1, <2>2, <2>3
         DEF IInv, Typed, TypedCall, TypedCredit, HeldInv, ended
    <3>2. CASE ~entry
      BY <3>2, <1>1, <2>1, <2>2, <2>3
         DEF IInv, Typed, TypedCall, TypedCredit, HeldInv, ended
    <3> QED
      BY <3>1, <3>2
  <2>8. CreditInv'
    <3>1. CASE entry
      BY <3>1, <1>1, <2>1, <2>2, <2>3
         DEF IInv, Typed, TypedState, TypedCall, TypedCredit, CreditInv, ended, HeldInv
    <3>2. CASE ~entry
      BY <3>2, <1>1, <2>1, <2>2, <2>3
         DEF IInv, Typed, TypedState, TypedCall, TypedCredit, CreditInv, ended, HeldInv
    <3> QED
      BY <3>1, <3>2
  <2>9. BytesInv'
    BY <1>1, <2>1, <2>2, <2>3
       DEF IInv, Typed, TypedState, TypedCall, TypedCredit, BytesInv, ended
  <2>10. RoomInv'
    BY <1>1, <2>1, <2>2
       DEF IInv, Typed, TypedCall, TypedCredit, TypedWriter, RoomInv, blocked, ended,
           Calls
  <2>11. FinInv'
    BY <1>1, <2>1, <2>2
       DEF IInv, Typed, TypedQueue, TypedWriter, TypedCredit, FinInv, CarriesFin,
           InHand, Fin
  <2>12. TypedCall' /\ TypedState' /\ TypedQueue' /\ GrantInv' /\ TermInv'
    BY <2>1
       DEF IInv, Typed, TypedState, TypedCall, TypedQueue, GrantInv, TermInv, Calls,
           Closes, blocked
  <2> QED
    BY <2>4, <2>5, <2>6, <2>7, <2>8, <2>9, <2>10, <2>11, <2>12 DEF IInv, Typed
<1>2. CASE w.n <= 0
  <2>1. /\ w.pc = "sent"
        /\ w'.pc = "take" /\ w'.n = 0 /\ w' \in Writers
        /\ pc' = pc /\ len' = len /\ pending_grant' = pending_grant
        /\ accepted' = accepted /\ abandons' = abandons /\ term' = term
        /\ peer_stop' = peer_stop /\ drop_data' = drop_data /\ dc_open' = dc_open
        /\ dc_closed' = dc_closed /\ dc_dead' = dc_dead /\ cb' = cb
        /\ queue' = queue /\ life_q' = life_q /\ wire' = wire
        /\ terminal_wire' = terminal_wire /\ limit' = limit /\ sent' = sent
        /\ reserved' = reserved /\ send_failed' = send_failed /\ entry' = entry
    BY <1>2, WriteHalfAssumption
       DEF writer_sent, commit, IInv, Typed, TypedCall, TypedState, TypedCredit, TypedWriter,
           Fin, Reset, Writers, held, call, channel, state, queues, onwire, writer, flow
  <2>2. Sum(queue) \in Nat
    BY <2>1, SumType DEF IInv, Typed, TypedQueue
  <2>3. InHand' = 0 /\ Unsent' = 0 /\ InHand = 0 /\ Unsent = 0 /\ InHand \in Nat /\ Unsent \in Nat
    BY <1>2, <2>1, <2>2
       DEF IInv, Typed, TypedWriter, WriterInv, InHand, Unsent, Reset, Fin
  <2>4. TypedWriter'
    BY <1>2, <2>1, <2>2, WriteHalfAssumption
       DEF IInv, Typed, TypedWriter, Reset
  <2>5. WriterInv'
    BY <1>2, <2>1, <2>2
       DEF IInv, Typed, TypedWriter, WriterInv, ended
  <2>6. HeldInv'
    BY <1>2, <2>1, <2>2, <2>3
       DEF IInv, Typed, TypedCall, TypedCredit, HeldInv, ended
  <2>7. CreditInv'
    BY <1>2, <2>1, <2>2, <2>3
       DEF IInv, Typed, TypedState, TypedCall, TypedCredit, CreditInv, ended
  <2>8. BytesInv'
    BY <1>2, <2>1, <2>2, <2>3
       DEF IInv, Typed, TypedState, TypedCall, TypedCredit, BytesInv, ended
  <2>9. RoomInv'
    BY <1>2, <2>1, <2>2
       DEF IInv, Typed, TypedCall, TypedCredit, TypedWriter, RoomInv, blocked, ended,
           Calls
  <2>10. FinInv'
    BY <1>2, <2>1, <2>2
       DEF IInv, Typed, TypedQueue, TypedWriter, TypedCredit, FinInv, CarriesFin,
           InHand, Fin
  <2>11. TypedCall' /\ TypedState' /\ TypedCredit' /\ TypedQueue' /\ GrantInv' /\ TermInv'
    BY <2>1
       DEF IInv, Typed, TypedState, TypedCall, TypedCredit, TypedQueue, GrantInv,
           TermInv, Calls, Closes, blocked
  <2> QED
    BY <2>4, <2>5, <2>6, <2>7, <2>8, <2>9, <2>10, <2>11 DEF IInv, Typed
<1> QED
  BY <1>1, <1>2, WriteHalfAssumption
     DEF writer_sent, commit, IInv, Typed, TypedWriter, TypedState, TypedCredit, WriterInv, Fin,
         Reset

(* on_open touches no ledger.                                               *)
LEMMA OnOpenStep ==
    ASSUME IInv, on_open
    PROVE  IInv'
<1>1. /\ dc_open' = TRUE
      /\ pc' = pc /\ len' = len /\ pending_grant' = pending_grant
      /\ accepted' = accepted /\ abandons' = abandons /\ term' = term
      /\ peer_stop' = peer_stop /\ drop_data' = drop_data
      /\ dc_closed' = dc_closed /\ dc_dead' = dc_dead /\ cb' = cb
      /\ queue' = queue /\ life_q' = life_q /\ w' = w /\ wire' = wire
      /\ terminal_wire' = terminal_wire /\ limit' = limit /\ sent' = sent
      /\ reserved' = reserved /\ send_failed' = send_failed /\ entry' = entry
  BY WriteHalfAssumption
     DEF on_open, IInv, Typed, TypedCall, TypedState, TypedCredit, TypedWriter, Fin,
         Reset, held, call, channel, state, queues, onwire, writer, flow
<1>2. TypedState'
  BY <1>1, WriteHalfAssumption
     DEF IInv, Typed, TypedState
<1>3. TypedCall' /\ TypedCredit' /\ TypedQueue' /\ TypedWriter' /\ WriterInv' /\ GrantInv'
          /\ HeldInv' /\ CreditInv' /\ BytesInv' /\ RoomInv' /\ TermInv' /\ FinInv'
  BY <1>1
     DEF IInv, Typed, TypedState, TypedCall, TypedCredit, TypedQueue, TypedWriter,
         WriterInv, GrantInv, HeldInv, CreditInv, BytesInv, RoomInv, TermInv, FinInv,
         Calls, Closes, Reset, ended, blocked, InHand, Unsent, CarriesFin, Fin
<1> QED
  BY <1>2, <1>3 DEF IInv, Typed

(* on_stop_sending: data is discarded only under a reset, so FIN keeps its  *)
(* promise.                                                                 *)
LEMMA OnStopSendingStep ==
    ASSUME IInv, on_stop_sending
    PROVE  IInv'
<1>1. /\ peer_stop' = TRUE
      /\ term' = IF term = "none" THEN "reset" ELSE term
      /\ drop_data' = (drop_data \/ term = "none")
      /\ cb' \in {"fail", "reset"}
      /\ pc' = pc /\ len' = len /\ pending_grant' = pending_grant
      /\ accepted' = accepted /\ abandons' = abandons /\ dc_open' = dc_open
      /\ dc_closed' = dc_closed /\ dc_dead' = dc_dead /\ queue' = queue
      /\ life_q' = life_q /\ w' = w /\ wire' = wire
      /\ terminal_wire' = terminal_wire /\ limit' = limit /\ sent' = sent
      /\ reserved' = reserved /\ send_failed' = send_failed /\ entry' = entry
  BY WriteHalfAssumption
     DEF on_stop_sending, discards, IInv, Typed, TypedCall, TypedState, TypedCredit,
         TypedWriter, Fin, Reset, held, call, channel, state, queues, onwire, writer,
         flow
<1>2. Sum(queue) \in Nat
  BY <1>1, SumType DEF IInv, Typed, TypedQueue
<1>3. TypedCall'
  BY <1>1, <1>2, WriteHalfAssumption
     DEF IInv, Typed, TypedCall, Calls, Closes
<1>4. TypedState'
  BY <1>1, <1>2, WriteHalfAssumption
     DEF IInv, Typed, TypedState
<1>5. GrantInv'
  BY <1>1, <1>2
     DEF IInv, Typed, TypedCall, GrantInv, blocked
<1>6. BytesInv'
  BY <1>1, <1>2
     DEF IInv, Typed, TypedState, TypedCall, TypedCredit, TypedWriter, BytesInv, InHand,
         Unsent, ended
<1>7. RoomInv'
  BY <1>1, <1>2
     DEF IInv, Typed, TypedCall, TypedCredit, TypedWriter, RoomInv, blocked, ended,
         Calls
<1>8. TermInv'
  BY <1>1, <1>2
     DEF IInv, Typed, TermInv
<1>9. FinInv'
  BY <1>1, <1>2
     DEF IInv, Typed, TypedQueue, TypedWriter, TypedCredit, FinInv, CarriesFin, InHand,
         Fin
<1>10. TypedCredit' /\ TypedQueue' /\ TypedWriter' /\ WriterInv' /\ HeldInv' /\ CreditInv'
  BY <1>1
     DEF IInv, Typed, TypedState, TypedCredit, TypedQueue, TypedWriter, WriterInv,
         HeldInv, CreditInv, Reset, ended, InHand, Unsent
<1> QED
  BY <1>3, <1>4, <1>5, <1>6, <1>7, <1>8, <1>9, <1>10 DEF IInv, Typed

(* channel_dies touches no ledger.                                          *)
LEMMA ChannelDiesStep ==
    ASSUME IInv, channel_dies
    PROVE  IInv'
<1>1. /\ dc_dead' = TRUE
      /\ pc' = pc /\ len' = len /\ pending_grant' = pending_grant
      /\ accepted' = accepted /\ abandons' = abandons /\ term' = term
      /\ peer_stop' = peer_stop /\ drop_data' = drop_data /\ dc_open' = dc_open
      /\ dc_closed' = dc_closed /\ cb' = cb /\ queue' = queue
      /\ life_q' = life_q /\ w' = w /\ wire' = wire
      /\ terminal_wire' = terminal_wire /\ limit' = limit /\ sent' = sent
      /\ reserved' = reserved /\ send_failed' = send_failed /\ entry' = entry
  BY WriteHalfAssumption
     DEF channel_dies, IInv, Typed, TypedCall, TypedState, TypedCredit, TypedWriter,
         Fin, Reset, held, call, channel, state, queues, onwire, writer, flow
<1>2. TypedState'
  BY <1>1, WriteHalfAssumption
     DEF IInv, Typed, TypedState
<1>3. TypedCall' /\ TypedCredit' /\ TypedQueue' /\ TypedWriter' /\ WriterInv' /\ GrantInv'
          /\ HeldInv' /\ CreditInv' /\ BytesInv' /\ RoomInv' /\ TermInv' /\ FinInv'
  BY <1>1
     DEF IInv, Typed, TypedState, TypedCall, TypedCredit, TypedQueue, TypedWriter,
         WriterInv, GrantInv, HeldInv, CreditInv, BytesInv, RoomInv, TermInv, FinInv,
         Calls, Closes, Reset, ended, blocked, InHand, Unsent, CarriesFin, Fin
<1> QED
  BY <1>2, <1>3 DEF IInv, Typed

(* on_channel_close blocks the writes that follow.                          *)
LEMMA OnChannelCloseStep ==
    ASSUME IInv, on_channel_close
    PROVE  IInv'
<1>1. /\ dc_closed' = TRUE /\ cb' = "fail"
      /\ pc' = pc /\ len' = len /\ pending_grant' = pending_grant
      /\ accepted' = accepted /\ abandons' = abandons /\ term' = term
      /\ peer_stop' = peer_stop /\ drop_data' = drop_data /\ dc_open' = dc_open
      /\ dc_dead' = dc_dead /\ queue' = queue /\ life_q' = life_q /\ w' = w
      /\ wire' = wire /\ terminal_wire' = terminal_wire /\ limit' = limit
      /\ sent' = sent /\ reserved' = reserved /\ send_failed' = send_failed
      /\ entry' = entry
  BY WriteHalfAssumption
     DEF on_channel_close, IInv, Typed, TypedCall, TypedState, TypedCredit, TypedWriter,
         Fin, Reset, held, call, channel, state, queues, onwire, writer, flow
<1>2. Sum(queue) \in Nat
  BY <1>1, SumType DEF IInv, Typed, TypedQueue
<1>3. TypedCall'
  BY <1>1, <1>2, WriteHalfAssumption
     DEF IInv, Typed, TypedCall, Calls, Closes
<1>4. TypedState'
  BY <1>1, <1>2, WriteHalfAssumption
     DEF IInv, Typed, TypedState
<1>5. GrantInv'
  BY <1>1, <1>2
     DEF IInv, Typed, TypedCall, GrantInv, blocked
<1>6. CreditInv'
  BY <1>1, <1>2
     DEF IInv, Typed, TypedState, TypedCall, TypedCredit, TypedWriter, CreditInv,
         InHand, Unsent, ended
<1>7. RoomInv'
  BY <1>1, <1>2
     DEF IInv, Typed, TypedCall, TypedCredit, TypedWriter, RoomInv, blocked, ended,
         Calls
<1>8. TypedCredit' /\ TypedQueue' /\ TypedWriter' /\ WriterInv' /\ HeldInv' /\ BytesInv'
          /\ TermInv' /\ FinInv'
  BY <1>1
     DEF IInv, Typed, TypedState, TypedCredit, TypedQueue, TypedWriter, WriterInv,
         HeldInv, BytesInv, TermInv, FinInv, Reset, ended, InHand, Unsent, CarriesFin,
         Fin
<1> QED
  BY <1>3, <1>4, <1>5, <1>6, <1>7, <1>8 DEF IInv, Typed

(* cb_fail wakes a parked write, and touches no ledger.                     *)
LEMMA CbFailStep ==
    ASSUME IInv, cb_fail
    PROVE  IInv'
<1>1. /\ send_failed' \in BOOLEAN /\ life_q' \in BOOLEAN /\ cb' = "none"
      /\ \/ pc' = pc
         \/ pc = "parked" /\ pc' = "poll"
      /\ len' = len /\ pending_grant' = pending_grant /\ accepted' = accepted
      /\ abandons' = abandons /\ term' = term /\ peer_stop' = peer_stop
      /\ drop_data' = drop_data /\ dc_open' = dc_open /\ dc_closed' = dc_closed
      /\ dc_dead' = dc_dead /\ queue' = queue /\ w' = w /\ wire' = wire
      /\ terminal_wire' = terminal_wire /\ limit' = limit /\ sent' = sent
      /\ reserved' = reserved /\ entry' = entry
  BY WriteHalfAssumption
     DEF cb_fail, failed_write, woken, replies, ended, IInv, Typed, TypedCall,
         TypedState, TypedCredit, TypedWriter, Fin, Reset, held, call, channel, state,
         queues, onwire, writer, flow
<1>2. TypedCall'
  BY <1>1, WriteHalfAssumption
     DEF IInv, Typed, TypedCall, Calls, Closes
<1>3. TypedState'
  BY <1>1, WriteHalfAssumption
     DEF IInv, Typed, TypedState
<1>4. TypedCredit'
  BY <1>1, WriteHalfAssumption
     DEF IInv, Typed, TypedCredit
<1>5. GrantInv'
  BY <1>1
     DEF IInv, Typed, TypedCall, GrantInv, blocked
<1>6. RoomInv'
  BY <1>1
     DEF IInv, Typed, TypedCall, TypedCredit, TypedWriter, RoomInv, blocked, ended,
         Calls
<1>7. TermInv'
  BY <1>1
     DEF IInv, Typed, TermInv
<1>8. FinInv'
  BY <1>1
     DEF IInv, Typed, TypedQueue, TypedWriter, TypedCredit, FinInv, CarriesFin, InHand,
         Fin
<1>9. TypedQueue' /\ TypedWriter' /\ WriterInv' /\ HeldInv' /\ CreditInv' /\ BytesInv'
  BY <1>1
     DEF IInv, Typed, TypedState, TypedQueue, TypedWriter, WriterInv, HeldInv,
         CreditInv, BytesInv, Reset, ended, InHand, Unsent
<1> QED
  BY <1>2, <1>3, <1>4, <1>5, <1>6, <1>7, <1>8, <1>9 DEF IInv, Typed

(* on_peer_max_data raises the limit.                                       *)
LEMMA OnPeerMaxDataStep ==
    ASSUME IInv, on_peer_max_data
    PROVE  IInv'
<1>1. /\ limit < MaxLimit /\ limit' = limit + 1
      /\ \/ pc' = pc
         \/ pc = "parked" /\ pc' = "poll"
      /\ len' = len /\ pending_grant' = pending_grant /\ accepted' = accepted
      /\ abandons' = abandons /\ term' = term /\ peer_stop' = peer_stop
      /\ drop_data' = drop_data /\ dc_open' = dc_open /\ dc_closed' = dc_closed
      /\ dc_dead' = dc_dead /\ cb' = cb /\ queue' = queue /\ life_q' = life_q
      /\ w' = w /\ wire' = wire /\ terminal_wire' = terminal_wire
      /\ sent' = sent /\ reserved' = reserved /\ send_failed' = send_failed
      /\ entry' = entry
  BY WriteHalfAssumption
     DEF on_peer_max_data, woken, IInv, Typed, TypedCall, TypedState, TypedCredit,
         TypedWriter, Fin, Reset, held, call, channel, state, queues, onwire, writer,
         flow
<1>2. Sum(queue) \in Nat
  BY <1>1, SumType DEF IInv, Typed, TypedQueue
<1>3. TypedCall'
  BY <1>1, <1>2, WriteHalfAssumption
     DEF IInv, Typed, TypedCall, Calls, Closes
<1>4. TypedCredit'
  BY <1>1, <1>2, WriteHalfAssumption
     DEF IInv, Typed, TypedCredit
<1>5. GrantInv'
  BY <1>1, <1>2
     DEF IInv, Typed, TypedCall, GrantInv, blocked
<1>6. CreditInv'
  BY <1>1, <1>2
     DEF IInv, Typed, TypedState, TypedCall, TypedCredit, TypedWriter, CreditInv,
         InHand, Unsent, ended
<1>7. RoomInv'
  BY <1>1, <1>2
     DEF IInv, Typed, TypedCall, TypedCredit, TypedWriter, RoomInv, blocked, ended,
         Calls
<1>8. TermInv'
  BY <1>1, <1>2
     DEF IInv, Typed, TermInv
<1>9. FinInv'
  BY <1>1, <1>2
     DEF IInv, Typed, TypedQueue, TypedWriter, TypedCredit, FinInv, CarriesFin, InHand,
         Fin
<1>10. TypedState' /\ TypedQueue' /\ TypedWriter' /\ WriterInv' /\ HeldInv' /\ BytesInv'
  BY <1>1
     DEF IInv, Typed, TypedState, TypedQueue, TypedWriter, WriterInv, HeldInv, BytesInv,
         Reset, ended, InHand, Unsent
<1> QED
  BY <1>3, <1>4, <1>5, <1>6, <1>7, <1>8, <1>9, <1>10 DEF IInv, Typed

(* drop_stream drops the reserved bytes with the entry.                     *)
LEMMA DropStreamStep ==
    ASSUME IInv, drop_stream
    PROVE  IInv'
<1>1. /\ entry' = FALSE /\ entry' \in BOOLEAN /\ reserved' = 0 /\ dc_closed
      /\ \/ pc' = pc
         \/ pc = "parked" /\ pc' = "poll"
      /\ len' = len /\ pending_grant' = pending_grant /\ accepted' = accepted
      /\ abandons' = abandons /\ term' = term /\ peer_stop' = peer_stop
      /\ drop_data' = drop_data /\ dc_open' = dc_open /\ dc_closed' = dc_closed
      /\ dc_dead' = dc_dead /\ cb' = cb /\ queue' = queue /\ life_q' = life_q
      /\ w' = w /\ wire' = wire /\ terminal_wire' = terminal_wire
      /\ limit' = limit /\ sent' = sent /\ send_failed' = send_failed
  BY WriteHalfAssumption
     DEF drop_stream, woken, IInv, Typed, TypedCall, TypedState, TypedCredit,
         TypedWriter, Fin, Reset, held, call, channel, state, queues, onwire, writer,
         flow
<1>2. Sum(queue) \in Nat
  BY <1>1, SumType DEF IInv, Typed, TypedQueue
<1>3. InHand' = InHand /\ Unsent' = Unsent /\ InHand \in Nat /\ Unsent \in Nat
  BY <1>1, <1>2
     DEF IInv, Typed, TypedWriter, WriterInv, InHand, Unsent, Reset, Fin
<1>4. TypedCall'
  BY <1>1, <1>2, WriteHalfAssumption
     DEF IInv, Typed, TypedCall, Calls, Closes
<1>5. TypedCredit'
  BY <1>1, <1>2, WriteHalfAssumption
     DEF IInv, Typed, TypedCredit
<1>6. GrantInv'
  BY <1>1, <1>2
     DEF IInv, Typed, TypedCall, GrantInv, blocked
<1>7. HeldInv'
  BY <1>1, <1>2, <1>3
     DEF IInv, Typed, TypedCall, TypedCredit, HeldInv, ended
<1>8. CreditInv'
  BY <1>1, <1>2, <1>3
     DEF IInv, Typed, TypedState, TypedCall, TypedCredit, CreditInv, ended
<1>9. RoomInv'
  BY <1>1, <1>2
     DEF IInv, Typed, TypedCall, TypedCredit, TypedWriter, RoomInv, blocked, ended,
         Calls
<1>10. TermInv'
  BY <1>1, <1>2
     DEF IInv, Typed, TermInv
<1>11. FinInv'
  BY <1>1, <1>2
     DEF IInv, Typed, TypedQueue, TypedWriter, TypedCredit, FinInv, CarriesFin, InHand,
         Fin
<1>12. TypedState' /\ TypedQueue' /\ TypedWriter' /\ WriterInv' /\ BytesInv'
  BY <1>1
     DEF IInv, Typed, TypedState, TypedQueue, TypedWriter, WriterInv, BytesInv, Reset,
         ended, InHand, Unsent
<1> QED
  BY <1>4, <1>5, <1>6, <1>7, <1>8, <1>9, <1>10, <1>11, <1>12 DEF IInv, Typed

(* A new stream satisfies the inductive invariant.                          *)
LEMMA InitIInv ==
    ASSUME Init PROVE IInv
<1>1. /\ pc = "idle" /\ len = 0 /\ pending_grant = 0 /\ accepted = 0 /\ abandons = 0
      /\ term = "none" /\ peer_stop = FALSE /\ drop_data = FALSE
      /\ dc_open = FALSE /\ dc_closed = FALSE /\ dc_dead = FALSE
      /\ cb = "none" /\ queue = <<>> /\ life_q = FALSE
      /\ w.pc = "open" /\ w.n = 0 /\ w \in Writers /\ wire = 0 /\ terminal_wire = "none"
      /\ limit = 0 /\ sent = 0 /\ reserved = 0 /\ send_failed = FALSE /\ entry = TRUE
  BY WriteHalfAssumption DEF Init, Writers, Reset
<1>2. /\ queue \in Frames /\ Len(queue) = 0 /\ Sum(queue) = 0
      /\ ~HasFin(queue) /\ FinLast(queue)
  BY <1>1, SumEmpty, NoFinEmpty DEF Frames
<1>3. InHand = 0 /\ Unsent = 0 /\ ~CarriesFin
  BY <1>1 DEF InHand, Unsent, CarriesFin, Fin
<1>4. TypedCall /\ TypedState
  <2>1. 0 \in 0..MaxLen /\ 0 \in 0..MaxLimit /\ 0 \in 0..MaxAbandons
    BY WriteHalfAssumption
  <2>2. TypedCall
    BY <1>1, <2>1 DEF TypedCall
  <2>3. TypedState
    BY <1>1 DEF TypedState
  <2> QED BY <2>2, <2>3
<1>5. TypedCredit
  <2>1. 0 \in 0..MaxLimit
    BY WriteHalfAssumption
  <2> QED BY <1>1, <2>1 DEF TypedCredit
<1>6. TypedQueue /\ TypedWriter
  BY <1>1, <1>2, WriteHalfAssumption DEF TypedQueue, TypedWriter, Reset
<1>7. WriterInv /\ GrantInv /\ TermInv
  BY <1>1 DEF WriterInv, GrantInv, TermInv, ended
<1>8. HeldInv /\ CreditInv /\ BytesInv
  BY <1>1, <1>2, <1>3 DEF HeldInv, CreditInv, BytesInv
<1>9. RoomInv /\ FinInv
  BY <1>1, <1>2, <1>3 DEF RoomInv, FinInv, Calls
<1> QED
  BY <1>4, <1>5, <1>6, <1>7, <1>8, <1>9 DEF IInv, Typed

(* So does a step that changes nothing.                                     *)
LEMMA Stuttering ==
    ASSUME IInv, UNCHANGED vars PROVE IInv'
<1>1. /\ pc' = pc /\ len' = len /\ pending_grant' = pending_grant /\ accepted' = accepted
      /\ abandons' = abandons /\ term' = term /\ peer_stop' = peer_stop
      /\ drop_data' = drop_data /\ dc_open' = dc_open /\ dc_closed' = dc_closed
      /\ dc_dead' = dc_dead /\ cb' = cb /\ queue' = queue /\ life_q' = life_q
      /\ w' = w /\ wire' = wire /\ terminal_wire' = terminal_wire
      /\ limit' = limit /\ sent' = sent /\ reserved' = reserved
      /\ send_failed' = send_failed /\ entry' = entry
  BY DEF vars, call, held, state, channel, queues, writer, onwire, flow
<1>2. Typed'
  BY <1>1 DEF IInv, Typed, TypedCall, TypedState, TypedCredit, TypedQueue, TypedWriter
<1>3. WriterInv' /\ GrantInv' /\ HeldInv' /\ CreditInv' /\ BytesInv'
  BY <1>1 DEF IInv, WriterInv, GrantInv, HeldInv, CreditInv, BytesInv, ended, blocked,
              InHand, Unsent
<1>4. RoomInv' /\ TermInv' /\ FinInv'
  BY <1>1 DEF IInv, RoomInv, TermInv, FinInv, ended, blocked, InHand, CarriesFin
<1> QED
  BY <1>2, <1>3, <1>4 DEF IInv

(* Every step preserves the inductive invariant.                            *)
LEMMA NextIInv ==
    ASSUME IInv, [Next]_vars PROVE IInv'
<1>1. CASE Application
  BY <1>1, WriteStep, EndWriteStep, AbandonStep, DropStep DEF Application
<1>2. CASE Call
  BY <1>2, PollWriteStep, PollReserveStep, PollQueueStep, QueueWakesStep,
     EndWriteFailStep, SendFinStep DEF Call
<1>3. CASE WriterTask
  BY <1>3, WaitOpenStep, WriterTakeStep, WriterBoundStep, WriterSendStep, WriterSentStep
     DEF WriterTask
<1>4. CASE Callback
  BY <1>4, OnOpenStep, OnStopSendingStep, OnChannelCloseStep, CbFailStep DEF Callback
<1>5. CASE channel_dies
  BY <1>5, ChannelDiesStep
<1>6. CASE on_peer_max_data
  BY <1>6, OnPeerMaxDataStep
<1>7. CASE drop_stream
  BY <1>7, DropStreamStep
<1>8. CASE UNCHANGED vars
  BY <1>8, Stuttering
<1> QED
  BY <1>1, <1>2, <1>3, <1>4, <1>5, <1>6, <1>7, <1>8 DEF Next

(* The invariant holds in every reachable state of the write half: the      *)
(* ledgers of the flow engine and the place of FIN, under every             *)
(* interleaving of the application, the writer task and the callbacks.      *)
THEOREM Invariant == Spec => []IInv
<1>1. Init => IInv
  BY InitIInv
<1>2. IInv /\ [Next]_vars => IInv'
  BY NextIInv
<1> QED
  BY <1>1, <1>2, PTL DEF Spec

-----------------------------------------------------------------------------

(* No counter of credit in stream.rs and flow.rs wraps or passes the limit  *)
(* of the peer, and the DATA queue stays within its capacity.               *)
THEOREM TypeCorrect == Spec => []TypeOK
<1>1. ASSUME IInv PROVE TypeOK
  <2>1. TypedCall /\ TypedState /\ TypedCredit /\ TypedQueue /\ TypedWriter
    BY <1>1 DEF IInv, Typed
  <2>2. {len, pending_grant} \subseteq 0..MaxLen
    BY <2>1 DEF TypedCall
  <2>3. {accepted, wire, limit, sent, reserved} \subseteq 0..MaxLimit
    BY <2>1 DEF TypedCall, TypedCredit
  <2>4. /\ pc \in Calls \cup Closes \cup {"idle", "panicked", "gone"}
        /\ abandons \in 0..MaxAbandons /\ cb \in {"none", "fail", "reset"}
    BY <2>1 DEF TypedCall
  <2>5. /\ {term, terminal_wire} \subseteq {"none", "fin", "reset"}
        /\ {peer_stop, drop_data, dc_open, dc_closed, dc_dead, life_q, send_failed, entry}
             \subseteq BOOLEAN
    BY <2>1 DEF TypedState, TypedCredit
  <2>6. /\ Len(queue) <= QueueCap /\ queue \in Seq(Fin..MaxLen)
        /\ w \in [pc : {"open", "take", "bound", "send", "sent", "ended"},
                  n : Reset..MaxLen]
    BY <2>1 DEF TypedQueue, TypedWriter, Frames, Writers
  <2> QED
    BY <2>2, <2>3, <2>4, <2>5, <2>6 DEF TypeOK
<1> QED
  BY <1>1, Invariant, PTL

(* Every byte that poll_reserve has reserved is in the pending grant, the   *)
(* DATA queue or the hand of the writer task, until commit or release; and  *)
(* buf[..n] in poll_write is cut past its end only after the application    *)
(* has dropped a call.                                                      *)
THEOREM EveryByteHeld == Spec => []GrantAccounted
<1>1. ASSUME IInv PROVE GrantAccounted
  <2>1. pc = "panicked" => abandons > 0 /\ len < pending_grant
    BY <1>1 DEF IInv, GrantInv
  <2>2. /\ reserved \in Int /\ pending_grant \in Int
        /\ Sum(queue) \in Int /\ InHand \in Int
    BY <1>1, SumType, WriteHalfAssumption
       DEF IInv, Typed, TypedCall, TypedCredit, TypedQueue, TypedWriter, InHand, Reset
  <2>3. ASSUME entry PROVE reserved >= pending_grant + Sum(queue) + InHand
    BY <1>1, <2>3 DEF IInv, HeldInv
  <2>4. ASSUME entry, ~ended PROVE reserved = pending_grant + Sum(queue) + InHand
    <3> DEFINE total == pending_grant + Sum(queue) + InHand
    <3>1. total \in Int
      BY <2>2
    <3>2. reserved >= total /\ reserved <= total
      BY <1>1, <2>4 DEF IInv, HeldInv
    <3> HIDE DEF total
    <3>3. reserved = total
      BY <2>2, <3>1, <3>2
    <3> QED BY <3>3 DEF total
  <2> QED
    BY <2>1, <2>3, <2>4 DEF GrantAccounted
<1> QED
  BY <1>1, Invariant, PTL

(* When FIN is on the wire, every byte that poll_write has returned as      *)
(* written is on the wire before it.                                        *)
THEOREM FinIsTheTruth == Spec => []FinComplete
<1>1. IInv => FinComplete
  BY DEF IInv, FinInv, FinComplete
<1> QED
  BY <1>1, Invariant, PTL

=============================================================================
