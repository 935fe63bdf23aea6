-------------------------- MODULE CreditFlowProofs --------------------------
(***************************************************************************)
(* Theorems about CreditFlow for every set of streams, every window and     *)
(* every frame size, with their proofs.                                     *)
(*                                                                         *)
(* First the ledgers: IInv of CreditFlow orders every stream's offsets, and *)
(* those of the connection, from what is consumed to what is enforced, so   *)
(* that no honest sender is ever accused.  Then the waiting: the invariant  *)
(* Waiting, next to IInv, follows credit to the writers that need it.       *)
(***************************************************************************)
EXTENDS CreditFlow, FiniteSetTheorems, TLAPS

-----------------------------------------------------------------------------
(* Sums over the streams.                                                   *)

Cells(f) == {b \in Streams \X (0..(MaxOffset - 1)) : b[2] < f[b[1]]}

(* A sum is the cardinality of a finite set.                                *)
LEMMA CellsFinite ==
    ASSUME NEW f
    PROVE  IsFiniteSet(Cells(f)) /\ Total(f) = Cardinality(Cells(f)) /\ Total(f) \in Nat
<1>1. IsFiniteSet(0..(MaxOffset - 1))
  BY FS_Interval, LimitsAssumption
<1>2. IsFiniteSet(Streams \X (0..(MaxOffset - 1)))
  BY <1>1, FS_Product, StreamsAssumption
<1>3. Cells(f) \in SUBSET (Streams \X (0..(MaxOffset - 1)))
  BY DEF Cells
<1>4. IsFiniteSet(Cells(f))
  BY <1>2, <1>3, FS_Subset
<1> QED
  BY <1>4, FS_CardinalityType DEF Total, Cells

(* Adding n to one stream's entry adds n to the sum.                        *)
LEMMA TotalAdd ==
    ASSUME NEW f \in [Streams -> Nat], NEW s \in Streams, NEW n \in Nat,
           f[s] + n <= MaxOffset
    PROVE  Total([f EXCEPT ![s] = @ + n]) = Total(f) + n
<1> DEFINE g == [f EXCEPT ![s] = @ + n]
           new == {s} \X (f[s]..(f[s] + n - 1))
<1>1. Cells(g) = Cells(f) \cup new
  <2>1. ASSUME NEW b \in Streams \X (0..(MaxOffset - 1))
        PROVE  b[2] < g[b[1]] <=> (b[2] < f[b[1]] \/ (b[1] = s /\ b[2] \in f[s]..(f[s] + n - 1)))
    <3>1. b[1] \in Streams /\ b[2] \in Nat
      BY <2>1, LimitsAssumption
    <3>2. CASE b[1] = s
      BY <3>1, <3>2
    <3>3. CASE b[1] # s
      BY <3>1, <3>3
    <3> QED
      BY <3>2, <3>3
  <2>2. new \subseteq Streams \X (0..(MaxOffset - 1))
    BY LimitsAssumption
  <2>3. \A b \in Streams \X (0..(MaxOffset - 1)) :
            b \in new <=> (b[1] = s /\ b[2] \in f[s]..(f[s] + n - 1))
    OBVIOUS
  <2> QED
    BY <2>1, <2>2, <2>3 DEF Cells
<1>2. Cells(f) \cap new = {}
  BY DEF Cells
<1>3. IsFiniteSet(new) /\ Cardinality(new) = n
  <2>1. /\ IsFiniteSet(f[s]..(f[s] + n - 1))
        /\ Cardinality(f[s]..(f[s] + n - 1)) = n
    <3>1. f[s] \in Int /\ f[s] + n - 1 \in Int
      OBVIOUS
    <3>2. /\ IsFiniteSet(f[s]..(f[s] + n - 1))
          /\ Cardinality(f[s]..(f[s] + n - 1))
                = IF f[s] > f[s] + n - 1 THEN 0 ELSE (f[s] + n - 1) - f[s] + 1
      BY <3>1, FS_Interval
    <3> QED
      BY <3>1, <3>2
  <2>2. IsFiniteSet({s}) /\ Cardinality({s}) = 1
    BY FS_Singleton
  <2> QED
    BY <2>1, <2>2, FS_Product
<1>4. Cardinality(Cells(g)) = Cardinality(Cells(f)) + n
  <2>1. IsFiniteSet(Cells(f)) /\ Cardinality(Cells(f)) \in Nat
    BY CellsFinite, FS_CardinalityType
  <2>2. Cardinality(Cells(f) \cup new)
            = Cardinality(Cells(f)) + Cardinality(new) - Cardinality(Cells(f) \cap new)
    BY <2>1, <1>3, FS_Union
  <2>3. Cardinality(Cells(f) \cap new) = 0
    BY <1>2, FS_EmptySet
  <2> HIDE DEF g, new
  <2> QED
    BY <1>1, <1>3, <2>1, <2>2, <2>3
<1> QED
  BY <1>4, CellsFinite

(* Taking n from one stream's entry takes n from the sum.                   *)
LEMMA TotalSub ==
    ASSUME NEW f \in [Streams -> Nat], NEW s \in Streams, NEW n \in Nat,
           n <= f[s], f[s] <= MaxOffset
    PROVE  Total([f EXCEPT ![s] = @ - n]) = Total(f) - n
<1> DEFINE g == [f EXCEPT ![s] = @ - n]
<1>1. g \in [Streams -> Nat] /\ g[s] + n = f[s]
  OBVIOUS
<1> DEFINE h == [g EXCEPT ![s] = @ + n]
<1>2. h = f
  <2>1. h \in [Streams -> Nat]
    BY <1>1
  <2>2. ASSUME NEW x \in Streams PROVE h[x] = f[x]
    <3>1. CASE x = s
      BY <1>1, <3>1
    <3>2. CASE x # s
      BY <3>2
    <3> QED
      BY <3>1, <3>2
  <2> HIDE DEF h
  <2> QED
    BY <2>1, <2>2
<1>3. Total(h) = Total(g) + n
  <2> HIDE DEF g
  <2> QED BY <1>1, TotalAdd
<1>4. Total(g) \in Nat /\ Total(f) \in Nat
  BY CellsFinite
<1> HIDE DEF g, h
<1>5. Total(g) = Total(f) - n
  BY <1>2, <1>3, <1>4
<1> QED
  BY <1>5 DEF g

(* Replacing one stream's entry.                                            *)
LEMMA TotalSet ==
    ASSUME NEW f \in [Streams -> Nat], NEW s \in Streams, NEW r \in Nat,
           r <= MaxOffset, f[s] <= MaxOffset
    PROVE  Total([f EXCEPT ![s] = r]) = Total(f) + r - f[s]
<1>1. f[s] \in Nat /\ Total(f) \in Nat
  BY CellsFinite
<1>2. CASE r >= f[s]
  <2> DEFINE n == r - f[s]
  <2>1. n \in Nat /\ f[s] + n = r
    BY <1>1, <1>2
  <2>2. Total([f EXCEPT ![s] = @ + n]) = Total(f) + n
    <3> HIDE DEF n
    <3> QED BY <2>1, TotalAdd
  <2>3. [f EXCEPT ![s] = @ + n] = [f EXCEPT ![s] = r]
    BY <2>1
  <2> QED
    BY <1>1, <2>2, <2>3
<1>3. CASE r < f[s]
  <2> DEFINE n == f[s] - r
  <2>1. n \in Nat /\ f[s] - n = r /\ n <= f[s]
    BY <1>1, <1>3
  <2>2. Total([f EXCEPT ![s] = @ - n]) = Total(f) - n
    <3> HIDE DEF n
    <3> QED BY <2>1, TotalSub
  <2>3. [f EXCEPT ![s] = @ - n] = [f EXCEPT ![s] = r]
    BY <2>1
  <2> QED
    BY <1>1, <2>2, <2>3
<1> QED
  BY <1>1, <1>2, <1>3

(* A sum is monotone in its entries.                                        *)
LEMMA TotalMono ==
    ASSUME NEW f \in [Streams -> Nat], NEW g \in [Streams -> Nat],
           \A s \in Streams : f[s] <= g[s]
    PROVE  Total(f) <= Total(g)
<1>1. Cells(f) \in SUBSET Cells(g)
  <2>1. ASSUME NEW b \in Streams \X (0..(MaxOffset - 1)), b[2] < f[b[1]]
        PROVE  b[2] < g[b[1]]
    <3>1. b[1] \in Streams /\ b[2] \in Nat
      BY LimitsAssumption
    <3> QED
      BY <2>1, <3>1
  <2> QED
    BY <2>1 DEF Cells
<1> QED
  BY <1>1, CellsFinite, FS_Subset

(* The sum of nothing.                                                      *)
LEMMA TotalZero == Total(Zero) = 0
<1>1. Cells(Zero) = {}
  BY LimitsAssumption DEF Cells, Zero
<1> QED
  BY <1>1, CellsFinite, FS_EmptySet

(* No entry exceeds the sum.                                                *)
LEMMA TotalBound ==
    ASSUME NEW f \in [Streams -> Nat], NEW s \in Streams, f[s] <= MaxOffset
    PROVE  f[s] <= Total(f)
<1> DEFINE n == f[s]
<1>1. n \in Nat /\ n <= f[s]
  OBVIOUS
<1>2. Total([f EXCEPT ![s] = @ - n]) = Total(f) - n
  <2> HIDE DEF n
  <2> QED BY <1>1, TotalSub
<1>3. Total([f EXCEPT ![s] = @ - n]) \in Nat /\ Total(f) \in Nat
  BY CellsFinite
<1> QED
  BY <1>1, <1>2, <1>3

-----------------------------------------------------------------------------
(* Everything a stream counts is at most MaxOffset.                         *)
LEMMA OffsetsBounded ==
    ASSUME IInv, NEW s \in Streams
    PROVE  /\ claimed[s] \in Nat /\ claimed[s] <= MaxOffset
           /\ send_sent[s] <= MaxOffset /\ send_reserved[s] <= MaxOffset
           /\ received[s] <= MaxOffset /\ wire[s] <= MaxOffset
           /\ unread[s] \in Nat /\ unread[s] <= MaxOffset
           /\ local_max[s] <= MaxOffset
<1>1. local_max[s] \in Nat /\ local_max[s] <= MaxOffset
  <2>1. local_max[s] \in Nat /\ advertised_at[s] \in Nat
    BY DEF IInv, TypeOK
  <2>2. local_max[s] = new_limit(advertised_at[s], MaxStreamData)
    BY DEF IInv, StreamChain
  <2> QED
    BY <2>1, <2>2, LimitsAssumption DEF new_limit, sat, Min2
<1>2. peer_max(s) \in Nat
  BY DEF IInv, TypeOK, peer_max, Max2
<1>3. /\ send_sent[s] \in Nat /\ send_reserved[s] \in Nat /\ received[s] \in Nat
      /\ wire[s] \in Nat /\ consumed[s] \in Nat
      /\ arriving[s] \in Nat /\ inbuf[s] \in Nat /\ app_hand[s] \in Nat
      /\ cb_hand[s] \in Nat
  BY DEF IInv, TypeOK
<1>4. /\ claimed[s] = send_sent[s] + send_reserved[s]
      /\ unread[s] = arriving[s] + inbuf[s] + app_hand[s] + cb_hand[s]
  BY DEF claimed, unread
<1>5. StreamChain(s)
  BY DEF IInv
<1> QED
  BY <1>1, <1>2, <1>3, <1>4, <1>5, LimitsAssumption DEF StreamChain

(* The functions that are added up.                                         *)
LEMMA FunctionTypes ==
    ASSUME IInv
    PROVE  /\ claimed \in [Streams -> Nat] /\ unread \in [Streams -> Nat]
           /\ received \in [Streams -> Nat] /\ send_sent \in [Streams -> Nat]
           /\ send_reserved \in [Streams -> Nat]
<1>1. TypeOK
  BY DEF IInv
<1>2. claimed \in [Streams -> Nat]
  BY <1>1 DEF TypeOK, claimed
<1>3. unread \in [Streams -> Nat]
  <2>1. ASSUME NEW s \in Streams
        PROVE  arriving[s] + inbuf[s] + app_hand[s] + cb_hand[s] \in Nat
    <3>1. arriving[s] \in Nat /\ inbuf[s] \in Nat /\ app_hand[s] \in Nat /\ cb_hand[s] \in Nat
      BY <1>1 DEF TypeOK
    <3> QED
      BY <3>1
  <2> QED
    BY <2>1 DEF unread
<1> QED
  BY <1>1, <1>2, <1>3 DEF TypeOK

(* The parts of the type invariant that are about amounts, and the others.  *)
TypeAmounts ==
    /\ peer_init_stream_data \in Nat /\ peer_max_data \in Nat
    /\ conn_sent \in Nat /\ conn_reserved \in Nat
    /\ send_sent \in [Streams -> Nat] /\ send_reserved \in [Streams -> Nat]
    /\ peer_max_explicit \in [Streams -> Nat] /\ want \in [Streams -> Nat]
    /\ wire \in [Streams -> Nat]
    /\ local_max_data \in Nat /\ conn_received \in Nat
    /\ conn_consumed \in Nat /\ conn_advertised_at \in Nat
    /\ local_max \in [Streams -> Nat] /\ received \in [Streams -> Nat]
    /\ consumed \in [Streams -> Nat] /\ advertised_at \in [Streams -> Nat]
    /\ arriving \in [Streams -> Nat] /\ inbuf \in [Streams -> Nat]
    /\ app_hand \in [Streams -> Nat] /\ cb_hand \in [Streams -> Nat]
    /\ app_advert \in [Streams -> Nat] /\ cb_advert \in [Streams -> Nat]
TypeQueues == control_q \in Seq(Nat) /\ credit_q \in [Streams -> SUBSET Nat]
TypeControl ==
    /\ is_failed \in BOOLEAN /\ fatal \in BOOLEAN /\ hello_received \in BOOLEAN
    /\ snd_streams \subseteq Streams /\ rcv_streams \subseteq Streams
    /\ send_failed \in [Streams -> BOOLEAN] /\ writer \in [Streams -> WriterStates]
    /\ local_terminal \in [Streams -> Terminals]
    /\ terminal_sent \in [Streams -> BOOLEAN]
    /\ cancelled \in [Streams -> BOOLEAN] /\ read_cancel \in [Streams -> BOOLEAN]
    /\ peer_terminal \in [Streams -> BOOLEAN] /\ stop_q \in [Streams -> StopStates]

(* The parts are TypeOK.                                                   *)
LEMMA TypeParts == TypeOK <=> TypeAmounts /\ TypeQueues /\ TypeControl
  BY DEF TypeOK, TypeAmounts, TypeQueues, TypeControl

(* The initial state.                                                       *)
LEMMA InitIInv == Init => IInv
<1> SUFFICES ASSUME Init PROVE IInv
  OBVIOUS
<1>1. TypeAmounts
  BY LimitsAssumption DEF Init, TypeAmounts, Zero
<1>2. TypeQueues
  BY DEF Init, TypeQueues
<1>3. TypeControl
  BY DEF Init, TypeControl, No, WriterStates, Terminals, StopStates
<1>4. claimed = Zero /\ unread = Zero
  BY DEF Init, claimed, unread, Zero
<1>5. ASSUME NEW s \in Streams PROVE StreamChain(s)
  <2>1. peer_max(s) = 0
    BY DEF Init, peer_max, Max2, Zero
  <2>2. new_limit(0, MaxStreamData) = MaxStreamData /\ MaxStreamData \in Nat
    BY LimitsAssumption DEF new_limit, sat, Min2
  <2> QED
    BY <1>4, <2>1, <2>2 DEF Init, StreamChain, Zero, No
<1>6. ConnChain
  <2>1. new_limit(0, MaxData) = MaxData /\ MaxData \in Nat /\ MaxStreamData \in Nat
    BY LimitsAssumption DEF new_limit, sat, Min2
  <2> QED
    BY <1>4, <2>1, TotalZero DEF Init, ConnChain
<1>7. CreditConserved /\ NoFalseViolation
  BY <1>4, TotalZero DEF Init, CreditConserved, NoFalseViolation
<1> QED
  BY <1>1, <1>2, <1>3, <1>5, <1>6, <1>7, TypeParts DEF IInv

(* Waking writers keeps the types.                                          *)
LEMMA WakeType ==
    ASSUME writer \in [Streams -> WriterStates]
    PROVE  wake_locked(writer) \in [Streams -> WriterStates]
  BY DEF wake_locked, WriterStates

(* The chains depend only on amounts and limits.                            *)
LEMMA ChainsUnchanged ==
    ASSUME IInv,
           UNCHANGED <<sndLimits, sndCount, wire, rcvLimits, rcvCount, held, fatal,
                       hello_received, control_q, credit_q, terminal_sent>>
    PROVE  /\ (\A t \in Streams : StreamChain(t))'
           /\ ConnChain' /\ CreditConserved' /\ NoFalseViolation'
<1>1. claimed' = claimed /\ unread' = unread
  BY DEF claimed, unread, sndCount, held
<1> QED
  BY <1>1
  DEF IInv, StreamChain, ConnChain, CreditConserved, NoFalseViolation, peer_max,
      sndLimits, sndCount, rcvLimits, rcvCount, held, Total

(* Steps that touch no counter and no limit.                                *)
LEMMA TaskSteps ==
    ASSUME IInv, NEW s \in Streams,
           \/ fail \/ snd_new_stream(s) \/ (\E w \in WriteSizes : write(s, w))
           \/ abandon_write(s) \/ poll_write(s)
           \/ close_write(s) \/ reset_write(s)
           \/ on_stop_sending(s) \/ fail_send(s)
           \/ rcv_new_stream(s) \/ mark_cancelled(s) \/ send_stop_sending(s)
           \/ rcv_drop_stream(s)
    PROVE  IInv'
<1> USE DEF sender, receiver, frames, sndLimits, sndCount, sndLife, task, rcvLimits,
            rcvCount, held, rcvLife
<1>1. UNCHANGED <<sndLimits, sndCount, wire, rcvLimits, rcvCount, held, fatal,
                  hello_received, control_q, credit_q, terminal_sent>>
  BY DEF fail, snd_new_stream, write, abandon_write, poll_write, close_write, reset_write,
         on_stop_sending, fail_send, rcv_new_stream, mark_cancelled,
         send_stop_sending, rcv_drop_stream
<1>2. want' \in [Streams -> Nat]
  <2>1. want \in [Streams -> Nat]
    BY DEF IInv, TypeOK
  <2>2. CASE \E w \in WriteSizes : write(s, w)
    <3>1. PICK w \in WriteSizes : write(s, w)
      BY <2>2
    <3>2. Min2(w, MaxFrame) \in Nat
      BY LimitsAssumption DEF Min2
    <3> QED
      BY <2>1, <3>1, <3>2 DEF write
  <2>3. CASE ~\E w \in WriteSizes : write(s, w)
    BY <2>1, <2>3 DEF fail, snd_new_stream, abandon_write, poll_write, close_write, reset_write,
         on_stop_sending, fail_send, rcv_new_stream, mark_cancelled,
         send_stop_sending, rcv_drop_stream
  <2> QED
    BY <2>2, <2>3
<1>3. TypeAmounts' /\ TypeQueues'
  BY <1>1, <1>2 DEF IInv, TypeOK, TypeAmounts, TypeQueues
<1>4. TypeControl'
  <2>1. TypeControl
    BY TypeParts DEF IInv
  <2> USE DEF TypeControl
  <2>2. CASE fail
    BY <2>1, <2>2, WakeType DEF fail
  <2>3. CASE snd_new_stream(s)
    BY <2>1, <2>3 DEF snd_new_stream
  <2>4. CASE \E w \in WriteSizes : write(s, w)
    BY <2>1, <2>4 DEF write, WriterStates
  <2>5. CASE abandon_write(s) \/ poll_write(s)
    BY <2>1, <2>5 DEF abandon_write, poll_write, WriterStates
  <2>6. CASE close_write(s) \/ reset_write(s)
    BY <2>1, <2>6 DEF close_write, reset_write, Terminals
  <2>7. CASE on_stop_sending(s)
    BY <2>1, <2>7 DEF on_stop_sending, Terminals, StopStates
  <2>8. CASE fail_send(s)
    BY <2>1, <2>8, WakeType DEF fail_send
  <2>9. CASE rcv_new_stream(s) \/ rcv_drop_stream(s)
    BY <2>1, <2>9 DEF rcv_new_stream, rcv_drop_stream
  <2>10. CASE mark_cancelled(s)
    BY <2>1, <2>10 DEF mark_cancelled
  <2>11. CASE send_stop_sending(s)
    BY <2>1, <2>11 DEF send_stop_sending, StopStates
  <2> QED
    BY <2>2, <2>3, <2>4, <2>5, <2>6, <2>7, <2>8, <2>9, <2>10, <2>11
<1>5. TypeOK'
  BY <1>3, <1>4 DEF TypeOK, TypeAmounts, TypeQueues, TypeControl
<1> QED
  BY <1>1, <1>5, ChainsUnchanged DEF IInv

(* Bytes move between the receiver's tasks and its buffer.                  *)
LEMMA HeldSteps ==
    ASSUME IInv, NEW s \in Streams,
           \/ push_data(s) \/ on_peer_terminal(s)
           \/ (\E n \in 1..MaxFrame : poll_read(s, n)) \/ cancel_read(s)
    PROVE  IInv'
<1> USE DEF sender, receiver, frames, sndLimits, sndCount, sndLife, task, rcvLimits,
            rcvCount, held, rcvLife
<1>1. UNCHANGED <<sndLimits, sndCount, wire, rcvLimits, rcvCount, fatal,
                  hello_received, control_q, credit_q, terminal_sent, want>>
  BY DEF push_data, on_peer_terminal, poll_read, cancel_read
<1>2. /\ arriving \in [Streams -> Nat] /\ inbuf \in [Streams -> Nat]
      /\ app_hand \in [Streams -> Nat] /\ cb_hand \in [Streams -> Nat]
      /\ arriving[s] = 0 \/ cb_hand[s] = 0
      /\ cb_advert[s] = 0 \/ (arriving[s] = 0 /\ cb_hand[s] = 0)
      /\ app_advert[s] = 0 \/ app_hand[s] = 0
  BY DEF IInv, TypeOK, StreamChain
<1>3. /\ arriving' \in [Streams -> Nat] /\ inbuf' \in [Streams -> Nat]
      /\ app_hand' \in [Streams -> Nat] /\ cb_hand' \in [Streams -> Nat]
      /\ arriving'[s] + inbuf'[s] + app_hand'[s] + cb_hand'[s]
            = arriving[s] + inbuf[s] + app_hand[s] + cb_hand[s]
      /\ arriving'[s] = 0 \/ cb_hand'[s] = 0
      /\ cb_advert[s] = 0 \/ (arriving'[s] = 0 /\ cb_hand'[s] = 0)
      /\ app_advert[s] = 0 \/ app_hand'[s] = 0
  <2>1. CASE push_data(s)
    BY <1>2, <2>1 DEF push_data
  <2>2. CASE on_peer_terminal(s)
    BY <1>2, <2>2 DEF on_peer_terminal, callback_free
  <2>3. CASE \E n \in 1..MaxFrame : poll_read(s, n)
    <3>1. PICK n \in 1..MaxFrame : poll_read(s, n)
      BY <2>3
    <3>2. n \in Nat /\ n <= inbuf[s]
      BY <3>1, LimitsAssumption DEF poll_read
    <3> QED
      BY <1>2, <3>1, <3>2 DEF poll_read, reader_free
  <2>4. CASE cancel_read(s)
    BY <1>2, <2>4 DEF cancel_read, reader_free
  <2> QED
    BY <2>1, <2>2, <2>3, <2>4
<1>4. \A t \in Streams \ {s} : /\ arriving'[t] = arriving[t] /\ inbuf'[t] = inbuf[t]
                               /\ app_hand'[t] = app_hand[t] /\ cb_hand'[t] = cb_hand[t]
  BY <1>2 DEF push_data, on_peer_terminal, poll_read, cancel_read
<1>5. unread' = unread
  BY <1>3, <1>4 DEF unread
<1>6. TypeControl'
  <2>1. TypeControl
    BY TypeParts DEF IInv
  <2> QED
    BY <2>1 DEF TypeControl, StopStates, push_data, on_peer_terminal, poll_read, cancel_read
<1>7. TypeOK'
  BY <1>1, <1>3, <1>6 DEF IInv, TypeOK, TypeControl
<1>8. (\A t \in Streams : StreamChain(t))'
  BY <1>1, <1>3, <1>4, <1>5 DEF IInv, StreamChain, claimed, peer_max
<1>9. ConnChain' /\ CreditConserved' /\ NoFalseViolation'
  BY <1>1, <1>5 DEF IInv, ConnChain, CreditConserved, NoFalseViolation, claimed, Total
<1> QED
  BY <1>7, <1>8, <1>9 DEF IInv

(* HELLO and the credit frames raise the sender's view of the limits.       *)
LEMMA LimitSteps ==
    ASSUME IInv, on_peer_hello \/ on_peer_max_data
                    \/ \E s \in Streams : on_peer_max_stream_data(s)
    PROVE  IInv'
<1> USE DEF sender, receiver, frames, sndLimits, sndCount, sndLife, task, rcvLimits,
            rcvCount, held, rcvLife
<1>1. UNCHANGED <<sndCount, wire, rcvLimits, rcvCount, held, fatal, terminal_sent, want>>
  BY DEF on_peer_hello, on_peer_max_data, on_peer_max_stream_data
<1>2. claimed' = claimed /\ unread' = unread
  BY <1>1 DEF claimed, unread
<1>3. TypeControl'
  <2>1. TypeControl
    BY TypeParts DEF IInv
  <2> QED
    BY <2>1, WakeType
    DEF TypeControl, on_peer_hello, on_peer_max_data, on_peer_max_stream_data
<1>4. CreditConserved' /\ NoFalseViolation'
  BY <1>1, <1>2 DEF IInv, CreditConserved, NoFalseViolation, Total
<1>5. CASE on_peer_hello
  <2>1. MaxStreamData \in Nat /\ MaxData \in Nat
    BY LimitsAssumption
  <2>2. TypeOK'
    BY <1>1, <1>3, <1>5, <2>1 DEF IInv, TypeOK, TypeControl, on_peer_hello
  <2>3. peer_max_data = 0 /\ peer_init_stream_data = 0
    BY <1>5 DEF IInv, ConnChain, on_peer_hello
  <2>4. ASSUME NEW t \in Streams PROVE StreamChain(t)'
    <3>1. StreamChain(t) /\ TypeOK
      BY DEF IInv
    <3>2. /\ peer_max_explicit[t] \in Nat /\ local_max[t] \in Nat
          /\ advertised_at[t] \in Nat /\ claimed[t] \in Nat
      BY <3>1, FunctionTypes DEF TypeOK
    <3>3. MaxStreamData <= local_max[t]
      BY <3>1, <3>2, <2>1, LimitsAssumption DEF StreamChain, new_limit, sat, Min2
    <3>4. peer_max(t)' = Max2(peer_max_explicit[t], MaxStreamData)
      BY <1>5 DEF on_peer_hello, peer_max
    <3>5. peer_max(t) = peer_max_explicit[t]
      BY <2>3, <3>2 DEF peer_max, Max2
    <3>6. peer_max(t)' >= peer_max(t) /\ peer_max(t)' <= local_max[t] /\ peer_max(t)' \in Nat
      BY <3>1, <3>2, <3>3, <3>4, <3>5, <2>1 DEF Max2, StreamChain
    <3>7. UNCHANGED credit_q
      BY <1>5 DEF on_peer_hello
    <3> QED
      BY <1>1, <1>2, <3>1, <3>2, <3>5, <3>6, <3>7 DEF StreamChain
  <2>5. ConnChain'
    <3>1. ConnChain /\ TypeOK
      BY DEF IInv
    <3>2. MaxData <= local_max_data
      BY <3>1, <2>1, LimitsAssumption DEF ConnChain, TypeOK, new_limit, sat, Min2
    <3> QED
      BY <1>1, <1>2, <1>5, <2>1, <2>3, <3>1, <3>2 DEF ConnChain, TypeOK, on_peer_hello, Total
  <2> QED
    BY <1>4, <2>2, <2>4, <2>5 DEF IInv
<1>6. CASE on_peer_max_data
  <2>1. TypeOK /\ ConnChain
    BY DEF IInv
  <2>2. /\ control_q \in Seq(Nat) /\ control_q # <<>>
        /\ Head(control_q) \in Nat /\ Head(control_q) <= local_max_data
        /\ Tail(control_q) \in Seq(Nat)
        /\ \A i \in 1..Len(Tail(control_q)) : Tail(control_q)[i] <= local_max_data
    BY <1>6, <2>1 DEF TypeOK, ConnChain, on_peer_max_data
  <2>3. /\ peer_max_data' \in Nat /\ peer_max_data' >= peer_max_data
        /\ peer_max_data' <= local_max_data
    BY <1>6, <2>1, <2>2 DEF on_peer_max_data, raises, TypeOK, ConnChain
  <2>4. TypeOK'
    BY <1>1, <1>3, <1>6, <2>1, <2>2, <2>3 DEF TypeOK, TypeControl, on_peer_max_data
  <2>5. (\A t \in Streams : StreamChain(t))'
    BY <1>1, <1>2, <1>6 DEF IInv, StreamChain, peer_max, on_peer_max_data
  <2>6. ConnChain'
    BY <1>1, <1>2, <1>6, <2>1, <2>2, <2>3 DEF ConnChain, TypeOK, on_peer_max_data, Total
  <2> QED
    BY <1>4, <2>4, <2>5, <2>6 DEF IInv
<1>7. CASE \E s \in Streams : on_peer_max_stream_data(s)
  <2>1. PICK s \in Streams : on_peer_max_stream_data(s)
    BY <1>7
  <2>2. PICK v \in credit_q[s] :
           /\ credit_q' = [credit_q EXCEPT ![s] = @ \ {v}]
           /\ \/ /\ s \in snd_streams /\ raises(v, peer_max_explicit[s])
                 /\ peer_max_explicit' = [peer_max_explicit EXCEPT ![s] = v]
              \/ UNCHANGED peer_max_explicit
           /\ UNCHANGED <<peer_init_stream_data, peer_max_data, hello_received, control_q>>
    BY <2>1 DEF on_peer_max_stream_data
  <2>3. TypeOK
    BY DEF IInv
  <2>4. v \in Nat /\ v <= local_max[s]
    BY <2>3 DEF IInv, TypeOK, StreamChain
  <2>5. peer_max_explicit' \in [Streams -> Nat] /\ credit_q' \in [Streams -> SUBSET Nat]
    <3>1. peer_max_explicit \in [Streams -> Nat] /\ credit_q \in [Streams -> SUBSET Nat]
      BY <2>3 DEF TypeOK
    <3>2. peer_max_explicit' \in [Streams -> Nat]
      BY <2>2, <2>4, <3>1
    <3>3. credit_q' \in [Streams -> SUBSET Nat]
      BY <2>2, <3>1
    <3> QED
      BY <3>2, <3>3
  <2>6. TypeOK'
    BY <1>1, <1>3, <2>2, <2>3, <2>5 DEF TypeOK, TypeControl
  <2>7. ASSUME NEW t \in Streams PROVE StreamChain(t)'
    <3>1. StreamChain(t) /\ claimed[t] \in Nat /\ local_max[t] \in Nat
      BY <2>3, FunctionTypes DEF IInv, TypeOK
    <3>2. /\ peer_max_explicit[t] \in Nat /\ peer_max_explicit'[t] \in Nat
          /\ peer_init_stream_data \in Nat
      BY <2>3, <2>5 DEF TypeOK
    <3>3. peer_max_explicit'[t] >= peer_max_explicit[t]
      <4>1. peer_max_explicit \in [Streams -> Nat]
        BY <2>3 DEF TypeOK
      <4> QED
        BY <2>2, <2>4, <3>2, <4>1 DEF raises
    <3>4. peer_max_explicit'[t] <= local_max[t]
      <4>1. peer_max_explicit \in [Streams -> Nat]
        BY <2>3 DEF TypeOK
      <4>2. peer_max_explicit[t] <= local_max[t]
        BY <3>1, <3>2 DEF StreamChain, peer_max, Max2
      <4> QED
        BY <2>2, <2>4, <4>1, <4>2
    <3>5. /\ peer_max(t)' \in Nat /\ peer_max(t) \in Nat
          /\ peer_max(t)' >= peer_max(t) /\ peer_max(t)' <= local_max[t]
      BY <2>2, <3>1, <3>2, <3>3, <3>4 DEF peer_max, Max2, StreamChain
    <3>6. credit_q'[t] \subseteq credit_q[t]
      BY <2>2, <2>3 DEF TypeOK
    <3> QED
      BY <1>1, <1>2, <3>1, <3>5, <3>6 DEF StreamChain
  <2>8. ConnChain'
    BY <1>1, <1>2, <2>2 DEF IInv, ConnChain, Total
  <2> QED
    BY <1>4, <2>6, <2>7, <2>8 DEF IInv
<1> QED
  BY <1>5, <1>6, <1>7

(* One stream's reservation changes, and the connection's with it.          *)
LEMMA ReservedStep ==
    ASSUME IInv, NEW s \in Streams, NEW r \in Nat,
           send_reserved' = [send_reserved EXCEPT ![s] = r],
           conn_reserved' = conn_reserved + r - send_reserved[s],
           wire[s] <= send_sent[s] + r,
           send_sent[s] + r <= peer_max(s),
           conn_sent + conn_reserved' <= peer_max_data,
           TypeControl',
           UNCHANGED <<receiver, sndLimits, conn_sent, send_sent, terminal_sent, wire,
                       want, frames>>
    PROVE  IInv'
<1> USE DEF receiver, frames, sndLimits, rcvLimits, rcvCount, held, rcvLife
<1>1. TypeOK /\ StreamChain(s) /\ ConnChain /\ CreditConserved
  BY DEF IInv
<1>2. /\ send_reserved \in [Streams -> Nat] /\ send_sent \in [Streams -> Nat]
      /\ send_reserved[s] \in Nat /\ send_sent[s] \in Nat
      /\ conn_reserved \in Nat /\ conn_sent \in Nat /\ wire[s] \in Nat
      /\ claimed \in [Streams -> Nat] /\ claimed[s] = send_sent[s] + send_reserved[s]
  BY <1>1, FunctionTypes DEF TypeOK, claimed
<1>3. peer_max(s) \in Nat /\ local_max[s] \in Nat
  BY <1>1 DEF TypeOK, peer_max, Max2
<1>4. /\ send_sent[s] + r <= MaxOffset /\ r <= MaxOffset
      /\ send_reserved[s] <= MaxOffset /\ claimed[s] <= MaxOffset
  BY <1>1, <1>2, <1>3, OffsetsBounded, LimitsAssumption DEF StreamChain
<1>5. Total(send_reserved') = Total(send_reserved) + r - send_reserved[s]
  BY <1>2, <1>4, TotalSet
<1>6. claimed' = [claimed EXCEPT ![s] = send_sent[s] + r]
  BY <1>2 DEF claimed
<1>7. Total(claimed') = Total(claimed) + (send_sent[s] + r) - claimed[s]
  <2> DEFINE q == send_sent[s] + r
  <2>1. q \in Nat /\ q <= MaxOffset
    BY <1>2, <1>4
  <2> HIDE DEF q
  <2>2. Total([claimed EXCEPT ![s] = q]) = Total(claimed) + q - claimed[s]
    BY <1>2, <1>4, <2>1, TotalSet
  <2> QED
    BY <1>6, <2>2 DEF q
<1>8. conn_reserved' = Total(send_reserved') /\ conn_reserved' \in Nat
  BY <1>1, <1>2, <1>5, CellsFinite DEF CreditConserved
<1>9. TypeOK'
  BY <1>1, <1>2, <1>8 DEF TypeOK, TypeControl
<1>10. unread' = unread
  BY DEF unread
<1>11. ASSUME NEW t \in Streams PROVE StreamChain(t)'
  <2>1. StreamChain(t) /\ peer_max(t)' = peer_max(t)
    BY DEF IInv, peer_max
  <2>2. CASE t = s
    <3>1. claimed'[s] = send_sent[s] + r
      BY <1>2, <1>6
    <3> QED
      BY <1>10, <2>1, <2>2, <3>1 DEF StreamChain
  <2>3. CASE t # s
    <3>1. claimed'[t] = claimed[t]
      BY <1>2, <1>6, <2>3
    <3> QED
      BY <1>10, <2>1, <3>1 DEF StreamChain
  <2> QED
    BY <2>2, <2>3
<1>12. conn_sent' + conn_reserved' = Total(claimed')
  <2>1. Total(claimed) \in Nat
    BY CellsFinite
  <2> QED
    BY <1>1, <1>2, <1>7, <2>1 DEF ConnChain
<1>13. ConnChain'
  BY <1>1, <1>12 DEF ConnChain
<1>14. CreditConserved' /\ NoFalseViolation'
  BY <1>1, <1>8, <1>10 DEF IInv, CreditConserved, NoFalseViolation, Total
<1> QED
  BY <1>9, <1>11, <1>13, <1>14 DEF IInv

(* poll_reserve, release and drop_stream.                                   *)
LEMMA ReserveSteps ==
    ASSUME IInv, NEW s \in Streams,
           \/ poll_reserve(s) \/ (\E n \in 1..MaxFrame : release(s, n))
           \/ snd_drop_stream(s)
    PROVE  IInv'
<1> USE DEF sndLife, task
<1>1. /\ send_reserved \in [Streams -> Nat] /\ send_reserved[s] \in Nat
      /\ conn_reserved \in Nat /\ conn_sent \in Nat
      /\ send_sent[s] \in Nat /\ wire[s] \in Nat /\ peer_max_data \in Nat
      /\ want[s] \in Nat
  BY DEF IInv, TypeOK
<1>2. peer_max(s) \in Nat
  BY DEF IInv, TypeOK, peer_max, Max2
<1>3. /\ StreamChain(s) /\ claimed[s] = send_sent[s] + send_reserved[s]
      /\ conn_sent + conn_reserved <= peer_max_data
  BY DEF IInv, ConnChain, claimed
<1>4. TypeControl'
  <2>1. TypeControl
    BY TypeParts DEF IInv
  <2>2. CASE poll_reserve(s)
    BY <2>1, <2>2 DEF TypeControl, poll_reserve, WriterStates, receiver, frames, rcvLife
  <2>3. CASE \E n \in 1..MaxFrame : release(s, n)
    BY <2>1, <2>3, WakeType DEF TypeControl, release, receiver, frames, rcvLife
  <2>4. CASE snd_drop_stream(s)
    BY <2>1, <2>4, WakeType DEF TypeControl, snd_drop_stream, receiver, frames, rcvLife
  <2> QED
    BY <2>2, <2>3, <2>4
<1>5. CASE poll_reserve(s)
  <2>1. CASE UNCHANGED <<send_reserved, conn_reserved>>
    <3>1. UNCHANGED <<sndLimits, sndCount, wire, rcvLimits, rcvCount, held, fatal,
                      hello_received, control_q, credit_q, terminal_sent, want>>
      BY <1>5, <2>1 DEF poll_reserve, sndCount, receiver, frames, rcvLife
    <3>2. TypeOK'
      BY <1>4, <3>1 DEF IInv, TypeOK, TypeControl, sndLimits, sndCount, rcvLimits,
                        rcvCount, held
    <3> QED
      BY <3>1, <3>2, ChainsUnchanged DEF IInv
  <2>2. CASE ~UNCHANGED <<send_reserved, conn_reserved>>
    <3> DEFINE g == grant(s, want[s])
               r == send_reserved[s] + g
    <3>1. /\ send_reserved' = [send_reserved EXCEPT ![s] = @ + g]
          /\ conn_reserved' = conn_reserved + g /\ g >= 1
          /\ UNCHANGED <<receiver, sndLimits, conn_sent, send_sent, terminal_sent,
                         wire, want, frames>>
      BY <1>5, <2>2 DEF poll_reserve
    <3>2. /\ g \in Int
          /\ g <= peer_max(s) - send_sent[s] - send_reserved[s]
          /\ g <= peer_max_data - conn_sent - conn_reserved
      BY <1>1, <1>2 DEF grant, stream_avail, conn_avail, Min2
    <3> HIDE DEF g
    <3>3. /\ r \in Nat /\ wire[s] <= send_sent[s] + r
          /\ send_sent[s] + r <= peer_max(s)
          /\ conn_reserved' = conn_reserved + r - send_reserved[s]
          /\ conn_sent + conn_reserved' <= peer_max_data
      BY <1>1, <1>2, <1>3, <3>1, <3>2 DEF StreamChain
    <3>4. send_reserved' = [send_reserved EXCEPT ![s] = r]
      BY <3>1
    <3> QED
      <4> HIDE DEF r
      <4> QED BY <1>4, <3>1, <3>3, <3>4, ReservedStep
  <2> QED
    BY <2>1, <2>2
<1>6. CASE \E n \in 1..MaxFrame : release(s, n)
  <2>1. PICK n \in 1..MaxFrame : release(s, n)
    BY <1>6
  <2> DEFINE r == send_reserved[s] - n
  <2>2. n \in Nat /\ n <= send_sent[s] + send_reserved[s] - wire[s]
    BY <2>1, LimitsAssumption DEF release
  <2>3. /\ send_reserved' = [send_reserved EXCEPT ![s] = r]
        /\ conn_reserved' = conn_reserved - n
        /\ UNCHANGED <<receiver, sndLimits, conn_sent, send_sent, terminal_sent,
                       wire, want, frames>>
    BY <2>1 DEF release
  <2>4. /\ r \in Nat /\ wire[s] <= send_sent[s] + r
        /\ send_sent[s] + r <= peer_max(s)
        /\ conn_reserved' = conn_reserved + r - send_reserved[s]
        /\ conn_sent + conn_reserved' <= peer_max_data
    BY <1>1, <1>2, <1>3, <2>2, <2>3 DEF StreamChain
  <2> HIDE DEF r
  <2> QED
    BY <1>4, <2>3, <2>4, ReservedStep
<1>7. CASE snd_drop_stream(s)
  <2>1. /\ send_reserved' = [send_reserved EXCEPT ![s] = 0]
        /\ conn_reserved' = conn_reserved - send_reserved[s]
        /\ terminal_sent[s]
        /\ UNCHANGED <<receiver, sndLimits, conn_sent, send_sent, terminal_sent,
                       wire, want, frames>>
    BY <1>7 DEF snd_drop_stream
  <2>2. /\ 0 \in Nat /\ wire[s] <= send_sent[s] + 0
        /\ send_sent[s] + 0 <= peer_max(s)
        /\ conn_reserved' = conn_reserved + 0 - send_reserved[s]
        /\ conn_sent + conn_reserved' <= peer_max_data
    BY <1>1, <1>2, <1>3, <2>1 DEF StreamChain
  <2> QED
    BY <1>4, <2>1, <2>2, ReservedStep
<1> QED
  BY <1>5, <1>6, <1>7

(* The writer task hands frames to the transport.                           *)
LEMMA WireSteps ==
    ASSUME IInv, NEW s \in Streams,
           (\E n \in 1..MaxFrame : send_data(s, n)) \/ send_terminal(s)
    PROVE  IInv'
<1> USE DEF receiver, frames, sndLimits, sndCount, sndLife, task, rcvLimits, rcvCount,
            held, rcvLife
<1>1. UNCHANGED <<sndLimits, sndCount, rcvLimits, rcvCount, held, fatal,
                  hello_received, control_q, credit_q, want>>
  BY DEF send_data, send_terminal
<1>2. claimed' = claimed /\ unread' = unread
  BY <1>1 DEF claimed, unread
<1>3. wire \in [Streams -> Nat] /\ terminal_sent \in [Streams -> BOOLEAN]
  BY DEF IInv, TypeOK
<1>4. /\ wire' \in [Streams -> Nat] /\ wire'[s] >= wire[s] /\ wire'[s] <= claimed[s]
      /\ terminal_sent'[s] => wire'[s] = send_sent[s]
      /\ \A t \in Streams \ {s} : wire'[t] = wire[t] /\ terminal_sent'[t] = terminal_sent[t]
  <2>1. CASE \E n \in 1..MaxFrame : send_data(s, n)
    <3>1. PICK n \in 1..MaxFrame : send_data(s, n)
      BY <2>1
    <3>2. n \in Nat /\ n <= send_reserved[s] /\ wire[s] = send_sent[s] /\ ~terminal_sent[s]
      BY <3>1, LimitsAssumption DEF send_data
    <3>3. wire' = [wire EXCEPT ![s] = @ + n] /\ terminal_sent' = terminal_sent
      BY <3>1 DEF send_data
    <3>4. claimed[s] = send_sent[s] + send_reserved[s] /\ wire[s] \in Nat
          /\ send_reserved[s] \in Nat
      BY DEF claimed, IInv, TypeOK
    <3> QED
      BY <1>3, <3>2, <3>3, <3>4
  <2>2. CASE send_terminal(s)
    BY <1>3, <2>2 DEF send_terminal, IInv, StreamChain
  <2> QED
    BY <2>1, <2>2
<1>5. TypeControl'
  <2>1. TypeControl
    BY TypeParts DEF IInv
  <2> QED
    BY <2>1 DEF TypeControl, send_data, send_terminal
<1>6. TypeOK'
  BY <1>1, <1>4, <1>5 DEF IInv, TypeOK, TypeControl
<1>7. ASSUME NEW t \in Streams PROVE StreamChain(t)'
  <2>1. StreamChain(t) /\ peer_max(t)' = peer_max(t)
    BY <1>1 DEF IInv, peer_max
  <2>2. wire[t] \in Nat /\ received[t] \in Nat /\ send_sent[t] \in Nat /\ claimed[t] \in Nat
        /\ wire'[t] \in Nat
    BY <1>4, FunctionTypes DEF IInv, TypeOK
  <2>3. CASE t = s
    BY <1>1, <1>2, <1>4, <2>1, <2>2, <2>3 DEF StreamChain
  <2>4. CASE t # s
    BY <1>1, <1>2, <1>4, <2>1, <2>4 DEF StreamChain
  <2> QED
    BY <2>3, <2>4
<1>8. ConnChain' /\ CreditConserved' /\ NoFalseViolation'
  BY <1>1, <1>2 DEF IInv, ConnChain, CreditConserved, NoFalseViolation, Total
<1> QED
  BY <1>6, <1>7, <1>8 DEF IInv

(* commit moves a frame from reserved to sent at both levels.               *)
LEMMA CommitStep ==
    ASSUME IInv, NEW s \in Streams, commit(s)
    PROVE  IInv'
<1> USE DEF receiver, frames, sndLimits, sndLife, task, rcvLimits, rcvCount, held, rcvLife
<1> DEFINE n == wire[s] - send_sent[s]
<1>1. /\ send_reserved' = [send_reserved EXCEPT ![s] = @ - n]
      /\ send_sent' = [send_sent EXCEPT ![s] = @ + n]
      /\ conn_reserved' = conn_reserved - n
      /\ conn_sent' = conn_sent + n
      /\ UNCHANGED <<receiver, sndLimits, sndLife, task, wire, frames>>
  BY DEF commit
<1>2. /\ send_reserved \in [Streams -> Nat] /\ send_sent \in [Streams -> Nat]
      /\ send_reserved[s] \in Nat /\ send_sent[s] \in Nat /\ wire[s] \in Nat
      /\ conn_reserved \in Nat /\ conn_sent \in Nat
      /\ claimed[s] = send_sent[s] + send_reserved[s]
  BY DEF IInv, TypeOK, claimed
<1>3. n \in Nat /\ n <= send_reserved[s] /\ send_sent[s] + n = wire[s]
  BY <1>2 DEF IInv, StreamChain
<1>4. send_reserved[s] <= MaxOffset /\ send_sent[s] + n <= MaxOffset
  BY <1>3, OffsetsBounded
<1>5. n <= conn_reserved
  <2>1. send_reserved[s] <= Total(send_reserved)
    BY <1>2, <1>4, TotalBound
  <2> QED
    BY <1>2, <1>3, <2>1 DEF IInv, CreditConserved
<1> HIDE DEF n
<1>6. Total(send_reserved') = Total(send_reserved) - n
  BY <1>1, <1>2, <1>3, <1>4, TotalSub
<1>7. Total(send_sent') = Total(send_sent) + n
  BY <1>1, <1>2, <1>3, <1>4, TotalAdd
<1>8. /\ send_reserved' \in [Streams -> Nat] /\ send_sent' \in [Streams -> Nat]
      /\ send_sent'[s] = wire[s]
      /\ \A t \in Streams \ {s} : send_sent'[t] = send_sent[t]
  BY <1>1, <1>2, <1>3
<1>9. claimed' = claimed
  <2>1. ASSUME NEW t \in Streams
        PROVE  send_sent'[t] + send_reserved'[t] = send_sent[t] + send_reserved[t]
    <3>1. CASE t = s
      BY <1>1, <1>2, <1>3, <3>1
    <3>2. CASE t # s
      BY <1>1, <1>2, <3>2
    <3> QED
      BY <3>1, <3>2
  <2> QED
    BY <2>1 DEF claimed
<1>10. unread' = unread
  BY <1>1 DEF unread
<1>11. TypeOK'
  <2>1. conn_reserved' \in Nat /\ conn_sent' \in Nat
    BY <1>1, <1>2, <1>3, <1>5
  <2> QED
    BY <1>1, <1>8, <2>1 DEF IInv, TypeOK
<1>12. ASSUME NEW t \in Streams PROVE StreamChain(t)'
  <2>1. StreamChain(t) /\ peer_max(t)' = peer_max(t) /\ wire[t] \in Nat
    BY <1>1 DEF IInv, TypeOK, peer_max
  <2>2. CASE t = s
    BY <1>1, <1>2, <1>8, <1>9, <1>10, <2>1, <2>2 DEF StreamChain
  <2>3. CASE t # s
    BY <1>1, <1>8, <1>9, <1>10, <2>1, <2>3 DEF StreamChain
  <2> QED
    BY <2>2, <2>3
<1>13. conn_sent' + conn_reserved' = conn_sent + conn_reserved
  BY <1>1, <1>2, <1>3
<1>14. ConnChain'
  BY <1>1, <1>9, <1>13 DEF IInv, ConnChain, Total
<1>15. CreditConserved' /\ NoFalseViolation'
  BY <1>1, <1>6, <1>7, <1>10 DEF IInv, CreditConserved, NoFalseViolation, Total
<1> QED
  BY <1>11, <1>12, <1>14, <1>15 DEF IInv

(* on_data_received accepts what a conforming sender has sent.              *)
LEMMA ReceiveStep ==
    ASSUME IInv, NEW s \in Streams, NEW n \in 1..MaxFrame, on_data_received(s, n)
    PROVE  IInv'
<1> USE DEF sender, frames, sndLimits, sndCount, sndLife, task, rcvLimits, rcvLife
<1>1. /\ n \in Nat /\ received[s] + n <= wire[s] /\ arriving[s] = 0 /\ cb_hand[s] = 0
      /\ cb_advert[s] = 0
  BY LimitsAssumption DEF on_data_received, callback_free
<1>2. /\ received \in [Streams -> Nat] /\ received[s] \in Nat /\ conn_received \in Nat
      /\ arriving \in [Streams -> Nat] /\ wire[s] \in Nat /\ local_max[s] \in Nat
      /\ wire \in [Streams -> Nat] /\ local_max_data \in Nat /\ peer_max_data \in Nat
      /\ conn_sent \in Nat /\ conn_reserved \in Nat /\ peer_max(s) \in Nat
      /\ claimed \in [Streams -> Nat] /\ unread \in [Streams -> Nat]
  BY FunctionTypes DEF IInv, TypeOK, peer_max, Max2
<1>3. wire[s] <= local_max[s] /\ wire[s] <= MaxOffset /\ claimed[s] \in Nat
  BY <1>2, OffsetsBounded DEF IInv, StreamChain
<1> DEFINE g == [received EXCEPT ![s] = @ + n]
<1>4. g \in [Streams -> Nat] /\ g[s] = received[s] + n
      /\ \A t \in Streams \ {s} : g[t] = received[t]
  BY <1>1, <1>2
<1>5. Total(g) = Total(received) + n
  <2>1. received[s] + n <= MaxOffset
    BY <1>1, <1>2, <1>3, LimitsAssumption
  <2>2. Total([received EXCEPT ![s] = @ + n]) = Total(received) + n
    BY <1>1, <1>2, <2>1, TotalAdd
  <2> QED
    BY <2>2
<1>6. Total(g) <= Total(claimed)
  <2>1. ASSUME NEW t \in Streams PROVE g[t] <= claimed[t]
    <3>1. StreamChain(t) /\ received[t] \in Nat /\ wire[t] \in Nat /\ claimed[t] \in Nat
      BY <1>2 DEF IInv
    <3>2. CASE t = s
      BY <1>1, <1>2, <1>4, <3>1, <3>2 DEF StreamChain
    <3>3. CASE t # s
      BY <1>4, <3>1, <3>3 DEF StreamChain
    <3> QED
      BY <3>2, <3>3
  <2> HIDE DEF g
  <2> QED
    BY <1>2, <1>4, <2>1, TotalMono
<1> HIDE DEF g
<1>7. conn_received + n <= local_max_data
  <2>1. Total(g) \in Nat /\ Total(claimed) \in Nat
    BY CellsFinite
  <2> QED
    BY <1>1, <1>2, <1>5, <1>6, <2>1 DEF IInv, CreditConserved, ConnChain
<1>8. received[s] + n <= local_max[s]
  BY <1>1, <1>2, <1>3
<1>9. /\ received' = g /\ conn_received' = conn_received + n
      /\ arriving' = [arriving EXCEPT ![s] = n] /\ fatal' = fatal
      /\ UNCHANGED <<sender, rcvLimits, conn_consumed, consumed, rcv_streams, cancelled,
                     inbuf, app_hand, cb_hand, read_cancel, peer_terminal, frames>>
  BY <1>1, <1>2, <1>7, <1>8 DEF on_data_received, g, rcvLimits
<1>10. claimed' = claimed
  BY <1>9 DEF claimed
<1>11. unread' = [unread EXCEPT ![s] = @ + n]
  <2>1. ASSUME NEW t \in Streams
        PROVE  arriving'[t] + inbuf'[t] + app_hand'[t] + cb_hand'[t]
                  = [unread EXCEPT ![s] = @ + n][t]
    <3>1. /\ unread[t] = arriving[t] + inbuf[t] + app_hand[t] + cb_hand[t]
          /\ arriving[t] \in Nat /\ inbuf[t] \in Nat /\ app_hand[t] \in Nat
          /\ cb_hand[t] \in Nat
      BY DEF unread, IInv, TypeOK
    <3>2. CASE t = s
      BY <1>1, <1>2, <1>9, <3>1, <3>2
    <3>3. CASE t # s
      BY <1>2, <1>9, <3>1, <3>3
    <3> QED
      BY <3>2, <3>3
  <2>2. unread' = [t \in Streams |-> arriving'[t] + inbuf'[t] + app_hand'[t] + cb_hand'[t]]
    BY DEF unread
  <2> QED
    BY <1>2, <2>1, <2>2
<1>12. Total(unread') = Total(unread) + n
  <2>1. unread[s] + n <= MaxOffset
    <3>1. unread[s] \in Nat /\ consumed[s] \in Nat /\ consumed[s] + unread[s] <= received[s]
      BY <1>2 DEF IInv, TypeOK, StreamChain
    <3> QED
      BY <1>1, <1>2, <1>3, <3>1, LimitsAssumption
  <2> QED
    BY <1>1, <1>2, <1>11, <2>1, TotalAdd
<1>13. TypeOK'
  <2>1. arriving' \in [Streams -> Nat] /\ conn_received' \in Nat /\ received' \in [Streams -> Nat]
    BY <1>1, <1>2, <1>4, <1>9
  <2> QED
    BY <1>9, <2>1 DEF IInv, TypeOK
<1>14. ASSUME NEW t \in Streams PROVE StreamChain(t)'
  <2>1. StreamChain(t) /\ peer_max(t)' = peer_max(t)
    BY <1>9 DEF IInv, peer_max
  <2>2. CASE t = s
    <3>1. /\ unread'[s] = unread[s] + n /\ unread[s] \in Nat /\ consumed[s] \in Nat
          /\ received'[s] = received[s] + n
      BY <1>2, <1>4, <1>9, <1>11 DEF IInv, TypeOK
    <3> QED
      BY <1>1, <1>2, <1>9, <1>10, <2>1, <2>2, <3>1 DEF StreamChain
  <2>3. CASE t # s
    <3>1. unread'[t] = unread[t] /\ received'[t] = received[t] /\ arriving'[t] = arriving[t]
      BY <1>2, <1>4, <1>9, <1>11, <2>3
    <3> QED
      BY <1>9, <1>10, <2>1, <3>1 DEF StreamChain
  <2> QED
    BY <2>2, <2>3
<1>15. ConnChain'
  BY <1>9, <1>10 DEF IInv, ConnChain, Total
<1>16. CreditConserved' /\ NoFalseViolation'
  <2>1. Total(received) \in Nat /\ Total(unread) \in Nat /\ conn_consumed \in Nat
    BY CellsFinite DEF IInv, TypeOK
  <2>2. CreditConserved /\ NoFalseViolation
    BY DEF IInv
  <2>3. conn_received' = Total(received')
    BY <1>1, <1>2, <1>5, <1>9, <2>2 DEF CreditConserved
  <2>4. conn_received' - conn_consumed' = Total(unread')
    BY <1>1, <1>2, <1>9, <1>12, <2>1, <2>2 DEF CreditConserved
  <2> QED
    BY <1>9, <2>2, <2>3, <2>4 DEF CreditConserved, NoFalseViolation, Total
<1> QED
  BY <1>13, <1>14, <1>15, <1>16 DEF IInv

(* on_consumed(s, n), called by a task that holds n unread bytes of s.      *)
LEMMA ConsumeStep ==
    ASSUME IInv, NEW s \in Streams, NEW n \in Nat, n > 0,
           on_consumed(s, n),
           n <= unread[s], unread' = [unread EXCEPT ![s] = @ - n],
           /\ arriving' \in [Streams -> Nat] /\ inbuf' \in [Streams -> Nat]
           /\ app_hand' \in [Streams -> Nat] /\ cb_hand' \in [Streams -> Nat],
           \A t \in Streams : /\ arriving'[t] = 0 \/ cb_hand'[t] = 0
                              /\ cb_advert'[t] = 0 \/ (arriving'[t] = 0 /\ cb_hand'[t] = 0)
                              /\ app_advert'[t] = 0 \/ app_hand'[t] = 0,
           \A t \in Streams :
              /\ app_advert'[t] = app_advert[t] \/ (t = s /\ app_advert'[t] = stream_adv(s, n))
              /\ cb_advert'[t] = cb_advert[t] \/ (t = s /\ cb_advert'[t] = stream_adv(s, n)),
           /\ app_advert' \in [Streams -> Nat] /\ cb_advert' \in [Streams -> Nat],
           UNCHANGED <<sender, conn_received, received, rcvLife, hello_received, credit_q,
                       stop_q>>
    PROVE  IInv'
<1> USE DEF sender, sndLimits, sndCount, sndLife, task, rcvLife
<1>1. /\ consumed \in [Streams -> Nat] /\ advertised_at \in [Streams -> Nat]
      /\ local_max \in [Streams -> Nat] /\ unread \in [Streams -> Nat]
  BY FunctionTypes DEF IInv, TypeOK
<1>q. credit_q \in [Streams -> SUBSET Nat] /\ control_q \in Seq(Nat)
  BY DEF IInv, TypeOK
<1>c. /\ conn_consumed \in Nat /\ conn_advertised_at \in Nat /\ local_max_data \in Nat
       /\ conn_received \in Nat /\ peer_max_data \in Nat
  BY DEF IInv, TypeOK
<1>s. /\ consumed[s] \in Nat /\ advertised_at[s] \in Nat /\ local_max[s] \in Nat
       /\ received[s] \in Nat /\ unread[s] \in Nat
  BY <1>1 DEF IInv, TypeOK
<1>2. /\ MaxStreamData \in Nat /\ MaxData \in Nat /\ MaxOffset \in Nat
  BY LimitsAssumption
<1> DEFINE c == consumed[s] + n
           limit == new_limit(c, MaxStreamData)
           cc == conn_consumed + n
           conn_limit == new_limit(cc, MaxData)
<1>3. /\ c \in Nat /\ c >= consumed[s] /\ cc \in Nat /\ cc >= conn_consumed
      /\ limit \in Nat /\ conn_limit \in Nat
  BY <1>c, <1>s, <1>2 DEF new_limit, sat, Min2
<1>4. local_max[s] <= limit /\ local_max_data <= conn_limit
  <2>1. local_max[s] = new_limit(advertised_at[s], MaxStreamData)
            /\ advertised_at[s] <= consumed[s]
    BY DEF IInv, StreamChain
  <2>2. local_max_data = new_limit(conn_advertised_at, MaxData)
        /\ conn_advertised_at <= conn_consumed
    BY DEF IInv, ConnChain
  <2>3. local_max[s] <= limit
    BY <1>s, <1>2, <2>1 DEF new_limit, sat, Min2
  <2>4. local_max_data <= conn_limit
    BY <1>c, <1>2, <2>2 DEF new_limit, sat, Min2
  <2> QED
    BY <2>3, <2>4
<1>5. \/ /\ consumed' = [consumed EXCEPT ![s] = c]
         /\ advertised_at' = [advertised_at EXCEPT ![s] = c]
         /\ local_max' = [local_max EXCEPT ![s] = limit]
         /\ stream_adv(s, n) = limit
      \/ /\ consumed' = [consumed EXCEPT ![s] = c] \/ consumed' = consumed
         /\ advertised_at' = advertised_at /\ local_max' = local_max
         /\ stream_adv(s, n) = 0
  <2>1. [consumed EXCEPT ![s] = consumed[s]] = consumed
        /\ [advertised_at EXCEPT ![s] = advertised_at[s]] = advertised_at
        /\ [local_max EXCEPT ![s] = local_max[s]] = local_max
    BY <1>1
  <2>2. due(s, n) => s \in rcv_streams
    BY DEF due, earns
  <2>3. CASE due(s, n)
    BY <2>2, <2>3 DEF on_consumed, stream_adv
  <2>4. CASE ~due(s, n)
    BY <2>1, <2>4 DEF on_consumed, stream_adv
  <2> QED
    BY <2>3, <2>4
<1>6. /\ conn_consumed' = cc
      /\ \/ /\ conn_advertised_at' = cc /\ local_max_data' = conn_limit
            /\ control_q' = Append(control_q, conn_limit)
         \/ /\ conn_advertised_at' = conn_advertised_at /\ local_max_data' = local_max_data
            /\ control_q' = control_q
  BY DEF on_consumed
<1> HIDE DEF c, limit, cc, conn_limit
<1>7. TypeOK'
  <2>1. /\ consumed' \in [Streams -> Nat] /\ advertised_at' \in [Streams -> Nat]
        /\ local_max' \in [Streams -> Nat]
    BY <1>1, <1>3, <1>5
  <2>2. credit_q' \in [Streams -> SUBSET Nat]
    BY <1>q
  <2>3. /\ conn_consumed' \in Nat /\ conn_advertised_at' \in Nat /\ local_max_data' \in Nat
        /\ control_q' \in Seq(Nat)
    <3>1. Append(control_q, conn_limit) \in Seq(Nat)
      BY <1>q, <1>3
    <3> QED
      BY <1>c, <1>q, <1>3, <1>6, <3>1
  <2> QED
    BY <2>1, <2>2, <2>3 DEF IInv, TypeOK
<1>8. claimed' = claimed
  BY DEF claimed
<1>9. ASSUME NEW t \in Streams PROVE StreamChain(t)'
  <2>1. StreamChain(t) /\ peer_max(t)' = peer_max(t)
    BY DEF IInv, peer_max
  <2>2. CASE t # s
    <3>1. /\ consumed'[t] = consumed[t] /\ advertised_at'[t] = advertised_at[t]
          /\ local_max'[t] = local_max[t] /\ credit_q'[t] = credit_q[t]
          /\ unread'[t] = unread[t]
          /\ app_advert'[t] = app_advert[t] /\ cb_advert'[t] = cb_advert[t]
      BY <1>1, <1>q, <1>5, <2>2
    <3>2. /\ arriving'[t] = 0 \/ cb_hand'[t] = 0
          /\ cb_advert'[t] = 0 \/ (arriving'[t] = 0 /\ cb_hand'[t] = 0)
          /\ app_advert'[t] = 0 \/ app_hand'[t] = 0
      OBVIOUS
    <3> QED
      BY <1>8, <2>1, <3>1, <3>2 DEF StreamChain
  <2>3. CASE t = s
    <3>1. peer_max(s) \in Nat
      BY DEF IInv, TypeOK, peer_max, Max2
    <3>2. unread'[s] = unread[s] - n
      BY <1>1
    <3>3. /\ \/ consumed'[s] = consumed[s] /\ advertised_at'[s] = advertised_at[s]
             \/ consumed'[s] = c /\ advertised_at'[s] = advertised_at[s]
             \/ consumed'[s] = c /\ advertised_at'[s] = c
          /\ local_max'[s] = new_limit(advertised_at'[s], MaxStreamData)
          /\ local_max'[s] >= local_max[s] /\ local_max'[s] \in Nat
      BY <1>1, <1>s, <1>3, <1>4, <1>5, <2>1, <2>3 DEF StreamChain, limit
    <3>4. \A v \in credit_q'[s] : v \in Nat /\ v <= local_max'[s]
      <4>1. \A v \in credit_q[s] : v \in Nat /\ v <= local_max[s]
        BY <1>q, <2>1, <2>3 DEF StreamChain
      <4> QED
        BY <1>s, <3>3, <4>1
    <3>8. /\ arriving'[s] = 0 \/ cb_hand'[s] = 0
          /\ cb_advert'[s] = 0 \/ (arriving'[s] = 0 /\ cb_hand'[s] = 0)
          /\ app_advert'[s] = 0 \/ app_hand'[s] = 0
      OBVIOUS
    <3>7. app_advert'[s] <= local_max'[s] /\ cb_advert'[s] <= local_max'[s]
      <4>1. /\ app_advert[s] <= local_max[s] /\ cb_advert[s] <= local_max[s]
            /\ app_advert[s] \in Nat /\ cb_advert[s] \in Nat
        BY <2>1, <2>3 DEF IInv, TypeOK, StreamChain
      <4>2. stream_adv(s, n) = local_max'[s] \/ stream_adv(s, n) = 0
        BY <1>1, <1>5
      <4>3. /\ app_advert'[s] = app_advert[s] \/ app_advert'[s] = stream_adv(s, n)
            /\ cb_advert'[s] = cb_advert[s] \/ cb_advert'[s] = stream_adv(s, n)
        OBVIOUS
      <4> QED
        BY <1>s, <3>3, <4>1, <4>2, <4>3
    <3>5. advertised_at'[s] <= consumed'[s] /\ consumed'[s] + unread'[s] <= received[s]
      BY <1>s, <1>3, <2>1, <2>3, <3>2, <3>3 DEF StreamChain, c
    <3>6. peer_max(s) <= local_max'[s]
      BY <1>s, <2>1, <2>3, <3>1, <3>3 DEF StreamChain
    <3> QED
      BY <1>8, <2>1, <2>3, <3>3, <3>4, <3>5, <3>6, <3>7, <3>8 DEF StreamChain
  <2> QED
    BY <2>2, <2>3
<1>10. ConnChain'
  <2>1. ConnChain
    BY DEF IInv
  <2>2. local_max_data' >= local_max_data /\ local_max_data' \in Nat
    BY <1>c, <1>3, <1>4, <1>6
  <2>3. \A i \in 1..Len(control_q') : control_q'[i] <= local_max_data'
    <3>1. \A i \in 1..Len(control_q) : control_q[i] \in Nat /\ control_q[i] <= local_max_data
      BY <1>q, <2>1 DEF ConnChain
    <3>2. CASE control_q' = control_q
      BY <1>c, <2>2, <3>1, <3>2
    <3>3. CASE control_q' = Append(control_q, conn_limit) /\ local_max_data' = conn_limit
      BY <1>c, <1>q, <1>3, <1>4, <2>2, <3>1, <3>3
    <3> QED
      BY <1>6, <3>2, <3>3
  <2>4. /\ conn_advertised_at' <= conn_consumed'
        /\ local_max_data' = new_limit(conn_advertised_at', MaxData)
        /\ peer_max_data <= local_max_data'
    BY <1>c, <1>3, <1>6, <2>1, <2>2 DEF ConnChain, conn_limit
  <2> QED
    BY <1>8, <2>1, <2>3, <2>4 DEF ConnChain, Total
<1>11. CreditConserved' /\ NoFalseViolation'
  <2>1. CreditConserved /\ NoFalseViolation
    BY DEF IInv
  <2>2. Total(unread') = Total(unread) - n
    BY <1>1, OffsetsBounded, TotalSub
  <2>3. Total(unread) \in Nat
    BY CellsFinite
  <2>4. conn_received' - conn_consumed' = Total(unread')
    BY <1>c, <1>6, <2>1, <2>2, <2>3 DEF CreditConserved, cc
  <2> QED
    BY <2>1, <2>4 DEF CreditConserved, NoFalseViolation, Total
<1> QED
  BY <1>7, <1>9, <1>10, <1>11 DEF IInv

(* The two tasks that call on_consumed.                                     *)
LEMMA ConsumeSteps ==
    ASSUME IInv, NEW s \in Streams, app_consumed(s) \/ cb_consumed(s)
    PROVE  IInv'
<1>1. /\ arriving \in [Streams -> Nat] /\ inbuf \in [Streams -> Nat]
      /\ app_hand \in [Streams -> Nat] /\ cb_hand \in [Streams -> Nat]
      /\ unread \in [Streams -> Nat]
      /\ app_advert \in [Streams -> Nat] /\ cb_advert \in [Streams -> Nat]
      /\ consumed \in [Streams -> Nat]
      /\ \A t \in Streams : /\ arriving[t] = 0 \/ cb_hand[t] = 0
                            /\ cb_advert[t] = 0 \/ (arriving[t] = 0 /\ cb_hand[t] = 0)
                            /\ app_advert[t] = 0 \/ app_hand[t] = 0
  BY FunctionTypes DEF IInv, TypeOK, StreamChain
<1>6. ASSUME NEW n \in Nat PROVE stream_adv(s, n) \in Nat
  BY <1>1, <1>6, LimitsAssumption DEF stream_adv, new_limit, sat, Min2
<1>2. unread = [t \in Streams |-> arriving[t] + inbuf[t] + app_hand[t] + cb_hand[t]]
  BY DEF unread
<1>3. unread' = [t \in Streams |-> arriving'[t] + inbuf'[t] + app_hand'[t] + cb_hand'[t]]
  BY DEF unread
<1>4. CASE app_consumed(s)
  <2> DEFINE n == app_hand[s]
  <2>1. /\ n \in Nat /\ n > 0 /\ on_consumed(s, n)
        /\ app_hand' = [app_hand EXCEPT ![s] = 0]
        /\ app_advert' = [app_advert EXCEPT ![s] = stream_adv(s, n)]
        /\ UNCHANGED <<sender, conn_received, received, rcvLife, hello_received, credit_q,
                       stop_q, arriving, inbuf, cb_hand, cb_advert>>
    BY <1>1, <1>4 DEF app_consumed, rcvLife
  <2>2. n <= unread[s]
    BY <1>1, <1>2
  <2>3. unread' = [unread EXCEPT ![s] = @ - n]
    <3>1. ASSUME NEW t \in Streams
          PROVE  arriving'[t] + inbuf'[t] + app_hand'[t] + cb_hand'[t]
                    = [unread EXCEPT ![s] = @ - n][t]
      <4>1. CASE t = s
        BY <1>1, <1>2, <2>1, <4>1
      <4>2. CASE t # s
        BY <1>1, <1>2, <2>1, <4>2
      <4> QED
        BY <4>1, <4>2
    <3> QED
      BY <1>1, <1>3, <3>1
  <2>4. app_hand' \in [Streams -> Nat]
    BY <1>1, <2>1
  <2>5. /\ app_advert' \in [Streams -> Nat] /\ cb_advert' \in [Streams -> Nat]
        /\ \A t \in Streams :
              /\ app_advert'[t] = app_advert[t] \/ (t = s /\ app_advert'[t] = stream_adv(s, n))
              /\ cb_advert'[t] = cb_advert[t] \/ (t = s /\ cb_advert'[t] = stream_adv(s, n))
    <3>1. stream_adv(s, n) \in Nat
      BY <1>6, <2>1
    <3> HIDE DEF n
    <3> QED
      BY <1>1, <2>1, <3>1
  <2>6. \A t \in Streams : /\ arriving'[t] = 0 \/ cb_hand'[t] = 0
                           /\ cb_advert'[t] = 0 \/ (arriving'[t] = 0 /\ cb_hand'[t] = 0)
                           /\ app_advert'[t] = 0 \/ app_hand'[t] = 0
    <3>1. ASSUME NEW t \in Streams
          PROVE  /\ arriving'[t] = 0 \/ cb_hand'[t] = 0
                 /\ cb_advert'[t] = 0 \/ (arriving'[t] = 0 /\ cb_hand'[t] = 0)
                 /\ app_advert'[t] = 0 \/ app_hand'[t] = 0
      <4>1. CASE t = s
        BY <1>1, <2>1, <4>1
      <4>2. CASE t # s
        BY <1>1, <2>1, <4>2
      <4> QED BY <4>1, <4>2
    <3> QED BY <3>1
  <2> HIDE DEF n
  <2> QED
    BY <1>1, <2>1, <2>2, <2>3, <2>4, <2>5, <2>6, ConsumeStep
<1>5. CASE cb_consumed(s)
  <2> DEFINE n == cb_hand[s]
  <2>1. /\ n \in Nat /\ n > 0 /\ on_consumed(s, n)
        /\ cb_hand' = [cb_hand EXCEPT ![s] = 0]
        /\ cb_advert' = [cb_advert EXCEPT ![s] = stream_adv(s, n)]
        /\ UNCHANGED <<sender, conn_received, received, rcvLife, hello_received, credit_q,
                       stop_q, arriving, inbuf, app_hand, app_advert>>
    BY <1>1, <1>5 DEF cb_consumed, rcvLife
  <2>2. n <= unread[s]
    BY <1>1, <1>2
  <2>3. unread' = [unread EXCEPT ![s] = @ - n]
    <3>1. ASSUME NEW t \in Streams
          PROVE  arriving'[t] + inbuf'[t] + app_hand'[t] + cb_hand'[t]
                    = [unread EXCEPT ![s] = @ - n][t]
      <4>1. CASE t = s
        BY <1>1, <1>2, <2>1, <4>1
      <4>2. CASE t # s
        BY <1>1, <1>2, <2>1, <4>2
      <4> QED
        BY <4>1, <4>2
    <3> QED
      BY <1>1, <1>3, <3>1
  <2>4. cb_hand' \in [Streams -> Nat]
    BY <1>1, <2>1
  <2>5. /\ app_advert' \in [Streams -> Nat] /\ cb_advert' \in [Streams -> Nat]
        /\ \A t \in Streams :
              /\ app_advert'[t] = app_advert[t] \/ (t = s /\ app_advert'[t] = stream_adv(s, n))
              /\ cb_advert'[t] = cb_advert[t] \/ (t = s /\ cb_advert'[t] = stream_adv(s, n))
    <3>1. stream_adv(s, n) \in Nat
      BY <1>6, <2>1
    <3> HIDE DEF n
    <3> QED
      BY <1>1, <2>1, <3>1
  <2>6. \A t \in Streams : /\ arriving'[t] = 0 \/ cb_hand'[t] = 0
                           /\ cb_advert'[t] = 0 \/ (arriving'[t] = 0 /\ cb_hand'[t] = 0)
                           /\ app_advert'[t] = 0 \/ app_hand'[t] = 0
    <3>1. ASSUME NEW t \in Streams
          PROVE  /\ arriving'[t] = 0 \/ cb_hand'[t] = 0
                 /\ cb_advert'[t] = 0 \/ (arriving'[t] = 0 /\ cb_hand'[t] = 0)
                 /\ app_advert'[t] = 0 \/ app_hand'[t] = 0
      <4>1. CASE t = s
        BY <1>1, <2>1, <4>1
      <4>2. CASE t # s
        BY <1>1, <2>1, <4>2
      <4> QED BY <4>1, <4>2
    <3> QED BY <3>1
  <2> HIDE DEF n
  <2> QED
    BY <1>1, <2>1, <2>2, <2>3, <2>4, <2>5, <2>6, ConsumeStep
<1> QED
  BY <1>4, <1>5

(* A limit passes from a task's hands to the channel.                       *)
LEMMA AdvertiseSteps ==
    ASSUME IInv, NEW s \in Streams, app_advertise(s) \/ cb_advertise(s)
    PROVE  IInv'
<1> USE DEF sender, sndLimits, sndCount, sndLife, task, rcvCount, held, rcvLife
<1>1. /\ app_advert \in [Streams -> Nat] /\ cb_advert \in [Streams -> Nat]
      /\ credit_q \in [Streams -> SUBSET Nat] /\ local_max \in [Streams -> Nat]
  BY DEF IInv, TypeOK
<1>2. PICK v \in Nat : /\ v <= local_max[s]
                       /\ credit_q' = [credit_q EXCEPT ![s] = @ \cup {v}]
  <2>1. CASE app_advertise(s)
    BY <1>1, <2>1 DEF app_advertise, IInv, StreamChain
  <2>2. CASE cb_advertise(s)
    BY <1>1, <2>2 DEF cb_advertise, IInv, StreamChain
  <2> QED
    BY <2>1, <2>2
<1>3. /\ app_advert' \in [Streams -> Nat] /\ cb_advert' \in [Streams -> Nat]
      /\ \A t \in Streams : /\ app_advert'[t] \in {0, app_advert[t]}
                            /\ cb_advert'[t] \in {0, cb_advert[t]}
  BY <1>1 DEF app_advertise, cb_advertise
<1>4. UNCHANGED <<sender, local_max_data, conn_advertised_at, local_max, advertised_at,
                  rcvCount, held, rcvLife, hello_received, control_q, stop_q>>
  BY DEF app_advertise, cb_advertise
<1>5. claimed' = claimed /\ unread' = unread
  BY <1>4 DEF claimed, unread
<1>6. credit_q' \in [Streams -> SUBSET Nat]
  BY <1>1, <1>2
<1>7. TypeOK'
  BY <1>3, <1>4, <1>6 DEF IInv, TypeOK
<1>8. ASSUME NEW t \in Streams PROVE StreamChain(t)'
  <2>1. StreamChain(t) /\ peer_max(t)' = peer_max(t) /\ local_max[t] \in Nat
    BY <1>1, <1>4 DEF IInv, peer_max
  <2>2. \A u \in credit_q'[t] : u <= local_max[t]
    <3>1. \A u \in credit_q[t] : u <= local_max[t]
      BY <2>1 DEF StreamChain
    <3> QED
      BY <1>1, <1>2, <3>1
  <2>3. app_advert'[t] <= local_max[t] /\ cb_advert'[t] <= local_max[t]
    BY <1>3, <2>1 DEF StreamChain
  <2>4. /\ cb_advert'[t] = 0 \/ (arriving[t] = 0 /\ cb_hand[t] = 0)
        /\ app_advert'[t] = 0 \/ app_hand[t] = 0
    BY <1>3, <2>1 DEF StreamChain
  <2> QED
    BY <1>4, <1>5, <2>1, <2>2, <2>3, <2>4 DEF StreamChain
<1>9. ConnChain' /\ CreditConserved' /\ NoFalseViolation'
  BY <1>4, <1>5 DEF IInv, ConnChain, CreditConserved, NoFalseViolation, Total
<1> QED
  BY <1>7, <1>8, <1>9 DEF IInv

-----------------------------------------------------------------------------
(* Every step of the specification preserves the invariant.                 *)
LEMMA NextIInv == IInv /\ [Next]_vars => IInv'
<1> SUFFICES ASSUME IInv, [Next]_vars PROVE IInv'
  OBVIOUS
<1>1. CASE UNCHANGED vars
  <2> USE <1>1 DEF vars, sender, receiver, frames, sndLimits, sndCount, sndLife, task,
               rcvLimits, rcvCount, held, rcvLife
  <2>1. TypeOK'
    BY DEF IInv, TypeOK
  <2> QED
    BY <2>1, ChainsUnchanged DEF IInv
<1>2. CASE on_peer_hello \/ on_peer_max_data
  BY <1>2, LimitSteps
<1>3. ASSUME NEW s \in Streams, SenderStep(s) PROVE IInv'
  BY <1>3, TaskSteps, LimitSteps, ReserveSteps, WireSteps, CommitStep DEF SenderStep
<1>4. ASSUME NEW s \in Streams, ReceiverStep(s) PROVE IInv'
  BY <1>4, TaskSteps, HeldSteps, ReceiveStep, ConsumeSteps, AdvertiseSteps
     DEF ReceiverStep
<1>5. CASE fail
  <2>1. CASE Streams # {}
    BY <1>5, <2>1, TaskSteps
  <2>2. CASE Streams = {}
    <3> USE DEF sender, receiver, frames, sndLimits, sndCount, sndLife, task, rcvLimits,
                rcvCount, held, rcvLife
    <3>1. UNCHANGED <<sndLimits, sndCount, wire, rcvLimits, rcvCount, held, fatal,
                      hello_received, control_q, credit_q, terminal_sent>>
      BY <1>5 DEF fail
    <3>2. TypeOK'
      BY <1>5, WakeType DEF fail, IInv, TypeOK
    <3> QED
      BY <3>1, <3>2, ChainsUnchanged DEF IInv
  <2> QED
    BY <2>1, <2>2
<1> QED
  BY <1>1, <1>2, <1>3, <1>4, <1>5 DEF Next

(* The inductive invariant holds in every reachable state.                  *)
THEOREM Invariance == Spec => []IInv
  BY InitIInv, NextIInv, PTL DEF Spec

(* Type correctness: no counter of flow.rs ever leaves the natural numbers, *)
(* so no u64 subtraction of commit, release, drop_stream wraps.             *)
THEOREM TypeCorrect == Spec => []TypeOK
<1>1. IInv => TypeOK
  BY DEF IInv
<1> QED
  BY <1>1, Invariance, PTL

(* poll_reserve never computes a negative amount of credit.                 *)
THEOREM CreditRespected == Spec => []WithinCredit
<1>1. IInv => WithinCredit
  <2> SUFFICES ASSUME IInv PROVE WithinCredit
    OBVIOUS
  <2>1. conn_avail >= 0
    BY DEF IInv, TypeOK, ConnChain, conn_avail
  <2>2. ASSUME NEW s \in Streams PROVE stream_avail(s) >= 0
    <3>1. /\ claimed[s] = send_sent[s] + send_reserved[s] /\ claimed[s] <= peer_max(s)
          /\ send_sent[s] \in Nat /\ send_reserved[s] \in Nat
      BY DEF IInv, TypeOK, StreamChain, claimed
    <3>2. peer_max(s) \in Nat
      BY DEF IInv, TypeOK, peer_max, Max2
    <3> QED
      BY <3>1, <3>2 DEF stream_avail
  <2> QED
    BY <2>1, <2>2 DEF WithinCredit
<1> QED
  BY <1>1, Invariance, PTL

(* A receiver never fails the connection of a conforming sender over        *)
(* credit, whatever the streams, windows and frame sizes.                   *)
THEOREM NoConformingPeerRejected == Spec => []NoFalseViolation
<1>1. IInv => NoFalseViolation
  BY DEF IInv
<1> QED
  BY <1>1, Invariance, PTL

(* The connection's counters are the sums of the streams' counters.         *)
THEOREM Conservation == Spec => []CreditConserved
<1>1. IInv => CreditConserved
  BY DEF IInv
<1> QED
  BY <1>1, Invariance, PTL

(* A receiver holds at most a window per stream and a window in all.        *)
THEOREM Bounded == Spec => []BoundedUnread
<1>1. IInv => BoundedUnread
  <2> SUFFICES ASSUME IInv PROVE BoundedUnread
    OBVIOUS
  <2>1. ASSUME NEW s \in Streams PROVE unread[s] <= MaxStreamData
    <3>1. /\ consumed[s] \in Nat /\ advertised_at[s] \in Nat /\ received[s] \in Nat
          /\ wire[s] \in Nat /\ local_max[s] \in Nat
      BY DEF IInv, TypeOK
    <3>2. unread[s] \in Nat /\ claimed[s] \in Nat
      BY FunctionTypes
    <3>3. peer_max(s) \in Nat
      BY DEF IInv, TypeOK, peer_max, Max2
    <3>4. StreamChain(s)
      BY DEF IInv
    <3>5. local_max[s] <= advertised_at[s] + MaxStreamData
      BY <3>1, <3>4, LimitsAssumption DEF StreamChain, new_limit, sat, Min2
    <3> QED
      BY <3>1, <3>2, <3>3, <3>4, <3>5, LimitsAssumption DEF StreamChain
  <2>2. Total(received) <= Total(claimed)
    <3>1. ASSUME NEW s \in Streams PROVE received[s] <= claimed[s]
      <4>1. StreamChain(s) /\ received[s] \in Nat /\ wire[s] \in Nat /\ claimed[s] \in Nat
        BY FunctionTypes DEF IInv, TypeOK
      <4> QED
        BY <4>1 DEF StreamChain
    <3> QED
      BY <3>1, FunctionTypes, TotalMono
  <2>3. Total(unread) <= MaxData
    <3>1. /\ conn_received \in Nat /\ conn_consumed \in Nat /\ conn_advertised_at \in Nat
          /\ conn_sent \in Nat /\ conn_reserved \in Nat
          /\ local_max_data \in Nat /\ peer_max_data \in Nat
      BY DEF IInv, TypeOK
    <3>2. Total(received) \in Nat /\ Total(claimed) \in Nat /\ Total(unread) \in Nat
      BY CellsFinite
    <3>3. ConnChain /\ CreditConserved
      BY DEF IInv
    <3>4. local_max_data <= conn_advertised_at + MaxData
      BY <3>1, <3>3, LimitsAssumption DEF ConnChain, new_limit, sat, Min2
    <3> QED
      BY <2>2, <3>1, <3>2, <3>3, <3>4, LimitsAssumption DEF ConnChain, CreditConserved
  <2> QED
    BY <2>1, <2>3 DEF BoundedUnread
<1> QED
  BY <1>1, Invariance, PTL

-----------------------------------------------------------------------------
(* Writers that wait, and credit that is withheld.  IInv says that no limit *)
(* is exceeded; it does not say that a limit is reached by those who wait   *)
(* for it.  For that Waiting follows a limit from the receiver that earns   *)
(* it (Counted), over the wire (Told, ConnTold), to the writer that wants   *)
(* it (Parked), through the ends of the stream (EndsInOrder, StopInOrder,   *)
(* Known), after which nobody waits.                                        *)

(* The ends of a stream in order: the peer handles a terminal frame that    *)
(* was sent, one is sent after fail_send, and fail_send follows the         *)
(* decision.  Only a cancelled read has STOP_SENDING, and only STOP_SENDING *)
(* decides for a write that is in progress.                                 *)
EndsInOrder(s) ==
    /\ peer_terminal[s] => terminal_sent[s]
    /\ terminal_sent[s] => send_failed[s]
    /\ send_failed[s] => local_terminal[s] # "none"
    /\ stop_q[s] # "none" => read_cancel[s]
    /\ writer[s] \in {"reserve", "parked"} => local_terminal[s] = "none" \/ read_cancel[s]

(* STOP_SENDING leaves after mark_cancelled, a cancelled stream does not    *)
(* come back, and the reading task that cancelled it has no limit to queue. *)
StopInOrder(s) ==
    /\ cancelled[s] => read_cancel[s]
    /\ read_cancel[s] => s \in rcv_streams \/ peer_terminal[s]
    /\ stop_q[s] = "sent" => cancelled[s] \/ s \notin rcv_streams
    /\ read_cancel[s] => app_advert[s] = 0

(* DATA belongs to a stream that both ends have, or had.                    *)
Known(s) ==
    /\ wire[s] = 0 \/ s \in snd_streams \/ terminal_sent[s]
    /\ received[s] = 0 \/ s \in rcv_streams \/ peer_terminal[s]

(* Up to its terminal frame, no byte of a stream is forgotten, and what is  *)
(* consumed is less than a threshold ahead of what was last advertised.     *)
Near(c, a, window) == c <= a \/ c < a + threshold(window)
Counted(s) == ~peer_terminal[s] =>
    /\ received[s] <= consumed[s] + unread[s]
    /\ cancelled[s] \/ Near(consumed[s], advertised_at[s], MaxStreamData)

(* What the receiver enforces the sender knows, or is being told, or a task *)
(* of the receiver is about to tell.                                        *)
Told(s) ==
    \/ terminal_sent[s] \/ local_max[s] = MaxStreamData
    \/ local_max[s] = app_advert[s] \/ local_max[s] = cb_advert[s]
    \/ local_max[s] \in credit_q[s] \/ local_max[s] <= peer_max_explicit[s]

(* The same for the connection.                                             *)
OnItsWay(v) == \E i \in 1..Len(control_q) : control_q[i] = v
ConnTold ==
    /\ Near(conn_consumed, conn_advertised_at, MaxData)
    /\ \/ OnItsWay(local_max_data)
       \/ IF hello_received THEN local_max_data <= peer_max_data
                            ELSE local_max_data = MaxData
    /\ hello_received => peer_init_stream_data = MaxStreamData

(* NoLostWakeup, of one stream.                                             *)
Parked(s) == writer[s] = "parked" =>
    /\ ~is_failed /\ s \in snd_streams /\ ~send_failed[s]
    /\ grant(s, want[s]) < 1

(* The invariant behind NoLostWakeup, NoCreditDeadlock and                  *)
(* NoCreditAfterStop, next to IInv.                                         *)
Waiting ==
    /\ \A s \in Streams : EndsInOrder(s) /\ StopInOrder(s) /\ Known(s)
    /\ \A s \in Streams : Counted(s) /\ Told(s)
    /\ ConnTold
    /\ \A s \in Streams : Parked(s)

(* Half of a window is not more than the window.                            *)
LEMMA ThresholdBounds == \A w \in Nat : threshold(w) \in Nat /\ threshold(w) <= w
  BY DEF threshold

(* What on_consumed does to one stream, whoever accounts for its bytes.     *)
LEMMA Accounting ==
    ASSUME IInv, NEW s \in Streams, app_consumed(s) \/ cb_consumed(s), NEW t \in Streams
    PROVE  /\ t # s => /\ consumed'[t] = consumed[t] /\ unread'[t] = unread[t]
                       /\ advertised_at'[t] = advertised_at[t]
                       /\ local_max'[t] = local_max[t]
                       /\ app_advert'[t] = app_advert[t] /\ cb_advert'[t] = cb_advert[t]
           /\ t = s => \E n \in Nat \ {0} :
                 /\ n <= unread[t] /\ unread'[t] = unread[t] - n
                 /\ consumed'[t] = IF t \in rcv_streams THEN consumed[t] + n ELSE consumed[t]
                 /\ \/ /\ advertised_at'[t] = consumed'[t] /\ earns(t)
                       /\ local_max'[t] = app_advert'[t] \/ local_max'[t] = cb_advert'[t]
                    \/ /\ advertised_at'[t] = advertised_at[t]
                       /\ local_max'[t] = local_max[t]
                       /\ app_advert'[t] = app_advert[t] /\ cb_advert'[t] = cb_advert[t]
                       /\ earns(t) => consumed'[t] < advertised_at[t] + threshold(MaxStreamData)
           /\ UNCHANGED <<received, rcvLife, sender, hello_received, credit_q, stop_q>>
<1>1. /\ consumed \in [Streams -> Nat] /\ advertised_at \in [Streams -> Nat]
      /\ local_max \in [Streams -> Nat]
      /\ arriving \in [Streams -> Nat] /\ inbuf \in [Streams -> Nat]
      /\ app_hand \in [Streams -> Nat] /\ cb_hand \in [Streams -> Nat]
      /\ app_advert \in [Streams -> Nat] /\ cb_advert \in [Streams -> Nat]
      /\ cb_advert[s] = 0 \/ cb_hand[s] = 0
      /\ app_advert[s] = 0 \/ app_hand[s] = 0
  BY DEF IInv, TypeOK, StreamChain
<1>0. MaxStreamData \in Nat /\ threshold(MaxStreamData) \in Nat
  BY LimitsAssumption, ThresholdBounds
<1>2. UNCHANGED <<received, rcvLife, sender, hello_received, credit_q, stop_q>>
  BY DEF app_consumed, cb_consumed
<1>3. CASE t # s
  <2>1. /\ consumed'[t] = consumed[t] /\ advertised_at'[t] = advertised_at[t]
        /\ local_max'[t] = local_max[t]
        /\ app_advert'[t] = app_advert[t] /\ cb_advert'[t] = cb_advert[t]
    BY <1>1, <1>3 DEF app_consumed, cb_consumed, on_consumed
  <2>2. unread'[t] = unread[t]
    BY <1>1, <1>3 DEF app_consumed, cb_consumed, unread
  <2> QED BY <1>2, <1>3, <2>1, <2>2
<1>4. CASE t = s
  <2> DEFINE n == IF app_consumed(s) THEN app_hand[s] ELSE cb_hand[s]
  <2>1. /\ n \in Nat \ {0} /\ n <= unread[s] /\ unread'[s] = unread[s] - n
    BY <1>1 DEF app_consumed, cb_consumed, unread
  <2>2. on_consumed(s, n)
    BY DEF app_consumed, cb_consumed
  <2>7. \/ /\ app_advert[s] = 0 /\ app_advert'[s] = stream_adv(s, n)
           /\ cb_advert'[s] = cb_advert[s]
        \/ /\ cb_advert[s] = 0 /\ cb_advert'[s] = stream_adv(s, n)
           /\ app_advert'[s] = app_advert[s]
    <3>1. CASE app_consumed(s)
      BY <1>1, <3>1 DEF app_consumed
    <3>2. CASE ~app_consumed(s)
      <4>1. cb_consumed(s) /\ n = cb_hand[s]
        BY <3>2
      <4> QED
        BY <1>1, <4>1 DEF cb_consumed
    <3> QED
      BY <3>1, <3>2
  <2> HIDE DEF n
  <2>3. consumed'[s] = IF s \in rcv_streams THEN consumed[s] + n ELSE consumed[s]
    BY <1>1, <2>2 DEF on_consumed
  <2>4. \/ /\ earns(s) /\ advertised_at'[s] = consumed[s] + n
           /\ local_max'[s] = stream_adv(s, n)
        \/ /\ \/ ~earns(s)
              \/ ~((consumed[s] + n) - advertised_at[s] >= threshold(MaxStreamData))
           /\ advertised_at'[s] = advertised_at[s]
           /\ local_max'[s] = local_max[s] /\ stream_adv(s, n) = 0
    <3>1. CASE due(s, n)
      <4>1. advertised_at'[s] = consumed[s] + n /\ local_max'[s] = stream_adv(s, n)
        BY <1>1, <2>2, <3>1 DEF on_consumed
      <4> QED BY <3>1, <4>1 DEF due
    <3>2. CASE ~due(s, n)
      <4>1. advertised_at'[s] = advertised_at[s] /\ local_max'[s] = local_max[s]
        BY <1>1, <2>2, <3>2 DEF on_consumed
      <4> QED BY <3>2, <4>1 DEF due, stream_adv
    <3> QED BY <3>1, <3>2
  <2>5. /\ consumed[s] \in Nat /\ advertised_at[s] \in Nat
        /\ earns(s) => s \in rcv_streams
    BY <1>1 DEF earns
  <2>6. \/ /\ advertised_at'[s] = consumed'[s] /\ earns(s)
           /\ local_max'[s] = app_advert'[s] \/ local_max'[s] = cb_advert'[s]
        \/ /\ advertised_at'[s] = advertised_at[s]
           /\ local_max'[s] = local_max[s]
           /\ app_advert'[s] = app_advert[s] /\ cb_advert'[s] = cb_advert[s]
           /\ earns(s) => consumed'[s] < advertised_at[s] + threshold(MaxStreamData)
    <3>1. earns(s) /\ ~((consumed[s] + n) - advertised_at[s] >= threshold(MaxStreamData))
            => consumed'[s] < advertised_at[s] + threshold(MaxStreamData)
      BY <1>0, <2>1, <2>3, <2>5
    <3> QED
      BY <2>3, <2>4, <2>5, <2>7, <3>1
  <2> QED BY <1>2, <1>4, <2>1, <2>3, <2>6
<1> QED BY <1>3, <1>4

(* Moving bytes between the receiver's tasks forgets none.                  *)
LEMMA PushKeepsUnread ==
    ASSUME IInv, NEW s \in Streams, push_data(s)
    PROVE  unread' = unread
<1>1. /\ arriving \in [Streams -> Nat] /\ inbuf \in [Streams -> Nat]
      /\ app_hand \in [Streams -> Nat] /\ cb_hand \in [Streams -> Nat]
      /\ arriving[s] = 0 \/ cb_hand[s] = 0
  BY DEF IInv, TypeOK, StreamChain
<1>2. ASSUME NEW t \in Streams
      PROVE  arriving'[t] + inbuf'[t] + app_hand'[t] + cb_hand'[t]
                = arriving[t] + inbuf[t] + app_hand[t] + cb_hand[t]
  <2>1. CASE t = s
    BY <1>1, <2>1 DEF push_data, rcvLife
  <2>2. CASE t # s
    BY <1>1, <2>2 DEF push_data, rcvLife
  <2> QED BY <2>1, <2>2
<1> QED BY <1>2 DEF unread

(* The ends of a stream keep their order, whatever step is taken.           *)
LEMMA EndsKept ==
    ASSUME IInv, Waiting, Next, NEW t \in Streams
    PROVE  EndsInOrder(t)'
<1>1. EndsInOrder(t) /\ TypeAmounts /\ TypeQueues /\ TypeControl
  BY TypeParts DEF IInv, Waiting
<1>2. ASSUME NEW s \in Streams,
             \/ snd_new_stream(s) \/ (\E n \in 1..MaxFrame : send_data(s, n))
             \/ commit(s) \/ rcv_new_stream(s)
             \/ (\E n \in 1..MaxFrame : on_data_received(s, n)) \/ push_data(s)
             \/ (\E n \in 1..MaxFrame : poll_read(s, n)) \/ mark_cancelled(s)
             \/ app_consumed(s) \/ cb_consumed(s) \/ rcv_drop_stream(s)
             \/ app_advertise(s) \/ cb_advertise(s)
      PROVE  EndsInOrder(t)'
  <2>1. UNCHANGED <<local_terminal, peer_terminal, read_cancel, send_failed, stop_q,
                    terminal_sent,
          writer>>
    BY <1>2
       DEF snd_new_stream, send_data, commit, rcv_new_stream, on_data_received, push_data,
           poll_read, mark_cancelled, app_consumed, cb_consumed, app_advertise, cb_advertise,
           rcv_drop_stream, sender,
           receiver, frames, sndLimits, sndCount, sndLife, task, rcvLimits, rcvCount,
           held, rcvLife
  <2> QED BY <1>1, <2>1 DEF EndsInOrder
<1>3. ASSUME fail
      PROVE  EndsInOrder(t)'
  BY <1>1, <1>3
     DEF fail, TypeControl, WriterStates, EndsInOrder, wake_locked, sender, receiver,
         frames, sndLimits, sndCount, sndLife, task, rcvLimits, rcvCount, held, rcvLife
<1>4. ASSUME on_peer_hello
      PROVE  EndsInOrder(t)'
  BY <1>1, <1>4
     DEF on_peer_hello, TypeControl, WriterStates, EndsInOrder, wake_locked, sender,
         receiver, frames, sndLimits, sndCount, sndLife, task, rcvLimits, rcvCount, held,
         rcvLife
<1>5. ASSUME on_peer_max_data
      PROVE  EndsInOrder(t)'
  BY <1>1, <1>5
     DEF on_peer_max_data, TypeControl, WriterStates, EndsInOrder, wake_locked, sender,
         receiver, frames, sndLimits, sndCount, sndLife, task, rcvLimits, rcvCount, held,
         rcvLife
<1>6. ASSUME NEW s \in Streams, on_peer_max_stream_data(s)
      PROVE  EndsInOrder(t)'
  BY <1>1, <1>6
     DEF on_peer_max_stream_data, TypeControl, WriterStates, EndsInOrder, wake_locked,
         sender, receiver, frames, sndLimits, sndCount, sndLife, task, rcvLimits,
         rcvCount, held, rcvLife
<1>7. ASSUME NEW s \in Streams, NEW n \in WriteSizes, write(s, n)
      PROVE  EndsInOrder(t)'
  BY <1>1, <1>7
     DEF write, TypeControl, WriterStates, EndsInOrder, wake_locked, sender, receiver,
         frames, sndLimits, sndCount, sndLife, task, rcvLimits, rcvCount, held, rcvLife
<1>8. ASSUME NEW s \in Streams, abandon_write(s)
      PROVE  EndsInOrder(t)'
  BY <1>1, <1>8
     DEF abandon_write, TypeControl, WriterStates, EndsInOrder, wake_locked, sender,
         receiver, frames, sndLimits, sndCount, sndLife, task, rcvLimits, rcvCount, held,
         rcvLife
<1>9. ASSUME NEW s \in Streams, poll_write(s)
      PROVE  EndsInOrder(t)'
  BY <1>1, <1>9
     DEF poll_write, TypeControl, WriterStates, EndsInOrder, wake_locked, sender,
         receiver, frames, sndLimits, sndCount, sndLife, task, rcvLimits, rcvCount, held,
         rcvLife
<1>10. ASSUME NEW s \in Streams, poll_reserve(s)
      PROVE  EndsInOrder(t)'
  BY <1>1, <1>10
     DEF poll_reserve, TypeControl, WriterStates, EndsInOrder, wake_locked, sender,
         receiver, frames, sndLimits, sndCount, sndLife, task, rcvLimits, rcvCount, held,
         rcvLife
<1>11. ASSUME NEW s \in Streams, NEW n \in 1..MaxFrame, release(s, n)
      PROVE  EndsInOrder(t)'
  BY <1>1, <1>11
     DEF release, TypeControl, WriterStates, EndsInOrder, wake_locked, sender, receiver,
         frames, sndLimits, sndCount, sndLife, task, rcvLimits, rcvCount, held, rcvLife
<1>12. ASSUME NEW s \in Streams, close_write(s)
      PROVE  EndsInOrder(t)'
  BY <1>1, <1>12
     DEF close_write, TypeControl, WriterStates, EndsInOrder, sender, receiver, frames,
         sndLimits, sndCount, sndLife, task, rcvLimits, rcvCount, held, rcvLife
<1>13. ASSUME NEW s \in Streams, reset_write(s)
      PROVE  EndsInOrder(t)'
  BY <1>1, <1>13
     DEF reset_write, TypeControl, WriterStates, EndsInOrder, sender, receiver, frames,
         sndLimits, sndCount, sndLife, task, rcvLimits, rcvCount, held, rcvLife
<1>14. ASSUME NEW s \in Streams, on_stop_sending(s)
      PROVE  EndsInOrder(t)'
  BY <1>1, <1>14
     DEF on_stop_sending, TypeControl, WriterStates, EndsInOrder, sender, receiver,
         frames, sndLimits, sndCount, sndLife, task, rcvLimits, rcvCount, held, rcvLife
<1>15. ASSUME NEW s \in Streams, fail_send(s)
      PROVE  EndsInOrder(t)'
  BY <1>1, <1>15
     DEF fail_send, TypeControl, WriterStates, EndsInOrder, wake_locked, sender, receiver,
         frames, sndLimits, sndCount, sndLife, task, rcvLimits, rcvCount, held, rcvLife
<1>16. ASSUME NEW s \in Streams, send_terminal(s)
      PROVE  EndsInOrder(t)'
  BY <1>1, <1>16
     DEF send_terminal, TypeControl, WriterStates, EndsInOrder, sender, receiver, frames,
         sndLimits, sndCount, sndLife, task, rcvLimits, rcvCount, held, rcvLife
<1>17. ASSUME NEW s \in Streams, snd_drop_stream(s)
      PROVE  EndsInOrder(t)'
  BY <1>1, <1>17
     DEF snd_drop_stream, TypeControl, WriterStates, EndsInOrder, wake_locked, sender,
         receiver, frames, sndLimits, sndCount, sndLife, task, rcvLimits, rcvCount, held,
         rcvLife
<1>18. ASSUME NEW s \in Streams, on_peer_terminal(s)
      PROVE  EndsInOrder(t)'
  BY <1>1, <1>18
     DEF on_peer_terminal, TypeControl, WriterStates, EndsInOrder, sender, receiver,
         frames, sndLimits, sndCount, sndLife, task, rcvLimits, rcvCount, held, rcvLife
<1>19. ASSUME NEW s \in Streams, cancel_read(s)
      PROVE  EndsInOrder(t)'
  BY <1>1, <1>19
     DEF cancel_read, TypeControl, WriterStates, EndsInOrder, sender, receiver, frames,
         sndLimits, sndCount, sndLife, task, rcvLimits, rcvCount, held, rcvLife
<1>20. ASSUME NEW s \in Streams, send_stop_sending(s)
      PROVE  EndsInOrder(t)'
  BY <1>1, <1>20
     DEF send_stop_sending, TypeControl, WriterStates, EndsInOrder, sender, receiver,
         frames, sndLimits, sndCount, sndLife, task, rcvLimits, rcvCount, held, rcvLife
<1> QED
  BY <1>2, <1>3, <1>4, <1>5, <1>6, <1>7, <1>8, <1>9, <1>10, <1>11, <1>12, <1>13, <1>14,
     <1>15, <1>16, <1>17, <1>18, <1>19, <1>20
     DEF Next, SenderStep, ReceiverStep

(* STOP_SENDING and the forgetting of a stream keep their order.            *)
LEMMA StopKept ==
    ASSUME IInv, Waiting, Next, NEW t \in Streams
    PROVE  StopInOrder(t)'
<1>1. StopInOrder(t) /\ TypeAmounts /\ TypeQueues /\ TypeControl
  BY TypeParts DEF IInv, Waiting
<1>0. EndsInOrder(t)
  BY DEF Waiting
<1>2. ASSUME NEW s \in Streams,
             \/ fail \/ on_peer_hello \/ on_peer_max_data \/ snd_new_stream(s)
             \/ on_peer_max_stream_data(s) \/ (\E n \in WriteSizes : write(s, n))
             \/ abandon_write(s) \/ poll_write(s) \/ poll_reserve(s)
             \/ (\E n \in 1..MaxFrame : send_data(s, n)) \/ commit(s)
             \/ (\E n \in 1..MaxFrame : release(s, n)) \/ close_write(s)
             \/ reset_write(s) \/ fail_send(s) \/ send_terminal(s)
             \/ snd_drop_stream(s)
             \/ (\E n \in 1..MaxFrame : on_data_received(s, n)) \/ push_data(s)
             \/ (\E n \in 1..MaxFrame : poll_read(s, n)) \/ cb_consumed(s)
             \/ cb_advertise(s)
      PROVE  StopInOrder(t)'
  <2>1. UNCHANGED <<cancelled, peer_terminal, rcv_streams, read_cancel, stop_q, app_advert>>
    BY <1>2
       DEF fail, on_peer_hello, on_peer_max_data, snd_new_stream, on_peer_max_stream_data,
           write, abandon_write, poll_write, poll_reserve, send_data, commit, release,
           close_write, reset_write, fail_send, send_terminal, snd_drop_stream,
           on_data_received, push_data, poll_read, cb_consumed, cb_advertise, sender,
           receiver, frames, sndLimits, sndCount, sndLife, task, rcvLimits, rcvCount,
           held, rcvLife
  <2> QED BY <1>1, <2>1 DEF StopInOrder
<1>3. ASSUME NEW s \in Streams, on_stop_sending(s)
      PROVE  StopInOrder(t)'
  BY <1>1, <1>3
     DEF on_stop_sending, TypeControl, StopInOrder, sender, receiver, frames, sndLimits,
         sndCount, sndLife, task, rcvLimits, rcvCount, held, rcvLife
<1>4. ASSUME NEW s \in Streams, rcv_new_stream(s)
      PROVE  StopInOrder(t)'
  BY <1>1, <1>4, <1>0
     DEF rcv_new_stream, TypeControl, StopInOrder, EndsInOrder, sender, receiver, frames,
         sndLimits, sndCount, sndLife, task, rcvLimits, rcvCount, held, rcvLife
<1>5. ASSUME NEW s \in Streams, on_peer_terminal(s)
      PROVE  StopInOrder(t)'
  BY <1>1, <1>5
     DEF on_peer_terminal, TypeControl, StopInOrder, sender, receiver, frames, sndLimits,
         sndCount, sndLife, task, rcvLimits, rcvCount, held, rcvLife
<1>6. ASSUME NEW s \in Streams, cancel_read(s)
      PROVE  StopInOrder(t)'
  BY <1>1, <1>6
     DEF cancel_read, reader_free, TypeControl, StopInOrder, sender, receiver, frames, sndLimits,
         sndCount, sndLife, task, rcvLimits, rcvCount, held, rcvLife
<1>7. ASSUME NEW s \in Streams, mark_cancelled(s)
      PROVE  StopInOrder(t)'
  BY <1>1, <1>7
     DEF mark_cancelled, TypeControl, StopInOrder, sender, receiver, frames, sndLimits,
         sndCount, sndLife, task, rcvLimits, rcvCount, held, rcvLife
<1>8. ASSUME NEW s \in Streams, send_stop_sending(s)
      PROVE  StopInOrder(t)'
  BY <1>1, <1>8
     DEF send_stop_sending, TypeControl, StopInOrder, sender, receiver, frames, sndLimits,
         sndCount, sndLife, task, rcvLimits, rcvCount, held, rcvLife
<1>9. ASSUME NEW s \in Streams, rcv_drop_stream(s)
      PROVE  StopInOrder(t)'
  BY <1>1, <1>9
     DEF rcv_drop_stream, TypeControl, StopInOrder, sender, receiver, frames, sndLimits,
         sndCount, sndLife, task, rcvLimits, rcvCount, held, rcvLife
<1>10. ASSUME NEW s \in Streams, app_consumed(s)
      PROVE  StopInOrder(t)'
  <2>1. UNCHANGED <<cancelled, peer_terminal, rcv_streams, read_cancel, stop_q>>
    BY <1>10 DEF app_consumed, rcvLife
  <2>2. app_advert \in [Streams -> Nat]
        /\ app_advert' = [app_advert EXCEPT ![s] = stream_adv(s, app_hand[s])]
    BY <1>1, <1>10 DEF app_consumed, TypeAmounts
  <2>3. read_cancel[t] => app_advert'[t] = 0
    <3>1. CASE t # s
      BY <1>1, <2>2, <3>1 DEF StopInOrder
    <3>2. CASE t = s /\ read_cancel[t]
      <4>1. ~due(s, app_hand[s])
        BY <1>10, <3>2 DEF app_consumed, due, earns
      <4> QED
        BY <2>2, <3>2, <4>1 DEF stream_adv
    <3> QED
      BY <3>1, <3>2
  <2> QED
    BY <1>1, <2>1, <2>3 DEF StopInOrder
<1>11. ASSUME NEW s \in Streams, app_advertise(s)
      PROVE  StopInOrder(t)'
  <2>1. UNCHANGED <<cancelled, peer_terminal, rcv_streams, read_cancel, stop_q>>
    BY <1>11 DEF app_advertise, rcvLife
  <2>2. app_advert'[t] \in {0, app_advert[t]}
    BY <1>1, <1>11 DEF app_advertise, TypeAmounts
  <2> QED
    BY <1>1, <2>1, <2>2 DEF StopInOrder
<1> QED
  BY <1>2, <1>3, <1>4, <1>5, <1>6, <1>7, <1>8, <1>9, <1>10, <1>11
     DEF Next, SenderStep, ReceiverStep

(* DATA stays within the life of its stream at both ends.                   *)
LEMMA KnownKept ==
    ASSUME IInv, Waiting, Next, NEW t \in Streams
    PROVE  Known(t)'
<1>1. Known(t) /\ TypeAmounts /\ TypeQueues /\ TypeControl
  BY TypeParts DEF IInv, Waiting
<1>2. ASSUME NEW s \in Streams,
             \/ fail \/ on_peer_hello \/ on_peer_max_data
             \/ on_peer_max_stream_data(s) \/ (\E n \in WriteSizes : write(s, n))
             \/ abandon_write(s) \/ poll_write(s) \/ poll_reserve(s) \/ commit(s)
             \/ (\E n \in 1..MaxFrame : release(s, n)) \/ close_write(s)
             \/ reset_write(s) \/ on_stop_sending(s) \/ fail_send(s)
             \/ push_data(s) \/ (\E n \in 1..MaxFrame : poll_read(s, n))
             \/ cancel_read(s) \/ mark_cancelled(s) \/ send_stop_sending(s)
             \/ app_consumed(s) \/ cb_consumed(s)
             \/ app_advertise(s) \/ cb_advertise(s)
      PROVE  Known(t)'
  <2>1. UNCHANGED <<peer_terminal, rcv_streams, received, snd_streams, terminal_sent, wire>>
    BY <1>2
       DEF fail, on_peer_hello, on_peer_max_data, on_peer_max_stream_data, write,
           abandon_write, poll_write, poll_reserve, commit, release, close_write,
           reset_write, on_stop_sending, fail_send, push_data, poll_read, cancel_read,
           mark_cancelled, send_stop_sending, app_consumed, cb_consumed, app_advertise,
           cb_advertise, sender, receiver,
           frames, sndLimits, sndCount, sndLife, task, rcvLimits, rcvCount, held, rcvLife
  <2> QED BY <1>1, <2>1 DEF Known
<1>3. ASSUME NEW s \in Streams, snd_new_stream(s)
      PROVE  Known(t)'
  BY <1>1, <1>3
     DEF snd_new_stream, TypeControl, TypeAmounts, Known, sender, receiver, frames,
         sndLimits, sndCount, sndLife, task, rcvLimits, rcvCount, held, rcvLife
<1>4. ASSUME NEW s \in Streams, NEW n \in 1..MaxFrame, send_data(s, n)
      PROVE  Known(t)'
  BY <1>1, <1>4
     DEF send_data, TypeControl, TypeAmounts, Known, sender, receiver, frames, sndLimits,
         sndCount, sndLife, task, rcvLimits, rcvCount, held, rcvLife
<1>5. ASSUME NEW s \in Streams, send_terminal(s)
      PROVE  Known(t)'
  BY <1>1, <1>5
     DEF send_terminal, TypeControl, TypeAmounts, Known, sender, receiver, frames,
         sndLimits, sndCount, sndLife, task, rcvLimits, rcvCount, held, rcvLife
<1>6. ASSUME NEW s \in Streams, snd_drop_stream(s)
      PROVE  Known(t)'
  BY <1>1, <1>6
     DEF snd_drop_stream, TypeControl, TypeAmounts, Known, sender, receiver, frames,
         sndLimits, sndCount, sndLife, task, rcvLimits, rcvCount, held, rcvLife
<1>7. ASSUME NEW s \in Streams, rcv_new_stream(s)
      PROVE  Known(t)'
  BY <1>1, <1>7
     DEF rcv_new_stream, TypeControl, TypeAmounts, Known, sender, receiver, frames,
         sndLimits, sndCount, sndLife, task, rcvLimits, rcvCount, held, rcvLife
<1>8. ASSUME NEW s \in Streams, NEW n \in 1..MaxFrame, on_data_received(s, n)
      PROVE  Known(t)'
  BY <1>1, <1>8
     DEF on_data_received, TypeControl, TypeAmounts, Known, sender, receiver, frames,
         sndLimits, sndCount, sndLife, task, rcvLimits, rcvCount, held, rcvLife
<1>9. ASSUME NEW s \in Streams, on_peer_terminal(s)
      PROVE  Known(t)'
  BY <1>1, <1>9
     DEF on_peer_terminal, TypeControl, TypeAmounts, Known, sender, receiver, frames,
         sndLimits, sndCount, sndLife, task, rcvLimits, rcvCount, held, rcvLife
<1>10. ASSUME NEW s \in Streams, rcv_drop_stream(s)
      PROVE  Known(t)'
  BY <1>1, <1>10
     DEF rcv_drop_stream, TypeControl, TypeAmounts, Known, sender, receiver, frames,
         sndLimits, sndCount, sndLife, task, rcvLimits, rcvCount, held, rcvLife
<1> QED
  BY <1>2, <1>3, <1>4, <1>5, <1>6, <1>7, <1>8, <1>9, <1>10
     DEF Next, SenderStep, ReceiverStep

(* Every byte of a stream stays in somebody's hands until the terminal      *)
(* frame is handled, and the threshold bounds what is consumed without      *)
(* being advertised: on_consumed advertises when it is reached.             *)
LEMMA CountedKept ==
    ASSUME IInv, Waiting, Next, NEW t \in Streams
    PROVE  Counted(t)'
<1>1. Counted(t) /\ TypeAmounts /\ TypeQueues /\ TypeControl
  BY TypeParts DEF IInv, Waiting
<1>2. ASSUME NEW s \in Streams,
             \/ fail \/ on_peer_hello \/ on_peer_max_data \/ snd_new_stream(s)
             \/ on_peer_max_stream_data(s) \/ (\E n \in WriteSizes : write(s, n))
             \/ abandon_write(s) \/ poll_write(s) \/ poll_reserve(s)
             \/ (\E n \in 1..MaxFrame : send_data(s, n)) \/ commit(s)
             \/ (\E n \in 1..MaxFrame : release(s, n)) \/ close_write(s)
             \/ reset_write(s) \/ on_stop_sending(s) \/ fail_send(s)
             \/ send_terminal(s) \/ snd_drop_stream(s) \/ rcv_new_stream(s)
             \/ send_stop_sending(s) \/ rcv_drop_stream(s)
             \/ app_advertise(s) \/ cb_advertise(s)
      PROVE  Counted(t)'
  <2>1. UNCHANGED <<advertised_at, app_hand, arriving, cancelled, cb_hand, consumed, inbuf,
          peer_terminal, received>>
    BY <1>2
       DEF fail, on_peer_hello, on_peer_max_data, snd_new_stream, on_peer_max_stream_data,
           write, abandon_write, poll_write, poll_reserve, send_data, commit, release,
           close_write, reset_write, on_stop_sending, fail_send, send_terminal,
           snd_drop_stream, rcv_new_stream, send_stop_sending, rcv_drop_stream, app_advertise,
           cb_advertise, sender,
           receiver, frames, sndLimits, sndCount, sndLife, task, rcvLimits, rcvCount,
           held, rcvLife
  <2> QED BY <1>1, <2>1 DEF Counted, Near, unread
<1>3. ASSUME NEW s \in Streams, NEW n \in 1..MaxFrame, on_data_received(s, n)
      PROVE  Counted(t)'
  BY <1>1, <1>3
     DEF on_data_received, callback_free, TypeControl, TypeAmounts, Counted, Near, unread, sender,
         receiver, frames, sndLimits, sndCount, sndLife, task, rcvLimits, rcvCount, held,
         rcvLife
<1>4. ASSUME NEW s \in Streams, push_data(s)
      PROVE  Counted(t)'
  <2>1. unread' = unread
    BY <1>4, PushKeepsUnread
  <2> QED
    BY <1>1, <1>4, <2>1 DEF push_data, Counted, rcvLimits, rcvCount, rcvLife
<1>5. ASSUME NEW s \in Streams, on_peer_terminal(s)
      PROVE  Counted(t)'
  BY <1>1, <1>5
     DEF on_peer_terminal, TypeControl, TypeAmounts, Counted, Near, unread, sender,
         receiver, frames, sndLimits, sndCount, sndLife, task, rcvLimits, rcvCount, held,
         rcvLife
<1>6. ASSUME NEW s \in Streams, NEW n \in 1..MaxFrame, poll_read(s, n)
      PROVE  Counted(t)'
  BY <1>1, <1>6
     DEF poll_read, reader_free, TypeControl, TypeAmounts, Counted, Near, unread, sender, receiver,
         frames, sndLimits, sndCount, sndLife, task, rcvLimits, rcvCount, held, rcvLife
<1>7. ASSUME NEW s \in Streams, cancel_read(s)
      PROVE  Counted(t)'
  BY <1>1, <1>7
     DEF cancel_read, reader_free, TypeControl, TypeAmounts, Counted, Near, unread, sender,
         receiver,
         frames, sndLimits, sndCount, sndLife, task, rcvLimits, rcvCount, held, rcvLife
<1>8. ASSUME NEW s \in Streams, mark_cancelled(s)
      PROVE  Counted(t)'
  BY <1>1, <1>8
     DEF mark_cancelled, TypeControl, TypeAmounts, Counted, Near, unread, sender,
         receiver, frames, sndLimits, sndCount, sndLife, task, rcvLimits, rcvCount, held,
         rcvLife
<1>9. ASSUME NEW s \in Streams, app_consumed(s)
      PROVE  Counted(t)'
  <2>1. /\ received'[t] = received[t] /\ cancelled'[t] = cancelled[t]
        /\ peer_terminal'[t] = peer_terminal[t] /\ rcv_streams' = rcv_streams
    BY <1>9, Accounting DEF rcvLife
  <2>2. CASE t # s
    BY <1>1, <1>9, <2>1, <2>2, Accounting DEF Counted, Near
  <2>3. CASE t = s /\ ~peer_terminal[t]
    <3>1. PICK n \in Nat \ {0} :
             /\ n <= unread[t] /\ unread'[t] = unread[t] - n
             /\ consumed'[t] = IF t \in rcv_streams THEN consumed[t] + n ELSE consumed[t]
             /\ \/ advertised_at'[t] = consumed'[t]
                \/ /\ advertised_at'[t] = advertised_at[t]
                   /\ earns(t) => consumed'[t] < advertised_at[t] + threshold(MaxStreamData)
      BY <1>9, <2>3, Accounting
    <3>2. /\ consumed[t] \in Nat /\ unread[t] \in Nat /\ received[t] \in Nat
          /\ consumed[t] + unread[t] <= received[t]
          /\ received[t] = 0 \/ t \in rcv_streams
      BY <1>1, <2>3, FunctionTypes DEF TypeAmounts, IInv, Waiting, StreamChain, Known
    <3>3. t \in rcv_streams
      BY <3>1, <3>2
    <3>4. received'[t] <= consumed'[t] + unread'[t]
      BY <1>1, <2>1, <2>3, <3>1, <3>2, <3>3 DEF Counted
    <3>5. cancelled'[t] \/ Near(consumed'[t], advertised_at'[t], MaxStreamData)
      BY <1>1, <2>1, <3>1, <3>2, <3>3, LimitsAssumption
         DEF Near, earns, threshold, TypeAmounts
    <3> QED BY <3>4, <3>5 DEF Counted
  <2> QED BY <2>1, <2>2, <2>3 DEF Counted
<1>10. ASSUME NEW s \in Streams, cb_consumed(s)
      PROVE  Counted(t)'
  <2>1. /\ received'[t] = received[t] /\ cancelled'[t] = cancelled[t]
        /\ peer_terminal'[t] = peer_terminal[t] /\ rcv_streams' = rcv_streams
    BY <1>10, Accounting DEF rcvLife
  <2>2. CASE t # s
    BY <1>1, <1>10, <2>1, <2>2, Accounting DEF Counted, Near
  <2>3. CASE t = s /\ ~peer_terminal[t]
    <3>1. PICK n \in Nat \ {0} :
             /\ n <= unread[t] /\ unread'[t] = unread[t] - n
             /\ consumed'[t] = IF t \in rcv_streams THEN consumed[t] + n ELSE consumed[t]
             /\ \/ advertised_at'[t] = consumed'[t]
                \/ /\ advertised_at'[t] = advertised_at[t]
                   /\ earns(t) => consumed'[t] < advertised_at[t] + threshold(MaxStreamData)
      BY <1>10, <2>3, Accounting
    <3>2. /\ consumed[t] \in Nat /\ unread[t] \in Nat /\ received[t] \in Nat
          /\ consumed[t] + unread[t] <= received[t]
          /\ received[t] = 0 \/ t \in rcv_streams
      BY <1>1, <2>3, FunctionTypes DEF TypeAmounts, IInv, Waiting, StreamChain, Known
    <3>3. t \in rcv_streams
      BY <3>1, <3>2
    <3>4. received'[t] <= consumed'[t] + unread'[t]
      BY <1>1, <2>1, <2>3, <3>1, <3>2, <3>3 DEF Counted
    <3>5. cancelled'[t] \/ Near(consumed'[t], advertised_at'[t], MaxStreamData)
      BY <1>1, <2>1, <3>1, <3>2, <3>3, LimitsAssumption
         DEF Near, earns, threshold, TypeAmounts
    <3> QED BY <3>4, <3>5 DEF Counted
  <2> QED BY <2>1, <2>2, <2>3 DEF Counted
<1> QED
  BY <1>2, <1>3, <1>4, <1>5, <1>6, <1>7, <1>8, <1>9, <1>10
     DEF Next, SenderStep, ReceiverStep

(* A limit that on_consumed raises stays in the hands of its caller, on the *)
(* channel, or with the sender, which keeps the highest it was sent.        *)
LEMMA ToldKept ==
    ASSUME IInv, Waiting, Next, NEW t \in Streams
    PROVE  Told(t)'
<1>1. Told(t) /\ TypeAmounts /\ TypeQueues /\ TypeControl
  BY TypeParts DEF IInv, Waiting
<1>2. ASSUME NEW s \in Streams,
             \/ fail \/ on_peer_hello \/ on_peer_max_data \/ snd_new_stream(s)
             \/ (\E n \in WriteSizes : write(s, n)) \/ abandon_write(s)
             \/ poll_write(s) \/ poll_reserve(s)
             \/ (\E n \in 1..MaxFrame : send_data(s, n)) \/ commit(s)
             \/ (\E n \in 1..MaxFrame : release(s, n)) \/ close_write(s)
             \/ reset_write(s) \/ on_stop_sending(s) \/ fail_send(s)
             \/ snd_drop_stream(s) \/ rcv_new_stream(s)
             \/ (\E n \in 1..MaxFrame : on_data_received(s, n)) \/ push_data(s)
             \/ on_peer_terminal(s) \/ (\E n \in 1..MaxFrame : poll_read(s, n))
             \/ cancel_read(s) \/ mark_cancelled(s) \/ send_stop_sending(s)
             \/ rcv_drop_stream(s)
      PROVE  Told(t)'
  <2>1. UNCHANGED <<credit_q, local_max, app_advert, cb_advert, peer_max_explicit,
                    terminal_sent>>
    BY <1>2
       DEF fail, on_peer_hello, on_peer_max_data, snd_new_stream, write, abandon_write,
           poll_write, poll_reserve, send_data, commit, release, close_write, reset_write,
           on_stop_sending, fail_send, snd_drop_stream, rcv_new_stream, on_data_received,
           push_data, on_peer_terminal, poll_read, cancel_read, mark_cancelled,
           send_stop_sending, rcv_drop_stream, sender, receiver, frames, sndLimits,
           sndCount, sndLife, task, rcvLimits, rcvCount, held, rcvLife
  <2> QED BY <1>1, <2>1 DEF Told
<1>3. ASSUME NEW s \in Streams, on_peer_max_stream_data(s)
      PROVE  Told(t)'
  <2>0. /\ local_max' = local_max /\ terminal_sent' = terminal_sent
        /\ app_advert' = app_advert /\ cb_advert' = cb_advert
        /\ peer_max_explicit \in [Streams -> Nat] /\ credit_q \in [Streams -> SUBSET Nat]
        /\ local_max[t] \in Nat
    BY <1>1, <1>3 DEF on_peer_max_stream_data, TypeAmounts, TypeQueues, receiver, rcvLimits,
       sndLife
  <2>1. CASE t # s \/ s \in snd_streams
    <3>1. PICK v \in credit_q[s] :
             /\ credit_q' = [credit_q EXCEPT ![s] = credit_q[s] \ {v}]
             /\ \/ /\ s \in snd_streams /\ v > peer_max_explicit[s]
                   /\ peer_max_explicit' = [peer_max_explicit EXCEPT ![s] = v]
                \/ /\ s \notin snd_streams \/ ~(v > peer_max_explicit[s])
                   /\ peer_max_explicit' = peer_max_explicit
      BY <1>3 DEF on_peer_max_stream_data, raises
    <3>2. v \in Nat /\ peer_max_explicit[t] \in Nat
      BY <2>0
    <3>3. CASE t # s
      BY <1>1, <2>0, <3>1, <3>3 DEF Told
    <3>4. CASE t = s /\ s \in snd_streams
      BY <1>1, <2>0, <3>1, <3>2, <3>4 DEF Told
    <3> QED BY <2>1, <3>3, <3>4
  <2>2. CASE t = s /\ s \notin snd_streams /\ ~terminal_sent[t]
    <3>1. /\ wire[t] = 0 /\ local_max[t] = new_limit(advertised_at[t], MaxStreamData)
          /\ advertised_at[t] <= consumed[t] /\ consumed[t] + unread[t] <= received[t]
          /\ received[t] <= wire[t]
      BY <2>2 DEF Waiting, Known, IInv, StreamChain
    <3>2. advertised_at[t] \in Nat /\ consumed[t] \in Nat /\ unread[t] \in Nat
      BY <1>1, FunctionTypes DEF TypeAmounts
    <3>3. advertised_at[t] = 0
      BY <1>1, <3>1, <3>2 DEF TypeAmounts
    <3>4. local_max[t] = MaxStreamData
      BY <3>1, <3>3, LimitsAssumption DEF new_limit, sat, Min2
    <3> QED
      BY <1>3, <3>4 DEF on_peer_max_stream_data, Told, receiver, rcvLimits
  <2>3. terminal_sent' = terminal_sent
    BY <1>3 DEF on_peer_max_stream_data, sndLife
  <2> QED BY <2>1, <2>2, <2>3 DEF Told
<1>4. ASSUME NEW s \in Streams, send_terminal(s)
      PROVE  Told(t)'
  BY <1>1, <1>4
     DEF send_terminal, TypeControl, TypeAmounts, TypeQueues, Told, sender, receiver,
         frames, sndLimits, sndCount, sndLife, task, rcvLimits, rcvCount, held, rcvLife
<1>5. ASSUME NEW s \in Streams, app_consumed(s)
      PROVE  Told(t)'
  <2>1. terminal_sent'[t] = terminal_sent[t] /\ peer_max_explicit'[t] = peer_max_explicit[t]
    BY <1>5, Accounting DEF sender, sndLife, sndLimits
  <2>2. /\ credit_q'[t] = credit_q[t]
        /\ \/ local_max'[t] = app_advert'[t] \/ local_max'[t] = cb_advert'[t]
           \/ /\ local_max'[t] = local_max[t]
              /\ app_advert'[t] = app_advert[t] /\ cb_advert'[t] = cb_advert[t]
    BY <1>5, Accounting
  <2> QED BY <1>1, <2>1, <2>2 DEF Told
<1>6. ASSUME NEW s \in Streams, cb_consumed(s)
      PROVE  Told(t)'
  <2>1. terminal_sent'[t] = terminal_sent[t] /\ peer_max_explicit'[t] = peer_max_explicit[t]
    BY <1>6, Accounting DEF sender, sndLife, sndLimits
  <2>2. /\ credit_q'[t] = credit_q[t]
        /\ \/ local_max'[t] = app_advert'[t] \/ local_max'[t] = cb_advert'[t]
           \/ /\ local_max'[t] = local_max[t]
              /\ app_advert'[t] = app_advert[t] /\ cb_advert'[t] = cb_advert[t]
    BY <1>6, Accounting
  <2> QED BY <1>1, <2>1, <2>2 DEF Told
<1>7. ASSUME NEW s \in Streams, app_advertise(s)
      PROVE  Told(t)'
  <2>1. /\ UNCHANGED <<local_max, cb_advert, terminal_sent, peer_max_explicit>>
        /\ credit_q' = [credit_q EXCEPT ![s] = @ \cup {app_advert[s]}]
        /\ app_advert' = [app_advert EXCEPT ![s] = 0]
    BY <1>7 DEF app_advertise, sender, sndLife, sndLimits
  <2>2. app_advert'[t] = app_advert[t] \/ app_advert[t] \in credit_q'[t]
    BY <1>1, <2>1 DEF TypeAmounts, TypeQueues
  <2>3. credit_q[t] \subseteq credit_q'[t]
    BY <1>1, <2>1 DEF TypeQueues
  <2> QED BY <1>1, <2>1, <2>2, <2>3 DEF Told
<1>8. ASSUME NEW s \in Streams, cb_advertise(s)
      PROVE  Told(t)'
  <2>1. /\ UNCHANGED <<local_max, app_advert, terminal_sent, peer_max_explicit>>
        /\ credit_q' = [credit_q EXCEPT ![s] = @ \cup {cb_advert[s]}]
        /\ cb_advert' = [cb_advert EXCEPT ![s] = 0]
    BY <1>8 DEF cb_advertise, sender, sndLife, sndLimits
  <2>2. cb_advert'[t] = cb_advert[t] \/ cb_advert[t] \in credit_q'[t]
    BY <1>1, <2>1 DEF TypeAmounts, TypeQueues
  <2>3. credit_q[t] \subseteq credit_q'[t]
    BY <1>1, <2>1 DEF TypeQueues
  <2> QED BY <1>1, <2>1, <2>2, <2>3 DEF Told
<1> QED
  BY <1>2, <1>3, <1>4, <1>5, <1>6, <1>7, <1>8
     DEF Next, SenderStep, ReceiverStep

(* The same for the connection: MAX_DATA is delivered in order, so that the *)
(* last one sent is still on its way, or is the one that was handled last.  *)
LEMMA ConnToldKept ==
    ASSUME IInv, Waiting, Next
    PROVE  ConnTold'
<1>1. ConnTold /\ TypeAmounts /\ TypeQueues /\ TypeControl
  BY TypeParts DEF IInv, Waiting
<1>2. ASSUME
             \/ fail \/ (\E s \in Streams : snd_new_stream(s))
             \/ (\E s \in Streams : on_peer_max_stream_data(s))
             \/ (\E s \in Streams : (\E n \in WriteSizes : write(s, n)))
             \/ (\E s \in Streams : abandon_write(s))
             \/ (\E s \in Streams : poll_write(s))
             \/ (\E s \in Streams : poll_reserve(s))
             \/ (\E s \in Streams : (\E n \in 1..MaxFrame : send_data(s, n)))
             \/ (\E s \in Streams : commit(s))
             \/ (\E s \in Streams : (\E n \in 1..MaxFrame : release(s, n)))
             \/ (\E s \in Streams : close_write(s))
             \/ (\E s \in Streams : reset_write(s))
             \/ (\E s \in Streams : on_stop_sending(s))
             \/ (\E s \in Streams : fail_send(s))
             \/ (\E s \in Streams : send_terminal(s))
             \/ (\E s \in Streams : snd_drop_stream(s))
             \/ (\E s \in Streams : rcv_new_stream(s))
             \/ (\E s \in Streams : (\E n \in 1..MaxFrame : on_data_received(s, n)))
             \/ (\E s \in Streams : push_data(s))
             \/ (\E s \in Streams : on_peer_terminal(s))
             \/ (\E s \in Streams : (\E n \in 1..MaxFrame : poll_read(s, n)))
             \/ (\E s \in Streams : cancel_read(s))
             \/ (\E s \in Streams : mark_cancelled(s))
             \/ (\E s \in Streams : send_stop_sending(s))
             \/ (\E s \in Streams : rcv_drop_stream(s))
             \/ (\E s \in Streams : app_advertise(s))
             \/ (\E s \in Streams : cb_advertise(s))
      PROVE  ConnTold'
  <2>1. UNCHANGED <<conn_advertised_at, conn_consumed, control_q, hello_received, local_max_data,
          peer_init_stream_data, peer_max_data>>
    BY <1>2
       DEF fail, snd_new_stream, on_peer_max_stream_data, write, abandon_write,
           poll_write, poll_reserve, send_data, commit, release, close_write, reset_write,
           on_stop_sending, fail_send, send_terminal, snd_drop_stream, rcv_new_stream,
           on_data_received, push_data, on_peer_terminal, poll_read, cancel_read,
           mark_cancelled, send_stop_sending, rcv_drop_stream, app_advertise, cb_advertise,
           sender, receiver, frames,
           sndLimits, sndCount, sndLife, task, rcvLimits, rcvCount, held, rcvLife
  <2> QED BY <1>1, <2>1 DEF ConnTold, OnItsWay, Near
<1>3. ASSUME on_peer_hello
      PROVE  ConnTold'
  <2>1. /\ ~hello_received /\ hello_received' = TRUE /\ peer_max_data' = MaxData
        /\ peer_init_stream_data' = MaxStreamData /\ control_q' = control_q
        /\ receiver' = receiver
    BY <1>3 DEF on_peer_hello
  <2>2. /\ local_max_data' = local_max_data /\ conn_consumed' = conn_consumed
        /\ conn_advertised_at' = conn_advertised_at
    BY <2>1 DEF receiver, rcvLimits, rcvCount
  <2>3. MaxData \in Nat
    BY LimitsAssumption
  <2> QED
    BY <1>1, <2>1, <2>2, <2>3 DEF ConnTold, OnItsWay, Near
<1>4. ASSUME on_peer_max_data
      PROVE  ConnTold'
  <2>1. /\ hello_received /\ control_q # <<>> /\ control_q' = Tail(control_q)
        /\ \/ Head(control_q) > peer_max_data /\ peer_max_data' = Head(control_q)
           \/ ~(Head(control_q) > peer_max_data) /\ peer_max_data' = peer_max_data
        /\ hello_received' = hello_received /\ receiver' = receiver
        /\ peer_init_stream_data' = peer_init_stream_data
    BY <1>4 DEF on_peer_max_data, raises
  <2>2. /\ control_q \in Seq(Nat) /\ peer_max_data \in Nat /\ local_max_data \in Nat
        /\ Head(control_q) \in Nat /\ Len(control_q) \in Nat \ {0}
        /\ \A i \in 1..Len(control_q) :
              \/ i = 1 /\ control_q[i] = Head(control_q)
              \/ i - 1 \in 1..Len(Tail(control_q)) /\ Tail(control_q)[i - 1] = control_q[i]
    BY <1>1, <2>1 DEF TypeAmounts, TypeQueues
  <2>3. /\ local_max_data' = local_max_data /\ conn_consumed' = conn_consumed
        /\ conn_advertised_at' = conn_advertised_at
    BY <2>1 DEF receiver, rcvLimits, rcvCount
  <2>4. OnItsWay(local_max_data) => OnItsWay(local_max_data)' \/ Head(control_q) = local_max_data
    <3>1. ASSUME NEW i \in 1..Len(control_q), control_q[i] = local_max_data,
                 Head(control_q) # local_max_data
          PROVE  OnItsWay(local_max_data)'
      <4>1. i - 1 \in 1..Len(control_q') /\ control_q'[i - 1] = local_max_data'
        BY <2>1, <2>2, <2>3, <3>1
      <4> QED BY <4>1 DEF OnItsWay
    <3> QED BY <3>1 DEF OnItsWay
  <2>5. OnItsWay(local_max_data)' \/ local_max_data' <= peer_max_data'
    BY <1>1, <2>1, <2>2, <2>3, <2>4 DEF ConnTold
  <2> QED
    BY <1>1, <2>1, <2>3, <2>5 DEF ConnTold, Near
<1>5. ASSUME NEW s \in Streams, app_consumed(s)
      PROVE  ConnTold'
  <2>1. PICK n \in Nat : on_consumed(s, n)
    BY <1>1, <1>5 DEF app_consumed, cb_consumed, TypeAmounts
  <2>2. hello_received' = hello_received /\ sender' = sender
    BY <1>5 DEF app_consumed, cb_consumed
  <2>3. /\ conn_consumed \in Nat /\ conn_advertised_at \in Nat /\ control_q \in Seq(Nat)
        /\ MaxData \in Nat /\ threshold(MaxData) \in Nat
    <3>1. MaxData \in Nat
      BY LimitsAssumption
    <3>2. threshold(MaxData) \in Nat
      BY <3>1, ThresholdBounds
    <3> QED BY <1>1, <3>1, <3>2 DEF TypeAmounts, TypeQueues
  <2> DEFINE cc == conn_consumed + n
             limit == new_limit(cc, MaxData)
             conn_due == cc - conn_advertised_at >= threshold(MaxData)
  <2>4. /\ conn_consumed' = cc
        /\ conn_advertised_at' = IF conn_due THEN cc ELSE conn_advertised_at
        /\ local_max_data' = IF conn_due THEN limit ELSE local_max_data
        /\ control_q' = IF conn_due THEN Append(control_q, limit) ELSE control_q
    BY <2>1 DEF on_consumed
  <2>5. limit \in Nat
    BY <2>3, LimitsAssumption DEF new_limit, sat, Min2
  <2> HIDE DEF limit
  <2>6. CASE conn_due
    <3> HIDE DEF conn_due
    <3>1. conn_consumed' = cc /\ conn_advertised_at' = cc /\ cc \in Nat
      BY <2>3, <2>4, <2>6
    <3>2. control_q' = Append(control_q, limit) /\ local_max_data' = limit
      BY <2>4, <2>6
    <3>3. Len(control_q) + 1 \in 1..Len(control_q') /\ control_q'[Len(control_q) + 1] = limit
      BY <2>3, <2>5, <3>2
    <3>4. OnItsWay(local_max_data)'
      BY <3>2, <3>3 DEF OnItsWay
    <3> QED
      BY <1>1, <2>2, <3>1, <3>4 DEF ConnTold, Near, sender, sndLimits
  <2>7. CASE ~conn_due
    <3>1. cc < conn_advertised_at + threshold(MaxData)
      BY <2>3, <2>7
    <3> HIDE DEF conn_due
    <3>2. /\ conn_consumed' = cc /\ conn_advertised_at' = conn_advertised_at
          /\ local_max_data' = local_max_data /\ control_q' = control_q
      BY <2>4, <2>7
    <3> QED
      BY <1>1, <2>2, <3>1, <3>2 DEF ConnTold, OnItsWay, Near, sender, sndLimits
  <2> QED BY <2>6, <2>7
<1>6. ASSUME NEW s \in Streams, cb_consumed(s)
      PROVE  ConnTold'
  <2>1. PICK n \in Nat : on_consumed(s, n)
    BY <1>1, <1>6 DEF app_consumed, cb_consumed, TypeAmounts
  <2>2. hello_received' = hello_received /\ sender' = sender
    BY <1>6 DEF app_consumed, cb_consumed
  <2>3. /\ conn_consumed \in Nat /\ conn_advertised_at \in Nat /\ control_q \in Seq(Nat)
        /\ MaxData \in Nat /\ threshold(MaxData) \in Nat
    <3>1. MaxData \in Nat
      BY LimitsAssumption
    <3>2. threshold(MaxData) \in Nat
      BY <3>1, ThresholdBounds
    <3> QED BY <1>1, <3>1, <3>2 DEF TypeAmounts, TypeQueues
  <2> DEFINE cc == conn_consumed + n
             limit == new_limit(cc, MaxData)
             conn_due == cc - conn_advertised_at >= threshold(MaxData)
  <2>4. /\ conn_consumed' = cc
        /\ conn_advertised_at' = IF conn_due THEN cc ELSE conn_advertised_at
        /\ local_max_data' = IF conn_due THEN limit ELSE local_max_data
        /\ control_q' = IF conn_due THEN Append(control_q, limit) ELSE control_q
    BY <2>1 DEF on_consumed
  <2>5. limit \in Nat
    BY <2>3, LimitsAssumption DEF new_limit, sat, Min2
  <2> HIDE DEF limit
  <2>6. CASE conn_due
    <3> HIDE DEF conn_due
    <3>1. conn_consumed' = cc /\ conn_advertised_at' = cc /\ cc \in Nat
      BY <2>3, <2>4, <2>6
    <3>2. control_q' = Append(control_q, limit) /\ local_max_data' = limit
      BY <2>4, <2>6
    <3>3. Len(control_q) + 1 \in 1..Len(control_q') /\ control_q'[Len(control_q) + 1] = limit
      BY <2>3, <2>5, <3>2
    <3>4. OnItsWay(local_max_data)'
      BY <3>2, <3>3 DEF OnItsWay
    <3> QED
      BY <1>1, <2>2, <3>1, <3>4 DEF ConnTold, Near, sender, sndLimits
  <2>7. CASE ~conn_due
    <3>1. cc < conn_advertised_at + threshold(MaxData)
      BY <2>3, <2>7
    <3> HIDE DEF conn_due
    <3>2. /\ conn_consumed' = cc /\ conn_advertised_at' = conn_advertised_at
          /\ local_max_data' = local_max_data /\ control_q' = control_q
      BY <2>4, <2>7
    <3> QED
      BY <1>1, <2>2, <3>1, <3>2 DEF ConnTold, OnItsWay, Near, sender, sndLimits
  <2> QED BY <2>6, <2>7
<1> QED
  BY <1>2, <1>3, <1>4, <1>5, <1>6
     DEF Next, SenderStep, ReceiverStep

(* A writer is parked only while its grant is empty: every step that could  *)
(* give the grant a byte, or take the reason to wait away, wakes it.        *)
LEMMA ParkedKept ==
    ASSUME IInv, Waiting, Next, NEW t \in Streams
    PROVE  Parked(t)'
<1>1. Parked(t) /\ TypeAmounts /\ TypeQueues /\ TypeControl
  BY TypeParts DEF IInv, Waiting
<1>2. ASSUME NEW s \in Streams,
             \/ (\E n \in 1..MaxFrame : send_data(s, n)) \/ close_write(s)
             \/ reset_write(s) \/ on_stop_sending(s) \/ send_terminal(s)
             \/ rcv_new_stream(s)
             \/ (\E n \in 1..MaxFrame : on_data_received(s, n)) \/ push_data(s)
             \/ on_peer_terminal(s) \/ (\E n \in 1..MaxFrame : poll_read(s, n))
             \/ cancel_read(s) \/ mark_cancelled(s) \/ send_stop_sending(s)
             \/ app_consumed(s) \/ cb_consumed(s) \/ rcv_drop_stream(s)
             \/ app_advertise(s) \/ cb_advertise(s)
      PROVE  Parked(t)'
  <2>1. UNCHANGED <<conn_reserved, conn_sent, is_failed, peer_init_stream_data, peer_max_data,
          peer_max_explicit, send_failed, send_reserved, send_sent, snd_streams, want,
          writer>>
    BY <1>2
       DEF send_data, close_write, reset_write, on_stop_sending, send_terminal,
           rcv_new_stream, on_data_received, push_data, on_peer_terminal, poll_read,
           cancel_read, mark_cancelled, send_stop_sending, app_consumed, cb_consumed,
           app_advertise, cb_advertise,
           rcv_drop_stream, sender, receiver, frames, sndLimits, sndCount, sndLife, task,
           rcvLimits, rcvCount, held, rcvLife
  <2> QED BY <1>1, <2>1 DEF Parked, grant, Min2, stream_avail, conn_avail, peer_max, Max2
<1>3. ASSUME fail
      PROVE  Parked(t)'
  BY <1>1, <1>3 DEF fail, wake_locked, TypeControl, Parked
<1>4. ASSUME on_peer_hello
      PROVE  Parked(t)'
  BY <1>1, <1>4 DEF on_peer_hello, wake_locked, TypeControl, Parked
<1>5. ASSUME on_peer_max_data
      PROVE  Parked(t)'
  <2>1. CASE writer' = wake_locked(writer)
    BY <1>1, <2>1 DEF wake_locked, TypeControl, Parked
  <2>2. CASE UNCHANGED <<writer, peer_max_data>>
    BY <1>1, <1>5, <2>2
       DEF on_peer_max_data, Parked, grant, Min2, stream_avail, conn_avail, peer_max,
           Max2, sender, receiver,
           frames, sndLimits, sndCount, sndLife, task, rcvLimits, rcvCount, held, rcvLife
  <2> QED
    BY <1>5, <2>1, <2>2 DEF on_peer_max_data, sndLimits
<1>6. ASSUME NEW s \in Streams, snd_new_stream(s)
      PROVE  Parked(t)'
  BY <1>1, <1>6 DEF snd_new_stream, TypeControl, Parked, grant, Min2, stream_avail, conn_avail,
     peer_max, Max2, sndLife, sndCount, sndLimits,
     task
<1>7. ASSUME NEW s \in Streams, on_peer_max_stream_data(s)
      PROVE  Parked(t)'
  <2>1. CASE writer' = wake_locked(writer)
    BY <1>1, <2>1 DEF wake_locked, TypeControl, Parked
  <2>2. CASE UNCHANGED <<writer, peer_max_explicit>>
    BY <1>1, <1>7, <2>2
       DEF on_peer_max_stream_data, Parked, grant, Min2, stream_avail, conn_avail, peer_max,
           Max2, sender, receiver,
           frames, sndLimits, sndCount, sndLife, task, rcvLimits, rcvCount, held, rcvLife
  <2> QED
    BY <1>7, <2>1, <2>2 DEF on_peer_max_stream_data, sndLimits
<1>8. ASSUME NEW s \in Streams, NEW n \in WriteSizes, write(s, n)
      PROVE  Parked(t)'
  BY <1>1, <1>8 DEF write, TypeControl, Parked, grant, Min2, stream_avail, conn_avail, peer_max,
     Max2, sndLife, sndCount, sndLimits,
     task
<1>9. ASSUME NEW s \in Streams, abandon_write(s)
      PROVE  Parked(t)'
  BY <1>1, <1>9 DEF abandon_write, TypeControl, Parked, grant, Min2, stream_avail, conn_avail,
     peer_max, Max2, sndLife, sndCount, sndLimits,
     task
<1>10. ASSUME NEW s \in Streams, poll_write(s)
      PROVE  Parked(t)'
  BY <1>1, <1>10 DEF poll_write, TypeControl, Parked, grant, Min2, stream_avail, conn_avail,
     peer_max, Max2, sndLife, sndCount, sndLimits,
     task
<1>11. ASSUME NEW s \in Streams, poll_reserve(s)
      PROVE  Parked(t)'
  <2>1. /\ writer'[t] = writer[t] \/ (t = s /\ writer'[t] \in {"idle", "parked"})
        /\ UNCHANGED <<is_failed, snd_streams, send_failed, want, peer_max_data, conn_sent,
                       send_sent, peer_max_explicit, peer_init_stream_data>>
    BY <1>1, <1>11 DEF poll_reserve, TypeControl, sndLife, sndLimits
  <2>2. CASE t # s
    <3>1. /\ writer'[t] = writer[t] /\ send_reserved'[t] = send_reserved[t]
          /\ conn_reserved' \in Nat /\ conn_reserved' >= conn_reserved
      BY <1>1, <1>11, <2>2 DEF poll_reserve, TypeAmounts, TypeControl, grant, Min2, stream_avail,
         conn_avail, peer_max, Max2
    <3>2. /\ stream_avail(t) \in Int /\ conn_avail \in Int /\ want[t] \in Int
          /\ stream_avail(t)' = stream_avail(t)
      BY <1>1, <2>1, <3>1 DEF TypeAmounts, stream_avail, conn_avail, peer_max, Max2
    <3>3. conn_avail' \in Int /\ conn_avail' <= conn_avail
      BY <1>1, <2>1, <3>1 DEF TypeAmounts, conn_avail
    <3>4. grant(t, want[t])' <= grant(t, want[t])
      BY <2>1, <3>2, <3>3 DEF grant, Min2
    <3>5. grant(t, want[t]) \in Int /\ grant(t, want[t])' \in Int
      BY <2>1, <3>2, <3>3 DEF grant, Min2
    <3> QED
      BY <1>1, <2>1, <3>1, <3>4, <3>5 DEF Parked
  <2>3. CASE t = s
    <3>1. CASE writer'[t] = "idle"
      BY <3>1 DEF Parked
    <3>2. CASE writer'[t] = "parked"
      <4>1. /\ ~is_failed /\ s \in snd_streams /\ ~send_failed[s]
            /\ grant(s, want[s]) < 1 /\ UNCHANGED <<send_reserved, conn_reserved>>
        BY <1>1, <1>11, <2>3, <3>2 DEF poll_reserve, TypeControl
      <4> QED
        BY <2>1, <2>3, <4>1 DEF Parked, grant, Min2, stream_avail, conn_avail, peer_max, Max2
    <3>3. writer'[t] \in {"idle", "parked"}
      BY <1>1, <1>11, <2>3 DEF poll_reserve, TypeControl
    <3> QED BY <3>1, <3>2, <3>3
  <2> QED BY <2>2, <2>3
<1>12. ASSUME NEW s \in Streams, commit(s)
      PROVE  Parked(t)'
  <2> DEFINE n == wire[s] - send_sent[s]
  <2>1. /\ n > 0 /\ n \in Int
        /\ send_reserved' = [send_reserved EXCEPT ![s] = send_reserved[s] - n]
        /\ send_sent' = [send_sent EXCEPT ![s] = send_sent[s] + n]
        /\ conn_reserved' = conn_reserved - n /\ conn_sent' = conn_sent + n
        /\ UNCHANGED <<is_failed, snd_streams, send_failed, want, writer, peer_max_data,
                       peer_max_explicit, peer_init_stream_data>>
    BY <1>1, <1>12 DEF commit, sndLife, task, sndLimits, TypeAmounts
  <2> HIDE DEF n
  <2>2. /\ send_sent[t] \in Nat /\ send_reserved[t] \in Nat /\ conn_sent \in Nat
        /\ conn_reserved \in Nat /\ peer_max_data \in Nat /\ peer_max(t) \in Nat
    BY <1>1 DEF TypeAmounts, peer_max, Max2
  <2>3. peer_max(t)' = peer_max(t)
    BY <2>1 DEF peer_max
  <2>4. (peer_max(t)' - send_sent'[t]) - send_reserved'[t]
          = (peer_max(t) - send_sent[t]) - send_reserved[t]
    <3>1. CASE t = s
      <4>1. send_sent'[t] = send_sent[t] + n /\ send_reserved'[t] = send_reserved[t] - n
        BY <1>1, <2>1, <3>1 DEF TypeAmounts
      <4> QED BY <2>1, <2>2, <2>3, <4>1
    <3>2. CASE t # s
      <4>1. send_sent'[t] = send_sent[t] /\ send_reserved'[t] = send_reserved[t]
        BY <1>1, <2>1, <3>2 DEF TypeAmounts
      <4> QED BY <2>2, <2>3, <4>1
    <3> QED BY <3>1, <3>2
  <2>5. (peer_max_data' - conn_sent') - conn_reserved'
          = (peer_max_data - conn_sent) - conn_reserved
    BY <2>1, <2>2
  <2>6. grant(t, want[t])' = grant(t, want[t])
    BY <2>1, <2>4, <2>5 DEF grant, stream_avail, conn_avail
  <2> QED
    BY <1>1, <2>1, <2>6 DEF Parked
<1>13. ASSUME NEW s \in Streams, NEW n \in 1..MaxFrame, release(s, n)
      PROVE  Parked(t)'
  BY <1>1, <1>13 DEF release, wake_locked, TypeControl, Parked
<1>14. ASSUME NEW s \in Streams, fail_send(s)
      PROVE  Parked(t)'
  BY <1>1, <1>14 DEF fail_send, wake_locked, TypeControl, Parked
<1>15. ASSUME NEW s \in Streams, snd_drop_stream(s)
      PROVE  Parked(t)'
  BY <1>1, <1>15 DEF snd_drop_stream, wake_locked, TypeControl, Parked
<1> QED
  BY <1>2, <1>3, <1>4, <1>5, <1>6, <1>7, <1>8, <1>9, <1>10, <1>11, <1>12, <1>13, <1>14,
     <1>15
     DEF Next, SenderStep, ReceiverStep

(* The initial state.                                                       *)
LEMMA InitWaiting == Init => Waiting
<1> SUFFICES ASSUME Init PROVE Waiting
  OBVIOUS
<1>1. ASSUME NEW s \in Streams PROVE EndsInOrder(s) /\ StopInOrder(s) /\ Known(s)
  BY DEF Init, No, Zero, EndsInOrder, StopInOrder, Known
<1>2. ASSUME NEW s \in Streams PROVE Counted(s) /\ Told(s) /\ Parked(s)
  BY DEF Init, No, Zero, Counted, Told, Parked, Near, unread
<1>3. ConnTold
  BY DEF Init, ConnTold, Near
<1> QED
  BY <1>1, <1>2, <1>3 DEF Waiting

(* A step preserves it, part by part.                                       *)
LEMMA NextWaiting ==
    ASSUME IInv, Waiting, [Next]_vars
    PROVE  Waiting'
<1>1. CASE Next
  <2>1. \A t \in Streams : EndsInOrder(t)' /\ StopInOrder(t)' /\ Known(t)'
    BY <1>1, EndsKept, StopKept, KnownKept
  <2>2. \A t \in Streams : Counted(t)' /\ Told(t)' /\ Parked(t)'
    BY <1>1, CountedKept, ToldKept, ParkedKept
  <2>3. ConnTold'
    BY <1>1, ConnToldKept
  <2> QED
    BY <2>1, <2>2, <2>3 DEF Waiting
<1>2. CASE UNCHANGED vars
  <2> USE <1>2 DEF vars, sender, receiver, frames, sndLimits, sndCount, sndLife, task,
                   rcvLimits, rcvCount, held, rcvLife
  <2>1. \A t \in Streams : EndsInOrder(t)' /\ StopInOrder(t)' /\ Known(t)'
    BY DEF Waiting, EndsInOrder, StopInOrder, Known
  <2>2. \A t \in Streams : Counted(t)' /\ Told(t)'
    BY DEF Waiting, Counted, Told, Near, unread
  <2>3. \A t \in Streams : Parked(t)'
    BY DEF Waiting, Parked, grant, Min2, stream_avail, conn_avail, peer_max, Max2
  <2>4. ConnTold'
    BY DEF Waiting, ConnTold, OnItsWay, Near
  <2> QED
    BY <2>1, <2>2, <2>3, <2>4 DEF Waiting
<1> QED
  BY <1>1, <1>2

(* So it always holds.                                                      *)
LEMMA WaitingInvariant == Spec => []Waiting
<1>1. Init => Waiting
  BY InitWaiting
<1>2. IInv /\ Waiting /\ [Next]_vars => Waiting'
  BY NextWaiting
<1> QED
  BY <1>1, <1>2, Invariance, PTL DEF Spec

(* NoLostWakeup: a write parked in poll_reserve has no credit to take and   *)
(* no error to report; every step of flow.rs that gives it either wakes it. *)
THEOREM NeverSleepsOnCredit == Spec => []NoLostWakeup
<1>1. Waiting => NoLostWakeup
  BY DEF Waiting, NoLostWakeup, Parked
<1> QED
  BY <1>1, WaitingInvariant, PTL

(* A limit that was advertised for base, and is not the last offset, is     *)
(* more than what has been consumed since.                                  *)
LEMMA LimitAhead ==
    ASSUME NEW c \in Nat, NEW a \in Nat, NEW window \in 1..MaxOffset,
           Near(c, a, window), new_limit(a, window) # MaxOffset
    PROVE  c < new_limit(a, window)
<1>1. threshold(window) \in Nat /\ threshold(window) <= window
  BY LimitsAssumption, ThresholdBounds
<1>2. c < a + window
  BY <1>1, LimitsAssumption DEF Near
<1>3. new_limit(a, window) = a + window
  BY LimitsAssumption DEF new_limit, sat, Min2
<1> QED
  BY <1>2, <1>3

(* NoCreditDeadlock: the half-window threshold of on_consumed withholds no  *)
(* credit that a blocked write needs.  Once everything is read and nothing  *)
(* in flight, both windows have room, unless the offsets have run out.      *)
THEOREM NoThresholdDeadlock == Spec => []NoCreditDeadlock
<1>1. ASSUME IInv, Waiting, NEW s \in Streams, Quiescent, writer[s] = "parked",
             want[s] > 0, ~read_cancel[s], MaxStreamData > 0, MaxData > 0,
             peer_max(s) # MaxOffset, peer_max_data # MaxOffset
      PROVE  FALSE
  <2>1. /\ ~terminal_sent[s] /\ ~peer_terminal[s] /\ ~cancelled[s]
        /\ grant(s, want[s]) < 1
    <3>1. EndsInOrder(s) /\ StopInOrder(s) /\ Parked(s) /\ TypeControl
      BY <1>1, TypeParts DEF Waiting, IInv
    <3> QED
      BY <1>1, <3>1 DEF EndsInOrder, StopInOrder, Parked, TypeControl
  <2>2. /\ MaxStreamData \in 1..MaxOffset /\ MaxData \in 1..MaxOffset
        /\ MaxOffset \in Nat
    BY <1>1, LimitsAssumption
  <2>3. /\ hello_received /\ control_q = <<>> /\ credit_q[s] = {}
        /\ app_advert[s] = 0 /\ cb_advert[s] = 0
        /\ \A t \in Streams : /\ unread[t] = 0 /\ send_reserved[t] = 0
                              /\ received[t] = wire[t]
    BY <1>1 DEF Quiescent
  <2>4. stream_avail(s) >= 1
    <3>1. /\ consumed[s] \in Nat /\ advertised_at[s] \in Nat /\ local_max[s] \in Nat
          /\ send_sent[s] \in Nat /\ wire[s] \in Nat /\ received[s] \in Nat
          /\ peer_max_explicit[s] \in Nat /\ peer_init_stream_data \in Nat
      BY <1>1 DEF IInv, TypeOK
    <3>2. /\ send_sent[s] <= wire[s] /\ peer_max(s) <= local_max[s]
          /\ local_max[s] = new_limit(advertised_at[s], MaxStreamData)
      BY <1>1 DEF IInv, StreamChain
    <3>3. send_sent[s] <= consumed[s] /\ Near(consumed[s], advertised_at[s], MaxStreamData)
      <4>1. /\ received[s] <= consumed[s] + unread[s]
            /\ Near(consumed[s], advertised_at[s], MaxStreamData)
        BY <1>1, <2>1 DEF Waiting, Counted
      <4> QED BY <2>3, <3>1, <3>2, <4>1
    <3>4. local_max[s] <= peer_max(s) /\ peer_max(s) \in Nat
      <4>1. Told(s) /\ peer_init_stream_data = MaxStreamData
        BY <1>1, <2>3 DEF Waiting, ConnTold
      <4> QED
        BY <2>1, <2>3, <3>1, <4>1 DEF Told, peer_max, Max2
    <3>5. peer_max(s) = local_max[s]
      BY <3>1, <3>2, <3>4
    <3>6. consumed[s] < local_max[s]
      BY <1>1, <2>2, <3>1, <3>2, <3>3, <3>5, LimitAhead
    <3>7. send_reserved[s] = 0
      BY <2>3
    <3> QED
      BY <3>1, <3>3, <3>4, <3>5, <3>6, <3>7 DEF stream_avail
  <2>5. conn_avail >= 1
    <3>1. /\ conn_consumed \in Nat /\ conn_advertised_at \in Nat /\ local_max_data \in Nat
          /\ conn_sent \in Nat /\ peer_max_data \in Nat /\ conn_received \in Nat
      BY <1>1 DEF IInv, TypeOK
    <3>2. /\ peer_max_data <= local_max_data
          /\ local_max_data = new_limit(conn_advertised_at, MaxData)
      BY <1>1 DEF IInv, ConnChain
    <3>3. conn_reserved = 0 /\ conn_sent <= conn_consumed
      <4>1. /\ send_reserved \in [Streams -> Nat] /\ unread \in [Streams -> Nat]
            /\ send_sent \in [Streams -> Nat] /\ received \in [Streams -> Nat]
        BY <1>1, FunctionTypes
      <4>2. send_reserved = Zero /\ unread = Zero
        BY <2>3, <4>1 DEF Zero
      <4>3. \A t \in Streams : send_sent[t] <= received[t]
        BY <1>1, <2>3 DEF IInv, StreamChain
      <4>4. Total(send_sent) <= Total(received)
        BY <4>1, <4>3, TotalMono
      <4>5. /\ conn_reserved = Total(send_reserved) /\ conn_sent = Total(send_sent)
            /\ conn_received = Total(received)
            /\ conn_received - conn_consumed = Total(unread)
        BY <1>1 DEF IInv, CreditConserved
      <4> QED
        BY <3>1, <4>2, <4>4, <4>5, TotalZero
    <3>4. local_max_data <= peer_max_data /\ Near(conn_consumed, conn_advertised_at, MaxData)
      BY <1>1, <2>3 DEF Waiting, ConnTold, OnItsWay
    <3>5. peer_max_data = local_max_data
      BY <3>1, <3>2, <3>4
    <3>6. conn_consumed < local_max_data
      BY <1>1, <2>2, <3>1, <3>2, <3>4, <3>5, LimitAhead
    <3> QED
      BY <3>1, <3>3, <3>5, <3>6 DEF conn_avail
  <2>6. /\ stream_avail(s) \in Int /\ conn_avail \in Int /\ want[s] \in Nat
    <3>1. /\ want[s] \in Nat /\ send_sent[s] \in Nat /\ send_reserved[s] \in Nat
          /\ peer_max_explicit[s] \in Nat /\ peer_init_stream_data \in Nat
          /\ conn_sent \in Nat /\ conn_reserved \in Nat /\ peer_max_data \in Nat
      BY <1>1 DEF IInv, TypeOK
    <3>2. peer_max(s) \in Nat
      BY <3>1 DEF peer_max, Max2
    <3> QED
      BY <3>1, <3>2 DEF stream_avail, conn_avail
  <2>7. grant(s, want[s]) >= 1
    BY <1>1, <2>4, <2>5, <2>6 DEF grant, Min2
  <2>8. grant(s, want[s]) \in Int
    BY <2>6 DEF grant, Min2
  <2> QED
    BY <2>1, <2>7, <2>8
<1>2. IInv /\ Waiting => NoCreditDeadlock
  BY <1>1 DEF NoCreditDeadlock
<1> QED
  BY <1>2, Invariance, WaitingInvariant, PTL

(* NoCreditAfterStop: once mark_cancelled has run, on_consumed raises that  *)
(* stream's limit no more, and hands out none to advertise, for good.  What *)
(* may still be queued is the limit the callback held at that moment.       *)
THEOREM NoCreditOnceStopped == Spec => NoCreditAfterStop
<1> DEFINE Withheld(t) == /\ local_max'[t] = local_max[t]
                          /\ cb_advert'[t] \in {0, cb_advert[t]}
                          /\ credit_q'[t] \ credit_q[t] \subseteq {cb_advert[t]}
<1>1. ASSUME IInv, Waiting, Next, NEW t \in Streams, cancelled[t]
      PROVE  Withheld(t)
  <2>0. /\ ~earns(t) /\ app_advert[t] = 0
        /\ app_advert \in [Streams -> Nat] /\ cb_advert \in [Streams -> Nat]
        /\ credit_q \in [Streams -> SUBSET Nat]
    BY <1>1 DEF Waiting, StopInOrder, earns, IInv, TypeOK
  <2>1. ASSUME NEW s \in Streams, app_consumed(s) \/ cb_consumed(s)
        PROVE  Withheld(t)
    <3>1. \/ /\ local_max'[t] = local_max[t] /\ cb_advert'[t] = cb_advert[t]
             /\ credit_q'[t] = credit_q[t]
          \/ earns(t)
      BY <1>1, <2>1, Accounting
    <3> QED
      BY <2>0, <3>1
  <2>2. ASSUME NEW s \in Streams, app_advertise(s)
        PROVE  Withheld(t)
    <3>1. /\ local_max' = local_max /\ cb_advert' = cb_advert /\ app_advert[s] > 0
          /\ credit_q' = [credit_q EXCEPT ![s] = @ \cup {app_advert[s]}]
      BY <2>2 DEF app_advertise
    <3>2. t # s
      BY <2>0, <3>1
    <3> QED
      BY <2>0, <3>1, <3>2
  <2>3. ASSUME NEW s \in Streams, cb_advertise(s)
        PROVE  Withheld(t)
    <3>1. /\ local_max' = local_max
          /\ cb_advert' = [cb_advert EXCEPT ![s] = 0]
          /\ credit_q' = [credit_q EXCEPT ![s] = @ \cup {cb_advert[s]}]
      BY <2>3 DEF cb_advertise
    <3> QED
      BY <2>0, <3>1
  <2>4. ASSUME NEW s \in Streams, on_peer_max_stream_data(s)
        PROVE  Withheld(t)
    <3>1. PICK v \in credit_q[s] : credit_q' = [credit_q EXCEPT ![s] = @ \ {v}]
      BY <2>4 DEF on_peer_max_stream_data
    <3>2. local_max' = local_max /\ cb_advert' = cb_advert
      BY <2>4 DEF on_peer_max_stream_data, receiver, rcvLimits
    <3> QED
      BY <2>0, <3>1, <3>2
  <2>5. ASSUME NEW s \in Streams,
               \/ fail \/ on_peer_hello \/ on_peer_max_data \/ snd_new_stream(s)
               \/ (\E n \in WriteSizes : write(s, n))
               \/ abandon_write(s) \/ poll_write(s) \/ poll_reserve(s)
               \/ (\E n \in 1..MaxFrame : send_data(s, n)) \/ commit(s)
               \/ (\E n \in 1..MaxFrame : release(s, n)) \/ close_write(s)
               \/ reset_write(s) \/ on_stop_sending(s) \/ fail_send(s)
               \/ send_terminal(s) \/ snd_drop_stream(s) \/ rcv_new_stream(s)
               \/ (\E n \in 1..MaxFrame : on_data_received(s, n)) \/ push_data(s)
               \/ on_peer_terminal(s) \/ (\E n \in 1..MaxFrame : poll_read(s, n))
               \/ cancel_read(s) \/ mark_cancelled(s) \/ send_stop_sending(s)
               \/ rcv_drop_stream(s)
        PROVE  Withheld(t)
    <3>1. UNCHANGED <<local_max, cb_advert, credit_q>>
      BY <2>5
         DEF fail, on_peer_hello, on_peer_max_data, snd_new_stream,
             write, abandon_write, poll_write, poll_reserve, send_data, commit, release,
             close_write, reset_write, on_stop_sending, fail_send, send_terminal,
             snd_drop_stream, rcv_new_stream, on_data_received, push_data,
             on_peer_terminal, poll_read, cancel_read, mark_cancelled, send_stop_sending,
             rcv_drop_stream, receiver, rcvLimits, frames
    <3> QED BY <3>1
  <2> QED
    BY <1>1, <2>1, <2>2, <2>3, <2>4, <2>5 DEF Next, SenderStep, ReceiverStep
<1>2. IInv /\ Waiting /\ [Next]_vars =>
        [\A s \in Streams : cancelled[s] => Withheld(s)]_vars
  BY <1>1
<1> QED
  BY <1>2, Invariance, WaitingInvariant, PTL DEF Spec, NoCreditAfterStop

=============================================================================
