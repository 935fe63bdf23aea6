----------------------- MODULE StreamLifecycleProofs -----------------------
(***************************************************************************)
(* Proofs about StreamLifecycle, for any number of writes, any capacity of  *)
(* the DATA queue and any choice of what each application may do: the type  *)
(* invariant, the four safety invariants, and that the stream implements    *)
(* the byte stream of its trait.                                            *)
(*                                                                          *)
(* The inductive invariant follows each endpoint's terminal frame from the  *)
(* claim in local_terminal through a queue and the writer task's hand to    *)
(* the channel and the peer's peer_terminal: it is in one place at a time   *)
(* (TerminalInv, PlacedInv), the channel holds it or it has arrived exactly *)
(* when the writer task has handed it over, with no DATA behind it          *)
(* (WireInv), an endpoint closes the channel only after sending its own and *)
(* receiving the peer's, so that CLOSE is the last thing to travel          *)
(* (CloseInv), and between the writer's count and the reader's no DATA is   *)
(* missing before a reset or a cancelled read (CountInv).                   *)
(*                                                                          *)
(* The proof goes by what an action does at its own endpoint (At_<action>), *)
(* what it leaves alone at the other (Elsewhere, Quiet), and one lemma for  *)
(* each part of the invariant (StepTerminal to StepCount).                  *)
(***************************************************************************)
EXTENDS StreamLifecycle, FiniteSetTheorems, FunctionTheorems, TLAPS

-----------------------------------------------------------------------------
(* Queues and channels by what is in them.                                  *)
Has(q, f) == \E i \in 1..Len(q) : q[i] = f
HasTerminal(q) == Has(q, "FIN") \/ Has(q, "RESET")
Count(q) == Cardinality({i \in 1..Len(q) : q[i] = "DATA"})

(* No frame but STOP follows a terminal one, nothing follows CLOSE.         *)
Orderly(q) ==
    \A i, j \in 1..Len(q) : i < j =>
        /\ q[i] # "CLOSE"
        /\ q[i] \in TerminalFrames => q[j] \notin TerminalFrames /\ q[j] # "DATA"
(* FIN is the last of its queue.                                            *)
FinLast(q) == \A i, j \in 1..Len(q) : i < j => q[i] # "FIN"
(* No frame is there twice.                                                 *)
NoneTwice(q) == \A i, j \in 1..Len(q) : i # j => q[i] # q[j]

-----------------------------------------------------------------------------
(* The inductive invariant, endpoint by endpoint.                           *)
Hands == {NoFrame, Ended} \cup [frame : Frames \ {"CLOSE"}, sent : BOOLEAN]
Typed ==
    /\ inbuf \in [Endpoints -> Nat]
    /\ peer_terminal \in [Endpoints -> {"none", "fin", "reset"}]
    /\ local_terminal \in [Endpoints -> {"none", "fin", "reset"}]
    /\ peer_stop \in [Endpoints -> BOOLEAN] /\ local_terminal_sent \in [Endpoints -> BOOLEAN]
    /\ read_cancel \in [Endpoints -> BOOLEAN] /\ drop_data \in [Endpoints -> BOOLEAN]
    /\ dc_closed \in [Endpoints -> BOOLEAN] /\ retired_fired \in [Endpoints -> BOOLEAN]
    /\ closing \in [Endpoints -> {"no", "asked", "sent"}]
    /\ closer \in [Endpoints -> {"none", "send", "shutdown"}]
    /\ read_end \in [Endpoints -> {"open", "eof", "error"}]
    /\ hand \in [Endpoints -> Hands]
    /\ data_q \in [Endpoints -> Seq({"DATA", "FIN"})]
    /\ \A e \in Endpoints : Len(data_q[e]) <= DataQ
    /\ life_q \in [Endpoints -> Seq({"RESET", "STOP"})]
    /\ chan \in [Endpoints -> Seq(Frames)]
    /\ written \in [Endpoints -> 0..MaxWrites] /\ read \in [Endpoints -> Nat]

InHand(e) == hand[e].frame \in TerminalFrames
(* The terminal frame of e has been given to the transport.                 *)
Handed(e) == local_terminal_sent[e] \/ (InHand(e) /\ hand[e].sent)

(* The terminal frame of e is in one place at most.                         *)
TerminalInv(e) ==
    /\ closer[e] # "none" =>
         /\ local_terminal[e] = "fin"
         /\ ~Has(data_q[e], "FIN") /\ ~Has(life_q[e], "RESET")
         /\ ~InHand(e) /\ ~local_terminal_sent[e]
    /\ Has(data_q[e], "FIN") =>
         /\ local_terminal[e] = "fin"
         /\ ~Has(life_q[e], "RESET") /\ ~InHand(e) /\ ~local_terminal_sent[e]
    /\ Has(life_q[e], "RESET") =>
         local_terminal[e] = "reset" /\ ~InHand(e) /\ ~local_terminal_sent[e]
    /\ InHand(e) =>
         /\ ~local_terminal_sent[e]
         /\ local_terminal[e] = IF hand[e].frame = "FIN" THEN "fin" ELSE "reset"
    /\ local_terminal_sent[e] => local_terminal[e] # "none" /\ hand[e].frame # "DATA"
    /\ InHand(e) \/ local_terminal_sent[e] => data_q[e] = <<>> \/ local_terminal[e] = "reset"
    /\ drop_data[e] <=> local_terminal[e] = "reset"
    /\ FinLast(data_q[e]) /\ NoneTwice(life_q[e])
    /\ hand[e] = Ended => local_terminal_sent[e]

(* And in one at least, unless an abandoned close_write has lost it.        *)
PlacedInv(e) ==
    e \notin Abandoners /\ local_terminal[e] # "none" =>
        \/ closer[e] # "none" \/ Has(data_q[e], "FIN") \/ Has(life_q[e], "RESET")
        \/ InHand(e) \/ local_terminal_sent[e]

(* STOP_SENDING is sent by who has cancelled.                               *)
StopInv(e) ==
    Has(life_q[e], "STOP") \/ hand[e].frame = "STOP" \/ Has(chan[e], "STOP") => read_cancel[e]

(* What e has handed over, and what has arrived of it.                      *)
WireInv(e) ==
    /\ Orderly(chan[e])
    /\ HasTerminal(chan[e]) \/ peer_terminal[peer(e)] # "none" <=> Handed(e)
    /\ peer_terminal[peer(e)] # "none" =>
         /\ ~HasTerminal(chan[e]) /\ ~Has(chan[e], "DATA")
         /\ local_terminal[e] = peer_terminal[peer(e)]
    /\ Has(chan[e], "FIN") => local_terminal[e] = "fin"
    /\ Has(chan[e], "RESET") => local_terminal[e] = "reset"

(* The channel is closed by an endpoint that has seen both ends terminal,   *)
(* and closed towards e's peer once all e sent has arrived.                 *)
CloseInv(e) ==
    /\ closing[e] # "no" \/ (dc_closed[e] /\ fatal = "none") =>
         local_terminal_sent[e] /\ peer_terminal[e] # "none"
    /\ Has(chan[e], "CLOSE") => (closing[e] = "sent" \/ dc_closed[e]) /\ ~dc_closed[peer(e)]
    /\ dc_closed[peer(e)] => (closing[e] = "sent" \/ dc_closed[e]) /\ chan[e] = <<>>

(* What reading has come to.                                                *)
ReadInv(e) ==
    /\ read_cancel[e] => inbuf[e] = 0
    /\ read_end[e] # "open" => peer_terminal[e] # "none" /\ inbuf[e] = 0
    /\ peer_terminal[e] = "reset" => inbuf[e] = 0
    /\ retired_fired[e] => dc_closed[e] /\ inbuf[e] = 0 /\ peer_terminal[e] # "none"

(* Where the frames that e has written are: none is lost before a reset or  *)
(* a cancelled read.                                                        *)
Pending(e) == IF hand[e].frame = "DATA" /\ ~hand[e].sent THEN 1 ELSE 0
Placed(e) ==
    read[peer(e)] + inbuf[peer(e)] + Count(chan[e]) + Pending(e) + Count(data_q[e])
CountInv(e) ==
    /\ Placed(e) <= written[e]
    /\ local_terminal[e] # "reset" /\ ~read_cancel[peer(e)] => Placed(e) = written[e]

EndInv(e) ==
    TerminalInv(e) /\ PlacedInv(e) /\ StopInv(e) /\ WireInv(e) /\ CloseInv(e)
        /\ ReadInv(e) /\ CountInv(e)
IInv ==
    Typed /\ NoProtocolError /\ MidStreamWindow /\ \A e \in Endpoints : EndInv(e)

-----------------------------------------------------------------------------
(* Queues: what appending and taking do to them.                            *)
LEMMA AppendAt ==
    ASSUME NEW S, NEW q \in Seq(S), NEW f \in S
    PROVE  /\ Append(q, f) \in Seq(S) /\ Len(q) \in Nat /\ Len(Append(q, f)) = Len(q) + 1
           /\ \A i \in 1..Len(q) : Append(q, f)[i] = q[i]
           /\ Append(q, f)[Len(q) + 1] = f
OBVIOUS

(* A queue of no length is empty.                                           *)
LEMMA NoLength ==
    ASSUME NEW S, NEW q \in Seq(S), Len(q) = 0
    PROVE  q = <<>>
OBVIOUS

(* What taking the head leaves.                                             *)
LEMMA TailAt ==
    ASSUME NEW S, NEW q \in Seq(S), q # <<>>
    PROVE  /\ Tail(q) \in Seq(S) /\ Len(q) \in Nat \ {0} /\ Len(Tail(q)) = Len(q) - 1
           /\ \A i \in 1..Len(Tail(q)) : Tail(q)[i] = q[i + 1]
           /\ Head(q) = q[1] /\ Head(q) \in S
OBVIOUS

(* What is in a queue after an append.                                      *)
LEMMA HasAppend ==
    ASSUME NEW S, NEW q \in Seq(S), NEW f \in S
    PROVE  \A g : Has(Append(q, f), g) <=> Has(q, g) \/ f = g
<1> DEFINE r == Append(q, f)
           n == Len(q)
<1>1. /\ n \in Nat /\ Len(r) = n + 1 /\ \A i \in 1..n : r[i] = q[i]
      /\ r[n + 1] = f
  BY AppendAt
<1> HIDE DEF r
<1>2. \A g : Has(q, g) <=> \E i \in 1..n : q[i] = g
  BY DEF Has
<1> HIDE DEF n
<1>3. \A g : Has(r, g) <=> Has(q, g) \/ f = g
  BY <1>1, <1>2 DEF Has
<1> QED
  BY <1>3 DEF r

(* What is in a queue is its head or in its tail.                           *)
LEMMA HasTail ==
    ASSUME NEW S, NEW q \in Seq(S), q # <<>>
    PROVE  \A g : Has(q, g) <=> Head(q) = g \/ Has(Tail(q), g)
<1> DEFINE r == Tail(q)
           n == Len(r)
<1>1. /\ n \in Nat /\ Len(q) = n + 1 /\ \A i \in 1..n : r[i] = q[i + 1]
      /\ Head(q) = q[1]
  BY TailAt
<1> HIDE DEF r
<1>2. \A g : Has(r, g) <=> \E i \in 1..n : r[i] = g
  BY DEF Has
<1> HIDE DEF n
<1>3. ASSUME NEW g, Has(q, g) PROVE Head(q) = g \/ Has(r, g)
  <2>1. PICK i \in 1..(n + 1) : q[i] = g
    BY <1>1, <1>3 DEF Has
  <2>2. CASE i = 1
    BY <1>1, <2>1, <2>2
  <2>3. CASE i # 1
    <3>1. i - 1 \in 1..n /\ r[i - 1] = g
      BY <1>1, <2>1, <2>3
    <3> QED
      BY <1>2, <3>1
  <2> QED
    BY <2>2, <2>3
<1>4. ASSUME NEW g, Has(r, g) PROVE Has(q, g)
  <2>1. PICK i \in 1..n : r[i] = g
    BY <1>2, <1>4
  <2>2. i + 1 \in 1..Len(q) /\ q[i + 1] = g
    BY <1>1, <2>1
  <2> QED
    BY <2>2 DEF Has
<1>5. Has(q, Head(q))
  BY <1>1 DEF Has
<1> QED
  BY <1>3, <1>4, <1>5 DEF r

(* Nothing is in the empty queue.                                           *)
LEMMA HasEmpty == \A g : ~Has(<<>>, g)
BY DEF Has

(* A channel stays in order when nothing but STOP follows a terminal frame. *)
LEMMA OrderlyAppend ==
    ASSUME NEW S, NEW q \in Seq(S), NEW f \in S, Orderly(q), ~Has(q, "CLOSE"),
           HasTerminal(q) => f \notin TerminalFrames /\ f # "DATA"
    PROVE  Orderly(Append(q, f))
<1> DEFINE r == Append(q, f)
           n == Len(q)
<1>1. /\ n \in Nat /\ Len(r) = n + 1 /\ \A i \in 1..n : r[i] = q[i]
      /\ r[n + 1] = f
  BY AppendAt
<1>2. \A i \in 1..n : q[i] # "CLOSE" /\ (q[i] \in TerminalFrames => HasTerminal(q))
  BY DEF Has, HasTerminal, TerminalFrames
<1> HIDE DEF r, HasTerminal, n
<1>3. ASSUME NEW i \in 1..(n + 1), NEW j \in 1..(n + 1), i < j
      PROVE  /\ r[i] # "CLOSE"
             /\ r[i] \in TerminalFrames => r[j] \notin TerminalFrames /\ r[j] # "DATA"
  <2>1. i \in 1..n /\ r[i] = q[i] /\ (j \in 1..n \/ j = n + 1)
    BY <1>1, <1>3
  <2>2. CASE j \in 1..n
    BY <1>1, <1>2, <1>3, <2>1, <2>2 DEF Orderly, n
  <2>3. CASE j = n + 1
    BY <1>1, <1>2, <2>1, <2>3
  <2> QED
    BY <2>1, <2>2, <2>3
<1>4. Orderly(r)
  BY <1>1, <1>3 DEF Orderly
<1> QED
  BY <1>4 DEF r

(* A channel stays in order as frames arrive; CLOSE is the last to.         *)
LEMMA OrderlyTail ==
    ASSUME NEW S, NEW q \in Seq(S), q # <<>>, Orderly(q)
    PROVE  /\ Orderly(Tail(q))
           /\ Head(q) = "CLOSE" => Tail(q) = <<>>
           /\ Head(q) \in TerminalFrames => ~HasTerminal(Tail(q)) /\ ~Has(Tail(q), "DATA")
<1> DEFINE r == Tail(q)
           n == Len(r)
<1>1. /\ n \in Nat /\ Len(q) = n + 1 /\ \A i \in 1..n : r[i] = q[i + 1]
      /\ Head(q) = q[1] /\ r \in Seq(S)
  BY TailAt
<1>2. Orderly(r)
  <2> HIDE DEF r
  <2> QED
    BY <1>1 DEF Orderly
<1>3. Head(q) = "CLOSE" => n = 0
  <2> HIDE DEF r, n
  <2> QED
    BY <1>1 DEF Orderly
<1>4. n = 0 => r = <<>>
  BY <1>1, NoLength
<1>5. ASSUME Head(q) \in TerminalFrames, NEW i \in 1..n
      PROVE  r[i] \notin TerminalFrames /\ r[i] # "DATA"
  <2> HIDE DEF r, n
  <2> QED
    BY <1>1, <1>5 DEF Orderly
<1>6. Head(q) \in TerminalFrames => ~HasTerminal(r) /\ ~Has(r, "DATA")
  <2> HIDE DEF r
  <2> QED
    BY <1>5 DEF HasTerminal, Has, TerminalFrames
<1> QED
  BY <1>2, <1>3, <1>4, <1>6

(* FIN stays the last of its queue.                                         *)
LEMMA FinLastKept ==
    ASSUME NEW S, NEW q \in Seq(S), FinLast(q)
    PROVE  /\ \A f \in S : ~Has(q, "FIN") => FinLast(Append(q, f))
           /\ q # <<>> => /\ FinLast(Tail(q))
                          /\ Head(q) = "FIN" => Tail(q) = <<>>
<1>1. ASSUME NEW f \in S, ~Has(q, "FIN") PROVE FinLast(Append(q, f))
  <2> DEFINE r == Append(q, f)
             n == Len(q)
  <2>1. /\ n \in Nat /\ Len(r) = n + 1 /\ \A i \in 1..n : r[i] = q[i]
    BY AppendAt
  <2>2. \A i \in 1..n : q[i] # "FIN"
    BY <1>1 DEF Has
  <2> HIDE DEF r, n
  <2>3. FinLast(r)
    BY <2>1, <2>2 DEF FinLast
  <2> QED
    BY <2>3 DEF r
<1>2. ASSUME q # <<>> PROVE FinLast(Tail(q)) /\ (Head(q) = "FIN" => Tail(q) = <<>>)
  <2> DEFINE r == Tail(q)
             n == Len(r)
  <2>1. /\ n \in Nat /\ Len(q) = n + 1 /\ \A i \in 1..n : r[i] = q[i + 1]
        /\ Head(q) = q[1] /\ r \in Seq(S)
    BY <1>2, TailAt
  <2>2. n = 0 => r = <<>>
    BY <2>1, NoLength
  <2>3. FinLast(r) /\ (Head(q) = "FIN" => n = 0)
    <3> HIDE DEF r
    <3>1. n = Len(r)
      OBVIOUS
    <3> HIDE DEF n
    <3> QED
      BY <2>1, <3>1 DEF FinLast
  <2> QED
    BY <2>2, <2>3
<1> QED
  BY <1>1, <1>2

(* A queue still holds no frame twice.                                      *)
LEMMA NoneTwiceKept ==
    ASSUME NEW S, NEW q \in Seq(S), NoneTwice(q)
    PROVE  /\ \A f \in S : ~Has(q, f) => NoneTwice(Append(q, f))
           /\ q # <<>> => /\ NoneTwice(Tail(q))
                          /\ ~Has(Tail(q), Head(q))
<1>1. ASSUME NEW f \in S, ~Has(q, f) PROVE NoneTwice(Append(q, f))
  <2> DEFINE r == Append(q, f)
             n == Len(q)
  <2>1. /\ n \in Nat /\ Len(r) = n + 1 /\ \A i \in 1..n : r[i] = q[i]
        /\ r[n + 1] = f
    BY AppendAt
  <2>2. \A i \in 1..n : q[i] # f
    BY <1>1 DEF Has
  <2>3. \A i, j \in 1..n : i # j => q[i] # q[j]
    BY DEF NoneTwice
  <2> HIDE DEF r, n
  <2>4. NoneTwice(r)
    BY <2>1, <2>2, <2>3 DEF NoneTwice
  <2> QED
    BY <2>4 DEF r
<1>2. ASSUME q # <<>> PROVE NoneTwice(Tail(q)) /\ ~Has(Tail(q), Head(q))
  <2> DEFINE r == Tail(q)
             n == Len(r)
  <2>1. /\ n \in Nat /\ Len(q) = n + 1 /\ \A i \in 1..n : r[i] = q[i + 1]
        /\ Head(q) = q[1]
    BY <1>2, TailAt
  <2>2. \A i, j \in 1..(n + 1) : i # j => q[i] # q[j]
    BY <2>1 DEF NoneTwice
  <2> HIDE DEF r
  <2>3. n = Len(r)
    OBVIOUS
  <2> HIDE DEF n
  <2>4. NoneTwice(r)
    BY <2>1, <2>2, <2>3 DEF NoneTwice
  <2>5. \A i \in 1..n : r[i] # Head(q)
    BY <2>1, <2>2
  <2>6. ~Has(r, Head(q))
    BY <2>3, <2>5 DEF Has
  <2> QED
    BY <2>4, <2>6 DEF r
<1> QED
  BY <1>1, <1>2

(* DATA frames, counted.                                                    *)
LEMMA CountTyped ==
    ASSUME NEW S, NEW q \in Seq(S)
    PROVE  /\ Count(q) \in Nat /\ IsFiniteSet({i \in 1..Len(q) : q[i] = "DATA"})
           /\ ~Has(q, "DATA") => Count(q) = 0
<1> DEFINE D == {i \in 1..Len(q) : q[i] = "DATA"}
<1>1. Len(q) \in Nat
  OBVIOUS
<1>2. IsFiniteSet(1..Len(q))
  BY <1>1, FS_Interval
<1>3. IsFiniteSet(D)
  BY <1>2, FS_Subset
<1>4. ~Has(q, "DATA") => D = {}
  BY DEF Has
<1> QED
  BY <1>3, <1>4, FS_CardinalityType, FS_EmptySet DEF Count

(* The empty queue holds no DATA.                                           *)
LEMMA CountEmpty == Count(<<>>) = 0
<1>1. {i \in 1..Len(<<>>) : <<>>[i] = "DATA"} = {}
  OBVIOUS
<1> QED
  BY <1>1, FS_EmptySet DEF Count

(* An append adds to the count when it is DATA.                             *)
LEMMA CountAppend ==
    ASSUME NEW S, NEW q \in Seq(S), NEW f \in S
    PROVE  Count(Append(q, f)) = Count(q) + (IF f = "DATA" THEN 1 ELSE 0)
<1> DEFINE r == Append(q, f)
           n == Len(q)
           D == {i \in 1..n : q[i] = "DATA"}
           E == {i \in 1..Len(r) : r[i] = "DATA"}
<1>1. /\ n \in Nat /\ Len(r) = n + 1 /\ \A i \in 1..n : r[i] = q[i]
      /\ r[n + 1] = f
  BY AppendAt
<1>2. IsFiniteSet(D) /\ Count(q) \in Nat /\ Count(q) = Cardinality(D) /\ Count(r) = Cardinality(E)
  BY CountTyped DEF Count
<1> HIDE DEF r, n
<1>3. CASE f = "DATA"
  <2>1. E = D \cup {n + 1} /\ n + 1 \notin D
    BY <1>1, <1>3
  <2>2. Cardinality(E) = Cardinality(D) + 1
    BY <1>2, <2>1, FS_AddElement
  <2> QED
    BY <1>2, <1>3, <2>2 DEF r
<1>4. CASE f # "DATA"
  <2>1. E = D
    BY <1>1, <1>4
  <2>2. Count(r) = Count(q)
    BY <1>2, <2>1
  <2>3. Count(r) = Count(q) + 0
    BY <1>2, <2>2
  <2> QED
    BY <1>4, <2>3 DEF r
<1> QED
  BY <1>3, <1>4

(* A take subtracts from the count when it is DATA.                         *)
LEMMA CountTail ==
    ASSUME NEW S, NEW q \in Seq(S), q # <<>>
    PROVE  Count(q) = Count(Tail(q)) + (IF Head(q) = "DATA" THEN 1 ELSE 0)
<1> DEFINE r == Tail(q)
           n == Len(r)
           D == {i \in 1..Len(q) : q[i] = "DATA"}
           E == {i \in 1..n : r[i] = "DATA"}
           F == {i \in 2..(n + 1) : q[i] = "DATA"}
<1>1. /\ n \in Nat /\ Len(q) = n + 1 /\ \A i \in 1..n : r[i] = q[i + 1]
      /\ Head(q) = q[1] /\ r \in Seq(S)
  BY TailAt
<1>2. /\ IsFiniteSet(D) /\ Count(q) \in Nat /\ Count(q) = Cardinality(D)
      /\ IsFiniteSet(E) /\ Count(r) \in Nat /\ Count(r) = Cardinality(E)
  BY <1>1, CountTyped DEF Count
<1> HIDE DEF r
<1>3. n = Len(r)
  OBVIOUS
<1> HIDE DEF n
<1>4. Cardinality(F) = Cardinality(E) /\ IsFiniteSet(F)
  <2> DEFINE g == [i \in E |-> i + 1]
  <2>1. g \in [E -> F]
    BY <1>1
  <2>2. \A i, j \in E : g[i] = g[j] => i = j
    BY <1>1
  <2>3. \A k \in F : \E i \in E : g[i] = k
    <3>1. ASSUME NEW k \in F PROVE k - 1 \in E /\ g[k - 1] = k
      BY <1>1
    <3> QED
      BY <3>1
  <2>4. g \in Bijection(E, F)
    <3> HIDE DEF g, E, F
    <3> QED
      BY <2>1, <2>2, <2>3, Fun_IsBij
  <2>5. ExistsBijection(E, F)
    BY <2>4 DEF ExistsBijection
  <2> QED
    BY <1>2, <2>5, FS_Bijection
<1>5. CASE Head(q) = "DATA"
  <2>1. D = F \cup {1} /\ 1 \notin F
    BY <1>1, <1>5
  <2>2. Cardinality(D) = Cardinality(F) + 1
    BY <1>4, <2>1, FS_AddElement
  <2> QED
    BY <1>2, <1>4, <1>5, <2>2 DEF r
<1>6. CASE Head(q) # "DATA"
  <2>1. D = F
    BY <1>1, <1>6
  <2>2. Count(q) = Count(r)
    BY <1>2, <1>4, <2>1
  <2> QED
    BY <1>2, <1>6, <2>2 DEF r
<1> QED
  BY <1>5, <1>6

-----------------------------------------------------------------------------
(* The two endpoints are each other's peers.                                *)
LEMMA Peers ==
    /\ \A x \in Endpoints : /\ peer(x) \in Endpoints /\ peer(x) # x /\ peer(peer(x)) = x
                            /\ \A y \in Endpoints : y = x \/ y = peer(x)
BY DEF Endpoints, peer

(* maybe_retire: it touches its own endpoint, asks for the close of the     *)
(* channel at most once, and fires only when everything is over.            *)
LEMMA Retiring ==
    ASSUME Typed, NEW e \in Endpoints, maybe_retire(e)
    PROVE  /\ retired_fired' \in [Endpoints -> BOOLEAN]
           /\ closing' \in [Endpoints -> {"no", "asked", "sent"}]
           /\ \A x \in Endpoints : x # e =>
                retired_fired'[x] = retired_fired[x] /\ closing'[x] = closing[x]
           /\ retired_fired'[e] => \/ retired_fired[e]
                                   \/ /\ local_terminal_sent'[e] /\ peer_terminal'[e] # "none"
                                      /\ inbuf'[e] = 0 /\ dc_closed'[e]
           /\ closing'[e] = "sent" <=> closing[e] = "sent"
           /\ closing'[e] # "no" => \/ closing[e] # "no"
                                    \/ local_terminal_sent'[e] /\ peer_terminal'[e] # "none"
<1> DEFINE ready == /\ local_terminal_sent'[e] /\ peer_terminal'[e] # "none" /\ inbuf'[e] = 0
<1>1. /\ retired_fired' = [retired_fired EXCEPT
                             ![e] = retired_fired[e] \/ (ready /\ dc_closed'[e])]
      /\ closing' = [closing EXCEPT ![e] = IF ready /\ ~dc_closed'[e] /\ closing[e] = "no"
                                           THEN "asked" ELSE closing[e]]
  BY DEF maybe_retire, retires, wire_complete
<1>2. retired_fired \in [Endpoints -> BOOLEAN]
          /\ closing \in [Endpoints -> {"no", "asked", "sent"}]
  BY DEF Typed
<1>3. /\ retired_fired'[e] <=> retired_fired[e] \/ (ready /\ dc_closed'[e])
      /\ retired_fired' \in [Endpoints -> BOOLEAN]
      /\ \A x \in Endpoints : x # e => retired_fired'[x] = retired_fired[x]
  <2> HIDE DEF ready
  <2>1. retired_fired[e] \/ (ready /\ dc_closed'[e]) \in BOOLEAN
    OBVIOUS
  <2> QED
    BY <1>1, <1>2, <2>1
<1>4. /\ closing'[e] = IF ready /\ ~dc_closed'[e] /\ closing[e] = "no" THEN "asked"
             ELSE closing[e]
      /\ closing' \in [Endpoints -> {"no", "asked", "sent"}]
      /\ \A x \in Endpoints : x # e => closing'[x] = closing[x]
  BY <1>1, <1>2
<1> QED
  BY <1>3, <1>4


(* The writer task's hand.                                                  *)
LEMMA HandFields ==
    /\ NoFrame.frame = "none" /\ ~NoFrame.sent /\ Ended.frame = "ended" /\ ~Ended.sent
    /\ \A f : [frame |-> f, sent |-> FALSE].frame = f /\ ~[frame |-> f, sent |-> FALSE].sent
    /\ \A r \in Hands : /\ r.sent \in BOOLEAN /\ (r.sent => r.frame \in Frames \ {"CLOSE"})
                        /\ r.frame \in {"none", "ended"} \cup (Frames \ {"CLOSE"})
                        /\ [r EXCEPT !.sent = TRUE].frame = r.frame
                        /\ [r EXCEPT !.sent = TRUE].sent
<1>1. NoFrame.frame = "none" /\ ~NoFrame.sent /\ Ended.frame = "ended" /\ ~Ended.sent
  BY DEF NoFrame, Ended
<1>2. ASSUME NEW r \in Hands
      PROVE  /\ r.sent \in BOOLEAN /\ (r.sent => r.frame \in Frames \ {"CLOSE"})
             /\ r.frame \in {"none", "ended"} \cup (Frames \ {"CLOSE"})
             /\ [r EXCEPT !.sent = TRUE].frame = r.frame /\ [r EXCEPT !.sent = TRUE].sent
  <2>1. CASE r = NoFrame
    BY <2>1 DEF NoFrame
  <2>2. CASE r = Ended
    BY <2>2 DEF Ended
  <2>3. CASE r \in [frame : Frames \ {"CLOSE"}, sent : BOOLEAN]
    BY <2>3
  <2> QED
    BY <2>1, <2>2, <2>3 DEF Hands
<1> QED
  BY <1>1, <1>2

(* The writer task's hand as it moves.                                      *)
LEMMA HandMoves ==
    /\ NoFrame \in Hands /\ Ended \in Hands
    /\ \A f \in Frames \ {"CLOSE"} : [frame |-> f, sent |-> FALSE] \in Hands
    /\ \A r \in Hands : r.frame \in Frames => [r EXCEPT !.sent = TRUE] \in Hands
    /\ {"DATA", "FIN", "RESET", "STOP"} = Frames \ {"CLOSE"}
<1>1. ASSUME NEW r \in Hands, r.frame \in Frames PROVE [r EXCEPT !.sent = TRUE] \in Hands
  <2>1. r.frame \notin {"none", "ended"}
    BY <1>1 DEF Frames
  <2>2. r \in [frame : Frames \ {"CLOSE"}, sent : BOOLEAN]
    BY <1>1, <2>1, HandFields DEF Hands
  <2> QED
    BY <2>2 DEF Hands
<1> QED
  BY <1>1 DEF Hands, Frames

(* Every step keeps the types.                                              *)
LEMMA StepTyped == ASSUME Typed, Next PROVE Typed'
<1> USE DEF state, reading, writing, retiring, queues, seen
<1>0. PICK e \in Endpoints : Application(e) \/ WriterTask(e) \/ Callback(e)
  BY DEF Next
<1>p. peer(e) \in Endpoints /\ peer(e) # e
  BY Peers
<1>s. /\ "DATA" \in {"DATA", "FIN"} /\ "FIN" \in {"DATA", "FIN"}
      /\ "RESET" \in {"RESET", "STOP"} /\ "STOP" \in {"RESET", "STOP"}
      /\ {"DATA", "FIN", "RESET", "STOP", "CLOSE"} = Frames
      /\ \A S : <<>> \in Seq(S) /\ Len(<<>>) = 0
  BY DEF Frames
<1>r. ASSUME maybe_retire(e)
      PROVE  retired_fired' \in [Endpoints -> BOOLEAN]
          /\ closing' \in [Endpoints -> {"no", "asked", "sent"}]
  BY <1>r, Retiring
<1>t_inbuf. inbuf \in [Endpoints -> Nat]
  BY DEF Typed
<1>t_peer_terminal. peer_terminal \in [Endpoints -> {"none", "fin", "reset"}]
  BY DEF Typed
<1>t_local_terminal. local_terminal \in [Endpoints -> {"none", "fin", "reset"}]
  BY DEF Typed
<1>t_peer_stop. peer_stop \in [Endpoints -> BOOLEAN]
  BY DEF Typed
<1>t_local_terminal_sent. local_terminal_sent \in [Endpoints -> BOOLEAN]
  BY DEF Typed
<1>t_read_cancel. read_cancel \in [Endpoints -> BOOLEAN]
  BY DEF Typed
<1>t_drop_data. drop_data \in [Endpoints -> BOOLEAN]
  BY DEF Typed
<1>t_dc_closed. dc_closed \in [Endpoints -> BOOLEAN]
  BY DEF Typed
<1>t_retired_fired. retired_fired \in [Endpoints -> BOOLEAN]
  BY DEF Typed
<1>t_closing. closing \in [Endpoints -> {"no", "asked", "sent"}]
  BY DEF Typed
<1>t_closer. closer \in [Endpoints -> {"none", "send", "shutdown"}]
  BY DEF Typed
<1>t_read_end. read_end \in [Endpoints -> {"open", "eof", "error"}]
  BY DEF Typed
<1>t_hand. hand \in [Endpoints -> Hands]
  BY DEF Typed
<1>t_data_q. data_q \in [Endpoints -> Seq({"DATA", "FIN"})]
                 /\ \A x \in Endpoints : Len(data_q[x]) <= DataQ
  BY DEF Typed
<1>t_life_q. life_q \in [Endpoints -> Seq({"RESET", "STOP"})]
  BY DEF Typed
<1>t_chan. chan \in [Endpoints -> Seq(Frames)]
  BY DEF Typed
<1>t_written. written \in [Endpoints -> 0..MaxWrites]
  BY DEF Typed
<1>t_read. read \in [Endpoints -> Nat]
  BY DEF Typed
<1>u_chan. \A x \in Endpoints :
             /\ \A f \in Frames : Append(chan[x], f) \in Seq(Frames)
             /\ chan[x] # <<>> => Tail(chan[x]) \in Seq(Frames)
  BY <1>t_chan
<1>u_life_q. \A x \in Endpoints :
             /\ \A f \in {"RESET", "STOP"} : Append(life_q[x], f) \in Seq({"RESET", "STOP"})
             /\ life_q[x] # <<>> => /\ Tail(life_q[x]) \in Seq({"RESET", "STOP"})
                                    /\ Head(life_q[x]) \in Frames \ {"CLOSE"}
  BY <1>t_life_q, <1>s
<1>u_data_q. \A x \in Endpoints :
             /\ Len(data_q[x]) \in Nat
             /\ \A f \in {"DATA", "FIN"} :
                  /\ Append(data_q[x], f) \in Seq({"DATA", "FIN"})
                  /\ Len(Append(data_q[x], f)) = Len(data_q[x]) + 1
             /\ data_q[x] # <<>> => /\ Tail(data_q[x]) \in Seq({"DATA", "FIN"})
                                    /\ Head(data_q[x]) \in Frames \ {"CLOSE"}
                                    /\ Len(Tail(data_q[x])) = Len(data_q[x]) - 1
  BY <1>t_data_q, <1>s
<1>t. Typed
  OBVIOUS
<1>1. ASSUME poll_write(e) PROVE Typed'
  <2>1. data_q' \in [Endpoints -> Seq({"DATA", "FIN"})]
    BY <1>s, <1>u_data_q, <1>1, <1>t_data_q DEF poll_write, room
  <2>2. written' \in [Endpoints -> 0..MaxWrites]
    BY LifecycleAssumption, <1>1, <1>t_written DEF poll_write, room
  <2>3. \A x \in Endpoints : Len(data_q'[x]) <= DataQ
    BY <1>1, <1>s, <1>t_data_q, <1>u_data_q, LifecycleAssumption DEF poll_write, room
  <2>4. UNCHANGED <<inbuf, peer_terminal, local_terminal, peer_stop, local_terminal_sent,
                    read_cancel, drop_data, dc_closed, retired_fired, closing, closer, read_end,
                    hand, life_q, chan, read>>
    BY <1>1 DEF poll_write, room
  <2> QED
    BY <2>1, <2>2, <2>3, <2>4, <1>t DEF Typed
<1>2. ASSUME close_write(e) PROVE Typed'
  <2>1. local_terminal' \in [Endpoints -> {"none", "fin", "reset"}]
    BY <1>2, <1>t_local_terminal DEF close_write
  <2>2. closer' \in [Endpoints -> {"none", "send", "shutdown"}]
    BY <1>2, <1>t_closer DEF close_write
  <2>3. UNCHANGED <<inbuf, peer_terminal, peer_stop, local_terminal_sent, read_cancel, drop_data,
                    dc_closed, retired_fired, closing, read_end, hand, data_q, life_q, chan,
                    written, read>>
    BY <1>2 DEF close_write
  <2> QED
    BY <2>1, <2>2, <2>3, <1>t DEF Typed
<1>3. ASSUME queue_fin(e) PROVE Typed'
  <2>1. data_q' \in [Endpoints -> Seq({"DATA", "FIN"})]
    BY <1>s, <1>u_data_q, <1>3, <1>t_data_q DEF queue_fin, room, fin_behind
  <2>2. closer' \in [Endpoints -> {"none", "send", "shutdown"}]
    BY <1>3, <1>t_closer DEF queue_fin, room, fin_behind
  <2>3. retired_fired' \in [Endpoints -> BOOLEAN]
            /\ closing' \in [Endpoints -> {"no", "asked", "sent"}]
    BY <1>3, <1>r, <1>t_retired_fired, <1>t_closing DEF queue_fin, room, fin_behind
  <2>4. \A x \in Endpoints : Len(data_q'[x]) <= DataQ
    BY <1>3, <1>s, <1>t_data_q, <1>u_data_q, LifecycleAssumption DEF queue_fin, room, fin_behind
  <2>5. UNCHANGED <<inbuf, peer_terminal, local_terminal, peer_stop, local_terminal_sent,
                    read_cancel, drop_data, dc_closed, read_end, hand, life_q, chan, written, read>>
    BY <1>3 DEF queue_fin, room, fin_behind
  <2> QED
    BY <2>1, <2>2, <2>3, <2>4, <2>5, <1>t DEF Typed
<1>4. ASSUME abandon_close(e) PROVE Typed'
  <2>1. closer' \in [Endpoints -> {"none", "send", "shutdown"}]
    BY <1>4, <1>t_closer DEF abandon_close
  <2>2. UNCHANGED <<inbuf, peer_terminal, local_terminal, peer_stop, local_terminal_sent,
                    read_cancel, drop_data, dc_closed, retired_fired, closing, read_end, hand,
                    data_q, life_q, chan, written, read>>
    BY <1>4 DEF abandon_close
  <2> QED
    BY <2>1, <2>2, <1>t DEF Typed
<1>5. ASSUME poll_shutdown(e) PROVE Typed'
  <2>1. local_terminal' \in [Endpoints -> {"none", "fin", "reset"}]
    BY <1>5, <1>t_local_terminal DEF poll_shutdown
  <2>2. closer' \in [Endpoints -> {"none", "send", "shutdown"}]
    BY <1>5, <1>t_closer DEF poll_shutdown
  <2>3. UNCHANGED <<inbuf, peer_terminal, peer_stop, local_terminal_sent, read_cancel, drop_data,
                    dc_closed, retired_fired, closing, read_end, hand, data_q, life_q, chan,
                    written, read>>
    BY <1>5 DEF poll_shutdown
  <2> QED
    BY <2>1, <2>2, <2>3, <1>t DEF Typed
<1>6. ASSUME poll_shutdown_reserve(e) PROVE Typed'
  <2>1. closer' \in [Endpoints -> {"none", "send", "shutdown"}]
    BY <1>6, <1>t_closer DEF poll_shutdown_reserve, room, fin_behind
  <2>2. data_q' \in [Endpoints -> Seq({"DATA", "FIN"})]
    BY <1>s, <1>u_data_q, <1>6, <1>t_data_q DEF poll_shutdown_reserve, room, fin_behind
  <2>3. local_terminal' \in [Endpoints -> {"none", "fin", "reset"}]
    BY <1>6, <1>t_local_terminal DEF poll_shutdown_reserve, room, fin_behind
  <2>4. retired_fired' \in [Endpoints -> BOOLEAN]
            /\ closing' \in [Endpoints -> {"no", "asked", "sent"}]
    BY <1>6, <1>r, <1>t_retired_fired, <1>t_closing DEF poll_shutdown_reserve, room, fin_behind
  <2>5. \A x \in Endpoints : Len(data_q'[x]) <= DataQ
    BY <1>6, <1>s, <1>t_data_q, <1>u_data_q, LifecycleAssumption DEF poll_shutdown_reserve, room,
       fin_behind
  <2>6. UNCHANGED <<inbuf, peer_terminal, peer_stop, local_terminal_sent, read_cancel, drop_data,
                    dc_closed, read_end, hand, life_q, chan, written, read>>
    BY <1>6 DEF poll_shutdown_reserve, room, fin_behind
  <2> QED
    BY <2>1, <2>2, <2>3, <2>4, <2>5, <2>6, <1>t DEF Typed
<1>7. ASSUME reset_write(e) PROVE Typed'
  <2>1. local_terminal' \in [Endpoints -> {"none", "fin", "reset"}]
    BY <1>7, <1>t_local_terminal DEF reset_write
  <2>2. drop_data' \in [Endpoints -> BOOLEAN]
    BY <1>7, <1>t_drop_data DEF reset_write
  <2>3. life_q' \in [Endpoints -> Seq({"RESET", "STOP"})]
    BY <1>s, <1>u_life_q, <1>7, <1>t_life_q DEF reset_write
  <2>4. retired_fired' \in [Endpoints -> BOOLEAN]
            /\ closing' \in [Endpoints -> {"no", "asked", "sent"}]
    BY <1>7, <1>r, <1>t_retired_fired, <1>t_closing DEF reset_write
  <2>5. UNCHANGED <<inbuf, peer_terminal, peer_stop, local_terminal_sent, read_cancel, dc_closed,
                    closer, read_end, hand, data_q, chan, written, read>>
    BY <1>7 DEF reset_write
  <2> QED
    BY <2>1, <2>2, <2>3, <2>4, <2>5, <1>t DEF Typed
<1>8. ASSUME poll_read(e) PROVE Typed'
  <2>1. inbuf' \in [Endpoints -> Nat]
    BY <1>8, <1>t_inbuf DEF poll_read
  <2>2. read' \in [Endpoints -> Nat]
    BY <1>8, <1>t_read DEF poll_read
  <2>3. retired_fired' \in [Endpoints -> BOOLEAN]
            /\ closing' \in [Endpoints -> {"no", "asked", "sent"}]
    BY <1>8, <1>r, <1>t_retired_fired, <1>t_closing DEF poll_read
  <2>4. UNCHANGED <<peer_terminal, local_terminal, peer_stop, local_terminal_sent, read_cancel,
                    drop_data, dc_closed, closer, read_end, hand, data_q, life_q, chan, written>>
    BY <1>8 DEF poll_read
  <2> QED
    BY <2>1, <2>2, <2>3, <2>4, <1>t DEF Typed
<1>9. ASSUME poll_read_end(e) PROVE Typed'
  <2>1. read_end' \in [Endpoints -> {"open", "eof", "error"}]
    BY <1>9, <1>t_read_end DEF poll_read_end
  <2>2. UNCHANGED <<inbuf, peer_terminal, local_terminal, peer_stop, local_terminal_sent,
                    read_cancel, drop_data, dc_closed, retired_fired, closing, closer, hand,
                    data_q, life_q, chan, written, read>>
    BY <1>9 DEF poll_read_end
  <2> QED
    BY <2>1, <2>2, <1>t DEF Typed
<1>10. ASSUME cancel_read(e) PROVE Typed'
  <2>1. read_cancel' \in [Endpoints -> BOOLEAN]
    BY <1>10, <1>t_read_cancel DEF cancel_read
  <2>2. inbuf' \in [Endpoints -> Nat]
    BY <1>10, <1>t_inbuf DEF cancel_read
  <2>3. life_q' \in [Endpoints -> Seq({"RESET", "STOP"})]
    BY <1>s, <1>u_life_q, <1>10, <1>t_life_q DEF cancel_read
  <2>4. retired_fired' \in [Endpoints -> BOOLEAN]
            /\ closing' \in [Endpoints -> {"no", "asked", "sent"}]
    BY <1>10, <1>r, <1>t_retired_fired, <1>t_closing DEF cancel_read
  <2>5. UNCHANGED <<peer_terminal, local_terminal, peer_stop, local_terminal_sent, drop_data,
                    dc_closed, closer, read_end, hand, data_q, chan, written, read>>
    BY <1>10 DEF cancel_read
  <2> QED
    BY <2>1, <2>2, <2>3, <2>4, <2>5, <1>t DEF Typed
<1>11. ASSUME writer_take(e) PROVE Typed'
  <2>1. hand' \in [Endpoints -> Hands]
    <3>1. CASE life_q[e] # <<>>
      <4>1. hand' = [hand EXCEPT ![e] = [frame |-> Head(life_q[e]), sent |-> FALSE]]
        BY <1>11, <3>1 DEF writer_take
      <4>2. [frame |-> Head(life_q[e]), sent |-> FALSE] \in Hands
        BY <1>u_life_q, <3>1, HandMoves
      <4> QED
        BY <1>t_hand, <4>1, <4>2
    <3>2. CASE life_q[e] = <<>>
      <4>1. data_q[e] # <<>> /\ hand' = [hand EXCEPT ![e] = IF dropping(e, Head(data_q[e]))
                THEN NoFrame
                                       ELSE [frame |-> Head(data_q[e]), sent |-> FALSE]]
        BY <1>11, <3>2 DEF writer_take
      <4>2. [frame |-> Head(data_q[e]), sent |-> FALSE] \in Hands /\ NoFrame \in Hands
        BY <1>u_data_q, <4>1, HandMoves
      <4> QED
        BY <1>t_hand, <4>1, <4>2
    <3> QED
      BY <3>1, <3>2
  <2>2. data_q' \in [Endpoints -> Seq({"DATA", "FIN"})]
    BY <1>s, <1>u_data_q, <1>11, <1>t_data_q DEF writer_take
  <2>3. life_q' \in [Endpoints -> Seq({"RESET", "STOP"})]
    BY <1>s, <1>u_life_q, <1>11, <1>t_life_q DEF writer_take
  <2>4. \A x \in Endpoints : Len(data_q'[x]) <= DataQ
    BY <1>11, <1>s, <1>t_data_q, <1>u_data_q, LifecycleAssumption DEF writer_take
  <2>5. UNCHANGED <<inbuf, peer_terminal, local_terminal, peer_stop, local_terminal_sent,
                    read_cancel, drop_data, dc_closed, retired_fired, closing, closer, read_end,
                    chan, written, read>>
    BY <1>11 DEF writer_take
  <2> QED
    BY <2>1, <2>2, <2>3, <2>4, <2>5, <1>t DEF Typed
<1>12. ASSUME writer_send(e) PROVE Typed'
  <2>1. chan' \in [Endpoints -> Seq(Frames)]
    BY <1>p, <1>s, <1>u_chan, <1>12, <1>t_chan DEF writer_send, unsent
  <2>2. hand' \in [Endpoints -> Hands]
    BY HandMoves, <1>u_life_q, <1>u_data_q, <1>12, <1>t_hand DEF writer_send, unsent
  <2>3. UNCHANGED <<inbuf, peer_terminal, local_terminal, peer_stop, local_terminal_sent,
                    read_cancel, drop_data, dc_closed, retired_fired, closing, closer, read_end,
                    data_q, life_q, written, read>>
    BY <1>12 DEF writer_send, unsent
  <2> QED
    BY <2>1, <2>2, <2>3, <1>t DEF Typed
<1>13. ASSUME writer_fail(e) PROVE Typed'
  <2>1. hand' \in [Endpoints -> Hands]
    BY HandMoves, <1>u_life_q, <1>u_data_q, <1>13, <1>t_hand DEF writer_fail, unsent
  <2>2. data_q' \in [Endpoints -> Seq({"DATA", "FIN"})]
    BY <1>s, <1>u_data_q, <1>13, <1>t_data_q DEF writer_fail, unsent
  <2>3. life_q' \in [Endpoints -> Seq({"RESET", "STOP"})]
    BY <1>s, <1>u_life_q, <1>13, <1>t_life_q DEF writer_fail, unsent
  <2>4. \A x \in Endpoints : Len(data_q'[x]) <= DataQ
    BY <1>13, <1>s, <1>t_data_q, <1>u_data_q, LifecycleAssumption DEF writer_fail, unsent
  <2>5. UNCHANGED <<inbuf, peer_terminal, local_terminal, peer_stop, local_terminal_sent,
                    read_cancel, drop_data, dc_closed, retired_fired, closing, closer, read_end,
                    chan, written, read>>
    BY <1>13 DEF writer_fail, unsent
  <2> QED
    BY <2>1, <2>2, <2>3, <2>4, <2>5, <1>t DEF Typed
<1>14. ASSUME writer_sent(e) PROVE Typed'
  <2>1. local_terminal_sent' \in [Endpoints -> BOOLEAN]
    BY <1>14, <1>t_local_terminal_sent DEF writer_sent, ends_write_half
  <2>2. hand' \in [Endpoints -> Hands]
    BY HandMoves, <1>u_life_q, <1>u_data_q, <1>14, <1>t_hand DEF writer_sent, ends_write_half
  <2>3. retired_fired' \in [Endpoints -> BOOLEAN]
            /\ closing' \in [Endpoints -> {"no", "asked", "sent"}]
    BY <1>14, <1>r, <1>t_retired_fired, <1>t_closing DEF writer_sent, ends_write_half
  <2>4. UNCHANGED <<inbuf, peer_terminal, local_terminal, peer_stop, read_cancel, drop_data,
                    dc_closed, closer, read_end, data_q, life_q, chan, written, read>>
    BY <1>14 DEF writer_sent, ends_write_half
  <2> QED
    BY <2>1, <2>2, <2>3, <2>4, <1>t DEF Typed
<1>15. ASSUME close_channel(e) PROVE Typed'
  <2>1. closing' \in [Endpoints -> {"no", "asked", "sent"}]
    BY <1>15, <1>t_closing DEF close_channel
  <2>2. chan' \in [Endpoints -> Seq(Frames)]
    BY <1>p, <1>s, <1>u_chan, <1>15, <1>t_chan DEF close_channel
  <2>3. UNCHANGED <<inbuf, peer_terminal, local_terminal, peer_stop, local_terminal_sent,
                    read_cancel, drop_data, dc_closed, retired_fired, closer, read_end, hand,
                    data_q, life_q, written, read>>
    BY <1>15 DEF close_channel
  <2> QED
    BY <2>1, <2>2, <2>3, <1>t DEF Typed
<1>16. ASSUME on_data(e) PROVE Typed'
  <2>1. chan' \in [Endpoints -> Seq(Frames)]
    <3>1. chan[peer(e)] # <<>>
      BY <1>16 DEF on_data, arrives
    <3>2. Tail(chan[peer(e)]) \in Seq(Frames)
      BY <1>p, <1>u_chan, <3>1
    <3>3. chan' = [chan EXCEPT ![peer(e)] = Tail(chan[peer(e)])]
      BY <1>16 DEF on_data, arrives
    <3> QED
      BY <1>p, <1>s, <1>t_chan, <1>u_chan, <3>2, <3>3
  <2>2. inbuf' \in [Endpoints -> Nat]
    <3>1. CASE read_cancel[e] \/ peer_terminal[e] # "none"
      <4>1. inbuf' = [inbuf EXCEPT ![e] = inbuf[e]]
        BY <1>16, <3>1, Zenon DEF on_data
      <4> QED
        BY <1>t_inbuf, <4>1
    <3>2. CASE ~(read_cancel[e] \/ peer_terminal[e] # "none")
      <4>1. inbuf' = [inbuf EXCEPT ![e] = inbuf[e] + 1]
        BY <1>16, <3>2, Zenon DEF on_data
      <4> QED
        BY <1>t_inbuf, <4>1
    <3> QED
      BY <3>1, <3>2
  <2>3. UNCHANGED <<peer_terminal, local_terminal, peer_stop, local_terminal_sent, read_cancel,
                    drop_data, dc_closed, retired_fired, closing, closer, read_end, hand, data_q,
                    life_q, written, read>>
    BY <1>16 DEF on_data, arrives
  <2> QED
    BY <2>1, <2>2, <2>3, <1>t DEF Typed
<1>17. ASSUME NEW f \in TerminalFrames, on_terminal(e, f) PROVE Typed'
  <2>1. chan' \in [Endpoints -> Seq(Frames)]
    <3>1. chan[peer(e)] # <<>>
      BY <1>17 DEF on_terminal, arrives
    <3>2. Tail(chan[peer(e)]) \in Seq(Frames)
      BY <1>p, <1>u_chan, <3>1
    <3>3. chan' = [chan EXCEPT ![peer(e)] = Tail(chan[peer(e)])]
      BY <1>17 DEF on_terminal, arrives
    <3> QED
      BY <1>p, <1>s, <1>t_chan, <1>u_chan, <3>2, <3>3
  <2>2. peer_terminal' \in [Endpoints -> {"none", "fin", "reset"}]
    BY <1>17, <1>t_peer_terminal DEF on_terminal, arrives
  <2>3. inbuf' \in [Endpoints -> Nat]
    BY <1>17, <1>t_inbuf DEF on_terminal, arrives
  <2>4. retired_fired' \in [Endpoints -> BOOLEAN]
            /\ closing' \in [Endpoints -> {"no", "asked", "sent"}]
    BY <1>17, <1>r, <1>t_retired_fired, <1>t_closing DEF on_terminal, arrives
  <2>5. UNCHANGED <<local_terminal, peer_stop, local_terminal_sent, read_cancel, drop_data,
                    dc_closed, closer, read_end, hand, data_q, life_q, written, read>>
    BY <1>17 DEF on_terminal, arrives
  <2> QED
    BY <2>1, <2>2, <2>3, <2>4, <2>5, <1>t DEF Typed
<1>18. ASSUME on_stop_sending(e) PROVE Typed'
  <2>1. chan' \in [Endpoints -> Seq(Frames)]
    <3>1. chan[peer(e)] # <<>>
      BY <1>18 DEF on_stop_sending, arrives, auto_reset
    <3>2. Tail(chan[peer(e)]) \in Seq(Frames)
      BY <1>p, <1>u_chan, <3>1
    <3>3. chan' = [chan EXCEPT ![peer(e)] = Tail(chan[peer(e)])]
      BY <1>18 DEF on_stop_sending, arrives, auto_reset
    <3> QED
      BY <1>p, <1>s, <1>t_chan, <1>u_chan, <3>2, <3>3
  <2>2. peer_stop' \in [Endpoints -> BOOLEAN]
    BY <1>18, <1>t_peer_stop DEF on_stop_sending, arrives, auto_reset
  <2>3. local_terminal' \in [Endpoints -> {"none", "fin", "reset"}]
    BY <1>18, <1>t_local_terminal DEF on_stop_sending, arrives, auto_reset
  <2>4. drop_data' \in [Endpoints -> BOOLEAN]
    BY <1>18, <1>t_drop_data DEF on_stop_sending, arrives, auto_reset
  <2>5. life_q' \in [Endpoints -> Seq({"RESET", "STOP"})]
    BY <1>s, <1>u_life_q, <1>18, <1>t_life_q DEF on_stop_sending, arrives, auto_reset
  <2>6. retired_fired' \in [Endpoints -> BOOLEAN]
            /\ closing' \in [Endpoints -> {"no", "asked", "sent"}]
    BY <1>18, <1>r, <1>t_retired_fired, <1>t_closing DEF on_stop_sending, arrives, auto_reset
  <2>7. UNCHANGED <<inbuf, peer_terminal, local_terminal_sent, read_cancel, dc_closed, closer,
                    read_end, hand, data_q, written, read>>
    BY <1>18 DEF on_stop_sending, arrives, auto_reset
  <2> QED
    BY <2>1, <2>2, <2>3, <2>4, <2>5, <2>6, <2>7, <1>t DEF Typed
<1>19. ASSUME on_channel_close(e) PROVE Typed'
  <2>1. dc_closed' \in [Endpoints -> BOOLEAN]
    BY <1>19, <1>t_dc_closed DEF on_channel_close, arrives
  <2>2. chan' \in [Endpoints -> Seq(Frames)]
    <3>1. chan[peer(e)] # <<>>
      BY <1>19 DEF on_channel_close, arrives
    <3>2. Tail(chan[peer(e)]) \in Seq(Frames)
      BY <1>p, <1>u_chan, <3>1
    <3>3. chan' = [[chan EXCEPT ![peer(e)] = Tail(chan[peer(e)])]
                     EXCEPT ![e] = IF closing[e] = "sent" THEN chan[e]
                         ELSE Append(chan[e], "CLOSE")]
      BY <1>19, <1>p, <1>t_chan DEF on_channel_close, arrives
    <3> QED
      BY <1>p, <1>s, <1>t_chan, <1>u_chan, <3>2, <3>3
  <2>3. retired_fired' \in [Endpoints -> BOOLEAN]
            /\ closing' \in [Endpoints -> {"no", "asked", "sent"}]
    BY <1>19, <1>r, <1>t_retired_fired, <1>t_closing DEF on_channel_close, arrives
  <2>4. UNCHANGED <<inbuf, peer_terminal, local_terminal, peer_stop, local_terminal_sent,
                    read_cancel, drop_data, closer, read_end, hand, data_q, life_q, written, read>>
    BY <1>19 DEF on_channel_close, arrives
  <2> QED
    BY <2>1, <2>2, <2>3, <2>4, <1>t DEF Typed
<1> QED
  BY <1>0, <1>1, <1>2, <1>3, <1>4, <1>5, <1>6, <1>7, <1>8, <1>9, <1>10, <1>11, <1>12, <1>13,
     <1>14, <1>15, <1>16, <1>17, <1>18, <1>19 DEF Application, WriterTask, Callback

-----------------------------------------------------------------------------
(* What each step does, endpoint by endpoint.                               *)
LEMMA At_poll_write ==
    ASSUME Typed, NEW e \in Endpoints, poll_write(e)
    PROVE  /\ closer[e] = "none" /\ local_terminal[e] = "none" /\ ~peer_stop[e]
           /\ ~dc_closed[e] /\ written[e] < MaxWrites
           /\ data_q'[e] = Append(data_q[e], "DATA")
           /\ written'[e] = written[e] + 1
           /\ \A x \in Endpoints : x # e =>
                data_q'[x] = data_q[x] /\ written'[x] = written[x]
           /\ UNCHANGED <<inbuf, peer_terminal, local_terminal, peer_stop, local_terminal_sent,
                         read_cancel, drop_data, dc_closed,
                         retired_fired, closing, closer, read_end, hand,
                         life_q, chan, read, fatal>>
<1> USE DEF state, reading, writing, retiring, queues, seen
<1>0. /\ data_q \in [Endpoints -> Seq({"DATA", "FIN"})]
      /\ written \in [Endpoints -> 0..MaxWrites]
  BY DEF Typed
<1>1. closer[e] = "none" /\ local_terminal[e] = "none" /\ ~peer_stop[e] /\ ~dc_closed[e]
          /\ written[e] < MaxWrites
  BY <1>0 DEF poll_write, room, idle
<1>2. data_q'[e] = Append(data_q[e], "DATA")
  BY <1>0 DEF poll_write, room, idle
<1>3. written'[e] = written[e] + 1
  BY <1>0 DEF poll_write, room, idle
<1>4. \A x \in Endpoints : x # e =>
                data_q'[x] = data_q[x] /\ written'[x] = written[x]
  BY <1>0 DEF poll_write, room, idle
<1>5. UNCHANGED <<inbuf, peer_terminal, local_terminal, peer_stop, local_terminal_sent,
                         read_cancel, drop_data, dc_closed,
                         retired_fired, closing, closer, read_end, hand,
                         life_q, chan, read, fatal>>
  BY <1>0 DEF poll_write, room, idle
<1> QED
  BY <1>1, <1>2, <1>3, <1>4, <1>5

(* close_write claims the write half.                                       *)
LEMMA At_close_write ==
    ASSUME Typed, NEW e \in Endpoints, close_write(e)
    PROVE  /\ closer[e] = "none" /\ local_terminal[e] = "none"
           /\ local_terminal'[e] = "fin"
           /\ closer'[e] = "send"
           /\ \A x \in Endpoints : x # e =>
                /\ local_terminal'[x] = local_terminal[x]
                /\ closer'[x] = closer[x]
           /\ UNCHANGED <<inbuf, peer_terminal, peer_stop, local_terminal_sent, read_cancel,
                         drop_data, dc_closed, retired_fired, closing,
                         read_end, hand, data_q, life_q, chan, written,
                         read, fatal>>
<1> USE DEF state, reading, writing, retiring, queues, seen
<1>0. /\ local_terminal \in [Endpoints -> {"none", "fin", "reset"}]
      /\ closer \in [Endpoints -> {"none", "send", "shutdown"}]
  BY DEF Typed
<1>1. closer[e] = "none" /\ local_terminal[e] = "none"
  BY <1>0 DEF close_write, idle
<1>2. local_terminal'[e] = "fin"
  BY <1>0 DEF close_write, idle
<1>3. closer'[e] = "send"
  BY <1>0 DEF close_write, idle
<1>4. \A x \in Endpoints : x # e =>
                /\ local_terminal'[x] = local_terminal[x]
                /\ closer'[x] = closer[x]
  BY <1>0 DEF close_write, idle
<1>5. UNCHANGED <<inbuf, peer_terminal, peer_stop, local_terminal_sent, read_cancel,
                         drop_data, dc_closed, retired_fired, closing,
                         read_end, hand, data_q, life_q, chan, written,
                         read, fatal>>
  BY <1>0 DEF close_write, idle
<1> QED
  BY <1>1, <1>2, <1>3, <1>4, <1>5

(* queue_fin puts FIN behind the DATA.                                      *)
LEMMA At_queue_fin ==
    ASSUME Typed, NEW e \in Endpoints, queue_fin(e)
    PROVE  /\ closer[e] = "send"
           /\ data_q'[e] = Append(data_q[e], "FIN")
           /\ closer'[e] = "none"
           /\ maybe_retire(e)
           /\ \A x \in Endpoints : x # e =>
                data_q'[x] = data_q[x] /\ closer'[x] = closer[x]
           /\ UNCHANGED <<inbuf, peer_terminal, local_terminal, peer_stop, local_terminal_sent,
                         read_cancel, drop_data, dc_closed, read_end,
                         hand, life_q, chan, written, read, fatal>>
<1> USE DEF state, reading, writing, retiring, queues, seen
<1>0. /\ data_q \in [Endpoints -> Seq({"DATA", "FIN"})]
      /\ closer \in [Endpoints -> {"none", "send", "shutdown"}]
  BY DEF Typed
<1>1. closer[e] = "send"
  BY <1>0 DEF queue_fin, room, fin_behind, idle
<1>2. data_q'[e] = Append(data_q[e], "FIN")
  BY <1>0 DEF queue_fin, room, fin_behind, idle
<1>3. closer'[e] = "none"
  BY <1>0 DEF queue_fin, room, fin_behind, idle
<1>4. maybe_retire(e)
  BY <1>0 DEF queue_fin, room, fin_behind, idle
<1>5. \A x \in Endpoints : x # e =>
                data_q'[x] = data_q[x] /\ closer'[x] = closer[x]
  BY <1>0 DEF queue_fin, room, fin_behind, idle
<1>6. UNCHANGED <<inbuf, peer_terminal, local_terminal, peer_stop, local_terminal_sent,
                         read_cancel, drop_data, dc_closed, read_end,
                         hand, life_q, chan, written, read, fatal>>
  BY <1>0 DEF queue_fin, room, fin_behind, idle
<1> QED
  BY <1>1, <1>2, <1>3, <1>4, <1>5, <1>6

(* abandon_close forgets the close that waits.                              *)
LEMMA At_abandon_close ==
    ASSUME Typed, NEW e \in Endpoints, abandon_close(e)
    PROVE  /\ e \in Abandoners /\ closer[e] = "send"
           /\ closer'[e] = "none"
           /\ \A x \in Endpoints : x # e =>
                closer'[x] = closer[x]
           /\ UNCHANGED <<inbuf, peer_terminal, local_terminal, peer_stop, local_terminal_sent,
                         read_cancel, drop_data, dc_closed,
                         retired_fired, closing, read_end, hand, data_q,
                         life_q, chan, written, read, fatal>>
<1> USE DEF state, reading, writing, retiring, queues, seen
<1>0. closer \in [Endpoints -> {"none", "send", "shutdown"}]
  BY DEF Typed
<1>1. e \in Abandoners /\ closer[e] = "send"
  BY <1>0 DEF abandon_close, idle
<1>2. closer'[e] = "none"
  BY <1>0 DEF abandon_close, idle
<1>3. \A x \in Endpoints : x # e =>
                closer'[x] = closer[x]
  BY <1>0 DEF abandon_close, idle
<1>4. UNCHANGED <<inbuf, peer_terminal, local_terminal, peer_stop, local_terminal_sent,
                         read_cancel, drop_data, dc_closed,
                         retired_fired, closing, read_end, hand, data_q,
                         life_q, chan, written, read, fatal>>
  BY <1>0 DEF abandon_close, idle
<1> QED
  BY <1>1, <1>2, <1>3, <1>4

(* poll_shutdown claims the write half.                                     *)
LEMMA At_poll_shutdown ==
    ASSUME Typed, NEW e \in Endpoints, poll_shutdown(e)
    PROVE  /\ closer[e] = "none" /\ local_terminal[e] = "none"
           /\ local_terminal'[e] = "fin"
           /\ closer'[e] = "shutdown"
           /\ \A x \in Endpoints : x # e =>
                /\ local_terminal'[x] = local_terminal[x]
                /\ closer'[x] = closer[x]
           /\ UNCHANGED <<inbuf, peer_terminal, peer_stop, local_terminal_sent, read_cancel,
                         drop_data, dc_closed, retired_fired, closing,
                         read_end, hand, data_q, life_q, chan, written,
                         read, fatal>>
<1> USE DEF state, reading, writing, retiring, queues, seen
<1>0. /\ local_terminal \in [Endpoints -> {"none", "fin", "reset"}]
      /\ closer \in [Endpoints -> {"none", "send", "shutdown"}]
  BY DEF Typed
<1>1. closer[e] = "none" /\ local_terminal[e] = "none"
  BY <1>0 DEF poll_shutdown, idle
<1>2. local_terminal'[e] = "fin"
  BY <1>0 DEF poll_shutdown, idle
<1>3. closer'[e] = "shutdown"
  BY <1>0 DEF poll_shutdown, idle
<1>4. \A x \in Endpoints : x # e =>
                /\ local_terminal'[x] = local_terminal[x]
                /\ closer'[x] = closer[x]
  BY <1>0 DEF poll_shutdown, idle
<1>5. UNCHANGED <<inbuf, peer_terminal, peer_stop, local_terminal_sent, read_cancel,
                         drop_data, dc_closed, retired_fired, closing,
                         read_end, hand, data_q, life_q, chan, written,
                         read, fatal>>
  BY <1>0 DEF poll_shutdown, idle
<1> QED
  BY <1>1, <1>2, <1>3, <1>4, <1>5

(* The rest of poll_shutdown queues FIN or undoes the claim.                *)
LEMMA At_poll_shutdown_reserve ==
    ASSUME Typed, NEW e \in Endpoints, poll_shutdown_reserve(e)
    PROVE  /\ closer[e] = "shutdown"
           /\ closer'[e] = "none"
           /\ \/ /\ data_q'[e] = Append(data_q[e], "FIN") /\ local_terminal' = local_terminal
                 /\ maybe_retire(e)
              \/ /\ data_q' = data_q /\ local_terminal'[e] = "none"
                 /\ UNCHANGED <<retired_fired, closing>>
           /\ \A x \in Endpoints : x # e =>
                /\ closer'[x] = closer[x]
                /\ data_q'[x] = data_q[x]
                /\ local_terminal'[x] = local_terminal[x]
           /\ UNCHANGED <<inbuf, peer_terminal, peer_stop, local_terminal_sent, read_cancel,
                         drop_data, dc_closed, read_end, hand, life_q,
                         chan, written, read, fatal>>
<1> USE DEF state, reading, writing, retiring, queues, seen
<1>0. /\ closer \in [Endpoints -> {"none", "send", "shutdown"}]
      /\ data_q \in [Endpoints -> Seq({"DATA", "FIN"})]
      /\ local_terminal \in [Endpoints -> {"none", "fin", "reset"}]
  BY DEF Typed
<1>1. closer[e] = "shutdown"
  BY <1>0 DEF poll_shutdown_reserve, room, fin_behind, idle
<1>2. closer'[e] = "none"
  BY <1>0 DEF poll_shutdown_reserve, room, fin_behind, idle
<1>3. \/ /\ data_q'[e] = Append(data_q[e], "FIN") /\ local_terminal' = local_terminal
         /\ maybe_retire(e)
      \/ /\ data_q' = data_q /\ local_terminal'[e] = "none"
         /\ UNCHANGED <<retired_fired, closing>>
  BY <1>0 DEF poll_shutdown_reserve, room, fin_behind, idle
<1>4. \A x \in Endpoints : x # e =>
                /\ closer'[x] = closer[x]
                /\ data_q'[x] = data_q[x]
                /\ local_terminal'[x] = local_terminal[x]
  BY <1>0 DEF poll_shutdown_reserve, room, fin_behind, idle
<1>5. UNCHANGED <<inbuf, peer_terminal, peer_stop, local_terminal_sent, read_cancel,
                         drop_data, dc_closed, read_end, hand, life_q,
                         chan, written, read, fatal>>
  BY <1>0 DEF poll_shutdown_reserve, room, fin_behind, idle
<1> QED
  BY <1>1, <1>2, <1>3, <1>4, <1>5

(* reset_write queues RESET.                                                *)
LEMMA At_reset_write ==
    ASSUME Typed, NEW e \in Endpoints, reset_write(e)
    PROVE  /\ e \in Resetters /\ closer[e] = "none" /\ local_terminal[e] = "none"
           /\ local_terminal'[e] = "reset"
           /\ drop_data'[e]
           /\ life_q'[e] = Append(life_q[e], "RESET")
           /\ maybe_retire(e)
           /\ \A x \in Endpoints : x # e =>
                /\ local_terminal'[x] = local_terminal[x]
                /\ drop_data'[x] = drop_data[x]
                /\ life_q'[x] = life_q[x]
           /\ UNCHANGED <<inbuf, peer_terminal, peer_stop, local_terminal_sent, read_cancel,
                         dc_closed, closer, read_end, hand, data_q,
                         chan, written, read, fatal>>
<1> USE DEF state, reading, writing, retiring, queues, seen
<1>0. /\ local_terminal \in [Endpoints -> {"none", "fin", "reset"}]
      /\ drop_data \in [Endpoints -> BOOLEAN]
      /\ life_q \in [Endpoints -> Seq({"RESET", "STOP"})]
  BY DEF Typed
<1>1. e \in Resetters /\ closer[e] = "none" /\ local_terminal[e] = "none"
  BY <1>0 DEF reset_write, idle
<1>2. local_terminal'[e] = "reset"
  BY <1>0 DEF reset_write, idle
<1>3. drop_data'[e]
  BY <1>0 DEF reset_write, idle
<1>4. life_q'[e] = Append(life_q[e], "RESET")
  BY <1>0 DEF reset_write, idle
<1>5. maybe_retire(e)
  BY <1>0 DEF reset_write, idle
<1>6. \A x \in Endpoints : x # e =>
                /\ local_terminal'[x] = local_terminal[x]
                /\ drop_data'[x] = drop_data[x]
                /\ life_q'[x] = life_q[x]
  BY <1>0 DEF reset_write, idle
<1>7. UNCHANGED <<inbuf, peer_terminal, peer_stop, local_terminal_sent, read_cancel,
                         dc_closed, closer, read_end, hand, data_q,
                         chan, written, read, fatal>>
  BY <1>0 DEF reset_write, idle
<1> QED
  BY <1>1, <1>2, <1>3, <1>4, <1>5, <1>6, <1>7

(* poll_read takes from the buffer.                                         *)
LEMMA At_poll_read ==
    ASSUME Typed, NEW e \in Endpoints, poll_read(e)
    PROVE  /\ inbuf[e] > 0
           /\ inbuf'[e] = inbuf[e] - 1
           /\ read'[e] = read[e] + 1
           /\ maybe_retire(e)
           /\ \A x \in Endpoints : x # e =>
                inbuf'[x] = inbuf[x] /\ read'[x] = read[x]
           /\ UNCHANGED <<peer_terminal, local_terminal, peer_stop, local_terminal_sent,
                         read_cancel, drop_data, dc_closed, closer,
                         read_end, hand, data_q, life_q, chan, written,
                         fatal>>
<1> USE DEF state, reading, writing, retiring, queues, seen
<1>0. inbuf \in [Endpoints -> Nat] /\ read \in [Endpoints -> Nat]
  BY DEF Typed
<1>1. inbuf[e] > 0
  BY <1>0 DEF poll_read, idle
<1>2. inbuf'[e] = inbuf[e] - 1
  BY <1>0 DEF poll_read, idle
<1>3. read'[e] = read[e] + 1
  BY <1>0 DEF poll_read, idle
<1>4. maybe_retire(e)
  BY <1>0 DEF poll_read, idle
<1>5. \A x \in Endpoints : x # e =>
                inbuf'[x] = inbuf[x] /\ read'[x] = read[x]
  BY <1>0 DEF poll_read, idle
<1>6. UNCHANGED <<peer_terminal, local_terminal, peer_stop, local_terminal_sent,
                         read_cancel, drop_data, dc_closed, closer,
                         read_end, hand, data_q, life_q, chan, written,
                         fatal>>
  BY <1>0 DEF poll_read, idle
<1> QED
  BY <1>1, <1>2, <1>3, <1>4, <1>5, <1>6

(* poll_read reports the end.                                               *)
LEMMA At_poll_read_end ==
    ASSUME Typed, NEW e \in Endpoints, poll_read_end(e)
    PROVE  /\ read_end[e] = "open" /\ inbuf[e] = 0 /\ ~read_cancel[e] /\ peer_terminal[e] # "none"
           /\ read_end'[e] = IF peer_terminal[e] = "fin" THEN "eof" ELSE "error"
           /\ \A x \in Endpoints : x # e =>
                read_end'[x] = read_end[x]
           /\ UNCHANGED <<inbuf, peer_terminal, local_terminal, peer_stop, local_terminal_sent,
                         read_cancel, drop_data, dc_closed,
                         retired_fired, closing, closer, hand, data_q,
                         life_q, chan, written, read, fatal>>
<1> USE DEF state, reading, writing, retiring, queues, seen
<1>0. read_end \in [Endpoints -> {"open", "eof", "error"}]
  BY DEF Typed
<1>1. read_end[e] = "open" /\ inbuf[e] = 0 /\ ~read_cancel[e] /\ peer_terminal[e] # "none"
  BY <1>0 DEF poll_read_end, idle, at_eof
<1>2. read_end'[e] = IF peer_terminal[e] = "fin" THEN "eof" ELSE "error"
  BY <1>0 DEF poll_read_end, idle, at_eof
<1>3. \A x \in Endpoints : x # e =>
                read_end'[x] = read_end[x]
  BY <1>0 DEF poll_read_end, idle, at_eof
<1>4. UNCHANGED <<inbuf, peer_terminal, local_terminal, peer_stop, local_terminal_sent,
                         read_cancel, drop_data, dc_closed,
                         retired_fired, closing, closer, hand, data_q,
                         life_q, chan, written, read, fatal>>
  BY <1>0 DEF poll_read_end, idle, at_eof
<1> QED
  BY <1>1, <1>2, <1>3, <1>4

(* cancel_read empties the buffer, and queues STOP before the peer's end.   *)
LEMMA At_cancel_read ==
    ASSUME Typed, NEW e \in Endpoints, cancel_read(e)
    PROVE  /\ e \in Cancellers /\ ~read_cancel[e]
           /\ read_cancel'[e]
           /\ inbuf'[e] = 0
           /\ life_q'[e] = IF peer_terminal[e] = "none" THEN Append(life_q[e], "STOP")
                  ELSE life_q[e]
           /\ maybe_retire(e)
           /\ \A x \in Endpoints : x # e =>
                /\ read_cancel'[x] = read_cancel[x]
                /\ inbuf'[x] = inbuf[x]
                /\ life_q'[x] = life_q[x]
           /\ UNCHANGED <<peer_terminal, local_terminal, peer_stop, local_terminal_sent,
                         drop_data, dc_closed, closer, read_end, hand,
                         data_q, chan, written, read, fatal>>
<1> USE DEF state, reading, writing, retiring, queues, seen
<1>0. /\ read_cancel \in [Endpoints -> BOOLEAN]
      /\ inbuf \in [Endpoints -> Nat]
      /\ life_q \in [Endpoints -> Seq({"RESET", "STOP"})]
  BY DEF Typed
<1>1. e \in Cancellers /\ ~read_cancel[e]
  BY <1>0 DEF cancel_read, idle
<1>2. read_cancel'[e]
  BY <1>0 DEF cancel_read, idle
<1>3. inbuf'[e] = 0
  BY <1>0 DEF cancel_read, idle
<1>4. life_q'[e] = IF peer_terminal[e] = "none" THEN Append(life_q[e], "STOP") ELSE life_q[e]
  BY <1>0 DEF cancel_read, idle
<1>5. maybe_retire(e)
  BY <1>0 DEF cancel_read, idle
<1>6. \A x \in Endpoints : x # e =>
                /\ read_cancel'[x] = read_cancel[x]
                /\ inbuf'[x] = inbuf[x]
                /\ life_q'[x] = life_q[x]
  BY <1>0 DEF cancel_read, idle
<1>7. UNCHANGED <<peer_terminal, local_terminal, peer_stop, local_terminal_sent,
                         drop_data, dc_closed, closer, read_end, hand,
                         data_q, chan, written, read, fatal>>
  BY <1>0 DEF cancel_read, idle
<1> QED
  BY <1>1, <1>2, <1>3, <1>4, <1>5, <1>6, <1>7

(* The writer task takes a lifecycle frame, a data frame, or drops one.     *)
LEMMA At_writer_take ==
    ASSUME Typed, NEW e \in Endpoints, writer_take(e)
    PROVE  /\ hand[e] = NoFrame
           /\ \/ /\ life_q[e] # <<>> /\ hand'[e].frame = Head(life_q[e]) /\ ~hand'[e].sent
                 /\ life_q'[e] = Tail(life_q[e]) /\ data_q' = data_q
              \/ /\ data_q[e] # <<>> /\ ~(drop_data[e] /\ Head(data_q[e]) = "DATA")
                 /\ hand'[e].frame = Head(data_q[e]) /\ ~hand'[e].sent
                 /\ data_q'[e] = Tail(data_q[e]) /\ life_q' = life_q
              \/ /\ data_q[e] # <<>> /\ drop_data[e] /\ Head(data_q[e]) = "DATA"
                 /\ hand'[e] = NoFrame
                 /\ data_q'[e] = Tail(data_q[e]) /\ life_q' = life_q
           /\ \A x \in Endpoints : x # e =>
                /\ hand'[x] = hand[x]
                /\ data_q'[x] = data_q[x]
                /\ life_q'[x] = life_q[x]
           /\ UNCHANGED <<inbuf, peer_terminal, local_terminal, peer_stop, local_terminal_sent,
                         read_cancel, drop_data, dc_closed,
                         retired_fired, closing, closer, read_end, chan,
                         written, read, fatal>>
<1> USE DEF state, reading, writing, retiring, queues, seen
<1>0. /\ hand \in [Endpoints -> Hands]
      /\ data_q \in [Endpoints -> Seq({"DATA", "FIN"})]
      /\ life_q \in [Endpoints -> Seq({"RESET", "STOP"})]
  BY DEF Typed
<1>1. hand[e] = NoFrame
  BY <1>0, HandFields DEF writer_take, idle, dropping
<1>2. \/ /\ life_q[e] # <<>> /\ hand'[e].frame = Head(life_q[e]) /\ ~hand'[e].sent
         /\ life_q'[e] = Tail(life_q[e]) /\ data_q' = data_q
      \/ /\ data_q[e] # <<>> /\ ~(drop_data[e] /\ Head(data_q[e]) = "DATA")
         /\ hand'[e].frame = Head(data_q[e]) /\ ~hand'[e].sent
         /\ data_q'[e] = Tail(data_q[e]) /\ life_q' = life_q
      \/ /\ data_q[e] # <<>> /\ drop_data[e] /\ Head(data_q[e]) = "DATA"
         /\ hand'[e] = NoFrame
         /\ data_q'[e] = Tail(data_q[e]) /\ life_q' = life_q
  BY <1>0, HandFields DEF writer_take, idle, dropping
<1>3. \A x \in Endpoints : x # e =>
                /\ hand'[x] = hand[x]
                /\ data_q'[x] = data_q[x]
                /\ life_q'[x] = life_q[x]
  BY <1>0, HandFields DEF writer_take, idle, dropping
<1>4. UNCHANGED <<inbuf, peer_terminal, local_terminal, peer_stop, local_terminal_sent,
                         read_cancel, drop_data, dc_closed,
                         retired_fired, closing, closer, read_end, chan,
                         written, read, fatal>>
  BY <1>0 DEF writer_take, idle, dropping
<1> QED
  BY <1>1, <1>2, <1>3, <1>4

(* The writer task gives its frame to the channel.                          *)
LEMMA At_writer_send ==
    ASSUME Typed, NEW e \in Endpoints, writer_send(e)
    PROVE  /\ hand[e].frame \in Frames \ {"CLOSE"} /\ ~hand[e].sent /\ ~dc_closed[e]
           /\ closing[e] # "sent"
           /\ chan'[e] = Append(chan[e], hand[e].frame)
           /\ hand'[e].frame = hand[e].frame
           /\ hand'[e].sent
           /\ \A x \in Endpoints : x # e =>
                hand'[x] = hand[x]
           /\ chan'[peer(e)] = chan[peer(e)]
           /\ UNCHANGED <<inbuf, peer_terminal, local_terminal, peer_stop, local_terminal_sent,
                         read_cancel, drop_data, dc_closed,
                         retired_fired, closing, closer, read_end,
                         data_q, life_q, written, read, fatal>>
<1> USE DEF state, reading, writing, retiring, queues, seen
<1>0. chan \in [Endpoints -> Seq(Frames)] /\ hand \in [Endpoints -> Hands]
  BY DEF Typed
<1>p. peer(e) \in Endpoints /\ peer(e) # e
  BY Peers
<1>1. hand[e].frame \in Frames \ {"CLOSE"} /\ ~hand[e].sent /\ ~dc_closed[e]
          /\ closing[e] # "sent"
  BY <1>0, <1>p, HandFields DEF writer_send, unsent, idle
<1>2. chan'[e] = Append(chan[e], hand[e].frame)
  BY <1>0, <1>p, HandFields DEF writer_send, unsent, idle
<1>3. hand'[e].frame = hand[e].frame
  BY <1>0, <1>p, HandFields DEF writer_send, unsent, idle
<1>4. hand'[e].sent
  BY <1>0, <1>p, HandFields DEF writer_send, unsent, idle
<1>5. \A x \in Endpoints : x # e =>
                hand'[x] = hand[x]
  BY <1>0, <1>p, HandFields DEF writer_send, unsent, idle
<1>6. chan'[peer(e)] = chan[peer(e)]
  BY <1>0, <1>p DEF writer_send, unsent, idle
<1>7. UNCHANGED <<inbuf, peer_terminal, local_terminal, peer_stop, local_terminal_sent,
                         read_cancel, drop_data, dc_closed,
                         retired_fired, closing, closer, read_end,
                         data_q, life_q, written, read, fatal>>
  BY <1>0, <1>p DEF writer_send, unsent, idle
<1> QED
  BY <1>1, <1>2, <1>3, <1>4, <1>5, <1>6, <1>7

(* The writer task ends on a channel that is closed or closing.             *)
LEMMA At_writer_fail ==
    ASSUME Typed, NEW e \in Endpoints, writer_fail(e)
    PROVE  /\ ~hand[e].sent /\ (dc_closed[e] \/ closing[e] = "sent")
           /\ hand'[e] = Ended
           /\ data_q'[e] = <<>>
           /\ life_q'[e] = <<>>
           /\ \A x \in Endpoints : x # e =>
                /\ hand'[x] = hand[x]
                /\ data_q'[x] = data_q[x]
                /\ life_q'[x] = life_q[x]
           /\ UNCHANGED <<inbuf, peer_terminal, local_terminal, peer_stop, local_terminal_sent,
                         read_cancel, drop_data, dc_closed,
                         retired_fired, closing, closer, read_end, chan,
                         written, read, fatal>>
<1> USE DEF state, reading, writing, retiring, queues, seen
<1>0. /\ hand \in [Endpoints -> Hands]
      /\ data_q \in [Endpoints -> Seq({"DATA", "FIN"})]
      /\ life_q \in [Endpoints -> Seq({"RESET", "STOP"})]
  BY DEF Typed
<1>1. ~hand[e].sent /\ (dc_closed[e] \/ closing[e] = "sent")
  BY <1>0, HandFields DEF writer_fail, unsent, idle
<1>2. hand'[e] = Ended
  BY <1>0, HandFields DEF writer_fail, unsent, idle
<1>3. data_q'[e] = <<>>
  BY <1>0 DEF writer_fail, unsent, idle
<1>4. life_q'[e] = <<>>
  BY <1>0 DEF writer_fail, unsent, idle
<1>5. \A x \in Endpoints : x # e =>
                /\ hand'[x] = hand[x]
                /\ data_q'[x] = data_q[x]
                /\ life_q'[x] = life_q[x]
  BY <1>0, HandFields DEF writer_fail, unsent, idle
<1>6. UNCHANGED <<inbuf, peer_terminal, local_terminal, peer_stop, local_terminal_sent,
                         read_cancel, drop_data, dc_closed,
                         retired_fired, closing, closer, read_end, chan,
                         written, read, fatal>>
  BY <1>0 DEF writer_fail, unsent, idle
<1> QED
  BY <1>1, <1>2, <1>3, <1>4, <1>5, <1>6

(* The writer task records its frame as sent.                               *)
LEMMA At_writer_sent ==
    ASSUME Typed, NEW e \in Endpoints, writer_sent(e)
    PROVE  /\ hand[e].sent
           /\ local_terminal_sent'[e] <=> local_terminal_sent[e] \/ InHand(e)
           /\ hand'[e] = NoFrame
           /\ (maybe_retire(e) \/ UNCHANGED <<retired_fired, closing>>)
           /\ \A x \in Endpoints : x # e =>
                /\ local_terminal_sent'[x] = local_terminal_sent[x]
                /\ hand'[x] = hand[x]
           /\ UNCHANGED <<inbuf, peer_terminal, local_terminal, peer_stop, read_cancel, drop_data,
                         dc_closed, closer, read_end, data_q, life_q,
                         chan, written, read, fatal>>
<1> USE DEF state, reading, writing, retiring, queues, seen
<1>0. local_terminal_sent \in [Endpoints -> BOOLEAN] /\ hand \in [Endpoints -> Hands]
  BY DEF Typed
<1>1. hand[e].sent
  BY <1>0, HandFields DEF writer_sent, ends_write_half, idle, InHand
<1>2. local_terminal_sent'[e] <=> local_terminal_sent[e] \/ InHand(e)
  BY <1>0 DEF writer_sent, ends_write_half, idle, InHand
<1>3. hand'[e] = NoFrame
  BY <1>0, HandFields DEF writer_sent, ends_write_half, idle, InHand
<1>4. (maybe_retire(e) \/ UNCHANGED <<retired_fired, closing>>)
  BY <1>0 DEF writer_sent, ends_write_half, idle, InHand
<1>5. \A x \in Endpoints : x # e =>
                /\ local_terminal_sent'[x] = local_terminal_sent[x]
                /\ hand'[x] = hand[x]
  BY <1>0, HandFields DEF writer_sent, ends_write_half, idle, InHand
<1>6. UNCHANGED <<inbuf, peer_terminal, local_terminal, peer_stop, read_cancel, drop_data,
                         dc_closed, closer, read_end, data_q, life_q,
                         chan, written, read, fatal>>
  BY <1>0 DEF writer_sent, ends_write_half, idle, InHand
<1> QED
  BY <1>1, <1>2, <1>3, <1>4, <1>5, <1>6

(* The channel is asked to close.                                           *)
LEMMA At_close_channel ==
    ASSUME Typed, NEW e \in Endpoints, close_channel(e)
    PROVE  /\ closing[e] = "asked" /\ ~dc_closed[e]
           /\ closing'[e] = "sent"
           /\ chan'[e] = Append(chan[e], "CLOSE")
           /\ \A x \in Endpoints : x # e =>
                closing'[x] = closing[x]
           /\ chan'[peer(e)] = chan[peer(e)]
           /\ UNCHANGED <<inbuf, peer_terminal, local_terminal, peer_stop, local_terminal_sent,
                         read_cancel, drop_data, dc_closed,
                         retired_fired, closer, read_end, hand, data_q,
                         life_q, written, read, fatal>>
<1> USE DEF state, reading, writing, retiring, queues, seen
<1>0. /\ closing \in [Endpoints -> {"no", "asked", "sent"}]
      /\ chan \in [Endpoints -> Seq(Frames)]
  BY DEF Typed
<1>p. peer(e) \in Endpoints /\ peer(e) # e
  BY Peers
<1>1. closing[e] = "asked" /\ ~dc_closed[e]
  BY <1>0, <1>p DEF close_channel, idle
<1>2. closing'[e] = "sent"
  BY <1>0, <1>p DEF close_channel, idle
<1>3. chan'[e] = Append(chan[e], "CLOSE")
  BY <1>0, <1>p DEF close_channel, idle
<1>4. \A x \in Endpoints : x # e =>
                closing'[x] = closing[x]
  BY <1>0, <1>p DEF close_channel, idle
<1>5. chan'[peer(e)] = chan[peer(e)]
  BY <1>0, <1>p DEF close_channel, idle
<1>6. UNCHANGED <<inbuf, peer_terminal, local_terminal, peer_stop, local_terminal_sent,
                         read_cancel, drop_data, dc_closed,
                         retired_fired, closer, read_end, hand, data_q,
                         life_q, written, read, fatal>>
  BY <1>0, <1>p DEF close_channel, idle
<1> QED
  BY <1>1, <1>2, <1>3, <1>4, <1>5, <1>6

(* DATA arrives.                                                            *)
LEMMA At_on_data ==
    ASSUME Typed, NEW e \in Endpoints, on_data(e)
    PROVE  /\ chan[peer(e)] # <<>> /\ Head(chan[peer(e)]) = "DATA"
           /\ chan'[peer(e)] = Tail(chan[peer(e)])
           /\ fatal' = IF peer_terminal[e] # "none" THEN "DATA after terminal frame" ELSE fatal
           /\ inbuf'[e] = IF read_cancel[e] \/ peer_terminal[e] # "none" THEN inbuf[e]
                  ELSE inbuf[e] + 1
           /\ \A x \in Endpoints : x # e =>
                inbuf'[x] = inbuf[x]
           /\ chan'[e] = chan[e]
           /\ UNCHANGED <<peer_terminal, local_terminal, peer_stop, local_terminal_sent,
                         read_cancel, drop_data, dc_closed,
                         retired_fired, closing, closer, read_end, hand,
                         data_q, life_q, written, read>>
<1> USE DEF state, reading, writing, retiring, queues, seen
<1>0. chan \in [Endpoints -> Seq(Frames)] /\ inbuf \in [Endpoints -> Nat]
  BY DEF Typed
<1>p. peer(e) \in Endpoints /\ peer(e) # e
  BY Peers
<1>1. chan[peer(e)] # <<>> /\ Head(chan[peer(e)]) = "DATA"
  BY <1>0, <1>p DEF on_data, arrives, idle
<1>2. chan'[peer(e)] = Tail(chan[peer(e)])
  BY <1>0, <1>p DEF on_data, arrives, idle
<1>3. fatal' = IF peer_terminal[e] # "none" THEN "DATA after terminal frame" ELSE fatal
  BY <1>0, <1>p DEF on_data, arrives, idle
<1>4. inbuf'[e] = IF read_cancel[e] \/ peer_terminal[e] # "none" THEN inbuf[e] ELSE inbuf[e] + 1
  BY <1>0, <1>p DEF on_data, arrives, idle
<1>5. \A x \in Endpoints : x # e =>
                inbuf'[x] = inbuf[x]
  BY <1>0, <1>p DEF on_data, arrives, idle
<1>6. chan'[e] = chan[e]
  BY <1>0, <1>p DEF on_data, arrives, idle
<1>7. UNCHANGED <<peer_terminal, local_terminal, peer_stop, local_terminal_sent,
                         read_cancel, drop_data, dc_closed,
                         retired_fired, closing, closer, read_end, hand,
                         data_q, life_q, written, read>>
  BY <1>0, <1>p DEF on_data, arrives, idle
<1> QED
  BY <1>1, <1>2, <1>3, <1>4, <1>5, <1>6, <1>7

(* FIN or RESET arrives.                                                    *)
LEMMA At_on_terminal ==
    ASSUME Typed, NEW e \in Endpoints, NEW f \in TerminalFrames, on_terminal(e, f)
    PROVE  /\ chan[peer(e)] # <<>> /\ Head(chan[peer(e)]) = f
           /\ chan'[peer(e)] = Tail(chan[peer(e)])
           /\ fatal' = IF peer_terminal[e] # "none" THEN "second terminal frame" ELSE fatal
           /\ peer_terminal'[e] = IF peer_terminal[e] # "none" THEN peer_terminal[e]
                                  ELSE IF f = "FIN" THEN "fin" ELSE "reset"
           /\ inbuf'[e] = IF f = "FIN" \/ peer_terminal[e] # "none" THEN inbuf[e] ELSE 0
           /\ maybe_retire(e)
           /\ \A x \in Endpoints : x # e =>
                /\ peer_terminal'[x] = peer_terminal[x]
                /\ inbuf'[x] = inbuf[x]
           /\ chan'[e] = chan[e]
           /\ UNCHANGED <<local_terminal, peer_stop, local_terminal_sent, read_cancel, drop_data,
                         dc_closed, closer, read_end, hand, data_q,
                         life_q, written, read>>
<1> USE DEF state, reading, writing, retiring, queues, seen
<1>0. /\ chan \in [Endpoints -> Seq(Frames)]
      /\ peer_terminal \in [Endpoints -> {"none", "fin", "reset"}]
      /\ inbuf \in [Endpoints -> Nat]
  BY DEF Typed
<1>p. peer(e) \in Endpoints /\ peer(e) # e
  BY Peers
<1>1. chan[peer(e)] # <<>> /\ Head(chan[peer(e)]) = f
  BY <1>0, <1>p DEF on_terminal, arrives, idle
<1>2. chan'[peer(e)] = Tail(chan[peer(e)])
  BY <1>0, <1>p DEF on_terminal, arrives, idle
<1>3. fatal' = IF peer_terminal[e] # "none" THEN "second terminal frame" ELSE fatal
  BY <1>0, <1>p DEF on_terminal, arrives, idle
<1>4. peer_terminal'[e] = IF peer_terminal[e] # "none" THEN peer_terminal[e]
                                  ELSE IF f = "FIN" THEN "fin" ELSE "reset"
  BY <1>0, <1>p DEF on_terminal, arrives, idle
<1>5. inbuf'[e] = IF f = "FIN" \/ peer_terminal[e] # "none" THEN inbuf[e] ELSE 0
  BY <1>0, <1>p DEF on_terminal, arrives, idle
<1>6. maybe_retire(e)
  BY <1>0, <1>p DEF on_terminal, arrives, idle
<1>7. \A x \in Endpoints : x # e =>
                /\ peer_terminal'[x] = peer_terminal[x]
                /\ inbuf'[x] = inbuf[x]
  BY <1>0, <1>p DEF on_terminal, arrives, idle
<1>8. chan'[e] = chan[e]
  BY <1>0, <1>p DEF on_terminal, arrives, idle
<1>9. UNCHANGED <<local_terminal, peer_stop, local_terminal_sent, read_cancel, drop_data,
                         dc_closed, closer, read_end, hand, data_q,
                         life_q, written, read>>
  BY <1>0, <1>p DEF on_terminal, arrives, idle
<1> QED
  BY <1>1, <1>2, <1>3, <1>4, <1>5, <1>6, <1>7, <1>8, <1>9

(* STOP_SENDING arrives.                                                    *)
LEMMA At_on_stop_sending ==
    ASSUME Typed, NEW e \in Endpoints, on_stop_sending(e)
    PROVE  /\ chan[peer(e)] # <<>> /\ Head(chan[peer(e)]) = "STOP"
           /\ chan'[peer(e)] = Tail(chan[peer(e)])
           /\ \/ /\ local_terminal[e] = "none" /\ local_terminal'[e] = "reset"
                 /\ drop_data'[e] /\ life_q'[e] = Append(life_q[e], "RESET")
                 /\ maybe_retire(e)
              \/ UNCHANGED <<local_terminal, drop_data, life_q, retired_fired, closing>>
           /\ \A x \in Endpoints : x # e =>
                /\ peer_stop'[x] = peer_stop[x]
                /\ local_terminal'[x] = local_terminal[x]
                /\ drop_data'[x] = drop_data[x]
                /\ life_q'[x] = life_q[x]
           /\ chan'[e] = chan[e]
           /\ UNCHANGED <<inbuf, peer_terminal, local_terminal_sent, read_cancel, dc_closed,
                         closer, read_end, hand, data_q, written, read,
                         fatal>>
<1> USE DEF state, reading, writing, retiring, queues, seen
<1>0. /\ chan \in [Endpoints -> Seq(Frames)]
      /\ peer_stop \in [Endpoints -> BOOLEAN]
      /\ local_terminal \in [Endpoints -> {"none", "fin", "reset"}]
      /\ drop_data \in [Endpoints -> BOOLEAN]
      /\ life_q \in [Endpoints -> Seq({"RESET", "STOP"})]
  BY DEF Typed
<1>p. peer(e) \in Endpoints /\ peer(e) # e
  BY Peers
<1>1. chan[peer(e)] # <<>> /\ Head(chan[peer(e)]) = "STOP"
  BY <1>0, <1>p DEF on_stop_sending, arrives, auto_reset, idle
<1>2. chan'[peer(e)] = Tail(chan[peer(e)])
  BY <1>0, <1>p DEF on_stop_sending, arrives, auto_reset, idle
<1>3. \/ /\ local_terminal[e] = "none" /\ local_terminal'[e] = "reset"
         /\ drop_data'[e] /\ life_q'[e] = Append(life_q[e], "RESET")
         /\ maybe_retire(e)
      \/ UNCHANGED <<local_terminal, drop_data, life_q, retired_fired, closing>>
  BY <1>0, <1>p DEF on_stop_sending, arrives, auto_reset, idle
<1>4. \A x \in Endpoints : x # e =>
                /\ peer_stop'[x] = peer_stop[x]
                /\ local_terminal'[x] = local_terminal[x]
                /\ drop_data'[x] = drop_data[x]
                /\ life_q'[x] = life_q[x]
  BY <1>0, <1>p DEF on_stop_sending, arrives, auto_reset, idle
<1>5. chan'[e] = chan[e]
  BY <1>0, <1>p DEF on_stop_sending, arrives, auto_reset, idle
<1>6. UNCHANGED <<inbuf, peer_terminal, local_terminal_sent, read_cancel, dc_closed,
                         closer, read_end, hand, data_q, written, read,
                         fatal>>
  BY <1>0, <1>p DEF on_stop_sending, arrives, auto_reset, idle
<1> QED
  BY <1>1, <1>2, <1>3, <1>4, <1>5, <1>6

(* The channel is found closed.                                             *)
LEMMA At_on_channel_close ==
    ASSUME Typed, NEW e \in Endpoints, on_channel_close(e)
    PROVE  /\ chan[peer(e)] # <<>> /\ Head(chan[peer(e)]) = "CLOSE"
           /\ dc_closed'[e]
           /\ chan'[peer(e)] = Tail(chan[peer(e)])
           /\ chan'[e] = IF closing[e] = "sent" THEN chan[e] ELSE Append(chan[e], "CLOSE")
           /\ fatal' = IF local_terminal_sent[e] /\ peer_terminal[e] # "none"
                     THEN fatal ELSE "data channel closed mid-stream"
           /\ maybe_retire(e)
           /\ \A x \in Endpoints : x # e =>
                dc_closed'[x] = dc_closed[x]
           /\ UNCHANGED <<inbuf, peer_terminal, local_terminal, peer_stop, local_terminal_sent,
                         read_cancel, drop_data, closer, read_end, hand,
                         data_q, life_q, written, read>>
<1> USE DEF state, reading, writing, retiring, queues, seen
<1>0. dc_closed \in [Endpoints -> BOOLEAN] /\ chan \in [Endpoints -> Seq(Frames)]
  BY DEF Typed
<1>p. peer(e) \in Endpoints /\ peer(e) # e
  BY Peers
<1>1. chan[peer(e)] # <<>> /\ Head(chan[peer(e)]) = "CLOSE"
  BY <1>0, <1>p DEF on_channel_close, arrives, idle, wire_complete
<1>2. dc_closed'[e]
  BY <1>0, <1>p DEF on_channel_close, arrives, idle, wire_complete
<1>3. chan'[peer(e)] = Tail(chan[peer(e)])
  BY <1>0, <1>p DEF on_channel_close, arrives, idle, wire_complete
<1>4. chan'[e] = IF closing[e] = "sent" THEN chan[e] ELSE Append(chan[e], "CLOSE")
  BY <1>0, <1>p DEF on_channel_close, arrives, idle, wire_complete
<1>5. fatal' = IF local_terminal_sent[e] /\ peer_terminal[e] # "none"
                     THEN fatal ELSE "data channel closed mid-stream"
  BY <1>0, <1>p DEF on_channel_close, arrives, idle, wire_complete
<1>6. maybe_retire(e)
  BY <1>0, <1>p DEF on_channel_close, arrives, idle, wire_complete
<1>7. \A x \in Endpoints : x # e =>
                dc_closed'[x] = dc_closed[x]
  BY <1>0, <1>p DEF on_channel_close, arrives, idle, wire_complete
<1>8. UNCHANGED <<inbuf, peer_terminal, local_terminal, peer_stop, local_terminal_sent,
                         read_cancel, drop_data, closer, read_end, hand,
                         data_q, life_q, written, read>>
  BY <1>0, <1>p DEF on_channel_close, arrives, idle, wire_complete
<1> QED
  BY <1>1, <1>2, <1>3, <1>4, <1>5, <1>6, <1>7, <1>8

-----------------------------------------------------------------------------
(* The queues and channels of the model under what is done to them.         *)
LEMMA DataQueue ==
    ASSUME Typed, NEW e \in Endpoints
    PROVE  /\ \A f \in {"DATA", "FIN"} :
                /\ \A g : Has(Append(data_q[e], f), g) <=> Has(data_q[e], g) \/ f = g
                /\ FinLast(data_q[e]) /\ ~Has(data_q[e], "FIN") => FinLast(Append(data_q[e], f))
           /\ data_q[e] # <<>> =>
                /\ Head(data_q[e]) \in {"DATA", "FIN"}
                /\ \A g : Has(data_q[e], g) <=> Head(data_q[e]) = g \/ Has(Tail(data_q[e]), g)
                /\ FinLast(data_q[e]) => FinLast(Tail(data_q[e]))
                /\ FinLast(data_q[e]) /\ Head(data_q[e]) = "FIN" => Tail(data_q[e]) = <<>>
           /\ FinLast(<<>>) /\ \A g : ~Has(<<>>, g)
<1>1. data_q[e] \in Seq({"DATA", "FIN"})
  BY DEF Typed
<1>2. FinLast(<<>>)
  BY DEF FinLast
<1>4. data_q[e] # <<>> => Head(data_q[e]) \in {"DATA", "FIN"}
  BY <1>1
<1> QED
  BY <1>1, <1>2, <1>4, HasAppend, HasTail, HasEmpty, FinLastKept

(* The lifecycle queue as it grows and shrinks.                             *)
LEMMA LifeQueue ==
    ASSUME Typed, NEW e \in Endpoints
    PROVE  /\ \A f \in {"RESET", "STOP"} :
                /\ \A g : Has(Append(life_q[e], f), g) <=> Has(life_q[e], g) \/ f = g
                /\ NoneTwice(life_q[e]) /\ ~Has(life_q[e], f) => NoneTwice(Append(life_q[e], f))
           /\ life_q[e] # <<>> =>
                /\ Head(life_q[e]) \in {"RESET", "STOP"}
                /\ \A g : Has(life_q[e], g) <=> Head(life_q[e]) = g \/ Has(Tail(life_q[e]), g)
                /\ NoneTwice(life_q[e]) =>
                     NoneTwice(Tail(life_q[e])) /\ ~Has(Tail(life_q[e]), Head(life_q[e]))
           /\ NoneTwice(<<>>) /\ \A g : ~Has(<<>>, g)
<1>1. life_q[e] \in Seq({"RESET", "STOP"})
  BY DEF Typed
<1>2. NoneTwice(<<>>)
  BY DEF NoneTwice
<1>4. life_q[e] # <<>> => Head(life_q[e]) \in {"RESET", "STOP"}
  BY <1>1
<1> QED
  BY <1>1, <1>2, <1>4, HasAppend, HasTail, HasEmpty, NoneTwiceKept

(* A channel that is given a frame.                                         *)
LEMMA ChannelGets ==
    ASSUME Typed, NEW x \in Endpoints, NEW f \in Frames, chan'[x] = Append(chan[x], f)
    PROVE  /\ \A g : Has(chan'[x], g) <=> Has(chan[x], g) \/ f = g
           /\ (Orderly(chan[x]) /\ ~Has(chan[x], "CLOSE")
                 /\ (HasTerminal(chan[x]) => f \notin TerminalFrames /\ f # "DATA"))
              => Orderly(chan'[x])
<1>1. chan[x] \in Seq(Frames)
  BY DEF Typed
<1> QED
  BY <1>1, HasAppend, OrderlyAppend

(* A channel whose next frame arrives.                                      *)
LEMMA ChannelTakes ==
    ASSUME Typed, NEW x \in Endpoints, NEW f, chan[x] # <<>>, Head(chan[x]) = f,
           chan'[x] = Tail(chan[x])
    PROVE  /\ \A g : Has(chan[x], g) <=> f = g \/ Has(chan'[x], g)
           /\ Orderly(chan[x]) =>
                /\ Orderly(chan'[x])
                /\ f = "CLOSE" => chan'[x] = <<>>
                /\ f \in TerminalFrames => ~HasTerminal(chan'[x]) /\ ~Has(chan'[x], "DATA")
<1>1. chan[x] \in Seq(Frames)
  BY DEF Typed
<1>2. \A g : Has(chan[x], g) <=> f = g \/ Has(chan'[x], g)
  BY <1>1, HasTail
<1>3. Orderly(chan[x]) =>
        /\ Orderly(chan'[x])
        /\ f = "CLOSE" => chan'[x] = <<>>
        /\ f \in TerminalFrames => ~HasTerminal(chan'[x]) /\ ~Has(chan'[x], "DATA")
  BY <1>1, OrderlyTail
<1> QED
  BY <1>2, <1>3

(* A step of one endpoint leaves the other's variables alone, but for its   *)
(* channel.                                                                 *)
LEMMA Elsewhere ==
    ASSUME Typed, NEW e \in Endpoints, NEW x \in Endpoints, x # e,
           Application(e) \/ WriterTask(e) \/ Callback(e)
    PROVE  /\ inbuf'[x] = inbuf[x] /\ peer_terminal'[x] = peer_terminal[x]
           /\ local_terminal'[x] = local_terminal[x] /\ peer_stop'[x] = peer_stop[x]
           /\ local_terminal_sent'[x] = local_terminal_sent[x]
           /\ read_cancel'[x] = read_cancel[x] /\ drop_data'[x] = drop_data[x]
           /\ dc_closed'[x] = dc_closed[x] /\ retired_fired'[x] = retired_fired[x]
           /\ closing'[x] = closing[x] /\ closer'[x] = closer[x]
           /\ read_end'[x] = read_end[x] /\ hand'[x] = hand[x] /\ data_q'[x] = data_q[x]
           /\ life_q'[x] = life_q[x] /\ written'[x] = written[x] /\ read'[x] = read[x]
<1> DEFINE Same == /\ inbuf'[x] = inbuf[x] /\ peer_terminal'[x] = peer_terminal[x]
                   /\ local_terminal'[x] = local_terminal[x] /\ peer_stop'[x] = peer_stop[x]
                   /\ local_terminal_sent'[x] = local_terminal_sent[x]
                   /\ read_cancel'[x] = read_cancel[x] /\ drop_data'[x] = drop_data[x]
                   /\ dc_closed'[x] = dc_closed[x] /\ retired_fired'[x] = retired_fired[x]
                   /\ closing'[x] = closing[x] /\ closer'[x] = closer[x]
                   /\ read_end'[x] = read_end[x] /\ hand'[x] = hand[x]
                   /\ data_q'[x] = data_q[x] /\ life_q'[x] = life_q[x]
                   /\ written'[x] = written[x] /\ read'[x] = read[x]
<1>1. ASSUME poll_write(e) PROVE Same
  BY <1>1, At_poll_write
<1>2. ASSUME close_write(e) PROVE Same
  BY <1>2, At_close_write
<1>3. ASSUME queue_fin(e) PROVE Same
  BY <1>3, At_queue_fin, Retiring
<1>4. ASSUME abandon_close(e) PROVE Same
  BY <1>4, At_abandon_close
<1>5. ASSUME poll_shutdown(e) PROVE Same
  BY <1>5, At_poll_shutdown
<1>6. ASSUME poll_shutdown_reserve(e) PROVE Same
  BY <1>6, At_poll_shutdown_reserve, Retiring
<1>7. ASSUME reset_write(e) PROVE Same
  BY <1>7, At_reset_write, Retiring
<1>8. ASSUME poll_read(e) PROVE Same
  BY <1>8, At_poll_read, Retiring
<1>9. ASSUME poll_read_end(e) PROVE Same
  BY <1>9, At_poll_read_end
<1>10. ASSUME cancel_read(e) PROVE Same
  BY <1>10, At_cancel_read, Retiring
<1>11. ASSUME writer_take(e) PROVE Same
  BY <1>11, At_writer_take
<1>12. ASSUME writer_send(e) PROVE Same
  BY <1>12, At_writer_send
<1>13. ASSUME writer_fail(e) PROVE Same
  BY <1>13, At_writer_fail
<1>14. ASSUME writer_sent(e) PROVE Same
  BY <1>14, At_writer_sent, Retiring
<1>15. ASSUME close_channel(e) PROVE Same
  BY <1>15, At_close_channel
<1>16. ASSUME on_data(e) PROVE Same
  BY <1>16, At_on_data
<1>17. ASSUME NEW f \in TerminalFrames, on_terminal(e, f) PROVE Same
  <2>1. inbuf'[x] = inbuf[x] /\ peer_terminal'[x] = peer_terminal[x]
    BY <1>17, At_on_terminal
  <2>2. /\ local_terminal'[x] = local_terminal[x] /\ peer_stop'[x] = peer_stop[x]
        /\ local_terminal_sent'[x] = local_terminal_sent[x]
        /\ read_cancel'[x] = read_cancel[x] /\ drop_data'[x] = drop_data[x]
        /\ dc_closed'[x] = dc_closed[x] /\ closer'[x] = closer[x]
        /\ read_end'[x] = read_end[x] /\ hand'[x] = hand[x] /\ data_q'[x] = data_q[x]
        /\ life_q'[x] = life_q[x] /\ written'[x] = written[x] /\ read'[x] = read[x]
    BY <1>17, At_on_terminal
  <2>3. retired_fired'[x] = retired_fired[x] /\ closing'[x] = closing[x]
    BY <1>17, At_on_terminal, Retiring
  <2> QED
    BY <2>1, <2>2, <2>3
<1>18. ASSUME on_stop_sending(e) PROVE Same
  BY <1>18, At_on_stop_sending, Retiring
<1>19. ASSUME on_channel_close(e) PROVE Same
  <2>1. dc_closed'[x] = dc_closed[x]
    BY <1>19, At_on_channel_close
  <2>2. /\ inbuf'[x] = inbuf[x] /\ peer_terminal'[x] = peer_terminal[x]
        /\ local_terminal'[x] = local_terminal[x] /\ peer_stop'[x] = peer_stop[x]
        /\ local_terminal_sent'[x] = local_terminal_sent[x]
        /\ read_cancel'[x] = read_cancel[x] /\ drop_data'[x] = drop_data[x]
        /\ closer'[x] = closer[x] /\ read_end'[x] = read_end[x] /\ hand'[x] = hand[x]
        /\ data_q'[x] = data_q[x] /\ life_q'[x] = life_q[x] /\ written'[x] = written[x]
        /\ read'[x] = read[x]
    BY <1>19, At_on_channel_close
  <2>3. retired_fired'[x] = retired_fired[x] /\ closing'[x] = closing[x]
    BY <1>19, At_on_channel_close, Retiring
  <2> QED
    BY <2>1, <2>2, <2>3
<1> HIDE DEF Same
<1>20. Same
  BY <1>1, <1>2, <1>3, <1>4, <1>5, <1>6, <1>7, <1>8, <1>9, <1>10, <1>11, <1>12, <1>13, <1>14,
     <1>15, <1>16, <1>17, <1>18, <1>19 DEF Application, WriterTask, Callback
<1> QED
  BY <1>20 DEF Same


(* What the application and the writer task of an endpoint leave alone.     *)
LEMMA Quiet ==
    ASSUME Typed, NEW e \in Endpoints, Application(e) \/ WriterTask(e)
    PROVE  /\ peer_terminal'[e] = peer_terminal[e] /\ chan'[peer(e)] = chan[peer(e)]
           /\ dc_closed' = dc_closed /\ fatal' = fatal
<1> DEFINE Same == /\ peer_terminal'[e] = peer_terminal[e] /\ chan'[peer(e)] = chan[peer(e)]
                   /\ dc_closed' = dc_closed /\ fatal' = fatal
<1>1. ASSUME poll_write(e) PROVE Same
  BY <1>1, At_poll_write
<1>2. ASSUME close_write(e) PROVE Same
  BY <1>2, At_close_write
<1>3. ASSUME queue_fin(e) PROVE Same
  BY <1>3, At_queue_fin
<1>4. ASSUME abandon_close(e) PROVE Same
  BY <1>4, At_abandon_close
<1>5. ASSUME poll_shutdown(e) PROVE Same
  BY <1>5, At_poll_shutdown
<1>6. ASSUME poll_shutdown_reserve(e) PROVE Same
  BY <1>6, At_poll_shutdown_reserve
<1>7. ASSUME reset_write(e) PROVE Same
  BY <1>7, At_reset_write
<1>8. ASSUME poll_read(e) PROVE Same
  BY <1>8, At_poll_read
<1>9. ASSUME poll_read_end(e) PROVE Same
  BY <1>9, At_poll_read_end
<1>10. ASSUME cancel_read(e) PROVE Same
  BY <1>10, At_cancel_read
<1>11. ASSUME writer_take(e) PROVE Same
  BY <1>11, At_writer_take
<1>12. ASSUME writer_send(e) PROVE Same
  BY <1>12, At_writer_send
<1>13. ASSUME writer_fail(e) PROVE Same
  BY <1>13, At_writer_fail
<1>14. ASSUME writer_sent(e) PROVE Same
  BY <1>14, At_writer_sent
<1>15. ASSUME close_channel(e) PROVE Same
  BY <1>15, At_close_channel
<1> HIDE DEF Same
<1>16. Same
  BY <1>1, <1>2, <1>3, <1>4, <1>5, <1>6, <1>7, <1>8, <1>9, <1>10, <1>11, <1>12, <1>13, <1>14,
     <1>15 DEF Application, WriterTask
<1> QED
  BY <1>16 DEF Same

(* The terminal frame of an endpoint stays in one place.                    *)
LEMMA StepTerminal ==
    ASSUME IInv, Typed, Next, NEW x \in Endpoints
    PROVE  TerminalInv(x)'
<1>0. PICK e \in Endpoints : Application(e) \/ WriterTask(e) \/ Callback(e)
  BY DEF Next
<1>i. TerminalInv(e) /\ TerminalInv(x)
  BY DEF IInv, EndInv
<1>c. fatal = "none" /\ (closing[e] = "sent" \/ dc_closed[e] => local_terminal_sent[e])
  BY DEF IInv, EndInv, CloseInv, Next
<1>s. Has(life_q[e], "STOP") => read_cancel[e]
  BY DEF IInv, EndInv, StopInv
<1>1. CASE x # e
  <2>1. /\ closer'[x] = closer[x] /\ data_q'[x] = data_q[x] /\ drop_data'[x] = drop_data[x]
        /\ hand'[x] = hand[x] /\ life_q'[x] = life_q[x]
        /\ local_terminal'[x] = local_terminal[x]
        /\ local_terminal_sent'[x] = local_terminal_sent[x]
    BY <1>0, <1>1, Elsewhere
  <2> QED
    BY <1>i, <2>1 DEF TerminalInv, InHand, TerminalFrames
<1>2. ASSUME x = e,
             \/ poll_read(e) \/ poll_read_end(e) \/ close_channel(e) \/ on_data(e)
             \/ (\E f \in TerminalFrames : on_terminal(e, f)) \/ on_channel_close(e)
      PROVE  TerminalInv(x)'
  <2>1. UNCHANGED <<closer, data_q, drop_data, hand, life_q, local_terminal, local_terminal_sent>>
    BY <1>2, At_poll_read, At_poll_read_end, At_close_channel, At_on_data, At_on_terminal,
       At_on_channel_close
  <2> QED
    BY <1>i, <2>1 DEF TerminalInv, InHand, TerminalFrames
<1>3. ASSUME x = e, poll_write(e) PROVE TerminalInv(e)'
  <2>1. /\ closer[e] = "none"
        /\ local_terminal[e] = "none"
        /\ ~dc_closed[e]
        /\ data_q'[e] = Append(data_q[e], "DATA")
        /\ UNCHANGED <<closer, drop_data, hand, life_q, local_terminal, local_terminal_sent>>
    BY <1>3, At_poll_write
  <2>2. /\ Has(data_q'[e], "FIN") <=> Has(data_q[e], "FIN")
        /\ FinLast(data_q[e]) /\ ~Has(data_q[e], "FIN") => FinLast(data_q'[e])
    BY <2>1, <1>i, DataQueue
  <2> QED
    BY <2>1, <2>2, <1>i DEF TerminalInv, InHand, TerminalFrames
<1>4. ASSUME x = e, close_write(e) PROVE TerminalInv(e)'
  <2>1. /\ closer[e] = "none"
        /\ local_terminal[e] = "none"
        /\ local_terminal'[e] = "fin"
        /\ closer'[e] = "send"
        /\ UNCHANGED <<data_q, drop_data, hand, life_q, local_terminal_sent>>
    BY <1>4, At_close_write
  <2> QED
    BY <2>1, <1>i DEF TerminalInv, InHand, TerminalFrames
<1>5. ASSUME x = e, queue_fin(e) PROVE TerminalInv(e)'
  <2>1. /\ closer[e] = "send"
        /\ data_q'[e] = Append(data_q[e], "FIN")
        /\ closer'[e] = "none"
        /\ UNCHANGED <<drop_data, hand, life_q, local_terminal, local_terminal_sent>>
    BY <1>5, At_queue_fin
  <2>2. /\ Has(data_q'[e], "FIN")
        /\ FinLast(data_q[e]) /\ ~Has(data_q[e], "FIN") => FinLast(data_q'[e])
    BY <2>1, <1>i, DataQueue
  <2> QED
    BY <2>1, <2>2, <1>i DEF TerminalInv, InHand, TerminalFrames
<1>6. ASSUME x = e, abandon_close(e) PROVE TerminalInv(e)'
  <2>1. /\ e \in Abandoners
        /\ closer[e] = "send"
        /\ closer'[e] = "none"
        /\ UNCHANGED <<data_q, drop_data, hand, life_q, local_terminal, local_terminal_sent>>
    BY <1>6, At_abandon_close
  <2> QED
    BY <2>1, <1>i DEF TerminalInv, InHand, TerminalFrames
<1>7. ASSUME x = e, poll_shutdown(e) PROVE TerminalInv(e)'
  <2>1. /\ closer[e] = "none"
        /\ local_terminal[e] = "none"
        /\ local_terminal'[e] = "fin"
        /\ closer'[e] = "shutdown"
        /\ UNCHANGED <<data_q, drop_data, hand, life_q, local_terminal_sent>>
    BY <1>7, At_poll_shutdown
  <2> QED
    BY <2>1, <1>i DEF TerminalInv, InHand, TerminalFrames
<1>8. ASSUME x = e, poll_shutdown_reserve(e) PROVE TerminalInv(e)'
  <2>1. ASSUME closer'[e] = "none",
               data_q'[e] = Append(data_q[e], "FIN"),
               local_terminal' = local_terminal
       PROVE  TerminalInv(e)'
    <3>1. /\ closer[e] = "shutdown"
          /\ closer'[e] = "none"
          /\ data_q'[e] = Append(data_q[e], "FIN")
          /\ local_terminal' = local_terminal
          /\ UNCHANGED <<drop_data, hand, life_q, local_terminal_sent>>
      BY <1>8, <2>1, At_poll_shutdown_reserve
    <3>2. /\ Has(data_q'[e], "FIN")
          /\ FinLast(data_q[e]) /\ ~Has(data_q[e], "FIN") => FinLast(data_q'[e])
      BY <3>1, <1>i, DataQueue
    <3> QED
      BY <3>1, <3>2, <1>i DEF TerminalInv, InHand, TerminalFrames
  <2>2. ASSUME closer'[e] = "none",
               data_q' = data_q,
               local_terminal'[e] = "none",
               UNCHANGED <<retired_fired, closing>>
       PROVE  TerminalInv(e)'
    <3>1. /\ closer[e] = "shutdown"
          /\ closer'[e] = "none"
          /\ data_q' = data_q
          /\ local_terminal'[e] = "none"
          /\ UNCHANGED <<drop_data, hand, life_q, local_terminal_sent>>
      BY <1>8, <2>2, At_poll_shutdown_reserve
    <3> QED
      BY <3>1, <1>i DEF TerminalInv, InHand, TerminalFrames
  <2> QED
    BY <1>8, <2>1, <2>2, At_poll_shutdown_reserve
<1>9. ASSUME x = e, reset_write(e) PROVE TerminalInv(e)'
  <2>1. /\ closer[e] = "none"
        /\ local_terminal[e] = "none"
        /\ local_terminal'[e] = "reset"
        /\ drop_data'[e]
        /\ life_q'[e] = Append(life_q[e], "RESET")
        /\ UNCHANGED <<closer, data_q, hand, local_terminal_sent>>
    BY <1>9, At_reset_write
  <2>2. /\ \A g : Has(life_q'[e], g) <=> Has(life_q[e], g) \/ g = "RESET"
        /\ NoneTwice(life_q[e]) /\ ~Has(life_q[e], "RESET") => NoneTwice(life_q'[e])
    BY <2>1, <1>i, LifeQueue
  <2> QED
    BY <2>1, <2>2, <1>i DEF TerminalInv, InHand, TerminalFrames
<1>10. ASSUME x = e, cancel_read(e) PROVE TerminalInv(e)'
  <2>1. ASSUME peer_terminal[e] = "none",
               read_cancel'[e],
               inbuf'[e] = 0,
               life_q'[e] = Append(life_q[e], "STOP")
       PROVE  TerminalInv(e)'
    <3>1. /\ ~read_cancel[e]
          /\ read_cancel'[e]
          /\ life_q'[e] = Append(life_q[e], "STOP")
          /\ UNCHANGED <<closer, data_q, drop_data, hand, local_terminal, local_terminal_sent>>
      BY <1>10, <2>1, At_cancel_read
    <3>2. /\ \A g : Has(life_q'[e], g) <=> Has(life_q[e], g) \/ g = "STOP"
          /\ NoneTwice(life_q[e]) /\ ~Has(life_q[e], "STOP") => NoneTwice(life_q'[e])
      BY <3>1, <1>i, LifeQueue
    <3> QED
      BY <3>1, <3>2, <1>i, <1>s DEF TerminalInv, InHand, TerminalFrames
  <2>2. ASSUME peer_terminal[e] # "none",
               read_cancel'[e],
               inbuf'[e] = 0,
               life_q'[e] = life_q[e]
       PROVE  TerminalInv(e)'
    <3>1. /\ ~read_cancel[e]
          /\ read_cancel'[e]
          /\ life_q'[e] = life_q[e]
          /\ UNCHANGED <<closer, data_q, drop_data, hand, local_terminal, local_terminal_sent>>
      BY <1>10, <2>2, At_cancel_read
    <3> QED
      BY <3>1, <1>i, <1>s DEF TerminalInv, InHand, TerminalFrames
  <2> QED
    BY <1>10, <2>1, <2>2, At_cancel_read
<1>11. ASSUME x = e, writer_take(e) PROVE TerminalInv(e)'
  <2>1. ASSUME life_q[e] # <<>>,
               hand'[e].frame = Head(life_q[e]),
               ~hand'[e].sent,
               life_q'[e] = Tail(life_q[e]),
               data_q' = data_q
       PROVE  TerminalInv(e)'
    <3>1. /\ hand[e] = NoFrame
          /\ life_q[e] # <<>>
          /\ hand'[e].frame = Head(life_q[e])
          /\ ~hand'[e].sent
          /\ life_q'[e] = Tail(life_q[e])
          /\ data_q' = data_q
          /\ UNCHANGED <<closer, drop_data, local_terminal, local_terminal_sent>>
      BY <1>11, <2>1, At_writer_take
    <3>2. /\ Head(life_q[e]) \in {"RESET", "STOP"}
          /\ \A g : Has(life_q[e], g) <=> Head(life_q[e]) = g \/ Has(life_q'[e], g)
          /\ NoneTwice(life_q[e]) => NoneTwice(life_q'[e]) /\ ~Has(life_q'[e], Head(life_q[e]))
      BY <3>1, <1>i, LifeQueue
    <3> QED
      BY <3>1, <3>2, <1>i, HandFields DEF TerminalInv, InHand, TerminalFrames
  <2>2. ASSUME data_q[e] # <<>>,
               ~(drop_data[e] /\ Head(data_q[e]) = "DATA"),
               hand'[e].frame = Head(data_q[e]),
               ~hand'[e].sent,
               data_q'[e] = Tail(data_q[e]),
               life_q' = life_q
       PROVE  TerminalInv(e)'
    <3>1. /\ hand[e] = NoFrame
          /\ data_q[e] # <<>>
          /\ ~(drop_data[e] /\ Head(data_q[e]) = "DATA")
          /\ hand'[e].frame = Head(data_q[e])
          /\ ~hand'[e].sent
          /\ data_q'[e] = Tail(data_q[e])
          /\ life_q' = life_q
          /\ UNCHANGED <<closer, drop_data, local_terminal, local_terminal_sent>>
      BY <1>11, <2>2, At_writer_take
    <3>2. /\ Head(data_q[e]) \in {"DATA", "FIN"}
          /\ Has(data_q[e], "FIN") <=> Head(data_q[e]) = "FIN" \/ Has(data_q'[e], "FIN")
          /\ FinLast(data_q[e]) => FinLast(data_q'[e])
          /\ FinLast(data_q[e]) /\ Head(data_q[e]) = "FIN" => data_q'[e] = <<>>
                 /\ ~Has(data_q'[e], "FIN")
      BY <3>1, <1>i, DataQueue
    <3> QED
      BY <3>1, <3>2, <1>i, HandFields DEF TerminalInv, InHand, TerminalFrames
  <2>3. ASSUME data_q[e] # <<>>,
               drop_data[e],
               Head(data_q[e]) = "DATA",
               hand'[e] = NoFrame,
               data_q'[e] = Tail(data_q[e]),
               life_q' = life_q
       PROVE  TerminalInv(e)'
    <3>1. /\ hand[e] = NoFrame
          /\ data_q[e] # <<>>
          /\ drop_data[e]
          /\ Head(data_q[e]) = "DATA"
          /\ hand'[e] = NoFrame
          /\ data_q'[e] = Tail(data_q[e])
          /\ life_q' = life_q
          /\ UNCHANGED <<closer, drop_data, local_terminal, local_terminal_sent>>
      BY <1>11, <2>3, At_writer_take
    <3>2. /\ Head(data_q[e]) \in {"DATA", "FIN"}
          /\ Has(data_q[e], "FIN") <=> Head(data_q[e]) = "FIN" \/ Has(data_q'[e], "FIN")
          /\ FinLast(data_q[e]) => FinLast(data_q'[e])
          /\ FinLast(data_q[e]) /\ Head(data_q[e]) = "FIN" => data_q'[e] = <<>>
                 /\ ~Has(data_q'[e], "FIN")
      BY <3>1, <1>i, DataQueue
    <3> QED
      BY <3>1, <3>2, <1>i, HandFields DEF TerminalInv, InHand, TerminalFrames
  <2> QED
    BY <1>11, <2>1, <2>2, <2>3, At_writer_take
<1>12. ASSUME x = e, writer_send(e) PROVE TerminalInv(e)'
  <2>1. /\ hand[e].frame \in Frames \ {"CLOSE"}
        /\ ~hand[e].sent
        /\ ~dc_closed[e]
        /\ closing[e] # "sent"
        /\ chan'[e] = Append(chan[e], hand[e].frame)
        /\ hand'[e].frame = hand[e].frame
        /\ hand'[e].sent
        /\ UNCHANGED <<closer, data_q, drop_data, life_q, local_terminal, local_terminal_sent>>
    BY <1>12, At_writer_send
  <2> QED
    BY <2>1, <1>i, HandFields DEF TerminalInv, InHand, TerminalFrames
<1>13. ASSUME x = e, writer_fail(e) PROVE TerminalInv(e)'
  <2>1. /\ ~hand[e].sent
        /\ (dc_closed[e] \/ closing[e] = "sent")
        /\ hand'[e] = Ended
        /\ data_q'[e] = <<>>
        /\ life_q'[e] = <<>>
        /\ UNCHANGED <<closer, drop_data, local_terminal, local_terminal_sent>>
    BY <1>13, At_writer_fail
  <2>2. /\ ~Has(data_q'[e], "FIN") /\ FinLast(data_q'[e])
    BY <2>1, <1>i, DataQueue
  <2>3. /\ NoneTwice(life_q'[e]) /\ \A g : ~Has(life_q'[e], g)
    BY <2>1, <1>i, LifeQueue
  <2> QED
    BY <2>1, <2>2, <2>3, <1>i, HandFields, <1>c DEF TerminalInv, InHand, TerminalFrames
<1>14. ASSUME x = e, writer_sent(e) PROVE TerminalInv(e)'
  <2>1. /\ hand[e].sent
        /\ local_terminal_sent'[e] <=> local_terminal_sent[e] \/ InHand(e)
        /\ hand'[e] = NoFrame
        /\ (maybe_retire(e) \/ UNCHANGED <<retired_fired, closing>>)
        /\ UNCHANGED <<closer, data_q, drop_data, life_q, local_terminal>>
    BY <1>14, At_writer_sent
  <2> QED
    BY <2>1, <1>i, HandFields DEF TerminalInv, InHand, TerminalFrames
<1>15. ASSUME x = e, on_stop_sending(e) PROVE TerminalInv(e)'
  <2>1. ASSUME chan'[peer(e)] = Tail(chan[peer(e)]),
               local_terminal[e] = "none",
               local_terminal'[e] = "reset",
               drop_data'[e],
               life_q'[e] = Append(life_q[e], "RESET")
       PROVE  TerminalInv(e)'
    <3>1. /\ local_terminal[e] = "none"
          /\ local_terminal'[e] = "reset"
          /\ drop_data'[e]
          /\ life_q'[e] = Append(life_q[e], "RESET")
          /\ UNCHANGED <<closer, data_q, hand, local_terminal_sent>>
      BY <1>15, <2>1, At_on_stop_sending
    <3>2. /\ \A g : Has(life_q'[e], g) <=> Has(life_q[e], g) \/ g = "RESET"
          /\ NoneTwice(life_q[e]) /\ ~Has(life_q[e], "RESET") => NoneTwice(life_q'[e])
      BY <3>1, <1>i, LifeQueue
    <3> QED
      BY <3>1, <3>2, <1>i DEF TerminalInv, InHand, TerminalFrames
  <2>2. ASSUME chan'[peer(e)] = Tail(chan[peer(e)]),
               UNCHANGED <<local_terminal, drop_data, life_q, retired_fired, closing>>
       PROVE  TerminalInv(e)'
    <3>1. /\ UNCHANGED <<local_terminal, drop_data, life_q, retired_fired, closing>>
          /\ UNCHANGED <<closer, data_q, hand, local_terminal_sent>>
      BY <1>15, <2>2, At_on_stop_sending
    <3> QED
      BY <3>1, <1>i DEF TerminalInv, InHand, TerminalFrames
  <2> QED
    BY <1>15, <2>1, <2>2, At_on_stop_sending
<1> QED
  BY <1>0, <1>1, <1>2, <1>3, <1>4, <1>5, <1>6, <1>7, <1>8, <1>9, <1>10, <1>11, <1>12, <1>13,
     <1>14, <1>15 DEF Application, WriterTask, Callback

(* And it is always somewhere, but for an abandoned close.                  *)
LEMMA StepPlaced ==
    ASSUME IInv, Typed, Next, NEW x \in Endpoints
    PROVE  PlacedInv(x)'
<1>0. PICK e \in Endpoints : Application(e) \/ WriterTask(e) \/ Callback(e)
  BY DEF Next
<1>i. PlacedInv(e) /\ PlacedInv(x)
  BY DEF IInv, EndInv
<1>c. fatal = "none" /\ (closing[e] = "sent" \/ dc_closed[e] => local_terminal_sent[e])
  BY DEF IInv, EndInv, CloseInv, Next
<1>1. CASE x # e
  <2>1. /\ closer'[x] = closer[x] /\ data_q'[x] = data_q[x] /\ hand'[x] = hand[x]
        /\ life_q'[x] = life_q[x] /\ local_terminal'[x] = local_terminal[x]
        /\ local_terminal_sent'[x] = local_terminal_sent[x]
    BY <1>0, <1>1, Elsewhere
  <2> QED
    BY <1>i, <2>1 DEF PlacedInv, InHand, TerminalFrames
<1>2. ASSUME x = e,
             \/ poll_read(e) \/ poll_read_end(e) \/ close_channel(e) \/ on_data(e)
             \/ (\E f \in TerminalFrames : on_terminal(e, f)) \/ on_channel_close(e)
      PROVE  PlacedInv(x)'
  <2>1. UNCHANGED <<closer, data_q, hand, life_q, local_terminal, local_terminal_sent>>
    BY <1>2, At_poll_read, At_poll_read_end, At_close_channel, At_on_data, At_on_terminal,
       At_on_channel_close
  <2> QED
    BY <1>i, <2>1 DEF PlacedInv, InHand, TerminalFrames
<1>3. ASSUME x = e, poll_write(e) PROVE PlacedInv(e)'
  <2>1. /\ closer[e] = "none"
        /\ local_terminal[e] = "none"
        /\ ~dc_closed[e]
        /\ data_q'[e] = Append(data_q[e], "DATA")
        /\ UNCHANGED <<closer, hand, life_q, local_terminal, local_terminal_sent>>
    BY <1>3, At_poll_write
  <2>2. /\ Has(data_q'[e], "FIN") <=> Has(data_q[e], "FIN")
        /\ FinLast(data_q[e]) /\ ~Has(data_q[e], "FIN") => FinLast(data_q'[e])
    BY <2>1, <1>i, DataQueue
  <2> QED
    BY <2>1, <2>2, <1>i DEF PlacedInv, InHand, TerminalFrames
<1>4. ASSUME x = e, close_write(e) PROVE PlacedInv(e)'
  <2>1. /\ closer[e] = "none"
        /\ local_terminal[e] = "none"
        /\ local_terminal'[e] = "fin"
        /\ closer'[e] = "send"
        /\ UNCHANGED <<data_q, hand, life_q, local_terminal_sent>>
    BY <1>4, At_close_write
  <2> QED
    BY <2>1, <1>i DEF PlacedInv, InHand, TerminalFrames
<1>5. ASSUME x = e, queue_fin(e) PROVE PlacedInv(e)'
  <2>1. /\ closer[e] = "send"
        /\ data_q'[e] = Append(data_q[e], "FIN")
        /\ closer'[e] = "none"
        /\ UNCHANGED <<hand, life_q, local_terminal, local_terminal_sent>>
    BY <1>5, At_queue_fin
  <2>2. /\ Has(data_q'[e], "FIN")
        /\ FinLast(data_q[e]) /\ ~Has(data_q[e], "FIN") => FinLast(data_q'[e])
    BY <2>1, <1>i, DataQueue
  <2> QED
    BY <2>1, <2>2, <1>i DEF PlacedInv, InHand, TerminalFrames
<1>6. ASSUME x = e, abandon_close(e) PROVE PlacedInv(e)'
  <2>1. /\ e \in Abandoners
        /\ closer[e] = "send"
        /\ closer'[e] = "none"
        /\ UNCHANGED <<data_q, hand, life_q, local_terminal, local_terminal_sent>>
    BY <1>6, At_abandon_close
  <2> QED
    BY <2>1, <1>i DEF PlacedInv, InHand, TerminalFrames
<1>7. ASSUME x = e, poll_shutdown(e) PROVE PlacedInv(e)'
  <2>1. /\ closer[e] = "none"
        /\ local_terminal[e] = "none"
        /\ local_terminal'[e] = "fin"
        /\ closer'[e] = "shutdown"
        /\ UNCHANGED <<data_q, hand, life_q, local_terminal_sent>>
    BY <1>7, At_poll_shutdown
  <2> QED
    BY <2>1, <1>i DEF PlacedInv, InHand, TerminalFrames
<1>8. ASSUME x = e, poll_shutdown_reserve(e) PROVE PlacedInv(e)'
  <2>1. ASSUME closer'[e] = "none",
               data_q'[e] = Append(data_q[e], "FIN"),
               local_terminal' = local_terminal
       PROVE  PlacedInv(e)'
    <3>1. /\ closer[e] = "shutdown"
          /\ closer'[e] = "none"
          /\ data_q'[e] = Append(data_q[e], "FIN")
          /\ local_terminal' = local_terminal
          /\ UNCHANGED <<hand, life_q, local_terminal_sent>>
      BY <1>8, <2>1, At_poll_shutdown_reserve
    <3>2. /\ Has(data_q'[e], "FIN")
          /\ FinLast(data_q[e]) /\ ~Has(data_q[e], "FIN") => FinLast(data_q'[e])
      BY <3>1, <1>i, DataQueue
    <3> QED
      BY <3>1, <3>2, <1>i DEF PlacedInv, InHand, TerminalFrames
  <2>2. ASSUME closer'[e] = "none",
               data_q' = data_q,
               local_terminal'[e] = "none",
               UNCHANGED <<retired_fired, closing>>
       PROVE  PlacedInv(e)'
    <3>1. /\ closer[e] = "shutdown"
          /\ closer'[e] = "none"
          /\ data_q' = data_q
          /\ local_terminal'[e] = "none"
          /\ UNCHANGED <<hand, life_q, local_terminal_sent>>
      BY <1>8, <2>2, At_poll_shutdown_reserve
    <3> QED
      BY <3>1, <1>i DEF PlacedInv, InHand, TerminalFrames
  <2> QED
    BY <1>8, <2>1, <2>2, At_poll_shutdown_reserve
<1>9. ASSUME x = e, reset_write(e) PROVE PlacedInv(e)'
  <2>1. /\ closer[e] = "none"
        /\ local_terminal[e] = "none"
        /\ local_terminal'[e] = "reset"
        /\ life_q'[e] = Append(life_q[e], "RESET")
        /\ UNCHANGED <<closer, data_q, hand, local_terminal_sent>>
    BY <1>9, At_reset_write
  <2>2. /\ \A g : Has(life_q'[e], g) <=> Has(life_q[e], g) \/ g = "RESET"
        /\ NoneTwice(life_q[e]) /\ ~Has(life_q[e], "RESET") => NoneTwice(life_q'[e])
    BY <2>1, <1>i, LifeQueue
  <2> QED
    BY <2>1, <2>2, <1>i DEF PlacedInv, InHand, TerminalFrames
<1>10. ASSUME x = e, cancel_read(e) PROVE PlacedInv(e)'
  <2>1. ASSUME peer_terminal[e] = "none",
               read_cancel'[e],
               inbuf'[e] = 0,
               life_q'[e] = Append(life_q[e], "STOP")
       PROVE  PlacedInv(e)'
    <3>1. /\ ~read_cancel[e]
          /\ read_cancel'[e]
          /\ life_q'[e] = Append(life_q[e], "STOP")
          /\ UNCHANGED <<closer, data_q, hand, local_terminal, local_terminal_sent>>
      BY <1>10, <2>1, At_cancel_read
    <3>2. /\ \A g : Has(life_q'[e], g) <=> Has(life_q[e], g) \/ g = "STOP"
          /\ NoneTwice(life_q[e]) /\ ~Has(life_q[e], "STOP") => NoneTwice(life_q'[e])
      BY <3>1, <1>i, LifeQueue
    <3> QED
      BY <3>1, <3>2, <1>i DEF PlacedInv, InHand, TerminalFrames
  <2>2. ASSUME peer_terminal[e] # "none",
               read_cancel'[e],
               inbuf'[e] = 0,
               life_q'[e] = life_q[e]
       PROVE  PlacedInv(e)'
    <3>1. /\ ~read_cancel[e]
          /\ read_cancel'[e]
          /\ life_q'[e] = life_q[e]
          /\ UNCHANGED <<closer, data_q, hand, local_terminal, local_terminal_sent>>
      BY <1>10, <2>2, At_cancel_read
    <3> QED
      BY <3>1, <1>i DEF PlacedInv, InHand, TerminalFrames
  <2> QED
    BY <1>10, <2>1, <2>2, At_cancel_read
<1>11. ASSUME x = e, writer_take(e) PROVE PlacedInv(e)'
  <2>1. ASSUME life_q[e] # <<>>,
               hand'[e].frame = Head(life_q[e]),
               ~hand'[e].sent,
               life_q'[e] = Tail(life_q[e]),
               data_q' = data_q
       PROVE  PlacedInv(e)'
    <3>1. /\ hand[e] = NoFrame
          /\ life_q[e] # <<>>
          /\ hand'[e].frame = Head(life_q[e])
          /\ ~hand'[e].sent
          /\ life_q'[e] = Tail(life_q[e])
          /\ data_q' = data_q
          /\ UNCHANGED <<closer, local_terminal, local_terminal_sent>>
      BY <1>11, <2>1, At_writer_take
    <3>2. /\ Head(life_q[e]) \in {"RESET", "STOP"}
          /\ \A g : Has(life_q[e], g) <=> Head(life_q[e]) = g \/ Has(life_q'[e], g)
          /\ NoneTwice(life_q[e]) => NoneTwice(life_q'[e]) /\ ~Has(life_q'[e], Head(life_q[e]))
      BY <3>1, <1>i, LifeQueue
    <3> QED
      BY <3>1, <3>2, <1>i, HandFields DEF PlacedInv, InHand, TerminalFrames
  <2>2. ASSUME data_q[e] # <<>>,
               ~(drop_data[e] /\ Head(data_q[e]) = "DATA"),
               hand'[e].frame = Head(data_q[e]),
               ~hand'[e].sent,
               data_q'[e] = Tail(data_q[e]),
               life_q' = life_q
       PROVE  PlacedInv(e)'
    <3>1. /\ hand[e] = NoFrame
          /\ data_q[e] # <<>>
          /\ ~(drop_data[e] /\ Head(data_q[e]) = "DATA")
          /\ hand'[e].frame = Head(data_q[e])
          /\ ~hand'[e].sent
          /\ data_q'[e] = Tail(data_q[e])
          /\ life_q' = life_q
          /\ UNCHANGED <<closer, local_terminal, local_terminal_sent>>
      BY <1>11, <2>2, At_writer_take
    <3>2. /\ Head(data_q[e]) \in {"DATA", "FIN"}
          /\ Has(data_q[e], "FIN") <=> Head(data_q[e]) = "FIN" \/ Has(data_q'[e], "FIN")
          /\ FinLast(data_q[e]) => FinLast(data_q'[e])
          /\ FinLast(data_q[e]) /\ Head(data_q[e]) = "FIN" => data_q'[e] = <<>>
                 /\ ~Has(data_q'[e], "FIN")
      BY <3>1, <1>i, DataQueue
    <3> QED
      BY <3>1, <3>2, <1>i, HandFields DEF PlacedInv, InHand, TerminalFrames
  <2>3. ASSUME data_q[e] # <<>>,
               drop_data[e],
               Head(data_q[e]) = "DATA",
               hand'[e] = NoFrame,
               data_q'[e] = Tail(data_q[e]),
               life_q' = life_q
       PROVE  PlacedInv(e)'
    <3>1. /\ hand[e] = NoFrame
          /\ data_q[e] # <<>>
          /\ Head(data_q[e]) = "DATA"
          /\ hand'[e] = NoFrame
          /\ data_q'[e] = Tail(data_q[e])
          /\ life_q' = life_q
          /\ UNCHANGED <<closer, local_terminal, local_terminal_sent>>
      BY <1>11, <2>3, At_writer_take
    <3>2. /\ Head(data_q[e]) \in {"DATA", "FIN"}
          /\ Has(data_q[e], "FIN") <=> Head(data_q[e]) = "FIN" \/ Has(data_q'[e], "FIN")
          /\ FinLast(data_q[e]) => FinLast(data_q'[e])
          /\ FinLast(data_q[e]) /\ Head(data_q[e]) = "FIN" => data_q'[e] = <<>>
                 /\ ~Has(data_q'[e], "FIN")
      BY <3>1, <1>i, DataQueue
    <3> QED
      BY <3>1, <3>2, <1>i, HandFields DEF PlacedInv, InHand, TerminalFrames
  <2> QED
    BY <1>11, <2>1, <2>2, <2>3, At_writer_take
<1>12. ASSUME x = e, writer_send(e) PROVE PlacedInv(e)'
  <2>1. /\ hand[e].frame \in Frames \ {"CLOSE"}
        /\ ~hand[e].sent
        /\ ~dc_closed[e]
        /\ closing[e] # "sent"
        /\ chan'[e] = Append(chan[e], hand[e].frame)
        /\ hand'[e].frame = hand[e].frame
        /\ hand'[e].sent
        /\ UNCHANGED <<closer, data_q, life_q, local_terminal, local_terminal_sent>>
    BY <1>12, At_writer_send
  <2> QED
    BY <2>1, <1>i, HandFields DEF PlacedInv, InHand, TerminalFrames
<1>13. ASSUME x = e, writer_fail(e) PROVE PlacedInv(e)'
  <2>1. /\ ~hand[e].sent
        /\ (dc_closed[e] \/ closing[e] = "sent")
        /\ hand'[e] = Ended
        /\ data_q'[e] = <<>>
        /\ life_q'[e] = <<>>
        /\ UNCHANGED <<closer, local_terminal, local_terminal_sent>>
    BY <1>13, At_writer_fail
  <2>2. /\ ~Has(data_q'[e], "FIN") /\ FinLast(data_q'[e])
    BY <2>1, <1>i, DataQueue
  <2>3. /\ NoneTwice(life_q'[e]) /\ \A g : ~Has(life_q'[e], g)
    BY <2>1, <1>i, LifeQueue
  <2> QED
    BY <2>1, <2>2, <2>3, <1>i, HandFields, <1>c DEF PlacedInv, InHand, TerminalFrames
<1>14. ASSUME x = e, writer_sent(e) PROVE PlacedInv(e)'
  <2>1. /\ hand[e].sent
        /\ local_terminal_sent'[e] <=> local_terminal_sent[e] \/ InHand(e)
        /\ hand'[e] = NoFrame
        /\ (maybe_retire(e) \/ UNCHANGED <<retired_fired, closing>>)
        /\ UNCHANGED <<closer, data_q, life_q, local_terminal>>
    BY <1>14, At_writer_sent
  <2> QED
    BY <2>1, <1>i, HandFields DEF PlacedInv, InHand, TerminalFrames
<1>15. ASSUME x = e, on_stop_sending(e) PROVE PlacedInv(e)'
  <2>1. ASSUME chan'[peer(e)] = Tail(chan[peer(e)]),
               local_terminal[e] = "none",
               local_terminal'[e] = "reset",
               drop_data'[e],
               life_q'[e] = Append(life_q[e], "RESET")
       PROVE  PlacedInv(e)'
    <3>1. /\ local_terminal[e] = "none"
          /\ local_terminal'[e] = "reset"
          /\ life_q'[e] = Append(life_q[e], "RESET")
          /\ UNCHANGED <<closer, data_q, hand, local_terminal_sent>>
      BY <1>15, <2>1, At_on_stop_sending
    <3>2. /\ \A g : Has(life_q'[e], g) <=> Has(life_q[e], g) \/ g = "RESET"
          /\ NoneTwice(life_q[e]) /\ ~Has(life_q[e], "RESET") => NoneTwice(life_q'[e])
      BY <3>1, <1>i, LifeQueue
    <3> QED
      BY <3>1, <3>2, <1>i DEF PlacedInv, InHand, TerminalFrames
  <2>2. ASSUME chan'[peer(e)] = Tail(chan[peer(e)]),
               UNCHANGED <<local_terminal, drop_data, life_q, retired_fired, closing>>
       PROVE  PlacedInv(e)'
    <3>1. /\ UNCHANGED <<local_terminal, drop_data, life_q, retired_fired, closing>>
          /\ UNCHANGED <<closer, data_q, hand, local_terminal_sent>>
      BY <1>15, <2>2, At_on_stop_sending
    <3> QED
      BY <3>1, <1>i DEF PlacedInv, InHand, TerminalFrames
  <2> QED
    BY <1>15, <2>1, <2>2, At_on_stop_sending
<1> QED
  BY <1>0, <1>1, <1>2, <1>3, <1>4, <1>5, <1>6, <1>7, <1>8, <1>9, <1>10, <1>11, <1>12, <1>13,
     <1>14, <1>15 DEF Application, WriterTask, Callback

(* What reading has come to stays so.                                       *)
LEMMA StepRead ==
    ASSUME IInv, Typed, Next, NEW x \in Endpoints
    PROVE  ReadInv(x)'
<1>0. PICK e \in Endpoints : Application(e) \/ WriterTask(e) \/ Callback(e)
  BY DEF Next
<1>i. ReadInv(e) /\ ReadInv(x)
  BY DEF IInv, EndInv
<1>t. inbuf[e] \in Nat /\ peer_terminal[e] \in {"none", "fin", "reset"}
  BY DEF Typed
<1>1. CASE x # e
  <2>1. /\ dc_closed'[x] = dc_closed[x] /\ inbuf'[x] = inbuf[x]
        /\ peer_terminal'[x] = peer_terminal[x] /\ read_cancel'[x] = read_cancel[x]
        /\ read_end'[x] = read_end[x] /\ retired_fired'[x] = retired_fired[x]
    BY <1>0, <1>1, Elsewhere
  <2> QED
    BY <1>i, <2>1 DEF ReadInv
<1>2. ASSUME x = e,
             \/ poll_write(e) \/ close_write(e) \/ abandon_close(e) \/ poll_shutdown(e)
             \/ writer_take(e) \/ writer_send(e) \/ writer_fail(e) \/ close_channel(e)
      PROVE  ReadInv(x)'
  <2>1. UNCHANGED <<dc_closed, inbuf, peer_terminal, read_cancel, read_end, retired_fired>>
    BY <1>2, At_poll_write, At_close_write, At_abandon_close, At_poll_shutdown, At_writer_take,
       At_writer_send, At_writer_fail, At_close_channel
  <2> QED
    BY <1>i, <2>1 DEF ReadInv
<1>3. ASSUME x = e, queue_fin(e) PROVE ReadInv(e)'
  <2>1. /\ UNCHANGED <<dc_closed, inbuf, peer_terminal, read_cancel, read_end>>
    BY <1>3, At_queue_fin
  <2>2. retired_fired'[e] => \/ retired_fired[e]
                             \/ peer_terminal'[e] # "none" /\ inbuf'[e] = 0 /\ dc_closed'[e]
    BY <1>3, At_queue_fin, Retiring
  <2> QED
    BY <2>1, <2>2, <1>i, <1>t DEF ReadInv
<1>4. ASSUME x = e, poll_shutdown_reserve(e) PROVE ReadInv(e)'
  <2>1. ASSUME closer'[e] = "none",
               data_q'[e] = Append(data_q[e], "FIN"),
               local_terminal' = local_terminal
       PROVE  ReadInv(e)'
    <3>1. /\ UNCHANGED <<dc_closed, inbuf, peer_terminal, read_cancel, read_end>>
      BY <1>4, <2>1, At_poll_shutdown_reserve
    <3>2. retired_fired'[e] => \/ retired_fired[e]
                               \/ peer_terminal'[e] # "none" /\ inbuf'[e] = 0 /\ dc_closed'[e]
      BY <1>4, <2>1, At_poll_shutdown_reserve, Retiring
    <3> QED
      BY <3>1, <3>2, <1>i, <1>t DEF ReadInv
  <2>2. ASSUME closer'[e] = "none",
               data_q' = data_q,
               local_terminal'[e] = "none",
               UNCHANGED <<retired_fired, closing>>
       PROVE  ReadInv(e)'
    <3>1. /\ UNCHANGED <<retired_fired, closing>>
          /\ UNCHANGED <<dc_closed, inbuf, peer_terminal, read_cancel, read_end>>
      BY <1>4, <2>2, At_poll_shutdown_reserve
    <3> QED
      BY <3>1, <1>i, <1>t DEF ReadInv
  <2> QED
    BY <1>4, <2>1, <2>2, At_poll_shutdown_reserve
<1>5. ASSUME x = e, reset_write(e) PROVE ReadInv(e)'
  <2>1. /\ UNCHANGED <<dc_closed, inbuf, peer_terminal, read_cancel, read_end>>
    BY <1>5, At_reset_write
  <2>2. retired_fired'[e] => \/ retired_fired[e]
                             \/ peer_terminal'[e] # "none" /\ inbuf'[e] = 0 /\ dc_closed'[e]
    BY <1>5, At_reset_write, Retiring
  <2> QED
    BY <2>1, <2>2, <1>i, <1>t DEF ReadInv
<1>6. ASSUME x = e, poll_read(e) PROVE ReadInv(e)'
  <2>1. /\ inbuf[e] > 0
        /\ inbuf'[e] = inbuf[e] - 1
        /\ UNCHANGED <<dc_closed, peer_terminal, read_cancel, read_end>>
    BY <1>6, At_poll_read
  <2>2. retired_fired'[e] => \/ retired_fired[e]
                             \/ peer_terminal'[e] # "none" /\ inbuf'[e] = 0 /\ dc_closed'[e]
    BY <1>6, At_poll_read, Retiring
  <2> QED
    BY <2>1, <2>2, <1>i, <1>t DEF ReadInv
<1>7. ASSUME x = e, poll_read_end(e) PROVE ReadInv(e)'
  <2>1. /\ read_end[e] = "open"
        /\ inbuf[e] = 0
        /\ ~read_cancel[e]
        /\ peer_terminal[e] # "none"
        /\ read_end'[e] = IF peer_terminal[e] = "fin" THEN "eof" ELSE "error"
        /\ UNCHANGED <<dc_closed, inbuf, peer_terminal, read_cancel, retired_fired>>
    BY <1>7, At_poll_read_end
  <2> QED
    BY <2>1, <1>i, <1>t DEF ReadInv
<1>8. ASSUME x = e, cancel_read(e) PROVE ReadInv(e)'
  <2>1. ASSUME peer_terminal[e] = "none",
               read_cancel'[e],
               inbuf'[e] = 0,
               life_q'[e] = Append(life_q[e], "STOP")
       PROVE  ReadInv(e)'
    <3>1. /\ ~read_cancel[e]
          /\ peer_terminal[e] = "none"
          /\ read_cancel'[e]
          /\ inbuf'[e] = 0
          /\ UNCHANGED <<dc_closed, peer_terminal, read_end>>
      BY <1>8, <2>1, At_cancel_read
    <3>2. retired_fired'[e] => \/ retired_fired[e]
                               \/ peer_terminal'[e] # "none" /\ inbuf'[e] = 0 /\ dc_closed'[e]
      BY <1>8, <2>1, At_cancel_read, Retiring
    <3> QED
      BY <3>1, <3>2, <1>i, <1>t DEF ReadInv
  <2>2. ASSUME peer_terminal[e] # "none",
               read_cancel'[e],
               inbuf'[e] = 0,
               life_q'[e] = life_q[e]
       PROVE  ReadInv(e)'
    <3>1. /\ ~read_cancel[e]
          /\ peer_terminal[e] # "none"
          /\ read_cancel'[e]
          /\ inbuf'[e] = 0
          /\ UNCHANGED <<dc_closed, peer_terminal, read_end>>
      BY <1>8, <2>2, At_cancel_read
    <3>2. retired_fired'[e] => \/ retired_fired[e]
                               \/ peer_terminal'[e] # "none" /\ inbuf'[e] = 0 /\ dc_closed'[e]
      BY <1>8, <2>2, At_cancel_read, Retiring
    <3> QED
      BY <3>1, <3>2, <1>i, <1>t DEF ReadInv
  <2> QED
    BY <1>8, <2>1, <2>2, At_cancel_read
<1>9. ASSUME x = e, writer_sent(e) PROVE ReadInv(e)'
  <2>1. /\ (maybe_retire(e) \/ UNCHANGED <<retired_fired, closing>>)
        /\ UNCHANGED <<dc_closed, inbuf, peer_terminal, read_cancel, read_end>>
    BY <1>9, At_writer_sent
  <2>2. retired_fired'[e] => \/ retired_fired[e]
                             \/ peer_terminal'[e] # "none" /\ inbuf'[e] = 0 /\ dc_closed'[e]
    BY <1>9, At_writer_sent, Retiring
  <2> QED
    BY <2>1, <2>2, <1>i, HandFields, <1>t DEF ReadInv
<1>10. ASSUME x = e, on_data(e) PROVE ReadInv(e)'
  <2>1. /\ fatal' = IF peer_terminal[e] # "none" THEN "DATA after terminal frame" ELSE fatal
        /\ inbuf'[e] = IF read_cancel[e] \/ peer_terminal[e] # "none" THEN inbuf[e]
               ELSE inbuf[e] + 1
        /\ UNCHANGED <<dc_closed, peer_terminal, read_cancel, read_end, retired_fired>>
    BY <1>10, At_on_data
  <2> QED
    BY <2>1, <1>i, <1>t DEF ReadInv
<1>11. ASSUME x = e, NEW f \in TerminalFrames, on_terminal(e, f) PROVE ReadInv(e)'
  <2>1. /\ fatal' = IF peer_terminal[e] # "none" THEN "second terminal frame" ELSE fatal
        /\ peer_terminal'[e] = IF peer_terminal[e] # "none" THEN peer_terminal[e]
                                    ELSE IF f = "FIN" THEN "fin" ELSE "reset"
        /\ inbuf'[e] = IF f = "FIN" \/ peer_terminal[e] # "none" THEN inbuf[e] ELSE 0
        /\ UNCHANGED <<dc_closed, read_cancel, read_end>>
    BY <1>11, At_on_terminal
  <2>2. retired_fired'[e] => \/ retired_fired[e]
                             \/ peer_terminal'[e] # "none" /\ inbuf'[e] = 0 /\ dc_closed'[e]
    BY <1>11, At_on_terminal, Retiring
  <2> QED
    BY <2>1, <2>2, <1>i, <1>t DEF ReadInv
<1>12. ASSUME x = e, on_stop_sending(e) PROVE ReadInv(e)'
  <2>1. ASSUME chan'[peer(e)] = Tail(chan[peer(e)]),
               local_terminal[e] = "none",
               local_terminal'[e] = "reset",
               drop_data'[e],
               life_q'[e] = Append(life_q[e], "RESET")
       PROVE  ReadInv(e)'
    <3>1. /\ UNCHANGED <<dc_closed, inbuf, peer_terminal, read_cancel, read_end>>
      BY <1>12, <2>1, At_on_stop_sending
    <3>2. retired_fired'[e] => \/ retired_fired[e]
                               \/ peer_terminal'[e] # "none" /\ inbuf'[e] = 0 /\ dc_closed'[e]
      BY <1>12, <2>1, At_on_stop_sending, Retiring
    <3> QED
      BY <3>1, <3>2, <1>i, <1>t DEF ReadInv
  <2>2. ASSUME chan'[peer(e)] = Tail(chan[peer(e)]),
               UNCHANGED <<local_terminal, drop_data, life_q, retired_fired, closing>>
       PROVE  ReadInv(e)'
    <3>1. /\ UNCHANGED <<local_terminal, drop_data, life_q, retired_fired, closing>>
          /\ UNCHANGED <<dc_closed, inbuf, peer_terminal, read_cancel, read_end>>
      BY <1>12, <2>2, At_on_stop_sending
    <3> QED
      BY <3>1, <1>i, <1>t DEF ReadInv
  <2> QED
    BY <1>12, <2>1, <2>2, At_on_stop_sending
<1>13. ASSUME x = e, on_channel_close(e) PROVE ReadInv(e)'
  <2>1. /\ dc_closed'[e]
        /\ chan'[e] = IF closing[e] = "sent" THEN chan[e] ELSE Append(chan[e], "CLOSE")
        /\ fatal' = IF local_terminal_sent[e] /\ peer_terminal[e] # "none"
                       THEN fatal ELSE "data channel closed mid-stream"
        /\ UNCHANGED <<inbuf, peer_terminal, read_cancel, read_end>>
    BY <1>13, At_on_channel_close
  <2>2. retired_fired'[e] => \/ retired_fired[e]
                             \/ peer_terminal'[e] # "none" /\ inbuf'[e] = 0 /\ dc_closed'[e]
    BY <1>13, At_on_channel_close, Retiring
  <2> QED
    BY <2>1, <2>2, <1>i, <1>t DEF ReadInv
<1> QED
  BY <1>0, <1>1, <1>2, <1>3, <1>4, <1>5, <1>6, <1>7, <1>8, <1>9, <1>10, <1>11, <1>12, <1>13
     DEF Application, WriterTask, Callback

(* STOP_SENDING stays the frame of an endpoint that has cancelled.          *)
LEMMA StepStop ==
    ASSUME IInv, Typed, Next, NEW x \in Endpoints
    PROVE  StopInv(x)'
<1>0. PICK e \in Endpoints : Application(e) \/ WriterTask(e) \/ Callback(e)
  BY DEF Next
<1>i. StopInv(e) /\ StopInv(x)
  BY DEF IInv, EndInv
<1>1. CASE x # e
  <2>1. x = peer(e) /\ peer(x) = e
    BY <1>1, Peers
  <2>2. hand'[x] = hand[x] /\ life_q'[x] = life_q[x] /\ read_cancel'[x] = read_cancel[x]
    BY <1>0, <1>1, Elsewhere
  <2>3. CASE Application(e) \/ WriterTask(e)
    <3>1. chan'[x] = chan[x] /\ fatal' = fatal
      BY <2>1, <2>3, Quiet
    <3> QED
      BY <1>i, <2>1, <2>2, <3>1 DEF StopInv
  <2>4. ASSUME on_data(e) PROVE StopInv(x)'
    <3>1. /\ chan[x] # <<>> /\ Head(chan[x]) = "DATA"
          /\ chan'[x] = Tail(chan[x])
          /\ fatal' = IF peer_terminal[e] # "none" THEN "DATA after terminal frame" ELSE fatal
      BY <2>1, <2>4, At_on_data
    <3>2. /\ \A g : Has(chan[x], g) <=> "DATA" = g \/ Has(chan'[x], g)
          /\ Orderly(chan[x]) => Orderly(chan'[x])
      BY <3>1, ChannelTakes
    <3> QED
      BY <1>i, <2>1, <2>2, <3>1, <3>2 DEF StopInv
  <2>5. ASSUME NEW f \in TerminalFrames, on_terminal(e, f) PROVE StopInv(x)'
    <3>1. /\ chan[x] # <<>> /\ Head(chan[x]) = f
          /\ chan'[x] = Tail(chan[x])
          /\ fatal' = IF peer_terminal[e] # "none" THEN "second terminal frame" ELSE fatal
      BY <2>1, <2>5, At_on_terminal
    <3>2. /\ \A g : Has(chan[x], g) <=> f = g \/ Has(chan'[x], g)
          /\ Orderly(chan[x]) => Orderly(chan'[x])
          /\ Orderly(chan[x]) =>
               ~HasTerminal(chan'[x]) /\ ~Has(chan'[x], "DATA")
      BY <3>1, ChannelTakes
    <3> QED
      BY <1>i, <2>1, <2>2, <3>1, <3>2 DEF StopInv
  <2>6. ASSUME on_stop_sending(e) PROVE StopInv(x)'
    <3>1. /\ chan[x] # <<>> /\ Head(chan[x]) = "STOP"
          /\ chan'[x] = Tail(chan[x])
          /\ fatal' = fatal
      BY <2>1, <2>6, At_on_stop_sending
    <3>2. /\ \A g : Has(chan[x], g) <=> "STOP" = g \/ Has(chan'[x], g)
          /\ Orderly(chan[x]) => Orderly(chan'[x])
      BY <3>1, ChannelTakes
    <3> QED
      BY <1>i, <2>1, <2>2, <3>1, <3>2 DEF StopInv
  <2>7. ASSUME on_channel_close(e) PROVE StopInv(x)'
    <3>1. /\ chan[x] # <<>> /\ Head(chan[x]) = "CLOSE"
          /\ chan'[x] = Tail(chan[x])
          /\ fatal' = IF local_terminal_sent[e] /\ peer_terminal[e] # "none"
                     THEN fatal ELSE "data channel closed mid-stream"
      BY <2>1, <2>7, At_on_channel_close
    <3>2. /\ \A g : Has(chan[x], g) <=> "CLOSE" = g \/ Has(chan'[x], g)
          /\ Orderly(chan[x]) => Orderly(chan'[x])
          /\ Orderly(chan[x]) => chan'[x] = <<>>
      BY <3>1, ChannelTakes
    <3>3. chan'[x] = <<>> => \A g : ~Has(chan'[x], g)
      BY HasEmpty
    <3> QED
      BY <1>i, <2>1, <2>2, <3>1, <3>2, <3>3 DEF StopInv
  <2> QED
    BY <1>0, <2>3, <2>4, <2>5, <2>6, <2>7 DEF Callback
<1>2. ASSUME x = e,
             \/ close_write(e) \/ abandon_close(e) \/ poll_shutdown(e) \/ poll_read(e)
             \/ poll_read_end(e)
      PROVE  StopInv(x)'
  <2>1. UNCHANGED <<chan, data_q, hand, life_q, read_cancel>>
    BY <1>2, At_close_write, At_abandon_close, At_poll_shutdown, At_poll_read, At_poll_read_end
  <2> QED
    BY <1>i, <2>1 DEF StopInv
<1>3. ASSUME x = e, poll_write(e) PROVE StopInv(e)'
  <2>1. /\ ~dc_closed[e]
        /\ data_q'[e] = Append(data_q[e], "DATA")
        /\ UNCHANGED <<chan, hand, life_q, read_cancel>>
    BY <1>3, At_poll_write
  <2>2. /\ Has(data_q'[e], "FIN") <=> Has(data_q[e], "FIN")
        /\ FinLast(data_q[e]) /\ ~Has(data_q[e], "FIN") => FinLast(data_q'[e])
    BY <2>1, <1>i, DataQueue
  <2> QED
    BY <2>1, <2>2, <1>i DEF StopInv
<1>4. ASSUME x = e, queue_fin(e) PROVE StopInv(e)'
  <2>1. /\ data_q'[e] = Append(data_q[e], "FIN")
        /\ UNCHANGED <<chan, hand, life_q, read_cancel>>
    BY <1>4, At_queue_fin
  <2>2. /\ Has(data_q'[e], "FIN")
        /\ FinLast(data_q[e]) /\ ~Has(data_q[e], "FIN") => FinLast(data_q'[e])
    BY <2>1, <1>i, DataQueue
  <2> QED
    BY <2>1, <2>2, <1>i DEF StopInv
<1>5. ASSUME x = e, poll_shutdown_reserve(e) PROVE StopInv(e)'
  <2>1. ASSUME closer'[e] = "none",
               data_q'[e] = Append(data_q[e], "FIN"),
               local_terminal' = local_terminal
       PROVE  StopInv(e)'
    <3>1. /\ data_q'[e] = Append(data_q[e], "FIN")
          /\ UNCHANGED <<chan, hand, life_q, read_cancel>>
      BY <1>5, <2>1, At_poll_shutdown_reserve
    <3>2. /\ Has(data_q'[e], "FIN")
          /\ FinLast(data_q[e]) /\ ~Has(data_q[e], "FIN") => FinLast(data_q'[e])
      BY <3>1, <1>i, DataQueue
    <3> QED
      BY <3>1, <3>2, <1>i DEF StopInv
  <2>2. ASSUME closer'[e] = "none",
               data_q' = data_q,
               local_terminal'[e] = "none",
               UNCHANGED <<retired_fired, closing>>
       PROVE  StopInv(e)'
    <3>1. /\ data_q' = data_q
          /\ UNCHANGED <<chan, hand, life_q, read_cancel>>
      BY <1>5, <2>2, At_poll_shutdown_reserve
    <3> QED
      BY <3>1, <1>i DEF StopInv
  <2> QED
    BY <1>5, <2>1, <2>2, At_poll_shutdown_reserve
<1>6. ASSUME x = e, reset_write(e) PROVE StopInv(e)'
  <2>1. /\ life_q'[e] = Append(life_q[e], "RESET")
        /\ UNCHANGED <<chan, data_q, hand, read_cancel>>
    BY <1>6, At_reset_write
  <2>2. /\ \A g : Has(life_q'[e], g) <=> Has(life_q[e], g) \/ g = "RESET"
        /\ NoneTwice(life_q[e]) /\ ~Has(life_q[e], "RESET") => NoneTwice(life_q'[e])
    BY <2>1, <1>i, LifeQueue
  <2> QED
    BY <2>1, <2>2, <1>i DEF StopInv
<1>7. ASSUME x = e, cancel_read(e) PROVE StopInv(e)'
  <2>1. ASSUME peer_terminal[e] = "none",
               read_cancel'[e],
               inbuf'[e] = 0,
               life_q'[e] = Append(life_q[e], "STOP")
       PROVE  StopInv(e)'
    <3>1. /\ ~read_cancel[e]
          /\ read_cancel'[e]
          /\ life_q'[e] = Append(life_q[e], "STOP")
          /\ UNCHANGED <<chan, data_q, hand>>
      BY <1>7, <2>1, At_cancel_read
    <3>2. /\ \A g : Has(life_q'[e], g) <=> Has(life_q[e], g) \/ g = "STOP"
          /\ NoneTwice(life_q[e]) /\ ~Has(life_q[e], "STOP") => NoneTwice(life_q'[e])
      BY <3>1, <1>i, LifeQueue
    <3> QED
      BY <3>1, <3>2, <1>i DEF StopInv
  <2>2. ASSUME peer_terminal[e] # "none",
               read_cancel'[e],
               inbuf'[e] = 0,
               life_q'[e] = life_q[e]
       PROVE  StopInv(e)'
    <3>1. /\ ~read_cancel[e]
          /\ read_cancel'[e]
          /\ life_q'[e] = life_q[e]
          /\ UNCHANGED <<chan, data_q, hand>>
      BY <1>7, <2>2, At_cancel_read
    <3> QED
      BY <3>1, <1>i DEF StopInv
  <2> QED
    BY <1>7, <2>1, <2>2, At_cancel_read
<1>8. ASSUME x = e, writer_take(e) PROVE StopInv(e)'
  <2>1. ASSUME life_q[e] # <<>>,
               hand'[e].frame = Head(life_q[e]),
               ~hand'[e].sent,
               life_q'[e] = Tail(life_q[e]),
               data_q' = data_q
       PROVE  StopInv(e)'
    <3>1. /\ hand[e] = NoFrame
          /\ life_q[e] # <<>>
          /\ hand'[e].frame = Head(life_q[e])
          /\ ~hand'[e].sent
          /\ life_q'[e] = Tail(life_q[e])
          /\ data_q' = data_q
          /\ UNCHANGED <<chan, read_cancel>>
      BY <1>8, <2>1, At_writer_take
    <3>2. /\ Head(life_q[e]) \in {"RESET", "STOP"}
          /\ \A g : Has(life_q[e], g) <=> Head(life_q[e]) = g \/ Has(life_q'[e], g)
          /\ NoneTwice(life_q[e]) => NoneTwice(life_q'[e]) /\ ~Has(life_q'[e], Head(life_q[e]))
      BY <3>1, <1>i, LifeQueue
    <3> QED
      BY <3>1, <3>2, <1>i, HandFields DEF StopInv
  <2>2. ASSUME data_q[e] # <<>>,
               ~(drop_data[e] /\ Head(data_q[e]) = "DATA"),
               hand'[e].frame = Head(data_q[e]),
               ~hand'[e].sent,
               data_q'[e] = Tail(data_q[e]),
               life_q' = life_q
       PROVE  StopInv(e)'
    <3>1. /\ hand[e] = NoFrame
          /\ data_q[e] # <<>>
          /\ ~(drop_data[e] /\ Head(data_q[e]) = "DATA")
          /\ hand'[e].frame = Head(data_q[e])
          /\ ~hand'[e].sent
          /\ data_q'[e] = Tail(data_q[e])
          /\ life_q' = life_q
          /\ UNCHANGED <<chan, read_cancel>>
      BY <1>8, <2>2, At_writer_take
    <3>2. /\ Head(data_q[e]) \in {"DATA", "FIN"}
          /\ Has(data_q[e], "FIN") <=> Head(data_q[e]) = "FIN" \/ Has(data_q'[e], "FIN")
          /\ FinLast(data_q[e]) => FinLast(data_q'[e])
          /\ FinLast(data_q[e]) /\ Head(data_q[e]) = "FIN" => data_q'[e] = <<>>
                 /\ ~Has(data_q'[e], "FIN")
      BY <3>1, <1>i, DataQueue
    <3> QED
      BY <3>1, <3>2, <1>i, HandFields DEF StopInv
  <2>3. ASSUME data_q[e] # <<>>,
               drop_data[e],
               Head(data_q[e]) = "DATA",
               hand'[e] = NoFrame,
               data_q'[e] = Tail(data_q[e]),
               life_q' = life_q
       PROVE  StopInv(e)'
    <3>1. /\ hand[e] = NoFrame
          /\ data_q[e] # <<>>
          /\ Head(data_q[e]) = "DATA"
          /\ hand'[e] = NoFrame
          /\ data_q'[e] = Tail(data_q[e])
          /\ life_q' = life_q
          /\ UNCHANGED <<chan, read_cancel>>
      BY <1>8, <2>3, At_writer_take
    <3>2. /\ Head(data_q[e]) \in {"DATA", "FIN"}
          /\ Has(data_q[e], "FIN") <=> Head(data_q[e]) = "FIN" \/ Has(data_q'[e], "FIN")
          /\ FinLast(data_q[e]) => FinLast(data_q'[e])
          /\ FinLast(data_q[e]) /\ Head(data_q[e]) = "FIN" => data_q'[e] = <<>>
                 /\ ~Has(data_q'[e], "FIN")
      BY <3>1, <1>i, DataQueue
    <3> QED
      BY <3>1, <3>2, <1>i, HandFields DEF StopInv
  <2> QED
    BY <1>8, <2>1, <2>2, <2>3, At_writer_take
<1>9. ASSUME x = e, writer_send(e) PROVE StopInv(e)'
  <2>1. /\ hand[e].frame \in Frames \ {"CLOSE"}
        /\ ~hand[e].sent
        /\ ~dc_closed[e]
        /\ closing[e] # "sent"
        /\ chan'[e] = Append(chan[e], hand[e].frame)
        /\ hand'[e].frame = hand[e].frame
        /\ hand'[e].sent
        /\ UNCHANGED <<data_q, life_q, read_cancel>>
    BY <1>9, At_writer_send
  <2>2. /\ \A g : Has(chan'[e], g) <=> Has(chan[e], g) \/ hand[e].frame = g
    BY <2>1, <1>i, ChannelGets DEF Frames
  <2> QED
    BY <2>1, <2>2, <1>i, HandFields DEF StopInv
<1>10. ASSUME x = e, writer_fail(e) PROVE StopInv(e)'
  <2>1. /\ ~hand[e].sent
        /\ (dc_closed[e] \/ closing[e] = "sent")
        /\ hand'[e] = Ended
        /\ data_q'[e] = <<>>
        /\ life_q'[e] = <<>>
        /\ UNCHANGED <<chan, read_cancel>>
    BY <1>10, At_writer_fail
  <2>2. /\ ~Has(data_q'[e], "FIN") /\ FinLast(data_q'[e])
    BY <2>1, <1>i, DataQueue
  <2>3. /\ NoneTwice(life_q'[e]) /\ \A g : ~Has(life_q'[e], g)
    BY <2>1, <1>i, LifeQueue
  <2> QED
    BY <2>1, <2>2, <2>3, <1>i, HandFields DEF StopInv
<1>11. ASSUME x = e, writer_sent(e) PROVE StopInv(e)'
  <2>1. /\ hand[e].sent
        /\ hand'[e] = NoFrame
        /\ (maybe_retire(e) \/ UNCHANGED <<retired_fired, closing>>)
        /\ UNCHANGED <<chan, data_q, life_q, read_cancel>>
    BY <1>11, At_writer_sent
  <2> QED
    BY <2>1, <1>i, HandFields DEF StopInv
<1>12. ASSUME x = e, close_channel(e) PROVE StopInv(e)'
  <2>1. /\ closing[e] = "asked"
        /\ ~dc_closed[e]
        /\ closing'[e] = "sent"
        /\ chan'[e] = Append(chan[e], "CLOSE")
        /\ UNCHANGED <<data_q, hand, life_q, read_cancel>>
    BY <1>12, At_close_channel
  <2>2. /\ \A g : Has(chan'[e], g) <=> Has(chan[e], g) \/ "CLOSE" = g
    BY <2>1, <1>i, ChannelGets DEF Frames
  <2> QED
    BY <2>1, <2>2, <1>i DEF StopInv
<1>13. ASSUME x = e, on_data(e) PROVE StopInv(e)'
  <2>1. /\ chan[peer(e)] # <<>>
        /\ Head(chan[peer(e)]) = "DATA"
        /\ inbuf'[e] = IF read_cancel[e] \/ peer_terminal[e] # "none" THEN inbuf[e]
               ELSE inbuf[e] + 1
        /\ chan'[e] = chan[e]
        /\ UNCHANGED <<data_q, hand, life_q, read_cancel>>
    BY <1>13, At_on_data
  <2> QED
    BY <2>1, <1>i DEF StopInv
<1>14. ASSUME x = e, NEW f \in TerminalFrames, on_terminal(e, f) PROVE StopInv(e)'
  <2>1. /\ chan[peer(e)] # <<>>
        /\ Head(chan[peer(e)]) = f
        /\ chan'[e] = chan[e]
        /\ UNCHANGED <<data_q, hand, life_q, read_cancel>>
    BY <1>14, At_on_terminal
  <2> QED
    BY <2>1, <1>i DEF StopInv
<1>15. ASSUME x = e, on_stop_sending(e) PROVE StopInv(e)'
  <2>1. ASSUME chan'[peer(e)] = Tail(chan[peer(e)]),
               local_terminal[e] = "none",
               local_terminal'[e] = "reset",
               drop_data'[e],
               life_q'[e] = Append(life_q[e], "RESET")
       PROVE  StopInv(e)'
    <3>1. /\ chan[peer(e)] # <<>>
          /\ Head(chan[peer(e)]) = "STOP"
          /\ life_q'[e] = Append(life_q[e], "RESET")
          /\ chan'[e] = chan[e]
          /\ UNCHANGED <<data_q, hand, read_cancel>>
      BY <1>15, <2>1, At_on_stop_sending
    <3>2. /\ \A g : Has(life_q'[e], g) <=> Has(life_q[e], g) \/ g = "RESET"
          /\ NoneTwice(life_q[e]) /\ ~Has(life_q[e], "RESET") => NoneTwice(life_q'[e])
      BY <3>1, <1>i, LifeQueue
    <3> QED
      BY <3>1, <3>2, <1>i DEF StopInv
  <2>2. ASSUME chan'[peer(e)] = Tail(chan[peer(e)]),
               UNCHANGED <<local_terminal, drop_data, life_q, retired_fired, closing>>
       PROVE  StopInv(e)'
    <3>1. /\ chan[peer(e)] # <<>>
          /\ Head(chan[peer(e)]) = "STOP"
          /\ UNCHANGED <<local_terminal, drop_data, life_q, retired_fired, closing>>
          /\ chan'[e] = chan[e]
          /\ UNCHANGED <<data_q, hand, read_cancel>>
      BY <1>15, <2>2, At_on_stop_sending
    <3> QED
      BY <3>1, <1>i DEF StopInv
  <2> QED
    BY <1>15, <2>1, <2>2, At_on_stop_sending
<1>16. ASSUME x = e, on_channel_close(e) PROVE StopInv(e)'
  <2>1. ASSUME dc_closed'[e],
               closing[e] = "sent",
               chan'[e] = chan[e],
               fatal' = "none" => local_terminal_sent[e] /\ peer_terminal[e] # "none"
       PROVE  StopInv(e)'
    <3>1. /\ chan[peer(e)] # <<>>
          /\ Head(chan[peer(e)]) = "CLOSE"
          /\ dc_closed'[e]
          /\ closing[e] = "sent"
          /\ chan'[e] = chan[e]
          /\ UNCHANGED <<data_q, hand, life_q, read_cancel>>
      BY <1>16, <2>1, At_on_channel_close
    <3> QED
      BY <3>1, <1>i DEF StopInv
  <2>2. ASSUME dc_closed'[e],
               closing[e] # "sent",
               chan'[e] = Append(chan[e], "CLOSE"),
               fatal' = "none" => local_terminal_sent[e] /\ peer_terminal[e] # "none"
       PROVE  StopInv(e)'
    <3>1. /\ chan[peer(e)] # <<>>
          /\ Head(chan[peer(e)]) = "CLOSE"
          /\ dc_closed'[e]
          /\ closing[e] # "sent"
          /\ chan'[e] = Append(chan[e], "CLOSE")
          /\ UNCHANGED <<data_q, hand, life_q, read_cancel>>
      BY <1>16, <2>2, At_on_channel_close
    <3>2. /\ \A g : Has(chan'[e], g) <=> Has(chan[e], g) \/ "CLOSE" = g
      BY <3>1, <1>i, ChannelGets DEF Frames
    <3> QED
      BY <3>1, <3>2, <1>i DEF StopInv
  <2> QED
    BY <1>16, <2>1, <2>2, At_on_channel_close
<1> QED
  BY <1>0, <1>1, <1>2, <1>3, <1>4, <1>5, <1>6, <1>7, <1>8, <1>9, <1>10, <1>11, <1>12, <1>13,
     <1>14, <1>15, <1>16 DEF Application, WriterTask, Callback

(* The channel's order is kept while neither it nor what has been handed    *)
(* over changes.                                                            *)
LEMMA WireKept ==
    ASSUME NEW x \in Endpoints, WireInv(x), chan'[x] = chan[x],
           peer_terminal'[peer(x)] = peer_terminal[peer(x)], Handed(x)' <=> Handed(x),
           local_terminal'[x] = local_terminal[x] \/ ~Handed(x)
    PROVE  WireInv(x)'
BY DEF WireInv, HasTerminal

(* The channel stays in order, and tells what has been handed over.         *)
LEMMA StepWire ==
    ASSUME IInv, Typed, Next, NEW x \in Endpoints
    PROVE  WireInv(x)'
<1>0. PICK e \in Endpoints : Application(e) \/ WriterTask(e) \/ Callback(e)
  BY DEF Next
<1>i. WireInv(e) /\ WireInv(x) /\ TerminalInv(e)
  BY DEF IInv, EndInv
<1>h. local_terminal[e] = "none" \/ closer[e] # "none" => ~Handed(e)
  <2>1. hand[e].frame \in TerminalFrames => local_terminal[e] # "none"
    BY <1>i DEF TerminalInv, InHand, TerminalFrames
  <2> QED
    BY <1>i, <2>1 DEF TerminalInv, InHand, Handed
<1>c. /\ Has(chan[e], "CLOSE") => closing[e] = "sent" \/ dc_closed[e]
      /\ dc_closed[e] => chan[peer(e)] = <<>>
  BY Peers DEF IInv, EndInv, CloseInv
<1>p. peer(e) \in Endpoints /\ peer(e) # e /\ peer_terminal'[peer(e)] = peer_terminal[peer(e)]
  BY <1>0, Peers, Elsewhere
<1>1. CASE x # e
  <2>1. x = peer(e) /\ peer(x) = e
    BY <1>1, Peers
  <2>2. /\ hand'[x] = hand[x] /\ local_terminal'[x] = local_terminal[x]
        /\ local_terminal_sent'[x] = local_terminal_sent[x]
    BY <1>0, <1>1, Elsewhere
  <2>3. CASE Application(e) \/ WriterTask(e)
    <3>1. chan'[x] = chan[x] /\ fatal' = fatal /\ peer_terminal'[e] = peer_terminal[e]
      BY <2>1, <2>3, Quiet
    <3> QED
      BY <1>i, <2>1, <2>2, <3>1 DEF WireInv, Handed, InHand, HasTerminal, TerminalFrames
  <2>4. ASSUME on_data(e) PROVE WireInv(x)'
    <3>1. /\ chan[x] # <<>> /\ Head(chan[x]) = "DATA"
          /\ chan'[x] = Tail(chan[x])
          /\ fatal' = IF peer_terminal[e] # "none" THEN "DATA after terminal frame" ELSE fatal
          /\ inbuf'[e] = IF read_cancel[e] \/ peer_terminal[e] # "none" THEN inbuf[e]
                 ELSE inbuf[e] + 1
          /\ peer_terminal'[e] = peer_terminal[e]
      BY <2>1, <2>4, At_on_data
    <3>2. /\ \A g : Has(chan[x], g) <=> "DATA" = g \/ Has(chan'[x], g)
          /\ Orderly(chan[x]) => Orderly(chan'[x])
      BY <3>1, ChannelTakes
    <3> QED
      BY <1>i, <2>1, <2>2, <3>1, <3>2 DEF WireInv, Handed, InHand, HasTerminal, TerminalFrames
  <2>5. ASSUME NEW f \in TerminalFrames, on_terminal(e, f) PROVE WireInv(x)'
    <3>1. /\ chan[x] # <<>> /\ Head(chan[x]) = f
          /\ chan'[x] = Tail(chan[x])
          /\ fatal' = IF peer_terminal[e] # "none" THEN "second terminal frame" ELSE fatal
          /\ peer_terminal'[e] = IF peer_terminal[e] # "none" THEN peer_terminal[e]
                                  ELSE IF f = "FIN" THEN "fin" ELSE "reset"
          /\ inbuf'[e] = IF f = "FIN" \/ peer_terminal[e] # "none" THEN inbuf[e] ELSE 0
      BY <2>1, <2>5, At_on_terminal
    <3>2. /\ \A g : Has(chan[x], g) <=> f = g \/ Has(chan'[x], g)
          /\ Orderly(chan[x]) => Orderly(chan'[x])
          /\ Orderly(chan[x]) =>
               ~HasTerminal(chan'[x]) /\ ~Has(chan'[x], "DATA")
      BY <3>1, ChannelTakes
    <3> QED
      BY <1>i, <2>1, <2>2, <3>1, <3>2 DEF WireInv, Handed, InHand, HasTerminal, TerminalFrames
  <2>6. ASSUME on_stop_sending(e) PROVE WireInv(x)'
    <3>1. /\ chan[x] # <<>> /\ Head(chan[x]) = "STOP"
          /\ chan'[x] = Tail(chan[x])
          /\ peer_terminal'[e] = peer_terminal[e]
          /\ fatal' = fatal
      BY <2>1, <2>6, At_on_stop_sending
    <3>2. /\ \A g : Has(chan[x], g) <=> "STOP" = g \/ Has(chan'[x], g)
          /\ Orderly(chan[x]) => Orderly(chan'[x])
      BY <3>1, ChannelTakes
    <3> QED
      BY <1>i, <2>1, <2>2, <3>1, <3>2 DEF WireInv, Handed, InHand, HasTerminal, TerminalFrames
  <2>7. ASSUME on_channel_close(e) PROVE WireInv(x)'
    <3>1. /\ chan[x] # <<>> /\ Head(chan[x]) = "CLOSE"
          /\ chan'[x] = Tail(chan[x])
          /\ fatal' = IF local_terminal_sent[e] /\ peer_terminal[e] # "none"
                     THEN fatal ELSE "data channel closed mid-stream"
          /\ peer_terminal'[e] = peer_terminal[e]
      BY <2>1, <2>7, At_on_channel_close
    <3>2. /\ \A g : Has(chan[x], g) <=> "CLOSE" = g \/ Has(chan'[x], g)
          /\ Orderly(chan[x]) => Orderly(chan'[x])
          /\ Orderly(chan[x]) => chan'[x] = <<>>
      BY <3>1, ChannelTakes
    <3>3. chan'[x] = <<>> => \A g : ~Has(chan'[x], g)
      BY HasEmpty
    <3> QED
      BY <1>i, <2>1, <2>2, <3>1, <3>2, <3>3 DEF WireInv, Handed, InHand, HasTerminal,
         TerminalFrames
  <2> QED
    BY <1>0, <2>3, <2>4, <2>5, <2>6, <2>7 DEF Callback
<1>2. ASSUME x = e, poll_write(e) PROVE WireInv(e)'
  <2>1. chan'[e] = chan[e] /\ (local_terminal'[e] = local_terminal[e] \/ ~Handed(e))
    BY <1>2, <1>h, At_poll_write
  <2>2. hand' = hand /\ local_terminal_sent' = local_terminal_sent
    BY <1>2, At_poll_write
  <2>3. Handed(e)' <=> Handed(e)
    BY <2>2 DEF Handed, InHand
  <2> QED
    BY <1>i, <1>p, <2>1, <2>3, WireKept
<1>3. ASSUME x = e, close_write(e) PROVE WireInv(e)'
  <2>1. chan'[e] = chan[e] /\ (local_terminal'[e] = local_terminal[e] \/ ~Handed(e))
    BY <1>3, <1>h, At_close_write
  <2>2. hand' = hand /\ local_terminal_sent' = local_terminal_sent
    BY <1>3, At_close_write
  <2>3. Handed(e)' <=> Handed(e)
    BY <2>2 DEF Handed, InHand
  <2> QED
    BY <1>i, <1>p, <2>1, <2>3, WireKept
<1>4. ASSUME x = e, queue_fin(e) PROVE WireInv(e)'
  <2>1. chan'[e] = chan[e] /\ (local_terminal'[e] = local_terminal[e] \/ ~Handed(e))
    BY <1>4, <1>h, At_queue_fin
  <2>2. hand' = hand /\ local_terminal_sent' = local_terminal_sent
    BY <1>4, At_queue_fin
  <2>3. Handed(e)' <=> Handed(e)
    BY <2>2 DEF Handed, InHand
  <2> QED
    BY <1>i, <1>p, <2>1, <2>3, WireKept
<1>5. ASSUME x = e, abandon_close(e) PROVE WireInv(e)'
  <2>1. chan'[e] = chan[e] /\ (local_terminal'[e] = local_terminal[e] \/ ~Handed(e))
    BY <1>5, <1>h, At_abandon_close
  <2>2. hand' = hand /\ local_terminal_sent' = local_terminal_sent
    BY <1>5, At_abandon_close
  <2>3. Handed(e)' <=> Handed(e)
    BY <2>2 DEF Handed, InHand
  <2> QED
    BY <1>i, <1>p, <2>1, <2>3, WireKept
<1>6. ASSUME x = e, poll_shutdown(e) PROVE WireInv(e)'
  <2>1. chan'[e] = chan[e] /\ (local_terminal'[e] = local_terminal[e] \/ ~Handed(e))
    BY <1>6, <1>h, At_poll_shutdown
  <2>2. hand' = hand /\ local_terminal_sent' = local_terminal_sent
    BY <1>6, At_poll_shutdown
  <2>3. Handed(e)' <=> Handed(e)
    BY <2>2 DEF Handed, InHand
  <2> QED
    BY <1>i, <1>p, <2>1, <2>3, WireKept
<1>7. ASSUME x = e, poll_shutdown_reserve(e) PROVE WireInv(e)'
  <2>1. chan'[e] = chan[e] /\ (local_terminal'[e] = local_terminal[e] \/ ~Handed(e))
    BY <1>7, <1>h, At_poll_shutdown_reserve
  <2>2. hand' = hand /\ local_terminal_sent' = local_terminal_sent
    BY <1>7, At_poll_shutdown_reserve
  <2>3. Handed(e)' <=> Handed(e)
    BY <2>2 DEF Handed, InHand
  <2> QED
    BY <1>i, <1>p, <2>1, <2>3, WireKept
<1>8. ASSUME x = e, reset_write(e) PROVE WireInv(e)'
  <2>1. chan'[e] = chan[e] /\ (local_terminal'[e] = local_terminal[e] \/ ~Handed(e))
    BY <1>8, <1>h, At_reset_write
  <2>2. hand' = hand /\ local_terminal_sent' = local_terminal_sent
    BY <1>8, At_reset_write
  <2>3. Handed(e)' <=> Handed(e)
    BY <2>2 DEF Handed, InHand
  <2> QED
    BY <1>i, <1>p, <2>1, <2>3, WireKept
<1>9. ASSUME x = e, poll_read(e) PROVE WireInv(e)'
  <2>1. chan'[e] = chan[e] /\ (local_terminal'[e] = local_terminal[e] \/ ~Handed(e))
    BY <1>9, <1>h, At_poll_read
  <2>2. hand' = hand /\ local_terminal_sent' = local_terminal_sent
    BY <1>9, At_poll_read
  <2>3. Handed(e)' <=> Handed(e)
    BY <2>2 DEF Handed, InHand
  <2> QED
    BY <1>i, <1>p, <2>1, <2>3, WireKept
<1>10. ASSUME x = e, poll_read_end(e) PROVE WireInv(e)'
  <2>1. chan'[e] = chan[e] /\ (local_terminal'[e] = local_terminal[e] \/ ~Handed(e))
    BY <1>10, <1>h, At_poll_read_end
  <2>2. hand' = hand /\ local_terminal_sent' = local_terminal_sent
    BY <1>10, At_poll_read_end
  <2>3. Handed(e)' <=> Handed(e)
    BY <2>2 DEF Handed, InHand
  <2> QED
    BY <1>i, <1>p, <2>1, <2>3, WireKept
<1>11. ASSUME x = e, cancel_read(e) PROVE WireInv(e)'
  <2>1. chan'[e] = chan[e] /\ (local_terminal'[e] = local_terminal[e] \/ ~Handed(e))
    BY <1>11, <1>h, At_cancel_read
  <2>2. hand' = hand /\ local_terminal_sent' = local_terminal_sent
    BY <1>11, At_cancel_read
  <2>3. Handed(e)' <=> Handed(e)
    BY <2>2 DEF Handed, InHand
  <2> QED
    BY <1>i, <1>p, <2>1, <2>3, WireKept
<1>12. ASSUME x = e, writer_take(e) PROVE WireInv(e)'
  <2>1. chan'[e] = chan[e] /\ (local_terminal'[e] = local_terminal[e] \/ ~Handed(e))
    BY <1>12, <1>h, At_writer_take
  <2>2. ~hand[e].sent /\ ~hand'[e].sent /\ local_terminal_sent' = local_terminal_sent
    BY <1>12, HandFields, At_writer_take
  <2>3. Handed(e)' <=> Handed(e)
    BY <2>2 DEF Handed
  <2> QED
    BY <1>i, <1>p, <2>1, <2>3, WireKept
<1>13. ASSUME x = e, writer_send(e) PROVE WireInv(e)'
  <2>1. /\ hand[e].frame \in Frames \ {"CLOSE"} /\ ~hand[e].sent
        /\ ~Has(chan[e], "CLOSE") /\ chan'[e] = Append(chan[e], hand[e].frame)
        /\ hand'[e].frame = hand[e].frame /\ hand'[e].sent
        /\ UNCHANGED <<local_terminal, local_terminal_sent>>
    BY <1>13, <1>c, At_writer_send
  <2>2. /\ hand[e].frame \in TerminalFrames => ~Handed(e)
        /\ hand[e].frame = "FIN" => local_terminal[e] = "fin"
        /\ hand[e].frame = "RESET" => local_terminal[e] = "reset"
        /\ Handed(e) => hand[e].frame # "DATA"
    BY <1>i, <2>1 DEF TerminalInv, Handed, InHand, TerminalFrames
  <2>3. Handed(e)' <=> Handed(e) \/ hand[e].frame \in TerminalFrames
    BY <2>1 DEF Handed, InHand
  <2>4. \A g : Has(chan'[e], g) <=> Has(chan[e], g) \/ hand[e].frame = g
    BY <2>1, ChannelGets
  <2>5. Orderly(chan'[e])
    BY <1>i, <2>1, <2>2, ChannelGets DEF WireInv
  <2> QED
    BY <1>i, <1>p, <2>1, <2>2, <2>3, <2>4, <2>5 DEF WireInv, HasTerminal, TerminalFrames
<1>14. ASSUME x = e, writer_fail(e) PROVE WireInv(e)'
  <2>1. chan'[e] = chan[e] /\ (local_terminal'[e] = local_terminal[e] \/ ~Handed(e))
    BY <1>14, <1>h, At_writer_fail
  <2>2. ~hand[e].sent /\ ~hand'[e].sent /\ local_terminal_sent' = local_terminal_sent
    BY <1>14, HandFields, At_writer_fail
  <2>3. Handed(e)' <=> Handed(e)
    BY <2>2 DEF Handed
  <2> QED
    BY <1>i, <1>p, <2>1, <2>3, WireKept
<1>15. ASSUME x = e, writer_sent(e) PROVE WireInv(e)'
  <2>1. chan'[e] = chan[e] /\ (local_terminal'[e] = local_terminal[e] \/ ~Handed(e))
    BY <1>15, <1>h, At_writer_sent
  <2>2. /\ hand[e].sent /\ ~hand'[e].sent
        /\ local_terminal_sent'[e] <=> local_terminal_sent[e] \/ InHand(e)
    BY <1>15, HandFields, At_writer_sent
  <2>3. Handed(e)' <=> Handed(e)
    BY <2>2 DEF Handed
  <2> QED
    BY <1>i, <1>p, <2>1, <2>3, WireKept
<1>16. ASSUME x = e, close_channel(e) PROVE WireInv(e)'
  <2>1. /\ ~Has(chan[e], "CLOSE") /\ chan'[e] = Append(chan[e], "CLOSE")
        /\ UNCHANGED <<hand, local_terminal, local_terminal_sent>>
    BY <1>16, <1>c, At_close_channel
  <2>2. Handed(e)' <=> Handed(e)
    BY <2>1 DEF Handed, InHand
  <2>3. "CLOSE" \in Frames /\ "CLOSE" \notin TerminalFrames
    BY DEF Frames, TerminalFrames
  <2>4. \A g : Has(chan'[e], g) <=> Has(chan[e], g) \/ "CLOSE" = g
    BY <2>1, <2>3, ChannelGets
  <2>5. Orderly(chan'[e])
    BY <1>i, <2>1, <2>3, ChannelGets DEF WireInv
  <2> QED
    BY <1>i, <1>p, <2>1, <2>2, <2>4, <2>5 DEF WireInv, HasTerminal
<1>17. ASSUME x = e, on_data(e) PROVE WireInv(e)'
  <2>1. chan'[e] = chan[e] /\ (local_terminal'[e] = local_terminal[e] \/ ~Handed(e))
    BY <1>17, <1>h, At_on_data
  <2>2. hand' = hand /\ local_terminal_sent' = local_terminal_sent
    BY <1>17, At_on_data
  <2>3. Handed(e)' <=> Handed(e)
    BY <2>2 DEF Handed, InHand
  <2> QED
    BY <1>i, <1>p, <2>1, <2>3, WireKept
<1>18. ASSUME x = e, NEW f \in TerminalFrames, on_terminal(e, f) PROVE WireInv(e)'
  <2>1. chan'[e] = chan[e] /\ (local_terminal'[e] = local_terminal[e] \/ ~Handed(e))
    BY <1>18, <1>h, At_on_terminal
  <2>2. hand' = hand /\ local_terminal_sent' = local_terminal_sent
    BY <1>18, At_on_terminal
  <2>3. Handed(e)' <=> Handed(e)
    BY <2>2 DEF Handed, InHand
  <2> QED
    BY <1>i, <1>p, <2>1, <2>3, WireKept
<1>19. ASSUME x = e, on_stop_sending(e) PROVE WireInv(e)'
  <2>1. chan'[e] = chan[e] /\ (local_terminal'[e] = local_terminal[e] \/ ~Handed(e))
    BY <1>19, <1>h, At_on_stop_sending
  <2>2. hand' = hand /\ local_terminal_sent' = local_terminal_sent
    BY <1>19, At_on_stop_sending
  <2>3. Handed(e)' <=> Handed(e)
    BY <2>2 DEF Handed, InHand
  <2> QED
    BY <1>i, <1>p, <2>1, <2>3, WireKept
<1>20. ASSUME x = e, on_channel_close(e) PROVE WireInv(e)'
  <2>1. CASE closing[e] = "sent"
    <3>1. chan'[e] = chan[e] /\ UNCHANGED <<hand, local_terminal, local_terminal_sent>>
      BY <1>20, <2>1, At_on_channel_close
    <3>2. Handed(e)' <=> Handed(e)
      BY <3>1 DEF Handed, InHand
    <3> QED
      BY <1>i, <1>p, <3>1, <3>2, WireKept
  <2>2. CASE closing[e] # "sent"
    <3>1. /\ ~Has(chan[e], "CLOSE") /\ chan'[e] = Append(chan[e], "CLOSE")
          /\ UNCHANGED <<hand, local_terminal, local_terminal_sent>>
      BY <1>20, <1>c, <2>2, At_on_channel_close
    <3>2. Handed(e)' <=> Handed(e)
      BY <3>1 DEF Handed, InHand
    <3>3. "CLOSE" \in Frames /\ "CLOSE" \notin TerminalFrames
      BY DEF Frames, TerminalFrames
    <3>4. \A g : Has(chan'[e], g) <=> Has(chan[e], g) \/ "CLOSE" = g
      BY <3>1, <3>3, ChannelGets
    <3>5. Orderly(chan'[e])
      BY <1>i, <3>1, <3>3, ChannelGets DEF WireInv
    <3> QED
      BY <1>i, <1>p, <3>1, <3>2, <3>4, <3>5 DEF WireInv, HasTerminal
  <2> QED
    BY <2>1, <2>2
<1> QED
  BY <1>0, <1>1, <1>2, <1>3, <1>4, <1>5, <1>6, <1>7, <1>8, <1>9, <1>10, <1>11, <1>12, <1>13,
     <1>14, <1>15, <1>16, <1>17, <1>18, <1>19, <1>20
     DEF Application, WriterTask, Callback

(* The channel closes when both write halves have ended.                    *)
LEMMA StepClose ==
    ASSUME IInv, Typed, Next, NEW x \in Endpoints
    PROVE  CloseInv(x)'
<1>0. PICK e \in Endpoints : Application(e) \/ WriterTask(e) \/ Callback(e)
  BY DEF Next
<1>i. CloseInv(e) /\ CloseInv(x)
  BY DEF IInv, EndInv
<1>c. /\ Has(chan[e], "CLOSE") => closing[e] = "sent" \/ dc_closed[e]
      /\ dc_closed[e] => chan[peer(e)] = <<>>
      /\ dc_closed[peer(e)] => (closing[e] = "sent" \/ dc_closed[e]) /\ chan[e] = <<>>
      /\ closing[e] # "no" \/ dc_closed[e] => local_terminal_sent[e] /\ peer_terminal[e] # "none"
      /\ fatal = "none"
  BY Peers DEF IInv, EndInv, CloseInv, Next
<1>b. dc_closed'[peer(e)] = dc_closed[peer(e)]
  BY <1>0, Peers, Elsewhere
<1>w. WireInv(x)
  BY DEF IInv, EndInv
<1>1. CASE x # e
  <2>1. x = peer(e) /\ peer(x) = e
    BY <1>1, Peers
  <2>2. /\ closing'[x] = closing[x] /\ dc_closed'[x] = dc_closed[x]
        /\ local_terminal_sent'[x] = local_terminal_sent[x]
        /\ peer_terminal'[x] = peer_terminal[x]
    BY <1>0, <1>1, Elsewhere
  <2>3. CASE Application(e) \/ WriterTask(e)
    <3>1. chan'[x] = chan[x] /\ fatal' = fatal /\ dc_closed'[e] = dc_closed[e]
      BY <2>1, <2>3, Quiet
    <3> QED
      BY <1>i, <2>1, <2>2, <3>1 DEF CloseInv, WireInv
  <2>4. ASSUME on_data(e) PROVE CloseInv(x)'
    <3>1. /\ chan[x] # <<>> /\ Head(chan[x]) = "DATA"
          /\ chan'[x] = Tail(chan[x])
          /\ fatal' = IF peer_terminal[e] # "none" THEN "DATA after terminal frame" ELSE fatal
          /\ dc_closed'[e] = dc_closed[e]
      BY <2>1, <2>4, At_on_data
    <3>2. /\ \A g : Has(chan[x], g) <=> "DATA" = g \/ Has(chan'[x], g)
          /\ Orderly(chan[x]) => Orderly(chan'[x])
      BY <3>1, ChannelTakes
    <3> QED
      BY <1>i, <2>1, <2>2, <3>1, <3>2, <1>c, <1>w DEF CloseInv, WireInv
  <2>5. ASSUME NEW f \in TerminalFrames, on_terminal(e, f) PROVE CloseInv(x)'
    <3>1. /\ chan[x] # <<>> /\ Head(chan[x]) = f
          /\ chan'[x] = Tail(chan[x])
          /\ fatal' = IF peer_terminal[e] # "none" THEN "second terminal frame" ELSE fatal
          /\ dc_closed'[e] = dc_closed[e]
      BY <2>1, <2>5, At_on_terminal
    <3>2. /\ \A g : Has(chan[x], g) <=> f = g \/ Has(chan'[x], g)
          /\ Orderly(chan[x]) => Orderly(chan'[x])
          /\ Orderly(chan[x]) =>
               ~HasTerminal(chan'[x]) /\ ~Has(chan'[x], "DATA")
      BY <3>1, ChannelTakes
    <3> QED
      BY <1>i, <2>1, <2>2, <3>1, <3>2, <1>c, <1>w DEF CloseInv, WireInv
  <2>6. ASSUME on_stop_sending(e) PROVE CloseInv(x)'
    <3>1. /\ chan[x] # <<>> /\ Head(chan[x]) = "STOP"
          /\ chan'[x] = Tail(chan[x])
          /\ dc_closed'[e] = dc_closed[e]
          /\ fatal' = fatal
      BY <2>1, <2>6, At_on_stop_sending
    <3>2. /\ \A g : Has(chan[x], g) <=> "STOP" = g \/ Has(chan'[x], g)
          /\ Orderly(chan[x]) => Orderly(chan'[x])
      BY <3>1, ChannelTakes
    <3> QED
      BY <1>i, <2>1, <2>2, <3>1, <3>2, <1>c, <1>w DEF CloseInv, WireInv
  <2>7. ASSUME on_channel_close(e) PROVE CloseInv(x)'
    <3>1. /\ chan[x] # <<>> /\ Head(chan[x]) = "CLOSE"
          /\ chan'[x] = Tail(chan[x])
          /\ dc_closed'[e]
          /\ fatal' = IF local_terminal_sent[e] /\ peer_terminal[e] # "none"
                     THEN fatal ELSE "data channel closed mid-stream"
      BY <2>1, <2>7, At_on_channel_close
    <3>2. /\ \A g : Has(chan[x], g) <=> "CLOSE" = g \/ Has(chan'[x], g)
          /\ Orderly(chan[x]) => Orderly(chan'[x])
          /\ Orderly(chan[x]) => chan'[x] = <<>>
      BY <3>1, ChannelTakes
    <3>3. chan'[x] = <<>> => \A g : ~Has(chan'[x], g)
      BY HasEmpty
    <3> QED
      BY <1>i, <2>1, <2>2, <3>1, <3>2, <3>3, <1>c, <1>w DEF CloseInv, WireInv
  <2> QED
    BY <1>0, <2>3, <2>4, <2>5, <2>6, <2>7 DEF Callback
<1>2. ASSUME x = e,
             \/ poll_write(e) \/ close_write(e) \/ abandon_close(e) \/ poll_shutdown(e)
             \/ poll_read_end(e) \/ writer_take(e) \/ writer_fail(e)
      PROVE  CloseInv(x)'
  <2>1. UNCHANGED <<chan, closing, dc_closed, fatal, local_terminal_sent, peer_terminal>>
    BY <1>2, At_poll_write, At_close_write, At_abandon_close, At_poll_shutdown, At_poll_read_end,
       At_writer_take, At_writer_fail
  <2> QED
    BY <1>i, <2>1, <1>b DEF CloseInv
<1>3. ASSUME x = e, queue_fin(e) PROVE CloseInv(e)'
  <2>1. /\ UNCHANGED <<chan, dc_closed, fatal, local_terminal_sent, peer_terminal>>
    BY <1>3, At_queue_fin
  <2>2. /\ closing'[e] # "no" => \/ closing[e] # "no"
                                 \/ local_terminal_sent'[e] /\ peer_terminal'[e] # "none"
        /\ closing'[e] = "sent" <=> closing[e] = "sent"
    BY <1>3, At_queue_fin, Retiring
  <2> QED
    BY <2>1, <2>2, <1>i, <1>c, <1>b DEF CloseInv
<1>4. ASSUME x = e, poll_shutdown_reserve(e) PROVE CloseInv(e)'
  <2>1. ASSUME closer'[e] = "none",
               data_q'[e] = Append(data_q[e], "FIN"),
               local_terminal' = local_terminal
       PROVE  CloseInv(e)'
    <3>1. /\ UNCHANGED <<chan, dc_closed, fatal, local_terminal_sent, peer_terminal>>
      BY <1>4, <2>1, At_poll_shutdown_reserve
    <3>2. /\ closing'[e] # "no" => \/ closing[e] # "no"
                                   \/ local_terminal_sent'[e] /\ peer_terminal'[e] # "none"
          /\ closing'[e] = "sent" <=> closing[e] = "sent"
      BY <1>4, <2>1, At_poll_shutdown_reserve, Retiring
    <3> QED
      BY <3>1, <3>2, <1>i, <1>c, <1>b DEF CloseInv
  <2>2. ASSUME closer'[e] = "none",
               data_q' = data_q,
               local_terminal'[e] = "none",
               UNCHANGED <<retired_fired, closing>>
       PROVE  CloseInv(e)'
    <3>1. /\ UNCHANGED <<retired_fired, closing>>
          /\ UNCHANGED <<chan, dc_closed, fatal, local_terminal_sent, peer_terminal>>
      BY <1>4, <2>2, At_poll_shutdown_reserve
    <3> QED
      BY <3>1, <1>i, <1>c, <1>b DEF CloseInv
  <2> QED
    BY <1>4, <2>1, <2>2, At_poll_shutdown_reserve
<1>5. ASSUME x = e, reset_write(e) PROVE CloseInv(e)'
  <2>1. /\ UNCHANGED <<chan, dc_closed, fatal, local_terminal_sent, peer_terminal>>
    BY <1>5, At_reset_write
  <2>2. /\ closing'[e] # "no" => \/ closing[e] # "no"
                                 \/ local_terminal_sent'[e] /\ peer_terminal'[e] # "none"
        /\ closing'[e] = "sent" <=> closing[e] = "sent"
    BY <1>5, At_reset_write, Retiring
  <2> QED
    BY <2>1, <2>2, <1>i, <1>c, <1>b DEF CloseInv
<1>6. ASSUME x = e, poll_read(e) PROVE CloseInv(e)'
  <2>1. /\ UNCHANGED <<chan, dc_closed, fatal, local_terminal_sent, peer_terminal>>
    BY <1>6, At_poll_read
  <2>2. /\ closing'[e] # "no" => \/ closing[e] # "no"
                                 \/ local_terminal_sent'[e] /\ peer_terminal'[e] # "none"
        /\ closing'[e] = "sent" <=> closing[e] = "sent"
    BY <1>6, At_poll_read, Retiring
  <2> QED
    BY <2>1, <2>2, <1>i, <1>c, <1>b DEF CloseInv
<1>7. ASSUME x = e, cancel_read(e) PROVE CloseInv(e)'
  <2>1. ASSUME peer_terminal[e] = "none",
               read_cancel'[e],
               inbuf'[e] = 0,
               life_q'[e] = Append(life_q[e], "STOP")
       PROVE  CloseInv(e)'
    <3>1. /\ ~read_cancel[e]
          /\ peer_terminal[e] = "none"
          /\ read_cancel'[e]
          /\ UNCHANGED <<chan, dc_closed, fatal, local_terminal_sent, peer_terminal>>
      BY <1>7, <2>1, At_cancel_read
    <3>2. /\ closing'[e] # "no" => \/ closing[e] # "no"
                                   \/ local_terminal_sent'[e] /\ peer_terminal'[e] # "none"
          /\ closing'[e] = "sent" <=> closing[e] = "sent"
      BY <1>7, <2>1, At_cancel_read, Retiring
    <3> QED
      BY <3>1, <3>2, <1>i, <1>c, <1>b DEF CloseInv
  <2>2. ASSUME peer_terminal[e] # "none",
               read_cancel'[e],
               inbuf'[e] = 0,
               life_q'[e] = life_q[e]
       PROVE  CloseInv(e)'
    <3>1. /\ ~read_cancel[e]
          /\ peer_terminal[e] # "none"
          /\ read_cancel'[e]
          /\ UNCHANGED <<chan, dc_closed, fatal, local_terminal_sent, peer_terminal>>
      BY <1>7, <2>2, At_cancel_read
    <3>2. /\ closing'[e] # "no" => \/ closing[e] # "no"
                                   \/ local_terminal_sent'[e] /\ peer_terminal'[e] # "none"
          /\ closing'[e] = "sent" <=> closing[e] = "sent"
      BY <1>7, <2>2, At_cancel_read, Retiring
    <3> QED
      BY <3>1, <3>2, <1>i, <1>c, <1>b DEF CloseInv
  <2> QED
    BY <1>7, <2>1, <2>2, At_cancel_read
<1>8. ASSUME x = e, writer_send(e) PROVE CloseInv(e)'
  <2>1. /\ ~dc_closed[e] /\ closing[e] # "sent" /\ hand[e].frame \in Frames \ {"CLOSE"}
        /\ chan'[e] = Append(chan[e], hand[e].frame)
        /\ UNCHANGED <<closing, dc_closed, fatal, local_terminal_sent, peer_terminal>>
    BY <1>8, At_writer_send
  <2>2. \A g : Has(chan'[e], g) <=> Has(chan[e], g) \/ hand[e].frame = g
    BY <2>1, ChannelGets
  <2> QED
    BY <2>1, <2>2, <1>i, <1>c, <1>b DEF CloseInv
<1>9. ASSUME x = e, writer_sent(e) PROVE CloseInv(e)'
  <2>1. /\ local_terminal_sent'[e] <=> local_terminal_sent[e] \/ InHand(e)
        /\ (maybe_retire(e) \/ UNCHANGED <<retired_fired, closing>>)
        /\ UNCHANGED <<chan, dc_closed, fatal, peer_terminal>>
    BY <1>9, At_writer_sent
  <2>2. /\ closing'[e] # "no" => \/ closing[e] # "no"
                                 \/ local_terminal_sent'[e] /\ peer_terminal'[e] # "none"
        /\ closing'[e] = "sent" <=> closing[e] = "sent"
    BY <1>9, At_writer_sent, Retiring
  <2> QED
    BY <2>1, <2>2, <1>i, HandFields, <1>c, <1>b DEF CloseInv
<1>10. ASSUME x = e, close_channel(e) PROVE CloseInv(e)'
  <2>1. /\ closing[e] = "asked"
        /\ ~dc_closed[e]
        /\ closing'[e] = "sent"
        /\ chan'[e] = Append(chan[e], "CLOSE")
        /\ UNCHANGED <<dc_closed, fatal, local_terminal_sent, peer_terminal>>
    BY <1>10, At_close_channel
  <2>2. /\ \A g : Has(chan'[e], g) <=> Has(chan[e], g) \/ "CLOSE" = g
    BY <2>1, <1>i, ChannelGets DEF Frames
  <2> QED
    BY <2>1, <2>2, <1>i, <1>c, <1>b DEF CloseInv
<1>11. ASSUME x = e, on_data(e) PROVE CloseInv(e)'
  <2>1. /\ chan[peer(e)] # <<>>
        /\ Head(chan[peer(e)]) = "DATA"
        /\ fatal' = IF peer_terminal[e] # "none" THEN "DATA after terminal frame" ELSE fatal
        /\ inbuf'[e] = IF read_cancel[e] \/ peer_terminal[e] # "none" THEN inbuf[e]
               ELSE inbuf[e] + 1
        /\ chan'[e] = chan[e]
        /\ UNCHANGED <<closing, dc_closed, local_terminal_sent, peer_terminal>>
    BY <1>11, At_on_data
  <2> QED
    BY <2>1, <1>i, <1>c, <1>b DEF CloseInv
<1>12. ASSUME x = e, NEW f \in TerminalFrames, on_terminal(e, f) PROVE CloseInv(e)'
  <2>1. /\ chan[peer(e)] # <<>>
        /\ Head(chan[peer(e)]) = f
        /\ fatal' = IF peer_terminal[e] # "none" THEN "second terminal frame" ELSE fatal
        /\ peer_terminal'[e] = IF peer_terminal[e] # "none" THEN peer_terminal[e]
                                    ELSE IF f = "FIN" THEN "fin" ELSE "reset"
        /\ inbuf'[e] = IF f = "FIN" \/ peer_terminal[e] # "none" THEN inbuf[e] ELSE 0
        /\ chan'[e] = chan[e]
        /\ UNCHANGED <<dc_closed, local_terminal_sent>>
    BY <1>12, At_on_terminal
  <2>2. /\ closing'[e] # "no" => \/ closing[e] # "no"
                                 \/ local_terminal_sent'[e] /\ peer_terminal'[e] # "none"
        /\ closing'[e] = "sent" <=> closing[e] = "sent"
    BY <1>12, At_on_terminal, Retiring
  <2> QED
    BY <2>1, <2>2, <1>i, <1>c, <1>b DEF CloseInv
<1>13. ASSUME x = e, on_stop_sending(e) PROVE CloseInv(e)'
  <2>1. ASSUME chan'[peer(e)] = Tail(chan[peer(e)]),
               local_terminal[e] = "none",
               local_terminal'[e] = "reset",
               drop_data'[e],
               life_q'[e] = Append(life_q[e], "RESET")
       PROVE  CloseInv(e)'
    <3>1. /\ chan[peer(e)] # <<>>
          /\ Head(chan[peer(e)]) = "STOP"
          /\ chan'[e] = chan[e]
          /\ UNCHANGED <<dc_closed, fatal, local_terminal_sent, peer_terminal>>
      BY <1>13, <2>1, At_on_stop_sending
    <3>2. /\ closing'[e] # "no" => \/ closing[e] # "no"
                                   \/ local_terminal_sent'[e] /\ peer_terminal'[e] # "none"
          /\ closing'[e] = "sent" <=> closing[e] = "sent"
      BY <1>13, <2>1, At_on_stop_sending, Retiring
    <3> QED
      BY <3>1, <3>2, <1>i, <1>c, <1>b DEF CloseInv
  <2>2. ASSUME chan'[peer(e)] = Tail(chan[peer(e)]),
               UNCHANGED <<local_terminal, drop_data, life_q, retired_fired, closing>>
       PROVE  CloseInv(e)'
    <3>1. /\ chan[peer(e)] # <<>>
          /\ Head(chan[peer(e)]) = "STOP"
          /\ UNCHANGED <<local_terminal, drop_data, life_q, retired_fired, closing>>
          /\ chan'[e] = chan[e]
          /\ UNCHANGED <<dc_closed, fatal, local_terminal_sent, peer_terminal>>
      BY <1>13, <2>2, At_on_stop_sending
    <3> QED
      BY <3>1, <1>i, <1>c, <1>b DEF CloseInv
  <2> QED
    BY <1>13, <2>1, <2>2, At_on_stop_sending
<1>14. ASSUME x = e, on_channel_close(e) PROVE CloseInv(e)'
  <2>1. ASSUME dc_closed'[e],
               closing[e] = "sent",
               chan'[e] = chan[e],
               fatal' = "none" => local_terminal_sent[e] /\ peer_terminal[e] # "none"
       PROVE  CloseInv(e)'
    <3>1. /\ chan[peer(e)] # <<>>
          /\ Head(chan[peer(e)]) = "CLOSE"
          /\ dc_closed'[e]
          /\ closing[e] = "sent"
          /\ chan'[e] = chan[e]
          /\ fatal' = "none" => local_terminal_sent[e] /\ peer_terminal[e] # "none"
          /\ UNCHANGED <<local_terminal_sent, peer_terminal>>
      BY <1>14, <2>1, At_on_channel_close
    <3>2. /\ closing'[e] # "no" => \/ closing[e] # "no"
                                   \/ local_terminal_sent'[e] /\ peer_terminal'[e] # "none"
          /\ closing'[e] = "sent" <=> closing[e] = "sent"
      BY <1>14, <2>1, At_on_channel_close, Retiring
    <3> QED
      BY <3>1, <3>2, <1>i, <1>c, <1>b DEF CloseInv
  <2>2. ASSUME dc_closed'[e],
               closing[e] # "sent",
               chan'[e] = Append(chan[e], "CLOSE"),
               fatal' = "none" => local_terminal_sent[e] /\ peer_terminal[e] # "none"
       PROVE  CloseInv(e)'
    <3>1. /\ chan[peer(e)] # <<>>
          /\ Head(chan[peer(e)]) = "CLOSE"
          /\ dc_closed'[e]
          /\ closing[e] # "sent"
          /\ chan'[e] = Append(chan[e], "CLOSE")
          /\ fatal' = "none" => local_terminal_sent[e] /\ peer_terminal[e] # "none"
          /\ UNCHANGED <<local_terminal_sent, peer_terminal>>
      BY <1>14, <2>2, At_on_channel_close
    <3>2. /\ \A g : Has(chan'[e], g) <=> Has(chan[e], g) \/ "CLOSE" = g
      BY <3>1, <1>i, ChannelGets DEF Frames
    <3>3. /\ closing'[e] # "no" => \/ closing[e] # "no"
                                   \/ local_terminal_sent'[e] /\ peer_terminal'[e] # "none"
          /\ closing'[e] = "sent" <=> closing[e] = "sent"
      BY <1>14, <2>2, At_on_channel_close, Retiring
    <3> QED
      BY <3>1, <3>2, <3>3, <1>i, <1>c, <1>b DEF CloseInv
  <2> QED
    BY <1>14, <2>1, <2>2, At_on_channel_close
<1> QED
  BY <1>0, <1>1, <1>2, <1>3, <1>4, <1>5, <1>6, <1>7, <1>8, <1>9, <1>10, <1>11, <1>12, <1>13,
     <1>14 DEF Application, WriterTask, Callback

(* How many frames of DATA the queues and channels hold.                     *)
LEMMA Numbers ==
    ASSUME Typed, NEW x \in Endpoints
    PROVE  /\ Count(chan[x]) \in Nat /\ Count(data_q[x]) \in Nat /\ Pending(x) \in Nat
           /\ read[x] \in Nat /\ inbuf[x] \in Nat /\ written[x] \in Nat
           /\ ~Has(chan[x], "DATA") => Count(chan[x]) = 0
<1>1. chan[x] \in Seq(Frames) /\ data_q[x] \in Seq({"DATA", "FIN"})
  BY DEF Typed
<1>2. written[x] \in 0..MaxWrites /\ MaxWrites \in Nat
  BY LifecycleAssumption DEF Typed
<1>3. read[x] \in Nat /\ inbuf[x] \in Nat /\ written[x] \in Nat
  BY <1>2 DEF Typed
<1>4. Pending(x) \in Nat
  BY DEF Pending
<1>5. /\ Count(chan[x]) \in Nat /\ Count(data_q[x]) \in Nat
      /\ ~Has(chan[x], "DATA") => Count(chan[x]) = 0
  BY <1>1, CountTyped
<1> QED
  BY <1>3, <1>4, <1>5

(* The DATA queue's count of DATA as the queue moves.                       *)
LEMMA DataCounts ==
    ASSUME Typed, NEW x \in Endpoints
    PROVE  /\ \A f \in {"DATA", "FIN"} : data_q'[x] = Append(data_q[x], f) =>
                Count(data_q'[x]) = Count(data_q[x]) + (IF f = "DATA" THEN 1 ELSE 0)
           /\ data_q[x] # <<>> /\ data_q'[x] = Tail(data_q[x]) =>
                Count(data_q[x]) = Count(data_q'[x]) + (IF Head(data_q[x]) = "DATA" THEN 1 ELSE 0)
<1>1. data_q[x] \in Seq({"DATA", "FIN"})
  BY DEF Typed
<1> QED
  BY <1>1, CountAppend, CountTail

(* The channel's count of DATA as the channel moves.                        *)
LEMMA ChanCounts ==
    ASSUME Typed, NEW x \in Endpoints
    PROVE  /\ \A f \in Frames : chan'[x] = Append(chan[x], f) =>
                Count(chan'[x]) = Count(chan[x]) + (IF f = "DATA" THEN 1 ELSE 0)
           /\ chan[x] # <<>> /\ chan'[x] = Tail(chan[x]) =>
                Count(chan[x]) = Count(chan'[x]) + (IF Head(chan[x]) = "DATA" THEN 1 ELSE 0)
<1>1. chan[x] \in Seq(Frames)
  BY DEF Typed
<1> QED
  BY <1>1, CountAppend, CountTail

(* The count holds when the frames stay where they are, or move along.      *)
LEMMA CountKept ==
    ASSUME NEW x \in Endpoints, CountInv(x), Placed(x)' = Placed(x), written'[x] = written[x],
           local_terminal'[x] # "reset" => local_terminal[x] # "reset",
           read_cancel'[peer(x)] = read_cancel[peer(x)]
    PROVE  CountInv(x)'
BY DEF CountInv

(* No frame is lost before a reset or a cancelled read.                     *)
LEMMA StepCount ==
    ASSUME IInv, Typed, Next, NEW x \in Endpoints
    PROVE  CountInv(x)'
<1>0. PICK e \in Endpoints : Application(e) \/ WriterTask(e) \/ Callback(e)
  BY DEF Next
<1>i. CountInv(e) /\ CountInv(x) /\ TerminalInv(e) /\ WireInv(x)
  BY DEF IInv, EndInv
<1>p. peer(e) \in Endpoints /\ peer(e) # e
  BY Peers
<1>n. /\ read'[peer(e)] = read[peer(e)] /\ inbuf'[peer(e)] = inbuf[peer(e)]
      /\ read_cancel'[peer(e)] = read_cancel[peer(e)]
  BY <1>0, <1>p, Elsewhere
<1>t. Typed'
  BY StepTyped
<1>N. /\ Count(chan[e]) \in Nat /\ Count(data_q[e]) \in Nat /\ Pending(e) \in Nat
      /\ read[peer(e)] \in Nat /\ inbuf[peer(e)] \in Nat /\ written[e] \in Nat
      /\ Count(chan'[e]) \in Nat /\ Count(data_q'[e]) \in Nat /\ Pending(e)' \in Nat
      /\ written'[e] \in Nat
  <2>1. /\ Count(chan[e]) \in Nat /\ Count(data_q[e]) \in Nat /\ Pending(e) \in Nat
        /\ read[peer(e)] \in Nat /\ inbuf[peer(e)] \in Nat /\ written[e] \in Nat
    BY <1>p, Numbers
  <2>2. /\ chan'[e] \in Seq(Frames) /\ data_q'[e] \in Seq({"DATA", "FIN"})
        /\ written'[e] \in 0..MaxWrites /\ MaxWrites \in Nat
    BY <1>t, LifecycleAssumption DEF Typed
  <2>3. Count(chan'[e]) \in Nat /\ Count(data_q'[e]) \in Nat
    BY <2>2, CountTyped
  <2> QED
    BY <2>1, <2>2, <2>3 DEF Pending
<1>2. ASSUME x = e,
             \/ close_write(e) \/ abandon_close(e) \/ poll_shutdown(e) \/ reset_write(e)
             \/ poll_read(e) \/ poll_read_end(e) \/ cancel_read(e) \/ on_data(e)
             \/ (\E f \in TerminalFrames : on_terminal(e, f)) \/ on_stop_sending(e)
      PROVE  CountInv(e)'
  <2>1. /\ chan'[e] = chan[e] /\ hand'[e] = hand[e] /\ data_q'[e] = data_q[e]
        /\ written'[e] = written[e]
        /\ local_terminal'[e] # "reset" => local_terminal[e] # "reset"
    BY <1>2, At_close_write, At_abandon_close, At_poll_shutdown, At_reset_write, At_poll_read,
       At_poll_read_end, At_cancel_read, At_on_data, At_on_terminal, At_on_stop_sending
  <2>2. Placed(e)' = Placed(e)
    BY <1>n, <2>1 DEF Placed, Pending
  <2> QED
    BY <1>i, <1>n, <2>1, <2>2, CountKept
<1>3. ASSUME x = e, poll_write(e) PROVE CountInv(e)'
  <2>1. /\ chan'[e] = chan[e] /\ hand'[e] = hand[e] /\ data_q'[e] = Append(data_q[e], "DATA")
        /\ written'[e] = written[e] + 1 /\ local_terminal'[e] = local_terminal[e]
    BY <1>3, At_poll_write
  <2>2. Count(data_q'[e]) = Count(data_q[e]) + 1
    BY <2>1, DataCounts
  <2>3. Pending(e)' = Pending(e)
    BY <2>1 DEF Pending
  <2>4. Placed(e)' = Placed(e) + 1
    BY <1>n, <1>N, <2>1, <2>2, <2>3 DEF Placed
  <2>5. Placed(e) \in Nat
    BY <1>N DEF Placed
  <2> QED
    BY <1>i, <1>n, <1>N, <2>1, <2>4, <2>5 DEF CountInv
<1>4. ASSUME x = e, queue_fin(e) PROVE CountInv(e)'
  <2>1. /\ chan'[e] = chan[e] /\ hand'[e] = hand[e] /\ data_q'[e] = Append(data_q[e], "FIN")
        /\ written'[e] = written[e] /\ local_terminal'[e] = local_terminal[e]
    BY <1>4, At_queue_fin
  <2>2. Count(data_q'[e]) = Count(data_q[e]) + 0 \/ data_q'[e] = data_q[e]
    BY <2>1, DataCounts
  <2>3. Count(data_q'[e]) = Count(data_q[e]) /\ Pending(e)' = Pending(e)
    BY <1>N, <2>1, <2>2 DEF Pending
  <2>4. Placed(e)' = Placed(e)
    BY <1>n, <2>1, <2>3 DEF Placed
  <2> QED
    BY <1>i, <1>n, <2>1, <2>4, CountKept
<1>5. ASSUME x = e, poll_shutdown_reserve(e) PROVE CountInv(e)'
  <2>1. /\ chan'[e] = chan[e] /\ hand'[e] = hand[e]
        /\ data_q'[e] = Append(data_q[e], "FIN") \/ data_q'[e] = data_q[e]
        /\ written'[e] = written[e] /\ local_terminal[e] # "reset"
    BY <1>5, <1>i, At_poll_shutdown_reserve DEF TerminalInv
  <2>2. Count(data_q'[e]) = Count(data_q[e]) + 0 \/ data_q'[e] = data_q[e]
    BY <2>1, DataCounts
  <2>3. Count(data_q'[e]) = Count(data_q[e]) /\ Pending(e)' = Pending(e)
    BY <1>N, <2>1, <2>2 DEF Pending
  <2>4. Placed(e)' = Placed(e)
    BY <1>n, <2>1, <2>3 DEF Placed
  <2> QED
    BY <1>i, <1>n, <2>1, <2>4, CountKept
<1>6. ASSUME x = e, writer_take(e) PROVE CountInv(e)'
  <2>1. /\ chan'[e] = chan[e] /\ written'[e] = written[e]
               /\ local_terminal'[e] = local_terminal[e]
        /\ hand[e] = NoFrame
    BY <1>6, At_writer_take
  <2>2. Pending(e) = 0
    BY <2>1, HandFields DEF Pending
  <2>3. ASSUME life_q[e] # <<>>, hand'[e].frame = Head(life_q[e]), data_q' = data_q
        PROVE  CountInv(e)'
    <3>1. hand'[e].frame # "DATA"
      BY <2>3, LifeQueue
    <3>2. Placed(e)' = Placed(e)
      BY <1>n, <2>1, <2>2, <2>3, <3>1 DEF Placed, Pending
    <3> QED
      BY <1>i, <1>n, <2>1, <3>2, CountKept
  <2>4. ASSUME data_q[e] # <<>>, hand'[e].frame = Head(data_q[e]), ~hand'[e].sent,
               data_q'[e] = Tail(data_q[e])
        PROVE  CountInv(e)'
    <3>1. Pending(e)' = IF Head(data_q[e]) = "DATA" THEN 1 ELSE 0
      BY <2>4 DEF Pending
    <3>2. Count(data_q[e]) = Count(data_q'[e]) + Pending(e)'
      BY <2>4, <3>1, DataCounts
    <3>3. Placed(e)' = Placed(e)
      BY <1>n, <1>N, <2>1, <2>2, <3>2 DEF Placed
    <3> QED
      BY <1>i, <1>n, <2>1, <3>3, CountKept
  <2>5. ASSUME data_q[e] # <<>>, drop_data[e], Head(data_q[e]) = "DATA", hand'[e] = NoFrame,
               data_q'[e] = Tail(data_q[e])
        PROVE  CountInv(e)'
    <3>1. Pending(e)' = 0 /\ Count(data_q[e]) = Count(data_q'[e]) + 1
      BY <2>5, HandFields, DataCounts DEF Pending
    <3>2. Placed(e) = Placed(e)' + 1
      BY <1>n, <1>N, <2>1, <2>2, <3>1 DEF Placed
    <3>3. Placed(e)' \in Nat
      BY <1>n, <1>N DEF Placed
    <3>4. local_terminal'[e] = "reset"
      BY <1>i, <2>1, <2>5 DEF TerminalInv
    <3> QED
      BY <1>i, <1>N, <2>1, <3>2, <3>3, <3>4 DEF CountInv
  <2> QED
    BY <1>6, <2>3, <2>4, <2>5, At_writer_take
<1>7. ASSUME x = e, writer_send(e) PROVE CountInv(e)'
  <2>1. /\ chan'[e] = Append(chan[e], hand[e].frame) /\ hand[e].frame \in Frames
        /\ data_q'[e] = data_q[e] /\ written'[e] = written[e]
        /\ local_terminal'[e] = local_terminal[e] /\ ~hand[e].sent /\ hand'[e].sent
    BY <1>7, At_writer_send
  <2>2. Pending(e)' = 0 /\ Pending(e) = IF hand[e].frame = "DATA" THEN 1 ELSE 0
    BY <2>1 DEF Pending
  <2>3. Count(chan'[e]) = Count(chan[e]) + Pending(e)
    BY <2>1, <2>2, ChanCounts
  <2>4. Placed(e)' = Placed(e)
    <3>1. /\ Placed(e) = read[peer(e)] + inbuf[peer(e)] + Count(chan[e])
                          + Pending(e) + Count(data_q[e])
          /\ Placed(e)' = read[peer(e)] + inbuf[peer(e)] + Count(chan'[e]) + 0 + Count(data_q[e])
      BY <1>n, <2>1, <2>2 DEF Placed
    <3> QED
      BY <1>N, <2>3, <3>1
  <2> QED
    BY <1>i, <1>n, <2>1, <2>4, CountKept
<1>8. ASSUME x = e, writer_fail(e) PROVE CountInv(e)'
  <2>1. /\ chan'[e] = chan[e] /\ hand'[e] = Ended /\ data_q'[e] = <<>>
        /\ written'[e] = written[e] /\ local_terminal'[e] = local_terminal[e]
        /\ ~hand[e].sent /\ (dc_closed[e] \/ closing[e] = "sent")
    BY <1>8, At_writer_fail
  <2>2. local_terminal_sent[e]
    BY <2>1 DEF IInv, EndInv, CloseInv, Next
  <2>3. Pending(e) = 0 /\ Pending(e)' = 0 /\ Count(data_q'[e]) = 0
    BY <1>i, <2>1, <2>2, HandFields, CountEmpty DEF Pending, TerminalInv
  <2>4. Placed(e)' + Count(data_q[e]) = Placed(e) /\ Placed(e)' \in Nat
    BY <1>n, <1>N, <2>1, <2>3 DEF Placed
  <2>5. data_q[e] = <<>> \/ local_terminal[e] = "reset"
    BY <1>i, <2>2 DEF TerminalInv
  <2>6. data_q[e] = <<>> => Count(data_q[e]) = 0
    BY CountEmpty
  <2> QED
    BY <1>i, <1>n, <1>N, <2>1, <2>4, <2>5, <2>6 DEF CountInv
<1>9. ASSUME x = e, writer_sent(e) PROVE CountInv(e)'
  <2>1. /\ chan'[e] = chan[e] /\ data_q'[e] = data_q[e] /\ written'[e] = written[e]
        /\ local_terminal'[e] = local_terminal[e] /\ hand[e].sent /\ hand'[e] = NoFrame
    BY <1>9, At_writer_sent
  <2>2. Pending(e) = 0 /\ Pending(e)' = 0
    BY <2>1, HandFields DEF Pending
  <2>3. Placed(e)' = Placed(e)
    BY <1>n, <2>1, <2>2 DEF Placed
  <2> QED
    BY <1>i, <1>n, <2>1, <2>3, CountKept
<1>10. ASSUME x = e, close_channel(e) PROVE CountInv(e)'
  <2>1. /\ chan'[e] = Append(chan[e], "CLOSE")
        /\ hand'[e] = hand[e] /\ data_q'[e] = data_q[e] /\ written'[e] = written[e]
        /\ local_terminal'[e] = local_terminal[e]
    BY <1>10, At_close_channel
  <2>2. Count(chan'[e]) = Count(chan[e]) + 0 \/ chan'[e] = chan[e]
    BY <2>1, ChanCounts DEF Frames
  <2>3. Count(chan'[e]) = Count(chan[e]) /\ Pending(e)' = Pending(e)
    BY <1>N, <2>1, <2>2 DEF Pending
  <2>4. Placed(e)' = Placed(e)
    BY <1>n, <2>1, <2>3 DEF Placed
  <2> QED
    BY <1>i, <1>n, <2>1, <2>4, CountKept
<1>11. ASSUME x = e, on_channel_close(e) PROVE CountInv(e)'
  <2>1. /\ chan'[e] = Append(chan[e], "CLOSE") \/ chan'[e] = chan[e]
        /\ hand'[e] = hand[e] /\ data_q'[e] = data_q[e] /\ written'[e] = written[e]
        /\ local_terminal'[e] = local_terminal[e]
    BY <1>11, At_on_channel_close
  <2>2. Count(chan'[e]) = Count(chan[e]) + 0 \/ chan'[e] = chan[e]
    BY <2>1, ChanCounts DEF Frames
  <2>3. Count(chan'[e]) = Count(chan[e]) /\ Pending(e)' = Pending(e)
    BY <1>N, <2>1, <2>2 DEF Pending
  <2>4. Placed(e)' = Placed(e)
    BY <1>n, <2>1, <2>3 DEF Placed
  <2> QED
    BY <1>i, <1>n, <2>1, <2>4, CountKept
<1>12. ASSUME x # e PROVE CountInv(x)'
  <2>1. x = peer(e) /\ peer(x) = e
    BY <1>12, Peers
  <2>2. /\ hand'[x] = hand[x] /\ data_q'[x] = data_q[x] /\ written'[x] = written[x]
        /\ local_terminal'[x] = local_terminal[x]
    BY <1>0, <1>12, Elsewhere
  <2>3. Pending(x)' = Pending(x)
    BY <2>2 DEF Pending
  <2>4. /\ Count(chan[x]) \in Nat /\ Count(data_q[x]) \in Nat /\ Pending(x) \in Nat
        /\ read[e] \in Nat /\ inbuf[e] \in Nat /\ written[x] \in Nat
        /\ ~Has(chan[x], "DATA") => Count(chan[x]) = 0
    BY Numbers
  <2>5. /\ Placed(x) = read[e] + inbuf[e] + Count(chan[x]) + Pending(x) + Count(data_q[x])
        /\ Placed(x)' = read'[e] + inbuf'[e] + Count(chan'[x]) + Pending(x) + Count(data_q[x])
    BY <2>1, <2>2, <2>3 DEF Placed
  <2>6. ASSUME Placed(x)' = Placed(x), read_cancel'[e] = read_cancel[e] PROVE CountInv(x)'
    BY <1>i, <2>1, <2>2, <2>6, CountKept
  <2>7. ASSUME chan'[x] = chan[x], inbuf'[e] = inbuf[e], read'[e] = read[e],
               read_cancel'[e] = read_cancel[e]
        PROVE  CountInv(x)'
    <3>1. Placed(x)' = Placed(x)
      BY <2>5, <2>7
    <3> QED
      BY <2>6, <2>7, <3>1
  <2>8. ASSUME Application(e), ~poll_read(e), ~cancel_read(e) PROVE CountInv(x)'
    <3>1. chan'[x] = chan[x]
      BY <2>1, <2>8, Quiet
    <3>2. inbuf'[e] = inbuf[e] /\ read'[e] = read[e] /\ read_cancel'[e] = read_cancel[e]
      BY <2>8, At_poll_write, At_close_write, At_queue_fin, At_abandon_close, At_poll_shutdown,
         At_poll_shutdown_reserve, At_reset_write, At_poll_read_end
         DEF Application
    <3> QED
      BY <2>7, <3>1, <3>2
  <2>9. ASSUME WriterTask(e) PROVE CountInv(x)'
    <3>1. chan'[x] = chan[x]
      BY <2>1, <2>9, Quiet
    <3>2. inbuf'[e] = inbuf[e] /\ read'[e] = read[e] /\ read_cancel'[e] = read_cancel[e]
      BY <2>9, At_writer_take, At_writer_send, At_writer_fail, At_writer_sent, At_close_channel
         DEF WriterTask
    <3> QED
      BY <2>7, <3>1, <3>2
  <2>10. ASSUME poll_read(e) PROVE CountInv(x)'
    <3>1. /\ chan'[x] = chan[x] /\ inbuf'[e] = inbuf[e] - 1 /\ read'[e] = read[e] + 1
          /\ read_cancel'[e] = read_cancel[e]
      BY <2>1, <2>10, At_poll_read
    <3>2. Placed(x)' = Placed(x)
      BY <2>4, <2>5, <3>1
    <3> QED
      BY <2>6, <3>1, <3>2
  <2>11. ASSUME cancel_read(e) PROVE CountInv(x)'
    <3>1. /\ chan'[x] = chan[x] /\ inbuf'[e] = 0 /\ read'[e] = read[e] /\ read_cancel'[e]
      BY <2>1, <2>11, At_cancel_read
    <3>2. Placed(x)' + inbuf[e] = Placed(x) /\ Placed(x)' \in Nat
      BY <2>4, <2>5, <3>1
    <3> QED
      BY <1>i, <2>1, <2>2, <2>4, <3>1, <3>2 DEF CountInv
  <2>12. ASSUME on_data(e) PROVE CountInv(x)'
    <3>1. /\ chan[x] # <<>> /\ Head(chan[x]) = "DATA" /\ chan'[x] = Tail(chan[x])
          /\ inbuf'[e] = IF read_cancel[e] \/ peer_terminal[e] # "none"
                         THEN inbuf[e] ELSE inbuf[e] + 1
          /\ read'[e] = read[e] /\ read_cancel'[e] = read_cancel[e]
      BY <2>1, <2>12, At_on_data
    <3>2. Has(chan[x], "DATA")
      BY <3>1, ChannelTakes
    <3>3. peer_terminal[e] = "none"
      BY <1>i, <2>1, <3>2 DEF WireInv
    <3>4. Count(chan[x]) = Count(chan'[x]) + 1
      BY <3>1, ChanCounts
    <3>5. Count(chan'[x]) \in Nat
      BY <1>t, Peers, CountTyped DEF Typed
    <3>6. CASE read_cancel[e]
      <4>1. inbuf'[e] = inbuf[e]
        BY <3>1, <3>6
      <4>2. Placed(x)' + 1 = Placed(x) /\ Placed(x)' \in Nat
        BY <2>4, <2>5, <3>1, <3>4, <3>5, <4>1
      <4> QED
        BY <1>i, <2>1, <2>2, <2>4, <3>1, <3>6, <4>2 DEF CountInv
    <3>7. CASE ~read_cancel[e]
      <4>1. inbuf'[e] = inbuf[e] + 1
        BY <3>1, <3>3, <3>7
      <4>2. Placed(x)' = read[e] + (inbuf[e] + 1) + Count(chan'[x]) + Pending(x) + Count(data_q[x])
        BY <2>5, <3>1, <4>1
      <4>3. Placed(x)' = Placed(x)
        BY <2>4, <2>5, <3>4, <3>5, <4>2
      <4> QED
        BY <2>6, <3>1, <4>3
    <3> QED
      BY <3>6, <3>7
  <2>13. ASSUME NEW f \in TerminalFrames, on_terminal(e, f) PROVE CountInv(x)'
    <3>1. /\ chan[x] # <<>> /\ Head(chan[x]) = f /\ chan'[x] = Tail(chan[x])
          /\ inbuf'[e] = IF f = "FIN" \/ peer_terminal[e] # "none" THEN inbuf[e] ELSE 0
          /\ read'[e] = read[e] /\ read_cancel'[e] = read_cancel[e]
      BY <2>1, <2>13, At_on_terminal
    <3>2. Has(chan[x], f) /\ f # "DATA" /\ (f = "FIN" \/ f = "RESET")
      BY <2>13, <3>1, ChannelTakes DEF TerminalFrames
    <3>3. Count(chan'[x]) = Count(chan[x])
      <4>1. Count(chan[x]) = Count(chan'[x]) + 0
        BY <3>1, <3>2, ChanCounts
      <4>2. Count(chan'[x]) \in Nat
        BY <1>t, Peers, CountTyped DEF Typed
      <4> QED
        BY <4>1, <4>2
    <3>4. CASE f = "FIN"
      <4>1. Placed(x)' = Placed(x)
        BY <2>5, <3>1, <3>3, <3>4
      <4> QED
        BY <2>6, <3>1, <4>1
    <3>5. CASE f = "RESET"
      <4>1. local_terminal[x] = "reset"
        BY <1>i, <3>2, <3>5 DEF WireInv
      <4>2. inbuf'[e] \in Nat /\ inbuf'[e] <= inbuf[e]
        BY <2>4, <3>1
      <4>3. Placed(x)' <= Placed(x) /\ Placed(x)' \in Nat /\ Placed(x) \in Nat
        BY <2>4, <2>5, <3>1, <3>3, <4>2
      <4> QED
        BY <1>i, <2>2, <2>4, <4>1, <4>3 DEF CountInv
    <3> QED
      BY <3>2, <3>4, <3>5
  <2>14. ASSUME on_stop_sending(e) \/ on_channel_close(e) PROVE CountInv(x)'
    <3>1. /\ chan[x] # <<>> /\ Head(chan[x]) \in {"STOP", "CLOSE"} /\ chan'[x] = Tail(chan[x])
          /\ inbuf'[e] = inbuf[e] /\ read'[e] = read[e] /\ read_cancel'[e] = read_cancel[e]
      BY <2>1, <2>14, At_on_stop_sending, At_on_channel_close
    <3>2. Count(chan[x]) = Count(chan'[x]) + 0
      BY <3>1, ChanCounts
    <3>3. Count(chan'[x]) \in Nat
      BY <1>t, Peers, CountTyped DEF Typed
    <3>4. Placed(x)' = Placed(x)
      BY <2>4, <2>5, <3>1, <3>2, <3>3
    <3> QED
      BY <2>6, <3>1, <3>4
  <2> QED
    BY <1>0, <2>8, <2>9, <2>10, <2>11, <2>12, <2>13, <2>14 DEF Callback
<1> QED
  BY <1>0, <1>2, <1>3, <1>4, <1>5, <1>6, <1>7, <1>8, <1>9, <1>10, <1>11, <1>12
     DEF Application, WriterTask, Callback

(* No step makes an endpoint convict its peer, and one that finds the       *)
(* channel closed early has its terminal frame in hand.                     *)
LEMMA StepSafe ==
    ASSUME IInv, Typed, Next
    PROVE  NoProtocolError' /\ MidStreamWindow'
<1>0. PICK e \in Endpoints : Application(e) \/ WriterTask(e) \/ Callback(e)
  BY DEF Next
<1>f. fatal = "none"
  BY DEF Next
<1> DEFINE p == peer(e)
<1>p. p \in Endpoints /\ peer(p) = e
  BY Peers
<1>i. WireInv(e) /\ WireInv(p) /\ CloseInv(p)
  BY <1>p DEF IInv, EndInv
<1>s. SUFFICES \/ fatal' = "none"
               \/ /\ fatal' = "data channel closed mid-stream"
                  /\ dc_closed'[e] /\ hand'[e].sent /\ hand'[e].frame \in TerminalFrames
  BY DEF NoProtocolError, MidStreamWindow
<1> HIDE DEF p
<1>1. CASE Application(e) \/ WriterTask(e)
  BY <1>1, <1>f, Quiet
<1>2. ASSUME on_data(e) PROVE fatal' = "none"
  <2>1. /\ chan[p] # <<>> /\ Head(chan[p]) = "DATA" /\ chan'[p] = Tail(chan[p])
        /\ peer_terminal[e] = "none" => fatal' = fatal
    BY <1>2, At_on_data DEF p
  <2>2. Has(chan[p], "DATA")
    BY <1>p, <2>1, ChannelTakes
  <2> QED
    BY <1>f, <1>i, <1>p, <2>1, <2>2 DEF WireInv
<1>3. ASSUME NEW f \in TerminalFrames, on_terminal(e, f) PROVE fatal' = "none"
  <2>1. /\ chan[p] # <<>> /\ Head(chan[p]) = f /\ chan'[p] = Tail(chan[p])
        /\ peer_terminal[e] = "none" => fatal' = fatal
    BY <1>3, At_on_terminal DEF p
  <2>2. HasTerminal(chan[p])
    BY <1>3, <1>p, <2>1, ChannelTakes DEF HasTerminal, TerminalFrames
  <2> QED
    BY <1>f, <1>i, <1>p, <2>1, <2>2 DEF WireInv
<1>4. ASSUME on_stop_sending(e) PROVE fatal' = "none"
  BY <1>4, <1>f, At_on_stop_sending
<1>5. ASSUME on_channel_close(e)
      PROVE  \/ fatal' = "none"
             \/ /\ fatal' = "data channel closed mid-stream"
                /\ dc_closed'[e] /\ hand'[e].sent /\ hand'[e].frame \in TerminalFrames
  <2>1. /\ chan[p] # <<>> /\ Head(chan[p]) = "CLOSE"
        /\ p # e /\ hand' = hand /\ dc_closed'[e]
    BY <1>5, Peers, At_on_channel_close DEF p
  <2>2. fatal' = IF local_terminal_sent[e] /\ peer_terminal[e] # "none"
                 THEN fatal ELSE "data channel closed mid-stream"
    BY <1>5, At_on_channel_close
  <2>3. /\ \A g : Has(chan[p], g) <=> g = "CLOSE" \/ Has(Tail(chan[p]), g)
        /\ Tail(chan[p]) = <<>>
    <3>1. chan[p] \in Seq(Frames) /\ Orderly(chan[p])
      BY <1>i, <1>p DEF Typed, WireInv
    <3> QED
      BY <2>1, <3>1, HasTail, OrderlyTail
  <2>4. Has(chan[p], "CLOSE") /\ ~HasTerminal(chan[p])
    BY <2>3, HasEmpty DEF HasTerminal
  <2>5. local_terminal_sent[p] /\ peer_terminal[p] # "none"
    BY <1>f, <1>i, <2>4 DEF CloseInv
  <2>6. peer_terminal[e] # "none" /\ Handed(e)
    BY <1>i, <1>p, <2>4, <2>5 DEF WireInv, Handed, p
  <2> QED
    BY <1>f, <2>1, <2>2, <2>6 DEF Handed, InHand
<1> QED
  BY <1>0, <1>1, <1>2, <1>3, <1>4, <1>5 DEF Callback

-----------------------------------------------------------------------------
(* The invariant holds at the start, and every step keeps it.               *)
LEMMA InitInvariant == Init => IInv
<1> SUFFICES ASSUME Init PROVE IInv
  OBVIOUS
<1>1. Typed
  <2>1. NoFrame \in Hands /\ <<>> \in Seq({"DATA", "FIN"}) /\ <<>> \in Seq({"RESET", "STOP"})
        /\ <<>> \in Seq(Frames) /\ Len(<<>>) = 0 /\ MaxWrites \in Nat /\ DataQ \in Nat
    BY LifecycleAssumption DEF Hands
  <2> QED
    BY <2>1 DEF Init, All, Typed
<1>2. ASSUME NEW e \in Endpoints PROVE EndInv(e)
  <2>1. /\ closer[e] = "none" /\ data_q[e] = <<>> /\ life_q[e] = <<>> /\ hand[e] = NoFrame
        /\ ~local_terminal_sent[e] /\ local_terminal[e] = "none" /\ ~drop_data[e]
        /\ chan[e] = <<>> /\ closing[e] = "no" /\ ~dc_closed[e]
        /\ read_end[e] = "open" /\ ~retired_fired[e] /\ peer_terminal[e] = "none"
        /\ ~read_cancel[e] /\ inbuf[e] = 0 /\ written[e] = 0
    BY <1>2 DEF Init, All
  <2>2. /\ peer_terminal[peer(e)] = "none" /\ ~dc_closed[peer(e)]
        /\ read[peer(e)] = 0 /\ inbuf[peer(e)] = 0
    BY <1>2, Peers DEF Init, All
  <2>3. /\ \A g : ~Has(data_q[e], g) /\ ~Has(life_q[e], g) /\ ~Has(chan[e], g)
        /\ ~HasTerminal(chan[e]) /\ FinLast(data_q[e]) /\ NoneTwice(life_q[e]) /\ Orderly(chan[e])
        /\ Count(chan[e]) = 0 /\ Count(data_q[e]) = 0
    <3>1. \A g : ~Has(data_q[e], g) /\ ~Has(life_q[e], g) /\ ~Has(chan[e], g)
      BY <2>1, HasEmpty
    <3>2. FinLast(data_q[e]) /\ NoneTwice(life_q[e]) /\ Orderly(chan[e])
      BY <2>1 DEF FinLast, NoneTwice, Orderly
    <3>3. Count(chan[e]) = 0 /\ Count(data_q[e]) = 0
      BY <2>1, CountEmpty
    <3> QED
      BY <3>1, <3>2, <3>3 DEF HasTerminal
  <2>4. /\ hand[e].frame = "none" /\ ~hand[e].sent /\ hand[e] # Ended /\ ~InHand(e) /\ ~Handed(e)
        /\ Pending(e) = 0
    BY <2>1, HandFields DEF InHand, Handed, Pending, TerminalFrames
  <2>5. TerminalInv(e) /\ PlacedInv(e) /\ StopInv(e)
    BY <2>1, <2>3, <2>4 DEF TerminalInv, PlacedInv, StopInv
  <2>6. WireInv(e) /\ CloseInv(e) /\ ReadInv(e)
    BY <2>1, <2>2, <2>3, <2>4 DEF WireInv, CloseInv, ReadInv
  <2>7. CountInv(e)
    BY <2>1, <2>2, <2>3, <2>4 DEF CountInv, Placed
  <2> QED
    BY <2>5, <2>6, <2>7 DEF EndInv
<1> QED
  BY <1>1, <1>2 DEF IInv, NoProtocolError, MidStreamWindow, Init

(* Every step keeps the invariant.                                          *)
LEMMA StepInvariant == IInv /\ [Next]_vars => IInv'
<1> SUFFICES ASSUME IInv, [Next]_vars PROVE IInv'
  OBVIOUS
<1>1. CASE Next
  <2>1. Typed
    BY DEF IInv
  <2>2. Typed'
    BY <1>1, <2>1, StepTyped
  <2>3. NoProtocolError' /\ MidStreamWindow'
    BY <1>1, <2>1, StepSafe
  <2>4. ASSUME NEW e \in Endpoints PROVE EndInv(e)'
    <3>1. TerminalInv(e)' /\ PlacedInv(e)' /\ StopInv(e)'
      BY <1>1, <2>1, StepTerminal, StepPlaced, StepStop
    <3>2. WireInv(e)' /\ CloseInv(e)' /\ ReadInv(e)' /\ CountInv(e)'
      BY <1>1, <2>1, StepWire, StepClose, StepRead, StepCount
    <3> QED
      BY <3>1, <3>2 DEF EndInv
  <2> QED
    BY <2>2, <2>3, <2>4 DEF IInv
<1>2. CASE UNCHANGED vars
  <2>1. UNCHANGED <<inbuf, peer_terminal, peer_stop, local_terminal, local_terminal_sent,
                    read_cancel, drop_data, dc_closed, retired_fired, closing, closer, hand,
                    data_q, life_q, chan, written, read, read_end, fatal>>
    BY <1>2 DEF vars, state, reading, writing, retiring, queues, seen
  <2>2. Typed' /\ NoProtocolError' /\ MidStreamWindow'
    BY <2>1 DEF IInv, Typed, NoProtocolError, MidStreamWindow
  <2>3. ASSUME NEW e \in Endpoints PROVE EndInv(e)'
    <3>1. EndInv(e)
      BY DEF IInv
    <3>2. TerminalInv(e)' /\ PlacedInv(e)' /\ StopInv(e)'
      BY <2>1, <3>1 DEF EndInv, TerminalInv, PlacedInv, StopInv, InHand
    <3>3. WireInv(e)' /\ CloseInv(e)' /\ ReadInv(e)'
      BY <2>1, <3>1 DEF EndInv, WireInv, CloseInv, ReadInv, Handed, InHand
    <3>4. CountInv(e)'
      BY <2>1, <3>1 DEF EndInv, CountInv, Placed, Pending
    <3> QED
      BY <3>2, <3>3, <3>4 DEF EndInv
  <2> QED
    BY <2>2, <2>3 DEF IInv
<1> QED
  BY <1>1, <1>2

(* The invariant holds of every reachable state.                            *)
THEOREM Invariant == Spec => []IInv
BY InitInvariant, StepInvariant, PTL DEF Spec

-----------------------------------------------------------------------------
(* A lifecycle queue in which no frame is twice has room for two.           *)
LEMMA ShortQueue ==
    ASSUME NEW q \in Seq({"RESET", "STOP"}), NoneTwice(q)
    PROVE  Len(q) <= 2
<1> SUFFICES ASSUME ~(Len(q) <= 2) PROVE FALSE
  OBVIOUS
<1>1. Len(q) \in Nat /\ 1 \in 1..Len(q) /\ 2 \in 1..Len(q) /\ 3 \in 1..Len(q)
  OBVIOUS
<1>2. q[1] \in {"RESET", "STOP"} /\ q[2] \in {"RESET", "STOP"} /\ q[3] \in {"RESET", "STOP"}
  BY <1>1
<1>3. q[1] # q[2] /\ q[1] # q[3] /\ q[2] # q[3]
  BY <1>1 DEF NoneTwice
<1> QED
  BY <1>2, <1>3

(* TypeOK: every variable has its type, no more frames are buffered or read *)
(* than the peer may write, and the lifecycle queue holds a RESET and a     *)
(* STOP_SENDING at most (reset_write, cancel_read and STOP_SENDING's reply  *)
(* queue each of them once).                                                *)
THEOREM TypeCorrect == Spec => []TypeOK
<1>1. IInv => TypeOK
  <2> SUFFICES ASSUME IInv PROVE TypeOK
    OBVIOUS
  <2>1. Typed
    BY DEF IInv
  <2>2. MaxWrites \in Nat
    BY LifecycleAssumption
  <2>3. ASSUME NEW e \in Endpoints PROVE inbuf[e] \in 0..MaxWrites /\ read[e] \in 0..MaxWrites
    <3>1. peer(e) \in Endpoints /\ peer(peer(e)) = e
      BY Peers
    <3>2. Placed(peer(e)) <= written[peer(e)]
      BY <3>1 DEF IInv, EndInv, CountInv
    <3>3. Placed(peer(e)) = read[e] + inbuf[e] + Count(chan[peer(e)]) + Pending(peer(e))
                              + Count(data_q[peer(e)])
      BY <3>1 DEF Placed
    <3>4. /\ read[e] \in Nat /\ inbuf[e] \in Nat /\ Count(chan[peer(e)]) \in Nat
          /\ Pending(peer(e)) \in Nat /\ Count(data_q[peer(e)]) \in Nat
      BY <2>1, <3>1, Numbers
    <3>5. written[peer(e)] \in 0..MaxWrites
      BY <2>1, <3>1 DEF Typed
    <3> QED
      BY <2>2, <3>2, <3>3, <3>4, <3>5
  <2>4. inbuf \in [Endpoints -> 0..MaxWrites] /\ read \in [Endpoints -> 0..MaxWrites]
    BY <2>1, <2>3 DEF Typed
  <2>5. ASSUME NEW e \in Endpoints PROVE Len(life_q[e]) <= 2
    <3>1. life_q[e] \in Seq({"RESET", "STOP"}) /\ NoneTwice(life_q[e])
      BY <2>1 DEF IInv, EndInv, TerminalInv, Typed
    <3> QED
      BY <3>1, ShortQueue
  <2>6. {peer_stop, local_terminal_sent, read_cancel, drop_data, dc_closed, retired_fired}
          \subseteq [Endpoints -> BOOLEAN]
    BY <2>1 DEF Typed
  <2>7. ASSUME NEW e \in Endpoints
        PROVE  /\ hand[e] \in {NoFrame, Ended} \cup [frame : Frames \ {"CLOSE"}, sent : BOOLEAN]
               /\ data_q[e] \in Seq({"DATA", "FIN"}) /\ Len(data_q[e]) \leq DataQ
               /\ life_q[e] \in Seq({"RESET", "STOP"}) /\ chan[e] \in Seq(Frames)
    BY <2>1 DEF Typed, Hands
  <2>8. /\ peer_terminal \in [Endpoints -> {"none", "fin", "reset"}]
        /\ local_terminal \in [Endpoints -> {"none", "fin", "reset"}]
        /\ closing \in [Endpoints -> {"no", "asked", "sent"}]
        /\ read_end \in [Endpoints -> {"open", "eof", "error"}]
        /\ closer \in [Endpoints -> {"none", "send", "shutdown"}]
        /\ written \in [Endpoints -> 0..MaxWrites]
    BY <2>1 DEF Typed
  <2> QED
    BY <2>4, <2>5, <2>6, <2>7, <2>8 DEF TypeOK
<1> QED
  BY <1>1, Invariant, PTL

(* NoProtocolError: DATA behind a terminal frame, or a second terminal      *)
(* frame, never arrives (on_frame's violations never fire between two       *)
(* endpoints of this code).                                                 *)
THEOREM NeverConvicted == Spec => []NoProtocolError
<1>1. IInv => NoProtocolError
  BY DEF IInv
<1> QED
  BY <1>1, Invariant, PTL

(* MidStreamWindow: on_channel_close fails the connection only between the  *)
(* writer task's send and its mark_terminal_sent.                           *)
THEOREM ClosedEarlyOnlyInHand == Spec => []MidStreamWindow
<1>1. IInv => MidStreamWindow
  BY DEF IInv
<1> QED
  BY <1>1, Invariant, PTL

(* RetiredIsSilent: the retired hook, which returns the slot, fires only    *)
(* when nothing of the stream is left to arrive.                            *)
THEOREM RetiredSilent == Spec => []RetiredIsSilent
<1>1. IInv => RetiredIsSilent
  <2> SUFFICES ASSUME IInv, NEW e \in Endpoints, retired_fired[e]
               PROVE  /\ chan[peer(e)] = <<>> /\ inbuf[e] = 0
                      /\ local_terminal[peer(e)] # "none"
    BY DEF RetiredIsSilent
  <2>1. peer(e) \in Endpoints /\ peer(peer(e)) = e
    BY Peers
  <2>2. ReadInv(e) /\ CloseInv(peer(e)) /\ WireInv(peer(e))
    BY <2>1 DEF IInv, EndInv
  <2> QED
    BY <2>1, <2>2 DEF ReadInv, CloseInv, WireInv
<1> QED
  BY <1>1, Invariant, PTL

(* A queue that holds one kind of terminal frame, once at most.             *)
LEMMA HoldsOne ==
    ASSUME NEW q, NEW g, Len(q) \in Nat,
           \A i \in 1..Len(q) : q[i] \in TerminalFrames <=> q[i] = g,
           \A i, j \in 1..Len(q) : q[i] = g /\ q[j] = g => i = j
    PROVE  Holds(q) = One(Has(q, g))
<1> DEFINE D == {i \in 1..Len(q) : q[i] \in TerminalFrames}
<1>1. CASE Has(q, g)
  <2>1. PICK i \in 1..Len(q) : q[i] = g
    BY <1>1 DEF Has
  <2>2. D = {i}
    BY <2>1
  <2>3. Cardinality(D) = 1
    BY <2>2, FS_Singleton
  <2> QED
    BY <1>1, <2>3 DEF Holds, One
<1>2. CASE ~Has(q, g)
  <2>1. D = {}
    BY <1>2 DEF Has
  <2>2. Cardinality(D) = 0
    BY <2>1, FS_EmptySet
  <2> QED
    BY <1>2, <2>2 DEF Holds, One
<1> QED
  BY <1>1, <1>2

(* TerminalOnItsWay: local_terminal is set exactly when the FIN or RESET it *)
(* stands for is claimed, queued, in the writer task's hand or sent.        *)
THEOREM TerminalPlaced == Spec => []TerminalOnItsWay
<1>1. IInv => TerminalOnItsWay
  <2> SUFFICES ASSUME IInv, NEW e \in Endpoints \ Abandoners
               PROVE  TerminalsHeld(e) = One(local_terminal[e] # "none")
    BY DEF TerminalOnItsWay
  <2>1. Typed /\ TerminalInv(e) /\ PlacedInv(e)
    BY DEF IInv, EndInv
  <2>2. data_q[e] \in Seq({"DATA", "FIN"}) /\ life_q[e] \in Seq({"RESET", "STOP"})
    BY <2>1 DEF Typed
  <2>3. Holds(data_q[e]) = One(Has(data_q[e], "FIN"))
    <3>1. Len(data_q[e]) \in Nat /\ FinLast(data_q[e])
      BY <2>1, <2>2 DEF TerminalInv
    <3>2. \A i \in 1..Len(data_q[e]) : data_q[e][i] \in TerminalFrames <=> data_q[e][i] = "FIN"
      BY <2>2 DEF TerminalFrames
    <3>3. \A i, j \in 1..Len(data_q[e]) :
            data_q[e][i] = "FIN" /\ data_q[e][j] = "FIN" => i = j
      <4>1. ASSUME NEW i \in 1..Len(data_q[e]), NEW j \in 1..Len(data_q[e]), i # j
            PROVE  i < j \/ j < i
        BY <3>1, <4>1
      <4> QED
        BY <3>1, <4>1 DEF FinLast
    <3> QED
      BY <3>1, <3>2, <3>3, HoldsOne
  <2>4. Holds(life_q[e]) = One(Has(life_q[e], "RESET"))
    <3>1. Len(life_q[e]) \in Nat /\ NoneTwice(life_q[e])
      BY <2>1, <2>2 DEF TerminalInv
    <3>2. \A i \in 1..Len(life_q[e]) : life_q[e][i] \in TerminalFrames <=> life_q[e][i] = "RESET"
      BY <2>2 DEF TerminalFrames
    <3>3. \A i, j \in 1..Len(life_q[e]) :
            life_q[e][i] = "RESET" /\ life_q[e][j] = "RESET" => i = j
      BY <3>1 DEF NoneTwice
    <3> QED
      BY <3>1, <3>2, <3>3, HoldsOne
  <2>5. TerminalsHeld(e) =
          One(closer[e] # "none") + One(Has(data_q[e], "FIN")) + One(Has(life_q[e], "RESET"))
            + One(InHand(e)) + One(local_terminal_sent[e])
    BY <2>3, <2>4 DEF TerminalsHeld, InHand
  <2>6. \/ closer[e] # "none" \/ Has(data_q[e], "FIN") \/ Has(life_q[e], "RESET")
        \/ InHand(e) \/ local_terminal_sent[e]
        \/ local_terminal[e] = "none"
    BY <2>1 DEF PlacedInv
  <2>7. /\ closer[e] # "none" =>
             /\ local_terminal[e] # "none" /\ ~Has(data_q[e], "FIN")
             /\ ~Has(life_q[e], "RESET") /\ ~InHand(e) /\ ~local_terminal_sent[e]
        /\ Has(data_q[e], "FIN") =>
             /\ local_terminal[e] # "none" /\ ~Has(life_q[e], "RESET")
             /\ ~InHand(e) /\ ~local_terminal_sent[e]
        /\ Has(life_q[e], "RESET") =>
             local_terminal[e] # "none" /\ ~InHand(e) /\ ~local_terminal_sent[e]
        /\ InHand(e) => local_terminal[e] # "none" /\ ~local_terminal_sent[e]
        /\ local_terminal_sent[e] => local_terminal[e] # "none"
    BY <2>1 DEF TerminalInv
  <2> QED
    BY <2>5, <2>6, <2>7 DEF One
<1> QED
  BY <1>1, Invariant, PTL

-----------------------------------------------------------------------------
(* The refinement: the halves of the byte stream as the stream's state      *)
(* shows them.                                                              *)
WriteHalf ==
    [e \in Endpoints |-> IF local_terminal[e] = "none" \/ closer[e] = "shutdown"
                         THEN "open" ELSE local_terminal[e]]
ReadHalf == [e \in Endpoints |-> IF read_cancel[e] THEN "cancelled" ELSE read_end[e]]

(* The byte stream's endpoints are the stream's.                            *)
LEMMA SameEnds == Promise!Ends = Endpoints /\ \A x : Promise!other(x) = peer(x)
BY DEF Promise!Ends, Endpoints, Promise!other, peer

(* A function that changes at one endpoint only.                            *)
LEMMA OneChanges ==
    ASSUME NEW F, NEW G, NEW e \in Endpoints, NEW v,
           F = [x \in Endpoints |-> F[x]], G = [x \in Endpoints |-> G[x]],
           G[e] = v, \A x \in Endpoints : x # e => G[x] = F[x]
    PROVE  G = [F EXCEPT ![e] = v]
<1>1. [F EXCEPT ![e] = v] = [x \in Endpoints |-> IF x = e THEN v ELSE F[x]]
  OBVIOUS
<1>2. \A x \in Endpoints : G[x] = IF x = e THEN v ELSE F[x]
  OBVIOUS
<1> QED
  BY <1>1, <1>2

(* The write halves, when one of them ends and when none does.              *)
LEMMA WriteHalves ==
    ASSUME NEW e \in Endpoints,
           \A x \in Endpoints : x # e => local_terminal'[x] = local_terminal[x]
               /\ closer'[x] = closer[x]
    PROVE  /\ WriteHalf'[e] = WriteHalf[e] => WriteHalf' = WriteHalf
           /\ \A v : WriteHalf'[e] = v => WriteHalf' = [WriteHalf EXCEPT ![e] = v]
<1>1. WriteHalf = [x \in Endpoints |-> WriteHalf[x]]
          /\ WriteHalf' = [x \in Endpoints |-> WriteHalf'[x]]
  BY DEF WriteHalf
<1>2. \A x \in Endpoints : x # e => WriteHalf'[x] = WriteHalf[x]
  BY DEF WriteHalf
<1> HIDE DEF WriteHalf
<1>3. WriteHalf'[e] = WriteHalf[e] => WriteHalf' = WriteHalf
  BY <1>1, <1>2
<1>4. ASSUME NEW v, WriteHalf'[e] = v PROVE WriteHalf' = [WriteHalf EXCEPT ![e] = v]
  BY <1>1, <1>2, <1>4, OneChanges
<1> QED
  BY <1>3, <1>4

(* The read halves, when one of them changes.                               *)
LEMMA ReadHalves ==
    ASSUME NEW e \in Endpoints,
           \A x \in Endpoints : x # e => read_cancel'[x] = read_cancel[x]
               /\ read_end'[x] = read_end[x]
    PROVE  \A v : ReadHalf'[e] = v => ReadHalf' = [ReadHalf EXCEPT ![e] = v]
<1>1. ReadHalf = [x \in Endpoints |-> ReadHalf[x]]
          /\ ReadHalf' = [x \in Endpoints |-> ReadHalf'[x]]
  BY DEF ReadHalf
<1>2. \A x \in Endpoints : x # e => ReadHalf'[x] = ReadHalf[x]
  BY DEF ReadHalf
<1> HIDE DEF ReadHalf
<1> QED
  BY <1>1, <1>2, OneChanges

(* What the invariant knows of a reader that has drained its buffer after   *)
(* FIN: nothing the peer wrote is missing.                                  *)
LEMMA AllRead ==
    ASSUME IInv, NEW e \in Endpoints, peer_terminal[e] = "fin", inbuf[e] = 0, ~read_cancel[e]
    PROVE  read[e] = written[peer(e)]
<1> DEFINE p == peer(e)
<1>1. p \in Endpoints /\ peer(p) = e
  BY Peers
<1> HIDE DEF p
<1>2. Typed /\ TerminalInv(p) /\ WireInv(p) /\ CountInv(p)
  BY <1>1 DEF IInv, EndInv
<1>3. Handed(p) /\ ~Has(chan[p], "DATA") /\ local_terminal[p] = "fin"
  BY <1>1, <1>2 DEF WireInv
<1>4. data_q[p] = <<>> /\ Pending(p) = 0
  BY <1>2, <1>3 DEF TerminalInv, Handed, InHand, Pending, TerminalFrames
<1>5. Count(data_q[p]) = 0 /\ Count(chan[p]) = 0 /\ read[e] \in Nat
  BY <1>1, <1>2, <1>3, <1>4, CountEmpty, Numbers
<1>6. Placed(p) = read[e]
  BY <1>1, <1>4, <1>5 DEF Placed
<1> QED
  BY <1>1, <1>2, <1>3, <1>6 DEF CountInv, p

(* Every step of the stream is one of the byte stream or none.              *)
LEMMA StepImplements ==
    ASSUME IInv, Next
    PROVE  [Promise!Next]_(Promise!vars)
<1> DEFINE Vars == <<written, read, WriteHalf, ReadHalf>>
<1>0. PICK e \in Endpoints : Application(e) \/ WriterTask(e) \/ Callback(e)
  BY DEF Next
<1>v. Promise!vars = Vars /\ Promise!vars' = Vars'
  BY DEF Promise!vars, WriteHalf, ReadHalf
<1>i. Typed /\ TerminalInv(e) /\ TerminalInv(peer(e)) /\ ReadInv(e) /\ WireInv(peer(e))
          /\ StopInv(peer(e))
  BY Peers DEF IInv, EndInv
<1>p. peer(e) \in Endpoints /\ peer(peer(e)) = e
  BY Peers
<1>q. UNCHANGED Vars => [Promise!Next]_(Promise!vars)
  BY <1>v
<1>w. WriteHalf[e] = IF local_terminal[e] = "none" \/ closer[e] = "shutdown"
                     THEN "open" ELSE local_terminal[e]
  BY DEF WriteHalf
<1>x. WriteHalf'[e] = IF local_terminal'[e] = "none" \/ closer'[e] = "shutdown"
                      THEN "open" ELSE local_terminal'[e]
  BY DEF WriteHalf
<1>r. \A x \in Endpoints : ReadHalf[x] = IF read_cancel[x] THEN "cancelled" ELSE read_end[x]
  BY DEF ReadHalf
<1>y. ReadHalf'[e] = IF read_cancel'[e] THEN "cancelled" ELSE read_end'[e]
  BY DEF ReadHalf
<1>z. UNCHANGED <<read_cancel, read_end>> => UNCHANGED ReadHalf
  BY DEF ReadHalf
<1>u. UNCHANGED <<local_terminal, closer>> => UNCHANGED WriteHalf
  BY DEF WriteHalf
<1>c. closer[e] # "none" => local_terminal[e] = "fin"
  BY <1>i DEF TerminalInv
<1>1. ASSUME poll_write(e) PROVE [Promise!Next]_(Promise!vars)
  <2>1. /\ written' = [written EXCEPT ![e] = @ + 1] /\ WriteHalf[e] = "open"
        /\ UNCHANGED <<read, WriteHalf, ReadHalf>>
    <3>1. written' = [written EXCEPT ![e] = @ + 1]
      BY <1>1 DEF poll_write
    <3>2. /\ closer[e] = "none" /\ local_terminal[e] = "none"
          /\ UNCHANGED <<read, local_terminal, closer, read_cancel, read_end>>
      BY <1>1, <1>i, At_poll_write
    <3> QED
      BY <3>1, <3>2, <1>w, <1>u, <1>z
  <2>2. Promise!Write(e)
    BY <2>1 DEF Promise!Write, WriteHalf, ReadHalf
  <2> QED
    BY <2>2, SameEnds DEF Promise!Next
<1>2. ASSUME close_write(e) PROVE [Promise!Next]_(Promise!vars)
  <2>1. /\ closer[e] = "none" /\ local_terminal[e] = "none"
        /\ local_terminal'[e] = "fin" /\ closer'[e] = "send"
        /\ UNCHANGED <<written, read, read_cancel, read_end>>
        /\ \A x \in Endpoints : x # e => local_terminal'[x] = local_terminal[x]
               /\ closer'[x] = closer[x]
    BY <1>2, <1>i, At_close_write
  <2>2. WriteHalf[e] = "open" /\ WriteHalf' = [WriteHalf EXCEPT ![e] = "fin"]
    BY <2>1, <1>w, <1>x, WriteHalves
  <2>3. Promise!Finish(e)
    BY <2>1, <2>2, <1>z DEF Promise!Finish, WriteHalf, ReadHalf
  <2> QED
    BY <2>3, SameEnds DEF Promise!Next
<1>3. ASSUME queue_fin(e) PROVE [Promise!Next]_(Promise!vars)
  <2>1. /\ closer[e] = "send" /\ closer'[e] = "none" /\ local_terminal' = local_terminal
        /\ UNCHANGED <<written, read, read_cancel, read_end>>
        /\ \A x \in Endpoints : x # e => local_terminal'[x] = local_terminal[x]
               /\ closer'[x] = closer[x]
    BY <1>3, <1>i, At_queue_fin
  <2>2. WriteHalf' = WriteHalf
    BY <2>1, <1>w, <1>x, WriteHalves
  <2> QED
    BY <2>1, <2>2, <1>z, <1>q
<1>4. ASSUME abandon_close(e) PROVE [Promise!Next]_(Promise!vars)
  <2>1. /\ closer[e] = "send" /\ closer'[e] = "none" /\ local_terminal' = local_terminal
        /\ UNCHANGED <<written, read, read_cancel, read_end>>
        /\ \A x \in Endpoints : x # e => local_terminal'[x] = local_terminal[x]
               /\ closer'[x] = closer[x]
    BY <1>4, <1>i, At_abandon_close
  <2>2. WriteHalf' = WriteHalf
    BY <2>1, <1>w, <1>x, WriteHalves
  <2> QED
    BY <2>1, <2>2, <1>z, <1>q
<1>5. ASSUME poll_shutdown(e) PROVE [Promise!Next]_(Promise!vars)
  <2>1. /\ local_terminal[e] = "none" /\ closer'[e] = "shutdown"
        /\ UNCHANGED <<written, read, read_cancel, read_end>>
        /\ \A x \in Endpoints : x # e => local_terminal'[x] = local_terminal[x]
               /\ closer'[x] = closer[x]
    BY <1>5, <1>i, At_poll_shutdown
  <2>2. WriteHalf' = WriteHalf
    BY <2>1, <1>w, <1>x, WriteHalves
  <2> QED
    BY <2>1, <2>2, <1>z, <1>q
<1>6. ASSUME poll_shutdown_reserve(e) PROVE [Promise!Next]_(Promise!vars)
  <2>1. /\ closer[e] = "shutdown" /\ closer'[e] = "none"
        /\ local_terminal' = local_terminal \/ local_terminal'[e] = "none"
        /\ UNCHANGED <<written, read, read_cancel, read_end>>
        /\ \A x \in Endpoints : x # e => local_terminal'[x] = local_terminal[x]
               /\ closer'[x] = closer[x]
    BY <1>6, <1>i, At_poll_shutdown_reserve
  <2>2. CASE local_terminal' = local_terminal
    <3>1. WriteHalf[e] = "open" /\ WriteHalf' = [WriteHalf EXCEPT ![e] = "fin"]
      BY <2>1, <2>2, <1>c, <1>w, <1>x, WriteHalves
    <3>2. Promise!Finish(e)
      BY <2>1, <3>1, <1>z DEF Promise!Finish, WriteHalf, ReadHalf
    <3> QED
      BY <3>2, SameEnds DEF Promise!Next
  <2>3. CASE local_terminal'[e] = "none"
    <3>1. WriteHalf' = WriteHalf
      BY <2>1, <2>3, <1>w, <1>x, WriteHalves
    <3> QED
      BY <2>1, <3>1, <1>z, <1>q
  <2> QED
    BY <2>1, <2>2, <2>3
<1>7. ASSUME reset_write(e) PROVE [Promise!Next]_(Promise!vars)
  <2>1. /\ e \in Resetters /\ closer[e] = "none" /\ closer' = closer
        /\ local_terminal[e] = "none" /\ local_terminal'[e] = "reset"
        /\ UNCHANGED <<written, read, read_cancel, read_end>>
        /\ \A x \in Endpoints : x # e => local_terminal'[x] = local_terminal[x]
               /\ closer'[x] = closer[x]
    BY <1>7, <1>i, At_reset_write
  <2>2. WriteHalf[e] = "open" /\ WriteHalf' = [WriteHalf EXCEPT ![e] = "reset"]
    BY <2>1, <1>w, <1>x, WriteHalves
  <2>3. Promise!Abort(e)
    BY <2>1, <2>2, <1>z DEF Promise!Abort, WriteHalf, ReadHalf
  <2> QED
    BY <2>3, SameEnds DEF Promise!Next
<1>8. ASSUME poll_read(e) PROVE [Promise!Next]_(Promise!vars)
  <2>1. read' = [read EXCEPT ![e] = @ + 1]
    BY <1>8 DEF poll_read
  <2>2. /\ inbuf[e] > 0
        /\ UNCHANGED <<written, local_terminal, closer, read_cancel, read_end>>
    BY <1>8, <1>i, At_poll_read
  <2>3. ReadHalf[e] = "open"
    BY <2>2, <1>i, <1>r DEF ReadInv
  <2>4. read[e] < written[peer(e)]
    <3>1. /\ Placed(peer(e)) <= written[peer(e)]
          /\ Placed(peer(e)) = read[e] + inbuf[e] + Count(chan[peer(e)]) + Pending(peer(e))
                                 + Count(data_q[peer(e)])
      BY <1>p DEF IInv, EndInv, CountInv, Placed
    <3>2. /\ read[e] \in Nat /\ inbuf[e] \in Nat /\ Count(chan[peer(e)]) \in Nat
          /\ Pending(peer(e)) \in Nat /\ Count(data_q[peer(e)]) \in Nat
          /\ written[peer(e)] \in Nat
      BY <1>i, <1>p, Numbers
    <3> QED
      BY <2>2, <3>1, <3>2
  <2>5. Promise!Read(e)
    BY <2>1, <2>2, <2>3, <2>4, <1>u, <1>z, SameEnds DEF Promise!Read, WriteHalf, ReadHalf
  <2> QED
    BY <2>5, SameEnds DEF Promise!Next
<1>9. ASSUME poll_read_end(e) PROVE [Promise!Next]_(Promise!vars)
  <2>1. /\ read_end[e] = "open" /\ inbuf[e] = 0 /\ ~read_cancel[e] /\ peer_terminal[e] # "none"
        /\ read_end'[e] = IF peer_terminal[e] = "fin" THEN "eof" ELSE "error"
        /\ UNCHANGED <<written, read, local_terminal, closer, read_cancel>>
        /\ \A x \in Endpoints : x # e => read_cancel'[x] = read_cancel[x]
               /\ read_end'[x] = read_end[x]
    BY <1>9, <1>i, At_poll_read_end
  <2>2. ReadHalf[e] = "open"
    BY <2>1, <1>r
  <2>3. WriteHalf[peer(e)] = peer_terminal[e]
    <3>1. Handed(peer(e)) /\ local_terminal[peer(e)] = peer_terminal[e]
      BY <2>1, <1>i, <1>p DEF WireInv
    <3>2. closer[peer(e)] = "none"
      BY <3>1, <1>i DEF TerminalInv, Handed
    <3> QED
      BY <1>p, <2>1, <3>1, <3>2 DEF WriteHalf
  <2>4. CASE peer_terminal[e] = "fin"
    <3>1. ReadHalf' = [ReadHalf EXCEPT ![e] = "eof"]
      BY <2>1, <2>4, <1>y, ReadHalves
    <3>2. read[e] = written[peer(e)]
      BY <2>1, <2>4, AllRead
    <3>3. Promise!ReadEof(e)
      BY <2>1, <2>2, <2>3, <2>4, <3>1, <3>2, <1>u, SameEnds DEF Promise!ReadEof, WriteHalf,
         ReadHalf
    <3> QED
      BY <3>3, SameEnds DEF Promise!Next
  <2>5. CASE peer_terminal[e] = "reset"
    <3>1. ReadHalf' = [ReadHalf EXCEPT ![e] = "error"]
      BY <2>1, <2>5, <1>y, ReadHalves
    <3>2. Promise!ReadError(e)
      BY <2>1, <2>2, <2>3, <2>5, <3>1, <1>u, SameEnds DEF Promise!ReadError, WriteHalf, ReadHalf
    <3> QED
      BY <3>2, SameEnds DEF Promise!Next
  <2> QED
    BY <2>1, <2>4, <2>5, <1>i DEF Typed
<1>10. ASSUME cancel_read(e) PROVE [Promise!Next]_(Promise!vars)
  <2>1. /\ e \in Cancellers /\ ~read_cancel[e] /\ read_cancel'[e]
        /\ UNCHANGED <<written, read, local_terminal, closer, read_end>>
        /\ \A x \in Endpoints : x # e => read_cancel'[x] = read_cancel[x]
               /\ read_end'[x] = read_end[x]
    BY <1>10, <1>i, At_cancel_read
  <2>2. ReadHalf[e] # "cancelled" /\ ReadHalf' = [ReadHalf EXCEPT ![e] = "cancelled"]
    BY <2>1, <1>i, <1>r, <1>y, ReadHalves DEF Typed
  <2>3. Promise!Cancel(e)
    BY <2>1, <2>2, <1>u DEF Promise!Cancel, WriteHalf, ReadHalf
  <2> QED
    BY <2>3, SameEnds DEF Promise!Next
<1>11. ASSUME WriterTask(e) PROVE [Promise!Next]_(Promise!vars)
  <2>1. UNCHANGED <<written, read, local_terminal, closer, read_cancel, read_end>>
    BY <1>11, <1>i, At_writer_take, At_writer_send, At_writer_fail, At_writer_sent,
       At_close_channel
       DEF WriterTask
  <2> QED
    BY <2>1, <1>u, <1>z, <1>q
<1>12. ASSUME on_data(e) \/ (\E f \in TerminalFrames : on_terminal(e, f)) \/ on_channel_close(e)
       PROVE  [Promise!Next]_(Promise!vars)
  <2>1. UNCHANGED <<written, read, local_terminal, closer, read_cancel, read_end>>
    BY <1>12, <1>i, At_on_data, At_on_terminal, At_on_channel_close
  <2> QED
    BY <2>1, <1>u, <1>z, <1>q
<1>13. ASSUME on_stop_sending(e) PROVE [Promise!Next]_(Promise!vars)
  <2>1. /\ chan[peer(e)] # <<>> /\ Head(chan[peer(e)]) = "STOP"
               /\ chan'[peer(e)] = Tail(chan[peer(e)])
        /\ local_terminal' = local_terminal
           \/ (local_terminal[e] = "none" /\ local_terminal'[e] = "reset")
        /\ UNCHANGED <<written, read, closer, read_cancel, read_end>>
        /\ \A x \in Endpoints : x # e => local_terminal'[x] = local_terminal[x]
               /\ closer'[x] = closer[x]
    BY <1>13, <1>i, At_on_stop_sending
  <2>2. CASE local_terminal' = local_terminal
    BY <2>1, <2>2, <1>u, <1>z, <1>q
  <2>3. CASE local_terminal[e] = "none" /\ local_terminal'[e] = "reset"
    <3>1. closer[e] = "none" /\ closer'[e] = "none"
      BY <2>1, <2>3, <1>c
    <3>2. WriteHalf[e] = "open" /\ WriteHalf' = [WriteHalf EXCEPT ![e] = "reset"]
      BY <2>1, <2>3, <3>1, <1>w, <1>x, WriteHalves
    <3>3. Has(chan[peer(e)], "STOP")
      BY <1>i, <1>p, <2>1, ChannelTakes
    <3>4. ReadHalf[peer(e)] = "cancelled"
      BY <3>3, <1>i, <1>p, <1>r DEF StopInv
    <3>5. Promise!Abort(e)
      BY <2>1, <3>2, <3>4, <1>z, SameEnds DEF Promise!Abort, WriteHalf, ReadHalf
    <3> QED
      BY <3>5, SameEnds DEF Promise!Next
  <2> QED
    BY <2>1, <2>2, <2>3
<1> QED
  BY <1>0, <1>1, <1>2, <1>3, <1>4, <1>5, <1>6, <1>7, <1>8, <1>9, <1>10, <1>11, <1>12, <1>13
     DEF Application, Callback

(* ImplementsByteStream: the stream is the byte stream of its trait.  End   *)
(* of file comes after every frame written, an error after a reset, a reset *)
(* from the application or in answer to a cancelled read.                   *)
THEOREM Implements == Spec => ImplementsByteStream
<1>1. Init => Promise!Init
  BY DEF Init, All, NoFrame, Promise!Init, Promise!Ends, Endpoints
<1>2. IInv /\ [Next]_vars => [Promise!Next]_(Promise!vars)
  <2>1. ASSUME UNCHANGED vars PROVE UNCHANGED Promise!vars
    BY <2>1 DEF vars, state, reading, writing, seen, Promise!vars
  <2> QED
    BY <2>1, StepImplements
<1> QED
  BY <1>1, <1>2, Invariant, PTL DEF Spec, ImplementsByteStream, Promise!Spec
=============================================================================
