--------------------------- MODULE FramingProofs ---------------------------
(***************************************************************************)
(* Proofs about Framing, for any limits: each decoder accepts what the      *)
(* encoders of its channel make of legal values, reads those values back    *)
(* and refuses every other message that can arrive.                         *)
(*                                                                          *)
(* The argument: the legal messages and the arriving ones are both listed   *)
(* by type and length; the decoder's verdict is found for each kind; two    *)
(* messages are told apart by their fields.                                 *)
(***************************************************************************)
EXTENDS Framing, SequenceTheorems, TLAPS

(* HELLO's fields: the version byte before the three limits.                *)
LEMMA Cons ==
    ASSUME NEW ver, NEW a, NEW b, NEW c
    PROVE <<ver>> \o <<a, b, c>> = <<ver, a, b, c>>
<1> DEFINE S == {ver, a, b, c}
           p == <<ver>>
           q == <<a, b, c>>
           r == <<ver, a, b, c>>
<1>1. p \in Seq(S) /\ q \in Seq(S) /\ r \in Seq(S)
  OBVIOUS
<1>2. Len(p) = 1 /\ Len(q) = 3 /\ Len(r) = 4 /\ p[1] = ver /\ q[1] = a /\ q[2] = b /\ q[3] = c
      /\ r[1] = ver /\ r[2] = a /\ r[3] = b /\ r[4] = c
  OBVIOUS
<1> HIDE DEF p, q, r, S
<1>0. /\ p \o q \in Seq(S) /\ Len(p \o q) = Len(p) + Len(q)
      /\ \A i \in 1..Len(p) + Len(q) : (p \o q)[i] = IF i <= Len(p) THEN p[i] ELSE q[i - Len(p)]
  BY <1>1, ConcatProperties
<1>3. p \o q \in Seq(S) /\ Len(p \o q) = 4
  BY <1>0, <1>2
<1>4. (p \o q)[1] = ver /\ (p \o q)[2] = a /\ (p \o q)[3] = b /\ (p \o q)[4] = c
  BY <1>0, <1>2
<1>5. \A i \in 1..4 : (p \o q)[i] = r[i]
  <2>1. \A i \in 1..4 : i = 1 \/ i = 2 \/ i = 3 \/ i = 4
    OBVIOUS
  <2> QED
    BY <1>2, <1>4, <2>1
<1>6. p \o q = r
  <2>1. Len(p \o q) = Len(r) /\ \A i \in 1..Len(p \o q) : (p \o q)[i] = r[i]
    BY <1>2, <1>3, <1>5
  <2> QED
    BY <1>1, <1>3, <2>1, SeqEqual
<1> QED
  BY <1>6 DEF p, q, r

(* HELLO is its version and its three limits.                               *)
LEMMA HelloMessage ==
    ASSUME NEW ver, NEW a, NEW b, NEW c
    PROVE  [encode_hello(<<a, b, c>>) EXCEPT !.val[1] = ver] = Msg(1, 26, <<ver, a, b, c>>)
<1>1. <<WIRE_VERSION>> \o <<a, b, c>> = <<WIRE_VERSION, a, b, c>>
  BY Cons
<1>2. encode_hello(<<a, b, c>>) = Msg(1, 26, <<WIRE_VERSION, a, b, c>>)
  BY <1>1 DEF encode_hello
<1>3. [<<WIRE_VERSION, a, b, c>> EXCEPT ![1] = ver] = <<ver, a, b, c>>
  OBVIOUS
<1> QED
  BY <1>2, <1>3 DEF Msg

(* What the encoders of control messages make of every legal value.         *)
LEMMA LegalControl ==
    ASSUME NEW m
    PROVE  m \in ControlMessages <=>
             \/ \E c \in Codes : m = Msg(0, 5, <<c>>)
             \/ \E ver \in 0..2, a \in Offsets, b \in Offsets, c \in Offsets :
                  m = Msg(1, 26, <<ver, a, b, c>>)
             \/ \E t \in {2, 3}, v \in Offsets : m = Msg(t, 9, <<v>>)
<1> DEFINE X == {encode_conn_close(c) : c \in Codes}
           Hello(a, b, c, ver) == [encode_hello(<<a, b, c>>) EXCEPT !.val[1] = ver]
           Y == {Hello(a, b, c, ver) :
                   a \in Offsets, b \in Offsets, c \in Offsets, ver \in 0..2}
           Z == {encode_max_data(v) : v \in Offsets} \cup {encode_max_streams(v) : v \in Offsets}
<1>0. m \in ControlMessages <=> m \in X \/ m \in Y \/ m \in Z
  BY DEF ControlMessages
<1>2. \A ver, a, b, c : Hello(a, b, c, ver) = Msg(1, 26, <<ver, a, b, c>>)
  BY HelloMessage
<1> HIDE DEF Hello
<1>3. /\ \A c : encode_conn_close(c) = Msg(0, 5, <<c>>)
      /\ \A v : encode_max_data(v) = Msg(2, 9, <<v>>) /\ encode_max_streams(v) = Msg(3, 9, <<v>>)
  BY DEF encode_conn_close, encode_max_data, encode_max_streams
<1>4. m \in X <=> \E c \in Codes : m = Msg(0, 5, <<c>>)
  BY <1>3
<1>5. m \in Z <=> \E t \in {2, 3}, v \in Offsets : m = Msg(t, 9, <<v>>)
  BY <1>3
<1>6. m \in Y <=> \E ver \in 0..2, a \in Offsets, b \in Offsets, c \in Offsets :
                     m = Msg(1, 26, <<ver, a, b, c>>)
  <2>1. m \in Y <=> \E a \in Offsets, b \in Offsets, c \in Offsets, ver \in 0..2 :
                        m = Hello(a, b, c, ver)
    BY SMT
  <2> HIDE DEF Y
  <2> QED
    BY <1>2, <2>1
<1> HIDE DEF X, Y, Z
<1> QED
  BY <1>0, <1>4, <1>5, <1>6

(* What the encoders of stream frames make of every legal value.            *)
LEMMA LegalStream ==
    ASSUME NEW m
    PROVE  m \in StreamMessages <=>
             \/ \E len \in Lengths : len \in 2..MaxFrameSize /\ m = Msg(0, len, <<>>)
             \/ m = Msg(1, 1, <<>>)
             \/ \E t \in {2, 3}, c \in Codes : m = Msg(t, 5, <<c>>)
             \/ \E v \in Offsets : m = Msg(4, 9, <<v>>)
<1>1. m \in StreamMessages <=>
             \/ \E n \in {len - 1 : len \in Lengths} \cap 1..(MaxFrameSize - 1) : m = encode_data(n)
             \/ m = encode_fin
             \/ \E t \in {2, 3}, c \in Codes : m = encode_code(t, c)
             \/ \E v \in Offsets : m = encode_max_stream_data(v)
  BY DEF StreamMessages
<1>2. \A len \in Lengths : len \in Nat
  BY FramingAssumption DEF Lengths
<1>3. (\E n \in {len - 1 : len \in Lengths} \cap 1..(MaxFrameSize - 1) : m = encode_data(n))
      <=> \E len \in Lengths : len \in 2..MaxFrameSize /\ m = Msg(0, len, <<>>)
  <2>1. ASSUME NEW len \in Lengths, len - 1 \in 1..(MaxFrameSize - 1), m = encode_data(len - 1)
        PROVE  len \in 2..MaxFrameSize /\ m = Msg(0, len, <<>>)
    BY <1>2, <2>1, FramingAssumption DEF encode_data
  <2>2. ASSUME NEW len \in Lengths, len \in 2..MaxFrameSize, m = Msg(0, len, <<>>)
        PROVE  len - 1 \in 1..(MaxFrameSize - 1) /\ m = encode_data(len - 1)
    <3>1. 1 + (len - 1) = len
      BY <1>2
    <3> QED
      BY <1>2, <2>2, <3>1, FramingAssumption DEF encode_data
  <2> QED
    BY <2>1, <2>2
<1> QED
  BY <1>1, <1>3 DEF encode_fin, encode_code, encode_max_stream_data

-----------------------------------------------------------------------------
(* The messages that can arrive, by their fields.                           *)
LEMMA ArrivingControl ==
    ASSUME NEW m \in Messages["control"]
    PROVE  \/ \E c \in Codes : m = Msg(0, 5, <<c>>)
           \/ \E ver \in 0..2, a \in Credits, b \in Credits, c \in Credits :
                m = Msg(1, 26, <<ver, a, b, c>>)
           \/ \E t \in {2, 3}, v \in Credits : m = Msg(t, 9, <<v>>)
           \/ \E t \in 0..5, len \in Lengths :
                /\ m = Msg(t, len, <<>>)
                /\ <<t, len>> \notin {<<0, 5>>, <<1, 26>>, <<2, 9>>, <<3, 9>>}
<1>0. PICK t \in 0..5, len \in Lengths : \E f \in Fields("control", t, len) : m = Msg(t, len, f)
  BY DEF Messages
<1>1. PICK f \in Fields("control", t, len) : m = Msg(t, len, f)
  BY <1>0
<1>2. CASE t = 0 /\ len = 5
  <2>1. Fields("control", t, len) = {<<c>> : c \in Codes}
    BY <1>2 DEF Fields
  <2> QED
    BY <1>1, <1>2, <2>1
<1>3. CASE t \in {2, 3} /\ len = 9
  <2>1. Fields("control", t, len) = {<<v>> : v \in Credits}
    BY <1>3 DEF Fields
  <2> QED
    BY <1>1, <1>3, <2>1
<1>4. CASE t = 1 /\ len = 26
  <2> DEFINE Limits == Credits \X Credits \X Credits
             Hello(ver, l) == <<ver>> \o l
  <2>1. Fields("control", t, len) = {Hello(ver, l) : ver \in 0..2, l \in Limits}
    BY <1>4 DEF Fields
  <2>2. \E ver \in 0..2, l \in Limits : f = Hello(ver, l)
    <3> HIDE DEF Hello, Limits
    <3> QED
      BY <1>1, <2>1, SMT
  <2>2a. PICK ver \in 0..2, l \in Credits \X Credits \X Credits : f = <<ver>> \o l
    BY <2>2
  <2>3. PICK a \in Credits, b \in Credits, c \in Credits : l = <<a, b, c>>
    BY <2>2a
  <2>4. f = <<ver, a, b, c>>
    BY <2>2a, <2>3, Cons
  <2> QED
    BY <1>1, <1>4, <2>4
<1>5. CASE <<t, len>> \notin {<<0, 5>>, <<1, 26>>, <<2, 9>>, <<3, 9>>}
  <2>1. Fields("control", t, len) = {<<>>}
    BY <1>5 DEF Fields
  <2> QED
    BY <1>1, <1>5, <2>1
<1> QED
  BY <1>2, <1>3, <1>4, <1>5

(* The same for a stream's channel.                                         *)
LEMMA ArrivingStream ==
    ASSUME NEW m \in Messages["stream"]
    PROVE  \/ \E t \in {2, 3}, c \in Codes : m = Msg(t, 5, <<c>>)
           \/ \E v \in Credits : m = Msg(4, 9, <<v>>)
           \/ \E t \in 0..5, len \in Lengths :
                /\ m = Msg(t, len, <<>>)
                /\ <<t, len>> \notin {<<2, 5>>, <<3, 5>>, <<4, 9>>}
<1>0. PICK t \in 0..5, len \in Lengths : \E f \in Fields("stream", t, len) : m = Msg(t, len, f)
  BY DEF Messages
<1>1. PICK f \in Fields("stream", t, len) : m = Msg(t, len, f)
  BY <1>0
<1>2. CASE t \in {2, 3} /\ len = 5
  <2>1. Fields("stream", t, len) = {<<c>> : c \in Codes}
    BY <1>2 DEF Fields
  <2> QED
    BY <1>1, <1>2, <2>1
<1>3. CASE t = 4 /\ len = 9
  <2>1. Fields("stream", t, len) = {<<v>> : v \in Credits}
    BY <1>3 DEF Fields
  <2> QED
    BY <1>1, <1>3, <2>1
<1>4. CASE <<t, len>> \notin {<<2, 5>>, <<3, 5>>, <<4, 9>>}
  <2>1. Fields("stream", t, len) = {<<>>}
    BY <1>4 DEF Fields
  <2> QED
    BY <1>1, <1>4, <2>1
<1> QED
  BY <1>2, <1>3, <1>4

-----------------------------------------------------------------------------
(* The decoders, case by case.                                              *)
LEMMA MsgFields ==
    ASSUME NEW t, NEW len, NEW f
    PROVE  Msg(t, len, f).type = t /\ Msg(t, len, f).len = len /\ Msg(t, len, f).val = f
BY DEF Msg

(* in_range draws the line where the encoders' offsets end.                 *)
LEMMA LegalCredit ==
    ASSUME NEW v \in Credits
    PROVE  in_range(v) <=> v \in Offsets
BY FramingAssumption DEF Credits, Offsets, in_range

(* An unknown code sinks to InternalError, one of the registry is kept.     *)
LEMMA RecodedMessage ==
    ASSUME NEW t, NEW c
    PROVE  [Msg(t, 5, <<c>>) EXCEPT !.val[1] = from_wire(@)] = Msg(t, 5, <<from_wire(c)>>)
<1>1. [<<c>> EXCEPT ![1] = from_wire(@)] = <<from_wire(c)>>
  OBVIOUS
<1> QED
  BY <1>1 DEF Msg

(* decode_control on a Close of the right length.                           *)
LEMMA ControlClose ==
    ASSUME NEW c
    PROVE  decode_control(Msg(0, 5, <<c>>)) = Parsed("Close", <<from_wire(c)>>)
BY MsgFields DEF decode_control

(* decode_control on MAX_DATA and MAX_STREAMS.                              *)
LEMMA ControlCredit ==
    ASSUME NEW t \in {2, 3}, NEW v
    PROVE  decode_control(Msg(t, 9, <<v>>)) =
             IF in_range(v) THEN Parsed(IF t = 2 THEN "MaxData" ELSE "MaxStreams", <<v>>)
                            ELSE Violation
<1> DEFINE m == Msg(t, 9, <<v>>)
<1>1. m.type = t /\ m.len = 9 /\ m.val = <<v>> /\ m.val[1] = v
  BY MsgFields
<1> HIDE DEF m
<1> SUFFICES decode_control(m) =
             IF in_range(v) THEN Parsed(IF t = 2 THEN "MaxData" ELSE "MaxStreams", <<v>>)
                            ELSE Violation
  BY DEF m
<1> QED
  BY <1>1 DEF decode_control

(* decode_control on HELLO: all three limits have to be in range.           *)
LEMMA ControlHello ==
    ASSUME NEW ver, NEW a, NEW b, NEW c
    PROVE  decode_control(Msg(1, 26, <<ver, a, b, c>>)) =
             IF in_range(a) /\ in_range(b) /\ in_range(c)
             THEN Parsed("Hello", <<ver, a, b, c>>) ELSE Violation
<1> DEFINE m == Msg(1, 26, <<ver, a, b, c>>)
<1>1. /\ m.type = 1 /\ m.len = 26 /\ m.val = <<ver, a, b, c>>
      /\ m.val[2] = a /\ m.val[3] = b /\ m.val[4] = c
  BY MsgFields
<1>2. \A i \in 2..4 : i = 2 \/ i = 3 \/ i = 4
  OBVIOUS
<1>3. (\A i \in 2..4 : in_range(m.val[i])) <=> in_range(a) /\ in_range(b) /\ in_range(c)
  BY <1>1, <1>2
<1> HIDE DEF m
<1>4. decode_control(m) = IF in_range(a) /\ in_range(b) /\ in_range(c)
                          THEN Parsed("Hello", m.val) ELSE Violation
  BY <1>1, <1>3 DEF decode_control
<1> QED
  BY <1>1, <1>4 DEF m

(* decode_control on any other type and length.                             *)
LEMMA ControlOther ==
    ASSUME NEW t, NEW len, NEW f,
           <<t, len>> \notin {<<0, 5>>, <<1, 26>>, <<2, 9>>, <<3, 9>>}
    PROVE  decode_control(Msg(t, len, f)) = Violation
BY MsgFields DEF decode_control

(* parse_frame on DATA that is neither empty nor too long.                  *)
LEMMA StreamData ==
    ASSUME NEW len \in 2..MaxFrameSize, NEW f
    PROVE  parse_frame(Msg(0, len, f)) = Parsed("Data", <<len - 1>>)
BY MsgFields DEF parse_frame

(* parse_frame on FIN.                                                      *)
LEMMA StreamFin ==
    ASSUME NEW f
    PROVE  parse_frame(Msg(1, 1, f)) = Parsed("Fin", <<>>)
BY MsgFields DEF parse_frame

(* parse_frame on RESET and STOP_SENDING.                                   *)
LEMMA StreamCode ==
    ASSUME NEW t \in {2, 3}, NEW c
    PROVE  parse_frame(Msg(t, 5, <<c>>)) =
             Parsed(IF t = 2 THEN "Reset" ELSE "StopSending", <<from_wire(c)>>)
<1> DEFINE m == Msg(t, 5, <<c>>)
<1>1. m.type = t /\ m.len = 5 /\ m.val[1] = c
  BY MsgFields
<1> HIDE DEF m
<1> SUFFICES parse_frame(m) =
             Parsed(IF t = 2 THEN "Reset" ELSE "StopSending", <<from_wire(c)>>)
  BY DEF m
<1> QED
  BY <1>1 DEF parse_frame

(* parse_frame on MAX_STREAM_DATA.                                          *)
LEMMA StreamCredit ==
    ASSUME NEW v
    PROVE  parse_frame(Msg(4, 9, <<v>>)) =
             IF in_range(v) THEN Parsed("MaxStreamData", <<v>>) ELSE Violation
<1> DEFINE m == Msg(4, 9, <<v>>)
<1>1. m.type = 4 /\ m.len = 9 /\ m.val = <<v>> /\ m.val[1] = v
  BY MsgFields
<1> HIDE DEF m
<1> SUFFICES parse_frame(m) =
             IF in_range(v) THEN Parsed("MaxStreamData", <<v>>) ELSE Violation
  BY DEF m
<1> QED
  BY <1>1 DEF parse_frame

(* parse_frame on any other type and length.                                *)
LEMMA StreamOther ==
    ASSUME NEW t, NEW len, NEW f,
           <<t, len>> \notin {<<1, 1>>, <<2, 5>>, <<3, 5>>, <<4, 9>>}, t = 0 => len \notin 2..MaxFrameSize
    PROVE  parse_frame(Msg(t, len, f)) = Violation
BY MsgFields DEF parse_frame

-----------------------------------------------------------------------------
(* What an accepted message came from.                                      *)
LEMMA Reencoded ==
    ASSUME NEW c
    PROVE  /\ reencode(Parsed("Close", <<c>>)) = Msg(0, 5, <<c>>)
           /\ reencode(Parsed("MaxData", <<c>>)) = Msg(2, 9, <<c>>)
           /\ reencode(Parsed("MaxStreams", <<c>>)) = Msg(3, 9, <<c>>)
           /\ reencode(Parsed("Reset", <<c>>)) = Msg(2, 5, <<c>>)
           /\ reencode(Parsed("StopSending", <<c>>)) = Msg(3, 5, <<c>>)
           /\ reencode(Parsed("MaxStreamData", <<c>>)) = Msg(4, 9, <<c>>)
           /\ reencode(Parsed("Data", <<c>>)) = Msg(0, 1 + c, <<>>)
           /\ reencode(Parsed("Fin", <<>>)) = Msg(1, 1, <<>>)
<1>1. \A k, v : Parsed(k, v).kind = k /\ Parsed(k, v).val = v
  BY DEF Parsed
<1>2. <<c>>[1] = c
  OBVIOUS
<1>3. reencode(Parsed("Close", <<c>>)) = Msg(0, 5, <<c>>)
  BY <1>1, <1>2 DEF reencode, encode_conn_close
<1>4. reencode(Parsed("MaxData", <<c>>)) = Msg(2, 9, <<c>>)
  BY <1>1, <1>2 DEF reencode, encode_max_data
<1>5. reencode(Parsed("MaxStreams", <<c>>)) = Msg(3, 9, <<c>>)
  BY <1>1, <1>2 DEF reencode, encode_max_streams
<1>6. reencode(Parsed("Reset", <<c>>)) = Msg(2, 5, <<c>>)
  BY <1>1, <1>2 DEF reencode, encode_code
<1>7. reencode(Parsed("StopSending", <<c>>)) = Msg(3, 5, <<c>>)
  BY <1>1, <1>2 DEF reencode, encode_code
<1>8. reencode(Parsed("MaxStreamData", <<c>>)) = Msg(4, 9, <<c>>)
  BY <1>1, <1>2 DEF reencode, encode_max_stream_data
<1>9. reencode(Parsed("Data", <<c>>)) = Msg(0, 1 + c, <<>>)
  BY <1>1, <1>2 DEF reencode, encode_data
<1>10. reencode(Parsed("Fin", <<>>)) = Msg(1, 1, <<>>)
  BY <1>1 DEF reencode, encode_fin
<1> QED
  BY <1>3, <1>4, <1>5, <1>6, <1>7, <1>8, <1>9, <1>10

(* An accepted HELLO is re-encoded with the version it came with.           *)
LEMMA ReencodedHello ==
    ASSUME NEW ver, NEW a, NEW b, NEW c
    PROVE  reencode(Parsed("Hello", <<ver, a, b, c>>)) = Msg(1, 26, <<ver, a, b, c>>)
<1>1. Tail(<<ver, a, b, c>>) = <<a, b, c>> /\ <<ver, a, b, c>>[1] = ver
  OBVIOUS
<1>2. [encode_hello(<<a, b, c>>) EXCEPT !.val[1] = ver] = Msg(1, 26, <<ver, a, b, c>>)
  BY HelloMessage
<1>3. \A k, v : Parsed(k, v).kind = k /\ Parsed(k, v).val = v
  BY DEF Parsed
<1> DEFINE p == Parsed("Hello", <<ver, a, b, c>>)
<1>4. p.kind = "Hello" /\ Tail(p.val) = <<a, b, c>> /\ p.val[1] = ver
  BY <1>1, <1>3
<1> HIDE DEF p
<1>5. reencode(p) = [encode_hello(<<a, b, c>>) EXCEPT !.val[1] = ver]
  BY <1>4 DEF reencode
<1> QED
  BY <1>2, <1>5 DEF p

(* A decoder's verdicts are not the refusal.                                *)
LEMMA Accepting ==
    ASSUME NEW k, NEW v, k # "violation"
    PROVE  Parsed(k, v) # Violation /\ Parsed(k, v).kind = k
BY DEF Parsed, Violation

-----------------------------------------------------------------------------
(* The decoders against the encoders.                                       *)
Coded == {"Reset", "StopSending", "Close"}
(* A refusal is right for what no encoder makes.                            *)
LEMMA Refused ==
    ASSUME NEW m, NEW legal, NEW p, p = Violation, m \notin legal
    PROVE  Faithful(m, legal, p)
BY DEF Faithful

(* An acceptance is right for what it can be re-encoded to.                 *)
LEMMA Accepted ==
    ASSUME NEW m, NEW legal, NEW p, p # Violation, m \in legal,
           p.kind \notin Coded, reencode(p) = m
    PROVE  Faithful(m, legal, p)
BY DEF Faithful, Coded

(* The same for a message that carries an error code, whose unknown values  *)
(* all read as InternalError.                                               *)
LEMMA AcceptedCode ==
    ASSUME NEW t, NEW c, NEW k \in Coded, NEW legal, Msg(t, 5, <<c>>) \in legal,
           reencode(Parsed(k, <<from_wire(c)>>)) = Msg(t, 5, <<from_wire(c)>>)
    PROVE  Faithful(Msg(t, 5, <<c>>), legal, Parsed(k, <<from_wire(c)>>))
<1> DEFINE m == Msg(t, 5, <<c>>)
           p == Parsed(k, <<from_wire(c)>>)
<1>1. p # Violation /\ p.kind = k
  BY Accepting DEF Coded
<1>2. [m EXCEPT !.val[1] = from_wire(@)] = Msg(t, 5, <<from_wire(c)>>)
  BY RecodedMessage
<1>3. reencode(p) = [m EXCEPT !.val[1] = from_wire(@)] /\ m \in legal
  BY <1>2
<1> HIDE DEF m, p
<1>4. Faithful(m, legal, p)
  BY <1>1, <1>3 DEF Faithful, Coded
<1> QED
  BY <1>4 DEF m, p

(* The fields of the encoders' messages.                                    *)
LEMMA ControlShape ==
    ASSUME NEW m \in ControlMessages
    PROVE  \/ m.type = 0 /\ m.len = 5
           \/ /\ m.type = 1 /\ m.len = 26
              /\ \E ver \in 0..2, a \in Offsets, b \in Offsets, c \in Offsets :
                   m.val = <<ver, a, b, c>>
           \/ m.type \in {2, 3} /\ m.len = 9 /\ \E v \in Offsets : m.val = <<v>>
<1>1. ASSUME NEW c \in Codes, m = Msg(0, 5, <<c>>) PROVE m.type = 0 /\ m.len = 5
  BY <1>1, MsgFields
<1>2. ASSUME NEW ver \in 0..2, NEW a \in Offsets, NEW b \in Offsets, NEW c \in Offsets,
             m = Msg(1, 26, <<ver, a, b, c>>)
      PROVE  m.type = 1 /\ m.len = 26 /\ m.val = <<ver, a, b, c>>
  BY <1>2, MsgFields
<1>3. ASSUME NEW t \in {2, 3}, NEW v \in Offsets, m = Msg(t, 9, <<v>>)
      PROVE  m.type = t /\ m.len = 9 /\ m.val = <<v>>
  BY <1>3, MsgFields
<1>4. \/ \E c \in Codes : m = Msg(0, 5, <<c>>)
      \/ \E ver \in 0..2, a \in Offsets, b \in Offsets, c \in Offsets :
           m = Msg(1, 26, <<ver, a, b, c>>)
      \/ \E t \in {2, 3}, v \in Offsets : m = Msg(t, 9, <<v>>)
  BY LegalControl
<1> QED
  <2>1. CASE \E c \in Codes : m = Msg(0, 5, <<c>>)
    BY <1>1, <2>1
  <2>2. CASE \E ver \in 0..2, a \in Offsets, b \in Offsets, c \in Offsets :
               m = Msg(1, 26, <<ver, a, b, c>>)
    <3>1. PICK ver \in 0..2, a \in Offsets, b \in Offsets, c \in Offsets :
            m = Msg(1, 26, <<ver, a, b, c>>)
      BY <2>2
    <3>2. m.type = 1 /\ m.len = 26 /\ m.val = <<ver, a, b, c>>
      BY <1>2, <3>1
    <3> QED
      BY <3>2
  <2>3. CASE \E t \in {2, 3}, v \in Offsets : m = Msg(t, 9, <<v>>)
    <3>1. PICK t \in {2, 3}, v \in Offsets : m = Msg(t, 9, <<v>>)
      BY <2>3
    <3>2. m.type = t /\ m.len = 9 /\ m.val = <<v>>
      BY <1>3, <3>1
    <3> QED
      BY <3>2
  <2> QED
    BY <1>4, <2>1, <2>2, <2>3

(* The same for stream frames.                                              *)
LEMMA StreamShape ==
    ASSUME NEW m \in StreamMessages
    PROVE  \/ m.type = 0 /\ m.len \in 2..MaxFrameSize
           \/ m.type = 1 /\ m.len = 1
           \/ m.type \in {2, 3} /\ m.len = 5
           \/ m.type = 4 /\ m.len = 9 /\ \E v \in Offsets : m.val = <<v>>
<1>1. ASSUME NEW len \in Lengths, len \in 2..MaxFrameSize, m = Msg(0, len, <<>>)
      PROVE  m.type = 0 /\ m.len \in 2..MaxFrameSize
  BY <1>1, MsgFields
<1>2. ASSUME m = Msg(1, 1, <<>>) PROVE m.type = 1 /\ m.len = 1
  BY <1>2, MsgFields
<1>3. ASSUME NEW t \in {2, 3}, NEW c \in Codes, m = Msg(t, 5, <<c>>)
      PROVE  m.type = t /\ m.len = 5
  BY <1>3, MsgFields
<1>4. ASSUME NEW v \in Offsets, m = Msg(4, 9, <<v>>)
      PROVE  m.type = 4 /\ m.len = 9 /\ m.val = <<v>>
  BY <1>4, MsgFields
<1>5. \/ \E len \in Lengths : len \in 2..MaxFrameSize /\ m = Msg(0, len, <<>>)
      \/ m = Msg(1, 1, <<>>)
      \/ \E t \in {2, 3}, c \in Codes : m = Msg(t, 5, <<c>>)
      \/ \E v \in Offsets : m = Msg(4, 9, <<v>>)
  BY LegalStream
<1> QED
  BY <1>1, <1>2, <1>3, <1>4, <1>5

(* decode_control accepts just what the encoders of control messages make   *)
(* and reads back what they were given.                                     *)
THEOREM ControlDecoded ==
    ASSUME NEW m \in Messages["control"]
    PROVE  Faithful(m, ControlMessages, decode_control(m))
<1>1. ASSUME NEW c \in Codes, m = Msg(0, 5, <<c>>)
      PROVE  Faithful(m, ControlMessages, decode_control(m))
  <2>1. Msg(0, 5, <<c>>) \in ControlMessages
    BY LegalControl
  <2>2. reencode(Parsed("Close", <<from_wire(c)>>)) = Msg(0, 5, <<from_wire(c)>>)
    BY Reencoded
  <2>3. Faithful(Msg(0, 5, <<c>>), ControlMessages, Parsed("Close", <<from_wire(c)>>))
    BY <2>1, <2>2, AcceptedCode DEF Coded
  <2> QED
    BY <1>1, <2>3, ControlClose
<1>2. ASSUME NEW ver \in 0..2, NEW a \in Credits, NEW b \in Credits, NEW c \in Credits,
             m = Msg(1, 26, <<ver, a, b, c>>)
      PROVE  Faithful(m, ControlMessages, decode_control(m))
  <2>1. m \in ControlMessages <=> in_range(a) /\ in_range(b) /\ in_range(c)
    <3>1. ASSUME in_range(a), in_range(b), in_range(c) PROVE m \in ControlMessages
      BY <1>2, <3>1, LegalCredit, LegalControl
    <3>2. ASSUME m \in ControlMessages PROVE in_range(a) /\ in_range(b) /\ in_range(c)
      <4>1. m.type = 1 /\ m.val = <<ver, a, b, c>>
        BY <1>2, MsgFields
      <4>3. PICK ver2 \in 0..2, a2 \in Offsets, b2 \in Offsets, c2 \in Offsets :
                m.val = <<ver2, a2, b2, c2>>
        BY <3>2, <4>1, ControlShape
      <4>4. <<ver, a, b, c>> = <<ver2, a2, b2, c2>>
        BY <4>1, <4>3
      <4>5. a = a2 /\ b = b2 /\ c = c2
        BY <4>4
      <4> QED
        BY <4>5, LegalCredit
    <3> QED
      BY <3>1, <3>2
  <2>2. CASE in_range(a) /\ in_range(b) /\ in_range(c)
    <3>1. decode_control(m) = Parsed("Hello", <<ver, a, b, c>>)
      BY <1>2, <2>2, ControlHello
    <3> QED
      BY <1>2, <2>1, <2>2, <3>1, Accepting, Accepted, ReencodedHello DEF Coded
  <2>3. CASE ~(in_range(a) /\ in_range(b) /\ in_range(c))
    BY <1>2, <2>1, <2>3, ControlHello, Refused
  <2> QED
    BY <2>2, <2>3
<1>3. ASSUME NEW t \in {2, 3}, NEW v \in Credits, m = Msg(t, 9, <<v>>)
      PROVE  Faithful(m, ControlMessages, decode_control(m))
  <2>1. m \in ControlMessages <=> in_range(v)
    <3>1. ASSUME in_range(v) PROVE m \in ControlMessages
      BY <1>3, <3>1, LegalCredit, LegalControl
    <3>2. ASSUME m \in ControlMessages PROVE in_range(v)
      <4>1. m.type = t /\ m.val = <<v>>
        BY <1>3, MsgFields
      <4>2. PICK v2 \in Offsets : m.val = <<v2>>
        BY <3>2, <4>1, ControlShape
      <4>3. <<v>> = <<v2>>
        BY <4>1, <4>2
      <4>4. v = v2
        BY <4>3
      <4> QED
        BY <4>4, LegalCredit
    <3> QED
      BY <3>1, <3>2
  <2>2. CASE in_range(v)
    <3>1. decode_control(m) = Parsed(IF t = 2 THEN "MaxData" ELSE "MaxStreams", <<v>>)
      BY <1>3, <2>2, ControlCredit
    <3> QED
      BY <1>3, <2>1, <2>2, <3>1, Accepting, Accepted, Reencoded DEF Coded
  <2>3. CASE ~in_range(v)
    BY <1>3, <2>1, <2>3, ControlCredit, Refused
  <2> QED
    BY <2>2, <2>3
<1>4. ASSUME NEW t \in 0..5, NEW len \in Lengths, m = Msg(t, len, <<>>),
             <<t, len>> \notin {<<0, 5>>, <<1, 26>>, <<2, 9>>, <<3, 9>>}
      PROVE  Faithful(m, ControlMessages, decode_control(m))
  <2>1. m.type = t /\ m.len = len
    BY <1>4, MsgFields
  <2>2. m \notin ControlMessages
    BY <1>4, <2>1, ControlShape
  <2> QED
    BY <1>4, <2>2, ControlOther, Refused
<1>5. \/ \E c \in Codes : m = Msg(0, 5, <<c>>)
      \/ \E ver \in 0..2, a \in Credits, b \in Credits, c \in Credits :
           m = Msg(1, 26, <<ver, a, b, c>>)
      \/ \E t \in {2, 3}, v \in Credits : m = Msg(t, 9, <<v>>)
      \/ \E t \in 0..5, len \in Lengths :
           /\ m = Msg(t, len, <<>>)
           /\ <<t, len>> \notin {<<0, 5>>, <<1, 26>>, <<2, 9>>, <<3, 9>>}
  BY ArrivingControl
<1> QED
  <2>1. CASE \E c \in Codes : m = Msg(0, 5, <<c>>)
    BY <1>1, <2>1
  <2>2. CASE \E ver \in 0..2, a \in Credits, b \in Credits, c \in Credits :
               m = Msg(1, 26, <<ver, a, b, c>>)
    BY <1>2, <2>2
  <2>3. CASE \E t \in {2, 3}, v \in Credits : m = Msg(t, 9, <<v>>)
    BY <1>3, <2>3
  <2>4. CASE \E t \in 0..5, len \in Lengths :
               /\ m = Msg(t, len, <<>>)
               /\ <<t, len>> \notin {<<0, 5>>, <<1, 26>>, <<2, 9>>, <<3, 9>>}
    BY <1>4, <2>4
  <2> QED
    BY <1>5, <2>1, <2>2, <2>3, <2>4

(* parse_frame accepts just what the encoders of stream frames make and     *)
(* reads back what they were given.                                         *)
THEOREM StreamDecoded ==
    ASSUME NEW m \in Messages["stream"]
    PROVE  Faithful(m, StreamMessages, parse_frame(m))
<1>1. ASSUME NEW t \in {2, 3}, NEW c \in Codes, m = Msg(t, 5, <<c>>)
      PROVE  Faithful(m, StreamMessages, parse_frame(m))
  <2> DEFINE k == IF t = 2 THEN "Reset" ELSE "StopSending"
  <2>1. Msg(t, 5, <<c>>) \in StreamMessages
    BY LegalStream
  <2>2. reencode(Parsed(k, <<from_wire(c)>>)) = Msg(t, 5, <<from_wire(c)>>)
    BY Reencoded
  <2>3. Faithful(Msg(t, 5, <<c>>), StreamMessages, Parsed(k, <<from_wire(c)>>))
    BY <2>1, <2>2, AcceptedCode DEF Coded
  <2> QED
    BY <1>1, <2>3, StreamCode
<1>2. ASSUME NEW v \in Credits, m = Msg(4, 9, <<v>>)
      PROVE  Faithful(m, StreamMessages, parse_frame(m))
  <2>1. m \in StreamMessages <=> in_range(v)
    <3>1. ASSUME in_range(v) PROVE m \in StreamMessages
      BY <1>2, <3>1, LegalCredit, LegalStream
    <3>2. ASSUME m \in StreamMessages PROVE in_range(v)
      <4>1. m.type = 4 /\ m.val = <<v>>
        BY <1>2, MsgFields
      <4>2. PICK v2 \in Offsets : m.val = <<v2>>
        BY <3>2, <4>1, StreamShape
      <4>3. <<v>> = <<v2>>
        BY <4>1, <4>2
      <4>4. v = v2
        BY <4>3
      <4> QED
        BY <4>4, LegalCredit
    <3> QED
      BY <3>1, <3>2
  <2>2. CASE in_range(v)
    BY <1>2, <2>1, <2>2, StreamCredit, Accepting, Accepted, Reencoded DEF Coded
  <2>3. CASE ~in_range(v)
    BY <1>2, <2>1, <2>3, StreamCredit, Refused
  <2> QED
    BY <2>2, <2>3
<1>3. ASSUME NEW t \in 0..5, NEW len \in Lengths, m = Msg(t, len, <<>>),
             <<t, len>> \notin {<<2, 5>>, <<3, 5>>, <<4, 9>>}
      PROVE  Faithful(m, StreamMessages, parse_frame(m))
  <2>1. CASE t = 0 /\ len \in 2..MaxFrameSize
    <3>1. m \in StreamMessages
      BY <1>3, <2>1, LegalStream
    <3>2. parse_frame(m) = Parsed("Data", <<len - 1>>)
      BY <1>3, <2>1, StreamData
    <3>3. 1 + (len - 1) = len
      BY <2>1
    <3>4. reencode(Parsed("Data", <<len - 1>>)) = m
      BY <1>3, <2>1, <3>3, Reencoded
    <3> QED
      BY <3>1, <3>2, <3>4, Accepting, Accepted DEF Coded
  <2>2. CASE t = 1 /\ len = 1
    <3>1. m \in StreamMessages
      BY <1>3, <2>2, LegalStream
    <3>2. parse_frame(m) = Parsed("Fin", <<>>)
      BY <1>3, <2>2, StreamFin
    <3> QED
      BY <1>3, <2>2, <3>1, <3>2, Reencoded, Accepting, Accepted DEF Coded
  <2>3. CASE <<t, len>> # <<1, 1>> /\ (t = 0 => len \notin 2..MaxFrameSize)
    <3>1. m.type = t /\ m.len = len
      BY <1>3, MsgFields
    <3>2. m \notin StreamMessages
      BY <1>3, <2>3, <3>1, StreamShape
    <3> QED
      BY <1>3, <2>3, <3>2, StreamOther, Refused
  <2> QED
    BY <2>1, <2>2, <2>3
<1> QED
  BY <1>1, <1>2, <1>3, ArrivingStream
=============================================================================
