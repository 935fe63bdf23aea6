------------------------------ MODULE Framing ------------------------------
(***************************************************************************)
(* The codecs of libs/rust/kps/src/framing.rs: stream frames and control    *)
(* messages, and the error codes of libs/rust/kps/src/error.rs they carry.  *)
(*                                                                          *)
(* A data-channel message is its type byte, its length in bytes and the     *)
(* integers that stand in its fields; a length that no encoder produces     *)
(* leaves no fields to speak of.  Big-endian integers are their values.     *)
(***************************************************************************)
EXTENDS Integers, Sequences

CONSTANTS
    MaxFrameSize,   \* MAX_WEBRTC_FRAME_SIZE, 16384 in the code
    MaxOffset,      \* MAX_OFFSET, 2^62 - 1 in the code
    CreditRange,    \* values of a u64 field, 2^64 in the code
    CodeRange       \* values of a u32 field, 2^32 in the code

(* Each field can carry values its decoder refuses or maps.                 *)
ASSUME FramingAssumption ==
    /\ MaxFrameSize \in Nat /\ MaxFrameSize > 27
    /\ MaxOffset \in Nat /\ CreditRange \in Nat /\ MaxOffset < CreditRange
    /\ CodeRange \in Nat /\ CodeRange > 12

None == 0
NetworkError == 5
ProtocolError == 6
Unsupported == 7
InternalError == 11
ErrorCodes == None..InternalError
WIRE_VERSION == 1

Msg(t, len, val) == [type |-> t, len |-> len, val |-> val]
Parsed(kind, val) == [kind |-> kind, val |-> val]
Violation == Parsed("violation", <<>>)

(* ErrorCode::from_wire: unknown codes sink to InternalError.               *)
from_wire(v) == IF v \in ErrorCodes THEN v ELSE InternalError

encode_data(n) == Msg(0, 1 + n, <<>>)
encode_fin == Msg(1, 1, <<>>)
encode_code(t, code) == Msg(t, 5, <<code>>)
encode_max_stream_data(v) == Msg(4, 9, <<v>>)

(* Mutant: the largest offset is refused.                                   *)
in_range_below(v) == v < MaxOffset

(* A credit value the peer may name.                                        *)
in_range(v) == v <= MaxOffset

(* parse_frame, for a message on a stream's channel.  Empty messages and    *)
(* messages over the limit are refused; only DATA can be as long.           *)
parse_frame(m) ==
    CASE m.type = 0 /\ m.len \in 2..MaxFrameSize -> Parsed("Data", <<m.len - 1>>)
      [] m.type = 1 /\ m.len = 1 -> Parsed("Fin", <<>>)
      [] m.type = 2 /\ m.len = 5 -> Parsed("Reset", <<from_wire(m.val[1])>>)
      [] m.type = 3 /\ m.len = 5 -> Parsed("StopSending", <<from_wire(m.val[1])>>)
      [] m.type = 4 /\ m.len = 9 /\ in_range(m.val[1]) -> Parsed("MaxStreamData", m.val)
      [] OTHER -> Violation

encode_conn_close(code) == Msg(0, 5, <<code>>)
encode_hello(l) == Msg(1, 26, <<WIRE_VERSION>> \o l)
encode_max_data(v) == Msg(2, 9, <<v>>)
encode_max_streams(v) == Msg(3, 9, <<v>>)

(* decode_control, for a message on the control channel.  HELLO's version   *)
(* is left to on_control.                                                   *)
decode_control(m) ==
    CASE m.len = 0 -> Violation
      [] m.type = 0 /\ m.len = 5 -> Parsed("Close", <<from_wire(m.val[1])>>)
      [] m.type = 1 /\ m.len = 26 /\ (\A i \in 2..4 : in_range(m.val[i])) ->
           Parsed("Hello", m.val)
      [] m.type = 2 /\ m.len = 9 /\ in_range(m.val[1]) -> Parsed("MaxData", m.val)
      [] m.type = 3 /\ m.len = 9 /\ in_range(m.val[1]) -> Parsed("MaxStreams", m.val)
      [] OTHER -> Violation

(* The messages that can arrive on a channel: every type with every length  *)
(* that some type uses and the lengths next to it; the fields of a          *)
(* well-formed one hold anything of their width.                            *)
Credits == 0..(CreditRange - 1)
Codes == 0..(CodeRange - 1)
Fields(chan, t, len) ==
    CASE len = 5 /\ <<chan, t>> \in {<<"control", 0>>, <<"stream", 2>>, <<"stream", 3>>} ->
           {<<c>> : c \in Codes}
      [] len = 9 /\ <<chan, t>> \in {<<"control", 2>>, <<"control", 3>>, <<"stream", 4>>} ->
           {<<v>> : v \in Credits}
      [] len = 26 /\ chan = "control" /\ t = 1 ->
           {<<ver>> \o l : ver \in 0..2, l \in Credits \X Credits \X Credits}
      [] OTHER -> {<<>>}
Lengths == {0, 1, 2, 4, 5, 6, 8, 9, 10, 25, 26, 27, MaxFrameSize, MaxFrameSize + 1}
Messages ==
    [chan \in {"control", "stream"} |->
        UNION {{Msg(t, len, f) : f \in Fields(chan, t, len)} : t \in 0..5, len \in Lengths}]

(* The reference: what the encoders make of every legal value.  A code      *)
(* above the registry is legal on the wire.                                 *)
Offsets == 0..MaxOffset
StreamMessages ==
    {encode_data(n) : n \in {len - 1 : len \in Lengths} \cap 1..(MaxFrameSize - 1)}
        \cup {encode_fin} \cup {encode_code(t, c) : t \in {2, 3}, c \in Codes}
        \cup {encode_max_stream_data(v) : v \in Offsets}
ControlMessages ==
    {encode_conn_close(c) : c \in Codes}
        \cup {[encode_hello(<<a, b, c>>) EXCEPT !.val[1] = ver] :
                a \in Offsets, b \in Offsets, c \in Offsets, ver \in 0..2}
        \cup {encode_max_data(v) : v \in Offsets} \cup {encode_max_streams(v) : v \in Offsets}

(* The message an accepted frame or control message came from.              *)
reencode(p) ==
    CASE p.kind = "Data" -> encode_data(p.val[1])
      [] p.kind = "Fin" -> encode_fin
      [] p.kind = "Reset" -> encode_code(2, p.val[1])
      [] p.kind = "StopSending" -> encode_code(3, p.val[1])
      [] p.kind = "MaxStreamData" -> encode_max_stream_data(p.val[1])
      [] p.kind = "Close" -> encode_conn_close(p.val[1])
      [] p.kind = "Hello" -> [encode_hello(Tail(p.val)) EXCEPT !.val[1] = p.val[1]]
      [] p.kind = "MaxData" -> encode_max_data(p.val[1])
      [] p.kind = "MaxStreams" -> encode_max_streams(p.val[1])

(* A decoder's verdict p on m: it accepts what the encoders produce, reads  *)
(* back the very values, an unknown code apart, and refuses the rest.       *)
Faithful(m, legal, p) ==
    /\ p = Violation <=> m \notin legal
    /\ p # Violation =>
         reencode(p) = IF p.kind \in {"Reset", "StopSending", "Close"}
                       THEN [m EXCEPT !.val[1] = from_wire(@)] ELSE m
=============================================================================
