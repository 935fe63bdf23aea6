----------------------------- MODULE MCSurface -----------------------------
(***************************************************************************)
(* Surface for TLC: the messages that may arrive late are a close with a    *)
(* code, a HELLO of another version and a message of no known type.         *)
(***************************************************************************)
EXTENDS Surface

CONSTANTS o1, d1, d2    \* an observer and datagrams

OtherHello == [encode_hello(<<0, 0, 0>>) EXCEPT !.val[1] = WIRE_VERSION + 1]
Late == {encode_conn_close(3), OtherHello, Msg(5, 1, <<>>)}
=============================================================================
