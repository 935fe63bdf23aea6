----------------------------- MODULE ByteStream -----------------------------
(***************************************************************************)
(* What a KPS stream promises its two applications (the Stream trait of     *)
(* libs/rust/kps/src/api.rs), whatever carries it: in each direction the    *)
(* reader gets what was written, then end of file if the writer finished,   *)
(* or an error if its write half was reset.  A write half is reset only by  *)
(* its own application or because the reader cancelled.                     *)
(*                                                                          *)
(* Payload is counted, not carried: the k-th unit read is the k-th written. *)
(***************************************************************************)
EXTENDS Integers

CONSTANTS
    Resetters,      \* endpoints whose application may reset its write half
    Cancellers      \* endpoints whose application may cancel reading

Ends == {"a", "b"}
other(e) == IF e = "a" THEN "b" ELSE "a"

VARIABLES
    written,        \* units each application has written
    read,           \* units each application has read
    write_half,     \* "open", "fin" or "reset"
    read_half       \* "open", "eof", "error" or "cancelled"

vars == <<written, read, write_half, read_half>>

Init ==
    /\ written = [e \in Ends |-> 0] /\ read = [e \in Ends |-> 0]
    /\ write_half = [e \in Ends |-> "open"] /\ read_half = [e \in Ends |-> "open"]

Write(e) ==
    /\ write_half[e] = "open"
    /\ written' = [written EXCEPT ![e] = @ + 1]
    /\ UNCHANGED <<read, write_half, read_half>>

(* close_write; it can be too late to be read, never to be told apart.      *)
Finish(e) ==
    /\ write_half[e] = "open"
    /\ write_half' = [write_half EXCEPT ![e] = "fin"]
    /\ UNCHANGED <<written, read, read_half>>

(* reset_write, or the answer to a reader that cancelled.                   *)
Abort(e) ==
    /\ write_half[e] = "open"
    /\ e \in Resetters \/ read_half[other(e)] = "cancelled"
    /\ write_half' = [write_half EXCEPT ![e] = "reset"]
    /\ UNCHANGED <<written, read, read_half>>

Read(e) ==
    /\ read_half[e] = "open" /\ read[e] < written[other(e)]
    /\ read' = [read EXCEPT ![e] = @ + 1]
    /\ UNCHANGED <<written, write_half, read_half>>

(* End of file: the peer has finished and nothing it wrote is missing.      *)
ReadEof(e) ==
    /\ read_half[e] = "open" /\ write_half[other(e)] = "fin"
    /\ read[e] = written[other(e)]
    /\ read_half' = [read_half EXCEPT ![e] = "eof"]
    /\ UNCHANGED <<written, read, write_half>>

(* The error of a reset, which may cost what was not yet read.              *)
ReadError(e) ==
    /\ read_half[e] = "open" /\ write_half[other(e)] = "reset"
    /\ read_half' = [read_half EXCEPT ![e] = "error"]
    /\ UNCHANGED <<written, read, write_half>>

Cancel(e) ==
    /\ e \in Cancellers /\ read_half[e] # "cancelled"
    /\ read_half' = [read_half EXCEPT ![e] = "cancelled"]
    /\ UNCHANGED <<written, read, write_half>>

Next ==
    \E e \in Ends :
        \/ Write(e) \/ Finish(e) \/ Abort(e)
        \/ Read(e) \/ ReadEof(e) \/ ReadError(e) \/ Cancel(e)

Spec == Init /\ [][Next]_vars
=============================================================================
