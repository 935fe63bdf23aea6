------------------------- MODULE MCStreamLifecycle -------------------------
(***************************************************************************)
(* StreamLifecycle for TLC: the sets of endpoints its configurations use.   *)
(***************************************************************************)
EXTENDS StreamLifecycle

OnlyA == {"a"}
OnlyB == {"b"}

=============================================================================
