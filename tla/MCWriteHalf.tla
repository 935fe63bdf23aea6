---------------------------- MODULE MCWriteHalf ----------------------------
(* Instances of WriteHalf for TLC.                                          *)
EXTENDS WriteHalf
=============================================================================
