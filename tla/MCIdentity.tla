----------------------------- MODULE MCIdentity -----------------------------
(***************************************************************************)
(* Identity for TLC; its configuration gives every constant a value.        *)
(***************************************************************************)
EXTENDS Identity

CONSTANTS p1, p2    \* the processes

=============================================================================
