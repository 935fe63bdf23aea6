----------------------------- MODULE MCListener -----------------------------
(***************************************************************************)
(* Listener for TLC; its configurations give every constant a value.        *)
(***************************************************************************)
EXTENDS Listener, TLC

CONSTANTS a1, a2, u1, u2    \* the addresses and the ufrags

Symmetry == Permutations(Addrs) \cup Permutations(Ufrags)

=============================================================================
