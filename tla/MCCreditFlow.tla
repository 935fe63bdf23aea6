---------------------------- MODULE MCCreditFlow ----------------------------
(***************************************************************************)
(* CreditFlow for TLC; its configurations give every constant a value.      *)
(***************************************************************************)
EXTENDS CreditFlow

CONSTANTS s1, s2    \* the streams

=============================================================================
