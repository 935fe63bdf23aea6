--------------------------- MODULE MCConnection ---------------------------
(***************************************************************************)
(* Connection for TLC: the sets of endpoints, and the pairs of wire        *)
(* versions, its configurations use.                                        *)
(***************************************************************************)
EXTENDS Connection

Both == Endpoints
OnlyA == {"a"}
OnlyB == {"b"}
Nobody == {}

OneVersion == {[e \in Endpoints |-> 1]}
TwoVersions == {[e \in Endpoints |-> IF e = "a" THEN 1 ELSE 2]}
AnyVersions == OneVersion \cup TwoVersions

===========================================================================
