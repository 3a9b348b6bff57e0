---------------------------- MODULE MCObjectAccess ----------------------------
(* Every kind of request at least once, over one key: two uploads so that  *)
(* an object can be overwritten, or deleted and uploaded again, and two    *)
(* bodies, so that they may or may not bring the same.                     *)
EXTENDS ObjectAccess, TLC

CONSTANTS u1, u2, b1, b2

Publish == [s \in Settings |-> "public-read"]
Alike == Permutations({u1, u2}) \cup Permutations({b1, b2})
=============================================================================
