------------------------------ MODULE MCAccounts ------------------------------
(* Two registrations, a reset and a seed job race for one email; the       *)
(* verifications may use any one-time password, also the same one.         *)
EXTENDS Accounts, TLC

CONSTANTS b1, b2, v1, v2

Alike == Permutations({b1, b2}) \cup Permutations({v1, v2})
=============================================================================
