------------------------------- MODULE MCTokens -------------------------------
(* Two tokens of one user, of which the one may create the other, one of   *)
(* another user, and a DELETE by the bearer of any of them, for any.       *)
EXTENDS Tokens, TLC

CONSTANTS a, b, a1, a2, b1

MCOwner == (a1 :> a) @@ (a2 :> a) @@ (b1 :> b)
=============================================================================
