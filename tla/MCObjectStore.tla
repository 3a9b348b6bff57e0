---------------------------- MODULE MCObjectStore ----------------------------
EXTENDS ObjectStoreClaims, TLC

CONSTANTS p1, k1, n1, n2

OnePath == [k \in Keys |-> p1]

TwoCopies == [p \in Paths |-> <<n1, n2>>]

Alike == Permutations(Uploads)
=============================================================================
