------------------------------ MODULE MCHashRing ------------------------------
(* Small rings: three nodes with two virtual nodes each, with and without  *)
(* a node listed twice, and the smallest and largest number of copies.     *)
EXTENDS HashRing

CONSTANTS na, nb, nc

Config(ns, v, f) == [nodes |-> ns, vnodes |-> v, factor |-> f]
MCConfigs == {Config(<<na, nb, nc>>, 2, 2), Config(<<na, nb, nc>>, 1, 5),
              Config(<<na, nb, na>>, 2, 3), Config(<<nb, nb>>, 2, 0)}
=============================================================================
