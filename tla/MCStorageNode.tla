---------------------------- MODULE MCStorageNode ----------------------------
(* Keys "x" and "x/y/z" of one owner: the file of the first has the name of *)
(* a directory of the second, which has two to make.  One PUT has a longer  *)
(* body, so that a truncated file can get a hole and a short body can end a *)
(* longer one.                                                              *)
EXTENDS StorageNode, TLC

CONSTANTS x, xy, xyz, w1, w2, w3

TreeAbove == [p \in {x, xy, xyz} |->
                CASE p = x -> {} [] p = xy -> {x} [] p = xyz -> {x, xy}]

LongAndShort == [w \in {w1, w2, w3} |-> IF w = w1 THEN 2 ELSE 1]

ShortPutsAlike == Permutations({w2, w3})
=============================================================================
