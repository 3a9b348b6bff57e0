-------------------------- MODULE ObjectStoreClaims --------------------------
(***************************************************************************)
(* What the repository's documentation says of uploads, downloads and      *)
(* deletes and the code does not do: each of these is a run that ends in a *)
(* counterexample.                                                         *)
(***************************************************************************)
EXTENDS ObjectStore

\* Nothing has been going on on the path since q, the last to start there.
Quiet(q, p) == last[p] = q /\ ~Busy(p)

\* "If any replica write fails": Readme.md:41.
FailedOnNodes(u) ==
  /\ up[u].pc = "err" /\ Quiet(u, UPath(u))
  /\ \E n \in Nodes : reply[u][n] \in {"refused", "gaveup"}

(* Readme.md:41, "rolls back the write": once a failed overwrite has been  *)
(* rolled back, the object that was there before is there again.  The code *)
(* deletes the file the old row still points at (Upload's rollback).       *)
FailedOverwriteRestores ==
  \A u \in Uploads :
    LET r == row[up[u].key] IN
    FailedOnNodes(u) /\ r # NoRow => file[r.primary][UPath(u)].content = r.etag

(* Readme.md:41-42, "Uploads write to the primary and replica nodes",      *)
(* downloads "fall back to the replica node": when uploads of a key have   *)
(* all been acknowledged and nothing failed, both copies are the object of *)
(* the row.  Two uploads at once may reach the two nodes in either order.  *)
CopiesAgree ==
  \A k \in Keys :
    row[k] # NoRow /\ ~Busy(Path[k]) /\ faults = 0 =>
      \A n \in {row[k].primary, row[k].replica} :
        file[n][Path[k]].content = row[k].etag
=============================================================================
