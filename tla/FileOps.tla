------------------------------- MODULE FileOps -------------------------------
(***************************************************************************)
(* What one file of a storage node can hold, and how a PUT changes it.     *)
(*                                                                         *)
(* store.Put opens the file with os.Create, which truncates a file that is *)
(* already there, and then copies the body into it.  Nothing keeps two     *)
(* PUTs of one file apart: both write, each at its own offset.  Seen from  *)
(* outside, the file therefore holds nothing dependable ("Torn") while a   *)
(* PUT has it open; once the last PUT has closed it, it holds exactly the  *)
(* body of a PUT that had the file for itself and copied all of it, and    *)
(* otherwise an unknown mixture of the bodies of the PUTs that overlapped, *)
(* which may happen to be one of those bodies.                             *)
(*                                                                         *)
(* The module is shared by FileRegister, the contract StorageNode is shown *)
(* to implement, and ObjectStore, which puts object-api on top of it.      *)
(***************************************************************************)
CONSTANTS Uploads,   \* PUT requests; the body of PUT w is the value w
          Absent,    \* there is no file
          Torn       \* a file whose bytes are no single PUT's body

ASSUME ContentsDistinct ==
  /\ Absent # Torn
  /\ Absent \notin Uploads
  /\ Torn \notin Uploads

Contents == Uploads \cup {Absent, Torn}

\* "group": the PUTs that opened the file since it last was closed by all.
Files == [content : Contents, group : SUBSET Uploads]

NoFile == [content |-> Absent, group |-> {}]

(* os.Create by w: a new or truncated file, open in w's hands. *)
Opened(f, w) == [content |-> Torn, group |-> f.group \cup {w}]

(* What the file may hold once w, the last PUT that had it open, is done:  *)
(* "whole" says that w copied its whole body.                              *)
Settled(grp, w, whole) == IF grp = {w} /\ whole THEN {w} ELSE grp \cup {Torn}

(* The possible files after w closes f; "others": another PUT has f open. *)
Closed(f, w, others, whole) ==
  IF others THEN {f}
            ELSE [content : Settled(f.group, w, whole), group : {{}}]
=============================================================================
