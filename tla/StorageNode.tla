----------------------------- MODULE StorageNode -----------------------------
(***************************************************************************)
(* One storage-node process: its directory tree, its inodes and the PUT,   *)
(* GET and DELETE handlers that run on them at the same time               *)
(* (storage-node/internal/server/server.go, internal/storage/store.go).    *)
(* There is no lock: what keeps handlers apart is what the file system     *)
(* promises about open, write, read, mkdir and unlink.                     *)
(*                                                                         *)
(* A body is a sequence of blocks, io.Copy moves one block per step.  An   *)
(* inode is named by the PUT whose os.Create made it; unlinking a name     *)
(* leaves the inode to the handlers that hold it open.                     *)
(***************************************************************************)
EXTENDS Integers, Sequences, FiniteSets

CONSTANTS Paths,     \* the paths pathFor can return in this instance
          Above,     \* Above[p]: the proper ancestors of p, root excluded
          Asked,     \* those that PUTs and GETs ask for; DELETEs ask for any
          Puts,      \* PUT requests
          Gets,      \* GET requests
          Size,      \* Size[w]: the number of blocks in the body of PUT w
          NoEntry,   \* nothing has this name
          Dir,       \* the name of a directory
          Torn       \* a GET that may return anything

ASSUME PathsForm ==
  /\ Asked \subseteq Paths
  /\ Above \in [Paths -> SUBSET Paths]
  /\ \A p \in Paths : /\ p \notin Above[p]
                      /\ \A a \in Above[p] : Above[a] \subseteq Above[p]
                      /\ \A a, b \in Above[p] : b \in Above[a] \cup {a} \/ a \in Above[b]
\* An empty file is not told from one just truncated: bodies are not empty.
ASSUME BodiesForm == Size \in [Puts -> Nat \ {0}]
ASSUME NamesForm == /\ NoEntry # Dir /\ NoEntry # Torn
                    /\ {NoEntry, Dir, Torn} \cap Puts = {}

VARIABLES entry,     \* entry[p]: the inode p names, Dir or NoEntry
          data,      \* data[i]: the blocks of inode i
          put,       \* put[w]: the handler of PUT w
          get,       \* get[g]: the handler of GET g
          writing    \* writing[i]: auxiliary, the PUTs that opened inode i
                     \* since it last was closed by all

vars == <<entry, data, put, get, writing>>

Block(w, k) == <<w, k>>
Body(w) == [k \in 1..Size[w] |-> Block(w, k)]
Hole == <<>>
Blocks == (Puts \X Nat) \cup {Hole}

NoInode == NoEntry

\* "idle": os.MkdirAll looks upwards for a directory; "making": it has found
\* one and makes those of todo; "open": the file is open in io.Copy.
PutStates ==
  [phase : {"idle", "making", "open", "stored", "failed"},
   path : Paths, inode : Puts \cup {NoInode}, off : Nat, todo : SUBSET Paths]

\* "dir": os.Open has opened a directory; "full": the copy came to the end.
\* seen is auxiliary: the PUT whose body the GET must return.
GetStates ==
  [phase : {"idle", "open", "dir", "full", "empty", "cut", "failed"},
   path : Paths, inode : Puts \cup {NoInode}, buf : Seq(Blocks),
   seen : Puts \cup {Torn}]

TypeOK == /\ entry \in [Paths -> Puts \cup {NoEntry, Dir}]
          /\ data \in [Puts -> Seq(Blocks)]
          /\ put \in [Puts -> PutStates]
          /\ get \in [Gets -> GetStates]
          /\ writing \in [Puts -> SUBSET Puts]

Init == /\ entry = [p \in Paths |-> NoEntry]
        /\ data = [i \in Puts |-> <<>>]
        /\ put \in [Puts -> {[phase |-> "idle", path |-> p, inode |-> NoInode,
                              off |-> 0, todo |-> {}] : p \in Asked}]
        /\ get \in [Gets -> {[phase |-> "idle", path |-> p, inode |-> NoInode,
                              buf |-> <<>>, seen |-> Torn] : p \in Asked}]
        /\ writing = [i \in Puts |-> {}]

-----------------------------------------------------------------------------
IsFile(p) == entry[p] \in Puts
HasDirs(p) == \A a \in Above[p] : entry[a] = Dir
OpenOn(i) == {w \in Puts : put[w].phase = "open" /\ put[w].inode = i}
Empty(p) == \A q \in Paths : p \in Above[q] => entry[q] = NoEntry

(* The PUT whose body inode i holds, Torn if it holds none's. *)
BodyIn(i) ==
  IF \E w \in Puts : data[i] = Body(w)
  THEN CHOOSE w \in Puts : data[i] = Body(w) ELSE Torn

PutFailed(w) == [put EXCEPT ![w].phase = "failed", ![w].todo = {}]

(* os.MkdirAll(filepath.Dir(path)) goes up first, one stat(2) per step,    *)
(* from the nearest ancestor to the first that is there: what is missing   *)
(* goes on todo, and a file of that name ends the PUT.  The root is there. *)
Stat(w) ==
  LET up == Above[put[w].path] \ put[w].todo IN
  /\ put[w].phase = "idle"
  /\ \/ /\ up = {}
        /\ put' = [put EXCEPT ![w].phase = "making"]
     \/ \E a \in up :
        /\ up = Above[a] \cup {a}
        /\ \/ entry[a] = NoEntry /\ put' = [put EXCEPT ![w].todo = @ \cup {a}]
           \/ entry[a] = Dir /\ put' = [put EXCEPT ![w].phase = "making"]
           \/ IsFile(a) /\ put' = PutFailed(w)
  /\ UNCHANGED <<entry, data, get, writing>>

\* mutant: what stat(2) has seen above is taken to be there still.
Mkdir_Trusting(w) ==
  \E a \in put[w].todo :
    /\ put[w].phase = "making" /\ Above[a] \cap put[w].todo = {}
    /\ IF IsFile(a)
       THEN put' = PutFailed(w) /\ UNCHANGED entry
       ELSE /\ put' = [put EXCEPT ![w].todo = @ \ {a}]
            /\ entry' = [entry EXCEPT ![a] = Dir]
    /\ UNCHANGED <<data, get, writing>>

(* Then it goes down, one mkdir(2) per step.  A directory that is there by *)
(* now is as good; a file of that name, or an ancestor that a DELETE has   *)
(* removed, ends the PUT, and what was made above stays.                   *)
Mkdir(w) ==
  \E a \in put[w].todo :
    /\ put[w].phase = "making" /\ Above[a] \cap put[w].todo = {}
    /\ IF IsFile(a) \/ ~HasDirs(a)
       THEN put' = PutFailed(w) /\ UNCHANGED entry
       ELSE /\ put' = [put EXCEPT ![w].todo = @ \ {a}]
            /\ entry' = [entry EXCEPT ![a] = Dir]
    /\ UNCHANGED <<data, get, writing>>

(* os.Create(path): O_CREATE|O_TRUNC.  It fails on a directory, and when a *)
(* DELETE has removed the directories in the meantime.                     *)
CreateFails(w) ==
  LET p == put[w].path IN
  /\ put[w].phase = "making" /\ put[w].todo = {}
  /\ ~HasDirs(p) \/ entry[p] = Dir
  /\ put' = PutFailed(w)
  /\ UNCHANGED <<entry, data, get, writing>>

\* mutant: the handler keeps the path, not the open file.
Create_ByName(w) ==
  LET p == put[w].path IN
  /\ put[w].phase = "making" /\ put[w].todo = {}
  /\ HasDirs(p) /\ entry[p] # Dir
  /\ put' = [put EXCEPT ![w].phase = "open", ![w].inode = p]
  /\ UNCHANGED <<entry, data, get, writing>>

\* mutant: a file that is there is opened, but not truncated.
Create_NoTruncate(w) ==
  LET p == put[w].path
      i == IF IsFile(p) THEN entry[p] ELSE w IN
  /\ put[w].phase = "making" /\ put[w].todo = {}
  /\ HasDirs(p) /\ entry[p] # Dir
  /\ put' = [put EXCEPT ![w].phase = "open", ![w].inode = i]
  /\ entry' = [entry EXCEPT ![p] = i]
  /\ writing' = [writing EXCEPT ![i] = @ \cup {w}]
  /\ get' = [g \in Gets |-> IF get[g].phase = "open" /\ get[g].inode = i
                            THEN [get[g] EXCEPT !.seen = Torn] ELSE get[g]]
  /\ UNCHANGED data

Create(w) ==
  LET p == put[w].path
      i == IF IsFile(p) THEN entry[p] ELSE w IN
  /\ put[w].phase = "making" /\ put[w].todo = {}
  /\ HasDirs(p) /\ entry[p] # Dir
  /\ put' = [put EXCEPT ![w].phase = "open", ![w].inode = i]
  /\ entry' = [entry EXCEPT ![p] = i]
  /\ data' = [data EXCEPT ![i] = <<>>]
  /\ writing' = [writing EXCEPT ![i] = @ \cup {w}]
  /\ get' = [g \in Gets |-> IF get[g].phase = "open" /\ get[g].inode = i
                            THEN [get[g] EXCEPT !.seen = Torn] ELSE get[g]]

(* write(2) at the handler's own offset: it fills up with a hole when the  *)
(* file has been truncated under the handler.                              *)
WriteAt(s, k, b) ==
  [j \in 1..(IF Len(s) < k THEN k ELSE Len(s)) |->
     IF j = k THEN b ELSE IF j <= Len(s) THEN s[j] ELSE Hole]

Write(w) ==
  LET k == put[w].off + 1 IN
  /\ put[w].phase = "open" /\ k <= Size[w]
  /\ data' = [data EXCEPT ![put[w].inode] = WriteAt(@, k, Block(w, k))]
  /\ put' = [put EXCEPT ![w].off = k]
  /\ UNCHANGED <<entry, get, writing>>

(* f.Close(), after a last read at EOF ("stored", 201) or an error of the  *)
(* body, the disk or the process ("failed"); the file stays as it is.      *)
ClosePut(w, outcome) ==
  LET i == put[w].inode IN
  /\ put[w].phase = "open"
  /\ outcome = "stored" => put[w].off = Size[w]
  /\ put' = [put EXCEPT ![w].phase = outcome]
  /\ writing' = [writing EXCEPT ![i] = IF OpenOn(i) = {w} THEN {} ELSE @]
  /\ UNCHANGED <<entry, data, get>>

(* A PUT that ends before it has opened the file. *)
RefusePut(w) ==
  /\ put[w].phase \in {"idle", "making"}
  /\ put' = PutFailed(w)
  /\ UNCHANGED <<entry, data, get, writing>>

\* mutant: a file is truncated before its name is removed.
Delete_Truncates(p) ==
  /\ IsFile(p) \/ (entry[p] = Dir /\ Empty(p))
  /\ entry' = [entry EXCEPT ![p] = NoEntry]
  /\ data' = [i \in Puts |-> IF i = entry[p] THEN <<>> ELSE data[i]]
  /\ UNCHANGED <<put, get, writing>>

(* os.Remove(path): unlink, or rmdir of an empty directory. *)
Delete(p) ==
  /\ IsFile(p) \/ (entry[p] = Dir /\ Empty(p))
  /\ entry' = [entry EXCEPT ![p] = NoEntry]
  /\ UNCHANGED <<data, put, get, writing>>

-----------------------------------------------------------------------------
(* os.Open(path) answers 404 or 400 without a file, and opens a directory. *)
OpenGet(g) ==
  LET p == get[g].path IN
  /\ get[g].phase = "idle"
  /\ get' = [get EXCEPT ![g] =
       IF IsFile(p)
       THEN [@ EXCEPT !.phase = "open", !.inode = entry[p],
                      !.seen = IF OpenOn(entry[p]) = {} THEN BodyIn(entry[p])
                                                        ELSE Torn]
       ELSE [@ EXCEPT !.phase = IF entry[p] = Dir THEN "dir" ELSE "failed"]]
  /\ UNCHANGED <<entry, data, put, writing>>

(* io.Copy to the response, after the 200: one block, or the end of the    *)
(* file; reading a directory fails at once, which the handler ignores.     *)
Read(g) ==
  LET i == get[g].inode
      k == Len(get[g].buf) + 1 IN
  /\ \/ /\ get[g].phase = "open" /\ k <= Len(data[i])
        /\ get' = [get EXCEPT ![g].buf = Append(@, data[i][k])]
     \/ /\ get[g].phase = "open" /\ k > Len(data[i])
        /\ get' = [get EXCEPT ![g].phase = "full"]
     \/ /\ get[g].phase = "dir"
        /\ get' = [get EXCEPT ![g].phase = "empty"]
  /\ UNCHANGED <<entry, data, put, writing>>

(* The connection of a GET breaks. *)
CutGet(g) ==
  /\ get[g].phase \in {"open", "dir"}
  /\ get' = [get EXCEPT ![g].phase = "cut"]
  /\ UNCHANGED <<entry, data, put, writing>>

(* Every request has been answered; DELETEs may still come. *)
Answered ==
  /\ \A w \in Puts : put[w].phase \in {"stored", "failed"}
  /\ \A g \in Gets : get[g].phase \in {"full", "empty", "cut", "failed"}
  /\ UNCHANGED vars

PutStep(w) == \/ Stat(w) \/ Mkdir(w) \/ CreateFails(w) \/ Create(w) \/ Write(w)
              \/ \E outcome \in {"stored", "failed"} : ClosePut(w, outcome)

Next == \/ \E w \in Puts : PutStep(w) \/ RefusePut(w)
        \/ \E p \in Paths : Delete(p)
        \/ \E g \in Gets : OpenGet(g) \/ Read(g) \/ CutGet(g)
        \/ Answered

Spec == Init /\ [][Next]_vars

-----------------------------------------------------------------------------
(***************************************************************************)
(* The refinement mapping: at every path the node implements FileRegister. *)
(***************************************************************************)
FileAt(p) ==
  IF ~IsFile(p) THEN [content |-> NoEntry, group |-> {}]
  ELSE [content |-> IF OpenOn(entry[p]) # {} THEN Torn ELSE BodyIn(entry[p]),
        group |-> writing[entry[p]]]

PhaseAt(p, w) ==
  IF put[w].path # p \/ put[w].phase \in {"idle", "making"} THEN "idle"
  ELSE IF put[w].phase # "open" THEN put[w].phase
  ELSE IF put[w].inode = entry[p] THEN "open" ELSE "detached"

ReadAt(p, g) ==
  [phase |-> IF get[g].path # p \/ get[g].inode = NoInode THEN "idle"
             ELSE IF get[g].phase # "open" THEN "closed"
             ELSE IF get[g].inode = entry[p] THEN "attached" ELSE "detached",
   seen |-> IF get[g].path = p THEN get[g].seen ELSE Torn]

Reg(p) == INSTANCE FileRegister WITH
  Uploads <- Puts, Readers <- Gets, Absent <- NoEntry,
  file <- FileAt(p),
  phase <- [w \in Puts |-> PhaseAt(p, w)],
  read <- [g \in Gets |-> ReadAt(p, g)]

(* Refinement.  The file behind every path behaves as one FileRegister:    *)
(* truncation, interleaved writes at private offsets and unlinking under   *)
(* open handlers (store.Put, Get, Delete) add up to what the contract      *)
(* says, and PUTs of other paths (os.MkdirAll included) do not disturb it. *)
ImplementsRegister ==
  /\ \A p \in Paths : Reg(p)!Init
  /\ [][\A p \in Paths : UNCHANGED Reg(p)!vars \/ Reg(p)!Next]_vars

(* A GET that came to the end of the file, found the body of w settled     *)
(* when it opened the file and met no PUT on that file since has sent      *)
(* exactly that body - also when the file was deleted, or replaced by a    *)
(* new one of the same name, half way (store.Get and the copy in server).  *)
GetIntact ==
  \A g \in Gets :
    get[g].phase = "full" /\ get[g].seen # Torn => get[g].buf = Body(get[g].seen)

(* Whatever DELETEs of directories and PUTs of other keys do between the   *)
(* stats, mkdirs and the open of a PUT, nothing ever ends up below a file  *)
(* or below a missing directory (store.Put's MkdirAll, os.Create, Delete). *)
TreeSound == \A p \in Paths : entry[p] # NoEntry => HasDirs(p)
=============================================================================
