--------------------------- MODULE StorageNodeProofs ---------------------------
(***************************************************************************)
(* For every directory tree and any number of PUTs, GETs and DELETEs: the  *)
(* tree stays sound, a GET sends the body it was promised, and the node    *)
(* implements FileRegister at every path.                                  *)
(*                                                                         *)
(* The argument rests on one observation: an inode is named by the PUT     *)
(* that made it, so its home is that PUT's path, and every name and every  *)
(* handler it ever gets is at home there.                                  *)
(***************************************************************************)
EXTENDS StorageNode, TLAPS

\* PUT w has come as far as os.Create: an inode of its name may exist.
Begun(w) == put[w].phase \notin {"idle", "making"}

\* A file has the one name its maker gave it.
Named == \A p \in Paths :
  IsFile(p) => Begun(entry[p]) /\ put[entry[p]].path = p

\* An open PUT writes to an inode of its path and counts as one of its group.
Handlers == \A w \in Puts :
  /\ put[w].off <= Size[w]
  /\ ~Begun(w) => put[w].off = 0
  /\ put[w].phase = "open" =>
       /\ put[w].inode \in Puts
       /\ Begun(put[w].inode)
       /\ put[put[w].inode].path = put[w].path
       /\ w \in writing[put[w].inode]

\* A GET without a file is promised nothing; one with a file reads its path's.
Readers == \A g \in Gets :
  /\ get[g].phase \in {"idle", "dir"} => get[g].inode = NoInode /\ get[g].buf = <<>>
  /\ get[g].phase = "open" => get[g].inode \in Puts
  /\ get[g].inode = NoInode => get[g].seen = Torn
  /\ get[g].inode \in Puts =>
       Begun(get[g].inode) /\ put[get[g].inode].path = get[g].path

\* No group outlives its last open handler.
Groups == \A i \in Puts :
  /\ \A w \in writing[i] : Begun(w)
  /\ OpenOn(i) = {} => writing[i] = {}

\* While inode i is open its blocks are the group's, each at its own place,
\* and a PUT that is the whole group has written exactly what it copied.
Written(i) ==
  /\ \A j \in 1..Len(data[i]) :
       data[i][j] = Hole \/ \E w \in writing[i] : data[i][j] = Block(w, j)
  /\ \A w \in Puts : writing[i] = {w} =>
       data[i] = [k \in 1..put[w].off |-> Block(w, k)]

Contents == \A i \in Puts : OpenOn(i) # {} => Written(i)

\* A GET that was promised a body has its first blocks; until it is through,
\* the file holds the rest, and nobody has it open.
Copied(g) == \A k \in 1..Len(get[g].buf) : get[g].buf[k] = Block(get[g].seen, k)

Promised(g) ==
  /\ OpenOn(get[g].inode) = {}
  /\ data[get[g].inode] = Body(get[g].seen)
  /\ Len(get[g].buf) <= Size[get[g].seen]
  /\ Copied(g)

Copies == \A g \in Gets : get[g].seen # Torn =>
  /\ get[g].phase = "open" => Promised(g)
  /\ get[g].phase = "full" => get[g].buf = Body(get[g].seen)

NodeInv ==
  TypeOK /\ Named /\ Handlers /\ Readers /\ Groups /\ Contents /\ Copies /\ TreeSound

-----------------------------------------------------------------------------
(* Names, bodies and blocks. *)
LEMMA Names ==
  /\ NoEntry \notin Puts /\ Dir \notin Puts /\ Torn \notin Puts
  /\ NoEntry # Dir /\ NoEntry # Torn /\ NoInode = NoEntry
  BY NamesForm DEF NoInode

LEMMA SizeType == ASSUME NEW w \in Puts PROVE Size[w] \in Nat /\ Size[w] >= 1
  BY BodiesForm

LEMMA BodyType ==
  ASSUME NEW w \in Puts
  PROVE  /\ Body(w) \in Seq(Blocks)
         /\ Len(Body(w)) = Size[w]
         /\ \A k \in 1..Size[w] : Body(w)[k] = Block(w, k)
  BY SizeType DEF Body, Block, Blocks

LEMMA BodiesDiffer ==
  ASSUME NEW v \in Puts, NEW w \in Puts, Body(v) = Body(w)
  PROVE  v = w
  <1>1. 1 \in 1..Size[v] /\ 1 \in 1..Size[w]
    BY SizeType
  <1>2. Body(v)[1] = <<v, 1>> /\ Body(w)[1] = <<w, 1>>
    BY <1>1 DEF Body, Block
  <1> QED  BY <1>2

LEMMA BodyInType == \A i : BodyIn(i) \in Puts \cup {Torn}
  BY DEF BodyIn

LEMMA BodyInIs ==
  ASSUME NEW i \in Puts, NEW w \in Puts
  PROVE  /\ data[i] = Body(w) => BodyIn(i) = w
         /\ BodyIn(i) = w => data[i] = Body(w)
  <1>1. ASSUME data[i] = Body(w) PROVE BodyIn(i) = w
    <2>1. \A v \in Puts : data[i] = Body(v) => v = w
      BY <1>1, BodiesDiffer
    <2>2. BodyIn(i) = CHOOSE v \in Puts : data[i] = Body(v)
      BY <1>1 DEF BodyIn
    <2> QED  BY <1>1, <2>1, <2>2
  <1>2. ASSUME BodyIn(i) = w PROVE data[i] = Body(w)
    BY <1>2, Names DEF BodyIn
  <1> QED  BY <1>1, <1>2

LEMMA WriteAtType ==
  ASSUME NEW s \in Seq(Blocks), NEW k \in Nat \ {0}, NEW b \in Blocks
  PROVE  /\ WriteAt(s, k, b) \in Seq(Blocks)
         /\ Len(WriteAt(s, k, b)) = IF Len(s) < k THEN k ELSE Len(s)
         /\ \A j \in 1..Len(WriteAt(s, k, b)) : WriteAt(s, k, b)[j] =
              IF j = k THEN b ELSE IF j <= Len(s) THEN s[j] ELSE Hole
  <1> DEFINE n == IF Len(s) < k THEN k ELSE Len(s)
  <1>1. n \in Nat
    OBVIOUS
  <1>2. WriteAt(s, k, b) =
          [j \in 1..n |-> IF j = k THEN b ELSE IF j <= Len(s) THEN s[j] ELSE Hole]
    BY DEF WriteAt
  <1>3. \A j \in 1..n :
          (IF j = k THEN b ELSE IF j <= Len(s) THEN s[j] ELSE Hole) \in Blocks
    BY DEF Blocks, Hole
  <1> HIDE DEF n
  <1> QED  BY <1>1, <1>2, <1>3 DEF n

-----------------------------------------------------------------------------
(* What each step does to its handler, field by field; the others stay. *)
OtherPutsStay(w) == \A v \in Puts : v # w => put'[v] = put[v]

Moved(w, ph, i, k) ==
  /\ put' \in [Puts -> PutStates]
  /\ OtherPutsStay(w)
  /\ put'[w].path = put[w].path
  /\ put'[w].phase = ph /\ put'[w].inode = i /\ put'[w].off = k

LEMMA PhaseMoves ==
  ASSUME TypeOK, NEW w \in Puts, NEW ph \in {"making", "stored", "failed"},
         put' = [put EXCEPT ![w].phase = ph]
  PROVE  Moved(w, ph, put[w].inode, put[w].off)
  <1>1. put \in [Puts -> PutStates]
    BY DEF TypeOK
  <1>2. put' = [put EXCEPT ![w] = [put[w] EXCEPT !.phase = ph]]
    OBVIOUS
  <1>3. [put[w] EXCEPT !.phase = ph] \in PutStates
    BY <1>1 DEF PutStates
  <1>4. /\ [put[w] EXCEPT !.phase = ph].path = put[w].path
        /\ [put[w] EXCEPT !.phase = ph].phase = ph
        /\ [put[w] EXCEPT !.phase = ph].inode = put[w].inode
        /\ [put[w] EXCEPT !.phase = ph].off = put[w].off
    BY <1>1 DEF PutStates
  <1> QED  BY <1>1, <1>2, <1>3, <1>4 DEF Moved, OtherPutsStay

LEMMA TodoMoves ==
  ASSUME TypeOK, NEW w \in Puts, NEW t \in SUBSET Paths,
         put' = [put EXCEPT ![w].todo = t]
  PROVE  Moved(w, put[w].phase, put[w].inode, put[w].off)
  <1>1. put \in [Puts -> PutStates]
    BY DEF TypeOK
  <1>2. put' = [put EXCEPT ![w] = [put[w] EXCEPT !.todo = t]]
    OBVIOUS
  <1>3. /\ [put[w] EXCEPT !.todo = t] \in PutStates
        /\ [put[w] EXCEPT !.todo = t].path = put[w].path
        /\ [put[w] EXCEPT !.todo = t].phase = put[w].phase
        /\ [put[w] EXCEPT !.todo = t].inode = put[w].inode
        /\ [put[w] EXCEPT !.todo = t].off = put[w].off
    BY <1>1 DEF PutStates
  <1> QED  BY <1>1, <1>2, <1>3 DEF Moved, OtherPutsStay

LEMMA FailMoves ==
  ASSUME TypeOK, NEW w \in Puts, put' = PutFailed(w)
  PROVE  Moved(w, "failed", put[w].inode, put[w].off)
  <1>1. put \in [Puts -> PutStates]
    BY DEF TypeOK
  <1> DEFINE r == [[put[w] EXCEPT !.phase = "failed"] EXCEPT !.todo = {}]
  <1>2. put' = [put EXCEPT ![w] = r]
    BY <1>1 DEF PutStates, PutFailed
  <1>3. /\ r \in PutStates
        /\ r.path = put[w].path /\ r.phase = "failed"
        /\ r.inode = put[w].inode /\ r.off = put[w].off
    BY <1>1 DEF PutStates
  <1> HIDE DEF r
  <1> QED  BY <1>1, <1>2, <1>3 DEF Moved, OtherPutsStay

LEMMA CreateMoves ==
  ASSUME TypeOK, NEW w \in Puts, NEW i \in Puts,
         put' = [put EXCEPT ![w].phase = "open", ![w].inode = i]
  PROVE  Moved(w, "open", i, put[w].off)
  <1>1. put \in [Puts -> PutStates]
    BY DEF TypeOK
  <1> DEFINE r == [[put[w] EXCEPT !.phase = "open"] EXCEPT !.inode = i]
  <1>2. put' = [put EXCEPT ![w] = r]
    BY <1>1 DEF PutStates
  <1>3. /\ r \in PutStates
        /\ r.path = put[w].path /\ r.phase = "open"
        /\ r.inode = i /\ r.off = put[w].off
    BY <1>1 DEF PutStates
  <1> HIDE DEF r
  <1> QED  BY <1>1, <1>2, <1>3 DEF Moved, OtherPutsStay

LEMMA WriteMoves ==
  ASSUME TypeOK, NEW w \in Puts, NEW k \in Nat, put' = [put EXCEPT ![w].off = k]
  PROVE  Moved(w, put[w].phase, put[w].inode, k)
  <1>1. put \in [Puts -> PutStates]
    BY DEF TypeOK
  <1>2. put' = [put EXCEPT ![w] = [put[w] EXCEPT !.off = k]]
    OBVIOUS
  <1>3. /\ [put[w] EXCEPT !.off = k] \in PutStates
        /\ [put[w] EXCEPT !.off = k].path = put[w].path
        /\ [put[w] EXCEPT !.off = k].phase = put[w].phase
        /\ [put[w] EXCEPT !.off = k].inode = put[w].inode
        /\ [put[w] EXCEPT !.off = k].off = k
    BY <1>1 DEF PutStates
  <1> QED  BY <1>1, <1>2, <1>3 DEF Moved, OtherPutsStay

OtherGetsStay(g) == \A h \in Gets : h # g => get'[h] = get[h]

Got(g, ph, i, buf, seen) ==
  /\ get' \in [Gets -> GetStates]
  /\ OtherGetsStay(g)
  /\ get'[g].path = get[g].path
  /\ get'[g].phase = ph /\ get'[g].inode = i
  /\ get'[g].buf = buf /\ get'[g].seen = seen

LEMMA PhaseGot ==
  ASSUME TypeOK, NEW g \in Gets,
         NEW ph \in {"dir", "full", "empty", "cut", "failed"},
         get' = [get EXCEPT ![g] = [get[g] EXCEPT !.phase = ph]]
  PROVE  Got(g, ph, get[g].inode, get[g].buf, get[g].seen)
  <1>1. get \in [Gets -> GetStates]
    BY DEF TypeOK
  <1> DEFINE r == [get[g] EXCEPT !.phase = ph]
  <1>2. /\ r \in GetStates
        /\ r.path = get[g].path /\ r.phase = ph /\ r.inode = get[g].inode
        /\ r.buf = get[g].buf /\ r.seen = get[g].seen
    BY <1>1 DEF GetStates
  <1>3. get' = [get EXCEPT ![g] = r]
    OBVIOUS
  <1> HIDE DEF r
  <1> QED  BY <1>1, <1>2, <1>3 DEF Got, OtherGetsStay

LEMMA OpenGot ==
  ASSUME TypeOK, NEW g \in Gets, NEW i \in Puts, NEW s \in Puts \cup {Torn},
         get' = [get EXCEPT ![g] = [get[g] EXCEPT !.phase = "open", !.inode = i,
                                                  !.seen = s]]
  PROVE  Got(g, "open", i, get[g].buf, s)
  <1>1. get \in [Gets -> GetStates]
    BY DEF TypeOK
  <1> DEFINE r == [get[g] EXCEPT !.phase = "open", !.inode = i, !.seen = s]
  <1>2. /\ r \in GetStates
        /\ r.path = get[g].path /\ r.phase = "open" /\ r.inode = i
        /\ r.buf = get[g].buf /\ r.seen = s
    BY <1>1 DEF GetStates
  <1>3. get' = [get EXCEPT ![g] = r]
    OBVIOUS
  <1> HIDE DEF r
  <1> QED  BY <1>1, <1>2, <1>3 DEF Got, OtherGetsStay

LEMMA BlockGot ==
  ASSUME TypeOK, NEW g \in Gets, NEW b \in Blocks,
         get' = [get EXCEPT ![g].buf = Append(@, b)]
  PROVE  Got(g, get[g].phase, get[g].inode, Append(get[g].buf, b), get[g].seen)
  <1>1. get \in [Gets -> GetStates]
    BY DEF TypeOK
  <1> DEFINE n == Append(get[g].buf, b)
             r == [get[g] EXCEPT !.buf = n]
  <1>2. get[g].buf \in Seq(Blocks) /\ n \in Seq(Blocks)
    BY <1>1 DEF GetStates
  <1>3. get' = [get EXCEPT ![g] = r]
    OBVIOUS
  <1>4. /\ r \in GetStates
        /\ r.path = get[g].path /\ r.phase = get[g].phase
        /\ r.inode = get[g].inode /\ r.buf = n /\ r.seen = get[g].seen
    <2> HIDE DEF n
    <2> QED  BY <1>1, <1>2 DEF GetStates
  <1> HIDE DEF r
  <1> QED  BY <1>1, <1>3, <1>4 DEF Got, OtherGetsStay

(* os.Create withdraws what the GETs that have the file open were promised. *)
Withdrawn(i) ==
  /\ get' \in [Gets -> GetStates]
  /\ \A g \in Gets :
       /\ get'[g].path = get[g].path /\ get'[g].phase = get[g].phase
       /\ get'[g].inode = get[g].inode /\ get'[g].buf = get[g].buf
       /\ get'[g].seen = IF get[g].phase = "open" /\ get[g].inode = i
                         THEN Torn ELSE get[g].seen

LEMMA CreateWithdraws ==
  ASSUME TypeOK, NEW i \in Puts,
         get' = [g \in Gets |-> IF get[g].phase = "open" /\ get[g].inode = i
                                THEN [get[g] EXCEPT !.seen = Torn] ELSE get[g]]
  PROVE  Withdrawn(i)
  <1> DEFINE r(g) == [get[g] EXCEPT !.seen = Torn]
  <1>1. get \in [Gets -> GetStates]
    BY DEF TypeOK
  <1>2. \A g \in Gets :
          /\ r(g) \in GetStates
          /\ r(g).path = get[g].path /\ r(g).phase = get[g].phase
          /\ r(g).inode = get[g].inode /\ r(g).buf = get[g].buf
          /\ r(g).seen = Torn
    BY <1>1 DEF GetStates
  <1>3. \A g \in Gets : get'[g] = IF get[g].phase = "open" /\ get[g].inode = i
                                  THEN r(g) ELSE get[g]
    OBVIOUS
  <1>4. get' = [g \in Gets |-> get'[g]]
    OBVIOUS
  <1> HIDE DEF r
  <1>5. \A g \in Gets : get'[g] \in GetStates
    BY <1>1, <1>2, <1>3
  <1>6. get' \in [Gets -> GetStates]
    BY <1>4, <1>5
  <1> QED  BY <1>1, <1>2, <1>3, <1>6 DEF Withdrawn

-----------------------------------------------------------------------------
(* The directory tree. *)
LEMMA InitInv == Init => NodeInv
  <1> SUFFICES ASSUME Init PROVE NodeInv
    OBVIOUS
  <1> USE DEF Init
  <1>1. \A w \in Puts : /\ put[w] \in PutStates
                        /\ put[w].phase = "idle" /\ put[w].off = 0
    <2> TAKE w \in Puts
    <2>1. PICK p \in Asked :
            put[w] = [phase |-> "idle", path |-> p, inode |-> NoInode,
                      off |-> 0, todo |-> {}]
      OBVIOUS
    <2>2. p \in Paths /\ {} \in SUBSET Paths
      BY PathsForm
    <2> QED  BY <2>1, <2>2 DEF PutStates
  <1>2. \A g \in Gets : /\ get[g] \in GetStates
                        /\ get[g].phase = "idle" /\ get[g].inode = NoInode
                        /\ get[g].buf = <<>> /\ get[g].seen = Torn
    <2> TAKE g \in Gets
    <2>1. PICK p \in Asked :
            get[g] = [phase |-> "idle", path |-> p, inode |-> NoInode,
                      buf |-> <<>>, seen |-> Torn]
      OBVIOUS
    <2>2. <<>> \in Seq(Blocks) /\ p \in Paths
      BY PathsForm
    <2> QED  BY <2>1, <2>2 DEF GetStates
  <1>3. put \in [Puts -> PutStates] /\ get \in [Gets -> GetStates]
    BY <1>1, <1>2
  <1>4. TypeOK
    BY <1>3, Names DEF TypeOK
  <1>5. Named /\ TreeSound
    BY Names DEF Named, IsFile, TreeSound
  <1>6. \A i \in Puts : OpenOn(i) = {}
    BY <1>1 DEF OpenOn
  <1>7. Handlers /\ Groups /\ Contents
    BY <1>1, <1>6, SizeType DEF Handlers, Groups, Contents, Begun
  <1>8. Readers /\ Copies
    BY <1>2, Names DEF Readers, Copies
  <1> QED  BY <1>4, <1>5, <1>7, <1>8 DEF NodeInv

LEMMA MkdirTree ==
  ASSUME TypeOK, TreeSound, NEW w \in Puts, Mkdir(w)
  PROVE  TreeSound'
  <1>1. CASE UNCHANGED entry
    BY <1>1 DEF TreeSound, HasDirs
  <1>2. ASSUME NEW a \in put[w].todo, HasDirs(a), entry' = [entry EXCEPT ![a] = Dir]
        PROVE  TreeSound'
    <2>1. SUFFICES ASSUME NEW q \in Paths, entry'[q] # NoEntry, NEW b \in Above[q]
                   PROVE  entry'[b] = Dir
      BY DEF TreeSound, HasDirs
    <2>2. a \in Paths /\ b \in Paths
      BY PathsForm DEF TypeOK, PutStates
    <2>3. entry[b] = Dir
      BY <1>2, <2>1, <2>2 DEF TreeSound, HasDirs, TypeOK
    <2> QED  BY <1>2, <2>2, <2>3 DEF TypeOK
  <1> QED  BY <1>1, <1>2 DEF Mkdir

LEMMA CreateTree ==
  ASSUME TypeOK, TreeSound, NEW w \in Puts, Create(w)
  PROVE  TreeSound'
  <1> DEFINE p == put[w].path
             i == IF IsFile(p) THEN entry[p] ELSE w
  <1>1. p \in Paths /\ i \in Puts
    BY DEF TypeOK, PutStates, IsFile
  <1>2. entry' = [entry EXCEPT ![p] = i] /\ HasDirs(p) /\ entry[p] # Dir
    BY DEF Create
  <1>3. SUFFICES ASSUME NEW q \in Paths, entry'[q] # NoEntry, NEW a \in Above[q]
                 PROVE  entry'[a] = Dir
    BY DEF TreeSound, HasDirs
  <1>4. a \in Paths
    BY PathsForm
  <1>5. entry[a] = Dir
    <2>1. CASE q = p
      BY <1>2, <2>1 DEF HasDirs
    <2>2. CASE q # p
      BY <1>1, <1>2, <1>3, <2>2 DEF TreeSound, HasDirs, TypeOK
    <2> QED  BY <2>1, <2>2
  <1> HIDE DEF i
  <1> QED  BY <1>1, <1>2, <1>4, <1>5 DEF TypeOK

LEMMA DeleteTree ==
  ASSUME TypeOK, TreeSound, NEW p \in Paths, Delete(p)
  PROVE  TreeSound'
  <1>1. SUFFICES ASSUME NEW q \in Paths, entry'[q] # NoEntry, NEW a \in Above[q]
                 PROVE  entry'[a] = Dir
    BY DEF TreeSound, HasDirs
  <1>2. a \in Paths
    BY PathsForm
  <1>3. entry' = [entry EXCEPT ![p] = NoEntry]
    BY DEF Delete
  <1>4. q # p /\ entry[q] # NoEntry
    BY <1>1, <1>3 DEF TypeOK
  <1>5. entry[a] = Dir
    BY <1>4 DEF TreeSound, HasDirs
  <1>6. a # p
    BY <1>4, <1>5, Names DEF Delete, IsFile, Empty
  <1> QED  BY <1>2, <1>3, <1>5, <1>6 DEF TypeOK

-----------------------------------------------------------------------------
(* Before os.Create, a handler holds no file: no step of it disturbs one. *)
Core == TypeOK /\ Named /\ Handlers /\ Readers /\ Groups /\ Contents /\ Copies

FilesStay ==
  /\ entry' \in [Paths -> Puts \cup {NoEntry, Dir}]
  /\ \A p \in Paths : /\ IsFile(p)' <=> IsFile(p)
                      /\ IsFile(p) => entry'[p] = entry[p]

LEMMA EarlyStep ==
  ASSUME Core, NEW w \in Puts, ~Begun(w), NEW ph \in {"idle", "making", "failed"},
         Moved(w, ph, put[w].inode, put[w].off), FilesStay,
         UNCHANGED <<data, get, writing>>
  PROVE  Core'
  <1> USE DEF Core
  <1>1. TypeOK'
    BY DEF TypeOK, Moved, FilesStay
  <1>2. \A v \in Puts : /\ put'[v].path = put[v].path /\ put'[v].off = put[v].off
                        /\ put'[v].inode = put[v].inode
                        /\ put'[v].phase = "open" <=> put[v].phase = "open"
                        /\ Begun(v) => Begun(v)'
                        /\ Begun(v)' => Begun(v) \/ v = w
    BY DEF Moved, OtherPutsStay, Begun
  <1>3. \A i : OpenOn(i)' = OpenOn(i)
    BY <1>2 DEF OpenOn
  <1>4. Named'
    BY <1>2 DEF Named, IsFile, FilesStay
  <1>5. Handlers'
    <2> SUFFICES ASSUME NEW v \in Puts
                 PROVE  /\ put'[v].off <= Size[v]
                        /\ ~Begun(v)' => put'[v].off = 0
                        /\ put'[v].phase = "open" =>
                             /\ put'[v].inode \in Puts
                             /\ Begun(put[v].inode)'
                             /\ put'[put'[v].inode].path = put'[v].path
                             /\ v \in writing'[put'[v].inode]
      BY <1>2 DEF Handlers
    <2> QED  BY <1>2 DEF Handlers
  <1>6. Readers'
    BY <1>2 DEF Readers
  <1>7. Groups'
    BY <1>2, <1>3 DEF Groups, TypeOK
  <1>8. Contents'
    <2>1. \A i \in Puts : Written(i) => Written(i)'
      BY <1>2 DEF Written
    <2> QED  BY <1>3, <2>1 DEF Contents
  <1>9. Copies'
    BY <1>3 DEF Copies, Promised, Copied
  <1> QED  BY <1>1, <1>4, <1>5, <1>6, <1>7, <1>8, <1>9

LEMMA LookStep ==
  ASSUME Core, NEW w \in Puts, Stat(w) \/ Mkdir(w)
  PROVE  /\ ~Begun(w) /\ FilesStay
         /\ \E ph \in {"idle", "making", "failed"} :
              Moved(w, ph, put[w].inode, put[w].off)
         /\ UNCHANGED <<data, get, writing>>
  <1> USE DEF Core
  <1>1. /\ put[w].todo \in SUBSET Paths
        /\ Above[put[w].path] \subseteq Paths
    BY PathsForm DEF TypeOK, PutStates
  <1>2. put[w].phase \in {"idle", "making"} /\ UNCHANGED <<data, get, writing>>
    BY DEF Stat, Mkdir
  <1>3. FilesStay
    <2>1. CASE UNCHANGED entry
      BY <2>1 DEF FilesStay, IsFile, TypeOK
    <2>2. ASSUME NEW a \in put[w].todo, ~IsFile(a), entry' = [entry EXCEPT ![a] = Dir]
          PROVE  FilesStay
      BY <1>1, <2>2, Names DEF FilesStay, IsFile, TypeOK
    <2> QED  BY <2>1, <2>2 DEF Stat, Mkdir
  <1>4. CASE put' = PutFailed(w)
    BY <1>2, <1>3, <1>4, FailMoves DEF Begun
  <1>5. CASE put' = [put EXCEPT ![w].phase = "making"]
    BY <1>2, <1>3, <1>5, PhaseMoves DEF Begun
  <1>6. ASSUME NEW t \in SUBSET Paths, put' = [put EXCEPT ![w].todo = t]
        PROVE  Moved(w, put[w].phase, put[w].inode, put[w].off)
    BY <1>6, TodoMoves
  <1>7. CASE \E t \in SUBSET Paths : put' = [put EXCEPT ![w].todo = t]
    BY <1>2, <1>3, <1>6, <1>7 DEF Begun
  <1>8. \/ put' = PutFailed(w)
        \/ put' = [put EXCEPT ![w].phase = "making"]
        \/ \E t \in SUBSET Paths : put' = [put EXCEPT ![w].todo = t]
    <2>1. CASE Stat(w)
      <3>1. ASSUME NEW a \in Above[put[w].path],
                   put' = [put EXCEPT ![w].todo = @ \cup {a}]
            PROVE  \E t \in SUBSET Paths : put' = [put EXCEPT ![w].todo = t]
        <4>1. put[w].todo \cup {a} \in SUBSET Paths
          BY <1>1
        <4>2. put' = [put EXCEPT ![w].todo = put[w].todo \cup {a}]
          BY <3>1
        <4> QED  BY <4>1, <4>2
      <3> QED  BY <2>1, <3>1 DEF Stat
    <2>2. CASE Mkdir(w)
      <3>1. ASSUME NEW a, put' = [put EXCEPT ![w].todo = @ \ {a}]
            PROVE  \E t \in SUBSET Paths : put' = [put EXCEPT ![w].todo = t]
        <4>1. put[w].todo \ {a} \in SUBSET Paths
          BY <1>1
        <4>2. put' = [put EXCEPT ![w].todo = put[w].todo \ {a}]
          BY <3>1
        <4> QED  BY <4>1, <4>2
      <3> QED  BY <2>2, <3>1 DEF Mkdir
    <2> QED  BY <2>1, <2>2
  <1> QED  BY <1>4, <1>5, <1>7, <1>8

LEMMA LookKeeps ==
  ASSUME NodeInv, NEW w \in Puts, Stat(w) \/ Mkdir(w)
  PROVE  NodeInv'
  <1>1. TreeSound'
    BY MkdirTree DEF NodeInv, Stat, TreeSound, HasDirs
  <1>2. Core
    BY DEF NodeInv, Core
  <1>3. Core'
    BY <1>2, LookStep, EarlyStep
  <1> QED  BY <1>1, <1>3 DEF NodeInv, Core

LEMMA RefusalKeeps ==
  ASSUME NodeInv, NEW w \in Puts, CreateFails(w) \/ RefusePut(w)
  PROVE  NodeInv'
  <1> USE DEF NodeInv
  <1>1. /\ ~Begun(w) /\ put' = PutFailed(w)
        /\ UNCHANGED <<entry, data, get, writing>>
    BY DEF CreateFails, RefusePut, Begun
  <1>2. Moved(w, "failed", put[w].inode, put[w].off)
    BY <1>1, FailMoves
  <1>3. FilesStay /\ TreeSound'
    BY <1>1 DEF FilesStay, IsFile, TypeOK, TreeSound, HasDirs
  <1> QED  BY <1>1, <1>2, <1>3, EarlyStep DEF Core

-----------------------------------------------------------------------------
(* os.Create opens an inode at home at its path: the one that has the name, *)
(* or a new one, which nothing has named or opened before.                  *)
Opens(w, i) ==
  /\ Moved(w, "open", i, 0)
  /\ entry' = [entry EXCEPT ![put[w].path] = i]
  /\ data' = [data EXCEPT ![i] = <<>>]
  /\ writing' = [writing EXCEPT ![i] = @ \cup {w}]
  /\ Withdrawn(i)

AtHome(w, i) ==
  /\ i \in Puts /\ put[w].path \in Paths
  /\ ~Begun(w) /\ put[i].path = put[w].path /\ (Begun(i) \/ i = w)
  /\ \A q \in Paths : entry[q] = i => q = put[w].path
  /\ \A v \in OpenOn(i) : put[v].path = put[w].path
  /\ entry[put[w].path] \in {i, NoEntry}

LEMMA CreateOpens ==
  ASSUME Core, NEW w \in Puts, Create(w)
  PROVE  \E i \in Puts :
           /\ Opens(w, i) /\ AtHome(w, i)
           /\ i = IF IsFile(put[w].path) THEN entry[put[w].path] ELSE w
  <1> USE DEF Core
  <1> DEFINE p == put[w].path
             i == IF IsFile(p) THEN entry[p] ELSE w
  <1>1. i \in Puts /\ p \in Paths
    BY DEF IsFile, TypeOK, PutStates
  <1>2. ~Begun(w) /\ put[w].off = 0
    BY DEF Create, Begun, Handlers
  <1>3. /\ put' = [put EXCEPT ![w].phase = "open", ![w].inode = i]
        /\ entry' = [entry EXCEPT ![p] = i]
        /\ data' = [data EXCEPT ![i] = <<>>]
        /\ writing' = [writing EXCEPT ![i] = @ \cup {w}]
        /\ get' = [g \in Gets |-> IF get[g].phase = "open" /\ get[g].inode = i
                                  THEN [get[g] EXCEPT !.seen = Torn] ELSE get[g]]
    BY DEF Create
  <1>4. put[i].path = p /\ (Begun(i) \/ i = w) /\ entry[p] \in {i, NoEntry}
    BY <1>1 DEF Named, IsFile, Create, TypeOK
  <1>5. \A q \in Paths : entry[q] = i => q = p
    BY <1>1, <1>2, <1>4 DEF Named, IsFile
  <1>6. \A v \in OpenOn(i) : put[v].path = p
    BY <1>1, <1>2, <1>4 DEF OpenOn, Handlers
  <1>7. i = IF IsFile(p) THEN entry[p] ELSE w
    OBVIOUS
  <1> HIDE DEF i
  <1>8. Moved(w, "open", i, 0)
    BY <1>1, <1>2, <1>3, CreateMoves
  <1>9. Withdrawn(i)
    BY <1>1, <1>3, CreateWithdraws
  <1>10. Opens(w, i) /\ AtHome(w, i)
    BY <1>1, <1>2, <1>3, <1>4, <1>5, <1>6, <1>8, <1>9 DEF Opens, AtHome
  <1> QED  BY <1>1, <1>7, <1>10

LEMMA OpensKeeps ==
  ASSUME Core, NEW w \in Puts, NEW i \in Puts, Opens(w, i), AtHome(w, i)
  PROVE  Core'
  <1> USE DEF Core
  <1> DEFINE p == put[w].path
  <1>1. /\ put' \in [Puts -> PutStates] /\ get' \in [Gets -> GetStates]
        /\ \A v \in Puts : /\ put'[v].path = put[v].path
                           /\ v # w => put'[v] = put[v]
        /\ put'[w].phase = "open" /\ put'[w].inode = i /\ put'[w].off = 0
    BY DEF Opens, Moved, OtherPutsStay, Withdrawn
  <1>2. /\ entry' \in [Paths -> Puts \cup {NoEntry, Dir}]
        /\ \A q \in Paths : entry'[q] = IF q = p THEN i ELSE entry[q]
    BY DEF Opens, AtHome, TypeOK
  <1>3. /\ data' \in [Puts -> Seq(Blocks)] /\ data'[i] = <<>>
        /\ \A j \in Puts : j # i => data'[j] = data[j]
    <2>1. <<>> \in Seq(Blocks)
      OBVIOUS
    <2> QED  BY <2>1 DEF Opens, TypeOK
  <1>4. /\ writing' \in [Puts -> SUBSET Puts]
        /\ writing'[i] = writing[i] \cup {w}
        /\ \A j \in Puts : j # i => writing'[j] = writing[j]
    BY DEF Opens, TypeOK
  <1>5. TypeOK'
    BY <1>1, <1>2, <1>3, <1>4 DEF TypeOK
  <1>6. Begun(w)' /\ \A v \in Puts : Begun(v) => Begun(v)'
    BY <1>1 DEF Begun
  <1>7. \A v \in Puts : v # w => (Begun(v)' <=> Begun(v))
    BY <1>1 DEF Begun
  <1>8. Begun(i)'
    BY <1>6 DEF AtHome
  <1>9. \A j \in Puts : OpenOn(j)' = IF j = i THEN OpenOn(i) \cup {w} ELSE OpenOn(j)
    <2>1. \A j, v \in Puts :
            v \in OpenOn(j)' <=> IF v = w THEN j = i ELSE v \in OpenOn(j)
      BY <1>1 DEF OpenOn
    <2>2. \A j \in Puts : w \notin OpenOn(j)
      BY DEF OpenOn, AtHome, Begun
    <2>3. \A j \in Puts : OpenOn(j) \subseteq Puts /\ OpenOn(j)' \subseteq Puts
      BY DEF OpenOn
    <2> QED  BY <2>1, <2>2, <2>3
  <1>10. Named'
    <2> SUFFICES ASSUME NEW q \in Paths, entry'[q] \in Puts
                 PROVE  /\ put'[entry'[q]].phase \notin {"idle", "making"}
                        /\ put'[entry'[q]].path = q
      BY DEF Named, IsFile, Begun
    <2>1. CASE q = p
      BY <1>1, <1>2, <1>8, <2>1 DEF AtHome, Begun
    <2>2. CASE q # p
      BY <1>1, <1>2, <1>6, <2>2 DEF Named, IsFile, Begun
    <2> QED  BY <2>1, <2>2
  <1>11. Handlers'
    <2>1. ASSUME NEW v \in Puts
          PROVE  /\ put'[v].off <= Size[v]
                 /\ ~Begun(v)' => put'[v].off = 0
      BY <1>1, <1>6, <1>7, SizeType DEF Handlers
    <2>2. ASSUME NEW v \in Puts, put'[v].phase = "open"
          PROVE  /\ put'[v].inode \in Puts
                 /\ Begun(put[v].inode)' \/ v = w
                 /\ put'[put'[v].inode].path = put'[v].path
                 /\ v \in writing'[put'[v].inode]
      <3>1. CASE v = w
        BY <1>1, <1>4, <3>1 DEF AtHome
      <3>2. CASE v # w
        BY <1>1, <1>4, <1>6, <2>2, <3>2 DEF Handlers
      <3> QED  BY <3>1, <3>2
    <2>3. ASSUME NEW v \in Puts, put'[v].phase = "open"
          PROVE  put'[put'[v].inode].phase \notin {"idle", "making"}
      <3>1. CASE v = w
        BY <1>1, <1>8, <3>1 DEF Begun
      <3>2. CASE v # w
        BY <1>1, <2>3, <3>2 DEF Handlers, Begun
      <3> QED  BY <3>1, <3>2
    <2> QED  BY <2>1, <2>2, <2>3 DEF Handlers, Begun
  <1>12. Readers'
    <2>1. \A g \in Gets : /\ get'[g].path = get[g].path
                          /\ get'[g].phase = get[g].phase
                          /\ get'[g].inode = get[g].inode
                          /\ get'[g].buf = get[g].buf
                          /\ get'[g].seen \in {get[g].seen, Torn}
      BY DEF Opens, Withdrawn
    <2>2. \A g \in Gets : get[g].inode \in Puts =>
            put'[get[g].inode].phase \notin {"idle", "making"}
      BY <1>6 DEF Readers, Begun
    <2>3. \A g \in Gets : get[g].inode \in Puts =>
            put'[get[g].inode].path = get'[g].path
      BY <1>1, <2>1 DEF Readers
    <2>4. \A g \in Gets :
            /\ get[g].phase \in {"idle", "dir"} => get[g].inode = NoInode /\ get[g].buf = <<>>
            /\ get[g].phase = "open" => get[g].inode \in Puts
            /\ get[g].inode = NoInode => get[g].seen = Torn
      BY DEF Readers
    <2> QED  BY <2>1, <2>2, <2>3, <2>4 DEF Readers, Begun
  <1>13. Groups'
    <2>1. \A j \in Puts : \A v \in writing'[j] : Begun(v)'
      BY <1>4, <1>6 DEF Groups, TypeOK
    <2>2. \A j \in Puts : OpenOn(j)' = {} => writing'[j] = {}
      BY <1>4, <1>9 DEF Groups
    <2> QED  BY <2>1, <2>2 DEF Groups
  <1>14. Contents'
    <2> SUFFICES ASSUME NEW j \in Puts, OpenOn(j)' # {}
                 PROVE  Written(j)'
      BY DEF Contents
    <2>1. CASE j # i
      <3>1. Written(j)
        BY <1>9, <2>1 DEF Contents
      <3>2. \A v \in Puts : writing[j] = {v} => v # w
        BY DEF Groups, AtHome
      <3>3. data'[j] = data[j] /\ writing'[j] = writing[j]
        BY <1>3, <1>4, <2>1
      <3>4. \A v \in Puts : writing[j] = {v} => put'[v] = put[v]
        BY <1>1, <3>2
      <3> HIDE DEF Core
      <3> QED  BY <3>1, <3>3, <3>4 DEF Written
    <2>2. CASE j = i
      <3>1. \A v \in Puts : writing'[i] = {v} => v = w
        BY <1>4
      <3>2. <<>> = [k \in 1..0 |-> Block(w, k)] /\ 1..Len(<<>>) = {}
        OBVIOUS
      <3> QED  BY <1>1, <1>3, <2>2, <3>1, <3>2 DEF Written
    <2> QED  BY <2>1, <2>2
  <1>15. Copies'
    <2> SUFFICES ASSUME NEW g \in Gets, get'[g].seen # Torn
                 PROVE  /\ get'[g].phase = "open" => Promised(g)'
                        /\ get'[g].phase = "full" => get'[g].buf = Body(get'[g].seen)
      BY DEF Copies
    <2>1. /\ get'[g].phase = get[g].phase /\ get'[g].inode = get[g].inode
          /\ get'[g].buf = get[g].buf /\ get'[g].seen = get[g].seen
          /\ get[g].phase = "open" => get[g].inode # i
      BY DEF Opens, Withdrawn
    <2>2. CASE get[g].phase = "open"
      <3>1. get[g].inode \in Puts /\ Promised(g)
        BY <2>1, <2>2 DEF Readers, Copies
      <3> QED  BY <1>3, <1>9, <2>1, <2>2, <3>1 DEF Promised, Copied
    <2>3. CASE get[g].phase # "open"
      BY <2>1, <2>3 DEF Copies
    <2> QED  BY <2>2, <2>3
  <1> QED  BY <1>5, <1>10, <1>11, <1>12, <1>13, <1>14, <1>15

LEMMA CreateKeeps ==
  ASSUME NodeInv, NEW w \in Puts, Create(w)
  PROVE  NodeInv'
  <1>1. Core
    BY DEF NodeInv, Core
  <1>2. Core'
    BY <1>1, CreateOpens, OpensKeeps
  <1>3. TreeSound'
    BY CreateTree DEF NodeInv
  <1> QED  BY <1>2, <1>3 DEF NodeInv, Core

-----------------------------------------------------------------------------
(* io.Copy into the file: a block goes to its own place in an open inode. *)
LEMMA WriteStep ==
  ASSUME Core, NEW w \in Puts, Write(w)
  PROVE  /\ put[w].inode \in Puts /\ put[w].off + 1 \in Nat \ {0}
         /\ Block(w, put[w].off + 1) \in Blocks
         /\ Moved(w, "open", put[w].inode, put[w].off + 1)
         /\ w \in OpenOn(put[w].inode) /\ w \in writing[put[w].inode]
         /\ \A i : OpenOn(i)' = OpenOn(i)
         /\ data' \in [Puts -> Seq(Blocks)]
         /\ data'[put[w].inode] =
              WriteAt(data[put[w].inode], put[w].off + 1, Block(w, put[w].off + 1))
         /\ \A j \in Puts : j # put[w].inode => data'[j] = data[j]
  <1> USE DEF Core
  <1> DEFINE i == put[w].inode
             k == put[w].off + 1
  <1>1. /\ put[w].phase = "open" /\ i \in Puts /\ w \in writing[i]
        /\ k \in Nat \ {0}
    BY DEF Write, Handlers, TypeOK, PutStates
  <1>2. Block(w, k) \in Blocks
    BY <1>1 DEF Block, Blocks
  <1>3. Moved(w, "open", i, k)
    BY <1>1, WriteMoves DEF Write
  <1>4. \A j : OpenOn(j)' = OpenOn(j)
    BY <1>1, <1>3 DEF OpenOn, Moved, OtherPutsStay
  <1>5. data[i] \in Seq(Blocks)
    BY <1>1 DEF TypeOK
  <1>6. WriteAt(data[i], k, Block(w, k)) \in Seq(Blocks)
    <2> HIDE DEF Core, i, k
    <2> QED  BY <1>1, <1>2, <1>5, WriteAtType
  <1>7. data' = [data EXCEPT ![i] = WriteAt(data[i], k, Block(w, k))]
    BY DEF Write
  <1>8. w \in OpenOn(i)
    BY <1>1 DEF OpenOn
  <1> QED  BY <1>1, <1>2, <1>3, <1>4, <1>6, <1>7, <1>8 DEF TypeOK

LEMMA WriteContents ==
  ASSUME Core, NEW w \in Puts, Write(w)
  PROVE  Written(put[w].inode)'
  <1> USE DEF Core
  <1> DEFINE i == put[w].inode
             k == put[w].off + 1
             s == data[i]
             t == WriteAt(s, k, Block(w, k))
  <1>1. /\ i \in Puts /\ k \in Nat \ {0} /\ Block(w, k) \in Blocks
        /\ w \in OpenOn(i) /\ w \in writing[i]
        /\ data'[i] = t /\ UNCHANGED writing
        /\ put'[w].inode = i /\ put'[w].off = k
    BY WriteStep DEF Moved, Write
  <1>2. Written(i)
    BY <1>1 DEF Contents
  <1>3. s \in Seq(Blocks)
    BY <1>1 DEF TypeOK
  <1>4. /\ t \in Seq(Blocks)
        /\ Len(t) = IF Len(s) < k THEN k ELSE Len(s)
        /\ \A j \in 1..Len(t) : t[j] =
             IF j = k THEN Block(w, k) ELSE IF j <= Len(s) THEN s[j] ELSE Hole
    <2> HIDE DEF s, k
    <2> QED  BY <1>1, <1>3, WriteAtType
  <1> HIDE DEF t, s
  <1>5. ASSUME NEW j \in 1..Len(t)
        PROVE  t[j] = Hole \/ \E v \in writing[i] : t[j] = Block(v, j)
    <2>1. CASE j = k
      BY <1>1, <1>4, <2>1
    <2>2. CASE j # k /\ j \in 1..Len(s)
      BY <1>2, <1>4, <2>2 DEF Written, s
    <2>3. CASE j # k /\ j \notin 1..Len(s)
      <3>1. Len(s) \in Nat /\ Len(t) \in Nat
        BY <1>3, <1>4
      <3>2. ~(j <= Len(s))
        BY <2>3, <3>1
      <3> QED  BY <1>4, <2>3, <3>2
    <2> QED  BY <2>1, <2>2, <2>3
  <1>6. ASSUME NEW v \in Puts, writing[i] = {v}
        PROVE  t = [j \in 1..put'[v].off |-> Block(v, j)]
    <2>1. v = w
      BY <1>1, <1>6
    <2>2. s = [j \in 1..put[w].off |-> Block(w, j)] /\ put[w].off \in Nat
      BY <1>2, <1>6, <2>1 DEF Written, s, TypeOK, PutStates
    <2>3. Len(s) = put[w].off /\ \A j \in 1..put[w].off : s[j] = Block(w, j)
      BY <1>3, <2>2
    <2>4. Len(t) = k
      BY <1>1, <1>4, <2>2, <2>3
    <2>5. ASSUME NEW j \in 1..k PROVE t[j] = Block(w, j)
      <3>1. CASE j = k
        BY <1>4, <2>4, <3>1
      <3>2. CASE j # k
        <4>1. j \in 1..put[w].off /\ j <= Len(s)
          BY <2>2, <2>3, <3>2
        <4> QED  BY <1>4, <2>3, <2>4, <3>2, <4>1
      <3> QED  BY <3>1, <3>2
    <2>6. t = [j \in 1..Len(t) |-> t[j]]
      BY <1>4
    <2> HIDE DEF k
    <2> QED  BY <1>1, <2>1, <2>4, <2>5, <2>6
  <1> QED  BY <1>1, <1>5, <1>6 DEF Written

LEMMA WriteKeeps ==
  ASSUME NodeInv, NEW w \in Puts, Write(w)
  PROVE  NodeInv'
  <1> USE DEF NodeInv
  <1> DEFINE i == put[w].inode
             k == put[w].off + 1
  <1>0. Core
    BY DEF Core
  <1>1. /\ i \in Puts /\ w \in OpenOn(i) /\ w \in writing[i]
        /\ Moved(w, "open", i, k)
        /\ data' \in [Puts -> Seq(Blocks)]
        /\ \A j : OpenOn(j)' = OpenOn(j)
        /\ \A j \in Puts : j # i => data'[j] = data[j]
    BY <1>0, WriteStep
  <1>2. k <= Size[w] /\ UNCHANGED <<entry, get, writing>>
    BY DEF Write
  <1>3. /\ put' \in [Puts -> PutStates]
        /\ \A v \in Puts : /\ put'[v].path = put[v].path
                           /\ put'[v].inode = put[v].inode
                           /\ put'[v].phase = put[v].phase
                           /\ v # w => put'[v].off = put[v].off
        /\ put[w].phase = "open" /\ put'[w].off = k
    BY <1>1 DEF Moved, OtherPutsStay, Write
  <1>4. TypeOK'
    BY <1>1, <1>2, <1>3 DEF TypeOK
  <1>5. Begun(w) /\ \A v \in Puts : Begun(v)' <=> Begun(v)
    BY <1>3 DEF Begun
  <1>6. TreeSound'
    BY <1>2 DEF TreeSound, HasDirs
  <1>7. Named'
    BY <1>2, <1>3 DEF Named, IsFile, Begun
  <1>8. Handlers'
    BY <1>2, <1>3 DEF Handlers, Begun
  <1>9. Readers'
    BY <1>2, <1>3 DEF Readers, Begun
  <1>10. Groups'
    BY <1>1, <1>2, <1>5 DEF Groups, TypeOK
  <1>11. Contents'
    <2> SUFFICES ASSUME NEW j \in Puts, OpenOn(j)' # {}
                 PROVE  Written(j)'
      BY DEF Contents
    <2>1. CASE j = i
      <3>1. Written(i)'
        BY <1>0, WriteContents
      <3>2. i' = i
        BY <1>3
      <3> QED  BY <2>1, <3>1, <3>2 DEF Written
    <2>2. CASE j # i
      <3>1. OpenOn(j) # {} /\ Written(j)
        BY <1>1 DEF Contents
      <3>2. \A v \in Puts : writing[j] = {v} => v # w
        <4> SUFFICES ASSUME writing[j] = {w} PROVE FALSE
          OBVIOUS
        <4>1. PICK v \in Puts : v \in OpenOn(j)
          BY <3>1 DEF OpenOn
        <4>2. v \in writing[j] /\ put[v].inode = j
          BY <4>1 DEF Handlers, OpenOn
        <4> QED  BY <2>2, <4>2
      <3> QED  BY <1>1, <1>2, <1>3, <2>2, <3>1, <3>2 DEF Written
    <2> QED  BY <2>1, <2>2
  <1>12. Copies'
    <2> SUFFICES ASSUME NEW g \in Gets, get[g].seen # Torn, get[g].phase = "open"
                 PROVE  Promised(g)'
      BY <1>2 DEF Copies
    <2>1. get[g].inode \in Puts /\ Promised(g)
      BY DEF Copies, Readers
    <2>2. get[g].inode # i
      BY <1>1, <2>1 DEF Promised
    <2> QED  BY <1>1, <1>2, <2>1, <2>2 DEF Promised, Copied
  <1> QED  BY <1>4, <1>6, <1>7, <1>8, <1>9, <1>10, <1>11, <1>12

(* The last close leaves nobody in the group; any other close takes one    *)
(* handler away and leaves the rest to the others.                         *)
LEMMA CloseStep ==
  ASSUME Core, NEW w \in Puts, NEW outcome \in {"stored", "failed"},
         ClosePut(w, outcome)
  PROVE  /\ put[w].inode \in Puts /\ w \in OpenOn(put[w].inode)
         /\ Moved(w, outcome, put[w].inode, put[w].off)
         /\ \A j \in Puts : OpenOn(j)' = OpenOn(j) \ {w}
         /\ \A j \in Puts : j # put[w].inode => OpenOn(j)' = OpenOn(j)
         /\ writing' \in [Puts -> SUBSET Puts]
         /\ writing'[put[w].inode] = IF OpenOn(put[w].inode) = {w} THEN {}
                                     ELSE writing[put[w].inode]
         /\ \A j \in Puts : j # put[w].inode => writing'[j] = writing[j]
  <1> USE DEF Core
  <1> DEFINE i == put[w].inode
  <1>1. put[w].phase = "open" /\ i \in Puts
    BY DEF ClosePut, Handlers
  <1>2. Moved(w, outcome, i, put[w].off)
    BY PhaseMoves DEF ClosePut
  <1>3. w \in OpenOn(i) /\ \A j : j # i => w \notin OpenOn(j)
    BY <1>1 DEF OpenOn
  <1>4. \A j, v : v \in OpenOn(j)' <=> v # w /\ v \in OpenOn(j)
    <2> TAKE j, v
    <2>1. CASE v = w
      BY <1>2, <2>1 DEF OpenOn, Moved
    <2>2. CASE v # w
      BY <1>2, <2>2 DEF OpenOn, Moved, OtherPutsStay
    <2> QED  BY <2>1, <2>2
  <1>5. \A j \in Puts : OpenOn(j)' = OpenOn(j) \ {w}
    BY <1>4
  <1>6. \A j \in Puts : j # i => OpenOn(j)' = OpenOn(j)
    BY <1>3, <1>4
  <1>7. /\ writing' \in [Puts -> SUBSET Puts]
        /\ writing'[i] = IF OpenOn(i) = {w} THEN {} ELSE writing[i]
        /\ \A j \in Puts : j # i => writing'[j] = writing[j]
    BY <1>1 DEF ClosePut, TypeOK
  <1> QED  BY <1>1, <1>2, <1>3, <1>5, <1>6, <1>7

LEMMA CloseKeeps ==
  ASSUME NodeInv, NEW w \in Puts, NEW outcome \in {"stored", "failed"},
         ClosePut(w, outcome)
  PROVE  NodeInv'
  <1> USE DEF NodeInv
  <1> DEFINE i == put[w].inode
  <1>0. Core
    BY DEF Core
  <1>1. /\ i \in Puts /\ w \in OpenOn(i)
        /\ Moved(w, outcome, i, put[w].off)
        /\ \A j \in Puts : OpenOn(j)' = OpenOn(j) \ {w}
        /\ \A j \in Puts : j # i => OpenOn(j)' = OpenOn(j)
        /\ writing' \in [Puts -> SUBSET Puts]
        /\ writing'[i] = IF OpenOn(i) = {w} THEN {} ELSE writing[i]
        /\ \A j \in Puts : j # i => writing'[j] = writing[j]
    BY <1>0, CloseStep
  <1>2. put[w].phase = "open" /\ UNCHANGED <<entry, data, get>>
    BY DEF ClosePut
  <1>3. /\ put' \in [Puts -> PutStates]
        /\ \A v \in Puts : /\ put'[v].path = put[v].path
                           /\ put'[v].inode = put[v].inode
                           /\ put'[v].off = put[v].off
                           /\ v # w => put'[v] = put[v]
        /\ put'[w].phase = outcome
    BY <1>1 DEF Moved, OtherPutsStay
  <1>4. TypeOK'
    BY <1>1, <1>2, <1>3 DEF TypeOK
  <1>5. \A v \in Puts : Begun(v)' <=> Begun(v)
    BY <1>2, <1>3 DEF Begun
  <1>6. TreeSound'
    BY <1>2 DEF TreeSound, HasDirs
  <1>7. Named'
    <2> SUFFICES ASSUME NEW q \in Paths, entry[q] \in Puts
                 PROVE  /\ put'[entry[q]].phase \notin {"idle", "making"}
                        /\ put'[entry[q]].path = q
      BY <1>2 DEF Named, IsFile, Begun
    <2> QED  BY <1>3, <1>5 DEF Named, IsFile, Begun
  <1>8. Handlers'
    <2>1. ASSUME NEW v \in Puts
          PROVE  put'[v].off <= Size[v] /\ (~Begun(v)' => put'[v].off = 0)
      BY <1>3, <1>5 DEF Handlers
    <2>2. ASSUME NEW v \in Puts, put'[v].phase = "open"
          PROVE  /\ put'[v].inode \in Puts
                 /\ put'[put'[v].inode].phase \notin {"idle", "making"}
                 /\ put'[put'[v].inode].path = put'[v].path
      <3>1. v # w /\ put[v].phase = "open"
        BY <1>3, <2>2
      <3> QED  BY <1>3, <1>5, <3>1 DEF Handlers, Begun
    <2>3. ASSUME NEW v \in Puts, put'[v].phase = "open"
          PROVE  v \in writing'[put'[v].inode]
      <3>1. v # w /\ put[v].phase = "open"
        BY <1>3, <2>3
      <3>2. put[v].inode \in Puts /\ v \in writing[put[v].inode]
        BY <3>1 DEF Handlers
      <3>3. v \in OpenOn(put[v].inode)
        BY <3>1 DEF OpenOn
      <3> QED  BY <1>1, <1>3, <3>1, <3>2, <3>3
    <2> QED  BY <2>1, <2>2, <2>3 DEF Handlers, Begun
  <1>9. Readers'
    <2>1. \A g \in Gets : get[g].inode \in Puts =>
            /\ put'[get[g].inode].phase \notin {"idle", "making"}
            /\ put'[get[g].inode].path = get[g].path
      BY <1>3, <1>5 DEF Readers, Begun
    <2> QED  BY <1>2, <2>1 DEF Readers, Begun
  <1>10. Groups'
    <2>1. \A j \in Puts : \A v \in writing'[j] : Begun(v)'
      BY <1>1, <1>5 DEF Groups, TypeOK
    <2>2. ASSUME OpenOn(i) # {w} PROVE OpenOn(i)' # {}
      <3>1. PICK v \in OpenOn(i) : v # w
        BY <1>1, <2>2
      <3>2. v \in OpenOn(i) \ {w}
        BY <3>1
      <3> QED  BY <1>1, <1>3, <3>2
    <2>3. \A j \in Puts : OpenOn(j)' = {} => writing'[j] = {}
      BY <1>1, <2>2 DEF Groups
    <2> QED  BY <2>1, <2>3 DEF Groups
  <1>11. Contents'
    <2> SUFFICES ASSUME NEW j \in Puts, OpenOn(j)' # {}
                 PROVE  Written(j)'
      BY DEF Contents
    <2>1. OpenOn(j) # {} /\ Written(j)
      BY <1>1 DEF Contents
    <2>2. writing'[j] = writing[j]
      BY <1>1
    <2> QED  BY <1>2, <1>3, <2>1, <2>2 DEF Written
  <1>12. Copies'
    <2> SUFFICES ASSUME NEW g \in Gets, get[g].seen # Torn, get[g].phase = "open"
                 PROVE  Promised(g)'
      BY <1>2 DEF Copies
    <2>1. get[g].inode \in Puts /\ Promised(g)
      BY DEF Copies, Readers
    <2> QED  BY <1>1, <1>2, <2>1 DEF Promised, Copied
  <1> QED  BY <1>4, <1>6, <1>7, <1>8, <1>9, <1>10, <1>11, <1>12

(* os.Remove takes a name away, and no inode. *)
LEMMA DeleteKeeps ==
  ASSUME NodeInv, NEW p \in Paths, Delete(p)
  PROVE  NodeInv'
  <1> USE DEF NodeInv
  <1>1. /\ entry' = [entry EXCEPT ![p] = NoEntry]
        /\ UNCHANGED <<data, put, get, writing>>
    BY DEF Delete
  <1>2. TypeOK'
    BY <1>1 DEF TypeOK
  <1>3. Named'
    BY <1>1, Names DEF Named, IsFile, Begun, TypeOK
  <1>4. Handlers' /\ Readers'
    BY <1>1 DEF Handlers, Readers, Begun
  <1>5. Groups' /\ Contents' /\ Copies'
    BY <1>1 DEF Groups, Contents, Written, Copies, Promised, Copied, OpenOn, Begun
  <1>6. TreeSound'
    BY DeleteTree
  <1> QED  BY <1>2, <1>3, <1>4, <1>5, <1>6

-----------------------------------------------------------------------------
(* os.Open: whoever finds the file settled is promised its body. *)
LEMMA OpenGetStep ==
  ASSUME TypeOK, NEW g \in Gets, OpenGet(g)
  PROVE  LET p == get[g].path
             i == entry[p]
         IN  /\ p \in Paths /\ get[g].phase = "idle"
             /\ UNCHANGED <<entry, data, put, writing>>
             /\ IsFile(p) =>
                  Got(g, "open", i, get[g].buf,
                      IF OpenOn(i) = {} THEN BodyIn(i) ELSE Torn)
             /\ ~IsFile(p) => \E ph \in {"dir", "failed"} :
                  Got(g, ph, get[g].inode, get[g].buf, get[g].seen)
  <1> DEFINE p == get[g].path
             i == entry[p]
             s == IF OpenOn(i) = {} THEN BodyIn(i) ELSE Torn
  <1>1. p \in Paths
    BY DEF TypeOK, GetStates
  <1>2. ASSUME IsFile(p) PROVE Got(g, "open", i, get[g].buf, s)
    <2>1. i \in Puts
      BY <1>2 DEF IsFile
    <2>2. s \in Puts \cup {Torn}
      BY BodyInType
    <2>3. get' = [get EXCEPT ![g] = [get[g] EXCEPT !.phase = "open", !.inode = i,
                                                   !.seen = s]]
      BY <1>2 DEF OpenGet
    <2> HIDE DEF i, s
    <2> QED  BY <2>1, <2>2, <2>3, OpenGot
  <1>3. ASSUME ~IsFile(p)
        PROVE  \E ph \in {"dir", "failed"} :
                 Got(g, ph, get[g].inode, get[g].buf, get[g].seen)
    <2> DEFINE ph == IF entry[p] = Dir THEN "dir" ELSE "failed"
    <2>1. ph \in {"dir", "failed"}
      OBVIOUS
    <2>2. get' = [get EXCEPT ![g] = [get[g] EXCEPT !.phase = ph]]
      BY <1>3 DEF OpenGet
    <2> HIDE DEF ph
    <2> QED  BY <2>1, <2>2, PhaseGot
  <1> QED  BY <1>1, <1>2, <1>3 DEF OpenGet

(* Whatever a GET does, it leaves the node alone: what is to be shown is   *)
(* about the GET.                                                          *)
LEMMA GetKeeps ==
  ASSUME NodeInv, NEW g \in Gets, NEW ph, NEW i, NEW buf, NEW s,
         Got(g, ph, i, buf, s), UNCHANGED <<entry, data, put, writing>>,
         ph \in {"idle", "dir"} => i = NoInode /\ buf = <<>>,
         ph = "open" => i \in Puts,
         i = NoInode => s = Torn,
         i \in Puts => Begun(i) /\ put[i].path = get[g].path,
         s # Torn /\ ph = "open" =>
           /\ OpenOn(i) = {} /\ data[i] = Body(s)
           /\ Len(buf) <= Size[s]
           /\ \A k \in 1..Len(buf) : buf[k] = Block(s, k),
         s # Torn /\ ph = "full" => buf = Body(s)
  PROVE  NodeInv'
  <1> USE DEF NodeInv
  <1>1. TypeOK'
    BY DEF TypeOK, Got
  <1>2. Named' /\ Handlers' /\ TreeSound'
    BY DEF Named, IsFile, Handlers, Begun, TreeSound, HasDirs
  <1>3. Groups' /\ Contents'
    BY DEF Groups, Contents, Written, OpenOn, Begun
  <1>4. \A h \in Gets : h # g => get'[h] = get[h]
    BY DEF Got, OtherGetsStay
  <1>5. /\ get'[g].path = get[g].path /\ get'[g].phase = ph /\ get'[g].inode = i
        /\ get'[g].buf = buf /\ get'[g].seen = s
    BY DEF Got
  <1>6. Readers'
    BY <1>4, <1>5 DEF Readers, Begun
  <1>7. Copies'
    <2>1. \A j : OpenOn(j)' = OpenOn(j)
      BY DEF OpenOn
    <2>2. ASSUME NEW h \in Gets, h # g, get[h].seen # Torn
          PROVE  /\ get[h].phase = "open" => Promised(h)'
                 /\ get[h].phase = "full" => get[h].buf = Body(get[h].seen)
      BY <1>4, <2>1, <2>2 DEF Copies, Promised, Copied
    <2>3. ASSUME s # Torn
          PROVE  /\ ph = "open" => Promised(g)'
                 /\ ph = "full" => buf = Body(s)
      BY <1>5, <2>1, <2>3 DEF Promised, Copied
    <2> QED  BY <1>4, <1>5, <2>2, <2>3 DEF Copies
  <1> QED  BY <1>1, <1>2, <1>3, <1>6, <1>7

LEMMA OpenGetKeeps ==
  ASSUME NodeInv, NEW g \in Gets, OpenGet(g)
  PROVE  NodeInv'
  <1> USE DEF NodeInv
  <1> DEFINE p == get[g].path
             i == entry[p]
             s == IF OpenOn(i) = {} THEN BodyIn(i) ELSE Torn
  <1>1. /\ p \in Paths /\ get[g].phase = "idle"
        /\ UNCHANGED <<entry, data, put, writing>>
    BY OpenGetStep
  <1>2. /\ get[g].inode = NoInode /\ get[g].buf = <<>> /\ get[g].seen = Torn
    BY <1>1 DEF Readers
  <1>3. CASE IsFile(p)
    <2>1. Got(g, "open", i, get[g].buf, s)
      BY <1>3, OpenGetStep
    <2>2. i \in Puts /\ Begun(i) /\ put[i].path = p
      BY <1>1, <1>3 DEF Named, IsFile
    <2>3. ASSUME s # Torn
          PROVE  /\ OpenOn(i) = {} /\ data[i] = Body(s)
                 /\ s \in Puts
      <3>1. OpenOn(i) = {} /\ s = BodyIn(i) /\ s \in Puts
        BY <2>3, BodyInType
      <3> HIDE DEF s, i
      <3> QED  BY <2>2, <3>1, BodyInIs
    <2>4. /\ Len(get[g].buf) = 0
          /\ \A k \in 1..Len(get[g].buf) : get[g].buf[k] = Block(s, k)
      BY <1>2
    <2>5. s # Torn => Len(get[g].buf) <= Size[s]
      BY <2>3, <2>4, SizeType
    <2>6. i # NoInode
      BY <2>2, Names
    <2> HIDE DEF i, s
    <2> QED  BY <1>1, <1>2, <2>1, <2>2, <2>3, <2>4, <2>5, <2>6, GetKeeps
  <1>4. CASE ~IsFile(p)
    <2>1. PICK ph \in {"dir", "failed"} :
            Got(g, ph, get[g].inode, get[g].buf, get[g].seen)
      BY <1>4, OpenGetStep
    <2> QED  BY <1>1, <1>2, <2>1, Names, GetKeeps
  <1> QED  BY <1>3, <1>4

(* One block more, in the order of the body. *)
LEMMA BlockKeeps ==
  ASSUME NodeInv, NEW g \in Gets, get[g].phase = "open",
         Len(get[g].buf) + 1 <= Len(data[get[g].inode]),
         get' = [get EXCEPT ![g].buf =
                   Append(@, data[get[g].inode][Len(get[g].buf) + 1])],
         UNCHANGED <<entry, data, put, writing>>
  PROVE  NodeInv'
  <1> USE DEF NodeInv
  <1> DEFINE i == get[g].inode
             buf == get[g].buf
             n == Len(buf) + 1
             b == data[i][n]
             s == get[g].seen
  <1>1. i \in Puts /\ Begun(i) /\ put[i].path = get[g].path /\ i # NoInode
    BY Names DEF Readers
  <1>2. buf \in Seq(Blocks) /\ data[i] \in Seq(Blocks) /\ s \in Puts \cup {Torn}
    BY <1>1 DEF TypeOK, GetStates
  <1>3. n \in 1..Len(data[i]) /\ b \in Blocks
    BY <1>2
  <1>4. Got(g, "open", i, Append(buf, b), s)
    BY <1>3, BlockGot
  <1>5. /\ Len(Append(buf, b)) = n /\ Append(buf, b)[n] = b
        /\ \A k \in 1..Len(buf) : Append(buf, b)[k] = buf[k]
        /\ 1..n = 1..Len(buf) \cup {n}
    BY <1>2, <1>3
  <1>6. ASSUME s # Torn
        PROVE  /\ OpenOn(i) = {} /\ data[i] = Body(s)
               /\ n <= Size[s]
               /\ \A k \in 1..n : Append(buf, b)[k] = Block(s, k)
    <2>1. OpenOn(i) = {} /\ data[i] = Body(s) /\ s \in Puts
          /\ \A k \in 1..Len(buf) : buf[k] = Block(s, k)
      BY <1>2, <1>6 DEF Copies, Promised, Copied
    <2>2. n \in 1..Size[s] /\ b = Block(s, n)
      BY <1>3, <2>1, BodyType
    <2>3. n <= Size[s]
      BY <2>1, <2>2, SizeType
    <2> HIDE DEF n, b, buf
    <2> QED  BY <1>5, <2>1, <2>2, <2>3
  <1> HIDE DEF n, b
  <1> QED  BY <1>1, <1>4, <1>5, <1>6, GetKeeps

(* The end of the file: what has been sent is the promised body. *)
LEMMA FullKeeps ==
  ASSUME NodeInv, NEW g \in Gets, get[g].phase = "open",
         Len(get[g].buf) + 1 > Len(data[get[g].inode]),
         get' = [get EXCEPT ![g].phase = "full"],
         UNCHANGED <<entry, data, put, writing>>
  PROVE  NodeInv'
  <1> USE DEF NodeInv
  <1> DEFINE i == get[g].inode
             buf == get[g].buf
             s == get[g].seen
  <1>1. i \in Puts /\ Begun(i) /\ put[i].path = get[g].path /\ i # NoInode
    BY Names DEF Readers
  <1>2. buf \in Seq(Blocks) /\ s \in Puts \cup {Torn}
    BY DEF TypeOK, GetStates
  <1>3. Got(g, "full", i, buf, s)
    BY PhaseGot
  <1>4. ASSUME s # Torn PROVE buf = Body(s)
    <2>1. /\ data[i] = Body(s) /\ s \in Puts /\ Len(buf) <= Size[s]
          /\ \A k \in 1..Len(buf) : buf[k] = Block(s, k)
      BY <1>2, <1>4 DEF Copies, Promised, Copied
    <2>2. Len(buf) = Size[s]
      BY <1>2, <2>1, BodyType, SizeType
    <2>3. buf = [k \in 1..Len(buf) |-> buf[k]]
      BY <1>2
    <2> QED  BY <2>1, <2>2, <2>3 DEF Body
  <1> QED  BY <1>1, <1>3, <1>4, GetKeeps

LEMMA ReadKeeps ==
  ASSUME NodeInv, NEW g \in Gets, Read(g)
  PROVE  NodeInv'
  <1>1. CASE /\ get[g].phase = "open"
             /\ Len(get[g].buf) + 1 <= Len(data[get[g].inode])
             /\ get' = [get EXCEPT ![g].buf =
                          Append(@, data[get[g].inode][Len(get[g].buf) + 1])]
    BY <1>1, BlockKeeps DEF Read
  <1>2. CASE /\ get[g].phase = "open"
             /\ Len(get[g].buf) + 1 > Len(data[get[g].inode])
             /\ get' = [get EXCEPT ![g].phase = "full"]
    BY <1>2, FullKeeps DEF Read
  <1>3. CASE get[g].phase = "dir" /\ get' = [get EXCEPT ![g].phase = "empty"]
    <2>1. Got(g, "empty", get[g].inode, get[g].buf, get[g].seen)
      BY <1>3, PhaseGot DEF NodeInv
    <2>2. get[g].inode = NoInode /\ get[g].seen = Torn
      BY <1>3 DEF NodeInv, Readers
    <2> QED  BY <2>1, <2>2, Names, GetKeeps DEF Read
  <1> QED  BY <1>1, <1>2, <1>3 DEF Read

LEMMA CutKeeps ==
  ASSUME NodeInv, NEW g \in Gets, CutGet(g)
  PROVE  NodeInv'
  <1>1. Got(g, "cut", get[g].inode, get[g].buf, get[g].seen)
    BY PhaseGot DEF CutGet, NodeInv
  <1>2. /\ get[g].inode = NoInode => get[g].seen = Torn
        /\ get[g].inode \in Puts =>
             Begun(get[g].inode) /\ put[get[g].inode].path = get[g].path
    BY DEF NodeInv, Readers
  <1> QED  BY <1>1, <1>2, GetKeeps DEF CutGet

LEMMA StutterKeeps == NodeInv /\ UNCHANGED vars => NodeInv'
  <1> SUFFICES ASSUME NodeInv, UNCHANGED vars PROVE NodeInv'
    OBVIOUS
  <1> USE DEF NodeInv, vars
  <1>1. TypeOK' /\ Named' /\ TreeSound'
    BY DEF TypeOK, Named, IsFile, Begun, TreeSound, HasDirs
  <1>2. Handlers' /\ Readers'
    BY DEF Handlers, Readers, Begun
  <1>3. Groups' /\ Contents'
    BY DEF Groups, Contents, Written, OpenOn, Begun
  <1>4. Copies'
    BY DEF Copies, Promised, Copied, OpenOn
  <1> QED  BY <1>1, <1>2, <1>3, <1>4

LEMMA NextInv == NodeInv /\ [Next]_vars => NodeInv'
  <1> SUFFICES ASSUME NodeInv, [Next]_vars PROVE NodeInv'
    OBVIOUS
  <1>1. ASSUME NEW w \in Puts, PutStep(w) \/ RefusePut(w) PROVE NodeInv'
    BY <1>1, LookKeeps, RefusalKeeps, CreateKeeps, WriteKeeps, CloseKeeps
       DEF PutStep
  <1>2. ASSUME NEW p \in Paths, Delete(p) PROVE NodeInv'
    BY <1>2, DeleteKeeps
  <1>3. ASSUME NEW g \in Gets, OpenGet(g) \/ Read(g) \/ CutGet(g) PROVE NodeInv'
    BY <1>3, OpenGetKeeps, ReadKeeps, CutKeeps
  <1>4. CASE Answered \/ UNCHANGED vars
    BY <1>4, StutterKeeps DEF Answered
  <1> QED  BY <1>1, <1>2, <1>3, <1>4 DEF Next

(* The inductive invariant: homes of inodes, groups of open handlers, what *)
(* the blocks of an open file are, and what a GET has been promised.       *)
THEOREM NodeInvariant == Spec => []NodeInv
  BY InitInv, NextInv, PTL DEF Spec

(* Whatever handlers do at the same time, entries name inodes or           *)
(* directories, open handlers hold inodes and files are sequences of blocks. *)
THEOREM TypeCorrect == Spec => []TypeOK
  <1>1. NodeInv => TypeOK
    BY DEF NodeInv
  <1> QED  BY <1>1, NodeInvariant, PTL

(* No order of mkdir, os.Create and os.Remove, of however many handlers,    *)
(* leaves a file or directory below a file or below a missing directory.    *)
THEOREM TreeStaysSound == Spec => []TreeSound
  <1>1. NodeInv => TreeSound
    BY DEF NodeInv
  <1> QED  BY <1>1, NodeInvariant, PTL

(* A GET that found a settled body and met no PUT sends exactly that body, *)
(* whatever becomes of the file's name meanwhile.                          *)
THEOREM GetsStayIntact == Spec => []GetIntact
  <1>1. NodeInv => GetIntact
    BY DEF NodeInv, Copies, GetIntact
  <1> QED  BY <1>1, NodeInvariant, PTL

-----------------------------------------------------------------------------
(* The refinement.  What the register at path p sees of a state: the file, *)
(* the phase of each PUT and how far each GET is.                          *)
FileStays(p) == FileAt(p)' = FileAt(p)
PhasesStay(p) == \A w \in Puts : PhaseAt(p, w)' = PhaseAt(p, w)
ReadsStay(p) == \A g \in Gets : ReadAt(p, g)' = ReadAt(p, g)

LEMMA Stutters ==
  ASSUME NEW p \in Paths, FileStays(p), PhasesStay(p), ReadsStay(p)
  PROVE  UNCHANGED Reg(p)!vars
  BY DEF FileStays, PhasesStay, ReadsStay, Reg!vars

LEMMA FileFields ==
  ASSUME NEW p \in Paths
  PROVE  /\ IsFile(p) =>
              FileAt(p) = [content |-> IF OpenOn(entry[p]) # {} THEN Torn
                                       ELSE BodyIn(entry[p]),
                           group |-> writing[entry[p]]]
         /\ ~IsFile(p) => FileAt(p) = [content |-> NoEntry, group |-> {}]
         /\ (FileAt(p).content = NoEntry) <=> ~IsFile(p)
  BY BodyInType, Names DEF FileAt

LEMMA FileStaysIf ==
  ASSUME NEW p \in Paths, IsFile(p)' <=> IsFile(p),
         IsFile(p) => /\ entry'[p] = entry[p]
                      /\ OpenOn(entry[p])' = {} <=> OpenOn(entry[p]) = {}
                      /\ OpenOn(entry[p]) = {} => data'[entry[p]] = data[entry[p]]
                      /\ writing'[entry[p]] = writing[entry[p]]
  PROVE  FileStays(p)
  <1>1. CASE IsFile(p)
    <2>1. FileAt(p)' = [content |-> IF OpenOn(entry[p])' # {} THEN Torn
                                    ELSE BodyIn(entry[p])',
                        group |-> writing'[entry'[p]]]
      BY <1>1 DEF FileAt
    <2>2. OpenOn(entry[p]) = {} => BodyIn(entry[p])' = BodyIn(entry[p])
      BY <1>1 DEF BodyIn, Body, Block
    <2> QED  BY <1>1, <2>1, <2>2 DEF FileStays, FileAt
  <1>2. CASE ~IsFile(p)
    BY <1>2 DEF FileStays, FileAt
  <1> QED  BY <1>1, <1>2

LEMMA PhaseStaysIf ==
  ASSUME NEW p \in Paths, NEW w \in Puts, put'[w] = put[w],
         put[w].phase = "open" =>
           (put[w].inode = entry'[p] <=> put[w].inode = entry[p])
  PROVE  PhaseAt(p, w)' = PhaseAt(p, w)
  BY DEF PhaseAt

LEMMA ReadStaysIf ==
  ASSUME NEW p \in Paths, NEW g \in Gets, get'[g] = get[g],
         get[g].phase = "open" =>
           (get[g].inode = entry'[p] <=> get[g].inode = entry[p])
  PROVE  ReadAt(p, g)' = ReadAt(p, g)
  BY DEF ReadAt

(* The inode a handler has open is a file's, never a directory's. *)
LEMMA OpenInodes ==
  ASSUME Core
  PROVE  /\ \A w \in Puts : put[w].phase = "open" => put[w].inode \in Puts
         /\ \A g \in Gets : get[g].phase = "open" => get[g].inode \in Puts
  BY DEF Core, Handlers, Readers

LEMMA InitRefines ==
  ASSUME Init, NEW p \in Paths
  PROVE  Reg(p)!Init
  <1> USE DEF Init
  <1>1. \A w \in Puts : put[w].phase = "idle"
    OBVIOUS
  <1>2. \A g \in Gets : get[g].inode = NoInode /\ get[g].seen = Torn
    <2> TAKE g \in Gets
    <2>1. PICK q \in Asked :
            get[g] = [phase |-> "idle", path |-> q, inode |-> NoInode,
                      buf |-> <<>>, seen |-> Torn]
      OBVIOUS
    <2> QED  BY <2>1
  <1>3. FileAt(p) = [content |-> NoEntry, group |-> {}]
    BY Names DEF FileAt, IsFile
  <1>4. \A w \in Puts : PhaseAt(p, w) = "idle"
    BY <1>1 DEF PhaseAt
  <1>5. \A g \in Gets : ReadAt(p, g) = [phase |-> "idle", seen |-> Torn]
    BY <1>2 DEF ReadAt
  <1> QED  BY <1>3, <1>4, <1>5 DEF Reg!Init, Reg!NoFile

(* A PUT that ends before os.Create is refused at its path; nothing else   *)
(* before os.Create is seen anywhere.                                      *)
LEMMA EarlyRefines ==
  ASSUME Core, NEW w \in Puts, ~Begun(w), NEW ph \in {"idle", "making", "failed"},
         Moved(w, ph, put[w].inode, put[w].off), FilesStay,
         UNCHANGED <<data, get, writing>>, NEW p \in Paths
  PROVE  UNCHANGED Reg(p)!vars \/ Reg(p)!Next
  <1>1. put'[w].path = put[w].path /\ put'[w].phase = ph
        /\ \A v \in Puts : v # w => put'[v] = put[v]
    BY DEF Moved, OtherPutsStay
  <1>2. \A i : OpenOn(i)' = OpenOn(i)
    BY <1>1 DEF OpenOn, Begun
  <1>3. /\ IsFile(p)' <=> IsFile(p)
        /\ IsFile(p) => entry'[p] = entry[p]
        /\ \A i \in Puts : i = entry'[p] <=> i = entry[p]
    BY DEF FilesStay, IsFile
  <1>4. FileStays(p)
    <2>1. IsFile(p) => OpenOn(entry[p])' = OpenOn(entry[p])
      BY <1>1, <1>3 DEF OpenOn, Begun
    <2> QED  BY <1>3, <2>1, FileStaysIf
  <1>5. ReadsStay(p)
    BY <1>3, OpenInodes, ReadStaysIf DEF ReadsStay
  <1>6. \A v \in Puts : v # w => PhaseAt(p, v)' = PhaseAt(p, v)
    BY <1>1, <1>3, OpenInodes, PhaseStaysIf
  <1>7. PhaseAt(p, w) = "idle"
    BY DEF PhaseAt, Begun
  <1>8. CASE put[w].path = p /\ ph = "failed"
    <2>1. PhaseAt(p, w)' = "failed"
      BY <1>1, <1>8 DEF PhaseAt
    <2>2. Reg(p)!Reject(w)
      BY <1>4, <1>5, <1>6, <1>7, <2>1 DEF Reg!Reject, FileStays, ReadsStay
    <2> QED  BY <2>2 DEF Reg!Next
  <1>9. CASE put[w].path # p \/ ph # "failed"
    <2>1. PhaseAt(p, w)' = "idle"
      BY <1>1, <1>9 DEF PhaseAt
    <2>2. PhasesStay(p)
      BY <1>6, <1>7, <2>1 DEF PhasesStay
    <2> QED  BY <1>4, <1>5, <2>2, Stutters
  <1> QED  BY <1>8, <1>9

(* os.Create is the register's Create at its path, and nothing elsewhere.  *)
LEMMA CreateRefines ==
  ASSUME Core, NEW w \in Puts, NEW i \in Puts, Opens(w, i), AtHome(w, i),
         i = IF IsFile(put[w].path) THEN entry[put[w].path] ELSE w,
         NEW p \in Paths
  PROVE  UNCHANGED Reg(p)!vars \/ Reg(p)!Next
  <1> DEFINE q == put[w].path
  <1>1. /\ q \in Paths
        /\ \A v \in Puts : v # w => put'[v] = put[v]
        /\ put'[w].path = q /\ put'[w].phase = "open" /\ put'[w].inode = i
    BY DEF Opens, Moved, OtherPutsStay, AtHome
  <1>2. \A r \in Paths : entry'[r] = IF r = q THEN i ELSE entry[r]
    BY DEF Opens, AtHome, Core, TypeOK
  <1>3. \A g \in Gets :
          /\ get'[g].path = get[g].path /\ get'[g].phase = get[g].phase
          /\ get'[g].inode = get[g].inode
          /\ get'[g].seen = IF get[g].phase = "open" /\ get[g].inode = i
                            THEN Torn ELSE get[g].seen
    BY DEF Opens, Withdrawn
  <1>4. /\ writing'[i] = writing[i] \cup {w}
        /\ \A j \in Puts : j # i => /\ writing'[j] = writing[j]
                                    /\ data'[j] = data[j]
    BY DEF Opens, Core, TypeOK
  <1>5. put[i].path = q /\ ~Begun(w)
    BY DEF AtHome
  <1>6. \A v \in Puts : put[v].phase = "open" /\ put[v].inode = i => put[v].path = q
    BY DEF AtHome, OpenOn
  <1>7. \A g \in Gets : get[g].inode = i => get[g].path = q
    BY <1>5 DEF Core, Readers
  <1>8. \A j \in Puts : j # i => OpenOn(j)' = OpenOn(j)
    BY <1>1, <1>5 DEF OpenOn, Begun
  <1>9. CASE p # q
    <2>1. entry'[p] = entry[p] /\ entry[p] # i
      BY <1>2, <1>9 DEF AtHome
    <2>2. FileStays(p)
      <3>1. IsFile(p) => OpenOn(entry[p])' = OpenOn(entry[p])
        BY <1>1, <1>5, <2>1 DEF OpenOn, Begun
      <3> QED  BY <1>4, <2>1, <3>1, FileStaysIf DEF IsFile
    <2>3. PhasesStay(p)
      <3>1. PhaseAt(p, w)' = PhaseAt(p, w)
        BY <1>1, <1>9 DEF PhaseAt
      <3> QED  BY <1>1, <2>1, <3>1, PhaseStaysIf DEF PhasesStay
    <2>4. ReadsStay(p)
      BY <1>3, <1>7, <1>9, <2>1 DEF ReadsStay, ReadAt
    <2> QED  BY <2>2, <2>3, <2>4, Stutters
  <1>10. CASE p = q
    <2>1. entry'[p] = i /\ (IsFile(p) => entry[p] = i) /\ (~IsFile(p) => i = w)
      BY <1>2, <1>10 DEF IsFile
    <2>2. IsFile(p)' /\ w \in OpenOn(i)'
      <3>1. IsFile(p)'
        BY <2>1 DEF IsFile
      <3>2. \E v \in Puts : put'[v].phase = "open" /\ put'[v].inode = i
        BY <1>1
      <3> QED  BY <1>1, <3>1 DEF OpenOn
    <2>3. FileAt(p)' = [content |-> Torn, group |-> writing'[i]]
      <3>1. OpenOn(entry[p])' # {}
        BY <1>1, <2>1 DEF OpenOn
      <3> QED  BY <2>1, <2>2, <3>1 DEF FileAt
    <2>4. FileAt(p).group = IF IsFile(p) THEN writing[i] ELSE {}
      BY <2>1 DEF FileAt
    <2>5. ~IsFile(p) => writing[i] = {}
      <3> SUFFICES ASSUME ~IsFile(p) PROVE writing[w] = {}
        BY <2>1
      <3>1. OpenOn(w) = {}
        BY <1>5 DEF OpenOn, Core, Handlers
      <3> QED  BY <3>1 DEF Core, Groups
    <2>6. FileAt(p)' = Reg(p)!Opened(FileAt(p), w)
      BY <1>4, <2>3, <2>4, <2>5 DEF Reg!Opened
    <2>7. PhaseAt(p, w) = "idle" /\ PhaseAt(p, w)' = "open"
      BY <1>1, <1>5, <1>10, <2>1 DEF PhaseAt, Begun
    <2>8. ASSUME NEW v \in Puts, v # w PROVE PhaseAt(p, v)' = PhaseAt(p, v)
      <3>1. ~IsFile(p) => ~(put[v].phase = "open" /\ put[v].inode = w)
        BY <1>5 DEF Core, Handlers
      <3>2. put[v].phase = "open" =>
              (put[v].inode = entry'[p] <=> put[v].inode = entry[p])
        BY <2>1, <3>1, OpenInodes DEF IsFile
      <3> QED  BY <1>1, <2>8, <3>2, PhaseStaysIf
    <2>9. ASSUME NEW g \in Gets
          PROVE  ReadAt(p, g)' = IF ReadAt(p, g).phase = "attached"
                                 THEN [ReadAt(p, g) EXCEPT !.seen = Torn]
                                 ELSE ReadAt(p, g)
      <3>1. ~IsFile(p) => get[g].inode # w
        BY <1>5 DEF Core, Readers
      <3>2. get[g].phase = "open" =>
              /\ get[g].inode = entry'[p] <=> get[g].inode = entry[p]
              /\ get[g].inode = i <=> get[g].inode = entry[p]
        BY <2>1, <3>1, OpenInodes DEF IsFile
      <3>3. CASE get[g].path = p /\ get[g].phase = "open" /\ get[g].inode = i
        <4>1. get[g].inode # NoInode
          BY <3>3, Names
        <4>2. ReadAt(p, g) = [phase |-> "attached", seen |-> get[g].seen]
          BY <3>2, <3>3, <4>1 DEF ReadAt
        <4>3. ReadAt(p, g)' = [phase |-> "attached", seen |-> Torn]
          BY <1>3, <3>2, <3>3, <4>1 DEF ReadAt
        <4> QED  BY <4>2, <4>3
      <3>4. CASE ~(get[g].path = p /\ get[g].phase = "open" /\ get[g].inode = i)
        <4>1. ReadAt(p, g).phase # "attached"
          BY <3>2, <3>4 DEF ReadAt
        <4>2. ReadAt(p, g)' = ReadAt(p, g)
          BY <1>3, <1>7, <1>10, <3>2, <3>4 DEF ReadAt
        <4> QED  BY <4>1, <4>2
      <3> QED  BY <3>3, <3>4
    <2>10. Reg(p)!Create(w)
      BY <2>6, <2>7, <2>8, <2>9 DEF Reg!Create
    <2> QED  BY <2>10 DEF Reg!Next
  <1> QED  BY <1>9, <1>10

(* A write is not seen: the file has been Torn since os.Create.             *)
LEMMA WriteRefines ==
  ASSUME Core, NEW w \in Puts, Write(w), NEW p \in Paths
  PROVE  UNCHANGED Reg(p)!vars
  <1>1. /\ put[w].inode \in Puts /\ w \in OpenOn(put[w].inode)
        /\ \A i : OpenOn(i)' = OpenOn(i)
        /\ \A j \in Puts : j # put[w].inode => data'[j] = data[j]
        /\ UNCHANGED <<entry, get, writing>>
    BY WriteStep DEF Write
  <1>2. \A v \in Puts : /\ put'[v].path = put[v].path
                        /\ put'[v].phase = put[v].phase
                        /\ put'[v].inode = put[v].inode
    BY WriteStep DEF Write, Moved, OtherPutsStay
  <1>3. FileStays(p)
    <2>1. OpenOn(entry[p])' = OpenOn(entry[p])
      BY <1>1, <1>2 DEF OpenOn
    <2>2. IsFile(p) /\ OpenOn(entry[p]) = {} => data'[entry[p]] = data[entry[p]]
      BY <1>1 DEF IsFile
    <2> QED  BY <1>1, <2>1, <2>2, FileStaysIf DEF IsFile
  <1>4. PhasesStay(p)
    BY <1>1, <1>2 DEF PhasesStay, PhaseAt
  <1>5. ReadsStay(p)
    BY <1>1 DEF ReadsStay, ReadAt
  <1> QED  BY <1>3, <1>4, <1>5, Stutters

(* What the group can have left in a file: the body of one of them, or of  *)
(* nobody; a PUT that was alone and came to the end has left its body.     *)
LEMMA LeftBehind ==
  ASSUME Core, NEW i \in Puts, OpenOn(i) # {}
  PROVE  /\ BodyIn(i) \in writing[i] \cup {Torn}
         /\ \A w \in Puts : writing[i] = {w} /\ put[w].off = Size[w] => BodyIn(i) = w
  <1>1. Written(i) /\ data[i] \in Seq(Blocks)
    BY DEF Core, Contents, TypeOK
  <1>2. ASSUME NEW v \in Puts, data[i] = Body(v) PROVE v \in writing[i]
    <2>1. 1 \in 1..Len(data[i]) /\ data[i][1] = Block(v, 1)
      BY <1>2, BodyType, SizeType
    <2>2. Block(v, 1) # Hole /\ \A u : Block(u, 1) = Block(v, 1) => u = v
      BY DEF Block, Hole
    <2> QED  BY <1>1, <2>1, <2>2 DEF Written, Core, TypeOK
  <1>3. BodyIn(i) \in writing[i] \cup {Torn}
    <2>1. CASE BodyIn(i) = Torn
      BY <2>1
    <2>2. CASE BodyIn(i) # Torn
      BY <1>2, <2>2, BodyInType, BodyInIs
    <2> QED  BY <2>1, <2>2
  <1>4. ASSUME NEW w \in Puts, writing[i] = {w}, put[w].off = Size[w]
        PROVE  BodyIn(i) = w
    <2>1. data[i] = Body(w)
      BY <1>1, <1>4 DEF Written, Body
    <2> QED  BY <2>1, BodyInIs
  <1> QED  BY <1>3, <1>4

(* f.Close is the register's Close at its path, and nothing elsewhere. *)
LEMMA CloseRefines ==
  ASSUME Core, NEW w \in Puts, NEW outcome \in {"stored", "failed"},
         ClosePut(w, outcome), NEW p \in Paths
  PROVE  UNCHANGED Reg(p)!vars \/ Reg(p)!Next
  <1> DEFINE i == put[w].inode
             whole == outcome = "stored"
  <1>1. /\ i \in Puts /\ w \in OpenOn(i) /\ w \in writing[i]
        /\ \A j \in Puts : OpenOn(j)' = OpenOn(j) \ {w}
        /\ \A j \in Puts : j # i => OpenOn(j)' = OpenOn(j)
        /\ writing'[i] = IF OpenOn(i) = {w} THEN {} ELSE writing[i]
        /\ \A j \in Puts : j # i => writing'[j] = writing[j]
    BY CloseStep DEF Core, Handlers, OpenOn
  <1>2. /\ put[w].phase = "open" /\ UNCHANGED <<entry, data, get>>
        /\ whole => put[w].off = Size[w]
    BY DEF ClosePut
  <1>3. /\ \A v \in Puts : v # w => put'[v] = put[v]
        /\ put'[w].path = put[w].path /\ put'[w].phase = outcome
    BY CloseStep DEF Moved, OtherPutsStay
  <1>4. \A v \in Puts : v # w => PhaseAt(p, v)' = PhaseAt(p, v)
    BY <1>2, <1>3, PhaseStaysIf
  <1>5. ReadsStay(p)
    BY <1>2 DEF ReadsStay, ReadAt
  <1>6. put[i].path = put[w].path
    BY <1>2 DEF Core, Handlers
  <1>7. ASSUME entry[p] # i PROVE FileStays(p)
    <2>1. IsFile(p) => OpenOn(entry[p])' = OpenOn(entry[p])
      BY <1>1, <1>2, <1>7 DEF IsFile
    <2> QED  BY <1>1, <1>2, <1>7, <2>1, FileStaysIf DEF IsFile
  <1>8. CASE put[w].path # p
    <2>1. entry[p] # i
      BY <1>1, <1>6, <1>8 DEF Core, Named, IsFile
    <2>2. PhaseAt(p, w)' = PhaseAt(p, w)
      BY <1>3, <1>8 DEF PhaseAt
    <2> QED  BY <1>4, <1>5, <1>7, <2>1, <2>2, Stutters DEF PhasesStay
  <1>9. CASE put[w].path = p /\ entry[p] # i
    <2>1. PhaseAt(p, w) = "detached"
      BY <1>2, <1>9 DEF PhaseAt
    <2>2. PhaseAt(p, w)' = outcome
      BY <1>3, <1>9 DEF PhaseAt
    <2>3. Reg(p)!Close(w, whole)
      BY <1>4, <1>5, <1>7, <1>9, <2>1, <2>2
         DEF Reg!Close, FileStays, ReadsStay
    <2> QED  BY <2>3 DEF Reg!Next
  <1>10. CASE put[w].path = p /\ entry[p] = i
    <2>1. PhaseAt(p, w) = "open"
      BY <1>2, <1>10 DEF PhaseAt
    <2>2. PhaseAt(p, w)' = outcome
      BY <1>3, <1>10 DEF PhaseAt
    <2>3. IsFile(p) /\ IsFile(p)'
      BY <1>1, <1>2, <1>10 DEF IsFile
    <2>4. FileAt(p) = [content |-> Torn, group |-> writing[i]]
      BY <1>1, <1>10, <2>3 DEF FileAt
    <2>5. Reg(p)!OthersOpen(w) <=> OpenOn(i) # {w}
      <3>1. \A v \in Puts : PhaseAt(p, v) = "open" <=> v \in OpenOn(i)
        <4> TAKE v \in Puts
        <4>1. v \in OpenOn(i) => put[v].path = p
          BY <1>6, <1>10 DEF Core, Handlers, OpenOn
        <4> QED  BY <1>10, <4>1 DEF PhaseAt, OpenOn
      <3>2. Reg(p)!OthersOpen(w) <=> \E v \in Puts \ {w} : v \in OpenOn(i)
        BY <3>1 DEF Reg!OthersOpen
      <3>3. OpenOn(i) \subseteq Puts
        BY DEF OpenOn
      <3> QED  BY <1>1, <3>2, <3>3
    <2>6. FileAt(p)' \in
            Reg(p)!Closed(FileAt(p), w, Reg(p)!OthersOpen(w), whole)
      <3>1. CASE OpenOn(i) # {w}
        <4>1. OpenOn(entry[p])' # {}
          <5>1. PICK v \in OpenOn(i) : v # w
            BY <1>1, <3>1
          <5>2. put'[v].phase = "open" /\ put'[v].inode = entry'[p] /\ v \in Puts
            BY <1>2, <1>3, <1>10, <5>1 DEF OpenOn
          <5> QED  BY <5>2 DEF OpenOn
        <4>2. writing'[entry'[p]] = writing[i]
          BY <1>1, <1>2, <1>10, <3>1
        <4>3. FileAt(p)' = FileAt(p)
          BY <2>3, <2>4, <4>1, <4>2 DEF FileAt
        <4> QED  BY <2>5, <3>1, <4>3 DEF Reg!Closed
      <3>2. CASE OpenOn(i) = {w}
        <4>1. OpenOn(entry[p])' = {}
          <5>1. \A v \in Puts : ~(put'[v].phase = "open" /\ put'[v].inode = entry'[p])
            BY <1>2, <1>3, <1>10, <3>2 DEF OpenOn
          <5> QED  BY <5>1 DEF OpenOn
        <4>2. BodyIn(entry[p])' = BodyIn(i)
          BY <1>2, <1>10 DEF BodyIn, Body, Block
        <4>3. writing'[entry'[p]] = {}
          BY <1>1, <1>2, <1>10, <3>2
        <4>4. FileAt(p)' = [content |-> BodyIn(i), group |-> {}]
          BY <2>3, <4>1, <4>2, <4>3 DEF FileAt
        <4>5. BodyIn(i) \in Reg(p)!Settled(writing[i], w, whole)
          <5>1. CASE writing[i] = {w} /\ whole
            BY <1>1, <1>2, <5>1, LeftBehind DEF Reg!Settled
          <5>2. CASE ~(writing[i] = {w} /\ whole)
            BY <1>1, <5>2, LeftBehind DEF Reg!Settled
          <5> QED  BY <5>1, <5>2
        <4>6. FileAt(p).group = writing[i]
          BY <2>4
        <4> QED  BY <2>5, <3>2, <4>4, <4>5, <4>6 DEF Reg!Closed
      <3> QED  BY <3>1, <3>2
    <2>7. Reg(p)!Close(w, whole)
      BY <1>4, <1>5, <2>1, <2>2, <2>6 DEF Reg!Close, ReadsStay
    <2> QED  BY <2>7 DEF Reg!Next
  <1> QED  BY <1>8, <1>9, <1>10

(* os.Remove of a file is the register's Remove at that path; of a         *)
(* directory, nothing.                                                     *)
LEMMA DeleteRefines ==
  ASSUME Core, NEW q \in Paths, Delete(q), NEW p \in Paths
  PROVE  UNCHANGED Reg(p)!vars \/ Reg(p)!Next
  <1>1. /\ \A r \in Paths : entry'[r] = IF r = q THEN NoEntry ELSE entry[r]
        /\ UNCHANGED <<data, put, get, writing>>
    BY DEF Delete, Core, TypeOK
  <1>2. CASE p # q \/ ~IsFile(q)
    <2>1. /\ IsFile(p)' <=> IsFile(p)
          /\ IsFile(p) => entry'[p] = entry[p]
          /\ \A j \in Puts : j = entry'[p] <=> j = entry[p]
      BY <1>1, <1>2, Names DEF IsFile
    <2>2. FileStays(p)
      BY <1>1, <2>1, FileStaysIf DEF OpenOn
    <2>3. PhasesStay(p)
      BY <1>1, <2>1, OpenInodes, PhaseStaysIf DEF PhasesStay
    <2>4. ReadsStay(p)
      BY <1>1, <2>1, OpenInodes, ReadStaysIf DEF ReadsStay
    <2> QED  BY <2>2, <2>3, <2>4, Stutters
  <1>3. CASE p = q /\ IsFile(q)
    <2>1. entry'[p] = NoEntry /\ entry[p] \in Puts
      BY <1>1, <1>3 DEF IsFile
    <2>2. FileAt(p).content # NoEntry
      BY <1>3, FileFields
    <2>3. FileAt(p)' = [content |-> NoEntry, group |-> {}]
      BY <2>1, Names DEF FileAt, IsFile
    <2>4. ASSUME NEW v \in Puts
          PROVE  PhaseAt(p, v)' = IF PhaseAt(p, v) = "open" THEN "detached"
                                  ELSE PhaseAt(p, v)
      <3>1. put[v].phase = "open" => put[v].inode # entry'[p]
        BY <2>1, OpenInodes, Names
      <3> QED  BY <1>1, <3>1 DEF PhaseAt
    <2>5. ASSUME NEW g \in Gets
          PROVE  ReadAt(p, g)' = IF ReadAt(p, g).phase = "attached"
                                 THEN [ReadAt(p, g) EXCEPT !.phase = "detached"]
                                 ELSE ReadAt(p, g)
      <3>1. get[g].phase = "open" => get[g].inode # entry'[p]
        BY <2>1, OpenInodes, Names
      <3> QED  BY <1>1, <3>1 DEF ReadAt
    <2>6. Reg(p)!Remove
      BY <2>2, <2>3, <2>4, <2>5 DEF Reg!Remove, Reg!NoFile
    <2> QED  BY <2>6 DEF Reg!Next
  <1> QED  BY <1>2, <1>3

(* A GET is seen at its path only, by its own progress. *)
LEMMA OthersStay ==
  ASSUME Core, NEW g \in Gets, NEW ph, NEW i, NEW buf, NEW s,
         Got(g, ph, i, buf, s), UNCHANGED <<entry, data, put, writing>>,
         NEW p \in Paths
  PROVE  /\ FileStays(p) /\ PhasesStay(p)
         /\ \A h \in Gets : h # g => ReadAt(p, h)' = ReadAt(p, h)
         /\ ReadAt(p, g)' =
              [phase |-> IF get[g].path # p \/ i = NoInode THEN "idle"
                         ELSE IF ph # "open" THEN "closed"
                         ELSE IF i = entry[p] THEN "attached" ELSE "detached",
               seen |-> IF get[g].path = p THEN s ELSE Torn]
  <1>1. FileStays(p)
    BY FileStaysIf DEF IsFile, OpenOn
  <1>2. PhasesStay(p)
    BY DEF PhasesStay, PhaseAt
  <1>3. \A h \in Gets : h # g => ReadAt(p, h)' = ReadAt(p, h)
    BY DEF Got, OtherGetsStay, ReadAt
  <1>4. /\ get'[g].path = get[g].path /\ get'[g].phase = ph
        /\ get'[g].inode = i /\ get'[g].seen = s
    BY DEF Got
  <1> QED  BY <1>1, <1>2, <1>3, <1>4 DEF ReadAt

LEMMA UnseenGet ==
  ASSUME Core, NEW g \in Gets, NEW ph, NEW i, NEW buf, NEW s,
         Got(g, ph, i, buf, s), UNCHANGED <<entry, data, put, writing>>,
         i = get[g].inode, s = get[g].seen,
         ph = get[g].phase \/ i = NoInode, NEW p \in Paths
  PROVE  UNCHANGED Reg(p)!vars
  <1>1. ReadAt(p, g)' = ReadAt(p, g)
    BY OthersStay DEF ReadAt
  <1>2. FileStays(p) /\ PhasesStay(p) /\ ReadsStay(p)
    BY <1>1, OthersStay DEF ReadsStay
  <1> QED  BY <1>2, Stutters

LEMMA OpenGetRefines ==
  ASSUME Core, NEW g \in Gets, OpenGet(g), NEW p \in Paths
  PROVE  UNCHANGED Reg(p)!vars \/ Reg(p)!Next
  <1> DEFINE q == get[g].path
             i == entry[q]
             s == IF OpenOn(i) = {} THEN BodyIn(i) ELSE Torn
  <1>1. /\ q \in Paths /\ get[g].phase = "idle"
        /\ UNCHANGED <<entry, data, put, writing>>
    BY OpenGetStep DEF Core
  <1>2. get[g].inode = NoInode /\ get[g].seen = Torn
    BY <1>1 DEF Core, Readers
  <1>3. CASE ~IsFile(q)
    <2>1. PICK ph \in {"dir", "failed"} :
            Got(g, ph, get[g].inode, get[g].buf, get[g].seen)
      BY <1>3, OpenGetStep DEF Core
    <2> QED  BY <1>1, <1>2, <2>1, UnseenGet
  <1>4. CASE IsFile(q)
    <2>1. Got(g, "open", i, get[g].buf, s)
      BY <1>4, OpenGetStep DEF Core
    <2>2. i # NoInode
      BY <1>4, Names DEF IsFile
    <2>3. /\ FileStays(p) /\ PhasesStay(p)
          /\ \A h \in Gets : h # g => ReadAt(p, h)' = ReadAt(p, h)
          /\ ReadAt(p, g)' =
               [phase |-> IF q # p THEN "idle"
                          ELSE IF i = entry[p] THEN "attached" ELSE "detached",
                seen |-> IF q = p THEN s ELSE Torn]
      <3> HIDE DEF i, s
      <3> QED  BY <1>1, <2>1, <2>2, OthersStay
    <2>4. ReadAt(p, g) = [phase |-> "idle", seen |-> Torn]
      BY <1>2 DEF ReadAt
    <2>5. CASE q # p
      <3>1. ReadsStay(p)
        BY <2>3, <2>4, <2>5 DEF ReadsStay
      <3> QED  BY <2>3, <3>1, Stutters
    <2>6. CASE q = p
      <3>1. ReadAt(p, g)' = [phase |-> "attached", seen |-> s]
        BY <2>3, <2>6
      <3>2. FileAt(p).content = s /\ s # NoEntry
        BY <1>4, <2>6, BodyInType, Names DEF FileAt
      <3>3. Reg(p)!Open(g)
        <4>1. [h \in Gets |-> ReadAt(p, h)'] =
                [[h \in Gets |-> ReadAt(p, h)] EXCEPT
                   ![g] = [phase |-> "attached", seen |-> FileAt(p).content]]
          <5> HIDE DEF i, s
          <5> QED  BY <2>3, <3>1, <3>2
        <4> HIDE DEF i, s
        <4> QED  BY <2>3, <2>4, <3>2, <4>1
                 DEF Reg!Open, FileStays, PhasesStay
      <3> QED  BY <3>3 DEF Reg!Next
    <2> QED  BY <2>5, <2>6
  <1> QED  BY <1>3, <1>4

(* A GET that has a file ends: Done at its path. *)
LEMMA DoneRefines ==
  ASSUME Core, NEW g \in Gets, get[g].phase = "open",
         NEW ph \in {"full", "cut"},
         Got(g, ph, get[g].inode, get[g].buf, get[g].seen),
         UNCHANGED <<entry, data, put, writing>>, NEW p \in Paths
  PROVE  UNCHANGED Reg(p)!vars \/ Reg(p)!Next
  <1>1. get[g].inode # NoInode
    BY OpenInodes, Names
  <1>2. /\ FileStays(p) /\ PhasesStay(p)
        /\ \A h \in Gets : h # g => ReadAt(p, h)' = ReadAt(p, h)
        /\ ReadAt(p, g)' =
             [phase |-> IF get[g].path # p THEN "idle" ELSE "closed",
              seen |-> IF get[g].path = p THEN get[g].seen ELSE Torn]
    BY <1>1, OthersStay
  <1>3. ReadAt(p, g) =
          [phase |-> IF get[g].path # p THEN "idle"
                     ELSE IF get[g].inode = entry[p] THEN "attached" ELSE "detached",
           seen |-> IF get[g].path = p THEN get[g].seen ELSE Torn]
    BY <1>1 DEF ReadAt
  <1>4. CASE get[g].path # p
    <2>1. ReadsStay(p)
      BY <1>2, <1>3, <1>4 DEF ReadsStay
    <2> QED  BY <1>2, <2>1, Stutters
  <1>5. CASE get[g].path = p
    <2>1. /\ ReadAt(p, g).phase \in {"attached", "detached"}
          /\ ReadAt(p, g)' = [ReadAt(p, g) EXCEPT !.phase = "closed"]
      BY <1>2, <1>3, <1>5
    <2>2. Reg(p)!Done(g)
      BY <1>2, <2>1 DEF Reg!Done, FileStays, PhasesStay
    <2> QED  BY <2>2 DEF Reg!Next
  <1> QED  BY <1>4, <1>5

LEMMA ReadRefines ==
  ASSUME Core, NEW g \in Gets, Read(g) \/ CutGet(g), NEW p \in Paths
  PROVE  UNCHANGED Reg(p)!vars \/ Reg(p)!Next
  <1> DEFINE i == get[g].inode
             n == Len(get[g].buf) + 1
  <1>1. TypeOK /\ UNCHANGED <<entry, data, put, writing>>
    BY DEF Core, Read, CutGet
  <1>2. CASE /\ get[g].phase = "open" /\ n <= Len(data[i])
             /\ get' = [get EXCEPT ![g].buf = Append(@, data[i][n])]
    <2>1. i \in Puts /\ get[g].buf \in Seq(Blocks)
      BY <1>1, <1>2, OpenInodes DEF TypeOK, GetStates
    <2>2. data[i] \in Seq(Blocks) /\ n \in 1..Len(data[i])
      BY <1>1, <1>2, <2>1 DEF TypeOK
    <2>3. data[i][n] \in Blocks
      BY <2>2
    <2>4. Got(g, get[g].phase, i, Append(get[g].buf, data[i][n]), get[g].seen)
      BY <1>1, <1>2, <2>3, BlockGot
    <2> QED  BY <1>1, <2>4, UnseenGet
  <1>3. CASE get[g].phase = "open" /\ get' = [get EXCEPT ![g].phase = "full"]
    <2>1. Got(g, "full", i, get[g].buf, get[g].seen)
      BY <1>1, <1>3, PhaseGot
    <2> QED  BY <1>1, <1>3, <2>1, DoneRefines
  <1>4. CASE get[g].phase = "open" /\ get' = [get EXCEPT ![g].phase = "cut"]
    <2>1. Got(g, "cut", i, get[g].buf, get[g].seen)
      BY <1>1, <1>4, PhaseGot
    <2> QED  BY <1>1, <1>4, <2>1, DoneRefines
  <1>5. CASE /\ get[g].phase = "dir"
             /\ \E ph \in {"empty", "cut"} : get' = [get EXCEPT ![g].phase = ph]
    <2>1. PICK ph \in {"empty", "cut"} : Got(g, ph, i, get[g].buf, get[g].seen)
      BY <1>1, <1>5, PhaseGot
    <2>2. i = NoInode
      BY <1>5 DEF Core, Readers
    <2> QED  BY <1>1, <2>1, <2>2, UnseenGet
  <1> QED  BY <1>2, <1>3, <1>4, <1>5 DEF Read, CutGet

LEMMA UnchangedRefines ==
  ASSUME UNCHANGED vars, NEW p \in Paths
  PROVE  UNCHANGED Reg(p)!vars
  <1>1. FileStays(p)
    BY DEF vars, FileStays, FileAt, IsFile, OpenOn, BodyIn, Body, Block
  <1>2. PhasesStay(p) /\ ReadsStay(p)
    BY DEF vars, PhasesStay, PhaseAt, ReadsStay, ReadAt
  <1> QED  BY <1>1, <1>2, Stutters

(* Every step of the node is, at every path, a step of the register or *)
(* nothing.                                                            *)
LEMMA StepRefines ==
  ASSUME NodeInv, [Next]_vars, NEW p \in Paths
  PROVE  UNCHANGED Reg(p)!vars \/ Reg(p)!Next
  <1>1. Core
    BY DEF NodeInv, Core
  <1>2. ASSUME NEW w \in Puts, Stat(w) \/ Mkdir(w)
        PROVE  UNCHANGED Reg(p)!vars \/ Reg(p)!Next
    BY <1>1, <1>2, LookStep, EarlyRefines
  <1>3. ASSUME NEW w \in Puts, CreateFails(w) \/ RefusePut(w)
        PROVE  UNCHANGED Reg(p)!vars \/ Reg(p)!Next
    <2>1. /\ ~Begun(w) /\ put' = PutFailed(w)
          /\ UNCHANGED <<entry, data, get, writing>>
      BY <1>3 DEF CreateFails, RefusePut, Begun
    <2>2. Moved(w, "failed", put[w].inode, put[w].off)
      BY <1>1, <2>1, FailMoves DEF Core
    <2>3. FilesStay
      BY <1>1, <2>1 DEF FilesStay, IsFile, Core, TypeOK
    <2> QED  BY <1>1, <2>1, <2>2, <2>3, EarlyRefines
  <1>4. ASSUME NEW w \in Puts, Create(w)
        PROVE  UNCHANGED Reg(p)!vars \/ Reg(p)!Next
    BY <1>1, <1>4, CreateOpens, CreateRefines
  <1>5. CASE Answered \/ UNCHANGED vars
    BY <1>5, UnchangedRefines DEF Answered
  <1> QED  BY <1>1, <1>2, <1>3, <1>4, <1>5, WriteRefines, CloseRefines,
              DeleteRefines, OpenGetRefines, ReadRefines
           DEF Next, PutStep

(* The refinement: truncation, interleaved writes at private offsets and   *)
(* unlinking under open handlers add up, at every path, to the contract    *)
(* FileRegister states (store.Put, Get, Delete).                           *)
THEOREM NodeImplementsRegister == Spec => ImplementsRegister
  <1>1. Init => \A p \in Paths : Reg(p)!Init
    BY InitRefines
  <1>2. NodeInv /\ [Next]_vars =>
          [\A p \in Paths : UNCHANGED Reg(p)!vars \/ Reg(p)!Next]_vars
    BY StepRefines
  <1> QED  BY <1>1, <1>2, NodeInvariant, PTL DEF Spec, ImplementsRegister

(* What the contract promises its readers, the node keeps at every path. *)
LEMMA PromiseAtPath ==
  ASSUME NodeInv, NEW p \in Paths
  PROVE  Reg(p)!ReadKeepsPromise
  <1> SUFFICES ASSUME NEW g \in Gets, ReadAt(p, g).phase = "attached",
                      ReadAt(p, g).seen # Torn
               PROVE  FileAt(p).content = ReadAt(p, g).seen
    BY DEF Reg!ReadKeepsPromise
  <1>1. /\ get[g].phase = "open" /\ get[g].inode = entry[p]
        /\ ReadAt(p, g).seen = get[g].seen /\ get[g].seen # Torn
    BY DEF ReadAt
  <1>2. entry[p] \in Puts /\ get[g].seen \in Puts
    BY <1>1 DEF NodeInv, TypeOK, GetStates, Readers
  <1>3. OpenOn(entry[p]) = {} /\ data[entry[p]] = Body(get[g].seen)
    BY <1>1 DEF NodeInv, Copies, Promised
  <1>4. BodyIn(entry[p]) = get[g].seen
    BY <1>2, <1>3, BodyInIs
  <1> QED  BY <1>1, <1>2, <1>3, <1>4, FileFields DEF IsFile

LEMMA OpenAtPath ==
  ASSUME NodeInv, NEW p \in Paths, NEW w \in Puts, PhaseAt(p, w) = "open"
  PROVE  FileAt(p).content = Torn
  <1>1. put[w].phase = "open" /\ put[w].inode = entry[p]
    BY DEF PhaseAt, NodeInv, TypeOK, PutStates
  <1>2. entry[p] \in Puts /\ w \in OpenOn(entry[p])
    BY <1>1 DEF NodeInv, Handlers, OpenOn
  <1> QED  BY <1>2, FileFields DEF IsFile

LEMMA BodyAtPath ==
  ASSUME NodeInv, [Next]_vars, NEW p \in Paths
  PROVE  Reg(p)!BodyGoesOnPurpose
  <1> SUFFICES ASSUME FileAt(p).content \in Puts, FileAt(p)'.content # FileAt(p).content
               PROVE  \/ FileAt(p)'.content = NoEntry
                      \/ \E w \in Puts : PhaseAt(p, w) = "idle" /\ PhaseAt(p, w)' = "open"
    BY DEF Reg!BodyGoesOnPurpose
  <1>1. Reg(p)!Next
    BY StepRefines DEF Reg!vars
  <1>2. \A w \in Puts : PhaseAt(p, w) # "open"
    BY OpenAtPath, Names
  <1>3. ASSUME NEW w \in Puts, Reg(p)!Create(w)
        PROVE  PhaseAt(p, w) = "idle" /\ PhaseAt(p, w)' = "open"
    BY <1>3 DEF Reg!Create
  <1>4. ASSUME NEW w \in Puts, NEW whole \in BOOLEAN, Reg(p)!Close(w, whole)
        PROVE  FileAt(p)' = FileAt(p)
    BY <1>2, <1>4 DEF Reg!Close
  <1>5. CASE Reg(p)!Remove
    BY <1>5 DEF Reg!Remove, Reg!NoFile
  <1> QED  BY <1>1, <1>3, <1>4, <1>5
           DEF Reg!Next, Reg!Reject, Reg!Open, Reg!Done, Reg!AllDone, Reg!vars

(* A GET that has a path's file open and was promised a body has it before *)
(* it, whatever becomes of other paths, directories and inodes             *)
(* (store.Get).                                                            *)
THEOREM PromiseKeptAtPaths == Spec => []\A p \in Paths : Reg(p)!ReadKeepsPromise
  <1>1. NodeInv => \A p \in Paths : Reg(p)!ReadKeepsPromise
    BY PromiseAtPath
  <1> QED  BY <1>1, NodeInvariant, PTL

(* A body that is at a path goes only by a PUT that opens the file of that *)
(* path or by a DELETE of it; no PUT that ends late, or fails, or makes    *)
(* directories can take it away (store.Put, store.Delete).                 *)
THEOREM BodyKeptAtPaths == Spec => [][\A p \in Paths : Reg(p)!BodyGoesOnPurpose]_vars
  <1>1. NodeInv /\ [Next]_vars => [\A p \in Paths : Reg(p)!BodyGoesOnPurpose]_vars
    BY BodyAtPath
  <1> QED  BY <1>1, NodeInvariant, PTL DEF Spec

-----------------------------------------------------------------------------
(***************************************************************************)
(* The contract itself: what FileRegister promises a reader, and that a    *)
(* body that is there stays, for any number of PUTs and GETs.  It is a     *)
(* specification of its own, with variables of its own; the theorem above  *)
(* says that the node keeps it at every path.                              *)
(***************************************************************************)
VARIABLES file, phase, read

Contract == INSTANCE FileRegister WITH
  Uploads <- Puts, Readers <- Gets, Absent <- NoEntry

\* While a PUT has the file open it is Torn and counts as one of the group;
\* when none has, no group is left over to be mixed into the next body.
OpenIsTorn ==
  /\ \A w \in Puts : phase[w] = "open" => /\ file.content = Torn
                                          /\ w \in file.group
  /\ file.content = NoEntry => file.group = {}

RegisterInv == Contract!TypeOK /\ OpenIsTorn /\ Contract!ReadKeepsPromise

-----------------------------------------------------------------------------
(* What os.Create makes of a file is a file. *)
LEMMA OpenedIsFile ==
  ASSUME NEW f \in Contract!Files, NEW w \in Puts
  PROVE  /\ Contract!Opened(f, w) \in Contract!Files
         /\ Contract!Opened(f, w).content = Torn
         /\ Contract!Opened(f, w).group = f.group \cup {w}
  BY DEF Contract!Opened, Contract!Files, Contract!Contents

(* What the last close makes of a file is a file that is there, in nobody's *)
(* hands; a close that is not the last changes nothing.                     *)
LEMMA ClosedIsFile ==
  ASSUME NEW f \in Contract!Files, NEW w \in Puts, NEW others \in BOOLEAN,
         NEW whole \in BOOLEAN, NEW h \in Contract!Closed(f, w, others, whole)
  PROVE  /\ h \in Contract!Files
         /\ others => h = f
         /\ ~others => h.content \in Puts \cup {Torn} /\ h.group = {}
  <1>1. CASE others
    BY <1>1 DEF Contract!Closed
  <1>2. CASE ~others
    <2>1. Contract!Settled(f.group, w, whole) \subseteq Puts \cup {Torn}
      BY DEF Contract!Settled, Contract!Files
    <2>2. h \in [content : Contract!Settled(f.group, w, whole), group : {{}}]
      BY <1>2 DEF Contract!Closed
    <2> QED  BY <1>2, <2>1, <2>2 DEF Contract!Files, Contract!Contents
  <1> QED  BY <1>1, <1>2

LEMMA NoFileIsFile == Contract!NoFile \in Contract!Files
  BY DEF Contract!NoFile, Contract!Files, Contract!Contents

LEMMA RegisterInit == Contract!Init => RegisterInv
  BY NoFileIsFile, Names
     DEF Contract!Init, RegisterInv, Contract!TypeOK, OpenIsTorn,
         Contract!ReadKeepsPromise, Contract!NoFile,
         Contract!UploadPhases, Contract!ReaderPhases, Contract!Reads

-----------------------------------------------------------------------------
LEMMA RegisterNext == RegisterInv /\ [Contract!Next]_Contract!vars => RegisterInv'
  <1> SUFFICES ASSUME RegisterInv, [Contract!Next]_Contract!vars
               PROVE  RegisterInv'
    OBVIOUS
  <1> USE DEF RegisterInv, Contract!TypeOK
  <1>1. ASSUME NEW w \in Puts, Contract!Create(w)
        PROVE  RegisterInv'
    <2>1. file' = Contract!Opened(file, w) /\ file' \in Contract!Files
      BY <1>1, OpenedIsFile DEF Contract!Create
    <2>2. file'.content = Torn /\ w \in file'.group
      BY <2>1, OpenedIsFile
    <2>3. phase' \in [Puts -> Contract!UploadPhases]
      BY <1>1 DEF Contract!Create, Contract!UploadPhases
    <2>4. read' \in [Gets -> Contract!Reads]
      BY <1>1 DEF Contract!Create, Contract!Reads
    <2>5. OpenIsTorn'
      BY <1>1, <2>1, <2>2, OpenedIsFile, Names DEF Contract!Create, OpenIsTorn
    <2>6. Contract!ReadKeepsPromise'
      BY <1>1 DEF Contract!Create, Contract!ReadKeepsPromise, Contract!Reads
    <2> QED  BY <2>1, <2>3, <2>4, <2>5, <2>6
  <1>2. ASSUME NEW w \in Puts, Contract!Reject(w)
        PROVE  RegisterInv'
    BY <1>2 DEF Contract!Reject, OpenIsTorn, Contract!ReadKeepsPromise,
                Contract!UploadPhases
  <1>3. ASSUME NEW w \in Puts, NEW whole \in BOOLEAN, Contract!Close(w, whole)
        PROVE  RegisterInv'
    <2>1. phase' \in [Puts -> Contract!UploadPhases]
      BY <1>3 DEF Contract!Close, Contract!UploadPhases
    <2>2. CASE phase[w] = "open"
      <3>1. file' \in Contract!Closed(file, w, Contract!OthersOpen(w), whole)
        BY <1>3, <2>2 DEF Contract!Close
      <3>2. Contract!OthersOpen(w) \in BOOLEAN
        BY DEF Contract!OthersOpen
      <3>3. file' \in Contract!Files /\ (Contract!OthersOpen(w) => file' = file)
            /\ (~Contract!OthersOpen(w) => /\ file'.content \in Puts \cup {Torn}
                                            /\ file'.group = {})
        BY <3>1, <3>2, ClosedIsFile
      <3>4. OpenIsTorn'
        BY <1>3, <2>2, <3>3, Names
           DEF Contract!Close, OpenIsTorn, Contract!OthersOpen
      <3>5. Contract!ReadKeepsPromise'
        \* An attached GET was promised nothing while w had the file open.
        BY <1>3, <2>2 DEF Contract!Close, OpenIsTorn, Contract!ReadKeepsPromise
      <3> QED  BY <1>3, <2>1, <3>3, <3>4, <3>5 DEF Contract!Close
    <2>3. CASE phase[w] = "detached"
      BY <1>3, <2>1, <2>3 DEF Contract!Close, OpenIsTorn, Contract!ReadKeepsPromise
    <2> QED  BY <1>3, <2>2, <2>3 DEF Contract!Close
  <1>4. ASSUME Contract!Remove
        PROVE  RegisterInv'
    <2>1. phase' \in [Puts -> Contract!UploadPhases] /\ read' \in [Gets -> Contract!Reads]
      BY <1>4 DEF Contract!Remove, Contract!UploadPhases, Contract!ReaderPhases,
                  Contract!Reads
    <2>2. OpenIsTorn'
      BY <1>4 DEF Contract!Remove, OpenIsTorn, Contract!NoFile
    <2>3. Contract!ReadKeepsPromise'
      BY <1>4 DEF Contract!Remove, Contract!ReadKeepsPromise, Contract!Reads
    <2> QED  BY <1>4, <2>1, <2>2, <2>3, NoFileIsFile DEF Contract!Remove
  <1>5. ASSUME NEW g \in Gets, Contract!Open(g)
        PROVE  RegisterInv'
    <2>1. file.content \in Puts \cup {Torn}
      BY <1>5 DEF Contract!Open, Contract!Files, Contract!Contents
    <2> QED  BY <1>5, <2>1 DEF Contract!Open, OpenIsTorn, Contract!ReadKeepsPromise,
                               Contract!Reads,
                               Contract!ReaderPhases
  <1>6. ASSUME NEW g \in Gets, Contract!Done(g)
        PROVE  RegisterInv'
    BY <1>6 DEF Contract!Done, OpenIsTorn, Contract!ReadKeepsPromise, Contract!Reads,
                Contract!ReaderPhases
  <1>7. CASE Contract!AllDone \/ UNCHANGED Contract!vars
    BY <1>7 DEF Contract!AllDone, Contract!vars, OpenIsTorn, Contract!ReadKeepsPromise
  <1> QED  BY <1>1, <1>2, <1>3, <1>4, <1>5, <1>6, <1>7 DEF Contract!Next

(* A GET that was promised a body is reading a file that holds that body,  *)
(* however PUTs, DELETEs and other GETs of the file come in between        *)
(* (store.Put, store.Get, store.Delete).                                   *)
THEOREM PromiseKept == Contract!Spec => []Contract!ReadKeepsPromise
  <1>1. RegisterInv => Contract!ReadKeepsPromise
    BY DEF RegisterInv
  <1> QED  BY RegisterInit, RegisterNext, <1>1, PTL DEF Contract!Spec

(* A whole body goes only by a PUT that opens the file or by a DELETE: a   *)
(* PUT that ends late, or fails, cannot take it away (store.Put).          *)
THEOREM BodyKept == Contract!Spec => Contract!BodyStays
  <1>1. RegisterInv /\ [Contract!Next]_Contract!vars =>
          [Contract!BodyGoesOnPurpose]_Contract!vars
    <2> SUFFICES ASSUME RegisterInv, Contract!Next PROVE Contract!BodyGoesOnPurpose
      BY DEF Contract!vars
    <2> USE DEF RegisterInv, Contract!TypeOK, Contract!BodyGoesOnPurpose
    <2>1. ASSUME NEW w \in Puts, Contract!Create(w) PROVE Contract!BodyGoesOnPurpose
      BY <2>1 DEF Contract!Create
    <2>2. ASSUME NEW w \in Puts, NEW whole \in BOOLEAN, Contract!Close(w, whole)
          PROVE  Contract!BodyGoesOnPurpose
      \* An open PUT means a Torn file; the others do not touch it.
      BY <2>2, Names DEF Contract!Close, OpenIsTorn
    <2>3. CASE Contract!Remove
      BY <2>3 DEF Contract!Remove, Contract!NoFile
    <2>4. CASE UNCHANGED file
      BY <2>4
    <2> QED  BY <2>1, <2>2, <2>3, <2>4
             DEF Contract!Next, Contract!Reject, Contract!Open, Contract!Done,
                 Contract!AllDone, Contract!vars
  <1> QED  BY RegisterInit, RegisterNext, <1>1, PTL DEF Contract!Spec,
                                                        Contract!BodyStays
=============================================================================
