---------------------------- MODULE FileRegister ----------------------------
(***************************************************************************)
(* What a storage node promises about ONE file under concurrent PUT, GET   *)
(* and DELETE handlers.  StorageNode, block by block and inode by inode,   *)
(* is shown to implement it for every path; ObjectStore builds object-api  *)
(* on the same operators (module FileOps).                                 *)
(***************************************************************************)
EXTENDS FileOps

CONSTANT Readers     \* GET requests

VARIABLES file,      \* the file, an element of Files
          phase,     \* phase[w]: how far PUT w has come
          read       \* read[g]: how far GET g has come and what it must return

vars == <<file, phase, read>>

\* "detached": the handler has a file open that has been unlinked since.
UploadPhases == {"idle", "open", "detached", "stored", "failed"}
ReaderPhases == {"idle", "attached", "detached", "closed"}

\* seen: the body GET g must return, Torn where it may return anything.
Reads == [phase : ReaderPhases, seen : Uploads \cup {Torn}]

TypeOK == /\ file \in Files
          /\ phase \in [Uploads -> UploadPhases]
          /\ read \in [Readers -> Reads]

Init == /\ file = NoFile
        /\ phase = [w \in Uploads |-> "idle"]
        /\ read = [g \in Readers |-> [phase |-> "idle", seen |-> Torn]]

(* A PUT opens the file: whatever was there is gone, and a GET that is     *)
(* still reading that file can no longer count on what it saw.             *)
Create(w) ==
  /\ phase[w] = "idle"
  /\ phase' = [phase EXCEPT ![w] = "open"]
  /\ file' = Opened(file, w)
  /\ read' = [g \in Readers |-> IF read[g].phase = "attached"
                                THEN [read[g] EXCEPT !.seen = Torn]
                                ELSE read[g]]

(* A PUT is refused before it touches the file. *)
Reject(w) ==
  /\ phase[w] = "idle"
  /\ phase' = [phase EXCEPT ![w] = "failed"]
  /\ UNCHANGED <<file, read>>

OthersOpen(w) == \E v \in Uploads \ {w} : phase[v] = "open"

(* A PUT ends, having copied its whole body or not. *)
Close(w, whole) ==
  /\ phase[w] \in {"open", "detached"}
  /\ phase' = [phase EXCEPT ![w] = IF whole THEN "stored" ELSE "failed"]
  /\ IF phase[w] = "open"
     THEN file' \in Closed(file, w, OthersOpen(w), whole)
     ELSE UNCHANGED file
  /\ UNCHANGED read

(* DELETE: the name goes, handlers that have the file open keep it. *)
Remove ==
  /\ file.content # Absent
  /\ file' = NoFile
  /\ phase' = [w \in Uploads |-> IF phase[w] = "open" THEN "detached"
                                                      ELSE phase[w]]
  /\ read' = [g \in Readers |-> IF read[g].phase = "attached"
                                THEN [read[g] EXCEPT !.phase = "detached"]
                                ELSE read[g]]

(* A GET opens the file. *)
Open(g) ==
  /\ read[g].phase = "idle"
  /\ file.content # Absent
  /\ read' = [read EXCEPT ![g] = [phase |-> "attached", seen |-> file.content]]
  /\ UNCHANGED <<file, phase>>

(* A GET ends. *)
Done(g) ==
  /\ read[g].phase \in {"attached", "detached"}
  /\ read' = [read EXCEPT ![g].phase = "closed"]
  /\ UNCHANGED <<file, phase>>

(* No handler has the file open, and no PUT will come. *)
AllDone == /\ \A w \in Uploads : phase[w] \in {"stored", "failed"}
           /\ \A g \in Readers : read[g].phase \in {"idle", "closed"}
           /\ UNCHANGED vars

Next == \/ \E w \in Uploads : \/ Create(w)
                              \/ Reject(w)
                              \/ \E whole \in BOOLEAN : Close(w, whole)
        \/ Remove
        \/ \E g \in Readers : Open(g) \/ Done(g)
        \/ AllDone

Spec == Init /\ [][Next]_vars

-----------------------------------------------------------------------------
(* A GET that has the file open and was promised a body: the file holds    *)
(* that body now (a PUT truncating the file under it withdraws the promise,*)
(* a DELETE or a new file of the same name does not).                      *)
ReadKeepsPromise ==
  \A g \in Readers :
    read[g].phase = "attached" /\ read[g].seen # Torn =>
      file.content = read[g].seen

BodyGoesOnPurpose ==
  file.content \in Uploads /\ file'.content # file.content =>
    \/ file'.content = Absent
    \/ \E w \in Uploads : phase[w] = "idle" /\ phase'[w] = "open"

(* A body that is there goes only when a PUT opens the file or a DELETE    *)
(* removes it: never because some older PUT ends, or fails (store.Put).    *)
BodyStays == [][BodyGoesOnPurpose]_vars
=============================================================================
