-------------------------- MODULE ObjectStoreProofs --------------------------
(***************************************************************************)
(* For any number of uploads, deletes, downloads, keys, nodes and faults,  *)
(* and any placement: ObjectStore is type correct, and a row of the        *)
(* database only ever names an upload that all its nodes have stored and   *)
(* that is never rolled back.                                              *)
(***************************************************************************)
EXTENDS ObjectStore, TLAPS

\* Past placement an upload has at least two targets.
PlacedOnTwo ==
  \A u \in Uploads :
    up[u].pc \in {"puts", "rollback", "commit", "ok"} =>
      Len(Targets[UPath(u)]) >= 2

\* The API takes a PUT for done only when the node has stored it.
OkIsStored ==
  \A u \in Uploads, n \in Nodes : reply[u][n] = "ok" => put[u][n] = "stored"

\* DELETEs of an upload go out in its rollback and not before.
UndeletedBefore ==
  \A u \in Uploads :
    up[u].pc \in {"idle", "puts", "commit", "ok"} =>
      \A n \in Nodes : del[u][n] = "none"

\* Only an upload whose every PUT was acknowledged comes to UpsertObject.
CommitIsStored ==
  \A u \in Uploads :
    up[u].pc \in {"commit", "ok"} =>
      \A n \in TargetSet(UPath(u)) : reply[u][n] = "ok"

\* Upload u = r.etag, whose row r is that of key k, is past UpsertObject,
\* stored by all its nodes, and no DELETE of its own has gone out.
CommittedAs(k, r) ==
  LET u == r.etag
      t == Targets[Path[k]] IN
  /\ up[u].key = k /\ up[u].pc \in {"ok", "err"}
  /\ Len(t) >= 2 /\ r.primary = t[1] /\ r.replica = t[2]
  /\ \A n \in TargetSet(Path[k]) : reply[u][n] = "ok"
  /\ \A n \in Nodes : del[u][n] = "none"

RowIsCommitted == \A k \in Keys : row[k] # NoRow => CommittedAs(k, row[k])

UploadsInv == PlacedOnTwo /\ OkIsStored /\ UndeletedBefore /\ CommitIsStored

\* A download that asks a node has read a row.
AsksByRow ==
  \A g \in Downloads : dl[g].pc \in {"primary", "replica"} => dl[g].rec \in Rows

StoreInv == TypeOK /\ UploadsInv /\ RowIsCommitted /\ AsksByRow

-----------------------------------------------------------------------------
(* The files the storage nodes make are files. *)
LEMMA OpenedIsFile ==
  ASSUME NEW f \in Files, NEW u \in Uploads
  PROVE  Opened(f, u) \in Files
  BY DEF Opened, Files, Contents

LEMMA ClosedIsFile ==
  ASSUME NEW f \in Files, NEW u \in Uploads, NEW others, NEW whole
  PROVE  Closed(f, u, others, whole) \subseteq Files
  BY DEF Closed, Settled, Files, Contents

LEMMA NoFileIsFile == NoFile \in Files
  BY DEF NoFile, Files, Contents

(* Each index of a placement is a node, and there are at least two. *)
LEMMA TargetsAreNodes ==
  ASSUME NEW p \in Paths
  PROVE  /\ Len(Targets[p]) \in Nat
         /\ \A i \in 1..Len(Targets[p]) : Targets[p][i] \in Nodes
         /\ TargetSet(p) \subseteq Nodes
  BY TargetsForm DEF TargetSet

(* Requests stay requests of known paths. *)
LEMMA PathsOfRequests ==
  ASSUME TypeOK
  PROVE  /\ \A u \in Uploads : UPath(u) \in Paths
         /\ \A d \in Deletes : DPath(d) \in Paths
         /\ \A g \in Downloads : GPath(g) \in Paths
         /\ \A q \in Mutators : QPath(q) \in Paths
  BY PathForm DEF TypeOK, UPath, DPath, GPath, QPath, Mutators, UploadStates,
                  DeleteStates, DownloadStates

-----------------------------------------------------------------------------
LEMMA InitInv == Init => StoreInv
  <1> SUFFICES ASSUME Init PROVE StoreInv
    OBVIOUS
  <1> USE DEF Init
  <1>1. TypeOK
    <2>1. file \in [Nodes -> [Paths -> Files]]
      BY NoFileIsFile
    <2>2. up \in [Uploads -> UploadStates]
      BY DEF UploadStates
    <2>3. rm \in [Deletes -> DeleteStates]
      BY DEF DeleteStates
    <2>4. dl \in [Downloads -> DownloadStates]
      BY DEF DownloadStates
    <2> QED  BY <2>1, <2>2, <2>3, <2>4, MaxFaultsForm DEF TypeOK, PutStates, Replies, DelStates
  <1>2. PlacedOnTwo /\ UndeletedBefore /\ CommitIsStored
    BY DEF PlacedOnTwo, UndeletedBefore, CommitIsStored, Mutators
  <1>3. OkIsStored /\ RowIsCommitted /\ AsksByRow
    BY DEF OkIsStored, RowIsCommitted, AsksByRow
  <1> QED  BY <1>1, <1>2, <1>3 DEF StoreInv, UploadsInv

-----------------------------------------------------------------------------
(* Type correctness is preserved.  Only two steps need more than types: the *)
(* row of Upserted has two nodes, and a download that asks a node has a row. *)
LEMMA TypeNext == StoreInv /\ [Next]_vars => TypeOK'
  <1> SUFFICES ASSUME StoreInv, [Next]_vars PROVE TypeOK'
    OBVIOUS
  <1>type. TypeOK
    BY DEF StoreInv
  <1>row. row \in [Keys -> Rows \cup {NoRow}]
    BY <1>type DEF TypeOK
  <1>file. file \in [Nodes -> [Paths -> Files]]
    BY <1>type DEF TypeOK
  <1>put. put \in [Uploads -> [Nodes -> PutStates]]
    BY <1>type DEF TypeOK
  <1>reply. reply \in [Uploads -> [Nodes -> Replies]]
    BY <1>type DEF TypeOK
  <1>del. del \in [Mutators -> [Nodes -> DelStates]]
    BY <1>type DEF TypeOK
  <1>up. up \in [Uploads -> UploadStates]
    BY <1>type DEF TypeOK
  <1>rm. rm \in [Deletes -> DeleteStates]
    BY <1>type DEF TypeOK
  <1>dl. dl \in [Downloads -> DownloadStates]
    BY <1>type DEF TypeOK
  <1>gone. gone \in SUBSET Mutators
    BY <1>type DEF TypeOK
  <1>down. down \in SUBSET Nodes
    BY <1>type DEF TypeOK
  <1>faults. faults \in 0..MaxFaults
    BY <1>type DEF TypeOK
  <1>last. last \in [Paths -> Mutators \cup {None}]
    BY <1>type DEF TypeOK
  <1>paths. /\ \A u \in Uploads : UPath(u) \in Paths
            /\ \A d \in Deletes : DPath(d) \in Paths
            /\ \A g \in Downloads : GPath(g) \in Paths
            /\ \A q \in Mutators : QPath(q) \in Paths
    BY PathsOfRequests DEF StoreInv
  <1>ups. ASSUME NEW u \in Uploads, up[u].pc = "commit"
          PROVE  Upserted(u) \in [Keys -> Rows \cup {NoRow}]
    <2> DEFINE t == Targets[UPath(u)]
    <2>1. Len(t) >= 2 /\ t[1] \in Nodes /\ t[2] \in Nodes
      BY <1>ups, <1>paths, TargetsAreNodes DEF StoreInv, UploadsInv, PlacedOnTwo
    <2>2. [etag |-> u, primary |-> t[1], replica |-> t[2]] \in Rows
      BY <2>1 DEF Rows
    <2> QED  BY <1>row, <2>2 DEF Upserted
  <1>asked. ASSUME NEW g \in Downloads, dl[g].pc \in {"primary", "replica"}
            PROVE  Asked(dl[g]) \in Nodes
    BY <1>asked, <1>dl DEF Asked, Rows, DownloadStates, StoreInv, AsksByRow
  <1>upd. ASSUME NEW h \in DownloadStates
          PROVE  /\ [h EXCEPT !.calm = FALSE] \in DownloadStates
                 /\ [h EXCEPT !.linked = FALSE] \in DownloadStates
                 /\ [h EXCEPT !.seen = Torn] \in DownloadStates
    BY DEF DownloadStates
  <1>dist. ASSUME NEW p, NEW pcs
           PROVE  Disturbed(p, pcs) \in [Downloads -> DownloadStates]
    BY <1>dl, <1>upd DEF Disturbed
  <1>1. ASSUME NEW u \in Uploads, StartUpload(u) PROVE TypeOK'
    <2>1. up' \in [Uploads -> UploadStates]
      BY <1>1, <1>up DEF StartUpload, UploadStates
    <2>2. put' \in [Uploads -> [Nodes -> PutStates]]
      BY <1>1, <1>put DEF StartUpload, PutStates
    <2>3. reply' \in [Uploads -> [Nodes -> Replies]]
      BY <1>1, <1>reply DEF StartUpload, Replies
    <2>4. last' \in [Paths -> Mutators \cup {None}]
      BY <1>1, <1>last, <1>paths DEF StartUpload, Begin, Mutators
    <2>5. dl' \in [Downloads -> DownloadStates]
      BY <1>1, <1>dl, <1>dist DEF StartUpload
    <2> QED  BY <1>1, <2>1, <2>2, <2>3, <2>4, <2>5, <1>type DEF StartUpload,
       TypeOK
  <1>2. ASSUME NEW u \in Uploads, NEW n \in Nodes, PutAnswered(u, n) PROVE
     TypeOK'
    <2>1. reply' \in [Uploads -> [Nodes -> Replies]]
      BY <1>2, <1>reply DEF PutAnswered, Replies
    <2> QED  BY <1>2, <2>1, <1>type DEF PutAnswered, TypeOK
  <1>3. ASSUME NEW u \in Uploads, NEW n \in Nodes, PutGivenUp(u, n) PROVE
     TypeOK'
    <2>1. reply' \in [Uploads -> [Nodes -> Replies]]
      BY <1>3, <1>reply DEF PutGivenUp, CallLost, Replies
    <2> QED  BY <1>3, <2>1, <1>type DEF PutGivenUp, CallLost, TypeOK
  <1>4. ASSUME NEW u \in Uploads, Decide(u) PROVE TypeOK'
    <2>1. up' \in [Uploads -> UploadStates]
      BY <1>4, <1>up DEF Decide, UploadStates
    <2>2. del' \in [Mutators -> [Nodes -> DelStates]]
      BY <1>4, <1>del DEF Decide, DelStates, Mutators
    <2> QED  BY <1>4, <2>1, <2>2, <1>type DEF Decide, TypeOK
  <1>5. ASSUME NEW u \in Uploads, Rollback(u) PROVE TypeOK'
    <2>1. up' \in [Uploads -> UploadStates]
      BY <1>5, <1>up DEF Rollback, UploadStates
    <2>2. del' \in [Mutators -> [Nodes -> DelStates]]
      BY <1>5, <1>del DEF Rollback, DelStates, Mutators
    <2> QED  BY <1>5, <2>1, <2>2, <1>type DEF Rollback, TypeOK
  <1>6. ASSUME NEW u \in Uploads, Commit(u) PROVE TypeOK'
    <2>1. row' \in [Keys -> Rows \cup {NoRow}]
      BY <1>6, <1>row, <1>ups DEF Commit
    <2>2. up' \in [Uploads -> UploadStates]
      BY <1>6, <1>up DEF Commit, UploadStates
    <2> QED  BY <1>6, <2>1, <2>2, <1>type DEF Commit, TypeOK
  <1>7. ASSUME NEW u \in Uploads, CommitFails(u) PROVE TypeOK'
    <2>1. row' \in [Keys -> Rows \cup {NoRow}]
      BY <1>7, <1>row, <1>ups DEF CommitFails
    <2>2. up' \in [Uploads -> UploadStates]
      BY <1>7, <1>up DEF CommitFails, UploadStates
    <2>3. faults' \in 0..MaxFaults
      BY <1>7, <1>faults, MaxFaultsForm DEF CommitFails, Fault, Excused
    <2> QED  BY <1>7, <2>1, <2>2, <2>3, <1>type DEF CommitFails, TypeOK
  <1>8. ASSUME NEW u \in Uploads, NEW n \in Nodes, NodeOpen(u, n) PROVE
     TypeOK'
    <2>1. put' \in [Uploads -> [Nodes -> PutStates]]
      BY <1>8, <1>put DEF NodeOpen, PutStates
    <2>2. file' \in [Nodes -> [Paths -> Files]]
      BY <1>8, <1>file, <1>paths, OpenedIsFile DEF NodeOpen
    <2>3. dl' \in [Downloads -> DownloadStates]
      BY <1>8, <1>dl, <1>upd DEF NodeOpen
    <2> QED  BY <1>8, <2>1, <2>2, <2>3, <1>type DEF NodeOpen, TypeOK
  <1>9. ASSUME NEW u \in Uploads, NEW n \in Nodes, NodeRefuse(u, n) PROVE
     TypeOK'
    <2>1. put' \in [Uploads -> [Nodes -> PutStates]]
      BY <1>9, <1>put DEF NodeRefuse, PutStates
    <2>2. faults' \in 0..MaxFaults
      BY <1>9, <1>faults, MaxFaultsForm DEF NodeRefuse, Fault, Excused
    <2> QED  BY <1>9, <2>1, <2>2, <1>type DEF NodeRefuse, TypeOK
  <1>10. ASSUME NEW u \in Uploads, NEW n \in Nodes, NEW whole \in BOOLEAN,
     NodeClose(u, n, whole) PROVE TypeOK'
    <2>1. put' \in [Uploads -> [Nodes -> PutStates]]
      BY <1>10, <1>put DEF NodeClose, PutStates
    <2>2. file' \in [Nodes -> [Paths -> Files]]
      BY <1>10, <1>file, <1>paths, ClosedIsFile DEF NodeClose
    <2>3. faults' \in 0..MaxFaults
      BY <1>10, <1>faults, MaxFaultsForm DEF NodeClose, Fault, Excused
    <2> QED  BY <1>10, <2>1, <2>2, <2>3, <1>type DEF NodeClose, TypeOK
  <1>11. ASSUME NEW q \in Mutators, NEW n \in Nodes, NodeDelete(q, n) PROVE
     TypeOK'
    <2>1. del' \in [Mutators -> [Nodes -> DelStates]]
      BY <1>11, <1>del DEF NodeDelete, DelStates, Mutators
    <2>2. file' \in [Nodes -> [Paths -> Files]]
      BY <1>11, <1>file, <1>paths, NoFileIsFile DEF NodeDelete
    <2>3. put' \in [Uploads -> [Nodes -> PutStates]]
      BY <1>11, <1>put DEF NodeDelete, PutStates
    <2>4. dl' \in [Downloads -> DownloadStates]
      BY <1>11, <1>dl, <1>upd DEF NodeDelete
    <2> QED  BY <1>11, <2>1, <2>2, <2>3, <2>4, <1>type DEF NodeDelete, TypeOK
  <1>12. ASSUME NEW q \in Mutators, NEW n \in Nodes, NodeDeleteFails(q, n)
     PROVE TypeOK'
    <2>1. del' \in [Mutators -> [Nodes -> DelStates]]
      BY <1>12, <1>del DEF NodeDeleteFails, DelStates, Mutators
    <2>2. faults' \in 0..MaxFaults
      BY <1>12, <1>faults, MaxFaultsForm DEF NodeDeleteFails, Fault, Excused
    <2> QED  BY <1>12, <2>1, <2>2, <1>type DEF NodeDeleteFails, TypeOK
  <1>13. ASSUME NEW d \in Deletes, StartDelete(d) PROVE TypeOK'
    <2>1. rm' \in [Deletes -> DeleteStates]
      BY <1>13, <1>rm, <1>row DEF StartDelete, DeleteStates
    <2>2. del' \in [Mutators -> [Nodes -> DelStates]]
      BY <1>13, <1>del DEF StartDelete, DelStates, Mutators
    <2>3. last' \in [Paths -> Mutators \cup {None}]
      BY <1>13, <1>last, <1>paths DEF StartDelete, Begin, Mutators
    <2>4. dl' \in [Downloads -> DownloadStates]
      BY <1>13, <1>dl, <1>dist DEF StartDelete
    <2> QED  BY <1>13, <2>1, <2>2, <2>3, <2>4, <1>type DEF StartDelete, TypeOK
  <1>14. ASSUME NEW d \in Deletes, NextCopy(d) PROVE TypeOK'
    <2>1. rm' \in [Deletes -> DeleteStates]
      BY <1>14, <1>rm DEF NextCopy, DeleteStates
    <2>2. del' \in [Mutators -> [Nodes -> DelStates]]
      BY <1>14, <1>del DEF NextCopy, DelStates, Mutators
    <2> QED  BY <1>14, <2>1, <2>2, <1>type DEF NextCopy, TypeOK
  <1>15. ASSUME NEW d \in Deletes, Expire(d) PROVE TypeOK'
    <2>1. gone' \in SUBSET Mutators
      BY <1>15, <1>gone DEF Expire, Mutators
    <2> QED  BY <1>15, <2>1, <1>type DEF Expire, TypeOK
  <1>16. ASSUME NEW d \in Deletes, RowDelete(d) PROVE TypeOK'
    <2>1. row' \in [Keys -> Rows \cup {NoRow}]
      BY <1>16, <1>row DEF RowDelete
    <2>2. rm' \in [Deletes -> DeleteStates]
      BY <1>16, <1>rm DEF RowDelete, DeleteStates
    <2> QED  BY <1>16, <2>1, <2>2, <1>type DEF RowDelete, TypeOK
  <1>17. ASSUME NEW d \in Deletes, RowDeleteFails(d) PROVE TypeOK'
    <2>1. row' \in [Keys -> Rows \cup {NoRow}]
      BY <1>17, <1>row DEF RowDeleteFails
    <2>2. rm' \in [Deletes -> DeleteStates]
      BY <1>17, <1>rm DEF RowDeleteFails, DeleteStates
    <2>3. faults' \in 0..MaxFaults
      BY <1>17, <1>faults, MaxFaultsForm DEF RowDeleteFails, Fault, Excused
    <2> QED  BY <1>17, <2>1, <2>2, <2>3, <1>type DEF RowDeleteFails, TypeOK
  <1>18. ASSUME NEW g \in Downloads, StartDownload(g) PROVE TypeOK'
    <2>1. dl' \in [Downloads -> DownloadStates]
      <3> DEFINE r == row[dl[g].key]
                 c == last[GPath(g)] = r.etag
      <3>1. CASE r = NoRow
        BY <1>18, <1>dl, <3>1 DEF StartDownload, DownloadStates
      <3>2. CASE r # NoRow
        <4>1. r \in Rows
          BY <1>dl, <1>row, <3>2 DEF DownloadStates
        <4>2. c \in BOOLEAN
          OBVIOUS
        <4>3. [dl[g] EXCEPT !.pc = "primary", !.rec = r, !.calm = c]
                \in DownloadStates
          <5> DEFINE d == dl[g]
          <5>1. d \in DownloadStates
            BY <1>dl
          <5> HIDE DEF r, c, d
          <5>2. [d EXCEPT !.pc = "primary", !.rec = r, !.calm = c] \in DownloadStates
            BY <4>1, <4>2, <5>1, ZenonT(30) DEF DownloadStates
          <5> QED BY <5>2 DEF d
        <4> QED  BY <1>18, <1>dl, <3>2, <4>3 DEF StartDownload
      <3> QED  BY <3>1, <3>2
    <2> QED  BY <1>18, <2>1, <1>type DEF StartDownload, TypeOK
  <1>19. ASSUME NEW g \in Downloads, GetOpens(g) PROVE TypeOK'
    <2>1. dl' \in [Downloads -> DownloadStates]
      <3> DEFINE n == Asked(dl[g])
                 c == file[n][GPath(g)].content
      <3>1. n \in Nodes /\ c \in Uploads \cup {Torn}
        BY <1>19, <1>asked, <1>file, <1>paths DEF GetOpens, Files, Contents
      <3>2. [dl[g] EXCEPT !.pc = "stream", !.node = n, !.seen = c,
                          !.linked = TRUE] \in DownloadStates
        <4> DEFINE d == dl[g]
        <4>1. d \in DownloadStates
          BY <1>dl
        <4> HIDE DEF n, c, d
        <4>2. [d EXCEPT !.pc = "stream", !.node = n, !.seen = c,
                        !.linked = TRUE] \in DownloadStates
          BY <3>1, <4>1, ZenonT(30) DEF DownloadStates
        <4> QED  BY <4>2 DEF d
      <3> QED  BY <1>19, <1>dl, <3>2 DEF GetOpens
    <2> QED  BY <1>19, <2>1, <1>type DEF GetOpens, TypeOK
  <1>20. ASSUME NEW g \in Downloads, GetFails(g) PROVE TypeOK'
    <2>1. dl' \in [Downloads -> DownloadStates]
      <3> DEFINE n == Asked(dl[g])
                 c == IF dl[g].pc = "primary" THEN "replica" ELSE "err"
      <3>1. n \in Nodes /\ c \in {"replica", "err"}
        BY <1>20, <1>asked DEF GetFails
      <3>2. \A l \in {dl[g].lost, dl[g].lost \cup {n}} :
              [dl[g] EXCEPT !.pc = c, !.lost = l] \in DownloadStates
        <4> DEFINE d == dl[g]
        <4>1. d \in DownloadStates
          BY <1>dl
        <4> HIDE DEF n, c, d
        <4>2. \A l \in SUBSET Nodes : [d EXCEPT !.pc = c, !.lost = l] \in DownloadStates
          BY <3>1, <4>1, ZenonT(30) DEF DownloadStates
        <4>3. {d.lost, d.lost \cup {n}} \subseteq SUBSET Nodes
          BY <3>1, <4>1, ZenonT(30) DEF DownloadStates
        <4> QED  BY <4>2, <4>3 DEF d
      <3>3. \E l \in {dl[g].lost, dl[g].lost \cup {n}} :
              dl' = [dl EXCEPT ![g] = [@ EXCEPT !.pc = c, !.lost = l]]
        BY <1>20, <1>dl DEF GetFails
      <3> QED  BY <1>dl, <3>2, <3>3
    <2>2. faults' \in 0..MaxFaults
      BY <1>20, <1>faults, MaxFaultsForm DEF GetFails, Fault, Excused
    <2> QED  BY <1>20, <2>1, <2>2, <1>type DEF GetFails, TypeOK
  <1>21. ASSUME NEW g \in Downloads, StreamEnds(g) PROVE TypeOK'
    <2>1. dl' \in [Downloads -> DownloadStates]
      BY <1>21, <1>dl DEF StreamEnds, DownloadStates
    <2> QED  BY <1>21, <2>1, <1>type DEF StreamEnds, TypeOK
  <1>22. ASSUME NEW g \in Downloads, StreamBreaks(g) PROVE TypeOK'
    <2>1. dl' \in [Downloads -> DownloadStates]
      BY <1>22, <1>dl DEF StreamBreaks, DownloadStates
    <2>2. faults' \in 0..MaxFaults
      BY <1>22, <1>faults, MaxFaultsForm DEF StreamBreaks, Fault, Excused
    <2> QED  BY <1>22, <2>1, <2>2, <1>type DEF StreamBreaks, TypeOK
  <1>23. ASSUME FindFails PROVE TypeOK'
    <2>1. rm' \in [Deletes -> DeleteStates]
      BY <1>23, <1>rm DEF FindFails, DeleteStates
    <2>2. dl' \in [Downloads -> DownloadStates]
      BY <1>23, <1>dl DEF FindFails, DownloadStates
    <2>3. faults' \in 0..MaxFaults
      BY <1>23, <1>faults, MaxFaultsForm DEF FindFails, Fault
    <2> QED  BY <1>23, <2>1, <2>2, <2>3, <1>type DEF FindFails, TypeOK
  <1>24. ASSUME NEW q \in Mutators, Cancel(q) PROVE TypeOK'
    <2>1. gone' \in SUBSET Mutators
      BY <1>24, <1>gone DEF Cancel, Mutators
    <2>2. faults' \in 0..MaxFaults
      BY <1>24, <1>faults, MaxFaultsForm DEF Cancel, Fault
    <2> QED  BY <1>24, <2>1, <2>2, <1>type DEF Cancel, TypeOK
  <1>25. ASSUME ApiCrash PROVE TypeOK'
    <2>1. up' \in [Uploads -> UploadStates]
      BY <1>25, <1>up DEF ApiCrash, UploadStates
    <2>2. rm' \in [Deletes -> DeleteStates]
      BY <1>25, <1>rm DEF ApiCrash, DeleteStates
    <2>3. dl' \in [Downloads -> DownloadStates]
      BY <1>25, <1>dl DEF ApiCrash, DownloadStates
    <2>4. faults' \in 0..MaxFaults
      BY <1>25, <1>faults, MaxFaultsForm DEF ApiCrash, Fault
    <2> QED  BY <1>25, <2>1, <2>2, <2>3, <2>4, <1>type DEF ApiCrash, TypeOK
  <1>26. ASSUME NEW n \in Nodes, NodeStops(n) PROVE TypeOK'
    <2>1. down' \in SUBSET Nodes
      BY <1>26, <1>down DEF NodeStops
    <2>2. faults' \in 0..MaxFaults
      BY <1>26, <1>faults, MaxFaultsForm DEF NodeStops, Fault
    <2> QED  BY <1>26, <2>1, <2>2, <1>type DEF NodeStops, TypeOK
  <1>27. ASSUME NEW n \in Nodes, NodeResumes(n) PROVE TypeOK'
    <2>1. down' \in SUBSET Nodes
      BY <1>27, <1>down DEF NodeResumes
    <2> QED  BY <1>27, <2>1, <1>type DEF NodeResumes, TypeOK
  <1>28. CASE AllDone \/ UNCHANGED vars
    BY <1>28, <1>type DEF AllDone, vars, TypeOK
  <1> QED
    BY <1>1, <1>2, <1>3, <1>4, <1>5, <1>6, <1>7, <1>8, <1>9, <1>10, <1>11,
       <1>12, <1>13, <1>14, <1>15, <1>16, <1>17, <1>18, <1>19, <1>20, <1>21,
       <1>22, <1>23, <1>24, <1>25, <1>26, <1>27, <1>28 DEF Next, UploadStep,
       DeleteStep, DownloadStep, NodeStep

-----------------------------------------------------------------------------
(* A step for upload u that keeps keys and leaves the other uploads alone   *)
(* keeps what holds of each upload, if it does so for u.                    *)
LEMMA OneUploadMoves ==
  ASSUME StoreInv, NEW u \in Uploads,
         \A v \in Uploads : up'[v].key = up[v].key,
         \A v \in Uploads \ {u} :
           /\ up'[v].pc = up[v].pc
           /\ \A n \in Nodes : /\ reply'[v][n] = reply[v][n]
                               /\ put'[v][n] = put[v][n]
                               /\ del'[v][n] = del[v][n],
         up'[u].pc \in {"puts", "rollback", "commit", "ok"} =>
           Len(Targets[UPath(u)]) >= 2,
         \A n \in Nodes : reply'[u][n] = "ok" => put'[u][n] = "stored",
         up'[u].pc \in {"idle", "puts", "commit", "ok"} =>
           \A n \in Nodes : del'[u][n] = "none",
         up'[u].pc \in {"commit", "ok"} =>
           \A n \in TargetSet(UPath(u)) : reply'[u][n] = "ok"
  PROVE  UploadsInv'
  <1>1. \A v \in Uploads : UPath(v)' = UPath(v)
    BY DEF UPath
  <1>2. \A v \in Uploads : TargetSet(UPath(v))' = TargetSet(UPath(v))
    BY <1>1 DEF TargetSet
  <1>3. \A v \in Uploads : TargetSet(UPath(v)) \subseteq Nodes
    BY TargetsAreNodes, PathsOfRequests DEF StoreInv
  <1>4. PlacedOnTwo'
    BY <1>1 DEF StoreInv, UploadsInv, PlacedOnTwo
  <1>5. OkIsStored'
    BY DEF StoreInv, UploadsInv, OkIsStored
  <1>6. UndeletedBefore'
    BY DEF StoreInv, UploadsInv, UndeletedBefore
  <1>7. CommitIsStored'
    BY <1>2, <1>3 DEF StoreInv, UploadsInv, CommitIsStored
  <1> QED  BY <1>4, <1>5, <1>6, <1>7 DEF UploadsInv

(* A step keeps RowIsCommitted if it leaves the rows alone, and every       *)
(* answered upload answered, with its replies, and free of DELETEs.         *)
LEMMA RowsStay ==
  ASSUME StoreInv, row' = row,
         \A u \in Uploads : up[u].pc \in {"ok", "err"} =>
           /\ up'[u].key = up[u].key /\ up'[u].pc \in {"ok", "err"}
           /\ \A n \in Nodes : reply[u][n] = "ok" => reply'[u][n] = "ok"
           /\ \A n \in Nodes : del[u][n] = "none" => del'[u][n] = "none"
  PROVE  RowIsCommitted'
  <1> SUFFICES ASSUME NEW k \in Keys, row'[k] # NoRow
               PROVE  CommittedAs(k, row[k])'
    BY DEF RowIsCommitted, CommittedAs, TargetSet
  <1>1. row[k].etag \in Uploads
    BY DEF StoreInv, TypeOK, Rows
  <1>2. TargetSet(Path[k]) \subseteq Nodes
    BY TargetsAreNodes, PathForm
  <1>3. CommittedAs(k, row[k])
    BY DEF StoreInv, RowIsCommitted
  <1> QED  BY <1>1, <1>2, <1>3 DEF CommittedAs, TargetSet

(* UpsertObject keeps RowIsCommitted, whether it takes effect or not.       *)
LEMMA RowWritten ==
  ASSUME StoreInv, NEW u \in Uploads, up[u].pc = "commit",
         row' \in {row, Upserted(u)},
         up' \in {[up EXCEPT ![u].pc = "ok"], [up EXCEPT ![u].pc = "err"]},
         reply' = reply, del' = del
  PROVE  RowIsCommitted'
  <1>up. /\ up'[u].key = up[u].key /\ up'[u].pc \in {"ok", "err"}
         /\ \A v \in Uploads \ {u} : up'[v] = up[v]
    BY DEF StoreInv, TypeOK, UploadStates
  <1>1. CASE row' = row
    BY <1>1, <1>up, RowsStay
  <1>2. CASE row' = Upserted(u)
    <2> DEFINE k == up[u].key
               t == Targets[Path[k]]
    <2>1. k \in Keys /\ Path[k] \in Paths
      BY PathForm DEF StoreInv, TypeOK, UploadStates
    <2>2. /\ row'[k] = [etag |-> u, primary |-> t[1], replica |-> t[2]]
          /\ \A j \in Keys \ {k} : row'[j] = row[j]
      BY <1>2, <2>1 DEF Upserted, UPath, StoreInv, TypeOK
    <2>3. /\ Len(t) >= 2
          /\ \A n \in TargetSet(Path[k]) : reply[u][n] = "ok"
          /\ \A n \in Nodes : del[u][n] = "none"
      BY DEF StoreInv, UploadsInv, PlacedOnTwo, CommitIsStored, UndeletedBefore,
             UPath
    <2> SUFFICES ASSUME NEW j \in Keys, row'[j] # NoRow
                 PROVE  CommittedAs(j, row[j])'
      BY DEF RowIsCommitted, CommittedAs, TargetSet
    <2>4. CASE j = k
      <3>1. /\ row'[j].etag = u
            /\ row'[j].primary = t[1] /\ row'[j].replica = t[2]
        BY <2>4, <2>2
      <3>2. up'[u].key = j
        BY <2>4, <1>up
      <3>3. /\ up'[u].key = j /\ up'[u].pc \in {"ok", "err"}
            /\ \A n \in TargetSet(Path[j]) : reply'[u][n] = "ok"
            /\ \A n \in Nodes : del'[u][n] = "none"
        BY <1>up, <2>3, <2>4, <3>2
      <3>4. t = Targets[Path[j]] /\ Len(t) >= 2
        BY <2>3, <2>4
      <3> HIDE DEF t, k, StoreInv
      <3> QED  BY <3>1, <3>3, <3>4, SMTT(30) DEF CommittedAs
    <2>5. CASE j # k
      <3>1. row[j].etag \in Uploads /\ row'[j] = row[j]
        BY <2>2, <2>5 DEF StoreInv, TypeOK, Rows
      <3>2. row[j].etag # u
        BY <3>1, <2>5 DEF StoreInv, RowIsCommitted, CommittedAs
      <3> QED  BY <3>1, <3>2, <1>up
               DEF StoreInv, RowIsCommitted, CommittedAs, TargetSet
    <2> QED  BY <2>4, <2>5
  <1> QED  BY <1>1, <1>2

-----------------------------------------------------------------------------
(* Every step keeps what holds of uploads and of rows.                      *)
LEMMA UploadsAndRowsNext ==
  StoreInv /\ [Next]_vars => UploadsInv' /\ RowIsCommitted'
  <1> SUFFICES ASSUME StoreInv, [Next]_vars
               PROVE  UploadsInv' /\ RowIsCommitted'
    OBVIOUS
  <1>type. /\ row \in [Keys -> Rows \cup {NoRow}]
           /\ put \in [Uploads -> [Nodes -> PutStates]]
           /\ reply \in [Uploads -> [Nodes -> Replies]]
           /\ del \in [Mutators -> [Nodes -> DelStates]]
           /\ up \in [Uploads -> UploadStates]
    BY DEF StoreInv, TypeOK
  <1>inv. PlacedOnTwo /\ OkIsStored /\ UndeletedBefore /\ CommitIsStored
    BY DEF StoreInv, UploadsInv
  \* Steps that leave the uploads' handlers, replies, DELETEs and the rows.
  <1>same. ASSUME UNCHANGED <<row, reply, up>>,
                  \A u \in Uploads, n \in Nodes :
                    /\ put[u][n] = "stored" => put'[u][n] = "stored"
                    /\ del[u][n] = "none" => del'[u][n] = "none"
           PROVE  UploadsInv' /\ RowIsCommitted'
    <2>1. UploadsInv'
      BY <1>same, <1>inv, TargetsAreNodes, PathsOfRequests
         DEF StoreInv, UploadsInv, PlacedOnTwo, OkIsStored, UndeletedBefore,
             CommitIsStored, UPath, TargetSet
    <2>2. RowIsCommitted'
      BY <1>same, RowsStay
    <2> QED  BY <2>1, <2>2
  <1>1. ASSUME NEW u \in Uploads, StartUpload(u)
        PROVE  UploadsInv' /\ RowIsCommitted'
    <2>up. \/ up' = [up EXCEPT ![u].pc = "invalid"]
           \/ up' = [up EXCEPT ![u].pc = "puts"]
      BY <1>1 DEF StartUpload
    <2>a. /\ \A v \in Uploads : up'[v].key = up[v].key
          /\ \A v \in Uploads \ {u} : up'[v] = up[v]
      <3>1. CASE up' = [up EXCEPT ![u].pc = "invalid"]
        BY <3>1, <1>type DEF UploadStates
      <3>2. CASE up' = [up EXCEPT ![u].pc = "puts"]
        BY <3>2, <1>type DEF UploadStates
      <3> QED  BY <2>up, <3>1, <3>2
    <2>c. \A v \in Uploads \ {u} : /\ reply'[v] = reply[v]
                                   /\ put'[v] = put[v]
      BY <1>1, <1>type DEF StartUpload
    <2>d. \A v \in Uploads \ {u} : del'[v] = del[v]
      BY <1>1, <1>type DEF StartUpload, Mutators
    <2>1. /\ \A v \in Uploads : up'[v].key = up[v].key
          /\ \A v \in Uploads \ {u} : /\ up'[v] = up[v]
                                       /\ reply'[v] = reply[v]
                                       /\ put'[v] = put[v]
                                       /\ del'[v] = del[v]
      BY <2>a, <2>c, <2>d
    <2>2. up[u].pc = "idle" /\ up'[u].pc \in {"puts", "invalid"}
      BY <1>1, <1>type DEF StartUpload, UploadStates
    <2>3. up'[u].pc = "puts" => Len(Targets[UPath(u)]) >= 2
      <3>1. Len(Targets[UPath(u)]) < 2 => up' = [up EXCEPT ![u].pc = "invalid"]
        BY <1>1 DEF StartUpload
      <3>2. Len(Targets[UPath(u)]) \in Nat
        BY TargetsAreNodes, PathsOfRequests DEF StoreInv
      <3>3. Len(Targets[UPath(u)]) < 2 => up'[u].pc = "invalid"
        BY <3>1, <1>type DEF UploadStates
      <3> QED  BY <3>2, <3>3
    <2>4. \A n \in Nodes : reply'[u][n] = "ok" => put'[u][n] = "stored"
      BY <1>1, <1>type, <1>inv DEF StartUpload, OkIsStored
    <2>5. \A n \in Nodes : del'[u][n] = "none"
      BY <1>1, <1>inv, <2>2 DEF StartUpload, UndeletedBefore
    <2>6. UploadsInv'
      BY <2>1, <2>2, <2>3, <2>4, <2>5, OneUploadMoves
    <2>7. RowIsCommitted'
      BY <1>1, <2>1, <2>2, RowsStay DEF StartUpload
    <2> QED  BY <2>6, <2>7
  <1>2. ASSUME NEW u \in Uploads, NEW n \in Nodes, PutAnswered(u, n)
        PROVE  UploadsInv' /\ RowIsCommitted'
    <2>1. UploadsInv'
      BY <1>2, <1>type, <1>inv, TargetsAreNodes, PathsOfRequests
         DEF PutAnswered, StoreInv, UploadsInv, PlacedOnTwo, OkIsStored,
             UndeletedBefore, CommitIsStored, UPath, TargetSet
    <2>2. RowIsCommitted'
      BY <1>2, <1>type, RowsStay DEF PutAnswered
    <2> QED  BY <2>1, <2>2
  <1>3. ASSUME NEW u \in Uploads, NEW n \in Nodes, PutGivenUp(u, n)
        PROVE  UploadsInv' /\ RowIsCommitted'
    <2>1. UploadsInv'
      BY <1>3, <1>type, <1>inv, TargetsAreNodes, PathsOfRequests
         DEF PutGivenUp, CallLost, StoreInv, UploadsInv, PlacedOnTwo, OkIsStored,
             UndeletedBefore, CommitIsStored, UPath, TargetSet
    <2>2. RowIsCommitted'
      BY <1>3, <1>type, RowsStay DEF PutGivenUp, CallLost
    <2> QED  BY <2>1, <2>2
  <1>4. ASSUME NEW u \in Uploads, Decide(u)
        PROVE  UploadsInv' /\ RowIsCommitted'
    <2>up. \/ up' = [up EXCEPT ![u].pc = "commit"]
           \/ up' = [up EXCEPT ![u].pc = "rollback", ![u].at = 1]
      BY <1>4 DEF Decide
    <2>a. /\ \A v \in Uploads : up'[v].key = up[v].key
          /\ \A v \in Uploads \ {u} : up'[v] = up[v]
      <3>1. CASE up' = [up EXCEPT ![u].pc = "commit"]
        BY <3>1, <1>type DEF UploadStates
      <3>2. CASE up' = [up EXCEPT ![u].pc = "rollback", ![u].at = 1]
        BY <3>2, <1>type DEF UploadStates
      <3> QED  BY <2>up, <3>1, <3>2
    <2>c. \A v \in Uploads \ {u} : /\ reply'[v] = reply[v]
                                   /\ put'[v] = put[v]
      BY <1>4, <1>type DEF Decide
    <2>d. \A v \in Uploads \ {u} : del'[v] = del[v]
      BY <1>4, <1>type DEF Decide, Mutators
    <2>1. /\ \A v \in Uploads : up'[v].key = up[v].key
          /\ \A v \in Uploads \ {u} : /\ up'[v] = up[v]
                                       /\ reply'[v] = reply[v]
                                       /\ put'[v] = put[v]
                                       /\ del'[v] = del[v]
      BY <2>a, <2>c, <2>d
    <2>2. up[u].pc = "puts" /\ up'[u].pc \in {"commit", "rollback"}
      BY <1>4, <1>type DEF Decide, UploadStates
    <2>3. Len(Targets[UPath(u)]) >= 2
      BY <2>2, <1>inv DEF PlacedOnTwo
    <2>4. \A n \in Nodes : reply'[u][n] = "ok" => put'[u][n] = "stored"
      BY <1>4, <1>inv DEF Decide, OkIsStored
    <2>5. ASSUME up'[u].pc = "commit"
          PROVE  /\ \A n \in Nodes : del'[u][n] = "none"
                 /\ \A n \in TargetSet(UPath(u)) : reply'[u][n] = "ok"
      <3>1. /\ \A i \in 1..Len(Targets[UPath(u)]) :
                  reply[u][Targets[UPath(u)][i]] = "ok"
            /\ UNCHANGED <<reply, del>>
        BY <1>4, <1>type, <2>5 DEF Decide, AllStored, UploadStates
      <3> QED  BY <3>1, <2>2, <1>inv DEF UndeletedBefore, TargetSet
    <2>6. UploadsInv'
      BY <2>1, <2>2, <2>3, <2>4, <2>5, OneUploadMoves
    <2>7. RowIsCommitted'
      BY <1>4, <2>1, <2>2, RowsStay DEF Decide
    <2> QED  BY <2>6, <2>7
  <1>5. ASSUME NEW u \in Uploads, Rollback(u)
        PROVE  UploadsInv' /\ RowIsCommitted'
    <2>up. \/ up' = [up EXCEPT ![u].pc = "err"]
           \/ up' = [up EXCEPT ![u].at = up[u].at + 1]
      BY <1>5 DEF Rollback
    <2>a. /\ \A v \in Uploads : up'[v].key = up[v].key
          /\ \A v \in Uploads \ {u} : up'[v] = up[v]
      <3>1. CASE up' = [up EXCEPT ![u].pc = "err"]
        BY <3>1, <1>type DEF UploadStates
      <3>2. CASE up' = [up EXCEPT ![u].at = up[u].at + 1]
        BY <3>2, <1>type DEF UploadStates
      <3> QED  BY <2>up, <3>1, <3>2
    <2>c. \A v \in Uploads \ {u} : /\ reply'[v] = reply[v]
                                   /\ put'[v] = put[v]
      BY <1>5, <1>type DEF Rollback
    <2>d. \A v \in Uploads \ {u} : del'[v] = del[v]
      BY <1>5, <1>type DEF Rollback, Mutators
    <2>1. /\ \A v \in Uploads : up'[v].key = up[v].key
          /\ \A v \in Uploads \ {u} : /\ up'[v] = up[v]
                                       /\ reply'[v] = reply[v]
                                       /\ put'[v] = put[v]
                                       /\ del'[v] = del[v]
      BY <2>a, <2>c, <2>d
    <2>2. up[u].pc = "rollback" /\ up'[u].pc \in {"rollback", "err"}
      BY <1>5, <1>type DEF Rollback, UploadStates
    <2>3. Len(Targets[UPath(u)]) >= 2
      BY <2>2, <1>inv DEF PlacedOnTwo
    <2>4. \A n \in Nodes : reply'[u][n] = "ok" => put'[u][n] = "stored"
      BY <1>5, <1>inv DEF Rollback, OkIsStored
    <2>5. UploadsInv'
      BY <2>1, <2>2, <2>3, <2>4, OneUploadMoves
    <2>6. RowIsCommitted'
      BY <1>5, <2>1, <2>2, RowsStay DEF Rollback
    <2> QED  BY <2>5, <2>6
  <1>6. ASSUME NEW u \in Uploads, Commit(u) \/ CommitFails(u)
        PROVE  UploadsInv' /\ RowIsCommitted'
    <2>1. /\ up[u].pc = "commit" /\ UNCHANGED <<put, reply, del>>
          /\ up' \in {[up EXCEPT ![u].pc = "ok"], [up EXCEPT ![u].pc = "err"]}
          /\ row' \in {row, Upserted(u)}
      BY <1>6 DEF Commit, CommitFails
    <2>2. /\ \A v \in Uploads : up'[v].key = up[v].key
          /\ \A v \in Uploads \ {u} : up'[v] = up[v]
      <3>1. CASE up' = [up EXCEPT ![u].pc = "ok"]
        BY <3>1, <1>type DEF UploadStates
      <3>2. CASE up' = [up EXCEPT ![u].pc = "err"]
        BY <3>2, <1>type DEF UploadStates
      <3> QED  BY <2>1, <3>1, <3>2
    <2>3. /\ Len(Targets[UPath(u)]) >= 2
          /\ \A n \in Nodes : reply[u][n] = "ok" => put[u][n] = "stored"
          /\ \A n \in Nodes : del[u][n] = "none"
          /\ \A n \in TargetSet(UPath(u)) : reply[u][n] = "ok"
      BY <2>1, <1>inv
         DEF PlacedOnTwo, OkIsStored, UndeletedBefore, CommitIsStored
    <2>4. UploadsInv'
      BY <2>1, <2>2, <2>3, OneUploadMoves
    <2> QED  BY <2>1, <2>4, RowWritten
  <1>7. ASSUME NEW u \in Uploads, NEW n \in Nodes, NodeOpen(u, n)
        PROVE  UploadsInv' /\ RowIsCommitted'
    <2>1. UNCHANGED <<row, reply, up>>
      BY <1>7 DEF NodeOpen
    <2>2. \A v \in Uploads, m \in Nodes :
            /\ put[v][m] = "stored" => put'[v][m] = "stored"
            /\ del[v][m] = "none" => del'[v][m] = "none"
      BY <1>7, <1>type DEF NodeOpen
    <2> QED  BY <2>1, <2>2, <1>same
  <1>8. ASSUME NEW u \in Uploads, NEW n \in Nodes, NodeRefuse(u, n)
        PROVE  UploadsInv' /\ RowIsCommitted'
    <2>1. UNCHANGED <<row, reply, up>>
      BY <1>8 DEF NodeRefuse
    <2>2. \A v \in Uploads, m \in Nodes :
            /\ put[v][m] = "stored" => put'[v][m] = "stored"
            /\ del[v][m] = "none" => del'[v][m] = "none"
      BY <1>8, <1>type DEF NodeRefuse
    <2> QED  BY <2>1, <2>2, <1>same
  <1>9. ASSUME NEW u \in Uploads, NEW n \in Nodes, NEW whole \in BOOLEAN, NodeClose(u, n, whole)
        PROVE  UploadsInv' /\ RowIsCommitted'
    <2>1. UNCHANGED <<row, reply, up>>
      BY <1>9 DEF NodeClose
    <2>2. \A v \in Uploads, m \in Nodes :
            /\ put[v][m] = "stored" => put'[v][m] = "stored"
            /\ del[v][m] = "none" => del'[v][m] = "none"
      BY <1>9, <1>type DEF NodeClose
    <2> QED  BY <2>1, <2>2, <1>same
  <1>10. ASSUME NEW q \in Mutators, NEW n \in Nodes, NodeDelete(q, n)
        PROVE  UploadsInv' /\ RowIsCommitted'
    <2>1. UNCHANGED <<row, reply, up>>
      BY <1>10 DEF NodeDelete
    <2>2. \A v \in Uploads, m \in Nodes :
            /\ put[v][m] = "stored" => put'[v][m] = "stored"
            /\ del[v][m] = "none" => del'[v][m] = "none"
      BY <1>10, <1>type DEF NodeDelete, Mutators
    <2> QED  BY <2>1, <2>2, <1>same
  <1>11. ASSUME NEW q \in Mutators, NEW n \in Nodes, NodeDeleteFails(q, n)
        PROVE  UploadsInv' /\ RowIsCommitted'
    <2>1. UNCHANGED <<row, reply, up>>
      BY <1>11 DEF NodeDeleteFails
    <2>2. \A v \in Uploads, m \in Nodes :
            /\ put[v][m] = "stored" => put'[v][m] = "stored"
            /\ del[v][m] = "none" => del'[v][m] = "none"
      BY <1>11, <1>type DEF NodeDeleteFails, Mutators
    <2> QED  BY <2>1, <2>2, <1>same
  <1>12. ASSUME NEW d \in Deletes, StartDelete(d)
        PROVE  UploadsInv' /\ RowIsCommitted'
    <2>1. /\ UNCHANGED <<row, put, reply, up>>
          /\ \A u \in Uploads : del'[u] = del[u]
      BY <1>12, <1>type, RequestsDisjoint DEF StartDelete, Mutators
    <2> QED  BY <2>1, <1>same
  <1>13. ASSUME NEW d \in Deletes, NextCopy(d)
        PROVE  UploadsInv' /\ RowIsCommitted'
    <2>1. /\ UNCHANGED <<row, put, reply, up>>
          /\ \A u \in Uploads : del'[u] = del[u]
      BY <1>13, <1>type, RequestsDisjoint DEF NextCopy, Mutators
    <2> QED  BY <2>1, <1>same
  <1>14. ASSUME NEW d \in Deletes, RowDelete(d) \/ RowDeleteFails(d)
        PROVE  UploadsInv' /\ RowIsCommitted'
    <2>0. /\ UNCHANGED <<put, reply, del, up>>
          /\ \/ row' = row
             \/ row' = [row EXCEPT ![rm[d].key] = NoRow]
      BY <1>14 DEF RowDelete, RowDeleteFails
    <2>1. /\ UNCHANGED <<put, reply, del, up>>
          /\ \A k \in Keys : row'[k] = row[k] \/ row'[k] = NoRow
      BY <2>0, <1>type
    <2>2. UploadsInv'
      BY <2>1, <1>inv
         DEF UploadsInv, PlacedOnTwo, OkIsStored, UndeletedBefore,
             CommitIsStored, UPath, TargetSet
    <2>3. RowIsCommitted'
      <3> SUFFICES ASSUME NEW k \in Keys, row'[k] # NoRow
                   PROVE  CommittedAs(k, row[k])'
        BY DEF RowIsCommitted, CommittedAs, TargetSet
      <3>1. row'[k] = row[k] /\ CommittedAs(k, row[k])
        BY <2>1 DEF StoreInv, RowIsCommitted
      <3> QED  BY <2>1, <3>1 DEF CommittedAs, TargetSet
    <2> QED  BY <2>2, <2>3
  <1>15. ASSUME ApiCrash
        PROVE  UploadsInv' /\ RowIsCommitted'
    <2>1. /\ UNCHANGED <<row, put, reply, del>>
          /\ \A u \in Uploads : /\ up'[u].key = up[u].key
                                /\ \/ up'[u].pc = up[u].pc
                                   \/ /\ up'[u].pc = "cut"
                                      /\ up[u].pc \notin {"ok", "err"}
      BY <1>15, <1>type DEF ApiCrash, UploadActive, UploadStates
    <2>2. UploadsInv'
      BY <2>1, <1>inv
         DEF UploadsInv, PlacedOnTwo, OkIsStored, UndeletedBefore,
             CommitIsStored, UPath, TargetSet
    <2>3. RowIsCommitted'
      BY <2>1, RowsStay
    <2> QED  BY <2>2, <2>3
  <1>16. CASE UNCHANGED <<row, put, reply, del, up>>
    BY <1>16, <1>same
  <1> QED
    BY <1>1, <1>2, <1>3, <1>4, <1>5, <1>6, <1>7, <1>8, <1>9, <1>10, <1>11,
       <1>12, <1>13, <1>14, <1>15, <1>16
    DEF Next, UploadStep, DeleteStep, DownloadStep, NodeStep, Expire,
        StartDownload, GetOpens, GetFails, StreamEnds, StreamBreaks, FindFails,
        Cancel, NodeStops, NodeResumes, AllDone, vars

-----------------------------------------------------------------------------
(* A download asks nodes only after it has read a row, and keeps that row. *)
LEMMA AsksByRowNext == StoreInv /\ [Next]_vars => AsksByRow'
  <1> SUFFICES ASSUME StoreInv, [Next]_vars PROVE AsksByRow'
    OBVIOUS
  <1>type. /\ dl \in [Downloads -> DownloadStates]
           /\ row \in [Keys -> Rows \cup {NoRow}]
    BY DEF StoreInv, TypeOK
  <1>inv. AsksByRow
    BY DEF StoreInv
  <1>kept. ASSUME \A g \in Downloads :
                    dl'[g].pc \in {"primary", "replica"} =>
                      /\ dl[g].pc \in {"primary", "replica"}
                      /\ dl'[g].rec = dl[g].rec
           PROVE  AsksByRow'
    BY <1>kept, <1>inv DEF AsksByRow
  <1>1. ASSUME NEW u \in Uploads, StartUpload(u) PROVE AsksByRow'
    BY <1>1, <1>type, <1>kept DEF StartUpload, DownloadStates, Disturbed
  <1>2. ASSUME NEW u \in Uploads, NEW n \in Nodes, NodeOpen(u, n) PROVE AsksByRow'
    BY <1>2, <1>type, <1>kept DEF NodeOpen, DownloadStates
  <1>3. ASSUME NEW q \in Mutators, NEW n \in Nodes, NodeDelete(q, n) PROVE AsksByRow'
    BY <1>3, <1>type, <1>kept DEF NodeDelete, DownloadStates
  <1>4. ASSUME NEW d \in Deletes, StartDelete(d) PROVE AsksByRow'
    BY <1>4, <1>type, <1>kept DEF StartDelete, DownloadStates, Disturbed
  <1>5. ASSUME NEW g \in Downloads, GetOpens(g) PROVE AsksByRow'
    BY <1>5, <1>type, <1>kept DEF GetOpens, DownloadStates
  <1>6. ASSUME NEW g \in Downloads, StreamEnds(g) PROVE AsksByRow'
    BY <1>6, <1>type, <1>kept DEF StreamEnds, DownloadStates
  <1>7. ASSUME NEW g \in Downloads, StreamBreaks(g) PROVE AsksByRow'
    BY <1>7, <1>type, <1>kept DEF StreamBreaks, DownloadStates
  <1>8. ASSUME FindFails PROVE AsksByRow'
    BY <1>8, <1>type, <1>kept DEF FindFails, DownloadStates
  <1>9. ASSUME ApiCrash PROVE AsksByRow'
    BY <1>9, <1>type, <1>kept DEF ApiCrash, DownloadStates
  <1>10. ASSUME NEW g \in Downloads, GetFails(g) PROVE AsksByRow'
    <2>1. dl[g].pc \in {"primary", "replica"} /\ dl'[g].rec = dl[g].rec
      BY <1>10, <1>type DEF GetFails, DownloadStates
    <2>2. \A h \in Downloads \ {g} : dl'[h] = dl[h]
      BY <1>10, <1>type DEF GetFails
    <2> QED  BY <2>1, <2>2, <1>kept
  <1>11. ASSUME NEW g \in Downloads, StartDownload(g) PROVE AsksByRow'
    <2>1. CASE row[dl[g].key] = NoRow
      BY <1>11, <1>type, <1>kept, <2>1 DEF StartDownload, DownloadStates
    <2>2. CASE row[dl[g].key] # NoRow
      <3>1. row[dl[g].key] \in Rows
        BY <1>type, <2>2 DEF DownloadStates
      <3>2. dl'[g].rec = row[dl[g].key]
        BY <1>11, <1>type, <2>2 DEF StartDownload, DownloadStates
      <3>3. \A h \in Downloads \ {g} : dl'[h] = dl[h]
        BY <1>11, <1>type, <2>2 DEF StartDownload
      <3> QED  BY <3>1, <3>2, <3>3, <1>inv DEF AsksByRow
    <2> QED  BY <2>1, <2>2
  <1>12. CASE UNCHANGED dl
    BY <1>12, <1>kept
  <1>13. ASSUME NEW u \in Uploads, UploadStep(u) PROVE AsksByRow'
    BY <1>13, <1>12 DEF UploadStep, PutAnswered, PutGivenUp, Decide, Rollback,
                        Commit, CommitFails
  <1>14. ASSUME NEW d \in Deletes, DeleteStep(d) PROVE AsksByRow'
    BY <1>14, <1>12 DEF DeleteStep, NextCopy, Expire, RowDelete, RowDeleteFails
  <1>15. ASSUME NEW n \in Nodes, NodeStep(n) PROVE AsksByRow'
    BY <1>15, <1>2, <1>3, <1>12
       DEF NodeStep, NodeRefuse, NodeClose, NodeDeleteFails
  <1>16. ASSUME NEW g \in Downloads, DownloadStep(g) PROVE AsksByRow'
    BY <1>16, <1>5, <1>6, <1>7, <1>10 DEF DownloadStep
  <1> QED
    BY <1>1, <1>4, <1>8, <1>9, <1>11, <1>12, <1>13, <1>14, <1>15, <1>16
    DEF Next, Cancel, NodeStops, NodeResumes, AllDone, vars

-----------------------------------------------------------------------------
LEMMA StoreInvariant == Spec => []StoreInv
  <1>1. StoreInv /\ [Next]_vars => StoreInv'
    BY TypeNext, UploadsAndRowsNext, AsksByRowNext DEF StoreInv
  <1> QED  BY InitInv, <1>1, PTL DEF Spec

(* The states of uploads, deletes, downloads, nodes and rows are those the *)
(* code can be in: in particular placement never hands UpsertObject fewer  *)
(* than two nodes, and no download asks a node it was given no row for.    *)
THEOREM TypeCorrect == Spec => []TypeOK
  <1>1. StoreInv => TypeOK
    BY DEF StoreInv
  <1> QED  BY StoreInvariant, <1>1, PTL

(* A row names an upload only if every node placement chose for it has     *)
(* stored its bytes, and the API never deletes those bytes for a failure   *)
(* of that upload itself (service.go, Upload): for every interleaving of   *)
(* any number of requests, with crashes, stalls, timeouts and lost answers.*)
THEOREM RowsNameStoredUploads == Spec => []RowNamesStoredUpload
  <1>1. StoreInv => RowNamesStoredUpload
    <2> SUFFICES ASSUME StoreInv, NEW k \in Keys, row[k] # NoRow
                 PROVE  LET u == row[k].etag
                            t == Targets[Path[k]] IN
                        /\ up[u].key = k
                        /\ Len(t) >= 2 /\ row[k].primary = t[1]
                        /\ row[k].replica = t[2]
                        /\ \A n \in TargetSet(Path[k]) : put[u][n] = "stored"
                        /\ \A n \in Nodes : del[u][n] = "none"
      BY DEF RowNamesStoredUpload, TargetSet
    <2>1. row[k].etag \in Uploads /\ CommittedAs(k, row[k])
      BY DEF StoreInv, TypeOK, Rows, RowIsCommitted
    <2>2. TargetSet(Path[k]) \subseteq Nodes
      BY TargetsAreNodes, PathForm
    <2>3. \A n \in TargetSet(Path[k]) : put[row[k].etag][n] = "stored"
      BY <2>1, <2>2 DEF CommittedAs, StoreInv, UploadsInv, OkIsStored
    <2> QED  BY <2>1, <2>3 DEF CommittedAs
  <1> QED  BY StoreInvariant, <1>1, PTL

-----------------------------------------------------------------------------
(***************************************************************************)
(* For any number of requests, keys, nodes and faults, and any placement:  *)
(* what object-api's requests promise of the bytes on the nodes, as long   *)
(* as nothing else is going on on the storage path.                        *)
(*                                                                         *)
(* The argument is that a request that started when its path was quiet has *)
(* the files of the path to itself (AloneOnPath, OnlyTheOwner): no call of *)
(* an earlier request is left that could still reach a node.  What it did  *)
(* to a file therefore stays done (BytesThere, RolledBackIsGone,           *)
(* DeletedIsGone), and what remains is that it did it to every node: the   *)
(* rest of the invariant.                                                  *)
(***************************************************************************)
\* What is going on on path p apart from request q: nothing.
RestOnPath(q, p) ==
  /\ \A u \in Uploads \ {q} :
       UPath(u) = p => ~UploadActive(u) /\ ~PutPending(u)
  /\ \A d \in Deletes \ {q} : DPath(d) = p => ~DeleteActive(d)
  /\ \A r \in Mutators \ {q} : QPath(r) = p => ~DelPending(r)

AloneOnPath ==
  \A p \in Paths :
    last[p] # None => QPath(last[p]) = p /\ RestOnPath(last[p], p)

\* Nothing has been sent for a request the API has not taken up.
IdleIsUnsent ==
  /\ \A u \in Uploads : up[u].pc = "idle" => \A n \in Nodes : put[u][n] = "none"
  /\ \A d \in Deletes : rm[d].pc = "idle" => \A n \in Nodes : del[d][n] = "none"

\* A file keeps the PUTs that opened it in mind only while one has it open.
GroupIsOpen ==
  \A n \in Nodes, p \in Paths :
    file[n][p].group # {} => \E u \in Uploads : UPath(u) = p /\ put[u][n] = "open"

\* The files of an upload that is alone on its path, where no DELETE of its
\* own was sent: nobody has unlinked them, they are in the hands of no other
\* PUT, and once stored they hold its body.
BytesThere ==
  \A u \in Uploads, n \in Nodes :
    last[UPath(u)] = u /\ del[u][n] = "none" =>
      /\ put[u][n] # "detached"
      /\ put[u][n] = "open" => file[n][UPath(u)].group = {u}
      /\ put[u][n] = "stored" => file[n][UPath(u)].content = u

\* An upload the node has answered for is over on that node.
ReplyIsOver ==
  \A u \in Uploads, n \in Nodes :
    reply[u][n] \in {"ok", "refused"} => put[u][n] \in {"stored", "failed"}

\* Every target has been asked, and has answered or been given up on.
EveryTargetAsked ==
  \A u \in Uploads : \A n \in TargetSet(UPath(u)) :
    /\ up[u].pc = "puts" => reply[u][n] # "none"
    /\ up[u].pc \in {"rollback", "commit", "ok", "err"} =>
         reply[u][n] \in {"ok", "refused", "gaveup"}

\* The rollback has sent a DELETE to every target it has come to.
RollbackAsks ==
  \A u \in Uploads :
    LET t == Targets[UPath(u)] IN
    /\ up[u].pc = "rollback" =>
         /\ up[u].at \in 1..Len(t)
         /\ \A i \in 1..up[u].at : del[u][t[i]] # "none"
    /\ up[u].pc = "err" =>
         \/ \A n \in TargetSet(UPath(u)) : reply[u][n] = "ok"
         \/ \A n \in TargetSet(UPath(u)) : del[u][n] # "none"

\* Where the rollback's DELETE was carried out, no file has come back.
RolledBackIsGone ==
  \A u \in Uploads, n \in Nodes :
    /\ last[UPath(u)] = u /\ del[u][n] = "done"
    /\ reply[u][n] \in {"ok", "refused"}
    => file[n][UPath(u)].content = Absent

\* A delete asks the two nodes of the row it has read, the second unless its
\* context is dead.
DeleteAsks ==
  \A d \in Deletes :
    /\ rm[d].pc \in {"primary", "replica", "row", "ok"} =>
         rm[d].rec \in Rows /\ del[d][rm[d].rec.primary] # "none"
    /\ rm[d].pc \in {"replica", "row", "ok"} /\ ~(rm[d].pc = "row" /\ d \in gone) =>
         del[d][rm[d].rec.replica] # "none"

DeletedIsGone ==
  \A d \in Deletes, n \in Nodes :
    last[DPath(d)] = d /\ del[d][n] = "done" => file[n][DPath(d)].content = Absent

DeletedHasNoRow ==
  \A d \in Deletes :
    rm[d].pc = "ok" /\ last[DPath(d)] = d => row[rm[d].key] = NoRow

\* An undisturbed download that asks the nodes asks for an upload that is
\* alone on its path and has stored its bytes.
CalmAsks ==
  \A g \in Downloads :
    /\ dl[g].pc = "idle" => ~dl[g].calm
    /\ dl[g].pc \in {"primary", "replica"} /\ dl[g].calm =>
         /\ last[GPath(g)] = dl[g].rec.etag
         /\ CommittedAs(dl[g].key, dl[g].rec)
    /\ dl[g].pc = "replica" /\ dl[g].calm => dl[g].rec.primary \in dl[g].lost
    /\ dl[g].pc = "err" /\ dl[g].calm =>
         {dl[g].rec.primary, dl[g].rec.replica} \subseteq dl[g].lost

\* Nobody is about to write into the file an undisturbed stream reads.
CalmStreams ==
  \A g \in Downloads :
    /\ dl[g].pc = "stream" => dl[g].node \in Nodes
    /\ dl[g].pc \in {"stream", "ok"} /\ dl[g].calm => dl[g].seen = dl[g].rec.etag
    /\ dl[g].pc = "stream" /\ dl[g].calm =>
         \A u \in Uploads : UPath(u) = GPath(g) => put[u][dl[g].node] # "sent"

BytesInv ==
  /\ StoreInv
  /\ AloneOnPath /\ IdleIsUnsent /\ GroupIsOpen /\ BytesThere
  /\ AcknowledgedIsRecorded
  /\ ReplyIsOver /\ EveryTargetAsked /\ RollbackAsks /\ RolledBackIsGone
  /\ DeleteAsks /\ DeletedIsGone /\ DeletedHasNoRow
  /\ CalmAsks /\ CalmStreams

-----------------------------------------------------------------------------
(* Requests keep their keys, and with them their paths.                     *)
LEMMA KeysStay ==
  ASSUME TypeOK, [Next]_vars
  PROVE  /\ \A u \in Uploads : up'[u].key = up[u].key
         /\ \A d \in Deletes : rm'[d].key = rm[d].key
         /\ \A g \in Downloads : dl'[g].key = dl[g].key
  <1>type. /\ up \in [Uploads -> UploadStates]
           /\ rm \in [Deletes -> DeleteStates]
           /\ dl \in [Downloads -> DownloadStates]
    BY DEF TypeOK
  <1>same. CASE UNCHANGED <<up, rm, dl>>
    BY <1>same
  <1>dist. \A p, pcs : \A g \in Downloads : Disturbed(p, pcs)[g].key = dl[g].key
    BY <1>type DEF Disturbed, DownloadStates
  <1>1. ASSUME NEW u \in Uploads, StartUpload(u)
        PROVE  /\ \A v \in Uploads : up'[v].key = up[v].key
               /\ \A d \in Deletes : rm'[d].key = rm[d].key
               /\ \A g \in Downloads : dl'[g].key = dl[g].key
    <2>1. \/ up' = [up EXCEPT ![u].pc = "invalid"]
          \/ up' = [up EXCEPT ![u].pc = "puts"]
      BY <1>1 DEF StartUpload
    <2>2. \A v \in Uploads : up'[v].key = up[v].key
      BY <2>1, <1>type DEF UploadStates
    <2>3. \A g \in Downloads : dl'[g].key = dl[g].key
      BY <1>1, <1>dist DEF StartUpload
    <2> QED  BY <1>1, <2>2, <2>3 DEF StartUpload
  <1>2. ASSUME NEW u \in Uploads,
               Decide(u) \/ Rollback(u) \/ Commit(u) \/ CommitFails(u)
        PROVE  /\ \A v \in Uploads : up'[v].key = up[v].key
               /\ \A d \in Deletes : rm'[d].key = rm[d].key
               /\ \A g \in Downloads : dl'[g].key = dl[g].key
    <2>1. /\ UNCHANGED <<rm, dl>>
          /\ \/ \E c \in {"commit", "ok", "err"} : up' = [up EXCEPT ![u].pc = c]
             \/ up' = [up EXCEPT ![u].pc = "rollback", ![u].at = 1]
             \/ up' = [up EXCEPT ![u].at = up[u].at + 1]
      BY <1>2 DEF Decide, Rollback, Commit, CommitFails
    <2>2. \A v \in Uploads : up'[v].key = up[v].key
      BY <2>1, <1>type DEF UploadStates
    <2> QED  BY <2>1, <2>2
  <1>3. ASSUME NEW d \in Deletes, StartDelete(d)
        PROVE  /\ \A u \in Uploads : up'[u].key = up[u].key
               /\ \A e \in Deletes : rm'[e].key = rm[e].key
               /\ \A g \in Downloads : dl'[g].key = dl[g].key
    <2>1. \/ rm' = [rm EXCEPT ![d].pc = "notfound"]
          \/ rm' = [rm EXCEPT ![d].pc = "primary", ![d].rec = row[rm[d].key]]
      BY <1>3 DEF StartDelete
    <2>2. \A e \in Deletes : rm'[e].key = rm[e].key
      BY <2>1, <1>type DEF DeleteStates
    <2>3. \A g \in Downloads : dl'[g].key = dl[g].key
      BY <1>3, <1>dist DEF StartDelete
    <2> QED  BY <1>3, <2>2, <2>3 DEF StartDelete
  <1>4. ASSUME NEW d \in Deletes, NextCopy(d) \/ RowDelete(d) \/ RowDeleteFails(d)
        PROVE  /\ \A u \in Uploads : up'[u].key = up[u].key
               /\ \A e \in Deletes : rm'[e].key = rm[e].key
               /\ \A g \in Downloads : dl'[g].key = dl[g].key
    <2>1. UNCHANGED <<up, dl>> /\ \E c : rm' = [rm EXCEPT ![d].pc = c]
      BY <1>4 DEF NextCopy, RowDelete, RowDeleteFails
    <2> QED  BY <2>1, <1>type DEF DeleteStates
  <1>5. ASSUME NEW n \in Nodes, NodeStep(n)
        PROVE  /\ \A u \in Uploads : up'[u].key = up[u].key
               /\ \A d \in Deletes : rm'[d].key = rm[d].key
               /\ \A g \in Downloads : dl'[g].key = dl[g].key
    <2>1. UNCHANGED <<up, rm>>
      BY <1>5 DEF NodeStep, NodeOpen, NodeRefuse, NodeClose, NodeDelete, NodeDeleteFails
    <2>2. ASSUME NEW u \in Uploads, NodeOpen(u, n)
          PROVE  \A g \in Downloads : dl'[g].key = dl[g].key
      BY <2>2, <1>type DEF NodeOpen, DownloadStates
    <2>3. ASSUME NEW q \in Mutators, NodeDelete(q, n)
          PROVE  \A g \in Downloads : dl'[g].key = dl[g].key
      BY <2>3, <1>type DEF NodeDelete, DownloadStates
    <2> QED  BY <1>5, <2>1, <2>2, <2>3
             DEF NodeStep, NodeRefuse, NodeClose, NodeDeleteFails
  <1>6. ASSUME NEW g \in Downloads, StartDownload(g) \/ DownloadStep(g)
        PROVE  /\ \A u \in Uploads : up'[u].key = up[u].key
               /\ \A d \in Deletes : rm'[d].key = rm[d].key
               /\ \A h \in Downloads : dl'[h].key = dl[h].key
    <2>0. UNCHANGED <<up, rm>>
      BY <1>6 DEF DownloadStep, StartDownload, GetOpens, GetFails, StreamEnds, StreamBreaks
    <2>1. CASE StartDownload(g)
      BY <2>1, <1>type DEF StartDownload, DownloadStates
    <2>2. CASE GetOpens(g) \/ GetFails(g)
      BY <2>2, <1>type DEF GetOpens, GetFails, DownloadStates
    <2>3. CASE StreamEnds(g) \/ StreamBreaks(g)
      BY <2>3, <1>type DEF StreamEnds, StreamBreaks, DownloadStates
    <2> QED  BY <1>6, <2>0, <2>1, <2>2, <2>3 DEF DownloadStep
  <1>7. CASE FindFails
    <2>1. \A d \in Deletes : rm'[d].key = rm[d].key
      BY <1>7, <1>type DEF FindFails, DeleteStates
    <2>2. \A g \in Downloads : dl'[g].key = dl[g].key
      BY <1>7, <1>type DEF FindFails, DownloadStates
    <2> QED  BY <1>7, <2>1, <2>2 DEF FindFails
  <1>8. CASE ApiCrash
    <2>1. \A u \in Uploads : up'[u].key = up[u].key
      BY <1>8, <1>type DEF ApiCrash, UploadStates
    <2>2. \A d \in Deletes : rm'[d].key = rm[d].key
      BY <1>8, <1>type DEF ApiCrash, DeleteStates
    <2>3. \A g \in Downloads : dl'[g].key = dl[g].key
      BY <1>8, <1>type DEF ApiCrash, DownloadStates
    <2> QED  BY <2>1, <2>2, <2>3
  <1> QED
    BY <1>same, <1>1, <1>2, <1>3, <1>4, <1>5, <1>6, <1>7, <1>8
    DEF Next, UploadStep, DeleteStep, PutAnswered, PutGivenUp, Expire, Cancel,
        NodeStops, NodeResumes, AllDone, vars

(* ... and so do their paths.                                              *)
LEMMA PathsStay ==
  ASSUME TypeOK, [Next]_vars
  PROVE  /\ \A u \in Uploads : UPath(u)' = UPath(u)
         /\ \A d \in Deletes : DPath(d)' = DPath(d)
         /\ \A g \in Downloads : GPath(g)' = GPath(g)
         /\ \A q \in Mutators : QPath(q)' = QPath(q)
  BY KeysStay DEF UPath, DPath, GPath, QPath, Mutators

-----------------------------------------------------------------------------
(* A step that starts nothing keeps AloneOnPath.                            *)
LEMMA NothingStarts ==
  ASSUME TypeOK, [Next]_vars, AloneOnPath, last' = last,
         \A u \in Uploads : /\ UploadActive(u)' => UploadActive(u)
                            /\ PutPending(u)' => PutPending(u),
         \A d \in Deletes : DeleteActive(d)' => DeleteActive(d),
         \A q \in Mutators :
           DelPending(q)' => \/ DelPending(q)
                             \/ q \in Uploads /\ UploadActive(q)
                             \/ q \in Deletes /\ DeleteActive(q)
  PROVE  AloneOnPath'
  <1> SUFFICES ASSUME NEW p \in Paths, last[p] # None
               PROVE  QPath(last[p])' = p /\ RestOnPath(last[p], p)'
    BY DEF AloneOnPath
  <1>1. last[p] \in Mutators /\ QPath(last[p]) = p /\ RestOnPath(last[p], p)
    BY DEF AloneOnPath, TypeOK
  <1>2. \A q \in Mutators : /\ q \in Uploads => QPath(q) = UPath(q)
                            /\ q \in Deletes => QPath(q) = DPath(q)
    BY RequestsDisjoint DEF QPath
  <1> QED  BY <1>1, <1>2, PathsStay DEF RestOnPath, Mutators

(* Whoever was alone on a path stays so until another request starts there. *)
LEMMA AloneNext ==
  ASSUME TypeOK, [Next]_vars, AloneOnPath
  PROVE  AloneOnPath'
  <1>type. /\ put \in [Uploads -> [Nodes -> PutStates]]
           /\ del \in [Mutators -> [Nodes -> DelStates]]
           /\ up \in [Uploads -> UploadStates]
           /\ rm \in [Deletes -> DeleteStates]
           /\ last \in [Paths -> Mutators \cup {None}]
    BY DEF TypeOK
  <1>paths. /\ \A u \in Uploads : UPath(u) \in Paths /\ UPath(u)' = UPath(u)
            /\ \A d \in Deletes : DPath(d) \in Paths /\ DPath(d)' = DPath(d)
            /\ \A q \in Mutators : QPath(q) \in Paths /\ QPath(q)' = QPath(q)
    BY PathsOfRequests, PathsStay
  <1>qpath. /\ \A u \in Uploads : u \in Mutators /\ QPath(u) = UPath(u)
            /\ \A d \in Deletes : d \in Mutators /\ QPath(d) = DPath(d)
    BY RequestsDisjoint DEF QPath, Mutators
  <1>none. None \notin Mutators
    BY SentinelsForm DEF Mutators
  \* Steps of which the proof needs no more than this.
  <1>same. ASSUME UNCHANGED <<put, up, rm, last>>,
                  \A q \in Mutators : DelPending(q)' => DelPending(q)
           PROVE  AloneOnPath'
    BY <1>same, NothingStarts DEF UploadActive, PutPending, DeleteActive
  <1>put. ASSUME UNCHANGED <<up, rm, del, last>>,
                 \A u \in Uploads, n \in Nodes :
                   put'[u][n] \in {"sent", "open"} => put[u][n] \in {"sent", "open"}
          PROVE  AloneOnPath'
    BY <1>put, NothingStarts DEF UploadActive, PutPending, DeleteActive, DelPending
  <1>1. ASSUME NEW u \in Uploads, StartUpload(u) PROVE AloneOnPath'
    <2> DEFINE p0 == UPath(u)
    <2>1. CASE Len(Targets[p0]) < 2
      <3>1. /\ up' = [up EXCEPT ![u].pc = "invalid"]
            /\ UNCHANGED <<put, rm, del, last>>
        BY <1>1, <2>1 DEF StartUpload
      <3>2. \A v \in Uploads : up'[v].pc = up[v].pc \/ up'[v].pc = "invalid"
        BY <3>1, <1>type DEF UploadStates
      <3> QED  BY <3>1, <3>2, NothingStarts
               DEF UploadActive, PutPending, DeleteActive, DelPending
    <2>2. CASE ~(Len(Targets[p0]) < 2)
      <3>1. /\ \A v \in Uploads \ {u} : up'[v] = up[v] /\ put'[v] = put[v]
            /\ UNCHANGED <<rm, del>> /\ Begin(u, p0)
        BY <1>1, <2>2, <1>type DEF StartUpload
      <3>2. /\ last'[p0] # None => last'[p0] = u /\ ~Busy(p0)
            /\ \A p \in Paths \ {p0} : last'[p] = last[p]
        BY <3>1, <1>type, <1>paths DEF Begin
      <3> SUFFICES ASSUME NEW p \in Paths, last'[p] # None
                   PROVE  QPath(last[p])' = p /\ RestOnPath(last[p], p)'
        BY DEF AloneOnPath
      <3>3. CASE p = p0
        <4>1. last'[p] = u /\ ~Busy(p) /\ QPath(u)' = p
          BY <3>2, <3>3, <1>paths, <1>qpath
        <4>2. RestOnPath(last[p], p)'
          BY <4>1, <3>1, <1>paths
             DEF RestOnPath, Busy, UploadActive, PutPending, DeleteActive, DelPending
        <4> QED  BY <4>1, <4>2
      <3>4. CASE p # p0
        <4>1. last'[p] = last[p] /\ last[p] \in Mutators
          BY <3>2, <3>4, <1>type
        <4>2. QPath(last[p]) = p /\ RestOnPath(last[p], p)
          BY <4>1 DEF AloneOnPath
        <4>3. RestOnPath(last[p], p)'
          BY <4>1, <4>2, <3>1, <3>4, <1>paths
             DEF RestOnPath, UploadActive, PutPending, DeleteActive, DelPending
        <4> QED  BY <4>1, <4>2, <4>3, <1>paths
      <3> QED  BY <3>3, <3>4
    <2> QED  BY <2>1, <2>2
  <1>2. ASSUME NEW d \in Deletes, StartDelete(d) PROVE AloneOnPath'
    <2> DEFINE p0 == DPath(d)
    <2>1. CASE row[rm[d].key] = NoRow
      <3>1. /\ rm' = [rm EXCEPT ![d].pc = "notfound"]
            /\ UNCHANGED <<put, up, del, last>>
        BY <1>2, <2>1 DEF StartDelete
      <3>2. \A e \in Deletes : rm'[e].pc = rm[e].pc \/ rm'[e].pc = "notfound"
        BY <3>1, <1>type DEF DeleteStates
      <3> QED  BY <3>1, <3>2, NothingStarts
               DEF UploadActive, PutPending, DeleteActive, DelPending
    <2>2. CASE row[rm[d].key] # NoRow
      <3>1. /\ \A e \in Deletes \ {d} : rm'[e] = rm[e]
            /\ \A q \in Mutators \ {d} : del'[q] = del[q]
            /\ UNCHANGED <<put, up>> /\ Begin(d, p0)
        BY <1>2, <2>2, <1>type, <1>qpath DEF StartDelete
      <3>2. /\ last'[p0] # None => last'[p0] = d /\ ~Busy(p0)
            /\ \A p \in Paths \ {p0} : last'[p] = last[p]
        BY <3>1, <1>type, <1>paths DEF Begin
      <3> SUFFICES ASSUME NEW p \in Paths, last'[p] # None
                   PROVE  QPath(last[p])' = p /\ RestOnPath(last[p], p)'
        BY DEF AloneOnPath
      <3>3. CASE p = p0
        <4>1. last'[p] = d /\ ~Busy(p) /\ QPath(d)' = p
          BY <3>2, <3>3, <1>paths, <1>qpath
        <4>2. RestOnPath(last[p], p)'
          BY <4>1, <3>1, <1>paths
             DEF RestOnPath, Busy, UploadActive, PutPending, DeleteActive, DelPending
        <4> QED  BY <4>1, <4>2
      <3>4. CASE p # p0
        <4>1. last'[p] = last[p] /\ last[p] \in Mutators
          BY <3>2, <3>4, <1>type
        <4>2. QPath(last[p]) = p /\ RestOnPath(last[p], p)
          BY <4>1 DEF AloneOnPath
        <4>3. RestOnPath(last[p], p)'
          BY <4>1, <4>2, <3>1, <3>4, <1>paths, <1>qpath
             DEF RestOnPath, UploadActive, PutPending, DeleteActive, DelPending
        <4> QED  BY <4>1, <4>2, <4>3, <1>paths
      <3> QED  BY <3>3, <3>4
    <2> QED  BY <2>1, <2>2
  <1>3. ASSUME NEW u \in Uploads,
               Decide(u) \/ Rollback(u) \/ Commit(u) \/ CommitFails(u)
        PROVE  AloneOnPath'
    <2>1. /\ UNCHANGED <<put, rm, last>> /\ UploadActive(u)
          /\ \A v \in Uploads \ {u} : up'[v] = up[v]
      BY <1>3, <1>type DEF Decide, Rollback, Commit, CommitFails, UploadActive
    <2>2. \A q \in Mutators \ {u} : del'[q] = del[q]
      BY <1>3, <1>type DEF Decide, Rollback, Commit, CommitFails
    <2> QED  BY <2>1, <2>2, NothingStarts
             DEF UploadActive, PutPending, DeleteActive, DelPending
  <1>4. ASSUME NEW d \in Deletes, NextCopy(d) \/ RowDelete(d) \/ RowDeleteFails(d)
        PROVE  AloneOnPath'
    <2>1. /\ UNCHANGED <<put, up, last>> /\ DeleteActive(d)
          /\ \A e \in Deletes \ {d} : rm'[e] = rm[e]
      BY <1>4, <1>type DEF NextCopy, RowDelete, RowDeleteFails, DeleteActive
    <2>2. \A q \in Mutators \ {d} : del'[q] = del[q]
      BY <1>4, <1>type DEF NextCopy, RowDelete, RowDeleteFails
    <2> QED  BY <2>1, <2>2, NothingStarts
             DEF UploadActive, PutPending, DeleteActive, DelPending
  <1>5. ASSUME NEW u \in Uploads, NEW n \in Nodes,
               \/ NodeOpen(u, n) \/ NodeRefuse(u, n)
               \/ \E whole \in BOOLEAN : NodeClose(u, n, whole)
        PROVE  AloneOnPath'
    <2>1. UNCHANGED <<up, rm, del, last>>
      BY <1>5 DEF NodeOpen, NodeRefuse, NodeClose
    <2>2. \E s \in {"open", "stored", "failed"} : put' = [put EXCEPT ![u][n] = s]
      BY <1>5 DEF NodeOpen, NodeRefuse, NodeClose
    <2>3. put'[u][n] = "open" => put[u][n] = "sent"
      BY <1>5, <1>type DEF NodeOpen, NodeRefuse, NodeClose
    <2>4. \A v \in Uploads, m \in Nodes : (v = u /\ m = n) \/ put'[v][m] = put[v][m]
      BY <2>2, <1>type
    <2>5. put'[u][n] # "sent"
      BY <2>2, <1>type
    <2> QED  BY <2>1, <2>3, <2>4, <2>5, <1>put
  <1>6. ASSUME NEW q \in Mutators, NEW n \in Nodes, NodeDelete(q, n)
        PROVE  AloneOnPath'
    <2>1. /\ UNCHANGED <<up, rm, last>>
          /\ \A r \in Mutators, m \in Nodes : del'[r][m] = "sent" => del[r][m] = "sent"
          /\ \A u \in Uploads, m \in Nodes :
               put'[u][m] \in {"sent", "open"} => put[u][m] \in {"sent", "open"}
      BY <1>6, <1>type DEF NodeDelete
    <2> QED  BY <2>1, NothingStarts
             DEF UploadActive, PutPending, DeleteActive, DelPending
  <1>7. ASSUME NEW q \in Mutators, NEW n \in Nodes, NodeDeleteFails(q, n)
        PROVE  AloneOnPath'
    <2>1. \A r \in Mutators, m \in Nodes : del'[r][m] = "sent" => del[r][m] = "sent"
      BY <1>7, <1>type DEF NodeDeleteFails
    <2> QED  BY <1>7, <2>1, <1>same DEF NodeDeleteFails, DelPending
  <1>8. ASSUME ApiCrash PROVE AloneOnPath'
    <2>1. /\ UNCHANGED <<put, del, last>>
          /\ \A u \in Uploads : UploadActive(u)' => UploadActive(u)
          /\ \A d \in Deletes : DeleteActive(d)' => DeleteActive(d)
      BY <1>8, <1>type DEF ApiCrash, UploadActive, DeleteActive, UploadStates, DeleteStates
    <2> QED  BY <2>1, NothingStarts DEF PutPending, DelPending
  <1>9. ASSUME FindFails PROVE AloneOnPath'
    <2>1. /\ UNCHANGED <<put, del, up, last>>
          /\ \A d \in Deletes : DeleteActive(d)' => DeleteActive(d)
      BY <1>9, <1>type DEF FindFails, DeleteActive, DeleteStates
    <2> QED  BY <2>1, NothingStarts DEF UploadActive, PutPending, DelPending
  <1>10. CASE UNCHANGED <<put, up, rm, del, last>>
    BY <1>10, <1>same DEF DelPending
  <1> QED
    BY <1>1, <1>2, <1>3, <1>4, <1>5, <1>6, <1>7, <1>8, <1>9, <1>10
    DEF Next, UploadStep, DeleteStep, DownloadStep, NodeStep, PutAnswered,
        PutGivenUp, Expire, StartDownload, GetOpens, GetFails, StreamEnds,
        StreamBreaks, Cancel, NodeStops, NodeResumes, AllDone, vars

(* A call is sent only for a request the API has taken up.                  *)
LEMMA IdleNext ==
  ASSUME TypeOK, [Next]_vars, IdleIsUnsent
  PROVE  IdleIsUnsent'
  <1>type. /\ put \in [Uploads -> [Nodes -> PutStates]]
           /\ del \in [Mutators -> [Nodes -> DelStates]]
           /\ up \in [Uploads -> UploadStates]
           /\ rm \in [Deletes -> DeleteStates]
    BY DEF TypeOK
  <1>mut. /\ Uploads \subseteq Mutators /\ Deletes \subseteq Mutators
          /\ \A d \in Deletes, u \in Uploads : d # u
    BY RequestsDisjoint DEF Mutators
  <1>kept. ASSUME \A u \in Uploads :
                    up'[u].pc = "idle" =>
                      up[u].pc = "idle" /\ \A n \in Nodes :
                        put[u][n] = "none" => put'[u][n] = "none",
                  \A d \in Deletes :
                    rm'[d].pc = "idle" =>
                      rm[d].pc = "idle" /\ \A n \in Nodes :
                        del[d][n] = "none" => del'[d][n] = "none"
           PROVE  IdleIsUnsent'
    BY <1>kept DEF IdleIsUnsent
  <1>1. ASSUME NEW u \in Uploads, StartUpload(u) PROVE IdleIsUnsent'
    <2>1. /\ \A v \in Uploads \ {u} : up'[v] = up[v] /\ put'[v] = put[v]
          /\ UNCHANGED <<rm, del>>
      BY <1>1, <1>type DEF StartUpload
    <2>2. up'[u].pc # "idle"
      BY <1>1, <1>type DEF StartUpload, UploadStates
    <2> QED  BY <2>1, <2>2, <1>kept
  <1>2. ASSUME NEW u \in Uploads, UploadStep(u) PROVE IdleIsUnsent'
    <2>1. /\ UNCHANGED <<put, rm>>
          /\ \A v \in Uploads \ {u} : up'[v] = up[v]
          /\ \A d \in Deletes : del'[d] = del[d]
      BY <1>2, <1>type, <1>mut
         DEF UploadStep, PutAnswered, PutGivenUp, Decide, Rollback, Commit, CommitFails
    <2>2. up[u].pc # "idle"
      BY <1>2 DEF UploadStep, PutAnswered, PutGivenUp, Decide, Rollback, Commit, CommitFails
    <2>3. up'[u].pc # "idle"
      BY <1>2, <2>2, <1>type
         DEF UploadStep, PutAnswered, PutGivenUp, Decide, Rollback, Commit,
             CommitFails, UploadStates
    <2> QED  BY <2>1, <2>3, <1>kept
  <1>3. ASSUME NEW d \in Deletes, StartDelete(d) \/ DeleteStep(d) PROVE IdleIsUnsent'
    <2>1. /\ UNCHANGED <<put, up>>
          /\ \A e \in Deletes \ {d} : rm'[e] = rm[e] /\ del'[e] = del[e]
      BY <1>3, <1>type, <1>mut
         DEF StartDelete, DeleteStep, NextCopy, Expire, RowDelete, RowDeleteFails
    <2>2. rm'[d].pc # "idle"
      <3>1. CASE StartDelete(d)
        BY <3>1, <1>type DEF StartDelete, DeleteStates
      <3>2. CASE DeleteStep(d)
        BY <3>2, <1>type
           DEF DeleteStep, NextCopy, Expire, RowDelete, RowDeleteFails, DeleteStates
      <3> QED  BY <1>3, <3>1, <3>2
    <2> QED  BY <2>1, <2>2, <1>kept
  <1>4. ASSUME NEW n \in Nodes, NodeStep(n) PROVE IdleIsUnsent'
    <2>1. UNCHANGED <<up, rm>>
      BY <1>4 DEF NodeStep, NodeOpen, NodeRefuse, NodeClose, NodeDelete, NodeDeleteFails
    <2>2. ASSUME NEW u \in Uploads,
                 \/ NodeOpen(u, n) \/ NodeRefuse(u, n)
                 \/ \E whole \in BOOLEAN : NodeClose(u, n, whole)
          PROVE  IdleIsUnsent'
      <3>1. put[u][n] # "none" /\ UNCHANGED del
        BY <2>2 DEF NodeOpen, NodeRefuse, NodeClose
      <3>2. \E s \in {"open", "stored", "failed"} : put' = [put EXCEPT ![u][n] = s]
        BY <2>2 DEF NodeOpen, NodeRefuse, NodeClose
      <3>3. \A v \in Uploads, m \in Nodes : put[v][m] = "none" => put'[v][m] = "none"
        BY <3>1, <3>2, <1>type
      <3> QED  BY <2>1, <3>1, <3>3, <1>kept
    <2>3. ASSUME NEW q \in Mutators, NodeDelete(q, n) \/ NodeDeleteFails(q, n)
          PROVE  IdleIsUnsent'
      <3>1. \A v \in Uploads, m \in Nodes : put[v][m] = "none" => put'[v][m] = "none"
        BY <2>3, <1>type DEF NodeDelete, NodeDeleteFails
      <3>2. \A r \in Mutators, m \in Nodes : del[r][m] = "none" => del'[r][m] = "none"
        BY <2>3, <1>type DEF NodeDelete, NodeDeleteFails
      <3> QED  BY <2>1, <3>1, <3>2, <1>mut, <1>kept
    <2> QED  BY <1>4, <2>2, <2>3 DEF NodeStep
  <1>5. CASE ApiCrash
    <2>1. /\ UNCHANGED <<put, del>>
          /\ \A u \in Uploads : up'[u].pc = "idle" => up[u].pc = "idle"
          /\ \A d \in Deletes : rm'[d].pc = "idle" => rm[d].pc = "idle"
      BY <1>5, <1>type DEF ApiCrash, UploadStates, DeleteStates
    <2> QED  BY <2>1, <1>kept
  <1>6. CASE FindFails
    BY <1>6, <1>type, <1>kept DEF FindFails, DeleteStates
  <1>7. CASE UNCHANGED <<put, up, rm, del>>
    BY <1>7, <1>kept
  <1> QED
    BY <1>1, <1>2, <1>3, <1>4, <1>5, <1>6, <1>7
    DEF Next, DownloadStep, StartDownload, GetOpens, GetFails, StreamEnds,
        StreamBreaks, Cancel, NodeStops, NodeResumes, AllDone, vars

-----------------------------------------------------------------------------
(* The last PUT to close a file, and a DELETE, leave it in nobody's hands.   *)
LEMMA GroupNext ==
  ASSUME TypeOK, [Next]_vars, IdleIsUnsent, GroupIsOpen
  PROVE  GroupIsOpen'
  <1>type. /\ file \in [Nodes -> [Paths -> Files]]
           /\ put \in [Uploads -> [Nodes -> PutStates]]
    BY DEF TypeOK
  <1>paths. /\ \A u \in Uploads : UPath(u) \in Paths /\ UPath(u)' = UPath(u)
            /\ \A q \in Mutators : QPath(q) \in Paths
    BY PathsOfRequests, PathsStay
  <1>kept. ASSUME file' = file,
                  \A u \in Uploads, n \in Nodes :
                    put[u][n] = "open" => put'[u][n] = "open"
           PROVE  GroupIsOpen'
    BY <1>kept, <1>paths DEF GroupIsOpen
  <1>1. ASSUME NEW u \in Uploads, StartUpload(u) PROVE GroupIsOpen'
    <2>1. \A n \in Nodes : put[u][n] = "none"
      BY <1>1 DEF StartUpload, IdleIsUnsent
    <2>2. file' = file /\ \A v \in Uploads \ {u} : put'[v] = put[v]
      BY <1>1, <1>type DEF StartUpload
    <2> QED  BY <2>1, <2>2, <1>kept
  <1>2. ASSUME NEW u \in Uploads, NEW n \in Nodes, NodeOpen(u, n) PROVE GroupIsOpen'
    <2>1. /\ \A m \in Nodes, p \in Paths :
               (m = n /\ p = UPath(u)) \/ file'[m][p] = file[m][p]
          /\ put'[u][n] = "open"
          /\ \A v \in Uploads, m \in Nodes : put[v][m] = "open" => put'[v][m] = "open"
      BY <1>2, <1>type DEF NodeOpen
    <2> QED  BY <2>1, <1>paths DEF GroupIsOpen
  <1>3. ASSUME NEW u \in Uploads, NEW n \in Nodes, NodeRefuse(u, n) PROVE GroupIsOpen'
    BY <1>3, <1>type, <1>kept DEF NodeRefuse
  <1>4. ASSUME NEW u \in Uploads, NEW n \in Nodes, NEW whole \in BOOLEAN,
               NodeClose(u, n, whole)
        PROVE  GroupIsOpen'
    <2>1. \A v \in Uploads, m \in Nodes : (v = u /\ m = n) \/ put'[v][m] = put[v][m]
      BY <1>4, <1>type DEF NodeClose
    <2>2. CASE put[u][n] # "open"
      <3>1. file' = file
        BY <1>4, <2>2 DEF NodeClose
      <3> QED  BY <2>1, <2>2, <3>1, <1>kept
    <2>3. CASE put[u][n] = "open"
      <3>1. PICK f \in Closed(file[n][UPath(u)], u, OthersOpen(u, n), whole) :
              file' = [file EXCEPT ![n][UPath(u)] = f]
        BY <1>4, <2>3 DEF NodeClose
      <3>2. \A m \in Nodes, p \in Paths :
               file'[m][p] = IF m = n /\ p = UPath(u) THEN f ELSE file[m][p]
        BY <3>1, <1>type, <1>paths
      <3>3. CASE OthersOpen(u, n)
        <4>1. f = file[n][UPath(u)]
          BY <3>3 DEF Closed
        <4>2. PICK v \in Uploads \ {u} : put[v][n] = "open" /\ UPath(v) = UPath(u)
          BY <3>3 DEF OthersOpen
        <4>3. \A m \in Nodes, p \in Paths : file'[m][p] = file[m][p]
          BY <3>2, <4>1
        <4> QED  BY <2>1, <4>2, <4>3, <1>paths DEF GroupIsOpen
      <3>4. CASE ~OthersOpen(u, n)
        <4>1. f.group = {}
          BY <3>4 DEF Closed
        <4> QED  BY <2>1, <3>2, <4>1, <1>paths DEF GroupIsOpen
      <3> QED  BY <3>3, <3>4
    <2> QED  BY <2>2, <2>3
  <1>5. ASSUME NEW q \in Mutators, NEW n \in Nodes, NodeDelete(q, n) PROVE GroupIsOpen'
    <2>1. \A m \in Nodes, p \in Paths :
            file'[m][p] = IF m = n /\ p = QPath(q) THEN NoFile ELSE file[m][p]
      BY <1>5, <1>type, <1>paths DEF NodeDelete
    <2>2. \A u \in Uploads, m \in Nodes :
            put[u][m] = "open" /\ ~(m = n /\ UPath(u) = QPath(q)) => put'[u][m] = "open"
      BY <1>5, <1>type DEF NodeDelete
    <2>3. NoFile.group = {}
      BY DEF NoFile
    <2> QED  BY <2>1, <2>2, <2>3, <1>paths DEF GroupIsOpen
  <1>6. CASE UNCHANGED <<file, put>>
    BY <1>6, <1>kept
  <1> QED
    BY <1>1, <1>2, <1>3, <1>4, <1>5, <1>6
    DEF Next, UploadStep, DeleteStep, DownloadStep, NodeStep, PutAnswered,
        PutGivenUp, Decide, Rollback, Commit, CommitFails, StartDelete, NextCopy,
        Expire, RowDelete, RowDeleteFails, NodeDeleteFails, StartDownload,
        GetOpens, GetFails, StreamEnds, StreamBreaks, FindFails, Cancel,
        ApiCrash, NodeStops, NodeResumes, AllDone, vars

(* A file on the path of a request that is alone there changes only in the  *)
(* hands of that request.                                                   *)
LEMMA OnlyTheOwner ==
  ASSUME TypeOK, [Next]_vars, AloneOnPath,
         NEW p \in Paths, last[p] # None, NEW n \in Nodes
  PROVE  \/ file'[n][p] = file[n][p]
         \/ NodeDelete(last[p], n)
         \/ last[p] \in Uploads /\ NodeOpen(last[p], n)
         \/ /\ last[p] \in Uploads /\ put[last[p]][n] = "open"
            /\ \E whole \in BOOLEAN : NodeClose(last[p], n, whole)
  <1>type. file \in [Nodes -> [Paths -> Files]]
    BY DEF TypeOK
  <1>alone. RestOnPath(last[p], p)
    BY DEF AloneOnPath
  <1>paths. /\ \A u \in Uploads : UPath(u) \in Paths
            /\ \A q \in Mutators : QPath(q) \in Paths
    BY PathsOfRequests
  <1>1. ASSUME NEW u \in Uploads, NEW m \in Nodes, NodeOpen(u, m),
               file'[n][p] # file[n][p]
        PROVE  m = n /\ u = last[p]
    <2>1. m = n /\ UPath(u) = p
      BY <1>1, <1>type, <1>paths DEF NodeOpen
    <2>2. PutPending(u)
      BY <1>1 DEF NodeOpen, PutPending
    <2> QED  BY <2>1, <2>2, <1>alone DEF RestOnPath
  <1>2. ASSUME NEW u \in Uploads, NEW m \in Nodes, NEW whole \in BOOLEAN,
               NodeClose(u, m, whole), file'[n][p] # file[n][p]
        PROVE  m = n /\ u = last[p] /\ put[u][n] = "open"
    <2>1. m = n /\ UPath(u) = p /\ put[u][n] = "open"
      BY <1>2, <1>type, <1>paths DEF NodeClose
    <2>2. PutPending(u)
      BY <2>1 DEF PutPending
    <2> QED  BY <2>1, <2>2, <1>alone DEF RestOnPath
  <1>3. ASSUME NEW q \in Mutators, NEW m \in Nodes, NodeDelete(q, m),
               file'[n][p] # file[n][p]
        PROVE  m = n /\ q = last[p]
    <2>1. m = n /\ QPath(q) = p
      BY <1>3, <1>type, <1>paths DEF NodeDelete
    <2>2. DelPending(q)
      BY <1>3 DEF NodeDelete, DelPending
    <2> QED  BY <2>1, <2>2, <1>alone DEF RestOnPath
  <1>4. CASE file' = file
    BY <1>4
  <1> QED
    BY ZenonT(60), <1>1, <1>2, <1>3, <1>4
    DEF Next, UploadStep, DeleteStep, DownloadStep, NodeStep, PutAnswered,
        PutGivenUp, Decide, Rollback, Commit, CommitFails, StartUpload,
        StartDelete, NextCopy, Expire, RowDelete, RowDeleteFails, NodeRefuse,
        NodeDeleteFails, StartDownload, GetOpens, GetFails, StreamEnds,
        StreamBreaks, FindFails, Cancel, ApiCrash, NodeStops, NodeResumes,
        AllDone, vars

(* What an upload that is alone on its path has stored stays stored.        *)
LEMMA BytesNext ==
  ASSUME TypeOK, [Next]_vars, AloneOnPath, IdleIsUnsent, GroupIsOpen, BytesThere
  PROVE  BytesThere'
  <1>type. /\ file \in [Nodes -> [Paths -> Files]]
           /\ put \in [Uploads -> [Nodes -> PutStates]]
           /\ del \in [Mutators -> [Nodes -> DelStates]]
           /\ last \in [Paths -> Mutators \cup {None}]
    BY DEF TypeOK
  <1>paths. /\ \A u \in Uploads : UPath(u) \in Paths /\ UPath(u)' = UPath(u)
            /\ \A d \in Deletes : DPath(d) \in Paths
            /\ \A q \in Mutators : QPath(q) \in Paths
    BY PathsOfRequests, PathsStay
  <1>mut. /\ Uploads \subseteq Mutators /\ Deletes \subseteq Mutators
          /\ None \notin Mutators
          /\ \A u \in Uploads : QPath(u) = UPath(u)
          /\ \A d \in Deletes, u \in Uploads : d # u
    BY RequestsDisjoint, SentinelsForm DEF Mutators, QPath
  <1> SUFFICES ASSUME NEW u \in Uploads, NEW n \in Nodes,
                      last'[UPath(u)] = u, del'[u][n] = "none"
               PROVE  /\ put'[u][n] # "detached"
                      /\ put'[u][n] = "open" => file'[n][UPath(u)].group = {u}
                      /\ put'[u][n] = "stored" => file'[n][UPath(u)].content = u
    BY <1>paths DEF BytesThere
  <1> DEFINE p == UPath(u)
             Goal == /\ put'[u][n] # "detached"
                     /\ put'[u][n] = "open" => file'[n][p].group = {u}
                     /\ put'[u][n] = "stored" => file'[n][p].content = u
  <1>before. ASSUME last[p] = u, del[u][n] = "none"
             PROVE  /\ put[u][n] # "detached"
                    /\ put[u][n] = "open" => file[n][p].group = {u}
                    /\ put[u][n] = "stored" => file[n][p].content = u
                    /\ RestOnPath(u, p)
    BY <1>before, <1>paths, <1>mut DEF BytesThere, AloneOnPath
  <1>same. ASSUME last'[p] = last[p], del[u][n] = "none", put'[u][n] = put[u][n],
                  file'[n][p] = file[n][p]
           PROVE  Goal
    BY <1>same, <1>before
  <1>1. ASSUME NEW v \in Uploads, StartUpload(v) PROVE Goal
    <2>1. file' = file /\ del' = del
      BY <1>1 DEF StartUpload
    <2>2. CASE v = u
      <3>1. put[u][n] = "none"
        BY <1>1, <2>2 DEF StartUpload, IdleIsUnsent
      <3>2. put'[u][n] \in {"none", "sent"}
        BY <1>1, <2>2, <3>1, <1>type DEF StartUpload
      <3> QED  BY <3>2
    <2>3. CASE v # u
      <3>1. put'[u] = put[u]
        BY <1>1, <2>3, <1>type DEF StartUpload
      <3>2. last'[p] = last[p]
        BY <1>1, <2>3, <1>type, <1>paths, <1>mut DEF StartUpload, Begin
      <3> QED  BY <2>1, <3>1, <3>2, <1>same
    <2> QED  BY <2>2, <2>3
  <1>2. ASSUME NEW d \in Deletes, StartDelete(d) PROVE Goal
    <2>1. file' = file /\ put' = put /\ del'[u] = del[u]
      BY <1>2, <1>type, <1>mut DEF StartDelete
    <2>2. last'[p] = last[p]
      BY <1>2, <1>type, <1>paths, <1>mut DEF StartDelete, Begin
    <2> QED  BY <2>1, <2>2, <1>same
  <1>3. ASSUME UNCHANGED <<file, put, last>>,
               \A q \in Mutators : \/ del'[q] = del[q]
                                   \/ \E m \in Nodes, s \in {"sent", "failed"} :
                                        del'[q] = [del[q] EXCEPT ![m] = s]
        PROVE  Goal
    <2>1. del[u] \in [Nodes -> DelStates] /\ u \in Mutators
      BY <1>type, <1>mut
    <2>2. del[u][n] = "none"
      <3>1. CASE del'[u] = del[u]
        BY <3>1
      <3>2. ASSUME NEW m \in Nodes, NEW s \in {"sent", "failed"},
                   del'[u] = [del[u] EXCEPT ![m] = s]
            PROVE  del[u][n] = "none"
        <4>1. m # n
          BY <2>1, <3>2
        <4> QED  BY <2>1, <3>2, <4>1
      <3> QED  BY <1>3, <2>1, <3>1, <3>2
    <2> QED  BY <1>3, <2>2, <1>same
  <1>4. ASSUME NEW v \in Uploads, NEW m \in Nodes,
               \/ NodeOpen(v, m) \/ NodeRefuse(v, m)
               \/ \E whole \in BOOLEAN : NodeClose(v, m, whole),
               ~(v = u /\ m = n)
        PROVE  Goal
    <2>1. UNCHANGED <<del, last>> /\ last[p] = u
      BY <1>4 DEF NodeOpen, NodeRefuse, NodeClose
    <2>2. put'[u][n] = put[u][n]
      BY <1>4, <1>type DEF NodeOpen, NodeRefuse, NodeClose
    <2>3. file'[n][p] = file[n][p]
      <3>1. CASE NodeOpen(v, m)
        <4>1. PutPending(v)
          BY <3>1 DEF NodeOpen, PutPending
        <4>2. m = n => UPath(v) # p
          BY <4>1, <1>4, <2>1, <1>before DEF RestOnPath
        <4> QED  BY <3>1, <4>2, <1>type, <1>paths DEF NodeOpen
      <3>2. CASE NodeRefuse(v, m)
        BY <3>2 DEF NodeRefuse
      <3>3. ASSUME NEW whole \in BOOLEAN, NodeClose(v, m, whole)
            PROVE  file'[n][p] = file[n][p]
        <4>1. put[v][m] = "open" => PutPending(v)
          BY DEF PutPending
        <4>2. put[v][m] = "open" /\ m = n => UPath(v) # p
          BY <4>1, <1>4, <2>1, <1>before DEF RestOnPath
        <4> QED  BY <3>3, <4>2, <1>type, <1>paths DEF NodeClose
      <3> QED  BY <1>4, <3>1, <3>2, <3>3
    <2> QED  BY <2>1, <2>2, <2>3, <1>same
  <1>5. ASSUME NodeOpen(u, n) PROVE Goal
    <2>1. put[u][n] = "sent" /\ put'[u][n] = "open" /\ last[p] = u /\ del[u][n] = "none"
      BY <1>5, <1>type DEF NodeOpen
    <2>2. file[n][p].group = {}
      <3> SUFFICES ASSUME file[n][p].group # {} PROVE FALSE
        OBVIOUS
      <3>1. PICK v \in Uploads : UPath(v) = p /\ put[v][n] = "open"
        BY <1>paths DEF GroupIsOpen
      <3>2. v # u /\ PutPending(v)
        BY <2>1, <3>1 DEF PutPending
      <3> QED  BY <2>1, <3>1, <3>2, <1>before DEF RestOnPath
    <2>3. file'[n][p].group = {u}
      BY <1>5, <2>2, <1>type, <1>paths DEF NodeOpen, Opened
    <2> QED  BY <2>1, <2>3
  <1>6. ASSUME NodeRefuse(u, n) PROVE Goal
    BY <1>6, <1>type DEF NodeRefuse
  <1>7. ASSUME NEW whole \in BOOLEAN, NodeClose(u, n, whole) PROVE Goal
    <2>1. /\ put'[u][n] = IF whole THEN "stored" ELSE "failed"
          /\ last[p] = u /\ del[u][n] = "none"
      BY <1>7, <1>type DEF NodeClose
    <2>2. put[u][n] = "open" /\ file[n][p].group = {u}
      BY <1>7, <2>1, <1>before DEF NodeClose
    <2>3. ~OthersOpen(u, n)
      BY <2>1, <1>before DEF OthersOpen, RestOnPath, PutPending
    <2>4. PICK f \in Closed(file[n][p], u, OthersOpen(u, n), whole) :
            file' = [file EXCEPT ![n][p] = f]
      BY <1>7, <2>2 DEF NodeClose
    <2>5. whole => f.content = u
      BY <2>2, <2>3, <2>4 DEF Closed, Settled
    <2>6. file'[n][p] = f
      BY <2>4, <1>type, <1>paths
    <2> QED  BY <2>1, <2>5, <2>6
  <1>8. ASSUME NEW q \in Mutators, NEW m \in Nodes, NodeDelete(q, m) PROVE Goal
    <2>1. /\ last[p] = u /\ del[u][n] = "none" /\ del[q][m] = "sent"
          /\ ~(q = u /\ m = n)
      BY <1>8, <1>type, <1>mut DEF NodeDelete
    <2>2. m = n => QPath(q) # p
      BY <2>1, <1>before DEF RestOnPath, DelPending
    <2>3. put'[u][n] = put[u][n] /\ file'[n][p] = file[n][p]
      BY <1>8, <2>2, <1>type, <1>paths DEF NodeDelete
    <2> QED  BY <1>8, <2>1, <2>3, <1>same DEF NodeDelete
  <1>9. ASSUME NEW v \in Uploads, UploadStep(v) PROVE Goal
    <2>1. /\ UNCHANGED <<file, put, last>>
          /\ \/ del' = del
             \/ \E m \in Nodes : del' = [del EXCEPT ![v][m] = "sent"]
      <3>1. \A m \in Nodes : PutAnswered(v, m) \/ PutGivenUp(v, m) => UNCHANGED <<file, put, last, del>>
        BY DEF PutAnswered, PutGivenUp
      <3>2. Commit(v) \/ CommitFails(v) => UNCHANGED <<file, put, last, del>>
        BY DEF Commit, CommitFails
      <3>3. ASSUME Decide(v)
            PROVE  /\ UNCHANGED <<file, put, last>>
                   /\ \/ del' = del
                      \/ \E m \in Nodes : del' = [del EXCEPT ![v][m] = "sent"]
        <4>1. CASE AllStored(v)
          BY <3>3, <4>1 DEF Decide
        <4>2. CASE ~AllStored(v)
          <5>1. Targets[UPath(v)][1] \in Nodes
            BY <4>2, TargetsAreNodes, <1>paths DEF AllStored
          <5> QED  BY <3>3, <4>2, <5>1 DEF Decide
        <4> QED  BY <4>1, <4>2
      <3>4. ASSUME Rollback(v)
            PROVE  /\ UNCHANGED <<file, put, last>>
                   /\ \/ del' = del
                      \/ \E m \in Nodes : del' = [del EXCEPT ![v][m] = "sent"]
        <4> DEFINE t == Targets[UPath(v)]
                   i == up[v].at
        <4>1. CASE i < Len(t)
          <5>1. t[i + 1] \in Nodes
            BY <4>1, TargetsAreNodes, <1>paths DEF TypeOK, UploadStates
          <5> QED  BY <3>4, <4>1, <5>1 DEF Rollback
        <4>2. CASE ~(i < Len(t))
          BY <3>4, <4>2 DEF Rollback
        <4> QED  BY <4>1, <4>2
      <3> QED  BY <1>9, <3>1, <3>2, <3>3, <3>4 DEF UploadStep
    <2> QED  BY <2>1, <1>type, <1>mut, <1>3
  <1>10. ASSUME NEW d \in Deletes, DeleteStep(d) PROVE Goal
    <2>1. UNCHANGED <<file, put, last>> /\ del'[u] = del[u]
      BY <1>10, <1>type, <1>mut
         DEF DeleteStep, NextCopy, Expire, RowDelete, RowDeleteFails
    <2> QED  BY <2>1, <1>same
  <1>11. ASSUME NEW q \in Mutators, NEW m \in Nodes, NodeDeleteFails(q, m) PROVE Goal
    BY <1>11, <1>type, <1>3 DEF NodeDeleteFails
  <1>12. CASE UNCHANGED <<file, put, del, last>>
    BY <1>12, <1>same
  <1> QED
    <2>1. Goal
      BY <1>1, <1>2, <1>4, <1>5, <1>6, <1>7, <1>8, <1>9, <1>10, <1>11, <1>12
      DEF Next, NodeStep, DownloadStep, StartDownload, GetOpens, GetFails,
          StreamEnds, StreamBreaks, FindFails, Cancel, ApiCrash, NodeStops,
          NodeResumes, AllDone, vars
    <2> QED  BY <2>1

-----------------------------------------------------------------------------
(* The row of an acknowledged upload is its own until its path is taken up  *)
(* by somebody else.                                                        *)
LEMMA AcknowledgedNext ==
  ASSUME StoreInv, [Next]_vars, AloneOnPath, AcknowledgedIsRecorded
  PROVE  AcknowledgedIsRecorded'
  <1>ok. TypeOK
    BY DEF StoreInv
  <1>type. /\ row \in [Keys -> Rows \cup {NoRow}]
           /\ up \in [Uploads -> UploadStates]
           /\ rm \in [Deletes -> DeleteStates]
           /\ last \in [Paths -> Mutators \cup {None}]
    BY <1>ok DEF TypeOK
  <1>paths. /\ \A u \in Uploads : UPath(u) \in Paths /\ UPath(u)' = UPath(u)
            /\ \A d \in Deletes : DPath(d) \in Paths
    BY <1>ok, PathsOfRequests, PathsStay
  <1>keys. \A u \in Uploads : up'[u].key = up[u].key /\ up[u].key \in Keys
    BY <1>ok, KeysStay, <1>type DEF UploadStates
  <1>mut. /\ Uploads \subseteq Mutators /\ Deletes \subseteq Mutators
          /\ None \notin Mutators
          /\ \A d \in Deletes, u \in Uploads : d # u
    BY RequestsDisjoint, SentinelsForm DEF Mutators
  <1> SUFFICES ASSUME NEW u \in Uploads, up'[u].pc = "ok", last'[UPath(u)] = u
               PROVE  row'[up[u].key] # NoRow /\ row'[up[u].key].etag = u
    BY <1>paths, <1>keys DEF AcknowledgedIsRecorded
  <1> DEFINE k == up[u].key
             p == UPath(u)
             Goal == row'[k] # NoRow /\ row'[k].etag = u
  <1>same. ASSUME last[p] = u, up[u].pc = "ok", row'[k] = row[k] PROVE Goal
    BY <1>same DEF AcknowledgedIsRecorded
  <1>1. ASSUME NEW v \in Uploads, StartUpload(v) PROVE Goal
    <2>1. v # u
      BY <1>1, <1>type DEF StartUpload, UploadStates
    <2>2. row' = row /\ up'[u] = up[u]
      BY <1>1, <2>1, <1>type DEF StartUpload
    <2>3. last'[p] = last[p]
      BY <1>1, <2>1, <1>type, <1>paths, <1>mut DEF StartUpload, Begin
    <2> QED  BY <2>2, <2>3, <1>same
  <1>2. ASSUME NEW d \in Deletes, StartDelete(d) PROVE Goal
    <2>1. row' = row /\ up' = up
      BY <1>2 DEF StartDelete
    <2>2. last'[p] = last[p]
      BY <1>2, <1>type, <1>paths, <1>mut DEF StartDelete, Begin
    <2> QED  BY <2>1, <2>2, <1>same
  <1>3. ASSUME NEW v \in Uploads, Decide(v) \/ Rollback(v) PROVE Goal
    <2>1. UNCHANGED <<row, last>>
      BY <1>3 DEF Decide, Rollback
    <2>2. up'[v].pc # "ok"
      BY <1>3, <1>type DEF Decide, Rollback, UploadStates
    <2>3. v # u => up'[u] = up[u]
      BY <1>3, <1>type DEF Decide, Rollback
    <2> QED  BY <2>1, <2>2, <2>3, <1>same
  <1>4. ASSUME Commit(u) PROVE Goal
    <2> DEFINE r == [etag |-> u, primary |-> Targets[p][1], replica |-> Targets[p][2]]
    <2>1. row'[k] = r
      BY <1>4, <1>type, <1>keys DEF Commit, Upserted
    <2>2. Len(Targets[p]) >= 2
      BY <1>4 DEF Commit, StoreInv, UploadsInv, PlacedOnTwo
    <2>3. r \in Rows
      BY <2>2, <1>paths, TargetsAreNodes DEF Rows
    <2> QED  BY <2>1, <2>3, SentinelsForm DEF Rows
  <1>5. ASSUME NEW v \in Uploads, Commit(v) \/ CommitFails(v), v # u PROVE Goal
    <2>1. /\ last' = last /\ up'[u] = up[u] /\ UploadActive(v)
          /\ row' \in {row, Upserted(v)}
      BY <1>5, <1>type DEF Commit, CommitFails, UploadActive
    <2>2. UPath(v) # p
      BY <1>5, <2>1, <1>paths, <1>mut DEF AloneOnPath, RestOnPath
    <2>3. up[v].key # k
      BY <2>2 DEF UPath
    <2>4. row'[k] = row[k]
      BY <2>1, <2>3, <1>type, <1>keys DEF Upserted
    <2> QED  BY <2>1, <2>4, <1>same
  <1>6. ASSUME CommitFails(u) PROVE Goal
    BY <1>6, <1>type DEF CommitFails, UploadStates
  <1>7. ASSUME NEW d \in Deletes, RowDelete(d) \/ RowDeleteFails(d) PROVE Goal
    <2>1. /\ last' = last /\ up' = up /\ DeleteActive(d)
          /\ row' \in {row, [row EXCEPT ![rm[d].key] = NoRow]}
      BY <1>7 DEF RowDelete, RowDeleteFails, DeleteActive
    <2>2. DPath(d) # p
      BY <2>1, <1>paths, <1>mut DEF AloneOnPath, RestOnPath
    <2>3. rm[d].key # k
      BY <2>2 DEF UPath, DPath
    <2>4. row'[k] = row[k]
      BY <2>1, <2>3, <1>type, <1>keys
    <2> QED  BY <2>1, <2>4, <1>same
  <1>8. ASSUME ApiCrash PROVE Goal
    <2>1. UNCHANGED <<row, last>> /\ up'[u] = up[u]
      BY <1>8, <1>type DEF ApiCrash, UploadStates
    <2> QED  BY <2>1, <1>same
  <1>9. CASE UNCHANGED <<row, up, last>>
    BY <1>9, <1>same
  <1> QED
    <2>1. Goal
      BY ZenonT(60), <1>1, <1>2, <1>3, <1>4, <1>5, <1>6, <1>7, <1>8, <1>9
      DEF Next, UploadStep, DeleteStep, DownloadStep, NodeStep, PutAnswered,
          PutGivenUp, NextCopy, Expire, NodeOpen, NodeRefuse, NodeClose,
          NodeDelete, NodeDeleteFails, StartDownload, GetOpens, GetFails,
          StreamEnds, StreamBreaks, FindFails, Cancel, NodeStops, NodeResumes,
          AllDone, vars
    <2> QED  BY <2>1

-----------------------------------------------------------------------------
(* A path changes hands only when a request on it starts.                   *)
LEMMA LastMoves ==
  ASSUME TypeOK, [Next]_vars, NEW p \in Paths, last'[p] # last[p], last'[p] # None
  PROVE  \/ last'[p] \in Uploads /\ UPath(last'[p]) = p /\ StartUpload(last'[p])
         \/ last'[p] \in Deletes /\ DPath(last'[p]) = p /\ StartDelete(last'[p])
  <1>type. last \in [Paths -> Mutators \cup {None}]
    BY DEF TypeOK
  <1>paths. /\ \A u \in Uploads : UPath(u) \in Paths
            /\ \A d \in Deletes : DPath(d) \in Paths
    BY PathsOfRequests
  <1>1. ASSUME NEW u \in Uploads, StartUpload(u)
        PROVE  last'[p] = u /\ UPath(u) = p
    BY <1>1, <1>type, <1>paths DEF StartUpload, Begin
  <1>2. ASSUME NEW d \in Deletes, StartDelete(d)
        PROVE  last'[p] = d /\ DPath(d) = p
    BY <1>2, <1>type, <1>paths DEF StartDelete, Begin
  <1> QED
    BY ZenonT(60), <1>1, <1>2
    DEF Next, UploadStep, DeleteStep, DownloadStep, NodeStep, PutAnswered,
        PutGivenUp, Decide, Rollback, Commit, CommitFails, NextCopy, Expire,
        RowDelete, RowDeleteFails, NodeOpen, NodeRefuse, NodeClose, NodeDelete,
        NodeDeleteFails, StartDownload, GetOpens, GetFails, StreamEnds,
        StreamBreaks, FindFails, Cancel, ApiCrash, NodeStops, NodeResumes,
        AllDone, vars

(* A DELETE that was sent is not unsent, and done only by the node.         *)
LEMMA DelMoves ==
  ASSUME TypeOK, [Next]_vars, NEW q \in Mutators, NEW n \in Nodes
  PROVE  /\ del[q][n] # "none" => del'[q][n] # "none"
         /\ del'[q][n] = "done" => del[q][n] = "done" \/ NodeDelete(q, n)
  <1>type. del \in [Mutators -> [Nodes -> DelStates]]
    BY DEF TypeOK
  <1>sent. ASSUME NEW r, NEW m, del' = [del EXCEPT ![r][m] = "sent"]
           PROVE  /\ del[q][n] # "none" => del'[q][n] # "none"
                  /\ del'[q][n] = "done" => del[q][n] = "done"
    BY <1>sent, <1>type
  <1>same. CASE del' = del
    BY <1>same
  <1>1. ASSUME NEW u \in Uploads, Decide(u)
        PROVE  \/ del' = del
               \/ del' = [del EXCEPT ![u][Targets[UPath(u)][1]] = "sent"]
    BY <1>1 DEF Decide
  <1>2. ASSUME NEW u \in Uploads, Rollback(u)
        PROVE  \/ del' = del
               \/ del' = [del EXCEPT ![u][Targets[UPath(u)][up[u].at + 1]] = "sent"]
    BY <1>2 DEF Rollback
  <1>3. ASSUME NEW d \in Deletes, StartDelete(d)
        PROVE  \/ del' = del
               \/ del' = [del EXCEPT ![d][row[rm[d].key].primary] = "sent"]
    BY <1>3 DEF StartDelete
  <1>4. ASSUME NEW d \in Deletes, NextCopy(d)
        PROVE  \/ del' = del
               \/ del' = [del EXCEPT ![d][rm[d].rec.replica] = "sent"]
    BY <1>4 DEF NextCopy
  <1>5. ASSUME NEW r \in Mutators, NEW m \in Nodes, NodeDelete(r, m)
        PROVE  /\ del[q][n] # "none" => del'[q][n] # "none"
               /\ del'[q][n] = "done" => del[q][n] = "done" \/ NodeDelete(q, n)
    <2>1. del' = [del EXCEPT ![r][m] = "done"]
      BY <1>5 DEF NodeDelete
    <2>2. (q = r /\ n = m) \/ del'[q][n] = del[q][n]
      BY <2>1, <1>type
    <2>3. q = r /\ n = m => del'[q][n] = "done"
      BY <2>1, <1>type
    <2> QED  BY <1>5, <2>2, <2>3
  <1>6. ASSUME NEW r \in Mutators, NEW m \in Nodes, NodeDeleteFails(r, m)
        PROVE  /\ del[q][n] # "none" => del'[q][n] # "none"
               /\ del'[q][n] = "done" => del[q][n] = "done"
    BY <1>6, <1>type DEF NodeDeleteFails
  <1>7. ASSUME NEW u \in Uploads, UploadStep(u)
        PROVE  /\ del[q][n] # "none" => del'[q][n] # "none"
               /\ del'[q][n] = "done" => del[q][n] = "done"
    BY <1>7, <1>1, <1>2, <1>sent, <1>same
       DEF UploadStep, PutAnswered, PutGivenUp, Commit, CommitFails
  <1>8. ASSUME NEW d \in Deletes, StartDelete(d) \/ DeleteStep(d)
        PROVE  /\ del[q][n] # "none" => del'[q][n] # "none"
               /\ del'[q][n] = "done" => del[q][n] = "done"
    BY <1>8, <1>3, <1>4, <1>sent, <1>same
       DEF DeleteStep, Expire, RowDelete, RowDeleteFails
  <1> QED
    BY ZenonT(60), <1>5, <1>6, <1>7, <1>8, <1>same
    DEF Next, DownloadStep, NodeStep, StartUpload, NodeOpen, NodeRefuse,
        NodeClose, StartDownload, GetOpens, GetFails, StreamEnds, StreamBreaks,
        FindFails, Cancel, ApiCrash, NodeStops, NodeResumes, AllDone, vars

(* The API's view of a PUT changes only while the upload waits for it, and  *)
(* once an answer is in, the PUT is over on the node.                       *)
LEMMA RepliesNext ==
  ASSUME TypeOK, [Next]_vars, ReplyIsOver
  PROVE  /\ ReplyIsOver'
         /\ \A u \in Uploads : reply'[u] # reply[u] => up[u].pc \in {"idle", "puts"}
  <1>type. /\ put \in [Uploads -> [Nodes -> PutStates]]
           /\ reply \in [Uploads -> [Nodes -> Replies]]
    BY DEF TypeOK
  <1>1. ASSUME NEW u \in Uploads, StartUpload(u)
        PROVE  /\ ReplyIsOver'
               /\ \A v \in Uploads : reply'[v] # reply[v] => up[v].pc = "idle"
    <2>1. \A v \in Uploads \ {u} : reply'[v] = reply[v] /\ put'[v] = put[v]
      BY <1>1, <1>type DEF StartUpload
    <2>2. \/ reply' = reply /\ put' = put
          \/ \A n \in Nodes : reply'[u][n] \in {"wait", "none"}
      BY <1>1, <1>type DEF StartUpload
    <2> QED  BY <1>1, <2>1, <2>2 DEF StartUpload, ReplyIsOver
  <1>2. ASSUME NEW u \in Uploads, NEW n \in Nodes, PutAnswered(u, n) \/ PutGivenUp(u, n)
        PROVE  /\ ReplyIsOver'
               /\ \A v \in Uploads : reply'[v] # reply[v] => up[v].pc = "puts"
    <2>1. \A v \in Uploads, m \in Nodes :
            reply'[v][m] # reply[v][m] =>
              v = u /\ m = n /\ \/ reply'[v][m] = "gaveup"
                                \/ put[v][m] \in {"stored", "failed"}
      BY <1>2, <1>type DEF PutAnswered, PutGivenUp
    <2>2. \A v \in Uploads \ {u} : reply'[v] = reply[v]
      BY <1>2, <1>type DEF PutAnswered, PutGivenUp
    <2> QED  BY <1>2, <2>1, <2>2 DEF PutAnswered, PutGivenUp, ReplyIsOver
  <1>3. ASSUME NEW u \in Uploads, NEW n \in Nodes,
               \/ NodeOpen(u, n) \/ NodeRefuse(u, n)
               \/ \E whole \in BOOLEAN : NodeClose(u, n, whole)
        PROVE  ReplyIsOver' /\ reply' = reply
    <2>1. put[u][n] \in {"sent", "open", "detached"} /\ reply' = reply
      BY <1>3 DEF NodeOpen, NodeRefuse, NodeClose
    <2>2. \A v \in Uploads, m \in Nodes : (v = u /\ m = n) \/ put'[v][m] = put[v][m]
      BY <1>3, <1>type DEF NodeOpen, NodeRefuse, NodeClose
    <2> QED  BY <2>1, <2>2 DEF ReplyIsOver
  <1>4. ASSUME NEW q \in Mutators, NEW n \in Nodes, NodeDelete(q, n)
        PROVE  ReplyIsOver' /\ reply' = reply
    BY <1>4, <1>type DEF NodeDelete, ReplyIsOver
  <1>5. CASE UNCHANGED <<put, reply>>
    BY <1>5 DEF ReplyIsOver
  <1> QED
    BY <1>1, <1>2, <1>3, <1>4, <1>5
    DEF Next, UploadStep, DeleteStep, DownloadStep, NodeStep, Decide, Rollback,
        Commit, CommitFails, StartDelete, NextCopy, Expire, RowDelete,
        RowDeleteFails, NodeDeleteFails, StartDownload, GetOpens, GetFails,
        StreamEnds, StreamBreaks, FindFails, Cancel, ApiCrash, NodeStops,
        NodeResumes, AllDone, vars

(* wg.Wait(): no upload is decided before each of its targets has answered. *)
LEMMA AskedNext ==
  ASSUME StoreInv, [Next]_vars, EveryTargetAsked
  PROVE  EveryTargetAsked'
  <1>ok. TypeOK
    BY DEF StoreInv
  <1>type. /\ reply \in [Uploads -> [Nodes -> Replies]]
           /\ up \in [Uploads -> UploadStates]
    BY <1>ok DEF TypeOK
  <1>paths. /\ \A u \in Uploads : UPath(u) \in Paths /\ UPath(u)' = UPath(u)
            /\ \A u \in Uploads : TargetSet(UPath(u)) \subseteq Nodes
    BY <1>ok, PathsOfRequests, PathsStay, TargetsAreNodes
  <1>targets. \A u \in Uploads : TargetSet(UPath(u))' = TargetSet(UPath(u))
    BY <1>paths DEF TargetSet
  <1>kept. ASSUME \A u \in Uploads :
                    \/ up'[u].pc = up[u].pc /\ reply'[u] = reply[u]
                    \/ \A n \in TargetSet(UPath(u)) :
                         /\ up'[u].pc = "puts" => reply'[u][n] # "none"
                         /\ up'[u].pc \in {"rollback", "commit", "ok", "err"} =>
                              reply'[u][n] \in {"ok", "refused", "gaveup"}
           PROVE  EveryTargetAsked'
    BY <1>kept, <1>targets DEF EveryTargetAsked
  <1>1. ASSUME NEW u \in Uploads, StartUpload(u) PROVE EveryTargetAsked'
    <2>1. \A v \in Uploads \ {u} : up'[v] = up[v] /\ reply'[v] = reply[v]
      BY <1>1, <1>type DEF StartUpload
    <2>2. CASE Len(Targets[UPath(u)]) < 2
      <3>1. up'[u].pc = "invalid"
        BY <1>1, <2>2, <1>type DEF StartUpload, UploadStates
      <3> QED  BY <2>1, <3>1, <1>kept
    <2>3. CASE ~(Len(Targets[UPath(u)]) < 2)
      <3>1. up'[u].pc = "puts"
        BY <1>1, <2>3, <1>type DEF StartUpload, UploadStates
      <3>2. \A n \in TargetSet(UPath(u)) : reply'[u][n] = "wait"
        BY <1>1, <2>3, <1>type, <1>paths DEF StartUpload
      <3> QED  BY <2>1, <3>1, <3>2, <1>kept
    <2> QED  BY <2>2, <2>3
  <1>2. ASSUME NEW u \in Uploads, NEW n \in Nodes, PutAnswered(u, n) \/ PutGivenUp(u, n)
        PROVE  EveryTargetAsked'
    <2>1. /\ up' = up /\ up[u].pc = "puts"
          /\ \A v \in Uploads \ {u} : reply'[v] = reply[v]
          /\ \A m \in Nodes : reply[u][m] # "none" => reply'[u][m] # "none"
      BY <1>2, <1>type DEF PutAnswered, PutGivenUp
    <2>2. \A m \in TargetSet(UPath(u)) : reply'[u][m] # "none"
      BY <2>1, <1>paths DEF EveryTargetAsked
    <2> QED  BY <2>1, <2>2, <1>kept
  <1>3. ASSUME NEW u \in Uploads, Decide(u) PROVE EveryTargetAsked'
    <2>1. reply' = reply /\ \A v \in Uploads \ {u} : up'[v] = up[v]
      BY <1>3, <1>type DEF Decide
    <2>2. \A n \in TargetSet(UPath(u)) : reply[u][n] \in {"ok", "refused", "gaveup"}
      BY <1>3, <1>type, <1>paths DEF Decide, AllAnswered, EveryTargetAsked, Replies
    <2>3. up'[u].pc # "puts"
      BY <1>3, <1>type DEF Decide, UploadStates
    <2> QED  BY <2>1, <2>2, <2>3, <1>kept
  <1>4. ASSUME NEW u \in Uploads, Rollback(u) \/ Commit(u) \/ CommitFails(u)
        PROVE  EveryTargetAsked'
    <2>1. /\ reply' = reply /\ \A v \in Uploads \ {u} : up'[v] = up[v]
          /\ up[u].pc \in {"rollback", "commit"}
      BY <1>4, <1>type DEF Rollback, Commit, CommitFails
    <2>2. up'[u].pc # "puts"
      BY <1>4, <2>1, <1>type DEF Rollback, Commit, CommitFails, UploadStates
    <2>3. \A n \in TargetSet(UPath(u)) : reply[u][n] \in {"ok", "refused", "gaveup"}
      BY <2>1 DEF EveryTargetAsked
    <2> QED  BY <2>1, <2>2, <2>3, <1>kept
  <1>5. ASSUME ApiCrash PROVE EveryTargetAsked'
    <2>1. reply' = reply /\ \A u \in Uploads : up'[u].pc \in {up[u].pc, "cut"}
      BY <1>5, <1>type DEF ApiCrash, UploadStates
    <2> QED  BY <2>1, <1>kept
  <1>6. CASE UNCHANGED <<up, reply>>
    BY <1>6, <1>kept
  <1> QED
    BY ZenonT(60), <1>1, <1>2, <1>3, <1>4, <1>5, <1>6
    DEF Next, UploadStep, DeleteStep, DownloadStep, NodeStep, StartDelete,
        NextCopy, Expire, RowDelete, RowDeleteFails, NodeOpen, NodeRefuse,
        NodeClose, NodeDelete, NodeDeleteFails, StartDownload, GetOpens,
        GetFails, StreamEnds, StreamBreaks, FindFails, Cancel, NodeStops,
        NodeResumes, AllDone, vars

(* The rollback goes through all targets, one after the other.              *)
LEMMA RollbackNext ==
  ASSUME StoreInv, [Next]_vars, RollbackAsks
  PROVE  RollbackAsks'
  <1>ok. TypeOK
    BY DEF StoreInv
  <1>type. /\ reply \in [Uploads -> [Nodes -> Replies]]
           /\ del \in [Mutators -> [Nodes -> DelStates]]
           /\ up \in [Uploads -> UploadStates]
    BY <1>ok DEF TypeOK
  <1>paths. /\ \A u \in Uploads : UPath(u) \in Paths /\ UPath(u)' = UPath(u)
            /\ \A u \in Uploads : Len(Targets[UPath(u)]) \in Nat
            /\ \A u \in Uploads : \A i \in 1..Len(Targets[UPath(u)]) :
                 Targets[UPath(u)][i] \in Nodes
            /\ \A u \in Uploads : TargetSet(UPath(u)) \subseteq Nodes
    BY <1>ok, PathsOfRequests, PathsStay, TargetsAreNodes
  <1>targets. \A u \in Uploads : TargetSet(UPath(u))' = TargetSet(UPath(u))
    BY <1>paths DEF TargetSet
  <1>asked. \A u \in Uploads, n \in Nodes : del[u][n] # "none" => del'[u][n] # "none"
    BY <1>ok, DelMoves DEF Mutators
  <1>rb. ASSUME NEW u \in Uploads, up[u].pc = "rollback"
         PROVE  /\ up[u].at \in 1..Len(Targets[UPath(u)])
                /\ \A i \in 1..up[u].at : del[u][Targets[UPath(u)][i]] # "none"
    BY <1>rb DEF RollbackAsks
  <1>err. ASSUME NEW u \in Uploads, up[u].pc = "err"
          PROVE  \/ \A n \in TargetSet(UPath(u)) : reply[u][n] = "ok"
                 \/ \A n \in TargetSet(UPath(u)) : del[u][n] # "none"
    BY <1>err DEF RollbackAsks
  <1> DEFINE After(u) ==
        /\ up'[u].pc = "rollback" =>
             /\ up'[u].at \in 1..Len(Targets[UPath(u)])
             /\ \A i \in 1..up'[u].at : del'[u][Targets[UPath(u)][i]] # "none"
        /\ up'[u].pc = "err" =>
             \/ \A n \in TargetSet(UPath(u)) : reply'[u][n] = "ok"
             \/ \A n \in TargetSet(UPath(u)) : del'[u][n] # "none"
  <1>goal. ASSUME \A u \in Uploads : After(u) PROVE RollbackAsks'
    BY <1>goal, <1>paths, <1>targets DEF RollbackAsks
  <1>same. ASSUME NEW u \in Uploads,
                  up'[u].pc \in {"rollback", "err"} =>
                    up'[u] = up[u] /\ reply'[u] = reply[u]
           PROVE  After(u)
    <2>1. CASE up'[u].pc = "rollback"
      <3>1. up'[u] = up[u] /\ up[u].pc = "rollback"
        BY <1>same, <2>1
      <3>2. \A i \in 1..up[u].at : i \in 1..Len(Targets[UPath(u)])
        BY <3>1, <1>rb, <1>paths
      <3> QED  BY <3>1, <3>2, <1>rb, <1>paths, <1>asked
    <2>2. CASE up'[u].pc = "err"
      BY <1>same, <2>2, <1>err, <1>paths, <1>asked
    <2> QED  BY <2>1, <2>2
  <1> HIDE DEF After
  <1>1. ASSUME NEW u \in Uploads, StartUpload(u) PROVE RollbackAsks'
    <2>1. \A v \in Uploads \ {u} : up'[v] = up[v] /\ reply'[v] = reply[v]
      BY <1>1, <1>type DEF StartUpload
    <2>2. up'[u].pc \in {"invalid", "puts"}
      BY <1>1, <1>type DEF StartUpload, UploadStates
    <2>3. \A v \in Uploads : After(v)
      BY <2>1, <2>2, <1>same
    <2> QED  BY <2>3, <1>goal
  <1>2. ASSUME NEW u \in Uploads, NEW n \in Nodes, PutAnswered(u, n) \/ PutGivenUp(u, n)
        PROVE  RollbackAsks'
    <2>1. /\ up' = up /\ up[u].pc = "puts"
          /\ \A v \in Uploads \ {u} : reply'[v] = reply[v]
      BY <1>2, <1>type DEF PutAnswered, PutGivenUp
    <2>2. \A v \in Uploads : After(v)
      BY <2>1, <1>same
    <2> QED  BY <2>2, <1>goal
  <1>3. ASSUME NEW u \in Uploads, Decide(u) PROVE RollbackAsks'
    <2>1. reply' = reply /\ \A v \in Uploads \ {u} : up'[v] = up[v]
      BY <1>3, <1>type DEF Decide
    <2>2. CASE AllStored(u)
      <3>1. up'[u].pc = "commit"
        BY <1>3, <2>2, <1>type DEF Decide, UploadStates
      <3>2. \A v \in Uploads : After(v)
        BY <2>1, <3>1, <1>same
      <3> QED  BY <3>2, <1>goal
    <2>3. CASE ~AllStored(u)
      <3> DEFINE t == Targets[UPath(u)]
      <3>1. Len(t) >= 2 /\ t[1] \in Nodes
        BY <1>3, <1>paths DEF Decide, StoreInv, UploadsInv, PlacedOnTwo
      <3>2. /\ up' = [up EXCEPT ![u].pc = "rollback", ![u].at = 1]
            /\ del' = [del EXCEPT ![u][t[1]] = "sent"]
        BY <1>3, <2>3 DEF Decide
      <3>3. up'[u].pc = "rollback" /\ up'[u].at = 1
        BY <3>2, <1>type DEF UploadStates
      <3>4. del'[u][t[1]] = "sent"
        BY <3>1, <3>2, <1>type DEF Mutators
      <3>5. After(u)
        BY <3>1, <3>3, <3>4, <1>paths DEF After
      <3>6. \A v \in Uploads : After(v)
        BY <2>1, <3>5, <1>same
      <3> QED  BY <3>6, <1>goal
    <2> QED  BY <2>2, <2>3
  <1>4. ASSUME NEW u \in Uploads, Rollback(u) PROVE RollbackAsks'
    <2> DEFINE t == Targets[UPath(u)]
               i == up[u].at
    <2>1. /\ reply' = reply /\ \A v \in Uploads \ {u} : up'[v] = up[v]
          /\ up[u].pc = "rollback"
      BY <1>4, <1>type DEF Rollback
    <2>2. i \in 1..Len(t) /\ \A j \in 1..i : del[u][t[j]] # "none"
      BY <2>1, <1>rb
    <2>3. \A j \in 1..i : del'[u][t[j]] # "none"
      BY <2>2, <1>asked, <1>paths
    <2>4. CASE i < Len(t)
      <3>1. /\ up' = [up EXCEPT ![u].at = i + 1]
            /\ del' = [del EXCEPT ![u][t[i + 1]] = "sent"]
        BY <1>4, <2>4 DEF Rollback
      <3>2. up'[u].pc = "rollback" /\ up'[u].at = i + 1
        BY <2>1, <3>1, <1>type DEF UploadStates
      <3>3. i + 1 \in 1..Len(t) /\ t[i + 1] \in Nodes
        BY <2>2, <2>4, <1>paths
      <3>4. del'[u][t[i + 1]] = "sent"
        BY <3>1, <3>3, <1>type DEF Mutators
      <3>5. \A j \in 1..(i + 1) : del'[u][t[j]] # "none"
        BY <2>2, <2>3, <3>4, <1>paths
      <3>6. After(u)
        BY <3>2, <3>3, <3>5 DEF After
      <3> QED  BY <2>1, <3>6, <1>same, <1>goal
    <2>5. CASE ~(i < Len(t))
      <3>1. up'[u].pc = "err"
        BY <1>4, <2>5, <1>type DEF Rollback, UploadStates
      <3>2. i = Len(t)
        BY <2>2, <2>5, <1>paths
      <3>3. \A n \in TargetSet(UPath(u)) : del'[u][n] # "none"
        BY <2>3, <3>2 DEF TargetSet
      <3>4. After(u)
        BY <3>1, <3>3 DEF After
      <3> QED  BY <2>1, <3>4, <1>same, <1>goal
    <2> QED  BY <2>4, <2>5
  <1>5. ASSUME NEW u \in Uploads, Commit(u) \/ CommitFails(u) PROVE RollbackAsks'
    <2>1. /\ reply' = reply /\ \A v \in Uploads \ {u} : up'[v] = up[v]
          /\ up[u].pc = "commit"
      BY <1>5, <1>type DEF Commit, CommitFails
    <2>2. up'[u].pc # "rollback"
      BY <1>5, <1>type DEF Commit, CommitFails, UploadStates
    <2>3. \A n \in TargetSet(UPath(u)) : reply'[u][n] = "ok"
      BY <2>1 DEF StoreInv, UploadsInv, CommitIsStored
    <2>4. After(u)
      BY <2>2, <2>3 DEF After
    <2> QED  BY <2>1, <2>4, <1>same, <1>goal
  <1>6. ASSUME ApiCrash PROVE RollbackAsks'
    <2>1. reply' = reply /\ \A u \in Uploads : up'[u] = up[u] \/ up'[u].pc = "cut"
      BY <1>6, <1>type DEF ApiCrash, UploadStates
    <2>2. \A u \in Uploads : After(u)
      BY <2>1, <1>same
    <2> QED  BY <2>2, <1>goal
  <1>7. CASE UNCHANGED <<up, reply>>
    <2>1. \A u \in Uploads : After(u)
      BY <1>7, <1>same
    <2> QED  BY <2>1, <1>goal
  <1> QED
    BY ZenonT(60), <1>1, <1>2, <1>3, <1>4, <1>5, <1>6, <1>7
    DEF Next, UploadStep, DeleteStep, DownloadStep, NodeStep, StartDelete,
        NextCopy, Expire, RowDelete, RowDeleteFails, NodeOpen, NodeRefuse,
        NodeClose, NodeDelete, NodeDeleteFails, StartDownload, GetOpens,
        GetFails, StreamEnds, StreamBreaks, FindFails, Cancel, NodeStops,
        NodeResumes, AllDone, vars

(* What the rollback has deleted does not come back.                        *)
LEMMA RolledBackNext ==
  ASSUME StoreInv, [Next]_vars, AloneOnPath, ReplyIsOver, RolledBackIsGone
  PROVE  RolledBackIsGone'
  <1>ok. TypeOK
    BY DEF StoreInv
  <1>type. /\ file \in [Nodes -> [Paths -> Files]]
           /\ reply \in [Uploads -> [Nodes -> Replies]]
           /\ del \in [Mutators -> [Nodes -> DelStates]]
           /\ up \in [Uploads -> UploadStates]
    BY <1>ok DEF TypeOK
  <1>paths. \A u \in Uploads : UPath(u) \in Paths /\ UPath(u)' = UPath(u)
    BY <1>ok, PathsOfRequests, PathsStay
  <1>mut. /\ Uploads \subseteq Mutators /\ None \notin Mutators
          /\ \A u \in Uploads : u \notin Deletes /\ QPath(u) = UPath(u)
    BY RequestsDisjoint, SentinelsForm DEF Mutators, QPath
  <1> SUFFICES ASSUME NEW u \in Uploads, NEW n \in Nodes,
                      last'[UPath(u)] = u, del'[u][n] = "done",
                      reply'[u][n] \in {"ok", "refused"}
               PROVE  file'[n][UPath(u)].content = Absent
    BY <1>paths DEF RolledBackIsGone
  <1> DEFINE p == UPath(u)
  <1>1. CASE NodeDelete(u, n)
    <2>1. file'[n][p] = NoFile
      BY <1>1, <1>type, <1>paths, <1>mut DEF NodeDelete
    <2> QED  BY <2>1 DEF NoFile
  <1>2. CASE ~NodeDelete(u, n)
    <2>1. del[u][n] = "done"
      BY <1>2, <1>ok, <1>mut, DelMoves
    <2>2. up[u].pc \notin {"idle", "puts"}
      BY <2>1 DEF StoreInv, UploadsInv, UndeletedBefore
    <2>3. last[p] = u
      <3>1. ~StartUpload(u)
        BY <2>2 DEF StartUpload
      <3> QED  BY <3>1, <1>ok, <1>paths, <1>mut, LastMoves
    <2>4. reply[u] = reply'[u]
      BY <2>2, <1>ok, RepliesNext
    <2>5. put[u][n] \in {"stored", "failed"} /\ file[n][p].content = Absent
      BY <2>1, <2>3, <2>4 DEF ReplyIsOver, RolledBackIsGone
    <2>6. file'[n][p] = file[n][p]
      BY <1>2, <2>3, <2>5, <1>ok, <1>paths, <1>mut, OnlyTheOwner DEF NodeOpen
    <2> QED  BY <2>5, <2>6
  <1> QED  BY <1>1, <1>2

-----------------------------------------------------------------------------
(* A delete that comes to the row has asked both nodes of the row it read.  *)
LEMMA DeleteAsksNext ==
  ASSUME TypeOK, [Next]_vars, DeleteAsks
  PROVE  DeleteAsks'
  <1>type. /\ row \in [Keys -> Rows \cup {NoRow}]
           /\ del \in [Mutators -> [Nodes -> DelStates]]
           /\ rm \in [Deletes -> DeleteStates]
    BY DEF TypeOK
  <1>asked. \A d \in Deletes, n \in Nodes : del[d][n] # "none" => del'[d][n] # "none"
    BY DelMoves DEF Mutators
  <1>rows. \A r \in Rows : r.primary \in Nodes /\ r.replica \in Nodes
    BY DEF Rows
  <1>gone. gone \subseteq gone'
    BY ZenonT(60) DEF Next, UploadStep, DeleteStep, DownloadStep, NodeStep, StartUpload,
           PutAnswered, PutGivenUp, Decide, Rollback, Commit, CommitFails,
           StartDelete, NextCopy, Expire, RowDelete, RowDeleteFails, NodeOpen,
           NodeRefuse, NodeClose, NodeDelete, NodeDeleteFails, StartDownload,
           GetOpens, GetFails, StreamEnds, StreamBreaks, FindFails, Cancel,
           ApiCrash, NodeStops, NodeResumes, AllDone, vars
  <1> DEFINE After(d) ==
        /\ rm'[d].pc \in {"primary", "replica", "row", "ok"} =>
             rm'[d].rec \in Rows /\ del'[d][rm'[d].rec.primary] # "none"
        /\ rm'[d].pc \in {"replica", "row", "ok"}
           /\ ~(rm'[d].pc = "row" /\ d \in gone') =>
             del'[d][rm'[d].rec.replica] # "none"
  <1>goal. ASSUME \A d \in Deletes : After(d) PROVE DeleteAsks'
    BY <1>goal DEF DeleteAsks
  <1>same. ASSUME NEW d \in Deletes,
                  \/ rm'[d] = rm[d]
                  \/ rm'[d].pc \notin {"primary", "replica", "row", "ok"}
           PROVE  After(d)
    <2>1. CASE rm'[d] = rm[d]
      <3>1. rm[d].pc \in {"primary", "replica", "row", "ok"} =>
              rm[d].rec \in Rows /\ del[d][rm[d].rec.primary] # "none"
        BY DEF DeleteAsks
      <3>2. rm[d].pc \in {"replica", "row", "ok"}
            /\ ~(rm[d].pc = "row" /\ d \in gone') =>
              del[d][rm[d].rec.replica] # "none"
        BY <1>gone DEF DeleteAsks
      <3> QED  BY <2>1, <3>1, <3>2, <1>asked, <1>rows
    <2>2. CASE rm'[d].pc \notin {"primary", "replica", "row", "ok"}
      BY <2>2
    <2> QED  BY <1>same, <2>1, <2>2
  <1> HIDE DEF After
  <1>1. ASSUME NEW d \in Deletes, StartDelete(d) PROVE DeleteAsks'
    <2>1. \A e \in Deletes \ {d} : rm'[e] = rm[e]
      BY <1>1, <1>type DEF StartDelete
    <2>2. CASE row[rm[d].key] = NoRow
      <3>1. rm'[d].pc = "notfound"
        BY <1>1, <2>2, <1>type DEF StartDelete, DeleteStates
      <3>2. After(d)
        BY <3>1, <1>same
      <3> QED  BY <2>1, <3>2, <1>same, <1>goal
    <2>3. CASE row[rm[d].key] # NoRow
      <3> DEFINE r == row[rm[d].key]
      <3>1. r \in Rows
        BY <2>3, <1>type DEF DeleteStates
      <3>2. rm'[d].pc = "primary" /\ rm'[d].rec = r
        BY <1>1, <2>3, <1>type DEF StartDelete, DeleteStates
      <3>3. del'[d][r.primary] = "sent"
        BY <1>1, <2>3, <3>1, <1>type, <1>rows DEF StartDelete, Mutators
      <3>4. After(d)
        BY <3>1, <3>2, <3>3 DEF After
      <3> QED  BY <2>1, <3>4, <1>same, <1>goal
    <2> QED  BY <2>2, <2>3
  <1>2. ASSUME NEW d \in Deletes, NextCopy(d) PROVE DeleteAsks'
    <2> DEFINE r == rm[d].rec
    <2>1. /\ \A e \in Deletes \ {d} : rm'[e] = rm[e]
          /\ rm[d].pc \in {"primary", "replica"}
      BY <1>2, <1>type DEF NextCopy
    <2>2. /\ r \in Rows /\ del[d][r.primary] # "none"
          /\ rm[d].pc = "replica" => del[d][r.replica] # "none"
      BY <2>1 DEF DeleteAsks
    <2>3. /\ del'[d][r.primary] # "none"
          /\ rm[d].pc = "replica" => del'[d][r.replica] # "none"
      BY <2>2, <1>asked, <1>rows
    <2>4. CASE rm[d].pc = "primary" /\ d \notin gone
      <3>1. rm'[d].pc = "replica" /\ rm'[d].rec = r
        BY <1>2, <2>4, <1>type DEF NextCopy, DeleteStates
      <3>2. del'[d][r.replica] = "sent"
        BY <1>2, <2>4, <2>2, <1>type, <1>rows DEF NextCopy, Mutators
      <3>3. After(d)
        BY <2>2, <2>3, <3>1, <3>2 DEF After
      <3> QED  BY <2>1, <3>3, <1>same, <1>goal
    <2>5. CASE ~(rm[d].pc = "primary" /\ d \notin gone)
      <3>1. rm'[d].pc = "row" /\ rm'[d].rec = r
        BY <1>2, <2>5, <1>type DEF NextCopy, DeleteStates
      <3>2. d \in gone' \/ rm[d].pc = "replica"
        BY <2>1, <2>5, <1>gone
      <3>3. After(d)
        BY <2>2, <2>3, <3>1, <3>2 DEF After
      <3> QED  BY <2>1, <3>3, <1>same, <1>goal
    <2> QED  BY <2>4, <2>5
  <1>3. ASSUME NEW d \in Deletes, RowDelete(d) PROVE DeleteAsks'
    <2>1. /\ \A e \in Deletes \ {d} : rm'[e] = rm[e]
          /\ rm[d].pc = "row" /\ d \notin gone
      BY <1>3, <1>type DEF RowDelete
    <2>2. rm'[d].pc \in {"ok", "notfound"} /\ rm'[d].rec = rm[d].rec
      BY <1>3, <1>type DEF RowDelete, DeleteStates
    <2>3. /\ rm[d].rec \in Rows /\ del[d][rm[d].rec.primary] # "none"
          /\ del[d][rm[d].rec.replica] # "none"
      BY <2>1 DEF DeleteAsks
    <2>4. After(d)
      BY <2>2, <2>3, <1>asked, <1>rows DEF After
    <2> QED  BY <2>1, <2>4, <1>same, <1>goal
  <1>4. ASSUME NEW d \in Deletes, RowDeleteFails(d) PROVE DeleteAsks'
    <2>1. \A e \in Deletes \ {d} : rm'[e] = rm[e]
      BY <1>4, <1>type DEF RowDeleteFails
    <2>2. rm'[d].pc = "err"
      BY <1>4, <1>type DEF RowDeleteFails, DeleteStates
    <2>3. After(d)
      BY <2>2, <1>same
    <2> QED  BY <2>1, <2>3, <1>same, <1>goal
  <1>5. ASSUME ApiCrash PROVE DeleteAsks'
    <2>1. \A d \in Deletes : rm'[d] = rm[d] \/ rm'[d].pc = "cut"
      BY <1>5, <1>type DEF ApiCrash, DeleteStates
    <2>2. \A d \in Deletes : After(d)
      BY <2>1, <1>same
    <2> QED  BY <2>2, <1>goal
  <1>6. ASSUME FindFails PROVE DeleteAsks'
    <2>1. \A d \in Deletes : rm'[d] = rm[d] \/ rm'[d].pc = "err"
      BY <1>6, <1>type DEF FindFails, DeleteStates
    <2>2. \A d \in Deletes : After(d)
      BY <2>1, <1>same
    <2> QED  BY <2>2, <1>goal
  <1>7. CASE rm' = rm
    <2>1. \A d \in Deletes : After(d)
      BY <1>7, <1>same
    <2> QED  BY <2>1, <1>goal
  <1> QED
    BY ZenonT(60), <1>1, <1>2, <1>3, <1>4, <1>5, <1>6, <1>7
    DEF Next, UploadStep, DeleteStep, DownloadStep, NodeStep, StartUpload,
        PutAnswered, PutGivenUp, Decide, Rollback, Commit, CommitFails, Expire,
        NodeOpen, NodeRefuse, NodeClose, NodeDelete, NodeDeleteFails,
        StartDownload, GetOpens, GetFails, StreamEnds, StreamBreaks, Cancel,
        NodeStops, NodeResumes, AllDone, vars

(* What a delete that is alone on its path has deleted does not come back.  *)
LEMMA DeletedNext ==
  ASSUME TypeOK, [Next]_vars, AloneOnPath, IdleIsUnsent, DeletedIsGone
  PROVE  DeletedIsGone'
  <1>type. file \in [Nodes -> [Paths -> Files]]
    BY DEF TypeOK
  <1>paths. \A d \in Deletes : DPath(d) \in Paths /\ DPath(d)' = DPath(d)
    BY PathsOfRequests, PathsStay
  <1>mut. /\ Deletes \subseteq Mutators /\ None \notin Mutators
          /\ \A d \in Deletes : d \notin Uploads /\ QPath(d) = DPath(d)
    BY RequestsDisjoint, SentinelsForm DEF Mutators, QPath
  <1> SUFFICES ASSUME NEW d \in Deletes, NEW n \in Nodes,
                      last'[DPath(d)] = d, del'[d][n] = "done"
               PROVE  file'[n][DPath(d)].content = Absent
    BY <1>paths DEF DeletedIsGone
  <1> DEFINE p == DPath(d)
  <1>1. CASE NodeDelete(d, n)
    <2>1. file'[n][p] = NoFile
      BY <1>1, <1>type, <1>paths, <1>mut DEF NodeDelete
    <2> QED  BY <2>1 DEF NoFile
  <1>2. CASE ~NodeDelete(d, n)
    <2>1. del[d][n] = "done"
      BY <1>2, <1>mut, DelMoves
    <2>2. last[p] = d
      <3>1. ~StartDelete(d)
        BY <2>1 DEF StartDelete, IdleIsUnsent
      <3> QED  BY <3>1, <1>paths, <1>mut, LastMoves
    <2>3. file'[n][p] = file[n][p]
      BY <1>2, <2>2, <1>paths, <1>mut, OnlyTheOwner
    <2> QED  BY <2>1, <2>2, <2>3 DEF DeletedIsGone
  <1> QED  BY <1>1, <1>2

(* Nobody writes the row again while the delete is alone on the path.       *)
LEMMA NoRowNext ==
  ASSUME TypeOK, [Next]_vars, AloneOnPath, DeletedHasNoRow
  PROVE  DeletedHasNoRow'
  <1>type. /\ row \in [Keys -> Rows \cup {NoRow}]
           /\ up \in [Uploads -> UploadStates]
           /\ rm \in [Deletes -> DeleteStates]
    BY DEF TypeOK
  <1>paths. /\ \A d \in Deletes : DPath(d) \in Paths /\ DPath(d)' = DPath(d)
            /\ \A u \in Uploads : UPath(u) \in Paths
    BY PathsOfRequests, PathsStay
  <1>keys. /\ \A d \in Deletes : rm'[d].key = rm[d].key /\ rm[d].key \in Keys
           /\ \A u \in Uploads : up[u].key \in Keys
    BY KeysStay, <1>type DEF DeleteStates, UploadStates
  <1>mut. /\ Uploads \subseteq Mutators /\ None \notin Mutators
          /\ Deletes \subseteq Mutators
          /\ \A d \in Deletes : d \notin Uploads
    BY RequestsDisjoint, SentinelsForm DEF Mutators
  <1> SUFFICES ASSUME NEW d \in Deletes, rm'[d].pc = "ok", last'[DPath(d)] = d
               PROVE  row'[rm[d].key] = NoRow
    BY <1>paths, <1>keys DEF DeletedHasNoRow
  <1> DEFINE k == rm[d].key
             p == DPath(d)
  <1>last. last[p] = d
    <2>1. ~StartDelete(d)
      <3> SUFFICES ASSUME StartDelete(d) PROVE FALSE
        OBVIOUS
      <3>1. CASE row[k] = NoRow
        BY <3>1, <1>type DEF StartDelete, DeleteStates
      <3>2. CASE row[k] # NoRow
        BY <3>2, <1>type DEF StartDelete, DeleteStates
      <3> QED  BY <3>1, <3>2
    <2> QED  BY <2>1, <1>paths, <1>mut, LastMoves
  <1>1. CASE RowDelete(d)
    BY <1>1, <1>type, <1>keys DEF RowDelete
  <1>2. ASSUME rm[d].pc = "ok", row' = row PROVE row'[k] = NoRow
    BY <1>2, <1>last DEF DeletedHasNoRow
  <1>3. ASSUME NEW u \in Uploads, Commit(u) \/ CommitFails(u) PROVE row'[k] = NoRow
    <2>1. /\ rm' = rm /\ UploadActive(u) /\ row' \in {row, Upserted(u)}
      BY <1>3 DEF Commit, CommitFails, UploadActive
    <2>2. UPath(u) # p
      BY <2>1, <1>last, <1>paths, <1>mut DEF AloneOnPath, RestOnPath
    <2>3. up[u].key # k
      BY <2>2 DEF UPath, DPath
    <2>4. row'[k] = row[k]
      BY <2>1, <2>3, <1>type, <1>keys DEF Upserted
    <2> QED  BY <2>1, <2>4, <1>last DEF DeletedHasNoRow
  <1>4. ASSUME NEW e \in Deletes, RowDelete(e) \/ RowDeleteFails(e), ~RowDelete(d)
        PROVE  row'[k] = NoRow
    <2>1. rm[d].pc = "ok"
      <3>1. e # d => rm'[d] = rm[d]
        BY <1>4, <1>type DEF RowDelete, RowDeleteFails
      <3>2. CASE RowDeleteFails(d)
        BY <3>2, <1>type DEF RowDeleteFails, DeleteStates
      <3> QED  BY <1>4, <3>1, <3>2
    <2>2. row[k] = NoRow
      BY <2>1, <1>last DEF DeletedHasNoRow
    <2>3. row' \in {row, [row EXCEPT ![rm[e].key] = NoRow]}
      BY <1>4 DEF RowDelete, RowDeleteFails
    <2> QED  BY <2>2, <2>3, <1>type, <1>keys
  <1>5. ASSUME NEW e \in Deletes, StartDelete(e) \/ NextCopy(e) \/ Expire(e)
        PROVE  row'[k] = NoRow
    <2>1. row' = row
      BY <1>5 DEF StartDelete, NextCopy, Expire
    <2>2. e # d => rm'[d] = rm[d]
      BY <1>5, <1>type DEF StartDelete, NextCopy, Expire
    <2>3. ~NextCopy(d) /\ ~StartDelete(d)
      <3>1. ~NextCopy(d)
        BY <1>type DEF NextCopy, DeleteStates
      <3>2. CASE StartDelete(d) /\ row[k] = NoRow
        BY <3>2, <1>type DEF StartDelete, DeleteStates
      <3>3. CASE StartDelete(d) /\ row[k] # NoRow
        BY <3>3, <1>type DEF StartDelete, DeleteStates
      <3> QED  BY <3>1, <3>2, <3>3
    <2>4. rm'[d] = rm[d]
      BY <1>5, <2>2, <2>3 DEF Expire
    <2> QED  BY <2>1, <2>4, <1>2
  <1>6. CASE ApiCrash \/ FindFails
    <2>1. row' = row /\ rm[d].pc = "ok"
      BY <1>6, <1>type DEF ApiCrash, FindFails, DeleteStates
    <2> QED  BY <2>1, <1>2
  <1>7. CASE UNCHANGED <<row, rm>>
    BY <1>7, <1>2
  <1> QED
    BY ZenonT(60), <1>1, <1>3, <1>4, <1>5, <1>6, <1>7
    DEF Next, UploadStep, DeleteStep, DownloadStep, NodeStep, StartUpload,
        PutAnswered, PutGivenUp, Decide, Rollback, NodeOpen, NodeRefuse,
        NodeClose, NodeDelete, NodeDeleteFails, StartDownload, GetOpens,
        GetFails, StreamEnds, StreamBreaks, Cancel, NodeStops, NodeResumes,
        AllDone, vars

-----------------------------------------------------------------------------
(* An upload that has been answered is left alone.                          *)
LEMMA AnsweredStays ==
  ASSUME TypeOK, [Next]_vars, NEW u \in Uploads, up[u].pc \in {"ok", "err"}
  PROVE  /\ up'[u] = up[u]
         /\ reply'[u] = reply[u]
         /\ \A n \in Nodes : del[u][n] = "none" => del'[u][n] = "none"
  <1>type. /\ reply \in [Uploads -> [Nodes -> Replies]]
           /\ del \in [Mutators -> [Nodes -> DelStates]]
           /\ up \in [Uploads -> UploadStates]
    BY DEF TypeOK
  <1>mut. u \in Mutators /\ u \notin Deletes
    BY RequestsDisjoint DEF Mutators
  <1>1. ASSUME NEW v \in Uploads, StartUpload(v) \/ UploadStep(v)
        PROVE  up'[u] = up[u] /\ reply'[u] = reply[u] /\ del'[u] = del[u]
    <2>1. v # u
      BY <1>1 DEF StartUpload, UploadStep, PutAnswered, PutGivenUp, Decide,
                  Rollback, Commit, CommitFails
    <2>2. CASE StartUpload(v)
      BY <2>1, <2>2, <1>type DEF StartUpload
    <2>3. CASE \E n \in Nodes : PutAnswered(v, n) \/ PutGivenUp(v, n)
      BY <2>1, <2>3, <1>type DEF PutAnswered, PutGivenUp
    <2>4. CASE Decide(v) \/ Rollback(v)
      BY <2>1, <2>4, <1>type, <1>mut DEF Decide, Rollback
    <2>5. CASE Commit(v) \/ CommitFails(v)
      BY <2>1, <2>5, <1>type DEF Commit, CommitFails
    <2> QED  BY <1>1, <2>2, <2>3, <2>4, <2>5 DEF UploadStep
  <1>2. ASSUME NEW d \in Deletes, StartDelete(d) \/ DeleteStep(d)
        PROVE  up' = up /\ reply' = reply /\ del'[u] = del[u]
    BY <1>2, <1>type, <1>mut
       DEF StartDelete, DeleteStep, NextCopy, Expire, RowDelete, RowDeleteFails
  <1>3. ASSUME NEW q \in Mutators, NEW m \in Nodes,
               NodeDelete(q, m) \/ NodeDeleteFails(q, m)
        PROVE  /\ up' = up /\ reply' = reply
               /\ \A n \in Nodes : del[u][n] = "none" => del'[u][n] = "none"
    BY <1>3, <1>type, <1>mut DEF NodeDelete, NodeDeleteFails
  <1>4. ASSUME ApiCrash PROVE up'[u] = up[u] /\ reply' = reply /\ del' = del
    BY <1>4, <1>type DEF ApiCrash, UploadActive
  <1>5. CASE UNCHANGED <<up, reply, del>>
    BY <1>5
  <1> QED
    BY ZenonT(60), <1>1, <1>2, <1>3, <1>4, <1>5
    DEF Next, DownloadStep, NodeStep, NodeOpen, NodeRefuse, NodeClose,
        StartDownload, GetOpens, GetFails, StreamEnds, StreamBreaks, FindFails,
        Cancel, NodeStops, NodeResumes, AllDone, vars

LEMMA CommittedStays ==
  ASSUME TypeOK, [Next]_vars, NEW k \in Keys, NEW r \in Rows, CommittedAs(k, r)
  PROVE  /\ up'[r.etag].key = k /\ up'[r.etag].pc \in {"ok", "err"}
         /\ \A n \in TargetSet(Path[k]) : reply'[r.etag][n] = "ok"
         /\ \A n \in Nodes : del'[r.etag][n] = "none"
  <1>1. r.etag \in Uploads
    BY DEF Rows
  <1> QED  BY <1>1, AnsweredStays DEF CommittedAs

(* An undisturbed download finds the bytes it asks for.                     *)
LEMMA CalmFinds ==
  ASSUME StoreInv, AloneOnPath, BytesThere, CalmAsks, NEW g \in Downloads,
         dl[g].pc \in {"primary", "replica"}, dl[g].calm
  PROVE  LET n == Asked(dl[g]) IN
         /\ n \in Nodes
         /\ file[n][GPath(g)].content = dl[g].rec.etag
         /\ dl[g].rec.etag # Absent
         /\ \A u \in Uploads : UPath(u) = GPath(g) => put[u][n] # "sent"
  <1> DEFINE r == dl[g].rec
             w == r.etag
             n == Asked(dl[g])
             p == GPath(g)
  <1>1. r \in Rows /\ w \in Uploads /\ n \in Nodes
    BY DEF StoreInv, AsksByRow, Rows, Asked
  <1>2. last[p] = w /\ CommittedAs(dl[g].key, r)
    BY DEF CalmAsks
  <1>3. UPath(w) = p
    BY <1>2 DEF CommittedAs, UPath, GPath
  <1>4. n \in TargetSet(Path[dl[g].key])
    <2> DEFINE t == Targets[Path[dl[g].key]]
    <2>1. Len(t) >= 2 /\ r.primary = t[1] /\ r.replica = t[2]
      BY <1>2 DEF CommittedAs
    <2>2. Path[dl[g].key] \in Paths
      BY PathForm DEF StoreInv, TypeOK, DownloadStates
    <2>3. 1 \in 1..Len(t) /\ 2 \in 1..Len(t)
      BY <2>1, <2>2, TargetsAreNodes
    <2>4. t[1] \in TargetSet(Path[dl[g].key])
      BY <2>3 DEF TargetSet
    <2>5. t[2] \in TargetSet(Path[dl[g].key])
      BY <2>3 DEF TargetSet
    <2>6. n \in {r.primary, r.replica}
      BY DEF Asked
    <2> QED  BY <2>1, <2>4, <2>5, <2>6
  <1>5. put[w][n] = "stored" /\ del[w][n] = "none"
    BY <1>1, <1>2, <1>4 DEF CommittedAs, StoreInv, UploadsInv, OkIsStored
  <1>6. file[n][p].content = w
    BY <1>1, <1>2, <1>3, <1>5 DEF BytesThere
  <1>7. w # Absent
    BY <1>1, ContentsDistinct
  <1>8. ASSUME NEW u \in Uploads, UPath(u) = p PROVE put[u][n] # "sent"
    <2>1. CASE u = w
      BY <1>5, <2>1
    <2>2. CASE u # w
      <3>1. p \in Paths /\ w # None
        BY <1>1, PathsOfRequests, SentinelsForm DEF StoreInv
      <3> QED  BY <1>1, <1>2, <1>8, <2>2, <3>1 DEF AloneOnPath, RestOnPath, PutPending
    <2> QED  BY <2>1, <2>2
  <1> QED  BY <1>1, <1>6, <1>7, <1>8

(* What an undisturbed download asks for stays where it is, so that it      *)
(* gives a node up only when the node has failed.                           *)
LEMMA CalmAsksNext ==
  ASSUME StoreInv, [Next]_vars, AloneOnPath, BytesThere, CalmAsks
  PROVE  CalmAsks'
  <1>ok. TypeOK
    BY DEF StoreInv
  <1>type. /\ row \in [Keys -> Rows \cup {NoRow}]
           /\ dl \in [Downloads -> DownloadStates]
           /\ last \in [Paths -> Mutators \cup {None}]
    BY <1>ok DEF TypeOK
  <1>paths. /\ \A g \in Downloads : GPath(g) \in Paths /\ GPath(g)' = GPath(g)
            /\ \A u \in Uploads : UPath(u) \in Paths
            /\ \A d \in Deletes : DPath(d) \in Paths
    BY <1>ok, PathsOfRequests, PathsStay
  <1>keys. \A g \in Downloads : dl'[g].key = dl[g].key /\ dl[g].key \in Keys
    BY <1>ok, KeysStay, <1>type DEF DownloadStates
  <1> DEFINE After(g) ==
        /\ dl'[g].pc = "idle" => ~dl'[g].calm
        /\ dl'[g].pc \in {"primary", "replica"} /\ dl'[g].calm =>
             /\ last'[GPath(g)] = dl'[g].rec.etag
             /\ CommittedAs(dl[g].key, dl[g].rec)'
        /\ dl'[g].pc = "replica" /\ dl'[g].calm => dl'[g].rec.primary \in dl'[g].lost
        /\ dl'[g].pc = "err" /\ dl'[g].calm =>
             {dl'[g].rec.primary, dl'[g].rec.replica} \subseteq dl'[g].lost
  <1>goal. ASSUME \A g \in Downloads : After(g) PROVE CalmAsks'
    BY <1>goal, <1>paths DEF CalmAsks
  <1>over. ASSUME NEW g \in Downloads,
                  dl'[g].pc \notin {"idle", "primary", "replica", "err"}
           PROVE  After(g)
    BY <1>over
  <1>committed. ASSUME NEW g \in Downloads, NEW r \in Rows, dl'[g].rec = r,
                       CommittedAs(dl[g].key, r)
                PROVE  CommittedAs(dl[g].key, dl[g].rec)'
    <2>1. /\ up'[r.etag].key = dl[g].key /\ up'[r.etag].pc \in {"ok", "err"}
          /\ \A n \in TargetSet(Path[dl[g].key]) : reply'[r.etag][n] = "ok"
          /\ \A n \in Nodes : del'[r.etag][n] = "none"
      BY <1>committed, <1>ok, <1>keys, CommittedStays
    <2>2. /\ Len(Targets[Path[dl[g].key]]) >= 2
          /\ r.primary = Targets[Path[dl[g].key]][1]
          /\ r.replica = Targets[Path[dl[g].key]][2]
      BY <1>committed DEF CommittedAs
    <2>3. dl'[g].key = dl[g].key
      BY <1>keys
    <2> HIDE DEF StoreInv, After
    <2> QED  BY <2>1, <2>2, <2>3, <1>committed DEF CommittedAs
  <1>same. ASSUME NEW g \in Downloads,
                  dl'[g].pc = dl[g].pc, dl'[g].rec = dl[g].rec,
                  dl'[g].lost = dl[g].lost, dl'[g].calm => dl[g].calm,
                  dl'[g].pc \in {"primary", "replica"} /\ dl'[g].calm =>
                    last'[GPath(g)] = last[GPath(g)]
           PROVE  After(g)
    <2>1. CASE dl[g].pc \in {"primary", "replica"} /\ dl'[g].calm
      <3>1. dl[g].rec \in Rows /\ CommittedAs(dl[g].key, dl[g].rec)
        BY <1>same, <2>1 DEF StoreInv, AsksByRow, CalmAsks
      <3>2. CommittedAs(dl[g].key, dl[g].rec)'
        BY <1>same, <3>1, <1>committed
      <3> QED  BY <1>same, <2>1, <3>2 DEF CalmAsks
    <2>2. CASE ~(dl[g].pc \in {"primary", "replica"} /\ dl'[g].calm)
      BY <1>same, <2>2 DEF CalmAsks
    <2> QED  BY <2>1, <2>2
  <1>dist. \A p, pcs : \A g \in Downloads :
             LET h == Disturbed(p, pcs)[g] IN
             /\ h.pc = dl[g].pc /\ h.rec = dl[g].rec /\ h.lost = dl[g].lost
             /\ h.calm => dl[g].calm /\ ~(GPath(g) = p /\ dl[g].pc \in pcs)
    BY <1>type DEF Disturbed, DownloadStates
  <1> HIDE DEF After
  <1>1. ASSUME NEW u \in Uploads, StartUpload(u) PROVE CalmAsks'
    <2>1. \/ dl' = dl /\ last' = last
          \/ /\ dl' = Disturbed(UPath(u), {"primary", "replica", "stream"})
             /\ \A p \in Paths \ {UPath(u)} : last'[p] = last[p]
      BY <1>1, <1>type DEF StartUpload, Begin
    <2>2. \A g \in Downloads : After(g)
      BY <2>1, <1>same, <1>dist, <1>paths
    <2> QED  BY <2>2, <1>goal
  <1>2. ASSUME NEW d \in Deletes, StartDelete(d) PROVE CalmAsks'
    <2>1. \/ dl' = dl /\ last' = last
          \/ /\ dl' = Disturbed(DPath(d), {"primary", "replica"})
             /\ \A p \in Paths \ {DPath(d)} : last'[p] = last[p]
      BY <1>2, <1>type DEF StartDelete, Begin
    <2>2. \A g \in Downloads : After(g)
      BY <2>1, <1>same, <1>dist, <1>paths
    <2> QED  BY <2>2, <1>goal
  <1>3. ASSUME NEW n \in Nodes, NodeStep(n) PROVE CalmAsks'
    <2>1. last' = last
      BY <1>3 DEF NodeStep, NodeOpen, NodeRefuse, NodeClose, NodeDelete, NodeDeleteFails
    <2>2. ASSUME NEW u \in Uploads, NodeOpen(u, n)
          PROVE  \A g \in Downloads : /\ dl'[g].pc = dl[g].pc /\ dl'[g].rec = dl[g].rec
                                      /\ dl'[g].lost = dl[g].lost
                                      /\ dl'[g].calm = dl[g].calm
      BY <2>2, <1>type DEF NodeOpen, DownloadStates
    <2>3. ASSUME NEW q \in Mutators, NodeDelete(q, n)
          PROVE  \A g \in Downloads : /\ dl'[g].pc = dl[g].pc /\ dl'[g].rec = dl[g].rec
                                      /\ dl'[g].lost = dl[g].lost
                                      /\ dl'[g].calm = dl[g].calm
      BY <2>3, <1>type DEF NodeDelete, DownloadStates
    <2>4. \A g \in Downloads : /\ dl'[g].pc = dl[g].pc /\ dl'[g].rec = dl[g].rec
                               /\ dl'[g].lost = dl[g].lost
                               /\ dl'[g].calm = dl[g].calm
      BY <1>3, <2>2, <2>3 DEF NodeStep, NodeRefuse, NodeClose, NodeDeleteFails
    <2>5. \A g \in Downloads : After(g)
      BY <2>1, <2>4, <1>same
    <2> QED  BY <2>5, <1>goal
  <1>4. ASSUME NEW g \in Downloads, StartDownload(g) PROVE CalmAsks'
    <2> DEFINE r == row[dl[g].key]
    <2>1. last' = last /\ \A h \in Downloads \ {g} : dl'[h] = dl[h]
      BY <1>4, <1>type DEF StartDownload
    <2>2. CASE r = NoRow
      <3>1. dl'[g].pc = "notfound"
        BY <1>4, <2>2, <1>type DEF StartDownload, DownloadStates
      <3> QED  BY <2>1, <3>1, <1>same, <1>over, <1>goal
    <2>3. CASE r # NoRow
      <3>1. /\ dl'[g].pc = "primary" /\ dl'[g].rec = r
            /\ dl'[g].calm = (last[GPath(g)] = r.etag)
        BY <1>4, <2>3, <1>type DEF StartDownload, DownloadStates
      <3>2. r \in Rows /\ CommittedAs(dl[g].key, r)
        BY <2>3, <1>type, <1>keys DEF StoreInv, RowIsCommitted
      <3>3. CommittedAs(dl[g].key, dl[g].rec)'
        BY <3>1, <3>2, <1>committed
      <3>4. After(g)
        BY <2>1, <3>1, <3>3 DEF After
      <3> QED  BY <2>1, <3>4, <1>same, <1>goal
    <2> QED  BY <2>2, <2>3
  <1>5. ASSUME NEW g \in Downloads, GetOpens(g) \/ StreamEnds(g) \/ StreamBreaks(g)
        PROVE  CalmAsks'
    <2>1. last' = last /\ \A h \in Downloads \ {g} : dl'[h] = dl[h]
      BY <1>5, <1>type DEF GetOpens, StreamEnds, StreamBreaks
    <2>2. dl'[g].pc \in {"stream", "ok", "short"}
      BY <1>5, <1>type DEF GetOpens, StreamEnds, StreamBreaks, DownloadStates
    <2> QED  BY <2>1, <2>2, <1>same, <1>over, <1>goal
  <1>6. ASSUME NEW g \in Downloads, GetFails(g) PROVE CalmAsks'
    <2> DEFINE n == Asked(dl[g])
    <2>1. /\ last' = last /\ \A h \in Downloads \ {g} : dl'[h] = dl[h]
          /\ dl[g].pc \in {"primary", "replica"}
      BY <1>6, <1>type DEF GetFails
    <2>2. /\ dl'[g].pc = (IF dl[g].pc = "primary" THEN "replica" ELSE "err")
          /\ dl'[g].rec = dl[g].rec /\ dl'[g].calm = dl[g].calm
      BY <1>6, <1>type DEF GetFails, DownloadStates
    <2>3. CASE ~dl[g].calm
      <3>1. After(g)
        BY <2>1, <2>2, <2>3 DEF After
      <3> QED  BY <2>1, <3>1, <1>same, <1>goal
    <2>4. CASE dl[g].calm
      <3>1. file[n][GPath(g)].content # Absent
        BY <2>1, <2>4, CalmFinds
      <3>2. dl'[g].lost = dl[g].lost \cup {n}
        BY <1>6, <3>1, <1>type DEF GetFails, DownloadStates
      <3>3. /\ dl[g].rec \in Rows /\ CommittedAs(dl[g].key, dl[g].rec)
            /\ last[GPath(g)] = dl[g].rec.etag
            /\ dl[g].pc = "replica" => dl[g].rec.primary \in dl[g].lost
        BY <2>1, <2>4 DEF StoreInv, AsksByRow, CalmAsks
      <3>4. CommittedAs(dl[g].key, dl[g].rec)'
        BY <2>2, <3>3, <1>committed
      <3>5. After(g)
        BY <2>1, <2>2, <3>2, <3>3, <3>4 DEF After, Asked
      <3> QED  BY <2>1, <3>5, <1>same, <1>goal
    <2> QED  BY <2>3, <2>4
  <1>7. ASSUME FindFails PROVE CalmAsks'
    <2>1. \A g \in Downloads :
            dl'[g] = dl[g] \/ (dl[g].pc = "idle" /\ dl'[g].pc = "err"
                               /\ dl'[g].calm = dl[g].calm)
      BY <1>7, <1>type DEF FindFails, DownloadStates
    <2>2. last' = last
      BY <1>7 DEF FindFails
    <2>3. ASSUME NEW g \in Downloads PROVE After(g)
      <3>1. CASE dl'[g] = dl[g]
        BY <2>2, <3>1, <1>same
      <3>2. CASE dl[g].pc = "idle" /\ dl'[g].pc = "err" /\ dl'[g].calm = dl[g].calm
        BY <3>2 DEF After, CalmAsks
      <3> QED  BY <2>1, <3>1, <3>2
    <2> QED  BY <2>3, <1>goal
  <1>8. ASSUME ApiCrash PROVE CalmAsks'
    <2>1. last' = last /\ \A g \in Downloads : dl'[g] = dl[g] \/ dl'[g].pc = "cut"
      BY <1>8, <1>type DEF ApiCrash, DownloadStates
    <2>2. \A g \in Downloads : After(g)
      BY <2>1, <1>same, <1>over
    <2> QED  BY <2>2, <1>goal
  <1>9. CASE UNCHANGED <<dl, last>>
    <2>1. \A g \in Downloads : After(g)
      BY <1>9, <1>same
    <2> QED  BY <2>1, <1>goal
  <1> QED
    BY <1>1, <1>2, <1>3, <1>4, <1>5, <1>6, <1>7, <1>8, <1>9
    DEF Next, UploadStep, DeleteStep, DownloadStep, PutAnswered, PutGivenUp,
        Decide, Rollback, Commit, CommitFails, NextCopy, Expire, RowDelete,
        RowDeleteFails, Cancel, NodeStops, NodeResumes, AllDone, vars

(* Nobody writes into the file an undisturbed stream is read from.          *)
LEMMA CalmStreamsNext ==
  ASSUME StoreInv, [Next]_vars, AloneOnPath, BytesThere, CalmAsks, CalmStreams
  PROVE  CalmStreams'
  <1>ok. TypeOK
    BY DEF StoreInv
  <1>type. /\ put \in [Uploads -> [Nodes -> PutStates]]
           /\ dl \in [Downloads -> DownloadStates]
    BY <1>ok DEF TypeOK
  <1>paths. /\ \A g \in Downloads : GPath(g)' = GPath(g)
            /\ \A u \in Uploads : UPath(u)' = UPath(u)
    BY <1>ok, PathsStay
  <1> DEFINE After(g) ==
        /\ dl'[g].pc = "stream" => dl'[g].node \in Nodes
        /\ dl'[g].pc \in {"stream", "ok"} /\ dl'[g].calm => dl'[g].seen = dl'[g].rec.etag
        /\ dl'[g].pc = "stream" /\ dl'[g].calm =>
             \A u \in Uploads : UPath(u) = GPath(g) => put'[u][dl'[g].node] # "sent"
  <1>goal. ASSUME \A g \in Downloads : After(g) PROVE CalmStreams'
    BY <1>goal, <1>paths DEF CalmStreams
  <1>over. ASSUME NEW g \in Downloads, dl'[g].pc \notin {"stream", "ok"} PROVE After(g)
    BY <1>over
  <1>same. ASSUME NEW g \in Downloads,
                  dl'[g].pc = dl[g].pc, dl'[g].rec = dl[g].rec,
                  dl'[g].node = dl[g].node, dl'[g].calm => dl[g].calm,
                  dl'[g].calm => dl'[g].seen = dl[g].seen,
                  dl'[g].pc = "stream" /\ dl'[g].calm =>
                    \A u \in Uploads, n \in Nodes : UPath(u) = GPath(g) =>
                      (put'[u][n] = "sent" => put[u][n] = "sent")
           PROVE  After(g)
    BY <1>same DEF CalmStreams
  <1>dist. \A p, pcs : \A g \in Downloads :
             LET h == Disturbed(p, pcs)[g] IN
             /\ h.pc = dl[g].pc /\ h.rec = dl[g].rec /\ h.node = dl[g].node
             /\ h.seen = dl[g].seen
             /\ h.calm => dl[g].calm /\ ~(GPath(g) = p /\ dl[g].pc \in pcs)
    BY <1>type DEF Disturbed, DownloadStates
  <1> HIDE DEF After
  <1>1. ASSUME NEW u \in Uploads, StartUpload(u) PROVE CalmStreams'
    <2>1. \/ dl' = dl /\ put' = put
          \/ dl' = Disturbed(UPath(u), {"primary", "replica", "stream"})
      BY <1>1 DEF StartUpload
    <2>2. \A v \in Uploads \ {u} : put'[v] = put[v]
      BY <1>1, <1>type DEF StartUpload
    <2>3. \A g \in Downloads : After(g)
      BY <2>1, <2>2, <1>same, <1>dist
    <2> QED  BY <2>3, <1>goal
  <1>2. ASSUME NEW d \in Deletes, StartDelete(d) PROVE CalmStreams'
    <2>1. /\ \/ dl' = dl
             \/ dl' = Disturbed(DPath(d), {"primary", "replica"})
          /\ put' = put
      BY <1>2 DEF StartDelete
    <2>2. \A g \in Downloads : After(g)
      BY <2>1, <1>same, <1>dist
    <2> QED  BY <2>2, <1>goal
  <1>3. ASSUME NEW u \in Uploads, NEW n \in Nodes, NodeOpen(u, n) PROVE CalmStreams'
    <2>1. put[u][n] = "sent"
      BY <1>3 DEF NodeOpen
    <2>2. \A v \in Uploads, m \in Nodes : put'[v][m] = "sent" => put[v][m] = "sent"
      BY <1>3, <1>type DEF NodeOpen
    <2>3. ASSUME NEW g \in Downloads PROVE After(g)
      <3>1. CASE /\ dl[g].pc = "stream" /\ dl[g].node = n
                 /\ GPath(g) = UPath(u) /\ dl[g].linked
        <4>1. ~dl[g].calm
          BY <2>1, <3>1 DEF CalmStreams
        <4>2. /\ dl'[g].calm = dl[g].calm /\ dl'[g].pc = "stream"
              /\ dl'[g].node = n
          BY <1>3, <3>1, <1>type DEF NodeOpen, DownloadStates
        <4> QED  BY <4>1, <4>2 DEF After
      <3>2. CASE ~(/\ dl[g].pc = "stream" /\ dl[g].node = n
                   /\ GPath(g) = UPath(u) /\ dl[g].linked)
        <4>1. dl'[g] = dl[g]
          BY <1>3, <3>2 DEF NodeOpen
        <4> QED  BY <2>2, <4>1, <1>same
      <3> QED  BY <3>1, <3>2
    <2> QED  BY <2>3, <1>goal
  <1>4. ASSUME NEW n \in Nodes, NodeStep(n), \A u \in Uploads : ~NodeOpen(u, n)
        PROVE  CalmStreams'
    <2>1. \A u \in Uploads, m \in Nodes : put'[u][m] = "sent" => put[u][m] = "sent"
      <3>1. ASSUME NEW u \in Uploads, NodeRefuse(u, n) \/ \E whole \in BOOLEAN : NodeClose(u, n, whole)
            PROVE  \A v \in Uploads, m \in Nodes : put'[v][m] = "sent" => put[v][m] = "sent"
        BY <3>1, <1>type DEF NodeRefuse, NodeClose
      <3>2. ASSUME NEW q \in Mutators, NodeDelete(q, n) \/ NodeDeleteFails(q, n)
            PROVE  \A v \in Uploads, m \in Nodes : put'[v][m] = "sent" => put[v][m] = "sent"
        BY <3>2, <1>type DEF NodeDelete, NodeDeleteFails
      <3> QED  BY <1>4, <3>1, <3>2 DEF NodeStep
    <2>2. \A g \in Downloads : /\ dl'[g].pc = dl[g].pc /\ dl'[g].rec = dl[g].rec
                               /\ dl'[g].node = dl[g].node /\ dl'[g].seen = dl[g].seen
                               /\ dl'[g].calm = dl[g].calm
      <3>1. ASSUME NEW q \in Mutators, NodeDelete(q, n)
            PROVE  \A g \in Downloads :
                     /\ dl'[g].pc = dl[g].pc /\ dl'[g].rec = dl[g].rec
                     /\ dl'[g].node = dl[g].node /\ dl'[g].seen = dl[g].seen
                     /\ dl'[g].calm = dl[g].calm
        BY <3>1, <1>type DEF NodeDelete, DownloadStates
      <3> QED  BY <1>4, <3>1 DEF NodeStep, NodeRefuse, NodeClose, NodeDeleteFails
    <2>3. \A g \in Downloads : After(g)
      BY <2>1, <2>2, <1>same
    <2> QED  BY <2>3, <1>goal
  <1>5. ASSUME NEW g \in Downloads, GetOpens(g) PROVE CalmStreams'
    <2> DEFINE n == Asked(dl[g])
    <2>1. /\ put' = put /\ \A h \in Downloads \ {g} : dl'[h] = dl[h]
          /\ dl[g].pc \in {"primary", "replica"}
      BY <1>5, <1>type DEF GetOpens
    <2>2. /\ dl'[g].pc = "stream" /\ dl'[g].node = n
          /\ dl'[g].rec = dl[g].rec /\ dl'[g].calm = dl[g].calm
          /\ dl'[g].seen = file[n][GPath(g)].content
      BY <1>5, <1>type DEF GetOpens, DownloadStates
    <2>3. n \in Nodes
      BY <2>1 DEF StoreInv, AsksByRow, Rows, Asked
    <2>4. After(g)
      BY <2>1, <2>2, <2>3, CalmFinds DEF After
    <2> QED  BY <2>1, <2>4, <1>same, <1>goal
  <1>6. ASSUME NEW g \in Downloads, StreamEnds(g) PROVE CalmStreams'
    <2>1. /\ put' = put /\ \A h \in Downloads \ {g} : dl'[h] = dl[h]
          /\ dl[g].pc = "stream" /\ dl'[g].pc = "ok"
          /\ dl'[g].rec = dl[g].rec /\ dl'[g].calm = dl[g].calm
          /\ dl'[g].seen = dl[g].seen
      BY <1>6, <1>type DEF StreamEnds, DownloadStates
    <2>2. After(g)
      BY <2>1 DEF After, CalmStreams
    <2> QED  BY <2>1, <2>2, <1>same, <1>goal
  <1>7. ASSUME NEW g \in Downloads,
               StartDownload(g) \/ GetFails(g) \/ StreamBreaks(g)
        PROVE  CalmStreams'
    <2>1. put' = put /\ \A h \in Downloads \ {g} : dl'[h] = dl[h]
      BY <1>7, <1>type DEF StartDownload, GetFails, StreamBreaks
    <2>2. dl'[g].pc \notin {"stream", "ok"}
      <3>1. CASE StartDownload(g)
        BY <3>1, <1>type DEF StartDownload, DownloadStates
      <3>2. CASE GetFails(g)
        BY <3>2, <1>type DEF GetFails, DownloadStates
      <3>3. CASE StreamBreaks(g)
        BY <3>3, <1>type DEF StreamBreaks, DownloadStates
      <3> QED  BY <1>7, <3>1, <3>2, <3>3
    <2> QED  BY <2>1, <2>2, <1>same, <1>over, <1>goal
  <1>8. ASSUME FindFails \/ ApiCrash PROVE CalmStreams'
    <2>1. /\ put' = put
          /\ \A g \in Downloads : dl'[g] = dl[g] \/ dl'[g].pc \in {"err", "cut"}
      BY <1>8, <1>type DEF FindFails, ApiCrash, DownloadStates
    <2>2. \A g \in Downloads : After(g)
      BY <2>1, <1>same, <1>over
    <2> QED  BY <2>2, <1>goal
  <1>9. CASE UNCHANGED <<dl, put>>
    <2>1. \A g \in Downloads : After(g)
      BY <1>9, <1>same
    <2> QED  BY <2>1, <1>goal
  <1> QED
    BY <1>1, <1>2, <1>3, <1>4, <1>5, <1>6, <1>7, <1>8, <1>9
    DEF Next, UploadStep, DeleteStep, DownloadStep, PutAnswered, PutGivenUp,
        Decide, Rollback, Commit, CommitFails, NextCopy, Expire, RowDelete,
        RowDeleteFails, Cancel, NodeStops, NodeResumes, AllDone, vars

-----------------------------------------------------------------------------
(* Nothing has happened yet.                                                *)
LEMMA BytesInit == Init => BytesInv
  <1> SUFFICES ASSUME Init PROVE BytesInv
    OBVIOUS
  <1>0. StoreInv
    BY InitInv
  <1>1. AloneOnPath
    BY DEF Init, AloneOnPath
  <1>2. IdleIsUnsent
    BY DEF Init, IdleIsUnsent, Mutators
  <1>3. GroupIsOpen
    BY DEF Init, GroupIsOpen, NoFile
  <1>4. BytesThere /\ RolledBackIsGone
    BY DEF Init, BytesThere, RolledBackIsGone
  <1>5. AcknowledgedIsRecorded
    BY DEF Init, AcknowledgedIsRecorded
  <1>6. ReplyIsOver
    BY DEF Init, ReplyIsOver
  <1>7. EveryTargetAsked /\ RollbackAsks
    BY DEF Init, EveryTargetAsked, RollbackAsks
  <1>8. DeleteAsks /\ DeletedHasNoRow
    BY DEF Init, DeleteAsks, DeletedHasNoRow
  <1>9. DeletedIsGone
    BY DEF Init, DeletedIsGone, Mutators
  <1>10. CalmAsks
    BY DEF Init, CalmAsks
  <1>11. CalmStreams
    BY DEF Init, CalmStreams
  <1> QED  BY <1>0, <1>1, <1>2, <1>3, <1>4, <1>5, <1>6, <1>7, <1>8, <1>9,
              <1>10, <1>11 DEF BytesInv

(* The parts together are inductive.                                        *)
LEMMA BytesInvariant == Spec => []BytesInv
  <1>1. BytesInv /\ [Next]_vars => BytesInv'
    <2> SUFFICES ASSUME BytesInv, [Next]_vars PROVE BytesInv'
      OBVIOUS
    <2>1. StoreInv /\ TypeOK
      BY DEF BytesInv, StoreInv
    <2>2. StoreInv'
      BY <2>1, TypeNext, UploadsAndRowsNext, AsksByRowNext DEF StoreInv
    <2>3. AloneOnPath' /\ IdleIsUnsent' /\ GroupIsOpen'
      BY <2>1, AloneNext, IdleNext, GroupNext DEF BytesInv
    <2>4. BytesThere' /\ AcknowledgedIsRecorded'
      BY <2>1, BytesNext, AcknowledgedNext DEF BytesInv
    <2>5. ReplyIsOver' /\ EveryTargetAsked' /\ RollbackAsks'
      BY <2>1, RepliesNext, AskedNext, RollbackNext DEF BytesInv
    <2>6. RolledBackIsGone'
      BY <2>1, RolledBackNext DEF BytesInv
    <2>7. DeleteAsks' /\ DeletedIsGone' /\ DeletedHasNoRow'
      BY <2>1, DeleteAsksNext, DeletedNext, NoRowNext DEF BytesInv
    <2>8. CalmAsks' /\ CalmStreams'
      BY <2>1, CalmAsksNext, CalmStreamsNext DEF BytesInv
    <2> QED  BY <2>2, <2>3, <2>4, <2>5, <2>6, <2>7, <2>8 DEF BytesInv
  <1> QED  BY BytesInit, <1>1, PTL DEF Spec

-----------------------------------------------------------------------------
(* Durability: as long as nothing else has touched its path since it        *)
(* started, an upload whose row is in the database has its very bytes on    *)
(* both nodes the row names, whatever calls were lost, given up or carried  *)
(* out late, and whatever crashed (service.go, Upload).                     *)
THEOREM BytesAreStored == Spec => []RowHasBytes
  <1>1. BytesInv => RowHasBytes
    <2> SUFFICES ASSUME BytesInv, NEW k \in Keys, row[k] # NoRow,
                        last[Path[k]] = row[k].etag
                 PROVE  /\ file[row[k].primary][Path[k]].content = row[k].etag
                        /\ file[row[k].replica][Path[k]].content = row[k].etag
      BY DEF RowHasBytes
    <2> DEFINE u == row[k].etag
               t == Targets[Path[k]]
    <2>1. /\ u \in Uploads /\ CommittedAs(k, row[k])
          /\ row[k].primary \in Nodes /\ row[k].replica \in Nodes
      BY DEF BytesInv, StoreInv, TypeOK, Rows, RowIsCommitted
    <2>2. UPath(u) = Path[k] /\ row[k].primary = t[1] /\ row[k].replica = t[2]
      BY <2>1 DEF CommittedAs, UPath
    <2>3. t[1] \in TargetSet(Path[k]) /\ t[2] \in TargetSet(Path[k])
      <3>1. Len(t) >= 2 /\ Len(t) \in Nat
        BY <2>1, PathForm, TargetsAreNodes DEF CommittedAs
      <3> QED  BY <3>1 DEF TargetSet
    <2>4. \A n \in {t[1], t[2]} : put[u][n] = "stored" /\ del[u][n] = "none"
      BY <2>1, <2>2, <2>3
         DEF CommittedAs, BytesInv, StoreInv, UploadsInv, OkIsStored
    <2> QED  BY <2>1, <2>2, <2>4 DEF BytesInv, BytesThere
  <1> QED  BY BytesInvariant, <1>1, PTL

(* An acknowledged upload is the object of its key until another request on *)
(* its path starts (service.go, Upload: UpsertObject before the answer).    *)
THEOREM AcknowledgedUploads == Spec => []AcknowledgedIsRecorded
  <1>1. BytesInv => AcknowledgedIsRecorded
    BY DEF BytesInv
  <1> QED  BY BytesInvariant, <1>1, PTL

(* An upload that failed and was rolled back has left a file only where the *)
(* API gave up the PUT or the DELETE was not carried out (service.go,       *)
(* Upload: the wait for all PUTs, the rollback over all targets).           *)
THEOREM RollbackIsComplete == Spec => []RollbackRemoves
  <1>1. BytesInv => RollbackRemoves
    <2> SUFFICES ASSUME BytesInv, NEW u \in Uploads, up[u].pc = "err",
                        last[UPath(u)] = u,
                        \E n \in TargetSet(UPath(u)) : reply[u][n] # "ok",
                        NEW n \in TargetSet(UPath(u)), reply[u][n] # "gaveup",
                        del[u][n] \in {"none", "done"}
                 PROVE  file[n][UPath(u)].content = Absent
      BY DEF RollbackRemoves
    <2>1. n \in Nodes
      BY PathsOfRequests, TargetsAreNodes DEF BytesInv, StoreInv
    <2>2. del[u][n] = "done"
      BY DEF BytesInv, RollbackAsks
    <2>3. reply[u][n] \in {"ok", "refused"}
      BY DEF BytesInv, EveryTargetAsked
    <2> QED  BY <2>1, <2>2, <2>3 DEF BytesInv, RolledBackIsGone
  <1> QED  BY BytesInvariant, <1>1, PTL

(* An acknowledged delete of an undisturbed path leaves no row, and a file  *)
(* only where its DELETE was not carried out (service.go, Delete).          *)
THEOREM DeleteIsComplete == Spec => []DeleteRemoves
  <1>1. BytesInv => DeleteRemoves
    <2> SUFFICES ASSUME BytesInv, NEW d \in Deletes, rm[d].pc = "ok",
                        last[DPath(d)] = d
                 PROVE  /\ row[rm[d].key] = NoRow
                        /\ \A n \in {rm[d].rec.primary, rm[d].rec.replica} :
                             del[d][n] \in {"none", "done"} =>
                               file[n][DPath(d)].content = Absent
      BY DEF DeleteRemoves
    <2>1. row[rm[d].key] = NoRow
      BY DEF BytesInv, DeletedHasNoRow
    <2>2. /\ rm[d].rec \in Rows
          /\ del[d][rm[d].rec.primary] # "none" /\ del[d][rm[d].rec.replica] # "none"
      BY DEF BytesInv, DeleteAsks
    <2>3. rm[d].rec.primary \in Nodes /\ rm[d].rec.replica \in Nodes
      BY <2>2 DEF Rows
    <2> QED  BY <2>1, <2>2, <2>3 DEF BytesInv, DeletedIsGone
  <1> QED  BY BytesInvariant, <1>1, PTL

(* A download that was not disturbed and came to its end sent the bytes its *)
(* ETag stands for (service.go, Download; http.go, downloadObject).         *)
THEOREM DownloadsMatch == Spec => []DownloadMatchesETag
  <1>1. BytesInv => DownloadMatchesETag
    BY DEF BytesInv, CalmStreams, DownloadMatchesETag
  <1> QED  BY BytesInvariant, <1>1, PTL

(* Failover: an undisturbed download fails only after both nodes of its row *)
(* have (service.go, Download).                                             *)
THEOREM OneNodeIsMasked == Spec => []FailoverMasksOneNode
  <1>1. BytesInv => FailoverMasksOneNode
    BY DEF BytesInv, CalmAsks, FailoverMasksOneNode
  <1> QED  BY BytesInvariant, <1>1, PTL
=============================================================================
