----------------------------- MODULE ObjectStore -----------------------------
(***************************************************************************)
(* object-api's Upload, Download and Delete (service.go), running at the   *)
(* same time over the metadata row in Postgres and the copies on the       *)
(* storage nodes.  The API keeps no lock and no journal: a request is a    *)
(* sequence of calls, each of which can fail, be lost, or be given up by   *)
(* the caller and still be carried out later.                              *)
(*                                                                         *)
(* A copy on a node follows the contract of module FileRegister, on the    *)
(* operators of FileOps.  The body of upload u, and its etag, are u.       *)
(***************************************************************************)
EXTENDS FileOps, Naturals, Sequences, FiniteSets

CONSTANTS Deletes,    \* DELETE requests (Uploads are those of FileOps)
          Downloads,  \* GET requests
          Keys,       \* object keys of the owners, as stored in objects
          Paths,      \* storage paths
          Path,       \* Path[k]: storagePath(owner, key); may map two keys to one
          Nodes,      \* storage nodes
          Targets,    \* Targets[p]: the nodes placement returns for path p
          NoRow,      \* objects has no row of this key
          None,       \* see last
          MaxFaults   \* bound: stalls, crashes, cancellations and errors

ASSUME PathForm == Path \in [Keys -> Paths]
ASSUME TargetsForm ==
  /\ Targets \in [Paths -> Seq(Nodes)]
  /\ \A p \in Paths : \A i, j \in 1..Len(Targets[p]) :
       Targets[p][i] = Targets[p][j] => i = j
ASSUME MaxFaultsForm == MaxFaults \in Nat
ASSUME SentinelsForm ==
  /\ NoRow \notin [etag : Uploads, primary : Nodes, replica : Nodes]
  /\ None \notin Uploads \cup Deletes
ASSUME RequestsDisjoint == Uploads \cap Deletes = {}

VARIABLES
  row,     \* row[k]: the rows of objects and object_placements for key k
  file,    \* file[n][p]: the file of path p on node n
  put,     \* put[u][n]: the PUT of upload u as node n sees it
  reply,   \* reply[u][n]: the same PUT as the API sees it
  del,     \* del[q][n]: the DELETE of request q as node n sees it
  up,      \* up[u]: the API's handler of upload u
  rm,      \* rm[d]: the API's handler of delete d
  dl,      \* dl[g]: the API's handler of download g
  gone,    \* requests whose context is cancelled or past its deadline
  down,    \* nodes that do not answer: stalled, or crashed
  faults,  \* faults so far
  last     \* auxiliary.  last[p]: the upload or delete that was the last to
           \* start on path p, if nothing else was going on there; or None

vars == <<row, file, put, reply, del, up, rm, dl, gone, down, faults, last>>

Mutators == Uploads \cup Deletes
Rows == [etag : Uploads, primary : Nodes, replica : Nodes]

\* "detached": open in the handler, unlinked since.
PutStates == {"none", "sent", "open", "detached", "stored", "failed"}
Replies == {"none", "wait", "ok", "refused", "gaveup"}
DelStates == {"none", "sent", "done", "failed"}

\* at: the target the rollback is at.
UploadStates ==
  [pc : {"idle", "puts", "rollback", "commit", "ok", "err", "invalid", "cut"},
   key : Keys, at : Nat]

\* rec: what FindByOwnerAndKey returned.
DeleteStates ==
  [pc : {"idle", "primary", "replica", "row", "ok", "notfound", "err", "cut"},
   key : Keys, rec : Rows \cup {NoRow}]

\* node: whose file is streamed; seen: the bytes the stream will yield, Torn
\* where that may be anything; linked: the file has not been unlinked since.
\* Auxiliary: lost, the nodes whose GET failed though they had the file;
\* calm: no upload has started on the path since the row was read, and no
\* delete before the stream was open, and the row's upload was last[p].
\* "short": a 200 whose body ended too early.
DownloadStates ==
  [pc : {"idle", "primary", "replica", "stream", "ok", "short", "notfound",
         "err", "cut"},
   key : Keys, rec : Rows \cup {NoRow}, node : Nodes \cup {None},
   seen : Uploads \cup {Torn}, linked : BOOLEAN, lost : SUBSET Nodes,
   calm : BOOLEAN]

TypeOK ==
  /\ row \in [Keys -> Rows \cup {NoRow}]
  /\ file \in [Nodes -> [Paths -> Files]]
  /\ put \in [Uploads -> [Nodes -> PutStates]]
  /\ reply \in [Uploads -> [Nodes -> Replies]]
  /\ del \in [Mutators -> [Nodes -> DelStates]]
  /\ up \in [Uploads -> UploadStates]
  /\ rm \in [Deletes -> DeleteStates]
  /\ dl \in [Downloads -> DownloadStates]
  /\ gone \subseteq Mutators
  /\ down \subseteq Nodes
  /\ faults \in 0..MaxFaults
  /\ last \in [Paths -> Mutators \cup {None}]

Init ==
  /\ row = [k \in Keys |-> NoRow]
  /\ file = [n \in Nodes |-> [p \in Paths |-> NoFile]]
  /\ put = [u \in Uploads |-> [n \in Nodes |-> "none"]]
  /\ reply = [u \in Uploads |-> [n \in Nodes |-> "none"]]
  /\ del = [q \in Mutators |-> [n \in Nodes |-> "none"]]
  /\ up \in [Uploads -> [pc : {"idle"}, key : Keys, at : {0}]]
  /\ rm \in [Deletes -> [pc : {"idle"}, key : Keys, rec : {NoRow}]]
  /\ dl \in [Downloads -> [pc : {"idle"}, key : Keys, rec : {NoRow},
                           node : {None}, seen : {Torn}, linked : {FALSE},
                           lost : {{}}, calm : {FALSE}]]
  /\ gone = {}
  /\ down = {}
  /\ faults = 0
  /\ last = [p \in Paths |-> None]

-----------------------------------------------------------------------------
TargetSet(p) == {Targets[p][i] : i \in 1..Len(Targets[p])}
UPath(u) == Path[up[u].key]
DPath(d) == Path[rm[d].key]
GPath(g) == Path[dl[g].key]
QPath(q) == IF q \in Uploads THEN UPath(q) ELSE DPath(q)

UploadActive(u) == up[u].pc \in {"puts", "rollback", "commit"}
DeleteActive(d) == rm[d].pc \in {"primary", "replica", "row"}
DownloadActive(g) == dl[g].pc \in {"primary", "replica", "stream"}

\* Calls that may still change the file, their caller waiting or not.
PutPending(u) == \E n \in Nodes : put[u][n] \in {"sent", "open"}
DelPending(q) == \E n \in Nodes : del[q][n] = "sent"

Busy(p) ==
  \/ \E u \in Uploads : UPath(u) = p /\ (UploadActive(u) \/ PutPending(u))
  \/ \E d \in Deletes : DPath(d) = p /\ DeleteActive(d)
  \/ \E q \in Mutators : QPath(q) = p /\ DelPending(q)

Begin(q, p) == last' = [last EXCEPT ![p] = IF Busy(p) THEN None ELSE q]

(* Downloads of path p that a request starting now may disturb. *)
Disturbed(p, pcs) ==
  [g \in Downloads |-> IF GPath(g) = p /\ dl[g].pc \in pcs
                       THEN [dl[g] EXCEPT !.calm = FALSE] ELSE dl[g]]

(* A step that goes wrong costs one of MaxFaults, unless it is excused by  *)
(* an earlier fault.                                                       *)
Fault == faults < MaxFaults /\ faults' = faults + 1
Excused(cause) == IF cause THEN UNCHANGED faults ELSE Fault

-----------------------------------------------------------------------------
(* Upload: placement, then one goroutine per target sends its PUT. *)
StartUpload(u) ==
  LET p == UPath(u) IN
  /\ up[u].pc = "idle"
  /\ IF Len(Targets[p]) < 2
     THEN /\ up' = [up EXCEPT ![u].pc = "invalid"]
          /\ UNCHANGED <<put, reply, last, dl>>
     ELSE /\ up' = [up EXCEPT ![u].pc = "puts"]
          /\ put' = [put EXCEPT ![u] =
               [n \in Nodes |-> IF n \in TargetSet(p) THEN "sent" ELSE "none"]]
          /\ reply' = [reply EXCEPT ![u] =
               [n \in Nodes |-> IF n \in TargetSet(p) THEN "wait" ELSE "none"]]
          /\ Begin(u, p)
          /\ dl' = Disturbed(p, {"primary", "replica", "stream"})
  /\ UNCHANGED <<row, file, del, rm, gone, down, faults>>

(* putToNode returns with the node's answer ... *)
PutAnswered(u, n) ==
  /\ up[u].pc = "puts" /\ reply[u][n] = "wait"
  /\ put[u][n] \in {"stored", "failed"}
  /\ reply' = [reply EXCEPT ![u][n] =
                 IF put[u][n] = "stored" THEN "ok" ELSE "refused"]
  /\ UNCHANGED <<row, file, put, del, up, rm, dl, gone, down, faults, last>>

\* mutant: the HTTP client has no timeout.
CallLost_NoTimeout(u, n) == u \in gone

CallLost(u, n) == n \in down \/ u \in gone

(* ... or gives up, when the node does not answer in time or the client    *)
(* has gone away.  The node is not told.                                   *)
PutGivenUp(u, n) ==
  /\ up[u].pc = "puts" /\ reply[u][n] = "wait"
  /\ CallLost(u, n)
  /\ reply' = [reply EXCEPT ![u][n] = "gaveup"]
  /\ UNCHANGED <<row, file, put, del, up, rm, dl, gone, down, faults, last>>

\* mutant: the first error ends the wait.
AllAnswered_OrOneFailed(u) ==
  \/ \A n \in Nodes : reply[u][n] # "wait"
  \/ \E n \in Nodes : reply[u][n] \in {"refused", "gaveup"}

AllAnswered(u) == \A n \in Nodes : reply[u][n] # "wait"

\* mutant: one copy will do.
AllStored_One(u) ==
  LET t == Targets[UPath(u)] IN \E i \in 1..Len(t) : reply[u][t[i]] = "ok"

AllStored(u) ==
  LET t == Targets[UPath(u)] IN \A i \in 1..Len(t) : reply[u][t[i]] = "ok"

(* After wg.Wait(): one failed PUT sends the upload to the rollback, whose *)
(* first DELETE goes out at once.                                          *)
Decide(u) ==
  LET t == Targets[UPath(u)] IN
  /\ up[u].pc = "puts"
  /\ AllAnswered(u)
  /\ IF AllStored(u)
     THEN up' = [up EXCEPT ![u].pc = "commit"] /\ UNCHANGED del
     ELSE /\ up' = [up EXCEPT ![u].pc = "rollback", ![u].at = 1]
          /\ del' = [del EXCEPT ![u][t[1]] = "sent"]
  /\ UNCHANGED <<row, file, put, reply, rm, dl, gone, down, faults, last>>

(* The rollback deletes target after target, under context.Background(),   *)
(* and ignores what the nodes say.                                         *)
Rollback(u) ==
  LET t == Targets[UPath(u)]
      i == up[u].at IN
  /\ up[u].pc = "rollback"
  /\ del[u][t[i]] \in {"done", "failed"} \/ t[i] \in down
  /\ IF i < Len(t)
     THEN /\ up' = [up EXCEPT ![u].at = i + 1]
          /\ del' = [del EXCEPT ![u][t[i + 1]] = "sent"]
     ELSE up' = [up EXCEPT ![u].pc = "err"] /\ UNCHANGED del
  /\ UNCHANGED <<row, file, put, reply, rm, dl, gone, down, faults, last>>

(* UpsertObject: both tables in one statement. *)
Upserted(u) ==
  LET t == Targets[UPath(u)] IN
  [row EXCEPT ![up[u].key] = [etag |-> u, primary |-> t[1], replica |-> t[2]]]

Commit(u) ==
  /\ up[u].pc = "commit" /\ u \notin gone
  /\ row' = Upserted(u)
  /\ up' = [up EXCEPT ![u].pc = "ok"]
  /\ UNCHANGED <<file, put, reply, del, rm, dl, gone, down, faults, last>>

\* mutant: a failed statement is rolled back on the nodes as well.
CommitFails_CleansUp(u) ==
  /\ up[u].pc = "commit"
  /\ Fault /\ row' \in {row, Upserted(u)}
  /\ up' = [up EXCEPT ![u].pc = "err"]
  /\ del' = [del EXCEPT ![u] =
       [n \in Nodes |-> IF n \in TargetSet(UPath(u)) THEN "sent" ELSE @[n]]]
  /\ UNCHANGED <<file, put, reply, rm, dl, gone, down, last>>

\* mutant: the error of UpsertObject is dropped.
CommitFails_Dropped(u) ==
  /\ up[u].pc = "commit" /\ Fault
  /\ up' = [up EXCEPT ![u].pc = "ok"]
  /\ UNCHANGED <<row, file, put, reply, del, rm, dl, gone, down, last>>

(* The statement fails, or only its answer is lost; it has its effect by   *)
(* then or never: a statement that Postgres carries out after the API has  *)
(* given it up is left out, here, in RowDeleteFails and in ApiCrash.  The  *)
(* copies stay.                                                            *)
CommitFails(u) ==
  /\ up[u].pc = "commit"
  /\ \/ Excused(u \in gone) /\ UNCHANGED row
     \/ Fault /\ row' = Upserted(u)
  /\ up' = [up EXCEPT ![u].pc = "err"]
  /\ UNCHANGED <<file, put, reply, del, rm, dl, gone, down, last>>

-----------------------------------------------------------------------------
(* The PUT of upload u on node n.  A request whose caller has given up or  *)
(* crashed may be dropped or break off, and may as well be carried out.    *)
PutLeft(u, n) == reply[u][n] = "gaveup" \/ up[u].pc = "cut"

NodeOpen(u, n) ==
  LET p == UPath(u) IN
  /\ put[u][n] = "sent" /\ n \notin down
  /\ put' = [put EXCEPT ![u][n] = "open"]
  /\ file' = [file EXCEPT ![n][p] = Opened(@, u)]
  /\ dl' = [g \in Downloads |->
              IF /\ dl[g].pc = "stream" /\ dl[g].node = n
                 /\ GPath(g) = p /\ dl[g].linked
              THEN [dl[g] EXCEPT !.seen = Torn] ELSE dl[g]]
  /\ UNCHANGED <<row, reply, del, up, rm, gone, down, faults, last>>

NodeRefuse(u, n) ==
  /\ put[u][n] = "sent"
  /\ Excused(n \in down \/ PutLeft(u, n))
  /\ put' = [put EXCEPT ![u][n] = "failed"]
  /\ UNCHANGED <<row, file, reply, del, up, rm, dl, gone, down, last>>

OthersOpen(u, n) ==
  \E v \in Uploads \ {u} : put[v][n] = "open" /\ UPath(v) = UPath(u)

NodeClose(u, n, whole) ==
  LET p == UPath(u) IN
  /\ put[u][n] \in {"open", "detached"}
  /\ IF whole THEN n \notin down /\ UNCHANGED faults
              ELSE Excused(n \in down \/ PutLeft(u, n))
  /\ put' = [put EXCEPT ![u][n] = IF whole THEN "stored" ELSE "failed"]
  /\ IF put[u][n] = "open"
     THEN \E f \in Closed(file[n][p], u, OthersOpen(u, n), whole) :
            file' = [file EXCEPT ![n][p] = f]
     ELSE UNCHANGED file
  /\ UNCHANGED <<row, reply, del, up, rm, dl, gone, down, last>>

(* The DELETE of request q on node n; 404 is a success to deleteFromNode. *)
NodeDelete(q, n) ==
  LET p == QPath(q) IN
  /\ del[q][n] = "sent" /\ n \notin down
  /\ del' = [del EXCEPT ![q][n] = "done"]
  /\ file' = [file EXCEPT ![n][p] = NoFile]
  /\ put' = [u \in Uploads |-> [m \in Nodes |->
               IF m = n /\ put[u][m] = "open" /\ UPath(u) = p
               THEN "detached" ELSE put[u][m]]]
  /\ dl' = [g \in Downloads |->
              IF dl[g].pc = "stream" /\ dl[g].node = n /\ GPath(g) = p
              THEN [dl[g] EXCEPT !.linked = FALSE] ELSE dl[g]]
  /\ UNCHANGED <<row, reply, up, rm, gone, down, faults, last>>

DelLeft(q, n) ==
  IF q \in Uploads
  THEN up[q].pc # "rollback" \/ Targets[UPath(q)][up[q].at] # n
  ELSE \/ q \in gone
       \/ ~ \/ rm[q].pc = "primary" /\ n = rm[q].rec.primary
            \/ rm[q].pc = "replica" /\ n = rm[q].rec.replica

NodeDeleteFails(q, n) ==
  /\ del[q][n] = "sent"
  /\ Excused(n \in down \/ DelLeft(q, n))
  /\ del' = [del EXCEPT ![q][n] = "failed"]
  /\ UNCHANGED <<row, file, put, reply, up, rm, dl, gone, down, last>>

-----------------------------------------------------------------------------
(* Delete: the row is read, then primary, replica and row are deleted.     *)
StartDelete(d) ==
  LET r == row[rm[d].key]
      p == DPath(d) IN
  /\ rm[d].pc = "idle"
  /\ IF r = NoRow
     THEN /\ rm' = [rm EXCEPT ![d].pc = "notfound"]
          /\ UNCHANGED <<del, last, dl>>
     ELSE /\ rm' = [rm EXCEPT ![d].pc = "primary", ![d].rec = r]
          /\ del' = [del EXCEPT ![d][r.primary] = "sent"]
          /\ Begin(d, p)
          /\ dl' = Disturbed(p, {"primary", "replica"})
  /\ UNCHANGED <<row, file, put, reply, up, gone, down, faults>>

\* mutant: the second call goes to the primary again.
Asked_Primary(h) == h.rec.primary

Asked(h) == IF h.pc = "primary" THEN h.rec.primary ELSE h.rec.replica

\* mutant: the replica is left to a later clean-up.
NextCopy_PrimaryOnly(d) ==
  /\ rm[d].pc = "primary"
  /\ del[d][rm[d].rec.primary] \in {"done", "failed"} \/ d \in gone
  /\ rm' = [rm EXCEPT ![d].pc = "row"]
  /\ UNCHANGED <<row, file, put, reply, del, up, dl, gone, down, faults, last>>

(* deleteFromNode returns, and its error is ignored; once the context is   *)
(* dead, the call to the replica fails before anything is sent.            *)
NextCopy(d) ==
  /\ rm[d].pc \in {"primary", "replica"}
  /\ del[d][Asked(rm[d])] \in {"done", "failed"} \/ d \in gone
  /\ IF rm[d].pc = "primary" /\ d \notin gone
     THEN /\ rm' = [rm EXCEPT ![d].pc = "replica"]
          /\ del' = [del EXCEPT ![d][rm[d].rec.replica] = "sent"]
     ELSE rm' = [rm EXCEPT ![d].pc = "row"] /\ UNCHANGED del
  /\ UNCHANGED <<row, file, put, reply, up, dl, gone, down, faults, last>>

(* A node that does not answer uses up the 10 s the handler has: they are  *)
(* fewer than the 30 s of one call, so the whole delete is past its        *)
(* deadline.                                                               *)
Expire(d) ==
  /\ rm[d].pc \in {"primary", "replica"} /\ d \notin gone
  /\ del[d][Asked(rm[d])] = "sent" /\ Asked(rm[d]) \in down
  /\ gone' = gone \cup {d}
  /\ UNCHANGED <<row, file, put, reply, del, up, rm, dl, down, faults, last>>

(* DeleteByOwnerAndKey: by key, whichever upload the row is of by now. *)
RowDelete(d) ==
  /\ rm[d].pc = "row" /\ d \notin gone
  /\ row' = [row EXCEPT ![rm[d].key] = NoRow]
  /\ rm' = [rm EXCEPT ![d].pc = IF row[rm[d].key] = NoRow THEN "notfound"
                                                          ELSE "ok"]
  /\ UNCHANGED <<file, put, reply, del, up, dl, gone, down, faults, last>>

(* The DELETE of the row fails, or only its answer is lost. *)
RowDeleteFails(d) ==
  /\ rm[d].pc = "row"
  /\ \/ Excused(d \in gone) /\ UNCHANGED row
     \/ Fault /\ row' = [row EXCEPT ![rm[d].key] = NoRow]
  /\ rm' = [rm EXCEPT ![d].pc = "err"]
  /\ UNCHANGED <<file, put, reply, del, up, dl, gone, down, last>>

-----------------------------------------------------------------------------
(* Download: the row is read, then the primary is asked, then the replica. *)
StartDownload(g) ==
  LET r == row[dl[g].key] IN
  /\ dl[g].pc = "idle"
  /\ dl' = [dl EXCEPT ![g] =
       IF r = NoRow THEN [@ EXCEPT !.pc = "notfound"]
       ELSE [@ EXCEPT !.pc = "primary", !.rec = r,
                      !.calm = last[GPath(g)] = r.etag]]
  /\ UNCHANGED <<row, file, put, reply, del, up, rm, gone, down, faults, last>>

\* mutant: the node's status is not looked at.
GetOpens_AnyStatus(g) ==
  LET n == Asked(dl[g]) IN
  /\ dl[g].pc \in {"primary", "replica"} /\ n \notin down
  /\ dl' = [dl EXCEPT ![g].pc = "stream", ![g].node = n,
                      ![g].seen = file[n][GPath(g)].content, ![g].linked = TRUE]
  /\ UNCHANGED <<row, file, put, reply, del, up, rm, gone, down, faults, last>>

(* 200: the node has opened the file, the API passes the stream on. *)
GetOpens(g) ==
  LET n == Asked(dl[g])
      c == file[n][GPath(g)].content IN
  /\ dl[g].pc \in {"primary", "replica"} /\ n \notin down /\ c # Absent
  /\ dl' = [dl EXCEPT ![g].pc = "stream", ![g].node = n, ![g].seen = c,
                      ![g].linked = TRUE]
  /\ UNCHANGED <<row, file, put, reply, del, up, rm, gone, down, faults, last>>

(* 404 for a missing file; an error or no answer otherwise. *)
GetFails(g) ==
  LET n == Asked(dl[g])
      missing == n \notin down /\ file[n][GPath(g)].content = Absent IN
  /\ dl[g].pc \in {"primary", "replica"}
  /\ Excused(missing \/ n \in down)
  /\ dl' = [dl EXCEPT ![g].pc = IF @ = "primary" THEN "replica" ELSE "err",
                      ![g].lost = IF missing THEN @ ELSE @ \cup {n}]
  /\ UNCHANGED <<row, file, put, reply, del, up, rm, gone, down, last>>

StreamEnds(g) ==
  /\ dl[g].pc = "stream" /\ dl[g].node \notin down
  /\ dl' = [dl EXCEPT ![g].pc = "ok"]
  /\ UNCHANGED <<row, file, put, reply, del, up, rm, gone, down, faults, last>>

(* The node fails under the stream.  io.Copy's error is dropped: the       *)
(* client has its 200 and a body that just ends.                           *)
StreamBreaks(g) ==
  /\ dl[g].pc = "stream"
  /\ Excused(dl[g].node \in down)
  /\ dl' = [dl EXCEPT ![g].pc = "short"]
  /\ UNCHANGED <<row, file, put, reply, del, up, rm, gone, down, last>>

-----------------------------------------------------------------------------
(* The row cannot be read: delete and download end in an error. *)
FindFails ==
  /\ Fault
  /\ \/ \E d \in Deletes : /\ rm[d].pc = "idle"
                           /\ rm' = [rm EXCEPT ![d].pc = "err"]
                           /\ UNCHANGED dl
     \/ \E g \in Downloads : /\ dl[g].pc = "idle"
                             /\ dl' = [dl EXCEPT ![g].pc = "err"]
                             /\ UNCHANGED rm
  /\ UNCHANGED <<row, file, put, reply, del, up, gone, down, last>>

(* The client goes away: net/http cancels the request's context. *)
Cancel(q) ==
  /\ Fault
  /\ q \notin gone
  /\ IF q \in Uploads THEN up[q].pc \in {"puts", "commit"} ELSE DeleteActive(q)
  /\ gone' = gone \cup {q}
  /\ UNCHANGED <<row, file, put, reply, del, up, rm, dl, down, last>>

(* The object-api process dies with everything in flight and is restarted; *)
(* nothing of it was written down.  Calls to nodes may still be carried    *)
(* out; a statement has reached Postgres by then or never (Commit, or the  *)
(* lost answer of CommitFails, comes first).                               *)
ApiCrash ==
  /\ Fault
  /\ up' = [u \in Uploads |->
              IF UploadActive(u) THEN [up[u] EXCEPT !.pc = "cut"] ELSE up[u]]
  /\ rm' = [d \in Deletes |->
              IF DeleteActive(d) THEN [rm[d] EXCEPT !.pc = "cut"] ELSE rm[d]]
  /\ dl' = [g \in Downloads |->
              IF DownloadActive(g) THEN [dl[g] EXCEPT !.pc = "cut"] ELSE dl[g]]
  /\ <<up, rm, dl>>' # <<up, rm, dl>>
  /\ UNCHANGED <<row, file, put, reply, del, gone, down, last>>

(* A node stops answering, by a stall or a crash, and comes back; what it  *)
(* had in hand may break off (NodeRefuse, NodeClose, NodeDeleteFails) or   *)
(* go on from where it was.                                                *)
NodeStops(n) ==
  /\ Fault /\ n \notin down
  /\ down' = down \cup {n}
  /\ UNCHANGED <<row, file, put, reply, del, up, rm, dl, gone, last>>

NodeResumes(n) ==
  /\ n \in down
  /\ down' = down \ {n}
  /\ UNCHANGED <<row, file, put, reply, del, up, rm, dl, gone, faults, last>>

(* No request is under way, and none will come. *)
AllDone ==
  /\ \A u \in Uploads : up[u].pc # "idle" /\ ~UploadActive(u)
  /\ \A d \in Deletes : rm[d].pc # "idle" /\ ~DeleteActive(d)
  /\ \A g \in Downloads : dl[g].pc # "idle" /\ ~DownloadActive(g)
  /\ UNCHANGED vars

-----------------------------------------------------------------------------
UploadStep(u) ==
  \/ \E n \in Nodes : PutAnswered(u, n) \/ PutGivenUp(u, n)
  \/ Decide(u) \/ Rollback(u) \/ Commit(u) \/ CommitFails(u)
DeleteStep(d) == NextCopy(d) \/ Expire(d) \/ RowDelete(d) \/ RowDeleteFails(d)
DownloadStep(g) ==
  GetOpens(g) \/ GetFails(g) \/ StreamEnds(g) \/ StreamBreaks(g)
NodeStep(n) ==
  \/ \E u \in Uploads : \/ NodeOpen(u, n) \/ NodeRefuse(u, n)
                        \/ \E whole \in BOOLEAN : NodeClose(u, n, whole)
  \/ \E q \in Mutators : NodeDelete(q, n) \/ NodeDeleteFails(q, n)

Next ==
  \/ \E u \in Uploads : StartUpload(u) \/ UploadStep(u)
  \/ \E d \in Deletes : StartDelete(d) \/ DeleteStep(d)
  \/ \E g \in Downloads : StartDownload(g) \/ DownloadStep(g)
  \/ \E n \in Nodes : NodeStep(n) \/ NodeStops(n) \/ NodeResumes(n)
  \/ \E q \in Mutators : Cancel(q)
  \/ FindFails \/ ApiCrash \/ AllDone

Spec == Init /\ [][Next]_vars

(* The API's steps follow from its goroutines being scheduled and from the *)
(* client timeout and context deadline every call has; a node that is up   *)
(* works off what it has been sent.  Nothing is assumed of a node that is  *)
(* down: it need not come back.                                            *)
Fairness ==
  /\ \A u \in Uploads : WF_vars(UploadStep(u))
  /\ \A d \in Deletes : WF_vars(DeleteStep(d))
  /\ \A g \in Downloads : WF_vars(DownloadStep(g))
  /\ \A n \in Nodes : WF_vars(n \notin down /\ NodeStep(n))

FairSpec == Spec /\ Fairness

-----------------------------------------------------------------------------
(* A row names an upload only if every node placement chose for it has     *)
(* acknowledged its PUT, whatever else went on; and the API never rolls    *)
(* such an upload back (Upload's order: PUTs, decision, UpsertObject).     *)
RowNamesStoredUpload ==
  \A k \in Keys : row[k] # NoRow =>
    LET u == row[k].etag
        t == Targets[Path[k]] IN
    /\ up[u].key = k
    /\ Len(t) >= 2 /\ row[k].primary = t[1] /\ row[k].replica = t[2]
    /\ \A n \in TargetSet(Path[k]) : put[u][n] = "stored"
    /\ \A n \in Nodes : del[u][n] = "none"

(* As long as nothing else has touched its path since the upload started,  *)
(* an upload whose row is in the database has its very bytes on both nodes *)
(* the row names - also if the client was told of an error, the API has    *)
(* crashed or nodes came and went (Upload).                                *)
RowHasBytes ==
  \A k \in Keys :
    row[k] # NoRow /\ last[Path[k]] = row[k].etag =>
      /\ file[row[k].primary][Path[k]].content = row[k].etag
      /\ file[row[k].replica][Path[k]].content = row[k].etag

(* An acknowledged upload stays the object of its key until another        *)
(* upload or delete of the path starts; acknowledged means recorded and,   *)
(* with RowHasBytes, stored twice.                                         *)
AcknowledgedIsRecorded ==
  \A u \in Uploads :
    up[u].pc = "ok" /\ last[UPath(u)] = u =>
      row[up[u].key] # NoRow /\ row[up[u].key].etag = u

(* When an upload that was not stored everywhere has been rolled back, the *)
(* only nodes that may have a file are those whose PUT the API gave up and *)
(* those whose DELETE failed or is still under way: every target is asked, *)
(* and nothing of the upload comes in later (Upload's wait and rollback).  *)
RollbackRemoves ==
  \A u \in Uploads :
    LET p == UPath(u) IN
    /\ up[u].pc = "err" /\ last[p] = u
    /\ \E n \in TargetSet(p) : reply[u][n] # "ok"
    => \A n \in TargetSet(p) :
         reply[u][n] # "gaveup" /\ del[u][n] \in {"none", "done"} =>
           file[n][p].content = Absent

(* An undisturbed delete that was acknowledged leaves no row, and a file   *)
(* only on a node whose DELETE failed or is still under way (Delete).      *)
DeleteRemoves ==
  \A d \in Deletes :
    rm[d].pc = "ok" /\ last[DPath(d)] = d =>
      /\ row[rm[d].key] = NoRow
      /\ \A n \in {rm[d].rec.primary, rm[d].rec.replica} :
           del[d][n] \in {"none", "done"} =>
             file[n][DPath(d)].content = Absent

(* A download that came to its end sent the bytes its ETag stands for,     *)
(* unless an upload of the path began meanwhile, or a delete did before    *)
(* the node had opened the file (Download and the copy in downloadObject). *)
DownloadMatchesETag ==
  \A g \in Downloads :
    dl[g].pc = "ok" /\ dl[g].calm => dl[g].seen = dl[g].rec.etag

(* Failover: a download of an undisturbed object fails only after both     *)
(* nodes of its row have failed; no single node can make it fail, and no   *)
(* node that is up has lost the file (Download's fallback).                *)
FailoverMasksOneNode ==
  \A g \in Downloads :
    dl[g].pc = "err" /\ dl[g].calm =>
      {dl[g].rec.primary, dl[g].rec.replica} \subseteq dl[g].lost

(* Every request the API has taken up is answered or cut off by a crash,   *)
(* even if every node it calls stays down (timeouts of Upload, Delete,     *)
(* Download).                                                              *)
RequestsEnd ==
  /\ \A u \in Uploads : UploadActive(u) ~> ~UploadActive(u)
  /\ \A d \in Deletes : DeleteActive(d) ~> ~DeleteActive(d)
  /\ \A g \in Downloads : DownloadActive(g) ~> ~DownloadActive(g)
=============================================================================
