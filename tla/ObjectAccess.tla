----------------------------- MODULE ObjectAccess -----------------------------
(***************************************************************************)
(* Who may read an object of object-api: its permission, its visibility,   *)
(* and the share links to it (service.go: Hide, setPermission,             *)
(* DownloadPublic, CreateTemporaryShareLink, DownloadByShareToken, and the *)
(* statements they send to Postgres and Redis).                            *)
(*                                                                         *)
(* One key of one owner.  Its bytes are a single register here, written    *)
(* before the row by an upload and removed before the row by a delete:     *)
(* copies and their failures are the subject of module ObjectStore.  The   *)
(* etag of an upload is the hash of its body, so uploads of the same bytes *)
(* have the same; an object id is the upload that inserted the row.        *)
(***************************************************************************)
EXTENDS Integers, FiniteSets

CONSTANTS Uploads, Deletes,
          Bodies,      \* what an upload may bring
          Hides,       \* visibility requests: they hide, whatever they ask for
          Settings,    \* permission requests
          Setting,     \* Setting[s]: the permission request s sets
          Links,       \* requests that create a share link
          Readers,     \* public downloads and downloads by share link
          TTL,         \* lifetime of a link, in ticks
          Deadline,    \* bound, in ticks: how long after a lifetime was computed
                       \* SET may be carried out (8 s of the handler, and what
                       \* go-redis gives a call that is on its way)
          NoRow, None,
          MaxTime,     \* bound: the clock stops here
          MaxFaults    \* bound: failed statements and restarts

ASSUME RequestsForm == Setting \in [Settings -> {"public-read", "private-read"}]
ASSUME TimesForm == {TTL, Deadline, MaxTime, MaxFaults} \subseteq Nat
ASSUME SentinelsForm == None \notin Uploads \cup Links \cup Bodies

VARIABLES
  row,      \* the row of the key in objects
  bytes,    \* do the nodes hold bytes under the key
  events,   \* object_visibility_events: the requests recorded for the row
  link,     \* link[s][c]: until when store s has the link c, None if not at all
  redis,    \* did the process find Redis when it was started
  now,      \* the clock
  up, rm, hid, set, mk, rd,   \* the handlers of the requests
  faults

\* Where share links are kept; see Store.
Stores == {"redis", "process"}

vars == <<row, bytes, events, link, redis, now, up, rm, hid, set, mk, rd, faults>>

\* by: auxiliary, the upload that wrote the row last.
Rows == [id : Uploads, etag : Bodies, visibility : {"visible", "hidden"},
         permission : {"public-read", "private-read"}, by : Uploads]

ASSUME NoRowForm == NoRow \notin Rows

UploadStates == [pc : {"commit"}, body : Bodies]
           \cup [pc : {"idle", "ok", "err"}, body : {None}]
\* by: auxiliary, the upload whose row was hidden.
HideStates == [pc : {"idle", "event", "ok", "notfound", "err"},
               id : Uploads \cup {None}, by : Uploads \cup {None}]
LinkStates == [pc : {"idle", "set", "ok", "notfound", "forbidden", "err"},
               began : Nat, expires : Nat]
\* via: the link of the reader, None for a public download.  Auxiliary: shut,
\* the object was hidden when the reader came, and has not been uploaded or
\* deleted since; at, when the link was looked up.
ReaderStates == [pc : {"idle", "found", "open", "ok", "notfound", "forbidden", "err"},
                 via : Links \cup {None}, shut : BOOLEAN, at : Nat]

TypeOK == /\ row \in Rows \cup {NoRow}
          /\ bytes \in BOOLEAN
          /\ events \subseteq Hides
          /\ link \in [Stores -> [Links -> Nat \cup {None}]]
          /\ redis \in BOOLEAN
          /\ now \in 0..MaxTime
          /\ up \in [Uploads -> UploadStates]
          /\ rm \in [Deletes -> {"idle", "files", "row", "ok", "notfound", "err"}]
          /\ hid \in [Hides -> HideStates]
          /\ set \in [Settings -> {"idle", "ok", "notfound", "err"}]
          /\ mk \in [Links -> LinkStates]
          /\ rd \in [Readers -> ReaderStates]
          /\ faults \in 0..MaxFaults

Init == /\ row = NoRow /\ bytes = FALSE /\ events = {}
        /\ link = [s \in Stores |-> [c \in Links |-> None]]
        /\ redis \in BOOLEAN
        /\ now = 0 /\ faults = 0
        /\ up = [u \in Uploads |-> [pc |-> "idle", body |-> None]]
        /\ rm = [d \in Deletes |-> "idle"]
        /\ hid = [h \in Hides |-> [pc |-> "idle", id |-> None, by |-> None]]
        /\ set = [s \in Settings |-> "idle"]
        /\ mk = [c \in Links |-> [pc |-> "idle", began |-> 0, expires |-> 0]]
        /\ rd = [g \in Readers |-> [pc |-> "idle", via |-> None,
                                    shut |-> FALSE, at |-> 0]]

-----------------------------------------------------------------------------
Hidden == row # NoRow /\ row.visibility = "hidden"

\* A change of the row ends what readers that came before must respect.
Reopened == [g \in Readers |-> [rd[g] EXCEPT !.shut = FALSE]]

Fault == faults < MaxFaults /\ faults' = faults + 1

\* mutant: the insert leaves the visibility out.
Upserted_NoVisibility(u) ==
  IF row = NoRow
  THEN [id |-> u, etag |-> up[u].body, visibility |-> None,
        permission |-> "private-read", by |-> u]
  ELSE [row EXCEPT !.etag = up[u].body, !.visibility = "visible", !.by = u]

\* mutant: an upload of a key that is there replaces the row by a new one.
Upserted_Reinsert(u) ==
  [id |-> u, etag |-> up[u].body, visibility |-> "visible",
   permission |-> IF row = NoRow THEN "private-read" ELSE row.permission, by |-> u]

(* UpsertObject: an insert starts visible and, by the column's default,    *)
(* private; an update makes the object visible, whatever it is an update   *)
(* to, and keeps id and permission.                                        *)
Upserted(u) ==
  IF row = NoRow
  THEN [id |-> u, etag |-> up[u].body, visibility |-> "visible",
        permission |-> "private-read", by |-> u]
  ELSE [row EXCEPT !.etag = up[u].body, !.visibility = "visible", !.by = u]

Over(how) == [pc |-> how, body |-> None]

(* Upload: the bytes first, then the row; bytes that could not be written  *)
(* everywhere are removed again.                                           *)
Put(u) ==
  /\ up[u].pc = "idle"
  /\ \/ /\ \E b \in Bodies : up' = [up EXCEPT ![u] = [pc |-> "commit", body |-> b]]
        /\ bytes' = TRUE /\ UNCHANGED faults
     \/ up' = [up EXCEPT ![u] = Over("err")] /\ bytes' = FALSE /\ Fault
  /\ UNCHANGED <<row, events, link, redis, now, rm, hid, set, mk, rd>>

Upsert(u) ==
  /\ up[u].pc = "commit"
  /\ row' = Upserted(u) /\ rd' = Reopened
  /\ up' = [up EXCEPT ![u] = Over("ok")]
  /\ UNCHANGED <<bytes, events, link, redis, now, rm, hid, set, mk, faults>>

(* The statement, or only its answer, is lost. *)
UpsertFails(u) ==
  /\ up[u].pc = "commit" /\ Fault
  /\ \/ row' = Upserted(u) /\ rd' = Reopened
     \/ UNCHANGED <<row, rd>>
  /\ up' = [up EXCEPT ![u] = Over("err")]
  /\ UNCHANGED <<bytes, events, link, redis, now, rm, hid, set, mk>>

Find(d) ==
  /\ rm[d] = "idle"
  /\ rm' = [rm EXCEPT ![d] = IF row = NoRow THEN "notfound" ELSE "files"]
  /\ UNCHANGED <<row, bytes, events, link, redis, now, up, hid, set, mk, rd, faults>>

DeleteFiles(d) ==
  /\ rm[d] = "files"
  /\ bytes' = FALSE /\ rm' = [rm EXCEPT ![d] = "row"]
  /\ UNCHANGED <<row, events, link, redis, now, up, hid, set, mk, rd, faults>>

(* DeleteByOwnerAndKey: the events of the row go with it (ON DELETE        *)
(* CASCADE).                                                               *)
DeleteRow(d) ==
  /\ rm[d] = "row"
  /\ row' = NoRow /\ events' = {} /\ rd' = Reopened
  /\ rm' = [rm EXCEPT ![d] = IF row = NoRow THEN "notfound" ELSE "ok"]
  /\ UNCHANGED <<bytes, link, redis, now, up, hid, set, mk, faults>>

(* One of its statements, or only the answer of the second, is lost. *)
DeleteFails(d) ==
  /\ rm[d] \in {"idle", "row"} /\ Fault
  /\ \/ UNCHANGED <<row, events, rd>>
     \/ rm[d] = "row" /\ row' = NoRow /\ events' = {} /\ rd' = Reopened
  /\ rm' = [rm EXCEPT ![d] = "err"]
  /\ UNCHANGED <<bytes, link, redis, now, up, hid, set, mk>>

-----------------------------------------------------------------------------
(* HideByOwnerAndKey: two statements outside a transaction, an UPDATE that *)
(* returns the id and an INSERT of the event, which fails when the id is   *)
(* gone (foreign key).  The visibility the body asks for is not looked at. *)
HideUpdate(h) ==
  /\ hid[h].pc = "idle"
  /\ IF row = NoRow
     THEN hid' = [hid EXCEPT ![h].pc = "notfound"] /\ UNCHANGED row
     ELSE /\ row' = [row EXCEPT !.visibility = "hidden"]
          /\ hid' = [hid EXCEPT ![h] = [pc |-> "event", id |-> row.id, by |-> row.by]]
  /\ UNCHANGED <<bytes, events, link, redis, now, up, rm, set, mk, rd, faults>>

HideUpdateFails(h) ==
  /\ hid[h].pc = "idle" /\ Fault
  /\ \/ UNCHANGED row
     \/ row # NoRow /\ row' = [row EXCEPT !.visibility = "hidden"]
  /\ hid' = [hid EXCEPT ![h].pc = "err"]
  /\ UNCHANGED <<bytes, events, link, redis, now, up, rm, set, mk, rd>>

HideEvent(h) ==
  LET there == row # NoRow /\ row.id = hid[h].id IN
  /\ hid[h].pc = "event"
  /\ events' = IF there THEN events \cup {h} ELSE events
  /\ hid' = [hid EXCEPT ![h].pc = IF there THEN "ok" ELSE "err"]
  /\ UNCHANGED <<row, bytes, link, redis, now, up, rm, set, mk, rd, faults>>

\* mutant: the error of the second statement is dropped.
HideEventFails_Ignored(h) ==
  /\ hid[h].pc = "event" /\ Fault
  /\ hid' = [hid EXCEPT ![h].pc = "ok"]
  /\ UNCHANGED <<row, bytes, events, link, redis, now, up, rm, set, mk, rd>>

HideEventFails(h) ==
  /\ hid[h].pc = "event" /\ Fault
  /\ hid' = [hid EXCEPT ![h].pc = "err"]
  /\ UNCHANGED <<row, bytes, events, link, redis, now, up, rm, set, mk, rd>>

SetPermission(s) ==
  /\ set[s] = "idle"
  /\ set' = [set EXCEPT ![s] = IF row = NoRow THEN "notfound" ELSE "ok"]
  /\ row' = IF row = NoRow THEN row ELSE [row EXCEPT !.permission = Setting[s]]
  /\ UNCHANGED <<bytes, events, link, redis, now, up, rm, hid, mk, rd, faults>>

SetPermissionFails(s) ==
  /\ set[s] = "idle" /\ Fault
  /\ \/ UNCHANGED row
     \/ row # NoRow /\ row' = [row EXCEPT !.permission = Setting[s]]
  /\ set' = [set EXCEPT ![s] = "err"]
  /\ UNCHANGED <<bytes, events, link, redis, now, up, rm, hid, mk, rd>>

-----------------------------------------------------------------------------
(* CreateTemporaryShareLink: the object must be there and visible; the end *)
(* of the link is computed before it is stored.                            *)
MakeLink(c) ==
  /\ mk[c].pc = "idle"
  /\ mk' = [mk EXCEPT ![c] =
       IF row = NoRow THEN [@ EXCEPT !.pc = "notfound"]
       ELSE IF Hidden THEN [@ EXCEPT !.pc = "forbidden"]
       ELSE [pc |-> "set", began |-> now, expires |-> now + TTL]]
  /\ UNCHANGED <<row, bytes, events, link, redis, now, up, rm, hid, set, rd, faults>>

(* The row cannot be read. *)
MakeLinkFails(c) ==
  /\ mk[c].pc = "idle" /\ Fault
  /\ mk' = [mk EXCEPT ![c].pc = "err"]
  /\ UNCHANGED <<row, bytes, events, link, redis, now, up, rm, hid, set, rd>>

\* A process that cannot reach Redis when it starts goes by its own map.
Store == IF redis THEN "redis" ELSE "process"

\* mutant: SET without an expiry.
StoreLink_NoExpiry(c) ==
  /\ mk[c].pc = "set"
  /\ redis => now <= mk[c].began + Deadline
  /\ link' = [link EXCEPT ![Store][c] = IF redis THEN MaxTime + 1 ELSE mk[c].expires]
  /\ mk' = [mk EXCEPT ![c].pc = "ok"]
  /\ UNCHANGED <<row, bytes, events, redis, now, up, rm, hid, set, rd, faults>>

(* Redis counts the lifetime from the SET on, which the deadline bounds;   *)
(* the map of the process has the time computed before.                    *)
StoreLink(c) ==
  /\ mk[c].pc = "set"
  /\ redis => now <= mk[c].began + Deadline
  /\ link' = [link EXCEPT ![Store][c] = IF redis THEN now + TTL ELSE mk[c].expires]
  /\ mk' = [mk EXCEPT ![c].pc = "ok"]
  /\ UNCHANGED <<row, bytes, events, redis, now, up, rm, hid, set, rd, faults>>

(* The answer to SET is lost, and go-redis is about to send it again. *)
StoreLinkAgain(c) ==
  /\ mk[c].pc = "set" /\ redis /\ Fault
  /\ now <= mk[c].began + Deadline
  /\ link' = [link EXCEPT !["redis"][c] = now + TTL]
  /\ UNCHANGED <<row, bytes, events, redis, now, up, rm, hid, set, mk, rd>>

(* The error of SET is dropped: the client gets a link that is not stored. *)
StoreLinkFails(c) ==
  /\ mk[c].pc = "set" /\ redis
  /\ \/ Fault
     \/ now > mk[c].began + Deadline /\ UNCHANGED faults
  /\ mk' = [mk EXCEPT ![c].pc = "ok"]
  /\ UNCHANGED <<row, bytes, events, link, redis, now, up, rm, hid, set, rd>>

(* A key of Redis is gone when its time has come; the map is compared with *)
(* the clock by After, so it still serves at that time.                    *)
Stored(c) ==
  LET end == link[Store][c] IN end # None /\ (IF redis THEN now < end ELSE now <= end)

Came(g, c) == [rd[g] EXCEPT !.via = c, !.shut = Hidden, !.at = now]

(* DownloadByShareToken looks up the token. *)
LookUp(g, c) ==
  /\ rd[g].pc = "idle"
  /\ rd' = [rd EXCEPT ![g] =
       [Came(g, c) EXCEPT !.pc = IF Stored(c) THEN "found" ELSE "notfound"]]
  /\ UNCHANGED <<row, bytes, events, link, redis, now, up, rm, hid, set, mk, faults>>

\* mutant: a link opens a hidden object.
ReadShared_Hidden(g) ==
  /\ rd[g].pc = "found"
  /\ rd' = [rd EXCEPT ![g].pc = IF row = NoRow THEN "notfound" ELSE "open"]
  /\ UNCHANGED <<row, bytes, events, link, redis, now, up, rm, hid, set, mk, faults>>

(* ... and then the row, by owner and key.  A link needs no permission.    *)
ReadShared(g) ==
  /\ rd[g].pc = "found"
  /\ rd' = [rd EXCEPT ![g].pc = IF row = NoRow THEN "notfound"
                                ELSE IF Hidden THEN "forbidden" ELSE "open"]
  /\ UNCHANGED <<row, bytes, events, link, redis, now, up, rm, hid, set, mk, faults>>

(* DownloadPublic: the row must be public and visible. *)
ReadPublic(g) ==
  /\ rd[g].pc = "idle"
  /\ rd' = [rd EXCEPT ![g] =
       [Came(g, None) EXCEPT !.pc =
          IF row = NoRow THEN "notfound"
          ELSE IF row.permission # "public-read" \/ Hidden THEN "forbidden"
          ELSE "open"]]
  /\ UNCHANGED <<row, bytes, events, link, redis, now, up, rm, hid, set, mk, faults>>

(* getFromNodeStream: whatever the path holds by now. *)
Open(g) ==
  /\ rd[g].pc = "open"
  /\ rd' = [rd EXCEPT ![g].pc = IF bytes THEN "ok" ELSE "err"]
  /\ UNCHANGED <<row, bytes, events, link, redis, now, up, rm, hid, set, mk, faults>>

(* Redis, Postgres or both nodes fail a reader; an error of Redis reads as *)
(* a link that does not exist.                                             *)
ReaderFails(g) ==
  /\ rd[g].pc \in {"idle", "found", "open"} /\ Fault
  /\ \/ rd' = [rd EXCEPT ![g].pc = "err"]
     \/ rd[g].pc = "idle" /\ redis /\ rd' = [rd EXCEPT ![g].pc = "notfound"]
  /\ UNCHANGED <<row, bytes, events, link, redis, now, up, rm, hid, set, mk>>

-----------------------------------------------------------------------------
(* object-api restarts: what is in flight breaks off, the process loses    *)
(* its map of links, and may or may not find Redis this time.              *)
Restart ==
  /\ Fault
  /\ up' = [u \in Uploads |-> IF up[u].pc = "commit" THEN Over("err") ELSE up[u]]
  /\ rm' = [d \in Deletes |-> IF rm[d] \in {"files", "row"} THEN "err" ELSE rm[d]]
  /\ hid' = [h \in Hides |-> IF hid[h].pc = "event"
                             THEN [hid[h] EXCEPT !.pc = "err"] ELSE hid[h]]
  /\ mk' = [c \in Links |-> IF mk[c].pc = "set"
                            THEN [mk[c] EXCEPT !.pc = "err"] ELSE mk[c]]
  /\ rd' = [g \in Readers |-> IF rd[g].pc \in {"found", "open"}
                              THEN [rd[g] EXCEPT !.pc = "err"] ELSE rd[g]]
  /\ link' = [link EXCEPT !["process"] = [c \in Links |-> None]]
  /\ redis' \in BOOLEAN
  /\ UNCHANGED <<row, bytes, events, now, set>>

Tick == /\ now < MaxTime /\ now' = now + 1
        /\ UNCHANGED <<row, bytes, events, link, redis, up, rm, hid, set, mk, rd, faults>>

(* Every request may have been answered, and no other comes. *)
Quiet == /\ now = MaxTime
         /\ UNCHANGED vars

Next == \/ \E u \in Uploads : Put(u) \/ Upsert(u) \/ UpsertFails(u)
        \/ \E d \in Deletes : Find(d) \/ DeleteFiles(d) \/ DeleteRow(d) \/ DeleteFails(d)
        \/ \E h \in Hides : \/ HideUpdate(h) \/ HideUpdateFails(h)
                            \/ HideEvent(h) \/ HideEventFails(h)
        \/ \E s \in Settings : SetPermission(s) \/ SetPermissionFails(s)
        \/ \E c \in Links : \/ MakeLink(c) \/ MakeLinkFails(c)
                            \/ StoreLink(c) \/ StoreLinkAgain(c) \/ StoreLinkFails(c)
        \/ \E g \in Readers : \/ \E c \in Links : LookUp(g, c)
                              \/ ReadShared(g) \/ ReadPublic(g) \/ Open(g) \/ ReaderFails(g)
        \/ Restart \/ Tick \/ Quiet

Spec == Init /\ [][Next]_vars

-----------------------------------------------------------------------------
(* What a row may become: a hidden object is shown again only by another   *)
(* upload, be it of the same bytes; the etag is the one of the upload that *)
(* wrote the row, which keeps the id and the permission the owner gave it; *)
(* and an object that was deleted comes back private and visible           *)
(* (UpsertObject, SetPermissionByOwnerAndKey, HideByOwnerAndKey and        *)
(* DeleteByOwnerAndKey, in any order).                                     *)
RowEvolves ==
  [][/\ row # NoRow /\ row' # NoRow =>
          /\ row'.id = row.id
          /\ Hidden /\ row'.visibility = "visible" => row'.by # row.by
          /\ row'.etag # row.etag => row'.by # row.by
          /\ row'.by # row.by => row'.permission = row.permission
     /\ row' # NoRow /\ (row = NoRow \/ row'.by # row.by) =>
          /\ up[row'.by].pc = "commit" /\ row'.etag = up[row'.by].body
          /\ row'.visibility = "visible"
     /\ row = NoRow /\ row' # NoRow => row'.permission = "private-read"]_vars

(* An acknowledged hide is in force, and recorded, until another upload is *)
(* recorded under the key - one of the same bytes ends it as well, though  *)
(* the etag stays; and no event is left of an object that is gone          *)
(* (HideByOwnerAndKey's two statements, against UpsertObject).             *)
HideIsRecorded ==
  /\ \A h \in Hides :
       hid[h].pc = "ok" /\ row # NoRow /\ row.id = hid[h].id =>
         h \in events /\ (row.by = hid[h].by => Hidden)
  /\ \A h \in events : row # NoRow /\ row.id = hid[h].id

(* A reader that came when the object was hidden gets nothing, by a link   *)
(* or without one, unless the key is uploaded or deleted meanwhile         *)
(* (DownloadPublic, DownloadByShareToken: the check, then the stream).     *)
HiddenIsNotServed ==
  \A g \in Readers : rd[g].pc = "ok" => ~rd[g].shut

(* A link outlives the time the client was told by less than SET came      *)
(* after that time was computed, whichever store it is in, however the     *)
(* calls are spread and though SET be sent again                           *)
(* (CreateTemporaryShareLink, DownloadByShareToken).                       *)
LinkExpires ==
  \A g \in Readers :
    rd[g].pc = "ok" /\ rd[g].via # None =>
      LET told == mk[rd[g].via].expires IN
      rd[g].at <= told \/ rd[g].at < told + Deadline
=============================================================================
