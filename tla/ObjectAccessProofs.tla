-------------------------- MODULE ObjectAccessProofs --------------------------
(***************************************************************************)
(* ObjectAccess: what a row may become, what an acknowledged hide leaves   *)
(* behind, whom a hidden object is served to, and how long a link lives -  *)
(* for any number of requests, any lifetime and deadline, and any number   *)
(* of faults.                                                              *)
(***************************************************************************)
EXTENDS ObjectAccess, TLAPS

Ended == {"ok", "err"}

(* What a row, or a hide, says of an upload it says of one that is over:   *)
(* the next one that writes the row is another.                            *)
UploadIsOver ==
  /\ row # NoRow => up[row.id].pc \in Ended /\ up[row.by].pc \in Ended
  /\ \A h \in Hides : hid[h].id # None =>
       /\ hid[h].id \in Uploads /\ up[hid[h].id].pc \in Ended
       /\ hid[h].by \in Uploads /\ up[hid[h].by].pc \in Ended

(* A hide between its two statements, or past them, is in force as long as *)
(* the row is as the upload it met left it.                                *)
HideHolds ==
  /\ \A h \in Hides : hid[h].pc \in {"event", "ok"} => hid[h].id # None
  /\ \A h \in Hides :
       /\ hid[h].pc \in {"event", "ok"} /\ row # NoRow
       /\ row.id = hid[h].id /\ row.by = hid[h].by
       => row.visibility = "hidden"
  /\ \A h \in events : hid[h].pc = "ok"

(* A reader that must not be served meets a row that is still hidden. *)
ShutIsHidden ==
  \A g \in Readers :
    /\ rd[g].pc = "found" /\ rd[g].shut => Hidden
    /\ rd[g].pc \in {"open", "ok"} => ~rd[g].shut

(* A link that is stored was made, and ends not much later than announced. *)
Made == {"set", "ok", "err"}
Latest(s, told) == IF s = "redis" THEN told + Deadline ELSE told
LinkEnds ==
  \A c \in Links :
    /\ mk[c].pc = "set" => mk[c].expires = mk[c].began + TTL
    /\ \A s \in Stores : link[s][c] # None =>
         mk[c].pc \in Made /\ link[s][c] <= Latest(s, mk[c].expires)

(* So does a reader that came by it. *)
InTime(at, told) == at <= told \/ at < told + Deadline
ReadInTime ==
  \A g \in Readers : rd[g].pc \in {"found", "open", "ok"} /\ rd[g].via # None =>
    /\ rd[g].via \in Links /\ mk[rd[g].via].pc \in Made
    /\ InTime(rd[g].at, mk[rd[g].via].expires)

Parts == /\ UploadIsOver /\ HideHolds /\ HideIsRecorded
         /\ ShutIsHidden /\ LinkEnds /\ ReadInTime

AccessInv == TypeOK /\ Parts

LEMMA InitInv == Init => AccessInv
<1> SUFFICES ASSUME Init PROVE AccessInv
  OBVIOUS
<1> USE SentinelsForm, TimesForm DEF Init
<1>3. /\ up \in [Uploads -> UploadStates] /\ hid \in [Hides -> HideStates]
      /\ mk \in [Links -> LinkStates]
  BY DEF UploadStates, HideStates, LinkStates
<1>4. rd \in [Readers -> ReaderStates]
  BY DEF ReaderStates
<1>5. link \in [Stores -> [Links -> Nat \cup {None}]] /\ now \in 0..MaxTime
      /\ faults \in 0..MaxFaults
  OBVIOUS
<1>6. /\ row \in Rows \cup {NoRow} /\ events \subseteq Hides
      /\ bytes \in BOOLEAN /\ redis \in BOOLEAN
  OBVIOUS
<1>7. /\ rm \in [Deletes -> {"idle", "files", "row", "ok", "notfound", "err"}]
      /\ set \in [Settings -> {"idle", "ok", "notfound", "err"}]
  OBVIOUS
<1>1. TypeOK
  BY <1>3, <1>4, <1>5, <1>6, <1>7, Zenon DEF TypeOK
<1>2. Parts
  BY DEF Parts, UploadIsOver, HideHolds, HideIsRecorded, ShutIsHidden, LinkEnds, ReadInTime
<1> QED BY <1>1, <1>2 DEF AccessInv

-----------------------------------------------------------------------------
(* Types *)
LEMMA HideStep ==
  ASSUME NEW s \in HideStates, NEW pc \in {"event", "ok", "notfound", "err"}
  PROVE  [s EXCEPT !.pc = pc] \in HideStates
BY ZenonT(30) DEF HideStates

LEMMA LinkStep ==
  ASSUME NEW s \in LinkStates, NEW pc \in {"ok", "notfound", "forbidden", "err"}
  PROVE  [s EXCEPT !.pc = pc] \in LinkStates
BY ZenonT(30) DEF LinkStates

LEMMA ReaderStep ==
  ASSUME NEW s \in ReaderStates,
         NEW pc \in {"found", "open", "ok", "notfound", "forbidden", "err"}
  PROVE  [s EXCEPT !.pc = pc] \in ReaderStates
BY ZenonT(30) DEF ReaderStates

LEMMA ReaderFreed ==
  ASSUME NEW s \in ReaderStates
  PROVE  [s EXCEPT !.shut = FALSE] \in ReaderStates
BY ZenonT(30) DEF ReaderStates

LEMMA RowHidden ==
  ASSUME NEW r \in Rows
  PROVE  [r EXCEPT !.visibility = "hidden"] \in Rows
BY ZenonT(30) DEF Rows

LEMMA RowSet ==
  ASSUME NEW r \in Rows, NEW s \in Settings
  PROVE  [r EXCEPT !.permission = Setting[s]] \in Rows
<1>1. Setting[s] \in {"public-read", "private-read"}
  BY RequestsForm
<1> QED BY <1>1, ZenonT(30) DEF Rows

LEMMA RowUpserted ==
  ASSUME TypeOK, NEW u \in Uploads, up[u].pc = "commit"
  PROVE  Upserted(u) \in Rows
<1>0. row \in Rows \cup {NoRow} /\ up[u].body \in Bodies
  BY DEF TypeOK, UploadStates
<1>1. CASE row = NoRow
  BY <1>0, <1>1 DEF Upserted, Rows
<1>2. CASE row # NoRow
  <2>1. row \in Rows
    BY <1>0, <1>2
  <2>2. [row EXCEPT !.etag = up[u].body, !.visibility = "visible", !.by = u] \in Rows
    BY <1>0, <2>1, ZenonT(30) DEF Rows
  <2> QED BY <1>2, <2>2 DEF Upserted
<1> QED BY <1>1, <1>2

LEMMA TypeNext == TypeOK /\ [Next]_vars => TypeOK'
<1> SUFFICES ASSUME TypeOK, [Next]_vars PROVE TypeOK'
  OBVIOUS
<1> USE TimesForm, SentinelsForm DEF TypeOK
<1>0. ASSUME Fault PROVE faults' \in 0..MaxFaults
  BY <1>0 DEF Fault
<1>9. \A pc \in {"ok", "err"} : Over(pc) \in UploadStates
  BY DEF Over, UploadStates
<1>1. ASSUME NEW u \in Uploads, Put(u) PROVE TypeOK'
  <2>1. \A b \in Bodies : [pc |-> "commit", body |-> b] \in UploadStates
    BY DEF UploadStates
  <2>2. up' \in [Uploads -> UploadStates]
    BY <1>1, <1>9, <2>1 DEF Put
  <2>3. bytes' \in BOOLEAN /\ faults' \in 0..MaxFaults
    BY <1>1, <1>0 DEF Put
  <2> QED BY <1>1, <2>2, <2>3 DEF Put
<1>6. Reopened \in [Readers -> ReaderStates]
  BY ReaderFreed DEF Reopened
<1>2. ASSUME NEW u \in Uploads, Upsert(u) PROVE TypeOK'
  BY <1>2, <1>6, <1>9, RowUpserted DEF Upsert
<1>3. ASSUME NEW u \in Uploads, UpsertFails(u) PROVE TypeOK'
  BY <1>3, <1>0, <1>6, <1>9, RowUpserted DEF UpsertFails
<1>4. ASSUME NEW d \in Deletes, Find(d) PROVE TypeOK'
  BY <1>4 DEF Find
<1>5. ASSUME NEW d \in Deletes, DeleteFiles(d) PROVE TypeOK'
  BY <1>5 DEF DeleteFiles
<1>7. ASSUME NEW d \in Deletes, DeleteRow(d) PROVE TypeOK'
  BY <1>7, <1>6 DEF DeleteRow
<1>8. ASSUME NEW d \in Deletes, DeleteFails(d) PROVE TypeOK'
  BY <1>8, <1>6, <1>0 DEF DeleteFails
<1>11. ASSUME NEW h \in Hides, NEW pc \in {"event", "ok", "notfound", "err"}
       PROVE  [hid EXCEPT ![h].pc = pc] \in [Hides -> HideStates]
  BY HideStep
<1>12. ASSUME NEW h \in Hides, HideUpdate(h) PROVE TypeOK'
  <2>1. CASE row = NoRow
    BY <1>12, <2>1, <1>11 DEF HideUpdate
  <2>2. CASE row # NoRow
    <3>1. [pc |-> "event", id |-> row.id, by |-> row.by] \in HideStates
      BY <2>2 DEF HideStates, Rows
    <3> QED BY RowHidden, <1>12, <2>2, <3>1 DEF HideUpdate
  <2> QED BY <2>1, <2>2
<1>13. ASSUME NEW h \in Hides, HideUpdateFails(h) PROVE TypeOK'
  <2>1. hid' \in [Hides -> HideStates]
    BY <1>13, <1>11 DEF HideUpdateFails
  <2>2. row' \in Rows \cup {NoRow}
    BY <1>13, RowHidden DEF HideUpdateFails
  <2> QED BY <1>13, <1>0, <2>1, <2>2 DEF HideUpdateFails
<1>14. ASSUME NEW h \in Hides, HideEvent(h) PROVE TypeOK'
  BY <1>14, <1>11 DEF HideEvent
<1>15. ASSUME NEW h \in Hides, HideEventFails(h) PROVE TypeOK'
  BY <1>15, <1>11, <1>0 DEF HideEventFails
<1>16. ASSUME NEW s \in Settings, SetPermission(s) PROVE TypeOK'
  BY <1>16, RowSet DEF SetPermission
<1>17. ASSUME NEW s \in Settings, SetPermissionFails(s) PROVE TypeOK'
  <2>1. ASSUME row # NoRow PROVE [row EXCEPT !.permission = Setting[s]] \in Rows
    <3>1. row \in Rows
      BY <2>1
    <3> QED BY <3>1, RowSet
  <2>2. row' \in Rows \cup {NoRow}
    BY <1>17, <2>1 DEF SetPermissionFails
  <2>3. set' \in [Settings -> {"idle", "ok", "notfound", "err"}]
    BY <1>17 DEF SetPermissionFails
  <2> QED BY <1>17, <1>0, <2>2, <2>3 DEF SetPermissionFails
<1>18. ASSUME NEW c \in Links, NEW pc \in {"ok", "notfound", "forbidden", "err"}
       PROVE  [mk EXCEPT ![c].pc = pc] \in [Links -> LinkStates]
  BY LinkStep
<1>19. ASSUME NEW c \in Links, MakeLink(c) PROVE TypeOK'
  <2>1. [pc |-> "set", began |-> now, expires |-> now + TTL] \in LinkStates
    BY DEF LinkStates
  <2>2. mk' \in [Links -> LinkStates]
    BY LinkStep, <1>19, <2>1 DEF MakeLink
  <2> QED BY <1>19, <2>2 DEF MakeLink
<1>20. ASSUME NEW c \in Links, MakeLinkFails(c) PROVE TypeOK'
  BY <1>18, <1>20, <1>0 DEF MakeLinkFails
<1>21. ASSUME NEW c \in Links, StoreLink(c) PROVE TypeOK'
  <2>1. (IF redis THEN now + TTL ELSE mk[c].expires) \in Nat
    BY DEF LinkStates
  <2>2. Store \in Stores
    BY DEF Store, Stores
  <2>3. link' \in [Stores -> [Links -> Nat \cup {None}]]
    BY <1>21, <2>1, <2>2 DEF StoreLink
  <2> QED BY <1>18, <1>21, <2>3 DEF StoreLink
<1>33. ASSUME NEW c \in Links, StoreLinkAgain(c) PROVE TypeOK'
  <2>1. now + TTL \in Nat /\ "redis" \in Stores
    BY DEF Stores
  <2>2. link' \in [Stores -> [Links -> Nat \cup {None}]]
    BY <1>33, <2>1 DEF StoreLinkAgain
  <2> QED BY <1>0, <1>33, <2>2 DEF StoreLinkAgain
<1>22. ASSUME NEW c \in Links, StoreLinkFails(c) PROVE TypeOK'
  BY <1>18, <1>22, <1>0 DEF StoreLinkFails
<1>23. ASSUME NEW g \in Readers, NEW c \in Links \cup {None} PROVE Came(g, c) \in ReaderStates
  <2>1. Hidden \in BOOLEAN /\ now \in Nat
    BY DEF Hidden
  <2>2. rd[g] \in ReaderStates
    OBVIOUS
  <2> HIDE DEF TypeOK
  <2> QED BY <2>1, <2>2, ZenonT(30) DEF Came, ReaderStates
<1>24. ASSUME NEW g \in Readers, NEW c \in Links, LookUp(g, c) PROVE TypeOK'
  BY <1>23, <1>24, ReaderStep DEF LookUp
<1>25. ASSUME NEW g \in Readers,
              NEW pc \in {"open", "ok", "notfound", "forbidden", "err"}
       PROVE  [rd EXCEPT ![g].pc = pc] \in [Readers -> ReaderStates]
  BY ReaderStep
<1>26. ASSUME NEW g \in Readers, ReadShared(g) PROVE TypeOK'
  BY <1>25, <1>26 DEF ReadShared
<1>27. ASSUME NEW g \in Readers, ReadPublic(g) PROVE TypeOK'
  BY <1>23, <1>27, ReaderStep DEF ReadPublic
<1>28. ASSUME NEW g \in Readers, Open(g) PROVE TypeOK'
  BY <1>25, <1>28 DEF Open
<1>29. ASSUME NEW g \in Readers, ReaderFails(g) PROVE TypeOK'
  <2>1. /\ [rd EXCEPT ![g].pc = "err"] \in [Readers -> ReaderStates]
        /\ [rd EXCEPT ![g].pc = "notfound"] \in [Readers -> ReaderStates]
    BY <1>25
  <2>2. rd' \in [Readers -> ReaderStates]
    BY <1>29, <2>1, Zenon DEF ReaderFails
  <2> QED BY <1>29, <1>0, <2>2 DEF ReaderFails
<1>30. CASE Restart
  <2>1. hid' \in [Hides -> HideStates]
    BY <1>30, HideStep DEF Restart
  <2>2. mk' \in [Links -> LinkStates]
    BY <1>30, LinkStep DEF Restart
  <2>3. rd' \in [Readers -> ReaderStates]
    BY <1>30, ReaderStep DEF Restart
  <2>4. link' \in [Stores -> [Links -> Nat \cup {None}]]
    BY <1>30 DEF Restart, Stores
  <2>5. up' \in [Uploads -> UploadStates]
    BY <1>30, <1>9 DEF Restart
  <2> QED BY <1>30, <1>0, <2>1, <2>2, <2>3, <2>4, <2>5 DEF Restart
<1>31. CASE Tick
  BY <1>31 DEF Tick
<1>32. CASE UNCHANGED vars
  BY <1>32 DEF vars
<1> QED
  BY <1>1, <1>2, <1>3, <1>4, <1>5, <1>7, <1>8, <1>12, <1>13, <1>14, <1>15, <1>16,
     <1>17, <1>19, <1>20, <1>21, <1>22, <1>24, <1>26, <1>27, <1>28, <1>29, <1>30,
     <1>31, <1>32, <1>33
  DEF Next, Quiet

-----------------------------------------------------------------------------
(* What the actions leave of a request, a row, a reader *)
LEMMA HideMoves ==
  ASSUME TypeOK, NEW h \in Hides, NEW pc, hid' = [hid EXCEPT ![h].pc = pc]
  PROVE  \A k \in Hides : /\ hid'[k].id = hid[k].id
                          /\ hid'[k].by = hid[k].by
                          /\ hid'[k].pc = IF k = h THEN pc ELSE hid[k].pc
BY DEF TypeOK, HideStates

LEMMA ReaderReopened ==
  ASSUME TypeOK, rd' = Reopened
  PROVE  \A k \in Readers : /\ rd'[k].via = rd[k].via
                            /\ rd'[k].at = rd[k].at
                            /\ rd'[k].shut = FALSE
                            /\ rd'[k].pc = rd[k].pc
BY DEF TypeOK, ReaderStates, Reopened

LEMMA ReaderCame ==
  ASSUME TypeOK, NEW g \in Readers, NEW via, NEW pc,
         rd' = [rd EXCEPT ![g] = [Came(g, via) EXCEPT !.pc = pc]]
  PROVE  /\ rd'[g].via = via /\ rd'[g].at = now /\ rd'[g].shut = Hidden /\ rd'[g].pc = pc
         /\ \A k \in Readers : k # g => rd'[k] = rd[k]
BY DEF TypeOK, ReaderStates, Came

LEMMA RowMoves ==
  ASSUME TypeOK, row # NoRow
  PROVE  /\ \A v : /\ [row EXCEPT !.visibility = v].id = row.id
                   /\ [row EXCEPT !.visibility = v].by = row.by
                   /\ [row EXCEPT !.visibility = v].etag = row.etag
                   /\ [row EXCEPT !.visibility = v].permission = row.permission
                   /\ [row EXCEPT !.visibility = v].visibility = v
         /\ \A q : /\ [row EXCEPT !.permission = q].id = row.id
                   /\ [row EXCEPT !.permission = q].by = row.by
                   /\ [row EXCEPT !.permission = q].etag = row.etag
                   /\ [row EXCEPT !.permission = q].visibility = row.visibility
<1>1. row \in Rows
  BY DEF TypeOK
<1> QED BY <1>1 DEF Rows

LEMMA UpsertMoves ==
  ASSUME TypeOK, NEW u \in Uploads
  PROVE  /\ Upserted(u).by = u /\ Upserted(u).etag = up[u].body
         /\ Upserted(u).visibility = "visible"
         /\ Upserted(u).id = IF row = NoRow THEN u ELSE row.id
         /\ Upserted(u).permission = IF row = NoRow THEN "private-read" ELSE row.permission
<1>1. row \in Rows \cup {NoRow}
  BY DEF TypeOK
<1> QED BY <1>1 DEF Rows, Upserted

(* What each step does to the row, and to what hangs on it. *)
LEMMA RowEffect ==
  ASSUME [Next]_vars
  PROVE  \/ UNCHANGED row
         \/ row' = NoRow /\ events' = {} /\ rd' = Reopened /\ UNCHANGED <<up, hid>>
         \/ /\ row # NoRow /\ row' = [row EXCEPT !.visibility = "hidden"]
            /\ UNCHANGED <<up, events, rd>>
         \/ \E s \in Settings : /\ row # NoRow /\ row' = [row EXCEPT !.permission = Setting[s]]
                                /\ UNCHANGED <<up, hid, events, rd>>
         \/ \E u \in Uploads : /\ up[u].pc = "commit" /\ row' = Upserted(u) /\ rd' = Reopened
                               /\ \E pc \in Ended : up' = [up EXCEPT ![u] = Over(pc)]
                               /\ UNCHANGED <<hid, events>>
BY DEF Next, vars, Put, Upsert, UpsertFails, Find, DeleteFiles, DeleteRow, DeleteFails,
       HideUpdate, HideUpdateFails, HideEvent, HideEventFails, SetPermission,
       SetPermissionFails, MakeLink, MakeLinkFails, StoreLink, StoreLinkAgain, StoreLinkFails, LookUp,
       ReadShared, ReadPublic, Open, ReaderFails, Restart, Tick, Quiet, Ended

LEMMA UploadEffect ==
  ASSUME [Next]_vars, TypeOK, NEW w \in Uploads, up[w].pc \in Ended
  PROVE  up'[w].pc \in Ended
<1> USE DEF TypeOK, Ended
<1>1. ASSUME NEW u \in Uploads, Put(u) \/ Upsert(u) \/ UpsertFails(u) PROVE up'[w].pc \in Ended
  BY <1>1 DEF Put, Upsert, UpsertFails, Over, UploadStates
<1>2. CASE Restart
  BY <1>2 DEF Restart
<1>3. CASE UNCHANGED up
  BY <1>3
<1> QED BY <1>1, <1>2, <1>3
  DEF Next, vars, Find, DeleteFiles, DeleteRow, DeleteFails,
      HideUpdate, HideUpdateFails, HideEvent, HideEventFails, SetPermission,
      SetPermissionFails, MakeLink, MakeLinkFails, StoreLink, StoreLinkAgain, StoreLinkFails, LookUp,
      ReadShared, ReadPublic, Open, ReaderFails, Tick, Quiet

(* ... and to a hide. *)
LEMMA HideEffect ==
  ASSUME [Next]_vars
  PROVE  \/ UNCHANGED hid /\ (UNCHANGED events \/ (row' = NoRow /\ events' = {}))
         \/ \E h \in Hides :
              /\ hid[h].pc = "idle" /\ row # NoRow
              /\ row' = [row EXCEPT !.visibility = "hidden"]
              /\ hid' = [hid EXCEPT ![h] = [pc |-> "event", id |-> row.id, by |-> row.by]]
              /\ UNCHANGED events
         \/ \E h \in Hides :
              /\ hid[h].pc = "event" /\ row # NoRow /\ row.id = hid[h].id
              /\ events' = events \cup {h} /\ hid' = [hid EXCEPT ![h].pc = "ok"]
              /\ UNCHANGED row
         \/ \E h \in Hides, pc \in {"notfound", "err"} :
              /\ hid[h].pc \in {"idle", "event"} /\ hid' = [hid EXCEPT ![h].pc = pc]
              /\ UNCHANGED events
         \/ /\ hid' = [h \in Hides |-> IF hid[h].pc = "event"
                                       THEN [hid[h] EXCEPT !.pc = "err"] ELSE hid[h]]
            /\ UNCHANGED <<row, events>>
<1>1. ASSUME NEW h \in Hides, HideEvent(h)
      PROVE  \/ /\ hid[h].pc = "event" /\ row # NoRow /\ row.id = hid[h].id
                /\ events' = events \cup {h} /\ hid' = [hid EXCEPT ![h].pc = "ok"]
                /\ UNCHANGED row
             \/ /\ hid[h].pc = "event" /\ hid' = [hid EXCEPT ![h].pc = "err"]
                /\ UNCHANGED events
  BY <1>1 DEF HideEvent
<1>2. ASSUME NEW h \in Hides, HideUpdate(h)
      PROVE  \/ hid[h].pc = "idle" /\ hid' = [hid EXCEPT ![h].pc = "notfound"] /\ UNCHANGED events
             \/ /\ hid[h].pc = "idle" /\ row # NoRow
                /\ row' = [row EXCEPT !.visibility = "hidden"]
                /\ hid' = [hid EXCEPT ![h] = [pc |-> "event", id |-> row.id, by |-> row.by]]
                /\ UNCHANGED events
  BY <1>2 DEF HideUpdate
<1>3. ASSUME NEW h \in Hides, HideUpdateFails(h) \/ HideEventFails(h)
      PROVE  /\ hid[h].pc \in {"idle", "event"} /\ hid' = [hid EXCEPT ![h].pc = "err"]
             /\ UNCHANGED events
  BY <1>3 DEF HideUpdateFails, HideEventFails
<1>4. CASE Restart
  BY <1>4 DEF Restart
<1>5. ASSUME NEW d \in Deletes, DeleteRow(d) \/ DeleteFails(d)
      PROVE  UNCHANGED hid /\ (UNCHANGED events \/ (row' = NoRow /\ events' = {}))
  BY <1>5 DEF DeleteRow, DeleteFails
<1>6. CASE UNCHANGED <<hid, events>>
  BY <1>6
<1> QED BY <1>1, <1>2, <1>3, <1>4, <1>5, <1>6
  DEF Next, vars, Put, Upsert, UpsertFails, Find, DeleteFiles,
      SetPermission, SetPermissionFails, MakeLink, MakeLinkFails, StoreLink, StoreLinkAgain, StoreLinkFails,
      LookUp, ReadShared, ReadPublic, Open, ReaderFails, Tick, Quiet

-----------------------------------------------------------------------------
(* Uploads that are over stay over, and a row is only written by one that  *)
(* was not.                                                                *)
LEMMA UploadNext == AccessInv /\ [Next]_vars => UploadIsOver'
<1> SUFFICES ASSUME TypeOK, UploadIsOver, [Next]_vars PROVE UploadIsOver'
  BY DEF AccessInv, Parts
<1> DEFINE Done(u) == u \in Uploads /\ up[u].pc \in Ended
<1> DEFINE Still(u) == u \in Uploads /\ up'[u].pc \in Ended
<1>0. \A u : Done(u) => Still(u)
  BY UploadEffect
<1>1. row # NoRow => Done(row.id) /\ Done(row.by)
  BY DEF UploadIsOver, TypeOK, Rows
<1>2. row' # NoRow => Still(row'.id) /\ Still(row'.by)
  <2>1. CASE UNCHANGED row
    BY <1>0, <1>1, <2>1
  <2>2. ASSUME row # NoRow, row'.id = row.id, row'.by = row.by
        PROVE  Still(row'.id) /\ Still(row'.by)
    BY <1>0, <1>1, <2>2
  <2>3. ASSUME NEW u \in Uploads, up[u].pc = "commit", row' = Upserted(u),
               \E pc \in Ended : up' = [up EXCEPT ![u] = Over(pc)]
        PROVE  Still(row'.id) /\ Still(row'.by)
    <3>1. Still(u)
      BY <2>3 DEF TypeOK, Over
    <3>2. row'.by = u /\ row'.id = IF row = NoRow THEN u ELSE row.id
      BY <2>3, UpsertMoves
    <3> QED BY <1>0, <1>1, <3>1, <3>2
  <2>4. ASSUME NEW s \in Settings, row # NoRow, row' = [row EXCEPT !.permission = Setting[s]]
        PROVE  Still(row'.id) /\ Still(row'.by)
    BY <2>2, <2>4, RowMoves
  <2>5. ASSUME row # NoRow, row' = [row EXCEPT !.visibility = "hidden"]
        PROVE  Still(row'.id) /\ Still(row'.by)
    BY <2>2, <2>5, RowMoves
  <2> HIDE DEF Done, Still
  <2> QED BY <2>1, <2>3, <2>4, <2>5, RowEffect
<1>3. ASSUME NEW h \in Hides, hid'[h].id # None
      PROVE  Still(hid'[h].id) /\ Still(hid'[h].by)
  <2>1. ASSUME hid'[h].id = hid[h].id, hid'[h].by = hid[h].by
        PROVE  Still(hid'[h].id) /\ Still(hid'[h].by)
    BY <1>0, <1>3, <2>1 DEF UploadIsOver
  <2>2. ASSUME row # NoRow, hid'[h].id = row.id, hid'[h].by = row.by
        PROVE  Still(hid'[h].id) /\ Still(hid'[h].by)
    BY <1>0, <1>1, <2>2
  <2>3. \/ hid'[h].id = hid[h].id /\ hid'[h].by = hid[h].by
        \/ row # NoRow /\ hid'[h].id = row.id /\ hid'[h].by = row.by
    BY HideEffect, HideMoves DEF TypeOK, HideStates
  <2> QED BY <2>1, <2>2, <2>3
<1> QED BY <1>2, <1>3 DEF UploadIsOver

-----------------------------------------------------------------------------
(* The row after a step, if there is one, is the row before it, hidden or  *)
(* with another permission, or it names an upload that was not over.       *)
LEMMA RowAfter ==
  ASSUME TypeOK, [Next]_vars, row' # NoRow
  PROVE  \/ /\ row # NoRow /\ row'.id = row.id /\ row'.by = row.by
            /\ row'.etag = row.etag /\ row'.visibility \in {row.visibility, "hidden"}
         \/ \E u \in Uploads : /\ up[u].pc = "commit" /\ row'.by = u /\ UNCHANGED hid
                               /\ row'.etag = up[u].body /\ row'.visibility = "visible"
                               /\ row'.id = IF row = NoRow THEN u ELSE row.id
                               /\ row'.permission = IF row = NoRow THEN "private-read"
                                                    ELSE row.permission
<1>1. ASSUME NEW u \in Uploads, row' = Upserted(u)
      PROVE  /\ row'.by = u /\ row'.id = IF row = NoRow THEN u ELSE row.id
             /\ row'.etag = up[u].body /\ row'.visibility = "visible"
             /\ row'.permission = IF row = NoRow THEN "private-read" ELSE row.permission
  BY <1>1, UpsertMoves
<1>2. ASSUME NEW s \in Settings, row # NoRow, row' = [row EXCEPT !.permission = Setting[s]]
      PROVE  /\ row'.id = row.id /\ row'.by = row.by
             /\ row'.etag = row.etag /\ row'.visibility = row.visibility
  BY <1>2, RowMoves
<1>3. ASSUME row # NoRow, row' = [row EXCEPT !.visibility = "hidden"]
      PROVE  /\ row'.id = row.id /\ row'.by = row.by
             /\ row'.etag = row.etag /\ row'.visibility = "hidden"
  BY <1>3, RowMoves
<1> QED BY <1>1, <1>2, <1>3, RowEffect

(* The hide of h after a step. *)
LEMMA HideAfter ==
  ASSUME TypeOK, [Next]_vars, NEW h \in Hides, hid'[h].pc \in {"event", "ok"}
  PROVE  \/ /\ hid'[h].pc = "event" /\ hid[h].pc = "idle"
            /\ row # NoRow /\ hid'[h].id = row.id /\ hid'[h].by = row.by
            /\ row' = [row EXCEPT !.visibility = "hidden"] /\ UNCHANGED events
         \/ /\ hid[h].pc \in {"event", "ok"}
            /\ hid'[h].id = hid[h].id /\ hid'[h].by = hid[h].by
            /\ \/ hid'[h].pc = hid[h].pc
               \/ /\ hid'[h].pc = "ok" /\ events' = events \cup {h}
                  /\ UNCHANGED row
<1> USE DEF TypeOK, HideStates
<1>1. ASSUME NEW k \in Hides, row # NoRow, hid[k].pc = "idle",
             row' = [row EXCEPT !.visibility = "hidden"], UNCHANGED events,
             hid' = [hid EXCEPT ![k] = [pc |-> "event", id |-> row.id, by |-> row.by]]
      PROVE  \/ /\ hid'[h].pc = "event" /\ hid[h].pc = "idle"
                /\ hid'[h].id = row.id /\ hid'[h].by = row.by
             \/ hid'[h] = hid[h]
  BY <1>1
<1>2. ASSUME hid' = [k \in Hides |-> IF hid[k].pc = "event"
                                     THEN [hid[k] EXCEPT !.pc = "err"] ELSE hid[k]]
      PROVE  hid'[h] = hid[h]
  BY <1>2
<1>3. ASSUME NEW k \in Hides, NEW pc, hid' = [hid EXCEPT ![k].pc = pc]
      PROVE  /\ hid'[h].id = hid[h].id /\ hid'[h].by = hid[h].by
             /\ hid'[h].pc = IF h = k THEN pc ELSE hid[h].pc
  BY <1>3, HideMoves
<1> HIDE DEF TypeOK, HideStates
<1> QED BY <1>1, <1>2, <1>3, HideEffect

LEMMA HideNext == AccessInv /\ [Next]_vars => HideHolds' /\ HideIsRecorded'
<1> SUFFICES ASSUME TypeOK, UploadIsOver, HideHolds, HideIsRecorded, [Next]_vars
             PROVE  HideHolds' /\ HideIsRecorded'
  BY DEF AccessInv, Parts
<1> USE DEF HideHolds, HideIsRecorded, Hidden
<1>1. ASSUME NEW h \in Hides, hid'[h].pc \in {"event", "ok"}
      PROVE  hid'[h].id # None
  <2>1. row # NoRow => row.id # None
    BY SentinelsForm DEF TypeOK, Rows
  <2> QED BY <1>1, <2>1, HideAfter
<1>2. ASSUME NEW h \in Hides, hid'[h].pc \in {"event", "ok"}, row' # NoRow,
             row'.id = hid'[h].id, row'.by = hid'[h].by
      PROVE  row'.visibility = "hidden"
  <2>1. ASSUME NEW u \in Uploads, up[u].pc = "commit", row'.by = u, UNCHANGED hid
        PROVE  FALSE
    BY <1>1, <1>2, <2>1 DEF UploadIsOver, Ended
  <2>2. CASE row # NoRow /\ row' = [row EXCEPT !.visibility = "hidden"]
    BY <2>2, RowMoves
  <2> QED BY <1>2, <2>1, <2>2, RowAfter, HideAfter
<1>3. ASSUME NEW h \in Hides, hid'[h].pc = "ok", row' # NoRow, row'.id = hid'[h].id
      PROVE  h \in events'
  <2>1. row # NoRow /\ row'.id = row.id
    <3>1. ASSUME NEW u \in Uploads, up[u].pc = "commit", row'.id = u, UNCHANGED hid
          PROVE  FALSE
      BY <1>1, <1>3, <3>1 DEF UploadIsOver, Ended
    <3> QED BY <3>1, RowAfter, <1>3
  <2>2. events \subseteq events'
    BY <1>3, HideEffect
  <2> QED BY <1>3, <2>1, <2>2, HideAfter
<1>4. ASSUME NEW h \in events' PROVE /\ h \in Hides /\ hid'[h].pc = "ok" /\ row' # NoRow
                                     /\ row'.id = hid'[h].id
  <2>1. ASSUME h \in events
        PROVE  h \in Hides /\ hid'[h].pc = "ok" /\ hid'[h].id = hid[h].id
    <3>1. h \in Hides /\ hid[h].pc = "ok"
      BY <2>1 DEF TypeOK
    <3> QED BY <3>1, HideEffect, HideMoves DEF TypeOK, HideStates
  <2>2. ASSUME NEW k \in Hides, row # NoRow, row.id = hid[k].id,
               hid' = [hid EXCEPT ![k].pc = "ok"]
        PROVE  hid'[k].pc = "ok" /\ row.id = hid'[k].id
    BY <2>2 DEF TypeOK, HideStates
  <2>3. ASSUME h \in events PROVE row' # NoRow /\ row'.id = row.id
    <3>1. row # NoRow
      BY <2>3
    <3>2. row' # NoRow
      <4>1. row \in Rows
        BY <3>1 DEF TypeOK
      <4>2. /\ [row EXCEPT !.visibility = "hidden"] # NoRow
            /\ \A s \in Settings : [row EXCEPT !.permission = Setting[s]] # NoRow
            /\ \A u \in Uploads : up[u].pc = "commit" => Upserted(u) # NoRow
        BY <4>1, NoRowForm, RowHidden, RowSet, RowUpserted
      <4>3. row' = NoRow => UNCHANGED row \/ events' = {}
        BY <4>2, RowEffect
      <4> QED BY <3>1, <4>3
    <3> QED BY <3>1, <3>2, RowAfter
  <2> QED BY <2>1, <2>2, <2>3, HideEffect
<1> QED BY <1>1, <1>2, <1>3, <1>4

-----------------------------------------------------------------------------
(* What each step does to a reader and to a link. *)
LEMMA ReaderAfter ==
  ASSUME TypeOK, [Next]_vars, NEW g \in Readers
  PROVE  \/ rd'[g] = rd[g] /\ UNCHANGED rd
         \/ /\ rd'[g].pc = rd[g].pc /\ rd'[g].shut = FALSE
            /\ rd'[g].via = rd[g].via /\ rd'[g].at = rd[g].at
         \/ /\ rd'[g].via = None /\ rd'[g].at = now /\ rd'[g].shut = Hidden
            /\ rd'[g].pc = "open" => ~Hidden
            /\ rd'[g].pc \in {"open", "notfound", "forbidden"} /\ UNCHANGED <<row, mk>>
         \/ \E c \in Links :
              /\ rd'[g].via = c /\ rd'[g].at = now /\ rd'[g].shut = Hidden
              /\ rd'[g].pc = "found" => Stored(c)
              /\ rd'[g].pc \in {"found", "notfound"} /\ UNCHANGED <<row, mk>>
         \/ /\ rd'[g].shut = rd[g].shut /\ rd'[g].via = rd[g].via /\ rd'[g].at = rd[g].at
            /\ \/ rd[g].pc = "found" /\ rd'[g].pc = "open" /\ ~Hidden
               \/ rd[g].pc = "open" /\ rd'[g].pc = "ok"
               \/ rd'[g].pc \in {"notfound", "forbidden", "err"}
               \/ rd'[g].pc = rd[g].pc
            /\ UNCHANGED row
<1> USE DEF TypeOK, ReaderStates
<1>1. ASSUME NEW k \in Readers, ReadShared(k) \/ Open(k) \/ ReaderFails(k)
      PROVE  /\ rd'[g].shut = rd[g].shut /\ rd'[g].via = rd[g].via /\ rd'[g].at = rd[g].at
             /\ \/ rd[g].pc = "found" /\ rd'[g].pc = "open" /\ ~Hidden
                \/ rd[g].pc = "open" /\ rd'[g].pc = "ok"
                \/ rd'[g].pc \in {"notfound", "forbidden", "err"}
                \/ rd'[g].pc = rd[g].pc
             /\ UNCHANGED row
  BY <1>1 DEF ReadShared, Open, ReaderFails
<1>2. ASSUME NEW k \in Readers, NEW c \in Links, LookUp(k, c)
      PROVE  \/ /\ rd'[g].via = c /\ rd'[g].at = now /\ rd'[g].shut = Hidden
                /\ rd'[g].pc = "found" => Stored(c)
                /\ rd'[g].pc \in {"found", "notfound"} /\ UNCHANGED <<row, mk>>
             \/ rd'[g] = rd[g] /\ UNCHANGED row
  <2>1. PICK pc \in {"found", "notfound"} :
          /\ rd' = [rd EXCEPT ![k] = [Came(k, c) EXCEPT !.pc = pc]]
          /\ pc = "found" => Stored(c)
          /\ UNCHANGED <<row, mk>>
    BY <1>2 DEF LookUp
  <2> QED BY <2>1, ReaderCame
<1>3. ASSUME NEW k \in Readers, ReadPublic(k)
      PROVE  \/ /\ rd'[g].via = None /\ rd'[g].at = now /\ rd'[g].shut = Hidden
                /\ rd'[g].pc = "open" => ~Hidden
                /\ rd'[g].pc \in {"open", "notfound", "forbidden"} /\ UNCHANGED <<row, mk>>
             \/ rd'[g] = rd[g] /\ UNCHANGED row
  <2>1. PICK pc \in {"open", "notfound", "forbidden"} :
          /\ rd' = [rd EXCEPT ![k] = [Came(k, None) EXCEPT !.pc = pc]]
          /\ pc = "open" => ~Hidden
          /\ UNCHANGED <<row, mk>>
    BY <1>3 DEF ReadPublic
  <2>2. /\ rd'[k].via = None /\ rd'[k].at = now /\ rd'[k].shut = Hidden /\ rd'[k].pc = pc
        /\ g # k => rd'[g] = rd[g]
    BY <2>1, ReaderCame
  <2> QED BY <2>1, <2>2
<1>4. CASE Restart
  BY <1>4 DEF Restart
<1>5. ASSUME rd' = Reopened
      PROVE  /\ rd'[g].pc = rd[g].pc /\ rd'[g].shut = FALSE
             /\ rd'[g].via = rd[g].via /\ rd'[g].at = rd[g].at
  BY <1>5, ReaderReopened
<1> HIDE DEF TypeOK, ReaderStates
<1>6. \/ \E k \in Readers : \/ ReadShared(k) \/ Open(k) \/ ReaderFails(k) \/ ReadPublic(k)
                            \/ \E c \in Links : LookUp(k, c)
      \/ Restart \/ rd' = Reopened \/ UNCHANGED rd
  BY DEF Next, vars, Put, Upsert, UpsertFails, Find, DeleteFiles, DeleteRow, DeleteFails,
         HideUpdate, HideUpdateFails, HideEvent, HideEventFails, SetPermission,
         SetPermissionFails, MakeLink, MakeLinkFails, StoreLink, StoreLinkAgain, StoreLinkFails, Tick, Quiet
<1> QED BY <1>1, <1>2, <1>3, <1>4, <1>5, <1>6

LEMMA LinkAfter ==
  ASSUME TypeOK, [Next]_vars, NEW c \in Links, NEW s \in Stores
  PROVE  \/ mk'[c] = mk[c] /\ link'[s][c] \in {link[s][c], None}
         \/ /\ mk[c].pc = "idle" /\ mk'[c].pc = "set" /\ link'[s][c] = link[s][c]
            /\ mk'[c].expires = mk'[c].began + TTL
         \/ /\ mk[c].pc = "idle" /\ mk'[c].pc \in {"notfound", "forbidden", "err"}
            /\ link'[s][c] \in {link[s][c], None}
         \/ /\ mk[c].pc = "set" /\ mk'[c].pc \in Made
            /\ mk'[c].expires = mk[c].expires /\ mk'[c].began = mk[c].began
            /\ \/ link'[s][c] \in {link[s][c], None}
               \/ link'[s][c] = mk[c].expires
               \/ s = "redis" /\ link'[s][c] = now + TTL /\ now <= mk[c].began + Deadline
<1> USE DEF TypeOK, LinkStates
<1>1. ASSUME NEW k \in Links, MakeLink(k)
      PROVE  \/ mk'[c] = mk[c] /\ link'[s][c] = link[s][c]
             \/ /\ mk[c].pc = "idle" /\ mk'[c].pc = "set" /\ link'[s][c] = link[s][c]
                /\ mk'[c].expires = mk'[c].began + TTL
             \/ /\ mk[c].pc = "idle" /\ mk'[c].pc \in {"notfound", "forbidden"}
                /\ link'[s][c] = link[s][c]
  BY <1>1 DEF MakeLink
<1>2. ASSUME NEW k \in Links, MakeLinkFails(k)
      PROVE  \/ mk'[c] = mk[c] /\ link'[s][c] = link[s][c]
             \/ mk[c].pc = "idle" /\ mk'[c].pc = "err" /\ link'[s][c] = link[s][c]
  BY <1>2 DEF MakeLinkFails
<1>3. ASSUME NEW k \in Links, StoreLink(k) \/ StoreLinkAgain(k)
      PROVE  \/ mk'[c] = mk[c] /\ link'[s][c] = link[s][c]
             \/ /\ mk[c].pc = "set" /\ mk'[c].pc \in Made
                /\ mk'[c].expires = mk[c].expires /\ mk'[c].began = mk[c].began
                /\ \/ link'[s][c] = mk[c].expires
                   \/ s = "redis" /\ link'[s][c] = now + TTL /\ now <= mk[c].began + Deadline
                   \/ link'[s][c] = link[s][c]
  <2>1. link \in [Stores -> [Links -> Nat \cup {None}]] /\ Store \in Stores
    BY DEF Store, Stores
  <2>2. PICK end \in {now + TTL, mk[k].expires} :
          /\ link' = [link EXCEPT ![Store][k] = end]
          /\ end = mk[k].expires \/ (Store = "redis" /\ now <= mk[k].began + Deadline)
    BY <1>3 DEF StoreLink, StoreLinkAgain, Store
  <2>3. /\ link'[s][c] = IF s = Store /\ k = c THEN end ELSE link[s][c]
    BY <2>1, <2>2
  <2>4. CASE k = c
    <3>1. /\ mk[c].pc = "set" /\ mk'[c].pc \in Made
          /\ mk'[c].expires = mk[c].expires /\ mk'[c].began = mk[c].began
      BY <1>3, <2>4 DEF StoreLink, StoreLinkAgain, Made
    <3> QED BY <2>2, <2>3, <2>4, <3>1
  <2>5. CASE k # c
    BY <1>3, <2>3, <2>5 DEF StoreLink, StoreLinkAgain
  <2> QED BY <2>4, <2>5
<1>4. ASSUME NEW k \in Links, StoreLinkFails(k)
      PROVE  \/ mk'[c] = mk[c] /\ link'[s][c] = link[s][c]
             \/ /\ mk[c].pc = "set" /\ mk'[c].pc \in Made
                /\ mk'[c].expires = mk[c].expires /\ mk'[c].began = mk[c].began
                /\ link'[s][c] = link[s][c]
  BY <1>4 DEF StoreLinkFails, Made
<1>5. CASE Restart
  BY <1>5 DEF Restart, Stores, Made
<1>6. CASE UNCHANGED <<mk, link>>
  BY <1>6
<1> HIDE DEF TypeOK, LinkStates
<1>7. \/ \E k \in Links : \/ MakeLink(k) \/ MakeLinkFails(k) \/ StoreLink(k)
                          \/ StoreLinkAgain(k) \/ StoreLinkFails(k)
      \/ Restart \/ UNCHANGED <<mk, link>>
  BY DEF Next, vars, Put, Upsert, UpsertFails, Find, DeleteFiles, DeleteRow, DeleteFails,
         HideUpdate, HideUpdateFails, HideEvent, HideEventFails, SetPermission,
         SetPermissionFails, LookUp, ReadShared, ReadPublic, Open, ReaderFails, Tick, Quiet
<1> QED BY <1>1, <1>2, <1>3, <1>4, <1>5, <1>6, <1>7

LEMMA ReaderNext == AccessInv /\ [Next]_vars => ShutIsHidden'
<1> SUFFICES ASSUME TypeOK, ShutIsHidden, [Next]_vars, NEW g \in Readers
             PROVE  /\ rd'[g].pc = "found" /\ rd'[g].shut => Hidden'
                    /\ rd'[g].pc \in {"open", "ok"} => ~rd'[g].shut
  BY DEF AccessInv, Parts, ShutIsHidden
<1>1. /\ rd[g].pc = "found" /\ rd[g].shut => Hidden
      /\ rd[g].pc \in {"open", "ok"} => ~rd[g].shut
  BY DEF ShutIsHidden
<1>2. Hidden' \/ ~Hidden \/ rd'[g].shut = FALSE
  <2> SUFFICES ASSUME Hidden, ~Hidden' PROVE rd'[g].shut = FALSE
    OBVIOUS
  <2>1. row \in Rows
    BY DEF Hidden, TypeOK
  <2>2. \A s \in Settings : [row EXCEPT !.permission = Setting[s]] # NoRow
    BY <2>1, NoRowForm, RowSet
  <2>3. [row EXCEPT !.visibility = "hidden"] # NoRow
    BY <2>1, NoRowForm, RowHidden
  <2>4. ASSUME NEW s \in Settings, row' = [row EXCEPT !.permission = Setting[s]] PROVE FALSE
    <3>1. row' # NoRow
      BY <2>2, <2>4
    <3>2. row'.visibility = row.visibility
      BY <2>1, <2>4 DEF Rows
    <3> QED BY <3>1, <3>2 DEF Hidden
  <2>5. row' # [row EXCEPT !.visibility = "hidden"]
    BY <2>1, <2>3, RowMoves DEF Hidden
  <2>6. rd' = Reopened
    BY <2>4, <2>5, RowEffect DEF Hidden
  <2> QED BY <2>6, ReaderReopened
<1>3. CASE UNCHANGED rd
  BY <1>1, <1>2, <1>3
<1>4. UNCHANGED row => Hidden' = Hidden
  BY DEF Hidden
<1> QED BY <1>1, <1>2, <1>3, <1>4, ReaderAfter

LEMMA LinkNext == AccessInv /\ [Next]_vars => LinkEnds'
<1> SUFFICES ASSUME TypeOK, LinkEnds, [Next]_vars, NEW c \in Links, NEW s \in Stores
             PROVE  /\ mk'[c].pc = "set" => mk'[c].expires = mk'[c].began + TTL
                    /\ link'[s][c] # None =>
                         mk'[c].pc \in Made /\ link'[s][c] <= Latest(s, mk'[c].expires)
  <2>1. "redis" \in Stores
    BY DEF Stores
  <2> QED BY <2>1 DEF AccessInv, Parts, LinkEnds
<1>1. /\ mk[c].pc = "set" => mk[c].expires = mk[c].began + TTL
      /\ link[s][c] # None => mk[c].pc \in Made /\ link[s][c] <= Latest(s, mk[c].expires)
  BY DEF LinkEnds
<1>2. mk[c].expires \in Nat /\ mk[c].began \in Nat /\ now \in Nat /\ TTL \in Nat /\ Deadline \in Nat
  BY TimesForm DEF TypeOK, LinkStates
<1>3. link[s][c] \in Nat \cup {None}
  BY DEF TypeOK
<1> QED BY <1>1, <1>2, <1>3, LinkAfter DEF Made, Latest

LEMMA ReadInTimeNext == AccessInv /\ TypeOK' /\ [Next]_vars => ReadInTime'
<1> SUFFICES ASSUME TypeOK, TypeOK', LinkEnds, ReadInTime, [Next]_vars, NEW g \in Readers,
                    rd'[g].pc \in {"found", "open", "ok"}, rd'[g].via # None
             PROVE  /\ rd'[g].via \in Links /\ mk'[rd'[g].via].pc \in Made
                    /\ InTime(rd'[g].at, mk'[rd'[g].via].expires)
  BY DEF AccessInv, Parts, ReadInTime
<1>1. ASSUME NEW c \in Links, mk[c].pc \in Made
      PROVE  mk'[c].pc \in Made /\ mk'[c].expires = mk[c].expires
  <2>1. "redis" \in Stores
    BY DEF Stores
  <2> QED BY <1>1, <2>1, LinkAfter DEF Made
<1>2. ASSUME rd[g].pc \in {"found", "open", "ok"}, rd'[g].via = rd[g].via, rd'[g].at = rd[g].at
      PROVE  /\ rd'[g].via \in Links /\ mk'[rd'[g].via].pc \in Made
             /\ InTime(rd'[g].at, mk'[rd'[g].via].expires)
  BY <1>1, <1>2 DEF ReadInTime
<1>3. ASSUME NEW c \in Links, rd'[g].via = c, rd'[g].at = now, Stored(c), UNCHANGED mk
      PROVE  /\ rd'[g].via \in Links /\ mk'[rd'[g].via].pc \in Made
             /\ InTime(rd'[g].at, mk'[rd'[g].via].expires)
  <2>1. Store \in Stores
    BY DEF Store, Stores
  <2>2. link[Store][c] # None
    BY <1>3 DEF Stored
  <2>3. /\ link[Store][c] \in Nat /\ now \in Nat /\ mk[c].expires \in Nat
        /\ Deadline \in Nat
    BY <1>3, <2>1, <2>2, TimesForm DEF TypeOK, LinkStates
  <2>4. IF redis THEN now < link[Store][c] ELSE now <= link[Store][c]
    BY <1>3 DEF Stored
  <2>5. mk[c].pc \in Made /\ link[Store][c] <= Latest(Store, mk[c].expires)
    BY <2>1, <2>2 DEF LinkEnds
  <2>6. InTime(now, mk[c].expires)
    BY <2>3, <2>4, <2>5 DEF InTime, Latest, Store
  <2> QED BY <1>3, <2>5, <2>6
<1> QED BY <1>2, <1>3, ReaderAfter

-----------------------------------------------------------------------------
LEMMA InvNext == AccessInv /\ [Next]_vars => AccessInv'
<1> SUFFICES ASSUME AccessInv, [Next]_vars PROVE AccessInv'
  OBVIOUS
<1>1. TypeOK'
  BY TypeNext DEF AccessInv
<1> QED BY <1>1, UploadNext, HideNext, ReaderNext, LinkNext, ReadInTimeNext DEF AccessInv, Parts

LEMMA InvHolds == Spec => []AccessInv
BY InitInv, InvNext, PTL DEF Spec

(* Every variable keeps its type. *)
THEOREM TypeCorrect == Spec => []TypeOK
<1>1. AccessInv => TypeOK
  BY DEF AccessInv
<1> QED BY <1>1, InvHolds, PTL

(* An acknowledged hide is in force and recorded until another upload is   *)
(* recorded, of the same bytes or not, whatever runs between               *)
(* HideByOwnerAndKey's two statements.                                     *)
THEOREM HideStands == Spec => []HideIsRecorded
<1>1. AccessInv => HideIsRecorded
  BY DEF AccessInv, Parts
<1> QED BY <1>1, InvHolds, PTL

(* A reader that came when the object was hidden is not served, for any    *)
(* number of readers, hides and links (DownloadPublic,                     *)
(* DownloadByShareToken).                                                  *)
THEOREM HiddenStaysUnserved == Spec => []HiddenIsNotServed
<1>1. AccessInv => HiddenIsNotServed
  BY DEF AccessInv, Parts, ShutIsHidden, HiddenIsNotServed
<1> QED BY <1>1, InvHolds, PTL

(* A link ends, in Redis or in the map of the process, for any lifetime    *)
(* and any delay of SET (CreateTemporaryShareLink).                        *)
THEOREM LinkEndsInTime == Spec => []LinkExpires
<1>1. AccessInv => LinkExpires
  BY DEF AccessInv, Parts, ReadInTime, InTime, LinkExpires
<1> QED BY <1>1, InvHolds, PTL

(* What a row may become: the statements of Postgres, in any order, show a *)
(* hidden object only for another upload, whether or not it brings the     *)
(* same bytes, and keep its id and permission.                             *)
THEOREM RowOnlyEvolves == Spec => RowEvolves
<1> DEFINE Evolves ==
      /\ row # NoRow /\ row' # NoRow =>
           /\ row'.id = row.id
           /\ Hidden /\ row'.visibility = "visible" => row'.by # row.by
           /\ row'.etag # row.etag => row'.by # row.by
           /\ row'.by # row.by => row'.permission = row.permission
      /\ row' # NoRow /\ (row = NoRow \/ row'.by # row.by) =>
           /\ up[row'.by].pc = "commit" /\ row'.etag = up[row'.by].body
           /\ row'.visibility = "visible"
      /\ row = NoRow /\ row' # NoRow => row'.permission = "private-read"
<1>1. AccessInv /\ [Next]_vars => [Evolves]_vars
  <2> SUFFICES ASSUME TypeOK, UploadIsOver, [Next]_vars PROVE Evolves
    BY DEF AccessInv, Parts
  <2> USE DEF Hidden
  <2>1. CASE row = NoRow
    BY <2>1, RowAfter
  <2>2. CASE row # NoRow
    <3>1. up[row.by].pc # "commit"
      BY <2>2 DEF UploadIsOver, Ended
    <3> QED BY <2>2, <3>1, RowAfter
  <2> QED BY <2>1, <2>2
<1> HIDE DEF Evolves
<1>2. Spec => [][Evolves]_vars
  BY <1>1, InvHolds, PTL DEF Spec
<1>3. [][Evolves]_vars => RowEvolves
  BY PTL DEF RowEvolves, Evolves
<1> QED BY <1>2, <1>3
=============================================================================
