------------------------------- MODULE Listing -------------------------------
(***************************************************************************)
(* GET /api/v1/objects: the objects of one owner, filtered, page by page,  *)
(* last updated first.  A page is one query, the total another; between    *)
(* them, and between pages, uploads, deletes, hides and permissions go on. *)
(* A row's updated_at is when its statement began, not when it took effect.*)
(*                                                                         *)
(* The client is any that goes on by the limit it is told until it has     *)
(* asked for as many as the total it is told.                              *)
(***************************************************************************)
EXTENDS Integers, FiniteSets

CONSTANTS Keys,
          Writes,        \* statements that change rows while the list is read
          Matching,      \* keys that match the query string
          Filters,       \* [permission, visibility] asked for, "" is any
          Limits,        \* limits asked for
          DefaultLimit, MaxLimit,  \* 20 and 100 in the code
          NoRow, Nothing

ASSUME ListForm == /\ IsFiniteSet(Keys) /\ Limits \subseteq Int
                   /\ DefaultLimit \in Nat \ {0} /\ MaxLimit \in Nat \ {0}
                   /\ DefaultLimit <= MaxLimit

VARIABLES row, clock, write, list,
          kept,   \* auxiliary: keys listed all the time, and not written
          calm    \* auxiliary: no listed row left, moved back, or was tied

listVars == <<row, clock, write, list, kept, calm>>

Permissions == {"private-read", "public-read"}
Visibilities == {"visible", "hidden"}
Rows == [at : Nat, permission : Permissions, visibility : Visibilities]
Statements == {"upsert", "delete", "hide"} \cup Permissions

ListTypeOK ==
  /\ row \in [Keys -> Rows \cup {NoRow}]
  /\ clock \in Nat
  /\ write \in [Writes -> [pc : {"idle", "begun", "done"}, key : Keys \cup {Nothing},
                           does : Statements \cup {Nothing}, at : Nat]]
  /\ list \in [pc : {"idle", "page", "count", "done", "err"}, filter : Filters,
               limit : Int, offset : Nat, size : 0..MaxLimit, total : Nat,
               got : SUBSET Keys, quiet : BOOLEAN]
  /\ kept \in SUBSET Keys /\ calm \in BOOLEAN

\* Any rows, as uploads left them.
ListInit ==
  /\ row \in [Keys -> [at : 1..Cardinality(Keys), permission : {"private-read"},
                       visibility : {"visible"}] \cup {NoRow}]
  /\ clock = Cardinality(Keys)
  /\ write = [w \in Writes |-> [pc |-> "idle", key |-> Nothing, does |-> Nothing, at |-> 0]]
  /\ list \in [pc : {"idle"}, filter : Filters, limit : Limits, offset : {0},
               size : {0}, total : {0}, got : {{}}, quiet : {TRUE}]
  /\ kept = {} /\ calm = TRUE

-----------------------------------------------------------------------------
(* The WHERE clause of both queries. *)
Listed ==
  {k \in Keys \cap Matching :
     /\ row[k] # NoRow
     /\ list.filter.permission \in {"", row[k].permission}
     /\ list.filter.visibility \in {"", row[k].visibility}}

Tied == \E j, k \in Listed : j # k /\ row[j].at = row[k].at

\* Rows updated at the same moment come in any order.
Orders ==
  {s \in [1..Cardinality(Listed) -> Listed] :
     \A i, j \in DOMAIN s : i < j => s[i] # s[j] /\ row[s[i]].at >= row[s[j]].at}

\* mutant: a limit over the maximum is told as it was asked.
Told_AsAsked(limit) == IF limit <= 0 THEN DefaultLimit ELSE limit

\* mutant: there is no largest page.
Used_Uncapped(limit) == IF limit <= 0 THEN DefaultLimit ELSE limit

(* ListOwnerObjectsPage and normalizeLimit: the limit used, and the one the *)
(* answer tells.                                                            *)
Used(limit) == IF limit <= 0 THEN DefaultLimit
               ELSE IF limit > MaxLimit THEN MaxLimit ELSE limit
Told(limit) == IF limit <= 0 THEN DefaultLimit
               ELSE IF limit > MaxLimit THEN MaxLimit ELSE limit

(* The first query, of the first page and of later ones. *)
Page ==
  /\ list.pc \in {"idle", "page"}
  /\ \E s \in Orders :
       LET page == {i \in DOMAIN s :
                      i > list.offset /\ i <= list.offset + Used(list.limit)}
       IN list' = [list EXCEPT !.pc = "count", !.size = Cardinality(page),
                               !.got = @ \cup {s[i] : i \in page}, !.quiet = TRUE]
  /\ IF list.pc = "idle" THEN kept' = Listed /\ calm' = ~Tied
                         ELSE UNCHANGED <<kept, calm>>
  /\ UNCHANGED <<row, clock, write>>

\* mutant: the rows are counted without the filter.
Total_Unfiltered == Cardinality({k \in Keys : row[k] # NoRow})

Total == Cardinality(Listed)

(* The second: the client has the page and the total, and may go on. *)
Count ==
  /\ list.pc = "count"
  /\ LET next == list.offset + Told(list.limit) IN
     list' = IF next < Total
             THEN [list EXCEPT !.pc = "page", !.total = Total, !.offset = next]
             ELSE [list EXCEPT !.pc = "done", !.total = Total]
  /\ UNCHANGED <<row, clock, write, kept, calm>>

(* Either query fails: 500, and no page. *)
QueryFails ==
  /\ list.pc \in {"idle", "page", "count"}
  /\ list' = [list EXCEPT !.pc = "err"]
  /\ UNCHANGED <<row, clock, write, kept, calm>>

-----------------------------------------------------------------------------
(* A statement begins, at NOW(); it may have to wait for another one. *)
Begin(w, k, does) ==
  /\ write[w].pc = "idle"
  /\ clock' \in {clock, clock + 1}
  /\ write' = [write EXCEPT ![w] = [pc |-> "begun", key |-> k, does |-> does,
                                    at |-> clock']]
  /\ UNCHANGED <<row, list, kept, calm>>

(* UpsertObject, HideByOwnerAndKey, SetPermissionByOwnerAndKey and          *)
(* DeleteByOwnerAndKey; a row that is not there is not hidden or set.       *)
Written(r, w) ==
  IF w.does = "upsert"
  THEN [at |-> w.at, visibility |-> "visible",
        permission |-> IF r = NoRow THEN "private-read" ELSE r.permission]
  ELSE IF w.does = "delete" \/ r = NoRow THEN NoRow
  ELSE IF w.does = "hide" THEN [r EXCEPT !.at = w.at, !.visibility = "hidden"]
  ELSE [r EXCEPT !.at = w.at, !.permission = w.does]

TakeEffect(w) ==
  /\ write[w].pc = "begun"
  /\ LET k == write[w].key IN
     /\ row' = [row EXCEPT ![k] = Written(@, write[w])]
     /\ list' = [list EXCEPT !.quiet = FALSE]
     /\ kept' = kept \ {k}
     /\ calm' = /\ calm /\ ~Tied'
                /\ k \in Listed => k \in Listed' /\ row'[k].at >= row[k].at
  /\ write' = [write EXCEPT ![w].pc = "done"]
  /\ UNCHANGED clock

Done == list.pc \in {"done", "err"} /\ UNCHANGED listVars

ListNext ==
  \/ Page \/ Count \/ QueryFails \/ Done
  \/ \E w \in Writes : \/ \E k \in Keys, does \in Statements : Begin(w, k, does)
                       \/ TakeEffect(w)

ListSpec == ListInit /\ [][ListNext]_listVars

-----------------------------------------------------------------------------
(* A client that read all pages has seen every object that was there all   *)
(* the time and that nobody wrote - if meanwhile no row left the list or   *)
(* moved back in it, and no two were updated at the same moment (the       *)
(* ORDER BY of ListByOwnerWithFilters, and its OFFSET, which counts rows). *)
NothingSkipped == list.pc = "done" /\ calm => kept \subseteq list.got

(* A page and the total that comes with it agree when nothing was written  *)
(* between the two queries: the page is full, or the last one.             *)
TotalFits ==
  list.pc \in {"page", "done"} /\ list.quiet =>
    LET from == IF list.pc = "page" THEN list.offset - Told(list.limit) ELSE list.offset
        rest == IF list.total > from THEN list.total - from ELSE 0
    IN list.size = IF rest < Told(list.limit) THEN rest ELSE Told(list.limit)
=============================================================================
