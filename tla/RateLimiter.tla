----------------------------- MODULE RateLimiter -----------------------------
(***************************************************************************)
(* The rate limiter of object-api, for one action ("upload", say): a       *)
(* request is counted under its user, then under the address it comes      *)
(* from.  With Redis a counter is INCR, and EXPIRE by whoever made it 1;   *)
(* without, it is a window in a map of the process.  The Redis client      *)
(* sends a call that got no answer again, INCR too: such a request counts  *)
(* twice, and nobody may be left who was told 1.                           *)
(*                                                                         *)
(* The address is RemoteAddr, so IP gives one and the same address to all  *)
(* requests that come through api-gateway: its own.                        *)
(***************************************************************************)
EXTENDS Integers, FiniteSets

CONSTANTS Requests, User, IP,  \* User[r], IP[r]: whose r is, and from where
          Limits, Window,
          MaxEntries,  \* windows the map has before it is cleaned (1000)
          Deadline,    \* for the calls of one request to Redis: 2 s, and what
                       \* the client gives a call that is on its way then
          Lag,         \* bound: the longest wait for the mutex of the map
          None,
          MaxTime,     \* bound: the clock stops here
          MaxFaults    \* bound: failed and repeated calls, and restarts

Stages == {"user", "addr"}

\* The key request r is counted under at stage s.
KeyAt(r, s) == IF s = "user" THEN User[r] ELSE IP[r]
Keys == {KeyAt(r, s) : r \in Requests, s \in Stages}

\* A user is never written like an address.
ASSUME KeysApart == \A q, r \in Requests : User[q] # IP[r]
ASSUME NumbersForm == /\ {MaxEntries, Deadline, Lag, MaxTime, MaxFaults} \subseteq Nat
                      /\ Limits \cup {Window} \subseteq Nat \ {0}
ASSUME NoneForm == None \notin Nat \cup [start : Nat, count : Nat] \cup [at : Int, redis : BOOLEAN]

VARIABLES redis,    \* did the process find Redis when it was started
          windows,  \* windows[k]: the entry of key k in the map of the process
          counter,  \* counter[k]: what Redis has under k, 0 if nothing
          ends,     \* ends[k]: when Redis drops it, None if it never does
          now, req, faults,
          orphaned, \* auxiliary: keys whose counter was never given its end
          repeats,  \* auxiliary: how many of counter[k] were sent again after
          limit     \* the limit of the action: 30, 40 or 60 in the code

vars == <<redis, windows, counter, ends, now, req, faults, orphaned, repeats, limit>>

\* at: when the request came; passed[s]: when it was counted at stage s,
\* within the limit, and whether in Redis.
Passes == [at : Nat, redis : BOOLEAN]
States == [pc : {"idle", "count", "expire", "in", "refused", "gone"},
           stage : Stages, at : Nat,
           passed : [Stages -> Passes \cup {None}]]

TypeOK == /\ redis \in BOOLEAN
          /\ windows \in [Keys -> [start : Nat, count : 1..limit] \cup {None}]
          /\ counter \in [Keys -> Nat]
          /\ ends \in [Keys -> Nat \cup {None}]
          /\ now \in 0..MaxTime /\ faults \in 0..MaxFaults
          /\ req \in [Requests -> States]
          /\ orphaned \in SUBSET Keys /\ repeats \in [Keys -> Nat] /\ limit \in Limits

Init == /\ redis \in BOOLEAN
        /\ windows = [k \in Keys |-> None]
        /\ counter = [k \in Keys |-> 0] /\ ends = [k \in Keys |-> None]
        /\ now = 0 /\ faults = 0
        /\ orphaned = {} /\ repeats = [k \in Keys |-> 0] /\ limit \in Limits
        /\ req = [r \in Requests |->
             [pc |-> "idle", stage |-> "user", at |-> 0,
              passed |-> [s \in Stages |-> None]]]

-----------------------------------------------------------------------------
Fault == faults < MaxFaults /\ faults' = faults + 1

Key(r) == KeyAt(r, req[r].stage)

\* A request that passes the first stage goes on to the second.
Counted(q) == [q EXCEPT !.passed[q.stage] = [at |-> now, redis |-> redis]]
Ends(q, how) == [q EXCEPT !.pc = how, !.at = 0]
Proceeds(q) == IF q.stage = "user" THEN [q EXCEPT !.stage = "addr", !.pc = "count"]
                                   ELSE Ends(q, "in")
Admit(q) == Proceeds(Counted(q))

Arrive(r) ==
  /\ req[r].pc = "idle"
  /\ req' = [req EXCEPT ![r].pc = "count", ![r].at = now]
  /\ UNCHANGED <<redis, windows, counter, ends, now, faults, orphaned, repeats, limit>>

-----------------------------------------------------------------------------
(* fixedWindowLimiter: Allow reads the clock, then waits for the mutex.    *)
Stamps(r) ==
  {s \in (now - Lag)..now :
     /\ s >= req[r].at
     /\ req[r].stage = "addr" => s >= req[r].passed["user"].at}

\* mutant: the map is cleaned of windows that are not over.
Cleaned_Early(s) ==
  IF Cardinality({k \in Keys : windows[k] # None}) > MaxEntries
  THEN [k \in Keys |-> None] ELSE windows

\* More than MaxEntries windows: those two windows old go.
Cleaned(s) ==
  IF Cardinality({k \in Keys : windows[k] # None}) > MaxEntries
  THEN [k \in Keys |-> IF /\ windows[k] # None
                          /\ s - windows[k].start >= 2 * Window
                       THEN None ELSE windows[k]]
  ELSE windows

\* mutant: a window counts until the map would be cleaned of it.
Over_Late(w, s) == w # None => s - w.start >= 2 * Window

Over(w, s) == w # None => s - w.start >= Window

\* mutant: one request too many.
Full_Later(w) == w.count > limit

Full(w) == w.count >= limit

Allow(r) ==
  /\ ~redis /\ req[r].pc = "count"
  /\ \E s \in Stamps(r) :
       LET k == Key(r)
           kept == Cleaned(s)
           w == kept[k]
       IN \/ /\ Over(w, s)
             /\ windows' = [kept EXCEPT ![k] = [start |-> s, count |-> 1]]
             /\ req' = [req EXCEPT ![r] = Admit(@)]
          \/ /\ ~Over(w, s) /\ ~Full(w)
             /\ windows' = [kept EXCEPT ![k].count = @ + 1]
             /\ req' = [req EXCEPT ![r] = Admit(@)]
          \/ /\ ~Over(w, s) /\ Full(w)
             /\ windows' = kept
             /\ req' = [req EXCEPT ![r] = Ends(@, "refused")]
  /\ UNCHANGED <<redis, counter, ends, now, faults, orphaned, repeats, limit>>

-----------------------------------------------------------------------------
(* allowRedis *)
InTime(r) == now <= req[r].at + Deadline

\* A counter that has ended starts again, without an end.
Gone(k) == ends[k] # None /\ now >= ends[k]
Answer(k) == IF Gone(k) THEN 1 ELSE counter[k] + 1

Increment(k) ==
  /\ counter' = [counter EXCEPT ![k] = Answer(k)]
  /\ ends' = [ends EXCEPT ![k] = IF Gone(k) THEN None ELSE @]

\* How many were sent again, of those the counter has with this one.
Repeats(k) == IF Answer(k) = 1 THEN 0 ELSE repeats[k]
Once(k) == repeats' = [repeats EXCEPT ![k] = Repeats(k)]
Again(k) == repeats' = [repeats EXCEPT ![k] = Repeats(k) + 1]

\* mutant: EXPIRE when the limit is reached.
Incr_EndsWhenFull(r) ==
  /\ redis /\ req[r].pc = "count" /\ InTime(r)
  /\ Increment(Key(r)) /\ Once(Key(r))
  /\ LET n == Answer(Key(r)) IN
     \/ /\ n = limit
        /\ req' = [req EXCEPT ![r] = [Counted(@) EXCEPT !.pc = "expire"]]
     \/ n < limit /\ req' = [req EXCEPT ![r] = Admit(@)]
     \/ n > limit /\ req' = [req EXCEPT ![r] = Ends(@, "refused")]
  /\ UNCHANGED <<redis, windows, now, faults, orphaned, limit>>

Incr(r) ==
  /\ redis /\ req[r].pc = "count" /\ InTime(r)
  /\ Increment(Key(r)) /\ Once(Key(r))
  /\ LET n == Answer(Key(r)) IN
     \/ /\ n = 1
        /\ req' = [req EXCEPT ![r] = [Counted(@) EXCEPT !.pc = "expire"]]
     \/ n > 1 /\ n <= limit /\ req' = [req EXCEPT ![r] = Admit(@)]
     \/ n > 1 /\ n > limit /\ req' = [req EXCEPT ![r] = Ends(@, "refused")]
  /\ UNCHANGED <<redis, windows, now, faults, orphaned, limit>>

\* A call fails, or comes after the deadline.
Fails(r) == Fault \/ (~InTime(r) /\ UNCHANGED faults)

(* The answer is lost and the client sends INCR again, up to 3 times (here *)
(* as often as MaxFaults lets it).  If it made the counter, the answer     *)
(* that comes is not 1, and nobody gives it an end.                        *)
IncrAgain(r) ==
  /\ redis /\ req[r].pc = "count" /\ InTime(r) /\ Fault
  /\ Increment(Key(r)) /\ Again(Key(r))
  /\ orphaned' = IF Answer(Key(r)) = 1 THEN orphaned \cup {Key(r)} ELSE orphaned
  /\ UNCHANGED <<redis, windows, now, req, limit>>

(* INCR, or its answer, is lost for good: the request is let through.  If  *)
(* it made the counter, nobody gives it an end.                            *)
IncrFails(r) ==
  /\ redis /\ req[r].pc = "count" /\ Fails(r)
  /\ \/ /\ req' = [req EXCEPT ![r] = Proceeds(@)]
        /\ UNCHANGED <<counter, ends, orphaned, repeats>>
     \/ /\ InTime(r) /\ Increment(Key(r)) /\ Once(Key(r))
        /\ LET n == Answer(Key(r)) IN
           /\ req' = [req EXCEPT ![r] = IF n <= limit THEN Admit(@) ELSE Proceeds(@)]
           /\ orphaned' = IF n = 1 THEN orphaned \cup {Key(r)} ELSE orphaned
  /\ UNCHANGED <<redis, windows, now, limit>>

\* Those of the keys ks whose counter was not given an end.
Endless(ks) == {k \in ks : ends[k] = None}

\* A counter that has ended is not there to be given an end.
SetEnd(k) == ends' = [ends EXCEPT ![k] = IF Gone(k) THEN @ ELSE now + Window]

Expire(r) ==
  /\ req[r].pc = "expire" /\ InTime(r)
  /\ SetEnd(Key(r))
  /\ req' = [req EXCEPT ![r] = Proceeds(@)]
  /\ UNCHANGED <<redis, windows, counter, now, faults, orphaned, repeats, limit>>

(* EXPIRE is carried out, its answer is lost, and it is sent again. *)
ExpireAgain(r) ==
  /\ req[r].pc = "expire" /\ InTime(r) /\ Fault
  /\ SetEnd(Key(r))
  /\ UNCHANGED <<redis, windows, counter, now, req, orphaned, repeats, limit>>

(* The error of EXPIRE is dropped. *)
ExpireFails(r) ==
  /\ req[r].pc = "expire" /\ Fails(r)
  /\ req' = [req EXCEPT ![r] = Proceeds(@)]
  /\ orphaned' = orphaned \cup Endless({Key(r)})
  /\ UNCHANGED <<redis, windows, counter, ends, now, repeats, limit>>

-----------------------------------------------------------------------------
(* The process dies and is started again, and may or may not find Redis    *)
(* this time: its map is empty - who passed by it no longer counts - Redis *)
(* keeps what it has, and no client of the old process gets an answer.     *)
Killed(q) == IF q.pc \in {"count", "expire"} THEN Ends(q, "gone") ELSE q
Forgotten(q) == [q EXCEPT !.passed =
                   [s \in Stages |-> IF @[s] # None /\ @[s].redis THEN @[s] ELSE None]]

Restart ==
  /\ Fault
  /\ windows' = [k \in Keys |-> None]
  /\ req' = [r \in Requests |-> Forgotten(Killed(req[r]))]
  /\ orphaned' = orphaned \cup
                   Endless({Key(r) : r \in {q \in Requests : req[q].pc = "expire"}})
  /\ redis' \in BOOLEAN
  /\ UNCHANGED <<counter, ends, now, repeats, limit>>

Tick == now < MaxTime /\ now' = now + 1
        /\ UNCHANGED <<redis, windows, counter, ends, req, faults, orphaned, repeats, limit>>

(* The bound is reached; requests may be unfinished. *)
Stop == now = MaxTime /\ UNCHANGED vars

Next == \/ \E r \in Requests : \/ Arrive(r) \/ Allow(r)
                               \/ Incr(r) \/ IncrAgain(r) \/ IncrFails(r)
                               \/ Expire(r) \/ ExpireAgain(r) \/ ExpireFails(r)
        \/ Restart \/ Tick \/ Stop

Spec == Init /\ [][Next]_vars

-----------------------------------------------------------------------------
(* Who passed under key k in a span of time, by the store now in use. *)
PassedIn(k, span) ==
  {p \in Requests \X Stages :
     req[p[1]].passed[p[2]] \in [at : span, redis : {redis}] /\ KeyAt(p[1], p[2]) = k}

(* Windows start when somebody comes, so two of them may meet - but no     *)
(* more: no key lets more than twice the limit through within Window,      *)
(* unless Redis fails or the process is restarted (Allow, allowRedis).     *)
(* Without Redis the span is shorter by Lag: Allow reads the clock before  *)
(* it has the mutex, and starts a window in the past.                      *)
NoBurst ==
  \A k \in Keys, t \in 0..MaxTime :
    LET span == t..(t + Window - 1 - IF redis THEN 0 ELSE Lag) IN
    Cardinality(PassedIn(k, span)) <= 2 * limit

(* A request is refused only when as many as the limit were counted under  *)
(* its key, not longer ago than a window and the slack of the code that    *)
(* opens it: those that passed and, in Redis, every INCR the client sent   *)
(* again, which counts a request once more - unless the counter lost its   *)
(* end (Allow, allowRedis), or the EXPIRE that gives it one is overdue.    *)
RefusedWhenFull ==
  [][\A r \in Requests :
       req[r].pc = "count" /\ req'[r].pc = "refused" =>
         LET k == Key(r)
             slack == IF redis THEN Deadline ELSE Lag
             twice == IF redis THEN repeats[k] ELSE 0
         IN \/ Cardinality(PassedIn(k, (now - Window - slack)..now)) + twice >= limit
            \/ k \in orphaned
            \/ \E q \in Requests : req[q].pc = "expire" /\ Key(q) = k /\ ~InTime(q)]_vars

(* A counter in Redis has an end, or will be given one by the request that *)
(* made it - unless a call failed or was repeated, or the process died,    *)
(* between INCR and EXPIRE (allowRedis): then it only ever grows.          *)
CounterHasEnd ==
  \A k \in Keys \ orphaned : counter[k] > 0 /\ ends[k] = None =>
    \E r \in Requests : req[r].pc = "expire" /\ Key(r) = k
=============================================================================
