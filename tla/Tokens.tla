-------------------------------- MODULE Tokens --------------------------------
(***************************************************************************)
(* The life of a JWT in auth-service: Login and CreateToken issue it,      *)
(* DeleteToken revokes it - first in Postgres (user_tokens.revoked_at),    *)
(* then in Redis (auth:revoked:<jti>, with a lifetime of its own) - and    *)
(* authMiddleware lets a request in when signature and expiry are right    *)
(* and Redis does not know the jti.                                        *)
(*                                                                         *)
(* A token is named by the request that issues it.  Requests that only     *)
(* read (ListTokens, owner-only) are those that go no further than "in".   *)
(***************************************************************************)
EXTENDS Integers, FiniteSets

CONSTANTS Tokens,     \* requests that issue a token: logins and creations
          Owner,      \* Owner[j]: the user token j is for
          Revokes,    \* DELETE requests for a token
          Lifetime,   \* of a token: JWT_ACCESS_TTL, in ticks
          Minute,     \* lifetime of the Redis key of an expired token
          Deadline,   \* time a handler has, in ticks (5 s in the code)
          None,
          MaxTime,    \* bound: the clock stops here
          MaxFaults   \* bound: failed statements and calls

ASSUME OwnerForm == DOMAIN Owner = Tokens
ASSUME RequestsApart == Tokens \cap Revokes = {}
ASSUME TimesForm == /\ {Lifetime, Minute, Deadline, MaxTime, MaxFaults} \subseteq Nat
                    /\ Lifetime > 0 /\ Minute > 0
ASSUME NoneForm == None \notin Tokens \cup Nat

VARIABLES exp,     \* exp[j]: when token j expires, None before it is signed
          db,      \* db[j]: the row of j in user_tokens
          black,   \* black[j]: until when Redis has j, None if it never had
          now,     \* the clock
          req,     \* the handlers of the requests
          faults

vars == <<exp, db, black, now, req, faults>>

Requests == Tokens \cup Revokes

\* "ask": the token's signature is right and Redis is to be asked; "in": the
\* middleware has passed the request on; at: when it did.  Auxiliary: late,
\* Redis had the token when the request came; blind, Redis did not answer.
States == [pc : {"idle", "ask", "in", "insert", "set", "ok", "notfound",
                 "refused", "err"},
           via : Tokens \cup {None}, target : Tokens \cup {None}, ttl : Nat,
           at : Nat, late : BOOLEAN, blind : BOOLEAN]

TypeOK == /\ exp \in [Tokens -> Nat \cup {None}]
          /\ db \in [Tokens -> {"none", "active", "revoked"}]
          /\ black \in [Tokens -> Nat \cup {None}]
          /\ now \in 0..MaxTime
          /\ req \in [Requests -> States]
          /\ faults \in 0..MaxFaults

Init == /\ exp = [j \in Tokens |-> None]
        /\ db = [j \in Tokens |-> "none"]
        /\ black = [j \in Tokens |-> None]
        /\ now = 0 /\ faults = 0
        /\ req = [q \in Requests |->
             [pc |-> "idle", via |-> None, target |-> None, ttl |-> 0,
              at |-> 0, late |-> FALSE, blind |-> FALSE]]

-----------------------------------------------------------------------------
Fault == faults < MaxFaults /\ faults' = faults + 1
InTime(q) == now <= req[q].at + Deadline
Known(j) == black[j] # None /\ now < black[j]

\* A statement fails, or comes after the deadline of its handler.
Fails(q) == Fault \/ (~InTime(q) /\ UNCHANGED faults)

(* authMiddleware, first half: the token of a client, and its expiry. *)
Show(q, j) ==
  /\ req[q].pc = "idle" /\ req[j].pc = "ok"
  /\ q \in Tokens => Owner[q] = Owner[j]
  /\ req' = [req EXCEPT ![q].via = j, ![q].late = Known(j),
                        ![q].pc = IF now < exp[j] THEN "ask" ELSE "refused"]
  /\ UNCHANGED <<exp, db, black, now, faults>>

\* mutant: the jti is not looked up.
Ask_Skipped(q) ==
  /\ req[q].pc = "ask"
  /\ req' = [req EXCEPT ![q].pc = "in", ![q].at = now]
  /\ UNCHANGED <<exp, db, black, now, faults>>

(* authMiddleware, second half: IsTokenRevoked. *)
Ask(q) ==
  /\ req[q].pc = "ask"
  /\ req' = [req EXCEPT ![q].pc = IF Known(req[q].via) THEN "refused" ELSE "in",
                        ![q].at = now]
  /\ UNCHANGED <<exp, db, black, now, faults>>

(* Redis does not answer: the token counts as not revoked. *)
AskFails(q) ==
  /\ req[q].pc = "ask" /\ Fault
  /\ req' = [req EXCEPT ![q].pc = "in", ![q].at = now, ![q].blind = TRUE]
  /\ UNCHANGED <<exp, db, black, now>>

-----------------------------------------------------------------------------
Issue(j) ==
  /\ exp' = [exp EXCEPT ![j] = now + Lifetime]
  /\ req' = [req EXCEPT ![j].pc = "insert",
                        ![j].at = IF req[j].via = None THEN now ELSE @]
  /\ UNCHANGED <<db, black, now, faults>>

(* Login, with a password that is right. *)
Login(j) == req[j].pc = "idle" /\ Issue(j)

(* CreateToken, by the bearer of another token of the user. *)
Create(j) == req[j].pc = "in" /\ Issue(j)

Insert(j) ==
  /\ req[j].pc = "insert" /\ InTime(j)
  /\ db' = [db EXCEPT ![j] = "active"]
  /\ req' = [req EXCEPT ![j].pc = "ok"]
  /\ UNCHANGED <<exp, black, now, faults>>

\* mutant: a created token is handed out in any case, as Login does.
InsertFails_HandedOut(j) ==
  /\ req[j].pc = "insert" /\ Fails(j)
  /\ req' = [req EXCEPT ![j].pc = "ok"]
  /\ UNCHANGED <<exp, db, black, now>>

(* InsertUserToken fails: Login logs it and hands the token out, a created *)
(* token stays inside.                                                     *)
InsertFails(j) ==
  /\ req[j].pc = "insert" /\ Fails(j)
  /\ req' = [req EXCEPT ![j].pc = IF req[j].via = None THEN "ok" ELSE "err"]
  /\ UNCHANGED <<exp, db, black, now>>

-----------------------------------------------------------------------------
(* RevokeToken: UPDATE ... WHERE user_id AND revoked_at IS NULL.  The      *)
(* lifetime of the Redis key is computed from the answer.                  *)
Revocable(r, j) == db[j] = "active" /\ Owner[j] = Owner[req[r].via]

\* mutant: the token may have expired.
TTLOf_Unchecked(j) == exp[j] - now

\* mutant: every key lives for a minute.
TTLOf_Minute(j) == Minute

TTLOf(j) == IF exp[j] <= now THEN Minute ELSE exp[j] - now

Revoke(r, j) ==
  /\ req[r].pc = "in" /\ InTime(r)
  /\ IF Revocable(r, j)
     THEN /\ db' = [db EXCEPT ![j] = "revoked"]
          /\ req' = [req EXCEPT ![r].pc = "set", ![r].target = j,
                                ![r].ttl = TTLOf(j)]
     ELSE req' = [req EXCEPT ![r].pc = "notfound"] /\ UNCHANGED db
  /\ UNCHANGED <<exp, black, now, faults>>

(* The statement fails, or only its answer: then the row says revoked, but *)
(* Redis never hears of it, and the next DELETE finds nothing to revoke.   *)
RevokeFails(r, j) ==
  /\ req[r].pc = "in" /\ Fails(r)
  /\ \/ UNCHANGED db
     \/ InTime(r) /\ Revocable(r, j) /\ db' = [db EXCEPT ![j] = "revoked"]
  /\ req' = [req EXCEPT ![r].pc = "err"]
  /\ UNCHANGED <<exp, black, now>>

Blacklist(r) ==
  /\ req[r].pc = "set" /\ InTime(r)
  /\ black' = [black EXCEPT ![req[r].target] = now + req[r].ttl]
  /\ req' = [req EXCEPT ![r].pc = "ok"]
  /\ UNCHANGED <<exp, db, now, faults>>

(* The error of SET is dropped, and DELETE acknowledged. *)
BlacklistFails(r) ==
  /\ req[r].pc = "set" /\ Fails(r)
  /\ req' = [req EXCEPT ![r].pc = "ok"]
  /\ UNCHANGED <<exp, db, black, now>>

-----------------------------------------------------------------------------
Tick == now < MaxTime /\ now' = now + 1 /\ UNCHANGED <<exp, db, black, req, faults>>

(* The bound is reached; requests may be unfinished. *)
Stop == now = MaxTime /\ UNCHANGED vars

Next == \/ \E q \in Requests : \/ \E j \in Tokens : Show(q, j)
                               \/ Ask(q) \/ AskFails(q)
        \/ \E j \in Tokens : Login(j) \/ Create(j) \/ Insert(j) \/ InsertFails(j)
        \/ \E r \in Revokes : \/ \E j \in Tokens : Revoke(r, j) \/ RevokeFails(r, j)
                              \/ Blacklist(r) \/ BlacklistFails(r)
        \/ Tick \/ Stop

Spec == Init /\ [][Next]_vars

-----------------------------------------------------------------------------
(* Once Redis has a token, no request that comes with it is let in - unless*)
(* Redis does not answer, or the token expired between the check of its    *)
(* expiry and the question to Redis (authMiddleware, IsTokenRevoked, and   *)
(* the lifetime DeleteToken gives the key).                                *)
RevokedIsRefused ==
  \A q \in Requests :
    req[q].late /\ req[q].pc \notin {"ask", "refused"} =>
      req[q].blind \/ req[q].at >= exp[req[q].via]

(* What Redis knows agrees with the database, and for long enough: every   *)
(* token in Redis is revoked in its row, by a request of its owner, and    *)
(* the key does not vanish before the token has expired (DeleteToken).     *)
BlacklistAgrees ==
  \A j \in Tokens : black[j] # None =>
    /\ db[j] = "revoked" /\ black[j] >= exp[j]
    /\ \E r \in Revokes : req[r].target = j /\ Owner[req[r].via] = Owner[j]

(* Tokens from CreateToken can be listed and revoked: whoever holds one    *)
(* has it in the database, whatever failed on the way.  (This is not so    *)
(* for tokens of Login.)                                                   *)
CreatedIsListed ==
  \A j \in Tokens :
    req[j].pc = "ok" /\ req[j].via # None => db[j] # "none"
=============================================================================
