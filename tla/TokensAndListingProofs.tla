------------------------ MODULE TokensAndListingProofs ------------------------
(***************************************************************************)
(* Tokens: what Redis knows agrees with the database and outlives the      *)
(* token, what Redis knows is refused, and what CreateToken hands out can  *)
(* be revoked - for any number of tokens, users and DELETEs, any lifetimes *)
(* and deadlines, and any number of faults.                                *)
(*                                                                         *)
(* The second half is about Listing, which has nothing to do with tokens:  *)
(* its specification goes by names of its own (ListSpec, ListTypeOK).      *)
(***************************************************************************)
EXTENDS Tokens, Listing, FiniteSetTheorems, TLAPS

(* A row, and a use, are only of a token that was handed out: it is not    *)
(* signed a second time, so its expiry stays.                              *)
UsedIsIssued ==
  /\ \A j \in Tokens : db[j] # "none" => req[j].pc = "ok"
  /\ \A j \in Tokens : req[j].pc \in {"insert", "ok"} => exp[j] \in Nat
  /\ \A q \in Requests : req[q].via # None => req[req[q].via].pc = "ok"
  /\ \A q \in Requests : req[q].pc \in {"ask", "in", "set"} => req[q].via # None
  /\ \A r \in Revokes : req[r].pc # "insert"

(* A DELETE that has revoked a row sets a key that lives long enough. *)
KeyOutlives ==
  \A r \in Revokes :
    LET j == req[r].target IN
    /\ req[r].pc = "set" => j # None
    /\ j # None => /\ req[r].pc \in {"set", "ok"}
                   /\ req[r].via # None /\ Owner[req[r].via] = Owner[j]
                   /\ db[j] = "revoked" /\ now + req[r].ttl >= exp[j]

(* What Redis had when a request came it has had ever since. *)
LateIsKnown ==
  \A q \in Requests :
    req[q].late => req[q].via # None /\ black[req[q].via] # None

TokensInv == /\ TypeOK /\ UsedIsIssued /\ KeyOutlives /\ LateIsKnown
             /\ BlacklistAgrees /\ RevokedIsRefused /\ CreatedIsListed

LEMMA InitInv == Init => TokensInv
<1> SUFFICES ASSUME Init PROVE TokensInv
  OBVIOUS
<1> USE NoneForm, TimesForm DEF Init
<1>1. TypeOK
  BY SMTT(30) DEF TypeOK, States, Requests
<1>2. UsedIsIssued /\ KeyOutlives /\ LateIsKnown
  BY DEF UsedIsIssued, KeyOutlives, LateIsKnown, Requests
<1>3. BlacklistAgrees /\ RevokedIsRefused /\ CreatedIsListed
  BY DEF BlacklistAgrees, RevokedIsRefused, CreatedIsListed, Requests
<1> QED BY <1>1, <1>2, <1>3 DEF TokensInv

-----------------------------------------------------------------------------
(* One lemma for each action; a part the action leaves alone is a step too,*)
(* because every part ranges over all requests.                            *)
LEMMA Step_Show ==
  ASSUME TokensInv, NEW q \in Requests, NEW j \in Tokens, Show(q, j)
  PROVE  TokensInv'
<1> USE NoneForm, TimesForm, RequestsApart DEF TokensInv, Requests, Show
<1>1. TypeOK'
  BY SMTT(30) DEF TypeOK, States, Known
<1>2. UsedIsIssued'
  <2>1. /\ req'[q].via = j /\ req[q].pc = "idle" /\ req[j].pc = "ok" /\ q # j
        /\ req'[q].pc \in {"ask", "refused"} /\ j # None
        /\ \A p \in Requests \ {q} : req'[p] = req[p]
        /\ UNCHANGED <<exp, db>>
    BY DEF TypeOK, States
  <2>2. UsedIsIssued /\ \A p \in Requests : req[p].via \in Tokens \cup {None}
    BY DEF TypeOK, States
  <2> HIDE DEF Show, TokensInv
  <2>3. \A p \in Requests : req[p].pc = "ok" => req'[p] = req[p]
    BY <2>1
  <2> QED BY <2>1, <2>2, <2>3, SMTT(30) DEF UsedIsIssued
<1>3. KeyOutlives'
  BY SMTT(30) DEF TypeOK, States, UsedIsIssued, KeyOutlives, Known
<1>4. LateIsKnown'
  BY SMTT(30) DEF TypeOK, States, UsedIsIssued, LateIsKnown, Known
<1>5. BlacklistAgrees'
  BY SMTT(30) DEF TypeOK, States, UsedIsIssued, KeyOutlives, BlacklistAgrees, Known
<1>6. RevokedIsRefused'
  BY SMTT(30) DEF TypeOK, States, UsedIsIssued, LateIsKnown, BlacklistAgrees, RevokedIsRefused, Known
<1>7. CreatedIsListed'
  BY SMTT(30) DEF TypeOK, States, UsedIsIssued, CreatedIsListed, Known
<1> QED BY <1>1, <1>2, <1>3, <1>4, <1>5, <1>6, <1>7

LEMMA Step_Ask ==
  ASSUME TokensInv, NEW q \in Requests, Ask(q)
  PROVE  TokensInv'
<1> USE NoneForm, TimesForm, RequestsApart DEF TokensInv, Requests, Ask
<1>1. TypeOK'
  BY SMTT(30) DEF TypeOK, States, Known
<1>a. /\ req'[q].via = req[q].via /\ req[q].pc = "ask"
      /\ req'[q].pc \in {"refused", "in"} /\ req[q].via # None
      /\ req'[q].target = req[q].target
      /\ \A p \in Requests \ {q} : req'[p] = req[p]
      /\ UNCHANGED <<exp, db, black, now>>
  BY SMTT(30) DEF TypeOK, States, UsedIsIssued
<1>2. UsedIsIssued'
  <2> UsedIsIssued /\ \A p \in Requests : req[p].via \in Tokens \cup {None}
    BY DEF TypeOK, States
  <2> HIDE DEF Ask, TokensInv
  <2> QED BY <1>a DEF UsedIsIssued
<1>3. KeyOutlives'
  <2> KeyOutlives
    OBVIOUS
  <2> HIDE DEF Ask, TokensInv
  <2> QED BY <1>a DEF KeyOutlives
<1>4. LateIsKnown'
  <2> LateIsKnown /\ req'[q].late = req[q].late
    BY DEF TypeOK, States
  <2> HIDE DEF Ask, TokensInv
  <2> QED BY <1>a DEF LateIsKnown
<1>5. BlacklistAgrees'
  <2> BlacklistAgrees
    OBVIOUS
  <2> HIDE DEF Ask, TokensInv
  <2> QED BY <1>a DEF BlacklistAgrees
<1>6. RevokedIsRefused'
  <2>1. CASE req'[q].pc = "refused" \/ ~req[q].late
    <3> req'[q].late = req[q].late
      BY DEF TypeOK, States
    <3> RevokedIsRefused
      OBVIOUS
    <3> HIDE DEF Ask, TokensInv
    <3> QED BY <1>a, <2>1 DEF RevokedIsRefused
  <2>2. CASE req'[q].pc = "in" /\ req[q].late
    <3>1. ~Known(req[q].via) /\ req'[q].at = now
      BY <2>2 DEF TypeOK, States
    <3>2. /\ req[q].via \in Tokens /\ black[req[q].via] \in Nat
          /\ black[req[q].via] >= exp[req[q].via]
      BY <1>a, <2>2 DEF TypeOK, States, LateIsKnown, BlacklistAgrees
    <3>3. exp[req[q].via] \in Nat /\ now \in Nat
      BY <1>a, <3>2 DEF TypeOK, UsedIsIssued
    <3>4. now >= exp[req[q].via]
      BY <3>1, <3>2, <3>3 DEF Known
    <3> RevokedIsRefused
      OBVIOUS
    <3> HIDE DEF Ask, TokensInv
    <3> QED BY <1>a, <3>1, <3>4 DEF RevokedIsRefused
  <2> QED BY <1>a, <2>1, <2>2
<1>7. CreatedIsListed'
  BY SMTT(30) DEF TypeOK, States, UsedIsIssued, CreatedIsListed, Known
<1> QED BY <1>1, <1>2, <1>3, <1>4, <1>5, <1>6, <1>7

LEMMA Step_AskFails ==
  ASSUME TokensInv, NEW q \in Requests, AskFails(q)
  PROVE  TokensInv'
<1> USE NoneForm, TimesForm, RequestsApart DEF TokensInv, Requests, AskFails, Fault
<1>1. TypeOK'
  <2>1. now \in Nat /\ req[q] \in States /\ faults' \in 0..MaxFaults
    BY DEF TypeOK
  <2>2. [req[q] EXCEPT !.pc = "in", !.at = now, !.blind = TRUE] \in States
    BY <2>1 DEF States
  <2>3. req' \in [Requests -> States]
    BY <2>2 DEF TypeOK
  <2> QED BY <2>1, <2>3 DEF TypeOK
<1>2. UsedIsIssued'
  <2>1. /\ req'[q].via = req[q].via /\ req[q].pc = "ask" /\ req'[q].pc = "in"
        /\ \A p \in Requests \ {q} : req'[p] = req[p]
        /\ UNCHANGED <<exp, db>>
    BY DEF TypeOK, States
  <2>2. UsedIsIssued /\ \A p \in Requests : req[p].via \in Tokens \cup {None}
    BY DEF TypeOK, States
  <2> HIDE DEF AskFails, TokensInv
  <2> QED BY <2>1, <2>2, SMTT(30) DEF UsedIsIssued
<1>3. KeyOutlives'
  BY SMTT(30) DEF TypeOK, States, UsedIsIssued, KeyOutlives
<1>4. LateIsKnown'
  BY SMTT(30) DEF TypeOK, States, UsedIsIssued, LateIsKnown
<1>5. BlacklistAgrees'
  BY SMTT(30) DEF TypeOK, States, UsedIsIssued, KeyOutlives, BlacklistAgrees
<1>6. RevokedIsRefused'
  BY SMTT(30) DEF TypeOK, States, UsedIsIssued, LateIsKnown, BlacklistAgrees, RevokedIsRefused
<1>7. CreatedIsListed'
  BY SMTT(30) DEF TypeOK, States, UsedIsIssued, CreatedIsListed
<1> QED BY <1>1, <1>2, <1>3, <1>4, <1>5, <1>6, <1>7

LEMMA Step_Issue ==
  ASSUME TokensInv, NEW j \in Tokens, req[j].pc \in {"idle", "in"}, Issue(j)
  PROVE  TokensInv'
<1> USE NoneForm, TimesForm, RequestsApart DEF TokensInv, Requests, Issue
<1>1. TypeOK'
  <2>1. now + Lifetime \in Nat /\ now \in Nat
    BY DEF TypeOK
  <2>2. [req[j] EXCEPT !.pc = "insert", !.at = IF req[j].via = None THEN now ELSE @]
          \in States
    <3>1. req[j] \in States
      BY DEF TypeOK
    <3> HIDE DEF TokensInv, Issue
    <3> QED BY <2>1, <3>1 DEF States
  <2>3. req' \in [Requests -> States] /\ exp' \in [Tokens -> Nat \cup {None}]
    BY <2>1, <2>2 DEF TypeOK
  <2> QED BY <2>3 DEF TypeOK
<1>2. UsedIsIssued'
  BY SMTT(30) DEF TypeOK, States, UsedIsIssued
<1>3. KeyOutlives'
  BY SMTT(30) DEF TypeOK, States, UsedIsIssued, KeyOutlives
<1>4. LateIsKnown'
  BY SMTT(30) DEF TypeOK, States, UsedIsIssued, LateIsKnown
<1>5. BlacklistAgrees'
  BY SMTT(30) DEF TypeOK, States, UsedIsIssued, KeyOutlives, BlacklistAgrees
<1>6. RevokedIsRefused'
  BY SMTT(30) DEF TypeOK, States, UsedIsIssued, LateIsKnown, BlacklistAgrees, RevokedIsRefused
<1>7. CreatedIsListed'
  BY SMTT(30) DEF TypeOK, States, UsedIsIssued, CreatedIsListed
<1> QED BY <1>1, <1>2, <1>3, <1>4, <1>5, <1>6, <1>7

LEMMA Step_Insert ==
  ASSUME TokensInv, NEW j \in Tokens, Insert(j)
  PROVE  TokensInv'
<1> USE NoneForm, TimesForm, RequestsApart DEF TokensInv, Requests, Insert
<1>1. TypeOK'
  BY SMTT(30) DEF TypeOK, States
<1>2. UsedIsIssued'
  BY SMTT(30) DEF TypeOK, States, UsedIsIssued
<1>3. KeyOutlives'
  BY SMTT(30) DEF TypeOK, States, UsedIsIssued, KeyOutlives
<1>4. LateIsKnown'
  BY SMTT(30) DEF TypeOK, States, UsedIsIssued, LateIsKnown
<1>5. BlacklistAgrees'
  BY SMTT(30) DEF TypeOK, States, UsedIsIssued, KeyOutlives, BlacklistAgrees
<1>6. RevokedIsRefused'
  BY SMTT(30) DEF TypeOK, States, UsedIsIssued, LateIsKnown, BlacklistAgrees, RevokedIsRefused
<1>7. CreatedIsListed'
  BY SMTT(30) DEF TypeOK, States, UsedIsIssued, CreatedIsListed
<1> QED BY <1>1, <1>2, <1>3, <1>4, <1>5, <1>6, <1>7

LEMMA Step_InsertFails ==
  ASSUME TokensInv, NEW j \in Tokens, InsertFails(j)
  PROVE  TokensInv'
<1> USE NoneForm, TimesForm, RequestsApart DEF TokensInv, Requests, InsertFails, Fails, Fault
<1>1. TypeOK'
  BY DEF TypeOK, States
<1>2. UsedIsIssued'
  BY SMTT(30) DEF TypeOK, States, UsedIsIssued
<1>3. KeyOutlives'
  BY SMTT(30) DEF TypeOK, States, UsedIsIssued, KeyOutlives
<1>4. LateIsKnown'
  BY SMTT(30) DEF TypeOK, States, UsedIsIssued, LateIsKnown
<1>5. BlacklistAgrees'
  BY SMTT(30) DEF TypeOK, States, UsedIsIssued, KeyOutlives, BlacklistAgrees
<1>6. RevokedIsRefused'
  BY SMTT(30) DEF TypeOK, States, UsedIsIssued, LateIsKnown, BlacklistAgrees, RevokedIsRefused
<1>7. CreatedIsListed'
  BY SMTT(30) DEF TypeOK, States, UsedIsIssued, CreatedIsListed
<1> QED BY <1>1, <1>2, <1>3, <1>4, <1>5, <1>6, <1>7

LEMMA Step_Revoke ==
  ASSUME TokensInv, NEW r \in Revokes, NEW j \in Tokens, Revoke(r, j)
  PROVE  TokensInv'
<1> USE NoneForm, TimesForm, RequestsApart DEF TokensInv, Requests, Revoke
<1>1. TypeOK'
  <2>1. CASE ~Revocable(r, j)
    <3>1. [req[r] EXCEPT !.pc = "notfound"] \in States
      BY DEF TypeOK, States
    <3>2. req' = [req EXCEPT ![r] = [req[r] EXCEPT !.pc = "notfound"]]
      BY <2>1 DEF TypeOK
    <3> QED BY <2>1, <3>1, <3>2 DEF TypeOK
  <2>2. CASE Revocable(r, j)
    <3>1. TTLOf(j) \in Nat
      BY <2>2 DEF TypeOK, UsedIsIssued, Revocable, TTLOf
    <3>2. [req[r] EXCEPT !.pc = "set", !.target = j, !.ttl = TTLOf(j)] \in States
      <4>1. req[r] \in States
        BY DEF TypeOK
      <4> HIDE DEF Revoke
      <4> QED BY <3>1, <4>1 DEF States
    <3>3. req' = [req EXCEPT ![r] = [req[r] EXCEPT !.pc = "set", !.target = j,
                                                   !.ttl = TTLOf(j)]]
      BY <2>2 DEF TypeOK
    <3>4. db' \in [Tokens -> {"none", "active", "revoked"}]
      BY <2>2 DEF TypeOK
    <3> QED BY <3>2, <3>3, <3>4 DEF TypeOK
  <2> QED BY <2>1, <2>2
<1>2. UsedIsIssued'
  <2>1. /\ req'[r].via = req[r].via /\ req[r].pc = "in"
        /\ req'[r].pc \in {"set", "notfound"}
        /\ \A p \in Requests \ {r} : req'[p] = req[p]
    BY DEF TypeOK, States
  <2>2. \A t \in Tokens : db'[t] # "none" => db[t] # "none"
    BY DEF TypeOK, Revocable
  <2>3. exp' = exp
    OBVIOUS
  <2>4. \A q \in Requests : req[q].via \in Tokens \cup {None}
    BY DEF TypeOK, States
  <2>5. UsedIsIssued /\ r \in Requests /\ r \notin Tokens /\ Tokens \subseteq Requests
    OBVIOUS
  <2> HIDE DEF Revoke, TokensInv
  <2>6. /\ \A t \in Tokens : req'[t] = req[t]
        /\ \A q \in Requests : req'[q].via = req[q].via
        /\ \A v \in Revokes : req'[v].pc # "insert"
    BY <2>1, <2>5 DEF UsedIsIssued
  <2>7. (\A t \in Tokens : db[t] # "none" => req[t].pc = "ok")'
    BY <2>2, <2>5, <2>6 DEF UsedIsIssued
  <2>8. (\A q \in Requests : req[q].via # None => req[req[q].via].pc = "ok")'
    BY <2>4, <2>5, <2>6 DEF UsedIsIssued
  <2>9. (\A q \in Requests : req[q].pc \in {"ask", "in", "set"} => req[q].via # None)'
    BY <2>1, <2>5 DEF UsedIsIssued
  <2> QED BY <2>3, <2>5, <2>6, <2>7, <2>8, <2>9 DEF UsedIsIssued
<1>3. KeyOutlives'
  <2>1. CASE ~Revocable(r, j)
    BY <2>1, SMTT(30) DEF TypeOK, States, KeyOutlives
  <2>2. CASE Revocable(r, j)
    <3>1. /\ TTLOf(j) \in Nat /\ now + TTLOf(j) >= exp[j]
          /\ req[r].via # None /\ Owner[req[r].via] = Owner[j] /\ j # None
      BY <2>2 DEF TypeOK, UsedIsIssued, Revocable, TTLOf
    <3>2. /\ req'[r].pc = "set" /\ req'[r].target = j /\ req'[r].ttl = TTLOf(j)
          /\ req'[r].via = req[r].via /\ db'[j] = "revoked"
          /\ \A p \in Requests \ {r} : req'[p] = req[p]
          /\ \A t \in Tokens : db[t] = "revoked" => db'[t] = "revoked"
      BY <2>2 DEF TypeOK, States
    <3>3. exp' = exp /\ now' = now
      OBVIOUS
    <3> HIDE DEF Revoke
    <3> QED BY <3>1, <3>2, <3>3 DEF TypeOK, States, KeyOutlives
  <2> QED BY <2>1, <2>2
<1>4. LateIsKnown'
  BY SMTT(30) DEF TypeOK, States, UsedIsIssued, LateIsKnown
<1>5. BlacklistAgrees'
  <2>1. /\ black' = black /\ exp' = exp /\ req'[r].via = req[r].via
        /\ req[r].target = None
        /\ \A p \in Requests \ {r} : req'[p] = req[p]
        /\ \A t \in Tokens : db[t] = "revoked" => db'[t] = "revoked"
    BY SMTT(30) DEF TypeOK, States, KeyOutlives
  <2> HIDE DEF Revoke
  <2> QED BY <2>1 DEF TypeOK, BlacklistAgrees
<1>6. RevokedIsRefused'
  BY SMTT(30) DEF TypeOK, States, UsedIsIssued, LateIsKnown, BlacklistAgrees, RevokedIsRefused
<1>7. CreatedIsListed'
  BY SMTT(30) DEF TypeOK, States, UsedIsIssued, CreatedIsListed
<1> QED BY <1>1, <1>2, <1>3, <1>4, <1>5, <1>6, <1>7

LEMMA Step_RevokeFails ==
  ASSUME TokensInv, NEW r \in Revokes, NEW j \in Tokens, RevokeFails(r, j)
  PROVE  TokensInv'
<1> USE NoneForm, TimesForm, RequestsApart DEF TokensInv, Requests, RevokeFails, Revocable, Fails, Fault
<1>1. TypeOK'
  BY DEF TypeOK, States
<1>2. UsedIsIssued'
  BY SMTT(30) DEF TypeOK, States, UsedIsIssued
<1>3. KeyOutlives'
  BY SMTT(30) DEF TypeOK, States, UsedIsIssued, KeyOutlives
<1>4. LateIsKnown'
  BY SMTT(30) DEF TypeOK, States, UsedIsIssued, LateIsKnown
<1>5. BlacklistAgrees'
  BY SMTT(30) DEF TypeOK, States, UsedIsIssued, KeyOutlives, BlacklistAgrees
<1>6. RevokedIsRefused'
  BY SMTT(30) DEF TypeOK, States, UsedIsIssued, LateIsKnown, BlacklistAgrees, RevokedIsRefused
<1>7. CreatedIsListed'
  BY SMTT(30) DEF TypeOK, States, UsedIsIssued, CreatedIsListed
<1> QED BY <1>1, <1>2, <1>3, <1>4, <1>5, <1>6, <1>7

LEMMA Step_Blacklist ==
  ASSUME TokensInv, NEW r \in Revokes, Blacklist(r)
  PROVE  TokensInv'
<1> USE NoneForm, TimesForm, RequestsApart DEF TokensInv, Requests, Blacklist
<1>1. TypeOK'
  <2>1. now + req[r].ttl \in Nat
    BY DEF TypeOK, States
  <2>2. black' \in [Tokens -> Nat \cup {None}]
    BY <2>1 DEF TypeOK
  <2>3. req' \in [Requests -> States]
    BY DEF TypeOK, States
  <2> QED BY <2>2, <2>3 DEF TypeOK
<1>2. UsedIsIssued'
  BY SMTT(30) DEF TypeOK, States, UsedIsIssued
<1>3. KeyOutlives'
  BY SMTT(30) DEF TypeOK, States, UsedIsIssued, KeyOutlives
<1>4. LateIsKnown'
  BY SMTT(30) DEF TypeOK, States, UsedIsIssued, LateIsKnown
<1>5. BlacklistAgrees'
  <2> DEFINE t == req[r].target
  <2>1. /\ t \in Tokens /\ db[t] = "revoked" /\ now + req[r].ttl >= exp[t]
        /\ Owner[req[r].via] = Owner[t]
    BY SMTT(30) DEF TypeOK, States, KeyOutlives
  <2>2. \A p \in Requests : req'[p].target = req[p].target /\ req'[p].via = req[p].via
    BY DEF TypeOK, States
  <2>3. /\ black'[t] = now + req[r].ttl
        /\ \A j \in Tokens \ {t} : black'[j] = black[j]
    BY <2>1 DEF TypeOK
  <2>4. db' = db /\ exp' = exp
    OBVIOUS
  <2> HIDE DEF t, Blacklist
  <2> QED BY <2>1, <2>2, <2>3, <2>4 DEF BlacklistAgrees, t
<1>6. RevokedIsRefused'
  BY SMTT(30) DEF TypeOK, States, UsedIsIssued, LateIsKnown, BlacklistAgrees, RevokedIsRefused
<1>7. CreatedIsListed'
  BY SMTT(30) DEF TypeOK, States, UsedIsIssued, CreatedIsListed
<1> QED BY <1>1, <1>2, <1>3, <1>4, <1>5, <1>6, <1>7

LEMMA Step_BlacklistFails ==
  ASSUME TokensInv, NEW r \in Revokes, BlacklistFails(r)
  PROVE  TokensInv'
<1> USE NoneForm, TimesForm, RequestsApart DEF TokensInv, Requests, BlacklistFails, Fails, Fault
<1>1. TypeOK'
  BY DEF TypeOK, States
<1>2. UsedIsIssued'
  BY SMTT(30) DEF TypeOK, States, UsedIsIssued
<1>3. KeyOutlives'
  BY SMTT(30) DEF TypeOK, States, UsedIsIssued, KeyOutlives
<1>4. LateIsKnown'
  BY SMTT(30) DEF TypeOK, States, UsedIsIssued, LateIsKnown
<1>5. BlacklistAgrees'
  BY SMTT(30) DEF TypeOK, States, UsedIsIssued, KeyOutlives, BlacklistAgrees
<1>6. RevokedIsRefused'
  BY SMTT(30) DEF TypeOK, States, UsedIsIssued, LateIsKnown, BlacklistAgrees, RevokedIsRefused
<1>7. CreatedIsListed'
  BY SMTT(30) DEF TypeOK, States, UsedIsIssued, CreatedIsListed
<1> QED BY <1>1, <1>2, <1>3, <1>4, <1>5, <1>6, <1>7

LEMMA Step_Tick ==
  ASSUME TokensInv, Tick
  PROVE  TokensInv'
<1> USE NoneForm, TimesForm, RequestsApart DEF TokensInv, Requests, Tick
<1>1. TypeOK'
  BY DEF TypeOK, States
<1>2. UsedIsIssued'
  BY SMTT(30) DEF TypeOK, States, UsedIsIssued
<1>3. KeyOutlives'
  BY SMTT(30) DEF TypeOK, States, UsedIsIssued, KeyOutlives
<1>4. LateIsKnown'
  BY SMTT(30) DEF TypeOK, States, UsedIsIssued, LateIsKnown
<1>5. BlacklistAgrees'
  BY SMTT(30) DEF TypeOK, States, UsedIsIssued, KeyOutlives, BlacklistAgrees
<1>6. RevokedIsRefused'
  BY SMTT(30) DEF TypeOK, States, UsedIsIssued, LateIsKnown, BlacklistAgrees, RevokedIsRefused
<1>7. CreatedIsListed'
  BY SMTT(30) DEF TypeOK, States, UsedIsIssued, CreatedIsListed
<1> QED BY <1>1, <1>2, <1>3, <1>4, <1>5, <1>6, <1>7

LEMMA Step_Stutter ==
  ASSUME TokensInv, UNCHANGED vars
  PROVE  TokensInv'
BY DEF TokensInv, TypeOK, UsedIsIssued, KeyOutlives, LateIsKnown, vars,
       BlacklistAgrees, RevokedIsRefused, CreatedIsListed

-----------------------------------------------------------------------------
LEMMA NextInv == TokensInv /\ [Next]_vars => TokensInv'
<1> SUFFICES ASSUME TokensInv, [Next]_vars PROVE TokensInv'
  OBVIOUS
<1>1. ASSUME NEW q \in Requests, NEW j \in Tokens, Show(q, j) PROVE TokensInv'
  BY <1>1, Step_Show
<1>2. ASSUME NEW q \in Requests, Ask(q) \/ AskFails(q) PROVE TokensInv'
  BY <1>2, Step_Ask, Step_AskFails
<1>3. ASSUME NEW j \in Tokens, Login(j) \/ Create(j) PROVE TokensInv'
  BY <1>3, Step_Issue DEF Login, Create
<1>4. ASSUME NEW j \in Tokens, Insert(j) \/ InsertFails(j) PROVE TokensInv'
  BY <1>4, Step_Insert, Step_InsertFails
<1>5. ASSUME NEW r \in Revokes, NEW j \in Tokens, Revoke(r, j) \/ RevokeFails(r, j)
      PROVE  TokensInv'
  BY <1>5, Step_Revoke, Step_RevokeFails
<1>6. ASSUME NEW r \in Revokes, Blacklist(r) \/ BlacklistFails(r) PROVE TokensInv'
  BY <1>6, Step_Blacklist, Step_BlacklistFails
<1>7. ASSUME Tick PROVE TokensInv'
  BY <1>7, Step_Tick
<1>8. ASSUME Stop \/ UNCHANGED vars PROVE TokensInv'
  BY <1>8, Step_Stutter DEF Stop
<1> QED BY <1>1, <1>2, <1>3, <1>4, <1>5, <1>6, <1>7, <1>8 DEF Next

LEMMA Invariance == Spec => []TokensInv
BY InitInv, NextInv, PTL DEF Spec

(* Rows, tokens, the keys of the blacklist and the requests under way keep *)
(* their types; no time is needed beyond the expiry (issueToken).          *)
THEOREM TypeCorrect == Spec => []TypeOK
<1>1. TokensInv => TypeOK
  BY DEF TokensInv
<1> QED BY <1>1, Invariance, PTL

(* What Redis knows is revoked in the database, by its owner, and Redis    *)
(* knows it until it has expired (DeleteToken, issueToken).                *)
THEOREM BlacklistIsRight == Spec => []BlacklistAgrees
<1>1. TokensInv => BlacklistAgrees
  BY DEF TokensInv
<1> QED BY <1>1, Invariance, PTL

(* A request whose token Redis had when it came is refused, unless Redis   *)
(* fails or the token is expired by then (authMiddleware, IsTokenRevoked). *)
THEOREM RevokedStaysOut == Spec => []RevokedIsRefused
<1>1. TokensInv => RevokedIsRefused
  BY DEF TokensInv
<1> QED BY <1>1, Invariance, PTL

(* A token from CreateToken has a row to list and to revoke it by.         *)
THEOREM CreatedHasRow == Spec => []CreatedIsListed
<1>1. TokensInv => CreatedIsListed
  BY DEF TokensInv
<1> QED BY <1>1, Invariance, PTL

-----------------------------------------------------------------------------
(***************************************************************************)
(* Listing: for any number of objects and of statements, and any page      *)
(* size, a client that reads to the end has skipped nothing that stood     *)
(* still, and a page fits the total that comes with it.                    *)
(*                                                                         *)
(* The pages are cut by OFFSET, so the argument counts: an object that the *)
(* client has not been given has at least as many objects before it as the *)
(* client has passed over, and in a calm list that number only grows.      *)
(***************************************************************************)

\* A statement that has begun knows its object and what it does to it.
StatementsFit == \A w \in Writes :
  write[w].pc = "begun" => write[w].key \in Keys /\ write[w].does \in Statements

Reading == list.pc \in {"page", "count", "done"}

\* The objects listed before k.
Before(k) == {j \in Listed : row[j].at > row[k].at}

\* How many objects the client has been given or has passed over.
Passed == IF list.pc = "count" THEN list.offset + Used(list.limit) ELSE list.offset

KeptAreListed == /\ kept \subseteq Listed
                 /\ list.pc = "idle" => kept = {} /\ list.offset = 0
                 /\ calm /\ Reading => ~Tied

\* What stood still and was not given out yet is further down the list.
UnseenAreAhead == calm /\ list.pc \in {"page", "count"} =>
  \A k \in kept \ list.got : Cardinality(Before(k)) >= Passed

Least(m, n) == IF m < n THEN m ELSE n
Rest(total, from) == IF total > from THEN total - from ELSE 0

\* The page is as long as the rest of the list allows, as long as it stands.
PageIsFull == list.pc = "count" /\ list.quiet =>
  list.size = Least(Rest(Total, list.offset), Used(list.limit))

\* A later page starts a whole page further.
LaterPage == list.pc = "page" => list.offset >= Told(list.limit)

ListInv == /\ ListTypeOK /\ StatementsFit /\ KeptAreListed /\ UnseenAreAhead
           /\ PageIsFull /\ LaterPage /\ NothingSkipped /\ TotalFits

-----------------------------------------------------------------------------
(* Counting. *)
LEMMA SubsetCounted ==
  ASSUME NEW S \in SUBSET Keys
  PROVE  IsFiniteSet(S) /\ Cardinality(S) \in Nat
  BY ListForm, FS_Subset, FS_CardinalityType

LEMMA SmallerCounts ==
  ASSUME NEW T \in SUBSET Keys, NEW S \in SUBSET T
  PROVE  Cardinality(S) <= Cardinality(T)
  BY SubsetCounted, FS_Subset

LEMMA ListedCounted == Listed \subseteq Keys /\ Total \in Nat
  BY SubsetCounted DEF Listed, Total

LEMMA BeforeCounted ==
  ASSUME NEW k
  PROVE  Before(k) \subseteq Listed /\ Cardinality(Before(k)) \in Nat
  BY ListedCounted, SubsetCounted DEF Before

LEMMA RowsListed ==
  ASSUME ListTypeOK, NEW k \in Listed
  PROVE  k \in Keys /\ row[k] \in Rows /\ row[k].at \in Nat
  BY DEF ListTypeOK, Listed, Rows

(* ListOwnerObjectsPage uses the limit that normalizeLimit tells. *)
LEMMA UsedIsTold ==
  ASSUME NEW limit \in Int
  PROVE  Used(limit) \in 1..MaxLimit /\ Told(limit) = Used(limit)
  BY ListForm DEF Used, Told

LEMMA LimitListed ==
  ASSUME ListTypeOK
  PROVE  /\ list.limit \in Int /\ list.offset \in Nat
         /\ Used(list.limit) \in 1..MaxLimit
         /\ Told(list.limit) = Used(list.limit)
  <1>1. list.limit \in Int /\ list.offset \in Nat
    BY DEF ListTypeOK
  <1> QED  BY <1>1, UsedIsTold

(* A page is an interval of the order, cut off at the end of the list. *)
LEMMA PageCounted ==
  ASSUME NEW n \in Nat, NEW from \in Nat, NEW u \in Nat
  PROVE  Cardinality({i \in 1..n : i > from /\ i <= from + u}) = Least(Rest(n, from), u)
  <1> DEFINE last == Least(n, from + u)
  <1>1. {i \in 1..n : i > from /\ i <= from + u} = (from + 1)..last
    BY DEF Least
  <1>2. from + 1 \in Int /\ last \in Int
    BY DEF Least
  <1>3. Cardinality((from + 1)..last)
          = IF from + 1 > last THEN 0 ELSE last - (from + 1) + 1
    BY <1>2, FS_Interval
  <1>4. (IF from + 1 > last THEN 0 ELSE last - (from + 1) + 1) = Least(Rest(n, from), u)
    BY DEF Least, Rest
  <1> HIDE DEF last
  <1> QED  BY <1>1, <1>3, <1>4

LEMMA UpTo ==
  ASSUME NEW n \in Nat
  PROVE  IsFiniteSet(1..n) /\ Cardinality(1..n) = n
  BY FS_Interval

-----------------------------------------------------------------------------
(* The order of a list without ties. *)
LEMMA OrderForm ==
  ASSUME NEW s \in Orders
  PROVE  /\ DOMAIN s = 1..Total /\ s \in [1..Total -> Listed]
         /\ \A i, j \in 1..Total : i < j => s[i] # s[j] /\ row[s[i]].at >= row[s[j]].at
  BY DEF Orders, Total

LEMMA OrderOnce ==
  ASSUME NEW s \in Orders, NEW i \in 1..Total, NEW j \in 1..Total, s[i] = s[j]
  PROVE  i = j
  BY OrderForm, ListedCounted

(* It has every listed object. *)
LEMMA OrderCovers ==
  ASSUME NEW s \in Orders, NEW k \in Listed
  PROVE  \E i \in 1..Total : s[i] = k
  <1>1. s \in Injection(1..Total, Listed)
    BY OrderForm, OrderOnce DEF Injection, IsInjective
  <1>2. IsFiniteSet(Listed) /\ Cardinality(Listed) = Cardinality(1..Total)
    BY ListedCounted, SubsetCounted, UpTo DEF Total
  <1>3. s \in Surjection(1..Total, Listed)
    BY <1>1, <1>2, FS_Injection
  <1> QED  BY <1>3 DEF Surjection

(* Before the object at place i there are i - 1 others. *)
LEMMA OrderRanks ==
  ASSUME ListTypeOK, ~Tied, NEW s \in Orders, NEW i \in 1..Total
  PROVE  Cardinality(Before(s[i])) = i - 1
  <1> DEFINE f == [m \in 1..(i - 1) |-> s[m]]
  <1>1. i \in Nat /\ i - 1 \in Nat /\ \A m \in 1..(i - 1) : m \in 1..Total /\ m < i
    BY ListedCounted
  <1>2. \A m \in 1..Total : s[m] \in Listed /\ row[s[m]].at \in Nat
    BY OrderForm, RowsListed
  <1>3. \A m \in 1..(i - 1) : s[m] \in Before(s[i])
    <2> TAKE m \in 1..(i - 1)
    <2>1. m \in 1..Total /\ m < i
      BY <1>1
    <2>2. s[m] # s[i] /\ row[s[m]].at >= row[s[i]].at
      BY <2>1, OrderForm
    <2>3. row[s[m]].at # row[s[i]].at
      BY <1>2, <2>1, <2>2 DEF Tied
    <2> QED  BY <1>2, <2>1, <2>2, <2>3 DEF Before
  <1>4. \A k \in Before(s[i]) : \E m \in 1..(i - 1) : s[m] = k
    <2> TAKE k \in Before(s[i])
    <2>1. k \in Listed /\ row[k].at > row[s[i]].at
      BY DEF Before
    <2>2. PICK m \in 1..Total : s[m] = k
      BY <2>1, OrderCovers
    <2>3. ~(i < m) /\ i # m
      BY <1>2, <2>1, <2>2, OrderForm
    <2>4. m \in 1..(i - 1)
      BY <1>1, <2>2, <2>3
    <2> QED  BY <2>2, <2>4
  <1>5. f \in Bijection(1..(i - 1), Before(s[i]))
    <2>1. f \in [1..(i - 1) -> Before(s[i])]
      BY <1>3
    <2>2. f \in Injection(1..(i - 1), Before(s[i]))
      BY <1>1, <2>1, OrderOnce DEF Injection, IsInjective
    <2>3. f \in Surjection(1..(i - 1), Before(s[i]))
      BY <1>4, <2>1 DEF Surjection
    <2> QED  BY <2>2, <2>3 DEF Bijection
  <1>6. Cardinality(Before(s[i])) = Cardinality(1..(i - 1))
    BY <1>1, <1>5, UpTo, FS_Bijection DEF ExistsBijection
  <1> QED  BY <1>1, <1>6, UpTo

-----------------------------------------------------------------------------
LEMMA ListInitInv == ListInit => ListInv
  <1> SUFFICES ASSUME ListInit PROVE ListInv
    OBVIOUS
  <1>1. Cardinality(Keys) \in Nat
    BY SubsetCounted
  <1>2. ListTypeOK
    <2>1. row \in [Keys -> Rows \cup {NoRow}]
      BY <1>1 DEF ListInit, Rows, Permissions, Visibilities
    <2>2. 0 \in 0..MaxLimit /\ Limits \subseteq Int
      BY ListForm
    <2>3. list \in [pc : {"idle", "page", "count", "done", "err"}, filter : Filters,
                    limit : Int, offset : Nat, size : 0..MaxLimit, total : Nat,
                    got : SUBSET Keys, quiet : BOOLEAN]
      <3>1. PICK f \in Filters, l \in Limits :
              list = [pc |-> "idle", filter |-> f, limit |-> l, offset |-> 0,
                      size |-> 0, total |-> 0, got |-> {}, quiet |-> TRUE]
        BY DEF ListInit
      <3>2. l \in Int
        BY <2>2
      <3> QED  BY <2>2, <3>1, <3>2
    <2> QED  BY <1>1, <2>1, <2>3 DEF ListInit, ListTypeOK
  <1>3. list.pc = "idle" /\ list.offset = 0 /\ kept = {}
    BY DEF ListInit
  <1>4. StatementsFit
    BY DEF ListInit, StatementsFit
  <1> QED  BY <1>2, <1>3, <1>4 DEF ListInv, KeptAreListed, UnseenAreAhead, PageIsFull,
                                  LaterPage, NothingSkipped, TotalFits, Reading

\* What is listed depends on the rows and on the filter.
LEMMA ViewKept ==
  ASSUME UNCHANGED row, list'.filter = list.filter
  PROVE  /\ Listed' = Listed /\ Total' = Total /\ (Tied' <=> Tied)
         /\ \A k : Before(k)' = Before(k)
  BY DEF Listed, Total, Tied, Before

(* Page. *)
LEMMA PageStep ==
  ASSUME ListInv, Page
  PROVE  ListInv'
  <1> USE DEF ListInv
  <1> DEFINE u == Used(list.limit)
             page(s) == {i \in DOMAIN s : i > list.offset /\ i <= list.offset + u}
  <1>1. PICK s \in Orders :
          list' = [list EXCEPT !.pc = "count", !.size = Cardinality(page(s)),
                               !.got = @ \cup {s[i] : i \in page(s)}, !.quiet = TRUE]
    BY DEF Page
  <1>2. /\ list' = [list EXCEPT !.pc = "count", !.size = list'.size,
                                !.got = list'.got, !.quiet = TRUE]
        /\ list'.size = Cardinality(page(s))
        /\ list'.got = list.got \cup {s[i] : i \in page(s)}
    BY <1>1 DEF ListTypeOK
  <1>3. /\ list'.filter = list.filter /\ list'.limit = list.limit
        /\ list'.offset = list.offset /\ list'.pc = "count"
    BY <1>2 DEF ListTypeOK
  <1>4. UNCHANGED <<row, clock, write>>
    BY DEF Page
  <1>5. /\ Listed' = Listed /\ Total' = Total /\ (Tied' <=> Tied)
        /\ \A k : Before(k)' = Before(k)
    BY <1>3, <1>4, ViewKept
  <1>6. /\ list.offset \in Nat /\ u \in 1..MaxLimit /\ MaxLimit \in Nat /\ Total \in Nat
        /\ DOMAIN s = 1..Total
    BY ListForm, LimitListed, ListedCounted, OrderForm
  <1>7. list'.size = Least(Rest(Total, list.offset), u)
    <2>1. page(s) = {i \in 1..Total : i > list.offset /\ i <= list.offset + u}
      BY <1>6
    <2>2. u \in Nat
      BY <1>6
    <2>3. Cardinality({i \in 1..Total : i > list.offset /\ i <= list.offset + u})
            = Least(Rest(Total, list.offset), u)
      BY <1>6, <2>2, PageCounted
    <2> QED  BY <1>2, <2>1, <2>3
  <1>8. ListTypeOK'
    <2>1. list'.size \in 0..MaxLimit
      BY <1>6, <1>7 DEF Least, Rest
    <2>2. list'.got \subseteq Keys
      <3>1. \A i \in page(s) : s[i] \in Keys
        BY <1>6, OrderForm, ListedCounted
      <3>2. {s[i] : i \in page(s)} \subseteq Keys
        <4> HIDE DEF page
        <4> QED  BY <3>1
      <3>3. list.got \subseteq Keys
        BY DEF ListTypeOK
      <3> HIDE DEF page
      <3> QED  BY <1>2, <3>2, <3>3
    <2>3. list' \in [pc : {"idle", "page", "count", "done", "err"}, filter : Filters,
                     limit : Int, offset : Nat, size : 0..MaxLimit, total : Nat,
                     got : SUBSET Keys, quiet : BOOLEAN]
      BY <1>2, <2>1, <2>2 DEF ListTypeOK
    <2>4. kept' \in SUBSET Keys /\ calm' \in BOOLEAN
      BY ListedCounted DEF Page, ListTypeOK
    <2> QED  BY <1>4, <2>3, <2>4 DEF ListTypeOK
  <1>9. KeptAreListed'
    BY <1>3, <1>5 DEF Page, KeptAreListed, Reading
  <1>10. UnseenAreAhead'
    <2> SUFFICES ASSUME calm', NEW k \in kept' \ list'.got
                 PROVE  Cardinality(Before(k)) >= list.offset + u
      BY <1>3, <1>5 DEF UnseenAreAhead, Passed
    <2>1. k \in Listed /\ ~Tied
      BY <1>3, <1>5, <1>9 DEF KeptAreListed, Reading
    <2>2. PICK i \in 1..Total : s[i] = k
      BY <2>1, OrderCovers
    <2>3. Cardinality(Before(k)) = i - 1
      BY <2>1, <2>2, OrderRanks
    <2>4. Cardinality(Before(k)) >= list.offset
      <3>1. CASE list.pc = "idle"
        BY <1>6, <2>2, <2>3, <3>1 DEF KeptAreListed
      <3>2. CASE list.pc = "page"
        BY <1>2, <3>2 DEF Page, UnseenAreAhead, Passed
      <3> QED  BY <3>1, <3>2 DEF Page
    <2>5. i \notin page(s)
      BY <1>2, <2>2
    <2> QED  BY <1>6, <2>2, <2>3, <2>4, <2>5
  <1>11. PageIsFull'
    BY <1>3, <1>5, <1>7 DEF PageIsFull
  <1> QED  BY <1>3, <1>4, <1>8, <1>9, <1>10, <1>11
           DEF StatementsFit, LaterPage, NothingSkipped, TotalFits

(* Count. *)
LEMMA CountStep ==
  ASSUME ListInv, Count
  PROVE  ListInv'
  <1> USE DEF ListInv
  <1> DEFINE u == Used(list.limit)
             next == list.offset + u
  <1>1. /\ list.offset \in Nat /\ u \in 1..MaxLimit /\ MaxLimit \in Nat /\ Total \in Nat
        /\ Told(list.limit) = u /\ next \in Nat
    BY ListForm, LimitListed, ListedCounted
  <1>2. list.pc = "count" /\ UNCHANGED <<row, clock, write, kept, calm>>
    BY DEF Count
  <1>3. /\ list' = [list EXCEPT !.pc = list'.pc, !.total = Total, !.offset = list'.offset]
        /\ \/ next < Total /\ list'.pc = "page" /\ list'.offset = next
           \/ ~(next < Total) /\ list'.pc = "done" /\ list'.offset = list.offset
    BY <1>1 DEF Count, ListTypeOK
  <1>4. /\ list'.filter = list.filter /\ list'.limit = list.limit
        /\ list'.got = list.got /\ list'.quiet = list.quiet /\ list'.total = Total
        /\ list'.size = list.size
    BY <1>3 DEF ListTypeOK
  <1>5. /\ Listed' = Listed /\ Total' = Total /\ (Tied' <=> Tied)
        /\ \A k : Before(k)' = Before(k)
    BY <1>2, <1>4, ViewKept
  <1>6. ListTypeOK'
    BY <1>1, <1>2, <1>3 DEF ListTypeOK
  <1>7. KeptAreListed'
    BY <1>2, <1>3, <1>5 DEF KeptAreListed, Reading
  <1>8. calm => \A k \in kept \ list.got : Cardinality(Before(k)) >= next
    BY <1>2 DEF UnseenAreAhead, Passed
  <1>9. UnseenAreAhead'
    BY <1>2, <1>3, <1>4, <1>5, <1>8 DEF UnseenAreAhead, Passed
  <1>10. NothingSkipped'
    <2> SUFFICES ASSUME list'.pc = "done", calm, NEW k \in kept, k \notin list.got
                 PROVE  FALSE
      BY <1>2, <1>4 DEF NothingSkipped
    <2>1. k \in Listed /\ Before(k) \subseteq Listed \ {k}
      BY RowsListed DEF KeptAreListed, Before
    <2>2. Cardinality(Before(k)) <= Cardinality(Listed \ {k})
      BY <2>1, ListedCounted, SmallerCounts
    <2>3. Cardinality(Listed \ {k}) = Total - 1
      BY <2>1, ListedCounted, SubsetCounted, FS_RemoveElement DEF Total
    <2> QED  BY <1>1, <1>3, <1>8, <2>2, <2>3, BeforeCounted
  <1>11. TotalFits'
    <2> SUFFICES ASSUME list.quiet
                 PROVE  TotalFits'
      BY <1>4 DEF TotalFits
    <2>1. list.size = Least(Rest(Total, list.offset), u)
      BY <1>2 DEF PageIsFull
    <2>2. Told(list'.limit) = u
      BY <1>1, <1>4
    <2>3. (IF list'.pc = "page" THEN list'.offset - u ELSE list'.offset) = list.offset
      BY <1>1, <1>3
    <2> HIDE DEF u, next
    <2> QED  BY <1>1, <1>4, <2>1, <2>2, <2>3 DEF TotalFits, Least, Rest
  <1>12. LaterPage'
    BY <1>1, <1>3, <1>4 DEF LaterPage
  <1> QED  BY <1>2, <1>3, <1>6, <1>7, <1>9, <1>10, <1>11, <1>12
           DEF StatementsFit, PageIsFull

(* QueryFails. *)
LEMMA QueryFailsStep ==
  ASSUME ListInv, QueryFails
  PROVE  ListInv'
  <1> USE DEF ListInv
  <1>1. /\ list' = [list EXCEPT !.pc = "err"] /\ list'.pc = "err"
        /\ list'.filter = list.filter /\ UNCHANGED <<row, clock, write, kept, calm>>
    BY DEF QueryFails, ListTypeOK
  <1>2. Listed' = Listed
    BY <1>1, ViewKept
  <1>3. ListTypeOK'
    BY <1>1 DEF ListTypeOK
  <1> QED  BY <1>1, <1>2, <1>3 DEF StatementsFit, KeptAreListed, Reading, UnseenAreAhead,
                                  PageIsFull, LaterPage, NothingSkipped, TotalFits

(* Begin. *)
LEMMA BeginStep ==
  ASSUME ListInv, NEW w \in Writes, NEW k \in Keys, NEW does \in Statements,
         Begin(w, k, does)
  PROVE  ListInv'
  <1> USE DEF ListInv
  <1>1. /\ clock' \in Nat /\ UNCHANGED <<row, list, kept, calm>>
        /\ write' = [write EXCEPT ![w] = [pc |-> "begun", key |-> k, does |-> does,
                                          at |-> clock']]
    BY DEF Begin, ListTypeOK
  <1>2. /\ Listed' = Listed /\ Total' = Total /\ (Tied' <=> Tied)
        /\ \A j : Before(j)' = Before(j)
    BY <1>1, ViewKept
  <1>3. ListTypeOK' /\ StatementsFit'
    BY <1>1 DEF ListTypeOK, StatementsFit
  <1> QED  BY <1>1, <1>2, <1>3 DEF KeptAreListed, Reading, UnseenAreAhead, Passed,
                                  PageIsFull, LaterPage, NothingSkipped, TotalFits

-----------------------------------------------------------------------------
(* UpsertObject and the others leave a row, or none. *)
LEMMA WrittenForm ==
  ASSUME ListTypeOK, NEW r \in Rows \cup {NoRow}, NEW w \in Writes,
         write[w].does \in Statements
  PROVE  Written(r, write[w]) \in Rows \cup {NoRow}
  <1> DEFINE x == write[w]
  <1>1. x.at \in Nat /\ x.does \in {"upsert", "delete", "hide"} \cup Permissions
    BY DEF ListTypeOK, Statements
  <1>2. r # NoRow => /\ r \in Rows /\ r.permission \in Permissions
                     /\ [r EXCEPT !.at = x.at, !.visibility = "hidden"] \in Rows
                     /\ \A p \in Permissions : [r EXCEPT !.at = x.at, !.permission = p] \in Rows
    BY <1>1 DEF Rows, Visibilities
  <1>3. \A p \in Permissions : [at |-> x.at, visibility |-> "visible", permission |-> p] \in Rows
    BY <1>1 DEF Rows, Visibilities
  <1>4. "private-read" \in Permissions
    BY DEF Permissions
  <1> HIDE DEF x
  <1>5. Written(r, x) \in Rows \cup {NoRow}
    <2>1. CASE x.does = "delete"
      BY <2>1 DEF Written
    <2>2. CASE x.does = "upsert"
      BY <1>2, <1>3, <1>4, <2>2 DEF Written
    <2>3. CASE x.does \notin {"delete", "upsert"} /\ r = NoRow
      BY <2>3 DEF Written
    <2>4. CASE x.does = "hide" /\ r # NoRow
      BY <1>2, <2>4 DEF Written
    <2>5. CASE x.does \in Permissions /\ r # NoRow
      BY <1>2, <2>5 DEF Written, Permissions
    <2> QED  BY <1>1, <2>1, <2>2, <2>3, <2>4, <2>5
  <1> QED  BY <1>5 DEF x

\* One row is written; every other one stays where it was.
LEMMA OthersListed ==
  ASSUME ListTypeOK, NEW k \in Keys, list'.filter = list.filter,
         NEW r, row' = [row EXCEPT ![k] = r]
  PROVE  \A j : j # k => /\ j \in Listed' <=> j \in Listed
                         /\ j \in Listed => row'[j] = row[j]
  BY DEF ListTypeOK, Listed

(* TakeEffect: in a calm list nothing comes before k any less. *)
LEMMA TakeEffectStep ==
  ASSUME ListInv, NEW w \in Writes, TakeEffect(w)
  PROVE  ListInv'
  <1> USE DEF ListInv
  <1> DEFINE k == write[w].key
             r == Written(row[k], write[w])
  <1>1. k \in Keys /\ write[w].does \in Statements
    BY DEF TakeEffect, StatementsFit
  <1>2. /\ row' = [row EXCEPT ![k] = r] /\ kept' = kept \ {k}
        /\ calm' = /\ calm /\ ~Tied'
                   /\ k \in Listed => k \in Listed' /\ row'[k].at >= row[k].at
        /\ write' = [write EXCEPT ![w].pc = "done"] /\ UNCHANGED clock
        /\ list' = [list EXCEPT !.quiet = FALSE]
    BY <1>1 DEF TakeEffect, ListTypeOK
  <1>3. /\ list'.filter = list.filter /\ list'.limit = list.limit /\ list'.pc = list.pc
        /\ list'.offset = list.offset /\ list'.got = list.got /\ list'.quiet = FALSE
    BY <1>2 DEF ListTypeOK
  <1>4. ListTypeOK'
    <2>1. row[k] \in Rows \cup {NoRow}
      BY <1>1 DEF ListTypeOK
    <2>2. r \in Rows \cup {NoRow}
      BY <1>1, <2>1, WrittenForm
    <2>3. row' \in [Keys -> Rows \cup {NoRow}]
      BY <1>1, <1>2, <2>2 DEF ListTypeOK
    <2>4. write' \in [Writes -> [pc : {"idle", "begun", "done"}, key : Keys \cup {Nothing},
                                 does : Statements \cup {Nothing}, at : Nat]]
      BY <1>2 DEF ListTypeOK
    <2>5. kept' \in SUBSET Keys /\ calm' \in BOOLEAN /\ clock' \in Nat
      BY <1>2 DEF ListTypeOK
    <2>6. list' \in [pc : {"idle", "page", "count", "done", "err"}, filter : Filters,
                     limit : Int, offset : Nat, size : 0..MaxLimit, total : Nat,
                     got : SUBSET Keys, quiet : BOOLEAN]
      BY <1>2 DEF ListTypeOK
    <2> QED  BY <2>3, <2>4, <2>5, <2>6 DEF ListTypeOK
  <1>5. StatementsFit'
    BY <1>2 DEF StatementsFit, ListTypeOK
  <1>6. \A j : j # k => /\ j \in Listed' <=> j \in Listed
                        /\ j \in Listed => row'[j] = row[j]
    BY <1>1, <1>2, <1>3, OthersListed
  <1>7. KeptAreListed'
    <2>1. kept' \subseteq Listed'
      BY <1>2, <1>6 DEF KeptAreListed
    <2>2. calm' => ~Tied'
      BY <1>2
    <2> QED  BY <1>2, <1>3, <2>1, <2>2 DEF KeptAreListed
  <1>8. UnseenAreAhead'
    <2> SUFFICES ASSUME calm', list.pc \in {"page", "count"}, NEW j \in kept' \ list.got
                 PROVE  Cardinality(Before(j)') >= Passed
      BY <1>3 DEF UnseenAreAhead, Passed
    <2>1. calm /\ j \in kept \ list.got /\ j # k
      BY <1>2
    <2>2. j \in Listed /\ row'[j] = row[j] /\ row[j].at \in Nat
      BY <1>6, <2>1, RowsListed DEF KeptAreListed
    <2>3. Before(j) \subseteq Before(j)'
      <3> SUFFICES ASSUME NEW m \in Before(j)
                   PROVE  m \in Listed' /\ row'[m].at > row'[j].at
        BY DEF Before
      <3>1. m \in Listed /\ row[m].at > row[j].at /\ row[m].at \in Nat
        BY RowsListed DEF Before
      <3>2. CASE m # k
        BY <1>6, <2>2, <3>1, <3>2
      <3>3. CASE m = k
        <4>1. m \in Listed' /\ row'[m].at >= row[m].at
          BY <1>2, <3>1, <3>3
        <4>2. row'[m].at \in Nat
          BY <1>4, <4>1 DEF ListTypeOK, Listed, Rows
        <4> QED  BY <2>2, <3>1, <4>1, <4>2
      <3> QED  BY <3>2, <3>3
    <2>4. Before(j)' \subseteq Keys
      BY DEF Before, Listed
    <2>5. Cardinality(Before(j)) <= Cardinality(Before(j)')
      BY <2>3, <2>4, SmallerCounts
    <2>6. Cardinality(Before(j)) >= Passed
      BY <2>1 DEF UnseenAreAhead
    <2>7. Cardinality(Before(j)) \in Nat /\ Cardinality(Before(j)') \in Nat
      BY <2>4, BeforeCounted, SubsetCounted
    <2>8. Passed \in Nat
      BY LimitListed, ListForm DEF Passed
    <2> QED  BY <2>5, <2>6, <2>7, <2>8
  <1>9. NothingSkipped'
    BY <1>2, <1>3 DEF NothingSkipped
  <1> QED  BY <1>3, <1>4, <1>5, <1>7, <1>8, <1>9 DEF PageIsFull, LaterPage, TotalFits

LEMMA ListNextInv == ListInv /\ [ListNext]_listVars => ListInv'
  <1> SUFFICES ASSUME ListInv, [ListNext]_listVars
               PROVE  ListInv'
    OBVIOUS
  <1>1. CASE Page
    BY <1>1, PageStep
  <1>2. CASE Count
    BY <1>2, CountStep
  <1>3. CASE QueryFails
    BY <1>3, QueryFailsStep
  <1>4. ASSUME NEW w \in Writes, NEW k \in Keys, NEW does \in Statements,
               Begin(w, k, does)
        PROVE  ListInv'
    BY <1>4, BeginStep
  <1>5. ASSUME NEW w \in Writes, TakeEffect(w)
        PROVE  ListInv'
    BY <1>5, TakeEffectStep
  <1>6. CASE Done \/ UNCHANGED listVars
    <2>1. UNCHANGED listVars
      BY <1>6 DEF Done
    <2>2. UNCHANGED <<row, clock, write, list, kept, calm>>
      BY <2>1 DEF listVars
    <2>3. /\ Listed' = Listed /\ Total' = Total /\ (Tied' <=> Tied)
          /\ \A j : Before(j)' = Before(j)
      BY <2>2, ViewKept
    <2> QED  BY <2>2, <2>3
             DEF ListInv, ListTypeOK, StatementsFit, KeptAreListed, Reading, UnseenAreAhead,
                 Passed, PageIsFull, LaterPage, NothingSkipped, TotalFits
  <1> QED  BY <1>1, <1>2, <1>3, <1>4, <1>5, <1>6 DEF ListNext

LEMMA ListAlways == ListSpec => []ListInv
  BY ListInitInv, ListNextInv, PTL DEF ListSpec

-----------------------------------------------------------------------------
(* The rows are rows, and a page is never longer than the largest one      *)
(* (ListOwnerObjectsPage and the statements of Postgres).                  *)
THEOREM ListTypeCorrect == ListSpec => []ListTypeOK
  <1>1. ListInv => ListTypeOK
    BY DEF ListInv
  <1> QED  BY ListAlways, <1>1, PTL

(* A client that reads all pages of a calm list is given every object that *)
(* stood in it all the time, whatever is uploaded, hidden or deleted       *)
(* meanwhile (ListByOwnerWithFilters, its ORDER BY and its OFFSET).        *)
THEOREM PagesSkipNothing == ListSpec => []NothingSkipped
  <1>1. ListInv => NothingSkipped
    BY DEF ListInv
  <1> QED  BY ListAlways, <1>1, PTL

(* A page is full, or the last one by the total that comes with it, when   *)
(* nothing was written between the two queries (CountByOwnerWithFilters).  *)
THEOREM TotalsFit == ListSpec => []TotalFits
  <1>1. ListInv => TotalFits
    BY DEF ListInv
  <1> QED  BY ListAlways, <1>1, PTL
=============================================================================
