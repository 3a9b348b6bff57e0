--------------------------- MODULE RateLimiterProofs ---------------------------
(***************************************************************************)
(* RateLimiter, whatever the limit, the window, the deadline and the lag,  *)
(* and for any number of requests, failures and restarts: a counter in     *)
(* Redis has an end; no key lets more than twice the limit through in a    *)
(* window; and who is refused is refused for a reason.                     *)
(*                                                                         *)
(* CounterHasEnd is inductive with the types.  The counts are not: what    *)
(* bounds them is that the passes of a key fall into epochs, one for each  *)
(* time its counter or its window was started (Epochs), and that the       *)
(* counter and its end, or the window, say how the last of them stands     *)
(* (RedisForm, MapForm).                                                   *)
(***************************************************************************)
EXTENDS RateLimiter, FiniteSetTheorems, TLAPS

LEMMA KeyTypes == ASSUME NEW r \in Requests, NEW s \in Stages PROVE KeyAt(r, s) \in Keys
BY DEF Keys

(* What is done to the record of a request keeps its type, and its stage,  *)
(* but for Proceeds.                                                       *)
LEMMA CountedType ==
  ASSUME NEW q \in States, now \in Nat, redis \in BOOLEAN
  PROVE  Counted(q) \in States /\ Counted(q).stage = q.stage
<1> DEFINE passed == [q.passed EXCEPT ![q.stage] = [at |-> now, redis |-> redis]]
<1>1. q.stage \in Stages /\ q.passed \in [Stages -> Passes \cup {None}]
  BY DEF States
<1>2. [at |-> now, redis |-> redis] \in Passes
  BY DEF Passes
<1>3. passed \in [Stages -> Passes \cup {None}]
  BY <1>1, <1>2
<1>4. Counted(q) = [q EXCEPT !.passed = passed]
  BY DEF Counted, States
<1> HIDE DEF passed
<1>5. [q EXCEPT !.passed = passed] \in States
  BY <1>3, ZenonT(30) DEF States
<1>6. [q EXCEPT !.passed = passed].stage = q.stage
  BY DEF States
<1> QED BY <1>4, <1>5, <1>6

LEMMA EndsType ==
  ASSUME NEW q \in States, NEW how \in {"in", "refused", "gone"}
  PROVE  Ends(q, how) \in States /\ Ends(q, how).stage = q.stage /\ Ends(q, how).pc = how
<1>1. 0 \in Nat
  OBVIOUS
<1>2. Ends(q, how) \in States
  BY <1>1, ZenonT(30) DEF Ends, States
<1> QED BY <1>2 DEF Ends, States

LEMMA ProceedsType ==
  ASSUME NEW q \in States
  PROVE  Proceeds(q) \in States /\ Proceeds(q).pc \in {"count", "in"}
<1>1. [q EXCEPT !.stage = "addr", !.pc = "count"] \in States
  BY ZenonT(30) DEF States, Stages
<1>2. [q EXCEPT !.stage = "addr", !.pc = "count"].pc = "count"
  BY DEF States
<1> QED BY <1>1, <1>2, EndsType DEF Proceeds

LEMMA AdmitType ==
  ASSUME NEW q \in States, now \in Nat, redis \in BOOLEAN
  PROVE  Admit(q) \in States /\ Admit(q).pc \in {"count", "in"}
BY CountedType, ProceedsType DEF Admit

LEMMA WaitsType ==
  ASSUME NEW q \in States, now \in Nat, redis \in BOOLEAN
  PROVE  LET w == [Counted(q) EXCEPT !.pc = "expire"]
         IN  w \in States /\ w.pc = "expire" /\ w.stage = q.stage
<1> DEFINE c == Counted(q)
<1>1. c \in States /\ c.stage = q.stage
  BY CountedType
<1> HIDE DEF c
<1>2. [c EXCEPT !.pc = "expire"] \in States
  BY <1>1, ZenonT(30) DEF States
<1>3. [c EXCEPT !.pc = "expire"].pc = "expire" /\ [c EXCEPT !.pc = "expire"].stage = c.stage
  BY <1>1 DEF States
<1> QED BY <1>1, <1>2, <1>3 DEF c

LEMMA KilledType ==
  ASSUME NEW q \in States
  PROVE  Killed(q) \in States /\ Forgotten(Killed(q)) \in States
<1>1. Killed(q) \in States
  BY EndsType DEF Killed
<1>2. ASSUME NEW p \in States PROVE Forgotten(p) \in States
  <2> DEFINE kept == [s \in Stages |-> IF p.passed[s] # None /\ p.passed[s].redis
                                      THEN p.passed[s] ELSE None]
  <2>1. p.passed \in [Stages -> Passes \cup {None}]
    BY DEF States
  <2>2. kept \in [Stages -> Passes \cup {None}]
    BY <2>1
  <2>3. Forgotten(p) = [p EXCEPT !.passed = kept]
    BY DEF Forgotten, States
  <2> HIDE DEF kept
  <2> QED BY <2>2, <2>3, ZenonT(30) DEF States
<1> QED BY <1>1, <1>2

LEMMA ArriveType ==
  ASSUME NEW q \in States, now \in Nat
  PROVE  LET c == [q EXCEPT !.pc = "count", !.at = now]
         IN  c \in States /\ c.pc = "count" /\ c.stage = q.stage
<1>1. [q EXCEPT !.pc = "count", !.at = now] \in States
  BY ZenonT(30) DEF States
<1> QED BY <1>1 DEF States

-----------------------------------------------------------------------------
(* Each step moves one request, or none, or - a restart - all of them. *)
LEMMA Moved ==
  ASSUME TypeOK, NEW r \in Requests, NEW q, req' = [req EXCEPT ![r] = q]
  PROVE  req'[r] = q /\ \A p \in Requests : p # r => req'[p] = req[p]
BY DEF TypeOK

LEMMA IncrementType ==
  ASSUME TypeOK, NEW k \in Keys, Increment(k)
  PROVE  /\ counter' \in [Keys -> Nat] /\ ends' \in [Keys -> Nat \cup {None}]
         /\ \A j \in Keys : j # k => counter'[j] = counter[j] /\ ends'[j] = ends[j]
         /\ Answer(k) \in Nat \ {0}
         /\ Answer(k) # 1 => counter[k] > 0 /\ ends'[k] = ends[k]
<1>1. counter[k] \in Nat
  BY DEF TypeOK
<1>2. Answer(k) \in Nat \ {0} /\ (Answer(k) # 1 => ~Gone(k) /\ counter[k] > 0)
  BY <1>1 DEF Answer
<1> QED BY <1>2 DEF TypeOK, Increment

LEMMA RepeatsType ==
  ASSUME TypeOK, NEW k \in Keys, Once(k) \/ Again(k)
  PROVE  /\ repeats' \in [Keys -> Nat] /\ repeats'[k] \in Nat
         /\ \A j \in Keys : j # k => repeats'[j] = repeats[j]
<1>1. Repeats(k) \in Nat /\ Repeats(k) + 1 \in Nat
  BY DEF TypeOK, Repeats
<1> QED BY <1>1 DEF TypeOK, Once, Again

LEMMA CleanedType ==
  ASSUME TypeOK, NEW s
  PROVE  Cleaned(s) \in [Keys -> [start : Nat, count : 1..limit] \cup {None}]
BY DEF Cleaned, TypeOK

-----------------------------------------------------------------------------
RateInv == TypeOK /\ CounterHasEnd

LEMMA InitInv == Init => RateInv
<1> SUFFICES ASSUME Init PROVE RateInv
  OBVIOUS
<1>1. [s \in Stages |-> None] \in [Stages -> Passes \cup {None}]
  OBVIOUS
<1>2. \A r \in Requests : req[r] \in States
  BY <1>1 DEF Init, States, Stages
<1>3. req \in [Requests -> States]
  BY <1>2 DEF Init
<1>4. TypeOK
  BY <1>3, NumbersForm DEF Init, TypeOK
<1> QED BY <1>4 DEF Init, RateInv, CounterHasEnd

LEMMA TypeNext == TypeOK /\ [Next]_vars => TypeOK'
<1> SUFFICES ASSUME TypeOK, [Next]_vars PROVE TypeOK'
  OBVIOUS
<1> USE NumbersForm
<1>0. /\ now \in Nat /\ Window \in Nat /\ limit \in Nat \ {0} /\ req \in [Requests -> States]
      /\ redis \in BOOLEAN
  BY DEF TypeOK
<1>1. ASSUME NEW r \in Requests
      PROVE  req[r] \in States /\ req[r].stage \in Stages /\ Key(r) \in Keys
  BY <1>0, KeyTypes DEF Key, States
<1>2. ASSUME Fault PROVE faults' \in 0..MaxFaults
  BY <1>2 DEF Fault, TypeOK
<1>3. ASSUME NEW r \in Requests, Fails(r) PROVE faults' \in 0..MaxFaults
  BY <1>2, <1>3 DEF Fails, TypeOK
<1>4. ASSUME NEW r \in Requests, Arrive(r) PROVE TypeOK'
  <2>1. req' \in [Requests -> States]
    BY <1>0, <1>1, <1>4, ArriveType DEF Arrive
  <2> QED BY <1>4, <2>1 DEF Arrive, TypeOK
<1>5. ASSUME NEW r \in Requests, Allow(r) PROVE TypeOK'
  <2>1. PICK s \in Stamps(r) :
           LET k == Key(r)
               kept == Cleaned(s)
               w == kept[k]
           IN \/ /\ Over(w, s)
                 /\ windows' = [kept EXCEPT ![k] = [start |-> s, count |-> 1]]
                 /\ req' = [req EXCEPT ![r] = Admit(@)]
              \/ /\ ~Over(w, s) /\ ~Full(w)
                 /\ windows' = [kept EXCEPT ![k].count = @ + 1]
                 /\ req' = [req EXCEPT ![r] = Admit(@)]
              \/ /\ ~Over(w, s) /\ Full(w)
                 /\ windows' = kept
                 /\ req' = [req EXCEPT ![r] = Ends(@, "refused")]
    BY <1>5 DEF Allow
  <2>2. req' \in [Requests -> States]
    BY <1>0, <1>1, <2>1, AdmitType, EndsType
  <2>3. s \in Nat
    <3>1. req[r].at \in Nat
      BY <1>1 DEF States
    <3>2. Lag \in Nat
      OBVIOUS
    <3>3. s \in (now - Lag)..now /\ s >= req[r].at
      BY DEF Stamps
    <3> QED BY <3>1, <3>2, <3>3, <1>0
  <2>4. windows' \in [Keys -> [start : Nat, count : 1..limit] \cup {None}]
    <3> DEFINE kept == Cleaned(s)
    <3>1. kept \in [Keys -> [start : Nat, count : 1..limit] \cup {None}]
      BY CleanedType
    <3>2. [start |-> s, count |-> 1] \in [start : Nat, count : 1..limit]
      BY <1>0, <2>3
    <3>3. ASSUME ~Over(kept[Key(r)], s), ~Full(kept[Key(r)])
          PROVE  [kept[Key(r)] EXCEPT !.count = @ + 1] \in [start : Nat, count : 1..limit]
      <4>1. kept[Key(r)] \in [start : Nat, count : 1..limit] /\ kept[Key(r)].count < limit
        BY <1>0, <1>1, <3>1, <3>3 DEF Over, Full
      <4>2. kept[Key(r)].count + 1 \in 1..limit
        BY <1>0, <4>1
      <4> QED BY <4>1, <4>2, ZenonT(30)
    <3> HIDE DEF kept
    <3> QED BY <1>1, <2>1, <3>1, <3>2, <3>3 DEF kept
  <2> QED BY <1>5, <2>2, <2>4 DEF Allow, TypeOK
<1>6. ASSUME NEW r \in Requests, Incr(r) PROVE TypeOK'
  <2>1. req' \in [Requests -> States]
    BY <1>0, <1>1, <1>6, WaitsType, AdmitType, EndsType DEF Incr
  <2> QED BY <1>1, <1>6, <2>1, IncrementType, RepeatsType DEF Incr, TypeOK
<1>7. ASSUME NEW r \in Requests, IncrFails(r) PROVE TypeOK'
  <2>1. req' \in [Requests -> States]
    BY <1>0, <1>1, <1>7, AdmitType, ProceedsType DEF IncrFails
  <2>2. counter' \in [Keys -> Nat] /\ ends' \in [Keys -> Nat \cup {None}]
    BY <1>1, <1>7, IncrementType DEF IncrFails, TypeOK
  <2>3. orphaned' \in SUBSET Keys
    BY <1>1, <1>7 DEF IncrFails, TypeOK
  <2>4. repeats' \in [Keys -> Nat]
    BY <1>1, <1>7, RepeatsType DEF IncrFails, TypeOK
  <2> QED BY <1>3, <1>7, <2>1, <2>2, <2>3, <2>4 DEF IncrFails, TypeOK
<1>13. ASSUME NEW k \in Keys, SetEnd(k) PROVE ends' \in [Keys -> Nat \cup {None}]
  <2>1. now + Window \in Nat
    BY <1>0
  <2> QED BY <1>13, <2>1 DEF SetEnd, TypeOK
<1>8. ASSUME NEW r \in Requests, Expire(r) PROVE TypeOK'
  <2>1. req' \in [Requests -> States]
    BY <1>0, <1>1, <1>8, ProceedsType DEF Expire
  <2>2. ends' \in [Keys -> Nat \cup {None}]
    BY <1>1, <1>8, <1>13 DEF Expire
  <2> QED BY <1>8, <2>1, <2>2 DEF Expire, TypeOK
<1>9. ASSUME NEW r \in Requests, ExpireFails(r) PROVE TypeOK'
  <2>1. req' \in [Requests -> States]
    BY <1>0, <1>1, <1>9, ProceedsType DEF ExpireFails
  <2> QED BY <1>1, <1>3, <1>9, <2>1 DEF ExpireFails, Endless, TypeOK
<1>14. ASSUME NEW r \in Requests, IncrAgain(r) PROVE TypeOK'
  <2>1. counter' \in [Keys -> Nat] /\ ends' \in [Keys -> Nat \cup {None}]
    BY <1>1, <1>14, IncrementType DEF IncrAgain
  <2>2. repeats' \in [Keys -> Nat]
    BY <1>1, <1>14, RepeatsType DEF IncrAgain
  <2> QED BY <1>1, <1>2, <1>14, <2>1, <2>2 DEF IncrAgain, TypeOK
<1>15. ASSUME NEW r \in Requests, ExpireAgain(r) PROVE TypeOK'
  <2>1. ends' \in [Keys -> Nat \cup {None}]
    BY <1>1, <1>13, <1>15 DEF ExpireAgain
  <2> QED BY <1>2, <1>15, <2>1 DEF ExpireAgain, TypeOK
<1>10. CASE Restart
  <2>1. req' \in [Requests -> States]
    BY <1>0, <1>10, KilledType DEF Restart
  <2>2. orphaned' \in SUBSET Keys
    BY <1>1, <1>10 DEF Restart, Endless, TypeOK
  <2> QED BY <1>2, <1>10, <2>1, <2>2 DEF Restart, TypeOK
<1>11. CASE Tick
  BY <1>11 DEF Tick, TypeOK
<1>12. CASE UNCHANGED vars
  BY <1>12 DEF vars, TypeOK
<1> QED
  BY <1>4, <1>5, <1>6, <1>7, <1>8, <1>9, <1>10, <1>11, <1>12, <1>14, <1>15 DEF Next, Stop

(* The request that made a counter is its witness until EXPIRE is through; *)
(* another request's step does not touch it.                               *)
LEMMA EndNext == RateInv /\ [Next]_vars => CounterHasEnd'
<1> SUFFICES ASSUME TypeOK, CounterHasEnd, [Next]_vars,
                    NEW k \in Keys, k \notin orphaned', counter'[k] > 0, ends'[k] = None
             PROVE  \E r \in Requests : req'[r].pc = "expire" /\ KeyAt(r, req'[r].stage) = k
  BY DEF RateInv, CounterHasEnd, Key
<1> DEFINE Held == \E r \in Requests : req'[r].pc = "expire" /\ KeyAt(r, req'[r].stage) = k
<1>0. /\ now \in Nat /\ req \in [Requests -> States] /\ orphaned \subseteq Keys
      /\ redis \in BOOLEAN
  BY NumbersForm DEF TypeOK
<1>1. ASSUME NEW r \in Requests PROVE req[r] \in States /\ Key(r) \in Keys
  BY <1>0, KeyTypes DEF Key, States
<1>2. ASSUME NEW r \in Requests, NEW q, req' = [req EXCEPT ![r] = q], req[r].pc # "expire",
             counter[k] > 0, ends[k] = None, k \notin orphaned
      PROVE  Held
  <2>1. PICK p \in Requests : req[p].pc = "expire" /\ Key(p) = k
    BY <1>2 DEF CounterHasEnd
  <2>2. req'[p] = req[p]
    BY <1>2, <2>1, Moved
  <2> QED BY <2>1, <2>2 DEF Key
<1>3. ASSUME NEW r \in Requests, NEW q, req' = [req EXCEPT ![r] = q], Key(r) # k,
             counter[k] > 0, ends[k] = None, k \notin orphaned
      PROVE  Held
  <2>1. PICK p \in Requests : req[p].pc = "expire" /\ Key(p) = k
    BY <1>3 DEF CounterHasEnd
  <2>2. req'[p] = req[p]
    BY <1>3, <2>1, Moved
  <2> QED BY <2>1, <2>2 DEF Key
<1>4. ASSUME NEW r \in Requests, Arrive(r) PROVE Held
  <2>1. PICK q : req' = [req EXCEPT ![r] = q]
    BY <1>4 DEF Arrive
  <2> QED BY <1>2, <1>4, <2>1 DEF Arrive
<1>5. ASSUME NEW r \in Requests, Allow(r) PROVE Held
  <2>1. PICK q : req' = [req EXCEPT ![r] = q]
    BY <1>5 DEF Allow
  <2> QED BY <1>2, <1>5, <2>1 DEF Allow
<1>6. ASSUME NEW r \in Requests, Increment(Key(r)), req[r].pc = "count",
             NEW q, req' = [req EXCEPT ![r] = q], orphaned \subseteq orphaned',
             Key(r) = k => Answer(k) # 1
      PROVE  Held
  <2>1. counter[k] > 0 /\ ends[k] = None
    BY <1>1, <1>6, IncrementType
  <2> QED BY <1>2, <1>6, <2>1
<1>7. ASSUME NEW r \in Requests, Incr(r) PROVE Held
  <2>1. PICK q : req' = [req EXCEPT ![r] = q]
    BY <1>7 DEF Incr
  <2>2. CASE Key(r) = k /\ Answer(k) = 1
    <3>1. req' = [req EXCEPT ![r] = [Counted(req[r]) EXCEPT !.pc = "expire"]]
      BY <1>7, <2>2 DEF Incr
    <3>2. req'[r].pc = "expire" /\ req'[r].stage = req[r].stage
      BY <1>0, <1>1, <3>1, Moved, WaitsType
    <3> QED BY <2>2, <3>2 DEF Key
  <2>3. CASE ~(Key(r) = k /\ Answer(k) = 1)
    BY <1>6, <1>7, <2>1, <2>3 DEF Incr
  <2> QED BY <2>2, <2>3
<1>8. ASSUME NEW r \in Requests, IncrFails(r) PROVE Held
  <2>1. PICK q : req' = [req EXCEPT ![r] = q]
    BY <1>8 DEF IncrFails
  <2>2. CASE UNCHANGED <<counter, ends, orphaned>>
    BY <1>2, <1>8, <2>1, <2>2 DEF IncrFails
  <2>3. CASE /\ Increment(Key(r))
             /\ orphaned' = IF Answer(Key(r)) = 1 THEN orphaned \cup {Key(r)} ELSE orphaned
    <3>1. Key(r) = k => Answer(k) # 1
      BY <2>3
    <3> QED BY <1>6, <1>8, <2>1, <2>3, <3>1 DEF IncrFails
  <2> QED BY <1>8, <2>2, <2>3 DEF IncrFails
<1>13. ASSUME NEW j \in Keys, SetEnd(j) PROVE j # k /\ ends[k] = None
  <2>1. now + Window # None
    BY <1>0, NumbersForm, NoneForm
  <2> QED BY <1>13, <2>1 DEF SetEnd, Gone, TypeOK
<1>9. ASSUME NEW r \in Requests, Expire(r) PROVE Held
  <2>1. PICK q : req' = [req EXCEPT ![r] = q]
    BY <1>9 DEF Expire
  <2>2. Key(r) # k /\ ends[k] = None
    BY <1>1, <1>9, <1>13 DEF Expire
  <2> QED BY <1>3, <1>9, <2>1, <2>2 DEF Expire
<1>10. ASSUME NEW r \in Requests, ExpireFails(r) PROVE Held
  <2>1. PICK q : req' = [req EXCEPT ![r] = q]
    BY <1>10 DEF ExpireFails
  <2>2. ends[k] = None /\ counter[k] > 0 /\ k \notin orphaned /\ Key(r) # k
    BY <1>10 DEF ExpireFails, Endless
  <2> QED BY <1>3, <2>1, <2>2
<1>14. ASSUME NEW r \in Requests, IncrAgain(r) PROVE Held
  <2>1. Key(r) = k => Answer(k) # 1
    BY <1>14 DEF IncrAgain
  <2>2. counter[k] > 0 /\ ends[k] = None /\ k \notin orphaned
    BY <1>1, <1>14, <2>1, IncrementType DEF IncrAgain
  <2>3. PICK p \in Requests : req[p].pc = "expire" /\ Key(p) = k
    BY <2>2 DEF CounterHasEnd
  <2> QED BY <1>14, <2>3 DEF IncrAgain, Key
<1>15. ASSUME NEW r \in Requests, ExpireAgain(r) PROVE Held
  <2>1. ends[k] = None
    BY <1>1, <1>13, <1>15 DEF ExpireAgain
  <2>2. PICK p \in Requests : req[p].pc = "expire" /\ Key(p) = k
    BY <1>15, <2>1 DEF ExpireAgain, CounterHasEnd
  <2> QED BY <1>15, <2>2 DEF ExpireAgain, Key
<1>11. CASE Restart
  <2>1. PICK p \in Requests : req[p].pc = "expire" /\ Key(p) = k
    BY <1>11 DEF Restart, CounterHasEnd
  <2> QED BY <1>11, <2>1 DEF Restart, Endless
<1>12. CASE UNCHANGED <<counter, ends, orphaned, req>>
  BY <1>12 DEF CounterHasEnd, Key
<1> QED
  BY <1>4, <1>5, <1>7, <1>8, <1>9, <1>10, <1>11, <1>12, <1>14, <1>15 DEF Next, vars, Tick, Stop

LEMMA InvNext == RateInv /\ [Next]_vars => RateInv'
BY TypeNext, EndNext DEF RateInv

LEMMA InvHolds == Spec => []RateInv
BY InitInv, InvNext, PTL DEF Spec

(* Every variable keeps its type; in particular no window of the map of    *)
(* the process counts beyond the limit (Allow).                            *)
THEOREM TypeCorrect == Spec => []TypeOK
<1>1. RateInv => TypeOK
  BY DEF RateInv
<1> QED BY <1>1, InvHolds, PTL

(* A counter in Redis has an end, or the request that will give it one is  *)
(* still at work, unless its EXPIRE failed or the process died before it   *)
(* (allowRedis).                                                           *)
THEOREM CountersEnd == Spec => []CounterHasEnd
<1>1. RateInv => CounterHasEnd
  BY DEF RateInv
<1> QED BY <1>1, InvHolds, PTL

-----------------------------------------------------------------------------
(* Fixed windows: what passes is counted in epochs, at most `most` in      *)
(* each.  f[p] is when p passed; the epoch that began at T has C, and what *)
(* passed before it, later than T - d, is of one epoch only.               *)
Within(f, d, t) == {p \in DOMAIN f : t <= f[p] /\ f[p] < t + d}
Recent(f, d, T, C) == {p \in DOMAIN f \ C : f[p] > T - d}

Epochs(f, d, most, T, C) ==
  /\ IsFiniteSet(DOMAIN f) /\ \A p \in DOMAIN f : f[p] \in Nat
  /\ C \subseteq DOMAIN f
  /\ \A p \in C : T <= f[p]
  /\ \A p \in DOMAIN f \ C : f[p] <= T
  /\ Cardinality(C) <= most
  /\ Cardinality(Recent(f, d, T, C)) <= most
  /\ \A t \in Int : Cardinality(Within(f, d, t)) <= 2 * most

LEMMA EpochsFinite ==
  ASSUME NEW f, NEW d \in Int, NEW most \in Nat, NEW T \in Nat, NEW C,
         Epochs(f, d, most, T, C)
  PROVE  /\ IsFiniteSet(C) /\ Cardinality(C) \in Nat
         /\ IsFiniteSet(Recent(f, d, T, C)) /\ Cardinality(Recent(f, d, T, C)) \in Nat
<1>1. IsFiniteSet(DOMAIN f) /\ C \subseteq DOMAIN f /\ Recent(f, d, T, C) \subseteq DOMAIN f
  BY DEF Epochs, Recent
<1>2. IsFiniteSet(C) /\ IsFiniteSet(Recent(f, d, T, C))
  BY <1>1, FS_Subset
<1> QED BY <1>2, FS_CardinalityType

LEMMA EpochsEmpty ==
  ASSUME NEW f, NEW d \in Int, NEW most \in Nat, NEW T \in Nat, DOMAIN f = {}
  PROVE  Epochs(f, d, most, T, {})
<1>1. Recent(f, d, T, {}) = {} /\ \A t : Within(f, d, t) = {}
  BY DEF Recent, Within
<1>2. IsFiniteSet({}) /\ Cardinality({}) = 0 /\ 0 <= most /\ 0 <= 2 * most
  BY FS_EmptySet
<1> QED BY <1>1, <1>2 DEF Epochs

(* Nothing passed since the last epoch was over. *)
LEMMA EpochsLater ==
  ASSUME NEW f, NEW d \in Int, NEW most \in Nat, NEW T \in Nat, NEW U \in Nat, T <= U,
         Epochs(f, d, most, T, {})
  PROVE  Epochs(f, d, most, U, {})
<1>1. \A p \in DOMAIN f : f[p] \in Nat /\ f[p] <= T
  BY DEF Epochs
<1>2. Recent(f, d, U, {}) \subseteq Recent(f, d, T, {})
  <2>1. \A p \in DOMAIN f : f[p] > U - d => f[p] > T - d
    BY <1>1
  <2> QED BY <2>1 DEF Recent
<1>3. /\ IsFiniteSet(Recent(f, d, T, {})) /\ Cardinality(Recent(f, d, T, {})) \in Nat
      /\ Cardinality(Recent(f, d, T, {})) <= most
  BY EpochsFinite DEF Epochs
<1>4. /\ Cardinality(Recent(f, d, U, {})) <= Cardinality(Recent(f, d, T, {}))
      /\ Cardinality(Recent(f, d, U, {})) \in Nat
  BY <1>2, <1>3, FS_Subset, FS_CardinalityType
<1>5. Cardinality(Recent(f, d, U, {})) <= most
  BY <1>3, <1>4
<1>6. \A p \in DOMAIN f : f[p] <= U
  BY <1>1
<1> QED BY <1>5, <1>6 DEF Epochs

(* The epoch is over, d after its beginning. *)
LEMMA EpochsOver ==
  ASSUME NEW f, NEW d \in Int, NEW most \in Nat, NEW T \in Nat, NEW U \in Nat, NEW C,
         Epochs(f, d, most, T, C), T + d <= U, \A p \in DOMAIN f : f[p] <= U
  PROVE  Epochs(f, d, most, U, {})
<1>1. \A p \in DOMAIN f : f[p] \in Nat
  BY DEF Epochs
<1>2. Recent(f, d, U, {}) \subseteq C
  <2>1. \A p \in DOMAIN f : f[p] > U - d => ~(f[p] <= T)
    BY <1>1
  <2> QED BY <2>1 DEF Recent, Epochs
<1>3. IsFiniteSet(C) /\ Cardinality(C) \in Nat /\ Cardinality(C) <= most
  BY EpochsFinite DEF Epochs
<1>4. /\ Cardinality(Recent(f, d, U, {})) <= Cardinality(C)
      /\ Cardinality(Recent(f, d, U, {})) \in Nat
  BY <1>2, <1>3, FS_Subset, FS_CardinalityType
<1>5. Cardinality(Recent(f, d, U, {})) <= most
  BY <1>3, <1>4
<1>6. Cardinality({}) <= most
  BY FS_EmptySet
<1> QED BY <1>5, <1>6 DEF Epochs

(* One more passes, in an epoch that is not full. *)
Longer(f, g, p, u) ==
  /\ p \notin DOMAIN f /\ DOMAIN g = DOMAIN f \cup {p}
  /\ g[p] = u /\ \A q \in DOMAIN f : g[q] = f[q]

LEMMA EpochsAdd ==
  ASSUME NEW f, NEW d \in Int, NEW most \in Nat, NEW T \in Nat, NEW C,
         Epochs(f, d, most, T, C), Cardinality(C) < most,
         NEW u \in Nat, T <= u, NEW p, NEW g, Longer(f, g, p, u)
  PROVE  \E D : Epochs(g, d, most, T, D) /\ Cardinality(D) = Cardinality(C) + 1
<1> DEFINE D == C \cup {p}
<1>0. /\ p \notin DOMAIN f /\ DOMAIN g = DOMAIN f \cup {p}
      /\ g[p] = u /\ \A q \in DOMAIN f : g[q] = f[q]
  BY DEF Longer
<1>1. /\ IsFiniteSet(DOMAIN f) /\ C \subseteq DOMAIN f
      /\ \A q \in DOMAIN f : f[q] \in Nat
      /\ \A q \in C : T <= f[q]
      /\ \A q \in DOMAIN f \ C : f[q] <= T
      /\ \A t \in Int : Cardinality(Within(f, d, t)) <= 2 * most
      /\ Cardinality(Recent(f, d, T, C)) <= most
  BY DEF Epochs
<1>2. /\ IsFiniteSet(C) /\ Cardinality(C) \in Nat
      /\ IsFiniteSet(Recent(f, d, T, C)) /\ Cardinality(Recent(f, d, T, C)) \in Nat
  BY EpochsFinite
<1>3. IsFiniteSet(DOMAIN g) /\ \A q \in DOMAIN g : g[q] \in Nat
  BY <1>0, <1>1, FS_AddElement
<1>4. IsFiniteSet(D) /\ Cardinality(D) = Cardinality(C) + 1
  BY <1>0, <1>1, <1>2, FS_AddElement
<1>5. Recent(g, d, T, D) = Recent(f, d, T, C)
  BY <1>0, <1>1 DEF Recent
<1>6. ASSUME NEW t \in Int PROVE Cardinality(Within(g, d, t)) <= 2 * most
  <2>1. CASE ~(t <= u /\ u < t + d)
    <3>1. Within(g, d, t) = Within(f, d, t)
      BY <1>0, <1>1, <2>1 DEF Within
    <3> QED BY <1>1, <3>1
  <2>2. CASE t <= u /\ u < t + d
    <3>1. Within(g, d, t) \subseteq D \cup Recent(f, d, T, C)
      <4>1. ASSUME NEW q \in Within(g, d, t), q \notin D PROVE q \in Recent(f, d, T, C)
        <5>1. q \in DOMAIN f \ C /\ g[q] = f[q] /\ t <= f[q]
          BY <1>0, <4>1 DEF Within
        <5>2. f[q] > T - d
          BY <1>1, <2>2, <5>1
        <5> QED BY <5>1, <5>2 DEF Recent
      <4> QED BY <4>1
    <3> HIDE DEF D
    <3>2. /\ IsFiniteSet(D \cup Recent(f, d, T, C))
          /\ Cardinality(D \cup Recent(f, d, T, C)) =
               Cardinality(D) + Cardinality(Recent(f, d, T, C))
                 - Cardinality(D \cap Recent(f, d, T, C))
      BY <1>2, <1>4, FS_Union
    <3>3. Cardinality(D \cap Recent(f, d, T, C)) \in Nat
      BY <1>4, FS_Intersection, FS_CardinalityType
    <3>4. /\ Cardinality(Within(g, d, t)) <= Cardinality(D \cup Recent(f, d, T, C))
          /\ Cardinality(Within(g, d, t)) \in Nat
      BY <3>1, <3>2, FS_Subset, FS_CardinalityType
    <3> QED BY <1>1, <1>2, <1>4, <3>2, <3>3, <3>4
  <2> QED BY <2>1, <2>2
<1>7. /\ \A q \in D : T <= g[q]
      /\ \A q \in DOMAIN g \ D : g[q] <= T
      /\ D \subseteq DOMAIN g
  BY <1>0, <1>1
<1>8. Cardinality(D) <= most
  BY <1>2, <1>4
<1> HIDE DEF D
<1>9. Epochs(g, d, most, T, D)
  BY <1>1, <1>3, <1>5, <1>6, <1>7, <1>8 DEF Epochs
<1> QED BY <1>4, <1>9

-----------------------------------------------------------------------------
(* Who passed under key k, in Redis (b) or in the map of the process, and  *)
(* when.                                                                   *)
Passed(b, k) ==
  {p \in Requests \X Stages :
     /\ req[p[1]].passed[p[2]] # None /\ req[p[1]].passed[p[2]].redis = b
     /\ KeyAt(p[1], p[2]) = k}
Times(b, k) == [p \in Passed(b, k) |-> req[p[1]].passed[p[2]].at]

(* The counter of k began at T, and C passed since: every INCR that it     *)
(* counts is of one of them or was sent again, until the limit is reached. *)
CountForm(n, count, again) ==
  /\ n <= count
  /\ n + again >= count \/ n + again >= limit

RedisForm(k, T, C) ==
  /\ Epochs(Times(TRUE, k), Window, limit, T, C)
  /\ CountForm(Cardinality(C), counter[k], repeats[k])
  /\ ends[k] # None =>
       /\ counter[k] > 0 /\ T + Window <= ends[k] /\ ends[k] <= T + Window + Deadline
       /\ \A p \in Passed(TRUE, k) : Times(TRUE, k)[p] < ends[k]
  /\ \A r \in Requests : req[r].pc = "expire" /\ Key(r) = k =>
       req[r].at <= T /\ counter[k] > 0

(* The window of k was opened at T, and C passed since. *)
WindowForm(w, T, C) ==
  IF w = None THEN C = {}
  ELSE Cardinality(C) = w.count /\ w.start <= T /\ T <= w.start + Lag

MapForm(k, T, C) ==
  /\ Epochs(Times(FALSE, k), Window - Lag, limit, T, C)
  /\ WindowForm(windows[k], T, C)

Past == /\ \A r \in Requests : req[r].at <= now
        /\ \A r \in Requests, s \in Stages :
             req[r].passed[s] # None => req[r].passed[s].at <= now

(* No request is counted twice under the same key. *)
Fresh == \A r \in Requests :
           /\ req[r].stage = "user" => req[r].passed["addr"] = None
           /\ req[r].pc \in {"idle", "count"} => req[r].passed[req[r].stage] = None

BurstInv ==
  /\ RateInv /\ Past /\ Fresh
  /\ \A k \in Keys : \E T, C : T \in 0..now /\ RedisForm(k, T, C)
  /\ \A k \in Keys : \E T, C : T \in 0..now /\ MapForm(k, T, C)

(* What is done to the record of a request. *)
PassNow == [at |-> now, redis |-> redis]

LEMMA CountedForm ==
  ASSUME NEW q \in States, now \in Nat, redis \in BOOLEAN
  PROVE  LET c == Counted(q)
         IN  /\ c \in States /\ c.passed = [q.passed EXCEPT ![q.stage] = PassNow]
             /\ c.stage = q.stage /\ c.pc = q.pc /\ c.at = q.at
<1>1. Counted(q) = [q EXCEPT !.passed = [q.passed EXCEPT ![q.stage] = PassNow]]
  BY DEF Counted, States, PassNow
<1> QED BY <1>1, CountedType DEF States

LEMMA EndsForm ==
  ASSUME NEW q \in States, NEW how \in {"in", "refused", "gone"}
  PROVE  LET e == Ends(q, how)
         IN  e \in States /\ e.passed = q.passed /\ e.stage = q.stage /\ e.pc = how /\ e.at = 0
BY EndsType DEF Ends, States

LEMMA ProceedsForm ==
  ASSUME NEW q \in States
  PROVE  LET e == Proceeds(q)
         IN  /\ e \in States /\ e.passed = q.passed /\ e.at \in {q.at, 0}
             /\ e.stage = "addr"
             /\ e.pc = IF q.stage = "user" THEN "count" ELSE "in"
<1>1. CASE q.stage = "user"
  <2>1. Proceeds(q) = [q EXCEPT !.stage = "addr", !.pc = "count"]
    BY <1>1 DEF Proceeds
  <2> QED BY <1>1, <2>1, ProceedsType DEF States
<1>2. CASE q.stage = "addr"
  BY <1>2, EndsForm DEF Proceeds
<1>3. q.stage \in {"user", "addr"}
  BY DEF States, Stages
<1> QED BY <1>1, <1>2, <1>3

LEMMA AdmitForm ==
  ASSUME NEW q \in States, now \in Nat, redis \in BOOLEAN
  PROVE  LET e == Admit(q)
         IN  /\ e \in States /\ e.passed = [q.passed EXCEPT ![q.stage] = PassNow]
             /\ e.at \in {q.at, 0} /\ e.stage = "addr"
             /\ e.pc = IF q.stage = "user" THEN "count" ELSE "in"
<1> DEFINE c == Counted(q)
<1>1. c \in States /\ c.passed = [q.passed EXCEPT ![q.stage] = PassNow]
      /\ c.stage = q.stage /\ c.at = q.at
  BY CountedForm
<1> HIDE DEF c
<1>2. Proceeds(c) \in States /\ Proceeds(c).passed = c.passed /\ Proceeds(c).at \in {c.at, 0}
      /\ Proceeds(c).stage = "addr"
      /\ Proceeds(c).pc = IF c.stage = "user" THEN "count" ELSE "in"
  BY <1>1, ProceedsForm
<1>3. Admit(q) = Proceeds(c)
  BY DEF Admit, c
<1> QED BY <1>1, <1>2, <1>3

LEMMA WaitsForm ==
  ASSUME NEW q \in States, now \in Nat, redis \in BOOLEAN
  PROVE  LET e == [Counted(q) EXCEPT !.pc = "expire"]
         IN  /\ e \in States /\ e.passed = [q.passed EXCEPT ![q.stage] = PassNow]
             /\ e.at = q.at /\ e.stage = q.stage /\ e.pc = "expire"
<1> DEFINE c == Counted(q)
<1>1. c \in States /\ c.passed = [q.passed EXCEPT ![q.stage] = PassNow]
      /\ c.stage = q.stage /\ c.at = q.at
  BY CountedForm
<1>2. [c EXCEPT !.pc = "expire"] \in States
  BY WaitsType
<1> HIDE DEF c
<1>3. /\ [c EXCEPT !.pc = "expire"].passed = c.passed /\ [c EXCEPT !.pc = "expire"].at = c.at
      /\ [c EXCEPT !.pc = "expire"].stage = c.stage /\ [c EXCEPT !.pc = "expire"].pc = "expire"
  BY <1>1 DEF States
<1> QED BY <1>1, <1>2, <1>3 DEF c

(* A restart leaves what passed in Redis, and nothing of the map. *)
LEMMA ForgottenForm ==
  ASSUME NEW q \in States
  PROVE  LET e == Forgotten(Killed(q))
         IN  /\ e \in States /\ e.stage = q.stage /\ e.at \in {q.at, 0}
             /\ e.pc \notin {"count", "expire"} /\ (e.pc = "idle" => q.pc = "idle")
             /\ \A s \in Stages : e.passed[s] = IF q.passed[s] # None /\ q.passed[s].redis
                                               THEN q.passed[s] ELSE None
<1> DEFINE d == Killed(q)
           kept == [s \in Stages |-> IF d.passed[s] # None /\ d.passed[s].redis
                                     THEN d.passed[s] ELSE None]
<1>1. d \in States /\ d.passed = q.passed /\ d.stage = q.stage /\ d.at \in {q.at, 0}
      /\ d.pc \notin {"count", "expire"} /\ (d.pc = "idle" => q.pc = "idle")
  BY EndsForm DEF Killed
<1>2. Forgotten(d) = [d EXCEPT !.passed = kept]
  BY <1>1 DEF Forgotten, States
<1>3. Forgotten(d) \in States
  BY KilledType
<1> HIDE DEF d, kept
<1>4. Forgotten(d).passed = kept /\ Forgotten(d).stage = d.stage /\ Forgotten(d).at = d.at
      /\ Forgotten(d).pc = d.pc
  BY <1>1, <1>2 DEF States
<1>5. \A s \in Stages : kept[s] = IF q.passed[s] # None /\ q.passed[s].redis
                                 THEN q.passed[s] ELSE None
  BY <1>1 DEF kept
<1> QED BY <1>1, <1>3, <1>4, <1>5 DEF d

-----------------------------------------------------------------------------
(* Request r becomes q; Adds: it is counted where it stands. *)
Turns(r, q) == req' = [req EXCEPT ![r] = q]
PassOf(r) == <<r, req[r].stage>>
Adds(r, q) == q.passed = [req[r].passed EXCEPT ![req[r].stage] = PassNow]

(* What a step leaves of who passed under a key, and when. *)
LEMMA TimesKept ==
  ASSUME NEW b, NEW k,
         \A r \in Requests, s \in Stages :
           LET x == req[r].passed[s]
               y == req'[r].passed[s]
           IN  KeyAt(r, s) = k /\ ((x # None /\ x.redis = b) \/ (y # None /\ y.redis = b))
                 => y = x
  PROVE  Passed(b, k)' = Passed(b, k) /\ Times(b, k)' = Times(b, k)
<1>1. \A p \in Requests \X Stages : p[1] \in Requests /\ p[2] \in Stages
  OBVIOUS
<1>2. Passed(b, k)' = Passed(b, k)
  BY <1>1 DEF Passed
<1>3. \A p \in Passed(b, k) : req'[p[1]].passed[p[2]] = req[p[1]].passed[p[2]]
  BY <1>1 DEF Passed
<1> QED BY <1>2, <1>3 DEF Times

LEMMA TimesUnmoved ==
  ASSUME TypeOK, NEW r \in Requests, NEW q, req' = [req EXCEPT ![r] = q],
         q.passed = req[r].passed, NEW b, NEW k
  PROVE  Passed(b, k)' = Passed(b, k) /\ Times(b, k)' = Times(b, k)
<1>1. \A p \in Requests : req'[p].passed = req[p].passed
  BY Moved
<1> QED BY <1>1, TimesKept

LEMMA TimesOther ==
  ASSUME TypeOK, Fresh, NEW r \in Requests, NEW q, Turns(r, q),
         req[r].pc = "count",
         Adds(r, q),
         NEW b, NEW k, b # redis \/ k # Key(r)
  PROVE  Passed(b, k)' = Passed(b, k) /\ Times(b, k)' = Times(b, k)
<1>1. req[r].stage \in Stages /\ req[r].passed \in [Stages -> Passes \cup {None}]
  BY DEF TypeOK, States
<1>2. \A p \in Requests : p # r => req'[p].passed = req[p].passed
  BY Moved DEF Turns
<1>3. \A s \in Stages : s # req[r].stage => req'[r].passed[s] = req[r].passed[s]
  BY <1>1, Moved DEF Turns, Adds
<1>4. req'[r].passed[req[r].stage] = PassNow /\ req[r].passed[req[r].stage] = None
  <2>1. req'[r].passed[req[r].stage] = PassNow
    <3>1. req'[r] = q
      BY Moved DEF Turns
    <3>2. q.passed[req[r].stage] = PassNow
      BY <1>1 DEF Adds
    <3> QED BY <3>1, <3>2
  <2>2. req[r].passed[req[r].stage] = None
    BY Zenon DEF Fresh
  <2> QED BY <2>1, <2>2
<1>5. KeyAt(r, req[r].stage) = k => PassNow.redis # b
  BY DEF Key, PassNow
<1> QED BY <1>2, <1>3, <1>4, <1>5, TimesKept

LEMMA TimesAdded ==
  ASSUME TypeOK, Fresh, NEW r \in Requests, NEW q, Turns(r, q),
         req[r].pc = "count", Adds(r, q),
         NEW b, b = redis, NEW k, k = Key(r), NEW e, e = PassOf(r)
  PROVE  Longer(Times(b, k), Times(b, k)', e, now)
<1> DEFINE s == req[r].stage
<1>0. e = <<r, s>>
  BY DEF PassOf
<1>1. s \in Stages /\ req[r].passed \in [Stages -> Passes \cup {None}]
  BY DEF TypeOK, States
<1>2. \A p \in Requests : p # r => req'[p].passed = req[p].passed
  BY Moved DEF Turns
<1>3. \A z \in Stages : z # s => req'[r].passed[z] = req[r].passed[z]
  BY <1>1, Moved DEF Turns, Adds
<1>4. req'[r].passed[s] = PassNow /\ req[r].passed[s] = None
  <2>1. req'[r].passed[s] = PassNow
    <3>1. req'[r] = q
      BY Moved DEF Turns
    <3>2. q.passed[s] = PassNow
      BY <1>1 DEF Adds
    <3> QED BY <3>1, <3>2
  <2>2. req[r].passed[req[r].stage] = None
    BY Zenon DEF Fresh
  <2> QED BY <2>1, <2>2
<1>5. KeyAt(r, s) = k /\ PassNow.redis = b /\ PassNow.at = now
  BY DEF Key, PassNow
<1>6. PassNow # None
  BY NoneForm DEF PassNow, TypeOK
<1>7. \A p \in Requests \X Stages :
        /\ p[1] \in Requests /\ p[2] \in Stages
        /\ p # <<r, s>> => req'[p[1]].passed[p[2]] = req[p[1]].passed[p[2]]
  <2> TAKE p \in Requests \X Stages
  <2>1. p[1] \in Requests /\ p[2] \in Stages /\ p = <<p[1], p[2]>>
    OBVIOUS
  <2> QED BY <1>2, <1>3, <2>1
<1>8. <<r, s>> \in Requests \X Stages
  BY <1>1
<1>9. <<r, s>> \notin Passed(b, k)
  BY <1>4 DEF Passed
<1>10. Passed(b, k)' = Passed(b, k) \cup {<<r, s>>}
  <2>1. <<r, s>> \in Passed(b, k)'
    BY <1>4, <1>5, <1>6, <1>8 DEF Passed
  <2>2. ASSUME NEW p \in Requests \X Stages, p # <<r, s>>
        PROVE  p \in Passed(b, k)' <=> p \in Passed(b, k)
    BY <1>7, <2>2 DEF Passed
  <2>3. Passed(b, k)' \subseteq Requests \X Stages /\ Passed(b, k) \subseteq Requests \X Stages
    BY DEF Passed
  <2> QED BY <2>1, <2>2, <2>3
<1>11. DOMAIN Times(b, k) = Passed(b, k) /\ DOMAIN Times(b, k)' = Passed(b, k)'
  BY DEF Times
<1>12. Times(b, k)'[<<r, s>>] = now
  BY <1>4, <1>5, <1>10 DEF Times
<1>13. ASSUME NEW p \in Passed(b, k) PROVE Times(b, k)'[p] = Times(b, k)[p]
  <2>1. p \in Passed(b, k)' /\ p # <<r, s>> /\ p \in Requests \X Stages
    BY <1>9, <1>10 DEF Passed
  <2>2. req'[p[1]].passed[p[2]] = req[p[1]].passed[p[2]]
    BY <1>7, <2>1
  <2> QED BY <2>1, <2>2 DEF Times
<1> QED BY <1>0, <1>9, <1>10, <1>11, <1>12, <1>13 DEF Longer

-----------------------------------------------------------------------------
(* What a step may do to the record of a request. *)
Step(r, q) ==
  /\ q \in States /\ q.at \in {req[r].at, now, 0}
  /\ \/ q.passed = req[r].passed
     \/ q.passed = [req[r].passed EXCEPT ![req[r].stage] = PassNow]
  /\ q.stage = "user" => req[r].stage = "user"
  /\ q.pc \in {"idle", "count"} =>
       \/ req[r].pc = "idle" /\ q.stage = req[r].stage /\ q.passed = req[r].passed
       \/ req[r].stage = "user" /\ q.stage = "addr"

LEMMA Numbers ==
  ASSUME TypeOK
  PROVE  /\ now \in Nat /\ limit \in Nat /\ limit > 0
         /\ Window \in Nat /\ Window > 0 /\ Lag \in Nat /\ Deadline \in Nat
         /\ Window \in Int /\ Window - Lag \in Int
<1>1. now \in Nat /\ limit \in Nat \ {0}
  BY NumbersForm DEF TypeOK
<1>2. Window \in Nat \ {0} /\ Lag \in Nat /\ Deadline \in Nat
  BY NumbersForm
<1> QED BY <1>1, <1>2

LEMMA StateForm ==
  ASSUME TypeOK, NEW r \in Requests
  PROVE  /\ req[r] \in States /\ req[r].stage \in {"user", "addr"}
         /\ req[r].passed \in [Stages -> Passes \cup {None}]
         /\ req[r].at \in Nat /\ now \in Nat /\ redis \in BOOLEAN
         /\ Key(r) \in Keys /\ limit \in Nat \ {0}
<1>1. req[r] \in States
  BY DEF TypeOK
<1>2. req[r].stage \in Stages /\ Key(r) \in Keys
  BY <1>1, KeyTypes DEF States, Key
<1> QED BY <1>1, <1>2, NumbersForm DEF States, Stages, TypeOK

LEMMA ProceedsStep ==
  ASSUME TypeOK, NEW r \in Requests
  PROVE  Step(r, Proceeds(req[r]))
BY StateForm, ProceedsForm DEF Step

LEMMA AdmitStep ==
  ASSUME TypeOK, NEW r \in Requests
  PROVE  Step(r, Admit(req[r]))
BY StateForm, AdmitForm DEF Step

LEMMA WaitsStep ==
  ASSUME TypeOK, NEW r \in Requests
  PROVE  Step(r, [Counted(req[r]) EXCEPT !.pc = "expire"])
BY StateForm, WaitsForm DEF Step

LEMMA EndsStep ==
  ASSUME TypeOK, NEW r \in Requests
  PROVE  Step(r, Ends(req[r], "refused"))
BY StateForm, EndsForm DEF Step

LEMMA ArriveStep ==
  ASSUME TypeOK, NEW r \in Requests, req[r].pc = "idle"
  PROVE  Step(r, [req[r] EXCEPT !.pc = "count", !.at = now])
<1> DEFINE q == [req[r] EXCEPT !.pc = "count", !.at = now]
<1>1. q \in States
  BY StateForm, ArriveType
<1>2. q.at = now /\ q.passed = req[r].passed /\ q.stage = req[r].stage
  BY StateForm DEF States
<1> HIDE DEF q
<1>3. Step(r, q)
  BY <1>1, <1>2 DEF Step
<1> QED BY <1>3 DEF q

LEMMA StepKeeps ==
  ASSUME TypeOK, Past, Fresh, NEW r \in Requests, NEW q, req' = [req EXCEPT ![r] = q],
         Step(r, q), UNCHANGED now
  PROVE  Past' /\ Fresh'
<1>1. req'[r] = q /\ \A p \in Requests : p # r => req'[p] = req[p]
  BY Moved
<1>2. /\ req[r].stage \in {"user", "addr"} /\ req[r].at \in Nat /\ now \in Nat
      /\ req[r].passed \in [Stages -> Passes \cup {None}]
  BY StateForm
<1>3. q.at <= now
  BY <1>2 DEF Step, Past
<1>4. \A s \in Stages : q.passed[s] = req[r].passed[s] \/ q.passed[s] = PassNow
  BY <1>2 DEF Step
<1>5. \A s \in Stages : q.passed[s] # None => q.passed[s].at <= now
  <2> TAKE s \in Stages
  <2>1. CASE q.passed[s] = req[r].passed[s]
    BY <2>1 DEF Past
  <2>2. CASE q.passed[s] = PassNow
    <3>1. PassNow.at = now /\ now <= now
      BY <1>2 DEF PassNow
    <3> QED BY <2>2, <3>1
  <2> QED BY <1>4, <2>1, <2>2
<1>6. Past'
  BY <1>1, <1>3, <1>5 DEF Past
<1>7. req[r].stage = "user" => q.passed["addr"] = None
  <2> SUFFICES ASSUME req[r].stage = "user" PROVE q.passed["addr"] = None
    OBVIOUS
  <2>1. req[r].passed["addr"] = None
    BY DEF Fresh
  <2>2. q.passed["addr"] = req[r].passed["addr"]
    <3>1. CASE q.passed = req[r].passed
      BY <3>1
    <3>2. CASE q.passed = [req[r].passed EXCEPT !["user"] = PassNow]
      <4>1. "addr" \in Stages /\ "addr" # "user"
        BY DEF Stages
      <4> QED BY <1>2, <3>2, <4>1
    <3> QED BY <3>1, <3>2 DEF Step
  <2> QED BY <2>1, <2>2
<1>8. q.stage = "user" => q.passed["addr"] = None
  BY <1>7 DEF Step
<1>9. q.pc \in {"idle", "count"} => q.passed[q.stage] = None
  <2> SUFFICES ASSUME q.pc \in {"idle", "count"} PROVE q.passed[q.stage] = None
    OBVIOUS
  <2>1. CASE req[r].pc = "idle" /\ q.stage = req[r].stage /\ q.passed = req[r].passed
    BY <2>1 DEF Fresh
  <2>2. CASE req[r].stage = "user" /\ q.stage = "addr"
    BY <1>7, <2>2
  <2> QED BY <2>1, <2>2 DEF Step
<1>10. Fresh'
  BY <1>1, <1>8, <1>9 DEF Fresh
<1> QED BY <1>6, <1>10

LEMMA PastNext ==
  ASSUME TypeOK, Past, Fresh, [Next]_vars
  PROVE  Past' /\ Fresh' /\ now' \in Nat /\ now <= now'
<1>0. now \in Nat
  BY Numbers
<1>1. ASSUME NEW r \in Requests, Arrive(r) PROVE Past' /\ Fresh' /\ UNCHANGED now
  <2>1. req[r].pc = "idle" /\ UNCHANGED now
        /\ req' = [req EXCEPT ![r] = [req[r] EXCEPT !.pc = "count", !.at = now]]
    BY <1>1 DEF Arrive, TypeOK
  <2> QED BY <2>1, ArriveStep, StepKeeps
<1>2. ASSUME NEW r \in Requests, Allow(r) PROVE Past' /\ Fresh' /\ UNCHANGED now
  <2>1. \/ req' = [req EXCEPT ![r] = Admit(req[r])]
        \/ req' = [req EXCEPT ![r] = Ends(req[r], "refused")]
    BY <1>2 DEF Allow
  <2> QED BY <1>2, <2>1, AdmitStep, EndsStep, StepKeeps DEF Allow
<1>3. ASSUME NEW r \in Requests, Incr(r) PROVE Past' /\ Fresh' /\ UNCHANGED now
  <2>1. \/ req' = [req EXCEPT ![r] = Admit(req[r])]
        \/ req' = [req EXCEPT ![r] = Ends(req[r], "refused")]
        \/ req' = [req EXCEPT ![r] = [Counted(req[r]) EXCEPT !.pc = "expire"]]
    BY <1>3 DEF Incr
  <2> QED BY <1>3, <2>1, AdmitStep, EndsStep, WaitsStep, StepKeeps DEF Incr
<1>4. ASSUME NEW r \in Requests, IncrFails(r) PROVE Past' /\ Fresh' /\ UNCHANGED now
  <2>1. \/ req' = [req EXCEPT ![r] = Admit(req[r])]
        \/ req' = [req EXCEPT ![r] = Proceeds(req[r])]
    BY <1>4 DEF IncrFails
  <2> QED BY <1>4, <2>1, AdmitStep, ProceedsStep, StepKeeps DEF IncrFails
<1>5. ASSUME NEW r \in Requests, Expire(r) \/ ExpireFails(r)
      PROVE  Past' /\ Fresh' /\ UNCHANGED now
  BY <1>5, ProceedsStep, StepKeeps DEF Expire, ExpireFails
<1>9. ASSUME NEW r \in Requests, IncrAgain(r) \/ ExpireAgain(r)
      PROVE  Past' /\ Fresh' /\ UNCHANGED now
  <2>1. UNCHANGED <<req, now>>
    BY <1>9 DEF IncrAgain, ExpireAgain
  <2> QED BY <2>1 DEF Past, Fresh
<1>6. ASSUME Restart PROVE Past' /\ Fresh' /\ UNCHANGED now
  <2>1. \A r \in Requests : req'[r] = Forgotten(Killed(req[r]))
    BY <1>6 DEF Restart
  <2>2. ASSUME NEW r \in Requests
        PROVE  /\ req'[r].at <= now
               /\ \A s \in Stages : req'[r].passed[s] # None => req'[r].passed[s].at <= now
               /\ req'[r].stage = "user" => req'[r].passed["addr"] = None
               /\ req'[r].pc \in {"idle", "count"} => req'[r].passed[req'[r].stage] = None
    <3> DEFINE e == req'[r]
    <3>1. /\ e.stage = req[r].stage /\ e.at \in {req[r].at, 0}
          /\ e.pc \notin {"count", "expire"} /\ (e.pc = "idle" => req[r].pc = "idle")
          /\ \A s \in Stages : e.passed[s] = None \/ e.passed[s] = req[r].passed[s]
      BY <2>1, StateForm, ForgottenForm
    <3>2. req[r].stage \in Stages /\ "addr" \in Stages
      BY StateForm DEF Stages
    <3> HIDE DEF e
    <3>3. e.at <= now
      BY <1>0, <3>1 DEF Past
    <3>4. \A s \in Stages : e.passed[s] # None => e.passed[s].at <= now
      BY <3>1 DEF Past
    <3>5. e.stage = "user" => e.passed["addr"] = None
      BY <3>1, <3>2 DEF Fresh
    <3>6. e.pc \in {"idle", "count"} => e.passed[e.stage] = None
      BY <3>1, <3>2 DEF Fresh
    <3> QED BY <3>3, <3>4, <3>5, <3>6 DEF e
  <2>3. now' = now
    BY <1>6 DEF Restart
  <2> QED BY <2>2, <2>3 DEF Past, Fresh
<1>7. ASSUME Tick PROVE Past' /\ Fresh' /\ now' = now + 1
  <2>1. req' = req /\ now' = now + 1
    BY <1>7 DEF Tick
  <2>2. \A r \in Requests : req[r].at \in Nat /\ \A s \in Stages :
          req[r].passed[s] # None => req[r].passed[s].at \in Nat
    BY StateForm DEF Passes
  <2>3. Past'
    BY <1>0, <2>1, <2>2 DEF Past
  <2> QED BY <2>1, <2>3 DEF Fresh
<1>8. ASSUME UNCHANGED vars PROVE Past' /\ Fresh' /\ UNCHANGED now
  BY <1>8 DEF vars, Past, Fresh
<1> QED
  BY <1>0, <1>1, <1>2, <1>3, <1>4, <1>5, <1>6, <1>7, <1>8, <1>9 DEF Next, Stop

-----------------------------------------------------------------------------
(* A step that adds nothing to the counter of k leaves its epoch. *)
LEMMA RedisSame ==
  ASSUME NEW k, NEW T, NEW C, RedisForm(k, T, C),
         Passed(TRUE, k)' = Passed(TRUE, k), Times(TRUE, k)' = Times(TRUE, k),
         counter'[k] = counter[k], ends'[k] = ends[k],
         repeats'[k] = repeats[k], limit' = limit,
         \A r \in Requests : req'[r].pc = "expire" /\ Key(r)' = k =>
           req[r].pc = "expire" /\ Key(r) = k /\ req'[r].at = req[r].at
  PROVE  RedisForm(k, T, C)'
<1>1. Epochs(Times(TRUE, k), Window, limit, T, C)'
  BY DEF RedisForm
<1>2. CountForm(Cardinality(C), counter[k], repeats[k])'
  BY DEF RedisForm, CountForm
<1> QED BY <1>1, <1>2 DEF RedisForm

LEMMA RedisMoved ==
  ASSUME TypeOK, NEW r \in Requests, NEW q, req' = [req EXCEPT ![r] = q],
         NEW k, q.pc = "expire" => KeyAt(r, q.stage) # k,
         NEW T, NEW C, RedisForm(k, T, C),
         Passed(TRUE, k)' = Passed(TRUE, k), Times(TRUE, k)' = Times(TRUE, k),
         counter'[k] = counter[k], ends'[k] = ends[k],
         repeats'[k] = repeats[k], limit' = limit
  PROVE  RedisForm(k, T, C)'
<1>1. req'[r] = q /\ \A p \in Requests : p # r => req'[p] = req[p]
  BY Moved
<1>2. ASSUME NEW p \in Requests, req'[p].pc = "expire", Key(p)' = k
      PROVE  req[p].pc = "expire" /\ Key(p) = k /\ req'[p].at = req[p].at
  <2>1. Key(p)' = KeyAt(p, req'[p].stage)
    BY DEF Key, KeyAt
  <2>2. p # r
    BY <1>1, <1>2, <2>1
  <2> QED BY <1>1, <1>2, <2>1, <2>2 DEF Key
<1> QED BY <1>2, RedisSame

(* Nobody passed in the future. *)
LEMMA TimesPast ==
  ASSUME TypeOK, Past, NEW b, NEW k
  PROVE  \A p \in DOMAIN Times(b, k) : Times(b, k)[p] <= now
<1> TAKE p \in DOMAIN Times(b, k)
<1>1. p \in Passed(b, k) /\ Times(b, k)[p] = req[p[1]].passed[p[2]].at
  BY DEF Times
<1>2. p[1] \in Requests /\ p[2] \in Stages /\ req[p[1]].passed[p[2]] # None
  BY <1>1 DEF Passed
<1> QED BY <1>1, <1>2 DEF Past

(* The counter of k is started: the epochs before it are over. *)
LEMMA RedisStarts ==
  ASSUME TypeOK, Past, NEW k \in Keys, Answer(k) = 1,
         NEW T \in 0..now, NEW C, RedisForm(k, T, C)
  PROVE  Epochs(Times(TRUE, k), Window, limit, now, {})
<1> DEFINE f == Times(TRUE, k)
<1>1. now \in Nat /\ limit \in Nat /\ Window \in Int /\ T \in Nat /\ T <= now
  BY Numbers
<1>2. Epochs(f, Window, limit, T, C)
  BY DEF RedisForm
<1>5. \A p \in DOMAIN f : f[p] <= now
  BY TimesPast, Zenon
<1> HIDE DEF f
<1>3. CASE Gone(k)
  <2>1. ends[k] \in Nat /\ ends[k] <= now /\ T + Window <= ends[k]
    BY <1>1, <1>3 DEF Gone, RedisForm, TypeOK
  <2>2. T + Window <= now
    BY <1>1, <2>1
  <2> QED BY <1>1, <1>2, <1>5, <2>2, EpochsOver, Zenon DEF f
<1>4. CASE ~Gone(k)
  <2>1. counter[k] = 0
    BY <1>4 DEF Answer, TypeOK
  <2>3. IsFiniteSet(C) /\ Cardinality(C) \in Nat
    BY <1>1, <1>2, EpochsFinite
  <2>2. Cardinality(C) = 0
    <3>1. Cardinality(C) <= 0
      BY <2>1 DEF RedisForm, CountForm
    <3> QED BY <2>3, <3>1
  <2>4. C = {}
    BY <2>2, <2>3, FS_EmptySet
  <2>5. Epochs(f, Window, limit, T, {})
    BY <1>2, <2>4
  <2> QED BY <1>1, <2>5, EpochsLater, Zenon DEF f
<1> QED BY <1>3, <1>4

(* INCR under k, of a request that passes. *)
LEMMA RedisCounts ==
  ASSUME TypeOK, Past, Fresh, NEW r \in Requests, NEW q, Turns(r, q),
         req[r].pc = "count", redis, NEW k \in Keys, k = Key(r), Increment(k), Once(k),
         Adds(r, q),
         Answer(k) <= limit, q.at \in {req[r].at, 0},
         q.pc = "expire" => Answer(k) = 1, UNCHANGED <<now, limit>>,
         NEW T \in 0..now, NEW C, RedisForm(k, T, C)
  PROVE  \E T2, C2 : T2 \in 0..now' /\ RedisForm(k, T2, C2)'
<1> DEFINE e == PassOf(r)
           f == Times(TRUE, k)
           g == Times(TRUE, k)'
<1>1. /\ now \in Nat /\ limit \in Nat /\ limit > 0 /\ Window \in Int /\ T \in Nat /\ T <= now
      /\ counter[k] \in Nat /\ ends[k] \in Nat \cup {None}
  BY Numbers DEF TypeOK
<1>2. Longer(f, g, e, now)
  <2>1. TRUE = redis
    BY StateForm
  <2> QED BY <2>1, TimesAdded
<1>3. /\ counter'[k] = Answer(k) /\ ends'[k] = IF Gone(k) THEN None ELSE ends[k]
      /\ repeats'[k] = (IF Answer(k) = 1 THEN 0 ELSE repeats[k])
      /\ repeats[k] \in Nat /\ limit' = limit
  BY DEF Increment, Once, Repeats, TypeOK
<1>4. req'[r] = q /\ \A p \in Requests : p # r => req'[p] = req[p]
  BY Moved DEF Turns
<1>5. \A p \in Requests : p # r => Key(p)' = Key(p)
  BY <1>4 DEF Key, KeyAt
<1>6. DOMAIN g = Passed(TRUE, k)'
  BY DEF Times
<1>7. CASE Answer(k) = 1
  <2>1. Epochs(f, Window, limit, now, {})
    BY <1>7, RedisStarts
  <2>2. Cardinality({}) = 0 /\ Cardinality({}) < limit /\ now <= now
    BY <1>1, FS_EmptySet
  <2> HIDE DEF f, g
  <2>0. PICK U \in Nat : U = now
    BY <1>1
  <2>3. PICK D : Epochs(g, Window, limit, U, D) /\ Cardinality(D) = Cardinality({}) + 1
    BY <1>1, <1>2, <2>0, <2>1, <2>2, EpochsAdd
  <2>4. Epochs(Times(TRUE, k), Window, limit, U, D)'
    <3>1. Epochs(Times(TRUE, k)', Window, limit', U, D)
      BY <2>3 DEF g
    <3> QED BY <3>1, Zenon DEF Epochs, Recent, Within
  <2>5. ends'[k] = None /\ counter'[k] = 1
    <3>1. CASE Gone(k)
      BY <1>3, <1>7, <3>1
    <3>2. CASE ~Gone(k)
      <4>1. counter[k] = 0
        BY <1>1, <1>7, <3>2 DEF Answer
      <4>2. ends[k] # None => counter[k] > 0
        BY DEF RedisForm
      <4> QED BY <1>3, <1>7, <3>2, <4>1, <4>2
    <3> QED BY <3>1, <3>2
  <2>6. ASSUME NEW p \in Requests, req'[p].pc = "expire", Key(p)' = k
        PROVE  req'[p].at <= U
    <3>1. req[p].at <= now /\ req[r].at <= now
      BY DEF Past
    <3>2. CASE p = r
      BY <1>1, <1>4, <2>0, <3>1, <3>2
    <3>3. CASE p # r
      BY <1>4, <2>0, <3>1, <3>3
    <3> QED BY <3>2, <3>3
  <2>7. CountForm(Cardinality(D), counter[k], repeats[k])'
    <3>1. Cardinality(D) = 1 /\ repeats'[k] = 0
      BY <1>3, <1>7, <2>2, <2>3
    <3> QED BY <2>5, <3>1 DEF CountForm
  <2>8. RedisForm(k, U, D)'
    <3>1. counter'[k] > 0
      BY <2>5
    <3>2. ~(ends'[k] # None)
      BY <2>5
    <3> QED BY <2>4, <2>6, <2>7, <3>1, <3>2, Zenon DEF RedisForm
  <2>9. U \in 0..now'
    BY <1>1, <2>0
  <2> QED BY <2>8, <2>9
<1>8. CASE Answer(k) # 1
  <2>1. ~Gone(k) /\ Answer(k) = counter[k] + 1 /\ counter[k] < limit /\ ends'[k] = ends[k]
    BY <1>1, <1>3, <1>8 DEF Answer
  <2>2. /\ Epochs(f, Window, limit, T, C)
        /\ Cardinality(C) <= counter[k]
        /\ \/ Cardinality(C) + repeats[k] >= counter[k]
           \/ Cardinality(C) + repeats[k] >= limit
    BY DEF RedisForm, CountForm
  <2>0. Cardinality(C) \in Nat
    BY <1>1, <2>2, EpochsFinite
  <2> HIDE DEF f, g
  <2>3. PICK D : Epochs(g, Window, limit, T, D) /\ Cardinality(D) = Cardinality(C) + 1
    <3>1. Cardinality(C) < limit /\ T <= now
      BY <1>1, <2>0, <2>1, <2>2
    <3> QED BY <1>1, <1>2, <2>2, <3>1, EpochsAdd
  <2>4. Epochs(Times(TRUE, k), Window, limit, T, D)'
    <3>1. Epochs(Times(TRUE, k)', Window, limit', T, D)
      BY <2>3 DEF g
    <3> QED BY <3>1, Zenon DEF Epochs, Recent, Within
  <2>5. CountForm(Cardinality(D), counter[k], repeats[k])'
    <3>1. counter'[k] = counter[k] + 1 /\ repeats'[k] = repeats[k]
      BY <1>3, <1>8, <2>1
    <3>2. /\ Cardinality(D) <= counter'[k]
          /\ \/ Cardinality(D) + repeats'[k] >= counter'[k]
             \/ Cardinality(D) + repeats'[k] >= limit'
      BY <1>1, <1>3, <2>0, <2>2, <2>3, <3>1
    <3> QED BY <3>2 DEF CountForm
  <2>6. ASSUME ends'[k] # None
        PROVE  /\ counter'[k] > 0 /\ T + Window <= ends'[k]
               /\ ends'[k] <= T + Window + Deadline
               /\ \A p \in Passed(TRUE, k)' : g[p] < ends'[k]
    <3>1. /\ T + Window <= ends[k] /\ ends[k] <= T + Window + Deadline
          /\ \A p \in DOMAIN f : f[p] < ends[k]
      BY <2>1, <2>6 DEF RedisForm, f, Times
    <3>2. now < ends[k]
      BY <1>1, <2>1, <2>6 DEF Gone
    <3>3. \A p \in DOMAIN g : g[p] < ends[k]
      BY <1>2, <3>1, <3>2 DEF Longer
    <3>4. counter'[k] > 0
      BY <1>1, <1>3, <2>1
    <3>5. \A p \in Passed(TRUE, k)' : g[p] < ends[k]
      BY <1>6, <3>3
    <3> QED BY <2>1, <3>1, <3>4, <3>5
  <2>7. ASSUME NEW p \in Requests, req'[p].pc = "expire", Key(p)' = k
        PROVE  req'[p].at <= T /\ counter'[k] > 0
    <3>1. p # r
      BY <1>4, <1>8, <2>7
    <3>2. req'[p] = req[p] /\ Key(p) = k
      BY <1>4, <1>5, <2>7, <3>1
    <3> QED BY <1>1, <1>3, <2>1, <2>7, <3>2 DEF RedisForm
  <2>8. RedisForm(k, T, D)'
    BY <2>4, <2>5, <2>6, <2>7 DEF RedisForm, g
  <2>9. T \in 0..now'
    BY <1>1
  <2> QED BY <2>8, <2>9
<1> QED BY <1>7, <1>8

(* EXPIRE under k, the first time or again. *)
LEMMA RedisEnds ==
  ASSUME TypeOK, Past, NEW r \in Requests, req[r].pc = "expire", InTime(r),
         Expire(r) \/ ExpireAgain(r), NEW k \in Keys, k = Key(r),
         NEW T \in 0..now, NEW C, RedisForm(k, T, C)
  PROVE  RedisForm(k, T, C)'
<1>1. /\ now \in Nat /\ Window \in Nat /\ Window > 0 /\ Deadline \in Nat /\ T \in Nat
      /\ T <= now /\ ends[k] \in Nat \cup {None}
  BY Numbers DEF TypeOK
<1>2. /\ now <= req[r].at + Deadline /\ SetEnd(k) /\ counter' = counter
      /\ repeats' = repeats /\ limit' = limit /\ now' = now /\ req[r].at \in Nat
      /\ req' = req \/ Turns(r, Proceeds(req[r]))
  BY StateForm DEF Expire, ExpireAgain, InTime, Turns
<1>3. Proceeds(req[r]).passed = req[r].passed /\ Proceeds(req[r]).pc # "expire"
  BY StateForm, ProceedsForm
<1>4. Passed(TRUE, k)' = Passed(TRUE, k) /\ Times(TRUE, k)' = Times(TRUE, k)
  <2>1. CASE req' = req
    BY <2>1, TimesKept
  <2>2. CASE Turns(r, Proceeds(req[r]))
    BY <1>3, <2>2, TimesUnmoved DEF Turns
  <2> QED BY <1>2, <2>1, <2>2
<1>5. \A p \in Requests : req'[p].pc = "expire" => req'[p] = req[p]
  BY <1>2, <1>3, Moved DEF Turns
<1>6. req[r].at <= T /\ counter[k] > 0
  BY DEF RedisForm
<1>7. Epochs(Times(TRUE, k), Window, limit, T, C)'
  BY <1>2, <1>4 DEF RedisForm
<1>8. CountForm(Cardinality(C), counter[k], repeats[k])'
  BY <1>2 DEF RedisForm, CountForm
<1>9. ASSUME ends'[k] # None
      PROVE  /\ counter'[k] > 0 /\ T + Window <= ends'[k] /\ ends'[k] <= T + Window + Deadline
             /\ \A p \in Passed(TRUE, k)' : Times(TRUE, k)'[p] < ends'[k]
  <2>1. \A p \in Passed(TRUE, k) : Times(TRUE, k)[p] <= now /\ Times(TRUE, k)[p] \in Nat
    <3>1. \A p \in DOMAIN Times(TRUE, k) : Times(TRUE, k)[p] <= now
      BY TimesPast, Zenon
    <3>2. \A p \in DOMAIN Times(TRUE, k) : Times(TRUE, k)[p] \in Nat
      BY DEF RedisForm, Epochs
    <3> QED BY <3>1, <3>2 DEF Times
  <2>2. CASE Gone(k)
    <3>1. ends'[k] = ends[k]
      BY <1>2, <2>2 DEF SetEnd, TypeOK
    <3>2. /\ T + Window <= ends[k] /\ ends[k] <= T + Window + Deadline
          /\ \A p \in Passed(TRUE, k) : Times(TRUE, k)[p] < ends[k]
      BY <1>9, <3>1 DEF RedisForm
    <3> QED BY <1>2, <1>4, <1>6, <3>1, <3>2
  <2>3. CASE ~Gone(k)
    <3>1. ends'[k] = now + Window
      BY <1>2, <2>3 DEF SetEnd, TypeOK
    <3>2. T + Window <= now + Window /\ now + Window <= T + Window + Deadline
      BY <1>1, <1>2, <1>6
    <3>3. \A n \in Nat : n <= now => n < now + Window
      BY <1>1
    <3>4. \A p \in Passed(TRUE, k) : Times(TRUE, k)[p] < ends'[k]
      BY <2>1, <3>1, <3>3
    <3> QED BY <1>2, <1>4, <1>6, <3>1, <3>2, <3>4
  <2> QED BY <2>2, <2>3
<1>10. ASSUME NEW p \in Requests, req'[p].pc = "expire", Key(p)' = k
       PROVE  req'[p].at <= T /\ counter'[k] > 0
  <2>1. req'[p] = req[p]
    BY <1>5, <1>10
  <2>2. Key(p) = k
    BY <1>10, <2>1 DEF Key, KeyAt
  <2> QED BY <1>2, <1>10, <2>1, <2>2 DEF RedisForm
<1> QED BY <1>7, <1>8, <1>9, <1>10, Zenon DEF RedisForm

(* Somebody moves who is not counted in the counter of k. *)
LEMMA RedisPassed ==
  ASSUME TypeOK, NEW r \in Requests, NEW q, Turns(r, q), q.passed = req[r].passed,
         q.pc # "expire", NEW k, NEW T, NEW C, RedisForm(k, T, C),
         counter'[k] = counter[k], ends'[k] = ends[k],
         repeats'[k] = repeats[k], limit' = limit
  PROVE  RedisForm(k, T, C)'
<1>1. Passed(TRUE, k)' = Passed(TRUE, k) /\ Times(TRUE, k)' = Times(TRUE, k)
  BY TimesUnmoved DEF Turns
<1> QED BY <1>1, RedisMoved DEF Turns

LEMMA RedisElsewhere ==
  ASSUME TypeOK, Fresh, NEW r \in Requests, NEW q, Turns(r, q), Adds(r, q),
         req[r].pc = "count", NEW k, ~redis \/ k # Key(r),
         q.pc = "expire" => KeyAt(r, q.stage) # k, NEW T, NEW C, RedisForm(k, T, C),
         counter'[k] = counter[k], ends'[k] = ends[k],
         repeats'[k] = repeats[k], limit' = limit
  PROVE  RedisForm(k, T, C)'
<1>1. Passed(TRUE, k)' = Passed(TRUE, k) /\ Times(TRUE, k)' = Times(TRUE, k)
  <2>1. TRUE # redis \/ k # Key(r)
    BY StateForm
  <2> QED BY <2>1, TimesOther
<1> QED BY <1>1, RedisMoved DEF Turns

(* INCR, answered or not, and how the request goes on. *)
LEMMA RedisIncr ==
  ASSUME TypeOK, Past, Fresh, NEW r \in Requests, NEW q, Turns(r, q),
         req[r].pc = "count", redis, Increment(Key(r)), Once(Key(r)),
         UNCHANGED <<now, limit>>,
         q.pc = "expire" => Answer(Key(r)) = 1 /\ q.stage = req[r].stage,
         \/ Adds(r, q) /\ Answer(Key(r)) <= limit /\ q.at \in {req[r].at, 0}
         \/ q.passed = req[r].passed /\ Answer(Key(r)) > limit,
         NEW k \in Keys, NEW T \in 0..now, NEW C, RedisForm(k, T, C)
  PROVE  \E T2, C2 : T2 \in 0..now' /\ RedisForm(k, T2, C2)'
<1>0. /\ now \in Nat /\ limit \in Nat /\ limit > 0 /\ T \in Nat /\ T <= now /\ Key(r) \in Keys
  BY StateForm
<1>1. T \in 0..now'
  BY <1>0
<1>2. CASE Key(r) # k
  <2>1. counter'[k] = counter[k] /\ ends'[k] = ends[k] /\ repeats'[k] = repeats[k]
    BY <1>0, <1>2, IncrementType, RepeatsType
  <2>2. CASE Adds(r, q)
    <3>1. q.pc = "expire" => KeyAt(r, q.stage) # k
      BY <1>2 DEF Key
    <3>2. RedisForm(k, T, C)'
      BY <1>2, <2>1, <2>2, <3>1, RedisElsewhere
    <3> QED BY <1>1, <3>2
  <2>3. CASE q.passed = req[r].passed /\ Answer(Key(r)) > limit
    <3>1. q.pc # "expire"
      BY <1>0, <2>3
    <3>2. RedisForm(k, T, C)'
      BY <2>1, <2>3, <3>1, RedisPassed
    <3> QED BY <1>1, <3>2
  <2> QED BY <2>2, <2>3
<1>3. CASE Key(r) = k
  <2>1. CASE Adds(r, q) /\ Answer(Key(r)) <= limit /\ q.at \in {req[r].at, 0}
    BY <1>3, <2>1, RedisCounts
  <2>2. CASE q.passed = req[r].passed /\ Answer(Key(r)) > limit
    <3>1. q.pc # "expire" /\ Answer(k) # 1
      BY <1>0, <1>3, <2>2
    <3>2. /\ counter'[k] = counter[k] + 1 /\ ends'[k] = ends[k] /\ counter[k] \in Nat
          /\ counter[k] > 0 /\ counter[k] >= limit
          /\ repeats'[k] = repeats[k] /\ repeats[k] \in Nat
      <4>1. ~Gone(k) /\ Answer(k) = counter[k] + 1 /\ counter[k] \in Nat
        BY <3>1 DEF Answer, TypeOK
      <4>2. counter'[k] = Answer(k) /\ ends'[k] = ends[k]
        BY <1>3, <4>1 DEF Increment, TypeOK
      <4>3. repeats'[k] = repeats[k] /\ repeats[k] \in Nat
        BY <1>3, <3>1 DEF Once, Repeats, TypeOK
      <4> QED BY <1>0, <1>3, <2>2, <4>1, <4>2, <4>3
    <3>3. Passed(TRUE, k)' = Passed(TRUE, k) /\ Times(TRUE, k)' = Times(TRUE, k)
      BY <2>2, TimesUnmoved DEF Turns
    <3>4. req'[r] = q /\ \A p \in Requests : p # r => req'[p] = req[p]
      BY Moved DEF Turns
    <3>5. Epochs(Times(TRUE, k), Window, limit, T, C)'
      BY <3>3 DEF RedisForm
    <3>6. CountForm(Cardinality(C), counter[k], repeats[k])'
      <4>1. Cardinality(C) \in Nat
        BY <1>0, Numbers, EpochsFinite DEF RedisForm
      <4>2. /\ Cardinality(C) <= counter[k]
            /\ Cardinality(C) + repeats[k] >= limit
        BY <1>0, <3>2, <4>1 DEF RedisForm, CountForm
      <4> QED BY <1>0, <3>2, <4>1, <4>2 DEF CountForm
    <3>7. ends'[k] # None =>
            /\ counter'[k] > 0 /\ T + Window <= ends'[k] /\ ends'[k] <= T + Window + Deadline
            /\ \A p \in Passed(TRUE, k)' : Times(TRUE, k)'[p] < ends'[k]
      <4> SUFFICES ASSUME ends[k] # None
                   PROVE  /\ counter'[k] > 0
                          /\ T + Window <= ends[k] /\ ends[k] <= T + Window + Deadline
                          /\ \A p \in Passed(TRUE, k) : Times(TRUE, k)[p] < ends[k]
        BY <3>2, <3>3, Zenon
      <4>1. counter'[k] > 0
        BY <3>2
      <4> QED BY <4>1 DEF RedisForm
    <3>8. ASSUME NEW p \in Requests, req'[p].pc = "expire", Key(p)' = k
          PROVE  req'[p].at <= T /\ counter'[k] > 0
      <4>1. req'[p] = req[p]
        BY <3>1, <3>4, <3>8
      <4>2. Key(p) = k
        BY <3>8, <4>1 DEF Key, KeyAt
      <4> QED BY <3>2, <3>8, <4>1, <4>2 DEF RedisForm
    <3>9. RedisForm(k, T, C)'
      BY <3>5, <3>6, <3>7, <3>8, Zenon DEF RedisForm
    <3> QED BY <1>1, <3>9
  <2> QED BY <2>1, <2>2
<1> QED BY <1>2, <1>3

(* INCR that is sent again: nobody passes. *)
LEMMA RedisAgain ==
  ASSUME TypeOK, Past, NEW r \in Requests, IncrAgain(r), NEW k \in Keys, k = Key(r),
         NEW T \in 0..now, NEW C, RedisForm(k, T, C)
  PROVE  \E T2, C2 : T2 \in 0..now' /\ RedisForm(k, T2, C2)'
<1>1. /\ now \in Nat /\ limit \in Nat /\ limit > 0 /\ T \in Nat /\ T <= now /\ Window \in Int
      /\ counter[k] \in Nat /\ ends[k] \in Nat \cup {None} /\ repeats[k] \in Nat
  BY Numbers DEF TypeOK
<1>2. /\ counter'[k] = Answer(k) /\ ends'[k] = IF Gone(k) THEN None ELSE ends[k]
      /\ repeats'[k] = (IF Answer(k) = 1 THEN 0 ELSE repeats[k]) + 1
      /\ req' = req /\ now' = now /\ limit' = limit
  BY DEF IncrAgain, Increment, Again, Repeats, TypeOK
<1>3. Passed(TRUE, k)' = Passed(TRUE, k) /\ Times(TRUE, k)' = Times(TRUE, k)
  BY <1>2, TimesKept
<1>4. \A p \in Requests : Key(p)' = Key(p)
  BY <1>2 DEF Key, KeyAt
<1>5. T \in 0..now' /\ now \in 0..now'
  BY <1>1, <1>2
<1>6. CASE Answer(k) = 1
  <2>0. PICK U \in Nat : U = now
    BY <1>1
  <2>1. Epochs(Times(TRUE, k), Window, limit, U, {})
    BY <1>6, <2>0, RedisStarts
  <2>2. Epochs(Times(TRUE, k), Window, limit, U, {})'
    BY <1>2, <1>3, <2>1
  <2>3. ends'[k] = None /\ counter'[k] = 1 /\ repeats'[k] = 1
    <3>1. CASE Gone(k)
      BY <1>2, <1>6, <3>1
    <3>2. CASE ~Gone(k)
      <4>1. counter[k] = 0
        BY <1>1, <1>6, <3>2 DEF Answer
      <4>2. ends[k] # None => counter[k] > 0
        BY DEF RedisForm
      <4> QED BY <1>2, <1>6, <3>2, <4>1, <4>2
    <3> QED BY <3>1, <3>2
  <2>4. CountForm(Cardinality({}), counter[k], repeats[k])'
    <3>1. Cardinality({}) = 0
      BY FS_EmptySet
    <3> QED BY <2>3, <3>1 DEF CountForm
  <2>5. \A p \in Requests : req'[p].pc = "expire" /\ Key(p)' = k =>
          req'[p].at <= U /\ counter'[k] > 0
    BY <1>2, <2>0, <2>3 DEF Past
  <2>6. ~(ends'[k] # None)
    BY <2>3
  <2>7. RedisForm(k, U, {})'
    BY <2>2, <2>4, <2>5, <2>6, Zenon DEF RedisForm
  <2> QED BY <1>5, <2>0, <2>7
<1>7. CASE Answer(k) # 1
  <2>1. /\ ~Gone(k) /\ counter'[k] = counter[k] + 1 /\ ends'[k] = ends[k]
        /\ repeats'[k] = repeats[k] + 1
    BY <1>1, <1>2, <1>7 DEF Answer
  <2>2. Epochs(Times(TRUE, k), Window, limit, T, C)'
    BY <1>2, <1>3 DEF RedisForm
  <2>3. CountForm(Cardinality(C), counter[k], repeats[k])'
    <3>1. Cardinality(C) \in Nat
      BY <1>1, EpochsFinite DEF RedisForm
    <3> QED BY <1>1, <1>2, <2>1, <3>1 DEF RedisForm, CountForm
  <2>4. counter'[k] > 0
    BY <1>1, <2>1
  <2>5. \A p \in Requests : req'[p].pc = "expire" /\ Key(p)' = k =>
          req'[p].at <= T /\ counter'[k] > 0
    BY <1>2, <1>4, <2>4 DEF RedisForm
  <2>6. ends'[k] # None =>
          /\ counter'[k] > 0 /\ T + Window <= ends'[k] /\ ends'[k] <= T + Window + Deadline
          /\ \A p \in Passed(TRUE, k)' : Times(TRUE, k)'[p] < ends'[k]
    BY <1>3, <2>1, <2>4 DEF RedisForm
  <2>7. RedisForm(k, T, C)'
    BY <2>2, <2>3, <2>5, <2>6, Zenon DEF RedisForm
  <2> QED BY <1>5, <2>7
<1> QED BY <1>6, <1>7

(* The counter of a key tells of its last epoch, after any step. *)
LEMMA RedisNext ==
  ASSUME TypeOK, Past, Fresh, [Next]_vars, NEW k \in Keys,
         NEW T \in 0..now, NEW C, RedisForm(k, T, C)
  PROVE  \E T2, C2 : T2 \in 0..now' /\ RedisForm(k, T2, C2)'
<1> DEFINE Goal == \E T2, C2 : T2 \in 0..now' /\ RedisForm(k, T2, C2)'
<1>0. now \in Nat /\ T \in Nat /\ T <= now /\ limit \in Nat /\ counter \in [Keys -> Nat]
  BY Numbers DEF TypeOK
<1>1. T \in 0..now'
  BY <1>0, PastNext
<1>2. RedisForm(k, T, C)' => Goal
  BY <1>1
<1> HIDE DEF Goal
<1>3. ASSUME NEW r \in Requests, Arrive(r) PROVE RedisForm(k, T, C)'
  <2> DEFINE q == [req[r] EXCEPT !.pc = "count", !.at = now]
  <2>1. /\ Turns(r, q) /\ counter' = counter /\ ends' = ends /\ repeats' = repeats
        /\ limit' = limit
    BY <1>3 DEF Arrive, TypeOK, Turns
  <2>2. q.passed = req[r].passed /\ q.pc # "expire"
    BY StateForm DEF States
  <2> HIDE DEF q
  <2> QED BY <2>1, <2>2, RedisPassed
<1>4. ASSUME NEW r \in Requests, Allow(r) PROVE RedisForm(k, T, C)'
  <2>1. /\ Turns(r, Admit(req[r])) \/ Turns(r, Ends(req[r], "refused"))
        /\ counter' = counter /\ ends' = ends /\ repeats' = repeats /\ limit' = limit
        /\ ~redis /\ req[r].pc = "count"
    BY <1>4 DEF Allow, Turns
  <2>2. Adds(r, Admit(req[r])) /\ Admit(req[r]).pc # "expire"
    BY StateForm, AdmitForm DEF Adds
  <2>3. Ends(req[r], "refused").passed = req[r].passed /\ Ends(req[r], "refused").pc # "expire"
    BY StateForm, EndsForm
  <2>4. CASE Turns(r, Admit(req[r]))
    BY <2>1, <2>2, <2>4, RedisElsewhere
  <2>5. CASE Turns(r, Ends(req[r], "refused"))
    BY <2>1, <2>3, <2>5, RedisPassed
  <2> QED BY <2>1, <2>4, <2>5
<1>5. ASSUME NEW r \in Requests, Incr(r) PROVE Goal
  <2> DEFINE n == Answer(Key(r))
             w == [Counted(req[r]) EXCEPT !.pc = "expire"]
  <2>1. /\ redis /\ req[r].pc = "count" /\ Increment(Key(r)) /\ Once(Key(r))
        /\ UNCHANGED <<now, limit>>
        /\ \/ n = 1 /\ Turns(r, w)
           \/ n > 1 /\ n <= limit /\ Turns(r, Admit(req[r]))
           \/ n > 1 /\ n > limit /\ Turns(r, Ends(req[r], "refused"))
    BY <1>5 DEF Incr, Turns
  <2>2. Adds(r, w) /\ w.at = req[r].at /\ w.stage = req[r].stage
    BY StateForm, WaitsForm DEF Adds
  <2>3. /\ Adds(r, Admit(req[r])) /\ Admit(req[r]).pc # "expire"
        /\ Admit(req[r]).at \in {req[r].at, 0}
    BY StateForm, AdmitForm DEF Adds
  <2>4. Ends(req[r], "refused").passed = req[r].passed /\ Ends(req[r], "refused").pc # "expire"
    BY StateForm, EndsForm
  <2>5. 1 <= limit
    BY StateForm
  <2> HIDE DEF w, n
  <2>6. CASE n = 1 /\ Turns(r, w)
    BY <2>1, <2>2, <2>5, <2>6, RedisIncr DEF n, Goal
  <2>7. CASE n > 1 /\ n <= limit /\ Turns(r, Admit(req[r]))
    BY <2>1, <2>3, <2>7, RedisIncr DEF n, Goal
  <2>8. CASE n > 1 /\ n > limit /\ Turns(r, Ends(req[r], "refused"))
    BY <2>1, <2>4, <2>8, RedisIncr DEF n, Goal
  <2> QED BY <2>1, <2>6, <2>7, <2>8
<1>6. ASSUME NEW r \in Requests, IncrFails(r) PROVE Goal
  <2> DEFINE n == Answer(Key(r))
  <2>1. /\ redis /\ req[r].pc = "count" /\ UNCHANGED <<now, limit>>
        /\ \/ Turns(r, Proceeds(req[r])) /\ UNCHANGED <<counter, ends, repeats>>
           \/ /\ Increment(Key(r)) /\ Once(Key(r))
              /\ \/ n <= limit /\ Turns(r, Admit(req[r]))
                 \/ ~(n <= limit) /\ Turns(r, Proceeds(req[r]))
    BY <1>6 DEF IncrFails, Turns
  <2>2. /\ Adds(r, Admit(req[r])) /\ Admit(req[r]).pc # "expire"
        /\ Admit(req[r]).at \in {req[r].at, 0}
    BY StateForm, AdmitForm DEF Adds
  <2>3. Proceeds(req[r]).passed = req[r].passed /\ Proceeds(req[r]).pc # "expire"
    BY StateForm, ProceedsForm
  <2>4. n \in Nat
    BY StateForm, IncrementType, <1>0 DEF Answer
  <2> HIDE DEF n
  <2>5. CASE Turns(r, Proceeds(req[r])) /\ UNCHANGED <<counter, ends, repeats>>
    BY <1>2, <2>1, <2>3, <2>5, RedisPassed
  <2>6. CASE Increment(Key(r)) /\ Once(Key(r)) /\ n <= limit /\ Turns(r, Admit(req[r]))
    BY <2>1, <2>2, <2>6, RedisIncr DEF n, Goal
  <2>7. CASE Increment(Key(r)) /\ Once(Key(r)) /\ ~(n <= limit) /\ Turns(r, Proceeds(req[r]))
    <3>1. n > limit
      BY <1>0, <2>4, <2>7
    <3> QED BY <2>1, <2>3, <2>7, <3>1, RedisIncr DEF n, Goal
  <2> QED BY <2>1, <2>5, <2>6, <2>7
<1>14. ASSUME NEW r \in Requests, IncrAgain(r) PROVE Goal
  <2>1. CASE k = Key(r)
    BY <1>14, <2>1, RedisAgain DEF Goal
  <2>2. CASE k # Key(r)
    <3>1. /\ counter'[k] = counter[k] /\ ends'[k] = ends[k] /\ repeats'[k] = repeats[k]
          /\ req' = req /\ limit' = limit
      BY <1>14, <2>2, StateForm, IncrementType, RepeatsType DEF IncrAgain
    <3>2. Passed(TRUE, k)' = Passed(TRUE, k) /\ Times(TRUE, k)' = Times(TRUE, k)
      BY <3>1, TimesKept
    <3>3. \A p \in Requests : Key(p)' = Key(p)
      BY <3>1 DEF Key, KeyAt
    <3> QED BY <1>2, <3>1, <3>2, <3>3, RedisSame
  <2> QED BY <2>1, <2>2
<1>15. ASSUME NEW r \in Requests, ExpireAgain(r) PROVE RedisForm(k, T, C)'
  <2>1. CASE k = Key(r)
    BY <1>15, <2>1, RedisEnds DEF ExpireAgain
  <2>2. CASE k # Key(r)
    <3>1. /\ counter' = counter /\ ends'[k] = ends[k] /\ repeats' = repeats
          /\ req' = req /\ limit' = limit
      BY <1>15, <2>2 DEF ExpireAgain, SetEnd, TypeOK
    <3>2. Passed(TRUE, k)' = Passed(TRUE, k) /\ Times(TRUE, k)' = Times(TRUE, k)
      BY <3>1, TimesKept
    <3>3. \A p \in Requests : Key(p)' = Key(p)
      BY <3>1 DEF Key, KeyAt
    <3> QED BY <3>1, <3>2, <3>3, RedisSame
  <2> QED BY <2>1, <2>2
<1>7. ASSUME NEW r \in Requests, Expire(r) PROVE RedisForm(k, T, C)'
  <2>1. CASE k = Key(r)
    BY <1>7, <2>1, RedisEnds DEF Expire
  <2>2. CASE k # Key(r)
    <3>1. /\ Turns(r, Proceeds(req[r])) /\ counter' = counter /\ repeats' = repeats
          /\ limit' = limit
      BY <1>7 DEF Expire, Turns
    <3>2. ends'[k] = ends[k]
      BY <1>7, <2>2 DEF Expire, SetEnd, TypeOK
    <3>3. Proceeds(req[r]).passed = req[r].passed /\ Proceeds(req[r]).pc # "expire"
      BY StateForm, ProceedsForm
    <3> QED BY <3>1, <3>2, <3>3, RedisPassed
  <2> QED BY <2>1, <2>2
<1>8. ASSUME NEW r \in Requests, ExpireFails(r) PROVE RedisForm(k, T, C)'
  <2>1. /\ Turns(r, Proceeds(req[r])) /\ counter' = counter /\ ends' = ends
        /\ repeats' = repeats /\ limit' = limit
    BY <1>8 DEF ExpireFails, Turns
  <2>2. Proceeds(req[r]).passed = req[r].passed /\ Proceeds(req[r]).pc # "expire"
    BY StateForm, ProceedsForm
  <2> QED BY <2>1, <2>2, RedisPassed
<1>9. ASSUME Restart PROVE RedisForm(k, T, C)'
  <2>1. /\ \A r \in Requests : req'[r] = Forgotten(Killed(req[r]))
        /\ counter' = counter /\ ends' = ends /\ repeats' = repeats /\ limit' = limit
    BY <1>9 DEF Restart
  <2>2. \A r \in Requests :
          /\ req'[r].pc # "expire"
          /\ \A s \in Stages : req'[r].passed[s] =
               IF req[r].passed[s] # None /\ req[r].passed[s].redis
               THEN req[r].passed[s] ELSE None
    BY <2>1, StateForm, ForgottenForm
  <2>3. Passed(TRUE, k)' = Passed(TRUE, k) /\ Times(TRUE, k)' = Times(TRUE, k)
    BY <2>2, TimesKept
  <2> QED BY <2>1, <2>2, <2>3, RedisSame
<1>10. ASSUME UNCHANGED <<counter, ends, repeats, limit, req>> PROVE RedisForm(k, T, C)'
  <2>1. Passed(TRUE, k)' = Passed(TRUE, k) /\ Times(TRUE, k)' = Times(TRUE, k)
    BY <1>10, TimesKept
  <2>2. \A r \in Requests : Key(r)' = Key(r)
    BY <1>10 DEF Key, KeyAt
  <2> QED BY <1>10, <2>1, <2>2, RedisSame
<1>11. Tick \/ UNCHANGED vars => UNCHANGED <<counter, ends, repeats, limit, req>>
  BY DEF Tick, vars
<1>12. Goal
  BY <1>2, <1>3, <1>4, <1>5, <1>6, <1>7, <1>8, <1>9, <1>10, <1>11, <1>14, <1>15
  DEF Next, Stop
<1> QED BY <1>12 DEF Goal

-----------------------------------------------------------------------------
(* The map of the process: a step that adds nothing to the window of k. *)
LEMMA MapSame ==
  ASSUME NEW k, NEW T, NEW C, MapForm(k, T, C),
         Times(FALSE, k)' = Times(FALSE, k), windows'[k] = windows[k], limit' = limit
  PROVE  MapForm(k, T, C)'
<1>1. Epochs(Times(FALSE, k), Window - Lag, limit, T, C)'
  BY DEF MapForm
<1>2. WindowForm(windows'[k], T, C)
  BY DEF MapForm
<1>3. WindowForm(windows[k], T, C)'
  BY <1>2, Zenon DEF WindowForm
<1> QED BY <1>1, <1>3, Zenon DEF MapForm

(* Cleaning the map ends no window before its time. *)
LEMMA MapCleaned ==
  ASSUME TypeOK, Past, NEW k \in Keys, NEW s \in Nat, s <= now,
         NEW T \in 0..now, NEW C, MapForm(k, T, C)
  PROVE  \E U, D :
           /\ U \in 0..now
           /\ Epochs(Times(FALSE, k), Window - Lag, limit, U, D)
           /\ WindowForm(Cleaned(s)[k], U, D)
<1> DEFINE f == Times(FALSE, k)
<1>1. /\ now \in Nat /\ limit \in Nat /\ Window \in Nat /\ Lag \in Nat /\ Window - Lag \in Int
      /\ T \in Nat /\ T <= now /\ windows[k] \in [start : Nat, count : 1..limit] \cup {None}
  BY Numbers DEF TypeOK
<1>2. Epochs(f, Window - Lag, limit, T, C) /\ WindowForm(windows[k], T, C)
  BY DEF MapForm
<1>3. \A p \in DOMAIN f : f[p] <= now
  BY TimesPast, Zenon
<1> HIDE DEF f
<1>4. CASE Cleaned(s)[k] = windows[k]
  BY <1>2, <1>4 DEF f
<1>5. CASE Cleaned(s)[k] # windows[k]
  <2>1. Cleaned(s)[k] = None /\ windows[k] # None /\ s - windows[k].start >= 2 * Window
    BY <1>5 DEF Cleaned
  <2>2. windows[k].start \in Nat /\ T <= windows[k].start + Lag
    BY <1>1, <1>2, <2>1 DEF WindowForm
  <2>3. T + (Window - Lag) <= now
    BY <1>1, <2>1, <2>2
  <2>4. Epochs(f, Window - Lag, limit, now, {})
    BY <1>1, <1>2, <1>3, <2>3, EpochsOver
  <2>5. WindowForm(Cleaned(s)[k], now, {}) /\ now \in 0..now
    BY <1>1, <2>1 DEF WindowForm
  <2> QED BY <2>4, <2>5 DEF f
<1> QED BY <1>4, <1>5

(* A window that is over has no epoch left. *)
LEMMA MapOver ==
  ASSUME TypeOK, Past, NEW k \in Keys, NEW s \in Nat, s <= now,
         NEW w \in [start : Nat, count : 1..limit] \cup {None}, Over(w, s),
         NEW T \in 0..now, NEW C,
         Epochs(Times(FALSE, k), Window - Lag, limit, T, C), WindowForm(w, T, C)
  PROVE  Epochs(Times(FALSE, k), Window - Lag, limit, now, {})
<1> DEFINE f == Times(FALSE, k)
<1>1. /\ now \in Nat /\ limit \in Nat /\ Window \in Nat /\ Lag \in Nat /\ Window - Lag \in Int
      /\ T \in Nat /\ T <= now
  BY Numbers
<1>2. Epochs(f, Window - Lag, limit, T, C)
  OBVIOUS
<1>3. \A p \in DOMAIN f : f[p] <= now
  BY TimesPast, Zenon
<1> HIDE DEF f
<1>4. CASE w = None
  <2>1. C = {}
    BY <1>4 DEF WindowForm
  <2> QED BY <1>1, <1>2, <2>1, EpochsLater DEF f
<1>5. CASE w # None
  <2>1. w.start \in Nat /\ T <= w.start + Lag /\ s - w.start >= Window
    BY <1>5 DEF WindowForm, Over
  <2>2. T + (Window - Lag) <= now
    BY <1>1, <2>1
  <2> QED BY <1>1, <1>2, <1>3, <2>2, EpochsOver DEF f
<1> QED BY <1>4, <1>5

LEMMA MapHolds ==
  ASSUME NEW k, NEW U, NEW D, Epochs(Times(FALSE, k)', Window - Lag, limit', U, D),
         WindowForm(windows'[k], U, D)
  PROVE  MapForm(k, U, D)'
<1>1. Epochs(Times(FALSE, k), Window - Lag, limit, U, D)'
  BY Zenon DEF Epochs, Recent, Within
<1>2. WindowForm(windows[k], U, D)'
  BY Zenon DEF WindowForm
<1> QED BY <1>1, <1>2, Zenon DEF MapForm

(* A request that passes is counted in the window of its key, w with the   *)
(* epoch D, or in a new one.                                               *)
LEMMA MapCounts ==
  ASSUME TypeOK, Past, Fresh, NEW r \in Requests, NEW q, Turns(r, q), Adds(r, q),
         req[r].pc = "count", ~redis, NEW k \in Keys, k = Key(r), UNCHANGED <<now, limit>>,
         NEW U \in 0..now, NEW D, Epochs(Times(FALSE, k), Window - Lag, limit, U, D),
         Cardinality(D) < limit, NEW w, windows'[k] = w, w # None,
         w.start <= U, U <= w.start + Lag, w.count = Cardinality(D) + 1
  PROVE  \E T2, C2 : T2 \in 0..now' /\ MapForm(k, T2, C2)'
<1> DEFINE e == PassOf(r)
           f == Times(FALSE, k)
           g == Times(FALSE, k)'
<1>1. /\ now \in Nat /\ limit \in Nat /\ Window - Lag \in Int /\ U \in Nat /\ U <= now
  BY Numbers
<1>2. Longer(f, g, e, now)
  <2>1. FALSE = redis
    BY StateForm
  <2> QED BY <2>1, TimesAdded
<1>3. Epochs(f, Window - Lag, limit, U, D)
  OBVIOUS
<1> HIDE DEF f, g, e
<1>4. PICK E : Epochs(g, Window - Lag, limit, U, E) /\ Cardinality(E) = Cardinality(D) + 1
  BY <1>1, <1>2, <1>3, EpochsAdd
<1>5. Epochs(Times(FALSE, k)', Window - Lag, limit', U, E)
  BY <1>4 DEF g
<1>6. WindowForm(windows'[k], U, E)
  BY <1>4 DEF WindowForm
<1>7. MapForm(k, U, E)'
  BY <1>5, <1>6, MapHolds
<1>8. U \in 0..now'
  BY <1>1
<1> QED BY <1>7, <1>8

(* Allow: one key is counted, and the map may be cleaned of others. *)
LEMMA MapAllow ==
  ASSUME TypeOK, Past, Fresh, NEW r \in Requests, Allow(r), NEW k \in Keys,
         NEW T \in 0..now, NEW C, MapForm(k, T, C)
  PROVE  \E T2, C2 : T2 \in 0..now' /\ MapForm(k, T2, C2)'
<1> DEFINE j == Key(r)
           a == Admit(req[r])
           b == Ends(req[r], "refused")
<1>1. PICK s \in Stamps(r) :
        LET kept == Cleaned(s)
            w == kept[j]
        IN  \/ /\ Over(w, s)
               /\ windows' = [kept EXCEPT ![j] = [start |-> s, count |-> 1]]
               /\ Turns(r, a)
            \/ /\ ~Over(w, s) /\ ~Full(w)
               /\ windows' = [kept EXCEPT ![j].count = @ + 1]
               /\ Turns(r, a)
            \/ ~Over(w, s) /\ Full(w) /\ windows' = kept /\ Turns(r, b)
  BY DEF Allow, Turns
<1>2. ~redis /\ req[r].pc = "count" /\ UNCHANGED <<now, limit>>
  BY DEF Allow
<1>3. Adds(r, a)
  BY StateForm, AdmitForm DEF Adds
<1>4. b.passed = req[r].passed
  BY StateForm, EndsForm
<1>5. now \in Nat /\ limit \in Nat /\ Lag \in Nat /\ j \in Keys /\ req[r].at \in Nat
  BY StateForm, Numbers
<1>6. s \in Nat /\ s <= now /\ now <= s + Lag
  BY <1>5 DEF Stamps
<1> DEFINE kept == Cleaned(s)
<1>7. kept \in [Keys -> [start : Nat, count : 1..limit] \cup {None}]
  BY CleanedType
<1>8. PICK U, D :
        /\ U \in 0..now /\ Epochs(Times(FALSE, k), Window - Lag, limit, U, D)
        /\ WindowForm(kept[k], U, D)
  BY <1>6, MapCleaned
<1>9. U \in 0..now' /\ U \in Nat /\ U <= now
  BY <1>2, <1>5, <1>8
<1> HIDE DEF j, a, b, kept
<1>10. ASSUME windows'[k] = kept[k], Times(FALSE, k)' = Times(FALSE, k)
       PROVE  MapForm(k, U, D)'
  BY <1>2, <1>8, <1>10, MapHolds
<1>11. ASSUME k # j PROVE \E T2, C2 : T2 \in 0..now' /\ MapForm(k, T2, C2)'
  <2>1. windows'[k] = kept[k]
    BY <1>1, <1>7, <1>11 DEF kept
  <2>2. CASE Turns(r, a)
    BY <1>2, <1>3, <1>9, <1>10, <1>11, <2>1, <2>2, TimesOther DEF j
  <2>3. CASE Turns(r, b)
    BY <1>4, <1>9, <1>10, <2>1, <2>3, TimesUnmoved DEF Turns
  <2> QED BY <1>1, <2>2, <2>3
<1>12. ASSUME k = j PROVE \E T2, C2 : T2 \in 0..now' /\ MapForm(k, T2, C2)'
  <2> DEFINE w == kept[k]
  <2>1. w \in [start : Nat, count : 1..limit] \cup {None}
    BY <1>7
  <2>2. CASE /\ Over(w, s) /\ Turns(r, a)
             /\ windows' = [kept EXCEPT ![k] = [start |-> s, count |-> 1]]
    <3> DEFINE v == [start |-> s, count |-> 1]
    <3>1. Epochs(Times(FALSE, k), Window - Lag, limit, now, {})
      BY <1>6, <1>8, <2>1, <2>2, MapOver
    <3>2. windows'[k] = v
      BY <1>7, <2>2
    <3>3. v # None /\ v.start = s /\ v.count = 1
      BY <1>6, NoneForm
    <3> HIDE DEF v
    <3>4. Cardinality({}) = 0 /\ Cardinality({}) < limit /\ now \in 0..now
          /\ v.count = Cardinality({}) + 1
      BY <1>5, <3>3, FS_EmptySet, StateForm
    <3> QED BY <1>2, <1>3, <1>6, <1>12, <2>2, <3>1, <3>2, <3>3, <3>4, MapCounts DEF j
  <2>3. CASE /\ ~Over(w, s) /\ ~Full(w) /\ Turns(r, a)
             /\ windows' = [kept EXCEPT ![k].count = @ + 1]
    <3>1. w # None
      BY <2>3 DEF Over
    <3>2. /\ w.start \in Nat /\ w.count \in 1..limit
          /\ Cardinality(D) = w.count /\ w.start <= U /\ U <= w.start + Lag
      BY <1>8, <2>1, <3>1 DEF WindowForm
    <3>3. Cardinality(D) < limit
      BY <1>5, <2>3, <3>2 DEF Full
    <3>4. windows'[k] = [w EXCEPT !.count = @ + 1]
      BY <1>7, <2>3
    <3>5. windows'[k].start = w.start /\ windows'[k].count = w.count + 1 /\ windows'[k] # None
      <4>1. w \in [start : Nat, count : 1..limit]
        BY <2>1, <3>1
      <4>2. windows'[k] \in [start : Nat, count : Nat]
        BY <3>2, <3>4, <4>1
      <4> QED BY <3>4, <4>1, <4>2, NoneForm
    <3> QED BY <1>2, <1>3, <1>8, <1>12, <2>3, <3>2, <3>3, <3>5, MapCounts DEF j
  <2>4. CASE ~Over(w, s) /\ Full(w) /\ windows' = kept /\ Turns(r, b)
    BY <1>4, <1>9, <1>10, <2>4, TimesUnmoved DEF Turns
  <2> QED BY <1>1, <1>12, <2>2, <2>3, <2>4 DEF kept
<1> QED BY <1>11, <1>12

(* And so does the window of a key. *)
LEMMA MapNext ==
  ASSUME TypeOK, Past, Fresh, [Next]_vars, NEW k \in Keys,
         NEW T \in 0..now, NEW C, MapForm(k, T, C)
  PROVE  \E T2, C2 : T2 \in 0..now' /\ MapForm(k, T2, C2)'
<1> DEFINE Goal == \E T2, C2 : T2 \in 0..now' /\ MapForm(k, T2, C2)'
<1>0. now \in Nat /\ T \in Nat /\ T <= now /\ Lag \in Nat /\ Window - Lag \in Int /\ limit \in Nat
  BY Numbers
<1>1. T \in 0..now'
  BY <1>0, PastNext
<1>2. MapForm(k, T, C)' => Goal
  BY <1>1
<1>3. ASSUME NEW r \in Requests, Allow(r) PROVE Goal
  BY <1>3, MapAllow
<1> HIDE DEF Goal
<1>4. ASSUME NEW r \in Requests, NEW q, Turns(r, q), windows' = windows, limit' = limit,
             q.passed = req[r].passed
      PROVE  MapForm(k, T, C)'
  BY <1>4, TimesUnmoved, MapSame DEF Turns
<1>5. ASSUME NEW r \in Requests, NEW q, Turns(r, q), windows' = windows, limit' = limit,
             req[r].pc = "count", redis, Adds(r, q)
      PROVE  MapForm(k, T, C)'
  <2>1. FALSE # redis
    BY <1>5, StateForm
  <2>2. Times(FALSE, k)' = Times(FALSE, k)
    BY <1>5, <2>1, TimesOther
  <2> QED BY <1>5, <2>2, MapSame
<1>6. ASSUME NEW r \in Requests, Arrive(r) PROVE MapForm(k, T, C)'
  <2> DEFINE q == [req[r] EXCEPT !.pc = "count", !.at = now]
  <2>1. Turns(r, q) /\ windows' = windows /\ limit' = limit
    BY <1>6 DEF Arrive, TypeOK, Turns
  <2>2. q.passed = req[r].passed
    BY StateForm DEF States
  <2> HIDE DEF q
  <2> QED BY <1>4, <2>1, <2>2
<1>7. ASSUME NEW r \in Requests, Incr(r) \/ IncrFails(r) PROVE MapForm(k, T, C)'
  <2> DEFINE w == [Counted(req[r]) EXCEPT !.pc = "expire"]
  <2>1. /\ redis /\ req[r].pc = "count" /\ windows' = windows /\ limit' = limit
        /\ \/ Turns(r, w) \/ Turns(r, Admit(req[r])) \/ Turns(r, Ends(req[r], "refused"))
           \/ Turns(r, Proceeds(req[r]))
    BY <1>7 DEF Incr, IncrFails, Turns
  <2>2. /\ Adds(r, w) /\ Adds(r, Admit(req[r]))
        /\ Ends(req[r], "refused").passed = req[r].passed
        /\ Proceeds(req[r]).passed = req[r].passed
    BY StateForm, WaitsForm, AdmitForm, EndsForm, ProceedsForm DEF Adds
  <2> HIDE DEF w
  <2>3. CASE Turns(r, w)
    BY <1>5, <2>1, <2>2, <2>3
  <2>4. CASE Turns(r, Admit(req[r]))
    BY <1>5, <2>1, <2>2, <2>4
  <2>5. CASE Turns(r, Ends(req[r], "refused"))
    BY <1>4, <2>1, <2>2, <2>5
  <2>6. CASE Turns(r, Proceeds(req[r]))
    BY <1>4, <2>1, <2>2, <2>6
  <2> QED BY <2>1, <2>3, <2>4, <2>5, <2>6
<1>8. ASSUME NEW r \in Requests, Expire(r) \/ ExpireFails(r) PROVE MapForm(k, T, C)'
  <2>1. Turns(r, Proceeds(req[r])) /\ windows' = windows /\ limit' = limit
    BY <1>8 DEF Expire, ExpireFails, Turns
  <2>2. Proceeds(req[r]).passed = req[r].passed
    BY StateForm, ProceedsForm
  <2> QED BY <1>4, <2>1, <2>2
<1>9. ASSUME Restart PROVE Goal
  <2>1. /\ \A r \in Requests : req'[r] = Forgotten(Killed(req[r]))
        /\ windows'[k] = None /\ now' = now /\ limit' = limit
    BY <1>9 DEF Restart
  <2>2. ASSUME NEW r \in Requests, NEW s \in Stages, req'[r].passed[s] # None
        PROVE  req'[r].passed[s].redis # FALSE
    <3>1. req'[r].passed[s] = IF req[r].passed[s] # None /\ req[r].passed[s].redis
                              THEN req[r].passed[s] ELSE None
      BY <2>1, StateForm, ForgottenForm
    <3> QED BY <2>2, <3>1
  <2>3. Passed(FALSE, k)' = {}
    <3>1. \A p \in Requests \X Stages : p[1] \in Requests /\ p[2] \in Stages
      OBVIOUS
    <3> QED BY <2>2, <3>1 DEF Passed
  <2>4. DOMAIN (Times(FALSE, k)') = {}
    BY <2>3 DEF Times
  <2>5. Epochs(Times(FALSE, k)', Window - Lag, limit', T, {})
    BY <1>0, <2>1, <2>4, EpochsEmpty
  <2>6. WindowForm(windows'[k], T, {})
    BY <2>1 DEF WindowForm
  <2>7. MapForm(k, T, {})'
    BY <2>5, <2>6, MapHolds
  <2> QED BY <1>1, <2>7 DEF Goal
<1>10. ASSUME UNCHANGED <<windows, limit, req>> PROVE MapForm(k, T, C)'
  BY <1>10, TimesKept, MapSame
<1>11. Tick \/ UNCHANGED vars => UNCHANGED <<windows, limit, req>>
  BY DEF Tick, vars
<1>13. ASSUME NEW r \in Requests, IncrAgain(r) \/ ExpireAgain(r)
       PROVE  UNCHANGED <<windows, limit, req>>
  BY <1>13 DEF IncrAgain, ExpireAgain
<1>12. Goal
  BY <1>2, <1>3, <1>6, <1>7, <1>8, <1>9, <1>10, <1>11, <1>13 DEF Next, Stop
<1> QED BY <1>12 DEF Goal

-----------------------------------------------------------------------------
LEMMA BurstInit == Init => BurstInv
<1> SUFFICES ASSUME Init PROVE BurstInv
  OBVIOUS
<1>1. RateInv
  BY InitInv
<1>2. /\ 0 \in 0..now /\ now = 0 /\ Window \in Int /\ Window - Lag \in Int /\ limit \in Nat
  BY NumbersForm DEF Init
<1>3. \A r \in Requests :
        /\ req[r].at = 0 /\ req[r].pc = "idle" /\ req[r].stage = "user"
        /\ \A s \in Stages : req[r].passed[s] = None
  BY DEF Init
<1>4. "user" \in Stages /\ "addr" \in Stages
  BY DEF Stages
<1>5. Past
  BY <1>2, <1>3 DEF Past
<1>6. Fresh
  BY <1>3, <1>4 DEF Fresh
<1>7. ASSUME NEW b, NEW k PROVE DOMAIN Times(b, k) = {}
  <2>1. \A p \in Requests \X Stages : p[1] \in Requests /\ p[2] \in Stages
    OBVIOUS
  <2>2. Passed(b, k) = {}
    BY <1>3, <2>1 DEF Passed
  <2> QED BY <2>2 DEF Times
<1>8. ASSUME NEW k \in Keys PROVE RedisForm(k, 0, {})
  <2>1. Epochs(Times(TRUE, k), Window, limit, 0, {})
    BY <1>2, <1>7, EpochsEmpty
  <2>2. counter[k] = 0 /\ ends[k] = None /\ repeats[k] = 0
    BY DEF Init
  <2>3. CountForm(Cardinality({}), counter[k], repeats[k])
    BY <2>2, FS_EmptySet DEF CountForm
  <2>4. \A r \in Requests : req[r].pc # "expire"
    BY <1>3
  <2> QED BY <2>1, <2>2, <2>3, <2>4 DEF RedisForm
<1>9. ASSUME NEW k \in Keys PROVE MapForm(k, 0, {})
  <2>1. Epochs(Times(FALSE, k), Window - Lag, limit, 0, {})
    BY <1>2, <1>7, EpochsEmpty
  <2>2. windows[k] = None
    BY DEF Init
  <2> QED BY <2>1, <2>2 DEF MapForm, WindowForm
<1> QED BY <1>1, <1>2, <1>5, <1>6, <1>8, <1>9 DEF BurstInv

LEMMA BurstNext == BurstInv /\ [Next]_vars => BurstInv'
<1> SUFFICES ASSUME BurstInv, [Next]_vars PROVE BurstInv'
  OBVIOUS
<1>1. TypeOK /\ RateInv /\ Past /\ Fresh
  BY DEF BurstInv, RateInv
<1>2. RateInv' /\ Past' /\ Fresh'
  BY <1>1, InvNext, PastNext
<1>3. ASSUME NEW k \in Keys PROVE \E T, C : T \in 0..now' /\ RedisForm(k, T, C)'
  <2>1. PICK T, C : T \in 0..now /\ RedisForm(k, T, C)
    BY DEF BurstInv
  <2> QED BY <1>1, <2>1, RedisNext
<1>4. ASSUME NEW k \in Keys PROVE \E T, C : T \in 0..now' /\ MapForm(k, T, C)'
  <2>1. PICK T, C : T \in 0..now /\ MapForm(k, T, C)
    BY DEF BurstInv
  <2> QED BY <1>1, <2>1, MapNext
<1> QED BY <1>2, <1>3, <1>4 DEF BurstInv

LEMMA BurstHolds == Spec => []BurstInv
BY BurstInit, BurstNext, PTL DEF Spec

(* The passes of a span of time are those of the store in use. *)
LEMMA PassedTimes ==
  ASSUME TypeOK, NEW k, NEW a \in Int, NEW z \in Int
  PROVE  PassedIn(k, a..z) =
           {p \in DOMAIN Times(redis, k) : Times(redis, k)[p] \in a..z}
<1>1. \A p \in Requests \X Stages : p[1] \in Requests /\ p[2] \in Stages
  OBVIOUS
<1>2. DOMAIN Times(redis, k) = Passed(redis, k)
      /\ \A p \in Passed(redis, k) : Times(redis, k)[p] = req[p[1]].passed[p[2]].at
  BY DEF Times
<1>3. ASSUME NEW p \in Requests \X Stages
      PROVE  req[p[1]].passed[p[2]] \in [at : a..z, redis : {redis}] <=>
               /\ req[p[1]].passed[p[2]] # None
               /\ req[p[1]].passed[p[2]].redis = redis
               /\ req[p[1]].passed[p[2]].at \in a..z
  <2> DEFINE x == req[p[1]].passed[p[2]]
  <2>1. x \in Passes \cup {None}
    BY <1>1, StateForm
  <2>2. redis \in BOOLEAN /\ a..z \subseteq Int
    BY DEF TypeOK
  <2>3. x \in [at : a..z, redis : {redis}] => x \in [at : Int, redis : BOOLEAN]
    BY <2>2
  <2>4. x \in [at : a..z, redis : {redis}] => x # None
    BY <2>3, NoneForm
  <2> HIDE DEF x
  <2>5. x \in Passes /\ x.redis = redis /\ x.at \in a..z => x \in [at : a..z, redis : {redis}]
    BY DEF Passes
  <2>6. x \in [at : a..z, redis : {redis}] => x.redis = redis /\ x.at \in a..z
    OBVIOUS
  <2> QED BY <2>1, <2>4, <2>5, <2>6 DEF x
<1> QED BY <1>2, <1>3 DEF PassedIn, Passed

LEMMA BurstBound == BurstInv => NoBurst
<1> SUFFICES ASSUME BurstInv, NEW k \in Keys, NEW t \in 0..MaxTime
             PROVE  Cardinality(PassedIn(k, t..(t + Window - 1 - IF redis THEN 0 ELSE Lag)))
                      <= 2 * limit
  BY DEF NoBurst
<1> DEFINE d == Window - IF redis THEN 0 ELSE Lag
           f == Times(redis, k)
<1>1. TypeOK
  BY DEF BurstInv, RateInv
<1>2. t \in Int /\ limit \in Nat /\ d \in Int /\ redis \in BOOLEAN
      /\ t + Window - 1 - (IF redis THEN 0 ELSE Lag) = t + d - 1
  BY <1>1, Numbers DEF TypeOK
<1>3. PICK T, C : T \in 0..now /\ Epochs(f, d, limit, T, C)
  <2>1. CASE redis = TRUE
    <3>1. PICK T, C : T \in 0..now /\ Epochs(Times(TRUE, k), Window, limit, T, C)
      BY DEF BurstInv, RedisForm
    <3>2. d = Window
      BY <1>1, <2>1, Numbers
    <3> QED BY <2>1, <3>1, <3>2
  <2>2. CASE redis = FALSE
    <3>1. PICK T, C : T \in 0..now /\ Epochs(Times(FALSE, k), Window - Lag, limit, T, C)
      BY DEF BurstInv, MapForm
    <3>2. d = Window - Lag
      BY <2>2
    <3> QED BY <2>2, <3>1, <3>2
  <2> QED BY <1>2, <2>1, <2>2
<1> HIDE DEF d, f
<1>4. PassedIn(k, t..(t + d - 1)) = {p \in DOMAIN f : f[p] \in t..(t + d - 1)}
  BY <1>1, <1>2, PassedTimes DEF f
<1>5. \A p \in DOMAIN f : f[p] \in Nat
  BY <1>3 DEF Epochs
<1>6. PassedIn(k, t..(t + d - 1)) = Within(f, d, t)
  BY <1>2, <1>4, <1>5 DEF Within
<1>7. Cardinality(Within(f, d, t)) <= 2 * limit
  BY <1>2, <1>3 DEF Epochs
<1> QED BY <1>2, <1>6, <1>7

(* No key lets more than twice the limit through within a window, less, in *)
(* the process's own map, what a request may wait for the mutex (Allow,    *)
(* allowRedis).                                                            *)
THEOREM WindowsBound == Spec => []NoBurst
BY BurstHolds, BurstBound, PTL

(* An epoch that began not longer ago than a window and the slack of the   *)
(* code that opens it lies within the time a refusal may look back.        *)
LEMMA EpochPassed ==
  ASSUME TypeOK, Past, NEW k, NEW d \in Int, NEW slack \in Nat, NEW T \in Nat, NEW C,
         Epochs(Times(redis, k), d, limit, T, C), now - Window - slack <= T
  PROVE  /\ Cardinality(PassedIn(k, (now - Window - slack)..now)) \in Nat
         /\ Cardinality(PassedIn(k, (now - Window - slack)..now)) >= Cardinality(C)
<1> DEFINE f == Times(redis, k)
           a == now - Window - slack
           P == PassedIn(k, a..now)
<1>1. now \in Int /\ a \in Int /\ limit \in Nat
  BY Numbers
<1>2. \A p \in DOMAIN f : f[p] <= now
  BY TimesPast, Zenon
<1>3. P = {p \in DOMAIN f : f[p] \in a..now}
  BY <1>1, PassedTimes
<1> HIDE DEF f, P
<1>4. /\ IsFiniteSet(DOMAIN f) /\ C \subseteq DOMAIN f
      /\ \A p \in DOMAIN f : f[p] \in Nat
      /\ \A p \in C : T <= f[p]
  BY DEF Epochs, f
<1>5. C \subseteq P
  BY <1>1, <1>2, <1>3, <1>4
<1>6. P \subseteq DOMAIN f
  BY <1>3
<1>7. IsFiniteSet(P)
  BY <1>4, <1>6, FS_Subset
<1>8. Cardinality(C) <= Cardinality(P) /\ Cardinality(C) \in Nat /\ Cardinality(P) \in Nat
  BY <1>5, <1>7, FS_Subset, FS_CardinalityType
<1>9. Cardinality(P) >= Cardinality(C)
  BY <1>8
<1> QED BY <1>8, <1>9 DEF P

(* What may be said of a refusal under k. *)
Justly(k) ==
  LET slack == IF redis THEN Deadline ELSE Lag
      twice == IF redis THEN repeats[k] ELSE 0
  IN \/ Cardinality(PassedIn(k, (now - Window - slack)..now)) + twice >= limit
     \/ k \in orphaned
     \/ \E q \in Requests : req[q].pc = "expire" /\ Key(q) = k /\ ~InTime(q)

(* A window that refuses is full and not over. *)
LEMMA MapRefuses ==
  ASSUME BurstInv, NEW r \in Requests, Allow(r), req'[r].pc = "refused"
  PROVE  Justly(Key(r))
<1> DEFINE k == Key(r)
<1>1. TypeOK /\ Past
  BY DEF BurstInv, RateInv
<1>2. /\ now \in Nat /\ limit \in Nat /\ Lag \in Nat /\ Window \in Nat /\ Window - Lag \in Int
      /\ k \in Keys /\ req[r].at \in Nat
  BY <1>1, StateForm, Numbers
<1>3. Admit(req[r]).pc # "refused"
  BY <1>1, StateForm, AdmitForm
<1>4. req' = [req EXCEPT ![r] = Admit(req[r])] => req'[r].pc # "refused"
  BY <1>1, <1>3, Moved
<1>5. PICK s \in Stamps(r) : ~Over(Cleaned(s)[k], s) /\ Full(Cleaned(s)[k])
  BY <1>4 DEF Allow
<1>6. s \in Nat /\ s <= now /\ now <= s + Lag
  BY <1>2 DEF Stamps
<1> DEFINE w == Cleaned(s)[k]
<1>7. w \in [start : Nat, count : 1..limit] \cup {None}
  BY <1>1, <1>2, CleanedType
<1>8. PICK T0, C0 : T0 \in 0..now /\ MapForm(k, T0, C0)
  BY <1>2 DEF BurstInv
<1>9. PICK T, C :
        /\ T \in 0..now /\ Epochs(Times(FALSE, k), Window - Lag, limit, T, C)
        /\ WindowForm(w, T, C)
  BY <1>1, <1>2, <1>6, <1>8, MapCleaned
<1> HIDE DEF w, k
<1>10. w # None /\ s - w.start < Window /\ w.count >= limit
  <2>1. w # None /\ ~(s - w.start >= Window) /\ w.count >= limit
    BY <1>5 DEF Over, Full, w
  <2> QED BY <1>2, <1>6, <1>7, <2>1
<1>11. w.start \in Nat /\ w.start <= T /\ Cardinality(C) >= limit
  BY <1>7, <1>9, <1>10 DEF WindowForm
<1>12. now - Window - Lag <= T /\ T \in Nat
  BY <1>2, <1>6, <1>9, <1>10, <1>11
<1>13. redis = FALSE
  BY <1>1 DEF Allow, TypeOK
<1>14. /\ Cardinality(PassedIn(k, (now - Window - Lag)..now)) \in Nat
       /\ Cardinality(PassedIn(k, (now - Window - Lag)..now)) >= Cardinality(C)
  BY <1>1, <1>2, <1>9, <1>12, <1>13, EpochPassed
<1>15. Cardinality(C) \in Nat
  BY <1>2, <1>9, <1>12, EpochsFinite
<1>16. Cardinality(PassedIn(k, (now - Window - Lag)..now)) + 0 >= limit
  BY <1>2, <1>11, <1>14, <1>15
<1> QED BY <1>13, <1>16 DEF Justly, k

(* A counter that refuses is full; its end, or the EXPIRE under way, says  *)
(* how old it may be.                                                      *)
LEMMA RedisRefuses ==
  ASSUME BurstInv, NEW r \in Requests, Incr(r), req'[r].pc = "refused"
  PROVE  Justly(Key(r))
<1> DEFINE k == Key(r)
<1>1. TypeOK /\ Past /\ CounterHasEnd
  BY DEF BurstInv, RateInv
<1>2. /\ now \in Nat /\ limit \in Nat /\ limit > 0 /\ Deadline \in Nat /\ Window \in Nat
      /\ k \in Keys /\ counter[k] \in Nat /\ ends[k] \in Nat \cup {None}
  BY <1>1, StateForm, Numbers DEF TypeOK
<1>3. /\ Admit(req[r]).pc # "refused"
      /\ [Counted(req[r]) EXCEPT !.pc = "expire"].pc # "refused"
  BY <1>1, StateForm, AdmitForm, WaitsForm
<1>4. \/ req' = [req EXCEPT ![r] = Admit(req[r])]
      \/ req' = [req EXCEPT ![r] = [Counted(req[r]) EXCEPT !.pc = "expire"]]
      => req'[r].pc # "refused"
  BY <1>1, <1>3, Moved
<1>5. Answer(k) > 1 /\ Answer(k) > limit
  BY <1>4 DEF Incr
<1>6. ~Gone(k) /\ counter[k] > 0 /\ counter[k] >= limit
  BY <1>2, <1>5 DEF Answer
<1>7. PICK T, C : T \in 0..now /\ RedisForm(k, T, C)
  BY <1>2 DEF BurstInv
<1>8. redis = TRUE
  BY <1>1 DEF Incr, TypeOK
<1> HIDE DEF k
<1>9. /\ Epochs(Times(redis, k), Window, limit, T, C)
      /\ Cardinality(C) \in Nat /\ repeats[k] \in Nat /\ Cardinality(C) + repeats[k] >= limit
  <2>1. Epochs(Times(TRUE, k), Window, limit, T, C)
    BY <1>7 DEF RedisForm
  <2>2. \/ Cardinality(C) + repeats[k] >= counter[k]
        \/ Cardinality(C) + repeats[k] >= limit
    BY <1>7 DEF RedisForm, CountForm
  <2>3. Epochs(Times(redis, k), Window, limit, T, C)
    BY <1>8, <2>1, Zenon
  <2>4. Cardinality(C) \in Nat /\ repeats[k] \in Nat
    <3>1. Window \in Int /\ T \in Nat
      BY <1>2, <1>7
    <3>2. Cardinality(C) \in Nat
      BY <1>2, <2>1, <3>1, EpochsFinite
    <3> QED BY <1>1, <1>2, <3>2 DEF TypeOK
  <2>5. Cardinality(C) + repeats[k] >= limit
    BY <1>2, <1>6, <2>2, <2>4
  <2> QED BY <2>3, <2>4, <2>5
<1>10. SUFFICES ASSUME k \notin orphaned,
                       \A q \in Requests : req[q].pc = "expire" /\ Key(q) = k => InTime(q)
                PROVE  now - Window - Deadline <= T
  <2>1. ASSUME now - Window - Deadline <= T
        PROVE  Cardinality(PassedIn(k, (now - Window - Deadline)..now)) + repeats[k] >= limit
    <3>1. Window \in Int /\ T \in Nat
      BY <1>2, <1>7
    <3>2. /\ Cardinality(PassedIn(k, (now - Window - Deadline)..now)) \in Nat
          /\ Cardinality(PassedIn(k, (now - Window - Deadline)..now)) >= Cardinality(C)
      BY <1>1, <1>2, <1>9, <2>1, <3>1, EpochPassed
    <3> QED BY <1>2, <1>9, <3>2
  <2> QED BY <1>8, <2>1 DEF Justly, k
<1>11. CASE ends[k] # None
  <2>1. now < ends[k] /\ ends[k] \in Nat
    BY <1>2, <1>6, <1>11 DEF Gone
  <2>2. ends[k] <= T + Window + Deadline
    BY <1>7, <1>11 DEF RedisForm
  <2> QED BY <1>2, <1>7, <2>1, <2>2
<1>12. CASE ends[k] = None
  <2>1. PICK q \in Requests : req[q].pc = "expire" /\ Key(q) = k
    BY <1>1, <1>2, <1>6, <1>10, <1>12 DEF CounterHasEnd
  <2>2. now <= req[q].at + Deadline /\ req[q].at \in Nat
    BY <1>1, <1>10, <2>1, StateForm DEF InTime
  <2>3. req[q].at <= T
    BY <1>7, <2>1 DEF RedisForm
  <2> QED BY <1>2, <1>7, <2>2, <2>3
<1> QED BY <1>11, <1>12

LEMMA RefusalStep == BurstInv /\ [Next]_vars =>
  \A r \in Requests : req[r].pc = "count" /\ req'[r].pc = "refused" => Justly(Key(r))
<1> SUFFICES ASSUME BurstInv, [Next]_vars, NEW r \in Requests,
                    req[r].pc = "count", req'[r].pc = "refused"
             PROVE  Justly(Key(r))
  OBVIOUS
<1>1. TypeOK
  BY DEF BurstInv, RateInv
<1>2. ASSUME NEW p \in Requests, NEW q, Turns(p, q), q.pc # "refused" PROVE FALSE
  BY <1>1, <1>2, Moved DEF Turns
<1>3. ASSUME NEW p \in Requests, p # r, NEW q, Turns(p, q) PROVE FALSE
  BY <1>1, <1>3, Moved DEF Turns
<1>4. ASSUME NEW p \in Requests, Arrive(p) PROVE FALSE
  <2> DEFINE q == [req[p] EXCEPT !.pc = "count", !.at = now]
  <2>1. Turns(p, q)
    BY <1>1, <1>4 DEF Arrive, TypeOK, Turns
  <2>2. q.pc # "refused"
    BY <1>1, StateForm DEF States
  <2> HIDE DEF q
  <2> QED BY <1>2, <2>1, <2>2
<1>5. ASSUME NEW p \in Requests, Allow(p) PROVE p = r
  <2>1. PICK q : Turns(p, q)
    BY <1>5 DEF Allow, Turns
  <2> QED BY <1>3, <2>1
<1>6. ASSUME NEW p \in Requests, Incr(p) PROVE p = r
  <2>1. PICK q : Turns(p, q)
    BY <1>6 DEF Incr, Turns
  <2> QED BY <1>3, <2>1
<1>7. ASSUME NEW p \in Requests, IncrFails(p) \/ Expire(p) \/ ExpireFails(p) PROVE FALSE
  <2>1. Turns(p, Admit(req[p])) \/ Turns(p, Proceeds(req[p]))
    BY <1>7 DEF IncrFails, Expire, ExpireFails, Turns
  <2>2. Admit(req[p]).pc # "refused" /\ Proceeds(req[p]).pc # "refused"
    BY <1>1, StateForm, AdmitForm, ProceedsForm
  <2> QED BY <1>2, <2>1, <2>2
<1>8. ASSUME Restart PROVE FALSE
  <2>1. req'[r] = Forgotten(Killed(req[r]))
    BY <1>8 DEF Restart
  <2>2. Killed(req[r]) = Ends(req[r], "gone")
    BY DEF Killed
  <2>3. Killed(req[r]) \in States /\ Killed(req[r]).pc = "gone"
    BY <1>1, <2>2, StateForm, EndsForm
  <2>4. \A q \in States : Forgotten(q).pc = q.pc
    BY DEF Forgotten, States
  <2> QED BY <2>1, <2>3, <2>4
<1>9. ~UNCHANGED req
  OBVIOUS
<1>11. ASSUME NEW p \in Requests, IncrAgain(p) \/ ExpireAgain(p) PROVE FALSE
  BY <1>9, <1>11 DEF IncrAgain, ExpireAgain
<1>10. Allow(r) \/ Incr(r)
  BY <1>4, <1>5, <1>6, <1>7, <1>8, <1>9, <1>11 DEF Next, Tick, Stop, vars
<1> QED BY <1>10, MapRefuses, RedisRefuses

(* A request is refused only if as many as the limit were counted under    *)
(* its key within a window and the slack of the code that opens it - those *)
(* that passed, and in Redis each INCR that was sent again - or the counter*)
(* in Redis lost its end, or its EXPIRE is overdue (Allow, allowRedis).    *)
THEOREM RefusalsAreJust == Spec => RefusedWhenFull
<1>1. BurstInv /\ [Next]_vars =>
        [\A r \in Requests : req[r].pc = "count" /\ req'[r].pc = "refused" =>
           LET k == Key(r)
               slack == IF redis THEN Deadline ELSE Lag
               twice == IF redis THEN repeats[k] ELSE 0
           IN \/ Cardinality(PassedIn(k, (now - Window - slack)..now)) + twice >= limit
              \/ k \in orphaned
              \/ \E q \in Requests : req[q].pc = "expire" /\ Key(q) = k /\ ~InTime(q)]_vars
  BY RefusalStep, Zenon DEF Justly
<1> QED BY <1>1, BurstHolds, PTL DEF Spec, RefusedWhenFull
=============================================================================
