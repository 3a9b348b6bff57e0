------------------------------- MODULE Accounts -------------------------------
(***************************************************************************)
(* Registration and password reset in auth-service (service.go: Begin...,  *)
(* Verify...), with the one-time passwords in Redis (otp/store.go)         *)
(* and the user in Postgres, and the seed job that may write the same user *)
(* (migrations/seed/auth.go).                                              *)
(*                                                                         *)
(* One email address.  A one-time password is named by the request that    *)
(* stored it (its temp token); the user's password is named by the request *)
(* that brought it: a registration, a verification of a reset, or a seed.  *)
(***************************************************************************)
EXTENDS Integers, FiniteSets

CONSTANTS Registrations,   \* register requests
          Resets,          \* forgot-password requests
          Verifies,        \* verifications, of either kind
          Seeds,           \* runs of the seed job
          Capitals,        \* those that are configured with capital letters
          TTL,             \* OTP_TTL, in ticks
          Deadline,        \* time a handler has, in ticks (5 s in the code)
          NoUser, None,
          MaxTime,         \* bound: the clock stops here
          MaxFaults        \* bound: failed statements and calls

ASSUME TimesForm == {TTL, Deadline, MaxTime, MaxFaults} \subseteq Nat
ASSUME NamesForm ==
  /\ Capitals \subseteq Seeds
  /\ Registrations \cap (Resets \cup Verifies \cup Seeds) = {}
  /\ Seeds \cap Verifies = {}
  /\ NoUser \notin Registrations \cup Verifies \cup Seeds
  /\ None \notin Registrations \cup Resets \cup Nat

VARIABLES user,    \* the password of the row in users, NoUser without one
          otp,     \* otp[b]: until when the one-time password b is stored
          now,     \* the clock
          begin,   \* the handlers of registrations and resets
          verify,  \* the handlers of verifications
          seed,    \* the seed jobs
          faults

vars == <<user, otp, now, begin, verify, seed, faults>>

Begins == Registrations \cup Resets
Passwords == Registrations \cup Verifies \cup Seeds

\* Auxiliary: at, when the one-time password was stored.
BeginStates == [pc : {"idle", "save", "sent", "refused", "err"}, began : Nat, at : Nat]
\* Auxiliary: wrote, when the verification wrote the row; over, the row has
\* been written again since; kept, the one-time password was not deleted;
\* spent, another one had deleted it when this one came.
VerifyStates == [pc : {"idle", "write", "spend", "ok", "refused", "conflict", "err"},
                 otp : Begins \cup {None}, reset : BOOLEAN, began : Nat,
                 wrote : Nat \cup {None}, over : BOOLEAN, kept : BOOLEAN,
                 spent : BOOLEAN]

TypeOK == /\ user \in Passwords \cup {NoUser}
          /\ otp \in [Begins -> Nat \cup {None}]
          /\ now \in 0..MaxTime
          /\ begin \in [Begins -> BeginStates]
          /\ verify \in [Verifies -> VerifyStates]
          /\ seed \in [Seeds -> {"idle", "insert", "ok", "skipped", "err"}]
          /\ faults \in 0..MaxFaults

Init == /\ user = NoUser
        /\ otp = [b \in Begins |-> None]
        /\ now = 0 /\ faults = 0
        /\ begin = [b \in Begins |-> [pc |-> "idle", began |-> 0, at |-> 0]]
        /\ verify = [v \in Verifies |->
             [pc |-> "idle", otp |-> None, reset |-> FALSE, began |-> 0,
              wrote |-> None, over |-> FALSE, kept |-> FALSE, spent |-> FALSE]]
        /\ seed = [s \in Seeds |-> "idle"]

-----------------------------------------------------------------------------
Fault == faults < MaxFaults /\ faults' = faults + 1
Late(r) == now > r.began + Deadline
Fails(r) == Fault \/ (Late(r) /\ UNCHANGED faults)

(* BeginRegistration wants no user of the email, BeginForgotPassword one. *)
Begin(b) ==
  /\ begin[b].pc = "idle"
  /\ begin' = [begin EXCEPT ![b].began = now,
                            ![b].pc = IF (b \in Resets) <=> (user # NoUser)
                                      THEN "save" ELSE "refused"]
  /\ UNCHANGED <<user, otp, now, verify, seed, faults>>

(* otp.Store.Save.  The email goes out after it; whether it does, nobody   *)
(* waits for.                                                              *)
Save(b) ==
  /\ begin[b].pc = "save" /\ ~Late(begin[b])
  /\ otp' = [otp EXCEPT ![b] = now + TTL]
  /\ begin' = [begin EXCEPT ![b].pc = "sent", ![b].at = now]
  /\ UNCHANGED <<user, now, verify, seed, faults>>

SaveFails(b) ==
  /\ begin[b].pc = "save" /\ Fails(begin[b])
  /\ begin' = [begin EXCEPT ![b].pc = "err"]
  /\ UNCHANGED <<user, otp, now, verify, seed>>

-----------------------------------------------------------------------------
(* otp.Store.Get, and the purpose of what it found. *)
Fits(b, reset) == /\ otp[b] # None /\ now < otp[b]
                  /\ (b \in Resets) <=> reset

Spent(b) == \E w \in Verifies :
              verify[w].otp = b /\ verify[w].pc = "ok" /\ ~verify[w].kept

(* The first half of VerifyRegistrationOTP and VerifyForgotPasswordOTP,    *)
(* for a temp token that was sent out; the code may be wrong.              *)
Get(v, b, reset) ==
  /\ verify[v].pc = "idle" /\ begin[b].pc = "sent"
  /\ \E pc \in {"refused"} \cup (IF Fits(b, reset) THEN {"write"} ELSE {}) :
       verify' = [verify EXCEPT ![v].pc = pc, ![v].otp = b,
                                ![v].reset = reset, ![v].began = now,
                                ![v].spent = Spent(b)]
  /\ UNCHANGED <<user, otp, now, begin, seed, faults>>

\* mutant: a reset writes the hash of the payload, which has none.
PasswordOf_Payload(v) == verify[v].otp

PasswordOf(v) == IF verify[v].reset THEN v ELSE verify[v].otp

\* The row is written: what was written before is over.
Over(f) == [w \in Verifies |-> IF f[w].wrote # None THEN [f[w] EXCEPT !.over = TRUE]
                               ELSE f[w]]
Wrote(v) == [Over(verify) EXCEPT ![v].pc = "spend", ![v].wrote = now]

\* mutant: an existing user is not looked for, the insert overwrites it.
Writable_Any(v) == TRUE

(* CreateUser inserts, UpdatePasswordByEmail updates. *)
Writable(v) == verify[v].reset <=> (user # NoUser)

Write(v) ==
  /\ verify[v].pc = "write" /\ ~Late(verify[v])
  /\ IF Writable(v)
     THEN user' = PasswordOf(v) /\ verify' = Wrote(v)
     ELSE verify' = [verify EXCEPT ![v].pc = "conflict"] /\ UNCHANGED user
  /\ UNCHANGED <<otp, now, begin, seed, faults>>

(* The statement fails, or only its answer. *)
WriteFails(v) ==
  /\ verify[v].pc = "write" /\ Fails(verify[v])
  /\ \/ /\ UNCHANGED user
        /\ verify' = [verify EXCEPT ![v].pc = "err"]
     \/ /\ ~Late(verify[v]) /\ Writable(v)
        /\ user' = PasswordOf(v)
        /\ verify' = [Wrote(v) EXCEPT ![v].pc = "err"]
  /\ UNCHANGED <<otp, now, begin, seed>>

\* mutant: a used one-time password stays.
Spend_Kept(v) ==
  /\ verify[v].pc = "spend"
  /\ verify' = [verify EXCEPT ![v].pc = "ok"]
  /\ UNCHANGED <<user, otp, now, begin, seed, faults>>

(* otp.Store.Delete. *)
Spend(v) ==
  /\ verify[v].pc = "spend" /\ ~Late(verify[v])
  /\ otp' = [otp EXCEPT ![verify[v].otp] = None]
  /\ verify' = [verify EXCEPT ![v].pc = "ok"]
  /\ UNCHANGED <<user, now, begin, seed, faults>>

(* Its error is dropped: the one-time password stays until its time is up. *)
SpendFails(v) ==
  /\ verify[v].pc = "spend" /\ Fails(verify[v])
  /\ verify' = [verify EXCEPT ![v].pc = "ok", ![v].kept = TRUE]
  /\ UNCHANGED <<user, otp, now, begin, seed>>

-----------------------------------------------------------------------------
(* ensureUser: the row is looked for, as the address is spelled in the     *)
(* configuration, and then inserted, as all rows are, in lower case.       *)
SeedFinds(s) == user # NoUser /\ s \notin Capitals

SeedLooks(s) ==
  /\ seed[s] = "idle"
  /\ seed' = [seed EXCEPT ![s] = IF SeedFinds(s) THEN "skipped" ELSE "insert"]
  /\ UNCHANGED <<user, otp, now, begin, verify, faults>>

\* mutant: the insert overwrites a row that has come up meanwhile.
SeedInserts_Overwrites(s) ==
  /\ seed[s] = "insert"
  /\ user' = s /\ seed' = [seed EXCEPT ![s] = "ok"]
  /\ UNCHANGED <<otp, now, begin, verify, faults>>

SeedInserts(s) ==
  /\ seed[s] = "insert"
  /\ IF user = NoUser
     THEN user' = s /\ seed' = [seed EXCEPT ![s] = "ok"]
     ELSE seed' = [seed EXCEPT ![s] = "err"] /\ UNCHANGED user
  /\ UNCHANGED <<otp, now, begin, verify, faults>>

(* A statement fails, or only the answer of the insert. *)
SeedFails(s) ==
  /\ seed[s] \in {"idle", "insert"} /\ Fault
  /\ \/ UNCHANGED user
     \/ seed[s] = "insert" /\ user = NoUser /\ user' = s
  /\ seed' = [seed EXCEPT ![s] = "err"]
  /\ UNCHANGED <<otp, now, begin, verify>>

Tick == /\ now < MaxTime /\ now' = now + 1
        /\ UNCHANGED <<user, otp, begin, verify, seed, faults>>

(* The bound is reached; requests may be unfinished. *)
Stop == now = MaxTime /\ UNCHANGED vars

Next == \/ \E b \in Begins : Begin(b) \/ Save(b) \/ SaveFails(b)
        \/ \E v \in Verifies :
             \/ \E b \in Begins, reset \in BOOLEAN : Get(v, b, reset)
             \/ Write(v) \/ WriteFails(v) \/ Spend(v) \/ SpendFails(v)
        \/ \E s \in Seeds : SeedLooks(s) \/ SeedInserts(s) \/ SeedFails(s)
        \/ Tick \/ Stop

Spec == Init /\ [][Next]_vars

-----------------------------------------------------------------------------
(* Whatever races for the email - two registrations, a verification sent   *)
(* twice, the seed job - exactly one creates the user, and only its        *)
(* request is answered with success (the unique constraint and ErrConflict *)
(* after the check in BeginRegistration and ensureUser).                   *)
CreatedOnce ==
  LET created == {v \in Verifies : ~verify[v].reset /\ verify[v].pc \in {"spend", "ok"}}
  IN  Cardinality(created) + Cardinality({s \in Seeds : seed[s] = "ok"}) <= 1

(* A password that was acknowledged is the one in force until a reset      *)
(* writes another (VerifyRegistrationOTP, VerifyForgotPasswordOTP).        *)
AcknowledgedPassword ==
  /\ \A v \in Verifies :
       verify[v].pc = "ok" /\ ~verify[v].over => user = PasswordOf(v)
  /\ \A s \in Seeds : seed[s] = "ok" => user = s \/ user \in Verifies

(* A password is written by a one-time password of the right purpose, no   *)
(* later than its lifetime and the time a handler has after it was stored, *)
(* and not by one that had been used when the verification came, unless    *)
(* its deletion failed (the handlers' Get, write and Delete, in time).     *)
WrittenByLiveOTP ==
  \A v \in Verifies : verify[v].wrote # None =>
    /\ (verify[v].otp \in Resets) <=> verify[v].reset
    /\ verify[v].wrote <= begin[verify[v].otp].at + TTL + Deadline
    /\ ~verify[v].spent
=============================================================================
