---------------------------- MODULE AccountsProofs ----------------------------
(***************************************************************************)
(* Accounts: one request creates the user, an acknowledged password is in  *)
(* force, and a password is written by a one-time password that is right,  *)
(* in time and not used before - for any number of requests and seed jobs, *)
(* any lifetime and deadline, and any number of faults.                    *)
(***************************************************************************)
EXTENDS Accounts, FiniteSetTheorems, TLAPS

(* A one-time password that is stored was sent, and ends in time. *)
StoredWasSent ==
  \A b \in Begins : otp[b] # None =>
    begin[b].pc = "sent" /\ otp[b] <= begin[b].at + TTL

(* A verification is of a one-time password that was sent; once it has     *)
(* passed the check, the purpose is right, and it has its time to write.   *)
ComesByOTP ==
  \A v \in Verifies :
    /\ verify[v].pc = "idle" => verify[v].wrote = None
    /\ verify[v].pc # "idle" => /\ verify[v].otp \in Begins
                                /\ begin[verify[v].otp].pc = "sent"
    /\ verify[v].pc = "write" =>
         /\ verify[v].wrote = None /\ ~verify[v].spent
         /\ (verify[v].otp \in Resets) <=> verify[v].reset
         /\ verify[v].began <= begin[verify[v].otp].at + TTL
    /\ verify[v].pc \in {"spend", "ok"} => verify[v].wrote # None

(* One that was used and deleted does not come back. *)
UsedIsGone ==
  \A v \in Verifies :
    verify[v].pc = "ok" /\ ~verify[v].kept => otp[verify[v].otp] = None

(* Who wrote the row last has its password there. *)
LastIsInForce ==
  \A v \in Verifies : verify[v].wrote # None =>
    user # NoUser /\ (~verify[v].over => user = PasswordOf(v))

(* Who created the user. *)
Creates(v) == ~verify[v].reset /\ verify[v].pc \in {"spend", "ok"}

OneCreator ==
  /\ \A v, w \in Verifies : Creates(v) /\ Creates(w) => v = w
  /\ \A s, t \in Seeds : seed[s] = "ok" /\ seed[t] = "ok" => s = t
  /\ \A v \in Verifies, s \in Seeds : ~(Creates(v) /\ seed[s] = "ok")

AccountsInv == /\ TypeOK /\ StoredWasSent /\ ComesByOTP /\ UsedIsGone
               /\ LastIsInForce /\ OneCreator
               /\ AcknowledgedPassword /\ WrittenByLiveOTP

(* The properties that hold of what the handlers know of each other. *)
Parts == /\ StoredWasSent /\ ComesByOTP /\ UsedIsGone
         /\ LastIsInForce /\ OneCreator
         /\ AcknowledgedPassword /\ WrittenByLiveOTP

LEMMA InvOfParts == AccountsInv <=> TypeOK /\ Parts
BY DEF AccountsInv, Parts

LEMMA InitInv == Init => AccountsInv
<1> SUFFICES ASSUME Init PROVE AccountsInv
  OBVIOUS
<1> USE NamesForm, TimesForm DEF Init
<1>1. TypeOK
  BY SMTT(30) DEF TypeOK, BeginStates, VerifyStates
<1>2. \A v \in Verifies : verify[v].pc = "idle" /\ verify[v].wrote = None
  OBVIOUS
<1>3. (\A b \in Begins : otp[b] = None) /\ (\A s \in Seeds : seed[s] = "idle")
  OBVIOUS
<1> HIDE DEF Init
<1>4. StoredWasSent /\ ComesByOTP /\ UsedIsGone /\ LastIsInForce
  BY <1>2, <1>3 DEF StoredWasSent, ComesByOTP, UsedIsGone, LastIsInForce
<1>5. OneCreator /\ AcknowledgedPassword /\ WrittenByLiveOTP
  BY <1>2, <1>3 DEF OneCreator, Creates, AcknowledgedPassword, WrittenByLiveOTP
<1> QED BY <1>1, <1>4, <1>5 DEF AccountsInv

-----------------------------------------------------------------------------
(* Types *)
LEMMA TypeNext == AccountsInv /\ [Next]_vars => TypeOK'
<1> SUFFICES ASSUME AccountsInv, [Next]_vars PROVE TypeOK'
  OBVIOUS
<1> USE TimesForm, NamesForm DEF TypeOK
<1>0. TypeOK /\ ComesByOTP
  BY DEF AccountsInv
<1>1. ASSUME NEW b \in Begins, Begin(b) PROVE TypeOK'
  BY <1>0, <1>1, SMTT(30) DEF Begin, BeginStates
<1>2. ASSUME NEW b \in Begins, Save(b) PROVE TypeOK'
  <2>1. now \in Nat /\ now + TTL \in Nat
    BY <1>0
  <2>2. otp' \in [Begins -> Nat \cup {None}]
    BY <1>0, <1>2, <2>1 DEF Save
  <2>3. begin' \in [Begins -> BeginStates]
    BY <1>0, <1>2, <2>1, ZenonT(30) DEF Save, BeginStates
  <2> QED BY <1>0, <1>2, <2>2, <2>3 DEF Save
<1>3. ASSUME NEW b \in Begins, SaveFails(b) PROVE TypeOK'
  BY <1>0, <1>3, SMTT(30) DEF SaveFails, Fails, Fault, BeginStates
<1>4. ASSUME NEW v \in Verifies, NEW b \in Begins, NEW reset \in BOOLEAN, Get(v, b, reset)
      PROVE  TypeOK'
  <2>1. Spent(b) \in BOOLEAN /\ now \in Nat
    BY <1>0 DEF Spent
  <2>2. PICK pc \in {"refused", "write"} :
          verify' = [verify EXCEPT ![v].pc = pc, ![v].otp = b, ![v].reset = reset,
                                   ![v].began = now, ![v].spent = Spent(b)]
    BY <1>4 DEF Get
  <2>3. verify' \in [Verifies -> VerifyStates]
    <3> HIDE DEF TypeOK
    <3>1. verify \in [Verifies -> VerifyStates]
      BY <1>0 DEF TypeOK
    <3> DEFINE r == [verify[v] EXCEPT !.pc = pc, !.otp = b, !.reset = reset,
                                      !.began = now, !.spent = Spent(b)]
    <3>2. r \in VerifyStates
      BY <2>1, <3>1, ZenonT(30) DEF VerifyStates
    <3>3. verify' = [verify EXCEPT ![v] = r]
      BY <2>2, <3>1
    <3> QED BY <3>1, <3>2, <3>3
  <2> QED BY <1>0, <1>4, <2>3 DEF Get
<1>5. ASSUME NEW v \in Verifies
      PROVE  Wrote(v) \in [Verifies -> VerifyStates]
  <2>1. ASSUME NEW r \in VerifyStates PROVE [r EXCEPT !.over = TRUE] \in VerifyStates
    BY <2>1, ZenonT(30) DEF VerifyStates
  <2>2. Over(verify) \in [Verifies -> VerifyStates]
    BY <1>0, <2>1 DEF Over
  <2>3. ASSUME NEW r \in VerifyStates
        PROVE  [r EXCEPT !.pc = "spend", !.wrote = now] \in VerifyStates
    <3>1. now \in Nat
      BY <1>0
    <3> HIDE DEF TypeOK
    <3> QED BY <2>3, <3>1, ZenonT(30) DEF VerifyStates
  <2>4. Wrote(v) = [Over(verify) EXCEPT ![v] = [@ EXCEPT !.pc = "spend", !.wrote = now]]
    BY <2>2 DEF Wrote
  <2> HIDE DEF TypeOK
  <2>5. Over(verify)[v] \in VerifyStates
    BY <2>2
  <2>6. [Over(verify)[v] EXCEPT !.pc = "spend", !.wrote = now] \in VerifyStates
    BY <2>3, <2>5
  <2> QED BY <2>2, <2>4, <2>6
<1>6. ASSUME NEW v \in Verifies, verify[v].pc = "write"
      PROVE  PasswordOf(v) \in Passwords
  BY <1>0, <1>6 DEF PasswordOf, Passwords, ComesByOTP, Begins, VerifyStates
<1>7. ASSUME NEW v \in Verifies, Write(v) PROVE TypeOK'
  <2>3. verify' \in [Verifies -> VerifyStates]
    <3>1. CASE Writable(v)
      BY <1>5, <1>7, <3>1 DEF Write
    <3>2. CASE ~Writable(v)
      <4>1. verify' = [verify EXCEPT ![v].pc = "conflict"]
        BY <1>7, <3>2 DEF Write
      <4> QED BY <1>0, <4>1, SMTT(30) DEF VerifyStates
    <3> QED BY <3>1, <3>2
  <2> QED BY <1>0, <1>6, <1>7, <2>3 DEF Write
<1>8. ASSUME NEW v \in Verifies, WriteFails(v) PROVE TypeOK'
  <2>1. ASSUME NEW f \in [Verifies -> VerifyStates]
        PROVE  [f EXCEPT ![v].pc = "err"] \in [Verifies -> VerifyStates]
    BY <2>1 DEF VerifyStates
  <2>2. verify' \in [Verifies -> VerifyStates]
    BY <1>0, <1>5, <1>8, <2>1 DEF WriteFails
  <2>3. faults' \in 0..MaxFaults
    BY <1>0, <1>8 DEF WriteFails, Fails, Fault
  <2> QED BY <1>0, <1>6, <1>8, <2>2, <2>3 DEF WriteFails
<1>9. ASSUME NEW v \in Verifies, Spend(v) PROVE TypeOK'
  BY <1>0, <1>9, SMTT(30) DEF Spend, VerifyStates, ComesByOTP
<1>10. ASSUME NEW v \in Verifies, SpendFails(v) PROVE TypeOK'
  <2>1. verify' \in [Verifies -> VerifyStates]
    <3> HIDE DEF TypeOK
    <3>1. verify \in [Verifies -> VerifyStates]
      BY <1>0 DEF TypeOK
    <3>2. [verify[v] EXCEPT !.pc = "ok", !.kept = TRUE] \in VerifyStates
      BY <3>1, ZenonT(30) DEF VerifyStates
    <3> QED BY <1>10, <3>1, <3>2 DEF SpendFails
  <2> QED BY <1>0, <1>10, <2>1 DEF SpendFails, Fails, Fault
<1>11. ASSUME NEW s \in Seeds, SeedLooks(s) PROVE TypeOK'
  BY <1>0, <1>11 DEF SeedLooks
<1>12. ASSUME NEW s \in Seeds, SeedInserts(s) \/ SeedFails(s) PROVE TypeOK'
  BY <1>0, <1>12 DEF SeedInserts, SeedFails, Fault, Passwords
<1>13. CASE Tick
  BY <1>0, <1>13 DEF Tick
<1>14. CASE UNCHANGED vars
  BY <1>0, <1>14 DEF vars
<1> QED
  BY <1>1, <1>2, <1>3, <1>4, <1>7, <1>8, <1>9, <1>10, <1>11, <1>12, <1>13, <1>14
  DEF Next, Stop

-----------------------------------------------------------------------------
(* A registration or a reset: nobody verifies its one-time password yet.   *)
LEMMA BeginParts ==
  ASSUME AccountsInv, NEW b \in Begins, Begin(b) \/ Save(b) \/ SaveFails(b)
  PROVE  Parts'
<1>1. /\ begin[b].pc # "sent"
      /\ \A c \in Begins \ {b} : begin'[c] = begin[c] /\ otp'[c] = otp[c]
      /\ UNCHANGED <<user, verify, seed>>
      /\ otp'[b] # None => begin'[b].pc = "sent" /\ otp'[b] <= begin'[b].at + TTL
  <2>1. TypeOK /\ StoredWasSent
    BY DEF AccountsInv
  <2>2. CASE Begin(b)
    BY <2>1, <2>2 DEF Begin, TypeOK, StoredWasSent
  <2>3. CASE SaveFails(b)
    BY <2>1, <2>3 DEF SaveFails, TypeOK, StoredWasSent
  <2>4. CASE Save(b)
    BY <2>1, <2>4, TimesForm DEF Save, TypeOK, BeginStates
  <2> QED BY <2>2, <2>3, <2>4
<1>2. /\ StoredWasSent /\ ComesByOTP /\ UsedIsGone /\ LastIsInForce /\ OneCreator
      /\ AcknowledgedPassword /\ WrittenByLiveOTP
  BY DEF AccountsInv
<1>3. \A v \in Verifies :
        verify[v].pc # "idle" => verify[v].otp \in Begins \ {b}
  BY <1>1, <1>2 DEF ComesByOTP
<1>4. StoredWasSent'
  BY <1>1, <1>2 DEF StoredWasSent
<1>5. ComesByOTP'
  BY <1>1, <1>2, <1>3 DEF ComesByOTP
<1>6. UsedIsGone'
  BY <1>1, <1>2, <1>3 DEF UsedIsGone
<1>7. LastIsInForce' /\ OneCreator' /\ AcknowledgedPassword'
  BY <1>1, <1>2 DEF LastIsInForce, OneCreator, Creates, AcknowledgedPassword, PasswordOf
<1>8. WrittenByLiveOTP'
  BY <1>1, <1>2, <1>3 DEF WrittenByLiveOTP, ComesByOTP
<1> QED BY <1>4, <1>5, <1>6, <1>7, <1>8 DEF Parts

(* A verification comes: what is stored has not been used before. *)
LEMMA GetParts ==
  ASSUME AccountsInv, NEW v \in Verifies, NEW b \in Begins, NEW reset \in BOOLEAN,
         Get(v, b, reset)
  PROVE  Parts'
<1>1. /\ TypeOK /\ StoredWasSent /\ ComesByOTP /\ UsedIsGone /\ LastIsInForce
      /\ OneCreator /\ AcknowledgedPassword /\ WrittenByLiveOTP
  BY DEF AccountsInv
<1>2. /\ verify[v].pc = "idle" /\ begin[b].pc = "sent" /\ verify[v].wrote = None
      /\ \A w \in Verifies \ {v} : verify'[w] = verify[w]
      /\ UNCHANGED <<user, otp, now, begin, seed>>
  BY <1>1 DEF Get, ComesByOTP, TypeOK
<1>3. /\ verify'[v].otp = b /\ verify'[v].reset = reset /\ verify'[v].began = now
      /\ verify'[v].wrote = None /\ verify'[v].spent = Spent(b)
      /\ verify'[v].pc \in {"refused", "write"}
      /\ verify'[v].pc = "write" => Fits(b, reset)
  BY <1>1, <1>2 DEF Get, TypeOK, VerifyStates
<1> HIDE DEF Get
<1>4. Fits(b, reset) => ~Spent(b) /\ now <= begin[b].at + TTL
  <2> SUFFICES ASSUME Fits(b, reset) PROVE ~Spent(b) /\ now <= begin[b].at + TTL
    OBVIOUS
  <2>1. ~Spent(b)
    BY <1>1 DEF Fits, Spent, UsedIsGone
  <2>2. otp[b] \in Nat /\ begin[b].at \in Nat /\ now \in Nat /\ otp[b] <= begin[b].at + TTL
    BY <1>1 DEF Fits, TypeOK, BeginStates, StoredWasSent
  <2> QED BY <2>1, <2>2, TimesForm DEF Fits
<1>5. StoredWasSent'
  BY <1>1, <1>2 DEF StoredWasSent
<1>6. ComesByOTP'
  BY <1>1, <1>2, <1>3, <1>4 DEF ComesByOTP, Fits
<1>7. UsedIsGone' /\ LastIsInForce'
  BY <1>1, <1>2, <1>3 DEF UsedIsGone, LastIsInForce, PasswordOf
<1>8. OneCreator'
  BY <1>1, <1>2, <1>3 DEF OneCreator, Creates
<1>9. AcknowledgedPassword'
  BY <1>1, <1>2, <1>3 DEF AcknowledgedPassword, PasswordOf
<1>10. WrittenByLiveOTP'
  BY <1>1, <1>2, <1>3 DEF WrittenByLiveOTP
<1> QED BY <1>5, <1>6, <1>7, <1>8, <1>9, <1>10 DEF Parts

(* What a verification that writes the row leaves as it is, and what not. *)
LEMMA WroteFacts ==
  ASSUME TypeOK, NEW v \in Verifies
  PROVE  /\ Wrote(v)[v].pc = "spend" /\ Wrote(v)[v].wrote = now
         /\ \A w \in Verifies :
              /\ w # v => Wrote(v)[w].pc = verify[w].pc /\ Wrote(v)[w].wrote = verify[w].wrote
              /\ Wrote(v)[w].otp = verify[w].otp /\ Wrote(v)[w].reset = verify[w].reset
              /\ Wrote(v)[w].began = verify[w].began /\ Wrote(v)[w].kept = verify[w].kept
              /\ Wrote(v)[w].spent = verify[w].spent
              /\ verify[w].wrote # None => Wrote(v)[w].over
         /\ Wrote(v) \in [Verifies -> VerifyStates]
<1>1. verify \in [Verifies -> VerifyStates] /\ now \in Nat
  BY DEF TypeOK
<1>2. \A w \in Verifies :
        Over(verify)[w] = IF verify[w].wrote # None THEN [verify[w] EXCEPT !.over = TRUE]
                          ELSE verify[w]
  BY DEF Over
<1>3. Over(verify) = [w \in Verifies |-> Over(verify)[w]]
  BY DEF Over
<1>4. \A w \in Verifies : Over(verify)[w] \in VerifyStates
  <2> TAKE w \in Verifies
  <2>1. verify[w] \in VerifyStates
    BY <1>1
  <2>2. [verify[w] EXCEPT !.over = TRUE] \in VerifyStates
    BY <2>1, ZenonT(30) DEF VerifyStates
  <2> QED BY <1>2, <2>1, <2>2
<1>5. \A w \in Verifies :
        Wrote(v)[w] = IF w = v THEN [Over(verify)[w] EXCEPT !.pc = "spend", !.wrote = now]
                      ELSE Over(verify)[w]
  BY <1>3 DEF Wrote
<1>6. [Over(verify)[v] EXCEPT !.pc = "spend", !.wrote = now] \in VerifyStates
  BY <1>1, <1>4, ZenonT(30) DEF VerifyStates
<1>7. Wrote(v) \in [Verifies -> VerifyStates]
  <2>1. Wrote(v) = [w \in Verifies |-> Wrote(v)[w]]
    BY <1>3 DEF Wrote
  <2> QED BY <1>4, <1>5, <1>6, <2>1
<1>8. \A w \in Verifies :
        /\ Over(verify)[w].pc = verify[w].pc /\ Over(verify)[w].wrote = verify[w].wrote
        /\ Over(verify)[w].otp = verify[w].otp /\ Over(verify)[w].reset = verify[w].reset
        /\ Over(verify)[w].began = verify[w].began /\ Over(verify)[w].kept = verify[w].kept
        /\ Over(verify)[w].spent = verify[w].spent
        /\ verify[w].wrote # None => Over(verify)[w].over
  BY <1>1, <1>2 DEF VerifyStates
<1>9. /\ Wrote(v)[v].pc = "spend" /\ Wrote(v)[v].wrote = now
      /\ Wrote(v)[v].otp = Over(verify)[v].otp /\ Wrote(v)[v].reset = Over(verify)[v].reset
      /\ Wrote(v)[v].began = Over(verify)[v].began /\ Wrote(v)[v].kept = Over(verify)[v].kept
      /\ Wrote(v)[v].spent = Over(verify)[v].spent
      /\ Wrote(v)[v].over = Over(verify)[v].over
  <2>1. Over(verify)[v] \in VerifyStates
    BY <1>4
  <2>2. Wrote(v)[v] = [Over(verify)[v] EXCEPT !.pc = "spend", !.wrote = now]
    BY <1>5
  <2> QED BY <2>1, <2>2 DEF VerifyStates
<1>10. ASSUME NEW w \in Verifies, w # v PROVE Wrote(v)[w] = Over(verify)[w]
  BY <1>5, <1>10
<1> QED BY <1>7, <1>8, <1>9, <1>10

(* A verification writes the row: nobody else has created the user, or it  *)
(* resets the password, in both cases in time.                             *)
LEMMA WriteParts ==
  ASSUME AccountsInv, NEW v \in Verifies, NEW pc \in {"spend", "err"},
         verify[v].pc = "write", ~Late(verify[v]), Writable(v),
         user' = PasswordOf(v), verify' = [Wrote(v) EXCEPT ![v].pc = pc],
         UNCHANGED <<otp, now, begin, seed>>
  PROVE  Parts'
<1>1. /\ TypeOK /\ StoredWasSent /\ ComesByOTP /\ UsedIsGone /\ LastIsInForce
      /\ OneCreator /\ AcknowledgedPassword /\ WrittenByLiveOTP
  BY DEF AccountsInv
<1>2. /\ verify'[v].pc = pc /\ verify'[v].wrote = now
      /\ \A w \in Verifies :
           /\ w # v => verify'[w].pc = verify[w].pc /\ verify'[w].wrote = verify[w].wrote
           /\ verify'[w].otp = verify[w].otp /\ verify'[w].reset = verify[w].reset
           /\ verify'[w].began = verify[w].began /\ verify'[w].kept = verify[w].kept
           /\ verify'[w].spent = verify[w].spent
           /\ verify[w].wrote # None => verify'[w].over
  BY <1>1, WroteFacts DEF VerifyStates
<1>3. /\ verify[v].otp \in Begins /\ begin[verify[v].otp].pc = "sent"
      /\ verify[v].wrote = None /\ ~verify[v].spent
      /\ (verify[v].otp \in Resets) <=> verify[v].reset
      /\ verify[v].began <= begin[verify[v].otp].at + TTL
      /\ now \in Nat /\ now # None
  BY <1>1, NamesForm DEF ComesByOTP, TypeOK
<1>4. /\ verify[v].reset => PasswordOf(v) = v
      /\ ~verify[v].reset => PasswordOf(v) \in Registrations
      /\ PasswordOf(v) # NoUser
      /\ \A w \in Verifies : PasswordOf(w)' = PasswordOf(w)
  BY <1>2, <1>3, NamesForm DEF PasswordOf, Begins
<1>5. now <= begin[verify[v].otp].at + TTL + Deadline
  <2>1. /\ verify[v].began \in Nat /\ begin[verify[v].otp].at \in Nat /\ now \in Nat
        /\ now <= verify[v].began + Deadline
    <3>1. /\ verify[v] \in VerifyStates /\ begin[verify[v].otp] \in BeginStates
          /\ now \in Nat
      BY <1>1, <1>3 DEF TypeOK
    <3>2. verify[v].began \in Nat /\ begin[verify[v].otp].at \in Nat
      BY <3>1 DEF VerifyStates, BeginStates
    <3> QED BY <3>1, <3>2, TimesForm DEF Late
  <2> QED BY <1>3, <2>1, TimesForm
<1>6. UNCHANGED <<otp, now, begin, seed>> /\ user' = PasswordOf(v) /\ verify[v].pc = "write"
  OBVIOUS
<1>7. StoredWasSent'
  BY <1>1, <1>6 DEF StoredWasSent
<1>8. ComesByOTP'
  BY <1>1, <1>2, <1>3, <1>6 DEF ComesByOTP
<1>9. UsedIsGone'
  BY <1>1, <1>2, <1>6 DEF UsedIsGone
<1>10. LastIsInForce'
  BY <1>1, <1>2, <1>3, <1>4, <1>6 DEF LastIsInForce
<1>11. ~verify[v].reset => /\ \A w \in Verifies : ~Creates(w)
                           /\ \A s \in Seeds : seed[s] # "ok"
  <2> SUFFICES ASSUME ~verify[v].reset
               PROVE  /\ \A w \in Verifies : ~Creates(w)
                      /\ \A s \in Seeds : seed[s] # "ok"
    OBVIOUS
  <2>1. user = NoUser
    BY DEF Writable
  <2>2. \A w \in Verifies : ~Creates(w)
    BY <1>1, <2>1 DEF Creates, ComesByOTP, LastIsInForce
  <2>3. \A s \in Seeds : seed[s] # "ok"
    BY <1>1, <2>1, NamesForm DEF AcknowledgedPassword
  <2> QED BY <2>2, <2>3
<1>12. OneCreator'
  BY <1>1, <1>2, <1>6, <1>11 DEF OneCreator, Creates
<1>13. AcknowledgedPassword'
  <2>1. \A w \in Verifies : (verify[w].pc = "ok" /\ ~verify[w].over => user = PasswordOf(w))'
    BY <1>1, <1>2, <1>3, <1>6 DEF ComesByOTP
  <2>2. \A s \in Seeds : (seed[s] = "ok" => user = s \/ user \in Verifies)'
    BY <1>4, <1>6, <1>11
  <2> QED BY <2>1, <2>2 DEF AcknowledgedPassword
<1>14. WrittenByLiveOTP'
  BY <1>1, <1>2, <1>3, <1>5, <1>6 DEF WrittenByLiveOTP
<1> QED BY <1>7, <1>8, <1>9, <1>10, <1>12, <1>13, <1>14 DEF Parts

(* A verification that ends without having written, or after it has. *)
LEMMA EndParts ==
  ASSUME AccountsInv, NEW v \in Verifies,
         \/ verify[v].pc = "write" /\ verify'[v].pc \in {"conflict", "err"} /\ otp' = otp
         \/ verify[v].pc = "spend" /\ verify'[v].pc = "ok" /\ verify'[v].kept /\ otp' = otp
         \/ /\ verify[v].pc = "spend" /\ verify'[v].pc = "ok"
            /\ otp' = [otp EXCEPT ![verify[v].otp] = None],
         \A w \in Verifies \ {v} : verify'[w] = verify[w],
         /\ verify'[v].otp = verify[v].otp /\ verify'[v].reset = verify[v].reset
         /\ verify'[v].wrote = verify[v].wrote /\ verify'[v].over = verify[v].over
         /\ verify'[v].spent = verify[v].spent,
         UNCHANGED <<user, now, begin, seed>>
  PROVE  Parts'
<1>1. /\ TypeOK /\ StoredWasSent /\ ComesByOTP /\ UsedIsGone /\ LastIsInForce
      /\ OneCreator /\ AcknowledgedPassword /\ WrittenByLiveOTP
  BY DEF AccountsInv
<1>2. verify[v].otp \in Begins /\ otp \in [Begins -> Nat \cup {None}]
  BY <1>1 DEF ComesByOTP, TypeOK
<1>3. /\ \A b \in Begins : otp'[b] = otp[b] \/ otp'[b] = None
      /\ verify'[v].pc = "ok" /\ ~verify'[v].kept => otp'[verify[v].otp] = None
  BY <1>2
<1>4. \A w \in Verifies : PasswordOf(w)' = PasswordOf(w)
  BY DEF PasswordOf
<1>5. StoredWasSent'
  BY <1>1, <1>3 DEF StoredWasSent
<1>6. ComesByOTP'
  BY <1>1 DEF ComesByOTP
<1>7. UsedIsGone'
  BY <1>1, <1>3 DEF UsedIsGone, ComesByOTP
<1>8. LastIsInForce'
  BY <1>1, <1>4 DEF LastIsInForce
<1>9. OneCreator'
  BY <1>1 DEF OneCreator, Creates
<1>10. AcknowledgedPassword'
  BY <1>1, <1>4 DEF AcknowledgedPassword, LastIsInForce, ComesByOTP
<1>11. WrittenByLiveOTP'
  BY <1>1 DEF WrittenByLiveOTP
<1> QED BY <1>5, <1>6, <1>7, <1>8, <1>9, <1>10, <1>11 DEF Parts

LEMMA SeedParts ==
  ASSUME AccountsInv, NEW s \in Seeds, SeedLooks(s) \/ SeedInserts(s) \/ SeedFails(s)
  PROVE  Parts'
<1>1. /\ TypeOK /\ StoredWasSent /\ ComesByOTP /\ UsedIsGone /\ LastIsInForce
      /\ OneCreator /\ AcknowledgedPassword /\ WrittenByLiveOTP
  BY DEF AccountsInv
<1>2. /\ UNCHANGED <<otp, now, begin, verify>>
      /\ \A t \in Seeds \ {s} : seed'[t] = seed[t]
      /\ \/ user' = user /\ seed'[s] # "ok"
         \/ user = NoUser /\ user' = s /\ seed'[s] \in {"ok", "err"}
  BY <1>1 DEF SeedLooks, SeedInserts, SeedFails, TypeOK
<1>3. user = NoUser => /\ \A v \in Verifies : verify[v].wrote = None /\ ~Creates(v)
                                              /\ verify[v].pc # "ok"
                       /\ \A t \in Seeds : seed[t] # "ok"
  BY <1>1, NamesForm DEF LastIsInForce, ComesByOTP, Creates, AcknowledgedPassword
<1>4. \A v \in Verifies : PasswordOf(v)' = PasswordOf(v) /\ (Creates(v)' <=> Creates(v))
  BY <1>2 DEF PasswordOf, Creates
<1>5. StoredWasSent' /\ ComesByOTP' /\ UsedIsGone' /\ WrittenByLiveOTP'
  BY <1>1, <1>2 DEF StoredWasSent, ComesByOTP, UsedIsGone, WrittenByLiveOTP
<1>6. LastIsInForce'
  BY <1>1, <1>2, <1>3, <1>4 DEF LastIsInForce
<1>7. OneCreator'
  BY <1>1, <1>2, <1>3, <1>4 DEF OneCreator
<1>8. AcknowledgedPassword'
  BY <1>1, <1>2, <1>3, <1>4 DEF AcknowledgedPassword
<1> QED BY <1>5, <1>6, <1>7, <1>8 DEF Parts

-----------------------------------------------------------------------------
(* AccountsInv is inductive. *)
LEMMA NextInv == AccountsInv /\ [Next]_vars => AccountsInv'
<1> SUFFICES ASSUME AccountsInv, [Next]_vars PROVE AccountsInv'
  OBVIOUS
<1>1. TypeOK /\ TypeOK'
  BY TypeNext DEF AccountsInv
<1>2. verify \in [Verifies -> VerifyStates] /\ now \in Nat
  BY <1>1 DEF TypeOK
<1>3. ASSUME NEW v \in Verifies, NEW f, f = Wrote(v)
      PROVE  f = [Wrote(v) EXCEPT ![v].pc = "spend"]
  <2>1. Wrote(v) \in [Verifies -> VerifyStates] /\ Wrote(v)[v].pc = "spend"
    BY <1>1, WroteFacts
  <2>2. Wrote(v)[v] \in VerifyStates
    BY <2>1
  <2>3. [Wrote(v)[v] EXCEPT !.pc = "spend"] = Wrote(v)[v]
    BY <2>1, <2>2 DEF VerifyStates
  <2> QED BY <1>3, <2>1, <2>3
<1>4. ASSUME NEW v \in Verifies, Write(v) PROVE Parts'
  <2>1. CASE Writable(v)
    <3>1. verify' = [Wrote(v) EXCEPT ![v].pc = "spend"]
      BY <1>3, <1>4, <2>1 DEF Write
    <3> QED BY <1>4, <2>1, <3>1, WriteParts DEF Write
  <2>2. CASE ~Writable(v)
    BY <1>2, <1>4, <2>2, EndParts DEF Write, VerifyStates
  <2> QED BY <2>1, <2>2
<1>5. ASSUME NEW v \in Verifies, WriteFails(v) PROVE Parts'
  <2>1. CASE UNCHANGED user /\ verify' = [verify EXCEPT ![v].pc = "err"]
    BY <1>2, <1>5, <2>1, EndParts DEF WriteFails, VerifyStates
  <2>2. CASE /\ ~Late(verify[v]) /\ Writable(v) /\ user' = PasswordOf(v)
             /\ verify' = [Wrote(v) EXCEPT ![v].pc = "err"]
    BY <1>5, <2>2, WriteParts DEF WriteFails
  <2> QED BY <1>5, <2>1, <2>2 DEF WriteFails
<1>6. ASSUME NEW v \in Verifies, Spend(v) \/ SpendFails(v) PROVE Parts'
  <2>1. CASE Spend(v)
    BY <1>2, <2>1, EndParts DEF Spend, VerifyStates
  <2>2. CASE SpendFails(v)
    BY <1>2, <2>2, EndParts DEF SpendFails, VerifyStates
  <2> QED BY <1>6, <2>1, <2>2
<1>7. ASSUME UNCHANGED <<user, otp, begin, verify, seed>> PROVE Parts'
  <2>1. Parts
    BY InvOfParts
  <2> QED
    BY <1>7, <2>1 DEF Parts, StoredWasSent, ComesByOTP, UsedIsGone, LastIsInForce,
       OneCreator, Creates, AcknowledgedPassword, PasswordOf, WrittenByLiveOTP
<1>8. Parts'
  <2>1. CASE Tick \/ Stop \/ UNCHANGED vars
    BY <1>7, <2>1 DEF Tick, Stop, vars
  <2> QED BY <1>4, <1>5, <1>6, <2>1, BeginParts, GetParts, SeedParts DEF Next
<1> QED BY <1>1, <1>8 DEF Parts, AccountsInv

LEMMA AccountsInvHolds == Spec => []AccountsInv
BY InitInv, NextInv, PTL DEF Spec

(* One creator: the sets CreatedOnce counts are disjoint, and one of them  *)
(* has at most one member while the other is empty.                        *)
LEMMA CreatedOnceOfOneCreator == OneCreator => CreatedOnce
<1> SUFFICES ASSUME OneCreator PROVE CreatedOnce
  OBVIOUS
<1> DEFINE created == {v \in Verifies : ~verify[v].reset /\ verify[v].pc \in {"spend", "ok"}}
           seeded == {s \in Seeds : seed[s] = "ok"}
<1>1. ASSUME NEW S, \A x, y \in S : x = y
      PROVE  Cardinality(S) \in {0, 1} /\ (S = {} => Cardinality(S) = 0)
  <2>1. CASE S = {}
    BY <2>1, FS_EmptySet
  <2>2. CASE S # {}
    <3>1. PICK x \in S : TRUE
      BY <2>2
    <3>2. S = {x}
      BY <1>1, <3>1
    <3> QED BY <2>2, <3>2, FS_Singleton
  <2> QED BY <2>1, <2>2
<1>2. /\ \A v, w \in created : v = w
      /\ \A s, t \in seeded : s = t
      /\ created = {} \/ seeded = {}
  BY DEF OneCreator, Creates
<1> HIDE DEF created, seeded
<1>3. Cardinality(created) + Cardinality(seeded) <= 1
  BY <1>1, <1>2
<1> QED BY <1>3 DEF CreatedOnce, created, seeded

-----------------------------------------------------------------------------
(* One request at most creates the user - whatever registrations, repeated *)
(* verifications and seed jobs race for the email.                         *)
THEOREM CreatedOnceHolds == Spec => []CreatedOnce
<1>1. AccountsInv => CreatedOnce
  BY CreatedOnceOfOneCreator DEF AccountsInv
<1> QED BY <1>1, AccountsInvHolds, PTL

(* A password that was acknowledged is in force until a reset writes       *)
(* another.                                                                *)
THEOREM PasswordStands == Spec => []AcknowledgedPassword
<1>1. AccountsInv => AcknowledgedPassword
  BY DEF AccountsInv
<1> QED BY <1>1, AccountsInvHolds, PTL

(* A password is written by a one-time password of the right purpose, in   *)
(* time, and not by one that had been used.                                *)
THEOREM OTPWasLive == Spec => []WrittenByLiveOTP
<1>1. AccountsInv => WrittenByLiveOTP
  BY DEF AccountsInv
<1> QED BY <1>1, AccountsInvHolds, PTL

(* Every variable keeps its type. *)
THEOREM TypeCorrect == Spec => []TypeOK
<1>1. AccountsInv => TypeOK
  BY DEF AccountsInv
<1> QED BY <1>1, AccountsInvHolds, PTL
=============================================================================
