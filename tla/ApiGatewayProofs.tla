--------------------------- MODULE ApiGatewayProofs ---------------------------
(***************************************************************************)
(* For every path, every token and every header a request may come with:   *)
(* a handler acts for the token's subject - object-api also for whom the   *)
(* headers of a direct request name - and the three tables agree.          *)
(*                                                                         *)
(* The invariant says what a service can rely on when the gateway sent it  *)
(* the request: either no token was needed for that path - and then none   *)
(* of the services' guarded paths is meant - or the gateway found a good   *)
(* token and put its claims into the headers.                              *)
(***************************************************************************)
EXTENDS ApiGateway, SequenceTheorems, TLAPS

\* The gateway has sent the request on, or a service has answered it.
Behind == ~req.direct /\ (req.pc \in Services \/ (req.pc = "done" /\ req.by \in Services))

Arrived == /\ req.pc = "idle" => req.principal = None /\ req.status = ""
           /\ req.pc # "idle" => req.path \in Paths /\ req.at <= now
           /\ req.pc # "done" => req.principal = None

Checked == Behind => \/ Public
                     \/ /\ req.bearer \in Sound /\ req.at < Exp[req.bearer]
                        /\ req.header = Verified

Routed == ~req.direct /\ req.pc \in Services =>
  /\ req.path # Healthz
  /\ req.pc = "auth-service" => IsAuthPath(req.path)
  /\ req.pc = "object-api" => IsObjectPath(req.path) /\ ~IsAuthPath(req.path)

GatewayInv == TypeOK /\ Arrived /\ Checked /\ Routed /\ SamePrincipal /\ TablesAgree

-----------------------------------------------------------------------------
(* A prefix is met segment by segment. *)
LEMMA PrefixForm ==
  ASSUME NEW S, NEW s \in Seq(S), NEW t \in Seq(S)
  PROVE  IsPrefix(s, t) <=> /\ Len(s) <= Len(t)
                            /\ \A i \in 1..Len(s) : s[i] = t[i]
  <1> SUFFICES ASSUME Len(s) <= Len(t)
               PROVE  SubSeq(s, 1, Len(s)) = SubSeq(t, 1, Len(s))
                        <=> \A i \in 1..Len(s) : s[i] = t[i]
    BY DEF IsPrefix
  <1>1. Len(s) \in Nat /\ Len(t) \in Nat
    OBVIOUS
  <1>2. \A i \in 1..Len(s) : s[i] \in S /\ t[i] \in S
    BY <1>1, ElementOfSeq
  <1>3. /\ SubSeq(s, 1, Len(s)) \in Seq(S)
        /\ Len(SubSeq(s, 1, Len(s))) = Len(s)
        /\ \A i \in 1..Len(s) : SubSeq(s, 1, Len(s))[i] = s[i]
    BY <1>1, <1>2, SubSeqProperties
  <1>4. /\ SubSeq(t, 1, Len(s)) \in Seq(S)
        /\ Len(SubSeq(t, 1, Len(s))) = Len(s)
        /\ \A i \in 1..Len(s) : SubSeq(t, 1, Len(s))[i] = t[i]
    BY <1>1, <1>2, SubSeqProperties
  <1>5. ASSUME \A i \in 1..Len(s) : s[i] = t[i]
        PROVE  SubSeq(s, 1, Len(s)) = SubSeq(t, 1, Len(s))
    BY <1>3, <1>4, <1>5, SeqEqual
  <1>6. ASSUME SubSeq(s, 1, Len(s)) = SubSeq(t, 1, Len(s)), NEW i \in 1..Len(s)
        PROVE  s[i] = t[i]
    BY <1>3, <1>4, <1>6
  <1> QED  BY <1>5, <1>6

LEMMA FrontForm ==
  ASSUME NEW S, NEW m \in Nat, NEW n \in Nat, NEW s \in Seq(S), n = m + 1, Len(s) = n
  PROVE  /\ Front(s) \in Seq(S) /\ Len(Front(s)) = m
         /\ \A i \in 1..m : Front(s)[i] = s[i]
  <1>1. \A i \in 1..m : s[i] \in S
    BY ElementOfSeq
  <1>2. /\ SubSeq(s, 1, m) \in Seq(S)
        /\ Len(SubSeq(s, 1, m)) = IF 1 <= m THEN m - 1 + 1 ELSE 0
        /\ \A i \in 1..(m - 1 + 1) : SubSeq(s, 1, m)[i] = s[1 + i - 1]
    BY <1>1, SubSeqProperties
  <1>3. Len(s) - 1 = m
    OBVIOUS
  <1>4. Front(s) = SubSeq(s, 1, m)
    BY <1>3 DEF Front
  <1>5. m - 1 + 1 = m /\ (IF 1 <= m THEN m - 1 + 1 ELSE 0) = m
    OBVIOUS
  <1>6. \A i \in 1..m : 1 + i - 1 = i
    OBVIOUS
  <1> QED  BY <1>2, <1>4, <1>5, <1>6

LEMMA UnderForm ==
  ASSUME NEW S, NEW path \in Seq(S), NEW m \in Nat, NEW n \in Nat, NEW prefix \in Seq(S),
         n = m + 1, Len(prefix) = n
  PROVE  Under(path, prefix) <=>
           /\ Len(path) >= n
           /\ \A i \in 1..m : path[i] = prefix[i]
           /\ prefix[n] = "" \/ path[n] \in GoesOn(prefix[n])
  <1>1. Len(path) \in Nat
    OBVIOUS
  <1>2. /\ Front(prefix) \in Seq(S) /\ Len(Front(prefix)) = m
        /\ \A i \in 1..m : Front(prefix)[i] = prefix[i]
    BY FrontForm
  <1>3. IsPrefix(Front(prefix), path) <=>
          m <= Len(path) /\ \A i \in 1..m : prefix[i] = path[i]
    <2> DEFINE f == Front(prefix)
    <2>1. f \in Seq(S) /\ Len(f) = m /\ \A i \in 1..m : f[i] = prefix[i]
      BY <1>2
    <2> HIDE DEF f
    <2>2. IsPrefix(f, path) <=> Len(f) <= Len(path) /\ \A i \in 1..Len(f) : f[i] = path[i]
      BY <2>1, PrefixForm
    <2>3. IsPrefix(f, path) <=> m <= Len(path) /\ \A i \in 1..m : prefix[i] = path[i]
      BY <2>1, <2>2
    <2> QED  BY <2>3 DEF f
  <1>4. Last(prefix) = prefix[n] /\ Len(prefix) = n
    BY DEF Last
  <1>5. Len(path) >= n => m <= Len(path)
    BY <1>1
  <1>6. Under(path, prefix) <=>
          /\ Len(path) >= n /\ IsPrefix(Front(prefix), path)
          /\ prefix[n] = "" \/ path[n] \in GoesOn(prefix[n])
    BY <1>4, Zenon DEF Under
  <1> QED  BY <1>3, <1>5, <1>6

LEMMA Under2 ==
  ASSUME NEW path \in Seq(STRING), NEW a, NEW b
  PROVE  Under(path, <<a, b>>) <=>
           /\ Len(path) >= 2 /\ path[1] = a
           /\ b = "" \/ path[2] \in GoesOn(b)
  <1> DEFINE S == STRING \cup {a, b}
             p == <<a, b>>
  <1>1. path \in Seq(S)
    BY SeqMonotonic
  <1>2. a \in S /\ b \in S
    OBVIOUS
  <1> HIDE DEF S
  <1>3. /\ p \in Seq(S) /\ Len(p) = 2
        /\ p[1] = a /\ p[2] = b
    BY <1>2
  <1> HIDE DEF p
  <1>4. 1 \in Nat /\ 2 \in Nat /\ 2 = 1 + 1
    OBVIOUS
  <1>5. Under(path, p) <=> /\ Len(path) >= 2
                           /\ \A i \in 1..1 : path[i] = p[i]
                           /\ p[2] = "" \/ path[2] \in GoesOn(p[2])
    BY <1>1, <1>3, <1>4, UnderForm
  <1>6. (\A i \in 1..1 : path[i] = p[i])
          <=> path[1] = a
    BY <1>3
  <1>7. Under(path, p) <=> /\ Len(path) >= 2 /\ path[1] = a
                           /\ b = "" \/ path[2] \in GoesOn(b)
    BY <1>3, <1>5, <1>6
  <1> QED  BY <1>7 DEF p

LEMMA Under3 ==
  ASSUME NEW path \in Seq(STRING), NEW a, NEW b, NEW c
  PROVE  Under(path, <<a, b, c>>) <=>
           /\ Len(path) >= 3 /\ path[1] = a /\ path[2] = b
           /\ c = "" \/ path[3] \in GoesOn(c)
  <1> DEFINE S == STRING \cup {a, b, c}
             p == <<a, b, c>>
  <1>1. path \in Seq(S)
    BY SeqMonotonic
  <1>2. a \in S /\ b \in S /\ c \in S
    OBVIOUS
  <1> HIDE DEF S
  <1>3. /\ p \in Seq(S) /\ Len(p) = 3
        /\ p[1] = a /\ p[2] = b /\ p[3] = c
    BY <1>2
  <1> HIDE DEF p
  <1>4. 2 \in Nat /\ 3 \in Nat /\ 3 = 2 + 1
    OBVIOUS
  <1>5. Under(path, p) <=> /\ Len(path) >= 3
                           /\ \A i \in 1..2 : path[i] = p[i]
                           /\ p[3] = "" \/ path[3] \in GoesOn(p[3])
    BY <1>1, <1>3, <1>4, UnderForm
  <1>6. (\A i \in 1..2 : path[i] = p[i])
          <=> path[1] = a /\ path[2] = b
    BY <1>3
  <1>7. Under(path, p) <=> /\ Len(path) >= 3 /\ path[1] = a /\ path[2] = b
                           /\ c = "" \/ path[3] \in GoesOn(c)
    BY <1>3, <1>5, <1>6
  <1> QED  BY <1>7 DEF p

LEMMA Under4 ==
  ASSUME NEW path \in Seq(STRING), NEW a, NEW b, NEW c, NEW d
  PROVE  Under(path, <<a, b, c, d>>) <=>
           /\ Len(path) >= 4 /\ path[1] = a /\ path[2] = b /\ path[3] = c
           /\ d = "" \/ path[4] \in GoesOn(d)
  <1> DEFINE S == STRING \cup {a, b, c, d}
             p == <<a, b, c, d>>
  <1>1. path \in Seq(S)
    BY SeqMonotonic
  <1>2. a \in S /\ b \in S /\ c \in S /\ d \in S
    OBVIOUS
  <1> HIDE DEF S
  <1>3. /\ p \in Seq(S) /\ Len(p) = 4
        /\ p[1] = a /\ p[2] = b /\ p[3] = c /\ p[4] = d
    BY <1>2
  <1> HIDE DEF p
  <1>4. 3 \in Nat /\ 4 \in Nat /\ 4 = 3 + 1
    OBVIOUS
  <1>5. Under(path, p) <=> /\ Len(path) >= 4
                           /\ \A i \in 1..3 : path[i] = p[i]
                           /\ p[4] = "" \/ path[4] \in GoesOn(p[4])
    BY <1>1, <1>3, <1>4, UnderForm
  <1>6. (\A i \in 1..3 : path[i] = p[i])
          <=> path[1] = a /\ path[2] = b /\ path[3] = c
    BY <1>3
  <1>7. Under(path, p) <=> /\ Len(path) >= 4 /\ path[1] = a /\ path[2] = b /\ path[3] = c
                           /\ d = "" \/ path[4] \in GoesOn(d)
    BY <1>3, <1>5, <1>6
  <1> QED  BY <1>7 DEF p

LEMMA Under5 ==
  ASSUME NEW path \in Seq(STRING), NEW a, NEW b, NEW c, NEW d, NEW e
  PROVE  Under(path, <<a, b, c, d, e>>) <=>
           /\ Len(path) >= 5 /\ path[1] = a /\ path[2] = b /\ path[3] = c /\ path[4] = d
           /\ e = "" \/ path[5] \in GoesOn(e)
  <1> DEFINE S == STRING \cup {a, b, c, d, e}
             p == <<a, b, c, d, e>>
  <1>1. path \in Seq(S)
    BY SeqMonotonic
  <1>2. a \in S /\ b \in S /\ c \in S /\ d \in S /\ e \in S
    OBVIOUS
  <1> HIDE DEF S
  <1>3. /\ p \in Seq(S) /\ Len(p) = 5
        /\ p[1] = a /\ p[2] = b /\ p[3] = c /\ p[4] = d /\ p[5] = e
    BY <1>2
  <1> HIDE DEF p
  <1>4. 4 \in Nat /\ 5 \in Nat /\ 5 = 4 + 1
    OBVIOUS
  <1>5. Under(path, p) <=> /\ Len(path) >= 5
                           /\ \A i \in 1..4 : path[i] = p[i]
                           /\ p[5] = "" \/ path[5] \in GoesOn(p[5])
    BY <1>1, <1>3, <1>4, UnderForm
  <1>6. (\A i \in 1..4 : path[i] = p[i])
          <=> path[1] = a /\ path[2] = b /\ path[3] = c /\ path[4] = d
    BY <1>3
  <1>7. Under(path, p) <=> /\ Len(path) >= 5 /\ path[1] = a /\ path[2] = b /\ path[3] = c /\ path[4] = d
                           /\ e = "" \/ path[5] \in GoesOn(e)
    BY <1>3, <1>5, <1>6
  <1> QED  BY <1>7 DEF p

\* A name goes on at least as itself.
LEMMA GoesOnAsItself == \A n : n \in GoesOn(n)
  BY DEF GoesOn

-----------------------------------------------------------------------------
(* What the tables say of a path, by its segments. *)
V1Path(path) == Len(path) >= 3 /\ path[1] = "api" /\ path[2] = "v1"

TokenNames == {"tokens", "owner-only", "create-token", "list-tokens", "delete-token"}
LoginNames == {"register", "login", "forgot-password"}
VerifiedNames == {"register", "forgot-password"}
FileNames == {"upload-file", "download-file", "delete-file", "hide-file", "get-user-files",
              "file-exists", "make-private-read", "make-public-read", "share-link"}

LEMMA LastOfV1 ==
  ASSUME NEW names, NEW p \in V1(names)
  PROVE  Last(p) \in names
  <1>1. PICK n \in names : p = <<"api", "v1", n>>
    BY DEF V1
  <1>2. Last(<<"api", "v1", n>>) = n
    BY DEF Last
  <1> QED  BY <1>1, <1>2

LEMMA LastOfV1Of ==
  ASSUME NEW area, NEW names, NEW p \in V1Of(area, names)
  PROVE  Last(p) \in names
  <1>1. PICK n \in names : p = <<"api", "v1", area, n>>
    BY DEF V1Of
  <1>2. Last(<<"api", "v1", area, n>>) = n
    BY DEF Last
  <1> QED  BY <1>1, <1>2

LEMMA V1Segments ==
  ASSUME NEW names, NEW path \in V1(names)
  PROVE  V1Path(path) /\ Len(path) = 3 /\ path[3] \in names
  BY DEF V1, V1Path

LEMMA V1OfSegments ==
  ASSUME NEW area, NEW names, NEW path \in V1Of(area, names)
  PROVE  V1Path(path) /\ Len(path) = 4 /\ path[3] = area /\ path[4] \in names
  BY DEF V1Of, V1Path

LEMMA RegisteredForm ==
  ASSUME NEW exact, NEW prefixes, NEW path,
         \A p \in exact : Last(p) # "", \A p \in prefixes : Last(p) = "",
         Registered(exact \cup prefixes, path)
  PROVE  path \in exact \/ \E p \in prefixes : Under(path, p)
  BY DEF Registered

LEMMA AuthGuardedForm ==
  ASSUME NEW path \in Seq(STRING), Registered(AuthGuarded, path)
  PROVE  \/ path \in V1(TokenNames)
         \/ V1Path(path) /\ Len(path) >= 4 /\ path[3] = "tokens"
         \/ V1Path(path) /\ Len(path) >= 4 /\ path[3] = "auth" /\ path[4] = "tokens"
  <1> DEFINE exact == V1Of("auth", {"tokens"}) \cup V1(TokenNames)
             prefixes == {<<"api", "v1", "auth", "tokens", "">>, <<"api", "v1", "tokens", "">>}
  <1>1. AuthGuarded = exact \cup prefixes
    BY DEF AuthGuarded, V1, TokenNames
  <1>2. \A p \in exact : Last(p) # ""
    <2>1. "" \notin TokenNames \cup {"tokens"}
      BY DEF TokenNames
    <2> QED  BY <2>1, LastOfV1, LastOfV1Of
  <1>3. \A p \in prefixes : Last(p) = ""
    <2>1. Last(<<"api", "v1", "auth", "tokens", "">>) = ""
      BY DEF Last
    <2>2. Last(<<"api", "v1", "tokens", "">>) = ""
      BY DEF Last
    <2> QED  BY <2>1, <2>2
  <1> HIDE DEF exact, prefixes
  <1>4. path \in exact \/ \E p \in prefixes : Under(path, p)
    BY <1>1, <1>2, <1>3, RegisteredForm
  <1>5. CASE path \in exact
    BY <1>5 DEF exact, V1Of, V1Path
  <1>6. CASE Under(path, <<"api", "v1", "auth", "tokens", "">>)
    <2>1. /\ Len(path) >= 5 /\ path[1] = "api" /\ path[2] = "v1" /\ path[3] = "auth"
          /\ path[4] = "tokens"
      BY <1>6, Under5, ZenonT(60)
    <2> QED  BY <2>1 DEF V1Path
  <1>7. CASE Under(path, <<"api", "v1", "tokens", "">>)
    <2>1. Len(path) >= 4 /\ path[1] = "api" /\ path[2] = "v1" /\ path[3] = "tokens"
      BY <1>7, Under4
    <2> QED  BY <2>1 DEF V1Path
  <1> QED  BY <1>4, <1>5, <1>6, <1>7 DEF prefixes

LEMMA AuthStepsForm ==
  /\ AuthSteps(<<"api", "v1">>)
       = V1(LoginNames) \cup {<<"api", "v1", n, "verify-otp">> : n \in VerifiedNames}
  /\ AuthSteps(<<"api", "v1", "auth">>)
       = V1Of("auth", LoginNames)
           \cup {<<"api", "v1", "auth", n, "verify-otp">> : n \in VerifiedNames}
  BY DEF AuthSteps, V1, V1Of, LoginNames, VerifiedNames

\* auth-service is open at the paths of its steps, and below none of them.
LEMMA AuthOpenForm ==
  ASSUME NEW path, Registered(AuthOpen, path)
  PROVE  path \in AuthOpen
  <1>1. \A p \in AuthOpen : Last(p) # ""
    <2>1. "" \notin LoginNames
      BY DEF LoginNames
    <2>2. Last(Healthz) # ""
      BY DEF Last, Healthz
    <2>3. \A n : Last(<<"api", "v1", n, "verify-otp">>) # ""
      BY DEF Last
    <2>4. \A n : Last(<<"api", "v1", "auth", n, "verify-otp">>) # ""
      BY DEF Last
    <2>5. \A n : Last(<<"api", "v1", "auth", n, "verify">>) # ""
      BY DEF Last
    <2>6. \A p \in V1(LoginNames) \cup V1Of("auth", LoginNames) : Last(p) # ""
      BY <2>1, LastOfV1, LastOfV1Of
    <2> QED  BY <2>2, <2>3, <2>4, <2>5, <2>6, AuthStepsForm DEF AuthOpen, AuthOnlySteps
  <1> QED  BY <1>1 DEF Registered

LEMMA AuthOpenSegments ==
  ASSUME NEW path, path \in AuthOpen
  PROVE  \/ path = Healthz
         \/ path \in V1(LoginNames)
         \/ path \in V1Of("register", {"verify-otp"}) \cup V1Of("forgot-password", {"verify-otp"})
         \/ V1Path(path) /\ Len(path) >= 4 /\ path[3] = "auth" /\ path[4] \in LoginNames
  <1>1. \/ path = Healthz
        \/ path \in V1(LoginNames)
        \/ \E n \in VerifiedNames : path = <<"api", "v1", n, "verify-otp">>
        \/ \E n \in LoginNames : path = <<"api", "v1", "auth", n>>
        \/ \E n \in VerifiedNames : path = <<"api", "v1", "auth", n, "verify-otp">>
        \/ \E n \in VerifiedNames : path = <<"api", "v1", "auth", n, "verify">>
    BY AuthStepsForm DEF AuthOpen, AuthOnlySteps, V1Of, VerifiedNames
  <1>2. VerifiedNames \subseteq LoginNames
    BY DEF VerifiedNames, LoginNames
  <1>3. ASSUME NEW n \in VerifiedNames, path = <<"api", "v1", n, "verify-otp">>
        PROVE  path \in V1Of("register", {"verify-otp"}) \cup V1Of("forgot-password", {"verify-otp"})
    BY <1>3 DEF V1Of, VerifiedNames
  <1>4. ASSUME NEW n \in LoginNames, path = <<"api", "v1", "auth", n>>
        PROVE  V1Path(path) /\ Len(path) >= 4 /\ path[3] = "auth" /\ path[4] \in LoginNames
    BY <1>4 DEF V1Path
  <1>5. ASSUME NEW n \in VerifiedNames, NEW m, path = <<"api", "v1", "auth", n, m>>
        PROVE  V1Path(path) /\ Len(path) >= 4 /\ path[3] = "auth" /\ path[4] \in LoginNames
    BY <1>2, <1>5 DEF V1Path
  <1> QED  BY <1>1, <1>3, <1>4, <1>5

LEMMA ObjectGuardedForm ==
  ASSUME NEW path \in Seq(STRING), Registered(ObjectGuarded, path)
  PROVE  \/ path \in V1(FileNames \cup {"objects"}) \cup V1Of("admin", {"hide-file", "delete-file"})
         \/ Len(path) >= 2 /\ path[1] = "objects"
         \/ Len(path) >= 3 /\ path[1] = "admin" /\ path[2] = "objects"
         \/ V1Path(path) /\ Len(path) >= 5 /\ path[3] = "admin" /\ path[4] = "objects"
         \/ V1Path(path) /\ Len(path) >= 4 /\ path[3] = "objects"
  <1> DEFINE exact == V1(FileNames \cup {"objects"}) \cup V1Of("admin", {"hide-file", "delete-file"})
             prefixes == {<<"objects", "">>, <<"admin", "objects", "">>,
                          <<"api", "v1", "admin", "objects", "">>, <<"api", "v1", "objects", "">>}
  <1>1. ObjectGuarded = exact \cup prefixes
    BY DEF ObjectGuarded, V1, V1Of, FileNames
  <1>2. \A p \in exact : Last(p) # ""
    <2>1. "" \notin FileNames \cup {"objects"} /\ "" \notin {"hide-file", "delete-file"}
      BY DEF FileNames
    <2> QED  BY <2>1, LastOfV1, LastOfV1Of
  <1>3. \A p \in prefixes : Last(p) = ""
    <2>1. Last(<<"objects", "">>) = "" /\ Last(<<"admin", "objects", "">>) = ""
      BY DEF Last
    <2>2. Last(<<"api", "v1", "admin", "objects", "">>) = ""
      BY DEF Last
    <2>3. Last(<<"api", "v1", "objects", "">>) = ""
      BY DEF Last
    <2> QED  BY <2>1, <2>2, <2>3
  <1> HIDE DEF exact, prefixes
  <1>4. path \in exact \/ \E p \in prefixes : Under(path, p)
    BY <1>1, <1>2, <1>3, RegisteredForm
  <1>5. CASE path \in exact
    BY <1>5 DEF exact
  <1>6. CASE Under(path, <<"objects", "">>)
    BY <1>6, Under2
  <1>7. CASE Under(path, <<"admin", "objects", "">>)
    BY <1>7, Under3
  <1>8. CASE Under(path, <<"api", "v1", "admin", "objects", "">>)
    <2>1. /\ Len(path) >= 5 /\ path[1] = "api" /\ path[2] = "v1" /\ path[3] = "admin"
          /\ path[4] = "objects"
      BY <1>8, Under5
    <2> QED  BY <2>1 DEF V1Path
  <1>9. CASE Under(path, <<"api", "v1", "objects", "">>)
    <2>1. Len(path) >= 4 /\ path[1] = "api" /\ path[2] = "v1" /\ path[3] = "objects"
      BY <1>9, Under4
    <2> QED  BY <2>1 DEF V1Path
  <1> QED  BY <1>4, <1>5, <1>6, <1>7, <1>8, <1>9 DEF prefixes

LEMMA ObjectSharesForm ==
  ASSUME NEW path \in Seq(STRING), Registered(ObjectShares, path)
  PROVE  path \in V1({"shares"}) \/ (V1Path(path) /\ Len(path) >= 4 /\ path[3] = "shares")
  <1>1. ObjectShares = V1({"shares"}) \cup {<<"api", "v1", "shares", "">>}
    BY DEF ObjectShares, V1Of
  <1>2. \A p \in V1({"shares"}) : Last(p) # ""
    BY LastOfV1
  <1>3. Last(<<"api", "v1", "shares", "">>) = ""
    BY DEF Last
  <1>4. path \in V1({"shares"}) \/ Under(path, <<"api", "v1", "shares", "">>)
    BY <1>1, <1>2, <1>3 DEF Registered
  <1>5. CASE Under(path, <<"api", "v1", "shares", "">>)
    <2>1. Len(path) >= 4 /\ path[1] = "api" /\ path[2] = "v1" /\ path[3] = "shares"
      BY <1>5, Under4
    <2> QED  BY <2>1 DEF V1Path
  <1> QED  BY <1>4, <1>5

LEMMA ObjectOpenForm ==
  ASSUME NEW path \in Seq(STRING), Registered(ObjectOpen, path)
  PROVE  \/ path = Healthz
         \/ path \in V1Of("share", {"download"}) \cup V1Of("public", {"download-file"})
         \/ V1Path(path) /\ Len(path) >= 5 /\ path[3] = "public"
  <1> DEFINE exact == {Healthz} \cup V1Of("share", {"download"}) \cup V1Of("public", {"download-file"})
             prefix == <<"api", "v1", "public", "objects", "">>
  <1>1. ObjectOpen = exact \cup {prefix}
    BY DEF ObjectOpen
  <1>2. \A p \in exact : Last(p) # ""
    <2>1. Last(Healthz) # ""
      BY DEF Last, Healthz
    <2> QED  BY <2>1, LastOfV1Of
  <1>3. Last(prefix) = ""
    BY DEF Last
  <1>4. CASE Under(path, prefix)
    <2>1. Len(path) >= 5 /\ path[1] = "api" /\ path[2] = "v1" /\ path[3] = "public"
      BY <1>4, Under5
    <2> QED  BY <2>1 DEF V1Path
  <1> HIDE DEF prefix
  <1>5. path \in exact \/ Under(path, prefix)
    <2> HIDE DEF exact
    <2> QED  BY <1>1, <1>2, <1>3 DEF Registered
  <1> QED  BY <1>4, <1>5

-----------------------------------------------------------------------------
(* The gateway's tables. *)
LEMMA PublicForm ==
  ASSUME NEW path \in Seq(STRING), NEW method, IsPublicRoute(path, method)
  PROVE  \/ path \in AuthOpen
         \/ path \in V1Of("share", {"download"}) \cup V1Of("public", {"download-file"})
         \/ V1Path(path) /\ Len(path) >= 4 /\ path[3] = "public"
         \/ method = "GET" /\ V1Path(path) /\ Len(path) >= 4 /\ path[3] = "shares"
  <1>1. CASE path \in PublicExactRoutes
    BY <1>1 DEF PublicExactRoutes, AuthOpen
  <1>2. CASE method = "GET" /\ Under(path, <<"api", "v1", "shares", "">>)
    <2>1. Len(path) >= 4 /\ path[1] = "api" /\ path[2] = "v1" /\ path[3] = "shares"
      BY <1>2, Under4
    <2>2. V1Path(path)
      BY <2>1 DEF V1Path
    <2> QED  BY <1>2, <2>1, <2>2
  <1>3. CASE Under(path, <<"api", "v1", "public", "">>)
    <2>1. Len(path) >= 4 /\ path[1] = "api" /\ path[2] = "v1" /\ path[3] = "public"
      BY <1>3, Under4
    <2> QED  BY <2>1 DEF V1Path
  <1> QED  BY <1>1, <1>2, <1>3 DEF IsPublicRoute, V1Of

LEMMA IsAuthPathForm ==
  ASSUME NEW path \in Seq(STRING), IsAuthPath(path)
  PROVE  V1Path(path) /\ path[3] \in {"auth"} \cup TokenNames \cup LoginNames
  <1>1. CASE path \in AuthExactRoutes
    <2>1. \/ \E n \in TokenNames \cup LoginNames : path = <<"api", "v1", n>>
          \/ \E n \in LoginNames : path = <<"api", "v1", n, "verify-otp">>
      BY <1>1 DEF AuthExactRoutes, V1, V1Of, TokenNames, LoginNames
    <2>2. ASSUME NEW n \in TokenNames \cup LoginNames, path = <<"api", "v1", n>>
          PROVE  V1Path(path) /\ path[3] = n
      BY <2>2 DEF V1Path
    <2>3. ASSUME NEW n \in LoginNames, path = <<"api", "v1", n, "verify-otp">>
          PROVE  V1Path(path) /\ path[3] = n
      BY <2>3 DEF V1Path
    <2> QED  BY <2>1, <2>2, <2>3
  <1>2. CASE Under(path, <<"api", "v1", "auth", "">>)
    <2>1. Len(path) >= 4 /\ path[1] = "api" /\ path[2] = "v1" /\ path[3] = "auth"
      BY <1>2, Under4
    <2> QED  BY <2>1 DEF V1Path
  <1>3. CASE Under(path, <<"api", "v1", "tokens", "">>)
    <2>1. Len(path) >= 4 /\ path[1] = "api" /\ path[2] = "v1" /\ path[3] = "tokens"
      BY <1>3, Under4
    <2> QED  BY <2>1 DEF V1Path, TokenNames
  <1> QED  BY <1>1, <1>2, <1>3 DEF IsAuthPath, AuthPathPrefixes, V1Of

\* What is below auth/ and tokens/ leads to auth-service.
LEMMA BelowIsAuthPath ==
  ASSUME NEW path \in Seq(STRING), V1Path(path), Len(path) >= 4, path[3] \in {"auth", "tokens"}
  PROVE  IsAuthPath(path)
  <1>1. CASE path[3] = "auth"
    <2>1. Under(path, <<"api", "v1", "auth", "">>)
      BY <1>1, Under4 DEF V1Path
    <2> QED  BY <2>1 DEF IsAuthPath, AuthPathPrefixes, V1Of
  <1>2. CASE path[3] = "tokens"
    <2>1. Under(path, <<"api", "v1", "tokens", "">>)
      BY <1>2, Under4 DEF V1Path
    <2> QED  BY <2>1 DEF IsAuthPath, AuthPathPrefixes, V1Of
  <1> QED  BY <1>1, <1>2

\* And what is below these to object-api.
LEMMA BelowIsObjectPath ==
  ASSUME NEW path \in Seq(STRING), V1Path(path), path[3] \in {"objects", "shares"}
  PROVE  IsObjectPath(path)
  <1>1. Under(path, <<"api", "v1", path[3]>>)
    BY Under3, GoesOnAsItself DEF V1Path
  <1>2. <<"api", "v1", path[3]>> \in ObjectPathPrefixes
    BY DEF ObjectPathPrefixes, V1
  <1> QED  BY <1>1, <1>2 DEF IsObjectPath

LEMMA OtherObjectPaths ==
  ASSUME NEW path \in Seq(STRING),
         \/ Len(path) >= 2 /\ path[1] = "objects"
         \/ Len(path) >= 3 /\ path[1] = "admin" /\ path[2] = "objects"
         \/ V1Path(path) /\ Len(path) >= 5 /\ path[3] = "admin" /\ path[4] = "objects"
         \/ V1Path(path) /\ Len(path) >= 4 /\ path[3] = "public"
  PROVE  IsObjectPath(path)
  <1>1. CASE Len(path) >= 2 /\ path[1] = "objects"
    <2>1. Under(path, <<"objects", "">>)
      BY <1>1, Under2
    <2> QED  BY <2>1 DEF IsObjectPath, ObjectPathPrefixes
  <1>2. CASE Len(path) >= 3 /\ path[1] = "admin" /\ path[2] = "objects"
    <2>1. Under(path, <<"admin", "objects", "">>)
      BY <1>2, Under3
    <2> QED  BY <2>1 DEF IsObjectPath, ObjectPathPrefixes
  <1>3. CASE V1Path(path) /\ Len(path) >= 5 /\ path[3] = "admin" /\ path[4] = "objects"
    <2>1. Under(path, <<"api", "v1", "admin", "objects">>)
      <3>1. path[4] \in GoesOn("objects")
        BY <1>3, GoesOnAsItself
      <3>2. /\ Len(path) >= 4 /\ path[1] = "api" /\ path[2] = "v1" /\ path[3] = "admin"
        BY <1>3 DEF V1Path
      <3> QED  BY <3>1, <3>2, Under4, ZenonT(60)
    <2> QED  BY <2>1 DEF IsObjectPath, ObjectPathPrefixes
  <1>4. CASE V1Path(path) /\ Len(path) >= 4 /\ path[3] = "public"
    <2>1. Under(path, <<"api", "v1", "public", "">>)
      BY <1>4, Under4 DEF V1Path
    <2>2. <<"api", "v1", "public", "">> \in ObjectPathPrefixes
      BY DEF ObjectPathPrefixes, V1Of
    <2> QED  BY <2>1, <2>2 DEF IsObjectPath
  <1> QED  BY <1>1, <1>2, <1>3, <1>4

-----------------------------------------------------------------------------
(* The tables agree, for every path there can be. *)

\* Where a path of the services belongs.
LEMMA AuthSegments ==
  ASSUME NEW path \in Seq(STRING), Registered(AuthGuarded, path)
  PROVE  /\ V1Path(path)
         /\ \/ path[3] \in TokenNames
            \/ path[3] = "auth" /\ Len(path) >= 4 /\ path[4] = "tokens"
  <1>1. CASE path \in V1(TokenNames)
    <2>1. V1Path(path) /\ path[3] \in TokenNames
      BY <1>1, V1Segments
    <2> QED  BY <2>1
  <1>2. CASE path \notin V1(TokenNames)
    <2>1. "tokens" \in TokenNames
      BY DEF TokenNames
    <2> QED  BY <1>2, <2>1, AuthGuardedForm
  <1> QED  BY <1>1, <1>2

LEMMA ObjectSegments ==
  ASSUME NEW path \in Seq(STRING), Registered(ObjectGuarded, path)
  PROVE  \/ path[1] \in {"objects", "admin"}
         \/ V1Path(path) /\ path[3] \in FileNames \cup {"objects", "admin"}
  <1>1. CASE path \in V1(FileNames \cup {"objects"})
    BY <1>1, V1Segments
  <1>2. CASE path \in V1Of("admin", {"hide-file", "delete-file"})
    BY <1>2, V1OfSegments
  <1>3. CASE path \notin V1(FileNames \cup {"objects"}) \cup V1Of("admin", {"hide-file", "delete-file"})
    BY <1>3, ObjectGuardedForm
  <1> QED  BY <1>1, <1>2, <1>3

LEMMA SharesSegments ==
  ASSUME NEW path \in Seq(STRING), Registered(ObjectShares, path)
  PROVE  V1Path(path) /\ path[3] = "shares"
  <1>1. CASE path \in V1({"shares"})
    BY <1>1, V1Segments
  <1>2. CASE path \notin V1({"shares"})
    BY <1>2, ObjectSharesForm
  <1> QED  BY <1>1, <1>2

LEMMA PublicSegments ==
  ASSUME NEW path \in Seq(STRING), NEW method, IsPublicRoute(path, method)
  PROVE  \/ path = Healthz
         \/ V1Path(path) /\ path[3] \in LoginNames \cup {"share", "public"}
         \/ V1Path(path) /\ path[3] = "auth" /\ path[4] \in LoginNames
         \/ V1Path(path) /\ path[3] = "shares" /\ method = "GET"
  <1>1. CASE path \in AuthOpen
    <2>1. CASE path \in V1(LoginNames)
      BY <2>1, V1Segments
    <2>2. CASE path \in V1Of("register", {"verify-otp"}) \cup V1Of("forgot-password", {"verify-otp"})
      BY <2>2, V1OfSegments DEF LoginNames
    <2> QED  BY <1>1, <2>1, <2>2, AuthOpenSegments
  <1>2. CASE path \in V1Of("share", {"download"}) \cup V1Of("public", {"download-file"})
    BY <1>2, V1OfSegments
  <1>3. CASE V1Path(path) /\ Len(path) >= 4 /\ path[3] = "public"
    BY <1>3
  <1>4. CASE method = "GET" /\ V1Path(path) /\ Len(path) >= 4 /\ path[3] = "shares"
    BY <1>4
  <1> QED  BY <1>1, <1>2, <1>3, <1>4, PublicForm

LEMMA HealthzSegments == Healthz[1] = "healthz"
  BY DEF Healthz

LEMMA PublicIsUnguarded ==
  ASSUME NEW path \in Seq(STRING), NEW method, IsPublicRoute(path, method), NEW s \in Services
  PROVE  ~Guarded(s, path, method)
  <1>1. ~Registered(AuthGuarded, path)
    <2> SUFFICES ASSUME Registered(AuthGuarded, path) PROVE FALSE
      OBVIOUS
    <2> QED  BY AuthSegments, PublicSegments, HealthzSegments
             DEF V1Path, TokenNames, LoginNames
  <1>2. ~Registered(ObjectGuarded, path)
    <2> SUFFICES ASSUME Registered(ObjectGuarded, path) PROVE FALSE
      OBVIOUS
    <2> QED  BY ObjectSegments, PublicSegments, HealthzSegments
             DEF V1Path, FileNames, LoginNames
  <1>3. ~(method = "POST" /\ Registered(ObjectShares, path))
    <2> SUFFICES ASSUME method = "POST", Registered(ObjectShares, path) PROVE FALSE
      OBVIOUS
    <2> QED  BY SharesSegments, PublicSegments, HealthzSegments
             DEF V1Path, LoginNames
  <1> QED  BY <1>1, <1>2, <1>3 DEF Guarded

LEMMA AuthOpenIsPublic ==
  ASSUME NEW path, NEW method, Open("auth-service", path, method)
  PROVE  IsPublicRoute(path, method)
  <1>1. path \in AuthOpen
    BY AuthOpenForm DEF Open
  <1> QED  BY <1>1 DEF AuthOpen, PublicExactRoutes, IsPublicRoute

LEMMA BelowIsPublic ==
  ASSUME NEW path \in Seq(STRING), V1Path(path), Len(path) >= 4,
         path[3] \in {"shares", "public"}
  PROVE  IsPublicRoute(path, "GET")
  <1>1. \/ Under(path, <<"api", "v1", "shares", "">>)
        \/ Under(path, <<"api", "v1", "public", "">>)
    BY Under4 DEF V1Path
  <1> QED  BY <1>1 DEF IsPublicRoute, V1Of

LEMMA ObjectOpenIsPublic ==
  ASSUME NEW path \in Seq(STRING), Open("object-api", path, "GET"),
         ~IsPublicRoute(path, "GET")
  PROVE  path \in V1({"shares"})
  <1>1. ~Registered(ObjectOpen, path)
    <2> SUFFICES ASSUME Registered(ObjectOpen, path) PROVE FALSE
      OBVIOUS
    <2>1. CASE path = Healthz
      BY <2>1 DEF IsPublicRoute, PublicExactRoutes
    <2>2. CASE path \in V1Of("share", {"download"}) \cup V1Of("public", {"download-file"})
      BY <2>2 DEF IsPublicRoute, PublicExactRoutes
    <2>3. CASE V1Path(path) /\ Len(path) >= 5 /\ path[3] = "public"
      BY <2>3, BelowIsPublic
    <2> QED  BY <2>1, <2>2, <2>3, ObjectOpenForm
  <1>2. Registered(ObjectShares, path)
    BY <1>1 DEF Open
  <1>3. ~(V1Path(path) /\ Len(path) >= 4 /\ path[3] = "shares")
    <2> SUFFICES ASSUME V1Path(path), Len(path) >= 4, path[3] = "shares" PROVE FALSE
      OBVIOUS
    <2> QED  BY BelowIsPublic
  <1> QED  BY <1>2, <1>3, ObjectSharesForm

LEMMA AuthIsReached ==
  ASSUME NEW path \in Seq(STRING), NEW method, path # Healthz,
         Guarded("auth-service", path, method) \/ Open("auth-service", path, method)
  PROVE  IsAuthPath(path)
  <1>1. CASE path \in V1(TokenNames \cup LoginNames)
    <2>1. V1(TokenNames \cup LoginNames) \subseteq AuthExactRoutes
      BY DEF AuthExactRoutes, V1, TokenNames, LoginNames
    <2> QED  BY <1>1, <2>1 DEF IsAuthPath
  <1>2. CASE path \in V1Of("register", {"verify-otp"}) \cup V1Of("forgot-password", {"verify-otp"})
    BY <1>2 DEF IsAuthPath, AuthExactRoutes
  <1>3. CASE V1Path(path) /\ Len(path) >= 4 /\ path[3] \in {"auth", "tokens"}
    BY <1>3, BelowIsAuthPath
  <1>4. CASE Guarded("auth-service", path, method)
    <2>1. Registered(AuthGuarded, path)
      BY <1>4 DEF Guarded
    <2>2. CASE path \in V1(TokenNames)
      BY <2>2, <1>1 DEF V1
    <2> QED  BY <1>3, <2>1, <2>2, AuthGuardedForm
  <1>5. CASE Open("auth-service", path, method)
    <2>1. path \in AuthOpen
      BY <1>5, AuthOpenForm DEF Open
    <2>2. CASE path \in V1(LoginNames)
      BY <2>2, <1>1 DEF V1
    <2> QED  BY <1>2, <1>3, <2>1, <2>2, AuthOpenSegments
  <1> QED  BY <1>4, <1>5

LEMMA ObjectsAreReached ==
  ASSUME NEW path \in Seq(STRING), NEW method, path # Healthz,
         Guarded("object-api", path, method) \/ Open("object-api", path, method)
  PROVE  IsObjectPath(path) /\ ~IsAuthPath(path)
  <1>1. CASE Registered(ObjectGuarded, path)
    <2>1. IsObjectPath(path)
      <3>1. CASE path \in V1(FileNames) \cup V1Of("admin", {"hide-file", "delete-file"})
        BY <3>1 DEF IsObjectPath, ObjectExactPaths, FileNames
      <3>2. CASE path \in V1({"objects"})
        BY <3>2, V1Segments, BelowIsObjectPath
      <3>3. CASE V1Path(path) /\ Len(path) >= 4 /\ path[3] = "objects"
        BY <3>3, BelowIsObjectPath
      <3>4. V1(FileNames \cup {"objects"}) = V1(FileNames) \cup V1({"objects"})
        BY DEF V1
      <3> QED  BY <1>1, <3>1, <3>2, <3>3, <3>4, ObjectGuardedForm, OtherObjectPaths
    <2>2. ~IsAuthPath(path)
      <3> SUFFICES ASSUME IsAuthPath(path) PROVE FALSE
        OBVIOUS
      <3> QED  BY <1>1, ObjectSegments, IsAuthPathForm
               DEF V1Path, FileNames, TokenNames, LoginNames
    <2> QED  BY <2>1, <2>2
  <1>2. CASE Registered(ObjectShares, path)
    <2>1. V1Path(path) /\ path[3] = "shares"
      BY <1>2, SharesSegments
    <2>2. ~IsAuthPath(path)
      BY <2>1, IsAuthPathForm DEF TokenNames, LoginNames
    <2> QED  BY <2>1, <2>2, BelowIsObjectPath
  <1>3. CASE Registered(ObjectOpen, path)
    <2>1. CASE path \in V1Of("share", {"download"}) \cup V1Of("public", {"download-file"})
      <3>1. IsObjectPath(path)
        BY <2>1 DEF IsObjectPath, ObjectExactPaths
      <3>2. path[3] \in {"share", "public"}
        BY <2>1, V1OfSegments
      <3> QED  BY <3>1, <3>2, IsAuthPathForm DEF TokenNames, LoginNames
    <2>2. CASE V1Path(path) /\ Len(path) >= 5 /\ path[3] = "public"
      <3>1. IsObjectPath(path)
        BY <2>2, OtherObjectPaths
      <3> QED  BY <2>2, <3>1, IsAuthPathForm DEF TokenNames, LoginNames
    <2> QED  BY <1>3, <2>1, <2>2, ObjectOpenForm
  <1> QED  BY <1>1, <1>2, <1>3 DEF Guarded, Open

-----------------------------------------------------------------------------
(* Steps. *)
Requests == [pc : {"idle", "gateway", "done"} \cup Services, path : Paths \cup {<<>>},
             method : Methods \cup {None}, bearer : Tokens \cup {None},
             header : [user : Users \cup {""}, role : Roles \cup {""}],
             direct : BOOLEAN, at : 0..MaxTime, by : {"", "gateway"} \cup Services,
             status : {"", "ok", "unauthorized", "notfound", "badgateway"},
             principal : Principals \cup {None}]

\* The request is the one that came.
SameRequest ==
  /\ req'.path = req.path /\ req'.method = req.method /\ req'.bearer = req.bearer
  /\ req'.direct = req.direct /\ req'.at = req.at /\ req'.header = req.header

LEMMA SameView ==
  ASSUME req'.path = req.path, req'.method = req.method, req'.bearer = req.bearer
  PROVE  (Public' <=> Public) /\ Verified' = Verified
  BY DEF Public, Verified

LEMMA AnswerForm ==
  ASSUME TypeOK, NEW who \in {"gateway"} \cup Services,
         NEW status \in {"ok", "unauthorized", "notfound", "badgateway"}, Answer(who, status)
  PROVE  /\ TypeOK' /\ SameRequest /\ UNCHANGED <<now, revoked>>
         /\ req'.pc = "done" /\ req'.by = who /\ req'.status = status
         /\ req'.principal = req.principal
  BY DEF TypeOK, Answer, SameRequest

LEMMA ServeForm ==
  ASSUME TypeOK, NEW who \in {"gateway"} \cup Services,
         NEW p \in Principals \cup {None}, Serve(who, p)
  PROVE  /\ TypeOK' /\ SameRequest /\ UNCHANGED <<now, revoked>>
         /\ req'.pc = "done" /\ req'.by = who /\ req'.status = "ok"
         /\ req'.principal = p
  BY DEF TypeOK, Serve, SameRequest

LEMMA ClaimsAreWords ==
  ASSUME NEW b \in Sound
  PROVE  /\ b \in Tokens /\ Sub[b] \in Users /\ Role[b] \in Roles /\ Exp[b] \in Nat
         /\ Sub[b] # "" /\ Role[b] # ""
  BY ClaimsForm, NoneForm

LEMMA VerifiedIsPrincipal ==
  ASSUME req.bearer \in Sound
  PROVE  /\ Verified \in Principals
         /\ Verified \in [user : Users \cup {""}, role : Roles \cup {""}]
         /\ Verified.user # "" /\ Verified.role # ""
  BY ClaimsAreWords DEF Verified, Principals

LEMMA TimesOrdered ==
  ASSUME TypeOK
  PROVE  now \in Nat /\ req.at \in Nat /\ MaxTime \in Nat
  <1>1. now \in 0..MaxTime /\ req.at \in 0..MaxTime
    BY DEF TypeOK
  <1> QED  BY <1>1, ClaimsForm

LEMMA InitInv == Init => GatewayInv
  <1> SUFFICES ASSUME Init PROVE GatewayInv
    OBVIOUS
  <1>1. 0 \in 0..MaxTime
    BY ClaimsForm
  <1>2. TypeOK
    BY <1>1 DEF Init, TypeOK
  <1>3. req.pc = "idle" /\ req.principal = None /\ req.status = "" /\ req.by = ""
    BY DEF Init
  <1> QED  BY <1>2, <1>3 DEF GatewayInv, Arrived, Checked, Behind, Routed, SamePrincipal,
       TablesAgree, NoSecondRefusal, OpenStaysOpen, Reachable, Through, Services

(* Send. *)
LEMMA SendStep ==
  ASSUME GatewayInv, Send
  PROVE  GatewayInv'
  <1> USE DEF GatewayInv
  <1>1. PICK p \in Paths, m \in Methods, b \in Tokens \cup {None}, h \in Headers,
             to \in {"gateway"} \cup Services :
          req' = [req EXCEPT !.pc = to, !.path = p, !.method = m, !.bearer = b,
                             !.header = h, !.direct = (to # "gateway"), !.at = now]
    BY DEF Send
  <1>2. req.pc = "idle" /\ UNCHANGED <<now, revoked>>
    BY DEF Send
  <1>3. h \in [user : Users \cup {""}, role : Roles \cup {""}]
    BY HeadersForm
  <1>4. TypeOK'
    <2>1. req' = [pc |-> to, path |-> p, method |-> m, bearer |-> b, header |-> h,
                  direct |-> (to # "gateway"), at |-> now, by |-> req.by,
                  status |-> req.status, principal |-> req.principal]
      BY <1>1 DEF TypeOK
    <2>2. /\ now \in 0..MaxTime /\ req.by \in {"", "gateway"} \cup Services
          /\ req.status \in {"", "ok", "unauthorized", "notfound", "badgateway"}
          /\ req.principal \in Principals \cup {None}
      BY DEF TypeOK
    <2>3. req' \in Requests
      BY <1>3, <2>1, <2>2 DEF Requests
    <2> QED  BY <1>2, <2>3 DEF TypeOK, Requests
  <1>5. /\ req'.pc = to /\ req'.path = p /\ req'.at = now /\ req'.direct = (to # "gateway")
        /\ req'.status = "" /\ req'.principal = None
    BY <1>1, <1>2 DEF TypeOK, Arrived
  <1>6. now \in Nat /\ to # "idle" /\ to # "done"
    BY TimesOrdered DEF Services
  <1>7. Arrived'
    <2>1. now' = now /\ now <= now
      BY <1>2, <1>6
    <2> QED  BY <1>5, <1>6, <2>1 DEF Arrived
  <1>8. Checked' /\ Routed'
    BY <1>5, <1>6 DEF Checked, Behind, Routed, Services
  <1>9. SamePrincipal'
    BY <1>5 DEF SamePrincipal
  <1>10. TablesAgree'
    BY <1>5, <1>6 DEF TablesAgree, NoSecondRefusal, OpenStaysOpen, Reachable, Through
  <1> QED  BY <1>4, <1>7, <1>8, <1>9, <1>10

(* The gateway answers itself: its health, a token it does not take, a path *)
(* that it does not know, a service that does not answer.                  *)
LEMMA GatewayAnswers ==
  ASSUME GatewayInv, NEW status \in {"ok", "unauthorized", "notfound", "badgateway"},
         Answer("gateway", status), req.pc \notin {"idle", "done"},
         status = "unauthorized" => ~Public,
         status = "notfound" => /\ req.path # Healthz
                                /\ ~IsAuthPath(req.path) /\ ~IsObjectPath(req.path)
  PROVE  GatewayInv'
  <1> USE DEF GatewayInv
  <1>1. /\ TypeOK' /\ SameRequest /\ UNCHANGED <<now, revoked>>
        /\ req'.pc = "done" /\ req'.by = "gateway" /\ req'.status = status
        /\ req'.principal = req.principal
    BY AnswerForm
  <1>2. req.path \in Seq(STRING) /\ req.principal = None
    BY PathsForm DEF Arrived
  <1>3. Arrived'
    BY <1>1 DEF Arrived, SameRequest
  <1>4. Checked' /\ Routed' /\ SamePrincipal'
    BY <1>1, <1>2 DEF Checked, Behind, Routed, SamePrincipal, Services
  <1>5. NoSecondRefusal'
    BY <1>1 DEF NoSecondRefusal, Through, Services
  <1>6. OpenStaysOpen'
    <2> SUFFICES ASSUME status = "unauthorized"
                 PROVE  /\ ~Open("auth-service", req.path, req.method)
                        /\ req.method = "GET" /\ Open("object-api", req.path, "GET") =>
                             req.path \in V1({"shares"})
      BY <1>1 DEF OpenStaysOpen, SameRequest
    <2>1. ~IsPublicRoute(req.path, req.method)
      BY DEF Public
    <2> QED  BY <1>2, <2>1, AuthOpenIsPublic, ObjectOpenIsPublic
  <1>7. Reachable'
    <2> SUFFICES ASSUME status = "notfound", NEW s \in Services
                 PROVE  ~Guarded(s, req.path, req.method) /\ ~Open(s, req.path, req.method)
      BY <1>1 DEF Reachable, SameRequest
    <2> QED  BY <1>2, AuthIsReached, ObjectsAreReached DEF Services
  <1> QED  BY <1>1, <1>3, <1>4, <1>5, <1>6, <1>7 DEF TablesAgree

LEMMA ForwardStep ==
  ASSUME GatewayInv, Forward
  PROVE  GatewayInv'
  <1> USE DEF GatewayInv
  <1> DEFINE sent == IF Public THEN req.header ELSE Verified
             pass(s) == /\ req' = [req EXCEPT !.pc = s, !.header = sent]
                        /\ UNCHANGED <<now, revoked>>
  <1>1. /\ req.pc = "gateway" /\ req.path # Healthz
        /\ Public \/ Valid(req.bearer)
        /\ \/ IsAuthPath(req.path) /\ pass("auth-service")
           \/ ~IsAuthPath(req.path) /\ IsObjectPath(req.path) /\ pass("object-api")
           \/ ~IsAuthPath(req.path) /\ ~IsObjectPath(req.path) /\ Answer("gateway", "notfound")
    BY DEF Forward
  <1>2. CASE ~IsAuthPath(req.path) /\ ~IsObjectPath(req.path) /\ Answer("gateway", "notfound")
    <2>1. req.pc \notin {"idle", "done"} /\ Answer("gateway", "notfound")
      BY <1>1, <1>2
    <2> QED  BY <1>1, <1>2, <2>1, GatewayAnswers
  <1>3. ASSUME NEW s \in Services, pass(s),
               s = "auth-service" => IsAuthPath(req.path),
               s = "object-api" => IsObjectPath(req.path) /\ ~IsAuthPath(req.path)
        PROVE  GatewayInv'
    <2>1. /\ req'.pc = s /\ req'.header = sent /\ req'.path = req.path
          /\ req'.method = req.method /\ req'.bearer = req.bearer
          /\ req'.direct = req.direct /\ req'.at = req.at /\ req'.by = req.by
          /\ req'.status = req.status /\ req'.principal = req.principal
          /\ UNCHANGED <<now, revoked>>
      BY <1>3 DEF TypeOK
    <2>2. (Public' <=> Public) /\ Verified' = Verified
      BY <2>1, SameView
    <2>3. ~Public => req.bearer \in Sound /\ now < Exp[req.bearer]
      BY <1>1 DEF Valid
    <2>4. sent \in [user : Users \cup {""}, role : Roles \cup {""}]
      BY <2>3, VerifiedIsPrincipal DEF TypeOK
    <2>5. TypeOK'
      <3> HIDE DEF sent
      <3> QED  BY <1>3, <2>1, <2>4 DEF TypeOK
    <2>6. s # "idle" /\ s # "done" /\ req.principal = None
      BY <1>1 DEF Services, Arrived
    <2>7. Arrived'
      BY <1>1, <2>1, <2>6 DEF Arrived
    <2>8. Checked'
      <3>1. CASE Public
        BY <2>2, <3>1 DEF Checked
      <3>2. CASE ~Public
        <4>1. req.bearer \in Sound /\ now < Exp[req.bearer] /\ Exp[req.bearer] \in Nat
          BY <2>3, <3>2, ClaimsAreWords
        <4>2. req.at <= now
          BY <1>1 DEF Arrived
        <4>3. req.at < Exp[req.bearer]
          BY <4>1, <4>2, TimesOrdered
        <4> QED  BY <2>1, <2>2, <3>2, <4>1, <4>3 DEF Checked
      <3> QED  BY <3>1, <3>2
    <2>9. Routed'
      BY <1>1, <1>3, <2>1 DEF Routed
    <2>10. SamePrincipal' /\ TablesAgree'
      BY <2>1, <2>6 DEF SamePrincipal, TablesAgree, NoSecondRefusal, OpenStaysOpen,
                        Reachable, Through
    <2> QED  BY <2>5, <2>7, <2>8, <2>9, <2>10
  <1>4. "auth-service" \in Services /\ "object-api" \in Services
    BY DEF Services
  <1> QED  BY <1>1, <1>2, <1>3, <1>4

(* A service answers, and what it says of the request is right. *)
LEMMA ServiceDone ==
  ASSUME GatewayInv, NEW s \in Services, req.pc = s, TypeOK', SameRequest,
         UNCHANGED <<now, revoked>>, req'.pc = "done", req'.by = s,
         req'.principal # None =>
           IF req.direct /\ s = "object-api" /\ req.header.user # ""
           THEN req'.principal = Trusted
           ELSE /\ req.bearer \in Sound /\ req.at < Exp[req.bearer]
                /\ req'.principal = Verified,
         req'.status = "unauthorized" /\ ~req.direct =>
           /\ s = "auth-service" /\ req.bearer \in Sound
           /\ req.bearer \in revoked \/ (req.at < Exp[req.bearer] /\ Exp[req.bearer] <= now),
         req'.status = "notfound" /\ ~req.direct =>
           \A t \in Services :
             ~Guarded(t, req.path, req.method) /\ ~Open(t, req.path, req.method)
  PROVE  GatewayInv'
  <1> USE DEF GatewayInv
  <1>1. req.pc # "idle" /\ s # "gateway"
    BY DEF Services
  <1>2. (Public' <=> Public) /\ Verified' = Verified
    BY SameView DEF SameRequest
  <1>3. Arrived'
    BY <1>1 DEF Arrived, SameRequest
  <1>4. Checked' /\ Routed'
    BY <1>2 DEF Checked, Behind, Routed, SameRequest, Services
  <1>5. SamePrincipal'
    <2>1. Trusted' = Trusted
      BY DEF Trusted, SameRequest
    <2> QED  BY <1>2, <2>1 DEF SamePrincipal, Believed, SameRequest
  <1>6. NoSecondRefusal'
    BY DEF NoSecondRefusal, Through, SameRequest
  <1>7. OpenStaysOpen'
    BY <1>1 DEF OpenStaysOpen, Through
  <1>8. Reachable'
    BY DEF Reachable, SameRequest
  <1> QED  BY <1>3, <1>4, <1>5, <1>6, <1>7, <1>8 DEF TablesAgree

LEMMA NotFoundStep ==
  ASSUME GatewayInv, NEW s \in Services, NotFound(s)
  PROVE  GatewayInv'
  <1> USE DEF GatewayInv
  <1>1. /\ req.pc = s /\ ~Guarded(s, req.path, req.method) /\ ~Open(s, req.path, req.method)
        /\ Answer(s, "notfound")
    BY DEF NotFound
  <1>2. /\ TypeOK' /\ SameRequest /\ UNCHANGED <<now, revoked>>
        /\ req'.pc = "done" /\ req'.by = s /\ req'.status = "notfound"
        /\ req'.principal = req.principal
    BY <1>1, AnswerForm
  <1>3. req.principal = None /\ req.path \in Seq(STRING)
    BY <1>1, PathsForm DEF Arrived, Services
  <1>4. ASSUME ~req.direct, NEW t \in Services
        PROVE  ~Guarded(t, req.path, req.method) /\ ~Open(t, req.path, req.method)
    <2>1. CASE t = s
      BY <1>1, <2>1
    <2>2. CASE s = "auth-service" /\ t = "object-api"
      BY <1>1, <1>3, <1>4, <2>2, ObjectsAreReached DEF Routed
    <2>3. CASE s = "object-api" /\ t = "auth-service"
      BY <1>1, <1>3, <1>4, <2>3, AuthIsReached DEF Routed
    <2> QED  BY <2>1, <2>2, <2>3 DEF Services
  <1> QED  BY <1>1, <1>2, <1>3, <1>4, ServiceDone

LEMMA ServeOpenStep ==
  ASSUME GatewayInv, NEW s \in Services, ServeOpen(s)
  PROVE  GatewayInv'
  <1>1. req.pc = s /\ Serve(s, None) /\ TypeOK
    BY DEF ServeOpen, GatewayInv
  <1>2. /\ TypeOK' /\ SameRequest /\ UNCHANGED <<now, revoked>>
        /\ req'.pc = "done" /\ req'.by = s /\ req'.status = "ok" /\ req'.principal = None
    BY <1>1, ServeForm
  <1> QED  BY <1>1, <1>2, ServiceDone

\* A guarded path got here only with a token, if it came through the gateway.
LEMMA GuardedIsChecked ==
  ASSUME GatewayInv, NEW s \in Services, req.pc = s, Guarded(s, req.path, req.method),
         ~req.direct
  PROVE  /\ req.bearer \in Sound /\ req.at < Exp[req.bearer]
         /\ req.header = Verified
  <1>1. req.path \in Seq(STRING)
    BY PathsForm DEF GatewayInv, Arrived, Services
  <1>2. ~Public
    BY <1>1, PublicIsUnguarded DEF Public
  <1> QED  BY <1>2 DEF GatewayInv, Checked, Behind

LEMMA ValidWhenCame ==
  ASSUME GatewayInv, req.pc # "idle", Valid(req.bearer)
  PROVE  req.bearer \in Sound /\ req.at < Exp[req.bearer]
  <1>1. req.bearer \in Sound /\ now < Exp[req.bearer] /\ Exp[req.bearer] \in Nat
    BY ClaimsAreWords DEF Valid
  <1>2. req.at <= now /\ TypeOK
    BY DEF GatewayInv, Arrived
  <1> QED  BY <1>1, <1>2, TimesOrdered

(* authMiddleware of auth-service. *)
LEMMA AuthServiceStep ==
  ASSUME GatewayInv, AuthService
  PROVE  GatewayInv'
  <1> DEFINE s == "auth-service"
  <1>1. s \in Services /\ req.pc = s /\ Guarded(s, req.path, req.method) /\ TypeOK
        /\ req.pc # "idle"
    BY DEF AuthService, Services, GatewayInv
  <1>2. CASE Valid(req.bearer) /\ Serve(s, Verified)
    <2>1. req.bearer \in Sound /\ req.at < Exp[req.bearer]
      BY <1>1, <1>2, ValidWhenCame
    <2>2. Verified \in Principals
      BY <2>1, VerifiedIsPrincipal
    <2>3. /\ TypeOK' /\ SameRequest /\ UNCHANGED <<now, revoked>>
          /\ req'.pc = "done" /\ req'.by = s /\ req'.status = "ok" /\ req'.principal = Verified
      BY <1>1, <1>2, <2>2, ServeForm
    <2> QED  BY <1>1, <2>1, <2>3, ServiceDone
  <1>3. CASE (~Valid(req.bearer) \/ req.bearer \in revoked) /\ Answer(s, "unauthorized")
    <2>1. /\ TypeOK' /\ SameRequest /\ UNCHANGED <<now, revoked>>
          /\ req'.pc = "done" /\ req'.by = s /\ req'.status = "unauthorized"
          /\ req'.principal = req.principal
      BY <1>1, <1>3, AnswerForm
    <2>2. req.principal = None
      BY <1>1 DEF GatewayInv, Arrived
    <2>3. ASSUME ~req.direct
          PROVE  /\ req.bearer \in Sound
                 /\ req.bearer \in revoked \/ (req.at < Exp[req.bearer] /\ Exp[req.bearer] <= now)
      <3>1. req.bearer \in Sound /\ req.at < Exp[req.bearer]
        BY <1>1, <2>3, GuardedIsChecked
      <3>2. Exp[req.bearer] \in Nat /\ now \in Nat
        BY <1>1, <3>1, ClaimsAreWords, TimesOrdered
      <3>3. ~(now < Exp[req.bearer]) => Exp[req.bearer] <= now
        BY <3>2
      <3>4. ~Valid(req.bearer) => Exp[req.bearer] <= now
        BY <3>1, <3>3 DEF Valid
      <3> QED  BY <1>3, <3>1, <3>4
    <2> QED  BY <1>1, <2>1, <2>2, <2>3, ServiceDone
  <1> QED  BY <1>2, <1>3 DEF AuthService

(* authMiddleware of object-api. *)
LEMMA ObjectApiStep ==
  ASSUME GatewayInv, ObjectApi
  PROVE  GatewayInv'
  <1> DEFINE s == "object-api"
  <1>1. s \in Services /\ req.pc = s /\ Guarded(s, req.path, req.method) /\ TypeOK
        /\ req.pc # "idle" /\ s # "auth-service"
    BY DEF ObjectApi, Services, GatewayInv
  <1>2. ~req.direct => /\ req.bearer \in Sound /\ req.at < Exp[req.bearer]
                       /\ req.header = Verified
    BY <1>1, GuardedIsChecked
  <1>3. ~req.direct => req.header.user # "" /\ req.header.role # ""
    BY <1>2, VerifiedIsPrincipal
  <1>4. CASE req.header.user # "" /\ Serve(s, Trusted)
    <2>1. /\ Trusted = [user |-> req.header.user,
                        role |-> IF req.header.role = "" THEN "user" ELSE req.header.role]
          /\ req.header = [user |-> req.header.user, role |-> req.header.role]
          /\ req.header.user \in Users /\ req.header.role \in Roles \cup {""}
      <3>1. req.header \in [user : Users \cup {""}, role : Roles \cup {""}]
        BY <1>1 DEF TypeOK
      <3>2. /\ req.header = [user |-> req.header.user, role |-> req.header.role]
            /\ req.header.user \in Users \cup {""} /\ req.header.role \in Roles \cup {""}
        BY <3>1
      <3> QED  BY <1>4, <3>2 DEF Trusted
    <2>2. Trusted \in Principals
      BY <2>1, HeadersForm DEF Principals
    <2>3. /\ TypeOK' /\ SameRequest /\ UNCHANGED <<now, revoked>>
          /\ req'.pc = "done" /\ req'.by = s /\ req'.status = "ok" /\ req'.principal = Trusted
      BY <1>1, <1>4, <2>2, ServeForm
    <2>4. ~req.direct => Trusted = Verified
      BY <1>2, <1>3, <2>1
    <2> QED  BY <1>1, <1>2, <1>4, <2>3, <2>4, ServiceDone
  <1>5. CASE req.header.user = "" /\ Valid(req.bearer) /\ Serve(s, Verified)
    <2>1. req.bearer \in Sound /\ req.at < Exp[req.bearer]
      BY <1>1, <1>5, ValidWhenCame
    <2>2. Verified \in Principals
      BY <2>1, VerifiedIsPrincipal
    <2>3. /\ TypeOK' /\ SameRequest /\ UNCHANGED <<now, revoked>>
          /\ req'.pc = "done" /\ req'.by = s /\ req'.status = "ok" /\ req'.principal = Verified
      BY <1>1, <1>5, <2>2, ServeForm
    <2> QED  BY <1>1, <1>5, <2>1, <2>3, ServiceDone
  <1>6. CASE req.header.user = "" /\ ~Valid(req.bearer) /\ Answer(s, "unauthorized")
    <2>1. /\ TypeOK' /\ SameRequest /\ UNCHANGED <<now, revoked>>
          /\ req'.pc = "done" /\ req'.by = s /\ req'.status = "unauthorized"
          /\ req'.principal = req.principal
      BY <1>1, <1>6, AnswerForm
    <2>2. req.principal = None
      BY <1>1 DEF GatewayInv, Arrived
    <2>3. req.direct
      BY <1>3, <1>6
    <2> QED  BY <1>1, <2>1, <2>2, <2>3, ServiceDone
  <1> QED  BY <1>4, <1>5, <1>6 DEF ObjectApi

(* A token is revoked, or time goes on: a refusal stays a just one. *)
LEMMA OthersStep ==
  ASSUME GatewayInv, req' = req, now' \in {now, now + 1}, now' \in 0..MaxTime,
         revoked \subseteq revoked', revoked' \subseteq Tokens
  PROVE  GatewayInv'
  <1> USE DEF GatewayInv
  <1>1. TypeOK'
    <2>1. TypeOK => req \in Requests
      BY DEF TypeOK, Requests
    <2>2. req' \in Requests
      BY <2>1
    <2> QED  BY <2>2 DEF TypeOK, Requests
  <1>2. now <= now' /\ now \in Nat /\ now' \in Nat /\ req.at \in Nat
    BY TimesOrdered
  <1>3. (Public' <=> Public) /\ Verified' = Verified
    BY SameView
  <1>4. Arrived'
    <2>1. req.at <= now => req.at <= now'
      BY <1>2
    <2> QED  BY <2>1 DEF Arrived
  <1>5. Checked' /\ Routed' /\ SamePrincipal' /\ OpenStaysOpen' /\ Reachable'
    BY <1>3 DEF Checked, Behind, Routed, SamePrincipal, Believed, Trusted, TablesAgree, OpenStaysOpen,
                Reachable, Through
  <1>6. NoSecondRefusal'
    <2> SUFFICES ASSUME NEW s \in Services, Through(s), req.status = "unauthorized"
                 PROVE  /\ s = "auth-service" /\ req.bearer \in Sound
                        /\ \/ req.bearer \in revoked'
                           \/ req.at < Exp[req.bearer] /\ Exp[req.bearer] <= now'
      BY DEF NoSecondRefusal, Through
    <2>1. /\ s = "auth-service" /\ req.bearer \in Sound
          /\ req.bearer \in revoked \/ (req.at < Exp[req.bearer] /\ Exp[req.bearer] <= now)
      BY DEF TablesAgree, NoSecondRefusal
    <2>2. Exp[req.bearer] \in Nat
      BY <2>1, ClaimsAreWords
    <2>3. Exp[req.bearer] <= now => Exp[req.bearer] <= now'
      BY <1>2, <2>2
    <2> QED  BY <2>1, <2>3
  <1> QED  BY <1>1, <1>4, <1>5, <1>6 DEF TablesAgree

LEMMA NextInv == GatewayInv /\ [Next]_vars => GatewayInv'
  <1> SUFFICES ASSUME GatewayInv, [Next]_vars
               PROVE  GatewayInv'
    OBVIOUS
  <1>1. CASE Send
    BY <1>1, SendStep
  <1>2. CASE Health \/ Refuse \/ ProxyFails
    <2>1. CASE Health
      BY <2>1, GatewayAnswers DEF Health
    <2>2. CASE Refuse
      BY <2>2, GatewayAnswers DEF Refuse
    <2>3. CASE ProxyFails
      BY <2>3, GatewayAnswers DEF ProxyFails, Services
    <2> QED  BY <1>2, <2>1, <2>2, <2>3
  <1>3. CASE Forward
    BY <1>3, ForwardStep
  <1>4. ASSUME NEW s \in Services, NotFound(s) \/ ServeOpen(s)
        PROVE  GatewayInv'
    BY <1>4, NotFoundStep, ServeOpenStep
  <1>5. CASE AuthService \/ ObjectApi
    BY <1>5, AuthServiceStep, ObjectApiStep
  <1>6. ASSUME NEW t \in Sound, Revoke(t)
        PROVE  GatewayInv'
    <2>1. t \in Tokens
      BY ClaimsAreWords
    <2> QED  BY <1>6, <2>1, OthersStep DEF Revoke, GatewayInv, TypeOK
  <1>7. CASE Tick
    <2>1. now + 1 \in 0..MaxTime /\ TypeOK
      BY <1>7, TimesOrdered DEF Tick, GatewayInv
    <2> QED  BY <1>7, <2>1, OthersStep DEF Tick, TypeOK
  <1>8. CASE Done \/ UNCHANGED vars
    <2>1. UNCHANGED <<now, revoked, req>>
      BY <1>8 DEF Done, vars
    <2> QED  BY <2>1, OthersStep DEF GatewayInv, TypeOK
  <1> QED  BY <1>1, <1>2, <1>3, <1>4, <1>5, <1>6, <1>7, <1>8 DEF Next

LEMMA Always == Spec => []GatewayInv
  BY InitInv, NextInv, PTL DEF Spec

-----------------------------------------------------------------------------
(* Whatever answers a request, it is an answer of the gateway or of a      *)
(* service, and whoever a handler acts for is a user in a role.            *)
THEOREM TypeCorrect == Spec => []TypeOK
  <1>1. GatewayInv => TypeOK
    BY DEF GatewayInv
  <1> QED  BY Always, <1>1, PTL

(* A handler acts for the subject of a token that was good when the        *)
(* request came, whatever headers it came with - but for a request sent    *)
(* straight to object-api with an X-User-ID: the handler acts for the user *)
(* named there (the handler of the gateway and both authMiddlewares).      *)
THEOREM ActsForTheSubject == Spec => []SamePrincipal
  <1>1. GatewayInv => SamePrincipal
    BY DEF GatewayInv
  <1> QED  BY Always, <1>1, PTL

(* For every path there is, not only for those of the run: isPublicRoute,  *)
(* isAuthPath and isObjectPath agree with what the services register.      *)
THEOREM TablesDoAgree == Spec => []TablesAgree
  <1>1. GatewayInv => TablesAgree
    BY DEF GatewayInv
  <1> QED  BY Always, <1>1, PTL
=============================================================================
