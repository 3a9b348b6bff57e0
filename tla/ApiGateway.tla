------------------------------ MODULE ApiGateway ------------------------------
(***************************************************************************)
(* One request on its way through api-gateway to auth-service or           *)
(* object-api (or straight to one of them: their ports are published too). *)
(* Three tables have to agree on what needs a token - the gateway's and    *)
(* the two of the services - and the token is read twice: auth-service     *)
(* does not rely on the gateway, object-api relies on the headers it set.  *)
(*                                                                         *)
(* A path is the sequence of its segments; a last segment "" is a slash at *)
(* the end, and in a table stands for everything below it.  The handlers   *)
(* behind the tables are other modules: "ok" says that one was called.     *)
(***************************************************************************)
EXTENDS Integers, SequencesExt

CONSTANTS Paths, Methods, Headers,  \* of requests; Headers: [user, role]
          Tokens, Sound,    \* bearer tokens; those with our signature and issuer
          Sub, Role, Exp,   \* their claims
          Roles, Users, None,
          MaxTime           \* bound: the clock stops here

ASSUME ClaimsForm == /\ Sound \subseteq Tokens
                     /\ Sub \in [Tokens -> Users] /\ Role \in [Tokens -> Roles]
                     /\ Exp \in [Tokens -> Nat] /\ MaxTime \in Nat
ASSUME PathsForm == Paths \subseteq Seq(STRING)
ASSUME HeadersForm == /\ Headers \subseteq [user : Users \cup {""}, role : Roles \cup {""}]
                      /\ "user" \in Roles
ASSUME NoneForm == None \notin Tokens /\ "" \notin Users \cup Roles

VARIABLES now, revoked, req

vars == <<now, revoked, req>>

Services == {"auth-service", "object-api"}
Principals == [user : Users, role : Roles]

\* at: when it came; by: who answered; principal: whom the handler acts for.
TypeOK ==
  /\ now \in 0..MaxTime /\ revoked \in SUBSET Tokens
  /\ req \in [pc : {"idle", "gateway", "done"} \cup Services, path : Paths \cup {<<>>},
              method : Methods \cup {None}, bearer : Tokens \cup {None},
              header : [user : Users \cup {""}, role : Roles \cup {""}],
              direct : BOOLEAN, at : 0..MaxTime, by : {"", "gateway"} \cup Services,
              status : {"", "ok", "unauthorized", "notfound", "badgateway"},
              principal : Principals \cup {None}]

Init ==
  /\ now = 0 /\ revoked = {}
  /\ req = [pc |-> "idle", path |-> <<>>, method |-> None, bearer |-> None,
            header |-> [user |-> "", role |-> ""], direct |-> FALSE, at |-> 0,
            by |-> "", status |-> "", principal |-> None]

-----------------------------------------------------------------------------
(* Tables.  A last segment of a prefix without a slash goes on in a name.  *)
V1(names) == {<<"api", "v1", n>> : n \in names}
V1Of(area, names) == {<<"api", "v1", area, n>> : n \in names}

GoesOn(n) == IF n \in {"objects", "shares"} THEN {n, n \o "-of-last-year"} ELSE {n}
Under(path, prefix) ==
  /\ Len(path) >= Len(prefix)
  /\ IsPrefix(Front(prefix), path)
  /\ Last(prefix) = "" \/ path[Len(prefix)] \in GoesOn(Last(prefix))

\* net/http: a pattern with a slash at its end is a prefix, any other is exact.
Registered(table, path) ==
  \E p \in table : IF Last(p) = "" THEN Under(path, p) ELSE path = p

ObjectPathPrefixes ==
  {<<"objects", "">>, <<"admin", "objects", "">>, <<"api", "v1", "admin", "objects">>}
    \cup V1({"objects", "shares"}) \cup V1Of("public", {""})

ObjectExactPaths ==
  V1({"upload-file", "download-file", "delete-file", "hide-file", "get-user-files",
      "file-exists", "make-private-read", "make-public-read", "share-link"})
    \cup V1Of("admin", {"hide-file", "delete-file"})
    \cup V1Of("share", {"download"}) \cup V1Of("public", {"download-file"})

AuthPathPrefixes == V1Of("auth", {""}) \cup V1Of("tokens", {""})

AuthExactRoutes ==
  V1({"register", "login", "forgot-password", "owner-only", "create-token",
      "list-tokens", "delete-token", "tokens"})
    \cup V1Of("register", {"verify-otp"}) \cup V1Of("forgot-password", {"verify-otp"})

Healthz == <<"healthz">>
AuthSteps(root) ==
  {root \o s : s \in {<<"register">>, <<"register", "verify-otp">>, <<"login">>,
                      <<"forgot-password">>, <<"forgot-password", "verify-otp">>}}
AuthOnlySteps == {<<"api", "v1", "auth", n, "verify">> : n \in {"register", "forgot-password"}}

PublicExactRoutes ==
  {Healthz} \cup AuthSteps(<<"api", "v1", "auth">>) \cup AuthOnlySteps
    \cup AuthSteps(<<"api", "v1">>)
    \cup V1Of("share", {"download"}) \cup V1Of("public", {"download-file"})

\* mutant: everything that auth-service has under auth/ is public.
IsPublicRoute_Auth(path, method) ==
  \/ path \in PublicExactRoutes
  \/ \E p \in V1Of("auth", {""}) : Under(path, p)
  \/ /\ method = "GET"
     /\ \E p \in V1Of("shares", {""}) \cup V1Of("public", {""}) : Under(path, p)

\* mutant: whatever the method is.
IsPublicRoute_AnyMethod(path, method) ==
  \/ path \in PublicExactRoutes
  \/ \E p \in V1Of("shares", {""}) \cup V1Of("public", {""}) : Under(path, p)

IsPublicRoute(path, method) ==
  \/ path \in PublicExactRoutes
  \/ /\ method = "GET"
     /\ \E p \in V1Of("shares", {""}) \cup V1Of("public", {""}) : Under(path, p)

IsAuthPath(path) == path \in AuthExactRoutes \/ \E p \in AuthPathPrefixes : Under(path, p)
IsObjectPath(path) == path \in ObjectExactPaths \/ \E p \in ObjectPathPrefixes : Under(path, p)

\* What auth-service registers, behind its authMiddleware and not.
AuthGuarded == V1Of("auth", {"tokens"}) \cup V1({"tokens"})
                 \cup {<<"api", "v1", "auth", "tokens", "">>, <<"api", "v1", "tokens", "">>}
                 \cup V1({"owner-only", "create-token", "list-tokens", "delete-token"})
AuthOpen == {Healthz} \cup AuthSteps(<<"api", "v1", "auth">>) \cup AuthOnlySteps
              \cup AuthSteps(<<"api", "v1">>)

\* And object-api; handleShares lets in whoever does not create a link.
ObjectGuarded ==
  {<<"objects", "">>, <<"admin", "objects", "">>, <<"api", "v1", "admin", "objects", "">>}
    \cup V1({"objects"}) \cup V1Of("objects", {""})
    \cup V1({"upload-file", "download-file", "delete-file", "hide-file", "get-user-files",
             "file-exists", "make-private-read", "make-public-read", "share-link"})
    \cup V1Of("admin", {"hide-file", "delete-file"})
ObjectShares == V1({"shares"}) \cup V1Of("shares", {""})
ObjectOpen == {Healthz, <<"api", "v1", "public", "objects", "">>}
                \cup V1Of("share", {"download"}) \cup V1Of("public", {"download-file"})

Guarded(s, path, method) ==
  IF s = "auth-service" THEN Registered(AuthGuarded, path)
  ELSE Registered(ObjectGuarded, path) \/ (method = "POST" /\ Registered(ObjectShares, path))
Open(s, path, method) ==
  IF s = "auth-service" THEN Registered(AuthOpen, path)
  ELSE Registered(ObjectOpen, path) \/ (method # "POST" /\ Registered(ObjectShares, path))

-----------------------------------------------------------------------------
Send ==
  /\ req.pc = "idle"
  /\ \E p \in Paths, m \in Methods, b \in Tokens \cup {None}, h \in Headers,
        to \in {"gateway"} \cup Services :
       req' = [req EXCEPT !.pc = to, !.path = p, !.method = m, !.bearer = b,
                          !.header = h, !.direct = (to # "gateway"), !.at = now]
  /\ UNCHANGED <<now, revoked>>

Answer(who, status) ==
  /\ req' = [req EXCEPT !.pc = "done", !.by = who, !.status = status]
  /\ UNCHANGED <<now, revoked>>

Serve(who, principal) ==
  /\ req' = [req EXCEPT !.pc = "done", !.by = who, !.status = "ok",
                        !.principal = principal]
  /\ UNCHANGED <<now, revoked>>

\* validateBearerJWT, and the same steps in the middleware of the services.
Valid(b) == b \in Sound /\ now < Exp[b]

Verified == [user |-> Sub[req.bearer], role |-> Role[req.bearer]]
Public == IsPublicRoute(req.path, req.method)

(* The handler of the gateway. *)
Health == req.pc = "gateway" /\ req.path = Healthz /\ Answer("gateway", "ok")

Refuse ==
  /\ req.pc = "gateway" /\ ~Public /\ ~Valid(req.bearer)
  /\ Answer("gateway", "unauthorized")

Forward ==
  /\ req.pc = "gateway" /\ req.path # Healthz
  /\ Public \/ Valid(req.bearer)
  /\ LET sent == IF Public THEN req.header ELSE Verified
         pass(s) == /\ req' = [req EXCEPT !.pc = s, !.header = sent]
                    /\ UNCHANGED <<now, revoked>>
     IN \/ IsAuthPath(req.path) /\ pass("auth-service")
        \/ ~IsAuthPath(req.path) /\ IsObjectPath(req.path) /\ pass("object-api")
        \/ ~IsAuthPath(req.path) /\ ~IsObjectPath(req.path) /\ Answer("gateway", "notfound")

(* The service does not answer the gateway's proxy, or not the whole way: *)
(* the handler may have been called.                                      *)
ProxyFails ==
  req.pc \in Services /\ ~req.direct /\ Answer("gateway", "badgateway")

\* The service has no such path (or only with a slash at its end: then net/http
\* says so).
NotFound(s) ==
  /\ req.pc = s
  /\ ~Guarded(s, req.path, req.method) /\ ~Open(s, req.path, req.method)
  /\ Answer(s, "notfound")

ServeOpen(s) ==
  /\ req.pc = s /\ Open(s, req.path, req.method)
  /\ Serve(s, None)

(* authMiddleware of auth-service; it asks Redis, which may not answer. *)
AuthService ==
  /\ req.pc = "auth-service" /\ Guarded("auth-service", req.path, req.method)
  /\ \/ Valid(req.bearer) /\ Serve("auth-service", Verified)
     \/ /\ ~Valid(req.bearer) \/ req.bearer \in revoked
        /\ Answer("auth-service", "unauthorized")

\* mutant: no role is taken for one.
Trusted_NoDefault == req.header

\* The headers of the gateway, or of whoever asks directly.
Trusted == [user |-> req.header.user,
            role |-> IF req.header.role = "" THEN "user" ELSE req.header.role]

(* authMiddleware of object-api. *)
ObjectApi ==
  /\ req.pc = "object-api" /\ Guarded("object-api", req.path, req.method)
  /\ \/ req.header.user # "" /\ Serve("object-api", Trusted)
     \/ /\ req.header.user = "" /\ Valid(req.bearer)
        /\ Serve("object-api", Verified)
     \/ /\ req.header.user = "" /\ ~Valid(req.bearer)
        /\ Answer("object-api", "unauthorized")

-----------------------------------------------------------------------------
\* DELETE of a token; see module Tokens.
Revoke(t) == t \notin revoked /\ revoked' = revoked \cup {t} /\ UNCHANGED <<now, req>>

Tick == now < MaxTime /\ now' = now + 1 /\ UNCHANGED <<revoked, req>>

Done == req.pc = "done" /\ UNCHANGED vars

Next == \/ Send \/ Health \/ Refuse \/ Forward \/ ProxyFails
        \/ \E s \in Services : NotFound(s) \/ ServeOpen(s)
        \/ AuthService \/ ObjectApi
        \/ \E t \in Sound : Revoke(t)
        \/ Tick \/ Done

Spec == Init /\ [][Next]_vars

-----------------------------------------------------------------------------
Through(s) == req.pc = "done" /\ ~req.direct /\ req.by = s

\* object-api is asked directly, by somebody who names a user.
Believed == req.direct /\ req.by = "object-api" /\ req.header.user # ""

(* A handler acts for the subject and in the role of a token that was good *)
(* when the request came - whatever headers a request came with to the     *)
(* gateway or to auth-service.  There is one exception: object-api takes   *)
(* the X-User-ID of a request sent straight to it for the gateway's, and   *)
(* acts for exactly the user and the role named there, token or not (the   *)
(* handler of the gateway and both authMiddlewares).                       *)
SamePrincipal ==
  req.principal # None =>
    IF Believed THEN req.principal = Trusted
    ELSE /\ req.bearer \in Sound /\ req.at < Exp[req.bearer]
         /\ req.principal = Verified

(* A service refuses what the gateway let through only if the token expired*)
(* on the way, or auth-service knows that it is revoked.                   *)
NoSecondRefusal ==
  \A s \in Services : Through(s) /\ req.status = "unauthorized" =>
    /\ s = "auth-service" /\ req.bearer \in Sound
    /\ req.bearer \in revoked \/ (req.at < Exp[req.bearer] /\ Exp[req.bearer] <= now)

(* What needs no token in a service needs none at the gateway (object-api  *)
(* allows nothing but GET there) - with one exception: a share link asked  *)
(* for by query at /api/v1/shares.                                         *)
OpenStaysOpen ==
  Through("gateway") /\ req.status = "unauthorized" =>
    /\ ~Open("auth-service", req.path, req.method)
    /\ req.method = "GET" /\ Open("object-api", req.path, "GET") =>
         req.path \in V1({"shares"})

(* Every path that a service registers reaches that service.               *)
Reachable ==
  req.pc = "done" /\ ~req.direct /\ req.status = "notfound" =>
    \A s \in Services :
      ~Guarded(s, req.path, req.method) /\ ~Open(s, req.path, req.method)

(* The tables of the gateway and of the two services agree on where a path *)
(* leads and on whether it needs a token (isPublicRoute, isAuthPath,       *)
(* isObjectPath against the two RegisterRoutes).                           *)
TablesAgree == NoSecondRefusal /\ OpenStaysOpen /\ Reachable
=============================================================================
