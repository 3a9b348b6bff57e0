----------------------------- MODULE MCApiGateway -----------------------------
EXTENDS ApiGateway

\* Alice's token, an administrator's that is soon to expire, and one that is
\* not of this system.
TokensHere == {"alice", "admin", "foreign"}
SoundHere == {"alice", "admin"}
UsersHere == {"alice", "root"}
SubHere == [t \in TokensHere |-> IF t = "admin" THEN "root" ELSE "alice"]
RoleHere == [t \in TokensHere |-> IF t = "admin" THEN "admin" ELSE "user"]
ExpHere == [t \in TokensHere |-> IF t = "admin" THEN 1 ELSE 2]

\* None, or those of somebody else.
HeadersHere == {[user |-> "", role |-> ""], [user |-> "root", role |-> ""]}

\* Every path of every table, with something under each prefix, and some that
\* nobody registered.
Below(p) == IF Last(p) = "" THEN {p, Front(p) \o <<"x">>} ELSE {p, p \o <<"x">>}
PathsHere ==
  UNION {Below(p) : p \in AuthGuarded \cup AuthOpen \cup ObjectGuarded \cup ObjectShares
                            \cup ObjectOpen \cup ObjectPathPrefixes \cup AuthPathPrefixes}
    \cup {<<"objects">>, <<"api", "v1", "objects-of-last-year">>, <<"">>}
=============================================================================
