---------------------------- MODULE MCRateLimiter ----------------------------
EXTENDS RateLimiter, TLC

CONSTANTS alice, home

\* One user's requests, all from one address: the gateway's.  Failures and
\* restarts let the counts of the two keys drift apart.
OneUser == [r \in Requests |-> alice]
OneAddress == [r \in Requests |-> home]

RequestsAlike == Permutations(Requests)
=============================================================================
