------------------------------ MODULE MCListing ------------------------------
EXTENDS Listing, TLC

\* All objects, or the private and visible ones.
SomeFilters == {[permission |-> p, visibility |-> v] :
                  <<p, v>> \in {<<"", "">>, <<"private-read", "visible">>}}

Alike == Permutations(Keys) \cup Permutations(Writes)
=============================================================================
