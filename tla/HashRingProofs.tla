---------------------------- MODULE HashRingProofs ----------------------------
(***************************************************************************)
(* HashRing: a lookup returns distinct nodes, as many as there are to be   *)
(* copies or all there are on the ring; they are the nearest ones,         *)
(* nearest first; and a node that leaves moves no other - for every list   *)
(* of nodes, number of virtual nodes, hash function and replication        *)
(* factor.                                                                 *)
(***************************************************************************)
EXTENDS HashRing, FiniteSetTheorems, WellFoundedInduction, TLAPS

At(k) == owner[keys[k]]
OnRing == {At(k) : k \in 1..Len(keys)}
Visited(m) == ((start - 1 + m) % Len(keys)) + 1

(* The ring and the walk: of the ring it only matters that it is not empty.*)
RingForm == /\ Len(keys) \in Nat \ {0} /\ DOMAIN keys = 1..Len(keys)
            /\ start \in 1..Len(keys)
            /\ Factor(conf) \in Nat
            /\ pc \in {"idle", "walk", "done"}

WalkForm == /\ i \in 0..Len(keys)
            /\ selected \in Seq(OnRing)
            /\ Len(selected) <= Factor(conf)
            /\ pc = "idle" => i = 0
            /\ pc = "done" => ~Walking

(* What was visited is selected, once. *)
AllVisited == \A m \in 0..(i - 1) : At(Visited(m)) \in Listed(selected)
Distinct == \A a, b \in 1..Len(selected) : selected[a] = selected[b] => a = b

RingInv == RingForm /\ WalkForm /\ AllVisited /\ Distinct

-----------------------------------------------------------------------------
LEMMA Smallest ==
  ASSUME NEW T \in SUBSET Nat, T # {}
  PROVE  \E k \in T : \A m \in T : k <= m
<1>1. PICK k \in T : \A m \in T : <<m, k>> \notin OpToRel(<, Nat)
  BY WFMin, NatLessThanWellFounded, Zenon
<1>2. \A m \in T : ~(m < k)
  BY <1>1, Zenon DEF OpToRel
<1> QED BY <1>2

LEMMA SearchOnRing ==
  ASSUME Len(keys) \in Nat \ {0}, NEW t
  PROVE  Search(t) \in 1..Len(keys)
<1> DEFINE from == {k \in 1..Len(keys) : keys[k] >= t}
<1>1. CASE from = {}
  BY <1>1 DEF Search
<1>2. CASE from # {}
  <2>1. from \in SUBSET Nat
    OBVIOUS
  <2> HIDE DEF from
  <2>2. \E k \in from : \A m \in from : k <= m
    BY <1>2, <2>1, Smallest
  <2>3. (CHOOSE k \in from : \A m \in from : k <= m) \in from
    BY <2>2
  <2> QED BY <1>2, <2>3 DEF Search, from
<1> QED BY <1>1, <1>2

LEMMA FirstNumbers ==
  ASSUME NEW n \in Nat
  PROVE  IsFiniteSet(1..n) /\ Cardinality(1..n) = n
BY FS_Interval

(* Every place of the ring is within one round of any other. *)
LEMMA OneRound ==
  ASSUME NEW L \in Nat \ {0}, NEW s \in 1..L, NEW k \in 1..L
  PROVE  \E m \in 0..(L - 1) : ((s - 1 + m) % L) + 1 = k
<1>1. CASE k >= s
  <2>1. (s - 1 + (k - s)) % L = k - 1 /\ k - s \in 0..(L - 1)
    BY <1>1
  <2>2. ((s - 1 + (k - s)) % L) + 1 = k
    BY <2>1
  <2> QED BY <2>1, <2>2, Zenon
<1>2. CASE k < s
  <2>1. (s - 1 + (k - s + L)) % L = k - 1 /\ k - s + L \in 0..(L - 1)
    BY <1>2
  <2>2. ((s - 1 + (k - s + L)) % L) + 1 = k
    BY <2>1
  <2> QED BY <2>1, <2>2, Zenon
<1> QED BY <1>1, <1>2

LEMMA VnodesCount ==
  ASSUME NEW c \in Configs
  PROVE  Cardinality(Vnodes(c)) \in Nat \ {0}
<1>1. Len(c.nodes) \in Nat /\ Len(c.nodes) >= 2 /\ c.vnodes \in Nat \ {0}
      /\ DOMAIN c.nodes = 1..Len(c.nodes)
  BY ConfigsForm
<1>2. IsFiniteSet(1..Len(c.nodes))
  BY <1>1, FirstNumbers
<1>2a. IsFiniteSet(1..c.vnodes)
  BY <1>1, FirstNumbers
<1>3. IsFiniteSet(Vnodes(c))
  BY <1>1, <1>2, <1>2a, FS_Product DEF Vnodes
<1>4. <<1, 1>> \in Vnodes(c)
  BY <1>1 DEF Vnodes
<1> QED BY <1>3, <1>4, FS_CardinalityType, FS_EmptySet

LEMMA FactorCount ==
  ASSUME NEW c \in Configs
  PROVE  Factor(c) \in Nat
<1>1. Len(c.nodes) \in Nat /\ c.factor \in Int
  BY ConfigsForm
<1> QED BY <1>1 DEF Factor

-----------------------------------------------------------------------------
LEMMA InitInv == Init => RingInv
<1> SUFFICES ASSUME Init PROVE RingInv
  OBVIOUS
<1> DEFINE n == Cardinality(Vnodes(conf))
<1>1. n \in Nat \ {0} /\ Factor(conf) \in Nat
  BY VnodesCount, FactorCount DEF Init
<1>2. DOMAIN keys = 1..n /\ keys = [k \in 1..n |-> keys[k]]
  BY DEF Init, Sorted
<1>3. Len(keys) = n
  <2> HIDE DEF n
  <2>1. keys \in Seq({keys[k] : k \in 1..n})
    BY <1>1, <1>2
  <2> QED BY <1>1, <1>2, <2>1
<1> HIDE DEF n
<1>4. RingForm
  BY <1>1, <1>2, <1>3 DEF RingForm, Init
<1>5. WalkForm /\ AllVisited /\ Distinct
  BY <1>1, <1>3 DEF WalkForm, AllVisited, Distinct, Init
<1> QED BY <1>4, <1>5 DEF RingInv

LEMMA LookupInv ==
  ASSUME RingInv, NEW t \in Points, Lookup(t)
  PROVE  RingInv'
<1> USE DEF RingInv
<1>1. start' \in 1..Len(keys)
  BY SearchOnRing DEF RingForm, Lookup
<1>2. RingForm'
  BY <1>1 DEF Lookup, RingForm
<1>3. WalkForm' /\ Distinct'
  BY DEF Lookup, WalkForm, Distinct, OnRing, At, Walking
<1>4. AllVisited'
  BY DEF Lookup, WalkForm, AllVisited
<1> QED BY <1>2, <1>3, <1>4

LEMMA VisitInv ==
  ASSUME RingInv, Visit
  PROVE  RingInv'
<1> DEFINE k == Visited(i)
           n == At(k)
<1>1. k \in 1..Len(keys)
  BY DEF RingInv, RingForm, WalkForm, Visited
<1>2. /\ selected' = IF n \in Listed(selected) THEN selected ELSE Append(selected, n)
      /\ i' = i + 1 /\ i < Len(keys) /\ Len(selected) < Factor(conf) /\ pc = "walk"
      /\ UNCHANGED <<conf, keys, owner, start, pc>>
  BY DEF Visit, Walking, At, Visited
<1>3. n \in OnRing /\ OnRing' = OnRing
  BY <1>1, <1>2 DEF OnRing, At
<1> HIDE DEF k, n
<1>4. selected \in Seq(OnRing) /\ Len(selected) \in Nat
  BY DEF RingInv, WalkForm
<1>5. /\ Listed(selected') = Listed(selected) \cup {n}
      /\ Len(selected') <= Len(selected) + 1 /\ selected' \in Seq(OnRing)
  BY <1>2, <1>3, <1>4 DEF Listed
<1>6. RingForm'
  BY <1>2 DEF RingInv, RingForm
<1>7. WalkForm'
  BY <1>2, <1>3, <1>4, <1>5 DEF RingInv, RingForm, WalkForm
<1>8. AllVisited'
  <2>1. ASSUME NEW m \in 0..(i' - 1) PROVE At(Visited(m)) \in Listed(selected')
    <3>1. CASE m = i
      BY <3>1, <1>5 DEF k, n
    <3>2. CASE m # i
      <4>1. m \in 0..(i - 1)
        BY <3>2, <1>2 DEF RingInv, RingForm, WalkForm
      <4> QED BY <4>1, <1>5 DEF RingInv, AllVisited
    <3> QED BY <3>1, <3>2
  <2> QED BY <2>1, <1>2 DEF AllVisited, At, Visited
<1>9. Distinct'
  <2>1. CASE n \in Listed(selected)
    BY <2>1, <1>2 DEF RingInv, Distinct
  <2>2. CASE n \notin Listed(selected)
    <3>1. \A a \in 1..Len(selected) : selected[a] # n
      BY <2>2, <1>4 DEF Listed
    <3>2. selected' = Append(selected, n)
      BY <2>2, <1>2
    <3> QED BY <3>1, <3>2, <1>4 DEF RingInv, Distinct
  <2> QED BY <2>1, <2>2
<1> QED BY <1>6, <1>7, <1>8, <1>9 DEF RingInv

LEMMA NextInv == RingInv /\ [Next]_vars => RingInv'
<1> SUFFICES ASSUME RingInv, [Next]_vars PROVE RingInv'
  OBVIOUS
<1>1. ASSUME NEW t \in Points, Lookup(t) PROVE RingInv'
  BY <1>1, LookupInv
<1>2. ASSUME Visit PROVE RingInv'
  BY <1>2, VisitInv
<1>3. ASSUME Return PROVE RingInv'
  BY <1>3 DEF Return, RingInv, RingForm, WalkForm, AllVisited, Distinct, Walking,
              OnRing, At, Visited
<1>4. ASSUME Used \/ UNCHANGED vars PROVE RingInv'
  <2>1. UNCHANGED vars
    BY <1>4 DEF Used
  <2>2. RingForm' /\ WalkForm'
    BY <2>1 DEF vars, RingInv, RingForm, WalkForm, Walking, OnRing, At
  <2>3. AllVisited' /\ Distinct'
    BY <2>1 DEF vars, RingInv, AllVisited, Distinct, At, Visited
  <2> QED BY <2>2, <2>3 DEF RingInv
<1> QED BY <1>1, <1>2, <1>3, <1>4 DEF Next

LEMMA InvDistinct == RingInv => PlacementDistinct
<1> SUFFICES ASSUME RingInv PROVE PlacementDistinct
  OBVIOUS
<1>1. ASSUME pc = "done", Len(selected) # Factor(conf), NEW k \in 1..Len(keys)
      PROVE  owner[keys[k]] \in Listed(selected)
  <2>1. i = Len(keys) /\ Len(keys) \in Nat \ {0} /\ start \in 1..Len(keys)
    <3>1. /\ Len(selected) \in Nat /\ Factor(conf) \in Nat
          /\ Len(selected) <= Factor(conf) /\ i \in 0..Len(keys)
          /\ Len(keys) \in Nat \ {0} /\ start \in 1..Len(keys)
      BY DEF RingInv, RingForm, WalkForm
    <3>2. ~(i < Len(keys) /\ Len(selected) < Factor(conf))
      BY <1>1 DEF RingInv, WalkForm, Walking
    <3> QED BY <1>1, <3>1, <3>2
  <2>2. PICK m \in 0..(i - 1) : Visited(m) = k
    BY <2>1, OneRound DEF Visited
  <2> QED BY <2>2 DEF RingInv, AllVisited, At
<1> QED BY <1>1 DEF PlacementDistinct, RingInv, WalkForm, Distinct

(* No node is chosen twice, and nodes are missing only when the ring has   *)
(* no others (GetNodes): a row's primary and replica differ, as the CHECK  *)
(* of the objects table wants, and Upload's targets are all distinct.      *)
THEOREM PlacementIsDistinct == Spec => []PlacementDistinct
BY InitInv, NextInv, InvDistinct, PTL DEF Spec

-----------------------------------------------------------------------------
(* The ring as it is built: sorted, with every hash of a virtual node, and *)
(* nothing else.                                                           *)
RingSorted ==
  /\ keys \in [1..Len(keys) -> Points]
  /\ \A a, b \in 1..Len(keys) : a <= b => keys[a] <= keys[b]
  /\ owner \in [Listed(keys) -> Listed(conf.nodes)]

HashesForm(c, h) ==
  /\ c \in Configs
  /\ h \in [Listed(c.nodes) \X (1..c.vnodes) -> Points]

LEMMA Largest ==
  ASSUME NEW n \in Nat, NEW T \in SUBSET (0..n), T # {}
  PROVE  \E k \in T : \A m \in T : m <= k
<1> DEFINE U == {n - m : m \in T}
<1>1. U \in SUBSET Nat /\ U # {}
  <2>1. \A m \in T : n - m \in Nat
    OBVIOUS
  <2> QED BY <2>1
<1> HIDE DEF U
<1>2. PICK u \in U : \A w \in U : u <= w
  BY <1>1, Smallest
<1>3. PICK k \in T : u = n - k
  BY <1>2 DEF U
<1>4. \A m \in T : n - k <= n - m
  BY <1>2, <1>3 DEF U
<1> QED BY <1>3, <1>4

LEMMA VnodeForm ==
  ASSUME NEW c, NEW h, HashesForm(c, h)
  PROVE  /\ IsFiniteSet(Vnodes(c)) /\ Cardinality(Vnodes(c)) \in Nat \ {0}
         /\ \A v \in Vnodes(c) : /\ HashOf(c, h, v) \in Points
                                 /\ v[1] \in 1..Len(c.nodes)
                                 /\ c.nodes[v[1]] \in Listed(c.nodes)
         /\ Len(c.nodes) \in Nat
         /\ Hashes(c, h) \subseteq Points
<1>1. /\ Len(c.nodes) \in Nat /\ c.vnodes \in Nat \ {0}
      /\ DOMAIN c.nodes = 1..Len(c.nodes)
  BY ConfigsForm DEF HashesForm
<1>2. IsFiniteSet(1..Len(c.nodes)) /\ IsFiniteSet(1..c.vnodes)
  <2>1. IsFiniteSet(1..Len(c.nodes))
    BY <1>1, FirstNumbers
  <2>2. IsFiniteSet(1..c.vnodes)
    BY <1>1, FirstNumbers
  <2> QED BY <2>1, <2>2
<1>3. IsFiniteSet(Vnodes(c))
  BY <1>1, <1>2, FS_Product DEF Vnodes
<1>4. Cardinality(Vnodes(c)) \in Nat \ {0}
  BY VnodesCount DEF HashesForm
<1>5. \A v \in Vnodes(c) : /\ HashOf(c, h, v) \in Points
                           /\ v[1] \in 1..Len(c.nodes)
                           /\ c.nodes[v[1]] \in Listed(c.nodes)
  <2> TAKE v \in Vnodes(c)
  <2>1. v[1] \in DOMAIN c.nodes /\ v[2] \in 1..c.vnodes
    BY DEF Vnodes
  <2>2. c.nodes[v[1]] \in Listed(c.nodes)
    BY <2>1 DEF Listed
  <2>3. <<c.nodes[v[1]], v[2]>> \in Listed(c.nodes) \X (1..c.vnodes)
    BY <2>1, <2>2
  <2>4. h[<<c.nodes[v[1]], v[2]>>] \in Points
    BY <2>3 DEF HashesForm
  <2>5. HashOf(c, h, v) = h[<<c.nodes[v[1]], v[2]>>]
    BY Zenon DEF HashOf
  <2> QED BY <1>1, <2>1, <2>2, <2>4, <2>5
<1>6. Hashes(c, h) \subseteq Points
  BY <1>5 DEF Hashes
<1> QED BY <1>1, <1>3, <1>4, <1>5, <1>6

(* How many virtual nodes have a hash up to x. *)
LEMMA UpToForm ==
  ASSUME NEW c, NEW h, HashesForm(c, h)
  PROVE  /\ \A x \in Int : UpTo(c, h, x) \in Nat
         /\ \A x, y \in Int : x <= y => UpTo(c, h, x) <= UpTo(c, h, y)
         /\ \A x \in Int : x < 0 => UpTo(c, h, x) = 0
         /\ UpTo(c, h, HashSpace - 1) = Cardinality(Vnodes(c))
         /\ \A x \in Hashes(c, h) : UpTo(c, h, x - 1) < UpTo(c, h, x)
         /\ \A x \in Int \ Hashes(c, h) : UpTo(c, h, x - 1) = UpTo(c, h, x)
<1> DEFINE S(x) == {v \in Vnodes(c) : HashOf(c, h, v) <= x}
<1>1. \A x : UpTo(c, h, x) = Cardinality(S(x))
  BY DEF UpTo
<1>2. IsFiniteSet(Vnodes(c)) /\ \A v \in Vnodes(c) : HashOf(c, h, v) \in Points
  BY VnodeForm
<1>2a. \A v \in Vnodes(c) : /\ HashOf(c, h, v) \in Int
                            /\ 0 <= HashOf(c, h, v) /\ HashOf(c, h, v) <= HashSpace - 1
  BY <1>2, HashSpaceForm DEF Points
<1>3. \A x : IsFiniteSet(S(x)) /\ S(x) \subseteq Vnodes(c)
  BY <1>2, FS_Subset
<1>4. ASSUME NEW x \in Int, NEW y \in Int, x <= y PROVE S(x) \subseteq S(y)
  <2>1. ASSUME NEW v \in Vnodes(c), HashOf(c, h, v) <= x PROVE HashOf(c, h, v) <= y
    <3>1. HashOf(c, h, v) \in Int
      BY <1>2a
    <3> HIDE DEF HashesForm
    <3> QED BY <1>4, <2>1, <3>1
  <2> QED BY <2>1
<1>5. ASSUME NEW x \in Int, x < 0 PROVE S(x) = {}
  <2>1. \A v \in Vnodes(c) : ~(HashOf(c, h, v) <= x)
    BY <1>2a, <1>5
  <2> QED BY <2>1
<1>6. S(HashSpace - 1) = Vnodes(c)
  BY <1>2a
<1>7. ASSUME NEW x \in Int, x \notin Hashes(c, h) PROVE S(x - 1) = S(x)
  <2>1. \A v \in Vnodes(c) : HashOf(c, h, v) # x
    BY <1>7 DEF Hashes
  <2>2. \A v \in Vnodes(c) : HashOf(c, h, v) <= x - 1 <=> HashOf(c, h, v) <= x
    BY <1>2a, <2>1
  <2> QED BY <2>2
<1>8. ASSUME NEW x \in Hashes(c, h)
      PROVE  x \in Int /\ \E v \in S(x) : v \notin S(x - 1)
  <2>1. PICK v \in Vnodes(c) : HashOf(c, h, v) = x
    BY DEF Hashes
  <2>2. x \in Int /\ x <= x /\ ~(x <= x - 1)
    BY <1>2a, <2>1
  <2>3. v \in S(x) /\ v \notin S(x - 1)
    BY <2>1, <2>2
  <2> QED BY <2>2, <2>3
<1> HIDE DEF S
<1>9. \A x \in Int : Cardinality(S(x)) \in Nat
  BY <1>3, FS_CardinalityType
<1>10. \A x, y \in Int : x <= y => Cardinality(S(x)) <= Cardinality(S(y))
  BY <1>3, <1>4, FS_Subset
<1>11. \A x \in Int : x < 0 => Cardinality(S(x)) = 0
  BY <1>5, FS_EmptySet
<1>12. ASSUME NEW x \in Hashes(c, h)
       PROVE  Cardinality(S(x - 1)) < Cardinality(S(x))
  <2>1. x \in Int /\ x - 1 \in Int /\ S(x - 1) # S(x) /\ S(x - 1) \subseteq S(x)
    BY <1>4, <1>8
  <2>2. Cardinality(S(x - 1)) # Cardinality(S(x))
    BY <1>3, <2>1, FS_Subset
  <2>3. Cardinality(S(x - 1)) <= Cardinality(S(x))
    BY <1>10, <2>1
  <2> QED BY <1>9, <2>1, <2>2, <2>3
<1> QED BY <1>1, <1>6, <1>7, <1>9, <1>10, <1>11, <1>12

(* The hash at place k of the sorted list. *)
LEMMA KthForm ==
  ASSUME NEW c, NEW h, HashesForm(c, h),
         NEW k \in 1..Cardinality(Vnodes(c))
  PROVE  /\ KthHash(c, h, k) \in Hashes(c, h) /\ KthHash(c, h, k) \in Points
         /\ UpTo(c, h, KthHash(c, h, k) - 1) < k
         /\ k <= UpTo(c, h, KthHash(c, h, k))
<1> DEFINE T == {x \in Points : k <= UpTo(c, h, x)}
<1>1. Points \subseteq Nat /\ HashSpace - 1 \in Points
  BY HashSpaceForm DEF Points
<1>2. Cardinality(Vnodes(c)) \in Nat
  BY VnodeForm
<1>3. T \in SUBSET Nat /\ T # {}
  <2>1. k <= UpTo(c, h, HashSpace - 1)
    BY <1>2, UpToForm
  <2> QED BY <1>1, <2>1
<1>4. PICK x \in T : \A y \in T : x <= y
  <2> HIDE DEF T
  <2> QED BY <1>3, Smallest
<1>5. x \in Points /\ x \in Nat /\ x - 1 \in Int /\ k <= UpTo(c, h, x)
  BY <1>1, <1>4
<1>6. UpTo(c, h, x - 1) < k
  <2>1. UpTo(c, h, x - 1) \in Nat
    BY <1>5, UpToForm
  <2>2. CASE x = 0
    BY <1>5, <2>2, UpToForm
  <2>3. CASE x # 0
    <3>1. x - 1 \in Points
      BY <1>5, <2>3, HashSpaceForm DEF Points
    <3>2. x - 1 \notin T
      BY <1>4, <1>5
    <3> QED BY <2>1, <3>1, <3>2
  <2> QED BY <2>2, <2>3
<1>7. x \in Hashes(c, h)
  <2>1. UpTo(c, h, x - 1) # UpTo(c, h, x)
    <3>1. UpTo(c, h, x - 1) \in Nat /\ UpTo(c, h, x) \in Nat
      BY <1>5, UpToForm
    <3> QED BY <1>5, <1>6, <3>1
  <2> QED BY <1>5, <2>1, UpToForm
<1>8. \E y \in Hashes(c, h) : UpTo(c, h, y - 1) < k /\ k <= UpTo(c, h, y)
  BY <1>5, <1>6, <1>7
<1>9. /\ KthHash(c, h, k) \in Hashes(c, h)
      /\ UpTo(c, h, KthHash(c, h, k) - 1) < k
      /\ k <= UpTo(c, h, KthHash(c, h, k))
  BY <1>8 DEF KthHash
<1> QED BY <1>9, VnodeForm

LEMMA SortedForm ==
  ASSUME NEW c, NEW h, HashesForm(c, h)
  PROVE  /\ Sorted(c, h) \in Seq(Points)
         /\ Len(Sorted(c, h)) = Cardinality(Vnodes(c))
         /\ \A a, b \in 1..Cardinality(Vnodes(c)) :
              a <= b => Sorted(c, h)[a] <= Sorted(c, h)[b]
         /\ Listed(Sorted(c, h)) = Hashes(c, h)
<1> DEFINE n == Cardinality(Vnodes(c))
           s == Sorted(c, h)
<1>1. n \in Nat \ {0}
  BY VnodeForm
<1>2. s = [k \in 1..n |-> KthHash(c, h, k)]
  BY DEF Sorted
<1>3. \A k \in 1..n : s[k] \in Points /\ s[k] \in Hashes(c, h) /\ s[k] \in Int
  BY <1>2, KthForm, HashSpaceForm DEF Points
<1>4. \A k \in 1..n : UpTo(c, h, s[k] - 1) < k /\ k <= UpTo(c, h, s[k])
  BY <1>2, KthForm
<1> HIDE DEF s, n
<1>5. s \in Seq(Points) /\ Len(s) = n /\ DOMAIN s = 1..n
  BY <1>1, <1>2, <1>3
<1>6. ASSUME NEW a \in 1..n, NEW b \in 1..n, a <= b PROVE s[a] <= s[b]
  <2> SUFFICES ASSUME ~(s[a] <= s[b]) PROVE FALSE
    OBVIOUS
  <2>1. s[a] - 1 \in Int /\ s[b] <= s[a] - 1
    BY <1>3
  <2>2. UpTo(c, h, s[b]) <= UpTo(c, h, s[a] - 1)
    BY <1>3, <2>1, UpToForm
  <2>3. UpTo(c, h, s[b]) \in Nat /\ UpTo(c, h, s[a] - 1) \in Nat
    BY <1>3, <2>1, UpToForm
  <2> QED BY <1>1, <1>4, <1>6, <2>2, <2>3
<1>7. ASSUME NEW x \in Hashes(c, h) PROVE x \in Listed(s)
  <2> DEFINE k == UpTo(c, h, x)
  <2>1. x \in Int /\ x <= HashSpace - 1
    BY VnodeForm, HashSpaceForm DEF Points
  <2>2. k \in Nat /\ UpTo(c, h, x - 1) \in Nat /\ UpTo(c, h, x - 1) < k
    BY <2>1, UpToForm
  <2>3. k <= n
    BY <2>1, UpToForm, HashSpaceForm DEF n
  <2>4. k \in 1..n
    BY <1>1, <2>2, <2>3
  <2>5. UpTo(c, h, s[k] - 1) < k /\ k <= UpTo(c, h, s[k]) /\ s[k] \in Int
    BY <1>3, <1>4, <2>4
  <2>6. s[k] <= x
    <3> SUFFICES ASSUME ~(s[k] <= x) PROVE FALSE
      OBVIOUS
    <3>1. x <= s[k] - 1 /\ s[k] - 1 \in Int
      BY <2>1, <2>5
    <3>2. k <= UpTo(c, h, s[k] - 1) /\ UpTo(c, h, s[k] - 1) \in Nat
      BY <2>1, <3>1, UpToForm
    <3> QED BY <2>2, <2>5, <3>2
  <2>7. x <= s[k]
    <3> SUFFICES ASSUME ~(x <= s[k]) PROVE FALSE
      OBVIOUS
    <3>1. s[k] <= x - 1 /\ x - 1 \in Int
      BY <2>1, <2>5
    <3>2. UpTo(c, h, s[k]) <= UpTo(c, h, x - 1) /\ UpTo(c, h, s[k]) \in Nat
      BY <2>5, <3>1, UpToForm
    <3> QED BY <2>2, <2>5, <3>2
  <2>8. s[k] = x
    BY <2>1, <2>5, <2>6, <2>7
  <2> HIDE DEF k
  <2> QED BY <1>5, <2>4, <2>8 DEF Listed
<1>8. Listed(s) = Hashes(c, h)
  BY <1>3, <1>5, <1>7 DEF Listed
<1> QED BY <1>5, <1>6, <1>8 DEF n, s

LEMMA OwnerForm ==
  ASSUME NEW c, NEW h, HashesForm(c, h)
  PROVE  Owner(c, h) \in [Hashes(c, h) -> Listed(c.nodes)]
<1> DEFINE at(x) == {v[1] : v \in {w \in Vnodes(c) : HashOf(c, h, w) = x}}
           last(x) == CHOOSE a \in at(x) : \A b \in at(x) : b <= a
<1>1. ASSUME NEW x \in Hashes(c, h) PROVE c.nodes[last(x)] \in Listed(c.nodes)
  <2>1. at(x) \in SUBSET (0..Len(c.nodes)) /\ at(x) # {} /\ Len(c.nodes) \in Nat
    BY VnodeForm DEF Hashes
  <2>2. \A a \in at(x) : c.nodes[a] \in Listed(c.nodes)
    BY VnodeForm
  <2> HIDE DEF at
  <2>3. \E a \in at(x) : \A b \in at(x) : b <= a
    BY <2>1, Largest
  <2>4. last(x) \in at(x)
    BY <2>3
  <2> QED BY <2>2, <2>4
<1>2. Owner(c, h) = [x \in Hashes(c, h) |-> c.nodes[last(x)]]
  BY DEF Owner
<1> HIDE DEF at, last
<1> QED BY <1>1, <1>2

-----------------------------------------------------------------------------
(* The walk meets the hashes in the order of their distance from the       *)
(* target: from the first that is not smaller to the last of all, and from *)
(* the first of all, a whole round further, to the last that is smaller.   *)
LEMMA AwayForm ==
  ASSUME NEW x \in Points, NEW t \in Points
  PROVE  /\ x >= t => Away(x, t) = x - t
         /\ x < t => Away(x, t) = x - t + HashSpace
         /\ Away(x, t) \in Nat
<1>1. /\ HashSpace \in Nat \ {0} /\ x \in 0..(HashSpace - 1) /\ t \in 0..(HashSpace - 1)
  BY HashSpaceForm DEF Points
<1>2. CASE x >= t
  <2>1. x - t \in 0..(HashSpace - 1)
    BY <1>1, <1>2
  <2>2. (x - t) % HashSpace = x - t
    BY <1>1, <2>1
  <2> QED BY <1>1, <1>2, <2>1, <2>2 DEF Away
<1>3. CASE x < t
  <2>1. x - t + HashSpace \in 0..(HashSpace - 1)
    BY <1>1, <1>3
  <2>2. (x - t) % HashSpace = x - t + HashSpace
    BY <1>1, <1>3, <2>1
  <2> QED BY <1>1, <1>3, <2>1, <2>2 DEF Away
<1> QED BY <1>1, <1>2, <1>3

LEMMA AwayApart ==
  ASSUME NEW x \in Points, NEW y \in Points, NEW t \in Points, Away(x, t) = Away(y, t)
  PROVE  x = y
<1>1. /\ HashSpace \in Nat \ {0} /\ x \in 0..(HashSpace - 1)
      /\ y \in 0..(HashSpace - 1) /\ t \in 0..(HashSpace - 1)
  BY HashSpaceForm DEF Points
<1>2. /\ x >= t => Away(x, t) = x - t
      /\ x < t => Away(x, t) = x - t + HashSpace
      /\ y >= t => Away(y, t) = y - t
      /\ y < t => Away(y, t) = y - t + HashSpace
  BY AwayForm
<1> QED BY <1>1, <1>2

LEMMA AwayOrder ==
  ASSUME NEW x \in Points, NEW y \in Points, NEW t \in Points,
         (t <= x /\ (x <= y \/ y < t)) \/ (y < t /\ x <= y)
  PROVE  Away(x, t) <= Away(y, t)
<1>1. /\ HashSpace \in Nat \ {0} /\ x \in 0..(HashSpace - 1)
      /\ y \in 0..(HashSpace - 1) /\ t \in 0..(HashSpace - 1)
  BY HashSpaceForm DEF Points
<1>2. /\ x >= t => Away(x, t) = x - t
      /\ x < t => Away(x, t) = x - t + HashSpace
      /\ y >= t => Away(y, t) = y - t
      /\ y < t => Away(y, t) = y - t + HashSpace
  BY AwayForm
<1> QED BY <1>1, <1>2

(* The place of the ring the walk is at. *)
LEMMA VisitedForm ==
  ASSUME RingForm, NEW m \in 0..(Len(keys) - 1)
  PROVE  /\ Visited(m) \in 1..Len(keys)
         /\ Visited(m) = IF start + m <= Len(keys) THEN start + m
                         ELSE start + m - Len(keys)
<1>1. Len(keys) \in Nat \ {0} /\ start \in 1..Len(keys)
  BY DEF RingForm
<1> DEFINE L == Len(keys)
<1>2. CASE start + m <= L
  <2>1. start - 1 + m \in 0..(L - 1)
    BY <1>1, <1>2
  <2>2. (start - 1 + m) % L = start - 1 + m
    BY <1>1, <2>1
  <2> QED BY <1>1, <1>2, <2>1, <2>2 DEF Visited
<1>3. CASE ~(start + m <= L)
  <2>1. start - 1 + m - L \in 0..(L - 1)
    BY <1>1, <1>3
  <2>2. (start - 1 + m) % L = start - 1 + m - L
    BY <1>1, <1>3, <2>1
  <2> QED BY <1>1, <1>3, <2>1, <2>2 DEF Visited
<1> QED BY <1>2, <1>3

LEMMA SearchForm ==
  ASSUME Len(keys) \in Nat \ {0}, NEW t
  PROVE  \/ Search(t) = 1 /\ \A k \in 1..Len(keys) : ~(keys[k] >= t)
         \/ /\ Search(t) \in 1..Len(keys) /\ keys[Search(t)] >= t
            /\ \A k \in 1..Len(keys) : keys[k] >= t => Search(t) <= k
<1> DEFINE from == {k \in 1..Len(keys) : keys[k] >= t}
<1>1. CASE from = {}
  BY <1>1 DEF Search
<1>2. CASE from # {}
  <2>1. from \in SUBSET Nat
    OBVIOUS
  <2>2. Search(t) = CHOOSE k \in from : \A m \in from : k <= m
    BY <1>2 DEF Search
  <2>3. Search(t) \in from /\ \A m \in from : Search(t) <= m
    <3> HIDE DEF from
    <3>1. \E k \in from : \A m \in from : k <= m
      BY <1>2, <2>1, Smallest
    <3> QED BY <2>2, <3>1
  <2> QED BY <2>3
<1> QED BY <1>1, <1>2

AwayAt(m) == Away(keys[Visited(m)], target)

LEMMA Clockwise ==
  ASSUME RingForm, RingSorted, target \in Points, start = Search(target),
         NEW a \in 0..(Len(keys) - 1), NEW b \in 0..(Len(keys) - 1), a <= b
  PROVE  AwayAt(a) <= AwayAt(b)
<1> DEFINE L == Len(keys)
           p == Visited(a)
           q == Visited(b)
<1>1. L \in Nat \ {0} /\ start \in 1..L
  BY DEF RingForm
<1>2. /\ p \in 1..L /\ p = IF start + a <= L THEN start + a ELSE start + a - L
      /\ q \in 1..L /\ q = IF start + b <= L THEN start + b ELSE start + b - L
  BY VisitedForm
<1>3. /\ keys[p] \in Points /\ keys[q] \in Points
      /\ p <= q => keys[p] <= keys[q]
  BY <1>2 DEF RingSorted
<1>4. AwayAt(a) = Away(keys[p], target) /\ AwayAt(b) = Away(keys[q], target)
  BY DEF AwayAt
<1>5. /\ HashSpace \in Nat \ {0} /\ target \in 0..(HashSpace - 1) /\ target \in Points
      /\ keys[p] \in 0..(HashSpace - 1) /\ keys[q] \in 0..(HashSpace - 1)
  BY <1>3, HashSpaceForm DEF Points
<1>6. CASE start = 1 /\ \A k \in 1..L : ~(keys[k] >= target)
  <2>1. p <= q /\ ~(keys[p] >= target) /\ ~(keys[q] >= target)
    BY <1>1, <1>2, <1>6
  <2> HIDE DEF p, q
  <2>2. keys[q] < target /\ keys[p] <= keys[q]
    BY <1>3, <1>5, <2>1
  <2> QED BY <1>3, <1>4, <1>5, <2>2, AwayOrder
<1>7. CASE /\ keys[start] >= target
           /\ \A k \in 1..L : keys[k] >= target => start <= k
  <2>1. keys[start] \in 0..(HashSpace - 1)
    BY <1>1, HashSpaceForm DEF RingSorted, Points
  <2>2. ASSUME NEW k \in 1..L PROVE keys[k] >= target <=> start <= k
    <3>1. start <= k => keys[start] <= keys[k]
      BY <1>1 DEF RingSorted
    <3>2. keys[k] \in 0..(HashSpace - 1)
      BY HashSpaceForm DEF RingSorted, Points
    <3> QED BY <1>5, <1>7, <2>1, <3>1, <3>2
  <2>3. /\ keys[p] >= target <=> start <= p
        /\ keys[q] >= target <=> start <= q
    BY <1>2, <2>2
  <2>4. (start <= p /\ p <= q) \/ (start <= p /\ q < start) \/ (p < start /\ q < start /\ p <= q)
    BY <1>1, <1>2
  <2>5. p \in 1..L /\ q \in 1..L
    BY <1>2
  <2> HIDE DEF p, q, L
  <2>6. CASE start <= p /\ p <= q
    <3>1. keys[p] >= target /\ keys[q] >= target /\ keys[p] <= keys[q]
      BY <1>1, <1>3, <2>3, <2>5, <2>6
    <3> QED BY <1>3, <1>4, <1>5, <3>1, AwayOrder
  <2>7. CASE start <= p /\ q < start
    <3>1. keys[p] >= target /\ keys[q] < target
      BY <1>1, <1>5, <2>3, <2>5, <2>7
    <3> QED BY <1>3, <1>4, <1>5, <3>1, AwayOrder
  <2>8. CASE p < start /\ q < start /\ p <= q
    <3>1. keys[q] < target /\ keys[p] <= keys[q]
      BY <1>1, <1>3, <1>5, <2>3, <2>5, <2>8
    <3> QED BY <1>3, <1>4, <1>5, <3>1, AwayOrder
  <2> QED BY <2>4, <2>6, <2>7, <2>8
<1> QED BY <1>1, <1>6, <1>7, SearchForm

-----------------------------------------------------------------------------
(* How far a node of the ring is from the target, by its nearest hash. *)
Far(n) == Distance(owner, n, target)

LEMMA OnRingForm ==
  ASSUME RingForm, RingSorted
  PROVE  /\ DOMAIN owner = Listed(keys) /\ Listed(keys) \subseteq Points
         /\ Listed(keys) = {keys[k] : k \in 1..Len(keys)}
         /\ OnRing = {owner[x] : x \in DOMAIN owner}
         /\ OnRing \subseteq Listed(conf.nodes)
         /\ IsFiniteSet(OnRing)
<1>1. DOMAIN keys = 1..Len(keys) /\ Len(keys) \in Nat
  BY DEF RingForm
<1>2. Listed(keys) = {keys[k] : k \in 1..Len(keys)}
  BY <1>1 DEF Listed
<1>3. DOMAIN owner = Listed(keys) /\ Listed(keys) \subseteq Points
  BY <1>2 DEF RingSorted
<1>4. OnRing = {owner[x] : x \in DOMAIN owner} /\ OnRing \subseteq Listed(conf.nodes)
  BY <1>2, <1>3 DEF RingSorted, OnRing, At
<1>5. IsFiniteSet(OnRing)
  <2> DEFINE f == [k \in 1..Len(keys) |-> At(k)]
  <2>1. f \in Surjection(1..Len(keys), OnRing)
    BY DEF OnRing, Surjection
  <2>2. IsFiniteSet(1..Len(keys))
    BY <1>1, FirstNumbers
  <2> HIDE DEF f
  <2> QED BY <2>1, <2>2, FS_Surjection
<1> QED BY <1>2, <1>3, <1>4, <1>5

LEMMA FarForm ==
  ASSUME RingForm, RingSorted, target \in Points, NEW n \in OnRing
  PROVE  /\ Far(n) \in Nat
         /\ \E k \in 1..Len(keys) : At(k) = n /\ Far(n) = Away(keys[k], target)
         /\ \A k \in 1..Len(keys) : At(k) = n => Far(n) <= Away(keys[k], target)
<1> DEFINE own == {y \in DOMAIN owner : owner[y] = n}
           ds == {Away(x, target) : x \in own}
<1>1. own = {keys[k] : k \in {j \in 1..Len(keys) : At(j) = n}}
  BY OnRingForm DEF At
<1>2. ds \in SUBSET Nat /\ ds # {}
  <2>1. own \subseteq Points /\ own # {}
    BY <1>1, OnRingForm DEF OnRing
  <2> HIDE DEF own
  <2> QED BY <2>1, AwayForm
<1>3. Far(n) = CHOOSE d \in ds : \A e \in ds : d <= e
  BY DEF Far, Distance
<1>4. Far(n) \in ds /\ \A e \in ds : Far(n) <= e
  <2> HIDE DEF ds
  <2>1. \E d \in ds : \A e \in ds : d <= e
    BY <1>2, Smallest
  <2> QED BY <1>3, <2>1
<1>5. Far(n) \in Nat
  BY <1>2, <1>4
<1>6. PICK k \in 1..Len(keys) : At(k) = n /\ Far(n) = Away(keys[k], target)
  BY <1>1, <1>4
<1>7. ASSUME NEW j \in 1..Len(keys), At(j) = n
      PROVE  Far(n) <= Away(keys[j], target)
  <2>1. keys[j] \in own
    BY <1>1, <1>7
  <2>2. Away(keys[j], target) \in ds
    BY <2>1
  <2> QED BY <1>4, <2>2
<1> QED BY <1>5, <1>6, <1>7

LEMMA FarApart ==
  ASSUME RingForm, RingSorted, target \in Points,
         NEW n \in OnRing, NEW m \in OnRing, Far(n) = Far(m)
  PROVE  n = m
<1>1. PICK k \in 1..Len(keys) : At(k) = n /\ Far(n) = Away(keys[k], target)
  BY FarForm
<1>2. PICK j \in 1..Len(keys) : At(j) = m /\ Far(m) = Away(keys[j], target)
  BY FarForm
<1>3. keys[k] \in Points /\ keys[j] \in Points
  BY DEF RingSorted
<1>4. keys[k] = keys[j]
  BY <1>1, <1>2, <1>3, AwayApart
<1> QED BY <1>1, <1>2, <1>4 DEF At

(* The nodes selected are the nearest, nearest first. *)
NearestFirst ==
  /\ \A a, b \in 1..Len(selected) : a < b => Far(selected[a]) < Far(selected[b])
  /\ \A a \in 1..Len(selected), n \in OnRing \ Listed(selected) :
       Far(selected[a]) < Far(n)

(* The node met next is the nearest of those not selected. *)
LEMMA MetNext ==
  ASSUME RingInv, RingSorted, target \in Points, start = Search(target),
         i < Len(keys), At(Visited(i)) \notin Listed(selected),
         NEW n \in OnRing \ Listed(selected)
  PROVE  /\ Far(At(Visited(i))) = AwayAt(i)
         /\ AwayAt(i) <= Far(n)
<1> DEFINE L == Len(keys)
<1>1. /\ L \in Nat \ {0} /\ start \in 1..L /\ i \in 0..(L - 1)
  BY DEF RingInv, RingForm, WalkForm
<1>2. ASSUME NEW o \in OnRing \ Listed(selected), NEW k \in 1..L, At(k) = o
      PROVE  AwayAt(i) <= Away(keys[k], target)
  <2>1. PICK m \in 0..(L - 1) : Visited(m) = k
    BY <1>1, OneRound DEF Visited
  <2>2. i <= m
    <3> SUFFICES ASSUME ~(i <= m) PROVE FALSE
      OBVIOUS
    <3>1. m \in 0..(i - 1)
      BY <1>1
    <3> QED BY <1>2, <2>1, <3>1 DEF RingInv, AllVisited
  <2>3. AwayAt(i) <= AwayAt(m)
    BY <1>1, <2>2, Clockwise DEF RingInv
  <2> QED BY <2>1, <2>3 DEF AwayAt
<1>3. ASSUME NEW o \in OnRing \ Listed(selected) PROVE AwayAt(i) <= Far(o)
  <2>1. PICK k \in 1..L : At(k) = o /\ Far(o) = Away(keys[k], target)
    BY FarForm DEF RingInv
  <2> QED BY <1>2, <2>1
<1>4. Visited(i) \in 1..L
  BY <1>1, VisitedForm DEF RingInv
<1>5. At(Visited(i)) \in OnRing \ Listed(selected)
  BY <1>4 DEF OnRing
<1>6. Far(At(Visited(i))) <= AwayAt(i) /\ Far(At(Visited(i))) \in Nat
  BY <1>4, <1>5, FarForm DEF RingInv, AwayAt
<1>7. AwayAt(i) \in Nat
  <2>1. keys[Visited(i)] \in Points
    BY <1>4 DEF RingSorted
  <2> QED BY <2>1, AwayForm DEF AwayAt
<1> QED BY <1>3, <1>5, <1>6, <1>7

-----------------------------------------------------------------------------
(* The invariant of a lookup: the walk on a sorted ring, from the place    *)
(* the search found, holds the nearest nodes at every step.                *)
PlacedInv == /\ RingInv /\ RingSorted /\ NearestFirst
             /\ HashesForm(conf, hash)
             /\ owner = Owner(conf, hash)
             /\ target \in Points
             /\ pc = "idle" => selected = <<>>
             /\ pc # "idle" => start = Search(target)

LEMMA InitPlaced == Init => PlacedInv
<1> SUFFICES ASSUME Init PROVE PlacedInv
  OBVIOUS
<1>1. HashesForm(conf, hash) /\ keys = Sorted(conf, hash) /\ owner = Owner(conf, hash)
  BY DEF Init, HashesForm
<1>2. RingSorted
  <2>1. /\ keys \in Seq(Points)
        /\ \A a, b \in 1..Len(keys) : a <= b => keys[a] <= keys[b]
        /\ Listed(keys) = Hashes(conf, hash)
    BY <1>1, SortedForm
  <2>2. owner \in [Listed(keys) -> Listed(conf.nodes)]
    BY <1>1, <2>1, OwnerForm
  <2> QED BY <2>1, <2>2 DEF RingSorted
<1>3. selected = <<>> /\ Len(selected) = 0 /\ pc = "idle" /\ target = 0
  BY DEF Init
<1>4. NearestFirst
  BY <1>3 DEF NearestFirst
<1>5. target \in Points
  BY <1>3, HashSpaceForm DEF Points
<1> QED BY <1>1, <1>2, <1>3, <1>4, <1>5, InitInv DEF PlacedInv

LEMMA LookupPlaced ==
  ASSUME PlacedInv, NEW t \in Points, Lookup(t)
  PROVE  PlacedInv'
<1>1. /\ RingInv' /\ HashesForm(conf, hash)' /\ target' \in Points
      /\ (owner = Owner(conf, hash))'
      /\ selected' = <<>> /\ Len(selected') = 0 /\ pc' = "walk"
  BY LookupInv DEF PlacedInv, Lookup, HashesForm
<1>2. RingSorted'
  BY DEF PlacedInv, RingSorted, Lookup
<1>3. NearestFirst'
  BY <1>1 DEF NearestFirst
<1>4. start' = Search(target)'
  BY DEF Lookup, Search
<1> QED BY <1>1, <1>2, <1>3, <1>4 DEF PlacedInv

LEMMA VisitPlaced ==
  ASSUME PlacedInv, Visit
  PROVE  PlacedInv'
<1> DEFINE n == At(Visited(i))
<1>1. /\ selected' = IF n \in Listed(selected) THEN selected ELSE Append(selected, n)
      /\ i < Len(keys) /\ pc = "walk"
      /\ UNCHANGED <<conf, hash, keys, owner, target, start, pc>>
  BY DEF Visit, Walking, At, Visited
<1>2. RingInv'
  BY VisitInv DEF PlacedInv
<1>3. /\ RingSorted' /\ HashesForm(conf, hash)' /\ (target \in Points)'
      /\ (owner = Owner(conf, hash))'
      /\ (pc = "idle" => selected = <<>>)' /\ (pc # "idle" => start = Search(target))'
  BY <1>1 DEF PlacedInv, RingSorted, HashesForm, Search
<1>4. OnRing' = OnRing /\ \A m : Far(m)' = Far(m)
  BY <1>1 DEF OnRing, At, Far
<1>5. CASE n \in Listed(selected)
  <2>1. UNCHANGED <<selected, OnRing>> /\ \A m : Far(m)' = Far(m)
    BY <1>1, <1>4, <1>5
  <2>2. NearestFirst'
    BY <2>1 DEF PlacedInv, NearestFirst
  <2> QED BY <1>2, <1>3, <2>2 DEF PlacedInv
<1>6. CASE n \notin Listed(selected)
  <2>1. selected' = Append(selected, n)
    BY <1>1, <1>6
  <2>2. selected \in Seq(OnRing) /\ Len(selected) \in Nat /\ RingForm /\ RingSorted
        /\ target \in Points /\ start = Search(target) /\ RingInv /\ i \in 0..(Len(keys) - 1)
    BY <1>1 DEF PlacedInv, RingInv, RingForm, WalkForm
  <2>3. n \in OnRing
    BY <2>2, VisitedForm DEF OnRing
  <2>4. \A m \in OnRing : Far(m) \in Nat
    BY <2>2, FarForm
  <2>5. ASSUME NEW m \in OnRing \ Listed(selected), m # n
        PROVE  Far(n) < Far(m)
    <3>1. Far(n) <= Far(m)
      BY <1>1, <1>6, <2>2, <2>3, MetNext
    <3>2. Far(n) # Far(m)
      BY <2>2, <2>3, <2>5, FarApart
    <3> QED BY <2>3, <2>4, <3>1, <3>2
  <2> DEFINE L == Len(selected)
  <2>6. /\ Len(selected') = L + 1 /\ selected'[L + 1] = n
        /\ \A a \in 1..L : selected'[a] = selected[a]
        /\ L \in Nat
    BY <2>1, <2>2
  <2>7. Listed(selected') = Listed(selected) \cup {n}
    BY <2>1, <2>2, <2>3 DEF Listed
  <2>8. \A a, b \in 1..L : a < b => Far(selected[a]) < Far(selected[b])
    BY DEF PlacedInv, NearestFirst
  <2>9. \A a \in 1..L, m \in OnRing \ Listed(selected) : Far(selected[a]) < Far(m)
    BY DEF PlacedInv, NearestFirst
  <2> HIDE DEF L, n
  <2>10. ASSUME NEW a \in 1..(L + 1), NEW b \in 1..(L + 1), a < b
         PROVE  Far(selected'[a]) < Far(selected'[b])
    <3>1. a \in 1..L /\ (b \in 1..L \/ b = L + 1)
      BY <2>6, <2>10
    <3>2. CASE b \in 1..L
      BY <2>6, <2>8, <2>10, <3>1, <3>2
    <3>3. CASE b = L + 1
      BY <1>6, <2>3, <2>6, <2>9, <3>1, <3>3
    <3> QED BY <3>1, <3>2, <3>3
  <2>11. ASSUME NEW a \in 1..(L + 1), NEW m \in OnRing \ Listed(selected')
         PROVE  Far(selected'[a]) < Far(m)
    <3>1. m \in OnRing \ Listed(selected) /\ m # n
      BY <2>7, <2>11
    <3>2. CASE a \in 1..L
      BY <2>6, <2>9, <3>1, <3>2
    <3>3. CASE a = L + 1
      BY <2>5, <2>6, <3>1, <3>3
    <3> QED BY <2>6, <3>2, <3>3
  <2>12. NearestFirst'
    BY <1>4, <2>6, <2>10, <2>11 DEF NearestFirst
  <2> QED BY <1>2, <1>3, <2>12 DEF PlacedInv
<1> QED BY <1>5, <1>6

LEMMA NextPlaced == PlacedInv /\ [Next]_vars => PlacedInv'
<1> SUFFICES ASSUME PlacedInv, [Next]_vars PROVE PlacedInv'
  OBVIOUS
<1>1. ASSUME NEW t \in Points, Lookup(t) PROVE PlacedInv'
  BY <1>1, LookupPlaced
<1>2. ASSUME Visit PROVE PlacedInv'
  BY <1>2, VisitPlaced
<1>3. ASSUME Return \/ Used \/ UNCHANGED vars PROVE PlacedInv'
  <2>1. /\ UNCHANGED <<conf, hash, keys, owner, target, start, selected>>
        /\ pc' = "idle" <=> pc = "idle"
    BY <1>3 DEF Return, Used, vars
  <2>2. RingInv'
    BY NextInv DEF PlacedInv
  <2>3. /\ RingSorted' /\ HashesForm(conf, hash)' /\ (target \in Points)'
        /\ (owner = Owner(conf, hash))'
    BY <2>1 DEF PlacedInv, RingSorted, HashesForm
  <2>4. (pc = "idle" => selected = <<>>)' /\ (pc # "idle" => start = Search(target))'
    BY <2>1 DEF PlacedInv, Search
  <2>5. NearestFirst'
    BY <2>1 DEF PlacedInv, NearestFirst, Far, OnRing, At
  <2> QED BY <2>2, <2>3, <2>4, <2>5 DEF PlacedInv
<1> QED BY <1>1, <1>2, <1>3 DEF Next

-----------------------------------------------------------------------------
(* The nodes selected, counted. *)
LEMMA SelectedForm ==
  ASSUME PlacedInv
  PROVE  /\ Len(selected) \in Nat /\ DOMAIN selected = 1..Len(selected)
         /\ \A k \in 1..Len(selected) : selected[k] \in OnRing
         /\ Listed(selected) = {selected[j] : j \in 1..Len(selected)}
         /\ Listed(selected) \subseteq OnRing
         /\ IsFiniteSet(OnRing)
<1>1. selected \in Seq(OnRing)
  BY DEF PlacedInv, RingInv, WalkForm
<1>2. IsFiniteSet(OnRing)
  BY OnRingForm DEF PlacedInv, RingInv
<1> QED BY <1>1, <1>2 DEF Listed

LEMMA SomeCount ==
  ASSUME PlacedInv, NEW J \in SUBSET (1..Len(selected))
  PROVE  LET S == {selected[j] : j \in J}
         IN  IsFiniteSet(S) /\ Cardinality(S) = Cardinality(J)
<1> DEFINE S == {selected[j] : j \in J}
           f == [j \in J |-> selected[j]]
<1>1. Len(selected) \in Nat
  BY SelectedForm
<1>2. \A a, b \in J : selected[a] = selected[b] => a = b
  BY DEF PlacedInv, RingInv, Distinct
<1>3. f \in Bijection(J, S)
  <2>1. f \in [J -> S] /\ \A j \in J : f[j] = selected[j]
    OBVIOUS
  <2>2. \A s \in S : \E j \in J : f[j] = s
    OBVIOUS
  <2> HIDE DEF S, f
  <2>3. f \in Injection(J, S)
    BY <1>2, <2>1 DEF Injection, IsInjective
  <2>4. f \in Surjection(J, S)
    BY <2>1, <2>2 DEF Surjection
  <2> QED BY <2>3, <2>4 DEF Bijection
<1>4. IsFiniteSet(J)
  <2>1. IsFiniteSet(1..Len(selected))
    BY <1>1, FirstNumbers
  <2> QED BY <2>1, FS_Subset
<1> HIDE DEF S, f
<1>5. ExistsBijection(J, S)
  BY <1>3 DEF ExistsBijection
<1>6. IsFiniteSet(S) /\ Cardinality(S) = Cardinality(J)
  BY <1>4, <1>5, FS_Bijection
<1> QED BY <1>6 DEF S

LEMMA FirstCount ==
  ASSUME PlacedInv, NEW k \in 0..Len(selected)
  PROVE  LET S == {selected[j] : j \in 1..k}
         IN  IsFiniteSet(S) /\ Cardinality(S) = k
<1>1. Len(selected) \in Nat /\ k \in Nat
  BY SelectedForm
<1>2. 1..k \in SUBSET (1..Len(selected))
  BY <1>1
<1>3. Cardinality(1..k) = k
  BY <1>1, FirstNumbers
<1> QED BY <1>2, <1>3, SomeCount

(* Who is at least as near as a node. *)
Before(n) == {m \in OnRing : Far(m) <= Far(n)}

LEMMA BeforeSelected ==
  ASSUME PlacedInv, NEW k \in 1..Len(selected)
  PROVE  /\ Before(selected[k]) = {selected[j] : j \in 1..k}
         /\ Cardinality(Before(selected[k])) = k
<1>1. /\ Len(selected) \in Nat /\ selected[k] \in OnRing
      /\ \A j \in 1..Len(selected) : selected[j] \in OnRing
      /\ Listed(selected) = {selected[j] : j \in 1..Len(selected)}
  BY SelectedForm
<1>2. \A m \in OnRing : Far(m) \in Nat
  BY FarForm DEF PlacedInv, RingInv
<1>3. /\ \A a, b \in 1..Len(selected) : a < b => Far(selected[a]) < Far(selected[b])
      /\ \A m \in OnRing \ Listed(selected) : Far(selected[k]) < Far(m)
  BY DEF PlacedInv, NearestFirst
<1>4. ASSUME NEW j \in 1..k PROVE selected[j] \in Before(selected[k])
  <2>1. j \in 1..Len(selected) /\ (j = k \/ j < k)
    BY <1>1
  <2>2. Far(selected[j]) <= Far(selected[k])
    BY <1>1, <1>2, <1>3, <2>1
  <2> QED BY <1>1, <2>1, <2>2 DEF Before
<1>5. ASSUME NEW m \in Before(selected[k]) PROVE \E j \in 1..k : m = selected[j]
  <2>1. m \in OnRing /\ Far(m) <= Far(selected[k]) /\ Far(m) \in Nat
    BY <1>2 DEF Before
  <2>2. m \in Listed(selected)
    BY <1>1, <1>2, <1>3, <2>1
  <2>3. PICK j \in 1..Len(selected) : m = selected[j]
    BY <1>1, <2>2
  <2>4. j <= k
    BY <1>1, <1>2, <1>3, <2>1, <2>3
  <2> QED BY <2>3, <2>4
<1>6. Before(selected[k]) = {selected[j] : j \in 1..k}
  BY <1>4, <1>5
<1>7. k \in 0..Len(selected)
  BY <1>1
<1> QED BY <1>6, <1>7, FirstCount

LEMMA BeforeOthers ==
  ASSUME PlacedInv, NEW n \in OnRing \ Listed(selected)
  PROVE  Cardinality(Before(n)) \in Nat /\ Cardinality(Before(n)) > Len(selected)
<1>1. /\ Len(selected) \in Nat /\ Len(selected) \in 0..Len(selected)
      /\ Listed(selected) = {selected[j] : j \in 1..Len(selected)}
      /\ Listed(selected) \subseteq OnRing /\ IsFiniteSet(OnRing)
  BY SelectedForm
<1>2. \A m \in OnRing : Far(m) \in Nat
  BY FarForm DEF PlacedInv, RingInv
<1>3. \A a \in 1..Len(selected) : Far(selected[a]) < Far(n)
  BY DEF PlacedInv, NearestFirst
<1>4. Listed(selected) \cup {n} \subseteq Before(n)
  <2>1. ASSUME NEW a \in 1..Len(selected) PROVE selected[a] \in Before(n)
    <3>1. selected[a] \in OnRing
      BY <1>1
    <3> QED BY <1>2, <1>3, <3>1 DEF Before
  <2>2. n \in Before(n)
    BY <1>2 DEF Before
  <2> QED BY <1>1, <2>1, <2>2
<1>5. IsFiniteSet(Before(n))
  BY <1>1, FS_Subset DEF Before
<1>6. IsFiniteSet(Listed(selected)) /\ Cardinality(Listed(selected)) = Len(selected)
  BY <1>1, FirstCount
<1>7. Cardinality(Listed(selected) \cup {n}) = Len(selected) + 1
  BY <1>6, FS_AddElement
<1>8. Cardinality(Listed(selected) \cup {n}) <= Cardinality(Before(n))
  BY <1>4, <1>5, FS_Subset
<1>9. Cardinality(Before(n)) \in Nat
  BY <1>5, FS_CardinalityType
<1> QED BY <1>1, <1>7, <1>8, <1>9

(* As many are selected as there are to be copies, or nodes on the ring.   *)
LEMMA SelectedSize ==
  ASSUME PlacedInv, pc = "done"
  PROVE  /\ Cardinality(OnRing) \in Nat
         /\ Len(selected) = IF Factor(conf) < Cardinality(OnRing)
                            THEN Factor(conf) ELSE Cardinality(OnRing)
<1> DEFINE L == Len(selected)
           F == Factor(conf)
<1>1. /\ L \in Nat /\ L \in 0..L
      /\ Listed(selected) = {selected[j] : j \in 1..L}
      /\ Listed(selected) \subseteq OnRing /\ IsFiniteSet(OnRing)
      /\ F \in Nat /\ L <= F
  BY SelectedForm DEF PlacedInv, RingInv, RingForm, WalkForm
<1>2. Cardinality(OnRing) \in Nat
  BY <1>1, FS_CardinalityType
<1>3. Cardinality(Listed(selected)) = L
  BY <1>1, FirstCount
<1>4. L <= Cardinality(OnRing)
  <2>1. IsFiniteSet(OnRing) /\ Listed(selected) \in SUBSET OnRing
    BY <1>1
  <2>2. Cardinality(Listed(selected)) <= Cardinality(OnRing)
    BY <2>1, FS_Subset
  <2> QED BY <1>3, <2>2
<1>5. L = F \/ OnRing = Listed(selected)
  <2>1. L = F \/ \A k \in 1..Len(keys) : owner[keys[k]] \in Listed(selected)
    BY InvDistinct DEF PlacedInv, PlacementDistinct
  <2> QED BY <1>1, <2>1 DEF OnRing, At
<1>6. L \in Nat /\ F \in Nat /\ L <= F /\ (L = F \/ Cardinality(OnRing) = L)
  BY <1>1, <1>3, <1>5
<1> HIDE DEF L, F
<1> QED BY <1>2, <1>4, <1>6 DEF L, F

LEMMA InvNearest == PlacedInv => PlacesNearest
<1> SUFFICES ASSUME PlacedInv, pc = "done"
             PROVE  selected = Nearest(owner, target, Factor(conf))
  BY DEF PlacesNearest
<1> DEFINE L == Len(selected)
           F == Factor(conf)
           on == {owner[x] : x \in DOMAIN owner}
           before(n) == {m \in on : Distance(owner, m, target) <= Distance(owner, n, target)}
           size == IF F < Cardinality(on) THEN F ELSE Cardinality(on)
<1>1. on = OnRing /\ \A n : before(n) = Before(n)
  BY OnRingForm DEF PlacedInv, RingInv, Before, Far
<1>2. /\ L \in Nat /\ DOMAIN selected = 1..L
      /\ \A k \in 1..L : selected[k] \in OnRing
      /\ Listed(selected) = {selected[j] : j \in 1..L}
  BY SelectedForm
<1>3. size = L
  BY <1>1, SelectedSize
<1>4. ASSUME NEW k \in 1..L
      PROVE  (CHOOSE n \in on : Cardinality(before(n)) = k) = selected[k]
  <2>1. selected[k] \in OnRing /\ Cardinality(Before(selected[k])) = k
    BY <1>2, BeforeSelected
  <2>2. ASSUME NEW n \in OnRing, Cardinality(Before(n)) = k PROVE n = selected[k]
    <3>1. n \in Listed(selected)
      <4> SUFFICES ASSUME n \notin Listed(selected) PROVE FALSE
        OBVIOUS
      <4>1. Cardinality(Before(n)) > L
        BY BeforeOthers
      <4> QED BY <1>2, <2>2, <4>1
    <3>2. PICK j \in 1..L : n = selected[j]
      BY <1>2, <3>1
    <3>3. Cardinality(Before(n)) = j
      BY <3>2, BeforeSelected
    <3> QED BY <2>2, <3>2, <3>3
  <2>3. (CHOOSE n \in OnRing : Cardinality(Before(n)) = k) = selected[k]
    BY <2>1, <2>2
  <2> QED BY <1>1, <2>3
<1>5. Nearest(owner, target, F) =
        [k \in 1..size |-> CHOOSE n \in on : Cardinality(before(n)) = k]
  BY DEF Nearest
<1>6. selected = [k \in 1..L |-> selected[k]]
  <2>1. selected \in Seq(OnRing)
    BY DEF PlacedInv, RingInv, WalkForm
  <2> QED BY <1>2, <2>1
<1> HIDE DEF L, on, before, size, F
<1>7. Nearest(owner, target, F) = [k \in 1..L |-> selected[k]]
  BY <1>3, <1>4, <1>5
<1> QED BY <1>6, <1>7 DEF F

LEMMA InvType == PlacedInv => TypeOK
<1> SUFFICES ASSUME PlacedInv PROVE TypeOK
  OBVIOUS
<1>1. /\ conf \in Configs
      /\ hash \in [Listed(conf.nodes) \X (1..conf.vnodes) -> Points]
      /\ owner \in [Listed(keys) -> Listed(conf.nodes)]
      /\ target \in Points /\ start \in 1..Len(keys) /\ i \in 0..Len(keys)
      /\ pc \in {"idle", "walk", "done"} /\ Len(keys) > 0
  BY DEF PlacedInv, HashesForm, RingSorted, RingInv, RingForm, WalkForm
<1>2. keys \in Seq(Points)
  BY DEF PlacedInv, RingSorted, RingInv, RingForm
<1>3. selected \in Seq(Listed(conf.nodes))
  <2>1. selected \in Seq(OnRing) /\ OnRing \subseteq Listed(conf.nodes)
    BY OnRingForm DEF PlacedInv, RingInv, WalkForm
  <2> QED BY <2>1
<1> QED BY <1>1, <1>2, <1>3 DEF TypeOK

(* A lookup returns the nearest nodes clockwise, nearest first (GetNodes), *)
(* for every list of nodes, repetitions included, every number of virtual  *)
(* nodes and every hash function, collisions included: the sorted list,    *)
(* the binary search, the wrap-around and the walk that skips what it has  *)
(* seen come to what distances on a ring define.                           *)
THEOREM PlacesTheNearest == Spec => []PlacesNearest
BY InitPlaced, NextPlaced, InvNearest, PTL DEF Spec

(* The ring is never empty, every hash on it has a node of the list, and   *)
(* the walk's index stays within one round of it (NewHashRing, GetNodes).  *)
THEOREM TypeCorrect == Spec => []TypeOK
BY InitPlaced, NextPlaced, InvType, PTL DEF Spec

-----------------------------------------------------------------------------
(* A configuration without one of its nodes. *)
Place(S, a) == Cardinality({b \in S : b <= a})

(* Numbers are enumerated by how many of them are not greater. *)
LEMMA Places ==
  ASSUME NEW N \in Nat, NEW S \in SUBSET (1..N)
  PROVE  LET at(k) == CHOOSE a \in S : Place(S, a) = k
         IN  /\ Cardinality(S) \in 0..N
             /\ \A k \in 1..Cardinality(S) : at(k) \in S
             /\ \A a \in S : Place(S, a) \in 1..Cardinality(S) /\ at(Place(S, a)) = a
<1> DEFINE U(a) == {b \in S : b <= a}
           K == Cardinality(S)
<1>0. \A b \in S : b \in Nat /\ 1 <= b /\ b <= N
  OBVIOUS
<1>1. IsFiniteSet(1..N) /\ Cardinality(1..N) = N
  BY FirstNumbers
<1>2. IsFiniteSet(S) /\ K \in Nat /\ K <= N
  <2>1. IsFiniteSet(S) /\ K <= Cardinality(1..N)
    BY <1>1, FS_Subset
  <2> QED BY <1>1, <2>1, FS_CardinalityType
<1>3. \A a : U(a) \subseteq S /\ IsFiniteSet(U(a)) /\ Place(S, a) = Cardinality(U(a))
  BY <1>2, FS_Subset DEF Place
<1>4. \A a : Place(S, a) \in Nat /\ Place(S, a) <= K
  <2> TAKE a
  <2>1. Cardinality(U(a)) \in Nat
    BY <1>3, FS_CardinalityType
  <2>2. Cardinality(U(a)) <= K
    <3> HIDE DEF U
    <3> QED BY <1>2, <1>3, FS_Subset
  <2> QED BY <1>3, <2>1, <2>2
<1>5. ASSUME NEW a \in S, NEW b \in S, a < b PROVE Place(S, a) < Place(S, b)
  <2>1. U(a) \cup {b} \subseteq U(b) /\ b \notin U(a)
    <3>1. \A e \in S : e <= a => e <= b
      BY <1>0, <1>5
    <3>2. b <= b /\ ~(b <= a)
      BY <1>0, <1>5
    <3> QED BY <3>1, <3>2
  <2>2. Cardinality(U(a) \cup {b}) = Cardinality(U(a)) + 1
    BY <1>3, <2>1, FS_AddElement
  <2>3. Cardinality(U(a) \cup {b}) <= Cardinality(U(b))
    BY <1>3, <2>1, FS_Subset
  <2> HIDE DEF U
  <2> QED BY <1>3, <1>4, <2>2, <2>3
<1>6. ASSUME NEW a \in S PROVE Place(S, a) \in 1..K
  <2>1. U(a) # {}
    BY <1>6
  <2>2. Place(S, a) # 0
    BY <1>3, <2>1, FS_EmptySet
  <2> QED BY <1>2, <1>4, <2>2
<1>7. ASSUME NEW k \in 1..K PROVE \E a \in S : Place(S, a) = k
  <2> DEFINE T == {a \in 0..N : k <= Place(S, a)}
  <2>1. N \in T
    <3>1. U(N) = S
      BY <1>0
    <3> QED BY <1>2, <1>3, <3>1
  <2>2. PICK a \in T : \A b \in T : a <= b
    <3>1. T \in SUBSET Nat
      OBVIOUS
    <3> HIDE DEF T
    <3> QED BY <2>1, <3>1, Smallest
  <2>3. a # 0
    <3>1. U(0) = {}
      <4>1. \A b \in S : ~(b <= 0)
        BY <1>0
      <4> QED BY <4>1
    <3>2. Place(S, 0) = 0
      BY <1>3, <3>1, FS_EmptySet
    <3> QED BY <2>2, <3>2
  <2>4. a \in 1..N /\ k <= Place(S, a) /\ ~(k <= Place(S, a - 1))
    <3>1. a \in 0..N /\ a - 1 \notin T
      BY <2>2
    <3> QED BY <2>2, <2>3, <3>1
  <2>5. a \in S
    <3> SUFFICES ASSUME a \notin S PROVE FALSE
      OBVIOUS
    <3>1. U(a) = U(a - 1)
      <4>1. \A b \in S : b <= a <=> b <= a - 1
        BY <1>0, <2>4
      <4> QED BY <4>1
    <3> HIDE DEF U
    <3> QED BY <1>3, <2>4, <3>1
  <2>6. U(a) = U(a - 1) \cup {a} /\ a \notin U(a - 1)
    <3>1. \A b \in S : b <= a <=> b <= a - 1 \/ b = a
      BY <1>0, <2>4
    <3>2. ~(a <= a - 1)
      BY <2>4
    <3> QED BY <2>5, <3>1, <3>2
  <2>7. Cardinality(U(a)) = Cardinality(U(a - 1)) + 1
    <3>1. IsFiniteSet(U(a - 1))
      BY <1>3
    <3> HIDE DEF U
    <3> QED BY <2>6, <3>1, FS_AddElement
  <2>8. Place(S, a) = Place(S, a - 1) + 1
    BY <1>3, <2>7
  <2>9. Place(S, a) = k
    BY <1>2, <1>4, <2>4, <2>8
  <2> QED BY <2>5, <2>9
<1> DEFINE at(k) == CHOOSE a \in S : Place(S, a) = k
<1>8. \A k \in 1..K : at(k) \in S
  BY <1>7
<1>9. ASSUME NEW a \in S PROVE at(Place(S, a)) = a
  <2>1. \A b \in S : Place(S, b) = Place(S, a) => b = a
    <3>1. ASSUME NEW b \in S, Place(S, b) = Place(S, a), b # a PROVE FALSE
      <4>1. a < b \/ b < a
        BY <3>1
      <4>2. Place(S, a) \in Nat /\ Place(S, b) \in Nat
        BY <1>4
      <4> QED BY <1>5, <3>1, <4>1, <4>2
    <3> QED BY <3>1
  <2> QED BY <2>1
<1> QED BY <1>2, <1>6, <1>8, <1>9

LEMMA WithoutForm ==
  ASSUME NEW c \in Configs, NEW n
  PROVE  LET w == Without(c, n)
         IN  /\ w.vnodes = c.vnodes /\ w.factor = c.factor
             /\ Len(w.nodes) \in Nat /\ DOMAIN w.nodes = 1..Len(w.nodes)
             /\ Len(w.nodes) <= Len(c.nodes)
             /\ Listed(w.nodes) = Listed(c.nodes) \ {n}
<1> DEFINE others == {a \in DOMAIN c.nodes : c.nodes[a] # n}
           K == Cardinality(others)
           at(k) == CHOOSE a \in others : Place(others, a) = k
           s == [k \in 1..K |-> c.nodes[at(k)]]
<1>1. /\ c \in [nodes : Seq(NodeNames), vnodes : Nat \ {0}, factor : Int]
      /\ Len(c.nodes) \in Nat /\ DOMAIN c.nodes = 1..Len(c.nodes)
  BY ConfigsForm
<1>2. Without(c, n) = [c EXCEPT !.nodes = s]
  BY DEF Without, Place
<1>3. others \in SUBSET (1..Len(c.nodes))
  BY <1>1
<1>4. /\ K \in Nat /\ K <= Len(c.nodes)
      /\ \A k \in 1..K : at(k) \in others
      /\ \A a \in others : Place(others, a) \in 1..K /\ at(Place(others, a)) = a
  <2> HIDE DEF others
  <2> QED BY <1>1, <1>3, Places
<1>5. \A k \in 1..K : s[k] \in Listed(c.nodes) /\ s[k] # n
  <2>1. \A a \in others : c.nodes[a] \in Listed(c.nodes) /\ c.nodes[a] # n
    BY DEF Listed
  <2> HIDE DEF others, at
  <2> QED BY <1>4, <2>1
<1>6. ASSUME NEW m \in Listed(c.nodes) \ {n} PROVE \E k \in 1..K : s[k] = m
  <2>1. PICK a \in others : c.nodes[a] = m
    BY DEF Listed
  <2> HIDE DEF others, at
  <2>2. Place(others, a) \in 1..K /\ s[Place(others, a)] = m
    BY <1>4, <2>1
  <2> QED BY <2>2
<1> HIDE DEF others, at
<1>7. DOMAIN s = 1..K /\ s \in Seq({s[k] : k \in 1..K})
  BY <1>4
<1>8. Len(s) = K
  BY <1>4, <1>7
<1>9. Listed(s) = Listed(c.nodes) \ {n}
  <2> HIDE DEF s
  <2> QED BY <1>5, <1>6, <1>7 DEF Listed
<1>10. /\ Without(c, n).nodes = s
       /\ Without(c, n).vnodes = c.vnodes /\ Without(c, n).factor = c.factor
  <2> HIDE DEF s
  <2> QED BY <1>1, <1>2
<1> HIDE DEF s
<1> QED BY <1>4, <1>7, <1>8, <1>9, <1>10

LEMMA ListedCount ==
  ASSUME NEW s, Len(s) \in Nat, DOMAIN s = 1..Len(s)
  PROVE  /\ IsFiniteSet(Listed(s))
         /\ Cardinality(Listed(s)) \in Nat /\ Cardinality(Listed(s)) <= Len(s)
<1> DEFINE f == [k \in 1..Len(s) |-> s[k]]
<1>1. f \in [1..Len(s) -> Listed(s)] /\ \A x \in Listed(s) : \E k \in 1..Len(s) : f[k] = x
  BY DEF Listed
<1>2. IsFiniteSet(1..Len(s)) /\ Cardinality(1..Len(s)) = Len(s)
  BY FirstNumbers
<1> HIDE DEF f
<1>3. f \in Surjection(1..Len(s), Listed(s))
  BY <1>1 DEF Surjection
<1>4. IsFiniteSet(Listed(s)) /\ Cardinality(Listed(s)) <= Len(s)
  BY <1>2, <1>3, FS_Surjection
<1> QED BY <1>4, FS_CardinalityType

(* Where no two virtual nodes share a hash, a hash belongs to one node. *)
NoCollision == Cardinality(Hashes(conf, hash)) = Cardinality(DOMAIN hash)

LEMMA HashOfPair ==
  ASSUME NEW STATE c, NEW k, NEW j
  PROVE  HashOf(c, hash, <<k, j>>) = hash[<<c.nodes[k], j>>]
<1>1. \A v : HashOf(c, hash, v) = hash[<<c.nodes[v[1]], v[2]>>]
  BY Zenon DEF HashOf
<1> QED BY <1>1

LEMMA VnodesFinite ==
  ASSUME conf \in Configs
  PROVE  IsFiniteSet(1..conf.vnodes)
<1>1. conf.vnodes \in Int
  BY ConfigsForm
<1> QED BY <1>1, FirstNumbers

LEMMA HashOnce ==
  ASSUME PlacedInv, NoCollision,
         NEW m \in Listed(conf.nodes), NEW n \in Listed(conf.nodes),
         NEW a \in 1..conf.vnodes, NEW b \in 1..conf.vnodes,
         hash[<<m, a>>] = hash[<<n, b>>]
  PROVE  m = n
<1> DEFINE D == Listed(conf.nodes) \X (1..conf.vnodes)
           H == Hashes(conf, hash)
<1>1. /\ conf \in Configs /\ hash \in [D -> Points] /\ DOMAIN hash = D
      /\ Len(conf.nodes) \in Nat /\ DOMAIN conf.nodes = 1..Len(conf.nodes)
      /\ conf.vnodes \in Nat
  BY ConfigsForm DEF PlacedInv, HashesForm
<1>2. IsFiniteSet(D)
  <2>1. IsFiniteSet(Listed(conf.nodes))
    BY <1>1, ListedCount
  <2>2. IsFiniteSet(1..conf.vnodes)
    BY <1>1, VnodesFinite
  <2> QED BY <2>1, <2>2, FS_Product
<1>3. \A d \in D : hash[d] \in H
  <2> TAKE d \in D
  <2>1. PICK k \in DOMAIN conf.nodes, j \in 1..conf.vnodes : d = <<conf.nodes[k], j>>
    BY DEF Listed
  <2>2. <<k, j>> \in Vnodes(conf) /\ HashOf(conf, hash, <<k, j>>) = hash[d]
    <3>1. <<k, j>> \in Vnodes(conf)
      BY DEF Vnodes
    <3>2. HashOf(conf, hash, <<k, j>>) = hash[<<conf.nodes[k], j>>]
      BY HashOfPair
    <3> QED BY <2>1, <3>1, <3>2, Zenon
  <2> QED BY <2>2 DEF Hashes
<1>4. \A x \in H : \E d \in D : hash[d] = x
  <2> TAKE x \in H
  <2>1. PICK v \in Vnodes(conf) : HashOf(conf, hash, v) = x
    BY DEF Hashes
  <2>2. v[1] \in DOMAIN conf.nodes /\ v[2] \in 1..conf.vnodes
    BY <2>1 DEF Vnodes
  <2>3. <<conf.nodes[v[1]], v[2]>> \in D
    BY <2>2 DEF Listed
  <2>4. x = hash[<<conf.nodes[v[1]], v[2]>>]
    BY <2>1, Zenon DEF HashOf
  <2> QED BY <2>3, <2>4
<1>5. <<m, a>> \in D /\ <<n, b>> \in D
  OBVIOUS
<1>6. Cardinality(H) = Cardinality(D)
  BY <1>1 DEF NoCollision
<1> HIDE DEF D, H
<1>7. hash \in Surjection(D, H)
  <2>1. hash \in [D -> H]
    BY <1>1, <1>3
  <2> QED BY <1>4, <2>1 DEF Surjection
<1>8. hash \in Injection(D, H)
  BY <1>2, <1>6, <1>7, FS_Surjection
<1>9. <<m, a>> = <<n, b>>
  BY <1>1, <1>5, <1>8 DEF Injection, IsInjective
<1> QED BY <1>9

HashesOfNode(m) == {hash[<<m, j>>] : j \in 1..conf.vnodes}

(* Then the ring of a list depends on what it lists only. *)
LEMMA OwnedForm ==
  ASSUME PlacedInv, NoCollision,
         NEW c, c.vnodes = conf.vnodes, Listed(c.nodes) \subseteq Listed(conf.nodes),
         Len(c.nodes) \in Nat, DOMAIN c.nodes = 1..Len(c.nodes)
  PROVE  LET own == Owner(c, hash)
         IN  /\ {own[x] : x \in DOMAIN own} = Listed(c.nodes)
             /\ \A m \in Listed(c.nodes) :
                  {x \in DOMAIN own : own[x] = m} = HashesOfNode(m)
<1> DEFINE own == Owner(c, hash)
           at(x) == {v[1] : v \in {w \in Vnodes(c) : HashOf(c, hash, w) = x}}
           last(x) == CHOOSE a \in at(x) : \A b \in at(x) : b <= a
<1>1. own = [x \in Hashes(c, hash) |-> c.nodes[last(x)]]
  BY DEF Owner
<1>2. conf.vnodes \in Nat \ {0}
  BY ConfigsForm DEF PlacedInv, HashesForm
<1>3. ASSUME NEW x \in Hashes(c, hash)
      PROVE  /\ own[x] \in Listed(c.nodes)
             /\ x \in HashesOfNode(own[x])
  <2>1. at(x) \in SUBSET (0..Len(c.nodes)) /\ at(x) # {}
    <3>1. \A v \in Vnodes(c) : v[1] \in 1..Len(c.nodes)
      BY DEF Vnodes
    <3> QED BY <3>1 DEF Hashes
  <2>2. ASSUME NEW a \in at(x)
        PROVE  a \in DOMAIN c.nodes /\ x \in HashesOfNode(c.nodes[a])
    <3>1. PICK v \in Vnodes(c) : HashOf(c, hash, v) = x /\ v[1] = a
      OBVIOUS
    <3>2. v[1] \in DOMAIN c.nodes /\ v[2] \in 1..conf.vnodes
      BY DEF Vnodes
    <3>3. x = hash[<<c.nodes[a], v[2]>>]
      BY <3>1, Zenon DEF HashOf
    <3> QED BY <3>1, <3>2, <3>3 DEF HashesOfNode
  <2> HIDE DEF at
  <2>3. \E a \in at(x) : \A b \in at(x) : b <= a
    BY <2>1, Largest
  <2>4. last(x) \in at(x)
    BY <2>3
  <2> HIDE DEF last
  <2>5. own[x] = c.nodes[last(x)]
    BY <1>1
  <2> QED BY <2>2, <2>4, <2>5 DEF Listed
<1> HIDE DEF at, last
<1>4. DOMAIN own = Hashes(c, hash)
  BY <1>1
<1>5. ASSUME NEW m \in Listed(c.nodes), NEW j \in 1..conf.vnodes
      PROVE  hash[<<m, j>>] \in Hashes(c, hash)
  <2>1. PICK k \in DOMAIN c.nodes : m = c.nodes[k]
    BY DEF Listed
  <2>2. <<k, j>> \in Vnodes(c) /\ HashOf(c, hash, <<k, j>>) = hash[<<m, j>>]
    <3>1. <<k, j>> \in Vnodes(c)
      BY DEF Vnodes
    <3>2. HashOf(c, hash, <<k, j>>) = hash[<<c.nodes[k], j>>]
      BY HashOfPair
    <3> QED BY <2>1, <3>1, <3>2, Zenon
  <2> QED BY <2>2 DEF Hashes
<1> HIDE DEF own
<1>6. ASSUME NEW m \in Listed(c.nodes), NEW j \in 1..conf.vnodes
      PROVE  own[hash[<<m, j>>]] = m
  <2> DEFINE x == hash[<<m, j>>]
  <2>1. x \in Hashes(c, hash)
    BY <1>5
  <2>2. PICK b \in 1..conf.vnodes : x = hash[<<own[x], b>>]
    BY <1>3, <2>1 DEF HashesOfNode
  <2>3. own[x] \in Listed(conf.nodes) /\ m \in Listed(conf.nodes)
    BY <1>3, <2>1
  <2> QED BY <2>2, <2>3, HashOnce
<1>7. ASSUME NEW m \in Listed(c.nodes)
      PROVE  {x \in DOMAIN own : own[x] = m} = HashesOfNode(m)
  <2>1. \A x \in HashesOfNode(m) : x \in DOMAIN own /\ own[x] = m
    BY <1>4, <1>5, <1>6 DEF HashesOfNode
  <2>2. \A x \in DOMAIN own : own[x] = m => x \in HashesOfNode(m)
    BY <1>3, <1>4
  <2> QED BY <2>1, <2>2
<1>8. {own[x] : x \in DOMAIN own} = Listed(c.nodes)
  <2>1. \A x \in DOMAIN own : own[x] \in Listed(c.nodes)
    BY <1>3, <1>4
  <2>2. ASSUME NEW m \in Listed(c.nodes) PROVE \E x \in DOMAIN own : own[x] = m
    <3>1. 1 \in 1..conf.vnodes
      BY <1>2
    <3>2. hash[<<m, 1>>] \in DOMAIN own /\ own[hash[<<m, 1>>]] = m
      BY <1>4, <1>5, <1>6, <3>1
    <3> QED BY <3>2
  <2> QED BY <2>1, <2>2
<1> QED BY <1>7, <1>8 DEF own

(* Who is at least as near, of the others: strictly more for a node that   *)
(* is further away.                                                        *)
LEMMA RestOrder ==
  ASSUME PlacedInv, NEW n,
         NEW a \in OnRing \ {n}, NEW b \in OnRing \ {n}, Far(a) < Far(b)
  PROVE  Cardinality(Before(a) \ {n}) < Cardinality(Before(b) \ {n})
<1> DEFINE A == Before(a) \ {n}
           B == Before(b) \ {n}
<1>1. \A m \in OnRing : Far(m) \in Nat
  BY FarForm DEF PlacedInv, RingInv
<1>2. A \subseteq B
  <2>1. \A m \in OnRing : Far(m) <= Far(a) => Far(m) <= Far(b)
    BY <1>1
  <2> QED BY <2>1 DEF Before
<1>3. b \in B /\ b \notin A
  BY <1>1 DEF Before
<1>4. IsFiniteSet(B)
  <2>1. IsFiniteSet(OnRing) /\ B \in SUBSET OnRing
    BY SelectedForm DEF Before
  <2> HIDE DEF B
  <2> QED BY <2>1, FS_Subset
<1> HIDE DEF A, B
<1>5. IsFiniteSet(A) /\ Cardinality(A) <= Cardinality(B) /\ Cardinality(A) # Cardinality(B)
  BY <1>2, <1>3, <1>4, FS_Subset
<1>6. Cardinality(A) \in Nat /\ Cardinality(B) \in Nat
  BY <1>4, <1>5, FS_CardinalityType
<1>7. Cardinality(A) < Cardinality(B)
  BY <1>5, <1>6
<1> QED BY <1>7 DEF A, B

Kept(n, k) == {j \in 1..k : selected[j] # n}

LEMMA RestPlace ==
  ASSUME PlacedInv, NEW n, NEW k \in 1..Len(selected), selected[k] # n
  PROVE  /\ Cardinality(Kept(n, k)) = Cardinality(Before(selected[k]) \ {n})
         /\ Cardinality(Kept(n, k)) \in Nat \ {0}
         /\ Cardinality(Kept(n, k)) <= Cardinality(Kept(n, Len(selected)))
<1>1. Len(selected) \in Nat
  BY SelectedForm
<1>2. /\ Kept(n, k) \in SUBSET (1..Len(selected))
      /\ Kept(n, k) \in SUBSET Kept(n, Len(selected))
      /\ Kept(n, Len(selected)) \in SUBSET (1..Len(selected))
      /\ k \in Kept(n, k)
  BY <1>1 DEF Kept
<1>3. IsFiniteSet(1..Len(selected))
  BY <1>1, FirstNumbers
<1>4. IsFiniteSet(Kept(n, k)) /\ IsFiniteSet(Kept(n, Len(selected)))
  BY <1>2, <1>3, FS_Subset
<1>5. Before(selected[k]) \ {n} = {selected[j] : j \in Kept(n, k)}
  <2>1. Before(selected[k]) = {selected[j] : j \in 1..k}
    BY BeforeSelected
  <2> QED BY <2>1 DEF Kept
<1>6. Cardinality(Kept(n, k)) = Cardinality(Before(selected[k]) \ {n})
  BY <1>2, <1>5, SomeCount
<1>7. Cardinality(Kept(n, k)) \in Nat \ {0}
  BY <1>2, <1>4, FS_CardinalityType, FS_EmptySet
<1>8. Cardinality(Kept(n, k)) <= Cardinality(Kept(n, Len(selected)))
  BY <1>2, <1>4, FS_Subset
<1> QED BY <1>6, <1>7, <1>8

LEMMA RestCount ==
  ASSUME PlacedInv, NEW n \in OnRing
  PROVE  /\ Cardinality(Kept(n, Len(selected))) =
              IF n \in Listed(selected) THEN Len(selected) - 1 ELSE Len(selected)
         /\ Cardinality(OnRing \ {n}) = Cardinality(OnRing) - 1
         /\ n \notin Listed(selected) => Len(selected) <= Cardinality(OnRing) - 1
<1> DEFINE L == Len(selected)
<1>1. /\ L \in Nat /\ L \in 0..L /\ IsFiniteSet(OnRing)
      /\ Listed(selected) = {selected[j] : j \in 1..L}
      /\ Listed(selected) \subseteq OnRing
  BY SelectedForm
<1>2. IsFiniteSet(Listed(selected)) /\ Cardinality(Listed(selected)) = L
  BY <1>1, FirstCount
<1>3. Kept(n, L) \in SUBSET (1..L) /\ Listed(selected) \ {n} = {selected[j] : j \in Kept(n, L)}
  BY <1>1 DEF Kept
<1>4. Cardinality(Kept(n, L)) = Cardinality(Listed(selected) \ {n})
  BY <1>3, SomeCount
<1>5. Cardinality(Listed(selected) \ {n}) = IF n \in Listed(selected) THEN L - 1 ELSE L
  BY <1>2, FS_RemoveElement
<1>6. Cardinality(OnRing \ {n}) = Cardinality(OnRing) - 1 /\ IsFiniteSet(OnRing \ {n})
  BY <1>1, FS_RemoveElement
<1>7. ASSUME n \notin Listed(selected) PROVE L <= Cardinality(OnRing) - 1
  <2>1. Listed(selected) \in SUBSET (OnRing \ {n})
    BY <1>1, <1>7
  <2>2. Cardinality(Listed(selected)) <= Cardinality(OnRing \ {n})
    BY <1>6, <2>1, FS_Subset
  <2> QED BY <1>2, <1>6, <2>2
<1> HIDE DEF L
<1> QED BY <1>4, <1>5, <1>6, <1>7 DEF L

(* The ring without n: its other nodes, as far away as they were. *)
LEMMA RestForm ==
  ASSUME PlacedInv, NoCollision, NEW n \in Listed(conf.nodes)
  PROVE  LET w == Without(conf, n)
             own == Owner(w, hash)
         IN  /\ n \in OnRing
             /\ {own[x] : x \in DOMAIN own} = OnRing \ {n}
             /\ \A m \in OnRing \ {n} : Distance(own, m, target) = Far(m)
             /\ Len(w.nodes) \in Nat /\ Len(w.nodes) <= Len(conf.nodes)
             /\ Cardinality(OnRing \ {n}) <= Len(w.nodes)
             /\ w.factor = conf.factor
<1> DEFINE w == Without(conf, n)
           own == Owner(w, hash)
<1>1. /\ conf \in Configs /\ owner = Owner(conf, hash)
      /\ Len(conf.nodes) \in Nat /\ DOMAIN conf.nodes = 1..Len(conf.nodes)
  BY ConfigsForm DEF PlacedInv, HashesForm
<1>2. /\ w.vnodes = conf.vnodes /\ w.factor = conf.factor
      /\ Len(w.nodes) \in Nat /\ DOMAIN w.nodes = 1..Len(w.nodes)
      /\ Len(w.nodes) <= Len(conf.nodes)
      /\ Listed(w.nodes) = Listed(conf.nodes) \ {n}
  BY <1>1, WithoutForm
<1> HIDE DEF w
<1>3. /\ {owner[x] : x \in DOMAIN owner} = Listed(conf.nodes)
      /\ \A m \in Listed(conf.nodes) :
           {x \in DOMAIN owner : owner[x] = m} = HashesOfNode(m)
  <2> HIDE DEF own
  <2>1. Listed(conf.nodes) \subseteq Listed(conf.nodes)
    OBVIOUS
  <2> QED BY <1>1, <2>1, OwnedForm
<1>4. /\ {own[x] : x \in DOMAIN own} = Listed(w.nodes)
      /\ \A m \in Listed(w.nodes) : {x \in DOMAIN own : own[x] = m} = HashesOfNode(m)
  BY <1>2, OwnedForm
<1>5. OnRing = Listed(conf.nodes)
  BY <1>3, OnRingForm DEF PlacedInv, RingInv
<1>6. ASSUME NEW m \in OnRing \ {n} PROVE Distance(own, m, target) = Far(m)
  <2>1. {x \in DOMAIN own : own[x] = m} = {x \in DOMAIN owner : owner[x] = m}
    BY <1>2, <1>3, <1>4, <1>5
  <2> HIDE DEF own
  <2> QED BY <2>1 DEF Distance, Far
<1>7. Cardinality(OnRing \ {n}) <= Len(w.nodes)
  BY <1>2, <1>5, ListedCount
<1> QED BY <1>2, <1>4, <1>5, <1>6, <1>7 DEF w

LEMMA InvLostMoves == PlacedInv => OnlyTheLostMoves
<1> SUFFICES ASSUME PlacedInv, pc = "done", NoCollision,
                    NEW n \in Listed(conf.nodes), Len(Without(conf, n).nodes) >= 2
             PROVE  LET c == Without(conf, n)
                        now == Nearest(Owner(c, hash), target, Factor(c))
                        place(k) == Cardinality({j \in 1..k : selected[j] # n})
                    IN  /\ Len(now) - place(Len(selected)) \in {0, 1}
                        /\ \A k \in 1..Len(selected) :
                             selected[k] # n => now[place(k)] = selected[k]
  BY DEF OnlyTheLostMoves, NoCollision
<1> DEFINE w == Without(conf, n)
           own == Owner(w, hash)
           L == Len(selected)
           F == Factor(conf)
           G == Factor(w)
           C == Cardinality(OnRing)
           on == {own[x] : x \in DOMAIN own}
           before(m) == {e \in on : Distance(own, e, target) <= Distance(own, m, target)}
           size == IF G < Cardinality(on) THEN G ELSE Cardinality(on)
           now == Nearest(own, target, G)
<1>1. /\ n \in OnRing /\ on = OnRing \ {n}
      /\ \A m \in OnRing \ {n} : Distance(own, m, target) = Far(m)
      /\ Len(w.nodes) \in Nat /\ Len(w.nodes) <= Len(conf.nodes)
      /\ Cardinality(OnRing \ {n}) <= Len(w.nodes)
      /\ w.factor = conf.factor
  BY RestForm
<1>2. L \in Nat /\ \A k \in 1..L : selected[k] \in OnRing
  BY SelectedForm
<1>3. now = [k \in 1..size |-> CHOOSE m \in on : Cardinality(before(m)) = k]
  BY DEF Nearest
<1>4. \A m \in OnRing \ {n} : before(m) = Before(m) \ {n}
  BY <1>1 DEF Before
<1>5. C \in Nat /\ L = IF F < C THEN F ELSE C
  BY SelectedSize
<1>6. /\ Cardinality(Kept(n, L)) = IF n \in Listed(selected) THEN L - 1 ELSE L
      /\ Cardinality(on) = C - 1
      /\ n \notin Listed(selected) => L <= C - 1
  BY <1>1, RestCount
<1>7. /\ size \in Nat /\ Cardinality(Kept(n, L)) \in Nat
      /\ size - Cardinality(Kept(n, L)) \in {0, 1}
  <2>1. Len(conf.nodes) \in Nat /\ conf.factor \in Int /\ Len(conf.nodes) >= 2
    BY ConfigsForm DEF PlacedInv, HashesForm
  <2>2. /\ F = IF conf.factor < 2 THEN 2
               ELSE IF conf.factor > Len(conf.nodes) THEN Len(conf.nodes) ELSE conf.factor
        /\ G = IF conf.factor < 2 THEN 2
               ELSE IF conf.factor > Len(w.nodes) THEN Len(w.nodes) ELSE conf.factor
    BY <1>1 DEF Factor
  <2>3. /\ Len(w.nodes) \in Nat /\ Len(w.nodes) <= Len(conf.nodes) /\ Len(w.nodes) >= 2
        /\ C - 1 <= Len(w.nodes)
    BY <1>1, <1>6
  <2>4. C >= 1
    <3>1. IsFiniteSet(OnRing) /\ OnRing # {}
      BY <1>1, SelectedForm
    <3> QED BY <1>5, <3>1, FS_EmptySet
  <2>5. size = IF G < C - 1 THEN G ELSE C - 1
    BY <1>6
  <2> DEFINE K == Cardinality(Kept(n, L))
             N == Len(conf.nodes)
             M == Len(w.nodes)
  <2>6. (K = L - 1 \/ (K = L /\ L <= C - 1))
    BY <1>6
  <2>7. L >= 1
    BY <1>2, <1>5, <2>1, <2>2, <2>3, <2>4
  <2>8. /\ N \in Nat /\ M \in Nat /\ conf.factor \in Int
        /\ M >= 2 /\ M <= N /\ C - 1 <= M
    BY <2>1, <2>3
  <2> HIDE DEF w, L, F, G, C, size, K, N, M
  <2>9. size \in Nat /\ K \in Nat /\ size - K \in {0, 1}
    <3>1. F \in Nat /\ G \in Nat /\ G <= F /\ (G = F \/ (G = M /\ G < F))
      BY <2>2, <2>8 DEF N, M
    <3>2. size \in Nat /\ K \in Nat
      BY <1>2, <1>5, <2>4, <2>5, <2>6, <2>7, <3>1
    <3>3. CASE G = F
      BY <1>2, <1>5, <2>4, <2>5, <2>6, <3>1, <3>2, <3>3
    <3>4. CASE G = M /\ G < F
      BY <1>2, <1>5, <2>4, <2>5, <2>6, <2>8, <3>1, <3>2, <3>4
    <3> QED BY <3>1, <3>2, <3>3, <3>4
  <2> QED BY <2>9 DEF K
<1>8. Len(now) = size
  <2> HIDE DEF size, on, before, now
  <2> QED BY <1>3, <1>7
<1>9. ASSUME NEW k \in 1..L, selected[k] # n
      PROVE  now[Cardinality(Kept(n, k))] = selected[k]
  <2> DEFINE p == Cardinality(Kept(n, k))
             s == selected[k]
  <2>1. /\ p = Cardinality(Before(s) \ {n}) /\ p \in Nat \ {0}
        /\ p <= Cardinality(Kept(n, L))
    BY <1>9, RestPlace
  <2>2. s \in OnRing \ {n}
    BY <1>2, <1>9
  <2>3. ASSUME NEW m \in OnRing \ {n}, Cardinality(Before(m) \ {n}) = p
        PROVE  m = s
    <3>1. Far(m) \in Nat /\ Far(s) \in Nat
      BY <2>2, FarForm DEF PlacedInv, RingInv
    <3>2. ~(Far(m) < Far(s)) /\ ~(Far(s) < Far(m))
      <4>1. Far(m) < Far(s) =>
              Cardinality(Before(m) \ {n}) < Cardinality(Before(s) \ {n})
        BY <2>2, RestOrder
      <4>2. Far(s) < Far(m) =>
              Cardinality(Before(s) \ {n}) < Cardinality(Before(m) \ {n})
        BY <2>2, RestOrder
      <4> HIDE DEF p, s
      <4> QED BY <2>1, <2>3, <4>1, <4>2
    <3>3. Far(m) = Far(s)
      BY <3>1, <3>2
    <3> QED BY <2>2, <3>3, FarApart DEF PlacedInv, RingInv
  <2>4. p \in 1..size
    <3> HIDE DEF p, size, L
    <3> QED BY <1>7, <2>1
  <2> HIDE DEF p, s
  <2>5. \A m \in on : Cardinality(before(m)) = p <=> m = s
    BY <1>1, <1>4, <2>1, <2>2, <2>3
  <2>6. s \in on
    BY <1>1, <2>2
  <2> HIDE DEF on, before, size
  <2>7. (CHOOSE m \in on : Cardinality(before(m)) = p) = s
    BY <2>5, <2>6
  <2> QED BY <1>3, <2>4, <2>7 DEF p, s
<1> HIDE DEF now, size, w
<1> QED BY <1>7, <1>8, <1>9 DEF Kept, now, w

(* What consistent hashing is for: take a node off the list, and a path    *)
(* keeps the other nodes it had, in their order, with at most one more, at *)
(* the end (NewHashRing, GetNodes).  For lists with repetitions, and       *)
(* lists, factors and hash functions of any size, wherever no two virtual  *)
(* nodes share a hash.                                                     *)
THEOREM OthersStay == Spec => []OnlyTheLostMoves
BY InitPlaced, NextPlaced, InvLostMoves, PTL DEF Spec
=============================================================================
