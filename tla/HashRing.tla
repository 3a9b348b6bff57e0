------------------------------- MODULE HashRing -------------------------------
(***************************************************************************)
(* Placement in object-api (service.go: NewHashRing, GetNodes, placement). *)
(* The ring is built once, from the configured list of nodes; a lookup     *)
(* walks it clockwise from the hash of a storage path and collects nodes   *)
(* until it has as many as there are to be copies.                         *)
(*                                                                         *)
(* Hashes are numbers below HashSpace (2^64 in the code, FNV-1a): any      *)
(* assignment of hashes to virtual nodes is possible, collisions included, *)
(* and a node listed twice gets the same hashes twice.                     *)
(***************************************************************************)
EXTENDS Integers, Sequences, FiniteSets

CONSTANTS NodeNames,   \* names that may be listed in STORAGE_NODES
          HashSpace,   \* the number of hash values
          Configs      \* the configurations to start with

ASSUME HashSpaceForm == HashSpace \in Nat \ {0}
\* nodes: STORAGE_NODES, vnodes: virtual nodes of each (50 in the code),
\* factor: REPLICATION_FACTOR, any integer.  New refuses fewer than 2 nodes.
ASSUME ConfigsForm ==
  \A c \in Configs :
    /\ c \in [nodes : Seq(NodeNames), vnodes : Nat \ {0}, factor : Int]
    /\ Len(c.nodes) >= 2

VARIABLES conf,      \* the configuration
          hash,      \* hash[n, j]: the hash of virtual node j of node n
          keys,      \* the sorted hashes of the ring, with repetitions
          owner,     \* owner[h]: the node a hash of the ring belongs to
          target,    \* the hash of the storage path looked up
          start,     \* where the walk begins in keys
          i,         \* the number of keys the walk has visited
          selected,  \* the nodes found so far
          pc

vars == <<conf, hash, keys, owner, target, start, i, selected, pc>>

Points == 0..(HashSpace - 1)
Listed(s) == {s[a] : a \in DOMAIN s}

TypeOK == /\ conf \in Configs
          /\ hash \in [Listed(conf.nodes) \X (1..conf.vnodes) -> Points]
          /\ keys \in Seq(Points) /\ Len(keys) > 0
          /\ owner \in [Listed(keys) -> Listed(conf.nodes)]
          /\ target \in Points
          /\ start \in 1..Len(keys)
          /\ i \in 0..Len(keys)
          /\ selected \in Seq(Listed(conf.nodes))
          /\ pc \in {"idle", "walk", "done"}

-----------------------------------------------------------------------------
(* New: at least 2 copies, at most as many as there are nodes in the list. *)
(* GetNodes' own limits on count, and its empty answer, cannot bite after  *)
(* that.                                                                   *)
Factor(c) == IF c.factor < 2 THEN 2
             ELSE IF c.factor > Len(c.nodes) THEN Len(c.nodes) ELSE c.factor

(* The virtual nodes of list c, as positions in the list and numbers. *)
Vnodes(c) == (DOMAIN c.nodes) \X (1..c.vnodes)
HashOf(c, h, v) == h[c.nodes[v[1]], v[2]]
Hashes(c, h) == {HashOf(c, h, v) : v \in Vnodes(c)}

(* virtualNodes: a map; of two nodes with the same hash the later keeps it *)
(* (keys holds the hash twice).                                            *)
Owner(c, h) ==
  [x \in Hashes(c, h) |->
     LET at == {v[1] : v \in {w \in Vnodes(c) : HashOf(c, h, w) = x}}
     IN  c.nodes[CHOOSE a \in at : \A b \in at : b <= a]]

UpTo(c, h, x) == Cardinality({v \in Vnodes(c) : HashOf(c, h, v) <= x})
KthHash(c, h, k) ==
  CHOOSE x \in Hashes(c, h) : UpTo(c, h, x - 1) < k /\ k <= UpTo(c, h, x)

Sorted(c, h) == [k \in 1..Cardinality(Vnodes(c)) |-> KthHash(c, h, k)]

Init == /\ conf \in Configs
        /\ hash \in [Listed(conf.nodes) \X (1..conf.vnodes) -> Points]
        /\ keys = Sorted(conf, hash)
        /\ owner = Owner(conf, hash)
        /\ target = 0 /\ start = 1 /\ i = 0 /\ selected = <<>> /\ pc = "idle"

\* mutant: no wrap-around when every key is smaller.
Search_NoWrap(t) ==
  LET from == {k \in 1..(Len(keys) + 1) : k = Len(keys) + 1 \/ keys[k] >= t}
  IN  CHOOSE k \in from : \A m \in from : k <= m

\* mutant: keys[i] > target.
Search_Above(t) ==
  LET from == {k \in 1..Len(keys) : keys[k] > t}
  IN  IF from = {} THEN 1 ELSE CHOOSE k \in from : \A m \in from : k <= m

\* mutant: hash and modulo.
Search_Modulo(t) == (t % Len(keys)) + 1

(* sort.Search: the first key that is not smaller, the first of all if     *)
(* there is none.                                                          *)
Search(t) ==
  LET from == {k \in 1..Len(keys) : keys[k] >= t}
  IN  IF from = {} THEN 1 ELSE CHOOSE k \in from : \A m \in from : k <= m

Lookup(t) ==
  /\ pc = "idle"
  /\ target' = t /\ start' = Search(t) /\ pc' = "walk"
  /\ UNCHANGED <<conf, hash, keys, owner, i, selected>>

Walking == i < Len(keys) /\ Len(selected) < Factor(conf)

\* mutant: a node is taken again for its next virtual node.
Visit_SeenIgnored ==
  /\ pc = "walk" /\ Walking
  /\ selected' = Append(selected, owner[keys[((start - 1 + i) % Len(keys)) + 1]])
  /\ i' = i + 1
  /\ UNCHANGED <<conf, hash, keys, owner, target, start, pc>>

Visit ==
  LET n == owner[keys[((start - 1 + i) % Len(keys)) + 1]] IN
  /\ pc = "walk" /\ Walking
  /\ selected' = IF n \in Listed(selected) THEN selected ELSE Append(selected, n)
  /\ i' = i + 1
  /\ UNCHANGED <<conf, hash, keys, owner, target, start, pc>>

Return ==
  /\ pc = "walk" /\ ~Walking
  /\ pc' = "done"
  /\ UNCHANGED <<conf, hash, keys, owner, target, start, i, selected>>

(* The answer is used; the ring stays as it is, every lookup is the same. *)
Used == pc = "done" /\ UNCHANGED vars

Next == (\E t \in Points : Lookup(t)) \/ Visit \/ Return \/ Used

Spec == Init /\ [][Next]_vars

-----------------------------------------------------------------------------
(* Which nodes a path belongs to, without a walk: the nearest ones, where  *)
(* a node is as far as the nearest hash clockwise that it owns.            *)
Away(x, t) == (x - t) % HashSpace

Distance(own, n, t) ==
  LET ds == {Away(x, t) : x \in {y \in DOMAIN own : own[y] = n}}
  IN  CHOOSE d \in ds : \A e \in ds : d <= e

Nearest(own, t, count) ==
  LET on == {own[x] : x \in DOMAIN own}
      before(n) == {m \in on : Distance(own, m, t) <= Distance(own, n, t)}
      size == IF count < Cardinality(on) THEN count ELSE Cardinality(on)
  IN  [k \in 1..size |-> CHOOSE n \in on : Cardinality(before(n)) = k]

(* The list without a node: its k-th entry is the k-th of the others. *)
Without(c, n) ==
  LET others == {a \in DOMAIN c.nodes : c.nodes[a] # n}
      place(a) == Cardinality({b \in others : b <= a})
  IN  [c EXCEPT !.nodes = [k \in 1..Cardinality(others) |->
                             @[CHOOSE a \in others : place(a) = k]]]

(* No node is chosen twice, never more than asked for, and fewer only when *)
(* the whole ring has no other (GetNodes' loop: what Upload's rollback and *)
(* Delete rely on when they take the targets for distinct nodes).          *)
PlacementDistinct ==
  /\ \A a, b \in 1..Len(selected) : selected[a] = selected[b] => a = b
  /\ Len(selected) <= Factor(conf)
  /\ pc = "done" => \/ Len(selected) = Factor(conf)
                    \/ \A k \in 1..Len(keys) : owner[keys[k]] \in Listed(selected)

(* A lookup returns the nearest nodes clockwise, in that order, whatever   *)
(* the collisions and the repetitions in the list: the search, the         *)
(* wrap-around and the walk over repeated keys agree with the definition   *)
(* of a ring by distances (GetNodes).                                      *)
PlacesNearest ==
  pc = "done" => selected = Nearest(owner, target, Factor(conf))

(* What the ring is for: without a node, a path keeps the nodes it had,    *)
(* in their order, and at most one is added, at the end.  Where hashes     *)
(* collide a node may come out from under another one, so it is stated     *)
(* without collisions (NewHashRing and GetNodes).  object-api/README.md:8  *)
(* says "hash-and-modulo", which moves others as well: the code does not   *)
(* do what that line says, and this property says so.                      *)
OnlyTheLostMoves ==
  pc = "done" /\ Cardinality(Hashes(conf, hash)) = Cardinality(DOMAIN hash) =>
    \A n \in Listed(conf.nodes) :
      LET c == Without(conf, n)
          now == Nearest(Owner(c, hash), target, Factor(c))
          place(k) == Cardinality({j \in 1..k : selected[j] # n})
      IN  Len(c.nodes) >= 2 =>
            /\ Len(now) - place(Len(selected)) \in {0, 1}
            /\ \A k \in 1..Len(selected) :
                 selected[k] # n => now[place(k)] = selected[k]
=============================================================================
