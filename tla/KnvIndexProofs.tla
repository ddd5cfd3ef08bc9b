--------------------------- MODULE KnvIndexProofs ---------------------------
(***************************************************************************)
(* The hash table of a node holds its children, each once and in the slot  *)
(* of its tag and key, and the lookups answer what the list of children    *)
(* says: for every pool of nodes, every sizes of tables and every sequence *)
(* of edits.                                                               *)
(*                                                                         *)
(* Each operation of the table is shown to keep Indexes, the predicate     *)
(* that ties a table and its slots to the set of nodes it holds; then each *)
(* action is shown to keep IInv.                                           *)
(***************************************************************************)
EXTENDS KnvIndex, SumsProofs, FiniteSetTheorems

Pointers == Nodes \union {NULL}

\* The record on which the operations of a table work.
Well(x) ==
  /\ x = [T |-> x.T, next |-> x.next, tag |-> x.tag, key |-> x.key, ok |-> x.ok]
  /\ \E i \in DOMAIN Levels : x.T \in TableOf(Levels[i])
  /\ x.next \in [Nodes -> Pointers] /\ x.tag \in [Nodes -> Nat] /\ x.key \in [Nodes -> Nat]

\* The parts of a table.
LEMMA TableParts ==
  ASSUME NEW i \in DOMAIN Levels, NEW T \in TableOf(Levels[i])
  PROVE  /\ T = [sz |-> T.sz, nr |-> T.nr, bm |-> T.bm, ht |-> T.ht]
         /\ T.sz = Levels[i] /\ T.sz \in Nat \ {0} /\ T.nr \in Nat
         /\ T.bm \in SUBSET (0 .. T.sz - 1)
         /\ T.ht \in [0 .. T.sz - 1 -> Pointers]
<1>1. Levels[i] \in Nat \ {0}
  BY LevelsAssumption
<1> QED BY <1>1 DEF TableOf, Pointers

LEMMA WellParts ==
  ASSUME NEW x, Well(x)
  PROVE  /\ x.T = [sz |-> x.T.sz, nr |-> x.T.nr, bm |-> x.T.bm, ht |-> x.T.ht]
         /\ x.T.sz \in Nat \ {0} /\ x.T.nr \in Nat
         /\ x.T.bm \in SUBSET (0 .. x.T.sz - 1)
         /\ x.T.ht \in [0 .. x.T.sz - 1 -> Pointers]
<1>1. PICK i \in DOMAIN Levels : x.T \in TableOf(Levels[i])
  BY DEF Well
<1> QED BY <1>1, TableParts

LEMMA TableIs ==
  ASSUME NEW i \in DOMAIN Levels, NEW T,
         T = [sz |-> T.sz, nr |-> T.nr, bm |-> T.bm, ht |-> T.ht],
         T.sz = Levels[i], T.nr \in Nat, T.bm \in SUBSET (0 .. T.sz - 1),
         T.ht \in [0 .. T.sz - 1 -> Pointers]
  PROVE  T \in TableOf(Levels[i])
BY DEF TableOf, Pointers

\* A hash is a slot.
LEMMA HashType ==
  ASSUME NEW t \in Nat, NEW k \in Nat, NEW sz \in Nat \ {0}
  PROVE  Hash(t, k, sz) \in 0 .. sz - 1
BY DEF Hash

-----------------------------------------------------------------------------
(***************************************************************************)
(* Sequences without repetitions.                                          *)
(***************************************************************************)
\* A sequence made of a function.
LEMMA SeqOf ==
  ASSUME NEW S, NEW m \in Nat, NEW f \in [1 .. m -> S]
  PROVE  f \in Seq(S) /\ Len(f) = m /\ DOMAIN f = 1 .. m
OBVIOUS

LEMMA CountInterval ==
  ASSUME NEW m \in Nat
  PROVE  Cardinality(0 .. m - 1) = m
<1>1. 0 \in Int /\ m - 1 \in Int
  OBVIOUS
<1>2. Cardinality(0 .. m - 1) = IF 0 > m - 1 THEN 0 ELSE (m - 1) - 0 + 1
  BY <1>1, FS_Interval, Zenon
<1> QED BY <1>2

\* A sequence without repetitions is as long as its elements are many.
LEMMA DistinctSize ==
  ASSUME NEW q \in Seq(Nodes), Distinct(q)
  PROVE  /\ IsFiniteSet(ToSet(q)) /\ Cardinality(ToSet(q)) = Len(q)
         /\ Len(q) <= Cardinality(Nodes)
<1>1. ToSet(q) \in SUBSET Nodes
  BY DEF ToSet
<1>2. q \in Bijection(1 .. Len(q), ToSet(q))
  <2>1. q \in [1 .. Len(q) -> ToSet(q)]
    BY DEF ToSet
  <2>2. q \in Injection(1 .. Len(q), ToSet(q))
    BY <2>1 DEF Injection, Distinct, IsInjective
  <2>3. q \in Surjection(1 .. Len(q), ToSet(q))
    BY <2>1 DEF Surjection, ToSet
  <2> QED BY <2>2, <2>3 DEF Bijection
<1>3. IsFiniteSet(ToSet(q)) /\ Cardinality(ToSet(q)) <= Cardinality(Nodes)
  BY <1>1, NodesAssumption, FS_Subset
<1>4. Cardinality(ToSet(q)) = Len(q)
  <2>1. Len(q) \in Nat
    OBVIOUS
  <2> QED BY <1>2, <2>1, FS_CountingElements DEF ExistsBijection
<1> QED BY <1>3, <1>4

-----------------------------------------------------------------------------
(***************************************************************************)
(* Chains.                                                                 *)
(***************************************************************************)
IsHops(g, next, h, m) ==
  g = [i \in 0 .. m |-> IF i = 0 THEN h ELSE IF g[i-1] = NULL THEN NULL ELSE next[g[i-1]]]

LEMMA HopsExists ==
  ASSUME NEW next, NEW h, NEW n \in Nat
  PROVE  \E g : IsHops(g, next, h, n)
<1> DEFINE T == {m \in Nat : ~\E g : IsHops(g, next, h, m)}
<1> SUFFICES ASSUME T # {} PROVE FALSE
  OBVIOUS
<1>1. PICK m \in T : \A y \in T : m <= y
  BY LeastElement
<1>2. CASE m = 0
  <2> DEFINE g == [k \in 0 .. 0 |-> h]
  <2>1. IsHops(g, next, h, 0)
    BY DEF IsHops
  <2> QED BY <2>1, <1>1, <1>2
<1>3. CASE m # 0
  <2>1. m - 1 \in Nat /\ m - 1 \notin T
    BY <1>1, <1>3
  <2>2. PICK g : IsHops(g, next, h, m - 1)
    BY <2>1
  <2> DEFINE f == [k \in 0 .. m |->
                     IF k = m THEN IF g[m-1] = NULL THEN NULL ELSE next[g[m-1]] ELSE g[k]]
  <2>3. \A k \in 0 .. m - 1 :
          g[k] = IF k = 0 THEN h ELSE IF g[k-1] = NULL THEN NULL ELSE next[g[k-1]]
    BY <2>1, <2>2 DEF IsHops
  <2>4. ASSUME NEW k \in 0 .. m
        PROVE  f[k] = IF k = 0 THEN h ELSE IF f[k-1] = NULL THEN NULL ELSE next[f[k-1]]
    BY <2>1, <2>3, <1>3
  <2>5. IsHops(f, next, h, m)
    BY <2>4 DEF IsHops
  <2> QED BY <2>5, <1>1
<1> QED BY <1>2, <1>3

LEMMA HopsAre ==
  ASSUME NEW next, NEW h
  PROVE  /\ Cardinality(Nodes) \in Nat
         /\ \A i \in 0 .. Cardinality(Nodes) :
              Hops(next, h)[i] =
                IF i = 0 THEN h
                ELSE IF Hops(next, h)[i-1] = NULL THEN NULL ELSE next[Hops(next, h)[i-1]]
<1>1. Cardinality(Nodes) \in Nat
  BY NodesAssumption, FS_CardinalityType
<1> DEFINE g == CHOOSE g : IsHops(g, next, h, Cardinality(Nodes))
<1>2. IsHops(g, next, h, Cardinality(Nodes))
  BY <1>1, HopsExists, Zenon
<1>3. Hops(next, h) = g
  BY DEF Hops, IsHops
<1> HIDE DEF g
<1> QED BY <1>1, <1>2, <1>3 DEF IsHops

\* Hops along a linked chain visit its entries, then NULL.
LEMMA HopsLinked ==
  ASSUME NEW q \in Seq(Nodes), Distinct(q), NEW next, NEW h, Linked(h, next, q)
  PROVE  \A i \in 0 .. Cardinality(Nodes) : Hops(next, h)[i] = At(q, i + 1)
<1> DEFINE N == Cardinality(Nodes)
           hop == Hops(next, h)
           T == {i \in 0 .. N : hop[i] # At(q, i + 1)}
<1>1. /\ N \in Nat
      /\ \A i \in 0 .. N : hop[i] = IF i = 0 THEN h
                                    ELSE IF hop[i-1] = NULL THEN NULL ELSE next[hop[i-1]]
  BY HopsAre
<1>2. T \in SUBSET Nat
  BY <1>1
<1> SUFFICES ASSUME T # {} PROVE FALSE
  OBVIOUS
<1>3. PICK m \in T : \A y \in T : m <= y
  <2> HIDE DEF T
  <2> QED BY <1>2, LeastElement
<1> HIDE DEF hop
<1>4. m # 0
  BY <1>1, <1>3 DEF Linked
<1>5. m \in 0 .. N /\ m - 1 \in 0 .. N /\ hop[m-1] = At(q, m)
  BY <1>1, <1>3, <1>4
<1>6. hop[m] = IF hop[m-1] = NULL THEN NULL ELSE next[hop[m-1]]
  BY <1>1, <1>4, <1>5
<1>7. CASE m <= Len(q)
  <2>1. m \in DOMAIN q /\ q[m] \in Nodes /\ At(q, m) = q[m]
    BY <1>5, <1>4, <1>7 DEF At
  <2>2. hop[m] = next[q[m]]
    BY <2>1, <1>5, <1>6, NodesAssumption
  <2>3. hop[m] = At(q, m + 1)
    BY <2>1, <2>2 DEF Linked
  <2> QED BY <2>3, <1>3
<1>8. CASE m > Len(q)
  <2>1. At(q, m) = NULL /\ At(q, m + 1) = NULL
    BY <1>5, <1>8 DEF At
  <2> QED BY <2>1, <1>5, <1>6, <1>3
<1> QED BY <1>7, <1>8, <1>5

LEMMA ChainIs ==
  ASSUME NEW q \in Seq(Nodes), Distinct(q), NEW next, NEW h, Linked(h, next, q)
  PROVE  Chain(next, h) = q /\ ~Circular(next, h)
<1> DEFINE N == Cardinality(Nodes)
           hop == Hops(next, h)
           I == {i \in 0 .. N - 1 : hop[i] # NULL}
<1>1. N \in Nat /\ Len(q) \in Nat /\ Len(q) <= N
  BY DistinctSize, HopsAre
<1>2. \A i \in 0 .. N : hop[i] = At(q, i + 1)
  BY HopsLinked
<1> HIDE DEF hop
<1>3. I = 0 .. Len(q) - 1
  <2>1. ASSUME NEW i \in 0 .. N - 1 PROVE hop[i] # NULL <=> i <= Len(q) - 1
    <3>1. hop[i] = At(q, i + 1)
      BY <1>2, <1>1
    <3>2. CASE i <= Len(q) - 1
      <4>1. At(q, i + 1) = q[i+1] /\ q[i+1] \in Nodes
        BY <3>2 DEF At
      <4> QED BY <4>1, <3>1, <3>2, NodesAssumption
    <3>3. CASE ~(i <= Len(q) - 1)
      BY <3>3, <3>1, <1>1 DEF At
    <3> QED BY <3>2, <3>3
  <2> QED BY <2>1, <1>1
<1>4. Cardinality(I) = Len(q)
  <2>1. Cardinality(0 .. Len(q) - 1) = Len(q)
    BY <1>1, CountInterval
  <2> QED BY <2>1, <1>3
<1>5. Chain(next, h) = [i \in 1 .. Len(q) |-> hop[i-1]]
  BY <1>4 DEF Chain, hop
<1>6. \A i \in 1 .. Len(q) : hop[i-1] = q[i]
  BY <1>1, <1>2 DEF At
<1>7. q = [i \in 1 .. Len(q) |-> q[i]]
  OBVIOUS
<1>8. Chain(next, h) = q
  BY <1>5, <1>6, <1>7
<1>9. hop[N] = NULL
  BY <1>1, <1>2 DEF At
<1> QED BY <1>8, <1>9 DEF Circular, hop

-----------------------------------------------------------------------------
(***************************************************************************)
(* Tables.                                                                 *)
(***************************************************************************)
\* The slots of a table are its chains, and none runs in a circle.
LEMMA SlotsAre ==
  ASSUME NEW x, Well(x), NEW c, NEW S, Indexes(x, c, S)
  PROVE  /\ c = Slots(x)
         /\ \A i \in 0 .. x.T.sz - 1 : Slot(x.T, x.next, i) = c[i]
         /\ Straight(x.T, x.next)
<1>1. ASSUME NEW i \in 0 .. x.T.sz - 1
      PROVE  Slot(x.T, x.next, i) = c[i] /\ (i \in x.T.bm => ~Circular(x.next, x.T.ht[i]))
  <2>1. /\ c[i] \in Seq(Nodes) /\ Distinct(c[i])
        /\ IF i \in x.T.bm THEN Linked(x.T.ht[i], x.next, c[i]) ELSE c[i] = <<>>
    BY DEF Indexes
  <2>2. CASE i \in x.T.bm
    <3>1. Chain(x.next, x.T.ht[i]) = c[i] /\ ~Circular(x.next, x.T.ht[i])
      BY <2>1, <2>2, ChainIs
    <3> QED BY <3>1, <2>2 DEF Slot
  <2>3. CASE i \notin x.T.bm
    BY <2>1, <2>3 DEF Slot
  <2> QED BY <2>2, <2>3
<1>2. c = [i \in 0 .. x.T.sz - 1 |-> c[i]]
  BY DEF Indexes
<1>3. c = Slots(x)
  BY <1>1, <1>2 DEF Slots
<1>4. x.T.bm \in SUBSET (0 .. x.T.sz - 1)
  BY WellParts
<1>5. Straight(x.T, x.next)
  BY <1>1, <1>4 DEF Straight
<1> QED BY <1>1, <1>3, <1>5

LEMMA IndexesSlots ==
  ASSUME NEW x, Well(x), NEW c, NEW S, Indexes(x, c, S)
  PROVE  Indexes(x, Slots(x), S)
BY SlotsAre

\* Two records agree on a table and on the nodes of S.
Agree(x, y, S) ==
  y.T = x.T /\ \A n \in S : y.next[n] = x.next[n] /\ y.tag[n] = x.tag[n] /\ y.key[n] = x.key[n]

\* What happens to other nodes does not matter to a table.
LEMMA IndexesFrame ==
  ASSUME NEW x, NEW y, NEW c, NEW S, Indexes(x, c, S), Agree(x, y, S)
  PROVE  Indexes(y, c, S)
<1>1. y.T = x.T
  BY DEF Agree
<1>2. ASSUME NEW i \in 0 .. x.T.sz - 1
      PROVE  /\ Distinct(c[i])
             /\ ToSet(c[i]) = {n \in S : Hash(y.tag[n], y.key[n], x.T.sz) = i}
             /\ IF i \in x.T.bm THEN Linked(x.T.ht[i], y.next, c[i]) ELSE c[i] = <<>>
  <2>1. /\ c[i] \in Seq(Nodes) /\ Distinct(c[i])
        /\ ToSet(c[i]) = {n \in S : Hash(x.tag[n], x.key[n], x.T.sz) = i}
        /\ IF i \in x.T.bm THEN Linked(x.T.ht[i], x.next, c[i]) ELSE c[i] = <<>>
    BY DEF Indexes
  <2>2. ToSet(c[i]) = {n \in S : Hash(y.tag[n], y.key[n], x.T.sz) = i}
    BY <2>1 DEF Agree
  <2>3. \A k \in DOMAIN c[i] : c[i][k] \in S
    BY <2>1 DEF ToSet
  <2>4. Linked(x.T.ht[i], x.next, c[i]) => Linked(x.T.ht[i], y.next, c[i])
    BY <2>3 DEF Linked, Agree
  <2> QED BY <2>1, <2>2, <2>4
<1> QED BY <1>1, <1>2 DEF Indexes

\* An empty table.
LEMMA EmptyOK ==
  ASSUME NEW i \in DOMAIN Levels
  PROVE  /\ Empty(Levels[i]) \in TableOf(Levels[i])
         /\ \A x : x.T = Empty(Levels[i]) => \E c : Indexes(x, c, {})
<1>1. Levels[i] \in Nat \ {0}
  BY LevelsAssumption
<1>2. Empty(Levels[i]) \in TableOf(Levels[i])
  BY <1>1 DEF Empty, TableOf
<1>3. ASSUME NEW x, x.T = Empty(Levels[i]) PROVE \E c : Indexes(x, c, {})
  <2> DEFINE c == [j \in 0 .. x.T.sz - 1 |-> <<>>]
  <2>1. x.T.nr = 0 /\ x.T.bm = {}
    BY <1>3 DEF Empty
  <2>2. x.T.nr = Cardinality({})
    BY <2>1, FS_EmptySet
  <2>3. <<>> \in Seq(Nodes) /\ Distinct(<<>>) /\ ToSet(<<>>) = {}
    BY DEF Distinct, ToSet
  <2>4. Indexes(x, c, {})
    BY <2>1, <2>2, <2>3 DEF Indexes
  <2> QED BY <2>4
<1> QED BY <1>2, <1>3

\* n before the elements of q.
Cons(n, q) == [k \in 1 .. Len(q) + 1 |-> IF k = 1 THEN n ELSE q[k-1]]

LEMMA ConsOK ==
  ASSUME NEW q \in Seq(Nodes), Distinct(q), NEW n \in Nodes, n \notin ToSet(q),
         NEW next \in [Nodes -> Pointers], NEW h, Linked(h, next, q)
  PROVE  /\ Cons(n, q) \in Seq(Nodes) /\ Len(Cons(n, q)) = Len(q) + 1
         /\ Distinct(Cons(n, q)) /\ ToSet(Cons(n, q)) = ToSet(q) \union {n}
         /\ Linked(n, [next EXCEPT ![n] = h], Cons(n, q))
<1> DEFINE r == Cons(n, q)
           f == [next EXCEPT ![n] = h]
<1>1. r \in [1 .. Len(q) + 1 -> Nodes] /\ Len(q) + 1 \in Nat
  BY DEF Cons
<1>2. r \in Seq(Nodes) /\ Len(r) = Len(q) + 1 /\ DOMAIN r = 1 .. Len(q) + 1
  BY <1>1, SeqOf
<1>3. r[1] = n /\ \A k \in 2 .. Len(q) + 1 : r[k] = q[k-1] /\ k - 1 \in 1 .. Len(q)
  BY DEF Cons
<1>4. DOMAIN q = 1 .. Len(q) /\ Len(q) \in Nat /\ \A k \in 1 .. Len(q) : q[k] # n /\ q[k] \in Nodes
  BY DEF ToSet
<1> HIDE DEF r
<1>5. Distinct(r)
  <2> SUFFICES ASSUME NEW a \in 1 .. Len(q) + 1, NEW b \in 1 .. Len(q) + 1, r[a] = r[b]
               PROVE  a = b
    BY <1>2 DEF Distinct
  <2>1. CASE a = 1 \/ b = 1
    BY <2>1, <1>3, <1>4
  <2>2. CASE a # 1 /\ b # 1
    <3>1. a \in 2 .. Len(q) + 1 /\ b \in 2 .. Len(q) + 1
      BY <2>2
    <3>2. q[a-1] = q[b-1] /\ a - 1 \in DOMAIN q /\ b - 1 \in DOMAIN q
      BY <3>1, <1>3, <1>4
    <3>3. a - 1 = b - 1
      BY <3>2 DEF Distinct
    <3> QED BY <3>3, <3>1
  <2> QED BY <2>1, <2>2
<1>6. ToSet(r) = ToSet(q) \union {n}
  <2>1. ASSUME NEW m \in ToSet(r) PROVE m \in ToSet(q) \union {n}
    <3>1. PICK k \in 1 .. Len(q) + 1 : m = r[k]
      BY <1>2 DEF ToSet
    <3> QED BY <3>1, <1>3, <1>4 DEF ToSet
  <2>2. ASSUME NEW m \in ToSet(q) \union {n} PROVE m \in ToSet(r)
    <3>1. CASE m = n
      BY <3>1, <1>2, <1>3, <1>4 DEF ToSet
    <3>2. CASE m # n
      <4>1. PICK k \in 1 .. Len(q) : m = q[k]
        BY <3>2, <1>4 DEF ToSet
      <4>2. k + 1 \in 1 .. Len(q) + 1 /\ r[k+1] = m
        BY <4>1, <1>3, <1>4
      <4> QED BY <4>2, <1>2 DEF ToSet
    <3> QED BY <3>1, <3>2
  <2> QED BY <2>1, <2>2
<1>7. Linked(n, f, r)
  <2>1. n = At(r, 1)
    BY <1>2, <1>3, <1>4 DEF At
  <2>2. ASSUME NEW k \in 1 .. Len(q) + 1 PROVE f[r[k]] = At(r, k + 1)
    <3>1. CASE k = 1
      <4>1. At(r, 2) = At(q, 1)
        BY <1>2, <1>3, <1>4 DEF At
      <4> QED BY <3>1, <4>1, <1>3 DEF Linked
    <3>2. CASE k # 1
      <4>1. k \in 2 .. Len(q) + 1 /\ k - 1 \in DOMAIN q
        BY <3>2, <1>4
      <4>2. r[k] = q[k-1] /\ f[q[k-1]] = next[q[k-1]]
        BY <4>1, <1>3, <1>4
      <4>3. next[q[k-1]] = At(q, (k - 1) + 1)
        BY <4>1 DEF Linked
      <4>4. At(q, k) = At(r, k + 1)
        BY <4>1, <1>2, <1>3, <1>4 DEF At
      <4> QED BY <4>1, <4>2, <4>3, <4>4
    <3> QED BY <3>1, <3>2
  <2> QED BY <2>1, <2>2, <1>2 DEF Linked
<1> QED BY <1>2, <1>5, <1>6, <1>7 DEF r

\* An operation changed the chains of the nodes of S only.
Kept(x, y, S) ==
  y.tag = x.tag /\ y.key = x.key /\ \A m \in Nodes \ S : y.next[m] = x.next[m]

\* A record that is well stays well with another table and other chains.
LEMMA WellWith ==
  ASSUME NEW x, Well(x), NEW y, NEW T, NEW f, NEW b, NEW i \in DOMAIN Levels, T \in TableOf(Levels[i]),
         f \in [Nodes -> Pointers],
         y = [T |-> T, next |-> f, tag |-> x.tag, key |-> x.key, ok |-> b]
  PROVE  Well(y) /\ y.T = T /\ y.next = f /\ y.tag = x.tag /\ y.key = x.key /\ y.ok = b
<1>1. y.T = T /\ y.next = f /\ y.tag = x.tag /\ y.key = x.key /\ y.ok = b
  OBVIOUS
<1>2. y = [T |-> y.T, next |-> y.next, tag |-> y.tag, key |-> y.key, ok |-> y.ok]
  OBVIOUS
<1> QED BY <1>1, <1>2 DEF Well

LEMMA PutFirstIs ==
  ASSUME NEW sz, NEW nr, NEW bm, NEW ht, NEW next, NEW tg, NEW ky, NEW b, NEW n, NEW hi, NEW x,
         x = [T |-> [sz |-> sz, nr |-> nr, bm |-> bm, ht |-> ht], next |-> next,
              tag |-> tg, key |-> ky, ok |-> b]
  PROVE  PutFirst(x, n, hi) =
           [T |-> [sz |-> sz, nr |-> nr + 1, bm |-> bm \union {hi}, ht |-> [ht EXCEPT ![hi] = n]],
            next |-> [next EXCEPT ![n] = IF hi \in bm THEN ht[hi] ELSE NULL],
            tag |-> tg, key |-> ky, ok |-> TRUE]
<1> SUFFICES ASSUME NEW y, y = PutFirst(x, n, hi)
             PROVE  y = [T |-> [sz |-> sz, nr |-> nr + 1, bm |-> bm \union {hi},
                                ht |-> [ht EXCEPT ![hi] = n]],
                         next |-> [next EXCEPT ![n] = IF hi \in bm THEN ht[hi] ELSE NULL],
                         tag |-> tg, key |-> ky, ok |-> TRUE]
  OBVIOUS
<1>1. ASSUME NEW T, T = [x.T EXCEPT !.ht[hi] = n, !.bm = @ \union {hi}, !.nr = @ + 1]
      PROVE  T = [sz |-> sz, nr |-> nr + 1, bm |-> bm \union {hi}, ht |-> [ht EXCEPT ![hi] = n]]
  BY <1>1
<1> DEFINE T == [x.T EXCEPT !.ht[hi] = n, !.bm = @ \union {hi}, !.nr = @ + 1]
           h == IF hi \in x.T.bm THEN x.T.ht[hi] ELSE NULL
<1>2. y = [x EXCEPT !.ok = TRUE, !.next[n] = h, !.T = T]
  BY DEF PutFirst
<1>3. T = [sz |-> sz, nr |-> nr + 1, bm |-> bm \union {hi}, ht |-> [ht EXCEPT ![hi] = n]]
  BY <1>1
<1> HIDE DEF T
<1>4. h = IF hi \in bm THEN ht[hi] ELSE NULL
  OBVIOUS
<1> HIDE DEF h
<1>5. y = [T |-> T, next |-> [next EXCEPT ![n] = h], tag |-> tg, key |-> ky, ok |-> TRUE]
  BY <1>2
<1> QED BY <1>3, <1>4, <1>5

\* What PutInto returns.
LEMMA PutIntoIs ==
  ASSUME NEW x, Well(x), NEW n \in Nodes
  PROVE  LET hi == Hash(x.tag[n], x.key[n], x.T.sz)
             y  == PutInto(x, n)
         IN  /\ hi \in 0 .. x.T.sz - 1
             /\ Well(y) /\ y.ok = TRUE /\ y.tag = x.tag /\ y.key = x.key
             /\ y.T.sz = x.T.sz /\ y.T.nr = x.T.nr + 1 /\ y.T.bm = x.T.bm \union {hi}
             /\ y.T.ht = [x.T.ht EXCEPT ![hi] = n]
             /\ y.next = [x.next EXCEPT ![n] = IF hi \in x.T.bm THEN x.T.ht[hi] ELSE NULL]
<1> DEFINE hi == Hash(x.tag[n], x.key[n], x.T.sz)
           h0 == IF hi \in x.T.bm THEN x.T.ht[hi] ELSE NULL
           U  == [sz |-> x.T.sz, nr |-> x.T.nr + 1, bm |-> x.T.bm \union {hi},
                  ht |-> [x.T.ht EXCEPT ![hi] = n]]
           f  == [x.next EXCEPT ![n] = h0]
<1>1. /\ x.T = [sz |-> x.T.sz, nr |-> x.T.nr, bm |-> x.T.bm, ht |-> x.T.ht]
      /\ x.T.sz \in Nat \ {0} /\ x.T.nr \in Nat
      /\ x.T.bm \in SUBSET (0 .. x.T.sz - 1)
      /\ x.T.ht \in [0 .. x.T.sz - 1 -> Pointers]
  BY WellParts
<1>2. hi \in 0 .. x.T.sz - 1
  BY <1>1, HashType DEF Well
<1> HIDE DEF hi
<1>3. h0 \in Pointers
  BY <1>1, <1>2 DEF Pointers
<1>4. f \in [Nodes -> Pointers]
  BY <1>3 DEF Well
<1>5. PutFirst(x, n, hi) = [T |-> U, next |-> f, tag |-> x.tag, key |-> x.key, ok |-> TRUE]
  <2>1. x = [T |-> x.T, next |-> x.next, tag |-> x.tag, key |-> x.key, ok |-> x.ok]
    BY DEF Well
  <2>2. x = [T |-> [sz |-> x.T.sz, nr |-> x.T.nr, bm |-> x.T.bm, ht |-> x.T.ht],
             next |-> x.next, tag |-> x.tag, key |-> x.key, ok |-> x.ok]
    BY <2>1, <1>1
  <2> QED BY <2>2, PutFirstIs DEF h0
<1>6. PICK i \in DOMAIN Levels : x.T \in TableOf(Levels[i])
  BY DEF Well
<1>7. U \in TableOf(Levels[i])
  <2>1. U.sz = Levels[i] /\ U.sz = x.T.sz
    BY <1>6, TableParts
  <2>2. n \in Pointers
    BY DEF Pointers
  <2>3. U.nr \in Nat /\ U.bm \in SUBSET (0 .. U.sz - 1) /\ U.ht \in [0 .. U.sz - 1 -> Pointers]
    BY <1>1, <1>2, <2>2
  <2> HIDE DEF f
  <2> QED BY <2>1, <2>3, TableIs
<1>8. PutInto(x, n) = PutFirst(x, n, hi)
  BY DEF PutInto, hi
<1> HIDE DEF f
<1>9. LET y == PutInto(x, n)
      IN  Well(y) /\ y.T = U /\ y.next = f /\ y.tag = x.tag /\ y.key = x.key /\ y.ok = TRUE
  <2> HIDE DEF U
  <2> QED BY <1>4, <1>5, <1>6, <1>7, <1>8, WellWith
<1> QED BY <1>2, <1>9 DEF hi, f

\* A node put into a table is in it, as the first entry of its slot.
LEMMA PutIntoOK ==
  ASSUME NEW x, Well(x), NEW S \in SUBSET Nodes, NEW c, Indexes(x, c, S), NEW n \in Nodes \ S
  PROVE  LET y == PutInto(x, n)
         IN  /\ Well(y) /\ y.ok = TRUE /\ Kept(x, y, {n}) /\ y.T.sz = x.T.sz
             /\ \E d : Indexes(y, d, S \union {n})
<1> DEFINE y == PutInto(x, n)
           hi == Hash(x.tag[n], x.key[n], x.T.sz)
           q == c[hi]
           h0 == IF hi \in x.T.bm THEN x.T.ht[hi] ELSE NULL
           d == [c EXCEPT ![hi] = Cons(n, q)]
<1>1. /\ hi \in 0 .. x.T.sz - 1
      /\ Well(y) /\ y.ok = TRUE /\ y.tag = x.tag /\ y.key = x.key
      /\ y.T.sz = x.T.sz /\ y.T.nr = x.T.nr + 1 /\ y.T.bm = x.T.bm \union {hi}
      /\ y.T.ht = [x.T.ht EXCEPT ![hi] = n]
      /\ y.next = [x.next EXCEPT ![n] = h0]
  BY PutIntoIs
<1> HIDE DEF y
<1>2. /\ x.T.sz \in Nat \ {0} /\ x.T.nr \in Nat
      /\ x.T.ht \in [0 .. x.T.sz - 1 -> Pointers] /\ x.next \in [Nodes -> Pointers]
  BY WellParts DEF Well
<1>3. Kept(x, y, {n})
  BY <1>1, <1>2 DEF Kept
<1>4. y.T.nr = Cardinality(S \union {n})
  <2>1. IsFiniteSet(S)
    BY NodesAssumption, FS_Subset
  <2>2. Cardinality(S \union {n}) = Cardinality(S) + 1
    BY <2>1, FS_AddElement
  <2> QED BY <2>2, <1>1 DEF Indexes
<1>5. /\ q \in Seq(Nodes) /\ Distinct(q)
      /\ ToSet(q) = {m \in S : Hash(x.tag[m], x.key[m], x.T.sz) = hi}
      /\ Linked(h0, x.next, q)
  <2>1. /\ q \in Seq(Nodes) /\ Distinct(q)
        /\ ToSet(q) = {m \in S : Hash(x.tag[m], x.key[m], x.T.sz) = hi}
        /\ IF hi \in x.T.bm THEN Linked(x.T.ht[hi], x.next, q) ELSE q = <<>>
    BY <1>1 DEF Indexes
  <2>2. Linked(NULL, x.next, <<>>)
    BY DEF Linked, At
  <2> QED BY <2>1, <2>2
<1> HIDE DEF h0
<1>6. /\ Cons(n, q) \in Seq(Nodes) /\ Distinct(Cons(n, q))
      /\ ToSet(Cons(n, q)) = ToSet(q) \union {n}
      /\ Linked(n, y.next, Cons(n, q))
  <2>1. n \in Nodes /\ n \notin ToSet(q)
    BY <1>5
  <2>2. Linked(n, [x.next EXCEPT ![n] = h0], Cons(n, q))
    <3> HIDE DEF q
    <3> QED BY <2>1, <1>2, <1>5, ConsOK
  <2>3. /\ Cons(n, q) \in Seq(Nodes) /\ Distinct(Cons(n, q))
        /\ ToSet(Cons(n, q)) = ToSet(q) \union {n}
    <3> HIDE DEF q
    <3> QED BY <2>1, <1>2, <1>5, ConsOK
  <2> QED BY <2>2, <2>3, <1>1
<1>7. d \in [0 .. y.T.sz - 1 -> Seq(Nodes)]
  BY <1>1, <1>6 DEF Indexes
<1>8. ASSUME NEW i \in 0 .. y.T.sz - 1
      PROVE  /\ Distinct(d[i])
             /\ ToSet(d[i]) = {m \in S \union {n} : Hash(y.tag[m], y.key[m], y.T.sz) = i}
             /\ IF i \in y.T.bm THEN Linked(y.T.ht[i], y.next, d[i]) ELSE d[i] = <<>>
  <2>0. c \in [0 .. x.T.sz - 1 -> Seq(Nodes)] /\ i \in 0 .. x.T.sz - 1
    BY <1>1 DEF Indexes
  <2>1. CASE i = hi
    <3>1. d[i] = Cons(n, q) /\ i \in y.T.bm /\ y.T.ht[i] = n
      BY <2>0, <2>1, <1>1, <1>2
    <3>2. {m \in S \union {n} : Hash(y.tag[m], y.key[m], y.T.sz) = i} = ToSet(q) \union {n}
      BY <1>1, <1>5, <2>1
    <3> HIDE DEF hi, d
    <3> QED BY <3>1, <3>2, <1>6
  <2>2. CASE i # hi
    <3>1. d[i] = c[i] /\ y.T.ht[i] = x.T.ht[i] /\ (i \in y.T.bm <=> i \in x.T.bm)
      BY <2>0, <2>2, <1>1, <1>2
    <3>2. /\ Distinct(c[i])
          /\ ToSet(c[i]) = {m \in S : Hash(x.tag[m], x.key[m], x.T.sz) = i}
          /\ IF i \in x.T.bm THEN Linked(x.T.ht[i], x.next, c[i]) ELSE c[i] = <<>>
      BY <2>0 DEF Indexes
    <3>3. {m \in S \union {n} : Hash(y.tag[m], y.key[m], y.T.sz) = i} = ToSet(c[i])
      BY <3>2, <2>2, <1>1
    <3>4. \A k \in DOMAIN c[i] : c[i][k] \in Nodes \ {n}
      BY <3>2 DEF ToSet
    <3>5. Linked(x.T.ht[i], x.next, c[i]) => Linked(x.T.ht[i], y.next, c[i])
      BY <3>4, <1>3 DEF Linked, Kept
    <3> HIDE DEF hi, d
    <3> QED BY <3>1, <3>2, <3>3, <3>5
  <2> QED BY <2>1, <2>2
<1>9. Indexes(y, d, S \union {n})
  <2> HIDE DEF d
  <2> QED BY <1>4, <1>7, <1>8 DEF Indexes
<1> QED BY <1>1, <1>3, <1>9 DEF y

\* q without its j-th element.
Drop(q, j) == [k \in 1 .. Len(q) - 1 |-> IF k < j THEN q[k] ELSE q[k+1]]

LEMMA DropOK ==
  ASSUME NEW q \in Seq(Nodes), Distinct(q), NEW j \in 1 .. Len(q)
  PROVE  /\ Drop(q, j) \in Seq(Nodes) /\ Len(Drop(q, j)) = Len(q) - 1
         /\ Distinct(Drop(q, j)) /\ ToSet(Drop(q, j)) = ToSet(q) \ {q[j]}
<1> DEFINE r == Drop(q, j)
<1>0. Len(q) \in Nat /\ DOMAIN q = 1 .. Len(q) /\ \A k \in 1 .. Len(q) : q[k] \in Nodes
  OBVIOUS
<1>1. r \in [1 .. Len(q) - 1 -> Nodes] /\ Len(q) - 1 \in Nat
  BY <1>0 DEF Drop
<1>2. r \in Seq(Nodes) /\ Len(r) = Len(q) - 1 /\ DOMAIN r = 1 .. Len(q) - 1
  BY <1>1, SeqOf
<1>3. \A k \in 1 .. Len(q) - 1 : r[k] = IF k < j THEN q[k] ELSE q[k+1]
  BY DEF Drop
<1>4. \A a, b \in 1 .. Len(q) : q[a] = q[b] => a = b
  BY <1>0 DEF Distinct
<1> HIDE DEF r
<1>5. Distinct(r)
  <2> SUFFICES ASSUME NEW a \in 1 .. Len(q) - 1, NEW b \in 1 .. Len(q) - 1, r[a] = r[b]
               PROVE  a = b
    BY <1>2 DEF Distinct
  <2> DEFINE f(k) == IF k < j THEN k ELSE k + 1
  <2>1. f(a) \in 1 .. Len(q) /\ f(b) \in 1 .. Len(q) /\ r[a] = q[f(a)] /\ r[b] = q[f(b)]
    BY <1>0, <1>3
  <2>2. f(a) = f(b)
    BY <2>1, <1>4
  <2> QED BY <2>2, <1>0
<1>6. ToSet(r) = ToSet(q) \ {q[j]}
  <2>1. ASSUME NEW m \in ToSet(r) PROVE m \in ToSet(q) \ {q[j]}
    <3>1. PICK k \in 1 .. Len(q) - 1 : m = r[k]
      BY <1>2 DEF ToSet
    <3>2. PICK l \in 1 .. Len(q) : m = q[l] /\ l # j
      BY <3>1, <1>0, <1>3
    <3> QED BY <3>2, <1>0, <1>4 DEF ToSet
  <2>2. ASSUME NEW m \in ToSet(q) \ {q[j]} PROVE m \in ToSet(r)
    <3>1. PICK l \in 1 .. Len(q) : m = q[l] /\ l # j
      BY <1>0 DEF ToSet
    <3>2. \E k \in 1 .. Len(q) - 1 : m = r[k]
      <4>1. CASE l < j
        BY <4>1, <3>1, <1>0, <1>3
      <4>2. CASE l > j
        <5>1. l - 1 \in 1 .. Len(q) - 1 /\ ~(l - 1 < j) /\ (l - 1) + 1 = l
          BY <4>2, <3>1, <1>0
        <5> QED BY <5>1, <3>1, <1>3
      <4> QED BY <4>1, <4>2, <3>1, <1>0
    <3> QED BY <3>2, <1>2 DEF ToSet
  <2> QED BY <2>1, <2>2
<1> QED BY <1>2, <1>5, <1>6 DEF r

\* The first entry is taken out of a chain.
LEMMA LinkedDropFirst ==
  ASSUME NEW q \in Seq(Nodes), Distinct(q), NEW next, NEW h, Linked(h, next, q), Len(q) > 0
  PROVE  Linked(next[q[1]], next, Drop(q, 1))
<1> DEFINE r == Drop(q, 1)
<1>0. Len(q) \in Nat /\ DOMAIN q = 1 .. Len(q) /\ 1 \in 1 .. Len(q)
  OBVIOUS
<1>1. r \in Seq(Nodes) /\ Len(r) = Len(q) - 1
  BY <1>0, DropOK
<1>2. \A k \in 1 .. Len(q) - 1 : r[k] = q[k+1]
  BY DEF Drop
<1> HIDE DEF r
<1>3. \A k \in Nat \ {0} : At(r, k) = At(q, k + 1)
  BY <1>0, <1>1, <1>2 DEF At
<1>4. next[q[1]] = At(r, 1)
  BY <1>0, <1>3 DEF Linked
<1>5. ASSUME NEW k \in 1 .. Len(r) PROVE next[r[k]] = At(r, k + 1)
  <2>1. r[k] = q[k+1] /\ k + 1 \in DOMAIN q /\ k + 1 \in Nat \ {0}
    BY <1>0, <1>1, <1>2
  <2>2. next[q[k+1]] = At(q, (k + 1) + 1)
    BY <2>1 DEF Linked
  <2> QED BY <2>1, <2>2, <1>3
<1> QED BY <1>1, <1>4, <1>5 DEF Linked, r

\* Another entry is taken out of a chain.
LEMMA LinkedDrop ==
  ASSUME NEW q \in Seq(Nodes), Distinct(q), NEW next \in [Nodes -> Pointers], NEW h, Linked(h, next, q),
         NEW j \in 2 .. Len(q)
  PROVE  Linked(h, [next EXCEPT ![q[j-1]] = next[q[j]]], Drop(q, j))
<1> DEFINE r == Drop(q, j)
           f == [next EXCEPT ![q[j-1]] = next[q[j]]]
<1>0. /\ Len(q) \in Nat /\ DOMAIN q = 1 .. Len(q) /\ j \in 1 .. Len(q) /\ j - 1 \in 1 .. Len(q)
      /\ \A k \in 1 .. Len(q) : q[k] \in Nodes
  OBVIOUS
<1>1. r \in Seq(Nodes) /\ Len(r) = Len(q) - 1
  BY <1>0, DropOK
<1>2. \A k \in 1 .. Len(q) - 1 : r[k] = IF k < j THEN q[k] ELSE q[k+1]
  BY DEF Drop
<1>3. \A a, b \in 1 .. Len(q) : q[a] = q[b] => a = b
  BY <1>0 DEF Distinct
<1> HIDE DEF r
<1>4. \A k \in Nat \ {0} : At(r, k) = IF k < j THEN At(q, k) ELSE At(q, k + 1)
  BY <1>0, <1>1, <1>2 DEF At
<1>5. h = At(r, 1)
  BY <1>0, <1>4 DEF Linked
<1>6. \A k \in 1 .. Len(q) : next[q[k]] = At(q, k + 1)
  BY <1>0 DEF Linked
<1>7. ASSUME NEW k \in 1 .. Len(r) PROVE f[r[k]] = At(r, k + 1)
  <2>1. CASE k < j - 1
    <3>1. r[k] = q[k] /\ k \in 1 .. Len(q) /\ k # j - 1 /\ k + 1 < j /\ k + 1 \in Nat \ {0}
      BY <2>1, <1>0, <1>1, <1>2
    <3>2. f[q[k]] = next[q[k]]
      BY <3>1, <1>0, <1>3
    <3> QED BY <3>1, <3>2, <1>4, <1>6
  <2>2. CASE k = j - 1
    <3>0. k + 1 = j /\ k < j /\ ~(j < j) /\ j \in Nat \ {0}
      BY <2>2, <1>0, <1>1
    <3>1. r[k] = q[j-1] /\ k + 1 = j /\ ~(j < j) /\ j \in Nat \ {0}
      <4>1. r[k] = q[k]
        BY <3>0, <1>1, <1>2
      <4> QED BY <4>1, <3>0, <2>2
    <3>2. f[q[j-1]] = next[q[j]]
      BY <1>0
    <3>3. At(r, j) = At(q, j + 1)
      BY <3>1, <1>4
    <3> QED BY <3>1, <3>2, <3>3, <1>0, <1>6
  <2>3. CASE k > j - 1
    <3>1. /\ r[k] = q[k+1] /\ k + 1 \in 1 .. Len(q) /\ k + 1 # j - 1
          /\ ~(k + 1 < j) /\ k + 1 \in Nat \ {0}
      BY <2>3, <1>0, <1>1, <1>2
    <3>2. f[q[k+1]] = next[q[k+1]]
      BY <3>1, <1>0, <1>3
    <3>3. next[q[k+1]] = At(q, (k + 1) + 1)
      BY <3>1, <1>6
    <3> QED BY <3>1, <3>2, <3>3, <1>4
  <2> QED BY <2>1, <2>2, <2>3, <1>0
<1> QED BY <1>1, <1>5, <1>7 DEF Linked, r

\* y is x, when n is not in its table; else x without the entry of n, the j-th
\* one of its slot.
Removal(x, c, S, n, y) ==
  LET hi == Hash(x.tag[n], x.key[n], x.T.sz)
      q  == c[hi]
  IN  /\ hi \in 0 .. x.T.sz - 1
      /\ n \notin S => y = x
      /\ n \in S => \E j \in DOMAIN q : q[j] = n
      /\ \A j \in DOMAIN q : q[j] = n =>
           /\ Well(y) /\ y.ok = x.ok /\ y.tag = x.tag /\ y.key = x.key
           /\ y.T.sz = x.T.sz /\ y.T.nr = x.T.nr - 1 /\ y.T.bm = x.T.bm
           /\ y.T.ht = IF j = 1 THEN [x.T.ht EXCEPT ![hi] = x.next[n]] ELSE x.T.ht
           /\ y.next = IF j = 1 THEN x.next ELSE [x.next EXCEPT ![q[j-1]] = x.next[n]]

\* What Remove returns.
LEMMA RemoveIs ==
  ASSUME NEW x, Well(x), NEW S \in SUBSET Nodes, NEW c, Indexes(x, c, S), NEW n \in Nodes
  PROVE  Removal(x, c, S, n, Remove(x, n))
<1> DEFINE hi == Hash(x.tag[n], x.key[n], x.T.sz)
           q  == c[hi]
           y  == Remove(x, n)
<1>1. /\ x.T = [sz |-> x.T.sz, nr |-> x.T.nr, bm |-> x.T.bm, ht |-> x.T.ht]
      /\ x.T.sz \in Nat \ {0} /\ x.T.nr \in Nat
      /\ x.T.bm \in SUBSET (0 .. x.T.sz - 1)
      /\ x.T.ht \in [0 .. x.T.sz - 1 -> Pointers]
  BY WellParts
<1>2. hi \in 0 .. x.T.sz - 1
  BY <1>1, HashType DEF Well
<1>3. Slot(x.T, x.next, hi) = q
  BY <1>2, SlotsAre
<1>4. /\ q \in Seq(Nodes) /\ Distinct(q)
      /\ ToSet(q) = {m \in S : Hash(x.tag[m], x.key[m], x.T.sz) = hi}
  BY <1>2 DEF Indexes
<1>5. n \notin S => y = x
  BY <1>3, <1>4 DEF Remove
<1>6. n \in S => \E j \in DOMAIN q : q[j] = n
  BY <1>4 DEF ToSet
<1>7. ASSUME NEW j \in DOMAIN q, q[j] = n
      PROVE  /\ Well(y) /\ y.ok = x.ok /\ y.tag = x.tag /\ y.key = x.key
             /\ y.T.sz = x.T.sz /\ y.T.nr = x.T.nr - 1 /\ y.T.bm = x.T.bm
             /\ y.T.ht = IF j = 1 THEN [x.T.ht EXCEPT ![hi] = x.next[n]] ELSE x.T.ht
             /\ y.next = IF j = 1 THEN x.next ELSE [x.next EXCEPT ![q[j-1]] = x.next[n]]
  <2>1. n \in ToSet(q) /\ (CHOOSE i \in DOMAIN q : q[i] = n) = j
    BY <1>4, <1>7 DEF ToSet, Distinct
  <2>2. y = Unlinked(x, hi, q, j)
    BY <1>3, <2>1 DEF Remove
  <2>3. x = [T |-> x.T, next |-> x.next, tag |-> x.tag, key |-> x.key, ok |-> x.ok]
    BY DEF Well
  <2>4. x.T.nr \in Nat \ {0} /\ x.T.nr - 1 \in Nat
    <3>1. n \in S
      BY <2>1, <1>4
    <3>2. IsFiniteSet(S)
      BY NodesAssumption, FS_Subset
    <3>3. Cardinality(S) # 0
      BY <3>1, <3>2, FS_EmptySet
    <3> QED BY <3>3, <1>1 DEF Indexes
  <2>5. PICK i \in DOMAIN Levels : x.T \in TableOf(Levels[i])
    BY DEF Well
  <2>6. x.T.sz = Levels[i]
    BY <2>5, TableParts
  <2>7. x.next \in [Nodes -> Pointers] /\ x.next[n] \in Pointers
    BY DEF Well
  <2> DEFINE U1 == [sz |-> x.T.sz, nr |-> x.T.nr - 1, bm |-> x.T.bm, ht |-> [x.T.ht EXCEPT ![hi] = x.next[n]]]
             U2 == [sz |-> x.T.sz, nr |-> x.T.nr - 1, bm |-> x.T.bm, ht |-> x.T.ht]
             f2 == [x.next EXCEPT ![q[j-1]] = x.next[n]]
  <2> HIDE DEF y, hi
  <2>8. CASE j = 1
    <3> DEFINE V == [x.T EXCEPT !.nr = @ - 1, !.ht[hi] = x.next[n]]
    <3>1. ASSUME NEW T, T = V PROVE T = U1
      BY <3>1, <1>1
    <3>2. V = U1
      BY <3>1
    <3>3. y = [x EXCEPT !.T = V]
      BY <2>2, <2>8, <1>7 DEF Unlinked
    <3> HIDE DEF V
    <3>4. y = [T |-> V, next |-> x.next, tag |-> x.tag, key |-> x.key, ok |-> x.ok]
      BY <3>3, <2>3
    <3>5. U1 \in TableOf(Levels[i])
      <4>1. U1.ht \in [0 .. U1.sz - 1 -> Pointers]
        BY <1>1, <1>2, <2>7
      <4>2. U1.sz = Levels[i] /\ U1.nr \in Nat /\ U1.bm \in SUBSET (0 .. U1.sz - 1)
        BY <1>1, <2>4, <2>6
      <4> QED BY <4>1, <4>2, TableIs
    <3>6. V \in TableOf(Levels[i])
      BY <3>2, <3>5
    <3>7. Well(y) /\ y.T = V /\ y.next = x.next /\ y.tag = x.tag /\ y.key = x.key /\ y.ok = x.ok
      BY <3>4, <3>6, <2>5, <2>7, WellWith
    <3>8. /\ y.T.sz = x.T.sz /\ y.T.nr = x.T.nr - 1 /\ y.T.bm = x.T.bm
          /\ y.T.ht = [x.T.ht EXCEPT ![hi] = x.next[n]]
      BY <3>2, <3>7
    <3> QED BY <3>7, <3>8, <2>8
  <2>9. CASE j # 1
    <3> DEFINE V == [x.T EXCEPT !.nr = @ - 1]
    <3>1. ASSUME NEW T, T = V PROVE T = U2
      BY <3>1, <1>1
    <3>2. V = U2
      BY <3>1
    <3>3. y = [x EXCEPT !.T = V, !.next[q[j-1]] = x.next[n]]
      BY <2>2, <2>9, <1>7 DEF Unlinked
    <3> HIDE DEF V
    <3>4. y = [T |-> V, next |-> f2, tag |-> x.tag, key |-> x.key, ok |-> x.ok]
      BY <3>3, <2>3
    <3>5. U2 \in TableOf(Levels[i])
      <4>1. U2.sz = Levels[i] /\ U2.nr \in Nat /\ U2.bm \in SUBSET (0 .. U2.sz - 1)
        BY <1>1, <2>4, <2>6
      <4> QED BY <4>1, <1>1, TableIs
    <3>6. V \in TableOf(Levels[i])
      BY <3>2, <3>5
    <3>61. f2 \in [Nodes -> Pointers]
      BY <2>7
    <3>7. Well(y) /\ y.T = V /\ y.next = f2 /\ y.tag = x.tag /\ y.key = x.key /\ y.ok = x.ok
      <4> HIDE DEF f2
      <4> QED BY <3>4, <3>6, <3>61, <2>5, WellWith
    <3>8. y.T.sz = x.T.sz /\ y.T.nr = x.T.nr - 1 /\ y.T.bm = x.T.bm /\ y.T.ht = x.T.ht
      BY <3>2, <3>7
    <3> QED BY <3>7, <3>8, <2>9
  <2> QED BY <2>8, <2>9
<1> QED BY <1>2, <1>5, <1>6, <1>7 DEF Removal

\* A node that is removed from a table is in it no more, and the others are.
LEMMA RemoveOK ==
  ASSUME NEW x, Well(x), NEW S \in SUBSET Nodes, NEW c, Indexes(x, c, S), NEW n \in Nodes
  PROVE  LET y == Remove(x, n)
         IN  Well(y) /\ y.ok = x.ok /\ Kept(x, y, S) /\ \E d : Indexes(y, d, S \ {n})
<1> DEFINE hi == Hash(x.tag[n], x.key[n], x.T.sz)
           q  == c[hi]
           y  == Remove(x, n)
<1>0. Removal(x, c, S, n, y)
  BY RemoveIs
<1>1. CASE n \notin S
  <2>1. y = x
    BY <1>0, <1>1 DEF Removal
  <2>2. S \ {n} = S
    BY <1>1
  <2> HIDE DEF y
  <2>3. Kept(x, y, S)
    BY <2>1 DEF Kept
  <2>4. Indexes(y, c, S \ {n})
    BY <2>1, <2>2
  <2>5. Well(y) /\ y.ok = x.ok /\ Kept(x, y, S) /\ \E d : Indexes(y, d, S \ {n})
    BY <2>1, <2>3, <2>4
  <2> QED BY <2>5 DEF y
<1>2. CASE n \in S
  <2>1. PICK j \in DOMAIN q : q[j] = n
    BY <1>0, <1>2 DEF Removal
  <2>2. /\ hi \in 0 .. x.T.sz - 1
        /\ Well(y) /\ y.ok = x.ok /\ y.tag = x.tag /\ y.key = x.key
        /\ y.T.sz = x.T.sz /\ y.T.nr = x.T.nr - 1 /\ y.T.bm = x.T.bm
        /\ y.T.ht = IF j = 1 THEN [x.T.ht EXCEPT ![hi] = x.next[n]] ELSE x.T.ht
        /\ y.next = IF j = 1 THEN x.next ELSE [x.next EXCEPT ![q[j-1]] = x.next[n]]
    BY <1>0, <2>1 DEF Removal
  <2> HIDE DEF y
  <2>3. /\ x.T.sz \in Nat \ {0} /\ x.T.nr \in Nat
        /\ x.T.ht \in [0 .. x.T.sz - 1 -> Pointers] /\ x.next \in [Nodes -> Pointers]
    BY WellParts DEF Well
  <2>4. /\ c \in [0 .. x.T.sz - 1 -> Seq(Nodes)]
        /\ q \in Seq(Nodes) /\ Distinct(q)
        /\ ToSet(q) = {m \in S : Hash(x.tag[m], x.key[m], x.T.sz) = hi}
        /\ IF hi \in x.T.bm THEN Linked(x.T.ht[hi], x.next, q) ELSE q = <<>>
    BY <2>2 DEF Indexes
  <2>5. hi \in x.T.bm /\ Linked(x.T.ht[hi], x.next, q) /\ j \in 1 .. Len(q)
    <3>1. q # <<>> /\ j \in 1 .. Len(q)
      BY <2>1, <2>4
    <3> QED BY <3>1, <2>4
  <2> DEFINE r == Drop(q, j)
             d == [c EXCEPT ![hi] = r]
  <2>6. r \in Seq(Nodes) /\ Distinct(r) /\ ToSet(r) = ToSet(q) \ {n}
    <3> HIDE DEF q
    <3> QED BY <2>1, <2>4, <2>5, DropOK
  <2>7. /\ Kept(x, y, ToSet(q)) /\ Kept(x, y, S)
    <3>1. j # 1 => q[j-1] \in ToSet(q) /\ q[j-1] \in Nodes
      BY <2>4, <2>5 DEF ToSet
    <3>2. ASSUME NEW m \in Nodes \ ToSet(q) PROVE y.next[m] = x.next[m]
      BY <3>1, <2>2, <2>3
    <3>3. ToSet(q) \subseteq S
      BY <2>4
    <3> QED BY <3>2, <3>3, <2>2 DEF Kept
  <2>8. Linked(y.T.ht[hi], y.next, r)
    <3>1. CASE j = 1
      <4>1. y.T.ht[hi] = x.next[q[1]] /\ y.next = x.next
        BY <3>1, <2>1, <2>2, <2>3
      <4>2. Linked(x.next[q[1]], x.next, Drop(q, 1))
        <5>1. Len(q) > 0
          BY <2>5, <2>4
        <5> HIDE DEF q
        <5> QED BY <5>1, <2>4, <2>5, LinkedDropFirst
      <4> QED BY <4>1, <4>2, <3>1
    <3>2. CASE j # 1
      <4>1. y.T.ht[hi] = x.T.ht[hi] /\ y.next = [x.next EXCEPT ![q[j-1]] = x.next[q[j]]]
        BY <3>2, <2>1, <2>2
      <4>2. j \in 2 .. Len(q)
        BY <3>2, <2>5, <2>4
      <4>3. Linked(x.T.ht[hi], [x.next EXCEPT ![q[j-1]] = x.next[q[j]]], r)
        <5> HIDE DEF q
        <5> QED BY <4>2, <2>3, <2>4, <2>5, LinkedDrop
      <4> QED BY <4>1, <4>3
    <3> QED BY <3>1, <3>2
  <2> HIDE DEF r
  <2>9. y.T.nr = Cardinality(S \ {n})
    <3>1. IsFiniteSet(S)
      BY NodesAssumption, FS_Subset
    <3>2. Cardinality(S \ {n}) = Cardinality(S) - 1
      BY <3>1, <1>2, FS_RemoveElement
    <3> QED BY <3>2, <2>2 DEF Indexes
  <2>10. d \in [0 .. y.T.sz - 1 -> Seq(Nodes)]
    BY <2>2, <2>4, <2>6
  <2>11. ASSUME NEW i \in 0 .. y.T.sz - 1
         PROVE  /\ Distinct(d[i])
                /\ ToSet(d[i]) = {m \in S \ {n} : Hash(y.tag[m], y.key[m], y.T.sz) = i}
                /\ IF i \in y.T.bm THEN Linked(y.T.ht[i], y.next, d[i]) ELSE d[i] = <<>>
    <3>1. CASE i = hi
      <4>1. d[i] = r /\ i \in y.T.bm
        BY <3>1, <2>2, <2>4, <2>5
      <4>2. {m \in S \ {n} : Hash(y.tag[m], y.key[m], y.T.sz) = i} = ToSet(q) \ {n}
        BY <3>1, <2>2, <2>4
      <4> HIDE DEF d, hi
      <4> QED BY <3>1, <4>1, <4>2, <2>6, <2>8
    <3>2. CASE i # hi
      <4>1. d[i] = c[i] /\ y.T.ht[i] = x.T.ht[i] /\ (i \in y.T.bm <=> i \in x.T.bm)
        BY <3>2, <2>2, <2>3, <2>4
      <4>2. /\ Distinct(c[i])
            /\ ToSet(c[i]) = {m \in S : Hash(x.tag[m], x.key[m], x.T.sz) = i}
            /\ IF i \in x.T.bm THEN Linked(x.T.ht[i], x.next, c[i]) ELSE c[i] = <<>>
        BY <2>2 DEF Indexes
      <4>3. {m \in S \ {n} : Hash(y.tag[m], y.key[m], y.T.sz) = i} = ToSet(c[i])
        BY <4>2, <3>2, <2>2
      <4>4. \A k \in DOMAIN c[i] : c[i][k] \in Nodes \ ToSet(q)
        BY <4>2, <2>4, <3>2 DEF ToSet
      <4>5. Linked(x.T.ht[i], x.next, c[i]) => Linked(x.T.ht[i], y.next, c[i])
        BY <4>4, <2>7 DEF Linked, Kept
      <4> HIDE DEF hi, d
      <4> QED BY <4>1, <4>2, <4>3, <4>5
    <3> QED BY <3>1, <3>2
  <2>12. Indexes(y, d, S \ {n})
    <3> HIDE DEF d
    <3> QED BY <2>9, <2>10, <2>11 DEF Indexes
  <2> QED BY <2>2, <2>7, <2>12 DEF y
<1> QED BY <1>1, <1>2

-----------------------------------------------------------------------------
(***************************************************************************)
(* All entries of a table.                                                 *)
(***************************************************************************)
LEMMA ConcatOK ==
  ASSUME NEW a \in Seq(Nodes), NEW b \in Seq(Nodes), Distinct(a), Distinct(b),
         ToSet(a) \intersect ToSet(b) = {}
  PROVE  /\ a \o b \in Seq(Nodes) /\ Distinct(a \o b)
         /\ ToSet(a \o b) = ToSet(a) \union ToSet(b)
<1> DEFINE r == a \o b
<1>1. /\ Len(a) \in Nat /\ Len(b) \in Nat /\ DOMAIN a = 1 .. Len(a) /\ DOMAIN b = 1 .. Len(b)
      /\ r \in Seq(Nodes) /\ DOMAIN r = 1 .. Len(a) + Len(b)
  OBVIOUS
<1>2. /\ \A k \in 1 .. Len(a) : r[k] = a[k]
      /\ \A k \in Len(a) + 1 .. Len(a) + Len(b) : r[k] = b[k - Len(a)]
  OBVIOUS
<1> HIDE DEF r
<1>3. \A k \in 1 .. Len(a) : r[k] = a[k] /\ r[k] \in ToSet(a)
  BY <1>1, <1>2 DEF ToSet
<1>4. \A k \in Len(a) + 1 .. Len(a) + Len(b) :
        r[k] = b[k - Len(a)] /\ k - Len(a) \in 1 .. Len(b) /\ r[k] \in ToSet(b)
  <2> SUFFICES ASSUME NEW k \in Len(a) + 1 .. Len(a) + Len(b)
               PROVE  r[k] = b[k - Len(a)] /\ k - Len(a) \in 1 .. Len(b) /\ r[k] \in ToSet(b)
    OBVIOUS
  <2>1. k - Len(a) \in 1 .. Len(b)
    BY <1>1
  <2> QED BY <2>1, <1>1, <1>2 DEF ToSet
<1>5. Distinct(r)
  <2> SUFFICES ASSUME NEW i \in 1 .. Len(a) + Len(b), NEW j \in 1 .. Len(a) + Len(b), r[i] = r[j]
               PROVE  i = j
    BY <1>1 DEF Distinct
  <2>1. CASE i <= Len(a) /\ j <= Len(a)
    BY <2>1, <1>1, <1>3 DEF Distinct
  <2>2. CASE i > Len(a) /\ j > Len(a)
    <3>1. i \in Len(a) + 1 .. Len(a) + Len(b) /\ j \in Len(a) + 1 .. Len(a) + Len(b)
      BY <2>2, <1>1
    <3>2. i - Len(a) = j - Len(a)
      BY <3>1, <1>1, <1>4 DEF Distinct
    <3> QED BY <3>1, <3>2, <1>1
  <2>3. CASE i <= Len(a) /\ j > Len(a)
    BY <2>3, <1>1, <1>3, <1>4
  <2>4. CASE i > Len(a) /\ j <= Len(a)
    BY <2>4, <1>1, <1>3, <1>4
  <2> QED BY <2>1, <2>2, <2>3, <2>4, <1>1
<1>6. ToSet(r) = ToSet(a) \union ToSet(b)
  <2>1. ASSUME NEW m \in ToSet(r) PROVE m \in ToSet(a) \union ToSet(b)
    <3>1. PICK k \in 1 .. Len(a) + Len(b) : m = r[k]
      BY <1>1 DEF ToSet
    <3>2. k \in 1 .. Len(a) \/ k \in Len(a) + 1 .. Len(a) + Len(b)
      BY <1>1
    <3> QED BY <3>1, <3>2, <1>3, <1>4
  <2>2. ASSUME NEW m \in ToSet(a) PROVE m \in ToSet(r)
    <3>1. PICK k \in 1 .. Len(a) : m = a[k]
      BY <1>1 DEF ToSet
    <3>2. k \in DOMAIN r /\ r[k] = m
      BY <3>1, <1>1, <1>3
    <3> QED BY <3>2 DEF ToSet
  <2>3. ASSUME NEW m \in ToSet(b) PROVE m \in ToSet(r)
    <3>1. PICK k \in 1 .. Len(b) : m = b[k]
      BY <1>1 DEF ToSet
    <3>2. k + Len(a) \in Len(a) + 1 .. Len(a) + Len(b) /\ (k + Len(a)) - Len(a) = k
          /\ k + Len(a) \in DOMAIN r
      BY <3>1, <1>1
    <3>3. r[k + Len(a)] = m
      BY <3>1, <3>2, <1>2
    <3> QED BY <3>2, <3>3 DEF ToSet
  <2> QED BY <2>1, <2>2, <2>3
<1> QED BY <1>1, <1>5, <1>6 DEF r

IsUpto(g, T, next, m) ==
  g = [i \in 0 .. m |-> IF i = 0 THEN <<>> ELSE g[i-1] \o Slot(T, next, i - 1)]

LEMMA UptoExists ==
  ASSUME NEW U, NEW next, NEW n \in Nat
  PROVE  \E g : IsUpto(g, U, next, n)
<1> DEFINE T == {m \in Nat : ~\E g : IsUpto(g, U, next, m)}
<1> SUFFICES ASSUME T # {} PROVE FALSE
  OBVIOUS
<1>1. PICK m \in T : \A y \in T : m <= y
  BY LeastElement
<1>2. CASE m = 0
  <2> DEFINE g == [k \in 0 .. 0 |-> <<>>]
  <2>1. IsUpto(g, U, next, 0)
    BY DEF IsUpto
  <2> QED BY <2>1, <1>1, <1>2
<1>3. CASE m # 0
  <2>1. m - 1 \in Nat /\ m - 1 \notin T
    BY <1>1, <1>3
  <2>2. PICK g : IsUpto(g, U, next, m - 1)
    BY <2>1
  <2> DEFINE f == [k \in 0 .. m |-> IF k = m THEN g[m-1] \o Slot(U, next, m - 1) ELSE g[k]]
  <2>3. \A k \in 0 .. m - 1 : g[k] = IF k = 0 THEN <<>> ELSE g[k-1] \o Slot(U, next, k - 1)
    BY <2>1, <2>2 DEF IsUpto
  <2>4. ASSUME NEW k \in 0 .. m
        PROVE  f[k] = IF k = 0 THEN <<>> ELSE f[k-1] \o Slot(U, next, k - 1)
    BY <2>1, <2>3, <1>3
  <2>5. IsUpto(f, U, next, m)
    BY <2>4 DEF IsUpto
  <2> QED BY <2>5, <1>1
<1> QED BY <1>2, <1>3

\* The entries of a table are the nodes it holds, each once.
LEMMA EntriesOK ==
  ASSUME NEW x, Well(x), NEW S \in SUBSET Nodes, NEW c, Indexes(x, c, S)
  PROVE  LET es == Entries(x.T, x.next)
         IN  es \in Seq(Nodes) /\ Distinct(es) /\ ToSet(es) = S
<1> DEFINE sz == x.T.sz
           g == CHOOSE g : IsUpto(g, x.T, x.next, sz)
           hash(n) == Hash(x.tag[n], x.key[n], sz)
           Good(i) == /\ g[i] \in Seq(Nodes) /\ Distinct(g[i])
                      /\ ToSet(g[i]) = {n \in S : hash(n) < i}
           T == {i \in 0 .. sz : ~Good(i)}
<1>1. sz \in Nat \ {0} /\ x.tag \in [Nodes -> Nat] /\ x.key \in [Nodes -> Nat]
  BY WellParts DEF Well
<1>2. IsUpto(g, x.T, x.next, sz)
  BY <1>1, UptoExists, Zenon
<1>3. Entries(x.T, x.next) = g[sz]
  BY DEF Entries, IsUpto
<1> HIDE DEF g
<1>4. \A i \in 0 .. sz - 1 : Slot(x.T, x.next, i) = c[i]
  BY SlotsAre
<1>5. \A i \in 0 .. sz : g[i] = IF i = 0 THEN <<>> ELSE g[i-1] \o c[i-1]
  <2> SUFFICES ASSUME NEW i \in 0 .. sz PROVE g[i] = IF i = 0 THEN <<>> ELSE g[i-1] \o c[i-1]
    OBVIOUS
  <2>1. g[i] = IF i = 0 THEN <<>> ELSE g[i-1] \o Slot(x.T, x.next, i - 1)
    BY <1>1, <1>2 DEF IsUpto
  <2>2. i # 0 => Slot(x.T, x.next, i - 1) = c[i-1]
    BY <1>1, <1>4
  <2> QED BY <2>1, <2>2
<1>6. \A n \in S : hash(n) \in 0 .. sz - 1
  BY <1>1, HashType
<1>7. T = {}
  <2> SUFFICES ASSUME T # {} PROVE FALSE
    OBVIOUS
  <2>1. PICK m \in T : \A y \in T : m <= y
    <3>1. T \in SUBSET Nat
      BY <1>1
    <3> HIDE DEF T
    <3> QED BY <3>1, LeastElement
  <2>2. m \in 0 .. sz /\ ~Good(m)
    BY <2>1
  <2>3. CASE m = 0
    <3>1. g[0] = <<>> /\ <<>> \in Seq(Nodes) /\ Distinct(<<>>) /\ ToSet(<<>>) = {}
      BY <1>1, <1>5 DEF Distinct, ToSet
    <3>2. {n \in S : hash(n) < 0} = {}
      BY <1>6, <1>1
    <3> QED BY <2>2, <2>3, <3>1, <3>2
  <2>4. CASE m # 0
    <3>1. m - 1 \in 0 .. sz - 1 /\ m - 1 \in 0 .. sz /\ m - 1 \notin T
      BY <2>1, <2>2, <2>4, <1>1
    <3>2. Good(m - 1)
      BY <3>1
    <3>3. /\ c[m-1] \in Seq(Nodes) /\ Distinct(c[m-1])
          /\ ToSet(c[m-1]) = {n \in S : hash(n) = m - 1}
      BY <3>1 DEF Indexes
    <3>4. ToSet(g[m-1]) \intersect ToSet(c[m-1]) = {}
      <4>1. \A n \in S : ~(hash(n) < m - 1 /\ hash(n) = m - 1)
        BY <3>1, <1>6, <1>1
      <4> QED BY <4>1, <3>2, <3>3
    <3>5. {n \in S : hash(n) < m} = ToSet(g[m-1]) \union ToSet(c[m-1])
      <4>1. \A n \in S : hash(n) < m <=> (hash(n) < m - 1 \/ hash(n) = m - 1)
        <5>1. \A a, b \in Int : a < b <=> (a < b - 1 \/ a = b - 1)
          OBVIOUS
        <5>2. m \in Int /\ \A n \in S : hash(n) \in Int
          BY <2>2, <1>6, <1>1
        <5> HIDE DEF hash
        <5> QED BY <5>1, <5>2
      <4> QED BY <4>1, <3>2, <3>3
    <3>6. g[m] = g[m-1] \o c[m-1]
      BY <2>2, <2>4, <1>5
    <3>7. /\ g[m] \in Seq(Nodes) /\ Distinct(g[m])
          /\ ToSet(g[m]) = ToSet(g[m-1]) \union ToSet(c[m-1])
      BY <3>2, <3>3, <3>4, <3>6, ConcatOK
    <3> QED BY <3>5, <3>7, <2>2
  <2> QED BY <2>3, <2>4
<1>8. Good(sz)
  BY <1>7, <1>1
<1>9. {n \in S : hash(n) < sz} = S
  BY <1>6, <1>1
<1> QED BY <1>3, <1>8, <1>9

-----------------------------------------------------------------------------
(***************************************************************************)
(* A larger table.                                                         *)
(***************************************************************************)
IsMoves(g, x, sz, all, m) ==
  g = [i \in 0 .. m |-> IF i = 0 THEN [x EXCEPT !.T = Empty(sz)] ELSE PutInto(g[i-1], all[i])]

LEMMA MovesExist ==
  ASSUME NEW x, NEW sz, NEW all, NEW n \in Nat
  PROVE  \E g : IsMoves(g, x, sz, all, n)
<1> DEFINE T == {m \in Nat : ~\E g : IsMoves(g, x, sz, all, m)}
<1> SUFFICES ASSUME T # {} PROVE FALSE
  OBVIOUS
<1>1. PICK m \in T : \A y \in T : m <= y
  BY LeastElement
<1>2. CASE m = 0
  <2> DEFINE g == [k \in 0 .. 0 |-> [x EXCEPT !.T = Empty(sz)]]
  <2>1. IsMoves(g, x, sz, all, 0)
    BY DEF IsMoves
  <2> QED BY <2>1, <1>1, <1>2
<1>3. CASE m # 0
  <2>1. m - 1 \in Nat /\ m - 1 \notin T
    BY <1>1, <1>3
  <2>2. PICK g : IsMoves(g, x, sz, all, m - 1)
    BY <2>1
  <2> DEFINE e == [x EXCEPT !.T = Empty(sz)]
             f == [k \in 0 .. m |-> IF k = m THEN PutInto(g[m-1], all[m]) ELSE g[k]]
  <2>3. \A k \in 0 .. m - 1 : g[k] = IF k = 0 THEN e ELSE PutInto(g[k-1], all[k])
    BY <2>1, <2>2 DEF IsMoves
  <2>4. ASSUME NEW k \in 0 .. m
        PROVE  f[k] = IF k = 0 THEN e ELSE PutInto(f[k-1], all[k])
    <3> HIDE DEF e
    <3> QED BY <2>1, <2>3, <1>3
  <2>5. IsMoves(f, x, sz, all, m)
    BY <2>4 DEF IsMoves
  <2> QED BY <2>5, <1>1
<1> QED BY <1>2, <1>3

\* The first i elements of q, without and with the next one.
Upto(q, i) == {q[j] : j \in 1 .. i}

LEMMA UptoStep ==
  ASSUME NEW q \in Seq(Nodes), Distinct(q), NEW i \in 1 .. Len(q)
  PROVE  /\ Upto(q, i) = Upto(q, i - 1) \union {q[i]}
         /\ q[i] \in Nodes \ Upto(q, i - 1)
         /\ Upto(q, i - 1) \in SUBSET Nodes
<1>1. DOMAIN q = 1 .. Len(q) /\ Len(q) \in Nat /\ \A j \in 1 .. Len(q) : q[j] \in Nodes
  OBVIOUS
<1>2. \A j \in 1 .. i - 1 : j \in 1 .. Len(q) /\ j # i
  BY <1>1
<1>3. q[i] \notin Upto(q, i - 1)
  BY <1>1, <1>2 DEF Upto, Distinct
<1>4. \A j : j \in 1 .. i <=> (j \in 1 .. i - 1 \/ j = i)
  BY <1>1
<1>5. Upto(q, i) = Upto(q, i - 1) \union {q[i]}
  BY <1>4 DEF Upto
<1> QED BY <1>1, <1>2, <1>3, <1>5 DEF Upto

LEMMA UptoAll ==
  ASSUME NEW q \in Seq(Nodes)
  PROVE  Upto(q, 0) = {} /\ Upto(q, Len(q)) = ToSet(q)
BY DEF Upto, ToSet

LEMMA KeptTrans ==
  ASSUME NEW x, NEW y, NEW z, NEW R, NEW S, Kept(x, y, R), Kept(y, z, S)
  PROVE  Kept(x, z, R \union S)
BY DEF Kept

LEMMA KeptMore ==
  ASSUME NEW x, NEW y, NEW R, NEW S, Kept(x, y, R), R \subseteq S
  PROVE  Kept(x, y, S)
BY DEF Kept

\* A table to which the nodes of S have been moved holds them.
LEMMA MovedOK ==
  ASSUME NEW x, Well(x), NEW k \in DOMAIN Levels,
         NEW all \in Seq(Nodes), Distinct(all)
  PROVE  LET y == Moved(x, Levels[k], all)
         IN  Well(y) /\ Kept(x, y, ToSet(all)) /\ \E d : Indexes(y, d, ToSet(all))
<1> DEFINE sz == Levels[k]
           g == CHOOSE g : IsMoves(g, x, sz, all, Len(all))
           e == [x EXCEPT !.T = Empty(sz)]
           Good(i) == /\ Well(g[i]) /\ Kept(x, g[i], Upto(all, i))
                      /\ \E d : Indexes(g[i], d, Upto(all, i))
           T == {i \in 0 .. Len(all) : ~Good(i)}
<1>0. Len(all) \in Nat
  OBVIOUS
<1>1. IsMoves(g, x, sz, all, Len(all))
  BY <1>0, MovesExist, Zenon
<1>2. Moved(x, sz, all) = g[Len(all)]
  BY DEF Moved, IsMoves
<1> HIDE DEF g
<1>3. \A i \in 0 .. Len(all) : g[i] = IF i = 0 THEN e ELSE PutInto(g[i-1], all[i])
  <2> HIDE DEF e
  <2> QED BY <1>1 DEF IsMoves, e
<1>4. Well(e) /\ e.T = Empty(sz) /\ Kept(x, e, {}) /\ \E d : Indexes(e, d, {})
  <2>1. e = [T |-> Empty(sz), next |-> x.next, tag |-> x.tag, key |-> x.key, ok |-> x.ok]
    <3>1. ASSUME NEW z, z = e
          PROVE  z = [T |-> Empty(sz), next |-> x.next, tag |-> x.tag, key |-> x.key, ok |-> x.ok]
      BY <3>1 DEF Well
    <3> QED BY <3>1
  <2>2. Empty(sz) \in TableOf(Levels[k]) /\ x.next \in [Nodes -> Pointers]
    BY EmptyOK DEF Well
  <2> HIDE DEF e, sz
  <2>3. Well(e) /\ e.T = Empty(sz) /\ e.next = x.next /\ e.tag = x.tag /\ e.key = x.key
    BY <2>1, <2>2, WellWith
  <2>4. Kept(x, e, {})
    BY <2>3 DEF Kept
  <2>5. \E d : Indexes(e, d, {})
    BY <2>3, EmptyOK DEF sz
  <2> QED BY <2>3, <2>4, <2>5
<1> HIDE DEF e, sz
<1>5. T = {}
  <2> SUFFICES ASSUME T # {} PROVE FALSE
    OBVIOUS
  <2>1. PICK m \in T : \A y \in T : m <= y
    <3>1. T \in SUBSET Nat
      BY <1>0
    <3> HIDE DEF T
    <3> QED BY <3>1, LeastElement
  <2>2. m \in 0 .. Len(all) /\ ~Good(m)
    BY <2>1
  <2>3. CASE m = 0
    BY <2>2, <2>3, <1>3, <1>4, UptoAll
  <2>4. CASE m # 0
    <3>1. m - 1 \in 0 .. Len(all) /\ m - 1 \notin T /\ m \in 1 .. Len(all)
      BY <2>1, <2>2, <2>4, <1>0
    <3>2. Good(m - 1)
      BY <3>1
    <3>3. PICK d : Indexes(g[m-1], d, Upto(all, m - 1))
      BY <3>2
    <3>4. /\ Upto(all, m) = Upto(all, m - 1) \union {all[m]}
          /\ all[m] \in Nodes \ Upto(all, m - 1) /\ Upto(all, m - 1) \in SUBSET Nodes
      BY <3>1, UptoStep
    <3>5. g[m] = PutInto(g[m-1], all[m])
      BY <2>2, <2>4, <1>3
    <3>6. /\ Well(g[m]) /\ Kept(g[m-1], g[m], {all[m]})
          /\ \E f : Indexes(g[m], f, Upto(all, m - 1) \union {all[m]})
      <4> DEFINE a == g[m-1]
                 n == all[m]
                 R == Upto(all, m - 1)
      <4>1. Well(a) /\ Indexes(a, d, R) /\ n \in Nodes \ R /\ R \in SUBSET Nodes
        BY <3>2, <3>3, <3>4
      <4> HIDE DEF a, n, R
      <4>2. /\ Well(PutInto(a, n)) /\ Kept(a, PutInto(a, n), {n})
            /\ \E f : Indexes(PutInto(a, n), f, R \union {n})
        BY <4>1, PutIntoOK
      <4> QED BY <4>2, <3>5 DEF a, n, R
    <3>7. Kept(x, g[m], Upto(all, m))
      BY <3>2, <3>4, <3>6, KeptTrans
    <3> QED BY <3>4, <3>6, <3>7, <2>2
  <2> QED BY <2>3, <2>4
<1>6. Good(Len(all))
  BY <1>5, <1>0
<1>7. Upto(all, Len(all)) = ToSet(all)
  BY UptoAll
<1> QED BY <1>2, <1>6, <1>7 DEF sz

\* increase() keeps the entries.
LEMMA IncreaseOK ==
  ASSUME NEW x, Well(x), NEW S \in SUBSET Nodes, NEW c, Indexes(x, c, S)
  PROVE  LET y == Increase(x)
         IN  Well(y) /\ Kept(x, y, S) /\ \E d : Indexes(y, d, S)
<1>1. CASE Bigger(x.T) = {}
  <2>1. Increase(x) = x
    BY <1>1 DEF Increase
  <2>2. Kept(x, x, S)
    BY DEF Kept
  <2> QED BY <2>1, <2>2
<1>2. CASE Bigger(x.T) # {}
  <2> DEFINE B == Bigger(x.T)
             all == Entries(x.T, x.next)
  <2>1. Increase(x) = Moved(x, NextSize(x.T), all)
    BY <1>2 DEF Increase
  <2>2. B \in SUBSET Nat /\ B \in SUBSET DOMAIN Levels
    BY LevelsAssumption DEF Bigger
  <2>3. \E i \in B : \A j \in B : i <= j
    BY <2>2, <1>2, LeastElement
  <2>4. PICK k \in DOMAIN Levels : NextSize(x.T) = Levels[k]
    BY <2>2, <2>3 DEF NextSize
  <2>5. all \in Seq(Nodes) /\ Distinct(all) /\ ToSet(all) = S
    BY EntriesOK
  <2> HIDE DEF all
  <2>6. LET y == Moved(x, Levels[k], all)
        IN  Well(y) /\ Kept(x, y, ToSet(all)) /\ \E d : Indexes(y, d, ToSet(all))
    BY <2>5, MovedOK
  <2> QED BY <2>1, <2>4, <2>5, <2>6
<1> QED BY <1>1, <1>2

\* put: the node is in the table, unless there was no memory.
LEMMA PutOK ==
  ASSUME NEW x, Well(x), NEW S \in SUBSET Nodes, NEW c, Indexes(x, c, S), NEW n \in Nodes \ S,
         NEW b \in BOOLEAN
  PROVE  LET y == Put(x, n, b)
         IN  /\ Well(y) /\ Kept(x, y, S \union {n})
             /\ y.ok = ~(Grows(x.T) /\ b)
             /\ \E d : Indexes(y, d, IF Grows(x.T) /\ b THEN S ELSE S \union {n})
<1> DEFINE y == Put(x, n, b)
<1>1. CASE Grows(x.T) /\ b
  <2>1. y = [x EXCEPT !.ok = FALSE]
    BY <1>1 DEF Put
  <2> HIDE DEF y
  <2>2. y = [T |-> x.T, next |-> x.next, tag |-> x.tag, key |-> x.key, ok |-> FALSE]
    BY <2>1 DEF Well
  <2>3. PICK i \in DOMAIN Levels : x.T \in TableOf(Levels[i])
    BY DEF Well
  <2>4. x.next \in [Nodes -> Pointers]
    BY DEF Well
  <2>5. /\ Well(y) /\ y.T = x.T /\ y.next = x.next /\ y.tag = x.tag /\ y.key = x.key
        /\ y.ok = FALSE
    BY <2>2, <2>3, <2>4, WellWith
  <2>6. Kept(x, y, S \union {n}) /\ Agree(x, y, S)
    BY <2>5 DEF Kept, Agree
  <2>7. Indexes(y, c, S)
    BY <2>6, IndexesFrame
  <2> QED BY <2>5, <2>6, <2>7, <1>1 DEF y
<1>2. CASE ~(Grows(x.T) /\ b)
  <2> DEFINE z == IF x.T.nr + 1 > x.T.sz THEN Increase(x) ELSE x
  <2>1. y = PutInto(z, n)
    BY <1>2 DEF Put
  <2>2. Kept(x, x, S)
    BY DEF Kept
  <2>3. Well(z) /\ Kept(x, z, S) /\ \E d : Indexes(z, d, S)
    BY <2>2, IncreaseOK
  <2> HIDE DEF z, y
  <2>4. PICK d : Indexes(z, d, S)
    BY <2>3
  <2>5. /\ Well(y) /\ y.ok = TRUE /\ Kept(z, y, {n})
        /\ \E f : Indexes(y, f, S \union {n})
    BY <2>1, <2>3, <2>4, PutIntoOK
  <2>6. Kept(x, y, S \union {n})
    BY <2>3, <2>5, KeptTrans
  <2> QED BY <2>5, <2>6, <1>2 DEF y
<1> QED BY <1>1, <1>2

-----------------------------------------------------------------------------
(***************************************************************************)
(* Several nodes, one after the other.                                     *)
(***************************************************************************)
IsPuts(g, x, q, F, m) ==
  g = [i \in 0 .. m |-> IF i = 0 THEN x ELSE Put(g[i-1], q[i], i \in F)]

LEMMA PutsExist ==
  ASSUME NEW x, NEW q, NEW F, NEW n \in Nat
  PROVE  \E g : IsPuts(g, x, q, F, n)
<1> DEFINE T == {m \in Nat : ~\E g : IsPuts(g, x, q, F, m)}
<1> SUFFICES ASSUME T # {} PROVE FALSE
  OBVIOUS
<1>1. PICK m \in T : \A y \in T : m <= y
  BY LeastElement
<1>2. CASE m = 0
  <2> DEFINE g == [k \in 0 .. 0 |-> x]
  <2>1. IsPuts(g, x, q, F, 0)
    BY DEF IsPuts
  <2> QED BY <2>1, <1>1, <1>2
<1>3. CASE m # 0
  <2>1. m - 1 \in Nat /\ m - 1 \notin T
    BY <1>1, <1>3
  <2>2. PICK g : IsPuts(g, x, q, F, m - 1)
    BY <2>1
  <2> DEFINE f == [k \in 0 .. m |-> IF k = m THEN Put(g[m-1], q[m], m \in F) ELSE g[k]]
  <2>3. \A k \in 0 .. m - 1 : g[k] = IF k = 0 THEN x ELSE Put(g[k-1], q[k], k \in F)
    BY <2>1, <2>2 DEF IsPuts
  <2>4. ASSUME NEW k \in 0 .. m
        PROVE  f[k] = IF k = 0 THEN x ELSE Put(f[k-1], q[k], k \in F)
    BY <2>1, <2>3, <1>3
  <2>5. IsPuts(f, x, q, F, m)
    BY <2>4 DEF IsPuts
  <2> QED BY <2>5, <1>1
<1> QED BY <1>2, <1>3

LEMMA PutAllIs ==
  ASSUME NEW x, NEW q \in Seq(Nodes), NEW F
  PROVE  \A i \in 0 .. Len(q) :
           PutAll(x, q, F)[i] = IF i = 0 THEN x ELSE Put(PutAll(x, q, F)[i-1], q[i], i \in F)
<1> DEFINE g == CHOOSE g : IsPuts(g, x, q, F, Len(q))
<1>0. Len(q) \in Nat
  OBVIOUS
<1>1. IsPuts(g, x, q, F, Len(q))
  BY <1>0, PutsExist, Zenon
<1>2. PutAll(x, q, F) = g
  BY DEF PutAll, IsPuts
<1> HIDE DEF g
<1> QED BY <1>1, <1>2 DEF IsPuts

\* The nodes of q are put into an empty table, those of F excepted.
LEMMA PutAllOK ==
  ASSUME NEW x, Well(x), NEW c, Indexes(x, c, {}), NEW q \in Seq(Nodes), Distinct(q),
         NEW F \in SUBSET DOMAIN q,
         \A i \in DOMAIN q : PutAll(x, q, F)[i].ok <=> i \notin F
  PROVE  LET y == PutAll(x, q, F)[Len(q)]
         IN  /\ Well(y) /\ Kept(x, y, ToSet(q))
             /\ \E d : Indexes(y, d, ToSet(q) \ {q[i] : i \in F})
<1> DEFINE g == PutAll(x, q, F)
           Q == {q[i] : i \in F}
           Good(i) == /\ Well(g[i]) /\ Kept(x, g[i], Upto(q, i))
                      /\ \E d : Indexes(g[i], d, Upto(q, i) \ Q)
           T == {i \in 0 .. Len(q) : ~Good(i)}
<1>0. Len(q) \in Nat /\ DOMAIN q = 1 .. Len(q)
  OBVIOUS
<1>1. \A i \in 0 .. Len(q) : g[i] = IF i = 0 THEN x ELSE Put(g[i-1], q[i], i \in F)
  BY PutAllIs
<1>2. \A i \in 1 .. Len(q) : g[i].ok <=> i \notin F
  BY <1>0
<1>3. \A i \in 1 .. Len(q) : q[i] \in Q <=> i \in F
  BY <1>0 DEF Distinct
<1> HIDE DEF g, Q
<1>4. T = {}
  <2> SUFFICES ASSUME T # {} PROVE FALSE
    OBVIOUS
  <2>1. PICK m \in T : \A y \in T : m <= y
    <3>1. T \in SUBSET Nat
      BY <1>0
    <3> HIDE DEF T
    <3> QED BY <3>1, LeastElement
  <2>2. m \in 0 .. Len(q) /\ ~Good(m)
    BY <2>1
  <2>3. CASE m = 0
    <3>1. g[0] = x /\ Upto(q, 0) = {} /\ {} \ Q = {}
      BY <1>0, <1>1, UptoAll
    <3>2. Kept(x, x, {})
      BY DEF Kept
    <3> QED BY <2>2, <2>3, <3>1, <3>2
  <2>4. CASE m # 0
    <3>1. m - 1 \in 0 .. Len(q) /\ m - 1 \notin T /\ m \in 1 .. Len(q)
      <4> HIDE DEF T
      <4>1. m - 1 \notin T
        BY <2>1, <2>2, <1>0
      <4> QED BY <4>1, <2>2, <2>4, <1>0
    <3>2. Good(m - 1)
      <4> HIDE DEF Good
      <4> QED BY <3>1
    <3> DEFINE a == g[m-1]
               n == q[m]
               R == Upto(q, m - 1) \ Q
               b == m \in F
    <3>3. PICK d : Indexes(a, d, R)
      BY <3>2
    <3>4. /\ Upto(q, m) = Upto(q, m - 1) \union {n}
          /\ n \in Nodes \ Upto(q, m - 1) /\ Upto(q, m - 1) \in SUBSET Nodes
      BY <3>1, UptoStep
    <3>5. g[m] = Put(a, n, b) /\ b \in BOOLEAN /\ n \in Nodes \ R /\ R \in SUBSET Nodes
      BY <2>2, <2>4, <1>1, <3>4
    <3>6. Well(a)
      BY <3>2
    <3>7. (g[m].ok <=> ~b) /\ (n \in Q <=> b)
      BY <3>1, <1>2, <1>3
    <3>8. Upto(q, m) \ Q = IF b THEN R ELSE R \union {n}
      BY <3>4, <3>7
    <3>9. Kept(x, a, Upto(q, m - 1)) /\ R \subseteq Upto(q, m - 1)
      BY <3>2
    <3> HIDE DEF a, n, R, b
    <3>10. /\ Well(g[m]) /\ Kept(a, g[m], R \union {n})
           /\ g[m].ok = ~(Grows(a.T) /\ b)
           /\ \E f : Indexes(g[m], f, IF Grows(a.T) /\ b THEN R ELSE R \union {n})
      <4> DEFINE y == Put(a, n, b)
      <4>1. /\ Well(y) /\ Kept(a, y, R \union {n})
            /\ y.ok = ~(Grows(a.T) /\ b)
            /\ \E f : Indexes(y, f, IF Grows(a.T) /\ b THEN R ELSE R \union {n})
        BY <3>3, <3>5, <3>6, PutOK, Zenon
      <4> HIDE DEF y
      <4>2. g[m] = y
        BY <3>5 DEF y
      <4> QED BY <4>1, <4>2, Zenon
    <3>11. b <=> Grows(a.T) /\ b
      BY <3>7, <3>10
    <3>12. \E f : Indexes(g[m], f, Upto(q, m) \ Q)
      BY <3>8, <3>10, <3>11
    <3>13. Kept(x, g[m], Upto(q, m - 1) \union (R \union {n}))
      BY <3>9, <3>10, KeptTrans
    <3>14. Upto(q, m - 1) \union (R \union {n}) = Upto(q, m)
      BY <3>4, <3>9
    <3>15. Kept(x, g[m], Upto(q, m))
      BY <3>13, <3>14
    <3> QED BY <3>10, <3>12, <3>15, <2>2
  <2> QED BY <2>3, <2>4
<1>5. Good(Len(q))
  <2> HIDE DEF Good
  <2> QED BY <1>4, <1>0
<1>6. Upto(q, Len(q)) = ToSet(q)
  BY UptoAll
<1> QED BY <1>5, <1>6 DEF g, Q

-----------------------------------------------------------------------------
(***************************************************************************)
(* The elements of a sequence that are in a set.                           *)
(***************************************************************************)
IsSelect(g, q, S, m) ==
  g = [i \in 0 .. m |-> IF i = 0 THEN <<>>
                        ELSE IF q[i] \in S THEN Append(g[i-1], q[i]) ELSE g[i-1]]

LEMMA SelectExists ==
  ASSUME NEW q, NEW S, NEW n \in Nat
  PROVE  \E g : IsSelect(g, q, S, n)
<1> DEFINE T == {m \in Nat : ~\E g : IsSelect(g, q, S, m)}
<1> SUFFICES ASSUME T # {} PROVE FALSE
  OBVIOUS
<1>1. PICK m \in T : \A y \in T : m <= y
  BY LeastElement
<1>2. CASE m = 0
  <2> DEFINE g == [k \in 0 .. 0 |-> <<>>]
  <2>1. IsSelect(g, q, S, 0)
    BY DEF IsSelect
  <2> QED BY <2>1, <1>1, <1>2
<1>3. CASE m # 0
  <2>1. m - 1 \in Nat /\ m - 1 \notin T
    BY <1>1, <1>3
  <2>2. PICK g : IsSelect(g, q, S, m - 1)
    BY <2>1
  <2> DEFINE f == [k \in 0 .. m |->
                     IF k = m THEN IF q[m] \in S THEN Append(g[m-1], q[m]) ELSE g[m-1] ELSE g[k]]
  <2>3. \A k \in 0 .. m - 1 :
          g[k] = IF k = 0 THEN <<>> ELSE IF q[k] \in S THEN Append(g[k-1], q[k]) ELSE g[k-1]
    BY <2>1, <2>2 DEF IsSelect
  <2>4. ASSUME NEW k \in 0 .. m
        PROVE  f[k] = IF k = 0 THEN <<>> ELSE IF q[k] \in S THEN Append(f[k-1], q[k]) ELSE f[k-1]
    BY <2>1, <2>3, <1>3
  <2>5. IsSelect(f, q, S, m)
    BY <2>4 DEF IsSelect
  <2> QED BY <2>5, <1>1
<1> QED BY <1>2, <1>3

LEMMA AppendOK ==
  ASSUME NEW q \in Seq(Nodes), Distinct(q), NEW n \in Nodes, n \notin ToSet(q)
  PROVE  /\ Append(q, n) \in Seq(Nodes) /\ Distinct(Append(q, n))
         /\ ToSet(Append(q, n)) = ToSet(q) \union {n}
<1> DEFINE r == Append(q, n)
<1>1. /\ Len(q) \in Nat /\ DOMAIN q = 1 .. Len(q) /\ r \in Seq(Nodes) /\ DOMAIN r = 1 .. Len(q) + 1
      /\ r[Len(q) + 1] = n /\ \A k \in 1 .. Len(q) : r[k] = q[k]
  OBVIOUS
<1> HIDE DEF r
<1>2. \A k : k \in 1 .. Len(q) + 1 <=> (k \in 1 .. Len(q) \/ k = Len(q) + 1)
  BY <1>1
<1>3. \A k \in 1 .. Len(q) : q[k] # n
  BY <1>1 DEF ToSet
<1>4. Distinct(r)
  BY <1>1, <1>2, <1>3 DEF Distinct
<1>5. ToSet(r) = ToSet(q) \union {n}
  BY <1>1, <1>2 DEF ToSet
<1> QED BY <1>1, <1>4, <1>5 DEF r

LEMMA SelectOK ==
  ASSUME NEW q \in Seq(Nodes), Distinct(q), NEW S
  PROVE  /\ Select(q, S) \in Seq(Nodes) /\ Distinct(Select(q, S))
         /\ ToSet(Select(q, S)) = ToSet(q) \intersect S
<1> DEFINE g == CHOOSE g : IsSelect(g, q, S, Len(q))
           Good(i) == /\ g[i] \in Seq(Nodes) /\ Distinct(g[i])
                      /\ ToSet(g[i]) = Upto(q, i) \intersect S
           T == {i \in 0 .. Len(q) : ~Good(i)}
<1>0. Len(q) \in Nat
  OBVIOUS
<1>1. IsSelect(g, q, S, Len(q))
  BY <1>0, SelectExists, Zenon
<1>2. Select(q, S) = g[Len(q)]
  BY DEF Select, IsSelect
<1> HIDE DEF g
<1>3. \A i \in 0 .. Len(q) :
        g[i] = IF i = 0 THEN <<>> ELSE IF q[i] \in S THEN Append(g[i-1], q[i]) ELSE g[i-1]
  BY <1>1 DEF IsSelect
<1>4. T = {}
  <2> SUFFICES ASSUME T # {} PROVE FALSE
    OBVIOUS
  <2>1. PICK m \in T : \A y \in T : m <= y
    <3>1. T \in SUBSET Nat
      BY <1>0
    <3> HIDE DEF T
    <3> QED BY <3>1, LeastElement
  <2>2. m \in 0 .. Len(q) /\ ~Good(m)
    BY <2>1
  <2>3. CASE m = 0
    <3>1. g[0] = <<>> /\ <<>> \in Seq(Nodes) /\ Distinct(<<>>) /\ ToSet(<<>>) = {}
      BY <1>0, <1>3 DEF Distinct, ToSet
    <3> QED BY <3>1, <2>2, <2>3, UptoAll
  <2>4. CASE m # 0
    <3>1. m - 1 \in 0 .. Len(q) /\ m - 1 \notin T /\ m \in 1 .. Len(q)
      BY <2>1, <2>2, <2>4, <1>0
    <3>2. g[m-1] \in Seq(Nodes) /\ Distinct(g[m-1]) /\ ToSet(g[m-1]) = Upto(q, m - 1) \intersect S
      BY <3>1
    <3>3. /\ Upto(q, m) = Upto(q, m - 1) \union {q[m]}
          /\ q[m] \in Nodes \ Upto(q, m - 1)
      BY <3>1, UptoStep
    <3>4. CASE q[m] \in S
      <4>1. g[m] = Append(g[m-1], q[m])
        BY <3>4, <2>2, <2>4, <1>3
      <4>2. q[m] \notin ToSet(g[m-1]) /\ q[m] \in Nodes
        BY <3>2, <3>3
      <4>3. g[m] \in Seq(Nodes) /\ Distinct(g[m]) /\ ToSet(g[m]) = ToSet(g[m-1]) \union {q[m]}
        BY <4>1, <4>2, <3>2, AppendOK
      <4>4. ToSet(g[m]) = Upto(q, m) \intersect S
        BY <4>3, <3>2, <3>3, <3>4
      <4> QED BY <4>3, <4>4, <2>2
    <3>5. CASE q[m] \notin S
      <4>1. g[m] = g[m-1]
        BY <3>5, <2>2, <2>4, <1>3
      <4>2. Upto(q, m) \intersect S = Upto(q, m - 1) \intersect S
        BY <3>3, <3>5
      <4> QED BY <4>1, <4>2, <3>2, <2>2
    <3> QED BY <3>4, <3>5
  <2> QED BY <2>3, <2>4
<1>5. Good(Len(q))
  BY <1>4, <1>0
<1> QED BY <1>2, <1>5, UptoAll

LEMMA WithoutOK ==
  ASSUME NEW q \in Seq(Nodes), Distinct(q), NEW S
  PROVE  /\ Without(q, S) \in Seq(Nodes) /\ Distinct(Without(q, S))
         /\ ToSet(Without(q, S)) = ToSet(q) \ S
<1>1. ToSet(q) \intersect (Nodes \ S) = ToSet(q) \ S
  BY DEF ToSet
<1> QED BY <1>1, SelectOK DEF Without

-----------------------------------------------------------------------------
IsRemovals(g, x, q, m) ==
  g = [i \in 0 .. m |-> IF i = 0 THEN x ELSE Remove(g[i-1], q[i])]

LEMMA RemovalsExist ==
  ASSUME NEW x, NEW q, NEW n \in Nat
  PROVE  \E g : IsRemovals(g, x, q, n)
<1> DEFINE T == {m \in Nat : ~\E g : IsRemovals(g, x, q, m)}
<1> SUFFICES ASSUME T # {} PROVE FALSE
  OBVIOUS
<1>1. PICK m \in T : \A y \in T : m <= y
  BY LeastElement
<1>2. CASE m = 0
  <2> DEFINE g == [k \in 0 .. 0 |-> x]
  <2>1. IsRemovals(g, x, q, 0)
    BY DEF IsRemovals
  <2> QED BY <2>1, <1>1, <1>2
<1>3. CASE m # 0
  <2>1. m - 1 \in Nat /\ m - 1 \notin T
    BY <1>1, <1>3
  <2>2. PICK g : IsRemovals(g, x, q, m - 1)
    BY <2>1
  <2> DEFINE f == [k \in 0 .. m |-> IF k = m THEN Remove(g[m-1], q[m]) ELSE g[k]]
  <2>3. \A k \in 0 .. m - 1 : g[k] = IF k = 0 THEN x ELSE Remove(g[k-1], q[k])
    BY <2>1, <2>2 DEF IsRemovals
  <2>4. ASSUME NEW k \in 0 .. m
        PROVE  f[k] = IF k = 0 THEN x ELSE Remove(f[k-1], q[k])
    BY <2>1, <2>3, <1>3
  <2>5. IsRemovals(f, x, q, m)
    BY <2>4 DEF IsRemovals
  <2> QED BY <2>5, <1>1
<1> QED BY <1>2, <1>3

\* The nodes of q are removed from a table.
LEMMA RemoveAllOK ==
  ASSUME NEW x, Well(x), NEW S \in SUBSET Nodes, NEW c, Indexes(x, c, S),
         NEW q \in Seq(Nodes), Distinct(q)
  PROVE  LET y == RemoveAll(x, q)
         IN  Well(y) /\ Kept(x, y, S) /\ \E d : Indexes(y, d, S \ ToSet(q))
<1> DEFINE g == CHOOSE g : IsRemovals(g, x, q, Len(q))
           Good(i) == /\ Well(g[i]) /\ Kept(x, g[i], S)
                      /\ \E d : Indexes(g[i], d, S \ Upto(q, i))
           T == {i \in 0 .. Len(q) : ~Good(i)}
<1>0. Len(q) \in Nat
  OBVIOUS
<1>1. IsRemovals(g, x, q, Len(q))
  BY <1>0, RemovalsExist, Zenon
<1>2. RemoveAll(x, q) = g[Len(q)]
  BY DEF RemoveAll, IsRemovals
<1> HIDE DEF g
<1>3. \A i \in 0 .. Len(q) : g[i] = IF i = 0 THEN x ELSE Remove(g[i-1], q[i])
  BY <1>1 DEF IsRemovals
<1>4. T = {}
  <2> SUFFICES ASSUME T # {} PROVE FALSE
    OBVIOUS
  <2>1. PICK m \in T : \A y \in T : m <= y
    <3>1. T \in SUBSET Nat
      BY <1>0
    <3> HIDE DEF T
    <3> QED BY <3>1, LeastElement
  <2>2. m \in 0 .. Len(q) /\ ~Good(m)
    BY <2>1
  <2>3. CASE m = 0
    <3>1. g[0] = x /\ Upto(q, 0) = {} /\ S \ {} = S
      BY <1>0, <1>3, UptoAll
    <3>2. Kept(x, x, S)
      BY DEF Kept
    <3> QED BY <2>2, <2>3, <3>1, <3>2
  <2>4. CASE m # 0
    <3>1. m - 1 \in 0 .. Len(q) /\ m - 1 \notin T /\ m \in 1 .. Len(q)
      <4> HIDE DEF T
      <4>1. m - 1 \notin T
        BY <2>1, <2>2, <1>0
      <4> QED BY <4>1, <2>2, <2>4, <1>0
    <3>2. Good(m - 1)
      <4> HIDE DEF Good
      <4> QED BY <3>1
    <3> DEFINE a == g[m-1]
               n == q[m]
               R == S \ Upto(q, m - 1)
    <3>3. PICK d : Indexes(a, d, R)
      BY <3>2
    <3>4. Upto(q, m) = Upto(q, m - 1) \union {n} /\ n \in Nodes
      BY <3>1, UptoStep
    <3>5. g[m] = Remove(a, n) /\ R \in SUBSET Nodes /\ R \subseteq S
      BY <2>2, <2>4, <1>3
    <3>6. Well(a) /\ Kept(x, a, S)
      BY <3>2
    <3>7. R \ {n} = S \ Upto(q, m)
      BY <3>4
    <3> HIDE DEF a, n, R
    <3>8. Well(g[m]) /\ Kept(a, g[m], R) /\ \E f : Indexes(g[m], f, R \ {n})
      <4> DEFINE y == Remove(a, n)
      <4>1. Well(y) /\ Kept(a, y, R) /\ \E f : Indexes(y, f, R \ {n})
        BY <3>3, <3>4, <3>5, <3>6, RemoveOK, Zenon
      <4> QED BY <4>1, <3>5, Zenon
    <3>9. Kept(x, g[m], S)
      <4>1. Kept(x, g[m], S \union R) /\ S \union R = S
        BY <3>5, <3>6, <3>8, KeptTrans
      <4> QED BY <4>1
    <3> QED BY <3>7, <3>8, <3>9, <2>2
  <2> QED BY <2>3, <2>4
<1>5. Good(Len(q))
  <2> HIDE DEF Good
  <2> QED BY <1>4, <1>0
<1> QED BY <1>2, <1>5, UptoAll

\* The first element of q in S.
LEMMA FirstOK ==
  ASSUME NEW q \in Seq(Nodes), NEW S
  PROVE  IF First(q, S) = NULL THEN ToSet(q) \intersect S = {}
         ELSE First(q, S) \in ToSet(q) \intersect S
<1> DEFINE hit == {i \in DOMAIN q : q[i] \in S}
<1>0. hit \in SUBSET Nat /\ \A i \in hit : q[i] \in Nodes /\ q[i] # NULL
  BY NodesAssumption
<1>1. CASE hit = {}
  BY <1>1 DEF First, ToSet
<1>2. CASE hit # {}
  <2> DEFINE i == CHOOSE i \in hit : \A j \in hit : i <= j
  <2>1. i \in hit
    <3> HIDE DEF hit
    <3>1. \E k \in hit : \A j \in hit : k <= j
      BY <1>0, <1>2, LeastElement
    <3> QED BY <3>1
  <2>2. First(q, S) = q[i]
    BY <1>2 DEF First
  <2> HIDE DEF i
  <2>3. q[i] \in ToSet(q) /\ q[i] \in S /\ q[i] # NULL
    BY <2>1, <1>0 DEF ToSet
  <2> QED BY <2>2, <2>3
<1> QED BY <1>1, <1>2

-----------------------------------------------------------------------------
(***************************************************************************)
(* What the invariant says.                                                *)
(***************************************************************************)
LEMMA NodeTypes ==
  ASSUME TypeOK
  PROVE  /\ tag \in [Nodes -> Nat] /\ key \in [Nodes -> Nat]
         /\ ht_next \in [Nodes -> Pointers] /\ NULL \notin Nodes /\ NULL \notin Parents
BY ValuesAssumption, NodesAssumption DEF TypeOK, NoKey, Pointers

LEMMA TableWell ==
  ASSUME TypeOK, NEW p \in Parents
  PROVE  /\ Well(Table(p)) /\ Table(p).T = tab[p] /\ Table(p).next = ht_next
         /\ Table(p).tag = tag /\ Table(p).key = key /\ Table(p).ok = TRUE
<1>1. \E i \in DOMAIN Levels : tab[p] \in TableOf(Levels[i])
  BY DEF TypeOK
<1> QED BY <1>1, NodeTypes DEF Table, Well

LEMMA KidsType ==
  ASSUME TypeOK, NEW p \in Parents
  PROVE  Kids(p) \in SUBSET Nodes /\ Kids(p) \ unindexed \in SUBSET Nodes
BY DEF TypeOK, Kids, ToSet

\* The slots of p, and what is in them.
LEMMA SlotOK ==
  ASSUME TypeOK, Indexed, NEW p \in Parents, NEW i \in 0 .. tab[p].sz - 1
  PROVE  LET q == Slot(tab[p], ht_next, i)
         IN  /\ q \in Seq(Nodes) /\ Distinct(q)
             /\ ToSet(q) = {n \in Kids(p) \ unindexed : Hash(tag[n], key[n], tab[p].sz) = i}
             /\ IF i \in tab[p].bm THEN Linked(tab[p].ht[i], ht_next, q) ELSE q = <<>>
<1> DEFINE x == Table(p)
           S == Kids(p) \ unindexed
           c == Slots(x)
<1>1. /\ Well(x) /\ x.T = tab[p] /\ x.next = ht_next /\ x.tag = tag /\ x.key = key
  BY TableWell
<1>2. Indexes(x, c, S)
  BY DEF Indexed
<1> HIDE DEF x, S, c
<1>3. Slot(tab[p], ht_next, i) = c[i]
  BY <1>1, <1>2, SlotsAre
<1>4. /\ c[i] \in Seq(Nodes) /\ Distinct(c[i])
      /\ ToSet(c[i]) = {n \in S : Hash(tag[n], key[n], tab[p].sz) = i}
      /\ IF i \in tab[p].bm THEN Linked(tab[p].ht[i], ht_next, c[i]) ELSE c[i] = <<>>
  BY <1>1, <1>2 DEF Indexes
<1> QED BY <1>3, <1>4 DEF S

\* The table and the list name the same nodes.
LEMMA InvExact ==
  ASSUME TypeOK, Indexed
  PROVE  IndexExact
<1> SUFFICES ASSUME NEW p \in Parents
             PROVE  LET es == Entries(tab[p], ht_next)
                    IN  /\ Straight(tab[p], ht_next)
                        /\ tab[p].nr = Len(es)
                        /\ Distinct(es)
                        /\ ToSet(es) = Kids(p) \ unindexed
                        /\ \A i \in tab[p].bm : \A n \in ToSet(Slot(tab[p], ht_next, i)) :
                             i = Hash(tag[n], key[n], tab[p].sz)
  BY DEF IndexExact
<1> DEFINE x == Table(p)
           S == Kids(p) \ unindexed
           c == Slots(x)
           es == Entries(tab[p], ht_next)
<1>1. /\ Well(x) /\ x.T = tab[p] /\ x.next = ht_next /\ x.tag = tag /\ x.key = key
  BY TableWell
<1>2. Indexes(x, c, S) /\ S \in SUBSET Nodes
  BY KidsType DEF Indexed
<1>3. \A i \in tab[p].bm : \A n \in ToSet(Slot(tab[p], ht_next, i)) :
        i = Hash(tag[n], key[n], tab[p].sz)
  <2>1. tab[p].bm \in SUBSET (0 .. tab[p].sz - 1)
    BY <1>1, WellParts
  <2> QED BY <2>1, SlotOK
<1> HIDE DEF x, S, c
<1>4. Straight(tab[p], ht_next)
  BY <1>1, <1>2, SlotsAre
<1>5. es \in Seq(Nodes) /\ Distinct(es) /\ ToSet(es) = S
  BY <1>1, <1>2, EntriesOK
<1> HIDE DEF es
<1>6. Cardinality(S) = Len(es)
  BY <1>5, DistinctSize
<1>7. tab[p].nr = Len(es)
  BY <1>1, <1>2, <1>6 DEF Indexes
<1> QED BY <1>3, <1>4, <1>5, <1>7 DEF es, S

\* The lookups are right.
LEMMA InvLookups ==
  ASSUME IInv
  PROVE  LookupsRight
<1>0. TypeOK /\ Owned /\ Indexed /\ KeysSeen /\ CallOK
  BY DEF IInv
<1>1. /\ tag \in [Nodes -> Nat] /\ key \in [Nodes -> Nat] /\ NULL \notin Nodes
  BY <1>0, NodeTypes
<1>2. ASSUME call.op # "none"
      PROVE  /\ Found => call.c \in Kids(call.p)
             /\ call.c = NULL =>
                  \A n \in Kids(call.p) : IsMatch(n, call.tag, call.key) => n \in unindexed
  <2> DEFINE p == call.p
             T == tab[p]
             hi == Hash(call.tag, call.key, T.sz)
             q == Slot(T, ht_next, hi)
  <2>1. p \in Parents /\ hi \in T.bm
    BY <1>0, <1>2 DEF CallOK
  <2>2. T.bm \in SUBSET (0 .. T.sz - 1)
    BY <2>1, <1>0, TableWell, WellParts
  <2>3. /\ q \in Seq(Nodes) /\ Distinct(q)
        /\ ToSet(q) = {n \in Kids(p) \ unindexed : Hash(tag[n], key[n], T.sz) = hi}
    <3>1. hi \in 0 .. T.sz - 1
      BY <2>1, <2>2
    <3> HIDE DEF hi
    <3> QED BY <3>1, <2>1, <1>0, SlotOK
  <2>4. PICK k \in 1 .. Len(q) + 1 :
               /\ call.c = At(q, k)
               /\ \A j \in 1 .. k - 1 : ~IsMatch(q[j], call.tag, call.key)
    BY <1>0, <1>2 DEF CallOK
  <2>5. \A n \in Kids(p) : n \notin unindexed /\ IsMatch(n, call.tag, call.key) => n \in ToSet(q)
    BY <2>3 DEF IsMatch
  <2> HIDE DEF q
  <2>6. Found => call.c \in Kids(p)
    <3> SUFFICES ASSUME Found PROVE call.c \in Kids(p)
      OBVIOUS
    <3>1. call.c = q[k] /\ k \in DOMAIN q
      BY <2>3, <2>4 DEF Found, At
    <3>2. call.c \in ToSet(q)
      BY <3>1 DEF ToSet
    <3> QED BY <3>2, <2>3
  <2>7. ASSUME call.c = NULL, NEW n \in Kids(p), IsMatch(n, call.tag, call.key), n \notin unindexed
        PROVE  FALSE
    <3>1. k = Len(q) + 1
      BY <2>3, <2>4, <2>7, <1>1 DEF At
    <3>2. PICK j \in DOMAIN q : n = q[j]
      BY <2>5, <2>7 DEF ToSet
    <3>3. j \in 1 .. k - 1
      BY <3>1, <3>2, <2>3
    <3> QED BY <3>2, <3>3, <2>4, <2>7
  <2> QED BY <2>6, <2>7
<1>3. ASSUME NEW p \in Parents, NEW t \in Tags
      PROVE  LET n == FindChildByTag(p, t)
             IN  IF n = NULL THEN \A c \in Kids(p) : tag[c] = t => c \in rekeyed \union unindexed
                 ELSE n \in Kids(p) /\ tag[n] = t
  <2>1. CASE childlist[p] = <<>>
    <3>1. Kids(p) = {}
      BY <2>1 DEF Kids, ToSet
    <3>2. FindChildByTag(p, t) = NULL
      BY <2>1 DEF FindChildByTag
    <3> QED BY <3>1, <3>2
  <2>2. CASE childlist[p] # <<>> /\ child_has_key[p]
    <3> DEFINE M == {n \in Nodes : tag[n] = t}
    <3>1. FindChildByTag(p, t) = First(childlist[p], M)
      BY <2>2 DEF FindChildByTag
    <3>2. childlist[p] \in Seq(Nodes) /\ Kids(p) \in SUBSET Nodes
      BY <1>0, KidsType DEF TypeOK
    <3>3. IF First(childlist[p], M) = NULL THEN Kids(p) \intersect M = {}
          ELSE First(childlist[p], M) \in Kids(p) \intersect M
      BY <3>2, FirstOK DEF Kids
    <3> QED BY <3>1, <3>2, <3>3
  <2>3. CASE childlist[p] # <<>> /\ ~child_has_key[p]
    <3> DEFINE M == {n \in Nodes : IsMatch(n, t, NoKey)}
               hi == Hash(t, NoKey, tab[p].sz)
               q == Slot(tab[p], ht_next, hi)
    <3>1. FindChildByTag(p, t) = First(q, M)
      BY <2>3 DEF FindChildByTag
    <3>2. hi \in 0 .. tab[p].sz - 1
      <4>1. tab[p].sz \in Nat \ {0} /\ t \in Nat /\ NoKey \in Nat
        BY <1>0, TableWell, WellParts, ValuesAssumption DEF NoKey
      <4> QED BY <4>1, HashType
    <3>3. /\ q \in Seq(Nodes)
          /\ ToSet(q) = {n \in Kids(p) \ unindexed : Hash(tag[n], key[n], tab[p].sz) = hi}
      <4> HIDE DEF hi
      <4> QED BY <3>2, <1>0, SlotOK
    <3>4. IF First(q, M) = NULL THEN ToSet(q) \intersect M = {}
          ELSE First(q, M) \in ToSet(q) \intersect M
      <4> HIDE DEF q
      <4> QED BY <3>3, FirstOK
    <3>5. Kids(p) \in SUBSET Nodes
      BY <1>0, KidsType
    <3>6. ASSUME First(q, M) = NULL, NEW n \in Kids(p), tag[n] = t
          PROVE  n \in rekeyed \union unindexed
      <4>1. CASE key[n] # NoKey
        BY <4>1, <2>3, <1>0 DEF KeysSeen
      <4>2. CASE key[n] = NoKey
        <5>1. n \in M /\ Hash(tag[n], key[n], tab[p].sz) = hi
          BY <4>2, <3>5, <3>6 DEF IsMatch
        <5>2. n \notin ToSet(q)
          BY <5>1, <3>4, <3>6
        <5> QED BY <5>1, <5>2, <3>3, <3>6
      <4> QED BY <4>1, <4>2
    <3>7. First(q, M) # NULL => First(q, M) \in Kids(p) /\ tag[First(q, M)] = t
      BY <3>3, <3>4 DEF IsMatch
    <3> HIDE DEF q, M
    <3> QED BY <3>1, <3>6, <3>7
  <2> QED BY <2>1, <2>2, <2>3
<1> QED BY <1>2, <1>3 DEF LookupsRight, LookupRight, ByTagRight

-----------------------------------------------------------------------------
(***************************************************************************)
(* The invariant holds initially.                                          *)
(***************************************************************************)
\* The pool lists every node once.
LEMMA ListingOK == Listing(Nodes) \in Seq(Nodes) /\ Distinct(Listing(Nodes))
<1> DEFINE N == Cardinality(Nodes)
           q == Listing(Nodes)
<1>1. N \in Nat /\ ExistsBijection(1 .. N, Nodes)
  BY NodesAssumption, FS_CardinalityType
<1>2. PICK f \in Bijection(1 .. N, Nodes) : TRUE
  BY <1>1 DEF ExistsBijection
<1>3. f \in [1 .. N -> Nodes] /\ \A n \in Nodes : \E i \in 1 .. N : f[i] = n
  BY <1>2 DEF Bijection, Surjection
<1>4. q \in [1 .. N -> Nodes] /\ \A n \in Nodes : \E i \in DOMAIN q : q[i] = n
  <2>1. \A n \in Nodes : \E i \in DOMAIN f : f[i] = n
    BY <1>3
  <2> QED BY <1>3, <2>1 DEF Listing
<1> HIDE DEF q
<1>5. q \in Seq(Nodes) /\ DOMAIN q = 1 .. N
  BY <1>1, <1>4, SeqOf
<1>6. q \in Surjection(1 .. N, Nodes)
  BY <1>4, <1>5 DEF Surjection
<1>7. q \in Injection(1 .. N, Nodes)
  <2>1. 1 \in Int /\ N \in Int
    BY <1>1
  <2>2. IsFiniteSet(1 .. N) /\ Cardinality(1 .. N) = IF 1 > N THEN 0 ELSE N - 1 + 1
    BY <2>1, FS_Interval, Zenon
  <2>3. Cardinality(Nodes) = Cardinality(1 .. N)
    BY <1>1, <2>2
  <2> QED BY <1>6, <2>2, <2>3, FS_Surjection
<1>8. Distinct(q)
  BY <1>5, <1>7 DEF Distinct, Injection, IsInjective
<1> QED BY <1>5, <1>8 DEF q

LEMMA ClearedOK ==
  /\ 1 \in DOMAIN Levels /\ Cleared \in TableOf(Levels[1])
  /\ \A x : x.T = Cleared => \E c : Indexes(x, c, {})
<1>1. 1 \in DOMAIN Levels
  BY LevelsAssumption
<1> QED BY <1>1, EmptyOK DEF Cleared

LEMMA InitInv ==
  ASSUME Init
  PROVE  IInv
<1>1. TypeOK
  <2>1. free \in Seq(Nodes)
    BY ListingOK DEF Init
  <2>2. val \in [Parents -> Docs]
    BY StartAssumption DEF Init
  <2>3. tab = [p \in Parents |-> tab[p]] /\ \A p \in Parents : tab[p] \in TableOf(Levels[1])
    BY ClearedOK DEF Init
  <2>4. call \in [op : {"none", "find", "remove"}, p : Parents \union {NULL},
                  tag : Tags \union {0}, key : Keys \union {NoKey},
                  c : Nodes \union {NULL}, pos : Nodes \union {NULL}]
    BY DEF Init, NoCall
  <2>5. edits \in 0 .. MaxEdits
    BY ValuesAssumption DEF Init
  <2>6. childlist \in [Parents -> Seq(Nodes)]
    BY DEF Init
  <2>7. \A p \in Parents : \E i \in DOMAIN Levels : tab[p] \in TableOf(Levels[i])
    BY <2>3, ClearedOK
  <2>8. /\ tag \in [Nodes -> Tags \union {0}] /\ key \in [Nodes -> Keys \union {NoKey}]
        /\ parent \in [Nodes -> Parents \union {NULL}] /\ ht_next \in [Nodes -> Nodes \union {NULL}]
        /\ expanded \in [Parents -> BOOLEAN] /\ child_has_key \in [Parents -> BOOLEAN]
    BY DEF Init
  <2> QED BY <2>1, <2>2, <2>3, <2>4, <2>5, <2>6, <2>7, <2>8 DEF TypeOK
<1>2. \A p \in Parents : childlist[p] = <<>> /\ Kids(p) = {} /\ tab[p] = Cleared
  BY DEF Init, Kids, ToSet
<1>3. Owned
  <2>1. Distinct(free) /\ \A n \in ToSet(free) : tag[n] = 0 /\ n \notin unindexed
    <3>1. ToSet(free) \in SUBSET Nodes
      BY <1>1 DEF TypeOK, ToSet
    <3> QED BY <3>1, ListingOK DEF Init
  <2>2. Distinct(<<>>)
    BY DEF Distinct
  <2> QED BY <2>1, <2>2, <1>2 DEF Owned
<1>4. Indexed
  <2> SUFFICES ASSUME NEW p \in Parents
               PROVE  Indexes(Table(p), Slots(Table(p)), Kids(p) \ unindexed)
    BY DEF Indexed
  <2> DEFINE x == Table(p)
  <2>1. Well(x) /\ x.T = Cleared
    BY <1>1, <1>2, TableWell
  <2> HIDE DEF x
  <2>2. PICK c : Indexes(x, c, {})
    BY <2>1, ClearedOK
  <2>3. Indexes(x, Slots(x), {})
    BY <2>1, <2>2, IndexesSlots
  <2>4. Kids(p) \ unindexed = {}
    BY <1>2
  <2> QED BY <2>3, <2>4 DEF x
<1>5. KeysSeen /\ CallOK
  BY <1>2 DEF KeysSeen, CallOK, Init, NoCall
<1> QED BY <1>1, <1>3, <1>4, <1>5 DEF IInv

-----------------------------------------------------------------------------
(***************************************************************************)
(* What a step has to show.                                                *)
(***************************************************************************)
LEMMA TableWellNext ==
  ASSUME TypeOK', NEW p \in Parents
  PROVE  /\ Well(Table(p)') /\ Table(p)'.T = tab'[p] /\ Table(p)'.next = ht_next'
         /\ Table(p)'.tag = tag' /\ Table(p)'.key = key'
<1>1. \E i \in DOMAIN Levels : tab'[p] \in TableOf(Levels[i])
  BY DEF TypeOK
<1>2. tag' \in [Nodes -> Nat] /\ key' \in [Nodes -> Nat] /\ ht_next' \in [Nodes -> Pointers]
  BY ValuesAssumption DEF TypeOK, NoKey, Pointers
<1> QED BY <1>1, <1>2 DEF Table, Well

\* A step changes the table of p, to that of y, and nothing that the other
\* tables hold.
LEMMA IndexedNext ==
  ASSUME TypeOK, TypeOK', Indexed, NEW p \in Parents, NEW y, NEW d,
         Indexes(y, d, ToSet(childlist'[p]) \ unindexed'),
         y.T = tab'[p], y.next = ht_next', y.tag = tag', y.key = key',
         \A r \in Parents \ {p} :
           /\ tab'[r] = tab[r]
           /\ ToSet(childlist'[r]) \ unindexed' = Kids(r) \ unindexed
           /\ \A n \in Kids(r) \ unindexed :
                ht_next'[n] = ht_next[n] /\ tag'[n] = tag[n] /\ key'[n] = key[n]
  PROVE  Indexed'
<1> SUFFICES ASSUME NEW r \in Parents
             PROVE  Indexes(Table(r), Slots(Table(r)), Kids(r) \ unindexed)'
  BY DEF Indexed
<1> DEFINE z == Table(r)'
           S == ToSet(childlist'[r]) \ unindexed'
<1>1. /\ Well(z) /\ z.T = tab'[r] /\ z.next = ht_next' /\ z.tag = tag' /\ z.key = key'
  BY TableWellNext
<1>2. \E c : Indexes(z, c, S)
  <2>1. CASE r = p
    <3> HIDE DEF z
    <3>1. Agree(y, z, S)
      BY <1>1, <2>1 DEF Agree
    <3>2. Indexes(z, d, S)
      BY <3>1, <2>1, IndexesFrame
    <3> QED BY <3>2
  <2>2. CASE r # p
    <3> DEFINE x == Table(r)
    <3>1. x.T = tab[r] /\ x.next = ht_next /\ x.tag = tag /\ x.key = key
      BY TableWell
    <3>2. Indexes(x, Slots(x), Kids(r) \ unindexed)
      BY DEF Indexed
    <3>3. /\ tab'[r] = tab[r] /\ S = Kids(r) \ unindexed
          /\ \A n \in Kids(r) \ unindexed :
               ht_next'[n] = ht_next[n] /\ tag'[n] = tag[n] /\ key'[n] = key[n]
      BY <2>2
    <3> HIDE DEF x, z, S
    <3>4. Agree(x, z, S)
      BY <1>1, <3>1, <3>3 DEF Agree
    <3>5. Indexes(z, Slots(x), S)
      BY <3>2, <3>3, <3>4, IndexesFrame
    <3> QED BY <3>5
  <2> QED BY <2>1, <2>2
<1>3. Indexes(z, Slots(z), S)
  <2> HIDE DEF z, S
  <2> QED BY <1>1, <1>2, IndexesSlots
<1> QED BY <1>3 DEF Kids

\* Without a lookup.
LEMMA NoCallNext ==
  ASSUME call' = NoCall
  PROVE  CallOK'
BY DEF CallOK, NoCall

\* The list of p changes, the others stay.
LEMMA ListsNext ==
  ASSUME TypeOK, NEW p \in Parents, NEW q \in Seq(Nodes), childlist' = [childlist EXCEPT ![p] = q]
  PROVE  /\ childlist' \in [Parents -> Seq(Nodes)]
         /\ childlist'[p] = q /\ \A r \in Parents \ {p} : childlist'[r] = childlist[r]
BY DEF TypeOK

\* The lists have no node in common.
LEMMA Apart ==
  ASSUME TypeOK, Owned, NEW p \in Parents
  PROVE  /\ Kids(p) \intersect ToSet(free) = {}
         /\ \A r \in Parents \ {p} : Kids(p) \intersect Kids(r) = {}
         /\ ToSet(free) \in SUBSET Nodes /\ Kids(p) \in SUBSET Nodes
<1>1. ToSet(free) \in SUBSET Nodes /\ Kids(p) \in SUBSET Nodes
  BY DEF TypeOK, Kids, ToSet
<1>2. Kids(p) \intersect ToSet(free) = {}
  BY DEF Owned
<1>3. \A r \in Parents \ {p} : Kids(p) \intersect Kids(r) = {}
  BY DEF Owned
<1> QED BY <1>1, <1>2, <1>3

\* The nodes of q go back to the pool.
LEMMA ReleasedOK ==
  ASSUME TypeOK, Owned, NEW q \in Seq(Nodes), Distinct(q), ToSet(q) \intersect ToSet(free) = {},
         Released(q)
  PROVE  /\ tag' \in [Nodes -> Tags \union {0}] /\ key' \in [Nodes -> Keys \union {NoKey}]
         /\ free' \in Seq(Nodes) /\ Distinct(free') /\ ToSet(free') = ToSet(q) \union ToSet(free)
         /\ \A n \in ToSet(free') : tag'[n] = 0 /\ n \notin unindexed'
         /\ \A n \in Nodes \ ToSet(q) : tag'[n] = tag[n] /\ key'[n] = key[n]
         /\ unindexed' = unindexed \ ToSet(q) /\ rekeyed' = rekeyed \ ToSet(q)
         /\ parent' = parent
<1>1. /\ tag' = [n \in Nodes |-> IF n \in ToSet(q) THEN 0 ELSE tag[n]]
      /\ key' = [n \in Nodes |-> IF n \in ToSet(q) THEN NoKey ELSE key[n]]
      /\ free' = q \o free
      /\ unindexed' = unindexed \ ToSet(q) /\ rekeyed' = rekeyed \ ToSet(q)
      /\ parent' = parent
  BY DEF Released
<1>2. /\ tag \in [Nodes -> Tags \union {0}] /\ key \in [Nodes -> Keys \union {NoKey}]
      /\ free \in Seq(Nodes) /\ Distinct(free) /\ ToSet(free) \in SUBSET Nodes
      /\ \A n \in ToSet(free) : tag[n] = 0 /\ n \notin unindexed
  BY DEF TypeOK, Owned, ToSet
<1>3. ToSet(q) \in SUBSET Nodes
  BY DEF ToSet
<1>4. tag' \in [Nodes -> Tags \union {0}] /\ key' \in [Nodes -> Keys \union {NoKey}]
  BY <1>1, <1>2
<1>5. q \o free \in Seq(Nodes) /\ Distinct(q \o free) /\ ToSet(q \o free) = ToSet(q) \union ToSet(free)
  BY <1>2, ConcatOK
<1>6. \A n \in ToSet(free') : tag'[n] = 0 /\ n \notin unindexed'
  BY <1>1, <1>2, <1>3, <1>5
<1>7. \A n \in Nodes \ ToSet(q) : tag'[n] = tag[n] /\ key'[n] = key[n]
  BY <1>1
<1>8. free' \in Seq(Nodes) /\ Distinct(free') /\ ToSet(free') = ToSet(q) \union ToSet(free)
  BY <1>1, <1>5, Zenon
<1> QED BY <1>1, <1>4, <1>6, <1>7, <1>8

-----------------------------------------------------------------------------
(***************************************************************************)
(* Every action keeps the invariant.                                       *)
(***************************************************************************)
\* The table of p becomes that of x.
LEMMA StoreOK ==
  ASSUME TypeOK, NEW p \in Parents, NEW x, Well(x), Store(p, x)
  PROVE  /\ tab' = [r \in Parents |-> tab'[r]] /\ tab'[p] = x.T
         /\ \A r \in Parents \ {p} : tab'[r] = tab[r]
         /\ \A r \in Parents : \E i \in DOMAIN Levels : tab'[r] \in TableOf(Levels[i])
         /\ ht_next' = x.next /\ ht_next' \in [Nodes -> Nodes \union {NULL}]
<1>1. /\ tab = [r \in Parents |-> tab[r]]
      /\ \A r \in Parents : \E i \in DOMAIN Levels : tab[r] \in TableOf(Levels[i])
  BY DEF TypeOK
<1>2. tab' = [tab EXCEPT ![p] = x.T] /\ ht_next' = x.next
  BY DEF Store
<1>3. x.next \in [Nodes -> Nodes \union {NULL}] /\ \E i \in DOMAIN Levels : x.T \in TableOf(Levels[i])
  BY DEF Well, Pointers
<1>4. /\ tab' = [r \in Parents |-> tab'[r]] /\ tab'[p] = x.T
      /\ \A r \in Parents \ {p} : tab'[r] = tab[r]
  BY <1>1, <1>2
<1> QED BY <1>1, <1>2, <1>3, <1>4

LEMMA EditingOK ==
  ASSUME TypeOK, Editing
  PROVE  call = NoCall /\ edits' \in 0 .. MaxEdits
BY ValuesAssumption DEF TypeOK, Editing, Idling

\* A step touches the nodes of M, the list and the table of p, and the pool.
Touches(p, M) ==
  /\ \A r \in Parents \ {p} :
       /\ M \intersect Kids(r) = {}
       /\ tab'[r] = tab[r] /\ childlist'[r] = childlist[r]
       /\ expanded'[r] = expanded[r] /\ child_has_key'[r] = child_has_key[r]
  /\ \A n \in Nodes \ M :
       /\ tag'[n] = tag[n] /\ key'[n] = key[n] /\ parent'[n] = parent[n] /\ ht_next'[n] = ht_next[n]
       /\ n \in unindexed' <=> n \in unindexed
       /\ n \in rekeyed' <=> n \in rekeyed
  /\ ToSet(free') \subseteq ToSet(free) \union M

\* The lists of p and of the pool are all right after the step.
ListsRight(p) ==
  /\ Distinct(free') /\ \A n \in ToSet(free') : tag'[n] = 0 /\ n \notin unindexed'
  /\ Distinct(childlist'[p])
  /\ \A n \in ToSet(childlist'[p]) : parent'[n] = p /\ n \notin ToSet(free')
  /\ ~expanded'[p] => childlist'[p] = <<>>
  /\ ~child_has_key'[p] => \A n \in ToSet(childlist'[p]) : key'[n] # NoKey => n \in rekeyed'

\* y is the table of p after the step, and holds the children of p.
TableRight(p, y) ==
  /\ y.T = tab'[p] /\ y.next = ht_next' /\ y.tag = tag' /\ y.key = key'
  /\ \E d : Indexes(y, d, ToSet(childlist'[p]) \ unindexed')

LEMMA StepInv ==
  ASSUME IInv, TypeOK', call' = NoCall, NEW p \in Parents, NEW M, NEW y,
         Touches(p, M), ListsRight(p), TableRight(p, y)
  PROVE  IInv'
<1>0. TypeOK /\ Owned /\ Indexed /\ KeysSeen
  BY DEF IInv
<1>1. ASSUME NEW r \in Parents \ {p}
      PROVE  /\ Kids(r) \in SUBSET Nodes /\ Kids(r) \intersect M = {}
             /\ ToSet(childlist'[r]) = Kids(r)
  BY <1>0, KidsType DEF Touches, Kids
<1>2. Owned'
  <2>1. ASSUME NEW r \in Parents
        PROVE  /\ Distinct(childlist'[r])
               /\ \A n \in ToSet(childlist'[r]) : parent'[n] = r /\ n \notin ToSet(free')
               /\ ~expanded'[r] => childlist'[r] = <<>>
    <3>1. CASE r = p
      BY <3>1 DEF ListsRight
    <3>2. CASE r # p
      <4>1. expanded'[r] = expanded[r] /\ childlist'[r] = childlist[r]
        BY <3>2 DEF Touches
      <4>2. \A n \in Kids(r) : n \in Nodes \ M /\ parent[n] = r /\ n \notin ToSet(free)
        BY <3>2, <1>0, <1>1 DEF Owned
      <4>3. \A n \in Kids(r) : parent'[n] = r /\ n \notin ToSet(free')
        BY <4>2 DEF Touches
      <4> QED BY <4>1, <4>3, <3>2, <1>0, <1>1 DEF Owned
    <3> QED BY <3>1, <3>2
  <2>2. Distinct(free') /\ \A n \in ToSet(free') : tag'[n] = 0 /\ n \notin unindexed'
    BY DEF ListsRight
  <2> QED BY <2>1, <2>2 DEF Owned, Kids
<1>3. Indexed'
  <2>1. PICK d : Indexes(y, d, ToSet(childlist'[p]) \ unindexed')
    BY DEF TableRight
  <2>2. ASSUME NEW r \in Parents \ {p}
        PROVE  /\ tab'[r] = tab[r] /\ ToSet(childlist'[r]) \ unindexed' = Kids(r) \ unindexed
               /\ \A n \in Kids(r) \ unindexed :
                    ht_next'[n] = ht_next[n] /\ tag'[n] = tag[n] /\ key'[n] = key[n]
    <3>1. \A n \in Kids(r) : n \in Nodes \ M
      BY <1>1
    <3> QED BY <3>1, <1>1 DEF Touches
  <2>3. y.T = tab'[p] /\ y.next = ht_next' /\ y.tag = tag' /\ y.key = key'
    BY DEF TableRight
  <2> QED BY <2>1, <2>2, <2>3, <1>0, IndexedNext
<1>4. KeysSeen'
  <2> SUFFICES ASSUME NEW r \in Parents, ~child_has_key'[r], NEW n \in ToSet(childlist'[r]),
                      key'[n] # NoKey
               PROVE  n \in rekeyed'
    BY DEF KeysSeen, Kids
  <2>1. CASE r = p
    BY <2>1 DEF ListsRight
  <2>2. CASE r # p
    <3>1. n \in Kids(r) /\ n \in Nodes \ M
      BY <2>2, <1>1
    <3>2. ~child_has_key[r] /\ key[n] # NoKey
      BY <3>1, <2>2 DEF Touches
    <3>3. n \in rekeyed
      BY <3>1, <3>2, <1>0 DEF KeysSeen
    <3> QED BY <3>1, <3>3 DEF Touches
  <2> QED BY <2>1, <2>2
<1>5. CallOK'
  BY NoCallNext
<1> QED BY <1>2, <1>3, <1>4, <1>5 DEF IInv

LEMMA RenewInv ==
  ASSUME IInv, NEW p \in Parents, NEW v \in Docs, Renew(p, v)
  PROVE  IInv'
<1> DEFINE q == childlist[p]
<1>0. TypeOK /\ Owned /\ Indexed /\ KeysSeen
  BY DEF IInv
<1>1. /\ call = NoCall /\ edits < MaxEdits /\ edits' = edits + 1
      /\ val' = [val EXCEPT ![p] = v] /\ Released(q)
      /\ childlist' = [childlist EXCEPT ![p] = <<>>]
      /\ expanded' = [expanded EXCEPT ![p] = FALSE]
      /\ tab' = [tab EXCEPT ![p] = Cleared]
      /\ ht_next' = ht_next /\ child_has_key' = child_has_key /\ call' = call
  BY DEF Renew, Editing, Idling
<1>2. q \in Seq(Nodes) /\ Distinct(q) /\ ToSet(q) = Kids(p)
  BY <1>0 DEF TypeOK, Owned, Kids
<1>3. /\ Kids(p) \intersect ToSet(free) = {} /\ Kids(p) \in SUBSET Nodes
      /\ \A r \in Parents \ {p} : Kids(p) \intersect Kids(r) = {}
  BY <1>0, Apart
<1>4. /\ tag' \in [Nodes -> Tags \union {0}] /\ key' \in [Nodes -> Keys \union {NoKey}]
      /\ free' \in Seq(Nodes) /\ Distinct(free') /\ ToSet(free') = Kids(p) \union ToSet(free)
      /\ \A n \in ToSet(free') : tag'[n] = 0 /\ n \notin unindexed'
      /\ \A n \in Nodes \ Kids(p) : tag'[n] = tag[n] /\ key'[n] = key[n]
      /\ unindexed' = unindexed \ Kids(p) /\ rekeyed' = rekeyed \ Kids(p)
      /\ parent' = parent
  <2> HIDE DEF q
  <2>1. ToSet(q) \intersect ToSet(free) = {}
    BY <1>2, <1>3
  <2> QED BY <2>1, <1>0, <1>1, <1>2, ReleasedOK
<1>5. <<>> \in Seq(Nodes) /\ ToSet(<<>>) = {} /\ Distinct(<<>>)
  BY DEF ToSet, Distinct
<1>6. /\ childlist' \in [Parents -> Seq(Nodes)]
      /\ childlist'[p] = <<>> /\ \A r \in Parents \ {p} : childlist'[r] = childlist[r]
  BY <1>0, <1>1, <1>5, ListsNext
<1>7. /\ tab' = [r \in Parents |-> tab'[r]] /\ tab'[p] = Cleared
      /\ \A r \in Parents \ {p} : tab'[r] = tab[r]
  <2>1. tab = [r \in Parents |-> tab[r]]
    BY <1>0 DEF TypeOK
  <2> QED BY <2>1, <1>1
<1>8. TypeOK'
  <2>1. \A r \in Parents : \E i \in DOMAIN Levels : tab'[r] \in TableOf(Levels[i])
    BY <1>0, <1>7, ClearedOK DEF TypeOK
  <2>2. /\ val' \in [Parents -> Docs] /\ expanded' \in [Parents -> BOOLEAN]
        /\ parent' \in [Nodes -> Parents \union {NULL}] /\ ht_next' \in [Nodes -> Nodes \union {NULL}]
        /\ child_has_key' \in [Parents -> BOOLEAN]
    BY <1>0, <1>1, <1>4 DEF TypeOK
  <2>3. edits' \in 0 .. MaxEdits
    BY <1>0, <1>1, ValuesAssumption DEF TypeOK
  <2> QED BY <1>0, <1>1, <1>4, <1>6, <1>7, <2>1, <2>2, <2>3 DEF TypeOK
<1>9. Touches(p, Kids(p))
  <2>1. \A r \in Parents \ {p} : expanded'[r] = expanded[r]
    BY <1>0, <1>1 DEF TypeOK
  <2> QED BY <2>1, <1>1, <1>3, <1>4, <1>6, <1>7 DEF Touches
<1>10. ListsRight(p)
  BY <1>4, <1>5, <1>6 DEF ListsRight
<1>11. TableRight(p, Table(p)')
  <2> DEFINE y == Table(p)'
  <2>1. /\ Well(y) /\ y.T = tab'[p] /\ y.next = ht_next' /\ y.tag = tag' /\ y.key = key'
    BY <1>8, TableWellNext
  <2> HIDE DEF y
  <2>2. \E c : Indexes(y, c, {})
    BY <2>1, <1>7, ClearedOK
  <2>3. ToSet(childlist'[p]) \ unindexed' = {}
    BY <1>5, <1>6
  <2>4. TableRight(p, y)
    BY <2>1, <2>2, <2>3 DEF TableRight
  <2> QED BY <2>4 DEF y
<1>12. call' = NoCall
  BY <1>1
<1> QED
  <2> DEFINE y == Table(p)'
  <2> HIDE DEF y
  <2> QED BY <1>8, <1>9, <1>10, <1>11, <1>12, StepInv DEF y

LEMMA SetValueInv ==
  ASSUME IInv, NEW p \in Parents, NEW v \in Docs, childlist[p] = <<>>, SetValue(p, v)
  PROVE  IInv'
<1>0. TypeOK /\ Owned /\ Indexed /\ KeysSeen
  BY DEF IInv
<1>1. /\ Editing /\ val' = [val EXCEPT ![p] = v] /\ Released(<<>>)
      /\ childlist' = [childlist EXCEPT ![p] = <<>>]
      /\ expanded' = [expanded EXCEPT ![p] = FALSE]
      /\ tab' = tab /\ ht_next' = ht_next /\ child_has_key' = child_has_key /\ call' = call
  BY DEF SetValue
<1>2. call = NoCall /\ edits' \in 0 .. MaxEdits
  BY <1>0, <1>1, EditingOK
<1>3. <<>> \in Seq(Nodes) /\ ToSet(<<>>) = {} /\ Distinct(<<>>)
  BY DEF ToSet, Distinct
<1>4. /\ tag' \in [Nodes -> Tags \union {0}] /\ key' \in [Nodes -> Keys \union {NoKey}]
      /\ free' \in Seq(Nodes) /\ Distinct(free') /\ ToSet(free') = ToSet(free)
      /\ \A n \in ToSet(free') : tag'[n] = 0 /\ n \notin unindexed'
      /\ \A n \in Nodes : tag'[n] = tag[n] /\ key'[n] = key[n]
      /\ unindexed' = unindexed /\ rekeyed' = rekeyed /\ parent' = parent
  <2> DEFINE q == <<>>
  <2>1. Released(q) /\ q \in Seq(Nodes) /\ Distinct(q) /\ ToSet(q) = {}
    BY <1>1, <1>3
  <2> HIDE DEF q
  <2>2. ToSet(q) \intersect ToSet(free) = {}
    BY <2>1
  <2> QED BY <2>1, <2>2, <1>0, ReleasedOK
<1>5. /\ childlist' \in [Parents -> Seq(Nodes)]
      /\ childlist'[p] = <<>> /\ \A r \in Parents \ {p} : childlist'[r] = childlist[r]
  BY <1>0, <1>1, <1>3, ListsNext
<1>6. TypeOK'
  <2>1. /\ val' \in [Parents -> Docs] /\ expanded' \in [Parents -> BOOLEAN]
        /\ parent' \in [Nodes -> Parents \union {NULL}] /\ ht_next' \in [Nodes -> Nodes \union {NULL}]
        /\ child_has_key' \in [Parents -> BOOLEAN]
    BY <1>0, <1>1, <1>4 DEF TypeOK
  <2> QED BY <1>0, <1>1, <1>2, <1>4, <1>5, <2>1 DEF TypeOK
<1>7. Touches(p, {})
  <2>1. \A r \in Parents \ {p} : expanded'[r] = expanded[r]
    BY <1>0, <1>1 DEF TypeOK
  <2> QED BY <2>1, <1>1, <1>4, <1>5 DEF Touches
<1>8. ListsRight(p)
  BY <1>3, <1>4, <1>5 DEF ListsRight
<1> DEFINE x == Table(p)
           y == Table(p)'
<1>9. TableRight(p, y)
  <2>1. Indexes(x, Slots(x), {})
    BY <1>0, <1>3 DEF Indexed, Kids
  <2>2. x.T = tab[p] /\ y.T = tab'[p] /\ y.next = ht_next' /\ y.tag = tag' /\ y.key = key'
    BY <1>0, <1>6, TableWell, TableWellNext
  <2> HIDE DEF x, y
  <2>3. Agree(x, y, {})
    BY <2>2, <1>1 DEF Agree
  <2>4. Indexes(y, Slots(x), {})
    BY <2>1, <2>3, IndexesFrame
  <2>5. ToSet(childlist'[p]) \ unindexed' = {}
    BY <1>3, <1>5
  <2> QED BY <2>2, <2>4, <2>5 DEF TableRight
<1>10. call' = NoCall
  BY <1>1, <1>2
<1> HIDE DEF y
<1> QED BY <1>6, <1>7, <1>8, <1>9, <1>10, StepInv

LEMMA DetachChildInv ==
  ASSUME IInv, NEW p \in Parents, NEW n \in Nodes, DetachChild(p, n)
  PROVE  IInv'
<1> DEFINE x == Table(p)
           S == Kids(p) \ unindexed
           y == Remove(x, n)
           q == Without(childlist[p], {n})
<1>0. TypeOK /\ Owned /\ Indexed /\ KeysSeen
  BY DEF IInv
<1>1. /\ Editing /\ n \in Kids(p) /\ Store(p, y)
      /\ childlist' = [childlist EXCEPT ![p] = q]
      /\ unindexed' = unindexed \ {n}
      /\ tag' = tag /\ key' = key /\ parent' = parent /\ free' = free /\ val' = val
      /\ expanded' = expanded /\ child_has_key' = child_has_key /\ call' = call /\ rekeyed' = rekeyed
  BY DEF DetachChild
<1>2. call = NoCall /\ edits' \in 0 .. MaxEdits
  BY <1>0, <1>1, EditingOK
<1>3. /\ Well(x) /\ x.next = ht_next /\ x.tag = tag /\ x.key = key
      /\ Indexes(x, Slots(x), S) /\ S \in SUBSET Nodes
  BY <1>0, TableWell, KidsType DEF Indexed
<1>4. Well(y) /\ Kept(x, y, S) /\ \E d : Indexes(y, d, S \ {n})
  <2> HIDE DEF x, S
  <2> QED BY <1>3, RemoveOK
<1>5. q \in Seq(Nodes) /\ Distinct(q) /\ ToSet(q) = Kids(p) \ {n}
  BY <1>0, WithoutOK DEF TypeOK, Owned, Kids
<1> HIDE DEF y, q
<1>6. /\ childlist' \in [Parents -> Seq(Nodes)]
      /\ childlist'[p] = q /\ \A r \in Parents \ {p} : childlist'[r] = childlist[r]
  BY <1>0, <1>1, <1>5, ListsNext
<1>7. /\ tab' = [r \in Parents |-> tab'[r]] /\ tab'[p] = y.T
      /\ \A r \in Parents \ {p} : tab'[r] = tab[r]
      /\ \A r \in Parents : \E i \in DOMAIN Levels : tab'[r] \in TableOf(Levels[i])
      /\ ht_next' = y.next /\ ht_next' \in [Nodes -> Nodes \union {NULL}]
  BY <1>0, <1>1, <1>4, StoreOK
<1>8. TypeOK'
  BY <1>0, <1>1, <1>2, <1>6, <1>7 DEF TypeOK
<1>9. /\ \A r \in Parents \ {p} : Kids(p) \intersect Kids(r) = {}
      /\ Kids(p) \intersect ToSet(free) = {}
  BY <1>0, Apart
<1>10. Touches(p, Kids(p))
  <2>1. \A m \in Nodes \ Kids(p) : ht_next'[m] = ht_next[m]
    BY <1>3, <1>4, <1>7 DEF Kept
  <2> QED BY <2>1, <1>1, <1>6, <1>7, <1>9 DEF Touches
<1>11. ListsRight(p)
  <2>1. ~expanded[p] => Kids(p) = {}
    BY <1>0 DEF Owned, Kids, ToSet
  <2>2. expanded[p]
    BY <2>1, <1>1
  <2> QED BY <2>2, <1>0, <1>1, <1>5, <1>6 DEF ListsRight, Owned, KeysSeen
<1>12. TableRight(p, y)
  <2>1. ToSet(childlist'[p]) \ unindexed' = S \ {n}
    BY <1>1, <1>5, <1>6
  <2> QED BY <2>1, <1>1, <1>3, <1>4, <1>7 DEF TableRight, Kept
<1>13. call' = NoCall
  BY <1>1, <1>2
<1> QED BY <1>8, <1>10, <1>11, <1>12, <1>13, StepInv

\* The table of p holds what y holds.
LEMMA TableRightFrame ==
  ASSUME TypeOK', NEW p \in Parents, NEW y, NEW d, NEW R, Indexes(y, d, R),
         R = ToSet(childlist'[p]) \ unindexed', y.T = tab'[p],
         \A n \in R : y.next[n] = ht_next'[n] /\ y.tag[n] = tag'[n] /\ y.key[n] = key'[n]
  PROVE  TableRight(p, Table(p)')
<1> DEFINE z == Table(p)'
<1>1. z.T = tab'[p] /\ z.next = ht_next' /\ z.tag = tag' /\ z.key = key'
  BY TableWellNext
<1> HIDE DEF z
<1>2. Agree(y, z, R)
  BY <1>1 DEF Agree
<1>3. Indexes(z, d, R)
  BY <1>2, IndexesFrame
<1>4. TableRight(p, z)
  BY <1>1, <1>3 DEF TableRight
<1> QED BY <1>4 DEF z

LEMMA SingleOK ==
  ASSUME NEW n \in Nodes
  PROVE  <<n>> \in Seq(Nodes) /\ Distinct(<<n>>) /\ ToSet(<<n>>) = {n}
<1>1. <<n>> \in Seq(Nodes) /\ DOMAIN <<n>> = {1} /\ <<n>>[1] = n
  OBVIOUS
<1> QED BY <1>1 DEF Distinct, ToSet

LEMMA DeleteDetachedInv ==
  ASSUME IInv, NEW n \in Nodes, DeleteDetached(n)
  PROVE  IInv'
<1>0. TypeOK /\ Owned /\ Indexed /\ KeysSeen
  BY DEF IInv
<1>1. /\ Editing /\ tag[n] # 0 /\ ~Attached(n) /\ Released(<<n>>)
      /\ ht_next' = ht_next /\ val' = val /\ expanded' = expanded /\ childlist' = childlist
      /\ child_has_key' = child_has_key /\ tab' = tab /\ call' = call
  BY DEF DeleteDetached, par
<1>2. call = NoCall /\ edits' \in 0 .. MaxEdits
  BY <1>0, <1>1, EditingOK
<1>3. n \notin ToSet(free) /\ \A p \in Parents : n \notin Kids(p)
  BY <1>0, <1>1 DEF Owned, Attached
<1>4. /\ tag' \in [Nodes -> Tags \union {0}] /\ key' \in [Nodes -> Keys \union {NoKey}]
      /\ free' \in Seq(Nodes) /\ Distinct(free') /\ ToSet(free') = {n} \union ToSet(free)
      /\ \A m \in ToSet(free') : tag'[m] = 0 /\ m \notin unindexed'
      /\ \A m \in Nodes \ {n} : tag'[m] = tag[m] /\ key'[m] = key[m]
      /\ unindexed' = unindexed \ {n} /\ rekeyed' = rekeyed \ {n} /\ parent' = parent
  <2> DEFINE q == <<n>>
  <2>1. Released(q) /\ q \in Seq(Nodes) /\ Distinct(q) /\ ToSet(q) = {n}
    BY <1>1, SingleOK
  <2> HIDE DEF q
  <2>2. ToSet(q) \intersect ToSet(free) = {}
    BY <2>1, <1>3
  <2> QED BY <2>1, <2>2, <1>0, ReleasedOK
<1>5. TypeOK'
  BY <1>0, <1>1, <1>2, <1>4 DEF TypeOK
<1>6. call' = NoCall
  BY <1>1, <1>2
<1>7. CASE Parents = {}
  <2>1. Owned' /\ Indexed' /\ KeysSeen'
    BY <1>4, <1>7 DEF Owned, Indexed, KeysSeen
  <2> QED BY <2>1, <1>5, <1>6, NoCallNext DEF IInv
<1>8. CASE Parents # {}
  <2> PICK p \in Parents : TRUE
    BY <1>8
  <2>1. Touches(p, {n})
    BY <1>1, <1>3, <1>4 DEF Touches
  <2>2. Kids(p) \in SUBSET Nodes /\ childlist'[p] = childlist[p] /\ ToSet(childlist'[p]) = Kids(p)
    BY <1>0, <1>1, KidsType DEF Kids
  <2>3. \A m \in Kids(p) : m \in Nodes \ {n} /\ m \notin ToSet(free')
    BY <2>2, <1>0, <1>3, <1>4 DEF Owned
  <2>4. ListsRight(p)
    BY <2>2, <2>3, <1>0, <1>1, <1>4 DEF ListsRight, Owned, KeysSeen
  <2>5. TableRight(p, Table(p)')
    <3> DEFINE x == Table(p)
               S == Kids(p) \ unindexed
    <3>1. Indexes(x, Slots(x), S)
      BY <1>0 DEF Indexed
    <3>2. x.T = tab'[p] /\ x.next = ht_next' /\ x.tag = tag /\ x.key = key
      BY <1>0, <1>1, TableWell
    <3>3. S = ToSet(childlist'[p]) \ unindexed' /\ \A m \in S : m \in Nodes \ {n}
      BY <2>2, <2>3, <1>4
    <3> HIDE DEF x, S
    <3>4. \A m \in S : x.next[m] = ht_next'[m] /\ x.tag[m] = tag'[m] /\ x.key[m] = key'[m]
      BY <3>2, <3>3, <1>4
    <3> QED BY <3>1, <3>2, <3>3, <3>4, <1>5, TableRightFrame
  <2> DEFINE y == Table(p)'
  <2> HIDE DEF y
  <2>6. TableRight(p, y)
    BY <2>5 DEF y
  <2> QED BY <2>1, <2>4, <2>6, <1>5, <1>6, StepInv
<1> QED BY <1>7, <1>8

\* A sequence backwards.
LEMMA BackwardsOK ==
  ASSUME NEW q \in Seq(Nodes), Distinct(q)
  PROVE  LET b == [i \in DOMAIN q |-> q[Len(q) + 1 - i]]
         IN  b \in Seq(Nodes) /\ Distinct(b) /\ ToSet(b) = ToSet(q)
<1> DEFINE b == [i \in DOMAIN q |-> q[Len(q) + 1 - i]]
<1>0. Len(q) \in Nat /\ DOMAIN q = 1 .. Len(q)
  OBVIOUS
<1>1. \A i \in 1 .. Len(q) : Len(q) + 1 - i \in 1 .. Len(q) /\ Len(q) + 1 - (Len(q) + 1 - i) = i
  BY <1>0
<1>2. b \in [1 .. Len(q) -> Nodes]
  BY <1>0, <1>1
<1>3. b \in Seq(Nodes) /\ DOMAIN b = 1 .. Len(q) /\ \A i \in 1 .. Len(q) : b[i] = q[Len(q) + 1 - i]
  BY <1>0, <1>2
<1> HIDE DEF b
<1>4. Distinct(b)
  <2> SUFFICES ASSUME NEW i \in 1 .. Len(q), NEW j \in 1 .. Len(q), b[i] = b[j] PROVE i = j
    BY <1>3 DEF Distinct
  <2>1. Len(q) + 1 - i = Len(q) + 1 - j
    BY <1>0, <1>1, <1>3 DEF Distinct
  <2> QED BY <2>1, <1>0
<1>5. ToSet(b) = ToSet(q)
  <2>1. ASSUME NEW m \in ToSet(b) PROVE m \in ToSet(q)
    BY <1>0, <1>1, <1>3 DEF ToSet
  <2>2. ASSUME NEW m \in ToSet(q) PROVE m \in ToSet(b)
    <3>1. PICK i \in 1 .. Len(q) : m = q[i]
      BY <1>0 DEF ToSet
    <3>2. Len(q) + 1 - i \in 1 .. Len(q) /\ b[Len(q) + 1 - i] = q[Len(q) + 1 - (Len(q) + 1 - i)]
      BY <1>1, <1>3
    <3>3. b[Len(q) + 1 - i] = m
      BY <3>1, <3>2, <1>1
    <3> QED BY <3>2, <3>3, <1>3 DEF ToSet
  <2> QED BY <2>1, <2>2
<1> QED BY <1>3, <1>4, <1>5 DEF b

\* Children leave the list, the table and their parent.
LEMMA LeaveInv ==
  ASSUME IInv, NEW p \in Parents, NEW q \in Seq(Nodes), Distinct(q), ToSet(q) \subseteq Kids(p),
         NEW y, Well(y), Kept(Table(p), y, Kids(p) \ unindexed),
         \E d : Indexes(y, d, (Kids(p) \ unindexed) \ ToSet(q)),
         Store(p, y), Released(q), edits' \in 0 .. MaxEdits, call' = NoCall, expanded[p],
         childlist' = [childlist EXCEPT ![p] = Without(@, ToSet(q))],
         val' = val, expanded' = expanded, child_has_key' = child_has_key
  PROVE  IInv'
<1> DEFINE S == Kids(p) \ unindexed
           w == Without(childlist[p], ToSet(q))
<1>0. TypeOK /\ Owned /\ Indexed /\ KeysSeen
  BY DEF IInv
<1>1. /\ \A r \in Parents \ {p} : Kids(p) \intersect Kids(r) = {}
      /\ Kids(p) \intersect ToSet(free) = {} /\ Kids(p) \in SUBSET Nodes
  BY <1>0, Apart
<1>2. /\ tag' \in [Nodes -> Tags \union {0}] /\ key' \in [Nodes -> Keys \union {NoKey}]
      /\ free' \in Seq(Nodes) /\ Distinct(free') /\ ToSet(free') = ToSet(q) \union ToSet(free)
      /\ \A m \in ToSet(free') : tag'[m] = 0 /\ m \notin unindexed'
      /\ \A m \in Nodes \ ToSet(q) : tag'[m] = tag[m] /\ key'[m] = key[m]
      /\ unindexed' = unindexed \ ToSet(q) /\ rekeyed' = rekeyed \ ToSet(q) /\ parent' = parent
  <2>1. ToSet(q) \intersect ToSet(free) = {}
    BY <1>1
  <2> QED BY <2>1, <1>0, ReleasedOK
<1>3. w \in Seq(Nodes) /\ Distinct(w) /\ ToSet(w) = Kids(p) \ ToSet(q)
  BY <1>0, WithoutOK DEF TypeOK, Owned, Kids
<1>4. /\ childlist' \in [Parents -> Seq(Nodes)]
      /\ childlist'[p] = w /\ \A r \in Parents \ {p} : childlist'[r] = childlist[r]
  <2>1. childlist' = [childlist EXCEPT ![p] = w]
    OBVIOUS
  <2> HIDE DEF w
  <2> QED BY <2>1, <1>0, <1>3, ListsNext
<1> HIDE DEF w
<1>5. /\ tab' = [r \in Parents |-> tab'[r]] /\ tab'[p] = y.T
      /\ \A r \in Parents \ {p} : tab'[r] = tab[r]
      /\ \A r \in Parents : \E i \in DOMAIN Levels : tab'[r] \in TableOf(Levels[i])
      /\ ht_next' = y.next /\ ht_next' \in [Nodes -> Nodes \union {NULL}]
  BY <1>0, StoreOK
<1>6. TypeOK'
  <2>1. call' \in [op : {"none", "find", "remove"}, p : Parents \union {NULL},
                   tag : Tags \union {0}, key : Keys \union {NoKey},
                   c : Nodes \union {NULL}, pos : Nodes \union {NULL}]
    BY DEF NoCall
  <2> QED BY <2>1, <1>0, <1>2, <1>4, <1>5 DEF TypeOK
<1>7. /\ Table(p).next = ht_next /\ Table(p).tag = tag /\ Table(p).key = key
  BY <1>0, TableWell
<1>8. Touches(p, Kids(p))
  <2>1. \A m \in Nodes \ Kids(p) : ht_next'[m] = ht_next[m] /\ m \notin ToSet(q)
    BY <1>5, <1>7 DEF Kept
  <2> QED BY <2>1, <1>1, <1>2, <1>4, <1>5 DEF Touches
<1>9. ListsRight(p)
  <2>1. \A m \in ToSet(w) : m \in Nodes \ ToSet(q) /\ m \in Kids(p) /\ m \notin ToSet(free')
    BY <1>1, <1>2, <1>3
  <2> QED BY <2>1, <1>0, <1>2, <1>3, <1>4 DEF ListsRight, Owned, KeysSeen
<1>10. TableRight(p, Table(p)')
  <2> DEFINE R == S \ ToSet(q)
  <2>1. PICK d : Indexes(y, d, R)
    OBVIOUS
  <2>2. R = ToSet(childlist'[p]) \ unindexed' /\ \A m \in R : m \in Nodes \ ToSet(q)
    BY <1>1, <1>2, <1>3, <1>4
  <2> HIDE DEF R
  <2>3. \A m \in R : y.next[m] = ht_next'[m] /\ y.tag[m] = tag'[m] /\ y.key[m] = key'[m]
    BY <2>2, <1>2, <1>5, <1>7 DEF Kept
  <2> QED BY <2>1, <2>2, <2>3, <1>5, <1>6, TableRightFrame
<1> DEFINE z == Table(p)'
<1> HIDE DEF z
<1>11. TableRight(p, z)
  BY <1>10 DEF z
<1> QED BY <1>6, <1>8, <1>9, <1>11, StepInv

LEMMA RemoveChildrenByTagInv ==
  ASSUME IInv, NEW p \in Parents, NEW t \in Tags, RemoveChildrenByTag(p, t)
  PROVE  IInv'
<1> DEFINE x == Table(p)
           S == Kids(p) \ unindexed
           q == Select(childlist[p], {n \in Nodes : tag[n] = t})
           b == [i \in DOMAIN q |-> q[Len(q) + 1 - i]]
           y == RemoveAll(x, q)
<1>0. TypeOK /\ Owned /\ Indexed /\ KeysSeen
  BY DEF IInv
<1>1. /\ Editing /\ q # <<>> /\ Store(p, y) /\ Released(b)
      /\ childlist' = [childlist EXCEPT ![p] = Without(@, ToSet(q))]
      /\ val' = val /\ expanded' = expanded /\ child_has_key' = child_has_key /\ call' = call
  BY DEF RemoveChildrenByTag
<1>2. call = NoCall /\ edits' \in 0 .. MaxEdits
  BY <1>0, <1>1, EditingOK
<1>3. q \in Seq(Nodes) /\ Distinct(q) /\ ToSet(q) \subseteq Kids(p)
  BY <1>0, SelectOK DEF TypeOK, Owned, Kids
<1> HIDE DEF q
<1>4. b \in Seq(Nodes) /\ Distinct(b) /\ ToSet(b) = ToSet(q)
  BY <1>3, BackwardsOK
<1>5. /\ Well(x) /\ Indexes(x, Slots(x), S) /\ S \in SUBSET Nodes
  BY <1>0, TableWell, KidsType DEF Indexed
<1>6. Well(y) /\ Kept(x, y, S) /\ \E d : Indexes(y, d, S \ ToSet(q))
  <2> HIDE DEF x, S
  <2> QED BY <1>3, <1>5, RemoveAllOK
<1>7. expanded[p]
  <2>1. ToSet(q) # {}
    BY <1>1, <1>3 DEF ToSet
  <2>2. ~expanded[p] => Kids(p) = {}
    BY <1>0 DEF Owned, Kids, ToSet
  <2> QED BY <2>1, <2>2, <1>3
<1> HIDE DEF b, y
<1>8. /\ ToSet(b) \subseteq Kids(p) /\ \E d : Indexes(y, d, S \ ToSet(b))
      /\ childlist' = [childlist EXCEPT ![p] = Without(@, ToSet(b))]
  BY <1>1, <1>3, <1>4, <1>6
<1>9. call' = NoCall
  BY <1>1, <1>2
<1> QED BY <1>1, <1>2, <1>4, <1>6, <1>7, <1>8, <1>9, LeaveInv

\* Where a lookup is.
LEMMA CallAt ==
  ASSUME IInv, call.op # "none"
  PROVE  LET p  == call.p
             hi == Hash(call.tag, call.key, tab[p].sz)
             q  == Slot(tab[p], ht_next, hi)
         IN  /\ p \in Parents /\ call.tag \in Tags /\ hi \in tab[p].bm /\ hi \in 0 .. tab[p].sz - 1
             /\ q \in Seq(Nodes) /\ Distinct(q)
             /\ ToSet(q) = {n \in Kids(p) \ unindexed : Hash(tag[n], key[n], tab[p].sz) = hi}
             /\ Linked(tab[p].ht[hi], ht_next, q)
             /\ \E k \in 1 .. Len(q) + 1 :
                  /\ call.c = At(q, k)
                  /\ call.pos = IF k = 1 THEN NULL ELSE q[k-1]
                  /\ \A j \in 1 .. k - 1 : ~IsMatch(q[j], call.tag, call.key)
<1> DEFINE p  == call.p
           hi == Hash(call.tag, call.key, tab[p].sz)
           q  == Slot(tab[p], ht_next, hi)
<1>0. TypeOK /\ Indexed /\ CallOK
  BY DEF IInv
<1>1. /\ p \in Parents /\ call.tag \in Tags /\ hi \in tab[p].bm
      /\ \E k \in 1 .. Len(q) + 1 :
           /\ call.c = At(q, k)
           /\ call.pos = IF k = 1 THEN NULL ELSE q[k-1]
           /\ \A j \in 1 .. k - 1 : ~IsMatch(q[j], call.tag, call.key)
  BY <1>0 DEF CallOK
<1>2. tab[p].bm \in SUBSET (0 .. tab[p].sz - 1)
  BY <1>0, <1>1, TableWell, WellParts
<1>3. /\ q \in Seq(Nodes) /\ Distinct(q)
      /\ ToSet(q) = {n \in Kids(p) \ unindexed : Hash(tag[n], key[n], tab[p].sz) = hi}
      /\ Linked(tab[p].ht[hi], ht_next, q)
  <2>1. hi \in 0 .. tab[p].sz - 1 /\ hi \in tab[p].bm
    BY <1>1, <1>2
  <2> HIDE DEF hi
  <2> QED BY <2>1, <1>0, <1>1, SlotOK
<1> QED BY <1>1, <1>2, <1>3

\* Only the lookup changes.
LEMMA LookupStep ==
  ASSUME IInv, UNCHANGED <<child, par, tab, free, aux>>, CallOK',
         call' \in [op : {"none", "find", "remove"}, p : Parents \union {NULL},
                    tag : Tags \union {0}, key : Keys \union {NoKey},
                    c : Nodes \union {NULL}, pos : Nodes \union {NULL}]
  PROVE  IInv'
<1>0. TypeOK /\ Owned /\ Indexed /\ KeysSeen
  BY DEF IInv
<1>1. /\ tag' = tag /\ key' = key /\ parent' = parent /\ ht_next' = ht_next /\ free' = free
      /\ val' = val /\ expanded' = expanded /\ childlist' = childlist
      /\ child_has_key' = child_has_key /\ tab' = tab /\ edits' = edits
      /\ unindexed' = unindexed /\ rekeyed' = rekeyed
  BY DEF child, par, aux
<1>2. TypeOK'
  BY <1>0, <1>1 DEF TypeOK
<1>3. Owned' /\ KeysSeen'
  BY <1>0, <1>1 DEF Owned, KeysSeen, Kids
<1>4. Indexed'
  BY <1>0, <1>1 DEF Indexed, Table, Kids
<1> QED BY <1>2, <1>3, <1>4 DEF IInv

\* Where the lookup is after a step.
LEMMA CallNext ==
  ASSUME NEW q, NEW k \in 1 .. Len(q) + 1,
         call'.p \in Parents, call'.tag \in Tags,
         call'.op = "remove" => edits' < MaxEdits,
         Hash(call'.tag, call'.key, tab'[call'.p].sz) \in tab'[call'.p].bm,
         Slot(tab'[call'.p], ht_next', Hash(call'.tag, call'.key, tab'[call'.p].sz)) = q,
         call'.c = At(q, k),
         call'.pos = IF k = 1 THEN NULL ELSE q[k-1],
         \A j \in 1 .. k - 1 : ~(tag'[q[j]] = call'.tag /\ key'[q[j]] = call'.key)
  PROVE  CallOK'
BY DEF CallOK, IsMatch

LEMMA LookupInv ==
  ASSUME IInv, NEW op \in {"find", "remove"}, NEW p \in Parents, NEW t \in Tags,
         NEW k \in Keys \union {NoKey}, Lookup(op, p, t, k)
  PROVE  IInv'
<1> DEFINE hi == Hash(t, k, tab[p].sz)
           q  == Slot(tab[p], ht_next, hi)
<1>0. TypeOK /\ Indexed
  BY DEF IInv
<1>1. /\ (op = "remove" => edits < MaxEdits) /\ hi \in tab[p].bm
      /\ call' = [op |-> op, p |-> p, tag |-> t, key |-> k, c |-> tab[p].ht[hi], pos |-> NULL]
      /\ UNCHANGED <<child, par, tab, free, aux>>
  BY DEF Lookup
<1>2. /\ tab[p].bm \in SUBSET (0 .. tab[p].sz - 1) /\ tab[p].ht \in [0 .. tab[p].sz - 1 -> Pointers]
  BY <1>0, TableWell, WellParts
<1>3. q \in Seq(Nodes) /\ Linked(tab[p].ht[hi], ht_next, q)
  <2>1. hi \in 0 .. tab[p].sz - 1 /\ hi \in tab[p].bm
    BY <1>1, <1>2
  <2> HIDE DEF hi
  <2> QED BY <2>1, <1>0, SlotOK
<1>4. tab[p].ht[hi] = At(q, 1) /\ 1 \in 1 .. Len(q) + 1
  BY <1>3 DEF Linked
<1>5. tab' = tab /\ ht_next' = ht_next /\ edits' = edits
  BY <1>1 DEF child, aux
<1>6. /\ call'.op = op /\ call'.p = p /\ call'.tag = t /\ call'.key = k /\ call'.pos = NULL
      /\ call'.c = At(q, 1)
  BY <1>1, <1>4
<1>7. CallOK'
  <2>1. Hash(call'.tag, call'.key, tab'[call'.p].sz) = hi
    BY <1>5, <1>6
  <2>2. Slot(tab'[call'.p], ht_next', hi) = q
    BY <1>5, <1>6
  <2> HIDE DEF hi, q
  <2>3. \E j \in 1 .. Len(q) + 1 :
          /\ call'.c = At(q, j)
          /\ call'.pos = IF j = 1 THEN NULL ELSE q[j-1]
          /\ \A i \in 1 .. j - 1 : ~IsMatch(q[i], call.tag, call.key)'
    BY <1>4, <1>6
  <2> QED BY <2>1, <2>2, <2>3, <1>1, <1>5, <1>6 DEF CallOK
<1>8. call' \in [op : {"none", "find", "remove"}, p : Parents \union {NULL},
                 tag : Tags \union {0}, key : Keys \union {NoKey},
                 c : Nodes \union {NULL}, pos : Nodes \union {NULL}]
  BY <1>1, <1>2 DEF Pointers
<1> QED BY <1>1, <1>7, <1>8, LookupStep

LEMMA GetNextInv ==
  ASSUME IInv, GetNext
  PROVE  IInv'
<1> DEFINE p  == call.p
           hi == Hash(call.tag, call.key, tab[p].sz)
           q  == Slot(tab[p], ht_next, hi)
<1>0. TypeOK /\ CallOK
  BY DEF IInv
<1>1. /\ call.op # "none" /\ call.c # NULL /\ ~Found
      /\ call' = [call EXCEPT !.pos = call.c, !.c = ht_next[call.c]]
      /\ UNCHANGED <<child, par, tab, free, aux>>
  BY DEF GetNext
<1>2. /\ p \in Parents /\ call.tag \in Tags /\ hi \in tab[p].bm
      /\ q \in Seq(Nodes) /\ Linked(tab[p].ht[hi], ht_next, q)
      /\ \E k \in 1 .. Len(q) + 1 :
           /\ call.c = At(q, k)
           /\ \A j \in 1 .. k - 1 : ~IsMatch(q[j], call.tag, call.key)
  BY <1>1, CallAt
<1>3. PICK k \in 1 .. Len(q) + 1 :
         /\ call.c = At(q, k)
         /\ \A j \in 1 .. k - 1 : ~IsMatch(q[j], call.tag, call.key)
  BY <1>2
<1>4. /\ tab' = tab /\ ht_next' = ht_next /\ edits' = edits /\ tag' = tag /\ key' = key
  BY <1>1 DEF child, aux
<1>5. /\ call'.op = call.op /\ call'.p = p /\ call'.tag = call.tag /\ call'.key = call.key
      /\ call'.pos = call.c /\ call'.c = ht_next[call.c]
      /\ call' \in [op : {"none", "find", "remove"}, p : Parents \union {NULL},
                    tag : Tags \union {0}, key : Keys \union {NoKey},
                    c : Nodes \union {NULL}, pos : Nodes \union {NULL}]
  <2>1. call \in [op : {"none", "find", "remove"}, p : Parents \union {NULL},
                  tag : Tags \union {0}, key : Keys \union {NoKey},
                  c : Nodes \union {NULL}, pos : Nodes \union {NULL}]
    BY <1>0 DEF TypeOK
  <2>2. call.c \in Nodes /\ ht_next[call.c] \in Nodes \union {NULL}
    BY <2>1, <1>0, <1>1 DEF TypeOK
  <2> QED BY <2>1, <2>2, <1>1
<1>6. CallOK'
  <2>1. Hash(call'.tag, call'.key, tab'[call'.p].sz) = hi
    BY <1>4, <1>5
  <2>2. Slot(tab'[call'.p], ht_next', hi) = q
    BY <1>4, <1>5
  <2>3. ~IsMatch(call.c, call.tag, call.key)
    BY <1>1 DEF Found
  <2> HIDE DEF hi, q
  <2>4. k \in DOMAIN q /\ call.c = q[k] /\ k + 1 \in 1 .. Len(q) + 1 /\ k + 1 # 1 /\ (k + 1) - 1 = k
    BY <1>1, <1>2, <1>3 DEF At
  <2>5. call'.c = At(q, k + 1)
    BY <2>4, <1>2, <1>5 DEF Linked
  <2>6. \A j \in 1 .. (k + 1) - 1 : ~(tag'[q[j]] = call'.tag /\ key'[q[j]] = call'.key)
    <3>1. k \in Nat
      BY <1>2
    <3>2. SUFFICES ASSUME NEW j \in 1 .. k
                   PROVE  ~(tag[q[j]] = call.tag /\ key[q[j]] = call.key)
      BY <2>4, <1>4, <1>5
    <3>3. CASE j = k
      BY <3>3, <2>3, <2>4 DEF IsMatch
    <3>4. CASE j # k
      <4>1. j \in 1 .. k - 1
        BY <3>1, <3>2, <3>4
      <4> QED BY <4>1, <1>3 DEF IsMatch
    <3> QED BY <3>3, <3>4
  <2>7. call'.pos = IF k + 1 = 1 THEN NULL ELSE q[(k+1)-1]
    BY <2>4, <1>5
  <2>8. call'.op = "remove" => edits' < MaxEdits
    BY <1>0, <1>1, <1>4, <1>5 DEF CallOK
  <2>9. /\ call'.p \in Parents /\ call'.tag \in Tags
        /\ Hash(call'.tag, call'.key, tab'[call'.p].sz) \in tab'[call'.p].bm
        /\ Slot(tab'[call'.p], ht_next', Hash(call'.tag, call'.key, tab'[call'.p].sz)) = q
    BY <2>1, <2>2, <1>2, <1>4, <1>5
  <2> QED BY <2>4, <2>5, <2>6, <2>7, <2>8, <2>9, CallNext
<1> QED BY <1>1, <1>5, <1>6, LookupStep

LEMMA GetEndInv ==
  ASSUME IInv, GetEnd
  PROVE  IInv'
<1>1. call' = NoCall /\ UNCHANGED <<child, par, tab, free, aux>>
  BY DEF GetEnd
<1>2. CallOK'
  BY <1>1, NoCallNext
<1>3. call' \in [op : {"none", "find", "remove"}, p : Parents \union {NULL},
                 tag : Tags \union {0}, key : Keys \union {NoKey},
                 c : Nodes \union {NULL}, pos : Nodes \union {NULL}]
  BY <1>1 DEF NoCall
<1> QED BY <1>1, <1>2, <1>3, LookupStep

LEMMA RemoveChildByPosInv ==
  ASSUME IInv, RemoveChildByPos
  PROVE  IInv'
<1> DEFINE p  == call.p
           n  == call.c
           x  == Table(p)
           S  == Kids(p) \ unindexed
           hi == Hash(call.tag, call.key, tab[p].sz)
           q  == Slot(tab[p], ht_next, hi)
           y  == Remove(x, n)
<1>0. TypeOK /\ Owned /\ Indexed /\ CallOK
  BY DEF IInv
<1>1. /\ call.op = "remove" /\ n # NULL /\ tag[n] = call.tag /\ key[n] = call.key
      /\ IF call.pos = NULL
         THEN /\ tab' = [tab EXCEPT ![p] = [tab[p] EXCEPT !.nr = @ - 1, !.ht[hi] = ht_next[n]]]
              /\ ht_next' = ht_next
         ELSE /\ tab' = [tab EXCEPT ![p] = [tab[p] EXCEPT !.nr = @ - 1]]
              /\ ht_next' = [ht_next EXCEPT ![call.pos] = ht_next[n]]
      /\ childlist' = [childlist EXCEPT ![p] = Without(@, {n})]
      /\ Released(<<n>>) /\ call' = NoCall /\ edits' = edits + 1
      /\ val' = val /\ expanded' = expanded /\ child_has_key' = child_has_key
  BY DEF RemoveChildByPos, Found, IsMatch
<1>2. /\ p \in Parents /\ hi \in 0 .. tab[p].sz - 1
      /\ q \in Seq(Nodes) /\ Distinct(q)
      /\ ToSet(q) = {m \in S : Hash(tag[m], key[m], tab[p].sz) = hi}
      /\ \E k \in 1 .. Len(q) + 1 :
           n = At(q, k) /\ call.pos = IF k = 1 THEN NULL ELSE q[k-1]
  BY <1>1, CallAt
<1>3. edits' \in 0 .. MaxEdits
  BY <1>0, <1>1, ValuesAssumption DEF CallOK, TypeOK
<1>4. /\ Well(x) /\ x.T = tab[p] /\ x.next = ht_next /\ x.tag = tag /\ x.key = key
      /\ Indexes(x, Slots(x), S) /\ S \in SUBSET Nodes
      /\ Slots(x)[hi] = q
  <2>1. x.T = tab[p] /\ x.next = ht_next
    BY <1>0, <1>2, TableWell
  <2>2. Slots(x)[hi] = q
    <3> HIDE DEF x, hi
    <3> QED BY <2>1, <1>2 DEF Slots
  <2> QED BY <2>1, <2>2, <1>0, <1>2, TableWell, KidsType DEF Indexed
<1> HIDE DEF q
<1>5. PICK k \in 1 .. Len(q) + 1 : n = At(q, k) /\ call.pos = IF k = 1 THEN NULL ELSE q[k-1]
  BY <1>2
<1>6. k \in DOMAIN q /\ q[k] = n /\ n \in ToSet(q) /\ n \in S /\ n \in Nodes
  <2>1. k \in DOMAIN q /\ q[k] = n
    BY <1>1, <1>2, <1>5 DEF At
  <2>2. n \in ToSet(q)
    BY <2>1 DEF ToSet
  <2> QED BY <2>1, <2>2, <1>2, <1>4
<1>7. Hash(x.tag[n], x.key[n], x.T.sz) = hi
  BY <1>1, <1>4
<1>8. Removal(x, Slots(x), S, n, y)
  <2> HIDE DEF x, S, n
  <2> QED BY <1>4, <1>6, RemoveIs
<1>9. /\ Well(y) /\ y.T.sz = tab[p].sz /\ y.T.nr = tab[p].nr - 1 /\ y.T.bm = tab[p].bm
      /\ y.T.ht = IF k = 1 THEN [tab[p].ht EXCEPT ![hi] = ht_next[n]] ELSE tab[p].ht
      /\ y.next = IF k = 1 THEN ht_next ELSE [ht_next EXCEPT ![q[k-1]] = ht_next[n]]
  <2> DEFINE h == Hash(x.tag[n], x.key[n], x.T.sz)
  <2> HIDE DEF x, S, n, y, hi
  <2>1. \A j \in DOMAIN Slots(x)[h] : Slots(x)[h][j] = n =>
          /\ Well(y) /\ y.T.sz = x.T.sz /\ y.T.nr = x.T.nr - 1 /\ y.T.bm = x.T.bm
          /\ y.T.ht = IF j = 1 THEN [x.T.ht EXCEPT ![h] = x.next[n]] ELSE x.T.ht
          /\ y.next = IF j = 1 THEN x.next ELSE [x.next EXCEPT ![Slots(x)[h][j-1]] = x.next[n]]
    BY <1>8, Zenon DEF Removal
  <2>2. h = hi /\ Slots(x)[h] = q
    BY <1>4, <1>7
  <2> HIDE DEF h
  <2> QED BY <2>1, <2>2, <1>4, <1>6
<1>10. /\ y.T = [sz |-> y.T.sz, nr |-> y.T.nr, bm |-> y.T.bm, ht |-> y.T.ht]
       /\ tab[p] = [sz |-> tab[p].sz, nr |-> tab[p].nr, bm |-> tab[p].bm, ht |-> tab[p].ht]
  <2> HIDE DEF y, x
  <2>1. y.T = [sz |-> y.T.sz, nr |-> y.T.nr, bm |-> y.T.bm, ht |-> y.T.ht]
    BY <1>9, WellParts
  <2>2. x.T = [sz |-> x.T.sz, nr |-> x.T.nr, bm |-> x.T.bm, ht |-> x.T.ht]
    BY <1>4, WellParts
  <2> HIDE DEF p
  <2> QED BY <2>1, <2>2, <1>4
<1>11. call.pos = NULL <=> k = 1
  <2>1. k # 1 => q[k-1] \in Nodes
    BY <1>2, <1>5
  <2> QED BY <2>1, <1>5, NodesAssumption
<1>12. Store(p, y)
  <2>1. ASSUME NEW V, V = [tab[p] EXCEPT !.nr = @ - 1, !.ht[hi] = ht_next[n]], k = 1
        PROVE  V = y.T
    <3>1. V = [sz |-> tab[p].sz, nr |-> tab[p].nr - 1, bm |-> tab[p].bm,
               ht |-> [tab[p].ht EXCEPT ![hi] = ht_next[n]]]
      <4> HIDE DEF n, hi, p
      <4> QED BY <2>1, <1>10
    <3> HIDE DEF y, n, hi
    <3> QED BY <3>1, <2>1, <1>9, <1>10
  <2>2. ASSUME NEW V, V = [tab[p] EXCEPT !.nr = @ - 1], k # 1
        PROVE  V = y.T
    <3>1. V = [sz |-> tab[p].sz, nr |-> tab[p].nr - 1, bm |-> tab[p].bm, ht |-> tab[p].ht]
      <4> HIDE DEF p
      <4> QED BY <2>2, <1>10
    <3> HIDE DEF y, n, hi
    <3> QED BY <3>1, <2>2, <1>9, <1>10
  <2> HIDE DEF y
  <2>3. CASE k = 1
    BY <2>1, <2>3, <1>1, <1>9, <1>11 DEF Store
  <2>4. CASE k # 1
    BY <2>2, <2>4, <1>1, <1>5, <1>9, <1>11 DEF Store
  <2> QED BY <2>3, <2>4
<1>13. Kept(x, y, S) /\ \E d : Indexes(y, d, S \ {n})
  <2> HIDE DEF x, S, n
  <2> QED BY <1>4, <1>6, RemoveOK
<1>14. expanded[p]
  <2>1. ~expanded[p] => Kids(p) = {}
    BY <1>0, <1>2 DEF Owned, Kids, ToSet
  <2> QED BY <2>1, <1>6
<1> DEFINE w == <<n>>
<1>15. w \in Seq(Nodes) /\ Distinct(w) /\ ToSet(w) = {n} /\ Released(w)
  BY <1>1, <1>6, SingleOK
<1> HIDE DEF w, y, p, n
<1>16. /\ ToSet(w) \subseteq Kids(p)
       /\ \E d : Indexes(y, d, S \ ToSet(w))
       /\ childlist' = [childlist EXCEPT ![p] = Without(@, ToSet(w))]
  BY <1>1, <1>6, <1>13, <1>15
<1> QED BY <1>1, <1>2, <1>3, <1>9, <1>12, <1>13, <1>14, <1>15, <1>16, LeaveInv

\* A node that has no parent becomes a child of p; x is the table of p, with the
\* tag and key that n gets.
LEMMA JoinInv ==
  ASSUME IInv, NEW p \in Parents, NEW n \in Nodes, \A r \in Parents : n \notin Kids(r),
         NEW x, Well(x), x.T = tab[p], x.next = ht_next, x.tag = tag', x.key = key',
         \A m \in Nodes \ {n} : tag'[m] = tag[m] /\ key'[m] = key[m],
         tag' \in [Nodes -> Tags \union {0}], key' \in [Nodes -> Keys \union {NoKey}],
         free' \in Seq(Nodes), Distinct(free'), ToSet(free') \subseteq ToSet(free) \ {n},
         NEW b \in BOOLEAN, NEW at_tail \in BOOLEAN,
         InsertAs(p, n, at_tail, Put(x, n, b)),
         edits' \in 0 .. MaxEdits, call' = NoCall, expanded[p], val' = val, expanded' = expanded
  PROVE  IInv'
<1> DEFINE y == Put(x, n, b)
           S == Kids(p) \ unindexed
           R == IF Grows(x.T) /\ b THEN S ELSE S \union {n}
           w == IF at_tail THEN Append(childlist[p], n) ELSE <<n>> \o childlist[p]
<1>0. TypeOK /\ Owned /\ Indexed /\ KeysSeen
  BY DEF IInv
<1>1. /\ Kids(p) \in SUBSET Nodes /\ S \in SUBSET Nodes /\ n \notin S
      /\ \A r \in Parents \ {p} : Kids(p) \intersect Kids(r) = {}
      /\ Kids(p) \intersect ToSet(free) = {}
  BY <1>0, Apart
<1>2. \E c : Indexes(x, c, S)
  <2> DEFINE z == Table(p)
  <2>1. Indexes(z, Slots(z), S)
    BY <1>0 DEF Indexed
  <2>2. z.T = tab[p] /\ z.next = ht_next /\ z.tag = tag /\ z.key = key
    BY <1>0, TableWell
  <2> HIDE DEF z, S
  <2>3. Agree(z, x, S)
    BY <2>2, <1>1 DEF Agree
  <2>4. Indexes(x, Slots(z), S)
    BY <2>1, <2>3, IndexesFrame
  <2> QED BY <2>4
<1>3. Well(y) /\ Kept(x, y, S \union {n}) /\ y.ok = ~(Grows(x.T) /\ b) /\ \E d : Indexes(y, d, R)
  <2> HIDE DEF S
  <2> QED BY <1>1, <1>2, PutOK
<1>4. /\ childlist' = [childlist EXCEPT ![p] = w] /\ Store(p, y)
      /\ parent' = [parent EXCEPT ![n] = p]
      /\ child_has_key' = [child_has_key EXCEPT ![p] = @ \/ y.key[n] # NoKey]
      /\ unindexed' = IF y.ok THEN unindexed \ {n} ELSE unindexed \union {n}
      /\ rekeyed' = rekeyed \ {n}
  BY DEF InsertAs
<1>5. w \in Seq(Nodes) /\ Distinct(w) /\ ToSet(w) = Kids(p) \union {n}
  <2> DEFINE k == childlist[p]
             s == <<n>>
  <2>1. k \in Seq(Nodes) /\ Distinct(k) /\ ToSet(k) = Kids(p)
    BY <1>0 DEF TypeOK, Owned, Kids
  <2>2. s \in Seq(Nodes) /\ Distinct(s) /\ ToSet(s) = {n}
    BY SingleOK
  <2> HIDE DEF k, s
  <2>3. Append(k, n) \in Seq(Nodes) /\ Distinct(Append(k, n)) /\ ToSet(Append(k, n)) = Kids(p) \union {n}
    BY <2>1, AppendOK
  <2>4. s \o k \in Seq(Nodes) /\ Distinct(s \o k) /\ ToSet(s \o k) = Kids(p) \union {n}
    <3>1. ToSet(s) \intersect ToSet(k) = {} /\ ToSet(s) \union ToSet(k) = Kids(p) \union {n}
      BY <2>1, <2>2
    <3> QED BY <3>1, <2>1, <2>2, ConcatOK
  <2>5. w = IF at_tail THEN Append(k, n) ELSE s \o k
    BY DEF k, s
  <2> HIDE DEF w
  <2>6. CASE at_tail
    BY <2>3, <2>5, <2>6, Zenon
  <2>7. CASE ~at_tail
    BY <2>4, <2>5, <2>7, Zenon
  <2> QED BY <2>6, <2>7
<1> HIDE DEF y, w
<1>6. /\ childlist' \in [Parents -> Seq(Nodes)]
      /\ childlist'[p] = w /\ \A r \in Parents \ {p} : childlist'[r] = childlist[r]
  BY <1>0, <1>4, <1>5, ListsNext
<1>7. /\ tab' = [r \in Parents |-> tab'[r]] /\ tab'[p] = y.T
      /\ \A r \in Parents \ {p} : tab'[r] = tab[r]
      /\ \A r \in Parents : \E i \in DOMAIN Levels : tab'[r] \in TableOf(Levels[i])
      /\ ht_next' = y.next /\ ht_next' \in [Nodes -> Nodes \union {NULL}]
  BY <1>0, <1>3, <1>4, StoreOK
<1>8. /\ parent' \in [Nodes -> Parents \union {NULL}] /\ parent'[n] = p
      /\ \A m \in Nodes \ {n} : parent'[m] = parent[m]
  BY <1>0, <1>4 DEF TypeOK
<1>9. /\ child_has_key' \in [Parents -> BOOLEAN]
      /\ child_has_key'[p] = (child_has_key[p] \/ key'[n] # NoKey)
      /\ \A r \in Parents \ {p} : child_has_key'[r] = child_has_key[r]
  <2>1. y.key[n] = key'[n]
    BY <1>3 DEF Kept
  <2>2. child_has_key \in [Parents -> BOOLEAN]
    BY <1>0 DEF TypeOK
  <2> QED BY <2>1, <2>2, <1>4
<1>10. TypeOK'
  <2>1. call' \in [op : {"none", "find", "remove"}, p : Parents \union {NULL},
                   tag : Tags \union {0}, key : Keys \union {NoKey},
                   c : Nodes \union {NULL}, pos : Nodes \union {NULL}]
    BY DEF NoCall
  <2> QED BY <2>1, <1>0, <1>6, <1>7, <1>8, <1>9 DEF TypeOK
<1>11. \A m \in Nodes \ {n} : (m \in unindexed' <=> m \in unindexed) /\ (m \in rekeyed' <=> m \in rekeyed)
  BY <1>4
<1>12. Touches(p, Kids(p) \union {n})
  <2>1. \A m \in Nodes \ (Kids(p) \union {n}) : ht_next'[m] = ht_next[m]
    BY <1>3, <1>7 DEF Kept
  <2> QED BY <2>1, <1>1, <1>6, <1>7, <1>8, <1>9, <1>11 DEF Touches
<1>13. ListsRight(p)
  <2>1. \A m \in ToSet(free') : m \in Nodes \ {n} /\ m \in ToSet(free)
    <3>1. \A m \in ToSet(free') : m # n /\ m \in ToSet(free)
      OBVIOUS
    <3>2. \A m \in ToSet(free') : m \in Nodes
      <4>1. free' \in Seq(Nodes)
        OBVIOUS
      <4>2. \A i \in DOMAIN (free') : (free')[i] \in Nodes
        BY <4>1
      <4> QED BY <4>2 DEF ToSet
    <3> QED BY <3>1, <3>2
  <2>2. \A m \in ToSet(free') : tag'[m] = 0 /\ m \notin unindexed'
    BY <2>1, <1>0, <1>11 DEF Owned
  <2>3. \A m \in ToSet(w) : parent'[m] = p /\ m \notin ToSet(free')
    BY <1>0, <1>1, <1>5, <1>8 DEF Owned
  <2>4. ~child_has_key'[p] => \A m \in ToSet(w) : key'[m] # NoKey => m \in rekeyed'
    <3> SUFFICES ASSUME ~child_has_key'[p], NEW m \in ToSet(w), key'[m] # NoKey
                 PROVE  m \in rekeyed'
      OBVIOUS
    <3>1. m # n /\ m \in Kids(p) /\ ~child_has_key[p]
      BY <1>5, <1>9
    <3> QED BY <3>1, <1>0, <1>1, <1>11 DEF KeysSeen
  <2> QED BY <2>2, <2>3, <2>4, <1>5, <1>6 DEF ListsRight
<1>14. TableRight(p, y)
  <2>1. ToSet(childlist'[p]) \ unindexed' = R
    BY <1>1, <1>3, <1>4, <1>5, <1>6
  <2> HIDE DEF R
  <2> QED BY <2>1, <1>3, <1>7 DEF TableRight, Kept
<1> QED BY <1>10, <1>12, <1>13, <1>14, StepInv

LEMMA AttachInv ==
  ASSUME IInv, NEW p \in Parents, NEW n \in Nodes, NEW at_tail \in BOOLEAN, Attach(p, n, at_tail)
  PROVE  IInv'
<1> DEFINE x == Table(p)
<1>0. TypeOK /\ Owned
  BY DEF IInv
<1>1. /\ Editing /\ expanded[p] /\ tag[n] # 0 /\ ~Attached(n)
      /\ tag' = tag /\ key' = key /\ free' = free /\ val' = val /\ expanded' = expanded /\ call' = call
      /\ \E b \in BOOLEAN : InsertAs(p, n, at_tail, Put(x, n, b))
  BY DEF Attach
<1>2. call = NoCall /\ edits' \in 0 .. MaxEdits
  BY <1>0, <1>1, EditingOK
<1>3. PICK b \in BOOLEAN : InsertAs(p, n, at_tail, Put(x, n, b))
  BY <1>1
<1>4. \A r \in Parents : n \notin Kids(r)
  BY <1>1 DEF Attached
<1>5. Well(x) /\ x.T = tab[p] /\ x.next = ht_next /\ x.tag = tag' /\ x.key = key'
  BY <1>0, <1>1, TableWell
<1>6. /\ tag' \in [Nodes -> Tags \union {0}] /\ key' \in [Nodes -> Keys \union {NoKey}]
      /\ free' \in Seq(Nodes) /\ Distinct(free') /\ ToSet(free') \subseteq ToSet(free) \ {n}
      /\ \A m \in Nodes \ {n} : tag'[m] = tag[m] /\ key'[m] = key[m]
  BY <1>0, <1>1 DEF TypeOK, Owned
<1>7. call' = NoCall
  BY <1>1, <1>2
<1> HIDE DEF x
<1> QED BY <1>1, <1>2, <1>3, <1>4, <1>5, <1>6, <1>7, JoinInv

\* The head of the free list leaves it.
LEMMA TailOK ==
  ASSUME NEW q \in Seq(Nodes), Distinct(q), q # <<>>
  PROVE  /\ Head(q) \in Nodes /\ Head(q) \in ToSet(q)
         /\ Tail(q) \in Seq(Nodes) /\ Distinct(Tail(q)) /\ ToSet(Tail(q)) \subseteq ToSet(q) \ {Head(q)}
<1> DEFINE r == Tail(q)
           h == Head(q)
<1>1. /\ Len(q) \in Nat \ {0} /\ DOMAIN q = 1 .. Len(q) /\ h = q[1] /\ h \in Nodes
      /\ r \in Seq(Nodes) /\ DOMAIN r = 1 .. Len(q) - 1 /\ \A k \in 1 .. Len(q) - 1 : r[k] = q[k+1]
  OBVIOUS
<1> HIDE DEF r, h
<1>2. \A k \in 1 .. Len(q) - 1 : k + 1 \in 1 .. Len(q) /\ k + 1 # 1
  BY <1>1
<1>3. 1 \in 1 .. Len(q)
  BY <1>1
<1>4. Distinct(r)
  <2> SUFFICES ASSUME NEW i \in 1 .. Len(q) - 1, NEW j \in 1 .. Len(q) - 1, r[i] = r[j] PROVE i = j
    BY <1>1 DEF Distinct
  <2>1. i + 1 = j + 1
    BY <1>1, <1>2 DEF Distinct
  <2> QED BY <2>1, <1>1
<1>5. \A k \in 1 .. Len(q) - 1 : r[k] \in ToSet(q) \ {h}
  BY <1>1, <1>2, <1>3 DEF Distinct, ToSet
<1>6. ToSet(r) \subseteq ToSet(q) \ {h}
  BY <1>1, <1>5 DEF ToSet
<1>7. h \in ToSet(q)
  BY <1>1, <1>3 DEF ToSet
<1> QED BY <1>1, <1>4, <1>6, <1>7 DEF r, h

LEMMA InsertChildInv ==
  ASSUME IInv, NEW p \in Parents, NEW t \in Tags, NEW k \in Keys \union {NoKey},
         NEW at_tail \in BOOLEAN, InsertChild(p, t, k, at_tail)
  PROVE  IInv'
<1> DEFINE n == Head(free)
           x == [Table(p) EXCEPT !.tag[n] = t, !.key[n] = k]
<1>0. TypeOK /\ Owned
  BY DEF IInv
<1>1. /\ Editing /\ expanded[p] /\ free # <<>> /\ free' = Tail(free)
      /\ tag' = x.tag /\ key' = x.key /\ val' = val /\ expanded' = expanded /\ call' = call
      /\ \E b \in BOOLEAN : InsertAs(p, n, at_tail, Put(x, n, b))
  BY DEF InsertChild
<1>2. call = NoCall /\ edits' \in 0 .. MaxEdits
  BY <1>0, <1>1, EditingOK
<1>3. PICK b \in BOOLEAN : InsertAs(p, n, at_tail, Put(x, n, b))
  BY <1>1
<1>4. /\ n \in Nodes /\ n \in ToSet(free)
      /\ free' \in Seq(Nodes) /\ Distinct(free') /\ ToSet(free') \subseteq ToSet(free) \ {n}
  BY <1>0, <1>1, TailOK DEF TypeOK, Owned
<1>5. \A r \in Parents : n \notin Kids(r)
  BY <1>0, <1>4 DEF Owned
<1> HIDE DEF n
<1>6. x = [T |-> tab[p], next |-> ht_next, tag |-> [tag EXCEPT ![n] = t], key |-> [key EXCEPT ![n] = k],
           ok |-> TRUE]
  <2>1. ASSUME NEW z, z = Table(p), NEW y, y = [z EXCEPT !.tag[n] = t, !.key[n] = k]
        PROVE  y = [T |-> tab[p], next |-> ht_next, tag |-> [tag EXCEPT ![n] = t],
                    key |-> [key EXCEPT ![n] = k], ok |-> TRUE]
    BY <2>1 DEF Table
  <2> DEFINE z == Table(p)
  <2>2. z = Table(p) /\ x = [z EXCEPT !.tag[n] = t, !.key[n] = k]
    OBVIOUS
  <2> HIDE DEF x, z
  <2> QED BY <2>1, <2>2
<1> HIDE DEF x
<1>7. x.T = tab[p] /\ x.next = ht_next /\ x.tag = [tag EXCEPT ![n] = t] /\ x.key = [key EXCEPT ![n] = k]
  BY <1>6
<1>8. /\ tag' \in [Nodes -> Tags \union {0}] /\ key' \in [Nodes -> Keys \union {NoKey}]
      /\ \A m \in Nodes \ {n} : tag'[m] = tag[m] /\ key'[m] = key[m]
  BY <1>0, <1>1, <1>4, <1>7 DEF TypeOK
<1>9. Well(x)
  <2>1. x.tag \in [Nodes -> Nat] /\ x.key \in [Nodes -> Nat]
    <3>1. tag' \in [Nodes -> Nat] /\ key' \in [Nodes -> Nat]
      <4>1. Tags \union {0} \subseteq Nat /\ Keys \union {NoKey} \subseteq Nat
        BY ValuesAssumption DEF NoKey
      <4> QED BY <4>1, <1>8
    <3> QED BY <3>1, <1>1
  <2>2. x.next \in [Nodes -> Pointers] /\ \E i \in DOMAIN Levels : x.T \in TableOf(Levels[i])
    BY <1>0, <1>7 DEF TypeOK, Pointers
  <2>3. x = [T |-> x.T, next |-> x.next, tag |-> x.tag, key |-> x.key, ok |-> x.ok]
    BY <1>6
  <2> QED BY <2>1, <2>2, <2>3 DEF Well
<1>10. call' = NoCall
  BY <1>1, <1>2
<1>11. x.T = tab[p] /\ x.next = ht_next /\ x.tag = tag' /\ x.key = key'
  BY <1>1, <1>7
<1>12. expanded[p] /\ val' = val /\ expanded' = expanded /\ edits' \in 0 .. MaxEdits
  BY <1>1, <1>2
<1> QED BY <1>3, <1>4, <1>5, <1>8, <1>9, <1>10, <1>11, <1>12, JoinInv

LEMMA Relabelled ==
  ASSUME NEW T, NEW next, NEW tg, NEW ky, NEW b, NEW n, NEW t, NEW k, NEW r, NEW x,
         r = [T |-> T, next |-> next, tag |-> tg, key |-> ky, ok |-> b],
         x = [r EXCEPT !.tag[n] = t, !.key[n] = k]
  PROVE  x = [T |-> T, next |-> next, tag |-> [tg EXCEPT ![n] = t], key |-> [ky EXCEPT ![n] = k], ok |-> b]
OBVIOUS

\* A child gets another tag and key, and another entry.
LEMMA RehashInv ==
  ASSUME IInv, NEW n \in Nodes, Editing, Attached(n), NEW t \in Tags \union {0},
         NEW k \in Keys \union {NoKey}, Rehash(n, t, k),
         parent' = parent, free' = free, val' = val, expanded' = expanded, childlist' = childlist,
         child_has_key' = child_has_key, call' = call,
         \A m \in Nodes \ {n} : m \in rekeyed' <=> m \in rekeyed,
         k # NoKey => (n \in rekeyed' \/ (key[n] # NoKey /\ rekeyed' = rekeyed))
  PROVE  IInv'
<1> DEFINE p == parent[n]
           z == Table(p)
           S == Kids(p) \ unindexed
           r == Remove(z, n)
           x == [r EXCEPT !.tag[n] = t, !.key[n] = k]
<1>0. TypeOK /\ Owned /\ Indexed /\ KeysSeen
  BY DEF IInv
<1>1. call = NoCall /\ edits' \in 0 .. MaxEdits
  BY <1>0, EditingOK
<1>2. p \in Parents /\ n \in Kids(p)
  BY <1>0 DEF Attached, Owned
<1>3. PICK b \in BOOLEAN : LET y == Put(x, n, b)
                           IN  /\ Store(p, y) /\ tag' = y.tag /\ key' = y.key
                               /\ unindexed' = IF y.ok THEN unindexed \ {n} ELSE unindexed \union {n}
  BY Zenon DEF Rehash
<1> DEFINE y == Put(x, n, b)
           R == IF Grows(x.T) /\ b THEN S \ {n} ELSE (S \ {n}) \union {n}
<1>4. /\ Store(p, y) /\ tag' = y.tag /\ key' = y.key
      /\ unindexed' = IF y.ok THEN unindexed \ {n} ELSE unindexed \union {n}
  BY <1>3
<1>5. /\ Kids(p) \in SUBSET Nodes /\ S \in SUBSET Nodes
      /\ \A q \in Parents \ {p} : Kids(p) \intersect Kids(q) = {}
      /\ Kids(p) \intersect ToSet(free) = {}
  <2> HIDE DEF p
  <2> QED BY <1>0, <1>2, Apart
<1>6. /\ Well(z) /\ z.next = ht_next /\ z.tag = tag /\ z.key = key
      /\ Indexes(z, Slots(z), S)
  <2> HIDE DEF p
  <2> QED BY <1>0, <1>2, TableWell DEF Indexed
<1> HIDE DEF p
<1>7. Well(r) /\ r.tag = tag /\ r.key = key /\ Kept(z, r, S) /\ \E d : Indexes(r, d, S \ {n})
  <2>1. Well(r) /\ Kept(z, r, S) /\ \E d : Indexes(r, d, S \ {n})
    <3> HIDE DEF z, S
    <3> QED BY <1>5, <1>6, RemoveOK
  <2> HIDE DEF r, z
  <2> QED BY <2>1, <1>6 DEF Kept
<1> HIDE DEF z, r
<1>8. x = [T |-> r.T, next |-> r.next, tag |-> [tag EXCEPT ![n] = t], key |-> [key EXCEPT ![n] = k],
           ok |-> r.ok]
  <2>1. r = [T |-> r.T, next |-> r.next, tag |-> tag, key |-> key, ok |-> r.ok]
    BY <1>7 DEF Well
  <2>2. x = [r EXCEPT !.tag[n] = t, !.key[n] = k]
    OBVIOUS
  <2> DEFINE T    == r.T
             next == r.next
             ok   == r.ok
  <2>3. r = [T |-> T, next |-> next, tag |-> tag, key |-> key, ok |-> ok]
    BY <2>1
  <2> HIDE DEF x, T, next, ok
  <2>4. x = [T |-> T, next |-> next, tag |-> [tag EXCEPT ![n] = t], key |-> [key EXCEPT ![n] = k], ok |-> ok]
    BY <2>2, <2>3, Relabelled
  <2> QED BY <2>4 DEF T, next, ok
<1> HIDE DEF x
<1>9. /\ x.T = r.T /\ x.next = r.next /\ x.ok = r.ok
      /\ x.tag = [tag EXCEPT ![n] = t] /\ x.key = [key EXCEPT ![n] = k]
  BY <1>8
<1>10. /\ x.tag \in [Nodes -> Tags \union {0}] /\ x.key \in [Nodes -> Keys \union {NoKey}]
       /\ x.key[n] = k /\ \A m \in Nodes \ {n} : x.tag[m] = tag[m] /\ x.key[m] = key[m]
  BY <1>0, <1>9 DEF TypeOK
<1>11. Well(x)
  <2>1. x.tag \in [Nodes -> Nat] /\ x.key \in [Nodes -> Nat]
    <3>1. Tags \union {0} \subseteq Nat /\ Keys \union {NoKey} \subseteq Nat
      BY ValuesAssumption DEF NoKey
    <3> QED BY <3>1, <1>10
  <2>2. x.next \in [Nodes -> Pointers] /\ \E i \in DOMAIN Levels : x.T \in TableOf(Levels[i])
    BY <1>7, <1>9 DEF Well
  <2>3. x = [T |-> x.T, next |-> x.next, tag |-> x.tag, key |-> x.key, ok |-> x.ok]
    BY <1>8
  <2> QED BY <2>1, <2>2, <2>3 DEF Well
<1>12. Well(y) /\ Kept(x, y, (S \ {n}) \union {n}) /\ y.ok = ~(Grows(x.T) /\ b) /\ \E d : Indexes(y, d, R)
  <2> DEFINE Q == S \ {n}
  <2>1. PICK d : Indexes(r, d, Q)
    BY <1>7
  <2>2. Q \in SUBSET Nodes /\ n \in Nodes \ Q
    BY <1>5
  <2> HIDE DEF Q
  <2>3. Agree(r, x, Q)
    BY <2>2, <1>7, <1>9, <1>10 DEF Agree
  <2>4. Indexes(x, d, Q)
    BY <2>1, <2>3, IndexesFrame
  <2>5. /\ Well(y) /\ Kept(x, y, Q \union {n}) /\ y.ok = ~(Grows(x.T) /\ b)
        /\ \E e : Indexes(y, e, IF Grows(x.T) /\ b THEN Q ELSE Q \union {n})
    BY <2>2, <2>4, <1>11, PutOK
  <2> QED BY <2>5 DEF Q
<1> HIDE DEF y
<1>13. /\ tab' = [q \in Parents |-> tab'[q]] /\ tab'[p] = y.T
       /\ \A q \in Parents \ {p} : tab'[q] = tab[q]
       /\ \A q \in Parents : \E i \in DOMAIN Levels : tab'[q] \in TableOf(Levels[i])
       /\ ht_next' = y.next /\ ht_next' \in [Nodes -> Nodes \union {NULL}]
  BY <1>0, <1>2, <1>4, <1>12, StoreOK
<1>14. tag' = x.tag /\ key' = x.key
  BY <1>4, <1>12 DEF Kept
<1>15. TypeOK'
  BY <1>0, <1>1, <1>10, <1>13, <1>14 DEF TypeOK
<1>16. \A m \in Nodes \ {n} : m \in unindexed' <=> m \in unindexed
  BY <1>4
<1>17. Touches(p, Kids(p))
  <2>1. \A m \in Nodes \ Kids(p) : ht_next'[m] = ht_next[m] /\ m # n
    BY <1>2, <1>6, <1>7, <1>9, <1>12, <1>13 DEF Kept
  <2>2. \A m \in Nodes \ Kids(p) : tag'[m] = tag[m] /\ key'[m] = key[m]
    BY <2>1, <1>10, <1>14
  <2> QED BY <2>1, <2>2, <1>5, <1>13, <1>16 DEF Touches
<1>18. ListsRight(p)
  <2>1. \A m \in ToSet(free) : m \in Nodes \ {n}
    BY <1>0, <1>2, <1>5 DEF TypeOK, ToSet
  <2>2. \A m \in ToSet(free) : tag'[m] = 0 /\ m \notin unindexed'
    BY <2>1, <1>0, <1>10, <1>14, <1>16 DEF Owned
  <2>3. ~child_has_key[p] => \A m \in Kids(p) : key'[m] # NoKey => m \in rekeyed'
    <3> SUFFICES ASSUME ~child_has_key[p], NEW m \in Kids(p), key'[m] # NoKey
                 PROVE  m \in rekeyed'
      OBVIOUS
    <3>1. CASE m = n
      <4>1. k # NoKey
        BY <3>1, <1>10, <1>14
      <4>2. key[n] # NoKey => n \in rekeyed
        BY <1>0, <1>2 DEF KeysSeen
      <4> QED BY <4>1, <4>2, <3>1
    <3>2. CASE m # n
      BY <3>2, <1>0, <1>2, <1>5, <1>10, <1>14 DEF KeysSeen
    <3> QED BY <3>1, <3>2
  <2> QED BY <2>2, <2>3, <1>0, <1>2 DEF ListsRight, Owned, Kids
<1>19. TableRight(p, y)
  <2>1. Kids(p) \ unindexed' = R
    BY <1>2, <1>4, <1>12
  <2>2. ToSet(childlist'[p]) \ unindexed' = R
    BY <2>1 DEF Kids
  <2> HIDE DEF R
  <2> QED BY <2>2, <1>4, <1>12, <1>13 DEF TableRight
<1>20. call' = NoCall
  BY <1>1
<1> QED BY <1>2, <1>15, <1>17, <1>18, <1>19, <1>20, StepInv

LEMMA SetTagInv ==
  ASSUME IInv, NEW n \in Nodes, NEW t \in Tags, SetTag(n, t)
  PROVE  IInv'
<1>1. /\ Editing /\ Attached(n) /\ Rehash(n, t, key[n]) /\ parent' = parent /\ free' = free
      /\ val' = val /\ expanded' = expanded /\ childlist' = childlist
      /\ child_has_key' = child_has_key /\ call' = call /\ rekeyed' = rekeyed
  BY DEF SetTag, par
<1> DEFINE k == key[n]
<1>2. k \in Keys \union {NoKey}
  BY DEF IInv, TypeOK
<1>3. k # NoKey => (n \in rekeyed' \/ (key[n] # NoKey /\ rekeyed' = rekeyed))
  BY <1>1
<1>4. Rehash(n, t, k)
  BY <1>1
<1> HIDE DEF k
<1> QED BY <1>1, <1>2, <1>3, <1>4, RehashInv

LEMMA SetKeyInv ==
  ASSUME IInv, NEW n \in Nodes, NEW k \in Keys \union {NoKey}, SetKey(n, k)
  PROVE  IInv'
<1>1. /\ Editing /\ Attached(n) /\ Rehash(n, tag[n], k) /\ parent' = parent /\ free' = free
      /\ val' = val /\ expanded' = expanded /\ childlist' = childlist
      /\ child_has_key' = child_has_key /\ call' = call
      /\ rekeyed' = IF k = NoKey THEN rekeyed \ {n} ELSE rekeyed \union {n}
  BY DEF SetKey, par
<1> DEFINE t == tag[n]
<1>2. t \in Tags \union {0}
  BY DEF IInv, TypeOK
<1>3. /\ \A m \in Nodes \ {n} : m \in rekeyed' <=> m \in rekeyed
      /\ k # NoKey => n \in rekeyed'
  BY <1>1
<1>4. Rehash(n, t, k)
  BY <1>1
<1> HIDE DEF t
<1> QED BY <1>1, <1>2, <1>3, <1>4, RehashInv

\* A child that has a key reads it anew from its value.
LEMMA SetChildValueInv ==
  ASSUME IInv, NEW n \in Nodes, NEW k \in Keys \union {NoKey}, SetChildValue(n, k)
  PROVE  IInv'
<1>1. /\ Editing /\ Attached(n) /\ Rehash(n, tag[n], k) /\ parent' = parent /\ free' = free
      /\ val' = val /\ expanded' = expanded /\ childlist' = childlist
      /\ child_has_key' = child_has_key /\ call' = call /\ key[n] # NoKey
      /\ rekeyed' = IF k = NoKey THEN rekeyed \ {n} ELSE rekeyed
  BY DEF SetChildValue, par
<1> DEFINE t == tag[n]
<1>2. t \in Tags \union {0}
  BY DEF IInv, TypeOK
<1>3. /\ \A m \in Nodes \ {n} : m \in rekeyed' <=> m \in rekeyed
      /\ k # NoKey => key[n] # NoKey /\ rekeyed' = rekeyed
  BY <1>1
<1>4. Rehash(n, t, k)
  BY <1>1
<1> HIDE DEF t
<1> QED BY <1>1, <1>2, <1>3, <1>4, RehashInv

\* The first m elements of a sequence, and the rest.
LEMMA SplitOK ==
  ASSUME NEW s \in Seq(Nodes), Distinct(s), NEW m \in Nat, m <= Len(s)
  PROVE  LET q == SubSeq(s, 1, m)
             r == SubSeq(s, m + 1, Len(s))
         IN  /\ q \in Seq(Nodes) /\ Len(q) = m /\ Distinct(q) /\ ToSet(q) \subseteq ToSet(s)
             /\ r \in Seq(Nodes) /\ Distinct(r) /\ ToSet(r) \subseteq ToSet(s) \ ToSet(q)
<1> DEFINE q == SubSeq(s, 1, m)
           r == SubSeq(s, m + 1, Len(s))
           j == Len(s) - m
<1>1. /\ Len(s) \in Nat /\ DOMAIN s = 1 .. Len(s) /\ \A i \in 1 .. Len(s) : s[i] \in Nodes
      /\ j \in Nat
  OBVIOUS
<1>2. /\ q \in Seq(Nodes) /\ Len(q) = m /\ DOMAIN q = 1 .. m /\ \A i \in 1 .. m : q[i] = s[i]
  BY <1>1
<1>3. /\ r \in Seq(Nodes) /\ DOMAIN r = 1 .. j /\ \A i \in 1 .. j : r[i] = s[i + m]
  BY <1>1
<1>4. /\ \A i \in 1 .. m : i \in 1 .. Len(s)
      /\ \A i \in 1 .. j : i + m \in 1 .. Len(s) /\ i + m \notin 1 .. m
  BY <1>1
<1> HIDE DEF q, r, j
<1>5. Distinct(q) /\ ToSet(q) \subseteq ToSet(s)
  BY <1>1, <1>2, <1>4 DEF Distinct, ToSet
<1>6. Distinct(r)
  <2> SUFFICES ASSUME NEW i \in 1 .. j, NEW k \in 1 .. j, r[i] = r[k] PROVE i = k
    BY <1>3 DEF Distinct
  <2>1. i + m = k + m
    BY <1>1, <1>3, <1>4 DEF Distinct
  <2> QED BY <2>1, <1>1
<1>7. \A i \in 1 .. j : r[i] \in ToSet(s) \ ToSet(q)
  <2> SUFFICES ASSUME NEW i \in 1 .. j PROVE r[i] \in ToSet(s) /\ r[i] \notin ToSet(q)
    OBVIOUS
  <2>1. r[i] = s[i + m] /\ i + m \in 1 .. Len(s)
    BY <1>3, <1>4
  <2>2. r[i] \in ToSet(s)
    BY <2>1, <1>1 DEF ToSet
  <2>3. ASSUME NEW k \in 1 .. m PROVE q[k] # r[i]
    <3>1. q[k] = s[k] /\ k \in 1 .. Len(s) /\ k # i + m
      BY <1>2, <1>4
    <3> QED BY <3>1, <2>1, <1>1 DEF Distinct
  <2> QED BY <2>2, <2>3, <1>2 DEF ToSet
<1>8. ToSet(r) \subseteq ToSet(s) \ ToSet(q)
  BY <1>3, <1>7 DEF ToSet
<1> QED BY <1>2, <1>3, <1>5, <1>6, <1>8 DEF q, r

\* The nodes of q have the tags and keys of the fields of d; x is a record like
\* Table(p), with those.
Filled(p, d, q, x) ==
  /\ Well(x) /\ x.T = tab[p] /\ x.next = ht_next
  /\ x.tag \in [Nodes -> Tags \union {0}] /\ x.key \in [Nodes -> Keys \union {NoKey}]
  /\ \A m \in Nodes \ ToSet(q) : x.tag[m] = tag[m] /\ x.key[m] = key[m]
  /\ ~AnyKey(d, Len(d)) => \A m \in ToSet(q) : x.key[m] = NoKey

LEMMA FillIs ==
  ASSUME NEW T, NEW next, NEW tg, NEW ky, NEW b, NEW g, NEW h, NEW r, NEW x,
         r = [T |-> T, next |-> next, tag |-> tg, key |-> ky, ok |-> b],
         x = [r EXCEPT !.tag = g, !.key = h]
  PROVE  x = [T |-> T, next |-> next, tag |-> g, key |-> h, ok |-> b]
OBVIOUS

LEMMA FillOK ==
  ASSUME TypeOK, NEW p \in Parents, NEW d \in Docs, NEW q \in Seq(Nodes), Distinct(q), Len(q) = Len(d)
  PROVE  Filled(p, d, q, Fill(p, d, q))
<1> DEFINE at(n) == CHOOSE i \in DOMAIN q : q[i] = n
           x == Fill(p, d, q)
           g == [n \in Nodes |-> IF n \in ToSet(q) THEN d[at(n)].tag ELSE tag[n]]
           h == [n \in Nodes |-> IF n \in ToSet(q) THEN d[at(n)].key ELSE key[n]]
<1>1. x = [T |-> tab[p], next |-> ht_next, tag |-> g, key |-> h, ok |-> TRUE]
  <2> DEFINE z == Table(p)
             gz == [n \in Nodes |-> IF n \in ToSet(q) THEN d[at(n)].tag ELSE z.tag[n]]
             hz == [n \in Nodes |-> IF n \in ToSet(q) THEN d[at(n)].key ELSE z.key[n]]
  <2>1. x = [z EXCEPT !.tag = gz, !.key = hz]
    BY DEF Fill
  <2>2. z = [T |-> tab[p], next |-> ht_next, tag |-> tag, key |-> key, ok |-> TRUE]
    BY DEF Table
  <2> HIDE DEF at, x, z
  <2>3. z.tag = tag /\ z.key = key
    BY <2>2
  <2>4. gz = g /\ hz = h
    BY <2>3
  <2> HIDE DEF gz, hz, g, h
  <2>5. x = [z EXCEPT !.tag = g, !.key = h]
    BY <2>1, <2>4
  <2> QED BY <2>2, <2>5, FillIs
<1>2. \A n \in ToSet(q) : at(n) \in 1 .. Len(d)
  <2>1. DOMAIN q = 1 .. Len(d)
    OBVIOUS
  <2>2. ASSUME NEW n \in ToSet(q) PROVE at(n) \in DOMAIN q
    <3>1. \E i \in DOMAIN q : q[i] = n
      BY DEF ToSet
    <3> QED BY <3>1
  <2> HIDE DEF at
  <2> QED BY <2>1, <2>2
<1> DEFINE Field == [tag : Tags, key : Keys \union {NoKey}]
<1>3. d \in Seq(Field)
  BY ValuesAssumption
<1>4. \A i \in 1 .. Len(d) : d[i].tag \in Tags /\ d[i].key \in Keys \union {NoKey}
  <2>1. \A i \in 1 .. Len(d) : d[i] \in Field
    <3> HIDE DEF Field
    <3> QED BY <1>3
  <2> QED BY <2>1
<1> HIDE DEF at
<1>5. tag \in [Nodes -> Tags \union {0}] /\ key \in [Nodes -> Keys \union {NoKey}]
  BY DEF TypeOK
<1>6. g \in [Nodes -> Tags \union {0}] /\ h \in [Nodes -> Keys \union {NoKey}]
  BY <1>2, <1>4, <1>5
<1>7. \A m \in Nodes \ ToSet(q) : g[m] = tag[m] /\ h[m] = key[m]
  OBVIOUS
<1>8. ~AnyKey(d, Len(d)) => \A m \in ToSet(q) : h[m] = NoKey
  <2>1. ToSet(q) \subseteq Nodes
    BY DEF ToSet
  <2> QED BY <2>1, <1>2 DEF AnyKey
<1> HIDE DEF x, g, h
<1>9. x.T = tab[p] /\ x.next = ht_next /\ x.tag = g /\ x.key = h /\ x.ok = TRUE
  BY <1>1
<1>10. Well(x)
  <2>1. x.tag \in [Nodes -> Nat] /\ x.key \in [Nodes -> Nat]
    <3>1. Tags \union {0} \subseteq Nat /\ Keys \union {NoKey} \subseteq Nat
      BY ValuesAssumption DEF NoKey
    <3> QED BY <3>1, <1>6, <1>9
  <2>2. x.next \in [Nodes -> Pointers] /\ \E i \in DOMAIN Levels : x.T \in TableOf(Levels[i])
    BY <1>9 DEF TypeOK, Pointers
  <2>3. x = [T |-> x.T, next |-> x.next, tag |-> x.tag, key |-> x.key, ok |-> x.ok]
    BY <1>1
  <2> QED BY <2>1, <2>2, <2>3 DEF Well
<1>11. Filled(p, d, q, x)
  BY <1>6, <1>7, <1>8, <1>9, <1>10 DEF Filled
<1> QED BY <1>11 DEF x

LEMMA ExpandInv ==
  ASSUME IInv, NEW p \in Parents, Expand(p)
  PROVE  IInv'
<1> DEFINE d  == val[p]
           q  == SubSeq(free, 1, Len(d))
           x  == Fill(p, d, q)
<1>0. TypeOK /\ Owned /\ Indexed /\ KeysSeen
  BY DEF IInv
<1>1. /\ call = NoCall /\ ~expanded[p] /\ Len(d) <= Len(free)
      /\ parent' = [n \in Nodes |-> IF n \in ToSet(q) THEN p ELSE parent[n]]
      /\ free' = SubSeq(free, Len(q) + 1, Len(free))
      /\ childlist' = [childlist EXCEPT ![p] = q]
      /\ child_has_key' = [child_has_key EXCEPT ![p] = AnyKey(d, Len(d))]
      /\ expanded' = [expanded EXCEPT ![p] = TRUE]
      /\ val' = val /\ call' = call /\ edits' = edits /\ rekeyed' = rekeyed
  BY DEF Expand, Idling
<1>2. PICK F \in SUBSET DOMAIN q :
         /\ \A i \in DOMAIN q : PutAll(x, q, F)[i].ok <=> i \notin F
         /\ Store(p, PutAll(x, q, F)[Len(q)])
         /\ tag' = PutAll(x, q, F)[0].tag /\ key' = PutAll(x, q, F)[0].key
         /\ unindexed' = unindexed \union {q[i] : i \in F}
  BY Zenon DEF Expand
<1>3. /\ d \in Docs /\ Len(d) \in Nat /\ free \in Seq(Nodes) /\ Distinct(free)
  BY <1>0, ValuesAssumption DEF TypeOK, Owned
<1>4. /\ q \in Seq(Nodes) /\ Len(q) = Len(d) /\ Distinct(q) /\ ToSet(q) \subseteq ToSet(free)
      /\ free' \in Seq(Nodes) /\ Distinct(free') /\ ToSet(free') \subseteq ToSet(free) \ ToSet(q)
  <2> DEFINE m == Len(d)
  <2>1. m \in Nat /\ m <= Len(free)
    BY <1>1, <1>3
  <2> HIDE DEF m, d
  <2>2. /\ q \in Seq(Nodes) /\ Len(q) = m /\ Distinct(q) /\ ToSet(q) \subseteq ToSet(free)
        /\ SubSeq(free, m + 1, Len(free)) \in Seq(Nodes) /\ Distinct(SubSeq(free, m + 1, Len(free)))
        /\ ToSet(SubSeq(free, m + 1, Len(free))) \subseteq ToSet(free) \ ToSet(q)
    BY <2>1, <1>3, SplitOK DEF m
  <2> HIDE DEF q
  <2> QED BY <2>2, <1>1 DEF m
<1> HIDE DEF d, q
<1> DEFINE y == PutAll(x, q, F)[Len(q)]
           Q == {q[i] : i \in F}
<1>5. Filled(p, d, q, x)
  BY <1>0, <1>3, <1>4, FillOK
<1> HIDE DEF x
<1>6. Kids(p) = {}
  BY <1>0, <1>1 DEF Owned, Kids, ToSet
<1>7. \E c : Indexes(x, c, {})
  <2> DEFINE z == Table(p)
  <2>1. Indexes(z, Slots(z), {})
    <3>1. Kids(p) \ unindexed = {}
      BY <1>6
    <3> QED BY <3>1, <1>0 DEF Indexed
  <2>2. z.T = tab[p]
    BY <1>0, TableWell
  <2> HIDE DEF z
  <2>3. Agree(z, x, {})
    BY <2>2, <1>5 DEF Agree, Filled
  <2>4. Indexes(x, Slots(z), {})
    BY <2>1, <2>3, IndexesFrame
  <2> QED BY <2>4
<1>8. Well(y) /\ Kept(x, y, ToSet(q)) /\ \E e : Indexes(y, e, ToSet(q) \ Q)
  <2>1. Well(x)
    BY <1>5 DEF Filled
  <2> QED BY <2>1, <1>2, <1>4, <1>7, PutAllOK
<1>9. PutAll(x, q, F)[0] = x
  <2>1. 0 \in 0 .. Len(q)
    BY <1>4
  <2> QED BY <2>1, <1>4, PutAllIs
<1>10. tag' = x.tag /\ key' = x.key /\ Store(p, y) /\ unindexed' = unindexed \union Q
  BY <1>2, <1>9
<1>11. Q \subseteq ToSet(q)
  BY <1>2 DEF ToSet
<1> HIDE DEF y, Q
<1>12. /\ tag' \in [Nodes -> Tags \union {0}] /\ key' \in [Nodes -> Keys \union {NoKey}]
       /\ \A m \in Nodes \ ToSet(q) : tag'[m] = tag[m] /\ key'[m] = key[m]
       /\ ~AnyKey(d, Len(d)) => \A m \in ToSet(q) : key'[m] = NoKey
  BY <1>5, <1>10 DEF Filled
<1>13. /\ childlist' \in [Parents -> Seq(Nodes)]
       /\ childlist'[p] = q /\ \A r \in Parents \ {p} : childlist'[r] = childlist[r]
  BY <1>0, <1>1, <1>4, ListsNext
<1>14. /\ tab' = [r \in Parents |-> tab'[r]] /\ tab'[p] = y.T
       /\ \A r \in Parents \ {p} : tab'[r] = tab[r]
       /\ \A r \in Parents : \E i \in DOMAIN Levels : tab'[r] \in TableOf(Levels[i])
       /\ ht_next' = y.next /\ ht_next' \in [Nodes -> Nodes \union {NULL}]
  BY <1>0, <1>8, <1>10, StoreOK
<1>15. ToSet(q) \in SUBSET Nodes /\ ToSet(free) \in SUBSET Nodes
  BY <1>3, <1>4 DEF ToSet
<1>16. /\ parent' \in [Nodes -> Parents \union {NULL}] /\ \A m \in ToSet(q) : parent'[m] = p
       /\ \A m \in Nodes \ ToSet(q) : parent'[m] = parent[m]
  BY <1>0, <1>1, <1>15 DEF TypeOK
<1>17. /\ child_has_key' \in [Parents -> BOOLEAN] /\ expanded' \in [Parents -> BOOLEAN]
       /\ child_has_key'[p] = AnyKey(d, Len(d)) /\ expanded'[p] = TRUE
       /\ \A r \in Parents \ {p} : child_has_key'[r] = child_has_key[r] /\ expanded'[r] = expanded[r]
  <2>1. AnyKey(d, Len(d)) \in BOOLEAN
    BY DEF AnyKey
  <2>2. child_has_key \in [Parents -> BOOLEAN] /\ expanded \in [Parents -> BOOLEAN]
    BY <1>0 DEF TypeOK
  <2> DEFINE a == AnyKey(d, Len(d))
  <2>3. a \in BOOLEAN /\ child_has_key' = [child_has_key EXCEPT ![p] = a]
    BY <2>1, <1>1
  <2> HIDE DEF a
  <2>4. /\ child_has_key' \in [Parents -> BOOLEAN] /\ expanded' \in [Parents -> BOOLEAN]
        /\ child_has_key'[p] = a /\ expanded'[p] = TRUE
        /\ \A r \in Parents \ {p} : child_has_key'[r] = child_has_key[r] /\ expanded'[r] = expanded[r]
    BY <2>2, <2>3, <1>1
  <2> QED BY <2>4 DEF a
<1>18. TypeOK'
  BY <1>0, <1>1, <1>4, <1>12, <1>13, <1>14, <1>16, <1>17 DEF TypeOK
<1>19. Touches(p, ToSet(q))
  <2>1. \A m \in Nodes \ ToSet(q) : ht_next'[m] = ht_next[m]
    BY <1>5, <1>8, <1>14 DEF Kept, Filled
  <2>2. \A r \in Parents \ {p} : ToSet(q) \intersect Kids(r) = {}
    BY <1>0, <1>4 DEF Owned
  <2>3. \A m \in Nodes \ ToSet(q) : m \in unindexed' <=> m \in unindexed
    BY <1>10, <1>11
  <2> QED BY <2>1, <2>2, <2>3, <1>1, <1>4, <1>12, <1>13, <1>14, <1>16, <1>17 DEF Touches
<1>20. ListsRight(p)
  <2>1. \A m \in ToSet(free') : m \in ToSet(free) /\ m \in Nodes \ ToSet(q)
    BY <1>4, <1>15
  <2>2. \A m \in ToSet(free') : tag'[m] = 0 /\ m \notin unindexed'
    BY <2>1, <1>0, <1>10, <1>11, <1>12 DEF Owned
  <2> QED BY <2>1, <2>2, <1>4, <1>12, <1>13, <1>16, <1>17 DEF ListsRight
<1>21. TableRight(p, y)
  <2>1. \A m \in ToSet(q) : m \notin unindexed
    BY <1>0, <1>4 DEF Owned
  <2>2. ToSet(childlist'[p]) \ unindexed' = ToSet(q) \ Q
    BY <2>1, <1>10, <1>13
  <2>3. y.tag = tag' /\ y.key = key'
    BY <1>8, <1>10 DEF Kept
  <2> QED BY <2>2, <2>3, <1>8, <1>14 DEF TableRight
<1>22. call' = NoCall
  BY <1>1
<1> QED BY <1>18, <1>19, <1>20, <1>21, <1>22, StepInv

-----------------------------------------------------------------------------
(***************************************************************************)
(* The theorems.                                                           *)
(***************************************************************************)
LEMMA NextInv ==
  ASSUME IInv, [Next]_vars
  PROVE  IInv'
<1>1. ASSUME NEW p \in Parents, Expand(p) PROVE IInv'
  BY <1>1, ExpandInv
<1>2. ASSUME NEW p \in Parents, NEW d \in Docs, Renew(p, d) PROVE IInv'
  BY <1>2, RenewInv
<1>3. ASSUME NEW p \in Parents, NEW d \in Docs, childlist[p] = <<>>, SetValue(p, d) PROVE IInv'
  BY <1>3, SetValueInv
<1>4. ASSUME NEW p \in Parents, NEW t \in Tags, NEW k \in Keys \union {NoKey}, NEW b \in BOOLEAN,
             InsertChild(p, t, k, b)
      PROVE  IInv'
  BY <1>4, InsertChildInv
<1>5. ASSUME NEW p \in Parents, NEW n \in Nodes, NEW b \in BOOLEAN, Attach(p, n, b) PROVE IInv'
  BY <1>5, AttachInv
<1>6. ASSUME NEW p \in Parents, NEW n \in Nodes, DetachChild(p, n) PROVE IInv'
  BY <1>6, DetachChildInv
<1>7. ASSUME NEW n \in Nodes, DeleteDetached(n) PROVE IInv'
  BY <1>7, DeleteDetachedInv
<1>8. ASSUME NEW p \in Parents, NEW t \in Tags, RemoveChildrenByTag(p, t) PROVE IInv'
  BY <1>8, RemoveChildrenByTagInv
<1>9. ASSUME NEW n \in Nodes, NEW t \in Tags, SetTag(n, t) PROVE IInv'
  BY <1>9, SetTagInv
<1>10. ASSUME NEW n \in Nodes, NEW k \in Keys \union {NoKey}, SetKey(n, k) PROVE IInv'
  BY <1>10, SetKeyInv
<1>16. ASSUME NEW n \in Nodes, NEW k \in Keys \union {NoKey}, SetChildValue(n, k) PROVE IInv'
  BY <1>16, SetChildValueInv
<1>11. ASSUME NEW op \in {"find", "remove"}, NEW p \in Parents, NEW t \in Tags,
              NEW k \in Keys \union {NoKey}, Lookup(op, p, t, k)
       PROVE  IInv'
  BY <1>11, LookupInv
<1>12. CASE GetNext
  BY <1>12, GetNextInv
<1>13. CASE GetEnd
  BY <1>13, GetEndInv
<1>14. CASE RemoveChildByPos
  BY <1>14, RemoveChildByPosInv
<1>15. CASE UNCHANGED vars
  <2>1. UNCHANGED <<child, par, tab, free, aux>> /\ call' = call
    BY <1>15 DEF vars
  <2>2. CallOK'
    BY <2>1 DEF IInv, CallOK, child, aux, IsMatch
  <2>3. call' \in [op : {"none", "find", "remove"}, p : Parents \union {NULL},
                   tag : Tags \union {0}, key : Keys \union {NoKey},
                   c : Nodes \union {NULL}, pos : Nodes \union {NULL}]
    BY <2>1 DEF IInv, TypeOK
  <2> QED BY <2>1, <2>2, <2>3, LookupStep
<1> QED
  BY <1>1, <1>2, <1>3, <1>4, <1>5, <1>6, <1>7, <1>8, <1>9, <1>10, <1>11, <1>12, <1>13, <1>14, <1>15, <1>16
  DEF Next, GetStep

(***************************************************************************)
(* The inductive invariant: the lists of the pool and of the parents have  *)
(* no node in common, every table's slots are straight chains of the       *)
(* children with that hash, and a lookup is at an entry of its slot that   *)
(* all non-matching ones precede (put, increase, remove and the actions of *)
(* KnvNode that call them).                                                *)
(***************************************************************************)
THEOREM Invariance == Spec => []IInv
<1>1. Init => IInv
  BY InitInv
<1>2. IInv /\ [Next]_vars => IInv'
  BY NextInv
<1> QED BY <1>1, <1>2, PTL DEF Spec

(***************************************************************************)
(* The hash table of a node and its list of children name the same nodes,  *)
(* each once and in the slot of its tag and key, and nr counts them, for   *)
(* any number of parents, nodes, tags and keys and any table sizes; only a *)
(* child for which put had no memory is missing.  So no chain ever runs in *)
(* a circle or into the children of another parent.                        *)
(***************************************************************************)
THEOREM Exact == Spec => []IndexExact
<1>1. IInv => IndexExact
  BY InvExact DEF IInv
<1> QED BY <1>1, Invariance, PTL

(***************************************************************************)
(* FindChild, RemoveChild and FindChildByTag answer what the list of       *)
(* children says, whatever was put, moved, renamed and removed before; the *)
(* exceptions are those that LookupRight and ByTagRight name.              *)
(***************************************************************************)
THEOREM Lookups == Spec => []LookupsRight
<1>1. IInv => LookupsRight
  BY InvLookups
<1> QED BY <1>1, Invariance, PTL
=============================================================================
